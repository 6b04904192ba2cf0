------------------------------ MODULE StateStore -------------------------------
(***************************************************************************)
(* How InMemoryState is saved and read back.  Each handler saves all of    *)
(* the state when it has changed some of it, without a lock, to one of     *)
(* three backends:                                                         *)
(*   json      a payload is taken, the file truncated, and written;        *)
(*   sqlite    the rows are deleted, which is committed at once, and then  *)
(*             inserted from the live state in one transaction;            *)
(*   postgres  a payload is taken and replaces the rows in a transaction.  *)
(*             Sessions and remote sessions can also be written singly.    *)
(*                                                                         *)
(* The state is a set of facts.  Not every kind of fact is read back.      *)
(***************************************************************************)
EXTENDS Handlers, FiniteSets

CONSTANTS
    Key,        \* what facts are about: names, numbers
    Backends,   \* the backends considered
    Torn        \* a file that cannot be parsed

ASSUME StateStoreAssumption ==
    /\ IsFiniteSet(Handler)
    /\ Backends \subseteq {"json", "sqlite", "postgres"}

Fact == [kind : {"account", "session", "key", "secret"}, key : Key, id : Nat]

VARIABLES
    backend,   \* fixed
    memory,    \* the facts of the state, those of the seed left out
    file,      \* the facts in the file or the database; {} is what a new one has
    saving,    \* per handler, the save it is in the middle of
    answered,  \* history: the facts that a client was told, and not told otherwise since
    excused    \* history: facts of it that two crossing saves or a crash in one lost

storeVars == <<backend, memory, file, saving, answered, excused>>

Save == [fact : Fact, step : {"begun", "taken", "opened", "deleted"},
         rows : SUBSET Fact, crossed : BOOLEAN]

ASSUME NoneIsNoSave == None \notin Save
ASSUME TornIsNoRows == Torn \notin SUBSET Fact

Rows  == IF file = Torn THEN {} ELSE file
Saves == {h \in Handler : saving[h] # None}

\* The handlers whose payload is taken, or whose rows are deleted, already.
Underway == {h \in Saves : saving[h].step # "begun"}

\* The kinds of facts that are in the file and are read from it.
Kept == [json     |-> {"account", "session", "key"},
         sqlite   |-> {"account", "session", "key"},
         postgres |-> {"account", "session"}]

Loaded(rows) == {f \in rows : f.kind \in Kept[backend]}

StoreInit ==
    /\ backend \in Backends
    /\ memory = {} /\ file = {}
    /\ saving = [h \in Handler |-> None]
    /\ answered = {} /\ excused = {}

\* The state is changed, and save_runtime_state called; the fact is what the request
\* is about.
Change(h, facts, f) ==
    /\ memory' = facts
    /\ saving' = [saving EXCEPT ![h] =
            [fact |-> f, step |-> "begun", rows |-> {}, crossed |-> FALSE]]
    /\ UNCHANGED <<backend, file, excused>>

\* persist_session, persist_remote_session
Single(h) == backend = "postgres" /\ saving[h].fact.kind \in {"session", "key"}

At(h, step) == h \in Saves /\ saving[h].step = step

\* The save is over and the request is answered; a fact that has gone from the memory
\* since is not told.
Tells(h) ==
    /\ answered' = answered \cup ({saving[h].fact} \cap memory)
    /\ saving' = [saving EXCEPT ![h] = None]

\* A payload lands; what it lacks is excused if another save came in between.
Lands(h, rows) ==
    /\ Tells(h)
    /\ excused' = (excused \cup IF saving[h].crossed THEN answered' ELSE {}) \ rows

\* From here on other saves come in between.
Crossing(h, step, rows) ==
    [other \in Handler |->
        IF other = h
        THEN [saving[h] EXCEPT !.step = step, !.rows = rows,
                               !.crossed = @ \/ Underway \ {h} # {}]
        ELSE IF other \in Underway THEN [saving[other] EXCEPT !.crossed = TRUE]
        ELSE saving[other]]

\* Variant: the payload is taken before the state is changed.
TakeBefore(h) ==
    /\ backend \in {"json", "postgres"} /\ At(h, "begun") /\ ~ Single(h)
    /\ saving' = Crossing(h, "taken", memory \ {saving[h].fact})
    /\ UNCHANGED <<backend, memory, file, answered, excused>>

\* _runtime_payload
Take(h) ==
    /\ backend \in {"json", "postgres"} /\ At(h, "begun") /\ ~ Single(h)
    /\ saving' = Crossing(h, "taken", memory)
    /\ UNCHANGED <<backend, memory, file, answered, excused>>

\* write_text opens the file, which is empty then ...
Open(h) ==
    /\ backend = "json" /\ At(h, "taken")
    /\ file' = {}
    /\ saving' = Crossing(h, "opened", saving[h].rows)
    /\ UNCHANGED <<backend, memory, answered, excused>>

\* ... and writes the payload; over what another one has written since, the two may
\* get mixed.
Write(h) ==
    /\ backend = "json" /\ At(h, "opened")
    /\ \/ file' = saving[h].rows /\ Lands(h, saving[h].rows)
       \/ file # {} /\ file' = Torn /\ Lands(h, {})
    /\ UNCHANGED <<backend, memory>>

\* executescript commits what it deletes ...
Delete(h) ==
    /\ backend = "sqlite" /\ At(h, "begun")
    /\ file' = {}
    /\ saving' = Crossing(h, "deleted", {})
    /\ UNCHANGED <<backend, memory, answered, excused>>

\* ... and the rows are read while they are inserted.
Insert(h) ==
    /\ backend = "sqlite" /\ At(h, "deleted")
    /\ file = {} /\ file' = memory
    /\ Tells(h) /\ excused' = excused \ memory
    /\ UNCHANGED <<backend, memory>>

\* PostgresStateRepository.save does not write the keys.
Commit(h) ==
    /\ backend = "postgres" /\ At(h, "taken")
    /\ file' = {f \in saving[h].rows : f.kind # "key"}
    /\ Lands(h, saving[h].rows)
    /\ UNCHANGED <<backend, memory>>

\* upsert_session, upsert_remote_session: a payload that is taken already will not
\* contain the row.
Upsert(h) ==
    /\ At(h, "begun") /\ Single(h)
    /\ file' = file \cup {saving[h].fact}
    /\ answered' = answered \cup ({saving[h].fact} \cap memory)
    /\ saving' = [Crossing(h, "taken", {}) EXCEPT ![h] = None]
    /\ UNCHANGED <<backend, memory, excused>>

\* Another handler changes a table while it is walked, or has inserted the same rows:
\* the save raises, and its request ends with an error.
Fail(h) ==
    /\ \/ backend \in {"json", "postgres"} /\ At(h, "begun") /\ Saves # {h}
       \/ backend = "postgres" /\ At(h, "taken") /\ saving[h].crossed
       \/ backend = "sqlite" /\ At(h, "deleted") /\ (saving[h].crossed \/ Saves # {h})
    /\ saving' = [saving EXCEPT ![h] = None]
    /\ excused' = IF backend = "sqlite" /\ file = {} THEN excused \cup answered ELSE excused
    /\ UNCHANGED <<backend, memory, file, answered>>

StoreStep(h) ==
    \/ Take(h) \/ Open(h) \/ Write(h)
    \/ Delete(h) \/ Insert(h)
    \/ Commit(h) \/ Upsert(h)
    \/ Fail(h)

\* Somebody has cleared the file and not written it yet.
Exposed == \E h \in Saves : saving[h].step \in {"opened", "deleted"}

\* The server is stopped and started again; it does not start from a torn file.
Reload ==
    /\ file # Torn
    /\ memory' = Loaded(file)
    /\ saving' = [h \in Handler |-> None]
    /\ excused' = IF Exposed THEN excused \cup answered ELSE excused
    /\ UNCHANGED <<backend, file, answered>>

StoreTypeOK ==
    /\ backend \in Backends
    /\ memory \subseteq Fact
    /\ file \in (SUBSET Fact) \cup {Torn}
    /\ saving \in [Handler -> Save \cup {None}]
    /\ answered \subseteq Fact /\ excused \subseteq Fact

\* What was answered is in the file, and so in the memory of the next start,
\* unless two saves crossed, the server died in the middle of one, or one raised half-
\* way; crossing saves of sqlite lose nothing that way (save_runtime_state, _save_-
\* sqlite_state).
AnsweredSurvives ==
    ~ Exposed =>
        \A f \in answered \ excused : f.kind \in Kept[backend] => f \in Rows
================================================================================
