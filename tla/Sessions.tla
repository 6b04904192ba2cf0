-------------------------------- MODULE Sessions --------------------------------
(***************************************************************************)
(* Who is signed in: the sessions that AuthService and PhoneOtpService     *)
(* mint, the copy of them that the Redis bridge keeps for the dispatcher,  *)
(* and what a restart reloads from the state file.                         *)
(*                                                                         *)
(* No lock covers any of it.  A handler is interrupted between what it     *)
(* does to the table, the payload that it saves, the write of the file and *)
(* the call of the cache; a second factor is checked after the session is  *)
(* there; a phone sign-in counts the sessions, then adds its own; a        *)
(* revocation copies the table without some, then puts the copy in its     *)
(* place.  Every handler that saves writes the whole table.                *)
(*                                                                         *)
(* A record in the table is an object that copies of the table share: one  *)
(* that a heartbeat has looked up is told by its user and device.          *)
(*                                                                         *)
(* Not here: passwords and codes (a step happens when they are right),     *)
(* account deletion, and a state file torn by a crash while it is written. *)
(***************************************************************************)
EXTENDS Integers, FiniteSets

CONSTANTS
    Users, Devices,
    Owner,        \* the user each device belongs to
    TwoFa,        \* the users with a second factor
    Threads,      \* connections
    Loads,        \* bound: deployments, and how many requests of each kind a behaviour has
    Ttl,          \* session_ttl_seconds
    CacheTtl,     \* SESSION_TTL_SECONDS of the bridge
    MaxIds,       \* bound: ids sess_1 .. sess_MaxIds
    None

Arrival == {"login", "phone", "request", "heartbeat", "idle", "revoke", "tick", "restart"}

\* Whether a Redis cache is bound, whether phone sign-in is used.
Load == [cached : BOOLEAN, otp : BOOLEAN, left : [Arrival -> Nat]]

ASSUME SessionsAssumption ==
    /\ Owner \in [Devices -> Users]
    /\ TwoFa \subseteq Users
    /\ Loads \subseteq Load
    /\ {Ttl, CacheTtl, MaxIds} \subseteq Nat \ {0}

VARIABLES
    load,      \* the deployment, and the requests that may still come
    sessions,  \* state.sessions
    disk,      \* the sessions in the state file
    cache,     \* the session entries of Redis
    counter,   \* AuthService._session_counter
    clock,
    work,      \* per connection, the request it is in the middle of
    held,      \* history: <<id, user>> of every answered sign-in not ended since
    ended,     \* history: ids that were taken out of the table, and not minted again
    refused,   \* history: ids of which somebody was told that they are ended, not minted again
    undone,    \* history: ids that an older copy of the table took out or brought back
    latest     \* history: per id, whose session it is, and when it was heard of

vars == <<load, sessions, disk, cache, counter, clock, work, held, ended, refused, undone, latest>>

Cached == load.cached
Otp    == load.otp

Id      == 1 .. MaxIds
Session == [user : Users, device : Devices, seen : Nat]
Table   == [Id -> Session \cup {None}]
Entry   == [user : Users, seen : Nat, expires : Nat]
Latest  == [user : Users, heard : Nat]

\* session is the record the request is about, ids what it ends, table a copy of the
\* table or the payload of a save.
Step == [op : {"login", "phone", "request", "heartbeat", "idle", "unknown", "revoke"},
         at : {"fill", "add", "get", "touch", "pop", "copy", "replace",
               "save", "write", "cache", "answer"},
         id : Id, session : Session \cup {None}, device : Devices \cup {None},
         ids : SUBSET Id, table : Table]

Task == {w \in Step :
    /\ w.op \in {"login", "phone"} \/ w.at \in {"fill", "touch"} => w.session # None
    /\ w.at = "add" => w.op = "phone"
    /\ w.at \in {"fill", "add", "get", "touch", "pop", "copy"} => w.ids = {}
    /\ w.at = "replace" => \A id \in w.ids : w.table[id] = None}

ASSUME NoneIsNothing == None \notin Session \cup Entry \cup Latest \cup Step

--------------------------------------------------------------------------------
(* Ids *)

NoSession == [id \in Id |-> None]

Used(table) == {id \in Id : table[id] # None}

HighestId(table) ==
    CHOOSE n \in 0 .. MaxIds :
        /\ \A id \in Used(table) : id <= n
        /\ n = 0 \/ n \in Used(table)

\* What phone sign-in does, for the counter.
CountPlusOne(table) == Cardinality(Used(table)) + 1

NextCounter(table) == HighestId(table) + 1

NextSessionId == Cardinality(Used(sessions)) + 1

Init ==
    /\ load \in Loads
    /\ sessions = NoSession /\ disk = NoSession /\ cache = NoSession
    /\ counter = NextCounter(NoSession) /\ clock = 0
    /\ work = [t \in Threads |-> None]
    /\ held = {} /\ ended = {} /\ refused = {} /\ undone = {}
    /\ latest = NoSession

--------------------------------------------------------------------------------
(* Requests *)

Comes(arrival) ==
    /\ load.left[arrival] > 0
    /\ load' = [load EXCEPT !.left[arrival] = @ - 1]

At(t, at) == work[t] # None /\ work[t].at = at

New(op, at, id, s, d) == [op |-> op, at |-> at, id |-> id, session |-> s, device |-> d,
                          ids |-> {}, table |-> NoSession]

Begins(t, task) == work[t] = None /\ work' = [work EXCEPT ![t] = task]
Goes(t, at)     == work' = [work EXCEPT ![t].at = at]
Done(t)         == work' = [work EXCEPT ![t] = None]

NewSession(d) == [user |-> Owner[d], device |-> d, seen |-> clock]

\* An id that is minted again is nobody's to end.
Minted(t, id, task) ==
    /\ work' = [u \in Threads |->
            IF u = t THEN task
            ELSE IF work[u] = None THEN None ELSE [work[u] EXCEPT !.ids = @ \ {id}]]
    /\ ended' = ended \ {id} /\ refused' = refused \ {id}

\* A session was heard of at a time, which may be before another that is known.
Heard(id, user, time) ==
    latest' = [latest EXCEPT ![id] =
        [user |-> user,
         heard |-> IF latest[id] # None /\ latest[id].heard > time THEN latest[id].heard ELSE time]]

End(ids) ==
    /\ held' = {h \in held : h[1] \notin ids}
    /\ ended' = ended \cup ids

--------------------------------------------------------------------------------
(* Looking a session up *)

NeverIdle(seen) == FALSE

Idle(seen) == clock - seen > Ttl

WriteCache(id, s) ==
    IF Cached
    THEN [cache EXCEPT ![id] = [user |-> s.user, seen |-> s.seen,
                                expires |-> clock + CacheTtl]]
    ELSE cache

\* What resolve_session finds: the cached entry if there is one.
Found(id) == IF cache[id] # None THEN cache[id] ELSE sessions[id]

Accepts(id) == Found(id) # None /\ ~Idle(Found(id).seen)

\* The entry is written back when there was none, in a call of its own.
Resolves(t, op, id, d, next) ==
    /\ Accepts(id)
    /\ Begins(t, New(op, IF Cached /\ cache[id] = None THEN "fill" ELSE next,
                     id, sessions[id], d))

FillCache(t) ==
    /\ At(t, "fill")
    /\ cache' = WriteCache(work[t].id, work[t].session)
    /\ IF work[t].op = "request" THEN Done(t)
       ELSE Goes(t, IF work[t].op = "heartbeat" THEN "get" ELSE "copy")
    /\ UNCHANGED <<load, sessions, disk, counter, clock, held, ended, refused, undone, latest>>

\* A request whose handler does not touch sessions, of interest where it fills the cache.
Request(t, id) ==
    /\ Comes("request") /\ Cached /\ cache[id] = None
    /\ Resolves(t, "request", id, None, "fill")
    /\ UNCHANGED <<sessions, disk, cache, counter, clock, held, ended, refused, undone, latest>>

\* An id that is not found is invalidated.
RefuseUnknown(t, id) ==
    /\ Comes("request") /\ Cached /\ Found(id) = None
    /\ Begins(t, New("unknown", "cache", id, None, None))
    /\ UNCHANGED <<sessions, disk, cache, counter, clock, held, ended, refused, undone, latest>>

--------------------------------------------------------------------------------
(* Signing in *)

Login(t, d) ==
    /\ Comes("login") /\ work[t] = None /\ counter \in Id
    /\ sessions' = [sessions EXCEPT ![counter] = NewSession(d)]
    /\ counter' = counter + 1
    /\ Minted(t, counter, New("login", "save", counter, NewSession(d), None))
    /\ Heard(counter, Owner[d], clock)
    /\ UNCHANGED <<disk, cache, clock, held, undone>>

RollBackLogin(t) ==
    /\ At(t, "answer") /\ work[t].op = "login"
    /\ work[t].session.user \in TwoFa
    /\ sessions' = [sessions EXCEPT ![work[t].id] = None]
    /\ Done(t)
    /\ UNCHANGED <<load, disk, cache, counter, clock, held, ended, refused, undone, latest>>

CountSessions(t, d) ==
    /\ Comes("phone") /\ Otp /\ NextSessionId \in Id
    /\ Begins(t, New("phone", "add", NextSessionId, NewSession(d), None))
    /\ UNCHANGED <<sessions, disk, cache, counter, clock, held, ended, refused, undone, latest>>

AddPhoneSession(t) ==
    /\ At(t, "add")
    /\ sessions' = [sessions EXCEPT ![work[t].id] = work[t].session]
    /\ Minted(t, work[t].id, [work[t] EXCEPT !.at = "save"])
    /\ Heard(work[t].id, work[t].session.user, work[t].session.seen)
    /\ UNCHANGED <<load, disk, cache, counter, clock, held, undone>>

--------------------------------------------------------------------------------
(* Idle sessions, heartbeats, revocations *)

FindIdle(t, id) ==
    /\ Comes("idle") /\ Found(id) # None /\ Idle(Found(id).seen)
    /\ Begins(t, New("idle", "pop", id, None, None))
    /\ UNCHANGED <<sessions, disk, cache, counter, clock, held, ended, refused, undone, latest>>

\* _evict_session
Evict(t) ==
    /\ At(t, "pop")
    /\ sessions' = [sessions EXCEPT ![work[t].id] = None]
    /\ End({work[t].id})
    /\ work' = [work EXCEPT ![t].at = "save", ![t].ids = {work[t].id}]
    /\ UNCHANGED <<load, disk, cache, counter, clock, refused, undone, latest>>

Heartbeat(t, id) ==
    /\ Comes("heartbeat")
    /\ Resolves(t, "heartbeat", id, None, "get")
    /\ UNCHANGED <<sessions, disk, cache, counter, clock, held, ended, refused, undone, latest>>

\* PresenceService.touch looks the session up and reads the clock ...
GetSession(t) ==
    /\ At(t, "get")
    /\ LET id == work[t].id
       IN  \/ sessions[id] = None /\ Done(t) /\ UNCHANGED latest
           \/ /\ sessions[id] # None
              /\ work' = [work EXCEPT ![t].at = "touch",
                                      ![t].session = [sessions[id] EXCEPT !.seen = clock]]
              /\ Heard(id, sessions[id].user, clock)
    /\ UNCHANGED <<load, sessions, disk, cache, counter, clock, held, ended, refused, undone>>

\* The table with the record s at id, if it is that one which is there.
Touched(table, id, s) ==
    IF table[id] # None /\ table[id].user = s.user /\ table[id].device = s.device
    THEN [table EXCEPT ![id] = s] ELSE table

\* ... and assigns last_seen_at.
Touch(t) ==
    /\ At(t, "touch")
    /\ sessions' = Touched(sessions, work[t].id, work[t].session)
    /\ work' = [u \in Threads |->
            IF u = t THEN [work[t] EXCEPT !.at = "save"]
            ELSE IF At(u, "replace")
            THEN [work[u] EXCEPT !.table = Touched(@, work[t].id, work[t].session)]
            ELSE work[u]]
    /\ UNCHANGED <<load, disk, cache, counter, clock, held, ended, refused, undone, latest>>

OnDevice(d) == {id \in Used(sessions) : sessions[id].user = Owner[d] /\ sessions[id].device = d}

RevokeDevice(t, id, d) ==
    /\ Comes("revoke")
    /\ Resolves(t, "revoke", id, d, "copy")
    /\ Found(id).user = Owner[d]
    /\ sessions[id] # None => sessions[id].device # d
    /\ UNCHANGED <<sessions, disk, cache, counter, clock, held, ended, refused, undone, latest>>

\* The comprehension ...
CopySessions(t) ==
    /\ At(t, "copy")
    /\ LET revoked == OnDevice(work[t].device)
       IN  work' = [work EXCEPT
              ![t].at = "replace", ![t].ids = revoked,
              ![t].table = [i \in Id |-> IF i \in revoked THEN None ELSE sessions[i]]]
    /\ UNCHANGED <<load, sessions, disk, cache, counter, clock, held, ended, refused, undone, latest>>

\* Ids that are in one of two tables.
Differ(a, b) == {id \in Id : (a[id] = None) # (b[id] = None)}

\* Variant: the table is not saved.
ReplaceUnsaved(t) ==
    /\ At(t, "replace")
    /\ sessions' = work[t].table
    /\ End(work[t].ids)
    /\ undone' = undone \cup (Differ(sessions, work[t].table) \ work[t].ids)
    /\ Goes(t, "answer")
    /\ UNCHANGED <<load, disk, cache, counter, clock, refused, latest>>

\* ... and the assignment of what it made.
ReplaceSessions(t) ==
    /\ At(t, "replace")
    /\ sessions' = work[t].table
    /\ End(work[t].ids)
    /\ undone' = undone \cup (Differ(sessions, work[t].table) \ work[t].ids)
    /\ Goes(t, "save")
    /\ UNCHANGED <<load, disk, cache, counter, clock, refused, latest>>

--------------------------------------------------------------------------------
(* Saving and answering *)

\* _runtime_payload
TakePayload(t) ==
    /\ At(t, "save")
    /\ work' = [work EXCEPT ![t].at = "write", ![t].table = sessions]
    /\ UNCHANGED <<load, sessions, disk, cache, counter, clock, held, ended, refused, undone, latest>>

\* Another handler changes the table while it is walked: the request ends with an error.
SaveRaises(t) ==
    /\ At(t, "save") /\ \E u \in Threads \ {t} : work[u] # None
    /\ Done(t)
    /\ UNCHANGED <<load, sessions, disk, cache, counter, clock, held, ended, refused, undone, latest>>

\* write_text; what is different from the memory now, and was not, is undone.
WriteFile(t) ==
    /\ At(t, "write")
    /\ disk' = work[t].table
    /\ undone' = undone \cup (Differ(disk, work[t].table) \cap Differ(sessions, work[t].table))
    /\ Goes(t, IF Cached /\ work[t].op \in {"login", "idle"} THEN "cache" ELSE "answer")
    /\ UNCHANGED <<load, sessions, cache, counter, clock, held, ended, refused, latest>>

\* _write_session_cache of a login, _invalidate_session_cache of what was refused
CallCache(t) ==
    /\ At(t, "cache")
    /\ cache' = IF work[t].op = "login" THEN WriteCache(work[t].id, work[t].session)
                ELSE [cache EXCEPT ![work[t].id] = None]
    /\ Goes(t, "answer")
    /\ UNCHANGED <<load, sessions, disk, counter, clock, held, ended, refused, undone, latest>>

\* A session that was ended before its sign-in is answered is nobody's.
Answer(t) ==
    /\ At(t, "answer")
    /\ held' = IF work[t].op \in {"login", "phone"} /\ work[t].id \notin ended
               THEN held \cup {<<work[t].id, work[t].session.user>>} ELSE held
    /\ refused' = refused \cup work[t].ids
    /\ Done(t)
    /\ UNCHANGED <<load, sessions, disk, cache, counter, clock, ended, undone, latest>>

--------------------------------------------------------------------------------
(* Time and restarts *)

\* Redis drops an entry once its time is up.
Tick ==
    /\ Comes("tick")
    /\ clock' = clock + 1
    /\ cache' = [id \in Id |-> IF cache[id] # None /\ cache[id].expires > clock'
                               THEN cache[id] ELSE None]
    /\ UNCHANGED <<sessions, disk, counter, work, held, ended, refused, undone, latest>>

\* Redis outlives the server process; requests in the middle do not.
Restart ==
    /\ Comes("restart")
    /\ sessions' = disk
    /\ counter' = NextCounter(disk)
    /\ work' = [t \in Threads |-> None]
    /\ UNCHANGED <<disk, cache, clock, held, ended, refused, undone, latest>>

Arrives(t) ==
    \/ \E d \in Devices : Login(t, d) \/ CountSessions(t, d)
    \/ \E id \in Id :
          \/ Request(t, id) \/ RefuseUnknown(t, id) \/ FindIdle(t, id) \/ Heartbeat(t, id)
          \/ \E d \in Devices : RevokeDevice(t, id, d)

Proceeds(t) ==
    \/ FillCache(t) \/ AddPhoneSession(t) \/ Evict(t)
    \/ GetSession(t) \/ Touch(t) \/ CopySessions(t) \/ ReplaceSessions(t)
    \/ TakePayload(t) \/ SaveRaises(t) \/ WriteFile(t) \/ CallCache(t)
    \/ Answer(t) \/ RollBackLogin(t)

Next ==
    \/ \E t \in Threads : Arrives(t) \/ Proceeds(t)
    \/ Tick \/ Restart

Spec == Init /\ [][Next]_vars

--------------------------------------------------------------------------------

\* Every variable keeps its type: the tables map ids to sessions, and the
\* counter is at least 1 (auth.py:54-63).
TypeOK ==
    /\ load \in Load
    /\ {sessions, disk} \subseteq Table
    /\ cache \in [Id -> Entry \cup {None}]
    /\ counter \in 1 .. MaxIds + 1 /\ clock \in Nat
    /\ work \in [Threads -> Task \cup {None}]
    /\ held \subseteq Id \X Users
    /\ ended \subseteq Id /\ refused \subseteq Id /\ undone \subseteq Id
    /\ latest \in [Id -> Latest \cup {None}]

\* A session id that was answered to a user is that user's, whichever of the state and
\* the cache it is looked up in, as long as only passwords are used: no later login was
\* given the same id, also after a crash in the middle of other sign-ins, evictions and
\* revocations, unless an older payload or copy of the table took it out (auth.py:96,
\* :54-63).
OwnSession ==
    ~Otp => \A h \in held : h[1] \notin undone /\ Accepts(h[1]) => Found(h[1]).user = h[2]

\* The same when phone sign-in is used, whose ids are to match the "AuthService.login
\* style" (phone_otp.py:240): two sign-ins with the same id are a "counter collision"
\* (validate_session_persistence.py:87).
PhoneOwnSession ==
    \A h \in held : h[1] \notin undone /\ Accepts(h[1]) => Found(h[1]).user = h[2]

\* A session of which nothing was heard for longer than session_ttl_seconds is refused,
\* also when the cache, whose entries live longer, still has it, when two heartbeats
\* cross, or when a restart brought it back (auth.py:190-197, presence.py:69-74).
IdleIsRejected ==
    \A id \in Id : Accepts(id) => clock - latest[id].heard <= Ttl

\* Without a cache, a session of which somebody was told that it was revoked or has
\* expired is never accepted again, whatever requests were in the middle then and
\* wherever the server crashes after, unless an older payload or copy of the table brought
\* it back (presence.py:219-225, auth.py:259-260).
EndedIsRejected ==
    ~Cached => \A id \in refused \ undone : ~Accepts(id)

================================================================================
