----------------------------- MODULE RemoteSession -----------------------------
(***************************************************************************)
(* One remote-control session (RemoteSessionService): the invitation, what *)
(* the participants make of it, and the media key that the first request   *)
(* for rendezvous mints.                                                   *)
(*                                                                         *)
(* Handlers of several connections run at once and no lock covers the      *)
(* record.  A handler is interrupted where it calls out: while the record  *)
(* is turned into a payload and written (persist_remote_session), and      *)
(* while a key is generated.  Its checks and the assignments that follow   *)
(* them are one step.                                                      *)
(*                                                                         *)
(* Permissions are left out: a handler is always of a participant who may  *)
(* do what it does.                                                        *)
(***************************************************************************)
EXTENDS Naturals

CONSTANTS
    Threads,    \* connections
    Loads,      \* the loads considered: [threads, restarts], see below
    MaxKeys,    \* bound: keys generated
    None

ASSUME RemoteSessionAssumption ==
    /\ Loads \subseteq [threads : SUBSET Threads, restarts : BOOLEAN]
    /\ MaxKeys \in Nat
    /\ None \notin 1 .. MaxKeys

Waiting  == {"awaiting_approval"}
Active   == {"approved", "negotiating"}
Terminal == {"cancelled", "rejected", "terminated", "disconnected"}

\* _RENDEZVOUS_SOURCE_STATES
Sources == {"approved", "negotiating"}

VARIABLES
    load,    \* fixed: the connections with requests, and whether the server may crash
    record,  \* the session in memory: [state, key], None before the invitation
    disk,    \* the session in the state file
    work,    \* per thread, the handler it runs: [op, at, snap], None if idle
    minted,  \* how many keys were generated
    given,   \* history: the keys answered to a participant
    ended,   \* history: a participant was told that the session has ended
    raced    \* history: a key was minted while another handler was about to

vars == <<load, record, disk, work, minted, given, ended, raced>>

Ops == {"invite", "approve", "reject", "cancel", "terminate", "disconnect", "rendezvous"}
Key == 1 .. MaxKeys

\* There is a key only once the target has approved.
Record == [state : Waiting \cup Active \cup Terminal, key : {None}]
            \cup [state : {"negotiating"} \cup (Terminal \ {"rejected"}), key : Key]
Work == [op : Ops, at : {"persist", "write", "mint", "answer"}, snap : Record \cup {None}]

ASSUME NoneAssumption == None \notin Record \cup Work

Init ==
    /\ load \in Loads
    /\ record = None /\ disk = None
    /\ work = [t \in Threads |-> None]
    /\ minted = 0 /\ given = {} /\ ended = FALSE /\ raced = FALSE

--------------------------------------------------------------------------------
(* What a handler checks and assigns first *)

Idle(t) == work[t] = None

Goes(t, op, at) == work' = [work EXCEPT ![t] = [op |-> op, at |-> at, snap |-> None]]

CreateInvite(t) ==
    /\ Idle(t) /\ record = None
    /\ record' = [state |-> "awaiting_approval", key |-> None]
    /\ Goes(t, "invite", "persist")
    /\ UNCHANGED <<load, disk, minted, given, ended, raced>>

Moves(t, op, from, to) ==
    /\ Idle(t) /\ record # None /\ record.state \in from
    /\ record' = [record EXCEPT !.state = to]
    /\ Goes(t, op, "persist")
    /\ UNCHANGED <<load, disk, minted, given, ended, raced>>

Approve(t)    == Moves(t, "approve", Waiting, "approved")

\* Rejects what was approved, too.
RejectLate(t) == Moves(t, "reject", Waiting \cup Active, "rejected")

Reject(t)     == Moves(t, "reject", Waiting, "rejected")
Cancel(t)     == Moves(t, "cancel", Waiting \cup Active, "cancelled")
Terminate(t)  == Moves(t, "terminate", Active, "terminated")
Disconnect(t) == Moves(t, "disconnect", Active, "disconnected")

KeyCheck == IF record.key = None THEN "mint" ELSE "answer"

Rendezvous(t) ==
    /\ Idle(t) /\ record # None /\ record.state \in Sources
    /\ record' = [record EXCEPT !.state = "negotiating"]
    /\ Goes(t, "rendezvous", IF record.state = "negotiating" THEN KeyCheck ELSE "persist")
    /\ UNCHANGED <<load, disk, minted, given, ended, raced>>

--------------------------------------------------------------------------------
(* What it does after it was interrupted *)

At(t, at) == work[t] # None /\ work[t].at = at

TakeSnapshot(t) ==
    /\ At(t, "persist")
    /\ work' = [work EXCEPT ![t] = [op |-> @.op, at |-> "write", snap |-> record]]
    /\ UNCHANGED <<load, record, disk, minted, given, ended, raced>>

Write(t) ==
    /\ At(t, "write")
    /\ disk' = work[t].snap
    /\ Goes(t, work[t].op, IF work[t].op = "rendezvous" THEN KeyCheck ELSE "answer")
    /\ UNCHANGED <<load, record, minted, given, ended, raced>>

\* Another handler is about to mint.
Races(t) == \E u \in load.threads \ {t} : At(u, "mint")

\* A key that is answered before it is saved.
MintUnsaved(t) ==
    /\ At(t, "mint") /\ minted < MaxKeys
    /\ minted' = minted + 1
    /\ record' = [record EXCEPT !.key = minted + 1]
    /\ raced' = (raced \/ Races(t))
    /\ Goes(t, "rendezvous", "answer")
    /\ UNCHANGED <<load, disk, given, ended>>

\* A key that is stored together with the state its handler found before.
MintWithState(t) ==
    /\ At(t, "mint") /\ minted < MaxKeys
    /\ minted' = minted + 1
    /\ record' = [state |-> "negotiating", key |-> minted + 1]
    /\ raced' = (raced \/ Races(t))
    /\ Goes(t, "rendezvous", "persist")
    /\ UNCHANGED <<load, disk, given, ended>>

Mint(t) ==
    /\ At(t, "mint") /\ minted < MaxKeys
    /\ minted' = minted + 1
    /\ record' = [record EXCEPT !.key = minted + 1]
    /\ raced' = (raced \/ Races(t))
    /\ Goes(t, "rendezvous", "persist")
    /\ UNCHANGED <<load, disk, given, ended>>

Answer(t) ==
    /\ At(t, "answer")
    /\ given' = IF work[t].op = "rendezvous" THEN given \cup {record.key} ELSE given
    /\ ended' = (ended \/ work[t].op \in {"reject", "cancel", "terminate", "disconnect"})
    /\ work' = [work EXCEPT ![t] = None]
    /\ UNCHANGED <<load, record, disk, minted, raced>>

Restart ==
    /\ load.restarts
    /\ record' = disk
    /\ work' = [t \in Threads |-> None]
    /\ UNCHANGED <<load, disk, minted, given, ended, raced>>

Requests(t) ==
    \/ CreateInvite(t) \/ Approve(t) \/ Reject(t) \/ Cancel(t)
    \/ Terminate(t) \/ Disconnect(t) \/ Rendezvous(t)

Next ==
    \/ \E t \in load.threads :
          \/ Requests(t)
          \/ TakeSnapshot(t) \/ Write(t) \/ Mint(t) \/ Answer(t)
    \/ Restart

Spec == Init /\ [][Next]_vars

--------------------------------------------------------------------------------

\* Every variable keeps its type; in particular a session that its target has
\* not approved has no media key, in memory or in the file
\* (remote_session.py:158-167).
TypeOK ==
    /\ load \in Loads
    /\ record \in Record \cup {None}
    /\ disk \in Record \cup {None}
    /\ work \in [Threads -> Work \cup {None}]
    /\ minted \in 0 .. MaxKeys
    /\ given \subseteq Key
    /\ ended \in BOOLEAN /\ raced \in BOOLEAN

Serial == \A t, u \in load.threads : t = u

\* The participants are given the same media key however often they ask: one request
\* at a time, crashes included, as a key is in the file before it is answered; and
\* while the server is up, unless two handlers were generating one at once
\* (remote_session.py:162-167).
SameKey ==
    Serial \/ (~ load.restarts /\ ~ raced) => \A k, l \in given : k = l

\* A session that a participant was told has ended stays ended, also while other
\* handlers are in the middle of theirs; and, one request at a time, after a crash
\* (remote_session.py:104, persist_remote_session).
EndedStaysEnded ==
    (ended /\ (Serial \/ ~load.restarts)) => record # None /\ record.state \in Terminal

================================================================================
