---------------------------------- MODULE Calls ----------------------------------
(***************************************************************************)
(* A voice or video call (CallSessionService).  It is in memory only.  The *)
(* handlers of the two parties run at once, without a lock; accept is      *)
(* interrupted where it generates the media key.                           *)
(***************************************************************************)
EXTENDS Handlers

VARIABLES
    call,      \* the CallRecord: [state, key]; None before the invitation
    calling,   \* per handler: is it generating a key
    minted,    \* how many keys were generated
    given,     \* history: what rendezvous answered: [key, early], early while a key
               \* was being generated
    over       \* history: a party was told that the call is over

callVars == <<call, calling, minted, given, over>>

\* _TERMINAL
Over == {"declined", "ended", "canceled"}

Call == [state : {"ringing", "accepted"} \cup Over, key : Nat \cup {None}]

ASSUME CallsAssumption == None \notin Call \cup Nat

CallsInit ==
    /\ call = None
    /\ calling = [h \in Handler |-> FALSE]
    /\ minted = 0 /\ given = {} /\ over = FALSE

CallIs(states) == call # None /\ call.state \in states

Invite ==
    /\ call = None
    /\ call' = [state |-> "ringing", key |-> None]
    /\ UNCHANGED <<calling, minted, given, over>>

\* Variant: what is accepted can be accepted.
AcceptAgain(h) ==
    /\ CallIs({"ringing", "accepted"}) /\ ~ calling[h]
    /\ call' = [call EXCEPT !.state = "accepted"]
    /\ calling' = [calling EXCEPT ![h] = (call.key = None)]
    /\ UNCHANGED <<minted, given, over>>

Accept(h) ==
    /\ CallIs({"ringing"}) /\ ~ calling[h]
    /\ call' = [call EXCEPT !.state = "accepted"]
    /\ calling' = [calling EXCEPT ![h] = (call.key = None)]
    /\ UNCHANGED <<minted, given, over>>

MintCallKey(h) ==
    /\ calling[h]
    /\ minted' = minted + 1
    /\ call' = [call EXCEPT !.key = minted']
    /\ calling' = [calling EXCEPT ![h] = FALSE]
    /\ UNCHANGED <<given, over>>

Decline ==
    /\ CallIs({"ringing"})
    /\ call' = [call EXCEPT !.state = "declined"] /\ over' = TRUE
    /\ UNCHANGED <<calling, minted, given>>

\* By the caller while it rings, by either later.
End ==
    /\ \/ CallIs({"ringing"}) /\ call' = [call EXCEPT !.state = "canceled"]
       \/ CallIs({"accepted"}) /\ call' = [call EXCEPT !.state = "ended"]
    /\ over' = TRUE
    /\ UNCHANGED <<calling, minted, given>>

MeetCall ==
    /\ CallIs({"accepted"})
    /\ given' = given \cup {[key |-> call.key, early |-> \E h \in Handler : calling[h]]}
    /\ UNCHANGED <<call, calling, minted, over>>

\* After a restart there is another call with the same id.
RestartCalls ==
    /\ call' = None /\ calling' = [h \in Handler |-> FALSE]
    /\ given' = {} /\ over' = FALSE
    /\ UNCHANGED minted

CallsTypeOK ==
    /\ call \in Call \cup {None}
    /\ calling \in [Handler -> BOOLEAN]
    /\ minted \in Nat
    /\ given \subseteq [key : Nat \cup {None}, early : BOOLEAN]
    /\ over \in BOOLEAN

\* The parties of a call are given one key, and one that is none only if they asked
\* while it was being generated; a call that somebody was told is over is over
\* (accept, rendezvous, end).
CallsAgree ==
    /\ \A g \in given : g.key = None => g.early
    /\ \A g, other \in given : None \in {g.key, other.key} \/ g.key = other.key
    /\ over => CallIs(Over)
================================================================================
