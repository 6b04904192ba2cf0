-------------------------- MODULE RemoteSessionProofs --------------------------
(***************************************************************************)
(* Proofs about RemoteSession: its types; that an ended session stays      *)
(* ended; that participants are given one key.                             *)
(***************************************************************************)
EXTENDS RemoteSession, TLAPS

--------------------------------------------------------------------------------
(* The inductive invariant *)

\* The states in which a session may have a key.
Keyed == {"negotiating"} \cup (Terminal \ {"rejected"})

EndOps == {"reject", "cancel", "terminate", "disconnect"}

\* A handler at work is of a connection with requests and has a session; one that
\* ends it has ended it, and rendezvous has found it approved.
Working ==
    \A t \in Threads : work[t] # None =>
        /\ t \in load.threads
        /\ record # None
        /\ work[t].op \in EndOps => record.state \in Terminal
        /\ work[t].at = "mint" => work[t].op = "rendezvous"
        /\ work[t].op = "rendezvous" =>
               record.state \in Keyed /\ (work[t].at = "answer" => record.key # None)

\* Without crashes, what was answered to have ended has ended in memory.
EndedInMemory == (ended /\ ~ load.restarts) => record # None /\ record.state \in Terminal

\* Where one request is served at a time the file has the session as it is in
\* memory, but for what the handler is about to save.
SavedWhere(t) ==
    /\ (work[t] = None \/ work[t].at \in {"mint", "answer"}) => disk = record
    /\ (work[t] # None /\ work[t].at = "write") => work[t].snap = record
    /\ (work[t] # None /\ work[t].at = "mint") => record.key = None

Saved ==
    Serial => /\ load.threads = {} => disk = record
              /\ \A t \in load.threads : SavedWhere(t)

\* There too, what was answered is in memory and in the file.
Answered ==
    Serial =>
        /\ \A k \in given : /\ record # None /\ record.key = k
                            /\ disk # None /\ disk.key = k
        /\ ended => /\ record # None /\ record.state \in Terminal
                    /\ disk # None /\ disk.state \in Terminal

\* While the server is up and no two handlers mint at once, the key answered is the
\* one in memory, and whoever is about to mint knows that there is none.
Unraced ==
    (~ load.restarts /\ ~ raced) =>
        /\ \A k \in given : record # None /\ record.key = k
        /\ \A t \in Threads : (work[t] # None /\ work[t].at = "mint") => record.key = None

IInv == TypeOK /\ Working /\ EndedInMemory /\ Saved /\ Answered /\ Unraced

LEMMA NoneIsNoRecord == None \notin Record /\ None \notin Work
  BY NoneAssumption

LEMMA InitIInv == Init => IInv
<1> SUFFICES ASSUME Init PROVE IInv
  OBVIOUS
<1>1. TypeOK
  <2>1. minted \in 0 .. MaxKeys /\ given \subseteq Key
    BY RemoteSessionAssumption DEF Init
  <2>2. work \in [Threads -> Work \cup {None}]
    BY DEF Init
  <2> QED BY <2>1, <2>2, Zenon DEF Init, TypeOK
<1>2. Working /\ EndedInMemory /\ Saved /\ Answered /\ Unraced
  BY <1>1, RemoteSessionAssumption
     DEF TypeOK, Init, Working, EndedInMemory, Saved, SavedWhere, Answered, Unraced
<1> QED BY <1>1, <1>2 DEF IInv

\* Connections with requests are connections.
LEMMA LoadThreads == TypeOK => load.threads \subseteq Threads
  BY RemoteSessionAssumption DEF TypeOK

\* One request at a time, it is enough to look at its handler.
LEMMA OnlyOneSaves ==
    ASSUME NEW t \in load.threads, load' = load, SavedWhere(t)' PROVE Saved'
  BY DEF Saved, Serial

--------------------------------------------------------------------------------
(* The invitation and the steps from state to state *)

LEMMA CreateInviteKeepsIInv ==
    ASSUME IInv, NEW t \in load.threads, CreateInvite(t) PROVE IInv'
<1> USE NoneIsNoRecord DEF IInv, CreateInvite, Goes, Idle
<1>1. t \in Threads
  BY LoadThreads
<1>2. /\ record' = [state |-> "awaiting_approval", key |-> None]
      /\ record' # None
      /\ work' = [work EXCEPT ![t] = [op |-> "invite", at |-> "persist", snap |-> None]]
  BY DEF Record, Waiting
<1>3. TypeOK'
  BY <1>1 DEF TypeOK, Work, Ops, Record, Waiting
<1>4. \A u \in Threads : work[u] = None
  BY DEF Working
<1>5. Working'
  BY <1>1, <1>2, <1>4 DEF Working, EndOps, TypeOK
<1>6. EndedInMemory'
  BY DEF EndedInMemory
<1>7. Saved'
  <2>1. work'[t] # None /\ work'[t].at = "persist"
    BY <1>1, <1>2 DEF TypeOK, Work, Ops
  <2> QED BY <2>1, OnlyOneSaves DEF SavedWhere
<1>8. Answered'
  BY DEF Answered, Serial
<1>9. Unraced'
  BY <1>1, <1>2, <1>4 DEF Unraced, TypeOK
<1> QED BY <1>3, <1>5, <1>6, <1>7, <1>8, <1>9

\* A step from a state that is not terminal, whatever the step.
LEMMA MovesKeepsIInv ==
    ASSUME IInv, NEW t \in load.threads, NEW op \in Ops \ {"rendezvous"},
           NEW from, NEW to, Moves(t, op, from, to),
           from \cap Terminal = {},
           [record EXCEPT !.state = to] \in Record,
           record.state \in Keyed => to \in Keyed,
           op \in EndOps => to \in Terminal
    PROVE  IInv'
<1> USE NoneIsNoRecord DEF IInv, Moves, Goes, Idle
<1>1. t \in Threads
  BY LoadThreads
<1>2. /\ record # None /\ record \in Record /\ record.state \notin Terminal
      /\ record' = [record EXCEPT !.state = to] /\ record' \in Record
      /\ record'.key = record.key /\ record'.state = to
      /\ work' = [work EXCEPT ![t] = [op |-> op, at |-> "persist", snap |-> None]]
  BY DEF TypeOK, Record
<1>3. record' # None
  BY <1>2, NoneIsNoRecord
<1>4. TypeOK'
  BY <1>1, <1>2 DEF TypeOK, Work
<1>5. Working'
  BY <1>1, <1>2, <1>3 DEF Working, TypeOK
<1>6. EndedInMemory'
  BY <1>2 DEF EndedInMemory
<1>7. Saved'
  <2>1. work'[t] # None /\ work'[t].at = "persist"
    BY <1>1, <1>2 DEF TypeOK, Work, Ops
  <2> QED BY <2>1, OnlyOneSaves DEF SavedWhere
<1>8. Answered'
  BY <1>2, <1>3 DEF Answered, Serial
<1>9. Unraced'
  BY <1>1, <1>2, <1>3 DEF Unraced, TypeOK
<1> QED BY <1>4, <1>5, <1>6, <1>7, <1>8, <1>9

LEMMA StepsKeepIInv ==
    ASSUME IInv, NEW t \in load.threads,
           Approve(t) \/ Reject(t) \/ Cancel(t) \/ Terminate(t) \/ Disconnect(t)
    PROVE  IInv'
<1> USE DEF Waiting, Active, Terminal, Keyed, EndOps, Ops
<1>1. record \in Record \cup {None}
  BY DEF IInv, TypeOK
<1>2. CASE Approve(t)
  <2>1. [record EXCEPT !.state = "approved"] \in Record
    BY <1>1, <1>2 DEF Approve, Moves, Record
  <2> QED BY <1>2, <2>1, MovesKeepsIInv DEF Approve, Moves
<1>3. CASE Reject(t)
  <2>1. [record EXCEPT !.state = "rejected"] \in Record
    BY <1>1, <1>3 DEF Reject, Moves, Record
  <2> QED BY <1>3, <2>1, MovesKeepsIInv DEF Reject, Moves
<1>4. CASE Cancel(t)
  <2>1. [record EXCEPT !.state = "cancelled"] \in Record
    BY <1>1, <1>4 DEF Cancel, Moves, Record
  <2> QED BY <1>4, <2>1, MovesKeepsIInv DEF Cancel, Moves
<1>5. CASE Terminate(t)
  <2>1. [record EXCEPT !.state = "terminated"] \in Record
    BY <1>1, <1>5 DEF Terminate, Moves, Record
  <2> QED BY <1>5, <2>1, MovesKeepsIInv DEF Terminate, Moves
<1>6. CASE Disconnect(t)
  <2>1. [record EXCEPT !.state = "disconnected"] \in Record
    BY <1>1, <1>6 DEF Disconnect, Moves, Record
  <2> QED BY <1>6, <2>1, MovesKeepsIInv DEF Disconnect, Moves
<1> QED BY <1>2, <1>3, <1>4, <1>5, <1>6

--------------------------------------------------------------------------------
(* Rendezvous, saving, minting, answering, restarting *)

LEMMA RendezvousKeepsIInv ==
    ASSUME IInv, NEW t \in load.threads, Rendezvous(t) PROVE IInv'
<1> USE NoneIsNoRecord DEF IInv, Rendezvous, Goes, Idle, Sources
<1>1. t \in Threads
  BY LoadThreads
<1> DEFINE at == IF record.state = "negotiating" THEN KeyCheck ELSE "persist"
<1>2. /\ record # None /\ record \in Record /\ record.state \notin Terminal
      /\ record' \in Record /\ record'.key = record.key /\ record'.state = "negotiating"
      /\ record.state = "negotiating" => record' = record
  BY DEF TypeOK, Record, Active, Terminal
<1>3. /\ at \in {"persist", "mint", "answer"}
      /\ at = "mint" => record'.key = None /\ record' = record
      /\ at = "answer" => record'.key # None /\ record' = record
  BY <1>2 DEF KeyCheck
<1>4. /\ work' = [work EXCEPT ![t] = [op |-> "rendezvous", at |-> at, snap |-> None]]
      /\ [op |-> "rendezvous", at |-> at, snap |-> None] \in Work
  BY <1>3 DEF Work, Ops
<1> HIDE DEF at
<1>5. TypeOK'
  BY <1>1, <1>2, <1>4 DEF TypeOK
<1>6. Working'
  BY <1>1, <1>2, <1>3, <1>4 DEF Working, TypeOK, Keyed, EndOps
<1>7. EndedInMemory'
  BY <1>2 DEF EndedInMemory
<1>8. Saved'
  <2>1. work'[t] = [op |-> "rendezvous", at |-> at, snap |-> None] /\ work'[t] # None
    BY <1>1, <1>4 DEF TypeOK
  <2>2. Serial => at = "persist" \/ disk = record
    <3>1. Serial => SavedWhere(t)
      BY DEF Saved
    <3> QED BY <3>1 DEF SavedWhere
  <2>3. CASE Serial
    <3>1. SavedWhere(t)'
      BY <1>3, <2>1, <2>2, <2>3 DEF SavedWhere
    <3> QED BY <3>1, OnlyOneSaves
  <2>4. CASE ~ Serial
    BY <2>4 DEF Saved, Serial
  <2> QED BY <2>3, <2>4
<1>9. Answered'
  BY <1>2 DEF Answered, Serial
<1>10. Unraced'
  BY <1>1, <1>2, <1>3, <1>4 DEF Unraced, TypeOK
<1> QED BY <1>5, <1>6, <1>7, <1>8, <1>9, <1>10

LEMMA TakeSnapshotKeepsIInv ==
    ASSUME IInv, NEW t \in load.threads, TakeSnapshot(t) PROVE IInv'
<1> USE NoneIsNoRecord DEF IInv, TakeSnapshot, At
<1>1. t \in Threads
  BY LoadThreads
<1>2. work[t] \in Work /\ record \in Record
  BY <1>1 DEF TypeOK, Working
<1> DEFINE w == [op |-> work[t].op, at |-> "write", snap |-> record]
<1>3. work' = [work EXCEPT ![t] = w]
  OBVIOUS
<1>4. w \in Work /\ w # None /\ w.op = work[t].op /\ w.at = "write" /\ w.snap = record
  BY <1>2 DEF Work
<1> HIDE DEF w
<1>5. TypeOK'
  BY <1>1, <1>3, <1>4 DEF TypeOK
<1>6. Working'
  BY <1>1, <1>3, <1>4 DEF Working, TypeOK
<1>7. Saved'
  <2>1. work'[t] # None /\ work'[t].at = "write" /\ work'[t].snap = record
    BY <1>1, <1>3, <1>4 DEF TypeOK
  <2> QED BY <2>1, OnlyOneSaves DEF SavedWhere
<1>8. EndedInMemory' /\ Answered'
  BY DEF EndedInMemory, Answered, Serial
<1>9. Unraced'
  BY <1>1, <1>3, <1>4 DEF Unraced, TypeOK
<1> QED BY <1>5, <1>6, <1>7, <1>8, <1>9

LEMMA WriteKeepsIInv ==
    ASSUME IInv, NEW t \in load.threads, Write(t) PROVE IInv'
<1> USE NoneIsNoRecord DEF IInv, Write, At, Goes
<1>1. t \in Threads
  BY LoadThreads
<1> DEFINE at == IF work[t].op = "rendezvous" THEN KeyCheck ELSE "answer"
<1>2. work[t] \in Work /\ record \in Record /\ record # None
  BY <1>1 DEF TypeOK, Working
<1>3. /\ at \in {"mint", "answer"}
      /\ at = "mint" => work[t].op = "rendezvous" /\ record.key = None
      /\ at = "answer" /\ work[t].op = "rendezvous" => record.key # None
  BY DEF KeyCheck
<1>4. /\ work' = [work EXCEPT ![t] = [op |-> work[t].op, at |-> at, snap |-> None]]
      /\ [op |-> work[t].op, at |-> at, snap |-> None] \in Work
  BY <1>2, <1>3 DEF Work
<1>5. disk' \in Record \cup {None} /\ (Serial => disk' = record)
  <2>1. Serial => SavedWhere(t)
    BY DEF Saved
  <2> QED BY <1>2, <2>1 DEF Work, SavedWhere
<1> HIDE DEF at
<1>6. TypeOK'
  BY <1>1, <1>4, <1>5 DEF TypeOK
<1>7. Working'
  BY <1>1, <1>3, <1>4 DEF Working, TypeOK
<1>8. Saved'
  <2>1. /\ work'[t] = [op |-> work[t].op, at |-> at, snap |-> None]
        /\ work'[t] # None
    BY <1>1, <1>4 DEF TypeOK
  <2>2. CASE Serial
    <3>1. SavedWhere(t)'
      BY <1>3, <1>5, <2>1, <2>2 DEF SavedWhere
    <3> QED BY <3>1, OnlyOneSaves
  <2>3. CASE ~ Serial
    BY <2>3 DEF Saved, Serial
  <2> QED BY <2>2, <2>3
<1>9. EndedInMemory' /\ Answered'
  BY <1>2, <1>5 DEF EndedInMemory, Answered, Serial
<1>10. Unraced'
  BY <1>1, <1>2, <1>3, <1>4 DEF Unraced, TypeOK
<1> QED BY <1>6, <1>7, <1>8, <1>9, <1>10

LEMMA MintKeepsIInv ==
    ASSUME IInv, NEW t \in load.threads, Mint(t) PROVE IInv'
<1> USE NoneIsNoRecord DEF IInv, Mint, At, Goes
<1>1. t \in Threads
  BY LoadThreads
<1>2. /\ work[t] \in Work /\ work[t].op = "rendezvous"
      /\ record \in Record /\ record # None /\ record.state \in Keyed
  BY <1>1 DEF TypeOK, Working
<1>3. minted' \in 0 .. MaxKeys /\ minted + 1 \in Key
  BY RemoteSessionAssumption DEF TypeOK, Key
<1>4. /\ record' \in Record /\ record' # None
      /\ record'.state = record.state /\ record'.key = minted + 1
      /\ record'.key # None
  <2>1. record' \in Record
    BY <1>2, <1>3 DEF Record, Keyed
  <2>2. record'.state = record.state /\ record'.key = minted + 1
    BY <1>2 DEF Record
  <2> QED BY <1>3, <2>1, <2>2, RemoteSessionAssumption DEF Key
<1>5. /\ work' = [work EXCEPT ![t] = [op |-> "rendezvous", at |-> "persist", snap |-> None]]
      /\ [op |-> "rendezvous", at |-> "persist", snap |-> None] \in Work
  BY DEF Work, Ops
<1>6. TypeOK'
  BY <1>1, <1>3, <1>4, <1>5 DEF TypeOK
<1>7. Working'
  BY <1>1, <1>2, <1>4, <1>5 DEF Working, TypeOK, EndOps
<1>8. EndedInMemory'
  BY <1>4 DEF EndedInMemory
<1>9. Saved'
  <2>1. work'[t] # None /\ work'[t].at = "persist"
    BY <1>1, <1>5 DEF TypeOK
  <2> QED BY <2>1, OnlyOneSaves DEF SavedWhere
<1>10. Answered'
  <2>1. Serial => given = {}
    <3>1. Serial => record.key = None
      BY DEF Saved, SavedWhere
    <3>2. Serial => \A k \in given : record.key = k /\ k # None
      BY RemoteSessionAssumption DEF Answered, TypeOK, Key
    <3> QED BY <3>1, <3>2
  <2> QED BY <1>4, <2>1 DEF Answered, Serial
<1>11. Unraced'
  <2>1. CASE load.restarts \/ raced'
    BY <2>1 DEF Unraced
  <2>2. CASE ~ load.restarts /\ ~ raced'
    <3>1. ~ raced /\ \A u \in load.threads \ {t} : ~ At(u, "mint")
      BY <2>2 DEF Races
    <3>2. given = {}
      <4>1. record.key = None /\ \A k \in given : record.key = k /\ k # None
        BY <1>1, <2>2, <3>1, RemoteSessionAssumption DEF Unraced, TypeOK, Key
      <4> QED BY <4>1
    <3>3. \A u \in Threads : ~ (work'[u] # None /\ work'[u].at = "mint")
      BY <1>1, <1>5, <3>1 DEF TypeOK, Working
    <3> QED BY <3>2, <3>3 DEF Unraced
  <2> QED BY <2>1, <2>2 DEF TypeOK
<1> QED BY <1>6, <1>7, <1>8, <1>9, <1>10, <1>11

LEMMA AnswerKeepsIInv ==
    ASSUME IInv, NEW t \in load.threads, Answer(t) PROVE IInv'
<1> USE NoneIsNoRecord DEF IInv, Answer, At
<1>1. t \in Threads
  BY LoadThreads
<1>2. /\ work[t] \in Work /\ record \in Record /\ record # None
      /\ work[t].op \in EndOps => record.state \in Terminal
      /\ work[t].op = "rendezvous" => record.key \in Key
  BY <1>1 DEF TypeOK, Working, Record
<1>3. work' = [work EXCEPT ![t] = None] /\ work'[t] = None
  BY <1>1 DEF TypeOK
<1>4. TypeOK'
  <2>1. given' \subseteq Key
    BY <1>2 DEF TypeOK
  <2>2. ended' \in BOOLEAN
    BY DEF TypeOK
  <2>3. work' \in [Threads -> Work \cup {None}]
    BY <1>3 DEF TypeOK
  <2> QED BY <2>1, <2>2, <2>3 DEF TypeOK
<1>5. Working'
  BY <1>1, <1>3 DEF Working, TypeOK
<1>6. EndedInMemory'
  BY <1>2 DEF EndedInMemory, EndOps
<1>7. Serial => disk = record
  BY DEF Saved, SavedWhere
<1>8. Saved'
  <2>1. CASE Serial
    <3>1. SavedWhere(t)'
      BY <1>3, <1>7, <2>1 DEF SavedWhere
    <3> QED BY <3>1, OnlyOneSaves
  <2>2. CASE ~ Serial
    BY <2>2 DEF Saved, Serial
  <2> QED BY <2>1, <2>2
<1>9. Answered'
  BY <1>2, <1>7 DEF Answered, Serial, EndOps
<1>10. Unraced'
  BY <1>1, <1>2, <1>3 DEF Unraced, TypeOK
<1> QED BY <1>4, <1>5, <1>6, <1>8, <1>9, <1>10

LEMMA RestartKeepsIInv == ASSUME IInv, Restart PROVE IInv'
<1> USE DEF IInv, Restart
<1>1. work' = [t \in Threads |-> None] /\ \A t \in Threads : work'[t] = None
  OBVIOUS
<1>2. TypeOK'
  BY <1>1 DEF TypeOK
<1>3. Working' /\ EndedInMemory'
  BY <1>1 DEF Working, EndedInMemory
<1>4. Saved'
  BY <1>1, LoadThreads DEF Saved, SavedWhere, Serial
<1>5. Answered'
  BY DEF Answered, Serial
<1>6. Unraced'
  BY DEF Unraced
<1> QED BY <1>2, <1>3, <1>4, <1>5, <1>6

LEMMA NextKeepsIInv == IInv /\ [Next]_vars => IInv'
<1> SUFFICES ASSUME IInv, [Next]_vars PROVE IInv'
  OBVIOUS
<1>1. CASE UNCHANGED vars
  BY <1>1 DEF vars, IInv, TypeOK, Working, EndedInMemory, Saved, SavedWhere, Answered, Serial,
              Unraced
<1> QED
  BY <1>1, CreateInviteKeepsIInv, StepsKeepIInv, RendezvousKeepsIInv, TakeSnapshotKeepsIInv,
     WriteKeepsIInv, MintKeepsIInv, AnswerKeepsIInv, RestartKeepsIInv DEF Next, Requests

LEMMA IInvAlways == Spec => []IInv
  BY InitIInv, NextKeepsIInv, PTL DEF Spec

--------------------------------------------------------------------------------
(* Theorems *)

\* Whatever the connections and however they interleave and crash, the variables
\* keep their types: no session has a media key before its target approved it.
THEOREM TypeCorrect == Spec => []TypeOK
<1>1. IInv => TypeOK
  BY DEF IInv
<1> QED BY <1>1, IInvAlways, PTL

\* One key is ever answered for a session: where one request is served at a time,
\* whatever crashes come between and inside requests, and with any number of handlers
\* at once while the server stays up and no two of them generate a key at once.
THEOREM OneKey == Spec => []SameKey
<1>1. IInv => SameKey
  BY DEF IInv, Answered, Unraced, SameKey
<1> QED BY <1>1, IInvAlways, PTL

\* A session whose end was answered stays ended: with any number of handlers at
\* once while the server stays up, and over crashes where one is served at a time.
THEOREM EndedForGood == Spec => []EndedStaysEnded
<1>1. IInv => EndedStaysEnded
  BY DEF IInv, Answered, EndedInMemory, EndedStaysEnded
<1> QED BY <1>1, IInvAlways, PTL

================================================================================
