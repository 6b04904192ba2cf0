----------------------------- MODULE SessionsProofs -----------------------------
(***************************************************************************)
(* Proofs about Sessions: its types; that an idle session is refused; that *)
(* a session id stays with the user it was answered to, while phone        *)
(* sign-in is not used; without a cache, that an ended one is refused.     *)
(***************************************************************************)
EXTENDS Sessions, WellFoundedInduction, TLAPS

--------------------------------------------------------------------------------
(* The counter *)

\* The highest id of a table, 0 for an empty one, bounds every id in it
\* (AuthService._next_session_counter).
LEMMA HighestIdBounds ==
    ASSUME NEW table \in Table
    PROVE  /\ HighestId(table) \in 0 .. MaxIds
           /\ \A id \in Used(table) : id <= HighestId(table)
<1> DEFINE Bounds == {n \in Nat : \A id \in Used(table) : id <= n}
<1>1. MaxIds \in Bounds
  BY SessionsAssumption DEF Used, Id
<1>2. PICK n \in Bounds : \A m \in Bounds : n <= m
  <2> HIDE DEF Bounds
  <2>1. Bounds \subseteq Nat
    BY DEF Bounds
  <2>2. \E n \in Bounds : \A m \in Bounds : ~ (m < n)
    <3>1. \A m, n \in Nat : m < n => <<m, n>> \in OpToRel(<, Nat)
      BY DEF OpToRel
    <3>2. \E n \in Bounds : \A m \in Bounds : <<m, n>> \notin OpToRel(<, Nat)
      BY <1>1, <2>1, NatLessThanWellFounded, WFMin, Zenon
    <3> QED BY <2>1, <3>1, <3>2, Zenon
  <2> QED BY <2>1, <2>2
<1>3. n \in 0 .. MaxIds
  BY <1>1, <1>2, SessionsAssumption
<1>4. n = 0 \/ n \in Used(table)
  <2> SUFFICES ASSUME n # 0, n \notin Used(table) PROVE FALSE
    OBVIOUS
  <2>1. n - 1 \in Nat
    BY <1>3, SessionsAssumption
  <2>2. \A id \in Used(table) : id <= n - 1
    BY <1>2, <1>3, SessionsAssumption DEF Used, Id
  <2>3. n - 1 \in Bounds
    BY <2>1, <2>2
  <2> QED BY <1>2, <2>1, <2>3
<1>5. \A id \in Used(table) : id <= n
  BY <1>2
<1> QED BY <1>3, <1>4, <1>5 DEF HighestId

LEMMA NextCounterType ==
    ASSUME NEW table \in Table
    PROVE  /\ NextCounter(table) \in 1 .. MaxIds + 1
           /\ \A id \in Used(table) : id < NextCounter(table)
  BY HighestIdBounds, SessionsAssumption DEF NextCounter, Used, Id

--------------------------------------------------------------------------------
(* Types *)

Tasks == [Threads -> Task \cup {None}]

LEMMA Distinct ==
    /\ None \notin Session /\ None \notin Entry /\ None \notin Latest
    /\ None \notin Step /\ None \notin Task
  BY NoneIsNothing DEF Task

LEMMA LatestFields ==
    ASSUME NEW l \in [Id -> Latest \cup {None}], NEW id \in Id, l[id] # None
    PROVE  l[id].user \in Users /\ l[id].heard \in Nat
  BY DEF Latest

LEMMA SessionFields ==
    ASSUME NEW table \in Table, NEW id \in Id, table[id] # None
    PROVE  /\ table[id] \in Session
           /\ table[id].user \in Users /\ table[id].device \in Devices /\ table[id].seen \in Nat
  BY DEF Table, Session

LEMMA TaskFields ==
    ASSUME NEW w \in Task
    PROVE  /\ w # None /\ w \in Step
           /\ w.op \in {"login", "phone", "request", "heartbeat", "idle", "unknown", "revoke"}
           /\ w.at \in {"fill", "add", "get", "touch", "pop", "copy", "replace",
                        "save", "write", "cache", "answer"}
           /\ w.id \in Id /\ w.session \in Session \cup {None}
           /\ w.device \in Devices \cup {None} /\ w.ids \in SUBSET Id /\ w.table \in Table
  BY Distinct DEF Task, Step

\* A task that goes on to another step.
LEMMA TaskAt ==
    ASSUME NEW w \in Task,
           NEW at \in {"get", "touch", "copy", "save", "write", "cache", "answer"},
           at = "touch" => w.session # None,
           at \in {"get", "touch", "copy"} => w.ids = {}
    PROVE  [w EXCEPT !.at = at] \in Task
  BY DEF Task, Step

\* A task that begins.
LEMMA NewTask ==
    ASSUME NEW op \in {"login", "phone", "request", "heartbeat", "idle", "unknown", "revoke"},
           NEW at \in {"fill", "add", "get", "pop", "copy", "save", "cache"},
           NEW id \in Id, NEW s \in Session \cup {None}, NEW d \in Devices \cup {None},
           op \in {"login", "phone"} \/ at = "fill" => s # None,
           at = "add" => op = "phone"
    PROVE  New(op, at, id, s, d) \in Task
  BY DEF New, Task, Step, NoSession, Table

LEMMA NewSessionType ==
    ASSUME TypeOK, NEW d \in Devices
    PROVE  NewSession(d) \in Session /\ NewSession(d) # None
  BY SessionsAssumption, Distinct DEF TypeOK, NewSession, Session

LEMMA ComesType ==
    ASSUME TypeOK, NEW arrival \in Arrival, Comes(arrival)
    PROVE  load' \in Load /\ Cached' = Cached /\ Otp' = Otp
  BY DEF TypeOK, Comes, Load, Cached, Otp

LEMMA LoadKept == ASSUME load' = load PROVE Cached' = Cached /\ Otp' = Otp
  BY DEF Cached, Otp

LEMMA WriteCacheType ==
    ASSUME TypeOK, NEW id \in Id, NEW s \in Session
    PROVE  WriteCache(id, s) \in [Id -> Entry \cup {None}]
  BY SessionsAssumption DEF TypeOK, WriteCache, Session, Entry

LEMMA FoundType ==
    ASSUME TypeOK, NEW id \in Id, Found(id) # None
    PROVE  Found(id).user \in Users /\ Found(id).seen \in Nat
  BY DEF TypeOK, Found, Entry, Table, Session

LEMMA HeardType ==
    ASSUME TypeOK, NEW id \in Id, NEW user \in Users, NEW time \in Nat, Heard(id, user, time)
    PROVE  latest' \in [Id -> Latest \cup {None}]
  BY DEF TypeOK, Heard, Latest

LEMMA TouchedType ==
    ASSUME NEW table \in Table, NEW id \in Id, NEW s \in Session
    PROVE  /\ Touched(table, id, s) \in Table
           /\ \A i \in Id : (Touched(table, id, s)[i] = None) <=> (table[i] = None)
           /\ \A i \in Id : Touched(table, id, s)[i] # None =>
                /\ Touched(table, id, s)[i].user = table[i].user
                /\ \/ Touched(table, id, s)[i] = table[i]
                   \/ i = id /\ Touched(table, id, s)[i] = s
  BY Distinct DEF Touched, Table

LEMMA WorkingType ==
    ASSUME TypeOK, NEW t \in Threads, work[t] # None
    PROVE  work[t] \in Task
  BY DEF TypeOK

\* One connection goes on to another step, or begins one, or is done.
LEMMA GoesType ==
    ASSUME TypeOK, NEW t \in Threads, work[t] # None,
           NEW at \in {"get", "touch", "copy", "save", "write", "cache", "answer"},
           at = "touch" => work[t].session # None,
           at \in {"get", "touch", "copy"} => work[t].ids = {},
           Goes(t, at)
    PROVE  work' \in Tasks
  BY WorkingType, TaskAt DEF TypeOK, Goes, Tasks

LEMMA DoneType ==
    ASSUME TypeOK, NEW t \in Threads, Done(t)
    PROVE  work' \in Tasks
  BY DEF TypeOK, Done, Tasks

LEMMA BeginsType ==
    ASSUME TypeOK, NEW t \in Threads, NEW task \in Task, Begins(t, task)
    PROVE  work' \in Tasks
  BY DEF TypeOK, Begins, Tasks

LEMMA MintedType ==
    ASSUME TypeOK, NEW t \in Threads, NEW id \in Id, NEW task \in Task, Minted(t, id, task)
    PROVE  work' \in Tasks /\ ended' \subseteq Id /\ refused' \subseteq Id
<1>1. ASSUME NEW w \in Task PROVE [w EXCEPT !.ids = @ \ {id}] \in Task
  BY DEF Task, Step
<1> QED BY <1>1 DEF TypeOK, Minted, Tasks

LEMMA ResolvesType ==
    ASSUME TypeOK, NEW t \in Threads, NEW id \in Id, NEW d \in Devices \cup {None},
           NEW op \in {"request", "heartbeat", "revoke"}, NEW next \in {"get", "copy"},
           Resolves(t, op, id, d, next)
    PROVE  work' \in Tasks
<1> DEFINE at == IF Cached /\ cache[id] = None THEN "fill" ELSE next
           task == New(op, at, id, sessions[id], d)
<1>1. Begins(t, task)
  BY DEF Resolves
<1>2. sessions[id] \in Session \cup {None} /\ (at = "fill" => sessions[id] # None)
  BY DEF TypeOK, Table, Resolves, Accepts, Found
<1>3. PICK a \in {"fill", "get", "copy"} : a = at
  OBVIOUS
<1>4. task \in Task
  BY <1>2, <1>3, NewTask
<1> QED BY <1>1, <1>4, BeginsType

\* The first request for an id that the cache does not have.
LEMMA FillType ==
    ASSUME TypeOK, NEW t \in Threads, NEW id \in Id, Cached, cache[id] = None,
           Resolves(t, "request", id, None, "fill")
    PROVE  work' \in Tasks
<1> DEFINE task == New("request", "fill", id, sessions[id], None)
<1>1. Begins(t, task)
  BY DEF Resolves
<1>2. sessions[id] \in Session \cup {None} /\ sessions[id] # None
  BY DEF TypeOK, Table, Resolves, Accepts, Found
<1>3. task \in Task
  BY <1>2, NewTask
<1> QED BY <1>1, <1>3, BeginsType

LEMMA InitType == ASSUME Init PROVE TypeOK
<1>1. NoSession \in Table
  BY DEF NoSession, Table
<1>2. NextCounter(NoSession) \in 1 .. MaxIds + 1
  BY <1>1, NextCounterType
<1> QED BY <1>1, <1>2, SessionsAssumption DEF Init, TypeOK, NoSession
\* A request that only changes what its connection is in the middle of.
LEMMA OnlyWorkType ==
    ASSUME TypeOK, work' \in Tasks, load' \in Load,
           UNCHANGED <<sessions, disk, cache, counter, clock, held, ended, refused, undone, latest>>
    PROVE  TypeOK'
  BY DEF TypeOK, Tasks

LEMMA ArrivesType ==
    ASSUME TypeOK, NEW t \in Threads, Arrives(t)
    PROVE  TypeOK'
<1>1. ASSUME NEW d \in Devices, Login(t, d) PROVE TypeOK'
  <2>1. NewSession(d) \in Session /\ NewSession(d) # None /\ Owner[d] \in Users
    BY NewSessionType, SessionsAssumption
  <2>2. load' \in Load
    BY <1>1, ComesType DEF Login, Arrival
  <2>3. counter \in Id /\ clock \in Nat
    BY <1>1 DEF Login, TypeOK
  <2>4. New("login", "save", counter, NewSession(d), None) \in Task
    BY <2>1, <2>3, NewTask
  <2>5. work' \in Tasks /\ ended' \subseteq Id /\ refused' \subseteq Id
    BY <1>1, <2>3, <2>4, MintedType DEF Login
  <2>6. latest' \in [Id -> Latest \cup {None}]
    BY <1>1, <2>1, <2>3, HeardType DEF Login
  <2>7. sessions' \in Table
    BY <1>1, <2>1, <2>3 DEF Login, TypeOK, Table
  <2>8. counter' \in 1 .. MaxIds + 1
    BY <1>1, <2>3, SessionsAssumption DEF Login, Id
  <2>9. UNCHANGED <<disk, cache, clock, held, undone>>
    BY <1>1 DEF Login
  <2> QED BY <2>2, <2>5, <2>6, <2>7, <2>8, <2>9 DEF TypeOK, Tasks
<1>2. ASSUME NEW d \in Devices, CountSessions(t, d) PROVE TypeOK'
  <2>1. NewSession(d) \in Session /\ NewSession(d) # None
    BY NewSessionType
  <2>2. New("phone", "add", NextSessionId, NewSession(d), None) \in Task
    BY <1>2, <2>1, NewTask DEF CountSessions
  <2> QED BY <1>2, <2>2, BeginsType, ComesType, OnlyWorkType DEF CountSessions, Arrival
<1>3. ASSUME NEW id \in Id, Request(t, id) PROVE TypeOK'
  BY <1>3, FillType, ComesType, OnlyWorkType DEF Request, Arrival
<1>4. ASSUME NEW id \in Id, RefuseUnknown(t, id) PROVE TypeOK'
  <2>1. New("unknown", "cache", id, None, None) \in Task
    BY NewTask
  <2> QED BY <1>4, <2>1, BeginsType, ComesType, OnlyWorkType DEF RefuseUnknown, Arrival
<1>5. ASSUME NEW id \in Id, FindIdle(t, id) PROVE TypeOK'
  <2>1. New("idle", "pop", id, None, None) \in Task
    BY NewTask
  <2> QED BY <1>5, <2>1, BeginsType, ComesType, OnlyWorkType DEF FindIdle, Arrival
<1>6. ASSUME NEW id \in Id, Heartbeat(t, id) PROVE TypeOK'
  <2>1. work' \in Tasks
    BY <1>6, ResolvesType DEF Heartbeat
  <2> QED BY <1>6, <2>1, ComesType, OnlyWorkType DEF Heartbeat, Arrival
<1>7. ASSUME NEW id \in Id, NEW d \in Devices, RevokeDevice(t, id, d) PROVE TypeOK'
  <2>1. work' \in Tasks
    BY <1>7, ResolvesType DEF RevokeDevice
  <2> QED BY <1>7, <2>1, ComesType, OnlyWorkType DEF RevokeDevice, Arrival
<1> QED BY <1>1, <1>2, <1>3, <1>4, <1>5, <1>6, <1>7 DEF Arrives

LEMMA ProceedsType ==
    ASSUME TypeOK, NEW t \in Threads, Proceeds(t)
    PROVE  TypeOK'
<1> DEFINE w == work[t]
<1>0. w # None /\ w \in Task
  BY WorkingType DEF Proceeds, At, FillCache, AddPhoneSession, Evict, GetSession, Touch,
     CopySessions, ReplaceSessions, TakePayload, SaveRaises, WriteFile, CallCache, Answer,
     RollBackLogin
<1>w. /\ w.id \in Id /\ w.session \in Session \cup {None} /\ w.ids \in SUBSET Id
      /\ w.table \in Table /\ w.device \in Devices \cup {None}
  BY <1>0, TaskFields
<1>l. load \in Load
  BY DEF TypeOK
<1>1. CASE FillCache(t)
  <2>1. w.session \in Session /\ w.ids = {}
    BY <1>1, <1>0, <1>w DEF FillCache, At, Task
  <2>2. cache' \in [Id -> Entry \cup {None}]
    BY <1>1, <1>w, <2>1, WriteCacheType DEF FillCache
  <2>3. work' \in Tasks
    BY <1>1, <1>0, <2>1, GoesType, DoneType DEF FillCache
  <2> QED BY <1>1, <2>2, <2>3 DEF FillCache, TypeOK, Tasks
<1>2. CASE AddPhoneSession(t)
  <2>1. w.session \in Session /\ w.session # None /\ w.session.user \in Users /\ w.session.seen \in Nat
    BY <1>2, <1>0, <1>w DEF AddPhoneSession, At, Task, Session
  <2>2. [w EXCEPT !.at = "save"] \in Task
    BY <1>0, TaskAt
  <2>3. work' \in Tasks /\ ended' \subseteq Id /\ refused' \subseteq Id
    BY <1>2, <1>w, <2>2, MintedType DEF AddPhoneSession
  <2>4. latest' \in [Id -> Latest \cup {None}]
    BY <1>2, <1>w, <2>1, HeardType DEF AddPhoneSession
  <2>5. sessions' \in Table
    BY <1>2, <1>w, <2>1 DEF AddPhoneSession, TypeOK, Table
  <2> QED BY <1>2, <2>3, <2>4, <2>5 DEF AddPhoneSession, TypeOK, Tasks
<1>3. CASE Evict(t)
  <2>1. ASSUME NEW ids \in SUBSET Id PROVE [w EXCEPT !.at = "save", !.ids = ids] \in Task
    BY <1>0 DEF Task, Step
  <2>2. work' \in Tasks
    BY <1>3, <1>0, <1>w, <2>1 DEF Evict, TypeOK, Tasks
  <2>3. sessions' \in Table
    BY <1>3, <1>w DEF Evict, TypeOK, Table
  <2>4. held' \subseteq Id \X Users /\ ended' \subseteq Id
    BY <1>3, <1>w DEF Evict, End, TypeOK
  <2> QED BY <1>3, <2>2, <2>3, <2>4 DEF Evict, TypeOK, Tasks
<1>4. CASE GetSession(t)
  <2>1. CASE sessions[w.id] = None
    BY <1>4, <2>1, <1>l, DoneType, OnlyWorkType DEF GetSession
  <2>2. CASE sessions[w.id] # None
    <3> DEFINE s == [sessions[w.id] EXCEPT !.seen = clock]
    <3>1. s \in Session /\ s # None /\ sessions[w.id].user \in Users /\ clock \in Nat
      BY <2>2, <1>w, Distinct DEF TypeOK, Table, Session
    <3>2. w.ids = {}
      BY <1>4, <1>0 DEF GetSession, At, Task
    <3>3. [w EXCEPT !.at = "touch", !.session = s] \in Task
      BY <1>0, <3>1, <3>2 DEF Task, Step
    <3>4. work' = [work EXCEPT ![t].at = "touch", ![t].session = s]
      BY <1>4, <2>2 DEF GetSession
    <3>5. work' \in Tasks
      BY <3>3, <3>4 DEF TypeOK, Tasks
    <3>6. latest' \in [Id -> Latest \cup {None}]
      BY <1>4, <2>2, <1>w, <3>1, HeardType DEF GetSession
    <3> QED BY <1>4, <3>5, <3>6 DEF GetSession, TypeOK, Tasks
  <2> QED BY <2>1, <2>2
<1>5. CASE Touch(t)
  <2>1. w.session \in Session
    BY <1>5, <1>0, <1>w DEF Touch, At, Task
  <2>2. sessions' \in Table
    BY <1>5, <1>w, <2>1, TouchedType DEF Touch, TypeOK
  <2>3. [w EXCEPT !.at = "save"] \in Task
    BY <1>0, TaskAt
  <2>4. ASSUME NEW u \in Threads \ {t}, At(u, "replace")
        PROVE  [work[u] EXCEPT !.table = Touched(@, w.id, w.session)] \in Task
    <3>1. work[u] \in Task /\ work[u].table \in Table
      BY <2>4, WorkingType, TaskFields DEF At
    <3>2. PICK tb \in Table : tb = Touched(work[u].table, w.id, w.session)
      BY <3>1, <1>w, <2>1, TouchedType
    <3>3. \A i \in Id : (tb[i] = None) <=> (work[u].table[i] = None)
      BY <3>1, <3>2, <1>w, <2>1, TouchedType
    <3>4. [work[u] EXCEPT !.table = tb] \in Task
      BY <3>1, <3>3 DEF Task, Step
    <3> QED BY <3>2, <3>4
  <2>5. work' \in Tasks
    BY <1>5, <2>3, <2>4 DEF Touch, TypeOK, Tasks
  <2> QED BY <1>5, <2>2, <2>5 DEF Touch, TypeOK, Tasks
<1>6. CASE CopySessions(t)
  <2> DEFINE revoked == OnDevice(w.device)
             copy == [i \in Id |-> IF i \in revoked THEN None ELSE sessions[i]]
  <2>1. revoked \in SUBSET Id
    BY DEF OnDevice, Used
  <2>2. copy \in Table
    BY DEF TypeOK, Table
  <2>3. \A i \in revoked : copy[i] = None
    BY <2>1
  <2>4. work' = [work EXCEPT ![t].at = "replace", ![t].ids = revoked, ![t].table = copy]
    BY <1>6 DEF CopySessions
  <2> HIDE DEF revoked, copy
  <2>5. w.op \notin {"login", "phone"} \/ w.session # None
    BY <1>0 DEF Task
  <2>6. [w EXCEPT !.at = "replace", !.ids = revoked, !.table = copy] \in Task
    BY <1>0, <2>1, <2>2, <2>3, <2>5 DEF Task, Step
  <2>7. work' \in Tasks
    BY <2>4, <2>6 DEF TypeOK, Tasks
  <2> QED BY <1>6, <1>l, <2>7, OnlyWorkType DEF CopySessions
<1>7. CASE ReplaceSessions(t)
  <2>1. work' \in Tasks
    BY <1>7, <1>0, GoesType DEF ReplaceSessions
  <2>2. held' \subseteq Id \X Users /\ ended' \subseteq Id
    BY <1>7, <1>w DEF ReplaceSessions, End, TypeOK
  <2>3. undone' \subseteq Id
    BY <1>7 DEF ReplaceSessions, Differ, TypeOK
  <2> QED BY <1>7, <1>w, <2>1, <2>2, <2>3 DEF ReplaceSessions, TypeOK, Tasks
<1>8. CASE TakePayload(t)
  <2>1. sessions \in Table
    BY DEF TypeOK
  <2>2. [w EXCEPT !.at = "write", !.table = sessions] \in Task
    BY <1>0, <2>1 DEF Task, Step
  <2>3. work' \in Tasks
    BY <1>8, <2>2 DEF TakePayload, TypeOK, Tasks
  <2> QED BY <1>8, <1>l, <2>3, OnlyWorkType DEF TakePayload
<1>9. CASE SaveRaises(t)
  BY <1>9, <1>l, DoneType, OnlyWorkType DEF SaveRaises
<1>10. CASE WriteFile(t)
  <2>1. work' \in Tasks
    BY <1>10, <1>0, GoesType DEF WriteFile
  <2>2. undone' \subseteq Id
    BY <1>10 DEF WriteFile, Differ, TypeOK
  <2> QED BY <1>10, <1>w, <2>1, <2>2 DEF WriteFile, TypeOK, Tasks
<1>11. CASE CallCache(t)
  <2>1. work' \in Tasks
    BY <1>11, <1>0, GoesType DEF CallCache
  <2>2. w.op = "login" => w.session \in Session
    BY <1>0, <1>w DEF Task
  <2>3. cache' \in [Id -> Entry \cup {None}]
    BY <1>11, <1>w, <2>2, WriteCacheType DEF CallCache, TypeOK
  <2> QED BY <1>11, <2>1, <2>3 DEF CallCache, TypeOK, Tasks
<1>12. CASE Answer(t)
  <2>1. work' \in Tasks
    BY <1>12, DoneType DEF Answer
  <2>2. w.op \in {"login", "phone"} => w.session.user \in Users
    BY <1>0, <1>w DEF Task, Session
  <2>3. held' \subseteq Id \X Users /\ refused' \subseteq Id
    BY <1>12, <1>w, <2>2 DEF Answer, TypeOK
  <2> QED BY <1>12, <2>1, <2>3 DEF Answer, TypeOK, Tasks
<1>13. CASE RollBackLogin(t)
  <2>1. sessions' \in Table
    BY <1>13, <1>w DEF RollBackLogin, TypeOK, Table
  <2> QED BY <1>13, <2>1, DoneType DEF RollBackLogin, TypeOK, Tasks
<1> QED BY <1>1, <1>2, <1>3, <1>4, <1>5, <1>6, <1>7, <1>8, <1>9, <1>10, <1>11, <1>12,
           <1>13 DEF Proceeds

LEMMA NextType == ASSUME TypeOK, [Next]_vars PROVE TypeOK'
<1>1. CASE Tick
  BY <1>1, ComesType DEF Tick, TypeOK, Arrival
<1>2. CASE Restart
  <2>1. load' \in Load
    BY <1>2, ComesType DEF Restart, Arrival
  <2>2. counter' \in 1 .. MaxIds + 1
    BY <1>2, NextCounterType DEF Restart, TypeOK
  <2> QED BY <1>2, <2>1, <2>2 DEF Restart, TypeOK
<1>3. CASE UNCHANGED vars
  BY <1>3 DEF vars, TypeOK
<1> QED BY <1>1, <1>2, <1>3, ArrivesType, ProceedsType DEF Next

\* Every behaviour keeps the types: the tables map ids to sessions, the counter is at
\* least 1, and every task that a connection is in the middle of is one that the code
\* can be in (auth.py:54-63, presence.py:55-75).
THEOREM TypeCorrect == Spec => []TypeOK
<1> QED BY InitType, NextType, PTL DEF Spec

--------------------------------------------------------------------------------
(* Idle sessions: nothing is known of a session that was not heard of it *)

Knows(table, l) ==
    \A id \in Id : table[id] # None => l[id] # None /\ table[id].seen <= l[id].heard

\* The record that a task is about, once it is or was in the table.
KnownTask(w, l) ==
    w # None =>
        /\ Knows(w.table, l)
        /\ w.session # None /\ w.at # "add" =>
              l[w.id] # None /\ w.session.seen <= l[w.id].heard

AllKnown(l) ==
    /\ Knows(sessions, l) /\ Knows(disk, l) /\ Knows(cache, l)
    /\ \A t \in Threads : KnownTask(work[t], l)

Grows(l, m) ==
    \A id \in Id : l[id] # None => m[id] # None /\ l[id].heard <= m[id].heard

LEMMA KnowsGrows ==
    ASSUME NEW l \in [Id -> Latest \cup {None}], NEW m \in [Id -> Latest \cup {None}],
           NEW table, \A id \in Id : table[id] # None => table[id].seen \in Nat,
           Grows(l, m), Knows(table, l)
    PROVE  Knows(table, m)
  BY LatestFields DEF Grows, Knows

LEMMA AllKnownGrows ==
    ASSUME TypeOK, NEW m \in [Id -> Latest \cup {None}], Grows(latest, m), AllKnown(latest)
    PROVE  AllKnown(m)
<1>1. \A table \in {sessions, disk} : Knows(table, m)
  BY KnowsGrows, SessionFields DEF TypeOK, AllKnown
<1>2. Knows(cache, m)
  BY KnowsGrows DEF TypeOK, AllKnown, Entry
<1>3. ASSUME NEW t \in Threads, work[t] # None PROVE KnownTask(work[t], m)
  <2>1. work[t].table \in Table /\ work[t].id \in Id /\ work[t].session \in Session \cup {None}
    BY <1>3, WorkingType, TaskFields
  <2>2. Knows(work[t].table, m)
    BY <1>3, <2>1, KnowsGrows, SessionFields DEF AllKnown, KnownTask, TypeOK
  <2>3. ASSUME work[t].session # None, work[t].at # "add"
        PROVE  m[work[t].id] # None /\ work[t].session.seen <= m[work[t].id].heard
    <3>1. latest[work[t].id] # None /\ work[t].session.seen <= latest[work[t].id].heard
      BY <1>3, <2>3 DEF AllKnown, KnownTask
    <3>2. m[work[t].id] # None /\ latest[work[t].id].heard <= m[work[t].id].heard
      BY <2>1, <3>1 DEF Grows
    <3>3. work[t].session.seen \in Nat
      BY <2>1, <2>3 DEF Session
    <3> QED BY <2>1, <3>1, <3>2, <3>3, LatestFields DEF TypeOK
  <2> QED BY <2>2, <2>3 DEF KnownTask
<1> QED BY <1>1, <1>2, <1>3 DEF AllKnown, KnownTask

LEMMA HeardGrows ==
    ASSUME TypeOK, NEW id \in Id, NEW user \in Users, NEW time \in Nat, Heard(id, user, time)
    PROVE  /\ latest' \in [Id -> Latest \cup {None}]
           /\ Grows(latest, latest')
           /\ latest'[id] # None /\ time <= latest'[id].heard /\ latest'[id].user = user
           /\ \A i \in Id : i # id => latest'[i] = latest[i]
<1>1. latest' \in [Id -> Latest \cup {None}]
  BY HeardType
<1>2. latest'[id] =
        [user |-> user,
         heard |-> IF latest[id] # None /\ latest[id].heard > time THEN latest[id].heard ELSE time]
  BY DEF Heard, TypeOK
<1>3. latest'[id] \in Latest /\ latest'[id].user = user
  BY <1>1, <1>2, LatestFields DEF Latest, TypeOK
<1>4. /\ time <= latest'[id].heard
      /\ latest[id] # None => latest[id].heard <= latest'[id].heard
  BY <1>2, LatestFields DEF TypeOK
<1>5. \A i \in Id : i # id => latest'[i] = latest[i]
  BY DEF Heard, TypeOK
<1>6. Grows(latest, latest')
  BY <1>3, <1>4, <1>5, Distinct, LatestFields DEF Grows, TypeOK
<1> QED BY <1>1, <1>3, <1>4, <1>5, <1>6, Distinct

LEMMA TouchedKnown ==
    ASSUME NEW table \in Table, NEW id \in Id, NEW s \in Session, NEW l,
           Knows(table, l), l[id] # None, s.seen <= l[id].heard
    PROVE  Knows(Touched(table, id, s), l)
  BY TouchedType DEF Knows

LEMMA WriteCacheKnown ==
    ASSUME TypeOK, NEW id \in Id, NEW s \in Session, NEW l,
           Knows(cache, l), l[id] # None, s.seen <= l[id].heard
    PROVE  Knows(WriteCache(id, s), l)
  BY DEF TypeOK, Knows, WriteCache

\* A request that was accepted is about the record of the table, which is known.
LEMMA ResolvesKnown ==
    ASSUME TypeOK, AllKnown(latest), NEW t \in Threads, NEW id \in Id,
           NEW op, NEW d, NEW next, Resolves(t, op, id, d, next)
    PROVE  \A u \in Threads : KnownTask(work'[u], latest)
<1> DEFINE task == New(op, IF Cached /\ cache[id] = None THEN "fill" ELSE next,
                       id, sessions[id], d)
<1>1. work' = [work EXCEPT ![t] = task]
  BY DEF Resolves, Begins
<1>2. task.table = NoSession /\ task.session = sessions[id] /\ task.id = id
  BY DEF New
<1>3. KnownTask(task, latest)
  BY <1>2 DEF AllKnown, Knows, KnownTask, NoSession
<1> HIDE DEF task
<1> QED BY <1>1, <1>3 DEF AllKnown, TypeOK

\* Tasks keep their table and record when they go on, and lose ids.
LEMMA GoesKnown ==
    ASSUME TypeOK, AllKnown(latest), NEW t \in Threads, work[t] # None, NEW at,
           work[t].at = "add" => FALSE, Goes(t, at)
    PROVE  \A u \in Threads : KnownTask(work'[u], latest)
<1> DEFINE w == [work[t] EXCEPT !.at = at]
<1>1. work[t] \in Step
  BY WorkingType, TaskFields
<1>2. w.table = work[t].table /\ w.session = work[t].session /\ w.id = work[t].id
  BY <1>1 DEF Step
<1>3. KnownTask(w, latest)
  BY <1>2 DEF AllKnown, KnownTask
<1> HIDE DEF w
<1>4. work' = [work EXCEPT ![t] = w]
  BY DEF Goes, w
<1> QED BY <1>3, <1>4 DEF AllKnown, TypeOK

LEMMA DoneKnown ==
    ASSUME TypeOK, AllKnown(latest), NEW t \in Threads, Done(t)
    PROVE  \A u \in Threads : KnownTask(work'[u], latest)
  BY DEF AllKnown, KnownTask, TypeOK, Done

LEMMA BeginsKnown ==
    ASSUME TypeOK, AllKnown(latest), NEW t \in Threads, NEW task \in Task, Begins(t, task),
           KnownTask(task, latest)
    PROVE  \A u \in Threads : KnownTask(work'[u], latest)
  BY DEF AllKnown, TypeOK, Begins

LEMMA MintedKnown ==
    ASSUME TypeOK, NEW l, AllKnown(l), NEW t \in Threads, NEW id \in Id, NEW task \in Task,
           Minted(t, id, task), KnownTask(task, l)
    PROVE  \A u \in Threads : KnownTask(work'[u], l)
<1>1. ASSUME NEW u \in Threads, u # t, work[u] # None PROVE KnownTask(work'[u], l)
  <2>1. work[u] \in Step
    BY <1>1, WorkingType, TaskFields
  <2> DEFINE w == [work[u] EXCEPT !.ids = @ \ {id}]
  <2>2. w.table = work[u].table /\ w.session = work[u].session /\ w.id = work[u].id
        /\ w.at = work[u].at
    BY <2>1 DEF Step
  <2>3. KnownTask(w, l)
    BY <1>1, <2>2 DEF AllKnown, KnownTask
  <2> QED BY <1>1, <2>3 DEF Minted
<1>2. ASSUME NEW u \in Threads, u # t, work[u] = None PROVE KnownTask(work'[u], l)
  BY <1>2 DEF Minted, KnownTask
<1>3. KnownTask(work'[t], l)
  BY DEF Minted
<1> QED BY <1>1, <1>2, <1>3

LEMMA ArrivesKnown ==
    ASSUME TypeOK, AllKnown(latest), NEW t \in Threads, Arrives(t)
    PROVE  AllKnown(latest)'
<1>0. ASSUME \A u \in Threads : KnownTask(work'[u], latest),
             UNCHANGED <<sessions, disk, cache, latest>>
      PROVE  AllKnown(latest)'
  BY <1>0 DEF AllKnown
<1>1. ASSUME NEW d \in Devices, Login(t, d) PROVE AllKnown(latest)'
  <2> DEFINE s == NewSession(d)
             task == New("login", "save", counter, s, None)
  <2>1. s \in Session /\ s # None /\ s.seen = clock /\ Owner[d] \in Users
    BY NewSessionType, SessionsAssumption DEF NewSession
  <2>2. counter \in Id /\ clock \in Nat
    BY <1>1 DEF Login, TypeOK
  <2>3. /\ latest' \in [Id -> Latest \cup {None}] /\ Grows(latest, latest')
        /\ latest'[counter] # None /\ clock <= latest'[counter].heard
    BY <1>1, <2>1, <2>2, HeardGrows DEF Login
  <2>4. AllKnown(latest')
    BY <2>3, AllKnownGrows
  <2>5. task \in Task /\ task.session = s /\ task.id = counter /\ task.table = NoSession
    BY <2>1, <2>2, NewTask DEF New
  <2>6. KnownTask(task, latest')
    BY <2>1, <2>3, <2>5 DEF KnownTask, Knows, NoSession
  <2>7. sessions' = [sessions EXCEPT ![counter] = s]
    BY <1>1 DEF Login
  <2>8. Minted(t, counter, task) /\ UNCHANGED <<disk, cache>>
    BY <1>1 DEF Login
  <2> HIDE DEF s, task
  <2>9. \A u \in Threads : KnownTask(work'[u], latest')
    BY <2>2, <2>4, <2>5, <2>6, <2>8, MintedKnown
  <2>10. Knows(sessions', latest')
    BY <2>1, <2>3, <2>4, <2>7 DEF AllKnown, Knows, TypeOK, Table
  <2> QED BY <2>4, <2>8, <2>9, <2>10 DEF AllKnown
<1>2. ASSUME NEW d \in Devices, CountSessions(t, d) PROVE AllKnown(latest)'
  <2> DEFINE task == New("phone", "add", NextSessionId, NewSession(d), None)
  <2>1. task \in Task /\ task.at = "add" /\ task.table = NoSession
    BY <1>2, NewSessionType, NewTask DEF CountSessions, New
  <2>2. KnownTask(task, latest)
    BY <2>1 DEF KnownTask, Knows, NoSession
  <2> HIDE DEF task
  <2>3. Begins(t, task)
    BY <1>2 DEF CountSessions, task
  <2> QED BY <1>0, <1>2, <2>1, <2>2, <2>3, BeginsKnown DEF CountSessions
<1>3. ASSUME NEW id \in Id, Request(t, id) PROVE AllKnown(latest)'
  BY <1>0, <1>3, ResolvesKnown DEF Request
<1>4. ASSUME NEW id \in Id, RefuseUnknown(t, id) \/ FindIdle(t, id) PROVE AllKnown(latest)'
  <2>1. ASSUME NEW op \in {"idle", "unknown"}, NEW at \in {"pop", "cache"},
               Begins(t, New(op, at, id, None, None))
        PROVE  \A u \in Threads : KnownTask(work'[u], latest)
    <3> DEFINE task == New(op, at, id, None, None)
    <3>1. task \in Task /\ task.session = None /\ task.table = NoSession
      BY NewTask DEF New
    <3>2. KnownTask(task, latest)
      BY <3>1 DEF KnownTask, Knows, NoSession
    <3> HIDE DEF task
    <3> QED BY <2>1, <3>1, <3>2, BeginsKnown DEF task
  <2> QED BY <1>0, <1>4, <2>1 DEF RefuseUnknown, FindIdle
<1>5. ASSUME NEW id \in Id, Heartbeat(t, id) PROVE AllKnown(latest)'
  BY <1>0, <1>5, ResolvesKnown DEF Heartbeat
<1>6. ASSUME NEW id \in Id, NEW d \in Devices, RevokeDevice(t, id, d) PROVE AllKnown(latest)'
  BY <1>0, <1>6, ResolvesKnown DEF RevokeDevice
<1> QED BY <1>1, <1>2, <1>3, <1>4, <1>5, <1>6 DEF Arrives

LEMMA ProceedsKnown ==
    ASSUME TypeOK, AllKnown(latest), NEW t \in Threads, Proceeds(t)
    PROVE  AllKnown(latest)'
<1> DEFINE w == work[t]
<1>0. w # None /\ w \in Task /\ w \in Step
  BY WorkingType, TaskFields DEF Proceeds, At, FillCache, AddPhoneSession, Evict, GetSession,
     Touch, CopySessions, ReplaceSessions, TakePayload, SaveRaises, WriteFile, CallCache, Answer,
     RollBackLogin
<1>w. /\ w.id \in Id /\ w.session \in Session \cup {None} /\ w.ids \in SUBSET Id
      /\ w.table \in Table /\ w.device \in Devices \cup {None}
  BY <1>0, TaskFields
<1>k. Knows(w.table, latest) /\ Knows(sessions, latest) /\ KnownTask(w, latest)
  BY <1>0 DEF AllKnown, KnownTask
<1>s. \A u \in Threads : KnownTask(work[u], latest)
  BY DEF AllKnown
<1>1. CASE FillCache(t)
  <2>1. w.session \in Session /\ w.session # None /\ w.at # "add"
    BY <1>1, <1>0, <1>w DEF FillCache, At, Task
  <2>2. Knows(cache', latest)
    BY <1>1, <1>0, <1>w, <1>k, <2>1, WriteCacheKnown DEF FillCache, AllKnown, KnownTask
  <2>3. \A u \in Threads : KnownTask(work'[u], latest)
    BY <1>1, <1>0, <2>1, GoesKnown, DoneKnown DEF FillCache
  <2> QED BY <1>1, <2>2, <2>3 DEF FillCache, AllKnown
<1>2. CASE AddPhoneSession(t)
  <2> DEFINE task == [w EXCEPT !.at = "save"]
  <2>1. w.session \in Session /\ w.session # None /\ w.session.user \in Users /\ w.session.seen \in Nat
    BY <1>2, <1>0, <1>w DEF AddPhoneSession, At, Task, Session
  <2>2. task \in Task /\ task.session = w.session /\ task.id = w.id /\ task.table = w.table
    BY <1>0, TaskAt DEF Step
  <2>3. /\ latest' \in [Id -> Latest \cup {None}] /\ Grows(latest, latest')
        /\ latest'[w.id] # None /\ w.session.seen <= latest'[w.id].heard
    BY <1>2, <1>w, <2>1, HeardGrows DEF AddPhoneSession
  <2>4. AllKnown(latest')
    BY <2>3, AllKnownGrows
  <2>5. KnownTask(task, latest')
    BY <1>0, <2>2, <2>3, <2>4 DEF AllKnown, KnownTask
  <2>6. Minted(t, w.id, task) /\ UNCHANGED <<disk, cache>>
    BY <1>2 DEF AddPhoneSession
  <2> HIDE DEF task
  <2>7. \A u \in Threads : KnownTask(work'[u], latest')
    BY <1>w, <2>2, <2>4, <2>5, <2>6, MintedKnown
  <2>8. Knows(sessions', latest')
    BY <1>2, <1>w, <2>1, <2>3, <2>4 DEF AddPhoneSession, AllKnown, Knows, TypeOK, Table
  <2> QED BY <2>4, <2>6, <2>7, <2>8 DEF AllKnown
<1>3. CASE Evict(t)
  <2> DEFINE task == [w EXCEPT !.at = "save", !.ids = {w.id}]
  <2>1. task.session = w.session /\ task.id = w.id /\ task.table = w.table
    BY <1>0 DEF Step
  <2>2. KnownTask(task, latest)
    BY <1>3, <1>0, <1>k, <2>1 DEF KnownTask, Evict, At
  <2>3. work' = [work EXCEPT ![t] = task]
    BY <1>3 DEF Evict
  <2> HIDE DEF task
  <2>4. \A u \in Threads : KnownTask(work'[u], latest)
    BY <1>s, <2>2, <2>3 DEF TypeOK
  <2>5. Knows(sessions', latest)
    BY <1>3, <1>k, <1>w DEF Evict, Knows, TypeOK, Table
  <2> QED BY <1>3, <2>4, <2>5 DEF Evict, AllKnown
<1>4. CASE GetSession(t)
  <2>1. CASE sessions[w.id] = None
    BY <1>4, <2>1, DoneKnown DEF GetSession, AllKnown
  <2>2. CASE sessions[w.id] # None
    <3> DEFINE s == [sessions[w.id] EXCEPT !.seen = clock]
               task == [w EXCEPT !.at = "touch", !.session = s]
    <3>1. s.seen = clock /\ sessions[w.id].user \in Users /\ clock \in Nat
      BY <2>2, <1>w, Distinct DEF TypeOK, Table, Session
    <3>2. /\ latest' \in [Id -> Latest \cup {None}] /\ Grows(latest, latest')
          /\ latest'[w.id] # None /\ clock <= latest'[w.id].heard
      BY <1>4, <2>2, <1>w, <3>1, HeardGrows DEF GetSession
    <3>3. AllKnown(latest')
      BY <3>2, AllKnownGrows
    <3>4. task.session = s /\ task.id = w.id /\ task.table = w.table
      BY <1>0 DEF Step
    <3>5. work' = [work EXCEPT ![t] = task]
      BY <1>4, <2>2 DEF GetSession
    <3> HIDE DEF s, task
    <3>6. KnownTask(task, latest')
      BY <1>0, <3>1, <3>2, <3>3, <3>4 DEF KnownTask, AllKnown
    <3>7. \A u \in Threads : KnownTask(work'[u], latest')
      BY <3>3, <3>5, <3>6 DEF AllKnown, TypeOK
    <3> QED BY <1>4, <3>3, <3>7 DEF GetSession, AllKnown
  <2> QED BY <2>1, <2>2
<1>5. CASE Touch(t)
  <2>1. w.session \in Session /\ w.session # None /\ w.at # "add"
    BY <1>5, <1>0, <1>w DEF Touch, At, Task
  <2>2. latest[w.id] # None /\ w.session.seen <= latest[w.id].heard
    BY <1>0, <1>k, <2>1 DEF KnownTask
  <2>3. Knows(sessions', latest)
    BY <1>5, <1>k, <1>w, <2>1, <2>2, TouchedKnown DEF Touch, TypeOK
  <2>4. ASSUME NEW u \in Threads, u # t, At(u, "replace") PROVE KnownTask(work'[u], latest)
    <3> DEFINE task == [work[u] EXCEPT !.table = Touched(@, w.id, w.session)]
    <3>1. work[u] \in Step /\ work[u].table \in Table /\ KnownTask(work[u], latest) /\ work[u] # None
      BY <1>s, <2>4, WorkingType, TaskFields DEF At
    <3>2. Knows(Touched(work[u].table, w.id, w.session), latest)
      BY <1>w, <2>1, <2>2, <3>1, TouchedKnown DEF KnownTask
    <3>3. /\ task.session = work[u].session /\ task.id = work[u].id /\ task.at = work[u].at
          /\ task.table = Touched(work[u].table, w.id, w.session)
      BY <3>1 DEF Step
    <3>4. KnownTask(task, latest)
      BY <3>1, <3>2, <3>3 DEF KnownTask
    <3> QED BY <1>5, <2>4, <3>4 DEF Touch
  <2>5. ASSUME NEW u \in Threads, u # t, ~At(u, "replace") PROVE KnownTask(work'[u], latest)
    BY <1>5, <1>s, <2>5 DEF Touch
  <2>6. KnownTask(work'[t], latest)
    <3> DEFINE task == [w EXCEPT !.at = "save"]
    <3>1. task.session = w.session /\ task.id = w.id /\ task.table = w.table
      BY <1>0 DEF Step
    <3>2. KnownTask(task, latest)
      BY <1>0, <1>k, <2>1, <3>1 DEF KnownTask
    <3> QED BY <1>5, <3>2 DEF Touch
  <2> QED BY <1>5, <2>3, <2>4, <2>5, <2>6 DEF Touch, AllKnown
<1>6. CASE CopySessions(t)
  <2> DEFINE revoked == OnDevice(w.device)
             copy == [i \in Id |-> IF i \in revoked THEN None ELSE sessions[i]]
             task == [w EXCEPT !.at = "replace", !.ids = revoked, !.table = copy]
  <2>1. Knows(copy, latest)
    BY <1>k DEF Knows
  <2>2. task.session = w.session /\ task.id = w.id /\ task.table = copy
    BY <1>0 DEF Step
  <2>3. KnownTask(task, latest)
    BY <1>6, <1>0, <1>k, <2>1, <2>2 DEF KnownTask, CopySessions, At
  <2>4. work' = [work EXCEPT ![t] = task]
    BY <1>6 DEF CopySessions
  <2> HIDE DEF task
  <2>5. \A u \in Threads : KnownTask(work'[u], latest)
    BY <1>s, <2>3, <2>4 DEF TypeOK
  <2> QED BY <1>6, <2>5 DEF CopySessions, AllKnown
<1>7. CASE ReplaceSessions(t)
  BY <1>7, <1>0, <1>k, GoesKnown DEF ReplaceSessions, At, AllKnown
<1>8. CASE TakePayload(t)
  <2> DEFINE task == [w EXCEPT !.at = "write", !.table = sessions]
  <2>1. task.session = w.session /\ task.id = w.id /\ task.table = sessions
    BY <1>0 DEF Step
  <2>2. KnownTask(task, latest)
    BY <1>8, <1>0, <1>k, <2>1 DEF KnownTask, TakePayload, At
  <2>3. work' = [work EXCEPT ![t] = task]
    BY <1>8 DEF TakePayload
  <2> HIDE DEF task
  <2>4. \A u \in Threads : KnownTask(work'[u], latest)
    BY <1>s, <2>2, <2>3 DEF TypeOK
  <2> QED BY <1>8, <2>4 DEF TakePayload, AllKnown
<1>9. CASE SaveRaises(t)
  BY <1>9, DoneKnown DEF SaveRaises, AllKnown
<1>10. CASE WriteFile(t)
  BY <1>10, <1>0, <1>k, GoesKnown DEF WriteFile, At, AllKnown
<1>11. CASE CallCache(t)
  <2>1. \A u \in Threads : KnownTask(work'[u], latest)
    BY <1>11, <1>0, GoesKnown DEF CallCache, At
  <2>2. Knows(cache', latest)
    <3>1. CASE w.op = "login"
      <4>1. w.session \in Session /\ w.session # None /\ w.at # "add"
        BY <1>11, <1>0, <1>w, <3>1 DEF Task, CallCache, At
      <4> QED BY <1>11, <1>0, <1>k, <1>w, <3>1, <4>1, WriteCacheKnown
           DEF CallCache, AllKnown, KnownTask
    <3>2. CASE w.op # "login"
      BY <1>11, <3>2 DEF CallCache, AllKnown, Knows, TypeOK
    <3> QED BY <3>1, <3>2
  <2> QED BY <1>11, <2>1, <2>2 DEF CallCache, AllKnown
<1>12. CASE Answer(t)
  BY <1>12, DoneKnown DEF Answer, AllKnown
<1>13. CASE RollBackLogin(t)
  <2>1. Knows(sessions', latest)
    BY <1>13, <1>k DEF RollBackLogin, Knows, TypeOK, Table
  <2> QED BY <1>13, <2>1, DoneKnown DEF RollBackLogin, AllKnown
<1> QED BY <1>1, <1>2, <1>3, <1>4, <1>5, <1>6, <1>7, <1>8, <1>9, <1>10, <1>11, <1>12,
           <1>13 DEF Proceeds

LEMMA InitKnown == ASSUME Init PROVE AllKnown(latest)
  BY DEF Init, AllKnown, Knows, KnownTask, NoSession

LEMMA NextKnown ==
    ASSUME TypeOK, AllKnown(latest), [Next]_vars
    PROVE  AllKnown(latest)'
<1>1. CASE Tick
  BY <1>1 DEF Tick, AllKnown, Knows
<1>2. CASE Restart
  BY <1>2 DEF Restart, AllKnown, KnownTask
<1>3. CASE UNCHANGED vars
  BY <1>3 DEF vars, AllKnown
<1> QED BY <1>1, <1>2, <1>3, ArrivesKnown, ProceedsKnown DEF Next

LEMMA KnownIdle == ASSUME TypeOK, AllKnown(latest) PROVE IdleIsRejected
<1> SUFFICES ASSUME NEW id \in Id, Accepts(id) PROVE clock - latest[id].heard <= Ttl
  BY DEF IdleIsRejected
<1>1. Found(id) # None /\ Found(id).seen \in Nat
  BY FoundType DEF Accepts
<1>2. latest[id] # None /\ Found(id).seen <= latest[id].heard
  BY <1>1 DEF AllKnown, Knows, Found
<1>3. latest[id].heard \in Nat /\ clock \in Nat
  BY <1>2, LatestFields DEF TypeOK
<1>4. clock - Found(id).seen <= Ttl
  BY <1>1, <1>3, SessionsAssumption DEF Accepts, Idle
<1> QED BY <1>1, <1>2, <1>3, <1>4, SessionsAssumption

\* Whatever the deployment and whoever mints the ids, a session that was not heard of for
\* longer than its lifetime is refused: nothing that is in the state, in the file, in the
\* cache or on its way there is later than what was heard (auth.py:190-197,
\* presence.py:69-74).
THEOREM IdleIsRefused == Spec => []IdleIsRejected
<1>1. Init => TypeOK /\ AllKnown(latest)
  BY InitType, InitKnown
<1>2. TypeOK /\ AllKnown(latest) /\ [Next]_vars => TypeOK' /\ AllKnown(latest)'
  BY NextType, NextKnown
<1>3. TypeOK /\ AllKnown(latest) => IdleIsRejected
  BY KnownIdle
<1> QED BY <1>1, <1>2, <1>3, PTL DEF Spec

--------------------------------------------------------------------------------
(* Ended sessions *)

\* What a step of one connection leaves another's task.
SameTask(v, w) ==
    /\ v = None <=> w = None
    /\ v # None =>
          /\ w.op = v.op /\ w.at = v.at /\ w.id = v.id /\ w.session = v.session
          /\ w.ids \subseteq v.ids
          /\ \A id \in Id :
                /\ w.table[id] = None <=> v.table[id] = None
                /\ w.table[id] # None => w.table[id].user = v.table[id].user

LEMMA OthersSame ==
    ASSUME TypeOK, NEW t \in Threads, Arrives(t) \/ Proceeds(t),
           NEW u \in Threads, u # t
    PROVE  SameTask(work[u], work'[u])
<1>1. ASSUME work'[u] = work[u] PROVE SameTask(work[u], work'[u])
  BY <1>1 DEF SameTask
<1>2. CASE Touch(t) /\ At(u, "replace")
  <2>1. work[t] # None /\ work[t] \in Task /\ work[t].at = "touch"
    BY <1>2, WorkingType DEF Touch, At
  <2>2. work[t].session \in Session /\ work[t].id \in Id
    BY <2>1, TaskFields DEF Task
  <2>3. work[u] \in Step /\ work[u].table \in Table /\ work[u] # None
    BY <1>2, WorkingType, TaskFields DEF At
  <2> DEFINE tb == Touched(work[u].table, work[t].id, work[t].session)
             w == [work[u] EXCEPT !.table = Touched(@, work[t].id, work[t].session)]
  <2>4. /\ w.op = work[u].op /\ w.at = work[u].at /\ w.id = work[u].id
        /\ w.session = work[u].session /\ w.ids = work[u].ids /\ w.table = tb
    BY <2>3 DEF Step
  <2>5. tb \in Table /\ \A id \in Id : /\ tb[id] = None <=> work[u].table[id] = None
                                       /\ tb[id] # None => tb[id].user = work[u].table[id].user
    BY <2>2, <2>3, TouchedType
  <2>6. work'[u] = w
    BY <1>2 DEF Touch
  <2>7. work'[u] # None
    <3>1. w \in Step
      BY <2>3, <2>5 DEF Step
    <3> QED BY <2>6, <3>1, Distinct
  <2> HIDE DEF tb, w
  <2> QED BY <2>3, <2>4, <2>5, <2>6, <2>7 DEF SameTask
<1>3. CASE Touch(t) /\ ~At(u, "replace")
  BY <1>1, <1>3 DEF Touch
<1>4. ASSUME NEW id \in Id, NEW task, Minted(t, id, task)
      PROVE  SameTask(work[u], work'[u])
  <2>1. CASE work[u] = None
    BY <1>4, <2>1 DEF Minted, SameTask
  <2>2. CASE work[u] # None
    <3> DEFINE w == [work[u] EXCEPT !.ids = @ \ {id}]
    <3>1. work[u] \in Step
      BY <2>2, WorkingType, TaskFields
    <3>2. /\ w.op = work[u].op /\ w.at = work[u].at /\ w.id = work[u].id
          /\ w.session = work[u].session /\ w.ids = work[u].ids \ {id} /\ w.table = work[u].table
          /\ w \in Step
      BY <3>1 DEF Step
    <3>3. work'[u] = w
      BY <1>4, <2>2 DEF Minted
    <3> HIDE DEF w
    <3> QED BY <2>2, <3>2, <3>3, Distinct DEF SameTask
  <2> QED BY <2>1, <2>2
<1>5. ASSUME NEW d \in Devices, Login(t, d) PROVE SameTask(work[u], work'[u])
  BY <1>4, <1>5 DEF Login
<1>6. CASE AddPhoneSession(t)
  <2>1. work[t].id \in Id
    BY <1>6, WorkingType, TaskFields DEF AddPhoneSession, At
  <2> QED BY <1>4, <1>6, <2>1 DEF AddPhoneSession
<1>7. CASE Arrives(t)
  <2>1. ASSUME NEW task, Begins(t, task) PROVE work'[u] = work[u]
    BY <2>1 DEF Begins, TypeOK
  <2> QED BY <1>1, <1>5, <1>7, <2>1
       DEF Arrives, CountSessions, Request, RefuseUnknown, FindIdle, Heartbeat, RevokeDevice,
           Resolves
<1>8. ASSUME Proceeds(t), ~Touch(t), ~AddPhoneSession(t) PROVE work'[u] = work[u]
  <2>1. ASSUME NEW at, Goes(t, at) PROVE work'[u] = work[u]
    BY <2>1 DEF Goes, TypeOK
  <2>2. ASSUME Done(t) PROVE work'[u] = work[u]
    BY <2>2 DEF Done, TypeOK
  <2>3. CASE FillCache(t)
    BY <2>1, <2>2, <2>3 DEF FillCache
  <2>4. CASE Evict(t) \/ CopySessions(t) \/ TakePayload(t)
    BY <2>4 DEF Evict, CopySessions, TakePayload, TypeOK
  <2>5. CASE GetSession(t)
    BY <2>2, <2>5 DEF GetSession, TypeOK
  <2>6. CASE ReplaceSessions(t) \/ WriteFile(t) \/ CallCache(t)
    BY <2>1, <2>6 DEF ReplaceSessions, WriteFile, CallCache
  <2>7. CASE SaveRaises(t) \/ Answer(t) \/ RollBackLogin(t)
    BY <2>2, <2>7 DEF SaveRaises, Answer, RollBackLogin
  <2> QED BY <1>8, <2>3, <2>4, <2>5, <2>6, <2>7 DEF Proceeds
<1> QED BY <1>1, <1>2, <1>3, <1>6, <1>7, <1>8

NoCache == \A id \in Id : cache[id] = None

\* What a task has ended is gone from the memory once it saves, from its payload once it
\* has one, and from the file once that is written.
EndingTask(w, table, file, out) ==
    w # None =>
        \A id \in w.ids \ out :
            /\ w.at \in {"save", "write", "cache", "answer"} => table[id] = None
            /\ w.at = "write" => w.table[id] = None
            /\ w.at \in {"cache", "answer"} => file[id] = None

StaysEnded ==
    ~Cached =>
        /\ NoCache
        /\ \A id \in refused \ undone : sessions[id] = None /\ disk[id] = None
        /\ \A t \in Threads : EndingTask(work[t], sessions, disk, undone)

\* Nobody's session comes back, and nobody is told more.
LEMMA EndedKept ==
    ASSUME TypeOK, StaysEnded, NEW t \in Threads, Arrives(t) \/ Proceeds(t),
           \A id \in Id : sessions[id] = None => sessions'[id] = None,
           \A id \in Id : cache[id] = None => cache'[id] = None \/ Cached,
           disk' = disk, refused' \subseteq refused, undone \subseteq undone', Cached' = Cached,
           ~Cached => EndingTask(work'[t], sessions', disk', undone')
    PROVE  StaysEnded'
<1> SUFFICES ASSUME ~Cached
             PROVE  /\ NoCache'
                    /\ \A id \in refused' \ undone' : sessions'[id] = None /\ disk'[id] = None
                    /\ \A u \in Threads : EndingTask(work'[u], sessions', disk', undone')
  BY DEF StaysEnded
<1>1. NoCache'
  BY DEF StaysEnded, NoCache
<1>2. \A id \in refused' \ undone' : sessions'[id] = None /\ disk'[id] = None
  BY DEF StaysEnded, TypeOK
<1>3. ASSUME NEW u \in Threads, u # t PROVE EndingTask(work'[u], sessions', disk', undone')
  <2>1. SameTask(work[u], work'[u]) /\ EndingTask(work[u], sessions, disk, undone)
    BY <1>3, OthersSame DEF StaysEnded
  <2> SUFFICES ASSUME work'[u] # None, NEW id \in work'[u].ids \ undone'
               PROVE  /\ work'[u].at \in {"save", "write", "cache", "answer"} => sessions'[id] = None
                      /\ work'[u].at = "write" => work'[u].table[id] = None
                      /\ work'[u].at \in {"cache", "answer"} => disk'[id] = None
    BY DEF EndingTask
  <2>2. work[u] # None /\ id \in work[u].ids \ undone /\ id \in Id
    BY <2>1, WorkingType, TaskFields DEF SameTask
  <2> QED BY <2>1, <2>2 DEF SameTask, EndingTask
<1> QED BY <1>1, <1>2, <1>3

LEMMA NothingEnding ==
    ASSUME NEW w, NEW table, NEW file, NEW out, w # None => w.ids = {}
    PROVE  EndingTask(w, table, file, out)
  BY DEF EndingTask

\* A minted session is not ended.
LEMMA EndedMinted ==
    ASSUME TypeOK, StaysEnded, NEW t \in Threads, NEW id \in Id, NEW s, NEW task \in Task,
           Arrives(t) \/ Proceeds(t), Minted(t, id, task), task.ids = {},
           sessions' = [sessions EXCEPT ![id] = s],
           UNCHANGED <<disk, cache, undone>>, Cached' = Cached
    PROVE  StaysEnded'
<1> SUFFICES ASSUME ~Cached
             PROVE  /\ NoCache'
                    /\ \A i \in refused' \ undone' : sessions'[i] = None /\ disk'[i] = None
                    /\ \A u \in Threads : EndingTask(work'[u], sessions', disk', undone')
  BY DEF StaysEnded
<1>1. \A i \in Id : i # id => sessions'[i] = sessions[i]
  BY DEF TypeOK, Table
<1>2. \A i \in refused' \ undone' : sessions'[i] = None /\ disk'[i] = None
  BY <1>1 DEF Minted, StaysEnded, TypeOK
<1>3. ASSUME NEW u \in Threads, u # t PROVE EndingTask(work'[u], sessions', disk', undone')
  <2>1. SameTask(work[u], work'[u]) /\ EndingTask(work[u], sessions, disk, undone)
    BY <1>3, OthersSame DEF StaysEnded
  <2>2. work'[u] # None => id \notin work'[u].ids
    <3>1. ASSUME work[u] # None PROVE id \notin work'[u].ids
      <4>1. work[u] \in Step
        BY <3>1, WorkingType, TaskFields
      <4>2. [work[u] EXCEPT !.ids = @ \ {id}].ids = work[u].ids \ {id}
        BY <4>1 DEF Step
      <4>3. work'[u] = [work[u] EXCEPT !.ids = @ \ {id}]
        BY <1>3, <3>1 DEF Minted
      <4> QED BY <4>2, <4>3
    <3> QED BY <2>1, <3>1 DEF SameTask
  <2> SUFFICES ASSUME work'[u] # None, NEW i \in work'[u].ids \ undone'
               PROVE  /\ work'[u].at \in {"save", "write", "cache", "answer"} => sessions'[i] = None
                      /\ work'[u].at = "write" => work'[u].table[i] = None
                      /\ work'[u].at \in {"cache", "answer"} => disk'[i] = None
    BY DEF EndingTask
  <2>3. work[u] # None /\ i \in work[u].ids \ undone /\ i \in Id /\ i # id
    BY <2>1, <2>2, WorkingType, TaskFields DEF SameTask
  <2> QED BY <1>1, <2>1, <2>3 DEF SameTask, EndingTask
<1>4. EndingTask(work'[t], sessions', disk', undone')
  <2>1. work'[t] = task
    BY DEF Minted
  <2> QED BY <2>1, NothingEnding
<1> QED BY <1>2, <1>3, <1>4 DEF StaysEnded, NoCache

LEMMA ArrivesEnded ==
    ASSUME TypeOK, StaysEnded, NEW t \in Threads, Arrives(t)
    PROVE  StaysEnded'
<1>1. ASSUME NEW d \in Devices, Login(t, d) PROVE StaysEnded'
  <2> DEFINE task == New("login", "save", counter, NewSession(d), None)
  <2>1. counter \in Id
    BY <1>1 DEF Login
  <2>2. task \in Task /\ task.ids = {}
    BY <2>1, NewSessionType, NewTask DEF New
  <2>3. Cached' = Cached
    BY <1>1, ComesType DEF Login, Arrival
  <2>4. Minted(t, counter, task) /\ UNCHANGED <<disk, cache, undone>>
    BY <1>1 DEF Login
  <2>5. sessions' = [sessions EXCEPT ![counter] = NewSession(d)]
    BY <1>1 DEF Login
  <2> HIDE DEF task
  <2> QED BY <2>1, <2>2, <2>3, <2>4, <2>5, EndedMinted
<1>2. ASSUME NEW arrival \in Arrival, Comes(arrival), NEW op, NEW at, NEW id, NEW s, NEW d,
             Begins(t, New(op, at, id, s, d)),
             UNCHANGED <<sessions, disk, cache, counter, clock, held, ended, refused, undone, latest>>
      PROVE  StaysEnded'
  <2>1. Cached' = Cached
    BY <1>2, ComesType
  <2>2. work'[t] = New(op, at, id, s, d)
    BY <1>2 DEF Begins, TypeOK
  <2>3. work'[t].ids = {}
    BY <2>2 DEF New
  <2>4. EndingTask(work'[t], sessions', disk', undone')
    BY <2>3, NothingEnding
  <2> QED BY <1>2, <2>1, <2>4, EndedKept
<1>3. ASSUME NEW d \in Devices, CountSessions(t, d) PROVE StaysEnded'
  BY <1>2, <1>3 DEF CountSessions, Arrival
<1>4. ASSUME NEW id \in Id, Request(t, id) PROVE StaysEnded'
  BY <1>2, <1>4 DEF Request, Resolves, Arrival
<1>5. ASSUME NEW id \in Id, RefuseUnknown(t, id) PROVE StaysEnded'
  BY <1>2, <1>5 DEF RefuseUnknown, Arrival
<1>6. ASSUME NEW id \in Id, FindIdle(t, id) PROVE StaysEnded'
  BY <1>2, <1>6 DEF FindIdle, Arrival
<1>7. ASSUME NEW id \in Id, Heartbeat(t, id) PROVE StaysEnded'
  BY <1>2, <1>7 DEF Heartbeat, Resolves, Arrival
<1>8. ASSUME NEW id \in Id, NEW d \in Devices, RevokeDevice(t, id, d) PROVE StaysEnded'
  BY <1>2, <1>8 DEF RevokeDevice, Resolves, Arrival
<1> QED BY <1>1, <1>3, <1>4, <1>5, <1>6, <1>7, <1>8 DEF Arrives

\* A task that goes on keeps what it ended.
LEMMA GoesSame ==
    ASSUME TypeOK, NEW t \in Threads, work[t] # None, NEW at, Goes(t, at)
    PROVE  /\ work'[t] # None => work'[t].ids = work[t].ids /\ work'[t].at = at
           /\ work'[t] # None => work'[t].table = work[t].table /\ work'[t].id = work[t].id
           /\ work'[t] # None => work'[t].session = work[t].session /\ work'[t].op = work[t].op
<1>1. work[t] \in Step
  BY WorkingType, TaskFields
<1> DEFINE w == [work[t] EXCEPT !.at = at]
<1>2. /\ w.ids = work[t].ids /\ w.at = at /\ w.table = work[t].table /\ w.id = work[t].id
      /\ w.session = work[t].session /\ w.op = work[t].op
  BY <1>1 DEF Step
<1>3. work'[t] = w
  BY DEF Goes, TypeOK
<1> HIDE DEF w
<1> QED BY <1>2, <1>3

LEMMA ProceedsEnded ==
    ASSUME TypeOK, StaysEnded, NEW t \in Threads, Proceeds(t)
    PROVE  StaysEnded'
<1> DEFINE w == work[t]
<1>0. w # None /\ w \in Task /\ w \in Step
  BY WorkingType, TaskFields DEF Proceeds, At, FillCache, AddPhoneSession, Evict, GetSession,
     Touch, CopySessions, ReplaceSessions, TakePayload, SaveRaises, WriteFile, CallCache, Answer,
     RollBackLogin
<1>w. /\ w.id \in Id /\ w.session \in Session \cup {None} /\ w.ids \in SUBSET Id
      /\ w.table \in Table /\ w.device \in Devices \cup {None}
  BY <1>0, TaskFields
<1>e. ~Cached => EndingTask(w, sessions, disk, undone) /\ NoCache
  BY DEF StaysEnded
<1>d. Done(t) => EndingTask(work'[t], sessions', disk', undone')
  BY DEF Done, TypeOK, EndingTask
<1>1. CASE FillCache(t)
  <2>1. w.ids = {}
    BY <1>1, <1>0 DEF FillCache, At, Task
  <2>2. EndingTask(work'[t], sessions', disk', undone')
    <3>1. ASSUME NEW at, Goes(t, at) PROVE EndingTask(work'[t], sessions', disk', undone')
      BY <1>0, <2>1, <3>1, GoesSame, NothingEnding
    <3> QED BY <1>1, <1>d, <3>1 DEF FillCache
  <2>3. ~Cached => cache' = cache
    BY <1>1 DEF FillCache, WriteCache
  <2> QED BY <1>1, <2>2, <2>3, LoadKept, EndedKept DEF FillCache
<1>2. CASE AddPhoneSession(t)
  <2> DEFINE task == [w EXCEPT !.at = "save"]
  <2>1. task \in Task /\ task.ids = w.ids
    BY <1>0, TaskAt DEF Step
  <2>2. w.ids = {}
    BY <1>2, <1>0 DEF AddPhoneSession, At, Task
  <2>3. Minted(t, w.id, task) /\ UNCHANGED <<disk, cache, undone>> /\ Cached' = Cached
    BY <1>2, LoadKept DEF AddPhoneSession
  <2>4. sessions' = [sessions EXCEPT ![w.id] = w.session]
    BY <1>2 DEF AddPhoneSession
  <2> HIDE DEF task
  <2> QED BY <1>w, <2>1, <2>2, <2>3, <2>4, EndedMinted
<1>3. CASE Evict(t)
  <2> DEFINE task == [w EXCEPT !.at = "save", !.ids = {w.id}]
  <2>1. task.ids = {w.id} /\ task.at = "save"
    BY <1>0 DEF Step
  <2>2. work'[t] = task
    BY <1>3 DEF Evict, TypeOK
  <2>3. sessions'[w.id] = None /\ \A id \in Id : sessions[id] = None => sessions'[id] = None
    BY <1>3, <1>w DEF Evict, TypeOK, Table
  <2> HIDE DEF task
  <2>4. EndingTask(work'[t], sessions', disk', undone')
    BY <2>1, <2>2, <2>3 DEF EndingTask
  <2> QED BY <1>3, <2>3, <2>4, LoadKept, EndedKept DEF Evict
<1>4. CASE GetSession(t)
  <2>1. w.ids = {}
    BY <1>4, <1>0 DEF GetSession, At, Task
  <2>2. CASE Done(t)
    BY <1>4, <1>d, <2>2, LoadKept, EndedKept DEF GetSession
  <2>3. CASE ~Done(t)
    <3> DEFINE task == [w EXCEPT !.at = "touch", !.session = [sessions[w.id] EXCEPT !.seen = clock]]
    <3>1. task.ids = {}
      BY <1>0, <2>1 DEF Step
    <3>2. work'[t] = task
      BY <1>4, <2>3 DEF GetSession, TypeOK
    <3> HIDE DEF task
    <3>3. EndingTask(work'[t], sessions', disk', undone')
      BY <3>1, <3>2, NothingEnding
    <3> QED BY <1>4, <3>3, LoadKept, EndedKept DEF GetSession
  <2> QED BY <2>2, <2>3
<1>5. CASE Touch(t)
  <2>1. w.session \in Session /\ w.ids = {}
    BY <1>5, <1>0, <1>w DEF Touch, At, Task
  <2> DEFINE task == [w EXCEPT !.at = "save"]
  <2>2. task.ids = {}
    BY <1>0, <2>1 DEF Step
  <2>3. work'[t] = task
    BY <1>5 DEF Touch
  <2> HIDE DEF task
  <2>4. EndingTask(work'[t], sessions', disk', undone')
    BY <2>2, <2>3, NothingEnding
  <2>5. \A id \in Id : sessions[id] = None => sessions'[id] = None
    BY <1>5, <1>w, <2>1, TouchedType DEF Touch, TypeOK
  <2> QED BY <1>5, <2>4, <2>5, LoadKept, EndedKept DEF Touch
<1>6. CASE CopySessions(t)
  <2>1. work'[t] = [w EXCEPT !.at = "replace", !.ids = OnDevice(w.device),
                   !.table = [i \in Id |-> IF i \in OnDevice(w.device) THEN None ELSE sessions[i]]]
    BY <1>6 DEF CopySessions, TypeOK
  <2>2. work'[t].at = "replace"
    BY <1>0, <2>1 DEF Step
  <2>3. EndingTask(work'[t], sessions', disk', undone')
    BY <2>2 DEF EndingTask
  <2> QED BY <1>6, <2>3, LoadKept, EndedKept DEF CopySessions
<1>7. CASE ReplaceSessions(t)
  <2>1. \A id \in w.ids : w.table[id] = None
    BY <1>7, <1>0 DEF ReplaceSessions, At, Task
  <2>2. sessions' = w.table /\ undone \subseteq undone' /\ UNCHANGED <<load, disk, cache, refused>>
    BY <1>7 DEF ReplaceSessions
  <2>3. \A id \in Id \ undone' : sessions[id] = None => sessions'[id] = None
    BY <1>7, <2>1 DEF ReplaceSessions, Differ
  <2> SUFFICES ASSUME ~Cached
               PROVE  /\ NoCache'
                      /\ \A id \in refused' \ undone' : sessions'[id] = None /\ disk'[id] = None
                      /\ \A u \in Threads : EndingTask(work'[u], sessions', disk', undone')
    BY <2>2, LoadKept DEF StaysEnded
  <2>4. \A id \in refused' \ undone' : sessions'[id] = None /\ disk'[id] = None
    BY <2>2, <2>3 DEF StaysEnded, TypeOK
  <2>5. EndingTask(work'[t], sessions', disk', undone')
    BY <1>7, <1>0, <2>1, <2>2, GoesSame DEF ReplaceSessions, EndingTask
  <2>6. ASSUME NEW u \in Threads, u # t PROVE EndingTask(work'[u], sessions', disk', undone')
    <3>1. SameTask(work[u], work'[u]) /\ EndingTask(work[u], sessions, disk, undone)
      BY <1>7, <2>6, OthersSame DEF StaysEnded
    <3> SUFFICES ASSUME work'[u] # None, NEW id \in work'[u].ids \ undone'
                 PROVE  /\ work'[u].at \in {"save", "write", "cache", "answer"} => sessions'[id] = None
                        /\ work'[u].at = "write" => work'[u].table[id] = None
                        /\ work'[u].at \in {"cache", "answer"} => disk'[id] = None
      BY DEF EndingTask
    <3>2. work[u] # None /\ id \in work[u].ids \ undone /\ id \in Id \ undone'
      BY <2>2, <3>1, WorkingType, TaskFields DEF SameTask
    <3> QED BY <2>2, <2>3, <3>1, <3>2 DEF SameTask, EndingTask
  <2> QED BY <2>2, <2>4, <2>5, <2>6, <1>e DEF NoCache
<1>8. CASE TakePayload(t)
  <2> DEFINE task == [w EXCEPT !.at = "write", !.table = sessions]
  <2>1. task.ids = w.ids /\ task.table = sessions /\ task.at = "write"
    BY <1>0 DEF Step
  <2>2. work'[t] = task
    BY <1>8 DEF TakePayload, TypeOK
  <2> HIDE DEF task
  <2>3. ~Cached => EndingTask(work'[t], sessions', disk', undone')
    BY <1>8, <1>0, <1>e, <2>1, <2>2 DEF EndingTask, TakePayload, At
  <2> QED BY <1>8, <2>3, LoadKept, EndedKept DEF TakePayload
<1>9. CASE SaveRaises(t)
  BY <1>9, <1>d, LoadKept, EndedKept DEF SaveRaises
<1>10. CASE WriteFile(t)
  <2>1. disk' = w.table /\ undone \subseteq undone' /\ UNCHANGED <<load, sessions, cache, refused>>
    BY <1>10 DEF WriteFile
  <2>2. \A id \in Id \ undone' : disk[id] = None /\ sessions[id] = None => disk'[id] = None
    BY <1>10 DEF WriteFile, Differ
  <2> SUFFICES ASSUME ~Cached
               PROVE  /\ NoCache'
                      /\ \A id \in refused' \ undone' : sessions'[id] = None /\ disk'[id] = None
                      /\ \A u \in Threads : EndingTask(work'[u], sessions', disk', undone')
    BY <2>1, LoadKept DEF StaysEnded
  <2>3. \A id \in refused' \ undone' : sessions'[id] = None /\ disk'[id] = None
    BY <2>1, <2>2 DEF StaysEnded, TypeOK
  <2>4. EndingTask(work'[t], sessions', disk', undone')
    BY <1>10, <1>0, <1>e, <2>1, GoesSame DEF WriteFile, EndingTask, At
  <2>5. ASSUME NEW u \in Threads, u # t PROVE EndingTask(work'[u], sessions', disk', undone')
    <3>1. SameTask(work[u], work'[u]) /\ EndingTask(work[u], sessions, disk, undone)
      BY <1>10, <2>5, OthersSame DEF StaysEnded
    <3> SUFFICES ASSUME work'[u] # None, NEW id \in work'[u].ids \ undone'
                 PROVE  /\ work'[u].at \in {"save", "write", "cache", "answer"} => sessions'[id] = None
                        /\ work'[u].at = "write" => work'[u].table[id] = None
                        /\ work'[u].at \in {"cache", "answer"} => disk'[id] = None
      BY DEF EndingTask
    <3>2. work[u] # None /\ id \in work[u].ids \ undone /\ id \in Id \ undone'
      BY <2>1, <3>1, WorkingType, TaskFields DEF SameTask
    <3> QED BY <2>1, <2>2, <3>1, <3>2 DEF SameTask, EndingTask
  <2> QED BY <2>1, <2>3, <2>4, <2>5, <1>e DEF NoCache
<1>11. CASE CallCache(t)
  <2>1. ~Cached => EndingTask(work'[t], sessions', disk', undone')
    BY <1>11, <1>0, <1>e, GoesSame DEF CallCache, EndingTask, At
  <2>2. \A id \in Id : cache[id] = None => cache'[id] = None \/ Cached
    BY <1>11, <1>w DEF CallCache, WriteCache, TypeOK
  <2> QED BY <1>11, <2>1, <2>2, LoadKept, EndedKept DEF CallCache
<1>12. CASE Answer(t)
  <2>1. refused' = refused \cup w.ids /\ UNCHANGED <<load, sessions, disk, cache, undone>>
    BY <1>12 DEF Answer
  <2>2. ~Cached => \A id \in w.ids \ undone : sessions[id] = None /\ disk[id] = None
    BY <1>12, <1>0, <1>e DEF Answer, At, EndingTask
  <2>3. ASSUME NEW u \in Threads, ~Cached PROVE EndingTask(work'[u], sessions', disk', undone')
    BY <1>12, <1>d, <2>1, <2>3 DEF Answer, Done, StaysEnded, TypeOK
  <2>4. ~Cached => NoCache'
    BY <1>e, <2>1 DEF NoCache
  <2> QED BY <2>1, <2>2, <2>3, <2>4, LoadKept DEF StaysEnded
<1>13. CASE RollBackLogin(t)
  <2>1. \A id \in Id : sessions[id] = None => sessions'[id] = None
    BY <1>13, <1>w DEF RollBackLogin, TypeOK, Table
  <2> QED BY <1>13, <1>d, <2>1, LoadKept, EndedKept DEF RollBackLogin
<1> QED BY <1>1, <1>2, <1>3, <1>4, <1>5, <1>6, <1>7, <1>8, <1>9, <1>10, <1>11, <1>12,
           <1>13 DEF Proceeds

LEMMA InitEnded == ASSUME Init PROVE StaysEnded
  BY DEF Init, StaysEnded, NoCache, EndingTask, NoSession

LEMMA NextEnded ==
    ASSUME TypeOK, StaysEnded, [Next]_vars
    PROVE  StaysEnded'
<1>1. CASE Tick
  <2>1. Cached' = Cached
    BY <1>1, ComesType DEF Tick, Arrival
  <2>2. UNCHANGED <<sessions, disk, work, refused, undone>>
    BY <1>1 DEF Tick
  <2>3. NoCache => NoCache'
    BY <1>1 DEF Tick, NoCache
  <2> QED BY <2>1, <2>2, <2>3 DEF StaysEnded
<1>2. CASE Restart
  <2>1. Cached' = Cached
    BY <1>2, ComesType DEF Restart, Arrival
  <2>2. sessions' = disk /\ UNCHANGED <<disk, cache, refused, undone>>
    BY <1>2 DEF Restart
  <2>3. \A t \in Threads : work'[t] = None
    BY <1>2 DEF Restart
  <2> QED BY <2>1, <2>2, <2>3 DEF StaysEnded, NoCache, EndingTask
<1>3. CASE UNCHANGED vars
  BY <1>3 DEF vars, StaysEnded, Cached, NoCache
<1> QED BY <1>1, <1>2, <1>3, ArrivesEnded, ProceedsEnded DEF Next

LEMMA EndedRejected == ASSUME TypeOK, StaysEnded PROVE EndedIsRejected
  BY DEF TypeOK, StaysEnded, EndedIsRejected, NoCache, Accepts, Found

\* Without a cache, a session of which somebody was told that it is ended stays ended in
\* the state and in the file, whatever was in the middle and over restarts, but for those
\* that an older payload or an older copy of the table took out or brought back
\* (presence.py:219-225, auth.py:259-260).
THEOREM EndedIsRefused == Spec => []EndedIsRejected
<1>1. Init => TypeOK /\ StaysEnded
  BY InitType, InitEnded
<1>2. TypeOK /\ StaysEnded /\ [Next]_vars => TypeOK' /\ StaysEnded'
  BY NextType, NextEnded
<1>3. TypeOK /\ StaysEnded => EndedIsRejected
  BY EndedRejected
<1> QED BY <1>1, <1>2, <1>3, PTL DEF Spec

--------------------------------------------------------------------------------
(* Ids of their own: what is minted, while only passwords are used *)

\* Every entry of a table is of the user its id was minted for last, below the counter c.
OfMinted(table, l, c) ==
    \A id \in Id : table[id] # None =>
        id < c /\ l[id] # None /\ table[id].user = l[id].user

OfMintedTask(w, l, c) ==
    w # None =>
        /\ w.op # "phone"
        /\ w.op = "login" => w.at \in {"save", "write", "cache", "answer"}
        /\ OfMinted(w.table, l, c)
        /\ w.session # None => w.id < c /\ l[w.id] # None /\ w.session.user = l[w.id].user

SigningIn(t) == work[t] # None /\ work[t].op = "login"

Minting ==
    ~Otp =>
        /\ OfMinted(sessions, latest, counter) /\ OfMinted(disk, latest, counter)
        /\ \A t \in Threads : OfMintedTask(work[t], latest, counter)
        /\ \A t, u \in Threads : t # u /\ SigningIn(t) /\ SigningIn(u) => work[t].id # work[u].id

\* Minting goes on above c.
Above(l, c, m, d) ==
    /\ c <= d
    /\ \A id \in Id : id < c /\ l[id] # None => m[id] # None /\ m[id].user = l[id].user

LEMMA MintedAbove ==
    ASSUME NEW l, NEW m, NEW c \in Nat, NEW d \in Nat, NEW table,
           Above(l, c, m, d), OfMinted(table, l, c)
    PROVE  OfMinted(table, m, d)
  BY SessionsAssumption DEF Above, OfMinted, Id

LEMMA MintedTaskAbove ==
    ASSUME NEW l, NEW m, NEW c \in Nat, NEW d \in Nat, NEW v \in Task \cup {None}, NEW w,
           Above(l, c, m, d), OfMintedTask(v, l, c), SameTask(v, w)
    PROVE  OfMintedTask(w, m, d)
<1> SUFFICES ASSUME w # None PROVE OfMintedTask(w, m, d)
  BY DEF OfMintedTask
<1>1. v # None /\ v.id \in Id
  BY TaskFields DEF SameTask
<1>2. OfMinted(v.table, m, d)
  BY <1>1, MintedAbove DEF OfMintedTask
<1>3. OfMinted(w.table, m, d)
  BY <1>1, <1>2 DEF SameTask, OfMinted
<1>4. w.session # None => w.id < d /\ m[w.id] # None /\ w.session.user = m[w.id].user
  BY <1>1, SessionsAssumption DEF SameTask, OfMintedTask, Above, Id
<1> QED BY <1>1, <1>3, <1>4 DEF OfMintedTask, SameTask

\* A step of one connection that mints nothing, or above the counter.
LEMMA MintingKept ==
    ASSUME TypeOK, TypeOK', Minting, NEW t \in Threads, Arrives(t) \/ Proceeds(t),
           Otp' = Otp,
           ~Otp => /\ Above(latest, counter, latest', counter')
                   /\ OfMinted(sessions', latest', counter')
                   /\ OfMinted(disk', latest', counter')
                   /\ OfMintedTask(work'[t], latest', counter')
                   /\ SigningIn(t)' => \/ SigningIn(t) /\ work'[t].id = work[t].id
                                       \/ work'[t].id = counter
    PROVE  Minting'
<1> SUFFICES ASSUME ~Otp
             PROVE  /\ \A u \in Threads : OfMintedTask(work'[u], latest', counter')
                    /\ \A r, u \in Threads : r # u /\ SigningIn(r)' /\ SigningIn(u)' =>
                          work'[r].id # work'[u].id
  BY DEF Minting
<1>0. counter \in Nat /\ counter' \in Nat
  BY DEF TypeOK
<1>1. \A u \in Threads : u # t => SameTask(work[u], work'[u])
  BY OthersSame
<1>2. ASSUME NEW u \in Threads, u # t PROVE OfMintedTask(work'[u], latest', counter')
  <2>1. work[u] \in Task \cup {None} /\ OfMintedTask(work[u], latest, counter)
    BY DEF TypeOK, Minting
  <2> QED BY <1>0, <1>1, <1>2, <2>1, MintedTaskAbove
<1>3. ASSUME NEW u \in Threads, u # t, SigningIn(u)'
      PROVE  SigningIn(u) /\ work'[u].id = work[u].id /\ work[u].id < counter /\ work[u].id \in Nat
  <2>1. SigningIn(u) /\ work'[u].id = work[u].id
    BY <1>1, <1>3 DEF SigningIn, SameTask
  <2>2. work[u].id \in Id /\ work[u].session # None
    BY <2>1, WorkingType, TaskFields DEF SigningIn, Task
  <2>3. work[u].id < counter
    BY <2>1, <2>2 DEF Minting, OfMintedTask, SigningIn
  <2> QED BY <2>1, <2>2, <2>3 DEF Id
<1>4. ASSUME NEW u \in Threads, u # t, SigningIn(u)', SigningIn(t)'
      PROVE  work'[u].id # work'[t].id
  BY <1>0, <1>3, <1>4 DEF Minting
<1>5. ASSUME NEW r \in Threads, NEW u \in Threads, r # u, r # t, u # t,
             SigningIn(r)', SigningIn(u)'
      PROVE  work'[r].id # work'[u].id
  BY <1>3, <1>5 DEF Minting
<1> QED BY <1>2, <1>4, <1>5

LEMMA AboveSame ==
    ASSUME NEW l, NEW c \in Nat, NEW d, d = c
    PROVE  Above(l, c, l, d)
  BY DEF Above

LEMMA ArrivesMinting ==
    ASSUME TypeOK, TypeOK', Minting, NEW t \in Threads, Arrives(t)
    PROVE  Minting'
<1>0. counter \in Nat
  BY DEF TypeOK
<1>1. ASSUME NEW d \in Devices, Login(t, d) PROVE Minting'
  <2> DEFINE s == NewSession(d)
             task == New("login", "save", counter, s, None)
  <2>1. s \in Session /\ s # None /\ s.user = Owner[d] /\ Owner[d] \in Users /\ clock \in Nat
    BY NewSessionType, SessionsAssumption DEF NewSession, TypeOK
  <2>2. counter \in Id /\ counter' = counter + 1 /\ disk' = disk /\ Minted(t, counter, task)
    BY <1>1 DEF Login
  <2>3. Otp' = Otp
    BY <1>1, ComesType DEF Login, Arrival
  <2>4. /\ latest'[counter] # None /\ latest'[counter].user = Owner[d]
        /\ \A id \in Id : id # counter => latest'[id] = latest[id]
    BY <1>1, <2>1, <2>2, HeardGrows DEF Login
  <2>5. Above(latest, counter, latest', counter')
    <3>1. counter <= counter'
      BY <1>0, <2>2
    <3>2. \A id \in Id : id < counter => id # counter
      BY <1>0 DEF Id
    <3> QED BY <2>4, <3>1, <3>2 DEF Above
  <2>6. /\ task.op = "login" /\ task.at = "save" /\ task.id = counter /\ task.session = s
        /\ task.table = NoSession
    BY DEF New
  <2>7. sessions' = [sessions EXCEPT ![counter] = s]
    BY <1>1 DEF Login
  <2>8. work'[t] = task
    BY <2>2 DEF Minted
  <2> HIDE DEF s, task
  <2>9. ~Otp => OfMinted(sessions, latest', counter') /\ OfMinted(disk, latest', counter')
    BY <1>0, <2>2, <2>5, MintedAbove DEF Minting
  <2>10. ~Otp => OfMinted(sessions', latest', counter')
    BY <1>0, <2>1, <2>2, <2>4, <2>7, <2>9 DEF OfMinted, TypeOK, Table
  <2>11. OfMintedTask(work'[t], latest', counter')
    <3>1. OfMinted(NoSession, latest', counter')
      BY DEF OfMinted, NoSession
    <3>2. task.id < counter'
      BY <1>0, <2>2, <2>6
    <3> QED BY <2>1, <2>4, <2>6, <2>8, <3>1, <3>2 DEF OfMintedTask
  <2> QED BY <2>2, <2>3, <2>5, <2>6, <2>8, <2>9, <2>10, <2>11, MintingKept
<1>2. ASSUME NEW arrival \in Arrival, Comes(arrival),
             NEW op \in {"request", "unknown", "idle", "heartbeat", "revoke"}, NEW at,
             NEW id \in Id, NEW s \in {sessions[id], None}, NEW d,
             Begins(t, New(op, at, id, s, d)),
             UNCHANGED <<sessions, disk, counter, latest>>
      PROVE  Minting'
  <2> DEFINE task == New(op, at, id, s, d)
  <2>1. Otp' = Otp
    BY <1>2, ComesType
  <2>2. work'[t] = task
    BY <1>2 DEF Begins, TypeOK
  <2>3. task.op = op /\ task.id = id /\ task.session = s /\ task.table = NoSession
    BY DEF New
  <2>4. Above(latest, counter, latest', counter')
    BY <1>0, <1>2, AboveSame
  <2> HIDE DEF task
  <2>5. ~Otp => OfMintedTask(work'[t], latest', counter')
    BY <1>2, <2>2, <2>3 DEF OfMintedTask, OfMinted, NoSession, Minting
  <2>6. ~ (SigningIn(t)')
    BY <2>2, <2>3 DEF SigningIn
  <2> QED BY <1>2, <2>1, <2>4, <2>5, <2>6, MintingKept DEF Minting
<1>3. ASSUME NEW d \in Devices, CountSessions(t, d) PROVE Minting'
  <2>1. Otp /\ Otp' = Otp
    BY <1>3, ComesType DEF CountSessions, Arrival
  <2> QED BY <2>1 DEF Minting
<1>4. ASSUME NEW id \in Id, Request(t, id) PROVE Minting'
  BY <1>2, <1>4 DEF Request, Resolves, Arrival
<1>5. ASSUME NEW id \in Id, RefuseUnknown(t, id) PROVE Minting'
  BY <1>2, <1>5 DEF RefuseUnknown, Arrival
<1>6. ASSUME NEW id \in Id, FindIdle(t, id) PROVE Minting'
  BY <1>2, <1>6 DEF FindIdle, Arrival
<1>7. ASSUME NEW id \in Id, Heartbeat(t, id) PROVE Minting'
  BY <1>2, <1>7 DEF Heartbeat, Resolves, Arrival
<1>8. ASSUME NEW id \in Id, NEW d \in Devices, RevokeDevice(t, id, d) PROVE Minting'
  BY <1>2, <1>8 DEF RevokeDevice, Resolves, Arrival
<1> QED BY <1>1, <1>3, <1>4, <1>5, <1>6, <1>7, <1>8 DEF Arrives

\* A step that goes on with what there is: no time is heard of, nothing is minted.
LEMMA ProceedsSame ==
    ASSUME TypeOK, TypeOK', Minting, NEW t \in Threads, Proceeds(t),
           load' = load, counter' = counter, latest' = latest,
           ~Otp => /\ OfMinted(sessions', latest, counter) /\ OfMinted(disk', latest, counter)
                   /\ OfMintedTask(work'[t], latest, counter)
                   /\ SigningIn(t)' => SigningIn(t) /\ work'[t].id = work[t].id
    PROVE  Minting'
<1>1. counter \in Nat
  BY DEF TypeOK
<1>2. Above(latest, counter, latest', counter')
  BY <1>1, AboveSame
<1> QED BY <1>2, LoadKept, MintingKept

LEMMA GoesMinted ==
    ASSUME TypeOK, Minting, ~Otp, NEW t \in Threads, work[t] # None, NEW at, Goes(t, at),
           work[t].op = "login" => at \in {"save", "write", "cache", "answer"}
    PROVE  /\ OfMintedTask(work'[t], latest, counter)
           /\ SigningIn(t)' => SigningIn(t) /\ work'[t].id = work[t].id
  BY GoesSame DEF Minting, OfMintedTask, SigningIn

LEMMA DoneMinted ==
    ASSUME TypeOK, NEW t \in Threads, Done(t)
    PROVE  work'[t] = None /\ OfMintedTask(work'[t], latest, counter) /\ ~ SigningIn(t)'
  BY DEF Done, TypeOK, OfMintedTask, SigningIn

LEMMA ProceedsMinting ==
    ASSUME TypeOK, TypeOK', Minting, NEW t \in Threads, Proceeds(t)
    PROVE  Minting'
<1> DEFINE w == work[t]
<1>0. w # None /\ w \in Task /\ w \in Step
  BY WorkingType, TaskFields DEF Proceeds, At, FillCache, AddPhoneSession, Evict, GetSession,
     Touch, CopySessions, ReplaceSessions, TakePayload, SaveRaises, WriteFile, CallCache, Answer,
     RollBackLogin
<1>w. /\ w.id \in Id /\ w.session \in Session \cup {None} /\ w.ids \in SUBSET Id
      /\ w.table \in Table /\ w.device \in Devices \cup {None}
  BY <1>0, TaskFields
<1>m. ~Otp => /\ OfMinted(sessions, latest, counter) /\ OfMinted(disk, latest, counter)
              /\ OfMintedTask(w, latest, counter)
  BY DEF Minting
<1>o. ~Otp => /\ w.op # "phone"
              /\ w.op = "login" => w.at \in {"save", "write", "cache", "answer"}
              /\ OfMinted(w.table, latest, counter)
              /\ w.session # None => /\ w.id < counter /\ latest[w.id] # None
                                     /\ w.session.user = latest[w.id].user
  BY <1>0, <1>m DEF OfMintedTask
<1>c. counter \in Nat
  BY DEF TypeOK
<1>1. CASE FillCache(t)
  <2>1. ~Otp => w.op # "login"
    BY <1>1, <1>o DEF FillCache, At
  <2>2. ~Otp => /\ OfMintedTask(work'[t], latest, counter)
                /\ SigningIn(t)' => SigningIn(t) /\ work'[t].id = work[t].id
    BY <1>1, <1>0, <2>1, GoesMinted, DoneMinted DEF FillCache
  <2> QED BY <1>1, <1>m, <2>2, ProceedsSame DEF FillCache
<1>2. CASE AddPhoneSession(t)
  <2>1. Otp
    BY <1>2, <1>0, <1>o DEF AddPhoneSession, At, Task
  <2> QED BY <1>2, <2>1, LoadKept DEF AddPhoneSession, Minting
<1>3. CASE Evict(t)
  <2> DEFINE task == [w EXCEPT !.at = "save", !.ids = {w.id}]
  <2>1. /\ task.op = w.op /\ task.at = "save" /\ task.id = w.id /\ task.session = w.session
        /\ task.table = w.table
    BY <1>0 DEF Step
  <2>2. work'[t] = task
    BY <1>3 DEF Evict, TypeOK
  <2> HIDE DEF task
  <2>3. ~Otp => OfMintedTask(work'[t], latest, counter)
    BY <1>o, <2>1, <2>2 DEF OfMintedTask
  <2>4. SigningIn(t)' => SigningIn(t) /\ work'[t].id = work[t].id
    BY <1>0, <2>1, <2>2 DEF SigningIn
  <2>5. ~Otp => OfMinted(sessions', latest, counter)
    BY <1>3, <1>m, <1>w DEF Evict, OfMinted, TypeOK, Table
  <2> QED BY <1>3, <1>m, <2>3, <2>4, <2>5, ProceedsSame DEF Evict
<1>4. CASE GetSession(t)
  <2>1. CASE Done(t) /\ UNCHANGED latest
    BY <1>4, <1>m, <2>1, DoneMinted, ProceedsSame DEF GetSession
  <2>2. CASE ~(Done(t) /\ UNCHANGED latest)
    <3> DEFINE s == [sessions[w.id] EXCEPT !.seen = clock]
               task == [w EXCEPT !.at = "touch", !.session = s]
    <3>1. /\ sessions[w.id] # None /\ sessions[w.id] \in Session /\ clock \in Nat
          /\ sessions[w.id].user \in Users
      BY <1>4, <1>w, <2>2 DEF GetSession, TypeOK, Table, Session
    <3>2. s.user = sessions[w.id].user
      BY <3>1 DEF Session
    <3>3. /\ task.op = w.op /\ task.at = "touch" /\ task.id = w.id /\ task.session = s
          /\ task.table = w.table
      BY <1>0 DEF Step
    <3>4. work'[t] = task
      BY <1>4, <2>2 DEF GetSession, TypeOK
    <3>5. /\ latest'[w.id] # None /\ latest'[w.id].user = sessions[w.id].user
          /\ \A id \in Id : id # w.id => latest'[id] = latest[id]
      BY <1>4, <1>w, <2>2, <3>1, HeardGrows DEF GetSession
    <3> HIDE DEF s, task
    <3>6. UNCHANGED <<load, sessions, disk, counter>>
      BY <1>4 DEF GetSession
    <3>7. ~Otp => Above(latest, counter, latest', counter')
      BY <1>c, <1>m, <1>w, <3>1, <3>5, <3>6 DEF Above, OfMinted
    <3>8. ~Otp => OfMinted(sessions', latest', counter') /\ OfMinted(disk', latest', counter')
                  /\ OfMinted(w.table, latest', counter')
      BY <1>c, <1>m, <1>o, <3>6, <3>7, MintedAbove
    <3>9. ~Otp => w.op \notin {"login", "phone"}
      BY <1>4, <1>o DEF GetSession, At
    <3>10. ~Otp => w.id < counter
      BY <1>m, <1>w, <3>1 DEF OfMinted
    <3>11. ~Otp => OfMintedTask(work'[t], latest', counter')
      BY <3>2, <3>3, <3>4, <3>5, <3>6, <3>8, <3>9, <3>10 DEF OfMintedTask
    <3>12. ~Otp => ~ SigningIn(t)'
      BY <3>3, <3>4, <3>9 DEF SigningIn
    <3> QED BY <3>6, <3>7, <3>8, <3>11, <3>12, LoadKept, MintingKept
  <2> QED BY <2>1, <2>2
<1>5. CASE Touch(t)
  <2>1. w.session \in Session /\ w.session # None
    BY <1>5, <1>0, <1>w DEF Touch, At, Task
  <2>2. ~Otp => OfMinted(sessions', latest, counter)
    <3>1. sessions' = Touched(sessions, w.id, w.session) /\ sessions \in Table
      BY <1>5 DEF Touch, TypeOK
    <3>2. \A id \in Id : /\ sessions'[id] = None <=> sessions[id] = None
                         /\ sessions'[id] # None => sessions'[id].user = sessions[id].user
      BY <1>w, <2>1, <3>1, TouchedType
    <3> QED BY <1>m, <3>2 DEF OfMinted
  <2> DEFINE task == [w EXCEPT !.at = "save"]
  <2>3. /\ task.op = w.op /\ task.at = "save" /\ task.id = w.id /\ task.session = w.session
        /\ task.table = w.table
    BY <1>0 DEF Step
  <2>4. work'[t] = task
    BY <1>5 DEF Touch
  <2> HIDE DEF task
  <2>5. ~Otp => OfMintedTask(work'[t], latest, counter)
    BY <1>o, <2>3, <2>4 DEF OfMintedTask
  <2>6. SigningIn(t)' => SigningIn(t) /\ work'[t].id = work[t].id
    BY <1>0, <2>3, <2>4 DEF SigningIn
  <2> QED BY <1>5, <1>m, <2>2, <2>5, <2>6, ProceedsSame DEF Touch
<1>6. CASE CopySessions(t)
  <2> DEFINE copy == [i \in Id |-> IF i \in OnDevice(w.device) THEN None ELSE sessions[i]]
             task == [w EXCEPT !.at = "replace", !.ids = OnDevice(w.device), !.table = copy]
  <2>1. ~Otp => OfMinted(copy, latest, counter)
    BY <1>m DEF OfMinted
  <2>2. /\ task.op = w.op /\ task.at = "replace" /\ task.id = w.id /\ task.session = w.session
        /\ task.table = copy
    BY <1>0 DEF Step
  <2>3. work'[t] = task
    BY <1>6 DEF CopySessions, TypeOK
  <2> HIDE DEF copy, task
  <2>4. ~Otp => w.op # "login"
    BY <1>6, <1>o DEF CopySessions, At
  <2>5. ~Otp => OfMintedTask(work'[t], latest, counter)
    BY <1>o, <2>1, <2>2, <2>3, <2>4 DEF OfMintedTask
  <2>6. SigningIn(t)' => SigningIn(t) /\ work'[t].id = work[t].id
    BY <1>0, <2>2, <2>3 DEF SigningIn
  <2> QED BY <1>6, <1>m, <2>5, <2>6, ProceedsSame DEF CopySessions
<1>7. CASE ReplaceSessions(t)
  <2>1. ~Otp => /\ OfMintedTask(work'[t], latest, counter)
                /\ SigningIn(t)' => SigningIn(t) /\ work'[t].id = work[t].id
    BY <1>7, <1>0, GoesMinted DEF ReplaceSessions
  <2> QED BY <1>7, <1>m, <1>o, <2>1, ProceedsSame DEF ReplaceSessions
<1>8. CASE TakePayload(t)
  <2> DEFINE task == [w EXCEPT !.at = "write", !.table = sessions]
  <2>1. /\ task.op = w.op /\ task.at = "write" /\ task.id = w.id /\ task.session = w.session
        /\ task.table = sessions
    BY <1>0 DEF Step
  <2>2. work'[t] = task
    BY <1>8 DEF TakePayload, TypeOK
  <2> HIDE DEF task
  <2>3. ~Otp => OfMintedTask(work'[t], latest, counter)
    BY <1>m, <1>o, <2>1, <2>2 DEF OfMintedTask
  <2>4. SigningIn(t)' => SigningIn(t) /\ work'[t].id = work[t].id
    BY <1>0, <2>1, <2>2 DEF SigningIn
  <2> QED BY <1>8, <1>m, <2>3, <2>4, ProceedsSame DEF TakePayload
<1>9. CASE SaveRaises(t)
  BY <1>9, <1>m, DoneMinted, ProceedsSame DEF SaveRaises
<1>10. CASE WriteFile(t)
  <2>1. ~Otp => /\ OfMintedTask(work'[t], latest, counter)
                /\ SigningIn(t)' => SigningIn(t) /\ work'[t].id = work[t].id
    BY <1>10, <1>0, GoesMinted DEF WriteFile
  <2> QED BY <1>10, <1>m, <1>o, <2>1, ProceedsSame DEF WriteFile
<1>11. CASE CallCache(t)
  <2>1. ~Otp => /\ OfMintedTask(work'[t], latest, counter)
                /\ SigningIn(t)' => SigningIn(t) /\ work'[t].id = work[t].id
    BY <1>11, <1>0, GoesMinted DEF CallCache
  <2> QED BY <1>11, <1>m, <2>1, ProceedsSame DEF CallCache
<1>12. CASE Answer(t)
  BY <1>12, <1>m, DoneMinted, ProceedsSame DEF Answer
<1>13. CASE RollBackLogin(t)
  <2>1. ~Otp => OfMinted(sessions', latest, counter)
    BY <1>13, <1>m, <1>w DEF RollBackLogin, OfMinted, TypeOK, Table
  <2> QED BY <1>13, <1>m, <2>1, DoneMinted, ProceedsSame DEF RollBackLogin
<1> QED BY <1>1, <1>2, <1>3, <1>4, <1>5, <1>6, <1>7, <1>8, <1>9, <1>10, <1>11, <1>12,
           <1>13 DEF Proceeds

LEMMA InitMinting == ASSUME Init PROVE Minting
  BY DEF Init, Minting, OfMinted, OfMintedTask, SigningIn, NoSession

LEMMA NextMinting ==
    ASSUME TypeOK, TypeOK', Minting, [Next]_vars
    PROVE  Minting'
<1>1. CASE Tick
  <2>1. Otp' = Otp
    BY <1>1, ComesType DEF Tick, Arrival
  <2> QED BY <1>1, <2>1 DEF Tick, Minting, SigningIn
<1>2. CASE Restart
  <2>1. Otp' = Otp
    BY <1>2, ComesType DEF Restart, Arrival
  <2>2. /\ sessions' = disk /\ UNCHANGED <<disk, latest>> /\ counter' = NextCounter(disk)
        /\ \A t \in Threads : work'[t] = None
    BY <1>2 DEF Restart
  <2>3. \A id \in Id : disk[id] # None => id < counter'
    BY <2>2, NextCounterType DEF TypeOK, Used
  <2>4. ~Otp => OfMinted(disk, latest, counter')
    BY <2>3 DEF Minting, OfMinted
  <2> QED BY <2>1, <2>2, <2>4 DEF Minting, OfMintedTask, SigningIn
<1>3. CASE UNCHANGED vars
  BY <1>3 DEF vars, Minting, Otp, SigningIn
<1> QED BY <1>1, <1>2, <1>3, ArrivesMinting, ProceedsMinting DEF Next

--------------------------------------------------------------------------------
(* Ids of their own: what is answered *)

\* A login in the middle: nobody holds its id, and unless it was ended or undone it is
\* where the request has got to.
Pending(t) ==
    SigningIn(t) =>
        LET id == work[t].id
        IN  /\ \A h \in held : h[1] = id => id \in undone
            /\ id \notin ended \cup undone =>
                  /\ sessions[id] # None
                  /\ work[t].at = "write" => work[t].table[id] # None
                  /\ work[t].at \in {"cache", "answer"} => disk[id] # None
            /\ work[t].at = "answer" /\ cache[id] # None =>
                  cache[id].user = work[t].session.user

\* An answered sign-in is in the memory and in the file, and nobody else is under its id.
Kept(h) ==
    h[1] \notin undone =>
        /\ sessions[h[1]] # None /\ disk[h[1]] # None
        /\ latest[h[1]].user = h[2]
        /\ cache[h[1]] # None => cache[h[1]].user = h[2]

Answered == ~Otp => (\A t \in Threads : Pending(t)) /\ (\A h \in held : Kept(h))

\* Whose an id is below the counter does not change.
LEMMA HeldBelow ==
    ASSUME TypeOK, Minting, Answered, ~Otp, NEW h \in held, h[1] \notin undone
    PROVE  h[1] \in Id /\ h[1] < counter /\ latest[h[1]] # None
<1>1. h[1] \in Id /\ sessions[h[1]] # None
  BY DEF TypeOK, Answered, Kept
<1> QED BY <1>1 DEF Minting, OfMinted

LEMMA LoginTask ==
    ASSUME TypeOK, Minting, ~Otp, NEW t \in Threads, SigningIn(t)
    PROVE  /\ work[t].id \in Id /\ work[t].id < counter /\ work[t].session # None
           /\ work[t].session.user = latest[work[t].id].user /\ latest[work[t].id] # None
           /\ work[t].at \in {"save", "write", "cache", "answer"}
<1>1. work[t].session # None /\ work[t].id \in Id
  BY WorkingType, TaskFields DEF SigningIn, Task
<1> QED BY <1>1 DEF SigningIn, Minting, OfMintedTask

\* A step of one connection that answers no sign-in.
LEMMA AnsweredKept ==
    ASSUME TypeOK, Minting, Answered, NEW t \in Threads, Arrives(t) \/ Proceeds(t),
           Otp' = Otp, undone \subseteq undone', held' \subseteq held,
           ended \subseteq ended' \cup {counter},
           ~Otp => /\ \A h \in held' : h[1] \notin undone' /\ sessions[h[1]] # None =>
                         sessions'[h[1]] # None
                   /\ \A u \in Threads :
                         /\ u # t /\ SigningIn(u) /\ work[u].id \notin ended' \cup undone'
                         /\ sessions[work[u].id] # None
                         => sessions'[work[u].id] # None
                   /\ \A id \in Id \ undone' :
                         sessions[id] # None /\ disk[id] # None => disk'[id] # None
                   /\ Above(latest, counter, latest', counter')
                   /\ \A id \in Id : cache'[id] # None =>
                         \/ cache'[id] = cache[id]
                         \/ cache'[id].user = latest[id].user
                   /\ Pending(t)'
    PROVE  Answered'
<1> SUFFICES ASSUME ~Otp
             PROVE  (\A u \in Threads : Pending(u)') /\ (\A h \in held' : Kept(h)')
  BY DEF Answered
<1>1. ASSUME NEW u \in Threads, u # t PROVE Pending(u)'
  <2> SUFFICES ASSUME SigningIn(u)' PROVE Pending(u)'
    BY DEF Pending
  <2>1. SameTask(work[u], work'[u])
    BY <1>1, OthersSame
  <2>2. SigningIn(u) /\ work'[u].id = work[u].id /\ work'[u].at = work[u].at
        /\ work'[u].session = work[u].session
    BY <2>1 DEF SigningIn, SameTask
  <2> DEFINE id == work[u].id
  <2>3. /\ id \in Id /\ id < counter /\ work[u].session.user = latest[id].user
        /\ latest[id] # None
    BY <2>2, LoginTask
  <2>4. Pending(u)
    BY DEF Answered
  <2>5. \A h \in held' : h[1] = id => id \in undone'
    BY <2>2, <2>4 DEF Pending
  <2>6. ASSUME id \notin ended' \cup undone'
        PROVE  /\ sessions'[id] # None
               /\ work'[u].at = "write" => work'[u].table[id] # None
               /\ work'[u].at \in {"cache", "answer"} => disk'[id] # None
    <3>1. id # counter
      BY <2>3 DEF TypeOK, Id
    <3>2. id \notin ended \cup undone
      BY <2>6, <3>1
    <3>3. sessions[id] # None /\ sessions'[id] # None
      BY <1>1, <2>2, <2>4, <2>6, <3>2 DEF Pending
    <3>4. work'[u].at = "write" => work'[u].table[id] # None
      BY <2>1, <2>2, <2>3, <2>4, <3>2 DEF Pending, SameTask, SigningIn
    <3>5. work'[u].at \in {"cache", "answer"} => disk'[id] # None
      BY <2>2, <2>3, <2>4, <2>6, <3>2, <3>3 DEF Pending
    <3> QED BY <3>3, <3>4, <3>5
  <2>7. work'[u].at = "answer" /\ cache'[id] # None => cache'[id].user = work'[u].session.user
    BY <2>2, <2>3, <2>4 DEF Pending
  <2> HIDE DEF id
  <2> QED BY <2>2, <2>5, <2>6, <2>7 DEF Pending, id
<1>2. ASSUME NEW h \in held' PROVE Kept(h)'
  <2> SUFFICES ASSUME h[1] \notin undone' PROVE Kept(h)'
    BY DEF Kept
  <2>1. h \in held /\ h[1] \notin undone /\ Kept(h)
    BY DEF Answered
  <2>2. h[1] \in Id /\ h[1] < counter /\ latest[h[1]] # None
    BY <2>1, HeldBelow
  <2>3. sessions[h[1]] # None /\ disk[h[1]] # None /\ latest[h[1]].user = h[2]
    BY <2>1 DEF Kept
  <2>4. sessions'[h[1]] # None /\ disk'[h[1]] # None
    BY <2>2, <2>3
  <2>5. latest'[h[1]].user = h[2]
    BY <2>2, <2>3 DEF Above
  <2>6. cache'[h[1]] # None => cache'[h[1]].user = h[2]
    BY <2>1, <2>2, <2>3 DEF Kept
  <2> QED BY <2>4, <2>5, <2>6 DEF Kept
<1> QED BY <1>1, <1>2

LEMMA NotSigningIn ==
    ASSUME NEW t \in Threads, ~ SigningIn(t)'
    PROVE  Pending(t)'
  BY DEF Pending

LEMMA ArrivesAnswered ==
    ASSUME TypeOK, Minting, Answered, NEW t \in Threads, Arrives(t)
    PROVE  Answered'
<1>c. counter \in Nat
  BY DEF TypeOK
<1>1. ASSUME NEW d \in Devices, Login(t, d) PROVE Answered'
  <2> DEFINE s == NewSession(d)
             task == New("login", "save", counter, s, None)
  <2>1. s # None /\ Owner[d] \in Users /\ clock \in Nat
    BY NewSessionType, SessionsAssumption DEF TypeOK
  <2>2. /\ counter \in Id /\ counter' = counter + 1 /\ Minted(t, counter, task)
        /\ UNCHANGED <<disk, cache, held, undone>>
    BY <1>1 DEF Login
  <2>3. Otp' = Otp
    BY <1>1, ComesType DEF Login, Arrival
  <2>4. \A id \in Id : id # counter => latest'[id] = latest[id]
    BY <1>1, <2>1, <2>2, HeardGrows DEF Login
  <2>5. Above(latest, counter, latest', counter')
    BY <1>c, <2>2, <2>4 DEF Above, Id
  <2>6. task.op = "login" /\ task.at = "save" /\ task.id = counter /\ task.table = NoSession
    BY DEF New
  <2>7. sessions' = [sessions EXCEPT ![counter] = s]
    BY <1>1 DEF Login
  <2>8. work'[t] = task
    BY <2>2 DEF Minted
  <2> HIDE DEF s, task
  <2>9. sessions'[counter] # None /\ \A id \in Id : sessions[id] # None => sessions'[id] # None
    BY <2>1, <2>2, <2>7 DEF TypeOK, Table
  <2>10. ~Otp => \A h \in held : h[1] = counter => counter \in undone
    BY <1>c, HeldBelow
  <2>11. ~Otp => Pending(t)'
    BY <2>2, <2>6, <2>8, <2>9, <2>10 DEF Pending
  <2>12. ended \subseteq ended' \cup {counter}
    BY <2>2 DEF Minted
  <2>13. \A h \in held : h[1] \in Id
    BY DEF TypeOK
  <2>14. \A u \in Threads : SigningIn(u) => work[u].id \in Id
    BY WorkingType, TaskFields DEF SigningIn
  <2> QED BY <2>2, <2>3, <2>5, <2>9, <2>11, <2>12, <2>13, <2>14, AnsweredKept
<1>2. ASSUME NEW arrival \in Arrival, Comes(arrival),
             NEW op \in {"request", "unknown", "idle", "heartbeat", "revoke"}, NEW at,
             NEW id, NEW s, NEW d,
             Begins(t, New(op, at, id, s, d)),
             UNCHANGED <<sessions, disk, cache, counter, held, ended, undone, latest>>
      PROVE  Answered'
  <2> DEFINE task == New(op, at, id, s, d)
  <2>1. Otp' = Otp
    BY <1>2, ComesType
  <2>2. work'[t] = task
    BY <1>2 DEF Begins, TypeOK
  <2>3. task.op = op
    BY DEF New
  <2>4. Above(latest, counter, latest', counter')
    BY <1>c, <1>2, AboveSame
  <2> HIDE DEF task
  <2>5. Pending(t)'
    BY <2>2, <2>3 DEF SigningIn, Pending
  <2> QED BY <1>2, <2>1, <2>4, <2>5, AnsweredKept
<1>3. ASSUME NEW d \in Devices, CountSessions(t, d) PROVE Answered'
  <2>1. Otp /\ Otp' = Otp
    BY <1>3, ComesType DEF CountSessions, Arrival
  <2> QED BY <2>1 DEF Answered
<1>4. ASSUME NEW id \in Id, Request(t, id) PROVE Answered'
  BY <1>2, <1>4 DEF Request, Resolves, Arrival
<1>5. ASSUME NEW id \in Id, RefuseUnknown(t, id) PROVE Answered'
  BY <1>2, <1>5 DEF RefuseUnknown, Arrival
<1>6. ASSUME NEW id \in Id, FindIdle(t, id) PROVE Answered'
  BY <1>2, <1>6 DEF FindIdle, Arrival
<1>7. ASSUME NEW id \in Id, Heartbeat(t, id) PROVE Answered'
  BY <1>2, <1>7 DEF Heartbeat, Resolves, Arrival
<1>8. ASSUME NEW id \in Id, NEW d \in Devices, RevokeDevice(t, id, d) PROVE Answered'
  BY <1>2, <1>8 DEF RevokeDevice, Resolves, Arrival
<1> QED BY <1>1, <1>3, <1>4, <1>5, <1>6, <1>7, <1>8 DEF Arrives

\* A step that goes on, answers nobody, and whose own task is told.
LEMMA ProceedsKept ==
    ASSUME TypeOK, Minting, Answered, NEW t \in Threads, Proceeds(t),
           load' = load, counter' = counter, held' \subseteq held, undone \subseteq undone',
           ended \subseteq ended',
           ~Otp => /\ \A h \in held' : h[1] \notin undone' /\ sessions[h[1]] # None =>
                         sessions'[h[1]] # None
                   /\ \A u \in Threads :
                         /\ u # t /\ SigningIn(u) /\ work[u].id \notin ended' \cup undone'
                         /\ sessions[work[u].id] # None
                         => sessions'[work[u].id] # None
                   /\ \A id \in Id \ undone' :
                         sessions[id] # None /\ disk[id] # None => disk'[id] # None
                   /\ latest' = latest \/ Above(latest, counter, latest', counter')
                   /\ \A id \in Id : cache'[id] # None =>
                         \/ cache'[id] = cache[id]
                         \/ cache'[id].user = latest[id].user
                   /\ Pending(t)'
    PROVE  Answered'
<1>1. counter \in Nat
  BY DEF TypeOK
<1>2. ~Otp => Above(latest, counter, latest', counter')
  BY <1>1, AboveSame
<1> QED BY <1>2, LoadKept, AnsweredKept

LEMMA DonePending ==
    ASSUME TypeOK, NEW t \in Threads, Done(t)
    PROVE  Pending(t)'
  BY DoneMinted, NotSigningIn

\* A request that is no login does not become one.
LEMMA GoesPending ==
    ASSUME TypeOK, NEW t \in Threads, work[t] # None, work[t].op # "login", NEW at, Goes(t, at)
    PROVE  Pending(t)'
  BY GoesSame DEF SigningIn, Pending

LEMMA ProceedsAnswered ==
    ASSUME TypeOK, Minting, StaysEnded, Answered, NEW t \in Threads, Proceeds(t)
    PROVE  Answered'
<1> DEFINE w == work[t]
<1>0. w # None /\ w \in Task /\ w \in Step
  BY WorkingType, TaskFields DEF Proceeds, At, FillCache, AddPhoneSession, Evict, GetSession,
     Touch, CopySessions, ReplaceSessions, TakePayload, SaveRaises, WriteFile, CallCache, Answer,
     RollBackLogin
<1>w. /\ w.id \in Id /\ w.session \in Session \cup {None} /\ w.ids \in SUBSET Id
      /\ w.table \in Table /\ w.device \in Devices \cup {None}
  BY <1>0, TaskFields
<1>o. ~Otp => /\ w.op # "phone"
              /\ w.op = "login" => w.at \in {"save", "write", "cache", "answer"}
              /\ w.session # None => /\ w.id < counter /\ latest[w.id] # None
                                     /\ w.session.user = latest[w.id].user
  BY <1>0 DEF Minting, OfMintedTask
<1>c. counter \in Nat
  BY DEF TypeOK
<1>i. /\ \A h \in held : h[1] \in Id
      /\ \A u \in Threads : SigningIn(u) => work[u].id \in Id
  BY WorkingType, TaskFields DEF SigningIn, TypeOK
<1>1. CASE FillCache(t)
  <2>1. w.session \in Session /\ w.session # None
    BY <1>1, <1>0, <1>w DEF FillCache, At, Task
  <2>2. ~Otp => w.op # "login"
    BY <1>1, <1>o DEF FillCache, At
  <2>3. ~Otp => Pending(t)'
    BY <1>1, <1>0, <2>2, DonePending, GoesPending DEF FillCache
  <2>4. \A id \in Id : cache'[id] = cache[id] \/ (id = w.id /\ cache'[id].user = w.session.user)
    BY <1>1, <1>w DEF FillCache, WriteCache, TypeOK
  <2> QED BY <1>1, <1>o, <2>1, <2>3, <2>4, ProceedsKept DEF FillCache
<1>2. CASE AddPhoneSession(t)
  <2>1. Otp
    BY <1>2, <1>0, <1>o DEF AddPhoneSession, At, Task
  <2> QED BY <1>2, <2>1, LoadKept DEF AddPhoneSession, Answered
<1>3. CASE Evict(t)
  <2>1. \A id \in Id : id # w.id => sessions'[id] = sessions[id]
    BY <1>3 DEF Evict, TypeOK, Table
  <2>2. /\ held' = {h \in held : h[1] # w.id} /\ ended' = ended \cup {w.id}
        /\ UNCHANGED <<load, disk, cache, counter, undone, latest>>
    BY <1>3 DEF Evict, End
  <2> DEFINE task == [w EXCEPT !.at = "save", !.ids = {w.id}]
  <2>3. task.op = w.op /\ work'[t] = task
    BY <1>3, <1>0 DEF Evict, TypeOK, Step
  <2>4. ~Otp => w.op # "login"
    BY <1>3, <1>o DEF Evict, At
  <2> HIDE DEF task
  <2>5. ~Otp => Pending(t)'
    BY <2>3, <2>4 DEF SigningIn, Pending
  <2> QED BY <1>i, <2>1, <2>2, <2>5, ProceedsKept
<1>4. CASE GetSession(t)
  <2>1. CASE Done(t) /\ UNCHANGED latest
    BY <1>4, <2>1, DonePending, ProceedsKept DEF GetSession
  <2>2. CASE ~(Done(t) /\ UNCHANGED latest)
    <3> DEFINE task == [w EXCEPT !.at = "touch", !.session = [sessions[w.id] EXCEPT !.seen = clock]]
    <3>1. sessions[w.id] # None /\ clock \in Nat /\ sessions[w.id].user \in Users
      BY <1>4, <1>w, <2>2 DEF GetSession, TypeOK, Table, Session
    <3>2. task.op = w.op /\ work'[t] = task
      BY <1>4, <1>0, <2>2 DEF GetSession, TypeOK, Step
    <3> HIDE DEF task
    <3>3. /\ latest'[w.id] # None /\ latest'[w.id].user = sessions[w.id].user
          /\ \A id \in Id : id # w.id => latest'[id] = latest[id]
      BY <1>4, <1>w, <2>2, <3>1, HeardGrows DEF GetSession
    <3>4. UNCHANGED <<load, sessions, disk, cache, counter, held, ended, undone>>
      BY <1>4 DEF GetSession
    <3>5. ~Otp => sessions[w.id].user = latest[w.id].user
      BY <1>w, <3>1 DEF Minting, OfMinted
    <3>6. ~Otp => Above(latest, counter, latest', counter')
      BY <1>c, <1>w, <3>3, <3>4, <3>5 DEF Above
    <3>7. ~Otp => w.op # "login"
      BY <1>4, <1>o DEF GetSession, At
    <3>8. ~Otp => Pending(t)'
      BY <3>2, <3>7 DEF SigningIn, Pending
    <3> QED BY <3>4, <3>6, <3>8, ProceedsKept
  <2> QED BY <2>1, <2>2
<1>5. CASE Touch(t)
  <2>1. w.session \in Session
    BY <1>5, <1>0, <1>w DEF Touch, At, Task
  <2>2. \A id \in Id : sessions'[id] = None <=> sessions[id] = None
    BY <1>5, <1>w, <2>1, TouchedType DEF Touch, TypeOK
  <2>3. [w EXCEPT !.at = "save"].op = w.op /\ work'[t] = [w EXCEPT !.at = "save"]
    BY <1>5, <1>0 DEF Touch, Step
  <2>4. ~Otp => w.op # "login"
    BY <1>5, <1>o DEF Touch, At
  <2>5. ~Otp => Pending(t)'
    BY <2>3, <2>4 DEF SigningIn, Pending
  <2> QED BY <1>5, <1>i, <2>2, <2>5, ProceedsKept DEF Touch
<1>6. CASE CopySessions(t)
  <2> DEFINE copy == [i \in Id |-> IF i \in OnDevice(w.device) THEN None ELSE sessions[i]]
             task == [w EXCEPT !.at = "replace", !.ids = OnDevice(w.device), !.table = copy]
  <2>1. task.op = w.op /\ work'[t] = task
    BY <1>6, <1>0 DEF CopySessions, TypeOK, Step
  <2> HIDE DEF task
  <2>2. ~Otp => w.op # "login"
    BY <1>6, <1>o DEF CopySessions, At
  <2>3. ~Otp => Pending(t)'
    BY <2>1, <2>2 DEF SigningIn, Pending
  <2> QED BY <1>6, <2>3, ProceedsKept DEF CopySessions
<1>7. CASE ReplaceSessions(t)
  <2>1. /\ sessions' = w.table /\ ended' = ended \cup w.ids
        /\ held' = {h \in held : h[1] \notin w.ids}
        /\ undone' = undone \cup (Differ(sessions, w.table) \ w.ids)
        /\ UNCHANGED <<load, disk, cache, counter, latest>>
    BY <1>7 DEF ReplaceSessions, End
  <2>2. \A id \in Id :
            id \notin w.ids \cup undone' /\ sessions[id] # None => sessions'[id] # None
    BY <2>1 DEF Differ
  <2>3. ~Otp => w.op # "login"
    BY <1>7, <1>o DEF ReplaceSessions, At
  <2>4. ~Otp => Pending(t)'
    BY <1>7, <1>0, <2>3, GoesPending DEF ReplaceSessions
  <2> QED BY <1>i, <2>1, <2>2, <2>4, ProceedsKept
<1>8. CASE TakePayload(t)
  <2> DEFINE task == [w EXCEPT !.at = "write", !.table = sessions]
  <2>1. /\ task.op = w.op /\ task.at = "write" /\ task.id = w.id /\ task.table = sessions
        /\ work'[t] = task
    BY <1>8, <1>0 DEF TakePayload, TypeOK, Step
  <2> HIDE DEF task
  <2>2. UNCHANGED <<load, sessions, disk, cache, counter, held, ended, undone, latest>>
    BY <1>8 DEF TakePayload
  <2>3. ~Otp => Pending(t)
    BY DEF Answered
  <2>4. ~Otp => Pending(t)'
    BY <1>0, <2>1, <2>2, <2>3 DEF SigningIn, Pending
  <2> QED BY <2>2, <2>4, ProceedsKept
<1>9. CASE SaveRaises(t)
  BY <1>9, DonePending, ProceedsKept DEF SaveRaises
<1>10. CASE WriteFile(t)
  <2>1. /\ disk' = w.table
        /\ undone' = undone \cup (Differ(disk, w.table) \cap Differ(sessions, w.table))
        /\ UNCHANGED <<load, sessions, cache, counter, held, ended, latest>>
    BY <1>10 DEF WriteFile
  <2>2. \A id \in Id \ undone' : sessions[id] # None /\ disk[id] # None => disk'[id] # None
    BY <2>1 DEF Differ
  <2>3. PICK at \in {"cache", "answer"} :
            /\ Goes(t, at)
            /\ at = "answer" /\ w.op = "login" => ~Cached
    BY <1>10 DEF WriteFile
  <2>4. ~Otp => Pending(t)
    BY DEF Answered
  <2>5. ~Otp => Pending(t)'
    <3> SUFFICES ASSUME ~Otp, SigningIn(t)' PROVE Pending(t)'
      BY DEF Pending
    <3>1. SigningIn(t) /\ work'[t].id = w.id /\ work'[t].at = at
      BY <1>0, <2>3, GoesSame DEF SigningIn
    <3>2. w.at = "write"
      BY <1>10 DEF WriteFile, At
    <3>3. \A h \in held' : h[1] = w.id => w.id \in undone'
      BY <2>1, <2>4, <3>1 DEF Pending
    <3>4. w.id \notin ended' \cup undone' => sessions'[w.id] # None /\ disk'[w.id] # None
      BY <2>1, <2>4, <3>1, <3>2 DEF Pending
    <3>5. at = "answer" => cache'[w.id] = None
      BY <1>w, <2>1, <2>3, <3>1 DEF StaysEnded, NoCache, SigningIn
    <3> QED BY <2>3, <3>1, <3>3, <3>4, <3>5 DEF Pending
  <2> QED BY <2>1, <2>2, <2>5, ProceedsKept
<1>11. CASE CallCache(t)
  <2>1. UNCHANGED <<load, sessions, disk, counter, held, ended, undone, latest>> /\ Goes(t, "answer")
    BY <1>11 DEF CallCache
  <2>2. w.op = "login" => w.session \in Session /\ w.session # None
    BY <1>0, <1>w DEF Task
  <2>3. ~Otp => \A id \in Id : cache'[id] # None =>
                   cache'[id] = cache[id] \/ cache'[id].user = latest[id].user
    BY <1>11, <1>w, <1>o, <2>2 DEF CallCache, WriteCache, TypeOK
  <2>4. w.op = "login" => cache'[w.id] = None \/ cache'[w.id].user = w.session.user
    BY <1>11, <1>w DEF CallCache, WriteCache, TypeOK, StaysEnded, NoCache
  <2>5. ~Otp => Pending(t)
    BY DEF Answered
  <2>6. ~Otp => Pending(t)'
    <3> SUFFICES ASSUME ~Otp, SigningIn(t)' PROVE Pending(t)'
      BY DEF Pending
    <3>1. SigningIn(t) /\ work'[t].id = w.id /\ work'[t].session = w.session /\ work'[t].at = "answer"
      BY <1>0, <2>1, GoesSame DEF SigningIn
    <3>2. w.at = "cache"
      BY <1>11 DEF CallCache, At
    <3>3. \A h \in held' : h[1] = w.id => w.id \in undone'
      BY <2>1, <2>5, <3>1 DEF Pending
    <3>4. w.id \notin ended' \cup undone' => sessions'[w.id] # None /\ disk'[w.id] # None
      BY <2>1, <2>5, <3>1, <3>2 DEF Pending
    <3>5. cache'[w.id] # None => cache'[w.id].user = w.session.user
      BY <2>4, <3>1 DEF SigningIn
    <3> QED BY <3>1, <3>3, <3>4, <3>5 DEF Pending
  <2> QED BY <2>1, <2>3, <2>6, ProceedsKept
<1>12. CASE Answer(t)
  <2>1. UNCHANGED <<load, sessions, disk, cache, counter, ended, undone, latest>> /\ Done(t)
    BY <1>12 DEF Answer
  <2>2. \A u \in Threads : u # t => work'[u] = work[u]
    BY <2>1 DEF Done, TypeOK
  <2> SUFFICES ASSUME ~Otp
               PROVE  (\A u \in Threads : Pending(u)') /\ (\A h \in held' : Kept(h)')
    BY <2>1, LoadKept DEF Answered
  <2>3. \A h \in held : Kept(h)'
    BY <2>1 DEF Answered, Kept
  <2>4. CASE held' = held
    <3>1. ASSUME NEW u \in Threads, u # t PROVE Pending(u)'
      BY <2>1, <2>2, <2>4, <3>1 DEF Answered, Pending, SigningIn
    <3> QED BY <2>1, <2>3, <2>4, <3>1, DonePending
  <2>5. CASE held' # held
    <3>1. /\ SigningIn(t) /\ w.id \notin ended /\ w.at = "answer"
          /\ held' = held \cup {<<w.id, w.session.user>>}
      BY <1>12, <1>0, <1>o, <2>5 DEF Answer, At, SigningIn
    <3>2. Pending(t) /\ w.session.user = latest[w.id].user
      BY <3>1, LoginTask DEF Answered
    <3>0. PICK a : a = <<w.id, w.session.user>>
      OBVIOUS
    <3>3. Kept(a)'
      <4>1. a[1] = w.id /\ a[2] = w.session.user
        BY <3>0
      <4>2. w.id \notin undone =>
              /\ sessions[w.id] # None /\ disk[w.id] # None
              /\ latest[w.id].user = w.session.user
              /\ cache[w.id] # None => cache[w.id].user = w.session.user
        BY <3>1, <3>2 DEF Pending
      <4>3. Kept(a)
        BY <4>1, <4>2 DEF Kept
      <4> QED BY <2>1, <4>3 DEF Kept
    <3>4. ASSUME NEW u \in Threads, u # t PROVE Pending(u)'
      <4> SUFFICES ASSUME SigningIn(u) PROVE Pending(u)'
        BY <2>2, <3>4 DEF Pending, SigningIn
      <4>1. work[u].id # w.id /\ Pending(u)
        BY <3>1, <3>4 DEF Minting, Answered
      <4>2. \A h \in held' : h[1] = work[u].id => work[u].id \in undone
        BY <3>1, <4>1 DEF Pending
      <4> QED BY <2>1, <2>2, <3>4, <4>1, <4>2 DEF Pending, SigningIn
    <3>5. \A u \in Threads : Pending(u)'
      BY <2>1, <3>4, DonePending
    <3>6. ASSUME NEW h \in held' PROVE Kept(h)'
      BY <2>3, <3>0, <3>1, <3>3, <3>6
    <3> QED BY <3>5, <3>6
  <2> QED BY <2>4, <2>5
<1>13. CASE RollBackLogin(t)
  <2>1. \A id \in Id : id # w.id => sessions'[id] = sessions[id]
    BY <1>13 DEF RollBackLogin, TypeOK, Table
  <2>2. UNCHANGED <<load, disk, cache, counter, held, ended, undone, latest>> /\ Done(t)
    BY <1>13 DEF RollBackLogin
  <2>3. SigningIn(t)
    BY <1>13, <1>0 DEF RollBackLogin, SigningIn
  <2>4. ~Otp => \A h \in held : h[1] \notin undone => h[1] # w.id
    BY <2>3 DEF Answered, Pending
  <2>5. ~Otp => \A u \in Threads : u # t /\ SigningIn(u) => work[u].id # w.id
    BY <2>3 DEF Minting
  <2>6. Pending(t)'
    BY <2>2, DonePending
  <2> QED BY <1>i, <2>1, <2>2, <2>4, <2>5, <2>6, ProceedsKept
<1> QED BY <1>1, <1>2, <1>3, <1>4, <1>5, <1>6, <1>7, <1>8, <1>9, <1>10, <1>11, <1>12,
           <1>13 DEF Proceeds

LEMMA InitAnswered == ASSUME Init PROVE Answered
  BY DEF Init, Answered, Pending, SigningIn

LEMMA NextAnswered ==
    ASSUME TypeOK, Minting, StaysEnded, Answered, [Next]_vars
    PROVE  Answered'
<1>1. CASE Tick
  <2>1. Otp' = Otp
    BY <1>1, ComesType DEF Tick, Arrival
  <2>2. UNCHANGED <<sessions, disk, work, held, ended, undone, latest>>
    BY <1>1 DEF Tick
  <2>3. \A id \in Id : cache'[id] # None => cache'[id] = cache[id]
    BY <1>1 DEF Tick
  <2>4. ASSUME NEW t \in Threads, Pending(t) PROVE Pending(t)'
    <3>1. SigningIn(t) => work[t].id \in Id
      BY WorkingType, TaskFields DEF SigningIn
    <3> QED BY <2>2, <2>3, <2>4, <3>1 DEF Pending, SigningIn
  <2>5. ASSUME NEW h \in held, Kept(h) PROVE Kept(h)'
    BY <2>2, <2>3, <2>5 DEF Kept, TypeOK
  <2> QED BY <2>1, <2>2, <2>4, <2>5 DEF Answered
<1>2. CASE Restart
  <2>1. Otp' = Otp
    BY <1>2, ComesType DEF Restart, Arrival
  <2>2. /\ sessions' = disk /\ UNCHANGED <<disk, cache, held, undone, latest>>
        /\ \A t \in Threads : work'[t] = None
    BY <1>2 DEF Restart
  <2>3. \A t \in Threads : Pending(t)'
    BY <2>2 DEF Pending, SigningIn
  <2>4. ASSUME NEW h \in held, Kept(h) PROVE Kept(h)'
    BY <2>2, <2>4 DEF Kept
  <2> QED BY <2>1, <2>2, <2>3, <2>4 DEF Answered
<1>3. CASE UNCHANGED vars
  BY <1>3 DEF vars, Answered, Otp, Pending, SigningIn, Kept
<1> QED BY <1>1, <1>2, <1>3, ArrivesAnswered, ProceedsAnswered DEF Next

LEMMA AnsweredOwn == ASSUME TypeOK, Minting, Answered PROVE OwnSession
<1> SUFFICES ASSUME ~Otp, NEW h \in held, h[1] \notin undone, Accepts(h[1])
             PROVE  Found(h[1]).user = h[2]
  BY DEF OwnSession
<1>1. Kept(h) /\ h[1] \in Id
  BY DEF Answered, TypeOK
<1>2. sessions[h[1]].user = h[2]
  BY <1>1 DEF Kept, Minting, OfMinted
<1> QED BY <1>1, <1>2 DEF Kept, Found

\* While only passwords are used, an answered session id stays with the user it was
\* answered to, in the memory, in the file and in the cache, also after a crash between any
\* two steps of a sign-in, as long as no older payload or older copy of the table took it
\* out: the counter is above every id that is kept anywhere (auth.py:54-63, :96-109).
THEOREM AnsweredIdIsOwn == Spec => []OwnSession
<1> DEFINE IInv == TypeOK /\ StaysEnded /\ Minting /\ Answered
<1>1. Init => IInv
  BY InitType, InitEnded, InitMinting, InitAnswered
<1>2. IInv /\ [Next]_vars => IInv'
  BY NextType, NextEnded, NextMinting, NextAnswered
<1>3. IInv => OwnSession
  BY AnsweredOwn
<1> QED BY <1>1, <1>2, <1>3, PTL DEF Spec

================================================================================
