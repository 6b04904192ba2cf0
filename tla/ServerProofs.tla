------------------------------ MODULE ServerProofs ------------------------------
(***************************************************************************)
(* What every behaviour of Server keeps.  The lemmas about the parts are   *)
(* composed: a step of one part leaves the variables of the others alone,  *)
(* but for the clock, which moves on, and for a restart, which is one of   *)
(* all of them.                                                            *)
(***************************************************************************)
EXTENDS Server, SignInProofs
--------------------------------------------------------------------------------
(* Reach: its actions keep its types and the invariants from which          *)
(* OnlineIsRecent, OnlineIsTold and ConnectedHasAll follow.  The clock      *)
(* moves on in the actions of others.                                       *)

ReachHandles(h) ==
    \/ \E s \in Session :
          \/ \E by \in {"login", "register"} : SignOn(h, s, by)
          \/ SignOnWeb(h, s) \/ Touch(h, s) \/ Revoke(h, s)
          \/ SendMessage(h, s) \/ Push(h, s)
    \/ \E u \in User : List(h, u) \/ Wake(h, u)
    \/ RollBack(h) \/ Notify(h) \/ Touched(h) \/ AnnounceOnline(h)
    \/ CopySessions(h) \/ ReplaceSessions(h) \/ Recheck(h) \/ AnnounceOffline(h)
    \/ SaveRaises(h) \/ Register(h) \/ Answer(h)
    \/ SendFails(h) \/ Sent(h)

\* The steps while the server is up, and its restart.
ReachNext ==
    \/ \E h \in Handler : ReachHandles(h)
    \/ \E u \in User : Query(u)
    \/ \E s \in Session : Lose(s) \/ Close(s) \/ Sync(s)
    \/ RestartReach

\* What is known of a user comes from a request that was served, and an entry that says
\* that the user is online from one that was served within the last Fresh.
LastSeen ==
    /\ \A u \in User : lastSeen[u] # None => lastSeen[u] <= clock
    /\ \A s \in Session : seen[s] # None =>
          lastSeen[Owner[s]] # None /\ seen[s] <= lastSeen[Owner[s]]

Recent(u, entry) ==
    (entry # None /\ entry.online) =>
        lastSeen[u] # None /\ entry.expires <= lastSeen[u] + 2 * Fresh

EntriesRecent == \A u \in User : Recent(u, presence[u])

ReachInv == ReachTypeOK /\ clock \in Nat /\ LastSeen /\ EntriesRecent

LEMMA ReachTypes == ReachTypeOK =>
    /\ Owner \in [Session -> User]
    /\ Fresh \in Nat /\ Fresh > 0
    /\ \A s \in Session : seen[s] # None => seen[s] \in Nat
    /\ \A u \in User : lastSeen[u] # None => lastSeen[u] \in Nat
    /\ \A u \in User : presence[u] # None => presence[u] \in Entry
  BY ReachAssumption DEF ReachTypeOK

\* A user that is online was seen within twice Fresh.
LEMMA OnlineWasSeen ==
    ASSUME ReachInv, NEW u \in User, IsOnline(u)
    PROVE  lastSeen[u] # None /\ clock - lastSeen[u] < 2 * Fresh
<1>1. CASE Valid(u)
  <2>1. presence[u] # None /\ presence[u] \in Entry /\ presence[u].online
        /\ clock < presence[u].expires
    BY <1>1, ReachTypes DEF IsOnline, Valid, ReachInv
  <2>2. lastSeen[u] # None /\ presence[u].expires <= lastSeen[u] + 2 * Fresh
    BY <2>1 DEF ReachInv, EntriesRecent, Recent
  <2>3. presence[u].expires \in Nat
    BY <2>1 DEF Entry
  <2> QED
    BY <2>1, <2>2, <2>3, ReachTypes DEF ReachInv
<1>2. CASE ~ Valid(u)
  <2>1. PICK s \in SessionsOf(u) : IsFresh(s)
    BY <1>2 DEF IsOnline
  <2>2. s \in Session /\ Owner[s] = u /\ seen[s] # None /\ clock - seen[s] <= Fresh
    BY <2>1, ReachTypes DEF SessionsOf, IsFresh, ReachInv
  <2>3. lastSeen[u] # None /\ seen[s] <= lastSeen[u]
    BY <2>2 DEF ReachInv, LastSeen
  <2> QED
    BY <2>2, <2>3, ReachTypes DEF ReachInv
<1> QED
  BY <1>1, <1>2

LEMMA RecentlyOnline == ReachInv => OnlineIsRecent
  BY OnlineWasSeen DEF OnlineIsRecent

\* An entry that says what a fresh session shows is recent.
LEMMA FreshIsRecent ==
    ASSUME ReachInv, NEW u \in User, NEW s \in SessionsOf(u), IsFresh(s)
    PROVE  lastSeen[u] # None /\ clock + Fresh <= lastSeen[u] + 2 * Fresh
<1>1. s \in Session /\ Owner[s] = u /\ seen[s] # None /\ clock - seen[s] <= Fresh
  BY ReachTypes DEF SessionsOf, IsFresh, ReachInv
<1>2. lastSeen[u] # None /\ seen[s] <= lastSeen[u]
  BY <1>1 DEF ReachInv, LastSeen
<1> QED
  BY <1>1, <1>2, ReachTypes DEF ReachInv

LEMMA WrittenKeeps ==
    ASSUME ReachInv, NEW u \in User, NEW online \in BOOLEAN
    PROVE  /\ Written(u, online) \in [User -> Entry \cup {None}]
           /\ \A other \in User : Written(u, online)[other] =
                 IF other = u /\ cached THEN [online |-> online, expires |-> clock + Fresh]
                 ELSE presence[other]
  BY ReachTypes DEF ReachInv, ReachTypeOK, Written, Entry

\* What Served asks of the entries.
LEMMA WrittenIsServed ==
    ASSUME ReachInv, NEW u \in User, presence' = Written(u, TRUE)
    PROVE  /\ presence' \in [User -> Entry \cup {None}]
           /\ \A other \in User :
                 \/ presence'[other] = presence[other]
                 \/ other = u /\ presence'[u] = [online |-> TRUE, expires |-> clock + Fresh]
<1>1. \A other \in User : Written(u, TRUE)[other] =
          IF other = u /\ cached THEN [online |-> TRUE, expires |-> clock + Fresh]
          ELSE presence[other]
  BY WrittenKeeps
<1> QED
  BY <1>1, WrittenKeeps

LEMMA OnlineIsBoolean == ASSUME ReachInv, NEW u \in User PROVE IsOnline(u) \in BOOLEAN
  BY ReachTypes DEF ReachInv, IsOnline, Valid, Entry

LEMMA ResolvedKeeps ==
    ASSUME ReachInv, NEW u \in User
    PROVE  /\ Resolved(u) \in [User -> Entry \cup {None}]
           /\ \A other \in User : Recent(other, Resolved(u)[other])
<1>1. CASE Valid(u)
  BY <1>1 DEF Resolved, ReachInv, ReachTypeOK, EntriesRecent
<1>2. CASE ~ Valid(u)
  <2> DEFINE written == Written(u, IsOnline(u))
  <2>1. Resolved(u) = written
    BY <1>2 DEF Resolved
  <2>2. /\ written \in [User -> Entry \cup {None}]
        /\ \A other \in User : written[other] =
              IF other = u /\ cached THEN [online |-> IsOnline(u), expires |-> clock + Fresh]
              ELSE presence[other]
    BY WrittenKeeps, OnlineIsBoolean
  <2>3. IsOnline(u) => lastSeen[u] # None /\ clock + Fresh <= lastSeen[u] + 2 * Fresh
    BY <1>2, FreshIsRecent DEF IsOnline
  <2> HIDE DEF written
  <2>4. \A other \in User : Recent(other, written[other])
    BY <2>2, <2>3 DEF Recent, ReachInv, EntriesRecent
  <2> QED
    BY <2>1, <2>2, <2>4
<1> QED
  BY <1>1, <1>2

--------------------------------------------------------------------------------
(* Reach: what keeps the invariants, apart from the types *)

Timely == LastSeen /\ EntriesRecent

\* A request of a user is served.
LEMMA Served ==
    ASSUME ReachInv, NEW u \in User, clock' = clock,
           lastSeen' = [lastSeen EXCEPT ![u] = clock],
           \A s \in Session : seen'[s] # None =>
               seen'[s] = seen[s] \/ (Owner[s] = u /\ seen'[s] = clock),
           \A other \in User :
               \/ presence'[other] = presence[other]
               \/ other = u /\ presence'[u] = [online |-> TRUE, expires |-> clock + Fresh]
    PROVE  Timely'
<1> USE ReachTypes, NoneIsNothing
<1>1. \A other \in User : lastSeen'[other] = IF other = u THEN clock ELSE lastSeen[other]
  BY DEF ReachInv, ReachTypeOK
<1>2. LastSeen'
  BY <1>1 DEF ReachInv, LastSeen
<1>3. ASSUME NEW other \in User PROVE Recent(other, presence[other])'
  <2>1. CASE presence'[other] = presence[other]
    BY <1>1, <2>1 DEF ReachInv, LastSeen, EntriesRecent, Recent, Entry
  <2>2. CASE other = u /\ presence'[u] = [online |-> TRUE, expires |-> clock + Fresh]
    BY <1>1, <2>2 DEF ReachInv, Recent
  <2> QED
    BY <2>1, <2>2
<1>4. EntriesRecent'
  BY <1>3 DEF EntriesRecent, Recent
<1> QED
  BY <1>2, <1>4 DEF Timely

\* Nothing is, and sessions and entries are none that say more.
LEMMA NotServed ==
    ASSUME ReachInv, clock' = clock, lastSeen' = lastSeen,
           \A s \in Session : seen'[s] # None =>
               seen[s] # None /\ seen'[s] \in Nat /\ seen'[s] <= seen[s],
           \A u \in User : Recent(u, presence'[u])
    PROVE  Timely'
<1>1. LastSeen'
  BY ReachTypes DEF ReachInv, LastSeen
<1>2. EntriesRecent'
  BY DEF EntriesRecent, Recent
<1> QED
  BY <1>1, <1>2 DEF Timely

LEMMA SeenTheSame ==
    ASSUME ReachInv, clock' = clock, UNCHANGED <<seen, lastSeen>>,
           \A u \in User : Recent(u, presence'[u])
    PROVE  Timely'
<1>1. \A s \in Session : seen'[s] # None =>
          seen[s] # None /\ seen'[s] \in Nat /\ seen'[s] <= seen[s]
  BY ReachTypes DEF ReachInv
<1> QED
  BY <1>1, NotServed

LEMMA TimeKeepsReach ==
    ASSUME ReachInv, UNCHANGED reachVars, clock' \in Nat, clock' >= clock
    PROVE  ReachInv'
<1> USE DEF reachVars, people, clients
<1>1. ReachTypeOK'
  BY DEF ReachInv, ReachTypeOK
<1>2. LastSeen' /\ EntriesRecent'
  BY ReachTypes DEF ReachInv, LastSeen, EntriesRecent, Recent
<1> QED
  BY <1>1, <1>2 DEF ReachInv

--------------------------------------------------------------------------------
(* Reach: what a handler may be in the middle of *)

\* The steps that know of a session only.
Plain == {"start", "announce on", "register", "answer"}
Trim  == {"touched", "copy", "trimmed", "announce off"}

LEMMA Plainly == \A op \in Plain, s \in Session : [op |-> op, session |-> s] \in Work
  BY DEF Work, Plain

LEMMA Trimming == \A op \in Trim, s \in Session, online \in BOOLEAN :
    [op |-> op, session |-> s, online |-> online] \in Work
  BY DEF Work, Trim

LEMMA PlainWork ==
    ASSUME NEW w \in Work, w.op \in Plain
    PROVE  w.session \in Session /\ w = [op |-> w.op, session |-> w.session]
  BY DEF Work, Plain

LEMMA TrimWork ==
    ASSUME NEW w \in Work, w.op \in Trim
    PROVE  /\ w.session \in Session /\ w.online \in BOOLEAN
           /\ w = [op |-> w.op, session |-> w.session, online |-> w.online]
  BY DEF Work, Trim

LEMMA TrimGoesOn ==
    ASSUME NEW w \in Work, w.op \in Trim, NEW op \in Trim
    PROVE  /\ [w EXCEPT !.op = op] \in Work
           /\ [w EXCEPT !.op = op].op = op /\ [w EXCEPT !.op = op].session = w.session
<1>1. PICK s \in Session, online \in BOOLEAN, was \in Trim :
          w = [op |-> was, session |-> s, online |-> online]
  BY TrimWork
<1>2. [w EXCEPT !.op = op] = [op |-> op, session |-> s, online |-> online]
  BY <1>1
<1> QED
  BY <1>1, <1>2, Trimming

LEMMA ReplaceWork ==
    ASSUME NEW w \in Work, w.op = "replace"
    PROVE  /\ w.session \in Session /\ w.online \in BOOLEAN
           /\ w.rest \subseteq Session /\ w.session \notin w.rest
  BY DEF Work

SendWork(w) ==
    /\ w \in [op : {"send"}, session : Session, list : SUBSET User, push : SUBSET Session,
              wake : SUBSET User, lacks : SUBSET Session]
    /\ w.session \notin w.lacks

LEMMA SendIsWork == \A w : SendWork(w) => w \in Work /\ w # None /\ w.op = "send"
<1> SUFFICES ASSUME NEW w, SendWork(w) PROVE w \in Work /\ w # None /\ w.op = "send"
  OBVIOUS
<1>1. w \in Work
  BY DEF SendWork, Work
<1> QED
  BY <1>1, NoneIsNothing DEF SendWork

LEMMA WorkIsSend ==
    ASSUME NEW w \in Work, w.op = "send"
    PROVE  SendWork(w)
  BY DEF SendWork, Work

LEMMA WorkIsOfSession ==
    ASSUME ReachInv, NEW h \in Handler, work[h] # None
    PROVE  work[h] \in Work /\ work[h].session \in Session
           /\ Owner[work[h].session] \in User
<1>1. work[h] \in Work
  BY DEF ReachInv, ReachTypeOK
<1>2. work[h].session \in Session
  BY <1>1 DEF Work
<1> QED
  BY <1>1, <1>2, ReachTypes DEF ReachInv

\* A handler has gone on.
LEMMA WorkGoesOn ==
    ASSUME ReachInv, NEW h \in Handler, NEW w, w \in Work \cup {None},
           work' = [work EXCEPT ![h] = w]
    PROVE  work' \in [Handler -> Work \cup {None}]
  BY DEF ReachInv, ReachTypeOK

LEMMA PlainGoesOn ==
    ASSUME ReachInv, NEW h \in Handler, work[h] # None, work[h].op \in Plain,
           NEW op \in Plain, work' = [work EXCEPT ![h].op = op]
    PROVE  /\ work' = [work EXCEPT ![h] = [op |-> op, session |-> work[h].session]]
           /\ work' \in [Handler -> Work \cup {None}]
<1>1. work[h] \in Work /\ work[h].session \in Session
  BY WorkIsOfSession
<1>2. work[h] = [op |-> work[h].op, session |-> work[h].session]
  BY <1>1, PlainWork
<1>3. [work[h] EXCEPT !.op = op] = [op |-> op, session |-> work[h].session]
  BY <1>2
<1>4. work' = [work EXCEPT ![h] = [work[h] EXCEPT !.op = op]]
  OBVIOUS
<1>5. work' = [work EXCEPT ![h] = [op |-> op, session |-> work[h].session]]
  BY <1>3, <1>4
<1> QED
  BY <1>1, <1>5, Plainly, WorkGoesOn

--------------------------------------------------------------------------------
(* Reach: one step each *)

LEMMA ReachInitInv == ReachInit /\ clock = 0 => ReachInv
<1> SUFFICES ASSUME ReachInit, clock = 0 PROVE ReachInv
  OBVIOUS
<1>1. ReachTypeOK
  BY ReachAssumption, NoneIsNothing DEF ReachInit, ReachTypeOK, Link
<1>2. LastSeen /\ EntriesRecent
  BY <1>1, ReachTypes, ReachAssumption DEF ReachInit, LastSeen, EntriesRecent, Recent
<1> QED
  BY <1>1, <1>2 DEF ReachInv

LEMMA SignOnKeeps ==
    ASSUME ReachInv, NEW h \in Handler, NEW s \in Session, NEW by \in {"login", "register", "web"},
           SignOn(h, s, by), clock' = clock
    PROVE  ReachInv'
<1> USE ReachTypes, NoneIsNothing DEF people, clients
<1>1. Owner[s] \in User /\ [op |-> "start", session |-> s] \in Work
  BY Plainly DEF ReachInv, Plain
<1>2. work' \in [Handler -> Work \cup {None}]
  BY <1>1 DEF SignOn, Begins, ReachInv, ReachTypeOK
<1>3. seen' \in [Session -> Nat \cup {None}] /\ \A x \in Session : seen'[x] = None => seen[x] = None
  BY DEF SignOn, ReachInv, ReachTypeOK
<1>4. ReachTypeOK'
  BY <1>1, <1>2, <1>3 DEF SignOn, Crosses, ReachInv, ReachTypeOK, Link
<1>5. Timely'
  BY <1>1, Served DEF SignOn, ReachInv, ReachTypeOK
<1> QED
  BY <1>4, <1>5 DEF ReachInv, Timely

LEMMA TouchKeeps ==
    ASSUME ReachInv, NEW h \in Handler, NEW s \in Session, Touch(h, s), clock' = clock
    PROVE  ReachInv'
<1> USE ReachTypes, NoneIsNothing DEF people, clients
<1>1. Owner[s] \in User
      /\ [op |-> "touched", session |-> s, online |-> OnlineExcluding(Owner[s], s)] \in Work
  BY Trimming DEF ReachInv, Trim, OnlineExcluding
<1>2. work' \in [Handler -> Work \cup {None}]
  BY <1>1 DEF Touch, Begins, ReachInv, ReachTypeOK
<1>3. seen' \in [Session -> Nat \cup {None}] /\ \A x \in Session : seen'[x] = None => seen[x] = None
  BY DEF Touch, ReachInv, ReachTypeOK
<1>4. ReachTypeOK'
  BY <1>1, <1>2, <1>3 DEF Touch, Crosses, ReachInv, ReachTypeOK
<1>5. Timely'
  BY <1>1, Served DEF Touch, ReachInv, ReachTypeOK
<1> QED
  BY <1>4, <1>5 DEF ReachInv, Timely

LEMMA NotifyKeeps ==
    ASSUME ReachInv, NEW h \in Handler, Notify(h), clock' = clock
    PROVE  ReachInv'
<1> USE ReachTypes, NoneIsNothing DEF people, clients
<1> DEFINE s == work[h].session
           u == Owner[s]
<1>1. s \in Session /\ u \in User /\ work[h] # None /\ work[h].op = "start"
  BY WorkIsOfSession DEF Notify, Busy, Working
<1>2. \E op \in Plain : work' = [work EXCEPT ![h].op = op]
  BY DEF Notify, Plain
<1>3. work' \in [Handler -> Work \cup {None}]
  BY <1>1, <1>2, PlainGoesOn DEF Plain
<1>4. CASE s \notin table
  <2>1. ReachTypeOK'
    BY <1>3, <1>4 DEF Notify, ReachInv, ReachTypeOK
  <2>2. Timely'
    BY <1>4, SeenTheSame DEF Notify, ReachInv, EntriesRecent
  <2> QED
    BY <2>1, <2>2 DEF ReachInv, Timely
<1>5. CASE s \in table
  <2>1. presence' = Written(u, TRUE) /\ lastSeen' = [lastSeen EXCEPT ![u] = clock]
        /\ seen' = seen
    BY <1>5 DEF Notify
  <2>2. ReachTypeOK'
    BY <1>1, <1>3, <2>1, WrittenIsServed DEF Notify, ReachInv, ReachTypeOK
  <2>3. Timely'
    BY <1>1, <2>1, WrittenIsServed, Served
  <2> QED
    BY <2>2, <2>3 DEF ReachInv, Timely
<1> QED
  BY <1>4, <1>5

LEMMA TouchedKeeps ==
    ASSUME ReachInv, NEW h \in Handler, Touched(h), clock' = clock
    PROVE  ReachInv'
<1> USE ReachTypes, NoneIsNothing DEF people, clients
<1> DEFINE s == work[h].session
           u == Owner[s]
<1>1. s \in Session /\ u \in User
  BY WorkIsOfSession DEF Touched, Busy, Working
<1>2. presence' = Written(u, TRUE) /\ lastSeen' = [lastSeen EXCEPT ![u] = clock] /\ seen' = seen
  BY DEF Touched
<1>3. \E op \in Plain : work' = [work EXCEPT ![h] = [op |-> op, session |-> s]]
  BY DEF Touched, Plain
<1>4. work' \in [Handler -> Work \cup {None}]
  BY <1>1, <1>3, Plainly, WorkGoesOn
<1>5. ReachTypeOK'
  <2>1. presence' \in [User -> Entry \cup {None}]
    BY <1>1, <1>2, WrittenIsServed
  <2>2. lastSeen' \in [User -> Nat \cup {None}]
    BY <1>1, <1>2 DEF ReachInv, ReachTypeOK
  <2>3. UNCHANGED <<cached, table, seen, link, told, disturbed, clients>>
    BY DEF Touched
  <2> QED
    BY <1>4, <2>1, <2>2, <2>3 DEF ReachInv, ReachTypeOK
<1>6. Timely'
  BY <1>1, <1>2, WrittenIsServed, Served
<1> QED
  BY <1>5, <1>6 DEF ReachInv, Timely

LEMMA AnnounceKeeps ==
    ASSUME ReachInv, NEW h \in Handler, AnnounceOnline(h) \/ AnnounceOffline(h), clock' = clock
    PROVE  ReachInv'
<1> USE ReachTypes, NoneIsNothing DEF people, clients
<1> DEFINE u == Owner[work[h].session]
<1>1. u \in User /\ work[h] \in Work /\ work[h] # None
  BY WorkIsOfSession DEF AnnounceOnline, AnnounceOffline, Busy, Working
<1>2. presence' = Resolved(u)
  BY DEF AnnounceOnline, AnnounceOffline
<1>3. work' \in [Handler -> Work \cup {None}]
  <2>1. CASE AnnounceOffline(h)
    BY <2>1 DEF AnnounceOffline, Done, ReachInv, ReachTypeOK
  <2>2. CASE AnnounceOnline(h)
    BY <1>1, <2>2, PlainGoesOn DEF AnnounceOnline, Busy, Plain
  <2> QED
    BY <2>1, <2>2
<1>4. ReachTypeOK'
  BY <1>1, <1>2, <1>3, ResolvedKeeps DEF AnnounceOnline, AnnounceOffline, ReachInv, ReachTypeOK
<1>5. \A other \in User : Recent(other, presence'[other])
  BY <1>1, <1>2, ResolvedKeeps
<1>6. Timely'
  BY <1>5, SeenTheSame DEF AnnounceOnline, AnnounceOffline
<1> QED
  BY <1>4, <1>6 DEF ReachInv, Timely

LEMMA RevokeKeeps ==
    ASSUME ReachInv, NEW h \in Handler, NEW s \in Session, Revoke(h, s), clock' = clock
    PROVE  ReachInv'
<1> USE ReachTypes, NoneIsNothing DEF people, clients
<1>1. Owner[s] \in User
      /\ [op |-> "copy", session |-> s, online |-> IsOnline(Owner[s])] \in Work
  BY OnlineIsBoolean, Trimming DEF ReachInv, Trim
<1>2. work' \in [Handler -> Work \cup {None}]
  BY <1>1 DEF Revoke, Begins, ReachInv, ReachTypeOK
<1>3. ReachTypeOK'
  BY <1>1, <1>2, ResolvedKeeps DEF Revoke, Crosses, ReachInv, ReachTypeOK
<1>4. \A other \in User : Recent(other, presence'[other])
  BY <1>1, ResolvedKeeps DEF Revoke
<1>5. Timely'
  BY <1>4, SeenTheSame DEF Revoke
<1> QED
  BY <1>3, <1>5 DEF ReachInv, Timely

LEMMA CopyKeeps ==
    ASSUME ReachInv, NEW h \in Handler, CopySessions(h), clock' = clock
    PROVE  ReachInv'
<1> USE NoneIsNothing DEF people, clients
<1> DEFINE w == [op |-> "replace", session |-> work[h].session, online |-> work[h].online,
                 rest |-> table \ {work[h].session}]
<1>1. work[h].session \in Session /\ work[h].online \in BOOLEAN /\ table \subseteq Session
  BY WorkIsOfSession, TrimWork DEF CopySessions, Busy, Working, Trim, ReachInv, ReachTypeOK
<1>2. w \in Work
  BY <1>1 DEF Work
<1>3. work' = [work EXCEPT ![h] = w]
  BY DEF CopySessions
<1> HIDE DEF w
<1>4. ReachTypeOK'
  BY <1>2, <1>3, WorkGoesOn DEF CopySessions, ReachInv, ReachTypeOK
<1>5. Timely'
  BY SeenTheSame DEF CopySessions, ReachInv, EntriesRecent
<1> QED
  BY <1>4, <1>5 DEF ReachInv, Timely

LEMMA ReplaceKeeps ==
    ASSUME ReachInv, NEW h \in Handler, ReplaceSessions(h), clock' = clock
    PROVE  ReachInv'
<1> USE ReachTypes, NoneIsNothing DEF people, clients
<1>1. /\ work[h].session \in Session /\ work[h].online \in BOOLEAN
      /\ work[h].rest \subseteq Session
  BY WorkIsOfSession, ReplaceWork DEF ReplaceSessions, Busy, Working
<1>2. work' = [work EXCEPT ![h] =
          [op |-> "trimmed", session |-> work[h].session, online |-> work[h].online]]
  BY DEF ReplaceSessions
<1>3. work' \in [Handler -> Work \cup {None}]
  BY <1>1, <1>2, Trimming, WorkGoesOn DEF Trim
<1>4. table' \subseteq Session
  BY <1>1 DEF ReplaceSessions
<1>5. disturbed' \subseteq User /\ synced' \subseteq Session
  BY <1>1 DEF ReplaceSessions, ReachInv, ReachTypeOK
<1>6. ReachTypeOK'
  BY <1>3, <1>4, <1>5 DEF ReplaceSessions, ReachInv, ReachTypeOK
<1>7. Timely'
  BY SeenTheSame DEF ReplaceSessions, ReachInv, EntriesRecent
<1> QED
  BY <1>6, <1>7 DEF ReachInv, Timely

LEMMA RecheckKeeps ==
    ASSUME ReachInv, NEW h \in Handler, Recheck(h), clock' = clock
    PROVE  ReachInv'
<1> USE ReachTypes, NoneIsNothing DEF people, clients
<1> DEFINE u == Owner[work[h].session]
           online == \E s \in SessionsOf(u) : IsFresh(s)
<1>1. u \in User /\ work[h] \in Work /\ work[h].op = "trimmed"
  BY WorkIsOfSession DEF Recheck, Busy, Working
<1>2. presence' = IF work[h].online THEN Written(u, online) ELSE [presence EXCEPT ![u] = None]
  BY DEF Recheck
<1>3. online => lastSeen[u] # None /\ clock + Fresh <= lastSeen[u] + 2 * Fresh
  BY <1>1, FreshIsRecent
<1>4. work' \in [Handler -> Work \cup {None}]
  <2>1. [work[h] EXCEPT !.op = "announce off"] \in Work
    BY <1>1, TrimGoesOn DEF Trim
  <2> QED
    BY <2>1 DEF Recheck, Done, ReachInv, ReachTypeOK
<1>onl. online \in BOOLEAN
  OBVIOUS
<1> HIDE DEF online
<1>5. presence' \in [User -> Entry \cup {None}]
  BY <1>1, <1>2, <1>onl, WrittenKeeps DEF ReachInv, ReachTypeOK
<1>6. ReachTypeOK'
  BY <1>4, <1>5 DEF Recheck, ReachInv, ReachTypeOK
<1>7. \A other \in User : Recent(other, presence'[other])
  <2>1. CASE work[h].online
    <3>1. \A other \in User : presence'[other] =
              IF other = u /\ cached THEN [online |-> online, expires |-> clock + Fresh]
              ELSE presence[other]
      BY <1>1, <1>2, <1>onl, <2>1, WrittenKeeps
    <3> QED
      BY <1>3, <3>1 DEF Recent, ReachInv, EntriesRecent
  <2>2. CASE ~ work[h].online
    BY <1>2, <2>2 DEF Recent, ReachInv, ReachTypeOK, EntriesRecent
  <2> QED
    BY <2>1, <2>2
<1>8. Timely'
  BY <1>7, SeenTheSame DEF Recheck
<1> QED
  BY <1>6, <1>8 DEF ReachInv, Timely

\* A request ends, or comes to its answer.
LEMMA LinksKeep ==
    ASSUME ReachInv, clock' = clock,
           \/ \E s \in Session : Lose(s) \/ Close(s)
           \/ \E h \in Handler : Register(h) \/ Answer(h) \/ RollBack(h) \/ SaveRaises(h)
    PROVE  ReachInv'
<1> USE DEF people, clients
<1>1. UNCHANGED <<cached, seen, presence, told, lastSeen, clients>>
  BY DEF Lose, Close, Register, Answer, RollBack, SaveRaises
<1>2. link' \in [Session -> Link]
  BY DEF Lose, Close, Register, Answer, RollBack, SaveRaises, ReachInv, ReachTypeOK, Link
<1>3. work' \in [Handler -> Work \cup {None}]
  <2>1. ASSUME NEW h \in Handler, Register(h) PROVE work' \in [Handler -> Work \cup {None}]
    BY <2>1, PlainGoesOn DEF Register, Busy, Working, Plain
  <2> QED
    BY <2>1 DEF Lose, Close, Answer, RollBack, SaveRaises, Done, ReachInv, ReachTypeOK
<1>4. disturbed' \subseteq User /\ table' \subseteq Session
  <2>1. ASSUME NEW h \in Handler, SaveRaises(h) PROVE Owner[work[h].session] \in User
    BY <2>1, WorkIsOfSession DEF SaveRaises, Busy, Working
  <2> QED
    BY <2>1 DEF Lose, Close, Register, Answer, RollBack, SaveRaises, ReachInv, ReachTypeOK
<1>5. ReachTypeOK'
  BY <1>1, <1>2, <1>3, <1>4 DEF ReachInv, ReachTypeOK
<1>6. Timely'
  BY <1>1, SeenTheSame DEF ReachInv, EntriesRecent
<1> QED
  BY <1>5, <1>6 DEF ReachInv, Timely

LEMMA QueryKeeps ==
    ASSUME ReachInv, NEW u \in User, Query(u), clock' = clock
    PROVE  ReachInv'
<1> USE DEF people, clients
<1>1. ReachTypeOK'
  BY ResolvedKeeps DEF Query, ReachInv, ReachTypeOK
<1>2. Timely'
  BY ResolvedKeeps, SeenTheSame DEF Query
<1> QED
  BY <1>1, <1>2 DEF ReachInv, Timely

\* The messages: what a send has left to do gets less.
LEMMA SendBegins ==
    ASSUME ReachInv, NEW h \in Handler, NEW s \in Session, SendMessage(h, s)
    PROVE  \E w : SendWork(w) /\ w.session = s /\ w.list = User /\ w.push = {}
                  /\ work[h] = None /\ work' = [work EXCEPT ![h] = w]
<1>1. PICK wake \in {User \ {Owner[s]}, {}} :
          Begins(h, [op |-> "send", session |-> s, list |-> User, push |-> {}, wake |-> wake,
                     lacks |-> Session \ {s}])
  BY DEF SendMessage
<1>2. SendWork([op |-> "send", session |-> s, list |-> User, push |-> {}, wake |-> wake,
                lacks |-> Session \ {s}])
  BY DEF SendWork
<1> QED
  BY <1>1, <1>2 DEF Begins

LEMMA SendGoesOn ==
    ASSUME ReachInv, NEW h \in Handler,
           (\E u \in User : List(h, u) \/ Wake(h, u)) \/ (\E s \in Session : Push(h, s))
    PROVE  /\ work[h] # None /\ work[h].op = "send"
           /\ \E w : SendWork(w) /\ w.session = work[h].session
                     /\ work' = [work EXCEPT ![h] = w]
<1>1. work[h] # None /\ work[h].op = "send" /\ SendWork(work[h])
  BY WorkIsSend DEF List, Wake, Push, Busy, Working, ReachInv, ReachTypeOK
<1> USE <1>1 DEF SendWork
<1>2. ASSUME NEW u \in User, List(h, u)
      PROVE  \E w : SendWork(w) /\ w.session = work[h].session /\ work' = [work EXCEPT ![h] = w]
  <2> DEFINE w == [work[h] EXCEPT !.list = @ \ {u},
                                  !.push = @ \cup (Live(u) \ {work[h].session})]
  <2>1. work' = [work EXCEPT ![h] = w]
    BY <1>2 DEF List, ReachInv, ReachTypeOK
  <2>2. SendWork(w) /\ w.session = work[h].session
    BY DEF Live, SessionsOf
  <2> HIDE DEF w
  <2> QED
    BY <2>1, <2>2
<1>3. ASSUME NEW u \in User, Wake(h, u)
      PROVE  \E w : SendWork(w) /\ w.session = work[h].session /\ work' = [work EXCEPT ![h] = w]
  <2> DEFINE w == [work[h] EXCEPT !.wake = @ \ {u}]
  <2>1. work' = [work EXCEPT ![h] = w]
    BY <1>3 DEF Wake, ReachInv, ReachTypeOK
  <2>2. SendWork(w) /\ w.session = work[h].session
    OBVIOUS
  <2> HIDE DEF w
  <2> QED
    BY <2>1, <2>2
<1>4. ASSUME NEW s \in Session, Push(h, s)
      PROVE  \E w : SendWork(w) /\ w.session = work[h].session /\ work' = [work EXCEPT ![h] = w]
  <2> DEFINE lacks == IF link[s] \in {"listed", "registered"} THEN work[h].lacks \ {s}
                      ELSE work[h].lacks
             w == [work[h] EXCEPT !.push = @ \ {s}, !.lacks = lacks]
  <2>1. work' = [work EXCEPT ![h] = w]
    BY <1>4 DEF Push, ReachInv, ReachTypeOK
  <2>2. SendWork(w) /\ w.session = work[h].session
    OBVIOUS
  <2> HIDE DEF w
  <2> QED
    BY <2>1, <2>2
<1> QED
  BY <1>1, <1>2, <1>3, <1>4

LEMMA MessagesKeep ==
    ASSUME ReachInv, NEW h \in Handler, clock' = clock,
           \/ \E s \in Session : SendMessage(h, s) \/ Push(h, s)
           \/ \E u \in User : List(h, u) \/ Wake(h, u)
           \/ SendFails(h) \/ Sent(h)
    PROVE  ReachInv'
<1> USE DEF people, clients
<1>1. UNCHANGED <<cached, table, seen, told, lastSeen, disturbed, synced>>
  BY DEF SendMessage, Push, List, Wake, SendFails, Sent
<1>2. link' \in [Session -> Link]
  BY DEF SendMessage, Push, List, Wake, SendFails, Sent, ReachInv, ReachTypeOK, Link
<1>3. work' \in [Handler -> Work \cup {None}]
  <2>1. ASSUME NEW w, SendWork(w), work' = [work EXCEPT ![h] = w]
        PROVE  work' \in [Handler -> Work \cup {None}]
    BY <2>1, SendIsWork, WorkGoesOn
  <2>2. CASE SendFails(h) \/ Sent(h)
    BY <2>2 DEF SendFails, Sent, Done, ReachInv, ReachTypeOK
  <2> QED
    BY <2>1, <2>2, SendBegins, SendGoesOn
<1>4. /\ presence' \in [User -> Entry \cup {None}]
      /\ \A u \in User : Recent(u, presence'[u])
  <2>1. ASSUME NEW u \in User, presence' = Resolved(u)
        PROVE  /\ presence' \in [User -> Entry \cup {None}]
               /\ \A other \in User : Recent(other, presence'[other])
    BY <2>1, ResolvedKeeps
  <2>2. presence' = presence \/ \E u \in User : presence' = Resolved(u)
    BY DEF SendMessage, Push, List, Wake, SendFails, Sent
  <2>3. CASE presence' = presence
    BY <2>3 DEF ReachInv, ReachTypeOK, EntriesRecent
  <2> QED
    BY <2>1, <2>2, <2>3
<1>5. behind' \subseteq Session
  <2>1. ASSUME Sent(h) PROVE behind' \subseteq Session
    <3>1. work[h].lacks \subseteq Session
      BY <2>1, WorkIsSend DEF Sent, Busy, Working, ReachInv, ReachTypeOK, SendWork
    <3> QED
      BY <2>1, <3>1 DEF Sent, ReachInv, ReachTypeOK
  <2> QED
    BY <2>1 DEF SendMessage, Push, List, Wake, SendFails, ReachInv, ReachTypeOK
<1>6. ReachTypeOK'
  BY <1>1, <1>2, <1>3, <1>4, <1>5 DEF ReachInv, ReachTypeOK
<1>7. Timely'
  BY <1>1, <1>4, SeenTheSame
<1> QED
  BY <1>6, <1>7 DEF ReachInv, Timely

\* What a sync does to the sends that are on their way.
LEMMA SyncWork ==
    ASSUME ReachInv, NEW s \in Session, Sync(s), NEW h \in Handler
    PROVE  /\ ~ Busy(h, "send") => work'[h] = work[h]
           /\ Busy(h, "send") =>
                 /\ SendWork(work'[h])
                 /\ work'[h].lacks = work[h].lacks \ {s}
                 /\ \A field \in {"session", "list", "push"} : work'[h][field] = work[h][field]
<1>1. work'[h] = IF Busy(h, "send") THEN [work[h] EXCEPT !.lacks = work[h].lacks \ {s}]
                 ELSE work[h]
  BY DEF Sync
<1>2. ASSUME Busy(h, "send") PROVE SendWork(work[h])
  BY <1>2, WorkIsSend DEF Busy, Working, ReachInv, ReachTypeOK
<1> QED
  BY <1>1, <1>2 DEF SendWork

LEMMA SyncKeeps ==
    ASSUME ReachInv, NEW s \in Session, Sync(s), clock' = clock
    PROVE  ReachInv'
<1> USE DEF people, clients
<1>1. \A h \in Handler : work'[h] \in Work \cup {None}
  BY SyncWork, SendIsWork DEF ReachInv, ReachTypeOK
<1>2. work' \in [Handler -> Work \cup {None}]
  BY <1>1 DEF Sync
<1>3. ReachTypeOK'
  BY <1>2 DEF Sync, ReachInv, ReachTypeOK
<1>4. Timely'
  BY SeenTheSame DEF Sync, ReachInv, EntriesRecent
<1> QED
  BY <1>3, <1>4 DEF ReachInv, Timely

\* What a restart does to the sessions.
LEMMA RestartSaved ==
    ASSUME ReachInv, RestartReach
    PROVE  /\ seen' \in [Session -> Nat \cup {None}] /\ table' \subseteq Session
           /\ \A s \in Session : seen'[s] # None =>
                 seen[s] # None /\ seen'[s] \in Nat /\ seen'[s] <= seen[s]
           /\ disturbed' = disturbed \cup {u \in User : WorkingOn(u) # {}}
                                     \cup {Owner[s] : s \in table' \ table}
<1> USE ReachTypes, NoneIsNothing
<1>1. PICK saved \in SUBSET {s \in Session : seen[s] # None} :
        /\ \E then \in [saved -> 0 .. clock] :
            /\ \A s \in saved : then[s] <= seen[s]
            /\ seen' = [s \in Session |-> IF s \in saved THEN then[s] ELSE None]
        /\ table' = saved
        /\ disturbed' = disturbed \cup {u \in User : WorkingOn(u) # {}}
                                  \cup {Owner[s] : s \in saved \ table}
  BY DEF RestartReach
<1>2. PICK then \in [saved -> 0 .. clock] :
        /\ \A s \in saved : then[s] <= seen[s]
        /\ seen' = [s \in Session |-> IF s \in saved THEN then[s] ELSE None]
  BY <1>1
<1>3. \A s \in saved : then[s] \in Nat
  BY <1>2 DEF ReachInv
<1>4. seen' \in [Session -> Nat \cup {None}]
  BY <1>2, <1>3
<1>5. \A s \in Session : seen'[s] # None =>
          seen[s] # None /\ seen'[s] \in Nat /\ seen'[s] <= seen[s]
  BY <1>2, <1>3
<1> QED
  BY <1>1, <1>4, <1>5

LEMMA RestartKeepsReach == ASSUME ReachInv, RestartReach, clock' = clock PROVE ReachInv'
<1> USE ReachTypes, NoneIsNothing DEF people, clients
<1>1. disturbed' \subseteq User
  BY RestartSaved DEF ReachInv, ReachTypeOK
<1>2. ReachTypeOK'
  BY <1>1, RestartSaved DEF RestartReach, ReachInv, ReachTypeOK, Link
<1>3. Timely'
  BY RestartSaved, NotServed DEF RestartReach, ReachInv, EntriesRecent
<1> QED
  BY <1>2, <1>3 DEF ReachInv, Timely

LEMMA ReachNextKeeps == ASSUME ReachInv, ReachNext, clock' = clock PROVE ReachInv'
<1>1. ASSUME NEW h \in Handler, ReachHandles(h) PROVE ReachInv'
  <2>1. ASSUME NEW s \in Session,
               \/ \E by \in {"login", "register"} : SignOn(h, s, by)
               \/ SignOnWeb(h, s) \/ Touch(h, s) \/ Revoke(h, s)
        PROVE  ReachInv'
    BY <2>1, SignOnKeeps, TouchKeeps, RevokeKeeps DEF SignOnWeb
  <2>2. ASSUME \/ \E s \in Session : SendMessage(h, s) \/ Push(h, s)
               \/ \E u \in User : List(h, u) \/ Wake(h, u)
               \/ SendFails(h) \/ Sent(h)
        PROVE  ReachInv'
    BY <2>2, MessagesKeep
  <2> QED
    BY <1>1, <2>1, <2>2, NotifyKeeps, TouchedKeeps, AnnounceKeeps, CopyKeeps, ReplaceKeeps,
       RecheckKeeps, LinksKeep
    DEF ReachHandles
<1> QED
  BY <1>1, LinksKeep, QueryKeeps, SyncKeeps, RestartKeepsReach DEF ReachNext

--------------------------------------------------------------------------------
(* Reach: what was announced *)

AnyFresh(u) == \E s \in SessionsOf(u) : IsFresh(s)

\* What a handler that works on the sessions of a user knows of the last announcement,
\* which is what makes it right not to announce, or to announce that the user is off.
Foresees(h, u) ==
    /\ work[h].op = "start" => (OnlineExcluding(u, work[h].session) => told[u])
    /\ work[h].op = "touched" => (work[h].online => told[u])
    /\ work[h].op \in {"register", "answer", "copy", "replace", "trimmed"} =>
          (AnyFresh(u) => told[u])
    /\ work[h].op = "announce off" => ~ AnyFresh(u)

\* One handler at most works on a user's sessions, and if none does, or when it will be
\* done, a user with a fresh session was announced.
ToldOf(u) ==
    /\ WorkingOn(u) = {} => (AnyFresh(u) => told[u])
    /\ \A h \in WorkingOn(u) : WorkingOn(u) = {h} /\ Foresees(h, u)

Announced == \A u \in User \ disturbed : ToldOf(u)

LEMMA AnnouncedIsTold == Announced => OnlineIsTold
  BY DEF Announced, ToldOf, AnyFresh, OnlineIsTold

\* Sessions get no fresher.
NoneFresher == \A s \in Session : IsFresh(s)' => IsFresh(s)

LEMMA FreshBefore ==
    ASSUME NoneFresher, NEW u \in User
    PROVE  /\ AnyFresh(u)' => AnyFresh(u)
           /\ \A s : OnlineExcluding(u, s)' => OnlineExcluding(u, s)
  BY DEF NoneFresher, AnyFresh, OnlineExcluding, SessionsOf

\* The user is another one's business.
LEMMA ToldOfOthers ==
    ASSUME NEW u \in User, ToldOf(u),
           WorkingOn(u)' = WorkingOn(u), \A h \in WorkingOn(u) : work'[h] = work[h],
           told'[u] = told[u],
           \A s \in SessionsOf(u) : IsFresh(s)' => IsFresh(s)
    PROVE  ToldOf(u)'
<1>1. /\ AnyFresh(u)' => AnyFresh(u)
      /\ \A s : OnlineExcluding(u, s)' => OnlineExcluding(u, s)
  BY DEF AnyFresh, OnlineExcluding, SessionsOf
<1>2. ASSUME NEW h \in WorkingOn(u) PROVE Foresees(h, u)'
  <2>1. Foresees(h, u) /\ work'[h] = work[h]
    BY DEF ToldOf
  <2> QED
    BY <1>1, <2>1, Zenon DEF Foresees
<1> QED
  BY <1>1, <1>2 DEF ToldOf

\* Nobody's work on sessions and no announcement changes.
LEMMA NothingTold ==
    ASSUME Announced, told' = told, disturbed' = disturbed, NoneFresher,
           \A u \in User : WorkingOn(u)' = WorkingOn(u)
                           /\ \A h \in WorkingOn(u) : work'[h] = work[h]
    PROVE  Announced'
<1>1. ASSUME NEW u \in User, u \notin disturbed PROVE ToldOf(u)'
  BY <1>1, ToldOfOthers DEF Announced, NoneFresher, SessionsOf
<1> QED
  BY <1>1 DEF Announced

Serves(w, u) == w # None /\ w.op # "send" /\ Owner[w.session] = u

\* Who is at work on a user's sessions when a handler has gone on.
LEMMA Workers ==
    ASSUME ReachInv, NEW h \in Handler, NEW w, work' = [work EXCEPT ![h] = w], NEW u \in User
    PROVE  /\ WorkingOn(u)' = (WorkingOn(u) \ {h}) \cup (IF Serves(w, u) THEN {h} ELSE {})
           /\ work'[h] = w
           /\ \A other \in WorkingOn(u) \ {h} : work'[other] = work[other]
<1>1. work'[h] = w /\ \A other \in Handler \ {h} : work'[other] = work[other]
  BY DEF ReachInv, ReachTypeOK
<1>2. \A x \in Handler : x \in WorkingOn(u)' <=> Serves(work'[x], u)
  BY DEF WorkingOn, Working, Serves
<1>3. \A x \in Handler : x \in WorkingOn(u) <=> Serves(work[x], u)
  BY DEF WorkingOn, Working, Serves
<1>4. WorkingOn(u) \subseteq Handler /\ WorkingOn(u)' \subseteq Handler
  BY DEF WorkingOn
<1> QED
  BY <1>1, <1>2, <1>3, <1>4

LEMMA NotAtWork ==
    ASSUME ReachInv, NEW h \in Handler, NEW w, work' = [work EXCEPT ![h] = w],
           NEW v \in User, ~ Serves(w, v)
    PROVE  /\ WorkingOn(v)' = WorkingOn(v) \ {h}
           /\ \A x \in WorkingOn(v) \ {h} : work'[x] = work[x]
<1>1. WorkingOn(v)' = (WorkingOn(v) \ {h}) \cup (IF Serves(w, v) THEN {h} ELSE {})
  BY Workers
<1>2. \A x \in WorkingOn(v) \ {h} : work'[x] = work[x]
  BY Workers
<1> QED
  BY <1>1, <1>2

\* A handler goes on with the sessions of one user.
LEMMA GoesOn ==
    ASSUME ReachInv, Announced, NEW h \in Handler, NEW w, work' = [work EXCEPT ![h] = w],
           NEW u \in User, h \in WorkingOn(u), w = None \/ Serves(w, u),
           u \notin disturbed' => u \notin disturbed \/ WorkingOn(u) = {h},
           disturbed \subseteq disturbed' \cup {u},
           \A other \in User \ {u} : told'[other] = told[other],
           \A s \in Session : Owner[s] \notin disturbed' \cup {u} => (IsFresh(s)' => IsFresh(s)),
           u \notin disturbed' =>
               IF w = None THEN AnyFresh(u)' => told'[u] ELSE Foresees(h, u)'
    PROVE  Announced'
<1>1. ASSUME NEW other \in User, other # u, other \notin disturbed' PROVE ToldOf(other)'
  <2>1. h \notin WorkingOn(other) /\ ~ Serves(w, other)
    BY <1>1 DEF WorkingOn, Serves
  <2>2. /\ WorkingOn(other)' = WorkingOn(other) \ {h}
        /\ \A x \in WorkingOn(other) \ {h} : work'[x] = work[x]
    BY <2>1, NotAtWork
  <2>3. \A s \in SessionsOf(other) : IsFresh(s)' => IsFresh(s)
    BY <1>1 DEF SessionsOf
  <2> QED
    BY <1>1, <2>1, <2>2, <2>3, ToldOfOthers DEF Announced
<1>2. ASSUME u \notin disturbed' PROVE ToldOf(u)'
  <2>1. WorkingOn(u) = {h}
    BY <1>2 DEF Announced, ToldOf
  <2>2. WorkingOn(u)' = (WorkingOn(u) \ {h}) \cup (IF Serves(w, u) THEN {h} ELSE {})
    BY Workers
  <2>3. CASE w = None
    <3>1. WorkingOn(u)' = {}
      BY <2>1, <2>2, <2>3 DEF Serves
    <3> QED
      BY <1>2, <2>3, <3>1 DEF ToldOf
  <2>4. CASE w # None
    <3>1. WorkingOn(u)' = {h}
      BY <2>1, <2>2, <2>4
    <3> QED
      BY <1>2, <2>4, <3>1 DEF ToldOf
  <2> QED
    BY <2>3, <2>4
<1> QED
  BY <1>1, <1>2 DEF Announced

\* A handler begins to work on the sessions of one user.
LEMMA Begun ==
    ASSUME ReachInv, Announced, NEW h \in Handler, NEW w, Begins(h, w),
           NEW u \in User, Serves(w, u), Crosses(u), told' = told,
           \A s \in Session : Owner[s] # u => (IsFresh(s)' => IsFresh(s)),
           u \notin disturbed' => Foresees(h, u)'
    PROVE  Announced'
<1>1. work' = [work EXCEPT ![h] = w] /\ work[h] = None
  BY DEF Begins
<1>2. disturbed' = IF WorkingOn(u) # {} THEN disturbed \cup {u} ELSE disturbed
  BY DEF Crosses
<1>3. ASSUME NEW other \in User, other # u, other \notin disturbed PROVE ToldOf(other)'
  <2>1. h \notin WorkingOn(other) /\ ~ Serves(w, other)
    BY <1>1, <1>3 DEF WorkingOn, Working, Serves
  <2>2. /\ WorkingOn(other)' = WorkingOn(other) \ {h}
        /\ \A x \in WorkingOn(other) \ {h} : work'[x] = work[x]
    BY <1>1, <2>1, NotAtWork
  <2>3. \A s \in SessionsOf(other) : IsFresh(s)' => IsFresh(s)
    BY <1>3 DEF SessionsOf
  <2> QED
    BY <1>3, <2>1, <2>2, <2>3, ToldOfOthers DEF Announced
<1>4. ASSUME u \notin disturbed' PROVE ToldOf(u)'
  <2>1. WorkingOn(u) = {}
    BY <1>2, <1>4
  <2>2. WorkingOn(u)' = {h}
    BY <1>1, <2>1, Workers
  <2> QED
    BY <1>4, <2>2 DEF ToldOf
<1> QED
  BY <1>2, <1>3, <1>4 DEF Announced
--------------------------------------------------------------------------------
(* Reach: what was announced, one step each *)

\* What each step asks of what was announced last.
LEMMA ForeseesStart ==
    ASSUME NEW h \in Handler, NEW u \in User, work'[h].op = "start",
           OnlineExcluding(u, work[h].session)' => told'[u]
    PROVE  Foresees(h, u)'
  BY Zenon DEF Foresees

LEMMA ForeseesTouched ==
    ASSUME NEW h \in Handler, NEW u \in User, work'[h].op = "touched",
           work'[h].online => told'[u]
    PROVE  Foresees(h, u)'
  BY Zenon DEF Foresees

LEMMA ForeseesFresh ==
    ASSUME NEW h \in Handler, NEW u \in User, work'[h].op \in {"register", "answer", "copy", "replace", "trimmed"},
           AnyFresh(u)' => told'[u]
    PROVE  Foresees(h, u)'
  BY Zenon DEF Foresees

LEMMA ForeseesOn ==
    ASSUME NEW h \in Handler, NEW u \in User, work'[h].op = "announce on"
    PROVE  Foresees(h, u)'
  BY Zenon DEF Foresees

LEMMA ForeseesOff ==
    ASSUME NEW h \in Handler, NEW u \in User, work'[h].op = "announce off", ~ AnyFresh(u)'
    PROVE  Foresees(h, u)'
  BY Zenon DEF Foresees

\* A user that no handler works on.
LEMMA NoneAtWork ==
    ASSUME Announced, NEW u \in User, Crosses(u), u \notin disturbed'
    PROVE  u \notin disturbed /\ WorkingOn(u) = {} /\ (AnyFresh(u) => told[u])
<1>1. u \notin disturbed /\ WorkingOn(u) = {}
  BY DEF Crosses
<1> QED
  BY <1>1 DEF Announced, ToldOf

LEMMA SignOnTells ==
    ASSUME ReachInv, Announced, NEW h \in Handler, NEW s \in Session,
           NEW by \in {"login", "register", "web"}, SignOn(h, s, by), clock' = clock
    PROVE  Announced'
<1> DEFINE u == Owner[s]
           w == [op |-> "start", session |-> s]
<1>1. u \in User /\ Begins(h, w) /\ Crosses(u) /\ told' = told
  BY ReachTypes DEF SignOn, ReachInv
<1>2. Serves(w, u)
  <2>1. w \in Work
    BY DEF Work
  <2> QED
    BY <2>1, NoneIsNothing DEF Serves
<1>3. \A x \in Session : x # s => (IsFresh(x)' => IsFresh(x))
  BY DEF SignOn, IsFresh, ReachInv, ReachTypeOK
<1>4. ASSUME u \notin disturbed' PROVE Foresees(h, u)'
  <2>1. AnyFresh(u) => told[u]
    BY <1>1, <1>4, NoneAtWork
  <2>2. OnlineExcluding(u, s)' => AnyFresh(u)
    BY <1>3 DEF OnlineExcluding, AnyFresh, SessionsOf
  <2>3. work'[h] = w
    BY <1>1 DEF Begins, ReachInv, ReachTypeOK
  <2> QED
    BY <1>1, <2>1, <2>2, <2>3, ForeseesStart
<1> HIDE DEF w
<1> QED
  BY <1>1, <1>2, <1>3, <1>4, Begun

LEMMA TouchTells ==
    ASSUME ReachInv, Announced, NEW h \in Handler, NEW s \in Session, Touch(h, s), clock' = clock
    PROVE  Announced'
<1> DEFINE u == Owner[s]
           w == [op |-> "touched", session |-> s, online |-> OnlineExcluding(u, s)]
<1>1. u \in User /\ Begins(h, w) /\ Crosses(u) /\ told' = told
  BY ReachTypes DEF Touch, ReachInv
<1>2. Serves(w, u)
  <2>1. w \in Work
    BY DEF Work, OnlineExcluding
  <2> QED
    BY <2>1, NoneIsNothing DEF Serves
<1>3. \A x \in Session : x # s => (IsFresh(x)' => IsFresh(x))
  BY DEF Touch, IsFresh, ReachInv, ReachTypeOK
<1>4. ASSUME u \notin disturbed' PROVE Foresees(h, u)'
  <2>1. AnyFresh(u) => told[u]
    BY <1>1, <1>4, NoneAtWork
  <2>2. OnlineExcluding(u, s) => AnyFresh(u)
    BY DEF OnlineExcluding, AnyFresh, SessionsOf
  <2>3. work'[h] = w
    BY <1>1 DEF Begins, ReachInv, ReachTypeOK
  <2> QED
    BY <1>1, <2>1, <2>2, <2>3, ForeseesTouched
<1> HIDE DEF w
<1> QED
  BY <1>1, <1>2, <1>3, <1>4, Begun

LEMMA RevokeTells ==
    ASSUME ReachInv, Announced, NEW h \in Handler, NEW s \in Session, Revoke(h, s), clock' = clock
    PROVE  Announced'
<1> DEFINE u == Owner[s]
           w == [op |-> "copy", session |-> s, online |-> IsOnline(u)]
<1>1. u \in User /\ Begins(h, w) /\ Crosses(u) /\ told' = told
  BY ReachTypes DEF Revoke, ReachInv
<1>2. Serves(w, u)
  <2>1. w \in Work
    BY <1>1, OnlineIsBoolean DEF Work
  <2> QED
    BY <2>1, NoneIsNothing DEF Serves
<1>3. NoneFresher
  BY DEF Revoke, NoneFresher, IsFresh, ReachInv, ReachTypeOK
<1>4. ASSUME u \notin disturbed' PROVE Foresees(h, u)'
  <2>1. AnyFresh(u) => told[u]
    BY <1>1, <1>4, NoneAtWork
  <2>2. AnyFresh(u)' => AnyFresh(u)
    BY <1>1, <1>3, FreshBefore
  <2>3. work'[h] = w
    BY <1>1 DEF Begins, ReachInv, ReachTypeOK
  <2> QED
    BY <1>1, <2>1, <2>2, <2>3, ForeseesFresh
<1> HIDE DEF w
<1> QED
  BY <1>1, <1>2, <1>3, <1>4, Begun DEF NoneFresher

\* A handler at work on sessions, and what it knows.
LEMMA AtWork ==
    ASSUME ReachInv, NEW h \in Handler, work[h] # None, work[h].op # "send"
    PROVE  LET u == Owner[work[h].session]
           IN  /\ u \in User /\ h \in WorkingOn(u) /\ work[h] \in Work
               /\ (Announced /\ u \notin disturbed) => WorkingOn(u) = {h} /\ Foresees(h, u)
<1> DEFINE u == Owner[work[h].session]
<1>1. u \in User /\ work[h] \in Work /\ h \in WorkingOn(u)
  BY WorkIsOfSession DEF WorkingOn, Working
<1>2. ASSUME Announced, u \notin disturbed PROVE WorkingOn(u) = {h} /\ Foresees(h, u)
  BY <1>1, <1>2 DEF Announced, ToldOf
<1> HIDE DEF u
<1> QED
  BY <1>1, <1>2 DEF u
\* A handler goes on with a session and leaves the sessions and announcements as they are.
LEMMA SameWork ==
    ASSUME ReachInv, Announced, NEW h \in Handler, work[h] # None, work[h].op # "send",
           NEW u \in User, Owner[work[h].session] = u,
           NEW w, work' = [work EXCEPT ![h] = w], w = None \/ Serves(w, u),
           UNCHANGED <<table, seen, told, disturbed, clock>>,
           u \notin disturbed =>
               IF w = None THEN AnyFresh(u) => told[u] ELSE Foresees(h, u)'
    PROVE  Announced'
<1>1. h \in WorkingOn(u)
  BY AtWork
<1>2. NoneFresher
  BY DEF NoneFresher, IsFresh
<1>3. AnyFresh(u)' => AnyFresh(u)
  BY <1>2, FreshBefore
<1>4. u \notin disturbed' => IF w = None THEN AnyFresh(u)' => told'[u] ELSE Foresees(h, u)'
  BY <1>3
<1> QED
  BY <1>1, <1>2, <1>4, GoesOn DEF NoneFresher

LEMMA ServesOn ==
    ASSUME ReachInv, NEW h \in Handler, work[h] # None, work[h].op # "send",
           NEW w \in Work, w.op # "send", w.session = work[h].session
    PROVE  Serves(w, Owner[work[h].session])
  BY NoneIsNothing DEF Serves

\* A handler goes on with a session, and nothing is known or told otherwise.
LEMMA PlainTells ==
    ASSUME ReachInv, Announced, NEW h \in Handler, work[h] # None, work[h].op \in Plain,
           NEW op \in Plain \ {"start"}, work' = [work EXCEPT ![h].op = op],
           NEW u \in User, Owner[work[h].session] = u,
           UNCHANGED <<table, seen, told, disturbed, clock>>,
           u \notin disturbed => (op = "announce on" \/ (AnyFresh(u) => told[u]))
    PROVE  Announced'
<1> DEFINE w == [op |-> op, session |-> work[h].session]
<1>1. work' = [work EXCEPT ![h] = w]
  BY PlainGoesOn
<1>2. w \in Work /\ w.session = work[h].session /\ w.op = op
  BY WorkIsOfSession, Plainly
<1> HIDE DEF w
<1>3. work[h].op # "send" /\ op # "send"
  BY DEF Plain
<1>4. Serves(w, u) /\ w # None
  BY <1>2, <1>3, ServesOn, NoneIsNothing
<1>5. work'[h] = w
  BY <1>1 DEF ReachInv, ReachTypeOK
<1>6. AnyFresh(u)' => AnyFresh(u)
  BY DEF AnyFresh, IsFresh, SessionsOf
<1>7. u \notin disturbed => Foresees(h, u)'
  <2>1. CASE op = "announce on"
    BY <1>2, <1>5, <2>1, ForeseesOn
  <2>2. CASE op # "announce on"
    <3>1. op \in {"register", "answer"}
      BY <2>2 DEF Plain
    <3> QED
      BY <1>2, <1>5, <1>6, <2>2, <3>1, ForeseesFresh
  <2> QED
    BY <2>1, <2>2
<1> QED
  BY <1>1, <1>3, <1>4, <1>7, SameWork

LEMMA NotifyTells ==
    ASSUME ReachInv, Announced, NEW h \in Handler, Notify(h), clock' = clock
    PROVE  Announced'
<1> DEFINE s == work[h].session
<1>1. s \in Session /\ Owner[s] \in User /\ work[h] # None /\ work[h].op = "start"
  BY WorkIsOfSession DEF Notify, Busy, Working
<1> PICK u \in User : Owner[s] = u
  BY <1>1
<1>2. UNCHANGED <<table, seen, told, disturbed, clock>>
  BY DEF Notify, people, clients
<1>3. u \notin disturbed => (OnlineExcluding(u, s) => told[u])
  <2>1. work[h].op # "send"
    BY <1>1
  <2> QED
    BY <1>1, <2>1, AtWork, Zenon DEF Foresees
<1>4. CASE s \notin table \/ OnlineExcluding(u, s)
  <2>1. work' = [work EXCEPT ![h].op = "register"]
    BY <1>4 DEF Notify
  <2>2. s \notin table => (AnyFresh(u) => OnlineExcluding(u, s))
    BY DEF AnyFresh, OnlineExcluding, IsFresh
  <2> QED
    BY <1>1, <1>2, <1>3, <1>4, <2>1, <2>2, PlainTells DEF Plain
<1>5. CASE ~ (s \notin table \/ OnlineExcluding(u, s))
  <2>1. work' = [work EXCEPT ![h].op = "announce on"]
    BY <1>5 DEF Notify
  <2> QED
    BY <1>1, <1>2, <2>1, PlainTells DEF Plain
<1> QED
  BY <1>4, <1>5

\* The second factor is asked for: whoever counts as online did without the session.
LEMMA RollBackTells ==
    ASSUME ReachInv, Announced, NEW h \in Handler, RollBack(h), clock' = clock
    PROVE  Announced'
<1> DEFINE s == work[h].session
<1>1. s \in Session /\ Owner[s] \in User /\ work[h] # None /\ work[h].op = "start"
      /\ work[h].op # "send"
  BY WorkIsOfSession DEF RollBack, Busy, Working
<1> PICK u \in User : Owner[s] = u
  BY <1>1
<1>2. UNCHANGED <<seen, told, disturbed, clock>> /\ table' = table \ {s}
      /\ work' = [work EXCEPT ![h] = None]
  BY DEF RollBack, Done, people, clients
<1>3. h \in WorkingOn(u) /\ (u \notin disturbed => Foresees(h, u))
  BY <1>1, AtWork
<1>4. u \notin disturbed => (OnlineExcluding(u, s) => told[u])
  BY <1>1, <1>3, Zenon DEF Foresees
<1>5. \A x \in Session : IsFresh(x)' => IsFresh(x) /\ x # s
  BY <1>2 DEF IsFresh
<1>6. AnyFresh(u)' => OnlineExcluding(u, s)
  BY <1>5 DEF AnyFresh, OnlineExcluding, SessionsOf
<1> QED
  BY <1>2, <1>3, <1>4, <1>5, <1>6, GoesOn

LEMMA TouchedTells ==
    ASSUME ReachInv, Announced, NEW h \in Handler, Touched(h), clock' = clock
    PROVE  Announced'
<1> DEFINE s == work[h].session
<1>1. s \in Session /\ Owner[s] \in User /\ work[h] # None /\ work[h].op # "send"
      /\ work[h].op = "touched"
  BY WorkIsOfSession DEF Touched, Busy, Working
<1> PICK u \in User : Owner[s] = u
  BY <1>1
<1>2. UNCHANGED <<table, seen, told, disturbed, clock>>
  BY DEF Touched, clients
<1>3. u \notin disturbed => (work[h].online => told[u])
  BY <1>1, AtWork, Zenon DEF Foresees
<1>4. CASE work[h].online
  <2> DEFINE w == [op |-> "register", session |-> s]
  <2>1. work' = [work EXCEPT ![h] = w]
    BY <1>1, <1>4, Zenon DEF Touched
  <2>2. w \in Work
    BY <1>1, Plainly DEF Plain
  <2>3. work'[h] = w
    BY <2>1 DEF ReachInv, ReachTypeOK
  <2>4. u \notin disturbed => Foresees(h, u)'
    BY <1>1, <1>2, <1>3, <1>4, <2>3, ForeseesFresh
  <2>5. Serves(w, u) /\ w # None
    BY <1>1, <2>2, ServesOn, NoneIsNothing
  <2> HIDE DEF w
  <2> QED
    BY <1>1, <1>2, <2>1, <2>4, <2>5, SameWork
<1>5. CASE ~ work[h].online
  <2> DEFINE w == [op |-> "announce on", session |-> s]
  <2>1. work' = [work EXCEPT ![h] = w]
    BY <1>5, Zenon DEF Touched
  <2>2. w \in Work /\ w.session = s /\ w.op = "announce on" /\ w.op # "send"
    BY <1>1, Plainly DEF Plain
  <2> HIDE DEF w
  <2>3. work'[h] = w
    BY <2>1 DEF ReachInv, ReachTypeOK
  <2>4. u \notin disturbed => Foresees(h, u)'
    BY <1>1, <2>2, <2>3, ForeseesOn, Zenon
  <2>5. Serves(w, u) /\ w # None
    <3>1. w \in Work /\ w.op # "send" /\ w.session = work[h].session
      BY <2>2, Zenon
    <3> QED
      BY <1>1, <3>1, ServesOn, NoneIsNothing
  <2> QED
    BY <1>1, <1>2, <2>1, <2>4, <2>5, SameWork
<1> QED
  BY <1>4, <1>5

LEMMA AnnounceOnlineTells ==
    ASSUME ReachInv, Announced, NEW h \in Handler, AnnounceOnline(h), clock' = clock
    PROVE  Announced'
<1> DEFINE s == work[h].session
           w == [work[h] EXCEPT !.op = "register"]
<1>1. s \in Session /\ Owner[s] \in User /\ work[h] # None /\ work[h].op # "send"
      /\ work[h].op = "announce on"
  BY WorkIsOfSession DEF AnnounceOnline, Busy, Working
<1> PICK u \in User : Owner[s] = u
  BY <1>1
<1>2. h \in WorkingOn(u) /\ work[h] \in Work
  BY <1>1, AtWork
<1>3. told' = [told EXCEPT ![u] = TRUE] /\ seen' = seen /\ table' = table
      /\ disturbed' = IF WorkingOn(u) = {h} THEN disturbed \ {u} ELSE disturbed
  BY DEF AnnounceOnline
<1>4. work' = [work EXCEPT ![h] = w]
  BY DEF AnnounceOnline
<1>register. w \in Work /\ w.op = "register" /\ w.session = s
  <2>1. work[h].op \in Plain
    BY <1>1 DEF Plain
  <2>2. PICK was \in Plain : work[h] = [op |-> was, session |-> s]
    BY <1>2, <2>1, PlainWork
  <2>3. w = [op |-> "register", session |-> s]
    BY <2>2
  <2> QED
    BY <1>1, <2>3, Plainly DEF Plain
<1> HIDE DEF w
<1>5. told'[u] /\ \A other \in User \ {u} : told'[other] = told[other]
  BY <1>3 DEF ReachInv, ReachTypeOK
<1>6. work'[h] = w
  BY <1>4 DEF ReachInv, ReachTypeOK
<1>7. Foresees(h, u)'
  BY <1>5, <1>6, <1>register, ForeseesFresh
<1>8. Serves(w, u) /\ w # None
  <2>1. work[h] # None /\ work[h].op # "send"
    BY <1>1
  <2> QED
    BY <1>register, <2>1, ServesOn, NoneIsNothing
<1>9. \A x \in Session : IsFresh(x)' => IsFresh(x)
  BY <1>3 DEF IsFresh
<1>10. /\ disturbed \subseteq disturbed' \cup {u}
       /\ u \notin disturbed' => u \notin disturbed \/ WorkingOn(u) = {h}
  BY <1>3
<1> QED
  BY <1>2, <1>4, <1>5, <1>7, <1>8, <1>9, <1>10, GoesOn

LEMMA CopyTells ==
    ASSUME ReachInv, Announced, NEW h \in Handler, CopySessions(h), clock' = clock
    PROVE  Announced'
<1> DEFINE s == work[h].session
           w == [op |-> "replace", session |-> s, online |-> work[h].online,
                 rest |-> table \ {s}]
<1>1. s \in Session /\ Owner[s] \in User /\ work[h] # None /\ work[h].op # "send"
      /\ work[h].op = "copy" /\ work[h] \in Work
  BY WorkIsOfSession DEF CopySessions, Busy, Working
<1> PICK u \in User : Owner[s] = u
  BY <1>1
<1>2. UNCHANGED <<table, seen, told, disturbed, clock>> /\ work' = [work EXCEPT ![h] = w]
  BY DEF CopySessions, people, clients
<1>3. w \in Work
  <2>1. work[h].online \in BOOLEAN /\ table \subseteq Session
    BY <1>1, TrimWork DEF Trim, ReachInv, ReachTypeOK
  <2> QED
    BY <1>1, <2>1 DEF Work
<1>4. w.op = "replace" /\ w.session = s
  OBVIOUS
<1> HIDE DEF w
<1>5. Serves(w, u) /\ w # None
  BY <1>1, <1>3, <1>4, ServesOn, NoneIsNothing
<1>6. u \notin disturbed => (AnyFresh(u) => told[u])
  <2>1. u \notin disturbed => Foresees(h, u)
    BY <1>1, AtWork
  <2> QED
    BY <1>1, <2>1, Zenon DEF Foresees
<1>7. work'[h] = w
  BY <1>2 DEF ReachInv, ReachTypeOK
<1>8. AnyFresh(u)' => AnyFresh(u)
  BY <1>2 DEF AnyFresh, IsFresh, SessionsOf
<1>9. u \notin disturbed => Foresees(h, u)'
  BY <1>2, <1>4, <1>6, <1>7, <1>8, ForeseesFresh
<1> QED
  BY <1>1, <1>2, <1>5, <1>9, SameWork

\* Whoever's sessions are others than they were, but for the one that was revoked, is excused.
LEMMA ReplaceTells ==
    ASSUME ReachInv, Announced, NEW h \in Handler, ReplaceSessions(h), clock' = clock
    PROVE  Announced'
<1> DEFINE s == work[h].session
           w == [op |-> "trimmed", session |-> s, online |-> work[h].online]
           changed == ((table \ work[h].rest) \cup (work[h].rest \ table)) \ {s}
<1>1. s \in Session /\ Owner[s] \in User /\ work[h] # None /\ work[h].op # "send"
      /\ work[h].op = "replace" /\ work[h] \in Work
  BY WorkIsOfSession DEF ReplaceSessions, Busy, Working
<1>2. work[h].online \in BOOLEAN /\ work[h].rest \subseteq Session /\ s \notin work[h].rest
  BY <1>1, ReplaceWork
<1> PICK u \in User : Owner[s] = u
  BY <1>1
<1>3. /\ UNCHANGED <<seen, told, clock>> /\ work' = [work EXCEPT ![h] = w]
      /\ table' = work[h].rest
      /\ disturbed' = disturbed \cup {Owner[x] : x \in changed}
  BY DEF ReplaceSessions
<1>4. w \in Work /\ w.op = "trimmed" /\ w.session = s
  BY <1>1, <1>2, Trimming DEF Trim
<1> HIDE DEF w
<1>5. Serves(w, u) /\ w # None
  BY <1>1, <1>4, ServesOn, NoneIsNothing
<1>6. \A x \in Session : Owner[x] \notin disturbed' => (IsFresh(x)' => IsFresh(x))
  <2>1. ASSUME NEW x \in Session, Owner[x] \notin disturbed', x \in work[h].rest
        PROVE  x \in table
    BY <1>2, <1>3, <2>1
  <2> QED
    BY <1>3, <2>1 DEF IsFresh
<1>7. h \in WorkingOn(u) /\ (u \notin disturbed => Foresees(h, u))
  BY <1>1, AtWork
<1>8. u \notin disturbed => (AnyFresh(u) => told[u])
  BY <1>1, <1>7, Zenon DEF Foresees
<1>9. work'[h] = w
  BY <1>3 DEF ReachInv, ReachTypeOK
<1>10. u \notin disturbed' => Foresees(h, u)'
  <2>1. u \notin disturbed' => (AnyFresh(u)' => AnyFresh(u))
    BY <1>6 DEF AnyFresh, SessionsOf
  <2> QED
    BY <1>3, <1>4, <1>8, <1>9, <2>1, ForeseesFresh
<1> QED
  BY <1>3, <1>5, <1>6, <1>7, <1>10, GoesOn

LEMMA RecheckTells ==
    ASSUME ReachInv, Announced, NEW h \in Handler, Recheck(h), clock' = clock
    PROVE  Announced'
<1> DEFINE s == work[h].session
<1>1. s \in Session /\ Owner[s] \in User /\ work[h] # None /\ work[h].op # "send"
      /\ work[h].op = "trimmed"
  BY WorkIsOfSession DEF Recheck, Busy, Working
<1> PICK u \in User : Owner[s] = u
  BY <1>1
<1>2. UNCHANGED <<table, seen, told, disturbed, clock>>
  BY DEF Recheck, people, clients
<1>3. work[h] \in Work /\ (u \notin disturbed => (AnyFresh(u) => told[u]))
  <2>1. work[h] \in Work /\ (u \notin disturbed => Foresees(h, u))
    BY <1>1, AtWork
  <2> QED
    BY <1>1, <2>1, Zenon DEF Foresees
<1>4. CASE work[h].online /\ ~ AnyFresh(u)
  <2> DEFINE w == [work[h] EXCEPT !.op = "announce off"]
  <2>1. work' = [work EXCEPT ![h] = w]
    BY <1>4, Zenon DEF Recheck, AnyFresh
  <2>2. w \in Work /\ w.session = s /\ w.op = "announce off" /\ w.op # "send"
    BY <1>1, <1>3, TrimGoesOn DEF Trim
  <2> HIDE DEF w
  <2>3. work'[h] = w
    BY <2>1 DEF ReachInv, ReachTypeOK
  <2>4. ~ AnyFresh(u)'
    BY <1>2, <1>4 DEF AnyFresh, IsFresh, SessionsOf
  <2>5. Foresees(h, u)'
    BY <2>2, <2>3, <2>4, ForeseesOff, Zenon
  <2>6. Serves(w, u) /\ w # None
    <3>1. w \in Work /\ w.op # "send" /\ w.session = work[h].session
      BY <2>2, Zenon
    <3> QED
      BY <1>1, <3>1, ServesOn, NoneIsNothing
  <2> QED
    BY <1>1, <1>2, <2>1, <2>5, <2>6, SameWork
<1>5. CASE ~ (work[h].online /\ ~ AnyFresh(u))
  <2>1. work' = [work EXCEPT ![h] = None]
    BY <1>5, Zenon DEF Recheck, AnyFresh, Done
  <2> QED
    BY <1>1, <1>2, <1>3, <2>1, SameWork
<1> QED
  BY <1>4, <1>5

LEMMA AnnounceOfflineTells ==
    ASSUME ReachInv, Announced, NEW h \in Handler, AnnounceOffline(h), clock' = clock
    PROVE  Announced'
<1> DEFINE s == work[h].session
<1>1. s \in Session /\ Owner[s] \in User /\ work[h] # None /\ work[h].op # "send"
      /\ work[h].op = "announce off"
  BY WorkIsOfSession DEF AnnounceOffline, Busy, Working
<1> PICK u \in User : Owner[s] = u
  BY <1>1
<1>2. h \in WorkingOn(u) /\ (u \notin disturbed => Foresees(h, u))
  BY <1>1, AtWork
<1>3. u \notin disturbed => ~ AnyFresh(u)
  BY <1>1, <1>2, Zenon DEF Foresees
<1>4. told' = [told EXCEPT ![u] = FALSE] /\ work' = [work EXCEPT ![h] = None]
      /\ UNCHANGED <<table, seen, disturbed, clock>>
  BY DEF AnnounceOffline, Done
<1>5. \A x \in Session : IsFresh(x)' => IsFresh(x)
  BY <1>4 DEF IsFresh
<1>6. u \notin disturbed' => (AnyFresh(u)' => told'[u])
  BY <1>3, <1>4, <1>5, FreshBefore DEF NoneFresher
<1>7. \A other \in User \ {u} : told'[other] = told[other]
  BY <1>4 DEF ReachInv, ReachTypeOK
<1> QED
  BY <1>2, <1>4, <1>5, <1>6, <1>7, GoesOn

LEMMA SaveRaisesTells ==
    ASSUME ReachInv, Announced, NEW h \in Handler, SaveRaises(h), clock' = clock
    PROVE  Announced'
<1> DEFINE s == work[h].session
<1>1. s \in Session /\ Owner[s] \in User /\ work[h] # None /\ work[h].op # "send"
  BY WorkIsOfSession DEF SaveRaises, Busy, Working
<1> PICK u \in User : Owner[s] = u
  BY <1>1
<1>2. UNCHANGED <<table, seen, told, clock>> /\ work' = [work EXCEPT ![h] = None]
      /\ disturbed' = disturbed \cup {u}
  BY DEF SaveRaises, Done
<1>3. h \in WorkingOn(u)
  BY <1>1, AtWork
<1>4. \A x \in Session : IsFresh(x)' => IsFresh(x)
  BY <1>2 DEF IsFresh
<1> QED
  BY <1>2, <1>3, <1>4, GoesOn

LEMMA AnswerTells ==
    ASSUME ReachInv, Announced, NEW h \in Handler, Register(h) \/ Answer(h), clock' = clock
    PROVE  Announced'
<1> DEFINE s == work[h].session
<1>1. s \in Session /\ Owner[s] \in User /\ work[h] # None /\ work[h].op # "send"
      /\ work[h].op \in {"register", "answer"}
  BY WorkIsOfSession DEF Register, Answer, Busy, Working
<1> PICK u \in User : Owner[s] = u
  BY <1>1
<1>2. UNCHANGED <<table, seen, told, disturbed, clock>>
  BY DEF Register, Answer, people, clients
<1>3. u \notin disturbed => (AnyFresh(u) => told[u])
  <2>1. u \notin disturbed => Foresees(h, u)
    BY <1>1, AtWork
  <2> QED
    BY <1>1, <2>1, Zenon DEF Foresees
<1>4. CASE Answer(h)
  <2>1. work' = [work EXCEPT ![h] = None]
    BY <1>4 DEF Answer, Done
  <2> QED
    BY <1>1, <1>2, <1>3, <2>1, SameWork
<1>5. CASE Register(h)
  <2>1. work' = [work EXCEPT ![h].op = "answer"]
    BY <1>5 DEF Register
  <2> QED
    BY <1>1, <1>2, <1>3, <2>1, PlainTells DEF Plain
<1> QED
  BY <1>4, <1>5

\* A step of a message, or one that is no work on sessions.
LEMMA NoSessionWork ==
    ASSUME ReachInv, Announced, NEW h \in Handler, NEW w, work' = [work EXCEPT ![h] = w],
           work[h] = None \/ work[h].op = "send", w = None \/ w.op = "send",
           UNCHANGED <<table, seen, told, disturbed, clock>>
    PROVE  Announced'
<1>1. NoneFresher
  BY DEF NoneFresher, IsFresh
<1>2. ASSUME NEW u \in User
      PROVE  WorkingOn(u)' = WorkingOn(u) /\ \A x \in WorkingOn(u) : work'[x] = work[x]
  <2>1. ~ Serves(w, u) /\ h \notin WorkingOn(u)
    BY DEF Serves, WorkingOn, Working
  <2>2. /\ WorkingOn(u)' = WorkingOn(u) \ {h}
        /\ \A x \in WorkingOn(u) \ {h} : work'[x] = work[x]
    BY <2>1, NotAtWork
  <2> QED
    BY <2>1, <2>2
<1> QED
  BY <1>1, <1>2, NothingTold

LEMMA MessagesTell ==
    ASSUME ReachInv, Announced, NEW h \in Handler, clock' = clock,
           \/ \E s \in Session : SendMessage(h, s) \/ Push(h, s)
           \/ \E u \in User : List(h, u) \/ Wake(h, u)
           \/ SendFails(h) \/ Sent(h)
    PROVE  Announced'
<1>1. UNCHANGED <<table, seen, told, disturbed, clock>>
  BY DEF SendMessage, Push, List, Wake, SendFails, Sent, people, clients
<1>2. CASE SendFails(h) \/ Sent(h)
  <2>1. work' = [work EXCEPT ![h] = None] /\ work[h].op = "send"
    BY <1>2 DEF SendFails, Sent, Done, Busy
  <2> QED
    BY <1>1, <2>1, NoSessionWork
<1>3. ASSUME NEW s \in Session, SendMessage(h, s) PROVE Announced'
  <2>1. PICK w : SendWork(w) /\ work[h] = None /\ work' = [work EXCEPT ![h] = w]
    BY <1>3, SendBegins
  <2> QED
    BY <1>1, <2>1, SendIsWork, NoSessionWork
<1>4. CASE (\E u \in User : List(h, u) \/ Wake(h, u)) \/ (\E s \in Session : Push(h, s))
  <2>1. work[h].op = "send" /\ \E w : SendWork(w) /\ work' = [work EXCEPT ![h] = w]
    BY <1>4, SendGoesOn
  <2> QED
    BY <1>1, <2>1, SendIsWork, NoSessionWork
<1> QED
  BY <1>2, <1>3, <1>4

LEMMA SyncTells ==
    ASSUME ReachInv, Announced, NEW s \in Session, Sync(s), clock' = clock
    PROVE  Announced'
<1>1. UNCHANGED <<table, seen, told, disturbed>>
  BY DEF Sync, people
<1>2. NoneFresher
  BY <1>1 DEF NoneFresher, IsFresh
<1>3. ASSUME NEW u \in User, NEW h \in Handler
      PROVE  /\ h \in WorkingOn(u)' <=> h \in WorkingOn(u)
             /\ h \in WorkingOn(u) => work'[h] = work[h]
  <2>1. CASE Busy(h, "send")
    <3>1. work'[h].op = "send" /\ work[h].op = "send"
      BY <2>1, SyncWork, SendIsWork DEF Busy
    <3> QED
      BY <3>1 DEF WorkingOn
  <2>2. CASE ~ Busy(h, "send")
    <3>1. work'[h] = work[h]
      BY <2>2, SyncWork
    <3> QED
      BY <3>1 DEF WorkingOn, Working
  <2> QED
    BY <2>1, <2>2
<1>4. \A u \in User : WorkingOn(u) \subseteq Handler /\ WorkingOn(u)' \subseteq Handler
  BY DEF WorkingOn
<1>5. \A u \in User : WorkingOn(u)' = WorkingOn(u) /\ \A h \in WorkingOn(u) : work'[h] = work[h]
  BY <1>3, <1>4
<1> QED
  BY <1>1, <1>2, <1>5, NothingTold

LEMMA LinksTell ==
    ASSUME ReachInv, Announced, clock' = clock,
           \/ \E s \in Session : Lose(s) \/ Close(s)
           \/ \E u \in User : Query(u)
    PROVE  Announced'
<1>1. UNCHANGED <<table, seen, work, told, disturbed, clock>>
  BY DEF Lose, Close, Query, people, clients
<1>2. NoneFresher /\ \A u \in User : WorkingOn(u)' = WorkingOn(u)
  BY <1>1 DEF NoneFresher, IsFresh, WorkingOn, Working
<1> QED
  BY <1>1, <1>2, NothingTold

\* Sessions come back no fresher than they were, and nobody is at work.
LEMMA RestartTells == ASSUME ReachInv, Announced, RestartReach, clock' = clock PROVE Announced'
<1> USE ReachTypes, NoneIsNothing
<1>1. ASSUME NEW s \in Session, Owner[s] \notin disturbed', IsFresh(s)' PROVE IsFresh(s)
  <2>1. s \in table' /\ seen'[s] # None /\ clock - seen'[s] <= Fresh
    BY <1>1 DEF IsFresh
  <2>2. seen[s] # None /\ seen'[s] \in Nat /\ seen'[s] <= seen[s] /\ s \in table
    BY <1>1, <2>1, RestartSaved
  <2>3. seen[s] \in Nat /\ clock \in Nat /\ Fresh \in Nat
    BY <2>2 DEF ReachInv
  <2> QED
    BY <2>1, <2>2, <2>3 DEF IsFresh
<1>2. ASSUME NEW u \in User, u \notin disturbed' PROVE ToldOf(u)'
  <2>1. u \notin disturbed /\ WorkingOn(u) = {} /\ told' = told
    BY <1>2, RestartSaved DEF RestartReach
  <2>2. WorkingOn(u)' = {}
    BY DEF RestartReach, WorkingOn, Working
  <2>3. AnyFresh(u)' => AnyFresh(u)
    BY <1>1, <1>2 DEF AnyFresh, SessionsOf
  <2>4. AnyFresh(u) => told[u]
    BY <2>1 DEF Announced, ToldOf
  <2> QED
    BY <2>1, <2>2, <2>3, <2>4 DEF ToldOf
<1> QED
  BY <1>2 DEF Announced

LEMMA TimeTells ==
    ASSUME ReachInv, Announced, UNCHANGED reachVars, clock' \in Nat, clock' >= clock
    PROVE  Announced'
<1>1. UNCHANGED <<table, seen, work, told, disturbed>>
  BY DEF reachVars, people
<1>2. NoneFresher /\ \A u \in User : WorkingOn(u)' = WorkingOn(u)
  BY <1>1, ReachTypes DEF ReachInv, NoneFresher, IsFresh, WorkingOn, Working
<1> QED
  BY <1>1, <1>2, NothingTold

LEMMA ReachInitTells == ReachInit => Announced
<1> SUFFICES ASSUME ReachInit, NEW u \in User PROVE ToldOf(u)
  BY DEF Announced
<1>1. WorkingOn(u) = {} /\ ~ AnyFresh(u)
  BY DEF ReachInit, WorkingOn, Working, AnyFresh, IsFresh, SessionsOf
<1> QED
  BY <1>1 DEF ToldOf

LEMMA ReachNextTells == ASSUME ReachInv, Announced, ReachNext, clock' = clock PROVE Announced'
<1>1. ASSUME NEW h \in Handler, ReachHandles(h) PROVE Announced'
  <2>1. ASSUME NEW s \in Session,
               \/ \E by \in {"login", "register"} : SignOn(h, s, by)
               \/ SignOnWeb(h, s) \/ Touch(h, s) \/ Revoke(h, s)
        PROVE  Announced'
    BY <2>1, SignOnTells, TouchTells, RevokeTells DEF SignOnWeb
  <2>2. ASSUME \/ \E s \in Session : SendMessage(h, s) \/ Push(h, s)
               \/ \E u \in User : List(h, u) \/ Wake(h, u)
               \/ SendFails(h) \/ Sent(h)
        PROVE  Announced'
    BY <2>2, MessagesTell
  <2> QED
    BY <1>1, <2>1, <2>2, RollBackTells, NotifyTells, TouchedTells, AnnounceOnlineTells,
       CopyTells, ReplaceTells, RecheckTells, AnnounceOfflineTells, SaveRaisesTells, AnswerTells
    DEF ReachHandles
<1> QED
  BY <1>1, LinksTell, SyncTells, RestartTells DEF ReachNext

--------------------------------------------------------------------------------
(* Reach: who lacks a message *)

\* Whom a send has not reached yet, of those that must not miss it, is to be listed or
\* written to.
Reached(h) == Busy(h, "send") =>
    \A s \in synced : (link[s] = "registered" /\ s \in work[h].lacks) =>
        Owner[s] \in work[h].list \/ s \in work[h].push

\* Who has synced has a session and had its answer before; a connection that comes up
\* is one of a client that has not synced.
Connects ==
    /\ synced \subseteq table
    /\ \A s \in synced : link[s] \in {"registered", "unlisted", "lost", "closed"}

Reaches == Connects /\ (\A h \in Handler : Reached(h)) /\ ConnectedHasAll

\* No connection of a client that has synced comes up.
LinksGo == \A s \in synced : link'[s] = link[s] \/ link'[s] \in {"lost", "closed"}

\* Nobody sends more, or another message.
NoMoreSends == \A h \in Handler :
    Busy(h, "send")' => Busy(h, "send") /\ work'[h] = work[h]

LEMMA StillReached ==
    ASSUME Reaches, NEW h \in Handler, Busy(h, "send")' => Busy(h, "send") /\ work'[h] = work[h],
           synced' \subseteq synced, LinksGo
    PROVE  Reached(h)'
<1> SUFFICES ASSUME Busy(h, "send")', NEW s \in synced', link'[s] = "registered",
                    s \in work'[h].lacks
             PROVE  Owner[s] \in work'[h].list \/ s \in work'[h].push
  BY DEF Reached
<1>1. s \in synced /\ link[s] = "registered" /\ Busy(h, "send") /\ work'[h] = work[h]
  BY DEF LinksGo
<1> QED
  BY <1>1 DEF Reaches, Reached

LEMMA StillReaches ==
    ASSUME Reaches, \A h \in Handler : Reached(h)', synced' \subseteq synced \cap table',
           LinksGo, behind' = behind
    PROVE  Reaches'
<1>1. Connects'
  BY DEF Reaches, Connects, LinksGo
<1>2. ConnectedHasAll'
  BY DEF Reaches, ConnectedHasAll, LinksGo
<1> QED
  BY <1>1, <1>2 DEF Reaches

LEMMA NoSendReaches ==
    ASSUME Reaches, NoMoreSends, synced' \subseteq synced \cap table', LinksGo, behind' = behind
    PROVE  Reaches'
  BY StillReached, StillReaches DEF NoMoreSends

\* What a handler does that has nothing to do with messages.
LEMMA NoSends ==
    ASSUME ReachInv, NEW h \in Handler, NEW w, work' = [work EXCEPT ![h] = w],
           w = None \/ w.op # "send"
    PROVE  NoMoreSends
<1>1. \A x \in Handler : work'[x] = IF x = h THEN w ELSE work[x]
  BY DEF ReachInv, ReachTypeOK
<1> QED
  BY <1>1 DEF NoMoreSends, Busy, Working

LEMMA PlainSends ==
    ASSUME ReachInv, NEW h \in Handler, work[h] # None, work[h].op \in Plain,
           NEW op \in Plain, work' = [work EXCEPT ![h].op = op]
    PROVE  NoMoreSends
<1>1. work' = [work EXCEPT ![h] = [op |-> op, session |-> work[h].session]]
  BY PlainGoesOn
<1>2. [op |-> op, session |-> work[h].session].op # "send"
  BY DEF Plain
<1> QED
  BY <1>1, <1>2, NoSends

LEMMA BeginningsReach ==
    ASSUME ReachInv, Reaches, NEW h \in Handler, NEW s \in Session,
           \/ \E by \in {"login", "register", "web"} : SignOn(h, s, by)
           \/ Touch(h, s) \/ Revoke(h, s)
    PROVE  Reaches'
<1>1. NoMoreSends
  <2>1. CASE \E by \in {"login", "register", "web"} : SignOn(h, s, by)
    BY <2>1, NoSends DEF SignOn, Begins
  <2>2. CASE Touch(h, s)
    BY <2>2, NoSends DEF Touch, Begins
  <2>3. CASE Revoke(h, s)
    BY <2>3, NoSends DEF Revoke, Begins
  <2> QED
    BY <2>1, <2>2, <2>3
<1>2. synced' = synced /\ behind' = behind /\ table \subseteq table'
  BY DEF SignOn, Touch, Revoke, clients
<1>3. LinksGo
  BY DEF SignOn, Touch, Revoke, LinksGo, Reaches, Connects, ReachInv, ReachTypeOK
<1> QED
  BY <1>1, <1>2, <1>3, NoSendReaches DEF Reaches, Connects

LEMMA PresenceReaches ==
    ASSUME ReachInv, Reaches, NEW h \in Handler,
           \/ Notify(h) \/ Touched(h) \/ AnnounceOnline(h)
           \/ CopySessions(h) \/ Recheck(h) \/ AnnounceOffline(h)
    PROVE  Reaches'
<1>1. NoMoreSends
  <2>1. CASE Notify(h)
    <3>1. work[h] # None /\ work[h].op \in Plain
      BY <2>1 DEF Notify, Busy, Working, Plain
    <3>2. \E op \in Plain : work' = [work EXCEPT ![h].op = op]
      BY <2>1 DEF Notify, Plain
    <3> QED
      BY <3>1, <3>2, PlainSends
  <2>2. CASE AnnounceOnline(h)
    BY <2>2, PlainSends DEF AnnounceOnline, Busy, Working, Plain
  <2>3. CASE Touched(h)
    <3>1. \E op \in Plain : work' = [work EXCEPT ![h] = [op |-> op, session |-> work[h].session]]
      BY <2>3 DEF Touched, Plain
    <3>2. \A op \in Plain : [op |-> op, session |-> work[h].session].op # "send"
      BY DEF Plain
    <3> QED
      BY <3>1, <3>2, NoSends
  <2>4. CASE CopySessions(h)
    BY <2>4, NoSends DEF CopySessions
  <2>5. CASE Recheck(h)
    <3>1. work[h] \in Work /\ work[h].op \in Trim
      BY <2>5, WorkIsOfSession DEF Recheck, Busy, Working, Trim
    <3>2. [work[h] EXCEPT !.op = "announce off"].op # "send"
      BY <3>1, TrimGoesOn DEF Trim
    <3>3. work' = [work EXCEPT ![h] = None]
          \/ work' = [work EXCEPT ![h] = [work[h] EXCEPT !.op = "announce off"]]
      BY <2>5 DEF Recheck, Done
    <3> QED
      BY <3>2, <3>3, NoSends
  <2>6. CASE AnnounceOffline(h)
    BY <2>6, NoSends DEF AnnounceOffline, Done
  <2> QED
    BY <2>1, <2>2, <2>3, <2>4, <2>5, <2>6
<1>2. UNCHANGED <<synced, behind, table, link>>
  BY DEF Notify, Touched, AnnounceOnline, CopySessions, Recheck, AnnounceOffline, clients
<1>3. LinksGo
  BY <1>2 DEF LinksGo
<1> QED
  BY <1>1, <1>2, <1>3, NoSendReaches DEF Reaches, Connects

LEMMA ReplaceReaches ==
    ASSUME ReachInv, Reaches, NEW h \in Handler, ReplaceSessions(h)
    PROVE  Reaches'
<1>1. NoMoreSends
  BY NoSends DEF ReplaceSessions
<1>2. synced' \subseteq synced \cap table' /\ behind' = behind /\ link' = link
  BY DEF ReplaceSessions
<1> QED
  BY <1>1, <1>2, NoSendReaches DEF LinksGo

LEMMA EndingsReach ==
    ASSUME ReachInv, Reaches, NEW h \in Handler,
           RollBack(h) \/ SaveRaises(h) \/ Register(h) \/ Answer(h)
    PROVE  Reaches'
<1>1. NoMoreSends
  <2>1. CASE Register(h)
    BY <2>1, PlainSends DEF Register, Busy, Working, Plain
  <2> QED
    BY <2>1, NoSends DEF RollBack, SaveRaises, Answer, Done
<1>2. synced' = synced /\ behind' = behind
  BY DEF RollBack, SaveRaises, Register, Answer, clients
<1>3. synced \subseteq table'
  BY DEF RollBack, SaveRaises, Register, Answer, Reaches, Connects
<1>4. LinksGo
  BY DEF RollBack, SaveRaises, Register, Answer, LinksGo, Reaches, Connects,
         ReachInv, ReachTypeOK
<1> QED
  BY <1>1, <1>2, <1>3, <1>4, NoSendReaches

LEMMA LinksReach ==
    ASSUME ReachInv, Reaches,
           \/ \E s \in Session : Lose(s) \/ Close(s)
           \/ \E u \in User : Query(u)
    PROVE  Reaches'
<1>1. UNCHANGED <<work, synced, behind, table>>
  BY DEF Lose, Close, Query, clients
<1>2. NoMoreSends
  BY <1>1 DEF NoMoreSends, Busy, Working
<1>3. LinksGo
  BY DEF Lose, Close, Query, LinksGo, ReachInv, ReachTypeOK
<1> QED
  BY <1>1, <1>2, <1>3, NoSendReaches DEF Reaches, Connects

--------------------------------------------------------------------------------
(* Reach: the steps of a message *)

LEMMA SendReaches ==
    ASSUME ReachInv, Reaches, NEW h \in Handler, NEW s \in Session, SendMessage(h, s)
    PROVE  Reaches'
<1>1. PICK w : SendWork(w) /\ w.list = User /\ work' = [work EXCEPT ![h] = w]
  BY SendBegins
<1>2. \A x \in Handler : work'[x] = IF x = h THEN w ELSE work[x]
  BY <1>1 DEF ReachInv, ReachTypeOK
<1>3. UNCHANGED <<synced, behind, table, link>>
  BY DEF SendMessage, clients
<1>4. LinksGo
  BY <1>3 DEF LinksGo
<1>5. \A x \in synced : Owner[x] \in User
  BY ReachTypes DEF ReachInv, ReachTypeOK
<1>6. Reached(h)'
  BY <1>1, <1>2, <1>3, <1>5 DEF Reached
<1>7. ASSUME NEW x \in Handler, x # h PROVE Reached(x)'
  BY <1>2, <1>3, <1>4, <1>7, StillReached DEF Busy, Working
<1> QED
  BY <1>3, <1>4, <1>6, <1>7, StillReaches DEF Reaches, Connects

\* A step of one send that leaves the clients alone.
LEMMA SendStepReaches ==
    ASSUME ReachInv, Reaches, NEW h \in Handler, NEW w, work' = [work EXCEPT ![h] = w],
           UNCHANGED <<synced, behind, table>>, LinksGo,
           \A s \in synced : (link[s] = "registered" /\ s \in w.lacks) =>
               Owner[s] \in w.list \/ s \in w.push
    PROVE  Reaches'
<1>1. \A x \in Handler : work'[x] = IF x = h THEN w ELSE work[x]
  BY DEF ReachInv, ReachTypeOK
<1>2. Reached(h)'
  BY <1>1 DEF Reached, LinksGo
<1>3. ASSUME NEW x \in Handler, x # h PROVE Reached(x)'
  BY <1>1, <1>3, StillReached DEF Busy, Working
<1> QED
  BY <1>2, <1>3, StillReaches DEF Reaches, Connects

\* What is known of a send in its midst.
LEMMA InTheMidst ==
    ASSUME ReachInv, Reaches, NEW h \in Handler, Busy(h, "send")
    PROVE  /\ SendWork(work[h])
           /\ \A s \in synced : (link[s] = "registered" /\ s \in work[h].lacks) =>
                  Owner[s] \in work[h].list \/ s \in work[h].push
<1>1. SendWork(work[h])
  BY WorkIsSend DEF Busy, Working, ReachInv, ReachTypeOK
<1> QED
  BY <1>1 DEF Reaches, Reached

LEMMA ListReaches ==
    ASSUME ReachInv, Reaches, NEW h \in Handler, NEW u \in User, List(h, u)
    PROVE  Reaches'
<1> DEFINE v == work[h]
           w == [v EXCEPT !.list = v.list \ {u}, !.push = v.push \cup (Live(u) \ {v.session})]
<1>1. Busy(h, "send") /\ UNCHANGED <<synced, behind, table, link>>
  BY DEF List, clients
<1>2. SendWork(v) /\ \A s \in synced : (link[s] = "registered" /\ s \in v.lacks) =>
          Owner[s] \in v.list \/ s \in v.push
  BY <1>1, InTheMidst
<1>3. work' = [work EXCEPT ![h] = w]
  BY DEF List, ReachInv, ReachTypeOK
<1>4. /\ w.lacks = v.lacks /\ w.list = v.list \ {u}
      /\ w.push = v.push \cup (Live(u) \ {v.session})
  BY <1>2 DEF SendWork
<1> HIDE DEF w
<1>5. ASSUME NEW s \in synced, link[s] = "registered", s \in w.lacks
      PROVE  Owner[s] \in w.list \/ s \in w.push
  <2>1. s # v.session
    BY <1>2, <1>4, <1>5 DEF SendWork
  <2>2. Owner[s] = u => s \in Live(u)
    BY DEF Live, SessionsOf, Reaches, Connects, ReachInv, ReachTypeOK
  <2> QED
    BY <1>2, <1>4, <1>5, <2>1, <2>2
<1> QED
  BY <1>1, <1>3, <1>5, SendStepReaches DEF LinksGo

LEMMA PushReaches ==
    ASSUME ReachInv, Reaches, NEW h \in Handler, NEW s \in Session, Push(h, s)
    PROVE  Reaches'
<1> DEFINE v == work[h]
           lacks == IF link[s] \in {"listed", "registered"} THEN v.lacks \ {s} ELSE v.lacks
           w == [v EXCEPT !.push = v.push \ {s}, !.lacks = lacks]
<1>1. Busy(h, "send") /\ UNCHANGED <<synced, behind, table>>
  BY DEF Push, clients
<1>2. SendWork(v) /\ \A x \in synced : (link[x] = "registered" /\ x \in v.lacks) =>
          Owner[x] \in v.list \/ x \in v.push
  BY <1>1, InTheMidst
<1>3. work' = [work EXCEPT ![h] = w]
  BY DEF Push, ReachInv, ReachTypeOK
<1>4. w.lacks = lacks /\ w.list = v.list /\ w.push = v.push \ {s}
  BY <1>2 DEF SendWork
<1> HIDE DEF w
<1>5. ASSUME NEW x \in synced, link[x] = "registered", x \in w.lacks
      PROVE  Owner[x] \in w.list \/ x \in w.push
  BY <1>2, <1>4, <1>5
<1>6. LinksGo
  BY DEF Push, LinksGo, ReachInv, ReachTypeOK
<1> QED
  BY <1>1, <1>3, <1>5, <1>6, SendStepReaches

LEMMA WakeReaches ==
    ASSUME ReachInv, Reaches, NEW h \in Handler, NEW u \in User, Wake(h, u)
    PROVE  Reaches'
<1> DEFINE v == work[h]
           w == [v EXCEPT !.wake = v.wake \ {u}]
<1>1. Busy(h, "send") /\ UNCHANGED <<synced, behind, table, link>>
  BY DEF Wake, clients
<1>2. SendWork(v) /\ \A s \in synced : (link[s] = "registered" /\ s \in v.lacks) =>
          Owner[s] \in v.list \/ s \in v.push
  BY <1>1, InTheMidst
<1>3. work' = [work EXCEPT ![h] = w]
  BY DEF Wake, ReachInv, ReachTypeOK
<1>4. w.lacks = v.lacks /\ w.list = v.list /\ w.push = v.push
  BY <1>2 DEF SendWork
<1> HIDE DEF w
<1> QED
  BY <1>1, <1>2, <1>3, <1>4, SendStepReaches DEF LinksGo

\* Whoever lacks the message when it was written to all is not connected, or will sync.
LEMMA SentReaches ==
    ASSUME ReachInv, Reaches, NEW h \in Handler, Sent(h) \/ SendFails(h)
    PROVE  Reaches'
<1>1. /\ UNCHANGED <<synced, table, link>> /\ work' = [work EXCEPT ![h] = None]
      /\ Busy(h, "send")
      /\ behind' \subseteq behind \cup work[h].lacks
      /\ behind' # behind => work[h].list = {} /\ work[h].push = {}
  BY DEF Sent, SendFails, Done, clients
<1>2. LinksGo
  BY <1>1 DEF LinksGo
<1>3. \A x \in Handler : Reached(x)'
  BY <1>1, <1>2, NoSends, StillReached DEF NoMoreSends
<1>4. ConnectedHasAll'
  <2>1. ASSUME NEW s \in synced, s \in behind', link[s] = "registered" PROVE FALSE
    <3>1. s \notin behind
      BY <2>1 DEF Reaches, ConnectedHasAll
    <3>2. s \in work[h].lacks /\ work[h].list = {} /\ work[h].push = {}
      BY <1>1, <2>1, <3>1
    <3> QED
      BY <1>1, <2>1, <3>2 DEF Reaches, Reached
  <2> QED
    BY <1>1, <2>1 DEF ConnectedHasAll
<1>5. Connects'
  BY <1>1 DEF Reaches, Connects
<1> QED
  BY <1>3, <1>4, <1>5 DEF Reaches

LEMMA SyncReaches ==
    ASSUME ReachInv, Reaches, NEW s \in Session, Sync(s)
    PROVE  Reaches'
<1>1. /\ UNCHANGED <<table, link>> /\ s \in table /\ link[s] \in {"registered", "unlisted"}
      /\ synced' = synced \cup {s} /\ behind' = behind \ {s}
  BY DEF Sync, Speaks
<1>2. ASSUME NEW h \in Handler PROVE Reached(h)'
  <2>1. CASE Busy(h, "send")
    <3>1. /\ work'[h].lacks = work[h].lacks \ {s}
          /\ work'[h].list = work[h].list /\ work'[h].push = work[h].push
      BY <2>1, SyncWork
    <3> QED
      BY <1>1, <2>1, <3>1 DEF Reaches, Reached
  <2>2. CASE ~ Busy(h, "send")
    <3>1. work'[h] = work[h]
      BY <2>2, SyncWork
    <3> QED
      BY <2>2, <3>1 DEF Reached, Busy, Working
  <2> QED
    BY <2>1, <2>2
<1>3. Connects' /\ ConnectedHasAll'
  BY <1>1 DEF Reaches, Connects, ConnectedHasAll
<1> QED
  BY <1>2, <1>3 DEF Reaches

LEMMA NobodyReaches ==
    ASSUME synced = {}, \A h \in Handler : work[h] = None
    PROVE  Reaches
  BY DEF Reaches, Connects, Reached, Busy, Working, ConnectedHasAll

LEMMA RestartReaches == ASSUME RestartReach PROVE Reaches'
<1>1. synced' = {} /\ \A h \in Handler : work'[h] = None
  BY DEF RestartReach
<1> QED
  BY <1>1 DEF Reaches, Connects, Reached, Busy, Working, ConnectedHasAll

LEMMA TimeReaches == ASSUME Reaches, UNCHANGED reachVars PROVE Reaches'
  BY DEF reachVars, clients, Reaches, Connects, Reached, Busy, Working, ConnectedHasAll

LEMMA ReachInitReaches == ReachInit => Reaches
  BY NobodyReaches DEF ReachInit

LEMMA ReachNextReaches == ASSUME ReachInv, Reaches, ReachNext PROVE Reaches'
<1>1. ASSUME NEW h \in Handler, ReachHandles(h) PROVE Reaches'
  <2>1. ASSUME NEW s \in Session,
               \/ \E by \in {"login", "register"} : SignOn(h, s, by)
               \/ SignOnWeb(h, s) \/ Touch(h, s) \/ Revoke(h, s)
        PROVE  Reaches'
    BY <2>1, BeginningsReach DEF SignOnWeb
  <2>2. ASSUME \/ \E s \in Session : SendMessage(h, s) \/ Push(h, s)
               \/ \E u \in User : List(h, u) \/ Wake(h, u)
               \/ SendFails(h) \/ Sent(h)
        PROVE  Reaches'
    BY <2>2, SendReaches, PushReaches, ListReaches, WakeReaches, SentReaches
  <2> QED
    BY <1>1, <2>1, <2>2, PresenceReaches, ReplaceReaches, EndingsReach
    DEF ReachHandles
<1> QED
  BY <1>1, LinksReach, SyncReaches, RestartReaches DEF ReachNext
--------------------------------------------------------------------------------
(* Calls: its steps keep the invariant from which CallsAgree follows *)

CallNext ==
    \/ Invite \/ Decline \/ End \/ MeetCall \/ RestartCalls
    \/ \E h \in Handler : Accept(h) \/ MintCallKey(h)

\* Who generates a key is the only one, and the call has none yet; what rendezvous
\* gave is the key of the call, or nothing while it was generated.
OneMints ==
    /\ \A h \in Handler : calling[h] => call # None /\ call.key = None
    /\ \A h, other \in Handler : calling[h] /\ calling[other] => h = other
    /\ CallIs({"ringing"}) => call.key = None /\ \A h \in Handler : ~ calling[h]
    /\ CallIs({"accepted"}) /\ call.key = None => \E h \in Handler : calling[h]

Given == \A g \in given : /\ call # None
                          /\ g.key = None => g.early
                          /\ g.key # None => g.key = call.key

CallsInv == CallsTypeOK /\ OneMints /\ Given /\ (over => CallIs(Over))

LEMMA CallsInitInv == CallsInit => CallsInv
<1> SUFFICES ASSUME CallsInit PROVE CallsInv
  OBVIOUS
<1>1. CallsTypeOK
  BY DEF CallsInit, CallsTypeOK
<1>2. OneMints /\ Given /\ (over => CallIs(Over))
  BY DEF CallsInit, OneMints, Given, CallIs
<1> QED
  BY <1>1, <1>2 DEF CallsInv

LEMMA InviteKeeps == CallsInv /\ Invite => CallsInv'
  BY CallsAssumption DEF Invite, CallsInv, CallsTypeOK, OneMints, Given, CallIs, Call, Over

LEMMA AcceptKeeps == ASSUME NEW h \in Handler, CallsInv, Accept(h) PROVE CallsInv'
<1> USE CallsAssumption DEF Call, Over
<1>1. CallsTypeOK'
  BY DEF Accept, CallsInv, CallsTypeOK, CallIs
<1>2. call \in Call /\ call.state = "ringing" /\ call.key = None
      /\ \A other \in Handler : ~ calling[other]
  BY DEF Accept, CallsInv, CallsTypeOK, CallIs, OneMints
<1>3. call' \in Call /\ call'.state = "accepted" /\ call'.key = None
  BY <1>2 DEF Accept
<1>4. calling' = [calling EXCEPT ![h] = TRUE]
  BY <1>2 DEF Accept
<1>5. OneMints'
  BY <1>1, <1>2, <1>3, <1>4 DEF CallsInv, CallsTypeOK, OneMints, CallIs
<1>6. Given' /\ (over => CallIs(Over))'
  BY <1>2, <1>3 DEF Accept, CallsInv, Given, CallIs
<1> QED
  BY <1>1, <1>5, <1>6 DEF CallsInv

LEMMA MintKeeps == ASSUME NEW h \in Handler, CallsInv, MintCallKey(h) PROVE CallsInv'
<1> USE CallsAssumption DEF Call, Over
<1>1. call \in Call /\ call.key = None /\ minted \in Nat
  BY DEF MintCallKey, CallsInv, CallsTypeOK, OneMints
<1>2. call' \in Call /\ call'.state = call.state /\ call'.key = minted + 1
  BY <1>1 DEF MintCallKey
<1>3. CallsTypeOK'
  BY <1>1, <1>2 DEF MintCallKey, CallsInv, CallsTypeOK
<1>4. \A other \in Handler : ~ calling'[other]
  BY <1>1 DEF MintCallKey, CallsInv, CallsTypeOK, OneMints
<1>5. ~ CallIs({"ringing"})
  BY DEF MintCallKey, CallsInv, OneMints, CallIs
<1>6. OneMints'
  BY <1>1, <1>2, <1>4, <1>5 DEF OneMints, CallIs
<1>7. Given' /\ (over => CallIs(Over))'
  BY <1>1, <1>2 DEF MintCallKey, CallsInv, Given, CallIs
<1> QED
  BY <1>3, <1>6, <1>7 DEF CallsInv

LEMMA EndsKeep == CallsInv /\ (Decline \/ End) => CallsInv'
<1> SUFFICES ASSUME CallsInv, Decline \/ End PROVE CallsInv'
  OBVIOUS
<1> USE CallsAssumption DEF Call, Over
<1>1. call \in Call /\ call' \in Call /\ call'.key = call.key
      /\ call'.state \in {"declined", "ended", "canceled"} /\ over'
  BY DEF Decline, End, CallsInv, CallsTypeOK, CallIs
<1>2. UNCHANGED <<calling, minted, given>>
  BY DEF Decline, End
<1>3. CallsTypeOK' /\ OneMints'
  BY <1>1, <1>2 DEF CallsInv, CallsTypeOK, OneMints, CallIs
<1>4. Given' /\ CallIs(Over)'
  BY <1>1, <1>2 DEF CallsInv, Given, CallIs
<1> QED
  BY <1>1, <1>3, <1>4 DEF CallsInv

LEMMA MeetKeeps == CallsInv /\ MeetCall => CallsInv'
<1> SUFFICES ASSUME CallsInv, MeetCall PROVE CallsInv'
  OBVIOUS
<1> DEFINE new == [key |-> call.key, early |-> \E h \in Handler : calling[h]]
<1> USE CallsAssumption DEF Call
<1>1. call \in Call /\ call.state = "accepted" /\ given' = given \cup {new}
      /\ UNCHANGED <<call, calling, minted, over>>
  BY DEF MeetCall, CallsInv, CallsTypeOK, CallIs
<1>2. new \in [key : Nat \cup {None}, early : BOOLEAN]
  BY <1>1
<1>3. CallsTypeOK' /\ OneMints' /\ (over => CallIs(Over))'
  BY <1>1, <1>2 DEF CallsInv, CallsTypeOK, OneMints, CallIs
<1>4. new.key = call.key /\ (new.key = None => new.early)
  BY <1>1 DEF CallsInv, OneMints, CallIs
<1> HIDE DEF new
<1>5. Given'
  BY <1>1, <1>4 DEF CallsInv, Given
<1> QED
  BY <1>3, <1>5 DEF CallsInv

LEMMA CallNextKeeps == CallsInv /\ [CallNext]_callVars => CallsInv'
<1>1. CallsInv /\ RestartCalls => CallsInv'
  BY CallsAssumption DEF RestartCalls, CallsInv, CallsTypeOK, OneMints, Given, CallIs
<1>2. CallsInv /\ UNCHANGED callVars => CallsInv'
  BY DEF callVars, CallsInv, CallsTypeOK, OneMints, Given, CallIs
<1> QED
  BY <1>1, <1>2, InviteKeeps, AcceptKeeps, MintKeeps, EndsKeep, MeetKeeps DEF CallNext

LEMMA CallsInvAgrees == CallsInv => CallsAgree
<1> SUFFICES ASSUME CallsInv PROVE CallsAgree
  OBVIOUS
<1>1. \A g, other \in given : None \in {g.key, other.key} \/ g.key = other.key
  BY DEF CallsInv, Given
<1> QED
  BY <1>1 DEF CallsInv, Given, CallsAgree

--------------------------------------------------------------------------------
(* The parts *)

SignInHolds == SignInInv /\ SurvivesInv
ReachHolds  == ReachInv /\ Announced /\ Reaches

Inv == left \in [Arrival -> Nat] /\ SignInHolds /\ ReachHolds /\ CallsInv

LEMMA SignInUnchanged == SignInHolds /\ UNCHANGED signInVars => SignInHolds'
<1> SUFFICES ASSUME SignInInv, SurvivesInv, UNCHANGED signInVars PROVE SignInHolds'
  BY DEF SignInHolds
<1>1. UNCHANGED <<buckets, storeVars, clock, codes, counter, pending, task, tries, twins>>
  BY DEF signInVars
<1>2. StoreInv'
  BY <1>1, StoreUnchanged DEF SignInInv
<1>3. CreatesAlone' /\ OneAccount' /\ OpFits'
  BY <1>1, AccountsKept DEF storeVars, SignInInv, Creating, Step, OpFits
<1>4. SignInInv'
  BY <1>1, <1>2, <1>3, AccountStepKeeps DEF SignInInv, SignInTypeOK
<1>5. SurvivesInv'
  BY <1>1, TimeSurvives
<1> QED
  BY <1>4, <1>5 DEF SignInHolds

LEMMA ReachUnchanged == ReachHolds /\ UNCHANGED <<reachVars, clock>> => ReachHolds'
<1> SUFFICES ASSUME ReachInv, Announced, Reaches, UNCHANGED reachVars, clock' = clock
    PROVE  ReachHolds'
  BY DEF ReachHolds
<1>1. clock' \in Nat /\ clock' >= clock
  BY DEF ReachInv
<1> QED
  BY <1>1, TimeKeepsReach, TimeTells, TimeReaches DEF ReachHolds

LEMMA ReachStepHolds == ASSUME ReachHolds, ReachNext, clock' = clock PROVE ReachHolds'
  BY ReachNextKeeps, ReachNextTells, ReachNextReaches DEF ReachHolds

LEMMA CallsUnchanged == CallsInv /\ UNCHANGED callVars => CallsInv'
  BY CallNextKeeps

\* A request that comes is one fewer to come.
LEMMA ComesKeeps ==
    ASSUME left \in [Arrival -> Nat], NEW arrival \in Arrival, Comes(arrival)
    PROVE  left' \in [Arrival -> Nat]
<1>1. left[arrival] - 1 \in Nat /\ left' = [left EXCEPT ![arrival] = left[arrival] - 1]
  BY DEF Comes
<1> QED
  BY <1>1

LEMMA Arrivals == \A a \in {"request", "verify", "register", "login", "key", "second",
                            "sign on", "touch", "revoke", "query", "sync", "send", "lose",
                            "call", "tick", "restart"} : a \in Arrival
  BY DEF Arrival

--------------------------------------------------------------------------------
(* The server: one step each *)

LEMMA AccountRequestKeeps == ASSUME Inv, NEW h \in Handler, AccountRequest(h) PROVE Inv'
<1>1. UNCHANGED <<reachVars, callVars>> /\ SignInHolds /\ ReachHolds /\ CallsInv
      /\ left \in [Arrival -> Nat]
  BY DEF AccountRequest, Inv
<1>2. left' \in [Arrival -> Nat] /\ clock' = clock
  <2>1. \E arrival \in Arrival : Comes(arrival)
    BY Arrivals DEF AccountRequest
  <2>2. clock' = clock
    BY DEF AccountRequest, Request, Login, SecondFactorRequest, BeginEnable, ConfirmEnable,
           Disable, MintKey
  <2> QED
    BY <1>1, <2>1, <2>2, ComesKeeps
<1>3. SignInHolds'
  <2>1. ASSUME NEW k \in Phone \cup Name, NEW op \in {"request", "verify", "register"},
               Request(h, op, k)
        PROVE  SignInHolds'
    BY <1>1, <2>1, RequestKeeps, RequestSurvives DEF SignInHolds
  <2>2. ASSUME NEW k \in Phone \cup Name, Login(h, k) PROVE SignInHolds'
    BY <1>1, <2>2, LoginKeeps, RequestSurvives DEF SignInHolds
  <2>3. ASSUME NEW k \in Phone \cup Name, SecondFactorRequest(h, k) PROVE SignInHolds'
    BY <1>1, <2>3, SecondFactorKeeps, RequestSurvives DEF SecondFactorRequest, SignInHolds
  <2>4. CASE MintKey(h)
    BY <1>1, <2>4, MintKeyKeeps, MintKeySurvives DEF SignInHolds
  <2> QED
    BY <2>1, <2>2, <2>3, <2>4 DEF AccountRequest
<1>4. ReachHolds' /\ CallsInv'
  BY <1>1, <1>2, ReachUnchanged, CallsUnchanged
<1> QED
  BY <1>2, <1>3, <1>4 DEF Inv

LEMMA ReachRequestKeeps == ASSUME Inv, NEW h \in Handler, ReachRequest(h) PROVE Inv'
<1>1. UNCHANGED <<signInVars, callVars>> /\ clock' = clock
      /\ SignInHolds /\ ReachHolds /\ CallsInv /\ left \in [Arrival -> Nat]
  BY DEF ReachRequest, Inv, signInVars
<1>2. left' \in [Arrival -> Nat]
  <2>1. \E arrival \in Arrival : Comes(arrival)
    BY Arrivals DEF ReachRequest
  <2> QED
    BY <1>1, <2>1, ComesKeeps
<1>3. ReachNext
  BY DEF ReachRequest, ReachNext, ReachHandles
<1> QED
  BY <1>1, <1>2, <1>3, ReachStepHolds, SignInUnchanged, CallsUnchanged DEF Inv

LEMMA CallRequestKeeps == ASSUME Inv, NEW h \in Handler, CallRequest(h) PROVE Inv'
<1>1. UNCHANGED <<signInVars, reachVars>> /\ UNCHANGED <<reachVars, clock>>
      /\ SignInHolds /\ ReachHolds /\ CallsInv /\ left \in [Arrival -> Nat]
  BY DEF CallRequest, Inv, signInVars
<1>2. left' \in [Arrival -> Nat]
  <2>1. Comes("call")
    BY DEF CallRequest
  <2> QED
    BY <1>1, <2>1, Arrivals, ComesKeeps
<1>3. CallNext
  BY DEF CallRequest, CallNext
<1> QED
  BY <1>1, <1>2, <1>3, CallNextKeeps, SignInUnchanged, ReachUnchanged DEF Inv

LEMMA AccountStepServes == ASSUME Inv, NEW h \in Handler, AccountStep(h) PROVE Inv'
<1>1. UNCHANGED <<left, reachVars, callVars>> /\ SignInHolds /\ ReachHolds /\ CallsInv
      /\ left \in [Arrival -> Nat]
  BY DEF AccountStep, Inv
<1>2. clock' = clock
  BY DEF AccountStep, Limit, RequestCode, VerifyCode, LookUp, ChooseId, CreateAccount
<1>3. SignInHolds'
  BY <1>1, LimitKeeps, RequestCodeKeeps, VerifyCodeKeeps, LookUpKeeps, ChooseIdKeeps,
     CreateAccountKeeps, SaveStepKeeps, StepSurvives, LookUpSurvives, CreateAccountSurvives,
     SaveSurvives DEF AccountStep, SignInHolds
<1>4. ReachHolds' /\ CallsInv'
  BY <1>1, <1>2, ReachUnchanged, CallsUnchanged
<1> QED
  BY <1>1, <1>3, <1>4 DEF Inv

LEMMA ReachStepServes == ASSUME Inv, NEW h \in Handler, ReachStep(h) PROVE Inv'
<1>1. UNCHANGED <<left, signInVars, callVars>> /\ clock' = clock
      /\ SignInHolds /\ ReachHolds /\ CallsInv /\ left \in [Arrival -> Nat]
  BY DEF ReachStep, Inv, signInVars
<1>2. ReachNext
  BY DEF ReachStep, ReachNext, ReachHandles
<1> QED
  BY <1>1, <1>2, ReachStepHolds, SignInUnchanged, CallsUnchanged DEF Inv

LEMMA CallStepServes == ASSUME Inv, NEW h \in Handler, CallStep(h) PROVE Inv'
<1>1. UNCHANGED <<left, signInVars, reachVars>> /\ UNCHANGED <<reachVars, clock>>
      /\ SignInHolds /\ ReachHolds /\ CallsInv /\ left \in [Arrival -> Nat]
  BY DEF CallStep, Inv, signInVars
<1>2. CallNext
  BY DEF CallStep, CallNext
<1> QED
  BY <1>1, <1>2, CallNextKeeps, SignInUnchanged, ReachUnchanged DEF Inv

LEMMA OthersKeep == ASSUME Inv, Answers \/ Peer PROVE Inv'
<1>1. UNCHANGED <<signInVars, callVars>> /\ clock' = clock
      /\ SignInHolds /\ ReachHolds /\ CallsInv /\ left \in [Arrival -> Nat]
  BY DEF Answers, Peer, Inv, signInVars
<1>2. left' \in [Arrival -> Nat]
  <2>1. \E arrival \in Arrival : Comes(arrival)
    BY Arrivals DEF Answers, Peer
  <2> QED
    BY <1>1, <2>1, ComesKeeps
<1>3. ReachNext
  BY DEF Answers, Peer, ReachNext
<1> QED
  BY <1>1, <1>2, <1>3, ReachStepHolds, SignInUnchanged, CallsUnchanged DEF Inv

LEMMA TimeKeeps == ASSUME Inv, Time PROVE Inv'
<1>1. Comes("tick") /\ Tick /\ UNCHANGED <<reachVars, callVars>>
      /\ SignInHolds /\ ReachHolds /\ CallsInv /\ left \in [Arrival -> Nat] /\ clock \in Nat
  BY DEF Time, Inv, ReachHolds, ReachInv
<1>2. left' \in [Arrival -> Nat]
  BY <1>1, Arrivals, ComesKeeps
<1>3. clock' \in Nat /\ clock' >= clock
  BY <1>1 DEF Tick
<1>4. SignInHolds' /\ ReachHolds' /\ CallsInv'
  <2>1. UNCHANGED <<storeVars, task>>
    BY <1>1 DEF Tick
  <2> QED
    BY <1>1, <1>3, <2>1, TickKeeps, TimeSurvives, TimeKeepsReach, TimeTells, TimeReaches,
       CallsUnchanged
    DEF SignInHolds, ReachHolds
<1> QED
  BY <1>2, <1>4 DEF Inv

LEMMA RestartKeeps == ASSUME Inv, Restart PROVE Inv'
<1>1. Comes("restart") /\ RestartServer /\ RestartReach /\ RestartCalls /\ clock' = clock
      /\ SignInHolds /\ ReachHolds /\ CallsInv /\ left \in [Arrival -> Nat]
  BY DEF Restart, Inv, RestartServer
<1>2. left' \in [Arrival -> Nat]
  BY <1>1, Arrivals, ComesKeeps
<1>3. ReachNext /\ CallNext
  BY <1>1 DEF ReachNext, CallNext
<1>4. SignInHolds' /\ ReachHolds' /\ CallsInv'
  BY <1>1, <1>3, RestartServerKeeps, RestartSurvives, ReachStepHolds, CallNextKeeps
  DEF SignInHolds
<1> QED
  BY <1>2, <1>4 DEF Inv

--------------------------------------------------------------------------------
(* The server *)

LEMMA Initially == ServerInit => Inv
<1> SUFFICES ASSUME ServerInit PROVE Inv
  OBVIOUS
<1>1. left \in [Arrival -> Nat]
  BY ServerAssumption DEF ServerInit
<1>2. SignInInit /\ ReachInit /\ CallsInit /\ clock = 0
  BY DEF ServerInit, SignInInit
<1> QED
  BY <1>1, <1>2, SignInInitInv, SignInInitSurvives, ReachInitInv, ReachInitTells,
     ReachInitReaches, CallsInitInv
  DEF Inv, SignInHolds, ReachHolds

LEMMA Stutters == ASSUME Inv, UNCHANGED vars PROVE Inv'
<1>1. UNCHANGED <<left, signInVars, callVars>> /\ UNCHANGED <<reachVars, clock>>
  BY DEF vars, signInVars
<1> QED
  BY <1>1, SignInUnchanged, ReachUnchanged, CallsUnchanged DEF Inv

LEMMA Keeps == Inv /\ [Next]_vars => Inv'
<1> SUFFICES ASSUME Inv, [Next]_vars PROVE Inv'
  OBVIOUS
<1>1. ASSUME NEW h \in Handler,
             \/ AccountRequest(h) \/ ReachRequest(h) \/ CallRequest(h)
             \/ AccountStep(h) \/ ReachStep(h) \/ CallStep(h)
      PROVE  Inv'
  BY <1>1, AccountRequestKeeps, ReachRequestKeeps, CallRequestKeeps,
     AccountStepServes, ReachStepServes, CallStepServes
<1>2. CASE Answers \/ Peer \/ Time \/ Restart
  BY <1>2, OthersKeep, TimeKeeps, RestartKeeps
<1>3. CASE UNCHANGED vars
  BY <1>3, Stutters
<1> QED
  BY <1>1, <1>2, <1>3 DEF Next

LEMMA Always == Spec => []Inv
<1> QED
  BY Initially, Keeps, PTL DEF Spec

\* Every variable has its type, and a request in flight is in one of the steps that the
\* dispatcher and the services have (app.py handle_line, the services).
THEOREM TypeCorrect == Spec => []TypeOK
<1>1. Inv => TypeOK
  BY DEF Inv, SignInHolds, SignInInv, ReachHolds, ReachInv, CallsInv, TypeOK
<1> QED
  BY <1>1, Always, PTL

\* However the readings of the clock are ordered, a bucket lets no more through than its
\* burst and what it gained, and its time that was moved back (try_acquire).
THEOREM Admitted == Spec => []AdmittedBounded
<1>1. Inv => AdmittedBounded
  BY LimiterBounds DEF Inv, SignInHolds, SignInInv
<1> QED
  BY <1>1, Always, PTL

\* A code signs in once at most, and not after it was tried wrongly as often as is
\* allowed, for any number of handlers, phones and attempts (verify_code).
THEOREM SpentOnce == Spec => []CodeIsSpent
<1>1. Inv => CodeIsSpent
  BY DEF Inv, SignInHolds, SignInInv
<1> QED
  BY <1>1, Always, PTL

\* Two accounts with one name or number are there only if they were being created at
\* the same time, whatever was saved and reloaded (register, _upsert_phone_user).
THEOREM OneAccountEach == Spec => []OneAccount
<1>1. Inv => OneAccount
  BY DEF Inv, SignInHolds, SignInInv
<1> QED
  BY <1>1, Always, PTL

\* A user is said to be online for less than twice the time that a session counts as
\* fresh, with the cache and without it (_resolve_user_presence).
THEOREM Recently == Spec => []OnlineIsRecent
<1>1. Inv => OnlineIsRecent
  BY RecentlyOnline DEF Inv, ReachHolds
<1> QED
  BY <1>1, Always, PTL

\* Whoever signed in with a password and synced then lacks no message that was answered as
\* sent, as long as its connection is up and its session was in every table put in place,
\* for any number of sessions, sends and revocations (control_plane.py:45-56,
\* _fanout_to_conversation).
THEOREM NothingIsMissing == Spec => []ConnectedHasAll
<1>1. Inv => ConnectedHasAll
  BY DEF Inv, ReachHolds, Reaches
<1> QED
  BY <1>1, Always, PTL

\* What was answered is in the file, and so in the memory of the next start, on every
\* backend, unless two saves crossed, a crash came in the middle of one or one raised
\* half-way (save_runtime_state, PostgresStateRepository.save, upsert_session).
THEOREM AnsweredIsKept == Spec => []AnsweredSurvives
<1>1. Inv => AnsweredSurvives
  BY DurableSurvives DEF Inv, SignInHolds, SurvivesInv
<1> QED
  BY <1>1, Always, PTL

\* A user with a fresh session was last announced to be online, unless since the last
\* announcement two handlers worked on its sessions at once, a save failed for it, or a
\* revocation's copy of the table or a restart changed them (touch,
\* notify_session_started, revoke_device, save_runtime_state).
THEOREM FreshWasAnnounced == Spec => []OnlineIsTold
<1>1. Inv => OnlineIsTold
  BY AnnouncedIsTold DEF Inv, ReachHolds
<1> QED
  BY <1>1, Always, PTL

\* The parties of a call are given one key, and a call that is over stays over
\* (accept, rendezvous, end).
THEOREM CallsAgreeAlways == Spec => []CallsAgree
<1>1. Inv => CallsAgree
  BY CallsInvAgrees DEF Inv
<1> QED
  BY <1>1, Always, PTL
================================================================================
