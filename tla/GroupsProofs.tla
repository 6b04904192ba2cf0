------------------------------ MODULE GroupsProofs ------------------------------
(***************************************************************************)
(* What every behaviour of Groups keeps.  A step is one of a component or  *)
(* a restart, and a component's step leaves the other variables and the    *)
(* requests of other kinds alone.                                          *)
(***************************************************************************)
EXTENDS Groups, FiniteSetTheorems, WellFoundedInduction, TLAPS

AnyTask == Task \cup UploadTask \cup PollTask \cup PersonalTask

\* What a handler is doing.
Op(t) == IF t = None THEN "idle" ELSE t.op

AskOps      == {"send", "add", "remove", "admin", "member"}
DeleteOps   == {"signed out", "unlisted", "walked", "rebuilt"}
ChatOps     == AskOps \cup {"sent", "confirmed"} \cup DeleteOps
UploadOps   == {"begin", "attach", "chunk", "post", "release"}
PollOps     == {"poll", "close", "announce", "vote"}
PersonalOps == {"keep", "drop", "lost keep", "lost drop", "register", "unregister",
                "append", "copied", "listed", "forgotten"}

\* Requests of these kinds only are taken up, go on or end.
Moves(ops) == \A h \in Handler :
    task'[h] # task[h] => Op(task[h]) \in ops /\ Op(task'[h]) \in ops

\* One request alone goes from one kind to another.
Becomes(h, old, new) ==
    /\ Op(task[h]) = old /\ Op(task'[h]) = new
    /\ \A g \in Handler \ {h} : task'[g] = task[g]

--------------------------------------------------------------------------------
(* The steps, by component *)

ChatAsks(h) == \E a, u \in User :
    \/ SendRequest(h, a) \/ AddRequest(h, a, u) \/ RemoveRequest(h, a, u)
    \/ \E role \in {"admin", "member"} : RoleRequest(h, a, u, role)
    \/ DeleteRequest(h, a)

ChatGoesOn(h) == DropSessions(h) \/ RebuildParticipants(h) \/ ReplaceParticipants(h)

ChatSaves(h) ==
    Send(h) \/ AddParticipant(h) \/ RemoveParticipant(h) \/ SetRole(h) \/ DropUser(h)

ChatStep(h) ==
    /\ \/ (ChatAsks(h) \/ ChatGoesOn(h)) /\ newest' = newest
       \/ ChatSaves(h) /\ newest' = Snapshot'
    /\ UNCHANGED <<uploadVars, pollVars, personalVars>>

UploadAsks(h) ==
    \/ \E a \in User : AttachRequest(h, a) \/ BeginRequest(h, a)
    \/ \E i \in DOMAIN uploads, chunk \in 0 .. (Chunks - 1) : ChunkRequest(h, i, chunk)
    \/ \E i \in DOMAIN uploads : CompleteRequest(h, i)

UploadGoesOn(h) == InitUpload(h) \/ AcceptChunk(h) \/ ReleaseUpload(h)

UploadStep(h) ==
    /\ \/ (UploadAsks(h) \/ UploadGoesOn(h)) /\ newest' = newest
       \/ (PostAttachment(h) \/ SendAttachment(h)) /\ newest' = Snapshot'
    /\ UNCHANGED <<pollVars, personalVars>>

PollAsks(h) == \E a \in User :
    CreateRequest(h, a) \/ (\E option \in Option : VoteRequest(h, a, option)) \/ CloseRequest(h, a)

PollStep(h) ==
    /\ \/ (PollAsks(h) \/ AnnounceResult(h)) /\ newest' = newest
       \/ (CreatePoll(h) \/ CountVote(h) \/ ClosePoll(h)) /\ newest' = Snapshot'
    /\ UNCHANGED <<uploadVars, personalVars>>

PersonalAsks(h) == \E a \in User :
    \/ \E item \in Item \ Tokens : KeepRequest(h, a, item) \/ DropRequest(h, a, item)
    \/ \E op \in {"register", "unregister"}, item \in Tokens : TokenRequest(h, op, a, item)

Clears(h) == ClearDraft(h) \/ Unregister(h)

PersonalSaves(h) == Keep(h) \/ Drop(h) \/ KeepNowhere(h) \/ AppendToken(h)

PersonalGoesOn(h) ==
    \/ AssignTokens(h) \/ CopyTokens(h) \/ ReplaceTokens(h)
    \/ CopyContacts(h) \/ ReplaceContacts(h) \/ DeletionFails(h)

PersonalStep(h) ==
    /\ \/ (PersonalAsks(h) \/ PersonalGoesOn(h)) /\ newest' = newest
       \/ PersonalSaves(h) /\ newest' = Snapshot'
       \/ Clears(h) /\ newest' = IF kept' = kept THEN newest ELSE Snapshot'
    /\ UNCHANGED <<uploadVars, pollVars>>

RefuseStep == \E i \in DOMAIN uploads :
    DropUpload(i) /\ UNCHANGED <<newest, pollVars, personalVars>>

\* Nothing but the file changes.
memoryVars == <<newest, chatVars, uploadVars, pollVars, personalVars>>

\* What is in the file, is written to it or was saved last.
Payloads == {file, newest} \cup ({late} \ {None})

\* A payload is what was one, or what is in memory now.
Payload == Payloads' \subseteq Payloads \cup {Snapshot'}

HistoryTyped == interfered \subseteq User /\ returned \subseteq User

Counts == left' \in [Request -> Nat]

LEMMA TakesCounts ==
    ASSUME left \in [Request -> Nat], NEW request \in Request, Takes(request) PROVE Counts
<1>1. left[request] - 1 \in Nat /\ left' = [left EXCEPT ![request] = left[request] - 1]
  BY DEF Takes
<1> QED
  BY <1>1 DEF Counts

LEMMA ContactItems == Contact \cup Alias \cup Blocked \cup Muted \cup Tokens
                       \cup {<<"draft", None>>, <<"pinned", None>>, <<"archived", None>>}
                      \subseteq Item
  BY DEF Item, Contact, Alias, Blocked, Mark, Muted, Tokens

LEMMA NoTokenItems == (Contact \cup Alias \cup Blocked \cup Muted
                        \cup {<<"draft", None>>, <<"pinned", None>>, <<"archived", None>>})
                       \subseteq Item \ Tokens
<1>1. \A i \in Tokens : i[1] = "token"
  BY DEF Tokens
<1>2. \A i \in Contact \cup Alias \cup Blocked \cup Muted
            \cup {<<"draft", None>>, <<"pinned", None>>, <<"archived", None>>} : i[1] # "token"
  BY DEF Contact, Alias, Blocked, Muted
<1> QED
  BY <1>1, <1>2, ContactItems

LEMMA MarkAsks ==
    ASSUME NEW h \in Handler, NEW a \in User,
           \/ ContactRequest(h, a) \/ BlockRequest(h, a) \/ MuteRequest(h, a)
           \/ DraftRequest(h, a) \/ FlagRequest(h, a)
    PROVE  \E item \in Item \ Tokens : KeepRequest(h, a, item) \/ DropRequest(h, a, item)
  BY NoTokenItems
     DEF ContactRequest, BlockRequest, MuteRequest, DraftRequest, FlagRequest, MarkRequest

Step(h) == ChatStep(h) \/ UploadStep(h) \/ PollStep(h) \/ PersonalStep(h)

LEMMA RequestIsStep ==
    ASSUME left \in [Request -> Nat], NEW h \in Handler, Requests(h) PROVE Counts /\ Step(h)
<1> USE DEF Request, fileVars, Step
<1>1. CASE ChatRequest(h) /\ UNCHANGED <<uploadVars, pollVars, personalVars>>
  <2>1. Counts
    BY <1>1, TakesCounts DEF ChatRequest
  <2>2. ChatAsks(h)
    BY <1>1 DEF ChatRequest, ChatAsks
  <2> QED
    BY <1>1, <2>1, <2>2 DEF ChatStep, Requests
<1>2. CASE UploadRequest(h) /\ UNCHANGED <<pollVars, personalVars>>
  <2>1. Counts
    BY <1>2, TakesCounts DEF UploadRequest
  <2>2. UploadAsks(h)
    BY <1>2 DEF UploadRequest, UploadAsks
  <2> QED
    BY <1>2, <2>1, <2>2 DEF UploadStep, Requests
<1>3. CASE PollRequest(h) /\ UNCHANGED <<uploadVars, personalVars>>
  <2>1. Counts
    BY <1>3, TakesCounts DEF PollRequest
  <2>2. PollAsks(h)
    BY <1>3 DEF PollRequest, PollAsks
  <2> QED
    BY <1>3, <2>1, <2>2 DEF PollStep, Requests
<1>4. CASE PersonalRequest(h) /\ UNCHANGED <<uploadVars, pollVars>>
  <2>1. Counts
    BY <1>4, TakesCounts DEF PersonalRequest
  <2>2. PersonalAsks(h)
    BY <1>4, MarkAsks DEF PersonalRequest, PersonalAsks
  <2> QED
    BY <1>4, <2>1, <2>2 DEF PersonalStep, Requests
<1> QED
  BY <1>1, <1>2, <1>3, <1>4 DEF Requests

LEMMA SaveIsStep ==
    ASSUME left \in [Request -> Nat], NEW h \in Handler, Saves(h) PROVE Counts /\ Step(h)
<1> USE DEF Request, Step
<1>1. Counts /\ newest' = Snapshot'
  BY TakesCounts DEF Counts, Saves, Save
<1> QED
  BY <1>1 DEF Saves, ChatStep, ChatSaves, UploadStep, PollStep, PersonalStep,
                    PersonalSaves, Clears

LEMMA GoOnIsStep ==
    ASSUME left \in [Request -> Nat], NEW h \in Handler, Continues(h) PROVE Counts /\ Step(h)
  BY DEF Step, fileVars, Counts, Continues, ChatStep, ChatGoesOn, UploadStep, UploadGoesOn,
         PollStep, PersonalStep, PersonalGoesOn, Clears

LEMMA NextSteps ==
    ASSUME left \in [Request -> Nat], Next
    PROVE  /\ Counts
           /\ \/ \E h \in Handler : ChatStep(h) \/ UploadStep(h) \/ PollStep(h) \/ PersonalStep(h)
              \/ RefuseStep
              \/ UNCHANGED memoryVars
              \/ Restart
<1> USE DEF Request
<1>1. ASSUME NEW h \in Handler, Requests(h) \/ Saves(h) \/ Continues(h) PROVE Counts /\ Step(h)
  BY <1>1, RequestIsStep, SaveIsStep, GoOnIsStep
<1>2. ASSUME Refuses PROVE Counts /\ RefuseStep
  BY <1>2, TakesCounts DEF Refuses, RefuseStep, fileVars
<1>3. ASSUME Restart PROVE Counts
  BY <1>3, TakesCounts DEF Restart
<1>4. ASSUME Writes PROVE Counts /\ UNCHANGED memoryVars
  BY <1>4 DEF Writes, Counts, memoryVars, fileVars
<1> QED
  BY <1>1, <1>2, <1>3, <1>4 DEF Next, Step

\* Besides what the steps of the components are about.
Aside == Counts /\ Payload /\ HistoryTyped'

LEMMA NextHistory == ASSUME TypeOK, Next PROVE HistoryTyped'
<1>1. HistoryTyped
  BY DEF TypeOK, HistoryTyped
<1>2. ASSUME NEW u, Comes(u) PROVE HistoryTyped'
  BY <1>1, <1>2 DEF Comes, HistoryTyped
<1>3. ASSUME UNCHANGED <<interfered, returned>> PROVE HistoryTyped'
  BY <1>1, <1>3 DEF HistoryTyped
<1>4. ASSUME NEW h \in Handler, Requests(h) PROVE HistoryTyped'
  BY <1>2, <1>4 DEF Requests
<1>5. ASSUME NEW h \in Handler, Saves(h) \/ Continues(h) PROVE HistoryTyped'
  BY <1>3, <1>5 DEF Saves, Continues
<1>6. ASSUME Refuses PROVE HistoryTyped'
  BY <1>2, <1>6 DEF Refuses
<1>7. ASSUME Writes \/ Restart PROVE HistoryTyped'
  BY <1>3, <1>7 DEF Writes, Restart
<1> QED
  BY <1>4, <1>5, <1>6, <1>7 DEF Next

\* Every step, and the steps that leave everything alone.
LEMMA StepKinds ==
    ASSUME left \in [Request -> Nat], [Next]_vars
    PROVE  \/ \E h \in Handler : ChatStep(h) \/ UploadStep(h) \/ PollStep(h) \/ PersonalStep(h)
           \/ RefuseStep
           \/ UNCHANGED memoryVars
           \/ Restart
<1>1. UNCHANGED vars => UNCHANGED memoryVars
  BY DEF vars, fileVars, memoryVars
<1> QED
  BY <1>1, NextSteps

LEMMA NextPayload == ASSUME [Next]_vars PROVE Payload
<1>1. ASSUME NEW h \in Handler, Requests(h) \/ Continues(h) PROVE UNCHANGED fileVars
  BY <1>1 DEF Requests, Continues
<1>2. ASSUME NEW h \in Handler, Saves(h) PROVE Save
  BY <1>2 DEF Saves
<1>3. ASSUME Refuses PROVE UNCHANGED fileVars
  BY <1>3 DEF Refuses
<1>4. ASSUME Writes PROVE Payload
  BY <1>4 DEF Writes, Payload, Payloads
<1>5. ASSUME Save PROVE Payload
  BY <1>5 DEF Save, Payload, Payloads
<1>6. ASSUME UNCHANGED fileVars PROVE Payload
  BY <1>6 DEF fileVars, Payload, Payloads
<1>7. ASSUME Restart PROVE Payload
  BY <1>7 DEF Restart, Payload, Payloads
<1>8. UNCHANGED vars => UNCHANGED fileVars
  BY DEF vars
<1> QED
  BY <1>1, <1>2, <1>3, <1>4, <1>5, <1>6, <1>7, <1>8 DEF Next

--------------------------------------------------------------------------------
(* Requests in flight *)

LEMMA NoneIsNoRequest == \A t \in AnyTask : t # None
  BY GroupsAssumption DEF AnyTask

\* What a request in flight is made of, by what it is doing.
LEMMA TaskFields ==
    ASSUME TypeOK, NEW h \in Handler, task[h] # None
    PROVE  /\ task[h] \in AnyTask /\ Op(task[h]) = task[h].op /\ task[h].user \in User
           /\ task[h].op \in ChatOps \cup UploadOps \cup PollOps \cup PersonalOps
           /\ task[h].op \in AskOps =>
                task[h].target \in User /\ task[h].ungated \in BOOLEAN /\ task[h].id \in Nat
           /\ task[h].op \in DeleteOps \cup {"copied", "listed", "forgotten"} =>
                task[h].clean \in BOOLEAN
           /\ task[h].op = "rebuilt" => task[h].list \in [User -> Nat]
           /\ task[h].op \in {"chunk", "post", "release"} => task[h].upload \in Nat
           /\ task[h].op = "chunk" => task[h].chunk \in Nat
           /\ task[h].op = "post" => task[h].attachment \in Nat /\ task[h].id \in Nat
           /\ task[h].op = "vote" => task[h].option \in Option
           /\ task[h].op \in {"keep", "drop", "lost keep", "lost drop"} => task[h].item \in Item
           /\ task[h].op \in {"register", "unregister", "append"} => task[h].item \in Tokens
           /\ task[h].op \in {"register", "unregister", "copied"} =>
                task[h].lists \in [User -> [Tokens -> Nat]]
           /\ task[h].op = "listed" =>
                /\ task[h].owners \subseteq User
                /\ task[h].lists \in [User -> [Contact -> Nat]]
<1> USE DEF AskOps, DeleteOps, ChatOps, UploadOps, PollOps, PersonalOps
<1>1. task[h] \in AnyTask /\ Op(task[h]) = task[h].op
  BY DEF TypeOK, AnyTask, Op
<1>2. CASE task[h] \in Task
  BY <1>1, <1>2 DEF Task
<1>3. CASE task[h] \in UploadTask
  BY <1>1, <1>3 DEF UploadTask
<1>4. CASE task[h] \in PollTask
  BY <1>1, <1>4 DEF PollTask
<1>5. CASE task[h] \in PersonalTask
  BY <1>1, <1>5 DEF PersonalTask
<1> QED
  BY <1>1, <1>2, <1>3, <1>4, <1>5 DEF AnyTask

\* The same of a handler that is known to be doing it.
LEMMA DoingFields ==
    ASSUME TypeOK, NEW op, NEW h \in Doing(op)
    PROVE  /\ h \in Handler /\ task[h] \in AnyTask /\ task[h] # None
           /\ task[h].op = op /\ Op(task[h]) = op /\ task[h].user \in User
           /\ op \in AskOps =>
                task[h].target \in User /\ task[h].ungated \in BOOLEAN /\ task[h].id \in Nat
           /\ op \in DeleteOps \cup {"copied", "listed", "forgotten"} =>
                task[h].clean \in BOOLEAN
           /\ op = "rebuilt" => task[h].list \in [User -> Nat]
           /\ op \in {"chunk", "post", "release"} => task[h].upload \in Nat
           /\ op = "chunk" => task[h].chunk \in Nat
           /\ op = "post" => task[h].attachment \in Nat /\ task[h].id \in Nat
           /\ op = "vote" => task[h].option \in Option
           /\ op \in {"keep", "drop", "lost keep", "lost drop"} => task[h].item \in Item
           /\ op \in {"register", "unregister", "append"} => task[h].item \in Tokens
           /\ op \in {"register", "unregister", "copied"} =>
                task[h].lists \in [User -> [Tokens -> Nat]]
           /\ op = "listed" =>
                /\ task[h].owners \subseteq User
                /\ task[h].lists \in [User -> [Contact -> Nat]]
<1>1. h \in Handler /\ task[h] # None /\ task[h].op = op
  BY DEF Doing, Busy
<1> QED
  BY <1>1, TaskFields

LEMMA DoingIsOp ==
    ASSUME NEW op, op # "idle" PROVE \A h : h \in Doing(op) <=> h \in Handler /\ Op(task[h]) = op
  BY DEF Doing, Busy, Op

--------------------------------------------------------------------------------
(* Types *)

TasksTyped == task \in [Handler -> AnyTask \cup {None}]

ChatTyped ==
    /\ users \subseteq User /\ gone \subseteq User /\ shared \subseteq Nat
    /\ participants \in [User -> Nat]
    /\ roles \in [User -> {"owner", "admin", "member"}]
    /\ posts \in Seq(Post) /\ nextPost \in Nat
    /\ told \in [User -> {"in", "out", "unclear"}]

LEMMA TypeParts ==
    TypeOK <=> /\ left \in [Request -> Nat] /\ Payloads \subseteq SavedState /\ HistoryTyped
               /\ TasksTyped /\ ChatTyped /\ UploadsTypeOK /\ PollsTypeOK /\ PersonalTypeOK
  BY DEF TypeOK, TasksTyped, AnyTask, ChatTyped, Payloads, HistoryTyped

LEMMA TypePartsNext ==
    ASSUME Counts, Payloads' \subseteq SavedState, HistoryTyped', TasksTyped', ChatTyped',
           UploadsTypeOK', PollsTypeOK', PersonalTypeOK'
    PROVE  TypeOK'
  BY DEF Counts, TypeOK, TasksTyped, AnyTask, ChatTyped, Payloads, HistoryTyped

\* One request is taken up, goes on as t or ends.
LEMMA OneMoves ==
    ASSUME TypeOK, NEW h \in Handler, NEW t \in AnyTask \cup {None},
           task' = [task EXCEPT ![h] = t]
    PROVE  /\ TasksTyped' /\ Moves({Op(task[h]), Op(t)})
           /\ Becomes(h, Op(task[h]), Op(t)) /\ task'[h] = t
<1>1. task \in [Handler -> AnyTask \cup {None}]
  BY DEF TypeOK, AnyTask
<1> QED
  BY <1>1 DEF TasksTyped, Moves, Becomes

LEMMA StartMoves ==
    ASSUME TypeOK, NEW h \in Handler, NEW t \in AnyTask, Starts(h, t)
    PROVE  /\ TasksTyped' /\ Moves({"idle", t.op})
           /\ Becomes(h, "idle", t.op) /\ task'[h] = t
<1>1. task' = [task EXCEPT ![h] = t] /\ Op(task[h]) = "idle" /\ Op(t) = t.op
  BY NoneIsNoRequest DEF Starts, Op
<1> QED
  BY <1>1, OneMoves

LEMMA EndMoves ==
    ASSUME TypeOK, NEW h \in Handler, NEW op, h \in Doing(op), Ends(h)
    PROVE  TasksTyped' /\ Moves({"idle", op}) /\ Becomes(h, op, "idle") /\ task'[h] = None
<1>1. task' = [task EXCEPT ![h] = None] /\ Op(task[h]) = op /\ Op(None) = "idle"
  BY DoingFields DEF Ends, Op
<1> QED
  BY <1>1, OneMoves

LEMMA AsksTyped ==
    ASSUME NEW op \in AskOps, NEW a \in User, NEW u \in User
    PROVE  Asks(op, a, u) \in Task /\ Asks(op, a, u).op = op
  BY DEF Asks, Task, AskOps, Ungated

LEMMA MovesMore == ASSUME NEW ops, NEW more, ops \subseteq more, Moves(ops) PROVE Moves(more)
  BY DEF Moves

ChatMoves == TasksTyped' /\ ChatTyped' /\ Moves(ChatOps \cup {"idle"})

LEMMA ChatAsksMoves == ASSUME TypeOK, NEW h \in Handler, ChatAsks(h) PROVE ChatMoves
<1>1. PICK a \in User, u \in User :
        \/ SendRequest(h, a) \/ AddRequest(h, a, u) \/ RemoveRequest(h, a, u)
        \/ \E role \in {"admin", "member"} : RoleRequest(h, a, u, role)
        \/ DeleteRequest(h, a)
  BY DEF ChatAsks
<1> USE DEF AnyTask, ChatOps, AskOps, DeleteOps
<1>2. CASE SendRequest(h, a)
  <2> DEFINE t == [Asks("send", a, a) EXCEPT !.id = nextPost]
  <2>1. t \in Task /\ t.op = "send"
    BY DEF Asks, Task, Ungated, TypeOK
  <2>2. TasksTyped' /\ Moves({"idle", "send"})
    BY <1>2, <2>1, StartMoves DEF SendRequest
  <2>3. ChatTyped'
    BY <1>2 DEF SendRequest, TakesId, TypeOK, ChatTyped
  <2> QED
    BY <2>2, <2>3, MovesMore DEF ChatMoves
<1>3. CASE AddRequest(h, a, u) \/ RemoveRequest(h, a, u)
           \/ \E role \in {"admin", "member"} : RoleRequest(h, a, u, role)
  <2>1. PICK op \in AskOps : Starts(h, Asks(op, a, u))
    BY <1>3 DEF AddRequest, RemoveRequest, RoleRequest
  <2>2. Asks(op, a, u) \in AnyTask /\ Asks(op, a, u).op = op
    BY AsksTyped
  <2>3. TasksTyped' /\ Moves({"idle", op})
    <3> HIDE DEF AnyTask
    <3> QED
      BY <2>1, <2>2, StartMoves
  <2>4. ChatTyped'
    BY <1>3 DEF AddRequest, RemoveRequest, RoleRequest, historyVars, TypeOK, ChatTyped
  <2> QED
    BY <2>3, <2>4, MovesMore DEF ChatMoves
<1>4. CASE DeleteRequest(h, a)
  <2>1. [op |-> "confirmed", user |-> a] \in Task
    BY DEF Task
  <2>2. TasksTyped' /\ Moves({"idle", "confirmed"})
    BY <1>4, <2>1, StartMoves DEF DeleteRequest
  <2>3. ChatTyped'
    BY <1>4 DEF DeleteRequest, historyVars, TypeOK, ChatTyped
  <2> QED
    BY <2>2, <2>3, MovesMore DEF ChatMoves
<1> QED
  BY <1>1, <1>2, <1>3, <1>4

LEMMA Appended ==
    ASSUME NEW S, NEW s \in Seq(S), NEW x \in S
    PROVE  /\ Append(s, x) \in Seq(S) /\ Len(Append(s, x)) = Len(s) + 1
           /\ DOMAIN Append(s, x) = DOMAIN s \cup {Len(s) + 1}
           /\ \A i \in DOMAIN s : Append(s, x)[i] = s[i]
           /\ Append(s, x)[Len(s) + 1] = x
  OBVIOUS

LEMMA TombstonedTyped ==
    ASSUME posts \in Seq(Post), NEW u \in User
    PROVE  /\ Tombstoned(u) \in Seq(Post) /\ DOMAIN Tombstoned(u) = DOMAIN posts
           /\ Len(Tombstoned(u)) = Len(posts)
           /\ \A i \in DOMAIN posts :
                /\ Tombstoned(u)[i].id = posts[i].id
                /\ Tombstoned(u)[i].attachment = posts[i].attachment
                /\ Tombstoned(u)[i].sender
                      = IF posts[i].sender = u THEN Tombstone ELSE posts[i].sender
<1>1. \A i \in DOMAIN posts : posts[i] \in Post
  OBVIOUS
<1>2. \A i \in DOMAIN posts : Tombstoned(u)[i] \in Post
  BY <1>1 DEF Tombstoned, Post
<1>3. DOMAIN Tombstoned(u) = 1 .. Len(posts)
  BY DEF Tombstoned
<1>4. Tombstoned(u) \in Seq(Post)
  BY <1>2, <1>3 DEF Tombstoned
<1> QED
  BY <1>1, <1>3, <1>4 DEF Tombstoned, Post

LEMMA ChatSavesMoves == ASSUME TypeOK, NEW h \in Handler, ChatSaves(h) PROVE ChatMoves
<1> USE DEF ChatOps, AskOps, DeleteOps
<1>1. CASE Send(h)
  <2>1. task[h].op = "send" /\ task[h].user \in User /\ task[h].id \in Nat /\ Op(task[h]) = "send"
    BY <1>1, DoingFields DEF Send
  <2> DEFINE t == [op |-> "sent", user |-> task[h].user]
             p == [id |-> task[h].id, sender |-> task[h].user, attachment |-> 0]
  <2>2. t \in AnyTask /\ Op(t) = "sent" /\ p \in Post
    BY <2>1, NoneIsNoRequest DEF AnyTask, Task, Op, Post
  <2>3. TasksTyped' /\ Moves({"send", "sent"})
    BY <1>1, <2>1, <2>2, OneMoves DEF Send, TypeOK
  <2>4. posts' \in Seq(Post)
    BY <1>1, <2>2, Appended DEF Send, TypeOK
  <2>5. ChatTyped'
    BY <1>1, <2>4 DEF Send, historyVars, TypeOK, ChatTyped
  <2> QED
    BY <2>3, <2>5, MovesMore DEF ChatMoves
<1>2. CASE AddParticipant(h)
  <2>1. task[h].target \in User /\ h \in Doing("add")
    BY <1>2, DoingFields DEF AddParticipant
  <2>2. TasksTyped' /\ Moves({"idle", "add"})
    BY <1>2, <2>1, EndMoves DEF AddParticipant
  <2>3. ChatTyped'
    BY <1>2, <2>1 DEF AddParticipant, TypeOK, ChatTyped
  <2> QED
    BY <2>2, <2>3, MovesMore DEF ChatMoves
<1>3. CASE RemoveParticipant(h)
  <2>1. task[h].target \in User /\ h \in Doing("remove")
    BY <1>3, DoingFields DEF RemoveParticipant
  <2>2. TasksTyped' /\ Moves({"idle", "remove"})
    BY <1>3, <2>1, EndMoves DEF RemoveParticipant
  <2>3. participants' \in [User -> Nat] /\ roles' \in [User -> {"owner", "admin", "member"}]
        /\ told' \in [User -> {"in", "out", "unclear"}]
    <3>1. CASE ~ Member(task[h].target) /\ UNCHANGED <<participants, roles, told>>
      BY <3>1 DEF TypeOK
    <3>2. CASE Member(task[h].target)
      <4>1. participants[task[h].target] - 1 \in Nat
        BY <2>1, <3>2 DEF Member, TypeOK
      <4>2. /\ participants' = [participants EXCEPT ![task[h].target] = @ - 1]
            /\ roles' = [roles EXCEPT ![task[h].target] = "member"]
            /\ \E what \in {"unclear", "out"} : told' = [told EXCEPT ![task[h].target] = what]
        BY <1>3, <3>2 DEF RemoveParticipant
      <4> QED
        BY <2>1, <4>1, <4>2 DEF TypeOK
    <3> QED
      BY <1>3, <3>1, <3>2 DEF RemoveParticipant
  <2>4. ChatTyped'
    BY <1>3, <2>3 DEF RemoveParticipant, TypeOK, ChatTyped
  <2> QED
    BY <2>2, <2>4, MovesMore DEF ChatMoves
<1>4. CASE SetRole(h)
  <2>1. PICK op \in {"admin", "member"} : h \in Doing(op)
    BY <1>4 DEF SetRole
  <2>2. task[h].target \in User /\ task[h].op = op
    BY <2>1, DoingFields
  <2>3. TasksTyped' /\ Moves({"idle", op})
    BY <1>4, <2>1, EndMoves DEF SetRole
  <2>4. ChatTyped'
    BY <1>4, <2>2 DEF SetRole, historyVars, TypeOK, ChatTyped
  <2> QED
    BY <2>3, <2>4, MovesMore DEF ChatMoves
<1>5. CASE DropUser(h)
  <2>1. task[h].user \in User /\ h \in Doing("walked")
    BY <1>5, DoingFields DEF DropUser
  <2>2. TasksTyped' /\ Moves({"idle", "walked"})
    BY <1>5, <2>1, EndMoves DEF DropUser
  <2>3. ChatTyped'
    BY <1>5, <2>1 DEF DropUser, TypeOK, ChatTyped
  <2> QED
    BY <2>2, <2>3, MovesMore DEF ChatMoves
<1> QED
  BY <1>1, <1>2, <1>3, <1>4, <1>5 DEF ChatSaves

LEMMA ChatGoesOnMoves == ASSUME TypeOK, NEW h \in Handler, ChatGoesOn(h) PROVE ChatMoves
<1> USE DEF ChatOps, AskOps, DeleteOps
<1>1. CASE DropSessions(h)
  <2>1. task[h].user \in User /\ Op(task[h]) = "confirmed"
    BY <1>1, DoingFields DEF DropSessions
  <2>2. PICK clean \in BOOLEAN :
            task' = [task EXCEPT ![h] = [op |-> "signed out", user |-> task[h].user, clean |-> clean]]
    BY <1>1 DEF DropSessions
  <2> DEFINE t == [op |-> "signed out", user |-> task[h].user, clean |-> clean]
  <2>3. t \in AnyTask /\ Op(t) = "signed out"
    BY <2>1, NoneIsNoRequest DEF AnyTask, Task, Op
  <2>4. TasksTyped' /\ Moves({"confirmed", "signed out"})
    BY <2>1, <2>2, <2>3, OneMoves
  <2>5. ChatTyped'
    BY <1>1 DEF DropSessions, historyVars, TypeOK, ChatTyped
  <2> QED
    BY <2>4, <2>5, MovesMore DEF ChatMoves
<1>2. CASE RebuildParticipants(h)
  <2>1. /\ task[h].user \in User /\ task[h].clean \in BOOLEAN /\ Op(task[h]) = "unlisted"
    BY <1>2, DoingFields DEF RebuildParticipants
  <2> DEFINE w == [op |-> "walked", user |-> task[h].user, clean |-> task[h].clean]
             r == [op |-> "rebuilt", user |-> task[h].user, clean |-> task[h].clean,
                   list |-> [participants EXCEPT ![task[h].user] = 0]]
  <2>2. /\ w \in AnyTask /\ Op(w) = "walked" /\ r \in AnyTask /\ Op(r) = "rebuilt"
    BY <2>1, NoneIsNoRequest DEF AnyTask, Task, Op, TypeOK
  <2>3. TasksTyped' /\ Moves({"unlisted", "walked", "rebuilt"})
    <3>1. CASE task' = [task EXCEPT ![h] = w]
      <4>1. TasksTyped' /\ Moves({Op(task[h]), Op(w)})
        BY <2>2, <3>1, OneMoves
      <4> QED
        BY <2>1, <2>2, <4>1, MovesMore
    <3>2. CASE task' = [task EXCEPT ![h] = r]
      <4>1. TasksTyped' /\ Moves({Op(task[h]), Op(r)})
        BY <2>2, <3>2, OneMoves
      <4> QED
        BY <2>1, <2>2, <4>1, MovesMore
    <3> QED
      BY <1>2, <3>1, <3>2 DEF RebuildParticipants
  <2>4. posts' \in Seq(Post)
    BY <1>2, <2>1, TombstonedTyped DEF RebuildParticipants, TypeOK
  <2>5. ChatTyped'
    BY <1>2, <2>4 DEF RebuildParticipants, historyVars, TypeOK, ChatTyped
  <2> QED
    BY <2>3, <2>5, MovesMore DEF ChatMoves
<1>3. CASE ReplaceParticipants(h)
  <2>1. /\ task[h].user \in User /\ task[h].clean \in BOOLEAN /\ Op(task[h]) = "rebuilt"
        /\ task[h].list \in [User -> Nat]
    BY <1>3, DoingFields DEF ReplaceParticipants
  <2> DEFINE w == [op |-> "walked", user |-> task[h].user, clean |-> task[h].clean]
  <2>2. w \in AnyTask /\ Op(w) = "walked"
    BY <2>1, NoneIsNoRequest DEF AnyTask, Task, Op
  <2>3. TasksTyped' /\ Moves({"rebuilt", "walked"})
    BY <1>3, <2>1, <2>2, OneMoves DEF ReplaceParticipants
  <2>4. posts' \in Seq(Post)
    BY <1>3, <2>1, TombstonedTyped DEF ReplaceParticipants, TypeOK
  <2>5. ChatTyped'
    BY <1>3, <2>1, <2>4 DEF ReplaceParticipants, TypeOK, ChatTyped
  <2> QED
    BY <2>3, <2>5, MovesMore DEF ChatMoves
<1> QED
  BY <1>1, <1>2, <1>3 DEF ChatGoesOn

LEMMA ChatStepMoves == ASSUME TypeOK, NEW h \in Handler, ChatStep(h) PROVE ChatMoves
  BY ChatAsksMoves, ChatSavesMoves, ChatGoesOnMoves DEF ChatStep

UploadMoves == TasksTyped' /\ ChatTyped' /\ UploadsTypeOK' /\ Moves(UploadOps \cup {"idle"})

LEMMA MarkedTyped ==
    ASSUME UploadsTypeOK, NEW i \in DOMAIN uploads
    PROVE  /\ DOMAIN Marked(i) = DOMAIN uploads
           /\ \A j \in DOMAIN uploads :
                /\ Marked(i)[j] \in Upload /\ Marked(i)[j].user = uploads[j].user
                /\ Marked(i)[j].next = uploads[j].next /\ Marked(i)[j].buffer = uploads[j].buffer
                /\ uploads[j].raced => Marked(i)[j].raced
                /\ OnUpload(j) # {} /\ j = i => Marked(i)[j].raced
  BY DEF UploadsTypeOK, Marked, Upload

LEMMA WithoutTyped ==
    ASSUME UploadsTypeOK, NEW i
    PROVE  /\ DOMAIN Without(i) = DOMAIN uploads \ {i}
           /\ \A j \in DOMAIN uploads \ {i} : Without(i)[j] = uploads[j] /\ uploads[j] \in Upload
  BY DEF UploadsTypeOK, Without

LEMMA AttachmentAppended ==
    ASSUME TypeOK, NEW a \in Attachment, attachments' = Append(attachments, a)
    PROVE  attachments' \in Seq(Attachment) /\ Len(attachments) + 1 \in Nat
  BY Appended DEF TypeOK, UploadsTypeOK

LEMMA ChatSame ==
    TypeOK /\ UNCHANGED <<users, participants, roles, posts, nextPost, told, gone, shared>>
        => ChatTyped'
  BY DEF TypeOK, ChatTyped

LEMMA UploadAsksMoves == ASSUME TypeOK, NEW h \in Handler, UploadAsks(h) PROVE UploadMoves
<1> USE DEF UploadOps
<1>0. UploadsTypeOK
  BY DEF TypeOK
<1>1. ASSUME NEW a \in User, AttachRequest(h, a) \/ BeginRequest(h, a) PROVE UploadMoves
  <2>1. PICK op \in {"attach", "begin"} : Starts(h, [op |-> op, user |-> a])
    BY <1>1 DEF AttachRequest, BeginRequest
  <2>2. [op |-> op, user |-> a] \in AnyTask
    BY <2>1 DEF AnyTask, UploadTask
  <2>3. TasksTyped' /\ Moves({"idle", op})
    BY <2>1, <2>2, StartMoves
  <2>4. ChatTyped'
    BY <1>1, ChatSame DEF AttachRequest, BeginRequest, historyVars
  <2>5. UploadsTypeOK'
    BY <1>0, <1>1 DEF AttachRequest, BeginRequest, uploadVars, UploadsTypeOK
  <2> QED
    BY <2>3, <2>4, <2>5, MovesMore DEF UploadMoves
<1>2. ASSUME NEW i \in DOMAIN uploads, NEW chunk \in 0 .. (Chunks - 1), ChunkRequest(h, i, chunk)
      PROVE  UploadMoves
  <2>1. uploads[i].user \in User /\ i \in Nat /\ chunk \in Nat
    BY <1>0, UploadsAssumption DEF UploadsTypeOK, Upload
  <2> DEFINE t == [op |-> "chunk", user |-> uploads[i].user, upload |-> i, chunk |-> chunk]
  <2>2. t \in AnyTask /\ t.op = "chunk"
    BY <2>1 DEF AnyTask, UploadTask
  <2>3. TasksTyped' /\ Moves({"idle", "chunk"})
    BY <1>2, <2>2, StartMoves DEF ChunkRequest
  <2>4. ChatTyped'
    BY <1>2, ChatSame DEF ChunkRequest, historyVars
  <2>5. UploadsTypeOK'
    BY <1>0, <1>2, MarkedTyped DEF ChunkRequest, UploadsTypeOK
  <2> QED
    BY <2>3, <2>4, <2>5, MovesMore DEF UploadMoves
<1>3. ASSUME NEW i \in DOMAIN uploads, CompleteRequest(h, i) PROVE UploadMoves
  <2>1. uploads[i].user \in User /\ i \in Nat /\ uploads[i].buffer \in Seq(Nat)
        /\ Marked(i)[i].raced \in BOOLEAN /\ nextPost \in Nat
    BY <1>0, MarkedTyped DEF UploadsTypeOK, Upload, TypeOK
  <2> DEFINE t == [op |-> "post", user |-> uploads[i].user, upload |-> i,
                   attachment |-> Len(attachments) + 1, id |-> nextPost]
             a == [user |-> uploads[i].user, content |-> uploads[i].buffer, upload |-> i,
                   raced |-> Marked(i)[i].raced]
  <2>2. a \in Attachment
    BY <2>1 DEF Attachment
  <2>3. attachments' \in Seq(Attachment) /\ Len(attachments) + 1 \in Nat
    <3>1. attachments' = Append(attachments, a)
      BY <1>3 DEF CompleteRequest
    <3> QED
      BY <2>2, <3>1, AttachmentAppended
  <2>4. t \in AnyTask /\ t.op = "post"
    BY <2>1, <2>3 DEF AnyTask, UploadTask
  <2>5. TasksTyped' /\ Moves({"idle", "post"})
    BY <1>3, <2>4, StartMoves DEF CompleteRequest
  <2>6. ChatTyped'
    BY <1>3 DEF CompleteRequest, TakesId, TypeOK, ChatTyped
  <2>7. UploadsTypeOK'
    BY <1>0, <1>3, <2>3, MarkedTyped DEF CompleteRequest, UploadsTypeOK
  <2> QED
    BY <2>5, <2>6, <2>7, MovesMore DEF UploadMoves
<1> QED
  BY <1>1, <1>2, <1>3 DEF UploadAsks

LEMMA UploadGoesOnMoves == ASSUME TypeOK, NEW h \in Handler, UploadGoesOn(h) PROVE UploadMoves
<1> USE DEF UploadOps
<1>0. UploadsTypeOK
  BY DEF TypeOK
<1>1. CASE InitUpload(h)
  <2>1. h \in Doing("begin") /\ task[h].user \in User
    BY <1>1, DoingFields DEF InitUpload
  <2>2. TasksTyped' /\ Moves({"idle", "begin"})
    BY <1>1, <2>1, EndMoves DEF InitUpload
  <2>3. ChatTyped'
    BY <1>1, ChatSame DEF InitUpload, historyVars
  <2>4. [user |-> task[h].user, next |-> 0, buffer |-> <<>>, raced |-> FALSE] \in Upload
    BY <2>1 DEF Upload
  <2>5. UploadsTypeOK'
    BY <1>0, <1>1, <2>4 DEF InitUpload, UploadsTypeOK
  <2> QED
    BY <2>2, <2>3, <2>5, MovesMore DEF UploadMoves
<1>2. CASE AcceptChunk(h)
  <2>1. h \in Doing("chunk") /\ task[h].chunk \in Nat
    BY <1>2, DoingFields DEF AcceptChunk
  <2>2. TasksTyped' /\ Moves({"idle", "chunk"})
    BY <1>2, <2>1, EndMoves DEF AcceptChunk
  <2>3. ChatTyped'
    BY <1>2, ChatSame DEF AcceptChunk, historyVars
  <2>4. ASSUME NEW i \in DOMAIN uploads
        PROVE  [uploads[i] EXCEPT !.buffer = Append(@, task[h].chunk), !.next = @ + 1] \in Upload
    <3>1. uploads[i] \in Upload
      BY <1>0 DEF UploadsTypeOK
    <3>2. Append(uploads[i].buffer, task[h].chunk) \in Seq(Nat) /\ uploads[i].next + 1 \in Nat
      BY <2>1, <3>1, Appended DEF Upload
    <3> QED
      BY <3>1, <3>2 DEF Upload
  <2>5. UploadsTypeOK'
    BY <1>0, <1>2, <2>4 DEF AcceptChunk, UploadsTypeOK
  <2> QED
    BY <2>2, <2>3, <2>5, MovesMore DEF UploadMoves
<1>3. CASE ReleaseUpload(h)
  <2>1. TasksTyped' /\ Moves({"idle", "release"})
    BY <1>3, EndMoves DEF ReleaseUpload
  <2>2. ChatTyped'
    BY <1>3, ChatSame DEF ReleaseUpload, historyVars
  <2>3. UploadsTypeOK'
    BY <1>0, <1>3, WithoutTyped DEF ReleaseUpload, UploadsTypeOK
  <2> QED
    BY <2>1, <2>2, <2>3, MovesMore DEF UploadMoves
<1> QED
  BY <1>1, <1>2, <1>3 DEF UploadGoesOn

LEMMA UploadSavesMoves ==
    ASSUME TypeOK, NEW h \in Handler, PostAttachment(h) \/ SendAttachment(h) PROVE UploadMoves
<1> USE DEF UploadOps
<1>0. UploadsTypeOK
  BY DEF TypeOK
<1>1. CASE PostAttachment(h)
  <2>1. /\ h \in Doing("post") /\ Op(task[h]) = "post" /\ task[h].user \in User
        /\ task[h].upload \in Nat /\ task[h].attachment \in Nat /\ task[h].id \in Nat
    BY <1>1, DoingFields DEF PostAttachment
  <2> DEFINE t == [op |-> "release", user |-> task[h].user, upload |-> task[h].upload]
             p == [id |-> task[h].id, sender |-> task[h].user, attachment |-> task[h].attachment]
  <2>2. t \in AnyTask /\ Op(t) = "release" /\ p \in Post
    BY <2>1, NoneIsNoRequest DEF AnyTask, UploadTask, Op, Post
  <2>3. TasksTyped' /\ Moves({"post", "release", "idle"})
    <3>1. CASE task' = [task EXCEPT ![h] = t]
      <4>1. TasksTyped' /\ Moves({Op(task[h]), Op(t)})
        BY <2>2, <3>1, OneMoves
      <4> QED
        BY <2>1, <2>2, <4>1, MovesMore
    <3>2. CASE Ends(h)
      <4>1. TasksTyped' /\ Moves({"idle", "post"})
        BY <2>1, <3>2, EndMoves
      <4> QED
        BY <4>1, MovesMore
    <3> QED
      BY <1>1, <3>1, <3>2 DEF PostAttachment
  <2>4. posts' \in Seq(Post)
    <3>1. posts' = posts \/ posts' = Append(posts, p)
      BY <1>1 DEF PostAttachment
    <3>2. Append(posts, p) \in Seq(Post)
      BY <2>2, Appended DEF TypeOK
    <3> QED
      BY <3>1, <3>2 DEF TypeOK
  <2>5. ChatTyped' /\ UploadsTypeOK'
    BY <1>0, <1>1, <2>4 DEF PostAttachment, historyVars, uploadVars, TypeOK, ChatTyped,
                            UploadsTypeOK
  <2> QED
    BY <2>3, <2>5, MovesMore DEF UploadMoves
<1>2. CASE SendAttachment(h)
  <2>1. h \in Doing("attach") /\ task[h].user \in User
    BY <1>2, DoingFields DEF SendAttachment
  <2>2. TasksTyped' /\ Moves({"idle", "attach"})
    BY <1>2, <2>1, EndMoves DEF SendAttachment
  <2> DEFINE a == [user |-> task[h].user, content |-> File, upload |-> 0, raced |-> FALSE]
             p == [id |-> nextPost, sender |-> task[h].user, attachment |-> Len(attachments) + 1]
  <2>3. File \in Seq(Nat)
    BY UploadsAssumption DEF File
  <2>4. a \in Attachment
    BY <2>1, <2>3 DEF Attachment
  <2>5. attachments' \in Seq(Attachment) /\ Len(attachments) + 1 \in Nat
    <3>1. attachments' = Append(attachments, a)
      BY <1>2 DEF SendAttachment
    <3> QED
      BY <2>4, <3>1, AttachmentAppended
  <2>6. p \in Post
    BY <2>1, <2>5 DEF Post, TypeOK
  <2>7. posts' \in Seq(Post)
    BY <1>2, <2>6, Appended DEF SendAttachment, TypeOK
  <2>8. ChatTyped' /\ UploadsTypeOK'
    BY <1>0, <1>2, <2>5, <2>7 DEF SendAttachment, TakesId, TypeOK, ChatTyped, UploadsTypeOK
  <2> QED
    BY <2>2, <2>8, MovesMore DEF UploadMoves
<1> QED
  BY <1>1, <1>2

LEMMA UploadStepMoves == ASSUME TypeOK, NEW h \in Handler, UploadStep(h) PROVE UploadMoves
  BY UploadAsksMoves, UploadGoesOnMoves, UploadSavesMoves DEF UploadStep

--------------------------------------------------------------------------------
(* The poll *)

\* One handler at most creates the poll, what is in flight is about a poll that exists,
\* and once a result was told the poll is closed and no vote is being counted.
PollInv ==
    /\ newest.poll = poll
    /\ \A h \in Handler :
        /\ Op(task[h]) = "poll" => /\ poll = None
                                   /\ \A other \in Handler \ {h} : Op(task[other]) # "poll"
        /\ Op(task[h]) \in {"vote", "close", "announce"} => poll # None
        /\ Op(task[h]) = "announce" => poll.closed
        /\ Op(task[h]) = "vote" => announced = None
    /\ announced # None => poll # None /\ poll.closed /\ poll.votes = announced

\* The others leave it alone.
LEMMA PollUnchanged ==
    ASSUME TypeOK, PollInv, Moves((ChatOps \cup UploadOps \cup PersonalOps) \cup {"idle"}),
           UNCHANGED pollVars, newest' \in {newest, Snapshot'}
    PROVE  PollInv'
<1>1. newest'.poll = poll
  BY DEF Snapshot, PollInv, pollVars
<1>2. \A h \in Handler : Op(task'[h]) \in PollOps \/ Op(task[h]) \in PollOps
                            => task'[h] = task[h]
  BY DEF Moves, ChatOps, UploadOps, PersonalOps, PollOps, AskOps, DeleteOps
<1> QED
  BY <1>1, <1>2 DEF PollInv, PollOps, pollVars

PollMoves == TasksTyped' /\ ChatTyped' /\ PollsTypeOK' /\ Moves(PollOps \cup {"idle"}) /\ PollInv'

LEMMA PollSame == PollsTypeOK /\ UNCHANGED pollVars => PollsTypeOK'
  BY DEF PollsTypeOK, pollVars

LEMMA PollAsksMoves == ASSUME TypeOK, PollInv, NEW h \in Handler, PollAsks(h), newest' = newest PROVE PollMoves
<1> USE DEF PollOps
<1>0. PollsTypeOK
  BY DEF TypeOK
<1>1. ASSUME NEW a \in User, CreateRequest(h, a) PROVE PollMoves
  <2> DEFINE t == [op |-> "poll", user |-> a]
  <2>1. t \in AnyTask /\ t.op = "poll"
    BY DEF AnyTask, PollTask
  <2>2. TasksTyped' /\ Moves({"idle", "poll"}) /\ Becomes(h, "idle", "poll")
    BY <1>1, <2>1, StartMoves DEF CreateRequest
  <2>3. ChatTyped' /\ PollsTypeOK'
    BY <1>0, <1>1, ChatSame, PollSame DEF CreateRequest, historyVars
  <2>4. \A g \in Handler : Op(task[g]) # "poll"
    BY <1>1, DoingIsOp DEF CreateRequest
  <2>5. poll = None /\ UNCHANGED pollVars
    BY <1>1 DEF CreateRequest
  <2>6. PollInv'
    BY <2>2, <2>4, <2>5 DEF PollInv, Becomes, pollVars
  <2> QED
    BY <2>2, <2>3, <2>6, MovesMore DEF PollMoves
<1>2. ASSUME NEW a \in User, CloseRequest(h, a) PROVE PollMoves
  <2> DEFINE t == [op |-> "close", user |-> a]
  <2>1. t \in AnyTask /\ t.op = "close"
    BY DEF AnyTask, PollTask
  <2>2. TasksTyped' /\ Moves({"idle", "close"}) /\ Becomes(h, "idle", "close")
    BY <1>2, <2>1, StartMoves DEF CloseRequest
  <2>3. ChatTyped' /\ PollsTypeOK'
    BY <1>0, <1>2, ChatSame, PollSame DEF CloseRequest, historyVars
  <2>4. poll # None /\ UNCHANGED pollVars
    BY <1>2 DEF CloseRequest
  <2>5. PollInv'
    BY <2>2, <2>4 DEF PollInv, Becomes, pollVars
  <2> QED
    BY <2>2, <2>3, <2>5, MovesMore DEF PollMoves
<1>3. ASSUME NEW a \in User, NEW option \in Option, VoteRequest(h, a, option) PROVE PollMoves
  <2> DEFINE t == [op |-> "vote", user |-> a, option |-> option]
  <2>1. t \in AnyTask /\ t.op = "vote"
    BY DEF AnyTask, PollTask
  <2>2. TasksTyped' /\ Moves({"idle", "vote"}) /\ Becomes(h, "idle", "vote")
    BY <1>3, <2>1, StartMoves DEF VoteRequest
  <2>3. ChatTyped' /\ PollsTypeOK'
    BY <1>0, <1>3, ChatSame, PollSame DEF VoteRequest, historyVars
  <2>4. poll # None /\ ~ poll.closed /\ UNCHANGED pollVars
    BY <1>3 DEF VoteRequest, MayVote
  <2>5. PollInv'
    BY <2>2, <2>4 DEF PollInv, Becomes, pollVars
  <2> QED
    BY <2>2, <2>3, <2>5, MovesMore DEF PollMoves
<1> QED
  BY <1>1, <1>2, <1>3 DEF PollAsks

LEMMA PollServedMoves ==
    ASSUME TypeOK, PollInv, NEW h \in Handler,
           \/ AnnounceResult(h) /\ newest' = newest
           \/ (CreatePoll(h) \/ CountVote(h) \/ ClosePoll(h)) /\ newest' = Snapshot'
    PROVE  PollMoves
<1> USE DEF PollOps
<1>0. PollsTypeOK
  BY DEF TypeOK
<1>1. CASE CreatePoll(h) /\ newest' = Snapshot'
  <2>1. h \in Doing("poll") /\ task[h].user \in User
    BY <1>1, DoingFields DEF CreatePoll
  <2> DEFINE p == [id |-> PollId, sender |-> task[h].user, attachment |-> 0]
             new == [post |-> Len(posts) + 1, closed |-> FALSE, votes |-> [u \in User |-> None]]
  <2>2. p \in Post /\ new \in Poll
    BY <2>1 DEF Post, PollId, Poll, Votes, TypeOK
  <2>3. Append(posts, p) \in Seq(Post) /\ posts' = Append(posts, p)
    BY <1>1, <2>2, Appended DEF CreatePoll, TypeOK
  <2>4. poll' = new /\ announced' = announced
    BY <1>1 DEF CreatePoll
  <2>5. ChatTyped' /\ PollsTypeOK'
    BY <1>0, <1>1, <2>2, <2>3, <2>4 DEF CreatePoll, historyVars, TypeOK, ChatTyped, PollsTypeOK
  <2>6. TasksTyped' /\ Moves({"idle", "poll"}) /\ Becomes(h, "poll", "idle")
    BY <1>1, EndMoves DEF CreatePoll
  <2>7. PollInv'
    <3>1. newest'.poll = poll'
      BY <1>1 DEF Snapshot
    <3>2. poll = None /\ announced = None /\ \A g \in Handler : Op(task'[g]) \notin PollOps
      BY <2>1, <2>6, DoingIsOp DEF Becomes, PollInv
    <3>3. poll' # None
      BY <2>2, <2>4, GroupsAssumption
    <3> QED
      BY <2>4, <3>1, <3>2, <3>3 DEF PollInv
  <2> QED
    BY <2>5, <2>6, <2>7, MovesMore DEF PollMoves
<1>2. CASE CountVote(h) /\ newest' = Snapshot'
  <2>1. h \in Doing("vote") /\ task[h].user \in User /\ task[h].option \in Option
    BY <1>2, DoingFields DEF CountVote
  <2>2. TasksTyped' /\ Moves({"idle", "vote"}) /\ Becomes(h, "vote", "idle")
    BY <1>2, EndMoves DEF CountVote
  <2>3. poll \in Poll /\ announced = None /\ announced' = None
    BY <1>0, <1>2, <2>1, DoingIsOp DEF PollInv, CountVote, PollsTypeOK
  <2>4. poll' \in Poll /\ poll'.closed = poll.closed
    BY <1>2, <2>1, <2>3 DEF CountVote, Poll, Votes
  <2>5. ChatTyped' /\ PollsTypeOK'
    BY <1>2, <2>3, <2>4, ChatSame DEF CountVote, historyVars, PollsTypeOK
  <2>6. poll # None /\ poll' # None
    BY <2>3, <2>4, GroupsAssumption
  <2>7. newest'.poll = poll'
    BY <1>2 DEF Snapshot
  <2>8. PollInv'
    BY <2>2, <2>3, <2>4, <2>6, <2>7 DEF PollInv, Becomes
  <2> QED
    BY <2>2, <2>5, <2>8, MovesMore DEF PollMoves
<1>3. CASE ClosePoll(h) /\ newest' = Snapshot'
  <2>1. h \in Doing("close") /\ task[h].user \in User
    BY <1>3, DoingFields DEF ClosePoll
  <2> DEFINE t == [task[h] EXCEPT !.op = "announce"]
  <2>2. t \in AnyTask /\ Op(t) = "announce" /\ Op(task[h]) = "close"
    <3>1. task[h] \in [op : {"poll", "close", "announce"}, user : User]
      BY <2>1, DoingFields
         DEF AnyTask, Task, UploadTask, PollTask, PersonalTask
    <3>2. t \in [op : {"poll", "close", "announce"}, user : User] /\ t.op = "announce"
      BY <3>1
    <3>3. t \in AnyTask
      BY <3>2 DEF AnyTask, PollTask
    <3> QED
      BY <2>1, <3>2, <3>3, NoneIsNoRequest, DoingIsOp DEF Op
  <2>3. TasksTyped' /\ Moves({"close", "announce"}) /\ Becomes(h, "close", "announce")
    <3>1. task' = [task EXCEPT ![h] = t]
      BY <1>3, <2>1 DEF ClosePoll, TypeOK
    <3> HIDE DEF t
    <3> QED
      BY <2>2, <3>1, OneMoves
  <2>4. poll \in Poll /\ announced' = announced
    BY <1>0, <1>3, <2>1, DoingIsOp DEF PollInv, ClosePoll, PollsTypeOK
  <2>5. poll' \in Poll /\ poll'.closed /\ poll'.votes = poll.votes
    BY <1>3, <2>4 DEF ClosePoll, Poll
  <2>6. ChatTyped' /\ PollsTypeOK'
    BY <1>0, <1>3, <2>4, <2>5, ChatSame DEF ClosePoll, historyVars, PollsTypeOK
  <2>7. poll # None /\ poll' # None
    BY <2>4, <2>5, GroupsAssumption
  <2>8. newest'.poll = poll'
    BY <1>3 DEF Snapshot
  <2>9. PollInv'
    BY <2>3, <2>4, <2>5, <2>7, <2>8 DEF PollInv, Becomes
  <2> QED
    BY <2>3, <2>6, <2>9, MovesMore DEF PollMoves
<1>4. CASE AnnounceResult(h) /\ newest' = newest
  <2>1. h \in Doing("announce")
    BY <1>4 DEF AnnounceResult
  <2>2. TasksTyped' /\ Moves({"idle", "announce"}) /\ Becomes(h, "announce", "idle")
    BY <1>4, <2>1, EndMoves DEF AnnounceResult
  <2>3. poll \in Poll /\ poll # None /\ poll.closed /\ poll' = poll
    BY <1>0, <1>4, <2>1, DoingIsOp DEF PollInv, AnnounceResult, PollsTypeOK
  <2>4. ChatTyped' /\ PollsTypeOK'
    BY <1>0, <1>4, <2>3, ChatSame DEF AnnounceResult, historyVars, PollsTypeOK, Poll
  <2>5. CASE Doing("vote") = {}
    <3>1. announced' = poll.votes /\ \A g \in Handler : Op(task[g]) # "vote"
      BY <1>4, <2>5, DoingIsOp DEF AnnounceResult
    <3>2. PollInv'
      BY <1>4, <2>2, <2>3, <3>1 DEF PollInv, Becomes
    <3> QED
      BY <2>2, <2>4, <3>2, MovesMore DEF PollMoves
  <2>6. CASE Doing("vote") # {}
    <3>1. announced' = announced
      BY <1>4, <2>6 DEF AnnounceResult
    <3>2. PollInv'
      BY <1>4, <2>2, <2>3, <3>1 DEF PollInv, Becomes
    <3> QED
      BY <2>2, <2>4, <3>2, MovesMore DEF PollMoves
  <2> QED
    BY <2>5, <2>6
<1> QED
  BY <1>1, <1>2, <1>3, <1>4

LEMMA PollStepMoves == ASSUME TypeOK, PollInv, NEW h \in Handler, PollStep(h) PROVE PollMoves
  BY PollAsksMoves, PollServedMoves DEF PollStep

--------------------------------------------------------------------------------
(* Types of what is kept for a user *)

\* A deletion in flight is found not to be alone with what it deletes.
Spoilt(g) == Op(task[g]) \in Forgetting /\ task'[g] = [task[g] EXCEPT !.clean = FALSE]

PersonalMoves ==
    /\ TasksTyped' /\ ChatTyped' /\ PersonalTypeOK'
    /\ \A g \in Handler : task'[g] # task[g] =>
        \/ Spoilt(g)
        \/ /\ Op(task[g]) \in PersonalOps \cup {"idle", "sent", "signed out"}
           /\ Op(task'[g]) \in PersonalOps \cup {"idle", "unlisted"}

\* One request alone moves.
LEMMA PersonalMovesOne ==
    ASSUME NEW h \in Handler, NEW old \in PersonalOps \cup {"idle", "sent", "signed out"},
           NEW new \in PersonalOps \cup {"idle", "unlisted"}, Becomes(h, old, new),
           TasksTyped', ChatTyped', PersonalTypeOK'
    PROVE  PersonalMoves
  BY DEF PersonalMoves, Becomes

LEMMA ConversationSame == TypeOK /\ UNCHANGED conversationVars => ChatTyped'
  BY ChatSame DEF conversationVars, historyVars

LEMMA AliasItem == \A item \in Contact : item[2] \in User /\ <<"alias", item[2]>> \in Item
  BY DEF Item, Contact, Alias

LEMMA SpoiltTyped ==
    ASSUME TypeOK, NEW g \in Handler, Op(task[g]) \in Forgetting
    PROVE  /\ [task[g] EXCEPT !.clean = FALSE] \in AnyTask
           /\ [task[g] EXCEPT !.clean = FALSE].op = task[g].op
<1>1. task[g] # None /\ task[g].op \in Forgetting
  BY DEF Op, Forgetting
<1>2. task[g] \in AnyTask
  BY <1>1, TaskFields
<1>3. \/ task[g] \in [op : {"signed out", "unlisted", "walked"}, user : User, clean : BOOLEAN]
      \/ task[g] \in [op : {"rebuilt"}, user : User, clean : BOOLEAN, list : [User -> Nat]]
      \/ task[g] \in [op : {"listed"}, user : User, clean : BOOLEAN, owners : SUBSET User,
                      lists : [User -> [Contact -> Nat]]]
  BY <1>1, <1>2 DEF AnyTask, Task, UploadTask, PollTask, PersonalTask, Forgetting
<1> QED
  BY <1>3 DEF AnyTask, Task, PersonalTask

LEMMA PersonalAsksMoves ==
    ASSUME TypeOK, NEW h \in Handler, PersonalAsks(h) PROVE PersonalMoves
<1> USE DEF PersonalOps
<1>0. PersonalTypeOK
  BY DEF TypeOK
<1>1. ASSUME NEW a \in User, NEW item \in Item, DropRequest(h, a, item) PROVE PersonalMoves
  <2> DEFINE t == [op |-> "drop", user |-> a, item |-> item]
  <2>1. t \in AnyTask /\ t.op = "drop"
    BY DEF AnyTask, PersonalTask
  <2>2. TasksTyped' /\ Becomes(h, "idle", "drop")
    BY <1>1, <2>1, StartMoves DEF DropRequest
  <2>3. ChatTyped' /\ PersonalTypeOK'
    BY <1>0, <1>1, ConversationSame DEF DropRequest, personalVars, PersonalTypeOK
  <2> QED
    BY <2>2, <2>3, PersonalMovesOne
<1>2. ASSUME NEW a \in User, NEW item \in Item, KeepRequest(h, a, item) PROVE PersonalMoves
  <2> DEFINE t == [op |-> "keep", user |-> a, item |-> item]
  <2>1. t \in AnyTask /\ Op(t) = "keep" /\ Op(task[h]) = "idle"
    BY <1>2, NoneIsNoRequest DEF AnyTask, PersonalTask, Op, KeepRequest
  <2>2. task'[h] = t /\ DOMAIN task' = Handler /\ task' = [g \in Handler |-> task'[g]]
    BY <1>2 DEF KeepRequest
  <2>3. ASSUME NEW g \in Handler, task'[g] # task[g], g # h PROVE Spoilt(g)
    BY <1>2, <2>3 DEF KeepRequest, Entered, Spoilt, Busy, Op
  <2>4. ASSUME NEW g \in Handler PROVE task'[g] \in AnyTask \cup {None}
    <3>1. CASE g = h
      BY <2>1, <2>2, <3>1
    <3>2. CASE task'[g] = task[g]
      BY <3>2 DEF TypeOK, AnyTask
    <3>3. CASE g # h /\ task'[g] # task[g]
      <4>1. Op(task[g]) \in Forgetting /\ task'[g] = [task[g] EXCEPT !.clean = FALSE]
        BY <2>3, <3>3 DEF Spoilt
      <4> QED
        BY <4>1, SpoiltTyped
    <3> QED
      BY <3>1, <3>2, <3>3
  <2>5. TasksTyped'
    BY <2>2, <2>4 DEF TasksTyped
  <2>6. ChatTyped' /\ PersonalTypeOK'
    BY <1>0, <1>2, ConversationSame DEF KeepRequest, personalVars, PersonalTypeOK
  <2> QED
    BY <2>1, <2>2, <2>3, <2>5, <2>6 DEF PersonalMoves
<1>3. ASSUME NEW a \in User, NEW op \in {"register", "unregister"}, NEW item \in Tokens,
             TokenRequest(h, op, a, item)
      PROVE  PersonalMoves
  <2>1. PICK lists \in [User -> [Tokens -> Nat]] :
            Starts(h, [op |-> op, user |-> a, item |-> item, lists |-> lists])
    <3>1. TokenLists \in [User -> [Tokens -> Nat]]
      BY <1>0 DEF TokenLists, PersonalTypeOK, Item
    <3>2. [TokenLists EXCEPT ![a] = [i \in Tokens |->
                        IF op = "register" \/ i = item THEN 0 ELSE @[i]]]
            \in [User -> [Tokens -> Nat]]
      BY <3>1
    <3> QED
      BY <1>3, <3>2 DEF TokenRequest
  <2> DEFINE t == [op |-> op, user |-> a, item |-> item, lists |-> lists]
  <2>2. t \in AnyTask /\ t.op = op
    BY DEF AnyTask, PersonalTask
  <2>3. TasksTyped' /\ Becomes(h, "idle", op)
    BY <2>1, <2>2, StartMoves
  <2>4. ChatTyped' /\ PersonalTypeOK'
    BY <1>0, <1>3, ConversationSame DEF TokenRequest, personalVars, PersonalTypeOK
  <2> QED
    BY <2>3, <2>4, PersonalMovesOne
<1> QED
  BY <1>1, <1>2, <1>3 DEF PersonalAsks

What == {"in", "out", "unclear"}

LEMMA ToldIsWhat == \A h, a, item : \A what \in What : Told(h, a, item, what) \in What
  BY DEF Told, What

LEMMA PersonalTyped == PersonalTypeOK <=> /\ kept \in [User -> [Item -> Nat]]
                                          /\ answered \in [User -> [Item -> What]]
  BY DEF PersonalTypeOK, What

LEMMA PersonalTypedNext ==
    kept' \in [User -> [Item -> Nat]] /\ answered' \in [User -> [Item -> What]] => PersonalTypeOK'
  BY DEF PersonalTypeOK, What

LEMMA ReplacedTyped ==
    ASSUME PersonalTypeOK, NEW lists \in [User -> [Tokens -> Nat]]
    PROVE  Replaced(lists) \in [User -> [Item -> Nat]]
  BY PersonalTyped DEF Replaced

LEMMA OneAnswered ==
    ASSUME PersonalTypeOK, NEW a \in User, NEW item \in Item, NEW n \in Nat, NEW what \in What
    PROVE  /\ [kept EXCEPT ![a][item] = n] \in [User -> [Item -> Nat]]
           /\ [answered EXCEPT ![a][item] = what] \in [User -> [Item -> What]]
<1>1. kept[a] \in [Item -> Nat] /\ answered[a] \in [Item -> What]
  BY PersonalTyped
<1>2. [kept[a] EXCEPT ![item] = n] \in [Item -> Nat]
      /\ [answered[a] EXCEPT ![item] = what] \in [Item -> What]
  BY <1>1
<1> QED
  BY <1>2, PersonalTyped

LEMMA UserAnswered ==
    ASSUME PersonalTypeOK, NEW a \in User, NEW f \in [Item -> What]
    PROVE  [answered EXCEPT ![a] = f] \in [User -> [Item -> What]]
  BY PersonalTyped

LEMMA UserKept ==
    ASSUME PersonalTypeOK, NEW a \in User, NEW f \in [Item -> Nat]
    PROVE  [kept EXCEPT ![a] = f] \in [User -> [Item -> Nat]]
  BY PersonalTyped

LEMMA KeepIsKeeps ==
    ASSUME TypeOK, NEW h, Keep(h)
    PROVE  \E count \in Nat \ {0} : Keeps(h, Item, count) /\ h \in Doing("keep")
<1>1. ASSUME NEW items \in SUBSET Item, NEW count, Keeps(h, items, count)
      PROVE  Keeps(h, Item, count) /\ h \in Doing("keep")
  BY <1>1 DEF Keeps
<1>2. CASE AddContact(h)
  <2>1. h \in Doing("keep") /\ Keeps(h, Item, kept[task[h].user][task[h].item] + 1)
    BY <1>1, <1>2, ContactItems DEF AddContact
  <2>2. task[h].user \in User /\ task[h].item \in Item
    BY <2>1, DoingFields
  <2>3. kept[task[h].user][task[h].item] \in Nat
    BY <2>2 DEF TypeOK, PersonalTypeOK
  <2> QED
    BY <2>1, <2>3
<1>3. CASE NameContact(h) \/ Block(h) \/ SaveDraft(h) \/ SetFlag(h) \/ Mute(h)
  BY <1>1, <1>3, ContactItems DEF NameContact, Block, SaveDraft, SetFlag, Mute
<1> QED
  BY <1>2, <1>3 DEF Keep

LEMMA PersonalSavesMoves ==
    ASSUME TypeOK, NEW h \in Handler, PersonalSaves(h) PROVE PersonalMoves
<1> USE DEF PersonalOps
<1>0. PersonalTypeOK
  BY DEF TypeOK
<1>1. CASE Keep(h)
  <2>1. PICK count \in Nat \ {0} : Keeps(h, Item, count) /\ h \in Doing("keep")
    BY <1>1, KeepIsKeeps
  <2>2. task[h].user \in User /\ task[h].item \in Item
    BY <2>1, DoingFields
  <2>3. TasksTyped' /\ Becomes(h, "keep", "idle")
    BY <2>1, EndMoves DEF Keeps
  <2>4. PICK what \in What : answered' = [answered EXCEPT ![task[h].user][task[h].item] = what]
    BY <2>1 DEF Keeps, Told, What
  <2>5. PersonalTypeOK'
    BY <1>0, <2>1, <2>2, <2>4, OneAnswered, PersonalTypedNext DEF Keeps
  <2> QED
    BY <2>1, <2>3, <2>5, ConversationSame, PersonalMovesOne DEF Keeps
<1>2. CASE Drop(h)
  <2>1. h \in Doing("drop") /\ task[h].user \in User /\ task[h].item \in Item
    BY <1>2, DoingFields DEF Drop
  <2>2. TasksTyped' /\ Becomes(h, "drop", "idle")
    BY <1>2, EndMoves DEF Drop
  <2>3. PersonalTypeOK'
    <3>1. CASE ~ Has(task[h].user, task[h].item)
      BY <1>0, <1>2, <3>1 DEF Drop, personalVars, PersonalTypeOK
    <3>2. CASE Has(task[h].user, task[h].item)
      <4> DEFINE a == task[h].user
                 item == task[h].item
                 alias == <<"alias", item[2]>>
                 both == IF item \in Contact THEN {item, alias} ELSE {item}
                 k == [i \in Item |-> IF i = item THEN kept[a][i] - 1
                                      ELSE IF i \in both THEN 0 ELSE kept[a][i]]
                 w == [i \in Item |->
                        IF i \notin both
                            \/ (i = item /\ answered[a][i] = "unclear" /\ i \in Contact)
                        THEN answered[a][i] ELSE Told(h, a, i, "out")]
      <4>1. kept[a] \in [Item -> Nat] /\ answered[a] \in [Item -> What]
            /\ kept[a][item] - 1 \in Nat
        BY <1>0, <2>1, <3>2, PersonalTyped DEF Has
      <4>2. k \in [Item -> Nat]
        BY <4>1
      <4>3. w \in [Item -> What]
        BY <4>1, ToldIsWhat DEF What
      <4>4. kept' = [kept EXCEPT ![a] = k] /\ answered' = [answered EXCEPT ![a] = w]
        BY <1>0, <1>2, <2>1, <3>2, PersonalTyped DEF Drop
      <4> HIDE DEF k, w
      <4> QED
        BY <1>0, <2>1, <4>2, <4>3, <4>4, UserKept, UserAnswered, PersonalTypedNext
    <3> QED
      BY <3>1, <3>2
  <2> QED
    BY <1>2, <2>2, <2>3, ConversationSame, PersonalMovesOne DEF Drop
<1>3. CASE KeepNowhere(h)
  <2>1. PICK op \in {"lost keep", "lost drop"} : h \in Doing(op)
    BY <1>3 DEF KeepNowhere
  <2>2. task[h].user \in User
    BY <2>1, DoingFields
  <2>3. TasksTyped' /\ Becomes(h, op, "idle")
    BY <1>3, <2>1, EndMoves DEF KeepNowhere
  <2> DEFINE a == task[h].user
             item == task[h].item
             clear == IF task[h].op = "lost drop" THEN {<<"alias", item[2]>>} ELSE {}
             k == [i \in Item |-> IF i \in clear THEN 0 ELSE kept[a][i]]
             w == [i \in Item |-> IF i = item THEN "unclear"
                                  ELSE IF i \in clear THEN "out" ELSE answered[a][i]]
  <2>4. k \in [Item -> Nat] /\ w \in [Item -> What]
    BY <1>0, <2>2, PersonalTyped DEF What
  <2>5. kept' = [kept EXCEPT ![a] = k] /\ answered' = [answered EXCEPT ![a] = w]
    BY <1>0, <1>3, <2>2, PersonalTyped DEF KeepNowhere
  <2>6. PersonalTypeOK'
    <3> HIDE DEF k, w
    <3> QED
      BY <1>0, <2>2, <2>4, <2>5, UserKept, UserAnswered, PersonalTypedNext
  <2> QED
    BY <1>3, <2>3, <2>6, ConversationSame, PersonalMovesOne DEF KeepNowhere
<1>4. CASE AppendToken(h)
  <2>1. h \in Doing("append") /\ task[h].user \in User /\ task[h].item \in Item
    BY <1>4, DoingFields, ContactItems DEF AppendToken
  <2>2. TasksTyped' /\ Becomes(h, "append", "idle")
    BY <1>4, EndMoves DEF AppendToken
  <2>3. kept[task[h].user][task[h].item] + 1 \in Nat
    BY <1>0, <2>1, PersonalTyped
  <2>4. PICK what \in What : answered' = [answered EXCEPT ![task[h].user][task[h].item] = what]
    BY <1>4 DEF AppendToken, Told, What
  <2>5. kept' = [kept EXCEPT ![task[h].user][task[h].item]
                    = kept[task[h].user][task[h].item] + 1]
    BY <1>0, <1>4, <2>1, PersonalTyped DEF AppendToken
  <2>6. PersonalTypeOK'
    BY <1>0, <2>1, <2>3, <2>4, <2>5, OneAnswered, PersonalTypedNext
  <2> QED
    BY <1>4, <2>2, <2>6, ConversationSame, PersonalMovesOne DEF AppendToken
<1> QED
  BY <1>1, <1>2, <1>3, <1>4 DEF PersonalSaves

LEMMA ClearsMoves == ASSUME TypeOK, NEW h \in Handler, Clears(h) PROVE PersonalMoves
<1> USE DEF PersonalOps
<1>0. PersonalTypeOK
  BY DEF TypeOK
<1>1. CASE ClearDraft(h)
  <2>1. h \in Doing("sent") /\ task[h].user \in User /\ <<"draft", None>> \in Item
    BY <1>1, DoingFields, ContactItems DEF ClearDraft
  <2>2. TasksTyped' /\ Becomes(h, "sent", "idle")
    BY <1>1, EndMoves DEF ClearDraft
  <2>3. PersonalTypeOK'
    BY <1>0, <1>1, <2>1, OneAnswered, PersonalTypedNext DEF ClearDraft, What
  <2> QED
    BY <1>1, <2>2, <2>3, ConversationSame, PersonalMovesOne DEF ClearDraft
<1>2. CASE Unregister(h)
  <2>1. h \in Doing("unregister") /\ task[h].user \in User /\ task[h].item \in Item
        /\ task[h].lists \in [User -> [Tokens -> Nat]]
    BY <1>2, DoingFields, ContactItems DEF Unregister
  <2>2. TasksTyped' /\ Becomes(h, "unregister", "idle")
    BY <1>2, EndMoves DEF Unregister
  <2>3. PICK what \in What : answered' = [answered EXCEPT ![task[h].user][task[h].item] = what]
    BY <1>2 DEF Unregister, Told, What
  <2>4. PersonalTypeOK'
    BY <1>0, <1>2, <2>1, <2>3, ReplacedTyped, OneAnswered, PersonalTypedNext DEF Unregister
  <2> QED
    BY <1>2, <2>2, <2>4, ConversationSame, PersonalMovesOne DEF Unregister
<1> QED
  BY <1>1, <1>2 DEF Clears

LEMMA LostTyped ==
    ASSUME TypeOK, NEW owners, NEW g \in Handler, Lost(owners, g) # task[g]
    PROVE  /\ Op(task[g]) \in {"keep", "drop"} /\ Lost(owners, g) \in AnyTask
           /\ Lost(owners, g) = [task[g] EXCEPT !.op = IF @ = "keep" THEN "lost keep" ELSE "lost drop"]
           /\ Op(Lost(owners, g)) \in {"lost keep", "lost drop"}
<1>1. PICK op \in {"keep", "drop"} : g \in Doing(op)
  BY DEF Lost
<1>2. task[g] \in AnyTask /\ task[g].op = op /\ Op(task[g]) = op
  BY <1>1, DoingFields
<1>3. task[g] \in [op : {"keep", "drop", "lost keep", "lost drop"}, user : User, item : Item]
  BY <1>1, <1>2 DEF AnyTask, Task, UploadTask, PollTask, PersonalTask
<1>4. Lost(owners, g) = [task[g] EXCEPT !.op = IF @ = "keep" THEN "lost keep" ELSE "lost drop"]
  BY DEF Lost
<1>5. Lost(owners, g) \in [op : {"keep", "drop", "lost keep", "lost drop"}, user : User, item : Item]
      /\ Lost(owners, g).op \in {"lost keep", "lost drop"}
  BY <1>3, <1>4
<1>6. Lost(owners, g) \in AnyTask
  BY <1>5 DEF AnyTask, PersonalTask
<1> QED
  BY <1>2, <1>4, <1>5, <1>6, NoneIsNoRequest DEF Op

LEMMA PersonalGoesOnMoves ==
    ASSUME TypeOK, NEW h \in Handler, PersonalGoesOn(h) PROVE PersonalMoves
<1> USE DEF PersonalOps
<1>0. PersonalTypeOK
  BY DEF TypeOK
<1>1. CASE AssignTokens(h)
  <2>1. h \in Doing("register") /\ Op(task[h]) = "register" /\ task[h].user \in User
        /\ task[h].item \in Tokens /\ task[h].lists \in [User -> [Tokens -> Nat]]
    BY <1>1, DoingFields DEF AssignTokens
  <2> DEFINE t == [op |-> "append", user |-> task[h].user, item |-> task[h].item]
             w == [i \in Item |-> IF i \in Tokens THEN Told(h, task[h].user, i, "out")
                                  ELSE answered[task[h].user][i]]
  <2>2. t \in AnyTask /\ Op(t) = "append"
    BY <2>1, NoneIsNoRequest DEF AnyTask, PersonalTask, Op
  <2>3. task' = [task EXCEPT ![h] = t]
    BY <1>1, <2>1 DEF AssignTokens, TypeOK
  <2>4. TasksTyped' /\ Becomes(h, "register", "append")
    <3> HIDE DEF t
    <3> QED
      BY <2>1, <2>2, <2>3, OneMoves
  <2>5. answered' = [answered EXCEPT ![task[h].user] = w]
    BY <1>0, <1>1, <2>1, PersonalTyped DEF AssignTokens
  <2>6. w \in [Item -> What]
    BY <1>0, <2>1, PersonalTyped, ToldIsWhat DEF What
  <2>7. PersonalTypeOK'
    <3> HIDE DEF w
    <3>1. answered' \in [User -> [Item -> What]]
      BY <1>0, <2>1, <2>5, <2>6, UserAnswered
    <3>2. kept' \in [User -> [Item -> Nat]]
      BY <1>0, <1>1, <2>1, ReplacedTyped DEF AssignTokens
    <3> QED
      BY <3>1, <3>2, PersonalTypedNext
  <2> QED
    BY <1>1, <2>4, <2>7, ConversationSame, PersonalMovesOne DEF AssignTokens
<1>2. CASE CopyTokens(h)
  <2>1. Op(task[h]) = "signed out" /\ task[h].user \in User /\ task[h].clean \in BOOLEAN
    BY <1>2, DoingFields DEF CopyTokens, DeleteOps
  <2> DEFINE f == [TokenLists EXCEPT ![task[h].user] = [i \in Tokens |-> 0]]
             t == [op |-> "copied", user |-> task[h].user, clean |-> task[h].clean, lists |-> f]
  <2>2. f \in [User -> [Tokens -> Nat]]
    BY <1>0, ContactItems DEF TokenLists, PersonalTypeOK
  <2>3. t \in AnyTask /\ Op(t) = "copied"
    BY <2>1, <2>2, NoneIsNoRequest DEF AnyTask, PersonalTask, Op
  <2>4. task' = [task EXCEPT ![h] = t]
    BY <1>2, <2>1 DEF CopyTokens, TypeOK
  <2>5. TasksTyped' /\ Becomes(h, "signed out", "copied")
    <3> HIDE DEF t
    <3> QED
      BY <2>1, <2>3, <2>4, OneMoves
  <2>6. PersonalTypeOK'
    BY <1>0, <1>2 DEF CopyTokens, personalVars, PersonalTypeOK
  <2> QED
    BY <1>2, <2>5, <2>6, ConversationSame, PersonalMovesOne DEF CopyTokens
<1>3. CASE ReplaceTokens(h)
  <2>1. h \in Doing("copied") /\ Op(task[h]) = "copied" /\ task[h].user \in User
        /\ task[h].clean \in BOOLEAN /\ task[h].lists \in [User -> [Tokens -> Nat]]
    BY <1>3, DoingFields DEF ReplaceTokens
  <2>2. PICK clean \in BOOLEAN : task' = [task EXCEPT ![h] =
                [op |-> "forgotten", user |-> task[h].user, clean |-> clean]]
    BY <1>3, <2>1 DEF ReplaceTokens, Proceeds
  <2> DEFINE t == [op |-> "forgotten", user |-> task[h].user, clean |-> clean]
             w == [i \in Item |-> IF i \in Tokens THEN Told(h, task[h].user, i, "out")
                                  ELSE answered[task[h].user][i]]
  <2>3. t \in AnyTask /\ Op(t) = "forgotten"
    BY <2>1, NoneIsNoRequest DEF AnyTask, PersonalTask, Op
  <2>4. TasksTyped' /\ Becomes(h, "copied", "forgotten")
    <3>1. task' = [task EXCEPT ![h] = t]
      BY <2>2
    <3> HIDE DEF t
    <3>2. TasksTyped' /\ Becomes(h, Op(task[h]), Op(t))
      BY <2>3, <3>1, OneMoves
    <3> QED
      BY <2>1, <2>3, <3>2
  <2>5. answered' = [answered EXCEPT ![task[h].user] = w]
    BY <1>0, <1>3, <2>1, PersonalTyped DEF ReplaceTokens
  <2>6. w \in [Item -> What]
    BY <1>0, <2>1, PersonalTyped, ToldIsWhat DEF What
  <2>7. PersonalTypeOK'
    <3> HIDE DEF w
    <3>1. answered' \in [User -> [Item -> What]]
      BY <1>0, <2>1, <2>5, <2>6, UserAnswered
    <3>2. kept' \in [User -> [Item -> Nat]]
      BY <1>0, <1>3, <2>1, ReplacedTyped DEF ReplaceTokens
    <3> QED
      BY <3>1, <3>2, PersonalTypedNext
  <2> QED
    BY <1>3, <2>4, <2>7, ConversationSame, PersonalMovesOne DEF ReplaceTokens
<1>4. CASE CopyContacts(h)
  <2>1. h \in Doing("forgotten") /\ Op(task[h]) = "forgotten" /\ task[h].user \in User
        /\ task[h].clean \in BOOLEAN
    BY <1>4, DoingFields DEF CopyContacts
  <2>2. PICK clean \in BOOLEAN, owners \in SUBSET User, lists \in [User -> [Contact -> Nat]] :
          task' = [g \in Handler |->
            IF g = h THEN [op |-> "listed", user |-> task[h].user, clean |-> clean,
                           owners |-> owners, lists |-> lists]
            ELSE Lost({task[h].user}, g)]
    <3>1. [a \in User |-> [i \in Contact |-> IF task[h].user \in {a, i[2]} THEN 0 ELSE kept[a][i]]]
            \in [User -> [Contact -> Nat]]
      BY <1>0, ContactItems DEF PersonalTypeOK
    <3> DEFINE entry == <<"contact", task[h].user>>
               clean == /\ task[h].clean /\ AtContactsAlone(h, entry)
                        /\ \A k \in Doing("keep") : task[k].item # entry
               owners == {a \in User \ {task[h].user} : Has(a, entry)}
               lists == [a \in User |-> [i \in Contact |->
                            IF task[h].user \in {a, i[2]} THEN 0 ELSE kept[a][i]]]
    <3>2. clean \in BOOLEAN /\ owners \in SUBSET User
      OBVIOUS
    <3>3. task' = [g \in Handler |->
            IF g = h THEN [op |-> "listed", user |-> task[h].user, clean |-> clean,
                           owners |-> owners, lists |-> lists]
            ELSE Lost({task[h].user}, g)]
      BY <1>4 DEF CopyContacts
    <3> HIDE DEF clean, owners, lists
    <3> QED
      BY <3>1, <3>2, <3>3 DEF lists
  <2> DEFINE t == [op |-> "listed", user |-> task[h].user, clean |-> clean,
                   owners |-> owners, lists |-> lists]
             w == [i \in Item |-> IF i \in Contact THEN Told(h, task[h].user, i, "out")
                                  ELSE answered[task[h].user][i]]
             k == [i \in Item |-> IF i \in Contact THEN 0 ELSE kept[task[h].user][i]]
  <2>3. t \in AnyTask /\ Op(t) = "listed"
    BY <2>1, NoneIsNoRequest DEF AnyTask, PersonalTask, Op
  <2>4. TasksTyped'
    <3>1. \A g \in Handler : task'[g] \in AnyTask \cup {None}
      BY <2>2, <2>3, LostTyped DEF TypeOK, AnyTask
    <3> QED
      BY <2>2, <3>1 DEF TasksTyped
  <2>5. \A g \in Handler : task'[g] # task[g] =>
            Op(task[g]) \in PersonalOps /\ Op(task'[g]) \in PersonalOps
    <3>1. task'[h] = t /\ \A g \in Handler \ {h} : task'[g] = Lost({task[h].user}, g)
      BY <2>2
    <3>2. ASSUME NEW g \in Handler, Lost({task[h].user}, g) # task[g]
          PROVE  Op(task[g]) \in {"keep", "drop"}
                 /\ Op(Lost({task[h].user}, g)) \in {"lost keep", "lost drop"}
      BY <3>2, LostTyped
    <3> HIDE DEF t
    <3> QED
      BY <2>1, <2>3, <3>1, <3>2
  <2>6. kept' = [kept EXCEPT ![task[h].user] = k]
    BY <1>0, <1>4, <2>1, PersonalTyped DEF CopyContacts
  <2>7. answered' = [answered EXCEPT ![task[h].user] = w]
    BY <1>0, <1>4, <2>1, PersonalTyped DEF CopyContacts
  <2>8. w \in [Item -> What] /\ k \in [Item -> Nat]
    BY <1>0, <2>1, ToldIsWhat, PersonalTyped DEF What
  <2>9. PersonalTypeOK'
    <3> HIDE DEF w, k
    <3>1. answered' \in [User -> [Item -> What]]
      BY <1>0, <2>1, <2>7, <2>8, UserAnswered
    <3>2. kept' \in [User -> [Item -> Nat]]
      BY <1>0, <2>1, <2>6, <2>8, UserKept
    <3> QED
      BY <3>1, <3>2, PersonalTypedNext
  <2> QED
    BY <1>4, <2>4, <2>5, <2>9, ConversationSame DEF CopyContacts, PersonalMoves
<1>5. CASE ReplaceContacts(h)
  <2>1. h \in Doing("listed") /\ Op(task[h]) = "listed" /\ task[h].user \in User
        /\ task[h].clean \in BOOLEAN /\ task[h].owners \subseteq User
        /\ task[h].lists \in [User -> [Contact -> Nat]]
    BY <1>5, DoingFields DEF ReplaceContacts
  <2>2. PICK clean \in BOOLEAN :
          task' = [g \in Handler |->
            IF g = h THEN [op |-> "unlisted", user |-> task[h].user, clean |-> clean]
            ELSE Lost(task[h].owners, g)]
    BY <1>5, <2>1 DEF ReplaceContacts
  <2> DEFINE t == [op |-> "unlisted", user |-> task[h].user, clean |-> clean]
             entry == <<"contact", task[h].user>>
  <2>3. t \in AnyTask /\ Op(t) = "unlisted" /\ entry \in Item
    BY <2>1, NoneIsNoRequest DEF AnyTask, Task, Op, Item, Contact
  <2>4. TasksTyped'
    <3>1. \A g \in Handler : task'[g] \in AnyTask \cup {None}
      BY <2>2, <2>3, LostTyped DEF TypeOK, AnyTask
    <3> QED
      BY <2>2, <3>1 DEF TasksTyped
  <2>5. \A g \in Handler : task'[g] # task[g] =>
            Op(task[g]) \in PersonalOps /\ Op(task'[g]) \in PersonalOps \cup {"unlisted"}
    <3>1. task'[h] = t /\ \A g \in Handler \ {h} : task'[g] = Lost(task[h].owners, g)
      BY <2>2
    <3>2. ASSUME NEW g \in Handler, Lost(task[h].owners, g) # task[g]
          PROVE  Op(task[g]) \in {"keep", "drop"}
                 /\ Op(Lost(task[h].owners, g)) \in {"lost keep", "lost drop"}
      BY <3>2, LostTyped
    <3> HIDE DEF t
    <3> QED
      BY <2>1, <2>3, <3>1, <3>2
  <2>6. kept' \in [User -> [Item -> Nat]]
    <3>1. ASSUME NEW a \in User
          PROVE  kept[a] \in [Item -> Nat] /\ [i \in Item |->
                    IF i \in Contact THEN task[h].lists[a][i] ELSE kept[a][i]] \in [Item -> Nat]
      BY <1>0, <2>1, PersonalTyped
    <3> QED
      BY <1>5, <3>1 DEF ReplaceContacts
  <2>7. answered' \in [User -> [Item -> What]]
    <3>1. ASSUME NEW a \in User
          PROVE  answered[a] \in [Item -> What]
                 /\ [answered[a] EXCEPT ![entry] = Told(h, a, entry, "out")] \in [Item -> What]
      BY <1>0, <2>3, PersonalTyped, ToldIsWhat DEF What
    <3> QED
      BY <1>5, <3>1 DEF ReplaceContacts
  <2>8. PersonalTypeOK'
    BY <2>6, <2>7, PersonalTypedNext
  <2> QED
    BY <1>5, <2>4, <2>5, <2>8, ConversationSame DEF ReplaceContacts, PersonalMoves
<1>6. CASE DeletionFails(h)
  <2>1. h \in Doing("listed") /\ task[h].user \in User
    BY <1>6, DoingFields DEF DeletionFails
  <2>2. TasksTyped' /\ Becomes(h, "listed", "idle")
    BY <1>6, EndMoves DEF DeletionFails
  <2> DEFINE w == [i \in Item |-> IF i \in Contact THEN "unclear"
                                  ELSE answered[task[h].user][i]]
  <2>3. answered' = [answered EXCEPT ![task[h].user] = w]
    BY <1>0, <1>6, <2>1, PersonalTyped DEF DeletionFails
  <2>4. w \in [Item -> What]
    BY <1>0, <2>1, PersonalTyped DEF What
  <2>5. PersonalTypeOK'
    <3> HIDE DEF w
    <3> QED
      BY <1>0, <1>6, <2>1, <2>3, <2>4, UserAnswered, PersonalTyped, PersonalTypedNext
         DEF DeletionFails
  <2> QED
    BY <1>6, <2>2, <2>5, ConversationSame, PersonalMovesOne DEF DeletionFails
<1> QED
  BY <1>1, <1>2, <1>3, <1>4, <1>5, <1>6 DEF PersonalGoesOn

LEMMA PersonalStepMoves == ASSUME TypeOK, NEW h \in Handler, PersonalStep(h) PROVE PersonalMoves
  BY PersonalAsksMoves, PersonalSavesMoves, ClearsMoves, PersonalGoesOnMoves DEF PersonalStep

--------------------------------------------------------------------------------
(* The next id after a restart *)

Below == {p \in Nat \X Nat : p[1] < p[2]}

LEMMA LeastNumber ==
    ASSUME NEW T \in SUBSET Nat, T # {}
    PROVE  \E x \in T : \A y \in T : x <= y
<1>1. IsWellFoundedOn(Below, Nat)
  BY NatLessThanWellFounded DEF OpToRel, Below
<1>2. PICK x \in T : \A y \in T : ~ (<<y, x>> \in Below)
  BY <1>1, WFMin
<1>3. \A y \in T : y \in Nat /\ x \in Nat /\ ~ (y < x)
  BY <1>2 DEF Below
<1> QED
  BY <1>3

\* The element with the fewest above it has none above it.
LEMMA GreatestNumber ==
    ASSUME NEW T \in SUBSET Nat, IsFiniteSet(T), T # {}
    PROVE  \E x \in T : \A y \in T : y <= x
<1> DEFINE above(x) == {y \in T : y > x}
           sizes == {Cardinality(above(x)) : x \in T}
<1>1. \A x \in T : IsFiniteSet(above(x)) /\ Cardinality(above(x)) \in Nat
  BY FS_Subset, FS_CardinalityType
<1>2. PICK x \in T : \A y \in T : Cardinality(above(x)) <= Cardinality(above(y))
  <2>1. sizes \in SUBSET Nat /\ sizes # {}
    BY <1>1
  <2>2. PICK n \in sizes : \A m \in sizes : n <= m
    BY <2>1, LeastNumber
  <2> QED
    BY <2>2
<1> SUFFICES ASSUME NEW y \in T, ~ (y <= x) PROVE FALSE
  OBVIOUS
<1>3. above(y) \subseteq above(x) /\ y \in above(x) /\ y \notin above(y)
  <2>1. x \in Nat /\ y \in Nat /\ y > x
    OBVIOUS
  <2>2. \A z \in T : z > y => z > x
    <3>1. \A z \in T : z \in Nat
      OBVIOUS
    <3> QED
      BY <2>1, <3>1
  <2>3. ~ (y > y)
    BY <2>1
  <2> QED
    BY <2>1, <2>2, <2>3
<1>4. Cardinality(above(y)) < Cardinality(above(x))
  <2>1. /\ Cardinality(above(y)) <= Cardinality(above(x))
        /\ Cardinality(above(y)) # Cardinality(above(x))
    BY <1>1, <1>3, FS_Subset
  <2> QED
    BY <1>1, <2>1
<1> QED
  BY <1>1, <1>2, <1>4

LEMMA NextPostAbove ==
    ASSUME NEW s \in Seq(Post)
    PROVE  /\ NextPost(s) \in Nat /\ NextPost(s) >= 2
           /\ \A i \in DOMAIN s : s[i].id < NextPost(s)
<1> DEFINE ids == {s[i].id : i \in DOMAIN s}
           all == ids \cup {1}
<1>1. DOMAIN s = 1 .. Len(s) /\ Len(s) \in Nat /\ \A i \in DOMAIN s : s[i] \in Post
  OBVIOUS
<1>2. ids \in SUBSET Nat
  BY <1>1 DEF Post
<1>3. IsFiniteSet(ids)
  <2>1. IsFiniteSet(DOMAIN s)
    BY <1>1, FS_Interval
  <2>2. [i \in DOMAIN s |-> s[i].id] \in Surjection(DOMAIN s, ids)
    BY DEF Surjection
  <2> QED
    BY <2>1, <2>2, FS_Surjection
<1>4. all \in SUBSET Nat /\ IsFiniteSet(all) /\ 1 \in all /\ all # {}
  BY <1>2, <1>3, FS_AddElement
<1>5. Max(all) \in all /\ \A y \in all : Max(all) >= y
  <2> HIDE DEF all
  <2>1. \E x \in all : \A y \in all : x >= y
    BY <1>4, GreatestNumber
  <2> QED
    BY <2>1 DEF Max
<1>6. Max(all) \in Nat /\ Max(all) >= 1 /\ NextPost(s) = Max(all) + 1
  BY <1>4, <1>5 DEF NextPost
<1>7. \A i \in DOMAIN s : s[i].id \in Nat /\ Max(all) >= s[i].id
  <2>1. \A i \in DOMAIN s : s[i].id \in all
    OBVIOUS
  <2> HIDE DEF all
  <2> QED
    BY <1>4, <1>5, <2>1
<1> HIDE DEF all
<1> QED
  BY <1>6, <1>7

--------------------------------------------------------------------------------
(* Every step keeps the types, and what is known of the poll *)

LEMMA SnapshotTyped ==
    ASSUME ChatTyped', UploadsTypeOK', PollsTypeOK', PersonalTypeOK' PROVE Snapshot' \in SavedState
<1>1. \A u \in User, item \in Saved : kept'[u][item] \in Nat
  BY DEF PersonalTypeOK, Saved, Item
<1> QED
  BY <1>1 DEF Snapshot, SavedState, ChatTyped, UploadsTypeOK, PollsTypeOK

LEMMA SavedOrNot ==
    ASSUME TypeOK, Payload, ChatTyped', UploadsTypeOK', PollsTypeOK', PersonalTypeOK'
    PROVE  Payloads' \subseteq SavedState
  BY SnapshotTyped, TypeParts DEF Payload

GroupsInv == TypeOK /\ PollInv

LEMMA PersonalMovesElsewhere ==
    ASSUME TypeOK, PersonalMoves
    PROVE  Moves((ChatOps \cup UploadOps \cup PersonalOps) \cup {"idle"})
<1>1. ASSUME NEW g \in Handler, Spoilt(g)
      PROVE  Op(task[g]) \in ChatOps \cup PersonalOps /\ Op(task'[g]) = Op(task[g])
  <2>1. Op(task[g]) \in Forgetting /\ task[g] # None
    BY <1>1 DEF Spoilt, Forgetting, Op
  <2>2. task'[g] \in AnyTask /\ task'[g].op = task[g].op
    BY <1>1, <2>1, SpoiltTyped DEF Spoilt
  <2>3. Op(task'[g]) = Op(task[g])
    BY <2>1, <2>2, NoneIsNoRequest DEF Op
  <2> QED
    BY <2>1, <2>3 DEF Forgetting, ChatOps, DeleteOps, PersonalOps
<1> QED
  BY <1>1 DEF PersonalMoves, Moves, ChatOps, DeleteOps, PersonalOps

LEMMA StepKeeps ==
    ASSUME GroupsInv, Aside, NEW h \in Handler,
           ChatStep(h) \/ UploadStep(h) \/ PollStep(h) \/ PersonalStep(h)
    PROVE  GroupsInv'
<1> USE DEF Aside
<1>0. TypeOK /\ PollInv /\ ChatTyped /\ UploadsTypeOK /\ PollsTypeOK /\ PersonalTypeOK
  BY TypeParts DEF GroupsInv
<1>1. CASE ChatStep(h)
  <2>1. ChatMoves
    BY <1>0, <1>1, ChatStepMoves
  <2>2. UNCHANGED <<uploadVars, pollVars, personalVars>> /\ newest' \in {newest, Snapshot'}
    BY <1>1 DEF ChatStep
  <2>3. UploadsTypeOK' /\ PollsTypeOK' /\ PersonalTypeOK'
    BY <1>0, <2>2 DEF UploadsTypeOK, PollsTypeOK, PersonalTypeOK, uploadVars, pollVars, personalVars
  <2>4. Payloads' \subseteq SavedState
    BY <1>0, <2>1, <2>2, <2>3, SavedOrNot DEF ChatMoves
  <2>5. PollInv'
    BY <1>0, <2>1, <2>2, MovesMore, PollUnchanged DEF ChatMoves
  <2> QED
    BY <2>1, <2>3, <2>4, <2>5, TypePartsNext DEF GroupsInv, ChatMoves
<1>2. CASE UploadStep(h)
  <2>1. UploadMoves
    BY <1>0, <1>2, UploadStepMoves
  <2>2. UNCHANGED <<pollVars, personalVars>> /\ newest' \in {newest, Snapshot'}
    BY <1>2 DEF UploadStep
  <2>3. PollsTypeOK' /\ PersonalTypeOK'
    BY <1>0, <2>2 DEF PollsTypeOK, PersonalTypeOK, pollVars, personalVars
  <2>4. Payloads' \subseteq SavedState
    BY <1>0, <2>1, <2>2, <2>3, SavedOrNot DEF UploadMoves
  <2>5. PollInv'
    BY <1>0, <2>1, <2>2, MovesMore, PollUnchanged DEF UploadMoves
  <2> QED
    BY <2>1, <2>3, <2>4, <2>5, TypePartsNext DEF GroupsInv, UploadMoves
<1>3. CASE PollStep(h)
  <2>1. PollMoves
    BY <1>0, <1>3, PollStepMoves
  <2>2. UNCHANGED <<uploadVars, personalVars>> /\ newest' \in {newest, Snapshot'}
    BY <1>3 DEF PollStep
  <2>3. UploadsTypeOK' /\ PersonalTypeOK'
    BY <1>0, <2>2 DEF UploadsTypeOK, PersonalTypeOK, uploadVars, personalVars
  <2>4. Payloads' \subseteq SavedState
    BY <1>0, <2>1, <2>2, <2>3, SavedOrNot DEF PollMoves
  <2> QED
    BY <2>1, <2>3, <2>4, TypePartsNext DEF GroupsInv, PollMoves
<1>4. CASE PersonalStep(h)
  <2>1. PersonalMoves
    BY <1>0, <1>4, PersonalStepMoves
  <2>2. UNCHANGED <<uploadVars, pollVars>> /\ newest' \in {newest, Snapshot'}
    BY <1>4 DEF PersonalStep
  <2>3. UploadsTypeOK' /\ PollsTypeOK'
    BY <1>0, <2>2 DEF UploadsTypeOK, PollsTypeOK, uploadVars, pollVars
  <2>4. Payloads' \subseteq SavedState
    BY <1>0, <2>1, <2>2, <2>3, SavedOrNot DEF PersonalMoves
  <2>5. PollInv'
    BY <1>0, <2>1, <2>2, PersonalMovesElsewhere, PollUnchanged
  <2> QED
    BY <2>1, <2>3, <2>4, <2>5, TypePartsNext DEF GroupsInv, PersonalMoves
<1> QED
  BY <1>1, <1>2, <1>3, <1>4

\* Nothing changes that a payload is made of.
LEMMA SnapshotStays ==
    ASSUME GroupsInv, Aside, UNCHANGED memoryVars PROVE GroupsInv'
<1>1. UNCHANGED <<newest, chatVars, uploadVars, pollVars, personalVars>> /\ Snapshot' = Snapshot
  BY DEF memoryVars, chatVars, uploadVars, pollVars, personalVars, Snapshot
<1>2. TasksTyped' /\ ChatTyped' /\ UploadsTypeOK' /\ PollsTypeOK' /\ PersonalTypeOK'
  BY <1>1, TypeParts DEF GroupsInv, chatVars, historyVars, uploadVars, pollVars, personalVars,
     TasksTyped, ChatTyped, UploadsTypeOK, PollsTypeOK, PersonalTypeOK
<1>3. TypeOK'
  BY <1>2, SavedOrNot, TypePartsNext DEF GroupsInv, Aside
<1>4. PollInv'
  BY <1>1 DEF GroupsInv, PollInv, chatVars, pollVars
<1> QED
  BY <1>3, <1>4 DEF GroupsInv

LEMMA RefuseKeeps == ASSUME GroupsInv, Aside, RefuseStep PROVE GroupsInv'
<1>1. TypeOK /\ PollInv
  BY DEF GroupsInv
<1>2. UNCHANGED <<newest, chatVars, pollVars, personalVars, nextUpload, attachments>>
      /\ \E i \in DOMAIN uploads : uploads' = Without(i)
  BY DEF RefuseStep, DropUpload
<1>3. UploadsTypeOK'
  <2>1. UploadsTypeOK
    BY <1>1 DEF TypeOK
  <2>2. PICK i \in DOMAIN uploads : uploads' = Without(i)
    BY <1>2
  <2>3. DOMAIN uploads' \subseteq DOMAIN uploads
        /\ \A j \in DOMAIN uploads' : uploads'[j] \in Upload
    BY <2>1, <2>2, WithoutTyped
  <2> QED
    BY <1>2, <2>1, <2>3 DEF UploadsTypeOK
<1>4. TypeOK'
  <2>1. TasksTyped' /\ ChatTyped' /\ PollsTypeOK' /\ PersonalTypeOK'
    BY <1>1, <1>2, TypeParts DEF chatVars, historyVars, pollVars, personalVars, TasksTyped,
       ChatTyped, PollsTypeOK, PersonalTypeOK
  <2> QED
    BY <1>1, <1>3, <2>1, SavedOrNot, TypePartsNext DEF Aside
<1>5. PollInv'
  BY <1>1, <1>2 DEF PollInv, chatVars, pollVars
<1> QED
  BY <1>4, <1>5 DEF GroupsInv

LEMMA RestartKeeps == ASSUME GroupsInv, Counts, Restart PROVE GroupsInv'
<1>0. TypeOK /\ PollInv /\ file \in SavedState
  BY DEF GroupsInv, TypeOK
<1>1. /\ file' = file /\ newest' = file /\ late' = None /\ UNCHANGED <<interfered, returned>>
      /\ poll' = file.poll /\ announced' = IF file # newest THEN None ELSE announced
      /\ task' = [h \in Handler |-> None]
  <2>1. file' = file /\ newest' = file /\ late' = None /\ UNCHANGED <<interfered, returned>>
    BY DEF Restart
  <2>2. poll' = file.poll /\ announced' = IF file # newest THEN None ELSE announced
    BY DEF Restart, Outdated
  <2>3. task' = [h \in Handler |-> None]
    BY DEF Restart
  <2> QED
    BY <2>1, <2>2, <2>3
<1>2. TasksTyped' /\ PollsTypeOK'
  <2>1. TasksTyped'
    BY <1>1 DEF TasksTyped
  <2>2. file.poll \in Poll \cup {None}
    BY <1>0 DEF SavedState
  <2>3. announced \in Votes \cup {None}
    BY <1>0 DEF TypeOK, PollsTypeOK
  <2> QED
    BY <1>1, <2>1, <2>2, <2>3 DEF PollsTypeOK
<1>3. ChatTyped'
  <2>1. users' \subseteq User /\ participants' \in [User -> Nat] /\ posts' \in Seq(Post)
        /\ nextPost' \in Nat
    BY <1>0, NextPostAbove DEF Restart, SavedState
  <2>2. roles' \in [User -> {"owner", "admin", "member"}]
        /\ told' \in [User -> {"in", "out", "unclear"}] /\ shared' = shared
        /\ gone' \in {{}, gone}
    BY <1>0 DEF Restart, TypeOK
  <2> QED
    BY <1>0, <2>1, <2>2 DEF ChatTyped, TypeOK
<1>4. UploadsTypeOK'
  <2>1. file.attachments \in Seq(Attachment)
    BY <1>0 DEF SavedState
  <2>2. DOMAIN file.attachments = 1 .. Len(file.attachments)
        /\ \A i \in DOMAIN file.attachments : file.attachments[i] \in Attachment
    BY <2>1
  <2>3. \A i \in DOMAIN file.attachments :
            [file.attachments[i] EXCEPT !.upload = 0] \in Attachment
    BY <2>2 DEF Attachment
  <2>4. attachments' \in Seq(Attachment)
    BY <2>1, <2>2, <2>3 DEF Restart
  <2> QED
    BY <2>4 DEF Restart, UploadsTypeOK
<1>5. PersonalTypeOK'
  <2>1. kept' \in [User -> [Item -> Nat]]
    BY <1>0 DEF Restart, SavedState
  <2>2. answered' \in [User -> [Item -> What]]
    BY <1>0 DEF Restart, TypeOK, PersonalTypeOK, What
  <2> QED
    BY <2>1, <2>2, PersonalTypedNext
<1>6. PollInv'
  <2>1. \A h \in Handler : Op(task'[h]) = "idle"
    BY <1>1 DEF Op
  <2>2. newest'.poll = poll'
    BY <1>1
  <2>3. announced' # None => poll' # None /\ poll'.closed /\ poll'.votes = announced'
    BY <1>0, <1>1 DEF PollInv
  <2> QED
    BY <2>1, <2>2, <2>3 DEF PollInv
<1>7. Payloads' \subseteq SavedState /\ HistoryTyped'
  BY <1>0, <1>1, TypeParts DEF Payloads, HistoryTyped
<1> QED
  BY <1>0, <1>1, <1>2, <1>3, <1>4, <1>5, <1>6, <1>7, TypePartsNext DEF GroupsInv

LEMMA GroupsInvInit == GroupsInit => GroupsInv
<1> SUFFICES ASSUME GroupsInit PROVE GroupsInv
  OBVIOUS
<1> USE DEF GroupsInit
<1>1. left \in [Request -> Nat]
  BY GroupsAssumption
<1>2. TasksTyped /\ ChatTyped
  BY DEF Init, TasksTyped, ChatTyped
<1>3. UploadsTypeOK /\ PollsTypeOK /\ PersonalTypeOK
  BY DEF UploadsInit, PollsInit, PersonalInit, UploadsTypeOK, PollsTypeOK, PersonalTypeOK
<1>4. Snapshot \in SavedState
  <2>1. \A u \in User, item \in Saved : kept[u][item] \in Nat
    BY <1>3 DEF PersonalTypeOK, Saved, Item
  <2> QED
    BY <1>2, <1>3, <2>1 DEF Snapshot, SavedState, ChatTyped, UploadsTypeOK, PollsTypeOK
<1>5. PollInv
  BY DEF Init, PollsInit, PollInv, Snapshot, Op
<1>6. Payloads \subseteq SavedState /\ HistoryTyped
  BY <1>4 DEF Payloads, HistoryTyped
<1> QED
  BY <1>1, <1>2, <1>3, <1>5, <1>6, TypeParts DEF GroupsInv

LEMMA GroupsInvNext == GroupsInv /\ [Next]_vars => GroupsInv'
<1>1. ASSUME GroupsInv, Next PROVE GroupsInv'
  <2>1. TypeOK /\ left \in [Request -> Nat]
    BY <1>1 DEF GroupsInv, TypeOK
  <2>2. CASE Restart
    BY <1>1, <2>1, <2>2, NextSteps, RestartKeeps
  <2>3. CASE ~ Restart
    <3>1. Aside
      BY <1>1, <2>1, <2>3, NextSteps, NextPayload, NextHistory DEF Aside
    <3> QED
      BY <1>1, <2>1, <2>3, <3>1, NextSteps, StepKeeps, RefuseKeeps, SnapshotStays
  <2> QED
    BY <2>2, <2>3
<1>2. ASSUME GroupsInv, UNCHANGED vars PROVE GroupsInv'
  <2>1. UNCHANGED <<left, memoryVars, file, late, newest, interfered, returned>>
    BY <1>2 DEF vars, fileVars, memoryVars
  <2>2. Aside
    BY <1>2, <2>1 DEF Aside, Counts, Payload, Payloads, HistoryTyped, GroupsInv, TypeOK
  <2> QED
    BY <1>2, <2>1, <2>2, SnapshotStays
<1> QED
  BY <1>1, <1>2

LEMMA GroupsInvariant == Spec => []GroupsInv
  BY GroupsInvInit, GroupsInvNext, PTL DEF Spec

\* Every variable keeps its type, and what is saved can be read back.
THEOREM TypeCorrect == Spec => []TypeOK
  BY GroupsInvariant, PTL DEF GroupsInv

\* The result that was told stays the poll's result: once it is, no vote is in flight and
\* none is taken up (vote_poll tests the flag that close_poll has set), and every step
\* that changes the poll saves it: a restart finds it, unless the file is outdated.
THEOREM AnnouncedStays == Spec => []AnnouncedIsFinal
<1>1. GroupsInv => AnnouncedIsFinal
  BY DEF GroupsInv, PollInv, AnnouncedIsFinal
<1> QED
  BY <1>1, GroupsInvariant, PTL

--------------------------------------------------------------------------------
(* Who takes part *)

LEMMA PersonalLeaves ==
    ASSUME TypeOK, NEW h \in Handler, PersonalStep(h) PROVE UNCHANGED conversationVars
<1>1. CASE PersonalAsks(h)
  BY <1>1 DEF PersonalAsks, KeepRequest, DropRequest, TokenRequest
<1>2. CASE PersonalGoesOn(h)
  BY <1>2 DEF PersonalGoesOn, AssignTokens, CopyTokens, ReplaceTokens, CopyContacts,
              ReplaceContacts, DeletionFails
<1>3. CASE Keep(h)
  BY <1>3, KeepIsKeeps DEF Keeps
<1>4. CASE Drop(h) \/ KeepNowhere(h) \/ AppendToken(h) \/ Clears(h)
  BY <1>4 DEF Drop, KeepNowhere, AppendToken, Clears, ClearDraft, Unregister
<1> QED
  BY <1>1, <1>2, <1>3, <1>4 DEF PersonalStep, PersonalSaves

\* What the conversation sees of a step of its attachments, its poll or what is kept for
\* its users: at most that a deletion is not clean any more.
LEMMA OthersKeep ==
    ASSUME TypeOK, PollInv, NEW h \in Handler, UploadStep(h) \/ PollStep(h) \/ PersonalStep(h)
    PROVE  /\ UNCHANGED <<users, participants, roles, told, gone>>
           /\ newest' \in {newest, Snapshot'}
           /\ \A g \in Handler :
                /\ {Op(task[g]), Op(task'[g])} \cap ((AskOps \ {"send"}) \cup {"confirmed"}) # {}
                    => task'[g] = task[g]
                /\ {Op(task[g]), Op(task'[g])} \cap {"rebuilt", "walked"} # {}
                    => task'[g] = task[g] \/ Spoilt(g)
<1> USE DEF AskOps
<1>1. CASE UploadStep(h)
  <2>1. UploadMoves
    BY <1>1, UploadStepMoves
  <2>2. UNCHANGED <<users, participants, roles, told, gone>> /\ newest' \in {newest, Snapshot'}
    BY <1>1 DEF UploadStep, UploadAsks, UploadGoesOn, AttachRequest, BeginRequest, ChunkRequest,
                CompleteRequest, InitUpload, AcceptChunk, ReleaseUpload, PostAttachment,
                SendAttachment, historyVars
  <2> QED
    BY <2>1, <2>2 DEF UploadMoves, Moves, UploadOps
<1>2. CASE PollStep(h)
  <2>1. PollMoves
    BY <1>2, PollStepMoves
  <2>2. UNCHANGED <<users, participants, roles, told, gone>> /\ newest' \in {newest, Snapshot'}
    BY <1>2 DEF PollStep, PollAsks, CreateRequest, VoteRequest, CloseRequest, AnnounceResult,
                CreatePoll, CountVote, ClosePoll, historyVars
  <2> QED
    BY <2>1, <2>2 DEF PollMoves, Moves, PollOps
<1>3. CASE PersonalStep(h)
  <2>1. PersonalMoves
    BY <1>3, PersonalStepMoves
  <2>2. UNCHANGED conversationVars
    BY <1>3, PersonalLeaves
  <2>4. newest' \in {newest, Snapshot'}
    BY <1>3 DEF PersonalStep
  <2>3. \A g \in Handler : Spoilt(g) => Op(task'[g]) = Op(task[g]) /\ Op(task[g]) \in Forgetting
    <3>1. ASSUME NEW g \in Handler, Spoilt(g)
          PROVE  Op(task'[g]) = Op(task[g]) /\ Op(task[g]) \in Forgetting
      <4>1. Op(task[g]) \in Forgetting /\ task[g] # None
        BY <3>1 DEF Spoilt, Forgetting, Op
      <4>2. task'[g] \in AnyTask /\ task'[g].op = task[g].op
        BY <3>1, <4>1, SpoiltTyped DEF Spoilt
      <4> QED
        BY <4>1, <4>2, NoneIsNoRequest DEF Op
    <3> QED
      BY <3>1
  <2> QED
    BY <2>1, <2>2, <2>3, <2>4 DEF PersonalMoves, PersonalOps, Forgetting, conversationVars, historyVars
<1> QED
  BY <1>1, <1>2, <1>3

\* A deletion that is not clean any more is the same otherwise.
LEMMA SpoiltFields ==
    ASSUME TypeOK, NEW g \in Handler, Spoilt(g)
    PROVE  /\ Op(task'[g]) = Op(task[g]) /\ task'[g].user = task[g].user
           /\ task'[g].clean = FALSE
           /\ Op(task[g]) = "rebuilt" => task'[g].list = task[g].list
           /\ Op(task[g]) = "listed" => /\ task'[g].lists = task[g].lists
                                        /\ task'[g].owners = task[g].owners
<1>1. task[g] # None /\ Op(task[g]) \in Forgetting /\ Op(task[g]) = task[g].op
      /\ task'[g] = [task[g] EXCEPT !.clean = FALSE]
  BY DEF Spoilt, Forgetting, Op
<1>2. task[g] \in AnyTask
  BY <1>1, TaskFields
<1>3. task'[g] \in AnyTask /\ task'[g].op = task[g].op
  BY <1>1, SpoiltTyped
<1>4. \/ task[g] \in [op : {"signed out", "unlisted", "walked"}, user : User, clean : BOOLEAN]
      \/ task[g] \in [op : {"rebuilt"}, user : User, clean : BOOLEAN, list : [User -> Nat]]
      \/ task[g] \in [op : {"listed"}, user : User, clean : BOOLEAN, owners : SUBSET User,
                      lists : [User -> [Contact -> Nat]]]
  BY <1>1, <1>2 DEF AnyTask, Task, UploadTask, PollTask, PersonalTask, Forgetting
<1>5. Op(task'[g]) = Op(task[g])
  BY <1>1, <1>3, NoneIsNoRequest DEF Op
<1> QED
  BY <1>1, <1>4, <1>5

\* A removal in flight was either tested when roles did not count, or is the user's own,
\* or is not of the owner: nobody becomes the owner later.
OwnerInv == \A g \in Handler : Op(task[g]) = "remove" =>
    task[g].user = task[g].target \/ task[g].ungated \/ roles[task[g].target] # "owner"

\* A number of mentions is as the last change was answered.
Counted(n, what) == (what = "in" => n = 1) /\ (what = "out" => n = 0)

\* The copies of the participants agree with the answers as the participants do: the one
\* that a deletion will write back, except for its own user, and the one in the file,
\* except for a user whose deletion has written the list and not saved it.
MemberInv ==
    /\ \A u \in User : Counted(participants[u], told[u])
    /\ \A g \in Handler : Op(task[g]) = "rebuilt" =>
        /\ task[g].list[task[g].user] = 0
        /\ \A u \in User \ {task[g].user} : Counted(task[g].list[u], told[u])
    /\ \A u \in User :
        \/ Counted(newest.participants[u], told[u])
        \/ \E g \in Handler : Op(task[g]) = "walked" /\ task[g].user = u

\* A step of one request that is a question of the conversation.
LEMMA ChatAsksLeave ==
    ASSUME TypeOK, NEW h \in Handler, ChatAsks(h)
    PROVE  /\ UNCHANGED <<users, participants, roles, posts, nextPost, told, gone>>
           /\ task[h] = None /\ \A g \in Handler \ {h} : task'[g] = task[g]
           /\ task'[h] \in AnyTask /\ task'[h].op \in AskOps \cup {"confirmed"}
           /\ Op(task'[h]) = task'[h].op
           /\ task'[h].op = "remove" => Ungated = task'[h].ungated
                                        /\ MayRemove(task'[h].user, task'[h].target)
<1>1. PICK a \in User, u \in User :
        \/ SendRequest(h, a) \/ AddRequest(h, a, u) \/ RemoveRequest(h, a, u)
        \/ \E role \in {"admin", "member"} : RoleRequest(h, a, u, role)
        \/ DeleteRequest(h, a)
  BY DEF ChatAsks
<1>2. UNCHANGED <<users, participants, roles, posts, nextPost, told, gone>>
  BY <1>1 DEF SendRequest, AddRequest, RemoveRequest, RoleRequest, DeleteRequest, historyVars
<1>3. \E t \in AnyTask :
        /\ Starts(h, t) /\ t.op \in AskOps \cup {"confirmed"}
        /\ t.op = "remove" => Ungated = t.ungated /\ MayRemove(t.user, t.target)
  <2>1. CASE SendRequest(h, a)
    <3>1. [Asks("send", a, a) EXCEPT !.id = nextPost] \in Task
          /\ [Asks("send", a, a) EXCEPT !.id = nextPost].op = "send"
      BY DEF Asks, Task, Ungated, TypeOK
    <3> QED
      BY <2>1, <3>1 DEF SendRequest, AnyTask, AskOps
  <2>2. CASE RemoveRequest(h, a, u)
    <3>1. /\ Asks("remove", a, u) \in AnyTask /\ Asks("remove", a, u).op = "remove"
          /\ Asks("remove", a, u).ungated = Ungated
          /\ Asks("remove", a, u).user = a /\ Asks("remove", a, u).target = u
      BY AsksTyped DEF Asks, AskOps, AnyTask
    <3> QED
      BY <2>2, <3>1 DEF RemoveRequest, AskOps
  <2>3. CASE AddRequest(h, a, u) \/ \E role \in {"admin", "member"} : RoleRequest(h, a, u, role)
    <3>1. PICK op \in AskOps \ {"remove"} : Starts(h, Asks(op, a, u))
      BY <2>3 DEF AddRequest, RoleRequest, AskOps
    <3> QED
      BY <3>1, AsksTyped DEF AnyTask
  <2>4. CASE DeleteRequest(h, a)
    <3>1. [op |-> "confirmed", user |-> a] \in AnyTask
      BY DEF AnyTask, Task
    <3> QED
      BY <2>4, <3>1 DEF DeleteRequest
  <2> QED
    BY <1>1, <2>1, <2>2, <2>3, <2>4
<1>4. PICK t \in AnyTask :
        /\ Starts(h, t) /\ t.op \in AskOps \cup {"confirmed"}
        /\ t.op = "remove" => Ungated = t.ungated /\ MayRemove(t.user, t.target)
  BY <1>3
<1>5. Becomes(h, "idle", t.op) /\ task'[h] = t
  BY <1>4, StartMoves
<1> QED
  BY <1>2, <1>4, <1>5, NoneIsNoRequest DEF Becomes, Op, Starts

\* What a deletion's own steps make of its request.
LEMMA DropSessionsTask ==
    ASSUME TypeOK, NEW h \in Handler, DropSessions(h)
    PROVE  /\ Op(task[h]) = "confirmed" /\ Op(task'[h]) = "signed out"
           /\ task'[h].user = task[h].user /\ task[h].user \in User
           /\ task'[h].clean => \A g \in Busy \ {h} : task[g].user # task[h].user
           /\ \A g \in Handler \ {h} : task'[g] = task[g]
<1>1. h \in Doing("confirmed") /\ Op(task[h]) = "confirmed" /\ task[h].user \in User
  BY DoingFields DEF DropSessions
<1> DEFINE others == {other \in Busy \ {h} : task[other].user = task[h].user}
           t == [op |-> "signed out", user |-> task[h].user, clean |-> others = {}]
<1>2. task' = [task EXCEPT ![h] = t]
  BY DEF DropSessions
<1>3. t \in AnyTask /\ t.op = "signed out"
  BY <1>1 DEF AnyTask, Task
<1>4. task'[h] = t /\ \A g \in Handler \ {h} : task'[g] = task[g]
  <2> HIDE DEF t
  <2> QED
    BY <1>2, <1>3, OneMoves DEF Becomes
<1>5. t.user = task[h].user /\ (t.clean => others = {})
  OBVIOUS
<1>6. Op(t) = "signed out"
  BY <1>3, NoneIsNoRequest DEF Op
<1> HIDE DEF t
<1> QED
  BY <1>1, <1>4, <1>5, <1>6

LEMMA RebuildTask ==
    ASSUME TypeOK, NEW h \in Handler, RebuildParticipants(h)
    PROVE  /\ Op(task[h]) = "unlisted" /\ task[h].user \in User /\ task[h].clean \in BOOLEAN
           /\ task'[h].user = task[h].user /\ task'[h].clean = task[h].clean
           /\ \/ /\ Op(task'[h]) = "rebuilt" /\ Member(task[h].user) /\ posts' = posts
                 /\ task'[h].list = [participants EXCEPT ![task[h].user] = 0]
              \/ /\ Op(task'[h]) = "walked" /\ ~ Member(task[h].user)
                 /\ posts' = Tombstoned(task[h].user)
           /\ \A g \in Handler \ {h} : task'[g] = task[g]
<1>1. h \in Doing("unlisted") /\ Op(task[h]) = "unlisted" /\ task[h].user \in User
      /\ task[h].clean \in BOOLEAN
  BY DoingFields DEF RebuildParticipants, DeleteOps
<1> DEFINE w == [op |-> "walked", user |-> task[h].user, clean |-> task[h].clean]
           r == [op |-> "rebuilt", user |-> task[h].user, clean |-> task[h].clean,
                 list |-> [participants EXCEPT ![task[h].user] = 0]]
<1>2. w \in AnyTask /\ Op(w) = "walked" /\ r \in AnyTask /\ Op(r) = "rebuilt"
  BY <1>1, NoneIsNoRequest DEF AnyTask, Task, Op, TypeOK
<1>3. /\ w.user = task[h].user /\ w.clean = task[h].clean
      /\ r.user = task[h].user /\ r.clean = task[h].clean
      /\ r.list = [participants EXCEPT ![task[h].user] = 0]
  OBVIOUS
<1>4. \/ Member(task[h].user) /\ task' = [task EXCEPT ![h] = r] /\ posts' = posts
      \/ ~ Member(task[h].user) /\ task' = [task EXCEPT ![h] = w]
         /\ posts' = Tombstoned(task[h].user)
  BY DEF RebuildParticipants
<1> HIDE DEF w, r
<1>5. ASSUME NEW t \in AnyTask, task' = [task EXCEPT ![h] = t]
      PROVE  task'[h] = t /\ \A g \in Handler \ {h} : task'[g] = task[g]
  BY <1>5, OneMoves DEF Becomes
<1> QED
  BY <1>1, <1>2, <1>3, <1>4, <1>5

LEMMA ReplaceTask ==
    ASSUME TypeOK, NEW h \in Handler, ReplaceParticipants(h)
    PROVE  /\ Op(task[h]) = "rebuilt" /\ task[h].user \in User /\ task[h].clean \in BOOLEAN
           /\ task[h].list \in [User -> Nat]
           /\ Op(task'[h]) = "walked"
           /\ task'[h].user = task[h].user /\ task'[h].clean = task[h].clean
           /\ \A g \in Handler \ {h} : task'[g] = task[g]
<1>1. h \in Doing("rebuilt") /\ Op(task[h]) = "rebuilt" /\ task[h].user \in User
      /\ task[h].clean \in BOOLEAN /\ task[h].list \in [User -> Nat]
  BY DoingFields DEF ReplaceParticipants, DeleteOps
<1> DEFINE w == [op |-> "walked", user |-> task[h].user, clean |-> task[h].clean]
<1>2. w \in AnyTask /\ Op(w) = "walked" /\ w.user = task[h].user /\ w.clean = task[h].clean
  BY <1>1, NoneIsNoRequest DEF AnyTask, Task, Op
<1>3. task' = [task EXCEPT ![h] = w]
  BY DEF ReplaceParticipants
<1> HIDE DEF w
<1>4. task'[h] = w /\ \A g \in Handler \ {h} : task'[g] = task[g]
  BY <1>2, <1>3, OneMoves DEF Becomes
<1> QED
  BY <1>1, <1>2, <1>4

LEMMA OwnerInvInit == GroupsInit => OwnerInv
  BY DEF GroupsInit, Init, OwnerInv, Op

\* Of the steps of the conversation, one writes roles and none makes an owner.
LEMMA ChatKeepsOwners ==
    ASSUME GroupsInv, OwnerInv, NEW h \in Handler, ChatStep(h) PROVE OwnerInv'
<1>0. TypeOK /\ TasksTyped /\ ChatTyped
  BY TypeParts DEF GroupsInv
<1>1. CASE ChatAsks(h)
  BY <1>0, <1>1, ChatAsksLeave DEF OwnerInv, MayRemove, ChatTyped
<1>2. CASE ~ ChatAsks(h)
  <2>1. \A g \in Handler : Op(task'[g]) = "remove" => task'[g] = task[g]
    <3>1. CASE ChatGoesOn(h)
      <4>1. \A g \in Handler \ {h} : task'[g] = task[g]
        BY <1>0, <3>1
           DEF ChatGoesOn, DropSessions, RebuildParticipants, ReplaceParticipants, TasksTyped
      <4>2. Op(task'[h]) \in {"signed out", "rebuilt", "walked"}
        BY <1>0, <3>1, DropSessionsTask, RebuildTask, ReplaceTask DEF ChatGoesOn
      <4> QED
        BY <4>1, <4>2
    <3>2. CASE ChatSaves(h)
      BY <1>0, <3>2
         DEF ChatSaves, Send, AddParticipant, RemoveParticipant, SetRole, DropUser, Ends,
             TasksTyped, Op
    <3> QED
      BY <1>2, <3>1, <3>2 DEF ChatStep
  <2>2. \A u \in User : roles'[u] = "owner" => roles[u] = "owner"
    <3>1. CASE RemoveParticipant(h)
      BY <1>0, <3>1 DEF RemoveParticipant, ChatTyped
    <3>2. CASE SetRole(h)
      <4>1. task[h].op \in {"admin", "member"}
        BY <3>2 DEF SetRole, Doing
      <4> QED
        BY <1>0, <3>2, <4>1 DEF SetRole, ChatTyped
    <3>3. CASE ChatGoesOn(h) \/ Send(h) \/ AddParticipant(h) \/ DropUser(h)
      BY <3>3 DEF ChatGoesOn, DropSessions, RebuildParticipants, ReplaceParticipants, Send,
                  AddParticipant, DropUser
    <3> QED
      BY <1>2, <3>1, <3>2, <3>3 DEF ChatStep, ChatSaves
  <2>3. \A g \in Handler : Op(task[g]) = "remove" => task[g].target \in User
    BY <1>0, TaskFields DEF Op, AskOps
  <2> QED
    BY <2>1, <2>2, <2>3 DEF OwnerInv
<1> QED
  BY <1>1, <1>2

LEMMA OwnerInvNext ==
    ASSUME GroupsInv, OwnerInv, [Next]_vars PROVE OwnerInv'
<1>0. TypeOK /\ PollInv /\ left \in [Request -> Nat]
  BY DEF GroupsInv, TypeOK
<1>1. ASSUME NEW h \in Handler, UploadStep(h) \/ PollStep(h) \/ PersonalStep(h) PROVE OwnerInv'
  <2>1. UNCHANGED roles /\ \A g \in Handler : Op(task'[g]) = "remove" => task'[g] = task[g]
    BY <1>0, <1>1, OthersKeep DEF AskOps
  <2> QED
    BY <2>1 DEF OwnerInv
<1>2. CASE RefuseStep \/ UNCHANGED memoryVars
  BY <1>2 DEF RefuseStep, DropUpload, OwnerInv, memoryVars, chatVars
<1>3. CASE Restart
  BY <1>3 DEF Restart, OwnerInv, Op
<1> QED
  BY <1>0, <1>1, <1>2, <1>3, StepKinds, ChatKeepsOwners

\* Nobody else takes the owner out of the conversation (MayRemove).
THEOREM OwnerLeavesAlone == Spec => OwnerOnlyLeaves
<1> DEFINE Explained == \A u \in User :
        (Member(u) /\ roles[u] = "owner" /\ ~ Member(u)') =>
            \/ \E h \in Doing("remove") : /\ task[h].target = u
                                          /\ task[h].user = u \/ task[h].ungated
            \/ \E h \in Doing("rebuilt") : task[h].list[u] = 0
            \/ Restart
<1>1. ASSUME GroupsInv, OwnerInv, Next PROVE Explained
  <2>0. TypeOK /\ PollInv /\ left \in [Request -> Nat] /\ ChatTyped
    BY <1>1, TypeParts DEF GroupsInv
  <2> SUFFICES ASSUME NEW u \in User, Member(u), roles[u] = "owner", ~ Member(u)', ~ Restart
               PROVE  \/ \E h \in Doing("remove") : /\ task[h].target = u
                                                    /\ task[h].user = u \/ task[h].ungated
                      \/ \E h \in Doing("rebuilt") : task[h].list[u] = 0
    OBVIOUS
  <2>1. participants' # participants
    BY DEF Member
  <2>2. PICK h \in Handler : ChatStep(h)
    BY <1>1, <2>0, <2>1, NextSteps, OthersKeep
       DEF RefuseStep, DropUpload, memoryVars, chatVars
  <2>3. AddParticipant(h) \/ RemoveParticipant(h) \/ ReplaceParticipants(h)
    BY <2>0, <2>1, <2>2, ChatAsksLeave
       DEF ChatStep, ChatGoesOn, DropSessions, RebuildParticipants, ChatSaves, Send, SetRole,
           DropUser
  <2>4. CASE AddParticipant(h)
    BY <2>0, <2>4 DEF AddParticipant, Member, ChatTyped
  <2>5. CASE RemoveParticipant(h)
    <3>1. h \in Doing("remove") /\ Op(task[h]) = "remove" /\ h \in Handler
      BY <2>0, <2>5, DoingFields DEF RemoveParticipant
    <3>2. task[h].target = u
      BY <2>0, <2>5 DEF RemoveParticipant, Member, ChatTyped
    <3> QED
      BY <1>1, <3>1, <3>2 DEF OwnerInv
  <2>6. CASE ReplaceParticipants(h)
    <3>1. h \in Doing("rebuilt") /\ task[h].list \in [User -> Nat]
      BY <2>0, <2>6, DoingFields DEF ReplaceParticipants
    <3>2. task[h].list[u] = 0
      BY <2>6, <3>1 DEF ReplaceParticipants, Member
    <3> QED
      BY <3>1, <3>2
  <2> QED
    BY <2>3, <2>4, <2>5, <2>6
<1>2. GroupsInv /\ OwnerInv /\ [Next]_vars => [Explained]_vars
  BY <1>1
<1>3. GroupsInv /\ OwnerInv /\ [Next]_vars => OwnerInv'
  BY OwnerInvNext
<1> HIDE DEF Explained
<1>4. Spec => [][Explained]_vars
  BY <1>2, <1>3, OwnerInvInit, GroupsInvariant, PTL DEF Spec
<1> QED
  BY <1>4 DEF Explained, OwnerOnlyLeaves

\* What MemberInv says of the steps that write neither the list nor the answers.
LEMMA MembersUndisturbed ==
    ASSUME MemberInv, UNCHANGED <<participants, told>>,
           ASSUME NEW g \in Handler, Op(task'[g]) = "rebuilt"
           PROVE  /\ Op(task[g]) = "rebuilt" /\ task'[g].list = task[g].list
                  /\ task'[g].user = task[g].user,
           \/ newest' = Snapshot'
           \/ /\ newest'.participants = newest.participants
              /\ \A g \in Handler : Op(task[g]) = "walked" =>
                    Op(task'[g]) = "walked" /\ task'[g].user = task[g].user
    PROVE  MemberInv'
<1>1. \A u \in User : Counted(participants'[u], told'[u])
  BY DEF MemberInv
<1>2. \A g \in Handler : Op(task'[g]) = "rebuilt" =>
        /\ task'[g].list[task'[g].user] = 0
        /\ \A u \in User \ {task'[g].user} : Counted(task'[g].list[u], told'[u])
  BY DEF MemberInv
<1>3. \A u \in User :
        \/ Counted(newest'.participants[u], told'[u])
        \/ \E g \in Handler : Op(task'[g]) = "walked" /\ task'[g].user = u
  <2>1. CASE newest' = Snapshot'
    BY <1>1, <2>1 DEF Snapshot
  <2>2. CASE newest'.participants = newest.participants
             /\ \A g \in Handler : Op(task[g]) = "walked" =>
                    Op(task'[g]) = "walked" /\ task'[g].user = task[g].user
    BY <2>2 DEF MemberInv
  <2> QED
    BY <2>1, <2>2
<1> QED
  BY <1>1, <1>2, <1>3 DEF MemberInv

\* One user's mentions and answer change; no copy will be written back over it, or the
\* answer is unclear.
LEMMA OneMemberChanges ==
    ASSUME MemberInv, TypeOK, NEW h \in Handler, Op(task[h]) \notin {"rebuilt", "walked"},
           task' = [task EXCEPT ![h] = None],
           NEW u \in User, NEW n \in Nat, NEW what \in What,
           participants' = [participants EXCEPT ![u] = n], told' = [told EXCEPT ![u] = what],
           Counted(n, what), Overwritten(h) => what = "unclear", newest' = Snapshot'
    PROVE  MemberInv'
<1>0. TasksTyped /\ ChatTyped
  BY TypeParts
<1>1. \A v \in User : Counted(participants'[v], told'[v])
  BY <1>0 DEF MemberInv, ChatTyped
<1>2. ASSUME NEW g \in Handler, Op(task'[g]) = "rebuilt"
      PROVE  /\ task'[g].list[task'[g].user] = 0
             /\ \A v \in User \ {task'[g].user} : Counted(task'[g].list[v], told'[v])
  <2>1. g # h /\ task'[g] = task[g]
    BY <1>0, <1>2 DEF TasksTyped, Op
  <2>2. Overwritten(h)
    BY <1>2, <2>1, DoingIsOp DEF Overwritten
  <2> QED
    BY <1>0, <1>2, <2>1, <2>2 DEF MemberInv, ChatTyped, Counted
<1>3. \A v \in User : Counted(newest'.participants[v], told'[v])
  BY <1>1 DEF Snapshot
<1> QED
  BY <1>1, <1>2, <1>3 DEF MemberInv

LEMMA ChatKeepsMembers ==
    ASSUME GroupsInv, MemberInv, NEW h \in Handler, ChatStep(h) PROVE MemberInv'
<1>0. TypeOK /\ TasksTyped /\ ChatTyped
  BY TypeParts DEF GroupsInv
<1>1. CASE ChatAsks(h)
  <2>1. newest' = newest \/ newest' = Snapshot'
    BY DEF ChatStep
  <2> QED
    BY <1>0, <1>1, <2>1, ChatAsksLeave, MembersUndisturbed DEF Op, AskOps
<1>2. CASE DropSessions(h)
  <2>1. UNCHANGED <<participants, told>>
    BY <1>2 DEF DropSessions, historyVars
  <2> QED
    BY <1>0, <1>2, <2>1, DropSessionsTask, MembersUndisturbed DEF ChatStep
<1>3. CASE RebuildParticipants(h)
  <2> DEFINE u == task[h].user
  <2>1. UNCHANGED <<participants, told>>
    BY <1>3 DEF RebuildParticipants, historyVars
  <2>2. \A v \in User : Counted(participants'[v], told'[v])
    BY <2>1 DEF MemberInv
  <2>3. ASSUME NEW g \in Handler, Op(task'[g]) = "rebuilt"
        PROVE  /\ task'[g].list[task'[g].user] = 0
               /\ \A v \in User \ {task'[g].user} : Counted(task'[g].list[v], told'[v])
    <3>1. CASE g = h
      <4>1. u \in User /\ task'[g].user = u
            /\ task'[g].list = [participants EXCEPT ![u] = 0]
        BY <1>0, <1>3, <2>3, <3>1, RebuildTask
      <4> HIDE DEF u
      <4> QED
        BY <1>0, <2>1, <2>2, <4>1 DEF ChatTyped
    <3>2. CASE g # h
      <4>1. task'[g] = task[g]
        BY <1>0, <1>3, <3>2, RebuildTask
      <4> QED
        BY <2>1, <2>3, <4>1 DEF MemberInv
    <3> QED
      BY <3>1, <3>2
  <2>4. \A v \in User :
          \/ Counted(newest'.participants[v], told'[v])
          \/ \E g \in Handler : Op(task'[g]) = "walked" /\ task'[g].user = v
    <3>1. \A g \in Handler : Op(task[g]) = "walked" => task'[g] = task[g]
      BY <1>0, <1>3, RebuildTask
    <3>2. CASE newest' = Snapshot'
      BY <2>2, <3>2 DEF Snapshot
    <3>3. CASE newest' = newest
      BY <2>1, <3>1, <3>3 DEF MemberInv
    <3> QED
      BY <3>2, <3>3 DEF ChatStep
  <2> QED
    BY <2>2, <2>3, <2>4 DEF MemberInv
<1>4. CASE ReplaceParticipants(h)
  <2> DEFINE u == task[h].user
  <2>1. PICK what \in {"unclear", "out"} :
            /\ told' = [told EXCEPT ![u] = what]
            /\ Overwritten(h) => what = "unclear"
    BY <1>4 DEF ReplaceParticipants
  <2>2. participants' = task[h].list /\ u \in User /\ Op(task[h]) = "rebuilt"
    BY <1>0, <1>4, ReplaceTask DEF ReplaceParticipants
  <2>6. \A v \in User : told'[v] = IF v = u THEN what ELSE told[v]
    <3> HIDE DEF u
    <3> QED
      BY <1>0, <2>1 DEF ChatTyped
  <2>3. \A v \in User : Counted(participants'[v], told'[v])
    <3>1. participants'[u] = 0 /\ \A v \in User \ {u} : Counted(participants'[v], told[v])
      BY <2>2 DEF MemberInv
    <3>2. Counted(0, what)
      BY <2>1 DEF Counted
    <3> HIDE DEF u
    <3> QED
      BY <2>6, <3>1, <3>2
  <2>4. ASSUME NEW g \in Handler, Op(task'[g]) = "rebuilt"
        PROVE  /\ task'[g].list[task'[g].user] = 0
               /\ \A v \in User \ {task'[g].user} : Counted(task'[g].list[v], told'[v])
    <3>1. g # h /\ task'[g] = task[g]
      BY <1>0, <1>4, <2>4, ReplaceTask
    <3>2. what = "unclear"
      <4>1. g \in Doing("rebuilt")
        BY <2>4, <3>1, DoingIsOp
      <4> QED
        BY <2>1, <3>1, <4>1 DEF Overwritten
    <3>3. task[g].list[task[g].user] = 0
          /\ \A v \in User \ {task[g].user} : Counted(task[g].list[v], told[v])
      BY <2>4, <3>1 DEF MemberInv
    <3>4. \A n : Counted(n, what)
      BY <3>2 DEF Counted
    <3> HIDE DEF u
    <3> QED
      BY <2>6, <3>1, <3>3, <3>4
  <2>5. \A v \in User :
          \/ Counted(newest'.participants[v], told'[v])
          \/ \E g \in Handler : Op(task'[g]) = "walked" /\ task'[g].user = v
    <3>1. Op(task'[h]) = "walked" /\ task'[h].user = u
          /\ \A g \in Handler : Op(task[g]) = "walked" => task'[g] = task[g]
      BY <1>0, <1>4, <2>2, ReplaceTask
    <3>2. CASE newest' = Snapshot'
      BY <2>3, <3>2 DEF Snapshot
    <3>3. CASE newest' = newest
      <4>1. \A v \in User \ {u} : told'[v] = told[v]
        BY <2>6
      <4> QED
        BY <3>1, <3>3, <4>1 DEF MemberInv
    <3> QED
      BY <3>2, <3>3 DEF ChatStep
  <2> QED
    BY <2>3, <2>4, <2>5 DEF MemberInv
<1>5. CASE ChatSaves(h)
  <2>0. newest' = Snapshot' \/ ChatAsks(h) \/ ChatGoesOn(h)
    BY DEF ChatStep
  <2>1. CASE Send(h)
    <3>1. UNCHANGED <<participants, told>>
      BY <2>1 DEF Send, historyVars
    <3>2. \A g \in Handler : Op(task'[g]) = "rebuilt" => task'[g] = task[g]
      BY <1>0, <2>1 DEF Send, TasksTyped, Op
    <3> QED
      BY <2>0, <3>1, <3>2, MembersUndisturbed, <1>1, <1>2, <1>3, <1>4 DEF ChatGoesOn
  <2>2. CASE SetRole(h) \/ DropUser(h)
    <3>1. UNCHANGED <<participants, told>> /\ Ends(h)
      BY <2>2 DEF SetRole, DropUser, historyVars
    <3>2. \A g \in Handler : Op(task'[g]) = "rebuilt" => task'[g] = task[g]
      BY <1>0, <3>1 DEF Ends, TasksTyped, Op
    <3> QED
      BY <2>0, <3>1, <3>2, MembersUndisturbed, <1>1, <1>2, <1>3, <1>4 DEF ChatGoesOn
  <2>3. CASE AddParticipant(h)
    <3>1. h \in Doing("add") /\ Op(task[h]) = "add" /\ task[h].target \in User
      BY <1>0, <2>3, DoingFields DEF AddParticipant, AskOps
    <3> DEFINE u == task[h].target
               what == IF Member(u) \/ Overwritten(h) THEN "unclear" ELSE "in"
    <3>2. participants[u] + 1 \in Nat /\ (~ Member(u) => participants[u] = 0)
      BY <1>0, <3>1 DEF ChatTyped, Member
    <3>3. participants' = [participants EXCEPT ![u] = participants[u] + 1]
          /\ told' = [told EXCEPT ![u] = what] /\ task' = [task EXCEPT ![h] = None]
      BY <2>3 DEF AddParticipant, Ends
    <3>4. Counted(participants[u] + 1, what) /\ what \in What
          /\ (Overwritten(h) => what = "unclear")
      BY <3>2 DEF Counted, What
    <3> HIDE DEF u, what
    <3>5. CASE newest' = Snapshot'
      BY <1>0, <3>1, <3>2, <3>3, <3>4, <3>5, OneMemberChanges DEF u
    <3> QED
      BY <2>0, <3>5, <1>1, <1>2, <1>3, <1>4 DEF ChatGoesOn
  <2>4. CASE RemoveParticipant(h)
    <3>1. h \in Doing("remove") /\ Op(task[h]) = "remove" /\ task[h].target \in User
      BY <1>0, <2>4, DoingFields DEF RemoveParticipant, AskOps
    <3>2. task' = [task EXCEPT ![h] = None]
      BY <2>4 DEF RemoveParticipant, Ends
    <3> DEFINE u == task[h].target
               what == IF told[u] = "unclear" \/ Overwritten(h) THEN "unclear" ELSE "out"
    <3>3. CASE ~ Member(u)
      <4>1. UNCHANGED <<participants, told>>
        BY <2>4, <3>3 DEF RemoveParticipant
      <4>2. \A g \in Handler : Op(task'[g]) = "rebuilt" => task'[g] = task[g]
        BY <1>0, <3>2 DEF TasksTyped, Op
      <4> QED
        BY <2>0, <4>1, <4>2, MembersUndisturbed, <1>1, <1>2, <1>3, <1>4 DEF ChatGoesOn
    <3>4. CASE Member(u)
      <4>1. participants[u] - 1 \in Nat /\ told[u] \in What
        BY <1>0, <3>1, <3>4 DEF ChatTyped, Member, What
      <4>2. participants' = [participants EXCEPT ![u] = participants[u] - 1]
            /\ told' = [told EXCEPT ![u] = what]
        BY <2>4, <3>4 DEF RemoveParticipant
      <4>3. Counted(participants[u] - 1, what) /\ what \in What
            /\ (Overwritten(h) => what = "unclear")
        <5>1. told[u] # "unclear" => participants[u] = 1
          BY <1>0, <3>1, <3>4, <4>1 DEF MemberInv, Counted, Member, ChatTyped, What
        <5> QED
          BY <5>1 DEF Counted, What
      <4> HIDE DEF u, what
      <4>4. CASE newest' = Snapshot'
        BY <1>0, <3>1, <3>2, <4>1, <4>2, <4>3, <4>4, OneMemberChanges DEF u
      <4> QED
        BY <2>0, <4>4, <1>1, <1>2, <1>3, <1>4 DEF ChatGoesOn
    <3> QED
      BY <3>3, <3>4
  <2> QED
    BY <1>5, <2>1, <2>2, <2>3, <2>4 DEF ChatSaves
<1> QED
  BY <1>1, <1>2, <1>3, <1>4, <1>5 DEF ChatStep, ChatGoesOn

LEMMA MemberInvInit == GroupsInit => MemberInv
  BY DEF GroupsInit, Init, MemberInv, Counted, Op, Snapshot

LEMMA MemberInvNext == ASSUME GroupsInv, MemberInv, [Next]_vars PROVE MemberInv'
<1>0. TypeOK /\ PollInv /\ left \in [Request -> Nat] /\ ChatTyped
  BY TypeParts DEF GroupsInv
<1>1. ASSUME NEW h \in Handler, UploadStep(h) \/ PollStep(h) \/ PersonalStep(h) PROVE MemberInv'
  <2>1. UNCHANGED <<participants, told>> /\ newest' \in {newest, Snapshot'}
    BY <1>0, <1>1, OthersKeep
  <2>2. ASSUME NEW g \in Handler, {Op(task[g]), Op(task'[g])} \cap {"rebuilt", "walked"} # {}
        PROVE  /\ Op(task'[g]) = Op(task[g]) /\ task'[g].user = task[g].user
               /\ Op(task[g]) = "rebuilt" => task'[g].list = task[g].list
    BY <1>0, <1>1, <2>2, OthersKeep, SpoiltFields
  <2> QED
    BY <2>1, <2>2, MembersUndisturbed
<1>2. CASE RefuseStep \/ UNCHANGED memoryVars
  BY <1>2 DEF RefuseStep, DropUpload, MemberInv, memoryVars, chatVars
<1>3. CASE Restart
  <2>1. /\ participants' = file.participants /\ newest' = file
        /\ ~ Outdated => newest = file
        /\ \A h \in Handler : task'[h] = None
    BY <1>3 DEF Restart, Outdated
  <2>2. \A u \in User : told'[u] = IF Outdated \/ \E h \in Doing("walked") : task[h].user = u
                                  THEN "unclear" ELSE told[u]
    BY <1>3 DEF Restart
  <2>3. ASSUME NEW u \in User PROVE Counted(participants'[u], told'[u])
    <3>1. CASE Outdated \/ \E h \in Doing("walked") : task[h].user = u
      BY <2>2, <3>1 DEF Counted
    <3>2. CASE ~ (Outdated \/ \E h \in Doing("walked") : task[h].user = u)
      <4>1. Counted(newest.participants[u], told[u])
        BY <3>2, DoingIsOp DEF MemberInv
      <4> QED
        BY <2>1, <2>2, <3>2, <4>1
    <3> QED
      BY <3>1, <3>2
  <2> QED
    BY <2>1, <2>3 DEF MemberInv, Op
<1> QED
  BY <1>0, <1>1, <1>2, <1>3, StepKinds, ChatKeepsMembers

\* The lists agree with the answers at every moment, and a restart reads back one that
\* does, unless the file is outdated (add_participant, remove_participant, delete).
THEOREM MembershipHolds == Spec => []MembershipAsAnswered
<1>1. MemberInv => MembershipAsAnswered
  BY DEF MemberInv, Counted, MembershipAsAnswered
<1>2. Spec => []MemberInv
  BY MemberInvInit, MemberInvNext, GroupsInvariant, PTL DEF Spec
<1> QED
  BY <1>1, <1>2, PTL

--------------------------------------------------------------------------------
(* The limit of the uploads under way *)

Begins(u) == {g \in Handler : Op(task[g]) = "begin" /\ task[g].user = u}

\* A request that passed the test is one upload that is still to come.
BoundInv ==
    /\ IsFiniteSet(DOMAIN uploads)
    /\ \A u \in User : Cardinality(UploadsOf(u)) + Cardinality(Begins(u))
                            <= PerUser + Cardinality(Handler) - 1

LEMMA HandlersCounted ==
    /\ Cardinality(Handler) \in Nat
    /\ \A u : Cardinality(Begins(u)) \in Nat /\ Cardinality(Begins(u)) <= Cardinality(Handler)
              /\ IsFiniteSet(Begins(u))
    /\ \A u : Cardinality(Begins(u)') \in Nat /\ Cardinality(Begins(u)') <= Cardinality(Handler)
<1>1. Cardinality(Handler) \in Nat /\ \A S \in SUBSET Handler :
        IsFiniteSet(S) /\ Cardinality(S) \in Nat /\ Cardinality(S) <= Cardinality(Handler)
  BY GroupChatAssumption, FS_Subset, FS_CardinalityType
<1>2. \A u : Begins(u) \in SUBSET Handler /\ Begins(u)' \in SUBSET Handler
  BY DEF Begins
<1> QED
  BY <1>1, <1>2

LEMMA UploadsCounted ==
    ASSUME IsFiniteSet(DOMAIN uploads), NEW u
    PROVE  IsFiniteSet(UploadsOf(u)) /\ Cardinality(UploadsOf(u)) \in Nat
<1>1. UploadsOf(u) \in SUBSET DOMAIN uploads
  BY DEF UploadsOf
<1> QED
  BY <1>1, FS_Subset, FS_CardinalityType

\* No more uploads than before, of users that begin as many.
LEMMA FewerUploads ==
    ASSUME BoundInv, DOMAIN uploads' \subseteq DOMAIN uploads,
           \A i \in DOMAIN uploads' : uploads'[i].user = uploads[i].user,
           \A g \in Handler : {Op(task[g]), Op(task'[g])} \cap {"begin"} # {}
                                => task'[g] = task[g]
    PROVE  BoundInv'
<1>1. IsFiniteSet(DOMAIN uploads')
  BY FS_Subset DEF BoundInv
<1>2. ASSUME NEW u \in User
      PROVE  Cardinality(UploadsOf(u)') + Cardinality(Begins(u)')
                <= PerUser + Cardinality(Handler) - 1
  <2>1. UploadsOf(u)' \in SUBSET UploadsOf(u) /\ Begins(u)' = Begins(u)
    BY DEF UploadsOf, Begins
  <2>2. /\ Cardinality(UploadsOf(u)') <= Cardinality(UploadsOf(u))
        /\ Cardinality(UploadsOf(u)') \in Nat
        /\ Cardinality(UploadsOf(u)) \in Nat /\ Cardinality(Begins(u)) \in Nat
    BY <2>1, UploadsCounted, HandlersCounted, FS_Subset, FS_CardinalityType DEF BoundInv
  <2>3. /\ Cardinality(UploadsOf(u)) + Cardinality(Begins(u)) <= PerUser + Cardinality(Handler) - 1
        /\ PerUser \in Nat /\ Cardinality(Handler) \in Nat
    BY HandlersCounted, UploadsAssumption DEF BoundInv
  <2> QED
    BY <2>1, <2>2, <2>3
<1> QED
  BY <1>1, <1>2 DEF BoundInv

LEMMA UploadKeepsBound ==
    ASSUME GroupsInv, BoundInv, NEW h \in Handler, UploadStep(h) PROVE BoundInv'
<1>0. TypeOK /\ TasksTyped /\ UploadsTypeOK
  BY TypeParts DEF GroupsInv
<1>1. ASSUME NEW a \in User, BeginRequest(h, a) PROVE BoundInv'
  <2> DEFINE t == [op |-> "begin", user |-> a]
  <2>1. uploads' = uploads /\ Cardinality(UploadsOf(a)) < PerUser
    BY <1>1 DEF BeginRequest, MayBegin, uploadVars
  <2>2. Becomes(h, "idle", "begin") /\ task'[h] = t
    <3>1. t \in AnyTask /\ t.op = "begin"
      BY DEF AnyTask, UploadTask
    <3> HIDE DEF t
    <3> QED
      BY <1>0, <1>1, <3>1, StartMoves DEF BeginRequest, t
  <2>3. \A u : UploadsOf(u)' = UploadsOf(u)
    BY <2>1 DEF UploadsOf
  <2>4. \A u \in User \ {a} : Begins(u)' = Begins(u)
    BY <2>2 DEF Begins, Becomes
  <2>5. Cardinality(UploadsOf(a)) + Cardinality(Begins(a)') <= PerUser + Cardinality(Handler) - 1
    <3>1. Cardinality(UploadsOf(a)) \in Nat
      BY UploadsCounted DEF BoundInv
    <3> QED
      BY <2>1, <3>1, HandlersCounted, UploadsAssumption
  <2> QED
    BY <2>1, <2>3, <2>4, <2>5 DEF BoundInv
<1>2. CASE InitUpload(h)
  <2>1. PICK a \in User : h \in Doing("begin") /\ Op(task[h]) = "begin" /\ task[h].user = a
    BY <1>0, <1>2, DoingFields DEF InitUpload
  <2>2. Becomes(h, "begin", "idle")
    BY <1>0, <1>2, <2>1, EndMoves DEF InitUpload
  <2>3. /\ DOMAIN uploads' = DOMAIN uploads \cup {nextUpload}
        /\ uploads'[nextUpload].user = a
        /\ \A i \in DOMAIN uploads \ {nextUpload} : uploads'[i] = uploads[i]
    BY <1>2, <2>1 DEF InitUpload
  <2>4. IsFiniteSet(DOMAIN uploads')
    BY <2>3, FS_AddElement DEF BoundInv
  <2>5. ASSUME NEW u \in User \ {a}
        PROVE  Cardinality(UploadsOf(u)') + Cardinality(Begins(u)')
                    <= PerUser + Cardinality(Handler) - 1
    <3>1. UploadsOf(u)' \in SUBSET UploadsOf(u) /\ Begins(u)' = Begins(u)
      <4>1. UploadsOf(u)' \in SUBSET UploadsOf(u)
        BY <2>3 DEF UploadsOf
      <4>2. Begins(u)' = Begins(u)
        BY <2>1, <2>2 DEF Begins, Becomes
      <4> QED
        BY <4>1, <4>2
    <3>2. /\ Cardinality(UploadsOf(u)') <= Cardinality(UploadsOf(u))
          /\ Cardinality(UploadsOf(u)') \in Nat
          /\ Cardinality(UploadsOf(u)) \in Nat /\ Cardinality(Begins(u)) \in Nat
      BY <3>1, UploadsCounted, HandlersCounted, FS_Subset, FS_CardinalityType DEF BoundInv
    <3>3. /\ Cardinality(UploadsOf(u)) + Cardinality(Begins(u))
                <= PerUser + Cardinality(Handler) - 1
          /\ PerUser \in Nat /\ Cardinality(Handler) \in Nat
      BY HandlersCounted, UploadsAssumption DEF BoundInv
    <3> QED
      BY <3>1, <3>2, <3>3
  <2>6. Cardinality(UploadsOf(a)') + Cardinality(Begins(a)')
            <= PerUser + Cardinality(Handler) - 1
    <3>1. UploadsOf(a)' \in SUBSET (UploadsOf(a) \cup {nextUpload})
      BY <2>3 DEF UploadsOf
    <3>2. h \in Begins(a) /\ Begins(a)' = Begins(a) \ {h}
      BY <1>0, <2>1, <2>2 DEF Begins, Becomes
    <3>3. Cardinality(Begins(a)') = Cardinality(Begins(a)) - 1 /\ Cardinality(Begins(a)) \in Nat
      BY <3>2, FS_RemoveElement, HandlersCounted
    <3>4. /\ Cardinality(UploadsOf(a)') <= Cardinality(UploadsOf(a)) + 1
          /\ Cardinality(UploadsOf(a)') \in Nat /\ Cardinality(UploadsOf(a)) \in Nat
      <4>1. IsFiniteSet(UploadsOf(a)) /\ Cardinality(UploadsOf(a)) \in Nat
        BY UploadsCounted DEF BoundInv
      <4>2. /\ IsFiniteSet(UploadsOf(a) \cup {nextUpload})
            /\ Cardinality(UploadsOf(a) \cup {nextUpload}) <= Cardinality(UploadsOf(a)) + 1
            /\ Cardinality(UploadsOf(a) \cup {nextUpload}) \in Nat
        <5>1. IsFiniteSet(UploadsOf(a) \cup {nextUpload})
              /\ \/ Cardinality(UploadsOf(a) \cup {nextUpload}) = Cardinality(UploadsOf(a))
                 \/ Cardinality(UploadsOf(a) \cup {nextUpload}) = Cardinality(UploadsOf(a)) + 1
          BY <4>1, FS_AddElement
        <5> QED
          BY <4>1, <5>1
      <4>3. /\ Cardinality(UploadsOf(a)') <= Cardinality(UploadsOf(a) \cup {nextUpload})
            /\ Cardinality(UploadsOf(a)') \in Nat
        BY <3>1, <4>2, FS_Subset, FS_CardinalityType
      <4> QED
        BY <4>1, <4>2, <4>3
    <3>5. /\ Cardinality(UploadsOf(a)) + Cardinality(Begins(a))
                <= PerUser + Cardinality(Handler) - 1
          /\ PerUser \in Nat /\ Cardinality(Handler) \in Nat
      BY <2>1, HandlersCounted, UploadsAssumption DEF BoundInv
    <3> QED
      BY <3>3, <3>4, <3>5
  <2> QED
    BY <2>4, <2>5, <2>6 DEF BoundInv
<1>3. CASE ~ InitUpload(h) /\ ~ \E a \in User : BeginRequest(h, a)
  <2>1. DOMAIN uploads' \subseteq DOMAIN uploads
        /\ \A i \in DOMAIN uploads' : uploads'[i].user = uploads[i].user
    <3>1. ASSUME NEW i \in DOMAIN uploads, NEW chunk, ChunkRequest(h, i, chunk) \/ CompleteRequest(h, i)
          PROVE  DOMAIN uploads' \subseteq DOMAIN uploads
                 /\ \A j \in DOMAIN uploads' : uploads'[j].user = uploads[j].user
      BY <1>0, <3>1, MarkedTyped DEF ChunkRequest, CompleteRequest
    <3>2. CASE AcceptChunk(h)
      <4>1. \A i \in DOMAIN uploads : uploads[i] \in Upload
        BY <1>0 DEF UploadsTypeOK
      <4>2. CASE uploads' = uploads
        BY <4>2
      <4>3. PICK i, b, n : uploads' = uploads
                            \/ uploads' = [uploads EXCEPT ![i].buffer = b, ![i].next = n]
        BY <3>2 DEF AcceptChunk
      <4>4. CASE uploads' = [uploads EXCEPT ![i].buffer = b, ![i].next = n]
        BY <4>1, <4>4 DEF Upload
      <4> QED
        BY <4>2, <4>3, <4>4
    <3>3. CASE ReleaseUpload(h)
      BY <1>0, <3>3, WithoutTyped DEF ReleaseUpload
    <3>4. CASE uploads' = uploads
      BY <3>4
    <3> QED
      BY <1>3, <3>1, <3>2, <3>3, <3>4
         DEF UploadStep, UploadAsks, UploadGoesOn, AttachRequest, PostAttachment, SendAttachment,
             uploadVars
  <2>2. \A g \in Handler : {Op(task[g]), Op(task'[g])} \cap {"begin"} # {} => task'[g] = task[g]
    <3>1. CASE UploadAsks(h)
      <4>1. ASSUME NEW t \in AnyTask, Starts(h, t), t.op # "begin"
            PROVE  \A g \in Handler : {Op(task[g]), Op(task'[g])} \cap {"begin"} # {}
                                        => task'[g] = task[g]
        BY <1>0, <4>1, StartMoves DEF Becomes
      <4>2. \E t \in AnyTask : Starts(h, t) /\ t.op # "begin"
        <5>1. ASSUME NEW a \in User, AttachRequest(h, a)
              PROVE  \E t \in AnyTask : Starts(h, t) /\ t.op # "begin"
          BY <5>1 DEF AttachRequest, AnyTask, UploadTask
        <5>2. ASSUME NEW i \in DOMAIN uploads, NEW chunk \in 0 .. (Chunks - 1), ChunkRequest(h, i, chunk)
              PROVE  \E t \in AnyTask : Starts(h, t) /\ t.op # "begin"
          <6> DEFINE t == [op |-> "chunk", user |-> uploads[i].user, upload |-> i, chunk |-> chunk]
          <6>1. uploads[i].user \in User /\ i \in Nat /\ chunk \in Nat
            BY <1>0, UploadsAssumption DEF UploadsTypeOK, Upload
          <6>2. t \in AnyTask /\ t.op = "chunk" /\ Starts(h, t)
            BY <5>2, <6>1 DEF ChunkRequest, AnyTask, UploadTask
          <6> QED
            BY <6>2
        <5>3. ASSUME NEW i \in DOMAIN uploads, CompleteRequest(h, i)
              PROVE  \E t \in AnyTask : Starts(h, t) /\ t.op # "begin"
          <6> DEFINE t == [op |-> "post", user |-> uploads[i].user, upload |-> i,
                           attachment |-> Len(attachments) + 1, id |-> nextPost]
          <6>1. uploads[i].user \in User /\ i \in Nat /\ nextPost \in Nat
                /\ Len(attachments) + 1 \in Nat
            BY <1>0 DEF UploadsTypeOK, Upload, TypeOK
          <6>2. t \in AnyTask /\ t.op = "post" /\ Starts(h, t)
            BY <5>3, <6>1 DEF CompleteRequest, AnyTask, UploadTask
          <6> QED
            BY <6>2
        <5> QED
          BY <1>3, <3>1, <5>1, <5>2, <5>3 DEF UploadAsks
      <4> QED
        BY <4>1, <4>2
    <3>2. CASE AcceptChunk(h) \/ ReleaseUpload(h) \/ SendAttachment(h)
      <4>1. \E op \in {"chunk", "release", "attach"} : h \in Doing(op) /\ Ends(h)
        BY <3>2 DEF AcceptChunk, ReleaseUpload, SendAttachment
      <4> QED
        BY <1>0, <4>1, EndMoves DEF Becomes
    <3>3. CASE PostAttachment(h)
      <4>1. h \in Doing("post") /\ Op(task[h]) = "post" /\ task[h].user \in User
            /\ task[h].upload \in Nat
        BY <1>0, <3>3, DoingFields DEF PostAttachment
      <4> DEFINE t == [op |-> "release", user |-> task[h].user, upload |-> task[h].upload]
      <4>2. t \in AnyTask /\ Op(t) = "release"
        BY <4>1, NoneIsNoRequest DEF AnyTask, UploadTask, Op
      <4>3. task' = [task EXCEPT ![h] = t] \/ task' = [task EXCEPT ![h] = None]
        BY <3>3 DEF PostAttachment, Ends
      <4> HIDE DEF t
      <4> QED
        BY <1>0, <4>1, <4>2, <4>3 DEF TasksTyped, Op
    <3> QED
      BY <1>3, <3>1, <3>2, <3>3 DEF UploadStep, UploadGoesOn
  <2> QED
    BY <2>1, <2>2, FewerUploads
<1> QED
  BY <1>1, <1>2, <1>3

\* The other components leave the uploads and the requests on them alone.
LEMMA UploadsLeftAlone ==
    ASSUME TypeOK, PollInv, NEW h \in Handler, ChatStep(h) \/ PollStep(h) \/ PersonalStep(h)
    PROVE  /\ UNCHANGED uploadVars
           /\ \A g \in Handler :
                {Op(task[g]), Op(task'[g])} \cap UploadOps # {} => task'[g] = task[g]
<1> USE DEF UploadOps
<1>1. CASE ChatStep(h)
  BY <1>1, ChatStepMoves DEF ChatStep, ChatMoves, Moves, ChatOps, AskOps, DeleteOps
<1>2. CASE PollStep(h)
  BY <1>2, PollStepMoves DEF PollStep, PollMoves, Moves, PollOps
<1>3. CASE PersonalStep(h)
  <2>1. Moves((ChatOps \cup UploadOps \cup PersonalOps) \cup {"idle"}) /\ PersonalMoves
    BY <1>3, PersonalStepMoves, PersonalMovesElsewhere
  <2>2. \A g \in Handler : Spoilt(g) => Op(task'[g]) = Op(task[g]) /\ Op(task[g]) \in Forgetting
    BY SpoiltFields DEF Spoilt
  <2> QED
    BY <1>3, <2>1, <2>2 DEF PersonalStep, PersonalMoves, PersonalOps, Forgetting
<1> QED
  BY <1>1, <1>2, <1>3

LEMMA BoundInvInit == GroupsInit => BoundInv
<1> SUFFICES ASSUME GroupsInit PROVE BoundInv
  OBVIOUS
<1>1. DOMAIN uploads = {} /\ \A u : UploadsOf(u) = {} /\ Begins(u) = {}
  BY DEF GroupsInit, UploadsInit, Init, UploadsOf, Begins, Op
<1>2. Cardinality({}) = 0 /\ IsFiniteSet({})
  BY FS_EmptySet
<1>3. 0 + 0 <= PerUser + Cardinality(Handler) - 1
  BY HandlersCounted, UploadsAssumption
<1> QED
  BY <1>1, <1>2, <1>3 DEF BoundInv

LEMMA BoundInvNext == ASSUME GroupsInv, BoundInv, [Next]_vars PROVE BoundInv'
<1>0. TypeOK /\ PollInv /\ left \in [Request -> Nat] /\ UploadsTypeOK
  BY TypeParts DEF GroupsInv
<1>1. ASSUME NEW h \in Handler, ChatStep(h) \/ PollStep(h) \/ PersonalStep(h) PROVE BoundInv'
  BY <1>0, <1>1, UploadsLeftAlone, FewerUploads DEF uploadVars, UploadOps
<1>2. CASE RefuseStep \/ UNCHANGED memoryVars
  <2>1. UNCHANGED task /\ (uploads' = uploads \/ \E i : uploads' = Without(i))
    BY <1>2 DEF RefuseStep, DropUpload, memoryVars, chatVars, uploadVars
  <2> QED
    BY <1>0, <2>1, WithoutTyped, FewerUploads
<1>3. CASE Restart
  <2>1. DOMAIN uploads' = {} /\ \A h \in Handler : Op(task'[h]) = "idle"
    BY <1>3 DEF Restart, Op
  <2>2. \A u : UploadsOf(u)' = {} /\ Begins(u)' = {}
    BY <2>1 DEF UploadsOf, Begins
  <2>3. Cardinality({}) = 0 /\ IsFiniteSet({})
    BY FS_EmptySet
  <2>4. 0 + 0 <= PerUser + Cardinality(Handler) - 1
    BY HandlersCounted, UploadsAssumption
  <2> QED
    BY <2>1, <2>2, <2>3, <2>4 DEF BoundInv
<1> QED
  BY <1>0, <1>1, <1>2, <1>3, StepKinds, UploadKeepsBound

\* However the requests of a user interleave, each handler passes the test at most once
\* before its upload is counted (init_upload).
THEOREM UploadsStayBounded == Spec => []UploadsBounded
<1>1. BoundInv => UploadsBounded
  <2> SUFFICES ASSUME BoundInv, NEW u \in User
               PROVE  Cardinality(UploadsOf(u)) <= PerUser + Cardinality(Handler) - 1
    BY DEF UploadsBounded
  <2>1. /\ Cardinality(UploadsOf(u)) + Cardinality(Begins(u)) <= PerUser + Cardinality(Handler) - 1
        /\ Cardinality(UploadsOf(u)) \in Nat /\ Cardinality(Begins(u)) \in Nat
        /\ PerUser \in Nat /\ Cardinality(Handler) \in Nat
    BY UploadsCounted, HandlersCounted, UploadsAssumption DEF BoundInv
  <2> QED
    BY <2>1
<1>2. Spec => []BoundInv
  BY BoundInvInit, BoundInvNext, GroupsInvariant, PTL DEF Spec
<1> QED
  BY <1>1, <1>2, PTL

--------------------------------------------------------------------------------
(* Message ids *)

\* Requests that have taken an id for the message that they will store.
Holds(g) == Op(task[g]) \in {"send", "post"}

Distinct(saved) == \A i, j \in DOMAIN saved :
    (i # j /\ saved[i].id = saved[j].id /\ saved[i].id # PollId) => saved[i].id \in shared

\* An id that a request holds is not above the counter and no stored message has it,
\* unless it was seen to be taken twice; what the file has is below the counter, too.
IdsInv ==
    /\ nextPost >= 1
    /\ \A g \in Handler : Holds(g) =>
        /\ 0 < task[g].id
        /\ IF Op(task[g]) = "send" THEN task[g].id <= nextPost ELSE task[g].id < nextPost
        /\ \A i \in DOMAIN posts : posts[i].id = task[g].id => task[g].id \in shared
        /\ \A k \in Handler \ {g} : Holds(k) /\ task[k].id = task[g].id => task[g].id \in shared
    /\ \A i \in DOMAIN posts : posts[i].id < nextPost
    /\ \A i \in DOMAIN newest.posts : newest.posts[i].id < nextPost
    /\ Distinct(posts) /\ Distinct(newest.posts)

\* No id is taken or stored; a request may give its id up.
LEMMA IdsUndisturbed ==
    ASSUME TypeOK, IdsInv, UNCHANGED <<nextPost, shared>>,
           DOMAIN posts' = DOMAIN posts, \A i \in DOMAIN posts : posts'[i].id = posts[i].id,
           \A g \in Handler : Holds(g)' => task'[g] = task[g],
           newest'.posts = newest.posts \/ newest'.posts = posts'
    PROVE  IdsInv'
<1>1. ASSUME NEW g \in Handler, Holds(g)'
      PROVE  /\ 0 < task'[g].id
             /\ IF Op(task'[g]) = "send" THEN task'[g].id <= nextPost'
                                         ELSE task'[g].id < nextPost'
             /\ \A i \in DOMAIN posts' : posts'[i].id = task'[g].id => task'[g].id \in shared'
             /\ \A k \in Handler \ {g} : Holds(k)' /\ task'[k].id = task'[g].id
                                            => task'[g].id \in shared'
  BY <1>1 DEF IdsInv, Holds
<1>2. Distinct(posts)' /\ \A i \in DOMAIN posts' : posts'[i].id < nextPost'
  BY DEF IdsInv, Distinct
<1>3. Distinct(newest.posts)' /\ \A i \in DOMAIN newest'.posts : newest'.posts[i].id < nextPost'
  BY <1>2 DEF IdsInv, Distinct
<1> QED
  BY <1>1, <1>2, <1>3 DEF IdsInv

LEMMA PostFields ==
    ASSUME NEW s \in Seq(Post), NEW i \in DOMAIN s
    PROVE  s[i].id \in Nat /\ s[i].sender \in User \cup {Tombstone} /\ s[i].attachment \in Nat
<1>1. s[i] \in Post
  OBVIOUS
<1> QED
  BY <1>1 DEF Post

\* A request takes the counter's number.
LEMMA IdTaken ==
    ASSUME TypeOK, IdsInv, NEW h \in Handler, task[h] = None, TakesId,
           UNCHANGED <<posts, newest>>,
           \A g \in Handler \ {h} : task'[g] = task[g],
           Holds(h)', task'[h].id = nextPost,
           \/ Op(task'[h]) = "send" /\ nextPost' = nextPost
           \/ nextPost' = nextPost + 1
    PROVE  IdsInv'
<1>0. nextPost \in Nat /\ posts \in Seq(Post) /\ newest.posts \in Seq(Post)
  BY DEF TypeOK, SavedState
<1>1. shared \subseteq shared' /\ nextPost' \in Nat /\ nextPost <= nextPost'
  BY <1>0 DEF TakesId
<1>2. ASSUME NEW k \in Handler \ {h}, Holds(k)', task'[k].id = nextPost PROVE nextPost \in shared'
  <2>1. Holds(k) /\ task[k].id = nextPost
    BY <1>2 DEF Holds
  <2>2. Op(task[k]) = "send"
    BY <1>0, <2>1 DEF IdsInv, Holds
  <2>3. k \in Doing("send")
    BY <2>2, DoingIsOp
  <2> QED
    BY <2>1, <2>3 DEF TakesId
<1>3. ASSUME NEW g \in Handler, Holds(g)'
      PROVE  /\ 0 < task'[g].id
             /\ IF Op(task'[g]) = "send" THEN task'[g].id <= nextPost'
                                         ELSE task'[g].id < nextPost'
             /\ \A i \in DOMAIN posts' : posts'[i].id = task'[g].id => task'[g].id \in shared'
             /\ \A k \in Handler \ {g} : Holds(k)' /\ task'[k].id = task'[g].id
                                            => task'[g].id \in shared'
  <2>1. CASE g = h
    <3>1. 0 < nextPost /\ \A i \in DOMAIN posts : posts[i].id # nextPost
      <4>1. \A i \in DOMAIN posts : posts[i].id \in Nat /\ posts[i].id < nextPost
        BY <1>0, PostFields DEF IdsInv
      <4> QED
        BY <1>0, <4>1 DEF IdsInv
    <3>2. IF Op(task'[g]) = "send" THEN task'[g].id <= nextPost' ELSE task'[g].id < nextPost'
      BY <1>0, <2>1
    <3> QED
      BY <1>2, <2>1, <3>1, <3>2
  <2>2. CASE g # h
    <3>1. Holds(g) /\ task'[g] = task[g] /\ task[g].id \in Nat
      <4>1. Holds(g) /\ task'[g] = task[g]
        BY <1>3, <2>2 DEF Holds
      <4>2. task[g] # None /\ task[g].op \in {"send", "post"}
        BY <4>1 DEF Holds, Op
      <4> QED
        BY <4>1, <4>2, TaskFields DEF AskOps
    <3>2. /\ 0 < task[g].id
          /\ IF Op(task[g]) = "send" THEN task[g].id <= nextPost ELSE task[g].id < nextPost
          /\ \A i \in DOMAIN posts : posts[i].id = task[g].id => task[g].id \in shared
          /\ \A k \in Handler \ {g} : Holds(k) /\ task[k].id = task[g].id => task[g].id \in shared
      BY <3>1 DEF IdsInv
    <3>3. IF Op(task[g]) = "send" THEN task[g].id <= nextPost' ELSE task[g].id < nextPost'
      BY <1>0, <1>1, <3>1, <3>2
    <3>4. ASSUME NEW k \in Handler \ {g}, Holds(k)', task'[k].id = task[g].id
          PROVE  task[g].id \in shared'
      <4>1. CASE k = h
        BY <1>2, <1>3, <2>2, <3>1, <3>4, <4>1
      <4>2. CASE k # h
        BY <1>1, <3>2, <3>4, <4>2 DEF Holds
      <4> QED
        BY <4>1, <4>2
    <3> QED
      BY <1>1, <3>1, <3>2, <3>3, <3>4
  <2> QED
    BY <2>1, <2>2
<1>4. \A i \in DOMAIN posts' : posts'[i].id < nextPost'
  <2>1. \A i \in DOMAIN posts : posts[i].id \in Nat /\ posts[i].id < nextPost
    BY <1>0, PostFields DEF IdsInv
  <2> QED
    BY <1>0, <1>1, <2>1
<1>5. \A i \in DOMAIN newest'.posts : newest'.posts[i].id < nextPost'
  <2>1. \A i \in DOMAIN newest.posts : newest.posts[i].id \in Nat /\ newest.posts[i].id < nextPost
    BY <1>0, PostFields DEF IdsInv
  <2> QED
    BY <1>0, <1>1, <2>1
<1>6. Distinct(posts)' /\ Distinct(newest.posts)'
  BY <1>1 DEF IdsInv, Distinct
<1>7. nextPost' >= 1
  BY <1>0, <1>1 DEF IdsInv
<1> QED
  BY <1>3, <1>4, <1>5, <1>6, <1>7 DEF IdsInv

\* A message is stored and everything saved.
LEMMA IdStored ==
    ASSUME TypeOK, IdsInv, NEW h \in Handler, NEW p \in Post,
           posts' = Append(posts, p), newest' = Snapshot',
           shared \subseteq shared', nextPost' \in Nat, nextPost <= nextPost', p.id < nextPost',
           \A i \in DOMAIN posts : posts[i].id = p.id /\ p.id # PollId => p.id \in shared',
           \A g \in Handler \ {h} : task'[g] = task[g],
           ~ Holds(h)',
           \A g \in Handler \ {h} : Holds(g) /\ task[g].id = p.id => p.id \in shared'
    PROVE  IdsInv'
<1>0. nextPost \in Nat /\ posts \in Seq(Post)
      /\ \A i \in DOMAIN posts : posts[i].id \in Nat
  BY PostFields DEF TypeOK
<1>1. /\ DOMAIN posts' = DOMAIN posts \cup {Len(posts) + 1} /\ posts'[Len(posts) + 1] = p
      /\ \A i \in DOMAIN posts : posts'[i] = posts[i]
  BY <1>0, Appended
<1>2. \A i \in DOMAIN posts' : posts'[i].id < nextPost'
  <2>1. \A i \in DOMAIN posts : posts[i].id < nextPost'
    BY <1>0 DEF IdsInv
  <2> QED
    BY <1>1, <2>1
<1>3. Distinct(posts)'
  <2>1. ASSUME NEW i \in DOMAIN posts, NEW j \in DOMAIN posts, i # j, posts[i].id = posts[j].id,
               posts[i].id # PollId
        PROVE  posts[i].id \in shared'
    BY <2>1 DEF IdsInv, Distinct
  <2> QED
    BY <1>1, <2>1 DEF Distinct, PollId
<1>4. ASSUME NEW g \in Handler, Holds(g)'
      PROVE  /\ 0 < task'[g].id
             /\ IF Op(task'[g]) = "send" THEN task'[g].id <= nextPost'
                                         ELSE task'[g].id < nextPost'
             /\ \A i \in DOMAIN posts' : posts'[i].id = task'[g].id => task'[g].id \in shared'
             /\ \A k \in Handler \ {g} : Holds(k)' /\ task'[k].id = task'[g].id
                                            => task'[g].id \in shared'
  <2>1. g # h /\ Holds(g) /\ task'[g] = task[g]
    BY <1>4 DEF Holds
  <2>2. task[g].id \in Nat
    <3>1. task[g] # None /\ task[g].op \in {"send", "post"}
      BY <2>1 DEF Holds, Op
    <3> QED
      BY <3>1, TaskFields DEF AskOps
  <2>3. /\ 0 < task[g].id
        /\ IF Op(task[g]) = "send" THEN task[g].id <= nextPost ELSE task[g].id < nextPost
        /\ \A i \in DOMAIN posts : posts[i].id = task[g].id => task[g].id \in shared
        /\ \A k \in Handler \ {g} : Holds(k) /\ task[k].id = task[g].id => task[g].id \in shared
    BY <2>1 DEF IdsInv
  <2>4. IF Op(task[g]) = "send" THEN task[g].id <= nextPost' ELSE task[g].id < nextPost'
    BY <1>0, <2>2, <2>3
  <2>5. \A i \in DOMAIN posts' : posts'[i].id = task[g].id => task[g].id \in shared'
    BY <1>1, <2>1, <2>3
  <2>6. \A k \in Handler \ {g} : Holds(k)' /\ task'[k].id = task[g].id => task[g].id \in shared'
    <3>1. \A k \in Handler : Holds(k)' => k # h /\ Holds(k) /\ task'[k] = task[k]
      BY DEF Holds
    <3> QED
      BY <2>3, <3>1
  <2> QED
    BY <2>1, <2>3, <2>4, <2>5, <2>6
<1>5. newest'.posts = posts'
  BY DEF Snapshot
<1>6. nextPost' >= 1
  BY <1>0 DEF IdsInv
<1> QED
  BY <1>2, <1>3, <1>4, <1>5, <1>6 DEF IdsInv, Distinct

\* What the steps of the conversation leave of its messages but for sending one.
LEMMA ChatKeepsPosts ==
    ASSUME TypeOK, NEW h \in Handler, ChatAsks(h) \/ ChatGoesOn(h) \/ ChatSaves(h),
           ~ (\E a \in User : SendRequest(h, a)), ~ Send(h)
    PROVE  /\ UNCHANGED <<nextPost, shared>>
           /\ posts' = posts \/ \E u \in User : posts' = Tombstoned(u)
           /\ \A g \in Handler : Op(task'[g]) \in AskOps => task'[g] = task[g] \/ ChatAsks(h)
           /\ \A g \in Handler \ {h} : task'[g] = task[g]
           /\ Op(task'[h]) # "send"
<1>0. TasksTyped
  BY TypeParts
<1>1. CASE ChatAsks(h)
  <2>1. PICK a \in User, u \in User : AddRequest(h, a, u) \/ RemoveRequest(h, a, u)
            \/ (\E role \in {"admin", "member"} : RoleRequest(h, a, u, role))
            \/ DeleteRequest(h, a)
    BY <1>1 DEF ChatAsks
  <2>2. UNCHANGED <<nextPost, shared, posts>>
    BY <2>1 DEF AddRequest, RemoveRequest, RoleRequest, DeleteRequest, historyVars
  <2>3. \E t \in AnyTask : Starts(h, t) /\ t.op # "send"
    <3>1. \A op \in AskOps : Asks(op, a, u) \in AnyTask /\ Asks(op, a, u).op = op
      BY AsksTyped DEF AnyTask
    <3>2. [op |-> "confirmed", user |-> a] \in AnyTask
      BY DEF AnyTask, Task
    <3> QED
      BY <2>1, <3>1, <3>2 DEF AddRequest, RemoveRequest, RoleRequest, DeleteRequest, AskOps
  <2>4. Op(task'[h]) # "send" /\ \A g \in Handler \ {h} : task'[g] = task[g]
    BY <2>3, StartMoves DEF Becomes
  <2> QED
    BY <1>1, <2>2, <2>4
<1>2. CASE DropSessions(h)
  BY <1>2, DropSessionsTask DEF DropSessions, historyVars, AskOps
<1>3. CASE RebuildParticipants(h)
  <2>1. UNCHANGED <<nextPost, shared>>
    BY <1>3 DEF RebuildParticipants, historyVars
  <2> QED
    BY <1>3, <2>1, RebuildTask DEF AskOps
<1>4. CASE ReplaceParticipants(h)
  <2>1. UNCHANGED <<nextPost, shared>> /\ posts' = Tombstoned(task[h].user)
    BY <1>4 DEF ReplaceParticipants
  <2> QED
    BY <1>4, <2>1, ReplaceTask DEF AskOps
<1>5. CASE AddParticipant(h) \/ RemoveParticipant(h) \/ SetRole(h) \/ DropUser(h)
  <2>1. UNCHANGED <<nextPost, shared, posts>> /\ Ends(h)
    BY <1>5 DEF AddParticipant, RemoveParticipant, SetRole, DropUser, historyVars
  <2> QED
    BY <1>0, <2>1 DEF Ends, TasksTyped, Op, AskOps
<1> QED
  BY <1>1, <1>2, <1>3, <1>4, <1>5 DEF ChatGoesOn, ChatSaves

LEMMA ChatKeepsIds == ASSUME GroupsInv, IdsInv, NEW h \in Handler, ChatStep(h) PROVE IdsInv'
<1>0. TypeOK /\ TasksTyped /\ ChatTyped
  BY TypeParts DEF GroupsInv
<1>1. ASSUME NEW a \in User, SendRequest(h, a), newest' = newest PROVE IdsInv'
  <2> DEFINE t == [Asks("send", a, a) EXCEPT !.id = nextPost]
  <2>1. t \in AnyTask /\ t.op = "send" /\ t.id = nextPost
    BY <1>0 DEF Asks, AnyTask, Task, Ungated, TypeOK
  <2>2. task[h] = None /\ TakesId /\ UNCHANGED <<posts, nextPost>> /\ Starts(h, t)
    BY <1>1 DEF SendRequest, Starts
  <2> HIDE DEF t
  <2>3. task'[h] = t /\ Becomes(h, "idle", "send")
    BY <1>0, <2>1, <2>2, StartMoves
  <2> QED
    BY <1>0, <1>1, <2>1, <2>2, <2>3, IdTaken DEF Becomes, Holds
<1>2. CASE Send(h) /\ newest' = Snapshot'
  <2>1. h \in Doing("send") /\ Op(task[h]) = "send" /\ task[h].user \in User /\ task[h].id \in Nat
    BY <1>0, <1>2, DoingFields DEF Send, AskOps
  <2> DEFINE p == [id |-> task[h].id, sender |-> task[h].user, attachment |-> 0]
             t == [op |-> "sent", user |-> task[h].user]
  <2>2. p \in Post /\ p.id = task[h].id
    BY <2>1 DEF Post
  <2>3. t \in AnyTask /\ Op(t) = "sent"
    BY <2>1, NoneIsNoRequest DEF AnyTask, Task, Op
  <2>4. posts' = Append(posts, p) /\ nextPost' = nextPost + 1 /\ shared' = shared
        /\ task' = [task EXCEPT ![h] = t]
    BY <1>2 DEF Send, historyVars
  <2> HIDE DEF p, t
  <2>5. Becomes(h, "send", "sent")
    BY <1>0, <2>1, <2>3, <2>4, OneMoves
  <2>6. p.id < nextPost' /\ nextPost' \in Nat /\ nextPost <= nextPost'
        /\ (\A i \in DOMAIN posts : posts[i].id = p.id => p.id \in shared)
        /\ (\A g \in Handler \ {h} : Holds(g) /\ task[g].id = p.id => p.id \in shared)
    BY <1>0, <2>1, <2>2, <2>4 DEF IdsInv, Holds, ChatTyped
  <2> QED
    BY <1>0, <1>2, <2>2, <2>4, <2>5, <2>6, IdStored DEF Becomes, Holds
<1>3. CASE ~ (\E a \in User : SendRequest(h, a)) /\ ~ Send(h)
  <2>1. ChatAsks(h) \/ ChatGoesOn(h) \/ ChatSaves(h)
    BY DEF ChatStep
  <2>2. /\ UNCHANGED <<nextPost, shared>>
        /\ posts' = posts \/ \E u \in User : posts' = Tombstoned(u)
    BY <1>0, <1>3, <2>1, ChatKeepsPosts
  <2>3. DOMAIN posts' = DOMAIN posts /\ \A i \in DOMAIN posts : posts'[i].id = posts[i].id
    BY <1>0, <2>2, TombstonedTyped DEF ChatTyped
  <2>4. \A g \in Handler : Holds(g)' => task'[g] = task[g]
    <3>1. \A g \in Handler \ {h} : task'[g] = task[g]
      BY <1>0, <1>3, <2>1, ChatKeepsPosts
    <3>2. Op(task'[h]) # "send"
      BY <1>0, <1>3, <2>1, ChatKeepsPosts
    <3>3. Op(task'[h]) = "post" => task'[h] = task[h]
      BY <1>0, ChatStepMoves DEF ChatMoves, Moves, ChatOps, AskOps, DeleteOps
    <3> QED
      BY <3>1, <3>2, <3>3 DEF Holds
  <2>5. newest' = newest \/ newest'.posts = posts'
    BY DEF ChatStep, Snapshot
  <2> QED
    BY <1>0, <2>2, <2>3, <2>4, <2>5, IdsUndisturbed
<1>4. CASE (\E a \in User : SendRequest(h, a)) /\ newest' = Snapshot'
  <2>1. Op(task[h]) = "idle"
    BY <1>4 DEF SendRequest, Starts, Op
  <2>2. ChatSaves(h) \/ newest' = newest
    BY DEF ChatStep
  <2>3. ~ ChatSaves(h)
    BY <2>1 DEF ChatSaves, Send, AddParticipant, RemoveParticipant, SetRole, DropUser, Doing,
                Busy, Op
  <2> QED
    BY <1>1, <1>4, <2>2, <2>3
<1>5. CASE Send(h) /\ newest' = newest
  <2>1. Op(task[h]) = "send"
    BY <1>0, <1>5, DoingFields DEF Send
  <2>2. task[h] # None /\ (ChatAsks(h) \/ ChatGoesOn(h) \/ newest' = Snapshot')
    BY <2>1 DEF ChatStep, Op
  <2>3. ~ ChatAsks(h)
    BY <1>0, <2>2, ChatAsksLeave
  <2>4. ~ ChatGoesOn(h)
    BY <1>0, <2>1, DropSessionsTask, RebuildTask, ReplaceTask DEF ChatGoesOn
  <2> QED
    BY <1>2, <1>5, <2>2, <2>3, <2>4
<1> QED
  BY <1>1, <1>2, <1>3, <1>4, <1>5 DEF ChatStep

\* The request that completes an upload, and the steps of storing its message.
LEMMA CompleteTask ==
    ASSUME TypeOK, NEW h \in Handler, NEW i \in DOMAIN uploads, CompleteRequest(h, i)
    PROVE  /\ task[h] = None /\ Op(task'[h]) = "post" /\ task'[h].id = nextPost
           /\ task'[h].upload = i /\ task'[h].attachment = Len(attachments) + 1
           /\ task'[h].user = uploads[i].user
           /\ \A g \in Handler \ {h} : task'[g] = task[g]
<1> DEFINE t == [op |-> "post", user |-> uploads[i].user, upload |-> i,
                 attachment |-> Len(attachments) + 1, id |-> nextPost]
<1>1. uploads[i].user \in User /\ i \in Nat /\ nextPost \in Nat /\ Len(attachments) + 1 \in Nat
  BY DEF UploadsTypeOK, Upload, TypeOK
<1>2. t \in AnyTask /\ Starts(h, t) /\ t.op = "post"
  BY <1>1 DEF CompleteRequest, AnyTask, UploadTask
<1>3. t.id = nextPost /\ t.upload = i /\ t.attachment = Len(attachments) + 1
      /\ t.user = uploads[i].user
  OBVIOUS
<1> HIDE DEF t
<1>4. task'[h] = t /\ Becomes(h, "idle", "post")
  BY <1>2, StartMoves
<1> QED
  BY <1>2, <1>3, <1>4 DEF Becomes, Starts

LEMMA PostTask ==
    ASSUME TypeOK, NEW h \in Handler, PostAttachment(h)
    PROVE  /\ Op(task[h]) = "post" /\ task[h].user \in User /\ task[h].upload \in Nat
           /\ task[h].attachment \in Nat /\ task[h].id \in Nat
           /\ \/ /\ Op(task'[h]) = "release" /\ task'[h].upload = task[h].upload
                 /\ task'[h].user = task[h].user
                 /\ posts' = Append(posts, [id |-> task[h].id, sender |-> task[h].user,
                                           attachment |-> task[h].attachment])
                 /\ Member(task[h].user)
              \/ task'[h] = None /\ posts' = posts
           /\ \A g \in Handler \ {h} : task'[g] = task[g]
<1>1. /\ h \in Doing("post") /\ Op(task[h]) = "post" /\ task[h].user \in User
      /\ task[h].upload \in Nat /\ task[h].attachment \in Nat /\ task[h].id \in Nat
  BY DoingFields DEF PostAttachment
<1> DEFINE t == [op |-> "release", user |-> task[h].user, upload |-> task[h].upload]
           p == [id |-> task[h].id, sender |-> task[h].user, attachment |-> task[h].attachment]
<1>2. t \in AnyTask /\ Op(t) = "release"
  BY <1>1, NoneIsNoRequest DEF AnyTask, UploadTask, Op
<1>3. t.upload = task[h].upload /\ t.user = task[h].user
  OBVIOUS
<1>4. \/ Member(task[h].user) /\ posts' = Append(posts, p) /\ task' = [task EXCEPT ![h] = t]
      \/ posts' = posts /\ task' = [task EXCEPT ![h] = None]
  BY DEF PostAttachment, Ends
<1> HIDE DEF t
<1>5. ASSUME NEW x \in AnyTask \cup {None}, task' = [task EXCEPT ![h] = x]
      PROVE  task'[h] = x /\ \A g \in Handler \ {h} : task'[g] = task[g]
  BY <1>5, OneMoves DEF Becomes
<1> QED
  BY <1>1, <1>2, <1>3, <1>4, <1>5

\* The steps on uploads that take no id.
LEMMA UploadKeepsPosts ==
    ASSUME TypeOK, NEW h \in Handler, UploadAsks(h) \/ UploadGoesOn(h),
           ~ (\E i \in DOMAIN uploads : CompleteRequest(h, i))
    PROVE  /\ UNCHANGED <<nextPost, shared, posts, attachments>>
           /\ Op(task'[h]) \in {"attach", "begin", "chunk", "idle"}
           /\ \A g \in Handler \ {h} : task'[g] = task[g]
<1>1. ASSUME NEW a \in User, AttachRequest(h, a) \/ BeginRequest(h, a)
      PROVE  /\ UNCHANGED <<nextPost, shared, posts, attachments>>
             /\ Op(task'[h]) \in {"attach", "begin"}
             /\ \A g \in Handler \ {h} : task'[g] = task[g]
  <2>1. UNCHANGED <<nextPost, shared, posts, attachments>>
    BY <1>1 DEF AttachRequest, BeginRequest, historyVars, uploadVars
  <2>2. \E t \in AnyTask : Starts(h, t) /\ t.op \in {"attach", "begin"}
    BY <1>1 DEF AttachRequest, BeginRequest, AnyTask, UploadTask
  <2> QED
    BY <2>1, <2>2, StartMoves DEF Becomes
<1>2. ASSUME NEW i \in DOMAIN uploads, NEW chunk \in 0 .. (Chunks - 1), ChunkRequest(h, i, chunk)
      PROVE  /\ UNCHANGED <<nextPost, shared, posts, attachments>>
             /\ Op(task'[h]) = "chunk"
             /\ \A g \in Handler \ {h} : task'[g] = task[g]
  <2>1. UNCHANGED <<nextPost, shared, posts, attachments>>
    BY <1>2 DEF ChunkRequest, historyVars
  <2> DEFINE t == [op |-> "chunk", user |-> uploads[i].user, upload |-> i, chunk |-> chunk]
  <2>2. uploads[i].user \in User /\ i \in Nat /\ chunk \in Nat
    BY UploadsAssumption DEF TypeOK, UploadsTypeOK, Upload
  <2>3. t \in AnyTask /\ t.op = "chunk" /\ Starts(h, t)
    BY <1>2, <2>2 DEF ChunkRequest, AnyTask, UploadTask
  <2> HIDE DEF t
  <2> QED
    BY <2>1, <2>3, StartMoves DEF Becomes
<1>3. CASE UploadGoesOn(h)
  <2>1. UNCHANGED <<nextPost, shared, posts, attachments>>
    BY <1>3 DEF UploadGoesOn, InitUpload, AcceptChunk, ReleaseUpload, historyVars
  <2>2. \E op \in {"begin", "chunk", "release"} : h \in Doing(op) /\ Ends(h)
    BY <1>3 DEF UploadGoesOn, InitUpload, AcceptChunk, ReleaseUpload
  <2> QED
    BY <2>1, <2>2, EndMoves DEF Becomes
<1> QED
  BY <1>1, <1>2, <1>3 DEF UploadAsks

LEMMA UploadKeepsIds == ASSUME GroupsInv, IdsInv, NEW h \in Handler, UploadStep(h) PROVE IdsInv'
<1>0. TypeOK /\ TasksTyped /\ ChatTyped /\ UploadsTypeOK
  BY TypeParts DEF GroupsInv
<1>1. ASSUME NEW i \in DOMAIN uploads, CompleteRequest(h, i), newest' = newest PROVE IdsInv'
  <2>1. TakesId /\ posts' = posts /\ nextPost' = nextPost + 1
    BY <1>1 DEF CompleteRequest
  <2> QED
    BY <1>0, <1>1, <2>1, CompleteTask, IdTaken DEF Holds
<1>2. CASE (UploadAsks(h) \/ UploadGoesOn(h)) /\ newest' = newest
            /\ ~ \E i \in DOMAIN uploads : CompleteRequest(h, i)
  BY <1>0, <1>2, UploadKeepsPosts, IdsUndisturbed DEF Holds
<1>3. CASE PostAttachment(h) /\ newest' = Snapshot'
  <2>1. UNCHANGED <<nextPost, shared>>
    BY <1>3 DEF PostAttachment, historyVars
  <2>2. CASE task'[h] = None /\ posts' = posts
    <3>1. \A g \in Handler : Holds(g)' => task'[g] = task[g]
      BY <1>0, <1>3, <2>2, PostTask DEF Holds, Op
    <3>2. newest'.posts = posts'
      BY <1>3 DEF Snapshot
    <3> QED
      BY <1>0, <2>1, <2>2, <3>1, <3>2, IdsUndisturbed
  <2>3. CASE Op(task'[h]) = "release"
    <3> DEFINE p == [id |-> task[h].id, sender |-> task[h].user,
                     attachment |-> task[h].attachment]
    <3>1. p \in Post /\ p.id = task[h].id
      BY <1>0, <1>3, PostTask DEF Post
    <3>2. posts' = Append(posts, p)
      BY <1>0, <1>3, <2>3, PostTask DEF Op
    <3>3. Op(task[h]) = "post" /\ \A g \in Handler \ {h} : task'[g] = task[g]
      BY <1>0, <1>3, PostTask
    <3> HIDE DEF p
    <3>4. p.id < nextPost' /\ nextPost' \in Nat /\ nextPost <= nextPost'
          /\ (\A i \in DOMAIN posts : posts[i].id = p.id => p.id \in shared)
          /\ (\A g \in Handler \ {h} : Holds(g) /\ task[g].id = p.id => p.id \in shared)
      BY <1>0, <2>1, <3>1, <3>3 DEF IdsInv, Holds, ChatTyped
    <3> QED
      BY <1>0, <1>3, <2>1, <2>3, <3>1, <3>2, <3>3, <3>4, IdStored DEF Holds
  <2> QED
    BY <1>0, <1>3, <2>2, <2>3, PostTask
<1>4. CASE SendAttachment(h) /\ newest' = Snapshot'
  <2>1. h \in Doing("attach") /\ task[h].user \in User
    BY <1>0, <1>4, DoingFields DEF SendAttachment
  <2> DEFINE p == [id |-> nextPost, sender |-> task[h].user, attachment |-> Len(attachments) + 1]
  <2>2. p \in Post /\ p.id = nextPost
    BY <1>0, <2>1 DEF Post, ChatTyped, UploadsTypeOK
  <2>3. posts' = Append(posts, p) /\ nextPost' = nextPost + 1 /\ TakesId
    BY <1>4 DEF SendAttachment
  <2>4. task'[h] = None /\ \A g \in Handler \ {h} : task'[g] = task[g]
    BY <1>0, <1>4, <2>1, EndMoves DEF SendAttachment, Becomes
  <2> HIDE DEF p
  <2>5. shared \subseteq shared' /\ p.id < nextPost' /\ nextPost' \in Nat /\ nextPost <= nextPost'
    BY <1>0, <2>2, <2>3 DEF TakesId, ChatTyped
  <2>6. \A i \in DOMAIN posts : posts[i].id # p.id
    <3>1. \A i \in DOMAIN posts : posts[i].id \in Nat /\ posts[i].id < nextPost
      BY <1>0, PostFields DEF IdsInv, ChatTyped
    <3> QED
      BY <1>0, <2>2, <3>1 DEF ChatTyped
  <2>7. ASSUME NEW g \in Handler \ {h}, Holds(g), task[g].id = p.id PROVE p.id \in shared'
    <3>1. Op(task[g]) = "send"
      BY <1>0, <2>2, <2>7 DEF IdsInv, Holds, ChatTyped
    <3>2. g \in Doing("send")
      BY <3>1, DoingIsOp
    <3> QED
      BY <2>2, <2>3, <2>7, <3>2 DEF TakesId
  <2> QED
    BY <1>0, <1>4, <2>2, <2>3, <2>4, <2>5, <2>6, <2>7, IdStored DEF Holds, Op
<1> QED
  BY <1>1, <1>2, <1>3, <1>4 DEF UploadStep

LEMMA PollKeepsIds == ASSUME GroupsInv, IdsInv, NEW h \in Handler, PollStep(h) PROVE IdsInv'
<1>0. TypeOK /\ PollInv /\ TasksTyped /\ ChatTyped
  BY TypeParts DEF GroupsInv
<1>1. PollMoves
  BY <1>0, PollStepMoves
<1>2. \A g \in Handler : Holds(g) \/ Holds(g)' => task'[g] = task[g]
  BY <1>1 DEF PollMoves, Moves, PollOps, Holds
<1>3. CASE CreatePoll(h) /\ newest' = Snapshot'
  <2>1. h \in Doing("poll") /\ Op(task[h]) = "poll" /\ task[h].user \in User
    BY <1>0, <1>3, DoingFields DEF CreatePoll
  <2> DEFINE p == [id |-> PollId, sender |-> task[h].user, attachment |-> 0]
  <2>2. p \in Post /\ p.id = PollId
    BY <2>1 DEF Post, PollId
  <2>3. posts' = Append(posts, p) /\ UNCHANGED <<nextPost, shared>> /\ Ends(h)
    BY <1>3 DEF CreatePoll, historyVars
  <2> HIDE DEF p
  <2>4. task'[h] = None /\ \A g \in Handler \ {h} : task'[g] = task[g]
    BY <1>0, <2>1, <2>3, EndMoves DEF Becomes
  <2>5. p.id < nextPost' /\ nextPost' \in Nat /\ nextPost <= nextPost'
    BY <1>0, <2>2, <2>3 DEF IdsInv, PollId, ChatTyped
  <2>6. \A g \in Handler : Holds(g) => task[g].id # p.id
    BY <2>2 DEF IdsInv, PollId
  <2> QED
    BY <1>0, <1>3, <2>2, <2>3, <2>4, <2>5, <2>6, IdStored DEF Holds, Op
<1>4. CASE ~ (CreatePoll(h) /\ newest' = Snapshot')
  <2>1. UNCHANGED <<posts, nextPost, shared>>
    BY <1>4 DEF PollStep, PollAsks, CreateRequest, VoteRequest, CloseRequest, AnnounceResult,
                CountVote, ClosePoll, historyVars
  <2>2. newest' = newest \/ newest'.posts = posts'
    BY DEF PollStep, Snapshot
  <2> QED
    BY <1>0, <1>2, <2>1, <2>2, IdsUndisturbed
<1> QED
  BY <1>3, <1>4

LEMMA IdsInvInit == GroupsInit => IdsInv
  BY DEF GroupsInit, Init, IdsInv, Distinct, Holds, Op, Snapshot

\* No payload has two messages of one id, either, unless it was taken twice.
FilesDistinct == \A p \in Payloads : Distinct(p.posts)

LEMMA SharedGrows == ASSUME TypeOK, PollInv, [Next]_vars PROVE shared \subseteq shared'
<1>0. left \in [Request -> Nat]
  BY DEF TypeOK
<1>1. ASSUME NEW h \in Handler, ChatStep(h) PROVE shared \subseteq shared'
  BY <1>1 DEF ChatStep, ChatAsks, ChatGoesOn, ChatSaves, SendRequest, TakesId, AddRequest,
     RemoveRequest, RoleRequest, DeleteRequest, Send, AddParticipant, RemoveParticipant, SetRole,
     DropUser, DropSessions, RebuildParticipants, ReplaceParticipants, historyVars
<1>2. ASSUME NEW h \in Handler, UploadStep(h) PROVE shared \subseteq shared'
  BY <1>2 DEF UploadStep, UploadAsks, UploadGoesOn, AttachRequest, BeginRequest, ChunkRequest,
     CompleteRequest, TakesId, InitUpload, AcceptChunk, ReleaseUpload, PostAttachment,
     SendAttachment, historyVars
<1>3. ASSUME NEW h \in Handler, PollStep(h) PROVE shared \subseteq shared'
  BY <1>3 DEF PollStep, PollAsks, CreateRequest, VoteRequest, CloseRequest, AnnounceResult,
     CreatePoll, CountVote, ClosePoll, historyVars
<1>4. ASSUME NEW h \in Handler, PersonalStep(h) PROVE shared \subseteq shared'
  BY <1>4, PersonalLeaves DEF conversationVars, historyVars
<1>5. CASE RefuseStep \/ UNCHANGED memoryVars
  BY <1>5 DEF RefuseStep, DropUpload, memoryVars, chatVars
<1>6. CASE Restart
  BY <1>6 DEF Restart
<1> QED
  BY <1>0, <1>1, <1>2, <1>3, <1>4, <1>5, <1>6, StepKinds

LEMMA FilesDistinctNext ==
    ASSUME GroupsInv, FilesDistinct, IdsInv', [Next]_vars PROVE FilesDistinct'
<1>1. shared \subseteq shared'
  BY SharedGrows DEF GroupsInv
<1>2. Payloads' \subseteq Payloads \cup {Snapshot'} /\ Snapshot'.posts = posts'
  BY NextPayload DEF Payload, Snapshot
<1>3. Distinct(posts)'
  BY DEF IdsInv
<1>4. ASSUME NEW p \in Payloads' PROVE Distinct(p.posts)'
  <2>1. PICK saved : saved = p.posts
    OBVIOUS
  <2>2. Distinct(saved) \/ saved = posts'
    BY <1>2, <1>4, <2>1 DEF FilesDistinct
  <2> QED
    BY <1>1, <1>3, <2>1, <2>2 DEF Distinct
<1> QED
  BY <1>4 DEF FilesDistinct

LEMMA IdsInvNext == ASSUME GroupsInv, IdsInv, FilesDistinct, [Next]_vars PROVE IdsInv'
<1>0. TypeOK /\ PollInv /\ left \in [Request -> Nat] /\ ChatTyped /\ file \in SavedState
  BY TypeParts DEF GroupsInv, Payloads
<1>1. ASSUME NEW h \in Handler, PersonalStep(h) PROVE IdsInv'
  <2>1. UNCHANGED <<posts, nextPost, shared>>
    BY <1>0, <1>1, PersonalLeaves DEF conversationVars, historyVars
  <2>2. \A g \in Handler : Holds(g)' => task'[g] = task[g]
    <3>1. PersonalMoves
      BY <1>0, <1>1, PersonalStepMoves
    <3>2. \A g \in Handler : Spoilt(g) => ~ Holds(g)'
      BY <1>0, SpoiltFields DEF Spoilt, Holds, Forgetting
    <3> QED
      BY <3>1, <3>2 DEF PersonalMoves, PersonalOps, Holds
  <2>3. newest' = newest \/ newest'.posts = posts'
    BY <1>1 DEF PersonalStep, Snapshot
  <2> QED
    BY <1>0, <2>1, <2>2, <2>3, IdsUndisturbed
<1>2. CASE RefuseStep \/ UNCHANGED memoryVars
  BY <1>2 DEF RefuseStep, DropUpload, IdsInv, Distinct, Holds, memoryVars, chatVars
<1>3. CASE Restart
  <2>1. /\ posts' = file.posts /\ newest' = file /\ UNCHANGED shared
        /\ nextPost' = NextPost(file.posts) /\ \A g \in Handler : task'[g] = None
    BY <1>3 DEF Restart
  <2>2. nextPost' \in Nat /\ nextPost' >= 2 /\ \A i \in DOMAIN file.posts : file.posts[i].id < nextPost'
    BY <1>0, <2>1, NextPostAbove DEF SavedState
  <2>3. \A g \in Handler : ~ Holds(g)'
    BY <2>1 DEF Holds, Op
  <2>4. nextPost' >= 1
    BY <2>2
  <2>5. Distinct(posts)' /\ Distinct(newest.posts)'
    <3>1. Distinct(file.posts)
      BY DEF FilesDistinct, Payloads
    <3> QED
      BY <2>1, <3>1 DEF Distinct
  <2> QED
    BY <2>1, <2>2, <2>3, <2>4, <2>5 DEF IdsInv
<1> QED
  BY <1>0, <1>1, <1>2, <1>3, StepKinds, ChatKeepsIds, UploadKeepsIds, PollKeepsIds

\* An id is stored twice only if it was seen to be taken twice, and the number read back
\* after a restart is above every id in the file (send_message, _message_counter).
THEOREM IdsStayDistinct == Spec => []MessageIdsDistinct
<1>1. IdsInv => MessageIdsDistinct
  BY DEF IdsInv, Distinct, MessageIdsDistinct
<1>2. GroupsInit => FilesDistinct
  BY DEF GroupsInit, Init, Snapshot, Payloads, FilesDistinct, Distinct
<1>3. Spec => [](IdsInv /\ FilesDistinct)
  BY <1>2, IdsInvInit, IdsInvNext, FilesDistinctNext, GroupsInvariant, PTL DEF Spec
<1> QED
  BY <1>1, <1>3, PTL

--------------------------------------------------------------------------------
(* Uploads and the attachments made of them *)

\* A request is in the middle of something that concerns the upload.
OnIt(g, i) == Op(task[g]) \in {"chunk", "post", "release"} /\ task[g].upload = i

\* The chunks came one after the other, and at most one request is at it.
InOrder(i) ==
    LET upload == uploads[i]
    IN  /\ upload.next = Len(upload.buffer) /\ Len(upload.buffer) <= Chunks
        /\ \A k \in 1 .. Len(upload.buffer) : upload.buffer[k] = k - 1
        /\ \A g, k \in Handler : OnIt(g, i) /\ OnIt(k, i) => g = k
        /\ \A g \in Handler : OnIt(g, i) /\ Op(task[g]) = "chunk" =>
                task[g].chunk = Len(upload.buffer) /\ Len(upload.buffer) < Chunks

\* The counter is above every upload that there is, was finished or is asked about, so
\* no upload comes back; one that no two requests raced for is in order.
UploadInv ==
    /\ nextUpload >= 1
    /\ \A i \in DOMAIN uploads : i < nextUpload /\ (uploads[i].raced \/ InOrder(i))
    /\ \A g \in Handler : \A i : OnIt(g, i) => i < nextUpload
    /\ \A x \in DOMAIN attachments : attachments[x].upload < nextUpload

LEMMA OnUploadIs == \A i : OnUpload(i) = {g \in Handler : OnIt(g, i)}
  BY DoingIsOp DEF OnUpload, OnIt, Doing, Busy, Op

\* Uploads go, requests on them go on, or nothing happens to them.
LEMMA UploadsUndisturbed ==
    ASSUME UploadInv, nextUpload' = nextUpload, DOMAIN uploads' \subseteq DOMAIN uploads,
           \A i \in DOMAIN uploads' : uploads'[i] = uploads[i],
           \A g \in Handler : \A i : OnIt(g, i)' =>
                OnIt(g, i) /\ (Op(task'[g]) = "chunk" => task'[g] = task[g]),
           \A x \in DOMAIN attachments' : attachments'[x].upload < nextUpload
    PROVE  UploadInv'
<1>1. ASSUME NEW i \in DOMAIN uploads', ~ uploads'[i].raced PROVE InOrder(i)'
  <2>1. InOrder(i)
    BY <1>1 DEF UploadInv
  <2>2. \A g, k \in Handler : OnIt(g, i)' /\ OnIt(k, i)' => g = k
    BY <2>1 DEF InOrder
  <2>3. \A g \in Handler : OnIt(g, i)' /\ Op(task'[g]) = "chunk" =>
            task'[g].chunk = Len(uploads[i].buffer) /\ Len(uploads[i].buffer) < Chunks
    BY <2>1 DEF InOrder
  <2> QED
    BY <2>1, <2>2, <2>3 DEF InOrder
<1> QED
  BY <1>1 DEF UploadInv

\* A request on an upload is taken up.
LEMMA UploadTakenUp ==
    ASSUME TypeOK, UploadInv, NEW h \in Handler, NEW i \in DOMAIN uploads, uploads' = Marked(i),
           nextUpload' = nextUpload, task[h] = None, \A g \in Handler \ {h} : task'[g] = task[g],
           OnIt(h, i)',
           Op(task'[h]) = "chunk" => /\ task'[h].chunk = uploads[i].next
                                     /\ Len(uploads[i].buffer) < Chunks,
           \A x \in DOMAIN attachments' : attachments'[x].upload < nextUpload
    PROVE  UploadInv'
<1>0. UploadsTypeOK
  BY DEF TypeOK
<1>1. \A g \in Handler : \A j : OnIt(g, j)' => (g = h /\ j = i) \/ (g # h /\ OnIt(g, j))
  BY DEF OnIt
<1>2. DOMAIN uploads' = DOMAIN uploads /\ \A j \in DOMAIN uploads :
        /\ uploads'[j].next = uploads[j].next /\ uploads'[j].buffer = uploads[j].buffer
        /\ uploads[j].raced => uploads'[j].raced
  BY <1>0, MarkedTyped
<1>3. ASSUME NEW j \in DOMAIN uploads, ~ uploads'[j].raced PROVE InOrder(j)'
  <2>1. InOrder(j)
    BY <1>2, <1>3 DEF UploadInv
  <2>2. j = i => \A g \in Handler : ~ OnIt(g, i)
    <3>1. j = i => OnUpload(i) = {}
      BY <1>0, <1>3, MarkedTyped
    <3> QED
      BY <3>1, OnUploadIs
  <2>3. \A g, k \in Handler : OnIt(g, j)' /\ OnIt(k, j)' => g = k
    BY <1>1, <2>1, <2>2 DEF InOrder
  <2>4. \A g \in Handler : OnIt(g, j)' /\ Op(task'[g]) = "chunk" =>
            task'[g].chunk = Len(uploads[j].buffer) /\ Len(uploads[j].buffer) < Chunks
    BY <1>1, <2>1, <2>2 DEF InOrder
  <2> QED
    BY <1>2, <2>1, <2>3, <2>4 DEF InOrder
<1>4. \A g \in Handler : \A j : OnIt(g, j)' => j < nextUpload'
  BY <1>1 DEF UploadInv
<1> QED
  BY <1>2, <1>3, <1>4 DEF UploadInv

\* A request that is on no upload moves, and stays on none.
LEMMA NotOnAny ==
    ASSUME NEW h \in Handler, Op(task'[h]) \notin {"chunk", "post", "release"},
           \A g \in Handler \ {h} : task'[g] = task[g]
    PROVE  \A g \in Handler : \A i : OnIt(g, i)' =>
                OnIt(g, i) /\ (Op(task'[g]) = "chunk" => task'[g] = task[g])
  BY DEF OnIt

LEMMA UploadAsksInOrder ==
    ASSUME TypeOK, UploadInv, NEW h \in Handler, UploadAsks(h) PROVE UploadInv'
<1>0. UploadsTypeOK
  BY DEF TypeOK
<1>1. ASSUME NEW a \in User, AttachRequest(h, a) \/ BeginRequest(h, a) PROVE UploadInv'
  <2>1. \E t \in AnyTask : Starts(h, t) /\ t.op \in {"attach", "begin"}
    BY <1>1 DEF AttachRequest, BeginRequest, AnyTask, UploadTask
  <2>2. Op(task'[h]) \in {"attach", "begin"} /\ \A g \in Handler \ {h} : task'[g] = task[g]
    BY <2>1, StartMoves DEF Becomes
  <2>3. UNCHANGED uploadVars
    BY <1>1 DEF AttachRequest, BeginRequest
  <2>4. \A x \in DOMAIN attachments' : attachments'[x].upload < nextUpload
    BY <2>3 DEF uploadVars, UploadInv
  <2> QED
    BY <2>2, <2>3, <2>4, NotOnAny, UploadsUndisturbed DEF uploadVars
<1>2. ASSUME NEW i \in DOMAIN uploads, NEW chunk \in 0 .. (Chunks - 1), ChunkRequest(h, i, chunk)
      PROVE  UploadInv'
  <2> DEFINE t == [op |-> "chunk", user |-> uploads[i].user, upload |-> i, chunk |-> chunk]
  <2>1. uploads[i].user \in User /\ i \in Nat /\ chunk \in Nat
    BY <1>0, UploadsAssumption DEF UploadsTypeOK, Upload
  <2>2. t \in AnyTask /\ t.op = "chunk" /\ t.upload = i /\ t.chunk = chunk /\ Starts(h, t)
    BY <1>2, <2>1 DEF ChunkRequest, AnyTask, UploadTask
  <2> HIDE DEF t
  <2>3. task'[h] = t /\ Op(task'[h]) = "chunk" /\ task[h] = None
        /\ \A g \in Handler \ {h} : task'[g] = task[g]
    BY <2>2, StartMoves DEF Becomes, Starts
  <2>4. /\ uploads' = Marked(i) /\ UNCHANGED <<nextUpload, attachments>>
        /\ chunk = uploads[i].next /\ Len(uploads[i].buffer) < Chunks
    BY <1>2 DEF ChunkRequest, MaySendChunk
  <2>5. OnIt(h, i)'
    BY <2>2, <2>3 DEF OnIt
  <2>6. \A x \in DOMAIN attachments' : attachments'[x].upload < nextUpload
    BY <2>4 DEF UploadInv
  <2> QED
    BY <2>2, <2>3, <2>4, <2>5, <2>6, UploadTakenUp
<1>3. ASSUME NEW i \in DOMAIN uploads, CompleteRequest(h, i) PROVE UploadInv'
  <2>1. /\ task[h] = None /\ Op(task'[h]) = "post" /\ task'[h].upload = i
        /\ \A g \in Handler \ {h} : task'[g] = task[g]
    BY <1>3, CompleteTask
  <2>2. uploads' = Marked(i) /\ nextUpload' = nextUpload
    BY <1>3 DEF CompleteRequest
  <2> DEFINE a == [user |-> uploads[i].user, content |-> uploads[i].buffer, upload |-> i,
                   raced |-> Marked(i)[i].raced]
  <2>3. attachments' = Append(attachments, a) /\ a.upload = i
    BY <1>3 DEF CompleteRequest
  <2> HIDE DEF a
  <2>4. \A x \in DOMAIN attachments' : attachments'[x].upload < nextUpload
    BY <1>0, <2>3 DEF UploadInv, UploadsTypeOK
  <2>5. OnIt(h, i)'
    BY <2>1 DEF OnIt
  <2> QED
    BY <2>1, <2>2, <2>4, <2>5, UploadTakenUp
<1> QED
  BY <1>1, <1>2, <1>3 DEF UploadAsks

LEMMA InitInOrder ==
    ASSUME TypeOK, UploadInv, NEW h \in Handler, InitUpload(h) PROVE UploadInv'
<1>0. UploadsTypeOK /\ nextUpload \in Nat
  BY DEF TypeOK, UploadsTypeOK
<1>1. Op(task'[h]) = "idle" /\ \A g \in Handler \ {h} : task'[g] = task[g]
  BY EndMoves DEF InitUpload, Becomes
<1>2. \A g \in Handler : \A i : OnIt(g, i)' => OnIt(g, i) /\ (Op(task'[g]) = "chunk" => task'[g] = task[g])
  BY <1>1, NotOnAny
<1>3. PICK n : n = nextUpload
  OBVIOUS
<1>4. /\ DOMAIN uploads' = DOMAIN uploads \cup {n}
      /\ uploads'[n].next = 0 /\ uploads'[n].buffer = <<>>
      /\ \A i \in DOMAIN uploads : i # n => uploads'[i] = uploads[i]
      /\ nextUpload' = n + 1 /\ attachments' = attachments
  BY <1>3 DEF InitUpload
<1>5. \A i \in DOMAIN uploads : i \in Nat /\ i < n
  BY <1>0, <1>3 DEF UploadsTypeOK, UploadInv
<1>6. \A g \in Handler : ~ OnIt(g, n)'
  BY <1>0, <1>2, <1>3 DEF UploadInv
<1>7. InOrder(n)'
  BY <1>4, <1>6, UploadsAssumption DEF InOrder
<1>8. ASSUME NEW i \in DOMAIN uploads, ~ uploads'[i].raced PROVE InOrder(i)'
  <2>1. uploads'[i] = uploads[i]
    BY <1>4, <1>5
  <2>2. InOrder(i)
    BY <1>8, <2>1 DEF UploadInv
  <2>3. \A g, k \in Handler : OnIt(g, i)' /\ OnIt(k, i)' => g = k
    BY <1>2, <2>2 DEF InOrder
  <2>4. \A g \in Handler : OnIt(g, i)' /\ Op(task'[g]) = "chunk" =>
            task'[g].chunk = Len(uploads[i].buffer) /\ Len(uploads[i].buffer) < Chunks
    BY <1>2, <2>2 DEF InOrder
  <2> QED
    BY <2>1, <2>2, <2>3, <2>4 DEF InOrder
<1>9. \A i \in DOMAIN uploads' : i < nextUpload' /\ (uploads'[i].raced \/ InOrder(i)')
  BY <1>0, <1>3, <1>4, <1>5, <1>7, <1>8
<1>10. \A g \in Handler : \A i : OnIt(g, i)' => i < nextUpload'
  <2>1. \A g \in Handler : \A i : OnIt(g, i)' => i \in Nat /\ i < n
    <3>1. \A g \in Handler : \A i : OnIt(g, i) => task[g] # None /\ task[g].op = Op(task[g])
      BY DEF OnIt, Op
    <3>2. \A g \in Handler : \A i : OnIt(g, i) => task[g].upload \in Nat /\ task[g].upload = i
      <4>1. \A g \in Handler : task[g] # None /\ task[g].op \in {"chunk", "post", "release"} =>
                task[g].upload \in Nat
        BY TaskFields
      <4> QED
        BY <3>1, <4>1 DEF OnIt
    <3>3. \A g \in Handler : \A i : OnIt(g, i) => i < n
      BY <1>3 DEF UploadInv
    <3> QED
      BY <1>2, <3>2, <3>3
  <2> QED
    BY <1>0, <1>3, <1>4, <2>1
<1>11. \A x \in DOMAIN attachments' : attachments'[x].upload < nextUpload'
  <2>1. \A x \in DOMAIN attachments : attachments[x].upload \in Nat
    <3>1. \A x \in DOMAIN attachments : attachments[x] \in Attachment
      BY <1>0 DEF UploadsTypeOK
    <3> QED
      BY <3>1 DEF Attachment
  <2> QED
    BY <1>0, <1>3, <1>4, <2>1 DEF UploadInv
<1> QED
  BY <1>0, <1>3, <1>4, <1>9, <1>10, <1>11 DEF UploadInv

LEMMA AcceptInOrder ==
    ASSUME TypeOK, UploadInv, NEW h \in Handler, AcceptChunk(h) PROVE UploadInv'
<1>0. UploadsTypeOK
  BY DEF TypeOK
<1>1. h \in Doing("chunk") /\ Op(task[h]) = "chunk" /\ task[h].chunk \in Nat
  <2>1. h \in Doing("chunk")
    BY DEF AcceptChunk
  <2> QED
    BY <2>1, DoingFields
<1>2. Op(task'[h]) = "idle" /\ \A g \in Handler \ {h} : task'[g] = task[g]
  BY EndMoves DEF AcceptChunk, Becomes
<1>3. \A g \in Handler : \A i : OnIt(g, i)' => OnIt(g, i) /\ (Op(task'[g]) = "chunk" => task'[g] = task[g])
  BY <1>2, NotOnAny
<1>4. UNCHANGED <<nextUpload, attachments>>
      /\ \A x \in DOMAIN attachments' : attachments'[x].upload < nextUpload
  BY DEF AcceptChunk, UploadInv
<1>5. CASE UNCHANGED uploads
  BY <1>3, <1>4, <1>5, UploadsUndisturbed
<1>6. CASE \E i \in DOMAIN uploads : i = task[h].upload
  <2>1. PICK i \in DOMAIN uploads : i = task[h].upload
    BY <1>6
  <2>2. OnIt(h, i)
    BY <1>1, <2>1 DEF OnIt
  <2>3. uploads[i] \in Upload /\ \A j \in DOMAIN uploads : j \in Nat /\ uploads[j] \in Upload
    BY <1>0 DEF UploadsTypeOK
  <2>4. /\ DOMAIN uploads' = DOMAIN uploads
        /\ uploads'[i].buffer = Append(uploads[i].buffer, task[h].chunk)
        /\ uploads'[i].next = uploads[i].next + 1 /\ uploads'[i].raced = uploads[i].raced
        /\ \A j \in DOMAIN uploads : j # i => uploads'[j] = uploads[j]
    <3>1. PICK u : u = [uploads[i] EXCEPT !.buffer = Append(uploads[i].buffer, task[h].chunk),
                                          !.next = uploads[i].next + 1]
      OBVIOUS
    <3>2. uploads' = [uploads EXCEPT ![i] = u]
      BY <2>1, <3>1 DEF AcceptChunk
    <3>3. /\ u.buffer = Append(uploads[i].buffer, task[h].chunk)
          /\ u.next = uploads[i].next + 1 /\ u.raced = uploads[i].raced
      BY <2>3, <3>1 DEF Upload
    <3> QED
      BY <3>2, <3>3
  <2>5. ASSUME ~ uploads[i].raced PROVE InOrder(i)'
    <3>1. InOrder(i)
      BY <2>5 DEF UploadInv
    <3>2. task[h].chunk = Len(uploads[i].buffer) /\ Len(uploads[i].buffer) < Chunks
          /\ \A g \in Handler : OnIt(g, i) => g = h
      BY <1>1, <2>2, <3>1 DEF InOrder
    <3>3. \A g \in Handler : ~ OnIt(g, i)'
      BY <1>2, <1>3, <3>2 DEF OnIt
    <3>4. uploads[i].buffer \in Seq(Nat) /\ Len(uploads[i].buffer) \in Nat
      BY <2>3 DEF Upload
    <3>5. /\ Len(uploads'[i].buffer) = Len(uploads[i].buffer) + 1
          /\ uploads'[i].buffer[Len(uploads[i].buffer) + 1] = Len(uploads[i].buffer)
          /\ \A k \in 1 .. Len(uploads[i].buffer) : uploads'[i].buffer[k] = k - 1
      BY <2>4, <3>1, <3>2, <3>4 DEF InOrder
    <3>6. \A k \in 1 .. Len(uploads'[i].buffer) : uploads'[i].buffer[k] = k - 1
      BY <3>4, <3>5
    <3>7. uploads'[i].next = Len(uploads'[i].buffer) /\ Len(uploads'[i].buffer) <= Chunks
      BY <2>4, <3>1, <3>2, <3>4, <3>5, UploadsAssumption DEF InOrder
    <3> QED
      BY <3>3, <3>6, <3>7 DEF InOrder
  <2>6. ASSUME NEW j \in DOMAIN uploads, j # i, ~ uploads'[j].raced PROVE InOrder(j)'
    <3>1. InOrder(j) /\ uploads'[j] = uploads[j]
      BY <2>4, <2>6 DEF UploadInv
    <3>2. \A g, k \in Handler : OnIt(g, j)' /\ OnIt(k, j)' => g = k
      BY <1>3, <3>1 DEF InOrder
    <3>3. \A g \in Handler : OnIt(g, j)' /\ Op(task'[g]) = "chunk" =>
              task'[g].chunk = Len(uploads[j].buffer) /\ Len(uploads[j].buffer) < Chunks
      BY <1>3, <3>1 DEF InOrder
    <3> QED
      BY <3>1, <3>2, <3>3 DEF InOrder
  <2>7. \A j \in DOMAIN uploads' : j < nextUpload' /\ (uploads'[j].raced \/ InOrder(j)')
    BY <1>4, <2>4, <2>5, <2>6 DEF UploadInv
  <2> QED
    BY <1>3, <1>4, <2>7 DEF UploadInv
<1> QED
  BY <1>5, <1>6 DEF AcceptChunk

LEMMA UploadsKeptInOrder ==
    ASSUME TypeOK, UploadInv, NEW h \in Handler, UploadStep(h) PROVE UploadInv'
<1>0. UploadsTypeOK
  BY DEF TypeOK
<1>1. CASE ReleaseUpload(h)
  <2>1. Op(task'[h]) = "idle" /\ \A g \in Handler \ {h} : task'[g] = task[g]
    BY <1>1, EndMoves DEF ReleaseUpload, Becomes
  <2>2. DOMAIN uploads' \subseteq DOMAIN uploads /\ \A i \in DOMAIN uploads' : uploads'[i] = uploads[i]
    BY <1>0, <1>1, WithoutTyped DEF ReleaseUpload
  <2>3. nextUpload' = nextUpload /\ \A x \in DOMAIN attachments' : attachments'[x].upload < nextUpload
    BY <1>1 DEF ReleaseUpload, UploadInv
  <2> QED
    BY <2>1, <2>2, <2>3, NotOnAny, UploadsUndisturbed
<1>2. CASE PostAttachment(h)
  <2>1. \A g \in Handler : \A i : OnIt(g, i)' =>
            OnIt(g, i) /\ (Op(task'[g]) = "chunk" => task'[g] = task[g])
    BY <1>2, PostTask DEF OnIt, Op
  <2>2. UNCHANGED uploadVars /\ \A x \in DOMAIN attachments' : attachments'[x].upload < nextUpload
    BY <1>2 DEF PostAttachment, uploadVars, UploadInv
  <2> QED
    BY <2>1, <2>2, UploadsUndisturbed DEF uploadVars
<1>3. CASE SendAttachment(h)
  <2>1. Op(task'[h]) = "idle" /\ \A g \in Handler \ {h} : task'[g] = task[g]
    BY <1>3, EndMoves DEF SendAttachment, Becomes
  <2> DEFINE a == [user |-> task[h].user, content |-> File, upload |-> 0, raced |-> FALSE]
  <2>2. attachments' = Append(attachments, a) /\ a.upload = 0
    BY <1>3 DEF SendAttachment
  <2> HIDE DEF a
  <2>3. nextUpload \in Nat /\ 0 < nextUpload
    BY <1>0 DEF UploadsTypeOK, UploadInv
  <2>4. \A x \in DOMAIN attachments' : attachments'[x].upload < nextUpload
    BY <1>0, <2>2, <2>3 DEF UploadInv, UploadsTypeOK
  <2>5. UNCHANGED <<uploads, nextUpload>>
    BY <1>3 DEF SendAttachment
  <2> QED
    BY <2>1, <2>4, <2>5, NotOnAny, UploadsUndisturbed
<1> QED
  BY <1>1, <1>2, <1>3, UploadAsksInOrder, InitInOrder, AcceptInOrder DEF UploadStep, UploadGoesOn

LEMMA UploadInvInit == GroupsInit => UploadInv
  BY DEF GroupsInit, Init, UploadsInit, UploadInv, OnIt, Op

LEMMA UploadInvNext == ASSUME GroupsInv, UploadInv, [Next]_vars PROVE UploadInv'
<1>0. TypeOK /\ PollInv /\ left \in [Request -> Nat] /\ UploadsTypeOK /\ file \in SavedState
  BY TypeParts DEF GroupsInv, Payloads
<1>1. ASSUME NEW h \in Handler, ChatStep(h) \/ PollStep(h) \/ PersonalStep(h) PROVE UploadInv'
  <2>1. UNCHANGED uploadVars /\ \A g \in Handler :
            {Op(task[g]), Op(task'[g])} \cap UploadOps # {} => task'[g] = task[g]
    BY <1>0, <1>1, UploadsLeftAlone
  <2>2. \A g \in Handler : \A i : OnIt(g, i)' =>
            OnIt(g, i) /\ (Op(task'[g]) = "chunk" => task'[g] = task[g])
    BY <2>1 DEF OnIt, UploadOps
  <2>3. \A x \in DOMAIN attachments' : attachments'[x].upload < nextUpload
    BY <2>1 DEF uploadVars, UploadInv
  <2> QED
    BY <2>1, <2>2, <2>3, UploadsUndisturbed DEF uploadVars
<1>2. CASE RefuseStep \/ UNCHANGED memoryVars
  <2>1. /\ UNCHANGED <<task, nextUpload, attachments>>
        /\ uploads' = uploads \/ \E i : uploads' = Without(i)
    BY <1>2 DEF RefuseStep, DropUpload, memoryVars, chatVars, uploadVars
  <2>2. DOMAIN uploads' \subseteq DOMAIN uploads /\ \A i \in DOMAIN uploads' : uploads'[i] = uploads[i]
    BY <1>0, <2>1, WithoutTyped
  <2>3. \A x \in DOMAIN attachments' : attachments'[x].upload < nextUpload
    BY <2>1 DEF UploadInv
  <2> QED
    BY <2>1, <2>2, <2>3, UploadsUndisturbed DEF OnIt
<1>3. CASE Restart
  <2>1. /\ uploads' = <<>> /\ nextUpload' = 1 /\ \A g \in Handler : task'[g] = None
        /\ attachments' = [i \in DOMAIN file.attachments |->
                              [file.attachments[i] EXCEPT !.upload = 0]]
    BY <1>3 DEF Restart
  <2>2. \A x \in DOMAIN attachments' : attachments'[x].upload = 0
    <3>1. \A i \in DOMAIN file.attachments : file.attachments[i] \in Attachment
      BY <1>0 DEF SavedState
    <3> QED
      BY <2>1, <3>1 DEF Attachment
  <2> QED
    BY <2>1, <2>2 DEF UploadInv, OnIt, Op
<1> QED
  BY <1>0, <1>1, <1>2, <1>3, StepKinds, UploadsKeptInOrder

\* A message's attachment exists and is carried by no other message; an attachment is the
\* whole file unless two requests raced for its upload.
Stored(saved, made) ==
    /\ \A i \in DOMAIN saved : saved[i].attachment # 0 =>
        /\ saved[i].attachment \in DOMAIN made
        /\ \A j \in DOMAIN saved \ {i} : saved[j].attachment # saved[i].attachment
    /\ \A x \in DOMAIN made : made[x].raced \/ made[x].content = File

Posted(x) == \E i \in DOMAIN posts : posts[i].attachment = x

\* Made since the last restart of an upload that no two requests raced for.
Sound(x) == x \in DOMAIN attachments /\ ~ attachments[x].raced /\ attachments[x].upload # 0
Of(x, y) == attachments[x].upload = attachments[y].upload

Releasing(i) == \E g \in Handler : Op(task[g]) = "release" /\ task[g].upload = i

\* One message at most is or will be made of an upload that no two requests raced for:
\* once it is, the upload has gone or is about to go.
PostsInv ==
    /\ Stored(posts, attachments) /\ Stored(newest.posts, newest.attachments)
    /\ \A g \in Handler : Op(task[g]) = "post" =>
        LET a == task[g].attachment
        IN  /\ a \in DOMAIN attachments /\ attachments[a].upload = task[g].upload
            /\ ~ Posted(a)
            /\ \A k \in Handler \ {g} : Op(task[k]) = "post" =>
                /\ task[k].attachment # a
                /\ ~ (Sound(a) /\ Sound(task[k].attachment) /\ Of(a, task[k].attachment))
            /\ Sound(a) => \A x \in DOMAIN attachments : Sound(x) /\ Of(x, a) => ~ Posted(x)
    /\ \A x \in DOMAIN attachments : Sound(x) /\ Posted(x) =>
            (attachments[x].upload \in DOMAIN uploads => Releasing(attachments[x].upload))
    /\ \A x, y \in DOMAIN attachments :
        Sound(x) /\ Sound(y) /\ Of(x, y) /\ Posted(x) /\ Posted(y) => x = y

\* Messages without an attachment are all that is new.
NoneAttached(saved, next) == \A i \in DOMAIN next : next[i].attachment # 0 =>
    i \in DOMAIN saved /\ saved[i].attachment = next[i].attachment

LEMMA StoredStays ==
    ASSUME TypeOK, Stored(posts, attachments), NoneAttached(posts, posts'),
           attachments' = attachments
    PROVE  /\ Stored(posts', attachments')
           /\ \A x \in DOMAIN attachments : Posted(x)' => Posted(x)
<1>1. Stored(posts', attachments')
  BY DEF Stored, NoneAttached
<1>2. \A x \in DOMAIN attachments : x # 0
  BY DEF TypeOK, UploadsTypeOK
<1> QED
  BY <1>1, <1>2 DEF NoneAttached, Posted

\* No attachment is made or posted, uploads go, and what is in flight goes on.
LEMMA PostsUndisturbed ==
    ASSUME TypeOK, PostsInv, NoneAttached(posts, posts'), attachments' = attachments,
           \A g \in Handler : Op(task'[g]) = "post" => task'[g] = task[g],
           \A x \in DOMAIN attachments :
                attachments[x].upload \in DOMAIN uploads' =>
                    /\ attachments[x].upload \in DOMAIN uploads
                    /\ Releasing(attachments[x].upload) => Releasing(attachments[x].upload)',
           Stored(newest'.posts, newest'.attachments) \/ newest' = Snapshot'
    PROVE  PostsInv'
<1>1. Stored(posts', attachments') /\ \A x \in DOMAIN attachments : Posted(x)' => Posted(x)
  BY StoredStays DEF PostsInv
<1>2. Stored(newest'.posts, newest'.attachments)
  BY <1>1 DEF Snapshot
<1>3. \A x : Sound(x)' = Sound(x) /\ \A y : Of(x, y)' = Of(x, y)
  BY DEF Sound, Of
<1>4. ASSUME NEW g \in Handler, Op(task'[g]) = "post", NEW a, a = task[g].attachment
      PROVE  /\ task'[g].attachment = a /\ a \in DOMAIN attachments'
             /\ attachments'[a].upload = task'[g].upload /\ ~ Posted(a)'
             /\ \A k \in Handler \ {g} : \A b : Op(task'[k]) = "post" /\ task'[k].attachment = b =>
                    b # a /\ ~ (Sound(a)' /\ Sound(b)' /\ Of(a, b)')
             /\ Sound(a)' => \A x \in DOMAIN attachments' : Sound(x)' /\ Of(x, a)' => ~ Posted(x)'
  <2>1. task'[g] = task[g] /\ Op(task[g]) = "post"
    BY <1>4
  <2>2. a \in DOMAIN attachments /\ attachments[a].upload = task[g].upload /\ ~ Posted(a)
    BY <1>4, <2>1 DEF PostsInv
  <2>3. \A k \in Handler \ {g} : Op(task'[k]) = "post" =>
            /\ task'[k] = task[k] /\ task[k].attachment # a
            /\ ~ (Sound(a) /\ Sound(task[k].attachment) /\ Of(a, task[k].attachment))
    BY <1>4, <2>1 DEF PostsInv
  <2>4. Sound(a) => \A x \in DOMAIN attachments : Sound(x) /\ Of(x, a) => ~ Posted(x)
    BY <1>4, <2>1 DEF PostsInv
  <2> QED
    BY <1>1, <1>3, <1>4, <2>1, <2>2, <2>3, <2>4
<1>5. \A x \in DOMAIN attachments' : Sound(x)' /\ Posted(x)' =>
            (attachments'[x].upload \in DOMAIN uploads' => Releasing(attachments[x].upload)')
  BY <1>1, <1>3 DEF PostsInv
<1>6. \A x, y \in DOMAIN attachments' :
            Sound(x)' /\ Sound(y)' /\ Of(x, y)' /\ Posted(x)' /\ Posted(y)' => x = y
  BY <1>1, <1>3 DEF PostsInv
<1> QED
  BY <1>1, <1>2, <1>4, <1>5, <1>6 DEF PostsInv

LEMMA NoneAttachedCases ==
    ASSUME TypeOK,
           \/ posts' = posts \/ \E u \in User : posts' = Tombstoned(u)
           \/ \E n, s : posts' = Append(posts, [id |-> n, sender |-> s, attachment |-> 0])
    PROVE  NoneAttached(posts, posts')
<1>0. posts \in Seq(Post)
  BY DEF TypeOK
<1>1. CASE posts' = posts
  BY <1>1 DEF NoneAttached
<1>2. ASSUME NEW u \in User, posts' = Tombstoned(u) PROVE NoneAttached(posts, posts')
  BY <1>0, <1>2, TombstonedTyped DEF NoneAttached
<1>3. ASSUME NEW n, NEW s, posts' = Append(posts, [id |-> n, sender |-> s, attachment |-> 0])
      PROVE  NoneAttached(posts, posts')
  <2> DEFINE p == [id |-> n, sender |-> s, attachment |-> 0]
  <2>1. posts' = Append(posts, p) /\ p.attachment = 0
    BY <1>3
  <2> HIDE DEF p
  <2> QED
    BY <1>0, <2>1 DEF NoneAttached
<1> QED
  BY <1>1, <1>2, <1>3

\* No attachment is posted elsewhere.
LEMMA AttachedNowhereElse ==
    ASSUME TypeOK, PollInv, NEW h \in Handler, ChatStep(h) \/ PollStep(h) \/ PersonalStep(h)
    PROVE  NoneAttached(posts, posts') /\ newest' \in {newest, Snapshot'}
<1>1. CASE ChatStep(h)
  <2>1. newest' \in {newest, Snapshot'} /\ (ChatAsks(h) \/ ChatGoesOn(h) \/ ChatSaves(h))
    BY <1>1 DEF ChatStep
  <2>2. \A a \in User : SendRequest(h, a) => posts' = posts
    BY DEF SendRequest
  <2>3. Send(h) => \E n, s : posts' = Append(posts, [id |-> n, sender |-> s, attachment |-> 0])
    BY DEF Send
  <2>4. \/ posts' = posts \/ \E u \in User : posts' = Tombstoned(u)
        \/ \E n, s : posts' = Append(posts, [id |-> n, sender |-> s, attachment |-> 0])
    BY <2>1, <2>2, <2>3, ChatKeepsPosts
  <2> QED
    BY <2>1, <2>4, NoneAttachedCases
<1>2. CASE PollStep(h)
  <2>1. newest' \in {newest, Snapshot'}
    BY <1>2 DEF PollStep
  <2>2. \/ posts' = posts
        \/ \E n, s : posts' = Append(posts, [id |-> n, sender |-> s, attachment |-> 0])
    BY <1>2 DEF PollStep, PollAsks, CreateRequest, VoteRequest, CloseRequest, AnnounceResult,
                CreatePoll, CountVote, ClosePoll
  <2> QED
    BY <2>1, <2>2, NoneAttachedCases
<1>3. CASE PersonalStep(h)
  <2>1. newest' \in {newest, Snapshot'} /\ posts' = posts
    BY <1>3, PersonalLeaves DEF PersonalStep, conversationVars
  <2> QED
    BY <2>1, NoneAttachedCases
<1> QED
  BY <1>1, <1>2, <1>3

\* An attachment is made for the request alone that completes the upload.
LEMMA CompleteKeepsPosts ==
    ASSUME GroupsInv, UploadInv, PostsInv, NEW h \in Handler, NEW i \in DOMAIN uploads,
           CompleteRequest(h, i), newest' = newest
    PROVE  PostsInv'
<1>0. TypeOK /\ UploadsTypeOK /\ i \in Nat /\ attachments \in Seq(Attachment)
  BY DEF GroupsInv, TypeOK, UploadsTypeOK
<1>1. /\ task[h] = None /\ Op(task'[h]) = "post" /\ task'[h].upload = i
      /\ task'[h].attachment = Len(attachments) + 1
      /\ \A g \in Handler \ {h} : task'[g] = task[g]
  BY <1>0, CompleteTask
<1> DEFINE m == [user |-> uploads[i].user, content |-> uploads[i].buffer, upload |-> i,
                 raced |-> Marked(i)[i].raced]
<1>2. /\ attachments' = Append(attachments, m) /\ uploads' = Marked(i) /\ posts' = posts
      /\ Len(uploads[i].buffer) = Chunks
      /\ m.content = uploads[i].buffer /\ m.upload = i /\ m.raced = Marked(i)[i].raced
  BY DEF CompleteRequest
<1> HIDE DEF m
<1>3. PICK new : new = Len(attachments) + 1
  OBVIOUS
<1>4. /\ DOMAIN attachments = 1 .. Len(attachments) /\ Len(attachments) \in Nat
      /\ DOMAIN attachments' = DOMAIN attachments \cup {new} /\ attachments'[new] = m
      /\ new \notin DOMAIN attachments /\ new # 0
      /\ \A x \in DOMAIN attachments : attachments'[x] = attachments[x]
  BY <1>0, <1>2, <1>3
<1>5. m.raced \/ (m.content = File /\ \A g \in Handler : ~ OnIt(g, i))
  <2>1. SUFFICES ASSUME ~ m.raced PROVE m.content = File /\ \A g \in Handler : ~ OnIt(g, i)
    OBVIOUS
  <2>2. ~ uploads[i].raced /\ OnUpload(i) = {}
    BY <1>0, <1>2, <2>1, MarkedTyped
  <2>3. InOrder(i)
    BY <2>2 DEF UploadInv
  <2>4. uploads[i].buffer \in Seq(Nat) /\ DOMAIN uploads[i].buffer = 1 .. Chunks
    BY <1>0, <1>2 DEF UploadsTypeOK, Upload
  <2>5. \A k \in 1 .. Chunks : uploads[i].buffer[k] = k - 1
    BY <1>2, <2>3 DEF InOrder
  <2>6. uploads[i].buffer = File
    <3>1. uploads[i].buffer \in [1 .. Chunks -> Nat]
      BY <1>2, <2>4
    <3> QED
      BY <2>5, <3>1 DEF File
  <2> QED
    BY <1>2, <2>2, <2>6, OnUploadIs
<1>6. Stored(posts, attachments)' /\ Stored(newest.posts, newest.attachments)'
  <2>1. newest'.posts = newest.posts /\ newest'.attachments = newest.attachments
    OBVIOUS
  <2> QED
    BY <1>2, <1>4, <1>5, <2>1 DEF Stored, PostsInv
<1>7. /\ \A x : Posted(x)' = Posted(x)
      /\ \A x \in DOMAIN attachments : Sound(x)' = Sound(x)
      /\ \A x, y \in DOMAIN attachments : Of(x, y)' = Of(x, y)
  BY <1>2, <1>4 DEF Posted, Sound, Of
<1>8. ~ Posted(new)
  BY <1>4 DEF Posted, PostsInv, Stored
<1>9. \A j : Releasing(j)' = Releasing(j)
  BY <1>1 DEF Releasing, Op
<1>10. DOMAIN uploads' = DOMAIN uploads
  BY <1>0, <1>2, MarkedTyped
<1>11. Sound(new)' => \A g \in Handler : ~ OnIt(g, i)
  BY <1>4, <1>5 DEF Sound
<1>12. \A x \in DOMAIN attachments : Of(x, new)' \/ Of(new, x)' => attachments[x].upload = i
  BY <1>2, <1>4 DEF Of
<1>13. Sound(new)' => \A x \in DOMAIN attachments : attachments[x].upload = i /\ Sound(x) => ~ Posted(x)
  <2>1. ASSUME Sound(new)', NEW x \in DOMAIN attachments, attachments[x].upload = i, Sound(x), Posted(x)
        PROVE  FALSE
    <3>1. Releasing(i)
      BY <2>1 DEF PostsInv
    <3> QED
      BY <1>11, <2>1, <3>1 DEF Releasing, OnIt
  <2> QED
    BY <2>1
<1>14. \A g \in Handler \ {h} : Op(task[g]) = "post" =>
            /\ task[g].attachment \in DOMAIN attachments
            /\ Sound(new)' => attachments[task[g].attachment].upload # i
  BY <1>11 DEF OnIt, PostsInv
<1>15. ASSUME NEW g \in Handler, Op(task'[g]) = "post", NEW a, a = task'[g].attachment
       PROVE  /\ a \in DOMAIN attachments' /\ attachments'[a].upload = task'[g].upload
              /\ ~ Posted(a)'
              /\ \A k \in Handler \ {g} : \A b : Op(task'[k]) = "post" /\ task'[k].attachment = b =>
                    b # a /\ ~ (Sound(a)' /\ Sound(b)' /\ Of(a, b)')
              /\ Sound(a)' => \A x \in DOMAIN attachments' : Sound(x)' /\ Of(x, a)' => ~ Posted(x)'
  <2>1. CASE g = h
    <3>1. a = new /\ task'[g].upload = i
      BY <1>1, <1>3, <1>15, <2>1
    <3>2. \A k \in Handler \ {g} : \A b : Op(task'[k]) = "post" /\ task'[k].attachment = b =>
                b # a /\ ~ (Sound(a)' /\ Sound(b)' /\ Of(a, b)')
      BY <1>1, <1>4, <1>12, <1>14, <2>1, <3>1
    <3>3. Sound(a)' => \A x \in DOMAIN attachments' : Sound(x)' /\ Of(x, a)' => ~ Posted(x)'
      BY <1>4, <1>7, <1>8, <1>12, <1>13, <3>1
    <3> QED
      BY <1>2, <1>4, <1>7, <1>8, <3>1, <3>2, <3>3
  <2>2. CASE g # h
    <3>1. task'[g] = task[g] /\ Op(task[g]) = "post"
      BY <1>1, <1>15, <2>2
    <3>2. a \in DOMAIN attachments /\ attachments[a].upload = task[g].upload /\ ~ Posted(a)
      BY <1>15, <3>1 DEF PostsInv
    <3>3. a # new /\ ~ (Sound(a)' /\ Sound(new)' /\ Of(a, new)')
      BY <1>4, <1>12, <1>14, <1>15, <2>2, <3>1, <3>2
    <3>4. \A k \in Handler \ {g} : \A b : k # h /\ Op(task'[k]) = "post" /\ task'[k].attachment = b =>
                b # a /\ ~ (Sound(a)' /\ Sound(b)' /\ Of(a, b)')
      <4>1. ASSUME NEW k \in Handler \ {g}, NEW b, k # h, Op(task'[k]) = "post", task'[k].attachment = b
            PROVE  b # a /\ ~ (Sound(a)' /\ Sound(b)' /\ Of(a, b)')
        <5>1. task'[k] = task[k] /\ b \in DOMAIN attachments
          BY <1>1, <4>1 DEF PostsInv
        <5>2. b # a /\ ~ (Sound(a) /\ Sound(b) /\ Of(a, b))
          BY <1>15, <3>1, <4>1, <5>1 DEF PostsInv
        <5> QED
          BY <1>7, <3>2, <5>1, <5>2
      <4> QED
        BY <4>1
    <3>5. Sound(a) => \A x \in DOMAIN attachments : Sound(x) /\ Of(x, a) => ~ Posted(x)
      BY <1>15, <3>1 DEF PostsInv
    <3>6. Sound(a)' => \A x \in DOMAIN attachments' : Sound(x)' /\ Of(x, a)' => ~ Posted(x)'
      BY <1>4, <1>7, <1>8, <3>2, <3>5
    <3> QED
      BY <1>1, <1>3, <1>4, <1>7, <1>15, <3>1, <3>2, <3>3, <3>4, <3>6
  <2> QED
    BY <2>1, <2>2
<1>16. \A x \in DOMAIN attachments' : Sound(x)' /\ Posted(x)' =>
            (attachments'[x].upload \in DOMAIN uploads' => Releasing(attachments[x].upload)')
  BY <1>4, <1>7, <1>8, <1>9, <1>10 DEF PostsInv
<1>17. \A x, y \in DOMAIN attachments' :
            Sound(x)' /\ Sound(y)' /\ Of(x, y)' /\ Posted(x)' /\ Posted(y)' => x = y
  BY <1>4, <1>7, <1>8 DEF PostsInv
<1> QED
  BY <1>6, <1>15, <1>16, <1>17 DEF PostsInv

\* The message is stored, and the request goes on to release the upload.
LEMMA PostKeepsPosts ==
    ASSUME GroupsInv, PostsInv, NEW h \in Handler, PostAttachment(h), newest' = Snapshot'
    PROVE  PostsInv'
<1>0. TypeOK /\ posts \in Seq(Post)
  BY DEF GroupsInv, TypeOK
<1>1. Op(task[h]) = "post" /\ UNCHANGED <<attachments, uploads>>
  BY <1>0, PostTask DEF PostAttachment, uploadVars
<1>2. \A g \in Handler \ {h} : task'[g] = task[g]
  BY <1>0, PostTask
<1>3. CASE task'[h] = None /\ posts' = posts
  <2>1. NoneAttached(posts, posts')
    BY <1>3 DEF NoneAttached
  <2>2. \A g \in Handler : Op(task'[g]) = "post" => task'[g] = task[g]
    BY <1>2, <1>3 DEF Op
  <2>3. \A j : Releasing(j) => Releasing(j)'
    BY <1>1, <1>2 DEF Releasing
  <2> QED
    BY <1>0, <1>1, <2>1, <2>2, <2>3, PostsUndisturbed
<1>4. ASSUME Op(task'[h]) = "release", task'[h].upload = task[h].upload,
             posts' = Append(posts, [id |-> task[h].id, sender |-> task[h].user,
                                     attachment |-> task[h].attachment])
      PROVE  PostsInv'
  <2>1. PICK new : new = task[h].attachment
    OBVIOUS
  <2> DEFINE p == [id |-> task[h].id, sender |-> task[h].user, attachment |-> task[h].attachment]
  <2>2. posts' = Append(posts, p) /\ p.attachment = new
    BY <1>4, <2>1
  <2> HIDE DEF p
  <2>3. new \in DOMAIN attachments /\ attachments[new].upload = task[h].upload /\ ~ Posted(new)
    BY <1>1, <2>1 DEF PostsInv
  <2>4. \A x : Posted(x)' = (Posted(x) \/ x = new)
    <3>1. /\ DOMAIN posts' = DOMAIN posts \cup {Len(posts) + 1}
          /\ \A i \in DOMAIN posts : posts'[i] = posts[i]
          /\ posts'[Len(posts) + 1].attachment = new
      BY <1>0, <2>2
    <3> QED
      BY <3>1 DEF Posted
  <2>5. \A x : Sound(x)' = Sound(x) /\ \A y : Of(x, y)' = Of(x, y)
    BY <1>1 DEF Sound, Of
  <2>6. \A j : Releasing(j) \/ j = attachments[new].upload => Releasing(j)'
    BY <1>1, <1>2, <1>4, <2>3 DEF Releasing
  <2>7. Stored(posts, attachments)' /\ Stored(newest.posts, newest.attachments)'
    <3>1. Stored(posts', attachments')
      <4>1. /\ DOMAIN posts' = DOMAIN posts \cup {Len(posts) + 1}
            /\ \A i \in DOMAIN posts : posts'[i] = posts[i]
            /\ posts'[Len(posts) + 1].attachment = new
        BY <1>0, <2>2
      <4> QED
        BY <1>1, <2>3, <4>1 DEF Stored, Posted, PostsInv
    <3> QED
      BY <3>1 DEF Snapshot
  <2>8. Sound(new) => \A x \in DOMAIN attachments : Sound(x) /\ Of(x, new) => ~ Posted(x)
    BY <1>1, <2>1 DEF PostsInv
  <2>9. ASSUME NEW g \in Handler, Op(task'[g]) = "post", NEW a, a = task'[g].attachment
        PROVE  /\ a \in DOMAIN attachments' /\ attachments'[a].upload = task'[g].upload
               /\ ~ Posted(a)'
               /\ \A k \in Handler \ {g} : \A b : Op(task'[k]) = "post" /\ task'[k].attachment = b =>
                     b # a /\ ~ (Sound(a)' /\ Sound(b)' /\ Of(a, b)')
               /\ Sound(a)' => \A x \in DOMAIN attachments' : Sound(x)' /\ Of(x, a)' => ~ Posted(x)'
    <3>1. g # h /\ task'[g] = task[g] /\ Op(task[g]) = "post"
      BY <1>2, <1>4, <2>9
    <3>2. a \in DOMAIN attachments /\ attachments[a].upload = task[g].upload /\ ~ Posted(a)
      BY <2>9, <3>1 DEF PostsInv
    <3>3. a # new /\ ~ (Sound(a) /\ Sound(new) /\ Of(a, new))
      BY <1>1, <2>1, <2>9, <3>1 DEF PostsInv
    <3>4. \A k \in Handler \ {g} : \A b : Op(task'[k]) = "post" /\ task'[k].attachment = b =>
                b # a /\ ~ (Sound(a) /\ Sound(b) /\ Of(a, b))
      <4>1. \A k \in Handler : Op(task'[k]) = "post" => task'[k] = task[k]
        BY <1>2, <1>4
      <4> QED
        BY <2>9, <3>1, <4>1 DEF PostsInv
    <3>5. Sound(a) => \A x \in DOMAIN attachments : Sound(x) /\ Of(x, a) => ~ Posted(x)
      BY <2>9, <3>1 DEF PostsInv
    <3>6. Of(new, a) = Of(a, new)
      BY DEF Of
    <3> QED
      BY <1>1, <2>4, <2>5, <3>1, <3>2, <3>3, <3>4, <3>5, <3>6
  <2>10. \A x \in DOMAIN attachments' : Sound(x)' /\ Posted(x)' =>
            (attachments'[x].upload \in DOMAIN uploads' => Releasing(attachments[x].upload)')
    BY <1>1, <2>4, <2>5, <2>6 DEF PostsInv
  <2>11. \A x, y \in DOMAIN attachments' :
            Sound(x)' /\ Sound(y)' /\ Of(x, y)' /\ Posted(x)' /\ Posted(y)' => x = y
    <3>1. \A x, y \in DOMAIN attachments :
            Sound(x) /\ Sound(y) /\ Of(x, y) /\ Posted(x) /\ Posted(y) => x = y
      BY DEF PostsInv
    <3>2. \A x : Of(x, new) = Of(new, x)
      BY DEF Of
    <3> QED
      BY <1>1, <2>3, <2>4, <2>5, <2>8, <3>1, <3>2
  <2> QED
    BY <2>7, <2>9, <2>10, <2>11 DEF PostsInv
<1> QED
  BY <1>0, <1>3, <1>4, PostTask

\* The file that comes with a message is an attachment of no upload.
LEMMA SendKeepsPosts ==
    ASSUME GroupsInv, PostsInv, NEW h \in Handler, SendAttachment(h), newest' = Snapshot'
    PROVE  PostsInv'
<1>0. TypeOK /\ posts \in Seq(Post) /\ attachments \in Seq(Attachment)
  BY DEF GroupsInv, TypeOK, UploadsTypeOK
<1>1. Op(task[h]) = "attach" /\ task'[h] = None /\ \A g \in Handler \ {h} : task'[g] = task[g]
  BY <1>0, EndMoves, DoingFields DEF SendAttachment, Becomes
<1> DEFINE m == [user |-> task[h].user, content |-> File, upload |-> 0, raced |-> FALSE]
           p == [id |-> nextPost, sender |-> task[h].user, attachment |-> Len(attachments) + 1]
<1>2. /\ attachments' = Append(attachments, m) /\ m.content = File /\ m.upload = 0
      /\ posts' = Append(posts, p) /\ p.attachment = Len(attachments) + 1
      /\ uploads' = uploads
  BY DEF SendAttachment
<1> HIDE DEF m, p
<1>3. PICK new : new = Len(attachments) + 1
  OBVIOUS
<1>4. /\ DOMAIN attachments = 1 .. Len(attachments) /\ Len(attachments) \in Nat
      /\ DOMAIN attachments' = DOMAIN attachments \cup {new} /\ attachments'[new] = m
      /\ new \notin DOMAIN attachments /\ new # 0
      /\ \A x \in DOMAIN attachments : attachments'[x] = attachments[x]
  BY <1>0, <1>2, <1>3
<1>5. /\ DOMAIN posts' = DOMAIN posts \cup {Len(posts) + 1}
      /\ \A i \in DOMAIN posts : posts'[i] = posts[i]
      /\ posts'[Len(posts) + 1].attachment = new
  BY <1>0, <1>2, <1>3
<1>6. \A i \in DOMAIN posts : posts[i].attachment # new
  BY <1>4 DEF PostsInv, Stored
<1>7. Stored(posts', attachments') /\ Stored(newest'.posts, newest'.attachments)
  <2>1. Stored(posts', attachments')
    BY <1>2, <1>4, <1>5, <1>6 DEF Stored, PostsInv
  <2> QED
    BY <2>1 DEF Snapshot
<1>8. /\ \A x \in DOMAIN attachments : Posted(x)' = Posted(x)
      /\ \A x \in DOMAIN attachments : Sound(x)' = Sound(x)
      /\ \A x, y \in DOMAIN attachments : Of(x, y)' = Of(x, y)
      /\ ~ Sound(new)'
  BY <1>2, <1>4, <1>5 DEF Posted, Sound, Of
<1>9. \A g \in Handler : Op(task'[g]) = "post" =>
            task'[g] = task[g] /\ task[g].attachment \in DOMAIN attachments
  BY <1>1 DEF Op, PostsInv
<1>10. ASSUME NEW g \in Handler, Op(task'[g]) = "post", NEW a, a = task'[g].attachment
       PROVE  /\ a \in DOMAIN attachments' /\ attachments'[a].upload = task'[g].upload
              /\ ~ Posted(a)'
              /\ \A k \in Handler \ {g} : \A b : Op(task'[k]) = "post" /\ task'[k].attachment = b =>
                    b # a /\ ~ (Sound(a)' /\ Sound(b)' /\ Of(a, b)')
              /\ Sound(a)' => \A x \in DOMAIN attachments' : Sound(x)' /\ Of(x, a)' => ~ Posted(x)'
  <2>1. task'[g] = task[g] /\ a \in DOMAIN attachments /\ attachments[a].upload = task[g].upload
        /\ ~ Posted(a)
    BY <1>9, <1>10 DEF PostsInv
  <2>2. \A k \in Handler \ {g} : \A b : Op(task'[k]) = "post" /\ task'[k].attachment = b =>
            b \in DOMAIN attachments /\ b # a /\ ~ (Sound(a) /\ Sound(b) /\ Of(a, b))
    BY <1>9, <1>10, <2>1 DEF PostsInv
  <2>3. Sound(a) => \A x \in DOMAIN attachments : Sound(x) /\ Of(x, a) => ~ Posted(x)
    BY <1>9, <1>10, <2>1 DEF PostsInv
  <2> QED
    BY <1>4, <1>8, <2>1, <2>2, <2>3
<1>11. \A j : Releasing(j)' = Releasing(j)
  BY <1>1 DEF Releasing, Op
<1>12. \A x \in DOMAIN attachments' : Sound(x)' /\ Posted(x)' =>
            (attachments'[x].upload \in DOMAIN uploads' => Releasing(attachments[x].upload)')
  <2>1. ASSUME NEW x \in DOMAIN attachments, Sound(x), Posted(x), attachments[x].upload \in DOMAIN uploads
        PROVE  Releasing(attachments[x].upload)'
    <3>1. PICK j : j = attachments[x].upload
      OBVIOUS
    <3>2. Releasing(j)' /\ attachments'[x].upload = j
      BY <1>4, <1>11, <2>1, <3>1 DEF PostsInv
    <3> QED
      BY <3>2
  <2> QED
    BY <1>2, <1>4, <1>8, <2>1
<1>13. \A x, y \in DOMAIN attachments' :
            Sound(x)' /\ Sound(y)' /\ Of(x, y)' /\ Posted(x)' /\ Posted(y)' => x = y
  BY <1>4, <1>8 DEF PostsInv
<1> QED
  BY <1>7, <1>10, <1>12, <1>13 DEF PostsInv

LEMMA UploadKeepsAttached ==
    ASSUME GroupsInv, UploadInv, PostsInv, NEW h \in Handler, UploadStep(h) PROVE PostsInv'
<1>0. TypeOK /\ UploadsTypeOK
  BY DEF GroupsInv, TypeOK
<1>1. ASSUME UploadAsks(h) \/ UploadGoesOn(h), newest' = newest,
             ~ (\E i \in DOMAIN uploads : CompleteRequest(h, i))
      PROVE  PostsInv'
  <2>1. /\ UNCHANGED <<posts, attachments>>
        /\ Op(task'[h]) \in {"attach", "begin", "chunk", "idle"}
        /\ \A g \in Handler \ {h} : task'[g] = task[g]
    BY <1>0, <1>1, UploadKeepsPosts
  <2>2. NoneAttached(posts, posts') /\ \A g \in Handler : Op(task'[g]) = "post" => task'[g] = task[g]
    BY <2>1 DEF NoneAttached
  <2>3. \A j : j \in DOMAIN uploads' /\ j < nextUpload =>
                /\ j \in DOMAIN uploads
                /\ Releasing(j) => Releasing(j)'
    <3>1. CASE UploadAsks(h)
      <4>1. DOMAIN uploads' = DOMAIN uploads
        BY <1>0, <1>1, <3>1, MarkedTyped
           DEF UploadAsks, AttachRequest, BeginRequest, ChunkRequest, uploadVars
      <4>2. task[h] = None
        BY <3>1, <1>1
           DEF UploadAsks, AttachRequest, BeginRequest, ChunkRequest, Starts
      <4> QED
        BY <2>1, <4>1, <4>2 DEF Releasing, Op
    <3>2. CASE InitUpload(h)
      <4>1. Op(task[h]) = "begin" /\ DOMAIN uploads' = DOMAIN uploads \cup {nextUpload}
        BY <1>0, <3>2, DoingFields DEF InitUpload
      <4>2. nextUpload \in Nat
        BY <1>0 DEF UploadsTypeOK
      <4> QED
        BY <2>1, <4>1, <4>2 DEF Releasing
    <3>3. CASE AcceptChunk(h)
      <4>1. h \in Doing("chunk") /\ DOMAIN uploads' = DOMAIN uploads
        BY <3>3 DEF AcceptChunk
      <4>2. Op(task[h]) = "chunk"
        BY <4>1, DoingIsOp
      <4> QED
        BY <2>1, <4>1, <4>2 DEF Releasing
    <3>4. CASE ReleaseUpload(h)
      <4>1. DOMAIN uploads' = DOMAIN uploads \ {task[h].upload}
        BY <1>0, <3>4, WithoutTyped DEF ReleaseUpload
      <4> QED
        BY <2>1, <4>1 DEF Releasing
    <3> QED
      BY <1>1, <3>1, <3>2, <3>3, <3>4 DEF UploadGoesOn
  <2>4. \A x \in DOMAIN attachments : attachments[x].upload \in DOMAIN uploads' =>
            /\ attachments[x].upload \in DOMAIN uploads
            /\ Releasing(attachments[x].upload) => Releasing(attachments[x].upload)'
    <3>1. ASSUME NEW x \in DOMAIN attachments, NEW j, j = attachments[x].upload, j \in DOMAIN uploads'
          PROVE  j \in DOMAIN uploads /\ (Releasing(j) => Releasing(j)')
      BY <2>3, <3>1 DEF UploadInv
    <3>2. attachments' = attachments
      BY <2>1
    <3> QED
      BY <3>1, <3>2
  <2>5. Stored(newest'.posts, newest'.attachments)
    BY <1>1 DEF PostsInv
  <2> QED
    BY <1>0, <2>1, <2>2, <2>4, <2>5, PostsUndisturbed
<1>2. ASSUME NEW i \in DOMAIN uploads, CompleteRequest(h, i), newest' = Snapshot' PROVE PostsInv'
  <2>1. task[h] = None /\ (PostAttachment(h) \/ SendAttachment(h) \/ newest' = newest)
    BY <1>2 DEF CompleteRequest, Starts, UploadStep
  <2>2. ~ PostAttachment(h) /\ ~ SendAttachment(h)
    BY <2>1 DEF PostAttachment, SendAttachment, Doing, Busy
  <2> QED
    BY <1>2, <2>1, <2>2, CompleteKeepsPosts
<1> QED
  BY <1>1, <1>2, CompleteKeepsPosts, PostKeepsPosts, SendKeepsPosts DEF UploadStep, UploadAsks

LEMMA PostsInvInit == GroupsInit => PostsInv
<1> SUFFICES ASSUME GroupsInit PROVE PostsInv
  OBVIOUS
<1>1. posts = <<>> /\ attachments = <<>> /\ newest.posts = <<>> /\ newest.attachments = <<>>
      /\ \A g \in Handler : Op(task[g]) = "idle"
  BY DEF GroupsInit, Init, UploadsInit, Snapshot, Op
<1> QED
  BY <1>1 DEF PostsInv, Stored

\* Of a payload that is still to be written the same is true.
FilesStored == \A p \in Payloads : Stored(p.posts, p.attachments)

LEMMA FilesStoredNext == ASSUME FilesStored, PostsInv', [Next]_vars PROVE FilesStored'
<1>1. /\ Payloads' \subseteq Payloads \cup {Snapshot'}
      /\ Snapshot'.posts = posts' /\ Snapshot'.attachments = attachments'
  BY NextPayload DEF Payload, Snapshot
<1>2. Stored(posts', attachments')
  BY DEF PostsInv
<1> QED
  BY <1>1, <1>2 DEF FilesStored

LEMMA PostsInvNext ==
    ASSUME GroupsInv, UploadInv, PostsInv, FilesStored, [Next]_vars PROVE PostsInv'
<1>0. TypeOK /\ PollInv /\ left \in [Request -> Nat] /\ UploadsTypeOK /\ file \in SavedState
  BY TypeParts DEF GroupsInv, Payloads
<1>1. ASSUME NEW h \in Handler, ChatStep(h) \/ PollStep(h) \/ PersonalStep(h) PROVE PostsInv'
  <2>1. UNCHANGED uploadVars /\ \A g \in Handler :
            {Op(task[g]), Op(task'[g])} \cap UploadOps # {} => task'[g] = task[g]
    BY <1>0, <1>1, UploadsLeftAlone
  <2>2. NoneAttached(posts, posts') /\ newest' \in {newest, Snapshot'}
    BY <1>0, <1>1, AttachedNowhereElse
  <2>3. \A g \in Handler : Op(task'[g]) = "post" => task'[g] = task[g]
    BY <2>1 DEF UploadOps
  <2>4. \A j : Releasing(j) => Releasing(j)'
    BY <2>1 DEF UploadOps, Releasing
  <2>5. Stored(newest'.posts, newest'.attachments) \/ newest' = Snapshot'
    BY <2>2 DEF PostsInv
  <2>6. attachments' = attachments /\ uploads' = uploads
    BY <2>1 DEF uploadVars
  <2>7. \A x \in DOMAIN attachments : attachments[x].upload \in DOMAIN uploads' =>
            /\ attachments[x].upload \in DOMAIN uploads
            /\ Releasing(attachments[x].upload) => Releasing(attachments[x].upload)'
    BY <2>4, <2>6
  <2> QED
    BY <1>0, <2>2, <2>3, <2>5, <2>6, <2>7, PostsUndisturbed
<1>2. CASE RefuseStep \/ UNCHANGED memoryVars
  <2>1. /\ UNCHANGED <<task, posts, attachments, newest>>
        /\ uploads' = uploads \/ \E i : uploads' = Without(i)
    BY <1>2 DEF RefuseStep, DropUpload, memoryVars, chatVars, uploadVars
  <2>2. DOMAIN uploads' \subseteq DOMAIN uploads
    BY <1>0, <2>1, WithoutTyped
  <2>3. NoneAttached(posts, posts') /\ Stored(newest'.posts, newest'.attachments)
    BY <2>1 DEF NoneAttached, PostsInv
  <2>4. \A j : Releasing(j) => Releasing(j)'
    BY <2>1 DEF Releasing
  <2>5. \A x \in DOMAIN attachments : attachments[x].upload \in DOMAIN uploads' =>
            /\ attachments[x].upload \in DOMAIN uploads
            /\ Releasing(attachments[x].upload) => Releasing(attachments[x].upload)'
    BY <2>1, <2>2, <2>4
  <2> QED
    BY <1>0, <2>1, <2>3, <2>5, PostsUndisturbed
<1>3. CASE Restart
  <2>1. /\ posts' = file.posts /\ newest' = file /\ \A g \in Handler : task'[g] = None
        /\ attachments' = [i \in DOMAIN file.attachments |->
                              [file.attachments[i] EXCEPT !.upload = 0]]
    BY <1>3 DEF Restart
  <2>2. \A i \in DOMAIN file.attachments : file.attachments[i] \in Attachment
    BY <1>0 DEF SavedState
  <2>3. DOMAIN attachments' = DOMAIN file.attachments
        /\ \A x \in DOMAIN attachments' : /\ attachments'[x].upload = 0
                                          /\ attachments'[x].raced = file.attachments[x].raced
                                          /\ attachments'[x].content = file.attachments[x].content
    BY <2>1, <2>2 DEF Attachment
  <2>4. Stored(posts, attachments)' /\ Stored(newest.posts, newest.attachments)'
    <3>1. Stored(file.posts, file.attachments)
      BY DEF FilesStored, Payloads
    <3> QED
      BY <2>1, <2>3, <3>1 DEF Stored
  <2>5. \A x : ~ Sound(x)'
    BY <2>3 DEF Sound
  <2> QED
    BY <2>1, <2>4, <2>5 DEF PostsInv, Op
<1> QED
  BY <1>0, <1>1, <1>2, <1>3, StepKinds, UploadKeepsAttached

\* The chunks are counted before they are taken, the attachment is recorded before its
\* message and the upload goes after it; what a restart reads was saved by the step that
\* stored the message (accept_upload_chunk, complete_upload, send_attachment_message).
THEOREM AttachmentsStayWhole == Spec => []AttachmentsAreWhole
<1>1. TypeOK /\ PostsInv => AttachmentsAreWhole
  <2> SUFFICES ASSUME TypeOK, PostsInv PROVE AttachmentsAreWhole
    OBVIOUS
  <2>1. ASSUME NEW i \in DOMAIN posts, NEW x, x = posts[i].attachment, x # 0
        PROVE  x \in DOMAIN attachments /\ (attachments[x].raced \/ attachments[x].content = File)
    BY <2>1 DEF PostsInv, Stored
  <2>2. ASSUME NEW i \in DOMAIN posts, NEW x, x = posts[i].attachment, x # 0,
               NEW j \in DOMAIN posts \ {i}, NEW y, y = posts[j].attachment, y # 0,
               attachments[x].upload # 0, attachments[y].upload = attachments[x].upload,
               ~ attachments[x].raced, ~ attachments[y].raced
        PROVE  FALSE
    <3>1. x \in DOMAIN attachments /\ y \in DOMAIN attachments /\ y # x
      BY <2>2 DEF PostsInv, Stored
    <3>2. Sound(x) /\ Sound(y) /\ Posted(x) /\ Posted(y) /\ Of(x, y)
      BY <2>2, <3>1 DEF Sound, Posted, Of
    <3> QED
      BY <3>1, <3>2 DEF PostsInv
  <2> QED
    BY <2>1, <2>2 DEF AttachmentsAreWhole
<1>2. Spec => []UploadInv
  BY UploadInvInit, UploadInvNext, GroupsInvariant, PTL DEF Spec
<1>3. GroupsInit => FilesStored
  BY PostsInvInit DEF GroupsInit, Payloads, FilesStored, PostsInv
<1>4. Spec => [](PostsInv /\ FilesStored)
  BY <1>2, <1>3, PostsInvInit, PostsInvNext, FilesStoredNext, GroupsInvariant, PTL DEF Spec
<1> QED
  BY <1>1, <1>4, TypeCorrect, PTL

--------------------------------------------------------------------------------
(* What is kept for the users: what each step does to it *)

Rest(h) == \A g \in Handler \ {h} : task'[g] = task[g]

KeepsItem(h, a, x, n) ==
    /\ Op(task[h]) = "keep" /\ task[h].user = a /\ task[h].item = x
    /\ n = IF x \in Contact THEN kept[a][x] + 1 ELSE 1
    /\ \A u \in User, i \in Item :
        /\ kept'[u][i] = IF u = a /\ i = x THEN n ELSE kept[u][i]
        /\ answered'[u][i] = IF u = a /\ i = x
                             THEN IF n > 1 THEN "unclear" ELSE Told(h, a, x, "in")
                             ELSE answered[u][i]
    /\ task'[h] = None /\ Rest(h)

LEMMA KeepDoes ==
    ASSUME TypeOK, NEW h \in Handler, Keep(h)
    PROVE  \E a \in User, x \in Item \ Tokens, n \in Nat : KeepsItem(h, a, x, n)
<1>0. PersonalTypeOK
  BY DEF TypeOK
<1>1. h \in Doing("keep") /\ Ends(h)
  BY KeepIsKeeps DEF Keeps
<1>2. /\ Op(task[h]) = "keep" /\ task[h].user \in User /\ task[h].item \in Item
      /\ task'[h] = None /\ Rest(h)
  BY <1>1, DoingFields, EndMoves DEF Becomes, Rest
<1>3. PICK a \in User, x \in Item : a = task[h].user /\ x = task[h].item
  BY <1>2
<1>4. PICK n : /\ Keeps(h, Item \ Tokens, n)
               /\ n = IF x \in Contact THEN kept[a][x] + 1 ELSE 1
  <2>1. ASSUME NEW n, NEW items, items \subseteq Item \ Tokens, Keeps(h, items, n)
        PROVE  Keeps(h, Item \ Tokens, n)
    BY <2>1 DEF Keeps
  <2>2. \A i : i[1] \in {"alias", "blocked", "draft", "pinned", "archived", "muted"} => i \notin Contact
    BY DEF Contact
  <2>3. CASE AddContact(h)
    <3>1. x \in Contact /\ Keeps(h, Contact, kept[a][x] + 1)
      BY <1>3, <2>3 DEF AddContact, Keeps
    <3> QED
      BY <2>1, <3>1, NoTokenItems
  <2>4. ASSUME NEW items, items \subseteq Item \ Tokens, items \cap Contact = {}, Keeps(h, items, 1)
        PROVE  Keeps(h, Item \ Tokens, 1) /\ x \notin Contact
    <3>1. x \in items
      BY <1>3, <2>4 DEF Keeps
    <3> QED
      BY <2>1, <2>4, <3>1
  <2>5. CASE NameContact(h)
    <3>1. Alias \cap Contact = {}
      BY DEF Alias, Contact
    <3> QED
      BY <2>4, <2>5, <3>1, NoTokenItems DEF NameContact
  <2>6. CASE Block(h)
    <3>1. Blocked \cap Contact = {}
      BY DEF Blocked, Contact
    <3> QED
      BY <2>4, <2>6, <3>1, NoTokenItems DEF Block
  <2>7. CASE Mute(h)
    <3>1. Muted \cap Contact = {}
      BY DEF Muted, Contact
    <3> QED
      BY <2>4, <2>7, <3>1, NoTokenItems DEF Mute
  <2>8. CASE SaveDraft(h) \/ SetFlag(h)
    <3>1. {<<"draft", None>>} \cap Contact = {} /\ {<<"pinned", None>>, <<"archived", None>>} \cap Contact = {}
      BY DEF Contact
    <3>2. {<<"draft", None>>} \subseteq Item \ Tokens
          /\ {<<"pinned", None>>, <<"archived", None>>} \subseteq Item \ Tokens
      BY NoTokenItems
    <3> QED
      BY <2>4, <2>8, <3>1, <3>2 DEF SaveDraft, SetFlag
  <2> QED
    BY <2>3, <2>5, <2>6, <2>7, <2>8 DEF Keep
<1>5. kept[a][x] \in Nat /\ n \in Nat
  BY <1>0, <1>4, PersonalTyped
<1>6. x \in Item \ Tokens
  BY <1>3, <1>4 DEF Keeps
<1>7. \A u \in User, i \in Item : kept'[u][i] = IF u = a /\ i = x THEN n ELSE kept[u][i]
  <2>1. kept' = [kept EXCEPT ![a][x] = n]
    BY <1>3, <1>4 DEF Keeps
  <2> QED
    BY <1>0, <2>1, PersonalTyped
<1>8. \A u \in User, i \in Item :
        answered'[u][i] = IF u = a /\ i = x THEN IF n > 1 THEN "unclear" ELSE Told(h, a, x, "in")
                          ELSE answered[u][i]
  <2>1. PICK w : w = IF n > 1 THEN "unclear" ELSE Told(h, a, x, "in")
    OBVIOUS
  <2>2. answered' = [answered EXCEPT ![a][x] = w]
    BY <1>3, <1>4, <2>1 DEF Keeps
  <2> QED
    BY <1>0, <2>1, <2>2, PersonalTyped
<1> QED
  BY <1>2, <1>3, <1>4, <1>5, <1>6, <1>7, <1>8 DEF KeepsItem

DropsItem(h, a, x, both) ==
    /\ Op(task[h]) = "drop" /\ task[h].user = a /\ task[h].item = x
    /\ x \in both /\ \A i \in both : i # x => x \in Contact /\ i \in Alias
    /\ \/ kept[a][x] = 0 /\ UNCHANGED <<kept, answered>>
       \/ /\ kept[a][x] > 0
          /\ \A u \in User, i \in Item :
            /\ kept'[u][i] = IF u = a /\ i = x THEN kept[a][x] - 1
                             ELSE IF u = a /\ i \in both THEN 0 ELSE kept[u][i]
            /\ answered'[u][i] =
                IF u = a /\ i \in both /\ ~ (i = x /\ answered[a][x] = "unclear" /\ x \in Contact)
                THEN Told(h, a, i, "out") ELSE answered[u][i]
    /\ task'[h] = None /\ Rest(h)

LEMMA DropDoes ==
    ASSUME TypeOK, NEW h \in Handler, Drop(h)
    PROVE  \E a \in User, x \in Item, both \in SUBSET Item : DropsItem(h, a, x, both)
<1>0. PersonalTypeOK
  BY DEF TypeOK
<1>1. h \in Doing("drop") /\ Ends(h)
  BY DEF Drop
<1>2. /\ Op(task[h]) = "drop" /\ task[h].user \in User /\ task[h].item \in Item
      /\ task'[h] = None /\ Rest(h)
  BY <1>1, DoingFields, EndMoves DEF Becomes, Rest
<1>3. PICK a \in User, x \in Item : a = task[h].user /\ x = task[h].item
  BY <1>2
<1> DEFINE all == IF x \in Contact THEN {x, <<"alias", x[2]>>} ELSE {x}
<1>4. all \in SUBSET Item /\ x \in all /\ \A i \in all : i # x => x \in Contact /\ i \in Alias
  <2>1. x \in Contact => <<"alias", x[2]>> \in Alias /\ <<"alias", x[2]>> \in Item
    BY AliasItem DEF Alias
  <2> QED
    BY <2>1
<1> HIDE DEF all
<1>9. PICK both \in SUBSET Item : both = all
  BY <1>4
<1>5. kept[a][x] \in Nat
  BY <1>0, PersonalTyped
<1>6. CASE ~ Has(a, x)
  BY <1>2, <1>3, <1>4, <1>9, <1>5, <1>6 DEF Drop, Has, personalVars, DropsItem
<1>7. CASE Has(a, x)
  <2>1. kept' = [kept EXCEPT ![a] = [i \in Item |->
            IF i = x THEN @[i] - 1 ELSE IF i \in both THEN 0 ELSE @[i]]]
    BY <1>3, <1>9, <1>7 DEF Drop, all
  <2>2. answered' = [answered EXCEPT ![a] = [i \in Item |->
            IF i \notin both \/ (i = x /\ @[i] = "unclear" /\ i \in Contact)
            THEN @[i] ELSE Told(h, a, i, "out")]]
    BY <1>3, <1>9, <1>7 DEF Drop, all
  <2>3. \A u \in User, i \in Item :
            kept'[u][i] = IF u = a /\ i = x THEN kept[a][x] - 1
                          ELSE IF u = a /\ i \in both THEN 0 ELSE kept[u][i]
    BY <1>0, <2>1, PersonalTyped
  <2>4. \A u \in User, i \in Item :
            answered'[u][i] =
                IF u = a /\ i \in both /\ ~ (i = x /\ answered[a][x] = "unclear" /\ x \in Contact)
                THEN Told(h, a, i, "out") ELSE answered[u][i]
    BY <1>0, <2>2, PersonalTyped
  <2>5. kept[a][x] > 0
    BY <1>7 DEF Has
  <2>6. /\ Op(task[h]) = "drop" /\ task[h].user = a /\ task[h].item = x
        /\ x \in both /\ \A i \in both : i # x => x \in Contact /\ i \in Alias
        /\ task'[h] = None /\ Rest(h)
    BY <1>2, <1>3, <1>4, <1>9
  <2> QED
    BY <2>3, <2>4, <2>5, <2>6 DEF DropsItem
<1> QED
  BY <1>6, <1>7

LostOps == {"lost keep", "lost drop"}

LEMMA LostApart == \A op \in LostOps : op \notin {"keep", "drop", "listed", "register", "unregister",
                                                  "copied", "append", "idle", "forgotten", "unlisted"}
  BY DEF LostOps

KeepsNowhere(h, a, x, clear) ==
    /\ Op(task[h]) \in LostOps /\ task[h].user = a /\ task[h].item = x
    /\ \A u \in User, i \in Item :
        /\ kept'[u][i] = IF u = a /\ i \in clear THEN 0 ELSE kept[u][i]
        /\ answered'[u][i] = IF u = a /\ i = x THEN "unclear"
                             ELSE IF u = a /\ i \in clear THEN "out" ELSE answered[u][i]
    /\ task'[h] = None /\ Rest(h)

LEMMA KeepNowhereDoes ==
    ASSUME TypeOK, NEW h \in Handler, KeepNowhere(h), task[h].item \in Contact
    PROVE  \E a \in User, x \in Contact, clear \in SUBSET Alias : KeepsNowhere(h, a, x, clear)
<1>0. PersonalTypeOK
  BY DEF TypeOK
<1>1. PICK op \in LostOps : h \in Doing(op) /\ Ends(h)
  BY DEF KeepNowhere, LostOps
<1>2. Op(task[h]) = op /\ task[h].user \in User /\ task'[h] = None /\ Rest(h)
  BY <1>1, DoingFields, EndMoves DEF Becomes, Rest
<1>3. PICK a \in User, x \in Contact : a = task[h].user /\ x = task[h].item
  BY <1>2
<1> DEFINE all == IF task[h].op = "lost drop" THEN {<<"alias", x[2]>>} ELSE {}
<1>4. all \in SUBSET Alias
  <2>1. <<"alias", x[2]>> \in Alias
    BY AliasItem DEF Alias
  <2> QED
    BY <2>1
<1>5. kept' = [kept EXCEPT ![a] = [i \in Item |-> IF i \in all THEN 0 ELSE @[i]]]
  BY <1>3 DEF KeepNowhere
<1>6. answered' = [answered EXCEPT ![a] = [i \in Item |->
            IF i = x THEN "unclear" ELSE IF i \in all THEN "out" ELSE @[i]]]
  BY <1>3 DEF KeepNowhere
<1> HIDE DEF all
<1>7. PICK clear \in SUBSET Alias : clear = all
  BY <1>4
<1>8. \A u \in User, i \in Item :
        /\ kept'[u][i] = IF u = a /\ i \in clear THEN 0 ELSE kept[u][i]
        /\ answered'[u][i] = IF u = a /\ i = x THEN "unclear"
                             ELSE IF u = a /\ i \in clear THEN "out" ELSE answered[u][i]
  BY <1>0, <1>5, <1>6, <1>7, PersonalTyped
<1>9. Op(task[h]) \in LostOps /\ task[h].user = a /\ task[h].item = x /\ task'[h] = None /\ Rest(h)
  BY <1>2, <1>3
<1> QED
  BY <1>8, <1>9 DEF KeepsNowhere

ClearsMark(h, a, x) ==
    /\ Op(task[h]) = "sent" /\ task[h].user = a
    /\ \A u \in User, i \in Item :
        /\ kept'[u][i] = IF u = a /\ i = x THEN 0 ELSE kept[u][i]
        /\ answered'[u][i] = IF u = a /\ i = x THEN "out" ELSE answered[u][i]
    /\ task'[h] = None /\ Rest(h)

LEMMA ClearDraftDoes ==
    ASSUME TypeOK, NEW h \in Handler, ClearDraft(h)
    PROVE  \E a \in User, x \in Item \ (Tokens \cup Contact \cup Alias) : ClearsMark(h, a, x)
<1>0. PersonalTypeOK
  BY DEF TypeOK
<1>1. h \in Doing("sent") /\ Ends(h)
  BY DEF ClearDraft
<1>2. Op(task[h]) = "sent" /\ task[h].user \in User /\ task'[h] = None /\ Rest(h)
  BY <1>1, DoingFields, EndMoves DEF Becomes, Rest
<1>3. <<"draft", None>> \in Item \ (Tokens \cup Contact \cup Alias)
  <2>1. <<"draft", None>> \notin Contact \cup Alias
    BY DEF Contact, Alias
  <2> QED
    BY <2>1, NoTokenItems
<1>4. PICK a \in User, x \in Item \ (Tokens \cup Contact \cup Alias) :
        a = task[h].user /\ x = <<"draft", None>>
  BY <1>2, <1>3
<1>5. kept' = [kept EXCEPT ![a][x] = 0] /\ answered' = [answered EXCEPT ![a][x] = "out"]
  BY <1>4 DEF ClearDraft
<1>6. \A u \in User, i \in Item :
        /\ kept'[u][i] = IF u = a /\ i = x THEN 0 ELSE kept[u][i]
        /\ answered'[u][i] = IF u = a /\ i = x THEN "out" ELSE answered[u][i]
  BY <1>0, <1>5, PersonalTyped
<1> QED
  BY <1>2, <1>4, <1>6 DEF ClearsMark

AppendsToken(h, a, x) ==
    /\ Op(task[h]) = "append" /\ task[h].user = a /\ task[h].item = x
    /\ \A u \in User, i \in Item :
        /\ kept'[u][i] = IF u = a /\ i = x THEN kept[a][x] + 1 ELSE kept[u][i]
        /\ answered'[u][i] = IF u = a /\ i = x
                             THEN IF kept[a][x] > 0 THEN "unclear" ELSE Told(h, a, x, "in")
                             ELSE answered[u][i]
    /\ task'[h] = None /\ Rest(h)

LEMMA AppendDoes ==
    ASSUME TypeOK, NEW h \in Handler, AppendToken(h)
    PROVE  \E a \in User, x \in Tokens : AppendsToken(h, a, x)
<1>0. PersonalTypeOK
  BY DEF TypeOK
<1>1. h \in Doing("append") /\ Ends(h)
  BY DEF AppendToken
<1>2. /\ Op(task[h]) = "append" /\ task[h].user \in User /\ task[h].item \in Tokens
      /\ task'[h] = None /\ Rest(h)
  BY <1>1, DoingFields, EndMoves DEF Becomes, Rest
<1>3. PICK a \in User, x \in Tokens : a = task[h].user /\ x = task[h].item
  BY <1>2
<1>4. x \in Item
  BY ContactItems
<1>5. kept' = [kept EXCEPT ![a][x] = @ + 1]
  BY <1>3 DEF AppendToken
<1>6. PICK w : w = IF kept[a][x] > 0 THEN "unclear" ELSE Told(h, a, x, "in")
  OBVIOUS
<1>7. answered' = [answered EXCEPT ![a][x] = w]
  BY <1>3, <1>6 DEF AppendToken, Has
<1>8. \A u \in User, i \in Item :
        /\ kept'[u][i] = IF u = a /\ i = x THEN kept[a][x] + 1 ELSE kept[u][i]
        /\ answered'[u][i] = IF u = a /\ i = x THEN w ELSE answered[u][i]
  BY <1>0, <1>4, <1>5, <1>7, PersonalTyped
<1>9. Op(task[h]) = "append" /\ task[h].user = a /\ task[h].item = x /\ task'[h] = None /\ Rest(h)
  BY <1>2, <1>3
<1> QED
  BY <1>6, <1>8, <1>9 DEF AppendsToken

LEMMA ReplacedIs ==
    ASSUME NEW f \in [User -> [Tokens -> Nat]]
    PROVE  \A u \in User, i \in Item :
            Replaced(f)[u][i] = IF i \in Tokens THEN f[u][i] ELSE kept[u][i]
  BY DEF Replaced

GivesBack(h, a, x) ==
    /\ Op(task[h]) = "unregister" /\ task[h].user = a /\ task[h].item = x
    /\ \A u \in User, i \in Item :
        /\ kept'[u][i] = IF i \in Tokens THEN task[h].lists[u][i] ELSE kept[u][i]
        /\ answered'[u][i] = IF u = a /\ i = x THEN Told(h, a, x, "out") ELSE answered[u][i]
    /\ task'[h] = None /\ Rest(h)

LEMMA UnregisterDoes ==
    ASSUME TypeOK, NEW h \in Handler, Unregister(h)
    PROVE  \E a \in User, x \in Tokens : GivesBack(h, a, x)
<1>0. PersonalTypeOK
  BY DEF TypeOK
<1>1. h \in Doing("unregister") /\ Ends(h)
  BY DEF Unregister
<1>2. /\ Op(task[h]) = "unregister" /\ task[h].user \in User /\ task[h].item \in Tokens
      /\ task[h].lists \in [User -> [Tokens -> Nat]] /\ task'[h] = None /\ Rest(h)
  BY <1>1, DoingFields, EndMoves DEF Becomes, Rest
<1>3. PICK a \in User, x \in Tokens : a = task[h].user /\ x = task[h].item
  BY <1>2
<1>4. x \in Item
  BY ContactItems
<1>5. kept' = Replaced(task[h].lists)
  BY DEF Unregister
<1>6. PICK w : w = Told(h, a, x, "out")
  OBVIOUS
<1>7. answered' = [answered EXCEPT ![a][x] = w]
  BY <1>3, <1>6 DEF Unregister
<1>8. \A u \in User, i \in Item :
        /\ kept'[u][i] = IF i \in Tokens THEN task[h].lists[u][i] ELSE kept[u][i]
        /\ answered'[u][i] = IF u = a /\ i = x THEN w ELSE answered[u][i]
  BY <1>0, <1>2, <1>4, <1>5, <1>7, PersonalTyped, ReplacedIs
<1>9. Op(task[h]) = "unregister" /\ task[h].user = a /\ task[h].item = x
      /\ task'[h] = None /\ Rest(h)
  BY <1>2, <1>3
<1> QED
  BY <1>6, <1>8, <1>9 DEF GivesBack

\* A registration, or a deletion, replaces the lists of tokens.
ReplacesTokens(h, a) ==
    /\ Op(task[h]) = IF AssignTokens(h) THEN "register" ELSE "copied"
    /\ task[h].user = a
    /\ \A u \in User, i \in Item :
        /\ kept'[u][i] = IF i \in Tokens THEN task[h].lists[u][i] ELSE kept[u][i]
        /\ answered'[u][i] = IF u = a /\ i \in Tokens THEN Told(h, a, i, "out")
                             ELSE answered[u][i]
    /\ Op(task'[h]) = IF AssignTokens(h) THEN "append" ELSE "forgotten"
    /\ task'[h].user = a /\ Rest(h)
    /\ ReplaceTokens(h) /\ task'[h].clean =>
            task[h].clean /\ \A i \in Tokens : ~ WillReplace(h, a, i)

LEMMA TokensReplaced ==
    ASSUME TypeOK, NEW h \in Handler, AssignTokens(h) \/ ReplaceTokens(h)
    PROVE  \E a \in User : ReplacesTokens(h, a)
<1>0. PersonalTypeOK
  BY DEF TypeOK
<1>1. PICK op \in {"register", "copied"} :
        h \in Doing(op) /\ op = IF AssignTokens(h) THEN "register" ELSE "copied"
  BY DEF AssignTokens, ReplaceTokens
<1>2. /\ Op(task[h]) = op /\ task[h].user \in User /\ task[h].lists \in [User -> [Tokens -> Nat]]
      /\ op = "register" => task[h].item \in Tokens
      /\ op = "copied" => task[h].clean \in BOOLEAN
  BY <1>1, DoingFields
<1>3. PICK a \in User : a = task[h].user
  BY <1>2
<1>4. kept' = Replaced(task[h].lists) /\ answered' = [answered EXCEPT ![a] = [i \in Item |->
            IF i \in Tokens THEN Told(h, a, i, "out") ELSE @[i]]]
  BY <1>3 DEF AssignTokens, ReplaceTokens
<1>5. \A u \in User, i \in Item :
        /\ kept'[u][i] = IF i \in Tokens THEN task[h].lists[u][i] ELSE kept[u][i]
        /\ answered'[u][i] = IF u = a /\ i \in Tokens THEN Told(h, a, i, "out") ELSE answered[u][i]
  <2>1. \A u \in User, i \in Item :
            kept'[u][i] = IF i \in Tokens THEN task[h].lists[u][i] ELSE kept[u][i]
    BY <1>2, <1>4, ReplacedIs
  <2>2. \A u \in User, i \in Item :
            answered'[u][i] = IF u = a /\ i \in Tokens THEN Told(h, a, i, "out") ELSE answered[u][i]
    BY <1>0, <1>4, PersonalTyped
  <2> QED
    BY <2>1, <2>2
<1>6. /\ Op(task'[h]) = IF AssignTokens(h) THEN "append" ELSE "forgotten"
      /\ task'[h].user = a /\ Rest(h)
      /\ ReplaceTokens(h) /\ task'[h].clean =>
            task[h].clean /\ \A i \in Tokens : ~ WillReplace(h, a, i)
  <2>1. CASE AssignTokens(h)
    <3> DEFINE t == [op |-> "append", user |-> task[h].user, item |-> task[h].item]
    <3>1. task' = [task EXCEPT ![h] = t]
      BY <2>1 DEF AssignTokens, TypeOK
    <3>2. t \in AnyTask /\ Op(t) = "append" /\ t.user = a
      BY <1>1, <1>2, <1>3, <2>1, NoneIsNoRequest DEF AnyTask, PersonalTask, Op
    <3> HIDE DEF t
    <3>3. task'[h] = t /\ Rest(h)
      BY <3>1, <3>2, OneMoves DEF Becomes, Rest
    <3>4. ~ ReplaceTokens(h)
      BY <1>1, <2>1 DEF ReplaceTokens, Doing
    <3> QED
      BY <2>1, <3>2, <3>3, <3>4
  <2>2. CASE ~ AssignTokens(h)
    <3> DEFINE alone == task[h].clean /\ \A i \in Tokens : ~ WillReplace(h, a, i)
               t == [op |-> "forgotten", user |-> task[h].user, clean |-> alone]
    <3>1. task' = [task EXCEPT ![h] = t]
      BY <1>3, <2>2 DEF ReplaceTokens, Proceeds
    <3>2. t.user = a /\ t.clean = alone
      BY <1>3
    <3>3. t \in AnyTask /\ Op(t) = "forgotten"
      BY <1>1, <1>2, <2>2, NoneIsNoRequest DEF AnyTask, PersonalTask, Op
    <3> HIDE DEF t
    <3>4. task'[h] = t /\ Rest(h)
      BY <3>1, <3>3, OneMoves DEF Becomes, Rest
    <3> QED
      BY <2>2, <3>2, <3>3, <3>4
  <2> QED
    BY <2>1, <2>2
<1>7. Op(task[h]) = (IF AssignTokens(h) THEN "register" ELSE "copied") /\ task[h].user = a
  BY <1>1, <1>2, <1>3
<1> QED
  BY <1>5, <1>6, <1>7 DEF ReplacesTokens

SignedOut == "signed out"

LEMMA CopyTokensDoes ==
    ASSUME TypeOK, NEW h \in Handler, CopyTokens(h)
    PROVE  /\ Op(task[h]) = SignedOut /\ task[h].user \in User
           /\ Op(task'[h]) = "copied" /\ task'[h].user = task[h].user
           /\ task'[h].clean = task[h].clean
           /\ \A u \in User, i \in Tokens :
                task'[h].lists[u][i] = IF u = task[h].user THEN 0 ELSE kept[u][i]
           /\ UNCHANGED personalVars /\ Rest(h)
<1>0. PersonalTypeOK
  BY DEF TypeOK
<1>1. Op(task[h]) = SignedOut /\ task[h].user \in User /\ task[h].clean \in BOOLEAN
  BY DoingFields DEF CopyTokens, DeleteOps, SignedOut
<1> DEFINE f == [TokenLists EXCEPT ![task[h].user] = [i \in Tokens |-> 0]]
           t == [op |-> "copied", user |-> task[h].user, clean |-> task[h].clean, lists |-> f]
<1>2. f \in [User -> [Tokens -> Nat]]
      /\ \A u \in User, i \in Tokens : f[u][i] = IF u = task[h].user THEN 0 ELSE kept[u][i]
  BY <1>0, ContactItems DEF TokenLists, PersonalTypeOK
<1>3. t \in AnyTask /\ Op(t) = "copied" /\ t.user = task[h].user /\ t.clean = task[h].clean
      /\ t.lists = f
  BY <1>1, <1>2, NoneIsNoRequest DEF AnyTask, PersonalTask, Op
<1>4. task' = [task EXCEPT ![h] = t]
  BY <1>1 DEF CopyTokens, TypeOK
<1>5. task'[h] = t /\ Rest(h)
  <2> HIDE DEF t
  <2> QED
    BY <1>3, <1>4, OneMoves DEF Becomes, Rest
<1>6. UNCHANGED personalVars
  BY DEF CopyTokens
<1> HIDE DEF t, f
<1> QED
  BY <1>1, <1>2, <1>3, <1>5, <1>6

\* What a request on a list becomes whose list is nobody's any more.
LosesList(g) ==
    /\ Op(task[g]) \in {"keep", "drop"} /\ task[g].item \in Contact
    /\ Op(task'[g]) \in LostOps /\ task'[g].item = task[g].item /\ task'[g].user = task[g].user

LEMMA LostDoes ==
    ASSUME TypeOK, NEW owners, NEW g \in Handler, task'[g] = Lost(owners, g)
    PROVE  task'[g] = task[g] \/ LosesList(g)
<1>1. CASE Lost(owners, g) # task[g]
  <2>1. PICK op \in {"keep", "drop"} : g \in Doing(op)
    BY <1>1 DEF Lost
  <2>2. task[g] \in AnyTask /\ task[g].op = op
    BY <2>1, DoingFields
  <2>3. task[g] \in [op : {"keep", "drop"}, user : User, item : Item]
    BY <2>1, <2>2 DEF AnyTask, Task, UploadTask, PollTask, PersonalTask
  <2>4. task'[g].item = task[g].item /\ task'[g].user = task[g].user
    <3>1. PICK new : Lost(owners, g) = [task[g] EXCEPT !.op = new]
      BY <1>1, LostTyped
    <3> QED
      BY <2>3, <3>1
  <2>5. Op(task[g]) \in {"keep", "drop"} /\ Op(task'[g]) \in LostOps
    <3>1. Op(task[g]) \in {"keep", "drop"} /\ Op(Lost(owners, g)) \in LostOps
      BY <1>1, LostTyped DEF LostOps
    <3> QED
      BY <3>1
  <2>6. task[g].item \in Contact
    BY <1>1 DEF Lost
  <2> QED
    BY <2>4, <2>5, <2>6 DEF LosesList
<1> QED
  BY <1>1

Entry(u) == <<"contact", u>>

LEMMA EntryIs == \A u \in User : Entry(u) \in Contact /\ Entry(u)[2] = u
                                 /\ \A i \in Contact : i[2] = u => i = Entry(u)
  BY DEF Entry, Contact

CopiesContacts(h, a) ==
    /\ Op(task[h]) = "forgotten" /\ task[h].user = a
    /\ \A u \in User, i \in Item :
        /\ kept'[u][i] = IF u = a /\ i \in Contact THEN 0 ELSE kept[u][i]
        /\ answered'[u][i] = IF u = a /\ i \in Contact
                             THEN Told(h, u, i, "out") ELSE answered[u][i]
    /\ Op(task'[h]) = "listed" /\ task'[h].user = a
    /\ task'[h].clean => /\ task[h].clean /\ AtContactsAlone(h, Entry(a))
                         /\ \A k \in Doing("keep") : task[k].item # Entry(a)
    /\ task'[h].owners = {u \in User \ {a} : kept[u][Entry(a)] > 0}
    /\ \A u \in User, i \in Contact :
        task'[h].lists[u][i] = IF a \in {u, i[2]} THEN 0 ELSE kept[u][i]
    /\ \A g \in Handler \ {h} : task'[g] = Lost({a}, g)

LEMMA CopyContactsDoes ==
    ASSUME TypeOK, NEW h \in Handler, CopyContacts(h)
    PROVE  \E a \in User : CopiesContacts(h, a)
<1>0. PersonalTypeOK
  BY DEF TypeOK
<1>1. /\ Op(task[h]) = "forgotten" /\ task[h].user \in User /\ task[h].clean \in BOOLEAN
  BY DoingFields DEF CopyContacts
<1>2. PICK a \in User : a = task[h].user
  BY <1>1
<1> DEFINE clean == /\ task[h].clean /\ AtContactsAlone(h, Entry(a))
                    /\ \A k \in Doing("keep") : task[k].item # Entry(a)
           owners == {u \in User \ {a} : Has(u, Entry(a))}
           lists == [u \in User |-> [i \in Contact |->
                        IF a \in {u, i[2]} THEN 0 ELSE kept[u][i]]]
           t == [op |-> "listed", user |-> a, clean |-> clean, owners |-> owners, lists |-> lists]
<1>3. task' = [g \in Handler |-> IF g = h THEN t ELSE Lost({a}, g)]
  BY <1>2 DEF CopyContacts, Entry
<1>4. clean \in BOOLEAN /\ owners \in SUBSET User /\ lists \in [User -> [Contact -> Nat]]
  BY <1>0, ContactItems DEF PersonalTypeOK
<1>5. owners = {u \in User \ {a} : kept[u][Entry(a)] > 0}
      /\ \A u \in User, i \in Contact : lists[u][i] = IF a \in {u, i[2]} THEN 0 ELSE kept[u][i]
  BY DEF Has
<1>6. kept' = [kept EXCEPT ![a] = [i \in Item |-> IF i \in Contact THEN 0 ELSE @[i]]]
      /\ answered' = [answered EXCEPT ![a] = [i \in Item |->
            IF i \in Contact THEN Told(h, a, i, "out") ELSE @[i]]]
  BY <1>2 DEF CopyContacts
<1>7. \A u \in User, i \in Item : kept'[u][i] = IF u = a /\ i \in Contact THEN 0 ELSE kept[u][i]
  BY <1>0, <1>6, PersonalTyped
<1>8. \A u \in User, i \in Item :
        answered'[u][i] = IF u = a /\ i \in Contact THEN Told(h, u, i, "out") ELSE answered[u][i]
  BY <1>0, <1>6, PersonalTyped
<1>9. clean => /\ task[h].clean /\ AtContactsAlone(h, Entry(a))
               /\ \A k \in Doing("keep") : task[k].item # Entry(a)
  OBVIOUS
<1> HIDE DEF clean, owners, lists
<1>10. Op(t) = "listed" /\ t.user = a /\ t.clean = clean /\ t.owners = owners /\ t.lists = lists
  <2>1. t \in AnyTask
    BY <1>4 DEF AnyTask, PersonalTask
  <2> QED
    BY <2>1, NoneIsNoRequest DEF Op
<1> HIDE DEF t
<1>11. task'[h] = t /\ \A g \in Handler \ {h} : task'[g] = Lost({a}, g)
  BY <1>3
<1>12. \A u \in User, i \in Item :
        /\ kept'[u][i] = IF u = a /\ i \in Contact THEN 0 ELSE kept[u][i]
        /\ answered'[u][i] = IF u = a /\ i \in Contact THEN Told(h, u, i, "out") ELSE answered[u][i]
  BY <1>7, <1>8
<1>13. /\ Op(task'[h]) = "listed" /\ task'[h].user = a
       /\ task'[h].clean => /\ task[h].clean /\ AtContactsAlone(h, Entry(a))
                            /\ \A k \in Doing("keep") : task[k].item # Entry(a)
       /\ task'[h].owners = {u \in User \ {a} : kept[u][Entry(a)] > 0}
       /\ \A u \in User, i \in Contact :
            task'[h].lists[u][i] = IF a \in {u, i[2]} THEN 0 ELSE kept[u][i]
  BY <1>5, <1>9, <1>10, <1>11
<1>14. Op(task[h]) = "forgotten" /\ task[h].user = a
  BY <1>1, <1>2
<1> QED
  BY <1>11, <1>12, <1>13, <1>14 DEF CopiesContacts

LEMMA ReplaceContactsDoes ==
    ASSUME TypeOK, NEW h \in Handler, ReplaceContacts(h)
    PROVE  /\ Op(task[h]) = "listed" /\ task[h].user \in User /\ task[h].owners \subseteq User
           /\ \A u \in User, i \in Item :
                /\ kept'[u][i] = IF u \in task[h].owners /\ i \in Contact
                                 THEN task[h].lists[u][i] ELSE kept[u][i]
                /\ answered'[u][i] = IF u \in task[h].owners /\ i = Entry(task[h].user)
                                     THEN Told(h, u, i, "out") ELSE answered[u][i]
           /\ Op(task'[h]) = "unlisted" /\ task'[h].user = task[h].user
           /\ task'[h].clean => task[h].clean /\ AtContactsAlone(h, Entry(task[h].user))
           /\ \A g \in Handler \ {h} : task'[g] = Lost(task[h].owners, g)
<1>0. PersonalTypeOK
  BY DEF TypeOK
<1>1. /\ Op(task[h]) = "listed" /\ task[h].user \in User /\ task[h].owners \subseteq User
      /\ task[h].clean \in BOOLEAN
  BY DoingFields DEF ReplaceContacts
<1>2. PICK a \in User : a = task[h].user
  BY <1>1
<1>3. Entry(a) \in Item
  BY EntryIs, ContactItems
<1> DEFINE clean == task[h].clean /\ AtContactsAlone(h, Entry(a))
           t == [op |-> "unlisted", user |-> a, clean |-> clean]
<1>4. task' = [g \in Handler |-> IF g = h THEN t ELSE Lost(task[h].owners, g)]
  BY <1>2 DEF ReplaceContacts, Entry
<1>5. kept' = [u \in User |-> IF u \notin task[h].owners THEN kept[u] ELSE
            [i \in Item |-> IF i \in Contact THEN task[h].lists[u][i] ELSE kept[u][i]]]
      /\ answered' = [u \in User |-> IF u \notin task[h].owners THEN answered[u]
            ELSE [answered[u] EXCEPT ![Entry(a)] = Told(h, u, Entry(a), "out")]]
  BY <1>2 DEF ReplaceContacts, Entry
<1>6. \A u \in User, i \in Item : kept'[u][i] = IF u \in task[h].owners /\ i \in Contact
                                                THEN task[h].lists[u][i] ELSE kept[u][i]
  BY <1>0, <1>5, PersonalTyped
<1>7. \A u \in User, i \in Item : answered'[u][i] = IF u \in task[h].owners /\ i = Entry(a)
                                                    THEN Told(h, u, i, "out") ELSE answered[u][i]
  BY <1>0, <1>3, <1>5, PersonalTyped
<1>8. clean \in BOOLEAN /\ (clean => task[h].clean /\ AtContactsAlone(h, Entry(a)))
  OBVIOUS
<1> HIDE DEF clean
<1>9. Op(t) = "unlisted" /\ t.user = a /\ t.clean = clean
  <2>1. t \in AnyTask
    BY <1>8 DEF AnyTask, Task
  <2> QED
    BY <2>1, NoneIsNoRequest DEF Op
<1> HIDE DEF t
<1>10. task'[h] = t /\ \A g \in Handler \ {h} : task'[g] = Lost(task[h].owners, g)
  BY <1>4
<1> QED
  BY <1>1, <1>2, <1>6, <1>7, <1>8, <1>9, <1>10

LEMMA DeletionFailsDoes ==
    ASSUME TypeOK, NEW h \in Handler, DeletionFails(h)
    PROVE  /\ Op(task[h]) = "listed" /\ task[h].user \in User
           /\ \A u \in User, i \in Item :
                /\ kept'[u][i] = kept[u][i]
                /\ answered'[u][i] = IF u = task[h].user /\ i \in Contact
                                     THEN "unclear" ELSE answered[u][i]
           /\ task'[h] = None /\ Rest(h)
<1>0. PersonalTypeOK
  BY DEF TypeOK
<1>1. h \in Doing("listed") /\ Ends(h)
  BY DEF DeletionFails
<1>2. Op(task[h]) = "listed" /\ task[h].user \in User /\ task'[h] = None /\ Rest(h)
  BY <1>1, DoingFields, EndMoves DEF Becomes, Rest
<1>3. \A u \in User, i \in Item : answered'[u][i] = IF u = task[h].user /\ i \in Contact
                                                    THEN "unclear" ELSE answered[u][i]
  BY <1>0, <1>2, PersonalTyped DEF DeletionFails
<1> QED
  BY <1>2, <1>3 DEF DeletionFails

LEMMA KeepRequestDoes ==
    ASSUME TypeOK, NEW h \in Handler, NEW a \in User, NEW item \in Item, KeepRequest(h, a, item)
    PROVE  /\ MayKeep(a, item) /\ UNCHANGED personalVars /\ task[h] = None
           /\ Op(task'[h]) = "keep" /\ task'[h].user = a /\ task'[h].item = item
           /\ \A g \in Handler \ {h} : task'[g] = task[g] \/ Spoilt(g)
           /\ item \in Contact => \A g \in Handler :
                Op(task[g]) \in Forgetting /\ task[g].user = item[2] => Spoilt(g)
<1> DEFINE t == [op |-> "keep", user |-> a, item |-> item]
<1>1. Op(t) = "keep" /\ t.user = a /\ t.item = item
  <2>1. t \in AnyTask
    BY DEF AnyTask, PersonalTask
  <2> QED
    BY <2>1, NoneIsNoRequest DEF Op
<1>2. task' = [other \in Handler |->
            IF other = h THEN t
            ELSE IF item \in Contact /\ other \in Entered(item[2])
                 THEN [task[other] EXCEPT !.clean = FALSE] ELSE task[other]]
  BY DEF KeepRequest
<1> HIDE DEF t
<1>3. \A g \in Handler : g \in Entered(item[2]) =>
            g \in Busy /\ Op(task[g]) \in Forgetting /\ task[g].user = item[2]
  BY DEF Entered, Op, Busy
<1>4. \A g \in Handler \ {h} : task'[g] = task[g] \/ Spoilt(g)
  BY <1>2, <1>3 DEF Spoilt
<1>5. ASSUME item \in Contact, NEW g \in Handler, Op(task[g]) \in Forgetting, task[g].user = item[2]
      PROVE  Spoilt(g)
  <2>1. task[g] # None /\ Op(task[g]) = task[g].op
    BY <1>5 DEF Op, Forgetting
  <2>2. g # h /\ g \in Entered(item[2])
    BY <1>5, <2>1 DEF Entered, Busy, KeepRequest
  <2> QED
    BY <1>2, <1>3, <1>5, <2>2 DEF Spoilt
<1>6. MayKeep(a, item) /\ UNCHANGED personalVars /\ task[h] = None
  BY DEF KeepRequest
<1> QED
  BY <1>1, <1>2, <1>4, <1>5, <1>6

LEMMA DropRequestDoes ==
    ASSUME TypeOK, NEW h \in Handler, NEW a \in User, NEW item \in Item, DropRequest(h, a, item)
    PROVE  /\ UNCHANGED personalVars /\ task[h] = None /\ Rest(h)
           /\ Op(task'[h]) = "drop" /\ task'[h].user = a /\ task'[h].item = item
<1> DEFINE t == [op |-> "drop", user |-> a, item |-> item]
<1>1. t \in AnyTask /\ t.op = "drop" /\ t.user = a /\ t.item = item
  BY DEF AnyTask, PersonalTask
<1>2. Starts(h, t) /\ UNCHANGED personalVars
  BY DEF DropRequest
<1> HIDE DEF t
<1>3. Becomes(h, "idle", "drop") /\ task'[h] = t
  BY <1>1, <1>2, StartMoves
<1> QED
  BY <1>1, <1>2, <1>3 DEF Becomes, Rest, Starts

LEMMA TokenRequestDoes ==
    ASSUME TypeOK, NEW h \in Handler, NEW a \in User, NEW op \in {"register", "unregister"},
           NEW item \in Tokens, TokenRequest(h, op, a, item)
    PROVE  /\ UNCHANGED personalVars /\ task[h] = None /\ Rest(h)
           /\ Op(task'[h]) = op /\ task'[h].user = a /\ task'[h].item = item
           /\ \A u \in User, i \in Tokens : task'[h].lists[u][i] =
                IF u = a /\ (op # "unregister" \/ item = i) THEN 0 ELSE kept[u][i]
<1>0. PersonalTypeOK
  BY DEF TypeOK
<1> DEFINE f == [TokenLists EXCEPT ![a] = [i \in Tokens |->
                        IF op = "register" \/ i = item THEN 0 ELSE @[i]]]
           t == [op |-> op, user |-> a, item |-> item, lists |-> f]
<1>1. /\ f \in [User -> [Tokens -> Nat]]
      /\ \A u \in User, i \in Tokens :
            f[u][i] = IF u = a /\ (op # "unregister" \/ item = i) THEN 0 ELSE kept[u][i]
  <2>1. TokenLists \in [User -> [Tokens -> Nat]]
        /\ \A u \in User, i \in Tokens : TokenLists[u][i] = kept[u][i]
    BY <1>0, ContactItems DEF TokenLists, PersonalTypeOK
  <2> QED
    BY <2>1
<1>2. Starts(h, t) /\ UNCHANGED personalVars
  BY DEF TokenRequest
<1> HIDE DEF f
<1>3. t \in AnyTask /\ t.op = op /\ t.user = a /\ t.item = item /\ t.lists = f
  BY <1>1 DEF AnyTask, PersonalTask
<1> HIDE DEF t
<1>4. Becomes(h, "idle", op) /\ task'[h] = t
  BY <1>2, <1>3, StartMoves
<1> QED
  BY <1>1, <1>2, <1>3, <1>4 DEF Becomes, Rest, Starts

--------------------------------------------------------------------------------
(* What is kept is as answered *)

\* The items that are kept in a list which is computed in one step and replaced in another.
Listed == Tokens \cup Contact

Holders == {"register", "unregister", "copied"}

\* g holds a copy of the user's list in which this item is, or is not ...
Copied(g, u, i) ==
    \/ i \in Tokens /\ Op(task[g]) \in Holders
    \/ i \in Contact /\ Op(task[g]) = "listed" /\ u \in task[g].owners

\* ... and it is not because g takes it out.
TakesOut(g, u, i) ==
    IF Op(task[g]) = "listed" THEN i = Entry(task[g].user)
    ELSE u = task[g].user /\ (Op(task[g]) # "unregister" \/ task[g].item = i)

ListsKept(g) ==
    /\ Op(task[g]) \in {"keep", "drop"} => task[g].item \notin Tokens
    /\ Op(task[g]) \in LostOps => task[g].item \in Contact
    /\ \A u \in User, i \in Listed : Copied(g, u, i) =>
        IF TakesOut(g, u, i) THEN task[g].lists[u][i] = 0
        ELSE Counted(task[g].lists[u][i], answered[u][i])

NowKept == \A u \in User, i \in Item :
    Counted(kept[u][i], answered[u][i]) /\ (i \notin Listed => kept[u][i] <= 1)

\* A deletion has taken it out and not saved yet.
Forgets(g, u, i) ==
    \/ Op(task[g]) \in Forgetting /\ task[g].user = u
    \/ Op(task[g]) \in Forgetting \ {"listed"} /\ task[g].user = i[2]

FileKept == \A u \in User, i \in Saved :
    /\ i \in Alias => newest.kept[u][i] <= 1
    /\ \/ Counted(newest.kept[u][i], answered[u][i])
       \/ i \in Contact /\ \E g \in Handler : Forgets(g, u, i)

\* The tables, the copies of them that handlers hold and the file agree with the answers:
\* whoever holds a copy that does not will make the answer unclear.
KeptInv == NowKept /\ (\A g \in Handler : ListsKept(g)) /\ FileKept

LEMMA ListedItems == /\ Listed \subseteq Item /\ Saved \subseteq Item
                     /\ Alias \cap Listed = {} /\ Contact \cap Tokens = {}
                     /\ <<"draft", None>> \notin Listed /\ <<"draft", None>> \notin Saved
                     /\ Saved \cap Tokens = {}
<1>1. /\ \A i \in Contact : i[1] = "contact"
      /\ \A i \in Alias : i[1] = "alias"
      /\ \A i \in Tokens : i[1] = "token"
  BY DEF Contact, Alias, Tokens
<1>2. <<"draft", None>>[1] = "draft"
  OBVIOUS
<1> QED
  BY <1>1, <1>2, ContactItems DEF Listed, Saved

LEMMA OtherOps == \A op : op \notin PersonalOps =>
    op \notin {"keep", "drop", "listed"} /\ op \notin Holders /\ op \notin LostOps
  BY DEF PersonalOps, Holders, LostOps

LEMMA CopiedToldUnclear ==
    ASSUME NEW h \in Handler, NEW g \in Handler \ {h}, NEW u \in User, NEW i \in Listed,
           Copied(g, u, i)
    PROVE  WillReplace(h, u, i)
<1>1. task[g] # None /\ task[g].op = Op(task[g])
  BY DEF Copied, Holders, Op
<1> QED
  BY <1>1 DEF Copied, Holders, WillReplace, Busy

LEMMA ToldCounts ==
    \A h, u, i, n, what : /\ Told(h, u, i, what) \in {what, "unclear"}
                          /\ WillReplace(h, u, i) => Told(h, u, i, what) = "unclear"
                          /\ Counted(n, what) => Counted(n, Told(h, u, i, what))
                          /\ Counted(n, "unclear")
  BY DEF Told, Counted

\* Another handler's step leaves it alone, or takes its list away.
Quiet(g) ==
    task'[g] = task[g] \/ Spoilt(g) \/ LosesList(g) \/ Op(task'[g]) \notin PersonalOps

LEMMA ListsStay ==
    ASSUME TypeOK, NEW g \in Handler, ListsKept(g), Quiet(g),
           \A u \in User, i \in Listed : Copied(g, u, i) =>
                answered'[u][i] \in {answered[u][i], "unclear"}
    PROVE  ListsKept(g)'
<1>1. CASE task'[g] = task[g]
  BY <1>1 DEF ListsKept, Copied, TakesOut, Counted
<1>2. CASE Spoilt(g)
  <2>1. /\ Op(task'[g]) = Op(task[g]) /\ Op(task[g]) \in Forgetting
        /\ task'[g].user = task[g].user
        /\ Op(task[g]) = "listed" => /\ task'[g].lists = task[g].lists
                                     /\ task'[g].owners = task[g].owners
    BY <1>2, SpoiltFields DEF Spoilt
  <2>2. Op(task[g]) \notin {"keep", "drop"} /\ Op(task[g]) \notin LostOps
        /\ Op(task[g]) \notin Holders
    BY <2>1, LostApart DEF Forgetting, Holders, LostOps
  <2>3. \A u, i : Copied(g, u, i)' => Copied(g, u, i) /\ Op(task[g]) = "listed"
    BY <2>1, <2>2 DEF Copied
  <2> QED
    BY <2>1, <2>2, <2>3 DEF ListsKept, TakesOut, Counted
<1>3. CASE LosesList(g)
  <2>1. Op(task'[g]) \in LostOps /\ task'[g].item \in Contact
    BY <1>3 DEF LosesList
  <2>2. Op(task'[g]) \notin {"keep", "drop", "listed"} /\ Op(task'[g]) \notin Holders
    BY <2>1, LostApart DEF Holders
  <2> QED
    BY <2>1, <2>2 DEF ListsKept, Copied
<1>4. CASE Op(task'[g]) \notin PersonalOps
  <2>1. Op(task'[g]) \notin {"keep", "drop", "listed"} /\ Op(task'[g]) \notin Holders
        /\ Op(task'[g]) \notin LostOps
    BY <1>4, OtherOps
  <2> QED
    BY <2>1 DEF ListsKept, Copied
<1> QED
  BY <1>1, <1>2, <1>3, <1>4 DEF Quiet

LEMMA SavedAsNow ==
    ASSUME NowKept', newest' = Snapshot' PROVE FileKept'
<1>1. ASSUME NEW u \in User, NEW i \in Saved PROVE newest'.kept[u][i] = kept'[u][i]
  BY DEF Snapshot
<1> QED
  BY <1>1, ListedItems DEF NowKept, FileKept

LEMMA FileStays ==
    ASSUME FileKept, newest' = newest,
           \A u \in User, i \in Saved : answered'[u][i] \notin {answered[u][i], "unclear"} =>
                i \in Contact /\ \E g \in Handler : Forgets(g, u, i)',
           \A u \in User, i \in Contact, g \in Handler : Forgets(g, u, i) =>
                Forgets(g, u, i)' \/ answered'[u][i] = "unclear"
    PROVE  FileKept'
<1>1. ASSUME NEW u \in User, NEW i \in Saved
      PROVE  /\ i \in Alias => newest'.kept[u][i] <= 1
             /\ \/ Counted(newest'.kept[u][i], answered'[u][i])
                \/ i \in Contact /\ \E g \in Handler : Forgets(g, u, i)'
  BY DEF FileKept, Counted
<1> QED
  BY <1>1 DEF FileKept

\* A step of h that changes the answers only where nobody else holds a copy.
LEMMA KeptChanges ==
    ASSUME TypeOK, KeptInv, NEW h \in Handler, NowKept',
           \A u \in User, i \in Listed :
                answered'[u][i] \in {answered[u][i], "unclear"} \/ ~ WillReplace(h, u, i),
           \A g \in Handler \ {h} : Quiet(g),
           ListsKept(h)', newest' = Snapshot' \/ FileKept'
    PROVE  KeptInv'
<1>1. ASSUME NEW g \in Handler \ {h} PROVE ListsKept(g)'
  <2>1. ASSUME NEW u \in User, NEW i \in Listed, Copied(g, u, i)
        PROVE  answered'[u][i] \in {answered[u][i], "unclear"}
    BY <2>1, CopiedToldUnclear
  <2> QED
    BY <2>1, ListsStay DEF KeptInv
<1> QED
  BY <1>1, SavedAsNow DEF KeptInv

LEMMA KeptUndisturbed ==
    ASSUME TypeOK, KeptInv, UNCHANGED personalVars, \A g \in Handler : Quiet(g),
           \/ newest' = Snapshot'
           \/ /\ newest' = newest
              /\ \A u \in User, i \in Contact, g \in Handler :
                    Forgets(g, u, i) => Forgets(g, u, i)'
    PROVE  KeptInv'
<1>1. kept' = kept /\ answered' = answered
  BY DEF personalVars
<1>2. NowKept'
  BY <1>1 DEF NowKept, KeptInv
<1>3. \A g \in Handler : ListsKept(g)'
  BY <1>1, ListsStay DEF KeptInv
<1>4. FileKept'
  BY <1>1, <1>2, SavedAsNow, FileStays DEF KeptInv
<1> QED
  BY <1>2, <1>3, <1>4 DEF KeptInv

LEMMA EndedLists == \A g \in Handler : task'[g] = None => ListsKept(g)'
<1>1. ASSUME NEW g \in Handler, task'[g] = None PROVE ListsKept(g)'
  <2>1. Op(task'[g]) = "idle"
    BY <1>1 DEF Op
  <2>2. Op(task'[g]) \notin {"keep", "drop", "listed"} /\ Op(task'[g]) \notin Holders
        /\ Op(task'[g]) \notin LostOps
    BY <2>1, LostApart DEF Holders
  <2> QED
    BY <2>2 DEF ListsKept, Copied
<1> QED
  BY <1>1

LEMMA RestIsQuiet == \A h : Rest(h) => \A g \in Handler \ {h} : Quiet(g)
  BY DEF Rest, Quiet

LEMMA SavesKeptAsAnswered ==
    ASSUME TypeOK, KeptInv, NEW h \in Handler, PersonalSaves(h), newest' = Snapshot' PROVE KeptInv'
<1>0. NowKept /\ ListsKept(h) /\ kept \in [User -> [Item -> Nat]]
  BY PersonalTyped DEF KeptInv, TypeOK
<1>1. CASE Keep(h)
  <2> USE DEF KeepsItem
  <2>1. PICK a \in User, x \in Item \ Tokens, n \in Nat : KeepsItem(h, a, x, n)
    BY <1>1, KeepDoes
  <2>2. NowKept'
    <3>1. Counted(n, IF n > 1 THEN "unclear" ELSE Told(h, a, x, "in")) /\ (x \notin Contact => n = 1)
      <4>1. kept[a][x] \in Nat
        BY <1>0
      <4>2. n >= 1
        BY <2>1, <4>1
      <4> QED
        BY <2>1, <4>2, ToldCounts DEF Counted
    <3> QED
      BY <1>0, <2>1, <3>1 DEF NowKept, Listed
  <2>3. \A u \in User, i \in Listed :
            answered'[u][i] \in {answered[u][i], "unclear"} \/ ~ WillReplace(h, u, i)
    BY <2>1, ToldCounts, ListedItems
  <2> QED
    BY <2>1, <2>2, <2>3, EndedLists, RestIsQuiet, KeptChanges
<1>2. CASE Drop(h)
  <2> USE DEF DropsItem
  <2>1. PICK a \in User, x \in Item, both \in SUBSET Item : DropsItem(h, a, x, both)
    BY <1>2, DropDoes
  <2>2. CASE UNCHANGED <<kept, answered>>
    <3>1. NowKept'
      BY <1>0, <2>2 DEF NowKept
    <3> QED
      BY <2>1, <2>2, <3>1, EndedLists, RestIsQuiet, KeptChanges, ListedItems
  <2>3. CASE ~ UNCHANGED <<kept, answered>>
    <3>1. kept[a][x] \in Nat /\ kept[a][x] > 0
      BY <1>0, <2>1, <2>3
    <3>2. x \notin Tokens
      BY <1>0, <2>1 DEF ListsKept
    <3>3. Counted(kept[a][x], answered[a][x]) /\ (x \notin Contact => kept[a][x] <= 1)
      BY <1>0, <3>2 DEF NowKept, Listed
    <3>4. IF answered[a][x] = "unclear" /\ x \in Contact THEN TRUE ELSE kept[a][x] - 1 = 0
      <4>1. answered[a][x] \in What
        BY PersonalTyped, <2>1 DEF TypeOK
      <4> QED
        BY <3>1, <3>3, <4>1 DEF Counted, What
    <3>5. \A u \in User, i \in Item : Counted(kept'[u][i], answered'[u][i])
      <4>1. Counted(kept'[a][x], answered'[a][x])
        <5>1. CASE answered[a][x] = "unclear" /\ x \in Contact
          <6>1. answered'[a][x] = "unclear"
            BY <2>1, <2>3, <5>1
          <6> QED
            BY <6>1 DEF Counted
        <5>2. CASE ~ (answered[a][x] = "unclear" /\ x \in Contact)
          <6>1. kept'[a][x] = 0 /\ answered'[a][x] = Told(h, a, x, "out")
            BY <2>1, <2>3, <3>4, <5>2
          <6> QED
            BY <6>1, ToldCounts DEF Counted
        <5> QED
          BY <5>1, <5>2
      <4>2. ASSUME NEW u \in User, NEW i \in Item, u # a \/ i # x
            PROVE  Counted(kept'[u][i], answered'[u][i])
        <5>1. CASE u = a /\ i \in both
          <6>1. kept'[u][i] = 0 /\ answered'[u][i] = Told(h, a, i, "out")
            BY <2>1, <2>3, <4>2, <5>1
          <6> QED
            BY <6>1, ToldCounts DEF Counted
        <5>2. CASE ~ (u = a /\ i \in both)
          <6>1. kept'[u][i] = kept[u][i] /\ answered'[u][i] = answered[u][i]
            BY <2>1, <2>3, <4>2, <5>2
          <6> QED
            BY <1>0, <6>1 DEF NowKept
        <5> QED
          BY <5>1, <5>2
      <4> QED
        BY <4>1, <4>2
    <3>6. \A u \in User, i \in Item : i \notin Listed => kept'[u][i] <= 1
      <4>1. ASSUME NEW u \in User, NEW i \in Item, i \notin Listed
            PROVE  kept'[u][i] \in {0, kept[u][i], kept[a][x] - 1} /\ kept[u][i] <= 1
                   /\ kept[u][i] \in Nat /\ (kept'[u][i] = kept[a][x] - 1 => kept'[u][i] <= 1)
        <5>1. kept[u][i] <= 1 /\ kept[u][i] \in Nat
          BY <1>0, <4>1 DEF NowKept
        <5>2. kept'[u][i] = IF u = a /\ i = x THEN kept[a][x] - 1
                            ELSE IF u = a /\ i \in both THEN 0 ELSE kept[u][i]
          BY <2>1, <2>3
        <5> QED
          BY <3>1, <5>1, <5>2
      <4> QED
        BY <4>1
    <3>7. NowKept'
      BY <3>5, <3>6 DEF NowKept
    <3>8. \A u \in User, i \in Listed :
            answered'[u][i] \in {answered[u][i], "unclear"} \/ ~ WillReplace(h, u, i)
      <4>1. ASSUME NEW u \in User, NEW i \in Item
            PROVE  answered'[u][i] \in {answered[u][i], Told(h, u, i, "out")}
        BY <2>1, <2>3
      <4> QED
        BY <4>1, ToldCounts, ListedItems
    <3> QED
      BY <2>1, <3>7, <3>8, EndedLists, RestIsQuiet, KeptChanges
  <2> QED
    BY <2>2, <2>3
<1>3. CASE KeepNowhere(h)
  <2>0. task[h].item \in Contact
    <3>1. Op(task[h]) \in LostOps
      BY <1>3 DEF KeepNowhere, LostOps, Doing, Busy, Op
    <3> QED
      BY <1>0, <3>1 DEF ListsKept
  <2> USE DEF KeepsNowhere
  <2>1. PICK a \in User, x \in Contact, clear \in SUBSET Alias : KeepsNowhere(h, a, x, clear)
    BY <1>3, <2>0, KeepNowhereDoes
  <2>2. x \notin clear
    BY ListedItems DEF Listed
  <2>3. NowKept'
    BY <1>0, <2>1, <2>2 DEF NowKept, Counted
  <2>4. \A u \in User, i \in Listed : answered'[u][i] \in {answered[u][i], "unclear"}
    BY <2>1, ListedItems
  <2> QED
    BY <2>1, <2>3, <2>4, EndedLists, RestIsQuiet, KeptChanges
<1>4. CASE AppendToken(h)
  <2> USE DEF AppendsToken
  <2>1. PICK a \in User, x \in Tokens : AppendsToken(h, a, x)
    BY <1>4, AppendDoes
  <2>2. NowKept'
    <3>1. Counted(kept[a][x] + 1, IF kept[a][x] > 0 THEN "unclear" ELSE Told(h, a, x, "in"))
      <4>1. kept[a][x] \in Nat
        BY <1>0, ListedItems DEF Listed
      <4> QED
        BY <4>1, ToldCounts DEF Counted
    <3> QED
      BY <1>0, <2>1, <3>1 DEF NowKept, Listed
  <2>3. \A u \in User, i \in Listed :
            answered'[u][i] \in {answered[u][i], "unclear"} \/ ~ WillReplace(h, u, i)
    BY <2>1, ToldCounts, ListedItems
  <2> QED
    BY <2>1, <2>2, <2>3, EndedLists, RestIsQuiet, KeptChanges
<1> QED
  BY <1>1, <1>2, <1>3, <1>4 DEF PersonalSaves

LEMMA ClearsKeptAsAnswered ==
    ASSUME TypeOK, KeptInv, NEW h \in Handler, Clears(h), newest' = newest \/ newest' = Snapshot'
    PROVE  KeptInv'
<1>0. NowKept /\ ListsKept(h) /\ FileKept /\ kept \in [User -> [Item -> Nat]]
  BY PersonalTyped DEF KeptInv, TypeOK
<1>1. CASE ClearDraft(h)
  <2> USE DEF ClearsMark
  <2>1. PICK a \in User, x \in Item \ (Tokens \cup Contact \cup Alias) : ClearsMark(h, a, x)
    BY <1>1, ClearDraftDoes
  <2>2. NowKept'
    BY <1>0, <2>1 DEF NowKept, Counted
  <2>3. \A u \in User, i \in Listed \cup Saved : answered'[u][i] = answered[u][i]
    BY <2>1, ListedItems DEF Listed, Saved
  <2>4. newest' = newest => FileKept'
    <3>1. \A u \in User, i \in Contact, g \in Handler : Forgets(g, u, i) => Forgets(g, u, i)'
      BY <2>1 DEF Forgets, Forgetting, Rest
    <3> QED
      BY <1>0, <2>3, <3>1, FileStays
  <2> QED
    BY <2>1, <2>2, <2>3, <2>4, EndedLists, RestIsQuiet, KeptChanges
<1>2. CASE Unregister(h)
  <2> USE DEF GivesBack
  <2>1. PICK a \in User, x \in Tokens : GivesBack(h, a, x)
    BY <1>2, UnregisterDoes
  <2>2. \A u \in User, i \in Tokens :
            IF u = a /\ i = x THEN task[h].lists[u][i] = 0
            ELSE Counted(task[h].lists[u][i], answered[u][i])
    BY <1>0, <2>1 DEF ListsKept, Listed, Copied, TakesOut, Holders
  <2>3. NowKept'
    <3>1. \A u \in User, i \in Item : Counted(kept'[u][i], answered'[u][i])
      <4>1. Counted(0, Told(h, a, x, "out"))
        BY ToldCounts DEF Counted
      <4> QED
        BY <1>0, <2>1, <2>2, <4>1 DEF NowKept
    <3> QED
      BY <1>0, <2>1, <3>1 DEF NowKept, Listed
  <2>4. \A u \in User, i \in Listed :
            answered'[u][i] \in {answered[u][i], "unclear"} \/ ~ WillReplace(h, u, i)
    BY <2>1, ToldCounts, ListedItems
  <2>5. newest' = newest => FileKept'
    <3>1. \A u \in User, i \in Contact, g \in Handler : Forgets(g, u, i) => Forgets(g, u, i)'
      BY <2>1 DEF Forgets, Forgetting, Rest
    <3>2. \A u \in User, i \in Saved : answered'[u][i] = answered[u][i]
      BY <2>1, ListedItems
    <3> QED
      BY <1>0, <3>1, <3>2, FileStays
  <2> QED
    BY <2>1, <2>3, <2>4, <2>5, EndedLists, RestIsQuiet, KeptChanges
<1> QED
  BY <1>1, <1>2 DEF Clears

LEMMA OthersForget ==
    ASSUME TypeOK, NEW g \in Handler, task'[g] = task[g] \/ Spoilt(g) \/ LosesList(g)
    PROVE  \A u, i : Forgets(g, u, i) => Forgets(g, u, i)'
<1>1. ASSUME Spoilt(g), NEW u, NEW i, Forgets(g, u, i) PROVE Forgets(g, u, i)'
  BY <1>1, SpoiltFields DEF Forgets
<1>2. ASSUME LosesList(g), NEW u, NEW i PROVE ~ Forgets(g, u, i)
  BY <1>2 DEF LosesList, Forgets, Forgetting
<1> QED
  BY <1>1, <1>2 DEF Forgets

LEMMA TokensKeptAsAnswered ==
    ASSUME TypeOK, KeptInv, NEW h \in Handler, newest' = newest,
           AssignTokens(h) \/ CopyTokens(h) \/ ReplaceTokens(h)
    PROVE  KeptInv'
<1>0. NowKept /\ ListsKept(h) /\ FileKept /\ kept \in [User -> [Item -> Nat]]
  BY PersonalTyped DEF KeptInv, TypeOK
<1>1. CASE CopyTokens(h)
  <2>1. /\ Op(task[h]) = SignedOut
        /\ Op(task'[h]) = "copied" /\ task'[h].user = task[h].user
        /\ \A u \in User, i \in Tokens :
             task'[h].lists[u][i] = IF u = task[h].user THEN 0 ELSE kept[u][i]
        /\ kept' = kept /\ answered' = answered /\ Rest(h)
    BY <1>1, CopyTokensDoes DEF personalVars
  <2>2. NowKept'
    BY <1>0, <2>1 DEF NowKept
  <2>3. ListsKept(h)'
    <3>1. Op(task'[h]) \notin LostOps
      BY <2>1, LostApart
    <3>2. ASSUME NEW u \in User, NEW i \in Listed, Copied(h, u, i)'
          PROVE  IF TakesOut(h, u, i)' THEN task'[h].lists[u][i] = 0
                 ELSE Counted(task'[h].lists[u][i], answered'[u][i])
      <4>1. i \in Tokens /\ i \in Item /\ (TakesOut(h, u, i)' <=> u = task[h].user)
        BY <2>1, <3>2, ListedItems DEF Copied, TakesOut
      <4> QED
        BY <1>0, <2>1, <4>1 DEF NowKept
    <3> QED
      BY <2>1, <3>1, <3>2 DEF ListsKept
  <2>4. FileKept'
    <3>1. Op(task[h]) \notin Forgetting
      BY <2>1 DEF SignedOut, Forgetting
    <3>2. \A u \in User, i \in Contact, g \in Handler : Forgets(g, u, i) => Forgets(g, u, i)'
      BY <2>1, <3>1 DEF Forgets, Rest
    <3> QED
      BY <1>0, <2>1, <3>2, FileStays
  <2> QED
    BY <2>1, <2>2, <2>3, <2>4, RestIsQuiet, KeptChanges
<1>2. CASE AssignTokens(h) \/ ReplaceTokens(h)
  <2> USE DEF ReplacesTokens
  <2>1. PICK a \in User : ReplacesTokens(h, a)
    BY <1>2, TokensReplaced
  <2>2. Op(task[h]) \in {"register", "copied"} /\ Op(task'[h]) \in {"append", "forgotten"}
    BY <2>1
  <2>3. \A u \in User, i \in Tokens :
            IF u = a THEN task[h].lists[u][i] = 0
            ELSE Counted(task[h].lists[u][i], answered[u][i])
    BY <1>0, <2>1, <2>2 DEF ListsKept, Listed, Copied, TakesOut, Holders
  <2>4. NowKept'
    <3>1. \A i : Counted(0, Told(h, a, i, "out"))
      BY ToldCounts DEF Counted
    <3>2. \A u \in User, i \in Item : Counted(kept'[u][i], answered'[u][i])
      BY <1>0, <2>1, <2>3, <3>1 DEF NowKept
    <3> QED
      BY <1>0, <2>1, <3>2 DEF NowKept, Listed
  <2>5. \A u \in User, i \in Listed :
            answered'[u][i] \in {answered[u][i], "unclear"} \/ ~ WillReplace(h, u, i)
    BY <2>1, ToldCounts, ListedItems
  <2>6. ListsKept(h)'
    <3>1. Op(task'[h]) \notin {"keep", "drop", "listed"} /\ Op(task'[h]) \notin Holders
          /\ Op(task'[h]) \notin LostOps
      BY <2>2, LostApart DEF Holders
    <3> QED
      BY <3>1 DEF ListsKept, Copied
  <2>7. FileKept'
    <3>1. \A u \in User, i \in Contact, g \in Handler : Forgets(g, u, i) => Forgets(g, u, i)'
      BY <2>1, <2>2 DEF Forgets, Forgetting, Rest
    <3>2. \A u \in User, i \in Saved : answered'[u][i] = answered[u][i]
      BY <2>1, ListedItems
    <3> QED
      BY <1>0, <3>1, <3>2, FileStays
  <2> QED
    BY <2>1, <2>4, <2>5, <2>6, <2>7, RestIsQuiet, KeptChanges
<1> QED
  BY <1>1, <1>2

LEMMA ContactsKeptAsAnswered ==
    ASSUME TypeOK, KeptInv, NEW h \in Handler, newest' = newest,
           CopyContacts(h) \/ ReplaceContacts(h) \/ DeletionFails(h)
    PROVE  KeptInv'
<1>0. NowKept /\ ListsKept(h) /\ FileKept /\ kept \in [User -> [Item -> Nat]]
  BY PersonalTyped DEF KeptInv, TypeOK
<1>1. CASE CopyContacts(h)
  <2> USE DEF CopiesContacts
  <2>1. PICK a \in User : CopiesContacts(h, a)
    BY <1>1, CopyContactsDoes
  <2>2. NowKept'
    <3>1. \A u, i : Counted(0, Told(h, u, i, "out"))
      BY ToldCounts DEF Counted
    <3> QED
      BY <1>0, <2>1, <3>1 DEF NowKept
  <2>3. \A u \in User, i \in Listed :
            answered'[u][i] \in {answered[u][i], "unclear"} \/ ~ WillReplace(h, u, i)
    <3>1. ASSUME NEW u \in User, NEW i \in Item
          PROVE  answered'[u][i] \in {answered[u][i], Told(h, u, i, "out")}
      BY <2>1
    <3> QED
      BY <3>1, ToldCounts, ListedItems
  <2>4. ASSUME NEW g \in Handler \ {h} PROVE task'[g] = task[g] \/ LosesList(g)
    BY <2>1, LostDoes
  <2>5. ListsKept(h)'
    <3>1. Op(task'[h]) \notin LostOps /\ Op(task'[h]) \notin Holders
      BY <2>1, LostApart DEF Holders
    <3>2. ASSUME NEW u \in User, NEW i \in Listed, Copied(h, u, i)'
          PROVE  IF TakesOut(h, u, i)' THEN task'[h].lists[u][i] = 0
                 ELSE Counted(task'[h].lists[u][i], answered'[u][i])
      <4>1. i \in Contact /\ i \in Item /\ u \in User \ {a} /\ (TakesOut(h, u, i)' <=> i = Entry(a))
        BY <2>1, <3>1, <3>2, ListedItems DEF Copied, TakesOut
      <4>2. i[2] = a <=> i = Entry(a)
        BY <4>1, EntryIs
      <4> QED
        BY <1>0, <2>1, <4>1, <4>2 DEF NowKept
    <3> QED
      BY <2>1, <3>1, <3>2 DEF ListsKept
  <2>6. FileKept'
    <3>1. \A u \in User, i \in Contact, g \in Handler : Forgets(g, u, i) => Forgets(g, u, i)'
      <4>1. Op(task[h]) \notin Forgetting
        BY <2>1 DEF Forgetting
      <4> QED
        BY <2>4, <4>1, OthersForget DEF Forgets
    <3>2. \A i : Forgets(h, a, i)'
      BY <2>1 DEF Forgets, Forgetting
    <3>3. \A u \in User, i \in Saved : answered'[u][i] # answered[u][i] =>
                i \in Contact /\ Forgets(h, u, i)'
      BY <2>1, <3>2, ListedItems
    <3> QED
      BY <1>0, <3>1, <3>3, FileStays
  <2> QED
    BY <2>2, <2>3, <2>4, <2>5, <2>6, KeptChanges DEF Quiet
<1>2. CASE ReplaceContacts(h)
  <2>1. /\ Op(task[h]) = "listed" /\ task[h].user \in User /\ task[h].owners \subseteq User
        /\ \A u \in User, i \in Item :
             /\ kept'[u][i] = IF u \in task[h].owners /\ i \in Contact
                              THEN task[h].lists[u][i] ELSE kept[u][i]
             /\ answered'[u][i] = IF u \in task[h].owners /\ i = Entry(task[h].user)
                                  THEN Told(h, u, i, "out") ELSE answered[u][i]
        /\ Op(task'[h]) = "unlisted" /\ task'[h].user = task[h].user
        /\ \A g \in Handler \ {h} : task'[g] = Lost(task[h].owners, g)
    BY <1>2, ReplaceContactsDoes
  <2>2. ASSUME NEW u \in task[h].owners, NEW i \in Contact
        PROVE  IF i = Entry(task[h].user) THEN task[h].lists[u][i] = 0
               ELSE Counted(task[h].lists[u][i], answered[u][i])
    BY <1>0, <2>1 DEF ListsKept, Listed, Copied, TakesOut
  <2>3. NowKept'
    <3>1. \A u, i : Counted(0, Told(h, u, i, "out"))
      BY ToldCounts DEF Counted
    <3>2. ASSUME NEW u \in User, NEW i \in Item PROVE Counted(kept'[u][i], answered'[u][i])
      <4>1. CASE u \in task[h].owners /\ i = Entry(task[h].user)
        BY <2>1, <2>2, <3>1, <4>1, EntryIs
      <4>2. CASE u \in task[h].owners /\ i \in Contact /\ i # Entry(task[h].user)
        BY <2>1, <2>2, <4>2
      <4>3. CASE ~ (u \in task[h].owners /\ i \in Contact)
        BY <1>0, <2>1, <4>3, EntryIs DEF NowKept
      <4> QED
        BY <4>1, <4>2, <4>3
    <3> QED
      BY <1>0, <2>1, <3>2 DEF NowKept, Listed
  <2>4. \A u \in User, i \in Listed :
            answered'[u][i] \in {answered[u][i], "unclear"} \/ ~ WillReplace(h, u, i)
    <3>1. ASSUME NEW u \in User, NEW i \in Item
          PROVE  answered'[u][i] \in {answered[u][i], Told(h, u, i, "out")}
      BY <2>1
    <3> QED
      BY <3>1, ToldCounts, ListedItems
  <2>5. ASSUME NEW g \in Handler \ {h} PROVE task'[g] = task[g] \/ LosesList(g)
    BY <2>1, LostDoes
  <2>6. ListsKept(h)'
    <3>1. Op(task'[h]) \notin LostOps /\ Op(task'[h]) \notin Holders
      BY <2>1, LostApart DEF Holders
    <3> QED
      BY <2>1, <3>1 DEF ListsKept, Copied
  <2>7. FileKept'
    <3>1. \A u, i : Forgets(h, u, i) => Forgets(h, u, i)'
      BY <2>1 DEF Forgets, Forgetting
    <3>2. \A u \in User, i \in Contact, g \in Handler : Forgets(g, u, i) => Forgets(g, u, i)'
      BY <2>5, <3>1, OthersForget
    <3>3. \A u : Forgets(h, u, Entry(task[h].user))'
      BY <2>1, EntryIs DEF Forgets, Forgetting
    <3>4. \A u \in User, i \in Saved : answered'[u][i] # answered[u][i] =>
                i \in Contact /\ Forgets(h, u, i)'
      BY <2>1, <3>3, ListedItems, EntryIs
    <3> QED
      BY <1>0, <3>2, <3>4, FileStays
  <2> QED
    BY <2>3, <2>4, <2>5, <2>6, <2>7, KeptChanges DEF Quiet
<1>3. CASE DeletionFails(h)
  <2>1. /\ Op(task[h]) = "listed" /\ task[h].user \in User
        /\ \A u \in User, i \in Item :
             /\ kept'[u][i] = kept[u][i]
             /\ answered'[u][i] = IF u = task[h].user /\ i \in Contact
                                  THEN "unclear" ELSE answered[u][i]
        /\ task'[h] = None /\ Rest(h)
    BY <1>3, DeletionFailsDoes
  <2>2. NowKept'
    BY <1>0, <2>1 DEF NowKept, Counted
  <2>3. \A u \in User, i \in Item : answered'[u][i] \in {answered[u][i], "unclear"}
    BY <2>1
  <2>4. FileKept'
    <3>1. \A u \in User, i \in Contact, g \in Handler : Forgets(g, u, i) =>
                Forgets(g, u, i)' \/ answered'[u][i] = "unclear"
      <4>1. ASSUME NEW u \in User, NEW i \in Contact, Forgets(h, u, i) PROVE answered'[u][i] = "unclear"
        BY <2>1, <4>1, ContactItems DEF Forgets
      <4> QED
        BY <2>1, <4>1 DEF Forgets, Rest
    <3> QED
      BY <1>0, <2>3, <3>1, FileStays, ListedItems
  <2> QED
    BY <2>1, <2>2, <2>3, <2>4, EndedLists, RestIsQuiet, KeptChanges, ListedItems
<1> QED
  BY <1>1, <1>2, <1>3

LEMMA AsksKeptAsAnswered ==
    ASSUME TypeOK, KeptInv, NEW h \in Handler, newest' = newest, PersonalAsks(h)
    PROVE  KeptInv'
<1>0. NowKept /\ kept \in [User -> [Item -> Nat]]
  BY PersonalTyped DEF KeptInv, TypeOK
<1>1. ASSUME UNCHANGED personalVars, task[h] = None, ListsKept(h)',
             \A g \in Handler \ {h} : task'[g] = task[g] \/ Spoilt(g)
      PROVE  KeptInv'
  <2>1. kept' = kept /\ answered' = answered
    BY <1>1 DEF personalVars
  <2>2. NowKept'
    BY <1>0, <2>1 DEF NowKept
  <2>3. FileKept'
    <3>1. Op(task[h]) \notin Forgetting
      BY <1>1 DEF Op, Forgetting
    <3>2. \A u \in User, i \in Contact, g \in Handler : Forgets(g, u, i) => Forgets(g, u, i)'
      BY <1>1, <3>1, OthersForget DEF Forgets
    <3> QED
      BY <2>1, <3>2, FileStays DEF KeptInv
  <2> QED
    BY <1>1, <2>1, <2>2, <2>3, KeptChanges DEF Quiet
<1>2. ASSUME NEW a \in User, NEW item \in Item \ Tokens,
             KeepRequest(h, a, item) \/ DropRequest(h, a, item)
      PROVE  KeptInv'
  <2>1. /\ UNCHANGED personalVars /\ task[h] = None
        /\ Op(task'[h]) \in {"keep", "drop"} /\ task'[h].item = item
        /\ \A g \in Handler \ {h} : task'[g] = task[g] \/ Spoilt(g)
    <3>1. item \in Item
      OBVIOUS
    <3>2. CASE KeepRequest(h, a, item)
      BY <3>1, <3>2, KeepRequestDoes
    <3>3. CASE DropRequest(h, a, item)
      BY <3>1, <3>3, DropRequestDoes DEF Rest
    <3> QED
      BY <1>2, <3>2, <3>3
  <2>2. ListsKept(h)'
    BY <2>1, LostApart DEF ListsKept, Copied, Holders
  <2> QED
    BY <1>1, <2>1, <2>2
<1>3. ASSUME NEW a \in User, NEW op \in {"register", "unregister"}, NEW item \in Tokens,
             TokenRequest(h, op, a, item)
      PROVE  KeptInv'
  <2>1. /\ UNCHANGED personalVars /\ task[h] = None /\ Rest(h)
        /\ Op(task'[h]) = op /\ task'[h].user = a /\ task'[h].item = item
        /\ \A u \in User, i \in Tokens : task'[h].lists[u][i] =
             IF u = a /\ (op # "unregister" \/ item = i) THEN 0 ELSE kept[u][i]
    BY <1>3, TokenRequestDoes
  <2>2. ListsKept(h)'
    <3>1. Op(task'[h]) \notin LostOps /\ Op(task'[h]) \notin {"keep", "drop", "listed"}
      BY <2>1, LostApart
    <3>2. ASSUME NEW u \in User, NEW i \in Listed, Copied(h, u, i)'
          PROVE  IF TakesOut(h, u, i)' THEN task'[h].lists[u][i] = 0
                 ELSE Counted(task'[h].lists[u][i], answered'[u][i])
      <4>1. i \in Tokens /\ i \in Item
            /\ (TakesOut(h, u, i)' <=> u = a /\ (op # "unregister" \/ item = i))
        BY <2>1, <3>1, <3>2, ListedItems DEF Copied, TakesOut
      <4>2. kept[u][i] = kept'[u][i] /\ answered'[u][i] = answered[u][i]
        BY <2>1 DEF personalVars
      <4> QED
        BY <1>0, <2>1, <4>1, <4>2 DEF NowKept
    <3> QED
      BY <3>1, <3>2 DEF ListsKept
  <2> QED
    BY <1>1, <2>1, <2>2 DEF Rest
<1> QED
  BY <1>2, <1>3 DEF PersonalAsks

\* What the tables kept for the users see of a step in the conversation: a deletion goes on.
LEMMA ChatForgets ==
    ASSUME TypeOK, NEW h \in Handler, ChatAsks(h) \/ ChatGoesOn(h)
    PROVE  \A u, i : \A g \in Handler : Forgets(g, u, i) => Forgets(g, u, i)'
<1>1. CASE ChatAsks(h)
  <2>1. task[h] = None /\ \A g \in Handler \ {h} : task'[g] = task[g]
    <3>1. PICK t : Starts(h, t)
      BY <1>1 DEF ChatAsks, SendRequest, AddRequest, RemoveRequest, RoleRequest, DeleteRequest
    <3> QED
      BY <3>1 DEF Starts, TypeOK
  <2>2. Op(task[h]) \notin Forgetting
    BY <2>1 DEF Op, Forgetting
  <2> QED
    BY <2>1, <2>2 DEF Forgets
<1>2. CASE DropSessions(h)
  <2>1. h \in Doing("confirmed") /\ \A g \in Handler \ {h} : task'[g] = task[g]
    BY <1>2 DEF DropSessions, TypeOK
  <2>2. Op(task[h]) \notin Forgetting
    BY <2>1, DoingFields DEF Forgetting
  <2> QED
    BY <2>1, <2>2 DEF Forgets
<1>3. CASE RebuildParticipants(h)
  <2>1. /\ Op(task[h]) = "unlisted" /\ Op(task'[h]) \in {"rebuilt", "walked"}
        /\ task'[h].user = task[h].user /\ \A g \in Handler \ {h} : task'[g] = task[g]
    BY <1>3, RebuildTask DEF Becomes
  <2> QED
    BY <2>1 DEF Forgets, Forgetting
<1>4. CASE ReplaceParticipants(h)
  <2>1. /\ Op(task[h]) = "rebuilt" /\ Op(task'[h]) = "walked"
        /\ task'[h].user = task[h].user /\ \A g \in Handler \ {h} : task'[g] = task[g]
    BY <1>4, ReplaceTask DEF Becomes
  <2> QED
    BY <2>1 DEF Forgets, Forgetting
<1> QED
  BY <1>1, <1>2, <1>3, <1>4 DEF ChatGoesOn

LEMMA OpsApart == \A op \in ChatOps \cup UploadOps \cup PollOps \cup {"idle"} : op \notin PersonalOps
  BY DEF ChatOps, AskOps, DeleteOps, UploadOps, PollOps, PersonalOps

LEMMA OthersQuiet ==
    ASSUME TypeOK, PollInv, NEW h \in Handler, ChatStep(h) \/ UploadStep(h) \/ PollStep(h)
    PROVE  UNCHANGED personalVars /\ \A g \in Handler : Quiet(g)
<1>1. CASE ChatStep(h)
  <2>1. Moves(ChatOps \cup {"idle"})
    BY <1>1, ChatStepMoves DEF ChatMoves
  <2>2. UNCHANGED personalVars
    BY <1>1 DEF ChatStep
  <2> QED
    BY <2>1, <2>2, OpsApart DEF Moves, Quiet
<1>2. CASE UploadStep(h)
  <2>1. Moves(UploadOps \cup {"idle"})
    BY <1>2, UploadStepMoves DEF UploadMoves
  <2>2. UNCHANGED personalVars
    BY <1>2 DEF UploadStep
  <2> QED
    BY <2>1, <2>2, OpsApart DEF Moves, Quiet
<1>3. CASE PollStep(h)
  <2>1. Moves(PollOps \cup {"idle"})
    BY <1>3, PollStepMoves DEF PollMoves
  <2>2. UNCHANGED personalVars
    BY <1>3 DEF PollStep
  <2> QED
    BY <2>1, <2>2, OpsApart DEF Moves, Quiet
<1> QED
  BY <1>1, <1>2, <1>3

LEMMA OthersKeepKept ==
    ASSUME TypeOK, PollInv, KeptInv, NEW h \in Handler, ChatStep(h) \/ UploadStep(h) \/ PollStep(h)
    PROVE  KeptInv'
<1>0. UNCHANGED personalVars /\ \A g \in Handler : Quiet(g)
  BY OthersQuiet
<1>1. CASE ChatStep(h)
  <2>1. newest' = Snapshot' \/ ((ChatAsks(h) \/ ChatGoesOn(h)) /\ newest' = newest)
    BY <1>1 DEF ChatStep
  <2>2. CASE newest' = Snapshot'
    BY <1>0, <2>2, KeptUndisturbed
  <2>3. CASE (ChatAsks(h) \/ ChatGoesOn(h)) /\ newest' = newest
    BY <1>0, <2>3, ChatForgets, KeptUndisturbed
  <2> QED
    BY <2>1, <2>2, <2>3
<1>2. CASE UploadStep(h) \/ PollStep(h)
  <2>1. newest' \in {newest, Snapshot'}
    BY <1>2 DEF UploadStep, PollStep
  <2>2. ASSUME NEW g \in Handler, task'[g] # task[g]
        PROVE  Op(task[g]) \in UploadOps \cup PollOps \cup {"idle"}
    BY <1>2, <2>2, UploadStepMoves, PollStepMoves DEF UploadMoves, PollMoves, Moves
  <2>3. \A op \in UploadOps \cup PollOps \cup {"idle"} : op \notin Forgetting
    BY DEF UploadOps, PollOps, Forgetting
  <2>4. \A u, i : \A g \in Handler : Forgets(g, u, i) => Forgets(g, u, i)'
    BY <2>2, <2>3 DEF Forgets
  <2> QED
    BY <1>0, <2>1, <2>4, KeptUndisturbed
<1> QED
  BY <1>1, <1>2

LEMMA KeptInvInit == ASSUME GroupsInit PROVE KeptInv
<1>1. \A u \in User, i \in Item : kept[u][i] = 0 /\ answered[u][i] = "out"
  BY DEF GroupsInit, PersonalInit
<1>2. \A g \in Handler : task[g] = None
  BY DEF GroupsInit, Init
<1>3. NowKept
  BY <1>1 DEF NowKept, Counted
<1>4. FileKept
  <2>1. \A u \in User, i \in Saved : newest.kept[u][i] = kept[u][i]
    BY DEF GroupsInit, Snapshot
  <2> QED
    BY <1>1, <2>1, ListedItems DEF FileKept, Counted
<1>5. \A g \in Handler : ListsKept(g)
  <2>1. Op(None) \notin {"keep", "drop", "listed"} /\ Op(None) \notin Holders
        /\ Op(None) \notin LostOps
    BY LostApart DEF Holders, Op
  <2> QED
    BY <1>2, <2>1 DEF ListsKept, Copied
<1> QED
  BY <1>3, <1>4, <1>5 DEF KeptInv

\* No payload names a contact twice.
FilesNamed == \A p \in Payloads : \A u \in User, i \in Alias : p.kept[u][i] <= 1

LEMMA FilesNamedNext == ASSUME FilesNamed, KeptInv', [Next]_vars PROVE FilesNamed'
<1>1. Payloads' \subseteq Payloads \cup {Snapshot'}
  BY NextPayload DEF Payload
<1>2. ASSUME NEW u \in User, NEW i \in Alias PROVE Snapshot'.kept[u][i] <= 1
  <2>1. i \in Saved /\ i \in Item /\ i \notin Listed
    BY <1>2, ListedItems DEF Saved
  <2> QED
    BY <1>2, <2>1 DEF Snapshot, KeptInv, NowKept
<1> QED
  BY <1>1, <1>2 DEF FilesNamed

LEMMA RestartKeepsKept == ASSUME TypeOK, KeptInv, FilesNamed, Restart PROVE KeptInv'
<1>0. /\ FileKept /\ NowKept /\ file \in SavedState /\ PersonalTypeOK
      /\ \A u \in User, i \in Alias : file.kept[u][i] <= 1
  BY DEF KeptInv, TypeOK, FilesNamed, Payloads
<1>1. /\ \A g \in Handler : task'[g] = None
      /\ \A u \in User, i \in Item :
            /\ kept'[u][i] = IF i \in Saved THEN file.kept[u][i] ELSE 0
            /\ answered'[u][i] =
                    IF \/ i \notin Saved /\ answered[u][i] = "in"
                       \/ i \in Saved /\ (Outdated \/ {u, i[2]} \cap BeingDeleted # {})
                    THEN "unclear" ELSE answered[u][i]
      /\ newest' = file /\ (~ Outdated => newest = file)
  BY DEF Restart, Outdated
<1>2. ASSUME NEW u \in User, NEW i \in Contact, NEW g \in Handler, Forgets(g, u, i)
      PROVE  {u, i[2]} \cap BeingDeleted # {}
  <2>1. g \in Busy /\ task[g].op \in Forgetting /\ task[g].user \in {u, i[2]}
    BY <1>2 DEF Forgets, Forgetting, Op, Busy
  <2> QED
    BY <2>1 DEF BeingDeleted
<1>3. ASSUME NEW u \in User, NEW i \in Saved PROVE Counted(file.kept[u][i], answered'[u][i])
  <2>1. i \in Item
    BY ListedItems
  <2>2. CASE answered'[u][i] = "unclear"
    BY <2>2 DEF Counted
  <2>3. CASE answered'[u][i] # "unclear"
    <3>1. /\ answered'[u][i] = answered[u][i] /\ ~ Outdated
          /\ {u, i[2]} \cap BeingDeleted = {}
      BY <1>1, <1>3, <2>1, <2>3
    <3> QED
      BY <1>0, <1>1, <1>2, <1>3, <3>1 DEF FileKept
  <2> QED
    BY <2>2, <2>3
<1>4. NowKept'
  <2>1. ASSUME NEW u \in User, NEW i \in Item
        PROVE  Counted(kept'[u][i], answered'[u][i]) /\ (i \notin Listed => kept'[u][i] <= 1)
    <3>1. CASE i \in Saved
      <4>1. i \notin Listed => i \in Alias
        BY <3>1 DEF Saved, Listed
      <4> QED
        BY <1>0, <1>1, <1>3, <3>1, <4>1
    <3>2. CASE i \notin Saved
      <4>1. kept'[u][i] = 0 /\ answered'[u][i] # "in"
        BY <1>1, <3>2
      <4> QED
        BY <4>1 DEF Counted
    <3> QED
      BY <3>1, <3>2
  <2> QED
    BY <2>1 DEF NowKept
<1>5. FileKept'
  BY <1>0, <1>1, <1>3 DEF FileKept
<1> QED
  BY <1>1, <1>4, <1>5, EndedLists DEF KeptInv

LEMMA KeptInvNext == ASSUME GroupsInv, KeptInv, FilesNamed, [Next]_vars PROVE KeptInv'
<1>0. TypeOK /\ PollInv /\ left \in [Request -> Nat]
  BY TypeParts DEF GroupsInv
<1>1. ASSUME NEW h \in Handler, PersonalStep(h) PROVE KeptInv'
  <2>1. CASE PersonalAsks(h) /\ newest' = newest
    BY <1>0, <2>1, AsksKeptAsAnswered
  <2>2. CASE PersonalGoesOn(h) /\ newest' = newest
    BY <1>0, <2>2, TokensKeptAsAnswered, ContactsKeptAsAnswered DEF PersonalGoesOn
  <2>3. CASE PersonalSaves(h) /\ newest' = Snapshot'
    BY <1>0, <2>3, SavesKeptAsAnswered
  <2>4. CASE Clears(h) /\ newest' = IF kept' = kept THEN newest ELSE Snapshot'
    BY <1>0, <2>4, ClearsKeptAsAnswered
  <2> QED
    BY <1>1, <2>1, <2>2, <2>3, <2>4 DEF PersonalStep
<1>2. CASE RefuseStep \/ UNCHANGED memoryVars
  <2>1. UNCHANGED <<kept, answered, task, newest>>
    BY <1>2 DEF RefuseStep, DropUpload, memoryVars, chatVars, personalVars
  <2> QED
    BY <2>1 DEF KeptInv, NowKept, FileKept, ListsKept, Copied, TakesOut, Forgets
<1> QED
  BY <1>0, <1>1, <1>2, StepKinds, OthersKeepKept, RestartKeepsKept

LEMMA KeptInvariant == Spec => [](KeptInv /\ FilesNamed)
<1>1. GroupsInit => FilesNamed
  <2> SUFFICES ASSUME GroupsInit PROVE FilesNamed
    OBVIOUS
  <2>1. Payloads = {Snapshot}
    BY DEF GroupsInit, Payloads
  <2>2. \A u \in User, i \in Alias : Snapshot.kept[u][i] = 0
    BY ContactItems DEF GroupsInit, PersonalInit, Snapshot, Saved
  <2> QED
    BY <2>1, <2>2 DEF FilesNamed
<1> QED
  BY <1>1, KeptInvInit, KeptInvNext, FilesNamedNext, GroupsInvariant, PTL DEF Spec

\* Copies of the lists do not bring back unnoticed what was taken out meanwhile, nor take
\* out what was put in (register, unregister, add, remove, save, delete); a restart reads
\* back the contacts and names that were answered, unless the file is outdated, and of what
\* no file has (_runtime_payload) nothing is claimed after it that was told to be kept.
THEOREM KeptStaysAsAnswered == Spec => []KeptAsAnswered
<1>1. KeptInv => KeptAsAnswered
  BY DEF KeptInv, NowKept, Counted, KeptAsAnswered
<1> QED
  BY <1>1, KeptInvariant, PTL

--------------------------------------------------------------------------------
(* Deleted accounts *)

\* A request stays its user's.
SameUser(g) == task[g] # None /\ task'[g] # None => task'[g].user = task[g].user

LEMMA OneSameUser ==
    ASSUME TypeOK, NEW h \in Handler,
           \/ Ends(h)
           \/ \E t : Starts(h, t)
           \/ \E t : task' = [task EXCEPT ![h] = t] /\ task[h] # None /\ t.user = task[h].user
    PROVE  \A g \in Handler : SameUser(g)
<1>0. DOMAIN task = Handler
  BY DEF TypeOK
<1>1. CASE Ends(h)
  BY <1>0, <1>1 DEF Ends, SameUser
<1>2. ASSUME NEW t, Starts(h, t) PROVE \A g \in Handler : SameUser(g)
  BY <1>0, <1>2 DEF Starts, SameUser
<1>3. ASSUME NEW t, task' = [task EXCEPT ![h] = t], task[h] # None, t.user = task[h].user
      PROVE  \A g \in Handler : SameUser(g)
  BY <1>0, <1>3 DEF SameUser
<1> QED
  BY <1>1, <1>2, <1>3

LEMMA OpIsRequest == \A g : Op(task[g]) # "idle" => task[g] # None
  BY DEF Op

LEMMA ChatSameUser ==
    ASSUME TypeOK, NEW h \in Handler, ChatStep(h) PROVE \A g \in Handler : SameUser(g)
<1>1. CASE ChatAsks(h)
  BY <1>1, ChatAsksLeave DEF SameUser
<1>2. CASE DropSessions(h)
  <2>1. Op(task[h]) = "confirmed" /\ task'[h].user = task[h].user /\ Rest(h)
    BY <1>2, DropSessionsTask DEF Rest
  <2>2. task[h] # None
    BY <2>1, OpIsRequest
  <2> QED
    BY <2>1, <2>2 DEF Rest, SameUser
<1>3. CASE RebuildParticipants(h)
  <2>1. Op(task[h]) = "unlisted" /\ task'[h].user = task[h].user /\ Rest(h)
    BY <1>3, RebuildTask DEF Rest
  <2>2. task[h] # None
    BY <2>1, OpIsRequest
  <2> QED
    BY <2>1, <2>2 DEF Rest, SameUser
<1>4. CASE ReplaceParticipants(h)
  <2>1. Op(task[h]) = "rebuilt" /\ task'[h].user = task[h].user /\ Rest(h)
    BY <1>4, ReplaceTask DEF Rest
  <2>2. task[h] # None
    BY <2>1, OpIsRequest
  <2> QED
    BY <2>1, <2>2 DEF Rest, SameUser
<1>5. CASE Send(h)
  <2>1. task[h] # None
    BY <1>5 DEF Send, Doing, Busy
  <2> DEFINE t == [op |-> "sent", user |-> task[h].user]
  <2>2. t.user = task[h].user /\ task' = [task EXCEPT ![h] = t]
    BY <1>5 DEF Send, TypeOK
  <2> HIDE DEF t
  <2> QED
    BY <2>1, <2>2 DEF Rest, SameUser
<1>6. CASE AddParticipant(h) \/ RemoveParticipant(h) \/ SetRole(h) \/ DropUser(h)
  BY <1>6, OneSameUser DEF AddParticipant, RemoveParticipant, SetRole, DropUser
<1> QED
  BY <1>1, <1>2, <1>3, <1>4, <1>5, <1>6 DEF ChatStep, ChatGoesOn, ChatSaves

LEMMA UploadSameUser ==
    ASSUME TypeOK, NEW h \in Handler, UploadStep(h) PROVE \A g \in Handler : SameUser(g)
<1>1. CASE UploadAsks(h)
  <2>1. \E t : Starts(h, t)
    BY <1>1 DEF UploadAsks, AttachRequest, BeginRequest, ChunkRequest, CompleteRequest
  <2> QED
    BY <2>1, OneSameUser
<1>2. CASE PostAttachment(h)
  <2>1. Op(task[h]) = "post" /\ Rest(h)
        /\ (task'[h] = None \/ task'[h].user = task[h].user)
    BY <1>2, PostTask DEF Rest
  <2>2. task[h] # None
    BY <2>1, OpIsRequest
  <2> QED
    BY <2>1, <2>2 DEF Rest, SameUser
<1>3. CASE UploadGoesOn(h) \/ SendAttachment(h)
  BY <1>3, OneSameUser DEF UploadGoesOn, InitUpload, AcceptChunk, ReleaseUpload, SendAttachment
<1> QED
  BY <1>1, <1>2, <1>3 DEF UploadStep

LEMMA PollSameUser ==
    ASSUME TypeOK, NEW h \in Handler, PollStep(h) PROVE \A g \in Handler : SameUser(g)
<1>1. CASE PollAsks(h)
  <2>1. \E t : Starts(h, t)
    BY <1>1 DEF PollAsks, CreateRequest, VoteRequest, CloseRequest
  <2> QED
    BY <2>1, OneSameUser
<1>2. CASE ClosePoll(h)
  <2>1. h \in Doing("close") /\ task[h] # None /\ task[h] \in AnyTask /\ task[h].op = "close"
    BY <1>2, DoingFields DEF ClosePoll
  <2>2. task[h] \in [op : {"poll", "close", "announce"}, user : User]
    BY <2>1 DEF AnyTask, Task, UploadTask, PollTask, PersonalTask
  <2>3. task' = [task EXCEPT ![h] = [task[h] EXCEPT !.op = "announce"]]
    BY <1>2 DEF ClosePoll, TypeOK
  <2>4. [task[h] EXCEPT !.op = "announce"].user = task[h].user
    BY <2>2
  <2> QED
    BY <2>1, <2>3, <2>4, OneSameUser
<1>3. CASE CreatePoll(h) \/ CountVote(h) \/ AnnounceResult(h)
  BY <1>3, OneSameUser DEF CreatePoll, CountVote, AnnounceResult
<1> QED
  BY <1>1, <1>2, <1>3 DEF PollStep

LEMMA PersonalSameUser ==
    ASSUME TypeOK, KeptInv, NEW h \in Handler, PersonalStep(h)
    PROVE  \A g \in Handler : SameUser(g)
<1>1. CASE PersonalAsks(h)
  <2>1. ASSUME NEW a \in User, NEW item \in Item, KeepRequest(h, a, item)
        PROVE  \A g \in Handler : SameUser(g)
    <3>1. /\ task[h] = None
          /\ \A g \in Handler \ {h} : task'[g] = task[g] \/ Spoilt(g)
      BY <2>1, KeepRequestDoes
    <3>2. \A g \in Handler : Spoilt(g) => task[g] # None /\ task'[g].user = task[g].user
      BY SpoiltFields DEF Spoilt, Forgetting, Op
    <3> QED
      BY <3>1, <3>2 DEF SameUser
  <2>2. ASSUME NEW a \in User, NEW item \in Item, DropRequest(h, a, item)
        PROVE  \A g \in Handler : SameUser(g)
    BY <2>2, DropRequestDoes DEF Rest, SameUser
  <2>3. ASSUME NEW a \in User, NEW op \in {"register", "unregister"}, NEW item \in Tokens,
               TokenRequest(h, op, a, item)
        PROVE  \A g \in Handler : SameUser(g)
    BY <2>3, TokenRequestDoes DEF Rest, SameUser
  <2> QED
    BY <1>1, <2>1, <2>2, <2>3 DEF PersonalAsks
<1>2. CASE PersonalSaves(h) \/ Clears(h) \/ DeletionFails(h)
  <2>1. Ends(h)
    BY <1>2, KeepIsKeeps DEF PersonalSaves, Clears, Keeps, Drop, KeepNowhere, AppendToken,
                             ClearDraft, Unregister, DeletionFails
  <2> QED
    BY <2>1, OneSameUser
<1>3. CASE CopyTokens(h)
  <2>1. Op(task[h]) = SignedOut /\ task'[h].user = task[h].user /\ Rest(h)
    BY <1>3, CopyTokensDoes
  <2>2. SignedOut # "idle"
    BY DEF SignedOut
  <2>3. task[h] # None
    BY <2>1, <2>2, OpIsRequest
  <2> QED
    BY <2>1, <2>3 DEF Rest, SameUser
<1>4. CASE AssignTokens(h) \/ ReplaceTokens(h)
  <2>1. Op(task[h]) \in {"register", "copied"} /\ task'[h].user = task[h].user /\ Rest(h)
    <3>1. PICK a \in User : ReplacesTokens(h, a)
      BY <1>4, TokensReplaced
    <3> QED
      BY <3>1 DEF ReplacesTokens
  <2>2. task[h] # None
    BY <2>1, OpIsRequest
  <2> QED
    BY <2>1, <2>2 DEF Rest, SameUser
<1>5. CASE CopyContacts(h) \/ ReplaceContacts(h)
  <2>1. /\ Op(task[h]) \in {"forgotten", "listed"} /\ task'[h].user = task[h].user
        /\ \E owners : \A g \in Handler \ {h} : task'[g] = Lost(owners, g)
    <3>1. CASE CopyContacts(h)
      <4> USE DEF CopiesContacts
      <4>1. PICK a \in User : CopiesContacts(h, a)
        BY <3>1, CopyContactsDoes
      <4> QED
        BY <4>1
    <3>2. CASE ReplaceContacts(h)
      BY <3>2, ReplaceContactsDoes
    <3> QED
      BY <1>5, <3>1, <3>2
  <2>2. \A g \in Handler \ {h} : task'[g] = task[g] \/ LosesList(g)
    BY <2>1, LostDoes
  <2>3. \A g : LosesList(g) => task[g] # None /\ task'[g].user = task[g].user
    BY OpIsRequest DEF LosesList
  <2> QED
    BY <2>1, <2>2, <2>3, OpIsRequest DEF SameUser
<1> QED
  BY <1>1, <1>2, <1>3, <1>4, <1>5 DEF PersonalStep, PersonalGoesOn

LEMMA StepSameUser ==
    ASSUME TypeOK, KeptInv, NEW h \in Handler, Step(h) PROVE \A g \in Handler : SameUser(g)
  BY ChatSameUser, UploadSameUser, PollSameUser, PersonalSameUser DEF Step

--------------------------------------------------------------------------------
(* What is in no list any more *)

\* The user does not have it, and no list that a handler holds gives it back.
Out(u, i) ==
    /\ kept[u][i] = 0
    /\ \A g \in Handler : Copied(g, u, i) => task[g].lists[u][i] = 0

LEMMA QuietCopies ==
    ASSUME TypeOK, NEW g \in Handler, Quiet(g), NEW u, NEW i, Copied(g, u, i)'
    PROVE  Copied(g, u, i) /\ task'[g].lists[u][i] = task[g].lists[u][i]
<1>1. CASE task'[g] = task[g]
  BY <1>1 DEF Copied
<1>2. CASE Spoilt(g)
  <2>1. /\ Op(task'[g]) = Op(task[g]) /\ Op(task[g]) \in Forgetting
        /\ Op(task[g]) = "listed" => /\ task'[g].lists = task[g].lists
                                     /\ task'[g].owners = task[g].owners
    BY <1>2, SpoiltFields DEF Spoilt
  <2> QED
    BY <2>1 DEF Copied, Holders, Forgetting
<1>3. CASE LosesList(g)
  BY <1>3, LostApart DEF LosesList, Copied, Holders
<1>4. CASE Op(task'[g]) \notin PersonalOps
  BY <1>4, OtherOps DEF Copied
<1> QED
  BY <1>1, <1>2, <1>3, <1>4 DEF Quiet

LEMMA OutAfter ==
    ASSUME TypeOK, NEW h \in Handler, NEW u, NEW i, Out(u, i), kept'[u][i] = 0,
           \A g \in Handler \ {h} : Quiet(g),
           Copied(h, u, i)' => task'[h].lists[u][i] = 0
    PROVE  Out(u, i)'
  BY QuietCopies DEF Out

LEMMA EndedNotCopied == \A g, u, i : task'[g] = None => ~ Copied(g, u, i)'
  BY DEF Copied, Holders, Op

LEMMA PersonalOut ==
    ASSUME TypeOK, KeptInv, NEW h \in Handler, PersonalStep(h),
           NEW v \in User, NEW i \in Listed, Out(v, i),
           ~ (Op(task[h]) \in {"keep", "append"} /\ task[h].user = v /\ task[h].item = i)
    PROVE  Out(v, i)'
<1>0. /\ kept[v][i] = 0 /\ i \in Item /\ (Copied(h, v, i) => task[h].lists[v][i] = 0)
      /\ ListsKept(h)
  BY ListedItems DEF Out, KeptInv
<1>1. ASSUME kept'[v][i] = 0, task'[h] = None, Rest(h) PROVE Out(v, i)'
  BY <1>1, OutAfter, RestIsQuiet, EndedNotCopied
<1>2. CASE Keep(h)
  <2> USE DEF KeepsItem
  <2>1. PICK a \in User, x \in Item \ Tokens, n \in Nat : KeepsItem(h, a, x, n)
    BY <1>2, KeepDoes
  <2> QED
    BY <1>0, <1>1, <2>1
<1>3. CASE Drop(h)
  <2> USE DEF DropsItem
  <2>1. PICK a \in User, x \in Item, both \in SUBSET Item : DropsItem(h, a, x, both)
    BY <1>3, DropDoes
  <2>2. kept'[v][i] = 0
    <3>1. CASE UNCHANGED <<kept, answered>>
      BY <1>0, <3>1
    <3>2. CASE ~ UNCHANGED <<kept, answered>>
      <4>1. kept[a][x] > 0
        BY <2>1, <3>2
      <4>2. ~ (v = a /\ i = x)
        BY <1>0, <4>1
      <4> QED
        BY <1>0, <2>1, <3>2, <4>2
    <3> QED
      BY <3>1, <3>2
  <2> QED
    BY <1>1, <2>1, <2>2
<1>4. CASE KeepNowhere(h)
  <2> USE DEF KeepsNowhere
  <2>1. task[h].item \in Contact
    <3>1. Op(task[h]) \in LostOps
      BY <1>4 DEF KeepNowhere, LostOps, Doing, Busy, Op
    <3> QED
      BY <1>0, <3>1 DEF ListsKept
  <2>2. PICK a \in User, x \in Contact, clear \in SUBSET Alias : KeepsNowhere(h, a, x, clear)
    BY <1>4, <2>1, KeepNowhereDoes
  <2> QED
    BY <1>0, <1>1, <2>2
<1>5. CASE AppendToken(h)
  <2> USE DEF AppendsToken
  <2>1. PICK a \in User, x \in Tokens : AppendsToken(h, a, x)
    BY <1>5, AppendDoes
  <2> QED
    BY <1>0, <1>1, <2>1
<1>6. CASE ClearDraft(h)
  <2> USE DEF ClearsMark
  <2>1. PICK a \in User, x \in Item \ (Tokens \cup Contact \cup Alias) : ClearsMark(h, a, x)
    BY <1>6, ClearDraftDoes
  <2> QED
    BY <1>0, <1>1, <2>1
<1>7. CASE Unregister(h)
  <2> USE DEF GivesBack
  <2>1. PICK a \in User, x \in Tokens : GivesBack(h, a, x)
    BY <1>7, UnregisterDoes
  <2>2. i \in Tokens => Copied(h, v, i)
    BY <2>1 DEF Copied, Holders
  <2> QED
    BY <1>0, <1>1, <2>1, <2>2
<1>8. CASE AssignTokens(h) \/ ReplaceTokens(h)
  <2> USE DEF ReplacesTokens
  <2>1. PICK a \in User : ReplacesTokens(h, a)
    BY <1>8, TokensReplaced
  <2>2. i \in Tokens => Copied(h, v, i)
    BY <2>1 DEF Copied, Holders
  <2>3. Op(task'[h]) \in {"append", "forgotten"}
    BY <2>1
  <2>4. ~ Copied(h, v, i)'
    BY <2>3 DEF Copied, Holders
  <2>5. kept'[v][i] = 0
    BY <1>0, <2>1, <2>2
  <2> QED
    BY <2>1, <2>4, <2>5, OutAfter, RestIsQuiet
<1>9. CASE CopyTokens(h)
  <2>1. /\ \A u \in User, x \in Tokens :
             task'[h].lists[u][x] = IF u = task[h].user THEN 0 ELSE kept[u][x]
        /\ Op(task'[h]) = "copied" /\ kept' = kept /\ Rest(h)
    BY <1>9, CopyTokensDoes DEF personalVars
  <2>2. Copied(h, v, i)' => task'[h].lists[v][i] = 0
    BY <1>0, <2>1 DEF Copied
  <2> QED
    BY <1>0, <2>1, <2>2, OutAfter, RestIsQuiet
<1>10. CASE CopyContacts(h)
  <2> USE DEF CopiesContacts
  <2>1. PICK a \in User : CopiesContacts(h, a)
    BY <1>10, CopyContactsDoes
  <2>2. kept'[v][i] = 0
    BY <1>0, <2>1
  <2>3. Copied(h, v, i)' => task'[h].lists[v][i] = 0
    BY <1>0, <2>1 DEF Copied, Holders
  <2>4. \A g \in Handler \ {h} : Quiet(g)
    BY <2>1, LostDoes DEF Quiet
  <2> QED
    BY <2>2, <2>3, <2>4, OutAfter
<1>11. CASE ReplaceContacts(h)
  <2>1. /\ Op(task[h]) = "listed" /\ task[h].owners \subseteq User
        /\ \A u \in User, x \in Item : kept'[u][x] = IF u \in task[h].owners /\ x \in Contact
                                                     THEN task[h].lists[u][x] ELSE kept[u][x]
        /\ Op(task'[h]) = "unlisted"
        /\ \A g \in Handler \ {h} : task'[g] = Lost(task[h].owners, g)
    BY <1>11, ReplaceContactsDoes
  <2>2. kept'[v][i] = 0
    BY <1>0, <2>1 DEF Copied
  <2>3. ~ Copied(h, v, i)'
    BY <2>1 DEF Copied, Holders
  <2>4. \A g \in Handler \ {h} : Quiet(g)
    BY <2>1, LostDoes DEF Quiet
  <2> QED
    BY <2>2, <2>3, <2>4, OutAfter
<1>12. CASE DeletionFails(h)
  BY <1>0, <1>1, <1>12, DeletionFailsDoes
<1>13. CASE PersonalAsks(h)
  <2>1. ASSUME NEW a \in User, NEW item \in Item, KeepRequest(h, a, item) \/ DropRequest(h, a, item)
        PROVE  Out(v, i)'
    <3>1. /\ kept' = kept /\ Op(task'[h]) \in {"keep", "drop"}
          /\ \A g \in Handler \ {h} : Quiet(g)
      <4>1. CASE KeepRequest(h, a, item)
        BY <4>1, KeepRequestDoes DEF personalVars, Quiet
      <4>2. CASE DropRequest(h, a, item)
        BY <4>2, DropRequestDoes, RestIsQuiet DEF personalVars
      <4> QED
        BY <2>1, <4>1, <4>2
    <3>2. ~ Copied(h, v, i)'
      BY <3>1 DEF Copied, Holders
    <3> QED
      BY <1>0, <3>1, <3>2, OutAfter
  <2>2. ASSUME NEW a \in User, NEW op \in {"register", "unregister"}, NEW item \in Tokens,
               TokenRequest(h, op, a, item)
        PROVE  Out(v, i)'
    <3>1. /\ kept' = kept /\ Op(task'[h]) = op /\ Rest(h)
          /\ \A u \in User, x \in Tokens : task'[h].lists[u][x] =
                IF u = a /\ (op # "unregister" \/ item = x) THEN 0 ELSE kept[u][x]
      BY <2>2, TokenRequestDoes DEF personalVars
    <3>2. Copied(h, v, i)' => task'[h].lists[v][i] = 0
      BY <1>0, <3>1 DEF Copied
    <3> QED
      BY <1>0, <3>1, <3>2, OutAfter, RestIsQuiet
  <2> QED
    BY <1>13, <2>1, <2>2 DEF PersonalAsks
<1> QED
  BY <1>2, <1>3, <1>4, <1>5, <1>6, <1>7, <1>8, <1>9, <1>10, <1>11, <1>12, <1>13
     DEF PersonalStep, PersonalSaves, Clears, PersonalGoesOn

\* Only a request that enters it makes an item turn up again.
LEMMA OutStays ==
    ASSUME TypeOK, PollInv, KeptInv, NEW h \in Handler, Step(h),
           NEW v \in User, NEW i \in Listed, Out(v, i),
           ~ (Op(task[h]) \in {"keep", "append"} /\ task[h].user = v /\ task[h].item = i)
    PROVE  Out(v, i)'
<1>1. CASE PersonalStep(h)
  BY <1>1, PersonalOut
<1>2. CASE ChatStep(h) \/ UploadStep(h) \/ PollStep(h)
  <2>1. UNCHANGED personalVars /\ \A g \in Handler : Quiet(g)
    BY <1>2, OthersQuiet
  <2> QED
    BY <2>1, QuietCopies DEF Out, personalVars
<1> QED
  BY <1>1, <1>2 DEF Step

--------------------------------------------------------------------------------
(* What an undisturbed deletion has cleared so far, and what is gone *)

NoKeep(u)  == \A g \in Handler : Op(task[g]) = "keep" => task[g].item # Entry(u)
NoPosts(u) == \A i \in DOMAIN posts : posts[i].sender # u
Alone(h)   == \A g \in Handler \ {h} : task[g] # None => task[g].user # task[h].user

Deleting == {SignedOut, "copied", "forgotten"} \cup Forgetting

\* The steps of a deletion whose user has no other request in flight, one after the
\* other: tokens, the user's contacts, those who list the user, messages.
Cleared(h, op) ==
    LET u == task[h].user
    IN  /\ Alone(h)
        /\ op \notin {SignedOut, "copied"} => \A i \in Tokens : Out(u, i)
        /\ op \in Forgetting => /\ NoKeep(u) /\ \A i \in Contact : Out(u, i)
                                /\ \A a \in User : \/ op = "listed" /\ a \in task[h].owners
                                                   \/ Out(a, Entry(u))
        /\ op = "walked" => NoPosts(u)

CleanInv == \A h \in Handler :
    (Op(task[h]) \in Deleting /\ task[h].clean /\ task[h].user \notin interfered)
        => Cleared(h, Op(task[h]))

\* What a request of a user whose account is gone may be at.
LeftOver == LostOps \cup {"keep", "drop", "register", "unregister", "append", "chunk", "post"}

NotInFile(u) ==
    /\ u \notin newest.users
    /\ \A i \in DOMAIN newest.posts : newest.posts[i].sender # u
    /\ u \notin returned => \A i \in Contact : newest.kept[u][i] = 0
    /\ \A a \in User : newest.kept[a][Entry(u)] = 0

Absent(u) ==
    /\ u \notin users /\ told[u] = "out"
    /\ \A g \in Handler : (task[g] # None /\ task[g].user = u) =>
            Op(task[g]) \in LeftOver /\ u \in returned
    /\ \A g \in Handler : Op(task[g]) = "add" => task[g].target # u
    /\ NoKeep(u) /\ NoPosts(u)
    /\ u \notin returned => \A i \in Listed : Out(u, i)
    /\ \A a \in User : Out(a, Entry(u))
    /\ NotInFile(u)

\* Inductive with MemberInv and KeptInv: what an undisturbed deletion has cleared stays
\* clear, and what is gone comes back from nowhere but a request of the user.
GoneInv == CleanInv /\ \A u \in gone \ interfered : Absent(u)

LEMMA DeletingApart ==
    \A op \in AskOps \cup {"sent", "confirmed", "idle", "keep", "drop", "register", "unregister",
                           "append"} \cup UploadOps \cup PollOps :
        op \notin Deleting
<1>1. \A op \in AskOps \cup {"sent", "confirmed", "idle", "keep", "drop", "register", "unregister",
                             "append"} \cup UploadOps \cup PollOps : op # SignedOut
  BY Zenon DEF SignedOut, AskOps, UploadOps, PollOps
<1> QED
  BY <1>1 DEF Deleting, AskOps, UploadOps, PollOps, Forgetting

LEMMA LostNotDeleting == \A op \in LostOps : op \notin Deleting /\ op # "keep" /\ op # "add"
  BY Zenon DEF LostOps, Deleting, SignedOut, Forgetting

LEMMA ChatRest == ASSUME TypeOK, NEW h \in Handler, ChatStep(h) PROVE Rest(h)
<1>1. CASE ChatAsks(h)
  BY <1>1, ChatAsksLeave DEF Rest
<1>2. CASE ChatGoesOn(h)
  BY <1>2, DropSessionsTask, RebuildTask, ReplaceTask DEF Rest, ChatGoesOn
<1>3. CASE ChatSaves(h)
  <2>1. PICK t : task' = [task EXCEPT ![h] = t]
    BY <1>3 DEF ChatSaves, Send, AddParticipant, RemoveParticipant, SetRole, DropUser, Ends
  <2> QED
    BY <2>1 DEF Rest, TypeOK
<1> QED
  BY <1>1, <1>2, <1>3 DEF ChatStep

LEMMA UploadRest == ASSUME TypeOK, NEW h \in Handler, UploadStep(h) PROVE Rest(h)
<1>1. ASSUME NEW i \in DOMAIN uploads, CompleteRequest(h, i) PROVE Rest(h)
  BY <1>1, CompleteTask DEF Rest
<1>2. CASE (UploadAsks(h) \/ UploadGoesOn(h)) /\ ~ (\E i \in DOMAIN uploads : CompleteRequest(h, i))
  BY <1>2, UploadKeepsPosts DEF Rest
<1>3. CASE PostAttachment(h)
  BY <1>3, PostTask DEF Rest
<1>4. CASE SendAttachment(h)
  BY <1>4 DEF SendAttachment, Ends, Rest, TypeOK
<1> QED
  BY <1>1, <1>2, <1>3, <1>4 DEF UploadStep

LEMMA PollRest == ASSUME TypeOK, NEW h \in Handler, PollStep(h) PROVE Rest(h)
<1>1. CASE PollAsks(h)
  <2>1. PICK t : Starts(h, t)
    BY <1>1 DEF PollAsks, CreateRequest, VoteRequest, CloseRequest
  <2> QED
    BY <2>1 DEF Starts, Rest, TypeOK
<1>2. CASE CreatePoll(h) \/ CountVote(h) \/ AnnounceResult(h)
  <2>1. Ends(h)
    BY <1>2 DEF CreatePoll, CountVote, AnnounceResult
  <2> QED
    BY <2>1 DEF Ends, Rest, TypeOK
<1>3. CASE ClosePoll(h)
  BY <1>3 DEF ClosePoll, Rest, TypeOK
<1> QED
  BY <1>1, <1>2, <1>3 DEF PollStep

\* A step of another handler leaves a request alone, spoils a deletion or loses a list.
StaysPut(g) == task'[g] = task[g] \/ Spoilt(g) \/ LosesList(g)

LEMMA PersonalOthers ==
    ASSUME TypeOK, KeptInv, NEW h \in Handler, PersonalStep(h)
    PROVE  \A g \in Handler \ {h} : StaysPut(g)
<1>1. CASE PersonalAsks(h)
  BY <1>1, KeepRequestDoes, DropRequestDoes, TokenRequestDoes DEF PersonalAsks, Rest, StaysPut
<1>2. CASE PersonalSaves(h) \/ Clears(h) \/ DeletionFails(h)
  <2>1. Ends(h)
    BY <1>2, KeepIsKeeps DEF PersonalSaves, Clears, Keeps, Drop, KeepNowhere, AppendToken,
                             ClearDraft, Unregister, DeletionFails
  <2> QED
    BY <2>1 DEF Ends, TypeOK, StaysPut
<1>3. CASE CopyTokens(h)
  BY <1>3, CopyTokensDoes DEF Rest, StaysPut
<1>4. CASE AssignTokens(h) \/ ReplaceTokens(h)
  <2> USE DEF ReplacesTokens
  <2>1. PICK a \in User : ReplacesTokens(h, a)
    BY <1>4, TokensReplaced
  <2> QED
    BY <2>1 DEF Rest, StaysPut
<1>5. CASE CopyContacts(h) \/ ReplaceContacts(h)
  <2>1. \E owners : \A g \in Handler \ {h} : task'[g] = Lost(owners, g)
    <3>1. CASE CopyContacts(h)
      <4> USE DEF CopiesContacts
      <4>1. PICK a \in User : CopiesContacts(h, a)
        BY <3>1, CopyContactsDoes
      <4> QED
        BY <4>1
    <3>2. CASE ReplaceContacts(h)
      BY <3>2, ReplaceContactsDoes
    <3> QED
      BY <1>5, <3>1, <3>2
  <2> QED
    BY <2>1, LostDoes DEF StaysPut
<1> QED
  BY <1>1, <1>2, <1>3, <1>4, <1>5 DEF PersonalStep, PersonalGoesOn

LEMMA StepOthers ==
    ASSUME TypeOK, KeptInv, NEW h \in Handler, Step(h)
    PROVE  \A g \in Handler \ {h} : StaysPut(g)
  BY ChatRest, UploadRest, PollRest, PersonalOthers DEF Step, Rest, StaysPut

LEMMA ComesIsRecorded ==
    ASSUME NEW u \in User, Comes(u)
    PROVE  /\ (\E h \in Handler : Op(task[h]) \in Deleting /\ task[h].user = u) => u \in interfered'
           /\ u \notin users => u \in returned'
<1>1. {"signed out", "copied", "forgotten"} \cup Forgetting = Deleting
  BY Zenon DEF Deleting, SignedOut
<1>2. \A h \in Handler : h \in Busy /\ task[h].op \in Deleting /\ task[h].user = u => SignedOutFor(h, u)
  BY <1>1, Zenon DEF SignedOutFor
<1>3. ASSUME NEW h \in Handler, Op(task[h]) \in Deleting, task[h].user = u PROVE SignedOutFor(h, u)
  <2>1. task[h] # None
    BY <1>3, DeletingApart DEF Op
  <2> QED
    BY <1>2, <1>3, <2>1 DEF Op, Busy
<1> QED
  BY <1>3 DEF Comes

LEMMA GoesOnBusy == ASSUME NEW h \in Handler, Saves(h) \/ Continues(h) PROVE task[h] # None
<1>1. \A op : h \in Doing(op) => task[h] # None
  BY DEF Doing, Busy
<1>2. CASE \/ Send(h) \/ AddParticipant(h) \/ RemoveParticipant(h) \/ SetRole(h) \/ DropUser(h)
           \/ DropSessions(h) \/ RebuildParticipants(h) \/ ReplaceParticipants(h)
  BY <1>1, <1>2 DEF Send, AddParticipant, RemoveParticipant, SetRole, DropUser, DropSessions,
                    RebuildParticipants, ReplaceParticipants
<1>3. CASE \/ PostAttachment(h) \/ SendAttachment(h) \/ InitUpload(h) \/ AcceptChunk(h)
           \/ ReleaseUpload(h) \/ CreatePoll(h) \/ CountVote(h) \/ ClosePoll(h) \/ AnnounceResult(h)
  BY <1>1, <1>3 DEF PostAttachment, SendAttachment, InitUpload, AcceptChunk, ReleaseUpload,
                    CreatePoll, CountVote, ClosePoll, AnnounceResult
<1>4. CASE Keep(h)
  BY <1>1, <1>4 DEF Keep, AddContact, NameContact, Block, SaveDraft, SetFlag, Mute, Keeps
<1>5. CASE \/ Drop(h) \/ KeepNowhere(h) \/ AppendToken(h) \/ ClearDraft(h) \/ Unregister(h)
           \/ AssignTokens(h) \/ CopyTokens(h) \/ ReplaceTokens(h) \/ CopyContacts(h)
           \/ ReplaceContacts(h) \/ DeletionFails(h)
  BY <1>1, <1>5 DEF Drop, KeepNowhere, AppendToken, ClearDraft, Unregister, AssignTokens,
                    CopyTokens, ReplaceTokens, CopyContacts, ReplaceContacts, DeletionFails
<1> QED
  BY <1>2, <1>3, <1>4, <1>5 DEF Saves, Continues

\* A request of a user that is new is recorded, and no record is lost.
Recorded(g) == \A u \in User :
    (task[g] = None /\ task'[g] # None /\ task'[g].user = u) =>
        /\ (\E h \in Handler : Op(task[h]) \in Deleting /\ task[h].user = u) => u \in interfered'
        /\ u \notin users => u \in returned'

RecordsGrow == interfered \subseteq interfered' /\ returned \subseteq returned'

LEMMA StepRecords ==
    ASSUME TypeOK, KeptInv, NEW h \in Handler, Requests(h) \/ Saves(h) \/ Continues(h)
    PROVE  Step(h) /\ RecordsGrow /\ \A g \in Handler : Recorded(g)
<1>1. Step(h)
  BY RequestIsStep, SaveIsStep, GoOnIsStep DEF TypeOK
<1>2. RecordsGrow
  BY DEF Requests, Comes, Saves, Continues, RecordsGrow
<1>3. ASSUME NEW g \in Handler \ {h}, task[g] = None PROVE task'[g] = None
  <2>1. Op(task[g]) = "idle"
    BY <1>3 DEF Op
  <2>2. ~ Spoilt(g)
    BY <2>1 DEF Spoilt, Forgetting
  <2>3. ~ LosesList(g)
    BY <2>1 DEF LosesList
  <2> QED
    BY <1>1, <1>3, <2>2, <2>3, StepOthers DEF StaysPut
<1>4. Recorded(h)
  <2>1. CASE Requests(h)
    <3>1. ASSUME NEW u \in User, task'[h].user = u PROVE Comes(u)
      BY <2>1, <3>1 DEF Requests
    <3> QED
      BY <3>1, ComesIsRecorded DEF Recorded
  <2>2. CASE Saves(h) \/ Continues(h)
    BY <2>2, GoesOnBusy DEF Recorded
  <2> QED
    BY <2>1, <2>2
<1> QED
  BY <1>1, <1>2, <1>3, <1>4 DEF Recorded

LEMMA OneKeep ==
    ASSUME TypeOK, NEW g \in Handler, StaysPut(g), Op(task'[g]) = "keep"
    PROVE  task'[g] = task[g]
<1>1. Spoilt(g) => Op(task'[g]) \in Forgetting
  BY SpoiltFields DEF Spoilt
<1>2. "keep" \notin Forgetting
  BY DEF Forgetting
<1> QED
  BY <1>1, <1>2, LostNotDeleting DEF StaysPut, LosesList

LEMMA OnlyContacts == \A i \in Contact : i \notin Alias \cup Blocked \cup Mark \cup Muted
<1>1. \A i \in Contact : i[1] = "contact"
  BY DEF Contact
<1>2. \A i \in Alias \cup Blocked \cup Mark \cup Muted : i[1] # "contact"
  BY DEF Alias, Blocked, Mark, Muted
<1> QED
  BY <1>1, <1>2

\* Nobody begins to enter a user as a contact unless the user is one, and a deletion
\* that has looked for the entries is spoilt by it.
LEMMA NoKeepStays ==
    ASSUME TypeOK, PollInv, KeptInv, NEW h \in Handler, Step(h), NEW u \in User, NoKeep(u)
    PROVE  \/ NoKeep(u)'
           \/ /\ u \in users
              /\ \A g \in Handler : Op(task[g]) \in Forgetting /\ task[g].user = u
                    => Spoilt(g)
<1>0. \A g \in Handler \ {h} : Op(task'[g]) = "keep" => task'[g] = task[g]
  BY StepOthers, OneKeep
<1>1. ASSUME Op(task'[h]) # "keep" PROVE NoKeep(u)'
  BY <1>0, <1>1 DEF NoKeep
<1>2. CASE ChatStep(h) \/ UploadStep(h) \/ PollStep(h)
  <2>1. Op(task'[h]) = "keep" => Op(task[h]) = "keep" /\ task'[h].item = task[h].item
    <3>1. Quiet(h)
      BY <1>2, OthersQuiet
    <3>2. "keep" \in PersonalOps
      BY DEF PersonalOps
    <3> QED
      BY <3>1, <3>2, OneKeep DEF Quiet, StaysPut
  <2> QED
    BY <1>0, <2>1 DEF NoKeep
<1>3. CASE PersonalSaves(h) \/ Clears(h) \/ DeletionFails(h)
  <2>1. Ends(h)
    BY <1>3, KeepIsKeeps DEF PersonalSaves, Clears, Keeps, Drop, KeepNowhere, AppendToken,
                             ClearDraft, Unregister, DeletionFails
  <2>2. task'[h] = None
    BY <2>1 DEF Ends, TypeOK
  <2> QED
    BY <1>1, <2>2 DEF Op
<1>4. CASE CopyTokens(h)
  BY <1>1, <1>4, CopyTokensDoes
<1>5. CASE AssignTokens(h) \/ ReplaceTokens(h)
  <2> USE DEF ReplacesTokens
  <2>1. PICK a \in User : ReplacesTokens(h, a)
    BY <1>5, TokensReplaced
  <2> QED
    BY <1>1, <2>1
<1>6. CASE CopyContacts(h)
  <2> USE DEF CopiesContacts
  <2>1. PICK a \in User : CopiesContacts(h, a)
    BY <1>6, CopyContactsDoes
  <2> QED
    BY <1>1, <2>1
<1>7. CASE ReplaceContacts(h)
  BY <1>1, <1>7, ReplaceContactsDoes
<1>8. ASSUME NEW a \in User, NEW item \in Item, KeepRequest(h, a, item), ~ NoKeep(u)'
      PROVE  /\ u \in users
             /\ \A g \in Handler : Op(task[g]) \in Forgetting /\ task[g].user = u
                    => Spoilt(g)
  <2>1. MayKeep(a, item) /\ task'[h].item = item
    BY <1>8, KeepRequestDoes
  <2>2. item \in Contact => \A g \in Handler :
              Op(task[g]) \in Forgetting /\ task[g].user = item[2] => Spoilt(g)
    BY <1>8, KeepRequestDoes
  <2>3. item = Entry(u)
    BY <1>0, <1>8, <2>1 DEF NoKeep
  <2>4. item \in Contact /\ item[2] = u
    BY <2>3, EntryIs
  <2>5. item[2] \in users
    BY <2>1, <2>4, OnlyContacts DEF MayKeep
  <2> QED
    BY <2>4, <2>5, <2>2
<1>9. CASE PersonalAsks(h)
  <2>1. ASSUME NEW a \in User, NEW item \in Item, DropRequest(h, a, item) PROVE NoKeep(u)'
    BY <1>1, <2>1, DropRequestDoes
  <2>2. ASSUME NEW a \in User, NEW op \in {"register", "unregister"}, NEW item \in Tokens,
               TokenRequest(h, op, a, item)
        PROVE  NoKeep(u)'
    BY <1>1, <2>2, TokenRequestDoes
  <2> QED
    BY <1>8, <1>9, <2>1, <2>2 DEF PersonalAsks
<1> QED
  BY <1>2, <1>3, <1>4, <1>5, <1>6, <1>7, <1>9 DEF Step, PersonalStep, PersonalGoesOn

LEMMA NoPostsTombstoned ==
    ASSUME TypeOK, NEW v \in User, posts' = Tombstoned(v), NEW u \in User
    PROVE  NoPosts(v)' /\ (NoPosts(u) => NoPosts(u)')
<1>1. posts \in Seq(Post) /\ Tombstone \notin User
  BY GroupChatAssumption DEF TypeOK
<1>2. /\ DOMAIN posts' = DOMAIN posts
      /\ \A i \in DOMAIN posts :
            posts'[i].sender = IF posts[i].sender = v THEN Tombstone ELSE posts[i].sender
  BY <1>1, TombstonedTyped
<1> QED
  BY <1>1, <1>2 DEF NoPosts

LEMMA NoPostsAppended ==
    ASSUME TypeOK, NEW n \in Nat, NEW s \in User, NEW x \in Nat,
           posts' = Append(posts, [id |-> n, sender |-> s, attachment |-> x]),
           NEW u \in User, NoPosts(u), s # u
    PROVE  NoPosts(u)'
<1> DEFINE p == [id |-> n, sender |-> s, attachment |-> x]
<1>1. posts \in Seq(Post) /\ p \in Post /\ p.sender = s
  BY DEF TypeOK, Post
<1> HIDE DEF p
<1>2. posts' = Append(posts, p)
  BY DEF p
<1>3. /\ DOMAIN posts' = DOMAIN posts \cup {Len(posts) + 1}
      /\ \A i \in DOMAIN posts : posts'[i] = posts[i]
      /\ posts'[Len(posts) + 1] = p
  BY <1>1, <1>2, Appended
<1> QED
  BY <1>1, <1>3 DEF NoPosts

LEMMA LeftOverApart ==
    /\ \A op \in ChatOps \cup PollOps \cup {"attach", "begin", "release", "idle"} : op \notin LeftOver
    /\ \A op \in Deleting : op \notin LeftOver
    /\ LostOps \subseteq LeftOver
<1>1. \A op \in ChatOps \cup PollOps \cup {"attach", "begin", "release", "idle"} : op \notin LeftOver
  BY Zenon DEF LeftOver, LostOps, ChatOps, AskOps, DeleteOps, PollOps
<1>2. \A op \in Deleting : op \notin LeftOver
  BY Zenon DEF LeftOver, LostOps, Deleting, SignedOut, Forgetting
<1> QED
  BY <1>1, <1>2 DEF LeftOver

\* Only a request of the user makes the user the sender of a message.
LEMMA NoPostsStays ==
    ASSUME TypeOK, NEW h \in Handler, Step(h), NEW u \in User, NoPosts(u),
           \/ task[h] = None \/ task[h].user # u \/ Op(task[h]) \in Deleting
           \/ Op(task[h]) \in LeftOver /\ ~ Member(u)
    PROVE  NoPosts(u)'
<1>1. ASSUME posts' = posts PROVE NoPosts(u)'
  BY <1>1 DEF NoPosts
<1>2. ASSUME NEW op \in {"send", "attach", "poll"}, h \in Doing(op)
      PROVE  task[h].user \in User \ {u}
  <2>1. task[h] # None /\ task[h].user \in User /\ Op(task[h]) = op
    BY <1>2, DoingFields
  <2>2. op \notin Deleting /\ op \notin LeftOver
    BY <1>2, DeletingApart, LeftOverApart DEF AskOps, UploadOps, PollOps, ChatOps
  <2> QED
    BY <2>1, <2>2
<1>3. CASE ChatStep(h)
  <2>1. ChatAsks(h) \/ ChatGoesOn(h) \/ ChatSaves(h)
    BY <1>3 DEF ChatStep
  <2>2. ASSUME NEW a \in User, SendRequest(h, a) PROVE NoPosts(u)'
    BY <1>1, <2>2 DEF SendRequest
  <2>3. CASE Send(h)
    <3>1. /\ h \in Doing("send")
          /\ posts' = Append(posts, [id |-> task[h].id, sender |-> task[h].user, attachment |-> 0])
      BY <2>3 DEF Send
    <3>2. task[h].id \in Nat
      BY <3>1, DoingFields DEF AskOps
    <3> QED
      BY <1>2, <3>1, <3>2, NoPostsAppended
  <2>4. CASE ~ (\E a \in User : SendRequest(h, a)) /\ ~ Send(h)
    <3>1. posts' = posts \/ \E v \in User : posts' = Tombstoned(v)
      BY <2>1, <2>4, ChatKeepsPosts
    <3> QED
      BY <1>1, <3>1, NoPostsTombstoned
  <2> QED
    BY <2>2, <2>3, <2>4
<1>4. CASE UploadStep(h)
  <2>1. ASSUME NEW i \in DOMAIN uploads, CompleteRequest(h, i) PROVE NoPosts(u)'
    BY <1>1, <2>1 DEF CompleteRequest
  <2>2. CASE (UploadAsks(h) \/ UploadGoesOn(h)) /\ ~ (\E i \in DOMAIN uploads : CompleteRequest(h, i))
    BY <1>1, <2>2, UploadKeepsPosts
  <2>3. CASE PostAttachment(h)
    <3>1. /\ Op(task[h]) = "post" /\ task[h].user \in User
          /\ task[h].id \in Nat /\ task[h].attachment \in Nat
          /\ \/ /\ posts' = Append(posts, [id |-> task[h].id, sender |-> task[h].user,
                                           attachment |-> task[h].attachment])
                /\ Member(task[h].user)
             \/ posts' = posts
      BY <2>3, PostTask
    <3>2. Member(task[h].user) => task[h].user # u
      BY <3>1, DeletingApart, OpIsRequest DEF UploadOps
    <3> QED
      BY <1>1, <3>1, <3>2, NoPostsAppended
  <2>4. CASE SendAttachment(h)
    <3>1. /\ h \in Doing("attach")
          /\ posts' = Append(posts, [id |-> nextPost, sender |-> task[h].user,
                                     attachment |-> Len(attachments) + 1])
      BY <2>4 DEF SendAttachment
    <3>2. nextPost \in Nat /\ Len(attachments) + 1 \in Nat
      BY DEF TypeOK, UploadsTypeOK
    <3> QED
      BY <1>2, <3>1, <3>2, NoPostsAppended
  <2> QED
    BY <1>4, <2>1, <2>2, <2>3, <2>4 DEF UploadStep
<1>5. CASE PollStep(h)
  <2>1. CASE CreatePoll(h)
    <3>1. /\ h \in Doing("poll")
          /\ posts' = Append(posts, [id |-> PollId, sender |-> task[h].user, attachment |-> 0])
      BY <2>1 DEF CreatePoll
    <3> QED
      BY <1>2, <3>1, NoPostsAppended DEF PollId
  <2>2. CASE ~ CreatePoll(h)
    BY <1>1, <1>5, <2>2 DEF PollStep, PollAsks, CreateRequest, VoteRequest, CloseRequest,
                            AnnounceResult, CountVote, ClosePoll
  <2> QED
    BY <2>1, <2>2
<1>6. CASE PersonalStep(h)
  BY <1>1, <1>6, PersonalLeaves DEF conversationVars
<1> QED
  BY <1>3, <1>4, <1>5, <1>6 DEF Step

LEMMA EntryStays ==
    ASSUME TypeOK, PollInv, KeptInv, NEW k \in Handler, Step(k),
           NEW u \in User, NEW a \in User, NoKeep(u), Out(a, Entry(u))
    PROVE  Out(a, Entry(u))'
<1>1. Entry(u) \in Contact /\ Entry(u) \in Listed /\ Entry(u) \notin Tokens
  BY EntryIs, ListedItems DEF Listed
<1>2. Op(task[k]) = "keep" => task[k].item # Entry(u)
  BY DEF NoKeep
<1>3. Op(task[k]) = "append" => task[k].item # Entry(u)
  BY <1>1, TaskFields, OpIsRequest
<1> QED
  BY <1>1, <1>2, <1>3, OutStays

\* What a clean deletion has cleared stays so, whoever makes a step.
LEMMA ClearedStays ==
    ASSUME TypeOK, PollInv, KeptInv, NEW h \in Handler, NEW k \in Handler, Step(k),
           Op(task[h]) \in Deleting, Alone(h), NEW u, task[h].user = u,
           task'[h].user = u, task'[h].clean, u \notin interfered',
           \A g \in Handler : Recorded(g)
    PROVE  /\ u \in User /\ Alone(h)'
           /\ \A i \in Listed : Out(u, i) => Out(u, i)'
           /\ Op(task[h]) \in Forgetting /\ NoKeep(u) => NoKeep(u)'
           /\ \A a \in User : NoKeep(u) /\ Out(a, Entry(u)) => Out(a, Entry(u))'
           /\ NoPosts(u) => NoPosts(u)'
<1>1. task[h] # None
  <2>1. Op(task[h]) # "idle"
    BY DeletingApart
  <2> QED
    BY <2>1, OpIsRequest
<1>2. u \in User
  BY <1>1, TaskFields
<1>3. task[k] = None \/ task[k].user # u \/ Op(task[k]) \in Deleting
  BY DEF Alone
<1>4. Alone(h)'
  <2>1. ASSUME NEW g \in Handler \ {h}, task'[g] # None PROVE task'[g].user # u
    <3>1. SameUser(g) /\ Recorded(g)
      BY StepSameUser
    <3> QED
      BY <1>1, <1>2, <2>1, <3>1 DEF SameUser, Recorded, Alone
  <2> QED
    BY <2>1 DEF Alone
<1>5. ASSUME NEW i \in Listed, Out(u, i) PROVE Out(u, i)'
  <2>1. Op(task[k]) \in {"keep", "append"} => task[k] # None /\ Op(task[k]) \notin Deleting
    BY OpIsRequest, DeletingApart
  <2> QED
    BY <1>2, <1>3, <1>5, <2>1, OutStays
<1>6. ASSUME Op(task[h]) \in Forgetting, NoKeep(u) PROVE NoKeep(u)'
  <2>1. Spoilt(h) => ~ task'[h].clean
    BY SpoiltFields
  <2> QED
    BY <1>2, <1>6, <2>1, NoKeepStays
<1>7. ASSUME NEW a \in User, NoKeep(u), Out(a, Entry(u)) PROVE Out(a, Entry(u))'
  BY <1>2, <1>7, EntryStays
<1>8. ASSUME NoPosts(u) PROVE NoPosts(u)'
  BY <1>2, <1>3, <1>8, NoPostsStays
<1> QED
  BY <1>2, <1>4, <1>5, <1>6, <1>7, <1>8

LEMMA ListedParts == Tokens \subseteq Listed /\ Contact \subseteq Listed
                     /\ \A u \in User : Entry(u) \in Contact /\ Entry(u) \notin Tokens
  BY EntryIs, ListedItems DEF Listed

\* A step of another handler leaves a deletion where it is, or spoils it.
LEMMA ClearedByOthers ==
    ASSUME TypeOK, PollInv, KeptInv, NEW h \in Handler, NEW k \in Handler, Step(k),
           Op(task[h]) \in Deleting, task[h].clean, task'[h] = task[h],
           Cleared(h, Op(task[h])), task[h].user \notin interfered',
           \A g \in Handler : Recorded(g)
    PROVE  Cleared(h, Op(task[h]))'
<1>1. Alone(h)
  BY DEF Cleared
<1> QED
  BY <1>1, ClearedStays, ListedParts DEF Cleared

LEMMA SendTask == ASSUME TypeOK, NEW h \in Handler, Send(h) PROVE Op(task'[h]) = "sent"
<1> DEFINE t == [op |-> "sent", user |-> task[h].user]
<1>1. h \in Doing("send") /\ task' = [task EXCEPT ![h] = t]
  BY DEF Send
<1>2. task[h].user \in User
  BY <1>1, DoingFields
<1>3. t \in AnyTask /\ t.op = "sent"
  BY <1>2 DEF AnyTask, Task
<1> HIDE DEF t
<1>4. Op(t) = "sent"
  BY <1>3, NoneIsNoRequest DEF Op
<1> QED
  BY <1>1, <1>4 DEF TypeOK

\* The steps of a deletion.
Deletes(h) == \/ DropSessions(h) \/ CopyTokens(h) \/ ReplaceTokens(h)
              \/ CopyContacts(h) \/ ReplaceContacts(h)
              \/ RebuildParticipants(h) \/ ReplaceParticipants(h)

LEMMA NoOtherDeletes ==
    ASSUME TypeOK, KeptInv, NEW h \in Handler, Step(h), Op(task'[h]) \in Deleting
    PROVE  Deletes(h)
<1>1. ASSUME task'[h] = None PROVE FALSE
  BY <1>1, DeletingApart DEF Op
<1>2. CASE ChatStep(h)
  <2>1. ~ ChatAsks(h)
    BY ChatAsksLeave, DeletingApart
  <2>2. ~ Send(h)
    BY SendTask, DeletingApart
  <2>3. ~ (AddParticipant(h) \/ RemoveParticipant(h) \/ SetRole(h) \/ DropUser(h))
    BY <1>1 DEF AddParticipant, RemoveParticipant, SetRole, DropUser, Ends, TypeOK
  <2> QED
    BY <1>2, <2>1, <2>2, <2>3 DEF ChatStep, ChatSaves, ChatGoesOn, Deletes
<1>3. CASE UploadStep(h)
  <2>1. ASSUME NEW i \in DOMAIN uploads, CompleteRequest(h, i) PROVE FALSE
    BY <2>1, CompleteTask, DeletingApart DEF UploadOps
  <2>2. CASE (UploadAsks(h) \/ UploadGoesOn(h)) /\ ~ (\E i \in DOMAIN uploads : CompleteRequest(h, i))
    BY <2>2, UploadKeepsPosts, DeletingApart DEF UploadOps
  <2>3. CASE PostAttachment(h)
    BY <1>1, <2>3, PostTask, DeletingApart DEF UploadOps
  <2>4. CASE SendAttachment(h)
    BY <1>1, <2>4 DEF SendAttachment, Ends, TypeOK
  <2> QED
    BY <1>3, <2>1, <2>2, <2>3, <2>4 DEF UploadStep
<1>4. CASE PollStep(h)
  <2>1. ASSUME NEW a \in User, CreateRequest(h, a) \/ CloseRequest(h, a) PROVE FALSE
    <3>1. PICK op \in {"poll", "close"} : Starts(h, [op |-> op, user |-> a])
      BY <2>1 DEF CreateRequest, CloseRequest
    <3> DEFINE t == [op |-> op, user |-> a]
    <3>2. t \in AnyTask /\ t.op = op
      BY DEF AnyTask, PollTask
    <3> HIDE DEF t
    <3>3. Op(task'[h]) = op
      BY <3>1, <3>2, StartMoves DEF t, Becomes
    <3> QED
      BY <3>3, DeletingApart DEF PollOps
  <2>2. ASSUME NEW a \in User, NEW option \in Option, VoteRequest(h, a, option) PROVE FALSE
    <3> DEFINE t == [op |-> "vote", user |-> a, option |-> option]
    <3>1. Starts(h, t) /\ t \in AnyTask /\ t.op = "vote"
      BY <2>2 DEF VoteRequest, AnyTask, PollTask
    <3> HIDE DEF t
    <3>2. Op(task'[h]) = "vote"
      BY <3>1, StartMoves DEF Becomes
    <3> QED
      BY <3>2, DeletingApart DEF PollOps
  <2>3. CASE ClosePoll(h)
    <3>1. h \in Doing("close")
      BY <2>3 DEF ClosePoll
    <3>2. task[h] \in AnyTask /\ task[h].op = "close"
      BY <3>1, DoingFields
    <3> DEFINE t == [task[h] EXCEPT !.op = "announce"]
    <3>3. task[h] \in [op : {"poll", "close", "announce"}, user : User]
      BY <3>2 DEF AnyTask, Task, UploadTask, PollTask, PersonalTask
    <3>4. t \in AnyTask /\ t.op = "announce" /\ task' = [task EXCEPT ![h] = t]
      BY <2>3, <3>3 DEF ClosePoll, AnyTask, PollTask, TypeOK
    <3> HIDE DEF t
    <3>5. Op(task'[h]) = "announce"
      BY <3>4, NoneIsNoRequest DEF Op, TypeOK
    <3> QED
      BY <3>5, DeletingApart DEF PollOps
  <2>4. CASE CreatePoll(h) \/ CountVote(h) \/ AnnounceResult(h)
    BY <1>1, <2>4 DEF CreatePoll, CountVote, AnnounceResult, Ends, TypeOK
  <2> QED
    BY <1>4, <2>1, <2>2, <2>3, <2>4 DEF PollStep, PollAsks
<1>5. CASE PersonalStep(h)
  <2>1. ~ PersonalAsks(h)
    BY KeepRequestDoes, DropRequestDoes, TokenRequestDoes, DeletingApart DEF PersonalAsks
  <2>2. CASE PersonalSaves(h) \/ Clears(h) \/ DeletionFails(h)
    <3>1. Ends(h)
      BY <2>2, KeepIsKeeps DEF PersonalSaves, Clears, Keeps, Drop, KeepNowhere, AppendToken,
                               ClearDraft, Unregister, DeletionFails
    <3> QED
      BY <1>1, <3>1 DEF Ends, TypeOK
  <2>3. CASE AssignTokens(h)
    <3> USE DEF ReplacesTokens
    <3>1. PICK a \in User : ReplacesTokens(h, a)
      BY <2>3, TokensReplaced
    <3> QED
      BY <2>3, <3>1, DeletingApart
  <2> QED
    BY <1>5, <2>1, <2>2, <2>3 DEF PersonalStep, PersonalGoesOn, Deletes
<1> QED
  BY <1>2, <1>3, <1>4, <1>5 DEF Step

LEMMA DeletionOrder ==
    /\ SignedOut \notin Forgetting /\ SignedOut # "walked" /\ SignedOut # "forgotten"
    /\ "copied" \notin Forgetting /\ "forgotten" \notin Forgetting
    /\ Forgetting \subseteq Deleting \ {SignedOut, "copied"}
    /\ SignedOut \in Deleting /\ "copied" \in Deleting /\ "forgotten" \in Deleting
<1>1. SignedOut \notin Forgetting /\ SignedOut # "walked" /\ SignedOut # "forgotten"
  BY Zenon DEF SignedOut, Forgetting
<1> QED
  BY <1>1 DEF Forgetting, Deleting

LEMMA NotAssigned == ASSUME TypeOK, NEW h \in Handler, ReplaceTokens(h) PROVE ~ AssignTokens(h)
<1>1. Op(task[h]) = "copied"
  BY DoingFields DEF ReplaceTokens
<1> QED
  BY <1>1, DoingFields DEF AssignTokens

\* A deletion that is clean after a step was clean before it, unless it begins.
LEMMA StaysClean ==
    ASSUME TypeOK, NEW h \in Handler, Deletes(h), task'[h].clean, ~ DropSessions(h)
    PROVE  Op(task[h]) \in Deleting /\ task[h].clean /\ task'[h].user = task[h].user
<1>1. CASE CopyTokens(h)
  BY <1>1, CopyTokensDoes, DeletionOrder
<1>2. CASE ReplaceTokens(h)
  <2>1. ~ AssignTokens(h)
    BY <1>2, NotAssigned
  <2> USE DEF ReplacesTokens
  <2>2. PICK a \in User : ReplacesTokens(h, a)
    BY <1>2, TokensReplaced
  <2> QED
    BY <1>2, <2>1, <2>2, DeletionOrder
<1>3. CASE CopyContacts(h)
  <2> USE DEF CopiesContacts
  <2>1. PICK a \in User : CopiesContacts(h, a)
    BY <1>3, CopyContactsDoes
  <2> QED
    BY <2>1, DeletionOrder
<1>4. CASE ReplaceContacts(h)
  BY <1>4, ReplaceContactsDoes, DeletionOrder DEF Forgetting
<1>5. CASE RebuildParticipants(h)
  BY <1>5, RebuildTask, DeletionOrder DEF Forgetting
<1>6. CASE ReplaceParticipants(h)
  BY <1>6, ReplaceTask, DeletionOrder DEF Forgetting
<1> QED
  BY <1>1, <1>2, <1>3, <1>4, <1>5, <1>6 DEF Deletes

\* The device's tokens: no other handler holds a list that they may be in.
LEMMA TokensCleared ==
    ASSUME TypeOK, KeptInv, NEW h \in Handler, ReplaceTokens(h), task'[h].clean,
           NEW u, task[h].user = u
    PROVE  Op(task'[h]) = "forgotten" /\ \A i \in Tokens : Out(u, i)'
<1> USE DEF ReplacesTokens
<1>1. ~ AssignTokens(h)
  BY NotAssigned
<1>2. u \in User /\ ReplacesTokens(h, u)
  BY TokensReplaced
<1>3. ASSUME NEW i \in Tokens PROVE Out(u, i)'
  <2>1. i \in Item /\ i \in Listed /\ i \notin Contact
    BY ListedItems DEF Listed
  <2>2. Copied(h, u, i) /\ TakesOut(h, u, i)
    BY <1>1, <1>2 DEF Copied, Holders, TakesOut
  <2>3. kept'[u][i] = 0
    <3>1. task[h].lists[u][i] = 0
      BY <1>2, <2>1, <2>2 DEF KeptInv, ListsKept
    <3> QED
      BY <1>2, <2>1, <3>1
  <2>4. ASSUME NEW g \in Handler, Copied(g, u, i)' PROVE FALSE
    <3>1. Op(task'[g]) \in Holders
      BY <2>1, <2>4 DEF Copied
    <3>2. g # h
      BY <1>1, <1>2, <3>1 DEF Holders
    <3>3. Copied(g, u, i)
      BY <1>2, <3>1, <3>2 DEF Rest, Copied
    <3> QED
      BY <1>2, <2>1, <3>2, <3>3, CopiedToldUnclear
  <2> QED
    BY <2>3, <2>4 DEF Out
<1> QED
  BY <1>1, <1>2, <1>3

\* No other deletion holds a list, so that nobody's list that is held has the entry.
LEMMA HeldByNobody ==
    ASSUME NEW h \in Handler, NEW u \in User, AtContactsAlone(h, Entry(u)),
           NEW g \in Handler \ {h}, NEW a \in User, NEW i \in Contact
    PROVE  ~ Copied(g, a, i)
<1>1. ~ WillReplace(h, a, Entry(u)) /\ Entry(u) \in Contact
  BY EntryIs DEF AtContactsAlone
<1>2. i \notin Tokens
  BY ListedItems
<1>3. ASSUME Op(task[g]) = "listed", a \in task[g].owners PROVE WillReplace(h, a, Entry(u))
  <2>1. g \in Busy \ {h} /\ task[g].op = "listed"
    BY <1>3 DEF Op, Busy
  <2> QED
    BY <1>1, <1>3, <2>1 DEF WillReplace
<1> QED
  BY <1>1, <1>2, <1>3 DEF Copied

\* The user's contacts, and the lists that do not have the user as a contact.
LEMMA ContactsCleared ==
    ASSUME TypeOK, KeptInv, NEW h \in Handler, CopyContacts(h), task'[h].clean,
           NEW u, task[h].user = u
    PROVE  /\ Op(task'[h]) = "listed" /\ NoKeep(u)'
           /\ \A i \in Contact : Out(u, i)'
           /\ \A a \in User : a \in task'[h].owners \/ Out(a, Entry(u))'
<1>1. u \in User /\ CopiesContacts(h, u)
  <2>1. PICK v \in User : CopiesContacts(h, v)
    BY CopyContactsDoes
  <2>2. v = u
    BY <2>1 DEF CopiesContacts
  <2> QED
    BY <2>1, <2>2
<1> USE DEF CopiesContacts
<1>2. \A g \in Handler \ {h} : StaysPut(g)
  BY <1>1, LostDoes DEF StaysPut
<1>3. NoKeep(u)'
  <2>1. ASSUME NEW g \in Handler, Op(task'[g]) = "keep" PROVE task'[g].item # Entry(u)
    <3>1. g # h
      BY <1>1, <2>1
    <3>2. task'[g] = task[g]
      BY <1>2, <2>1, <3>1, OneKeep
    <3>3. g \in Doing("keep")
      BY <2>1, <3>2 DEF Op, Doing, Busy
    <3> QED
      BY <1>1, <3>2, <3>3
  <2> QED
    BY <2>1 DEF NoKeep
<1>4. ASSUME NEW g \in Handler \ {h}, NEW a \in User, NEW i \in Contact PROVE ~ Copied(g, a, i)'
  <2>1. ~ Copied(g, a, i)
    BY <1>1, HeldByNobody
  <2>2. Quiet(g)
    BY <1>2 DEF StaysPut, Quiet
  <2> QED
    BY <2>1, <2>2, QuietCopies
<1>5. ASSUME NEW a \in User, NEW i \in Contact, kept'[a][i] = 0, a \notin task'[h].owners
      PROVE  Out(a, i)'
  <2>1. ~ Copied(h, a, i)'
    BY <1>1, <1>5, ListedItems DEF Copied
  <2> QED
    BY <1>4, <1>5, <2>1 DEF Out
<1>6. ASSUME NEW i \in Contact PROVE Out(u, i)'
  <2>1. i \in Item /\ u \notin task'[h].owners
    BY <1>1, ListedItems DEF Listed
  <2> QED
    BY <1>1, <1>5, <2>1
<1>7. ASSUME NEW a \in User, a \notin task'[h].owners PROVE Out(a, Entry(u))'
  <2>1. Entry(u) \in Contact /\ Entry(u) \in Item
    BY <1>1, EntryIs, ListedItems DEF Listed
  <2>2. kept[a][Entry(u)] \in Nat
    BY <2>1 DEF TypeOK, PersonalTypeOK
  <2>3. kept'[a][Entry(u)] = 0
    BY <1>1, <1>7, <2>1, <2>2
  <2> QED
    BY <1>5, <1>7, <2>1, <2>3
<1> QED
  BY <1>1, <1>3, <1>6, <1>7

\* The lists that have it.
LEMMA ListsCleared ==
    ASSUME TypeOK, KeptInv, NEW h \in Handler, ReplaceContacts(h), task'[h].clean,
           NEW u, task[h].user = u, NEW a \in task[h].owners
    PROVE  Out(a, Entry(u))'
<1>1. /\ Op(task[h]) = "listed" /\ u \in User /\ task[h].owners \subseteq User
      /\ Op(task'[h]) = "unlisted" /\ AtContactsAlone(h, Entry(u))
      /\ \A g \in Handler \ {h} : task'[g] = Lost(task[h].owners, g)
  BY ReplaceContactsDoes
<1>2. \A v \in User, i \in Item : kept'[v][i] = IF v \in task[h].owners /\ i \in Contact
                                                THEN task[h].lists[v][i] ELSE kept[v][i]
  BY ReplaceContactsDoes
<1>3. Entry(u) \in Contact /\ Entry(u) \in Item /\ Entry(u) \in Listed /\ Entry(u) \notin Tokens
  BY <1>1, EntryIs, ListedItems DEF Listed
<1>4. kept'[a][Entry(u)] = 0
  <2>1. Copied(h, a, Entry(u)) /\ TakesOut(h, a, Entry(u))
    BY <1>1, <1>3 DEF Copied, TakesOut
  <2>2. task[h].lists[a][Entry(u)] = 0
    BY <1>1, <1>3, <2>1 DEF KeptInv, ListsKept
  <2> QED
    BY <1>1, <1>2, <1>3, <2>2
<1>5. ASSUME NEW g \in Handler PROVE ~ Copied(g, a, Entry(u))'
  <2>1. CASE g = h
    BY <1>1, <1>3, <2>1 DEF Copied
  <2>2. CASE g # h
    <3>1. ~ Copied(g, a, Entry(u))
      BY <1>1, <1>3, <2>2, HeldByNobody
    <3>2. Quiet(g)
      BY <1>1, <2>2, LostDoes DEF Quiet
    <3> QED
      BY <3>1, <3>2, QuietCopies
  <2> QED
    BY <2>1, <2>2
<1> QED
  BY <1>4, <1>5 DEF Out

\* A step of the deletion itself clears what it goes on from.
LEMMA ClearedByOneself ==
    ASSUME TypeOK, PollInv, KeptInv, NEW h \in Handler, Step(h), Deletes(h), task'[h].clean,
           Op(task[h]) \in Deleting /\ task[h].clean => Cleared(h, Op(task[h])),
           task[h].user \notin interfered', \A g \in Handler : Recorded(g)
    PROVE  Cleared(h, Op(task[h]))'
<1>1. PICK u : task[h].user = u
  OBVIOUS
<1>2. CASE DropSessions(h)
  <2>1. Op(task'[h]) = SignedOut
    BY <1>2, DropSessionsTask, Zenon DEF SignedOut
  <2>2. /\ task'[h].user = u /\ \A g \in Busy \ {h} : task[g].user # u
        /\ \A g \in Handler \ {h} : task'[g] = task[g]
    <3>1. task'[h].user = u
      BY <1>1, <1>2, DropSessionsTask
    <3>2. \A g \in Busy \ {h} : task[g].user # u
      BY <1>1, <1>2, DropSessionsTask
    <3>3. \A g \in Handler \ {h} : task'[g] = task[g]
      BY <1>2, DropSessionsTask
    <3> QED
      BY <3>1, <3>2, <3>3
  <2>3. Alone(h)'
    BY <2>2 DEF Alone, Busy
  <2> QED
    BY <2>1, <2>3, DeletionOrder DEF Cleared
<1>3. CASE ~ DropSessions(h)
  <2>1. Op(task[h]) \in Deleting /\ task'[h].user = u /\ Cleared(h, Op(task[h]))
    BY <1>1, <1>3, StaysClean
  <2>2. Alone(h)
    BY <2>1 DEF Cleared
  <2>3. /\ u \in User /\ Alone(h)'
        /\ \A i \in Listed : Out(u, i) => Out(u, i)'
        /\ Op(task[h]) \in Forgetting /\ NoKeep(u) => NoKeep(u)'
        /\ \A a \in User : NoKeep(u) /\ Out(a, Entry(u)) => Out(a, Entry(u))'
        /\ NoPosts(u) => NoPosts(u)'
    BY <1>1, <2>1, <2>2, ClearedStays
  <2>4. CASE CopyTokens(h)
    <3>1. Op(task'[h]) = "copied"
      BY <2>4, CopyTokensDoes
    <3> QED
      BY <2>3, <3>1, DeletionOrder DEF Cleared
  <2>5. CASE ReplaceTokens(h)
    <3>1. Op(task'[h]) = "forgotten" /\ \A i \in Tokens : Out(u, i)'
      BY <1>1, <2>5, TokensCleared
    <3> QED
      BY <2>1, <2>3, <3>1, DeletionOrder DEF Cleared
  <2>6. ASSUME Op(task[h]) \in Deleting \ {SignedOut, "copied"}
        PROVE  \A i \in Tokens : Out(u, i) /\ Out(u, i)'
    <3>1. \A i \in Tokens : Out(u, i)
      BY <1>1, <2>1, <2>6 DEF Cleared
    <3> QED
      BY <2>3, <3>1, ListedParts
  <2>7. CASE CopyContacts(h)
    <3>1. Op(task[h]) = "forgotten"
      BY <2>7, DoingFields DEF CopyContacts
    <3>2. \A i \in Tokens : Out(u, i)'
      BY <2>6, <3>1, DeletionOrder
    <3>3. /\ Op(task'[h]) = "listed" /\ NoKeep(u)'
          /\ \A i \in Contact : Out(u, i)'
          /\ \A a \in User : a \in task'[h].owners \/ Out(a, Entry(u))'
      BY <1>1, <2>7, ContactsCleared
    <3> QED
      BY <2>1, <2>3, <3>2, <3>3 DEF Cleared
  <2>8. ASSUME Op(task[h]) \in Forgetting, Op(task'[h]) \in Forgetting \ {"listed"},
               \A a \in User : Out(a, Entry(u)) \/ Out(a, Entry(u))',
               Op(task'[h]) = "walked" => NoPosts(u)'
        PROVE  Cleared(h, Op(task[h]))'
    <3>1. NoKeep(u) /\ \A i \in Contact : Out(u, i)
      BY <1>1, <2>1, <2>8 DEF Cleared
    <3>2. NoKeep(u)' /\ \A i \in Contact : Out(u, i)'
      BY <2>3, <2>8, <3>1, ListedParts
    <3>3. \A a \in User : Out(a, Entry(u))'
      BY <2>3, <2>8, <3>1
    <3>4. \A i \in Tokens : Out(u, i)'
      BY <2>6, <2>8, DeletionOrder
    <3> QED
      BY <2>1, <2>3, <2>8, <3>2, <3>3, <3>4 DEF Cleared
  <2>9. CASE ReplaceContacts(h)
    <3>1. Op(task[h]) = "listed" /\ Op(task'[h]) = "unlisted"
      BY <2>9, ReplaceContactsDoes
    <3>2. \A a \in User : a \in task[h].owners \/ Out(a, Entry(u))
      BY <1>1, <2>1, <3>1 DEF Cleared, Forgetting
    <3>3. \A a \in task[h].owners : Out(a, Entry(u))'
      BY <1>1, <2>9, ListsCleared
    <3> QED
      BY <2>8, <3>1, <3>2, <3>3 DEF Forgetting
  <2>10. ASSUME Op(task[h]) \in Forgetting \ {"listed"} PROVE \A a \in User : Out(a, Entry(u))
    BY <1>1, <2>1, <2>10 DEF Cleared
  <2>11. CASE RebuildParticipants(h)
    <3>1. Op(task[h]) = "unlisted" /\ Op(task'[h]) \in {"rebuilt", "walked"}
          /\ (Op(task'[h]) = "walked" => posts' = Tombstoned(u))
      BY <1>1, <2>11, RebuildTask
    <3>2. Op(task'[h]) = "walked" => NoPosts(u)'
      BY <2>3, <3>1, NoPostsTombstoned
    <3> QED
      BY <2>8, <2>10, <3>1, <3>2 DEF Forgetting
  <2>12. CASE ReplaceParticipants(h)
    <3>1. Op(task[h]) = "rebuilt" /\ Op(task'[h]) = "walked"
      BY <2>12, ReplaceTask
    <3>2. posts' = Tombstoned(u)
      BY <1>1, <2>12 DEF ReplaceParticipants
    <3>3. NoPosts(u)'
      BY <2>3, <3>2, NoPostsTombstoned
    <3> QED
      BY <2>8, <2>10, <3>1, <3>3 DEF Forgetting
  <2> QED
    BY <1>3, <2>4, <2>5, <2>7, <2>9, <2>11, <2>12 DEF Deletes
<1> QED
  BY <1>2, <1>3

LEMMA DeletesUser == ASSUME TypeOK, NEW h \in Handler, Deletes(h) PROVE task'[h].user = task[h].user
<1>1. CASE CopyTokens(h)
  BY <1>1, CopyTokensDoes
<1>2. CASE ReplaceTokens(h)
  <2> USE DEF ReplacesTokens
  <2>1. PICK a \in User : ReplacesTokens(h, a)
    BY <1>2, TokensReplaced
  <2> QED
    BY <2>1
<1>3. CASE CopyContacts(h)
  <2> USE DEF CopiesContacts
  <2>1. PICK a \in User : CopiesContacts(h, a)
    BY <1>3, CopyContactsDoes
  <2> QED
    BY <2>1
<1>4. CASE ReplaceContacts(h)
  BY <1>4, ReplaceContactsDoes
<1>5. CASE RebuildParticipants(h)
  BY <1>5, RebuildTask
<1>6. CASE ReplaceParticipants(h)
  BY <1>6, ReplaceTask
<1>7. CASE DropSessions(h)
  BY <1>7, DropSessionsTask
<1> QED
  BY <1>1, <1>2, <1>3, <1>4, <1>5, <1>6, <1>7 DEF Deletes

LEMMA CleanInvStep ==
    ASSUME TypeOK, PollInv, KeptInv, CleanInv, NEW k \in Handler, Step(k),
           RecordsGrow, \A g \in Handler : Recorded(g)
    PROVE  CleanInv'
<1>1. ASSUME NEW h \in Handler, Op(task'[h]) \in Deleting, task'[h].clean,
             task'[h].user \notin interfered'
      PROVE  Cleared(h, Op(task[h]))'
  <2>1. ASSUME task'[h].user = task[h].user
        PROVE  Op(task[h]) \in Deleting /\ task[h].clean => Cleared(h, Op(task[h]))
    BY <1>1, <2>1 DEF CleanInv, RecordsGrow
  <2>2. CASE h = k
    <3>1. Deletes(h)
      BY <1>1, <2>2, NoOtherDeletes
    <3>2. task'[h].user = task[h].user
      BY <3>1, DeletesUser
    <3> QED
      BY <1>1, <2>1, <2>2, <3>1, <3>2, ClearedByOneself
  <2>3. CASE h # k
    <3>1. StaysPut(h)
      BY <2>3, StepOthers
    <3>2. task'[h] = task[h]
      <4>1. ~ Spoilt(h)
        BY <1>1, SpoiltFields
      <4>2. ~ LosesList(h)
        BY <1>1, LostNotDeleting DEF LosesList
      <4> QED
        BY <3>1, <4>1, <4>2 DEF StaysPut
    <3>3. Op(task[h]) \in Deleting /\ task[h].clean /\ task[h].user \notin interfered'
      BY <1>1, <3>2
    <3>4. Cleared(h, Op(task[h]))
      BY <2>1, <3>2, <3>3
    <3> QED
      BY <3>2, <3>3, <3>4, ClearedByOthers
  <2> QED
    BY <2>2, <2>3
<1> QED
  BY <1>1 DEF CleanInv

LEMMA StepFile == ASSUME NEW h, Step(h) PROVE newest' = newest \/ newest' = Snapshot'
  BY DEF Step, ChatStep, UploadStep, PollStep, PersonalStep

\* Only a user is added.
LEMMA AddAsks ==
    ASSUME TypeOK, NEW h \in Handler, ChatAsks(h), Op(task'[h]) = "add"
    PROVE  task'[h].target \in users
<1>1. PICK a \in User, u \in User :
          \/ SendRequest(h, a) \/ AddRequest(h, a, u) \/ RemoveRequest(h, a, u)
          \/ \E role \in {"admin", "member"} : RoleRequest(h, a, u, role)
          \/ DeleteRequest(h, a)
  BY DEF ChatAsks
<1>2. ASSUME NEW t \in AnyTask, Starts(h, t) PROVE t.op = "add" /\ task'[h] = t
  BY <1>2, StartMoves DEF Becomes
<1>3. CASE AddRequest(h, a, u)
  <2>1. u \in users /\ Asks("add", a, u).target = u
    BY <1>3 DEF AddRequest, MayAdd, Asks
  <2>2. Starts(h, Asks("add", a, u)) /\ Asks("add", a, u) \in AnyTask
    BY <1>3, AsksTyped DEF AddRequest, AnyTask, AskOps
  <2> QED
    BY <1>2, <2>1, <2>2
<1>4. CASE SendRequest(h, a)
  <2> DEFINE t == [Asks("send", a, a) EXCEPT !.id = nextPost]
  <2>1. Starts(h, t) /\ t \in AnyTask /\ t.op = "send"
    BY <1>4 DEF SendRequest, Asks, AnyTask, Task, Ungated, TypeOK
  <2> HIDE DEF t
  <2> QED
    BY <1>2, <2>1
<1>5. CASE RemoveRequest(h, a, u) \/ \E role \in {"admin", "member"} : RoleRequest(h, a, u, role)
  <2>1. PICK op \in {"remove", "admin", "member"} : Starts(h, Asks(op, a, u))
    BY <1>5 DEF RemoveRequest, RoleRequest
  <2>2. Asks(op, a, u) \in AnyTask /\ Asks(op, a, u).op = op
    BY AsksTyped DEF AnyTask, AskOps
  <2> QED
    BY <1>2, <2>1, <2>2
<1>6. CASE DeleteRequest(h, a)
  <2> DEFINE t == [op |-> "confirmed", user |-> a]
  <2>1. Starts(h, t) /\ t \in AnyTask /\ t.op = "confirmed"
    BY <1>6 DEF DeleteRequest, AnyTask, Task
  <2> HIDE DEF t
  <2> QED
    BY <1>2, <2>1
<1> QED
  BY <1>1, <1>3, <1>4, <1>5, <1>6

LEMMA ChatAdds ==
    ASSUME TypeOK, NEW h \in Handler, ChatStep(h), NEW g \in Handler, Op(task'[g]) = "add"
    PROVE  task'[g] = task[g] \/ task'[g].target \in users
<1>1. CASE ChatAsks(h)
  BY <1>1, AddAsks, ChatAsksLeave
<1>2. CASE ~ ChatAsks(h)
  <2>1. ~ (\E a \in User : SendRequest(h, a))
    BY <1>2 DEF ChatAsks
  <2>2. CASE Send(h)
    <3>1. g # h => task'[g] = task[g]
      BY ChatRest DEF Rest
    <3>2. Op(task'[h]) = "sent"
      BY <2>2, SendTask
    <3> QED
      BY <3>1, <3>2
  <2>3. CASE ~ Send(h)
    <3>1. ChatGoesOn(h) \/ ChatSaves(h)
      BY <1>2 DEF ChatStep
    <3> QED
      BY <1>2, <2>1, <2>3, <3>1, ChatKeepsPosts DEF AskOps
  <2> QED
    BY <2>2, <2>3
<1> QED
  BY <1>1, <1>2

LEMMA StepAdds ==
    ASSUME TypeOK, PollInv, NEW h \in Handler, Step(h), NEW g \in Handler, Op(task'[g]) = "add"
    PROVE  task'[g] = task[g] \/ task'[g].target \in users
<1>1. CASE ChatStep(h)
  BY <1>1, ChatAdds
<1>2. CASE UploadStep(h) \/ PollStep(h) \/ PersonalStep(h)
  <2>1. {Op(task[g]), Op(task'[g])} \cap ((AskOps \ {"send"}) \cup {"confirmed"}) # {}
    BY DEF AskOps
  <2> QED
    BY <1>2, <2>1, OthersKeep
<1> QED
  BY <1>1, <1>2 DEF Step

\* Who asks for something in the conversation takes part in it or is a user.
LEMMA AskerIsThere ==
    ASSUME TypeOK, NEW h \in Handler, ChatAsks(h) \/ PollAsks(h)
    PROVE  Member(task'[h].user) \/ task'[h].user \in users
<1>1. ASSUME NEW t \in AnyTask, Starts(h, t), Member(t.user) \/ t.user \in users
      PROVE  Member(task'[h].user) \/ task'[h].user \in users
  BY <1>1, StartMoves
<1>2. ASSUME NEW op \in AskOps, NEW a \in User, NEW u \in User, Starts(h, Asks(op, a, u)), Member(a)
      PROVE  Member(task'[h].user)
  <2>1. Asks(op, a, u) \in AnyTask /\ Asks(op, a, u).user = a
    BY AsksTyped DEF AnyTask, Asks
  <2> QED
    BY <1>2, <2>1, StartMoves
<1>3. ASSUME NEW a \in User, SendRequest(h, a) PROVE Member(task'[h].user)
  <2> DEFINE t == [Asks("send", a, a) EXCEPT !.id = nextPost]
  <2>1. Starts(h, t) /\ t \in AnyTask /\ t.user = a /\ Member(a)
    BY <1>3 DEF SendRequest, Asks, AnyTask, Task, Ungated, TypeOK
  <2> HIDE DEF t
  <2> QED
    BY <2>1, StartMoves
<1>4. ASSUME NEW a \in User, NEW u \in User,
             \/ AddRequest(h, a, u) \/ RemoveRequest(h, a, u)
             \/ \E role \in {"admin", "member"} : RoleRequest(h, a, u, role)
      PROVE  Member(task'[h].user)
  <2>1. PICK op \in AskOps : Starts(h, Asks(op, a, u))
    BY <1>4 DEF AddRequest, RemoveRequest, RoleRequest, AskOps
  <2>2. Member(a)
    BY <1>4 DEF AddRequest, RemoveRequest, RoleRequest, MayAdd, MayRemove, MaySetRole
  <2> QED
    BY <1>2, <2>1, <2>2
<1>5. ASSUME NEW a \in User, DeleteRequest(h, a) PROVE task'[h].user \in users
  <2> DEFINE t == [op |-> "confirmed", user |-> a]
  <2>1. Starts(h, t) /\ t \in AnyTask /\ t.user = a /\ a \in users
    BY <1>5 DEF DeleteRequest, AnyTask, Task
  <2> HIDE DEF t
  <2> QED
    BY <2>1, StartMoves
<1>6. CASE PollAsks(h)
  <2>1. ASSUME NEW a \in User, NEW op \in {"poll", "close"}, Member(a),
               Starts(h, [op |-> op, user |-> a])
        PROVE  Member(task'[h].user)
    <3> DEFINE t == [op |-> op, user |-> a]
    <3>1. Starts(h, t) /\ t \in AnyTask /\ t.user = a
      BY <2>1 DEF AnyTask, PollTask
    <3> HIDE DEF t
    <3> QED
      BY <2>1, <3>1, StartMoves
  <2>2. ASSUME NEW a \in User, NEW option \in Option, VoteRequest(h, a, option)
        PROVE  Member(task'[h].user)
    <3> DEFINE t == [op |-> "vote", user |-> a, option |-> option]
    <3>1. Starts(h, t) /\ t \in AnyTask /\ t.user = a /\ Member(a)
      BY <2>2 DEF AnyTask, PollTask, VoteRequest, MayVote
    <3> HIDE DEF t
    <3> QED
      BY <3>1, StartMoves
  <2> QED
    BY <1>6, <2>1, <2>2 DEF PollAsks, CreateRequest, CloseRequest
<1> QED
  BY <1>3, <1>4, <1>5, <1>6 DEF ChatAsks

LEMMA ServedIsBusy ==
    ASSUME NEW h \in Handler,
           \/ ChatGoesOn(h) \/ ChatSaves(h)
           \/ CreatePoll(h) \/ CountVote(h) \/ ClosePoll(h) \/ AnnounceResult(h)
    PROVE  task[h] # None
<1>1. \A op : h \in Doing(op) => task[h] # None
  BY DEF Doing, Busy
<1> QED
  BY <1>1 DEF ChatGoesOn, ChatSaves, Send, AddParticipant, RemoveParticipant, SetRole, DropUser,
              DropSessions, RebuildParticipants, ReplaceParticipants, CreatePoll, CountVote,
              ClosePoll, AnnounceResult

\* A user who is none and takes no part can only begin what touches neither the
\* conversation nor the accounts.
LEMMA LeftOverStays ==
    ASSUME TypeOK, PollInv, KeptInv, NEW k \in Handler, Step(k), NEW u \in User,
           u \notin users, ~ Member(u),
           \A g \in Handler : task[g] # None /\ task[g].user = u => Op(task[g]) \in LeftOver,
           NEW g \in Handler, task'[g] # None, task'[g].user = u
    PROVE  Op(task'[g]) \in LeftOver
<1>1. CASE task'[g] = task[g]
  BY <1>1
<1>2. task[g] # None => Op(task[g]) \in LeftOver
  BY StepSameUser DEF SameUser
<1>3. ASSUME g # k, task'[g] # task[g] PROVE Op(task'[g]) \in LeftOver
  <2>1. StaysPut(g)
    BY <1>3, StepOthers
  <2>2. ~ Spoilt(g)
    <3>1. Op(task[g]) \in Forgetting => Op(task[g]) \in Deleting /\ task[g] # None
      BY DEF Deleting, Forgetting, Op
    <3> QED
      BY <1>2, <3>1, LeftOverApart DEF Spoilt
  <2> QED
    BY <1>3, <2>1, <2>2, LeftOverApart DEF StaysPut, LosesList
<1>4. ASSUME g = k, task'[k] # task[k] PROVE Op(task'[k]) \in LeftOver
  <2>1. ASSUME Op(task[k]) \in ChatOps \cup PollOps \cup {"attach", "begin", "release"} \cup Deleting
        PROVE  FALSE
    <3>1. Op(task[k]) \notin LeftOver
      BY <2>1, LeftOverApart
    <3>2. Op(task[k]) # "idle"
      BY <2>1, DeletingApart DEF ChatOps, PollOps, AskOps, DeleteOps
    <3> QED
      BY <1>2, <1>4, <3>1, <3>2 DEF Op
  <2>0. Op(task[k]) = "idle" => task[k] = None
    BY TaskFields DEF ChatOps, UploadOps, PollOps, PersonalOps, AskOps, DeleteOps
  <2>2. ~ ChatAsks(k) /\ ~ PollAsks(k)
    BY <1>4, AskerIsThere
  <2>3. CASE ChatStep(k)
    <3>1. Op(task[k]) \in ChatOps \cup {"idle"}
      BY <1>4, <2>3, ChatStepMoves DEF ChatMoves, Moves
    <3>2. task[k] = None
      BY <2>0, <2>1, <3>1
    <3> QED
      BY <2>2, <2>3, <3>2, ServedIsBusy DEF ChatStep
  <2>4. CASE PollStep(k)
    <3>1. Op(task[k]) \in PollOps \cup {"idle"}
      BY <1>4, <2>4, PollStepMoves DEF PollMoves, Moves
    <3>2. task[k] = None
      BY <2>0, <2>1, <3>1
    <3> QED
      BY <2>2, <2>4, <3>2, ServedIsBusy DEF PollStep
  <2>5. CASE UploadStep(k)
    <3>1. ASSUME NEW a \in User, AttachRequest(k, a) \/ BeginRequest(k, a) PROVE FALSE
      <4>1. PICK t \in AnyTask : Starts(k, t) /\ t.user = a /\ Member(a)
        BY <3>1 DEF AttachRequest, BeginRequest, MayBegin, AnyTask, UploadTask
      <4> QED
        BY <1>4, <4>1, StartMoves
    <3>2. ASSUME NEW i \in DOMAIN uploads, NEW chunk \in 0 .. (Chunks - 1), ChunkRequest(k, i, chunk)
          PROVE  Op(task'[k]) = "chunk"
      <4> DEFINE t == [op |-> "chunk", user |-> uploads[i].user, upload |-> i, chunk |-> chunk]
      <4>1. uploads[i].user \in User /\ i \in Nat /\ chunk \in Nat
        BY UploadsAssumption DEF UploadsTypeOK, Upload, TypeOK
      <4>2. t \in AnyTask /\ t.op = "chunk" /\ Starts(k, t)
        BY <3>2, <4>1 DEF ChunkRequest, AnyTask, UploadTask
      <4> HIDE DEF t
      <4> QED
        BY <4>2, StartMoves DEF Becomes
    <3>3. ASSUME NEW i \in DOMAIN uploads, CompleteRequest(k, i) PROVE Op(task'[k]) = "post"
      BY <3>3, CompleteTask
    <3>4. ASSUME PostAttachment(k) PROVE FALSE
      BY <1>2, <1>4, <3>4, PostTask, OpIsRequest
    <3>5. ASSUME \/ InitUpload(k) \/ AcceptChunk(k) \/ ReleaseUpload(k) \/ SendAttachment(k)
          PROVE  FALSE
      <4>1. Ends(k)
        BY <3>5 DEF InitUpload, AcceptChunk, ReleaseUpload, SendAttachment
      <4> QED
        BY <1>4, <4>1 DEF Ends, TypeOK
    <3> QED
      BY <2>5, <3>1, <3>2, <3>3, <3>4, <3>5 DEF UploadStep, UploadAsks, UploadGoesOn, LeftOver
  <2>6. CASE PersonalStep(k)
    <3>1. CASE PersonalAsks(k)
      <4>1. Op(task'[k]) \in {"keep", "drop", "register", "unregister"}
        BY <3>1, KeepRequestDoes, DropRequestDoes, TokenRequestDoes DEF PersonalAsks
      <4> QED
        BY <4>1 DEF LeftOver
    <3>2. ASSUME PersonalSaves(k) \/ Clears(k) \/ DeletionFails(k) PROVE FALSE
      <4>1. Ends(k)
        BY <3>2, KeepIsKeeps DEF PersonalSaves, Clears, Keeps, Drop, KeepNowhere, AppendToken,
                                 ClearDraft, Unregister, DeletionFails
      <4> QED
        BY <1>4, <4>1 DEF Ends, TypeOK
    <3>3. ASSUME CopyTokens(k) \/ ReplaceTokens(k) \/ CopyContacts(k) \/ ReplaceContacts(k)
          PROVE  FALSE
      <4>1. PICK op \in {"signed out", "copied", "forgotten", "listed"} : k \in Doing(op)
        BY <3>3 DEF CopyTokens, ReplaceTokens, CopyContacts, ReplaceContacts
      <4>2. {"signed out", "copied", "forgotten", "listed"} \subseteq Deleting
        BY Zenon DEF Deleting, SignedOut, Forgetting
      <4>3. Op(task[k]) = op
        BY <4>1 DEF Doing, Busy, Op
      <4> QED
        BY <2>1, <4>1, <4>2, <4>3
    <3>4. CASE AssignTokens(k)
      <4> USE DEF ReplacesTokens
      <4>1. Op(task'[k]) = "append"
        BY <3>4, TokensReplaced
      <4> QED
        BY <4>1 DEF LeftOver
    <3> QED
      BY <2>6, <3>1, <3>2, <3>3, <3>4 DEF PersonalStep, PersonalGoesOn
  <2> QED
    BY <2>3, <2>4, <2>5, <2>6 DEF Step
<1> QED
  BY <1>1, <1>3, <1>4

\* Nobody adds a user who is none, and what such a user was told last stays.
LEMMA AbsentUser ==
    ASSUME GroupsInv, MemberInv, NEW k \in Handler, Step(k), NEW u \in User, Absent(u)
    PROVE  u \notin users' /\ told'[u] = "out"
<1>0. TypeOK /\ PollInv /\ u \notin users /\ told[u] = "out" /\ told \in [User -> What]
  BY DEF GroupsInv, Absent, TypeOK, What
<1>1. ASSUME UNCHANGED <<users, told>> PROVE u \notin users' /\ told'[u] = "out"
  BY <1>0, <1>1
<1>2. ASSUME ReplaceParticipants(k) PROVE task[k].user # u
  <2>1. Op(task[k]) = "rebuilt" /\ task[k] # None
    BY <1>0, <1>2, DoingFields DEF ReplaceParticipants
  <2>2. Op(task[k]) \notin LeftOver
    BY <2>1, LeftOverApart DEF ChatOps, DeleteOps
  <2> QED
    BY <2>1, <2>2 DEF Absent
<1>3. CASE AddParticipant(k)
  <2>1. Op(task[k]) = "add"
    BY <1>0, <1>3, DoingFields DEF AddParticipant
  <2>2. task[k].target # u
    BY <2>1 DEF Absent
  <2> QED
    BY <1>0, <1>3, <2>2 DEF AddParticipant
<1>4. CASE RemoveParticipant(k)
  <2>1. ~ Member(u)
    BY <1>0 DEF MemberInv, Counted, Member
  <2> QED
    BY <1>0, <1>4, <2>1 DEF RemoveParticipant
<1>5. CASE ReplaceParticipants(k)
  <2>1. task[k].user # u
    BY <1>2, <1>5
  <2> QED
    BY <1>0, <1>5, <2>1 DEF ReplaceParticipants
<1>6. CASE DropUser(k)
  BY <1>0, <1>6 DEF DropUser
<1>7. CASE ChatStep(k) /\ ~ (AddParticipant(k) \/ RemoveParticipant(k) \/ ReplaceParticipants(k)
                              \/ DropUser(k))
  <2>1. CASE ChatAsks(k)
    BY <1>0, <1>1, <2>1, ChatAsksLeave
  <2>2. CASE ~ ChatAsks(k)
    BY <1>1, <1>7, <2>2 DEF ChatStep, ChatGoesOn, ChatSaves, DropSessions, RebuildParticipants,
                            Send, SetRole, historyVars
  <2> QED
    BY <2>1, <2>2
<1>8. CASE UploadStep(k) \/ PollStep(k) \/ PersonalStep(k)
  BY <1>0, <1>1, <1>8, OthersKeep
<1> QED
  BY <1>3, <1>4, <1>5, <1>6, <1>7, <1>8 DEF Step

\* A save writes nothing of a user of whom nothing is left.
LEMMA SavedWithout ==
    ASSUME newest' = Snapshot', NEW u \in User, u \notin users', NoPosts(u)',
           u \notin returned' => \A i \in Contact : kept'[u][i] = 0, \A a \in User : kept'[a][Entry(u)] = 0
    PROVE  NotInFile(u)'
<1>1. newest'.users = users' /\ newest'.posts = posts'
      /\ \A a \in User, i \in Saved : newest'.kept[a][i] = kept'[a][i]
  BY DEF Snapshot
<1>2. Contact \subseteq Saved /\ Entry(u) \in Saved
  BY EntryIs DEF Saved
<1> QED
  BY <1>1, <1>2 DEF NotInFile, NoPosts

LEMMA AbsentStays ==
    ASSUME GroupsInv, MemberInv, KeptInv, NEW k \in Handler, Step(k), NEW u \in User, Absent(u),
           RecordsGrow, \A g \in Handler : Recorded(g)
    PROVE  Absent(u)'
<1>0. TypeOK /\ PollInv
  BY DEF GroupsInv
<1>1. u \notin users' /\ told'[u] = "out"
  BY AbsentUser
<1>2. u \notin users /\ ~ Member(u)
  BY DEF Absent, MemberInv, Counted, Member
<1>3. task[k] = None \/ task[k].user # u \/ Op(task[k]) \in LeftOver
  BY DEF Absent
<1>4. ASSUME NEW g \in Handler, task'[g] # None, task'[g].user = u
      PROVE  Op(task'[g]) \in LeftOver /\ u \in returned'
  <2>1. Op(task'[g]) \in LeftOver
    BY <1>0, <1>2, <1>4, LeftOverStays DEF Absent
  <2>2. SameUser(g) /\ Recorded(g)
    BY <1>0, StepSameUser
  <2>3. ASSUME task[g] = None PROVE u \in returned'
    BY <1>2, <1>4, <2>2, <2>3 DEF Recorded
  <2>4. ASSUME task[g] # None PROVE u \in returned'
    <3>1. u \in returned
      BY <1>4, <2>2, <2>4 DEF SameUser, Absent
    <3> QED
      BY <3>1 DEF RecordsGrow
  <2> QED
    BY <2>1, <2>3, <2>4
<1>5. ASSUME NEW g \in Handler, Op(task'[g]) = "add" PROVE task'[g].target # u
  BY <1>0, <1>2, <1>5, StepAdds DEF Absent
<1>6. NoKeep(u)' /\ NoPosts(u)'
  <2>1. NoKeep(u)'
    BY <1>0, <1>2, NoKeepStays DEF Absent
  <2>2. NoPosts(u)'
    BY <1>0, <1>2, <1>3, NoPostsStays DEF Absent
  <2> QED
    BY <2>1, <2>2
<1>7. ASSUME u \notin returned', NEW i \in Listed PROVE Out(u, i)'
  <2>1. u \notin returned
    BY <1>7 DEF RecordsGrow
  <2>2. Op(task[k]) \in {"keep", "append"} => task[k].user # u
    BY <2>1, OpIsRequest DEF Absent
  <2> QED
    BY <1>0, <1>7, <2>1, <2>2, OutStays DEF Absent
<1>8. ASSUME NEW a \in User PROVE Out(a, Entry(u))'
  BY <1>0, EntryStays DEF Absent
<1>9. NotInFile(u)'
  <2>1. CASE newest' = newest
    BY <2>1 DEF Absent, NotInFile, RecordsGrow
  <2>2. CASE newest' = Snapshot'
    <3>1. u \notin returned' => \A i \in Contact : kept'[u][i] = 0
      BY <1>7, ListedParts DEF Out
    <3>2. \A a \in User : kept'[a][Entry(u)] = 0
      BY <1>8 DEF Out
    <3> QED
      BY <1>1, <1>6, <2>2, <3>1, <3>2, SavedWithout
  <2> QED
    BY <2>1, <2>2, StepFile
<1> QED
  BY <1>1, <1>4, <1>5, <1>6, <1>7, <1>8, <1>9 DEF Absent

\* The end of a clean deletion leaves nothing of the user.
LEMMA DroppedIsAbsent ==
    ASSUME GroupsInv, KeptInv, CleanInv, NEW k \in Handler, Step(k), DropUser(k),
           NEW u \in User, task[k].user = u, task[k].clean, told[u] = "out", u \notin interfered,
           \A g \in Doing("add") : task[g].target # u
    PROVE  Absent(u)'
<1>0. TypeOK /\ PollInv
  BY DEF GroupsInv
<1>1. Op(task[k]) = "walked" /\ task[k] # None
  BY <1>0, DoingFields DEF DropUser
<1>2. Cleared(k, "walked")
  BY <1>1, DeletionOrder DEF CleanInv, Forgetting
<1>3. /\ Alone(k) /\ NoKeep(u) /\ NoPosts(u) /\ \A i \in Listed : Out(u, i)
      /\ \A a \in User : Out(a, Entry(u))
  <2>1. \A i \in Tokens : Out(u, i)
    BY <1>2, DeletionOrder DEF Cleared, Forgetting
  <2>2. "walked" \in Forgetting
    BY DEF Forgetting
  <2> QED
    BY <1>2, <2>1, <2>2 DEF Cleared, Listed
<1>4. /\ users' = users \ {u} /\ told' = told /\ posts' = posts /\ task'[k] = None
      /\ \A g \in Handler \ {k} : task'[g] = task[g]
  BY <1>0 DEF DropUser, Ends, TypeOK
<1>5. ChatSaves(k) /\ ~ ChatAsks(k) /\ ~ ChatGoesOn(k)
  <2>1. ~ ChatGoesOn(k)
    BY <1>0, <1>1, DropSessionsTask, RebuildTask, ReplaceTask DEF ChatGoesOn
  <2> QED
    BY <1>0, <1>1, <2>1, ChatAsksLeave DEF ChatSaves
<1>6. UNCHANGED personalVars /\ newest' = Snapshot'
  <2>1. ChatStep(k)
    <3>1. ASSUME UploadStep(k) PROVE FALSE
      BY <1>0, <1>1, <1>4, <3>1, UploadStepMoves DEF UploadMoves, Moves, UploadOps, Op
    <3>2. ASSUME PollStep(k) PROVE FALSE
      BY <1>0, <1>1, <1>4, <3>2, PollStepMoves DEF PollMoves, Moves, PollOps, Op
    <3>3. ASSUME PersonalStep(k) PROVE FALSE
      <4>1. "walked" \in {Op(task[k]), Op(task'[k])} /\ task'[k] # task[k]
        BY <1>1, <1>4
      <4>2. ~ Spoilt(k)
        BY <1>0, <1>1, <1>4, SpoiltFields DEF Op
      <4> QED
        BY <1>0, <3>3, <4>1, <4>2, OthersKeep
    <3> QED
      BY <3>1, <3>2, <3>3 DEF Step
  <2> QED
    BY <1>5, <2>1 DEF ChatStep
<1>7. NoKeep(u)' /\ NoPosts(u)'
  BY <1>3, <1>4 DEF NoKeep, NoPosts, Op
<1>8. /\ \A i \in Listed : Out(u, i)'
      /\ \A a \in User : Out(a, Entry(u))'
  <2>1. \A g \in Handler : \A a, i : Copied(g, a, i)' => Copied(g, a, i) /\ task'[g] = task[g]
    BY <1>4, EndedNotCopied DEF Copied
  <2>2. kept' = kept
    BY <1>6 DEF personalVars
  <2> QED
    BY <1>3, <2>1, <2>2 DEF Out
<1>9. \A g \in Handler : /\ task'[g] # None => task'[g].user # u
                         /\ Op(task'[g]) = "add" => task'[g].target # u
  BY <1>3, <1>4 DEF Alone, Op, Doing, Busy
<1>10. NotInFile(u)'
  <2>1. \A i \in Contact : kept'[u][i] = 0
    BY <1>8, ListedParts DEF Out
  <2>2. \A a \in User : kept'[a][Entry(u)] = 0
    BY <1>8 DEF Out
  <2>3. u \notin returned' => \A i \in Contact : kept'[u][i] = 0
    BY <2>1
  <2> QED
    BY <1>4, <1>6, <1>7, <2>2, <2>3, SavedWithout
<1> QED
  BY <1>4, <1>7, <1>8, <1>9, <1>10 DEF Absent

LEMMA StepGone ==
    ASSUME TypeOK, PollInv, NEW k \in Handler, Step(k), NEW u \in gone', u \notin gone
    PROVE  /\ DropUser(k) /\ u \in User /\ task[k].user = u /\ task[k].clean /\ told[u] = "out"
           /\ \A g \in Doing("add") : task[g].target # u
<1>1. CASE DropUser(k)
  <2>1. k \in Doing("walked")
    BY <1>1 DEF DropUser
  <2>2. task[k].user \in User
    BY <2>1, DoingFields
  <2>3. gone' = IF /\ task[k].clean /\ told[task[k].user] = "out"
                   /\ \A g \in Doing("add") : task[g].target # task[k].user
                THEN gone \cup {task[k].user} ELSE gone
    BY <1>1 DEF DropUser
  <2> QED
    BY <1>1, <2>2, <2>3
<1>2. CASE ~ DropUser(k)
  <2>1. CASE ChatAsks(k)
    BY <2>1, ChatAsksLeave
  <2>2. CASE ChatStep(k) /\ ~ ChatAsks(k)
    BY <1>2, <2>2 DEF ChatStep, ChatGoesOn, ChatSaves, DropSessions, RebuildParticipants,
                      ReplaceParticipants, Send, AddParticipant, RemoveParticipant, SetRole,
                      historyVars
  <2>3. CASE UploadStep(k) \/ PollStep(k) \/ PersonalStep(k)
    BY <2>3, OthersKeep
  <2> QED
    BY <2>1, <2>2, <2>3 DEF Step
<1> QED
  BY <1>1, <1>2

LEMMA GoneInvInit == GroupsInit => GoneInv
  BY DEF GroupsInit, Init, GoneInv, CleanInv, Op, Deleting, SignedOut, Forgetting

LEMMA RestartKeepsGone == ASSUME TypeOK, GoneInv, Restart PROVE GoneInv'
<1>1. /\ users' = file.users /\ posts' = file.posts /\ newest' = file
      /\ gone' = IF file # newest THEN {} ELSE gone
      /\ interfered' = interfered /\ returned' = returned
      /\ \A g \in Handler : task'[g] = None
  BY DEF Restart, Outdated
<1>2. \A g \in Handler : Op(task'[g]) = "idle"
  BY <1>1 DEF Op
<1>3. ASSUME NEW u \in gone' \ interfered' PROVE Absent(u)'
  <2>1. u \in User /\ Absent(u) /\ file = newest
    BY <1>1, <1>3 DEF GoneInv, TypeOK
  <2>2. told'[u] = "out"
    <3>1. ~ \E h \in Doing("walked") : task[h].user = u
      <4>1. \A h \in Doing("walked") : task[h] # None /\ Op(task[h]) = "walked"
        BY DEF Doing, Busy, Op
      <4>2. "walked" \notin LeftOver
        BY LeftOverApart DEF ChatOps, DeleteOps
      <4> QED
        BY <2>1, <4>1, <4>2 DEF Absent, Doing, Busy
    <3> QED
      BY <2>1, <3>1 DEF Restart, Absent, Outdated
  <2>3. \A a \in User, i \in Listed : kept'[a][i] = IF i \in Saved THEN newest.kept[a][i] ELSE 0
    BY <2>1, ListedItems DEF Restart
  <2>4. \A g \in Handler : \A a, i : ~ Copied(g, a, i)'
    BY <1>1, EndedNotCopied
  <2>5. ASSUME u \notin returned', NEW i \in Listed PROVE Out(u, i)'
    <3>1. i \in Saved => newest.kept[u][i] = 0
      BY <1>1, <2>1, <2>5, ListedItems DEF Absent, NotInFile, Listed
    <3> QED
      BY <2>1, <2>3, <2>4, <2>5, <3>1 DEF Out
  <2>6. \A a \in User : Out(a, Entry(u))'
    <3>1. Entry(u) \in Listed
      BY <2>1, ListedParts
    <3>2. \A a \in User : newest.kept[a][Entry(u)] = 0
      BY <2>1 DEF Absent, NotInFile
    <3> QED
      BY <2>3, <2>4, <3>1, <3>2 DEF Out
  <2>7. u \notin users' /\ NoPosts(u)' /\ NoKeep(u)' /\ NotInFile(u)'
    BY <1>1, <1>2, <2>1 DEF Absent, NotInFile, NoPosts, NoKeep
  <2> QED
    BY <1>1, <1>2, <2>2, <2>5, <2>6, <2>7 DEF Absent
<1>4. CleanInv'
  BY <1>2, DeletingApart DEF CleanInv
<1> QED
  BY <1>3, <1>4 DEF GoneInv

\* What no step of a handler does leaves all of it alone.
LEMMA GoneUntouched ==
    ASSUME GoneInv, UNCHANGED <<chatVars, personalVars, newest>>, RecordsGrow
    PROVE  GoneInv'
<1>1. \A u : NoKeep(u)' = NoKeep(u) /\ NoPosts(u)' = NoPosts(u)
  BY DEF NoKeep, NoPosts, chatVars, Op
<1>2. \A u, i : Out(u, i)' = Out(u, i)
  BY DEF Out, Copied, chatVars, personalVars, Op
<1>3. ASSUME NEW h \in Handler, NEW op, Cleared(h, op) PROVE Cleared(h, op)'
  BY <1>1, <1>2, <1>3 DEF Cleared, Alone, chatVars
<1>4. CleanInv'
  BY <1>3 DEF GoneInv, CleanInv, RecordsGrow, chatVars, Op
<1>5. ASSUME NEW u \in gone' \ interfered' PROVE Absent(u)'
  <2>1. Absent(u)
    BY <1>5 DEF GoneInv, RecordsGrow, chatVars
  <2> QED
    BY <1>1, <1>2, <2>1 DEF Absent, NotInFile, RecordsGrow, chatVars, Op
<1> QED
  BY <1>4, <1>5 DEF GoneInv

LEMMA GoneInvNext ==
    ASSUME GroupsInv, MemberInv, KeptInv, GoneInv, [Next]_vars PROVE GoneInv'
<1>0. TypeOK /\ PollInv /\ CleanInv
  BY DEF GroupsInv, GoneInv
<1>1. ASSUME NEW k \in Handler, Requests(k) \/ Saves(k) \/ Continues(k) PROVE GoneInv'
  <2>1. Step(k) /\ RecordsGrow /\ \A g \in Handler : Recorded(g)
    BY <1>0, <1>1, StepRecords
  <2>2. ASSUME NEW u \in gone' \ interfered' PROVE Absent(u)'
    <3>1. u \notin interfered
      BY <2>1, <2>2 DEF RecordsGrow
    <3>2. CASE u \in gone
      <4>1. u \in User /\ Absent(u)
        BY <1>0, <3>1, <3>2 DEF GoneInv, TypeOK
      <4> QED
        BY <2>1, <4>1, AbsentStays
    <3>3. CASE u \notin gone
      <4>1. /\ DropUser(k) /\ u \in User /\ task[k].user = u /\ task[k].clean /\ told[u] = "out"
            /\ \A g \in Doing("add") : task[g].target # u
        BY <1>0, <2>1, <2>2, <3>3, StepGone
      <4> QED
        BY <1>0, <2>1, <3>1, <4>1, DroppedIsAbsent
    <3> QED
      BY <3>2, <3>3
  <2>3. CleanInv'
    BY <1>0, <2>1, CleanInvStep
  <2> QED
    BY <2>2, <2>3 DEF GoneInv
<1>2. CASE Refuses \/ Writes \/ UNCHANGED vars
  <2>1. UNCHANGED <<chatVars, personalVars, newest>> /\ RecordsGrow
    BY <1>2 DEF Refuses, DropUpload, Comes, Writes, vars, fileVars, RecordsGrow
  <2> QED
    BY <2>1, GoneUntouched
<1>3. CASE Restart
  BY <1>0, <1>3, RestartKeepsGone
<1> QED
  BY <1>1, <1>2, <1>3 DEF Next

\* Of an account deleted while no other request of its user was served nothing is left that
\* others see, in no table, in no list that a handler is about to write back and not in
\* what a save wrote last; nor are tokens and contacts of its own, if no request of its
\* user is accepted later (delete, resolve_session).
THEOREM DeletedStaysGone == Spec => []DeletedIsGone
<1>1. ASSUME TypeOK, MemberInv, GoneInv PROVE DeletedIsGone
  <2>1. ASSUME NEW u \in gone \ interfered
        PROVE  /\ u \notin users /\ ~ Member(u)
               /\ \A i \in DOMAIN posts : posts[i].sender # u
               /\ \A a \in User : ~ Has(a, <<"contact", u>>)
               /\ u \notin returned => \A item \in Contact \cup Tokens : ~ Has(u, item)
    <3>1. u \in User /\ Absent(u)
      BY <1>1, <2>1 DEF TypeOK, GoneInv
    <3>2. ~ Member(u)
      BY <1>1, <3>1 DEF Absent, MemberInv, Counted, Member
    <3>3. u \notin returned => \A item \in Contact \cup Tokens : ~ Has(u, item)
      BY <3>1 DEF Absent, Out, Has, Listed
    <3>4. \A a \in User : ~ Has(a, <<"contact", u>>)
      BY <3>1 DEF Absent, Out, Has, Entry
    <3> QED
      BY <3>1, <3>2, <3>3, <3>4 DEF Absent, NoPosts
  <2> QED
    BY <2>1 DEF DeletedIsGone
<1>2. Spec => [](GroupsInv /\ TypeOK /\ MemberInv /\ KeptInv)
  BY GroupsInvariant, MemberInvInit, MemberInvNext, KeptInvariant, PTL DEF Spec, GroupsInv
<1>3. Spec => []GoneInv
  BY <1>2, GoneInvInit, GoneInvNext, PTL DEF Spec
<1> QED
  BY <1>1, <1>2, <1>3, PTL
================================================================================
