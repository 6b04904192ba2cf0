--------------------------- MODULE ConversationSync ---------------------------
(***************************************************************************)
(* One conversation, kept by the server (ChatService) and copied by one    *)
(* desktop client (DesktopChatStore).  The copy is fed three ways: pushes, *)
(* which the server fans out after each mutation; the incremental sync of  *)
(* every login, answered from the client's cursor and version; and full    *)
(* syncs and history pages, asked for while online.                        *)
(*                                                                         *)
(* A mutation and its fan-out are two steps of the thread that serves the  *)
(* mutating session, so a sync, or another session's mutation, may fall    *)
(* between them.  On the client, pushes are posted to the GUI thread in    *)
(* the order they arrive, but the answer of a sync is written by another   *)
(* thread of the server and posted by the thread of the client that waited *)
(* for it: pushes of later mutations may overtake it (Overtaking).         *)
(***************************************************************************)
EXTENDS Naturals, Sequences, FiniteSets, SequencesExt

CONSTANTS
    Text,         \* what a message may say
    Peers,        \* sessions of the other participants, which mutate
    MaxMessages,  \* bound: messages in the conversation
    MaxChanges,   \* bound: change_seq
    MaxPushes,    \* bound: pushes on their way to the client
    Touchable,    \* bound: the messages that peers react to and pin
    Retained,     \* MAX_CONVERSATION_CHANGES
    PageSize,     \* the limit of a history page; 0 when none is asked for
    Settings      \* the sets of disturbances considered, see below

\* What may happen besides: peers schedule messages, or give commands to the service,
\* pushes of later mutations are applied before a sync's answer, the connection fails
\* with something on its way, the client's user is added to the conversation later.
Disturbances == {"scheduling", "commands", "overtaking", "drops", "lateJoin"}

ASSUME BoundsAssumption ==
    /\ {MaxMessages, MaxChanges, MaxPushes} \subseteq Nat /\ Retained \in Nat \ {0}
    /\ PageSize \in Nat /\ Settings \subseteq SUBSET Disturbances

VARIABLES
    setting,   \* fixed: the disturbances of this behaviour
    server,    \* the ConversationRecord
    member,    \* whether the client's user is a participant
    pending,   \* per peer session, the push it still has to fan out, if any
    online,    \* whether the client's session is registered for pushes
    pushes,    \* pushes sent to the client and not yet applied
    request,   \* the sync request on its way, if any
    reply,     \* its answer, not yet applied, if any; "ahead" pushes go before it
    store      \* the client's copy of the conversation

vars == <<setting, server, member, pending, online, pushes, request, reply, store>>

Scheduling == "scheduling" \in setting
Commanding == "commands" \in setting
Overtaking == "overtaking" \in setting
Drops      == "drops" \in setting
JoinsLate  == "lateJoin" \in setting

Cleared == ""    \* the text of a deleted message, and the summary of no reaction
Liked   == "+"   \* the summary of a peer's one reaction
PinnedText == "pinned"
NoId    == 0     \* an empty message id; other ids are positions in the log

Change(version, kind, id, text) ==
    [version |-> version, kind |-> kind, id |-> id, text |-> text]
Push(kind, id, text) == [kind |-> kind, id |-> id, text |-> text]

\* A message as it is stored, and what a copy has of it.
Fresh(text, scheduled) == [text |-> text, deleted |-> FALSE, reaction |-> Cleared,
                           pinned |-> FALSE, scheduled |-> scheduled]
Shown(id, m) == [id |-> id, text |-> m.text, deleted |-> m.deleted,
                 reaction |-> m.reaction, pinned |-> m.pinned]

EmptyStore == [known |-> FALSE, held |-> <<>>, cursor |-> NoId, version |-> 0,
               marker |-> NoId, before |-> NoId]

Init ==
    /\ setting \in Settings
    /\ server = [messages |-> <<>>, changes |-> <<>>, changeSeq |-> 0, marker |-> NoId]
    /\ member = ~JoinsLate
    /\ pending = [p \in Peers |-> <<>>]
    /\ online = FALSE /\ pushes = <<>> /\ request = {} /\ reply = {}
    /\ store = EmptyStore

\* A finite set of numbers in ascending order, and what a sequence has at such places.
Ascending(S) ==
    CHOOSE q \in [1 .. Cardinality(S) -> S] : \A i, j \in DOMAIN q : i < j => q[i] < q[j]
At(q, S) == LET places == Ascending(S) IN [i \in DOMAIN places |-> q[places[i]]]

--------------------------------------------------------------------------------
(* What the server answers *)

\* Variant: scheduled messages are not filtered out.
ShowsScheduled(s) ==
    [i \in DOMAIN s.messages |-> Shown(i, s.messages[i])]

Visible(s) ==
    LET ids == Ascending({i \in DOMAIN s.messages : ~s.messages[i].scheduled})
    IN  [k \in DOMAIN ids |-> Shown(ids[k], s.messages[ids[k]])]

Descriptor(s, messages, changes) ==
    [messages |-> messages, changes |-> changes, version |-> s.changeSeq,
     marker |-> s.marker, nextBefore |-> NoId]

MessagesAfter(s, cursor) ==
    LET visible == Visible(s)
    IN  At(visible, {k \in DOMAIN visible : visible[k].id > cursor})

ChangesAfter(s, version) ==
    At(s.changes, {k \in DOMAIN s.changes : s.changes[k].version > version})

\* Variant: a version older than the retained log is not noticed.
NeverTooOld(s, version) == FALSE

\* The log no longer reaches back to the version.
LogTooShort(s, version) ==
    s.changes # <<>> /\ version + 1 < s.changes[1].version

\* The conversation's entry in the answer; nothing when there is nothing new.
DescriptorSince(s, cursor, version) ==
    LET known    == \E m \in ToSet(Visible(s)) : m.id = cursor
        messages == MessagesAfter(s, cursor)
        changes  == ChangesAfter(s, version)
    IN  IF ~known \/ LogTooShort(s, version) THEN {Descriptor(s, Visible(s), <<>>)}
        ELSE IF messages = <<>> /\ changes = <<>> THEN {}
        ELSE {Descriptor(s, messages, changes)}

DescriptorPage(s, before) ==
    LET visible == Visible(s)
        end     == IF before = NoId THEN Len(visible)
                   ELSE Cardinality({k \in DOMAIN visible : visible[k].id < before})
        start   == IF end > PageSize THEN end - PageSize ELSE 0
        page    == SubSeq(visible, start + 1, end)
    IN  [Descriptor(s, page, <<>>) EXCEPT
            !.nextBefore = IF start > 0 THEN page[1].id ELSE NoId]

Answer(s, r) ==
    CASE ~member            -> {}
      [] r.kind = "full"    -> {Descriptor(s, Visible(s), <<>>)}
      [] r.kind = "since"   -> DescriptorSince(s, r.cursor, r.version)
      [] r.kind = "page"    -> {DescriptorPage(s, r.cursor)}

--------------------------------------------------------------------------------
(* What the client makes of it *)

Holds(st, id) == \E m \in ToSet(st.held) : m.id = id

NotHeld(st, messages) == At(messages, {k \in DOMAIN messages : ~Holds(st, messages[k].id)})

\* upsert_message for each: replaced where it is held, else appended.
Upserted(st, messages) ==
    LET incoming(id) == CHOOSE m \in ToSet(messages) : m.id = id
        replaced == [i \in DOMAIN st.held |->
                        IF \E m \in ToSet(messages) : m.id = st.held[i].id
                        THEN incoming(st.held[i].id) ELSE st.held[i]]
        held     == replaced \o NotHeld(st, messages)
    IN  [st EXCEPT !.held = held,
                   !.cursor = IF messages = <<>> THEN @ ELSE held[Len(held)].id]

Rewritten(st, id, New(_)) ==
    [st EXCEPT !.held = [i \in DOMAIN @ |-> IF @[i].id = id THEN New(@[i]) ELSE @[i]]]

Edited(st, id, text) ==
    LET New(m) == [m EXCEPT !.text = text] IN Rewritten(st, id, New)
Deleted(st, id) ==
    LET New(m) == [m EXCEPT !.text = Cleared, !.deleted = TRUE] IN Rewritten(st, id, New)
Reacted(st, id, reaction) ==
    LET New(m) == [m EXCEPT !.reaction = reaction] IN Rewritten(st, id, New)
Pinned(st, id, pinned) ==
    LET New(m) == [m EXCEPT !.pinned = pinned] IN Rewritten(st, id, New)
Marked(st, id) == IF id = NoId THEN st ELSE [st EXCEPT !.marker = id]
Versioned(st, version) == IF version > st.version THEN [st EXCEPT !.version = version] ELSE st

\* What a change and a push of the same kind have in common.
Applied(st, e) ==
    CASE e.kind = "message_edited"  -> Edited(st, e.id, e.text)
      [] e.kind = "message_deleted" -> Deleted(st, e.id)
      [] e.kind = "read_marker"     -> Marked(st, e.id)
      [] e.kind = "message_reaction_updated" -> Reacted(st, e.id, e.text)
      [] e.kind = "message_pin_updated"      -> Pinned(st, e.id, e.text = PinnedText)
      [] OTHER                      -> st

\* A change of another kind (message_deliver, conversation_updated) only counts.
ChangeApplied(st, c) == Versioned(Applied(st, c), c.version)

PushApplied(st, p) ==
    LET known == [st EXCEPT !.known = TRUE]
    IN  IF p.kind = "message_deliver"
        THEN Upserted(known, <<Shown(p.id, Fresh(p.text, FALSE))>>)
        ELSE Applied(known, p)

FullApplied(d) ==
    [known |-> TRUE, held |-> d.messages, version |-> d.version, marker |-> d.marker,
     cursor |-> IF d.messages = <<>> THEN NoId ELSE d.messages[Len(d.messages)].id,
     before |-> d.nextBefore]

\* The changes, one after the other.
Replayed(st, changes) ==
    LET after[n \in 0 .. Len(changes)] ==
            IF n = 0 THEN st ELSE ChangeApplied(after[n - 1], changes[n])
    IN  after[Len(changes)]

SinceApplied(st, d) ==
    LET met == Versioned(Marked([st EXCEPT !.known = TRUE], d.marker), d.version)
    IN  Replayed(Upserted(met, d.messages), d.changes)

\* Messages not held yet go to the front; the version is taken as the copy's own.
PageApplied(st, d) ==
    LET met  == Versioned(Marked([st EXCEPT !.known = TRUE], d.marker), d.version)
        held == NotHeld(st, d.messages) \o st.held
    IN  [met EXCEPT !.held = held, !.before = d.nextBefore,
                    !.cursor = IF @ = NoId /\ held # <<>> THEN held[Len(held)].id ELSE @]

AnswerApplied(st, kind, descriptors) ==
    IF descriptors = {} THEN IF kind = "full" THEN EmptyStore ELSE st
    ELSE LET d == CHOOSE d \in descriptors : TRUE
         IN  CASE kind = "full"  -> FullApplied(d)
               [] kind = "since" -> SinceApplied(st, d)
               [] kind = "page"  -> PageApplied(st, d)

--------------------------------------------------------------------------------
(* The server *)

\* Variant: the log is never compacted.
NeverTrimmed(changes) == changes

\* The last Retained entries.
Trimmed(changes) ==
    IF Len(changes) > Retained
    THEN SubSeq(changes, Len(changes) - Retained + 1, Len(changes)) ELSE changes

Recorded(s, kind, id, text) ==
    [s EXCEPT !.changeSeq = @ + 1,
              !.changes = Trimmed(Append(@, Change(s.changeSeq + 1, kind, id, text)))]

Due(s) == {i \in DOMAIN s.messages : s.messages[i].scheduled}

\* One after the other; what is compacted is the same in the end.
Released(s, due) ==
    LET ids == Ascending(due)
    IN  [s EXCEPT
            !.messages = [i \in DOMAIN @ |-> IF i \in due THEN [@[i] EXCEPT !.scheduled = FALSE]
                                              ELSE @[i]],
            !.changeSeq = @ + Len(ids),
            !.changes = Trimmed(@ \o [k \in DOMAIN ids |->
                            Change(s.changeSeq + k, "message_deliver", ids[k],
                                   s.messages[ids[k]].text)])]

\* A peer's session is served by one thread: it fans out before it mutates again.
Serves(p, push) == pending[p] = <<>> /\ pending' = [pending EXCEPT ![p] = <<push>>]

clientVars == <<online, pushes, request, reply, store>>

SendMessage(p, text) ==
    /\ Len(server.messages) < MaxMessages
    /\ server' = [server EXCEPT !.messages =
                    Append(@, Fresh(text, FALSE))]
    /\ Serves(p, Push("message_deliver", Len(server.messages) + 1, text))
    /\ UNCHANGED <<setting, member, clientVars>>

\* What a message says now is sent again.
ForwardMessage(p, id) ==
    /\ ~server.messages[id].deleted
    /\ SendMessage(p, server.messages[id].text)

\* The command and the service's reply are stored and recorded, the reply is pushed.
ServiceCommand(p, text) ==
    /\ Commanding
    /\ Len(server.messages) + 2 <= MaxMessages /\ server.changeSeq + 2 <= MaxChanges
    /\ LET command == Len(server.messages) + 1
           stored  == [server EXCEPT !.messages = @ \o <<Fresh(text, FALSE), Fresh(text, FALSE)>>]
       IN  /\ server' = Recorded(Recorded(stored, "message_deliver", command, text),
                                 "message_deliver", command + 1, text)
           /\ Serves(p, Push("message_deliver", command + 1, text))
    /\ UNCHANGED <<setting, member, clientVars>>

ScheduleMessage(p, text) ==
    /\ Scheduling /\ pending[p] = <<>>
    /\ Len(server.messages) < MaxMessages
    /\ server' = [server EXCEPT !.messages =
                    Append(@, Fresh(text, TRUE))]
    /\ UNCHANGED <<setting, member, pending, clientVars>>

EditMessage(p, id, text) ==
    /\ server.changeSeq < MaxChanges
    /\ ~server.messages[id].deleted
    /\ server' = Recorded([server EXCEPT !.messages[id].text = text],
                          "message_edited", id, text)
    /\ Serves(p, Push("message_edited", id, text))
    /\ UNCHANGED <<setting, member, clientVars>>

DeleteMessage(p, id) ==
    /\ server.changeSeq < MaxChanges
    /\ ~server.messages[id].deleted
    /\ server' = Recorded([server EXCEPT !.messages[id].text = Cleared,
                                         !.messages[id].deleted = TRUE],
                          "message_deleted", id, Cleared)
    /\ Serves(p, Push("message_deleted", id, Cleared))
    /\ UNCHANGED <<setting, member, clientVars>>

\* Both record what the message has now, and push the same.
Retouch(p, id, kind, message, text) ==
    /\ server.changeSeq < MaxChanges
    /\ ~server.messages[id].deleted
    /\ server' = Recorded([server EXCEPT !.messages[id] = message], kind, id, text)
    /\ Serves(p, Push(kind, id, text))
    /\ UNCHANGED <<setting, member, clientVars>>

ToggleReaction(p, id) ==
    LET reaction == IF server.messages[id].reaction = Cleared THEN Liked ELSE Cleared
    IN  Retouch(p, id, "message_reaction_updated",
                [server.messages[id] EXCEPT !.reaction = reaction], reaction)

SetPin(p, id, pinned) ==
    Retouch(p, id, "message_pin_updated", [server.messages[id] EXCEPT !.pinned = pinned],
            IF pinned THEN PinnedText ELSE Cleared)

\* The marker only moves forward; the push tells where it is.
MarkRead(p, id) ==
    /\ server.changeSeq < MaxChanges
    /\ LET effective == IF id > server.marker THEN id ELSE server.marker
       IN  /\ server' = IF effective = server.marker THEN server
                        ELSE Recorded([server EXCEPT !.marker = effective],
                                      "read_marker", effective, Cleared)
           /\ Serves(p, Push("read_marker", effective, Cleared))
    /\ UNCHANGED <<setting, member, clientVars>>

AddParticipant(p) ==
    /\ ~member /\ server.changeSeq < MaxChanges
    /\ member' = TRUE
    /\ server' = Recorded(server, "conversation_updated", NoId, Cleared)
    /\ Serves(p, Push("conversation_updated", NoId, Cleared))
    /\ UNCHANGED <<setting, clientVars>>

\* Whoever is a participant and online by now gets the push.
FanOut(p) ==
    /\ pending[p] # <<>>
    /\ Len(pushes) < MaxPushes
    /\ pushes' = IF online /\ member THEN pushes \o pending[p] ELSE pushes
    /\ pending' = [pending EXCEPT ![p] = <<>>]
    /\ UNCHANGED <<setting, server, member, online, request, reply, store>>

\* A peer's own sync: its answer is not ours, but it releases what is due.
PeerSyncs ==
    /\ server.changeSeq < MaxChanges
    /\ \E i \in Due(server) : server' = Released(server, {i})
    /\ UNCHANGED <<setting, member, pending, clientVars>>

--------------------------------------------------------------------------------
(* The client *)

Idle == request = {} /\ reply = {}

Ask(kind, cursor) ==
    request' = {[kind |-> kind, cursor |-> cursor, version |-> store.version]}

\* The session is registered, then the sync is asked for with the cached cursors,
\* or in full when nothing is cached.
Login ==
    /\ ~online /\ Idle /\ pushes = <<>>
    /\ online' = TRUE
    /\ Ask(IF store.known THEN "since" ELSE "full", store.cursor)
    /\ UNCHANGED <<setting, server, member, pending, pushes, reply, store>>

\* sync_after_server_mutation
AskFull ==
    /\ online /\ Idle
    /\ Ask("full", NoId)
    /\ UNCHANGED <<setting, server, member, pending, online, pushes, reply, store>>

\* load_older_history
AskPage ==
    /\ online /\ Idle /\ store.known /\ PageSize > 0
    /\ Ask("page", store.before)
    /\ UNCHANGED <<setting, server, member, pending, online, pushes, reply, store>>

\* Releases what is due, then answers.
ServeSync(due) ==
    /\ request # {}
    /\ due \subseteq Due(server) /\ server.changeSeq + Cardinality(due) <= MaxChanges
    /\ server' = Released(server, due)
    /\ reply' = {[kind |-> r.kind, descriptors |-> Answer(server', r),
                  ahead |-> IF Overtaking THEN 0 ELSE Len(pushes)] : r \in request}
    /\ request' = {}
    /\ UNCHANGED <<setting, member, pending, online, pushes, store>>

ApplyReply ==
    /\ \E r \in reply : r.ahead = 0 /\ store' = AnswerApplied(store, r.kind, r.descriptors)
    /\ reply' = {}
    /\ UNCHANGED <<setting, server, member, pending, online, pushes, request>>

ApplyPush ==
    /\ pushes # <<>>
    /\ Overtaking \/ \A r \in reply : r.ahead > 0
    /\ store' = PushApplied(store, Head(pushes))
    /\ pushes' = Tail(pushes)
    /\ reply' = {[r EXCEPT !.ahead = IF Overtaking THEN 0 ELSE @ - 1] : r \in reply}
    /\ UNCHANGED <<setting, server, member, pending, online, request>>

AtRest == Idle /\ pushes = <<>> /\ \A p \in Peers : pending[p] = <<>>

\* What the GUI thread was already given is still applied; the rest is gone.
Disconnect ==
    /\ online /\ (Drops \/ AtRest)
    /\ online' = FALSE
    /\ \E n \in 0 .. Len(pushes) :
        /\ pushes' = SubSeq(pushes, 1, n)
        /\ reply' = {r \in reply : r.ahead <= n}
    /\ request' = {}
    /\ UNCHANGED <<setting, server, member, pending, store>>

\* The cases of the dispatcher: what a peer's session asks for.
DispatchSend(p)    == \E text \in Text : SendMessage(p, text) \/ ScheduleMessage(p, text)
DispatchCommand(p) == \E text \in Text : ServiceCommand(p, text)
DispatchForward(p) == \E id \in DOMAIN server.messages : ForwardMessage(p, id)
DispatchEdit(p)    == \E id \in DOMAIN server.messages, text \in Text : EditMessage(p, id, text)
DispatchDelete(p)  == \E id \in DOMAIN server.messages : DeleteMessage(p, id)
DispatchRead(p)    == \E id \in DOMAIN server.messages : MarkRead(p, id)
DispatchReaction(p) == \E id \in DOMAIN server.messages \cap Touchable : ToggleReaction(p, id)
DispatchPin(p) == \E id \in DOMAIN server.messages \cap Touchable, pinned \in BOOLEAN :
                    SetPin(p, id, pinned)

Next ==
    \/ \E p \in Peers :
        \/ DispatchSend(p) \/ DispatchCommand(p) \/ DispatchForward(p)
        \/ DispatchEdit(p) \/ DispatchDelete(p) \/ DispatchRead(p)
        \/ DispatchReaction(p) \/ DispatchPin(p)
        \/ AddParticipant(p)
        \/ FanOut(p)
    \/ PeerSyncs
    \/ Login \/ AskFull \/ AskPage \/ ApplyReply \/ ApplyPush \/ Disconnect
    \/ \E due \in SUBSET Due(server) : ServeSync(due)

Spec == Init /\ [][Next]_vars

--------------------------------------------------------------------------------
(* Properties *)

Entry == [id : 1 .. MaxMessages, text : Text \cup {Cleared}, deleted : BOOLEAN,
          reaction : {Cleared, Liked}, pinned : BOOLEAN]

\* The change log ends at change_seq and keeps at most Retained entries
\* (_record_change, chat.py:1180-1202), and the copy's cursor is a held message.
TypeOK ==
    /\ Len(server.changes) <= Retained
    /\ \A k \in DOMAIN server.changes :
        server.changes[k].version = server.changeSeq - Len(server.changes) + k
    /\ ToSet(store.held) \subseteq Entry
    /\ store.cursor # NoId => Holds(store, store.cursor)
    /\ store.version <= server.changeSeq
    /\ Cardinality(request \cup reply) <= 1

\* A scheduled message "is hidden until release_due_scheduled"
\* (validate_composer_scheduled_silent.py:91): no push, sync or page brings it to
\* anyone before.
ScheduledStaysHidden == \A m \in ToSet(store.held) : ~server.messages[m.id].scheduled

\* The copy after one more login, when everything on its way has arrived.
Resynced ==
    AnswerApplied(store, "since", DescriptorSince(server, store.cursor, store.version))

\* Undisturbed, a login "reconciles cached state to server truth" (store_test.cpp:470):
\* whatever logging out at rest, compaction of the log and pages did to the copy, after
\* the next incremental sync it shows every visible message with its current text, and
\* where the peer has read.
SyncReconciles ==
    (setting = {} /\ AtRest /\ member /\ store.known) =>
        /\ ToSet(Resynced.held) = ToSet(Visible(server))
        /\ Resynced.marker = server.marker

\* A login loses no message: "reconnect does not lose conversation history"
\* (implementation-roadmap.md:96), whatever pushes a failing connection took along.
NoMessageMissing ==
    (AtRest /\ member /\ store.known) =>
        {m.id : m \in ToSet(Visible(server))} = {m.id : m \in ToSet(Resynced.held)}

================================================================================
