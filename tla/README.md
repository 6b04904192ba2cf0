# Verification of the telegram server and client

This directory holds TLA+ specifications of this repository's server and of the
client parts that depend on its timing, the TLC configurations that check
them, and proofs that TLAPS checks. Paths below are relative to the repository root.

1. [The system](#1-the-system)
2. [What is modelled](#2-what-is-modelled)
3. [Runs, bounds, fairness](#3-runs-bounds-fairness)
4. [Proofs](#4-proofs)
5. [What the checks found](#5-what-the-checks-found)
6. [Not modelled](#6-not-modelled)
7. [Plan](#7-plan)

To check: `tlc -config X.cfg M.tla` for each run of `PROJECT.json`, and
`tlapm XProofs.tla` for each proof module.

## 1. The system

A Python server (`server/server`) serves chat, calls and remote control over a
TCP control plane: one thread per connection (`control_plane.py`,
`ThreadingTCPServer`) reads a line, hands it to the one `ServerApplication.dispatch`
(`app.py`) and writes the answer. All services work on one `InMemoryState`
(`state.py`) that is written to a JSON file, SQLite or Postgres after a mutation;
sessions and presence can also be cached in Redis. A UDP plane (`media_plane.py`)
relays media and remote input; `reliable_stream.py` puts ordering and
retransmission on top. C++ clients (`client/src`) share one connection
class, one RPC client and one message store; a Qt desktop program, a mobile
bridge and command-line tools sit on top, and a browser client talks through a
WebSocket bridge.

**Nothing serialises handlers.** Two connections' handlers interleave wherever the
interpreter may switch threads, and only a few services take a lock, each its own.
This, and everything that crosses a network, a process restart or a GUI thread, is
where the hard behaviour is.

| Component | State | Operations | Talks to | Hard behaviour | Correct when |
|---|---|---|---|---|---|
| Reliable channel (`reliable_stream.py`, `relay_peer.py`) | next number, `_unacked`; `_expected`, `_buffered`, `_pending_nak`, `_delivered` | `send`, `tick_retransmit`, `ingest`, `pop_delivered` | UDP relay | loss, duplication, reordering, lost tails and ACKs | payloads come out in order, once, and eventually |
| Conversations and sync (`chat.py`, `app.py`; `desktop_chat_store.cpp`) | messages, change log, `change_seq`, read markers; the copy, its cursor and version | send, forward, edit, delete, react, pin, mark read, schedule, add; full, incremental and paged sync; push | connection registry, state | pushes against syncs, log compaction, dropped pushes, paging | after a login the copy is the server's conversation |
| Sessions (`auth.py`, `phone_otp.py`, `redis_cache.py`, `presence.py`) | `sessions`, `_session_counter`, cache entries, state file | login, second factor, phone sign-in, resolve, heartbeat, revoke, evict, restart | Redis, state file | two-step sign-ins, saves that overtake each other, copies put in place of newer tables, stale cache, restart | an id is one user's; ended and idle sessions are refused |
| Client connection (`tcp_line_client.cpp`, `control_plane_client.cpp`) | `running_` twice, `inbox_`, reader, dispatcher and heartbeat threads | connect, request, push dispatch, disconnect, destroy | server | threads sharing an inbox, timeouts racing answers, joins | pushes in order, no lost answer, quiet after disconnect, no deadlock |
| Remote sessions (`remote_session.py`) | record: state, media key | invite, approve, reject, cancel, terminate, disconnect, rendezvous | state file | check-then-act on the key; concurrent saves | one key per session; an ended session stays ended |
| Group roles and membership (`chat.py`) | participants, roles | add, remove, leave, set role | account deletion | sequences of legal calls, lists replaced by copies | who was added is in, who left is out, the owner goes only by leaving |
| Account lifecycle (`account_lifecycle.py`) | every table of the user | delete | all of the above | a walk over live tables, table by table | a deleted account is gone everywhere |
| Chunked upload and attachments (`chat.py`, `attachment_store.py`) | `_uploads`, buffers, numbers, attachments | init, chunk, complete, send with the message | messages | unlocked counters, limits, two requests on one upload | a message carries the whole file, once |
| Polls (`polls.py`) | votes, closed | create, vote, close | messages | closed tested outside the lock | no vote after the announced result |
| Contacts, blocks, drafts, flags (`contacts.py`, `block_mute.py`, `drafts.py`, `conversation_flags.py`) | a table per kind and user | add, name, remove, block, save, clear, pin, archive, mute | sends, account deletion | read-modify-write of lists against deletions | what a user was told last is what is kept |
| Push tokens (`push_tokens.py`) | tokens per user and device | register, rotate, unregister, list | fan-out | lists rebuilt without a lock | as above |
| Calls (`call_session.py`) | record: state, media key | invite, accept, decline, end, rendezvous | fan-out | accepted before the key exists | both sides use one key; what is over is over |
| Presence (`presence.py`) | `last_seen_at` per session, cache | touch, revoke, query | sessions, fan-out | transitions computed from other sessions, cached answers | who is fresh was announced; who is said online was seen |
| Connection registry, control plane, web bridge (`connection_registry.py`, `control_plane.py`, `web_bridge.py`) | writer per session | register, push, unregister | dispatcher | a failed push, a lost peer, a session never registered | who is connected and has synced lacks no message |
| State file (`state.py`, `repositories.py`) | file or database | load, save | every service | concurrent and torn writes, what is not loaded | what was answered survives a restart |
| Codes (`phone_otp.py`), second factor (`two_fa.py`), accounts (`auth.py`) | code, attempts, expiry; pending secrets; users | request, verify; enable, confirm, disable; register, login | limiter, state file | attempts against expiry, concurrent creation | a code is used once, a number has one account |
| Rate limiter (`rate_limiter.py`) | token buckets | `try_acquire` | dispatcher | clock read outside the lock | never more than burst and gain |
| Dispatcher and fan-out (`app.py`) | metrics, mid-flight requests | one case per message type | every service | mutate, then push, then answer | in each module for its cases |
| Profiles, settings, reports, search; push dispatch queue; observability; media plane, codecs; protocol; front ends; scripts | | | | | see [6](#6-not-modelled) |

`PROJECT.json` lists every component with its sources, and every hazard with the
line where it bites and the properties that would notice.

### How fine a step is

A step of a model ends where the running program can be interrupted with effect:

- Python: at calls and loop iterations (the interpreter of the CI workflow, 3.12,
  switches threads only there). Tests and the assignments after them in a straight
  line with no call in between are one step; `save_runtime_state`, `generate_key_b64`,
  a password hash, a cache call, a lock or the second call of a two-call handler begin
  another. A list or table that is computed from another one and takes its place (`x = [e for e
  in x ...]`) is two steps: copied, replaced. A save is three where what lands last matters
  (`Sessions`, `StateStore`, `RemoteSession`): the memory changes, the payload is taken, it is
  written; in `Groups` a payload is computed with the change and may be written late. A method whose callers all hold one lock is
  one step (`ReliableChannel` under `RelayPeerSession._lock`).
- In the conversation's modules a request has a first step, which makes its tests, and a
  last one, which changes the conversation, saves and answers: what could come between
  two tests of one request is not told apart from what comes after the last.
- C++: a critical section of `inbox_mutex_` is one step, a read or write of an
  atomic flag is a step with what follows it up to the next shared access.
- Whole messages travel; framing, encryption and parsing are not in the models.
- A request that is refused changes nothing and is left out; one that fails after it
  changed something is in.

### How the modules fit together

```
FifoDelivery <- ReliableChannel <- ReliableChannelProofs        Sessions <- SessionsProofs
                                                                RemoteSession <- RemoteSessionProofs
ConversationSync <- ConversationSyncProofs                      LineClient <- LineClientProofs

GroupChat <- Uploads, Polls, Personal <- Groups <- GroupsProofs

Handlers <- StateStore, Reach, Calls;  RateLimiter
StateStore, RateLimiter <- SignIn;     SignIn, Reach, Calls <- Server <- ServerProofs
                                       (SignInProofs)
```

`A <- B`: B extends A (`ReliableChannel` instantiates `FifoDelivery`). Each `XMC` extends
`X` with the values of the run's constants. `Groups` and `Server` are compositions: their
components share handlers (a handler serves one request of any component at a time), the
clock and the restart, and a request of one component meets the state of another: an
account deletion walks sessions, push tokens, contacts, participants and messages while a
send, a vote or an upload of the same user is in flight; a restart takes the memory of all
of them to what the file holds.

## 2. What is modelled

### `ReliableChannel`, `FifoDelivery`

One direction between two `ReliableChannel` objects (the two directions share no
state). Variables are the object's fields (`_buffered` and `_unacked` as sets of
datagrams), the datagrams on the wire, and two histories: what was handed to
`send`, what `pop_delivered` returned. Actions are the methods: `Send`,
`TickRetransmit`, `IngestNak`, `IngestAck`, the three cases of `_ingest_rel`
(`IngestOld`, `IngestExpected`, `IngestAhead`), `PopDelivered`. A datagram on the
wire stays there until a `Lose` action takes it, and may be ingested any number of
times before: that is loss, duplication, delay and reordering at once.

`FifoDelivery` is what the module docstring of `reliable_stream.py` promises: accept
payloads, hand over prefixes. `ImplementsFifo` is the refinement, `received <- popped`.

### `ConversationSync`

One conversation on the server and one desktop copy. Server: the
messages with text, reaction, pin and deletion, the change log with `change_seq` and
compaction (`Trimmed`), the read marker. Client: the held messages in order, cursor
(`last_message_id`), `sync_version`, marker, and where the next history page ends.
A mutation and its fan-out are two steps (`SendMessage`, `ForwardMessage`,
`ServiceCommand`, `EditMessage`, `DeleteMessage`, `ToggleReaction`, `SetPin`, `MarkRead`,
then `FanOut`) of the peer session's thread; `ServeSync` releases what is due and answers
by cursor and version, with the whole conversation where the log is too short;
`ApplyReply` and `ApplyPush` are `apply_sync` / `apply_incremental_sync` /
`apply_history_page` and `apply_push`. `AnswerApplied`, `DescriptorSince` and the rest are
operators so that properties can ask what a login *would* yield.

`setting` is a fixed set of disturbances per behaviour: scheduled messages, service
commands, answers overtaken by pushes, connections that drop with something on its way, a
user who joins late. The design recovers from some of them and not from others (section
5), so each property says under which it is claimed.

### `Sessions`

The tables ids -> session in memory, in the file and in Redis; the counter; a clock;
per connection (`work`) the request it is in the middle of. A request looks its session up
(`Found`, `Accepts`: the cache first, then the memory) and goes through the calls that its
handler makes, one step each:

- a login: `Login` (minted and in the table), then saved, cached, and `RollBackLogin` or `Answer`
  by the second factor; a phone sign-in: `CountSessions`, `AddPhoneSession`, saved, answered;
- a heartbeat: `Heartbeat`, `GetSession`, `Touch`, saved; an eviction: `FindIdle`, `Evict`, saved,
  its cache entry dropped; a revocation: `RevokeDevice`, `CopySessions`, `ReplaceSessions`, saved;
- the save that all of them make: `TakePayload`, `WriteFile`, or `SaveRaises` because another
  handler changed the table while it was walked. What was changed stays changed then, and the
  request ends;
- the cache: `FillCache` after a miss, `CallCache` otherwise.

`Tick` expires cache entries, `Restart` reloads the file and rebuilds the counter from it. `load`
is fixed per behaviour: the deployment (a Redis cache or none, phone sign-in or none) and how many
requests of each kind come. Histories: `held` (who was answered which id), `ended`, `refused` (ids
of which somebody was told that they are ended), `latest` (when a session was heard of), and
`undone`: ids that an older payload written last, or a revocation's copy of the table, took out or
brought back. The code does not order these, so `OwnSession` and `EndedIsRejected` are claimed of
the other ids; section 5 says what happens to those.

### `LineClient`

The threads, flags and inbox of one C++ connection. The reader appends frames; the
dispatcher takes the first push wherever it is in the inbox; the owner connects, sets the handler,
disconnects (three joins in turn, as `disconnect()` has them) and destroys. A caller is in
`wait_for`: it scans the inbox (`CallReturns` if it finds its answer), sleeps (`CallSleeps`), is
woken by a notification, for no reason or at its deadline (`CallWakes`), and scans again, for the
last time after the deadline (`CallGivesUp`). `owed` is a history: answers that came into the inbox
while their caller was anywhere in this. `tcpRunning` is `TcpLineClient::running_`, which the
reader, a failed send and `shutdown_reader` all clear, `running` is
`ControlPlaneClient::running_`. Time is left out: a deadline may pass at any time.

### `RemoteSession`

One remote-control session, any number of handlers. Each operation's checks and
assignments are one step; `TakeSnapshot` and `Write` are `persist_remote_session`
(turning the state into a payload, writing it); `Mint` is the key generated between
the test for an empty key and its assignment; `Answer` is the response. `Restart`
forgets handlers and reloads the file. `load` is fixed per behaviour: which
connections have requests, and whether the server may crash.

### `GroupChat`, `Uploads`, `Polls`, `Personal`, composed by `Groups`

One conversation with everything that changes it. `task[h]` is the request that handler
`h` is in the middle of.

- `GroupChat`: `participants` counts mentions, because two handlers may both append a
  user; `roles`; `posts` with the ids the handlers took. `XRequest` actions are the
  tests of the dispatcher and the service, `AddParticipant`, `RemoveParticipant`,
  `SetRole`, `Send` what follows. Deleting an account is a chain of steps in the order of
  `AccountLifecycleService.delete`: `DropSessions`, then (in `Personal`) `CopyTokens`,
  `ReplaceTokens`, `CopyContacts`, `ReplaceContacts` or `DeletionFails`, then
  `RebuildParticipants`, `ReplaceParticipants`, `DropUser`.
- `Uploads`: uploads under way with next chunk and buffer; a request of a reconnected client
  can race the one its first connection still serves. `CompleteRequest` records the
  attachment and takes the message id before `PostAttachment` sees whether the user is still
  in; `AttachRequest` and `SendAttachment` are an attachment within its message.
- `Polls`: the test that the poll is open and the vote that is counted are two steps, the
  answer of a close is a third (`AnnounceResult`).
- `Personal`: `kept[u][item]` stands for eight tables: contacts and the names given to
  them, blocked users, a draft, the pinned, archived and muted flags, push tokens. Lists
  that are replaced by a computed copy (tokens; the contacts of others in a deletion) are
  copied and replaced in two steps, and a request that has looked a list up works on one
  that is nobody's any more when it was replaced (`KeepNowhere`). `Heard` is the block test
  that a message meets; a message that was sent clears the sender's draft (`ClearDraft`).
- `Groups`: which steps end with a save (`Save`), what the file holds (`Snapshot`) and what a
  restart makes of it: roles are not read back, uploads, drafts, flags, blocks, mutes and tokens are
  not saved, the message counter is rebuilt from the ids. A payload may be written after newer ones
  (`late`, `Writes`); a restart that reads such a file (`Outdated`) may lose or bring back anything.

No request is refused because its user's sessions are gone: an account's deletion drops them from
the memory and not from the cache (`auth.py:185-203`, `account_lifecycle.py`, `app.py:2008-2031`), so
a request of a user whose account is being deleted, or was, may be accepted, and gets as far as its
own tests let it: a push token or a contact is registered, a message is not sent.

Histories: `told` and `answered` are what a user was told last about membership and
about each item, with "unclear" where two requests crossed so that the code promises
nothing; `gone`, `shared`, `raced` and `announced` mark deletions, ids, uploads and results
that must hold; `interfered` and `returned` are users of whom a request was taken up during the
deletion of their account, and after it. A restart leaves what was answered of an item that the file
does not have "unclear": nothing is claimed of it then.

### `StateStore`, `RateLimiter`, `SignIn`, `Reach`, `Calls`, composed by `Server`

The server around the conversations.

- `StateStore`: the state as a set of facts, saved to one of three backends. JSON: payload
  taken (`Take`), file truncated (`Open`), written (`Write`), which may mix with another
  one's write (`Torn`). SQLite: rows deleted and committed (`Delete`), inserted (`Insert`).
  Postgres: one transaction (`Commit`), or a single row (`Upsert`). `Fail` is a save that
  raises because a table changed while it was walked. `Reload` reads back what
  `_apply_payload` and the repositories read (`Kept`).
- `RateLimiter`: the buckets; the time that a request took before the lock is a parameter.
- `SignIn`: codes by phone (asked for, tried, expired, exhausted), accounts by registration
  or by a right code, a login, enabling, confirming and disabling a second factor, a
  remote session's key: each step between two calls is an action, each save goes through
  `StateStore`.
- `Reach`: per session `last_seen_at` and its connection, per user the cached presence entry.
  Sign-ons, with the second factor's rollback (`RollBack`), heartbeats and revocations (`Revoke`,
  `CopySessions`, `ReplaceSessions`, `Recheck`) up to the announcements they make, or up to a save that
  raises (`SaveRaises`): what was changed stays, and nothing is announced. Then the writer is
  registered for the first login's answer (`Register`) and the answer is written (`Answer`).
  Connections are lost and closed. A message lists the sessions of each user (`List`), writes to each
  (`Push`) and wakes who is offline (`Wake`), if it is of a kind that wakes anybody, or its save raises
  and nobody is told (`SendFails`). `disturbed` is a history: users of whom, since the last
  announcement, two requests crossed, a save failed, or a table put in another's place changed the
  sessions. `synced` and `behind`: whose client has synced, whose lacks a message.
- `Calls`: one call; `Accept` and `MintCallKey` are the two steps of accept.
- `Server`: one handler serves one request of any of them at a time, one clock, one restart.

### Definitions beside the model

Definitions whose comment begins with "Variant" (and a few in the older modules without the
word: `AcksExpected`, `ReadsAgain`, `RejectLate`, ...) are used by no specification;
each is a plausible mistake in the definition it precedes, and `PROJECT.json` pairs it with
the property that notices it.

## 3. Runs, bounds, fairness

| Run | Distinct states | Shows |
|---|---|---|
| `reliable` | 25 thousand | `InOrderExactlyOnce`, `ForgottenIsDelivered` (the sender forgets only what the receiver passed), `NakIsForAGap`, `ImplementsFifo`; under fairness `EventuallyPopped`, tail loss included |
| `sync` | 5.9 million | undisturbed, `SyncReconciles`; with every disturbance, `ScheduledStaysHidden`, a contiguous log of bounded length, a cursor that is always a held message |
| `sessions` | 3.4 million | `OwnSession`, `IdleIsRejected` with a cache, and with neither cache nor phone sign-in; `EndedIsRejected` without a cache, with phone sign-in or not; concurrent requests, crossing saves and copies, restarts |
| `client` | 280 thousand | `PushesInOrder`, `QuietAfterDisconnect`, `AnswerIsNotLost` (an answer that came while its caller was in `wait_for` is the caller's, whatever the deadline does); under fairness `DisconnectEnds`, `PushIsHandled` |
| `remote` | 32 thousand | `SameKey` for serial requests with crashes anywhere; `EndedStaysEnded` there, and for three handlers at once without crashes |
| `groups` | 350 thousand | membership as answered, deletions complete, message ids distinct, attachments whole, upload limits, announced results final, items kept as answered, an owner who only leaves: outside the races the histories name, and over restarts as far as the file goes |
| `server` | 1.5 million | the limiter's budget, codes spent once, one account per number, saves that survive, presence recent and announced, no connected client without a message, calls that agree |

Five more runs each find a behaviour that breaks a stated expectation; see
[section 5](#5-what-the-checks-found).

**Bounds.**
- `ReliableChannel`: three numbers are enough for a datagram ahead by more than one, a run
  of held ones drained at once, a NAK for a range, an old datagram and a lost tail. Two
  payloads that differ show a swap; equal ones do not matter.
- `ConversationSync`: two messages, three changes, a log of two entries and pages of
  one message. The log is compacted (three changes, two kept), a version falls off it,
  a page ends in the middle, and the mutation-push-sync triangle has two messages to
  confuse. Two pushes on the way are what it takes for an answer to go between. Only the
  messages in `Touchable` are reacted to or pinned: the two go through the same code for every
  message.
- `Sessions`: two users (one with a second factor and two devices, one with a single
  device), two handlers, three ids, and a clock to 3 with a lifetime of 1 and cache entries of 2, so
  that an entry outlives its session. Loads of three logins, or two revocations, let one save or copy
  overtake another before a restart reads it. Ids run out; nothing is minted then, as if the run
  stopped.
- `LineClient`: two pushes, two requests, two callers of which one is the heartbeat:
  an answer that nobody waits for any more can precede a push and an answer.
- `RemoteSession`: three handlers, four keys: one more than handlers can mint at once.
- `Groups` and `Server`: `Loads` is a set of functions from kinds of requests to how many
  of each may come; every behaviour is bounded by one of them. All requests at once are too
  many; each load (`GroupsMC`, `ServerMC`) puts together kinds that touch the same state, in
  numbers that let two of them cross and a third one see the result: two sends against a
  removal and a deletion, three contacts against a restart, two completes of one upload, sign-ons of
  three sessions with a revocation and a message, a late save with what it may undo. The limiter's
  burst of 4 with a cost of 2 and one token per tick admits three guesses of one code within its life
  of two ticks, one more than `MaxAttempts`, so that the exhausted code is met. Three
  users, because a conversation of two has other rules; two handlers, because what
  crosses is a pair; an upload of two chunks; times of 1 and 2 units, so that entries expire
  between two steps.

`CHECK_DEADLOCK FALSE` everywhere because bounded behaviours end.

**Symmetry** is used for texts, peers, threads, handlers, users and tokens, in runs that check
invariants and step properties; never in a run with liveness.

**Fairness.**
- `ReliableChannel`: weak fairness of `TickRetransmit` and `PopDelivered`, because the
  application loop calls both for as long as it runs (`scripts/validate_reliable_stream.py`,
  `RelayPeerSession.wait_for`); strong fairness of ingesting each *particular* datagram:
  a datagram that is sent for ever is not lost for ever. `Send` is not fair: nobody has to send.
- `LineClient`: weak fairness of each thread's steps: the operating system schedules
  it, a `recv` with something to return returns, a wait ends at its deadline. The
  server owes nothing: it need not answer, push or close, and the owner need not
  disconnect.

Without fairness, and so with safety properties only: the other modules. Their requests wait
for nothing: a handler that has started ends, and whether a client asks is its business.

## 4. Proofs

| Module | Theorem | Says, for every value of the constants |
|---|---|---|
| `ReliableChannelProofs` | `TypeCorrect`, `InOrder`, `NothingForgottenEarly`, `NaksAreForGaps` | the safety properties of the run |
| | `ChannelImplementsFifo` | `Spec => Fifo!Spec` |
| `SessionsProofs` | `TypeCorrect` | types |
| | `AnsweredIdIsOwn` | `OwnSession` |
| | `IdleIsRefused` | `IdleIsRejected` |
| | `EndedIsRefused` | `EndedIsRejected` |
| `RemoteSessionProofs` | `TypeCorrect` | types: no key before approval |
| | `OneKey` | `SameKey` |
| | `EndedForGood` | `EndedStaysEnded` |
| `ServerProofs` | `TypeCorrect` | types of the composition |
| | `Admitted`, `SpentOnce`, `OneAccountEach` | `AdmittedBounded`, `CodeIsSpent`, `OneAccount` |
| | `Recently`, `NothingIsMissing` | `OnlineIsRecent`, `ConnectedHasAll` |
| | `AnsweredIsKept` | `AnsweredSurvives` |
| | `FreshWasAnnounced` | `OnlineIsTold` |
| | `CallsAgreeAlways` | `CallsAgree` |
| `GroupsProofs` | `TypeCorrect` | types, in memory and in the file |
| | `MembershipHolds`, `OwnerLeavesAlone` | `MembershipAsAnswered`, `OwnerOnlyLeaves` |
| | `AnnouncedStays` | `AnnouncedIsFinal` |
| | `UploadsStayBounded`, `AttachmentsStayWhole` | `UploadsBounded`, `AttachmentsAreWhole` |
| | `IdsStayDistinct` | `MessageIdsDistinct` |
| | `KeptStaysAsAnswered`, `DeletedStaysGone` | `KeptAsAnswered`, `DeletedIsGone` |
| `LineClientProofs` | `TypeCorrect` | types: no frame twice in the inbox |
| | `InOrder` | `PushesInOrder` |
| | `QuietAfter`, `NoAnswerLost` | `QuietAfterDisconnect`, `AnswerIsNotLost` |
| `ConversationSyncProofs` | `SyncStays` | the invariant of the three below |
| | `TypeCorrect` | types: the log numbered and bounded |
| | `ScheduledHidden` | `ScheduledStaysHidden` |
| | `Reconciles` | `SyncReconciles`, for one session that mutates |

Assumptions are the named `ASSUME`s on constants: naturals for bounds, owners in the
set of users, finitely many handlers, the heartbeat among the callers, and that `None` is no
value of the type it stands beside (`NoneIsNothing` in `Sessions` and in `Reach`, `NoneIsNoSave`, `NoneIsNoTask`,
`NoneAssumption`, `CallsAssumption`, `PollsAssumption`, and in `GroupsAssumption` and
`GroupChatAssumption`).
`TornIsNoRows` says that a torn file is no set of facts; the configuration gives `Torn` a set
with a model value in it so that TLC can compare the two.

**ReliableChannel.** `InOrderExactlyOnce` is not inductive: it says nothing of
datagrams in flight, and one that carried the wrong payload would break it one step
later. `IInv` adds that every datagram, unacknowledged, on the wire or held back,
carries what was sent under its number (`Genuine`), that an ACK on the wire is below
`_expected`, and `DeliveredIsSent`, the property element by element, which the SMT
solver can use where it cannot use `SubSeq`. The refinement follows: a pop appends the
next sent payloads, every other step leaves `<<sent, popped>>` alone or appends to `sent`.

**Sessions.** Three invariants, each over every step of every handler.
- `IdleIsRejected` needs `AllKnown`: no record in a table, a payload, a cache entry or a handler's
  hands knows of later activity than what was heard of its session, so a cache, an old copy or a
  restart can only refuse too early. It holds with phone sign-in as well.
- `EndedIsRejected` needs `StaysEnded`: without a cache, what a request has ended and is not `undone`
  is gone from the memory once the request saves, from its payload once that is taken, and from the
  file once it is written, which is before anybody is told. That others write older payloads in
  between is what `undone` accounts for: a write or a replacement that differs there puts the id in.
- `OwnSession` needs `Minting`: every entry of every table and payload is below the counter and of the
  user its id was minted for last, and two logins in progress have different ids. And `Answered`:
  the session of an answered or pending sign-in that nobody ended or undid is in the memory and, once
  written, in the file, so the counter that a restart rebuilds is above it. With phone sign-in both
  are false, which is why they are claimed under `~Otp`.

**RemoteSession.** `Saved` relates file, memory and the handler at work where one request
is served at a time: they agree except between an assignment and the end of the save
that follows it. `Answered` says that what was answered is in memory and in the file.
`Working` says what a handler in the middle may rely on although others
run, in particular that one which ended the session finds it ended, because no
operation leaves a terminal state.

**Server.** `Inv` is the conjunction of one inductive invariant per component, each proved
over the component's own steps (`SignInProofs`; the sections of `ServerProofs` on `Reach`
and `Calls`); `ServerProofs` shows that
every step of the composition is a step of one component and leaves the others' variables
alone, or a tick or a restart, which are steps of several.
- `SignInInv`: `AdmittedAndLeft` adds the tokens still in the bucket to `AdmittedBounded`,
  which alone says nothing of what the next request will find. `CodesCount`: a code that is
  there was never accepted and counts its wrong guesses, and no two phones share one, without
  which `CodeIsSpent` would not survive the next guess. `CreatesAlone`: a handler that has
  found no account for a key is alone with it or known not to be, which is what makes
  `OneAccount` inductive; it needs `StoreInv`, that the file and every payload under way hold
  no account that the memory does not have, so that a restart brings none back. Types need a
  least free id and a greatest used one to exist, which is where finiteness comes in.
- `ReachInv`: every `last_seen_at` is at most the time of a request that was served, and an
  entry that says "online" expires at most twice the freshness after one (`EntriesRecent`);
  both properties on presence follow.
- `SurvivesInv`, for `AnsweredSurvives`: what is owed to a client is in memory and in every
  payload under way, a save that no other crossed is the only one under way, and what is owed is
  in the file unless that save has just cleared it (`DurableInv`, `Serial`); which steps a save
  goes through depends on the backend (`StepsFit`).
- `Announced`, for `OnlineIsTold`: of a user that is not `disturbed` one handler at most works on the
  sessions, and what was last announced is what the sessions say or what the step that this
  handler has yet to make will announce (`Foresees`).
- `Reaches`, for `ConnectedHasAll`: who has synced is in the table and has had its answer
  (`Connects`), so its writer was registered before; and whom a send in progress has not reached of
  those, it has still to list or to write to.
- `CallsInv`: one handler at most is generating a key, and the call has none then; after that
  what rendezvous gave is the call's key.

**Groups.** One inductive invariant per property, each shown over the steps of the components
that touch it; the rest is framing: a step is one of a component, which leaves the requests of
other kinds and the other variables alone, a `complete` that is refused, or a restart.
- `PollInv`: once a result was announced the poll is closed and no vote is in flight, in memory
  or read back.
- `MemberInv`: the participants, the file's copy and the list that a deletion is about to write
  back agree with what was answered, but for the deletion's own user between two of its steps.
  `OwnerInv`: a removal in flight is the owner's own, was tested when roles did not count, or is
  not of the owner.
- `BoundInv` counts a user's uploads together with the handlers between the test and the
  count, because each of them has passed a test that the other has not yet made fail.
- `UploadInv`: the buffer is the prefix of the file that the next chunk says, unless two
  requests raced. `PostsInv`: an attachment is recorded before the message that carries it, and of
  an upload that nobody raced for one message at most is or will be made.
- `IdsInv`: what is stored is below the counter, what a send has taken is not above it, and an
  id that two hold was seen to be taken twice.
- `KeptInv`: where nothing crossed, the tables, the newest payload and the lists that a deletion or an
  unregistration is about to write back agree with what was answered, or the holder is the one
  that takes the item out. `GoneInv`: what a deletion has cleared, while no other request of its user
  was served, is in no table, no such list and not in the newest payload; a request of the user that
  comes later is at one of the steps of `LeftOver`, none of which writes what is claimed, and it is in
  `interfered` or `returned` from its first step on (`Recorded`, `StepRecords`).
- The file and a payload that is written late are older than the newest one. What a restart needs
  to keep its types and these invariants holds of every payload there is (`FilesDistinct`,
  `FilesStored`, `FilesNamed`); what was answered is claimed after a restart only if the file is the
  newest payload.

**LineClient.** `PushesInOrder` speaks of what was handled; the invariant says where every
push is: wire and inbox together hold each frame once (`Distinct`) and pushes in rising order
(`InLine`), and while connected the pushes still due are exactly those after the last one taken,
which the dispatcher is handling or has handled (`TakenTo`). Taking an answer out of the middle
of the inbox, or a push from behind answers, keeps all of it. `QuietAfterDisconnect` needs
`Dispatching`: past the join there is no dispatcher. `AnswerIsNotLost` is inductive with `IInv`
(`OwedIsThere`): whoever takes a frame from the inbox takes its own or a push, and the last scan comes
after the deadline.

**ConversationSync.** The lemmas come first: `Ascending` lists a set of numbers (`AscendingIs`, by
descent to the least counterexample), so that `Visible`, `MessagesAfter`, `ChangesAfter`, `NotHeld`
and `Released` have the elements they should; what one event, an upsert, a page, a full snapshot
and a push do to a copy (`AppliedIs`, `UpsertedIs`, `PageAppliedIs`, `FullAppliedIs`,
`PushAppliedIs`); and `ReplayedIs`: after a list of changes every field of a held message is what
the last change that concerns it says, or what it was. `SyncInv` then follows a message from the
server to the copy: every delivery that is pending or on its way, every message of an answer and
every one that is held is on the server and not hidden, and stays so, because a step of the server
only adds messages and releases them (`Grows`). The log's numbers need
that a release of several messages records them one after the other (`LogGrows`).

`SyncReconciles` is proved for one mutating session, which is its largest scope: two violate it, see
below. Its invariant `Calm` speaks of *places*, a field of a message or the read marker, and of
*events*, the pushes on their way and the one still to be fanned out (`Coming`). An event is of the
present, or a later one tells the place again (`Current`); the log is so too. The copy
is up to date but for what is to come (`Settled`) while the client is online and awaits nothing.
Where it is offline, or asks from its cursor and version, it is as the server at every place, or
the log tells the place after that version, or no longer reaches back to it (`Cold`). An answer on
its way fits the events behind it (`AnswerFits`). Two relations carry a mutation through all of
this: the push tells whatever is new (`Turns`), and the log says the same unless nothing old has
changed (`Logging`), which is what an unlogged send relies on. With a second session there is
no one list of what is to come: its mutation may come between another's and the push that tells of it.

Only model-checked: liveness (`EventuallyPopped`, `DisconnectEnds`, `PushIsHandled`;
TLAPS has no backend for fairness). Every safety invariant that a passing run checks is a theorem.

## 5. What the checks found

Each of these is a run that ends in a counterexample, against a sentence
of the repository that is quoted in `PROJECT.json`.

- `sync_failed_login` - `main.cpp:8234`: the push handler is live before the login's
  sync; a push moves the cursor past what was missed, and if the sync fails the hole stays.
- `sync_two_sessions` - `app.py:939`: the push of a new message may follow another session's edit of it
  and a sync that shows it; the copy ends with the old text at the new version.
- `sessions_phone` - `phone_otp.py:241`: phone sign-in numbers sessions by counting,
  password login by a counter of its own. Both mint one id for two users.
- `client_terminate` - `tcp_line_client.cpp:252`: when the server closes the connection,
  the reader clears `running_` itself, is never joined, and its destruction terminates
  the program.
- `two_fa_restart` - `state.py:345`: a second factor is saved and not read back; after a
  restart the password alone signs in.

What the models also show, but no run reports because the properties exclude it by their
conditions (each is a hazard of `PROJECT.json` or a step of a model):

*Sync*
- an answer overtaken by a push (`"overtaking"`): a full snapshot then erases it from
  the copy until the next full sync;
- a scheduled message (`"scheduling"`) is released behind cursors that have passed it: its change-log
  entry has no body for clients, so an incremental sync never shows it; `search_messages` finds it
  before it is released;
- a service command (`"commands"`) stores two messages and pushes the reply only: another device that
  applies that push has its cursor past the command;
- a user who joins late (`"lateJoin"`) and first hears of the conversation through a push has a
  cursor at that push: what came before arrives by history pages only;
- votes and the tombstones of a deleted account are no changes of the log: an incremental
  sync does not show them.

*Sessions, presence, sign-in*
- two concurrent saves: the older one, landing last, hides a session that was answered from the next
  start, which mints its id again for somebody else, or brings a revoked one back; so does a save that
  raised, since nobody repeats it;
- a revocation puts a table in place that it copied before: a login that came in between is lost
  although it was answered, and of two concurrent revocations each brings the other's session back;
- a login that is rolled back for its second factor was saved, and cached, before: its id, which
  nobody was answered, is accepted again after a restart or from the cache;
- a sign-on or heartbeat whose save raises has made the user fresh: nobody is told, and the next one does
  not tell either, because another session is fresh already;
- forwarded messages, attachments sent within one message and service messages never wake who is
  offline (`app.py:985-1076`); a message whose save raises is in the conversation, its sender is
  answered with an error, and nobody is pushed to;
- with a cache, a revoked session, or one of a deleted account, is accepted until its entry expires, and a heartbeat
  does not refresh the entry, so an active session may be refused too early;
- a user may be said to be online for up to twice the freshness, because an answer computed at its
  end is cached for as long again (the docstring of `presence.py` speaks of one);
- only the first login's answer registers a connection for pushes: who signed in by registration,
  by phone or through the web bridge is not pushed to (the docstring of `web_bridge.py` says that pushes
  are forwarded to browsers, `web_bridge.py:6`; its loop only answers);
- two concurrent creations for one number or name both find none.

*Conversations*
- one user added by two handlers is listed twice, and a removal takes one mention;
- a message takes its id before the counter is incremented: two of one id;
- a deletion writes back a list of participants, of contacts or of tokens over changes made
  meanwhile (of two deletions at once, each brings the other's contacts back), and fails half-way, sessions and contacts gone and the account still there, when somebody's
  first contact is entered while it walks the contacts;
- roles do not count where they are all "member", so nor after a restart, which does not read
  them back: anybody may then remove the owner;
- a vote that was tested before the close is counted after it;
- two push tokens registered at once: one is lost;
- a user whose account is deleted and whose session is still cached may register push tokens,
  which stay until the next start, and contacts, which are saved and stay for good;
- the comment on the tables of blocked users and mutes says that they are "serialised to disk only when
  JSON state-file is enabled" (`state.py:243-246`), and `_runtime_payload` (`state.py:298-320`) has neither:
  a restart forgets whom somebody blocked and what is muted, with every backend.

*Saves*
- two concurrent saves may land in the wrong order, or mixed; a crash between truncation and write
  leaves an empty file; what SQLite deletes is committed before it inserts;
- two rendezvous at once mint and answer two keys; a rendezvous during accept is answered with none;
- a duplicate below `_expected` is not acknowledged again: one lost final ACK, and the
  sender resends for ever.

## 6. Not modelled

- *Inside modelled components.* `Reach`: requests of sessions that only the cache still knows (those are
  in `Sessions` and `Groups`). Conversation sync: polls in the copy, search, local pending sends,
  unread counts, the cache file. Sessions: passwords (a step happens when they are right).
  Remote sessions: permissions, relays and candidates. The client: TLS and framing. The control plane: a
  second login on one connection. The web bridge: frames and files. Groups: creation (the initial state), typing, and the fan-out of
  its changes (that of messages is in `ConversationSync` and `Reach`). `relay_peer.py`: registration
  and the local list of `wait_for`. Mutes have no time. Devices: one per user in `Personal`.
- *Profiles, avatars, settings, features, reports, searches, media pages, export*: assigned by their user alone and
  read back, or read only.
- *Push dispatch*: one locked queue, drained by a worker's tick that `app.py` never calls; the
  transports are stubs.
- *SQL*: schemas and migrations; the transactions are in `StateStore`, without the rows that a
  foreign key or a UNIQUE column refuses.
- *Media plane, codecs, capture, remote input, protocol, observability, front ends*: I/O, data
  definitions, counters and painting with little control. The login, sync and push paths of the desktop's `main.cpp` are in
  `ConversationSync`.
- *Scripts*: the validators and command-line tools are more than 60% of the repository's Python. They drive and test
  the program, and were read for what they assert; a model of a test is not a model of the system. `protocol.py` declares
  messages, which the models have as requests. These two are most of what no definition maps to.

## 7. Plan

1. `RemoteSession`'s file as an instance of `StateStore`.
2. `RelayPeerSession`'s receive loop, which drops what it popped at its deadline; the push queue, once a
   worker drains it; the media plane's registry of addresses, where a stale datagram registers an old
   address again.

The project keeps to a dozen runs: a new question replaces one, or joins a run by a constant that holds
several settings, as `Loads` does.
