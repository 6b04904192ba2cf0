------------------------------- MODULE LineClient -------------------------------
(***************************************************************************)
(* One connection of a C++ client: the TcpLineClient's reader thread fills *)
(* an inbox with the frames of the socket; the ControlPlaneClient's        *)
(* dispatcher thread takes the pushes out of it, and threads that made a   *)
(* request take the answer out.  The owner connects, disconnects and       *)
(* destroys the object, once, as the desktop and mobile clients do.        *)
(*                                                                         *)
(* A frame is <<"push", n>> for the server's n-th push, or <<"answer", n>> *)
(* for the answer to the n-th request.  The inbox mutex makes each scan of *)
(* the inbox one step; running_ is written outside it, and frames arrive   *)
(* while a thread that scanned sleeps.  Time is left out: a sleep may end  *)
(* at any moment, by a notification or at the deadline.                    *)
(***************************************************************************)
EXTENDS Naturals, Sequences, SequencesExt

CONSTANTS
    Callers,    \* threads that make requests
    Heartbeat,  \* the one of them that disconnect() joins
    MaxPushes,  \* bound: pushes of the server
    MaxCalls    \* bound: requests made

ASSUME LineClientAssumption == Heartbeat \in Callers /\ {MaxPushes, MaxCalls} \subseteq Nat

VARIABLES
    owner,       \* how far the owner is: connect, disconnect, destroy
    tcpRunning,  \* TcpLineClient::running_
    running,     \* ControlPlaneClient::running_
    shut,        \* the socket was shut down or closed on our side
    closed,      \* the server closed the connection
    reader,      \* reader_: none, recv (its thread runs), ended (but joinable)
    dispatcher,  \* dispatcher_: none, idle, handling, ended
    frame,       \* the frame dispatcher_ is handling
    handler,     \* push_handler_ is set
    wire,        \* frames from the server, not read yet
    inbox,       \* inbox_
    pushes,      \* how many pushes the server has sent
    requests,    \* requests the server has not answered
    calls,       \* correlation_counter_
    waiting,     \* per caller, the request it waits for, 0 if none
    phase,       \* where in wait_for it is: before a scan, asleep, before the last scan
    owed,        \* history: answers put into the inbox while a thread waited for them,
                 \* that it has not been given
    handled,     \* history: the pushes the handler was called with
    terminated   \* std::terminate was called

threads == <<owner, reader, dispatcher, frame, handler, handled>>
flags   == <<tcpRunning, running, shut, terminated>>
server  == <<closed, pushes, requests>>
rpcs    == <<calls, waiting, phase, owed>>
vars    == <<threads, flags, server, rpcs, wire, inbox>>

Frame == ({"push"} \X (1 .. MaxPushes)) \cup ({"answer"} \X (1 .. MaxCalls))

Init ==
    /\ owner = "new" /\ tcpRunning = FALSE /\ running = FALSE
    /\ shut = FALSE /\ closed = FALSE
    /\ reader = "none" /\ dispatcher = "none" /\ frame = <<>> /\ handler = FALSE
    /\ wire = <<>> /\ inbox = <<>> /\ pushes = 0 /\ requests = {}
    /\ calls = 0 /\ waiting = [c \in Callers |-> 0]
    /\ phase = [c \in Callers |-> "scan"] /\ owed = {}
    /\ handled = <<>> /\ terminated = FALSE

IsPush(f) == f[1] = "push"

--------------------------------------------------------------------------------
(* The server *)

ServerPushes ==
    /\ owner # "new" /\ ~ closed /\ pushes < MaxPushes
    /\ pushes' = pushes + 1
    /\ wire' = Append(wire, <<"push", pushes + 1>>)
    /\ UNCHANGED <<threads, flags, rpcs, closed, requests, inbox>>

ServerAnswers(n) ==
    /\ ~ closed
    /\ requests' = requests \ {n}
    /\ wire' = Append(wire, <<"answer", n>>)
    /\ UNCHANGED <<threads, flags, rpcs, closed, pushes, inbox>>

ServerCloses ==
    /\ owner # "new" /\ ~ closed
    /\ closed' = TRUE
    /\ UNCHANGED <<threads, flags, rpcs, pushes, requests, wire, inbox>>

--------------------------------------------------------------------------------
(* The reader thread *)

Answer(c) == <<"answer", waiting[c]>>

\* The frame is put into the inbox.
Put(f) ==
    /\ inbox' = Append(inbox, f)
    /\ owed' = owed \cup {waiting[c] : c \in {d \in Callers : f = Answer(d)}}
    /\ UNCHANGED <<calls, waiting, phase>>

\* A line left in the reader's buffer after it was put into the inbox.
ReadsAgain ==
    /\ reader = "recv" /\ wire # <<>>
    /\ Put(Head(wire))
    /\ reader' = IF tcpRunning THEN "recv" ELSE "ended"
    /\ UNCHANGED <<flags, server, wire, owner, dispatcher, frame, handler, handled>>

ReaderReceives ==
    /\ reader = "recv" /\ wire # <<>>
    /\ Put(Head(wire))
    /\ wire' = Tail(wire)
    /\ reader' = IF tcpRunning THEN "recv" ELSE "ended"
    /\ UNCHANGED <<flags, server, owner, dispatcher, frame, handler, handled>>

ReaderEnds ==
    /\ reader = "recv"
    /\ shut \/ (closed /\ wire = <<>>)
    /\ tcpRunning' = FALSE
    /\ reader' = "ended"
    /\ UNCHANGED <<server, rpcs, wire, inbox, running, shut, terminated,
                   owner, dispatcher, frame, handler, handled>>

--------------------------------------------------------------------------------
(* The dispatcher thread *)

LastPush == CHOOSE i \in DOMAIN inbox :
    IsPush(inbox[i]) /\ \A j \in DOMAIN inbox : IsPush(inbox[j]) => j <= i

FirstPush == CHOOSE i \in DOMAIN inbox :
    IsPush(inbox[i]) /\ \A j \in DOMAIN inbox : IsPush(inbox[j]) => i <= j

TakesHead ==
    /\ dispatcher = "idle"
    /\ inbox # <<>> /\ IsPush(Head(inbox))
    /\ frame' = Head(inbox)
    /\ inbox' = Tail(inbox)
    /\ dispatcher' = "handling"
    /\ UNCHANGED <<flags, server, rpcs, wire, owner, reader, handler, handled>>

DispatcherTakes ==
    /\ dispatcher = "idle"
    /\ \E i \in DOMAIN inbox : IsPush(inbox[i])
    /\ frame' = inbox[FirstPush]
    /\ inbox' = RemoveAt(inbox, FirstPush)
    /\ dispatcher' = "handling"
    /\ UNCHANGED <<flags, server, rpcs, wire, owner, reader, handler, handled>>

DispatcherHandles ==
    /\ dispatcher = "handling"
    /\ handled' = IF handler THEN Append(handled, frame[2]) ELSE handled
    /\ frame' = <<>>
    /\ dispatcher' = IF running THEN "idle" ELSE "ended"
    /\ UNCHANGED <<flags, server, rpcs, wire, inbox, owner, reader, handler>>

DispatcherEnds ==
    /\ dispatcher = "idle" /\ ~ running
    /\ dispatcher' = "ended"
    /\ UNCHANGED <<flags, server, rpcs, wire, inbox, owner, reader, frame, handler, handled>>

--------------------------------------------------------------------------------
(* Requests *)

CallSends(c) ==
    /\ waiting[c] = 0 /\ calls < MaxCalls
    /\ tcpRunning
    /\ calls' = calls + 1
    /\ waiting' = [waiting EXCEPT ![c] = calls + 1]
    /\ requests' = requests \cup {calls + 1}
    /\ UNCHANGED <<threads, flags, closed, pushes, wire, inbox, phase, owed>>

CallFailsToSend(c) ==
    /\ waiting[c] = 0 /\ calls < MaxCalls
    /\ tcpRunning /\ closed
    /\ calls' = calls + 1
    /\ tcpRunning' = FALSE
    /\ UNCHANGED <<threads, server, wire, inbox, running, shut, terminated,
                   waiting, phase, owed>>

\* The call is over: with its answer, or without.
Ends(c) ==
    /\ waiting' = [waiting EXCEPT ![c] = 0]
    /\ phase' = [phase EXCEPT ![c] = "scan"]
    /\ UNCHANGED <<threads, flags, server, wire, calls>>

\* A scan, the first one, one after a notification or the last one, finds the answer.
CallReturns(c) ==
    /\ waiting[c] # 0 /\ phase[c] # "asleep"
    /\ Contains(inbox, Answer(c))
    /\ inbox' = RemoveFirst(inbox, Answer(c))
    /\ owed' = owed \ {waiting[c]}
    /\ Ends(c)

\* The scan found nothing, and the inbox mutex is released for the wait.
CallSleeps(c) ==
    /\ waiting[c] # 0 /\ phase[c] = "scan"
    /\ ~ Contains(inbox, Answer(c)) /\ tcpRunning
    /\ phase' = [phase EXCEPT ![c] = "asleep"]
    /\ UNCHANGED <<threads, flags, server, wire, inbox, calls, waiting, owed>>

\* wait_until returns: notified (or spuriously), or at the deadline.
CallWakes(c) ==
    /\ phase[c] = "asleep"
    /\ \E p \in {"scan", "last"} : phase' = [phase EXCEPT ![c] = p]
    /\ UNCHANGED <<threads, flags, server, wire, inbox, calls, waiting, owed>>

\* wait_for without its last pass through the inbox.
CallTimesOut(c) ==
    /\ waiting[c] # 0
    /\ phase[c] = "last" \/ (phase[c] = "scan" /\ ~ tcpRunning
                             /\ ~ Contains(inbox, Answer(c)))
    /\ Ends(c)
    /\ UNCHANGED <<inbox, owed>>

CallGivesUp(c) ==
    /\ waiting[c] # 0
    /\ phase[c] = "last" \/ (phase[c] = "scan" /\ ~ tcpRunning)
    /\ ~ Contains(inbox, Answer(c))
    /\ Ends(c)
    /\ UNCHANGED <<inbox, owed>>

--------------------------------------------------------------------------------
(* The owner *)

Connect ==
    /\ owner = "new"
    /\ owner' = "connected"
    /\ tcpRunning' = TRUE /\ reader' = "recv"
    /\ running' = TRUE /\ dispatcher' = "idle"
    /\ UNCHANGED <<server, rpcs, wire, inbox, shut, terminated, frame, handler, handled>>

SetPushHandler ==
    /\ owner = "connected" /\ ~ handler
    /\ handler' = TRUE
    /\ UNCHANGED <<flags, server, rpcs, wire, inbox, owner, reader, dispatcher, frame, handled>>

\* disconnect() that leaves running_ set until its threads are gone.
StopReaderOnly ==
    /\ owner = "connected"
    /\ tcpRunning' = FALSE
    /\ IF tcpRunning
       THEN owner' = "joiningReader" /\ shut' = TRUE
       ELSE owner' = "joiningDispatcher" /\ shut' = TRUE
    /\ inbox' = IF tcpRunning THEN inbox ELSE <<>>
    /\ UNCHANGED <<server, rpcs, wire, running, terminated, reader, dispatcher, frame, handler, handled>>

\* shutdown_reader joins the reader only if it was still running.
StartDisconnect ==
    /\ owner = "connected"
    /\ running' = FALSE /\ tcpRunning' = FALSE /\ shut' = TRUE
    /\ IF tcpRunning
       THEN owner' = "joiningReader" /\ UNCHANGED inbox
       ELSE owner' = "joiningDispatcher" /\ inbox' = <<>>
    /\ UNCHANGED <<server, rpcs, wire, terminated, reader, dispatcher, frame, handler, handled>>

JoinReader ==
    /\ owner = "joiningReader" /\ reader = "ended"
    /\ reader' = "none"
    /\ inbox' = <<>>
    /\ owner' = "joiningDispatcher"
    /\ UNCHANGED <<flags, server, rpcs, wire, dispatcher, frame, handler, handled>>

\* disconnect() that does not wait for the dispatcher.
LeaveDispatcher ==
    /\ owner = "joiningDispatcher"
    /\ owner' = "joiningHeartbeat"
    /\ UNCHANGED <<flags, server, rpcs, wire, inbox, reader, dispatcher, frame, handler, handled>>

JoinDispatcher ==
    /\ owner = "joiningDispatcher" /\ dispatcher = "ended"
    /\ dispatcher' = "none"
    /\ owner' = "joiningHeartbeat"
    /\ UNCHANGED <<flags, server, rpcs, wire, inbox, reader, frame, handler, handled>>

JoinHeartbeat ==
    /\ owner = "joiningHeartbeat" /\ waiting[Heartbeat] = 0
    /\ owner' = "disconnected"
    /\ UNCHANGED <<flags, server, rpcs, wire, inbox,
                   reader, dispatcher, frame, handler, handled>>

\* A std::thread that is destroyed while joinable calls std::terminate.
Destroy ==
    /\ owner = "disconnected"
    /\ \A c \in Callers : waiting[c] = 0
    /\ owner' = "destroyed"
    /\ terminated' = (reader # "none")
    /\ UNCHANGED <<server, rpcs, wire, inbox, tcpRunning, running, shut,
                   reader, dispatcher, frame, handler, handled>>

Reads      == ReaderReceives \/ ReaderEnds
Dispatches == DispatcherTakes \/ DispatcherHandles \/ DispatcherEnds
Joins      == JoinReader \/ JoinDispatcher \/ JoinHeartbeat
Waits(c)   == CallReturns(c) \/ CallSleeps(c) \/ CallWakes(c) \/ CallGivesUp(c)

Next ==
    \/ ServerPushes \/ ServerCloses \/ \E n \in requests : ServerAnswers(n)
    \/ Reads \/ Dispatches
    \/ \E c \in Callers : CallSends(c) \/ CallFailsToSend(c) \/ Waits(c)
    \/ Connect \/ SetPushHandler \/ StartDisconnect \/ Joins \/ Destroy

Spec == Init /\ [][Next]_vars

\* Threads are scheduled, a recv that has something to return returns, and a
\* thread that waits wakes, at its deadline at the latest.
Fairness ==
    /\ WF_vars(Reads)
    /\ WF_vars(Dispatches)
    /\ WF_vars(Joins)
    /\ \A c \in Callers : WF_vars(Waits(c))

FairSpec == Spec /\ Fairness

--------------------------------------------------------------------------------

\* Every variable keeps its type; no frame is read twice into the inbox.
TypeOK ==
    /\ owner \in {"new", "connected", "joiningReader", "joiningDispatcher",
                  "joiningHeartbeat", "disconnected", "destroyed"}
    /\ {tcpRunning, running, shut, closed, handler, terminated} \subseteq BOOLEAN
    /\ reader \in {"none", "recv", "ended"}
    /\ dispatcher \in {"none", "idle", "handling", "ended"}
    /\ frame \in Frame \cup {<<>>} /\ (frame = <<>> <=> dispatcher # "handling")
    /\ wire \in Seq(Frame) /\ inbox \in Seq(Frame) /\ IsInjective(inbox)
    /\ requests \subseteq 1 .. calls /\ calls \in 0 .. MaxCalls
    /\ waiting \in [Callers -> 0 .. calls]
    /\ phase \in [Callers -> {"scan", "asleep", "last"}] /\ owed \subseteq 1 .. calls
    /\ pushes \in 0 .. MaxPushes /\ handled \in Seq(1 .. pushes)

\* While connected, the handler sees, from the first push it sees on, every push, once, in the
\* order the server sent them, whatever answers, timeouts and waits are mixed
\* with them in the inbox (wait_for, tcp_line_client.cpp:147-175: "non-matching
\* frames stay queued in order").
PushesInOrder ==
    owner = "connected" =>
        \A i \in 1 .. Len(handled) - 1 : handled[i + 1] = handled[i] + 1

\* Once disconnect() has returned, the handler is not called any more: the
\* objects it captured may be gone (control_plane_client.cpp:355-361).
QuietAfterDisconnect ==
    [][(owner \in {"disconnected", "destroyed"}) => handled' = handled]_vars

\* Until disconnect() is called, an answer that came into the inbox while its caller was in
\* wait_for is not lost, wherever the caller was: scanning, asleep, or past its deadline;
\* whatever the other threads take out, and though a send failed or the reader has ended.
\* It is still there and the caller has not given up (tcp_line_client.cpp:147-175, "last
\* pass through the queue after timeout, in case race").
AnswerIsNotLost ==
    owner \in {"new", "connected"} =>
        \A n \in owed : Contains(inbox, <<"answer", n>>) /\ \E c \in Callers : waiting[c] = n

\* disconnect() returns: it never waits for a thread that waits for it.
DisconnectEnds == owner = "joiningReader" ~> owner = "disconnected"

\* A push reaches the handler once one is set, while the owner stays connected:
\* it is never stuck behind an answer nobody waits for any more.  What the
\* reader had not read when a send failed is the exception.
PushIsHandled ==
    \A n \in 1 .. MaxPushes :
        (handler /\ Contains(wire \o inbox, <<"push", n>>)) ~>
            \/ Contains(handled, n)
            \/ owner # "connected"
            \/ reader = "ended" /\ Contains(wire, <<"push", n>>)

\* No std::thread is destroyed while it is joinable: the client outlives a
\* connection that the server closes.
NeverTerminates == ~ terminated

================================================================================
