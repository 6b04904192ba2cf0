--------------------------------- MODULE Reach ---------------------------------
(***************************************************************************)
(* Whom the server can reach: which sessions have a connection             *)
(* (ConnectionRegistry and the control plane's handler), who counts as     *)
(* online and is said to be (PresenceService and its Redis entries), who   *)
(* gets a message at once and who is woken by a push notification (the     *)
(* dispatcher's fan-out and PushTokenService).                             *)
(*                                                                         *)
(* All users take part in one conversation and have a push token.  What    *)
(* PresenceService computes from the sessions and writes to the cache is   *)
(* one step.                                                               *)
(***************************************************************************)
EXTENDS Handlers, FiniteSets

CONSTANTS
    User,
    Session,   \* sessions that may be started, each once
    Owner,     \* the user of each
    Fresh,     \* DEFAULT_TTL_SECONDS of presence
    Cached     \* deployments considered: is a Redis cache bound

ASSUME ReachAssumption ==
    /\ Owner \in [Session -> User]
    /\ Fresh \in Nat \ {0} /\ Cached \subseteq BOOLEAN

VARIABLES
    cached,     \* fixed
    table,      \* state.sessions
    seen,       \* per session, the record's last_seen_at; None if there is no record
    link,       \* per session, its connection
    presence,   \* per user, the entry of the cache: [online, expires]
    work,       \* per handler, what it is in the middle of
    told,       \* per user, what was announced last
    lastSeen,   \* history: when a request was last served that shows that the user is there
    disturbed,  \* history: users that, since the last announcement, two handlers worked on at
                \* once, a save failed for, or a table put in another's place lost or brought back
    synced,     \* history: sessions whose client has synced since it is in the table
    behind      \* history: sessions whose client lacks a message that was sent to all

people    == <<told, lastSeen, disturbed>>
clients   == <<synced, behind>>
reachVars == <<cached, table, seen, link, presence, work, people, clients>>

SessionsOf(u) == {s \in Session : Owner[s] = u}
Live(u)       == SessionsOf(u) \cap table

\* Of a password login: new, listed (the writer is registered), registered (and the answer
\* was written), lost when the peer is gone and the server has not noticed.  Of a
\* registration, a phone's or a web bridge's: joining, unlisted.
Link == {"none", "new", "listed", "registered", "lost", "joining", "unlisted", "closed"}

Entry == [online : BOOLEAN, expires : Nat]

\* The session is the one that a request comes from, or that is to be revoked.  A send has
\* users to list the sessions of, sessions to push to, users to wake, and whom it has not
\* reached.
Work == [op : {"start", "announce on", "register", "answer"}, session : Session]
   \cup [op : {"touched", "copy", "trimmed", "announce off"}, session : Session,
         online : BOOLEAN]
   \cup {w \in [op : {"replace"}, session : Session, online : BOOLEAN, rest : SUBSET Session] :
            w.session \notin w.rest}
   \cup {w \in [op : {"send"}, session : Session, list : SUBSET User, push : SUBSET Session,
                wake : SUBSET User, lacks : SUBSET Session] : w.session \notin w.lacks}

ASSUME NoneIsNothing == None \notin Nat \cup Entry \cup Work

Working(h)   == work[h] # None
Busy(h, op)  == Working(h) /\ work[h].op = op
WorkingOn(u) == {h \in Handler : Working(h) /\ work[h].op # "send" /\ Owner[work[h].session] = u}

Begins(h, w) == work[h] = None /\ work' = [work EXCEPT ![h] = w]
Done(h)      == work' = [work EXCEPT ![h] = None]

\* Two handlers at work on one user.
Crosses(u) == disturbed' = IF WorkingOn(u) # {} THEN disturbed \cup {u} ELSE disturbed

\* A client that has the answer to its sign-on.
Speaks(s) == link[s] \in {"registered", "unlisted"}

ReachInit ==
    /\ cached \in Cached
    /\ table = {} /\ seen = [s \in Session |-> None]
    /\ link = [s \in Session |-> "none"]
    /\ presence = [u \in User |-> None]
    /\ work = [h \in Handler |-> None]
    /\ told = [u \in User |-> FALSE]
    /\ lastSeen = [u \in User |-> None]
    /\ disturbed = {} /\ synced = {} /\ behind = {}

--------------------------------------------------------------------------------
(* Presence *)

IsFresh(s) == s \in table /\ seen[s] # None /\ clock - seen[s] <= Fresh

\* Variant: the session counts itself.
OnlineIncluding(u, s) == \E other \in SessionsOf(u) : IsFresh(other)

OnlineExcluding(u, s) == \E other \in SessionsOf(u) \ {s} : IsFresh(other)

Valid(u) == presence[u] # None /\ clock < presence[u].expires

\* _resolve_user_presence
IsOnline(u) == IF Valid(u) THEN presence[u].online ELSE \E s \in SessionsOf(u) : IsFresh(s)

Written(u, online) ==
    IF cached THEN [presence EXCEPT ![u] = [online |-> online, expires |-> clock + Fresh]]
    ELSE presence

\* Variant: an entry that is found is written again.
ResolvedAgain(u) == Written(u, IsOnline(u))

Resolved(u) == IF Valid(u) THEN presence ELSE Written(u, IsOnline(u))

Query(u) ==
    /\ presence' = Resolved(u)
    /\ UNCHANGED <<cached, table, seen, link, work, people, clients>>

--------------------------------------------------------------------------------
(* Signing on *)

\* AuthService.login or register, or verify_code, up to the save.
SignOn(h, s, by) ==
    /\ link[s] = "none"
    /\ Begins(h, [op |-> "start", session |-> s])
    /\ table' = table \cup {s} /\ seen' = [seen EXCEPT ![s] = clock]
    /\ lastSeen' = [lastSeen EXCEPT ![Owner[s]] = clock]
    /\ link' = [link EXCEPT ![s] = IF by = "login" THEN "new" ELSE "joining"]
    /\ Crosses(Owner[s])
    /\ UNCHANGED <<cached, presence, told, clients>>

\* A browser's: the bridge hands its requests to dispatch and registers no writer.
SignOnWeb(h, s) == SignOn(h, s, "web")

\* The second factor is asked for after the session was saved.
RollBack(h) ==
    /\ Busy(h, "start") /\ link[work[h].session] = "new"
    /\ table' = table \ {work[h].session}
    /\ link' = [link EXCEPT ![work[h].session] = "closed"]
    /\ Done(h)
    /\ UNCHANGED <<cached, seen, presence, people, clients>>

\* notify_session_started
Notify(h) ==
    /\ Busy(h, "start")
    /\ LET s == work[h].session
           u == Owner[s]
       IN  \/ /\ s \notin table
              /\ work' = [work EXCEPT ![h].op = "register"]
              /\ UNCHANGED <<presence, lastSeen>>
           \/ /\ s \in table
              /\ presence' = Written(u, TRUE)
              /\ lastSeen' = [lastSeen EXCEPT ![u] = clock]
              /\ work' = [work EXCEPT ![h].op =
                      IF OnlineExcluding(u, s) THEN "register" ELSE "announce on"]
    /\ UNCHANGED <<cached, table, seen, link, told, disturbed, clients>>

\* touch; the request comes in on a connection of the session ...
Touch(h, s) ==
    /\ Speaks(s) /\ s \in table
    /\ Begins(h, [op |-> "touched", session |-> s, online |-> OnlineExcluding(Owner[s], s)])
    /\ seen' = [seen EXCEPT ![s] = clock]
    /\ lastSeen' = [lastSeen EXCEPT ![Owner[s]] = clock]
    /\ Crosses(Owner[s])
    /\ UNCHANGED <<cached, table, link, presence, told, clients>>

\* ... and when the state is saved the entry is written.
Touched(h) ==
    /\ Busy(h, "touched")
    /\ LET s == work[h].session
       IN  /\ presence' = Written(Owner[s], TRUE)
           /\ lastSeen' = [lastSeen EXCEPT ![Owner[s]] = clock]
           /\ work' = [work EXCEPT ![h] =
                    [op |-> IF work[h].online THEN "register" ELSE "announce on", session |-> s]]
    /\ UNCHANGED <<cached, table, seen, link, told, disturbed, clients>>

\* _fanout_presence_transition(user, True) tells when the user was seen last, too.
AnnounceOnline(h) ==
    /\ Busy(h, "announce on")
    /\ LET u == Owner[work[h].session]
       IN  /\ presence' = Resolved(u)
           /\ told' = [told EXCEPT ![u] = TRUE]
           /\ disturbed' = IF WorkingOn(u) = {h} THEN disturbed \ {u} ELSE disturbed
    /\ work' = [work EXCEPT ![h].op = "register"]
    /\ UNCHANGED <<cached, table, seen, link, lastSeen, clients>>

--------------------------------------------------------------------------------
(* Revoking *)

\* revoke_device, asked for by another session of the user ...
Revoke(h, s) ==
    /\ seen[s] # None /\ \E other \in SessionsOf(Owner[s]) \ {s} : Speaks(other)
    /\ Begins(h, [op |-> "copy", session |-> s, online |-> IsOnline(Owner[s])])
    /\ presence' = Resolved(Owner[s])
    /\ Crosses(Owner[s])
    /\ UNCHANGED <<cached, table, seen, link, told, lastSeen, clients>>

\* ... the comprehension ...
CopySessions(h) ==
    /\ Busy(h, "copy")
    /\ work' = [work EXCEPT ![h] =
            [op |-> "replace", session |-> work[h].session, online |-> work[h].online,
             rest |-> table \ {work[h].session}]]
    /\ UNCHANGED <<cached, table, seen, link, presence, people, clients>>

\* ... and the assignment of what it made: whoever signed on meanwhile is not in it, and
\* who was revoked meanwhile is.
ReplaceSessions(h) ==
    /\ Busy(h, "replace")
    /\ LET w       == work[h]
           changed == ((table \ w.rest) \cup (w.rest \ table)) \ {w.session}
       IN  /\ table' = w.rest
           /\ disturbed' = disturbed \cup {Owner[s] : s \in changed}
           /\ synced' = synced \cap w.rest
           /\ work' = [work EXCEPT ![h] =
                    [op |-> "trimmed", session |-> w.session, online |-> w.online]]
    /\ UNCHANGED <<cached, seen, link, presence, told, lastSeen, behind>>

\* The cached entry goes, and the answer is computed again if it was "online".
Recheck(h) ==
    /\ Busy(h, "trimmed")
    /\ LET u      == Owner[work[h].session]
           online == \E s \in SessionsOf(u) : IsFresh(s)
       IN  /\ presence' = IF work[h].online THEN Written(u, online)
                          ELSE [presence EXCEPT ![u] = None]
           /\ IF work[h].online /\ ~ online
              THEN work' = [work EXCEPT ![h].op = "announce off"] ELSE Done(h)
    /\ UNCHANGED <<cached, table, seen, link, people, clients>>

AnnounceOffline(h) ==
    /\ Busy(h, "announce off")
    /\ presence' = Resolved(Owner[work[h].session])
    /\ told' = [told EXCEPT ![Owner[work[h].session]] = FALSE]
    /\ Done(h)
    /\ UNCHANGED <<cached, table, seen, link, lastSeen, disturbed, clients>>

\* save_runtime_state raises in a sign-on, a touch or a revocation: what was changed stays,
\* the request ends with an error, and nothing is announced.
SaveRaises(h) ==
    /\ Busy(h, "start") \/ Busy(h, "touched") \/ Busy(h, "trimmed")
    /\ LET s == work[h].session
       IN  /\ link' = IF Busy(h, "start") THEN [link EXCEPT ![s] = "closed"] ELSE link
           /\ disturbed' = disturbed \cup {Owner[s]}
    /\ Done(h)
    /\ UNCHANGED <<cached, table, seen, presence, told, lastSeen, clients>>

--------------------------------------------------------------------------------
(* Connections *)

\* The writer of the connection is registered after the login was dispatched ...
Register(h) ==
    /\ Busy(h, "register")
    /\ LET s == work[h].session
       IN  link' = IF link[s] = "new" THEN [link EXCEPT ![s] = "listed"] ELSE link
    /\ work' = [work EXCEPT ![h].op = "answer"]
    /\ UNCHANGED <<cached, table, seen, presence, people, clients>>

\* ... and then the answer is written.
Answer(h) ==
    /\ Busy(h, "answer")
    /\ LET s == work[h].session
       IN  link' = CASE link[s] = "listed" -> [link EXCEPT ![s] = "registered"]
                     [] link[s] = "joining" -> [link EXCEPT ![s] = "unlisted"]
                     [] OTHER -> link
    /\ Done(h)
    /\ UNCHANGED <<cached, table, seen, presence, people, clients>>

\* The peer is gone: the server does not notice, or its handler ends.
Lose(s) ==
    /\ link[s] = "registered"
    /\ link' = [link EXCEPT ![s] = "lost"]
    /\ UNCHANGED <<cached, table, seen, presence, work, people, clients>>

Close(s) ==
    /\ link[s] \in {"registered", "lost", "unlisted"}
    /\ \A h \in Handler : ~ (Working(h) /\ work[h].op # "send" /\ work[h].session = s)
    /\ link' = [link EXCEPT ![s] = "closed"]
    /\ UNCHANGED <<cached, table, seen, presence, work, people, clients>>

--------------------------------------------------------------------------------
(* Messages *)

\* The client gets all that is in the conversation.
Sync(s) ==
    /\ Speaks(s) /\ s \in table
    /\ synced' = synced \cup {s} /\ behind' = behind \ {s}
    /\ work' = [h \in Handler |->
            IF Busy(h, "send") THEN [work[h] EXCEPT !.lacks = @ \ {s}] ELSE work[h]]
    /\ UNCHANGED <<cached, table, seen, link, presence, people>>

\* The message is in the conversation; the sender's session has it from the answer.  A text
\* that is not silent, or an upload that is completed, wakes who is offline; an attachment
\* sent at once, a forwarded message or a service message does not.
SendMessage(h, s) ==
    /\ Speaks(s) /\ s \in table
    /\ \E wake \in {User \ {Owner[s]}, {}} :
        Begins(h, [op |-> "send", session |-> s, list |-> User, push |-> {}, wake |-> wake,
                   lacks |-> Session \ {s}])
    /\ UNCHANGED <<cached, table, seen, link, presence, people, clients>>

\* The save after the message was put into the conversation raises: the sender gets an
\* error, and nobody is told.
SendFails(h) ==
    /\ Busy(h, "send") /\ work[h].list = User
    /\ Done(h)
    /\ UNCHANGED <<cached, table, seen, link, presence, people, clients>>

\* Variant: the sender's other sessions are not written to.
ListOthers(h, u) ==
    /\ Busy(h, "send") /\ u \in work[h].list
    /\ work' = [work EXCEPT ![h].list = @ \ {u},
                            ![h].push = IF u = Owner[work[h].session] THEN @ ELSE @ \cup Live(u)]
    /\ UNCHANGED <<cached, table, seen, link, presence, people, clients>>

\* _fanout_to_users lists the sessions of each user ...
List(h, u) ==
    /\ Busy(h, "send") /\ u \in work[h].list
    /\ work' = [work EXCEPT ![h].list = @ \ {u},
                            ![h].push = @ \cup (Live(u) \ {work[h].session})]
    /\ UNCHANGED <<cached, table, seen, link, presence, people, clients>>

\* ... and writes to each; a write to a lost connection fails and takes the writer out, or
\* ends up in a buffer.
Push(h, s) ==
    /\ Busy(h, "send") /\ s \in work[h].push
    /\ \/ link' = link
       \/ link[s] = "lost" /\ link' = [link EXCEPT ![s] = "closed"]
    /\ work' = [work EXCEPT ![h].push = @ \ {s},
                            ![h].lacks = IF link[s] \in {"listed", "registered"}
                                         THEN @ \ {s} ELSE @]
    /\ UNCHANGED <<cached, table, seen, presence, people, clients>>

\* _enqueue_mock_pushes_for_offline_recipients asks for the presence of each.
Wake(h, u) ==
    /\ Busy(h, "send") /\ work[h].list = {} /\ work[h].push = {} /\ u \in work[h].wake
    /\ presence' = Resolved(u)
    /\ work' = [work EXCEPT ![h].wake = @ \ {u}]
    /\ UNCHANGED <<cached, table, seen, link, people, clients>>

Sent(h) ==
    /\ Busy(h, "send")
    /\ work[h].list = {} /\ work[h].push = {} /\ work[h].wake = {}
    /\ behind' = behind \cup work[h].lacks
    /\ Done(h)
    /\ UNCHANGED <<cached, table, seen, link, presence, people, synced>>

--------------------------------------------------------------------------------
\* A stop and a start: the connections are gone, Redis is not.  The sessions that were
\* saved come back, as they were then; one that was taken out since may be in the file
\* still.
RestartReach ==
    /\ \E saved \in SUBSET {s \in Session : seen[s] # None} :
        /\ \E then \in [saved -> 0 .. clock] :
            /\ \A s \in saved : then[s] <= seen[s]
            /\ seen' = [s \in Session |-> IF s \in saved THEN then[s] ELSE None]
        /\ table' = saved
        /\ disturbed' = disturbed \cup {u \in User : WorkingOn(u) # {}}
                                  \cup {Owner[s] : s \in saved \ table}
    /\ link' = [s \in Session |-> IF link[s] = "none" THEN "none" ELSE "closed"]
    /\ work' = [h \in Handler |-> None]
    /\ synced' = {}
    /\ UNCHANGED <<cached, presence, told, lastSeen, behind>>

--------------------------------------------------------------------------------
(* Properties *)

ReachTypeOK ==
    /\ cached \in Cached /\ table \subseteq Session
    /\ seen \in [Session -> Nat \cup {None}] /\ link \in [Session -> Link]
    /\ presence \in [User -> Entry \cup {None}]
    /\ work \in [Handler -> Work \cup {None}]
    /\ told \in [User -> BOOLEAN] /\ lastSeen \in [User -> Nat \cup {None}]
    /\ disturbed \subseteq User /\ synced \subseteq Session /\ behind \subseteq Session

\* A user is said to be online for less than twice the time that a session counts as
\* fresh after a heartbeat or sign-on was served; an answer given at the end of that
\* time is cached and repeated for as long again (_resolve_user_presence).
OnlineIsRecent == \A u \in User :
    IsOnline(u) => lastSeen[u] # None /\ clock - lastSeen[u] < 2 * Fresh

\* A user with a fresh session was last announced to be online, unless since the last
\* announcement two handlers worked on its sessions at once, a save failed for it, or a
\* revocation's copy of the table or a restart changed them (touch, notify_session_started,
\* revoke_device).
OnlineIsTold == \A u \in User \ disturbed :
    (WorkingOn(u) = {} /\ \E s \in SessionsOf(u) : IsFresh(s)) => told[u]

\* Whoever signed in with a password and synced then lacks no message that was answered as
\* sent, as long as its connection is up and no table without its session was put in place:
\* what is not in the sync's answer is pushed, whoever signs on, is revoked or goes stale
\* meanwhile (control_plane.py:45-56, app.py:2339-2375).
ConnectedHasAll == \A s \in synced \cap behind : link[s] # "registered"
================================================================================
