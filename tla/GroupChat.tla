------------------------------- MODULE GroupChat -------------------------------
(***************************************************************************)
(* One conversation: who takes part, with which role, what was posted, and *)
(* what deleting an account does to it (ChatService, AccountLifecycle-     *)
(* Service, and the dispatcher's cases for them).                          *)
(*                                                                         *)
(* Every connection has a handler thread and no lock covers the            *)
(* conversation.  A request has a first step, which makes every test, and  *)
(* a last one, which changes the conversation, saves and answers; other    *)
(* handlers run in between.  Deleting an account walks the tables one by   *)
(* one and has more steps.  A refused request changes nothing and is left  *)
(* out.                                                                    *)
(*                                                                         *)
(* The dispatcher looks up the session before a service tests anything.    *)
(* That of a user whose account is being deleted, or was, may be accepted  *)
(* still: Redis has it until the entry expires, and a login while the      *)
(* deletion runs makes a new one.  So no request is refused here for want  *)
(* of a session; Groups keeps account of those that come late.             *)
(*                                                                         *)
(* What a save writes is the business of Groups, which composes this       *)
(* module with Uploads and Polls.                                          *)
(***************************************************************************)
EXTENDS Naturals, Sequences, FiniteSets, Functions

CONSTANTS
    User,
    Handler,     \* the connections' threads
    Tombstone,   \* TOMBSTONE_USER_ID, the sender of a deleted account's messages
    None

ASSUME GroupChatAssumption ==
    /\ IsFiniteSet(User) /\ IsFiniteSet(Handler)
    /\ Tombstone \notin User

VARIABLES
    users,         \* state.users
    participants,  \* per user, how often participant_user_ids names it
    roles,         \* conversation.roles; "member" where there is no entry
    posts,         \* conversation.messages: [id, sender, attachment]
    nextPost,      \* _message_counter
    task,          \* per handler, the request it is in the middle of, None if idle
    told,          \* history: whether a user is in, by the last change that was made
    gone,          \* history: accounts deleted with nothing of theirs in flight
    shared         \* history: message ids taken while another request held the same

chatVars == <<users, participants, roles, posts, nextPost, task, told, gone, shared>>
historyVars == <<told, gone, shared>>

Post == [id : Nat, sender : User \cup {Tombstone}, attachment : Nat]

\* ungated: roles did not count when the request was tested; id: the id the message
\* was given; list: the participants that a deletion is about to write back; clean:
\* no other request of the user was in flight when a deletion signed it out.
Task == [op : {"send", "add", "remove", "admin", "member"},
         user : User, target : User, ungated : BOOLEAN, id : Nat]
   \cup [op : {"sent", "confirmed"}, user : User]
   \cup [op : {"signed out", "unlisted", "walked"}, user : User, clean : BOOLEAN]
   \cup [op : {"rebuilt"}, user : User, clean : BOOLEAN, list : [User -> Nat]]

Busy       == {h \in Handler : task[h] # None}
Doing(op)  == {h \in Busy : task[h].op = op}
Member(u)  == participants[u] > 0
Size       == FoldFunction(+, 0, participants)
Ungated    == (\A u \in User : roles[u] = "member") \/ Size <= 2
Manages(a) == roles[a] \in {"owner", "admin"}

\* create_conversation was answered: its creator is the owner.
Init ==
    /\ users = User /\ gone = {}
    /\ \E creator \in User, others \in (SUBSET User) \ {{}} :
        /\ creator \notin others
        /\ participants = [u \in User |-> IF u \in others \cup {creator} THEN 1 ELSE 0]
        /\ roles = [u \in User |-> IF u = creator THEN "owner" ELSE "member"]
        /\ told = [u \in User |-> IF u \in others \cup {creator} THEN "in" ELSE "out"]
    /\ posts = <<>> /\ nextPost = 2 /\ shared = {}
    /\ task = [h \in Handler |-> None]

Starts(h, t) ==
    /\ task[h] = None
    /\ task' = [task EXCEPT ![h] = t]

Ends(h) == task' = [task EXCEPT ![h] = None]

Asks(op, a, u) == [op |-> op, user |-> a, target |-> u, ungated |-> Ungated, id |-> 0]

--------------------------------------------------------------------------------
(* Messages *)

\* An id is taken from the counter.
TakesId ==
    shared' = IF \E h \in Doing("send") : task[h].id = nextPost
              THEN shared \cup {nextPost} ELSE shared

\* The id is taken before other calls are made ...
SendRequest(h, a) ==
    /\ Member(a)
    /\ TakesId
    /\ Starts(h, [Asks("send", a, a) EXCEPT !.id = nextPost])
    /\ UNCHANGED <<users, participants, roles, posts, nextPost, told, gone>>

\* ... and the counter is incremented after them.  The dispatcher goes on (Personal).
Send(h) ==
    /\ h \in Doing("send")
    /\ nextPost' = nextPost + 1
    /\ posts' = Append(posts, [id |-> task[h].id, sender |-> task[h].user, attachment |-> 0])
    /\ task' = [task EXCEPT ![h] = [op |-> "sent", user |-> @.user]]
    /\ UNCHANGED <<users, participants, roles, historyVars>>

--------------------------------------------------------------------------------
(* Participants and roles *)

\* A deletion holds a copy of the participants that it will write back over any
\* change made now.
Overwritten(h) == \E other \in Doing("rebuilt") : other # h

MayAdd(a, u) ==
    /\ Member(a)
    /\ Ungated \/ Manages(a)
    /\ u \in users /\ ~ Member(u)

AddRequest(h, a, u) ==
    /\ MayAdd(a, u)
    /\ Starts(h, Asks("add", a, u))
    /\ UNCHANGED <<users, participants, roles, posts, nextPost, historyVars>>

\* Added once more if another handler has added the user meanwhile.
AddParticipant(h) ==
    /\ h \in Doing("add")
    /\ LET u == task[h].target
       IN  /\ participants' = [participants EXCEPT ![u] = @ + 1]
           /\ told' = [told EXCEPT ![u] =
                IF Member(u) \/ Overwritten(h) THEN "unclear" ELSE "in"]
    /\ Ends(h)
    /\ UNCHANGED <<users, roles, posts, nextPost, gone, shared>>

\* Variant: an admin may remove the owner.
MayRemoveOwner(a, u) ==
    /\ Member(a) /\ Member(u)
    /\ Ungated \/ a = u \/ Manages(a)

MayRemove(a, u) ==
    /\ Member(a) /\ Member(u)
    /\ \/ Ungated \/ a = u
       \/ roles[a] = "owner" /\ roles[u] # "owner"
       \/ roles[a] = "admin" /\ roles[u] = "member"

\* Also a user's leaving, which is the removal of oneself.
RemoveRequest(h, a, u) ==
    /\ MayRemove(a, u)
    /\ Starts(h, Asks("remove", a, u))
    /\ UNCHANGED <<users, participants, roles, posts, nextPost, historyVars>>

\* Variant: a user who is no participant any more is removed again.
RemovesAnyway(h) ==
    /\ h \in Doing("remove")
    /\ participants' = [participants EXCEPT ![task[h].target] = @ - 1]
    /\ Ends(h)
    /\ UNCHANGED <<users, roles, posts, nextPost, historyVars>>

\* Variant: the user loses the role and stays in the list.
KeepsParticipant(h) ==
    /\ h \in Doing("remove")
    /\ roles' = [roles EXCEPT ![task[h].target] = "member"]
    /\ told' = [told EXCEPT ![task[h].target] = "out"]
    /\ Ends(h)
    /\ UNCHANGED <<users, participants, posts, nextPost, gone, shared>>

\* Removes one mention; when there is none left, list.remove raises and the request
\* ends with an error.
RemoveParticipant(h) ==
    /\ h \in Doing("remove")
    /\ LET u == task[h].target
       IN  \/ /\ Member(u)
              /\ participants' = [participants EXCEPT ![u] = @ - 1]
              /\ roles' = [roles EXCEPT ![u] = "member"]
              /\ told' = [told EXCEPT ![u] =
                    IF @ = "unclear" \/ Overwritten(h) THEN "unclear" ELSE "out"]
           \/ ~ Member(u) /\ UNCHANGED <<participants, roles, told>>
    /\ Ends(h)
    /\ UNCHANGED <<users, posts, nextPost, gone, shared>>

MaySetRole(a, u) ==
    /\ Member(a) /\ Member(u)
    /\ roles[a] = "owner" /\ roles[u] # "owner"

RoleRequest(h, a, u, role) ==
    /\ MaySetRole(a, u)
    /\ Starts(h, Asks(role, a, u))
    /\ UNCHANGED <<users, participants, roles, posts, nextPost, historyVars>>

SetRole(h) ==
    /\ h \in Doing("admin") \cup Doing("member")
    /\ roles' = [roles EXCEPT ![task[h].target] = task[h].op]
    /\ Ends(h)
    /\ UNCHANGED <<users, participants, posts, nextPost, historyVars>>

--------------------------------------------------------------------------------
(* Deleting an account *)

\* The password, and the second factor if any, were right.
DeleteRequest(h, a) ==
    /\ a \in users
    /\ Starts(h, [op |-> "confirmed", user |-> a])
    /\ UNCHANGED <<users, participants, roles, posts, nextPost, historyVars>>

\* Sessions and devices; push tokens and contacts follow (Personal).
DropSessions(h) ==
    /\ h \in Doing("confirmed")
    /\ LET u == task[h].user
           others == {other \in Busy \ {h} : task[other].user = u}
       IN  task' = [task EXCEPT ![h] =
                [op |-> "signed out", user |-> u, clean |-> others = {}]]
    /\ UNCHANGED <<users, participants, roles, posts, nextPost, historyVars>>

Tombstoned(u) ==
    [i \in DOMAIN posts |->
        IF posts[i].sender = u THEN [posts[i] EXCEPT !.sender = Tombstone] ELSE posts[i]]

\* The list without the user is computed ...
RebuildParticipants(h) ==
    /\ h \in Doing("unlisted")
    /\ LET u == task[h].user
       IN  \/ /\ Member(u)
              /\ task' = [task EXCEPT ![h] =
                    [op |-> "rebuilt", user |-> u, clean |-> task[h].clean,
                     list |-> [participants EXCEPT ![u] = 0]]]
              /\ UNCHANGED posts
           \/ /\ ~ Member(u)
              /\ task' = [task EXCEPT ![h] =
                    [op |-> "walked", user |-> u, clean |-> task[h].clean]]
              /\ posts' = Tombstoned(u)
    /\ UNCHANGED <<users, participants, roles, nextPost, historyVars>>

\* ... and takes the place of whatever the participants are by then; the messages of
\* the user lose their sender.
ReplaceParticipants(h) ==
    /\ h \in Doing("rebuilt")
    /\ LET u == task[h].user
       IN  /\ participants' = task[h].list
           /\ posts' = Tombstoned(u)
           /\ told' = [told EXCEPT ![u] = IF Overwritten(h) THEN "unclear" ELSE "out"]
           /\ task' = [task EXCEPT ![h] =
                [op |-> "walked", user |-> u, clean |-> task[h].clean]]
    /\ UNCHANGED <<users, roles, nextPost, gone, shared>>

\* Variant: the user record is kept.
KeepsUser(h) ==
    /\ h \in Doing("walked")
    /\ gone' = gone \cup {task[h].user}
    /\ Ends(h)
    /\ UNCHANGED <<users, participants, roles, posts, nextPost, told, shared>>

DropUser(h) ==
    /\ h \in Doing("walked")
    /\ LET u == task[h].user
       IN  /\ users' = users \ {u}
           /\ gone' = IF /\ task[h].clean /\ told[u] = "out"
                         /\ \A other \in Doing("add") : task[other].target # u
                      THEN gone \cup {u} ELSE gone
    /\ Ends(h)
    /\ UNCHANGED <<participants, roles, posts, nextPost, told, shared>>
================================================================================
