--------------------------------- MODULE Groups ---------------------------------
(***************************************************************************)
(* A conversation with everything that happens in it: its participants and *)
(* messages (GroupChat), attachments (Uploads) and a poll (Polls), and the *)
(* file from which a restart reads it back (InMemoryState).                *)
(*                                                                         *)
(* The payload of a save is computed in the step that ends with it.  It is *)
(* written then, or later, after payloads that are newer; what a crash in  *)
(* the middle of the writing does is modelled in StateStore.               *)
(***************************************************************************)
EXTENDS Uploads, Polls, Personal, FiniteSetsExt

CONSTANT Loads   \* bound: how many requests of each kind a behaviour has

Request == {"send", "add", "remove", "role", "delete", "attach", "begin", "chunk", "complete",
            "poll", "vote", "close", "contact", "mark", "token", "late", "restart"}

ASSUME GroupsAssumption ==
    /\ Loads \subseteq [Request -> Nat]
    /\ None \notin Task \cup UploadTask \cup PollTask \cup PersonalTask \cup Poll \cup Votes

VARIABLES
    left,        \* the requests, and the saves that take long, that may still come
    file,        \* what a restart reads: [users, participants, posts, attachments, poll, kept]
    late,        \* a payload that is still to be written, None if there is none
    newest,      \* history: the payload that was computed last
    interfered,  \* history: users of whom a request was taken up when their account was being
                 \* deleted and their sessions had been dropped
    returned     \* history: the same, after the account was deleted

fileVars == <<file, late, newest>>
vars == <<left, fileVars, interfered, returned, chatVars, uploadVars, pollVars, personalVars>>

\* Of what is kept for a user only this is saved.
Saved == Contact \cup Alias

Snapshot == [users |-> users, participants |-> participants, posts |-> posts,
             attachments |-> attachments, poll |-> poll,
             kept |-> [u \in User |-> [item \in Saved |-> kept[u][item]]]]

GroupsInit ==
    /\ left \in Loads
    /\ Init /\ UploadsInit /\ PollsInit /\ PersonalInit
    /\ file = Snapshot /\ late = None /\ newest = file
    /\ interfered = {} /\ returned = {}

Takes(request) ==
    /\ left[request] > 0
    /\ left' = [left EXCEPT ![request] = @ - 1]

ChatRequest(h) == \E a, u \in User :
    \/ Takes("send") /\ a = u /\ Heard(a) /\ SendRequest(h, a)
    \/ Takes("add") /\ AddRequest(h, a, u)
    \/ Takes("remove") /\ RemoveRequest(h, a, u)
    \/ Takes("role") /\ \E role \in {"admin", "member"} : RoleRequest(h, a, u, role)
    \/ Takes("delete") /\ a = u /\ DeleteRequest(h, a)

UploadRequest(h) ==
    \/ Takes("attach") /\ \E a \in User : AttachRequest(h, a)
    \/ Takes("begin") /\ \E a \in User : BeginRequest(h, a)
    \/ Takes("chunk") /\ \E i \in DOMAIN uploads, chunk \in 0 .. (Chunks - 1) :
                            ChunkRequest(h, i, chunk)
    \/ Takes("complete") /\ \E i \in DOMAIN uploads : CompleteRequest(h, i)

PollRequest(h) == \E a \in User :
    \/ Takes("poll") /\ CreateRequest(h, a)
    \/ Takes("vote") /\ \E option \in Option : VoteRequest(h, a, option)
    \/ Takes("close") /\ CloseRequest(h, a)

PersonalRequest(h) == \E a \in User :
    \/ Takes("contact") /\ ContactRequest(h, a)
    \/ /\ Takes("mark")
       /\ BlockRequest(h, a) \/ MuteRequest(h, a) \/ DraftRequest(h, a) \/ FlagRequest(h, a)
    \/ Takes("token") /\ \E op \in {"register", "unregister"}, item \in Tokens :
                            TokenRequest(h, op, a, item)

\* A deletion has dropped the sessions of the user and has not ended.
SignedOutFor(h, u) ==
    /\ h \in Busy /\ task[h].user = u
    /\ task[h].op \in {"signed out", "copied", "forgotten"} \cup Forgetting

\* A request of the user is taken up.
Comes(u) ==
    /\ interfered' = interfered \cup
            {v \in User : v = u /\ \E h \in Handler : SignedOutFor(h, v)}
    /\ returned' = returned \cup {v \in User \ users : v = u}

Requests(h) ==
    /\ \/ ChatRequest(h) /\ UNCHANGED <<uploadVars, pollVars, personalVars>>
       \/ UploadRequest(h) /\ UNCHANGED <<pollVars, personalVars>>
       \/ PollRequest(h) /\ UNCHANGED <<uploadVars, personalVars>>
       \/ PersonalRequest(h) /\ UNCHANGED <<uploadVars, pollVars>>
    /\ Comes(task'[h].user)
    /\ UNCHANGED fileVars

\* save_runtime_state: what it computes is written at once, or Writes comes later.
Save ==
    /\ newest' = Snapshot'
    /\ \/ file' = newest' /\ UNCHANGED <<left, late>>
       \/ late = None /\ Takes("late") /\ late' = newest' /\ UNCHANGED file

Writes ==
    /\ late # None
    /\ file' = late /\ late' = None
    /\ UNCHANGED <<left, newest, interfered, returned, chatVars, uploadVars, pollVars,
                   personalVars>>

\* The steps that end with save_runtime_state ...
Saves(h) ==
    /\ \/ /\ Send(h) \/ AddParticipant(h) \/ RemoveParticipant(h) \/ SetRole(h) \/ DropUser(h)
          /\ UNCHANGED <<uploadVars, pollVars, personalVars>>
       \/ (PostAttachment(h) \/ SendAttachment(h)) /\ UNCHANGED <<pollVars, personalVars>>
       \/ /\ CreatePoll(h) \/ CountVote(h) \/ ClosePoll(h)
          /\ UNCHANGED <<uploadVars, personalVars>>
       \/ /\ \/ Keep(h) \/ Drop(h) \/ KeepNowhere(h) \/ AppendToken(h)
             \/ (ClearDraft(h) \/ Unregister(h)) /\ kept' # kept
          /\ UNCHANGED <<uploadVars, pollVars>>
    /\ Save
    /\ UNCHANGED <<interfered, returned>>

\* ... and those that do not.
Continues(h) ==
    /\ \/ /\ DropSessions(h) \/ RebuildParticipants(h) \/ ReplaceParticipants(h)
          /\ UNCHANGED <<uploadVars, pollVars, personalVars>>
       \/ /\ InitUpload(h) \/ AcceptChunk(h) \/ ReleaseUpload(h)
          /\ UNCHANGED <<pollVars, personalVars>>
       \/ AnnounceResult(h) /\ UNCHANGED <<uploadVars, personalVars>>
       \/ /\ \/ AssignTokens(h)
             \/ (ClearDraft(h) \/ Unregister(h)) /\ kept' = kept
             \/ CopyTokens(h) \/ ReplaceTokens(h)
             \/ CopyContacts(h) \/ ReplaceContacts(h) \/ DeletionFails(h)
          /\ UNCHANGED <<uploadVars, pollVars>>
    /\ UNCHANGED <<left, fileVars, interfered, returned>>

\* A complete that finds the wrong size.
Refuses == \E i \in DOMAIN uploads :
    /\ Takes("complete") /\ DropUpload(i)
    /\ Comes(uploads[i].user)
    /\ UNCHANGED <<fileVars, pollVars, personalVars>>

\* Variant: the messages are counted.
CountedNextPost(saved) == Len(saved) + 2

\* One more than the highest id in the file, and never less than 2.
NextPost(saved) == Max({saved[i].id : i \in DOMAIN saved} \cup {1}) + 1

\* The file is not what was saved last.
Outdated == file # newest

\* The server is stopped at any time and started again: roles are not read back; of
\* uploads, push tokens, blocked users, mutes, drafts and flags nothing is saved.  What was
\* answered of the latter is unclear then, and from an outdated file all is.
Restart ==
    /\ Takes("restart")
    /\ users' = file.users /\ participants' = file.participants /\ posts' = file.posts
    /\ attachments' = [i \in DOMAIN file.attachments |->
            [file.attachments[i] EXCEPT !.upload = 0]]
    /\ poll' = file.poll
    /\ roles' = [u \in User |-> "member"]
    /\ nextPost' = NextPost(file.posts)
    /\ uploads' = <<>> /\ nextUpload' = 1
    /\ kept' = [u \in User |-> [item \in Item |->
            IF item \in Saved THEN file.kept[u][item] ELSE 0]]
    /\ task' = [h \in Handler |-> None]
    /\ told' = [u \in User |->
            IF Outdated \/ \E h \in Doing("walked") : task[h].user = u
            THEN "unclear" ELSE told[u]]
    /\ gone' = IF Outdated THEN {} ELSE gone
    /\ announced' = IF Outdated THEN None ELSE announced
    /\ answered' = [u \in User |-> [item \in Item |->
            IF \/ item \notin Saved /\ answered[u][item] = "in"
               \/ item \in Saved /\ (Outdated \/ {u, item[2]} \cap BeingDeleted # {})
            THEN "unclear" ELSE answered[u][item]]]
    /\ newest' = file /\ late' = None
    /\ UNCHANGED <<file, interfered, returned, shared>>

Next ==
    \/ \E h \in Handler : Requests(h) \/ Saves(h) \/ Continues(h)
    \/ Refuses
    \/ Writes
    \/ Restart

Spec == GroupsInit /\ [][Next]_vars

--------------------------------------------------------------------------------
(* Properties *)

SavedState == [users : SUBSET User, participants : [User -> Nat], posts : Seq(Post),
               attachments : Seq(Attachment), poll : Poll \cup {None},
               kept : [User -> [Saved -> Nat]]]

\* Every variable has its type, and a request in flight is of one of the kinds the
\* dispatcher knows.
TypeOK ==
    /\ left \in [Request -> Nat]
    /\ {file, newest} \subseteq SavedState /\ late \in SavedState \cup {None}
    /\ interfered \subseteq User /\ returned \subseteq User
    /\ users \subseteq User /\ gone \subseteq User /\ shared \subseteq Nat
    /\ participants \in [User -> Nat]
    /\ roles \in [User -> {"owner", "admin", "member"}]
    /\ posts \in Seq(Post) /\ nextPost \in Nat
    /\ task \in [Handler -> Task \cup UploadTask \cup PollTask \cup PersonalTask \cup {None}]
    /\ told \in [User -> {"in", "out", "unclear"}]
    /\ UploadsTypeOK /\ PollsTypeOK /\ PersonalTypeOK

\* Whoever was last added is a participant, exactly once, and whoever was last
\* removed, left or deleted the account is none, across a restart too (add_participant,
\* remove_participant, delete); only two additions of the same user at once, a change
\* made while a deletion holds its copy of the list, and a restart from a file that an
\* older save was written to last leave it unclear.
MembershipAsAnswered == \A u \in User :
    /\ told[u] = "in"  => participants[u] = 1
    /\ told[u] = "out" => participants[u] = 0

\* A step that takes the owner out of the conversation ends the owner's own leaving or
\* deletion, a removal that was tested when roles did not count, or a deletion that
\* writes back a list from before the owner came in (remove_participant).
OwnerOnlyLeaves == [][\A u \in User :
    (Member(u) /\ roles[u] = "owner" /\ ~ Member(u)') =>
        \/ \E h \in Doing("remove") : /\ task[h].target = u
                                      /\ task[h].user = u \/ task[h].ungated
        \/ \E h \in Doing("rebuilt") : task[h].list[u] = 0
        \/ Restart]_vars

\* An account deleted while no other request of its user was served is no user, no
\* participant, no sender and nobody's contact any more, whatever comes after it: requests
\* of its user that are accepted still, and restarts, but for one from a file that an
\* older save was written to last.  Nor has it push tokens or contacts, unless a request of
\* its user is accepted after the deletion (auth.py:185-203, delete).
DeletedIsGone == \A u \in gone \ interfered :
    /\ u \notin users /\ ~ Member(u)
    /\ \A i \in DOMAIN posts : posts[i].sender # u
    /\ \A a \in User : ~ Has(a, <<"contact", u>>)
    /\ u \notin returned => \A item \in Contact \cup Tokens : ~ Has(u, item)

\* What a user was told last to be kept is kept, exactly once, and what it was told to be
\* gone is gone: no list that another handler copied before brings it back or takes it away
\* unnoticed.  Over a restart this is claimed of the contacts and their names, if the file
\* is not outdated; of blocked users, mutes, drafts, flags and push tokens, which no file
\* has, only until the next one (register, unregister, add, remove, save, delete,
\* _runtime_payload).
KeptAsAnswered == \A u \in User, item \in Item :
    /\ answered[u][item] = "in"  => kept[u][item] = 1
    /\ answered[u][item] = "out" => kept[u][item] = 0

\* Two messages have one id only if it was taken for both before either was stored
\* (send_message increments its counter last), never because of a restart.
MessageIdsDistinct == \A i, j \in DOMAIN posts :
    (i # j /\ posts[i].id = posts[j].id /\ posts[i].id # PollId) => posts[i].id \in shared

\* A message's attachment exists, is the file that the client sent, chunk by chunk, and
\* is carried by no other message that was made of the same upload, unless two requests
\* on the upload were in flight at once (accept_upload_chunk, complete_upload).
AttachmentsAreWhole == \A i \in DOMAIN posts :
    posts[i].attachment # 0 =>
        /\ posts[i].attachment \in DOMAIN attachments
        /\ LET attachment == attachments[posts[i].attachment]
           IN  ~ attachment.raced =>
                /\ attachment.content = File
                /\ \A j \in DOMAIN posts \ {i} :
                    posts[j].attachment # 0 /\ attachment.upload # 0 =>
                        LET other == attachments[posts[j].attachment]
                        IN  other.upload = attachment.upload => other.raced

\* A user's uploads under way exceed the limit at most by the requests that passed
\* its test together.
UploadsBounded == \A u \in User :
    Cardinality(UploadsOf(u)) <= PerUser + Cardinality(Handler) - 1

\* The result announced when a poll was closed stays the poll's result, across a
\* restart too, unless a vote was being counted then or the file was outdated.
AnnouncedIsFinal == announced # None => poll # None /\ poll.votes = announced
================================================================================
