-------------------------------- MODULE Uploads --------------------------------
(***************************************************************************)
(* Attachments, sent in chunks (ChatService.init_upload, accept_upload_-   *)
(* chunk, complete_upload) or within the message (send_attachment_-        *)
(* message).  The uploads under way are in memory only; the attachments    *)
(* and the messages that carry them are saved.                             *)
(*                                                                         *)
(* A client's connection is served by one thread, but a client that        *)
(* reconnects may repeat a request while the first thread is still busy    *)
(* with it: two requests on one upload can be in flight.  A file is the    *)
(* sequence of its chunks' numbers, so what is tested is which chunks end  *)
(* up in it and in which order.                                            *)
(***************************************************************************)
EXTENDS GroupChat

CONSTANTS
    Chunks,      \* chunks of a file
    PerUser,     \* MAX_ACTIVE_UPLOADS_PER_USER
    Total        \* MAX_ACTIVE_UPLOADS_TOTAL

ASSUME UploadsAssumption == {Chunks, PerUser, Total} \subseteq Nat \ {0}

VARIABLES
    uploads,      \* _uploads: id -> [user, next, buffer, raced]
    nextUpload,   \* _upload_counter + 1
    attachments   \* state.attachments, in the order of their ids

uploadVars == <<uploads, nextUpload, attachments>>

\* raced: two requests on the upload were in flight at once (history).
Upload     == [user : User, next : Nat, buffer : Seq(Nat), raced : BOOLEAN]
Attachment == [user : User, content : Seq(Nat), upload : Nat, raced : BOOLEAN]

UploadTask == [op : {"begin", "attach"}, user : User]
         \cup [op : {"chunk"}, user : User, upload : Nat, chunk : Nat]
         \cup [op : {"post"}, user : User, upload : Nat, attachment : Nat, id : Nat]
         \cup [op : {"release"}, user : User, upload : Nat]

File == [i \in 1 .. Chunks |-> i - 1]

UploadsOf(a) == {i \in DOMAIN uploads : uploads[i].user = a}
Without(i)   == [j \in DOMAIN uploads \ {i} |-> uploads[j]]

OnUpload(i) == {h \in Doing("chunk") \cup Doing("post") \cup Doing("release") :
                    task[h].upload = i}

\* A request on the upload is taken up: if another one is in flight they race.
Marked(i) == [uploads EXCEPT ![i].raced = @ \/ OnUpload(i) # {}]

UploadsInit == uploads = <<>> /\ nextUpload = 1 /\ attachments = <<>>

\* Variant: the limit per user is off by one.
MayBeginOneMore(a) ==
    /\ Member(a)
    /\ Cardinality(DOMAIN uploads) < Total
    /\ Cardinality(UploadsOf(a)) <= PerUser

MayBegin(a) ==
    /\ Member(a)
    /\ Cardinality(DOMAIN uploads) < Total
    /\ Cardinality(UploadsOf(a)) < PerUser

BeginRequest(h, a) ==
    /\ MayBegin(a)
    /\ Starts(h, [op |-> "begin", user |-> a])
    /\ UNCHANGED <<users, participants, roles, posts, nextPost, historyVars, uploadVars>>

InitUpload(h) ==
    /\ h \in Doing("begin")
    /\ uploads' = [i \in DOMAIN uploads \cup {nextUpload} |->
            IF i = nextUpload
            THEN [user |-> task[h].user, next |-> 0, buffer |-> <<>>, raced |-> FALSE]
            ELSE uploads[i]]
    /\ nextUpload' = nextUpload + 1
    /\ Ends(h)
    /\ UNCHANGED <<users, participants, roles, posts, nextPost, historyVars, attachments>>

\* Variant: a chunk that was taken already is taken again.
MaySendAgain(i, chunk) ==
    /\ chunk <= uploads[i].next
    /\ Len(uploads[i].buffer) < Chunks

MaySendChunk(i, chunk) ==
    /\ chunk = uploads[i].next
    /\ Len(uploads[i].buffer) < Chunks

ChunkRequest(h, i, chunk) ==
    /\ i \in DOMAIN uploads /\ chunk < Chunks
    /\ MaySendChunk(i, chunk)
    /\ Starts(h, [op |-> "chunk", user |-> uploads[i].user, upload |-> i, chunk |-> chunk])
    /\ uploads' = Marked(i)
    /\ UNCHANGED <<users, participants, roles, posts, nextPost, historyVars,
                   nextUpload, attachments>>

\* The buffer is extended although the upload may have been dropped meanwhile.
AcceptChunk(h) ==
    /\ h \in Doing("chunk")
    /\ LET i == task[h].upload
       IN  \/ /\ i \in DOMAIN uploads
              /\ uploads' = [uploads EXCEPT ![i].buffer = Append(@, task[h].chunk),
                                            ![i].next = @ + 1]
           \/ i \notin DOMAIN uploads /\ UNCHANGED uploads
    /\ Ends(h)
    /\ UNCHANGED <<users, participants, roles, posts, nextPost, historyVars,
                   nextUpload, attachments>>

\* The size is not the declared one: the client has to begin again.
DropUpload(i) ==
    /\ i \in DOMAIN uploads
    /\ Len(uploads[i].buffer) # Chunks
    /\ uploads' = Without(i)
    /\ UNCHANGED <<chatVars, nextUpload, attachments>>

\* The bytes are stored, the attachment recorded and both ids taken ...
CompleteRequest(h, i) ==
    /\ i \in DOMAIN uploads
    /\ Len(uploads[i].buffer) = Chunks
    /\ TakesId
    /\ Starts(h, [op |-> "post", user |-> uploads[i].user, upload |-> i,
                  attachment |-> Len(attachments) + 1, id |-> nextPost])
    /\ uploads' = Marked(i)
    /\ attachments' = Append(attachments,
            [user |-> uploads[i].user, content |-> uploads[i].buffer, upload |-> i,
             raced |-> Marked(i)[i].raced])
    /\ nextPost' = nextPost + 1
    /\ UNCHANGED <<users, participants, roles, posts, told, gone, nextUpload>>

\* ... before the user is seen to be a participant: if not, the request ends with an
\* error, and the attachment and the upload stay.
PostAttachment(h) ==
    /\ h \in Doing("post")
    /\ LET t == task[h]
       IN  \/ /\ Member(t.user)
              /\ posts' = Append(posts,
                    [id |-> t.id, sender |-> t.user, attachment |-> t.attachment])
              /\ task' = [task EXCEPT ![h] =
                    [op |-> "release", user |-> t.user, upload |-> t.upload]]
           \/ ~ Member(t.user) /\ Ends(h) /\ UNCHANGED posts
    /\ UNCHANGED <<users, participants, roles, nextPost, historyVars, uploadVars>>

\* Variant: the upload is kept for the client to ask again.
KeepsUpload(h) ==
    /\ h \in Doing("release")
    /\ Ends(h)
    /\ UNCHANGED <<users, participants, roles, posts, nextPost, historyVars, uploadVars>>

ReleaseUpload(h) ==
    /\ h \in Doing("release")
    /\ uploads' = Without(task[h].upload)
    /\ Ends(h)
    /\ UNCHANGED <<users, participants, roles, posts, nextPost, historyVars,
                   nextUpload, attachments>>

\* The whole file comes with the message ...
AttachRequest(h, a) ==
    /\ Member(a)
    /\ Starts(h, [op |-> "attach", user |-> a])
    /\ UNCHANGED <<users, participants, roles, posts, nextPost, historyVars, uploadVars>>

\* ... and is posted when its bytes are stored, whoever is a participant by then.
SendAttachment(h) ==
    /\ h \in Doing("attach")
    /\ TakesId
    /\ attachments' = Append(attachments, [user |-> task[h].user, content |-> File,
                                          upload |-> 0, raced |-> FALSE])
    /\ posts' = Append(posts, [id |-> nextPost, sender |-> task[h].user,
                              attachment |-> Len(attachments) + 1])
    /\ nextPost' = nextPost + 1
    /\ Ends(h)
    /\ UNCHANGED <<users, participants, roles, told, gone, uploads, nextUpload>>

UploadsTypeOK ==
    /\ DOMAIN uploads \subseteq Nat /\ \A i \in DOMAIN uploads : uploads[i] \in Upload
    /\ nextUpload \in Nat
    /\ attachments \in Seq(Attachment)
================================================================================
