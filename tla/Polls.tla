--------------------------------- MODULE Polls ---------------------------------
(***************************************************************************)
(* A poll of the conversation (PollsService): a message with votes.  The   *)
(* lock of the service guards each assignment, and no test that precedes   *)
(* one.                                                                    *)
(***************************************************************************)
EXTENDS GroupChat

CONSTANT Option

ASSUME PollsAssumption == None \notin Option

VARIABLES
    poll,       \* the poll: [post, closed, votes]; None before it is created
    announced   \* history: the votes told with the answer of close, if no vote was
                \* being counted then; None before

pollVars == <<poll, announced>>

PollId   == 0   \* not a number of the counter: msg_poll_ and random digits
Votes    == [User -> Option \cup {None}]
Poll     == [post : Nat, closed : BOOLEAN, votes : Votes]
PollTask == [op : {"poll", "close", "announce"}, user : User]
       \cup [op : {"vote"}, user : User, option : Option]

PollsInit == poll = None /\ announced = None

CreateRequest(h, a) ==
    /\ Member(a)
    /\ poll = None /\ Doing("poll") = {}
    /\ Starts(h, [op |-> "poll", user |-> a])
    /\ UNCHANGED <<users, participants, roles, posts, nextPost, historyVars, pollVars>>

CreatePoll(h) ==
    /\ h \in Doing("poll")
    /\ posts' = Append(posts, [id |-> PollId, sender |-> task[h].user, attachment |-> 0])
    /\ poll' = [post |-> Len(posts) + 1, closed |-> FALSE, votes |-> [u \in User |-> None]]
    /\ Ends(h)
    /\ UNCHANGED <<users, participants, roles, nextPost, historyVars, announced>>

\* Variant: a closed poll takes votes.
MayVoteAlways(a) == poll # None /\ Member(a)

MayVote(a) == poll # None /\ Member(a) /\ ~ poll.closed

VoteRequest(h, a, option) ==
    /\ MayVote(a)
    /\ Starts(h, [op |-> "vote", user |-> a, option |-> option])
    /\ UNCHANGED <<users, participants, roles, posts, nextPost, historyVars, pollVars>>

\* The poll may have been closed since the vote was found admissible.
CountVote(h) ==
    /\ h \in Doing("vote")
    /\ poll' = [poll EXCEPT !.votes[task[h].user] = task[h].option]
    /\ Ends(h)
    /\ UNCHANGED <<users, participants, roles, posts, nextPost, historyVars, announced>>

CloseRequest(h, a) ==
    /\ Member(a)
    /\ poll # None /\ posts[poll.post].sender = a
    /\ Starts(h, [op |-> "close", user |-> a])
    /\ UNCHANGED <<users, participants, roles, posts, nextPost, historyVars, pollVars>>

ClosePoll(h) ==
    /\ h \in Doing("close")
    /\ poll' = [poll EXCEPT !.closed = TRUE]
    /\ task' = [task EXCEPT ![h].op = "announce"]
    /\ UNCHANGED <<users, participants, roles, posts, nextPost, historyVars, announced>>

\* The result goes to the participants and into the answer.
AnnounceResult(h) ==
    /\ h \in Doing("announce")
    /\ announced' = IF Doing("vote") = {} THEN poll.votes ELSE announced
    /\ Ends(h)
    /\ UNCHANGED <<users, participants, roles, posts, nextPost, historyVars, poll>>

PollsTypeOK == poll \in Poll \cup {None} /\ announced \in Votes \cup {None}
================================================================================
