-------------------------------- MODULE Personal --------------------------------
(***************************************************************************)
(* What is kept for each user: contacts and the names given to them, who   *)
(* is blocked, a draft in the conversation and whether it is pinned,       *)
(* archived or muted, push tokens (ContactsService, BlockMuteService,      *)
(* DraftsService, ConversationFlagsService, PushTokenService), and what    *)
(* becomes of it when an account is deleted (AccountLifecycleService).     *)
(*                                                                         *)
(* Each of these is a table of its own in InMemoryState; here they are one *)
(* function.  A user has one device.  As in GroupChat a request is tested  *)
(* in one step and served in another; a list that is computed from another *)
(* one and takes its place is copied in one step and replaced in another.  *)
(***************************************************************************)
EXTENDS GroupChat

CONSTANT Token   \* push tokens that a device may be given

VARIABLES
    kept,      \* per user and item, how often the table has it
    answered   \* history: what the user was answered last about it, as told

personalVars == <<kept, answered>>
conversationVars == <<users, participants, roles, posts, nextPost, historyVars>>

Contact == {"contact"} \X User
Alias   == {"alias"} \X User
Blocked == {"blocked"} \X User
Mark    == {"draft", "pinned", "archived"} \X {None}
Muted   == {"muted"} \X {None}
Tokens  == {"token"} \X Token
Item    == Contact \cup Alias \cup Blocked \cup Mark \cup Muted \cup Tokens

\* lists: what a handler has copied of the lists that it will replace.
PersonalTask ==
    [op : {"keep", "drop", "lost keep", "lost drop"}, user : User, item : Item]
    \cup [op : {"register", "unregister"}, user : User, item : Tokens,
          lists : [User -> [Tokens -> Nat]]]
    \cup [op : {"append"}, user : User, item : Tokens]
    \cup [op : {"copied"}, user : User, clean : BOOLEAN, lists : [User -> [Tokens -> Nat]]]
    \cup [op : {"listed"}, user : User, clean : BOOLEAN, owners : SUBSET User,
          lists : [User -> [Contact -> Nat]]]
    \cup [op : {"forgotten"}, user : User, clean : BOOLEAN]

PersonalInit ==
    /\ kept = [u \in User |-> [item \in Item |-> 0]]
    /\ answered = [u \in User |-> [item \in Item |-> "out"]]

Has(u, item) == kept[u][item] > 0

\* The lists f of all users take the place of what is there.
Replaced(f) == [u \in User |-> [item \in Item |->
                    IF item \in DOMAIN f[u] THEN f[u][item] ELSE kept[u][item]]]

--------------------------------------------------------------------------------
(* Contacts, blocked users, drafts and flags *)

\* The sender's message is not refused: between two, the other has not blocked it.
Heard(a) == Size = 2 => \A u \in User \ {a} : Member(u) => ~ Has(u, <<"blocked", a>>)

MayKeep(a, item) ==
    CASE item \in Contact -> item[2] \in users \ {a} /\ ~ Has(a, item)
      [] item \in Alias   -> Has(a, <<"contact", item[2]>>)
      [] item \in Blocked -> item[2] \in users \ {a}
      [] item \in Mark    -> Member(a)
      [] item \in Muted   -> TRUE

\* The users whose contacts a deletion is at.
Forgetting   == {"listed", "unlisted", "rebuilt", "walked"}
BeingDeleted == {task[h].user : h \in {other \in Busy : task[other].op \in Forgetting}}

\* An account that is being deleted is entered somewhere although its entries have
\* been looked for.
Entered(u) == {h \in Busy : task[h].op \in Forgetting /\ task[h].user = u}

KeepRequest(h, a, item) ==
    /\ MayKeep(a, item)
    /\ task[h] = None
    /\ task' = [other \in Handler |->
            IF other = h THEN [op |-> "keep", user |-> a, item |-> item]
            ELSE IF item \in Contact /\ other \in Entered(item[2])
                 THEN [task[other] EXCEPT !.clean = FALSE] ELSE task[other]]
    /\ UNCHANGED <<conversationVars, personalVars>>

DropRequest(h, a, item) ==
    /\ item \in Contact => Has(a, item)
    /\ item \in Mark => Member(a)
    /\ Starts(h, [op |-> "drop", user |-> a, item |-> item])
    /\ UNCHANGED <<conversationVars, personalVars>>

\* The dispatcher's cases.
ContactRequest(h, a) ==
    \/ \E item \in Contact \cup Alias : KeepRequest(h, a, item)
    \/ \E item \in Contact : DropRequest(h, a, item)
MarkRequest(h, a, items) == \E item \in items : KeepRequest(h, a, item) \/ DropRequest(h, a, item)
BlockRequest(h, a) == MarkRequest(h, a, Blocked)
MuteRequest(h, a)  == MarkRequest(h, a, Muted)
DraftRequest(h, a) == MarkRequest(h, a, {<<"draft", None>>})
FlagRequest(h, a)  == MarkRequest(h, a, {<<"pinned", None>>, <<"archived", None>>})

\* Another handler will replace this list, or clear this draft.
WillReplace(h, a, item) == \E other \in Busy \ {h} :
    \/ item \in Tokens /\ task[other].op \in {"register", "unregister", "copied"}
    \/ item \in Contact /\ task[other].op = "listed" /\ a \in task[other].owners
    \/ item = <<"draft", None>> /\ task[other].op \in {"send", "sent"} /\ task[other].user = a

Told(h, a, item, what) == IF WillReplace(h, a, item) THEN "unclear" ELSE what

\* The request's item is there count times now.
Keeps(h, items, count) ==
    /\ h \in Doing("keep") /\ task[h].item \in items
    /\ LET a == task[h].user
           item == task[h].item
       IN  /\ kept' = [kept EXCEPT ![a][item] = count]
           /\ answered' = [answered EXCEPT ![a][item] =
                IF count > 1 THEN "unclear" ELSE Told(h, a, item, "in")]
    /\ Ends(h)
    /\ UNCHANGED conversationVars

\* A contact that two handlers add is listed twice.
AddContact(h)  == Keeps(h, Contact, kept[task[h].user][task[h].item] + 1)
NameContact(h) == Keeps(h, Alias, 1)
Block(h)       == Keeps(h, Blocked, 1)
SaveDraft(h)   == Keeps(h, {<<"draft", None>>}, 1)
SetFlag(h)     == Keeps(h, {<<"pinned", None>>, <<"archived", None>>}, 1)
Mute(h)        == Keeps(h, Muted, 1)

Keep(h) == \/ AddContact(h) \/ NameContact(h) \/ Block(h)
           \/ SaveDraft(h) \/ SetFlag(h) \/ Mute(h)

\* Variant: the contact goes and its name stays.
DropContact(h) ==
    /\ h \in Doing("drop")
    /\ LET a == task[h].user
           item == task[h].item
           both == IF item \in Contact THEN {item, <<"alias", item[2]>>} ELSE {item}
       IN  /\ kept' = [kept EXCEPT ![a][item] = IF @ = 0 THEN 0 ELSE @ - 1]
           /\ answered' = [answered EXCEPT ![a] =
                    [i \in Item |-> IF i \in both THEN "out" ELSE @[i]]]
    /\ Ends(h)
    /\ UNCHANGED conversationVars

\* A contact goes with its name; one that has gone meanwhile is an error.
Drop(h) ==
    /\ h \in Doing("drop")
    /\ LET a == task[h].user
           item == task[h].item
           alias == <<"alias", item[2]>>
           both == IF item \in Contact THEN {item, alias} ELSE {item}
       IN  IF Has(a, item)
           THEN /\ kept' = [kept EXCEPT ![a] = [i \in Item |->
                        IF i = item THEN @[i] - 1 ELSE IF i \in both THEN 0 ELSE @[i]]]
                /\ answered' = [answered EXCEPT ![a] = [i \in Item |->
                        IF i \notin both \/ (i = item /\ @[i] = "unclear" /\ i \in Contact)
                        THEN @[i] ELSE Told(h, a, i, "out")]]
           ELSE UNCHANGED personalVars
    /\ Ends(h)
    /\ UNCHANGED conversationVars

\* The list that the request has found is nobody's any more.
KeepNowhere(h) ==
    /\ h \in Doing("lost keep") \cup Doing("lost drop")
    /\ LET a == task[h].user
           item == task[h].item
           alias == <<"alias", item[2]>>
           clear == IF task[h].op = "lost drop" THEN {alias} ELSE {}
       IN  /\ kept' = [kept EXCEPT ![a] = [i \in Item |-> IF i \in clear THEN 0 ELSE @[i]]]
           /\ answered' = [answered EXCEPT ![a] = [i \in Item |->
                IF i = item THEN "unclear" ELSE IF i \in clear THEN "out" ELSE @[i]]]
    /\ Ends(h)
    /\ UNCHANGED conversationVars

\* DraftsService.clear, called when a message was sent.
ClearDraft(h) ==
    /\ h \in Doing("sent")
    /\ kept' = [kept EXCEPT ![task[h].user][<<"draft", None>>] = 0]
    /\ answered' = [answered EXCEPT ![task[h].user][<<"draft", None>>] = "out"]
    /\ Ends(h)
    /\ UNCHANGED conversationVars

--------------------------------------------------------------------------------
(* Push tokens *)

TokenLists == [u \in User |-> [item \in Tokens |-> kept[u][item]]]

\* All tokens but the device's, or but the one that is given back, are copied ...
TokenRequest(h, op, a, item) ==
    /\ Starts(h, [op |-> op, user |-> a, item |-> item,
                  lists |-> [TokenLists EXCEPT ![a] = [i \in Tokens |->
                        IF op = "register" \/ i = item THEN 0 ELSE @[i]]]])
    /\ UNCHANGED <<conversationVars, personalVars>>

\* ... and take the place of what is there by then; a token that is registered is
\* appended after that.
AssignTokens(h) ==
    /\ h \in Doing("register")
    /\ LET a == task[h].user
       IN  /\ kept' = Replaced(task[h].lists)
           /\ answered' = [answered EXCEPT ![a] = [i \in Item |->
                IF i \in Tokens THEN Told(h, a, i, "out") ELSE @[i]]]
    /\ task' = [task EXCEPT ![h] = [op |-> "append", user |-> @.user, item |-> @.item]]
    /\ UNCHANGED conversationVars

Unregister(h) ==
    /\ h \in Doing("unregister")
    /\ LET a == task[h].user
           item == task[h].item
       IN  /\ kept' = Replaced(task[h].lists)
           /\ answered' = [answered EXCEPT ![a][item] = Told(h, a, item, "out")]
    /\ Ends(h)
    /\ UNCHANGED conversationVars

AppendToken(h) ==
    /\ h \in Doing("append")
    /\ LET a == task[h].user
           item == task[h].item
       IN  /\ kept' = [kept EXCEPT ![a][item] = @ + 1]
           /\ answered' = [answered EXCEPT ![a][item] =
                IF Has(a, item) THEN "unclear" ELSE Told(h, a, item, "in")]
    /\ Ends(h)
    /\ UNCHANGED conversationVars

--------------------------------------------------------------------------------
(* Deleting an account, between its sessions and its place in the conversation *)

Proceeds(h, op, stillClean) ==
    task' = [task EXCEPT ![h] = [op |-> op, user |-> task[h].user,
                                 clean |-> task[h].clean /\ stillClean]]

CopyTokens(h) ==
    /\ h \in Doing("signed out")
    /\ task' = [task EXCEPT ![h] =
            [op |-> "copied", user |-> @.user, clean |-> @.clean,
             lists |-> [TokenLists EXCEPT ![task[h].user] = [i \in Tokens |-> 0]]]]
    /\ UNCHANGED <<conversationVars, personalVars>>

ReplaceTokens(h) ==
    /\ h \in Doing("copied")
    /\ LET u == task[h].user
       IN  /\ kept' = Replaced(task[h].lists)
           /\ answered' = [answered EXCEPT ![u] = [i \in Item |->
                IF i \in Tokens THEN Told(h, u, i, "out") ELSE @[i]]]
           /\ Proceeds(h, "forgotten", \A i \in Tokens : ~ WillReplace(h, u, i))
    /\ UNCHANGED conversationVars

\* No other deletion holds a list that this entry may be in.
AtContactsAlone(h, entry) == \A a \in User : ~ WillReplace(h, a, entry)

\* A request on the contacts of one of these owners works on the list it has found.
Lost(owners, other) ==
    IF /\ other \in Doing("keep") \cup Doing("drop")
       /\ task[other].user \in owners /\ task[other].item \in Contact
    THEN [task[other] EXCEPT !.op = IF @ = "keep" THEN "lost keep" ELSE "lost drop"]
    ELSE task[other]

\* The user's own contacts go, those who list the user are found ...
CopyContacts(h) ==
    /\ h \in Doing("forgotten")
    /\ LET u == task[h].user
           entry == <<"contact", u>>
       IN  /\ kept' = [kept EXCEPT ![u] = [i \in Item |-> IF i \in Contact THEN 0 ELSE @[i]]]
           /\ answered' = [answered EXCEPT ![u] = [i \in Item |->
                IF i \in Contact THEN Told(h, u, i, "out") ELSE @[i]]]
           /\ task' = [other \in Handler |->
                IF other = h
                THEN [op |-> "listed", user |-> u,
                      clean |-> /\ task[h].clean /\ AtContactsAlone(h, entry)
                                /\ \A k \in Doing("keep") : task[k].item # entry,
                      owners |-> {a \in User \ {u} : Has(a, entry)},
                      lists |-> [a \in User |-> [i \in Contact |->
                            IF u \in {a, i[2]} THEN 0 ELSE kept[a][i]]]]
                ELSE Lost({u}, other)]
    /\ UNCHANGED conversationVars

\* ... and their lists replaced.
ReplaceContacts(h) ==
    /\ h \in Doing("listed")
    /\ LET u == task[h].user
           owners == task[h].owners
           entry == <<"contact", u>>
       IN  /\ kept' = [a \in User |-> IF a \notin owners THEN kept[a] ELSE
                [i \in Item |-> IF i \in Contact THEN task[h].lists[a][i] ELSE kept[a][i]]]
           /\ answered' = [a \in User |-> IF a \notin owners THEN answered[a]
                ELSE [answered[a] EXCEPT ![entry] = Told(h, a, entry, "out")]]
           /\ task' = [other \in Handler |->
                IF other = h
                THEN [op |-> "unlisted", user |-> u,
                      clean |-> task[h].clean /\ AtContactsAlone(h, entry)]
                ELSE Lost(owners, other)]
    /\ UNCHANGED conversationVars

\* Somebody's first contact is entered while the table is walked: the deletion ends
\* with an error, the sessions, tokens and contacts gone and the account still there.
DeletionFails(h) ==
    /\ h \in Doing("listed")
    /\ \E other \in Doing("keep") :
           /\ task[other].item \in Contact
           /\ \A i \in Contact : ~ Has(task[other].user, i)
    /\ answered' = [answered EXCEPT ![task[h].user] = [i \in Item |->
            IF i \in Contact THEN "unclear" ELSE @[i]]]
    /\ Ends(h)
    /\ UNCHANGED <<conversationVars, kept>>

PersonalTypeOK ==
    /\ kept \in [User -> [Item -> Nat]]
    /\ answered \in [User -> [Item -> {"in", "out", "unclear"}]]
================================================================================
