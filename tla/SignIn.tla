--------------------------------- MODULE SignIn --------------------------------
(***************************************************************************)
(* How accounts come about, and what is saved of them: codes sent to a     *)
(* phone (PhoneOtpService) and registration (AuthService), both behind the *)
(* rate limiter, a password login, the second factor (TwoFAService), and   *)
(* the key of a remote session.                                            *)
(*                                                                         *)
(* A request reads the clock, takes a lock, lets it go, looks users up,    *)
(* hashes a password and adds the user: other handlers run in between.     *)
(* Which session an answer names is the business of Sessions.              *)
(***************************************************************************)
EXTENDS RateLimiter, StateStore, Sequences, FiniteSetsExt

CONSTANTS
    Phone, Name,   \* accounts: by phone number, by registration
    Remote,        \* a remote session
    Cooldown,      \* RESEND_COOLDOWN_SECONDS
    CodeTtl,       \* CODE_TTL_SECONDS
    MaxAttempts    \* MAX_VERIFY_ATTEMPTS

ASSUME SignInAssumption ==
    /\ Bucket = {"request", "verify", "register"} \X (Phone \cup Name)
    /\ Key = Phone \cup Name \cup {Remote}
    /\ Remote \notin Phone \cup Name
    /\ {Cooldown, CodeTtl} \subseteq Nat /\ MaxAttempts \in Nat \ {0}

VARIABLES
    codes,     \* _codes: per phone, [number, issued, expires, attempts]; None if there is none
    counter,   \* _user_counter
    pending,   \* TwoFAService._pending: who has not confirmed yet
    task,      \* per handler, the request it is in the middle of
    tries,     \* history: per code sent, what it was tried with: [right, wrong]
    twins      \* history: keys of which two accounts were created at once

signInVars == <<buckets, storeVars, clock, codes, counter, pending, task, tries, twins>>

Code == [number : Nat, issued : Nat, expires : Nat, attempts : Nat]

SignInTask == [op : {"request", "verify", "register"}, key : Phone \cup Name,
               step : {"limited", "admitted", "verified", "absent", "named"},
               now : Nat, id : Nat]

ASSUME NoneIsNoTask == None \notin Code \cup SignInTask

Idle(h) == task[h] = None /\ saving[h] = None

Of(kind, k)   == [kind |-> kind, key |-> k, id |-> 0]
Account(k, i) == [kind |-> "account", key |-> k, id |-> i]
Accounts(k)   == {f \in memory : f.kind = "account" /\ f.key = k}

Step(h, step)   == task[h] # None /\ task[h].step = step
Does(h, op)     == task[h] # None /\ task[h].op = op
Goes(h, step)   == task' = [task EXCEPT ![h].step = step]
Stops(h)        == task' = [task EXCEPT ![h] = None]

SignInInit ==
    /\ LimiterInit /\ StoreInit
    /\ clock = 0
    /\ codes = [p \in Phone |-> None]
    /\ counter = 1 /\ pending = {}
    /\ task = [h \in Handler |-> None]
    /\ tries = <<>> /\ twins = {}

Tick ==
    /\ clock' = clock + 1
    /\ UNCHANGED <<buckets, storeVars, codes, counter, pending, task, tries, twins>>

--------------------------------------------------------------------------------
(* The limiter *)

Request(h, op, k) ==
    /\ Idle(h)
    /\ k \in Phone <=> op # "register"
    /\ task' = [task EXCEPT ![h] =
            [op |-> op, key |-> k, step |-> "limited", now |-> clock, id |-> 0]]
    /\ UNCHANGED <<buckets, storeVars, clock, codes, counter, pending, tries, twins>>

\* The service reads the clock again.
Limit(h) ==
    /\ Step(h, "limited")
    /\ LET b == <<task[h].op, task[h].key>>
       IN  /\ Acquire(b, task[h].now)
           /\ task' = [task EXCEPT ![h] =
                IF Grants(b, task[h].now)
                THEN [task[h] EXCEPT !.step = "admitted", !.now = clock] ELSE None]
    /\ UNCHANGED <<storeVars, clock, codes, counter, pending, tries, twins>>

--------------------------------------------------------------------------------
(* Codes *)

\* Expired codes go whenever one is asked for.
Purged(now) == [p \in Phone |->
    IF codes[p] # None /\ codes[p].expires < now THEN None ELSE codes[p]]

RequestCode(h) ==
    /\ Does(h, "request") /\ Step(h, "admitted")
    /\ LET p   == task[h].key
           now == task[h].now
           old == Purged(now)[p]
           soon == old # None /\ (now - old.issued < Cooldown)
       IN  \/ /\ soon
              /\ codes' = Purged(now)
              /\ UNCHANGED tries
           \/ /\ ~ soon
              /\ codes' = [Purged(now) EXCEPT ![p] =
                    [number |-> Len(tries) + 1, issued |-> now,
                     expires |-> now + CodeTtl, attempts |-> 0]]
              /\ tries' = Append(tries, [right |-> 0, wrong |-> 0])
    /\ Stops(h)
    /\ UNCHANGED <<buckets, storeVars, clock, counter, pending, twins>>

\* Variant: a wrong guess is not counted.
WrongCodeUncounted(h) ==
    /\ tries' = [tries EXCEPT ![codes[task[h].key].number].wrong = @ + 1]
    /\ Stops(h)
    /\ UNCHANGED codes

WrongCode(h) ==
    /\ codes' = [codes EXCEPT ![task[h].key].attempts = @ + 1]
    /\ tries' = [tries EXCEPT ![codes[task[h].key].number].wrong = @ + 1]
    /\ Stops(h)

RightCode(h) ==
    /\ codes' = [codes EXCEPT ![task[h].key] = None]
    /\ tries' = [tries EXCEPT ![codes[task[h].key].number].right = @ + 1]
    /\ Goes(h, "verified")

\* An expired code goes, an exhausted one stays.
VerifyCode(h) ==
    /\ Does(h, "verify") /\ Step(h, "admitted")
    /\ LET code == codes[task[h].key]
       IN  \/ code = None /\ Stops(h) /\ UNCHANGED <<codes, tries>>
           \/ /\ code # None /\ task[h].now > code.expires
              /\ codes' = [codes EXCEPT ![task[h].key] = None]
              /\ Stops(h) /\ UNCHANGED tries
           \/ /\ code # None /\ task[h].now <= code.expires
              /\ \/ code.attempts >= MaxAttempts /\ Stops(h) /\ UNCHANGED <<codes, tries>>
                 \/ code.attempts < MaxAttempts /\ (WrongCode(h) \/ RightCode(h))
    /\ UNCHANGED <<buckets, storeVars, clock, counter, pending, twins>>

--------------------------------------------------------------------------------
(* Accounts *)

\* Somebody else is about to create an account of the key.
Twin(h) == \E other \in Handler \ {h} :
    /\ Step(other, "absent") \/ Step(other, "named")
    /\ task[other].key = task[h].key

\* Variant: a number or a name that is in use is not found.
LookUpNothing(h) ==
    /\ Step(h, "verified") \/ (Does(h, "register") /\ Step(h, "admitted"))
    /\ Goes(h, "absent")
    /\ twins' = IF Twin(h) THEN twins \cup {task[h].key} ELSE twins
    /\ UNCHANGED <<buckets, storeVars, clock, codes, counter, pending, tries>>

\* _upsert_phone_user scans the users, register tests the name.
LookUp(h) ==
    /\ Step(h, "verified") \/ (Does(h, "register") /\ Step(h, "admitted"))
    /\ LET k == task[h].key
       IN  \/ /\ Accounts(k) = {}
              /\ Goes(h, "absent")
              /\ twins' = IF Twin(h) THEN twins \cup {k} ELSE twins
              /\ UNCHANGED <<storeVars, counter>>
           \/ /\ Accounts(k) # {} /\ k \in Name
              /\ Stops(h)
              /\ UNCHANGED <<storeVars, counter, twins>>
           \/ /\ k \in Phone
              /\ \E f \in Accounts(k) :
                    Change(h, memory \cup {Of("session", k)}, f)
              /\ Stops(h)
              /\ UNCHANGED <<answered, counter, twins>>
    /\ UNCHANGED <<buckets, clock, codes, pending, tries>>

\* _next_user_id takes the first id that is free, register the next number; then the
\* password is hashed.
ChooseId(h) ==
    /\ Step(h, "absent")
    /\ LET k == task[h].key
           free == {i \in 0 .. Cardinality(Accounts(k)) : Account(k, i) \notin memory}
       IN  \/ /\ k \in Phone
              /\ task' = [task EXCEPT ![h].step = "named", ![h].id = Min(free)]
              /\ UNCHANGED counter
           \/ /\ k \in Name
              /\ task' = [task EXCEPT ![h].step = "named", ![h].id = counter]
              /\ counter' = counter + 1
    /\ UNCHANGED <<buckets, storeVars, clock, codes, pending, tries, twins>>

\* A new record, in the place of one that another handler has put there meanwhile.
CreateAccount(h) ==
    /\ Step(h, "named")
    /\ LET k == task[h].key
           new == Account(k, task[h].id)
           lost == IF new \in memory THEN {Of("secret", k)} ELSE {}
       IN  Change(h, (memory \ lost) \cup {new, Of("session", k)}, new)
    /\ Stops(h)
    /\ UNCHANGED <<buckets, answered, clock, codes, counter, pending, tries, twins>>

\* From a known device.
Login(h, k) ==
    /\ Idle(h) /\ Accounts(k) # {}
    /\ Change(h, memory \cup {Of("session", k)}, Of("session", k))
    /\ UNCHANGED <<buckets, answered, clock, codes, counter, pending, task, tries, twins>>

\* request_rendezvous
MintKey(h) ==
    /\ Idle(h) /\ Of("key", Remote) \notin memory
    /\ Change(h, memory \cup {Of("key", Remote)}, Of("key", Remote))
    /\ UNCHANGED <<buckets, answered, clock, codes, counter, pending, task, tries, twins>>

--------------------------------------------------------------------------------
(* The second factor *)

BeginEnable(h, k) ==
    /\ Idle(h) /\ Accounts(k) # {} /\ Of("secret", k) \notin memory
    /\ pending' = pending \cup {k}
    /\ UNCHANGED <<buckets, storeVars, clock, codes, counter, task, tries, twins>>

ConfirmEnable(h, k) ==
    /\ Idle(h) /\ k \in pending /\ Accounts(k) # {}
    /\ pending' = pending \ {k}
    /\ Change(h, memory \cup {Of("secret", k)}, Of("secret", k))
    /\ UNCHANGED <<buckets, answered, clock, codes, counter, task, tries, twins>>

Disable(h, k) ==
    /\ Idle(h) /\ Of("secret", k) \in memory
    /\ Change(h, memory \ {Of("secret", k)}, Of("secret", k))
    /\ answered' = answered \ {Of("secret", k)}
    /\ UNCHANGED <<buckets, clock, codes, counter, pending, task, tries, twins>>

--------------------------------------------------------------------------------
\* Codes, buckets and enrolments that wait are in memory only.
RestartServer ==
    /\ Reload
    /\ buckets' = <<>>
    /\ codes' = [p \in Phone |-> None]
    /\ counter' = Max({f.id : f \in {f \in memory' : f.kind = "account" /\ f.key \in Name}}
                      \cup {0}) + 1
    /\ pending' = {}
    /\ task' = [h \in Handler |-> None]
    /\ UNCHANGED <<clock, tries, twins>>

SignInTypeOK ==
    /\ LimiterTypeOK /\ StoreTypeOK
    /\ {clock, counter} \subseteq Nat
    /\ codes \in [Phone -> Code \cup {None}]
    /\ pending \subseteq Phone \cup Name /\ twins \subseteq Phone \cup Name
    /\ task \in [Handler -> SignInTask \cup {None}]
    /\ tries \in Seq([right : Nat, wrong : Nat])

\* A code signs in once at most, and only if it was not tried wrongly as often as is
\* allowed before, whatever requests for its phone run at the same time (verify_code).
CodeIsSpent == \A i \in DOMAIN tries :
    /\ tries[i].right <= 1
    /\ tries[i].wrong + tries[i].right <= MaxAttempts

\* Two accounts with one name or number are there only if they were being created at
\* the same time, across a restart too (register, _upsert_phone_user).
OneAccount == \A f, g \in memory :
    (f # g /\ f.kind = "account" /\ g.kind = "account" /\ f.key = g.key) => f.key \in twins

\* A second factor that was confirmed is asked for until it is disabled.
SecondFactorStays == \A f \in answered : f.kind = "secret" => f \in memory
================================================================================
