--------------------------------- MODULE Server ---------------------------------
(***************************************************************************)
(* The server around the conversations: accounts, codes and saves (SignIn  *)
(* with RateLimiter and StateStore), who is reached (Reach), and a call    *)
(* (Calls), served by the same handlers, by one clock, and stopped and     *)
(* started together.                                                       *)
(***************************************************************************)
EXTENDS SignIn, Reach, Calls

CONSTANT Loads   \* bound: deployments, and how many requests of each kind a behaviour has

Arrival == {"request", "verify", "register", "login", "key", "second",
            "sign on", "touch", "revoke", "query", "sync", "send", "lose", "call",
            "tick", "restart"}

ASSUME ServerAssumption ==
    Loads \subseteq [left : [Arrival -> Nat], backend : Backends, cached : Cached]

VARIABLE left   \* the requests that may still come

vars == <<left, signInVars, reachVars, callVars>>

ServerInit ==
    /\ \E load \in Loads :
        left = load.left /\ backend = load.backend /\ cached = load.cached
    /\ SignInInit /\ ReachInit /\ CallsInit

Comes(arrival) ==
    /\ left[arrival] > 0
    /\ left' = [left EXCEPT ![arrival] = @ - 1]

SecondFactorRequest(h, k) == BeginEnable(h, k) \/ ConfirmEnable(h, k) \/ Disable(h, k)

\* A handler serves one request at a time.
AccountRequest(h) ==
    /\ work[h] = None /\ ~ calling[h]
    /\ \/ \E k \in Phone \cup Name :
            \/ \E op \in {"request", "verify", "register"} : Comes(op) /\ Request(h, op, k)
            \/ Comes("login") /\ Login(h, k)
            \/ Comes("second") /\ SecondFactorRequest(h, k)
       \/ Comes("key") /\ MintKey(h)
    /\ UNCHANGED <<reachVars, callVars>>

ReachRequest(h) ==
    /\ Idle(h) /\ ~ calling[h]
    /\ \E s \in Session :
          \/ Comes("sign on") /\ \E by \in {"login", "register"} : SignOn(h, s, by)
          \/ Comes("sign on") /\ SignOnWeb(h, s)
          \/ Comes("touch") /\ Touch(h, s)
          \/ Comes("revoke") /\ Revoke(h, s)
          \/ Comes("send") /\ SendMessage(h, s)
    /\ UNCHANGED <<signInVars, callVars>>

CallRequest(h) ==
    /\ Idle(h) /\ work[h] = None
    /\ Comes("call")
    /\ Invite \/ Accept(h) \/ Decline \/ End \/ MeetCall
    /\ UNCHANGED <<signInVars, reachVars>>

\* An answer that is computed in one step.
Answers ==
    /\ \/ \E u \in User : Comes("query") /\ Query(u)
       \/ \E s \in Session : Comes("sync") /\ Sync(s)
    /\ UNCHANGED <<signInVars, callVars>>

AccountStep(h) ==
    /\ \/ Limit(h)
       \/ RequestCode(h) \/ VerifyCode(h)
       \/ LookUp(h) \/ ChooseId(h) \/ CreateAccount(h)
       \/ /\ StoreStep(h)
          /\ UNCHANGED <<buckets, clock, codes, counter, pending, task, tries, twins>>
    /\ UNCHANGED <<left, reachVars, callVars>>

ReachStep(h) ==
    /\ \/ RollBack(h) \/ Notify(h) \/ Touched(h) \/ AnnounceOnline(h)
       \/ CopySessions(h) \/ ReplaceSessions(h) \/ Recheck(h) \/ AnnounceOffline(h)
       \/ SaveRaises(h) \/ Register(h) \/ Answer(h)
       \/ SendFails(h) \/ Sent(h)
       \/ \E u \in User : List(h, u) \/ Wake(h, u)
       \/ \E s \in Session : Push(h, s)
    /\ UNCHANGED <<left, signInVars, callVars>>

CallStep(h) ==
    /\ MintCallKey(h)
    /\ UNCHANGED <<left, signInVars, reachVars>>

Peer ==
    /\ \E s \in Session : Comes("lose") /\ (Lose(s) \/ Close(s))
    /\ UNCHANGED <<signInVars, callVars>>

Time ==
    /\ Comes("tick") /\ Tick
    /\ UNCHANGED <<reachVars, callVars>>

Restart ==
    /\ Comes("restart")
    /\ RestartServer /\ RestartReach /\ RestartCalls

Next ==
    \/ \E h \in Handler :
          \/ AccountRequest(h) \/ ReachRequest(h) \/ CallRequest(h)
          \/ AccountStep(h) \/ ReachStep(h) \/ CallStep(h)
    \/ Answers \/ Peer \/ Time \/ Restart

Spec == ServerInit /\ [][Next]_vars

\* Every variable has its type, and a request in flight is in one of the steps that the
\* dispatcher and the services have.
TypeOK ==
    /\ left \in [Arrival -> Nat]
    /\ SignInTypeOK /\ ReachTypeOK /\ CallsTypeOK
================================================================================
