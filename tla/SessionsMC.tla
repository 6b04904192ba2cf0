------------------------------- MODULE SessionsMC -------------------------------
EXTENDS Sessions, TLC

\* One user with two devices, another with one.
DeviceOwner == [d \in {"a1", "a2", "b1"} |-> IF d = "b1" THEN "bob" ELSE "alice"]

Of(cached, otp, loads) ==
    {[cached |-> cached, otp |-> otp, left |-> left @@ [arrival \in Arrival |-> 0]] :
        left \in loads}

\* Requests that cross, and a restart among them; all of them at once are too many.
CacheLoads == Of(TRUE, FALSE, {
    "login" :> 3 @@ "restart" :> 1,
    "login" :> 2 @@ "request" :> 1 @@ "revoke" :> 1,
    "login" :> 1 @@ "request" :> 2 @@ "heartbeat" :> 1 @@ "idle" :> 1 @@ "tick" :> 3,
    "login" :> 1 @@ "heartbeat" :> 2 @@ "restart" :> 1 @@ "tick" :> 2})

PhoneLoads == Of(FALSE, TRUE, {
    "login" :> 1 @@ "phone" :> 1 @@ "revoke" :> 1 @@ "restart" :> 1,
    "phone" :> 2 @@ "idle" :> 1 @@ "tick" :> 2 @@ "restart" :> 1})

PlainLoads == Of(FALSE, FALSE, {
    "login" :> 3 @@ "revoke" :> 2 @@ "restart" :> 1,
    "login" :> 2 @@ "heartbeat" :> 1 @@ "revoke" :> 1 @@ "tick" :> 1 @@ "restart" :> 1})

AllLoads == CacheLoads \cup PhoneLoads \cup PlainLoads

Symmetry == Permutations(Threads)
================================================================================
