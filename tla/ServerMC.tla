------------------------------- MODULE ServerMC --------------------------------
EXTENDS Server, TLC

NoneElse == [arrival \in Arrival |-> 0]

MCBucket == {"request", "verify", "register"} \X (Phone \cup Name)
MCKey    == Phone \cup Name \cup {Remote}
MCOwner  == [s \in Session |-> IF s = "s3" THEN "v" ELSE "u"]

Runs(deployments, loads) ==
    {[left |-> load @@ NoneElse, backend |-> d[1], cached |-> d[2]] :
        d \in deployments, load \in loads}

\* Requests that touch each other's data; all of them at once are too many.
MCLoads ==
    Runs({"json"} \X {TRUE}, {
        "sign on" :> 2 @@ "send" :> 1 @@ "tick" :> 3,
        "sign on" :> 2 @@ "sync" :> 2 @@ "send" :> 2,
        "sign on" :> 3 @@ "revoke" :> 1 @@ "sync" :> 1 @@ "send" :> 1,
        "request" :> 2 @@ "verify" :> 2 @@ "tick" :> 2,
        "request" :> 1 @@ "verify" :> 3 @@ "tick" :> 2,
        "verify" :> 4 @@ "tick" :> 2,
        "call" :> 7 @@ "restart" :> 1,
        "request" :> 1 @@ "verify" :> 1 @@ "register" :> 1 @@ "login" :> 1})
    \cup
    Runs({"json"} \X {TRUE, FALSE}, {
        "sign on" :> 1 @@ "query" :> 2 @@ "tick" :> 4,
        "sign on" :> 1 @@ "touch" :> 1 @@ "query" :> 1 @@ "tick" :> 4,
        "sign on" :> 2 @@ "touch" :> 1 @@ "revoke" :> 1,
        "sign on" :> 2 @@ "revoke" :> 1 @@ "tick" :> 3,
        "sign on" :> 2 @@ "touch" :> 1 @@ "lose" :> 1 @@ "send" :> 1,
        "sign on" :> 1 @@ "touch" :> 2 @@ "restart" :> 1 @@ "tick" :> 1})
    \cup
    Runs({"json", "sqlite", "postgres"} \X {FALSE}, {
        "register" :> 2 @@ "login" :> 1 @@ "restart" :> 1,
        "register" :> 1 @@ "login" :> 1 @@ "key" :> 1 @@ "restart" :> 1,
        "register" :> 1 @@ "second" :> 3 @@ "login" :> 1,
        "register" :> 1 @@ "key" :> 1 @@ "sign on" :> 1 @@ "restart" :> 1})

RestartLoads == Runs({"json"} \X {FALSE}, {"register" :> 1 @@ "second" :> 2 @@ "restart" :> 1})

Symmetry == Permutations(Handler)
================================================================================
