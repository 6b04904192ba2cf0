------------------------------ MODULE RateLimiter ------------------------------
(***************************************************************************)
(* The token buckets of RateLimiter.  try_acquire reads the clock before   *)
(* it takes the lock, so the readings may come out of order.               *)
(***************************************************************************)
EXTENDS Integers

CONSTANTS
    Bucket,   \* (op, key)
    Rate,     \* what a bucket gains in a unit of time
    Burst,    \* what it holds at most
    Cost      \* what a request takes

ASSUME RateLimiterAssumption == {Rate, Burst, Cost} \subseteq Nat

VARIABLE buckets   \* _buckets

\* opened, admitted, regained are histories: when the bucket was made, how many
\* requests it let through, and by how much its time was ever moved back.
Level == [tokens : Nat, refilled : Nat, opened : Nat, admitted : Nat, regained : Nat]

LimiterInit == buckets = <<>>

New(now) == [tokens |-> Burst, refilled |-> now, opened |-> now,
             admitted |-> 0, regained |-> 0]

Current(b, now) == IF b \in DOMAIN buckets THEN buckets[b] ELSE New(now)

Least(m, n) == IF m <= n THEN m ELSE n

Positive(n) == IF n < 0 THEN 0 ELSE n

Tokens(b, now) ==
    Least(Burst, Current(b, now).tokens + Positive(now - Current(b, now).refilled) * Rate)

\* Variant: while there is anything in it.
GrantsAny(b, now) == Tokens(b, now) > 0

Grants(b, now) == Tokens(b, now) >= Cost

Set(b, level) == [x \in DOMAIN buckets \cup {b} |-> IF x = b THEN level ELSE buckets[x]]

\* Variant: a refused request gains tokens and does not move the time on.
AcquireUnmoved(b, now) ==
    LET old == Current(b, now)
    IN  buckets' = Set(b,
            IF Grants(b, now)
            THEN [old EXCEPT !.tokens   = Tokens(b, now) - Cost,
                             !.refilled = now,
                             !.admitted = @ + 1,
                             !.regained = @ + Positive(old.refilled - now)]
            ELSE [old EXCEPT !.tokens   = Tokens(b, now)])

Acquire(b, now) ==
    LET old     == Current(b, now)
        granted == IF Grants(b, now) THEN 1 ELSE 0
    IN  buckets' = Set(b,
            [old EXCEPT !.tokens   = Tokens(b, now) - granted * Cost,
                        !.refilled = now,
                        !.admitted = @ + granted,
                        !.regained = @ + Positive(old.refilled - now)])

LimiterTypeOK ==
    /\ DOMAIN buckets \subseteq Bucket
    /\ \A b \in DOMAIN buckets : buckets[b] \in Level

\* A bucket lets no more through than its burst and what it gained since it was made,
\* counting twice only the time by which readings of the clock came out of order
\* (try_acquire).
AdmittedBounded == \A b \in DOMAIN buckets :
    buckets[b].admitted * Cost
        <= Burst + Rate * (buckets[b].refilled - buckets[b].opened + buckets[b].regained)
================================================================================
