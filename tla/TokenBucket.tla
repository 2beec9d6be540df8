---------------------------- MODULE TokenBucket ----------------------------
(***************************************************************************)
(* The token bucket of go/middleware: middleware.RateLimiter (ratelimit.go)*)
(* and the Lua script of the Redis limiter (ratelimit_redis.go), which do  *)
(* the same arithmetic.  Tokens are counted in parts, Cost parts to a      *)
(* token, and time in ticks, so that a bucket can hold part of a token     *)
(* (RateLimiter.tokens is a float64); Rate parts flow in per tick.         *)
(***************************************************************************)
EXTENDS Integers, Sequences

CONSTANTS
    Burst,      \* tokens a full bucket holds
    Rate,       \* parts of a token that flow in per tick
    Cost        \* parts of a token

ASSUME BucketAssumption ==
    /\ Burst \in Nat \ {0}
    /\ Rate \in Nat \ {0}
    /\ Cost \in Nat \ {0}

Full == Burst * Cost

\* NewRateLimiter
NewBucket(now) == [tokens |-> Full, last |-> now]

\* Mutant: tokens pile up beyond the burst.
Refilled_uncapped(b, now) == b.tokens + Rate * (now - b.last)

\* Mutant: a clock that goes back costs nothing.
Refilled_clamped(b, now) ==
    LET t == b.tokens + (IF now > b.last THEN Rate * (now - b.last) ELSE 0)
    IN IF t > Full THEN Full ELSE t

\* The tokens at time now, capped at the burst.
Refilled(b, now) ==
    LET t == b.tokens + Rate * (now - b.last) IN IF t > Full THEN Full ELSE t

Allows(b, now) == Refilled(b, now) >= Cost

\* The bucket after a request at time now, allowed or not.
Taken(b, now) ==
    [tokens |-> IF Allows(b, now) THEN Refilled(b, now) - Cost
                ELSE Refilled(b, now),
     last |-> now]

\* History: the times at which a bucket allowed a request.
Logged(log, b, now) == IF Allows(b, now) THEN Append(log, now) ELSE log

\* Between any two allowed requests, both included, a bucket allows no more
\* than its burst and what flows in meanwhile.
WithinRate(log) ==
    \A i, j \in 1..Len(log) :
        i <= j => (j - i + 1) * Cost <= Full + Rate * (log[j] - log[i])
=============================================================================
