-------------------------- MODULE RedisRateLimiter --------------------------
(***************************************************************************)
(* middleware.RedisRateLimiter (go/middleware/ratelimit_redis.go): pods    *)
(* share one token bucket of one key in Redis and each falls back to its   *)
(* own limiter behind a circuit breaker.  Keys do not interact in Redis.   *)
(* The fallback is the PartitionedRateLimiter of its own module: nothing   *)
(* here reads its state, so its answers are stuttering steps.              *)
(*                                                                         *)
(* Time passes in seconds (Tick) and is kept relative to the present, so   *)
(* that the model has no end of time: a time n <= 0 is n seconds ago.  A   *)
(* pod's clock may be behind by up to Skew, and a command that its caller  *)
(* has given up may still reach Redis within Delay.                        *)
(***************************************************************************)
EXTENDS TokenBucket

CONSTANTS
    Pods,           \* processes with a RedisRateLimiter
    Calls,          \* concurrent calls of AllowKey
    Threshold,      \* RedisRateLimiter.threshold
    ResetTimeout,   \* RedisRateLimiter.resetTimeout, in seconds
    KeyTTL,         \* keyTTLSeconds
    Skew,           \* how far a pod's clock may be behind
    Delay,          \* bound: how late a command may reach Redis
    None            \* no pod, no answer

Drift == Skew + Delay

\* The capacity of a bucket that keeps true time and is no less generous.
Capacity == Full + Rate * Drift

\* What normalizeRedisRateLimiterSettings establishes.
ASSUME RedisAssumption ==
    /\ Threshold \in Nat \ {0}
    /\ ResetTimeout \in Nat \ {0}
    /\ KeyTTL \in Nat \ {0}
    /\ Skew \in Nat
    /\ Delay \in Nat \ {0}
    /\ None \notin Pods

\* What a key that expires early is worth: the script takes KeyTTL, rate and
\* burst as they come, and after KeyTTL seconds without a command the bucket
\* is full again although the refill of those seconds may not have filled it.
Windfall == IF Rate * KeyTTL >= Capacity THEN 0 ELSE Capacity - Rate * KeyTTL

VARIABLES
    pc,             \* where each call is
    pod,            \* the pod of each call
    now,            \* the time each call has read, as old as it is by now
    net,            \* whether the call's command is on its way to Redis
    reply,          \* Redis's answer on its way back
    up,             \* whether Redis answers within the 100 ms
    bucket,         \* the key's hash: tokens and lastRefill
    ttl,            \* seconds the key has left, 0 if it does not exist
    failures,       \* RedisRateLimiter.failures, up to Threshold
    circuitOpen,    \* RedisRateLimiter.circuitOpen
    sinceFailure,   \* seconds since lastFailure, up to ResetTimeout + 1
    credit          \* history: the bucket that keeps true time

callVars    == <<pc, pod, now, net, reply>>
redisVars   == <<bucket, ttl, credit>>
circuitVars == <<failures, circuitOpen, sinceFailure>>
vars == <<callVars, up, redisVars, circuitVars>>

RedisTypeOK ==
    /\ pc \in [Calls -> {"idle", "ready", "sent"}]
    /\ pod \in [Calls -> Pods \cup {None}]
    /\ now \in [Calls -> (-Drift - 1)..0]
    /\ net \in [Calls -> BOOLEAN]
    /\ reply \in [Calls -> BOOLEAN \cup {None}]
    /\ up \in BOOLEAN
    /\ bucket \in [tokens : Int, last : Int]
    /\ bucket.tokens <= Full /\ bucket.last <= 0
    /\ ttl \in 0..KeyTTL
    /\ failures \in [Pods -> 0..Threshold]
    /\ circuitOpen \in [Pods -> BOOLEAN]
    /\ sinceFailure \in [Pods -> 0..(ResetTimeout + 1)]
    /\ credit \in Int

Init ==
    /\ pc = [c \in Calls |-> "idle"]
    /\ pod = [c \in Calls |-> None]
    /\ now = [c \in Calls |-> 0]
    /\ net = [c \in Calls |-> FALSE]
    /\ reply = [c \in Calls |-> None]
    /\ up \in BOOLEAN
    /\ bucket = NewBucket(0)
    /\ ttl = 0
    /\ failures = [p \in Pods |-> 0]
    /\ circuitOpen = [p \in Pods |-> FALSE]
    /\ sinceFailure = [p \in Pods |-> ResetTimeout + 1]
    /\ credit = Capacity

-----------------------------------------------------------------------------
(* The environment. *)

\* A command too old to reach Redis any more is lost.
Aged(n) == IF n < -Drift THEN n ELSE n - 1

\* A second passes; Redis drops the key when its time is up.  While Redis is
\* up a command does not wait for Delay.
Tick ==
    /\ up => \A c \in Calls : pc[c] = "sent" /\ net[c] => now[c] > -Drift
    /\ now' = [c \in Calls |-> IF pc[c] = "sent" \/ net[c] THEN Aged(now[c]) ELSE now[c]]
    /\ net' = [c \in Calls |-> net[c] /\ now[c] - 1 >= -Drift]
    /\ ttl' = IF ttl = 0 THEN 0 ELSE ttl - 1
    /\ bucket' = IF ttl <= 1 THEN NewBucket(0) ELSE [bucket EXCEPT !.last = @ - 1]
    /\ sinceFailure' = [p \in Pods |->
           IF sinceFailure[p] > ResetTimeout THEN sinceFailure[p] ELSE sinceFailure[p] + 1]
    /\ credit' = LET sum == credit + Rate + (IF ttl = 1 THEN Windfall ELSE 0)
                 IN IF sum > Capacity THEN Capacity ELSE sum
    /\ UNCHANGED <<pc, pod, reply, up, failures, circuitOpen>>

\* Redis becomes reachable or unreachable; the key survives.
Outage ==
    /\ up' = ~up
    /\ UNCHANGED <<callVars, redisVars, circuitVars>>

\* Mutant: EXPIRE only for a new key, so that a key in use expires.
tokenBucketScript_expireOnce(n) ==
    LET b == IF ttl = 0 THEN NewBucket(n) ELSE bucket
    IN /\ bucket' = Taken(b, n)
       /\ ttl' = IF ttl = 0 THEN KeyTTL ELSE ttl
       /\ credit' = IF Allows(b, n) THEN credit - Cost ELSE credit

\* tokenBucketScript on the key: a key that does not exist is full.
tokenBucketScript(n) ==
    LET b == IF ttl = 0 THEN NewBucket(n) ELSE bucket
    IN /\ bucket' = Taken(b, n)
       /\ ttl' = KeyTTL
       /\ credit' = IF Allows(b, n) THEN credit - Cost ELSE credit

\* Redis runs a command, whether or not its caller still waits and the answer
\* gets back.
Execute(c) ==
    /\ net[c]
    /\ tokenBucketScript(now[c])
    /\ net' = [net EXCEPT ![c] = FALSE]
    /\ reply' = IF up /\ pc[c] = "sent"
                THEN [reply EXCEPT ![c] =
                        Allows(IF ttl = 0 THEN NewBucket(now[c]) ELSE bucket, now[c])]
                ELSE reply
    /\ UNCHANGED <<pc, pod, now, up, circuitVars>>

\* The client library has lost the answer and sends the same command again.
Retry(c) ==
    /\ ~up /\ pc[c] = "sent" /\ ~net[c] /\ now[c] >= -Drift
    /\ net' = [net EXCEPT ![c] = TRUE]
    /\ reply' = [reply EXCEPT ![c] = None]
    /\ UNCHANGED <<pc, pod, now, up, redisVars, circuitVars>>

-----------------------------------------------------------------------------
(* AllowKey. *)

\* Mutant: no trial after the reset timeout.
isCircuitOpen_forever(p) == circuitOpen[p]

isCircuitOpen(p) == circuitOpen[p] /\ ~(sinceFailure[p] > ResetTimeout)

\* A call on pod p passes the breaker; the others are answered by the fallback.
Check(c, p) ==
    /\ pc[c] = "idle" /\ ~net[c]
    /\ ~isCircuitOpen(p)
    /\ pc' = [pc EXCEPT ![c] = "ready"]
    /\ pod' = [pod EXCEPT ![c] = p]
    /\ UNCHANGED <<now, net, reply, up, redisVars, circuitVars>>

\* Read the pod's clock and send the command; it may be lost at once.
Send(c) ==
    /\ pc[c] = "ready"
    /\ pc' = [pc EXCEPT ![c] = "sent"]
    /\ \E n \in (-Skew)..0 : now' = [now EXCEPT ![c] = n]
    /\ \E arrives \in BOOLEAN : net' = [net EXCEPT ![c] = up \/ arrives]
    /\ UNCHANGED <<pod, reply, up, redisVars, circuitVars>>

recordFailure(p) ==
    LET n == IF failures[p] + 1 > Threshold THEN Threshold ELSE failures[p] + 1
    IN /\ failures' = [failures EXCEPT ![p] = n]
       /\ sinceFailure' = [sinceFailure EXCEPT ![p] = 0]
       /\ circuitOpen' = [circuitOpen EXCEPT ![p] = @ \/ n >= Threshold]

\* Mutant: the count survives a success.
recordSuccess_keepsCount(p) ==
    /\ circuitOpen' = [circuitOpen EXCEPT ![p] = FALSE]
    /\ UNCHANGED <<failures, sinceFailure>>

recordSuccess(p) ==
    /\ failures' = [failures EXCEPT ![p] = 0]
    /\ circuitOpen' = [circuitOpen EXCEPT ![p] = FALSE]
    /\ UNCHANGED sinceFailure

\* The call is over.
Done(c) ==
    /\ pc' = [pc EXCEPT ![c] = "idle"]
    /\ pod' = [pod EXCEPT ![c] = None]
    /\ reply' = [reply EXCEPT ![c] = None]
    /\ now' = IF net[c] THEN now ELSE [now EXCEPT ![c] = 0]
    /\ UNCHANGED net

\* Redis has answered.
Answered(c) ==
    /\ pc[c] = "sent" /\ reply[c] # None
    /\ recordSuccess(pod[c])
    /\ Done(c)
    /\ UNCHANGED <<up, redisVars>>

\* The 100 ms are over, or the connection is: the fallback answers.  The
\* command may still be on its way.
Failed(c) ==
    /\ pc[c] = "sent"
    /\ ~up \/ (~net[c] /\ reply[c] = None)
    /\ recordFailure(pod[c])
    /\ Done(c)
    /\ UNCHANGED <<up, redisVars>>

Next ==
    \/ Tick
    \/ Outage
    \/ \E c \in Calls :
          \/ Execute(c) \/ Retry(c) \/ Send(c) \/ Answered(c) \/ Failed(c)
          \/ \E p \in Pods : Check(c, p)

\* Time passes, goroutines run, Redis runs what reaches it, every call ends
\* and every pod keeps being called.
Fairness ==
    /\ WF_vars(Tick)
    /\ \A c \in Calls :
          /\ WF_vars(up /\ Execute(c))
          /\ WF_vars(Send(c))
          /\ SF_vars(Answered(c) \/ Failed(c))
    /\ \A p \in Pods : SF_vars(\E c \in Calls : Check(c, p))

Spec == Init /\ [][Next]_vars /\ Fairness

-----------------------------------------------------------------------------
\* Redis grants the pods together no more, in true time, than a bucket with
\* the same rate whose burst is larger by what flows in during Drift: clocks
\* that disagree and commands run late or twice never mint tokens.  The expiry
\* of the key mints Windfall, once for every KeyTTL seconds without a command,
\* and nothing where the bucket fills up within KeyTTL.  What a pod's fallback
\* grants during an outage is limited by the pod alone and is not counted.
FleetWithinRate == credit >= 0

\* The circuit is open exactly when the failures since the last success have
\* reached the threshold.
CircuitMatchesFailures == \A p \in Pods : circuitOpen[p] <=> failures[p] >= Threshold

\* When Redis stays up every pod goes back to it for good, and when it stays
\* down every pod stops calling it except for trials.  A call that Redis never
\* answers must end for this: it is what counts as a failure.
CircuitFollowsRedis ==
    /\ <>[]up => <>[](\A p \in Pods : ~circuitOpen[p])
    /\ <>[]~up => <>[](\A p \in Pods : circuitOpen[p])
=============================================================================
