----------------------- MODULE RedisRateLimiterProofs -----------------------
(***************************************************************************)
(* Proofs about RedisRateLimiter for any pods, calls, rates, clock skew    *)
(* and delay: what the script grants stays within the rate in true time,   *)
(* and each circuit agrees with its failure count.                         *)
(***************************************************************************)
EXTENDS RedisRateLimiter, TLAPS

\* The tokens the stored bucket would hold now if it were not capped.
Potential == bucket.tokens - Rate * bucket.last

\* The bucket in true time owns at least what the stored bucket, or a fresh
\* one after expiry, could still grant.
LedgerInv ==
    /\ 0 <= credit /\ credit <= Capacity
    /\ ttl = 0 => credit = Capacity
    /\ ttl > 0 =>
          /\ credit >= Capacity \/ credit >= Rate * (KeyTTL - ttl)
          /\ credit >= Capacity \/ credit >= Potential

\* A command on its way is no older than Drift, and a call has its pod.
CommandInv ==
    \A c \in Calls :
        /\ net[c] => now[c] >= -Drift
        /\ pc[c] # "idle" => pod[c] \in Pods

\* The inductive invariant.
IndInv == RedisTypeOK /\ LedgerInv /\ CommandInv /\ CircuitMatchesFailures

\* The bounds are numbers.
LEMMA Numbers ==
  /\ Rate \in Nat /\ Cost \in Nat /\ Full \in Nat /\ Drift \in Nat /\ Capacity \in Nat
  /\ KeyTTL \in Nat /\ KeyTTL > 0
  <1>1. /\ Rate \in Nat /\ Cost \in Nat /\ Burst \in Nat
        /\ Skew \in Nat /\ Delay \in Nat /\ KeyTTL \in Nat /\ KeyTTL > 0
    BY BucketAssumption, RedisAssumption
  <1>2. Full \in Nat /\ Drift \in Nat
    BY <1>1 DEF Full, Drift
  <1>3. Rate * Drift \in Nat
    BY <1>1, <1>2
  <1> QED BY <1>1, <1>2, <1>3 DEF Capacity

\* The refill is linear in time.
LEMMA Linear ==
  ASSUME NEW a \in Int, NEW b \in Int
  PROVE  /\ Rate * a \in Int
         /\ Rate * (a - b) = Rate * a - Rate * b
  <1>1. Rate \in Int
    BY Numbers
  <1> QED BY <1>1

\* No time refills a negative amount.
LEMMA Monotone ==
  ASSUME NEW a \in Int, NEW b \in Int, a <= b
  PROVE  Rate * a <= Rate * b
  <1>1. b - a \in Nat /\ Rate \in Nat
    BY Numbers
  <1>2. Rate * (b - a) \in Nat
    BY <1>1
  <1>3. Rate * (b - a) = Rate * b - Rate * a /\ Rate * a \in Int /\ Rate * b \in Int
    BY Linear
  <1> DEFINE x == Rate * a
             y == Rate * b
  <1>4. y - x \in Nat /\ x \in Int /\ y \in Int
    BY <1>2, <1>3
  <1>5. x <= y
    <2> HIDE DEF x, y
    <2> QED BY <1>4
  <1> QED BY <1>5

\* Nothing has been granted and every circuit is closed.
LEMMA InitInd == Init => IndInv
  <1> SUFFICES ASSUME Init PROVE IndInv
    OBVIOUS
  <1> USE RedisAssumption, Numbers DEF Init
  <1>1. RedisTypeOK
    BY DEF RedisTypeOK, NewBucket
  <1>2. LedgerInv
    BY DEF LedgerInv
  <1>3. CommandInv /\ CircuitMatchesFailures
    BY DEF CommandInv, CircuitMatchesFailures
  <1> QED BY <1>1, <1>2, <1>3 DEF IndInv

\* A second adds the rate to both sides of the ledger, and a key that expires
\* leaves the true-time bucket full: KeyTTL seconds of refill and Windfall.
LEMMA TickInd == IndInv /\ Tick => IndInv'
  <1> SUFFICES ASSUME IndInv, Tick PROVE IndInv'
    OBVIOUS
  <1> DEFINE gain == credit + Rate + (IF ttl = 1 THEN Windfall ELSE 0)
  <1>1. /\ RedisTypeOK /\ LedgerInv
        /\ ttl \in Int /\ 0 <= ttl /\ ttl <= KeyTTL /\ credit \in Int
        /\ bucket.tokens \in Int /\ bucket.last \in Int
        /\ bucket = [tokens |-> bucket.tokens, last |-> bucket.last]
    BY Numbers DEF IndInv, RedisTypeOK
  <1>2. /\ ttl' = IF ttl = 0 THEN 0 ELSE ttl - 1
        /\ bucket' = IF ttl <= 1 THEN NewBucket(0) ELSE [bucket EXCEPT !.last = @ - 1]
        /\ credit' = IF gain > Capacity THEN Capacity ELSE gain
    BY DEF Tick
  <1>0. Windfall \in Nat /\ Windfall + Rate * KeyTTL >= Capacity /\ Rate * KeyTTL \in Nat
    <2>1. Rate * KeyTTL \in Nat /\ Capacity \in Nat
      BY Numbers
    <2> QED BY <2>1 DEF Windfall
  <1>7. gain \in Int /\ gain >= credit + Rate
    BY <1>0, <1>1, Numbers
  <1> HIDE DEF gain
  <1>3. RedisTypeOK'
    <2>1. now' \in [Calls -> (-Drift - 1)..0]
      BY <1>1, Numbers DEF Tick, RedisTypeOK, Aged
    <2>2. /\ pc' \in [Calls -> {"idle", "ready", "sent"}]
          /\ pod' \in [Calls -> Pods \cup {None}]
          /\ net' \in [Calls -> BOOLEAN]
          /\ reply' \in [Calls -> BOOLEAN \cup {None}]
          /\ up' \in BOOLEAN
          /\ failures' \in [Pods -> 0..Threshold]
          /\ circuitOpen' \in [Pods -> BOOLEAN]
      BY <1>1 DEF Tick, RedisTypeOK
    <2>3. sinceFailure' \in [Pods -> 0..(ResetTimeout + 1)]
      BY <1>1, RedisAssumption DEF Tick, RedisTypeOK
    <2>4. /\ bucket' \in [tokens : Int, last : Int]
          /\ bucket'.tokens <= Full /\ bucket'.last <= 0
      BY <1>1, <1>2, Numbers DEF RedisTypeOK, NewBucket
    <2>5. ttl' \in 0..KeyTTL /\ credit' \in Int
      BY <1>1, <1>2, <1>7, Numbers
    <2> QED BY <2>1, <2>2, <2>3, <2>4, <2>5 DEF RedisTypeOK
  <1>4. LedgerInv'
    <2>1. credit' \in Int /\ 0 <= credit' /\ credit' <= Capacity
      BY <1>1, <1>2, <1>7, Numbers DEF LedgerInv
    <2>2. CASE ttl = 0
      <3>1. ttl' = 0 /\ credit = Capacity
        BY <2>2, <1>1, <1>2 DEF LedgerInv
      <3>2. credit' = Capacity
        BY <3>1, <1>2, <1>7, Numbers
      <3> QED BY <3>1, <3>2, <2>1 DEF LedgerInv
    <2>3. CASE ttl > 0
      <3> DEFINE idle == Rate * (KeyTTL - ttl)
      <3>1. ttl' = ttl - 1
        BY <2>3, <1>2, <1>1
      <3>2. Rate * (KeyTTL - ttl') = idle + Rate /\ idle \in Int
        <4> DEFINE x == KeyTTL - ttl
        <4>1. x \in Int /\ KeyTTL - ttl' = x + 1 /\ Rate \in Int
          BY <3>1, <1>1, Numbers
        <4>2. Rate * (x + 1) = Rate * x + Rate /\ Rate * x \in Int
          <5> HIDE DEF x
          <5> QED BY <4>1
        <4> QED BY <4>1, <4>2
      <3>3. credit' >= Capacity \/ credit' >= Rate * (KeyTTL - ttl')
        <4>1. credit >= Capacity \/ credit >= idle
          BY <2>3, <1>1 DEF LedgerInv
        <4>2. credit' >= Capacity \/ credit' >= idle + Rate
          <5> HIDE DEF idle
          <5> QED BY <4>1, <3>2, <1>1, <1>2, <1>7, Numbers
        <4> QED BY <4>2, <3>2
      <3>4. CASE ttl = 1
        <4>1. ttl' = 0
          BY <3>4, <1>2
        <4>2. idle + Rate = Rate * KeyTTL
          BY <4>1, <3>2, Numbers
        <4>3. credit >= Capacity \/ credit >= idle
          BY <2>3, <1>1 DEF LedgerInv
        <4>4. gain = credit + Rate + Windfall
          BY <3>4 DEF gain
        <4>5. gain >= Capacity
          <5> HIDE DEF idle
          <5> QED BY <4>2, <4>3, <4>4, <3>2, <1>0, <1>1, Numbers
        <4>6. credit' = Capacity
          BY <4>5, <1>2, <1>7, Numbers
        <4> QED BY <4>1, <4>6, <2>1, Numbers DEF LedgerInv
      <3>5. CASE ttl > 1
        <4>1. bucket'.tokens = bucket.tokens /\ bucket'.last = bucket.last - 1
          BY <3>5, <1>1, <1>2
        <4>2. Potential' = Potential + Rate /\ Potential \in Int
          <5>1. Rate * (bucket.last - 1) = Rate * bucket.last - Rate
            BY <1>1, Numbers
          <5>2. Rate * bucket.last \in Int
            BY <1>1, Numbers
          <5> QED BY <4>1, <5>1, <5>2, <1>1, Numbers DEF Potential
        <4>3. credit' >= Capacity \/ credit' >= Potential'
          <5>1. credit >= Capacity \/ credit >= Potential
            BY <2>3, <1>1 DEF LedgerInv
          <5> QED BY <5>1, <4>2, <1>1, <1>2, <1>7, Numbers
        <4>4. ttl' > 0
          BY <3>5, <1>1, <1>2
        <4> QED BY <4>3, <4>4, <3>3, <2>1 DEF LedgerInv
      <3> QED BY <3>4, <3>5, <2>3, <1>1
    <2> QED BY <2>2, <2>3, <1>1
  <1>5. CommandInv'
    <2> SUFFICES ASSUME NEW c \in Calls
                 PROVE  /\ net'[c] => now'[c] >= -Drift
                        /\ pc'[c] # "idle" => pod'[c] \in Pods
      BY DEF CommandInv
    <2>1. pc' = pc /\ pod' = pod /\ now[c] \in Int /\ Drift \in Int
      BY <1>1, Numbers DEF Tick, RedisTypeOK
    <2>2. net'[c] => net[c] /\ now[c] - 1 >= -Drift
      BY DEF Tick
    <2>3. net[c] => now'[c] = Aged(now[c])
      BY DEF Tick
    <2>4. net'[c] => now'[c] >= -Drift
      BY <2>1, <2>2, <2>3 DEF Aged
    <2> QED BY <2>1, <2>4 DEF IndInv, CommandInv
  <1>6. CircuitMatchesFailures'
    BY DEF IndInv, CircuitMatchesFailures, Tick
  <1> QED BY <1>3, <1>4, <1>5, <1>6 DEF IndInv
\* What the script leaves in a bucket with potential at most the credit, for a
\* command n seconds old: what it grants is covered.
LEMMA ScriptCovered ==
  ASSUME NEW b \in [tokens : Int, last : Int], NEW n \in Int, -Drift <= n, n <= 0,
         NEW x \in Int, x <= Capacity,
         x >= Capacity \/ x >= b.tokens - Rate * b.last
  PROVE  LET r == Refilled(b, n)
         IN /\ r \in Int /\ r <= Full
            /\ x >= r - Rate * n
            /\ r >= Cost => x >= Cost
  <1> DEFINE rn == Rate * n
             rl == Rate * b.last
             rd == Rate * Drift
             r == Refilled(b, n)
  <1>1. /\ rn \in Int /\ rl \in Int /\ Rate * (n - b.last) = rn - rl
        /\ Full \in Nat /\ Cost \in Nat /\ Drift \in Nat /\ Capacity \in Nat
    BY Linear, Numbers
  <1>2. rn <= 0
    <2>1. Rate * n <= Rate * 0
      BY Monotone
    <2>2. Rate * 0 = 0
      BY Numbers
    <2> QED BY <2>1, <2>2
  <1>3. rd \in Int /\ -rn <= rd /\ Capacity = Full + rd
    <2>1. Rate * (0 - n) <= Rate * Drift
      <3>1. 0 - n \in Int /\ 0 - n <= Drift /\ Drift \in Int
        BY <1>1
      <3> QED BY <3>1, Monotone
    <2>2. Rate * (0 - n) = Rate * 0 - Rate * n
      BY Linear
    <2>3. Rate * 0 = 0
      BY Numbers
    <2>4. rd \in Int
      BY <1>1, Linear
    <2>5. -rn <= rd
      <3>1. 0 - rn <= rd
        BY <2>1, <2>2, <2>3
      <3> HIDE DEF rn, rd
      <3> QED BY <3>1, <2>4, <1>1
    <2> QED BY <2>4, <2>5 DEF Capacity
  <1>4. r = IF b.tokens + (rn - rl) > Full THEN Full ELSE b.tokens + (rn - rl)
    BY <1>1 DEF Refilled
  <1>5. x >= Capacity \/ x >= b.tokens - rl
    OBVIOUS
  <1>6. b.tokens \in Int
    OBVIOUS
  <1>7. r \in Int /\ r <= Full /\ x >= r - rn
    <2> HIDE DEF r, rn, rl, rd
    <2> QED BY <1>1, <1>2, <1>3, <1>4, <1>5, <1>6
  <1>8. r >= Cost => x >= Cost
    <2> HIDE DEF r, rn, rl, rd
    <2> QED BY <1>1, <1>2, <1>7
  <1> QED BY <1>7, <1>8

\* Running a command keeps the ledger.
LEMMA ExecuteInd == ASSUME NEW c \in Calls PROVE IndInv /\ Execute(c) => IndInv'
  <1> SUFFICES ASSUME IndInv, Execute(c) PROVE IndInv'
    OBVIOUS
  <1> DEFINE n == now[c]
             b == IF ttl = 0 THEN NewBucket(n) ELSE bucket
             r == Refilled(b, n)
  <1>1. /\ RedisTypeOK /\ LedgerInv /\ CommandInv /\ net[c]
        /\ bucket' = Taken(b, n) /\ ttl' = KeyTTL
        /\ credit' = IF Allows(b, n) THEN credit - Cost ELSE credit
        /\ net' = [net EXCEPT ![c] = FALSE]
        /\ reply' = reply \/ reply' = [reply EXCEPT ![c] = Allows(b, n)]
        /\ UNCHANGED <<pc, pod, now, up, failures, circuitOpen, sinceFailure>>
    BY DEF IndInv, Execute, tokenBucketScript, circuitVars
  <1>2. /\ n \in Int /\ -Drift <= n /\ n <= 0
        /\ ttl \in Nat /\ credit \in Int /\ credit <= Capacity /\ credit >= 0
        /\ bucket \in [tokens : Int, last : Int]
    <2>1. n \in (-Drift - 1)..0 /\ ttl \in 0..KeyTTL /\ credit \in Int
      BY <1>1 DEF RedisTypeOK
    <2>2. n >= -Drift
      BY <1>1 DEF CommandInv
    <2>3. n \in Int /\ n <= 0 /\ ttl \in Nat
      BY <2>1, Numbers
    <2> QED BY <2>1, <2>2, <2>3, <1>1, Numbers DEF RedisTypeOK, LedgerInv
  <1> HIDE DEF n
  <1>3. /\ b \in [tokens : Int, last : Int]
        /\ credit >= Capacity \/ credit >= b.tokens - Rate * b.last
    <2>1. CASE ttl = 0
      BY <2>1, <1>1, <1>2, Numbers DEF LedgerInv, NewBucket
    <2>2. CASE ttl > 0
      <3>1. b = bucket
        BY <2>2, <1>2
      <3>2. credit >= Capacity \/ credit >= Potential
        BY <2>2, <1>1 DEF LedgerInv
      <3> QED BY <3>1, <3>2, <1>2 DEF Potential
    <2> QED BY <2>1, <2>2, <1>2
  <1> HIDE DEF b
  <1>4. /\ r \in Int /\ r <= Full
        /\ credit >= r - Rate * n
        /\ r >= Cost => credit >= Cost
    BY <1>2, <1>3, ScriptCovered
  <1>5. /\ bucket' = [tokens |-> IF r >= Cost THEN r - Cost ELSE r, last |-> n]
        /\ credit' = IF r >= Cost THEN credit - Cost ELSE credit
    BY <1>1 DEF Taken, Allows
  <1> HIDE DEF r
  <1>6. LedgerInv'
    <2>1. credit' \in Int /\ 0 <= credit' /\ credit' <= Capacity
      BY <1>2, <1>4, <1>5, Numbers
    <2>2. Rate * (KeyTTL - ttl') = 0
      <3>1. KeyTTL - ttl' = 0
        BY <1>1, Numbers
      <3> QED BY <3>1, Numbers
    <2>3. credit' >= Potential'
      <3> DEFINE rn == Rate * n
      <3>1. rn \in Int
        BY <1>2, Linear
      <3>2. Potential' = (IF r >= Cost THEN r - Cost ELSE r) - rn
        BY <1>5 DEF Potential
      <3>3. credit >= r - rn
        BY <1>4
      <3> HIDE DEF rn
      <3> QED BY <3>1, <3>2, <3>3, <1>2, <1>4, <1>5, Numbers
    <2>4. ttl' > 0
      BY <1>1, Numbers
    <2> QED BY <2>1, <2>2, <2>3, <2>4 DEF LedgerInv
  <1>7. RedisTypeOK'
    <2>1. /\ bucket' \in [tokens : Int, last : Int]
          /\ bucket'.tokens <= Full /\ bucket'.last <= 0
      BY <1>2, <1>4, <1>5, Numbers
    <2>2. ttl' \in 0..KeyTTL /\ credit' \in Int
      BY <1>1, <1>2, <1>5, Numbers
    <2>3. Allows(b, n) \in BOOLEAN
      BY DEF Allows
    <2>4. net' \in [Calls -> BOOLEAN] /\ reply' \in [Calls -> BOOLEAN \cup {None}]
      BY <1>1, <2>3 DEF RedisTypeOK
    <2> QED BY <1>1, <2>1, <2>2, <2>4 DEF RedisTypeOK
  <1>8. CommandInv' /\ CircuitMatchesFailures'
    BY <1>1 DEF IndInv, CommandInv, CircuitMatchesFailures, RedisTypeOK
  <1> QED BY <1>6, <1>7, <1>8 DEF IndInv

\* The steps of a call that touch neither Redis nor a
\* circuit.
LEMMA CallInd ==
  ASSUME NEW c \in Calls
  PROVE  IndInv /\ (Retry(c) \/ Send(c) \/ \E p \in Pods : Check(c, p)) => IndInv'
  <1> SUFFICES ASSUME IndInv, Retry(c) \/ Send(c) \/ \E p \in Pods : Check(c, p)
               PROVE  IndInv'
    OBVIOUS
  <1> USE DEF IndInv, Retry, Check, Send, redisVars, circuitVars
  <1>1. RedisTypeOK'
    <2>1. /\ bucket' = bucket /\ ttl' = ttl /\ credit' = credit
          /\ failures' = failures /\ circuitOpen' = circuitOpen
          /\ sinceFailure' = sinceFailure
      OBVIOUS
    <2>2. now' \in [Calls -> (-Drift - 1)..0]
      <3>1. \A n \in (-Skew)..0 : n \in (-Drift - 1)..0
        BY RedisAssumption DEF Drift
      <3> QED BY <3>1 DEF RedisTypeOK
    <2>3. /\ pc' \in [Calls -> {"idle", "ready", "sent"}]
          /\ pod' \in [Calls -> Pods \cup {None}]
      BY DEF RedisTypeOK
    <2>4. /\ net' \in [Calls -> BOOLEAN]
          /\ reply' \in [Calls -> BOOLEAN \cup {None}]
          /\ up' \in BOOLEAN
      BY DEF RedisTypeOK
    <2> QED BY <2>1, <2>2, <2>3, <2>4 DEF RedisTypeOK
  <1>2. LedgerInv'
    BY DEF LedgerInv, Potential
  <1>3. CommandInv'
    <2>2. CASE Retry(c)
      BY <2>2 DEF CommandInv, RedisTypeOK
    <2>3. CASE \E p \in Pods : Check(c, p)
      BY <2>3 DEF CommandInv, RedisTypeOK
    <2>4. CASE Send(c)
      <3>1. now'[c] \in (-Skew)..0 /\ now'[c] >= -Drift
        BY <2>4, RedisAssumption DEF RedisTypeOK, Drift
      <3>2. \A d \in Calls : d # c => now'[d] = now[d] /\ net'[d] = net[d] /\ pc'[d] = pc[d]
        BY <2>4 DEF RedisTypeOK
      <3>3. pc[c] # "idle" /\ pod' = pod
        BY <2>4
      <3> QED BY <3>1, <3>2, <3>3 DEF CommandInv
    <2> QED BY <2>2, <2>3, <2>4
  <1>4. CircuitMatchesFailures'
    BY DEF CircuitMatchesFailures
  <1> QED BY <1>1, <1>2, <1>3, <1>4

\* A call that ends updates its pod's circuit with its count.
LEMMA EndInd ==
  ASSUME NEW c \in Calls
  PROVE  IndInv /\ (Answered(c) \/ Failed(c)) => IndInv'
  <1> SUFFICES ASSUME IndInv, Answered(c) \/ Failed(c) PROVE IndInv'
    OBVIOUS
  <1> DEFINE p == pod[c]
  <1>1. /\ RedisTypeOK /\ LedgerInv /\ CommandInv /\ CircuitMatchesFailures
        /\ pc[c] = "sent" /\ Done(c)
        /\ recordSuccess(p) \/ recordFailure(p)
        /\ UNCHANGED <<up, bucket, ttl, credit>>
    BY DEF IndInv, Answered, Failed, redisVars
  <1>2. p \in Pods
    BY <1>1 DEF CommandInv
  <1> HIDE DEF p
  <1>3. /\ failures' \in [Pods -> 0..Threshold]
        /\ circuitOpen' \in [Pods -> BOOLEAN]
        /\ sinceFailure' \in [Pods -> 0..(ResetTimeout + 1)]
        /\ CircuitMatchesFailures'
    <2>1. CASE recordSuccess(p)
      BY <2>1, <1>1, <1>2, RedisAssumption
         DEF recordSuccess, RedisTypeOK, CircuitMatchesFailures
    <2>2. CASE recordFailure(p)
      <3> DEFINE n == IF failures[p] + 1 > Threshold THEN Threshold ELSE failures[p] + 1
      <3>1. /\ failures' = [failures EXCEPT ![p] = n]
            /\ sinceFailure' = [sinceFailure EXCEPT ![p] = 0]
            /\ circuitOpen' = [circuitOpen EXCEPT ![p] = @ \/ n >= Threshold]
        BY <2>2 DEF recordFailure
      <3>2. /\ n \in 0..Threshold
            /\ failures[p] >= Threshold => n >= Threshold
        BY <1>1, <1>2, RedisAssumption DEF RedisTypeOK
      <3> HIDE DEF n
      <3>3. /\ failures' \in [Pods -> 0..Threshold]
            /\ sinceFailure' \in [Pods -> 0..(ResetTimeout + 1)]
        BY <3>1, <3>2, <1>1, <1>2, RedisAssumption DEF RedisTypeOK
      <3>4. circuitOpen' \in [Pods -> BOOLEAN]
        BY <3>1, <1>1, <1>2 DEF RedisTypeOK
      <3>5. circuitOpen'[p] <=> failures'[p] >= Threshold
        BY <3>1, <3>2, <1>1, <1>2 DEF RedisTypeOK, CircuitMatchesFailures
      <3>6. \A q \in Pods : q # p => circuitOpen'[q] = circuitOpen[q] /\ failures'[q] = failures[q]
        BY <3>1, <1>1 DEF RedisTypeOK
      <3> QED BY <3>3, <3>4, <3>5, <3>6, <1>1 DEF CircuitMatchesFailures
    <2> QED BY <2>1, <2>2, <1>1
  <1>4. RedisTypeOK'
    <2>1. /\ pc' \in [Calls -> {"idle", "ready", "sent"}]
          /\ pod' \in [Calls -> Pods \cup {None}]
          /\ reply' \in [Calls -> BOOLEAN \cup {None}]
          /\ net' \in [Calls -> BOOLEAN]
      BY <1>1 DEF Done, RedisTypeOK
    <2>2. now' \in [Calls -> (-Drift - 1)..0]
      <3>1. 0 \in (-Drift - 1)..0
        BY Numbers
      <3> QED BY <3>1, <1>1 DEF Done, RedisTypeOK
    <2> QED BY <2>1, <2>2, <1>1, <1>3 DEF RedisTypeOK
  <1>5. LedgerInv'
    BY <1>1 DEF LedgerInv, Potential
  <1>6. CommandInv'
    <2>1. net' = net /\ \A d \in Calls : net[d] => now'[d] = now[d]
      BY <1>1 DEF Done, RedisTypeOK
    <2>2. \A d \in Calls : pc'[d] # "idle" => pc[d] # "idle" /\ pod'[d] = pod[d]
      BY <1>1 DEF Done, RedisTypeOK
    <2> QED BY <2>1, <2>2, <1>1 DEF CommandInv
  <1> QED BY <1>3, <1>4, <1>5, <1>6 DEF IndInv

\* Every step keeps the invariant.
THEOREM IndInvariance == Spec => []IndInv
  <1>1. Init => IndInv
    BY InitInd
  <1>2. IndInv /\ [Next]_vars => IndInv'
    <2> SUFFICES ASSUME IndInv, [Next]_vars PROVE IndInv'
      OBVIOUS
    <2>1. CASE Tick
      BY <2>1, TickInd
    <2>2. CASE Outage
      <3>1. RedisTypeOK'
        BY <2>2 DEF IndInv, RedisTypeOK, Outage, callVars, redisVars, circuitVars
      <3> QED BY <2>2, <3>1 DEF IndInv, Outage, callVars, redisVars, circuitVars, LedgerInv,
                               Potential, CommandInv, CircuitMatchesFailures
    <2>3. CASE \E c \in Calls : Retry(c) \/ Send(c) \/ \E p \in Pods : Check(c, p)
      BY <2>3, CallInd
    <2>4. CASE \E c \in Calls : Execute(c) \/ Answered(c) \/ Failed(c)
      BY <2>4, ExecuteInd, EndInd
    <2>5. CASE UNCHANGED vars
      BY <2>5 DEF vars, callVars, redisVars, circuitVars, IndInv, RedisTypeOK, LedgerInv,
                  Potential, CommandInv, CircuitMatchesFailures
    <2> QED BY <2>1, <2>2, <2>3, <2>4, <2>5 DEF Next
  <1> QED BY <1>1, <1>2, PTL DEF Spec

\* The fleet is granted no more than the rate in true time, whatever the
\* clocks, the delays and the retries, and for every KeyTTL: an expiry is worth
\* Windfall and comes only after KeyTTL seconds without a command.
THEOREM FleetRate == Spec => []FleetWithinRate
  <1>1. IndInv => FleetWithinRate
    BY DEF IndInv, RedisTypeOK, LedgerInv, FleetWithinRate
  <1> QED BY <1>1, IndInvariance, PTL

\* The circuit of every pod agrees with its failure count.
THEOREM CircuitCount == Spec => []CircuitMatchesFailures
  <1>1. IndInv => CircuitMatchesFailures
    BY DEF IndInv
  <1> QED BY <1>1, IndInvariance, PTL
=============================================================================
