-------------------- MODULE PartitionedRateLimiterProofs --------------------
(***************************************************************************)
(* Proofs about PartitionedRateLimiter for any calls, keys, rates and      *)
(* bounds: every bucket keeps to its rate in every window, the map keeps   *)
(* to its bound, and keys do not share partitions.                         *)
(***************************************************************************)
EXTENDS PartitionedRateLimiter, FiniteSetTheorems, TLAPS

-----------------------------------------------------------------------------
(* The token bucket. *)

\* What a bucket keeps about the requests it has allowed: the tokens left and
\* the tokens spent since any one of them come from the burst and the refill.
BucketInv(b, log) ==
    /\ b.tokens \in Nat
    /\ b.tokens <= Full
    /\ b.last \in Nat
    /\ log \in Seq(Nat)
    /\ \A i \in 1..Len(log) :
          /\ log[i] <= b.last
          /\ b.tokens + (Len(log) - i + 1) * Cost <= Full + Rate * (b.last - log[i])
    /\ WithinRate(log)

\* A bucket holds a natural number of parts.
LEMMA FullNat == Full \in Nat /\ Full >= Cost
  <1>1. Burst \in Nat /\ Burst >= 1 /\ Cost \in Nat
    BY BucketAssumption
  <1>2. Burst * Cost \in Nat
    BY <1>1
  <1>3. Burst * Cost = (Burst - 1) * Cost + Cost
    BY <1>1
  <1>4. (Burst - 1) * Cost \in Nat
    <2>1. Burst - 1 \in Nat
      BY <1>1
    <2> QED BY <2>1, <1>1
  <1> QED BY <1>1, <1>2, <1>3, <1>4 DEF Full

\* NewRateLimiter makes a bucket that has allowed nothing.
LEMMA NewBucketInv == ASSUME NEW t1 \in Nat PROVE BucketInv(NewBucket(t1), <<>>)
  BY FullNat DEF BucketInv, NewBucket, WithinRate

\* The refill lies between the old tokens and the cap, and adds no more than
\* the rate.
LEMMA RefilledBounds ==
  ASSUME NEW t \in Nat, NEW l \in Nat, NEW t1 \in Nat, l <= t1, t <= Full
  PROVE  LET r == Refilled([tokens |-> t, last |-> l], t1)
         IN r \in Nat /\ r <= Full /\ r <= t + Rate * (t1 - l)
  <1>1. Rate * (t1 - l) \in Nat
    <2>1. t1 - l \in Nat
      OBVIOUS
    <2> QED BY <2>1, BucketAssumption
  <1> QED BY <1>1, FullNat DEF Refilled

\* Refill is additive in time.
LEMMA Distributes ==
  ASSUME NEW r \in Int, NEW a \in Int, NEW b \in Int, NEW c \in Int
  PROVE  r * (a - b) + r * (c - a) = r * (c - b)
  OBVIOUS

\* Allow keeps the bucket's account of the requests allowed.
LEMMA TakenInv ==
  ASSUME NEW b \in [tokens : Nat, last : Nat], NEW log, NEW t1 \in Nat,
         b.last <= t1, BucketInv(b, log)
  PROVE  BucketInv(Taken(b, t1), Logged(log, b, t1))
  <1> DEFINE r == Refilled(b, t1)
             n == Len(log)
             b2 == Taken(b, t1)
             log2 == Logged(log, b, t1)
             credit(i) == Full + Rate * (t1 - log[i])
  <1> SUFFICES BucketInv(b2, log2)
    OBVIOUS
  <1>1. /\ log \in Seq(Nat) /\ n \in Nat
        /\ b.tokens \in Nat /\ b.last \in Nat /\ b.tokens <= Full
        /\ b = [tokens |-> b.tokens, last |-> b.last]
    BY DEF BucketInv
  <1>2. r \in Nat /\ r <= Full /\ r <= b.tokens + Rate * (t1 - b.last)
    BY <1>1, RefilledBounds
  <1>3. Cost \in Nat /\ Cost > 0 /\ Rate \in Nat /\ Full \in Nat
    BY BucketAssumption, FullNat
  <1>4. ASSUME NEW i \in 1..n
        PROVE  /\ log[i] \in Nat /\ log[i] <= t1
               /\ (n - i + 1) * Cost \in Int
               /\ credit(i) \in Int
               /\ r + (n - i + 1) * Cost <= credit(i)
    <2>1. log[i] \in Nat /\ log[i] <= b.last
      BY <1>1 DEF BucketInv
    <2>2. b.tokens + (n - i + 1) * Cost <= Full + Rate * (b.last - log[i])
      BY DEF BucketInv
    <2>3. Rate * (b.last - log[i]) + Rate * (t1 - b.last) = Rate * (t1 - log[i])
      BY <1>1, <1>3, <2>1, Distributes
    <2>4. /\ Rate * (b.last - log[i]) \in Int
          /\ Rate * (t1 - b.last) \in Int
          /\ Rate * (t1 - log[i]) \in Int
          /\ (n - i + 1) * Cost \in Int
      BY <1>1, <1>3, <2>1, SMTT(30)
    <2>5. r + (n - i + 1) * Cost <= Full + Rate * (t1 - log[i])
      <3> DEFINE spent == (n - i + 1) * Cost
                 old == Rate * (b.last - log[i])
                 new == Rate * (t1 - b.last)
      <3>1. /\ spent \in Int /\ old \in Int /\ new \in Int
            /\ b.tokens + spent <= Full + old
            /\ old + new = Rate * (t1 - log[i])
            /\ r <= b.tokens + new
        BY <1>2, <2>2, <2>3, <2>4
      <3>2. r + spent <= Full + (old + new)
        <4> HIDE DEF r, spent, old, new
        <4> QED BY <3>1, <1>1, <1>2, <1>3
      <3> QED BY <3>1, <3>2
    <2>6. log[i] <= t1
      BY <1>1, <2>1
    <2>7. credit(i) \in Int
      BY <1>3, <2>4
    <2> QED BY <2>1, <2>4, <2>5, <2>6, <2>7
  <1>5. CASE r < Cost
    <2>1. b2 = [tokens |-> r, last |-> t1] /\ log2 = log
      BY <1>2, <1>3, <1>5 DEF Taken, Logged, Allows
    <2>2. WithinRate(log)
      BY DEF BucketInv
    <2> HIDE DEF r, b2, log2
    <2> QED BY <1>1, <1>2, <1>3, <1>4, <2>1, <2>2 DEF BucketInv
  <1>6. CASE r >= Cost
    <2>1. b2 = [tokens |-> r - Cost, last |-> t1] /\ log2 = Append(log, t1)
      BY <1>2, <1>3, <1>6 DEF Taken, Logged, Allows
    <2>2. /\ log2 \in Seq(Nat) /\ Len(log2) = n + 1
          /\ \A i \in 1..n : log2[i] = log[i]
          /\ log2[n + 1] = t1
      BY <2>1, <1>1
    <2>3. b2.tokens \in Nat /\ b2.tokens <= Full /\ b2.last = t1
      BY <2>1, <1>2, <1>3, <1>6
    <2>4. ASSUME NEW i \in 1..n
          PROVE  b2.tokens + (Len(log2) - i + 1) * Cost <= credit(i)
      <3>1. (Len(log2) - i + 1) * Cost = (n - i + 1) * Cost + Cost
        BY <2>2, <1>1, <1>3
      <3> HIDE DEF r, b2, log2, credit
      <3> QED BY <3>1, <2>1, <1>2, <1>3, <1>4
    <2>5. b2.tokens + (Len(log2) - (n + 1) + 1) * Cost <= Full + Rate * (t1 - t1)
      <3>1. (Len(log2) - (n + 1) + 1) * Cost = Cost
        BY <2>2, <1>1, <1>3
      <3>2. Rate * (t1 - t1) = 0
        BY <1>3
      <3> HIDE DEF r, b2, log2
      <3> QED BY <3>1, <3>2, <2>1, <1>2, <1>3
    <2>6. ASSUME NEW i \in 1..Len(log2)
          PROVE  /\ log2[i] <= b2.last
                 /\ b2.tokens + (Len(log2) - i + 1) * Cost
                       <= Full + Rate * (b2.last - log2[i])
      <3>1. CASE i \in 1..n
        BY <3>1, <2>2, <2>3, <2>4, <1>4
      <3>2. CASE i = n + 1
        BY <3>2, <2>2, <2>3, <2>5
      <3> QED BY <3>1, <3>2, <2>2, <1>1
    <2>7. ASSUME NEW i \in 1..Len(log2), NEW j \in 1..Len(log2), i <= j
          PROVE  (j - i + 1) * Cost <= Full + Rate * (log2[j] - log2[i])
      <3>1. CASE j \in 1..n
        <4>1. i \in 1..n
          BY <3>1, <2>7, <1>1, <2>2
        <4>2. (j - i + 1) * Cost <= Full + Rate * (log[j] - log[i])
          BY <4>1, <3>1, <2>7 DEF BucketInv, WithinRate
        <4> QED BY <4>1, <4>2, <3>1, <2>2
      <3>2. CASE j = n + 1
        <4>1. /\ (Len(log2) - i + 1) * Cost \in Int
              /\ Rate * (log2[j] - log2[i]) \in Int
          BY <2>2, <1>1, <1>3
        <4>2. j = Len(log2) /\ log2[j] = b2.last
          BY <3>2, <2>2, <2>3
        <4> HIDE DEF b2, log2
        <4> QED BY <4>1, <4>2, <2>3, <2>6, <1>3
      <3> QED BY <3>1, <3>2, <2>2, <1>1
    <2>8. WithinRate(log2)
      BY <2>7 DEF WithinRate
    <2> HIDE DEF b2, log2
    <2> QED BY <2>2, <2>3, <2>6, <2>8 DEF BucketInv
  <1> QED BY <1>2, <1>3, <1>5, <1>6
-----------------------------------------------------------------------------
(* The limiter. *)

\* Every bucket keeps its account and was last refilled in the past.
AccountsInv ==
    \A b \in Buckets : BucketInv(buckets[b], allowed[b]) /\ buckets[b].last <= clock

\* A call past the limiter's mutex has a bucket; one before it has none, and
\* the bucket it may make is untouched.
ProgressInv ==
    \A c \in Calls :
        /\ pc[c] \in {"idle", "lock"} => entry[c] = None /\ allowed[c] = <<>>
        /\ pc[c] = "lock" => key[c] \in Keys
        /\ pc[c] = "allow" => entry[c] \in Buckets

\* A partition belongs to the key of the call that made it, in the map and in
\* the hands of every call that was given it.
OwnerInv ==
    /\ \A k \in Keys : partitions[k] # None =>
          entry[partitions[k]] = partitions[k] /\ key[partitions[k]] = k
    /\ \A c \in Calls : entry[c] \in Calls =>
          entry[entry[c]] = entry[c] /\ key[entry[c]] = key[c]

\* The inductive invariant.
IndInv == PartTypeOK /\ AccountsInv /\ ProgressInv /\ OwnerInv /\ PartitionsBounded

\* No partition has been made and every bucket is full.
LEMMA InitInd == Init => IndInv
  <1> SUFFICES ASSUME Init PROVE IndInv
    OBVIOUS
  <1> USE PartitionAssumption DEF Init
  <1>1. PartTypeOK
    BY FullNat DEF PartTypeOK, NewBucket, Buckets
  <1>2. AccountsInv
    BY NewBucketInv DEF AccountsInv, NewBucket
  <1>3. ProgressInv /\ OwnerInv
    BY DEF ProgressInv, OwnerInv, Buckets
  <1>4. PartitionsBounded
    <2>1. Partitioned(partitions) = {}
      BY DEF Partitioned
    <2>2. Cardinality({}) = 0
      BY FS_EmptySet
    <2>3. Cardinality(Partitioned(partitions)) = 0
      BY <2>1, <2>2
    <2> HIDE DEF Init
    <2> QED BY <2>3 DEF PartitionsBounded
  <1> QED BY <1>1, <1>2, <1>3, <1>4 DEF IndInv

\* Cleanup only deletes: the partitions kept are those that were there.
LEMMA KeptSubset ==
  ASSUME PartTypeOK, NEW t
  PROVE  /\ Kept(t) \in [Keys -> Calls \cup {None}]
         /\ \A k \in Keys : Kept(t)[k] # None => Kept(t)[k] = partitions[k]
         /\ Partitioned(Kept(t)) \subseteq Partitioned(partitions)
  BY DEF PartTypeOK, Kept, Partitioned

\* A map with no more partitions than before, or one more where there is
\* room, is within the bound.
LEMMA BoundKept ==
  ASSUME PartitionsBounded, NEW m, NEW k \in Keys,
         Partitioned(m) \subseteq Partitioned(partitions),
         \/ Partitioned(partitions') \subseteq Partitioned(m)
         \/ RoomFor(m) /\ Partitioned(partitions') \subseteq Partitioned(m) \cup {k}
  PROVE  PartitionsBounded'
  <1>1. /\ IsFiniteSet(Partitioned(partitions))
        /\ IsFiniteSet(Partitioned(m))
    BY PartitionAssumption, FS_Subset DEF Partitioned
  <1>2. /\ Cardinality(Partitioned(m)) <= Cardinality(Partitioned(partitions))
        /\ Cardinality(Partitioned(m)) \in Nat
        /\ Cardinality(Partitioned(partitions)) \in Nat
    BY <1>1, FS_Subset, FS_CardinalityType
  <1>3. CASE Partitioned(partitions') \subseteq Partitioned(m)
    <2>1. Cardinality(Partitioned(partitions')) \in Nat
          /\ Cardinality(Partitioned(partitions')) <= Cardinality(Partitioned(m))
      BY <1>1, <1>3, FS_Subset, FS_CardinalityType
    <2> QED BY <2>1, <1>2, PartitionAssumption DEF PartitionsBounded
  <1>4. CASE RoomFor(m) /\ Partitioned(partitions') \subseteq Partitioned(m) \cup {k}
    <2>1. /\ IsFiniteSet(Partitioned(m) \cup {k})
          /\ Cardinality(Partitioned(m) \cup {k}) <= Cardinality(Partitioned(m)) + 1
          /\ Cardinality(Partitioned(m) \cup {k}) \in Nat
      <3>1. /\ IsFiniteSet(Partitioned(m) \cup {k})
            /\ \/ Cardinality(Partitioned(m) \cup {k}) = Cardinality(Partitioned(m))
               \/ Cardinality(Partitioned(m) \cup {k}) = Cardinality(Partitioned(m)) + 1
        BY <1>1, FS_AddElement
      <3> QED BY <3>1, <1>2
    <2>2. Cardinality(Partitioned(partitions')) \in Nat
          /\ Cardinality(Partitioned(partitions')) <= Cardinality(Partitioned(m) \cup {k})
      BY <2>1, <1>4, FS_Subset, FS_CardinalityType
    <2> QED BY <2>1, <2>2, <1>2, <1>4, PartitionAssumption DEF PartitionsBounded, RoomFor
  <1> QED BY <1>3, <1>4

\* Time passing keeps the invariant.
LEMMA TickInd == IndInv /\ Tick => IndInv'
  <1> SUFFICES ASSUME IndInv, Tick PROVE IndInv'
    OBVIOUS
  <1> USE PartitionAssumption DEF IndInv, Tick, callVars, mapVars
  <1>1. PartTypeOK'
    BY DEF PartTypeOK
  <1>2. AccountsInv'
    BY DEF AccountsInv, PartTypeOK, Buckets, BucketInv
  <1>3. ProgressInv' /\ OwnerInv'
    BY DEF ProgressInv, OwnerInv
  <1>4. PartitionsBounded'
    BY DEF PartitionsBounded
  <1> QED BY <1>1, <1>2, <1>3, <1>4

\* A call reading the clock keeps the invariant: its bucket is not in use yet.
LEMMA AllowKeyInd == ASSUME NEW c \in Calls PROVE IndInv /\ AllowKey(c) => IndInv'
  <1> SUFFICES ASSUME IndInv, AllowKey(c) PROVE IndInv'
    OBVIOUS
  <1> USE PartitionAssumption DEF IndInv, AllowKey, callVars, mapVars
  <1>1. PartTypeOK'
    BY DEF PartTypeOK
  <1>2. AccountsInv'
    BY DEF AccountsInv
  <1>3. ProgressInv'
    BY DEF ProgressInv, PartTypeOK
  <1>4. OwnerInv'
    <2>1. \A k \in Keys : partitions[k] \in Calls \cup {None}
      BY DEF PartTypeOK
    <2>2. entry[c] = None
      BY DEF ProgressInv
    <2>3. \A d \in Calls : d # c => key'[d] = key[d]
      BY DEF PartTypeOK
    <2>4. /\ \A k \in Keys : partitions[k] # c
          /\ \A d \in Calls : entry[d] # c
      BY <2>1, <2>2 DEF OwnerInv
    <2> QED BY <2>1, <2>2, <2>3, <2>4 DEF OwnerInv
  <1>5. PartitionsBounded'
    BY DEF PartitionsBounded
  <1> QED BY <1>1, <1>2, <1>3, <1>4, <1>5
\* A lookup keeps the invariant: the partition it finds belongs to its key,
\* and the one it makes is new, fits and belongs to its key.
LEMMA partitionForKeyInd ==
  ASSUME NEW c \in Calls PROVE IndInv /\ partitionForKey(c) => IndInv'
  <1> SUFFICES ASSUME IndInv, partitionForKey(c) PROVE IndInv'
    OBVIOUS
  <1> DEFINE t == now[c]
             k == key[c]
             m == Kept(t)
             Found == /\ m[k] # None
                      /\ entry' = [entry EXCEPT ![c] = m[k]]
                      /\ partitions' = m
                      /\ lastSeen' = [lastSeen EXCEPT ![k] = t]
                      /\ UNCHANGED buckets
             Made  == /\ m[k] = None /\ RoomFor(m)
                      /\ entry' = [entry EXCEPT ![c] = c]
                      /\ partitions' = [m EXCEPT ![k] = c]
                      /\ lastSeen' = [lastSeen EXCEPT ![k] = t]
                      /\ buckets' = [buckets EXCEPT ![c] = NewBucket(clock)]
             Spilt == /\ m[k] = None /\ ~RoomFor(m)
                      /\ entry' = [entry EXCEPT ![c] = Overflow]
                      /\ partitions' = m
                      /\ UNCHANGED <<lastSeen, buckets>>
  <1>1. /\ pc[c] = "lock" /\ pc' = [pc EXCEPT ![c] = "allow"]
        /\ nextCleanup' = IF t < nextCleanup THEN nextCleanup ELSE t + CleanupInterval
        /\ seen' = [seen EXCEPT ![c] = clock]
        /\ UNCHANGED <<clock, key, now, allowed>>
        /\ Found \/ Made \/ Spilt
    BY DEF partitionForKey, cleanupStaleLocked, Spill, Refreshed
  <1>2. /\ PartTypeOK /\ t \in 0..MaxTime /\ k \in Keys
        /\ entry[c] = None /\ allowed[c] = <<>>
    BY <1>1 DEF IndInv, ProgressInv, PartTypeOK
  <1>3. /\ m \in [Keys -> Calls \cup {None}]
        /\ \A x \in Keys : m[x] # None => m[x] = partitions[x]
        /\ Partitioned(m) \subseteq Partitioned(partitions)
    BY <1>2, KeptSubset
  <1>4. /\ \A x \in Keys : partitions[x] # c
        /\ \A d \in Calls : entry[d] # c
    <2>1. \A x \in Keys : partitions[x] \in Calls \cup {None}
      BY <1>2 DEF PartTypeOK
    <2> QED BY <2>1, <1>2, PartitionAssumption DEF IndInv, OwnerInv
  <1> HIDE DEF t, k, m
  <1>5. PartTypeOK'
    <2>1. /\ clock' \in 0..MaxTime
          /\ pc' \in [Calls -> {"idle", "lock", "allow", "done"}]
          /\ key' \in [Calls -> Keys \cup {None}]
          /\ now' \in [Calls -> 0..MaxTime]
          /\ seen' \in [Calls -> 0..MaxTime]
          /\ allowed' \in [Buckets -> Seq(0..MaxTime)]
      BY <1>1, <1>2 DEF PartTypeOK
    <2>3. nextCleanup' \in 1..(MaxTime + CleanupInterval)
      BY <1>1, <1>2, PartitionAssumption DEF PartTypeOK
    <2>4. /\ entry' \in [Calls -> Buckets \cup {None}]
          /\ partitions' \in [Keys -> Calls \cup {None}]
      <3>1. m[k] \in Calls \cup {None}
        BY <1>2, <1>3
      <3>2. entry \in [Calls -> Buckets \cup {None}]
        BY <1>2 DEF PartTypeOK
      <3>3. CASE Found
        BY <3>1, <3>2, <3>3, <1>3 DEF Buckets
      <3>4. CASE Made
        BY <3>2, <3>4, <1>3 DEF Buckets
      <3>5. CASE Spilt
        BY <3>2, <3>5, <1>3 DEF Buckets
      <3> QED BY <1>1, <3>3, <3>4, <3>5
    <2>5. lastSeen' \in [Keys -> 0..MaxTime]
      BY <1>1, <1>2 DEF PartTypeOK
    <2>6. buckets' \in [Buckets -> [tokens : 0..Full, last : 0..MaxTime]]
      <3>1. NewBucket(clock) \in [tokens : 0..Full, last : 0..MaxTime]
        BY <1>2, FullNat DEF PartTypeOK, NewBucket
      <3> QED BY <3>1, <1>1, <1>2 DEF PartTypeOK
    <2> QED BY <2>1, <2>3, <2>4, <2>5, <2>6 DEF PartTypeOK
  <1>6. AccountsInv'
    <2>1. clock' = clock /\ allowed' = allowed /\ clock \in Nat
      BY <1>1, <1>2, PartitionAssumption DEF PartTypeOK
    <2>2. \A b \in Buckets : buckets'[b] = buckets[b] \/ (b = c /\ buckets'[b] = NewBucket(clock))
      BY <1>1, <1>2 DEF PartTypeOK
    <2>3. BucketInv(NewBucket(clock), allowed[c]) /\ NewBucket(clock).last = clock
      BY <1>2, <2>1, NewBucketInv DEF NewBucket
    <2> QED BY <2>1, <2>2, <2>3 DEF IndInv, AccountsInv
  <1>7. ProgressInv'
    <2>1. entry'[c] \in Buckets
      BY <1>1, <1>2, <1>3 DEF PartTypeOK, Buckets
    <2>2. pc'[c] = "allow"
      BY <1>1, <1>2 DEF PartTypeOK
    <2>3. \A d \in Calls : d # c => pc'[d] = pc[d] /\ entry'[d] = entry[d]
      BY <1>1, <1>2 DEF PartTypeOK
    <2> QED BY <2>1, <2>2, <2>3, <1>1 DEF IndInv, ProgressInv
  <1>8. OwnerInv'
    <2>1. key' = key
      BY <1>1
    <2>2. \A d \in Calls : d # c => entry'[d] = entry[d]
      BY <1>1, <1>2 DEF PartTypeOK
    <2>3. \A x \in Keys : partitions'[x] # None =>
             \/ partitions'[x] = partitions[x]
             \/ x = k /\ partitions'[x] = c /\ entry'[c] = c
      BY <1>1, <1>2, <1>3 DEF PartTypeOK
    <2>4. \/ entry'[c] = Overflow
          \/ entry'[c] = c
          \/ entry'[c] = partitions[k] /\ partitions[k] # None
      BY <1>1, <1>2, <1>3 DEF PartTypeOK
    <2>5. \A x \in Keys : partitions[x] \in Calls \cup {None}
      BY <1>2 DEF PartTypeOK
    <2>6. ASSUME NEW x \in Keys, partitions'[x] # None
          PROVE  entry'[partitions'[x]] = partitions'[x] /\ key'[partitions'[x]] = x
      <3>1. CASE partitions'[x] = partitions[x]
        BY <3>1, <2>1, <2>2, <2>5, <2>6, <1>4 DEF IndInv, OwnerInv
      <3>2. CASE x = k /\ partitions'[x] = c /\ entry'[c] = c
        BY <3>2, <2>1 DEF k
      <3> QED BY <2>3, <2>6, <3>1, <3>2
    <2>7. ASSUME NEW d \in Calls, entry'[d] \in Calls
          PROVE  entry'[entry'[d]] = entry'[d] /\ key'[entry'[d]] = key'[d]
      <3>1. CASE d # c
        BY <3>1, <2>1, <2>2, <2>7, <1>4 DEF IndInv, OwnerInv
      <3>2. CASE d = c /\ entry'[c] = c
        BY <3>2
      <3>3. CASE d = c /\ entry'[c] = partitions[k] /\ partitions[k] # None
        <4>1. entry[partitions[k]] = partitions[k] /\ key[partitions[k]] = k
          BY <3>3, <1>2 DEF IndInv, OwnerInv
        <4> QED BY <4>1, <3>3, <2>1, <2>2, <2>7, <1>2, <1>4 DEF k
      <3> QED BY <2>4, <2>7, <3>1, <3>2, <3>3, PartitionAssumption
    <2> QED BY <2>6, <2>7 DEF OwnerInv
  <1>9. PartitionsBounded'
    <2>1. \/ partitions' = m
          \/ RoomFor(m) /\ partitions' = [m EXCEPT ![k] = c]
      BY <1>1
    <2>2. \/ Partitioned(partitions') \subseteq Partitioned(m)
          \/ RoomFor(m) /\ Partitioned(partitions') \subseteq Partitioned(m) \cup {k}
      BY <2>1, <1>2, <1>3 DEF Partitioned
    <2> QED BY <2>2, <1>2, <1>3, BoundKept DEF IndInv
  <1> QED BY <1>5, <1>6, <1>7, <1>8, <1>9 DEF IndInv

\* Taking a token keeps the invariant.
LEMMA AllowInd == ASSUME NEW c \in Calls PROVE IndInv /\ Allow(c) => IndInv'
  <1> SUFFICES ASSUME IndInv, Allow(c) PROVE IndInv'
    OBVIOUS
  <1> DEFINE e == entry[c]
  <1>1. /\ pc[c] = "allow" /\ pc' = [pc EXCEPT ![c] = "done"]
        /\ buckets' = [buckets EXCEPT ![e] = Taken(buckets[e], clock)]
        /\ allowed' = [allowed EXCEPT ![e] = Logged(allowed[e], buckets[e], clock)]
        /\ UNCHANGED <<clock, key, now, entry, partitions, lastSeen, nextCleanup, seen>>
    BY DEF Allow, mapVars
  <1>2. PartTypeOK /\ e \in Buckets /\ clock \in Nat /\ clock \in 0..MaxTime
    BY <1>1, PartitionAssumption DEF IndInv, ProgressInv, PartTypeOK
  <1>3. /\ buckets[e] \in [tokens : Nat, last : Nat]
        /\ BucketInv(buckets[e], allowed[e]) /\ buckets[e].last <= clock
    <2>1. buckets[e] \in [tokens : 0..Full, last : 0..MaxTime]
      BY <1>2 DEF PartTypeOK
    <2>2. BucketInv(buckets[e], allowed[e]) /\ buckets[e].last <= clock
      BY <1>2 DEF IndInv, AccountsInv
    <2> QED BY <2>1, <2>2, FullNat, PartitionAssumption
  <1>4. /\ BucketInv(Taken(buckets[e], clock), Logged(allowed[e], buckets[e], clock))
        /\ Taken(buckets[e], clock).last = clock
    BY <1>2, <1>3, TakenInv DEF Taken
  <1> HIDE DEF e
  <1>5. /\ \A b \in Buckets : b # e => buckets'[b] = buckets[b] /\ allowed'[b] = allowed[b]
        /\ buckets'[e] = Taken(buckets[e], clock)
        /\ allowed'[e] = Logged(allowed[e], buckets[e], clock)
    BY <1>1, <1>2 DEF PartTypeOK
  <1>6. PartTypeOK'
    <2>1. Taken(buckets[e], clock) \in [tokens : 0..Full, last : 0..MaxTime]
      <3>1. /\ Taken(buckets[e], clock).tokens \in Nat
            /\ Taken(buckets[e], clock).tokens <= Full
        BY <1>4 DEF BucketInv
      <3>2. Taken(buckets[e], clock) =
              [tokens |-> Taken(buckets[e], clock).tokens, last |-> clock]
        BY DEF Taken
      <3> HIDE DEF Taken
      <3> QED BY <3>1, <3>2, <1>2, FullNat
    <2>2. Logged(allowed[e], buckets[e], clock) \in Seq(0..MaxTime)
      <3>1. allowed[e] \in Seq(0..MaxTime)
        BY <1>2 DEF PartTypeOK
      <3>2. Append(allowed[e], clock) \in Seq(0..MaxTime)
        BY <3>1, <1>2
      <3> QED BY <3>1, <3>2 DEF Logged
    <2>3. /\ buckets' \in [Buckets -> [tokens : 0..Full, last : 0..MaxTime]]
          /\ allowed' \in [Buckets -> Seq(0..MaxTime)]
      BY <2>1, <2>2, <1>1, <1>2 DEF PartTypeOK
    <2> QED BY <2>3, <1>1, <1>2 DEF PartTypeOK
  <1>7. AccountsInv'
    BY <1>1, <1>2, <1>4, <1>5 DEF IndInv, AccountsInv
  <1>8. ProgressInv'
    <2>1. ASSUME NEW d \in Calls, pc[d] \in {"idle", "lock"}
          PROVE  d # e
      <3>1. entry[d] = None
        BY <2>1 DEF IndInv, ProgressInv
      <3>2. e \in Calls => entry[e] = e
        BY DEF e, IndInv, OwnerInv
      <3> QED BY <3>1, <3>2, PartitionAssumption
    <2>2. \A d \in Calls : pc'[d] = pc[d] \/ pc'[d] = "done"
      BY <1>1, <1>2 DEF PartTypeOK
    <2> QED BY <2>1, <2>2, <1>1, <1>5 DEF IndInv, ProgressInv, Buckets
  <1>9. OwnerInv' /\ PartitionsBounded'
    BY <1>1 DEF IndInv, OwnerInv, PartitionsBounded
  <1> QED BY <1>6, <1>7, <1>8, <1>9 DEF IndInv

\* Every step keeps the invariant.
THEOREM IndInvariance == Spec => []IndInv
  <1>1. Init => IndInv
    BY InitInd
  <1>2. IndInv /\ [Next]_vars => IndInv'
    <2> SUFFICES ASSUME IndInv, [Next]_vars PROVE IndInv'
      OBVIOUS
    <2>1. CASE Tick
      BY <2>1, TickInd
    <2>2. CASE \E c \in Calls : AllowKey(c) \/ partitionForKey(c) \/ Allow(c)
      BY <2>2, AllowKeyInd, partitionForKeyInd, AllowInd
    <2>3. CASE UNCHANGED vars
      BY <2>3 DEF vars, callVars, mapVars, IndInv, PartTypeOK, AccountsInv, ProgressInv,
                  OwnerInv, PartitionsBounded
    <2> QED BY <2>1, <2>2, <2>3 DEF Next
  <1> QED BY <1>1, <1>2, PTL DEF Spec

\* In every window every bucket allows at most its burst and the refill,
\* whatever the interleaving of lookups, evictions and requests.
THEOREM RateBound == Spec => []BucketsWithinRate
  <1>1. IndInv => BucketsWithinRate
    BY DEF IndInv, AccountsInv, BucketInv, BucketsWithinRate
  <1> QED BY <1>1, IndInvariance, PTL

\* The map never outgrows MaxPartitions, for any set of keys.
THEOREM MapBound == Spec => []PartitionsBounded
  <1>1. IndInv => PartitionsBounded
    BY DEF IndInv
  <1> QED BY <1>1, IndInvariance, PTL

\* Two keys never draw on one partition.
THEOREM Isolation == Spec => []KeysIsolated
  <1>1. IndInv => KeysIsolated
    BY DEF IndInv, OwnerInv, KeysIsolated
  <1> QED BY <1>1, IndInvariance, PTL
-----------------------------------------------------------------------------
(* Eviction. *)

\* No call has read a time to come.
PastInv == \A c \in Calls : now[c] <= clock

\* lastSeen of a partition is the time that some call with its bucket read, and
\* that call got the mutex after every call with the bucket had read the clock.
LagInv ==
    \A k \in Keys : partitions[k] # None =>
        \E d \in Calls :
            /\ entry[d] = partitions[k]
            /\ lastSeen[k] = now[d]
            /\ \A c \in Calls : entry[c] = partitions[k] => now[c] <= seen[d]

\* A lookup keeps LagInv: the call that refreshes a partition gets the mutex
\* last, and is given no other partition.
LEMMA partitionForKeyLag ==
  ASSUME NEW e \in Calls, IndInv, PastInv, LagInv, partitionForKey(e)
  PROVE  LagInv'
  <1> DEFINE t == now[e]
             k == key[e]
             m == Kept(t)
  <1>1. /\ pc[e] = "lock" /\ now' = now
        /\ seen' = [seen EXCEPT ![e] = clock]
        /\ \/ /\ m[k] # None /\ entry' = [entry EXCEPT ![e] = m[k]]
              /\ partitions' = m /\ lastSeen' = [lastSeen EXCEPT ![k] = t]
           \/ /\ m[k] = None /\ entry' = [entry EXCEPT ![e] = e]
              /\ partitions' = [m EXCEPT ![k] = e]
              /\ lastSeen' = [lastSeen EXCEPT ![k] = t]
           \/ /\ m[k] = None /\ entry' = [entry EXCEPT ![e] = Overflow]
              /\ partitions' = m /\ lastSeen' = lastSeen
    BY DEF partitionForKey, Spill, Refreshed
  <1>2. /\ PartTypeOK /\ k \in Keys /\ entry[e] = None
        /\ clock \in Nat /\ now \in [Calls -> Nat] /\ seen \in [Calls -> Nat]
    BY <1>1, PartitionAssumption DEF IndInv, ProgressInv, PartTypeOK
  <1>3. /\ m \in [Keys -> Calls \cup {None}]
        /\ \A x \in Keys : m[x] # None => m[x] = partitions[x]
    BY <1>2, KeptSubset
  <1>4. /\ \A x \in Keys : partitions[x] \in Calls \cup {None}
        /\ \A x \in Keys : partitions[x] # e
        /\ \A x \in Keys : partitions[x] # None => key[partitions[x]] = x
    <2>1. \A x \in Keys : partitions[x] \in Calls \cup {None}
      BY <1>2 DEF PartTypeOK
    <2> QED BY <2>1, <1>2, PartitionAssumption DEF IndInv, OwnerInv
  <1> HIDE DEF t, k, m
  <1>5. /\ \A d \in Calls : d # e => entry'[d] = entry[d] /\ seen'[d] = seen[d]
        /\ seen'[e] = clock
        /\ \A x \in Keys : x # k => lastSeen'[x] = lastSeen[x] /\ partitions'[x] = m[x]
    BY <1>1, <1>2, <1>3 DEF PartTypeOK
  <1> SUFFICES ASSUME NEW x \in Keys, partitions'[x] # None
               PROVE  \E d \in Calls :
                         /\ entry'[d] = partitions'[x]
                         /\ lastSeen'[x] = now'[d]
                         /\ \A c \in Calls : entry'[c] = partitions'[x] => now'[c] <= seen'[d]
    BY DEF LagInv
  <1>6. CASE x = k
    <2>1. entry'[e] = partitions'[k] /\ lastSeen'[k] = now[e]
      BY <1>1, <1>2, <1>3, <1>6 DEF PartTypeOK, t
    <2>2. \A c \in Calls : now'[c] <= seen'[e]
      BY <1>1, <1>5 DEF PastInv
    <2> QED BY <1>1, <1>6, <2>1, <2>2
  <1>7. CASE x # k
    <2>1. partitions'[x] = partitions[x] /\ partitions[x] # None /\ partitions[x] \in Calls
      BY <1>3, <1>4, <1>5, <1>7
    <2>2. PICK d \in Calls : /\ entry[d] = partitions[x]
                             /\ lastSeen[x] = now[d]
                             /\ \A c \in Calls : entry[c] = partitions[x] => now[c] <= seen[d]
      BY <2>1 DEF LagInv
    <2>3. d # e
      BY <2>1, <2>2, <1>2
    <2>4. entry'[e] # partitions[x]
      <3>1. \/ entry'[e] = e
            \/ entry'[e] = Overflow
            \/ entry'[e] = partitions[k] /\ partitions[k] # None
        BY <1>1, <1>2, <1>3 DEF PartTypeOK
      <3> QED BY <3>1, <2>1, <1>2, <1>4, <1>7, PartitionAssumption
    <2> QED BY <2>1, <2>2, <2>3, <2>4, <1>1, <1>5, <1>7
  <1> QED BY <1>6, <1>7

\* Every step keeps PastInv and LagInv.
LEMMA LagStep == ASSUME IndInv, PastInv, LagInv, [Next]_vars PROVE PastInv' /\ LagInv'
  <1>1. clock \in Nat /\ now \in [Calls -> Nat]
    BY PartitionAssumption DEF IndInv, PartTypeOK
  <1>2. CASE Tick
    BY <1>1, <1>2 DEF Tick, callVars, mapVars, PastInv, LagInv
  <1>3. ASSUME NEW e \in Calls, AllowKey(e) PROVE PastInv' /\ LagInv'
    <2>1. /\ now' = [now EXCEPT ![e] = clock]
          /\ UNCHANGED <<clock, entry, partitions, lastSeen, seen>>
      BY <1>3 DEF AllowKey, mapVars
    <2>2. entry[e] = None
      BY <1>3 DEF IndInv, ProgressInv, AllowKey
    <2>3. PastInv'
      BY <1>1, <2>1 DEF PastInv
    <2>4. \A d \in Calls : d # e => now'[d] = now[d]
      BY <1>1, <2>1
    <2>5. LagInv'
      <3> SUFFICES ASSUME NEW k \in Keys, partitions[k] # None
                   PROVE  \E d \in Calls :
                             /\ entry[d] = partitions[k]
                             /\ lastSeen[k] = now'[d]
                             /\ \A c \in Calls : entry[c] = partitions[k] => now'[c] <= seen[d]
        BY <2>1 DEF LagInv
      <3>1. PICK d \in Calls : /\ entry[d] = partitions[k]
                               /\ lastSeen[k] = now[d]
                               /\ \A c \in Calls : entry[c] = partitions[k] => now[c] <= seen[d]
        BY DEF LagInv
      <3> QED BY <3>1, <2>2, <2>4
    <2> QED BY <2>3, <2>5
  <1>4. ASSUME NEW e \in Calls, partitionForKey(e) PROVE PastInv' /\ LagInv'
    <2>1. PastInv'
      BY <1>4 DEF partitionForKey, PastInv
    <2> QED BY <2>1, <1>4, partitionForKeyLag
  <1>5. ASSUME NEW e \in Calls, Allow(e) PROVE PastInv' /\ LagInv'
    BY <1>5 DEF Allow, mapVars, PastInv, LagInv
  <1>6. CASE UNCHANGED vars
    BY <1>6 DEF vars, callVars, mapVars, PastInv, LagInv
  <1> QED BY <1>2, <1>3, <1>4, <1>5, <1>6 DEF Next

\* A bucket in use is not evicted, up to the time that a call with it waited for
\* the limiter's mutex, for any number of calls, keys and any timing.
THEOREM EvictionBound == Spec => EvictedBucketsIdle
  <1> DEFINE Step ==
        \A k \in Keys, e, c \in Calls :
          /\ partitions[k] # None /\ partitions'[k] # partitions[k]
          /\ pc[e] = "lock" /\ pc'[e] = "allow"
          /\ entry[c] = partitions[k]
          => \E d \in Calls :
                /\ entry[d] = partitions[k]
                /\ EntryTTL <= now[e] - now[c] + (seen[d] - now[d])
  <1>1. Init => PastInv /\ LagInv
    BY DEF Init, PastInv, LagInv
  <1>2. IndInv /\ PastInv /\ LagInv /\ [Next]_vars => PastInv' /\ LagInv'
    BY LagStep
  <1>3. IndInv /\ LagInv /\ [Next]_vars => [Step]_vars
    <2> SUFFICES ASSUME IndInv, LagInv, Next,
                        NEW k \in Keys, NEW e \in Calls, NEW c \in Calls,
                        partitions[k] # None, partitions'[k] # partitions[k],
                        pc[e] = "lock", pc'[e] = "allow",
                        entry[c] = partitions[k]
                 PROVE  \E d \in Calls :
                           /\ entry[d] = partitions[k]
                           /\ EntryTTL <= now[e] - now[c] + (seen[d] - now[d])
      OBVIOUS
    <2>1. partitionForKey(e)
      <3>1. pc \in [Calls -> {"idle", "lock", "allow", "done"}]
        BY DEF IndInv, PartTypeOK
      <3>2. ~Tick /\ ~UNCHANGED vars
        BY DEF Tick, callVars, vars
      <3>3. \A d \in Calls : ~AllowKey(d) /\ ~Allow(d)
        BY DEF AllowKey, Allow, mapVars
      <3>4. ASSUME NEW d \in Calls, partitionForKey(d) PROVE d = e
        BY <3>1, <3>4 DEF partitionForKey
      <3> QED BY <3>2, <3>3, <3>4 DEF Next
    <2>2. k \in Stale(now[e])
      <3>1. ASSUME k \notin Stale(now[e]) PROVE FALSE
        <4>1. Kept(now[e])[k] = partitions[k]
          BY <3>1 DEF Kept
        <4>2. Kept(now[e]) \in [Keys -> Calls \cup {None}]
          BY KeptSubset DEF IndInv
        <4>3. \/ partitions' = Kept(now[e])
              \/ /\ Kept(now[e])[key[e]] = None
                 /\ partitions' = [Kept(now[e]) EXCEPT ![key[e]] = e]
          BY <2>1 DEF partitionForKey
        <4> QED BY <4>1, <4>2, <4>3
      <3> QED BY <3>1
    <2>3. now[e] - lastSeen[k] >= EntryTTL
      BY <2>2 DEF Stale
    <2>4. PICK d \in Calls : /\ entry[d] = partitions[k]
                             /\ lastSeen[k] = now[d]
                             /\ now[c] <= seen[d]
      BY DEF LagInv
    <2>5. /\ now[e] \in Int /\ now[c] \in Int /\ now[d] \in Int /\ seen[d] \in Int
          /\ EntryTTL \in Int
      BY PartitionAssumption DEF IndInv, PartTypeOK
    <2> QED BY <2>3, <2>4, <2>5
  <1>4. Spec => [](PastInv /\ LagInv)
    BY <1>1, <1>2, IndInvariance, PTL DEF Spec
  <1>5. EvictedBucketsIdle <=> [][Step]_vars
    BY DEF EvictedBucketsIdle
  <1> HIDE DEF Step
  <1> QED BY <1>3, <1>4, <1>5, IndInvariance, PTL DEF Spec
=============================================================================
