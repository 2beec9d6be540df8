----------------------- MODULE PartitionedRateLimiter -----------------------
(***************************************************************************)
(* middleware.PartitionedRateLimiter (go/middleware/                       *)
(* ratelimit_partitioned.go): concurrent calls of AllowKey on a bounded    *)
(* map of token buckets, with stale cleanup and a shared overflow bucket.  *)
(* A call reads the clock, then waits for the limiter's mutex to find its  *)
(* bucket, then waits for the bucket's mutex to take a token; it may be    *)
(* overtaken in between.  A bucket is named after the call that made it.   *)
(***************************************************************************)
EXTENDS TokenBucket, FiniteSets

CONSTANTS
    Calls,              \* calls of AllowKey
    Keys,               \* the keys they may carry
    MaxPartitions,      \* config.MaxPartitions
    EntryTTL,           \* config.EntryTTL, in ticks
    CleanupInterval,    \* config.CleanupInterval, in ticks
    Overflow,           \* the overflow bucket
    None,               \* no partition
    MaxTime             \* bound: the last tick

\* What normalizePartitionedRateLimiterConfig establishes.
ASSUME PartitionAssumption ==
    /\ MaxPartitions \in Nat \ {0}
    /\ EntryTTL \in Nat \ {0}
    /\ CleanupInterval \in 1..EntryTTL
    /\ MaxTime \in Nat
    /\ IsFiniteSet(Keys)
    /\ Overflow \notin Calls
    /\ None \notin Calls \cup {Overflow}

Buckets == Calls \cup {Overflow}

VARIABLES
    clock,          \* monotonic time
    pc,             \* where each call is
    key,            \* the key of each call
    now,            \* the time each call has read
    entry,          \* the bucket each call has been given
    partitions,     \* the bucket of each key, or None
    lastSeen,       \* partitionEntry.lastSeen of each key
    nextCleanup,    \* PartitionedRateLimiter.nextCleanup
    buckets,        \* the buckets, evicted ones included
    seen,           \* history: when each call got the limiter's mutex
    allowed         \* history: when each bucket allowed a request

callVars == <<pc, key, now, entry>>
mapVars  == <<partitions, lastSeen, nextCleanup>>
vars == <<clock, callVars, mapVars, buckets, seen, allowed>>

PartTypeOK ==
    /\ clock \in 0..MaxTime
    /\ pc \in [Calls -> {"idle", "lock", "allow", "done"}]
    /\ key \in [Calls -> Keys \cup {None}]
    /\ now \in [Calls -> 0..MaxTime]
    /\ entry \in [Calls -> Buckets \cup {None}]
    /\ partitions \in [Keys -> Calls \cup {None}]
    /\ lastSeen \in [Keys -> 0..MaxTime]
    /\ nextCleanup \in 1..(MaxTime + CleanupInterval)
    /\ buckets \in [Buckets -> [tokens : 0..Full, last : 0..MaxTime]]
    /\ seen \in [Calls -> 0..MaxTime]
    /\ allowed \in [Buckets -> Seq(0..MaxTime)]

Init ==
    /\ clock = 0
    /\ pc = [c \in Calls |-> "idle"]
    /\ key = [c \in Calls |-> None]
    /\ now = [c \in Calls |-> 0]
    /\ entry = [c \in Calls |-> None]
    /\ partitions = [k \in Keys |-> None]
    /\ lastSeen = [k \in Keys |-> 0]
    /\ nextCleanup = CleanupInterval
    /\ buckets = [b \in Buckets |-> NewBucket(0)]
    /\ seen = [c \in Calls |-> 0]
    /\ allowed = [b \in Buckets |-> <<>>]

-----------------------------------------------------------------------------
Tick ==
    /\ clock < MaxTime
    /\ clock' = clock + 1
    /\ UNCHANGED <<callVars, mapVars, buckets, seen, allowed>>

\* AllowKey: read the clock.  Keys stand for non-empty ones ("global" for "").
AllowKey(c) ==
    /\ pc[c] = "idle"
    /\ \E k \in Keys : key' = [key EXCEPT ![c] = k]
    /\ now' = [now EXCEPT ![c] = clock]
    /\ pc' = [pc EXCEPT ![c] = "lock"]
    /\ UNCHANGED <<clock, entry, mapVars, buckets, seen, allowed>>

\* cleanupStaleLocked: the partitions deleted at time t.
Stale(t) ==
    IF t < nextCleanup THEN {}
    ELSE {k \in Keys : partitions[k] # None /\ t - lastSeen[k] >= EntryTTL}

cleanupStaleLocked(t) ==
    nextCleanup' = IF t < nextCleanup THEN nextCleanup ELSE t + CleanupInterval

\* The partitions left after the cleanup.
Kept(t) == [k \in Keys |-> IF k \in Stale(t) THEN None ELSE partitions[k]]

Partitioned(m) == {k \in Keys : m[k] # None}

\* Mutant: off by one.
RoomFor_offByOne(m) == Cardinality(Partitioned(m)) <= MaxPartitions

\* len(rl.partitions) < rl.maxPartitions
RoomFor(m) == Cardinality(Partitioned(m)) < MaxPartitions

\* Mutant: unseen keys share an existing partition when the map is full.
Spill_shared(m) ==
    IF Partitioned(m) = {} THEN Overflow ELSE m[CHOOSE k \in Partitioned(m) : TRUE]

\* return rl.overflow
Spill(m) == Overflow

\* Mutant: a hit does not refresh lastSeen.
Refreshed_never(k, t) == lastSeen

\* entry.lastSeen = now
Refreshed(k, t) == [lastSeen EXCEPT ![k] = t]

\* partitionForKey, one critical section: clean up, then find the key's
\* partition, make one while there is room, or fall back to the overflow (whose
\* lastSeen nothing reads).
partitionForKey(c) ==
    /\ pc[c] = "lock"
    /\ LET t == now[c]
           k == key[c]
           m == Kept(t)
       IN /\ cleanupStaleLocked(t)
          /\ \/ /\ m[k] # None
                /\ entry' = [entry EXCEPT ![c] = m[k]]
                /\ partitions' = m
                /\ lastSeen' = Refreshed(k, t)
                /\ UNCHANGED buckets
             \/ /\ m[k] = None /\ RoomFor(m)
                /\ entry' = [entry EXCEPT ![c] = c]
                /\ partitions' = [m EXCEPT ![k] = c]
                /\ lastSeen' = [lastSeen EXCEPT ![k] = t]
                /\ buckets' = [buckets EXCEPT ![c] = NewBucket(clock)]
             \/ /\ m[k] = None /\ ~RoomFor(m)
                /\ entry' = [entry EXCEPT ![c] = Spill(m)]
                /\ partitions' = m
                /\ UNCHANGED <<lastSeen, buckets>>
    /\ seen' = [seen EXCEPT ![c] = clock]
    /\ pc' = [pc EXCEPT ![c] = "allow"]
    /\ UNCHANGED <<clock, key, now, allowed>>

\* RateLimiter.Allow on the bucket found, evicted meanwhile or not.
Allow(c) ==
    /\ pc[c] = "allow"
    /\ LET b == entry[c]
       IN /\ buckets' = [buckets EXCEPT ![b] = Taken(@, clock)]
          /\ allowed' = [allowed EXCEPT ![b] = Logged(@, buckets[b], clock)]
    /\ pc' = [pc EXCEPT ![c] = "done"]
    /\ UNCHANGED <<clock, key, now, entry, mapVars, seen>>

Next ==
    \/ Tick
    \/ \E c \in Calls : AllowKey(c) \/ partitionForKey(c) \/ Allow(c)
    \/ clock = MaxTime /\ (\A c \in Calls : pc[c] = "done") /\ UNCHANGED vars

Spec == Init /\ [][Next]_vars

-----------------------------------------------------------------------------
\* The map never holds more partitions than configured, whatever keys arrive.
PartitionsBounded == Cardinality(Partitioned(partitions)) <= MaxPartitions

\* No bucket, the shared overflow bucket and evicted ones included, allows
\* more than its burst plus the refill in any window.
BucketsWithinRate == \A b \in Buckets : WithinRate(allowed[b])

\* Calls with different keys never draw on one partition, not even a call
\* that still holds a bucket evicted meanwhile.
KeysIsolated ==
    \A c \in Calls : entry[c] \in Calls => key[c] = key[entry[c]]

\* A bucket in use is not evicted, up to the time a call waits for the mutex: if
\* call e evicts the bucket of key k, every call that was given the bucket had
\* read the clock EntryTTL before e did, less what some call with it has waited.
\* (A call that is overtaken moves lastSeen back.)
EvictedBucketsIdle ==
    [][\A k \in Keys, e, c \in Calls :
          /\ partitions[k] # None /\ partitions'[k] # partitions[k]
          /\ pc[e] = "lock" /\ pc'[e] = "allow"
          /\ entry[c] = partitions[k]
          => \E d \in Calls :
                /\ entry[d] = partitions[k]
                /\ EntryTTL <= now[e] - now[c] + (seen[d] - now[d])]_vars

=============================================================================
