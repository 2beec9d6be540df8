------------------------- MODULE GRPCPipelineProofs -------------------------
(***************************************************************************)
(* Proofs about GRPCPipeline for any finite number of RPCs, any latencies  *)
(* and any increasing bucket bounds: the counters count every RPC under    *)
(* the code the server sends, a context's own error excepted, a scrape is  *)
(* a true cumulative histogram, and a half-open breaker refuses only while *)
(* one of its trials is inside.                                            *)
(***************************************************************************)
EXTENDS GRPCPipeline, FiniteSetTheorems, WellFoundedInduction, TLAPS

-----------------------------------------------------------------------------
(* The inductive invariant, one part per concern. *)

Counted(k)  == {c \in Calls : reply[c] # None /\ ObservedCode(outcome[c]) = k}
Measured    == {c \in Calls : latency[c] # None}
InBucket(i) == {c \in Measured : BucketOf(latency[c]) = i}
Open        == {c \in Calls : pc[c] \in {"breaker", "serve", "gauge"}}

\* The types the metrics depend on.
CallTypeOK ==
    /\ pc \in [Calls -> {"idle", "breaker", "serve", "gauge", "count", "done"}]
    /\ outcome \in [Calls -> Outcomes \cup {None}]
    /\ reply \in [Calls -> Codes \cup {None}]
    /\ latency \in [Calls -> Latencies \cup {None}]
    /\ MetricsTypeOK

\* An RPC on its way up carries an outcome; it has a reply, and an observed
\* latency, exactly when it is done, and the reply is made of the outcome.
CallInv ==
    \A c \in Calls :
        /\ pc[c] \in {"gauge", "count", "done"} => outcome[c] # None
        /\ reply[c] # None <=> pc[c] = "done"
        /\ latency[c] # None <=> pc[c] = "done"
        /\ pc[c] = "done" => reply[c] = FromContextError(GRPCRecovery(outcome[c]))

\* Gauge, counters and histogram each count a set of RPCs.
CountInv ==
    /\ inFlight = Cardinality(Open)
    /\ \A k \in Codes : requests[k] = Cardinality(Counted(k))
    /\ \A k \in Codes : errors[k] = IF k = "OK" THEN 0 ELSE requests[k]
    /\ durations.count = Cardinality(Measured)
    /\ \A i \in Slots : durations.buckets[i] = Cardinality(InBucket(i))
    /\ durations.count = requests["OK"] + requests["InvalidArgument"]
                            + requests["ResourceExhausted"] + requests["Internal"]
                            + requests["Unavailable"] + requests["Unknown"]
                            + requests["Canceled"]

PipeInv == CallTypeOK /\ CallInv /\ CountInv

-----------------------------------------------------------------------------
(* Induction on the natural numbers, for sets. *)

\* A nonempty set of natural numbers has a least element.
LEMMA NatMin ==
    ASSUME NEW T \in SUBSET Nat, T # {}
    PROVE  \E n \in T : \A m \in T : n <= m
<1> DEFINE R == {ss \in Nat \X Nat : ss[1] < ss[2]}
<1>1. IsWellFoundedOn(R, Nat)
  BY NatLessThanWellFounded DEF OpToRel
<1>2. \A m, n \in Nat : m < n => <<m, n>> \in R
  OBVIOUS
<1> HIDE DEF R
<1>3. PICK n \in T : \A m \in T : ~(<<m, n>> \in R)
  BY <1>1, WFMin
<1>4. \A m \in T : ~(m < n)
  BY <1>2, <1>3
<1> QED
  BY <1>4

\* A set that holds 0 and the successor of each of its numbers holds them all.
LEMMA NatInd ==
    ASSUME NEW P, 0 \in P, \A n \in Nat : n \in P => n + 1 \in P
    PROVE  Nat \subseteq P
<1> DEFINE T == Nat \ P
<1>1. SUFFICES ASSUME T # {} PROVE FALSE
  OBVIOUS
<1>2. PICK n \in T : \A m \in T : n <= m
  BY <1>1, NatMin
<1>3. n # 0 /\ n - 1 \in Nat
  BY <1>2
<1>4. n - 1 \in P
  BY <1>2, <1>3
<1> QED
  BY <1>2, <1>3, <1>4

-----------------------------------------------------------------------------
(* The histogram. *)

\* The bucket bounds increase from any one to any later one.
LEMMA BucketsIncrease ==
    ASSUME NEW i \in 1..Len(Buckets), NEW j \in 1..Len(Buckets), i <= j
    PROVE  Buckets[i] <= Buckets[j]
<1> DEFINE P == {n \in Nat : i + n <= Len(Buckets) => Buckets[i] <= Buckets[i + n]}
<1>1. Buckets \in Seq(Nat) /\ Len(Buckets) \in Nat
  BY BucketsAssumption
<1>2. \A n \in 1..Len(Buckets) : Buckets[n] \in Nat
  BY <1>1
<1>3. 0 \in P
  BY <1>2
<1>4. ASSUME NEW n \in Nat, n \in P PROVE n + 1 \in P
  <2>1. SUFFICES ASSUME i + (n + 1) <= Len(Buckets)
                 PROVE  Buckets[i] <= Buckets[i + (n + 1)]
    OBVIOUS
  <2>2. Buckets[i] <= Buckets[i + n]
    BY <1>1, <1>4, <2>1
  <2>3. i + n \in 1..(Len(Buckets) - 1) /\ (i + n) + 1 = i + (n + 1)
    BY <1>1, <2>1
  <2>4. Buckets[i + n] < Buckets[i + (n + 1)]
    BY <2>3, BucketsAssumption
  <2>5. Buckets[i + n] \in Nat /\ Buckets[i + (n + 1)] \in Nat /\ Buckets[i] \in Nat
    BY <1>1, <1>2, <2>1, <2>3
  <2> QED
    BY <2>2, <2>4, <2>5
<1> HIDE DEF P
<1>5. Nat \subseteq P
  BY <1>3, <1>4, NatInd
<1>6. j - i \in Nat /\ i + (j - i) = j
  BY <1>1
<1>7. j - i \in P
  BY <1>5, <1>6
<1> QED
  BY <1>1, <1>6, <1>7 DEF P

\* The bucket ObserveRPC finds is one of the collector's, and the buckets up to
\* a bound are the ones of the latencies that do not exceed it.
LEMMA BucketBound ==
    ASSUME NEW s \in Nat
    PROVE  /\ BucketOf(s) \in Slots
           /\ \A i \in 1..Len(Buckets) : BucketOf(s) <= i <=> s <= Buckets[i]
<1> DEFINE N == Len(Buckets)
           T == {i \in 1..N : s <= Buckets[i]} \cup {N + 1}
<1>1. N \in Nat /\ \A i \in 1..N : Buckets[i] \in Nat
  BY BucketsAssumption
<1>2. T \in SUBSET Nat /\ T # {}
  BY <1>1
<1>3. \E n \in T : \A m \in T : n <= m
  BY <1>2, NatMin
<1>4. BucketOf(s) \in T /\ \A m \in T : BucketOf(s) <= m
  <2>1. BucketOf(s) = CHOOSE n \in T : \A m \in T : n <= m
    BY DEF BucketOf, Min
  <2> HIDE DEF T
  <2> QED
    BY <1>3, <2>1
<1>5. BucketOf(s) \in Slots
  BY <1>1, <1>4 DEF Slots
<1>6. ASSUME NEW i \in 1..N PROVE BucketOf(s) <= i <=> s <= Buckets[i]
  <2>1. ASSUME s <= Buckets[i] PROVE BucketOf(s) <= i
    BY <1>4, <2>1
  <2>2. ASSUME BucketOf(s) <= i PROVE s <= Buckets[i]
    <3>1. BucketOf(s) \in 1..N /\ s <= Buckets[BucketOf(s)]
      BY <1>1, <1>4, <1>5, <2>2 DEF Slots
    <3>2. Buckets[BucketOf(s)] <= Buckets[i]
      BY <2>2, <3>1, BucketsIncrease
    <3> QED
      BY <1>1, <3>1, <3>2
  <2> QED
    BY <2>1, <2>2
<1> QED
  BY <1>5, <1>6

\* The rendering loop adds one bucket to the running sum per round.
LEMMA CumulativeSum ==
    ASSUME NEW b \in [Slots -> Nat]
    PROVE  /\ Cumulative(b)[0] = 0
           /\ \A i \in Slots : Cumulative(b)[i] = Cumulative(b)[i - 1] + b[i]
<1> DEFINE N == Len(Buckets) + 1
           Round(g, k) == IF k = 0 THEN 0 ELSE g[k - 1] + b[k]
           Sums(k, g) == g = [i \in 0..k |-> Round(g, i)]
           P == {k \in Nat : k <= N => \E g : Sums(k, g)}
<1>1. N \in Nat /\ Slots = 1..N
  BY BucketsAssumption DEF Slots
<1>2. 0 \in P
  <2>1. Sums(0, [i \in 0..0 |-> 0])
    OBVIOUS
  <2> QED
    BY <2>1
<1>3. ASSUME NEW k \in Nat, k \in P PROVE k + 1 \in P
  <2>1. SUFFICES ASSUME k + 1 <= N PROVE \E g : Sums(k + 1, g)
    OBVIOUS
  <2>2. PICK g : Sums(k, g)
    BY <1>1, <1>3, <2>1
  <2> DEFINE h == [i \in 0..(k + 1) |-> IF i = k + 1 THEN g[k] + b[k + 1] ELSE g[i]]
  <2>3. ASSUME NEW i \in 0..(k + 1) PROVE h[i] = Round(h, i)
    <3>1. CASE i = 0
      BY <2>2, <3>1
    <3>2. CASE i \in 1..k
      <4>1. i - 1 \in 0..k /\ i - 1 \in 0..(k + 1) /\ i - 1 # k + 1 /\ i # k + 1
        BY <3>2
      <4>2. h[i] = g[i] /\ h[i - 1] = g[i - 1]
        BY <4>1
      <4>3. g[i] = Round(g, i)
        BY <2>2, <3>2
      <4> QED
        BY <3>2, <4>2, <4>3
    <3>3. CASE i = k + 1
      <4>1. h[k + 1] = g[k] + b[k + 1] /\ h[k] = g[k]
        OBVIOUS
      <4>2. i - 1 = k /\ i # 0
        BY <3>3
      <4> QED
        BY <3>3, <4>1, <4>2
    <3> QED
      BY <3>1, <3>2, <3>3
  <2>4. Sums(k + 1, h)
    BY <2>3
  <2> QED
    BY <2>4
<1>4. N \in P
  <2> HIDE DEF P
  <2> QED
    BY <1>1, <1>2, <1>3, NatInd
<1>5. \E g : Sums(N, g)
  BY <1>1, <1>4
<1>6. Sums(N, Cumulative(b))
  BY <1>5, Zenon DEF Cumulative
<1> HIDE DEF N
<1>7. \A i \in 0..N : Cumulative(b)[i] = Round(Cumulative(b), i)
  BY <1>6
<1> QED
  BY <1>1, <1>7

-----------------------------------------------------------------------------
(* Counting RPCs. *)

\* A set of RPCs is finite, and grows and shrinks by one.
LEMMA CallsCount ==
    ASSUME NEW A \in SUBSET Calls, NEW c \in Calls
    PROVE  /\ IsFiniteSet(A) /\ Cardinality(A) \in Nat
           /\ c \notin A => Cardinality(A \cup {c}) = Cardinality(A) + 1
           /\ c \in A => /\ Cardinality(A \ {c}) = Cardinality(A) - 1
                         /\ Cardinality(A) - 1 \in Nat
<1>1. IsFiniteSet(A)
  BY PipelineAssumption, FS_Subset
<1>2. Cardinality(A) \in Nat
  BY <1>1, FS_CardinalityType
<1>3. IsFiniteSet(A \ {c}) /\ Cardinality(A \ {c}) \in Nat
  BY <1>1, FS_RemoveElement, FS_CardinalityType
<1> QED
  BY <1>1, <1>2, <1>3, FS_AddElement, FS_RemoveElement

-----------------------------------------------------------------------------
(* The inductive invariant. *)

\* PipeInv holds before the first RPC.
LEMMA InitPipe == Init => PipeInv
<1> SUFFICES ASSUME Init PROVE PipeInv
  OBVIOUS
<1>1. CallTypeOK
  <2>1. /\ inFlight \in Nat /\ requests \in [Codes -> Nat] /\ errors \in [Codes -> Nat]
    BY DEF Init, NewGRPCMetrics
  <2>2. durations \in [buckets : [Slots -> Nat], count : Nat]
    BY DEF Init, NewGRPCMetrics
  <2> QED
    BY <2>1, <2>2 DEF Init, CallTypeOK, MetricsTypeOK
<1>2. CallInv
  BY DEF Init, CallInv
<1>3. CountInv
  <2>1. Open = {} /\ Measured = {}
    BY DEF Init, Open, Measured
  <2>2. \A k \in Codes : Counted(k) = {}
    BY PipelineAssumption DEF Init, Counted, Outcomes
  <2>3. \A i \in Slots : InBucket(i) = {}
    BY <2>1 DEF InBucket
  <2>4. Cardinality({}) = 0
    BY FS_EmptySet
  <2>5. /\ \A k \in Codes : requests[k] = 0 /\ errors[k] = 0
        /\ durations.count = 0 /\ \A i \in Slots : durations.buckets[i] = 0
        /\ inFlight = 0
    BY DEF Init, NewGRPCMetrics
  <2>6. durations.count = requests["OK"] + requests["InvalidArgument"]
                             + requests["ResourceExhausted"] + requests["Internal"]
                             + requests["Unavailable"] + requests["Unknown"]
                             + requests["Canceled"]
    BY <2>5 DEF Codes
  <2> QED
    BY <2>1, <2>2, <2>3, <2>4, <2>5, <2>6 DEF CountInv
<1> QED
  BY <1>1, <1>2, <1>3 DEF PipeInv

\* What the layers between the metrics interceptor and the handler do: an RPC
\* goes on, or turns back with an outcome, and stays in flight.
Passes(c) ==
    /\ pc[c] \in {"breaker", "serve"}
    /\ \/ pc' = [pc EXCEPT ![c] = "serve"] /\ UNCHANGED outcome
       \/ /\ pc' = [pc EXCEPT ![c] = "gauge"]
          /\ \E o \in Outcomes : outcome' = [outcome EXCEPT ![c] = o]
    /\ UNCHANGED <<reply, latency, metricsVars>>

\* The breaker, the rate limiter and the handler only do that.
LEMMA LayersPass ==
    ASSUME NEW c \in Calls,
           Admit(c) \/ Refuse(c) \/ RateLimited(c) \/ Handler(c)
    PROVE  Passes(c)
<1> USE DEF Passes, Enter, Unwind, Outcomes, Codes
<1>1. CASE Admit(c)
  BY <1>1 DEF Admit
<1>2. CASE Refuse(c)
  BY <1>2 DEF Refuse
<1>3. ASSUME NEW o \in Outcomes PROVE Result(o) \in Outcomes
  BY <1>3 DEF Result
<1>4. ASSUME NEW o \in Outcomes, ExecuteEnds(c, o)
      PROVE  \E u \in Outcomes : Unwind(c, u)
  <2> HIDE DEF Unwind, Outcomes
  <2> QED
    BY <1>3, <1>4 DEF ExecuteEnds
<1>5. CASE RateLimited(c)
  <2>1. \E u \in Outcomes : Unwind(c, u)
    BY <1>4, <1>5 DEF RateLimited
  <2> QED
    BY <1>5, <2>1 DEF RateLimited
<1>6. CASE Handler(c)
  <2>1. \E u \in Outcomes : Unwind(c, u)
    BY <1>4, <1>6 DEF Handler
  <2> QED
    BY <1>6, <2>1 DEF Handler
<1> QED
  BY <1>1, <1>2, <1>5, <1>6

\* An RPC that passes a layer disturbs nothing that is counted.
LEMMA PassesKeep ==
    ASSUME PipeInv, NEW c \in Calls, Passes(c)
    PROVE  PipeInv'
<1>a. None \notin Outcomes
  BY PipelineAssumption
<1>1. CallTypeOK' /\ CallInv'
  BY <1>a DEF PipeInv, CallTypeOK, CallInv, Passes, metricsVars, MetricsTypeOK
<1>2. Open' = Open
  BY DEF PipeInv, CallTypeOK, Passes, Open
<1>b. reply[c] = None /\ \A x \in Calls : x # c => outcome'[x] = outcome[x]
  BY DEF PipeInv, CallTypeOK, CallInv, Passes
<1>3. Measured' = Measured /\ \A k \in Codes : Counted(k)' = Counted(k)
  BY <1>b DEF Passes, Measured, Counted
<1>4. \A i \in Slots : InBucket(i)' = InBucket(i)
  BY <1>3 DEF Passes, InBucket
<1> QED
  BY <1>1, <1>2, <1>3, <1>4 DEF PipeInv, CountInv, Passes, metricsVars

\* An RPC that arrives is in flight and in the gauge.
LEMMA BeginKeeps ==
    ASSUME PipeInv, NEW c \in Calls, BeginRPC(c)
    PROVE  PipeInv'
<1> USE DEF PipeInv
<1>a. /\ None \notin Outcomes
      /\ pc[c] = "idle"
      /\ inFlight' = inFlight + 1
      /\ UNCHANGED <<reply, latency, requests, errors, durations>>
  BY PipelineAssumption DEF BeginRPC, BeginInFlight
<1>b. \E s \in {"breaker", "serve", "gauge"} :
         /\ pc' = [pc EXCEPT ![c] = s]
         /\ \/ s # "gauge" /\ outcome' = outcome
            \/ \E o \in Outcomes : outcome' = [outcome EXCEPT ![c] = o]
  BY DEF BeginRPC, Enter, Unwind, Outcomes, Codes
<1>1. CallTypeOK' /\ CallInv'
  BY <1>a, <1>b DEF CallTypeOK, CallInv, MetricsTypeOK
<1>2. Open' = Open \cup {c} /\ c \notin Open
  BY <1>a, <1>b DEF CallTypeOK, Open
<1>c. reply[c] = None /\ \A x \in Calls : x # c => outcome'[x] = outcome[x]
  BY <1>a, <1>b DEF CallTypeOK, CallInv
<1>3. Measured' = Measured /\ \A k \in Codes : Counted(k)' = Counted(k)
  BY <1>a, <1>c DEF Measured, Counted
<1>4. \A i \in Slots : InBucket(i)' = InBucket(i)
  BY <1>a, <1>3 DEF InBucket
<1>5. Cardinality(Open') = Cardinality(Open) + 1
  BY <1>2, CallsCount DEF Open
<1> QED
  BY <1>a, <1>1, <1>3, <1>4, <1>5 DEF CountInv

\* The deferred ObserveRPC takes every RPC out of the gauge, panics included.
LEMMA GaugeKeeps ==
    ASSUME PipeInv, NEW c \in Calls, ObserveGauge(c)
    PROVE  PipeInv'
<1> USE DEF PipeInv
<1>a. /\ pc[c] = "gauge"
      /\ pc' = [pc EXCEPT ![c] = "count"]
      /\ inFlight' = inFlight - 1
      /\ UNCHANGED <<outcome, reply, latency, requests, errors, durations>>
  BY DEF ObserveGauge, Lowers, EndInFlight, Enter
<1>1. Open' = Open \ {c} /\ c \in Open
  BY <1>a DEF CallTypeOK, Open
<1>2. Cardinality(Open') = Cardinality(Open) - 1 /\ Cardinality(Open) - 1 \in Nat
  BY <1>1, CallsCount DEF Open
<1>3. CallTypeOK' /\ CallInv'
  BY <1>a, <1>2 DEF CallTypeOK, CallInv, CountInv, MetricsTypeOK
<1>4. Measured' = Measured /\ \A k \in Codes : Counted(k)' = Counted(k)
  BY <1>a DEF Measured, Counted
<1>5. \A i \in Slots : InBucket(i)' = InBucket(i)
  BY <1>a, <1>4 DEF InBucket
<1> QED
  BY <1>a, <1>2, <1>3, <1>4, <1>5 DEF CountInv

\* The counters and the histogram take the RPC in under the code of its reply.
LEMMA CountKeeps ==
    ASSUME PipeInv, NEW c \in Calls, ObserveRPC(c)
    PROVE  PipeInv'
<1> USE DEF PipeInv
<1>a. PICK s \in Latencies :
         /\ Count(ObservedCode(outcome[c]), s)
         /\ latency' = [latency EXCEPT ![c] = s]
  BY DEF ObserveRPC
<1> DEFINE k0 == ObservedCode(outcome[c])
           i0 == BucketOf(s)
<1>b. /\ s \in Nat /\ s # None /\ None \notin Codes
      /\ i0 \in Slots
  BY PipelineAssumption, BucketBound DEF Outcomes
<1> DEFINE r0 == FromContextError(GRPCRecovery(outcome[c]))
<1>c. /\ pc[c] = "count" /\ pc' = [pc EXCEPT ![c] = "done"]
      /\ reply' = [reply EXCEPT ![c] = r0]
      /\ outcome' = outcome
  BY DEF ObserveRPC, Enter
<1>d. k0 \in Codes /\ r0 \in Codes /\ outcome[c] # None
  <2>1. outcome[c] \in Outcomes /\ outcome[c] # None
    BY <1>c DEF CallTypeOK, CallInv
  <2> QED
    BY <2>1 DEF ObservedCode, FromContextError, GRPCRecovery, StatusCode, Outcomes,
       RawErrors, Codes
<1>e. reply[c] = None /\ latency[c] = None
  BY <1>c DEF CallInv
<1> HIDE DEF k0, i0, r0
<1>f. /\ requests' = [requests EXCEPT ![k0] = @ + 1]
      /\ errors' = [errors EXCEPT ![k0] = IF k0 # "OK" THEN @ + 1 ELSE @]
      /\ durations' = [buckets |-> [durations.buckets EXCEPT ![i0] = @ + 1],
                       count   |-> durations.count + 1]
      /\ inFlight' = inFlight
  BY <1>a DEF Count, k0, i0
<1>1. CallTypeOK'
  <2>1. /\ requests' \in [Codes -> Nat] /\ errors' \in [Codes -> Nat]
        /\ inFlight' \in Nat
    BY <1>d, <1>f DEF CallTypeOK, MetricsTypeOK
  <2>2. durations' \in [buckets : [Slots -> Nat], count : Nat]
    BY <1>b, <1>f DEF CallTypeOK, MetricsTypeOK
  <2>3. latency' \in [Calls -> Latencies \cup {None}]
    BY <1>a DEF CallTypeOK
  <2> QED
    BY <1>c, <1>d, <2>1, <2>2, <2>3 DEF CallTypeOK, MetricsTypeOK
<1>2. CallInv'
  BY <1>a, <1>b, <1>c, <1>d DEF CallTypeOK, CallInv, r0
<1>3. Open' = Open
  BY <1>c DEF CallTypeOK, Open
<1>g. \A k \in Codes : Counted(k)' = IF k = k0 THEN Counted(k) \cup {c} ELSE Counted(k)
  BY <1>b, <1>c, <1>d, <1>e DEF Counted, CallTypeOK, k0
<1>4. ASSUME NEW k \in Codes PROVE requests'[k] = Cardinality(Counted(k)')
  <2>1. CASE k = k0
    <3>1. Counted(k)' = Counted(k) \cup {c} /\ c \notin Counted(k)
      BY <1>e, <1>g, <2>1 DEF Counted
    <3>2. Cardinality(Counted(k)') = Cardinality(Counted(k)) + 1
      BY <3>1, CallsCount DEF Counted
    <3> QED
      BY <1>f, <2>1, <3>2 DEF CountInv, CallTypeOK, MetricsTypeOK
  <2>2. CASE k # k0
    <3>1. Counted(k)' = Counted(k)
      BY <1>g, <2>2
    <3> QED
      BY <1>f, <2>2, <3>1 DEF CountInv, CallTypeOK, MetricsTypeOK
  <2> QED
    BY <2>1, <2>2
<1>5. \A k \in Codes : errors'[k] = IF k = "OK" THEN 0 ELSE requests'[k]
  BY <1>d, <1>f DEF CountInv, CallTypeOK, MetricsTypeOK
<1>6. durations'.count = Cardinality(Measured')
  <2>1. Measured' = Measured \cup {c} /\ c \notin Measured
    BY <1>a, <1>b, <1>e DEF Measured, CallTypeOK
  <2>2. Cardinality(Measured') = Cardinality(Measured) + 1
    BY <2>1, CallsCount DEF Measured
  <2> QED
    BY <1>f, <2>2 DEF CountInv
<1>7. ASSUME NEW i \in Slots
      PROVE  durations'.buckets[i] = Cardinality(InBucket(i)')
  <2>1. durations'.buckets[i] = IF i = i0 THEN durations.buckets[i] + 1
                                          ELSE durations.buckets[i]
    BY <1>b, <1>f DEF CallTypeOK, MetricsTypeOK
  <2>2. latency'[c] = s /\ c \notin InBucket(i)
    BY <1>a, <1>e DEF CallTypeOK, InBucket, Measured
  <2>3. \A x \in Calls : x # c => latency'[x] = latency[x]
    BY <1>a DEF CallTypeOK
  <2>4. CASE i = i0
    <3>1. InBucket(i)' = InBucket(i) \cup {c}
      BY <1>b, <2>2, <2>3, <2>4 DEF InBucket, Measured, i0
    <3>2. Cardinality(InBucket(i)') = Cardinality(InBucket(i)) + 1
      BY <2>2, <3>1, CallsCount DEF InBucket, Measured
    <3> QED
      BY <2>1, <2>4, <3>2 DEF CountInv
  <2>5. CASE i # i0
    <3>1. InBucket(i)' = InBucket(i)
      BY <1>b, <2>2, <2>3, <2>5 DEF InBucket, Measured, i0
    <3> QED
      BY <2>1, <2>5, <3>1 DEF CountInv
  <2> QED
    BY <2>4, <2>5
<1>8. durations'.count =
          requests'["OK"] + requests'["InvalidArgument"]
             + requests'["ResourceExhausted"] + requests'["Internal"]
             + requests'["Unavailable"] + requests'["Unknown"]
             + requests'["Canceled"]
  BY <1>d, <1>f DEF CountInv, CallTypeOK, MetricsTypeOK, Codes
<1> QED
  BY <1>f, <1>1, <1>2, <1>3, <1>4, <1>5, <1>6, <1>7, <1>8 DEF CountInv

\* Every step of every RPC, and of the breaker's timers, keeps PipeInv.
LEMMA NextPipe == PipeInv /\ [Next]_vars => PipeInv'
<1>a. SUFFICES ASSUME PipeInv, [Next]_vars PROVE PipeInv'
  OBVIOUS
<1>1. ASSUME NEW c \in Calls, BeginRPC(c) PROVE PipeInv'
  BY <1>a, <1>1, BeginKeeps
<1>2. ASSUME NEW c \in Calls, Step(c) PROVE PipeInv'
  BY <1>a, <1>2, LayersPass, PassesKeep, GaugeKeeps, CountKeeps DEF Step
<1>3. ASSUME UNCHANGED <<rpcVars, metricsVars>> PROVE PipeInv'
  BY <1>a, <1>3 DEF rpcVars, metricsVars, PipeInv, CallTypeOK, MetricsTypeOK,
     CallInv, CountInv, Open, Counted, Measured, InBucket
<1>4. Expire \/ UNCHANGED vars => UNCHANGED <<rpcVars, metricsVars>>
  BY DEF Expire, vars
<1> QED
  BY <1>a, <1>1, <1>2, <1>3, <1>4 DEF Next

\* PipeInv is an invariant of the interceptor chain.
THEOREM PipeInvariance == Spec => []PipeInv
  BY InitPipe, NextPipe, PTL DEF Spec

-----------------------------------------------------------------------------
(* The theorems. *)

\* Where a context's own error comes from when there is a breaker: not from the
\* handler, whose errors the breaker replaces unless they are server failures.
OriginInv ==
    /\ handled \in [Calls -> Outcomes \cup {None}]
    /\ \A c \in Calls :
          /\ pc[c] \in {"idle", "breaker"} => handled[c] = None
          /\ breaker /\ outcome[c] = "context.Canceled" => handled[c] = None

\* OriginInv holds before the first RPC.
LEMMA InitOrigin == Init => OriginInv
  BY DEF Init, OriginInv

\* Every step keeps OriginInv.
LEMMA NextOrigin == CallTypeOK /\ OriginInv /\ [Next]_vars => OriginInv'
<1>a. SUFFICES ASSUME CallTypeOK, OriginInv, [Next]_vars PROVE OriginInv'
  OBVIOUS
<1> USE DEF OriginInv, CallTypeOK
<1>1. ASSUME NEW c \in Calls, BeginRPC(c) \/ Refuse(c) PROVE OriginInv'
  <2>1. /\ UNCHANGED <<breaker, handled>> /\ pc[c] \in {"idle", "breaker"}
        /\ \A x \in Calls : x # c => pc'[x] = pc[x] /\ outcome'[x] = outcome[x]
    BY <1>a, <1>1 DEF BeginRPC, Refuse, Enter, Unwind
  <2> QED
    BY <1>a, <2>1
<1>2. ASSUME NEW c \in Calls, Admit(c) \/ ObserveGauge(c) \/ ObserveRPC(c)
      PROVE  OriginInv'
  <2>1. /\ UNCHANGED <<breaker, handled, outcome>>
        /\ \E s \in {"serve", "count", "done"} : pc' = [pc EXCEPT ![c] = s]
    BY <1>2 DEF Admit, ObserveGauge, ObserveRPC, Enter
  <2> QED
    BY <1>a, <2>1
<1>3. ASSUME NEW c \in Calls, RateLimited(c) \/ Handler(c) PROVE OriginInv'
  <2>1. \A o \in Outcomes : Result(o) # "context.Canceled"
    BY DEF Result, Outcomes, RawErrors, Codes
  <2>2. /\ UNCHANGED breaker
        /\ \E o \in Outcomes : /\ ExecuteEnds(c, o)
                               /\ \/ handled' = handled
                                  \/ handled' = [handled EXCEPT ![c] = o]
    BY <1>3 DEF RateLimited, Handler, Outcomes, RawErrors, Codes
  <2>3. /\ pc' = [pc EXCEPT ![c] = "gauge"]
        /\ \A x \in Calls : x # c => outcome'[x] = outcome[x]
        /\ breaker => outcome'[c] # "context.Canceled"
    BY <1>a, <2>1, <2>2 DEF ExecuteEnds, Unwind, Enter
  <2>4. handled' \in [Calls -> Outcomes \cup {None}] /\ \A x \in Calls : x # c => handled'[x] = handled[x]
    BY <1>a, <2>2
  <2> QED
    BY <1>a, <2>2, <2>3, <2>4
<1>4. CASE UNCHANGED <<breaker, rpcVars>>
  BY <1>a, <1>4 DEF rpcVars
<1>5. Expire \/ UNCHANGED vars => UNCHANGED <<breaker, rpcVars>>
  BY DEF Expire, vars
<1> QED
  BY <1>a, <1>1, <1>2, <1>3, <1>4, <1>5 DEF Next, Step

\* Every RPC is counted exactly once and under the code the server sends, although
\* recovery and the server translate panics and plain errors only after the
\* metrics have; only a context's own error is counted as Unknown and sent as
\* Canceled, and with a breaker it is never the handler's.  The error counter
\* holds exactly the ones that are not OK.
THEOREM RepliesAreCounted == Spec => []CountedAsReplied
<1>1. PipeInv /\ OriginInv => CountedAsReplied
  <2>1. SUFFICES ASSUME PipeInv, OriginInv PROVE CountedAsReplied
    OBVIOUS
  <2> DEFINE Astray == {c \in Calls : reply[c] = "Canceled" /\ outcome[c] = "context.Canceled"}
             Sent(k) == {c \in Calls \ Astray : reply[c] = k} \cup {c \in Astray : k = "Unknown"}
  <2>2. ASSUME NEW k \in Codes, NEW c \in Calls PROVE c \in Counted(k) <=> c \in Sent(k)
    <3>1. CASE reply[c] = None
      BY <3>1, PipelineAssumption DEF Counted, Outcomes, Codes
    <3>2. CASE reply[c] # None
      <4>1. /\ outcome[c] \in Outcomes
            /\ reply[c] = FromContextError(GRPCRecovery(outcome[c]))
        BY <2>1, <3>2 DEF PipeInv, CallInv, CallTypeOK
      <4> QED
        BY <3>2, <4>1 DEF Counted, ObservedCode, FromContextError, GRPCRecovery, StatusCode,
           Outcomes, RawErrors, Codes
    <3> QED
      BY <3>1, <3>2
  <2>3. ASSUME NEW k \in Codes PROVE Counted(k) = Sent(k)
    BY <2>2 DEF Counted
  <2>4. breaker => \A c \in Astray : handled[c] = None
    BY <2>1 DEF OriginInv
  <2> QED
    BY <2>1, <2>3, <2>4 DEF PipeInv, CountInv, CountedAsReplied
<1>2. PipeInv /\ OriginInv /\ [Next]_vars => OriginInv'
  BY NextOrigin DEF PipeInv
<1> QED
  BY <1>1, <1>2, InitOrigin, PipeInvariance, PTL DEF Spec

\* The running sum up to bucket i is the number of RPCs in the buckets up to i.
LEMMA CumulativeCounts ==
    ASSUME PipeInv, NEW i \in 0..(Len(Buckets) + 1)
    PROVE  Cumulative(durations.buckets)[i]
              = Cardinality({c \in Measured : BucketOf(latency[c]) <= i})
<1> DEFINE N == Len(Buckets) + 1
           b == durations.buckets
           UpTo(n) == {c \in Measured : BucketOf(latency[c]) <= n}
           P == {n \in Nat : n <= N => Cumulative(b)[n] = Cardinality(UpTo(n))}
<1>1. N \in Nat /\ Slots = 1..N
  BY BucketsAssumption DEF Slots
<1>2. b \in [Slots -> Nat] /\ \A n \in Slots : b[n] = Cardinality(InBucket(n))
  BY DEF PipeInv, CallTypeOK, MetricsTypeOK, CountInv
<1>3. \A c \in Measured : BucketOf(latency[c]) \in Slots
  BY BucketBound, PipelineAssumption DEF Measured, PipeInv, CallTypeOK
<1>4. 0 \in P
  <2>1. UpTo(0) = {}
    BY <1>1, <1>3
  <2>2. Cumulative(b)[0] = 0
    BY <1>2, CumulativeSum
  <2> QED
    BY <2>1, <2>2, FS_EmptySet
<1>5. ASSUME NEW n \in Nat, n \in P PROVE n + 1 \in P
  <2>1. SUFFICES ASSUME n + 1 <= N
                 PROVE  Cumulative(b)[n + 1] = Cardinality(UpTo(n + 1))
    OBVIOUS
  <2>2. n + 1 \in Slots /\ (n + 1) - 1 = n /\ n <= N
    BY <1>1, <2>1
  <2>3. Cumulative(b)[n + 1] = Cumulative(b)[n] + b[n + 1]
    BY <1>2, <2>2, CumulativeSum
  <2>4. Cumulative(b)[n] = Cardinality(UpTo(n))
    BY <1>5, <2>2
  <2>5. UpTo(n + 1) = UpTo(n) \cup InBucket(n + 1)
    BY <1>1, <1>3, <2>2 DEF InBucket
  <2>6. UpTo(n) \cap InBucket(n + 1) = {}
    BY <1>1, <1>3, <2>2 DEF InBucket
  <2>7. IsFiniteSet(UpTo(n)) /\ IsFiniteSet(InBucket(n + 1))
    BY PipelineAssumption, FS_Subset DEF Measured, InBucket
  <2>8. Cardinality(UpTo(n + 1))
           = Cardinality(UpTo(n)) + Cardinality(InBucket(n + 1)) - 0
    BY <2>5, <2>6, <2>7, FS_Union, FS_EmptySet
  <2>9. Cardinality(UpTo(n)) \in Nat /\ Cardinality(InBucket(n + 1)) \in Nat
    BY <2>7, FS_CardinalityType
  <2> QED
    BY <1>2, <2>2, <2>3, <2>4, <2>8, <2>9
<1> HIDE DEF P
<1>6. i \in P
  BY <1>1, <1>4, <1>5, NatInd
<1> QED
  BY <1>1, <1>6 DEF P

\* A scrape at any moment shows exactly the RPCs in flight, as many observations
\* as requests, and for every upper bound exactly the number of RPCs that took
\* at most that long, whatever panicked and for any buckets.
THEOREM ScrapeIsConsistent == Spec => []ScrapeConsistent
<1>1. PipeInv => ScrapeConsistent
  <2>1. SUFFICES ASSUME PipeInv PROVE ScrapeConsistent
    OBVIOUS
  <2> DEFINE s == AppendPrometheus
             N == Len(Buckets)
  <2>a. N \in Nat
    BY BucketsAssumption
  <2>b. \A c \in Measured : latency[c] \in Nat
    BY <2>1, PipelineAssumption DEF PipeInv, CallTypeOK, Measured
  <2>2. /\ s.inFlight = inFlight /\ s.requests = requests
        /\ s.count = durations.count /\ s.le = Cumulative(durations.buckets)
    BY DEF AppendPrometheus
  <2>3. s.inFlight = Cardinality({c \in Calls : pc[c] \in {"breaker", "serve", "gauge"}})
    BY <2>1, <2>2 DEF PipeInv, CountInv, Open
  <2>4. s.count = s.requests["OK"] + s.requests["InvalidArgument"]
                     + s.requests["ResourceExhausted"] + s.requests["Internal"]
                     + s.requests["Unavailable"] + s.requests["Unknown"]
                     + s.requests["Canceled"]
    BY <2>1, <2>2 DEF PipeInv, CountInv
  <2>5. s.le[N + 1] = s.count
    <3>1. {c \in Measured : BucketOf(latency[c]) <= N + 1} = Measured
      BY <2>a, <2>b, BucketBound, SMTT(30) DEF Slots
    <3>2. N + 1 \in 0..(N + 1)
      BY <2>a
    <3>3. Cumulative(durations.buckets)[N + 1] = Cardinality(Measured)
      BY <2>1, <3>1, <3>2, CumulativeCounts
    <3> QED
      BY <2>1, <2>2, <3>3 DEF PipeInv, CountInv
  <2>6. ASSUME NEW i \in 1..N
        PROVE  s.le[i] = Cardinality({c \in Calls : latency[c] # None /\ latency[c] <= Buckets[i]})
    <3>1. {c \in Measured : BucketOf(latency[c]) <= i}
             = {c \in Calls : latency[c] # None /\ latency[c] <= Buckets[i]}
      BY <2>b, BucketBound DEF Measured
    <3> QED
      BY <2>1, <2>2, <2>a, <3>1, CumulativeCounts
  <2> QED
    BY <2>3, <2>4, <2>5, <2>6 DEF ScrapeConsistent
<1> QED
  BY <1>1, PipeInvariance, PTL

-----------------------------------------------------------------------------
(* The breaker's slots. *)

\* The RPCs that the present generation of the breaker has let in.
Inside == {c \in Calls : pc[c] = "serve" /\ gen[c] = generation}

SlotTypeOK ==
    /\ breaker \in BOOLEAN
    /\ gen \in [Calls -> Nat]
    /\ handled \in [Calls -> Outcomes \cup {None}]
    /\ BreakerTypeOK

\* No RPC is of a later generation, and the slots a half-open breaker has given
\* are taken by RPCs inside or were given back by successes, too few to close it.
SlotInv ==
    /\ breaker => \A c \in Calls : pc[c] = "serve" => gen[c] <= generation
    /\ state = "half-open" =>
          /\ breaker
          /\ counts.requests = Cardinality(Inside) + counts.successes
          /\ counts.successes < MaxRequests

BreakInv == SlotTypeOK /\ SlotInv

\* The breaker's own steps keep its types; the failures never reach TripAfter.
LEMMA BreakerType ==
    ASSUME BreakerTypeOK,
           onRequest \/ BreakerExpire \/ \E g \in Nat, ok \in BOOLEAN : afterRequest(g, ok)
    PROVE  BreakerTypeOK'
<1> USE BreakerAssumption DEF BreakerTypeOK
<1>1. CASE onRequest
  BY <1>1 DEF onRequest
<1>2. CASE BreakerExpire
  BY <1>2 DEF BreakerExpire, setState, NoCounts
<1>3. ASSUME NEW g \in Nat, NEW ok \in BOOLEAN, afterRequest(g, ok) PROVE BreakerTypeOK'
  <2>1. CASE onSuccess /\ UNCHANGED expiries
    <3>1. CASE setState("closed")
      BY <2>1, <3>1 DEF setState, NoCounts
    <3>2. CASE /\ counts' = [counts EXCEPT !.successes = @ + 1, !.failures = 0]
               /\ UNCHANGED <<state, generation>>
      <4>1. 0 \in 0..(TripAfter - 1) /\ counts.successes + 1 \in Nat
        OBVIOUS
      <4> QED
        BY <2>1, <3>2, <4>1
    <3> QED
      BY <2>1, <3>1, <3>2 DEF onSuccess
  <2>2. CASE onFailure /\ UNCHANGED expiries
    <3>1. CASE setState("open")
      BY <2>2, <3>1 DEF setState, NoCounts
    <3>2. CASE /\ counts' = [counts EXCEPT !.failures = @ + 1, !.successes = 0]
               /\ ~(counts.failures + 1 >= TripAfter)
               /\ UNCHANGED <<state, generation>>
      <4>1. counts.failures + 1 \in 0..(TripAfter - 1)
        BY <3>2
      <4> QED
        BY <2>2, <3>2, <4>1
    <3> QED
      BY <2>2, <3>1, <3>2 DEF onFailure, ReadyToTrip
  <2>3. CASE UNCHANGED <<state, generation, counts, expiries>>
    BY <2>3
  <2> QED
    BY <1>3, <2>1, <2>2, <2>3 DEF afterRequest
<1> QED
  BY <1>1, <1>2, <1>3

\* BreakInv holds before the first RPC.
LEMMA InitBreak == Init => BreakInv
<1> SUFFICES ASSUME Init PROVE BreakInv
  OBVIOUS
<1>1. SlotTypeOK
  BY BreakerAssumption DEF Init, BreakerInit, SlotTypeOK, BreakerTypeOK, NoCounts
<1>2. SlotInv
  BY DEF Init, BreakerInit, SlotInv
<1> QED
  BY <1>1, <1>2 DEF BreakInv

\* An RPC leaves the function given to cb.Execute: its slot is given back, or it
\* closes or opens the breaker.
LEMMA ExecuteEndsBreak ==
    ASSUME CallTypeOK, BreakInv, NEW c \in Calls, NEW o \in Outcomes, pc[c] = "serve",
           ExecuteEnds(c, o), UNCHANGED breaker,
           handled' \in [Calls -> Outcomes \cup {None}]
    PROVE  BreakInv'
<1> USE DEF BreakInv
<1>a. /\ pc' = [pc EXCEPT ![c] = "gauge"] /\ gen' = [gen EXCEPT ![c] = 0]
  BY DEF ExecuteEnds, Unwind, Enter
<1>b. /\ gen' \in [Calls -> Nat]
      /\ \A x \in Calls : pc'[x] = "serve" => x # c /\ pc[x] = "serve" /\ gen'[x] = gen[x]
      /\ \A x \in Calls : x # c => pc'[x] = pc[x] /\ gen'[x] = gen[x]
      /\ pc'[c] # "serve"
  BY <1>a DEF CallTypeOK, SlotTypeOK
<1>1. CASE ~breaker
  <2>1. UNCHANGED breakerVars
    BY <1>1 DEF ExecuteEnds
  <2>2. SlotTypeOK'
    BY <1>b, <2>1 DEF SlotTypeOK, BreakerTypeOK, breakerVars
  <2> QED
    BY <1>1, <2>1, <2>2 DEF SlotInv, breakerVars
<1>2. CASE breaker
  <2>1. afterRequest(gen[c], o = "OK")
    BY <1>2 DEF ExecuteEnds, Reported
  <2>2. BreakerTypeOK'
    BY <2>1, BreakerType DEF SlotTypeOK
  <2>3. SlotTypeOK'
    BY <1>b, <2>2 DEF SlotTypeOK
  <2>4. generation \in Nat /\ generation' \in Nat /\ generation <= generation'
    BY <2>1 DEF SlotTypeOK, BreakerTypeOK, afterRequest, onSuccess, onFailure, setState
  <2>5. \A x \in Calls : pc'[x] = "serve" => gen'[x] <= generation'
    BY <1>2, <1>b, <2>4 DEF SlotInv, SlotTypeOK
  <2>6. ASSUME state' = "half-open"
        PROVE  /\ counts'.requests = Cardinality(Inside') + counts'.successes
               /\ counts'.successes < MaxRequests
    <3>1. Inside \in SUBSET Calls
      BY DEF Inside
    <3>2. CASE gen[c] # generation
      <4>1. UNCHANGED <<state, generation, counts>>
        BY <2>1, <3>2 DEF afterRequest
      <4>2. Inside' = Inside
        BY <1>b, <3>2, <4>1 DEF Inside
      <4> QED
        BY <2>6, <4>1, <4>2 DEF SlotInv
    <3>3. CASE gen[c] = generation
      <4>1. /\ state = "half-open" /\ generation' = generation
            /\ ~(counts.successes + 1 >= MaxRequests)
            /\ counts' = [counts EXCEPT !.successes = @ + 1, !.failures = 0]
        BY <2>1, <2>6, <3>3 DEF afterRequest, onSuccess, onFailure, setState
      <4>2. Inside' = Inside \ {c} /\ c \in Inside
        BY <1>b, <3>3, <4>1 DEF Inside
      <4>3. Cardinality(Inside') = Cardinality(Inside) - 1 /\ Cardinality(Inside) \in Nat
        BY <3>1, <4>2, CallsCount
      <4>4. /\ counts'.requests = counts.requests
            /\ counts'.successes = counts.successes + 1
            /\ counts.successes \in Nat /\ counts.requests \in Nat
        BY <4>1 DEF SlotTypeOK, BreakerTypeOK
      <4> QED
        BY <4>1, <4>3, <4>4, BreakerAssumption DEF SlotInv
    <3> QED
      BY <3>2, <3>3
  <2> QED
    BY <1>2, <2>3, <2>5, <2>6 DEF SlotInv
<1> QED
  BY <1>1, <1>2 DEF SlotTypeOK

\* Every step keeps BreakInv.
LEMMA NextBreak == CallTypeOK /\ BreakInv /\ [Next]_vars => BreakInv'
<1>a. SUFFICES ASSUME CallTypeOK, BreakInv, [Next]_vars PROVE BreakInv'
  OBVIOUS
<1> USE DEF BreakInv
<1>1. ASSUME NEW c \in Calls, BeginRPC(c) PROVE BreakInv'
  <2>1. /\ UNCHANGED <<breaker, handled, state, generation, counts, expiries>>
        /\ pc[c] = "idle"
        /\ \/ pc' = [pc EXCEPT ![c] = IF breaker THEN "breaker" ELSE "serve"] /\ gen' = gen
           \/ pc' = [pc EXCEPT ![c] = "gauge"] /\ gen' = [gen EXCEPT ![c] = 0]
    BY <1>1 DEF BeginRPC, Enter, Unwind, breakerVars
  <2>2. SlotTypeOK'
    BY <1>a, <2>1 DEF SlotTypeOK, BreakerTypeOK
  <2>3. breaker => Inside' = Inside
    BY <1>a, <2>1 DEF Inside, CallTypeOK, SlotTypeOK
  <2> QED
    BY <1>a, <2>1, <2>2, <2>3 DEF SlotInv, CallTypeOK, SlotTypeOK
<1>2. ASSUME NEW c \in Calls, Admit(c) PROVE BreakInv'
  <2>1. /\ pc[c] = "breaker" /\ pc' = [pc EXCEPT ![c] = "serve"]
        /\ gen' = [gen EXCEPT ![c] = generation] /\ UNCHANGED <<breaker, handled>>
        /\ counts' = [counts EXCEPT !.requests = @ + 1]
        /\ UNCHANGED <<state, generation, expiries>>
    BY <1>2 DEF Admit, Enter, onRequest
  <2>2. SlotTypeOK'
    BY <1>a, <1>2, <2>1, BreakerType DEF Admit, SlotTypeOK, BreakerTypeOK
  <2>3. Inside' = Inside \cup {c} /\ c \notin Inside /\ Inside \in SUBSET Calls
    BY <1>a, <2>1 DEF Inside, CallTypeOK, SlotTypeOK
  <2>4. Cardinality(Inside') = Cardinality(Inside) + 1 /\ Cardinality(Inside) \in Nat
    BY <2>3, CallsCount
  <2>5. /\ counts'.requests = counts.requests + 1 /\ counts'.successes = counts.successes
        /\ counts.successes \in Nat /\ counts.requests \in Nat /\ generation \in Nat
    BY <1>a, <2>1 DEF SlotTypeOK, BreakerTypeOK
  <2>6. \A x \in Calls : breaker /\ pc'[x] = "serve" => gen'[x] <= generation
    BY <1>a, <2>1, <2>5 DEF SlotInv, CallTypeOK, SlotTypeOK
  <2> QED
    BY <1>a, <2>1, <2>2, <2>4, <2>5, <2>6 DEF SlotInv
<1>3. ASSUME NEW c \in Calls, Refuse(c) \/ ObserveGauge(c) \/ ObserveRPC(c) PROVE BreakInv'
  <2>1. /\ UNCHANGED <<breaker, handled, state, generation, counts, expiries>>
        /\ pc[c] # "serve"
        /\ \E s \in {"gauge", "count", "done"} : pc' = [pc EXCEPT ![c] = s]
        /\ gen' = gen \/ gen' = [gen EXCEPT ![c] = 0]
    BY <1>3 DEF Refuse, ObserveGauge, ObserveRPC, Enter, Unwind, breakerVars
  <2>2. SlotTypeOK'
    BY <1>a, <2>1 DEF SlotTypeOK, BreakerTypeOK
  <2>3. Inside' = Inside
    BY <1>a, <2>1 DEF Inside, CallTypeOK, SlotTypeOK
  <2> QED
    BY <1>a, <2>1, <2>2, <2>3 DEF SlotInv, CallTypeOK, SlotTypeOK
<1>4. ASSUME NEW c \in Calls, RateLimited(c) \/ Handler(c) PROVE BreakInv'
  <2>1. /\ pc[c] = "serve" /\ UNCHANGED breaker
        /\ \E o \in Outcomes : /\ ExecuteEnds(c, o)
                               /\ \/ handled' = handled
                                  \/ handled' = [handled EXCEPT ![c] = o]
    BY <1>4 DEF RateLimited, Handler, Outcomes, Codes
  <2>2. handled' \in [Calls -> Outcomes \cup {None}]
    BY <1>a, <2>1 DEF SlotTypeOK
  <2> QED
    BY <1>a, <2>1, <2>2, ExecuteEndsBreak
<1>5. CASE Expire
  <2>1. breaker /\ BreakerExpire /\ UNCHANGED <<breaker, pc, gen, handled>>
    BY <1>5 DEF Expire, rpcVars
  <2>2. SlotTypeOK'
    BY <1>a, <2>1, BreakerType DEF SlotTypeOK
  <2>3. /\ generation \in Nat /\ generation' = generation + 1
        /\ counts' = [requests |-> 0, successes |-> 0, failures |-> 0]
    BY <1>a, <2>1 DEF BreakerExpire, setState, NoCounts, SlotTypeOK, BreakerTypeOK
  <2>4. \A x \in Calls : pc[x] = "serve" => gen[x] <= generation /\ gen[x] \in Nat
    BY <1>a, <2>1 DEF SlotInv, SlotTypeOK
  <2>5. Inside' = {}
    BY <2>1, <2>3, <2>4 DEF Inside
  <2>6. counts'.requests = 0 /\ counts'.successes = 0 /\ Cardinality({}) = 0
    BY <2>3, FS_EmptySet
  <2> QED
    BY <2>1, <2>2, <2>3, <2>4, <2>5, <2>6, BreakerAssumption DEF SlotInv
<1>6. CASE UNCHANGED vars
  BY <1>a, <1>6 DEF vars, rpcVars, breakerVars, SlotTypeOK, SlotInv, BreakerTypeOK, Inside
<1> QED
  BY <1>a, <1>1, <1>2, <1>3, <1>4, <1>5, <1>6 DEF Next, Step

\* BreakInv is an invariant of the interceptor chain.
THEOREM BreakInvariance == Spec => [](PipeInv /\ BreakInv)
<1>1. PipeInv /\ BreakInv /\ [Next]_vars => BreakInv'
  BY NextBreak DEF PipeInv
<1> QED
  BY <1>1, InitBreak, PipeInvariance, PTL DEF Spec

\* The variables of the interceptor chain keep their types; the consecutive
\* failures of the breaker stay below TripAfter.
THEOREM PipeTypeCorrect == Spec => []PipeTypeOK
<1>1. PipeInv /\ BreakInv => PipeTypeOK
  BY DEF PipeInv, BreakInv, CallTypeOK, SlotTypeOK, PipeTypeOK
<1> QED
  BY <1>1, BreakInvariance, PTL

\* A half-open breaker refuses only while a trial of its generation is inside,
\* for any number of RPCs and slots: no panic, rate limit or late result of an
\* earlier generation leaves a slot taken.
THEOREM RefusalHasTrial == Spec => []RefusesForTrial
<1>1. BreakInv => RefusesForTrial
  <2>1. SUFFICES ASSUME BreakInv, state = "half-open", ~Admits
                 PROVE  \E c \in Calls : pc[c] = "serve" /\ gen[c] = generation
    BY DEF RefusesForTrial
  <2>2. /\ counts.requests \in Nat /\ counts.successes \in Nat /\ MaxRequests \in Nat
        /\ counts.requests = Cardinality(Inside) + counts.successes
        /\ counts.successes < MaxRequests /\ ~(counts.requests < MaxRequests)
    BY <2>1, BreakerAssumption DEF BreakInv, SlotInv, SlotTypeOK, BreakerTypeOK, Admits
  <2>3. Cardinality(Inside) # 0
    BY <2>2
  <2>4. Inside # {}
    BY <2>3, FS_EmptySet
  <2> QED
    BY <2>4 DEF Inside
<1> QED
  BY <1>1, BreakInvariance, PTL
=============================================================================
