------------------------- MODULE HTTPPipelineProofs -------------------------
(***************************************************************************)
(* Proofs about HTTPPipeline for any finite number of requests, any        *)
(* configurations, handlers of any length, latencies and increasing bucket *)
(* bounds: counter, log and client agree on a request's status, a scrape   *)
(* shows one state of the collector, and the breaker opens only on         *)
(* failures of the server.                                                 *)
(***************************************************************************)
EXTENDS HTTPPipeline, FiniteSetTheorems, WellFoundedInduction, TLAPS

-----------------------------------------------------------------------------
(* Induction on the natural numbers, for sets. *)

\* A nonempty set of natural numbers has a least element.
LEMMA NatMin ==
    ASSUME NEW T \in SUBSET Nat, T # {}
    PROVE  \E n \in T : \A m \in T : n <= m
<1> DEFINE R == {ss \in Nat \X Nat : ss[1] < ss[2]}
<1>1. IsWellFoundedOn(R, Nat)
  BY NatLessThanWellFounded DEF OpToRel
<1>2. \A m, n \in Nat : m < n => <<m, n>> \in R
  OBVIOUS
<1> HIDE DEF R
<1>3. PICK n \in T : \A m \in T : ~(<<m, n>> \in R)
  BY <1>1, WFMin
<1>4. \A m \in T : ~(m < n)
  BY <1>2, <1>3
<1> QED
  BY <1>4

\* A set that holds 0 and the successor of each of its numbers holds them all.
LEMMA NatInd ==
    ASSUME NEW P, 0 \in P, \A n \in Nat : n \in P => n + 1 \in P
    PROVE  Nat \subseteq P
<1> DEFINE T == Nat \ P
<1>1. SUFFICES ASSUME T # {} PROVE FALSE
  OBVIOUS
<1>2. PICK n \in T : \A m \in T : n <= m
  BY <1>1, NatMin
<1>3. n # 0 /\ n - 1 \in Nat
  BY <1>2
<1>4. n - 1 \in P
  BY <1>2, <1>3
<1> QED
  BY <1>2, <1>3, <1>4

-----------------------------------------------------------------------------
(* The histogram. *)

\* The bucket bounds increase from any one to any later one.
LEMMA BucketsIncrease ==
    ASSUME NEW i \in 1..Len(Buckets), NEW j \in 1..Len(Buckets), i <= j
    PROVE  Buckets[i] <= Buckets[j]
<1> DEFINE P == {n \in Nat : i + n <= Len(Buckets) => Buckets[i] <= Buckets[i + n]}
<1>1. Buckets \in Seq(Nat) /\ Len(Buckets) \in Nat
  BY BucketsAssumption
<1>2. \A n \in 1..Len(Buckets) : Buckets[n] \in Nat
  BY <1>1
<1>3. 0 \in P
  BY <1>2
<1>4. ASSUME NEW n \in Nat, n \in P PROVE n + 1 \in P
  <2>1. SUFFICES ASSUME i + (n + 1) <= Len(Buckets)
                 PROVE  Buckets[i] <= Buckets[i + (n + 1)]
    OBVIOUS
  <2>2. Buckets[i] <= Buckets[i + n]
    BY <1>1, <1>4, <2>1
  <2>3. i + n \in 1..(Len(Buckets) - 1) /\ (i + n) + 1 = i + (n + 1)
    BY <1>1, <2>1
  <2>4. Buckets[i + n] < Buckets[i + (n + 1)]
    BY <2>3, BucketsAssumption
  <2>5. Buckets[i + n] \in Nat /\ Buckets[i + (n + 1)] \in Nat /\ Buckets[i] \in Nat
    BY <1>1, <1>2, <2>1, <2>3
  <2> QED
    BY <2>2, <2>4, <2>5
<1> HIDE DEF P
<1>5. Nat \subseteq P
  BY <1>3, <1>4, NatInd
<1>6. j - i \in Nat /\ i + (j - i) = j
  BY <1>1
<1>7. j - i \in P
  BY <1>5, <1>6
<1> QED
  BY <1>1, <1>6, <1>7 DEF P

\* The bucket observe finds is one of the collector's, and the buckets up to
\* a bound are the ones of the latencies that do not exceed it.
LEMMA BucketBound ==
    ASSUME NEW s \in Nat
    PROVE  /\ BucketOf(s) \in Slots
           /\ \A i \in 1..Len(Buckets) : BucketOf(s) <= i <=> s <= Buckets[i]
<1> DEFINE N == Len(Buckets)
           T == {i \in 1..N : s <= Buckets[i]} \cup {N + 1}
<1>1. N \in Nat /\ \A i \in 1..N : Buckets[i] \in Nat
  BY BucketsAssumption
<1>2. T \in SUBSET Nat /\ T # {}
  BY <1>1
<1>3. \E n \in T : \A m \in T : n <= m
  BY <1>2, NatMin
<1>4. BucketOf(s) \in T /\ \A m \in T : BucketOf(s) <= m
  <2>1. BucketOf(s) = CHOOSE n \in T : \A m \in T : n <= m
    BY DEF BucketOf, Min
  <2> HIDE DEF T
  <2> QED
    BY <1>3, <2>1
<1>5. BucketOf(s) \in Slots
  BY <1>1, <1>4 DEF Slots
<1>6. ASSUME NEW i \in 1..N PROVE BucketOf(s) <= i <=> s <= Buckets[i]
  <2>1. ASSUME s <= Buckets[i] PROVE BucketOf(s) <= i
    BY <1>4, <2>1
  <2>2. ASSUME BucketOf(s) <= i PROVE s <= Buckets[i]
    <3>1. BucketOf(s) \in 1..N /\ s <= Buckets[BucketOf(s)]
      BY <1>1, <1>4, <1>5, <2>2 DEF Slots
    <3>2. Buckets[BucketOf(s)] <= Buckets[i]
      BY <2>2, <3>1, BucketsIncrease
    <3> QED
      BY <1>1, <3>1, <3>2
  <2> QED
    BY <2>1, <2>2
<1> QED
  BY <1>5, <1>6

\* The rendering loop adds one bucket to the running sum per round.
LEMMA CumulativeSum ==
    ASSUME NEW b \in [Slots -> Nat]
    PROVE  /\ Cumulative(b)[0] = 0
           /\ \A i \in Slots : Cumulative(b)[i] = Cumulative(b)[i - 1] + b[i]
<1> DEFINE N == Len(Buckets) + 1
           Round(g, k) == IF k = 0 THEN 0 ELSE g[k - 1] + b[k]
           Sums(k, g) == g = [i \in 0..k |-> Round(g, i)]
           P == {k \in Nat : k <= N => \E g : Sums(k, g)}
<1>1. N \in Nat /\ Slots = 1..N
  BY BucketsAssumption DEF Slots
<1>2. 0 \in P
  <2>1. Sums(0, [i \in 0..0 |-> 0])
    OBVIOUS
  <2> QED
    BY <2>1
<1>3. ASSUME NEW k \in Nat, k \in P PROVE k + 1 \in P
  <2>1. SUFFICES ASSUME k + 1 <= N PROVE \E g : Sums(k + 1, g)
    OBVIOUS
  <2>2. PICK g : Sums(k, g)
    BY <1>1, <1>3, <2>1
  <2> DEFINE h == [i \in 0..(k + 1) |-> IF i = k + 1 THEN g[k] + b[k + 1] ELSE g[i]]
  <2>3. ASSUME NEW i \in 0..(k + 1) PROVE h[i] = Round(h, i)
    <3>1. CASE i = 0
      BY <2>2, <3>1
    <3>2. CASE i \in 1..k
      <4>1. i - 1 \in 0..k /\ i - 1 \in 0..(k + 1) /\ i - 1 # k + 1 /\ i # k + 1
        BY <3>2
      <4>2. h[i] = g[i] /\ h[i - 1] = g[i - 1]
        BY <4>1
      <4>3. g[i] = Round(g, i)
        BY <2>2, <3>2
      <4> QED
        BY <3>2, <4>2, <4>3
    <3>3. CASE i = k + 1
      <4>1. h[k + 1] = g[k] + b[k + 1] /\ h[k] = g[k]
        OBVIOUS
      <4>2. i - 1 = k /\ i # 0
        BY <3>3
      <4> QED
        BY <3>3, <4>1, <4>2
    <3> QED
      BY <3>1, <3>2, <3>3
  <2>4. Sums(k + 1, h)
    BY <2>3
  <2> QED
    BY <2>4
<1>4. N \in P
  <2> HIDE DEF P
  <2> QED
    BY <1>1, <1>2, <1>3, NatInd
<1>5. \E g : Sums(N, g)
  BY <1>1, <1>4
<1>6. Sums(N, Cumulative(b))
  BY <1>5, Zenon DEF Cumulative
<1> HIDE DEF N
<1>7. \A i \in 0..N : Cumulative(b)[i] = Round(Cumulative(b), i)
  BY <1>6
<1> QED
  BY <1>1, <1>7

-----------------------------------------------------------------------------
(* The ResponseWriters. *)

\* The statuses of this program: the ones of handlers, layers and net/http; the
\* final ones end a response, 103 is informational and 0 is none.
Finals   == {200, 204, 307, 404, 413, 429, 500, 503}
Statuses == Finals \cup {0, 103}

WriterStates == [Writers -> Statuses]

\* The writers of on from i outward agree: none has a status, or all have the
\* same final one.
Uniform(w, on, i) ==
    \E c \in Finals \cup {0} : \A j \in on : i <= j => w[j] = c

\* They stand for the same final status, although some may have noted none.
Agreed(w, on, i) ==
    \E c \in Finals : \A j \in on : i <= j => StatusOf(w[j]) = c

\* Writers with the same status stand for the same one.
LEMMA UniformAgreed ==
    ASSUME NEW w, NEW on, NEW i, Uniform(w, on, i)
    PROVE  Agreed(w, on, i)
  BY DEF Uniform, Agreed, StatusOf, Finals

\* A call on a ResponseWriter leaves statuses.
LEMMA TouchType ==
    ASSUME NEW w \in WriterStates, NEW on, NEW i, NEW o, o.code \in Statuses
    PROVE  Touch(w, on, i, o) \in WriterStates
  BY DEF Touch, WriterStates

\* A first final header or write reaches every writer around it.
LEMMA TouchFirst ==
    ASSUME NEW w \in WriterStates, NEW on \in SUBSET Writers, NEW i \in Writers,
           NEW o, o.op \in {"WriteHeader", "Write"}, o.code \in Finals,
           \A j \in on : i <= j => w[j] = 0
    PROVE  \A j \in on : i <= j => Touch(w, on, i, o)[j] = o.code
<1>1. Writers \subseteq Nat /\ o.code >= 200
  BY DEF Writers, Breaker, NetHTTP, Finals
<1>2. ASSUME NEW j \in on, i <= j PROVE j \in Notes(w, on, i, o)
  BY <1>2 DEF Notes
<1>3. ASSUME NEW j \in on, i <= j PROVE Touch(w, on, i, o)[j] = o.code
  <2>1. ~(o.code < 200)
    BY DEF Finals
  <2> QED
    BY <1>2, <1>3, <2>1 DEF Touch
<1> QED
  BY <1>3

\* After that no call changes anything.
LEMMA TouchKeeps ==
    ASSUME NEW w \in WriterStates, NEW on \in SUBSET Writers, NEW i \in Writers,
           NEW o, \A j \in on : i <= j => w[j] # 0
    PROVE  Touch(w, on, i, o) = w
<1>1. Notes(w, on, i, o) = {}
  BY DEF Notes
<1> QED
  BY <1>1 DEF Touch, WriterStates

\* A status given by a layer and its body make the writers around it agree.
LEMMA ErrorUniform ==
    ASSUME NEW w \in WriterStates, NEW on \in SUBSET Writers, NEW i \in Writers,
           NEW code \in Finals, Uniform(w, on, i)
    PROVE  /\ writeJSONError(w, on, i, code) \in WriterStates
           /\ Uniform(writeJSONError(w, on, i, code), on, i)
<1> DEFINE o == [op |-> "WriteHeader", code |-> code]
           b == [op |-> "Write", code |-> 200]
           v == Touch(w, on, i, o)
<1>1. v \in WriterStates /\ writeJSONError(w, on, i, code) \in WriterStates
  BY TouchType DEF writeJSONError, Statuses, Finals
<1>2. \E c \in Finals : \A j \in on : i <= j => v[j] = c
  <2>1. PICK c \in Finals \cup {0} : \A j \in on : i <= j => w[j] = c
    BY DEF Uniform
  <2>2. CASE c = 0
    BY <2>1, <2>2, TouchFirst
  <2>3. CASE c # 0
    BY <2>1, <2>3, TouchKeeps
  <2> QED
    BY <2>2, <2>3
<1>3. Touch(v, on, i, b) = v
  <2> HIDE DEF v, b
  <2>1. \A j \in on : i <= j => v[j] # 0
    BY <1>2 DEF Finals
  <2> QED
    BY <1>1, <2>1, TouchKeeps
<1> QED
  BY <1>1, <1>2, <1>3 DEF writeJSONError, Uniform

\* w[i] is what the first i calls of a handler leave.
WrittenBy(w, on, ops) ==
    /\ w[0] = Unwritten
    /\ \A i \in 1..Len(ops) : w[i] = Touch(w[i - 1], on, Breaker, ops[i])

\* The calls of a handler take effect one by one.
LEMMA WrittenStep ==
    ASSUME NEW on, NEW ops, Len(ops) \in Nat
    PROVE  \E w : Written(on, ops) = w[Len(ops)] /\ WrittenBy(w, on, ops)
<1> DEFINE N == Len(ops)
           Call(g, k) == IF k = 0 THEN Unwritten ELSE Touch(g[k - 1], on, Breaker, ops[k])
           Calling(k, g) == g = [i \in 0..k |-> Call(g, i)]
           P == {k \in Nat : k <= N => \E g : Calling(k, g)}
<1>1. 0 \in P
  <2>1. Calling(0, [i \in 0..0 |-> Unwritten])
    OBVIOUS
  <2> QED
    BY <2>1
<1>2. ASSUME NEW k \in Nat, k \in P PROVE k + 1 \in P
  <2>1. SUFFICES ASSUME k + 1 <= N PROVE \E g : Calling(k + 1, g)
    OBVIOUS
  <2>2. PICK g : Calling(k, g)
    BY <1>2, <2>1
  <2> DEFINE h == [i \in 0..(k + 1) |->
                     IF i = k + 1 THEN Touch(g[k], on, Breaker, ops[k + 1]) ELSE g[i]]
  <2>3. ASSUME NEW i \in 0..(k + 1) PROVE h[i] = Call(h, i)
    <3>1. CASE i = 0
      BY <2>2, <3>1
    <3>2. CASE i \in 1..k
      <4>1. i - 1 \in 0..k /\ i - 1 \in 0..(k + 1) /\ i - 1 # k + 1 /\ i # k + 1
        BY <3>2
      <4>2. h[i] = g[i] /\ h[i - 1] = g[i - 1]
        BY <4>1
      <4>3. g[i] = Call(g, i)
        BY <2>2, <3>2
      <4> QED
        BY <3>2, <4>2, <4>3
    <3>3. CASE i = k + 1
      <4>1. h[k + 1] = Touch(g[k], on, Breaker, ops[k + 1]) /\ h[k] = g[k]
        OBVIOUS
      <4>2. i - 1 = k /\ i # 0
        BY <3>3
      <4> QED
        BY <3>3, <4>1, <4>2
    <3> QED
      BY <3>1, <3>2, <3>3
  <2>4. Calling(k + 1, h)
    BY <2>3
  <2> QED
    BY <2>4
<1>3. N \in P
  <2> HIDE DEF P
  <2> QED
    BY <1>1, <1>2, NatInd
<1>4. \E g : Calling(N, g)
  BY <1>3
<1> DEFINE w == CHOOSE g : Calling(N, g)
<1>5. Calling(N, w) /\ Written(on, ops) = w[N]
  BY <1>4, Zenon DEF Written
<1> HIDE DEF w
<1>6. \A i \in 0..N : w[i] = Call(w, i)
  BY <1>5
<1>7. WrittenBy(w, on, ops)
  BY <1>6 DEF WrittenBy
<1> QED
  BY <1>5, <1>7

\* A handler that begins with a final status, or makes no call, leaves all
\* writers around it with the same one, whatever it does afterwards.  One that
\* streams and sets no status leaves them with 200 or nothing.
LEMMA WrittenUniform ==
    ASSUME NEW on \in SUBSET Writers, NEW n \in Nat, NEW ops \in [1..n -> Op]
    PROVE  /\ Written(on, ops) \in WriterStates
           /\ \/ ops # <<>> /\ (ops[1].op \in {"ReadFrom", "Flush"} \/ ops[1].code < 200)
              \/ Uniform(Written(on, ops), on, Breaker)
           /\ \/ \E i \in 1..n : ops[i].op = "WriteHeader"
              \/ Agreed(Written(on, ops), on, Breaker)
<1>1. Len(ops) = n /\ Len(ops) \in Nat
  OBVIOUS
<1>w. PICK w : Written(on, ops) = w[Len(ops)] /\ WrittenBy(w, on, ops)
  BY <1>1, WrittenStep, Zenon
<1>2. /\ Written(on, ops) = w[n]
      /\ w[0] = Unwritten
      /\ \A i \in 1..n : w[i] = Touch(w[i - 1], on, Breaker, ops[i])
  BY <1>w, <1>1, Zenon DEF WrittenBy
<1>3. \A i \in 1..n : ops[i].code \in Statuses
  BY DEF Op, Statuses, Finals
<1>4. Nat \subseteq {i \in Nat : i <= n => w[i] \in WriterStates}
  <2> DEFINE P == {i \in Nat : i <= n => w[i] \in WriterStates}
  <2>1. 0 \in P
    BY <1>2 DEF Unwritten, WriterStates, Statuses
  <2>2. ASSUME NEW i \in Nat, i \in P PROVE i + 1 \in P
    <3>1. SUFFICES ASSUME i + 1 <= n PROVE w[i + 1] \in WriterStates
      OBVIOUS
    <3>2. w[i] \in WriterStates /\ i + 1 \in 1..n /\ (i + 1) - 1 = i
      BY <2>2, <3>1
    <3>3. w[i + 1] = Touch(w[i], on, Breaker, ops[i + 1])
      BY <1>2, <3>2
    <3> QED
      BY <1>3, <3>2, <3>3, TouchType
  <2> HIDE DEF P
  <2>3. Nat \subseteq P
    BY <2>1, <2>2, NatInd
  <2> QED
    BY <2>3 DEF P
<1>5. Written(on, ops) \in WriterStates
  BY <1>2, <1>4
<1>6. ASSUME n = 0 PROVE Uniform(Written(on, ops), on, Breaker)
  <2>1. \A j \in on : Written(on, ops)[j] = 0
    BY <1>2, <1>6 DEF Unwritten
  <2> QED
    BY <1>5, <2>1 DEF Uniform
<1>7. ASSUME n > 0, ops[1].op \notin {"ReadFrom", "Flush"}, ~(ops[1].code < 200)
      PROVE  Uniform(Written(on, ops), on, Breaker)
  <2>1. 1 \in 1..n
    BY <1>7
  <2>3. ops[1].op \in {"WriteHeader", "Write"} /\ ops[1].code \in Finals
    <3>1. ops[1] \in Op
      BY <2>1
    <3> QED
      BY <1>7, <3>1 DEF Op, Finals
  <2>4. \A j \in on : Breaker <= j => w[1][j] = ops[1].code
    <3>1. w[1] = Touch(Unwritten, on, Breaker, ops[1])
      BY <1>2, <2>1
    <3>2. Unwritten \in WriterStates /\ \A j \in on : Unwritten[j] = 0
      BY DEF Unwritten, WriterStates, Statuses
    <3>3. Breaker \in Writers
      BY DEF Writers, Breaker, NetHTTP
    <3> QED
      BY <2>3, <3>1, <3>2, <3>3, TouchFirst
  <2> DEFINE P == {i \in Nat : i + 1 <= n => w[i + 1] = w[1]}
  <2>5. 0 \in P
    OBVIOUS
  <2>6. ASSUME NEW i \in Nat, i \in P PROVE i + 1 \in P
    <3>1. SUFFICES ASSUME (i + 1) + 1 <= n PROVE w[(i + 1) + 1] = w[1]
      OBVIOUS
    <3>2. w[i + 1] = w[1] /\ (i + 1) + 1 \in 1..n /\ ((i + 1) + 1) - 1 = i + 1
      BY <2>6, <3>1
    <3>3. w[(i + 1) + 1] = Touch(w[1], on, Breaker, ops[(i + 1) + 1])
      BY <1>2, <3>2
    <3>4. w[1] \in WriterStates /\ Breaker \in Writers /\ ops[1].code # 0
      BY <1>4, <1>7, <2>3 DEF Finals, Writers, Breaker, NetHTTP
    <3> QED
      BY <2>4, <3>3, <3>4, TouchKeeps
  <2> HIDE DEF P
  <2>7. n - 1 \in Nat /\ Nat \subseteq P
    BY <1>7, <2>5, <2>6, NatInd
  <2>8. w[n] = w[1]
    <3>1. n - 1 \in P /\ (n - 1) + 1 = n
      BY <2>7
    <3> QED
      BY <3>1 DEF P
  <2> QED
    BY <1>2, <2>3, <2>4, <2>8 DEF Uniform
<1>8. ASSUME \A i \in 1..n : ops[i].op # "WriteHeader"
      PROVE  Agreed(Written(on, ops), on, Breaker)
  <2>1. \A i \in 1..n : ops[i].code = 200
    BY <1>8 DEF Op
  <2> DEFINE P == {i \in Nat : i <= n => \A j \in Writers : w[i][j] \in {0, 200}}
  <2>2. 0 \in P
    BY <1>2 DEF Unwritten
  <2>3. ASSUME NEW i \in Nat, i \in P PROVE i + 1 \in P
    <3>1. SUFFICES ASSUME i + 1 <= n, NEW j \in Writers PROVE w[i + 1][j] \in {0, 200}
      OBVIOUS
    <3>2. w[i][j] \in {0, 200} /\ i + 1 \in 1..n /\ (i + 1) - 1 = i
      BY <2>3, <3>1
    <3>3. w[i + 1] = Touch(w[i], on, Breaker, ops[i + 1]) /\ ops[i + 1].code = 200
      BY <1>2, <2>1, <3>2
    <3> QED
      BY <3>2, <3>3 DEF Touch
  <2> HIDE DEF P
  <2>4. n \in P
    BY <2>2, <2>3, NatInd
  <2>5. \A j \in on : StatusOf(w[n][j]) = 200
    BY <2>4 DEF P, StatusOf
  <2> QED
    BY <1>2, <2>5 DEF Agreed, Finals
<1>9. n > 0 => ops # <<>>
  BY <1>1
<1> QED
  BY <1>5, <1>6, <1>7, <1>8, <1>9

-----------------------------------------------------------------------------
(* The inductive invariant. *)

\* The status that is on record for request r: the one its client got or, when
\* the connection was cut, the one that was lost, and 500 if there was none.
Seen(r) ==
    IF response[r] # 0 THEN response[r] ELSE IF noted[r] # 0 THEN noted[r] ELSE 500

\* The requests that have been counted, and the ones that are in the gauge.
AllCounted == {r \in Requests : observed[r].code # 0}
Gauged     == {r \in Requests : InFlight(r) /\ Counts(path[r])}

RequestTypeOK ==
    /\ config \in Configs
    /\ path \in [Requests -> Paths]
    /\ pc \in [Requests -> {"idle", "probe", "scrape", "clone", "load", "collect",
                            "breaker", "serve", "observe", "gauge", "done"}]
    /\ noted \in [Requests -> Statuses]
    /\ logged \in [Requests -> Statuses]
    /\ response \in [Requests -> Statuses]
    /\ panicked \in [Requests -> BOOLEAN]
    /\ behind \in [Requests -> BOOLEAN]
    /\ observed \in [Requests -> [code : Statuses, seconds : Nat]]

\* The system routes are not counted, and a request is observed once, on its way
\* out, if it is counted.
RouteInv ==
    \A r \in Requests :
        /\ pc[r] \in {"probe", "scrape", "clone", "load", "collect"} => path[r] \in systemPaths
        /\ pc[r] \in {"observe", "gauge"} => Counts(path[r])
        /\ observed[r].code # 0 <=> pc[r] = "gauge" \/ (pc[r] = "done" /\ Counts(path[r]))

\* What will be observed and what has been is what is on record, and what is logged
\* is what the client got.
AgreeInv ==
    \A r \in Requests : ~behind[r] =>
        /\ pc[r] = "observe" => ObservedStatus(r) = Seen(r)
        /\ observed[r].code # 0 => observed[r].code = Seen(r)
        /\ logged[r] # 0 => logged[r] = response[r]

RequestInv == RequestTypeOK /\ RouteInv /\ AgreeInv

\* The counted requests of label l in D that fell into bucket i, or into one up to i.
InBucket(l, i, D) == {r \in Counted(l) \cap D : BucketOf(observed[r].seconds) = i}
UpTo(l, i, D)     == {r \in Counted(l) \cap D : BucketOf(observed[r].seconds) <= i}

\* Counters and histogram show exactly the requests D.
Shows(req, err, dur, D) ==
    /\ req \in Counters /\ err \in Counters /\ dur \in Histogram
    /\ \A l \in Labels :
          /\ \A k \in Classes : /\ req[l][k] = Cardinality(CountedAs(l, k) \cap D)
                                /\ err[l][k] = IF k >= 4 THEN req[l][k] ELSE 0
          /\ dur[l].count = req[l][1] + req[l][2] + req[l][3] + req[l][4] + req[l][5]
          /\ dur[l].count = Cardinality(Counted(l) \cap D)
          /\ \A i \in Slots : dur[l].buckets[i] = Cardinality(InBucket(l, i, D))

\* Page t shows exactly the requests D.
Renders(t, D) ==
    \A l \in Labels :
       /\ \A k \in Classes : /\ t.requests[l][k] = Cardinality(CountedAs(l, k) \cap D)
                             /\ t.errors[l][k] = IF k >= 4 THEN t.requests[l][k] ELSE 0
       /\ t.count[l] = t.requests[l][1] + t.requests[l][2] + t.requests[l][3]
                          + t.requests[l][4] + t.requests[l][5]
       /\ t.le[l][Len(Buckets) + 1] = t.count[l]
       /\ \A i \in 1..Len(Buckets) :
             t.le[l][i] = Cardinality(CountedIn(l, Buckets[i]) \cap D)

\* The collector shows all requests that have been counted, and the gauge the
\* ones that are in flight.
CountInv ==
    /\ Shows(requests, errors, durations, AllCounted)
    /\ inFlight = Cardinality(Gauged)

\* What was over when scrape s came has been counted, and what was in flight then
\* is still, or is over.
PastInv(s) ==
    /\ past[s].over \subseteq AllCounted
    /\ \A r \in past[s].open : (InFlight(r) \/ pc[r] = "done") /\ Counts(path[r])

\* A scrape holds its clone, and then its page, of some moment since it came.
SnapInv(s) ==
    /\ s \in DOMAIN snapshot <=> pc[s] = "load"
    /\ pc[s] = "load" =>
          \E D \in SUBSET AllCounted :
             /\ past[s].over \subseteq D
             /\ Shows(snapshot[s].requests, snapshot[s].errors, snapshot[s].durations, D)

TextInv(s) ==
    /\ s \in DOMAIN text <=> pc[s] = "collect"
    /\ pc[s] = "collect" =>
          /\ text[s].inFlight \in Nat
          /\ Cardinality({r \in past[s].open : InFlight(r)}) <= text[s].inFlight
          /\ \E D \in SUBSET AllCounted :
                past[s].over \subseteq D /\ Renders(text[s], D)

ScrapeInv ==
    /\ past \in [Requests -> [over : SUBSET Requests, open : SUBSET Requests]]
    /\ DOMAIN snapshot \subseteq Requests /\ DOMAIN text \subseteq Requests
    /\ \A s \in Requests : PastInv(s) /\ SnapInv(s) /\ TextInv(s)

HTTPInv == RequestInv /\ CountInv /\ ScrapeInv

-----------------------------------------------------------------------------
(* The assembly. *)

\* The paths of the system routes are not counted, and a counted path has a label.
LEMMA CountedPaths ==
    ASSUME NEW p \in Paths
    PROVE  /\ p \in systemPaths => ~Counts(p)
           /\ Counts(p) => PathLabel(p) \in Labels
<1> USE DEF Counts, PathLabel, Ignored, HealthPaths, MetricsPath, APIPaths
<1>1. p \in systemPaths => ~Counts(p)
  BY DEF systemPaths
<1>2. Counts(p) => p \in Paths \ Ignored
  OBVIOUS
<1>3. Labels = {PathLabel(q) : q \in Paths \ Ignored}
  BY PipelineAssumption
<1>4. Counts(p) => PathLabel(p) \in Labels
  BY <1>2, <1>3 DEF Paths
<1> QED
  BY <1>1, <1>4

\* The writers around a request: net/http always, and each layer that is there.
LEMMA WrappedBy ==
    ASSUME NEW p
    PROVE  /\ Wrapped(p) \in SUBSET Writers
           /\ NetHTTP \in Wrapped(p)
           /\ Counts(p) => Metrics \in Wrapped(p)
           /\ config.preset => Logging \in Wrapped(p)
           /\ HasBreaker(p) => Breaker \in Wrapped(p)
  BY DEF Wrapped, Writers, Breaker, Logging, Metrics, NetHTTP

\* A status a layer gives leaves the writers around it in agreement.
LEMMA HeaderUniform ==
    ASSUME NEW on \in SUBSET Writers, NEW i \in Writers,
           NEW o, o.op \in {"WriteHeader", "Write"}, o.code \in Finals
    PROVE  /\ Touch(Unwritten, on, i, o) \in WriterStates
           /\ Uniform(Touch(Unwritten, on, i, o), on, i)
<1>1. Unwritten \in WriterStates /\ \A j \in on : Unwritten[j] = 0
  BY DEF Unwritten, WriterStates, Statuses
<1>2. Touch(Unwritten, on, i, o) \in WriterStates
  BY <1>1, TouchType DEF Statuses
<1>3. \A j \in on : i <= j => Touch(Unwritten, on, i, o)[j] = o.code
  BY <1>1, TouchFirst
<1> QED
  BY <1>2, <1>3 DEF Uniform

\* Who agrees from the inside agrees from further out.
LEMMA UniformOut ==
    ASSUME NEW w, NEW on \in SUBSET Writers, NEW i \in Writers, NEW j \in Writers,
           i <= j, Uniform(w, on, i)
    PROVE  Uniform(w, on, j)
<1>1. \A k \in on : j <= k => i <= k
  BY DEF Writers, Breaker, NetHTTP
<1> QED
  BY <1>1 DEF Uniform

\* So it is with what the writers stand for.
LEMMA AgreedOut ==
    ASSUME NEW w, NEW on \in SUBSET Writers, NEW i \in Writers, NEW j \in Writers,
           i <= j, Agreed(w, on, i)
    PROVE  Agreed(w, on, j)
<1>1. \A k \in on : j <= k => i <= k
  BY DEF Writers, Breaker, NetHTTP
<1> QED
  BY <1>1 DEF Agreed

\* Nothing written is an agreement too.
LEMMA UnwrittenUniform ==
    ASSUME NEW on \in SUBSET Writers, NEW i \in Writers
    PROVE  Unwritten \in WriterStates /\ Uniform(Unwritten, on, i)
  BY DEF Unwritten, WriterStates, Statuses, Uniform

\* The writers around Logging agree well enough for the records to: after a panic
\* all must have the same status, otherwise stand for the same.
Coherent(w, on, panic) ==
    Uniform(w, on, Logging) \/ (~panic /\ Agreed(w, on, Logging))

\* If they do, then what the metrics will observe is what will be on record, and
\* what has been logged is what the client gets, also after Recovery and when a
\* panic cuts the connection.
LEMMA UnwindAgrees ==
    ASSUME RequestTypeOK, NEW r \in Requests, NEW w \in WriterStates, NEW panic \in BOOLEAN,
           NEW sent, Unwind(r, w, panic, sent), UNCHANGED <<config, path>>
    PROVE  /\ noted' \in [Requests -> Statuses]
           /\ logged' \in [Requests -> Statuses]
           /\ response' \in [Requests -> Statuses]
           /\ panicked' \in [Requests -> BOOLEAN]
           /\ Coherent(w, Wrapped(path[r]), panic) =>
                 /\ Counts(path[r]) => ObservedStatus(r)' = Seen(r)'
                 /\ logged'[r] # 0 => logged'[r] = response'[r]
<1> DEFINE on == Wrapped(path[r])
           out == Recovery(w, on, panic)
<1>a. /\ Breaker \in Writers /\ Logging \in Writers /\ Metrics \in Writers /\ NetHTTP \in Writers
      /\ Logging <= Metrics /\ Metrics <= NetHTTP /\ Logging <= NetHTTP /\ Logging <= Logging
      /\ Metrics <= Metrics
  BY DEF Writers, Breaker, Logging, Metrics, NetHTTP
<1>b. /\ on \in SUBSET Writers /\ NetHTTP \in on
      /\ Counts(path[r]) => Metrics \in on
      /\ config.preset => Logging \in on
  BY WrappedBy
<1>c. /\ noted' = [noted EXCEPT ![r] = out[Metrics]]
      /\ panicked' = [panicked EXCEPT ![r] = panic]
      /\ logged' = [logged EXCEPT ![r] =
                      IF config.preset /\ ~panic THEN StatusOf(w[Logging]) ELSE 0]
      /\ response' = [response EXCEPT ![r] = Finish(out, panic, sent)]
  BY DEF Unwind, LoggedStatus
<1>d. \A c \in Statuses : StatusOf(c) \in Statuses
  BY DEF StatusOf, Statuses, Finals
<1>e. out \in WriterStates
  <2>1. \A v \in WriterStates : \A o : o.code \in Statuses =>
            Touch(v, on, Metrics, o) \in WriterStates
    BY TouchType
  <2>2. writeJSONError(w, on, Metrics, 500) \in WriterStates
    BY <2>1 DEF writeJSONError, Statuses, Finals
  <2> QED
    BY <2>2 DEF Recovery
<1>f. out[Metrics] \in Statuses /\ out[NetHTTP] \in Statuses /\ w[Logging] \in Statuses
  BY <1>a, <1>e DEF WriterStates
<1> HIDE DEF on, out
<1>1. /\ noted' \in [Requests -> Statuses] /\ panicked' \in [Requests -> BOOLEAN]
      /\ response' \in [Requests -> Statuses] /\ logged' \in [Requests -> Statuses]
  <2>1. 0 \in Statuses
    BY DEF Statuses
  <2>2. Finish(out, panic, sent) \in Statuses
    BY <1>d, <1>f, <2>1 DEF Finish
  <2> QED
    BY <1>c, <1>d, <1>f, <2>1, <2>2 DEF RequestTypeOK
<1>2. ASSUME Coherent(w, on, panic)
      PROVE  /\ Counts(path[r]) => ObservedStatus(r)' = Seen(r)'
             /\ logged'[r] # 0 => logged'[r] = response'[r]
  <2>a. /\ noted'[r] = out[Metrics] /\ panicked'[r] = panic
        /\ logged'[r] = (IF config.preset /\ ~panic THEN StatusOf(w[Logging]) ELSE 0)
        /\ response'[r] = Finish(out, panic, sent)
    BY <1>c DEF RequestTypeOK
  <2>b. ObservedStatus(r)' = IF panic /\ ~config.preset /\ out[Metrics] = 0
                             THEN 500 ELSE StatusOf(out[Metrics])
    BY <2>a DEF ObservedStatus
  <2>c. Seen(r)' = IF response'[r] # 0 THEN response'[r]
                   ELSE IF out[Metrics] # 0 THEN out[Metrics] ELSE 500
    BY <2>a DEF Seen
  <2>1. CASE ~panic
    <3>1. out = w /\ Agreed(w, on, Logging)
      BY <1>2, <2>1, UniformAgreed DEF out, Recovery, Coherent
    <3>2. /\ Counts(path[r]) => StatusOf(out[Metrics]) = StatusOf(out[NetHTTP])
          /\ config.preset => StatusOf(w[Logging]) = StatusOf(out[NetHTTP])
      BY <1>a, <1>b, <3>1 DEF Agreed
    <3>3. response'[r] = StatusOf(out[NetHTTP]) /\ StatusOf(out[NetHTTP]) # 0
      BY <2>1, <2>a DEF Finish, StatusOf
    <3> QED
      BY <2>1, <2>a, <2>b, <2>c, <3>2, <3>3
  <2>2. CASE panic
    <3>1. Uniform(w, on, Metrics)
      BY <1>2, <1>a, <1>b, <2>2, UniformOut DEF Coherent
    <3>2. Uniform(out, on, Metrics)
      BY <1>a, <1>b, <3>1, ErrorUniform DEF out, Recovery, Finals
    <3>3. Counts(path[r]) => out[Metrics] = out[NetHTTP]
      BY <1>a, <1>b, <3>2 DEF Uniform
    <3>4. CASE config.preset
      <4>1. response'[r] = StatusOf(out[NetHTTP]) /\ StatusOf(out[NetHTTP]) # 0
        BY <2>a, <3>4 DEF Finish, StatusOf
      <4> QED
        BY <2>2, <2>a, <2>b, <2>c, <3>3, <3>4, <4>1
    <3>5. CASE ~config.preset
      <4>1. response'[r] = 0 \/ response'[r] = out[NetHTTP]
        BY <2>2, <2>a, <3>5 DEF Finish
      <4>2. logged'[r] = 0
        BY <2>2, <2>a
      <4>3. ObservedStatus(r)' = IF out[Metrics] = 0 THEN 500 ELSE out[Metrics]
        BY <2>2, <2>b, <3>5 DEF StatusOf
      <4>4. Counts(path[r]) => ObservedStatus(r)' = Seen(r)'
        BY <2>c, <3>3, <4>1, <4>3
      <4> QED
        BY <4>2, <4>4
    <3> QED
      BY <3>4, <3>5
  <2> QED
    BY <2>1, <2>2
<1> QED
  BY <1>1, <1>2 DEF on

-----------------------------------------------------------------------------
(* The steps of a request. *)

\* What a handler writes makes the writers around it agree, unless it is behind.
LEMMA HandlerUniform ==
    ASSUME NEW r \in Requests, NEW on \in SUBSET Writers, NEW h \in HandlerWrites[r][on]
    PROVE  /\ h.writers \in WriterStates
           /\ h.panic \in BOOLEAN
           /\ h.sent \in BOOLEAN
           /\ h.behind \in BOOLEAN
           /\ \/ h.behind
              \/ Uniform(h.writers, on, Breaker)
              \/ ~h.panic /\ Agreed(h.writers, on, Breaker)
<1>1. PICK ops \in BoundedSeq(Calls[r], MaxCalls), panic \in BOOLEAN, large \in BOOLEAN :
         h = [writers |-> Written(on, ops),
              panic   |-> panic,
              sent    |-> Sent(ops, large),
              behind  |-> Behind(ops, panic)]
  BY DEF HandlerWrites
<1>2. PICK n \in 0..MaxCalls : ops \in [1..n -> Calls[r]]
  BY DEF BoundedSeq, SeqOf
<1>3. n \in Nat /\ Calls[r] \subseteq Op
  BY PipelineAssumption
<1>4. ops \in [1..n -> Op] /\ DOMAIN ops = 1..n
  BY <1>2, <1>3
<1>5. Behind(ops, panic) \in BOOLEAN /\ Sent(ops, large) \in BOOLEAN
  BY DEF Behind, Sent
<1>6. /\ h.writers = Written(on, ops) /\ h.panic = panic
      /\ h.sent = Sent(ops, large) /\ h.behind = Behind(ops, panic)
  BY <1>1
<1>7. /\ Written(on, ops) \in WriterStates
      /\ \/ ops # <<>> /\ (ops[1].op \in {"ReadFrom", "Flush"} \/ ops[1].code < 200)
         \/ Uniform(Written(on, ops), on, Breaker)
      /\ \/ \E i \in 1..n : ops[i].op = "WriteHeader"
         \/ Agreed(Written(on, ops), on, Breaker)
  BY <1>3, <1>4, WrittenUniform
<1>8. \/ Behind(ops, panic)
      \/ Uniform(Written(on, ops), on, Breaker)
      \/ ~panic /\ Agreed(Written(on, ops), on, Breaker)
  BY <1>4, <1>7 DEF Behind
<1> QED
  BY <1>5, <1>6, <1>7, <1>8

\* A root layer, other than the breaker, answers with a final status.
LEMMA LayerAnswers ==
    ASSUME RequestTypeOK, NEW l \in Outer \cup Inner
    PROVE  Answer[l] \in Finals
<1> DEFINE n == Len(config.root)
           T == {i \in DOMAIN config.root : config.root[i] = "CircuitBreaker"} \cup {n + 1}
<1>1. /\ config.root \in Seq(RootLayers) /\ n \in Nat /\ DOMAIN config.root = 1..n
      /\ \A i, j \in DOMAIN config.root :
            config.root[i] = "CircuitBreaker" /\ config.root[j] = "CircuitBreaker" => i = j
  BY PipelineAssumption DEF RequestTypeOK, Config
<1>2. T \in SUBSET Nat /\ T # {}
  BY <1>1
<1>3. \E i \in T : \A j \in T : i <= j
  BY <1>2, NatMin
<1>4. BreakerAt \in T /\ \A j \in T : BreakerAt <= j
  <2>1. BreakerAt = CHOOSE i \in T : \A j \in T : i <= j
    BY DEF BreakerAt, Min
  <2> HIDE DEF T
  <2> QED
    BY <1>3, <2>1
<1>5. PICK i \in 1..n : l = config.root[i] /\ i # BreakerAt /\ i \notin T
  <2>1. ASSUME NEW i \in 1..(BreakerAt - 1) PROVE i \in 1..n /\ i # BreakerAt /\ i \notin T
    BY <1>1, <1>2, <1>4, <2>1
  <2>2. ASSUME NEW i \in (BreakerAt + 1)..n PROVE i \in 1..n /\ i # BreakerAt /\ i \notin T
    BY <1>1, <1>2, <1>4, <2>2
  <2> HIDE DEF T
  <2> QED
    BY <2>1, <2>2 DEF Outer, Inner
<1>6. l \in {"CORS", "MaxBodySize", "RateLimit"}
  BY <1>1, <1>5 DEF RootLayers
<1> QED
  BY <1>6 DEF Answer, TooManyRequests, NoContent, Finals

\* Request r leaves the root middleware or its system route.  The writers around
\* Logging agree, unless the handler was behind.
Ends(r) ==
    /\ pc[r] \in {"idle", "breaker", "serve", "probe", "collect"}
    /\ \E w \in WriterStates, panic \in BOOLEAN, sent \in BOOLEAN :
          /\ Unwind(r, w, panic, sent)
          /\ behind'[r] \/ Coherent(w, Wrapped(path[r]), panic)
    /\ \E b \in BOOLEAN : behind' = [behind EXCEPT ![r] = b]
    /\ UNCHANGED observed

\* It goes on to the next layer.
GoesOn(r) ==
    /\ \/ pc[r] = "idle" /\ IsSystem(path[r]) /\ (Enter(r, "scrape") \/ Enter(r, "probe"))
       \/ pc[r] = "idle" /\ (Enter(r, "breaker") \/ Enter(r, "serve"))
       \/ pc[r] = "breaker" /\ Enter(r, "serve")
       \/ pc[r] = "scrape" /\ Enter(r, "clone")
       \/ pc[r] = "clone" /\ Enter(r, "load")
       \/ pc[r] = "load" /\ Enter(r, "collect")
    /\ UNCHANGED <<noted, panicked, logged, response, observed, behind>>

RequestStep(r) ==
    /\ UNCHANGED <<config, path>>
    /\ Ends(r) \/ GoesOn(r) \/ Observe(r) \/ LowerGauge(r)

\* Every action of a request is one of these steps.
LEMMA RequestSteps ==
    ASSUME RequestTypeOK, NEW r \in Requests,
           Arrive(r) \/ Step(r) \/ Answers(r) \/ Handler(r) \/ Collect(r)
    PROVE  RequestStep(r)
<1> DEFINE on == Wrapped(path[r])
<1>a. /\ on \in SUBSET Writers
      /\ Breaker \in Writers /\ Logging \in Writers /\ Breaker <= Logging
  BY WrappedBy DEF Writers, Breaker, Logging, NetHTTP
<1>b. behind = [behind EXCEPT ![r] = behind[r]] /\ behind[r] \in BOOLEAN
  BY DEF RequestTypeOK
<1>c. ASSUME NEW w \in WriterStates, NEW panic \in BOOLEAN, Unwind(r, w, panic, FALSE),
             Uniform(w, on, Logging), UNCHANGED <<observed, behind>>,
             pc[r] \in {"idle", "breaker", "serve", "probe", "collect"}
      PROVE  Ends(r)
  BY <1>b, <1>c DEF Ends, Coherent
<1>d. ASSUME NEW i \in {Breaker, Logging}, NEW o,
             o.op \in {"WriteHeader", "Write"}, o.code \in Finals
      PROVE  /\ Touch(Unwritten, on, i, o) \in WriterStates
             /\ Uniform(Touch(Unwritten, on, i, o), on, i)
             /\ Uniform(Touch(Unwritten, on, i, o), on, Logging)
  <2>1. i \in Writers /\ i <= Logging
    BY <1>a, <1>d DEF Logging, Breaker
  <2>2. /\ Touch(Unwritten, on, i, o) \in WriterStates
        /\ Uniform(Touch(Unwritten, on, i, o), on, i)
    BY <1>a, <1>d, <2>1, HeaderUniform
  <2> QED
    BY <1>a, <2>1, <2>2, UniformOut
<1> HIDE DEF on
<1>1. CASE Arrive(r)
  <2>0. pc[r] = "idle" /\ UNCHANGED <<config, path, observed, behind>>
    BY <1>1 DEF Arrive
  <2>1. CASE GoesOn(r)
    BY <2>0, <2>1 DEF RequestStep
  <2>2. ASSUME NEW l \in Outer,
               Unwind(r, Touch(Unwritten, on, Logging,
                               [op |-> "WriteHeader", code |-> Answer[l]]), FALSE, FALSE)
        PROVE  Ends(r)
    <3>1. Answer[l] \in Finals
      BY LayerAnswers
    <3> DEFINE w == Touch(Unwritten, on, Logging, [op |-> "WriteHeader", code |-> Answer[l]])
    <3>2. w \in WriterStates /\ Uniform(w, on, Logging)
      BY <1>d, <3>1
    <3>3. Unwind(r, w, FALSE, FALSE)
      BY <2>2
    <3> HIDE DEF w
    <3> QED
      BY <1>c, <2>0, <3>2, <3>3
  <2>3. GoesOn(r) \/ \E l \in Outer :
             Unwind(r, Touch(Unwritten, on, Logging,
                             [op |-> "WriteHeader", code |-> Answer[l]]), FALSE, FALSE)
    BY <1>1 DEF Arrive, GoesOn, on
  <2> QED
    BY <2>0, <2>1, <2>2, <2>3 DEF RequestStep
<1>2. CASE Step(r)
  <2>1. CASE Admit(r)
    BY <2>1 DEF Admit, RequestStep, GoesOn
  <2>2. CASE Refuse(r)
    <3>1. 503 \in Finals /\ Unwritten \in WriterStates /\ Uniform(Unwritten, on, Logging)
      BY <1>a, UnwrittenUniform DEF Finals
    <3>2. /\ writeJSONError(Unwritten, on, Logging, 503) \in WriterStates
          /\ Uniform(writeJSONError(Unwritten, on, Logging, 503), on, Logging)
      BY <1>a, <3>1, ErrorUniform
    <3>3. /\ Unwind(r, writeJSONError(Unwritten, on, Logging, 503), FALSE, FALSE)
          /\ pc[r] = "breaker" /\ UNCHANGED <<config, path, observed, behind>>
      BY <2>2 DEF Refuse, on
    <3> QED
      BY <1>c, <3>2, <3>3 DEF RequestStep
  <2>3. CASE Probe(r)
    <3>1. PICK code \in {200, 503} :
             Unwind(r, Touch(Unwritten, on, Logging,
                             [op |-> "WriteHeader", code |-> code]), FALSE, FALSE)
      BY <2>3 DEF Probe, on
    <3>2. pc[r] = "probe" /\ UNCHANGED <<config, path, observed, behind>>
      BY <2>3 DEF Probe
    <3> DEFINE w == Touch(Unwritten, on, Logging, [op |-> "WriteHeader", code |-> code])
    <3>3. w \in WriterStates /\ Uniform(w, on, Logging)
      BY <1>d DEF Finals
    <3>4. Unwind(r, w, FALSE, FALSE)
      BY <3>1
    <3> HIDE DEF w
    <3> QED
      BY <1>c, <3>2, <3>3, <3>4 DEF RequestStep
  <2>4. CASE Scrape(r)
    BY <2>4 DEF Scrape, ScrapeStep, RequestStep, GoesOn
  <2>5. CASE Observe(r)
    BY <2>5 DEF RequestStep, Observe
  <2>6. CASE LowerGauge(r)
    BY <2>6 DEF RequestStep, LowerGauge
  <2> QED
    BY <1>2, <2>1, <2>2, <2>3, <2>4, <2>5, <2>6 DEF Step
<1>3. CASE Answers(r)
  <2>1. PICK code \in {Answer[l] : l \in Inner} \cup (IF path[r] = APIBasePath THEN {307} ELSE {}) :
           Unwind(r, Touch(Unwritten, on, Breaker, [op |-> "WriteHeader", code |-> code]), FALSE, FALSE)
    BY <1>3 DEF Answers, ExecuteEnds, on
  <2>2. pc[r] = "serve" /\ UNCHANGED <<config, path, observed, behind>>
    BY <1>3 DEF Answers
  <2>3. code \in Finals
    BY LayerAnswers DEF Finals
  <2> DEFINE w == Touch(Unwritten, on, Breaker, [op |-> "WriteHeader", code |-> code])
  <2>4. w \in WriterStates /\ Uniform(w, on, Logging)
    BY <1>d, <2>3
  <2>5. Unwind(r, w, FALSE, FALSE)
    BY <2>1
  <2> HIDE DEF w
  <2> QED
    BY <1>c, <2>2, <2>4, <2>5 DEF RequestStep
<1>4. CASE Handler(r)
  <2>1. PICK h \in HandlerWrites[r][on] :
           /\ Unwind(r, h.writers, h.panic, h.sent)
           /\ behind' = [behind EXCEPT ![r] = h.behind]
    BY <1>4 DEF Handler, ExecuteEnds, on
  <2>2. pc[r] = "serve" /\ UNCHANGED <<config, path, observed>>
    BY <1>4 DEF Handler
  <2>3. /\ h.writers \in WriterStates /\ h.panic \in BOOLEAN /\ h.behind \in BOOLEAN
        /\ h.behind \/ Coherent(h.writers, on, h.panic)
    BY <1>a, HandlerUniform, UniformOut, AgreedOut DEF Coherent
  <2>4. behind'[r] = h.behind
    BY <2>1 DEF RequestTypeOK
  <2>5. h.sent \in BOOLEAN
    BY <1>a, HandlerUniform, Zenon
  <2>6. Ends(r)
    BY <2>1, <2>2, <2>3, <2>4, <2>5 DEF Ends, on
  <2> QED
    BY <2>2, <2>6 DEF RequestStep
<1>5. CASE Collect(r)
  <2>1. pc[r] = "collect" /\ UNCHANGED <<config, path, observed, behind>>
    BY <1>5 DEF Collect
  <2>2. CASE Unwind(r, Touch(Unwritten, on, Logging, [op |-> "Write", code |-> 200]), FALSE, FALSE)
    <3> DEFINE w == Touch(Unwritten, on, Logging, [op |-> "Write", code |-> 200])
    <3>1. w \in WriterStates /\ Uniform(w, on, Logging)
      BY <1>d DEF Finals
    <3>2. Unwind(r, w, FALSE, FALSE)
      BY <2>2
    <3> HIDE DEF w
    <3> QED
      BY <1>c, <2>1, <3>1, <3>2 DEF RequestStep
  <2>3. CASE Unwind(r, Unwritten, TRUE, FALSE)
    BY <1>a, <1>c, <2>1, <2>3, UnwrittenUniform DEF RequestStep
  <2> QED
    BY <1>5, <2>2, <2>3 DEF Collect, on
<1> QED
  BY <1>1, <1>2, <1>3, <1>4, <1>5

\* A request's status is taken down once, and as its client sees it.
LEMMA RequestStepInv ==
    ASSUME RequestInv, NEW r \in Requests, RequestStep(r)
    PROVE  RequestInv'
<1> USE DEF RequestInv
<1>a. /\ UNCHANGED <<config, path>> /\ path[r] \in Paths
      /\ systemPaths' = systemPaths
      /\ \A p : Counts(p)' = Counts(p)
  BY DEF RequestStep, RequestTypeOK, systemPaths, Counts
<1>b. path[r] \in systemPaths => ~Counts(path[r])
  BY <1>a, CountedPaths
<1>c. ASSUME NEW x \in Requests, x # r, pc'[x] = pc[x], noted'[x] = noted[x],
             panicked'[x] = panicked[x], response'[x] = response[x]
      PROVE  ObservedStatus(x)' = ObservedStatus(x)
  BY <1>a, <1>c DEF ObservedStatus
<1>1. CASE Ends(r)
  <2>1. PICK w \in WriterStates, panic \in BOOLEAN, sent \in BOOLEAN :
           /\ Unwind(r, w, panic, sent)
           /\ behind'[r] \/ Coherent(w, Wrapped(path[r]), panic)
    BY <1>1 DEF Ends
  <2>2. PICK b \in BOOLEAN : behind' = [behind EXCEPT ![r] = b]
    BY <1>1 DEF Ends
  <2>3. /\ pc' = [pc EXCEPT ![r] = IF Counts(path[r]) THEN "observe" ELSE "done"]
        /\ UNCHANGED observed
        /\ pc[r] \in {"idle", "breaker", "serve", "probe", "collect"}
    BY <1>1, <2>1 DEF Ends, Unwind, Enter
  <2>4. /\ noted' \in [Requests -> Statuses] /\ logged' \in [Requests -> Statuses]
        /\ response' \in [Requests -> Statuses] /\ panicked' \in [Requests -> BOOLEAN]
        /\ Coherent(w, Wrapped(path[r]), panic) =>
              /\ Counts(path[r]) => ObservedStatus(r)' = Seen(r)'
              /\ logged'[r] # 0 => logged'[r] = response'[r]
    BY <1>a, <2>1, UnwindAgrees
  <2>5. \A x \in Requests : x # r =>
           /\ pc'[x] = pc[x] /\ noted'[x] = noted[x] /\ panicked'[x] = panicked[x]
           /\ logged'[x] = logged[x] /\ response'[x] = response[x] /\ behind'[x] = behind[x]
    BY <2>1, <2>2, <2>3 DEF Unwind, RequestTypeOK
  <2>6. RequestTypeOK'
    BY <1>a, <2>2, <2>3, <2>4 DEF RequestTypeOK
  <2>7. pc'[r] = (IF Counts(path[r]) THEN "observe" ELSE "done") /\ observed[r].code = 0
    BY <2>3 DEF RequestTypeOK, RouteInv
  <2>8. RouteInv'
    BY <1>a, <2>3, <2>5, <2>7 DEF RouteInv
  <2>9. AgreeInv'
    <3>1. ASSUME NEW x \in Requests, x # r, ~behind'[x]
          PROVE  /\ pc'[x] = "observe" => ObservedStatus(x)' = Seen(x)'
                 /\ observed'[x].code # 0 => observed'[x].code = Seen(x)'
                 /\ logged'[x] # 0 => logged'[x] = response'[x]
      <4>1. ObservedStatus(x)' = ObservedStatus(x) /\ Seen(x)' = Seen(x)
        BY <1>c, <2>5, <3>1 DEF Seen
      <4> QED
        BY <2>3, <2>5, <3>1, <4>1 DEF AgreeInv
    <3>2. ASSUME ~behind'[r]
          PROVE  /\ pc'[r] = "observe" => ObservedStatus(r)' = Seen(r)'
                 /\ observed'[r].code # 0 => observed'[r].code = Seen(r)'
                 /\ logged'[r] # 0 => logged'[r] = response'[r]
      BY <2>1, <2>3, <2>4, <2>7, <3>2
    <3> QED
      BY <3>1, <3>2 DEF AgreeInv, Seen
  <2> QED
    BY <2>6, <2>8, <2>9
<1>2. CASE GoesOn(r)
  <2>1. PICK s \in {"probe", "scrape", "clone", "load", "collect", "breaker", "serve"} :
           pc' = [pc EXCEPT ![r] = s]
    BY <1>2 DEF GoesOn, Enter
  <2>2. UNCHANGED <<noted, panicked, logged, response, observed, behind>>
    BY <1>2 DEF GoesOn
  <2>3. RequestTypeOK'
    BY <1>a, <2>1, <2>2 DEF RequestTypeOK
  <2>4. /\ pc[r] \in {"idle", "breaker", "scrape", "clone", "load"}
        /\ pc'[r] \in {"probe", "scrape", "clone", "load", "collect"} => path[r] \in systemPaths
    BY <1>2, <2>1 DEF GoesOn, Enter, IsSystem, RequestTypeOK, RouteInv
  <2>5. \A x \in Requests : ObservedStatus(x)' = ObservedStatus(x)
    BY <1>a, <2>2 DEF ObservedStatus
  <2>6. RouteInv'
    BY <1>a, <2>1, <2>2, <2>4 DEF RouteInv, RequestTypeOK
  <2>7. AgreeInv'
    BY <2>1, <2>2, <2>5 DEF AgreeInv, RequestTypeOK, Seen
  <2> QED
    BY <2>3, <2>6, <2>7
<1>3. CASE Observe(r)
  <2>1. PICK seconds \in Latencies[r] :
           observed' = [observed EXCEPT ![r] = [code |-> ObservedStatus(r), seconds |-> seconds]]
    BY <1>3 DEF Observe
  <2>2. /\ pc[r] = "observe" /\ pc' = [pc EXCEPT ![r] = "gauge"]
        /\ UNCHANGED <<noted, panicked, logged, response, behind>>
    BY <1>3 DEF Observe, Enter
  <2>3. ObservedStatus(r) \in Statuses \ {0} /\ seconds \in Nat
    BY PipelineAssumption DEF ObservedStatus, StatusOf, Statuses, Finals, RequestTypeOK
  <2>4. RequestTypeOK'
    BY <1>a, <2>1, <2>2, <2>3 DEF RequestTypeOK
  <2>5. /\ observed'[r].code = ObservedStatus(r) /\ ObservedStatus(r) # 0
        /\ \A x \in Requests : x # r => observed'[x] = observed[x]
    BY <2>1, <2>3 DEF RequestTypeOK
  <2>6. \A x \in Requests : ObservedStatus(x)' = ObservedStatus(x)
    BY <1>a, <2>2 DEF ObservedStatus
  <2>7. RouteInv'
    BY <1>a, <2>2, <2>5 DEF RouteInv, RequestTypeOK
  <2>8. AgreeInv'
    BY <2>2, <2>5, <2>6 DEF AgreeInv, RequestTypeOK, Seen
  <2> QED
    BY <2>4, <2>7, <2>8
<1>4. CASE LowerGauge(r)
  <2>1. /\ pc[r] = "gauge" /\ pc' = [pc EXCEPT ![r] = "done"]
        /\ panicked' = [panicked EXCEPT ![r] = FALSE]
        /\ UNCHANGED <<noted, logged, response, observed, behind>>
    BY <1>4 DEF LowerGauge, Enter
  <2>2. RequestTypeOK'
    BY <1>a, <2>1 DEF RequestTypeOK, Statuses
  <2>3. \A x \in Requests : x # r => ObservedStatus(x)' = ObservedStatus(x)
    BY <1>a, <2>1 DEF ObservedStatus, RequestTypeOK
  <2>4. RouteInv'
    BY <1>a, <2>1 DEF RouteInv, RequestTypeOK
  <2>5. AgreeInv'
    BY <2>1, <2>3 DEF AgreeInv, RequestTypeOK, Seen
  <2> QED
    BY <2>2, <2>4, <2>5
<1> QED
  BY <1>1, <1>2, <1>3, <1>4 DEF RequestStep

\* RequestInv holds before the first request.
LEMMA InitRequest == Init => RequestInv
<1>1. ASSUME Init PROVE RequestTypeOK
  BY <1>1, PipelineAssumption DEF Init, RequestTypeOK, Statuses
<1>2. ASSUME Init PROVE RouteInv /\ AgreeInv
  BY <1>2 DEF Init, RouteInv, AgreeInv
<1> QED
  BY <1>1, <1>2 DEF RequestInv

\* Every step keeps it.
LEMMA NextRequest == RequestInv /\ [Next]_vars => RequestInv'
<1>a. SUFFICES ASSUME RequestInv, [Next]_vars PROVE RequestInv'
  OBVIOUS
<1>1. ASSUME NEW r \in Requests,
             Arrive(r) \/ Step(r) \/ Answers(r) \/ Handler(r) \/ Collect(r)
      PROVE  RequestInv'
  BY <1>a, <1>1, RequestSteps, RequestStepInv DEF RequestInv
<1>2. ASSUME UNCHANGED <<config, requestVars>> PROVE RequestInv'
  BY <1>a, <1>2 DEF requestVars, RequestInv, RequestTypeOK, RouteInv, AgreeInv, Counts,
     systemPaths, ObservedStatus, Seen
<1>3. Expire \/ UNCHANGED vars => UNCHANGED <<config, requestVars>>
  BY DEF Expire, vars
<1> QED
  BY <1>a, <1>1, <1>2, <1>3 DEF Next

\* RequestInv is an invariant of the handler NewHTTPRuntime assembles.
THEOREM RequestInvariance == Spec => []RequestInv
  BY InitRequest, NextRequest, PTL DEF Spec

\* The request counter and the completion log name the status the client got, for
\* every assembly of the layers, every sequence of calls of a handler that is not
\* behind and every panic; a connection that a panic cut before its header was
\* sent is counted under the status that was lost, and as 500 if there was none.
THEOREM StatusRecordsAgree == Spec => []RecordsAgree
<1>1. RequestInv => RecordsAgree
  BY DEF RequestInv, RouteInv, AgreeInv, RecordsAgree, Seen
<1> QED
  BY <1>1, RequestInvariance, PTL

\* The breaker opens when a request fails, and the failure it saw is one the
\* client saw.
LEMMA FailureOpens ==
    ASSUME RequestTypeOK, NEW r \in Requests, NEW w \in WriterStates, NEW panic \in BOOLEAN,
           NEW sent, ExecuteEnds(r, w, panic, sent), UNCHANGED config,
           panic \/ Agreed(w, Wrapped(path[r]), Breaker), state # "open", state' = "open"
    PROVE  gen[r] = generation /\ (response'[r] >= 500 \/ panicked'[r])
<1>1. HasBreaker(path[r]) /\ afterRequest(gen[r], ~panic /\ ~IsFailure(StatusOf(w[Breaker])))
  BY DEF ExecuteEnds, breakerVars
<1>2. gen[r] = generation /\ ~(~panic /\ ~IsFailure(StatusOf(w[Breaker])))
  BY <1>1 DEF afterRequest, onSuccess, setState
<1>3. panicked'[r] = panic
  BY DEF ExecuteEnds, Unwind, RequestTypeOK
<1>4. CASE ~panic
  <2>1. /\ Breaker \in Wrapped(path[r]) /\ NetHTTP \in Wrapped(path[r])
        /\ Breaker <= Breaker /\ Breaker <= NetHTTP
    BY <1>1, WrappedBy DEF Breaker, NetHTTP
  <2>2. StatusOf(w[NetHTTP]) = StatusOf(w[Breaker])
    BY <1>4, <2>1 DEF Agreed
  <2>3. response'[r] = StatusOf(w[NetHTTP])
    BY <1>4 DEF ExecuteEnds, Unwind, Recovery, Finish, RequestTypeOK
  <2> QED
    BY <1>2, <1>4, <2>2, <2>3 DEF IsFailure
<1> QED
  BY <1>2, <1>3, <1>4

\* The breaker opens only on a request its present generation admitted and that
\* failed with a 5xx response or a panic, whatever client errors, refusals and
\* late results of earlier generations there are.
THEOREM OnlyServerFailuresOpen == Spec => BreakerJudgesServerFailures
<1> DEFINE A == state # "open" /\ state' = "open" =>
                   \E r \in Requests :
                      /\ pc[r] = "serve" /\ pc'[r] # "serve"
                      /\ gen[r] = generation
                      /\ response'[r] >= 500 \/ panicked'[r] \/ behind'[r]
<1>1. RequestInv /\ [Next]_vars => [A]_vars
  <2>a. SUFFICES ASSUME RequestInv, Next, state # "open", state' = "open"
                 PROVE  \E r \in Requests :
                           /\ pc[r] = "serve" /\ pc'[r] # "serve"
                           /\ gen[r] = generation
                           /\ response'[r] >= 500 \/ panicked'[r] \/ behind'[r]
    OBVIOUS
  <2>b. RequestTypeOK
    BY <2>a DEF RequestInv
  <2>c. ASSUME NEW r \in Requests, NEW w, NEW panic, NEW sent, ExecuteEnds(r, w, panic, sent),
               pc[r] = "serve"
        PROVE  pc'[r] # "serve"
    BY <2>b, <2>c DEF ExecuteEnds, Unwind, Enter, RequestTypeOK
  <2>1. ASSUME NEW r \in Requests, Arrive(r) \/ Refuse(r) \/ Probe(r) \/ Scrape(r) \/ Observe(r)
                  \/ LowerGauge(r) \/ Collect(r)
        PROVE  FALSE
    BY <2>a, <2>1 DEF Arrive, Refuse, Probe, Scrape, ScrapeStep, Observe, LowerGauge,
       Collect, breakerVars
  <2>2. ASSUME NEW r \in Requests, Admit(r) PROVE FALSE
    BY <2>a, <2>2 DEF Admit, onRequest
  <2>3. Expire \/ UNCHANGED vars => FALSE
    BY <2>a DEF Expire, BreakerExpire, setState, vars, breakerVars
  <2>4. ASSUME NEW r \in Requests, Answers(r)
        PROVE  /\ pc[r] = "serve" /\ pc'[r] # "serve" /\ gen[r] = generation
               /\ response'[r] >= 500 \/ panicked'[r] \/ behind'[r]
    <3>1. PICK code \in {Answer[l] : l \in Inner} \cup (IF path[r] = APIBasePath THEN {307} ELSE {}) :
             ExecuteEnds(r, Touch(Unwritten, Wrapped(path[r]), Breaker,
                                  [op |-> "WriteHeader", code |-> code]), FALSE, FALSE)
      BY <2>4 DEF Answers
    <3>2. pc[r] = "serve" /\ UNCHANGED config
      BY <2>4 DEF Answers
    <3>3. code \in Finals
      BY <2>b, LayerAnswers DEF Finals
    <3> DEFINE w == Touch(Unwritten, Wrapped(path[r]), Breaker,
                          [op |-> "WriteHeader", code |-> code])
    <3>4. w \in WriterStates /\ Agreed(w, Wrapped(path[r]), Breaker)
      <4>1. Wrapped(path[r]) \in SUBSET Writers /\ Breaker \in Writers
        BY WrappedBy DEF Writers, Breaker, NetHTTP
      <4> QED
        BY <3>3, <4>1, HeaderUniform, UniformAgreed
    <3>5. ExecuteEnds(r, w, FALSE, FALSE)
      BY <3>1
    <3> HIDE DEF w
    <3>6. FALSE \in BOOLEAN /\ state # "open" /\ state' = "open"
      BY <2>a
    <3>7. gen[r] = generation /\ (response'[r] >= 500 \/ panicked'[r])
      BY <2>b, <3>2, <3>4, <3>5, <3>6, FailureOpens, Zenon
    <3>8. pc'[r] # "serve"
      BY <2>b, <3>2, <3>5 DEF ExecuteEnds, Unwind, Enter, RequestTypeOK
    <3> QED
      BY <3>2, <3>7, <3>8, Zenon
  <2>5. ASSUME NEW r \in Requests, Handler(r)
        PROVE  /\ pc[r] = "serve" /\ pc'[r] # "serve" /\ gen[r] = generation
               /\ response'[r] >= 500 \/ panicked'[r] \/ behind'[r]
    <3>1. PICK h \in HandlerWrites[r][Wrapped(path[r])] :
             /\ ExecuteEnds(r, h.writers, h.panic, h.sent)
             /\ behind' = [behind EXCEPT ![r] = h.behind]
      BY <2>5 DEF Handler
    <3>2. pc[r] = "serve" /\ UNCHANGED config
      BY <2>5 DEF Handler
    <3>3. /\ h.writers \in WriterStates /\ h.behind \in BOOLEAN /\ h.panic \in BOOLEAN
          /\ h.behind \/ h.panic \/ Agreed(h.writers, Wrapped(path[r]), Breaker)
      <4>1. Wrapped(path[r]) \in SUBSET Writers
        BY WrappedBy
      <4> QED
        BY <4>1, HandlerUniform, UniformAgreed
    <3>4. behind'[r] = h.behind
      BY <2>b, <3>1 DEF RequestTypeOK
    <3>5. gen[r] = generation
      BY <2>a, <3>1 DEF ExecuteEnds, breakerVars, afterRequest
    <3> QED
      BY <2>a, <2>b, <2>c, <3>1, <3>2, <3>3, <3>4, <3>5, FailureOpens
  <2> QED
    BY <2>a, <2>1, <2>2, <2>3, <2>4, <2>5 DEF Next, Step
<1> QED
  BY <1>1, RequestInvariance, PTL DEF Spec, BreakerJudgesServerFailures

-----------------------------------------------------------------------------
(* Counting requests. *)

\* A set of requests is finite, grows and shrinks by one, and is no smaller than
\* its subsets.
LEMMA RequestsCount ==
    ASSUME NEW A \in SUBSET Requests, NEW B \in SUBSET A, NEW r \in Requests
    PROVE  /\ IsFiniteSet(A) /\ Cardinality(A) \in Nat
           /\ Cardinality(B) \in Nat /\ Cardinality(B) <= Cardinality(A)
           /\ r \notin A => Cardinality(A \cup {r}) = Cardinality(A) + 1
           /\ r \in A => /\ Cardinality(A \ {r}) = Cardinality(A) - 1
                         /\ Cardinality(A) - 1 \in Nat
<1>1. IsFiniteSet(A)
  BY PipelineAssumption, FS_Subset
<1>2. Cardinality(A) \in Nat
  BY <1>1, FS_CardinalityType
<1>3. IsFiniteSet(B) /\ Cardinality(B) <= Cardinality(A) /\ Cardinality(B) \in Nat
  BY <1>1, FS_Subset, FS_CardinalityType
<1>4. IsFiniteSet(A \ {r}) /\ Cardinality(A \ {r}) \in Nat
  BY <1>1, FS_RemoveElement, FS_CardinalityType
<1> QED
  BY <1>1, <1>2, <1>3, <1>4, FS_AddElement, FS_RemoveElement

\* The running sum up to bucket i is the number of requests in the buckets up to i.
LEMMA CumulativeCounts ==
    ASSUME RequestTypeOK, NEW l, NEW D \in SUBSET Requests, NEW b \in [Slots -> Nat],
           \A i \in Slots : b[i] = Cardinality(InBucket(l, i, D)),
           NEW i \in 0..(Len(Buckets) + 1)
    PROVE  Cumulative(b)[i] = Cardinality(UpTo(l, i, D))
<1> DEFINE N == Len(Buckets) + 1
           U(n) == UpTo(l, n, D)
           P == {n \in Nat : n <= N => Cumulative(b)[n] = Cardinality(U(n))}
<1>1. N \in Nat /\ Slots = 1..N
  BY BucketsAssumption DEF Slots
<1>2. \A r \in Requests : BucketOf(observed[r].seconds) \in Slots
  BY BucketBound DEF RequestTypeOK
<1>3. \A n : U(n) \in SUBSET Requests /\ InBucket(l, n, D) \in SUBSET Requests
  BY DEF Counted, InBucket, UpTo
<1>4. 0 \in P
  <2>1. U(0) = {}
    BY <1>1, <1>2 DEF UpTo, Counted
  <2>2. Cumulative(b)[0] = 0
    BY CumulativeSum
  <2> QED
    BY <2>1, <2>2, FS_EmptySet
<1>5. ASSUME NEW n \in Nat, n \in P PROVE n + 1 \in P
  <2>1. SUFFICES ASSUME n + 1 <= N
                 PROVE  Cumulative(b)[n + 1] = Cardinality(U(n + 1))
    OBVIOUS
  <2>2. n + 1 \in Slots /\ (n + 1) - 1 = n /\ n <= N
    BY <1>1, <2>1
  <2>3. Cumulative(b)[n + 1] = Cumulative(b)[n] + b[n + 1]
    BY <2>2, CumulativeSum
  <2>4. Cumulative(b)[n] = Cardinality(U(n))
    BY <1>5, <2>2
  <2> DEFINE B == InBucket(l, n + 1, D)
  <2>5. U(n + 1) = U(n) \cup B /\ U(n) \cap B = {}
    BY <1>1, <1>2, <2>2 DEF InBucket, Counted, UpTo
  <2>6. IsFiniteSet(U(n)) /\ IsFiniteSet(B)
    BY <1>3, PipelineAssumption, FS_Subset
  <2>7. Cardinality(U(n + 1)) = Cardinality(U(n)) + Cardinality(B) - 0
    BY <2>5, <2>6, FS_Union, FS_EmptySet
  <2>8. Cardinality(U(n)) \in Nat /\ Cardinality(B) \in Nat
    BY <2>6, FS_CardinalityType
  <2> QED
    BY <2>2, <2>3, <2>4, <2>7, <2>8
<1> HIDE DEF P
<1>6. i \in P
  BY <1>1, <1>4, <1>5, NatInd
<1> QED
  BY <1>1, <1>6 DEF P

\* A page rendered from counters and a histogram that show D shows D.
LEMMA PageRenders ==
    ASSUME RequestTypeOK, NEW req, NEW err, NEW dur, NEW D \in SUBSET Requests,
           Shows(req, err, dur, D), NEW t,
           t.requests = req, t.errors = err,
           t.le = [l \in Labels |-> Cumulative(dur[l].buckets)],
           t.count = [l \in Labels |-> dur[l].count]
    PROVE  Renders(t, D)
<1> DEFINE N == Len(Buckets)
<1>a. N \in Nat /\ N + 1 \in 0..(N + 1) /\ \A i \in 1..N : i \in 0..(N + 1)
  BY BucketsAssumption
<1>b. \A r \in Requests : observed[r].seconds \in Nat
  BY DEF RequestTypeOK
<1>1. SUFFICES ASSUME NEW l \in Labels
               PROVE  /\ t.le[l][N + 1] = t.count[l]
                      /\ \A i \in 1..N :
                            t.le[l][i] = Cardinality(CountedIn(l, Buckets[i]) \cap D)
  BY DEF Shows, Renders
<1> DEFINE b == dur[l].buckets
<1>2. /\ b \in [Slots -> Nat]
      /\ \A i \in Slots : b[i] = Cardinality(InBucket(l, i, D))
      /\ dur[l].count = Cardinality(Counted(l) \cap D)
  BY DEF Shows, Histogram
<1>3. t.le[l] = Cumulative(b) /\ t.count[l] = dur[l].count
  OBVIOUS
<1> HIDE DEF b
<1>4. ASSUME NEW i \in 0..(N + 1)
      PROVE  t.le[l][i] = Cardinality(UpTo(l, i, D))
  <2>1. Cumulative(b)[i] = Cardinality(UpTo(l, i, D))
    BY <1>2, CumulativeCounts, ZenonT(60)
  <2> QED
    BY <1>3, <2>1
<1>5. UpTo(l, N + 1, D) = Counted(l) \cap D
  <2>1. \A r \in Requests : BucketOf(observed[r].seconds) \in 1..(N + 1)
    BY <1>b, BucketBound DEF Slots
  <2> QED
    BY <1>a, <2>1 DEF Counted, UpTo
<1>6. ASSUME NEW i \in 1..N
      PROVE  UpTo(l, i, D) = CountedIn(l, Buckets[i]) \cap D
  BY <1>b, BucketBound DEF Counted, CountedIn, UpTo
<1> QED
  BY <1>a, <1>2, <1>3, <1>4, <1>5, <1>6

\* What has been counted stays counted as it was, and what was in flight stays so
\* until it is over.
LEMMA CountsGrow ==
    ASSUME RequestInv, NEW r \in Requests, RequestStep(r)
    PROVE  /\ UNCHANGED <<config, path>> /\ \A p : Counts(p)' = Counts(p)
           /\ \A x \in Requests : x # r => pc'[x] = pc[x]
           /\ AllCounted \subseteq AllCounted'
           /\ \A D \in SUBSET AllCounted : \A l :
                 /\ Counted(l)' \cap D = Counted(l) \cap D
                 /\ \A k : CountedAs(l, k)' \cap D = CountedAs(l, k) \cap D
                 /\ \A n : CountedIn(l, n)' \cap D = CountedIn(l, n) \cap D
                 /\ \A i : InBucket(l, i, D)' = InBucket(l, i, D)
           /\ \A x \in Requests : InFlight(x) \/ pc[x] = "done" =>
                 /\ InFlight(x)' \/ pc'[x] = "done"
                 /\ InFlight(x)' => InFlight(x)
<1> USE DEF RequestInv
<1>1. UNCHANGED <<config, path>> /\ \A p : Counts(p)' = Counts(p)
  BY DEF RequestStep, Counts
<1>2. \E s : pc' = [pc EXCEPT ![r] = s]
  BY DEF RequestStep, Ends, Unwind, GoesOn, Observe, LowerGauge, Enter
<1>3. \A x \in Requests : x # r => pc'[x] = pc[x]
  BY <1>2 DEF RequestTypeOK
<1>4. \A x \in AllCounted : observed'[x] = observed[x]
  <2>1. CASE Observe(r)
    <3>1. r \notin AllCounted
      BY <2>1 DEF Observe, RouteInv, AllCounted
    <3> QED
      BY <2>1, <3>1 DEF Observe, RequestTypeOK, AllCounted
  <2>2. CASE ~Observe(r)
    BY <2>2 DEF RequestStep, Ends, GoesOn, LowerGauge
  <2> QED
    BY <2>1, <2>2
<1>5. AllCounted \subseteq AllCounted'
  BY <1>4 DEF AllCounted
<1>6. ASSUME NEW D \in SUBSET AllCounted, NEW l
      PROVE  /\ Counted(l)' \cap D = Counted(l) \cap D
             /\ \A k : CountedAs(l, k)' \cap D = CountedAs(l, k) \cap D
             /\ \A n : CountedIn(l, n)' \cap D = CountedIn(l, n) \cap D
             /\ \A i : InBucket(l, i, D)' = InBucket(l, i, D)
  <2>1. \A x \in D : x \in Requests /\ observed'[x] = observed[x] /\ path'[x] = path[x]
    BY <1>1, <1>4 DEF AllCounted
  <2>2. Counted(l)' \cap D = Counted(l) \cap D
    BY <2>1 DEF Counted
  <2>3. \A k : CountedAs(l, k)' \cap D = CountedAs(l, k) \cap D
    BY <2>1, <2>2 DEF CountedAs
  <2>4. \A n : CountedIn(l, n)' \cap D = CountedIn(l, n) \cap D
    BY <2>1, <2>2 DEF CountedIn
  <2>5. \A i : InBucket(l, i, D)' = InBucket(l, i, D)
    BY <2>1, <2>2 DEF InBucket
  <2> QED
    BY <2>2, <2>3, <2>4, <2>5
<1>7. ASSUME NEW x \in Requests, InFlight(x) \/ pc[x] = "done"
      PROVE  (InFlight(x)' \/ pc'[x] = "done") /\ (InFlight(x)' => InFlight(x))
  <2>1. CASE x # r
    BY <1>3, <1>7, <2>1 DEF InFlight
  <2>2. CASE x = r
    BY <1>7, <2>2 DEF RequestStep, Ends, Unwind, GoesOn, Observe, LowerGauge, Enter,
       InFlight, RequestTypeOK
  <2> QED
    BY <2>1, <2>2
<1> QED
  BY <1>1, <1>3, <1>5, <1>6, <1>7

\* Scrape s keeps its clone and its page.
Keeps(s) ==
    /\ past'[s] = past[s]
    /\ s \in DOMAIN snapshot' <=> s \in DOMAIN snapshot
    /\ s \in DOMAIN snapshot => snapshot'[s] = snapshot[s]
    /\ s \in DOMAIN text' <=> s \in DOMAIN text
    /\ s \in DOMAIN text => text'[s] = text[s]

\* What was over or in flight when scrape s came keeps being so.
LEMMA PastKept ==
    ASSUME RequestInv, ScrapeInv, NEW r \in Requests, RequestStep(r),
           NEW s \in Requests, past'[s] = past[s]
    PROVE  PastInv(s)'
<1>a. PastInv(s) /\ past[s].over \subseteq AllCounted /\ past[s].open \in SUBSET Requests
  BY DEF PastInv, ScrapeInv
<1>1. past'[s].over \subseteq AllCounted'
  BY <1>a, CountsGrow
<1>2. ASSUME NEW x \in past'[s].open
      PROVE  (InFlight(x)' \/ pc'[x] = "done") /\ Counts(path[x])'
  <2>1. x \in Requests /\ (InFlight(x) \/ pc[x] = "done") /\ Counts(path[x])
    BY <1>a DEF PastInv
  <2>2. InFlight(x)' \/ pc'[x] = "done"
    BY <2>1, CountsGrow
  <2>3. UNCHANGED <<config, path>>
    BY CountsGrow
  <2> QED
    BY <2>1, <2>2, <2>3 DEF Counts
<1> QED
  BY <1>1, <1>2 DEF PastInv

\* A scrape is not disturbed by the steps of the other requests.
LEMMA ScrapeUndisturbed ==
    ASSUME RequestInv, ScrapeInv, NEW r \in Requests, RequestStep(r),
           NEW s \in Requests, pc'[s] = pc[s], Keeps(s)
    PROVE  PastInv(s)' /\ SnapInv(s)' /\ TextInv(s)'
<1>a. PastInv(s) /\ SnapInv(s) /\ TextInv(s)
  BY DEF ScrapeInv
<1>b. past[s].over \subseteq AllCounted /\ past[s].open \in SUBSET Requests
  BY <1>a DEF PastInv, ScrapeInv
<1>1. PastInv(s)'
  BY PastKept DEF Keeps
<1>2. SnapInv(s)'
  <2>1. s \in DOMAIN snapshot' <=> pc'[s] = "load"
    BY <1>a DEF SnapInv, Keeps
  <2>2. ASSUME pc'[s] = "load"
        PROVE  (\E D \in SUBSET AllCounted :
                  /\ past[s].over \subseteq D
                  /\ Shows(snapshot[s].requests, snapshot[s].errors, snapshot[s].durations, D))'
    <3>1. PICK D \in SUBSET AllCounted :
             /\ past[s].over \subseteq D
             /\ Shows(snapshot[s].requests, snapshot[s].errors, snapshot[s].durations, D)
      BY <1>a, <2>2 DEF SnapInv
    <3>2. D \in SUBSET (AllCounted') /\ past'[s].over \subseteq D /\ snapshot'[s] = snapshot[s]
      BY <1>a, <2>1, <2>2, <3>1, CountsGrow DEF Keeps, SnapInv
    <3>3. \A l : /\ Counted(l)' \cap D = Counted(l) \cap D
                 /\ \A k : CountedAs(l, k)' \cap D = CountedAs(l, k) \cap D
                 /\ \A i : InBucket(l, i, D)' = InBucket(l, i, D)
      BY CountsGrow
    <3>4. Shows(snapshot[s].requests, snapshot[s].errors, snapshot[s].durations, D)'
      <4> DEFINE req == snapshot[s].requests
                 err == snapshot[s].errors
                 dur == snapshot[s].durations
      <4>1. req' = req /\ err' = err /\ dur' = dur
        BY <3>2
      <4> HIDE DEF req, err, dur
      <4>2. Shows(req, err, dur, D)
        BY <3>1 DEF req, err, dur
      <4>3. ASSUME NEW l \in Labels, NEW k \in Classes
            PROVE  (/\ req[l][k] = Cardinality(CountedAs(l, k) \cap D)
                    /\ err[l][k] = IF k >= 4 THEN req[l][k] ELSE 0)'
        <5>1. /\ req[l][k] = Cardinality(CountedAs(l, k) \cap D)
              /\ err[l][k] = IF k >= 4 THEN req[l][k] ELSE 0
          BY <4>2 DEF Shows
        <5>2. CountedAs(l, k)' \cap D = CountedAs(l, k) \cap D
          BY <3>3
        <5> QED
          BY <4>1, <5>1, <5>2
      <4>4. ASSUME NEW l \in Labels, NEW i \in Slots
            PROVE  (dur[l].buckets[i] = Cardinality(InBucket(l, i, D)))'
        <5>1. dur[l].buckets[i] = Cardinality(InBucket(l, i, D))
          BY <4>2 DEF Shows
        <5>2. InBucket(l, i, D)' = InBucket(l, i, D)
          BY <3>3
        <5> QED
          BY <4>1, <5>1, <5>2
      <4>5. ASSUME NEW l \in Labels
            PROVE  (/\ dur[l].count = req[l][1] + req[l][2] + req[l][3] + req[l][4] + req[l][5]
                    /\ dur[l].count = Cardinality(Counted(l) \cap D))'
        <5>1. /\ dur[l].count = req[l][1] + req[l][2] + req[l][3] + req[l][4] + req[l][5]
              /\ dur[l].count = Cardinality(Counted(l) \cap D)
          BY <4>2 DEF Shows
        <5>2. Counted(l)' \cap D = Counted(l) \cap D
          BY <3>3
        <5> QED
          BY <4>1, <5>1, <5>2
      <4>6. (req \in Counters /\ err \in Counters /\ dur \in Histogram)'
        BY <4>1, <4>2 DEF Shows, Counters, Histogram
      <4>7. Shows(req, err, dur, D)'
        BY <4>3, <4>4, <4>5, <4>6 DEF Shows
      <4> QED
        BY <4>7 DEF req, err, dur
    <3> QED
      BY <3>2, <3>4
  <2> QED
    BY <2>1, <2>2 DEF SnapInv
<1>3. TextInv(s)'
  <2>1. s \in DOMAIN text' <=> pc'[s] = "collect"
    BY <1>a DEF TextInv, Keeps
  <2>2. ASSUME pc'[s] = "collect"
        PROVE  (/\ text[s].inFlight \in Nat
                /\ Cardinality({x \in past[s].open : InFlight(x)}) <= text[s].inFlight
                /\ \E D \in SUBSET AllCounted :
                      past[s].over \subseteq D /\ Renders(text[s], D))'
    <3>1. PICK D \in SUBSET AllCounted : past[s].over \subseteq D /\ Renders(text[s], D)
      BY <1>a, <2>2 DEF TextInv
    <3>2. D \in SUBSET (AllCounted') /\ past'[s] = past[s] /\ text'[s] = text[s]
      BY <1>a, <2>1, <2>2, CountsGrow DEF Keeps, TextInv
    <3>3. \A l : /\ \A k : CountedAs(l, k)' \cap D = CountedAs(l, k) \cap D
                 /\ \A n : CountedIn(l, n)' \cap D = CountedIn(l, n) \cap D
      BY CountsGrow
    <3>4. Renders(text[s], D)'
      <4> DEFINE t == text[s]
      <4>1. t' = t
        BY <3>2
      <4> HIDE DEF t
      <4>2. Renders(t, D)
        BY <3>1 DEF t
      <4>3. ASSUME NEW l \in Labels, NEW k \in Classes
            PROVE  (/\ t.requests[l][k] = Cardinality(CountedAs(l, k) \cap D)
                    /\ t.errors[l][k] = IF k >= 4 THEN t.requests[l][k] ELSE 0)'
        <5>1. /\ t.requests[l][k] = Cardinality(CountedAs(l, k) \cap D)
              /\ t.errors[l][k] = IF k >= 4 THEN t.requests[l][k] ELSE 0
          BY <4>2 DEF Renders
        <5>2. CountedAs(l, k)' \cap D = CountedAs(l, k) \cap D
          BY <3>3
        <5> QED
          BY <4>1, <5>1, <5>2
      <4>4. ASSUME NEW l \in Labels, NEW i \in 1..Len(Buckets)
            PROVE  (t.le[l][i] = Cardinality(CountedIn(l, Buckets[i]) \cap D))'
        <5>1. t.le[l][i] = Cardinality(CountedIn(l, Buckets[i]) \cap D)
          BY <4>2 DEF Renders
        <5>2. CountedIn(l, Buckets[i])' \cap D = CountedIn(l, Buckets[i]) \cap D
          BY <3>3
        <5> QED
          BY <4>1, <5>1, <5>2
      <4>5. ASSUME NEW l \in Labels
            PROVE  (/\ t.count[l] = t.requests[l][1] + t.requests[l][2] + t.requests[l][3]
                                        + t.requests[l][4] + t.requests[l][5]
                    /\ t.le[l][Len(Buckets) + 1] = t.count[l])'
        BY <4>1, <4>2 DEF Renders
      <4>6. Renders(t, D)'
        BY <4>3, <4>4, <4>5 DEF Renders
      <4> QED
        BY <4>6 DEF t
    <3> DEFINE A == {x \in past[s].open : InFlight(x)}
               B == {x \in past'[s].open : InFlight(x)'}
    <3>5. A \in SUBSET Requests /\ B \in SUBSET A
      <4>1. ASSUME NEW x \in past[s].open, InFlight(x)' PROVE InFlight(x)
        BY <1>a, <1>b, <4>1, CountsGrow DEF PastInv
      <4> QED
        BY <1>b, <3>2, <4>1
    <3>6. Cardinality(B) \in Nat /\ Cardinality(A) \in Nat /\ Cardinality(B) <= Cardinality(A)
      <4> HIDE DEF A, B
      <4> QED
        BY <3>5, RequestsCount
    <3>7. text[s].inFlight \in Nat /\ Cardinality(A) <= text[s].inFlight
      BY <1>a, <2>2 DEF TextInv
    <3> QED
      BY <3>1, <3>2, <3>4, <3>6, <3>7
  <2> QED
    BY <2>1, <2>2 DEF TextInv
<1> QED
  BY <1>1, <1>2, <1>3

\* A step that changes no scrape leaves all of them as they were.
LEMMA QuietStep ==
    ASSUME RequestInv, ScrapeInv, NEW r \in Requests, RequestStep(r),
           UNCHANGED <<snapshot, text>>,
           pc[r] \notin {"load", "collect"}, pc'[r] \notin {"load", "collect"},
           past' \in [Requests -> [over : SUBSET Requests, open : SUBSET Requests]],
           \A s \in Requests : s # r => past'[s] = past[s],
           PastInv(r)'
    PROVE  ScrapeInv'
<1>1. ASSUME NEW s \in Requests, s # r PROVE PastInv(s)' /\ SnapInv(s)' /\ TextInv(s)'
  <2>1. pc'[s] = pc[s] /\ Keeps(s)
    BY <1>1, CountsGrow DEF Keeps
  <2> QED
    BY <2>1, ScrapeUndisturbed
<1>2. SnapInv(r)' /\ TextInv(r)'
  BY DEF SnapInv, TextInv, ScrapeInv
<1> QED
  BY <1>1, <1>2 DEF ScrapeInv

\* A request that comes, a scrape among them, notes what is over and in flight.
LEMMA ArriveScrapes ==
    ASSUME RequestInv, ScrapeInv, NEW r \in Requests, RequestStep(r), Arrive(r)
    PROVE  ScrapeInv'
<1> DEFINE over == {x \in Requests : pc[x] = "done" /\ Counts(path[x])}
           open == {x \in Requests : InFlight(x) /\ Counts(path[x])}
<1>1. pc[r] = "idle" /\ UNCHANGED <<snapshot, text>>
  BY DEF Arrive, BeginInFlight, metricsVars
<1>2. pc'[r] \notin {"load", "collect"}
  BY DEF Arrive, Enter, Unwind, RequestInv, RequestTypeOK
<1>3. past' = past \/ past' = [past EXCEPT ![r] = [over |-> over, open |-> open]]
  BY DEF Arrive, ScrapeInv
<1>4. /\ past' \in [Requests -> [over : SUBSET Requests, open : SUBSET Requests]]
      /\ \A s \in Requests : s # r => past'[s] = past[s]
  BY <1>3 DEF ScrapeInv
<1>5. PastInv(r)'
  <2>1. CASE past' = past
    BY <2>1, PastKept
  <2>2. CASE past' = [past EXCEPT ![r] = [over |-> over, open |-> open]]
    <3>1. past'[r].over = over /\ past'[r].open = open
      BY <2>2 DEF ScrapeInv
    <3>2. over \subseteq AllCounted
      BY DEF RequestInv, RouteInv, AllCounted
    <3>3. AllCounted \subseteq AllCounted' /\ UNCHANGED <<config, path>>
      BY CountsGrow
    <3>4. \A x \in open : (InFlight(x)' \/ pc'[x] = "done") /\ Counts(path[x])
      BY CountsGrow
    <3>5. \A x \in open : (InFlight(x)' \/ pc'[x] = "done") /\ Counts(path[x])'
      BY <3>3, <3>4 DEF Counts
    <3> QED
      BY <3>1, <3>2, <3>3, <3>5 DEF PastInv
  <2> QED
    BY <1>3, <2>1, <2>2
<1> QED
  BY <1>1, <1>2, <1>4, <1>5, QuietStep

\* A scrape clones the counters of this moment, renders the clone with the gauge
\* of a later one, and sends the page.
LEMMA ScrapeProceeds ==
    ASSUME RequestInv, CountInv, ScrapeInv, NEW r \in Requests, RequestStep(r),
           Scrape(r) \/ Collect(r)
    PROVE  ScrapeInv'
<1>a. PastInv(r) /\ SnapInv(r) /\ TextInv(r) /\ past[r].open \in SUBSET Requests
  BY DEF ScrapeInv
<1>b. pc \in [Requests -> {"idle", "probe", "scrape", "clone", "load", "collect",
                            "breaker", "serve", "observe", "gauge", "done"}]
  BY DEF RequestInv, RequestTypeOK
<1>c. ASSUME NEW s \in Requests, s # r, Keeps(s)
      PROVE  PastInv(s)' /\ SnapInv(s)' /\ TextInv(s)'
  BY <1>c, CountsGrow, ScrapeUndisturbed
<1>1. CASE ScrapeStep(r, "scrape", "clone") /\ RLock(r)
  <2>1. /\ UNCHANGED <<past, snapshot, text>> /\ pc[r] = "scrape" /\ pc'[r] = "clone"
    BY <1>1, <1>b DEF ScrapeStep, RLock, Enter
  <2>2. PastInv(r)'
    BY <2>1, PastKept
  <2> QED
    BY <2>1, <2>2, QuietStep DEF ScrapeInv
<1>2. CASE ScrapeStep(r, "clone", "load") /\ CloneMetrics(r)
  <2>1. /\ UNCHANGED <<past, text, observed, path>> /\ pc[r] = "clone" /\ pc'[r] = "load"
        /\ snapshot' = With(snapshot, r,
              [requests |-> requests, errors |-> errors, durations |-> durations])
    BY <1>2, <1>b DEF ScrapeStep, CloneMetrics, Enter
  <2>2. /\ DOMAIN snapshot' = DOMAIN snapshot \cup {r}
        /\ snapshot'[r] = [requests |-> requests, errors |-> errors, durations |-> durations]
        /\ \A s \in DOMAIN snapshot : s # r => snapshot'[s] = snapshot[s]
    BY <2>1 DEF With
  <2>3. \A s \in Requests : s # r => Keeps(s)
    BY <2>1, <2>2 DEF Keeps
  <2>4. PastInv(r)'
    BY <2>1, PastKept
  <2>5. SnapInv(r)'
    <3>1. /\ AllCounted' = AllCounted
          /\ \A l, k : CountedAs(l, k)' = CountedAs(l, k)
          /\ \A l : Counted(l)' = Counted(l)
          /\ \A l, i, D : InBucket(l, i, D)' = InBucket(l, i, D)
      BY <2>1 DEF AllCounted, Counted, CountedAs, InBucket
    <3> DEFINE req == snapshot[r].requests
               err == snapshot[r].errors
               dur == snapshot[r].durations
    <3>2. req' = requests /\ err' = errors /\ dur' = durations
      BY <2>2
    <3> HIDE DEF req, err, dur
    <3>3. PICK D : D = AllCounted
      OBVIOUS
    <3>4. Shows(requests, errors, durations, D)
      BY <3>3 DEF CountInv
    <3>5. Shows(req, err, dur, D)'
      BY <3>1, <3>2, <3>4 DEF Shows
    <3>6. D \in SUBSET (AllCounted') /\ past'[r].over \subseteq D
      BY <1>a, <2>1, <3>1, <3>3 DEF PastInv
    <3> QED
      BY <2>1, <2>2, <3>5, <3>6 DEF SnapInv, req, err, dur
  <2>6. TextInv(r)'
    BY <1>a, <2>1 DEF TextInv
  <2>7. DOMAIN snapshot' \subseteq Requests /\ DOMAIN text' \subseteq Requests
    BY <2>1, <2>2 DEF ScrapeInv
  <2> QED
    BY <1>c, <2>1, <2>3, <2>4, <2>5, <2>6, <2>7 DEF ScrapeInv
<1>3. CASE ScrapeStep(r, "load", "collect") /\ RenderPrometheus(r)
  <2> DEFINE d == snapshot[r].durations
             page == [inFlight |-> inFlight,
                      requests |-> snapshot[r].requests,
                      errors   |-> snapshot[r].errors,
                      le       |-> [l \in Labels |-> Cumulative(d[l].buckets)],
                      count    |-> [l \in Labels |-> d[l].count]]
  <2>1. /\ UNCHANGED <<past, observed, path>> /\ pc[r] = "load" /\ pc'[r] = "collect"
        /\ text' = With(text, r, page) /\ snapshot' = Without(snapshot, r)
    BY <1>3, <1>b DEF ScrapeStep, RenderPrometheus, cloneDurationMetrics, Enter
  <2>a. /\ page.inFlight = inFlight
        /\ page.requests = snapshot[r].requests /\ page.errors = snapshot[r].errors
        /\ page.le = [l \in Labels |-> Cumulative(d[l].buckets)]
        /\ page.count = [l \in Labels |-> d[l].count]
    OBVIOUS
  <2> HIDE DEF page
  <2>2. /\ DOMAIN text' = DOMAIN text \cup {r} /\ text'[r] = page
        /\ \A s \in DOMAIN text : s # r => text'[s] = text[s]
        /\ DOMAIN snapshot' = DOMAIN snapshot \ {r}
        /\ \A s \in DOMAIN snapshot : s # r => snapshot'[s] = snapshot[s]
    BY <2>1 DEF With, Without, Restrict
  <2>3. \A s \in Requests : s # r => Keeps(s)
    BY <2>1, <2>2 DEF Keeps
  <2>4. PastInv(r)'
    BY <2>1, PastKept
  <2>5. SnapInv(r)'
    BY <2>1, <2>2 DEF SnapInv
  <2>6. TextInv(r)'
    <3>1. /\ AllCounted' = AllCounted
          /\ \A l, k : CountedAs(l, k)' = CountedAs(l, k)
          /\ \A l, n : CountedIn(l, n)' = CountedIn(l, n)
      BY <2>1 DEF AllCounted, Counted, CountedAs, CountedIn
    <3>2. PICK D \in SUBSET AllCounted :
             /\ past[r].over \subseteq D
             /\ Shows(snapshot[r].requests, snapshot[r].errors, snapshot[r].durations, D)
      BY <1>a, <2>1 DEF SnapInv
    <3>3. Renders(page, D)
      BY <2>a, <3>2, PageRenders DEF RequestInv, AllCounted
    <3>4. Renders(text[r], D)'
      BY <2>2, <3>1, <3>3 DEF Renders
    <3> DEFINE B == {x \in past[r].open : InFlight(x)}'
    <3>5. Gauged \in SUBSET Requests /\ B \in SUBSET Gauged
      <4>1. ASSUME NEW x \in past[r].open, InFlight(x)' PROVE x \in Gauged
        <5>1. x \in Requests /\ (InFlight(x) \/ pc[x] = "done") /\ Counts(path[x])
          BY <1>a, <4>1 DEF PastInv
        <5>2. InFlight(x)
          BY <4>1, <5>1, CountsGrow
        <5> QED
          BY <5>1, <5>2 DEF Gauged
      <4> QED
        BY <2>1, <4>1 DEF Gauged
    <3>6. Cardinality(B) <= inFlight /\ inFlight \in Nat
      <4> HIDE DEF B
      <4> QED
        BY <3>5, RequestsCount DEF CountInv
    <3> QED
      BY <2>1, <2>2, <2>a, <3>1, <3>2, <3>4, <3>6 DEF TextInv
  <2>7. DOMAIN snapshot' \subseteq Requests /\ DOMAIN text' \subseteq Requests
    BY <2>1, <2>2 DEF ScrapeInv
  <2> QED
    BY <1>c, <2>1, <2>3, <2>4, <2>5, <2>6, <2>7 DEF ScrapeInv
<1>4. CASE Collect(r)
  <2>1. /\ pc[r] = "collect" /\ UNCHANGED snapshot /\ text' = Without(text, r)
        /\ past' = [past EXCEPT ![r] = [over |-> {}, open |-> {}]]
    BY <1>4 DEF Collect, SendPage
  <2>2. pc'[r] \in {"observe", "done"}
    BY <1>4, <1>b DEF Collect, Unwind, Enter
  <2>3. /\ DOMAIN text' = DOMAIN text \ {r}
        /\ \A s \in DOMAIN text : s # r => text'[s] = text[s]
    BY <2>1 DEF Without, Restrict
  <2>4. /\ past' \in [Requests -> [over : SUBSET Requests, open : SUBSET Requests]]
        /\ past'[r].over = {} /\ past'[r].open = {}
        /\ \A s \in Requests : s # r => Keeps(s)
    BY <2>1, <2>3 DEF ScrapeInv, Keeps
  <2>5. PastInv(r)' /\ SnapInv(r)' /\ TextInv(r)'
    BY <1>a, <2>1, <2>2, <2>3, <2>4 DEF PastInv, SnapInv, TextInv
  <2> QED
    BY <1>c, <2>1, <2>3, <2>4, <2>5 DEF ScrapeInv
<1> QED
  BY <1>1, <1>2, <1>3, <1>4 DEF Scrape

\* The deferred observe takes the request into one counter, and into one bucket.
LEMMA ObserveCounts ==
    ASSUME RequestInv, CountInv, NEW r \in Requests, Observe(r)
    PROVE  CountInv'
<1> USE DEF RequestInv
<1>a. PICK seconds \in Latencies[r] :
         /\ observe(PathLabel(path[r]), ObservedStatus(r), seconds)
         /\ observed' = [observed EXCEPT ![r] =
                            [code |-> ObservedStatus(r), seconds |-> seconds]]
  BY DEF Observe
<1> DEFINE l0 == PathLabel(path[r])
           c0 == ObservedStatus(r)
           k0 == ClassOf(c0)
           i0 == BucketOf(seconds)
<1>b. pc[r] = "observe" /\ pc' = [pc EXCEPT ![r] = "gauge"] /\ UNCHANGED <<config, path>>
  BY DEF Observe, Enter
<1>c. seconds \in Nat /\ i0 \in Slots
  BY PipelineAssumption, BucketBound
<1>d. l0 \in Labels
  BY <1>b, CountedPaths DEF RouteInv, RequestTypeOK
<1>e. c0 \in Statuses \ {0}
  BY DEF ObservedStatus, StatusOf, Statuses, Finals, RequestTypeOK
<1>f. k0 \in Classes /\ (c0 >= 400 <=> k0 >= 4)
  <2> HIDE DEF c0
  <2>1. c0 \in {103, 200, 204, 307, 404, 413, 429, 500, 503}
    BY <1>e DEF Statuses, Finals
  <2> QED
    BY <2>1 DEF ClassOf, Classes
<1>g. /\ requests' = [requests EXCEPT ![l0][k0] = @ + 1]
      /\ errors' = [errors EXCEPT ![l0][k0] = IF c0 >= 400 THEN @ + 1 ELSE @]
      /\ durations' = [durations EXCEPT ![l0].buckets[i0] = @ + 1, ![l0].count = @ + 1]
      /\ inFlight' = inFlight
  BY <1>a DEF observe
<1>h. /\ observed'[r].code = c0 /\ observed'[r].seconds = seconds
      /\ \A x \in Requests : x # r => observed'[x] = observed[x]
      /\ r \notin AllCounted
  BY <1>a, <1>b DEF RequestTypeOK, RouteInv, AllCounted
<1>i. c0 # 0 /\ PathLabel(path[r]) = l0 /\ ClassOf(c0) = k0 /\ BucketOf(seconds) = i0
  BY <1>e
<1>j. requests \in Counters /\ errors \in Counters /\ durations \in Histogram
  BY DEF CountInv, Shows
<1> HIDE DEF l0, c0, k0, i0
<1>1. /\ requests' \in Counters
      /\ \A l \in Labels, k \in Classes :
            requests'[l][k] = IF l = l0 /\ k = k0 THEN requests[l][k] + 1 ELSE requests[l][k]
  BY <1>d, <1>f, <1>g, <1>j DEF Counters
<1>2. /\ errors' \in Counters
      /\ \A l \in Labels, k \in Classes :
            errors'[l][k] = IF l = l0 /\ k = k0 /\ c0 >= 400 THEN errors[l][k] + 1
                                                             ELSE errors[l][k]
  BY <1>d, <1>f, <1>g, <1>j DEF Counters
<1>3. /\ durations' \in Histogram
      /\ \A l \in Labels :
            /\ durations'[l].count = IF l = l0 THEN durations[l].count + 1 ELSE durations[l].count
            /\ \A i \in Slots : durations'[l].buckets[i] =
                  IF l = l0 /\ i = i0 THEN durations[l].buckets[i] + 1 ELSE durations[l].buckets[i]
  <2>1. durations' = [durations EXCEPT ![l0] =
                        [buckets |-> [durations[l0].buckets EXCEPT ![i0] = @ + 1],
                         count   |-> durations[l0].count + 1]]
    BY <1>d, <1>g, <1>j DEF Histogram
  <2>2. durations[l0] \in [buckets : [Slots -> Nat], count : Nat]
    BY <1>d, <1>j DEF Histogram
  <2>3. [buckets |-> [durations[l0].buckets EXCEPT ![i0] = @ + 1],
         count   |-> durations[l0].count + 1] \in [buckets : [Slots -> Nat], count : Nat]
    BY <1>c, <2>2
  <2>4. durations' \in Histogram
    BY <1>d, <1>j, <2>1, <2>3 DEF Histogram
  <2>5. ASSUME NEW l \in Labels, l # l0 PROVE durations'[l] = durations[l]
    BY <1>j, <2>1, <2>5 DEF Histogram
  <2>6. /\ durations'[l0].count = durations[l0].count + 1
        /\ \A i \in Slots : durations'[l0].buckets[i] =
              IF i = i0 THEN durations[l0].buckets[i] + 1 ELSE durations[l0].buckets[i]
    BY <1>c, <1>d, <1>j, <2>1, <2>2 DEF Histogram
  <2> QED
    BY <2>4, <2>5, <2>6
<1>4. AllCounted' = AllCounted \cup {r}
  BY <1>h, <1>i DEF AllCounted
<1>5. ASSUME NEW l, NEW k
      PROVE  /\ (CountedAs(l, k) \cap AllCounted)' =
                   IF l = l0 /\ k = k0 THEN (CountedAs(l, k) \cap AllCounted) \cup {r}
                                       ELSE CountedAs(l, k) \cap AllCounted
             /\ (Counted(l) \cap AllCounted)' =
                   IF l = l0 THEN (Counted(l) \cap AllCounted) \cup {r}
                             ELSE Counted(l) \cap AllCounted
  BY <1>b, <1>h, <1>i DEF CountedAs, Counted, AllCounted
<1>6. ASSUME NEW l, NEW i
      PROVE  InBucket(l, i, AllCounted)' =
                IF l = l0 /\ i = i0 THEN InBucket(l, i, AllCounted) \cup {r}
                                    ELSE InBucket(l, i, AllCounted)
  BY <1>b, <1>h, <1>i DEF InBucket, Counted, AllCounted
<1>7. \A A \in SUBSET AllCounted : Cardinality(A) \in Nat /\ Cardinality(A \cup {r}) = Cardinality(A) + 1
  BY <1>h, RequestsCount DEF AllCounted
<1>8. ASSUME NEW l \in Labels
      PROVE  /\ \A k \in Classes :
                   /\ requests'[l][k] = Cardinality((CountedAs(l, k) \cap AllCounted)')
                   /\ errors'[l][k] = IF k >= 4 THEN requests'[l][k] ELSE 0
             /\ durations'[l].count = Cardinality((Counted(l) \cap AllCounted)')
             /\ durations'[l].count = requests'[l][1] + requests'[l][2] + requests'[l][3]
                                         + requests'[l][4] + requests'[l][5]
             /\ \A i \in Slots : durations'[l].buckets[i] = Cardinality(InBucket(l, i, AllCounted)')
  <2>0. Shows(requests, errors, durations, AllCounted)
    BY DEF CountInv
  <2>1. ASSUME NEW k \in Classes
        PROVE  /\ requests'[l][k] = Cardinality((CountedAs(l, k) \cap AllCounted)')
               /\ errors'[l][k] = IF k >= 4 THEN requests'[l][k] ELSE 0
    <3>1. requests'[l][k] = Cardinality((CountedAs(l, k) \cap AllCounted)')
      <4> DEFINE C == CountedAs(l, k) \cap AllCounted
      <4>1. C \in SUBSET AllCounted /\ requests[l][k] = Cardinality(C)
        BY <2>0 DEF Shows
      <4>2. C' = IF l = l0 /\ k = k0 THEN C \cup {r} ELSE C
        BY <1>5
      <4> HIDE DEF C
      <4>3. requests'[l][k] = Cardinality(C')
        BY <1>1, <1>7, <4>1, <4>2
      <4> QED
        BY <4>3 DEF C
    <3>2. errors[l][k] = (IF k >= 4 THEN requests[l][k] ELSE 0) /\ requests[l][k] \in Nat
      BY <1>j, <2>0 DEF Shows, Counters
    <3>3. errors'[l][k] = IF k >= 4 THEN requests'[l][k] ELSE 0
      BY <1>1, <1>2, <1>f, <3>2
    <3> QED
      BY <3>1, <3>3
  <2>2. durations'[l].count = Cardinality((Counted(l) \cap AllCounted)')
    <3> DEFINE C == Counted(l) \cap AllCounted
    <3>1. C \in SUBSET AllCounted /\ durations[l].count = Cardinality(C)
      BY <2>0 DEF Shows
    <3>2. C' = IF l = l0 THEN C \cup {r} ELSE C
      BY <1>5
    <3> HIDE DEF C
    <3>3. durations'[l].count = Cardinality(C')
      BY <1>3, <1>7, <3>1, <3>2
    <3> QED
      BY <3>3 DEF C
  <2>3. durations'[l].count = requests'[l][1] + requests'[l][2] + requests'[l][3]
                                 + requests'[l][4] + requests'[l][5]
    <3>1. /\ durations[l].count = requests[l][1] + requests[l][2] + requests[l][3]
                                     + requests[l][4] + requests[l][5]
          /\ \A k \in Classes : requests[l][k] \in Nat
      BY <1>j, <2>0 DEF Shows, Counters
    <3>2. k0 \in {1, 2, 3, 4, 5} /\ Classes = {1, 2, 3, 4, 5}
      BY <1>f DEF Classes
    <3> QED
      BY <1>1, <1>3, <3>1, <3>2
  <2>4. ASSUME NEW i \in Slots
        PROVE  durations'[l].buckets[i] = Cardinality(InBucket(l, i, AllCounted)')
    <3> DEFINE C == InBucket(l, i, AllCounted)
    <3>1. C \in SUBSET AllCounted /\ durations[l].buckets[i] = Cardinality(C)
      BY <2>0 DEF Shows, InBucket
    <3>2. C' = IF l = l0 /\ i = i0 THEN C \cup {r} ELSE C
      BY <1>6
    <3> HIDE DEF C
    <3>3. durations'[l].buckets[i] = Cardinality(C')
      BY <1>3, <1>7, <3>1, <3>2
    <3> QED
      BY <3>3 DEF C
  <2> QED
    BY <2>1, <2>2, <2>3, <2>4
<1>9. Shows(requests, errors, durations, AllCounted)'
  BY <1>1, <1>2, <1>3, <1>8 DEF Shows
<1>10. Gauged' = Gauged
  BY <1>b DEF Gauged, InFlight, Counts, RequestTypeOK
<1> QED
  BY <1>9, <1>10, <1>g DEF CountInv

\* The collector shows the same requests when nothing is counted.
LEMMA SameCounters ==
    ASSUME CountInv, UNCHANGED <<requests, errors, durations, observed, path>>
    PROVE  Shows(requests, errors, durations, AllCounted)'
<1>1. /\ AllCounted' = AllCounted
      /\ \A l, k : CountedAs(l, k)' = CountedAs(l, k)
      /\ \A l : Counted(l)' = Counted(l)
      /\ \A l, i : InBucket(l, i, AllCounted)' = InBucket(l, i, AllCounted)
  BY DEF AllCounted, Counted, CountedAs, InBucket
<1> QED
  BY <1>1 DEF CountInv, Shows

\* A counted request is in the gauge from its arrival to its end, on every path
\* through the layers, and a request that is not counted never is.
LEMMA GaugeKeeps ==
    ASSUME RequestInv, CountInv, NEW r \in Requests, RequestStep(r), ~Observe(r),
           Arrive(r) \/ Step(r) \/ Answers(r) \/ Handler(r) \/ Collect(r)
    PROVE  CountInv'
<1> USE DEF RequestInv
<1>a. /\ UNCHANGED <<config, path>> /\ \A p : Counts(p)' = Counts(p)
      /\ \A x \in Requests : x # r => pc'[x] = pc[x]
  BY CountsGrow
<1>b. \A x \in Requests : x # r => (x \in Gauged' <=> x \in Gauged)
  <2>1. \A x \in Requests : Counts(path[x])' = Counts(path[x])
    BY <1>a DEF Counts
  <2> QED
    BY <1>a, <2>1 DEF Gauged, InFlight
<1>c. r \in Gauged' <=> pc'[r] \in {"breaker", "serve", "observe", "gauge"} /\ Counts(path[r])
  BY <1>a DEF Gauged, InFlight, Counts
<1>d. r \in Gauged <=> pc[r] \in {"breaker", "serve", "observe", "gauge"} /\ Counts(path[r])
  BY DEF Gauged, InFlight
<1>e. Gauged \in SUBSET Requests /\ Gauged' \in SUBSET Requests
  BY DEF Gauged
<1>f. path[r] \in systemPaths => ~Counts(path[r])
  BY CountedPaths DEF RequestTypeOK
<1>g. observed' = observed
  BY DEF RequestStep, Ends, GoesOn, LowerGauge
<1>h. ASSUME NEW s, Enter(r, s) PROVE pc'[r] = s
  BY <1>h DEF Enter, RequestTypeOK
<1>i. ASSUME NEW w, NEW panic, NEW sent, Unwind(r, w, panic, sent)
      PROVE  pc'[r] = IF Counts(path[r]) THEN "observe" ELSE "done"
  BY <1>i DEF Unwind, Enter, RequestTypeOK
<1>1. CASE Arrive(r) /\ Counts(path[r])
  <2>1. /\ pc[r] = "idle" /\ inFlight' = inFlight + 1
        /\ UNCHANGED <<requests, errors, durations>>
    BY <1>1 DEF Arrive, BeginInFlight, counterVars
  <2>2. pc'[r] \in {"breaker", "serve", "observe"}
    BY <1>1, <1>f, <1>h, <1>i DEF Arrive, IsSystem
  <2>3. Gauged' = Gauged \cup {r} /\ r \notin Gauged
    BY <1>1, <1>b, <1>c, <1>d, <1>e, <2>1, <2>2
  <2>4. inFlight' = Cardinality(Gauged')
    BY <1>e, <2>1, <2>3, RequestsCount DEF CountInv
  <2> QED
    BY <1>a, <1>g, <2>1, <2>4, SameCounters DEF CountInv
<1>2. CASE LowerGauge(r)
  <2>1. /\ pc[r] = "gauge" /\ pc'[r] = "done" /\ inFlight' = inFlight - 1
        /\ UNCHANGED <<requests, errors, durations>>
    BY <1>2, <1>h DEF LowerGauge, EndInFlight, counterVars
  <2>2. Gauged' = Gauged \ {r} /\ r \in Gauged
    BY <1>b, <1>c, <1>d, <1>e, <2>1 DEF RouteInv
  <2>3. inFlight' = Cardinality(Gauged')
    BY <1>e, <2>1, <2>2, RequestsCount DEF CountInv
  <2> QED
    BY <1>a, <1>g, <2>1, <2>3, SameCounters DEF CountInv
<1>3. CASE \/ Arrive(r) /\ ~Counts(path[r])
           \/ Admit(r) \/ Refuse(r) \/ Answers(r) \/ Handler(r)
           \/ Probe(r) \/ Scrape(r) \/ Collect(r)
  <2>1. UNCHANGED <<inFlight, requests, errors, durations>>
    BY <1>3 DEF Arrive, Admit, Refuse, Answers, Handler, Probe, Scrape, Collect, SendPage,
       RLock, CloneMetrics, RenderPrometheus, metricsVars, counterVars
  <2>2. r \in Gauged' <=> r \in Gauged
    <3>1. CASE ~Counts(path[r])
      BY <1>c, <1>d, <3>1
    <3>2. CASE Probe(r) \/ Scrape(r) \/ Collect(r)
      <4>1. path[r] \in systemPaths
        BY <3>2, ZenonT(60) DEF Probe, Scrape, ScrapeStep, Collect, RouteInv
      <4> QED
        BY <1>f, <3>1, <4>1
    <3>3. CASE Admit(r)
      BY <1>c, <1>d, <1>h, <3>3 DEF Admit
    <3>4. CASE Refuse(r) \/ Answers(r) \/ Handler(r)
      <4>1. /\ pc[r] \in {"breaker", "serve"}
            /\ pc'[r] = IF Counts(path[r]) THEN "observe" ELSE "done"
        <5>1. CASE Refuse(r)
          BY <1>i, <5>1 DEF Refuse
        <5>2. CASE Answers(r)
          <6>1. pc[r] = "serve" /\ \E w : Unwind(r, w, FALSE, FALSE)
            BY <5>2 DEF Answers, ExecuteEnds
          <6> QED
            BY <1>i, <6>1
        <5>3. CASE Handler(r)
          BY <1>i, <5>3 DEF Handler, ExecuteEnds
        <5> QED
          BY <3>4, <5>1, <5>2, <5>3
      <4> QED
        BY <1>c, <1>d, <4>1
    <3> QED
      BY <1>3, <3>1, <3>2, <3>3, <3>4
  <2>3. Gauged' = Gauged
    BY <1>b, <1>e, <2>2
  <2> QED
    BY <1>a, <1>g, <2>1, <2>3, SameCounters DEF CountInv
<1> QED
  BY <1>1, <1>2, <1>3 DEF Step

\* The steps that are neither an arrival nor a scrape's leave the scrapes alone.
LEMMA RequestsScrape ==
    ASSUME RequestInv, CountInv, ScrapeInv, NEW r \in Requests, RequestStep(r),
           Arrive(r) \/ Step(r) \/ Answers(r) \/ Handler(r) \/ Collect(r)
    PROVE  ScrapeInv'
<1>1. CASE Arrive(r)
  BY <1>1, ArriveScrapes
<1>2. CASE Scrape(r) \/ Collect(r)
  BY <1>2, ScrapeProceeds
<1>3. CASE \/ Admit(r) \/ Refuse(r) \/ Probe(r) \/ Observe(r) \/ LowerGauge(r)
           \/ Answers(r) \/ Handler(r)
  <2>1. /\ UNCHANGED <<past, snapshot, text>>
        /\ pc[r] \in {"breaker", "serve", "probe", "observe", "gauge"}
    BY <1>3 DEF Admit, Refuse, Probe, Observe, LowerGauge, Answers, Handler, observe,
       EndInFlight, metricsVars
  <2>2. pc'[r] \in {"serve", "observe", "gauge", "done"}
    BY <1>3, ZenonT(60) DEF Admit, Refuse, Probe, Observe, LowerGauge, Answers, Handler, ExecuteEnds,
       Unwind, Enter, RequestInv, RequestTypeOK
  <2>3. PastInv(r)'
    BY <2>1, PastKept
  <2> QED
    BY <2>1, <2>2, <2>3, QuietStep DEF ScrapeInv
<1> QED
  BY <1>1, <1>2, <1>3 DEF Step

\* HTTPInv holds before the first request.
LEMMA InitHTTP == Init => HTTPInv
<1> SUFFICES ASSUME Init PROVE HTTPInv
  OBVIOUS
<1>1. RequestInv
  BY InitRequest
<1>2. AllCounted = {} /\ Gauged = {} /\ Cardinality({}) = 0
  BY FS_EmptySet DEF Init, AllCounted, Gauged, InFlight
<1>3. CountInv
  <2>1. /\ requests = [l \in Labels |-> [k \in Classes |-> 0]]
        /\ errors = [l \in Labels |-> [k \in Classes |-> 0]]
        /\ durations = [l \in Labels |-> [buckets |-> [i \in Slots |-> 0], count |-> 0]]
    BY DEF Init, NewHTTPMetrics
  <2>2. requests \in Counters /\ errors \in Counters /\ durations \in Histogram
    BY <2>1 DEF Counters, Histogram
  <2>3. \A l, i : InBucket(l, i, AllCounted) = {}
    BY <1>2 DEF InBucket
  <2>4. \A l, k : CountedAs(l, k) \cap AllCounted = {} /\ Counted(l) \cap AllCounted = {}
    BY <1>2
  <2>5. Shows(requests, errors, durations, AllCounted)
    <3>1. \A l \in Labels :
             /\ \A k \in Classes : requests[l][k] = 0 /\ errors[l][k] = 0
             /\ durations[l].count = 0 /\ \A i \in Slots : durations[l].buckets[i] = 0
      BY <2>1
    <3>2. \A l \in Labels : 0 = requests[l][1] + requests[l][2] + requests[l][3]
                                   + requests[l][4] + requests[l][5]
      BY <3>1 DEF Classes
    <3> QED
      BY <1>2, <2>2, <2>3, <2>4, <3>1, <3>2 DEF Shows
  <2> QED
    BY <1>2, <2>5 DEF Init, NewHTTPMetrics, CountInv
<1>4. ScrapeInv
  <2>1. /\ DOMAIN snapshot = {} /\ DOMAIN text = {}
        /\ past = [r \in Requests |-> [over |-> {}, open |-> {}]]
        /\ pc = [r \in Requests |-> "idle"]
    BY DEF Init, NewHTTPMetrics
  <2> QED
    BY <2>1 DEF ScrapeInv, PastInv, SnapInv, TextInv
<1> QED
  BY <1>1, <1>3, <1>4 DEF HTTPInv

\* Every step of every request, and of the breaker's timers, keeps it.
LEMMA NextHTTP == HTTPInv /\ [Next]_vars => HTTPInv'
<1>a. SUFFICES ASSUME HTTPInv, [Next]_vars PROVE HTTPInv'
  OBVIOUS
<1>b. RequestInv'
  BY <1>a, NextRequest DEF HTTPInv
<1>1. ASSUME NEW r \in Requests,
             Arrive(r) \/ Step(r) \/ Answers(r) \/ Handler(r) \/ Collect(r)
      PROVE  CountInv' /\ ScrapeInv'
  <2>1. RequestInv /\ CountInv /\ ScrapeInv /\ RequestStep(r)
    BY <1>a, <1>1, RequestSteps DEF HTTPInv, RequestInv
  <2>2. CountInv'
    BY <1>1, <2>1, ObserveCounts, GaugeKeeps
  <2>3. ScrapeInv'
    BY <1>1, <2>1, RequestsScrape
  <2> QED
    BY <2>2, <2>3
<1>2. ASSUME UNCHANGED <<config, requestVars, metricsVars>> PROVE CountInv' /\ ScrapeInv'
  <2>1. UNCHANGED <<config, path, pc, observed, past, inFlight, requests, errors, durations,
                    snapshot, text>>
    BY <1>2 DEF requestVars, metricsVars
  <2>2. Gauged' = Gauged /\ AllCounted' = AllCounted
    BY <2>1 DEF Gauged, InFlight, Counts, AllCounted
  <2>3. CountInv'
    BY <1>a, <2>1, <2>2, SameCounters DEF CountInv, HTTPInv
  <2>4. ScrapeInv'
    <3>1. /\ \A l : Counted(l)' = Counted(l)
          /\ \A l, k : CountedAs(l, k)' = CountedAs(l, k)
          /\ \A l, n : CountedIn(l, n)' = CountedIn(l, n)
          /\ \A l, i, D : InBucket(l, i, D)' = InBucket(l, i, D)
          /\ \A r : InFlight(r)' = InFlight(r) /\ Counts(path[r])' = Counts(path[r])
      BY <2>1 DEF Counted, CountedAs, CountedIn, InBucket, InFlight, Counts
    <3>2. \A s : PastInv(s) => PastInv(s)'
      BY <2>1, <2>2, <3>1 DEF PastInv
    <3>3. ASSUME NEW s, NEW D,
                 Shows(snapshot[s].requests, snapshot[s].errors, snapshot[s].durations, D)
          PROVE  Shows(snapshot[s].requests, snapshot[s].errors, snapshot[s].durations, D)'
      BY <2>1, <3>1, <3>3 DEF Shows
    <3>4. ASSUME NEW s, NEW D, Renders(text[s], D) PROVE Renders(text[s], D)'
      BY <2>1, <3>1, <3>4 DEF Renders
    <3>5. \A s : SnapInv(s) => SnapInv(s)'
      BY <2>1, <2>2, <3>3 DEF SnapInv
    <3>6. \A s : TextInv(s) => TextInv(s)'
      BY <2>1, <2>2, <3>1, <3>4 DEF TextInv
    <3> QED
      BY <1>a, <2>1, <3>2, <3>5, <3>6 DEF HTTPInv, ScrapeInv
  <2> QED
    BY <2>3, <2>4
<1>3. Expire \/ UNCHANGED vars => UNCHANGED <<config, requestVars, metricsVars>>
  BY DEF Expire, vars
<1> QED
  BY <1>a, <1>b, <1>1, <1>2, <1>3 DEF Next, HTTPInv

\* HTTPInv is an invariant of the handler NewHTTPRuntime assembles.
THEOREM HTTPInvariance == Spec => []HTTPInv
  BY InitHTTP, NextHTTP, PTL DEF Spec

\* A scrape, put together in several steps while requests go on, shows one state
\* of the collector since it came, for any number of requests and concurrent
\* scrapes and for any buckets; a request in flight throughout is in its gauge.
THEOREM ScrapeIsFaithful == Spec => []ScrapeFaithful
<1>1. HTTPInv => ScrapeFaithful
  <2>1. SUFFICES ASSUME HTTPInv, NEW s \in DOMAIN text
                 PROVE  LET t == text[s] IN
         /\ \A l \in Labels :
                 /\ t.le[l][Len(Buckets) + 1] = t.count[l]
                 /\ t.count[l] = t.requests[l][1] + t.requests[l][2] + t.requests[l][3]
                                    + t.requests[l][4] + t.requests[l][5]
                 /\ \A k \in Classes :
                       /\ t.errors[l][k] = IF k >= 4 THEN t.requests[l][k] ELSE 0
                       /\ Cardinality(CountedAs(l, k) \cap past[s].over) <= t.requests[l][k]
                       /\ t.requests[l][k] <= Cardinality(CountedAs(l, k))
                 /\ \A i \in 1..Len(Buckets) :
                       /\ Cardinality(CountedIn(l, Buckets[i]) \cap past[s].over) <= t.le[l][i]
                       /\ t.le[l][i] <= Cardinality(CountedIn(l, Buckets[i]))
         /\ Cardinality({r \in past[s].open : InFlight(r)}) <= t.inFlight
    BY DEF ScrapeFaithful
  <2>2. s \in Requests /\ TextInv(s) /\ pc[s] = "collect"
    BY <2>1 DEF HTTPInv, ScrapeInv, TextInv
  <2>3. PICK D \in SUBSET AllCounted : past[s].over \subseteq D /\ Renders(text[s], D)
    BY <2>2 DEF TextInv
  <2>4. ASSUME NEW A \in SUBSET Requests
        PROVE  /\ Cardinality(A \cap past[s].over) <= Cardinality(A \cap D)
               /\ Cardinality(A \cap D) <= Cardinality(A)
    <3>1. A \cap past[s].over \in SUBSET (A \cap D) /\ A \cap D \in SUBSET A
      BY <2>3
    <3>2. A \cap D \in SUBSET Requests
      OBVIOUS
    <3> QED
      BY <2>2, <3>1, <3>2, RequestsCount
  <2>5. \A l, k : CountedAs(l, k) \in SUBSET Requests /\ CountedIn(l, k) \in SUBSET Requests
    BY DEF CountedAs, CountedIn, Counted
  <2>6. ASSUME NEW l \in Labels, NEW k \in Classes
        PROVE  /\ Cardinality(CountedAs(l, k) \cap past[s].over) <= text[s].requests[l][k]
               /\ text[s].requests[l][k] <= Cardinality(CountedAs(l, k))
    <3>1. text[s].requests[l][k] = Cardinality(CountedAs(l, k) \cap D)
      BY <2>3 DEF Renders
    <3> QED
      BY <2>4, <2>5, <3>1
  <2>7. ASSUME NEW l \in Labels, NEW i \in 1..Len(Buckets)
        PROVE  /\ Cardinality(CountedIn(l, Buckets[i]) \cap past[s].over) <= text[s].le[l][i]
               /\ text[s].le[l][i] <= Cardinality(CountedIn(l, Buckets[i]))
    <3>1. text[s].le[l][i] = Cardinality(CountedIn(l, Buckets[i]) \cap D)
      BY <2>3 DEF Renders
    <3> QED
      BY <2>4, <2>5, <3>1
  <2>8. Cardinality({r \in past[s].open : InFlight(r)}) <= text[s].inFlight
    BY <2>2 DEF TextInv
  <2> QED
    BY <2>3, <2>6, <2>7, <2>8, ZenonT(60) DEF Renders
<1> QED
  BY <1>1, HTTPInvariance, PTL

-----------------------------------------------------------------------------
(* The types of what is left: the breaker and the scrapes' clones. *)

RestTypeOK ==
    /\ gen \in [Requests -> Nat]
    /\ readers \subseteq Requests
    /\ \A r \in DOMAIN snapshot :
          snapshot[r] \in [requests : Counters, errors : Counters, durations : Histogram]
    /\ BreakerTypeOK

\* The breaker's own steps keep its types; the failures never reach TripAfter.
LEMMA BreakerType ==
    ASSUME BreakerTypeOK,
           onRequest \/ BreakerExpire \/ \E g \in Nat, ok \in BOOLEAN : afterRequest(g, ok)
    PROVE  BreakerTypeOK'
<1> USE BreakerAssumption DEF BreakerTypeOK
<1>1. CASE onRequest
  BY <1>1 DEF onRequest
<1>2. CASE BreakerExpire
  BY <1>2 DEF BreakerExpire, setState, NoCounts
<1>3. ASSUME NEW g \in Nat, NEW ok \in BOOLEAN, afterRequest(g, ok) PROVE BreakerTypeOK'
  <2>1. CASE onSuccess /\ UNCHANGED expiries
    <3>1. CASE setState("closed")
      BY <2>1, <3>1 DEF setState, NoCounts
    <3>2. CASE /\ counts' = [counts EXCEPT !.successes = @ + 1, !.failures = 0]
               /\ UNCHANGED <<state, generation>>
      <4>1. 0 \in 0..(TripAfter - 1) /\ counts.successes + 1 \in Nat
        OBVIOUS
      <4> QED
        BY <2>1, <3>2, <4>1
    <3> QED
      BY <2>1, <3>1, <3>2 DEF onSuccess
  <2>2. CASE onFailure /\ UNCHANGED expiries
    <3>1. CASE setState("open")
      BY <2>2, <3>1 DEF setState, NoCounts
    <3>2. CASE /\ counts' = [counts EXCEPT !.failures = @ + 1, !.successes = 0]
               /\ ~(counts.failures + 1 >= TripAfter)
               /\ UNCHANGED <<state, generation>>
      <4>1. counts.failures + 1 \in 0..(TripAfter - 1)
        BY <3>2
      <4> QED
        BY <2>2, <3>2, <4>1
    <3> QED
      BY <2>2, <3>1, <3>2 DEF onFailure, ReadyToTrip
  <2>3. CASE UNCHANGED <<state, generation, counts, expiries>>
    BY <2>3
  <2> QED
    BY <1>3, <2>1, <2>2, <2>3 DEF afterRequest
<1> QED
  BY <1>1, <1>2, <1>3

\* Every step of a request keeps these types.
LEMMA RestStep ==
    ASSUME RestTypeOK, CountInv, NEW r \in Requests,
           Arrive(r) \/ Step(r) \/ Answers(r) \/ Handler(r) \/ Collect(r)
    PROVE  RestTypeOK'
<1>a. requests \in Counters /\ errors \in Counters /\ durations \in Histogram
  BY DEF CountInv, Shows
<1>b. ASSUME gen' = gen \/ gen' = [gen EXCEPT ![r] = 0] \/ gen' = [gen EXCEPT ![r] = generation]
      PROVE  gen' \in [Requests -> Nat]
  BY <1>b DEF RestTypeOK, BreakerTypeOK
<1>1. gen' \in [Requests -> Nat]
  <2>1. ASSUME NEW w, NEW panic, NEW sent, Unwind(r, w, panic, sent) PROVE gen' = [gen EXCEPT ![r] = 0]
    BY <2>1 DEF Unwind
  <2>2. CASE Arrive(r)
    BY <1>b, <2>1, <2>2 DEF Arrive
  <2>3. CASE Admit(r) \/ Scrape(r) \/ Observe(r) \/ LowerGauge(r)
    BY <1>b, <2>3 DEF Admit, Scrape, ScrapeStep, Observe, LowerGauge
  <2>4. CASE Refuse(r) \/ Probe(r)
    BY <1>b, <2>1, <2>4, ZenonT(60) DEF Refuse, Probe
  <2>5. CASE Answers(r)
    BY <1>b, <2>5 DEF Answers, ExecuteEnds, Unwind
  <2>6. CASE Handler(r)
    BY <1>b, <2>6 DEF Handler, ExecuteEnds, Unwind
  <2>7. CASE Collect(r)
    BY <1>b, <2>1, <2>7 DEF Collect
  <2> QED
    BY <2>2, <2>3, <2>4, <2>5, <2>6, <2>7 DEF Step
<1>2. BreakerTypeOK'
  <2>1. CASE UNCHANGED breakerVars
    BY <2>1 DEF RestTypeOK, BreakerTypeOK, breakerVars
  <2>2. CASE onRequest \/ \E g \in Nat, ok \in BOOLEAN : afterRequest(g, ok)
    BY <2>2, BreakerType DEF RestTypeOK
  <2>3. ASSUME NEW w, NEW panic, NEW sent, ExecuteEnds(r, w, panic, sent)
        PROVE  UNCHANGED breakerVars \/ \E g \in Nat, ok \in BOOLEAN : afterRequest(g, ok)
    BY <2>3 DEF ExecuteEnds, RestTypeOK
  <2>4. CASE Answers(r)
    BY <2>1, <2>2, <2>3, <2>4 DEF Answers
  <2>5. CASE Handler(r)
    BY <2>1, <2>2, <2>3, <2>5 DEF Handler
  <2>6. CASE Admit(r)
    BY <2>2, <2>6 DEF Admit
  <2>7. CASE \/ Arrive(r) \/ Refuse(r) \/ Probe(r) \/ Scrape(r) \/ Observe(r) \/ LowerGauge(r)
             \/ Collect(r)
    BY <2>1, <2>7 DEF Arrive, Refuse, Probe, Scrape, ScrapeStep, Observe, LowerGauge, Collect
  <2> QED
    BY <2>4, <2>5, <2>6, <2>7 DEF Step
<1>3. /\ readers' \subseteq Requests
      /\ \A s \in DOMAIN snapshot' :
            snapshot'[s] \in [requests : Counters, errors : Counters, durations : Histogram]
  <2>1. CASE UNCHANGED <<readers, snapshot>>
    BY <2>1 DEF RestTypeOK
  <2>2. CASE RLock(r)
    BY <2>2 DEF RLock, RestTypeOK
  <2>3. CASE CloneMetrics(r)
    BY <1>a, <2>3 DEF CloneMetrics, RUnlocked, With, RestTypeOK
  <2>4. CASE RenderPrometheus(r)
    BY <2>4 DEF RenderPrometheus, Without, Restrict, RestTypeOK
  <2>5. CASE Scrape(r)
    BY <2>2, <2>3, <2>4, <2>5 DEF Scrape
  <2>6. CASE \/ Arrive(r) \/ Admit(r) \/ Refuse(r) \/ Probe(r) \/ Observe(r) \/ LowerGauge(r)
             \/ Answers(r) \/ Handler(r) \/ Collect(r)
    BY <2>1, <2>6 DEF Arrive, Admit, Refuse, Probe, Observe, LowerGauge, Answers, Handler,
       Collect, BeginInFlight, EndInFlight, observe, SendPage, metricsVars
  <2> QED
    BY <2>5, <2>6 DEF Step
<1> QED
  BY <1>1, <1>2, <1>3 DEF RestTypeOK

\* The variables of the handler NewHTTPRuntime assembles keep their types; the
\* consecutive failures of the breaker stay below TripAfter.
THEOREM PipeTypeCorrect == Spec => []PipeTypeOK
<1>1. Init => RestTypeOK
  BY BreakerAssumption DEF Init, NewHTTPMetrics, BreakerInit, NoCounts, RestTypeOK, BreakerTypeOK
<1>2. HTTPInv /\ RestTypeOK /\ [Next]_vars => RestTypeOK'
  <2>a. SUFFICES ASSUME HTTPInv, RestTypeOK, [Next]_vars PROVE RestTypeOK'
    OBVIOUS
  <2>1. ASSUME NEW r \in Requests,
               Arrive(r) \/ Step(r) \/ Answers(r) \/ Handler(r) \/ Collect(r)
        PROVE  RestTypeOK'
    BY <2>a, <2>1, RestStep DEF HTTPInv
  <2>2. CASE Expire
    BY <2>a, <2>2, BreakerType DEF Expire, requestVars, metricsVars, RestTypeOK
  <2>3. CASE UNCHANGED vars
    BY <2>a, <2>3 DEF vars, requestVars, metricsVars, breakerVars, RestTypeOK, BreakerTypeOK
  <2> QED
    BY <2>a, <2>1, <2>2, <2>3 DEF Next
<1>3. HTTPInv /\ RestTypeOK => PipeTypeOK
  <2>1. SUFFICES ASSUME HTTPInv, RestTypeOK PROVE PipeTypeOK
    OBVIOUS
  <2>2. Statuses \subseteq Nat
    BY DEF Statuses, Finals
  <2>3. MetricsTypeOK
    <3>1. Cardinality(Gauged) \in Nat
      BY RequestsCount, PipelineAssumption, FS_Subset, FS_CardinalityType DEF Gauged
    <3> QED
      BY <2>1, <3>1 DEF HTTPInv, CountInv, Shows, ScrapeInv, RestTypeOK, MetricsTypeOK
  <2> QED
    BY <2>1, <2>2, <2>3 DEF HTTPInv, RequestInv, RequestTypeOK, ScrapeInv, RestTypeOK, PipeTypeOK
<1> QED
  BY <1>1, <1>2, <1>3, HTTPInvariance, PTL DEF Spec
=============================================================================
