---------------------------- MODULE HTTPMetrics ----------------------------
(***************************************************************************)
(* The collector of go/telemetry/metrics.go for one method, as operations  *)
(* of the goroutine that calls them.  The gauge is atomic, the counters    *)
(* and the histogram are guarded by an RWMutex.  A scrape clones them      *)
(* under the read lock, and renders the clone, loads the gauge and runs    *)
(* the collectors after it has released the lock.                          *)
(***************************************************************************)
EXTENDS Naturals, Sequences, SequencesExt, FiniteSetsExt, Functions

CONSTANTS
    Buckets,    \* HTTPMetricsConfig.Buckets, in some unit of time
    Labels,     \* the path labels of requests that are counted
    Requests    \* HTTP requests, scrapes among them

ASSUME BucketsAssumption ==
    /\ Buckets \in Seq(Nat)
    /\ \A i \in 1..(Len(Buckets) - 1) : Buckets[i] < Buckets[i + 1]

VARIABLES
    inFlight,   \* the gauge
    requests,   \* per path label and status class
    errors,     \* per path label and status class
    durations,  \* per path label: buckets and count
    readers,    \* the scrapes that hold mu for reading
    snapshot,   \* what each scrape has cloned and not yet rendered
    text        \* what each scrape has rendered and not yet sent

metricsVars == <<inFlight, requests, errors, durations, readers, snapshot, text>>
counterVars == <<requests, errors, durations>>

Slots   == 1..(Len(Buckets) + 1)
Classes == 1..5

\* statusClass
ClassOf(code) == code \div 100

Counters  == [Labels -> [Classes -> Nat]]
Histogram == [Labels -> [buckets : [Slots -> Nat], count : Nat]]

MetricsTypeOK ==
    /\ inFlight \in Nat
    /\ requests \in Counters /\ errors \in Counters
    /\ durations \in Histogram
    /\ readers \subseteq Requests
    /\ DOMAIN snapshot \subseteq Requests
    /\ \A r \in DOMAIN snapshot : snapshot[r] \in
          [requests : Counters, errors : Counters, durations : Histogram]
    /\ DOMAIN text \subseteq Requests

NewHTTPMetrics ==
    LET none == [l \in Labels |-> [k \in Classes |-> 0]]
    IN /\ inFlight = 0
       /\ requests = none
       /\ errors = none
       /\ durations = [l \in Labels |-> [buckets |-> [i \in Slots |-> 0], count |-> 0]]
       /\ readers = {}
       /\ snapshot = <<>>
       /\ text = <<>>

\* f, and v at r.
With(f, r, v) == [x \in DOMAIN f \cup {r} |-> IF x = r THEN v ELSE f[x]]

\* f, and nothing at r.
Without(f, r) == Restrict(f, DOMAIN f \ {r})

-----------------------------------------------------------------------------
\* Middleware, before and after the request.
BeginInFlight ==
    /\ inFlight' = inFlight + 1
    /\ UNCHANGED <<counterVars, readers, snapshot, text>>

EndInFlight ==
    /\ inFlight' = inFlight - 1
    /\ UNCHANGED <<counterVars, readers, snapshot, text>>

\* The first bucket whose upper bound is not exceeded, or the last one.
BucketOf(seconds) ==
    Min({i \in 1..Len(Buckets) : seconds <= Buckets[i]} \cup {Len(Buckets) + 1})

\* observe waits for the scrapes that hold the lock.
observe(label, code, seconds) ==
    LET k == ClassOf(code)
    IN /\ readers = {}
       /\ requests' = [requests EXCEPT ![label][k] = @ + 1]
       /\ errors' = [errors EXCEPT ![label][k] = IF code >= 400 THEN @ + 1 ELSE @]
       /\ durations' = [durations EXCEPT ![label].buckets[BucketOf(seconds)] = @ + 1,
                                         ![label].count = @ + 1]
       /\ UNCHANGED <<inFlight, readers, snapshot, text>>

-----------------------------------------------------------------------------
\* renderPrometheus of scrape r takes the read lock ...
RLock(r) ==
    /\ readers' = readers \cup {r}
    /\ UNCHANGED <<inFlight, counterVars, snapshot, text>>

\* Mutant: the lock is not released before the collectors run.
RUnlocked_deferred(r) == readers

\* The scrapes that hold the lock after the RUnlock of r.
RUnlocked(r) == readers \ {r}

\* ... clones and releases it ...
CloneMetrics(r) ==
    /\ snapshot' = With(snapshot, r,
          [requests |-> requests, errors |-> errors, durations |-> durations])
    /\ readers' = RUnlocked(r)
    /\ UNCHANGED <<inFlight, counterVars, text>>

\* Mutant: the clone shares the histogram with the collector.
cloneDurationMetrics_shallow(r) == durations

\* The histogram a scrape renders is the one it copied.
cloneDurationMetrics(r) == snapshot[r].durations

\* The running sum of the rendering loop: bucket by bucket, the last one for +Inf.
Cumulative(buckets) ==
    LET sum[i \in 0..(Len(Buckets) + 1)] == IF i = 0 THEN 0 ELSE sum[i - 1] + buckets[i]
    IN sum

\* ... then loads the gauge and renders.
RenderPrometheus(r) ==
    LET d == cloneDurationMetrics(r)
        page == [inFlight |-> inFlight,
                 requests |-> snapshot[r].requests,
                 errors   |-> snapshot[r].errors,
                 le       |-> [l \in Labels |-> Cumulative(d[l].buckets)],
                 count    |-> [l \in Labels |-> d[l].count]]
    IN /\ text' = With(text, r, page)
       /\ snapshot' = Without(snapshot, r)
       /\ UNCHANGED <<inFlight, counterVars, readers>>

\* The handler writes the page; the collectors have appended their part to it.
SendPage(r) ==
    /\ text' = Without(text, r)
    /\ UNCHANGED <<inFlight, counterVars, readers, snapshot>>
=============================================================================
