---------------------------- MODULE GRPCMetrics ----------------------------
(***************************************************************************)
(* The collector of go/telemetry/grpc_metrics.go for one method and RPC    *)
(* type, as operations of the goroutine that calls them.  The gauge is     *)
(* atomic, everything else is guarded by the mutex.                        *)
(***************************************************************************)
EXTENDS Naturals, Sequences, FiniteSetsExt

CONSTANT Buckets    \* GRPCMetricsConfig.Buckets, in some unit of time

ASSUME BucketsAssumption ==
    /\ Buckets \in Seq(Nat)
    /\ \A i \in 1..(Len(Buckets) - 1) : Buckets[i] < Buckets[i + 1]

Codes == {"OK", "Canceled", "Unknown", "InvalidArgument", "ResourceExhausted",
          "Internal", "Unavailable"}

VARIABLES
    inFlight,   \* the gauge
    requests,   \* per code
    errors,     \* per code
    durations   \* durationMetricValue: buckets and count

metricsVars == <<inFlight, requests, errors, durations>>

Slots == 1..(Len(Buckets) + 1)

MetricsTypeOK ==
    /\ inFlight \in Nat
    /\ requests \in [Codes -> Nat]
    /\ errors \in [Codes -> Nat]
    /\ durations \in [buckets : [Slots -> Nat], count : Nat]

NewGRPCMetrics ==
    /\ inFlight = 0
    /\ requests = [k \in Codes |-> 0]
    /\ errors = [k \in Codes |-> 0]
    /\ durations = [buckets |-> [i \in Slots |-> 0], count |-> 0]

BeginInFlight ==
    /\ inFlight' = inFlight + 1
    /\ UNCHANGED <<requests, errors, durations>>

\* ObserveRPC, before the mutex.
EndInFlight ==
    /\ inFlight' = inFlight - 1
    /\ UNCHANGED <<requests, errors, durations>>

\* The first bucket whose upper bound is not exceeded, or the last one.
BucketOf(seconds) ==
    Min({i \in 1..Len(Buckets) : seconds <= Buckets[i]} \cup {Len(Buckets) + 1})

\* ObserveRPC, with the mutex held.
Count(code, seconds) ==
    /\ requests' = [requests EXCEPT ![code] = @ + 1]
    /\ errors' = [errors EXCEPT ![code] = IF code # "OK" THEN @ + 1 ELSE @]
    /\ durations' = [buckets |-> [durations.buckets EXCEPT ![BucketOf(seconds)] = @ + 1],
                     count   |-> durations.count + 1]
    /\ UNCHANGED inFlight

\* The running sum of the rendering loop: bucket by bucket, the last one for +Inf.
Cumulative(buckets) ==
    LET sum[i \in 0..(Len(Buckets) + 1)] == IF i = 0 THEN 0 ELSE sum[i - 1] + buckets[i]
    IN sum

\* What a scrape shows.  The read lock is held from beginning to end and the
\* gauge is loaded once, so the text is one reading of the collector.
AppendPrometheus ==
    [inFlight |-> inFlight,
     requests |-> requests,
     errors   |-> errors,
     le       |-> Cumulative(durations.buckets),
     count    |-> durations.count]
=============================================================================
