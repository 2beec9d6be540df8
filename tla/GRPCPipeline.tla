---------------------------- MODULE GRPCPipeline ----------------------------
(***************************************************************************)
(* The interceptor chain of middleware.GRPCServerPreset                    *)
(* (go/middleware/grpc_preset.go, grpc.go): request ID, recovery, tracing, *)
(* logging, metrics, the product's interceptors, circuit breaker, rate     *)
(* limiter, handler.  Of the first four only recovery changes what the     *)
(* client gets.  The unary and the stream chain are alike and have a       *)
(* breaker each; this is one of them.                                      *)
(*                                                                         *)
(* An RPC runs down the chain and unwinds with an outcome: a status, an    *)
(* error that is none, or a panic.  InvalidArgument stands for the codes   *)
(* that are no server failures, Internal for those that are.  A step ends  *)
(* where the next one touches the collector or the breaker, which the RPCs *)
(* share.                                                                  *)
(***************************************************************************)
EXTENDS Gobreaker, GRPCMetrics, FiniteSets

CONSTANTS
    Calls,      \* RPCs
    Latencies,  \* how long an RPC may take
    None        \* no outcome yet

\* Errors that carry no status: a context's (its deadline goes the same way as
\* its cancellation), and any other.
RawErrors == {"context.Canceled", "error"}

Outcomes == Codes \cup RawErrors \cup {"panic"}

ASSUME PipelineAssumption ==
    /\ IsFiniteSet(Calls)
    /\ Latencies \subseteq Nat
    /\ None \notin Outcomes \cup Nat

VARIABLES
    breaker,    \* whether the preset has a circuit breaker
    pc,         \* where each RPC is
    gen,        \* the generation an RPC inside Execute was admitted in
    outcome,    \* what unwinds from the RPC, up to the metrics interceptor
    reply,      \* the code the server sends
    handled,    \* history: what the handler did
    latency     \* history: the latency that was observed

rpcVars == <<pc, gen, outcome, reply, handled, latency>>
vars    == <<breaker, rpcVars, metricsVars, breakerVars>>

PipeTypeOK ==
    /\ breaker \in BOOLEAN
    /\ pc \in [Calls -> {"idle", "breaker", "serve", "gauge", "count", "done"}]
    /\ gen \in [Calls -> Nat]
    /\ outcome \in [Calls -> Outcomes \cup {None}]
    /\ reply \in [Calls -> Codes \cup {None}]
    /\ handled \in [Calls -> Outcomes \cup {None}]
    /\ latency \in [Calls -> Latencies \cup {None}]
    /\ MetricsTypeOK
    /\ BreakerTypeOK

Init ==
    /\ breaker \in BOOLEAN
    /\ pc = [c \in Calls |-> "idle"]
    /\ gen = [c \in Calls |-> 0]
    /\ outcome = [c \in Calls |-> None]
    /\ reply = [c \in Calls |-> None]
    /\ handled = [c \in Calls |-> None]
    /\ latency = [c \in Calls |-> None]
    /\ NewGRPCMetrics
    /\ BreakerInit

-----------------------------------------------------------------------------
Enter(c, s) == pc' = [pc EXCEPT ![c] = s]

\* RPC c leaves the circuit breaker, or never reached it, with outcome o.
Unwind(c, o) ==
    /\ Enter(c, "gauge")
    /\ outcome' = [outcome EXCEPT ![c] = o]
    /\ gen' = [gen EXCEPT ![c] = 0]

isGRPCServerFailure(code) == code \in {"Internal", "Unavailable", "Unknown"}

\* GRPCMetricsUnary begins; then an interceptor of the product passes the RPC
\* on, refuses it or panics.
BeginRPC(c) ==
    /\ pc[c] = "idle"
    /\ BeginInFlight
    /\ \/ /\ Enter(c, IF breaker THEN "breaker" ELSE "serve")
          /\ UNCHANGED <<outcome, gen>>
       \/ \E o \in {"InvalidArgument", "panic"} \cup RawErrors : Unwind(c, o)
    /\ UNCHANGED <<breaker, reply, handled, latency, breakerVars>>

\* GRPCCircuitBreakerUnary: cb.Execute lets the RPC in ...
Admit(c) ==
    /\ pc[c] = "breaker"
    /\ Admits
    /\ onRequest
    /\ gen' = [gen EXCEPT ![c] = generation]
    /\ Enter(c, "serve")
    /\ UNCHANGED <<breaker, outcome, reply, handled, latency, metricsVars>>

\* ... or returns an error that is no status, which becomes Unavailable.
Refuse(c) ==
    /\ pc[c] = "breaker"
    /\ ~Admits
    /\ Unwind(c, "Unavailable")
    /\ UNCHANGED <<breaker, reply, handled, latency, metricsVars, breakerVars>>

\* What the breaker interceptor returns when its function has ended with o: an
\* error that is no status, or whose status is no server failure, is replaced.
Result(o) ==
    IF o \in {"OK", "panic"} \/ (o \in Codes /\ isGRPCServerFailure(o))
    THEN o ELSE "Unavailable"

\* Mutant: a panic is not reported to the breaker.
Reported_returns(o) == o # "panic"

\* Execute reports every end of the function, panics included.
Reported(o) == TRUE

\* The function given to cb.Execute has ended with o.
ExecuteEnds(c, o) ==
    \/ /\ breaker
       /\ IF Reported(o) THEN afterRequest(gen[c], o = "OK") ELSE UNCHANGED breakerVars
       /\ Unwind(c, Result(o))
    \/ /\ ~breaker
       /\ Unwind(c, o)
       /\ UNCHANGED breakerVars

\* GRPCRateLimitUnary, with a key or without: the limiter refuses.  Without a
\* limiter RPCs behave as with one that never does.
RateLimited(c) ==
    /\ pc[c] = "serve"
    /\ ExecuteEnds(c, "ResourceExhausted")
    /\ UNCHANGED <<breaker, reply, handled, latency, metricsVars>>

\* The limiter allows the RPC, and the product's handler returns or panics.
Handler(c) ==
    /\ pc[c] = "serve"
    /\ \E o \in {"OK", "InvalidArgument", "Internal", "panic"} \cup RawErrors :
          /\ ExecuteEnds(c, o)
          /\ handled' = [handled EXCEPT ![c] = o]
    /\ UNCHANGED <<breaker, reply, latency, metricsVars>>

\* Mutant: the gauge is lowered only when the RPC returns.
Lowers_returns(o) == o # "panic"

\* The deferred function calls ObserveRPC on both of its branches.
Lowers(o) == TRUE

ObserveGauge(c) ==
    /\ pc[c] = "gauge"
    /\ IF Lowers(outcome[c]) THEN EndInFlight ELSE UNCHANGED metricsVars
    /\ Enter(c, "count")
    /\ UNCHANGED <<breaker, gen, outcome, reply, handled, latency, breakerVars>>

\* status.Code of the metrics interceptor's error: Unknown when it is no status.
StatusCode(o) == IF o \in RawErrors THEN "Unknown" ELSE o

\* Mutant: the code of an RPC that panics is that of a nil error.
ObservedCode_nil(o) == IF o = "panic" THEN "OK" ELSE StatusCode(o)

\* The code under which GRPCMetricsUnary counts an RPC.
ObservedCode(o) == IF o = "panic" THEN "Internal" ELSE StatusCode(o)

\* The deferred function of GRPCRecoveryUnary gives a panic the code Internal.
GRPCRecovery(o) == IF o = "panic" THEN "Internal" ELSE o

\* The server of grpc-go sends a status as it is and converts any other error
\* with status.FromContextError, which knows the errors of a context.
FromContextError(o) == IF o = "context.Canceled" THEN "Canceled" ELSE StatusCode(o)

\* The counters; nothing further up the chain touches them or the breaker, so
\* the step goes on to the reply.
ObserveRPC(c) ==
    /\ pc[c] = "count"
    /\ \E seconds \in Latencies :
          /\ Count(ObservedCode(outcome[c]), seconds)
          /\ latency' = [latency EXCEPT ![c] = seconds]
    /\ reply' = [reply EXCEPT ![c] = FromContextError(GRPCRecovery(outcome[c]))]
    /\ Enter(c, "done")
    /\ UNCHANGED <<breaker, gen, outcome, handled, breakerVars>>

Expire ==
    /\ breaker
    /\ BreakerExpire
    /\ UNCHANGED <<breaker, rpcVars, metricsVars>>

Step(c) ==
    \/ Admit(c) \/ Refuse(c) \/ RateLimited(c) \/ Handler(c)
    \/ ObserveGauge(c) \/ ObserveRPC(c)

Next ==
    \/ \E c \in Calls : BeginRPC(c) \/ Step(c)
    \/ Expire
    \/ (\A c \in Calls : pc[c] = "done") /\ UNCHANGED vars

\* The scheduler runs every RPC; handlers return or panic.
Fairness == \A c \in Calls : WF_vars(Step(c))

Spec == Init /\ [][Next]_vars /\ Fairness

-----------------------------------------------------------------------------
\* Every RPC is counted once, under the code the server sends, although recovery
\* and the server translate panics and plain errors only after the metrics have.
\* One kind of RPC is counted under another code: when the error that leaves the
\* chain is a context's own, the metrics say Unknown and the server sends
\* Canceled.  The breaker lets none out, so it comes from a handler without a
\* breaker or from an interceptor of the product.  Errors are the ones not OK.
CountedAsReplied ==
    LET Astray == {c \in Calls : reply[c] = "Canceled" /\ outcome[c] = "context.Canceled"}
    IN /\ \A k \in Codes :
             /\ requests[k] = Cardinality(
                   {c \in Calls \ Astray : reply[c] = k} \cup {c \in Astray : k = "Unknown"})
             /\ errors[k] = IF k = "OK" THEN 0 ELSE requests[k]
       /\ breaker => \A c \in Astray : handled[c] = None

\* A scrape at any moment shows the RPCs in flight and no completed one among
\* them, whatever panicked on the way, as many observations as requests, and for
\* every upper bound the number of RPCs that took at most that long.
ScrapeConsistent ==
    LET s == AppendPrometheus
    IN /\ s.inFlight = Cardinality({c \in Calls : pc[c] \in {"breaker", "serve", "gauge"}})
       /\ s.count = s.requests["OK"] + s.requests["InvalidArgument"]
                       + s.requests["ResourceExhausted"] + s.requests["Internal"]
                       + s.requests["Unavailable"] + s.requests["Unknown"]
                       + s.requests["Canceled"]
       /\ s.le[Len(Buckets) + 1] = s.count
       /\ \A i \in 1..Len(Buckets) :
             s.le[i] = Cardinality({c \in Calls : latency[c] # None /\ latency[c] <= Buckets[i]})

\* A half-open breaker refuses RPCs only while a trial that it admitted in this
\* generation is still inside: an RPC that succeeds, fails, is rate limited or
\* panics gives its slot back, and one of an earlier generation takes none.
RefusesForTrial ==
    state = "half-open" /\ ~Admits =>
        \E c \in Calls : pc[c] = "serve" /\ gen[c] = generation

\* The trial request of a half-open breaker decides its fate, even by panicking:
\* the breaker does not stay half-open with its only slot taken.
TrialDecides ==
    (state = "half-open" /\ ~Admits) ~> (state # "half-open" \/ Admits)

-----------------------------------------------------------------------------
(* Documented behaviour the code does not have. *)

\* The breaker counts server failures: it opens only when an RPC ends with one
\* (an error that is no status has the code Unknown, which is one).
OnlyServerFailuresTrip ==
    [][state # "open" /\ state' = "open" =>
          \E c \in Calls :
             /\ pc[c] = "serve" /\ pc'[c] = "gauge"
             /\ handled'[c] \in {"Internal", "panic"} \cup RawErrors]_vars
=============================================================================
