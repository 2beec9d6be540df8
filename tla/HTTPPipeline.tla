---------------------------- MODULE HTTPPipeline ----------------------------
(***************************************************************************)
(* The handler NewHTTPRuntime assembles (go/server/runtime.go,             *)
(* http_preset.go) out of the layers of go/middleware and go/telemetry,    *)
(* outermost first:                                                        *)
(*                                                                         *)
(*   metrics, [request ID, recovery, timeout, tracing, logging],           *)
(*   system routes, the product's root middleware, root mux, API mux       *)
(*                                                                         *)
(* Three layers wrap the http.ResponseWriter and note the status: circuit  *)
(* breaker, logging and metrics.  A request runs down the chain and        *)
(* unwinds; a step ends where the next one touches the collector or the    *)
(* breaker, which the requests share.  Request IDs, the context deadline,  *)
(* tracing, CORS and content type headers change nothing modelled here.    *)
(***************************************************************************)
EXTENDS Gobreaker, HTTPMetrics, FiniteSets

CONSTANTS
    Sends,      \* the paths each request may ask for
    Calls,      \* the calls its handler may make on the ResponseWriter
    Configs,    \* HTTPRuntimeConfigs
    Latencies,  \* how long each request may take
    MaxCalls    \* bound: how many of them it makes

HealthPaths == {"/health", "/health/live", "/health/ready", "/health/startup"}
MetricsPath == "/metrics"
APIBasePath == "/v1"
APIPaths    == {"/v1/chat"}
Paths       == HealthPaths \cup {MetricsPath, APIBasePath} \cup APIPaths \cup {"/docs"}

\* The layers of the product's root middleware.
RootLayers == {"CORS", "MaxBodySize", "RateLimit", "CircuitBreaker"}

Config ==
    [preset : BOOLEAN, healthRoutes : BOOLEAN, metricsRoute : BOOLEAN, root : Seq(RootLayers)]

\* Who sees a status, from the inside out; the last is net/http itself.
Breaker == 1
Logging == 2
Metrics == 3
NetHTTP == 4
Writers == Breaker..NetHTTP

\* metricsPathLabelerOrDefault
PathLabel(p) == IF p \in APIPaths THEN "/v1/*" ELSE p

\* HTTPMetricsConfig.IgnorePaths
Ignored == HealthPaths \cup {MetricsPath}

\* The calls a handler makes on its ResponseWriter; 103 is informational.
Op == [op : {"WriteHeader"}, code : {103, 404, 500}]
         \cup [op : {"Write", "ReadFrom", "Flush"}, code : {200}]

ASSUME PipelineAssumption ==
    /\ IsFiniteSet(Requests)
    /\ Sends \in [Requests -> SUBSET Paths]
    /\ Configs \subseteq Config
    /\ \A c \in Configs : \A i, j \in DOMAIN c.root :
          c.root[i] = "CircuitBreaker" /\ c.root[j] = "CircuitBreaker" => i = j
    /\ Labels = {PathLabel(p) : p \in Paths \ Ignored}
    /\ Latencies \in [Requests -> SUBSET Nat]
    /\ Calls \in [Requests -> SUBSET Op]
    /\ MaxCalls \in Nat

VARIABLES
    config,     \* the runtime's configuration
    path,       \* the path of each request
    pc,         \* where each request is
    gen,        \* the breaker's generation that admitted the request
    noted,      \* metricsResponseWriter.statusCode, 0 for none
    panicked,   \* a handler or a collector has panicked
    logged,     \* the status of the completion log, 0 for none
    response,   \* the status the client gets, 0 if the connection is cut
    observed,   \* history: the status and the latency observed
    behind,     \* history: the handler set its status too late (see HandlerWrites)
    past        \* history: the requests over, and in flight, when a scrape came

requestVars == <<path, pc, gen, noted, panicked, logged, response, observed, behind, past>>
vars        == <<config, requestVars, metricsVars, breakerVars>>

-----------------------------------------------------------------------------
(* The assembly. *)

systemPaths ==
    (IF config.healthRoutes THEN HealthPaths ELSE {})
        \cup (IF config.metricsRoute THEN {MetricsPath} ELSE {})

\* Without the metrics route NewHTTPRuntime creates no collector.
Counts(p) == config.metricsRoute /\ PathLabel(p) \notin Ignored

HasBreaker(p) == p \notin systemPaths /\ "CircuitBreaker" \in Range(config.root)

\* The writers the response of a request for p goes through.
Wrapped(p) ==
    {NetHTTP} \cup (IF Counts(p) THEN {Metrics} ELSE {})
              \cup (IF config.preset THEN {Logging} ELSE {})
              \cup (IF HasBreaker(p) THEN {Breaker} ELSE {})

BreakerAt == Min({i \in DOMAIN config.root : config.root[i] = "CircuitBreaker"}
                    \cup {Len(config.root) + 1})

\* The root layers around the breaker and inside it.
Outer == {config.root[i] : i \in 1..(BreakerAt - 1)}
Inner == {config.root[i] : i \in (BreakerAt + 1)..Len(config.root)}

\* The status with which RateLimit, by key or not, refuses.  Without a limiter it
\* behaves as with one that never does.
TooManyRequests == 429

\* CORS answers a preflight request of an allowed origin.
NoContent == 204

\* The status with which a root layer answers instead of passing on.
Answer == [CORS |-> NoContent, MaxBodySize |-> 413, RateLimit |-> TooManyRequests]

PipeTypeOK ==
    /\ config \in Configs
    /\ path \in [Requests -> Paths]
    /\ pc \in [Requests -> {"idle", "probe", "scrape", "clone", "load", "collect",
                            "breaker", "serve", "observe", "gauge", "done"}]
    /\ gen \in [Requests -> Nat]
    /\ noted \in [Requests -> Nat]
    /\ panicked \in [Requests -> BOOLEAN] /\ behind \in [Requests -> BOOLEAN]
    /\ logged \in [Requests -> Nat]
    /\ response \in [Requests -> Nat]
    /\ observed \in [Requests -> [code : Nat, seconds : Nat]]
    /\ past \in [Requests -> [over : SUBSET Requests, open : SUBSET Requests]]
    /\ MetricsTypeOK
    /\ BreakerTypeOK

Init ==
    /\ config \in Configs
    /\ path \in {f \in [Requests -> Paths] : \A r \in Requests : f[r] \in Sends[r]}
    /\ pc = [r \in Requests |-> "idle"]
    /\ gen = [r \in Requests |-> 0]
    /\ noted = [r \in Requests |-> 0]
    /\ panicked = [r \in Requests |-> FALSE]
    /\ logged = [r \in Requests |-> 0]
    /\ response = [r \in Requests |-> 0]
    /\ observed = [r \in Requests |-> [code |-> 0, seconds |-> 0]]
    /\ behind = [r \in Requests |-> FALSE]
    /\ past = [r \in Requests |-> [over |-> {}, open |-> {}]]
    /\ NewHTTPMetrics
    /\ BreakerInit

-----------------------------------------------------------------------------
(* The ResponseWriters. *)

\* The writers of on that note a status when o is called on writer i.  A header
\* goes outward until a writer that has one already.  A write makes every writer
\* without one note 200, but ReadFrom only metrics and net/http, and Flush only
\* net/http.
Notes(w, on, i, o) ==
    {j \in on : /\ i <= j
                /\ w[j] = 0
                /\ \/ o.op = "WriteHeader" /\ \A k \in on : i <= k /\ k < j => w[k] = 0
                   \/ o.op = "Write"
                   \/ o.op = "ReadFrom" /\ j >= Metrics
                   \/ o.op = "Flush" /\ j = NetHTTP}

\* To net/http an informational status is not the response's.
Touch(w, on, i, o) ==
    [j \in Writers |->
        IF j \in Notes(w, on, i, o) /\ ~(j = NetHTTP /\ o.code < 200) THEN o.code ELSE w[j]]

writeJSONError(w, on, i, code) ==
    Touch(Touch(w, on, i, [op |-> "WriteHeader", code |-> code]), on, i,
          [op |-> "Write", code |-> 200])

Unwritten == [j \in Writers |-> 0]

\* The writers of on after the handler has made the calls ops.
Written(on, ops) ==
    LET w[i \in 0..Len(ops)] == IF i = 0 THEN Unwritten ELSE Touch(w[i - 1], on, Breaker, ops[i])
    IN w[Len(ops)]

\* net/http buffers the header with the body.  It has sent it when the handler
\* flushed, or wrote more than the buffer holds.
Sent(ops, large) ==
    \E i \in DOMAIN ops : ops[i].op = "Flush" \/ (large /\ ops[i].op \in {"Write", "ReadFrom"})

\* A handler is behind when it sends an informational status first, or sets a
\* status, or panics, after it has begun to stream without one.
Behind(ops, panic) ==
    /\ ops # <<>>
    /\ \/ ops[1].code < 200
       \/ /\ ops[1].op \in {"ReadFrom", "Flush"}
          /\ panic \/ \E i \in DOMAIN ops : ops[i].op = "WriteHeader"

\* What the handler of request r may do: make some calls on the writers of on
\* around it, and return or panic.
HandlerWrites ==
    [r \in Requests |-> [on \in SUBSET Writers |->
        {[writers |-> Written(on, ops),
          panic   |-> panic,
          sent    |-> Sent(ops, large),
          behind  |-> Behind(ops, panic)]
            : ops \in BoundedSeq(Calls[r], MaxCalls), panic \in BOOLEAN, large \in BOOLEAN}]]

\* A writer that noted nothing stands for 200.
StatusOf(status) == IF status = 0 THEN 200 ELSE status

-----------------------------------------------------------------------------
Enter(r, s) == pc' = [pc EXCEPT ![r] = s]

\* The status in the completion log; a panic passes Logging by.
LoggedStatus(w, panic) ==
    IF config.preset /\ ~panic THEN StatusOf(w[Logging]) ELSE 0

\* The writers after Recovery, which is outside Logging.
Recovery(w, on, panic) ==
    IF panic /\ config.preset THEN writeJSONError(w, on, Metrics, 500) ELSE w

\* What net/http does at the end of a request: a panic that reaches it closes the
\* connection, and a header that was not sent is lost.
Finish(w, panic, sent) ==
    IF panic /\ ~config.preset THEN (IF sent THEN w[NetHTTP] ELSE 0) ELSE StatusOf(w[NetHTTP])

\* Request r unwinds from the root middleware, or a system route, with writers w
\* and maybe a panic: Logging and Recovery of the preset, then up to the metrics.
Unwind(r, w, panic, sent) ==
    LET out == Recovery(w, Wrapped(path[r]), panic)
    IN /\ noted' = [noted EXCEPT ![r] = out[Metrics]]
       /\ panicked' = [panicked EXCEPT ![r] = panic]
       /\ logged' = [logged EXCEPT ![r] = LoggedStatus(w, panic)]
       /\ response' = [response EXCEPT ![r] = Finish(out, panic, sent)]
       /\ Enter(r, IF Counts(path[r]) THEN "observe" ELSE "done")
       /\ gen' = [gen EXCEPT ![r] = 0]

\* Mutant: the system routes are on the root mux, inside the root middleware.
IsSystem_rootMux(p) == FALSE

\* systemRouteHandler
IsSystem(p) == p \in systemPaths

InFlight(r) == pc[r] \in {"breaker", "serve", "observe", "gauge"}

\* The metrics middleware begins; then the request is a system route's, or one of
\* the root layers outside the breaker answers it, or it goes on.
Arrive(r) ==
    /\ pc[r] = "idle"
    /\ IF Counts(path[r]) THEN BeginInFlight ELSE UNCHANGED metricsVars
    /\ \/ /\ IsSystem(path[r])
          /\ Enter(r, IF path[r] = MetricsPath THEN "scrape" ELSE "probe")
          /\ past' = [past EXCEPT ![r] =
                        IF path[r] = MetricsPath
                        THEN [over |-> {x \in Requests : pc[x] = "done" /\ Counts(path[x])},
                              open |-> {x \in Requests : InFlight(x) /\ Counts(path[x])}]
                        ELSE @]
          /\ UNCHANGED <<gen, noted, panicked, logged, response>>
       \/ /\ ~IsSystem(path[r])
          /\ \E l \in Outer :
                Unwind(r, Touch(Unwritten, Wrapped(path[r]), Logging,
                                [op |-> "WriteHeader", code |-> Answer[l]]), FALSE, FALSE)
          /\ UNCHANGED past
       \/ /\ ~IsSystem(path[r])
          /\ Enter(r, IF HasBreaker(path[r]) THEN "breaker" ELSE "serve")
          /\ UNCHANGED <<gen, noted, panicked, logged, response, past>>
    /\ UNCHANGED <<config, path, observed, behind, breakerVars>>

\* CircuitBreaker: cb.Execute lets the request in ...
Admit(r) ==
    /\ pc[r] = "breaker"
    /\ Admits
    /\ onRequest
    /\ gen' = [gen EXCEPT ![r] = generation]
    /\ Enter(r, "serve")
    /\ UNCHANGED <<config, path, noted, panicked, logged, response, observed, behind, past, metricsVars>>

\* ... or returns an error of its own, and the request gets 503.
Refuse(r) ==
    /\ pc[r] = "breaker"
    /\ ~Admits
    /\ Unwind(r, writeJSONError(Unwritten, Wrapped(path[r]), Logging, 503), FALSE, FALSE)
    /\ UNCHANGED <<config, path, observed, behind, past, metricsVars, breakerVars>>

\* Mutant: client errors count too.
IsFailure_clientErrors(code) == code >= 400

IsFailure(code) == code >= 500

\* The function given to cb.Execute has ended with writers w, or with a panic.
ExecuteEnds(r, w, panic, sent) ==
    /\ IF HasBreaker(path[r])
       THEN afterRequest(gen[r], ~panic /\ ~IsFailure(StatusOf(w[Breaker])))
       ELSE UNCHANGED breakerVars
    /\ Unwind(r, w, panic, sent)

\* A root layer inside the breaker answers, or mountAPISubrouter redirects the
\* bare prefix.
Answers(r) ==
    /\ pc[r] = "serve"
    /\ \E code \in {Answer[l] : l \in Inner} \cup (IF path[r] = APIBasePath THEN {307} ELSE {}) :
          ExecuteEnds(r, Touch(Unwritten, Wrapped(path[r]), Breaker,
                               [op |-> "WriteHeader", code |-> code]), FALSE, FALSE)
    /\ UNCHANGED <<config, path, observed, behind, past, metricsVars>>

\* The product's API middleware and handler write, and return or panic.
Handler(r) ==
    /\ pc[r] = "serve"
    /\ path[r] # APIBasePath
    /\ \E h \in HandlerWrites[r][Wrapped(path[r])] :
          /\ ExecuteEnds(r, h.writers, h.panic, h.sent)
          /\ behind' = [behind EXCEPT ![r] = h.behind]
    /\ UNCHANGED <<config, path, observed, past, metricsVars>>

\* A health endpoint answers (see HealthRegistry).
Probe(r) ==
    /\ pc[r] = "probe"
    /\ \E code \in {200, 503} :
          Unwind(r, Touch(Unwritten, Wrapped(path[r]), Logging,
                          [op |-> "WriteHeader", code |-> code]), FALSE, FALSE)
    /\ UNCHANGED <<config, path, observed, behind, past, metricsVars, breakerVars>>

-----------------------------------------------------------------------------
(* A scrape. *)

ScrapeStep(r, from, to) ==
    /\ pc[r] = from
    /\ Enter(r, to)
    /\ UNCHANGED <<config, path, gen, noted, panicked, logged, response, observed, behind, past,
                   breakerVars>>

Scrape(r) ==
    \/ ScrapeStep(r, "scrape", "clone") /\ RLock(r)
    \/ ScrapeStep(r, "clone", "load") /\ CloneMetrics(r)
    \/ ScrapeStep(r, "load", "collect") /\ RenderPrometheus(r)

\* The collectors have appended their part, or one of them panicked.
Collect(r) ==
    /\ pc[r] = "collect"
    /\ \/ Unwind(r, Touch(Unwritten, Wrapped(path[r]), Logging,
                          [op |-> "Write", code |-> 200]), FALSE, FALSE)
       \/ Unwind(r, Unwritten, TRUE, FALSE)
    /\ SendPage(r)
    /\ past' = [past EXCEPT ![r] = [over |-> {}, open |-> {}]]
    /\ UNCHANGED <<config, path, observed, behind, breakerVars>>

-----------------------------------------------------------------------------
(* The deferred function of the metrics middleware. *)

\* Mutant: a panic that nobody recovers is counted as the default status.
ObservedStatus_default(r) == StatusOf(noted[r])

ObservedStatus(r) ==
    IF panicked[r] /\ ~config.preset /\ noted[r] = 0
    THEN 500
    ELSE StatusOf(noted[r])

Observe(r) ==
    /\ pc[r] = "observe"
    /\ \E seconds \in Latencies[r] :
          /\ observe(PathLabel(path[r]), ObservedStatus(r), seconds)
          /\ observed' = [observed EXCEPT ![r] =
                             [code |-> ObservedStatus(r), seconds |-> seconds]]
    /\ Enter(r, "gauge")
    /\ UNCHANGED <<config, path, gen, noted, panicked, logged, response, behind, past, breakerVars>>

LowerGauge(r) ==
    /\ pc[r] = "gauge"
    /\ EndInFlight
    /\ Enter(r, "done")
    /\ panicked' = [panicked EXCEPT ![r] = FALSE]
    /\ UNCHANGED <<config, path, gen, noted, logged, response, observed, behind, past, breakerVars>>

Expire ==
    /\ "CircuitBreaker" \in Range(config.root)
    /\ BreakerExpire
    /\ UNCHANGED <<config, requestVars, metricsVars>>

\* What DenseCloud's own code does with a request.
Step(r) ==
    \/ Admit(r) \/ Refuse(r) \/ Probe(r) \/ Scrape(r) \/ Observe(r) \/ LowerGauge(r)

Next ==
    \/ \E r \in Requests : Arrive(r) \/ Step(r) \/ Answers(r) \/ Handler(r) \/ Collect(r)
    \/ Expire
    \/ (\A r \in Requests : pc[r] = "done") /\ UNCHANGED vars

\* The scheduler runs the layers; handlers and collectors may hang.
Fairness == \A r \in Requests : WF_vars(Step(r))

Spec == Init /\ [][Next]_vars /\ Fairness

-----------------------------------------------------------------------------
\* Counter and completion log name the status the client got, wherever a request
\* was answered, however its handler streams and wherever a panic was caught.  A
\* client whose connection a panic cut before the header was sent got none: the
\* counter then has the status the handler had set, although it was lost, and 500
\* if it had set none.  Excepted are handlers that are behind (HandlerWrites): the
\* three wrappers and net/http then take different calls for the first.
RecordsAgree ==
    \A r \in Requests : pc[r] = "done" /\ ~behind[r] =>
        /\ Counts(path[r]) =>
              observed[r].code = IF response[r] # 0 THEN response[r]
                                 ELSE IF noted[r] # 0 THEN noted[r] ELSE 500
        /\ logged[r] # 0 => logged[r] = response[r]

\* The requests that have been counted for label l, by status class and by latency.
Counted(l)       == {r \in Requests : observed[r].code # 0 /\ PathLabel(path[r]) = l}
CountedAs(l, k)  == {r \in Counted(l) : ClassOf(observed[r].code) = k}
CountedIn(l, t)  == {r \in Counted(l) : observed[r].seconds <= t}

\* A scrape, although it is put together in several steps, shows one state of the
\* collector: as many observations as requests per label, at least what was over
\* when it came and at most what has been counted, in every counter and under
\* every upper bound.  A request in flight throughout is in its gauge.
ScrapeFaithful ==
    \A s \in DOMAIN text :
        LET t == text[s]
        IN /\ \A l \in Labels :
                 /\ t.le[l][Len(Buckets) + 1] = t.count[l]
                 /\ t.count[l] = t.requests[l][1] + t.requests[l][2] + t.requests[l][3]
                                    + t.requests[l][4] + t.requests[l][5]
                 /\ \A k \in Classes :
                       /\ t.errors[l][k] = IF k >= 4 THEN t.requests[l][k] ELSE 0
                       /\ Cardinality(CountedAs(l, k) \cap past[s].over) <= t.requests[l][k]
                       /\ t.requests[l][k] <= Cardinality(CountedAs(l, k))
                 /\ \A i \in 1..Len(Buckets) :
                       /\ Cardinality(CountedIn(l, Buckets[i]) \cap past[s].over) <= t.le[l][i]
                       /\ t.le[l][i] <= Cardinality(CountedIn(l, Buckets[i]))
           /\ Cardinality({r \in past[s].open : InFlight(r)}) <= t.inFlight

\* The breaker opens only when a request that its present generation admitted has
\* failed: with a 5xx response or a panic, not with a client error, a refusal by
\* an inner layer or the late result of an earlier generation.
BreakerJudgesServerFailures ==
    [][state # "open" /\ state' = "open" =>
          \E r \in Requests :
             /\ pc[r] = "serve" /\ pc'[r] # "serve"
             /\ gen[r] = generation
             /\ response'[r] >= 500 \/ panicked'[r] \/ behind'[r]]_vars

\* Requests are finitely many here, so what each of them reaches in the end is
\* what holds from some time on.

\* A request whose handler has returned is done with, even when a collector of a
\* concurrent scrape never returns: the scrape does not keep the collector's lock.
RequestsComplete ==
    <>[](\A r \in Requests : pc[r] \notin {"observe", "gauge"})

\* Probes and scrapes that came have reached their handlers, whatever the root
\* middleware refuses and whatever product handlers hang, and a probe has been
\* answered by its handler: go/README.md says that the system routes bypass the
\* root middleware, and NewHTTPRuntime mounts them so.  The pipeline diagram of
\* the v1.0.0 report has them inside it, where an open circuit breaker or an empty
\* bucket of the product would refuse a probe.
SystemRoutesReachable ==
    <>[](\A r \in Requests : path[r] \in systemPaths /\ pc[r] # "idle" =>
            \/ path[r] = MetricsPath /\ pc[r] = "collect"
            \/ path[r] = MetricsPath /\ pc[r] = "done" /\ response[r] \in {0, 200, 500}
            \/ path[r] \in HealthPaths /\ pc[r] = "done" /\ response[r] \in {200, 503})
=============================================================================
