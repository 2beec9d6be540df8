# DenseCloud in TLA+

A verification project for the Go runtime library of DenseCloud
(`src/go`): TLA+ modules translated from the code, TLC runs that check them on
small instances, and TLAPS proofs that hold for every instance. Every
definition that models code is mapped to its lines in `PROJECT.json` (`map`).

## 1. Inventory

| Component | State it keeps | Operations | Interacts with |
| --- | --- | --- | --- |
| `server.GRPCRuntime` | serve attempt, listener, `lifecycleMu`, `shuttingDown`, health status, `shutdownHooksOnce`, `shutdownError` | `Start`, `Stop`, `GracefulStop` | grpc.Server, the Runner's serve goroutine and its `Shutdown`, product hooks |
| `server.HTTPRuntime` | health flags, `shutdownOnce`, `shutdownErr`, routes | `NewHTTPRuntime`, `Startup`, `BeginShutdown`, `Shutdown` | HealthRegistry, extensions, called as Runner hooks |
| `server.Runner` | options only; the run's state is local to `RunBlocking` | `RunBlocking`, `Shutdown` | both servers, signals, contexts, all hooks |
| `server.HealthRegistry` | two atomic flags, the registered checks, one execution slot per check | `Mark*`, `Register*`, four HTTP handlers | HTTP probes, check goroutines |
| `server` extensions | process-wide list | `RegisterRuntimeExtension`, `RuntimeExtensions` | NewHTTPRuntime |
| rate limiters | token buckets, partition map, Redis circuit state | `Allow`, `AllowKey` | middleware, interceptors, Redis |
| gRPC interceptors | none of their own | the chain of `GRPCServerPreset` | breaker, limiter, collector, handler |
| circuit breakers | the state of a gobreaker | middleware, unary and stream interceptor | gobreaker |
| metrics | counters, histograms, in-flight gauges | middleware, `BeginRPC`, `ObserveRPC`, scrape | every request |
| tracing provider | the global tracer provider and propagator | `InitOTelTracer`, `Shutdown` | OpenTelemetry globals |
| HTTP middleware and preset | none of their own; response writers per request | the chain that `NewHTTPRuntime` assembles | breaker, limiter, collector, handler |
| logger, Helm chart, scripts | none | - | - |

What is hard here is mostly in the lifecycle: calls of `Start`, `Stop` and
`GracefulStop` that race each other; a mutex held while user hooks run; a
`sync.Once` that several callers reach with different contexts; a drain that
races its deadline; errors of several steps that must all be followed by the
remaining steps; in the health registry, executions that outlive the probe
that started them; in the limiters, buckets used after their eviction, clocks
that disagree and commands executed after their caller gave up; in the HTTP
chain, three response writers that each note a status, panics caught at
different layers, and scrapes that are put together in steps; process globals
that several services install and restore. The full list, each hazard at its line with the
properties that would catch it, is `hazards` in `PROJECT.json`.

What makes the components correct:

* gRPC runtime: cleanup hooks run once, after startup, after health is down and
  after the drain; no stop returns before they have run; results are truthful;
  the listener never leaks; every stop returns.
* Runner: product resources are closed after both drains; everything is cleaned
  up exactly once whatever failed; the first error is reported; `RunBlocking`
  returns and leaves no goroutine behind; nothing starts after it returned.
* Health registry: one execution per check at a time; `200` only if every check
  succeeded and the lifecycle permits it; every probe is answered.
* Rate limiters: admissions stay within burst plus refill, per bucket and
  across replicas; the partition map stays bounded.
* Interceptors, circuit breakers and metrics: only server failures open a
  breaker; a trial request always decides; every RPC is counted once, under the
  code the server sends, also when it panics (a context's own error excepted,
  see below); a scrape shows one state.
* HTTP runtime: probes and scrapes are out of reach of the product's middleware;
  counter, log and client agree on the status of a request, as far as the client
  gets one.
* Tracing provider: a provider in use is displaced only by a newer one, and
  nested shutdowns give back what each found.
* Extensions: every runtime sees a prefix of one list, without duplicates.

## 2. Modules

| Module | Models |
| --- | --- |
| `ServiceLifecycle` | the abstract promise: advertise at most once, clean up once and in order after shutdown began |
| `GRPCRuntime` | `grpc_runtime.go`, whole |
| `GRPCRuntimeProofs` | its inductive invariant and theorems, and the refinement of `ServiceLifecycle` |
| `HTTPRuntime` | the lifecycle part of `runtime.go`, as operations of the goroutine that calls them |
| `Runner` | `runner.go`, composing `HTTPRuntime` and `GRPCRuntime` |
| `RunnerProofs` | its inductive invariant and theorems, and the refinement of `GRPCRuntime` |
| `HealthRegistry` | `health.go` |
| `HealthRegistryProofs` | its inductive invariant and theorems |
| `MCHealthRegistry` | the instance of `HealthRegistry` that TLC checks |
| `TokenBucket` | the bucket arithmetic of `ratelimit.go` and of the Lua script of `ratelimit_redis.go` |
| `PartitionedRateLimiter` | `ratelimit_partitioned.go` |
| `PartitionedRateLimiterProofs` | its inductive invariant and theorems |
| `RedisRateLimiter` | `ratelimit_redis.go`: the pods, the shared bucket in Redis, the circuit |
| `RedisRateLimiterProofs` | its inductive invariant and theorems |
| `MCPartitionedRateLimiter` | the instance that TLC checks |
| `Gobreaker` | external: gobreaker as the breakers use it |
| `GRPCMetrics` | the collector of `grpc_metrics.go` |
| `GRPCPipeline` | the interceptor chain of `grpc_preset.go` and `grpc.go`, composing `Gobreaker` and `GRPCMetrics` |
| `GRPCPipelineProofs` | its inductive invariants and theorems |
| `MCGRPCPipeline` | the instance that TLC checks |
| `HTTPMetrics` | the collector of `metrics.go`, as operations of the goroutine that calls them |
| `HTTPPipeline` | the handler that `NewHTTPRuntime` assembles from `http_preset.go`, `http.go`, `circuitbreaker.go` and `ratelimit.go`, composing `Gobreaker` and `HTTPMetrics` |
| `HTTPPipelineProofs` | its inductive invariants and theorems |
| `MCHTTPPipeline` | the instance that TLC checks |
| `TracerGlobals` | the process globals of OpenTelemetry as `otel.go` changes them |
| `Bootstrap` | services of one process: `TracerGlobals`, the extensions registry and the assembly of runtimes |
| `BootstrapProofs` | its inductive invariants and theorems, and the refinement of `TracerGlobals` |
| `MCBootstrap` | the instance that TLC checks |

### GRPCRuntime

Each element of `Starters`, `Stoppers` and `Drainers` is one call, made by a
goroutine of its own; `pc` is where it is and `ret` the set of errors joined
into its result. A step of a call extends to the next point where another
goroutine can observe or block it: a mutex, the `Once`, a hook, a channel, a
call into grpc.Server. `failHealth` is one action since nothing in its critical
section waits. The startup hooks run with `lifecycleMu` held (`lifecycleMu`
is the holder), so they are separate actions. The `Once` is `once`, `onceOwner`
(whose context the hooks got) and `stopHook`; the losers of the race wait in
`OnceReturn`. grpc.Server is modelled from its use: `Serve` on a stopped server
fails at once; `Serve` returns nil only after the stop that interrupted it is
complete; `GracefulStop` completes when no handler runs; `Stop` closes the
connections but does not wait for handlers; after an accept error established
connections stay up. A runtime with `DisableHealthService` is the same runtime
without the variable `health`.

### HTTPRuntime and Runner

`Runner` is assembled as the examples do: `HTTPRuntime.Startup`,
`BeginShutdown` and `Shutdown` are its startup, pre-shutdown and shutdown hooks,
each followed by a product hook that may fail. `grpcKind` is chosen initially:
no gRPC server, one with `Stop` only, or a `GRPCRuntime`. The serve goroutines
are launched together but move on their own, so one may first be scheduled after
`RunBlocking` has returned. `errCh` is a sequence of at most two results. A
gRPC startup error may wrap `context.Canceled`, which the merge treats as a
cancellation by the caller; the run error and the error of `Shutdown` are merged
as in `mergeRunAndShutdownError`. `Shutdown` called by the product itself,
concurrently with `RunBlocking`, is not modelled.

### HealthRegistry

A probe walks through the phases of its endpoint and the checks of each phase,
starting or joining the call in the check's slot and then waiting in the select
of `runCheck`. A call is identified by the probe and position that started it;
its goroutine closes `done`, then releases the slot, then cancels the call
context: `CheckDone` and `finish` are separate since probes can wake between
them. `finish` and `cancel` are one action: after `done` is closed no probe
tells the cancelled context from the live one. A check returns nil, an error or
never; what error it is, a deadline's included, no response tells apart.
`outcome` keeps each result with its call and the phase it was reported for.
Checks are registered, and the timeout is set, before the first probe.

### Rate limiters

A bucket counts parts of a token, `Cost` parts to a token, so that it can hold
part of one as the `float64` does; `Rate` parts flow in per tick.

`PartitionedRateLimiter`: a call reads the clock (`AllowKey`), takes the
limiter's mutex (`partitionForKey`: cleanup, lookup, creation or overflow in one
critical section), then the bucket's mutex (`Allow`). Other calls, cleanups and
ticks come in between, so a bucket may be used after its eviction. A bucket is
named after the call that made it. `allowed` records when each bucket allowed a
request. `lastSeen` of the overflow entry is left out since nothing reads it.

`RedisRateLimiter`: `Check` is `isCircuitOpen`, `Send` reads the pod's clock and
issues the command, `Execute` is the script at the server, `Answered` and
`Failed` are the two ends of `AllowKey`, each with its `record` call. Redis, the
network and go-redis are modelled from their use: a command may be lost,
executed after its caller gave up, or sent again with the same arguments. `up`
means that Redis answers within the 100 ms. Time is kept relative to the
present, and the counters `failures` and `sinceFailure` stop at the value beyond
which the code cannot tell them apart, so that the state space is finite without
an end of time. `credit` is a history variable: a token bucket that keeps true
time, of the same rate, with a burst larger by what flows in during
`Drift = Skew + Delay`; it pays for every token the script grants, and
`FleetWithinRate` says that it always can. The code takes `KeyTTL`, rate and
burst independently of each other, and a key that expires makes the bucket full.
The history bucket therefore gets `Windfall` when the key expires: what `KeyTTL`
seconds of refill lack to a full bucket. It is zero when the key outlives the
refill; otherwise it is the early burst of which the property allows one for
every `KeyTTL` seconds without a command. Without it the property fails in the
run, where it is 1. The answers of the fallback limiter
are stuttering steps here: its state is its own and has its own module. What it
grants is per pod and not counted, as the report says (line 697).
Redis losing its data is not modelled (the code does nothing about it).

### gRPC interceptors, circuit breaker and metrics

An RPC goes down the chain in the order of `GRPCServerPreset` and unwinds with a
status code or a panic. It stops only where it touches what RPCs share: the
gauge, the counters behind the mutex, the breaker's entry (`Admit`, `Refuse`)
and its report (`ExecuteEnds`). `BeginRPC` therefore includes the product's
interceptors, and `ObserveRPC` the way up through logging, tracing and recovery.
Codes are reduced to one for each way the code treats them. An outcome may also
be an error that is no status: a context's own (`context.Canceled` stands for
the deadline's too) or another (`RawErrors`). `StatusCode` is grpc-go's
`status.Code`, which the metrics interceptor counts and which gives `Unknown` for
both; `Result` is what the breaker interceptor returns, `Unavailable` for both;
`FromContextError` is what grpc-go's server sends, `Canceled` for the first and
`Unknown` for the second. So an RPC whose context error leaves the chain is
counted `Unknown` and answered `Canceled`; `CountedAsReplied` names these RPCs
and says that they are the only ones, and that no handler behind a breaker is
among them. A nil limiter is a
limiter that never refuses, and a nil collector is no collector; the breaker is
optional (`breaker`). The unary and the stream interceptors are alike; the
mapped lines include both where they are adjacent.

`Gobreaker` keeps state, generation and counts as the library does; its two
timers (`Interval`, `Timeout`) run out at any moment (`BreakerExpire`).
`AppendPrometheus` is a state function: a scrape holds the read lock throughout
and loads the gauge once, so what it shows is one state. The text format, label
escaping and the sum of latencies are left out.

### HTTP runtime, middleware and metrics

A request goes down the chain and unwinds; it stops only where it touches what
requests share. `config` is chosen initially: the preset (recovery and logging
among its layers) or none, health and metrics routes or none, and a sequence of
root layers. `Writers` are the `responseWriter` of the breaker, that of logging,
the `metricsResponseWriter` and net/http itself, from the inside out; `Notes`
says which of them record a status for one call of a handler, and
`HandlerWrites` are the effects of all short sequences of calls. `Wrapped` says
which of them a request has around it. A layer that answers for the handler
(`Outer`, `Inner`: around or inside the breaker) is a choice, as are a panic and
its absence. A chain has at most one circuit breaker (`PipelineAssumption`), as
`Gobreaker` is the state of one. Without the metrics route the runtime has no collector; a collector
passed in with the route disabled would count as with the route.

A scrape is three steps and a fourth that may never come: it takes the read
lock, clones and unlocks, renders with the gauge of that later moment, and runs
the collectors. `observe` waits for readers.

net/http buffers the header with the beginning of the body (`Sent` says when it
has left), and a panic that reaches it, without the preset's recovery, closes the
connection (`Finish`): a header that was still buffered is lost. Such a client
got no status, and `RecordsAgree` says what the counter then has: the status the
handler had set (`metrics.go:117`), or 500 if it had set none. With recovery a
panic becomes 500 only if the response has not begun; otherwise client and
counter keep the status it began with.

Handlers that stream (`Flush` or `ReadFrom` first, then writes) are covered: the
wrappers that noted nothing stand for 200. `RecordsAgree` excepts handlers that
are `Behind`: they send an informational status first, or set a status or panic
after they have begun to stream without one. There the wrappers do note different
calls: `Flush` sends `200` without any of them noting it, `ReadFrom` passes the
two inner ones by (`http.go:273`, where `metrics.go:422` notes `200`), and a `103`
is final to all three but not to net/http. A later status is then recorded and
not sent, or sent and not recorded. The report (line 401) promises that the first
`WriteHeader` is recorded, and it is.

### Tracing globals, extensions and the assembly of runtimes

In `TracerGlobals` a provider goes through `InitOTelTracer` (which may fail, or
be disabled: `"off"`), the reads of the previous globals, the two writes, and
`Shutdown` with its two restores. `otelGlobalMu` is held over the reads and
writes, so each of them is a step; `InitOTelPropagator` and the readers do not
take it. `installs` and `rank` record the order of installation, `app` the
application's own propagator, `late` that it was set between, `nested` that
every `Shutdown` so far was that of the newest provider in use. A process that
shuts providers down in another order can be left with a provider that was shut
down as the global one (it was the `previousProvider` of a later one), which no
property forbids.

`Bootstrap` adds the services: each assembles its runtime after its
`InitOTelTracer` and shuts down after the assembly. The snapshot of the
extensions, the tracer and the propagator are read in this order, in steps.
OpenTelemetry's delegating default provider is a provider like any other here.

## 3. Runs

| Run | Shows |
| --- | --- |
| `GRPCRuntime_calls` | Two Start, one Stop and one GracefulStop call race on one runtime with an RPC and two shutdown hooks: cleanup runs once, after health is down, after startup and after the drain; every caller gets a truthful result; the runtime implements ServiceLifecycle; every stop returns even when RPC handlers hang. Properties: `NoStartupDuringCleanup`, `HealthDownBeforeCleanup`, `StopWaitsForCleanup`, `DrainBeforeCleanup`, `ListenerReleased`, `GracefulResultTruthful`, `ImplementsLifecycle`, `StopsReturn`, `StartReturnsAfterStop`. |
| `GRPCRuntime_serve_error` (violation) | After an accept error Start runs the shutdown hooks beside RPCs that are still in flight. Properties: `CleanupAfterDrain`. |
| `GRPCRuntime_deadline` (violation) | A startup hook that hangs keeps lifecycleMu, so GracefulStop outlives its context. Properties: `DeadlineBoundsGracefulStop`. |
| `Runner_run` | RunBlocking with an HTTP runtime and no, a force-stopped or a gracefully stopped gRPC server, any hook, server or drain failing: resources outlive requests, everything is cleaned up once, the first error is reported, and RunBlocking returns and leaves no serve goroutine behind although handlers hang. Properties: `ResourcesOutliveRequests`, `AllCleanedAtReturn`, `FirstErrorReported`, `NothingStartsAfterReturn`, `RunnerReturns`. |
| `Runner_context` (violation) | After a graceful stop the goroutine of Start can be the one that runs the cleanup hooks, under its background context. Properties: `OneShutdownContext`. |
| `HealthRegistry_probes` | A summary and a readiness probe share a check and race the lifecycle flags, the deadline and clients that go away: one execution per check, 200 only if every check of the phases it vouches for succeeded and the lifecycle permits it, probes that share a call differ only by the deadline or by their own cancellation, every probe is answered although checks may hang, and the slot of a check that returned is released. Properties: `SingleExecution`, `HealthyMeansChecked`, `NoSpuriousCancel`, `ReadyFailsClosed`, `ProbesAnswered`, `SlotReleased`. |
| `PartitionedRateLimiter_safety` | Four concurrent calls of AllowKey with two keys and room for one partition, over a cleanup: the map keeps to its bound, keys do not share partitions, no bucket, evicted or shared, exceeds its rate in any window, and a bucket in use is evicted early only by as much as a call has waited for the mutex. Properties: `PartitionsBounded`, `BucketsWithinRate`, `KeysIsolated`, `EvictedBucketsIdle`. |
| `RedisRateLimiter_pod` | Two concurrent calls with clocks up to a second apart, commands executed late, twice or never, a key that expires before its bucket would have filled up, and Redis going away and coming back at will: Redis grants no more than the rate in true time and what each expiry is worth, and a lasting outage opens the circuit for good, although Redis may never answer, and a lasting recovery closes it. Properties: `FleetWithinRate`, `CircuitMatchesFailures`, `CircuitFollowsRedis`. |
| `GRPCPipeline_codes` | Three RPCs through the interceptor chain with and without a breaker, refused, failing with a status or with an error that is none, or panicking at every layer while the breaker trips and half-opens: every RPC is counted once, under the code the server sends except for a context's own error, gauge, counters and histogram tell the truth at any scrape, and a trial request frees the half-open breaker even by panicking; it refuses only while a trial of its own is inside. Properties: `CountedAsReplied`, `ScrapeConsistent`, `RefusesForTrial`, `TrialDecides`. |
| `GRPCPipeline_client_errors` (violation) | RPCs that end with a client error, or are refused by the rate limiter, open the gRPC circuit breaker. Properties: `OnlyServerFailuresTrip`. |
| `HTTPPipeline_requests` | Two product requests, one of which fails, and a probe, scrape or redirect through three assemblies of NewHTTPRuntime, answered, refused, streaming, failing or panicking at every layer: counter, log and client agree, or the counter has the status that a cut connection lost; a scrape shows one state of the collector, only server failures open the breaker, and neither a hanging collector nor root middleware holds up requests, probes or scrapes. Properties: `RecordsAgree`, `ScrapeFaithful`, `BreakerJudgesServerFailures`, `RequestsComplete`, `SystemRoutesReachable`. |
| `Bootstrap_services` | Three services in one process install tracer providers, assemble runtimes and shut down in any order while two extensions are registered and the application sets its propagator: no provider in use is displaced by a restore, nested shutdowns give back what was there, runtimes trace, and all run the extensions they have in the same order. Properties: `InUseNotDisplaced`, `NestedShutdownRestores`, `RuntimeIsTraced`, `RuntimesAgreeOnExtensions`. |

Violation runs show where the code differs from a document in how it behaves over
several steps; `findings` quotes the line. The modules show these differences
from `DenseCloud_CTO_Report.md` too, each plain from one place in the code:

* Line 519 has the summary answer `200` with `degraded` when only liveness failed.
  `summaryHandler` (`health.go:242`) answers `503` for a failure of any phase.
  `HealthyMeansChecked` claims for a summary only what both grant: `200` vouches
  for readiness and startup.
* Line 1051 has probes that share a call return the same result.
  `normalizeHealthCheckCallError` (`health.go:388`) asks the call's context again
  for each of them, so a deadline that passes between `close(call.done)` and
  `cancel` makes the success of one probe a timeout for the next.
  `HealthyMeansChecked` and its proof give the exact bound: probes that share a
  call which returned nil differ in this way, or by a client that went away, and
  in no other.
* The pipeline diagram (lines 340-344) has `/health*` and `/metrics` on the root
  mux, inside the product's root middleware. `NewHTTPRuntime` (`runtime.go:161`)
  splits them off before it, as `go/README.md:62` says, and
  `SystemRoutesReachable` holds for that reason. Under the diagram an open
  circuit breaker of the product would refuse probes.
* Lines 356 and 1047 have a panic of a handler answered with `500`. Recovery
  (`http.go:86`) cannot change a response that has begun: then the client gets,
  and the metrics count, the status the handler had set.
* `mergeRunAndShutdownError` (`runner.go:171`) drops any server error that wraps
  `context.Canceled`, not only the caller's cancellation; `FirstErrorReported`
  leaves such errors out.

### Bounds

* `GRPCRuntime_calls`: two `Start` calls (the second is refused), one `Stop`,
  one `GracefulStop`, one RPC, one startup and two shutdown hooks. Two hooks
  distinguish "the first", "the last" and "all"; three callers can reach the
  `Once` in every order. More callers are covered by the proofs.
* `Runner_run`: one call of each kind, as `RunBlocking` makes them, one hook
  and one request per server. Every hook and server may fail, and handlers may
  hang.
* `HealthRegistry_probes`: a summary and a readiness probe with a check that
  liveness and readiness share, so that the summary evaluates it twice and a
  failure can be followed by a success, and the readiness probe can join the
  call of either phase.
* `PartitionedRateLimiter_safety`: four calls, two keys, room for one partition
  and a burst of one: the overflow bucket is shared, a key is evicted while a
  call holds its bucket, and a bucket fills up in part.
* `RedisRateLimiter_pod`: one pod with two concurrent calls. Every call reads a
  clock of its own within `Skew`, so for the shared bucket the two calls may be
  of two pods; circuits of different pods do not interact. Clocks up to one
  second apart, commands up to one second late, and a key that expires a second
  before an empty bucket would have been full (`Windfall` is 1).
* `GRPCPipeline_codes`: three RPCs, a breaker that opens after two failures and
  admits one trial, two expiries of its timers, one histogram bucket with a
  latency at its bound and one above. This is the least in which a breaker
  opens, half-opens and meets a trial request and a late report.
* `HTTPPipeline_requests`: two product requests, of which
  one makes any calls on the writer but a 500 and the other fails with 500, and
  one request that probes, scrapes or asks for the bare prefix, which redirects;
  up to two calls on the writer, and a panic after them; three assemblies, which
  between them have every layer, the limiter outside and the body limit inside
  the breaker, recovery or none, system routes or none; a breaker that opens
  after one failure and one expiry, so that the late failure of one request can
  meet the breaker half-open after the failure of the other.
* `Bootstrap_services`: three services, the least in which a shutdown that is
  out of order leaves a provider below and one above. Two extension names, so
  that lists have an order, each offered again after it is taken, and one
  extension without a name. Services are symmetric.

### Fairness

The Go scheduler runs every goroutine that can move and mutexes are handed over,
so steps of the code itself are weakly fair. Contexts with a deadline expire.
Hooks are assumed to return (`HooksReturn`) except in `GRPCRuntime_deadline`,
where a hook is only assumed to return once its context is done
(`ContextFairSpec`): this is the assumption a deadline is made for. Nothing is
assumed of RPC handlers, HTTP handlers, clients, health checks, accept errors or
termination events: liveness must hold although they never happen.

In `RedisRateLimiter_pod` time passes, Redis executes what reaches it while
it is up, and a call ends (strongly fair: its context expires after 100 ms
however often Redis comes and goes). Every pod keeps being called: without
requests nothing would probe a circuit.

In `GRPCPipeline_codes` an RPC that has begun goes on: interceptors run and the
handler returns or panics. No RPC has to begin and no timer has to run out. A
handler that hangs keeps the half-open slot; gobreaker has no remedy for it.

In `HTTPPipeline_requests` only DenseCloud's own layers are fair: handlers, the
product's middleware and collectors may hang. `sync.RWMutex` lets a waiting
writer in before later readers, and scrapes are finitely many, so weak fairness
of `Observe` is justified. The liveness properties of this run and of
`HealthRegistry_probes` are stated as what holds from some time on: every request and
probe comes once, so this says the same as a leads-to for each of them.
In `HealthRegistry_probes` the goroutines of all calls share one fairness
condition per kind of step. Calls are finitely many and each takes a step of a
kind once, so this is no weaker than one condition per call.

## 4. Proofs

TLAPS checks, for every number of calls, hooks, RPCs, requests, probes and
checks, that every invariant and every action property of the passing runs
holds:

* `GRPCRuntimeProofs`. None of the safety invariants is inductive by itself. The
  invariant `IInv` adds where each kind of call can be (`RoleInv`), who holds
  `lifecycleMu` and who knows that shutdown began (`LockInv`), how far the hooks
  are for every state of the `Once` (`OnceInv`), that one `Start` at most is
  past `prepareListener` and what the listener and transport look like at each
  of its steps (`StartInv`), what a drained or forced server implies for the
  handlers (`DrainInv`), and which errors a call has collected (`ErrorInv`). The
  proof has one step per action. The theorems `StartupBeforeCleanup`,
  `HealthBeforeCleanup`, `CleanupExactlyOnce`, `CleanupFollowsDrain`,
  `ListenerAlwaysReleased` and `GracefulStopTruthful` follow from `IInv`, and
  `RefinesLifecycle` maps each action to an abstract step or a stutter.
* `HealthRegistryProofs`. A running call owns the slot of its check until
  `finish`, hence `OneRunPerCheck`; a call context is cancelled only after
  `done` was closed, hence `CancelIsPrivate`. For what a `200` means, `VerdictInv`
  follows a probe through its endpoint: it starts calls only at positions it has
  reached, so each is a new one (`FreshInv`); every result is backed by its call
  (ok by nil, error by an error, a timeout by the deadline: `BackedBy`), and
  whatever the probe has passed was reported ok there, or the phase has failed
  (`OutcomeInv`); readiness that was not refused was entered after `MarkStarted`,
  by a probe that came before `MarkShuttingDown` (`ReadyInv`). Hence
  `HealthyIsChecked` and `ReadinessFailsClosed`.
* `RunnerProofs`. `RunnerRefinesGRPC`: every step of the Runner is a step of
  `GRPCRuntime` or leaves its variables alone, so `IInv` holds in the composed
  process and is not proved again. `RunnerIInv` adds what each step of `Shutdown`
  leaves behind for the next (`DownInv`), the HTTP runtime's `Once`
  (`HTTPOnceInv`), what cannot have happened before the serve goroutines were
  launched (`LaunchInv`) and the error that is kept (`FirstErrInv`). Hence
  `ResourcesOutlive`, `AllCleaned`, `FirstErrorIsReported` and the action property
  `NothingStartsLate`.
* `GRPCPipelineProofs`. `CountInv`: gauge, counters and buckets are each the
  cardinality of a set of RPCs, and every step adds to or takes from these sets
  one RPC; hence, with where a context's error can come from (`OriginInv`),
  `RepliesAreCounted`. The rendering loop sums buckets, so
  `ScrapeIsConsistent` also needs what the loop computes (`CumulativeSum`) and that
  bounds increase. `SlotInv`: of the slots a half-open breaker has given, each is
  held by an RPC of its generation that is inside, or was given back by a success,
  and the successes are too few to close it; hence `RefusalHasTrial`, the part of
  `TrialDecides` that is not liveness.
* `HTTPPipelineProofs`. `Uniform`: from any writer outward, all of them note no
  status or the same final one. Every way a layer answers keeps it
  (`ErrorUniform`), and so does a handler that begins with a final status; one
  that streams and sets none leaves writers that stand for the same status
  (`Agreed`), and any other is `behind` (`WrittenUniform`, by induction over the
  calls). Recovery, logging, the collector and net/http then read the same value,
  or net/http has lost it (`AgreeInv`), hence `StatusRecordsAgree`.
  `OnlyServerFailuresOpen` follows from the types and the step. `CountInv` is as for gRPC, per label and class; `ScrapeInv` says that
  what a scrape holds shows exactly some set of requests, between what had been
  counted when it came and what has been counted by now, for its clone and then
  for its page. Such a set is not disturbed by the steps of others
  (`ScrapeUndisturbed`), hence `ScrapeIsFaithful`.
* `PartitionedRateLimiterProofs`. `BucketInv`: for every allowed request, the
  tokens left and the tokens spent since come from the burst and the refill
  since; the window bound follows, and `TakenInv` shows that one `Allow` keeps
  it. `OwnerInv` ties a partition to the key of the call that made it, in the
  map and in the hands of calls, and `ProgressInv` keeps new buckets untouched.
  Hence `RateBound`, `MapBound` (with the cardinality facts of the library) and
  `Isolation`.
* `RedisRateLimiterProofs`. `LedgerInv`: the true-time bucket owns at least what
  the stored bucket would hold now if it were not capped (`Potential`), and at
  least the refill since the key was last written, so that this refill and
  `Windfall` make it full when the key expires. A clock that goes back lowers the
  tokens by what the next reading gives back, which is why no token is minted.
  Hence `FleetRate`, for every `KeyTTL`, and `CircuitCount`.
  `EvictionBound`, in `PartitionedRateLimiterProofs`, rests on `LagInv`: the
  `lastSeen` of a partition is the time some call with its bucket read, and that
  call got the mutex after every call with the bucket had read the clock.
* `BootstrapProofs`. `BootstrapRefinesTracer` shows that a process of services is
  a behaviour of `TracerGlobals`, so its invariants carry over. `DisplaceInv`:
  what a provider found when it was installed is not older than any provider in
  use below it (`ChainInv`), and who holds the mutex is newer than all of them
  (`HolderInv`). `NestInv`: while shutdowns are nested, every provider remembers
  the newest one in use below it, or the process's own globals. Hence `InUseKept`
  and `NestedRestore`; `RuntimesTraced` adds that ranks never change,
  `ExtensionsAgree` that the list only grows.

Two facts need induction over data: what the loop over the buckets sums up, and
what a handler's sequence of calls leaves in the writers. The loop and the
sequence are recursive functions. The induction theorems of the library take a
predicate, which the provers cannot instantiate, but its well-foundedness facts
take sets: `NatMin` (a nonempty set of naturals has a least element) follows from
`NatLessThanWellFounded` and `WFMin`, and `NatInd` from it. The two pipeline proof
modules each state these and the facts about buckets, since their collectors are
different modules with operators of the same names.

The only assumptions are those named `...Assumption` in the modules: call sets
are disjoint, numbers of hooks are naturals, registrations are sequences of
checks, the Runner makes one call of each kind, requests are finitely many,
bucket bounds increase, a chain has at most one breaker. TLC evaluates them in
the runs.

Model-checked only: liveness, which under fairness is out of the prover's reach:
`StopsReturn` and `StartReturnsAfterStop`, `RunnerReturns`, `ProbesAnswered` and
`SlotReleased`, `CircuitFollowsRedis`, `TrialDecides`,
`RequestsComplete` and `SystemRoutesReachable`. The violation runs need no proof:
their counterexamples are what they show.

## 5. Not modelled

* Key extraction for rate limits, and the choice between Redis and memory at
  bootstrap: string handling, and one decision before the first request.
* `Hijack` and `Push`: they end or extend a response outside of what the writers
  record. `SystemMiddleware`, a custom path labeler and `APIBasePath` "/": the
  product's functions, or another fixed path.
* Request ids, content type and CORS headers, trace headers: per request, and no
  property tells them apart. `RequestTimeout` sets a context deadline that only
  the handler looks at.
* Registration of health checks while probes are served: `evaluate` reads the
  slice header before it takes the lock (`health.go:271`), which is a data race;
  every example registers before it serves.
* A signal that arrives before `signal.Notify` (`runner.go:96`): the process dies
  and nothing outlives it. When the context and a server error are ready together,
  `select` picks either (`runner.go:100`), and the error may be lost; no document
  promises otherwise.
* The logger: output. The Helm chart, examples and scripts: templates and wiring;
  the wiring is what `Runner` and `Bootstrap` model.

## 6. Plan

Done: the abstract lifecycle, the gRPC runtime, the HTTP runtime's lifecycle,
the Runner, the health registry, the rate limiters, the gRPC interceptor chain and the
HTTP runtime's handler with breakers and metrics, the tracing globals and the
extensions; proofs of every invariant and action property of the passing runs.

Next, in this order:

1. The safety part of the liveness properties, as invariants with theorems, as
   `RefusesForTrial` is of `TrialDecides`: a slot of the health registry that is
   taken has a goroutine that will release it (`SlotReleased`), and a call that
   waits for `lifecycleMu` or the `Once` waits for one that is not waiting
   (`StopsReturn`).
2. Shorter proofs where two components share an argument.
