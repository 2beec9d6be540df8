------------------------------- MODULE Runner -------------------------------
(***************************************************************************)
(* server.Runner (go/server/runner.go), assembled as in go/examples: its   *)
(* startup hooks are HTTPRuntime.Startup and a product hook, its           *)
(* pre-shutdown hooks HTTPRuntime.BeginShutdown and a product hook, its    *)
(* shutdown hooks HTTPRuntime.Shutdown and a product hook.  The gRPC       *)
(* server is a GRPCRuntime: Starters holds the call of Start by the serve  *)
(* goroutine, Drainers and Stoppers the calls of GracefulStop and Stop by  *)
(* Shutdown.  It may also be hidden behind a GRPCServer that has no        *)
(* GracefulStop, or gRPC may not be enabled.                               *)
(* net/http's Server is external: ListenAndServe, Shutdown, its requests.  *)
(***************************************************************************)
EXTENDS GRPCRuntime, HTTPRuntime, Sequences

CONSTANTS
    Requests,       \* HTTP requests the server may carry
    GRPCKinds       \* the kinds of GRPCServer the options may hold

ASSUME RunnerAssumption ==
    /\ \E t \in Starters : Starters = {t}
    /\ \E s \in Stoppers : Stoppers = {s}
    /\ \E d \in Drainers : Drainers = {d}
    /\ GRPCKinds \subseteq {"none", "plain", "graceful"}

VARIABLES
    grpcKind,       \* Options: no gRPC server, one with Stop only, or both
    runner,         \* where RunBlocking is
    launched,       \* the serve goroutines have been started
    httpLoop,       \* the HTTP serve goroutine
    grpcSent,       \* the gRPC serve goroutine has sent Start's result
    httpServer,     \* net/http: "new", "serving", "failed" or "shutdown"
    httpInflight,   \* HTTP requests whose handlers are running
    errCh,          \* the channel of server results
    deadline,       \* the shutdown context is done
    runErr,         \* why RunBlocking left its select, or the startup error
    rollbackErr,    \* the rollback of HTTPRuntime.Startup failed too
    firstErr,       \* the first error of Shutdown
    failures,       \* history: the steps of Shutdown that failed, in order
    result          \* the errors joined into RunBlocking's result

runnerVars == <<grpcKind, runner, launched, httpLoop, grpcSent, httpServer,
                httpInflight, errCh, deadline, runErr, rollbackErr, firstErr,
                failures, result>>
allVars == <<vars, httpRuntimeVars, runnerVars>>

-----------------------------------------------------------------------------
Stages == {"startup", "rollback", "product", "run", "pre", "preProduct",
           "http", "httpDrain", "grpc", "stop", "post", "cleanup",
           "postProduct", "returned"}
ServerResults == {"closed", "nil", "http", "grpc", "grpcCanceled"}
RunErrors == {"none", "startup", "canceled", "deadline", "http", "grpc",
              "grpcCanceled"}
Steps == {"pre", "http", "grpc", "cleanup", "product"}

RunnerTypeOK ==
    /\ TypeOK /\ HTTPTypeOK
    /\ grpcKind \in GRPCKinds
    /\ runner \in Stages
    /\ launched \in BOOLEAN /\ grpcSent \in BOOLEAN /\ deadline \in BOOLEAN
    /\ httpLoop \in {"idle", "serving", "returned"}
    /\ httpServer \in {"new", "serving", "failed", "shutdown"}
    /\ httpInflight \in SUBSET Requests
    /\ errCh \in Seq(ServerResults) /\ Len(errCh) <= 2
    /\ runErr \in RunErrors
    /\ rollbackErr \in BOOLEAN
    /\ firstErr \in Steps \cup {"none"}
    /\ failures \in Seq(Steps)
    /\ result \in SUBSET (RunErrors \cup Steps)

RunnerInit ==
    /\ Init /\ HTTPInit
    /\ grpcKind \in GRPCKinds
    /\ runner = "startup"
    /\ launched = FALSE
    /\ httpLoop = "idle"
    /\ grpcSent = FALSE
    /\ httpServer = "new"
    /\ httpInflight = {}
    /\ errCh = <<>>
    /\ deadline = FALSE
    /\ runErr = "none"
    /\ rollbackErr = FALSE
    /\ firstErr = "none"
    /\ failures = <<>>
    /\ result = {}

\* What a step of RunBlocking leaves alone unless it is named there.
grpcFrame   == UNCHANGED <<vars, grpcKind>>
serverFrame == UNCHANGED <<httpLoop, grpcSent, httpServer, httpInflight>>
errFrame    == UNCHANGED <<rollbackErr, firstErr, failures, result>>

-----------------------------------------------------------------------------
(* RunBlocking: the startup hooks. *)

\* A hook of HTTPRuntime.Startup succeeds.
StartupStep ==
    /\ runner = "startup"
    /\ HTTPStartupHook
    /\ UNCHANGED runnerVars /\ grpcFrame

\* HTTPRuntime.Startup returns nil.
StartupSucceeds ==
    /\ runner = "startup"
    /\ HTTPMarkStarted
    /\ runner' = "product"
    /\ UNCHANGED <<launched, errCh, deadline, runErr>>
    /\ serverFrame /\ errFrame /\ grpcFrame

\* A hook of HTTPRuntime.Startup fails and HTTPRuntime.Shutdown rolls back.
StartupFails ==
    /\ runner = "startup"
    /\ HTTPHooksLeft
    /\ BeginShutdown
    /\ runErr' = "startup"
    /\ runner' = "rollback"
    /\ UNCHANGED <<launched, errCh, deadline>>
    /\ serverFrame /\ errFrame /\ grpcFrame

RollbackStep ==
    /\ runner = "rollback"
    /\ HTTPCleanup
    /\ UNCHANGED runnerVars /\ grpcFrame

\* Startup returns the hook's error joined with the rollback's.
RollbackDone ==
    /\ runner = "rollback"
    /\ httpOnce = "done"
    /\ rollbackErr' = httpShutdownErr
    /\ runner' = "pre"
    /\ UNCHANGED <<launched, errCh, deadline, runErr, firstErr, failures,
                   result, httpRuntimeVars>>
    /\ serverFrame /\ grpcFrame

\* The product's startup hook fails, or succeeds and the servers are launched.
ProductStartup ==
    /\ runner = "product"
    /\ \/ runner' = "pre" /\ runErr' = "startup" /\ UNCHANGED launched
       \/ runner' = "run" /\ launched' = TRUE /\ UNCHANGED runErr
    /\ UNCHANGED <<errCh, deadline, httpRuntimeVars>>
    /\ serverFrame /\ errFrame /\ grpcFrame

-----------------------------------------------------------------------------
(* The serve goroutines and the channel they report to. *)

\* make(chan error, 2)
ErrChCap == 2

\* errCh <- r, which waits for room; after the select nobody receives.
Send(r) == Len(errCh) < ErrChCap /\ errCh' = Append(errCh, r)

\* ListenAndServe: after Shutdown it returns at once, else it binds or fails.
HTTPListen ==
    /\ launched /\ httpLoop = "idle"
    /\ \/ /\ httpServer = "shutdown"
          /\ Send("closed")
          /\ httpLoop' = "returned"
          /\ UNCHANGED httpServer
       \/ /\ httpServer = "new"
          /\ Send("http")
          /\ httpLoop' = "returned"
          /\ UNCHANGED httpServer
       \/ /\ httpServer = "new"
          /\ httpServer' = "serving"
          /\ httpLoop' = "serving"
          /\ UNCHANGED errCh
    /\ UNCHANGED <<runner, launched, grpcSent, httpInflight, deadline, runErr,
                   httpRuntimeVars>>
    /\ errFrame /\ grpcFrame

\* ListenAndServe returns: ErrServerClosed as soon as Shutdown is entered, an
\* accept error before that.
HTTPListenReturns ==
    /\ httpLoop = "serving"
    /\ \/ httpServer = "shutdown" /\ Send("closed") /\ UNCHANGED httpServer
       \/ httpServer = "serving" /\ Send("http") /\ httpServer' = "failed"
    /\ httpLoop' = "returned"
    /\ UNCHANGED <<runner, launched, grpcSent, httpInflight, deadline, runErr,
                   httpRuntimeVars>>
    /\ errFrame /\ grpcFrame

\* The gRPC goroutine sends what Start returned; the error of a startup hook
\* may wrap context.Canceled.
GRPCSend(t) ==
    /\ pc[t] = "returned" /\ ~grpcSent
    /\ grpcSent' = TRUE
    /\ \/ ret[t] = {} /\ Send("nil")
       \/ ret[t] # {} /\ Send("grpc")
       \/ "startupHook" \in ret[t] /\ Send("grpcCanceled")
    /\ UNCHANGED <<runner, launched, httpLoop, httpServer, httpInflight,
                   deadline, runErr, httpRuntimeVars>>
    /\ errFrame /\ grpcFrame

-----------------------------------------------------------------------------
(* RunBlocking: the select. *)

\* case <-ctx.Done(): the caller's context is cancelled or past its deadline.
SelectContext ==
    /\ runner = "run"
    /\ \E e \in {"canceled", "deadline"} : runErr' = e
    /\ runner' = "pre"
    /\ UNCHANGED <<launched, errCh, deadline, httpRuntimeVars>>
    /\ serverFrame /\ errFrame /\ grpcFrame

\* case sig := <-sigCh
SelectSignal ==
    /\ runner = "run"
    /\ runner' = "pre"
    /\ UNCHANGED <<launched, errCh, deadline, runErr, httpRuntimeVars>>
    /\ serverFrame /\ errFrame /\ grpcFrame

\* case err := <-errCh
SelectServer ==
    /\ runner = "run"
    /\ errCh # <<>>
    /\ errCh' = Tail(errCh)
    /\ runErr' = IF Head(errCh) \in {"nil", "closed"} THEN runErr
                 ELSE Head(errCh)
    /\ runner' = "pre"
    /\ UNCHANGED <<launched, deadline, httpRuntimeVars>>
    /\ serverFrame /\ errFrame /\ grpcFrame

-----------------------------------------------------------------------------
(* Shutdown. *)

\* Mutant: the last error wins.
Fail_last(step) ==
    /\ firstErr' = step
    /\ failures' = Append(failures, step)

\* A step of Shutdown fails: the first error is kept, Shutdown goes on.
Fail(step) ==
    /\ firstErr' = IF firstErr = "none" THEN step ELSE firstErr
    /\ failures' = Append(failures, step)

Succeed == UNCHANGED <<firstErr, failures>>

\* Leaving a step of Shutdown for the next.
ShutdownGoto(label) ==
    /\ runner' = label
    /\ UNCHANGED <<launched, errCh, runErr, rollbackErr, deadline>>

\* PreShutdownHooks: HTTPRuntime.BeginShutdown.
PreShutdown ==
    /\ runner = "pre"
    /\ BeginShutdown
    /\ ShutdownGoto("preProduct")
    /\ Succeed /\ UNCHANGED result
    /\ serverFrame /\ grpcFrame

\* PreShutdownHooks: the product's hook.
PreShutdownProduct ==
    /\ runner = "preProduct"
    /\ Succeed \/ Fail("pre")
    /\ ShutdownGoto("http")
    /\ UNCHANGED <<result, httpRuntimeVars>>
    /\ serverFrame /\ grpcFrame

\* HTTPServer.Shutdown closes the listeners ...
HTTPShutdownBegin ==
    /\ runner = "http"
    /\ httpServer' = "shutdown"
    /\ ShutdownGoto("httpDrain")
    /\ Succeed
    /\ UNCHANGED <<result, httpLoop, grpcSent, httpInflight, httpRuntimeVars>>
    /\ grpcFrame

\* Mutant: the product's resources are closed before the gRPC drain.
AfterHTTP_cleanupFirst == "post"

\* The gRPC step that follows: GracefulStop, Stop or none.
AfterHTTP == CASE grpcKind = "graceful" -> "grpc"
               [] grpcKind = "plain"    -> "stop"
               [] grpcKind = "none"     -> "post"

\* Mutant: the HTTP drain ignores the shutdown context.
HTTPDrainExpired_never == FALSE

\* http.Server.Shutdown gives up: its context is done, requests are left.
HTTPDrainExpired == httpInflight # {} /\ deadline

\* ... and returns when no request is left, or with the context's error.
HTTPShutdownEnd ==
    /\ runner = "httpDrain"
    /\ \/ httpInflight = {} /\ Succeed
       \/ HTTPDrainExpired /\ Fail("http")
    /\ ShutdownGoto(AfterHTTP)
    /\ UNCHANGED <<result, httpRuntimeVars>>
    /\ serverFrame /\ grpcFrame

\* GracefulStop has returned; after an error Stop is called as well.
GRPCDrained(d) ==
    /\ runner = "grpc"
    /\ pc[d] = "returned"
    /\ IF ret[d] = {} THEN Succeed /\ ShutdownGoto("post")
       ELSE Fail("grpc") /\ ShutdownGoto("stop")
    /\ UNCHANGED <<result, httpRuntimeVars>>
    /\ serverFrame /\ grpcFrame

\* Stop has returned.
GRPCStopped(s) ==
    /\ runner = "stop"
    /\ pc[s] = "returned"
    /\ Succeed
    /\ ShutdownGoto("post")
    /\ UNCHANGED <<result, httpRuntimeVars>>
    /\ serverFrame /\ grpcFrame

\* ShutdownHooks: HTTPRuntime.Shutdown marks and enters its Once ...
CleanupBegin ==
    /\ runner = "post"
    /\ BeginShutdown
    /\ ShutdownGoto("cleanup")
    /\ Succeed
    /\ UNCHANGED result
    /\ serverFrame /\ grpcFrame

\* ... runs its hooks ...
CleanupStep ==
    /\ runner = "cleanup"
    /\ HTTPCleanup
    /\ UNCHANGED runnerVars /\ grpcFrame

\* ... and returns the error kept from whichever call ran them.
CleanupDone ==
    /\ runner = "cleanup"
    /\ httpOnce = "done"
    /\ IF httpShutdownErr THEN Fail("cleanup") ELSE Succeed
    /\ ShutdownGoto("postProduct")
    /\ UNCHANGED <<result, httpRuntimeVars>>
    /\ serverFrame /\ grpcFrame

Kept(shutdownErr) == IF shutdownErr = "none" THEN {} ELSE {shutdownErr}

\* mergeRunAndShutdownError
mergeRunAndShutdownError(run, shutdownErr) ==
    IF run \in {"none", "canceled", "grpcCanceled"} THEN Kept(shutdownErr)
    ELSE {run} \cup Kept(shutdownErr)

\* The result of RunBlocking; a startup error is joined without the merge.
Result(run, shutdownErr) ==
    IF run = "startup"
    THEN {run} \cup Kept(shutdownErr)
               \cup (IF rollbackErr THEN {"cleanup"} ELSE {})
    ELSE mergeRunAndShutdownError(run, shutdownErr)

\* ShutdownHooks: the product's hook; RunBlocking returns.
ProductShutdown ==
    /\ runner = "postProduct"
    /\ Succeed \/ Fail("product")
    /\ result' = Result(runErr, firstErr')
    /\ ShutdownGoto("returned")
    /\ UNCHANGED httpRuntimeVars
    /\ serverFrame /\ grpcFrame

-----------------------------------------------------------------------------
(* The environment. *)

\* The one shutdown context of the pre-shutdown hooks, both drains and the
\* cleanup hooks passes its deadline.
ShutdownDeadline ==
    /\ runner \notin {"startup", "rollback", "product", "run", "returned"}
    /\ deadline' = TRUE
    /\ expired' = Drainers
    /\ UNCHANGED <<pc, ret, startVars, flagVars, onceVars, transport, stopVars,
                   inflight, drain, grpcKind, runner, launched, errCh, runErr,
                   httpRuntimeVars>>
    /\ serverFrame /\ errFrame

RequestBegin(q) ==
    /\ httpServer \in {"serving", "failed"}
    /\ q \notin httpInflight
    /\ httpInflight' = httpInflight \cup {q}
    /\ UNCHANGED <<runner, launched, httpLoop, grpcSent, httpServer, errCh,
                   deadline, runErr, httpRuntimeVars>>
    /\ errFrame /\ grpcFrame

RequestEnd(q) ==
    /\ q \in httpInflight
    /\ httpInflight' = httpInflight \ {q}
    /\ UNCHANGED <<runner, launched, httpLoop, grpcSent, httpServer, errCh,
                   deadline, runErr, httpRuntimeVars>>
    /\ errFrame /\ grpcFrame

-----------------------------------------------------------------------------
\* if r.opts.EnableGRPC && r.opts.GRPCServer != nil
GRPCLaunched == launched /\ grpcKind # "none"

\* The gRPC runtime: each call is entered when the Runner makes it.
GRPCLoop(t)  == Start(t) /\ (pc[t] = "idle" => GRPCLaunched)
GRPCDrain(d) == GracefulStop(d) /\ (pc[d] = "idle" => runner = "grpc")
GRPCStop(s)  == Stop(s) /\ (pc[s] = "idle" => runner = "stop")

GRPCStep ==
    /\ \/ \E t \in Starters : GRPCLoop(t)
       \/ \E d \in Drainers : GRPCDrain(d) \/ DrainGoroutine(d)
       \/ \E s \in Stoppers : GRPCStop(s)
       \/ \E r \in RPCs : RPCBegin(r) \/ RPCEnd(r)
    /\ UNCHANGED <<httpRuntimeVars, runnerVars>>

HTTPLoop == HTTPListen \/ HTTPListenReturns

RunStartup == \/ StartupStep \/ StartupSucceeds \/ StartupFails
              \/ RollbackStep \/ RollbackDone \/ ProductStartup

RunSelect == SelectContext \/ SelectSignal \/ SelectServer

RunShutdown ==
    \/ PreShutdown \/ PreShutdownProduct
    \/ HTTPShutdownBegin \/ HTTPShutdownEnd
    \/ \E d \in Drainers : GRPCDrained(d)
    \/ \E s \in Stoppers : GRPCStopped(s)
    \/ CleanupBegin \/ CleanupStep \/ CleanupDone \/ ProductShutdown

Finished ==
    /\ runner = "returned"
    /\ httpInflight = {} /\ inflight = {}
    /\ launched => httpLoop = "returned" /\ (grpcSent \/ grpcKind = "none")
    /\ UNCHANGED allVars

RunnerNext ==
    \/ RunStartup \/ RunSelect \/ RunShutdown
    \/ HTTPLoop \/ \E t \in Starters : GRPCSend(t)
    \/ GRPCStep
    \/ ShutdownDeadline
    \/ \E q \in Requests : RequestBegin(q) \/ RequestEnd(q)
    \/ Finished

RunnerSpec == RunnerInit /\ [][RunnerNext]_allVars

\* Goroutines are scheduled, hooks return and the shutdown context expires;
\* RPC and HTTP handlers, accept errors and termination events are free.
alone(A) == A /\ UNCHANGED <<httpRuntimeVars, runnerVars>>

RunnerFairness ==
    /\ WF_allVars(RunStartup) /\ WF_allVars(RunShutdown)
    /\ WF_allVars(ShutdownDeadline)
    /\ WF_allVars(HTTPListen)
    /\ WF_allVars(HTTPListenReturns /\ httpServer = "shutdown")
    /\ \A t \in Starters :
          /\ WF_allVars(alone(GRPCLoop(t) /\ (pc[t] = "serving" => quit)))
          /\ WF_allVars(GRPCSend(t))
    /\ \A d \in Drainers :
          WF_allVars(alone(GRPCDrain(d))) /\ WF_allVars(alone(DrainGoroutine(d)))
    /\ \A s \in Stoppers : WF_allVars(alone(GRPCStop(s)))

RunnerFairSpec == RunnerSpec /\ RunnerFairness

-----------------------------------------------------------------------------
(* Safety. *)

\* The cleanup hooks that close the product's resources run beside an HTTP
\* request only after the shutdown deadline, and beside an RPC only after a
\* forced stop, whatever made the Runner shut down.
ResourcesOutliveRequests ==
    httpOnce = "running" =>
        /\ httpInflight = {} \/ deadline
        /\ inflight = {} \/ forced

\* When RunBlocking returns, after whatever failed on the way, both runtimes
\* are down and every cleanup hook of both has run exactly once.
AllCleanedAtReturn ==
    runner = "returned" =>
        /\ httpShuttingDown /\ httpServer = "shutdown"
        /\ \A h \in 1..NHTTPShutdown : httpCleanups[h] = 1
        /\ grpcKind # "none" =>
              /\ quit /\ health = "SHUTDOWN"
              /\ \A h \in 1..NShutdown : cleanups[h] = 1

\* RunBlocking reports the first step of Shutdown that failed, and the startup
\* or server error it stopped for, unless that wraps context.Canceled:
\* mergeRunAndShutdownError takes it for a cancellation by the caller.
FirstErrorReported ==
    runner = "returned" =>
        /\ failures # <<>> => Head(failures) \in result
        /\ runErr \in {"startup", "deadline", "http", "grpc"} => runErr \in result

\* A serve goroutine that is scheduled late starts nothing any more: no gRPC
\* startup hook runs and no status is advertised after RunBlocking returned.
NothingStartsAfterReturn ==
    [][runner = "returned" => UNCHANGED <<startHook, health>>]_allVars

-----------------------------------------------------------------------------
(* Liveness. *)

\* Once Shutdown has begun RunBlocking returns, even if handlers never do, and
\* both serve goroutines end: neither blocks on errCh, which nobody reads any
\* more after the select.
RunnerReturns ==
    (runner = "pre") ~>
        /\ runner = "returned"
        /\ launched => httpLoop = "returned" /\ (grpcSent \/ grpcKind = "none")

-----------------------------------------------------------------------------
(* Documented behaviour the code does not have. *)

\* "Runner uses one shutdown context for pre-shutdown, HTTP drain, gRPC drain
\* and cleanup": without a startup or serve error the gRPC cleanup hooks would
\* never run under the background context of Start.
OneShutdownContext ==
    once # "new" /\ transport # "failed" => onceOwner \notin Starters
        \/ "startupHook" \in ret[onceOwner]
=============================================================================
