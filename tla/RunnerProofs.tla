---------------------------- MODULE RunnerProofs ----------------------------
(***************************************************************************)
(* Proofs about Runner for any number of hooks, RPCs and HTTP requests and *)
(* every kind of GRPCServer.  A behaviour of the Runner is, as far as the  *)
(* gRPC runtime goes, a behaviour of GRPCRuntime, so what is proved there  *)
(* holds here; the Runner adds the order in which it shuts down.           *)
(***************************************************************************)
EXTENDS Runner, GRPCRuntimeProofs

-----------------------------------------------------------------------------
(* The inductive invariant, one part per concern. *)

\* The stages of Shutdown from a given one on.
FromPreProduct == {"preProduct", "http", "httpDrain", "grpc", "stop", "post",
                   "cleanup", "postProduct", "returned"}
FromHTTPDrain  == FromPreProduct \ {"preProduct", "http"}
FromGRPC       == FromHTTPDrain \ {"httpDrain"}
FromPost       == FromGRPC \ {"grpc", "stop"}

\* The HTTP runtime's Once: its hooks run in order, only while the Runner is in
\* HTTPRuntime.Shutdown, and all of them before it leaves.
HTTPOnceInv ==
    /\ httpOnce = "new" => httpStopHook = 0
    /\ httpOnce = "done" => httpStopHook = NHTTPShutdown
    /\ \A h \in 1..NHTTPShutdown : httpCleanups[h] = IF h <= httpStopHook THEN 1 ELSE 0
    /\ httpOnce = "running" => runner \in {"rollback", "cleanup"}
    /\ runner \in {"postProduct", "returned"} => httpOnce = "done"

\* Nothing is served before the serve goroutines are launched, and no call of
\* the gRPC runtime is made when there is none.
LaunchInv ==
    /\ runner \in {"startup", "rollback", "product"} => ~launched
    /\ ~launched => httpServer \in {"new", "shutdown"} /\ httpInflight = {}
    /\ ~GRPCLaunched => ~serveAttempt /\ \A t \in Starters : pc[t] = "idle"
    /\ grpcKind = "none" =>
          /\ runner \notin {"grpc", "stop"}
          /\ \A c \in Callers : pc[c] = "idle"

\* What each step of Shutdown leaves behind for the next.
DownInv ==
    /\ runner \in FromPreProduct => httpShuttingDown
    /\ runner \in FromHTTPDrain => httpServer = "shutdown"
    /\ runner \in FromGRPC => httpInflight = {} \/ deadline
    /\ runner \in FromPost /\ grpcKind # "none" =>
          once = "done" /\ quit /\ (inflight = {} \/ forced)

\* The error Shutdown keeps is the first one, and the result is made of it.
FirstErrInv ==
    /\ firstErr = IF failures = <<>> THEN "none" ELSE Head(failures)
    /\ runner = "returned" => result = Result(runErr, firstErr)

RunnerIInv == HTTPOnceInv /\ LaunchInv /\ DownInv /\ FirstErrInv

-----------------------------------------------------------------------------
(* The Runner's steps seen from the gRPC runtime. *)

\* A step of the Runner is a step of one of the gRPC runtime's calls or of an
\* RPC, the shutdown deadline, or leaves the gRPC runtime alone.
LEMMA RunnerStep ==
    [RunnerNext]_allVars => GRPCStep \/ ShutdownDeadline \/ UNCHANGED vars
<1>a. SUFFICES ASSUME [RunnerNext]_allVars
               PROVE  GRPCStep \/ ShutdownDeadline \/ UNCHANGED vars
  OBVIOUS
<1> USE DEF grpcFrame
<1>1. RunStartup => UNCHANGED vars
  BY DEF RunStartup, StartupStep, StartupSucceeds, StartupFails, RollbackStep,
     RollbackDone, ProductStartup
<1>2. RunSelect => UNCHANGED vars
  BY DEF RunSelect, SelectContext, SelectSignal, SelectServer
<1>3. RunShutdown => UNCHANGED vars
  BY DEF RunShutdown, PreShutdown, PreShutdownProduct, HTTPShutdownBegin,
     HTTPShutdownEnd, GRPCDrained, GRPCStopped, CleanupBegin, CleanupStep,
     CleanupDone, ProductShutdown
<1>4. HTTPLoop \/ (\E t \in Starters : GRPCSend(t)) => UNCHANGED vars
  BY DEF HTTPLoop, HTTPListen, HTTPListenReturns, GRPCSend
<1>5. (\E q \in Requests : RequestBegin(q) \/ RequestEnd(q)) => UNCHANGED vars
  BY DEF RequestBegin, RequestEnd
<1>6. UNCHANGED allVars => UNCHANGED vars
  BY DEF allVars
<1> QED
  BY <1>a, <1>1, <1>2, <1>3, <1>4, <1>5, <1>6 DEF RunnerNext, Finished

\* Whatever the Runner does, the gRPC runtime takes a step of its own
\* specification or none: the Runner only restricts when a call is made, and
\* its one deadline is the context of its one GracefulStop.
LEMMA RunnerStepIsGRPCStep ==
    TypeOK /\ [RunnerNext]_allVars => [Next]_vars
<1>a. SUFFICES ASSUME TypeOK, [RunnerNext]_allVars PROVE [Next]_vars
  OBVIOUS
<1>1. CASE GRPCStep
  BY <1>1 DEF GRPCStep, GRPCLoop, GRPCDrain, GRPCStop, Next, Environment
<1>2. CASE ShutdownDeadline
  <2>1. PICK d \in Drainers : Drainers = {d}
    BY RunnerAssumption
  <2>2. CASE d \in expired
    <3>1. expired' = expired
      BY <1>a, <1>2, <2>1, <2>2 DEF ShutdownDeadline, TypeOK
    <3> QED
      BY <1>2, <3>1 DEF ShutdownDeadline, vars, serverVars, loadVars
  <2>3. CASE d \notin expired
    <3>1. expired' = expired \cup {d}
      BY <1>a, <1>2, <2>1, <2>3 DEF ShutdownDeadline, TypeOK
    <3>2. Expire(d)
      BY <1>2, <2>3, <3>1 DEF ShutdownDeadline, Expire
    <3> QED
      BY <2>1, <3>2 DEF Next, Environment
  <2> QED
    BY <2>2, <2>3
<1>3. CASE UNCHANGED vars
  BY <1>3
<1> QED
  BY <1>a, <1>1, <1>2, <1>3, RunnerStep

\* Under the Runner the gRPC runtime is the one specified by GRPCRuntime, so
\* every safety property proved there holds of it here.
THEOREM RunnerRefinesGRPC == RunnerSpec => Spec
<1>1. RunnerInit => Init
  BY DEF RunnerInit
<1>2. Init => TypeOK
  BY InitIInv DEF IInv
<1>3. TypeOK /\ [RunnerNext]_allVars => TypeOK' /\ [Next]_vars
  BY RunnerStepIsGRPCStep, TypeStep
<1> QED
  BY <1>1, <1>2, <1>3, PTL DEF RunnerSpec, Spec

\* What the gRPC runtime never takes back: the hooks that have run, the end of
\* the server, a forced stop, and shutdown; a server that has quit takes no new
\* RPC, and once shutdown began no startup hook completes and the status stays.
GRPCKept ==
    /\ once = "done" => once' = "done"
    /\ quit => quit' /\ inflight' \subseteq inflight
    /\ forced => forced'
    /\ shuttingDown => shuttingDown' /\ UNCHANGED <<startHook, health>>

\* Every step of the gRPC runtime keeps these.
LEMMA GRPCMonotone == IInv /\ [Next]_vars => GRPCKept
<1> USE DEF GRPCKept, startVars, flagVars, onceVars, stopVars, loadVars,
            serverVars
<1>a. SUFFICES ASSUME IInv, [Next]_vars PROVE GRPCKept
  OBVIOUS
<1>b. shuttingDown => health = "SHUTDOWN" /\ \A t \in Starters : pc[t] # "hooks"
  BY <1>a DEF IInv, LockInv
<1>1. ASSUME NEW t \in Starters,
             prepareListener(t)
      PROVE  GRPCKept
  BY <1>b, <1>1 DEF prepareListener
<1>2. ASSUME NEW t \in Starters,
             startup(t)
      PROVE  GRPCKept
  BY <1>b, <1>2 DEF startup, startupLock, StartupHookOk, StartupHookErr,
     StartupDone, StartupUnlock, markShuttingDownLocked
<1>3. ASSUME NEW t \in Starters,
             Serve(t) \/ ServeReturns(t) \/ CloseListener(t)
      PROVE  GRPCKept
  BY <1>b, <1>3 DEF Serve, ServeReturns, CloseListener
<1>4. ASSUME NEW c \in Callers,
             runShutdownHooks(c)
      PROVE  GRPCKept
  <2>1. CASE OnceBegin(c)
    BY <2>1 DEF OnceBegin, FirstCaller
  <2>2. CASE ShutdownHook(c)
    BY <2>2 DEF ShutdownHook
  <2>3. CASE OnceEnd(c)
    BY <2>3 DEF OnceEnd
  <2>4. CASE OnceReturn(c)
    BY <2>4 DEF OnceReturn
  <2> QED
    BY <1>4, <2>1, <2>2, <2>3, <2>4 DEF runShutdownHooks
<1>5. ASSUME NEW c \in Callers, NEW from, NEW to,
             failHealth(c, from, to)
      PROVE  GRPCKept
  BY <1>b, <1>5 DEF failHealth, markShuttingDownLocked
<1>6. ASSUME NEW c \in Callers,
             StopServer(c)
      PROVE  GRPCKept
  BY <1>b, <1>6 DEF StopServer
<1>7. ASSUME NEW d \in Drainers,
             SpawnDrain(d) \/ SelectDone(d) \/ SelectDeadline(d)
      PROVE  GRPCKept
  BY <1>b, <1>7 DEF SpawnDrain, SelectDone, SelectDeadline
<1>8. ASSUME NEW d \in Drainers,
             DrainGoroutine(d)
      PROVE  GRPCKept
  BY <1>b, <1>8 DEF DrainGoroutine, DrainBegin, DrainEnd
<1>9. ASSUME Environment PROVE GRPCKept
  BY <1>b, <1>9 DEF Environment, Expire, RPCBegin, RPCEnd
<1>10. ASSUME UNCHANGED vars PROVE GRPCKept
  BY <1>b, <1>10 DEF vars
<1> QED
  BY <1>a, <1>1, <1>2, <1>3, <1>4, <1>5, <1>6, <1>7, <1>8, <1>9, <1>10
  DEF Next, Callers, Start, Stop, GracefulStop, StartFailHealth,
      StopFailHealth, GracefulFailHealth

\* A call that has not been made leaves no trace: the first step of Start is
\* prepareListener, and Stop and GracefulStop move nobody but their caller and
\* claim no serve attempt.
LEMMA StartFirst ==
    ASSUME NEW t \in Starters, Start(t), pc[t] = "idle"
    PROVE  prepareListener(t)
  BY DEF Start, startup, startupLock, StartupHookOk, StartupHookErr,
     StartupDone, StartupUnlock, Serve, ServeReturns, CloseListener,
     StartFailHealth, failHealth, runShutdownHooks, OnceBegin, ShutdownHook,
     OnceEnd, OnceReturn, InShutdownHooks

\* The steps of a Stop or a GracefulStop, and of its drain goroutine.
LEMMA StopFrame ==
    ASSUME IInv, NEW c \in Callers,
           Stop(c) \/ GracefulStop(c)
    PROVE  /\ serveAttempt' = serveAttempt
           /\ \A b \in Callers \ {c} : pc'[b] = pc[b]
<1> USE DEF startVars, Goto
<1>1. pc \in [Callers -> PCs]
  BY DEF IInv, TypeOK
<1>2. CASE runShutdownHooks(c)
  BY <1>1, <1>2 DEF runShutdownHooks, OnceBegin, ShutdownHook, OnceEnd, OnceReturn
<1>3. CASE StopFailHealth(c) \/ GracefulFailHealth(c)
  BY <1>1, <1>3 DEF StopFailHealth, GracefulFailHealth, failHealth
<1>4. CASE StopServer(c) \/ SpawnDrain(c) \/ SelectDone(c) \/ SelectDeadline(c)
  BY <1>1, <1>4 DEF StopServer, SpawnDrain, SelectDone, SelectDeadline
<1> QED
  BY <1>2, <1>3, <1>4 DEF Stop, GracefulStop

\* Until the Runner makes a call of the gRPC runtime that call does nothing.
LEMMA CallsWait ==
    ASSUME RunnerTypeOK, IInv, LaunchInv, GRPCStep
    PROVE  /\ ~GRPCLaunched => ~serveAttempt' /\ \A t \in Starters : pc'[t] = "idle"
           /\ grpcKind = "none" => \A c \in Callers : pc'[c] = "idle"
<1>1. ASSUME NEW t \in Starters, GRPCLoop(t) PROVE GRPCLaunched
  BY <1>1 DEF GRPCLoop, LaunchInv
<1>2. ASSUME NEW d \in Drainers, GRPCDrain(d)
      PROVE  /\ serveAttempt' = serveAttempt
             /\ \A t \in Starters : pc'[t] = pc[t]
             /\ grpcKind # "none"
  <2>1. d \in Callers /\ d \notin Starters /\ GracefulStop(d)
    BY <1>2, RuntimeAssumption DEF Callers, GRPCDrain
  <2>2. grpcKind # "none"
    BY <1>2, <2>1 DEF GRPCDrain, LaunchInv
  <2> QED
    BY <2>1, <2>2, StopFrame DEF Callers
<1>3. ASSUME NEW s \in Stoppers, GRPCStop(s)
      PROVE  /\ serveAttempt' = serveAttempt
             /\ \A t \in Starters : pc'[t] = pc[t]
             /\ grpcKind # "none"
  <2>1. s \in Callers /\ s \notin Starters /\ Stop(s)
    BY <1>3, RuntimeAssumption DEF Callers, GRPCStop
  <2>2. grpcKind # "none"
    BY <1>3, <2>1 DEF GRPCStop, LaunchInv
  <2> QED
    BY <2>1, <2>2, StopFrame DEF Callers
<1>4. ASSUME \/ \E d \in Drainers : DrainGoroutine(d)
             \/ \E r \in RPCs : RPCBegin(r) \/ RPCEnd(r)
      PROVE  serveAttempt' = serveAttempt /\ pc' = pc
  BY <1>4 DEF DrainGoroutine, DrainBegin, DrainEnd, RPCBegin, RPCEnd, startVars
<1>5. /\ ~GRPCLaunched => ~serveAttempt /\ \A t \in Starters : pc[t] = "idle"
      /\ grpcKind = "none" => \A c \in Callers : pc[c] = "idle"
      /\ grpcKind = "none" => ~GRPCLaunched
  BY DEF LaunchInv, GRPCLaunched
<1> QED
  BY <1>1, <1>2, <1>3, <1>4, <1>5 DEF GRPCStep

-----------------------------------------------------------------------------
(* Type correctness of the composition: one step per action. *)

\* The variables RunBlocking, its goroutines and net/http keep.
RunnerOwnTypeOK ==
    /\ grpcKind \in GRPCKinds
    /\ runner \in Stages
    /\ launched \in BOOLEAN /\ grpcSent \in BOOLEAN /\ deadline \in BOOLEAN
    /\ httpLoop \in {"idle", "serving", "returned"}
    /\ httpServer \in {"new", "serving", "failed", "shutdown"}
    /\ httpInflight \in SUBSET Requests
    /\ errCh \in Seq(ServerResults) /\ Len(errCh) <= 2
    /\ runErr \in RunErrors
    /\ rollbackErr \in BOOLEAN
    /\ firstErr \in Steps \cup {"none"}
    /\ failures \in Seq(Steps)
    /\ result \in SUBSET (RunErrors \cup Steps)

\* A send waits for room, so the channel never holds more than its capacity.
LEMMA SendType ==
    ASSUME errCh \in Seq(ServerResults), NEW r \in ServerResults, Send(r)
    PROVE  errCh' \in Seq(ServerResults) /\ Len(errCh') <= 2
  BY DEF Send, ErrChCap

\* A failed step of Shutdown is kept among the errors it may report.
LEMMA FailType ==
    ASSUME firstErr \in Steps \cup {"none"}, failures \in Seq(Steps),
           NEW step \in Steps, Fail(step)
    PROVE  firstErr' \in Steps \cup {"none"} /\ failures' \in Seq(Steps)
<1>1. failures' \in Seq(Steps)
  BY DEF Fail
<1>2. firstErr' \in Steps \cup {"none"}
  BY DEF Fail
<1> QED
  BY <1>1, <1>2

\* A step of HTTPRuntime.Shutdown inside its Once.
LEMMA CleanupType == HTTPTypeOK /\ HTTPCleanup => HTTPTypeOK'
<1> USE HTTPAssumption DEF HTTPTypeOK
<1>1. ASSUME HTTPTypeOK, HTTPOnceBegin PROVE HTTPTypeOK'
  BY <1>1 DEF HTTPOnceBegin
<1>2. ASSUME HTTPTypeOK, HTTPShutdownHook PROVE HTTPTypeOK'
  <2>1. httpStopHook' \in 0..NHTTPShutdown
    BY <1>2 DEF HTTPShutdownHook
  <2>2. httpCleanups' \in [1..NHTTPShutdown -> Nat]
    BY <1>2 DEF HTTPShutdownHook
  <2> QED
    BY <1>2, <2>1, <2>2 DEF HTTPShutdownHook
<1>3. ASSUME HTTPTypeOK, HTTPOnceEnd PROVE HTTPTypeOK'
  BY <1>3 DEF HTTPOnceEnd
<1> QED
  BY <1>1, <1>2, <1>3 DEF HTTPCleanup

\* Every step of the Runner keeps its own and the HTTP runtime's variables in
\* their types.
LEMMA RunnerTypeStep ==
    HTTPTypeOK /\ RunnerOwnTypeOK /\ [RunnerNext]_allVars
        => HTTPTypeOK' /\ RunnerOwnTypeOK'
<1> USE HTTPAssumption, RunnerAssumption
    DEF HTTPTypeOK, RunnerOwnTypeOK, Stages, ServerResults, RunErrors, Steps,
        httpRuntimeVars, runnerVars, grpcFrame, serverFrame, errFrame,
        Succeed, ShutdownGoto
<1> DEFINE Goal == HTTPTypeOK' /\ RunnerOwnTypeOK'
<1>a. SUFFICES ASSUME HTTPTypeOK, RunnerOwnTypeOK, [RunnerNext]_allVars
               PROVE  Goal
  OBVIOUS
<1>1. ASSUME StartupStep PROVE Goal
  BY <1>a, <1>1 DEF StartupStep, HTTPStartupHook, HTTPHooksLeft
<1>2. ASSUME StartupSucceeds PROVE Goal
  BY <1>a, <1>2 DEF StartupSucceeds, HTTPMarkStarted
<1>3. ASSUME StartupFails PROVE Goal
  BY <1>a, <1>3 DEF StartupFails, BeginShutdown
<1>4. ASSUME RollbackStep PROVE Goal
  BY <1>a, <1>4, CleanupType DEF RollbackStep
<1>5. ASSUME RollbackDone PROVE Goal
  BY <1>a, <1>5 DEF RollbackDone
<1>6. ASSUME ProductStartup PROVE Goal
  <2>1. CASE runErr' = "startup" /\ UNCHANGED launched /\ runner' = "pre"
    BY <1>a, <1>6, <2>1 DEF ProductStartup
  <2>2. CASE runner' = "run" /\ launched' = TRUE /\ UNCHANGED runErr
    BY <1>a, <1>6, <2>2 DEF ProductStartup
  <2> QED
    BY <1>6, <2>1, <2>2 DEF ProductStartup
<1>7. ASSUME SelectContext PROVE Goal
  BY <1>a, <1>7 DEF SelectContext
<1>8. ASSUME SelectSignal PROVE Goal
  BY <1>a, <1>8 DEF SelectSignal
<1>9. ASSUME SelectServer PROVE Goal
  BY <1>a, <1>9 DEF SelectServer
<1>10. ASSUME PreShutdown PROVE Goal
  BY <1>a, <1>10 DEF PreShutdown, BeginShutdown
<1>11. ASSUME PreShutdownProduct PROVE Goal
  BY <1>a, <1>11, FailType DEF PreShutdownProduct
<1>12. ASSUME HTTPShutdownBegin PROVE Goal
  BY <1>a, <1>12 DEF HTTPShutdownBegin
<1>13. ASSUME HTTPShutdownEnd PROVE Goal
  <2>1. AfterHTTP \in {"grpc", "stop", "post"}
    BY <1>a DEF AfterHTTP
  <2> QED
    BY <1>a, <1>13, <2>1, FailType DEF HTTPShutdownEnd
<1>14. ASSUME NEW d \in Drainers, GRPCDrained(d) PROVE Goal
  BY <1>a, <1>14, FailType DEF GRPCDrained
<1>15. ASSUME NEW s \in Stoppers, GRPCStopped(s) PROVE Goal
  BY <1>a, <1>15 DEF GRPCStopped
<1>16. ASSUME CleanupBegin PROVE Goal
  BY <1>a, <1>16 DEF CleanupBegin, BeginShutdown
<1>17. ASSUME CleanupStep PROVE Goal
  BY <1>a, <1>17, CleanupType DEF CleanupStep
<1>18. ASSUME CleanupDone PROVE Goal
  BY <1>a, <1>18, FailType DEF CleanupDone
<1>19. ASSUME ProductShutdown PROVE Goal
  <2>1. firstErr' \in Steps \cup {"none"} /\ failures' \in Seq(Steps)
    BY <1>a, <1>19, FailType DEF ProductShutdown
  <2>2. Result(runErr, firstErr') \in SUBSET (RunErrors \cup Steps)
    BY <1>a, <2>1 DEF Result, mergeRunAndShutdownError, Kept
  <2> QED
    BY <1>a, <1>19, <2>1, <2>2 DEF ProductShutdown
<1>20. ASSUME HTTPListen PROVE Goal
  BY <1>a, <1>20, SendType DEF HTTPListen
<1>21. ASSUME HTTPListenReturns PROVE Goal
  BY <1>a, <1>21, SendType DEF HTTPListenReturns
<1>22. ASSUME NEW t \in Starters, GRPCSend(t) PROVE Goal
  BY <1>a, <1>22, SendType DEF GRPCSend
<1>23. ASSUME GRPCStep PROVE Goal
  BY <1>a, <1>23 DEF GRPCStep
<1>24. ASSUME ShutdownDeadline PROVE Goal
  BY <1>a, <1>24 DEF ShutdownDeadline
<1>25. ASSUME NEW q \in Requests, RequestBegin(q) PROVE Goal
  BY <1>a, <1>25 DEF RequestBegin
<1>26. ASSUME NEW q \in Requests, RequestEnd(q) PROVE Goal
  BY <1>a, <1>26 DEF RequestEnd
<1>27. ASSUME UNCHANGED allVars PROVE Goal
  BY <1>a, <1>27 DEF allVars
<1> QED
  BY <1>a, <1>1, <1>2, <1>3, <1>4, <1>5, <1>6, <1>7, <1>8, <1>9, <1>10,
     <1>11, <1>12, <1>13, <1>14, <1>15, <1>16, <1>17, <1>18, <1>19, <1>20,
     <1>21, <1>22, <1>23, <1>24, <1>25, <1>26, <1>27 DEF RunnerNext,
     RunStartup, RunSelect, RunShutdown, HTTPLoop, Finished

-----------------------------------------------------------------------------
(* The inductive invariant. *)

\* RunnerIInv holds before RunBlocking's first step.
LEMMA InitRunnerIInv == RunnerInit => RunnerTypeOK /\ RunnerIInv
<1> SUFFICES ASSUME RunnerInit PROVE RunnerTypeOK /\ RunnerIInv
  OBVIOUS
<1>1. TypeOK
  BY InitIInv DEF RunnerInit, IInv
<1>2. HTTPTypeOK
  <2>1. httpCleanups \in [1..NHTTPShutdown -> Nat]
    BY DEF RunnerInit, HTTPInit
  <2>2. httpStartHook \in 0..NHTTPStartup /\ httpStopHook \in 0..NHTTPShutdown
    BY HTTPAssumption DEF RunnerInit, HTTPInit
  <2> QED
    BY <2>1, <2>2 DEF RunnerInit, HTTPInit, HTTPTypeOK
<1>3. HTTPOnceInv
  BY HTTPAssumption DEF RunnerInit, HTTPInit, HTTPOnceInv
<1>4. RunnerOwnTypeOK
  <2>1. errCh \in Seq(ServerResults) /\ Len(errCh) <= 2 /\ failures \in Seq(Steps)
    BY DEF RunnerInit
  <2>2. result \in SUBSET (RunErrors \cup Steps)
    BY DEF RunnerInit
  <2> QED
    BY <2>1, <2>2 DEF RunnerInit, RunnerOwnTypeOK, Stages, RunErrors
<1>5. LaunchInv /\ DownInv /\ FirstErrInv
  BY DEF RunnerInit, Init, Callers, LaunchInv, GRPCLaunched, DownInv,
     FirstErrInv, FromPreProduct, FromHTTPDrain, FromGRPC, FromPost
<1> QED
  BY <1>1, <1>2, <1>3, <1>4, <1>5 DEF RunnerIInv, RunnerTypeOK, RunnerOwnTypeOK

\* The steps inside the Once of HTTPRuntime.Shutdown keep HTTPOnceInv: the hooks
\* are counted one by one and the Once ends after the last.
LEMMA OnceKept ==
    ASSUME HTTPTypeOK, HTTPOnceInv, HTTPCleanup, UNCHANGED runner,
           runner \in {"rollback", "cleanup"}
    PROVE  HTTPOnceInv'
<1> USE HTTPAssumption DEF HTTPTypeOK, HTTPOnceInv
<1>1. CASE HTTPOnceBegin
  BY <1>1 DEF HTTPOnceBegin, HTTPFirstCaller
<1>2. CASE HTTPShutdownHook
  <2>1. \A h \in 1..NHTTPShutdown :
            httpCleanups'[h] = IF h <= httpStopHook' THEN 1 ELSE 0
    BY <1>2 DEF HTTPShutdownHook
  <2> QED
    BY <1>2, <2>1 DEF HTTPShutdownHook
<1>3. CASE HTTPOnceEnd
  BY <1>3 DEF HTTPOnceEnd
<1> QED
  BY <1>1, <1>2, <1>3 DEF HTTPCleanup

\* They leave the health flag of the HTTP runtime alone.
LEMMA CleanupFrame == HTTPCleanup => UNCHANGED httpShuttingDown
  BY DEF HTTPCleanup, HTTPOnceBegin, HTTPShutdownHook, HTTPOnceEnd

\* Shutdown keeps the first of its errors, and the result is made of it.
LEMMA FirstErrStep ==
    ASSUME RunnerOwnTypeOK, FirstErrInv, [RunnerNext]_allVars
    PROVE  FirstErrInv'
<1> DEFINE First(f) == IF f = <<>> THEN "none" ELSE Head(f)
           Same == UNCHANGED <<runner, runErr, rollbackErr, firstErr, failures,
                               result>>
           Noted == firstErr' = First(failures')
<1>a. [RunnerNext]_allVars
  OBVIOUS
<1>1. ASSUME NEW step \in Steps, Fail(step) PROVE Noted
  <2>1. failures' # <<>> /\ (failures = <<>> => Head(failures') = step)
        /\ (failures # <<>> => Head(failures') = Head(failures))
    BY <1>1 DEF Fail, RunnerOwnTypeOK
  <2>2. failures # <<>> => Head(failures) \in Steps /\ "none" \notin Steps
    BY DEF RunnerOwnTypeOK, Steps
  <2> QED
    BY <1>1, <2>1, <2>2 DEF Fail, FirstErrInv
<1>2. Succeed => Noted
  BY DEF Succeed, FirstErrInv
<1>3. Same => FirstErrInv'
  BY DEF FirstErrInv, Result, mergeRunAndShutdownError, Kept
<1>4. runner' # "returned" /\ Noted => FirstErrInv'
  BY DEF FirstErrInv
<1> HIDE DEF Noted, Same
<1> USE DEF serverFrame, errFrame, ShutdownGoto, runnerVars
<1>5. RunStartup => FirstErrInv'
  <2>1. StartupStep \/ RollbackStep => Same
    BY DEF StartupStep, RollbackStep, Same
  <2>2. StartupSucceeds \/ StartupFails \/ RollbackDone \/ ProductStartup
            => runner' # "returned" /\ Succeed
    BY DEF StartupSucceeds, StartupFails, RollbackDone, ProductStartup, Succeed
  <2> QED
    BY <1>2, <1>3, <1>4, <2>1, <2>2 DEF RunStartup
<1>6. RunSelect => FirstErrInv'
  <2>1. RunSelect => runner' # "returned" /\ Succeed
    BY DEF RunSelect, SelectContext, SelectSignal, SelectServer, Succeed
  <2> QED
    BY <1>2, <1>4, <2>1
<1>7. RunShutdown => FirstErrInv'
  <2>1. ASSUME ProductShutdown PROVE FirstErrInv'
    <3>1. Noted
      BY <1>1, <1>2, <2>1 DEF ProductShutdown, Steps
    <3>2. result' = Result(runErr, firstErr)'
      BY <2>1 DEF ProductShutdown, Result, mergeRunAndShutdownError, Kept
    <3> QED
      BY <3>1, <3>2 DEF FirstErrInv, Noted
  <2>2. CleanupStep => Same
    BY DEF CleanupStep, Same
  <2>3. /\ PreShutdown \/ HTTPShutdownBegin \/ CleanupBegin => Noted
        /\ PreShutdownProduct \/ HTTPShutdownEnd \/ CleanupDone => Noted
        /\ \A d \in Drainers : GRPCDrained(d) => Noted
        /\ \A s \in Stoppers : GRPCStopped(s) => Noted
    BY <1>1, <1>2 DEF PreShutdown, HTTPShutdownBegin, CleanupBegin,
       PreShutdownProduct, HTTPShutdownEnd, CleanupDone, GRPCDrained,
       GRPCStopped, Steps
  <2>4. /\ PreShutdown \/ HTTPShutdownBegin \/ CleanupBegin
              \/ PreShutdownProduct \/ HTTPShutdownEnd \/ CleanupDone
              => runner' # "returned"
        /\ \A d \in Drainers : GRPCDrained(d) => runner' # "returned"
        /\ \A s \in Stoppers : GRPCStopped(s) => runner' # "returned"
    <3>1. HTTPShutdownEnd => runner' \in {"grpc", "stop", "post"}
      BY RunnerAssumption DEF HTTPShutdownEnd, AfterHTTP, RunnerOwnTypeOK
    <3> QED
      BY <3>1 DEF PreShutdown, HTTPShutdownBegin, CleanupBegin,
         PreShutdownProduct, CleanupDone, GRPCDrained, GRPCStopped
  <2> QED
    BY <1>3, <1>4, <2>1, <2>2, <2>3, <2>4 DEF RunShutdown
<1>8. HTTPLoop \/ (\E t \in Starters : GRPCSend(t)) => Same
  BY DEF HTTPLoop, HTTPListen, HTTPListenReturns, GRPCSend, Same
<1>9. GRPCStep \/ ShutdownDeadline => Same
  BY DEF GRPCStep, ShutdownDeadline, Same
<1>10. (\E q \in Requests : RequestBegin(q) \/ RequestEnd(q)) => Same
  BY DEF RequestBegin, RequestEnd, Same
<1>11. UNCHANGED allVars => Same
  BY DEF allVars, Same
<1> QED
  BY <1>a, <1>3, <1>5, <1>6, <1>7, <1>8, <1>9, <1>10, <1>11
  DEF RunnerNext, Finished

\* Every step of the Runner, its goroutines and its environment keeps the other
\* parts of RunnerIInv.
LEMMA ShutdownOrderStep ==
    ASSUME RunnerTypeOK, IInv, HTTPOnceInv, LaunchInv, DownInv,
           [RunnerNext]_allVars
    PROVE  HTTPOnceInv' /\ LaunchInv' /\ DownInv'
<1> USE HTTPAssumption, RunnerAssumption
    DEF HTTPOnceInv, LaunchInv, DownInv, GRPCLaunched, FromPreProduct,
        FromHTTPDrain, FromGRPC, FromPost, Stages, RunnerTypeOK, HTTPTypeOK,
        httpRuntimeVars, runnerVars, grpcFrame, serverFrame, errFrame,
        ShutdownGoto
<1> DEFINE Goal == HTTPOnceInv' /\ LaunchInv' /\ DownInv'
<1>a. /\ RunnerTypeOK /\ IInv /\ HTTPOnceInv /\ LaunchInv /\ DownInv
      /\ [RunnerNext]_allVars
      /\ UNCHANGED vars =>
            UNCHANGED <<pc, ret, serveAttempt, once, quit, forced, inflight>>
  BY DEF vars, startVars, onceVars, serverVars, stopVars, loadVars
<1>g. GRPCKept
  BY <1>a, RunnerStepIsGRPCStep, GRPCMonotone DEF IInv
<1>1. ASSUME StartupStep PROVE Goal
  BY <1>a, <1>1 DEF StartupStep, HTTPStartupHook, HTTPHooksLeft
<1>2. ASSUME StartupSucceeds PROVE Goal
  BY <1>a, <1>2 DEF StartupSucceeds, HTTPMarkStarted
<1>3. ASSUME StartupFails PROVE Goal
  BY <1>a, <1>3 DEF StartupFails, BeginShutdown
<1>4. ASSUME RollbackStep PROVE Goal
  BY <1>a, <1>4, OnceKept, CleanupFrame DEF RollbackStep
<1>5. ASSUME RollbackDone PROVE Goal
  BY <1>a, <1>5 DEF RollbackDone
<1>6. ASSUME ProductStartup PROVE Goal
  BY <1>a, <1>6 DEF ProductStartup
<1>7. ASSUME SelectContext PROVE Goal
  BY <1>a, <1>7 DEF SelectContext
<1>8. ASSUME SelectSignal PROVE Goal
  BY <1>a, <1>8 DEF SelectSignal
<1>9. ASSUME SelectServer PROVE Goal
  BY <1>a, <1>9 DEF SelectServer
<1>10. ASSUME PreShutdown PROVE Goal
  BY <1>a, <1>10 DEF PreShutdown, BeginShutdown
<1>11. ASSUME PreShutdownProduct PROVE Goal
  BY <1>a, <1>11 DEF PreShutdownProduct
<1>12. ASSUME HTTPShutdownBegin PROVE Goal
  BY <1>a, <1>12 DEF HTTPShutdownBegin
<1>13. ASSUME HTTPShutdownEnd PROVE Goal
  <2>1. /\ AfterHTTP \in {"grpc", "stop", "post"}
        /\ grpcKind = "none" <=> AfterHTTP = "post"
    BY <1>a DEF AfterHTTP
  <2> QED
    BY <1>a, <1>13, <2>1 DEF HTTPShutdownEnd, HTTPDrainExpired
<1>14. ASSUME NEW d \in Drainers, GRPCDrained(d) PROVE Goal
  <2>1. ret[d] = {} => once = "done" /\ quit /\ inflight = {}
    BY <1>a, <1>14 DEF GRPCDrained, IInv, OnceInv, DrainInv
  <2> QED
    BY <1>a, <1>14, <2>1 DEF GRPCDrained
<1>15. ASSUME NEW s \in Stoppers, GRPCStopped(s) PROVE Goal
  <2>1. once = "done" /\ quit /\ forced
    BY <1>a, <1>15 DEF GRPCStopped, IInv, OnceInv, DrainInv
  <2> QED
    BY <1>a, <1>15, <2>1 DEF GRPCStopped
<1>16. ASSUME CleanupBegin PROVE Goal
  BY <1>a, <1>16 DEF CleanupBegin, BeginShutdown
<1>17. ASSUME CleanupStep PROVE Goal
  BY <1>a, <1>17, OnceKept, CleanupFrame DEF CleanupStep
<1>18. ASSUME CleanupDone PROVE Goal
  BY <1>a, <1>18 DEF CleanupDone
<1>19. ASSUME ProductShutdown PROVE Goal
  BY <1>a, <1>19 DEF ProductShutdown
<1>20. ASSUME HTTPListen PROVE Goal
  BY <1>a, <1>20 DEF HTTPListen, Send, ErrChCap
<1>21. ASSUME HTTPListenReturns PROVE Goal
  BY <1>a, <1>21 DEF HTTPListenReturns, Send, ErrChCap
<1>22. ASSUME NEW t \in Starters, GRPCSend(t) PROVE Goal
  BY <1>a, <1>22 DEF GRPCSend, Send, ErrChCap
<1>23. ASSUME GRPCStep PROVE Goal
  <2>1. UNCHANGED <<httpRuntimeVars, runnerVars>>
    BY <1>23 DEF GRPCStep
  <2>2. LaunchInv'
    BY <1>a, <1>23, <2>1, CallsWait
  <2>3. DownInv'
    BY <1>a, <1>g, <2>1 DEF GRPCKept
  <2> QED
    BY <1>a, <2>1, <2>2, <2>3
<1>24. ASSUME ShutdownDeadline PROVE Goal
  BY <1>a, <1>24 DEF ShutdownDeadline, startVars, onceVars, stopVars
<1>25. ASSUME NEW q \in Requests, RequestBegin(q) PROVE Goal
  BY <1>a, <1>25 DEF RequestBegin
<1>26. ASSUME NEW q \in Requests, RequestEnd(q) PROVE Goal
  BY <1>a, <1>26 DEF RequestEnd
<1>27. ASSUME UNCHANGED allVars PROVE Goal
  BY <1>a, <1>27 DEF allVars
<1> QED
  BY <1>a, <1>1, <1>2, <1>3, <1>4, <1>5, <1>6, <1>7, <1>8, <1>9, <1>10,
     <1>11, <1>12, <1>13, <1>14, <1>15, <1>16, <1>17, <1>18, <1>19, <1>20,
     <1>21, <1>22, <1>23, <1>24, <1>25, <1>26, <1>27 DEF RunnerNext,
     RunStartup, RunSelect, RunShutdown, HTTPLoop, Finished

-----------------------------------------------------------------------------
(* The theorems. *)

\* The composition keeps its types, and RunnerIInv with the invariant of the
\* gRPC runtime holds in every state of the Runner.
THEOREM RunnerInvariance == RunnerSpec => [](RunnerTypeOK /\ IInv /\ RunnerIInv)
<1> DEFINE All == RunnerTypeOK /\ RunnerIInv
<1>1. RunnerInit => All
  BY InitRunnerIInv
<1>2. IInv /\ All /\ [RunnerNext]_allVars => All'
  <2>1. SUFFICES ASSUME IInv, All, [RunnerNext]_allVars PROVE All'
    OBVIOUS
  <2>2. TypeOK'
    BY <2>1, RunnerStepIsGRPCStep, TypeStep DEF IInv
  <2>3. HTTPTypeOK' /\ RunnerOwnTypeOK'
    BY <2>1, RunnerTypeStep DEF RunnerTypeOK, RunnerOwnTypeOK
  <2>4. FirstErrInv'
    BY <2>1, FirstErrStep DEF RunnerTypeOK, RunnerOwnTypeOK, RunnerIInv
  <2>5. HTTPOnceInv' /\ LaunchInv' /\ DownInv'
    BY <2>1, ShutdownOrderStep DEF RunnerIInv
  <2> QED
    BY <2>2, <2>3, <2>4, <2>5
    DEF RunnerTypeOK, RunnerOwnTypeOK, RunnerIInv
<1>3. RunnerSpec => []IInv
  BY RunnerRefinesGRPC, Invariance, PTL
<1> HIDE DEF All
<1>4. RunnerSpec => []All
  BY <1>1, <1>2, <1>3, PTL DEF RunnerSpec
<1>5. All => RunnerTypeOK /\ RunnerIInv
  BY DEF All
<1> QED
  BY <1>3, <1>4, <1>5, PTL

\* Every variable of RunBlocking, its goroutines, net/http and both runtimes
\* keeps its type; errCh in particular never exceeds its capacity.
THEOREM RunnerTypeCorrect == RunnerSpec => []RunnerTypeOK
  BY RunnerInvariance, PTL

\* When there is no gRPC server, or its goroutine was never launched, no RPC is
\* ever in flight.
LEMMA NothingServedUnlaunched ==
    ASSUME IInv, LaunchInv, ~GRPCLaunched
    PROVE  inflight = {}
<1>1. ~serveAttempt
  BY DEF LaunchInv
<1>2. transport = "idle"
  BY <1>1 DEF IInv, StartInv
<1> QED
  BY <1>2 DEF IInv, DrainInv

\* The cleanup hooks of the HTTP runtime, which close the product's resources,
\* run beside an HTTP request only after the shutdown deadline and beside an
\* RPC only after a forced stop, whatever made the Runner shut down.
THEOREM ResourcesOutlive == RunnerSpec => []ResourcesOutliveRequests
<1>1. RunnerTypeOK /\ IInv /\ RunnerIInv => ResourcesOutliveRequests
  <2>1. SUFFICES ASSUME IInv, RunnerIInv, httpOnce = "running"
                 PROVE  /\ httpInflight = {} \/ deadline
                        /\ inflight = {} \/ forced
    BY DEF ResourcesOutliveRequests
  <2>2. CASE runner = "rollback"
    <3>1. ~launched
      BY <2>1, <2>2 DEF RunnerIInv, LaunchInv
    <3>2. httpInflight = {} /\ ~GRPCLaunched
      BY <2>1, <3>1 DEF RunnerIInv, LaunchInv, GRPCLaunched
    <3> QED
      BY <2>1, <3>2, NothingServedUnlaunched DEF RunnerIInv
  <2>3. CASE runner = "cleanup"
    <3>1. httpInflight = {} \/ deadline
      BY <2>1, <2>3 DEF RunnerIInv, DownInv, FromGRPC, FromHTTPDrain,
         FromPreProduct
    <3>2. CASE grpcKind # "none"
      BY <2>1, <2>3, <3>1, <3>2 DEF RunnerIInv, DownInv, FromPost, FromGRPC,
         FromHTTPDrain, FromPreProduct
    <3>3. CASE grpcKind = "none"
      BY <2>1, <3>1, <3>3, NothingServedUnlaunched DEF RunnerIInv, GRPCLaunched
    <3> QED
      BY <3>2, <3>3
  <2> QED
    BY <2>1, <2>2, <2>3 DEF RunnerIInv, HTTPOnceInv
<1> QED
  BY <1>1, RunnerInvariance, PTL

\* When RunBlocking returns both runtimes are down and every cleanup hook of
\* both has run exactly once, whatever failed on the way.
THEOREM AllCleaned == RunnerSpec => []AllCleanedAtReturn
<1>1. RunnerTypeOK /\ IInv /\ RunnerIInv => AllCleanedAtReturn
  <2>1. SUFFICES ASSUME RunnerTypeOK, IInv, RunnerIInv, runner = "returned"
                 PROVE  AllCleanedAtReturn
    BY DEF AllCleanedAtReturn
  <2>2. httpShuttingDown /\ httpServer = "shutdown"
    BY <2>1 DEF RunnerIInv, DownInv, FromHTTPDrain, FromPreProduct
  <2>3. \A h \in 1..NHTTPShutdown : httpCleanups[h] = 1
    BY <2>1, HTTPAssumption DEF RunnerIInv, HTTPOnceInv
  <2>4. ASSUME grpcKind # "none"
        PROVE  /\ quit /\ health = "SHUTDOWN"
               /\ \A h \in 1..NShutdown : cleanups[h] = 1
    <3>1. once = "done" /\ quit
      BY <2>1, <2>4 DEF RunnerIInv, DownInv, FromPost, FromGRPC, FromHTTPDrain,
         FromPreProduct
    <3>2. health = "SHUTDOWN"
      BY <2>1, <3>1 DEF IInv, LockInv
    <3>3. \A h \in 1..NShutdown : cleanups[h] = 1
      BY <2>1, <3>1, RuntimeAssumption DEF IInv, OnceInv
    <3> QED
      BY <3>1, <3>2, <3>3
  <2> QED
    BY <2>2, <2>3, <2>4 DEF AllCleanedAtReturn
<1> QED
  BY <1>1, RunnerInvariance, PTL

\* RunBlocking reports the first step of Shutdown that failed, and the startup
\* or server error it stopped for.
THEOREM FirstErrorIsReported == RunnerSpec => []FirstErrorReported
<1>1. RunnerTypeOK /\ IInv /\ RunnerIInv => FirstErrorReported
  <2>1. SUFFICES ASSUME RunnerTypeOK, FirstErrInv, runner = "returned"
                 PROVE  FirstErrorReported
    BY DEF FirstErrorReported, RunnerIInv
  <2>2. result = Result(runErr, firstErr)
    BY <2>1 DEF FirstErrInv
  <2>3. ASSUME failures # <<>> PROVE Head(failures) \in result
    <3>1. firstErr = Head(failures) /\ firstErr \in Steps
      BY <2>1, <2>3 DEF FirstErrInv, RunnerTypeOK
    <3>2. firstErr \in Kept(firstErr)
      BY <3>1 DEF Kept, Steps
    <3> QED
      BY <2>2, <3>1, <3>2 DEF Result, mergeRunAndShutdownError
  <2>4. ASSUME runErr \in {"startup", "deadline", "http", "grpc"}
        PROVE  runErr \in result
    BY <2>2, <2>4 DEF Result, mergeRunAndShutdownError
  <2> QED
    BY <2>3, <2>4 DEF FirstErrorReported
<1> QED
  BY <1>1, RunnerInvariance, PTL

\* A serve goroutine that is scheduled late starts nothing any more: after
\* RunBlocking returned no gRPC startup hook completes and no status changes.
THEOREM NothingStartsLate == RunnerSpec => NothingStartsAfterReturn
<1>1. RunnerTypeOK /\ IInv /\ RunnerIInv /\ [RunnerNext]_allVars
          => [runner = "returned" => UNCHANGED <<startHook, health>>]_allVars
  <2>1. SUFFICES ASSUME RunnerTypeOK, IInv, RunnerIInv, [RunnerNext]_allVars,
                        runner = "returned"
                 PROVE  UNCHANGED <<startHook, health>>
    OBVIOUS
  <2>2. CASE grpcKind # "none"
    <3>1. shuttingDown
      BY <2>1, <2>2 DEF RunnerIInv, DownInv, FromPost, FromGRPC, FromHTTPDrain,
         FromPreProduct, IInv, LockInv
    <3>2. GRPCKept
      BY <2>1, RunnerStepIsGRPCStep, GRPCMonotone DEF IInv
    <3> QED
      BY <3>1, <3>2 DEF GRPCKept
  <2>3. CASE grpcKind = "none"
    <3>1. /\ ~GRPCLaunched
          /\ \A c \in Callers : pc[c] = "idle"
      BY <2>1, <2>3 DEF RunnerIInv, LaunchInv, GRPCLaunched
    <3>2. GRPCStep => \/ \E d \in Drainers : DrainGoroutine(d)
                      \/ \E r \in RPCs : RPCBegin(r) \/ RPCEnd(r)
      BY <2>1, <3>1 DEF GRPCStep, GRPCLoop, GRPCDrain, GRPCStop, Callers
    <3>3. GRPCStep => UNCHANGED <<startHook, health>>
      BY <3>2 DEF DrainGoroutine, DrainBegin, DrainEnd, RPCBegin, RPCEnd,
         startVars, flagVars
    <3>4. ShutdownDeadline => UNCHANGED <<startHook, health>>
      BY DEF ShutdownDeadline, startVars, flagVars
    <3>5. UNCHANGED vars => UNCHANGED <<startHook, health>>
      BY DEF vars, startVars, flagVars
    <3> QED
      BY <2>1, <3>3, <3>4, <3>5, RunnerStep
  <2> QED
    BY <2>2, <2>3
<1> QED
  BY <1>1, RunnerInvariance, PTL DEF RunnerSpec, NothingStartsAfterReturn
=============================================================================
