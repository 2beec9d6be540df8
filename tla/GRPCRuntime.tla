---------------------------- MODULE GRPCRuntime ----------------------------
(***************************************************************************)
(* The lifecycle of server.GRPCRuntime (go/server/grpc_runtime.go): Start, *)
(* Stop and GracefulStop called by concurrent goroutines, the lifecycle    *)
(* mutex held over the startup hooks, the sync.Once around the shutdown    *)
(* hooks, the gRPC health status, and the grpc.Server underneath           *)
(* (external: Serve, Stop, GracefulStop and the RPCs it carries).          *)
(* Each element of Starters, Stoppers and Drainers is one call.            *)
(***************************************************************************)
EXTENDS Integers, FiniteSets

CONSTANTS
    Starters,       \* calls of Start()
    Stoppers,       \* calls of Stop()
    Drainers,       \* calls of GracefulStop(ctx)
    RPCs,           \* requests the server may carry
    NStartup,       \* number of startup hooks
    NShutdown,      \* number of shutdown hooks
    Injected,       \* TRUE iff the configuration carries a Listener
    None            \* no owner

Callers == Starters \cup Stoppers \cup Drainers

ASSUME RuntimeAssumption ==
    /\ Starters \cap Stoppers = {}
    /\ Starters \cap Drainers = {}
    /\ Stoppers \cap Drainers = {}
    /\ None \notin Callers
    /\ NStartup \in Nat
    /\ NShutdown \in Nat
    /\ Injected \in BOOLEAN

VARIABLES
    pc,             \* where each call is
    ret,            \* the errors joined into each call's result; {} is nil
    lifecycleMu,    \* the call that holds lifecycleMu, or None
    serveAttempt,   \* a Start has claimed the single serve attempt
    listener,       \* "none", "open" or "closed"
    shuttingDown,   \* GRPCRuntime.shuttingDown
    health,         \* status of the overall and the named service
    once,           \* shutdownHooksOnce: "new", "running" or "done"
    onceOwner,      \* the call whose context the shutdown hooks received
    startHook,      \* startup hooks completed
    stopHook,       \* shutdown hooks completed by the call inside the Once
    shutdownError,  \* GRPCRuntime.shutdownError # nil
    cleanups,       \* history: how often each shutdown hook has run
    transport,      \* Serve: "idle", "serving", "failed" or "stopped"
    quit,           \* grpc.Server: Stop or GracefulStop was entered
    forced,         \* grpc.Server: Stop closed the connections
    done,           \* grpc.Server: a Stop or GracefulStop completed
    inflight,       \* RPCs whose handlers are running
    expired,        \* GracefulStop calls whose context is done
    drain           \* the goroutine of each GracefulStop call

startVars == <<serveAttempt, listener, startHook>>
flagVars  == <<lifecycleMu, shuttingDown, health>>
onceVars  == <<once, onceOwner, stopHook, shutdownError, cleanups>>
stopVars  == <<quit, forced, done>>
loadVars  == <<inflight, expired>>
serverVars == <<transport, stopVars, loadVars, drain>>
vars == <<pc, ret, startVars, flagVars, onceVars, serverVars>>

-----------------------------------------------------------------------------
\* The error kinds a call can return.
Errors == {"started", "bind", "startup", "startupHook", "serve", "shutdown",
           "deadline"}

PCs == {"idle", "lock", "hooks", "rollback", "unlock", "abort", "serve",
        "serving", "closing", "fail", "cleanup", "stop", "drain", "select",
        "force", "returned"}

TypeOK ==
    /\ pc \in [Callers -> PCs]
    /\ ret \in [Callers -> SUBSET Errors]
    /\ lifecycleMu \in Starters \cup {None}
    /\ serveAttempt \in BOOLEAN
    /\ listener \in {"none", "open", "closed"}
    /\ shuttingDown \in BOOLEAN
    /\ health \in {"NOT_SERVING", "SERVING", "SHUTDOWN"}
    /\ once \in {"new", "running", "done"}
    /\ onceOwner \in Callers \cup {None}
    /\ startHook \in 0..NStartup
    /\ stopHook \in 0..NShutdown
    /\ shutdownError \in BOOLEAN
    /\ cleanups \in [1..NShutdown -> Nat]
    /\ transport \in {"idle", "serving", "failed", "stopped"}
    /\ quit \in BOOLEAN /\ forced \in BOOLEAN /\ done \in BOOLEAN
    /\ inflight \in SUBSET RPCs
    /\ expired \in SUBSET Drainers
    /\ drain \in [Drainers -> {"none", "running", "draining", "closed"}]

\* NewGRPCRuntime: health starts NOT_SERVING, an injected listener is open.
Init ==
    /\ pc = [c \in Callers |-> "idle"]
    /\ ret = [c \in Callers |-> {}]
    /\ lifecycleMu = None
    /\ serveAttempt = FALSE
    /\ listener = IF Injected THEN "open" ELSE "none"
    /\ shuttingDown = FALSE
    /\ health = "NOT_SERVING"
    /\ once = "new"
    /\ onceOwner = None
    /\ startHook = 0
    /\ stopHook = 0
    /\ shutdownError = FALSE
    /\ cleanups = [h \in 1..NShutdown |-> 0]
    /\ transport = "idle"
    /\ quit = FALSE /\ forced = FALSE /\ done = FALSE
    /\ inflight = {}
    /\ expired = {}
    /\ drain = [d \in Drainers |-> "none"]

Goto(c, label) == pc' = [pc EXCEPT ![c] = label]

Join(c, errs) == ret' = [ret EXCEPT ![c] = @ \cup errs]

-----------------------------------------------------------------------------
(* Helpers of the runtime. *)

\* Mutant: the health server is not shut down.
markShuttingDownLocked_flagOnly == shuttingDown' = TRUE /\ UNCHANGED health

\* markShuttingDownLocked; health.Shutdown() makes every status terminal.
markShuttingDownLocked ==
    /\ shuttingDown' = TRUE
    /\ health' = "SHUTDOWN"

\* setServingStatus; the health server ignores it once it was shut down.
setServingStatus(status) ==
    health' = IF health = "SHUTDOWN" THEN health ELSE status

\* Mutant: shutdown does not wait for a startup in progress.
LifecycleFree_always == TRUE

\* lifecycleMu.Lock() succeeds.
LifecycleFree == lifecycleMu = None

\* Mutant: a return path of startup keeps the mutex.
LifecycleUnlock_leaked == UNCHANGED lifecycleMu

\* The deferred lifecycleMu.Unlock() of startup.
LifecycleUnlock == lifecycleMu' = None

\* failHealth, the first step of Stop and GracefulStop and the step of Start
\* after Serve failed; it waits for lifecycleMu.
failHealth(c, from, to) ==
    /\ pc[c] = from
    /\ LifecycleFree
    /\ markShuttingDownLocked
    /\ Goto(c, to)
    /\ UNCHANGED <<ret, lifecycleMu, startVars, onceVars, serverVars>>

-----------------------------------------------------------------------------
(* runShutdownHooks: a sync.Once around the shutdown hooks, entered from   *)
(* "cleanup" or, with lifecycleMu held, from "rollback".                   *)

InShutdownHooks(c) == pc[c] \in {"cleanup", "rollback"}

\* Mutant: the hooks run for every caller that comes after the first.
FirstCaller_each == once \in {"new", "done"}

\* shutdownHooksOnce has not been entered.
FirstCaller == once = "new"

\* The first caller runs the hooks, from the first one.
OnceBegin(c) ==
    /\ InShutdownHooks(c)
    /\ FirstCaller
    /\ once' = "running"
    /\ onceOwner' = c
    /\ stopHook' = 0
    /\ UNCHANGED <<pc, ret, startVars, flagVars, shutdownError, cleanups,
                   serverVars>>

\* One hook returns; an error is kept and the remaining hooks still run.
ShutdownHook(c) ==
    /\ InShutdownHooks(c)
    /\ once = "running" /\ onceOwner = c
    /\ stopHook < NShutdown
    /\ stopHook' = stopHook + 1
    /\ cleanups' = [cleanups EXCEPT ![stopHook + 1] = @ + 1]
    /\ shutdownError' \in {shutdownError, TRUE}
    /\ UNCHANGED <<pc, ret, startVars, flagVars, once, onceOwner, serverVars>>

\* The loop over the shutdown hooks is at its end.
HooksExhausted == stopHook = NShutdown

\* The last hook has returned.
OnceEnd(c) ==
    /\ InShutdownHooks(c)
    /\ once = "running" /\ onceOwner = c
    /\ HooksExhausted
    /\ once' = "done"
    /\ UNCHANGED <<pc, ret, startVars, flagVars, onceOwner, stopHook,
                   shutdownError, cleanups, serverVars>>

\* Mutant: callers that do not run the hooks do not wait for them.
HooksRun_early(c) == once = "done" \/ (once = "running" /\ onceOwner # c)

\* Mutant: only the caller that ran the hooks is released.
HooksRun_ownerOnly(c) == once = "done" /\ onceOwner = c

\* Once.Do returns to a caller when the hooks have run, whoever ran them.
HooksRun(c) == once = "done"

\* Mutant: the error is returned only to the caller that ran the hooks.
HookError_ownerOnly(c) ==
    IF shutdownError /\ c \notin Stoppers /\ c = onceOwner THEN {"shutdown"} ELSE {}

\* The kept error; Stop drops it.
HookError(c) == IF shutdownError /\ c \notin Stoppers THEN {"shutdown"} ELSE {}

OnceReturn(c) ==
    /\ InShutdownHooks(c)
    /\ HooksRun(c)
    /\ Join(c, HookError(c))
    /\ Goto(c, IF pc[c] = "rollback" THEN "unlock" ELSE "returned")
    /\ UNCHANGED <<startVars, flagVars, onceVars, serverVars>>

-----------------------------------------------------------------------------
(* Start. *)

\* prepareListener, one critical section under mu: claim the serve attempt,
\* take the injected listener or bind one.
prepareListener(t) ==
    /\ pc[t] = "idle"
    /\ serveAttempt' = TRUE
    /\ \/ /\ serveAttempt
          /\ Join(t, {"started"})
          /\ Goto(t, "returned")
          /\ UNCHANGED listener
       \/ /\ ~serveAttempt
          /\ listener' = "open"
          /\ Goto(t, "lock")
          /\ UNCHANGED ret
       \/ /\ ~serveAttempt /\ ~Injected
          /\ Join(t, {"bind"})
          /\ Goto(t, "returned")
          /\ UNCHANGED listener
    /\ UNCHANGED <<startHook, flagVars, onceVars, serverVars>>

\* Mutant: a startup that lost the race to a stop proceeds.
StartupRefused_never == FALSE

\* if r.shuttingDown
StartupRefused == shuttingDown

\* startup, up to the first hook: take lifecycleMu, refuse after shutdown.
startupLock(t) ==
    /\ pc[t] = "lock"
    /\ LifecycleFree
    /\ \/ /\ StartupRefused
          /\ Join(t, {"startup"})
          /\ Goto(t, "abort")
          /\ UNCHANGED lifecycleMu
       \/ /\ ~StartupRefused
          /\ lifecycleMu' = t
          /\ Goto(t, "hooks")
          /\ UNCHANGED ret
    /\ UNCHANGED <<startVars, shuttingDown, health, onceVars, serverVars>>

\* The loop over the startup hooks is not at its end.
HooksLeft == startHook < NStartup

\* A startup hook succeeds.
StartupHookOk(t) ==
    /\ pc[t] = "hooks"
    /\ HooksLeft
    /\ startHook' = startHook + 1
    /\ UNCHANGED <<pc, ret, serveAttempt, listener, flagVars, onceVars,
                   serverVars>>

\* A startup hook fails: mark shutdown and roll back, lifecycleMu still held.
StartupHookErr(t) ==
    /\ pc[t] = "hooks"
    /\ HooksLeft
    /\ markShuttingDownLocked
    /\ Join(t, {"startupHook"})
    /\ Goto(t, "rollback")
    /\ UNCHANGED <<startVars, lifecycleMu, onceVars, serverVars>>

\* All hooks succeeded: advertise SERVING and release lifecycleMu.
StartupDone(t) ==
    /\ pc[t] = "hooks"
    /\ startHook = NStartup
    /\ setServingStatus("SERVING")
    /\ LifecycleUnlock
    /\ Goto(t, "serve")
    /\ UNCHANGED <<ret, startVars, shuttingDown, onceVars, serverVars>>

\* The deferred unlock of a failed startup.
StartupUnlock(t) ==
    /\ pc[t] = "unlock"
    /\ LifecycleUnlock
    /\ Goto(t, "abort")
    /\ UNCHANGED <<ret, startVars, shuttingDown, health, onceVars, serverVars>>

\* Mutant: the listener stays open when startup fails.
ReleaseListener_leaked == UNCHANGED listener

\* listener.Close()
ReleaseListener == listener' = "closed"

\* Start closes the listener after a failed startup or after Serve returned.
CloseListener(t) ==
    /\ \/ pc[t] = "abort" /\ Goto(t, "returned")
       \/ pc[t] = "closing" /\ Goto(t, "fail")
    /\ ReleaseListener
    /\ UNCHANGED <<ret, serveAttempt, startHook, flagVars, onceVars, serverVars>>

\* server.Serve(listener); on a stopped server it closes the listener and
\* returns ErrServerStopped, which Start turns into nil at once.
Serve(t) ==
    /\ pc[t] = "serve"
    /\ \/ /\ quit
          /\ listener' = "closed"
          /\ Goto(t, "returned")
          /\ UNCHANGED transport
       \/ /\ ~quit
          /\ transport' = "serving"
          /\ Goto(t, "serving")
          /\ UNCHANGED listener
    /\ UNCHANGED <<ret, serveAttempt, startHook, flagVars, onceVars, stopVars,
                   loadVars, drain>>

\* Serve returns nil when a Stop or GracefulStop it was interrupted by is
\* done, and an error when accepting fails; the latter leaves connections up.
ServeReturns(t) ==
    /\ pc[t] = "serving"
    /\ \/ /\ quit /\ done
          /\ transport' = "stopped"
          /\ UNCHANGED ret
       \/ /\ ~quit
          /\ transport' = "failed"
          /\ Join(t, {"serve"})
    /\ listener' = "closed"
    /\ Goto(t, "closing")
    /\ UNCHANGED <<serveAttempt, startHook, flagVars, onceVars, stopVars,
                   loadVars, drain>>

StartFailHealth(t) == failHealth(t, "fail", "cleanup")

-----------------------------------------------------------------------------
(* Stop and GracefulStop. *)

StopFailHealth(s) == failHealth(s, "idle", "stop")

GracefulFailHealth(d) == failHealth(d, "idle", "drain")

\* The server's listener, if Serve has registered it, is closed by a stop.
closeListenersLocked ==
    listener' = IF transport = "serving" THEN "closed" ELSE listener

\* server.Stop(), by Stop or by a GracefulStop whose context is done.
StopServer(c) ==
    /\ pc[c] \in {"stop", "force"}
    /\ quit' = TRUE /\ forced' = TRUE /\ done' = TRUE
    /\ closeListenersLocked
    /\ Goto(c, "cleanup")
    /\ UNCHANGED <<ret, serveAttempt, startHook, flagVars, onceVars, transport,
                   loadVars, drain>>

\* GracefulStop starts its goroutine and enters the select.
SpawnDrain(d) ==
    /\ pc[d] = "drain"
    /\ drain' = [drain EXCEPT ![d] = "running"]
    /\ Goto(d, "select")
    /\ UNCHANGED <<ret, startVars, flagVars, onceVars, transport, stopVars,
                   loadVars>>

\* The goroutine enters server.GracefulStop(): no new connections or RPCs.
DrainBegin(d) ==
    /\ drain[d] = "running"
    /\ drain' = [drain EXCEPT ![d] = "draining"]
    /\ quit' = TRUE
    /\ closeListenersLocked
    /\ UNCHANGED <<pc, ret, serveAttempt, startHook, flagVars, onceVars,
                   transport, forced, done, loadVars>>

\* server.GracefulStop() returns when no handler is left; close(done).
DrainEnd(d) ==
    /\ drain[d] = "draining"
    /\ inflight = {}
    /\ drain' = [drain EXCEPT ![d] = "closed"]
    /\ done' = TRUE
    /\ UNCHANGED <<pc, ret, startVars, flagVars, onceVars, transport, quit,
                   forced, loadVars>>

\* Mutant: done is closed when the drain begins.
Drained_early(d) == drain[d] \in {"draining", "closed"}

\* The done channel of GracefulStop is closed.
Drained(d) == drain[d] = "closed"

\* case <-done
SelectDone(d) ==
    /\ pc[d] = "select"
    /\ Drained(d)
    /\ Goto(d, "cleanup")
    /\ UNCHANGED <<ret, startVars, flagVars, onceVars, serverVars>>

\* case <-ctx.Done()
SelectDeadline(d) ==
    /\ pc[d] = "select"
    /\ d \in expired
    /\ Join(d, {"deadline"})
    /\ Goto(d, "force")
    /\ UNCHANGED <<startVars, flagVars, onceVars, serverVars>>

-----------------------------------------------------------------------------
(* The environment: contexts expire, clients call, handlers return. *)

Expire(d) ==
    /\ d \notin expired
    /\ expired' = expired \cup {d}
    /\ UNCHANGED <<pc, ret, startVars, flagVars, onceVars, transport, stopVars,
                   inflight, drain>>

RPCBegin(r) ==
    /\ transport \in {"serving", "failed"}
    /\ ~quit
    /\ r \notin inflight
    /\ inflight' = inflight \cup {r}
    /\ UNCHANGED <<pc, ret, startVars, flagVars, onceVars, transport, stopVars,
                   expired, drain>>

RPCEnd(r) ==
    /\ r \in inflight
    /\ inflight' = inflight \ {r}
    /\ UNCHANGED <<pc, ret, startVars, flagVars, onceVars, transport, stopVars,
                   expired, drain>>

-----------------------------------------------------------------------------
runShutdownHooks(c) ==
    OnceBegin(c) \/ ShutdownHook(c) \/ OnceEnd(c) \/ OnceReturn(c)

startup(t) ==
    \/ startupLock(t) \/ StartupHookOk(t) \/ StartupHookErr(t)
    \/ StartupDone(t) \/ StartupUnlock(t)

Start(t) ==
    \/ prepareListener(t) \/ startup(t) \/ Serve(t) \/ ServeReturns(t)
    \/ CloseListener(t) \/ StartFailHealth(t) \/ runShutdownHooks(t)

Stop(s) == StopFailHealth(s) \/ StopServer(s) \/ runShutdownHooks(s)

DrainGoroutine(d) == DrainBegin(d) \/ DrainEnd(d)

GracefulStop(d) ==
    \/ GracefulFailHealth(d) \/ SpawnDrain(d) \/ SelectDone(d)
    \/ SelectDeadline(d) \/ StopServer(d) \/ runShutdownHooks(d)

Environment ==
    \/ \E d \in Drainers : Expire(d)
    \/ \E r \in RPCs : RPCBegin(r) \/ RPCEnd(r)

\* Every call has returned and no handler runs.
Quiescent == inflight = {} /\ \A c \in Callers : pc[c] = "returned"

Next ==
    \/ \E t \in Starters : Start(t)
    \/ \E s \in Stoppers : Stop(s)
    \/ \E d \in Drainers : GracefulStop(d) \/ DrainGoroutine(d)
    \/ Environment
    \/ Quiescent /\ UNCHANGED vars

Spec == Init /\ [][Next]_vars

-----------------------------------------------------------------------------
(* Fairness.  The Go scheduler runs every goroutine that can move, mutexes *)
(* are handed over, Stop and GracefulStop are called and contexts expire.  *)
(* Nothing is assumed of RPC handlers, clients or accept errors.           *)

Scheduling ==
    /\ \A t \in Starters :
          /\ WF_vars(startupLock(t) \/ StartupDone(t) \/ StartupUnlock(t)
                     \/ Serve(t) \/ CloseListener(t) \/ StartFailHealth(t))
          /\ WF_vars(ServeReturns(t) /\ quit)
    /\ \A s \in Stoppers : WF_vars(StopFailHealth(s) \/ StopServer(s))
    /\ \A d \in Drainers :
          /\ WF_vars(GracefulFailHealth(d) \/ SpawnDrain(d) \/ SelectDone(d)
                     \/ SelectDeadline(d) \/ StopServer(d))
          /\ WF_vars(DrainGoroutine(d))
          /\ WF_vars(Expire(d))
    /\ \A c \in Callers : WF_vars(OnceBegin(c) \/ OnceEnd(c) \/ OnceReturn(c))

\* Every hook returns in the end.
HooksReturn ==
    /\ \A t \in Starters : WF_vars(StartupHookOk(t) \/ StartupHookErr(t))
    /\ \A c \in Callers : WF_vars(ShutdownHook(c))

FairSpec == Spec /\ Scheduling /\ HooksReturn

\* A hook is only known to return once the context it was given is done.
HooksHonourContext ==
    \A c \in Callers : WF_vars(ShutdownHook(c) /\ c \in expired)

ContextFairSpec == Spec /\ Scheduling /\ HooksHonourContext

-----------------------------------------------------------------------------
(* Safety. *)

\* No startup hook runs while or after the shutdown hooks run: startup holds
\* lifecycleMu over all its hooks and refuses to begin once shutting down.
NoStartupDuringCleanup ==
    once # "new" => \A t \in Starters : pc[t] # "hooks"

\* Health is shut down before the first shutdown hook runs, on the rollback,
\* force, drain and serve-error paths alike.
HealthDownBeforeCleanup == once # "new" => health = "SHUTDOWN"

\* However many calls race, a shutdown hook runs at most once.
CleanupAtMostOnce == \A h \in 1..NShutdown : cleanups[h] <= 1

\* Stop and GracefulStop return only when every shutdown hook has finished,
\* also when another call runs them.
StopWaitsForCleanup ==
    \A c \in Stoppers \cup Drainers :
        pc[c] = "returned" =>
            once = "done" /\ \A h \in 1..NShutdown : cleanups[h] = 1

\* The shutdown hooks run beside an RPC handler only after a forced stop or
\* an accept error, never on the graceful path.
DrainBeforeCleanup ==
    once = "running" /\ inflight # {} => forced \/ transport = "failed"

\* A Start that owned the serve attempt leaves no open listener behind.
ListenerReleased ==
    (\E t \in Starters : pc[t] = "returned" /\ "started" \notin ret[t])
        => listener # "open"

\* What GracefulStop returns is true: without a deadline error the server has
\* really drained, and a cleanup error reaches every caller, not only the one
\* that ran the hooks, and none is invented.
GracefulResultTruthful ==
    \A d \in Drainers : pc[d] = "returned" =>
        /\ "deadline" \notin ret[d] => quit /\ inflight = {}
        /\ ("shutdown" \in ret[d]) <=> shutdownError

-----------------------------------------------------------------------------
(* The runtime implements the abstract service lifecycle. *)

Phase == CASE once = "done"        -> "Stopped"
           [] once # "done" /\ shuttingDown -> "ShuttingDown"
           [] once # "done" /\ ~shuttingDown /\ health = "SERVING" -> "Serving"
           [] OTHER -> "Starting"

Lifecycle == INSTANCE ServiceLifecycle
    WITH NHooks <- NShutdown, phase <- Phase, cleaned <- stopHook

\* Every step of the runtime is a step of ServiceLifecycle or a stutter:
\* never advertised again after shutdown began, hooks once and in order,
\* stopped only when all have run.
ImplementsLifecycle == Lifecycle!LifecycleSpec

-----------------------------------------------------------------------------
(* Liveness. *)

\* Every Stop and GracefulStop returns, even if RPC handlers never do.
StopsReturn ==
    \A c \in Stoppers \cup Drainers : <>(pc[c] = "returned")

\* Start returns once the server was stopped.
StartReturnsAfterStop ==
    \A t \in Starters : (done /\ pc[t] # "idle") ~> (pc[t] = "returned")

-----------------------------------------------------------------------------
(* Documented behaviour the code does not have. *)

\* "HTTP/gRPC serve loop: graceful shutdown sequence": cleanup would follow
\* the drain or a forced stop also when Serve fails.
CleanupAfterDrain == once # "new" => inflight = {} \/ forced

\* "context deadline forces Stop and returns the deadline error": an expired
\* context would bound GracefulStop.
DeadlineBoundsGracefulStop ==
    \A d \in Drainers : (d \in expired) ~> (pc[d] = "returned")
=============================================================================
