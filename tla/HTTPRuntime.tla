---------------------------- MODULE HTTPRuntime ----------------------------
(***************************************************************************)
(* The lifecycle state of server.HTTPRuntime (go/server/runtime.go) and    *)
(* its operations, as the steps of the one goroutine that calls them: the  *)
(* Runner.  Runner composes them with the gRPC runtime.                    *)
(***************************************************************************)
EXTENDS Integers

CONSTANTS
    NHTTPStartup,       \* startup hooks of the HTTP runtime
    NHTTPShutdown       \* shutdown hooks of the HTTP runtime

ASSUME HTTPAssumption == NHTTPStartup \in Nat /\ NHTTPShutdown \in Nat

VARIABLES
    httpStarted,        \* HealthRegistry.started
    httpShuttingDown,   \* HealthRegistry.shuttingDown
    httpStartHook,      \* startup hooks completed
    httpOnce,           \* shutdownOnce: "new", "running" or "done"
    httpStopHook,       \* shutdown hooks completed in the running Once
    httpShutdownErr,    \* HTTPRuntime.shutdownErr # nil
    httpCleanups        \* history: how often each shutdown hook has run

httpRuntimeVars == <<httpStarted, httpShuttingDown, httpStartHook, httpOnce,
                     httpStopHook, httpShutdownErr, httpCleanups>>

HTTPTypeOK ==
    /\ httpStarted \in BOOLEAN /\ httpShuttingDown \in BOOLEAN
    /\ httpStartHook \in 0..NHTTPStartup
    /\ httpOnce \in {"new", "running", "done"}
    /\ httpStopHook \in 0..NHTTPShutdown
    /\ httpShutdownErr \in BOOLEAN
    /\ httpCleanups \in [1..NHTTPShutdown -> Nat]

HTTPInit ==
    /\ httpStarted = FALSE /\ httpShuttingDown = FALSE
    /\ httpStartHook = 0
    /\ httpOnce = "new"
    /\ httpStopHook = 0
    /\ httpShutdownErr = FALSE
    /\ httpCleanups = [h \in 1..NHTTPShutdown |-> 0]

\* The loop over the startup hooks is not at its end.
HTTPHooksLeft == httpStartHook < NHTTPStartup

\* Startup: one hook succeeds.
HTTPStartupHook ==
    /\ HTTPHooksLeft
    /\ httpStartHook' = httpStartHook + 1
    /\ UNCHANGED <<httpStarted, httpShuttingDown, httpOnce, httpStopHook,
                   httpShutdownErr, httpCleanups>>

\* Startup: all hooks have succeeded, health.MarkStarted.
HTTPMarkStarted ==
    /\ httpStartHook = NHTTPStartup
    /\ httpStarted' = TRUE
    /\ UNCHANGED <<httpShuttingDown, httpStartHook, httpOnce, httpStopHook,
                   httpShutdownErr, httpCleanups>>

\* BeginShutdown, also the first statement of Shutdown.
BeginShutdown ==
    /\ httpShuttingDown' = TRUE
    /\ UNCHANGED <<httpStarted, httpStartHook, httpOnce, httpStopHook,
                   httpShutdownErr, httpCleanups>>

\* Mutant: the hooks run for every call of Shutdown.
HTTPFirstCaller_each == httpOnce \in {"new", "done"}

\* shutdownOnce has not been entered.
HTTPFirstCaller == httpOnce = "new"

\* Shutdown: the first call runs the hooks, from the first one.
HTTPOnceBegin ==
    /\ HTTPFirstCaller
    /\ httpOnce' = "running"
    /\ httpStopHook' = 0
    /\ UNCHANGED <<httpStarted, httpShuttingDown, httpStartHook,
                   httpShutdownErr, httpCleanups>>

\* Shutdown: one hook returns, the first error is kept.
HTTPShutdownHook ==
    /\ httpOnce = "running"
    /\ httpStopHook < NHTTPShutdown
    /\ httpStopHook' = httpStopHook + 1
    /\ httpCleanups' = [httpCleanups EXCEPT ![httpStopHook + 1] = @ + 1]
    /\ httpShutdownErr' \in {httpShutdownErr, TRUE}
    /\ UNCHANGED <<httpStarted, httpShuttingDown, httpStartHook, httpOnce>>

\* Shutdown: leave the Once.
HTTPOnceEnd ==
    /\ httpOnce = "running"
    /\ httpStopHook = NHTTPShutdown
    /\ httpOnce' = "done"
    /\ UNCHANGED <<httpStarted, httpShuttingDown, httpStartHook, httpStopHook,
                   httpShutdownErr, httpCleanups>>

HTTPCleanup == HTTPOnceBegin \/ HTTPShutdownHook \/ HTTPOnceEnd
=============================================================================
