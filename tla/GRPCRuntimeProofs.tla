------------------------- MODULE GRPCRuntimeProofs -------------------------
(***************************************************************************)
(* Proofs about GRPCRuntime for any number of concurrent calls, hooks and  *)
(* RPCs: the inductive invariant IInv, the safety invariants that follow   *)
(* from it, and the refinement of ServiceLifecycle.                        *)
(***************************************************************************)
EXTENDS GRPCRuntime, TLAPS

-----------------------------------------------------------------------------
(* The inductive invariant, one part per concern. *)

\* Where each kind of call can be.
StarterPCs == {"idle", "lock", "hooks", "rollback", "unlock", "abort", "serve",
               "serving", "closing", "fail", "cleanup", "returned"}
StopperPCs == {"idle", "stop", "cleanup", "returned"}
DrainerPCs == {"idle", "drain", "select", "force", "cleanup", "returned"}

RoleInv ==
    /\ \A t \in Starters : pc[t] \in StarterPCs
    /\ \A s \in Stoppers : pc[s] \in StopperPCs
    /\ \A d \in Drainers : pc[d] \in DrainerPCs

\* lifecycleMu is held exactly over the startup hooks and their rollback;
\* while they run shutdown has not begun, and whoever is past failHealth, or
\* anywhere in the shutdown hooks, knows that it has.
LockInv ==
    /\ \A t \in Starters :
          (lifecycleMu = t) <=> (pc[t] \in {"hooks", "rollback", "unlock"})
    /\ \A t \in Starters : pc[t] = "hooks" => ~shuttingDown
    /\ \A c \in Callers :
          pc[c] \in {"rollback", "unlock", "cleanup", "stop", "drain",
                     "select", "force"} => shuttingDown
    /\ once # "new" => shuttingDown
    /\ shuttingDown <=> (health = "SHUTDOWN")

\* The call inside the Once is still in runShutdownHooks, the hooks run in
\* order, and nobody is past runShutdownHooks before they have all run.
OnceInv ==
    /\ once = "running" => onceOwner \in Callers /\ InShutdownHooks(onceOwner)
    /\ once = "new" => stopHook = 0
    /\ once = "done" => stopHook = NShutdown
    /\ \A h \in 1..NShutdown : cleanups[h] = IF h <= stopHook THEN 1 ELSE 0
    /\ \A c \in Stoppers \cup Drainers : pc[c] = "returned" => once = "done"

\* Only one Start passes prepareListener; the listener and the transport
\* follow its progress.
StartInv ==
    /\ \A t \in Starters : pc[t] \notin {"idle", "returned"} => serveAttempt
    /\ \A t \in Starters, u \in Starters :
          pc[t] \notin {"idle", "returned"} /\ pc[u] \notin {"idle", "returned"}
              => t = u
    /\ \A t \in Starters :
          /\ pc[t] \in {"lock", "hooks", "rollback", "unlock", "abort", "serve"}
                => transport = "idle"
          /\ pc[t] \in {"lock", "hooks"} => health # "SERVING"
          /\ pc[t] = "serving" => transport = "serving"
          /\ pc[t] = "closing" =>
                transport = "failed" \/ (transport = "stopped" /\ done)
          /\ pc[t] \in {"fail", "cleanup"} =>
                /\ transport = "failed" \/ (transport = "stopped" /\ done)
                /\ listener = "closed"
          /\ pc[t] = "returned" /\ "started" \notin ret[t] =>
                serveAttempt /\ listener # "open"
    /\ transport # "idle" \/ health = "SERVING" => serveAttempt
    /\ ~serveAttempt => listener = IF Injected THEN "open" ELSE "none"

\* What a stop of the server means for the handlers, and which way a call
\* took to the shutdown hooks.
DrainInv ==
    /\ forced \/ done => quit
    /\ done => forced \/ inflight = {}
    /\ transport = "idle" => inflight = {}
    /\ \A d \in Drainers :
          /\ drain[d] = "draining" => quit
          /\ drain[d] = "closed" => quit /\ inflight = {}
          /\ pc[d] \in {"cleanup", "returned"} =>
                ("deadline" \in ret[d] /\ forced) \/ drain[d] = "closed"
          /\ pc[d] = "force" => "deadline" \in ret[d]
    /\ \A s \in Stoppers : pc[s] \in {"cleanup", "returned"} => forced

\* The cleanup error is final once a GracefulStop has reported it.
ErrorInv ==
    \A d \in Drainers :
        ("shutdown" \in ret[d]) <=> (pc[d] = "returned" /\ shutdownError)

IInv == /\ TypeOK /\ RoleInv /\ LockInv /\ OnceInv
        /\ StartInv /\ DrainInv /\ ErrorInv

-----------------------------------------------------------------------------
(* Type correctness: one step per action. *)

\* Every step of every call keeps the variables of the runtime in their types.
LEMMA TypeStep == TypeOK /\ [Next]_vars => TypeOK'
<1> USE RuntimeAssumption
    DEF Callers, TypeOK, PCs, Errors, startVars, flagVars, onceVars, stopVars,
        loadVars, serverVars
<1>a. SUFFICES ASSUME TypeOK, [Next]_vars PROVE TypeOK'
  OBVIOUS
<1>1. ASSUME NEW t \in Starters, prepareListener(t) PROVE TypeOK'
  BY <1>a, <1>1 DEF prepareListener, Goto, Join
<1>2. ASSUME NEW t \in Starters, startupLock(t) PROVE TypeOK'
  BY <1>a, <1>2, SMTT(30) DEF startupLock, Goto, Join, LifecycleFree, StartupRefused
<1>3. ASSUME NEW t \in Starters, StartupHookOk(t) PROVE TypeOK'
  BY <1>a, <1>3 DEF StartupHookOk, HooksLeft
<1>4. ASSUME NEW t \in Starters, StartupHookErr(t) PROVE TypeOK'
  BY <1>a, <1>4 DEF StartupHookErr, Goto, Join, markShuttingDownLocked,
     HooksLeft
<1>5. ASSUME NEW t \in Starters, StartupDone(t) PROVE TypeOK'
  BY <1>a, <1>5 DEF StartupDone, Goto, setServingStatus, LifecycleUnlock
<1>6. ASSUME NEW t \in Starters, StartupUnlock(t) PROVE TypeOK'
  BY <1>a, <1>6 DEF StartupUnlock, Goto, LifecycleUnlock
<1>7. ASSUME NEW t \in Starters, Serve(t) PROVE TypeOK'
  BY <1>a, <1>7 DEF Serve, Goto
<1>8. ASSUME NEW t \in Starters, ServeReturns(t) PROVE TypeOK'
  BY <1>a, <1>8 DEF ServeReturns, Goto, Join
<1>9. ASSUME NEW t \in Starters, CloseListener(t) PROVE TypeOK'
  BY <1>a, <1>9 DEF CloseListener, Goto, ReleaseListener
<1>10. ASSUME NEW t \in Starters, StartFailHealth(t) PROVE TypeOK'
  BY <1>a, <1>10 DEF StartFailHealth, failHealth, markShuttingDownLocked, Goto,
     LifecycleFree
<1>11. ASSUME NEW c \in Callers, OnceBegin(c) PROVE TypeOK'
  BY <1>a, <1>11 DEF OnceBegin, InShutdownHooks, FirstCaller
<1>12. ASSUME NEW c \in Callers, ShutdownHook(c) PROVE TypeOK'
  <2>1. shutdownError' \in BOOLEAN
    BY <1>a, <1>12, Zenon DEF ShutdownHook
  <2>2. cleanups' \in [1..NShutdown -> Nat]
    BY <1>a, <1>12 DEF ShutdownHook
  <2> QED
    BY <2>1, <2>2, <1>a, <1>12 DEF ShutdownHook
<1>13. ASSUME NEW c \in Callers, OnceEnd(c) PROVE TypeOK'
  BY <1>a, <1>13 DEF OnceEnd, InShutdownHooks, HooksExhausted
<1>14. ASSUME NEW c \in Callers, OnceReturn(c) PROVE TypeOK'
  BY <1>a, <1>14 DEF OnceReturn, InShutdownHooks, Goto, Join, HooksRun,
     HookError
<1>15. ASSUME NEW s \in Stoppers, StopFailHealth(s) PROVE TypeOK'
  BY <1>a, <1>15 DEF StopFailHealth, failHealth, markShuttingDownLocked, Goto,
     LifecycleFree
<1>16. ASSUME NEW c \in Stoppers \cup Drainers, StopServer(c) PROVE TypeOK'
  BY <1>a, <1>16 DEF StopServer, closeListenersLocked, Goto
<1>17. ASSUME NEW d \in Drainers, GracefulFailHealth(d) PROVE TypeOK'
  BY <1>a, <1>17 DEF GracefulFailHealth, failHealth, markShuttingDownLocked,
     Goto, LifecycleFree
<1>18. ASSUME NEW d \in Drainers, SpawnDrain(d) PROVE TypeOK'
  BY <1>a, <1>18 DEF SpawnDrain, Goto
<1>19. ASSUME NEW d \in Drainers, DrainBegin(d) PROVE TypeOK'
  BY <1>a, <1>19 DEF DrainBegin, closeListenersLocked
<1>20. ASSUME NEW d \in Drainers, DrainEnd(d) PROVE TypeOK'
  BY <1>a, <1>20 DEF DrainEnd
<1>21. ASSUME NEW d \in Drainers, SelectDone(d) PROVE TypeOK'
  BY <1>a, <1>21 DEF SelectDone, Goto, Drained
<1>22. ASSUME NEW d \in Drainers, SelectDeadline(d) PROVE TypeOK'
  BY <1>a, <1>22 DEF SelectDeadline, Goto, Join
<1>23. ASSUME NEW d \in Drainers, Expire(d) PROVE TypeOK'
  BY <1>a, <1>23 DEF Expire
<1>24. ASSUME NEW r \in RPCs, RPCBegin(r) PROVE TypeOK'
  BY <1>a, <1>24 DEF RPCBegin
<1>25. ASSUME NEW r \in RPCs, RPCEnd(r) PROVE TypeOK'
  BY <1>a, <1>25 DEF RPCEnd
<1>26. ASSUME UNCHANGED vars PROVE TypeOK'
  BY <1>a, <1>26 DEF vars
<1> QED
  BY <1>a, <1>1, <1>2, <1>3, <1>4, <1>5, <1>6, <1>7, <1>8, <1>9, <1>10, <1>11,
     <1>12, <1>13, <1>14, <1>15, <1>16, <1>17, <1>18, <1>19, <1>20, <1>21,
     <1>22, <1>23, <1>24, <1>25, <1>26 DEF Next, Start, Stop, GracefulStop,
     DrainGoroutine, Environment, startup, runShutdownHooks

-----------------------------------------------------------------------------
(* The inductive invariant. *)

\* IInv holds of a runtime NewGRPCRuntime has just built.
LEMMA InitIInv == Init => IInv
<1> SUFFICES ASSUME Init PROVE IInv
  OBVIOUS
<1> USE RuntimeAssumption DEF Init, Callers
<1>1. TypeOK /\ RoleInv
  <2>1. RoleInv /\ pc \in [Callers -> PCs] /\ ret \in [Callers -> SUBSET Errors]
    BY DEF PCs, Errors, RoleInv, StarterPCs, StopperPCs, DrainerPCs
  <2>2. /\ cleanups \in [1..NShutdown -> Nat]
        /\ startHook \in 0..NStartup /\ stopHook \in 0..NShutdown
    OBVIOUS
  <2>3. listener \in {"none", "open", "closed"}
    BY Zenon
  <2> QED
    BY <2>1, <2>2, <2>3, Zenon DEF TypeOK
<1>2. LockInv /\ StartInv /\ DrainInv /\ ErrorInv
  BY DEF LockInv, StartInv, DrainInv, ErrorInv
<1>3. OnceInv
  BY DEF OnceInv
<1> QED
  BY <1>1, <1>2, <1>3 DEF IInv

\* IInv is kept by every step of every call.
LEMMA NextIInv == IInv /\ TypeOK' /\ [Next]_vars => IInv'
<1> USE RuntimeAssumption
    DEF Callers, IInv, TypeOK, PCs, Errors, RoleInv, StarterPCs, StopperPCs,
        DrainerPCs, LockInv, OnceInv, StartInv, DrainInv, ErrorInv,
        InShutdownHooks, startVars, flagVars, onceVars, stopVars, loadVars,
        serverVars
<1>a. SUFFICES ASSUME IInv, TypeOK', [Next]_vars PROVE IInv'
  OBVIOUS
<1>1. ASSUME NEW t \in Starters, prepareListener(t) PROVE IInv'
  <2>1. CASE serveAttempt
    BY <1>a, <1>1, <2>1 DEF prepareListener, Goto, Join
  <2>2. CASE ~serveAttempt
    <3>1. \A u \in Starters :
              /\ pc[u] \in {"idle", "returned"}
              /\ pc[u] = "returned" => "started" \in ret[u]
      BY <1>a, <2>2
    <3>2. CASE pc' = [pc EXCEPT ![t] = "lock"] /\ ret' = ret
      BY <1>a, <1>1, <2>2, <3>1, <3>2 DEF prepareListener
    <3>3. CASE /\ pc' = [pc EXCEPT ![t] = "returned"]
               /\ ret' = [ret EXCEPT ![t] = ret[t] \cup {"bind"}]
               /\ ~Injected /\ UNCHANGED listener
      BY <1>a, <1>1, <2>2, <3>1, <3>3 DEF prepareListener
    <3> QED
      BY <1>1, <2>2, <3>2, <3>3 DEF prepareListener, Goto, Join
  <2> QED
    BY <2>1, <2>2
<1>2. ASSUME NEW t \in Starters, startupLock(t) PROVE IInv'
  BY <1>a, <1>2 DEF startupLock, Goto, Join, LifecycleFree, StartupRefused
<1>3. ASSUME NEW t \in Starters, StartupHookOk(t) PROVE IInv'
  BY <1>a, <1>3 DEF StartupHookOk, HooksLeft
<1>4. ASSUME NEW t \in Starters, StartupHookErr(t) PROVE IInv'
  BY <1>a, <1>4 DEF StartupHookErr, Goto, Join, markShuttingDownLocked,
     HooksLeft
<1>5. ASSUME NEW t \in Starters, StartupDone(t) PROVE IInv'
  BY <1>a, <1>5 DEF StartupDone, Goto, setServingStatus, LifecycleUnlock
<1>6. ASSUME NEW t \in Starters, StartupUnlock(t) PROVE IInv'
  BY <1>a, <1>6 DEF StartupUnlock, Goto, LifecycleUnlock
<1>7. ASSUME NEW t \in Starters, Serve(t) PROVE IInv'
  <2>1. CASE quit
    BY <1>a, <1>7, <2>1 DEF Serve, Goto
  <2>2. CASE ~quit
    BY <1>a, <1>7, <2>2 DEF Serve, Goto
  <2> QED
    BY <2>1, <2>2
<1>8. ASSUME NEW t \in Starters, ServeReturns(t) PROVE IInv'
  BY <1>a, <1>8 DEF ServeReturns, Goto, Join
<1>9. ASSUME NEW t \in Starters, CloseListener(t) PROVE IInv'
  BY <1>a, <1>9 DEF CloseListener, Goto, ReleaseListener
<1>10. ASSUME NEW t \in Starters, StartFailHealth(t) PROVE IInv'
  BY <1>a, <1>10 DEF StartFailHealth, failHealth, markShuttingDownLocked, Goto,
     LifecycleFree
<1>11. ASSUME NEW c \in Callers, OnceBegin(c) PROVE IInv'
  BY <1>a, <1>11 DEF OnceBegin, InShutdownHooks, FirstCaller
<1>12. ASSUME NEW c \in Callers, ShutdownHook(c) PROVE IInv'
  BY <1>a, <1>12 DEF ShutdownHook, InShutdownHooks
<1>13. ASSUME NEW c \in Callers, OnceEnd(c) PROVE IInv'
  BY <1>a, <1>13 DEF OnceEnd, InShutdownHooks, HooksExhausted
<1>14. ASSUME NEW c \in Callers, OnceReturn(c) PROVE IInv'
  BY <1>a, <1>14 DEF OnceReturn, InShutdownHooks, Goto, Join, HooksRun,
     HookError
<1>15. ASSUME NEW s \in Stoppers, StopFailHealth(s) PROVE IInv'
  BY <1>a, <1>15 DEF StopFailHealth, failHealth, markShuttingDownLocked, Goto,
     LifecycleFree
<1>16. ASSUME NEW c \in Stoppers \cup Drainers, StopServer(c) PROVE IInv'
  <2>1. /\ listener' \in {listener, "closed"}
        /\ ~serveAttempt => listener' = listener
    BY <1>a, <1>16 DEF StopServer, closeListenersLocked
  <2> QED
    BY <1>a, <1>16, <2>1 DEF StopServer, Goto
<1>17. ASSUME NEW d \in Drainers, GracefulFailHealth(d) PROVE IInv'
  BY <1>a, <1>17 DEF GracefulFailHealth, failHealth, markShuttingDownLocked,
     Goto, LifecycleFree
<1>18. ASSUME NEW d \in Drainers, SpawnDrain(d) PROVE IInv'
  BY <1>a, <1>18 DEF SpawnDrain, Goto
<1>19. ASSUME NEW d \in Drainers, DrainBegin(d) PROVE IInv'
  <2>1. /\ listener' \in {listener, "closed"}
        /\ ~serveAttempt => listener' = listener
    BY <1>a, <1>19 DEF DrainBegin, closeListenersLocked
  <2> QED
    BY <1>a, <1>19, <2>1 DEF DrainBegin
<1>20. ASSUME NEW d \in Drainers, DrainEnd(d) PROVE IInv'
  BY <1>a, <1>20 DEF DrainEnd
<1>21. ASSUME NEW d \in Drainers, SelectDone(d) PROVE IInv'
  BY <1>a, <1>21 DEF SelectDone, Goto, Drained
<1>22. ASSUME NEW d \in Drainers, SelectDeadline(d) PROVE IInv'
  BY <1>a, <1>22 DEF SelectDeadline, Goto, Join
<1>23. ASSUME NEW d \in Drainers, Expire(d) PROVE IInv'
  BY <1>a, <1>23 DEF Expire
<1>24. ASSUME NEW r \in RPCs, RPCBegin(r) PROVE IInv'
  BY <1>a, <1>24 DEF RPCBegin
<1>25. ASSUME NEW r \in RPCs, RPCEnd(r) PROVE IInv'
  BY <1>a, <1>25 DEF RPCEnd
<1>26. ASSUME UNCHANGED vars PROVE IInv'
  BY <1>a, <1>26 DEF vars
<1> QED
  BY <1>a, <1>1, <1>2, <1>3, <1>4, <1>5, <1>6, <1>7, <1>8, <1>9, <1>10, <1>11,
     <1>12, <1>13, <1>14, <1>15, <1>16, <1>17, <1>18, <1>19, <1>20, <1>21,
     <1>22, <1>23, <1>24, <1>25, <1>26, ZenonT(60) DEF Next, Start, Stop, GracefulStop,
     DrainGoroutine, Environment, startup, runShutdownHooks

-----------------------------------------------------------------------------
(* The theorems. *)

\* In every behaviour of any number of concurrent Start, Stop and GracefulStop
\* calls the variables of the runtime keep their types.
THEOREM TypeCorrect == Spec => []TypeOK
<1>1. Init => TypeOK
  BY InitIInv DEF IInv
<1> QED
  BY <1>1, TypeStep, PTL DEF Spec

\* IInv is an invariant of the runtime.
THEOREM Invariance == Spec => []IInv
<1>1. IInv /\ [Next]_vars => IInv'
  BY TypeStep, NextIInv DEF IInv
<1> QED
  BY InitIInv, <1>1, PTL DEF Spec

\* A startup hook never overlaps or follows a shutdown hook.
THEOREM StartupBeforeCleanup == Spec => []NoStartupDuringCleanup
<1>1. IInv => NoStartupDuringCleanup
  BY DEF IInv, LockInv, NoStartupDuringCleanup
<1> QED
  BY <1>1, Invariance, PTL

\* Health is shut down before any shutdown hook runs, on every path.
THEOREM HealthBeforeCleanup == Spec => []HealthDownBeforeCleanup
<1>1. IInv => HealthDownBeforeCleanup
  BY DEF IInv, LockInv, HealthDownBeforeCleanup
<1> QED
  BY <1>1, Invariance, PTL

\* The Once guard: each hook runs at most once, and no Stop or GracefulStop
\* returns before all of them have.
THEOREM CleanupExactlyOnce == Spec => [](CleanupAtMostOnce /\ StopWaitsForCleanup)
<1>1. IInv => CleanupAtMostOnce
  BY RuntimeAssumption DEF IInv, OnceInv, CleanupAtMostOnce, TypeOK
<1>2. IInv => StopWaitsForCleanup
  BY RuntimeAssumption DEF IInv, OnceInv, StopWaitsForCleanup, TypeOK
<1> QED
  BY <1>1, <1>2, Invariance, PTL

\* The shutdown hooks run beside an RPC handler only after a forced stop or an
\* accept error.
THEOREM CleanupFollowsDrain == Spec => []DrainBeforeCleanup
<1>1. IInv => DrainBeforeCleanup
  <2>1. SUFFICES ASSUME IInv, once = "running", inflight # {}, ~forced
                 PROVE  transport = "failed"
    BY DEF DrainBeforeCleanup
  <2>2. /\ onceOwner \in Callers
        /\ pc[onceOwner] \in {"cleanup", "rollback"}
    BY <2>1 DEF IInv, OnceInv, InShutdownHooks
  <2>3. ~done /\ transport # "idle"
    BY <2>1 DEF IInv, DrainInv
  <2>4. onceOwner \in Starters
    BY <2>1, <2>2 DEF IInv, DrainInv, RoleInv, StopperPCs, DrainerPCs, Callers
  <2> QED
    BY <2>1, <2>2, <2>3, <2>4 DEF IInv, StartInv
<1> QED
  BY <1>1, Invariance, PTL

\* A Start that owned the serve attempt leaves no open listener behind.
THEOREM ListenerAlwaysReleased == Spec => []ListenerReleased
<1>1. IInv => ListenerReleased
  BY DEF IInv, StartInv, ListenerReleased
<1> QED
  BY <1>1, Invariance, PTL

\* What GracefulStop reports is true: no deadline error means drained, and the
\* cleanup error is reported to every caller.
THEOREM GracefulStopTruthful == Spec => []GracefulResultTruthful
<1>1. IInv => GracefulResultTruthful
  BY DEF IInv, DrainInv, ErrorInv, GracefulResultTruthful
<1> QED
  BY <1>1, Invariance, PTL

-----------------------------------------------------------------------------
(* The refinement of ServiceLifecycle. *)

\* A new runtime is an abstract service that is starting.
LEMMA InitRefines == Init => Lifecycle!LifecycleInit
  BY DEF Init, Lifecycle!LifecycleInit, Phase

\* Every step of the runtime is an abstract step or leaves the phase and the
\* number of completed hooks alone.
LEMMA NextRefines ==
    IInv /\ [Next]_vars => [Lifecycle!LifecycleNext]_Lifecycle!lifecycleVars
<1> USE RuntimeAssumption
    DEF IInv, TypeOK, LockInv, OnceInv, Phase, Callers, startVars, flagVars,
        onceVars, stopVars, loadVars, serverVars, Lifecycle!lifecycleVars
<1>a. SUFFICES ASSUME IInv, [Next]_vars
               PROVE  [Lifecycle!LifecycleNext]_Lifecycle!lifecycleVars
  OBVIOUS
<1> DEFINE Stutter == Phase' = Phase /\ stopHook' = stopHook
<1>1. ASSUME NEW t \in Starters, prepareListener(t)
      PROVE  Stutter
  BY <1>a, <1>1 DEF prepareListener, Goto, Join
<1>2. ASSUME NEW t \in Starters, startupLock(t)
      PROVE  Stutter
  BY <1>a, <1>2 DEF startupLock, Goto, Join, LifecycleFree, StartupRefused
<1>3. ASSUME NEW t \in Starters, StartupHookOk(t)
      PROVE  Stutter
  BY <1>a, <1>3 DEF StartupHookOk, HooksLeft
<1>4. ASSUME NEW t \in Starters, StartupHookErr(t)
      PROVE  Lifecycle!BeginShutdown
  BY <1>a, <1>4 DEF StartupHookErr, Goto, Join, markShuttingDownLocked,
     HooksLeft, Lifecycle!BeginShutdown
<1>5. ASSUME NEW t \in Starters, StartupDone(t)
      PROVE  Lifecycle!Advertise
  BY <1>a, <1>5 DEF StartupDone, Goto, setServingStatus, LifecycleUnlock,
     StartInv, Lifecycle!Advertise
<1>6. ASSUME NEW t \in Starters, StartupUnlock(t)
      PROVE  Stutter
  BY <1>a, <1>6 DEF StartupUnlock, Goto, LifecycleUnlock
<1>7. ASSUME NEW t \in Starters, Serve(t)
      PROVE  Stutter
  BY <1>a, <1>7 DEF Serve, Goto
<1>8. ASSUME NEW t \in Starters, ServeReturns(t)
      PROVE  Stutter
  BY <1>a, <1>8 DEF ServeReturns, Goto, Join
<1>9. ASSUME NEW t \in Starters, CloseListener(t)
      PROVE  Stutter
  BY <1>a, <1>9 DEF CloseListener, Goto, ReleaseListener
<1>10. ASSUME NEW t \in Starters, StartFailHealth(t)
      PROVE  Stutter \/ Lifecycle!BeginShutdown
  BY <1>a, <1>10 DEF StartFailHealth, failHealth, markShuttingDownLocked, Goto,
     LifecycleFree, Lifecycle!BeginShutdown
<1>11. ASSUME NEW c \in Callers, OnceBegin(c)
      PROVE  Stutter
  BY <1>a, <1>11 DEF OnceBegin, InShutdownHooks, FirstCaller
<1>12. ASSUME NEW c \in Callers, ShutdownHook(c)
      PROVE  Lifecycle!RunCleanup
  BY <1>a, <1>12 DEF ShutdownHook, InShutdownHooks, Lifecycle!RunCleanup
<1>13. ASSUME NEW c \in Callers, OnceEnd(c)
      PROVE  Lifecycle!FinishShutdown
  BY <1>a, <1>13 DEF OnceEnd, InShutdownHooks, HooksExhausted,
     Lifecycle!FinishShutdown
<1>14. ASSUME NEW c \in Callers, OnceReturn(c)
      PROVE  Stutter
  BY <1>a, <1>14 DEF OnceReturn, InShutdownHooks, Goto, Join, HooksRun,
     HookError
<1>15. ASSUME NEW s \in Stoppers, StopFailHealth(s)
      PROVE  Stutter \/ Lifecycle!BeginShutdown
  BY <1>a, <1>15 DEF StopFailHealth, failHealth, markShuttingDownLocked, Goto,
     LifecycleFree, Lifecycle!BeginShutdown
<1>16. ASSUME NEW c \in Stoppers \cup Drainers, StopServer(c)
      PROVE  Stutter
  BY <1>a, <1>16 DEF StopServer, closeListenersLocked, Goto
<1>17. ASSUME NEW d \in Drainers, GracefulFailHealth(d)
      PROVE  Stutter \/ Lifecycle!BeginShutdown
  BY <1>a, <1>17 DEF GracefulFailHealth, failHealth, markShuttingDownLocked,
     Goto, LifecycleFree, Lifecycle!BeginShutdown
<1>18. ASSUME NEW d \in Drainers, SpawnDrain(d)
      PROVE  Stutter
  BY <1>a, <1>18 DEF SpawnDrain, Goto
<1>19. ASSUME NEW d \in Drainers, DrainBegin(d)
      PROVE  Stutter
  BY <1>a, <1>19 DEF DrainBegin, closeListenersLocked
<1>20. ASSUME NEW d \in Drainers, DrainEnd(d)
      PROVE  Stutter
  BY <1>a, <1>20 DEF DrainEnd
<1>21. ASSUME NEW d \in Drainers, SelectDone(d)
      PROVE  Stutter
  BY <1>a, <1>21 DEF SelectDone, Goto, Drained
<1>22. ASSUME NEW d \in Drainers, SelectDeadline(d)
      PROVE  Stutter
  BY <1>a, <1>22 DEF SelectDeadline, Goto, Join
<1>23. ASSUME NEW d \in Drainers, Expire(d)
      PROVE  Stutter
  BY <1>a, <1>23 DEF Expire
<1>24. ASSUME NEW r \in RPCs, RPCBegin(r)
      PROVE  Stutter
  BY <1>a, <1>24 DEF RPCBegin
<1>25. ASSUME NEW r \in RPCs, RPCEnd(r)
      PROVE  Stutter
  BY <1>a, <1>25 DEF RPCEnd
<1>26. ASSUME UNCHANGED vars PROVE Stutter
  BY <1>26 DEF vars
<1> QED
  BY <1>a, <1>1, <1>2, <1>3, <1>4, <1>5, <1>6, <1>7, <1>8, <1>9, <1>10, <1>11,
     <1>12, <1>13, <1>14, <1>15, <1>16, <1>17, <1>18, <1>19, <1>20, <1>21,
     <1>22, <1>23, <1>24, <1>25, <1>26 DEF Next, Start, Stop, GracefulStop,
     DrainGoroutine, Environment, startup, runShutdownHooks,
     Lifecycle!LifecycleNext

\* The runtime implements ServiceLifecycle: advertised at most once and never
\* after shutdown began, every cleanup hook run once, in order.
THEOREM RefinesLifecycle == Spec => ImplementsLifecycle
  BY InitRefines, NextRefines, Invariance, PTL
  DEF Spec, ImplementsLifecycle, Lifecycle!LifecycleSpec
=============================================================================
