-------------------------- MODULE ServiceLifecycle --------------------------
(***************************************************************************)
(* What a DenseCloud runtime promises its embedder, with every thread,     *)
(* lock and transport left out: a service is advertised at most once,      *)
(* never again after its shutdown began, and each of its cleanup hooks     *)
(* runs once, in order, after shutdown began and before it is stopped.     *)
(* GRPCRuntime implements this specification (GRPCRuntime!Lifecycle).      *)
(***************************************************************************)
EXTENDS Naturals

CONSTANT NHooks     \* the number of cleanup hooks

VARIABLES
    phase,          \* "Starting", "Serving", "ShuttingDown" or "Stopped"
    cleaned         \* how many cleanup hooks have run

lifecycleVars == <<phase, cleaned>>

LifecycleInit == phase = "Starting" /\ cleaned = 0

\* The startup hooks succeeded and the service advertises itself.
Advertise ==
    /\ phase = "Starting"
    /\ phase' = "Serving"
    /\ UNCHANGED cleaned

\* Shutdown begins, from a running service or during its startup.
BeginShutdown ==
    /\ phase \in {"Starting", "Serving"}
    /\ phase' = "ShuttingDown"
    /\ UNCHANGED cleaned

\* The next cleanup hook runs to its end.
RunCleanup ==
    /\ phase = "ShuttingDown"
    /\ cleaned < NHooks
    /\ cleaned' = cleaned + 1
    /\ UNCHANGED phase

\* All cleanup hooks have run.
FinishShutdown ==
    /\ phase = "ShuttingDown"
    /\ cleaned = NHooks
    /\ phase' = "Stopped"
    /\ UNCHANGED cleaned

LifecycleNext == Advertise \/ BeginShutdown \/ RunCleanup \/ FinishShutdown

LifecycleSpec == LifecycleInit /\ [][LifecycleNext]_lifecycleVars
=============================================================================
