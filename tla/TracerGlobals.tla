--------------------------- MODULE TracerGlobals ---------------------------
(***************************************************************************)
(* The process-global tracer provider and propagator of OpenTelemetry as   *)
(* go/telemetry/otel.go changes them: InitOTelTracer installs a provider   *)
(* and remembers what it found, Shutdown puts that back if the provider    *)
(* is still the global one.  Both hold otelGlobalMu over their reads and   *)
(* writes; InitOTelPropagator (go/middleware/tracing.go) and the readers   *)
(* of the globals do not.                                                  *)
(***************************************************************************)
EXTENDS Naturals

CONSTANTS
    Providers,  \* the provider of each call of InitOTelTracer
    Default     \* the provider of a process that has installed none

ASSUME DefaultAssumption == Default \notin Providers

VARIABLES
    tracerProvider,     \* otel.GetTracerProvider()
    propagator,         \* otel.GetTextMapPropagator()
    otelGlobalMu,       \* the provider whose caller holds it, or Default
    pc,                 \* where each provider's Init and Shutdown are
    previousProvider,   \* OTelProvider.previousProvider
    previousPropagator, \* OTelProvider.previousPropagator
    installs,           \* history: how many providers have been installed
    rank,               \* history: the provider was installed as the how-manieth
    app,                \* history: the propagator the application has set
    late,               \* history: it set it while a provider was installed
    nested              \* history: every Shutdown was the newest provider's

globalVars   == <<tracerProvider, propagator, otelGlobalMu>>
providerVars == <<pc, previousProvider, previousPropagator>>
historyVars  == <<installs, rank, app, late, nested>>
tracerVars   == <<globalVars, providerVars, historyVars>>

\* The no-op default, InitOTelPropagator's and InitOTelTracer's.
Propagators == {"none", "TraceContext", "TraceContext+Baggage"}

\* Unlocked is the mutex that nobody holds.
Unlocked == Default

Stages == {"new", "created", "locked", "installed", "up", "closed", "restoring", "down", "off"}

TracerTypeOK ==
    /\ tracerProvider \in Providers \cup {Default}
    /\ propagator \in Propagators
    /\ otelGlobalMu \in Providers \cup {Unlocked}
    /\ pc \in [Providers -> Stages]
    /\ previousProvider \in [Providers -> Providers \cup {Default}]
    /\ previousPropagator \in [Providers -> Propagators]
    /\ installs \in Nat
    /\ rank \in [Providers -> Nat]
    /\ app \in Propagators
    /\ late \in BOOLEAN /\ nested \in BOOLEAN

TracerInit ==
    /\ tracerProvider = Default
    /\ propagator = "none"
    /\ otelGlobalMu = Unlocked
    /\ pc = [p \in Providers |-> "new"]
    /\ previousProvider = [p \in Providers |-> Default]
    /\ previousPropagator = [p \in Providers |-> "none"]
    /\ installs = 0
    /\ rank = [p \in Providers |-> 0]
    /\ app = "none"
    /\ late = FALSE
    /\ nested = TRUE

-----------------------------------------------------------------------------
Goto(p, s) == pc' = [pc EXCEPT ![p] = s]

\* Mutant: the globals are changed without the mutex.
LockFree_always == TRUE

LockFree == otelGlobalMu = Unlocked

\* InitOTelTracer creates exporter, resource and provider; or tracing is
\* disabled, the endpoint refused or a step failed, and there is no provider.
InitOTelTracer(p) ==
    /\ pc[p] = "new"
    /\ Goto(p, "created") \/ Goto(p, "off")
    /\ UNCHANGED <<globalVars, previousProvider, previousPropagator, historyVars>>

\* It takes the mutex and reads both globals ...
ReadPrevious(p) ==
    /\ pc[p] = "created"
    /\ LockFree
    /\ otelGlobalMu' = p
    /\ previousProvider' = [previousProvider EXCEPT ![p] = tracerProvider]
    /\ previousPropagator' = [previousPropagator EXCEPT ![p] = propagator]
    /\ installs' = installs + 1
    /\ rank' = [rank EXCEPT ![p] = installs + 1]
    /\ Goto(p, "locked")
    /\ UNCHANGED <<tracerProvider, propagator, app, late, nested>>

\* ... sets the provider ...
SetTracerProvider(p) ==
    /\ pc[p] = "locked"
    /\ tracerProvider' = p
    /\ Goto(p, "installed")
    /\ UNCHANGED <<propagator, otelGlobalMu, previousProvider, previousPropagator, historyVars>>

\* ... sets the propagator, and releases the mutex.
SetTextMapPropagator(p) ==
    /\ pc[p] = "installed"
    /\ propagator' = "TraceContext+Baggage"
    /\ otelGlobalMu' = Unlocked
    /\ Goto(p, "up")
    /\ UNCHANGED <<tracerProvider, previousProvider, previousPropagator, historyVars>>

\* Between reading the previous globals and putting them back.
Installing(p) == pc[p] \in {"locked", "installed", "up", "closed", "restoring"}

\* The application sets its own propagator.
InitOTelPropagator ==
    /\ propagator' = "TraceContext"
    /\ app' = "TraceContext"
    /\ late' = (late \/ \E p \in Providers : Installing(p))
    /\ UNCHANGED <<tracerProvider, otelGlobalMu, providerVars, installs, rank, nested>>

-----------------------------------------------------------------------------
\* Shutdown, the function given to shutdownOnce: the provider flushes and closes,
\* with or without error, before the mutex is taken.
Shutdown(p) ==
    /\ pc[p] = "up"
    /\ Goto(p, "closed")
    /\ UNCHANGED <<globalVars, previousProvider, previousPropagator, historyVars>>

\* Providers installed and not yet shut down.
Live == {p \in Providers : pc[p] \in {"up", "closed"}}

\* Mutant: Shutdown restores whatever the global provider is.
StillGlobal_unchecked(p) == TRUE

StillGlobal(p) == tracerProvider = p

\* Then it puts back the previous provider, if its own is still the global one ...
RestoreProvider(p) ==
    /\ pc[p] = "closed"
    /\ LockFree
    /\ IF StillGlobal(p)
       THEN /\ otelGlobalMu' = p
            /\ tracerProvider' = previousProvider[p]
            /\ Goto(p, "restoring")
       ELSE /\ Goto(p, "down")
            /\ UNCHANGED <<otelGlobalMu, tracerProvider>>
    /\ nested' = (nested /\ \A q \in Live : rank[q] <= rank[p])
    /\ UNCHANGED <<propagator, previousProvider, previousPropagator, installs, rank, app, late>>

\* ... and the previous propagator.
RestorePropagator(p) ==
    /\ pc[p] = "restoring"
    /\ propagator' = previousPropagator[p]
    /\ otelGlobalMu' = Unlocked
    /\ Goto(p, "down")
    /\ UNCHANGED <<tracerProvider, previousProvider, previousPropagator, historyVars>>

TracerStep(p) ==
    \/ InitOTelTracer(p) \/ ReadPrevious(p) \/ SetTracerProvider(p) \/ SetTextMapPropagator(p)
    \/ Shutdown(p) \/ RestoreProvider(p) \/ RestorePropagator(p)

TracerNext == InitOTelPropagator \/ \E p \in Providers : TracerStep(p)

TracerSpec == TracerInit /\ [][TracerNext]_tracerVars

-----------------------------------------------------------------------------
\* The place of a global provider in the order of installation.
Rank(g) == IF g = Default THEN 0 ELSE rank[g]

\* A provider that is in use is displaced only by one installed after it, and
\* trace context is propagated, in whatever order the others come and go: no
\* Shutdown brings back what was there before a provider still in use.
InUseNotDisplaced ==
    \A p \in Live : rank[p] <= Rank(tracerProvider) /\ propagator # "none"

\* Provider g and propagator w are the newest of the providers in set B, or those
\* of a process without providers if it is empty.  (The application's propagator
\* is overwritten or lost if it was set between.)
Shows(g, w, B) ==
    \/ B = {} /\ g = Default /\ (late \/ w = app)
    \/ /\ g \in B
       /\ \A q \in B : rank[q] <= rank[g]
       /\ late \/ w = "TraceContext+Baggage"

\* If providers are shut down newest first, each Shutdown gives the process back
\* the provider and the propagator of the newest one still in use, and the last
\* one those the process had before.
NestedShutdownRestores ==
    nested /\ otelGlobalMu = Unlocked => Shows(tracerProvider, propagator, Live)
=============================================================================
