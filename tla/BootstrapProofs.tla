-------------------------- MODULE BootstrapProofs --------------------------
(***************************************************************************)
(* Proofs about the tracing globals and the assembly of HTTP runtimes, for *)
(* any number of services and extensions.                                  *)
(***************************************************************************)
EXTENDS Bootstrap, TLAPS

-----------------------------------------------------------------------------
(* The inductive invariant of the tracing globals. *)

\* The mutex is held in the middle of Init and of the restore, and only there.
MutexInv ==
    \A p \in Providers :
        pc[p] \in {"locked", "installed", "restoring"} <=> otelGlobalMu = p

\* Ranks are given once, in order, and to installed providers only.
RankInv ==
    /\ \A p \in Providers : rank[p] <= installs
    /\ \A p \in Providers : rank[p] = 0 <=> pc[p] \in {"new", "created", "off"}
    /\ \A p, q \in Providers : rank[p] = rank[q] /\ rank[p] # 0 => p = q
    /\ tracerProvider # Default => rank[tracerProvider] # 0
    /\ \A p \in Providers : previousProvider[p] # Default => rank[previousProvider[p]] # 0

\* Who holds the mutex is newer than every provider in use.
HolderInv ==
    \A p \in Providers :
        /\ pc[p] \in {"locked", "installed"} => rank[p] = installs
        /\ pc[p] = "installed" => tracerProvider = p
        /\ pc[p] = "restoring" =>
              /\ tracerProvider = previousProvider[p]
              /\ \A q \in Live : rank[q] < rank[p]

\* What an installed provider found was not older than any provider in use then.
ChainInv ==
    \A p \in Live, q \in Providers :
        rank[p] < rank[q] =>
            rank[p] <= Rank(previousProvider[q]) /\ previousPropagator[q] # "none"

DisplaceInv ==
    /\ TracerTypeOK /\ MutexInv /\ RankInv /\ HolderInv /\ ChainInv
    /\ InUseNotDisplaced

Below(p) == {q \in Live : rank[q] < rank[p]}

\* In nested use every provider remembers the newest one below it.
NestInv ==
    /\ nested => \A p \in Providers :
          Installing(p) => Shows(previousProvider[p], previousPropagator[p], Below(p))
    /\ NestedShutdownRestores

-----------------------------------------------------------------------------
\* At the start nothing is installed.
LEMMA DisplaceStart == TracerInit => DisplaceInv
  <1> SUFFICES ASSUME TracerInit PROVE DisplaceInv
    OBVIOUS
  <1>1. TracerTypeOK
    BY DEF TracerInit, TracerTypeOK, Unlocked, Propagators, Stages
  <1>2. Live = {} /\ MutexInv /\ RankInv
    BY DefaultAssumption DEF TracerInit, MutexInv, RankInv, Live, Unlocked
  <1>3. HolderInv /\ ChainInv /\ InUseNotDisplaced
    BY <1>2 DEF TracerInit, HolderInv, ChainInv, InUseNotDisplaced
  <1> QED BY <1>1, <1>2, <1>3 DEF DisplaceInv

\* The variables keep their types.
LEMMA TypeStep == TracerTypeOK /\ [TracerNext]_tracerVars => TracerTypeOK'
  <1> SUFFICES ASSUME TracerTypeOK, [TracerNext]_tracerVars PROVE TracerTypeOK'
    OBVIOUS
  <1> USE DEF TracerTypeOK, Goto, globalVars, providerVars, historyVars, Propagators, Stages, Unlocked
  <1>1. CASE InitOTelPropagator
    BY <1>1 DEF InitOTelPropagator
  <1>2. ASSUME NEW p \in Providers, InitOTelTracer(p) PROVE TracerTypeOK'
    BY <1>2 DEF InitOTelTracer
  <1>3. ASSUME NEW p \in Providers, ReadPrevious(p) PROVE TracerTypeOK'
    BY <1>3 DEF ReadPrevious
  <1>4. ASSUME NEW p \in Providers, SetTracerProvider(p) PROVE TracerTypeOK'
    BY <1>4 DEF SetTracerProvider
  <1>5. ASSUME NEW p \in Providers, SetTextMapPropagator(p) PROVE TracerTypeOK'
    BY <1>5 DEF SetTextMapPropagator
  <1>6. ASSUME NEW p \in Providers, Shutdown(p) PROVE TracerTypeOK'
    BY <1>6 DEF Shutdown
  <1>7. ASSUME NEW p \in Providers, RestoreProvider(p) PROVE TracerTypeOK'
    BY <1>7 DEF RestoreProvider
  <1>8. ASSUME NEW p \in Providers, RestorePropagator(p) PROVE TracerTypeOK'
    BY <1>8 DEF RestorePropagator
  <1>9. CASE UNCHANGED tracerVars
    BY <1>9 DEF tracerVars
  <1> QED
    BY <1>1, <1>2, <1>3, <1>4, <1>5, <1>6, <1>7, <1>8, <1>9 DEF TracerNext, TracerStep

\* Every step of InitOTelTracer, Shutdown and InitOTelPropagator preserves it.
LEMMA DisplaceStep == DisplaceInv /\ [TracerNext]_tracerVars => DisplaceInv'
  <1> SUFFICES ASSUME DisplaceInv, [TracerNext]_tracerVars PROVE DisplaceInv'
    OBVIOUS
  <1> USE DefaultAssumption
  <1>t. TracerTypeOK'
    BY TypeStep DEF DisplaceInv
  <1>1. CASE InitOTelPropagator
    BY <1>1, <1>t DEF DisplaceInv, InitOTelPropagator, providerVars, MutexInv, RankInv, HolderInv, ChainInv,
       InUseNotDisplaced, Live, Rank
  <1>2. ASSUME NEW p \in Providers, InitOTelTracer(p) PROVE DisplaceInv'
    BY <1>2, <1>t DEF DisplaceInv, InitOTelTracer, Goto, globalVars, historyVars, TracerTypeOK, MutexInv,
       RankInv, HolderInv, ChainInv, InUseNotDisplaced, Live, Rank
  <1>3. ASSUME NEW p \in Providers, ReadPrevious(p) PROVE DisplaceInv'
    <2> USE <1>3 DEF ReadPrevious, Goto
    <2>1. Live' = Live /\ tracerProvider # p /\ \A q \in Live : q # p
      BY DEF DisplaceInv, TracerTypeOK, Live, RankInv, LockFree
    <2> QED
      BY <1>t DEF DisplaceInv, TracerTypeOK, LockFree, Unlocked, MutexInv,
         RankInv, HolderInv, ChainInv, InUseNotDisplaced, Live, Rank
  <1>4. ASSUME NEW p \in Providers, SetTracerProvider(p) PROVE DisplaceInv'
    BY <1>4, <1>t DEF DisplaceInv, SetTracerProvider, Goto, historyVars, TracerTypeOK, MutexInv,
       RankInv, HolderInv, ChainInv, InUseNotDisplaced, Live, Rank
  <1>5. ASSUME NEW p \in Providers, SetTextMapPropagator(p) PROVE DisplaceInv'
    BY <1>5, <1>t DEF DisplaceInv, SetTextMapPropagator, Goto, historyVars, TracerTypeOK, Unlocked, MutexInv,
       RankInv, HolderInv, ChainInv, InUseNotDisplaced, Live, Rank
  <1>6. ASSUME NEW p \in Providers, Shutdown(p) PROVE DisplaceInv'
    BY <1>6, <1>t DEF DisplaceInv, Shutdown, Goto, globalVars, historyVars, TracerTypeOK, MutexInv,
       RankInv, HolderInv, ChainInv, InUseNotDisplaced, Live, Rank
  <1>7. ASSUME NEW p \in Providers, RestoreProvider(p) PROVE DisplaceInv'
    BY <1>7, <1>t DEF DisplaceInv, RestoreProvider, StillGlobal, LockFree, Unlocked, Goto, TracerTypeOK, MutexInv,
       RankInv, HolderInv, ChainInv, InUseNotDisplaced, Live, Rank
  <1>8. ASSUME NEW p \in Providers, RestorePropagator(p) PROVE DisplaceInv'
    BY <1>8, <1>t DEF DisplaceInv, RestorePropagator, Goto, historyVars, TracerTypeOK, Unlocked, MutexInv,
       RankInv, HolderInv, ChainInv, InUseNotDisplaced, Live, Rank
  <1>9. CASE UNCHANGED tracerVars
    BY <1>9, <1>t DEF DisplaceInv, tracerVars, globalVars, providerVars, historyVars, MutexInv, RankInv,
       HolderInv, ChainInv, InUseNotDisplaced, Live, Rank
  <1> QED
    BY <1>1, <1>2, <1>3, <1>4, <1>5, <1>6, <1>7, <1>8, <1>9 DEF TracerNext, TracerStep

-----------------------------------------------------------------------------
(* Nested use. *)

\* At the start nothing is installed.
LEMMA NestStart == TracerInit => NestInv
  <1> SUFFICES ASSUME TracerInit PROVE NestInv
    OBVIOUS
  <1>1. Live = {} /\ \A p \in Providers : ~Installing(p)
    BY DEF TracerInit, Live, Installing
  <1> QED BY <1>1 DEF TracerInit, NestInv, NestedShutdownRestores, Shows

\* Every step preserves what nested providers remember.
LEMMA NestStep == DisplaceInv /\ DisplaceInv' /\ NestInv /\ [TracerNext]_tracerVars => NestInv'
  <1> SUFFICES ASSUME DisplaceInv, DisplaceInv', NestInv, [TracerNext]_tracerVars PROVE NestInv'
    OBVIOUS
  <1> USE DefaultAssumption
  <1>1. CASE InitOTelPropagator
    <2>1. Live' = Live /\ \A p \in Providers : Installing(p)' = Installing(p) /\ Below(p)' = Below(p)
      BY <1>1 DEF InitOTelPropagator, Live, Installing, Below, providerVars
    <2>2. CASE late'
      BY <1>1, <2>1, <2>2 DEF InitOTelPropagator, providerVars, NestInv, NestedShutdownRestores, Shows
    <2>3. CASE ~late'
      <3>1. Live = {} /\ \A p \in Providers : ~Installing(p)
        BY <1>1, <2>3 DEF InitOTelPropagator, Live, Installing
      <3> QED
        BY <1>1, <2>1, <3>1 DEF InitOTelPropagator, NestInv, NestedShutdownRestores, Shows
    <2> QED BY <2>2, <2>3
  <1>2. ASSUME NEW p \in Providers, InitOTelTracer(p) \/ Shutdown(p) \/ SetTracerProvider(p) PROVE NestInv'
    <2>1. Live' = Live /\ \A q \in Providers : Installing(q)' = Installing(q) /\ Below(q)' = Below(q)
      BY <1>2 DEF InitOTelTracer, Shutdown, SetTracerProvider, Goto, historyVars, DisplaceInv, TracerTypeOK,
         Live, Installing, Below
    <2> QED
      BY <1>2, <2>1 DEF InitOTelTracer, Shutdown, SetTracerProvider, Goto, globalVars, historyVars,
         DisplaceInv, MutexInv, Unlocked, NestInv, NestedShutdownRestores, Shows
  <1>3. ASSUME NEW p \in Providers, ReadPrevious(p) PROVE NestInv'
    <2>1. Live' = Live /\ Below(p)' = Live
      BY <1>3 DEF ReadPrevious, Goto, DisplaceInv, TracerTypeOK, RankInv, Live, Below
    <2>2. \A q \in Providers : q # p => Installing(q)' = Installing(q) /\ Below(q)' = Below(q)
      BY <1>3, <2>1 DEF ReadPrevious, Goto, DisplaceInv, TracerTypeOK, Live, Installing, Below
    <2>3. \A q \in Live : rank'[q] = rank[q] /\ q # p
      BY <1>3 DEF ReadPrevious, DisplaceInv, TracerTypeOK, Live
    <2>4. nested => Shows(tracerProvider, propagator, Live)
      BY <1>3 DEF ReadPrevious, LockFree, NestInv, NestedShutdownRestores
    <2>5. nested' => Shows(previousProvider[p], previousPropagator[p], Below(p))'
      BY <1>3, <2>1, <2>3, <2>4 DEF ReadPrevious, DisplaceInv, TracerTypeOK, Shows
    <2>6. ASSUME NEW q \in Providers, q # p, nested', Installing(q)'
          PROVE  Shows(previousProvider[q], previousPropagator[q], Below(q))'
      BY <1>3, <2>2, <2>3, <2>6 DEF ReadPrevious, DisplaceInv, TracerTypeOK, NestInv, Shows, Below
    <2>7. otelGlobalMu' # Unlocked
      BY <1>3 DEF ReadPrevious, Unlocked
    <2> QED BY <2>5, <2>6, <2>7 DEF NestInv, NestedShutdownRestores, Unlocked
  <1>4. ASSUME NEW p \in Providers, SetTextMapPropagator(p) PROVE NestInv'
    <2>1. Live' = Live \cup {p}
      BY <1>4 DEF SetTextMapPropagator, Goto, DisplaceInv, TracerTypeOK, Live
    <2>2. \A q \in Providers : Installing(q)' = Installing(q) /\ rank[q] <= rank[p]
      BY <1>4 DEF SetTextMapPropagator, Goto, DisplaceInv, TracerTypeOK, RankInv, HolderInv, Installing
    <2>3. \A q \in Providers : Below(q)' = Below(q)
      BY <1>4, <2>1, <2>2 DEF SetTextMapPropagator, historyVars, Below, DisplaceInv, TracerTypeOK
    <2>4. Shows(tracerProvider, propagator, Live)'
      BY <1>4, <2>1, <2>2 DEF SetTextMapPropagator, historyVars, DisplaceInv, HolderInv, Live, Shows
    <2> QED
      BY <1>4, <2>2, <2>3, <2>4 DEF SetTextMapPropagator, historyVars, NestInv, NestedShutdownRestores, Shows
  <1>5. ASSUME NEW p \in Providers, RestoreProvider(p) PROVE NestInv'
    <2> SUFFICES ASSUME nested' PROVE NestInv'
      BY DEF NestInv, NestedShutdownRestores
    <2>1. nested /\ p \in Live /\ \A q \in Live : rank[q] <= rank[p]
      BY <1>5 DEF RestoreProvider, Live
    <2>2. tracerProvider = p
      BY <1>5, <2>1 DEF RestoreProvider, LockFree, NestInv, NestedShutdownRestores, Shows, DisplaceInv,
         RankInv, TracerTypeOK, Live
    <2>3. Live' = Live \ {p} /\ otelGlobalMu' # Unlocked
      BY <1>5, <2>2 DEF RestoreProvider, StillGlobal, Goto, DisplaceInv, TracerTypeOK, Live, Unlocked
    <2>4. \A q \in Providers : Installing(q) => q \in Live
      BY <1>5 DEF RestoreProvider, LockFree, Unlocked, DisplaceInv, MutexInv, Installing, Live
    <2>5. \A q \in Providers : Installing(q)' => Installing(q) /\ Below(q)' = Below(q)
      BY <1>5, <2>1, <2>3, <2>4 DEF RestoreProvider, StillGlobal, Goto, DisplaceInv, TracerTypeOK, Installing, Below
    <2> QED
      BY <1>5, <2>1, <2>3, <2>5 DEF RestoreProvider, NestInv, NestedShutdownRestores, Shows, Unlocked
  <1>6. ASSUME NEW p \in Providers, RestorePropagator(p) PROVE NestInv'
    <2>1. Live' = Live /\ Below(p) = Live /\ Installing(p)
      BY <1>6 DEF RestorePropagator, Goto, DisplaceInv, TracerTypeOK, HolderInv, Live, Below, Installing
    <2>2. \A q \in Providers : (Installing(q)' => Installing(q)) /\ Below(q)' = Below(q)
      BY <1>6, <2>1 DEF RestorePropagator, Goto, historyVars, DisplaceInv, TracerTypeOK, Installing, Below
    <2>3. nested => Shows(previousProvider[p], previousPropagator[p], Live)
      BY <2>1 DEF NestInv
    <2>4. nested' => Shows(tracerProvider, propagator, Live)'
      BY <1>6, <2>1, <2>3 DEF RestorePropagator, historyVars, DisplaceInv, HolderInv, Shows
    <2> QED
      BY <1>6, <2>2, <2>4 DEF RestorePropagator, historyVars, NestInv, NestedShutdownRestores, Shows
  <1>7. CASE UNCHANGED tracerVars
    BY <1>7 DEF tracerVars, globalVars, providerVars, historyVars, NestInv, NestedShutdownRestores, Shows,
       Installing, Below, Live
  <1> QED
    BY <1>1, <1>2, <1>3, <1>4, <1>5, <1>6, <1>7 DEF TracerNext, TracerStep

-----------------------------------------------------------------------------
(* The services. *)

\* Installing providers, assembling runtimes and registering extensions in one
\* process is, as far as the tracing globals go, installing providers.
THEOREM BootstrapRefinesTracer == Spec => TracerSpec
  <1>1. Init => TracerInit
    BY DEF Init
  <1>2. [Next]_vars => [TracerNext]_tracerVars
    BY DEF Next, vars, TracerNext, RegisterRuntimeExtension, RuntimeExtensions, Tracer, Propagator, Assembling
  <1> QED BY <1>1, <1>2, PTL DEF Spec, TracerSpec

\* The invariants of the tracing globals hold while services come and go.
LEMMA TracerInvariants == Spec => [](DisplaceInv /\ NestInv)
  <1>1. TracerSpec => []DisplaceInv
    BY DisplaceStart, DisplaceStep, PTL DEF TracerSpec
  <1>2. TracerSpec => []NestInv
    BY <1>1, NestStart, NestStep, PTL DEF TracerSpec
  <1> QED BY <1>1, <1>2, BootstrapRefinesTracer, PTL

\* A provider in use is displaced only by a newer one, and its process propagates
\* trace context: the compare-and-restore of Shutdown, for any number of services.
THEOREM InUseKept == Spec => []InUseNotDisplaced
  BY TracerInvariants, PTL DEF DisplaceInv

\* Providers shut down newest first leave the globals as they were before.
THEOREM NestedRestore == Spec => []NestedShutdownRestores
  BY TracerInvariants, PTL DEF NestInv

\* The variables keep their types.
BootInv ==
    /\ extensions \in Seq(Extensions)
    /\ stage \in [Providers -> {"none", "tracer", "propagator", "assembled"}]
    /\ runtime \in [Providers -> [extensions : Seq(Extensions),
                                  tracer     : Providers \cup {Default},
                                  propagator : Propagators]]

\* Every step keeps the types.
LEMMA BootTypeStep == BootInv /\ TracerTypeOK /\ [Next]_vars => BootInv'
  <1> SUFFICES ASSUME BootInv, TracerTypeOK, [Next]_vars PROVE BootInv'
    OBVIOUS
  <1>1. CASE UNCHANGED bootVars
    BY <1>1 DEF BootInv, bootVars
  <1>2. ASSUME NEW e \in Extensions, RegisterRuntimeExtension(e) PROVE BootInv'
    <2>1. extensions' = Append(extensions, e) /\ UNCHANGED <<stage, runtime>>
      BY <1>2 DEF RegisterRuntimeExtension
    <2>2. Append(extensions, e) \in Seq(Extensions)
      <3>1. extensions \in Seq(Extensions)
        BY DEF BootInv
      <3> QED BY <3>1
    <2> QED BY <2>1, <2>2 DEF BootInv
  <1>3. ASSUME NEW s \in Providers, RuntimeExtensions(s) PROVE BootInv'
    <2>1. stage' = [stage EXCEPT ![s] = "tracer"] /\ UNCHANGED extensions
      BY <1>3 DEF RuntimeExtensions, Assembling
    <2>2. runtime' = runtime \/ runtime' = [runtime EXCEPT ![s].extensions = extensions]
      BY <1>3 DEF RuntimeExtensions
    <2> QED BY <2>1, <2>2 DEF BootInv
  <1>4. ASSUME NEW s \in Providers, Tracer(s) PROVE BootInv'
    BY <1>4 DEF BootInv, Tracer, Captured, Assembling, TracerTypeOK
  <1>5. ASSUME NEW s \in Providers, Propagator(s) PROVE BootInv'
    BY <1>5 DEF BootInv, Propagator, Assembling, TracerTypeOK
  <1> QED BY <1>1, <1>2, <1>3, <1>4, <1>5 DEF Next, vars, bootVars

\* The types of the whole composition.
THEOREM BootTypeCorrect == Spec => []BootTypeOK
  <1>1. Init => BootInv
    BY DEF Init, BootInv, Propagators
  <1>2. Spec => []TracerTypeOK
    BY TracerInvariants, PTL DEF DisplaceInv
  <1>3. Spec => []BootInv
    BY <1>1, <1>2, BootTypeStep, PTL DEF Spec
  <1>4. BootInv /\ TracerTypeOK => BootTypeOK
    BY DEF BootInv, BootTypeOK
  <1> QED BY <1>2, <1>3, <1>4, PTL

-----------------------------------------------------------------------------
(* What an assembled runtime has taken. *)

\* A service assembles after its provider is up, and the tracer it takes has been
\* installed, so ranks it is compared by do not change any more.
TracedInv ==
    \A s \in Providers :
        /\ stage[s] # "none" => pc[s] \notin {"new", "created", "locked", "installed"}
        /\ stage[s] \in {"tracer", "propagator"} => pc[s] \in {"up", "off"}
        /\ runtime[s].tracer # Default => rank[runtime[s].tracer] # 0
        /\ stage[s] \in {"propagator", "assembled"} => rank[s] <= Rank(runtime[s].tracer)
        /\ stage[s] = "assembled" /\ rank[s] # 0 => runtime[s].propagator # "none"

\* A step of the globals changes no rank of an installed provider.
LEMMA RanksStay ==
  ASSUME DisplaceInv, [TracerNext]_tracerVars, NEW p \in Providers, rank[p] # 0 \/ pc[p] = "off"
  PROVE  rank'[p] = rank[p]
  <1>1. CASE InitOTelPropagator
    BY <1>1 DEF InitOTelPropagator
  <1>2. ASSUME NEW q \in Providers, ReadPrevious(q) PROVE rank'[p] = rank[p]
    BY <1>2 DEF ReadPrevious, DisplaceInv, TracerTypeOK, RankInv
  <1>3. ASSUME NEW q \in Providers, TracerStep(q), ~ReadPrevious(q) PROVE rank'[p] = rank[p]
    BY <1>3 DEF TracerStep, InitOTelTracer, SetTracerProvider, SetTextMapPropagator, Shutdown, RestoreProvider,
       RestorePropagator, historyVars
  <1>4. CASE UNCHANGED tracerVars
    BY <1>4 DEF tracerVars, historyVars
  <1> QED BY <1>1, <1>2, <1>3, <1>4 DEF TracerNext

\* A step of the globals preserves what the runtimes have taken, unless it shuts
\* down the provider of a service that is assembling.
LEMMA TracedByGlobals ==
  ASSUME DisplaceInv, BootInv, TracedInv, UNCHANGED bootVars,
         InitOTelPropagator \/ \E s \in Providers :
            TracerStep(s) /\ (Shutdown(s) => stage[s] \in {"none", "assembled"})
  PROVE  TracedInv'
  <1>1. [TracerNext]_tracerVars
    BY DEF TracerNext
  <1>2. SUFFICES ASSUME NEW s \in Providers PROVE
        /\ stage[s] # "none" => pc'[s] \notin {"new", "created", "locked", "installed"}
        /\ stage[s] \in {"tracer", "propagator"} => pc'[s] \in {"up", "off"}
        /\ runtime[s].tracer # Default => rank'[runtime[s].tracer] # 0
        /\ stage[s] \in {"propagator", "assembled"} => rank'[s] <= Rank(runtime[s].tracer)'
        /\ stage[s] = "assembled" /\ rank'[s] # 0 => runtime[s].propagator # "none"
    BY DEF TracedInv, bootVars
  <1>3. stage[s] # "none" => rank'[s] = rank[s]
    BY <1>1, RanksStay DEF TracedInv, DisplaceInv, RankInv, TracerTypeOK
  <1>4. runtime[s].tracer # Default => rank'[runtime[s].tracer] = rank[runtime[s].tracer]
    BY <1>1, RanksStay DEF TracedInv, BootInv
  <1>5. stage[s] # "none" => pc'[s] \notin {"new", "created", "locked", "installed"}
    BY DEF TracedInv, DisplaceInv, TracerTypeOK, TracerStep, InitOTelTracer, ReadPrevious, SetTracerProvider,
       SetTextMapPropagator, Shutdown, RestoreProvider, RestorePropagator, Goto, InitOTelPropagator, providerVars
  <1>6. stage[s] \in {"tracer", "propagator"} => pc'[s] \in {"up", "off"}
    BY DEF TracedInv, DisplaceInv, TracerTypeOK, TracerStep, InitOTelTracer, ReadPrevious, SetTracerProvider,
       SetTextMapPropagator, Shutdown, RestoreProvider, RestorePropagator, Goto, InitOTelPropagator, providerVars
  <1> QED
    BY <1>3, <1>4, <1>5, <1>6 DEF TracedInv, bootVars, Rank

\* Every step of a service preserves what the runtimes have taken.
LEMMA TracedStep == DisplaceInv /\ BootInv /\ TracedInv /\ [Next]_vars => TracedInv'
  <1> SUFFICES ASSUME DisplaceInv, BootInv, TracedInv, [Next]_vars PROVE TracedInv'
    OBVIOUS
  <1>1. ASSUME UNCHANGED bootVars,
               InitOTelPropagator \/ \E s \in Providers :
                  TracerStep(s) /\ (Shutdown(s) => stage[s] \in {"none", "assembled"})
        PROVE  TracedInv'
    BY <1>1, TracedByGlobals
  <1>2. ASSUME NEW e \in Extensions, RegisterRuntimeExtension(e) PROVE TracedInv'
    BY <1>2 DEF RegisterRuntimeExtension, tracerVars, providerVars, historyVars, TracedInv, Rank
  <1>3. ASSUME NEW s \in Providers, RuntimeExtensions(s) PROVE TracedInv'
    <2>1. /\ pc[s] \in {"up", "off"} /\ stage[s] = "none" /\ stage' = [stage EXCEPT ![s] = "tracer"]
          /\ pc' = pc /\ rank' = rank
      BY <1>3 DEF RuntimeExtensions, Assembling, tracerVars, providerVars, historyVars
    <2>2. \A t \in Providers : runtime'[t].tracer = runtime[t].tracer
                               /\ runtime'[t].propagator = runtime[t].propagator
      <3>1. runtime' = runtime \/ runtime' = [runtime EXCEPT ![s].extensions = extensions]
        BY <1>3 DEF RuntimeExtensions
      <3> QED BY <3>1 DEF BootInv
    <2> QED BY <2>1, <2>2 DEF TracedInv, Rank, BootInv
  <1>4. ASSUME NEW s \in Providers, Tracer(s) PROVE TracedInv'
    <2>1. /\ pc[s] \in {"up", "off"} /\ stage' = [stage EXCEPT ![s] = "propagator"]
          /\ pc' = pc /\ rank' = rank
          /\ runtime' = [runtime EXCEPT ![s].tracer = tracerProvider]
      BY <1>4 DEF Tracer, Captured, Assembling, tracerVars, providerVars, historyVars
    <2>2. rank[s] <= Rank(tracerProvider) /\ (tracerProvider # Default => rank[tracerProvider] # 0)
      BY <2>1 DEF DisplaceInv, RankInv, InUseNotDisplaced, Live, Rank, TracerTypeOK
    <2> QED BY <2>1, <2>2 DEF TracedInv, Rank, BootInv
  <1>5. ASSUME NEW s \in Providers, Propagator(s) PROVE TracedInv'
    <2>1. /\ pc[s] \in {"up", "off"} /\ stage[s] = "propagator" /\ stage' = [stage EXCEPT ![s] = "assembled"]
          /\ pc' = pc /\ rank' = rank
          /\ runtime' = [runtime EXCEPT ![s].propagator = propagator]
      BY <1>5 DEF Propagator, Assembling, tracerVars, providerVars, historyVars
    <2>2. rank[s] # 0 => propagator # "none"
      BY <2>1 DEF DisplaceInv, RankInv, InUseNotDisplaced, Live
    <2> QED BY <2>1, <2>2 DEF TracedInv, Rank, BootInv
  <1>6. CASE UNCHANGED vars
    BY <1>6 DEF vars, tracerVars, providerVars, historyVars, bootVars, TracedInv, Rank
  <1> QED BY <1>1, <1>2, <1>3, <1>4, <1>5, <1>6 DEF Next

\* A runtime traces with its service's provider or a newer one and propagates
\* trace context, although it reads the globals one by one and without the mutex.
THEOREM RuntimesTraced == Spec => []RuntimeIsTraced
  <1>1. Init => TracedInv
    <2> SUFFICES ASSUME Init, NEW s \in Providers
                 PROVE  stage[s] = "none" /\ runtime[s].tracer = Default
      BY DEF TracedInv
    <2> QED BY DEF Init
  <1>2. Spec => []DisplaceInv
    BY TracerInvariants, PTL
  <1>3. Spec => []BootInv
    BY BootTypeCorrect, PTL DEF BootTypeOK, BootInv
  <1>4. Spec => []TracedInv
    BY <1>1, <1>2, <1>3, TracedStep, PTL DEF Spec
  <1>5. TracedInv => RuntimeIsTraced
    BY DEF TracedInv, RuntimeIsTraced
  <1> QED BY <1>4, <1>5, PTL

-----------------------------------------------------------------------------
(* Extensions. *)

\* Sequence x has the elements of sequence y as far as it goes.
Agrees(x, y) == Len(x) <= Len(y) /\ \A i \in 1..Len(x) : x[i] = y[i]

\* Every snapshot agrees with the registry, which has no name twice.
RegistryInv ==
    /\ \A i, j \in 1..Len(extensions) : extensions[i].name = extensions[j].name => i = j
    /\ \A s \in Providers : Agrees(runtime[s].extensions, extensions)

\* Registering appends, so earlier snapshots go on agreeing.
LEMMA RegistryStep == BootInv /\ RegistryInv /\ [Next]_vars => RegistryInv'
  <1> SUFFICES ASSUME BootInv, RegistryInv, [Next]_vars PROVE RegistryInv'
    OBVIOUS
  <1>1. CASE UNCHANGED bootVars
    BY <1>1 DEF RegistryInv, bootVars
  <1>2. ASSUME NEW e \in Extensions, RegisterRuntimeExtension(e) PROVE RegistryInv'
    <2> DEFINE n == Len(extensions)
    <2>0. extensions \in Seq(Extensions) /\ n \in Nat /\ DOMAIN extensions = 1..n
      <3>1. extensions \in Seq(Extensions)
        BY DEF BootInv
      <3> QED BY <3>1
    <2>1. /\ extensions' = Append(extensions, e) /\ UNCHANGED runtime
          /\ \A i \in 1..n : extensions[i].name # e.name
      BY <1>2, <2>0 DEF RegisterRuntimeExtension
    <2>2. Len(extensions') = n + 1 /\ extensions'[n + 1] = e /\ \A i \in 1..n : extensions'[i] = extensions[i]
      BY <2>0, <2>1
    <2>3. \A i, j \in 1..(n + 1) : extensions'[i].name = extensions'[j].name => i = j
      <3> SUFFICES ASSUME NEW i \in 1..(n + 1), NEW j \in 1..(n + 1),
                          extensions'[i].name = extensions'[j].name
                   PROVE  i = j
        OBVIOUS
      <3>1. CASE i \in 1..n /\ j \in 1..n
        BY <2>2, <3>1 DEF RegistryInv
      <3>2. CASE i = n + 1 /\ j \in 1..n
        BY <2>1, <2>2, <3>2
      <3>3. CASE i \in 1..n /\ j = n + 1
        BY <2>1, <2>2, <3>3
      <3> QED BY <2>0, <3>1, <3>2, <3>3
    <2>4. ASSUME NEW s \in Providers PROVE Agrees(runtime[s].extensions, extensions')
      <3>1. runtime[s].extensions \in Seq(Extensions) /\ Agrees(runtime[s].extensions, extensions)
        BY DEF BootInv, RegistryInv
      <3>2. Len(runtime[s].extensions) \in Nat
        BY <3>1
      <3> QED BY <2>0, <2>2, <3>1, <3>2 DEF Agrees
    <2> QED BY <2>1, <2>2, <2>3, <2>4 DEF RegistryInv
  <1>3. ASSUME NEW s \in Providers, RuntimeExtensions(s) PROVE RegistryInv'
    <2>1. UNCHANGED extensions /\ extensions \in Seq(Extensions)
      BY <1>3 DEF RuntimeExtensions, Assembling, BootInv
    <2>2. runtime' = runtime \/ runtime' = [runtime EXCEPT ![s].extensions = extensions]
      BY <1>3 DEF RuntimeExtensions
    <2>3. \A t \in Providers : \/ runtime'[t].extensions = runtime[t].extensions
                               \/ runtime'[t].extensions = extensions
      BY <2>2 DEF BootInv
    <2>4. Agrees(extensions, extensions)
      BY <2>1 DEF Agrees
    <2> QED BY <2>1, <2>3, <2>4 DEF RegistryInv
  <1>4. ASSUME NEW s \in Providers, Tracer(s) \/ Propagator(s) PROVE RegistryInv'
    <2>1. UNCHANGED extensions /\ \A t \in Providers : runtime'[t].extensions = runtime[t].extensions
      BY <1>4 DEF Tracer, Propagator, Assembling, BootInv
    <2> QED BY <2>1 DEF RegistryInv
  <1> QED BY <1>1, <1>2, <1>3, <1>4 DEF Next, vars, bootVars

\* Of two sequences that agree with a third the shorter is a prefix of the longer.
LEMMA AgreeingPrefix ==
  ASSUME NEW S, NEW x \in Seq(S), NEW y \in Seq(S), NEW z, Agrees(x, z), Agrees(y, z), Len(x) <= Len(y)
  PROVE  IsPrefix(x, y)
  <1>1. Len(x) \in Nat /\ Len(y) \in Nat
    OBVIOUS
  <1>2. \A i \in 1..Len(x) : x[i] = y[i]
    BY <1>1 DEF Agrees
  <1>3. SubSeq(x, 1, Len(x)) = SubSeq(y, 1, Len(x))
    BY <1>1, <1>2
  <1> QED BY <1>3 DEF IsPrefix

\* No runtime has two extensions of a name, and any two run the same extensions
\* in the same order, whatever is registered meanwhile.
THEOREM ExtensionsAgree == Spec => []RuntimesAgreeOnExtensions
  <1>1. Init => RegistryInv
    <2> SUFFICES ASSUME Init PROVE RegistryInv
      OBVIOUS
    <2>1. extensions = <<>> /\ \A s \in Providers : runtime[s].extensions = <<>>
      BY DEF Init
    <2> QED BY <2>1 DEF RegistryInv, Agrees
  <1>2. Spec => []BootInv
    BY BootTypeCorrect, PTL DEF BootTypeOK, BootInv
  <1>3. Spec => []RegistryInv
    BY <1>1, <1>2, RegistryStep, PTL DEF Spec
  <1>4. BootInv /\ RegistryInv => RuntimesAgreeOnExtensions
    <2> SUFFICES ASSUME BootInv, RegistryInv, NEW s \in Providers, NEW t \in Providers
                 PROVE  /\ IsInjective([i \in DOMAIN runtime[s].extensions |-> runtime[s].extensions[i].name])
                        /\ \/ IsPrefix(runtime[s].extensions, runtime[t].extensions)
                           \/ IsPrefix(runtime[t].extensions, runtime[s].extensions)
      BY DEF RuntimesAgreeOnExtensions
    <2> DEFINE x == runtime[s].extensions
               y == runtime[t].extensions
    <2>1. x \in Seq(Extensions) /\ y \in Seq(Extensions) /\ extensions \in Seq(Extensions)
      BY DEF BootInv
    <2>2. Agrees(x, extensions) /\ Agrees(y, extensions)
      BY DEF RegistryInv
    <2> HIDE DEF x, y
    <2>3. DOMAIN x = 1..Len(x) /\ Len(x) \in Nat /\ Len(y) \in Nat /\ Len(extensions) \in Nat
      BY <2>1
    <2>4. \A i, j \in 1..Len(x) : x[i].name = x[j].name => i = j
      BY <2>2, <2>3 DEF Agrees, RegistryInv
    <2>5. IsInjective([i \in DOMAIN x |-> x[i].name])
      BY <2>3, <2>4 DEF IsInjective
    <2>6. IsPrefix(x, y) \/ IsPrefix(y, x)
      BY <2>1, <2>2, <2>3, AgreeingPrefix
    <2> QED BY <2>5, <2>6 DEF x, y
  <1> QED BY <1>2, <1>3, <1>4, PTL
=============================================================================
