----------------------------- MODULE Bootstrap -----------------------------
(***************************************************************************)
(* Services that share a process start and end: each installs its tracer   *)
(* provider (TracerGlobals), assembles its HTTP runtime and later shuts    *)
(* the provider down.  The assembly, NewHTTPRuntime of                     *)
(* go/server/runtime.go, takes a snapshot of the extensions registered so  *)
(* far (go/server/extensions.go) and reads the tracing globals, once and   *)
(* in steps, while other modules register extensions and other services    *)
(* install and remove providers.                                           *)
(***************************************************************************)
EXTENDS TracerGlobals, Sequences, SequencesExt

CONSTANT
    Extensions  \* what may be registered: records with a name and a body

ASSUME ExtensionsAssumption == \A e \in Extensions : DOMAIN e = {"name", "body"}

VARIABLES
    extensions, \* the registered extensions, in order
    stage,      \* how far the assembly of each service is
    runtime     \* what each assembled runtime has taken: extensions, tracer, propagator

bootVars == <<extensions, stage, runtime>>
vars     == <<tracerVars, bootVars>>

BootTypeOK ==
    /\ TracerTypeOK
    /\ extensions \in Seq(Extensions)
    /\ stage \in [Providers -> {"none", "tracer", "propagator", "assembled"}]
    /\ runtime \in [Providers -> [extensions : Seq(Extensions),
                                  tracer     : Providers \cup {Default},
                                  propagator : Propagators]]

Init ==
    /\ TracerInit
    /\ extensions = <<>>
    /\ stage = [s \in Providers |-> "none"]
    /\ runtime = [s \in Providers |->
                    [extensions |-> <<>>, tracer |-> Default, propagator |-> "none"]]

\* Mutant: the extension registered last under a name replaces the earlier one.
RegisterRuntimeExtension_replaces(e) ==
    /\ e.name # ""
    /\ extensions' = Append(SelectSeq(extensions, LAMBDA x : x.name # e.name), e)
    /\ UNCHANGED <<tracerVars, stage, runtime>>

\* One critical section of extensionsMu; a name without text is ignored, and so
\* is a name that is taken.
RegisterRuntimeExtension(e) ==
    /\ e.name # ""
    /\ \A i \in DOMAIN extensions : extensions[i].name # e.name
    /\ extensions' = Append(extensions, e)
    /\ UNCHANGED <<tracerVars, stage, runtime>>

\* A service's main function assembles its runtime once InitOTelTracer returned.
Assembling(s, from, to) ==
    /\ pc[s] \in {"up", "off"}
    /\ stage[s] = from
    /\ stage' = [stage EXCEPT ![s] = to]
    /\ UNCHANGED <<tracerVars, extensions>>

\* NewHTTPRuntime takes the snapshot, unless registered extensions are disabled;
RuntimeExtensions(s) ==
    /\ Assembling(s, "none", "tracer")
    /\ runtime' \in {runtime, [runtime EXCEPT ![s].extensions = extensions]}

\* Mutant: the middleware is created before the service's provider.
Captured_default(s) == Default

Captured(s) == tracerProvider

\* then the preset's Tracing asks for a tracer ...
Tracer(s) ==
    /\ Assembling(s, "tracer", "propagator")
    /\ runtime' = [runtime EXCEPT ![s].tracer = Captured(s)]

\* ... and for the propagator.
Propagator(s) ==
    /\ Assembling(s, "propagator", "assembled")
    /\ runtime' = [runtime EXCEPT ![s].propagator = propagator]

Next ==
    \/ /\ \/ InitOTelPropagator
          \/ \E s \in Providers :
                /\ TracerStep(s)
                /\ Shutdown(s) => stage[s] \in {"none", "assembled"}
       /\ UNCHANGED bootVars
    \/ \E e \in Extensions : RegisterRuntimeExtension(e)
    \/ \E s \in Providers : RuntimeExtensions(s) \/ Tracer(s) \/ Propagator(s)

Spec == Init /\ [][Next]_vars

-----------------------------------------------------------------------------
\* A runtime traces with its service's provider or a newer one, and propagates
\* trace context, although it reads the two globals apart and without the mutex.
RuntimeIsTraced ==
    \A s \in Providers : stage[s] = "assembled" /\ rank[s] # 0 =>
        /\ rank[s] <= Rank(runtime[s].tracer)
        /\ runtime[s].propagator # "none"

\* Whatever is registered while runtimes are assembled, no runtime has two
\* extensions of a name, and two runtimes run the same extensions in the same
\* order, as far as the shorter list goes.
RuntimesAgreeOnExtensions ==
    \A s, t \in Providers :
        /\ IsInjective([i \in DOMAIN runtime[s].extensions |-> runtime[s].extensions[i].name])
        /\ \/ IsPrefix(runtime[s].extensions, runtime[t].extensions)
           \/ IsPrefix(runtime[t].extensions, runtime[s].extensions)
=============================================================================
