--------------------------- MODULE HealthRegistry ---------------------------
(***************************************************************************)
(* server.HealthRegistry (go/server/health.go): concurrent HTTP probes     *)
(* evaluate the live, ready and startup phases while the runtime flips its *)
(* lifecycle flags.  Every registered check has one execution slot; a      *)
(* probe starts the check in a goroutine of its own, under a context of    *)
(* its own, or joins the call that is already in the slot.                 *)
(* The checks are registered before the first probe arrives.               *)
(***************************************************************************)
EXTENDS Integers, Sequences

CONSTANTS
    Probes,         \* HTTP requests to a health endpoint
    Kind,           \* the endpoint each probe calls
    Checks,         \* registered checks, each with its execution slot
    Registered,     \* the sequence of checks registered for each phase
    None            \* an empty slot

Phases == {"live", "ready", "startup"}
Kinds  == Phases \cup {"summary"}

ASSUME HealthAssumption ==
    /\ Kind \in [Probes -> Kinds]
    /\ Registered \in [Phases -> Seq(Checks)]

\* The phases an endpoint evaluates, in order (summaryHandler, phaseHandler).
Evaluated(kind) ==
    IF kind = "summary" THEN <<"live", "ready", "startup">> ELSE <<kind>>

\* A call is identified by the probe and the position that started it.
Calls ==
    UNION {{p} \X {f} \X (1..Len(Registered[f])) : p \in Probes, f \in Phases}

ASSUME NoneAssumption == None \notin Calls

CheckOf(i) == Registered[i[2]][i[3]]

VARIABLES
    started,        \* HealthRegistry.started
    shuttingDown,   \* HealthRegistry.shuttingDown
    current,        \* healthCheckExecution.current of each check
    goroutine,      \* how far the goroutine of each call is
    err,            \* healthCheckCall.err
    ctx,            \* healthCheckCall.ctx: "live", "deadline" or "canceled"
    gone,           \* probes whose request context is done
    pc,             \* where each probe is
    phaseNo,        \* position in Evaluated(Kind[p])
    checkNo,        \* position in Registered[phase]
    call,           \* the call a waiting probe has joined
    outcome,        \* what each probe's runCheck returned, per call and phase
    failed,         \* the phases each probe found not ok
    code,           \* the HTTP status of the response
    draining        \* history: shutdown had begun when the probe arrived

flagVars  == <<started, shuttingDown>>
callVars  == <<current, goroutine, err, ctx>>
probeVars == <<pc, phaseNo, checkNo, call, outcome, failed, code, draining>>
vars == <<flagVars, callVars, gone, probeVars>>

-----------------------------------------------------------------------------
\* The stages of a call's goroutine, in the order of its deferred function.
Stages == {"none", "running", "closed", "finished"}

\* call.done is closed.
DoneClosed(i) == goroutine[i] \in {"closed", "finished"}

\* The results of runCheck; the last is the call context's own Canceled error.
Outcomes == {"ok", "error", "timeout", "requestCanceled", "callCanceled"}

TypeOK ==
    /\ started \in BOOLEAN /\ shuttingDown \in BOOLEAN
    /\ current \in [Checks -> Calls \cup {None}]
    /\ goroutine \in [Calls -> Stages]
    /\ err \in [Calls -> {"nil", "error"}]
    /\ ctx \in [Calls -> {"live", "deadline", "canceled"}]
    /\ gone \in SUBSET Probes
    /\ pc \in [Probes -> {"idle", "phase", "checks", "wait", "respond", "done"}]
    /\ phaseNo \in [Probes -> Nat]
    /\ \A p \in Probes : phaseNo[p] \in 1..Len(Evaluated(Kind[p]))
    /\ checkNo \in [Probes -> Nat \ {0}]
    /\ call \in [Probes -> Calls \cup {None}]
    /\ outcome \in [Probes -> SUBSET (Calls \X Outcomes \X Phases)]
    /\ failed \in [Probes -> SUBSET Phases]
    /\ code \in [Probes -> {0, 200, 503}]
    /\ draining \in [Probes -> BOOLEAN]

Init ==
    /\ started = FALSE /\ shuttingDown = FALSE
    /\ current = [c \in Checks |-> None]
    /\ goroutine = [i \in Calls |-> "none"]
    /\ err = [i \in Calls |-> "nil"]
    /\ ctx = [i \in Calls |-> "live"]
    /\ gone = {}
    /\ pc = [p \in Probes |-> "idle"]
    /\ phaseNo = [p \in Probes |-> 1]
    /\ checkNo = [p \in Probes |-> 1]
    /\ call = [p \in Probes |-> None]
    /\ outcome = [p \in Probes |-> {}]
    /\ failed = [p \in Probes |-> {}]
    /\ code = [p \in Probes |-> 0]
    /\ draining = [p \in Probes |-> FALSE]

-----------------------------------------------------------------------------
(* The lifecycle flags, set by HTTPRuntime. *)

MarkStarted ==
    /\ started' = TRUE
    /\ UNCHANGED <<shuttingDown, callVars, gone, probeVars>>

MarkShuttingDown ==
    /\ shuttingDown' = TRUE
    /\ UNCHANGED <<started, callVars, gone, probeVars>>

-----------------------------------------------------------------------------
(* A probe: summaryHandler or phaseHandler, evaluate, runChecks, runCheck. *)

Phase(p) == Evaluated(Kind[p])[phaseNo[p]]

\* The request reaches its handler.
Arrive(p) ==
    /\ pc[p] = "idle"
    /\ pc' = [pc EXCEPT ![p] = "phase"]
    /\ draining' = [draining EXCEPT ![p] = shuttingDown]
    /\ UNCHANGED <<flagVars, callVars, gone, phaseNo, checkNo, call, outcome,
                   failed, code>>

\* The client goes away or the request's deadline passes; only a probe that
\* waits for a check looks at it.
RequestDone(p) ==
    /\ pc[p] = "wait"
    /\ gone' = gone \cup {p}
    /\ UNCHANGED <<flagVars, callVars, probeVars>>

\* The handler goes on to the next phase, or to the response after the last.
AdvancePhase(p) ==
    IF phaseNo[p] < Len(Evaluated(Kind[p]))
    THEN /\ phaseNo' = [phaseNo EXCEPT ![p] = @ + 1]
         /\ pc' = [pc EXCEPT ![p] = "phase"]
    ELSE /\ pc' = [pc EXCEPT ![p] = "respond"]
         /\ UNCHANGED phaseNo

\* Mutant: readiness ignores a shutdown that has begun.
LifecycleRefuses_notDraining(f) == f \in {"ready", "startup"} /\ ~started

\* The flags refuse a phase before its checks run; both only ever become true,
\* so reading them one after the other is reading them at the second load.
LifecycleRefuses(f) ==
    \/ f \in {"ready", "startup"} /\ ~started
    \/ f = "ready" /\ shuttingDown

\* evaluate: the lifecycle rule, then the snapshot of the phase's checks.
evaluate(p) ==
    /\ pc[p] = "phase"
    /\ IF LifecycleRefuses(Phase(p))
       THEN /\ failed' = [failed EXCEPT ![p] = @ \cup {Phase(p)}]
            /\ AdvancePhase(p)
            /\ UNCHANGED checkNo
       ELSE /\ checkNo' = [checkNo EXCEPT ![p] = 1]
            /\ pc' = [pc EXCEPT ![p] = "checks"]
            /\ UNCHANGED <<failed, phaseNo>>
    /\ UNCHANGED <<flagVars, callVars, gone, call, outcome, code, draining>>

\* Mutant: a call whose context has expired is not joined but replaced.
Joinable_unexpired(i) == i # None /\ ctx[i] = "live"

\* The slot holds a call to join.
Joinable(i) == i # None

\* startOrJoin, one critical section of the execution's mutex.
startOrJoin(p) ==
    /\ pc[p] = "checks"
    /\ checkNo[p] <= Len(Registered[Phase(p)])
    /\ LET c   == Registered[Phase(p)][checkNo[p]]
           new == <<p, Phase(p), checkNo[p]>>
       IN IF Joinable(current[c])
          THEN /\ call' = [call EXCEPT ![p] = current[c]]
               /\ UNCHANGED <<current, goroutine, ctx>>
          ELSE /\ call' = [call EXCEPT ![p] = new]
               /\ current' = [current EXCEPT ![c] = new]
               /\ goroutine' = [goroutine EXCEPT ![new] = "running"]
               /\ ctx' = [ctx EXCEPT ![new] = "live"]
    /\ pc' = [pc EXCEPT ![p] = "wait"]
    /\ UNCHANGED <<flagVars, err, gone, phaseNo, checkNo, outcome, failed,
                   code, draining>>

\* runChecks keeps one failure over all later successes of the phase.
Unhealthy(p, result) ==
    failed' = [failed EXCEPT ![p] = IF result = "ok" THEN @
                                    ELSE @ \cup {Phase(p)}]

\* runCheck returns result to runChecks, which goes on to the next check.
CheckReturns(p, result) ==
    /\ outcome' = [outcome EXCEPT ![p] = @ \cup {<<call[p], result, Phase(p)>>}]
    /\ Unhealthy(p, result)
    /\ checkNo' = [checkNo EXCEPT ![p] = @ + 1]
    /\ pc' = [pc EXCEPT ![p] = "checks"]
    /\ UNCHANGED <<flagVars, callVars, gone, phaseNo, call, code, draining>>

\* normalizeHealthCheckCallError: a context past its deadline by now is a timeout
\* whatever the check returned.  A deadline error of the check's own is an error
\* here: the two are told apart in the report's text only.
normalizeHealthCheckCallError(i) ==
    IF ctx[i] = "deadline" THEN "timeout"
    ELSE IF err[i] = "error" THEN "error" ELSE "ok"

\* case <-call.done
SelectDone(p) ==
    /\ pc[p] = "wait"
    /\ DoneClosed(call[p])
    /\ CheckReturns(p, normalizeHealthCheckCallError(call[p]))

\* case <-ctx.Done()
SelectRequest(p) ==
    /\ pc[p] = "wait"
    /\ p \in gone
    /\ CheckReturns(p, "requestCanceled")

\* Mutant: the probe waits for the check and for its own request only.
SelectCallContext_ignored(p) == FALSE /\ UNCHANGED vars

\* case <-call.ctx.Done(), with its second look at call.done
SelectCallContext(p) ==
    /\ pc[p] = "wait"
    /\ ctx[call[p]] # "live"
    /\ CheckReturns(p,
          IF DoneClosed(call[p]) THEN normalizeHealthCheckCallError(call[p])
          ELSE IF p \in gone THEN "requestCanceled"
          ELSE IF ctx[call[p]] = "deadline" THEN "timeout" ELSE "callCanceled")

\* runChecks has run every check of the phase.
ChecksDone(p) ==
    /\ pc[p] = "checks"
    /\ checkNo[p] > Len(Registered[Phase(p)])
    /\ AdvancePhase(p)
    /\ UNCHANGED <<flagVars, callVars, gone, checkNo, call, outcome, failed,
                   code, draining>>

\* The status code: 200 only if no evaluated phase failed.  The request is over.
Respond(p) ==
    /\ pc[p] = "respond"
    /\ code' = [code EXCEPT ![p] = IF failed[p] = {} THEN 200 ELSE 503]
    /\ pc' = [pc EXCEPT ![p] = "done"]
    /\ gone' = gone \ {p}
    /\ UNCHANGED <<flagVars, callVars, phaseNo, checkNo, call, outcome,
                   failed, draining>>

-----------------------------------------------------------------------------
(* The goroutine of a call. *)

GoroutineStep(i, from, to) ==
    /\ goroutine[i] = from
    /\ goroutine' = [goroutine EXCEPT ![i] = to]

\* Mutant: the context is cancelled before the result is published.
CheckDone_cancelFirst(i) ==
    /\ IF ctx[i] = "live"
       THEN /\ goroutine[i] = "running"
            /\ ctx' = [ctx EXCEPT ![i] = "canceled"]
            /\ UNCHANGED goroutine
       ELSE /\ GoroutineStep(i, "running", "closed")
            /\ UNCHANGED ctx
    /\ UNCHANGED <<flagVars, current, err, gone, probeVars>>

\* Mutant: call.done is closed before the result is stored.
CheckDone_closeFirst(i) ==
    /\ \/ GoroutineStep(i, "running", "closed") /\ UNCHANGED err
       \/ /\ goroutine[i] = "closed"
          /\ err' = [err EXCEPT ![i] = "error"]
          /\ UNCHANGED goroutine
    /\ UNCHANGED <<flagVars, current, ctx, gone, probeVars>>

\* The check returns nil or an error, or panics (an error); the result is stored
\* and call.done is closed.
CheckDone(i) ==
    /\ GoroutineStep(i, "running", "closed")
    /\ \E e \in {"nil", "error"} : err' = [err EXCEPT ![i] = e]
    /\ UNCHANGED <<flagVars, current, ctx, gone, probeVars>>

\* call.cancel() has no effect on a context past its deadline.
cancel(i) == ctx' = [ctx EXCEPT ![i] = IF @ = "live" THEN "canceled" ELSE @]

\* Mutant: the slot of a check that failed is not released.
finish_onSuccess(i) ==
    /\ GoroutineStep(i, "closed", "finished")
    /\ current' = [current EXCEPT ![CheckOf(i)] =
                      IF @ = i /\ err[i] = "nil" THEN None ELSE @]
    /\ cancel(i)
    /\ UNCHANGED <<flagVars, err, gone, probeVars>>

\* finish releases the slot if the call still owns it; then the context is
\* cancelled.
finish(i) ==
    /\ GoroutineStep(i, "closed", "finished")
    /\ current' = [current EXCEPT ![CheckOf(i)] = IF @ = i THEN None ELSE @]
    /\ cancel(i)
    /\ UNCHANGED <<flagVars, err, gone, probeVars>>

\* The check timeout passes.
Deadline(i) ==
    /\ goroutine[i] # "none"
    /\ ctx[i] = "live"
    /\ ctx' = [ctx EXCEPT ![i] = "deadline"]
    /\ UNCHANGED <<flagVars, current, goroutine, err, gone, probeVars>>

-----------------------------------------------------------------------------
runCheck(p) ==
    startOrJoin(p) \/ SelectDone(p) \/ SelectRequest(p) \/ SelectCallContext(p)

Probe(p) == evaluate(p) \/ runCheck(p) \/ ChecksDone(p) \/ Respond(p)

Next ==
    \/ MarkStarted \/ MarkShuttingDown
    \/ \E p \in Probes : Arrive(p) \/ RequestDone(p) \/ Probe(p)
    \/ \E i \in Calls : CheckDone(i) \/ finish(i) \/ Deadline(i)

Spec == Init /\ [][Next]_vars

\* Probes and goroutines are scheduled and timers fire; checks may hang.  A call
\* finishes and expires once, so fairness to some call is fairness to each.
Fairness ==
    /\ \A p \in Probes : WF_vars(Probe(p))
    /\ WF_vars(\E i \in Calls : finish(i))
    /\ WF_vars(\E i \in Calls : Deadline(i))

FairSpec == Spec /\ Fairness

-----------------------------------------------------------------------------
(* Safety. *)

\* However many probes arrive and time out, a check never runs twice at the
\* same time: a check that ignores its cancellation keeps its slot.
SingleExecution ==
    \A i, j \in Calls :
        goroutine[i] = "running" /\ goroutine[j] = "running"
            /\ CheckOf(i) = CheckOf(j) => i = j

\* The phases a response 200 vouches for.  The summary is said to answer 200 for
\* a failure of liveness alone; summaryHandler answers 503, which is stricter.
VouchedFor(kind) == IF kind = "summary" THEN {"ready", "startup"} ELSE {kind}

\* A response 200 means that every check of every phase it vouches for was run
\* and passed: its call returned nil, this probe got that result in that phase,
\* and no failure of the phase was outvoted by a later success.  The other probes
\* that shared the call agree, but for one whose client went away and, because
\* each reads the call's context again after the result was published, one that
\* looked after the deadline: the same call is a success and then a timeout, and
\* never a success and an error.
HealthyMeansChecked ==
    \A p \in Probes : code[p] = 200 => \A f \in VouchedFor(Kind[p]) :
        /\ \A k \in 1..Len(Registered[f]) : \E i \in Calls :
              /\ CheckOf(i) = Registered[f][k]
              /\ DoneClosed(i) /\ err[i] = "nil"
              /\ <<i, "ok", f>> \in outcome[p]
              /\ \A q \in Probes : \A o \in outcome[q] : o[1] = i =>
                    \/ o[2] \in {"ok", "requestCanceled"}
                    \/ o[2] = "timeout" /\ ctx[i] = "deadline"
        /\ \A o \in outcome[p] : o[3] = f => o[2] = "ok"

\* A readiness or summary probe that arrives after MarkShuttingDown, or is
\* answered before MarkStarted, is refused whatever its checks say.
ReadyFailsClosed ==
    \A p \in Probes :
        Kind[p] \in {"ready", "summary"} /\ code[p] = 200
            => started /\ ~draining[p]

\* The call context is cancelled only after the result is published, so no
\* probe ever reports that private cancellation as the state of a check.
NoSpuriousCancel ==
    \A p \in Probes : \A o \in outcome[p] : o[2] # "callCanceled"

-----------------------------------------------------------------------------
(* Liveness. *)

\* Probes are finitely many here, so what each reaches in the end holds from some
\* time on.

\* Every probe that came is answered although checks may hang for ever.
ProbesAnswered == <>[](\A p \in Probes : pc[p] \in {"idle", "done"})

\* The slot is released after the check returns, whatever it returned.
SlotReleased ==
    <>[](\A i \in Calls : DoneClosed(i) => current[CheckOf(i)] # i)
=============================================================================
