------------------------ MODULE HealthRegistryProofs ------------------------
(***************************************************************************)
(* Proofs about HealthRegistry for any number of probes and checks and any *)
(* registration: the execution slot admits one running call per check, no  *)
(* probe reports the private cancellation of a call's context, a response  *)
(* 200 means that every check was run and passed, and readiness fails      *)
(* closed.                                                                 *)
(***************************************************************************)
EXTENDS HealthRegistry, TLAPS

\* A call that runs or has not yet released its slot is the one in the slot,
\* and the slot of a check only holds such a call.
SlotInv ==
    /\ \A i \in Calls : goroutine[i] \in {"running", "closed"}
                            => current[CheckOf(i)] = i
    /\ \A c \in Checks : current[c] # None =>
          CheckOf(current[c]) = c /\ goroutine[current[c]] \in {"running", "closed"}

\* A context is live until its call starts and cancelled only after the result
\* was published, and a waiting probe waits for a call.
ContextInv ==
    /\ \A i \in Calls : /\ goroutine[i] = "none" => ctx[i] = "live"
                        /\ ctx[i] = "canceled" => goroutine[i] = "finished"
    /\ \A p \in Probes : pc[p] = "wait" => call[p] \in Calls

IInv == TypeOK /\ SlotInv /\ ContextInv /\ NoSpuriousCancel

-----------------------------------------------------------------------------
(* What a probe has behind it. *)

\* The phases probe p reports.
Reported(p) == Evaluated(Kind[p])

\* The lifecycle rule has let probe p into its n-th phase, or refused it there.
Entered(p, n) ==
    \/ n < phaseNo[p]
    \/ n = phaseNo[p] /\ pc[p] \notin {"idle", "phase"}

\* Probe p has done with the k-th check of its n-th phase.
Passed(p, n, k) ==
    \/ n < phaseNo[p]
    \/ n = phaseNo[p] /\ \/ pc[p] \in {"respond", "done"}
                         \/ pc[p] \in {"checks", "wait"} /\ k < checkNo[p]

\* Where a probe is agrees with its position; it waits for a call of the check
\* at that position.
PositionInv(p) ==
    /\ pc[p] = "idle" => phaseNo[p] = 1
    /\ pc[p] \in {"respond", "done"} => phaseNo[p] = Len(Reported(p))
    /\ pc[p] = "wait" =>
          /\ checkNo[p] <= Len(Registered[Phase(p)])
          /\ CheckOf(call[p]) = Registered[Phase(p)][checkNo[p]]

\* A probe has started calls only at positions it has reached, so a call it
\* starts is a new one.
FreshInv(p) ==
    \A n \in 1..Len(Reported(p)) : \A k \in 1..Len(Registered[Reported(p)[n]]) :
        goroutine[<<p, Reported(p)[n], k>>] # "none" =>
            \/ Passed(p, n, k)
            \/ n = phaseNo[p] /\ pc[p] = "wait" /\ k = checkNo[p]

\* A check that was reported ok has returned nil, one that was reported failed
\* has returned an error, and a timeout was reported past the call's deadline.
BackedBy(i, r) ==
    /\ r = "ok" => DoneClosed(i) /\ err[i] = "nil"
    /\ r = "error" => DoneClosed(i) /\ err[i] = "error"
    /\ r = "timeout" => ctx[i] = "deadline"

\* Every result a probe got is backed by its call and fails its phase unless it
\* is ok; every check a phase has passed without failing was reported ok.
OutcomeInv(p) ==
    /\ \A i \in Calls, r \in Outcomes, f \in Phases :
          <<i, r, f>> \in outcome[p] => BackedBy(i, r) /\ (r # "ok" => f \in failed[p])
    /\ \A n \in 1..Len(Reported(p)) : \A k \in 1..Len(Registered[Reported(p)[n]]) :
          Passed(p, n, k) =>
              \/ Reported(p)[n] \in failed[p]
              \/ \E i \in Calls : /\ CheckOf(i) = Registered[Reported(p)[n]][k]
                                  /\ <<i, "ok", Reported(p)[n]>> \in outcome[p]

\* Readiness that was not refused was entered after MarkStarted by a probe that
\* came before MarkShuttingDown.
ReadyInv(p) ==
    /\ draining[p] => shuttingDown
    /\ \A n \in 1..Len(Reported(p)) :
          Reported(p)[n] = "ready" /\ Entered(p, n) /\ "ready" \notin failed[p]
              => started /\ ~draining[p]

\* 200 is the answer of a probe that is through and found nothing wrong.
CodeInv(p) == code[p] = 200 => pc[p] = "done" /\ failed[p] = {}

ProbeInv(p) == PositionInv(p) /\ FreshInv(p) /\ OutcomeInv(p) /\ ReadyInv(p) /\ CodeInv(p)

VerdictInv == \A p \in Probes : ProbeInv(p)

-----------------------------------------------------------------------------
\* What an endpoint evaluates is a nonempty sequence of phases.
LEMMA EvaluatedType ==
    ASSUME NEW k \in Kinds
    PROVE  /\ Len(Evaluated(k)) \in Nat /\ Len(Evaluated(k)) >= 1
           /\ \A n \in 1..Len(Evaluated(k)) : Evaluated(k)[n] \in Phases
  BY DEF Evaluated, Kinds, Phases

\* In particular the endpoint of every probe.
LEMMA KindType ==
    \A p \in Probes : Kind[p] \in Kinds /\ Len(Evaluated(Kind[p])) \in Nat \ {0}
<1>1. TAKE p \in Probes
<1>2. Kind[p] \in Kinds
  BY HealthAssumption
<1> QED
  BY <1>2, EvaluatedType

\* A position in the sequence of a phase names a registered check.
LEMMA RegisteredType ==
    ASSUME NEW f \in Phases
    PROVE  /\ Len(Registered[f]) \in Nat
           /\ \A k \in 1..Len(Registered[f]) : Registered[f][k] \in Checks
  BY HealthAssumption

\* A call is a probe with a position, and every such position is a call.
LEMMA CallsType ==
    /\ \A i \in Calls : CheckOf(i) \in Checks
    /\ \A p \in Probes, f \in Phases : \A k \in 1..Len(Registered[f]) :
          <<p, f, k>> \in Calls /\ CheckOf(<<p, f, k>>) = Registered[f][k]
<1>1. ASSUME NEW p \in Probes, NEW f \in Phases, NEW k \in 1..Len(Registered[f])
      PROVE  <<p, f, k>> \in Calls /\ CheckOf(<<p, f, k>>) = Registered[f][k]
  <2>1. <<p, f, k>> \in {p} \X {f} \X (1..Len(Registered[f]))
    OBVIOUS
  <2>2. {p} \X {f} \X (1..Len(Registered[f]))
           \in {{q} \X {g} \X (1..Len(Registered[g])) : q \in Probes, g \in Phases}
    OBVIOUS
  <2>3. <<p, f, k>> \in Calls
    <3> DEFINE U == {{q} \X {g} \X (1..Len(Registered[g])) : q \in Probes, g \in Phases}
    <3>1. Calls = UNION U
      BY DEF Calls
    <3> HIDE DEF U
    <3>2. {p} \X {f} \X (1..Len(Registered[f])) \in U
      BY <2>2 DEF U
    <3> QED
      BY <2>1, <3>1, <3>2
  <2> QED
    BY <2>3 DEF CheckOf
<1>2. ASSUME NEW i \in Calls PROVE CheckOf(i) \in Checks
  <2>1. PICK p \in Probes, f \in Phases :
             \E k \in 1..Len(Registered[f]) : i = <<p, f, k>>
    BY DEF Calls
  <2> QED
    BY <2>1, RegisteredType DEF CheckOf
<1> QED
  BY <1>1, <1>2

\* The phase a probe evaluates is one of the three.
LEMMA PhaseType ==
    ASSUME TypeOK, NEW p \in Probes PROVE Phase(p) \in Phases
  BY EvaluatedType, HealthAssumption DEF TypeOK, Phase

\* Advancing to the next phase keeps the probe's position in its endpoint.
LEMMA AdvanceType ==
    ASSUME TypeOK, NEW p \in Probes,
           \/ phaseNo' = phaseNo
           \/ /\ phaseNo[p] < Len(Evaluated(Kind[p]))
              /\ phaseNo' = [phaseNo EXCEPT ![p] = @ + 1]
    PROVE  /\ phaseNo' \in [Probes -> Nat]
           /\ \A q \in Probes : phaseNo'[q] \in 1..Len(Evaluated(Kind[q]))
<1>1. phaseNo' \in [Probes -> Nat]
  BY DEF TypeOK
<1>2. ASSUME NEW q \in Probes PROVE phaseNo'[q] \in 1..Len(Evaluated(Kind[q]))
  <2>1. /\ Len(Evaluated(Kind[q])) \in Nat
        /\ phaseNo[q] \in 1..Len(Evaluated(Kind[q]))
    BY KindType DEF TypeOK
  <2>2. \/ phaseNo'[q] = phaseNo[q]
        \/ /\ phaseNo[q] < Len(Evaluated(Kind[q]))
           /\ phaseNo'[q] = phaseNo[q] + 1
    BY DEF TypeOK
  <2> QED
    BY <2>1, <2>2
<1> QED
  BY <1>1, <1>2

-----------------------------------------------------------------------------
\* IInv holds before the first probe.
LEMMA InitIInv == Init => IInv
<1> SUFFICES ASSUME Init PROVE IInv
  OBVIOUS
<1>1. TypeOK
  <2>1. \A p \in Probes : phaseNo[p] \in 1..Len(Evaluated(Kind[p]))
    <3>1. TAKE p \in Probes
    <3>2. phaseNo[p] = 1 /\ Len(Evaluated(Kind[p])) \in Nat \ {0}
      BY KindType DEF Init
    <3> QED
      BY <3>2
  <2>2. phaseNo \in [Probes -> Nat] /\ checkNo \in [Probes -> Nat \ {0}]
    BY DEF Init
  <2>3. outcome \in [Probes -> SUBSET (Calls \X Outcomes \X Phases)]
    BY Zenon DEF Init
  <2> QED
    BY <2>1, <2>2, <2>3, ZenonT(60) DEF Init, TypeOK, Stages
<1>2. SlotInv /\ ContextInv /\ NoSpuriousCancel
  BY NoneAssumption, CallsType DEF Init, SlotInv, ContextInv, NoSpuriousCancel
<1> QED
  BY <1>1, <1>2 DEF IInv

\* IInv is kept by every step of a probe, of a call and of the runtime.
LEMMA NextIInv == IInv /\ [Next]_vars => IInv'
<1> USE HealthAssumption, NoneAssumption, CallsType
    DEF IInv, TypeOK, Stages, Outcomes, SlotInv, ContextInv, NoSpuriousCancel,
        DoneClosed, flagVars, callVars, probeVars
<1>a. SUFFICES ASSUME IInv, [Next]_vars PROVE IInv'
  OBVIOUS
<1>b. \A p \in Probes : Phase(p) \in Phases
  BY <1>a, PhaseType
<1>c. \A p \in Probes : Len(Evaluated(Kind[p])) \in Nat
  BY KindType
<1>1. CASE MarkStarted
  BY <1>a, <1>1 DEF MarkStarted
<1>2. CASE MarkShuttingDown
  BY <1>a, <1>2 DEF MarkShuttingDown
<1>3. ASSUME NEW p \in Probes, Arrive(p) PROVE IInv'
  BY <1>a, <1>b, <1>c, <1>3 DEF Arrive
<1>4. ASSUME NEW p \in Probes, RequestDone(p) PROVE IInv'
  BY <1>a, <1>b, <1>c, <1>4 DEF RequestDone
<1>5. ASSUME NEW p \in Probes, evaluate(p) PROVE IInv'
  <2>1. /\ UNCHANGED <<flagVars, callVars, gone, call, outcome, code, draining>>
        /\ \E l \in {"phase", "checks", "respond"} : pc' = [pc EXCEPT ![p] = l]
        /\ checkNo' = checkNo \/ checkNo' = [checkNo EXCEPT ![p] = 1]
        /\ failed' = failed \/ failed' = [failed EXCEPT ![p] = @ \cup {Phase(p)}]
    BY <1>5 DEF evaluate, AdvancePhase
  <2>2. \/ phaseNo' = phaseNo
        \/ /\ phaseNo[p] < Len(Evaluated(Kind[p]))
           /\ phaseNo' = [phaseNo EXCEPT ![p] = @ + 1]
    BY <1>5 DEF evaluate, AdvancePhase
  <2>3. /\ phaseNo' \in [Probes -> Nat]
        /\ \A q \in Probes : phaseNo'[q] \in 1..Len(Evaluated(Kind[q]))
    BY <1>a, <2>2, AdvanceType
  <2>4. pc' \in [Probes -> {"idle", "phase", "checks", "wait", "respond", "done"}]
        /\ \A q \in Probes : pc'[q] = "wait" => pc[q] = "wait"
    BY <1>a, <2>1
  <2>5. failed' \in [Probes -> SUBSET Phases]
    <3>1. failed \in [Probes -> SUBSET Phases] /\ failed[p] \cup {Phase(p)} \in SUBSET Phases
      BY <1>a, <1>b
    <3> QED
      BY <2>1, <3>1, Zenon
  <2>6. checkNo' \in [Probes -> Nat \ {0}]
    <3>1. checkNo \in [Probes -> Nat \ {0}] /\ 1 \in Nat \ {0}
      BY <1>a
    <3> QED
      BY <2>1, <3>1, Zenon
  <2>7. TypeOK'
    BY <1>a, <2>1, <2>3, <2>4, <2>5, <2>6, Zenon
  <2> QED
    BY <1>a, <2>1, <2>4, <2>7
<1>6. ASSUME NEW p \in Probes, startOrJoin(p) PROVE IInv'
  <2> DEFINE c   == Registered[Phase(p)][checkNo[p]]
             new == <<p, Phase(p), checkNo[p]>>
  <2>1. c \in Checks /\ new \in Calls /\ CheckOf(new) = c
    <3>1. checkNo[p] \in 1..Len(Registered[Phase(p)])
      BY <1>a, <1>b, <1>6, RegisteredType DEF startOrJoin
    <3> QED
      BY <1>b, <3>1, RegisteredType
  <2> HIDE DEF c, new
  <2>2. CASE current[c] # None
    <3>1. /\ call' = [call EXCEPT ![p] = current[c]]
          /\ pc' = [pc EXCEPT ![p] = "wait"]
          /\ UNCHANGED <<flagVars, callVars, gone, phaseNo, checkNo, outcome,
                         failed, code, draining>>
      BY <1>6, <2>2 DEF startOrJoin, Joinable, c
    <3> QED
      BY <1>a, <2>1, <2>2, <3>1
  <2>3. CASE current[c] = None
    <3>1. /\ call' = [call EXCEPT ![p] = new]
          /\ current' = [current EXCEPT ![c] = new]
          /\ goroutine' = [goroutine EXCEPT ![new] = "running"]
          /\ ctx' = [ctx EXCEPT ![new] = "live"]
          /\ pc' = [pc EXCEPT ![p] = "wait"]
          /\ UNCHANGED <<flagVars, err, gone, phaseNo, checkNo, outcome,
                         failed, code, draining>>
      BY <1>6, <2>3 DEF startOrJoin, Joinable, c, new
    <3> QED
      BY <1>a, <2>1, <2>3, <3>1
  <2> QED
    BY <2>2, <2>3
<1>r. ASSUME NEW p \in Probes, NEW r \in Outcomes \ {"callCanceled"}, pc[p] = "wait",
             CheckReturns(p, r)
      PROVE  IInv'
  <2>1. <<call[p], r, Phase(p)>> \in Calls \X Outcomes \X Phases
    BY <1>a, <1>b, <1>r
  <2>2. /\ outcome' = [outcome EXCEPT ![p] = @ \cup {<<call[p], r, Phase(p)>>}]
        /\ checkNo' = [checkNo EXCEPT ![p] = @ + 1]
        /\ pc' = [pc EXCEPT ![p] = "checks"]
        /\ UNCHANGED <<flagVars, callVars, gone, phaseNo, call, code, draining>>
    BY <1>r DEF CheckReturns
  <2>3. outcome' \in [Probes -> SUBSET (Calls \X Outcomes \X Phases)]
    <3>1. outcome[p] \cup {<<call[p], r, Phase(p)>>} \in SUBSET (Calls \X Outcomes \X Phases)
      BY <1>a, <2>1
    <3> QED
      BY <1>a, <2>2, <3>1, Zenon
  <2>4. failed' \in [Probes -> SUBSET Phases]
    BY <1>a, <1>b, <1>r DEF CheckReturns, Unhealthy
  <2>5. TypeOK'
    BY <1>a, <2>2, <2>3, <2>4
  <2>6. NoSpuriousCancel'
    BY <1>a, <1>r, <2>2
  <2> QED
    BY <1>a, <2>2, <2>5, <2>6
<1>n. ASSUME NEW i \in Calls
      PROVE  normalizeHealthCheckCallError(i) \in Outcomes \ {"callCanceled"}
  BY DEF normalizeHealthCheckCallError
<1>7. ASSUME NEW p \in Probes, SelectDone(p) PROVE IInv'
  BY <1>a, <1>n, <1>r, <1>7 DEF SelectDone
<1>8. ASSUME NEW p \in Probes, SelectRequest(p) PROVE IInv'
  BY <1>r, <1>8 DEF SelectRequest
<1>9. ASSUME NEW p \in Probes, SelectCallContext(p) PROVE IInv'
  <2>1. call[p] \in Calls /\ pc[p] = "wait" /\ ctx[call[p]] # "live"
    BY <1>a, <1>9 DEF SelectCallContext
  <2>2. DoneClosed(call[p]) \/ ctx[call[p]] = "deadline"
    BY <1>a, <2>1
  <2>3. PICK r \in Outcomes \ {"callCanceled"} : CheckReturns(p, r)
    BY <1>n, <1>9, <2>1, <2>2 DEF SelectCallContext
  <2> QED
    BY <1>r, <2>1, <2>3
<1>10. ASSUME NEW p \in Probes, ChecksDone(p) PROVE IInv'
  <2>1. /\ UNCHANGED <<flagVars, callVars, gone, checkNo, call, outcome, failed,
                       code, draining>>
        /\ \E l \in {"phase", "respond"} : pc' = [pc EXCEPT ![p] = l]
    BY <1>10 DEF ChecksDone, AdvancePhase
  <2>2. \/ phaseNo' = phaseNo
        \/ /\ phaseNo[p] < Len(Evaluated(Kind[p]))
           /\ phaseNo' = [phaseNo EXCEPT ![p] = @ + 1]
    BY <1>10 DEF ChecksDone, AdvancePhase
  <2>3. /\ phaseNo' \in [Probes -> Nat]
        /\ \A q \in Probes : phaseNo'[q] \in 1..Len(Evaluated(Kind[q]))
    BY <1>a, <2>2, AdvanceType
  <2>4. pc' \in [Probes -> {"idle", "phase", "checks", "wait", "respond", "done"}]
        /\ \A q \in Probes : pc'[q] = "wait" => pc[q] = "wait"
    BY <1>a, <2>1
  <2>5. TypeOK'
    BY <1>a, <2>1, <2>3, <2>4
  <2> QED
    BY <1>a, <2>1, <2>4, <2>5
<1>11. ASSUME NEW p \in Probes, Respond(p) PROVE IInv'
  BY <1>a, <1>b, <1>c, <1>11 DEF Respond
<1>12. ASSUME NEW i \in Calls, CheckDone(i) PROVE IInv'
  BY <1>a, <1>b, <1>c, <1>12 DEF CheckDone, GoroutineStep
<1>13. ASSUME NEW i \in Calls, finish(i) PROVE IInv'
  BY <1>a, <1>b, <1>c, <1>13 DEF finish, GoroutineStep, cancel
<1>14. ASSUME NEW i \in Calls, Deadline(i) PROVE IInv'
  BY <1>a, <1>b, <1>c, <1>14 DEF Deadline
<1>15. CASE UNCHANGED vars
  BY <1>a, <1>15 DEF vars
<1> QED
  BY <1>a, <1>1, <1>2, <1>3, <1>4, <1>5, <1>6, <1>7, <1>8, <1>9, <1>10, <1>11,
     <1>12, <1>13, <1>14, <1>15 DEF Next, Probe, runCheck

-----------------------------------------------------------------------------
(* The verdict of a probe. *)

\* The phases a probe reports are phases, each reported once.
LEMMA ReportedType ==
    ASSUME NEW p \in Probes
    PROVE  /\ Len(Reported(p)) \in Nat \ {0}
           /\ \A n \in 1..Len(Reported(p)) : Reported(p)[n] \in Phases
           /\ \A n, m \in 1..Len(Reported(p)) : Reported(p)[n] = Reported(p)[m] => n = m
<1>1. Kind[p] \in Kinds
  BY HealthAssumption
<1>2. \A n, m \in 1..Len(Evaluated(Kind[p])) :
         Evaluated(Kind[p])[n] = Evaluated(Kind[p])[m] => n = m
  BY <1>1 DEF Evaluated, Kinds, Phases
<1> QED
  BY <1>1, <1>2, KindType, EvaluatedType DEF Reported

\* What a step of another probe or of a call cannot take from probe q: results
\* that were published stay, no deadline is undone, no call of q's appears, and the flags only rise.
Steady(q) ==
    /\ \A i \in Calls : DoneClosed(i) => DoneClosed(i)' /\ err'[i] = err[i]
    /\ \A i \in Calls : ctx[i] = "deadline" => ctx'[i] = "deadline"
    /\ \A f \in Phases : \A k \in 1..Len(Registered[f]) :
          goroutine'[<<q, f, k>>] # "none" => goroutine[<<q, f, k>>] # "none"
    /\ started => started'
    /\ shuttingDown => shuttingDown'

\* Probe q takes no step.
Rests(q) ==
    /\ pc'[q] = pc[q] /\ phaseNo'[q] = phaseNo[q] /\ checkNo'[q] = checkNo[q]
    /\ call'[q] = call[q] /\ outcome'[q] = outcome[q] /\ failed'[q] = failed[q]
    /\ code'[q] = code[q] /\ draining'[q] = draining[q]

\* A probe that takes no step keeps its invariant under a steady step.
LEMMA RestKeeps ==
    ASSUME NEW q \in Probes, ProbeInv(q), Steady(q), Rests(q)
    PROVE  ProbeInv(q)'
<1> USE ReportedType DEF ProbeInv, Steady, Rests
<1>1. PositionInv(q)'
  BY DEF PositionInv, Phase
<1>2. FreshInv(q)'
  BY DEF FreshInv, Passed
<1>3. OutcomeInv(q)'
  <2>1. \A i \in Calls : \A r : BackedBy(i, r) => BackedBy(i, r)'
    BY DEF BackedBy
  <2>2. outcome'[q] = outcome[q] /\ failed'[q] = failed[q]
    OBVIOUS
  <2>3. \A n \in 1..Len(Reported(q)) : \A k \in 1..Len(Registered[Reported(q)[n]]) :
            Passed(q, n, k)' <=> Passed(q, n, k)
    BY DEF Passed
  <2>4. OutcomeInv(q)
    OBVIOUS
  <2> QED
    BY ONLY <2>1, <2>2, <2>3, <2>4 DEF OutcomeInv
<1>4. ReadyInv(q)' /\ CodeInv(q)'
  BY DEF ReadyInv, CodeInv, Entered
<1> QED
  BY <1>1, <1>2, <1>3, <1>4

\* Every probe has its invariant before it arrives.
LEMMA InitVerdict == Init => VerdictInv
<1> SUFFICES ASSUME Init, NEW p \in Probes PROVE ProbeInv(p)
  BY DEF VerdictInv
<1> USE ReportedType DEF Init
<1>1. PositionInv(p) /\ CodeInv(p)
  BY DEF PositionInv, CodeInv
<1>2. FreshInv(p)
  BY CallsType DEF FreshInv
<1>3. OutcomeInv(p) /\ ReadyInv(p)
  BY DEF OutcomeInv, ReadyInv, Passed, Entered
<1> QED
  BY <1>1, <1>2, <1>3 DEF ProbeInv

\* Every step of a probe, of a call and of the runtime keeps the invariant of
\* every probe.
LEMMA NextVerdict == IInv /\ VerdictInv /\ [Next]_vars => VerdictInv'
<1> USE DEF Steady, Rests, flagVars, callVars, probeVars
<1>a. SUFFICES ASSUME IInv, VerdictInv, [Next]_vars PROVE VerdictInv'
  OBVIOUS
<1>t. TypeOK
  BY <1>a DEF IInv
<1>1. CASE MarkStarted \/ MarkShuttingDown \/ UNCHANGED vars
  <2>1. ASSUME NEW q \in Probes PROVE Steady(q) /\ Rests(q)
    BY <1>1, <1>t DEF MarkStarted, MarkShuttingDown, vars, TypeOK, DoneClosed
  <2> QED
    BY <1>a, <2>1, RestKeeps DEF VerdictInv
<1>2. ASSUME NEW i \in Calls, CheckDone(i) \/ finish(i) \/ Deadline(i)
      PROVE  VerdictInv'
  <2>1. ASSUME NEW q \in Probes PROVE Steady(q) /\ Rests(q)
    <3>1. \A j \in Calls : goroutine'[j] # "none" => goroutine[j] # "none"
      BY <1>2, <1>t DEF CheckDone, finish, Deadline, GoroutineStep, TypeOK, Stages
    <3>2. \A j \in Calls : DoneClosed(j) => DoneClosed(j)' /\ err'[j] = err[j]
      BY <1>2, <1>t DEF CheckDone, finish, Deadline, GoroutineStep, TypeOK, Stages, DoneClosed
    <3>3. \A j \in Calls : ctx[j] = "deadline" => ctx'[j] = "deadline"
      BY <1>2, <1>t DEF CheckDone, finish, Deadline, cancel, TypeOK
    <3>4. Rests(q) /\ started' = started /\ shuttingDown' = shuttingDown
      BY <1>2 DEF CheckDone, finish, Deadline
    <3> QED
      BY <3>1, <3>2, <3>3, <3>4, CallsType
  <2> QED
    BY <1>a, <2>1, RestKeeps DEF VerdictInv
<1>3. ASSUME NEW p \in Probes, Arrive(p) PROVE VerdictInv'
  <2>1. ASSUME NEW q \in Probes PROVE Steady(q) /\ (q # p => Rests(q))
    BY <1>3, <1>t DEF Arrive, TypeOK, DoneClosed
  <2>2. ProbeInv(p)'
    <3>1. ProbeInv(p) /\ pc[p] = "idle" /\ phaseNo[p] = 1
      BY <1>a, <1>3 DEF Arrive, VerdictInv, ProbeInv, PositionInv
    <3>2. /\ pc'[p] = "phase" /\ draining'[p] = shuttingDown
          /\ UNCHANGED <<flagVars, callVars, gone, phaseNo, checkNo, call, outcome,
                         failed, code>>
      BY <1>3, <1>t DEF Arrive, TypeOK
    <3>3. PositionInv(p)' /\ CodeInv(p)'
      BY <3>1, <3>2 DEF ProbeInv, PositionInv, CodeInv
    <3>4. FreshInv(p)' /\ OutcomeInv(p)'
      BY <3>1, <3>2 DEF ProbeInv, FreshInv, OutcomeInv, BackedBy, Passed, DoneClosed
    <3>5. ReadyInv(p)'
      BY <3>1, <3>2, ReportedType DEF ReadyInv, Entered
    <3> QED
      BY <3>3, <3>4, <3>5 DEF ProbeInv
  <2> QED
    BY <1>a, <2>1, <2>2, RestKeeps DEF VerdictInv
<1>4. ASSUME NEW p \in Probes, RequestDone(p) PROVE VerdictInv'
  <2>1. ASSUME NEW q \in Probes PROVE Steady(q) /\ Rests(q)
    BY <1>4, <1>t DEF RequestDone, TypeOK, DoneClosed
  <2> QED
    BY <1>a, <2>1, RestKeeps DEF VerdictInv
<1>5. ASSUME NEW p \in Probes, evaluate(p) PROVE VerdictInv'
  <2>0. ProbeInv(p) /\ pc[p] = "phase"
    BY <1>a, <1>5 DEF evaluate, VerdictInv
  <2>1. ASSUME NEW q \in Probes PROVE Steady(q) /\ (q # p => Rests(q))
    BY <1>5, <1>t DEF evaluate, AdvancePhase, TypeOK, DoneClosed
  <2>2. UNCHANGED <<flagVars, callVars, gone, call, outcome, code, draining>>
    BY <1>5 DEF evaluate
  <2>3. phaseNo[p] \in 1..Len(Reported(p)) /\ Phase(p) = Reported(p)[phaseNo[p]]
    BY <1>t DEF TypeOK, Phase, Reported
  <2>4. CASE LifecycleRefuses(Phase(p))
    <3>1. failed'[p] = failed[p] \cup {Phase(p)} /\ checkNo' = checkNo
      BY <1>5, <1>t, <2>4 DEF evaluate, TypeOK
    <3>2. \/ phaseNo[p] < Len(Reported(p)) /\ phaseNo'[p] = phaseNo[p] + 1 /\ pc'[p] = "phase"
          \/ phaseNo[p] = Len(Reported(p)) /\ phaseNo'[p] = phaseNo[p] /\ pc'[p] = "respond"
      BY <1>5, <1>t, <2>3, <2>4, ReportedType DEF evaluate, AdvancePhase, TypeOK, Reported
    <3>3. PositionInv(p)' /\ CodeInv(p)'
      BY <2>0, <2>2, <2>3, <3>2, ReportedType DEF ProbeInv, PositionInv, CodeInv
    <3>4. FreshInv(p)'
      BY <2>0, <2>2, <2>3, <3>1, <3>2, ReportedType DEF ProbeInv, FreshInv, Passed
    <3>5. OutcomeInv(p)'
      <4>1. \A n \in 1..Len(Reported(p)) : \A k \in 1..Len(Registered[Reported(p)[n]]) :
               Passed(p, n, k)' => Passed(p, n, k) \/ Reported(p)[n] = Phase(p)
        BY <2>0, <2>3, <3>2, ReportedType DEF Passed
      <4> QED
        BY <2>0, <2>2, <3>1, <4>1 DEF ProbeInv, OutcomeInv, BackedBy, DoneClosed
    <3>6. ReadyInv(p)'
      BY <2>0, <2>2, <2>3, <3>1, <3>2, ReportedType DEF ProbeInv, ReadyInv, Entered
    <3> QED
      BY <1>a, <2>1, <3>3, <3>4, <3>5, <3>6, RestKeeps DEF VerdictInv, ProbeInv
  <2>5. CASE ~LifecycleRefuses(Phase(p))
    <3>1. checkNo'[p] = 1 /\ pc'[p] = "checks" /\ failed' = failed /\ phaseNo' = phaseNo
      BY <1>5, <1>t, <2>5 DEF evaluate, TypeOK
    <3>2. Phase(p) = "ready" => started /\ ~shuttingDown
      BY <2>5, <1>t DEF LifecycleRefuses, TypeOK
    <3>3. PositionInv(p)' /\ CodeInv(p)'
      BY <2>0, <2>2, <3>1 DEF ProbeInv, PositionInv, CodeInv
    <3>4. FreshInv(p)'
      BY <2>0, <2>2, <2>3, <3>1, ReportedType DEF ProbeInv, FreshInv, Passed
    <3>5. OutcomeInv(p)'
      <4>1. \A n \in 1..Len(Reported(p)) : \A k \in 1..Len(Registered[Reported(p)[n]]) :
               Passed(p, n, k)' => Passed(p, n, k)
        BY <2>0, <2>3, <3>1, ReportedType DEF Passed
      <4> QED
        BY <2>0, <2>2, <3>1, <4>1 DEF ProbeInv, OutcomeInv, BackedBy, DoneClosed
    <3>6. ReadyInv(p)'
      BY <2>0, <2>2, <2>3, <3>1, <3>2, ReportedType DEF ProbeInv, ReadyInv, Entered
    <3> QED
      BY <1>a, <2>1, <3>3, <3>4, <3>5, <3>6, RestKeeps DEF VerdictInv, ProbeInv
  <2> QED
    BY <2>4, <2>5
<1>6. ASSUME NEW p \in Probes, startOrJoin(p) PROVE VerdictInv'
  <2> DEFINE c   == Registered[Phase(p)][checkNo[p]]
             new == <<p, Phase(p), checkNo[p]>>
  <2>0. ProbeInv(p) /\ pc[p] = "checks"
    BY <1>a, <1>6 DEF startOrJoin, VerdictInv
  <2>1. Phase(p) \in Phases /\ checkNo[p] \in 1..Len(Registered[Phase(p)])
    BY <1>t, <1>6, PhaseType, RegisteredType DEF startOrJoin, TypeOK
  <2>2. c \in Checks /\ new \in Calls /\ CheckOf(new) = c
    BY <2>1, RegisteredType, CallsType
  <2>3. phaseNo[p] \in 1..Len(Reported(p)) /\ Phase(p) = Reported(p)[phaseNo[p]]
    BY <1>t DEF TypeOK, Phase, Reported
  <2>4. goroutine[new] = "none"
    <3>1. ~Passed(p, phaseNo[p], checkNo[p])
      BY <2>0, <2>1, <2>3, ReportedType, RegisteredType DEF Passed
    <3> QED
      BY <2>0, <2>1, <2>3, <3>1 DEF ProbeInv, FreshInv
  <2>5. /\ pc' = [pc EXCEPT ![p] = "wait"]
        /\ UNCHANGED <<flagVars, err, gone, phaseNo, checkNo, outcome, failed, code, draining>>
    BY <1>6 DEF startOrJoin
  <2>6. /\ \A i \in Calls : i # new => goroutine'[i] = goroutine[i]
        /\ \A q \in Probes : q # p => call'[q] = call[q]
        /\ \A i \in Calls : ctx[i] = "deadline" => ctx'[i] = "deadline"
        /\ call'[p] \in Calls /\ CheckOf(call'[p]) = c
    <3> HIDE DEF c, new
    <3>1. CASE current[c] # None
      <4>1. call' = [call EXCEPT ![p] = current[c]] /\ goroutine' = goroutine /\ ctx' = ctx
        BY <1>6, <3>1 DEF startOrJoin, Joinable, c
      <4> QED
        BY <1>a, <2>2, <3>1, <4>1 DEF IInv, TypeOK, SlotInv
    <3>2. CASE current[c] = None
      <4>1. /\ call' = [call EXCEPT ![p] = new]
            /\ goroutine' = [goroutine EXCEPT ![new] = "running"]
            /\ ctx' = [ctx EXCEPT ![new] = "live"]
        BY <1>6, <3>2 DEF startOrJoin, Joinable, c, new
      <4>2. ctx[new] = "live"
        BY <1>a, <2>2, <2>4 DEF IInv, ContextInv
      <4> QED
        BY <1>t, <2>2, <4>1, <4>2 DEF TypeOK
    <3> QED
      BY <3>1, <3>2
  <2> HIDE DEF new
  <2>7. \A i \in Calls : DoneClosed(i) => DoneClosed(i)' /\ err'[i] = err[i]
    BY <2>4, <2>5, <2>6 DEF DoneClosed
  <2>8. ASSUME NEW q \in Probes, q # p PROVE Steady(q) /\ Rests(q)
    <3>1. \A f \in Phases : \A k \in 1..Len(Registered[f]) :
             <<q, f, k>> \in Calls /\ <<q, f, k>> # new
      BY <2>8, CallsType DEF new
    <3> QED
      BY <1>t, <2>5, <2>6, <2>7, <2>8, <3>1 DEF TypeOK
  <2>9. ProbeInv(p)'
    <3>1. pc'[p] = "wait" /\ Phase(p)' = Phase(p) /\ phaseNo'[p] = phaseNo[p]
          /\ checkNo'[p] = checkNo[p]
      BY <1>t, <2>5 DEF TypeOK, Phase
    <3>2. PositionInv(p)' /\ CodeInv(p)'
      BY <2>0, <2>1, <2>5, <2>6, <3>1 DEF ProbeInv, PositionInv, CodeInv
    <3>3. FreshInv(p)'
      <4>1. SUFFICES ASSUME NEW n \in 1..Len(Reported(p)),
                            NEW k \in 1..Len(Registered[Reported(p)[n]]),
                            goroutine'[<<p, Reported(p)[n], k>>] # "none"
                     PROVE  \/ Passed(p, n, k)'
                            \/ n = phaseNo'[p] /\ pc'[p] = "wait" /\ k = checkNo'[p]
        BY DEF FreshInv
      <4>2. CASE <<p, Reported(p)[n], k>> = new
        BY <2>3, <3>1, <4>2, ReportedType DEF new
      <4>3. CASE <<p, Reported(p)[n], k>> # new
        <5>1. goroutine[<<p, Reported(p)[n], k>>] # "none"
          BY <2>6, <4>1, <4>3, CallsType, ReportedType
        <5> QED
          BY <2>0, <3>1, <5>1 DEF ProbeInv, FreshInv, Passed
      <4> QED
        BY <4>2, <4>3
    <3>4. OutcomeInv(p)'
      <4>1. \A i \in Calls : \A r : BackedBy(i, r) => BackedBy(i, r)'
        BY <2>6, <2>7 DEF BackedBy
      <4> QED
        BY <2>0, <2>5, <3>1, <4>1 DEF ProbeInv, OutcomeInv, Passed
    <3>5. ReadyInv(p)'
      BY <2>0, <2>5, <3>1 DEF ProbeInv, ReadyInv, Entered
    <3> QED
      BY <3>2, <3>3, <3>4, <3>5 DEF ProbeInv
  <2> QED
    BY <1>a, <2>8, <2>9, RestKeeps DEF VerdictInv
<1>7. ASSUME NEW p \in Probes, SelectDone(p) \/ SelectRequest(p) \/ SelectCallContext(p)
      PROVE  VerdictInv'
  <2>0. ProbeInv(p) /\ pc[p] = "wait" /\ call[p] \in Calls
    BY <1>a, <1>7 DEF SelectDone, SelectRequest, SelectCallContext, VerdictInv, IInv, ContextInv
  <2>1. PICK r \in Outcomes : CheckReturns(p, r) /\ BackedBy(call[p], r)
    <3> DEFINE norm == normalizeHealthCheckCallError(call[p])
    <3>1. norm \in Outcomes /\ (DoneClosed(call[p]) => BackedBy(call[p], norm))
      BY <1>t, <2>0 DEF normalizeHealthCheckCallError, Outcomes, TypeOK, BackedBy
    <3>2. /\ {"timeout", "requestCanceled", "callCanceled"} \subseteq Outcomes
          /\ BackedBy(call[p], "requestCanceled") /\ BackedBy(call[p], "callCanceled")
          /\ ctx[call[p]] = "deadline" => BackedBy(call[p], "timeout")
      BY DEF Outcomes, BackedBy
    <3> HIDE DEF norm
    <3> QED
      BY <1>7, <3>1, <3>2 DEF SelectDone, SelectRequest, SelectCallContext, norm
  <2>2. /\ outcome' = [outcome EXCEPT ![p] = @ \cup {<<call[p], r, Phase(p)>>}]
        /\ failed' = [failed EXCEPT ![p] = IF r = "ok" THEN @ ELSE @ \cup {Phase(p)}]
        /\ checkNo' = [checkNo EXCEPT ![p] = @ + 1]
        /\ pc' = [pc EXCEPT ![p] = "checks"]
        /\ UNCHANGED <<flagVars, callVars, gone, phaseNo, call, code, draining>>
    BY <2>1 DEF CheckReturns, Unhealthy
  <2>3. ASSUME NEW q \in Probes PROVE Steady(q) /\ (q # p => Rests(q))
    BY <1>t, <2>2 DEF TypeOK, DoneClosed
  <2>4. phaseNo[p] \in 1..Len(Reported(p)) /\ Phase(p) = Reported(p)[phaseNo[p]]
    BY <1>t DEF TypeOK, Phase, Reported
  <2>5. /\ outcome'[p] = outcome[p] \cup {<<call[p], r, Phase(p)>>}
        /\ r = "ok" => failed'[p] = failed[p]
        /\ r # "ok" => failed'[p] = failed[p] \cup {Phase(p)}
        /\ checkNo[p] \in Nat /\ checkNo'[p] = checkNo[p] + 1
        /\ pc'[p] = "checks" /\ phaseNo'[p] = phaseNo[p]
    BY <1>t, <2>2 DEF TypeOK
  <2>6. PositionInv(p)' /\ CodeInv(p)'
    BY <2>0, <2>2, <2>5 DEF ProbeInv, PositionInv, CodeInv
  <2>7. FreshInv(p)'
    BY <2>0, <2>2, <2>4, <2>5, ReportedType, RegisteredType DEF ProbeInv, FreshInv, Passed
  <2>8. OutcomeInv(p)'
    <3>1. \A i \in Calls : \A x : BackedBy(i, x) => BackedBy(i, x)'
      BY <2>2 DEF BackedBy, DoneClosed
    <3>2. \A i \in Calls, x \in Outcomes, f \in Phases : <<i, x, f>> \in outcome'[p]
             => BackedBy(i, x)' /\ (x # "ok" => f \in failed'[p])
      BY <2>0, <2>1, <2>5, <3>1 DEF ProbeInv, OutcomeInv
    <3>3. ASSUME NEW n \in 1..Len(Reported(p)), NEW k \in 1..Len(Registered[Reported(p)[n]]),
                 Passed(p, n, k)'
          PROVE  \/ Reported(p)[n] \in failed'[p]
                 \/ \E i \in Calls : /\ CheckOf(i) = Registered[Reported(p)[n]][k]
                                     /\ <<i, "ok", Reported(p)[n]>> \in outcome'[p]
      <4>1. CASE Passed(p, n, k)
        BY <2>0, <2>5, <4>1 DEF ProbeInv, OutcomeInv
      <4>2. CASE ~Passed(p, n, k)
        <5>1. n = phaseNo[p] /\ k = checkNo[p]
          BY <2>0, <2>4, <2>5, <3>3, <4>2, ReportedType, RegisteredType DEF Passed
        <5>2. CheckOf(call[p]) = Registered[Reported(p)[n]][k]
          BY <2>0, <2>4, <5>1 DEF ProbeInv, PositionInv
        <5> QED
          BY <2>0, <2>4, <2>5, <5>1, <5>2
      <4> QED
        BY <4>1, <4>2
    <3> QED
      BY <3>2, <3>3 DEF OutcomeInv
  <2>9. ReadyInv(p)'
    BY <2>0, <2>2, <2>4, <2>5 DEF ProbeInv, ReadyInv, Entered
  <2> QED
    BY <1>a, <2>3, <2>6, <2>7, <2>8, <2>9, RestKeeps DEF VerdictInv, ProbeInv
<1>8. ASSUME NEW p \in Probes, ChecksDone(p) PROVE VerdictInv'
  <2>0. /\ ProbeInv(p) /\ pc[p] = "checks"
        /\ checkNo[p] > Len(Registered[Phase(p)])
    BY <1>a, <1>8 DEF ChecksDone, VerdictInv
  <2>1. ASSUME NEW q \in Probes PROVE Steady(q) /\ (q # p => Rests(q))
    BY <1>8, <1>t DEF ChecksDone, AdvancePhase, TypeOK, DoneClosed
  <2>2. UNCHANGED <<flagVars, callVars, gone, checkNo, call, outcome, failed, code, draining>>
    BY <1>8 DEF ChecksDone
  <2>3. phaseNo[p] \in 1..Len(Reported(p)) /\ Phase(p) = Reported(p)[phaseNo[p]]
    BY <1>t DEF TypeOK, Phase, Reported
  <2>4. \/ phaseNo[p] < Len(Reported(p)) /\ phaseNo'[p] = phaseNo[p] + 1 /\ pc'[p] = "phase"
        \/ phaseNo[p] = Len(Reported(p)) /\ phaseNo'[p] = phaseNo[p] /\ pc'[p] = "respond"
    BY <1>8, <1>t, <2>3, ReportedType DEF ChecksDone, AdvancePhase, TypeOK, Reported
  <2>5. checkNo[p] \in Nat /\ \A k \in 1..Len(Registered[Phase(p)]) : k < checkNo[p]
    BY <1>t, <2>0, PhaseType, RegisteredType DEF TypeOK
  <2>6. \A n \in 1..Len(Reported(p)) : \A k \in 1..Len(Registered[Reported(p)[n]]) :
            Passed(p, n, k)' <=> Passed(p, n, k)
    BY <2>0, <2>3, <2>4, <2>5, ReportedType DEF Passed
  <2>7. PositionInv(p)' /\ CodeInv(p)'
    BY <2>0, <2>2, <2>3, <2>4, ReportedType DEF ProbeInv, PositionInv, CodeInv
  <2>8. FreshInv(p)'
    BY <2>0, <2>2, <2>6 DEF ProbeInv, FreshInv
  <2>9. OutcomeInv(p)'
    BY <2>0, <2>2, <2>6 DEF ProbeInv, OutcomeInv, BackedBy, DoneClosed
  <2>10. ReadyInv(p)'
    BY <2>0, <2>2, <2>3, <2>4, ReportedType DEF ProbeInv, ReadyInv, Entered
  <2> QED
    BY <1>a, <2>1, <2>7, <2>8, <2>9, <2>10, RestKeeps DEF VerdictInv, ProbeInv
<1>9. ASSUME NEW p \in Probes, Respond(p) PROVE VerdictInv'
  <2>0. ProbeInv(p) /\ pc[p] = "respond"
    BY <1>a, <1>9 DEF Respond, VerdictInv
  <2>1. ASSUME NEW q \in Probes PROVE Steady(q) /\ (q # p => Rests(q))
    BY <1>9, <1>t DEF Respond, TypeOK, DoneClosed
  <2>2. /\ pc'[p] = "done" /\ (code'[p] = 200 => failed[p] = {})
        /\ UNCHANGED <<flagVars, callVars, phaseNo, checkNo, call, outcome, failed, draining>>
    BY <1>9, <1>t DEF Respond, TypeOK
  <2>3. PositionInv(p)' /\ CodeInv(p)'
    BY <2>0, <2>2 DEF ProbeInv, PositionInv, CodeInv, Phase
  <2>4. \A n \in 1..Len(Reported(p)) : \A k \in 1..Len(Registered[Reported(p)[n]]) :
            Passed(p, n, k)' <=> Passed(p, n, k)
    BY <2>0, <2>2 DEF Passed
  <2>5. FreshInv(p)'
    BY <2>0, <2>2, <2>4 DEF ProbeInv, FreshInv
  <2>6. OutcomeInv(p)'
    BY <2>0, <2>2, <2>4 DEF ProbeInv, OutcomeInv, BackedBy, DoneClosed
  <2>7. ReadyInv(p)'
    BY <2>0, <2>2 DEF ProbeInv, ReadyInv, Entered
  <2>8. ProbeInv(p)'
    BY <2>3, <2>5, <2>6, <2>7 DEF ProbeInv
  <2> QED
    BY <1>a, <2>1, <2>8, RestKeeps DEF VerdictInv
<1> QED
  BY <1>a, <1>1, <1>2, <1>3, <1>4, <1>5, <1>6, <1>7, <1>8, <1>9 DEF Next, Probe, runCheck

-----------------------------------------------------------------------------
(* The theorems. *)

\* IInv is an invariant of the registry.
THEOREM Invariance == Spec => []IInv
  BY InitIInv, NextIInv, PTL DEF Spec

\* The variables of the registry keep their types.
THEOREM TypeCorrect == Spec => []TypeOK
<1>1. IInv => TypeOK
  BY DEF IInv
<1> QED
  BY <1>1, Invariance, PTL

\* At most one goroutine runs a check at any time, however many probes arrive
\* and however long a check ignores its cancellation.
THEOREM OneRunPerCheck == Spec => []SingleExecution
<1>1. IInv => SingleExecution
  BY CallsType DEF IInv, SlotInv, SingleExecution
<1> QED
  BY <1>1, Invariance, PTL

\* No probe reports a check as failed because its shared call was cleaned up.
THEOREM CancelIsPrivate == Spec => []NoSpuriousCancel
<1>1. IInv => NoSpuriousCancel
  BY DEF IInv
<1> QED
  BY <1>1, Invariance, PTL
\* VerdictInv is an invariant of the registry.
THEOREM VerdictInvariance == Spec => []VerdictInv
  BY InitVerdict, NextVerdict, Invariance, PTL DEF Spec

\* A response 200 vouches for its phases: every check of them was run, returned
\* nil and was reported ok to this probe there; no success outvotes a failure, and
\* a probe that shared the call differs only by its own going or the deadline.
THEOREM HealthyIsChecked == Spec => []HealthyMeansChecked
<1>1. IInv /\ VerdictInv => HealthyMeansChecked
  <2>1. SUFFICES ASSUME IInv, VerdictInv, NEW p \in Probes, code[p] = 200,
                        NEW f \in VouchedFor(Kind[p])
                 PROVE  /\ \A k \in 1..Len(Registered[f]) : \E i \in Calls :
                              /\ CheckOf(i) = Registered[f][k]
                              /\ DoneClosed(i) /\ err[i] = "nil"
                              /\ <<i, "ok", f>> \in outcome[p]
                              /\ \A q \in Probes : \A o \in outcome[q] : o[1] = i =>
                                    \/ o[2] \in {"ok", "requestCanceled"}
                                    \/ o[2] = "timeout" /\ ctx[i] = "deadline"
                        /\ \A o \in outcome[p] : o[3] = f => o[2] = "ok"
    BY DEF HealthyMeansChecked
  <2>2. ProbeInv(p) /\ pc[p] = "done" /\ failed[p] = {} /\ phaseNo[p] = Len(Reported(p))
    BY <2>1 DEF VerdictInv, ProbeInv, CodeInv, PositionInv
  <2>3. PICK n \in 1..Len(Reported(p)) : f = Reported(p)[n]
    <3>1. Kind[p] \in Kinds
      BY HealthAssumption
    <3> QED
      BY <2>1, <3>1 DEF VouchedFor, Reported, Evaluated, Kinds, Phases
  <2>4. f \in Phases
    BY <2>3, ReportedType
  <2>5. ASSUME NEW q \in Probes, NEW o \in outcome[q]
        PROVE  \E i \in Calls, r \in Outcomes, g \in Phases : o = <<i, r, g>>
    <3>1. outcome[q] \in SUBSET (Calls \X Outcomes \X Phases)
      BY <2>1 DEF IInv, TypeOK
    <3> QED
      BY <2>5, <3>1
  <2>6. ASSUME NEW o \in outcome[p], o[3] = f PROVE o[2] = "ok"
    <3>1. PICK i \in Calls, r \in Outcomes, g \in Phases : o = <<i, r, g>>
      BY <2>5
    <3> QED
      BY <2>2, <2>6, <3>1 DEF ProbeInv, OutcomeInv
  <2>7. ASSUME NEW k \in 1..Len(Registered[f])
        PROVE  \E i \in Calls :
                  /\ CheckOf(i) = Registered[f][k]
                  /\ DoneClosed(i) /\ err[i] = "nil"
                  /\ <<i, "ok", f>> \in outcome[p]
                  /\ \A q \in Probes : \A o \in outcome[q] : o[1] = i =>
                        \/ o[2] \in {"ok", "requestCanceled"}
                        \/ o[2] = "timeout" /\ ctx[i] = "deadline"
    <3>1. Passed(p, n, k)
      BY <2>2, ReportedType DEF Passed
    <3>2. PICK i \in Calls : CheckOf(i) = Registered[f][k] /\ <<i, "ok", f>> \in outcome[p]
      BY <2>2, <2>3, <3>1 DEF ProbeInv, OutcomeInv
    <3>3. DoneClosed(i) /\ err[i] = "nil"
      BY <2>2, <2>4, <3>2 DEF ProbeInv, OutcomeInv, BackedBy, Outcomes
    <3>4. ASSUME NEW q \in Probes, NEW o \in outcome[q], o[1] = i
          PROVE  o[2] \in {"ok", "requestCanceled"} \/ (o[2] = "timeout" /\ ctx[i] = "deadline")
      <4>1. PICK r \in Outcomes, g \in Phases : o = <<i, r, g>>
        BY <2>5, <3>4
      <4>2. BackedBy(i, r)
        BY <2>1, <4>1 DEF VerdictInv, ProbeInv, OutcomeInv
      <4>3. r # "callCanceled"
        BY <2>1, <4>1 DEF IInv, NoSpuriousCancel
      <4> QED
        BY <3>3, <4>1, <4>2, <4>3 DEF BackedBy, Outcomes
    <3> QED
      BY <3>2, <3>3, <3>4
  <2> QED
    BY <2>6, <2>7
<1> QED
  BY <1>1, Invariance, VerdictInvariance, PTL

\* Readiness is granted only to a probe that came before shutdown began and only
\* after startup was complete.
THEOREM ReadinessFailsClosed == Spec => []ReadyFailsClosed
<1>1. VerdictInv => ReadyFailsClosed
  <2>1. SUFFICES ASSUME VerdictInv, NEW p \in Probes, code[p] = 200,
                        Kind[p] \in {"ready", "summary"}
                 PROVE  started /\ ~draining[p]
    BY DEF ReadyFailsClosed
  <2>2. ProbeInv(p) /\ pc[p] = "done" /\ failed[p] = {} /\ phaseNo[p] = Len(Reported(p))
    BY <2>1 DEF VerdictInv, ProbeInv, CodeInv, PositionInv
  <2>3. \E n \in 1..Len(Reported(p)) : Reported(p)[n] = "ready"
    BY <2>1 DEF Reported, Evaluated
  <2> QED
    BY <2>2, <2>3, ReportedType DEF ProbeInv, ReadyInv, Entered
<1> QED
  BY <1>1, VerdictInvariance, PTL
=============================================================================
