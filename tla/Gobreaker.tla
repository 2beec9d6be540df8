----------------------------- MODULE Gobreaker -----------------------------
(***************************************************************************)
(* github.com/sony/gobreaker as go/middleware uses it: Execute asks        *)
(* beforeRequest, runs the request, and reports to afterRequest whether it *)
(* returned an error.  A report of an earlier generation is ignored.  The  *)
(* timers are steps of their own.                                          *)
(***************************************************************************)
EXTENDS Naturals

CONSTANTS
    TripAfter,      \* CircuitBreakerConfig.ReadyToTrip
    MaxRequests,    \* CircuitBreakerConfig.MaxRequests
    MaxExpiries     \* bound: how often Interval or Timeout runs out

ASSUME BreakerAssumption ==
    /\ TripAfter \in Nat \ {0}
    /\ MaxRequests \in Nat \ {0}
    /\ MaxExpiries \in Nat

VARIABLES
    state,          \* "closed", "half-open" or "open"
    generation,     \* counts state changes and cleared intervals
    counts,         \* requests, consecutive successes and failures
    expiries        \* history: timers run out

breakerVars == <<state, generation, counts, expiries>>

NoCounts == [requests |-> 0, successes |-> 0, failures |-> 0]

BreakerTypeOK ==
    /\ state \in {"closed", "half-open", "open"}
    /\ generation \in Nat
    /\ counts \in [requests : Nat, successes : Nat, failures : 0..(TripAfter - 1)]
    /\ expiries \in 0..MaxExpiries

BreakerInit ==
    /\ state = "closed"
    /\ generation = 0
    /\ counts = NoCounts
    /\ expiries = 0

\* The code's ReadyToTrip function.
ReadyToTrip(failures) == failures >= TripAfter

setState(s) ==
    /\ state' = s
    /\ generation' = generation + 1
    /\ counts' = NoCounts

\* beforeRequest, without and with error.
Admits == state = "closed" \/ (state = "half-open" /\ counts.requests < MaxRequests)

onRequest ==
    /\ counts' = [counts EXCEPT !.requests = @ + 1]
    /\ UNCHANGED <<state, generation, expiries>>

onSuccess ==
    IF state = "half-open" /\ counts.successes + 1 >= MaxRequests
    THEN setState("closed")
    ELSE /\ counts' = [counts EXCEPT !.successes = @ + 1, !.failures = 0]
         /\ UNCHANGED <<state, generation>>

onFailure ==
    IF state = "half-open" \/ ReadyToTrip(counts.failures + 1)
    THEN setState("open")
    ELSE /\ counts' = [counts EXCEPT !.failures = @ + 1, !.successes = 0]
         /\ UNCHANGED <<state, generation>>

afterRequest(g, success) ==
    /\ \/ g # generation /\ UNCHANGED <<state, generation, counts>>
       \/ g = generation /\ success /\ onSuccess
       \/ g = generation /\ ~success /\ onFailure
    /\ UNCHANGED expiries

\* Interval clears the counts of a closed breaker, Timeout half-opens an open
\* one.
BreakerExpire ==
    /\ expiries < MaxExpiries
    /\ expiries' = expiries + 1
    /\ \/ state = "closed" /\ setState("closed")
       \/ state = "open" /\ setState("half-open")
=============================================================================
