-------------------------- MODULE MCHealthRegistry --------------------------
(* The instance of HealthRegistry that TLC checks: a database check that     *)
(* liveness and readiness share, a summary probe and a readiness probe.      *)
EXTENDS HealthRegistry, TLC

CONSTANTS p1, p2, db

Shared          == [live |-> <<db>>, ready |-> <<db>>, startup |-> <<>>]
SummaryAndReady == p1 :> "summary" @@ p2 :> "ready"
=============================================================================
