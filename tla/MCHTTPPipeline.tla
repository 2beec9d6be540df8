--------------------------- MODULE MCHTTPPipeline ---------------------------
(* The instance of HTTPPipeline that TLC checks: two requests to the product,*)
(* one of which fails with 500, and one that probes, scrapes or is redirected,*)
(* through three assemblies.                                                 *)
EXTENDS HTTPPipeline

CONSTANTS q1, q2, q3

OneBucket == <<1>>

SendsMC ==
    q1 :> {"/v1/chat"} @@ q2 :> {"/v1/chat"} @@ q3 :> {"/v1", "/health/ready", "/metrics"}

Fails == [op |-> "WriteHeader", code |-> 500]

CallsMC == q1 :> Op \ {Fails} @@ q2 :> {Fails} @@ q3 :> {}

LatenciesMC == q1 :> {1} @@ q2 :> {2} @@ q3 :> {1}

Assembly(preset, health, metrics, root) ==
    [preset |-> preset, healthRoutes |-> health, metricsRoute |-> metrics, root |-> root]

ConfigsMC ==
    {Assembly(TRUE, TRUE, TRUE, <<"RateLimit", "CircuitBreaker">>),
     Assembly(FALSE, TRUE, TRUE, <<"CircuitBreaker", "MaxBodySize">>),
     Assembly(TRUE, FALSE, FALSE, <<"CORS">>)}
=============================================================================
