---------------------------- MODULE MCBootstrap ----------------------------
(* The instance of Bootstrap that TLC checks: three services while two       *)
(* extensions and one without a name are offered again and again.            *)
EXTENDS Bootstrap

Ext(n, b) == [name |-> n, body |-> b]

Offered == {Ext("audit", 1), Ext("quota", 1), Ext("", 1)}

\* Services are told apart by nothing but their steps.
Symmetry == Permutations(Providers)
=============================================================================
