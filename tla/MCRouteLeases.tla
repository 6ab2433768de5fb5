--------------------------- MODULE MCRouteLeases ---------------------------
(***************************************************************************)
(* Instances of RouteLeases: one or two callers.                           *)
(***************************************************************************)
EXTENDS RouteLeases, TLC

CONSTANTS c1, c2

Symmetry == Permutations(Callers)

=============================================================================
