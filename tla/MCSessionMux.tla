--------------------------- MODULE MCSessionMux ---------------------------
(* Instances of SessionMux for TLC. *)
EXTENDS SessionMux

Each(i, r) == [p \in Peers |-> IF p = "initiator" THEN i ELSE r]

One       == Each(1, 1)
OneZero   == Each(1, 0)
Two       == Each(2, 2)
TwoZero   == Each(2, 0)
ThreeZero == Each(3, 0)
ThreeTwo  == Each(3, 2)
=============================================================================
