--------------------------- MODULE MCLinkManager ---------------------------
(***************************************************************************)
(* An instance of LinkManager: two callers that share two transports, and  *)
(* a waiter.                                                               *)
(***************************************************************************)
EXTENDS LinkManager

CONSTANTS c1, c2, w1, t1, t2

=============================================================================
