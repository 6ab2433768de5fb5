--------------------------- MODULE MCRemoteQueue ---------------------------
(***************************************************************************)
(* An instance of RemoteQueue: two providers.                              *)
(***************************************************************************)
EXTENDS RemoteQueue

CONSTANTS p1, p2

=============================================================================
