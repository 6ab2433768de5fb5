------------------------- MODULE MCMuxBackpressure -------------------------
(***************************************************************************)
(* Instances of MuxBackpressure: few calls of Open, and as many as fill    *)
(* all queues.                                                             *)
(***************************************************************************)
EXTENDS MuxBackpressure

Few  == [p \in Peers |-> 2]
Many == [p \in Peers |-> 6]

=============================================================================
