------------------------- MODULE MCEvidenceJournal -------------------------
(***************************************************************************)
(* Instances of EvidenceJournal: an agent with two connections.            *)
(***************************************************************************)
EXTENDS EvidenceJournal, TLC

CONSTANTS c1, c2

Symmetry == Permutations(Conns)

=============================================================================
