--------------------------- MODULE EvidencePoolMC ---------------------------
(* Instances of EvidencePool for TLC. *)
EXTENDS EvidencePool, TLC

CONSTANTS c, l

MCEvidence == {c, l}
\* l is a light client attack on the first height, c are conflicting votes of
\* the second
MCHeightOf == (l :> 1) @@ (c :> 2)
MCSymmetry == Permutations(Adders)
=============================================================================
