---------------------------- MODULE TendermintMC -----------------------------
(* Four validators of power 1, one of them faulty; the faulty one has signed *)
(* every possible vote, the worst case for the correct ones: they can see    *)
(* each of its votes at any time.                                            *)
EXTENDS Tendermint, FiniteSets, TLC

CONSTANTS c1, c2, c3, f1, a, b

PowerOfDef(S) == Cardinality(S)

ASSUME FaultyMinority

AllFaultyVotes == VotesOf(Faulty)

Symmetry == Permutations({c1, c2, c3}) \cup Permutations({a, b})
=============================================================================
