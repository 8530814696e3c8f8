--------------------------- MODULE VoteSetGossipMC ---------------------------
(* Four validators of unequal power, one of them faulty; total power 7, the *)
(* quorum is 5.                                                             *)
EXTENDS VoteSetGossip, FiniteSetsExt

CONSTANTS v1, v2, v3, v4

PowerDef(v) == CASE v = v1 -> 2 [] v = v2 -> 2 [] v = v3 -> 1 [] v = v4 -> 2

PowerOfDef(S) == MapThenSumSet(PowerDef, S)
=============================================================================
