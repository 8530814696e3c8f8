---------------------------- MODULE LightClientMC ----------------------------
(* The set of four validators moves on by one per height, so that two thirds *)
(* of a block's validators are still there two heights later, and one        *)
(* quarter three heights later.                                              *)
EXTENDS LightClient

CONSTANTS p, w, x

MCPowerOf(S) == Cardinality(S)

\* Blocks c1 to c5 are the chain.  Block two is signed by a third of the
\* validators of height 2, few by too few of its own, and as late as the block
\* above it; low is below the root.
HeaderOf(h, before, V, S) ==
    [height |-> h, last |-> before, time |-> h, vals |-> V, next |-> V, signers |-> S]

Canon(h, before) ==
    [HeaderOf(h, before, h..(h + 3), h..(h + 3)) EXCEPT !.next = (h + 1)..(h + 4)]

MCHeader ==
    [c1 |-> Canon(1, "c0"), c2 |-> Canon(2, "c1"), c3 |-> Canon(3, "c2"),
     c4 |-> Canon(4, "c3"), c5 |-> Canon(5, "c4"),
     two |-> HeaderOf(4, "few", {2, 3}, {2, 3}),
     few |-> [HeaderOf(3, "c2", 3..6, {3}) EXCEPT !.time = 4],
     low |-> HeaderOf(1, "c0", {3}, {3})]

\* At time 6 the blocks of heights 1 and 2 have expired.
MCCorrupt == [t \in {5, 6} |-> IF t = 6 THEN 1..3 ELSE {3}]

World(forks, correct, ws, mode) ==
    [forks |-> forks, correct |-> correct, primary |-> p, witnesses |-> ws, mode |-> mode]

MCWorlds ==
    {World({}, {}, <<w, x>>, "skipping"), World({}, {}, <<w>>, "sequential")}
      \cup {World({"two"}, {c}, <<w>>, "skipping") : c \in {p, w}}
=============================================================================
