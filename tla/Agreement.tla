------------------------------ MODULE Agreement ------------------------------
(***************************************************************************)
(* What consensus on one height promises: nothing is decided at first, and *)
(* at most one block is ever decided.                                      *)
(***************************************************************************)
CONSTANT Blocks

VARIABLE decided     \* the blocks that are decided

Init == decided = {}

Decide ==
  /\ decided = {}
  /\ \E b \in Blocks : decided' = {b}

Spec == Init /\ [][Decide]_decided
=============================================================================
