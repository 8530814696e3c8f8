------------------------------- MODULE SyncMC -------------------------------
(* Instances of Sync for TLC.                                                *)
EXTENDS Sync

CONSTANTS honest, liar

TheRanges == [x \in Peers |-> [base |-> 1, height |-> 4]]

Snap(format, n) == [height |-> 1, format |-> format, chunks |-> n]

TheSnapshots == {Snap(1, 2), Snap(2, 1)}

TheOffers == [x \in StatePeers |-> IF x = honest THEN {Snap(1, 2)} ELSE TheSnapshots]
=============================================================================
