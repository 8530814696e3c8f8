------------------------------ MODULE StorageMC ------------------------------
EXTENDS Storage

CONSTANTS v1, v2, p1, p2

(* A block changes the validators to v2 (perhaps from v2, with an update     *)
(* that changes nothing), the parameters to p2, or neither.                  *)
SomeUpdates == {<<None, None>>, <<v2, None>>, <<None, p2>>}
=============================================================================
