-------------------------------- MODULE Sync --------------------------------
(***************************************************************************)
(* A node that starts with state sync: startStateSync of node/setup.go runs *)
(* StateSync, and hands the state of the snapshot over to BlockPool.  The   *)
(* peers serve both.                                                        *)
(***************************************************************************)
EXTENDS BlockPool, StateSync

vars == <<poolVars, stateVars>>

Init == PoolInit /\ StateInit

(* Sync of the reactor drops the syncer: chunks that are late are ignored.   *)
(* If Bootstrap or SaveSeenCommit fails, block sync is not started.          *)
startStateSync ==
  /\ syncer.pc = "done"
  /\ snapshots' = [snapshots EXCEPT !.peers = [s \in Snapshots |-> {}],
                                    !.badFormats = {}, !.badPeers = {}, !.badSnapshots = {}]
  /\ chunks' = ClosedQueue
  /\ late' = 0
  /\ requests' = {}
  /\ app' = <<>>
  /\ wishes' = 0
  /\ UNCHANGED fetchers
  /\ \/ /\ SwitchToBlockSync(syncer.snapshot.height)
        /\ syncer' = [pc |-> "dropped", snapshot |-> NoOne, chunk |-> 0, attached |-> FALSE]
        /\ mishaps' = 0
     \/ /\ Mishap
        /\ syncer' = [pc |-> "failed", snapshot |-> NoOne, chunk |-> 0, attached |-> FALSE]
        /\ UNCHANGED poolVars

Next ==
  \/ StateNext /\ UNCHANGED poolVars
  \/ startStateSync
  \/ PoolNext /\ UNCHANGED stateVars

Spec == Init /\ [][Next]_vars

FairSpec == Spec /\ StateFair /\ WF_vars(startStateSync) /\ PoolFair

(* The node gets to consensus: state sync ends with the state of a snapshot, *)
(* fails, or runs out of snapshots; after it, bad blocks, missing blocks,    *)
(* lost requests, redo requests that were dropped, slow and lost peers do    *)
(* not keep block sync from catching up as long as one peer is good.  Only a *)
(* requester whose retry timer was spent while it thought it had its block   *)
(* (requestRoutine) can hold it up, if it is never woken up again.           *)
SyncEnds ==
  \/ <>(\/ sync.pc = "done"
        \/ syncer.pc = "failed"
        \/ /\ syncer.pc = "discover"
           /\ \A p \in StatePeers : \A s \in Offered[p] : s \notin Known /\ Add(snapshots, p, s) = snapshots)
  \/ <>[](\E h \in Heights : Stranded(h))
=============================================================================
