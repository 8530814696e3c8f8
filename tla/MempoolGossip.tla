---------------------------- MODULE MempoolGossip ----------------------------
(***************************************************************************)
(* mempool/reactor.go: broadcastTxRoutine for one peer, over the concurrent *)
(* list of libs/clist that Mempool's steps change at the same time.         *)
(*                                                                         *)
(* walk.path starts with the element the routine is at (next in the code).  *)
(* An element that is removed keeps its next pointer, so that the routine   *)
(* may walk over removed elements: path lists them in order.  Its last      *)
(* element is in the list as long as walk.live holds.  got are the          *)
(* transactions sent since they were added.                                *)
(***************************************************************************)
EXTENDS Mempool

CONSTANT Peer    \* the peer

VARIABLES walk, got, peerHeight

gossipVars == <<walk, got, peerHeight>>

nowhere == [path |-> <<>>, live |-> FALSE, sent |-> FALSE]

GossipInit == Init /\ walk = nowhere /\ got = {} /\ peerHeight = 0

Element(p, t) == [tx |-> t, height |-> p.heights[t], isSender |-> Peer \in p.senders[t]]

At(p, t) == [path |-> <<Element(p, t)>>, live |-> TRUE, sent |-> FALSE]

(* What CList.Remove of t does to the elements the routine can reach: the    *)
(* last one, if it is t's, now points to t's successor for ever.             *)
removeFromPath(w, p, t) ==
  IF w.path = <<>> \/ ~w.live \/ Last(w.path).tx # t THEN w
  ELSE LET kept == [w.path EXCEPT ![Len(w.path)] = Element(p, t)]
           n == NextOf(t, p.txs)
       IN IF n = None THEN [w EXCEPT !.path = kept, !.live = FALSE]
          ELSE [w EXCEPT !.path = Append(kept, Element(p, n))]

(* A step of the mempool removes at most one transaction. *)
MempoolStep ==
  /\ Next
  /\ LET gone == ToSet(pool.txs) \ ToSet(pool'.txs)
     IN /\ walk' = IF gone = {} THEN walk
                   ELSE removeFromPath(walk, pool, CHOOSE t \in gone : TRUE)
        /\ got' = got \ gone
  /\ UNCHANGED peerHeight

OnLiveElement == Len(walk.path) = 1 /\ walk.live

Current == IF OnLiveElement THEN Element(pool, walk.path[1].tx) ELSE walk.path[1]

StartFromFront ==
  /\ walk.path = <<>>
  /\ pool.txs # <<>>
  /\ walk' = At(pool, Head(pool.txs))
  /\ UNCHANGED <<vars, got, peerHeight>>

(* Send the current transaction unless the peer sent it to us.  A failed     *)
(* send is tried again.                                                      *)
SendTx ==
  /\ walk.path # <<>>
  /\ ~walk.sent
  /\ peerHeight + 1 >= Current.height
  /\ walk' = [walk EXCEPT !.sent = TRUE]
  /\ got' = IF OnLiveElement /\ ~Current.isSender THEN got \cup {Current.tx} ELSE got
  /\ UNCHANGED <<vars, peerHeight>>

Advance_WaitForNext ==
  /\ walk.path # <<>>
  /\ walk.sent
  /\ IF OnLiveElement
     THEN /\ NextOf(Current.tx, pool.txs) # None
          /\ walk' = At(pool, NextOf(Current.tx, pool.txs))
     ELSE /\ Len(walk.path) > 1
          /\ walk' = [walk EXCEPT !.path = Tail(@), !.sent = FALSE]
  /\ UNCHANGED <<vars, got, peerHeight>>

(* NextWaitChan is closed when the element gets a next one or is removed. *)
Advance ==
  /\ walk.path # <<>>
  /\ walk.sent
  /\ IF OnLiveElement
     THEN /\ NextOf(Current.tx, pool.txs) # None
          /\ walk' = At(pool, NextOf(Current.tx, pool.txs))
     ELSE walk' = IF Len(walk.path) = 1 THEN nowhere
                  ELSE [walk EXCEPT !.path = Tail(@), !.sent = FALSE]
  /\ UNCHANGED <<vars, got, peerHeight>>

(* The consensus reactor records the peer's height; SendTx does not look     *)
(* beyond the height before ours.                                            *)
PeerAdvances ==
  /\ peerHeight + 1 < app.height
  /\ peerHeight' = peerHeight + 1
  /\ UNCHANGED <<vars, walk, got>>

GossipNext ==
  \/ MempoolStep
  \/ ~pool.panicked /\ (StartFromFront \/ SendTx \/ Advance \/ PeerAdvances)

(* Goroutines that can run do, the application answers, and updateMtx does   *)
(* not starve a writer.                                                      *)
FairSpec ==
  /\ GossipInit
  /\ [][GossipNext]_<<vars, gossipVars>>
  /\ WF_vars(AppAnswers \/ Deliver \/ LocalRecheck)
  /\ WF_vars(\E c \in calls : SetCallback(c))
  /\ WF_vars(LockSwaps \/ CommitBlock) /\ SF_vars(LockAndFlush)
  /\ WF_vars(Update \/ UpdateTx \/ recheckTxs \/ RecheckDone \/ RecheckTimeout \/ UpdateEnds)
  /\ WF_gossipVars(StartFromFront \/ SendTx \/ Advance)
-----------------------------------------------------------------------------
(* Every check that CheckTx starts ends with its callback, as the contract   *)
(* of CheckTx says; every Commit gets the lock; every Update ends.           *)
ChecksAndCommitsEnd ==
  /\ \A t \in Txs : UnderWay(t) ~> ~UnderWay(t)
  /\ cons.pc # "idle" /\ app.height < MaxHeight ~> cons.pc = "idle"
  /\ upd.pc # "idle" ~> upd.pc = "idle"

(* A transaction that stays in the mempool is sent to the peer, unless it    *)
(* came from there or the peer stays behind: whatever elements are removed   *)
(* under its feet, broadcastTxRoutine skips none.                            *)
TxsReachPeer ==
  []<>(peerHeight + 1 >= pool.height) =>
    \A t \in Txs : In(t, pool.txs) ~> (~In(t, pool.txs) \/ t \in got \/ Peer \in pool.senders[t])
=============================================================================
