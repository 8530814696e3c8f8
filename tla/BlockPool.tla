------------------------------ MODULE BlockPool ------------------------------
(***************************************************************************)
(* blocksync/pool.go with poolRoutine of blocksync/reactor.go: block sync.  *)
(*                                                                         *)
(* Every requester is a goroutine (requestRoutine) that shares the pool     *)
(* with makeRequestersRoutine, Receive, the peers' timers and poolRoutine.  *)
(* pool holds the fields of BlockPool.  asked are, for each peer, the       *)
(* requests that reached it and that it has not answered.  plan is the      *)
(* height makeRequestersRoutine has read and makeNextRequester not yet      *)
(* used; sync is poolRoutine after PeekTwoBlocks; applied is the last       *)
(* block applied.  sync.pc is "off" until the pool is started.              *)
(*                                                                         *)
(* A requester has the fields of bpRequester: its peers, the block, who     *)
(* sent it, the channels gotBlockCh (token), redoCh and newHeightCh (note); *)
(* and of requestRoutine: pc, gotBlock (got), and timer, which tells        *)
(* whether retryTimer is on, or has fired when gotBlock was set (spent).    *)
(*                                                                         *)
(* A block is "good" or "bad": VerifyCommitLight and ValidateBlock accept   *)
(* the first of two blocks only if both are good.  A peer that times out or *)
(* is in error leaves the pool when the switch stops it, in one step.  The  *)
(* limit of requests per peer and the rates are left out.                   *)
(***************************************************************************)
EXTENDS Integers, FiniteSets, FiniteSetsExt

CONSTANTS
  Peers,         \* peers this node may connect to
  Faulty,        \* peers that may send bad blocks, or none, and that do not come back
  None,          \* no peer, or no block
  Nothing,       \* an empty redoCh
  Ranges,        \* for each peer, the base and the height it reports
  MinBlocks,     \* minBlocksForSingleRequest
  Extensions,    \* whether vote extensions are enabled at the heights synced
  Blocking,      \* heights whose validators include this node with 1/3 of the power
  Faults,        \* what may go wrong, see Fault
  MaxFaults,     \* bound: how often
  MaxRequesters  \* bound: requesters at a time

ASSUME NoneIsNoPeer == None \notin Peers /\ Nothing \notin Peers \cup {None}
ASSUME NoneIsNoBlock == None \notin {"good", "bad"}
ASSUME FaultyArePeers == Faulty \subseteq Peers
ASSUME RangesAssumption == Ranges \in [Peers -> [base : Nat, height : Nat]]

VARIABLES pool, asked, plan, sync, applied, faults

poolVars == <<pool, asked, plan, sync, applied, faults>>

LastHeight == Max({1} \cup {Ranges[p].height : p \in Peers})

newBPRequester ==
  [pc |-> "pick", peer |-> None, second |-> None, block |-> None, from |-> None,
   token |-> FALSE, got |-> FALSE, redo |-> Nothing, note |-> 0, timer |-> "off"]

PoolInit ==
  /\ pool = [height |-> 1, startHeight |-> 1, requesters |-> <<>>, peers |-> {}, maxPeerHeight |-> 0]
  /\ asked = [p \in Peers |-> {}]
  /\ plan = 0
  /\ sync = [pc |-> "off", at |-> 0]
  /\ applied = 0
  /\ faults = 0

Heights == DOMAIN pool.requesters

Fault(kind) == kind \in Faults /\ faults < MaxFaults /\ faults' = faults + 1

didRequestFrom(r, p) == r.peer = p \/ r.second = p

requestedFrom(r) == {r.peer, r.second} \ {None}

(* bpRequester.redo: dropped if one is waiting. *)
redo(r, p) == IF r.redo = Nothing THEN [r EXCEPT !.redo = p] ELSE r

(* bpRequester.reset *)
reset(r, p) ==
  LET s == IF r.from = p THEN [r EXCEPT !.block = None, !.from = None] ELSE r
  IN IF r.peer = p THEN [s EXCEPT !.peer = None] ELSE [s EXCEPT !.second = None]

(* SetPeerRange *)
SetPeerRange(b, p) ==
  [b EXCEPT !.peers = @ \cup {p}, !.maxPeerHeight = Max({@, Ranges[p].height})]

(* removePeer with updateMaxPeerHeight; p may be None, the ID of no peer. *)
leavePool(b, p) ==
  [b EXCEPT !.peers = @ \ {p},
            !.maxPeerHeight = IF Ranges[p].height = @
                              THEN Max({0} \cup {Ranges[q].height : q \in b.peers \ {p}}) ELSE @]

removePeer(b, p) ==
  LET c == [b EXCEPT !.requesters =
              [h \in DOMAIN @ |-> IF didRequestFrom(@[h], p) THEN redo(@[h], p) ELSE @[h]]]
  IN IF p \in b.peers THEN leavePool(c, p) ELSE c

(* A requester that is late has not yet read that it got a block, or that it *)
(* lost a peer, when its timer fires or when poolRoutine looks again.        *)
CaughtOn(r) == r.pc = "wait" => ~r.token /\ r.redo = Nothing

WithRequester(b, h, r) == [b EXCEPT !.requesters[h] = r]

(* pickIncrAvailablePeer *)
Available(b, h, exclude) == {p \in b.peers \ {exclude} : h \in Ranges[p].base..Ranges[p].height}
-----------------------------------------------------------------------------
(* makeRequestersRoutine.  The next height is read under one lock and used   *)
(* under another.                                                            *)
PlanRequester ==
  /\ plan = 0
  /\ pool.peers # {}
  /\ Cardinality(Heights) < MaxRequesters
  /\ pool.height + Cardinality(Heights) <= pool.maxPeerHeight
  /\ plan' = pool.height + Cardinality(Heights)
  /\ UNCHANGED <<pool, asked, sync, applied, faults>>

makeNextRequester ==
  /\ plan # 0
  /\ pool' = [pool EXCEPT !.requesters =
                [h \in Heights \cup {plan} |-> IF h = plan THEN newBPRequester ELSE @[h]]]
  /\ plan' = 0
  /\ UNCHANGED <<asked, sync, applied, faults>>
-----------------------------------------------------------------------------
(* requestRoutine.  pickPeerAndSendRequest picks a peer under the pool's     *)
(* lock and stores it under its own.  If the peer has left in between, it    *)
(* is asked in vain and no redo tells; a full send queue has the same effect.*)
Ask(h, ps) == asked' = [p \in Peers |-> IF p \in ps THEN asked[p] \cup {h} ELSE asked[p]]

SendRequests(h, ps) ==
  \/ Ask(h, ps) /\ UNCHANGED faults
  \/ \E p \in ps : Fault("lost") /\ Ask(h, ps \ {p})

PickPeers(h) ==
  LET r == pool.requesters[h]
      seconds(p) == IF h - pool.height < MinBlocks /\ r.second = None THEN Available(pool, h, p) ELSE {}
  IN /\ r.pc = "pick"
     /\ \E p \in Available(pool, h, r.second) :
          \E q \in IF seconds(p) = {} THEN {r.second} ELSE seconds(p) :
            /\ pool' = WithRequester(pool, h, [r EXCEPT !.peer = p, !.second = q, !.pc = "wait", !.timer = "on"])
            /\ SendRequests(h, {p, q} \ {None, r.second})
     /\ UNCHANGED <<plan, sync, applied>>

RetryTimeout_NoRetry(h) ==
  LET r == pool.requesters[h]
  IN /\ r.pc = "wait"
     /\ r.timer = "on"
     /\ pool' = WithRequester(pool, h, [r EXCEPT !.timer = IF r.got THEN "spent" ELSE "off"])
     /\ UNCHANGED <<asked, plan, sync, applied, faults>>

(* A timer that fires while the requester thinks it has its block is not     *)
(* started again.                                                            *)
RetryTimeout(h) ==
  LET r == pool.requesters[h]
  IN /\ r.pc = "wait"
     /\ r.timer = "on"
     /\ pool' = WithRequester(pool, h,
          IF r.got THEN [r EXCEPT !.timer = "spent"]
          ELSE [reset(reset(r, r.peer), r.second) EXCEPT !.timer = "off", !.pc = "pick"])
     /\ CASE \E p \in requestedFrom(r) : h \in asked[p] -> Fault("slow")
          [] r.token -> Fault("late")
          [] OTHER -> UNCHANGED faults
     /\ UNCHANGED <<asked, plan, sync, applied>>

Redo(h) ==
  LET r == pool.requesters[h]
      s == IF didRequestFrom(r, r.redo) THEN reset(r, r.redo) ELSE r
      t == [s EXCEPT !.redo = Nothing, !.got = @ /\ ~(didRequestFrom(r, r.redo) /\ r.from = r.redo)]
  IN /\ r.pc = "wait"
     /\ r.redo # Nothing
     /\ pool' = WithRequester(pool, h,
          IF requestedFrom(t) = {} THEN [t EXCEPT !.timer = "off", !.pc = "pick"] ELSE t)
     /\ IF r.token THEN Fault("late") ELSE UNCHANGED faults
     /\ UNCHANGED <<asked, plan, sync, applied>>

(* pickSecondPeerAndSendRequest after newHeightCh.  If the timer has fired   *)
(* and its channel was read, the routine that wants to restart it waits for  *)
(* the channel for ever.                                                     *)
NewHeight(h) ==
  LET r == pool.requesters[h]
      s == [r EXCEPT !.note = 0]
      wanted == ~r.got /\ h - r.note < MinBlocks /\ r.second = None
  IN /\ r.pc = "wait"
     /\ r.note # 0
     /\ IF wanted /\ Available(pool, h, r.peer) # {}
        THEN \E p \in Available(pool, h, r.peer) :
               /\ pool' = WithRequester(pool, h, [s EXCEPT !.second = p, !.pc = IF r.timer = "on" THEN @ ELSE "stuck"])
               /\ SendRequests(h, {p})
        ELSE pool' = WithRequester(pool, h, s) /\ UNCHANGED <<asked, faults>>
     /\ UNCHANGED <<plan, sync, applied>>

GotBlock(h) ==
  LET r == pool.requesters[h]
  IN /\ r.pc = "wait"
     /\ r.token
     /\ pool' = WithRequester(pool, h, [r EXCEPT !.token = FALSE, !.got = TRUE])
     /\ UNCHANGED <<asked, plan, sync, applied, faults>>
-----------------------------------------------------------------------------
(* Receive.  A peer that was not asked, or that sends a block for a height   *)
(* that was not requested and that is not past, is stopped.                  *)
Stopped(p) == [asked EXCEPT ![p] = {}]

AddBlock(b, p, h, block) ==
  LET r == b.requesters[h]
  IN IF r.block # None THEN b
     ELSE WithRequester(b, h, [r EXCEPT !.block = block, !.from = p, !.token = TRUE])

ReceiveBlock(p, h, block) ==
  /\ h \in asked[p]
  /\ block = "bad" => p \in Faulty
  /\ IF h \in Heights /\ didRequestFrom(pool.requesters[h], p)
     THEN /\ pool' = AddBlock(pool, p, h, block)
          /\ asked' = [asked EXCEPT ![p] = @ \ {h}]
          /\ IF block = "bad" THEN Fault("bad block") ELSE UNCHANGED faults
     ELSE IF h \in Heights \/ h > pool.height
     THEN /\ pool' = removePeer(pool, p)
          /\ asked' = Stopped(p)
          /\ Fault("slow")
     ELSE /\ asked' = [asked EXCEPT ![p] = @ \ {h}]
          /\ UNCHANGED <<pool, faults>>
  /\ UNCHANGED <<plan, sync, applied>>

(* NoBlockResponse: RedoRequestFrom. *)
ReceiveNoBlock(p, h) ==
  /\ h \in asked[p]
  /\ p \in Faulty
  /\ Fault("no block")
  /\ asked' = [asked EXCEPT ![p] = @ \ {h}]
  /\ pool' = IF h \in Heights /\ didRequestFrom(pool.requesters[h], p)
             THEN WithRequester(pool, h, redo(pool.requesters[h], p)) ELSE pool
  /\ UNCHANGED <<plan, sync, applied>>

(* StatusResponse of a peer that is back after its ban. *)
ReceiveStatus(p) ==
  /\ p \notin pool.peers
  /\ p \notin Faulty
  /\ pool' = SetPeerRange(pool, p)
  /\ UNCHANGED <<asked, plan, sync, applied, faults>>

(* The switch stops a peer, or its timer fires: bpPeer.onTimeout.  A faulty  *)
(* peer that does not answer will be stopped.                                *)
StopPeer(p) ==
  /\ p \in pool.peers
  /\ Fault("stop")
  /\ pool' = removePeer(pool, p)
  /\ asked' = Stopped(p)
  /\ UNCHANGED <<plan, sync, applied>>
-----------------------------------------------------------------------------
(* poolRoutine.  PeekTwoBlocks, then verification, then PopRequest, or       *)
(* RemovePeerAndRedoAllPeerRequests for both blocks, one after the other.    *)
PeekTwoBlocks ==
  /\ sync.pc = "idle"
  /\ {pool.height, pool.height + 1} \subseteq Heights
  /\ LET first == pool.requesters[pool.height].block
         second == pool.requesters[pool.height + 1].block
     IN /\ first # None /\ second # None
        /\ sync' = [pc |-> IF first = "good" /\ second = "good" THEN "apply" ELSE "redo", at |-> pool.height]
  /\ IF \A h \in Heights : CaughtOn(pool.requesters[h]) THEN UNCHANGED faults ELSE Fault("late")
  /\ UNCHANGED <<pool, asked, plan, applied>>

newHeights(b) ==
  [b EXCEPT !.requesters =
     [h \in DOMAIN @ |-> IF h - b.height < MinBlocks /\ @[h].note = 0 THEN [@[h] EXCEPT !.note = b.height] ELSE @[h]]]

PopRequest_KeepRequester(b) == newHeights([b EXCEPT !.height = @ + 1])

PopRequest(b) ==
  newHeights([b EXCEPT !.height = @ + 1, !.requesters = [h \in DOMAIN @ \ {b.height} |-> @[h]]])

ApplyVerifiedBlock ==
  /\ sync.pc = "apply"
  /\ pool' = PopRequest(pool)
  /\ applied' = sync.at
  /\ sync' = [pc |-> "idle", at |-> 0]
  /\ UNCHANGED <<asked, plan, faults>>

RemovePeerAndRedoAllPeerRequests ==
  /\ sync.pc \in {"redo", "redo second"}
  /\ LET p == pool.requesters[IF sync.pc = "redo" THEN sync.at ELSE sync.at + 1].from
     IN pool' = removePeer(pool, p) /\ asked' = IF p = None THEN asked ELSE Stopped(p)
  /\ sync' = IF sync.pc = "redo" THEN [sync EXCEPT !.pc = "redo second"] ELSE [pc |-> "idle", at |-> 0]
  /\ UNCHANGED <<plan, applied, faults>>

IsCaughtUp == pool.peers # {} /\ pool.height >= pool.maxPeerHeight - 1

localNodeBlocksTheChain == applied \in Blocking

(* A state that came without its extended commit needs one more block; state*)
(* sync saves none.                                                          *)
missingExtension == applied > 0 /\ Extensions /\ pool.height = pool.startHeight

SwitchToConsensus ==
  /\ sync.pc = "idle"
  /\ ~missingExtension
  /\ IsCaughtUp \/ localNodeBlocksTheChain
  /\ sync' = [sync EXCEPT !.pc = "done"]
  /\ UNCHANGED <<pool, asked, plan, applied, faults>>
-----------------------------------------------------------------------------
Answer(p) ==
  \/ \E h \in asked[p], block \in {"good", "bad"} : ReceiveBlock(p, h, block)
  \/ \E h \in asked[p] : ReceiveNoBlock(p, h)
  \/ asked[p] # {} /\ StopPeer(p)

requestRoutine(h) == PickPeers(h) \/ RetryTimeout(h) \/ Redo(h) \/ NewHeight(h) \/ GotBlock(h)

poolRoutine ==
  \/ PeekTwoBlocks
  \/ ApplyVerifiedBlock
  \/ RemovePeerAndRedoAllPeerRequests
  \/ SwitchToConsensus

Syncing == sync.pc \notin {"off", "done"}

(* OnStart, or SwitchToBlockSync after state sync, with the state of height  *)
(* h.  The peers have sent their status before (AddPeer).                    *)
SwitchToBlockSync(h) ==
  /\ sync.pc = "off"
  /\ pool' = [pool EXCEPT !.height = h + 1, !.startHeight = h + 1, !.peers = Peers,
                          !.maxPeerHeight = Max({0} \cup {Ranges[p].height : p \in Peers})]
  /\ applied' = h
  /\ sync' = [sync EXCEPT !.pc = "idle"]
  /\ UNCHANGED <<asked, plan, faults>>

PoolNext ==
  /\ Syncing
  /\ \/ PlanRequester
     \/ makeNextRequester
     \/ \E h \in Heights : requestRoutine(h)
     \/ \E p \in Peers : Answer(p)
     \/ \E p \in Peers : ReceiveStatus(p)
     \/ \E p \in Peers : StopPeer(p)
     \/ poolRoutine

(* Goroutines that can run do; peers answer or are stopped; a peer that is   *)
(* not faulty comes back.                                                    *)
PoolFair ==
  /\ WF_poolVars(Syncing /\ (PlanRequester \/ makeNextRequester))
  /\ \A h \in 1..LastHeight : WF_poolVars(Syncing /\ h \in Heights /\ requestRoutine(h))
  /\ \A p \in Peers : WF_poolVars(Syncing /\ Answer(p))
  /\ \A p \in Peers \ Faulty : WF_poolVars(Syncing /\ ReceiveStatus(p))
  /\ WF_poolVars(Syncing /\ poolRoutine)

(* The requesters are those of consecutive heights from the pool's height    *)
(* on, also while makeNextRequester uses a height that was read before       *)
(* blocks were popped; the block to pop has its requester; and the state is  *)
(* one block behind.  Otherwise PopRequest, PeekTwoBlocks or poolRoutine     *)
(* panics.  A block is kept only as long as its sender is one of the peers   *)
(* asked, so that the loss of the sender discards it (removePeer, reset).    *)
PoolIsSound ==
  LET last == pool.height + Cardinality(Heights) - 1
  IN /\ Heights = pool.height..last
     /\ plan \in {0, last + 1}
     /\ sync.pc = "apply" => pool.height \in Heights
     /\ applied = pool.height - 1
     /\ \A h \in Heights : LET r == pool.requesters[h] IN r.block # None => didRequestFrom(r, r.from)

(* A requester that waits for a block that will not come: its peers have     *)
(* answered, or have left unnoticed, and its timer is spent.                 *)
Stranded(h) ==
  LET r == pool.requesters[h]
  IN /\ r.timer = "spent"
     /\ \/ r.pc = "stuck"
        \/ /\ r.pc = "wait"
           /\ r.block = None
           /\ r.redo = Nothing
           /\ \A p \in requestedFrom(r) : h \notin asked[p]
=============================================================================
