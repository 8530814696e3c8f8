--------------------------- MODULE CommitRecovery ---------------------------
(***************************************************************************)
(* How a node commits a block and how it recovers when it stops in between *)
(* (consensus/state.go finalizeCommit and OnStart, consensus/replay.go,    *)
(* consensus/wal.go, state/execution.go applyBlock).                       *)
(*                                                                         *)
(* The heights of the chain are decided elsewhere.  At a height the node   *)
(* receives the messages that make it lock and precommit (polka), writes   *)
(* and handles its own precommit (vote), and receives the precommits that  *)
(* decide the block (decide); each is written to the WAL before it is      *)
(* handled, but only the node's own vote is synced.                        *)
(*                                                                         *)
(* On disk:                                                                *)
(*   store      height of the block store;                                 *)
(*   base       its lowest block: the application may let it be pruned;    *)
(*   saved      height and app hash of the State in the state store;       *)
(*   response   height and app hash of the last FinalizeBlock response;    *)
(*   app        the heights the application executed and committed; this   *)
(*              sequence stands for its app hash too;                      *)
(*   wal        the WAL records; the first synced of them are durable.     *)
(* In memory:                                                              *)
(*   pc         what the node is doing;                                    *)
(*   cs         consensus: its height, whether it is locked, the heights   *)
(*              whose own precommit waits in the internal queue, and the   *)
(*              next WAL record to replay (0 when it does not replay);     *)
(*   job        the block being applied: its height, the response of       *)
(*              FinalizeBlock, whether the app is the mock one, and who    *)
(*              applies it.                                                *)
(* sent is the set of heights whose own precommit the node has handled,    *)
(* and so may have gossiped; crashes counts the crashes.                   *)
(***************************************************************************)
EXTENDS Naturals, Sequences

CONSTANTS
  MaxHeight,    \* bound: blocks of the chain
  MaxCrashes,   \* bound: crashes of the node
  AppLoss       \* commits the application may lose when it restarts

ASSUME BoundsAreNat == MaxHeight \in Nat /\ MaxCrashes \in Nat /\ AppLoss \in Nat

VARIABLES store, base, saved, response, app, wal, synced, pc, cs, job, sent, crashes

disk == <<store, base, saved, response, app>>
log == <<wal, synced>>
vars == <<disk, log, pc, cs, job, sent, crashes>>

(* The app hash after the blocks up to h, as the header of h + 1 states it. *)
Chain(h) == [i \in 1 .. h |-> i]

AppHeight == IF app = <<>> THEN 0 ELSE app[Len(app)]

Rec(kind, h) == [kind |-> kind, height |-> h]
Kinds == {"end", "polka", "vote", "decide"}

InWAL(kind, h) == \E i \in 1 .. Len(wal) : wal[i] = Rec(kind, h)

NoJob == [height |-> 0, result |-> <<>>, mock |-> FALSE, caller |-> "none"]
NoCS == [height |-> 0, locked |-> FALSE, queue |-> {}, pos |-> 0]

Init ==
  /\ store = 0 /\ base = 1 /\ app = <<>>
  /\ saved = [height |-> 0, hash |-> <<>>]
  /\ response = [height |-> 0, hash |-> <<>>]
  /\ wal = <<>> /\ synced = 0
  /\ pc = "down" /\ cs = NoCS /\ job = NoJob
  /\ sent = {} /\ crashes = 0
-----------------------------------------------------------------------------
(* ValidateBlock: the app hash in the header of h is the state's. *)
Valid(h) == saved.height + 1 = h /\ saved.hash = Chain(h - 1)

(* applyBlock starts on behalf of caller. *)
StartApply(h, mock, caller) ==
  /\ job' = [height |-> h, result |-> <<>>, mock |-> mock, caller |-> caller]
  /\ pc' = "finalizeBlock"

FinalizeBlock_EmptyMock ==
  /\ pc = "finalizeBlock"
  /\ job' = [job EXCEPT !.result = IF job.mock THEN <<>> ELSE Append(app, job.height)]
  /\ pc' = "saveResponse"
  /\ UNCHANGED <<disk, log, cs, sent, crashes>>

(* The app hash that the mock application answers with: the one of the saved *)
(* response, or of Info if that has none, as one saved by v0.37.             *)
MockAppHash == IF response.hash = <<>> THEN app ELSE response.hash

FinalizeBlock ==
  /\ pc = "finalizeBlock"
  /\ job' = [job EXCEPT !.result = IF job.mock THEN MockAppHash ELSE Append(app, job.height)]
  /\ pc' = "saveResponse"
  /\ UNCHANGED <<disk, log, cs, sent, crashes>>

SaveFinalizeBlockResponse_Late ==
  /\ pc = "saveResponse"
  /\ pc' = "commit"
  /\ UNCHANGED <<disk, log, cs, job, sent, crashes>>

SaveFinalizeBlockResponse ==
  /\ pc = "saveResponse"
  /\ response' = [height |-> job.height, hash |-> job.result]
  /\ pc' = "commit"
  /\ UNCHANGED <<store, base, saved, app, log, cs, job, sent, crashes>>

Commit ==
  /\ pc = "commit"
  /\ app' = IF job.mock THEN app ELSE job.result
  /\ pc' = "saveState"
  /\ UNCHANGED <<store, base, saved, response, log, cs, job, sent, crashes>>

(* pruneBlocks: the retain height that the application answered to Commit    *)
(* (the mock one answers none) may raise the base of the block store.        *)
PruneBlocks == base' \in {base} \cup (IF job.mock THEN {} ELSE base .. job.height)

(* Save, the pruning, and what follows when applyBlock returns: the          *)
(* handshake ends, block sync goes on, or updateToState moves consensus to   *)
(* the next height (a replay of the WAL goes on with its next record).       *)
SaveState ==
  /\ pc = "saveState"
  /\ saved' = [height |-> job.height, hash |-> job.result]
  /\ PruneBlocks
  /\ job' = NoJob
  /\ CASE job.caller = "handshake" -> pc' = "ready" /\ UNCHANGED cs
       [] job.caller = "blocksync" -> pc' = "blocksync" /\ UNCHANGED cs
       [] job.caller = "consensus" ->
            /\ cs' = [cs EXCEPT !.height = job.height + 1, !.locked = FALSE]
            /\ pc' = IF cs.pos = 0 THEN "run" ELSE "replay"
  /\ UNCHANGED <<store, response, app, log, sent, crashes>>
-----------------------------------------------------------------------------
(* Handshake: Info tells the height and the hash of the application; the     *)
(* errors and panics of ReplayBlocks end the process.  InitChain, sent to an *)
(* application at height 0, changes nothing here.                            *)
Synced == app = saved.hash

(* An application with n blocks can be given the next one; the alternative   *)
(* is ErrAppBlockHeightTooLow.                                               *)
InReach(n) == n >= base - 1 /\ (n = 0 => base = 1)

Handshake_AlwaysReal ==
  /\ pc = "down"
  /\ LET a == AppHeight
     IN  IF store = saved.height + 1 /\ a >= saved.height /\ Valid(store)
         THEN StartApply(store, FALSE, "handshake")
         ELSE pc' = (IF a = store /\ Synced THEN "ready" ELSE IF a < store THEN "replayBlocks" ELSE "failed")
              /\ UNCHANGED job
  /\ UNCHANGED <<disk, log, cs, sent, crashes>>

Handshake ==
  LET a == AppHeight
      outOfReach == store > 0 /\ (~InReach(a) \/ store < a \/ store \notin {saved.height, saved.height + 1})
      replayLast(mock) ==
        IF Valid(store) /\ (mock => response.height = store) THEN StartApply(store, mock, "handshake")
        ELSE pc' = "failed" /\ UNCHANGED job
  IN  /\ pc = "down"
      /\ IF outOfReach THEN pc' = "failed" /\ UNCHANGED job
         ELSE IF store = 0 \/ (store = saved.height /\ a = store)
              THEN pc' = (IF Synced THEN "ready" ELSE "failed") /\ UNCHANGED job
         ELSE IF a < saved.height THEN pc' = "replayBlocks" /\ UNCHANGED job
         ELSE replayLast(a = store)
      /\ UNCHANGED <<disk, log, cs, sent, crashes>>

(* buildLastCommitInfo needs the validators of the height before a block,    *)
(* and those of the height before the base may have been pruned.             *)
ValidatorsKept(n) == base > 1 => n >= base

(* replayBlocks: ExecCommitBlock for the blocks up to the state's height.    *)
(* The header of the next block must have the hash the application returned. *)
ReplayBlock ==
  /\ pc = "replayBlocks"
  /\ AppHeight < saved.height
  /\ IF job.result \in {<<>>, Chain(AppHeight)} /\ ValidatorsKept(AppHeight)
     THEN /\ app' = Append(app, AppHeight + 1)
          /\ job' = [job EXCEPT !.result = app']
          /\ UNCHANGED pc
     ELSE pc' = "failed" /\ UNCHANGED <<app, job>>
  /\ UNCHANGED <<store, base, saved, response, log, cs, sent, crashes>>

(* ... and then replayBlock for the one the state lacks, if there is one.    *)
ReplayedBlocks ==
  /\ pc = "replayBlocks"
  /\ AppHeight >= saved.height
  /\ IF store = saved.height
     THEN pc' = (IF job.result = saved.hash THEN "ready" ELSE "failed") /\ job' = NoJob
     ELSE IF Valid(store) THEN StartApply(store, FALSE, "handshake")
     ELSE pc' = "failed" /\ UNCHANGED job
  /\ UNCHANGED <<disk, log, cs, sent, crashes>>
-----------------------------------------------------------------------------

(* Block sync stores and applies blocks without the WAL, and then starts     *)
(* consensus without replaying it (SwitchToConsensus with skipWAL).          *)
BlockSync ==
  /\ pc \in {"ready", "blocksync"}
  /\ saved.height < MaxHeight
  /\ IF Valid(saved.height + 1)
     THEN /\ store' = saved.height + 1
          /\ StartApply(saved.height + 1, FALSE, "blocksync")
     ELSE pc' = "failed" /\ UNCHANGED <<store, job>>
  /\ UNCHANGED <<base, saved, response, app, log, cs, sent, crashes>>

(* OnStart: a new WAL begins with an end-of-height 0 record.  Without the    *)
(* record of the previous height, or with the one of this height, the error  *)
(* is logged and nothing is replayed.                                        *)
OpenWAL ==
  /\ wal' = IF wal = <<>> THEN <<Rec("end", 0)>> ELSE wal
  /\ synced' = Len(wal')

StartConsensus_Strict ==
  /\ pc \in {"ready", "blocksync"}
  /\ OpenWAL
  /\ pc' = IF \E i \in 1 .. Len(wal') : wal'[i] = Rec("end", saved.height) THEN "run" ELSE "failed"
  /\ cs' = [NoCS EXCEPT !.height = saved.height + 1]
  /\ UNCHANGED <<disk, job, sent, crashes>>

StartConsensus ==
  /\ pc \in {"ready", "blocksync"}
  /\ OpenWAL
  /\ LET h == saved.height + 1
         ends(k) == {i \in 1 .. Len(wal') : wal'[i] = Rec("end", k)}
     IN  IF pc = "ready" /\ ends(h) = {} /\ ends(h - 1) # {}
         THEN /\ pc' = "replay"
              /\ cs' = [height |-> h, locked |-> FALSE, queue |-> {},
                        pos |-> 1 + CHOOSE i \in ends(h - 1) : \A j \in ends(h - 1) : i <= j]
         ELSE /\ pc' = "run"
              /\ cs' = [NoCS EXCEPT !.height = h]
  /\ UNCHANGED <<disk, job, sent, crashes>>
-----------------------------------------------------------------------------
(* handleMsg for a record of the WAL, received or replayed. *)
HandlePolka(h) ==
  IF h = cs.height /\ ~cs.locked
  THEN [cs EXCEPT !.locked = TRUE, !.queue = @ \cup {h}]
  ELSE cs

Received(kind) == Append(wal, Rec(kind, cs.height))

ReceivePolka ==
  /\ pc = "run"
  /\ cs.height <= MaxHeight /\ ~cs.locked
  /\ wal' = Received("polka")
  /\ cs' = HandlePolka(cs.height)
  /\ UNCHANGED <<disk, synced, pc, job, sent, crashes>>

WriteOwnVote_NoSync ==
  /\ pc = "run"
  /\ \E h \in cs.queue :
       /\ wal' = Append(wal, Rec("vote", h))
       /\ cs' = [cs EXCEPT !.queue = @ \ {h}]
  /\ pc' = "handleVote"
  /\ UNCHANGED <<disk, synced, job, sent, crashes>>

(* The internal queue: WriteSync, then handleMsg. *)
WriteOwnVote ==
  /\ pc = "run"
  /\ \E h \in cs.queue :
       /\ wal' = Append(wal, Rec("vote", h))
       /\ cs' = [cs EXCEPT !.queue = @ \ {h}]
  /\ synced' = Len(wal')
  /\ pc' = "handleVote"
  /\ UNCHANGED <<disk, job, sent, crashes>>

HandleOwnVote ==
  /\ pc = "handleVote"
  /\ sent' = sent \cup {wal[Len(wal)].height}
  /\ pc' = "run"
  /\ UNCHANGED <<disk, log, cs, job, crashes>>

(* The decision: finalizeCommit validates the block before it stores it. *)
ReceiveDecision ==
  /\ pc = "run"
  /\ cs.height <= MaxHeight
  /\ wal' = Received("decide")
  /\ pc' = IF Valid(cs.height) THEN "storeBlock" ELSE "failed"
  /\ UNCHANGED <<disk, synced, cs, job, sent, crashes>>

(* The periodic flush of the WAL. *)
FlushWAL ==
  /\ pc \in {"run", "replay"}
  /\ synced < Len(wal)
  /\ synced' = Len(wal)
  /\ UNCHANGED <<disk, wal, pc, cs, job, sent, crashes>>

StoreBlock ==
  /\ pc = "storeBlock"
  /\ store' = IF store < cs.height THEN cs.height ELSE store
  /\ pc' = "endHeight"
  /\ UNCHANGED <<base, saved, response, app, log, cs, job, sent, crashes>>

WriteEndHeight ==
  /\ pc = "endHeight"
  /\ wal' = Received("end")
  /\ synced' = Len(wal')
  /\ StartApply(cs.height, FALSE, "consensus")
  /\ UNCHANGED <<disk, cs, sent, crashes>>

(* catchupReplay: the records after the end of the previous height, each     *)
(* handled as if it were received; those of other heights change nothing.    *)
(* The block of a replayed decision is finalized before the next record.     *)
Replay ==
  /\ pc = "replay" /\ cs.pos <= Len(wal)
  /\ LET r == wal[cs.pos]
     IN  /\ cs' = [(IF r.kind = "polka" THEN HandlePolka(r.height) ELSE cs) EXCEPT !.pos = @ + 1]
         /\ sent' = IF r.kind = "vote" THEN sent \cup {r.height} ELSE sent
         /\ pc' = IF r.kind # "decide" \/ r.height # cs.height THEN pc
                  ELSE IF Valid(cs.height) THEN "storeBlock" ELSE "failed"
  /\ UNCHANGED <<disk, log, job, crashes>>

ReplayDone ==
  /\ pc = "replay" /\ cs.pos > Len(wal)
  /\ cs' = [cs EXCEPT !.pos = 0]
  /\ pc' = "run"
  /\ UNCHANGED <<disk, log, job, sent, crashes>>

(* The process dies.  Records that were not synced may or may not be on disk *)
(* (a torn record counts as lost: reading the WAL stops there), and the      *)
(* application may come back without its last commits, but keeps the height  *)
(* it let the store be pruned to.                                            *)
Crash ==
  /\ pc # "down" /\ crashes < MaxCrashes
  /\ crashes' = crashes + 1
  /\ \E n \in synced .. Len(wal) : wal' = SubSeq(wal, 1, n) /\ synced' = n
  /\ \E lost \in 0 .. AppLoss :
       lost <= Len(app) /\ ValidatorsKept(Len(app) - lost) /\ app' = SubSeq(app, 1, Len(app) - lost)
  /\ pc' = "down" /\ cs' = NoCS /\ job' = NoJob
  /\ UNCHANGED <<store, base, saved, response, sent>>
-----------------------------------------------------------------------------
Step ==
  \/ Handshake \/ ReplayBlock \/ ReplayedBlocks
  \/ BlockSync \/ StartConsensus \/ Replay \/ ReplayDone
  \/ ReceivePolka \/ WriteOwnVote \/ HandleOwnVote \/ ReceiveDecision
  \/ FlushWAL
  \/ StoreBlock \/ WriteEndHeight
  \/ FinalizeBlock \/ SaveFinalizeBlockResponse \/ Commit \/ SaveState

Next == Step \/ Crash

Spec == Init /\ [][Next]_vars

(* The process always gets on with what it does; it need not crash. *)
FairSpec == Spec /\ WF_vars(Step)
-----------------------------------------------------------------------------
PCs ==
  {"down", "ready", "failed", "replayBlocks", "blocksync", "replay", "run", "handleVote", "storeBlock",
   "endHeight", "finalizeBlock", "saveResponse", "commit", "saveState"}

TypeOK ==
  LET H == 0 .. (MaxHeight + 1)
      Hashes == {Chain(h) : h \in 0 .. MaxHeight}
  IN  /\ store \in 0 .. MaxHeight /\ base \in 1 .. MaxHeight
      /\ saved \in [height : 0 .. MaxHeight, hash : Hashes]
      /\ response \in [height : 0 .. MaxHeight, hash : Hashes]
      /\ wal \in Seq([kind : Kinds, height : H])
      /\ synced \in 0 .. Len(wal)
      /\ pc \in PCs
      /\ cs \in [height : H, locked : BOOLEAN, queue : SUBSET H, pos : 0 .. (Len(wal) + 1)]
      /\ job.height \in H /\ job.mock \in BOOLEAN
      /\ job.caller \in {"none", "handshake", "blocksync", "consensus"}
      /\ sent \subseteq H
      /\ crashes \in 0 .. MaxCrashes

(* Whatever the points at which the node stopped and whatever the            *)
(* application lost, no handshake, replay or commit ends in an error or a    *)
(* panic (replay.go ReplayBlocks, state.go finalizeCommit).                  *)
NeverFails == pc # "failed"

(* The committed state of the application results from executing every block *)
(* exactly once and in order, although blocks are executed again after a     *)
(* crash (replay.go replayBlocks, replayBlock; execution.go applyBlock).     *)
ExecutesOnceInOrder == app = Chain(Len(app))

(* The state store never has an app hash other than the one the application  *)
(* had at that height, also when it is taken from the saved response         *)
(* (replay.go, mock application).                                            *)
StateHasAppHash == saved.hash = Chain(saved.height)

(* The stores and the application stay within the reach of the handshake.    *)
StoreAheadByOne ==
  /\ store \in {saved.height, saved.height + 1}
  /\ Len(app) <= store

(* An end-of-height record implies that the block is stored: the comment in  *)
(* finalizeCommit relies on it.                                              *)
EndHeightMeansStored ==
  \A i \in 1 .. Len(wal) : wal[i].kind = "end" => wal[i].height <= store

(* The three together, between any two writes to disk: what the handshake    *)
(* and the replay find is within their reach.                                *)
StoresAreConsistent == StateHasAppHash /\ StoreAheadByOne /\ EndHeightMeansStored

(* A node that may have gossiped its precommit for the height it is at is    *)
(* locked, if the WAL has the end of the height before: the vote and what    *)
(* led to it were durable before it was sent (state.go receiveRoutine).      *)
LockRecovered ==
  pc = "run" /\ InWAL("end", cs.height - 1) /\ cs.height \in sent => cs.locked

(* The node gets back to consensus after it stopped: handshake and replay of *)
(* the WAL always end (state.go OnStart).                                    *)
Recovers == pc = "down" ~> pc = "run"
=============================================================================
