----------------------------- MODULE BlockStore -----------------------------
(***************************************************************************)
(* store/store.go: the blocks a node keeps.  A block is its height.  The   *)
(* database holds, per height, the block meta, the block parts, the commit *)
(* of the block (written with the next block) and the seen commit; base    *)
(* and height are the BlockStoreState descriptor, written in the batch of  *)
(* every operation, so that a restart reads them as they were.             *)
(* The hash index and the LRU caches of commits hold nothing else and are  *)
(* left out; a batch is taken to be written whole.                         *)
(***************************************************************************)
EXTENDS Naturals, FiniteSets

CONSTANTS
  FlushInterval,   \* blocks pruned between two flushes: 1000 in the code
  EvidenceAge      \* the age, in blocks, beyond which evidence is expired

ASSUME FlushIntervalPositive == FlushInterval \in Nat \ {0}

LOCAL INSTANCE FiniteSetsExt

EmptyBlockStore ==
  [base |-> 0, height |-> 0, metas |-> {}, parts |-> {}, commits |-> {}, seen |-> {}]

BlockStoreType(H) ==
  [base : H, height : H, metas : SUBSET H, parts : SUBSET H, commits : SUBSET H, seen : SUBSET H]

LoadBlockMeta(bs, h) == h \in bs.metas

LoadBlock(bs, h) == LoadBlockMeta(bs, h) /\ h \in bs.parts

(* saveBlockToBatch refuses (and SaveBlock panics on) any other height. *)
Contiguous(bs, h) == bs.base > 0 => h = bs.height + 1

SaveBlock(bs, h) ==
  [base |-> IF bs.base = 0 THEN h ELSE bs.base,
   height |-> h,
   metas |-> bs.metas \cup {h},
   parts |-> bs.parts \cup {h},
   commits |-> bs.commits \cup {h - 1},
   seen |-> bs.seen \cup {h}]

(* State sync stores the commit of the height it restored, and no block. *)
SaveSeenCommit(bs, h) == [bs EXCEPT !.seen = @ \cup {h}]

DeleteLatestBlock(bs) ==
  LET h == bs.height
  IN  [base |-> bs.base,
       height |-> h - 1,
       metas |-> bs.metas \ {h},
       parts |-> bs.parts \ {h},
       commits |-> bs.commits \ {h},
       seen |-> bs.seen \ {h}]
-----------------------------------------------------------------------------
(* evidence.IsEvidenceExpired, with one block per unit of time: evidence of  *)
(* height h is too old both in blocks and in time when the chain is at now.  *)
IsEvidenceExpired(now, h) == now > h + EvidenceAge

CanPrune(bs, retain) == retain > 0 /\ retain <= bs.height /\ retain >= bs.base

(* One turn of the loop of PruneBlocks up to a flush.  A pruning is a record *)
(* with the height to retain, the next height of the loop, the evidence      *)
(* point found so far (retain if none) and whether the loop has ended.       *)
Prunable(bs, p) == {h \in p.next .. (p.retain - 1) : LoadBlockMeta(bs, h)}

(* The heights of the batch: the first FlushInterval of those still stored.  *)
Batch(bs, p) ==
  LET todo == Prunable(bs, p)
  IN  {h \in todo : Cardinality({k \in todo : k < h}) < FlushInterval}

LastBatch(bs, p) == Cardinality(Prunable(bs, p)) < FlushInterval

EvidencePoint_OneEarly(bs, p, now) ==
  LET kept == {h \in Batch(bs, p) : ~IsEvidenceExpired(now, h - 1)}
  IN  IF p.evidencePoint = p.retain /\ kept # {} THEN Min(kept) ELSE p.evidencePoint

EvidencePoint(bs, p, now) ==
  LET kept == {h \in Batch(bs, p) : ~IsEvidenceExpired(now, h)}
  IN  IF p.evidencePoint = p.retain /\ kept # {} THEN Min(kept) ELSE p.evidencePoint

(* Headers and commits from the evidence point on are kept.  The flush in    *)
(* the loop writes the height it has just pruned as the new base.            *)
flush(bs, p, now) ==
  LET gone == Batch(bs, p)
      old == {h \in gone : h < EvidencePoint(bs, p, now)}
  IN  [base |-> IF LastBatch(bs, p) THEN p.retain ELSE Max(gone),
       height |-> bs.height,
       metas |-> bs.metas \ old,
       parts |-> bs.parts \ gone,
       commits |-> bs.commits \ old,
       seen |-> bs.seen \ gone]

AfterFlush(bs, p, now) ==
  [p EXCEPT !.evidencePoint = EvidencePoint(bs, p, now),
            !.next = IF LastBatch(bs, p) THEN p.retain ELSE Max(Batch(bs, p)) + 1,
            !.blocksDone = LastBatch(bs, p)]
=============================================================================
