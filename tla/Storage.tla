------------------------------- MODULE Storage -------------------------------
(***************************************************************************)
(* The two stores of a node together: a block is saved, applied and its    *)
(* state saved (state/execution.go applyBlock); the application may then   *)
(* let the node prune (pruneBlocks), which flushes in several batches; the *)
(* node may crash at any of these points; and while it is stopped the      *)
(* operator may roll the state back (state/rollback.go).                   *)
(*                                                                         *)
(*   bs, ss   the block store and the state store (databases);             *)
(*   job      the pruning in progress, or NoJob;                           *)
(*   history  the validator set and the parameters of every height, as the *)
(*            blocks of the chain determined them (not a variable of the   *)
(*            code: what the stores are supposed to return);               *)
(*   top      the highest height ever applied.                             *)
(***************************************************************************)
EXTENDS BlockStore, StateStore

CONSTANTS
  InitialValidators, InitialParams,  \* what a chain may start with
  Updates,          \* the pairs of validator and parameter updates a block may cause
  MaxHeight,        \* bound: the last height of the chain
  SnapshotHeights   \* heights the node may have been state synced to

VARIABLES bs, ss, job, history, top

vars == <<bs, ss, job, history, top>>

Height == ss.state.height

NoJob == [next |-> 0, retain |-> 0, from |-> 0, evidencePoint |-> 0, blocksDone |-> FALSE]

Record(hist, st) ==
  [vals |-> (st.height + 2 :> st.nextVals) @@ hist.vals,
   params |-> (st.height + 1 :> st.params) @@ hist.params]

(* A node starts from genesis ... *)
FromGenesis ==
  \E members \in InitialValidators, params \in InitialParams :
    LET st == GenesisState(members, params)
    IN  /\ bs = EmptyBlockStore
        /\ ss = Save([state |-> st, vals |-> <<>>, params |-> <<>>], st)
        /\ history = [vals |-> (1 :> st.vals) @@ (2 :> st.nextVals), params |-> 1 :> params]
        /\ top = 0

(* ... or from a state that state sync restored (statesync/stateprovider.go  *)
(* State, statesync/reactor.go and node/setup.go: Bootstrap, SaveSeenCommit).*)
SyncedState(s, old, members, params) ==
  LET vs(m, p) == [members |-> m, turns |-> p]
  IN  [height |-> s, lastVals |-> vs(old, s - 1), vals |-> vs(old, s), nextVals |-> vs(members, s + 1),
       valsChanged |-> s + 2, params |-> params, paramsChanged |-> s + 1]

FromSnapshot ==
  \E s \in SnapshotHeights, old \in InitialValidators, members \in ValidatorSets, params \in InitialParams :
    LET st == SyncedState(s, old, members, params)
    IN  /\ bs = SaveSeenCommit(EmptyBlockStore, s)
        /\ ss = Bootstrap(st)
        /\ history = [vals |-> (s :> st.lastVals) @@ (s + 1 :> st.vals) @@ (s + 2 :> st.nextVals),
                      params |-> s + 1 :> params]
        /\ top = s

Init ==
  /\ FromGenesis \/ FromSnapshot
  /\ job = NoJob
-----------------------------------------------------------------------------
(* finalizeCommit: the block after the state, unless it is already stored. *)
Store ==
  /\ job = NoJob
  /\ bs.height <= Height /\ Height < MaxHeight
  /\ Contiguous(bs, Height + 1)
  /\ bs' = SaveBlock(bs, Height + 1)
  /\ UNCHANGED <<ss, job, history, top>>

(* pruneBlocks: only when the retain height the application answered is      *)
(* above the base and not beyond the store (PruneBlocks fails otherwise).    *)
StartJob(retain) ==
  IF retain > bs.base /\ CanPrune(bs, retain)
  THEN [next |-> bs.base, retain |-> retain, from |-> bs.base,
        evidencePoint |-> retain, blocksDone |-> FALSE]
  ELSE NoJob

(* applyBlock and Save: the application's response may change the validators *)
(* and the parameters, and its answer to Commit names a height to retain.    *)
Apply(members, params, retain) ==
  LET st == updateState(ss.state, members, params)
  IN  /\ job = NoJob
      /\ bs.height = Height + 1
      /\ ss' = Save(ss, st)
      /\ history' = Record(history, st)
      /\ top' = MaxOf(top, st.height)
      /\ job' = StartJob(retain)
      /\ UNCHANGED bs

(* PruneBlocks, one flush at a time. *)
PruneBlocks ==
  /\ job # NoJob /\ ~job.blocksDone
  /\ bs' = flush(bs, job, Height)
  /\ job' = LET p == AfterFlush(bs, job, Height)
            IN  IF p.blocksDone THEN [p EXCEPT !.next = p.retain - 1] ELSE p
  /\ UNCHANGED <<ss, history, top>>

(* PruneStates, one flush at a time, from the highest height down.  The      *)
(* entries to keep are determined before the loop; deleting below them does  *)
(* not change that.                                                          *)
PruneStates ==
  LET to == job.retain
      low == MaxOf(job.from, job.next - FlushInterval + 1)
      hs == low .. job.next
      keptVals == keepVals(ss, to, job.evidencePoint)
      keptParams == keepParams(ss, to)
  IN  /\ job # NoJob /\ job.blocksDone
      /\ IF CanPruneStates(ss, job.from, to, job.evidencePoint) /\ CanKeep(ss, hs, keptVals, keptParams)
         THEN /\ ss' = pruneHeights(ss, hs, keptVals, keptParams, job.evidencePoint)
              /\ job' = IF low = job.from THEN NoJob ELSE [job EXCEPT !.next = low - 1]
         ELSE UNCHANGED ss /\ job' = NoJob
      /\ UNCHANGED <<bs, history, top>>

(* The process dies while it prunes and restarts from its databases. *)
Crash ==
  /\ job # NoJob
  /\ job' = NoJob
  /\ UNCHANGED <<bs, ss, history, top>>
-----------------------------------------------------------------------------
rolledBack_Params(lastVals, params) ==
  LET h == Height - 1
  IN  [height |-> h, lastVals |-> lastVals, vals |-> ss.state.lastVals, nextVals |-> ss.state.vals,
       valsChanged |-> MinOf(ss.state.valsChanged, h + 2),
       params |-> ss.state.params,
       paramsChanged |-> IF ss.state.paramsChanged > h THEN h + 1 ELSE ss.state.paramsChanged]

(* Rollback(removeBlock), on a stopped node. *)
rolledBack(lastVals, params) ==
  LET h == Height - 1
  IN  [height |-> h, lastVals |-> lastVals, vals |-> ss.state.lastVals, nextVals |-> ss.state.vals,
       valsChanged |-> MinOf(ss.state.valsChanged, h + 2),
       params |-> params,
       paramsChanged |-> IF ss.state.paramsChanged > h THEN h + 1 ELSE ss.state.paramsChanged]

(* The state was not saved for the last block: at most drop the block. *)
RollbackPending(removeBlock) ==
  /\ job = NoJob
  /\ bs.height = Height + 1
  /\ bs' = IF removeBlock THEN DeleteLatestBlock(bs) ELSE bs
  /\ UNCHANGED <<ss, job, history, top>>

(* The checks of Rollback before it writes: the two block metas, the         *)
(* validators and the parameters it needs are there.                         *)
RollbackPossible ==
  /\ bs.height = Height
  /\ LoadBlockMeta(bs, Height - 1) /\ LoadBlockMeta(bs, Height)
  /\ LoadValidators(ss.vals, Height - 1) # None
  /\ LoadConsensusParams(ss.params, Height) # None

RollbackState(removeBlock) ==
  LET st == rolledBack(LoadValidators(ss.vals, Height - 1), LoadConsensusParams(ss.params, Height))
  IN  /\ job = NoJob
      /\ RollbackPossible /\ CanSave(st)
      /\ ss' = Save(ss, st)
      /\ bs' = IF removeBlock THEN DeleteLatestBlock(bs) ELSE bs
      /\ UNCHANGED <<job, history, top>>
-----------------------------------------------------------------------------
Next ==
  \/ Store
  \/ \E u \in Updates, retain \in 0 .. bs.height : Apply(u[1], u[2], retain)
  \/ PruneBlocks
  \/ PruneStates
  \/ Crash
  \/ \E removeBlock \in BOOLEAN : RollbackPending(removeBlock) \/ RollbackState(removeBlock)

Spec == Init /\ [][Next]_vars
-----------------------------------------------------------------------------
TypeOK ==
  LET H == 0 .. (MaxHeight + 2)
      V == [members : ValidatorSets, turns : H]
  IN  /\ bs \in BlockStoreType(H)
      /\ ss.state \in States(H)
      /\ \A h \in DOMAIN ss.vals : ss.vals[h] \in [lastHeightChanged : H, set : V \cup {None}]
      /\ \A h \in DOMAIN ss.params : ss.params[h] \in [lastHeightChanged : H, params : Params \cup {None}]
      /\ job \in [next : H, retain : H, from : H, evidencePoint : H, blocksDone : BOOLEAN]
      /\ top \in H

(* The heights the node still has to answer for: from the base on. *)
Low == IF bs.base = 0 THEN Height + 1 ELSE bs.base

(* The validators of every height from the base to the one after next load   *)
(* and are the ones the blocks determined, with as many increments of the    *)
(* proposer priorities (not: with the same priorities, see StateStore), and  *)
(* so are the consensus parameters, although most entries are pointers to    *)
(* entries that may be pruned, or were rewritten by a rollback               *)
(* (state/store.go LoadValidators, LoadConsensusParams).                     *)
HistoryLoads ==
  /\ TypeOK
  /\ \A h \in Low .. (Height + 2) : LoadValidators(ss.vals, h) = history.vals[h]
  /\ \A h \in Low .. (Height + 1) : LoadConsensusParams(ss.params, h) = history.params[h]

(* The saved state is the one the chain had at its height, also after        *)
(* rollbacks and after the block was executed again with another result      *)
(* (state/rollback.go Rollback).                                             *)
StateMatchesHistory ==
  /\ ss.state.vals = history.vals[Height + 1]
  /\ ss.state.nextVals = history.vals[Height + 2]
  /\ ss.state.params = history.params[Height + 1]
  /\ Height > 0 => ss.state.lastVals = history.vals[Height]

(* The stored heights of which evidence has not expired. *)
Unexpired == {h \in DOMAIN history.params : h <= Height /\ h <= bs.height /\ ~IsEvidenceExpired(top, h)}

(* Pruning and rollback leave what will be asked for: every block above the  *)
(* base (LoadBlock), the header and the commit of every block of which       *)
(* evidence has not expired (PruneBlocks, evidencePoint), and, for a state   *)
(* above the base, the commit of its last block (DeleteLatestBlock;          *)
(* reconstructLastCommit panics otherwise).                                  *)
NeededIsKept ==
  /\ \A h \in (bs.base + 1) .. bs.height : LoadBlock(bs, h)
  /\ \A h \in Unexpired : LoadBlockMeta(bs, h) /\ (h < bs.height => h \in bs.commits)
  /\ Height > bs.base => Height \in bs.seen

(* PruneStates: validators of heights that evidence may still refer to are   *)
(* kept, "because we might need it later on for evidence verification".      *)
EvidenceValidatorsKept ==
  \A h \in Unexpired : LoadValidators(ss.vals, h) = history.vals[h]

=============================================================================
