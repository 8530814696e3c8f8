----------------------------- MODULE StateStore -----------------------------
(***************************************************************************)
(* state/store.go: the state of the chain and, per height, the validator   *)
(* set and the consensus parameters.  A full set is stored only at the     *)
(* heights where it changed and at checkpoints; the entries of the others  *)
(* point back to the height of the last change (lastHeightChanged).        *)
(*                                                                         *)
(* A validator set is its members with their powers, an element of         *)
(* ValidatorSets, and the number of turns, the increments of the proposer  *)
(* priorities since genesis.  The priorities themselves are left out, for  *)
(* they are not a function of the turns: IncrementProposerPriority also    *)
(* rescales and centres them once per call, so that one call for n turns   *)
(* may end with other priorities than n calls for one.  A State is a       *)
(* record of the fields of sm.State that the store reads.  A store is the  *)
(* saved State and two functions from the heights that have an entry.      *)
(***************************************************************************)
EXTENDS Integers, TLC

CONSTANTS
  ValidatorSets, Params,
  CheckpointInterval,  \* valSetCheckpointInterval: 100000 in the code
  None                 \* an entry without a set or parameters

ASSUME CheckpointIntervalPositive == CheckpointInterval \in Nat \ {0}

MaxOf(a, b) == IF a >= b THEN a ELSE b
MinOf(a, b) == IF a <= b THEN a ELSE b

(* The loop of IncrementProposerPriority. *)
IncrementProposerPriority(vs, times) == [vs EXCEPT !.turns = @ + times]

States(H) ==
  LET V == [members : ValidatorSets, turns : H]
  IN  [height : H, lastVals : V \cup {None}, vals : V, nextVals : V, valsChanged : H,
       params : Params, paramsChanged : H]

(* MakeGenesisState, with InitialHeight 1. *)
GenesisState(members, params) ==
  LET vs == [members |-> members, turns |-> 0]
  IN  [height |-> 0, lastVals |-> None, vals |-> vs,
       nextVals |-> IncrementProposerPriority(vs, 1), valsChanged |-> 1,
       params |-> params, paramsChanged |-> 1]

(* execution.go, updateState: block st.height + 1 changes the validators to  *)
(* members and the parameters to params, where they are not None.            *)
updateState(st, members, params) ==
  LET h == st.height + 1
      changed == IF members = None THEN st.nextVals ELSE [st.nextVals EXCEPT !.members = members]
  IN  [height |-> h, lastVals |-> st.vals, vals |-> st.nextVals,
       nextVals |-> IncrementProposerPriority(changed, 1),
       valsChanged |-> IF members = None THEN st.valsChanged ELSE h + 2,
       params |-> IF params = None THEN st.params ELSE params,
       paramsChanged |-> IF params = None THEN st.paramsChanged ELSE h + 1]
-----------------------------------------------------------------------------
saveValidatorsInfo(f, h, lastHeightChanged, vs) ==
  (h :> [lastHeightChanged |-> lastHeightChanged,
         set |-> IF h = lastHeightChanged \/ h % CheckpointInterval = 0 THEN vs ELSE None]) @@ f

saveConsensusParamsInfo(f, h, changeHeight, params) ==
  (h :> [lastHeightChanged |-> changeHeight,
         params |-> IF h = changeHeight THEN params ELSE None]) @@ f

(* saveValidatorsInfo returns an error, and nothing is saved, otherwise. *)
CanSave(st) == st.valsChanged <= st.height + 2

(* save: one batch, which always overwrites the entries it writes. *)
Save(ss, st) ==
  LET next == st.height + 1
      first == IF next = 1 THEN saveValidatorsInfo(ss.vals, 1, 1, st.vals) ELSE ss.vals
  IN  [state |-> st,
       vals |-> saveValidatorsInfo(first, next + 1, st.valsChanged, st.nextVals),
       params |-> saveConsensusParamsInfo(ss.params, next, st.paramsChanged, st.params)]

(* Bootstrap: the state restored by state sync, with three full sets. *)
Bootstrap(st) ==
  LET next == st.height + 1
      f1 == saveValidatorsInfo(<<>>, next - 1, next - 1, st.lastVals)
      f2 == saveValidatorsInfo(f1, next, next, st.vals)
  IN  [state |-> st,
       vals |-> saveValidatorsInfo(f2, next + 1, next + 1, st.nextVals),
       params |-> saveConsensusParamsInfo(<<>>, next, st.paramsChanged, st.params)]

lastStoredHeightFor(h, lastHeightChanged) ==
  MaxOf(h - (h % CheckpointInterval), lastHeightChanged)

(* None is the error the code returns. *)
LoadValidators(f, h) ==
  IF h \notin DOMAIN f THEN None
  ELSE IF f[h].set # None THEN f[h].set
  ELSE LET stored == lastStoredHeightFor(h, f[h].lastHeightChanged)
       IN  IF stored \notin DOMAIN f \/ f[stored].set = None THEN None
           ELSE IncrementProposerPriority(f[stored].set, h - stored)

LoadConsensusParams(f, h) ==
  IF h \notin DOMAIN f THEN None
  ELSE IF f[h].params # None THEN f[h].params
  ELSE IF f[h].lastHeightChanged \notin DOMAIN f THEN None
  ELSE f[f[h].lastHeightChanged].params
-----------------------------------------------------------------------------
keepVals_NoCheckpoint(ss, to, evidencePoint) ==
  LET info == ss.vals[MinOf(to, evidencePoint)]
  IN  IF info.set # None THEN {} ELSE {info.lastHeightChanged}

(* PruneStates(from, to, evidencePoint): the entries of from..to-1 that must *)
(* remain, because an entry at to or at the evidence point refers to them.   *)
keepVals(ss, to, evidencePoint) ==
  LET info == ss.vals[MinOf(to, evidencePoint)]
  IN  IF info.set # None THEN {}
      ELSE {info.lastHeightChanged, lastStoredHeightFor(to, info.lastHeightChanged)}

keepParams(ss, to) ==
  IF ss.params[to].params # None THEN {} ELSE {ss.params[to].lastHeightChanged}

(* The errors PruneStates returns before it deletes anything ...             *)
CanPruneStates(ss, from, to, evidencePoint) ==
  /\ from > 0 /\ from < to
  /\ MinOf(to, evidencePoint) \in DOMAIN ss.vals
  /\ to \in DOMAIN ss.params

(* ... and the one it returns, without writing the batch of the heights hs,  *)
(* when an entry to keep cannot be made full.                                *)
CanKeep(ss, hs, keptVals, keptParams) ==
  /\ \A h \in hs \cap keptVals : LoadValidators(ss.vals, h) # None
  /\ \A h \in hs \cap keptParams : LoadConsensusParams(ss.params, h) # None

(* The loop for the heights of hs, written at once: entries below the        *)
(* evidence point are deleted, kept ones are made full sets.                 *)
pruneHeights(ss, hs, keptVals, keptParams, evidencePoint) ==
  LET goneVals == {h \in hs \ keptVals : h < evidencePoint}
      goneParams == hs \ keptParams
      vals == [h \in DOMAIN ss.vals \ goneVals |->
                 IF h \in hs \cap keptVals /\ ss.vals[h].set = None
                 THEN [lastHeightChanged |-> h, set |-> LoadValidators(ss.vals, h)]
                 ELSE ss.vals[h]]
      params == [h \in DOMAIN ss.params \ goneParams |->
                   IF h \in hs \cap keptParams /\ ss.params[h].params = None
                   THEN [lastHeightChanged |-> h, params |-> LoadConsensusParams(ss.params, h)]
                   ELSE ss.params[h]]
  IN  [ss EXCEPT !.vals = vals, !.params = params]
=============================================================================
