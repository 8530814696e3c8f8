------------------------ MODULE CommitRecoveryProofs ------------------------
(***************************************************************************)
(* Proofs about CommitRecovery: for chains of any length, any number of    *)
(* crashes and any number of commits lost by the application, recovery     *)
(* never fails, every block is executed once and in order, and the node is *)
(* locked again where it may have voted.                                   *)
(***************************************************************************)
EXTENDS CommitRecovery, SequenceTheorems, WellFoundedInduction, TLAPS

USE SMTT(30)

Jobs == [height : Nat, result : Seq(Nat), mock : BOOLEAN, caller : {"none", "handshake", "blocksync", "consensus"}]

Types ==
  /\ store \in Nat
  /\ saved \in [height : Nat, hash : Seq(Nat)]
  /\ response \in [height : Nat, hash : Seq(Nat)]
  /\ app \in Seq(Nat)
  /\ wal \in Seq([kind : Kinds, height : Nat])
  /\ synced \in Nat /\ synced <= Len(wal)
  /\ cs \in [height : Nat, locked : BOOLEAN, queue : SUBSET Nat, pos : Nat]
  /\ job \in Jobs

(* While a block is applied it is the one after the state, and it is stored; *)
(* the mock application stands in exactly when the real one committed it.    *)
ApplyInv ==
  pc \in {"finalizeBlock", "saveResponse", "commit", "saveState"} =>
    /\ job.height = saved.height + 1 /\ store = job.height
    /\ job.mock => Len(app) = job.height /\ response.height = job.height
    /\ ~job.mock /\ pc # "saveState" => Len(app) = saved.height
    /\ pc = "saveState" => Len(app) = job.height
    /\ pc # "finalizeBlock" => job.result = Chain(job.height)
    /\ pc \in {"commit", "saveState"} => response.height = job.height
    /\ job.caller \in {"handshake", "blocksync", "consensus"}

(* Between two blocks the stores and the application agree, and consensus is *)
(* at the height after them.                                                 *)
IdleInv ==
  /\ pc \in {"ready", "blocksync", "run", "replay", "handleVote", "storeBlock"} =>
       store = saved.height /\ Len(app) = saved.height
  /\ pc \in {"run", "replay", "handleVote", "storeBlock", "endHeight"} =>
       cs.height = saved.height + 1
  /\ pc = "endHeight" => store = cs.height /\ Len(app) = saved.height
  /\ pc = "replay" => cs.pos > 0

(* During the handshake's replay, the last response of the application.      *)
HandshakeInv ==
  /\ pc = "down" => job = NoJob
  /\ pc = "replayBlocks" =>
       /\ Len(app) <= saved.height
       /\ job.result \in {<<>>, Chain(Len(app))}
       /\ Len(app) = saved.height => job.result = Chain(Len(app))

(* A block that the application has committed and the state lacks can be     *)
(* applied from the saved response.                                          *)
ResponseInv ==
  /\ response.hash = Chain(response.height)
  /\ Len(app) > saved.height => response.height = saved.height + 1

Inv ==
  /\ Types /\ NeverFails
  /\ ExecutesOnceInOrder /\ StateHasAppHash /\ StoreAheadByOne
  /\ ApplyInv /\ IdleInv /\ HandshakeInv /\ ResponseInv

(* The last block of the application, and those after it, are never pruned. *)
BaseInv == base \in Nat \ {0} /\ ValidatorsKept(Len(app))
-----------------------------------------------------------------------------
(* A set of naturals that is not empty has a least element. *)
LEMMA LeastElement ==
  ASSUME NEW E \in SUBSET Nat, E # {}
  PROVE  \E m \in E : \A k \in E : m <= k
<1> DEFINE R == {ss \in Nat \X Nat : ss[1] < ss[2]}
<1>1. IsWellFoundedOn(R, Nat)
  BY NatLessThanWellFounded DEF OpToRel
<1> HIDE DEF R
<1>2. PICK m \in E : \A k \in E : ~ (<<k, m>> \in R)
  BY <1>1, WFMin, Zenon
<1>3. ASSUME NEW k \in E PROVE m <= k
  <2>1. <<k, m>> \in Nat \X Nat /\ ~ (<<k, m>> \in R)
    BY <1>2
  <2> QED
    BY <2>1 DEF R
<1> QED
  BY <1>3

(* The records that steps change one field at a time. *)
LEMMA RecordTypes ==
  ASSUME Inv
  PROVE  /\ cs \in [height : Nat, locked : BOOLEAN, queue : SUBSET Nat, pos : Nat]
         /\ job \in Jobs /\ job.height + 1 \in Nat
<1>1. cs \in [height : Nat, locked : BOOLEAN, queue : SUBSET Nat, pos : Nat] /\ job \in Jobs
  BY Zenon DEF Inv, Types
<1>2. job.height \in Nat
  BY <1>1 DEF Jobs
<1> QED
  BY <1>1, <1>2

(* A job with another result is a job. *)
LEMMA JobResult ==
  ASSUME NEW j \in Jobs, NEW hash \in Seq(Nat)
  PROVE  [j EXCEPT !.result = hash] \in Jobs /\ [j EXCEPT !.result = hash].result = hash
BY DEF Jobs

(* The app hash of h blocks is a sequence of length h. *)
LEMMA ChainType ==
  ASSUME NEW h \in Nat
  PROVE  Chain(h) \in Seq(Nat) /\ Len(Chain(h)) = h
BY DEF Chain

(* Executing the next block extends the app hash by one. *)
LEMMA ChainAppend ==
  ASSUME NEW h \in Nat
  PROVE  Append(Chain(h), h + 1) = Chain(h + 1)
<1>1. Chain(h) \in Seq(Nat) /\ Chain(h + 1) \in Seq(Nat) /\ Len(Chain(h)) = h /\ Len(Chain(h + 1)) = h + 1
  BY ChainType
<1>2. /\ Append(Chain(h), h + 1) \in Seq(Nat)
      /\ Len(Append(Chain(h), h + 1)) = h + 1
  BY <1>1
<1>3. ASSUME NEW i \in 1 .. (h + 1)
      PROVE  Append(Chain(h), h + 1)[i] = Chain(h + 1)[i]
  BY <1>1 DEF Chain
<1> QED
  BY <1>1, <1>2, <1>3, SeqEqual

(* Losing the last commits leaves the app hash of fewer blocks. *)
LEMMA ChainPrefix ==
  ASSUME NEW h \in Nat, NEW n \in 0 .. h
  PROVE  SubSeq(Chain(h), 1, n) = Chain(n)
<1>1. Chain(h) \in Seq(Nat) /\ Chain(n) \in Seq(Nat) /\ Len(Chain(h)) = h /\ Len(Chain(n)) = n
  BY ChainType
<1>2. SubSeq(Chain(h), 1, n) \in Seq(Nat) /\ Len(SubSeq(Chain(h), 1, n)) = n
  BY <1>1
<1>3. ASSUME NEW i \in 1 .. n
      PROVE  SubSeq(Chain(h), 1, n)[i] = Chain(n)[i]
  BY <1>1 DEF Chain
<1> QED
  BY <1>1, <1>2, <1>3, SeqEqual

(* Only the app hash of no blocks is empty. *)
LEMMA ChainEmpty ==
  /\ Chain(0) = <<>>
  /\ \A h \in Nat : Chain(h) = <<>> => h = 0
<1>1. Chain(0) = <<>>
  BY ChainType, EmptySeq
<1>2. ASSUME NEW h \in Nat, Chain(h) = <<>> PROVE h = 0
  BY <1>2, ChainType
<1> QED
  BY <1>1, <1>2

(* The height the application reports is the number of blocks it executed. *)
LEMMA AppHeightIs ==
  ASSUME Inv
  PROVE  AppHeight = Len(app) /\ Len(app) \in Nat
<1>1. app \in Seq(Nat) /\ app = Chain(Len(app)) /\ Len(app) \in Nat
  BY DEF Inv, Types, ExecutesOnceInOrder
<1>2. CASE app = <<>>
  BY <1>2 DEF AppHeight
<1>3. CASE app # <<>>
  <2>1. Len(app) \in 1 .. Len(app)
    BY <1>1, <1>3, EmptySeq
  <2>2. Chain(Len(app))[Len(app)] = Len(app)
    BY <2>1 DEF Chain
  <2> QED
    BY <1>1, <1>3, <2>2 DEF AppHeight
<1> QED
  BY <1>1, <1>2, <1>3
-----------------------------------------------------------------------------
(* What the types say of the fields. *)
Fields ==
  /\ store \in Nat /\ saved.height \in Nat /\ response.height \in Nat
  /\ Len(app) \in Nat /\ app \in Seq(Nat) /\ app = Chain(Len(app))
  /\ cs.height \in Nat /\ job.height \in Nat /\ job.result \in Seq(Nat) /\ job.mock \in BOOLEAN

(* No job is a job. *)
LEMMA NoJobType == NoJob \in Jobs
<1>1. <<>> \in Seq(Nat)
  OBVIOUS
<1> QED
  BY <1>1 DEF NoJob, Jobs

(* The invariant gives the types of the fields. *)
LEMMA FieldTypes ==
  ASSUME Inv
  PROVE  Fields
<1>1. saved.height \in Nat /\ response.height \in Nat
  BY DEF Inv, Types
<1>2. cs.height \in Nat /\ job.height \in Nat /\ job.result \in Seq(Nat) /\ job.mock \in BOOLEAN
  BY DEF Inv, Types, Jobs
<1>3. app \in Seq(Nat) /\ Len(app) \in Nat
  BY DEF Inv, Types
<1> QED
  BY <1>1, <1>2, <1>3 DEF Inv, Types, Fields, ExecutesOnceInOrder

(* The steps of applyBlock keep the invariant. *)
LEMMA ApplySteps ==
  ASSUME Inv, FinalizeBlock \/ SaveFinalizeBlockResponse \/ Commit \/ SaveState
  PROVE  Inv'
<1> USE DEF NeverFails, ExecutesOnceInOrder, StateHasAppHash, StoreAheadByOne, ApplyInv, IdleInv,
            HandshakeInv, ResponseInv, disk, log
<1>a. Fields
  BY FieldTypes
<1>1. CASE FinalizeBlock
  <2>1. job'.result = Chain(job.height) /\ job'.result \in Seq(Nat)
    <3> DEFINE hash == IF job.mock THEN MockAppHash ELSE Append(app, job.height)
    <3>1. job' = [job EXCEPT !.result = hash]
      BY <1>1 DEF FinalizeBlock
    <3>2. job.mock => hash = Chain(job.height)
      BY <1>1 DEF FinalizeBlock, MockAppHash, Inv
    <3>3. ASSUME ~job.mock PROVE hash = Chain(job.height)
      <4>1. app = Chain(saved.height) /\ job.height = saved.height + 1
        BY <1>1, <3>3 DEF FinalizeBlock, Inv
      <4> QED
        BY <1>a, <3>3, <4>1, ChainAppend, Zenon DEF Fields
    <3>4. hash = Chain(job.height)
      BY <3>2, <3>3
    <3>5. hash \in Seq(Nat)
      BY <1>a, <3>4, ChainType DEF Fields
    <3> HIDE DEF hash
    <3> QED
      BY <3>1, <3>4, <3>5, RecordTypes, JobResult
  <2>2. Types'
    BY <1>1, <2>1, Zenon DEF FinalizeBlock, Inv, Types, Jobs
  <2> QED
    BY <1>1, <2>1, <2>2, Zenon DEF FinalizeBlock, Inv, Types, Jobs
<1>2. CASE SaveFinalizeBlockResponse
  BY <1>2, ChainType, Zenon DEF SaveFinalizeBlockResponse, Inv, Types, Jobs
<1>3. CASE Commit
  <2>1. app' = Chain(job.height) /\ app' \in Seq(Nat) /\ Len(app') = job.height
    BY <1>3, <1>a, ChainType, Zenon DEF Commit, Inv, Fields
  <2>2. Types'
    BY <1>3, <2>1 DEF Commit, Inv, Types
  <2> QED
    BY <1>3, <1>a, <2>1, <2>2 DEF Commit, Inv, Fields
<1>4. CASE SaveState
  <2>1. saved' = [height |-> job.height, hash |-> job.result] /\ job' = NoJob
    BY <1>4 DEF SaveState
  <2>2. saved' \in [height : Nat, hash : Seq(Nat)] /\ saved'.height = job.height /\ saved'.hash = Chain(job.height)
    BY <1>4, <1>a, <2>1 DEF SaveState, Inv, Fields
  <2>3. job' \in Jobs
    BY <2>1, NoJobType
  <2>4. job.caller \in {"handshake", "blocksync", "consensus"}
    BY <1>4 DEF SaveState, Inv
  <2>5. /\ cs' \in [height : Nat, locked : BOOLEAN, queue : SUBSET Nat, pos : Nat]
        /\ \/ pc' \in {"ready", "blocksync"}
           \/ pc' \in {"run", "replay"} /\ cs'.height = job.height + 1 /\ (pc' = "replay" => cs'.pos > 0)
    <3>1. CASE job.caller = "consensus"
      <4>1. cs' = [cs EXCEPT !.height = job.height + 1, !.locked = FALSE] /\ pc' \in {"run", "replay"}
        BY <1>4, <3>1 DEF SaveState
      <4>3. pc' = "replay" => cs.pos # 0
        BY <1>4, <3>1 DEF SaveState
      <4>2. cs \in [height : Nat, locked : BOOLEAN, queue : SUBSET Nat, pos : Nat] /\ job.height + 1 \in Nat
        BY RecordTypes
      <4>4. /\ cs' \in [height : Nat, locked : BOOLEAN, queue : SUBSET Nat, pos : Nat]
            /\ cs'.height = job.height + 1 /\ cs'.pos = cs.pos /\ cs.pos \in Nat
        BY <4>1, <4>2, Zenon
      <4> QED
        BY <4>1, <4>3, <4>4
    <3>2. CASE job.caller = "handshake"
      BY <1>4, <3>2 DEF SaveState, Inv, Types
    <3>3. CASE job.caller = "blocksync"
      BY <1>4, <3>3 DEF SaveState, Inv, Types
    <3> QED
      BY <2>4, <3>1, <3>2, <3>3
  <2>6. Types'
    BY <1>4, <2>2, <2>3, <2>5 DEF SaveState, Inv, Types
  <2> QED
    BY <1>4, <1>a, <2>2, <2>5, <2>6 DEF SaveState, Inv, Fields
<1> QED
  BY <1>1, <1>2, <1>3, <1>4

(* Starting to apply the block after the state, when it is stored. *)
LEMMA Started ==
  ASSUME Inv, NEW mock \in BOOLEAN, NEW caller \in {"handshake", "blocksync", "consensus"},
         StartApply(saved.height + 1, mock, caller)
  PROVE  /\ job' \in Jobs
         /\ job'.height = saved.height + 1 /\ job'.mock = mock /\ job'.caller = caller
         /\ pc' = "finalizeBlock"
<1>1. saved.height + 1 \in Nat
  BY FieldTypes DEF Fields
<1>2. <<>> \in Seq(Nat)
  OBVIOUS
<1>3. job' = [height |-> saved.height + 1, result |-> <<>>, mock |-> mock, caller |-> caller]
  BY DEF StartApply
<1>4. job' \in Jobs
  BY <1>1, <1>2, <1>3 DEF Jobs
<1> QED
  BY <1>3, <1>4 DEF StartApply

(* The steps of the handshake keep the invariant. *)
LEMMA HandshakeSteps ==
  ASSUME Inv, BaseInv, Handshake \/ ReplayBlock \/ ReplayedBlocks
  PROVE  Inv'
<1> USE DEF NeverFails, ExecutesOnceInOrder, StateHasAppHash, StoreAheadByOne, ApplyInv, IdleInv,
            HandshakeInv, ResponseInv, disk, log
<1>a. AppHeight = Len(app) /\ Fields
  BY AppHeightIs, FieldTypes
<1>b. store = saved.height + 1 => Valid(store)
  BY <1>a DEF Inv, Fields, Valid
<1>1. CASE Handshake
  <2>1. Len(app) = saved.height => Synced
    BY <1>a DEF Inv, Fields, Synced
  <2>2. \/ pc' = "ready" /\ job' = job /\ store = saved.height /\ Len(app) = saved.height
        \/ pc' = "replayBlocks" /\ job' = job /\ Len(app) < saved.height
        \/ /\ store = saved.height + 1 /\ Len(app) >= saved.height
           /\ StartApply(store, Len(app) = store, "handshake")
    BY <1>1, <1>a, <1>b, <2>1 DEF Handshake, InReach, BaseInv, ValidatorsKept, Inv, Fields
  <2>3. pc = "down" /\ UNCHANGED <<disk, log, cs>>
    BY <1>1 DEF Handshake
  <2>4. CASE pc' = "ready" /\ job' = job /\ store = saved.height /\ Len(app) = saved.height
    BY <2>3, <2>4 DEF Inv, Types
  <2>5. CASE pc' = "replayBlocks" /\ job' = job /\ Len(app) < saved.height
    BY <1>a, <2>3, <2>5 DEF Inv, Types, NoJob, Fields
  <2>6. CASE /\ store = saved.height + 1 /\ Len(app) >= saved.height
             /\ StartApply(store, Len(app) = store, "handshake")
    <3>1. /\ job' \in Jobs
          /\ job'.height = saved.height + 1 /\ job'.mock = (Len(app) = store) /\ job'.caller = "handshake"
          /\ pc' = "finalizeBlock"
      BY <2>6, Started, Zenon
    <3>2. Types'
      BY <2>3, <3>1 DEF Inv, Types
    <3>3. CASE Len(app) = store
      <4>1. response.height = store
        BY <1>a, <2>6, <3>3 DEF Inv, Fields
      <4> QED
        BY <1>a, <2>3, <2>6, <3>1, <3>2, <3>3, <4>1, Zenon DEF Inv, Fields
    <3>4. CASE Len(app) # store
      <4>1. ~job'.mock
        BY <3>1, <3>4, Zenon
      <4>2. Len(app) = saved.height
        BY <1>a, <2>6, <3>4 DEF Inv, Fields
      <4> QED
        BY <1>a, <2>3, <2>6, <3>1, <3>2, <4>1, <4>2 DEF Inv, Fields
    <3> QED
      BY <3>3, <3>4
  <2> QED
    BY <2>2, <2>4, <2>5, <2>6
<1>2. CASE ReplayBlock
  <2>1. job.result \in {<<>>, Chain(AppHeight)}
    BY <1>2, <1>a DEF ReplayBlock, Inv
  <2>2. app' = Append(app, Len(app) + 1) /\ job' = [job EXCEPT !.result = app'] /\ pc' = pc
    BY <1>2, <1>a, <2>1 DEF ReplayBlock, BaseInv
  <2>3. app' = Chain(Len(app) + 1)
    BY <1>a, <2>2, ChainAppend, Zenon DEF Fields
  <2>4. app' \in Seq(Nat) /\ Len(app') = Len(app) + 1
    BY <1>a, <2>3, ChainType DEF Fields
  <2>5. /\ job' \in Jobs
        /\ job'.result = app'
    BY <2>2, <2>4, RecordTypes, JobResult, Zenon
  <2>6. Types'
    BY <1>2, <2>4, <2>5 DEF ReplayBlock, Inv, Types
  <2>7. pc = "replayBlocks" /\ Len(app) < saved.height /\ UNCHANGED <<store, saved, response, cs>>
    BY <1>2, <1>a DEF ReplayBlock
  <2>8. pc' = "replayBlocks" /\ job'.result = Chain(Len(app')) /\ Len(app') <= saved.height
    BY <1>a, <2>2, <2>3, <2>4, <2>5, <2>7 DEF Fields
  <2>9. ExecutesOnceInOrder'
    BY <2>3, <2>4
  <2>10. StoreAheadByOne'
    BY <1>a, <2>7, <2>8 DEF Inv, Fields
  <2>11. ResponseInv'
    <3>1. ~(Len(app') > saved'.height)
      BY <1>a, <2>4, <2>7, <2>8 DEF Fields
    <3> QED
      BY <2>7, <3>1 DEF Inv
  <2>12. NeverFails' /\ StateHasAppHash' /\ ApplyInv' /\ IdleInv'
    BY <2>7, <2>8 DEF Inv
  <2>13. HandshakeInv'
    BY <2>7, <2>8
  <2> QED
    BY <2>6, <2>9, <2>10, <2>11, <2>12, <2>13, Zenon DEF Inv
<1>3. CASE ReplayedBlocks
  <2>1. pc = "replayBlocks" /\ Len(app) = saved.height /\ job.result = saved.hash /\ UNCHANGED <<disk, log, cs>>
    BY <1>3, <1>a DEF ReplayedBlocks, Inv, Fields
  <2>2. CASE store = saved.height
    <3>1. pc' = "ready" /\ job' = NoJob
      BY <1>3, <2>1, <2>2 DEF ReplayedBlocks
    <3>2. Types'
      BY <2>1, <3>1, NoJobType DEF Inv, Types
    <3> QED
      BY <2>1, <2>2, <3>1, <3>2 DEF Inv
  <2>3. CASE store = saved.height + 1
    <3>1. StartApply(saved.height + 1, FALSE, "handshake")
      BY <1>3, <1>a, <1>b, <2>3 DEF ReplayedBlocks, StartApply, Fields
    <3>2. /\ job' \in Jobs
          /\ job'.height = saved.height + 1 /\ job'.mock = FALSE /\ job'.caller = "handshake"
          /\ pc' = "finalizeBlock"
      BY <3>1, Started, Zenon
    <3>3. Types'
      BY <2>1, <3>2 DEF Inv, Types
    <3> QED
      BY <1>a, <2>1, <2>3, <3>2, <3>3 DEF Inv, Fields
  <2> QED
    BY <2>2, <2>3 DEF Inv
<1> QED
  BY <1>1, <1>2, <1>3

(* The steps of block sync and the start of consensus keep the invariant. *)
LEMMA StartSteps ==
  ASSUME Inv, BlockSync \/ StartConsensus
  PROVE  Inv'
<1> USE DEF NeverFails, ExecutesOnceInOrder, StateHasAppHash, StoreAheadByOne, ApplyInv, IdleInv,
            HandshakeInv, ResponseInv, disk, log
<1>a. Fields
  BY FieldTypes
<1>1. CASE BlockSync
  <2>1. Valid(saved.height + 1)
    BY <1>a DEF Inv, Fields, Valid
  <2>2. /\ pc \in {"ready", "blocksync"} /\ store' = saved.height + 1
        /\ StartApply(saved.height + 1, FALSE, "blocksync")
        /\ UNCHANGED <<saved, response, app, log, cs>>
    BY <1>1, <2>1, Zenon DEF BlockSync
  <2>3. /\ job' \in Jobs
        /\ job'.height = saved.height + 1 /\ job'.mock = FALSE /\ job'.caller = "blocksync"
        /\ pc' = "finalizeBlock"
    BY <2>2, Started, Zenon
  <2>4. Types'
    BY <1>a, <2>2, <2>3 DEF Inv, Types, Fields
  <2> QED
    BY <1>a, <2>2, <2>3, <2>4 DEF Inv, Fields
<1>2. CASE StartConsensus
  <2> DEFINE h == saved.height + 1
             ends(k) == {i \in 1 .. Len(wal') : wal'[i] = Rec("end", k)}
  <2>1. /\ pc \in {"ready", "blocksync"} /\ UNCHANGED <<disk, job>>
        /\ wal' = (IF wal = <<>> THEN <<Rec("end", 0)>> ELSE wal) /\ synced' = Len(wal')
    BY <1>2 DEF StartConsensus, OpenWAL
  <2>2. wal' \in Seq([kind : Kinds, height : Nat])
    <3>1. Rec("end", 0) \in [kind : Kinds, height : Nat]
      BY DEF Rec, Kinds
    <3>2. <<Rec("end", 0)>> \in Seq([kind : Kinds, height : Nat])
      BY <3>1
    <3> QED
      BY <2>1, <3>2, Zenon DEF Inv, Types
  <2>3. synced' \in Nat /\ synced' <= Len(wal')
    BY <2>1, <2>2
  <2>4. /\ pc' \in {"run", "replay"} /\ cs'.height = h /\ (pc' = "replay" => cs'.pos > 0)
        /\ cs' \in [height : Nat, locked : BOOLEAN, queue : SUBSET Nat, pos : Nat]
    <3>1. CASE pc = "ready" /\ ends(h) = {} /\ ends(h - 1) # {}
      <4> DEFINE first == CHOOSE i \in ends(h - 1) : \A j \in ends(h - 1) : i <= j
      <4>1. first \in Nat
        <5>1. ends(h - 1) \in SUBSET Nat
          OBVIOUS
        <5>2. \E i \in ends(h - 1) : \A j \in ends(h - 1) : i <= j
          <6> DEFINE E == ends(h - 1)
          <6>1. PICK n : n \in E
            BY <3>1
          <6>2. E \in SUBSET Nat
            BY <5>1
          <6> HIDE DEF E
          <6>3. \E i \in E : \A j \in E : i <= j
            BY <6>1, <6>2, LeastElement
          <6> QED
            BY <6>3 DEF E
        <5> QED
          BY <5>1, <5>2
      <4>2. pc' = "replay" /\ cs' = [height |-> h, locked |-> FALSE, queue |-> {}, pos |-> 1 + first]
        BY <1>2, <3>1 DEF StartConsensus
      <4> HIDE DEF first
      <4> QED
        BY <1>a, <4>1, <4>2 DEF Fields
    <3>2. CASE ~(pc = "ready" /\ ends(h) = {} /\ ends(h - 1) # {})
      <4>1. pc' = "run" /\ cs' = [NoCS EXCEPT !.height = h]
        BY <1>2, <3>2 DEF StartConsensus
      <4>2. NoCS \in [height : Nat, locked : BOOLEAN, queue : SUBSET Nat, pos : Nat]
        BY DEF NoCS
      <4>3. h \in Nat
        BY <1>a DEF Fields
      <4> QED
        BY <4>1, <4>2, <4>3
    <3> QED
      BY <3>1, <3>2
  <2>5. Types'
    BY <2>1, <2>2, <2>3, <2>4 DEF Inv, Types
  <2> QED
    BY <1>a, <2>1, <2>4, <2>5 DEF Inv, Fields
<1> QED
  BY <1>1, <1>2

(* A step of consensus that leaves the stores alone, keeps its height and    *)
(* stays between two blocks keeps the invariant.                             *)
LEMMA IdleStep ==
  ASSUME Inv, Types',
         pc \in {"run", "replay", "handleVote"}, pc' \in {"run", "replay", "handleVote", "storeBlock"},
         UNCHANGED <<store, saved, response, app, job>>, cs'.height = cs.height, pc' = "replay" => cs'.pos > 0
  PROVE  Inv'
BY DEF Inv, NeverFails, ExecutesOnceInOrder, StateHasAppHash, StoreAheadByOne, ApplyInv, IdleInv,
       HandshakeInv, ResponseInv

(* The steps of consensus and of the WAL's replay keep the invariant. *)
LEMMA ConsensusSteps ==
  ASSUME Inv,
         \/ Replay \/ ReplayDone \/ ReceivePolka \/ WriteOwnVote \/ HandleOwnVote
         \/ ReceiveDecision \/ FlushWAL \/ StoreBlock \/ WriteEndHeight
  PROVE  Inv'
<1> DEFINE Records == [kind : Kinds, height : Nat]
           CSs == [height : Nat, locked : BOOLEAN, queue : SUBSET Nat, pos : Nat]
<1>a. Fields
  BY FieldTypes
<1>b. wal \in Seq(Records) /\ Len(wal) \in Nat /\ cs \in CSs /\ synced \in Nat /\ synced <= Len(wal)
  BY DEF Inv, Types
<1>c. ASSUME NEW kind \in Kinds, NEW h \in Nat
      PROVE  Append(wal, Rec(kind, h)) \in Seq(Records) /\ Len(Append(wal, Rec(kind, h))) = Len(wal) + 1
  BY <1>b DEF Rec
<1>r. ASSUME NEW kind \in Kinds, wal' = Received(kind), synced' = synced \/ synced' = Len(wal')
      PROVE  wal' \in Seq(Records) /\ synced' \in Nat /\ synced' <= Len(wal')
  <2>1. cs.height \in Nat
    BY <1>a DEF Fields
  <2>2. wal' \in Seq(Records) /\ Len(wal') = Len(wal) + 1
    BY <1>r, <1>c, <2>1, Zenon DEF Received
  <2> QED
    BY <1>b, <1>r, <2>2
<1>d. ASSUME NEW h \in Nat
      PROVE  HandlePolka(h) \in CSs /\ HandlePolka(h).height = cs.height
  BY <1>b, Zenon DEF HandlePolka
<1>e. pc \in {"run", "replay", "handleVote", "storeBlock", "endHeight"} => Valid(cs.height)
  BY <1>a DEF Inv, Fields, Valid, IdleInv, StateHasAppHash
<1>f. "polka" \in Kinds /\ "vote" \in Kinds /\ "decide" \in Kinds /\ "end" \in Kinds
  BY DEF Kinds
<1> USE DEF disk, log
<1>1. CASE Replay
  <2> DEFINE r == wal[cs.pos]
             next == IF r.kind = "polka" THEN HandlePolka(r.height) ELSE cs
  <2>1. cs.pos \in Nat /\ cs.pos <= Len(wal)
    BY <1>1, <1>b DEF Replay
  <2>2. cs.pos > 0
    BY <1>1 DEF Replay, Inv, IdleInv
  <2>3. r \in Records
    <3>1. cs.pos \in 1 .. Len(wal)
      BY <1>b, <2>1, <2>2
    <3> QED
      BY <1>b, <3>1, ElementOfSeq, Zenon
  <2>4. next \in CSs /\ next.height = cs.height
    BY <1>b, <1>d, <2>3, Zenon
  <2>5. cs' = [next EXCEPT !.pos = @ + 1]
    BY <1>1 DEF Replay
  <2>6. pc' \in {"replay", "storeBlock"} /\ pc = "replay" /\ UNCHANGED <<disk, log, job>>
    BY <1>1, <1>e DEF Replay
  <2> HIDE DEF next
  <2>7. cs' \in CSs /\ cs'.height = cs.height /\ cs'.pos > 0
    BY <2>4, <2>5
  <2>8. Types'
    BY <2>6, <2>7 DEF Inv, Types
  <2> QED
    BY <2>6, <2>7, <2>8, IdleStep
<1>2. CASE ReplayDone
  <2>1. cs' \in CSs /\ cs'.height = cs.height
    BY <1>2, <1>b DEF ReplayDone
  <2>2. Types'
    BY <1>2, <2>1, Zenon DEF ReplayDone, Inv, Types
  <2> QED
    BY <1>2, <2>1, <2>2, IdleStep DEF ReplayDone
<1>3. CASE ReceivePolka
  <2>1. /\ wal' \in Seq(Records) /\ synced' \in Nat /\ synced' <= Len(wal')
        /\ cs' \in CSs /\ cs'.height = cs.height
    <3>1. wal' = Received("polka") /\ synced' = synced /\ cs' = HandlePolka(cs.height)
      BY <1>3 DEF ReceivePolka
    <3>2. cs.height \in Nat
      BY <1>a DEF Fields
    <3> QED
      BY <1>d, <1>f, <1>r, <3>1, <3>2, Zenon
  <2>2. Types'
    BY <1>3, <2>1 DEF ReceivePolka, Inv, Types
  <2> QED
    BY <1>3, <2>1, <2>2, IdleStep DEF ReceivePolka
<1>4. CASE WriteOwnVote
  <2>1. PICK h \in cs.queue : wal' = Append(wal, Rec("vote", h)) /\ cs' = [cs EXCEPT !.queue = @ \ {h}]
    BY <1>4, Zenon DEF WriteOwnVote
  <2>2. h \in Nat
    BY <1>b
  <2>3. wal' \in Seq(Records) /\ synced' \in Nat /\ synced' <= Len(wal')
    BY <1>4, <1>b, <1>c, <1>f, <2>1, <2>2 DEF WriteOwnVote
  <2>4. cs' \in CSs /\ cs'.height = cs.height
    BY <1>b, <2>1
  <2>5. Types'
    BY <1>4, <2>3, <2>4 DEF WriteOwnVote, Inv, Types
  <2> QED
    BY <1>4, <2>4, <2>5, IdleStep DEF WriteOwnVote
<1>5. CASE HandleOwnVote
  <2>1. Types'
    BY <1>5 DEF HandleOwnVote, Inv, Types
  <2> QED
    BY <1>5, <2>1, IdleStep DEF HandleOwnVote
<1>6. CASE ReceiveDecision
  <2>1. wal' \in Seq(Records) /\ synced' \in Nat /\ synced' <= Len(wal')
    BY <1>6, <1>f, <1>r, Zenon DEF ReceiveDecision
  <2>2. Types'
    BY <1>6, <2>1 DEF ReceiveDecision, Inv, Types
  <2> QED
    BY <1>6, <1>e, <2>2, IdleStep DEF ReceiveDecision
<1>7. CASE FlushWAL
  <2>1. synced' \in Nat /\ synced' <= Len(wal')
    BY <1>7, <1>b DEF FlushWAL
  <2>2. Types'
    BY <1>7, <2>1 DEF FlushWAL, Inv, Types
  <2> QED
    BY <1>7, <2>2, IdleStep DEF FlushWAL, Inv, IdleInv
<1> USE DEF NeverFails, ExecutesOnceInOrder, StateHasAppHash, StoreAheadByOne, ApplyInv, IdleInv,
            HandshakeInv, ResponseInv
<1>8. CASE StoreBlock
  <2>1. /\ pc = "storeBlock" /\ pc' = "endHeight" /\ store' = cs.height
        /\ UNCHANGED <<saved, response, app, log, cs, job>>
    BY <1>8, <1>a DEF StoreBlock, Inv, Fields
  <2>2. Types'
    BY <1>a, <2>1 DEF Inv, Types, Fields
  <2> QED
    BY <1>a, <2>1, <2>2 DEF Inv, Fields
<1>9. CASE WriteEndHeight
  <2>1. pc = "endHeight" /\ UNCHANGED <<disk, cs>> /\ cs.height = saved.height + 1
    BY <1>9 DEF WriteEndHeight, Inv
  <2>2. StartApply(saved.height + 1, FALSE, "consensus")
    BY <1>9, <2>1, Zenon DEF WriteEndHeight
  <2>3. /\ job' \in Jobs
        /\ job'.height = saved.height + 1 /\ job'.mock = FALSE /\ job'.caller = "consensus"
        /\ pc' = "finalizeBlock"
    BY <2>2, Started, Zenon
  <2>4. wal' \in Seq(Records) /\ synced' \in Nat /\ synced' <= Len(wal')
    BY <1>9, <1>f, <1>r, Zenon DEF WriteEndHeight
  <2>5. Types'
    BY <2>1, <2>3, <2>4 DEF Inv, Types
  <2> QED
    BY <1>a, <2>1, <2>3, <2>5 DEF Inv, Fields
<1> QED
  BY <1>1, <1>2, <1>3, <1>4, <1>5, <1>6, <1>7, <1>8, <1>9

(* A crash, with whatever it loses, keeps the invariant. *)
LEMMA CrashStep ==
  ASSUME Inv, Crash
  PROVE  Inv'
<1>a. Fields
  BY FieldTypes
<1>1. PICK lost \in 0 .. AppLoss : lost <= Len(app) /\ app' = SubSeq(app, 1, Len(app) - lost)
  BY DEF Crash
<1>2. Len(app) - lost \in 0 .. Len(app)
  BY <1>1, <1>a, BoundsAreNat DEF Fields
<1>3. app' = Chain(Len(app) - lost)
  BY <1>1, <1>2, <1>a, ChainPrefix, Zenon DEF Fields
<1>4. app' \in Seq(Nat) /\ Len(app') = Len(app) - lost
  BY <1>2, <1>3, ChainType
<1>5. PICK n \in synced .. Len(wal) : wal' = SubSeq(wal, 1, n) /\ synced' = n
  BY DEF Crash
<1>6. wal' \in Seq([kind : Kinds, height : Nat]) /\ synced' \in Nat /\ synced' <= Len(wal')
  <2> DEFINE Records == [kind : Kinds, height : Nat]
  <2>1. wal \in Seq(Records) /\ Len(wal) \in Nat /\ synced \in Nat
    BY DEF Inv, Types
  <2> HIDE DEF Records
  <2>2. n \in Nat /\ n <= Len(wal)
    BY <1>5, <2>1
  <2>3. SubSeq(wal, 1, n) \in Seq(Records) /\ Len(SubSeq(wal, 1, n)) = n
    BY <2>1, <2>2
  <2> QED
    BY <1>5, <2>2, <2>3 DEF Records
<1>7. pc' = "down" /\ cs' = NoCS /\ job' = NoJob /\ UNCHANGED <<store, saved, response>>
  BY DEF Crash
<1>8. NoCS \in [height : Nat, locked : BOOLEAN, queue : SUBSET Nat, pos : Nat]
  BY DEF NoCS
<1>9. Types'
  BY <1>4, <1>6, <1>7, <1>8, NoJobType DEF Inv, Types
<1>10. app' = Chain(Len(app'))
  BY <1>3, <1>4
<1>11. Len(app') \in Nat /\ Len(app') <= Len(app)
  BY <1>2, <1>4, <1>a, BoundsAreNat DEF Fields
<1> QED
  BY <1>a, <1>7, <1>9, <1>10, <1>11
  DEF Inv, Fields, NeverFails, ExecutesOnceInOrder, StateHasAppHash, StoreAheadByOne, ApplyInv, IdleInv,
      HandshakeInv, ResponseInv

(* Neither pruning nor the loss of commits takes a block that is still to be *)
(* replayed.                                                                 *)
LEMMA BaseStep ==
  ASSUME Inv, BaseInv, [Next]_vars
  PROVE  BaseInv'
<1>a. Fields
  BY FieldTypes
<1>b. Len(app) \in Nat /\ base \in Nat \ {0} /\ (base > 1 => Len(app) >= base)
  BY <1>a DEF Fields, BaseInv, ValidatorsKept
<1>1. CASE \/ Handshake \/ ReplayedBlocks \/ BlockSync \/ StartConsensus \/ Replay \/ ReplayDone
           \/ ReceivePolka \/ WriteOwnVote \/ HandleOwnVote \/ ReceiveDecision \/ FlushWAL
           \/ StoreBlock \/ WriteEndHeight \/ FinalizeBlock \/ SaveFinalizeBlockResponse \/ UNCHANGED vars
  <2>1. UNCHANGED <<app, base>>
    BY <1>1, Zenon
    DEF Handshake, ReplayedBlocks, BlockSync, StartConsensus, Replay, ReplayDone, ReceivePolka, WriteOwnVote,
        HandleOwnVote, ReceiveDecision, FlushWAL, StoreBlock, WriteEndHeight, FinalizeBlock,
        SaveFinalizeBlockResponse, vars, disk
  <2> QED
    BY <2>1 DEF BaseInv, ValidatorsKept
<1>2. CASE ReplayBlock
  <2>1. UNCHANGED base /\ app' \in {app, Append(app, AppHeight + 1)}
    BY <1>2 DEF ReplayBlock
  <2>2. AppHeight = Len(app)
    BY AppHeightIs
  <2>3. Len(app') \in {Len(app), Len(app) + 1}
    BY <1>a, <2>1, <2>2 DEF Fields
  <2> QED
    BY <1>b, <2>1, <2>3 DEF BaseInv, ValidatorsKept
<1>3. CASE Commit
  <2>1. UNCHANGED base /\ pc = "commit" /\ app' = (IF job.mock THEN app ELSE job.result)
    BY <1>3 DEF Commit
  <2>2. job.height \in Nat /\ job.height = saved.height + 1 /\ job.result = Chain(job.height) /\ saved.height \in Nat
    BY <1>a, <2>1 DEF Inv, ApplyInv, Fields
  <2>3. Len(Chain(job.height)) = job.height
    BY <2>2, ChainType
  <2>4. ~job.mock => Len(app) = saved.height
    BY <2>1 DEF Inv, ApplyInv
  <2>5. Len(app') \in {Len(app), Len(app) + 1}
    BY <2>1, <2>2, <2>3, <2>4
  <2> QED
    BY <1>b, <2>1, <2>5 DEF BaseInv, ValidatorsKept
<1>4. CASE SaveState
  <2>1. pc = "saveState" /\ UNCHANGED app /\ base' \in {base} \cup (base .. job.height)
    BY <1>4 DEF SaveState, PruneBlocks
  <2>2. Len(app) = job.height /\ job.height \in Nat /\ job.height > 0
    BY <1>a, <2>1 DEF Inv, ApplyInv, Fields
  <2> QED
    BY <1>b, <2>1, <2>2 DEF BaseInv, ValidatorsKept
<1>5. CASE Crash
  <2>1. PICK lost \in 0 .. AppLoss :
          lost <= Len(app) /\ ValidatorsKept(Len(app) - lost) /\ app' = SubSeq(app, 1, Len(app) - lost)
    BY <1>5 DEF Crash
  <2>2. Len(app) - lost \in 0 .. Len(app)
    BY <2>1, <1>a, BoundsAreNat DEF Fields
  <2>3. Len(app') = Len(app) - lost
    BY <1>a, <2>1, <2>2 DEF Fields
  <2>4. UNCHANGED base
    BY <1>5 DEF Crash
  <2> QED
    BY <1>b, <2>1, <2>3, <2>4 DEF BaseInv, ValidatorsKept
<1> QED
  BY <1>1, <1>2, <1>3, <1>4, <1>5 DEF Next, Step

(* Inv, with BaseInv, is an inductive invariant of the node's commits and    *)
(* recoveries.                                                               *)
THEOREM Invariance == Spec => [](Inv /\ BaseInv)
<1>0. Init => BaseInv
  BY DEF Init, BaseInv, ValidatorsKept
<1>1. Init => Inv
  <2> SUFFICES ASSUME Init PROVE Inv
    OBVIOUS
  <2>1. NoCS \in [height : Nat, locked : BOOLEAN, queue : SUBSET Nat, pos : Nat] /\ <<>> \in Seq(Nat)
    BY DEF NoCS
  <2>2. Types
    BY <2>1, NoJobType DEF Init, Types
  <2> QED
    BY <2>2, ChainEmpty
    DEF Init, Inv, NeverFails, ExecutesOnceInOrder, StateHasAppHash, StoreAheadByOne, ApplyInv, IdleInv,
        HandshakeInv, ResponseInv
<1>2. Inv /\ BaseInv /\ [Next]_vars => Inv'
  <2> SUFFICES ASSUME Inv, BaseInv, [Next]_vars PROVE Inv'
    OBVIOUS
  <2>1. CASE Next
    BY <2>1, ApplySteps, HandshakeSteps, StartSteps, ConsensusSteps, CrashStep DEF Next, Step
  <2>2. CASE UNCHANGED vars
    BY <2>2 DEF vars, disk, log, Inv, Types, NeverFails, ExecutesOnceInOrder, StateHasAppHash,
        StoreAheadByOne, ApplyInv, IdleInv, HandshakeInv, ResponseInv
  <2> QED
    BY <2>1, <2>2
<1>3. Inv /\ BaseInv /\ [Next]_vars => BaseInv'
  BY BaseStep
<1> QED
  BY <1>0, <1>1, <1>2, <1>3, PTL DEF Spec

(* No handshake, replay or commit of the node ever ends in an error or a     *)
(* panic, wherever it stopped (replay.go ReplayBlocks, state.go              *)
(* finalizeCommit).                                                          *)
THEOREM RecoveryNeverFails == Spec => []NeverFails
<1>1. Inv => NeverFails
  BY DEF Inv
<1> QED
  BY <1>1, Invariance, PTL

(* The application's committed state comes from executing every block once   *)
(* and in order (replay.go replayBlocks, execution.go applyBlock).           *)
THEOREM ExactlyOnce == Spec => []ExecutesOnceInOrder
<1>1. Inv => ExecutesOnceInOrder
  BY DEF Inv
<1> QED
  BY <1>1, Invariance, PTL

(* Every end of a height in the WAL is of a block that is stored. *)
LEMMA EndHeightStep ==
  ASSUME Inv, EndHeightMeansStored, [Next]_vars
  PROVE  EndHeightMeansStored'
<1> DEFINE Records == [kind : Kinds, height : Nat]
<1>a. Fields /\ wal \in Seq(Records)
  BY FieldTypes DEF Inv, Types
<1>1. ASSUME UNCHANGED wal, store' \in Nat, store <= store' PROVE EndHeightMeansStored'
  <2> SUFFICES ASSUME NEW i \in 1 .. Len(wal), wal[i].kind = "end" PROVE wal[i].height <= store'
    BY <1>1 DEF EndHeightMeansStored
  <2>1. wal[i] \in Records /\ wal[i].height <= store
    <3>1. wal[i] \in Records
      BY <1>a, Zenon, ElementOfSeq
    <3> QED
      BY <3>1 DEF EndHeightMeansStored
  <2> QED
    BY <1>1, <1>a, <2>1 DEF Fields
<1>2. ASSUME NEW r \in Records, wal' = Append(wal, r), UNCHANGED store, r.kind = "end" => r.height <= store
      PROVE  EndHeightMeansStored'
  <2> SUFFICES ASSUME NEW i \in 1 .. Len(wal'), wal'[i].kind = "end" PROVE wal'[i].height <= store
    BY <1>2 DEF EndHeightMeansStored
  <2>1. CASE i = Len(wal) + 1
    BY <1>2, <1>a, <2>1
  <2>2. CASE i # Len(wal) + 1
    <3>1. i \in 1 .. Len(wal) /\ wal'[i] = wal[i]
      BY <1>2, <1>a, <2>2
    <3> QED
      BY <3>1 DEF EndHeightMeansStored
  <2> QED
    BY <2>1, <2>2
<1>3. CASE Handshake \/ ReplayBlock \/ ReplayedBlocks \/ Replay \/ ReplayDone \/ HandleOwnVote \/ FlushWAL
           \/ FinalizeBlock \/ SaveFinalizeBlockResponse \/ Commit \/ SaveState \/ UNCHANGED vars
  <2>1. UNCHANGED <<store, wal>>
    BY Zenon, <1>3 DEF Handshake, ReplayBlock, ReplayedBlocks, Replay, ReplayDone, HandleOwnVote, FlushWAL,
      FinalizeBlock, SaveFinalizeBlockResponse, Commit, SaveState, vars, disk, log
  <2> QED
    BY <1>1, <1>a, <2>1 DEF Fields
<1>4. CASE BlockSync
  <2>1. UNCHANGED wal /\ store' \in {store, saved.height + 1}
    BY <1>4, Zenon DEF BlockSync, log
  <2>2. store <= saved.height + 1
    BY <1>a DEF Inv, StoreAheadByOne, Fields
  <2> QED
    BY <1>1, <1>a, <2>1, <2>2 DEF Fields
<1>5. CASE StoreBlock
  BY <1>1, <1>5, <1>a DEF StoreBlock, log, Fields
<1>6. CASE ReceivePolka \/ ReceiveDecision
  <2>1. PICK kind \in {"polka", "decide"} : wal' = Append(wal, Rec(kind, cs.height)) /\ UNCHANGED store
    BY <1>6 DEF ReceivePolka, ReceiveDecision, Received, disk
  <2>2. Rec(kind, cs.height) \in Records /\ Rec(kind, cs.height).kind # "end"
    BY <1>a DEF Rec, Kinds, Fields
  <2> QED
    BY <1>2, <2>1, <2>2
<1>7. CASE WriteOwnVote
  <2>1. PICK h \in cs.queue : wal' = Append(wal, Rec("vote", h)) /\ UNCHANGED store
    BY <1>7 DEF WriteOwnVote, disk
  <2>2. h \in Nat
    BY <2>1, RecordTypes
  <2>3. Rec("vote", h) \in Records /\ Rec("vote", h).kind # "end"
    BY <2>2 DEF Rec, Kinds
  <2> QED
    BY <1>2, <2>1, <2>3
<1>8. CASE WriteEndHeight
  <2>1. wal' = Append(wal, Rec("end", cs.height)) /\ UNCHANGED store /\ store = cs.height
    BY <1>8 DEF WriteEndHeight, Received, disk, Inv, IdleInv
  <2>2. Rec("end", cs.height) \in Records /\ Rec("end", cs.height).height <= store
    BY <1>a, <2>1 DEF Rec, Kinds, Fields
  <2> QED
    BY <1>2, <2>1, <2>2
<1>9. CASE StartConsensus
  <2>1. wal' = (IF wal = <<>> THEN <<Rec("end", 0)>> ELSE wal) /\ UNCHANGED store
    BY <1>9 DEF StartConsensus, OpenWAL, disk
  <2>2. CASE wal = <<>>
    <3>1. wal' = <<Rec("end", 0)>>
      BY <2>1, <2>2
    <3>2. \A i \in 1 .. Len(wal') : wal'[i].height = 0
      BY <3>1 DEF Rec
    <3> QED
      BY <1>a, <2>1, <3>2 DEF EndHeightMeansStored, Fields
  <2>3. CASE wal # <<>>
    BY <1>1, <1>a, <2>1, <2>3 DEF Fields
  <2> QED
    BY <2>2, <2>3
<1>10. CASE Crash
  <2>1. PICK n \in synced .. Len(wal) : wal' = SubSeq(wal, 1, n) /\ UNCHANGED store
    BY <1>10 DEF Crash
  <2>2. n \in 0 .. Len(wal)
    BY <2>1 DEF Inv, Types
  <2>3. Len(wal') = n /\ \A i \in 1 .. n : wal'[i] = wal[i] /\ i \in 1 .. Len(wal)
    BY <1>a, <2>1, <2>2
  <2> QED
    BY <2>1, <2>3, Zenon DEF EndHeightMeansStored
<1> QED
  BY <1>3, <1>4, <1>5, <1>6, <1>7, <1>8, <1>9, <1>10 DEF Next, Step

(* The state store has the application's app hash of its height, the stores  *)
(* stay within the reach of the handshake, and the end of a height is in the *)
(* WAL only when its block is stored (finalizeCommit, ReplayBlocks).         *)
THEOREM StoresAgree == Spec => []StoresAreConsistent
<1>1. Init => EndHeightMeansStored
  BY DEF Init, EndHeightMeansStored
<1>2. Inv /\ EndHeightMeansStored /\ [Next]_vars => EndHeightMeansStored'
  BY EndHeightStep
<1>3. Inv /\ EndHeightMeansStored => StoresAreConsistent
  BY DEF Inv, StoresAreConsistent
<1> QED
  BY <1>1, <1>2, <1>3, Invariance, PTL DEF Spec
-----------------------------------------------------------------------------
(* What the WAL says of the node's votes: a vote follows the messages that   *)
(* led to it, a vote that was sent is durable, and so are these messages;    *)
(* nothing is written for a height before the end of the height before it.   *)
WALInv ==
  /\ \A h \in cs.queue : InWAL("polka", h)
  /\ \A h \in sent : \E i \in 1 .. synced : wal[i] = Rec("vote", h)
  /\ \A i \in 1 .. Len(wal) : wal[i].kind = "vote" =>
       \E j \in 1 .. Len(wal) : j < i /\ wal[j] = Rec("polka", wal[i].height)
  /\ \A i \in 1 .. Len(wal) : wal[i].kind = "polka" => wal[i].height <= saved.height + 1
  /\ \A i, j \in 1 .. Len(wal) : wal[i].kind = "end" /\ wal[j] = Rec("polka", wal[i].height + 1) => i < j

(* What was replayed, or received, at this height has locked the node; the   *)
(* WAL grows during a replay only by records that are synced.                *)
ReplayInv ==
  /\ pc = "handleVote" => synced = Len(wal) /\ Len(wal) > 0 /\ wal[Len(wal)].kind = "vote"
  /\ pc \in {"run", "handleVote"} => cs.pos = 0
  /\ cs.pos # 0 => synced = Len(wal)
  /\ pc = "blocksync" => ~InWAL("polka", saved.height + 1)
  /\ pc = "replay" => \A j \in 1 .. Len(wal) : j < cs.pos /\ wal[j] = Rec("polka", cs.height) => cs.locked
  /\ pc \in {"run", "handleVote"} /\ InWAL("end", cs.height - 1) /\ InWAL("polka", cs.height) => cs.locked

LockInv == WALInv /\ ReplayInv

(* The heights whose vote is durable, and those whose polka is in the WAL. *)
Voted == {h \in Nat : \E i \in 1 .. synced : wal[i] = Rec("vote", h)}
Locking == {h \in Nat : InWAL("polka", h)}

(* The steps of the node by what they do to the WAL: most leave it alone and *)
(* only handle what it has, some write a record, a crash loses what was not  *)
(* synced.                                                                   *)
Handles ==
  /\ UNCHANGED wal
  /\ synced' \in {synced, Len(wal)}
  /\ sent' \subseteq sent \cup Voted
  /\ cs'.queue \subseteq cs.queue \cup Locking
  /\ saved'.height \in Nat /\ saved'.height >= saved.height

Writes(kind, h) ==
  /\ wal' = Append(wal, Rec(kind, h))
  /\ synced' \in {synced, Len(wal')}
  /\ UNCHANGED <<sent, saved>>
  /\ cs'.queue \subseteq cs.queue \cup IF kind = "polka" THEN {h} ELSE {}
  /\ h \in Nat
  /\ kind = "vote" => h \in cs.queue
  /\ kind # "vote" => h = saved.height + 1

Begins ==
  /\ wal = <<>> /\ wal' = <<Rec("end", 0)>> /\ synced' = 1
  /\ UNCHANGED <<sent, saved>>
  /\ cs'.queue = {}

(* Every step of the node is one of these. *)
LEMMA WALSteps ==
  ASSUME Inv, LockInv, [Next]_vars
  PROVE  Handles \/ (\E kind \in Kinds, h \in Nat : Writes(kind, h)) \/ Begins \/ Crash
<1> DEFINE Records == [kind : Kinds, height : Nat]
           CSs == [height : Nat, locked : BOOLEAN, queue : SUBSET Nat, pos : Nat]
<1> USE DEF disk, log
<1>a. Fields /\ wal \in Seq(Records) /\ Len(wal) \in Nat /\ cs \in CSs /\ synced \in Nat /\ synced <= Len(wal)
  BY FieldTypes DEF Inv, Types
<1>b. "polka" \in Kinds /\ "vote" \in Kinds /\ "decide" \in Kinds /\ "end" \in Kinds
  BY DEF Kinds
<1>1. CASE Handshake \/ ReplayBlock \/ ReplayedBlocks \/ BlockSync \/ StoreBlock
           \/ FinalizeBlock \/ SaveFinalizeBlockResponse \/ Commit \/ UNCHANGED vars
  <2>1. UNCHANGED <<wal, synced, sent, cs, saved>>
    BY Zenon, <1>1 DEF Handshake, ReplayBlock, ReplayedBlocks, BlockSync, StoreBlock,
      FinalizeBlock, SaveFinalizeBlockResponse, Commit, vars
  <2> QED
    BY <1>a, <2>1 DEF Handles, Fields
<1>2. CASE SaveState
  <2>1. UNCHANGED <<wal, synced, sent>> /\ saved'.height = job.height
    BY <1>2 DEF SaveState
  <2>2. job.height = saved.height + 1 /\ job.caller \in {"handshake", "blocksync", "consensus"}
    BY <1>2 DEF SaveState, Inv, ApplyInv
  <2>3. cs' = cs \/ cs' = [cs EXCEPT !.height = job.height + 1, !.locked = FALSE]
    BY <1>2, <2>2, Zenon DEF SaveState
  <2>4. cs'.queue = cs.queue
    BY <1>a, <2>3, Zenon
  <2> QED
    BY <1>a, <2>1, <2>2, <2>4 DEF Handles, Fields
<1>3. CASE Replay
  <2> DEFINE r == wal[cs.pos]
             next == IF r.kind = "polka" THEN HandlePolka(r.height) ELSE cs
  <2>1. cs.pos \in 1 .. Len(wal)
    BY <1>3, <1>a DEF Replay, Inv, IdleInv
  <2>2. r \in Records
    BY <1>a, <2>1, ElementOfSeq, Zenon
  <2>3. synced = Len(wal)
    BY <2>1 DEF LockInv, ReplayInv
  <2>4. r.kind = "vote" => r.height \in Voted
    BY <2>1, <2>2, <2>3 DEF Voted, Rec
  <2>5. r.kind = "polka" => r.height \in Locking
    BY <2>1, <2>2 DEF Locking, InWAL, Rec
  <2>6. next \in CSs /\ next.queue \subseteq cs.queue \cup Locking
    BY <1>a, <2>2, <2>5, Zenon DEF HandlePolka
  <2>7. cs' = [next EXCEPT !.pos = @ + 1] /\ sent' = IF r.kind = "vote" THEN sent \cup {r.height} ELSE sent
    BY <1>3 DEF Replay
  <2> HIDE DEF next, r
  <2>8. cs'.queue = next.queue
    BY <2>6, <2>7
  <2>9. UNCHANGED <<wal, synced, saved>>
    BY <1>3 DEF Replay
  <2> QED
    BY <1>a, <2>4, <2>6, <2>7, <2>8, <2>9 DEF Handles, Fields
<1>4. CASE ReplayDone \/ FlushWAL
  <2>1. UNCHANGED <<wal, sent, saved>> /\ synced' \in {synced, Len(wal)} /\ cs' \in {cs, [cs EXCEPT !.pos = 0]}
    BY <1>4 DEF ReplayDone, FlushWAL
  <2>2. cs'.queue = cs.queue
    BY <1>a, <2>1
  <2> QED
    BY <1>a, <2>1, <2>2 DEF Handles, Fields
<1>5. CASE HandleOwnVote
  <2>1. Len(wal) \in 1 .. Len(wal) /\ synced = Len(wal) /\ wal[Len(wal)].kind = "vote"
    BY <1>5, <1>a DEF HandleOwnVote, LockInv, ReplayInv
  <2>2. wal[Len(wal)] \in Records
    BY <1>a, <2>1, ElementOfSeq, Zenon
  <2>3. wal[Len(wal)].height \in Voted
    BY <2>1, <2>2 DEF Voted, Rec
  <2>4. UNCHANGED <<wal, synced, cs, saved>> /\ sent' = sent \cup {wal[Len(wal)].height}
    BY <1>5 DEF HandleOwnVote
  <2> QED
    BY <1>a, <2>3, <2>4 DEF Handles, Fields
<1>6. CASE ReceivePolka \/ ReceiveDecision \/ WriteEndHeight
  <2>1. cs.height = saved.height + 1
    BY <1>6, Zenon DEF ReceivePolka, ReceiveDecision, WriteEndHeight, Inv, IdleInv
  <2>2. CASE ReceivePolka
    <3>1. HandlePolka(cs.height).queue \subseteq cs.queue \cup {cs.height}
      BY <1>a DEF HandlePolka
    <3>2. Writes("polka", cs.height)
      BY <1>a, <2>1, <2>2, <3>1 DEF ReceivePolka, Writes, Received, Fields
    <3> QED
      BY <1>a, <1>b, <3>2 DEF Fields
  <2>3. CASE ReceiveDecision
    <3>1. Writes("decide", cs.height)
      BY <1>a, <2>1, <2>3 DEF ReceiveDecision, Writes, Received, Fields
    <3> QED
      BY <1>a, <1>b, <3>1 DEF Fields
  <2>4. CASE WriteEndHeight
    <3>1. Writes("end", cs.height)
      BY <1>a, <2>1, <2>4 DEF WriteEndHeight, Writes, Received, Fields
    <3> QED
      BY <1>a, <1>b, <3>1 DEF Fields
  <2> QED
    BY <1>6, <2>2, <2>3, <2>4
<1>7. CASE WriteOwnVote
  <2>1. PICK h \in cs.queue : wal' = Append(wal, Rec("vote", h)) /\ cs' = [cs EXCEPT !.queue = @ \ {h}]
    BY <1>7, Zenon DEF WriteOwnVote
  <2>2. h \in Nat /\ cs'.queue = cs.queue \ {h}
    BY <1>a, <2>1
  <2>3. Writes("vote", h)
    BY <1>7, <2>1, <2>2 DEF WriteOwnVote, Writes
  <2> QED
    BY <1>b, <2>2, <2>3
<1>8. CASE StartConsensus
  <2>1. /\ wal' = (IF wal = <<>> THEN <<Rec("end", 0)>> ELSE wal) /\ synced' = Len(wal')
        /\ UNCHANGED <<saved, sent>>
    BY <1>8 DEF StartConsensus, OpenWAL
  <2>2. cs'.queue = {}
    BY <1>8 DEF StartConsensus, NoCS
  <2>3. CASE wal = <<>>
    <3>1. wal' = <<Rec("end", 0)>>
      BY <2>1, <2>3
    <3>2. synced' = 1
      BY <2>1, <3>1
    <3> QED
      BY <2>1, <2>2, <2>3, <3>1, <3>2 DEF Begins
  <2>4. CASE wal # <<>>
    BY <1>a, <2>1, <2>2, <2>4 DEF Handles, Fields
  <2> QED
    BY <2>3, <2>4
<1> QED
  BY <1>1, <1>2, <1>3, <1>4, <1>5, <1>6, <1>7, <1>8 DEF Next, Step

(* Every step keeps what the WAL says of the node's votes. *)
LEMMA WALInvStep ==
  ASSUME Inv, LockInv, [Next]_vars
  PROVE  WALInv'
<1> DEFINE Records == [kind : Kinds, height : Nat]
<1>a. Fields /\ wal \in Seq(Records) /\ Len(wal) \in Nat /\ synced \in Nat /\ synced <= Len(wal)
  BY FieldTypes DEF Inv, Types
<1>b. \A i \in 1 .. Len(wal) : wal[i] \in Records
  BY <1>a, ElementOfSeq, Zenon
<1>c. WALInv
  BY DEF LockInv
<1>1. CASE Handles
  <2>0. UNCHANGED wal /\ synced' \in Nat /\ synced <= synced' /\ saved'.height \in Nat /\ saved'.height >= saved.height
    BY <1>1, <1>a DEF Handles
  <2>1. \A h \in cs'.queue : InWAL("polka", h)'
    BY <1>1, <1>c, <2>0 DEF WALInv, Handles, Locking, InWAL
  <2>2. \A h \in sent' : \E i \in 1 .. synced' : wal'[i] = Rec("vote", h)
    <3> SUFFICES ASSUME NEW h \in sent' PROVE \E i \in 1 .. synced' : wal[i] = Rec("vote", h)
      BY <2>0
    <3>1. \E i \in 1 .. synced : wal[i] = Rec("vote", h)
      BY <1>1, <1>c DEF WALInv, Handles, Voted
    <3> QED
      BY <1>a, <2>0, <3>1
  <2>3. \A i \in 1 .. Len(wal') : wal'[i].kind = "polka" => wal'[i].height <= saved'.height + 1
    BY <1>a, <1>b, <1>c, <2>0 DEF WALInv, Fields
  <2> QED
    BY <1>c, <2>0, <2>1, <2>2, <2>3 DEF WALInv
<1>2. ASSUME NEW kind \in Kinds, NEW h \in Nat, Writes(kind, h) PROVE WALInv'
  <2> DEFINE n == Len(wal)
             r == Rec(kind, h)
  <2>0. r \in Records /\ r.kind = kind /\ r.height = h
    BY DEF Rec
  <2>1. Len(wal') = n + 1 /\ wal'[n + 1] = r /\ \A i \in 1 .. n : wal'[i] = wal[i]
    <3>1. wal' = Append(wal, r)
      BY <1>2 DEF Writes
    <3> HIDE DEF r
    <3> QED
      BY <1>a, <2>0, <3>1
  <2>2. \A k, g : InWAL(k, g) => InWAL(k, g)'
    BY <1>a, <2>1 DEF InWAL
  <2> HIDE DEF r
  <2>3. \A g \in cs'.queue : InWAL("polka", g)'
    <3> SUFFICES ASSUME NEW g \in cs'.queue PROVE InWAL("polka", g)'
      OBVIOUS
    <3>1. CASE g \in cs.queue
      BY <1>c, <2>2, <3>1 DEF WALInv
    <3>2. CASE g = h /\ kind = "polka"
      BY <1>a, <2>1, <3>2 DEF InWAL, r
    <3> QED
      BY <1>2, <3>1, <3>2 DEF Writes
  <2>4. \A g \in sent' : \E i \in 1 .. synced' : wal'[i] = Rec("vote", g)
    <3> SUFFICES ASSUME NEW g \in sent PROVE \E i \in 1 .. synced' : wal'[i] = Rec("vote", g)
      BY <1>2, Zenon DEF Writes
    <3>1. PICK i \in 1 .. synced : wal[i] = Rec("vote", g)
      BY <1>c DEF WALInv
    <3>2. i \in 1 .. n /\ i \in 1 .. synced'
      BY <1>2, <1>a, <2>1 DEF Writes
    <3> QED
      BY <2>1, <3>1, <3>2
  <2>5. ASSUME NEW i \in 1 .. (n + 1), wal'[i].kind = "vote"
        PROVE  \E j \in 1 .. (n + 1) : j < i /\ wal'[j] = Rec("polka", wal'[i].height)
    <3>1. CASE i = n + 1
      <4>1. InWAL("polka", h)
        BY <1>2, <1>c, <2>0, <2>1, <2>5, <3>1 DEF Writes, WALInv
      <4>2. PICK j \in 1 .. n : wal[j] = Rec("polka", h)
        BY <4>1 DEF InWAL
      <4> QED
        BY <1>a, <2>0, <2>1, <3>1, <4>2
    <3>2. CASE i \in 1 .. n
      <4>1. PICK j \in 1 .. n : j < i /\ wal[j] = Rec("polka", wal[i].height)
        BY <1>c, <2>1, <2>5, <3>2 DEF WALInv
      <4> QED
        BY <1>a, <2>1, <3>2, <4>1
    <3> QED
      BY <1>a, <3>1, <3>2
  <2>6. ASSUME NEW i \in 1 .. (n + 1), wal'[i].kind = "polka"
        PROVE  wal'[i].height <= saved'.height + 1
    <3>1. CASE i = n + 1
      BY <1>2, <1>a, <2>0, <2>1, <2>6, <3>1 DEF Writes, Fields
    <3>2. CASE i \in 1 .. n
      BY <1>2, <1>c, <2>1, <2>6, <3>2 DEF WALInv, Writes
    <3> QED
      BY <1>a, <3>1, <3>2
  <2>7. ASSUME NEW i \in 1 .. (n + 1), NEW j \in 1 .. (n + 1),
               wal'[i].kind = "end", wal'[j] = Rec("polka", wal'[i].height + 1)
        PROVE  i < j
    <3>1. CASE i \in 1 .. n /\ j \in 1 .. n
      BY <1>c, <2>1, <2>7, <3>1 DEF WALInv
    <3>2. CASE j = n + 1 /\ i \in 1 .. n
      BY <1>a, <3>2
    <3>3. CASE i = n + 1
      <4>1. kind = "end" /\ h = saved.height + 1 /\ wal'[i].height = h
        BY <1>2, <2>0, <2>1, <2>7, <3>3 DEF Writes
      <4>2. j # n + 1
        BY <2>1, <2>7, <3>3 DEF Rec
      <4>3. j \in 1 .. n /\ wal[j] = Rec("polka", saved.height + 2)
        <5>1. j \in 1 .. n
          BY <1>a, <4>2
        <5>2. h + 1 = saved.height + 2
          BY <1>a, <4>1 DEF Fields
        <5> QED
          BY <2>1, <2>7, <4>1, <5>1, <5>2
      <4>4. saved.height + 2 <= saved.height + 1
        BY <1>c, <4>3 DEF WALInv, Rec
      <4> QED
        BY <1>a, <4>4 DEF Fields
    <3> QED
      BY <1>a, <3>1, <3>2, <3>3
  <2> QED
    BY <2>1, <2>3, <2>4, <2>5, <2>6, <2>7 DEF WALInv
<1>3. CASE Begins
  <2>1. Len(wal) = 0 /\ synced = 0
    BY <1>3, <1>a DEF Begins
  <2>2. sent' = {}
    BY <1>3, <1>c, <2>1 DEF Begins, WALInv
  <2>3. Len(wal') = 1 /\ wal'[1] = Rec("end", 0)
    BY <1>3 DEF Begins
  <2>4. \A i \in 1 .. Len(wal') : i = 1 /\ wal'[i].kind = "end"
    BY <2>3 DEF Rec
  <2> QED
    BY <1>3, <2>2, <2>3, <2>4 DEF WALInv, Begins, Rec
<1>4. CASE Crash
  <2>1. PICK n \in synced .. Len(wal) : wal' = SubSeq(wal, 1, n) /\ synced' = n
    BY <1>4 DEF Crash
  <2>2. n \in 0 .. Len(wal) /\ synced <= n
    BY <1>a, <2>1
  <2>3. Len(wal') = n /\ \A i \in 1 .. n : wal'[i] = wal[i] /\ i \in 1 .. Len(wal)
    BY <1>a, <2>1, <2>2
  <2>4. cs'.queue = {} /\ UNCHANGED <<saved, sent>>
    BY <1>4 DEF Crash, NoCS
  <2>5. \A g \in sent' : \E i \in 1 .. synced' : wal'[i] = Rec("vote", g)
    <3> SUFFICES ASSUME NEW g \in sent PROVE \E i \in 1 .. n : wal'[i] = Rec("vote", g)
      BY <2>1, <2>4
    <3>1. PICK i \in 1 .. synced : wal[i] = Rec("vote", g)
      BY <1>c DEF WALInv
    <3> QED
      BY <1>a, <2>2, <2>3, <3>1
  <2>6. ASSUME NEW i \in 1 .. n, wal'[i].kind = "vote"
        PROVE  \E j \in 1 .. n : j < i /\ wal'[j] = Rec("polka", wal'[i].height)
    <3>1. PICK j \in 1 .. Len(wal) : j < i /\ wal[j] = Rec("polka", wal[i].height)
      BY <1>c, <2>3, <2>6 DEF WALInv
    <3> QED
      BY <1>a, <2>2, <2>3, <3>1
  <2>7. \A i \in 1 .. n : wal'[i].kind = "polka" => wal'[i].height <= saved'.height + 1
    BY <1>c, <2>3, <2>4 DEF WALInv
  <2>8. \A i, j \in 1 .. n : wal'[i].kind = "end" /\ wal'[j] = Rec("polka", wal'[i].height + 1) => i < j
    BY <1>c, <2>3 DEF WALInv
  <2> QED
    BY <2>3, <2>4, <2>5, <2>6, <2>7, <2>8 DEF WALInv
<1> QED
  BY <1>1, <1>2, <1>3, <1>4, WALSteps

(* No polka of a height after the next one is in the WAL. *)
LEMMA NoLaterPolka ==
  ASSUME Inv, LockInv, NEW h \in Nat, h > saved.height + 1
  PROVE  ~InWAL("polka", h)
<1> SUFFICES ASSUME NEW i \in 1 .. Len(wal), wal[i] = Rec("polka", h) PROVE FALSE
  BY DEF InWAL
<1>1. wal[i].kind = "polka" /\ wal[i].height = h
  BY DEF Rec
<1>2. h <= saved.height + 1
  BY <1>1 DEF LockInv, WALInv
<1> QED
  BY <1>2, FieldTypes DEF Fields

(* Every step keeps what the replay relies on: a height starts unlocked only *)
(* where the WAL has no polka of it, or where the replay will come to it.    *)
LEMMA ReplayInvStep ==
  ASSUME Inv, LockInv, EndHeightMeansStored, [Next]_vars
  PROVE  ReplayInv'
<1> DEFINE Records == [kind : Kinds, height : Nat]
           CSs == [height : Nat, locked : BOOLEAN, queue : SUBSET Nat, pos : Nat]
           Has(w, kind, g) == \E i \in 1 .. Len(w) : w[i] = Rec(kind, g)
<1> USE DEF disk, log
<1>a. Fields /\ wal \in Seq(Records) /\ Len(wal) \in Nat /\ cs \in CSs /\ synced \in Nat /\ synced <= Len(wal)
  BY FieldTypes DEF Inv, Types
<1>b. ReplayInv
  BY DEF LockInv
<1>1. CASE Handshake \/ ReplayBlock \/ ReplayedBlocks \/ BlockSync \/ StoreBlock
           \/ FinalizeBlock \/ SaveFinalizeBlockResponse \/ Commit
  <2>1. UNCHANGED <<wal, synced, cs>>
    BY Zenon, <1>1 DEF Handshake, ReplayBlock, ReplayedBlocks, BlockSync, StoreBlock,
      FinalizeBlock, SaveFinalizeBlockResponse, Commit
  <2>2. pc' \notin {"handleVote", "run", "blocksync", "replay"}
    BY <1>1 DEF Handshake, ReplayBlock, ReplayedBlocks, BlockSync, StoreBlock,
      FinalizeBlock, SaveFinalizeBlockResponse, Commit, StartApply
  <2> QED
    BY <1>b, <2>1, <2>2 DEF ReplayInv
<1>2. CASE SaveState
  <2>1. UNCHANGED <<wal, synced>> /\ saved'.height = job.height
    BY <1>2 DEF SaveState
  <2>2. job.height = saved.height + 1 /\ job.caller \in {"handshake", "blocksync", "consensus"}
    BY <1>2 DEF SaveState, Inv, ApplyInv
  <2>3. ~Has(wal', "polka", job.height + 1)
    <3>1. ~InWAL("polka", job.height + 1)
      BY <1>a, <2>2, NoLaterPolka DEF Fields
    <3> QED
      BY <2>1, <3>1 DEF InWAL
  <2>4. CASE job.caller \in {"handshake", "blocksync"}
    <3>1. UNCHANGED cs /\ pc' \in {"ready", "blocksync"}
      BY <1>2, <2>4, Zenon DEF SaveState
    <3> QED
      BY <1>b, <2>1, <2>3, <3>1 DEF ReplayInv, InWAL
  <2>5. CASE job.caller = "consensus"
    <3>1. cs' = [cs EXCEPT !.height = job.height + 1, !.locked = FALSE] /\ pc' = IF cs.pos = 0 THEN "run" ELSE "replay"
      BY <1>2, <2>5 DEF SaveState
    <3>2. cs'.height = job.height + 1 /\ cs'.pos = cs.pos
      BY <1>a, <3>1
    <3>3. \A j \in 1 .. Len(wal') : wal'[j] # Rec("polka", cs'.height)
      BY <2>3, <3>2
    <3> QED
      BY <1>b, <2>1, <3>1, <3>2, <3>3 DEF ReplayInv, InWAL
  <2> QED
    BY <2>2, <2>4, <2>5
<1>3. CASE Replay
  <2> DEFINE r == wal[cs.pos]
             next == IF r.kind = "polka" THEN HandlePolka(r.height) ELSE cs
  <2>1. cs.pos \in 1 .. Len(wal) /\ UNCHANGED <<wal, synced, saved>> /\ pc = "replay"
    BY <1>3, <1>a DEF Replay, Inv, IdleInv
  <2>2. r \in Records
    BY <1>a, <2>1, ElementOfSeq, Zenon
  <2>3. synced = Len(wal)
    BY <1>b, <2>1 DEF ReplayInv
  <2>4. /\ next \in CSs /\ next.height = cs.height /\ next.pos = cs.pos
        /\ cs.locked => next.locked
        /\ r = Rec("polka", cs.height) => next.locked
    <3>1. ASSUME NEW g \in Nat
          PROVE  /\ HandlePolka(g) \in CSs /\ HandlePolka(g).height = cs.height /\ HandlePolka(g).pos = cs.pos
                 /\ cs.locked => HandlePolka(g).locked
                 /\ g = cs.height => HandlePolka(g).locked
      BY <1>a, Zenon DEF HandlePolka
    <3>2. r = Rec("polka", cs.height) => r.kind = "polka" /\ r.height = cs.height
      BY DEF Rec
    <3>3. r.height \in Nat
      BY <2>2
    <3> QED
      BY <1>a, <3>1, <3>2, <3>3
  <2>5. cs' = [next EXCEPT !.pos = @ + 1]
    BY <1>3 DEF Replay
  <2>6. pc' \notin {"handleVote", "run", "blocksync"}
    BY <1>3 DEF Replay
  <2> HIDE DEF next
  <2>7. cs'.height = cs.height /\ cs'.pos = cs.pos + 1 /\ cs'.locked = next.locked
    BY <2>4, <2>5
  <2>8. ASSUME NEW j \in 1 .. Len(wal), j < cs'.pos, wal[j] = Rec("polka", cs.height)
        PROVE  cs'.locked
    <3>1. CASE j = cs.pos
      BY <2>4, <2>7, <2>8, <3>1
    <3>2. CASE j < cs.pos
      BY <1>b, <2>1, <2>4, <2>7, <2>8, <3>2 DEF ReplayInv
    <3> QED
      BY <2>1, <2>7, <2>8, <3>1, <3>2
  <2> QED
    BY <2>1, <2>3, <2>6, <2>7, <2>8 DEF ReplayInv
<1>4. CASE ReplayDone
  <2>1. pc = "replay" /\ pc' = "run" /\ cs.pos > Len(wal) /\ cs' = [cs EXCEPT !.pos = 0] /\ UNCHANGED <<wal, synced>>
    BY <1>4 DEF ReplayDone
  <2>2. cs'.pos = 0 /\ cs'.height = cs.height /\ cs'.locked = cs.locked
    BY <1>a, <2>1
  <2>3. InWAL("polka", cs.height) => cs.locked
    BY <1>a, <1>b, <2>1 DEF ReplayInv, InWAL
  <2> QED
    BY <2>1, <2>2, <2>3 DEF ReplayInv, InWAL
<1>5. CASE FlushWAL \/ HandleOwnVote
  BY <1>5, <1>b DEF FlushWAL, HandleOwnVote, ReplayInv, InWAL
<1>6. CASE ReceivePolka
  <2>1. pc = "run" /\ pc' = "run" /\ cs' = HandlePolka(cs.height)
    BY <1>6 DEF ReceivePolka
  <2>2. cs'.locked /\ cs'.pos = cs.pos
    BY <1>6, <1>a, <2>1 DEF HandlePolka, ReceivePolka
  <2> QED
    BY <1>b, <2>1, <2>2 DEF ReplayInv
<1>7. CASE WriteOwnVote
  <2>1. PICK h \in cs.queue : wal' = Append(wal, Rec("vote", h)) /\ cs' = [cs EXCEPT !.queue = @ \ {h}]
    BY <1>7, Zenon DEF WriteOwnVote
  <2>2. h \in Nat /\ cs'.height = cs.height /\ cs'.pos = cs.pos /\ cs'.locked = cs.locked
    BY <1>a, <2>1
  <2>3. pc = "run" /\ pc' = "handleVote" /\ synced' = Len(wal')
    BY <1>7 DEF WriteOwnVote
  <2>4. Rec("vote", h) \in Records /\ Rec("vote", h).kind = "vote"
    BY <2>2 DEF Rec, Kinds
  <2>5. /\ Len(wal') = Len(wal) + 1 /\ wal'[Len(wal) + 1] = Rec("vote", h)
        /\ \A i \in 1 .. Len(wal) : wal'[i] = wal[i]
    <3> DEFINE r == Rec("vote", h)
    <3>1. r \in Records /\ wal' = Append(wal, r)
      BY <2>1, <2>4
    <3> HIDE DEF r
    <3>2. Len(wal') = Len(wal) + 1 /\ wal'[Len(wal) + 1] = r /\ \A i \in 1 .. Len(wal) : wal'[i] = wal[i]
      BY <1>a, <3>1
    <3> QED
      BY <3>2 DEF r
  <2>6. ASSUME NEW kind, kind # "vote", NEW g, Has(wal', kind, g) PROVE InWAL(kind, g)
    <3>1. PICK i \in 1 .. Len(wal') : wal'[i] = Rec(kind, g)
      BY <2>6 DEF InWAL
    <3>2. i # Len(wal) + 1
      BY <2>4, <2>5, <2>6, <3>1 DEF Rec
    <3>3. i \in 1 .. Len(wal)
      BY <1>a, <2>5, <3>1, <3>2
    <3> QED
      BY <2>5, <3>1, <3>3 DEF InWAL
  <2>7. Has(wal', "end", cs.height - 1) /\ Has(wal', "polka", cs.height) => cs.locked
    BY <1>b, <2>3, <2>6 DEF ReplayInv
  <2>8. InWAL("end", cs.height - 1)' /\ InWAL("polka", cs.height)' => cs'.locked
    BY <2>2, <2>7 DEF InWAL
  <2>9. synced' = Len(wal') /\ Len(wal') > 0 /\ wal'[Len(wal')].kind = "vote"
    BY <1>a, <2>3, <2>4, <2>5
  <2> QED
    BY <1>b, <2>2, <2>3, <2>8, <2>9 DEF ReplayInv
<1>8. CASE ReceiveDecision
  <2>1. pc = "run" /\ pc' \in {"storeBlock", "failed"} /\ UNCHANGED cs
    BY <1>8 DEF ReceiveDecision
  <2> QED
    BY <1>b, <2>1 DEF ReplayInv
<1>9. CASE WriteEndHeight
  <2>1. pc' = "finalizeBlock" /\ synced' = Len(wal')
    BY <1>9 DEF WriteEndHeight, StartApply
  <2> QED
    BY <2>1 DEF ReplayInv
<1>10. CASE StartConsensus
  <2> DEFINE h == saved.height + 1
             ends(k) == {i \in 1 .. Len(wal') : wal'[i] = Rec("end", k)}
  <2>1. /\ pc \in {"ready", "blocksync"} /\ UNCHANGED <<saved, store, sent>>
        /\ wal' = (IF wal = <<>> THEN <<Rec("end", 0)>> ELSE wal) /\ synced' = Len(wal')
    BY <1>10 DEF StartConsensus, OpenWAL
  <2>2. store = saved.height /\ saved.height \in Nat /\ h \in Nat /\ h - 1 = saved.height
    <3>1. store = saved.height
      BY <2>1 DEF Inv, IdleInv
    <3>2. saved.height \in Nat
      BY <1>a DEF Fields
    <3> QED
      BY <3>1, <3>2
  <2>3. WALInv' /\ EndHeightMeansStored'
    BY WALInvStep, EndHeightStep
  <2>4. CASE pc = "ready" /\ ends(h) = {} /\ ends(h - 1) # {}
    <3> DEFINE first == CHOOSE i \in ends(h - 1) : \A j \in ends(h - 1) : i <= j
    <3>1. first \in ends(h - 1)
      <4> DEFINE E == ends(h - 1)
      <4>1. E \in SUBSET Nat /\ E # {}
        BY <2>4
      <4> HIDE DEF E
      <4>2. \E i \in E : \A j \in E : i <= j
        BY <4>1, LeastElement
      <4>3. (CHOOSE i \in E : \A j \in E : i <= j) \in E
        BY <4>2
      <4> QED
        BY <4>3 DEF E
    <3>2. pc' = "replay" /\ cs' = [height |-> h, locked |-> FALSE, queue |-> {}, pos |-> 1 + first]
      BY <1>10, <2>4 DEF StartConsensus
    <3> HIDE DEF first
    <3>3. first \in 1 .. Len(wal') /\ wal'[first] = Rec("end", h - 1)
      BY <3>1
    <3>4. ASSUME NEW j \in 1 .. Len(wal'), j < 1 + first, wal'[j] = Rec("polka", h) PROVE FALSE
      <4>1. wal'[first].kind = "end" /\ wal'[first].height + 1 = h
        BY <2>2, <3>3 DEF Rec
      <4>2. first < j
        BY <2>3, <3>3, <3>4, <4>1 DEF WALInv
      <4> QED
        BY <3>3, <3>4, <4>2
    <3> QED
      BY <2>1, <3>2, <3>4 DEF ReplayInv
  <2>5. CASE ~(pc = "ready" /\ ends(h) = {} /\ ends(h - 1) # {})
    <3>1. pc' = "run" /\ cs' = [NoCS EXCEPT !.height = h]
      BY <1>10, <2>5 DEF StartConsensus
    <3>2. cs'.pos = 0 /\ cs'.height = h
      BY <3>1 DEF NoCS
    <3>3. ends(h) = {}
      <4> SUFFICES ASSUME NEW i \in 1 .. Len(wal'), wal'[i] = Rec("end", h) PROVE FALSE
        OBVIOUS
      <4>1. h <= store'
        BY <2>3 DEF EndHeightMeansStored, Rec
      <4> QED
        BY <2>1, <2>2, <4>1
    <3>4. ~Has(wal', "end", h - 1) \/ ~Has(wal', "polka", h)
      <4>1. CASE pc = "ready"
        BY <2>5, <3>3, <4>1
      <4>2. CASE pc = "blocksync"
        <5>1. ~InWAL("polka", h)
          BY <1>b, <4>2 DEF ReplayInv
        <5>2. CASE wal = <<>>
          <6>1. wal' = <<Rec("end", 0)>>
            BY <2>1, <5>2
          <6> QED
            BY <6>1 DEF Rec
        <5>3. CASE wal # <<>>
          BY <2>1, <5>1, <5>3 DEF InWAL
        <5> QED
          BY <5>2, <5>3
      <4> QED
        BY <2>1, <4>1, <4>2
    <3>5. ~InWAL("end", cs.height - 1)' \/ ~InWAL("polka", cs.height)'
      BY <3>2, <3>4 DEF InWAL
    <3> QED
      BY <3>1, <3>2, <3>5 DEF ReplayInv
  <2> QED
    BY <2>4, <2>5
<1>11. CASE Crash
  <2>1. pc' = "down" /\ cs'.pos = 0
    BY <1>11 DEF Crash, NoCS
  <2> QED
    BY <2>1 DEF ReplayInv
<1>12. CASE UNCHANGED vars
  BY <1>12, <1>b DEF vars, ReplayInv, InWAL
<1> QED
  BY <1>1, <1>2, <1>3, <1>4, <1>5, <1>6, <1>7, <1>8, <1>9, <1>10, <1>11, <1>12 DEF Next, Step

(* A node that may have sent its precommit at a height is locked when it is  *)
(* back at it, if the WAL has the end of the height before (state.go         *)
(* receiveRoutine and OnStart, replay.go catchupReplay).                     *)
THEOREM LockComesBack == Spec => []LockRecovered
<1>1. Init => EndHeightMeansStored /\ LockInv
  BY DEF Init, EndHeightMeansStored, LockInv, WALInv, ReplayInv, NoCS, InWAL
<1>2. Inv /\ EndHeightMeansStored /\ LockInv /\ [Next]_vars => EndHeightMeansStored' /\ LockInv'
  BY EndHeightStep, WALInvStep, ReplayInvStep DEF LockInv
<1>3. Inv /\ LockInv => LockRecovered
  <2> SUFFICES ASSUME Inv, LockInv, pc = "run", InWAL("end", cs.height - 1), cs.height \in sent
               PROVE  cs.locked
    BY DEF LockRecovered
  <2>1. PICK i \in 1 .. synced : wal[i] = Rec("vote", cs.height)
    BY DEF LockInv, WALInv
  <2>2. i \in 1 .. Len(wal) /\ wal[i].kind = "vote" /\ wal[i].height = cs.height
    BY <2>1 DEF Inv, Types, Rec
  <2>3. InWAL("polka", cs.height)
    BY <2>2 DEF LockInv, WALInv, InWAL
  <2> QED
    BY <2>3 DEF LockInv, ReplayInv
<1> QED
  BY <1>1, <1>2, <1>3, Invariance, PTL DEF Spec
=============================================================================
