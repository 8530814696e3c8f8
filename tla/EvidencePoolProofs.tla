------------------------- MODULE EvidencePoolProofs -------------------------
(***************************************************************************)
(* Proofs about EvidencePool, for any evidence, any number of goroutines   *)
(* that add it, and any number of crashes.                                 *)
(***************************************************************************)
EXTENDS EvidencePool, FiniteSetTheorems, TLAPS

USE SMTT(30)

Jobs == [pc : {"idle", "apply", "mark", "set", "save", "panic"}, left : SUBSET Evidence,
         marking : Evidence \cup {Nothing}]

Types ==
  /\ pool = [height |-> pool.height, size |-> pool.size, buffer |-> pool.buffer, pruneAt |-> pool.pruneAt]
  /\ pool.height \in Nat
  /\ job \in Jobs
  /\ stored \in 0..MaxHeight /\ saved \in 0..MaxHeight
  /\ chain \subseteq Evidence /\ block \subseteq Evidence

(* The stores are a block apart while a block is applied, and the pool has   *)
(* the height of the state between blocks.                                   *)
HeightInv ==
  /\ job.pc \in {"idle", "panic"} => stored = saved
  /\ job.pc \notin {"idle", "panic"} => stored = saved + 1
  /\ job.pc \in {"idle", "panic", "apply"} => pool.height = saved
  /\ job.pc \in {"mark", "set", "save"} => pool.height = stored
  /\ lost \subseteq Nat /\ \A h \in lost : h < saved

(* The evidence of the last block is marked one item at a time. *)
MarkInv ==
  /\ job.pc \in {"idle", "panic"} => block = {}
  /\ job.pc \in {"idle", "apply", "save"} => job.left = {}
  /\ job.pc \in {"mark", "set"} => job.left \subseteq block
  /\ job.pc = "set" => job.marking \in block
  /\ job.pc \in {"mark", "set", "save"} =>
       block \subseteq committed \cup job.left \cup (IF job.pc = "set" THEN {job.marking} ELSE {})

Inv ==
  /\ Types /\ HeightInv /\ MarkInv
  /\ committed \subseteq chain \cup block
  /\ chain \ replayed \subseteq committed
  /\ job.pc = "panic" => \E e \in job.left : ~Fresh(e)
-----------------------------------------------------------------------------
(* A block is decided; it is accepted if its evidence is fresh. *)
LEMMA SaveBlockStep ==
  ASSUME Inv, NEW E \in SUBSET Decidable, SaveBlock(E)
  PROVE  Inv' /\ pending \subseteq pending'
<1>1. /\ job.pc = "idle" /\ stored = saved /\ pool.height = saved /\ saved \in Nat
      /\ saved + 1 \in 0..MaxHeight /\ block = {} /\ job.left = {} /\ E \subseteq Evidence
  BY BoundsAreNatural DEF SaveBlock, Inv, HeightInv, MarkInv, Types, Decidable
<1>2. UNCHANGED <<committed, saved, chain, lost, replayed>>
  BY DEF SaveBlock
<1>3. CASE Accepts(E)
  <2>1. /\ stored' = saved + 1 /\ block' = E
        /\ job' = [job EXCEPT !.pc = "apply"]
        /\ pending \subseteq pending'
        /\ \E n : pool' = [pool EXCEPT !.size = n]
    BY <1>3 DEF SaveBlock, AddPending
  <2>2. /\ Types' /\ pool'.height = pool.height
        /\ job'.pc = "apply" /\ job'.left = job.left
    BY <1>1, <1>2, <2>1 DEF Inv, Types, Jobs
  <2> QED
    BY <1>1, <1>2, <2>1, <2>2 DEF Inv, HeightInv, MarkInv
<1>4. CASE ~Accepts(E)
  <2>1. /\ job' = [job EXCEPT !.pc = "panic", !.left = E]
        /\ UNCHANGED <<pending, pool, stored, block>>
    BY <1>4 DEF SaveBlock
  <2>2. job' \in Jobs /\ job'.pc = "panic" /\ job'.left = E
    BY <1>1, <2>1, Zenon DEF Inv, Types, Jobs
  <2>6. Types'
    BY <1>2, <2>1, <2>2 DEF Inv, Types
  <2>3. PICK e \in E : e \in committed \/ ~verify(e)
    BY <1>4 DEF Accepts, ToVerify
  <2>4. ~Fresh(e)
    BY <1>1, <2>3 DEF Fresh, verify, Inv, Decidable
  <2>5. ~Fresh(e)'
    BY <1>2, <2>4 DEF Fresh, isExpired
  <2> QED
    BY <1>1, <1>2, <2>1, <2>2, <2>3, <2>5, <2>6 DEF Inv, HeightInv, MarkInv
<1> QED
  BY <1>3, <1>4

(* What the steps between the storing of a block and the saving of the state *)
(* share: the chain and the heights stay.                                    *)
LEMMA JobSteps ==
  ASSUME Inv, Update \/ (\E e \in job.left : removePendingEvidence(e)) \/ SetCommitted
              \/ removeExpiredPendingEvidence \/ SaveState
  PROVE  Inv'
<1>1. /\ job.pc \notin {"idle", "panic"} /\ stored = saved + 1 /\ saved \in Nat /\ stored \in Nat
      /\ \A h \in lost : h \in Nat /\ h < saved
  BY BoundsAreNatural
  DEF Update, removePendingEvidence, SetCommitted, removeExpiredPendingEvidence, SaveState, Inv, HeightInv,
      Types
<1>2. UNCHANGED <<stored, lost, replayed>>
  BY DEF Update, removePendingEvidence, SetCommitted, removeExpiredPendingEvidence, SaveState
<1>3. CASE Update
  <2>1. /\ job' = [job EXCEPT !.pc = "mark", !.left = block] /\ UNCHANGED <<committed, saved, chain, block>>
        /\ \E n : pool' = [pool EXCEPT !.size = n, !.buffer = {}, !.height = stored]
    BY <1>3, Zenon DEF Update
  <2>2. job' \in Jobs /\ job'.pc = "mark" /\ job'.left = block
    BY <1>1, <2>1, Zenon DEF Inv, Types, Jobs
  <2>3. Types' /\ pool'.height = stored
    BY <1>1, <1>2, <2>1, <2>2, Zenon DEF Inv, Types
  <2> QED
    BY <1>1, <1>2, <2>1, <2>2, <2>3 DEF Inv, HeightInv, MarkInv
<1>4. CASE \E e \in job.left : removePendingEvidence(e)
  <2>1. PICK e \in job.left : removePendingEvidence(e)
    BY <1>4
  <2>2. /\ job' = [pc |-> "set", left |-> job.left \ {e}, marking |-> e]
        /\ UNCHANGED <<committed, saved, chain, block>>
        /\ \E n : pool' = [pool EXCEPT !.size = n]
        /\ job.pc = "mark"
    BY <2>1, Zenon DEF removePendingEvidence
  <2>3. Types' /\ pool'.height = pool.height /\ job'.pc = "set" /\ job'.left = job.left \ {e} /\ job'.marking = e
    BY <1>2, <2>1, <2>2 DEF Inv, Types, Jobs
  <2> QED
    BY <1>1, <1>2, <2>1, <2>2, <2>3 DEF Inv, HeightInv, MarkInv
<1>5. CASE SetCommitted
  <2>1. /\ job' = [job EXCEPT !.pc = "mark", !.marking = Nothing] /\ job.pc = "set"
        /\ committed' = committed \cup {job.marking} /\ UNCHANGED <<pool, saved, chain, block>>
    BY <1>5 DEF SetCommitted
  <2>2. Types' /\ job'.pc = "mark" /\ job'.left = job.left
    BY <1>2, <2>1, Zenon DEF Inv, Types, Jobs
  <2> QED
    BY <1>1, <1>2, <2>1, <2>2 DEF Inv, HeightInv, MarkInv
<1>6. CASE removeExpiredPendingEvidence
  <2>1. /\ job' = [job EXCEPT !.pc = "save"] /\ job.pc = "mark" /\ job.left = {}
        /\ UNCHANGED <<committed, saved, chain, block>>
        /\ \E n, m : pool' = [pool EXCEPT !.size = n, !.pruneAt = m]
    <3>1. pool = [pool EXCEPT !.size = pool.size, !.pruneAt = pool.pruneAt]
      BY Zenon DEF Inv, Types
    <3> QED
      BY <1>6, <3>1, Zenon DEF removeExpiredPendingEvidence
  <2>2. Types' /\ pool'.height = pool.height /\ job'.pc = "save" /\ job'.left = job.left
    BY <1>2, <2>1, Zenon DEF Inv, Types, Jobs
  <2> QED
    BY <1>1, <1>2, <2>1, <2>2 DEF Inv, HeightInv, MarkInv
<1>7. CASE SaveState
  <2>1. /\ job' = Consensus /\ job.pc = "save" /\ saved' = stored /\ UNCHANGED <<committed, pool>>
        /\ chain' = chain \cup block /\ block' = {}
    BY <1>7 DEF SaveState
  <2>2. Types' /\ job'.pc = "idle" /\ job'.left = {}
    BY <1>2, <2>1 DEF Inv, Types, Jobs, Consensus
  <2> QED
    BY <1>1, <1>2, <2>1, <2>2 DEF Inv, HeightInv, MarkInv
<1> QED
  BY <1>3, <1>4, <1>5, <1>6, <1>7

(* Steps that change the pending evidence and the counter only. *)
LEMMA AddSteps ==
  ASSUME Inv, UNCHANGED <<committed, job, stored, saved, chain, block, lost, replayed>>,
         \E n, B : pool' = [pool EXCEPT !.size = n, !.buffer = B]
  PROVE  Inv'
<1>1. Types' /\ pool'.height = pool.height
  BY Zenon DEF Inv, Types
<1>2. \A e : Fresh(e)' = Fresh(e)
  BY DEF Fresh, isExpired
<1> QED
  BY <1>1, <1>2 DEF Inv, HeightInv, MarkInv

(* The validators of a height below the state's are pruned. *)
LEMMA PruneStep ==
  ASSUME Inv, NEW h \in Prunable, PruneStates(h)
  PROVE  Inv'
<1>1. /\ job.pc = "idle" /\ h < saved /\ lost' = lost \cup {h} /\ h \in Nat
      /\ UNCHANGED <<pool, committed, job, stored, saved, chain, block, replayed>>
  BY BoundsAreNatural DEF PruneStates
<1>2. Types'
  BY <1>1 DEF Inv, Types
<1> QED
  BY <1>1, <1>2 DEF Inv, HeightInv, MarkInv

(* A restart, at any point. *)
LEMMA RestartStep ==
  ASSUME Inv, Restart
  PROVE  Inv'
<1>1. /\ saved' = stored /\ job' = Consensus /\ UNCHANGED <<committed, stored, lost>>
      /\ \E n, m : pool' = [height |-> stored, size |-> n, buffer |-> {}, pruneAt |-> m]
      /\ chain' = chain \cup block /\ block' = {} /\ replayed' = replayed \cup block
  BY Zenon DEF Restart, NewPool
<1>2. Types' /\ pool'.height = stored /\ job'.pc = "idle" /\ job'.left = {}
  BY <1>1 DEF Inv, Types, Jobs, Consensus
<1>3. lost \subseteq Nat /\ \A h \in lost : h < stored
  <2>1. saved \in Nat /\ stored \in Nat /\ (stored = saved \/ stored = saved + 1)
    BY BoundsAreNatural DEF Inv, Types, HeightInv
  <2> QED
    BY <2>1 DEF Inv, HeightInv
<1> QED
  BY <1>1, <1>2, <1>3 DEF Inv, HeightInv, MarkInv

(* Inv is inductive. *)
THEOREM Invariance == Spec => []Inv
<1>1. Init => Inv
  <2> SUFFICES ASSUME Init PROVE Inv
    OBVIOUS
  <2>1. Types
    BY BoundsAreNatural DEF Init, Types, Jobs, Consensus
  <2> QED
    BY <2>1 DEF Init, Inv, HeightInv, MarkInv, Consensus
<1>2. Inv /\ [Next]_vars => Inv'
  <2> SUFFICES ASSUME Inv, [Next]_vars PROVE Inv'
    OBVIOUS
  <2>a. pool = [pool EXCEPT !.size = pool.size, !.buffer = pool.buffer]
    BY Zenon DEF Inv, Types
  <2>1. CASE \E a \in Adders, e \in Evidence : AddEvidence(a, e)
    BY <2>1, <2>a, AddSteps, Zenon DEF AddEvidence
  <2>2. CASE \E a \in Adders : StoreEvidence(a)
    BY <2>2, <2>a, AddSteps, Zenon DEF StoreEvidence
  <2>7. CASE \E a \in Adders : CountEvidence(a)
    <3>1. \E n : pool' = [pool EXCEPT !.size = n] /\ UNCHANGED <<committed, job, stored, saved, chain, block, lost, replayed>>
      BY <2>7, Zenon DEF CountEvidence
    <3>2. \A n : [pool EXCEPT !.size = n] = [pool EXCEPT !.size = n, !.buffer = pool.buffer]
      BY Zenon DEF Inv, Types
    <3> QED
      BY <3>1, <3>2, AddSteps, Zenon
  <2>3. CASE \E e \in Conflicts : ReportConflictingVotes(e)
    <3>1. \E B : pool' = [pool EXCEPT !.buffer = B] /\ UNCHANGED <<committed, job, stored, saved, chain, block, lost, replayed>>
      BY <2>3, Zenon DEF ReportConflictingVotes
    <3>2. \A B : [pool EXCEPT !.buffer = B] = [pool EXCEPT !.size = pool.size, !.buffer = B]
      BY Zenon DEF Inv, Types
    <3> QED
      BY <3>1, <3>2, AddSteps, Zenon
  <2>4. CASE \E E \in SUBSET Evidence : CheckEvidence(E)
    <3>1. \E n : pool' = [pool EXCEPT !.size = n] /\ UNCHANGED <<committed, job, stored, saved, chain, block, lost, replayed>>
      BY <2>4, Zenon DEF CheckEvidence, AddPending
    <3>2. \A n : [pool EXCEPT !.size = n] = [pool EXCEPT !.size = n, !.buffer = pool.buffer]
      BY Zenon DEF Inv, Types
    <3> QED
      BY <3>1, <3>2, AddSteps, Zenon
  <2>5. CASE \E E \in SUBSET Decidable : SaveBlock(E)
    BY <2>5, SaveBlockStep
  <2>8. CASE \E h \in Prunable : PruneStates(h)
    BY <2>8, PruneStep
  <2>6. CASE UNCHANGED vars
    BY <2>6, <2>a, AddSteps, Zenon DEF vars
  <2> QED
    BY <2>1, <2>2, <2>3, <2>4, <2>5, <2>6, <2>7, <2>8, JobSteps, RestartStep DEF Next
<1> QED
  BY <1>1, <1>2, PTL DEF Spec

(* What is marked as committed is in a block, every block that consensus     *)
(* applied is marked between blocks, and a decided block is refused with a   *)
(* panic only for evidence that an earlier block has, that has expired or    *)
(* that cannot be verified any more (markEvidenceAsCommitted, CheckEvidence, *)
(* finalizeCommit).                                                          *)
THEOREM MarkedIsCommitted == Spec => []CommittedIsMarked
<1>1. Inv => CommittedIsMarked
  BY DEF Inv, CommittedIsMarked
<1> QED
  BY <1>1, Invariance, PTL

(* Pending evidence leaves the pool only when it is in a block or expired,   *)
(* also across restarts (markEvidenceAsCommitted, NewPool,                   *)
(* removeExpiredPendingEvidence).                                            *)
THEOREM PendingStays == Spec => PendingIsKept
<1> DEFINE Kept == \A e \in pending \ pending' : e \in chain \cup block \/ isExpired(e, pool'.height)
<1>1. Inv /\ [Next]_vars => [Kept]_vars
  <2> SUFFICES ASSUME Inv, Next PROVE Kept
    OBVIOUS
  <2>1. CASE \/ \E a \in Adders, e \in Evidence : AddEvidence(a, e)
             \/ \E a \in Adders : StoreEvidence(a) \/ CountEvidence(a)
             \/ \E e \in Conflicts : ReportConflictingVotes(e)
             \/ \E E \in SUBSET Evidence : CheckEvidence(E)
             \/ Update \/ SetCommitted \/ SaveState
             \/ \E h \in Prunable : PruneStates(h)
    BY <2>1 DEF AddEvidence, StoreEvidence, CountEvidence, ReportConflictingVotes, CheckEvidence, AddPending,
      Update, SetCommitted, SaveState, PruneStates
  <2>2. CASE \E E \in SUBSET Decidable : SaveBlock(E)
    BY <2>2, SaveBlockStep
  <2>3. CASE \E e \in job.left : removePendingEvidence(e)
    <3>1. PICK e \in job.left : pending' = pending \ {e} /\ job.pc = "mark"
      BY <2>3 DEF removePendingEvidence
    <3>2. e \in block
      BY <3>1 DEF Inv, MarkInv
    <3> QED
      BY <3>1, <3>2
  <2>4. CASE removeExpiredPendingEvidence
    <3>1. \A n, m : [pool EXCEPT !.size = n, !.pruneAt = m].height = pool.height
      BY DEF Inv, Types
    <3> QED
      BY <2>4, <3>1, Zenon DEF removeExpiredPendingEvidence
  <2>5. CASE Restart
    BY <2>5 DEF Restart, NewPool
  <2> QED
    BY <2>1, <2>2, <2>3, <2>4, <2>5 DEF Next
<1> QED
  BY <1>1, Invariance, PTL DEF Spec, PendingIsKept
-----------------------------------------------------------------------------
(* A reported conflict is in the buffer, and then accounted for. *)
Accounted(e) ==
  \/ e \in pending \cup committed
  \/ isExpired(e, pool.height)
  \/ job.pc = "set" /\ e = job.marking

ReportInv ==
  /\ reported \subseteq Evidence
  /\ pool.buffer \subseteq Evidence
  /\ \A e \in pool.buffer : HeightOf[e] \in {saved, saved + 1}
  /\ job.pc \in {"mark", "set", "save"} => pool.buffer = {}
  /\ \A e \in reported \ pool.buffer : Accounted(e)

(* What is expired stays so as the chain grows. *)
LEMMA ExpiredStays ==
  ASSUME NEW e \in Evidence, NEW g \in Nat, NEW h \in Nat, g <= h, isExpired(e, g)
  PROVE  isExpired(e, h)
BY EvidenceHasHeight, BoundsAreNatural DEF isExpired

(* The reports survive every step but a restart, which forgets them. *)
LEMMA ReportStep ==
  ASSUME Inv, ReportInv, [Next]_vars
  PROVE  ReportInv'
<1>1. CASE \/ \E a \in Adders, e \in Evidence : AddEvidence(a, e)
           \/ \E a \in Adders : StoreEvidence(a) \/ CountEvidence(a)
           \/ \E h \in Prunable : PruneStates(h)
           \/ \E E \in SUBSET Evidence : CheckEvidence(E)
           \/ UNCHANGED vars
  <2>1. /\ pending \subseteq pending' /\ UNCHANGED <<committed, job, saved, reported>>
        /\ \E n : pool' = [pool EXCEPT !.size = n]
    <3>1. pool = [pool EXCEPT !.size = pool.size]
      BY DEF Inv, Types
    <3> QED
      BY <1>1, <3>1
      DEF AddEvidence, StoreEvidence, CountEvidence, CheckEvidence, AddPending, PruneStates, vars
  <2>2. pool'.buffer = pool.buffer /\ pool'.height = pool.height
    BY <2>1 DEF Inv, Types
  <2> QED
    BY <2>1, <2>2 DEF ReportInv, Accounted
<1>2. CASE \E e \in Conflicts : ReportConflictingVotes(e)
  <2>1. PICK e \in Conflicts : ReportConflictingVotes(e)
    BY <1>2
  <2>2. pool'.buffer = pool.buffer \cup {e} /\ pool'.height = pool.height
    BY <2>1 DEF ReportConflictingVotes, Inv, Types
  <2>3. e \in Evidence /\ HeightOf[e] \in {saved, saved + 1}
    BY <2>1, EvidenceHasHeight DEF ReportConflictingVotes
  <2>4. reported' = reported \cup {e} /\ job.pc = "idle" /\ UNCHANGED <<pending, committed, job, saved>>
    BY <2>1 DEF ReportConflictingVotes
  <2> QED
    BY <2>2, <2>3, <2>4 DEF ReportInv, Accounted
<1>3. CASE \E E \in SUBSET Decidable : SaveBlock(E)
  <2>1. /\ pending \subseteq pending' /\ UNCHANGED <<committed, saved, reported>> /\ job.pc = "idle"
        /\ job'.pc \in {"apply", "panic"}
        /\ pool'.buffer = pool.buffer /\ pool'.height = pool.height
    <3>1. \/ \E n : pool' = [pool EXCEPT !.size = n]
          \/ pool' = pool
      BY <1>3 DEF SaveBlock, AddPending
    <3>2. pool'.buffer = pool.buffer /\ pool'.height = pool.height
      BY <3>1 DEF Inv, Types
    <3>3. job'.pc \in {"apply", "panic"}
      <4>1. \/ job' = [job EXCEPT !.pc = "apply"]
            \/ \E E : job' = [job EXCEPT !.pc = "panic", !.left = E]
        BY <1>3, Zenon DEF SaveBlock
      <4> QED
        BY <4>1, Zenon DEF Inv, Types, Jobs
    <3> QED
      BY <1>3, <3>2, <3>3, SaveBlockStep, Zenon DEF SaveBlock
  <2> QED
    BY <2>1 DEF ReportInv, Accounted
<1>4. CASE Update
  <2>1. /\ pending' = pending \cup FromBuffer /\ UNCHANGED <<committed, saved, reported>> /\ job.pc = "apply"
        /\ pool'.buffer = {} /\ pool'.height = stored
    BY <1>4 DEF Update, Inv, Types
  <2>2. pool.buffer \subseteq pending' \cup committed
    <3>1. stored = saved + 1 /\ saved \in Nat /\ saved \notin lost
      BY <2>1 DEF Inv, HeightInv, Types
    <3> QED
      BY <2>1, <3>1 DEF ReportInv, FromBuffer
  <2>3. ASSUME NEW e \in Evidence, isExpired(e, pool.height), pool.height <= stored PROVE isExpired(e, stored)
    BY <2>3, ExpiredStays DEF Inv, Types
  <2>4. pool.height <= stored
    BY <2>1 DEF Inv, HeightInv, Types
  <2> QED
    BY <2>1, <2>2, <2>3, <2>4 DEF ReportInv, Accounted
<1>5. CASE \E e \in job.left : removePendingEvidence(e)
  <2>1. PICK e \in job.left : removePendingEvidence(e)
    BY <1>5
  <2>2. /\ pending' = pending \ {e} /\ UNCHANGED <<committed, saved, reported>> /\ job.pc = "mark"
        /\ job'.pc = "set" /\ job'.marking = e
        /\ pool'.buffer = pool.buffer /\ pool'.height = pool.height
    <3>1. \A n : LET q == [pool EXCEPT !.size = n] IN q.height = pool.height /\ q.buffer = pool.buffer
      BY DEF Inv, Types
    <3> QED
      BY <2>1, <3>1 DEF removePendingEvidence
  <2> QED
    BY <2>2 DEF ReportInv, Accounted
<1>6. CASE SetCommitted
  BY <1>6 DEF SetCommitted, ReportInv, Accounted
<1>7. CASE removeExpiredPendingEvidence
  <2>1. ASSUME NEW n, NEW m, pool' = [pool EXCEPT !.size = n, !.pruneAt = m]
        PROVE  pool'.height = pool.height /\ pool'.buffer = pool.buffer
    BY <2>1 DEF Inv, Types
  <2>2. /\ UNCHANGED <<committed, saved, reported>> /\ job.pc = "mark"
        /\ pool'.buffer = pool.buffer /\ pool'.height = pool.height
        /\ \A e \in pending : e \in pending' \/ isExpired(e, pool.height)
    <3>1. CASE pool.size # 0 /\ pool.height > pool.pruneAt
      <4>1. /\ \E n, m : pool' = [pool EXCEPT !.size = n, !.pruneAt = m]
            /\ pending' = {e \in pending : ~isExpired(e, pool.height)}
            /\ UNCHANGED <<committed, saved, reported>> /\ job.pc = "mark"
        BY <1>7, <3>1, Zenon DEF removeExpiredPendingEvidence
      <4> QED
        BY <2>1, <4>1
    <3>2. CASE ~(pool.size # 0 /\ pool.height > pool.pruneAt)
      BY <1>7, <3>2 DEF removeExpiredPendingEvidence
    <3> QED
      BY <3>1, <3>2
  <2> QED
    BY <2>2 DEF ReportInv, Accounted
<1>8. CASE SaveState
  <2>1. saved' = stored /\ job.pc = "save" /\ UNCHANGED <<pending, committed, pool, reported>>
    BY <1>8 DEF SaveState
  <2>2. pool.buffer = {}
    BY <2>1 DEF ReportInv
  <2> QED
    BY <2>1, <2>2 DEF ReportInv, Accounted
<1>9. CASE Restart
  BY <1>9 DEF Restart, NewPool, ReportInv
<1> QED
  BY <1>1, <1>2, <1>3, <1>4, <1>5, <1>6, <1>7, <1>8, <1>9 DEF Next

(* Conflicting votes that consensus reported become evidence at the end of   *)
(* the height, and stay pending until they are committed or expired          *)
(* (ReportConflictingVotes, processConsensusBuffer).                         *)
THEOREM ConflictsStay == Spec => []ConflictsAreKept
<1>1. Init => ReportInv
  BY DEF Init, ReportInv, Consensus
<1>2. Inv /\ ReportInv /\ [Next]_vars => ReportInv'
  BY ReportStep
<1>3. ReportInv => ConflictsAreKept
  BY DEF ReportInv, ConflictsAreKept, Accounted
<1> QED
  BY <1>1, <1>2, <1>3, Invariance, PTL DEF Spec
-----------------------------------------------------------------------------
(* With those that are still to be counted, the counter is at least the      *)
(* number of pending items.                                                  *)
CountInv ==
  /\ pending \subseteq Evidence
  /\ adding \in [Adders -> Evidence \cup {Nothing}]
  /\ IsFiniteSet(uncounted)
  /\ pool.size \in Int /\ PendingIsProposed

(* Sizes of sets of evidence. *)
LEMMA EvidenceSizes ==
  ASSUME NEW P \in SUBSET Evidence, NEW E \in SUBSET Evidence
  PROVE  /\ IsFiniteSet(P) /\ Cardinality(P) \in Nat /\ Cardinality(E) \in Nat
         /\ Cardinality(P \cup E) <= Cardinality(P) + Cardinality(E)
         /\ E \subseteq P => Cardinality(P \ E) = Cardinality(P) - Cardinality(E)
<1>1. IsFiniteSet(P) /\ IsFiniteSet(E) /\ IsFiniteSet(P \cap E)
  BY EvidenceHasHeight, FS_Subset
<1>2. Cardinality(P) \in Nat /\ Cardinality(E) \in Nat /\ Cardinality(P \cap E) \in Nat
  BY <1>1, FS_CardinalityType
<1>3. Cardinality(P \cup E) = Cardinality(P) + Cardinality(E) - Cardinality(P \cap E)
  BY <1>1, FS_Union
<1>4. Cardinality(P \ E) = Cardinality(P) - Cardinality(P \cap E)
  BY <1>1, FS_Difference
<1>5. E \subseteq P => P \cap E = E
  OBVIOUS
<1> QED
  BY <1>1, <1>2, <1>3, <1>4, <1>5

(* Every step counts at least what it adds, or leaves it to be counted, and  *)
(* at most what it removes.                                                  *)
LEMMA CountStep ==
  ASSUME Inv, ReportInv, CountInv, [Next]_vars
  PROVE  CountInv'
<1>0. Cardinality(pending) \in Nat /\ Cardinality(uncounted) \in Nat
  BY EvidenceSizes, FS_CardinalityType, Zenon DEF CountInv
<1>1. ASSUME NEW E \in SUBSET Evidence, pending' = pending \cup E, UNCHANGED <<adding, uncounted>>,
             pool'.size = pool.size + Cardinality(E)
      PROVE  CountInv'
  <2>1. /\ Cardinality(E) \in Nat /\ Cardinality(pending \cup E) <= Cardinality(pending) + Cardinality(E)
        /\ pending \cup E \in SUBSET Evidence
    BY EvidenceSizes, Zenon DEF CountInv
  <2>2. Cardinality(pending \cup E) \in Nat
    BY <2>1, EvidenceSizes, Zenon
  <2> QED
    BY <1>0, <1>1, <2>1, <2>2 DEF CountInv, PendingIsProposed
<1>2. ASSUME NEW E \in SUBSET pending, pending' = pending \ E, UNCHANGED <<adding, uncounted>>,
             pool'.size = pool.size - Cardinality(E)
      PROVE  CountInv'
  <2>1. /\ Cardinality(E) \in Nat /\ Cardinality(pending \ E) = Cardinality(pending) - Cardinality(E)
    BY EvidenceSizes, Zenon DEF CountInv
  <2> QED
    BY <1>0, <1>2, <2>1 DEF CountInv, PendingIsProposed
<1>3. ASSUME NEW n, pool' = [pool EXCEPT !.size = n] PROVE pool'.size = n
  BY <1>3 DEF Inv, Types
<1>a. ASSUME UNCHANGED <<pending, uncounted>>, pool'.size = pool.size,
             adding' \in [Adders -> Evidence \cup {Nothing}]
      PROVE  CountInv'
  BY <1>a DEF CountInv, PendingIsProposed
<1>4. CASE \E a \in Adders, e \in Evidence : AddEvidence(a, e)
  BY <1>4, <1>a DEF AddEvidence, CountInv
<1>5. CASE \E a \in Adders : StoreEvidence(a)
  <2>1. PICK a \in Adders : StoreEvidence(a)
    BY <1>5
  <2>2. adding[a] \in Evidence /\ {adding[a]} \in SUBSET Evidence
    BY <2>1 DEF StoreEvidence, CountInv
  <2>3. /\ pending' = pending \cup {adding[a]} /\ a \notin uncounted /\ uncounted' = uncounted \cup {a}
        /\ UNCHANGED <<pool, adding>>
    BY <2>1 DEF StoreEvidence
  <2>4. Cardinality({adding[a]}) = 1
    BY FS_Singleton, Zenon
  <2>5. /\ Cardinality(pending \cup {adding[a]}) <= Cardinality(pending) + 1
        /\ pending \cup {adding[a]} \in SUBSET Evidence
    <3>1. /\ Cardinality(pending \cup {adding[a]}) <= Cardinality(pending) + Cardinality({adding[a]})
          /\ pending \cup {adding[a]} \in SUBSET Evidence
      BY <2>2, EvidenceSizes, Zenon DEF CountInv
    <3> QED
      BY <2>4, <3>1
  <2>6. Cardinality(pending \cup {adding[a]}) \in Nat
    BY <2>5, EvidenceSizes, Zenon
  <2>7. IsFiniteSet(uncounted') /\ Cardinality(uncounted') = Cardinality(uncounted) + 1
    BY <2>3, FS_AddElement DEF CountInv
  <2> QED
    BY <1>0, <2>3, <2>5, <2>6, <2>7 DEF CountInv, PendingIsProposed
<1>b. CASE \E a \in Adders : CountEvidence(a)
  <2>1. PICK a \in Adders : CountEvidence(a)
    BY <1>b
  <2>2. /\ UNCHANGED pending /\ pool' = [pool EXCEPT !.size = pool.size + 1]
        /\ a \in uncounted /\ uncounted' = uncounted \ {a}
        /\ adding' \in [Adders -> Evidence \cup {Nothing}]
    BY <2>1 DEF CountEvidence, CountInv
  <2>3. pool'.size = pool.size + 1
    BY <1>3, <2>2
  <2>4. IsFiniteSet(uncounted') /\ Cardinality(uncounted') = Cardinality(uncounted) - 1
    BY <2>2, FS_RemoveElement DEF CountInv
  <2> QED
    BY <1>0, <2>2, <2>3, <2>4 DEF CountInv, PendingIsProposed
<1>6. CASE \E e \in Conflicts : ReportConflictingVotes(e)
  <2>1. UNCHANGED <<pending, adding, uncounted>> /\ \E B : pool' = [pool EXCEPT !.buffer = B]
    BY <1>6, Zenon DEF ReportConflictingVotes
  <2>2. pool'.size = pool.size
    BY <2>1 DEF Inv, Types
  <2> QED
    BY <1>a, <2>1, <2>2 DEF CountInv
<1>7. ASSUME NEW E \in SUBSET Evidence, UNCHANGED <<adding, uncounted>>,
             \/ AddPending(ToVerify(E))
             \/ UNCHANGED <<pending, pool>>
      PROVE  CountInv'
  <2>1. ToVerify(E) \in SUBSET Evidence
    BY DEF ToVerify
  <2>2. CASE AddPending(ToVerify(E))
    <3>1. /\ pending' = pending \cup ToVerify(E)
          /\ pool'.size = pool.size + Cardinality(ToVerify(E))
      BY <1>3, <2>2 DEF AddPending
    <3> QED
      BY <1>1, <1>7, <2>1, <3>1
  <2>3. CASE UNCHANGED <<pending, pool>>
    BY <1>7, <1>a, <2>3 DEF CountInv
  <2> QED
    BY <1>7, <2>2, <2>3
<1>8. CASE \E E \in SUBSET Evidence : CheckEvidence(E)
  BY <1>7, <1>8 DEF CheckEvidence
<1>9. CASE \E E \in SUBSET Decidable : SaveBlock(E)
  <2>1. PICK E \in SUBSET Decidable : SaveBlock(E)
    BY <1>9
  <2>2. E \in SUBSET Evidence
    BY DEF Decidable
  <2> QED
    BY <1>7, <2>1, <2>2 DEF SaveBlock
<1>10. CASE Update
  <2>1. FromBuffer \in SUBSET Evidence
    BY DEF FromBuffer, ReportInv
  <2>2. /\ pending' = pending \cup FromBuffer /\ UNCHANGED <<adding, uncounted>>
        /\ pool' = [pool EXCEPT !.size = pool.size + Cardinality(FromBuffer), !.buffer = {}, !.height = stored]
    BY <1>10 DEF Update
  <2>3. pool'.size = pool.size + Cardinality(FromBuffer)
    BY <2>2 DEF Inv, Types
  <2> QED
    BY <1>1, <2>1, <2>2, <2>3
<1>11. CASE \E e \in job.left : removePendingEvidence(e)
  <2>1. PICK e \in job.left : removePendingEvidence(e)
    BY <1>11
  <2>2. CASE e \in pending
    <3>1. /\ pending' = pending \ {e} /\ UNCHANGED <<adding, uncounted>>
          /\ pool' = [pool EXCEPT !.size = pool.size - 1]
      BY <2>1, <2>2 DEF removePendingEvidence
    <3>2. Cardinality({e}) = 1
      BY FS_Singleton
    <3> QED
      BY <1>2, <1>3, <2>2, <3>1, <3>2
  <2>3. CASE e \notin pending
    <3>1. pending' = pending /\ UNCHANGED <<adding, uncounted>> /\ pool' = [pool EXCEPT !.size = pool.size]
      BY <2>1, <2>3 DEF removePendingEvidence
    <3> QED
      BY <1>3, <1>a, <3>1 DEF CountInv
  <2> QED
    BY <2>2, <2>3
<1>12. CASE removeExpiredPendingEvidence
  <2> DEFINE rest == {e \in pending : ~isExpired(e, pool.height)}
  <2>1. CASE pool.size # 0 /\ pool.height > pool.pruneAt
    <3>1. /\ pending' = pending \ (pending \ rest) /\ UNCHANGED <<adding, uncounted>>
          /\ \E m : pool' = [pool EXCEPT !.size = pool.size - Cardinality(pending \ rest), !.pruneAt = m]
      BY <1>12, <2>1, Zenon DEF removeExpiredPendingEvidence
    <3>2. pool'.size = pool.size - Cardinality(pending \ rest)
      BY <3>1 DEF Inv, Types
    <3> QED
      BY <1>2, <3>1, <3>2, Zenon
  <2>2. CASE ~(pool.size # 0 /\ pool.height > pool.pruneAt)
    BY <1>12, <1>a, <2>2 DEF removeExpiredPendingEvidence, CountInv
  <2> QED
    BY <2>1, <2>2
<1>13. CASE Restart
  <2> DEFINE rest == {e \in pending : ~isExpired(e, stored)}
  <2>1. /\ pending' = rest /\ pool'.size = Cardinality(rest) /\ adding' = [a \in Adders |-> Nothing]
        /\ uncounted' = {}
    BY <1>13 DEF Restart, NewPool
  <2>2. rest \in SUBSET Evidence
    BY DEF CountInv
  <2>3. Cardinality(rest) \in Nat
    BY <2>2, EvidenceSizes, Zenon
  <2>4. IsFiniteSet({}) /\ Cardinality({}) = 0
    BY FS_EmptySet
  <2> QED
    BY <2>1, <2>2, <2>3, <2>4 DEF CountInv, PendingIsProposed
<1>14. CASE SetCommitted \/ SaveState \/ (\E h \in Prunable : PruneStates(h)) \/ UNCHANGED vars
  BY <1>14, <1>a DEF SetCommitted, SaveState, PruneStates, vars, CountInv
<1> QED
  BY <1>4, <1>5, <1>b, <1>6, <1>8, <1>9, <1>10, <1>11, <1>12, <1>13, <1>14 DEF Next

(* The counter falls below the number of pending items only by what adders   *)
(* have stored and not yet counted: if there is none of that and something   *)
(* is pending, the counter is not zero and the proposer is given it          *)
(* (PendingEvidence, addPendingEvidence, removePendingEvidence).             *)
THEOREM PendingCounted == Spec => []PendingIsProposed
<1>1. Init => ReportInv /\ CountInv
  BY FS_EmptySet DEF Init, ReportInv, CountInv, PendingIsProposed, Consensus
<1>2. Inv /\ ReportInv /\ CountInv /\ [Next]_vars => ReportInv' /\ CountInv'
  BY ReportStep, CountStep
<1>3. CountInv => PendingIsProposed
  BY DEF CountInv
<1> QED
  BY <1>1, <1>2, <1>3, Invariance, PTL DEF Spec
=============================================================================
