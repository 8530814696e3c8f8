---------------------------- MODULE FilePVProofs ----------------------------
(***************************************************************************)
(* Proofs about FilePV: for all sets of heights, rounds, payloads and      *)
(* timestamps, no two different messages are ever signed for one           *)
(* height/round/step, whatever the crashes and restarts.                   *)
(***************************************************************************)
EXTENDS FilePV, TLAPS

(* The progress of one call of saveSigned relative to the state file.  This  *)
(* is what NoDoubleSign lacks to be inductive: where the memory may be ahead *)
(* of the file, and that it is ahead by a strictly later height/round/step.  *)
SaveProgress ==
  /\ pc = "idle" => lss = file
  /\ pc = "save" => HRSBefore(file, lss) /\ lss # EmptyState
  /\ pc = "reply" => lss = file /\ lss # EmptyState

Inv == TypeOK /\ SaveProgress /\ ReleasedIsPersisted /\ NoDoubleSign

(* Steps are natural numbers. *)
LEMMA StepsNat == Steps \subseteq Nat
BY DEF Steps, stepPropose, stepPrevote, stepPrecommit

(* Sign bytes carry natural numbers as height, round and step. *)
LEMMA BytesHRS ==
  ASSUME NEW b \in SignBytes
  PROVE  b.height \in Nat \ {0} /\ b.round \in Nat /\ b.step \in Nat
<1>1. b.height \in Heights /\ b.round \in Rounds /\ b.step \in Steps
  BY DEF SignBytes
<1> QED
  BY <1>1, StepsNat, FilePVConstants, Zenon

(* A last sign state other than the empty one carries the bytes it stands    *)
(* for, so comparing states and comparing bytes is the same thing.           *)
LEMMA StateOfBytes ==
  ASSUME NEW s \in LastSignStates
  PROVE  /\ s.height \in Nat /\ s.round \in Nat /\ s.step \in Nat
         /\ s # EmptyState => s.bytes \in SignBytes /\ SameHRS(s, s.bytes)
<1>1. CASE s = EmptyState
  BY <1>1 DEF EmptyState, stepNone
<1>2. CASE s # EmptyState
  <2>1. PICK b \in SignBytes :
          s = [height |-> b.height, round |-> b.round, step |-> b.step, bytes |-> b]
    BY <1>2 DEF LastSignStates
  <2>2. SameHRS(s, s.bytes) /\ s.bytes = b
    BY <2>1 DEF SameHRS
  <2> QED
    BY <2>1, <2>2, BytesHRS
<1> QED
  BY <1>1, <1>2

(* The initial state satisfies the invariant. *)
LEMMA InitInv == Init => Inv
BY DEF Init, Inv, TypeOK, SaveProgress, ReleasedIsPersisted, NoDoubleSign,
       LastSignStates

(* Releasing the bytes of the state file keeps the two facts about the       *)
(* released signatures.                                                      *)
LEMMA ReleaseFileBytes ==
  ASSUME Inv, file # EmptyState, file' = file,
         released' = released \cup {file.bytes}
  PROVE  released' \subseteq SignBytes /\ ReleasedIsPersisted' /\ NoDoubleSign'
<1>1. file \in LastSignStates /\ released \subseteq SignBytes
  BY DEF Inv, TypeOK
<1>2. file.bytes \in SignBytes /\ SameHRS(file, file.bytes)
  BY <1>1, StateOfBytes
<1>3. released' \subseteq SignBytes
  BY <1>1, <1>2
<1>4. ReleasedIsPersisted'
  BY <1>1 DEF Inv, ReleasedIsPersisted
<1>5. ASSUME NEW m \in released, SameHRS(m, file.bytes)
      PROVE  m = file.bytes
  <2>1. m.height \in Nat /\ m.round \in Nat /\ m.step \in Nat
    BY <1>1, BytesHRS
  <2>2. ~HRSBefore(m, file)
    BY <1>1, <1>2, <1>5, <2>1, StateOfBytes DEF HRSBefore, SameHRS
  <2> QED
    BY <2>2 DEF Inv, ReleasedIsPersisted
<1>6. NoDoubleSign'
  BY <1>5 DEF Inv, NoDoubleSign, SameHRS
<1> QED
  BY <1>3, <1>4, <1>6

(* Every step of the signer preserves the invariant. *)
LEMMA NextInv == Inv /\ [Next]_vars => Inv'
<1> SUFFICES ASSUME Inv, [Next]_vars
             PROVE  Inv'
  OBVIOUS
<1>0. TypeOK /\ SaveProgress /\ ReleasedIsPersisted /\ NoDoubleSign
  BY DEF Inv
<1>1. ASSUME NEW req \in Requests, SignNew(req)
      PROVE  Inv'
  <2> DEFINE m == req.msg
  <2>1. m \in SignBytes
    BY DEF Requests
  <2>2. /\ pc = "idle" /\ pc' = "save" /\ file' = file /\ released' = released
        /\ lss' = [height |-> m.height, round |-> m.round, step |-> m.step,
                   bytes |-> m]
        /\ ~HRSBefore(m, lss) /\ ~SameHRS(lss, m)
    BY <1>1 DEF SignNew, saveSigned, CheckHRS
  <2>3. lss = file
    BY <1>0, <2>2 DEF SaveProgress
  <2>4. lss' \in LastSignStates /\ lss' # EmptyState
    <3>1. lss' \in LastSignStates
      BY <2>1, <2>2 DEF LastSignStates
    <3>2. m.height # 0
      BY <2>1, BytesHRS
    <3>3. lss'.height # EmptyState.height
      BY <2>2, <3>2 DEF EmptyState
    <3> QED
      BY <3>1, <3>3
  <2>5. HRSBefore(file, lss')
    <3>1. m.height \in Nat /\ m.round \in Nat /\ m.step \in Nat
      BY <2>1, BytesHRS
    <3>2. file.height \in Nat /\ file.round \in Nat /\ file.step \in Nat
      BY <1>0, StateOfBytes DEF TypeOK
    <3> QED
      BY <2>2, <2>3, <3>1, <3>2 DEF HRSBefore, SameHRS
  <2>6. TypeOK' /\ SaveProgress'
    BY <1>0, <2>2, <2>4, <2>5 DEF TypeOK, SaveProgress
  <2>7. ReleasedIsPersisted' /\ NoDoubleSign'
    BY <1>0, <2>2 DEF ReleasedIsPersisted, NoDoubleSign
  <2> QED
    BY <2>6, <2>7 DEF Inv
<1>2. ASSUME NEW req \in Requests, SignAgain(req)
      PROVE  Inv'
  <2>1. /\ pc = "idle" /\ pc' = pc /\ file' = file /\ lss' = lss
        /\ released' = released \cup {lss.bytes}
        /\ CheckHRS(lss, req.msg) = "same"
    BY <1>2 DEF SignAgain
  <2>2. lss = file
    BY <1>0, <2>1 DEF SaveProgress
  <2>3. lss.bytes # NoBytes
    BY <2>1 DEF CheckHRS
  <2>4. file # EmptyState
    BY <2>2, <2>3 DEF EmptyState
  <2>5. released' \subseteq SignBytes /\ ReleasedIsPersisted' /\ NoDoubleSign'
    BY <2>1, <2>2, <2>4, ReleaseFileBytes
  <2> QED
    BY <1>0, <2>1, <2>5 DEF Inv, TypeOK, SaveProgress
<1>3. ASSUME Save
      PROVE  Inv'
  <2>1. /\ pc = "save" /\ pc' = "reply" /\ file' = lss /\ lss' = lss
        /\ released' = released
    BY <1>3 DEF Save
  <2>2. HRSBefore(file, lss) /\ lss # EmptyState
    BY <1>0, <2>1 DEF SaveProgress
  <2>3. ASSUME NEW m \in released
        PROVE  HRSBefore(m, lss)
    <3>1. HRSBefore(m, file) \/ SameHRS(m, file)
      BY <1>0, StateOfBytes
         DEF ReleasedIsPersisted, TypeOK, SameHRS, LastSignStates, EmptyState,
             SignBytes, NoBytes
    <3>2. m.height \in Nat /\ m.round \in Nat /\ m.step \in Nat
      BY <1>0, BytesHRS DEF TypeOK
    <3>3. /\ file.height \in Nat /\ file.round \in Nat /\ file.step \in Nat
          /\ lss.height \in Nat /\ lss.round \in Nat /\ lss.step \in Nat
      BY <1>0, StateOfBytes DEF TypeOK
    <3> QED
      BY <2>2, <3>1, <3>2, <3>3 DEF HRSBefore, SameHRS
  <2>4. ReleasedIsPersisted' /\ NoDoubleSign'
    BY <1>0, <2>1, <2>3 DEF ReleasedIsPersisted, NoDoubleSign
  <2> QED
    BY <1>0, <2>1, <2>2, <2>4 DEF Inv, TypeOK, SaveProgress
<1>4. ASSUME Reply
      PROVE  Inv'
  <2>1. /\ pc = "reply" /\ pc' = "idle" /\ file' = file /\ lss' = lss
        /\ released' = released \cup {lss.bytes}
    BY <1>4 DEF Reply
  <2>2. lss = file /\ file # EmptyState
    BY <1>0, <2>1 DEF SaveProgress
  <2>3. released' \subseteq SignBytes /\ ReleasedIsPersisted' /\ NoDoubleSign'
    BY <2>1, <2>2, ReleaseFileBytes
  <2> QED
    BY <1>0, <2>1, <2>2, <2>3 DEF Inv, TypeOK, SaveProgress
<1>5. ASSUME Crash
      PROVE  Inv'
  BY <1>0, <1>5
     DEF Crash, Inv, TypeOK, SaveProgress, ReleasedIsPersisted, NoDoubleSign
<1>6. ASSUME LoadFilePV
      PROVE  Inv'
  BY <1>0, <1>6
     DEF LoadFilePV, Inv, TypeOK, SaveProgress, ReleasedIsPersisted, NoDoubleSign
<1>7. ASSUME UNCHANGED vars
      PROVE  Inv'
  BY <1>0, <1>7
     DEF vars, Inv, TypeOK, SaveProgress, ReleasedIsPersisted, NoDoubleSign
<1> QED
  BY <1>1, <1>2, <1>3, <1>4, <1>5, <1>6, <1>7 DEF Next

(* The inductive invariant holds in every reachable state. *)
THEOREM Invariance == Spec => []Inv
BY InitInv, NextInv, PTL DEF Spec

(* Type correctness of the signer's memory, file and released signatures. *)
THEOREM TypeCorrect == Spec => []TypeOK
<1>1. Inv => TypeOK
  BY DEF Inv
<1> QED
  BY Invariance, <1>1, PTL

(* signVote and signProposal never let two different messages of one         *)
(* height/round/step out, across any crashes, restarts and retries.          *)
THEOREM NeverDoubleSigns == Spec => []NoDoubleSign
<1>1. Inv => NoDoubleSign
  BY DEF Inv
<1> QED
  BY Invariance, <1>1, PTL

(* No signature leaves before the state file records its height/round/step.  *)
THEOREM WriteAhead == Spec => []ReleasedIsPersisted
<1>1. Inv => ReleasedIsPersisted
  BY DEF Inv
<1> QED
  BY Invariance, <1>1, PTL

(* The state file only moves forward in height/round/step. *)
THEOREM FileMonotone == Spec => FileNeverRegresses
<1>1. Inv /\ [Next]_vars => [HRSBefore(file, file') \/ file' = file]_vars
  <2> SUFFICES ASSUME Inv, Next
               PROVE  HRSBefore(file, file') \/ file' = file
    OBVIOUS
  <2> QED
    BY DEF Inv, SaveProgress, Next, SignNew, SignAgain, Save, Reply, Crash,
           LoadFilePV
<1> QED
  BY Invariance, <1>1, PTL DEF Spec, FileNeverRegresses
=============================================================================
