------------------------------- MODULE FilePV -------------------------------
(***************************************************************************)
(* The file-backed private validator of privval/file.go: the component     *)
(* that signs a validator's proposals and votes and persists the last      *)
(* height/round/step it signed, so that a restarted node cannot sign two   *)
(* different messages for one height/round/step.                           *)
(*                                                                         *)
(* A signature is identified with the bytes it signs (signing is           *)
(* deterministic), and the sign bytes with the fields they encode: height, *)
(* round, step, the payload (block ID, POL round, chain ID) and the        *)
(* timestamp.                                                              *)
(***************************************************************************)
EXTENDS Integers, FiniteSets

CONSTANTS
  Heights,      \* heights that are asked to be signed, all above 0
  Rounds,       \* rounds that are asked to be signed
  Payloads,     \* what a message says besides height, round, step and time
  NilPayload,   \* the payload of a vote for nil
  Times,        \* timestamps
  MaxSigs       \* bound: signatures that may leave the signer

ASSUME FilePVConstants ==
  /\ Heights \subseteq Nat \ {0}
  /\ Rounds \subseteq Nat
  /\ MaxSigs \in Nat

stepNone == 0
stepPropose == 1
stepPrevote == 2
stepPrecommit == 3
Steps == {stepPropose, stepPrevote, stepPrecommit}

SignBytes == [height : Heights, round : Rounds, step : Steps,
              payload : Payloads, time : Times]

NoBytes == [height |-> 0]       \* LastSignState.SignBytes = nil

(* The LastSignState that NewFilePV starts from. *)
EmptyState == [height |-> 0, round |-> 0, step |-> stepNone, bytes |-> NoBytes]

LastSignStates ==
  {EmptyState} \cup {[height |-> b.height, round |-> b.round, step |-> b.step,
                      bytes |-> b] : b \in SignBytes}

(* A request: the message to sign, and whether a vote extension comes with it. *)
Requests == [msg : SignBytes, ext : BOOLEAN]

VARIABLES
  lss,        \* pv.LastSignState, in memory
  file,       \* the state file
  pc,         \* "idle", inside saveSigned ("save"), before the return ("reply"), "down"
  released    \* every signature that left the signer

vars == <<lss, file, pc, released>>

TypeOK ==
  /\ lss \in LastSignStates
  /\ file \in LastSignStates
  /\ pc \in {"idle", "save", "reply", "down"}
  /\ released \subseteq SignBytes

Init ==
  /\ lss = EmptyState
  /\ file = EmptyState
  /\ pc = "idle"
  /\ released = {}
-----------------------------------------------------------------------------
(* Lexicographic order on height, round and step. *)
HRSBefore(a, b) ==
  \/ a.height < b.height
  \/ a.height = b.height /\ a.round < b.round
  \/ a.height = b.height /\ a.round = b.round /\ a.step < b.step

SameHRS(a, b) ==
  a.height = b.height /\ a.round = b.round /\ a.step = b.step

(* CheckHRS: an error on a regression; otherwise whether the last signature *)
(* is to be reused.  A state at the HRS of a message always has SignBytes.  *)
CheckHRS(last, m) ==
  IF HRSBefore(m, last) THEN "error"
  ELSE IF SameHRS(last, m)
       THEN IF last.bytes = NoBytes THEN "error" ELSE "same"
       ELSE "new"

(* checkVotesOnlyDifferByTimestamp, checkProposalsOnlyDifferByTimestamp. *)
OnlyDifferByTimestamp(last, new) == [last EXCEPT !.time = new.time] = new

(* Extensions are accepted on non-nil precommits only. *)
ExtensionAllowed(req) ==
  req.ext => req.msg.step = stepPrecommit /\ req.msg.payload # NilPayload

(* saveSigned before its Save(): the in-memory fields are set. *)
saveSigned(m) ==
  lss' = [height |-> m.height, round |-> m.round, step |-> m.step, bytes |-> m]

(* signVote and signProposal up to the first write to disk. *)
SignNew(req) ==
  /\ pc = "idle"
  /\ Cardinality(released) < MaxSigs
  /\ CheckHRS(lss, req.msg) = "new"
  /\ ExtensionAllowed(req)
  /\ saveSigned(req.msg)
  /\ pc' = "save"
  /\ UNCHANGED <<file, released>>

SignAgain_ReSign(req) ==
  /\ pc = "idle"
  /\ CheckHRS(lss, req.msg) = "same"
  /\ ExtensionAllowed(req)
  /\ OnlyDifferByTimestamp(lss.bytes, req.msg)
  /\ released' = released \cup {req.msg}
  /\ UNCHANGED <<lss, file, pc>>

(* The branch "if sameHRS": the old signature, with the old timestamp, is    *)
(* returned for the same message and for one that differs by its timestamp; *)
(* any other message is refused and nothing is released.                     *)
SignAgain(req) ==
  /\ pc = "idle"
  /\ CheckHRS(lss, req.msg) = "same"
  /\ ExtensionAllowed(req)
  /\ OnlyDifferByTimestamp(lss.bytes, req.msg)
  /\ released' = released \cup {lss.bytes}
  /\ UNCHANGED <<lss, file, pc>>

Save_InPlaceNoOp ==
  /\ pc = "save"
  /\ pc' = "reply"
  /\ UNCHANGED <<lss, file, released>>

(* LastSignState.Save: WriteFileAtomic replaces the file as a whole. *)
Save ==
  /\ pc = "save"
  /\ file' = lss
  /\ pc' = "reply"
  /\ UNCHANGED <<lss, released>>

(* The caller gets vote.Signature or proposal.Signature. *)
Reply ==
  /\ pc = "reply"
  /\ released' = released \cup {lss.bytes}
  /\ pc' = "idle"
  /\ UNCHANGED <<lss, file>>

(* The process stops: a crash at any point, or the panic of a failing Save. *)
Crash ==
  /\ pc # "down"
  /\ pc' = "down"
  /\ UNCHANGED <<lss, file, released>>

(* loadFilePV with loadState: the memory is what the state file holds. *)
LoadFilePV ==
  /\ pc = "down"
  /\ lss' = file
  /\ pc' = "idle"
  /\ UNCHANGED <<file, released>>

Next ==
  \/ \E req \in Requests : SignNew(req) \/ SignAgain(req)
  \/ Save
  \/ Reply
  \/ Crash
  \/ LoadFilePV

Spec == Init /\ [][Next]_vars
-----------------------------------------------------------------------------
(* No double signing: two signatures that ever left the signer for one      *)
(* height, round and step are the same signature over the same bytes, the    *)
(* timestamp included, whatever crashes and retries came between them.       *)
NoDoubleSign ==
  \A a, b \in released : SameHRS(a, b) => a = b

(* Write-ahead: a signature is out only when the state file already holds    *)
(* its height/round/step or a later one, so that a restart cannot forget it. *)
ReleasedIsPersisted ==
  \A m \in released : HRSBefore(m, file) \/ file.bytes = m

(* saveSigned never moves the persisted height/round/step backwards, and     *)
(* never replaces the bytes signed at one height/round/step by others.       *)
FileNeverRegresses ==
  [][HRSBefore(file, file') \/ file' = file]_vars

=============================================================================
