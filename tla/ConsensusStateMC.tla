-------------------------- MODULE ConsensusStateMC ---------------------------
(* One node among three validators: self with power 1, p with power 2,       *)
(* q with power 1; a quorum is 3.  q is faulty, p follows the voting rules.  *)
EXTENDS ConsensusState, TLC

CONSTANTS p, q, peer, a, b,
  MaxPeerVotes    \* bound: votes that the others cast

PowerOfDef(S) == (IF self \in S THEN 1 ELSE 0) + (IF p \in S THEN 2 ELSE 0) + (IF q \in S THEN 1 ELSE 0)

Always(x) == TRUE
Never(x) == FALSE

(* p proposes in round 0, self in round 1. *)
ProposerDef(h, r) == IF r % 2 = 0 THEN p ELSE self

ProposalsOfP == {ProposalMsg(h, 0, p, -1, a) : h \in Heights}

VotesOf(V) ==
  {VoteMsg(t, h, r, v, x) : t \in {"prevote", "precommit"}, h \in Heights, r \in Rounds,
     v \in V, x \in BlockIDs}

(* p votes for b, which is new in round 1, in that round only; q prevotes    *)
(* blocks, both of them in round 0 if it likes.                              *)
EquivocatingVotes ==
  {m \in VotesOf({p, q}) :
     /\ m.src = p /\ m.round = 0 => m.value # b
     /\ m.src = q => m.type = "prevote" /\ m.value # Nil
     /\ m.src = q /\ m.round = 1 => m.value = b}

(* A peer claims a majority that there is not. *)
ClaimForB == {[height |-> 1, round |-> 0, type |-> "prevote", value |-> b]}

(* Two heights: p proposes in the first, self in the other, and p alone votes*)
(* (with self it has a quorum), at the second height in round 0.             *)
ProposerByHeight(h, r) == IF h = InitialHeight THEN p ELSE self

VotesOfP == {m \in VotesOf({p}) : m.height = InitialHeight \/ m.round = 0}

(* The others cast a bounded number of votes.  p casts one of each type per  *)
(* round; it precommits a block only if it prevotes it, and then votes for no*)
(* other.  q may equivocate.                                                 *)
FollowRules(V) ==
  LET P == {m \in V : m.src = p}
  IN  /\ Cardinality(V) <= MaxPeerVotes
      /\ \A m, n \in P :
           m.type = n.type /\ m.height = n.height /\ m.round = n.round => m = n
      /\ \A m, n \in P :
           /\ m.height = n.height
           /\ m.type = "precommit" /\ m.value # Nil
           /\ m.round < n.round \/ (m.round = n.round /\ n.type = "prevote")
           => n.value = m.value \/ (n.type = "precommit" /\ n.value = Nil)
=============================================================================
