---------------------------- MODULE VoteSetGossip ----------------------------
(***************************************************************************)
(* One node's vote set while the votes of a round and type reach it, in    *)
(* any order and any number of times: validators outside Faulty cast one   *)
(* vote, the others may cast several, and peers claim +2/3 majorities.     *)
(***************************************************************************)
EXTENDS VoteSet

CONSTANT Faulty       \* validators that may cast conflicting votes

ASSUME FaultyMinority ==
  /\ Faulty \subseteq Validators
  /\ 3 * PowerOf(Faulty) < TotalVotingPower

VARIABLES
  cast,     \* cast[v]: the block IDs v signed votes for
  vs        \* the node's vote set

vars == <<cast, vs>>

Init ==
  /\ cast \in [Validators -> SUBSET BlockIDs]
  /\ \A v \in Validators \ Faulty : \E b \in BlockIDs : cast[v] = {b}
  /\ vs = NewVoteSet

(* A peer (or this node) hands a vote to the set. *)
ReceiveVote(v, b) ==
  /\ b \in cast[v]
  /\ vs' = AddVote(vs, v, b).set
  /\ UNCHANGED cast

(* A VoteSetMaj23Message of a peer. *)
ReceiveMaj23(p, b) ==
  /\ vs' = SetPeerMaj23(vs, p, b)
  /\ UNCHANGED cast

Next ==
  \/ \E v \in Validators, b \in BlockIDs : ReceiveVote(v, b)
  \/ \E p \in Peers, b \in BlockIDs : ReceiveMaj23(p, b)

Spec == Init /\ [][Next]_vars

(* Peers keep offering the votes a node does not have (gossipVotesRoutine);  *)
(* claims are not forced.                                                    *)
FairSpec ==
  Spec /\ \A v \in Validators, b \in BlockIDs : WF_vars(ReceiveVote(v, b))
-----------------------------------------------------------------------------
TypeOK ==
  /\ cast \in [Validators -> SUBSET BlockIDs]
  /\ vs \in VoteSetType

(* The validators that have a canonical vote in the set s. *)
Voted(s) == {v \in Validators : s.votes[v] # NoVote}

(* The validators that signed a vote for b. *)
Voters(b) == {v \in Validators : b \in cast[v]}

(* The running sums of addVerifiedVote are the power of the votes they stand *)
(* for: no vote is counted twice or lost, conflicting ones included.         *)
SumsMatchVotes ==
  /\ vs.sum = PowerOf(Voted(vs))
  /\ \A b \in BlockIDs : vs.byBlock[b].sum = PowerOf(vs.byBlock[b].voters)

(* A majority the set reports is real: more than two thirds of the power     *)
(* signed votes for that block.                                              *)
MajorityIsReal ==
  vs.maj23 # NoVote => IsQuorum(Voters(vs.maj23))

(* Both hold at every moment, and the vote set is of its type: whatever the  *)
(* order in which conflicting and repeated votes are added (addVerifiedVote).*)
TalliesAreRight == TypeOK /\ SumsMatchVotes /\ MajorityIsReal

(* The commit made from the set carries +2/3 signatures for the majority     *)
(* block, those of all validators counted for it, although validators may    *)
(* have sent conflicting votes before or after the majority was reached.     *)
CommitCarriesQuorum ==
  vs.maj23 # NoVote =>
    /\ IsQuorum(CommitSigners(vs))
    /\ vs.byBlock[vs.maj23].voters \subseteq CommitSigners(vs)

(* Under the fault assumption no second block can reach +2/3, whatever the   *)
(* order of arrival, and a block that reached it is reported.                *)
MajorityIsUnique ==
  \A b \in BlockIDs : IsQuorum(vs.byBlock[b].voters) => vs.maj23 = b

(* With +2/3 of the power behind one block and a peer claiming it, the set   *)
(* finds the majority, even if faulty validators sent a conflicting vote     *)
(* first: this is what votesByBlock and SetPeerMaj23 are for.                *)
ClaimedMajorityIsFound ==
  \A b \in BlockIDs, p \in Peers :
    IsQuorum(Voters(b)) /\ vs.peerMaj23s[p] = b ~> vs.maj23 = b
=============================================================================
