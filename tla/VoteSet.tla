------------------------------- MODULE VoteSet -------------------------------
(***************************************************************************)
(* types/vote_set.go: the votes of one height, round and type.             *)
(*                                                                         *)
(* A vote is a validator and the block ID it votes for.  A vote set keeps  *)
(*   votes       the canonical vote of each validator, or NoVote;          *)
(*   sum         the power of the validators that have a canonical vote;   *)
(*   maj23       the first block ID with +2/3 of the power, or NoVote;     *)
(*   byBlock     for each block ID, the voters counted for it, their       *)
(*               power, and whether a peer claims a +2/3 majority for it   *)
(*               (an entry the code has not created is empty);             *)
(*   peerMaj23s  the block ID each peer claims a majority for, or NoVote.  *)
(* AddVote checks index, address, height/round/type and signature before   *)
(* anything else; votes that fail are not inputs here, they change nothing.*)
(* Two signatures of one validator for one block ID (a duplicate, or a     *)
(* non-deterministic signature) are one vote.                              *)
(***************************************************************************)
EXTENDS VotingPower

CONSTANTS
  BlockIDs,      \* the block IDs that can be voted for, the nil one included
  NoVote,        \* not a block ID: a nil *Vote or a nil maj23 pointer
  Peers          \* peers that may claim a majority

ASSUME NoVoteIsNoBlockID == NoVote \notin BlockIDs

newBlockVotes == [peerMaj23 |-> FALSE, voters |-> {}, sum |-> 0]

NewVoteSet ==
  [votes |-> [v \in Validators |-> NoVote],
   sum |-> 0,
   maj23 |-> NoVote,
   byBlock |-> [b \in BlockIDs |-> newBlockVotes],
   peerMaj23s |-> [p \in Peers |-> NoVote]]

BlockVotesType == [peerMaj23 : BOOLEAN, voters : SUBSET Validators, sum : Nat]

VoteSetType ==
  [votes : [Validators -> BlockIDs \cup {NoVote}],
   sum : Nat,
   maj23 : BlockIDs \cup {NoVote},
   byBlock : [BlockIDs -> BlockVotesType],
   peerMaj23s : [Peers -> BlockIDs \cup {NoVote}]]
-----------------------------------------------------------------------------
HasTwoThirdsMajority(vs) == vs.maj23 # NoVote

HasTwoThirdsAny(vs) == vs.sum > (TotalVotingPower * 2) \div 3

HasAll(vs) == vs.sum = TotalVotingPower

(* getVote: the set already knows v's vote for b. *)
KnowsVote(vs, v, b) == vs.votes[v] = b \/ v \in vs.byBlock[b].voters

(* blockVotes.addVerifiedVote *)
addToBlock(bv, v) ==
  IF v \in bv.voters THEN bv
  ELSE [bv EXCEPT !.voters = @ \cup {v}, !.sum = @ + Power(v)]

setCanonical_CountTwice(vs, v, b) ==
  [vs EXCEPT !.votes[v] = IF @ = NoVote \/ vs.maj23 = b THEN b ELSE @,
             !.sum = @ + Power(v)]

(* addVerifiedVote up to the votesByBlock part: the canonical vote.  A       *)
(* conflicting vote replaces it only if it is for the +2/3 block.            *)
setCanonical(vs, v, b) ==
  IF vs.votes[v] = NoVote
  THEN [vs EXCEPT !.votes[v] = b, !.sum = @ + Power(v)]
  ELSE IF vs.maj23 = b THEN [vs EXCEPT !.votes[v] = b] ELSE vs

countForBlock_NoCopy(vs, v, b) ==
  LET old == vs.byBlock[b]
      new == addToBlock(old, v)
      crossed == old.sum < Quorum /\ Quorum <= new.sum
      vs1 == [vs EXCEPT !.byBlock[b] = new]
  IN  IF crossed /\ vs.maj23 = NoVote THEN [vs1 EXCEPT !.maj23 = b] ELSE vs1

(* The end of addVerifiedVote: count the vote for its block; the first block *)
(* to cross the quorum becomes maj23 and its votes become canonical.         *)
countForBlock(vs, v, b) ==
  LET old == vs.byBlock[b]
      new == addToBlock(old, v)
      crossed == old.sum < Quorum /\ Quorum <= new.sum
      vs1 == [vs EXCEPT !.byBlock[b] = new]
  IN  IF crossed /\ vs.maj23 = NoVote
      THEN [vs1 EXCEPT !.maj23 = b,
                       !.votes = [w \in Validators |->
                                    IF w \in new.voters THEN b ELSE @[w]]]
      ELSE vs1

(* The vote is counted for its block unless it conflicts and no peer claims  *)
(* a majority for that block.                                                *)
Counted(vs, v, b) == vs.votes[v] = NoVote \/ vs.byBlock[b].peerMaj23

(* addVote: the resulting set, whether the vote was added, and the canonical *)
(* vote it conflicts with (NoVote if none).                                  *)
AddVote(vs, v, b) ==
  IF KnowsVote(vs, v, b)
  THEN [set |-> vs, added |-> FALSE, conflicting |-> NoVote]
  ELSE LET vs1 == setCanonical(vs, v, b)
       IN  [set |-> IF Counted(vs, v, b) THEN countForBlock(vs1, v, b) ELSE vs1,
            added |-> Counted(vs, v, b),
            conflicting |-> vs.votes[v]]

SetPeerMaj23_Forget(vs, p, b) == [vs EXCEPT !.peerMaj23s[p] = b]

(* A peer's first claim is recorded; a later, different one is an error. *)
SetPeerMaj23(vs, p, b) ==
  IF vs.peerMaj23s[p] # NoVote THEN vs
  ELSE [vs EXCEPT !.peerMaj23s[p] = b, !.byBlock[b].peerMaj23 = TRUE]

(* MakeExtendedCommit: the validators whose precommit for the +2/3 block the *)
(* commit carries; votes for nil are kept as such, all others left out.      *)
CommitSigners(vs) == {v \in Validators : vs.votes[v] = vs.maj23}
=============================================================================
