---------------------------- MODULE VoteSetProofs ----------------------------
(***************************************************************************)
(* Proofs about vote sets: for every validator set, every assignment of    *)
(* voting power with less than a third of it faulty, and every order of    *)
(* votes and claims, the majority a vote set reports is real, unique and   *)
(* carried by the commit made from it.                                     *)
(***************************************************************************)
EXTENDS VoteSetGossip, VotingPowerProofs

(* Votes are only counted if they were cast, and a correct validator casts   *)
(* votes for one block ID only.                                              *)
CountedWereCast ==
  /\ \A b \in BlockIDs : vs.byBlock[b].voters \subseteq Voters(b)
  /\ \A v \in Validators \ Faulty : \A b, c \in cast[v] : b = c

(* What addVerifiedVote maintains about maj23: it is set as soon as a block  *)
(* has a quorum, and the canonical votes then include those of that block.   *)
MajorityInv ==
  /\ \A b \in BlockIDs : IsQuorum(vs.byBlock[b].voters) => vs.maj23 # NoVote
  /\ vs.maj23 # NoVote =>
       /\ IsQuorum(vs.byBlock[vs.maj23].voters)
       /\ vs.byBlock[vs.maj23].voters \subseteq CommitSigners(vs)

(* A validator counted for some block has a canonical vote, so that copying  *)
(* the majority's votes over does not add a vote that sum does not include.  *)
CountedHaveCanonical ==
  \A b \in BlockIDs : \A v \in vs.byBlock[b].voters : vs.votes[v] # NoVote

Inv == TypeOK /\ SumsMatchVotes /\ CountedWereCast /\ MajorityInv
         /\ CountedHaveCanonical

(* Replacing the canonical votes and their sum keeps the type of a vote set. *)
LEMMA VotesUpdateType ==
  ASSUME NEW s \in VoteSetType, NEW n \in Nat,
         NEW f \in [Validators -> BlockIDs \cup {NoVote}]
  PROVE  [s EXCEPT !.votes = f, !.sum = n] \in VoteSetType
BY Zenon DEF VoteSetType

(* setCanonical changes votes and sum only, keeps sum the power of the       *)
(* validators that have a vote, and never takes a vote away from maj23.      *)
LEMMA SetCanonicalFacts ==
  ASSUME NEW s \in VoteSetType, NEW v \in Validators, NEW b \in BlockIDs,
         s.sum = PowerOf(Voted(s))
  PROVE  LET t == setCanonical(s, v, b) IN
         /\ t \in VoteSetType
         /\ t.sum = PowerOf(Voted(t))
         /\ t.maj23 = s.maj23 /\ t.byBlock = s.byBlock
         /\ t.peerMaj23s = s.peerMaj23s
         /\ CommitSigners(s) \subseteq CommitSigners(t) \/ s.maj23 = NoVote
         /\ s.votes[v] = NoVote \/ s.maj23 = b => t.votes[v] = b
<1> DEFINE t == setCanonical(s, v, b)
<1>1. CASE s.votes[v] = NoVote
  <2>1. t = [s EXCEPT !.votes[v] = b, !.sum = @ + Power(v)]
    BY <1>1 DEF setCanonical
  <2>2. /\ t.votes = [s.votes EXCEPT ![v] = b]
        /\ t.sum = s.sum + Power(v)
        /\ t.maj23 = s.maj23 /\ t.byBlock = s.byBlock
        /\ t.peerMaj23s = s.peerMaj23s
    BY <2>1 DEF VoteSetType
  <2>3. Voted(t) = Voted(s) \cup {v} /\ v \notin Voted(s)
    BY <1>1, <2>2, NoVoteIsNoBlockID DEF VoteSetType, Voted
  <2>4. t.sum = PowerOf(Voted(t))
    <3>1. Voted(s) \in SUBSET Validators
      BY DEF Voted
    <3> QED
      BY <2>2, <2>3, <3>1, PowerAdd
  <2>5. t \in VoteSetType
    <3>1. Power(v) \in Nat
      BY PowerNat DEF Power
    <3>2. /\ s.sum + Power(v) \in Nat
          /\ [s.votes EXCEPT ![v] = b] \in [Validators -> BlockIDs \cup {NoVote}]
      BY <3>1 DEF VoteSetType
    <3>3. [s EXCEPT !.votes = [s.votes EXCEPT ![v] = b], !.sum = s.sum + Power(v)]
            \in VoteSetType
      BY <3>2, VotesUpdateType, Zenon
    <3> QED
      BY <2>1, <3>3, Zenon
  <2>6. CommitSigners(s) \subseteq CommitSigners(t) \/ s.maj23 = NoVote
    BY <1>1, <2>2 DEF VoteSetType, CommitSigners
  <2> QED
    BY <2>2, <2>4, <2>5, <2>6 DEF VoteSetType
<1>2. CASE s.votes[v] # NoVote /\ s.maj23 = b
  <2>1. t = [s EXCEPT !.votes[v] = b]
    BY <1>2 DEF setCanonical
  <2>2. /\ t.votes = [s.votes EXCEPT ![v] = b]
        /\ t.sum = s.sum
        /\ t.maj23 = s.maj23 /\ t.byBlock = s.byBlock
        /\ t.peerMaj23s = s.peerMaj23s
    BY <2>1 DEF VoteSetType
  <2>3. Voted(t) = Voted(s)
    BY <1>2, <2>2, NoVoteIsNoBlockID DEF VoteSetType, Voted
  <2>4. t.sum = PowerOf(Voted(t))
    BY <2>2, <2>3
  <2>5. t \in VoteSetType
    BY <2>1 DEF VoteSetType
  <2>6. CommitSigners(s) \subseteq CommitSigners(t)
    BY <1>2, <2>2 DEF VoteSetType, CommitSigners
  <2> QED
    BY <2>2, <2>4, <2>5, <2>6 DEF VoteSetType
<1>3. CASE s.votes[v] # NoVote /\ s.maj23 # b
  <2>1. t = s
    BY <1>3 DEF setCanonical
  <2> QED
    BY <1>3, <2>1
<1> QED
  BY <1>1, <1>2, <1>3

(* Replacing voters and sum keeps the type of a block's votes. *)
LEMMA BlockVotesUpdateType ==
  ASSUME NEW bv \in BlockVotesType, NEW S \in SUBSET Validators, NEW n \in Nat
  PROVE  [bv EXCEPT !.voters = S, !.sum = n] \in BlockVotesType
BY Zenon DEF BlockVotesType

(* Counting one more vote for a block keeps the block's sum its power. *)
LEMMA AddToBlockFacts ==
  ASSUME NEW bv \in BlockVotesType, NEW v \in Validators, v \notin bv.voters,
         bv.sum = PowerOf(bv.voters)
  PROVE  LET new == addToBlock(bv, v) IN
         /\ new \in BlockVotesType
         /\ new.voters = bv.voters \cup {v}
         /\ new.sum = PowerOf(new.voters)
         /\ new.peerMaj23 = bv.peerMaj23
<1> DEFINE new == addToBlock(bv, v)
<1>1. new = [bv EXCEPT !.voters = bv.voters \cup {v}, !.sum = bv.sum + Power(v)]
  BY DEF addToBlock
<1>2. /\ new.voters = bv.voters \cup {v} /\ new.sum = bv.sum + Power(v)
      /\ new.peerMaj23 = bv.peerMaj23
  BY <1>1 DEF BlockVotesType
<1>3. bv.voters \in SUBSET Validators /\ Power(v) \in Nat
  BY PowerNat DEF BlockVotesType, Power
<1>4. PowerOf(bv.voters \cup {v}) = PowerOf(bv.voters) + Power(v)
  BY <1>3, PowerAdd
<1>5. new \in BlockVotesType
  <2>1. bv.voters \cup {v} \in SUBSET Validators /\ bv.sum + Power(v) \in Nat
    BY <1>3 DEF BlockVotesType
  <2>2. [bv EXCEPT !.voters = bv.voters \cup {v}, !.sum = bv.sum + Power(v)]
          \in BlockVotesType
    BY <2>1, BlockVotesUpdateType, Zenon
  <2> QED
    BY <1>1, <2>2, Zenon
<1> QED
  BY <1>2, <1>4, <1>5

(* The two shapes countForBlock returns. *)
LEMMA CountForBlockShape ==
  ASSUME NEW s \in VoteSetType, NEW v \in Validators, NEW b \in BlockIDs
  PROVE  LET t == countForBlock(s, v, b)
             new == addToBlock(s.byBlock[b], v)
             win == s.byBlock[b].sum < Quorum /\ Quorum <= new.sum
                      /\ s.maj23 = NoVote
         IN
         /\ t.byBlock = [s.byBlock EXCEPT ![b] = new]
         /\ t.sum = s.sum /\ t.peerMaj23s = s.peerMaj23s
         /\ win => /\ t.maj23 = b
                   /\ \A w \in Validators :
                        t.votes[w] = IF w \in new.voters THEN b ELSE s.votes[w]
         /\ ~win => t.maj23 = s.maj23 /\ t.votes = s.votes
         /\ new \in BlockVotesType => t \in VoteSetType
<1> DEFINE t == countForBlock(s, v, b)
           new == addToBlock(s.byBlock[b], v)
           win == s.byBlock[b].sum < Quorum /\ Quorum <= new.sum
                    /\ s.maj23 = NoVote
           BB == [s.byBlock EXCEPT ![b] = new]
           VV == [w \in Validators |-> IF w \in new.voters THEN b ELSE s.votes[w]]
<1>1. /\ s.votes \in [Validators -> BlockIDs \cup {NoVote}]
      /\ s.byBlock \in [BlockIDs -> BlockVotesType]
  BY DEF VoteSetType
<1>2. VV \in [Validators -> BlockIDs \cup {NoVote}]
  BY <1>1
<1>3. new \in BlockVotesType => BB \in [BlockIDs -> BlockVotesType]
  BY <1>1
<1>4. win => t = [s EXCEPT !.byBlock = BB, !.maj23 = b, !.votes = VV]
  BY DEF countForBlock, VoteSetType
<1>5. ~win => t = [s EXCEPT !.byBlock = BB]
  BY DEF countForBlock
<1> HIDE DEF t, win, BB, VV, new
<1>6. CASE win
  <2>1. t = [s EXCEPT !.byBlock = BB, !.maj23 = b, !.votes = VV]
    BY <1>4, <1>6
  <2>2. /\ t.byBlock = BB /\ t.maj23 = b /\ t.votes = VV
        /\ t.sum = s.sum /\ t.peerMaj23s = s.peerMaj23s
    BY <2>1 DEF VoteSetType
  <2>3. new \in BlockVotesType => t \in VoteSetType
    BY <2>1, <1>2, <1>3, Zenon DEF VoteSetType
  <2>4. \A w \in Validators :
          t.votes[w] = IF w \in new.voters THEN b ELSE s.votes[w]
    BY <2>2, Zenon DEF VV
  <2> QED
    BY <1>6, <2>2, <2>3, <2>4 DEF t, win, BB, new
<1>7. CASE ~win
  <2>1. t = [s EXCEPT !.byBlock = BB]
    BY <1>5, <1>7
  <2>2. /\ t.byBlock = BB /\ t.maj23 = s.maj23 /\ t.votes = s.votes
        /\ t.sum = s.sum /\ t.peerMaj23s = s.peerMaj23s
    BY <2>1 DEF VoteSetType
  <2>3. new \in BlockVotesType => t \in VoteSetType
    BY <2>1, <1>3 DEF VoteSetType
  <2> QED
    BY <1>7, <2>2, <2>3 DEF t, win, BB, VV, new
<1> QED
  BY <1>6, <1>7

(* A vote that is not counted for its block only touches canonical votes. *)
LEMMA UncountedVoteInv ==
  ASSUME Inv, NEW v \in Validators, NEW b \in BlockIDs,
         cast' = cast, vs' = setCanonical(vs, v, b)
  PROVE  Inv'
<1>1. /\ vs \in VoteSetType /\ cast \in [Validators -> SUBSET BlockIDs]
      /\ vs.sum = PowerOf(Voted(vs))
  BY DEF Inv, TypeOK, SumsMatchVotes
<1>2. /\ vs' \in VoteSetType
      /\ vs'.sum = PowerOf(Voted(vs'))
      /\ vs'.maj23 = vs.maj23 /\ vs'.byBlock = vs.byBlock
      /\ CommitSigners(vs) \subseteq CommitSigners(vs') \/ vs.maj23 = NoVote
  BY <1>1, SetCanonicalFacts
<1>3. \A w \in Validators : vs.votes[w] # NoVote => vs'.votes[w] # NoVote
  BY <1>1, NoVoteIsNoBlockID DEF setCanonical, VoteSetType
<1>4. TypeOK' /\ SumsMatchVotes' /\ CountedWereCast'
  BY <1>1, <1>2
     DEF Inv, TypeOK, SumsMatchVotes, CountedWereCast, Voters
<1>5. MajorityInv'
  BY <1>2 DEF Inv, MajorityInv
<1>6. CountedHaveCanonical'
  <2>1. \A c \in BlockIDs : vs.byBlock[c].voters \subseteq Validators
    BY <1>1 DEF VoteSetType, BlockVotesType
  <2> QED
    BY <1>2, <1>3, <2>1 DEF Inv, CountedHaveCanonical
<1> QED
  BY <1>4, <1>5, <1>6 DEF Inv

(* A vote that is counted for its block: a new majority is backed by the     *)
(* block's voters, an old one keeps its voters and gains at most this one.   *)
LEMMA CountedVoteInv ==
  ASSUME Inv, NEW v \in Validators, NEW b \in BlockIDs, b \in cast[v],
         ~KnowsVote(vs, v, b), cast' = cast,
         vs' = countForBlock(setCanonical(vs, v, b), v, b)
  PROVE  Inv'
<1> DEFINE s1 == setCanonical(vs, v, b)
           old == vs.byBlock[b]
           new == addToBlock(old, v)
           win == old.sum < Quorum /\ Quorum <= new.sum /\ vs.maj23 = NoVote
<1>1. /\ vs \in VoteSetType /\ cast \in [Validators -> SUBSET BlockIDs]
      /\ vs.sum = PowerOf(Voted(vs)) /\ old.sum = PowerOf(old.voters)
  BY DEF Inv, TypeOK, SumsMatchVotes
<1>2. /\ s1 \in VoteSetType /\ s1.sum = PowerOf(Voted(s1))
      /\ s1.maj23 = vs.maj23 /\ s1.byBlock = vs.byBlock
      /\ CommitSigners(vs) \subseteq CommitSigners(s1) \/ vs.maj23 = NoVote
      /\ vs.maj23 = b => s1.votes[v] = b
  BY <1>1, SetCanonicalFacts
<1>3. Voted(vs) \cup {v} \subseteq Voted(s1)
  BY <1>1, NoVoteIsNoBlockID DEF setCanonical, VoteSetType, Voted
<1>4. old \in BlockVotesType /\ v \notin old.voters
  BY <1>1 DEF VoteSetType, KnowsVote
<1>5. /\ new \in BlockVotesType /\ new.voters = old.voters \cup {v}
      /\ new.sum = PowerOf(new.voters) /\ new.peerMaj23 = old.peerMaj23
  BY <1>1, <1>4, AddToBlockFacts
<1>6. /\ vs' \in VoteSetType
      /\ vs'.byBlock = [vs.byBlock EXCEPT ![b] = new]
      /\ vs'.sum = s1.sum
      /\ win => /\ vs'.maj23 = b
                /\ \A w \in Validators :
                     vs'.votes[w] = IF w \in new.voters THEN b ELSE s1.votes[w]
      /\ ~win => vs'.maj23 = vs.maj23 /\ vs'.votes = s1.votes
  <2>1. s1.byBlock[b] = old
    BY <1>2
  <2>2. vs' = countForBlock(s1, v, b)
    OBVIOUS
  <2> HIDE DEF s1, old
  <2> QED
    BY <1>2, <1>5, <2>1, <2>2, CountForBlockShape
<1> HIDE DEF s1, old, new, win
<1>7. \A c \in BlockIDs : vs'.byBlock[c] = IF c = b THEN new ELSE vs.byBlock[c]
  BY <1>1, <1>6 DEF VoteSetType
<1>8. \A c \in BlockIDs : vs.byBlock[c].voters \subseteq Voted(vs)
  BY <1>1 DEF Inv, CountedHaveCanonical, Voted, VoteSetType, BlockVotesType
<1>9. new.voters \subseteq Voted(s1)
  BY <1>3, <1>5, <1>8 DEF old
<1>10. Voted(vs') = Voted(s1)
  <2>1. CASE win
    BY <1>6, <1>9, <2>1, NoVoteIsNoBlockID DEF Voted
  <2>2. CASE ~win
    BY <1>6, <2>2 DEF Voted
  <2> QED
    BY <2>1, <2>2
<1>11. TypeOK'
  BY <1>1, <1>6 DEF TypeOK
<1>12. SumsMatchVotes'
  <2>1. \A c \in BlockIDs : vs'.byBlock[c].sum = PowerOf(vs'.byBlock[c].voters)
    BY <1>5, <1>7, Zenon DEF Inv, SumsMatchVotes
  <2>2. vs'.sum = PowerOf(Voted(vs'))
    BY <1>2, <1>6, <1>10
  <2> QED
    BY <2>1, <2>2 DEF SumsMatchVotes
<1>13. CountedWereCast'
  <2>1. \A c \in BlockIDs : vs'.byBlock[c].voters \subseteq Voters(c)
    BY <1>5, <1>7 DEF Inv, CountedWereCast, Voters, old
  <2>2. Voters(b)' = Voters(b) /\ \A c \in BlockIDs : Voters(c)' = Voters(c)
    BY DEF Voters
  <2> QED
    BY <2>1, <2>2 DEF Inv, CountedWereCast
<1>14. CountedHaveCanonical'
  BY <1>3, <1>7, <1>8, <1>9, <1>10 DEF CountedHaveCanonical, Voted
<1>15. MajorityInv'
  <2>1. new.voters \in SUBSET Validators /\ old.voters \in SUBSET Validators
    BY <1>4, <1>5 DEF BlockVotesType
  <2>2. CASE win
    <3>1. vs'.maj23 = b /\ b # NoVote /\ vs'.byBlock[b] = new
      BY <1>6, <1>7, <2>2, NoVoteIsNoBlockID
    <3>2. IsQuorum(new.voters)
      BY <1>5, <2>2 DEF IsQuorum, win
    <3>3. new.voters \subseteq CommitSigners(vs')
      BY <1>6, <2>1, <2>2 DEF CommitSigners
    <3> QED
      BY <3>1, <3>2, <3>3 DEF MajorityInv
  <2>3. CASE ~win
    <3>1. vs'.maj23 = vs.maj23 /\ CommitSigners(vs') = CommitSigners(s1)
      BY <1>2, <1>6, <2>3 DEF CommitSigners
    <3>2. ASSUME NEW c \in BlockIDs, IsQuorum(vs'.byBlock[c].voters)
          PROVE  vs'.maj23 # NoVote
      <4>1. CASE c # b
        BY <1>7, <3>1, <3>2, <4>1 DEF Inv, MajorityInv
      <4>2. CASE c = b /\ old.sum < Quorum
        BY <1>5, <1>7, <2>3, <3>1, <3>2, <4>2 DEF win, IsQuorum
      <4>3. CASE c = b /\ ~(old.sum < Quorum)
        <5>1. IsQuorum(old.voters)
          <6>1. old.sum \in Nat /\ Quorum \in Nat
            BY <1>4, PowerNat DEF BlockVotesType, Quorum, TotalVotingPower
          <6> QED
            BY <1>1, <4>3, <6>1 DEF IsQuorum, old
        <5> QED
          BY <3>1, <5>1 DEF Inv, MajorityInv, old
      <4> QED
        BY <4>1, <4>2, <4>3
    <3>3. ASSUME vs'.maj23 # NoVote
          PROVE  /\ IsQuorum(vs'.byBlock[vs'.maj23].voters)
                 /\ vs'.byBlock[vs'.maj23].voters \subseteq CommitSigners(vs')
      <4>1. /\ vs.maj23 # NoVote /\ vs.maj23 \in BlockIDs
            /\ CommitSigners(vs) \subseteq CommitSigners(s1)
            /\ IsQuorum(vs.byBlock[vs.maj23].voters)
            /\ vs.byBlock[vs.maj23].voters \subseteq CommitSigners(vs)
        BY <1>1, <1>2, <3>1, <3>3 DEF Inv, MajorityInv, VoteSetType
      <4>2. CASE vs.maj23 # b
        BY <1>7, <3>1, <4>1, <4>2
      <4>3. CASE vs.maj23 = b
        <5>1. IsQuorum(new.voters)
          BY <1>5, <2>1, <4>1, <4>3, QuorumMonotone DEF old
        <5>2. v \in CommitSigners(s1)
          BY <1>2, <4>3 DEF CommitSigners
        <5>3. new.voters \subseteq CommitSigners(vs')
          BY <1>5, <3>1, <4>1, <4>3, <5>2 DEF old
        <5> QED
          BY <1>7, <3>1, <4>3, <5>1, <5>3
      <4> QED
        BY <4>2, <4>3
    <3> QED
      BY <3>2, <3>3 DEF MajorityInv
  <2> QED
    BY <2>2, <2>3
<1> QED
  BY <1>11, <1>12, <1>13, <1>14, <1>15 DEF Inv

(* A claim of a peer changes no vote, sum or majority. *)
LEMMA ClaimInv ==
  ASSUME Inv, NEW p \in Peers, NEW b \in BlockIDs, ReceiveMaj23(p, b)
  PROVE  Inv'
<1>1. CASE vs' = vs
  BY <1>1
     DEF ReceiveMaj23, Inv, TypeOK, SumsMatchVotes, CountedWereCast, Voters,
         MajorityInv, CountedHaveCanonical
<1>2. CASE vs' = [vs EXCEPT !.peerMaj23s[p] = b, !.byBlock[b].peerMaj23 = TRUE]
  <2> DEFINE PM == [vs.peerMaj23s EXCEPT ![p] = b]
             BB == [vs.byBlock EXCEPT ![b] = [vs.byBlock[b] EXCEPT !.peerMaj23 = TRUE]]
  <2>1. vs' = [vs EXCEPT !.peerMaj23s = PM, !.byBlock = BB]
    BY <1>2 DEF Inv, TypeOK, VoteSetType
  <2>2. vs \in VoteSetType /\ cast' = cast
    BY DEF Inv, TypeOK, ReceiveMaj23
  <2>3. /\ PM \in [Peers -> BlockIDs \cup {NoVote}]
        /\ BB \in [BlockIDs -> BlockVotesType]
        /\ \A c \in BlockIDs : BB[c].voters = vs.byBlock[c].voters
                                /\ BB[c].sum = vs.byBlock[c].sum
    BY <2>2, Zenon DEF VoteSetType, BlockVotesType
  <2> HIDE DEF PM, BB
  <2>4. /\ vs' \in VoteSetType /\ vs'.votes = vs.votes /\ vs'.sum = vs.sum
        /\ vs'.maj23 = vs.maj23 /\ vs'.byBlock = BB
    BY <2>1, <2>2, <2>3, Zenon DEF VoteSetType
  <2>5. Voted(vs') = Voted(vs) /\ CommitSigners(vs') = CommitSigners(vs)
    BY <2>4 DEF Voted, CommitSigners
  <2>6. TypeOK' /\ SumsMatchVotes'
    BY <2>2, <2>3, <2>4, <2>5 DEF Inv, TypeOK, SumsMatchVotes
  <2>7. CountedWereCast' /\ CountedHaveCanonical'
    BY <2>2, <2>3, <2>4
       DEF Inv, CountedWereCast, CountedHaveCanonical, Voters
  <2>8. MajorityInv'
    BY <2>2, <2>3, <2>4, <2>5 DEF Inv, MajorityInv, VoteSetType
  <2> QED
    BY <2>6, <2>7, <2>8 DEF Inv
<1> QED
  BY <1>1, <1>2 DEF ReceiveMaj23, SetPeerMaj23

(* Every vote and every claim preserves the invariant. *)
LEMMA NextInv == Inv /\ [Next]_vars => Inv'
<1> SUFFICES ASSUME Inv, [Next]_vars
             PROVE  Inv'
  OBVIOUS
<1>1. ASSUME NEW v \in Validators, NEW b \in BlockIDs, ReceiveVote(v, b)
      PROVE  Inv'
  <2>1. b \in cast[v] /\ cast' = cast /\ vs' = AddVote(vs, v, b).set
    BY <1>1 DEF ReceiveVote
  <2>2. CASE KnowsVote(vs, v, b)
    BY <2>1, <2>2
       DEF AddVote, Inv, TypeOK, SumsMatchVotes, CountedWereCast, Voters,
           MajorityInv, CountedHaveCanonical
  <2>3. CASE ~KnowsVote(vs, v, b) /\ Counted(vs, v, b)
    <3>1. vs' = countForBlock(setCanonical(vs, v, b), v, b)
      BY <2>1, <2>3 DEF AddVote
    <3> QED
      BY <2>1, <2>3, <3>1, CountedVoteInv
  <2>4. CASE ~KnowsVote(vs, v, b) /\ ~Counted(vs, v, b)
    <3>1. vs' = setCanonical(vs, v, b)
      BY <2>1, <2>4 DEF AddVote
    <3> QED
      BY <2>1, <3>1, UncountedVoteInv
  <2> QED
    BY <2>2, <2>3, <2>4
<1>2. ASSUME NEW p \in Peers, NEW b \in BlockIDs, ReceiveMaj23(p, b)
      PROVE  Inv'
  BY <1>2, ClaimInv
<1>3. CASE UNCHANGED vars
  BY <1>3
     DEF vars, Inv, TypeOK, SumsMatchVotes, CountedWereCast, Voters,
         MajorityInv, CountedHaveCanonical
<1> QED
  BY <1>1, <1>2, <1>3 DEF Next

(* The empty vote set satisfies the invariant. *)
LEMMA InitInv == Init => Inv
<1> SUFFICES ASSUME Init
             PROVE  Inv
  OBVIOUS
<1>1. vs = NewVoteSet /\ cast \in [Validators -> SUBSET BlockIDs]
  BY DEF Init
<1>2. newBlockVotes \in BlockVotesType /\ newBlockVotes.voters = {}
        /\ newBlockVotes.sum = 0
  BY DEF newBlockVotes, BlockVotesType
<1>3. /\ vs \in VoteSetType /\ vs.maj23 = NoVote /\ vs.sum = 0
      /\ \A v \in Validators : vs.votes[v] = NoVote
      /\ \A b \in BlockIDs : vs.byBlock[b] = newBlockVotes
  BY <1>1, <1>2 DEF NewVoteSet, VoteSetType
<1>4. Voted(vs) = {}
  BY <1>3 DEF Voted
<1>5. ~IsQuorum({})
  <2>1. Quorum \in Nat /\ Quorum > 0
    BY PowerNat DEF Quorum, TotalVotingPower
  <2> QED
    BY <2>1, PowerEmpty DEF IsQuorum
<1>6. TypeOK /\ SumsMatchVotes
  BY <1>1, <1>2, <1>3, <1>4, PowerEmpty DEF TypeOK, SumsMatchVotes
<1>7. CountedWereCast /\ CountedHaveCanonical
  BY <1>2, <1>3 DEF Init, CountedWereCast, CountedHaveCanonical
<1>8. MajorityInv
  BY <1>2, <1>3, <1>5 DEF MajorityInv
<1> QED
  BY <1>6, <1>7, <1>8 DEF Inv

(* The invariant holds in every reachable state of a vote set. *)
THEOREM Invariance == Spec => []Inv
BY InitInv, NextInv, PTL DEF Spec

(* addVerifiedVote's running sums are the power of the votes they stand for, *)
(* and a reported majority was signed by more than two thirds of the power.  *)
THEOREM TalliesCorrect == Spec => []TalliesAreRight
<1>1. Inv => MajorityIsReal
  <2> SUFFICES ASSUME Inv, vs.maj23 # NoVote
               PROVE  IsQuorum(Voters(vs.maj23))
    BY DEF MajorityIsReal
  <2>1. vs.maj23 \in BlockIDs /\ IsQuorum(vs.byBlock[vs.maj23].voters)
    BY DEF Inv, TypeOK, VoteSetType, MajorityInv
  <2>2. /\ vs.byBlock[vs.maj23].voters \subseteq Voters(vs.maj23)
        /\ Voters(vs.maj23) \in SUBSET Validators
    BY <2>1 DEF Inv, CountedWereCast, Voters
  <2> QED
    BY <2>1, <2>2, QuorumMonotone
<1>2. Inv => TalliesAreRight
  BY <1>1 DEF Inv, TalliesAreRight
<1> QED
  BY Invariance, <1>2, PTL

(* The commit made from a vote set carries a +2/3 majority of signatures. *)
THEOREM CommitComplete == Spec => []CommitCarriesQuorum
<1>1. Inv => CommitCarriesQuorum
  <2> SUFFICES ASSUME Inv, vs.maj23 # NoVote
               PROVE  /\ IsQuorum(CommitSigners(vs))
                      /\ vs.byBlock[vs.maj23].voters \subseteq CommitSigners(vs)
    BY DEF CommitCarriesQuorum
  <2>1. /\ IsQuorum(vs.byBlock[vs.maj23].voters)
        /\ vs.byBlock[vs.maj23].voters \subseteq CommitSigners(vs)
        /\ CommitSigners(vs) \in SUBSET Validators
    BY DEF Inv, MajorityInv, CommitSigners
  <2> QED
    BY <2>1, QuorumMonotone
<1> QED
  BY Invariance, <1>1, PTL

(* With less than a third of the power faulty, at most one block reaches     *)
(* +2/3 and it is the one the set reports.                                   *)
THEOREM MajorityUnique == Spec => []MajorityIsUnique
<1>1. Inv => MajorityIsUnique
  <2> SUFFICES ASSUME Inv, NEW b \in BlockIDs, IsQuorum(vs.byBlock[b].voters)
               PROVE  vs.maj23 = b
    BY DEF MajorityIsUnique
  <2> DEFINE m == vs.maj23
  <2>1. m # NoVote /\ m \in BlockIDs /\ IsQuorum(vs.byBlock[m].voters)
    BY DEF Inv, MajorityInv, TypeOK, VoteSetType
  <2>2. /\ vs.byBlock[b].voters \in SUBSET Validators
        /\ vs.byBlock[m].voters \in SUBSET Validators
    BY <2>1 DEF Inv, TypeOK, VoteSetType, BlockVotesType
  <2>3. PICK v \in vs.byBlock[b].voters \cap vs.byBlock[m].voters : v \notin Faulty
    BY <2>1, <2>2, FaultyMinority, QuorumsIntersect
  <2>4. b \in cast[v] /\ m \in cast[v] /\ v \in Validators \ Faulty
    BY <2>1, <2>2, <2>3 DEF Inv, CountedWereCast, Voters
  <2> QED
    BY <2>4 DEF Inv, CountedWereCast
<1> QED
  BY Invariance, <1>1, PTL
=============================================================================
