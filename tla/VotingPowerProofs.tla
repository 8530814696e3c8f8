-------------------------- MODULE VotingPowerProofs --------------------------
(* Facts about voting power that the proofs about votes and commits rest on. *)
EXTENDS VotingPower, TLAPS

(* Power is a natural number. *)
LEMMA PowerNat ==
  ASSUME NEW S \in SUBSET Validators
  PROVE  PowerOf(S) \in Nat
BY PowerIsAdditive

(* The powers of disjoint sets add up. *)
LEMMA PowerDisjoint ==
  ASSUME NEW S \in SUBSET Validators, NEW T \in SUBSET Validators, S \cap T = {}
  PROVE  PowerOf(S \cup T) = PowerOf(S) + PowerOf(T)
BY PowerIsAdditive

(* Nobody has no power. *)
LEMMA PowerEmpty == PowerOf({}) = 0
<1>1. PowerOf({} \cup {}) = PowerOf({}) + PowerOf({})
  BY PowerDisjoint
<1>2. {} \cup {} = {}
  OBVIOUS
<1>3. PowerOf({}) = PowerOf({}) + PowerOf({})
  BY <1>1, <1>2
<1>4. PowerOf({}) \in Nat
  BY PowerNat
<1>5. \A n \in Nat : n = n + n => n = 0
  OBVIOUS
<1> QED
  BY <1>3, <1>4, <1>5, Zenon

(* A validator that joins a set adds its own power. *)
LEMMA PowerAdd ==
  ASSUME NEW S \in SUBSET Validators, NEW v \in Validators, v \notin S
  PROVE  PowerOf(S \cup {v}) = PowerOf(S) + Power(v)
BY PowerDisjoint DEF Power

(* A larger set has at least the power of a smaller one. *)
LEMMA PowerMonotone ==
  ASSUME NEW S \in SUBSET Validators, NEW T \in SUBSET Validators, S \subseteq T
  PROVE  PowerOf(S) <= PowerOf(T)
<1>1. PowerOf(S \cup (T \ S)) = PowerOf(S) + PowerOf(T \ S)
  BY PowerDisjoint
<1>2. S \cup (T \ S) = T
  OBVIOUS
<1>3. PowerOf(T) = PowerOf(S) + PowerOf(T \ S)
  BY <1>1, <1>2
<1>4. PowerOf(S) \in Nat /\ PowerOf(T \ S) \in Nat
  BY PowerNat
<1> QED
  BY <1>3, <1>4

(* Sets larger than a quorum are quorums. *)
LEMMA QuorumMonotone ==
  ASSUME NEW S \in SUBSET Validators, NEW T \in SUBSET Validators,
         S \subseteq T, IsQuorum(S)
  PROVE  IsQuorum(T)
<1>1. PowerOf(S) <= PowerOf(T) /\ PowerOf(S) \in Nat /\ PowerOf(T) \in Nat
  BY PowerMonotone, PowerNat
<1>2. Quorum \in Nat
  BY PowerNat DEF Quorum, TotalVotingPower
<1> QED
  BY <1>1, <1>2 DEF IsQuorum

(* Two quorums have more than a third of the power in common: more than any  *)
(* set F that holds less than a third.                                       *)
LEMMA QuorumsIntersect ==
  ASSUME NEW S \in SUBSET Validators, NEW T \in SUBSET Validators,
         NEW F \in SUBSET Validators, 3 * PowerOf(F) < TotalVotingPower,
         IsQuorum(S), IsQuorum(T)
  PROVE  \E v \in S \cap T : v \notin F
<1> SUFFICES ASSUME S \cap T \subseteq F
             PROVE  FALSE
  OBVIOUS
<1> DEFINE N == TotalVotingPower
<1>1. PowerOf(S) = PowerOf(S \ T) + PowerOf(S \cap T)
  <2>1. PowerOf((S \ T) \cup (S \cap T)) = PowerOf(S \ T) + PowerOf(S \cap T)
    BY PowerDisjoint
  <2>2. (S \ T) \cup (S \cap T) = S
    OBVIOUS
  <2> QED
    BY <2>1, <2>2
<1>2. PowerOf(S \ T) + PowerOf(T) <= N
  <2>1. PowerOf((S \ T) \cup T) = PowerOf(S \ T) + PowerOf(T)
    BY PowerDisjoint
  <2>2. PowerOf((S \ T) \cup T) <= PowerOf(Validators)
    BY PowerMonotone
  <2> QED
    BY <2>1, <2>2 DEF TotalVotingPower
<1>3. PowerOf(S \cap T) <= PowerOf(F)
  BY PowerMonotone
<1>4. /\ PowerOf(S) \in Nat /\ PowerOf(T) \in Nat /\ PowerOf(F) \in Nat
      /\ PowerOf(S \ T) \in Nat /\ PowerOf(S \cap T) \in Nat /\ N \in Nat
  BY PowerNat DEF TotalVotingPower
<1>5. 3 * Quorum > 2 * N /\ Quorum \in Nat
  BY <1>4 DEF Quorum
<1>6. PowerOf(S) >= Quorum /\ PowerOf(T) >= Quorum
  BY DEF IsQuorum
<1> HIDE DEF N
<1>7. 3 * PowerOf(F) < N
  BY DEF N
<1> QED
  BY <1>1, <1>2, <1>3, <1>4, <1>5, <1>6, <1>7

(* A quorum has a member outside any set that holds less than a third. *)
LEMMA QuorumHasCorrect ==
  ASSUME NEW S \in SUBSET Validators, IsQuorum(S),
         NEW F \in SUBSET Validators, 3 * PowerOf(F) < TotalVotingPower
  PROVE  \E v \in S : v \notin F
BY QuorumsIntersect
=============================================================================
