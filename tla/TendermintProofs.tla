-------------------------- MODULE TendermintProofs ---------------------------
(***************************************************************************)
(* Agreement of the voting rules: for every validator set, every           *)
(* assignment of voting power with less than a third of it faulty, and     *)
(* every number of rounds.                                                 *)
(***************************************************************************)
EXTENDS Tendermint, VotingPowerProofs

(* A correct validator signs one vote of each type in a round, in no round   *)
(* after its current one.                                                    *)
VotesOnce ==
  \A v \in Correct, t \in {"prevote", "precommit"}, r \in Rounds, x, y \in Values :
    Vote(t, v, r, x) \in votes =>
      /\ r <= round[v]
      /\ Vote(t, v, r, y) \in votes => x = y

(* A correct validator's precommit for a block has +2/3 prevotes behind it. *)
PrecommitsBacked ==
  \A v \in Correct, r \in Rounds, b \in Blocks :
    Vote("precommit", v, r, b) \in votes => Polka(votes, r, b)

(* A correct validator that prevotes against its earlier precommit has seen  *)
(* +2/3 prevotes for something else in between.                              *)
LockRespected ==
  \A v \in Correct, r0, r \in Rounds, b \in Blocks, x \in Values :
    /\ r0 < r
    /\ b # x
    /\ Vote("precommit", v, r0, b) \in votes
    /\ Vote("prevote", v, r, x) \in votes
    => \E r1 \in Rounds, y \in Values :
         r0 < r1 /\ r1 <= r /\ y # b /\ Polka(votes, r1, y)

(* The validators that have precommitted b in round r or still could. *)
MightPrecommit(r, b) ==
  Faulty \cup {v \in Correct :
                 \/ Vote("precommit", v, r, b) \in votes
                 \/ round[v] <= r /\ \A x \in Values : Vote("precommit", v, r, x) \notin votes}

(* If b can still be decided in round r, nothing else ever gets a polka in a *)
(* later round.  LockPreventsPolka alone is not inductive: the decision may  *)
(* complete after the later round has begun.                                 *)
ChoosableExcludesPolka ==
  \A r \in Rounds, b \in Blocks : IsQuorum(MightPrecommit(r, b)) =>
    \A r1 \in Rounds, x \in Values : r < r1 /\ x # b => ~Polka(votes, r1, x)

Inv ==
  TypeOK /\ VotesOnce /\ PrecommitsBacked /\ LockRespected /\ ChoosableExcludesPolka

(* Supporters are validators. *)
LEMMA SupportersType ==
  ASSUME NEW V, NEW t, NEW r, NEW x
  PROVE  Supporters(V, t, r, x) \in SUBSET Validators
BY DEF Supporters

(* More votes keep a polka. *)
LEMMA PolkaMonotone ==
  ASSUME NEW V, NEW W, V \subseteq W, NEW r, NEW x, Polka(V, r, x)
  PROVE  Polka(W, r, x)
<1>1. Supporters(V, "prevote", r, x) \subseteq Supporters(W, "prevote", r, x)
  BY DEF Supporters
<1> QED
  BY <1>1, SupportersType, QuorumMonotone DEF Polka

(* A vote is determined by its four fields, so votes of different            *)
(* validators, types, rounds or values are different.                        *)
LEMMA VoteInjective ==
  ASSUME NEW t, NEW v, NEW r, NEW x, NEW t2, NEW v2, NEW r2, NEW x2,
         Vote(t, v, r, x) = Vote(t2, v2, r2, x2)
  PROVE  t = t2 /\ v = v2 /\ r = r2 /\ x = x2
BY DEF Vote

(* A vote of a correct validator is not one of a faulty one. *)
LEMMA CorrectNotFaulty ==
  ASSUME NEW v \in Correct, NEW t, NEW r, NEW x
  PROVE  Vote(t, v, r, x) \notin VotesOf(Faulty)
BY DEF Vote, VotesOf, Correct

(* What MaySign may contain. *)
Signed(V, v, k, own) ==
    /\ own \subseteq VotesOf({v})
    /\ \A m \in own : m.round = k
    /\ \A x \in Values : Vote("prevote", v, k, x) \in own =>
         Unvoted("prevote", v, k) /\ MayPrevote(V, v, k, x)
    /\ \A x \in Values : Vote("precommit", v, k, x) \in own =>
         Unvoted("precommit", v, k) /\ MayPrecommit(V, k, x)
    /\ \A t \in {"prevote", "precommit"}, x, y \in Values :
         Vote(t, v, k, x) \in own /\ Vote(t, v, k, y) \in own => x = y

LEMMA MaySignFacts ==
  ASSUME NEW V, NEW v \in Validators, NEW k \in Rounds, NEW own \in MaySign(V, v, k)
  PROVE  Signed(V, v, k, own)
<1> DEFINE PV == {x \in Values : Unvoted("prevote", v, k) /\ MayPrevote(V, v, k, x)}
           PC == {x \in Values : Unvoted("precommit", v, k) /\ MayPrecommit(V, k, x)}
<1>1. PICK p \in AtMostOne(Prevotes(V, v, k)), c \in AtMostOne(Precommits(V, v, k)) :
        own = p \cup c
  BY DEF MaySign
<1>2. p = {} \/ \E x \in PV : p = {Vote("prevote", v, k, x)}
  BY <1>1 DEF AtMostOne, Prevotes
<1>3. c = {} \/ \E x \in PC : c = {Vote("precommit", v, k, x)}
  BY <1>1 DEF AtMostOne, Precommits
<1>4. \A m \in own : \/ \E x \in PV : m = Vote("prevote", v, k, x)
                     \/ \E x \in PC : m = Vote("precommit", v, k, x)
  BY <1>1, <1>2, <1>3
<1>5. own \subseteq VotesOf({v}) /\ \A m \in own : m.round = k
  BY <1>4 DEF Vote, VotesOf
<1>6. ASSUME NEW x \in Values, Vote("prevote", v, k, x) \in own
      PROVE  x \in PV /\ p = {Vote("prevote", v, k, x)}
  BY <1>1, <1>2, <1>3, <1>6 DEF Vote
<1>7. ASSUME NEW x \in Values, Vote("precommit", v, k, x) \in own
      PROVE  x \in PC /\ c = {Vote("precommit", v, k, x)}
  BY <1>1, <1>2, <1>3, <1>7 DEF Vote
<1>8. ASSUME NEW x \in Values, NEW y \in Values,
             Vote("prevote", v, k, x) \in own, Vote("prevote", v, k, y) \in own
      PROVE  x = y
  <2>1. Vote("prevote", v, k, x) = Vote("prevote", v, k, y)
    BY <1>6, <1>8
  <2> QED
    BY <2>1, VoteInjective
<1>9. ASSUME NEW x \in Values, NEW y \in Values,
             Vote("precommit", v, k, x) \in own, Vote("precommit", v, k, y) \in own
      PROVE  x = y
  <2>1. Vote("precommit", v, k, x) = Vote("precommit", v, k, y)
    BY <1>7, <1>9
  <2> QED
    BY <2>1, VoteInjective
<1> QED
  BY <1>5, <1>6, <1>7, <1>8, <1>9, Zenon DEF Signed

(* What a step of either kind does: votes f of faulty validators and own of  *)
(* correct ones are added, and every correct vote obeys the rules.           *)
Signing(f, own) ==
  /\ f \subseteq VotesOf(Faulty)
  /\ own \subseteq VotesOf(Correct)
  /\ votes' = votes \cup f \cup own
  /\ round' \in [Correct -> Rounds]
  /\ \A v \in Correct : round[v] <= round'[v]
  /\ \A v \in Correct, t \in {"prevote", "precommit"}, r \in Rounds, x \in Values :
       Vote(t, v, r, x) \in own =>
         /\ round[v] <= r /\ r <= round'[v]
         /\ Unvoted(t, v, r)
         /\ t = "prevote" => MayPrevote(votes \cup f, v, r, x)
         /\ t = "precommit" => MayPrecommit(votes \cup f, r, x)
         /\ \A t2 \in {"prevote", "precommit"}, r2 \in Rounds, y \in Values :
              Vote(t2, v, r2, y) \in own => r2 = r /\ (t2 = t => y = x)

LEMMA FaultyStepSigns ==
  ASSUME TypeOK, FaultyStep
  PROVE  \E f, own : Signing(f, own)
<1>1. PICK m \in VotesOf(Faulty) : votes' = votes \cup {m}
  BY DEF FaultyStep
<1>2. \A v \in Correct : round[v] <= round'[v]
  BY DEF TypeOK, FaultyStep, Rounds
<1>3. Signing({m}, {})
  BY <1>1, <1>2 DEF Signing, TypeOK, FaultyStep
<1> QED
  BY <1>3

LEMMA CorrectStepSigns ==
  ASSUME TypeOK, NEW v \in Correct, CorrectStep(v)
  PROVE  \E f, own : Signing(f, own)
<1>1. PICK f \in SeenVotes, r \in Rounds, k \in Rounds :
        /\ round[v] <= k /\ k <= r
        /\ \E own \in MaySign(votes \cup f, v, k) : votes' = votes \cup f \cup own
        /\ round' = [round EXCEPT ![v] = r]
  BY Zenon DEF CorrectStep, Handle
<1>2. PICK own \in MaySign(votes \cup f, v, k) : votes' = votes \cup f \cup own
  BY <1>1
<1>3. v \in Validators
  BY DEF Correct
<1>4. f \subseteq VotesOf(Faulty)
  BY <1>1 DEF SeenVotes, AtMostOne
<1> DEFINE V == votes \cup f
<1>0. own \in MaySign(V, v, k)
  BY <1>2
<1> HIDE DEF V
<1>F. Signed(V, v, k, own)
  BY <1>0, <1>3, MaySignFacts
<1>5. own \subseteq VotesOf({v})
  BY <1>F DEF Signed
<1>6. own \subseteq VotesOf(Correct)
  BY <1>5 DEF VotesOf
<1>7. round' \in [Correct -> Rounds]
  BY <1>1 DEF TypeOK
<1>8. \A w \in Correct : round[w] <= round'[w]
  BY <1>1 DEF TypeOK, Rounds
<1>9. ASSUME NEW w \in Correct, NEW t \in {"prevote", "precommit"},
             NEW j \in Rounds, NEW x \in Values, Vote(t, w, j, x) \in own
      PROVE  w = v /\ j = k
  <2>1. w = v
    BY <1>5, <1>9 DEF VotesOf, Vote
  <2> QED
    BY <2>1, <1>F, <1>9 DEF Vote, Signed
<1>10. ASSUME NEW w \in Correct, NEW t \in {"prevote", "precommit"},
              NEW j \in Rounds, NEW x \in Values, Vote(t, w, j, x) \in own
       PROVE  /\ round[w] <= j /\ j <= round'[w]
              /\ Unvoted(t, w, j)
              /\ t = "prevote" => MayPrevote(V, w, j, x)
              /\ t = "precommit" => MayPrecommit(V, j, x)
              /\ \A t2 \in {"prevote", "precommit"}, r2 \in Rounds, y \in Values :
                   Vote(t2, w, r2, y) \in own => r2 = j /\ (t2 = t => y = x)
  <2>1. w = v /\ j = k
    BY <1>9, <1>10
  <2>2. round[w] <= j /\ j <= round'[w]
    BY <2>1, <1>1 DEF TypeOK
  <2>3. t = "prevote" => Unvoted(t, w, j) /\ MayPrevote(V, w, j, x)
    BY <2>1, <1>10, <1>F, Zenon DEF Signed
  <2>4. t = "precommit" => Unvoted(t, w, j) /\ MayPrecommit(V, j, x)
    BY <2>1, <1>10, <1>F, Zenon DEF Signed
  <2>5. ASSUME NEW t2 \in {"prevote", "precommit"}, NEW r2 \in Rounds, NEW y \in Values,
               Vote(t2, w, r2, y) \in own
        PROVE  r2 = j /\ (t2 = t => y = x)
    <3>1. r2 = k
      BY <1>9, <2>5
    <3>2. ASSUME t2 = t PROVE y = x
      BY <3>1, <3>2, <2>1, <2>5, <1>10, <1>F, Zenon DEF Signed
    <3> QED
      BY <3>1, <3>2, <2>1
  <2> QED
    BY <2>2, <2>3, <2>4, <2>5
<1>11. Signing(f, own)
  BY <1>2, <1>4, <1>6, <1>7, <1>8, <1>10, Zenon DEF Signing, V
<1> QED
  BY <1>11

(* A correct vote after the step was there before or is one of own. *)
LEMMA CorrectVotesAfter ==
  ASSUME NEW f, NEW own, Signing(f, own),
         NEW v \in Correct, NEW t, NEW r, NEW x
  PROVE  /\ Vote(t, v, r, x) \in votes' <=> Vote(t, v, r, x) \in votes \cup own
         /\ Vote(t, v, r, x) \in votes \cup f <=> Vote(t, v, r, x) \in votes
BY CorrectNotFaulty DEF Signing

LEMMA TypeStep ==
  ASSUME TypeOK, NEW f, NEW own, Signing(f, own)
  PROVE  TypeOK'
<1>1. VotesOf(Faulty) \subseteq VotesOf(Validators) /\ VotesOf(Correct) \subseteq VotesOf(Validators)
  BY TendermintConstants DEF VotesOf, Correct
<1> QED
  BY <1>1 DEF TypeOK, Signing

LEMMA VotesOnceStep ==
  ASSUME Inv, NEW f, NEW own, Signing(f, own)
  PROVE  VotesOnce'
<1> SUFFICES ASSUME NEW v \in Correct, NEW t \in {"prevote", "precommit"}, NEW r \in Rounds,
                    NEW x \in Values, NEW y \in Values, Vote(t, v, r, x) \in votes'
             PROVE  /\ r <= round'[v]
                    /\ Vote(t, v, r, y) \in votes' => x = y
  BY DEF VotesOnce
<1>1. Vote(t, v, r, x) \in votes \cup own
  BY CorrectVotesAfter
<1>2. Vote(t, v, r, y) \in votes' => Vote(t, v, r, y) \in votes \cup own
  BY CorrectVotesAfter
<1>3. round[v] \in Int /\ round'[v] \in Int /\ r \in Int /\ round[v] <= round'[v]
  BY DEF Inv, TypeOK, Signing, Rounds
<1>4. CASE Vote(t, v, r, x) \in votes
  <2>1. r <= round[v]
    BY <1>4 DEF Inv, VotesOnce
  <2>2. Vote(t, v, r, y) \in own => FALSE
    BY <1>4 DEF Signing, Unvoted
  <2>3. Vote(t, v, r, y) \in votes => x = y
    BY <1>4 DEF Inv, VotesOnce
  <2> QED
    BY <2>1, <2>2, <2>3, <1>2, <1>3
<1>5. CASE Vote(t, v, r, x) \in own
  <2>1. r <= round'[v] /\ Unvoted(t, v, r)
    BY <1>5 DEF Signing
  <2>2. Vote(t, v, r, y) \in own => x = y
    BY <1>5 DEF Signing
  <2> QED
    BY <2>1, <2>2, <1>2 DEF Unvoted
<1> QED
  BY <1>1, <1>4, <1>5

LEMMA PrecommitsBackedStep ==
  ASSUME Inv, NEW f, NEW own, Signing(f, own)
  PROVE  PrecommitsBacked'
<1> SUFFICES ASSUME NEW v \in Correct, NEW r \in Rounds, NEW b \in Blocks,
                    Vote("precommit", v, r, b) \in votes'
             PROVE  Polka(votes', r, b)
  BY DEF PrecommitsBacked
<1>1. Vote("precommit", v, r, b) \in votes \cup own
  BY CorrectVotesAfter
<1>2. votes \subseteq votes' /\ votes \cup f \subseteq votes'
  BY DEF Signing
<1>3. b \in Values /\ b # Nil
  BY TendermintConstants DEF Values
<1>4. CASE Vote("precommit", v, r, b) \in votes
  BY <1>2, <1>4, PolkaMonotone DEF Inv, PrecommitsBacked
<1>5. CASE Vote("precommit", v, r, b) \in own
  <2>1. MayPrecommit(votes \cup f, r, b)
    BY <1>3, <1>5, Zenon DEF Signing
  <2> QED
    BY <2>1, <1>2, <1>3, PolkaMonotone DEF MayPrecommit
<1> QED
  BY <1>1, <1>4, <1>5

(* A correct validator's prevote against its earlier precommit is justified  *)
(* by votes that were there before the step, or by the ones it saw in it.    *)
LEMMA LockStep ==
  ASSUME Inv, NEW f, NEW own, Signing(f, own),
         NEW v \in Correct, NEW r0 \in Rounds, NEW r \in Rounds,
         NEW b \in Blocks, NEW x \in Values, r0 < r, b # x,
         Vote("precommit", v, r0, b) \in votes',
         Vote("prevote", v, r, x) \in votes'
  PROVE  \E r1 \in Rounds, y \in Values :
           r0 < r1 /\ r1 <= r /\ y # b /\ Polka(votes \cup f, r1, y)
<1>1. /\ Vote("precommit", v, r0, b) \in votes \cup own
      /\ Vote("prevote", v, r, x) \in votes \cup own
  BY CorrectVotesAfter
<1>2. b \in Values
  BY DEF Values
<1>3. round[v] \in Int /\ r \in Int /\ r0 \in Int
  BY DEF Inv, TypeOK, Rounds
<1>4. CASE Vote("prevote", v, r, x) \in own
  <2>1. MayPrevote(votes \cup f, v, r, x)
    BY <1>4, Zenon DEF Signing
  <2>2. Vote("precommit", v, r0, b) \notin own
    <3>1. Vote("precommit", v, r0, b) \in own => r0 = r
      BY <1>2, <1>4 DEF Signing
    <3> QED
      BY <3>1, <1>3
  <2>3. Vote("precommit", v, r0, b) \in votes \cup f
    BY <1>1, <2>2
  <2> QED
    BY <2>1, <2>3 DEF MayPrevote
<1>5. CASE Vote("prevote", v, r, x) \in votes
  <2>1. r <= round[v]
    BY <1>5 DEF Inv, VotesOnce
  <2>2. Vote("precommit", v, r0, b) \notin own
    <3>1. Vote("precommit", v, r0, b) \in own => round[v] <= r0
      BY <1>2 DEF Signing
    <3> QED
      BY <3>1, <2>1, <1>3
  <2>3. PICK r1 \in Rounds, y \in Values :
          r0 < r1 /\ r1 <= r /\ y # b /\ Polka(votes, r1, y)
    BY <1>1, <2>2, <1>5 DEF Inv, LockRespected
  <2>4. Polka(votes \cup f, r1, y)
    BY <2>3, PolkaMonotone
  <2> QED
    BY <2>3, <2>4
<1> QED
  BY <1>1, <1>4, <1>5

LEMMA LockRespectedStep ==
  ASSUME Inv, NEW f, NEW own, Signing(f, own)
  PROVE  LockRespected'
<1> SUFFICES ASSUME NEW v \in Correct, NEW r0 \in Rounds, NEW r \in Rounds,
                    NEW b \in Blocks, NEW x \in Values, r0 < r, b # x,
                    Vote("precommit", v, r0, b) \in votes',
                    Vote("prevote", v, r, x) \in votes'
             PROVE  \E r1 \in Rounds, y \in Values :
                      r0 < r1 /\ r1 <= r /\ y # b /\ Polka(votes', r1, y)
  BY DEF LockRespected
<1>1. PICK r1 \in Rounds, y \in Values :
        r0 < r1 /\ r1 <= r /\ y # b /\ Polka(votes \cup f, r1, y)
  BY LockStep, Zenon
<1>2. votes \cup f \subseteq votes'
  BY DEF Signing
<1>3. Polka(votes', r1, y)
  BY <1>1, <1>2, PolkaMonotone
<1> QED
  BY <1>1, <1>3

(* A correct validator that might precommit b in round r and has prevoted in *)
(* a later round has precommitted b.                                         *)
LEMMA PastRoundPrecommitted ==
  ASSUME TypeOK, VotesOnce, NEW r \in Rounds, NEW b \in Blocks, NEW v \in Correct,
         v \in MightPrecommit(r, b), NEW r1 \in Rounds, NEW x \in Values, r < r1,
         Vote("prevote", v, r1, x) \in votes
  PROVE  Vote("precommit", v, r, b) \in votes
<1>1. r1 <= round[v]
  BY DEF VotesOnce
<1>2. ~(round[v] <= r)
  BY <1>1 DEF TypeOK, Rounds
<1> QED
  BY <1>2 DEF MightPrecommit, Correct

(* Votes of faulty validators alone do not create a forbidden polka: one     *)
(* correct validator is in it and in the quorum for b, and respects its lock.*)
LEMMA FaultyVotesHarmless ==
  ASSUME Inv, FaultyMinority, NEW f, f \subseteq VotesOf(Faulty),
         NEW r \in Rounds, NEW b \in Blocks, IsQuorum(MightPrecommit(r, b)),
         NEW r1 \in Rounds, NEW x \in Values, r < r1, x # b
  PROVE  ~Polka(votes \cup f, r1, x)
<1> SUFFICES ASSUME Polka(votes \cup f, r1, x)
             PROVE  FALSE
  OBVIOUS
<1> DEFINE S == MightPrecommit(r, b)
           T == Supporters(votes \cup f, "prevote", r1, x)
<1>1. S \in SUBSET Validators /\ T \in SUBSET Validators /\ Faulty \in SUBSET Validators
  BY TendermintConstants DEF MightPrecommit, Supporters, Correct
<1>2. IsQuorum(S) /\ IsQuorum(T) /\ 3 * PowerOf(Faulty) < TotalVotingPower
  BY DEF Polka, FaultyMinority
<1>3. PICK v \in S \cap T : v \notin Faulty
  <2> HIDE DEF S, T
  <2> QED
    BY <1>1, <1>2, QuorumsIntersect
<1>4. v \in Correct
  BY <1>1, <1>3 DEF Correct
<1>5. Vote("prevote", v, r1, x) \in votes
  BY <1>3, <1>4, CorrectNotFaulty DEF Supporters
<1>6. Vote("precommit", v, r, b) \in votes
  BY <1>3, <1>4, <1>5, PastRoundPrecommitted DEF Inv
<1>7. \E r2 \in Rounds, y \in Values : r < r2 /\ r2 <= r1 /\ y # b /\ Polka(votes, r2, y)
  BY <1>4, <1>5, <1>6 DEF Inv, LockRespected
<1> QED
  BY <1>7 DEF Inv, ChoosableExcludesPolka

(* Nobody gains the power to precommit in a round by a step. *)
LEMMA MightPrecommitShrinks ==
  ASSUME Inv, NEW f, NEW own, Signing(f, own), NEW r \in Rounds, NEW b \in Blocks
  PROVE  MightPrecommit(r, b)' \subseteq MightPrecommit(r, b)
<1> SUFFICES ASSUME NEW v \in Correct, v \in MightPrecommit(r, b)', v \notin Faulty
             PROVE  v \in MightPrecommit(r, b)
  BY DEF MightPrecommit
<1>1. b \in Values
  BY DEF Values
<1>2. round[v] \in Int /\ round'[v] \in Int /\ r \in Int /\ round[v] <= round'[v]
  BY DEF Inv, TypeOK, Signing, Rounds
<1>3. CASE Vote("precommit", v, r, b) \in votes'
  <2>1. CASE Vote("precommit", v, r, b) \in votes
    BY <2>1 DEF MightPrecommit
  <2>2. CASE Vote("precommit", v, r, b) \in own
    <3>1. round[v] <= r /\ Unvoted("precommit", v, r)
      BY <2>2, <1>1 DEF Signing
    <3> QED
      BY <3>1 DEF MightPrecommit, Unvoted
  <2> QED
    BY <1>3, <2>1, <2>2, CorrectVotesAfter
<1>4. CASE round'[v] <= r /\ \A x \in Values : Vote("precommit", v, r, x) \notin votes'
  <2>1. round[v] <= r
    BY <1>2, <1>4
  <2>2. votes \subseteq votes'
    BY DEF Signing
  <2> QED
    BY <1>4, <2>1, <2>2 DEF MightPrecommit
<1> QED
  BY <1>3, <1>4 DEF MightPrecommit

LEMMA ChoosableStep ==
  ASSUME Inv, FaultyMinority, NEW f, NEW own, Signing(f, own)
  PROVE  ChoosableExcludesPolka'
<1> SUFFICES ASSUME NEW r \in Rounds, NEW b \in Blocks, IsQuorum(MightPrecommit(r, b)'),
                    NEW r1 \in Rounds, NEW x \in Values, r < r1, x # b,
                    Polka(votes', r1, x)
             PROVE  FALSE
  BY DEF ChoosableExcludesPolka, IsQuorum, Quorum, TotalVotingPower
<1> DEFINE S == MightPrecommit(r, b)
           S2 == MightPrecommit(r, b)'
           T == Supporters(votes', "prevote", r1, x)
<1>1. S2 \subseteq S
  BY MightPrecommitShrinks
<1>2. /\ S \in SUBSET Validators /\ S2 \in SUBSET Validators
      /\ T \in SUBSET Validators /\ Faulty \in SUBSET Validators
  BY TendermintConstants DEF MightPrecommit, Supporters, Correct
<1>3. IsQuorum(S2) /\ IsQuorum(T) /\ 3 * PowerOf(Faulty) < TotalVotingPower
  BY DEF Polka, FaultyMinority
<1>4. IsQuorum(S)
  <2> HIDE DEF S, S2
  <2> QED
    BY <1>1, <1>2, <1>3, QuorumMonotone
<1>5. PICK v \in S2 \cap T : v \notin Faulty
  <2> HIDE DEF S2, T
  <2> QED
    BY <1>2, <1>3, QuorumsIntersect
<1>6. v \in Correct
  BY <1>2, <1>5 DEF Correct
<1>7. Vote("prevote", v, r1, x) \in votes'
  BY <1>5 DEF Supporters
<1>8. Vote("precommit", v, r, b) \in votes'
  <2>1. TypeOK' /\ VotesOnce'
    BY TypeStep, VotesOnceStep DEF Inv
  <2>2. r1 <= round'[v]
    BY <2>1, <1>6, <1>7 DEF VotesOnce
  <2>3. ~(round'[v] <= r)
    BY <2>1, <2>2, <1>6 DEF TypeOK, Rounds
  <2> QED
    BY <2>3, <1>5 DEF MightPrecommit
<1>9. PICK r2 \in Rounds, y \in Values :
        r < r2 /\ r2 <= r1 /\ y # b /\ Polka(votes \cup f, r2, y)
  BY <1>6, <1>7, <1>8, LockStep, Zenon
<1>10. f \subseteq VotesOf(Faulty)
  BY DEF Signing
<1> QED
  BY <1>4, <1>9, <1>10, FaultyVotesHarmless, Zenon

LEMMA InitInv ==
  ASSUME FaultyMinority, Init
  PROVE  Inv
<1>1. votes \subseteq VotesOf(Faulty)
  BY TendermintConstants DEF Init
<1>2. \A v \in Correct : \A t, r, x : Vote(t, v, r, x) \notin votes
  BY <1>1, CorrectNotFaulty
<1>3. TypeOK
  <2>1. VotesOf(Faulty) \subseteq VotesOf(Validators) /\ 0 \in Rounds
    BY TendermintConstants DEF VotesOf, Rounds
  <2> QED
    BY <1>1, <2>1 DEF Init, TypeOK
<1>4. VotesOnce /\ PrecommitsBacked /\ LockRespected
  BY <1>2 DEF VotesOnce, PrecommitsBacked, LockRespected
<1>5. ASSUME NEW r \in Rounds, NEW x \in Values, Polka(votes, r, x)
      PROVE  FALSE
  <2>1. Supporters(votes, "prevote", r, x) \in SUBSET Validators /\ Faulty \in SUBSET Validators
    BY TendermintConstants, SupportersType
  <2>2. IsQuorum(Supporters(votes, "prevote", r, x)) /\ 3 * PowerOf(Faulty) < TotalVotingPower
    BY <1>5 DEF Polka, FaultyMinority
  <2>3. PICK v \in Supporters(votes, "prevote", r, x) : v \notin Faulty
    BY <2>1, <2>2, QuorumHasCorrect
  <2> QED
    BY <2>1, <2>3, <1>2 DEF Supporters, Correct
<1>6. ChoosableExcludesPolka
  BY <1>5 DEF ChoosableExcludesPolka
<1> QED
  BY <1>3, <1>4, <1>6 DEF Inv

LEMMA NextInv ==
  ASSUME FaultyMinority, Inv, [Next]_vars
  PROVE  Inv'
<1>1. ASSUME NEW f, NEW own, Signing(f, own)
      PROVE  Inv'
  BY <1>1, TypeStep, VotesOnceStep, PrecommitsBackedStep, LockRespectedStep, ChoosableStep DEF Inv
<1>2. CASE FaultyStep
  BY <1>1, <1>2, FaultyStepSigns DEF Inv
<1>3. ASSUME NEW v \in Correct, CorrectStep(v)
      PROVE  Inv'
  BY <1>1, <1>3, CorrectStepSigns DEF Inv
<1>4. CASE UNCHANGED vars
  BY <1>4 DEF vars, Inv, TypeOK, VotesOnce, PrecommitsBacked, LockRespected,
              ChoosableExcludesPolka, MightPrecommit
<1> QED
  BY <1>2, <1>3, <1>4 DEF Next

(* Less than a third of the power faulty: the invariant of the voting rules  *)
(* holds in every reachable state.                                           *)
THEOREM Invariance == ASSUME FaultyMinority PROVE Spec => []Inv
<1>1. Init => Inv
  BY InitInv
<1>2. Inv /\ [Next]_vars => Inv'
  BY NextInv
<1> QED
  BY <1>1, <1>2, PTL DEF Spec

LEMMA DecidedIsChoosable ==
  ASSUME NEW r \in Rounds, NEW b \in Blocks, DecidedIn(r, b)
  PROVE  IsQuorum(MightPrecommit(r, b))
<1> DEFINE S == Supporters(votes, "precommit", r, b)
           T == MightPrecommit(r, b)
<1>1. S \subseteq T /\ S \in SUBSET Validators /\ T \in SUBSET Validators
  BY TendermintConstants DEF Supporters, MightPrecommit, Correct
<1>2. IsQuorum(S)
  BY DEF DecidedIn
<1> HIDE DEF S, T
<1>3. IsQuorum(T)
  BY <1>1, <1>2, QuorumMonotone
<1> QED
  BY <1>3 DEF T

LEMMA InvLockPreventsPolka ==
  ASSUME Inv
  PROVE  LockPreventsPolka
BY DecidedIsChoosable DEF Inv, ChoosableExcludesPolka, LockPreventsPolka

LEMMA DecidedHasPolka ==
  ASSUME Inv, FaultyMinority, NEW r \in Rounds, NEW b \in Blocks, DecidedIn(r, b)
  PROVE  Polka(votes, r, b)
<1> DEFINE S == Supporters(votes, "precommit", r, b)
<1>1. S \in SUBSET Validators /\ Faulty \in SUBSET Validators
  BY TendermintConstants, SupportersType
<1>2. IsQuorum(S) /\ 3 * PowerOf(Faulty) < TotalVotingPower
  BY DEF DecidedIn, FaultyMinority
<1>3. PICK v \in S : v \notin Faulty
  <2> HIDE DEF S
  <2> QED
    BY <1>1, <1>2, QuorumHasCorrect
<1> QED
  BY <1>1, <1>3 DEF Inv, PrecommitsBacked, Supporters, Correct

LEMMA SameRoundDecision ==
  ASSUME Inv, FaultyMinority, NEW r \in Rounds, NEW b \in Blocks, NEW c \in Blocks,
         DecidedIn(r, b), DecidedIn(r, c)
  PROVE  b = c
<1> DEFINE S == Supporters(votes, "precommit", r, b)
           T == Supporters(votes, "precommit", r, c)
<1>1. S \in SUBSET Validators /\ T \in SUBSET Validators /\ Faulty \in SUBSET Validators
  BY TendermintConstants, SupportersType
<1>2. IsQuorum(S) /\ IsQuorum(T) /\ 3 * PowerOf(Faulty) < TotalVotingPower
  BY DEF DecidedIn, FaultyMinority
<1>3. PICK v \in S \cap T : v \notin Faulty
  <2> HIDE DEF S, T
  <2> QED
    BY <1>1, <1>2, QuorumsIntersect
<1>4. b \in Values /\ c \in Values
  BY DEF Values
<1> QED
  BY <1>1, <1>3, <1>4 DEF Inv, VotesOnce, Supporters, Correct

LEMMA InvSafety ==
  ASSUME Inv, FaultyMinority
  PROVE  Safety
<1> SUFFICES ASSUME NEW b \in Blocks, NEW c \in Blocks, NEW r \in Rounds, NEW s \in Rounds,
                    DecidedIn(r, b), DecidedIn(s, c)
             PROVE  b = c
  BY DEF Safety, Decided
<1>1. r \in Int /\ s \in Int /\ b \in Values /\ c \in Values
  BY DEF Rounds, Values
<1>2. CASE r = s
  BY <1>2, SameRoundDecision
<1>3. CASE r < s
  BY <1>1, <1>3, DecidedHasPolka, InvLockPreventsPolka DEF LockPreventsPolka
<1>4. CASE s < r
  BY <1>1, <1>4, DecidedHasPolka, InvLockPreventsPolka DEF LockPreventsPolka
<1> QED
  BY <1>1, <1>2, <1>3, <1>4

(* Agreement: with less than a third of the power faulty, two blocks are     *)
(* never both committed on a height.                                         *)
THEOREM AgreementHolds == ASSUME FaultyMinority PROVE Spec => []Safety
<1>1. Inv => Safety
  BY InvSafety
<1> QED
  BY <1>1, Invariance, PTL

(* After +2/3 of the validators precommit a block, nothing else gets +2/3    *)
(* prevotes in a later round.                                                *)
THEOREM LockHolds == ASSUME FaultyMinority PROVE Spec => []LockPreventsPolka
<1>1. Inv => LockPreventsPolka
  BY InvLockPreventsPolka
<1> QED
  BY <1>1, Invariance, PTL

(* Nothing is decided by the votes of faulty validators alone. *)
LEMMA InitUndecided ==
  ASSUME FaultyMinority, Init
  PROVE  Decided = {}
<1> SUFFICES ASSUME NEW b \in Blocks, NEW r \in Rounds, DecidedIn(r, b)
             PROVE  FALSE
  BY DEF Decided
<1>1. Supporters(votes, "precommit", r, b) \in SUBSET Validators /\ Faulty \in SUBSET Validators
  BY TendermintConstants, SupportersType
<1>2. IsQuorum(Supporters(votes, "precommit", r, b)) /\ 3 * PowerOf(Faulty) < TotalVotingPower
  BY DEF DecidedIn, FaultyMinority
<1>3. PICK v \in Supporters(votes, "precommit", r, b) : v \notin Faulty
  BY <1>1, <1>2, QuorumHasCorrect
<1>4. v \in Correct /\ Vote("precommit", v, r, b) \in votes
  BY <1>1, <1>3 DEF Supporters, Correct
<1> QED
  BY <1>4, CorrectNotFaulty, TendermintConstants DEF Init

(* Votes are never withdrawn, so neither are decisions. *)
LEMMA DecidedGrows ==
  ASSUME Inv, [Next]_vars
  PROVE  Decided \subseteq Decided'
<1>1. votes \subseteq votes'
  BY Zenon DEF Next, FaultyStep, CorrectStep, Handle, vars
<1> SUFFICES ASSUME NEW b \in Blocks, NEW r \in Rounds, DecidedIn(r, b)
             PROVE  IsQuorum(Supporters(votes', "precommit", r, b))
  BY DEF Decided, DecidedIn, IsQuorum, Quorum, TotalVotingPower
<1>2. Supporters(votes, "precommit", r, b) \subseteq Supporters(votes', "precommit", r, b)
  BY <1>1 DEF Supporters
<1>3. IsQuorum(Supporters(votes, "precommit", r, b))
  BY DEF DecidedIn
<1> QED
  BY <1>2, <1>3, SupportersType, QuorumMonotone

(* The voting rules implement agreement: a step decides nothing, or the      *)
(* first and only block.                                                     *)
THEOREM ImplementsAgreementSpec == ASSUME FaultyMinority PROVE Spec => DecidesOnce
<1>1. Init => ImplementsAgreement!Init
  BY InitUndecided DEF ImplementsAgreement!Init
<1>2. Inv /\ Safety' /\ [Next]_vars => [ImplementsAgreement!Decide]_Decided
  <2> SUFFICES ASSUME Inv, Safety', [Next]_vars, Decided' # Decided
               PROVE  ImplementsAgreement!Decide
    OBVIOUS
  <2>1. Decided \subseteq Decided'
    BY DecidedGrows
  <2>2. PICK b \in Decided' : b \notin Decided
    BY <2>1
  <2>3. Decided' = {b}
    BY <2>2 DEF Safety
  <2>4. Decided = {} /\ b \in Blocks
    BY <2>1, <2>2, <2>3 DEF Decided
  <2> QED
    BY <2>3, <2>4 DEF ImplementsAgreement!Decide
<1> QED
  BY <1>1, <1>2, Invariance, AgreementHolds, PTL DEF Spec, DecidesOnce, ImplementsAgreement!Spec
=============================================================================
