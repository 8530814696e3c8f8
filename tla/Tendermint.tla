----------------------------- MODULE Tendermint ------------------------------
(***************************************************************************)
(* The voting rules of consensus on one height, for all validators at      *)
(* once.  Correct validators follow the rules that consensus/state.go      *)
(* implements (module ConsensusState refines one of them); faulty ones     *)
(* vote as they like.                                                      *)
(*                                                                         *)
(* votes is the set of all votes signed so far.  A step of a correct       *)
(* validator is one message or timeout handler: it may see one more vote   *)
(* of a faulty validator, move to a later round, and sign at most one      *)
(* prevote and one precommit.                                              *)
(***************************************************************************)
EXTENDS VotingPower

CONSTANTS
  Blocks,         \* block IDs
  Nil,            \* the vote for no block
  MaxRound,       \* bound: the last round
  Faulty,         \* validators that need not follow the rules
  InitialVotes    \* votes the faulty validators have signed at the start

Rounds == 0..MaxRound
Values == Blocks \cup {Nil}

Vote(t, v, r, x) == [type |-> t, src |-> v, round |-> r, value |-> x]

VotesOf(S) == [type : {"prevote", "precommit"}, src : S, round : Rounds,
               value : Values]

ASSUME TendermintConstants ==
  /\ MaxRound \in Nat
  /\ Nil \notin Blocks
  /\ Faulty \subseteq Validators
  /\ InitialVotes \subseteq VotesOf(Faulty)

Correct == Validators \ Faulty

(* The fault assumption under which consensus is safe. *)
FaultyMinority == 3 * PowerOf(Faulty) < TotalVotingPower

VARIABLES
  round,     \* round[v]: the round a correct validator is in
  votes      \* the votes signed by anyone

vars == <<round, votes>>

Init ==
  /\ round = [v \in Correct |-> 0]
  /\ votes = InitialVotes

(* The validators with a vote of type t for x in round r, among V. *)
Supporters(V, t, r, x) == {v \in Validators : Vote(t, v, r, x) \in V}

(* +2/3 prevotes for one value in one round (Votes.Prevotes(r) has maj23). *)
Polka(V, r, x) == IsQuorum(Supporters(V, "prevote", r, x))

MayPrevote_NoLock(V, v, r, x) == TRUE

(* The lock: a validator that precommitted b in round r0 prevotes b in later *)
(* rounds, until it sees +2/3 prevotes for something else in a round after   *)
(* r0 and not after its current one.                                         *)
MayPrevote(V, v, r, x) ==
  \A r0 \in Rounds, b \in Blocks :
    /\ r0 < r
    /\ b # x
    /\ Vote("precommit", v, r0, b) \in V
    => \E r1 \in Rounds, y \in Values :
         r0 < r1 /\ r1 <= r /\ y # b /\ Polka(V, r1, y)

(* A precommit for a block needs +2/3 prevotes for it in the same round. *)
MayPrecommit(V, r, x) == x = Nil \/ Polka(V, r, x)

(* One vote of each type per validator and round. *)
Unvoted(t, v, r) == \A x \in Values : Vote(t, v, r, x) \notin votes

AtMostOne(S) == {{}} \cup {{m} : m \in S}

(* The vote of a faulty validator that a handler receives, if any. *)
SeenVotes == AtMostOne(VotesOf(Faulty) \ votes)

(* The prevote and the precommit v may sign in round r, having seen V. *)
Prevotes(V, v, r) ==
  {Vote("prevote", v, r, x) : x \in {y \in Values :
     Unvoted("prevote", v, r) /\ MayPrevote(V, v, r, y)}}

Precommits(V, v, r) ==
  {Vote("precommit", v, r, x) : x \in {y \in Values :
     Unvoted("precommit", v, r) /\ MayPrecommit(V, r, y)}}

MaySign(V, v, r) ==
  {p \cup c : p \in AtMostOne(Prevotes(V, v, r)), c \in AtMostOne(Precommits(V, v, r))}

(* A correct validator handles a message, in which it sees votes f, or a     *)
(* timeout: it signs votes of a round k it is in or enters, and may end up   *)
(* in a later round r.                                                       *)
Handle(v, f) ==
  \E r, k \in Rounds :
    /\ round[v] <= k /\ k <= r
    /\ round' = [round EXCEPT ![v] = r]
    /\ \E own \in MaySign(votes \cup f, v, k) : votes' = votes \cup f \cup own

CorrectStep(v) == \E f \in SeenVotes : Handle(v, f)

(* A faulty validator signs a vote that no correct one has handled yet. *)
FaultyStep ==
  /\ \E m \in VotesOf(Faulty) : votes' = votes \cup {m}
  /\ UNCHANGED round

Next == FaultyStep \/ \E v \in Correct : CorrectStep(v)

Spec == Init /\ [][Next]_vars
-----------------------------------------------------------------------------
(* +2/3 precommits for a block: enterCommit commits it. *)
DecidedIn(r, b) == IsQuorum(Supporters(votes, "precommit", r, b))

Decided == {b \in Blocks : \E r \in Rounds : DecidedIn(r, b)}

TypeOK ==
  /\ round \in [Correct -> Rounds]
  /\ votes \subseteq VotesOf(Validators)

(* With less than a third of the power faulty, two blocks are never both     *)
(* committed, in whatever rounds their precommits were collected.            *)
Safety == \A b, c \in Decided : b = c

(* Once +2/3 of the validators have locked a block, no other value gets a    *)
(* +2/3 majority of prevotes in a later round: this is what the lock of      *)
(* enterPrecommit and the prevote of the locked block achieve together.      *)
LockPreventsPolka ==
  \A r \in Rounds, b \in Blocks : DecidedIn(r, b) =>
    \A r1 \in Rounds, x \in Values : r < r1 /\ x # b => ~Polka(votes, r1, x)

(* Consensus on a height promises agreement. *)
ImplementsAgreement == INSTANCE Agreement WITH decided <- Decided

(* Every step of the voting rules decides nothing, or the first block. *)
DecidesOnce == ImplementsAgreement!Spec
=============================================================================
