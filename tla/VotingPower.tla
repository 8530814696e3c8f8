----------------------------- MODULE VotingPower -----------------------------
(***************************************************************************)
(* The voting power of sets of validators, as vote sets and commits count  *)
(* it: PowerOf is any additive measure, the sum of the powers in           *)
(* types.ValidatorSet being the one the code has.                          *)
(***************************************************************************)
EXTENDS Integers

CONSTANTS
  Validators,    \* the validators of one height
  PowerOf(_)     \* PowerOf(S): the summed voting power of a set of validators

ASSUME PowerIsAdditive ==
  /\ \A S \in SUBSET Validators : PowerOf(S) \in Nat
  /\ \A S, T \in SUBSET Validators :
       S \cap T = {} => PowerOf(S \cup T) = PowerOf(S) + PowerOf(T)

(* Validator.VotingPower *)
Power(v) == PowerOf({v})

(* ValidatorSet.TotalVotingPower; at most MaxInt64/8, so that the products   *)
(* below do not overflow in the code.                                        *)
TotalVotingPower == PowerOf(Validators)

Quorum_Half == TotalVotingPower \div 2 + 1

(* The smallest power that is more than two thirds. *)
Quorum == (TotalVotingPower * 2) \div 3 + 1

IsQuorum(S) == PowerOf(S) >= Quorum
=============================================================================
