--------------------------- MODULE HeightVoteSet -----------------------------
(***************************************************************************)
(* consensus/types/height_vote_set.go: the vote sets of one height.        *)
(*   round    the last round tracked on the node's own account;            *)
(*   sets     the prevotes and precommits of each round that exists;       *)
(*   catchup  the later rounds each peer made the node track, at most two. *)
(* A vote set that does not exist answers every query like an empty one.   *)
(***************************************************************************)
EXTENDS VoteSet, FiniteSets

newRoundVoteSet == [prevote |-> NewVoteSet, precommit |-> NewVoteSet]

NewHeightVoteSet ==
  [round |-> 0,
   sets |-> [r \in {0} |-> newRoundVoteSet],
   catchup |-> [p \in Peers |-> {}]]

addRounds(hvs, rounds) ==
  [hvs EXCEPT !.sets = [r \in DOMAIN @ \cup rounds |->
                          IF r \in DOMAIN @ THEN @[r] ELSE newRoundVoteSet]]

SetRound_NoTrack(hvs, round) == addRounds(hvs, (hvs.round - 1)..round)

(* The loop starts one round before the current one, so the first call also  *)
(* creates round -1, which nothing uses.  SetRound panics if the round falls *)
(* by more than one; its only caller passes the round after the one it       *)
(* enters, which does not fall within a height.                              *)
SetRound(hvs, round) ==
  [addRounds(hvs, (hvs.round - 1)..round) EXCEPT !.round = round]

getVoteSet(hvs, round, type) ==
  IF round \in DOMAIN hvs.sets THEN hvs.sets[round][type] ELSE NewVoteSet

Prevotes(hvs, round) == getVoteSet(hvs, round, "prevote")
Precommits(hvs, round) == getVoteSet(hvs, round, "precommit")

MaxCatchupRounds == 2

(* A peer may open a round nobody tracks yet, twice per height. *)
Unwanted(hvs, peer, round) ==
  round \notin DOMAIN hvs.sets /\ Cardinality(hvs.catchup[peer]) >= MaxCatchupRounds

addToRound(hvs, round, type, v, b) ==
  LET res == AddVote(hvs.sets[round][type], v, b)
  IN  [set |-> [hvs EXCEPT !.sets[round][type] = res.set],
       added |-> res.added, conflicting |-> res.conflicting]

AddRoundVote(hvs, peer, round, type, v, b) ==
  IF Unwanted(hvs, peer, round)
  THEN [set |-> hvs, added |-> FALSE, conflicting |-> NoVote]
  ELSE IF round \in DOMAIN hvs.sets THEN addToRound(hvs, round, type, v, b)
  ELSE addToRound([addRounds(hvs, {round}) EXCEPT !.catchup[peer] = @ \cup {round}],
                  round, type, v, b)

(* The last tracked round with +2/3 prevotes for one block or nil, or -1. *)
POLRound(hvs) ==
  LET pols == {r \in 0..hvs.round : HasTwoThirdsMajority(Prevotes(hvs, r))}
  IN  IF pols = {} THEN -1 ELSE CHOOSE r \in pols : \A q \in pols : q <= r

SetRoundPeerMaj23(hvs, peer, round, type, b) ==
  IF round \in DOMAIN hvs.sets
  THEN [hvs EXCEPT !.sets[round][type] = SetPeerMaj23(@, peer, b)]
  ELSE hvs
=============================================================================
