--------------------------- MODULE ConsensusState ----------------------------
(***************************************************************************)
(* consensus/state.go: the consensus state machine of one node, self.      *)
(*                                                                         *)
(* Messages and timeouts are handled one at a time by receiveRoutine; each *)
(* handler is an operator on the node's state, and each action runs one    *)
(* handler to its end.  The votes and proposals the node signs go through  *)
(* its internal queue; timeouts go through the ticker, whose timer may     *)
(* expire at any time and whose tocks are delivered in any order.  Peers   *)
(* send votes, proposals and block parts in any order, with duplicates.    *)
(*                                                                         *)
(* A block stands for its hash and its part set header, which determine    *)
(* each other.  LockedBlockParts and ValidBlockParts are always the        *)
(* complete parts of LockedBlock and ValidBlock and are not kept.          *)
(***************************************************************************)
EXTENDS HeightVoteSet, Sequences
LOCAL INSTANCE SequencesExt

CONSTANTS
  self,                \* this node's validator
  Blocks,              \* blocks that may be proposed
  Nil,                 \* the zero block ID, a vote for nil
  None,                \* a nil pointer
  ValidBlocks,         \* blocks that ValidateBlock accepts
  AcceptedBlocks,      \* blocks that the application accepts in ProcessProposal
  DecodableBlocks,     \* blocks whose parts decode and are not too large
  PartsTotal,          \* number of parts of a block
  NewBlocks,           \* blocks that createProposalBlock may build
  Signs,               \* outcomes of signing: {TRUE} or BOOLEAN
  Proposer(_, _),      \* the proposer of a height and round
  NeedProofBlock(_),   \* heights whose block must be proposed without waiting
  WaitForTxs,          \* config.WaitForTxs()
  EmptyBlocksInterval, \* config.CreateEmptyBlocksInterval > 0
  SkipTimeoutCommit,   \* config.SkipTimeoutCommit
  QueueSize,           \* capacity of internalMsgQueue
  InitialHeight,       \* genesis initial height
  MaxHeight,           \* bound: the last height the node takes part in
  MaxRound,            \* bound: the last round it enters
  MaxTocks,            \* bound: expired timeouts that wait at the same time
  PeerVotes,           \* votes of others that peers may send
  PeerProposals,       \* proposals of others that peers may send
  PeerClaims,          \* claims of a +2/3 majority that peers may send
  Admissible(_)        \* sets of votes the other validators may cast together

Heights == InitialHeight..MaxHeight
Rounds == 0..MaxRound

StepNewHeight == 1
StepNewRound == 2
StepPropose == 3
StepPrevote == 4
StepPrevoteWait == 5
StepPrecommit == 6
StepPrecommitWait == 7
StepCommit == 8

VoteMsg(type, height, round, src, value) ==
  [kind |-> "vote", type |-> type, height |-> height, round |-> round,
   src |-> src, value |-> value]

ProposalMsg(height, round, src, pol, block) ==
  [kind |-> "proposal", height |-> height, round |-> round, src |-> src,
   pol |-> pol, block |-> block]

PartMsg(height, block, index) ==
  [kind |-> "part", height |-> height, block |-> block, index |-> index]

ASSUME ConsensusConstants ==
  /\ self \in Validators
  /\ Nil \in BlockIDs /\ Blocks = BlockIDs \ {Nil}
  /\ None \notin BlockIDs
  /\ self \in Peers       \* peerID "" of the node's own messages

VARIABLES
  cs,         \* the node's state: RoundState, queues and timer
  tocks,      \* expired timeouts that have not reached receiveRoutine
  txs,        \* the last height for which the mempool has announced txs
  sent        \* the votes of others that have been sent so far

vars == <<cs, tocks, txs, sent>>

(* NewState and updateToState on the genesis state, then scheduleRound0. *)
Init ==
  /\ cs = [height |-> InitialHeight, round |-> 0, step |-> StepNewHeight,
           proposal |-> None, proposalBlock |-> None, proposalParts |-> None,
           lockedRound |-> -1, lockedBlock |-> None,
           validRound |-> -1, validBlock |-> None,
           votes |-> NewHeightVoteSet, commitRound |-> -1, lastCommit |-> None,
           triggered |-> FALSE,
           queue |-> <<>>, spilled |-> {},
           timer |-> [ti |-> <<InitialHeight, 0, StepNewHeight>>, active |-> TRUE],
           store |-> <<>>, reported |-> {}, panicked |-> FALSE,
           votesAt |-> [h \in Heights |-> {}], roundAt |-> [h \in Heights |-> 0]]
  /\ tocks = {}
  /\ txs = 0
  /\ sent = {}
-----------------------------------------------------------------------------
Panic(s) == [s EXCEPT !.panicked = TRUE]

updateRoundStep(s, round, step) ==
  [s EXCEPT !.round = round, !.step = step, !.roundAt[s.height] = round]

Later_NewRoundOnly(new, old) == new[1] > old[1] \/ (new[1] = old[1] /\ new[2] > old[2])

(* ticker.go: a timeout replaces the timer only if it is for a later height, *)
(* round or step than the last one scheduled.                                *)
Later(new, old) ==
  \/ new[1] > old[1]
  \/ new[1] = old[1] /\ new[2] > old[2]
  \/ new[1] = old[1] /\ new[2] = old[2] /\ (old[3] = 0 \/ new[3] > old[3])

scheduleTimeout(s, height, round, step) ==
  IF Later(<<height, round, step>>, s.timer.ti)
  THEN [s EXCEPT !.timer = [ti |-> <<height, round, step>>, active |-> TRUE]]
  ELSE s

sendInternalMessages_DropWhenFull(s, msgs) ==
  LET room == QueueSize - Len(s.queue)
  IN  [s EXCEPT !.queue = @ \o SubSeq(msgs, 1, IF room < Len(msgs) THEN room ELSE Len(msgs))]

(* internalMsgQueue takes what fits; for each message that does not, a       *)
(* goroutine waits for room, so that their order is lost.                    *)
sendInternalMessages(s, msgs) ==
  LET room == QueueSize - Len(s.queue)
      fits == IF room < Len(msgs) THEN room ELSE Len(msgs)
  IN  [s EXCEPT !.queue = @ \o SubSeq(msgs, 1, fits),
                !.spilled = @ \cup {msgs[i] : i \in (fits + 1)..Len(msgs)}]

(* What the environment decides within one handler: the block a proposer     *)
(* builds, and whether signing works (a remote signer may not be there).     *)
Env == [block : NewBlocks, signs : Signs]

(* The vote is for the node's own round. *)
signAddVote(s, e, type, value) ==
  LET m == VoteMsg(type, s.height, s.round, self, value)
  IN  IF e.signs
      THEN [sendInternalMessages(s, <<m>>) EXCEPT !.votesAt[s.height] = @ \cup {m}]
      ELSE s

HashesTo(block, id) == block # None /\ block = id
HasHeader(parts, id) == parts # None /\ parts.block = id
NewPartSet(id) == [block |-> id, have |-> {}]
IsComplete(parts) == parts.have = 1..PartsTotal
FullParts(id) == [block |-> id, have |-> 1..PartsTotal]

unlock_RoundOnly(s) == [s EXCEPT !.lockedRound = -1]

unlock(s) == [s EXCEPT !.lockedRound = -1, !.lockedBlock = None]

isProposalComplete(s) ==
  /\ s.proposal # None
  /\ s.proposalBlock # None
  /\ s.proposal.pol < 0 \/ HasTwoThirdsMajority(Prevotes(s.votes, s.proposal.pol))
-----------------------------------------------------------------------------
(* Propose the valid block if there is one, else a new one. *)
decideProposal(s, e, height, round) ==
  LET block == IF s.validBlock # None THEN s.validBlock ELSE e.block
      canCreate == height = InitialHeight \/ HasTwoThirdsMajority(s.lastCommit.set)
  IN  IF (s.validBlock # None \/ canCreate) /\ e.signs
      THEN sendInternalMessages(s,
             <<ProposalMsg(height, round, self, s.validRound, block)>>
               \o [i \in 1..PartsTotal |-> PartMsg(height, block, i)])
      ELSE s

doPrevote_IgnoreLock(s, e) ==
  signAddVote(s, e, "prevote",
    IF s.proposalBlock \in ValidBlocks \cap AcceptedBlocks THEN s.proposalBlock ELSE Nil)

(* A locked node prevotes its lock; otherwise the proposal block, if it has  *)
(* one that it and the application accept; otherwise nil.                    *)
doPrevote(s, e) ==
  signAddVote(s, e, "prevote",
    IF s.lockedBlock # None THEN s.lockedBlock
    ELSE IF s.proposalBlock \in ValidBlocks \cap AcceptedBlocks THEN s.proposalBlock
    ELSE Nil)

enterPrevote(s, e, height, round) ==
  IF s.height # height \/ round < s.round \/ (round = s.round /\ s.step >= StepPrevote)
  THEN s
  ELSE updateRoundStep(doPrevote(s, e), round, StepPrevote)

enterPropose(s, e, height, round) ==
  IF s.height # height \/ round < s.round \/ (round = s.round /\ s.step >= StepPropose)
  THEN s
  ELSE LET s1 == scheduleTimeout(s, height, round, StepPropose)
           s2 == IF Proposer(height, round) = self THEN decideProposal(s1, e, height, round)
                 ELSE s1
           s3 == updateRoundStep(s2, round, StepPropose)
       IN  IF isProposalComplete(s3) THEN enterPrevote(s3, e, height, s3.round) ELSE s3

waitForTxs(height, round) ==
  WaitForTxs /\ round = 0 /\ height # InitialHeight /\ ~NeedProofBlock(height)

(* A later round starts without a proposal; round 0 keeps the one that may   *)
(* have come early.                                                          *)
enterNewRound(s, e, height, round) ==
  IF s.height # height \/ round < s.round \/ (round = s.round /\ s.step # StepNewHeight)
  THEN s
  ELSE LET s1 == [updateRoundStep(s, round, StepNewRound) EXCEPT
                    !.votes = SetRound(@, round + 1), !.triggered = FALSE]
           s2 == IF round = 0 THEN s1
                 ELSE [s1 EXCEPT !.proposal = None, !.proposalBlock = None,
                                 !.proposalParts = None]
       IN  IF ~waitForTxs(height, round) THEN enterPropose(s2, e, height, round)
           ELSE IF EmptyBlocksInterval THEN scheduleTimeout(s2, height, round, StepNewRound)
           ELSE s2

enterPrevoteWait(s, height, round) ==
  IF s.height # height \/ round < s.round \/ (round = s.round /\ s.step >= StepPrevoteWait)
  THEN s
  ELSE IF ~HasTwoThirdsAny(Prevotes(s.votes, round)) THEN Panic(s)
  ELSE updateRoundStep(scheduleTimeout(s, height, round, StepPrevoteWait), round, StepPrevoteWait)

(* +2/3 prevotes for block id: relock it, lock it, or unlock and fetch it. *)
precommitPolka(s, e, round, id) ==
  IF s.lockedBlock = id
  THEN signAddVote([s EXCEPT !.lockedRound = round], e, "precommit", id)
  ELSE IF s.proposalBlock = id
  THEN IF id \notin ValidBlocks THEN Panic(s)
       ELSE signAddVote([s EXCEPT !.lockedRound = round, !.lockedBlock = id], e, "precommit", id)
  ELSE LET s1 == IF HasHeader(s.proposalParts, id) THEN unlock(s)
                 ELSE [unlock(s) EXCEPT !.proposalBlock = None, !.proposalParts = NewPartSet(id)]
       IN  signAddVote(s1, e, "precommit", Nil)

doPrecommit(s, e, round) ==
  LET maj23 == Prevotes(s.votes, round).maj23
  IN  IF maj23 = NoVote THEN signAddVote(s, e, "precommit", Nil)
      ELSE IF POLRound(s.votes) < round THEN Panic(s)
      ELSE IF maj23 = Nil THEN signAddVote(unlock(s), e, "precommit", Nil)
      ELSE precommitPolka(s, e, round, maj23)

enterPrecommit(s, e, height, round) ==
  IF s.height # height \/ round < s.round \/ (round = s.round /\ s.step >= StepPrecommit)
  THEN s
  ELSE updateRoundStep(doPrecommit(s, e, round), round, StepPrecommit)

enterPrecommitWait(s, height, round) ==
  IF s.height # height \/ round < s.round \/ (round = s.round /\ s.triggered)
  THEN s
  ELSE IF ~HasTwoThirdsAny(Precommits(s.votes, round)) THEN Panic(s)
  ELSE [scheduleTimeout(s, height, round, StepPrecommitWait) EXCEPT !.triggered = TRUE]
-----------------------------------------------------------------------------
updateToState_VotesFirst(s) ==
  [s EXCEPT !.height = @ + 1, !.round = 0, !.step = StepNewHeight,
            !.proposal = None, !.proposalBlock = None, !.proposalParts = None,
            !.lockedRound = -1, !.lockedBlock = None,
            !.validRound = -1, !.validBlock = None,
            !.votes = NewHeightVoteSet,
            !.lastCommit = [round |-> s.commitRound,
                            set |-> Precommits(NewHeightVoteSet, s.commitRound)],
            !.commitRound = -1, !.triggered = FALSE]

(* The next height; the precommits that decided this one become LastCommit. *)
updateToState(s) ==
  [s EXCEPT !.height = @ + 1, !.round = 0, !.step = StepNewHeight,
            !.proposal = None, !.proposalBlock = None, !.proposalParts = None,
            !.lockedRound = -1, !.lockedBlock = None,
            !.validRound = -1, !.validBlock = None,
            !.lastCommit = [round |-> s.commitRound,
                            set |-> Precommits(s.votes, s.commitRound)],
            !.votes = NewHeightVoteSet, !.commitRound = -1, !.triggered = FALSE]

(* SaveBlock, ApplyVerifiedBlock, updateToState, scheduleRound0. *)
finalizeCommit(s) ==
  IF s.step # StepCommit THEN s
  ELSE IF ~HasHeader(s.proposalParts, s.proposalBlock) \/ s.proposalBlock \notin ValidBlocks
  THEN Panic(s)
  ELSE scheduleTimeout(updateToState([s EXCEPT !.store = Append(@, s.proposalBlock)]),
                       s.height + 1, 0, StepNewHeight)

tryFinalizeCommit(s, height) ==
  LET maj23 == Precommits(s.votes, s.commitRound).maj23
  IN  IF s.height # height THEN Panic(s)
      ELSE IF maj23 \in {NoVote, Nil} \/ ~HashesTo(s.proposalBlock, maj23) THEN s
      ELSE finalizeCommit(s)

enterCommit(s, height, commitRound) ==
  LET maj23 == Precommits(s.votes, commitRound).maj23
      s1 == IF HashesTo(s.lockedBlock, maj23)
            THEN [s EXCEPT !.proposalBlock = maj23, !.proposalParts = FullParts(maj23)]
            ELSE s
      s2 == IF HashesTo(s1.proposalBlock, maj23) \/ HasHeader(s1.proposalParts, maj23) THEN s1
            ELSE [s1 EXCEPT !.proposalBlock = None, !.proposalParts = NewPartSet(maj23)]
  IN  IF s.height # height \/ s.step >= StepCommit THEN s
      ELSE IF maj23 = NoVote THEN Panic(s)
      ELSE tryFinalizeCommit([updateRoundStep(s2, s.round, StepCommit) EXCEPT
                                !.commitRound = commitRound], height)
-----------------------------------------------------------------------------
(* Only the proposer's first proposal of the node's height and round counts. *)
setProposal(s, m) ==
  IF \/ s.proposal # None
     \/ m.height # s.height
     \/ m.round # s.round
     \/ m.pol < -1 \/ (m.pol >= 0 /\ m.pol >= m.round)
     \/ m.src # Proposer(s.height, s.round)
  THEN s
  ELSE [s EXCEPT !.proposal = [pol |-> m.pol, block |-> m.block],
                 !.proposalParts = IF @ = None THEN NewPartSet(m.block) ELSE @]

handleCompleteProposal(s, e, height) ==
  LET maj23 == Prevotes(s.votes, s.round).maj23
      s1 == IF /\ maj23 \notin {NoVote, Nil}
               /\ s.validRound < s.round
               /\ HashesTo(s.proposalBlock, maj23)
            THEN [s EXCEPT !.validRound = s.round, !.validBlock = maj23]
            ELSE s
      s2 == enterPrevote(s1, e, height, s1.round)
  IN  IF s1.step <= StepPropose /\ isProposalComplete(s1)
      THEN IF maj23 # NoVote THEN enterPrecommit(s2, e, height, s2.round) ELSE s2
      ELSE IF s1.step = StepCommit THEN tryFinalizeCommit(s1, height)
      ELSE s1

(* The proof of a part is checked against the header the node waits for. *)
addProposalBlockPart(s, e, m) ==
  LET s1 == [s EXCEPT !.proposalParts.have = @ \cup {m.index}]
      s2 == IF m.block \in DecodableBlocks THEN [s1 EXCEPT !.proposalBlock = m.block] ELSE s1
  IN  IF \/ m.height # s.height
         \/ ~HasHeader(s.proposalParts, m.block)
         \/ m.index \in s.proposalParts.have
      THEN s
      ELSE IF IsComplete(s1.proposalParts) THEN handleCompleteProposal(s2, e, m.height)
      ELSE s1
-----------------------------------------------------------------------------
(* tryAddVote hands two conflicting votes of another validator to the        *)
(* evidence pool, whether or not the second one was added.                   *)
reportConflict(s, m, conflicting) ==
  IF conflicting = NoVote \/ m.src = self THEN s
  ELSE [s EXCEPT !.reported = @ \cup {<<m, conflicting>>}]

(* The vote is in the sets now (votesAt also keeps it after the height). *)
recordVote(s, m) == [s EXCEPT !.votesAt[m.height] = @ \cup {m}]

(* A precommit of the previous height, while waiting for the next round 0. *)
addLastCommitVote(s, e, m) ==
  LET res == AddVote(s.lastCommit.set, m.src, m.value)
      s1 == reportConflict([s EXCEPT !.lastCommit.set = res.set], m, res.conflicting)
      s2 == recordVote(s1, m)
  IN  IF s.step # StepNewHeight \/ m.round # s.lastCommit.round THEN s
      ELSE IF ~res.added THEN s1
      ELSE IF SkipTimeoutCommit /\ HasAll(res.set) THEN enterNewRound(s2, e, s2.height, 0)
      ELSE s2

onPolka_KeepBlock(s, round, maj23) ==
  LET s1 == IF s.lockedBlock \notin {None, maj23} /\ s.lockedRound < round /\ round <= s.round
            THEN unlock(s) ELSE s
      s2 == IF HashesTo(s1.proposalBlock, maj23)
            THEN [s1 EXCEPT !.validRound = round, !.validBlock = maj23] ELSE s1
      s3 == IF HasHeader(s2.proposalParts, maj23) THEN s2
            ELSE [s2 EXCEPT !.proposalParts = NewPartSet(maj23)]
  IN  IF maj23 # Nil /\ s.validRound < round /\ round = s.round THEN s3 ELSE s1

(* +2/3 prevotes for maj23 in round: unlock, and remember a valid block. *)
onPolka(s, round, maj23) ==
  LET s1 == IF /\ s.lockedBlock \notin {None, maj23}
               /\ s.lockedRound < round /\ round <= s.round
            THEN unlock(s) ELSE s
      s2 == IF HashesTo(s1.proposalBlock, maj23)
            THEN [s1 EXCEPT !.validRound = round, !.validBlock = maj23]
            ELSE [s1 EXCEPT !.proposalBlock = None]
      s3 == IF HasHeader(s2.proposalParts, maj23) THEN s2
            ELSE [s2 EXCEPT !.proposalParts = NewPartSet(maj23)]
  IN  IF maj23 # Nil /\ s.validRound < round /\ round = s.round THEN s3 ELSE s1

onPrevote(s0, e, round) ==
  LET prevotes == Prevotes(s0.votes, round)
      maj23 == prevotes.maj23
      s == IF maj23 = NoVote THEN s0 ELSE onPolka(s0, round, maj23)
      height == s.height
  IN  IF s.round < round
      THEN IF HasTwoThirdsAny(prevotes) THEN enterNewRound(s, e, height, round) ELSE s
      ELSE IF s.round = round /\ s.step >= StepPrevote
      THEN IF maj23 = Nil \/ (maj23 # NoVote /\ isProposalComplete(s))
           THEN enterPrecommit(s, e, height, round)
           ELSE IF HasTwoThirdsAny(prevotes) THEN enterPrevoteWait(s, height, round)
           ELSE s
      ELSE IF s.proposal # None /\ s.proposal.pol = round /\ isProposalComplete(s)
      THEN enterPrevote(s, e, height, s.round)
      ELSE s

onPrecommit(s, e, round) ==
  LET precommits == Precommits(s.votes, round)
      height == s.height
      s1 == enterNewRound(s, e, height, round)
      s2 == enterPrecommit(s1, e, height, round)
      s3 == enterCommit(s2, height, round)
  IN  IF precommits.maj23 = Nil THEN enterPrecommitWait(s2, height, round)
      ELSE IF precommits.maj23 # NoVote
      THEN IF SkipTimeoutCommit /\ HasAll(precommits) THEN enterNewRound(s3, e, s3.height, 0)
           ELSE s3
      ELSE IF s.round <= round /\ HasTwoThirdsAny(precommits)
      THEN enterPrecommitWait(s1, height, round)
      ELSE s

addVote(s, e, m, peer) ==
  LET res == AddRoundVote(s.votes, peer, m.round, m.type, m.src, m.value)
      s1 == reportConflict([s EXCEPT !.votes = res.set], m, res.conflicting)
      s2 == recordVote(s1, m)
  IN  IF m.height + 1 = s.height /\ m.type = "precommit" THEN addLastCommitVote(s, e, m)
      ELSE IF m.height # s.height THEN s
      ELSE IF ~res.added THEN s1
      ELSE IF m.type = "prevote" THEN onPrevote(s2, e, m.round)
      ELSE onPrecommit(s2, e, m.round)

handleMsg(s, e, m, peer) ==
  CASE m.kind = "proposal" -> setProposal(s, m)
    [] m.kind = "part" -> addProposalBlockPart(s, e, m)
    [] m.kind = "vote" -> addVote(s, e, m, peer)

handleTimeout(s, e, ti) ==
  LET height == ti[1]
      round == ti[2]
      step == ti[3]
  IN  IF height # s.height \/ round < s.round \/ (round = s.round /\ step < s.step) THEN s
      ELSE CASE step = StepNewHeight -> enterNewRound(s, e, height, 0)
             [] step = StepNewRound -> enterPropose(s, e, height, round)
             [] step = StepPropose -> enterPrevote(s, e, height, round)
             [] step = StepPrevoteWait -> enterPrecommit(s, e, height, round)
             [] step = StepPrecommitWait ->
                  enterNewRound(enterPrecommit(s, e, height, round), e, height, round + 1)

handleTxsAvailable(s, e) ==
  IF s.round # 0 THEN s
  ELSE IF s.step = StepNewHeight
  THEN IF s.height = InitialHeight \/ NeedProofBlock(s.height) THEN s
       ELSE scheduleTimeout(s, s.height, 0, StepNewRound)
  ELSE IF s.step = StepNewRound THEN enterPropose(s, e, s.height, 0)
  ELSE s
-----------------------------------------------------------------------------
(* receiveRoutine, one action for each kind of input.                        *)
Running == ~cs.panicked /\ cs.height <= MaxHeight

ReceiveVote(peer, m) ==
  /\ Running
  /\ Admissible(sent \cup {m})
  /\ sent' = sent \cup {m}
  /\ \E e \in Env : cs' = handleMsg(cs, e, m, peer)
  /\ UNCHANGED <<tocks, txs>>

ReceiveProposal(m) ==
  /\ Running
  /\ \E e \in Env : cs' = handleMsg(cs, e, m, None)
  /\ UNCHANGED <<tocks, txs, sent>>

ReceivePart(block, index) ==
  /\ Running
  /\ \E e \in Env : cs' = handleMsg(cs, e, PartMsg(cs.height, block, index), None)
  /\ UNCHANGED <<tocks, txs, sent>>

HandleInternal ==
  /\ Running
  /\ cs.queue # <<>>
  /\ \E e \in Env : cs' = handleMsg([cs EXCEPT !.queue = Tail(@)], e, Head(cs.queue), self)
  /\ UNCHANGED <<tocks, txs, sent>>

(* A goroutine of sendInternalMessage finds room in the queue. *)
PushSpilled(m) ==
  /\ Len(cs.queue) < QueueSize
  /\ cs' = [cs EXCEPT !.queue = Append(@, m), !.spilled = @ \ {m}]
  /\ UNCHANGED <<tocks, txs, sent>>

(* timeoutRoutine: the timer expires, a goroutine sends the tock. *)
TimerExpires ==
  /\ cs.timer.active
  /\ Cardinality(tocks) < MaxTocks
  /\ cs' = [cs EXCEPT !.timer.active = FALSE]
  /\ tocks' = tocks \cup {cs.timer.ti}
  /\ UNCHANGED <<txs, sent>>

(* Bound: the timeouts that would lead to a round beyond MaxRound. *)
LastTocks == {ti \in tocks : ti[2] = MaxRound /\ ti[3] = StepPrecommitWait}

ReceiveTock(ti) ==
  /\ Running
  /\ tocks' = tocks \ {ti}
  /\ \E e \in Env : cs' = handleTimeout(cs, e, ti)
  /\ UNCHANGED <<txs, sent>>

(* The mempool announces transactions once per height. *)
TxsAvailable ==
  /\ Running
  /\ WaitForTxs
  /\ txs < cs.height
  /\ txs' = cs.height
  /\ \E e \in Env : cs' = handleTxsAvailable(cs, e)
  /\ UNCHANGED <<tocks, sent>>

(* A VoteSetMaj23 message: the reactor updates the vote sets directly. *)
ReceiveMaj23(peer, c) ==
  /\ Running
  /\ c.height = cs.height
  /\ cs' = [cs EXCEPT !.votes = SetRoundPeerMaj23(@, peer, c.round, c.type, c.value)]
  /\ UNCHANGED <<tocks, txs, sent>>

Next ==
  \/ \E p \in Peers \ {self}, m \in PeerVotes : ReceiveVote(p, m)
  \/ \E m \in PeerProposals : ReceiveProposal(m)
  \/ \E b \in Blocks, i \in 1..PartsTotal : ReceivePart(b, i)
  \/ HandleInternal
  \/ \E m \in cs.spilled : PushSpilled(m)
  \/ TimerExpires
  \/ \E ti \in tocks \ LastTocks : ReceiveTock(ti)
  \/ TxsAvailable
  \/ \E p \in Peers \ {self}, c \in PeerClaims : ReceiveMaj23(p, c)

Spec == Init /\ [][Next]_vars

(* The runtime serves every goroutine that can run, and the select of        *)
(* receiveRoutine every channel that has something: the head of the internal *)
(* queue is handled, a spilled message is queued, the timer expires and a    *)
(* tock is received.  WF_vars of the four actions, in a form in which TLC    *)
(* need not run the handlers to see whether a step is one of them.           *)
Fairness ==
  /\ []<>~(Running /\ cs.queue # <<>>) \/ []<><<~IsPrefix(cs.queue, cs'.queue)>>_vars
  /\ []<>(cs.spilled = {} \/ Len(cs.queue) = QueueSize) \/ []<><<~(cs.spilled \subseteq cs'.spilled)>>_vars
  /\ []<>~(cs.timer.active /\ Cardinality(tocks) < MaxTocks) \/ []<><<cs.timer.active /\ ~cs'.timer.active>>_vars
  /\ []<>~(Running /\ tocks \ LastTocks # {}) \/ []<><<~(tocks \subseteq tocks')>>_vars

FairSpec == Spec /\ Fairness
-----------------------------------------------------------------------------
PartsType == [block : Blocks, have : SUBSET (1..PartsTotal)]

TypeOK ==
  /\ cs.height \in InitialHeight..(MaxHeight + 1)
  /\ cs.round \in Rounds
  /\ cs.step \in StepNewHeight..StepCommit \ {StepPrecommitWait}
  /\ cs.proposal \in [pol : -1..MaxRound, block : Blocks] \cup {None}
  /\ cs.proposalBlock \in Blocks \cup {None}
  /\ cs.proposalParts \in PartsType \cup {None}
  /\ cs.lockedBlock \in Blocks \cup {None} /\ cs.lockedRound \in -1..MaxRound
  /\ cs.validBlock \in Blocks \cup {None} /\ cs.validRound \in -1..MaxRound
  /\ cs.votes.round \in 0..(MaxRound + 1)
  /\ \A r \in DOMAIN cs.votes.sets :
       cs.votes.sets[r] \in [prevote : VoteSetType, precommit : VoteSetType]
  /\ cs.commitRound \in -1..MaxRound
  /\ cs.triggered \in BOOLEAN
  /\ Len(cs.queue) <= QueueSize
  /\ cs.store \in Seq(Blocks)

Voting(h) == INSTANCE Tendermint WITH
  Faulty <- Validators \ {self},
  InitialVotes <- {},
  round <- [v \in {self} |-> cs.roundAt[h]],
  votes <- {[type |-> m.type, src |-> m.src, round |-> m.round, value |-> m.value] :
              m \in cs.votesAt[h]}

(* The votes of others that a step adds. *)
VotesSeen(h) ==
  {[type |-> m.type, src |-> m.src, round |-> m.round, value |-> m.value] :
     m \in {n \in cs.votesAt'[h] \ cs.votesAt[h] : n.src # self}}

(* The node's votes obey the voting rules on every height, whatever the other*)
(* validators vote and in whatever order messages and timeouts are handled:  *)
(* each step that changes its votes is Voting(h)!CorrectStep(self), the      *)
(* votes it sees being the ones that the handler added.                      *)
FollowsVotingRules ==
  /\ \A h \in Heights : Voting(h)!Init
  /\ [][\A h \in Heights :
         \/ Voting(h)!Handle(self, VotesSeen(h)) /\ VotesSeen(h) \in Voting(h)!SeenVotes
         \/ UNCHANGED Voting(h)!vars]_vars

(* receiveRoutine never stops with CONSENSUS FAILURE!!! while less than a    *)
(* third of the voting power is faulty.                                      *)
NeverPanics == ~cs.panicked

(* The round state is of its type and consistent, in whatever order messages *)
(* and timeouts come: the proposal block and the part set are about the same *)
(* block, complete parts are never left without their block, and in step     *)
(* Commit the node waits for the parts of the decided block and of no other  *)
(* (addProposalBlockPart, enterCommit, addVote).                             *)
RoundStateIsSound ==
  /\ TypeOK
  /\ cs.proposalBlock # None => cs.proposalParts = FullParts(cs.proposalBlock)
  /\ /\ cs.proposalParts # None
     /\ cs.proposalParts.block \in DecodableBlocks
     /\ IsComplete(cs.proposalParts)
     => cs.proposalBlock # None
  /\ cs.step = StepCommit =>
       /\ Precommits(cs.votes, cs.commitRound).maj23 \in Blocks
       /\ HasHeader(cs.proposalParts, Precommits(cs.votes, cs.commitRound).maj23)

(* The lock and the valid block are backed by +2/3 prevotes in their round.  *)
LockAndValidAreBacked ==
  /\ cs.lockedBlock # None => Prevotes(cs.votes, cs.lockedRound).maj23 = cs.lockedBlock
  /\ cs.validBlock # None => Prevotes(cs.votes, cs.validRound).maj23 = cs.validBlock
  /\ cs.lockedRound <= cs.round /\ cs.validRound <= cs.round

(* A committed block has +2/3 precommits in one round of its height, and     *)
(* LastCommit is such a set of precommits for the last block.                *)
CommitsAreBacked ==
  /\ \A i \in DOMAIN cs.store :
       Voting(InitialHeight + i - 1)!Decided = {cs.store[i]}
  /\ cs.store # <<>> => cs.lastCommit.set.maj23 = cs.store[Len(cs.store)]

At(h, r, step) == cs.height = h /\ cs.round = r /\ cs.step = step

(* Every wait of the node ends: the step's timeout fires and moves it on, or *)
(* something else did before; and after any +2/3 precommits of its round it  *)
(* enters the next one, unless it commits.  (The bound stops the last round.)*)
WaitsEnd ==
  \A h \in Heights, r \in 0..(MaxRound - 1) :
    /\ \A step \in {StepNewHeight, StepPropose, StepPrevoteWait} :
         At(h, r, step) ~> ~At(h, r, step)
    /\ (cs.height = h /\ cs.round = r /\ cs.triggered) ~>
         (cs.height > h \/ cs.round > r \/ cs.step = StepCommit)

(* Every vote the node signs is counted in its own vote sets in the end, or  *)
(* the height is over: the internal queue loses no message when it is full.  *)
OwnVotesAreCounted ==
  \A h \in Heights, r \in Rounds, t \in {"prevote", "precommit"}, x \in BlockIDs :
    VoteMsg(t, h, r, self, x) \in cs.votesAt[h] ~>
      (cs.height > h \/ KnowsVote(getVoteSet(cs.votes, r, t), self, x))
=============================================================================
