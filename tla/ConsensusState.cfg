SPECIFICATION Spec
CONSTANTS
  self = self
  p = p
  q = q
  peer = peer
  a = a
  b = b
  MaxPeerVotes = 4
  Nil = Nil
  None = None
  NoVote = NoVote
  Validators = {self, p, q}
  PowerOf <- PowerOfDef
  Peers = {self, peer}
  BlockIDs = {a, b, Nil}
  Blocks = {a, b}
  ValidBlocks = {a, b}
  AcceptedBlocks = {a, b}
  DecodableBlocks = {a, b}
  PartsTotal = 1
  NewBlocks = {b}
  Signs = {TRUE}
  Proposer <- ProposerDef
  NeedProofBlock <- Always
  WaitForTxs = FALSE
  EmptyBlocksInterval = FALSE
  SkipTimeoutCommit = FALSE
  QueueSize = 3
  InitialHeight = 1
  MaxHeight = 1
  MaxRound = 1
  MaxTocks = 1
  PeerVotes <- EquivocatingVotes
  PeerProposals <- ProposalsOfP
  PeerClaims <- ClaimForB
  Admissible <- FollowRules
CHECK_DEADLOCK FALSE
INVARIANTS
  NeverPanics
  RoundStateIsSound
  LockAndValidAreBacked
PROPERTY FollowsVotingRules
