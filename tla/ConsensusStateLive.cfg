SPECIFICATION FairSpec
CONSTANTS
  self = self
  p = p
  q = q
  peer = peer
  a = a
  b = b
  MaxPeerVotes = 3
  Nil = Nil
  None = None
  NoVote = NoVote
  Validators = {self, p, q}
  PowerOf <- PowerOfDef
  Peers = {self, peer}
  BlockIDs = {a, Nil}
  Blocks = {a}
  ValidBlocks = {a}
  AcceptedBlocks = {a}
  DecodableBlocks = {a}
  PartsTotal = 1
  NewBlocks = {a}
  Signs = {TRUE}
  Proposer <- ProposerByHeight
  NeedProofBlock <- Never
  WaitForTxs = TRUE
  EmptyBlocksInterval = TRUE
  SkipTimeoutCommit = TRUE
  QueueSize = 1
  InitialHeight = 1
  MaxHeight = 2
  MaxRound = 1
  MaxTocks = 1
  PeerVotes <- VotesOfP
  PeerProposals <- ProposalsOfP
  PeerClaims = {}
  Admissible <- FollowRules
CHECK_DEADLOCK FALSE
INVARIANT CommitsAreBacked
PROPERTIES
  WaitsEnd
  OwnVotesAreCounted
