\* State sync, then block sync, from two peers of which one is faulty.
SPECIFICATION FairSpec
CONSTANTS
  honest = honest
  liar = liar
  None = None
  Nothing = Nothing
  NoOne = NoOne
  Peers = {honest, liar}
  Faulty = {liar}
  Ranges <- TheRanges
  MaxRequesters = 2
  MinBlocks = 1
  Extensions = TRUE
  Blocking = {2}
  Faults = {"lost", "slow", "late", "bad block", "no block", "stop"}
  MaxFaults = 2
  StatePeers = {honest, liar}
  Liars = {liar}
  Snapshots <- TheSnapshots
  Offered <- TheOffers
  Fetchers = {f1, f2}
  recentSnapshots = 2
  Wishes = 1
  Mishaps = 1
INVARIANTS
  PoolIsSound
  RestoresCompletely
  RejectedStayOut
PROPERTY SyncEnds
CHECK_DEADLOCK FALSE
