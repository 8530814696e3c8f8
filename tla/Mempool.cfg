SPECIFICATION FairSpec
CONSTANTS
  None = None
  t1 = t1
  t2 = t2
  Txs = {t1, t2}
  rpc = rpc
  Offers <- SomeOffers
  Peer = p
  p = p
  Clients = {"local", "socket"}
  Size = 2
  CacheSize = 1
  StartHeight = 1
  MaxHeight = 2
  MaxCalls = 2
INVARIANTS
  NeverPanics
  PoolIsValid
  RejectedIsForgotten
  TxsAreAnnounced
CHECK_DEADLOCK FALSE
PROPERTIES
  ChecksAndCommitsEnd
  TxsReachPeer
