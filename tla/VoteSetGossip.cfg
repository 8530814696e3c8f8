SPECIFICATION FairSpec
CONSTANTS
  v1 = v1
  v2 = v2
  v3 = v3
  v4 = v4
  Validators = {v1, v2, v3, v4}
  PowerOf <- PowerOfDef
  BlockIDs = {a, b}
  NoVote = NoVote
  Peers = {p, q}
  Faulty = {v4}
INVARIANTS
  TalliesAreRight
  CommitCarriesQuorum
  MajorityIsUnique
PROPERTIES
  ClaimedMajorityIsFound
