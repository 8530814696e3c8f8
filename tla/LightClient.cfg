SPECIFICATION FairSpec
CONSTANTS
  p = p
  w = w
  x = x
  NoBlock = "NoBlock"
  Benign = "Benign"
  Malicious = "Malicious"
  Heights = {1, 4, 5}
  Chain = {"c1", "c2", "c3", "c4", "c5"}
  Header <- MCHeader
  Forged = {"two", "few", "low"}
  Corrupt <- MCCorrupt
  PowerOf <- MCPowerOf
  Validators = {1, 2, 3, 4, 5, 6, 7, 8, 9}
  Root = "c2"
  TrustingPeriod = 4
  MaxClockDrift = 1
  PruningSize = 3
  Times = {5, 6}
  Worlds <- MCWorlds
INVARIANT StoredIsCanonical
PROPERTY CallEnds
CHECK_DEADLOCK FALSE
