SPECIFICATION FairSpec
CONSTANTS
  MaxHeight = 3
  MaxCrashes = 3
  AppLoss = 2
INVARIANTS
  NeverFails
  ExecutesOnceInOrder
  StoresAreConsistent
  LockRecovered
PROPERTY
  Recovers
CHECK_DEADLOCK FALSE
