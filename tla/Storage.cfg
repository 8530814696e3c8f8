SPECIFICATION Spec
CONSTANTS
  None = None
  v1 = v1
  v2 = v2
  p1 = p1
  p2 = p2
  ValidatorSets = {v1, v2}
  Params = {p1, p2}
  CheckpointInterval = 2
  FlushInterval = 2
  EvidenceAge = 1
  InitialValidators = {v1}
  InitialParams = {p1}
  Updates <- SomeUpdates
  MaxHeight = 4
  SnapshotHeights = {1}
INVARIANTS
  HistoryLoads
  StateMatchesHistory
  NeededIsKept
CHECK_DEADLOCK FALSE
