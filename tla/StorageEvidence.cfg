SPECIFICATION Spec
CONSTANTS
  None = None
  v1 = v1
  v2 = v2
  p1 = p1
  p2 = p2
  ValidatorSets = {v1, v2}
  Params = {p1, p2}
  CheckpointInterval = 2
  FlushInterval = 10
  EvidenceAge = 1
  InitialValidators = {v1}
  InitialParams = {p1}
  Updates <- SomeUpdates
  MaxHeight = 4
  SnapshotHeights = {}
INVARIANT EvidenceValidatorsKept
CHECK_DEADLOCK FALSE
