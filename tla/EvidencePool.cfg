SPECIFICATION Spec
CONSTANTS
  c = c
  l = l
  Nothing = Nothing
  Evidence <- MCEvidence
  HeightOf <- MCHeightOf
  Conflicts = {c}
  LightAttacks = {l}
  MaxAge = 1
  MaxHeight = 5
  Adders = {a1, a2}
  MaxSize = 2
  Prunable = {1, 2}
  MaxCrashes = 2
SYMMETRY MCSymmetry
INVARIANTS CommittedIsMarked ConflictsAreKept PendingIsProposed
PROPERTY PendingIsKept
CHECK_DEADLOCK FALSE
