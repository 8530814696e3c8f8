SPECIFICATION Spec
CONSTANTS
  Heights = {1, 2}
  Rounds = {0, 1}
  Payloads = {nil, a}
  NilPayload = nil
  Times = {1, 2}
  MaxSigs = 3
INVARIANTS
  NoDoubleSign
  ReleasedIsPersisted
