SPECIFICATION Spec
CONSTANTS
  c1 = c1
  c2 = c2
  c3 = c3
  f1 = f1
  a = a
  b = b
  Validators = {c1, c2, c3, f1}
  PowerOf <- PowerOfDef
  Blocks = {a, b}
  Nil = Nil
  MaxRound = 1
  Faulty = {f1}
  InitialVotes <- AllFaultyVotes
SYMMETRY Symmetry
INVARIANT LockPreventsPolka
PROPERTY DecidesOnce
