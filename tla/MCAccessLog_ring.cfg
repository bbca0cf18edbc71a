CONSTANTS
  MaxRecords = 3
  Records = {r1, r2}
  Erased = Erased
  ErasedHalfword = 5
  ErasedWord = 3
  SeqModulus = 4
  Faults = {}
SPECIFICATION Spec
INVARIANT KeepsRecords
