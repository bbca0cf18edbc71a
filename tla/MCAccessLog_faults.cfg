CONSTANTS
  MaxRecords = 3
  Records = {r1, r2}
  Erased = Erased
  ErasedHalfword = 5
  ErasedWord = 3
  SeqModulus = 4
  Faults = {"power", "flash"}
SPECIFICATION Spec
INVARIANT TypeOK
INVARIANT IndicesAgree
INVARIANT LatestSurvives
