SPECIFICATION Spec
CONSTANTS
  TaskNum = 3
  Rate <- Rates
  Wrap = 32
  Blocking = 3
  Horizon = 40
INVARIANT NeverTooOften
INVARIANT OverdueOnlyAtTheWrap
