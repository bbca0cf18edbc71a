SPECIFICATION Spec
CONSTANTS
  Cards <- TwoCards
  LeftIn = {"command", "id", "block", "idblock"}
  MaxFaults = 1
CHECK_DEADLOCK FALSE
INVARIANT OnlyALostFourMisreads
INVARIANT ModeIsTrue
INVARIANT FourthIsRecognised
