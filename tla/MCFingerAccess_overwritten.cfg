SPECIFICATION Spec
CONSTANTS
  Fingers = {f1, f2}
  NoFinger = NoFinger
  Pages = {1, 2, 3}
  Checksum = 1
  MaxUsers = 2
  AtFirst = {}
  MaxAdded = 2
  FpMaxAttempts = 2
  Faults = {}
  MaxFaults = 0
PROPERTY EnrolmentKeepsOthers
