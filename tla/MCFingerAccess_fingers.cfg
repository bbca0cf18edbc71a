SPECIFICATION Spec
CONSTANTS
  Fingers = {f1, f2}
  NoFinger = NoFinger
  Pages = {1, 2, 3}
  Checksum = 1
  MaxUsers = 2
  AtFirst = {1}
  MaxAdded = 2
  FpMaxAttempts = 2
  Faults = {"late", "lost", "cut"}
  MaxFaults = 1
SYMMETRY FingersAlike
INVARIANT BoundIsOwners
INVARIANT OnlyTheOwner
INVARIANT OneUserPerTemplate
PROPERTY FaultsKeepTemplates
