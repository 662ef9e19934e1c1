SPECIFICATION Spec
CONSTANTS
  Name = {1}
  MaxVersion = 2
  MaxEdits = 1
  Ships <- SameShips
  Carries <- NoneCarried
  Owner <- OwnedBySetup
  Roles = {}
  Fingerprint <- OneFingerprint
INVARIANTS
  EditsCanBeReapplied
CHECK_DEADLOCK FALSE
