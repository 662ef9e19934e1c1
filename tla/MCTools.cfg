CONSTANTS
  Name = {1}
  MaxVersion = 2
  MaxEdits = 2
  Ships <- SmallShips
  Carries <- SmallCarries
  Owner <- SmallOwner
  Roles <- SmallRoles
  Fingerprint <- SmallFingerprint
  Ticket = {t1, t2}
  Ambiguous = {t2}
  PerMinute = 2
  FirstTime = 1
  MaxTime = 2
  MaxRuns = 2
  MaxPlan = 2
  Other = {board}
  MaxRework = 1
  Hook = {h1, h2}
  DEBOUNCE_CALLS = 2
  MaxSilent = 2
  MaxRows = 4
  Id = {i1, i2}
  MaxRound = 3
  Tag = {div, p}
  MaxSiblings = 3
  Pages <- SmallPages
  VariantId = {v1}
  MaxPosts = 1
SYMMETRY Symmetry
CHECK_DEADLOCK FALSE
SPECIFICATION Spec
INVARIANTS
  TypeOK
  EditsSurvive
  OwnWorkReported
  QualityKept
  BatchSummaryHolds
  WarnedInTime
  StoredIsReadBack
  PickResolves
