SPECIFICATION Spec
CONSTANTS
  Process = {p1, p2, p3}
  Stamp = {d1, d2}
  NoText = NoText
SYMMETRY Renamings
INVARIANTS
  TypeOK
  TwoServersNeedExposure
  HolderHasLock
