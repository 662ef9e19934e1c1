SPECIFICATION FairSpec
CONSTANTS
  Session = {s1, s2, s3}
INVARIANTS
  TypeOK
  DoubleRunNeedsExposure
  OneActive
  WorkingRunIsLocked
PROPERTY
  ProjectNotShutOut
