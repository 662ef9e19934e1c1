SPECIFICATION Spec
CONSTANTS
  Session = {s1, s2}
INVARIANT
  LockPreventsDoubleRun
