SPECIFICATION Spec
CONSTANTS
  Ticket = {t1, t2}
  NoTicket = NoTicket
  Trunk = Trunk
  Base = Base
  Hosts = {"known"}
  Modes = {"afk"}
  MaxRework = 1
  MaxCandidates = 1
  MaxWork = 1
  MaxReviews = 1
  MaxClosed = 0
  MaxCrashes = 1
  MaxRequeues = 0
SYMMETRY Tickets
INVARIANTS
  ReworkBounded
  LockFindsItsBranch
  SessionOnItsBranch
PROPERTIES
  ImplementsLedger
