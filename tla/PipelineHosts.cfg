SPECIFICATION FairSpec
CONSTANTS
  Ticket = {t1}
  NoTicket = NoTicket
  Trunk = Trunk
  Base = Base
  Hosts = {"known", "override"}
  Modes = {"afk", "interactive", "dryRun"}
  MaxRework = 1
  MaxCandidates = 1
  MaxWork = 2
  MaxReviews = 1
  MaxClosed = 1
  MaxCrashes = 1
  MaxRequeues = 1
PROPERTIES
  PushedGetsPr
INVARIANTS
  TypeOK
  LogNeverLeads
