SPECIFICATION FairSpec
CONSTANTS
  Ticket = {t1, t2, t3}
  t1 = t1
  t2 = t2
  t3 = t3
  NoTicket = NoTicket
  Queues <- BuildQueues
  MaxIterations = 2
  MAX_ITERATIONS_CAP = 100
  MaxBatch = 2
  MaxRounds = 2
  MaxCrashes = 1
  Day = 3
  Minute = 2
INVARIANTS TypeOK OnlyGreenRuns OneGradeAtStake
PROPERTIES QuietRespected LoopEnds
