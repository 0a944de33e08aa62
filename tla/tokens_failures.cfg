SPECIFICATION FairSpec
CONSTANTS
  Clients = {c1}
  Threads = {t1, t2}
  ClientOf <- OneProcess
  MaxTokens = 1
  TOKEN_MOD = 4
  MaxBatch = 3
  MaxFailures = 1
  Nobody = Nobody
INVARIANTS SampleOfThisBatch OverGrantAtMostOne
PROPERTY SleepersWake
CHECK_DEADLOCK FALSE
