SPECIFICATION FairSpec
CONSTANTS
  Procs = {1, 2, 3}
  PidOf <- RecycledPid
  MAX_WORKERS = 2
  MAX_PROCESSES = 2
  MaxDeaths = 1
  MaxSupervisors = 2
INVARIANTS TypeOK ProcSlotsExclusive RegisteredIsListed WorkerSlotsExclusive NothingWiped
CHECK_DEADLOCK FALSE
PROPERTY CallReturns
