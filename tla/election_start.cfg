SPECIFICATION FreshSpec
CONSTANTS
  Supervisors = {1, 2}
  PidOf <- OwnPid
  OtherPids = {}
  MAX_MANAGERS = 2
  Timely = TRUE
  RegistryOpens = TRUE
  MaxForeign = 0
  MaxFailures = 0
INVARIANTS OneManagerPerPod
