SPECIFICATION EstablishedFairSpec
CONSTANTS
  Supervisors = {1, 2, 3}
  PidOf <- RecycledPid
  OtherPids = {10}
  MAX_MANAGERS = 2
  Timely = TRUE
  RegistryOpens = FALSE
  MaxForeign = 1
  MaxFailures = 2
INVARIANTS TypeOK TwoManagersHaveACause  OneSlotPerPod
PROPERTY RoleRecovered
CHECK_DEADLOCK FALSE
