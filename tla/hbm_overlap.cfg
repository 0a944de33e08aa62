SPECIFICATION Spec
CONSTANTS
  NProcs = 2
  Threads = {1, 2}
  ProcOf <- OwnProcess
  DevOf <- OneDevice
  Ptrs = {a1, a2}
  Sizes = {1, 2}
  Limit = 3
  U64 = 16
  DeviceBytes = 4
  Dcmi = FALSE
  MaxCrashes = 0
  MaxCalls = 4
INVARIANT WithinQuota
