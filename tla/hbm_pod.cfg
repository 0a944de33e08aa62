SPECIFICATION FairSpec
CONSTANTS
  NProcs = 2
  Threads = {1, 2}
  ProcOf <- OwnProcess
  DevOf <- OneDevice
  Ptrs = {a1}
  Sizes = {2, 15}
  Limit = 3
  U64 = 16
  DeviceBytes = 4
  Dcmi = TRUE
  MaxCrashes = 1
  MaxCalls = 3
INVARIANTS TypeOK QuotaEnforced SlotExact
PROPERTY RejectedOnlyWhenFull DeadSlotsReclaimed
