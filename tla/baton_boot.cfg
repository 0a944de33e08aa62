SPECIFICATION BootSpec
CONSTANTS
  Managers = {m1, m2}
  MAX_MANAGERS = 2
  Timely = TRUE
  Prompt = FALSE
  BriefWaits = TRUE
  MaxFailures = 1
  NoPid = NoPid
INVARIANTS BootTypeOK SharedSlotOnlyAfterEviction OverlapHasACause
CHECK_DEADLOCK FALSE
PROPERTY LockNeverStuck
