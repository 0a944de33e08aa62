SPECIFICATION EstablishedFairSpec
CONSTANTS
  Managers = {m1, m2}
  MAX_MANAGERS = 3
  Timely = TRUE
  Prompt = TRUE
  BriefWaits = TRUE
  MaxFailures = 0
  NoPid = NoPid
PROPERTY NoStarvation
