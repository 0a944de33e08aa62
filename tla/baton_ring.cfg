SPECIFICATION SettledSpec
CONSTANTS
  Managers = {m1, m2, m3}
  MAX_MANAGERS = 3
  Timely = TRUE
  Prompt = TRUE
  BriefWaits = TRUE
  MaxFailures = 0
  NoPid = NoPid
PROPERTY ImplementsTurnRing NoStarvation
