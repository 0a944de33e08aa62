SPECIFICATION EstablishedSpec
CONSTANTS
  Managers = {m1, m2, m3, m4}
  MAX_MANAGERS = 3
  Timely = TRUE
  Prompt = FALSE
  BriefWaits = FALSE
  MaxFailures = 0
  NoPid = NoPid
INVARIANTS TypeOK OverlapNeedsDelay EvictionNeedsDelay
SYMMETRY Sym
CONSTRAINT UntilDelayed
