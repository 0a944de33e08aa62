SPECIFICATION Spec
CONSTANTS
  Managers = {m1, m2}
  EnvPriority <- SomePriorities
  NaN = NaN
  Unparsable = Unparsable
  Durations = {0, 1, 13}
  ALPHA = 70
  SCALE = 3
  SCALE_DEN = 2
  MAX_TOKENS = 7
  DEFAULT_AVG_US = 3
  GRACE_US = 5
  U64 = 256
  Nobody = Nobody
INVARIANTS TypeOK ShareByPriority DutyCycle TimeoutCoversBudget
PROPERTY AverageApproachesCost
