SPECIFICATION Spec
CONSTANTS
  Clients = {t1, t2}
  Threads = {t1, t2}
  ClientOf <- OwnProcess
  MaxTokens = 1
  TOKEN_MOD = 4
  MaxBatch = 2
  MaxFailures = 0
  Nobody = Nobody
INVARIANTS TypeOK NeverOvercharged NoLostWakeup
SYMMETRY Sym
