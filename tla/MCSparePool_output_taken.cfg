SPECIFICATION Spec
CONSTANTS
  Calls = {c1}
  PoolRows = {k1}
  OutputRows = {r1}
  PoolMin = 1
  ServerMayFail = FALSE
  WaitMayFail = FALSE
INVARIANTS OutputSecretsApart
SYMMETRY Symmetry
CHECK_DEADLOCK FALSE
