SPECIFICATION FairSpec
CONSTANTS
  Calls = {c1, c2}
  PoolRows = {k1, k2}
  OutputRows = {r1}
  PoolMin = 1
  ServerMayFail = TRUE
  WaitMayFail = FALSE
INVARIANTS TypeOK RowsServeOneCall
PROPERTIES ClaimEnds KeepsContract
CONSTRAINT InOrder
CHECK_DEADLOCK FALSE
