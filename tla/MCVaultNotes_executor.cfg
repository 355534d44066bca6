SPECIFICATION Spec
CONSTANTS
  Ops = {o1, o2, o3}
  Devices = {d1, d2}
  PoolIds = {k1, k2}
  Amounts = {1, 2}
  MaxNotes = 2
  RpcMayFail = FALSE
  ExecutorMayFail = TRUE
  ClaimMayFail = FALSE
  StorageMayFail = FALSE
INVARIANTS TypeOK UnspentIsStored UnspentNotHidden LeafSecretsDiffer NoValueBurned
PROPERTIES ReleasedIsUnused ImplementsLedger RefusedOnlyIfShort KeepsContract
SYMMETRY Symmetry
CHECK_DEADLOCK FALSE
