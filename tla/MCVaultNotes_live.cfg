SPECIFICATION FairSpec
CONSTANTS
  Ops = {o1, o2, o3}
  Devices = {d1}
  PoolIds = {k1}
  Amounts = {1, 2}
  MaxNotes = 2
  RpcMayFail = TRUE
  ExecutorMayFail = FALSE
  ClaimMayFail = TRUE
  StorageMayFail = TRUE
INVARIANTS SpendableIsOnChain
PROPERTIES WithdrawSettles
CONSTRAINTS CallsBeginInOrder LargeInSmallOut
CHECK_DEADLOCK FALSE
