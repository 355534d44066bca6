SPECIFICATION Spec
CONSTANTS
  Deposits = {n1}
  Calls = {c1}
  Devices = {d1}
  Ticks = {t1}
  MaxNotes = 2
  TeeMode = FALSE
  ServerMayFail = TRUE
  WalletMayReconnect = FALSE
INVARIANT FailedKeepsSecrets
CHECK_DEADLOCK FALSE
