SPECIFICATION Spec
CONSTANTS
  Deposits = {n1}
  Calls = {c1, c2}
  Devices = {d1, d2}
  Ticks = {t1, t2}
  MaxNotes = 2
  TeeMode = FALSE
  ServerMayFail = TRUE
  WalletMayReconnect = FALSE
INVARIANTS TypeOK MarkedWhileArmed
SYMMETRY Symmetry
CHECK_DEADLOCK FALSE
