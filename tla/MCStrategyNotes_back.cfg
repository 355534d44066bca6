SPECIFICATION FairSpec
CONSTANTS
  Deposits = {n1, n2}
  Calls = {c1}
  Devices = {d1}
  Ticks = {t1}
  MaxNotes = 2
  TeeMode = FALSE
  ServerMayFail = TRUE
  WalletMayReconnect = TRUE
PROPERTIES NotesComeBack
CHECK_DEADLOCK FALSE
