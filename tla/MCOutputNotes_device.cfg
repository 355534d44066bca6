SPECIFICATION FairSpec
CONSTANTS
  Outputs = {o1}
  OldNotes = {w1}
  Tasks = {t1, t2}
  Rows = {r1}
  ServerMayFail = TRUE
  DataMayBeCleared = TRUE
INVARIANTS TypeOK SecretKept
PROPERTY OutputsBecomeSpendable
CONSTRAINT OneKind
