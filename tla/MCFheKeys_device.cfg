SPECIFICATION Spec
CONSTANTS
  Tasks = {t1, t2}
  Pages = {p1, p2}
  Devices = {d1}
  Modes = {TRUE, FALSE}
  ServerMayFail = TRUE
INVARIANTS TypeOK ResultsDecide
PROPERTIES EnsuredKeyIsFiled
SYMMETRY Symmetry
CHECK_DEADLOCK FALSE
