SPECIFICATION FairSpec
CONSTANTS
  o1 = o1
  o2 = o2
  d2 = d2
  Orders = {o1, o2}
  Deposits = {d1, d2}
  Values = {1, 5}
  Counts = {2, 4}
  SplitN = 3
  MaxAttempts = 1
  Interrupted = TRUE
INVARIANTS TypeOK ValueConserved NothingStranded HiddenIsSpent
PROPERTIES OrderEnds
CONSTRAINT InOrder
CHECK_DEADLOCK FALSE
