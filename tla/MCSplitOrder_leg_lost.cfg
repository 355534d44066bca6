SPECIFICATION Spec
CONSTANTS
  o1 = o1
  o2 = o2
  d2 = d2
  Orders = {o1}
  Deposits = {d1}
  Values = {5}
  Counts = {2}
  SplitN = 3
  MaxAttempts = 1
  Interrupted = FALSE
INVARIANT LegsFindTheirSlice
CHECK_DEADLOCK FALSE
