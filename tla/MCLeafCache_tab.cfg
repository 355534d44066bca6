SPECIFICATION FairSpec
CONSTANTS
  MaxLeaves = 2
  Polls = {p1, p2}
  Spends = {w1}
  Scans = {s1, s2}
  Chunk = 2
  RpcMayFail = TRUE
  RpcMayLag = TRUE
INVARIANTS TypeOK RefusedForGaps
PROPERTIES WithdrawSeesAll LeavesShow
