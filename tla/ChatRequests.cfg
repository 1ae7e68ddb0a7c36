CONSTANTS
  r1 = r1
  r2 = r2
  r3 = r3
  k1 = k1
  k2 = k2
  Req = {r1, r2, r3}
  Hung = {r1}
  Chat = {k1, k2}
  Chats <- OneChatOrTwo
  Worker = {w1}
  Modes = {"main", "queue"}
  Limit = 2
  MaxAborts = 1
  MaxCrashes = 1
  MaxRenewals = 1
  None = None
SPECIFICATION FairSpec
INVARIANTS TypeOK PooledIsUnderWay LoneIsReachable OnlyAskedIsAborted CountIsRight LimitHolds
PROPERTIES AbortEnds
CHECK_DEADLOCK FALSE
