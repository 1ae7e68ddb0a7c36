CONSTANTS
  Replica = {s1, s2}
  Chat = {c1}
  Req = {r1, r2}
  Hook = {h1}
  Streaming = {h1}
  Listener = {l1}
  MaxErrors = 1
  None = None
SPECIFICATION FairSpec
INVARIANTS TypeOK AloneIsHeardOnce AloneIsEnded PanelsAreToldHere
PROPERTIES DeadObserversGo StaleChannelsGo
CHECK_DEADLOCK FALSE
