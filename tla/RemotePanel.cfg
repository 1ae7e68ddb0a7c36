CONSTANTS
  Replica = {s1, s2}
  Chat = {c1}
  Req = {}
  Hook = {h1}
  Streaming = {}
  Listener = {l1}
  MaxErrors = 0
  None = None
SPECIFICATION Spec
INVARIANTS EndReachesPanels
CHECK_DEADLOCK FALSE
