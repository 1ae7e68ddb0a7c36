\* An iteration node over an agent that may wait, behind a human input.
CONSTANTS
  start = start  choice = choice  a = a  b = b  c = c  more = more  join = join  ask = ask
  confirm = confirm  again = again  each = each  inner = inner  None = None
  Node <- ItemsNodes
  Edges <- ItemsEdges
  Kind <- ItemsKinds
  Parent <- ItemsParent
  LoopTarget <- NoLoop
  Run = {p1, p2, p3}
  ResumeAt = {}
  MaxLoop = 2
  MaxIterations = 20
  MaxItems = 2
  Orphan = {o1}
SYMMETRY Symmetric
SPECIFICATION Spec
INVARIANTS RowTellsData
CHECK_DEADLOCK FALSE
