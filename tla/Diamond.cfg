\* A join of two branches of a condition and a plain branch.
CONSTANTS
  start = start  choice = choice  a = a  b = b  c = c  more = more  join = join  ask = ask
  confirm = confirm  again = again  each = each  inner = inner  None = None
  Node <- DiamondNodes
  Edges <- DiamondEdges
  Kind <- DiamondKinds
  Parent <- NoParent
  LoopTarget <- NoLoop
  Run = {p1}
  ResumeAt = {}
  MaxLoop = 2
  MaxIterations = 20
  MaxItems = 0
  Orphan = {}
SPECIFICATION Spec
INVARIANTS RunsAreFed JoinsWait NoRouteLost
CHECK_DEADLOCK FALSE
