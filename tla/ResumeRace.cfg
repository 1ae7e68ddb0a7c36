\* Two requests resume the same execution.
CONSTANTS
  start = start  choice = choice  a = a  b = b  c = c  more = more  join = join  ask = ask
  confirm = confirm  again = again  each = each  inner = inner  None = None
  Node <- ApprovalNodes
  Edges <- ApprovalEdges
  Kind <- ApprovalKinds
  Parent <- NoParent
  LoopTarget <- NoLoop
  Run = {p1, p2, p3}
  ResumeAt = {}
  MaxLoop = 2
  MaxIterations = 20
  MaxItems = 0
  Orphan = {}
SYMMETRY Symmetric
SPECIFICATION Spec
PROPERTIES OnlyStoppedIsResumed
CHECK_DEADLOCK FALSE
