\* Loops with and without a human in them; an iteration limit low enough to be reached.
CONSTANTS
  start = start  choice = choice  a = a  b = b  c = c  more = more  join = join  ask = ask
  confirm = confirm  again = again  each = each  inner = inner  None = None
  Node <- RevisionNodes
  Edges <- RevisionEdges
  Kind <- RevisionKinds
  Parent <- NoParent
  LoopTarget <- RevisionLoop
  Run = {p1, p2}
  ResumeAt = {a}
  MaxLoop = 3
  MaxIterations = 6
  MaxItems = 0
  Orphan = {}
SPECIFICATION FairSpec
INVARIANTS TypeOK
PROPERTIES RequestsEnd
CHECK_DEADLOCK FALSE
