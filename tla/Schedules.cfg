CONSTANTS
  f1 = f1
  f2 = f2
  c1 = c1
  c2 = c2
  Editor = {e1}
  Run = {x1}
  Flow = {f1, f2}
  Cron = {c1, c2}
  NodeCron = {c1}
  CronsOf <- ExpressionOf
  EndDate = {d1}
  Modes = {"cron", "queue"}
  MaxRecords = 2
  MaxCrashes = 1
  BatchSize = 1
  Never = Never
  None = None
INVARIANTS TypeOK JobsFollowRows
SPECIFICATION FairSpec
PROPERTIES UselessJobsGo
CHECK_DEADLOCK FALSE
