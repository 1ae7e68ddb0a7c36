\* Two requests that carry two request ids, or the same one.
\* The system may stop: every request may end.
CONSTANTS
  Run = {p1, p2}
  Rid = {r1, r2}
  Capacity = 1
  MaxAttempts = 3
SPECIFICATION FairSpec
INVARIANTS TypeOK OneExecution AnsweredIsCharged ChargedIsSaved NoRefundAfterSuccess
PROPERTIES RunsEnd ImplementsMetered
CHECK_DEADLOCK FALSE
