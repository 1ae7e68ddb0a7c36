\* Every flow of five nodes, built to answer a question or to upsert.
CONSTANTS
  Size = 5
  MaxLoop = 3
  None = None
SPECIFICATION Spec
INVARIANTS TypeOK DependenciesFirst AllReached RefusedIsOut ExecutesEnd UpsertOnce NeverExhausted
CHECK_DEADLOCK FALSE
