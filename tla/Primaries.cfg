SPECIFICATION Spec
CONSTANTS
  ActionLists <- MCActionLists
  Inputs <- MCInputs
INVARIANTS TypeOK MergedWhole AttachedOnce PrimariesComplete
PROPERTIES Ends
CHECK_DEADLOCK FALSE
