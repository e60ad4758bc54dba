SPECIFICATION Spec
CONSTANTS
  p1 = p1
  p2 = p2
  Processors = {p1, p2}
  Main = p1
  NoProcessor = NoProcessor
  NumEvents = 3
  MaxParallel = 2
  UseTBB = TRUE
  NumActions = 2
  Containers = {"c1", "c2"}
  Files <- MCFiles
  Faults <- AllFaults
  MaxRuns = 2
INVARIANTS TypeOK EachEventOnce EntriesOnce FramesWhole
PROPERTIES Returns ImplementsEventLoop
CHECK_DEADLOCK FALSE
