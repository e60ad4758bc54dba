SPECIFICATION Spec
CONSTANTS
  d1 = d1
  d2 = d2
  d3 = d3
  r1 = r1
  r2 = r2
  r3 = r3
  unknown = unknown
  Todo = {d1, d2, d3}
  Pool = {r1, r2, r3}
  MIN_KEY = 1
  MAX_KEY = 3
  PoolIov <- MCPoolIov
  validity <- MCValidity
  Graphs <- MCGraphs
CHECK_DEADLOCK FALSE
INVARIANTS TypeOK ExactAtResolve CreatedOnce NeverTooNarrow NoEarlyAccess RefusesForCause DoneForCause
PROPERTIES Terminates
