SPECIFICATION Spec
CONSTANTS
  a = a
  b = b
  r1 = r1
  r2 = r2
  d1 = d1
  Undefined = Undefined
  Slices = {a}
  OneStep = {a}
  TwoStep = {}
  Raw = {r1, r2}
  Derived = {d1}
  Times = {1, 2, 3}
  MIN_KEY = 1
  MAX_KEY = 3
  AgeCap = 0
  MaxId = 1
  Recreated = {}
  Settings <- Default
  Deps <- MCDeps
  Wanted <- MCWanted
  Database <- Staggered
CHECK_DEADLOCK FALSE
INVARIANTS Coherent SliceValid
PROPERTIES PrepareOwns
