SPECIFICATION TimelySpec
CONSTANTS
  a = a
  b = b
  r1 = r1
  r2 = r2
  d1 = d1
  Undefined = Undefined
  Slices = {a, b}
  OneStep = {a}
  TwoStep = {b}
  Raw = {r2}
  Derived = {d1}
  Times = {1, 2}
  MIN_KEY = 1
  MAX_KEY = 2
  AgeCap = 0
  MaxId = 2
  Recreated <- FirstTime
  Settings <- Default
  Deps <- MCDeps
  Wanted <- MCWanted
  Database <- MCDatabase
CHECK_DEADLOCK FALSE
INVARIANTS TypeOK HeldAlive Coherent
PROPERTIES ServesConditions
