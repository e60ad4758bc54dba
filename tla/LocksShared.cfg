SPECIFICATION Spec
CONSTANTS
  Thread = {t1, t2}
  None = None
  Raw = {"a", "b"}
  Derived = {"d"}
  Time = {1, 2}
  Deps <- MCDeps
  Validity <- MCValidity
  LoadConditions = {TRUE}
  Calls = {"prepare", "load"}
  Alone = {}
  AutoClean = FALSE
  MaxCalls = 2
CHECK_DEADLOCK FALSE
INVARIANT
  Exclusive
