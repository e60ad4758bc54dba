SPECIFICATION Spec
CONSTANTS
  Thread = {t1, t2}
  None = None
  Raw = {"a", "b"}
  Derived = {"d"}
  Time = {1, 2}
  Deps <- MCDeps
  Validity <- MCValidity
  LoadConditions = {TRUE, FALSE}
  Calls = {"prepare", "load", "compute", "clean", "clean_aged"}
  Alone = {"load", "compute", "clean", "clean_aged"}
  AutoClean = FALSE
  MaxCalls = 3
CHECK_DEADLOCK FALSE
INVARIANTS
  TypeOK
  Exclusive
  Served
PROPERTY
  Returns
