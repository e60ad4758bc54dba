SPECIFICATION Spec
CONSTANTS
  Generated = 4
  Parents <- MCParents
  Daughters <- MCDaughters
  Roots = {1}
  Products <- MCProducts
  MaxTracks = 4
  MaxSuspensions = 2
  Kinds <- MCKinds
  Fates <- MCFates
  UserHandlers = {TRUE, FALSE}
CHECK_DEADLOCK FALSE
INVARIANTS
  ChainsEnd
  TypeOK
  Consistent
  HitsKept
PROPERTIES
  Ends
  ImplementsRecord
