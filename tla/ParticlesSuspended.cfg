SPECIFICATION Spec
CONSTANTS
  Generated = 4
  Parents <- MCParents
  Daughters <- MCDaughters
  Roots = {1}
  Products <- MCProducts
  MaxTracks = 2
  MaxSuspensions = 1
  Kinds <- MCKinds
  Fates <- HitsLaterFates
  UserHandlers = {TRUE}
CHECK_DEADLOCK FALSE
INVARIANT
  TrackerHitsKept
