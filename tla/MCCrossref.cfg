SPECIFICATION LoopFairSpec
CONSTANTS
  Key <- MCKey
  Relation <- MCRelation
  Target <- MCTarget
  Graph <- MCGraph
INVARIANTS NoUnverifiedFoundation NothingDowngradedInVain
PROPERTIES ImplementsSpine Terminates
CHECK_DEADLOCK FALSE
