SPECIFICATION Spec
CONSTANTS
  RequireProvenance = TRUE
  Anchor <- Anchors
  Refuting <- Anchors
  Claim <- Claims
  Reply <- Answers
  Work <- Workload
  Cycles = 2
  MaxInvocations = 3
  MaxTroubles = 1
INVARIANTS CountedAsDecided SilenceDecidesNothing
PROPERTIES ReplayConverges Terminates
CHECK_DEADLOCK FALSE
