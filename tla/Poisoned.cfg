SPECIFICATION Spec
CONSTANTS
  RequireProvenance = TRUE
  Anchor <- Anchors
  Refuting <- Anchors
  Claim <- Claims
  Reply <- Answers
  Work <- Workload
  Cycles = 2
  MaxInvocations = 3
  MaxTroubles = 0
CHECK_DEADLOCK FALSE
INVARIANT ScanSurvives
