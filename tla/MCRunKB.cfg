SPECIFICATION Spec
CONSTANTS
  RequireProvenance = TRUE
  Scanned <- ChScanned
  Twin <- None
  Rests <- ChRests
  Reviewed <- ChReviewed
  Absence <- None
  Disabled <- ChDisabled
  Reply <- Replies
  Covers <- ChCovers
  MaxRuns = 2
  MaxCrashes = 1
INVARIANTS NothingLost DirectoryTellsStatus FoundationsOnDisk
           RunForgetsThePast ReportAgreesWithKB
PROPERTY OnlyRunsRaise
CHECK_DEADLOCK FALSE
