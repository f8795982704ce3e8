SPECIFICATION PubSpec
CONSTANTS
  RequireProvenance = TRUE
  Scanned <- CoScanned
  Twin <- CoTwin
  Rests <- CoRests
  Reviewed <- None
  Absence <- CoGaps
  Disabled <- CoDisabled
  Reply <- Replies
  Covers <- NoDraft
  Paged <- CoPaged
  MaxRuns = 1
  MaxCrashes = 1
INVARIANTS DriftHasACause FreshReviewComplete
CHECK_DEADLOCK FALSE
