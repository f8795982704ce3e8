SPECIFICATION Spec
CONSTANTS
    AlertName <- AlertNames
    WithRunbook <- Covered
    Anchor <- Anchors
    Path <- Paths
    Message <- Messages
    Pattern <- Patterns
    App <- Apps
    Code <- Codes
    Files <- FileSets
    MaxRuns = 2
    MaxTroubles = 2
INVARIANTS DraftsStandOnTheRun AdviceIsBlind
PROPERTIES DraftsOnlyAdd
CHECK_DEADLOCK FALSE
