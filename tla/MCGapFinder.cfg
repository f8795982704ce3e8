SPECIFICATION Spec
CONSTANTS
    RequireProvenance = TRUE
    Anchor <- Anchors
    Name <- Names
    Scan <- Scans
    File <- Files
    MaxCandidates = 1
    MaxNovel = 1
INVARIANTS OnlyRulesVerify ProbesCannotBeEvaded
PROPERTY ImplementsChoice
CHECK_DEADLOCK FALSE
