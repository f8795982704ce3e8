SPECIFICATION Spec
CONSTANTS
    None = None
    Lower <- Plain
    Dashed <- Dashes
    Stdlib <- Standard
    AnySuffix <- Extensible
    NodeSuffixes <- Extensions
    Tree <- Trees
    Edits <- Later
    HandMade <- Notes
    MaxRuns = 3
    MaxCrashes = 1
INVARIANTS CyclesAreComponents DeclaredMeetsItsOwnLock EdgesEndAtNodes WrittenAtlasHasNoDrift
CHECK_DEADLOCK FALSE
