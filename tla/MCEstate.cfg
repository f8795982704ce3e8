SPECIFICATION Spec
CONSTANTS
    RequireProvenance = TRUE
    Name <- Names
    Slug <- Slugs
    Host <- Hosts
    NoHost = "nohost"
    Label <- Labels
    IP <- IPs
    ResourceType <- Types
    None = "none"
    World <- Worlds
    Targets <- CommandLines
    Confident = TRUE
    MaxRuns = 2
INVARIANTS OrderNeverMatters UndrawnIsAsked BlastReachesCallers
CHECK_DEADLOCK FALSE
