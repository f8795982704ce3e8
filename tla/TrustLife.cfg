SPECIFICATION LifeSpec
CONSTANT RequireProvenance = TRUE
INVARIANTS NoFalsePass OrderNeverMatters RejectionHasCause
PROPERTY OnlyDowngrades
