SPECIFICATION FairSpec
CHECK_DEADLOCK FALSE
CONSTANTS
    None = None
    TargetFlag = TRUE
    Contents <- MCContents
    MaxSaves = 1
PROPERTIES
    AcceptableEditsAreApplied
