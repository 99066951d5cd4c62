SPECIFICATION FairSpec
CHECK_DEADLOCK FALSE
CONSTANTS
    None = None
    TargetFlag = FALSE
    Contents <- MCContents
    MaxSaves = 3
INVARIANTS
    NoSaveIsForgotten
PROPERTIES
    OnlyNewerValidEditsAreApplied
    SavedEditsAreApplied
