SPECIFICATION Spec
CONSTANTS
    Databases = {d1, d2}
    Jobs = {j1, j2, j3}
    Policies <- MCPolicies
    None = None
    MaxSecond = 1
    MaxCrashes = 1
SYMMETRY MCSymmetry
INVARIANTS
    FilesAreWhatTheySeem
    JudgedRetentionLeavesABackup
CHECK_DEADLOCK FALSE
