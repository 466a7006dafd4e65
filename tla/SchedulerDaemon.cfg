SPECIFICATION Spec
CONSTANTS
    Schedules = {s1}
    Apps = {}
    Daemons = {d1}
    Clis = {c1}
    Loops = {l1}
    Jobs = {j1, j2, j3}
    Occurrences <- MCOccurrences
    CatchUp = {s1}
    Grace = 0
    MaxTime = 2
    MaxCrashes = 1
    MaxEdits = 2
    StoreMayFail = FALSE
SYMMETRY JobSymmetry
INVARIANTS
    TypeOK
    RestartNeverRepeats
    OutcomeIsAccountedFor
PROPERTIES
    HighWaterNeverFalls
CHECK_DEADLOCK FALSE
