SPECIFICATION Spec
CONSTANTS
    Schedules = {s1}
    Apps = {a1}
    Daemons = {}
    Clis = {c1}
    Loops = {l1, l2}
    Jobs = {j1, j2}
    Occurrences <- MCOccurrences
    CatchUp = {}
    Grace = 0
    MaxTime = 2
    MaxCrashes = 0
    MaxEdits = 3
    StoreMayFail = TRUE
SYMMETRY JobSymmetry
INVARIANTS
    NoOverlap
    ZeroExitIsBackedBySuccess
CHECK_DEADLOCK FALSE
