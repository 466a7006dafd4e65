SPECIFICATION FairSpec
CONSTANTS
    Schedules = {s1}
    Apps = {}
    Daemons = {d1}
    Clis = {}
    Loops = {l1}
    Jobs = {j1, j2, j3}
    Occurrences <- MCOneOccurrence
    CatchUp = {s1}
    Grace = 0
    MaxTime = 2
    MaxCrashes = 1
    MaxEdits = 0
    StoreMayFail = FALSE
PROPERTIES
    NothingIsLeftWaiting
CHECK_DEADLOCK FALSE
