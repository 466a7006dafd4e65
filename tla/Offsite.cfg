SPECIFICATION Spec
CONSTANTS
    d1 = d1
    d2 = d2
    j1 = j1
    j2 = j2
    None = None
    Jobs = {j1, j2}
    Sends <- NewAndAgain
    Held = {1}
    Dests = {d1, d2}
    ByName <- MCByName
    KeepLast <- MCKeepLast
    MaxAge <- MCMaxAge
    Large = {2}
    Parts = 1
    Described = {1, 2}
    Counted = {1, 2}
    Undated = {}
    PageSize = 2
    MaxFaults = 2
    MaxCancels = 1
INVARIANTS
    CopiesAreAccountedFor
    NoDestinationIsSkipped
PROPERTIES
    NewestFallsToARepushOnly
\* Jobs are not repeated: a behaviour ends when every push has.
CHECK_DEADLOCK FALSE
