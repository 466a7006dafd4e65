SPECIFICATION Spec
CONSTANTS
    p1 = p1
    q1 = q1
    s1 = s1
    s2 = s2
    d1 = d1
    d2 = d2
    k1 = k1
    k2 = k2
    harmless = harmless
    dropA = dropA
    dropAToo = dropAToo
    dropB = dropB
    broken = broken
    A = A
    B = B
    x = x
    y = y
    None = None
    Pipes = {p1}
    Plans = {q1}
    Scheds = {s1, s2}
    Dests = {d1, d2}
    StepLists = {harmless, dropA, dropAToo, dropB, broken}
    Runnable = {harmless, dropA, dropAToo, dropB}
    Signature <- MCSignature
    Edits = {x, y}
    Keys = {k1, k2, k3, k4}
    Elsewhere = {k2}
    ScheduleRows <- MCScheduleRows
    SchedulePatches <- MCSchedulePatches
    Starts <- MCStarts
    Clients = {c1, c2}
    MaxRequests = 2
    MaxFaults = 2
SYMMETRY ClientSymmetry
INVARIANTS
    StoredRowsAreSound
    PermissionWasGiven
    EncryptedKeysWereReleased
\* Requests are bounded: a behaviour ends.
CHECK_DEADLOCK FALSE
