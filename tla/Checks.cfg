SPECIFICATION Spec
CONSTANTS
    t1 = t1
    t2 = t2
    x = x
    y = y
    Absent = Absent
    None = None
    NoInstant = NoInstant
    Tables <- MCTables
    Values = {x, y}
    Contents <- MCContents
    Dumped <- MCDumped
    Asked <- MCAskedSound
    MaxFaults = 1
    MaxWrites = 1
    Minutes = 2
    Hours = 4
    Months <- MCMonths
    Week = 2
    Zones <- MCZones
    Expressions <- MCExpressions
    MaxScanDays = 7
    Copies <- MCCopies
    Holdings <- MCHoldings
    Column = "column"
    NoSchema = "no schema"
    Nowhere = "nowhere"
    MaxResisting = 1
    MaxSkipped = 1
    Folded <- MCFolded
    MaskedValue = y
INVARIANTS
    VerdictsAreHonest
    ScansAreRight
    SelectionsAreHonest
    NothingReadable
\* A check that has ended and an answer that was given are final.
CHECK_DEADLOCK FALSE
