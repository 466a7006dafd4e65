SPECIFICATION Spec
CONSTANTS
    Jobs = {j1, j2}
    StartedFrom <- Representative
    Offsite = TRUE
    Stores = {TRUE, FALSE}
    MayCrash = TRUE
INVARIANTS
    HistoryIsTruthful
    RegistryIsTruthful
PROPERTIES
    JobsEndOnce
\* Every job is started once and ends: the behaviours are finite.
CHECK_DEADLOCK FALSE
