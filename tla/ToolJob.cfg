SPECIFICATION FairSpec
CONSTANTS
    t1 = t1
    t2 = t2
    None = None
    Tables = {t1, t2}
    Triggered = {t1}
    Backups <- MCBackups
    Restores <- MCRestores
INVARIANTS
    ArtifactsAreHonest
    DatabasesAreSafe
    SuccessLoadsEverything
PROPERTIES
    KilledJobEnds
\* The jobs are bounded: a behaviour ends.
CHECK_DEADLOCK FALSE
