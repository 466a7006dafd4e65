SPECIFICATION Spec
CONSTANTS
    StartedBy <- FromEither
    Offsite = TRUE
    MaxUnwritten = 1
    MayCancel = TRUE
    MayCrash = TRUE
INVARIANTS
    StepRowsAreTrue
    SuccessIsMasked
PROPERTIES
    IrreversibleIsEarned
    ImplementsJobLifecycle
    CancelIsHeeded
\* One sync, which ends.
CHECK_DEADLOCK FALSE
