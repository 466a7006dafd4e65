SPECIFICATION Spec
CONSTANTS
    Sources = {"shop", "crm"}
    Names = {"staging", "dev"}
    Sensitive = {"shop", "file"}
    MaxSteps = 4
    Pipelines <- CheckedOnce
    MayCancel = TRUE
INVARIANTS
    OutcomeIsHonest
    NeverPanics
    SuccessIsMasked
    DropsAreConfirmed
PROPERTIES
    ExistingIsNeverDropped
\* One run, which ends.
CHECK_DEADLOCK FALSE
