SPECIFICATION FairSpec
CONSTANTS
    Content = {"c1", "c2"}
    Sanitizable = {"c1"}
    MaxWindow = 1
    MaxFailures = 2
    MaxTamper = 2
INVARIANTS
    DocumentedAbsence
    DispositionIsTrue
PROPERTIES
    OnlyCommittedIsRemoved
    CleanUpCompletes
CHECK_DEADLOCK FALSE
