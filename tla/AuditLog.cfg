SPECIFICATION FairSpec
CONSTANTS
    Thread <- MCThread
    Process = {"p1", "p2"}
    ProcessOf <- MCProcessOf
    Event = {"e1"}
    Anchoring = {TRUE, FALSE}
    AllowRestore = TRUE
    MaxRecords = 2
INVARIANTS
    NeverBreaksItself
    LossIsDetected
PROPERTIES
    ImplementsLedger
    HolderLeaves
