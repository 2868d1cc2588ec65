SPECIFICATION RuntimeSpec
CONSTANTS
    Thread = {t1, t2}
    Lease = {l1, l2}
    Manifest = {m1, m2}
    Source = {s1, s2}
    LeaseTtl <- MCLeaseTtl
    ApprovalTtl = 1
    MaxClock = 1
    MaxChanges = 1
    ToolThread = {c1, c2}
    CoordinatorLeaseTtl = 4
    CoordinatorApprovalTtl = 3
    ExportTtl = 2
    CoordinatorMaxClock = 4
CONSTRAINT ChangesAreSeen
SYMMETRY MCSymmetry
INVARIANTS
    HandedOverAtMostOnce
    CallbackOwnsItsLeases
    EndTogether
    NothingLeftAfterClose
    DeliveredIsIntact
    ProofsAreEarned
    FilesAreCurrent
CHECK_DEADLOCK FALSE
