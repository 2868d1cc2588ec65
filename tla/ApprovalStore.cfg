SPECIFICATION Spec
CONSTANTS
    Proc = {p1, p2}
    Request = {q1, q2}
    ApprovalId = {i1, i2, i3}
    MaxEntries = 2
    Ttl = 1
    MaxClock = 1
SYMMETRY StoreSymmetry
INVARIANTS
    ConsumedAtMostOnce
    ConsumedWasApproved
    DecisionsAgree
    OneOpenApprovalPerRequest
