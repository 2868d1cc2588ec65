SPECIFICATION Spec
CONSTANTS
    Call = {c1, c2, c3}
    Operator = {o1}
    Task <- MCGatedTask
    Nonce = {"n1", "n2", "n3"}
    NonceOf <- MCNonceOf
    IssuedAt <- MCIssuedAt
    ExpiresAt <- MCExpiresAt
    SignatureValid <- MCSignatureValid
    Request = {"q1"}
    ApprovalId = {"i1"}
    RequestOf <- MCRequestOf
    ApprovalIdOf <- MCApprovalIdOf
    Policy <- MCPolicy
    MaxNonces = 3
    MaxClockSkew = 1
    MaxTaskLifetime = 2
    MaxApprovals = 1
    Ttl = 2
    MaxClock = 0
CONSTRAINTS
    OneCrash
    DistinctTasks
SYMMETRY CallSymmetry
INVARIANTS
    GatedExecutionIsApproved
    AnswerIsOnRecord
    NoSilentlyLostApproval
