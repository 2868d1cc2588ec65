SPECIFICATION Spec
CONSTANTS
    Call = {c1, c2}
    Operator = {o1}
    Task <- MCMixedTask
    Nonce = {"n1", "n2", "n3"}
    NonceOf <- MCNonceOf
    IssuedAt <- MCIssuedAt
    ExpiresAt <- MCExpiresAt
    SignatureValid <- MCSignatureValid
    Request = {"q1", "q2", "q3", "q4"}
    ApprovalId = {"i1"}
    RequestOf <- MCRequestOf
    ApprovalIdOf <- MCApprovalIdOf
    Policy <- MCPolicy
    MaxNonces = 2
    MaxClockSkew = 1
    MaxTaskLifetime = 2
    MaxApprovals = 1
    Ttl = 1
    MaxClock = 1
CONSTRAINTS
    OneCrash
    TicksForOneRequest
SYMMETRY CallSymmetry
INVARIANT
    ExecutionIsAdmitted
PROPERTY
    KeepsComponents
