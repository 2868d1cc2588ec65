SPECIFICATION Spec
CONSTANTS
    Call = {c1, c2, c3}
    Task <- MCFewTasks
    Nonce = {"n1", "n2", "n3"}
    NonceOf <- MCNonceOf
    IssuedAt <- MCIssuedAt
    ExpiresAt <- MCExpiresAt
    SignatureValid <- MCSignatureValid
    MaxEntries = 2
    MaxClockSkew = 1
    MaxTaskLifetime = 3
    MaxClock = 2
INVARIANT
    SameTaskAcceptedOnce
