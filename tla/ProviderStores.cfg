SPECIFICATION StoresSpec
CONSTANTS
    Conversation <- MCConversation
    Turn <- MCTurn
    Run <- MCRun
    Event <- MCEvent
    MaxDamaged = 1
    Client = {k1, k2}
    Version <- MCVersion
    Quota <- MCQuota
    MaxAge = 1
    MaxAltered = 1
    MaxTime = 3
SYMMETRY MCSymmetry
INVARIANTS
    OneRunPerTurn
    RetryIsRecognised
    HistoryIsWellFormed
    RestartAccepts
    WorkIsJustified
PROPERTIES
    NoLostUpdate
CHECK_DEADLOCK FALSE
