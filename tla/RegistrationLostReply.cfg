SPECIFICATION Spec
CONSTANTS
    CRs = {c1}
    Container = {}
    Stamped = {}
    Endpoints = {e1}
    TLSBlocks = {}
    MaxFaults = 1
    RetryLosesReply = TRUE
    OldCore = FALSE
    CoreForgets = FALSE
INVARIANTS OwnedIsClaimed
