SPECIFICATION Spec
CONSTANTS
    CRs = {c1}
    Container = {c1}
    Stamped = {c1}
    Endpoints = {e1, e2}
    TLSBlocks = {t1}
    MaxFaults = 2
    RetryLosesReply = FALSE
    OldCore = TRUE
    CoreForgets = TRUE
INVARIANTS OwnedIsClaimed
PROPERTIES ForeignUntouched
