SPECIFICATION Spec
CONSTANTS
    CRs = {c1, c2}
    Container = {}
    Stamped = {}
    Endpoints = {e1}
    TLSBlocks = {}
    MaxFaults = 3
    RetryLosesReply = FALSE
    OldCore = FALSE
    CoreForgets = TRUE
SYMMETRY Symmetry
INVARIANTS TypeOK OwnedIsClaimed HolderPresent
PROPERTIES ActsAsHolder RefinesOwnership
