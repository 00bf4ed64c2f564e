SPECIFICATION FairSpec
CONSTANTS
    CRs = {c1, c2}
    Container = {}
    Stamped = {}
    Endpoints = {e1}
    TLSBlocks = {}
    MaxFaults = 1
    RetryLosesReply = FALSE
    OldCore = FALSE
    CoreForgets = TRUE
PROPERTIES DeletionCompletes NameGranted
