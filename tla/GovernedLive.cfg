SPECIFICATION FairSpec
CONSTANTS
    Specs <- LiveSpecs
    MaxChanges = 1
PROPERTIES Closes OverLimitReported DeletionCompletes
CHECK_DEADLOCK FALSE
