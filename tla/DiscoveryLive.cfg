SPECIFICATION FairSpec
CONSTANTS
    Sources = {"a"}
    Type <- NamespaceType
    Names = {1, 2}
    BadNames = {1}
    Finds <- MCFinds
    Specs <- NamespaceSpecs
    MaxChanges = 2
INVARIANT CompletedIsExact
PROPERTIES Converges DeletionCompletes
CHECK_DEADLOCK FALSE
