SPECIFICATION FairSpec
CONSTANTS
    Sources = {"a"}
    Type <- ServicesType
    Names = {1, 2}
    BadNames = {}
    Finds <- MCFinds
    Specs <- PlainSpecs
    MaxChanges = 0
PROPERTY Rests
CHECK_DEADLOCK FALSE
