SPECIFICATION Spec
CONSTANTS
    Sources = {"a", "b"}
    Type <- MCType
    Names = {1, 2}
    BadNames = {}
    Finds <- MCFinds
    Specs <- MCSpecs
    MaxChanges = 1
INVARIANTS TypeOK CompletedIsExact LeavesNothing
CHECK_DEADLOCK FALSE
