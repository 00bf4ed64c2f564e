SPECIFICATION FairSpec
CONSTANTS
    Policies = {p1}
    Servers = {pod}
    Remote = {}
    MaxChanges = 2
PROPERTIES DeletionCompletes Converges
CHECK_DEADLOCK FALSE
