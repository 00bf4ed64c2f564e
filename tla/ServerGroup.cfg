SPECIFICATION FairSpec
CONSTANTS
    Servers = {s1, s2}
    Labels = {a, b}
    Policies <- MCPolicies
    Start <- MCStart
    MaxChanges = 2
INVARIANTS TypeOK OnePass SettledExact
PROPERTY Converges
CHECK_DEADLOCK FALSE
