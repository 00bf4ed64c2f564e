SPECIFICATION Spec
CONSTANTS
    Policies = {p1}
    Servers = {pod, remote}
    Remote = {remote}
    MaxChanges = 2
INVARIANTS TypeOK L7InPlace BackstopInPlace NamedTargetCleared
PROPERTIES FloorKept
CHECK_DEADLOCK FALSE
