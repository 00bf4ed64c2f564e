SPECIFICATION Spec
CONSTANTS
    Specs <- SafetySpecs
    MaxChanges = 2
INVARIANTS TypeOK EgressInPlace DenyInPlace StatusExact DriftReported GoneLeavesNothing OneWorkload
CHECK_DEADLOCK FALSE
