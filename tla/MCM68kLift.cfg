SPECIFICATION Spec
CONSTANTS
    BYTE = 6
    RADIX = 5
    Families <- MCFamilies
    Machine <- MCLiftMachine
CHECK_DEADLOCK FALSE
INVARIANTS
    LiftedAgrees
