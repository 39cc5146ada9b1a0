SPECIFICATION Spec
CONSTANTS
    BYTE = 6
    RADIX = 5
    Families <- MCFamilies
    Machine <- MCMachine
    RoundTrips <- MCRoundTrips
CHECK_DEADLOCK FALSE
INVARIANTS
    TypeOK
    ConditionsCompare
    LimbsChain
    ShiftsScale
    DivisionInverts
    StepsOnce
    RoundTripsRestore
    FailureKeepsOperands
