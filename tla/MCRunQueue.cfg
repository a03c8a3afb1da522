CONSTANTS
    Name = {p1, p2, p3, p4}
    Max = 2
    PumpBound = 3
SPECIFICATION Spec
INVARIANTS
    TypeOK
    ConcurrencyLimit
    OnePlace
    NoLostWakeup
PROPERTIES
    EventuallyExecuted
    ImplementsJobPool
CHECK_DEADLOCK FALSE
