CONSTANTS
    Name = {crm, shop}
    NoName = NoName
    Load = {l1, l2}
    MaxFaults = 1
    MaxRestarts = 1
SPECIFICATION Spec
SYMMETRY Symmetry
INVARIANTS
    TypeOK
    HealsByItself
    LoadsOwnRows
    TracingEnds
    OneFormatKept
CHECK_DEADLOCK FALSE
