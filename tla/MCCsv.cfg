CONSTANTS
    Name = {crm, shop}
    NoName = NoName
    Load = {l1, l2}
    MaxFaults = 0
    MaxRestarts = 0
SPECIFICATION Spec
SYMMETRY Symmetry
INVARIANTS
    CsvForExcel
CHECK_DEADLOCK FALSE
