CONSTANTS
    Name = {demo, shop}
    NoName = NoName
    DemoName = {demo}
    Timer = {hourly, daily}
    Left = {"absent", hourly}
    Call = {c1, c2}
    Boot = Boot
    Nobody = Nobody
    Max = 1
    MaxFaults = 1
    MaxRestarts = 1
SPECIFICATION Spec
INVARIANTS
    TypeOK
    NoStaleJob
    NoMissingJob
    OffForAReason
PROPERTIES
    CallsEnd
    KeepsRunning
    ImplementsTable
CHECK_DEADLOCK FALSE
