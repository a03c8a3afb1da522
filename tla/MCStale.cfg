CONSTANTS
    Name = {demo, shop}
    NoName = NoName
    DemoName = {demo}
    Timer = {hourly, daily}
    Left = {"absent", hourly}
    Call = {c1, c2}
    Boot = Boot
    Nobody = Nobody
    Max = 1
    MaxFaults = 0
    MaxRestarts = 0
SPECIFICATION SafeSpec
INVARIANT AlwaysReloaded
CHECK_DEADLOCK FALSE
