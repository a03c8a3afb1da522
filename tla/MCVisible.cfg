CONSTANTS
    Name = {demo, shop}
    NoName = NoName
    DemoName = {demo}
    Run = {r1, r2}
    Max = 1
    MaxRestarts = 0
SPECIFICATION SafeSpec
INVARIANT FailureVisible
CHECK_DEADLOCK FALSE
