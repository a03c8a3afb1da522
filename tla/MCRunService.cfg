CONSTANTS
    Name = {demo, shop}
    NoName = NoName
    DemoName = {demo}
    Run = {r1, r2}
    Max = 1
    MaxRestarts = 1
SPECIFICATION Spec
INVARIANTS
    TypeOK
    OneLoadPerPipeline
    SlotsHaveWorkers
    ScheduledWithinLimit
    HistoryHonest
    EndedJobTells
    LoadLeavesEntry
PROPERTIES
    ScheduledServed
    ImplementsLedger
CHECK_DEADLOCK FALSE
