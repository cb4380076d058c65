SPECIFICATION FairSpec
CONSTANTS
    u1 = u1
    u2 = u2
    Users = {u1, u2}
    Notified = {u1, u2}
    Linked = {u1, u2}
    Cached = {u1}
    Leavers = {u1, u2}
    FirstExpiry <- PaidThenTrial
    FirstPlan <- PaidAndTrial
    PlanSlots = 5
    SlotsPerDay = 2
    SlotsPerWeek = 4
    WindowSlots = 2
    MaxTime = 6
    MaxFaults = 2
INVARIANTS
    TypeOK
    RepeatsOnlyUnrecorded
    RecordedReminderWasSent
    DigestServed
    ReminderServed
PROPERTY
    CyclesEnd
CHECK_DEADLOCK FALSE
