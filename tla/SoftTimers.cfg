SPECIFICATION TSpec
CONSTANTS
    MaxTasks     = 1
    TimeSlice    = 1
    SliceModulus = 2
    TickModulus  = 3
    Priorities   = {1}
    SleepArgs    = {}
    WaitReasons  = {}
    StaleWakes   = FALSE
    Words        = {0}
    RTOS_SOFT_TIMER_COUNT = 2
    Periods      = {1, 2}
INVARIANTS
    TTypeOK
    CountdownIsDeadline
PROPERTIES
    FiresWhenDue
    DeadlineComes
