SPECIFICATION ESpec
CONSTANTS
    MaxTasks     = 3
    TimeSlice    = 1
    SliceModulus = 2
    TickModulus  = 1
    Priorities   = {1}
    SleepArgs    = {1}
    WaitReasons  = {"EVENT"}
    StaleWakes   = TRUE
    Words        = {0}
    Events       = {ef}
    Bits         = {"a", "b"}
    Masks       <- MCMasks
    RTOS_EVENT_MAX_WAITERS = 2
    Careless    <- MCCareless
PROPERTIES
    RecheckSucceeds
