SPECIFICATION HSpec
CONSTANTS
    MaxTasks     = 2
    TimeSlice    = 1
    SliceModulus = 2
    TickModulus  = 3
    Priorities   = {1}
    SleepArgs   <- MCSleepArgs
    WaitReasons  = {"SEMAPHORE"}
    StaleWakes   = FALSE
    Words        = {0, 1}
INVARIANTS
    NobodyOversleeps
    ResumesWhereItLeft
PROPERTIES
    SleepIsExact
