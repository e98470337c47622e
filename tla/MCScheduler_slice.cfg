SPECIFICATION Spec
CONSTANTS
    MaxTasks     = 2
    TimeSlice    = 1
    SliceModulus = 4
    TickModulus  = 4
    Priorities   = {1}
    SleepArgs    = {2}
    WaitReasons  = {}
    StaleWakes   = FALSE
    Words        = {0}
PROPERTIES
    SliceIsMaximum
