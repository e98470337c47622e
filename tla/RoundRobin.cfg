SPECIFICATION RRSpec
CONSTANTS
    MaxTasks     = 3
    TimeSlice    = 1
    SliceModulus = 2
    TickModulus  = 1
    Priorities   = {1, 2}
    SleepArgs    = {}
    WaitReasons  = {"EVENT"}
    StaleWakes   = FALSE
    Words        = {0}
INVARIANTS
    BoundedWait
    TypeOK
    ReadyQueueExact
    RunningIsCurrent
    RegistersBelong
PROPERTIES
    NoStarvation
    HighestPriorityRuns
    NoNeedlessSwitch
