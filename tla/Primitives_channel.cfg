SPECIFICATION PSpec
CONSTANTS
    MaxTasks     = 3
    TimeSlice    = 1
    SliceModulus = 2
    TickModulus  = 1
    Priorities   = {1}
    SleepArgs    = {}
    WaitReasons  = {"SEMAPHORE", "MUTEX", "QUEUE_EMPTY", "QUEUE_FULL"}
    StaleWakes   = FALSE
    Words        = {0}
    Sems         = {}
    Mutexes      = {}
    Queues       = {q1}
    InitialCounts = {0}
    MaxCount     = 2
    RTOS_QUEUE_SIZE = 2
    Messages     = {1, 2}
    Suspendable  = {}
INVARIANTS
    PTypeOK
    NoLostWakeup
PROPERTIES
    QueueIsFifo
