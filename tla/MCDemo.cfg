SPECIFICATION DSpec
CONSTANTS
    MaxTasks     = 3
    TimeSlice    = 2
    SliceModulus = 4
    TickModulus  = 1
    Priorities   = {1, 2, 3}
    SleepArgs    = {1, 2, 3, 4}
    WaitReasons  = {"SEMAPHORE", "MUTEX", "QUEUE_EMPTY", "QUEUE_FULL"}
    StaleWakes   = FALSE
    Words        = {0}
    Sems         = {s}
    Mutexes      = {m}
    Queues       = {q}
    InitialCounts = {0}
    MaxCount     = 3
    RTOS_QUEUE_SIZE = 2
    Messages     = {0, 1, 2, 3}
    Suspendable  = {}
    data_ready   = s
    uart_mutex   = m
    sensor_queue = q
    Samples      = 4
    Setups      <- MCSetups
INVARIANTS
    PipelineExact
    LoggerDropsNothing
PROPERTIES
    ImplementsPrimitives
    EverybodyServed
