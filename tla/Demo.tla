-------------------------------- MODULE Demo ---------------------------------
(***************************************************************************)
(* The demo application of src/src/main.c on the kernel and its            *)
(* primitives: a sensor sends samples to a logger over a message queue     *)
(* counted by a semaphore, and a display shares a mutex with the logger.   *)
(*                                                                         *)
(* `line' is the call the running task function makes next.  Functions     *)
(* start from their first line in every run, also after a run that ended   *)
(* in a blocked call.  "dropped" is a return of the logger that gives up   *)
(* what it has already taken.                                              *)
(*                                                                         *)
(* Samples are numbered modulo Samples instead of 100, 105, 110...  The    *)
(* sleeps and priorities of main.c are one Setup of several the tasks      *)
(* could have been given, and rtos_run() goes on after its 25 ticks.       *)
(***************************************************************************)
EXTENDS Primitives

CONSTANTS
    data_ready, uart_mutex, sensor_queue,
    Samples,
    Setups          \* [priority, sleep : for each of the three tasks]

Tasks  == 0 .. 2
Sensor == 0
Logger == 1
Display == 2

(* What main() and the tasks of main.c pass to the kernel.                 *)
MainSetup == [priority |-> [t \in Tasks |-> 3 - t],
              sleep    |-> (0 :> 3) @@ (1 :> 2) @@ (2 :> 4)]

ASSUME DemoAssumption ==
    /\ MaxTasks = 3
    /\ Sems = {data_ready} /\ Mutexes = {uart_mutex} /\ Queues = {sensor_queue}
    /\ Samples \in Nat /\ Samples > RTOS_QUEUE_SIZE + 1
    /\ Messages = 0 .. Samples - 1
    /\ MaxCount > RTOS_QUEUE_SIZE /\ 0 \in InitialCounts
    /\ Setups \subseteq [priority : [Tasks -> Priorities], sleep : [Tasks -> SleepArgs]]

VARIABLES
    setup, line,
    sample,         \* static variable of sensor_task()
    logged          \* history: the sample the logger stored last

dVars == <<pVars, setup, line, sample, logged>>

After(n, k) == (n + k) % Samples

DInit ==
    /\ PInit
    /\ sem = [s \in Sems |-> 0]
    /\ setup \in Setups
    /\ line = "start"
    /\ sample = 0
    /\ logged = Samples - 1

-----------------------------------------------------------------------------
(* The running task t makes call A at line l and goes on to the next line. *)
At(t, l) == pc = "task" /\ Caller = t /\ line = l

Does(t, l, A, next) == At(t, l) /\ A /\ line' = next /\ UNCHANGED setup

KeepSamples == UNCHANGED <<sample, logged>>

(* Kernel calls that touch no object.                                      *)
Plain(A) == A /\ UNCHANGED <<objects, retry>> /\ wants' = StillWants

(* The lines that end a run: rtos_task_sleep(), and the return.            *)
Sleep(t) ==
    /\ Does(t, "sleep", Plain(rtos_task_sleep(setup.sleep[t])), "return")
    /\ KeepSamples

Return(t) ==
    /\ \E l \in {"return", "dropped"} : Does(t, l, Plain(TaskReturn), "start")
    /\ KeepSamples

(* Faulty variant: the result of the send is ignored.                      *)
AfterAnySend == "signal"

AfterSend == IF Full(sensor_queue) THEN "sleep" ELSE "signal"

(* Faulty variant: the count goes up, but nobody is woken.                 *)
CountOnly ==
    /\ sem' = [sem EXCEPT ![data_ready] = @ + 1]
    /\ UNCHANGED <<vars, mutex, queue, received, histories>>

Announce == rtos_sem_signal(data_ready)

sensor_task ==
    \/ /\ Does(Sensor, "start", rtos_queue_send(sensor_queue, sample), AfterSend)
       /\ KeepSamples
    \/ /\ Does(Sensor, "signal", Announce, "sleep")
       /\ sample' = After(sample, 1)
       /\ UNCHANGED logged
    \/ Sleep(Sensor)

(* Both other tasks print under the mutex.                                 *)
Lock(t, l, next, otherwise) ==
    /\ Does(t, l, rtos_mutex_lock(uart_mutex),
            IF mutex[uart_mutex].locked THEN otherwise ELSE next)
    /\ KeepSamples

(* Faulty variant: the mutex is held over the sleep.                       *)
KeepLock(t) == Does(t, "unlock", UNCHANGED pVars, "sleep") /\ KeepSamples

Unlock(t) ==
    /\ Does(t, "unlock", rtos_mutex_unlock(uart_mutex), "sleep")
    /\ KeepSamples

logger_task ==
    \/ /\ Does(Logger, "start", rtos_sem_wait(data_ready),
               IF sem[data_ready] > 0 THEN "receive" ELSE "return")
       /\ KeepSamples
    \/ /\ Does(Logger, "receive", rtos_queue_receive(sensor_queue),
               IF Empty(sensor_queue) THEN "dropped" ELSE "lock")
       /\ KeepSamples
    \/ Lock(Logger, "lock", "store", "dropped")
    \/ /\ Does(Logger, "store", UNCHANGED pVars, "unlock")
       /\ logged' = received[sensor_queue]
       /\ UNCHANGED sample
    \/ Unlock(Logger)
    \/ Sleep(Logger)

display_task ==
    \/ Lock(Display, "start", "unlock", "return")
    \/ Unlock(Display)
    \/ Sleep(Display)

-----------------------------------------------------------------------------
(* main() creates the tasks and runs the scheduler.                        *)
main ==
    /\ pc # "task"
    /\ \/ /\ task_count < 3
          /\ Plain(rtos_create_task(setup.priority[task_count]))
       \/ /\ task_count = 3
          /\ Plain(Cycle)
    /\ UNCHANGED <<setup, line, sample, logged>>

DNext ==
    \/ main \/ sensor_task \/ logger_task \/ display_task
    \/ \E t \in Tasks : Return(t)

(* The program has one thread: it goes on whenever it can.                 *)
DSpec == DInit /\ [][DNext]_dVars /\ WF_dVars(DNext)

-----------------------------------------------------------------------------
(* Properties.                                                             *)

(***************************************************************************)
(* Between runs the pipeline is consistent: semaphore and queue agree, the *)
(* queue holds the samples after the last one stored, in order and without *)
(* a gap, up to the one the sensor sends next, and nobody holds the mutex. *)
(* This whatever sends failed on a full queue and were made again after a  *)
(* sleep, which replaced the wait for room (main.c:19).                    *)
(***************************************************************************)
PipelineExact ==
    pc # "task" =>
        /\ sem[data_ready] = queue[sensor_queue].count
        /\ Contents(sensor_queue) =
              [k \in 1 .. queue[sensor_queue].count |-> After(logged, k)]
        /\ sample = After(logged, queue[sensor_queue].count + 1)
        /\ ~mutex[uart_mutex].locked

(***************************************************************************)
(* The returns of logger_task() after its semaphore wait (main.c:31 and    *)
(* 35), which would drop a count or a sample, are never taken.             *)
(***************************************************************************)
LoggerDropsNothing == line # "dropped"

(* The demo uses kernel and primitives as their models allow.              *)
ImplementsPrimitives == PSpec

(***************************************************************************)
(* With the priorities and sleeps of main.c nobody is starved: samples are *)
(* stored and the display is refreshed for ever.                           *)
(***************************************************************************)
Stored    == At(Logger, "unlock")
Refreshed == At(Display, "unlock")

EverybodyServed ==
    setup = MainSetup => []<>Stored /\ []<>Refreshed
=============================================================================
