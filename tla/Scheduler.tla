----------------------------- MODULE Scheduler ------------------------------
(***************************************************************************)
(* The kernel core: the scheduling loop of src/src/scheduler.c with the    *)
(* tick and sleep management of timer.c, the context switch of context.c   *)
(* and the task life cycle calls of rtos.c.                                *)
(*                                                                         *)
(* The program has one thread of control.  `pc' says where it is:          *)
(*   "app"     outside scheduler_run(), or between two of its cycles       *)
(*   "sleep"   in the loop of timer_update_sleep(), at task `cursor'       *)
(*   "soft"    in timer_update_soft(), where timer callbacks run           *)
(*   "decide"  at the peek and the preemption decision                     *)
(*   "task"    inside the function of the dispatched task                  *)
(* A cycle of scheduler_run() is the sequence app, sleep.., soft, decide,  *)
(* and then task or app.  Kernel calls are made from "app" (main), "soft"  *)
(* (timer callbacks) and "task", in any number and order.                  *)
(*                                                                         *)
(* The waiting and waking halves of the synchronisation primitives appear  *)
(* here as the scheduler calls they make (Block, Unblock, WakeByIndex);    *)
(* the modules of the primitives add the objects.  Calls that return       *)
(* without changing anything are stuttering steps and have no disjunct.    *)
(***************************************************************************)
EXTENDS ReadyQueue

CONSTANTS
    TimeSlice,      \* RTOS_TIME_SLICE_TICKS
    SliceModulus,   \* 2^w for the w bits of TCB.slice_ticks_used (uint32_t)
    TickModulus,    \* 2^w for the w bits of g_kernel_tick (uint32_t)
    Priorities,     \* priorities passed to rtos_create_task()
    SleepArgs,      \* arguments of rtos_task_sleep()
    WaitReasons,    \* block reasons used by the primitives of the instance
    StaleWakes,     \* TRUE iff a task may be woken by an index recorded
                    \* earlier, whatever its state is now (event.c:97)
    Words           \* register contents a task may compute; 0 is the reset one

ASSUME SchedulerAssumption ==
    /\ TimeSlice \in Nat \ {0}
    /\ SliceModulus \in Nat /\ SliceModulus > TimeSlice
    /\ TickModulus \in Nat \ {0}
    /\ Priorities \subseteq Int
    /\ SleepArgs \subseteq Int
    /\ WaitReasons \subseteq BlockReason \ {"NONE", "SLEEP"}
    /\ StaleWakes \in BOOLEAN
    /\ 0 \in Words

VARIABLES
    task_list,            \* TCB array
    task_count,
    current_task_index,   \* the task dispatched last, runnable or not
    ready_queue,
    active_context,       \* the one live register file of context.c
    g_kernel_tick,
    pc,                   \* where the thread of control is
    cursor                \* loop variable of timer_update_sleep()

tables  == <<task_list, ready_queue>>
control == <<pc, cursor>>
vars    == <<task_list, task_count, current_task_index, ready_queue,
             active_context, g_kernel_tick, pc, cursor>>

(* CPUContext: the entry point in PC and one word for all other registers. *)
CPUContext == [entry : Slots \cup {NoTask}, word : Words]

context_init(i) == [entry |-> i, word |-> 0]

TCB == [priority : Int, state : TaskState, block_reason : BlockReason,
        sleep_ticks : Int, slice_ticks_used : 0 .. SliceModulus - 1,
        context : CPUContext]

(* Static storage is zero: TASK_READY and BLOCK_NONE are the zero values.  *)
ZeroTCB == [priority |-> 0, state |-> "READY", block_reason |-> "NONE",
            sleep_ticks |-> 0, slice_ticks_used |-> 0,
            context |-> context_init(NoTask)]

Created == 0 .. task_count - 1

(* The cur_idx of scheduler_run(): -1 until a task has been dispatched.    *)
cur_idx == IF current_task_index \in Created THEN current_task_index ELSE NoTask

State(i)    == task_list[i].state
Priority(i) == task_list[i].priority
Sleeping(i) == State(i) = "BLOCKED" /\ task_list[i].block_reason = "SLEEP"

scheduler_set_task_state(i, s, r) ==
    IF i \in Created
    THEN /\ task_list'   = WithState(task_list, i, s, r)
         /\ ready_queue' = Requeue(ready_queue, i, s)
    ELSE UNCHANGED tables

-----------------------------------------------------------------------------
(* main() before rtos_init() runs on zeroed storage, which rtos_init()     *)
(* leaves in the state below.                                              *)
Init ==
    /\ task_list = [i \in Slots |-> ZeroTCB]
    /\ task_count = 0
    /\ current_task_index = NoTask
    /\ ready_queue = <<>>
    /\ active_context = context_init(NoTask)
    /\ g_kernel_tick = 0
    /\ pc = "app"
    /\ cursor = 0

(* rtos_init() again: counters are reset, the TCBs and registers are not.  *)
rtos_init ==
    /\ pc = "app"
    /\ task_count' = 0
    /\ current_task_index' = NoTask
    /\ ready_queue' = <<>>
    /\ g_kernel_tick' = 0
    /\ UNCHANGED <<task_list, active_context, control>>

-----------------------------------------------------------------------------
(* One cycle of scheduler_run().                                           *)

timer_tick ==
    /\ pc = "app"
    /\ g_kernel_tick' = (g_kernel_tick + 1) % TickModulus
    /\ pc' = "sleep"
    /\ cursor' = 0
    /\ UNCHANGED <<tables, task_count, current_task_index, active_context>>

(* Faulty variants: a tick late; a count below 1 never comes due.          *)
WakesLate(i)    == task_list[i].sleep_ticks < 1
WakesAtZero(i)  == task_list[i].sleep_ticks = 1

(* The decremented count of sleeper i has run out.                         *)
SleepDue(i) == task_list[i].sleep_ticks - 1 <= 0

(* One iteration of timer_update_sleep(): a sleeper due now is woken, any  *)
(* other sleeper counts down, tasks that do not sleep are skipped.         *)
timer_update_sleep ==
    /\ pc = "sleep"
    /\ cursor < task_count
    /\ cursor' = cursor + 1
    /\ \/ /\ Sleeping(cursor)
          /\ SleepDue(cursor)
          /\ scheduler_set_task_state(cursor, "READY", "NONE")
       \/ /\ Sleeping(cursor)
          /\ ~SleepDue(cursor)
          /\ task_list' = [task_list EXCEPT ![cursor].sleep_ticks = @ - 1]
          /\ UNCHANGED ready_queue
       \/ /\ ~Sleeping(cursor)
          /\ UNCHANGED tables
    /\ UNCHANGED <<task_count, current_task_index, active_context,
                   g_kernel_tick, pc>>

sleep_loop_done ==
    /\ pc = "sleep"
    /\ cursor >= task_count
    /\ pc' = "soft"
    /\ UNCHANGED <<tables, task_count, current_task_index, active_context,
                   g_kernel_tick, cursor>>

(* timer_update_soft() has gone through the pool: its callbacks are done.  *)
soft_loop_done ==
    /\ pc = "soft"
    /\ pc' = "decide"
    /\ cursor' = 0
    /\ UNCHANGED <<tables, task_count, current_task_index, active_context,
                   g_kernel_tick>>

(* The incoming task is loaded into the register file and starts running.  *)
Load(in, tl, q) ==
    /\ active_context' = tl[in].context
    /\ current_task_index' = in
    /\ task_list' = WithState([tl EXCEPT ![in].slice_ticks_used = 1],
                              in, "RUNNING", "NONE")
    /\ ready_queue' = Requeue(q, in, "RUNNING")
    /\ pc' = "task"
    /\ UNCHANGED <<task_count, g_kernel_tick, cursor>>

(* Faulty variants: registers saved into the wrong TCB, and not at all.    *)
SaveIntoIncoming(out, in, tl, q) ==
    Load(in, IF out = NoTask THEN tl ELSE [tl EXCEPT ![in].context = active_context], q)
SwitchUnsaved(out, in, tl, q) == Load(in, tl, q)

(***************************************************************************)
(* do_context_switch(out, in, _) up to the call of the task function.  tl  *)
(* and q are the tables as the caller of do_context_switch left them.      *)
(***************************************************************************)
do_context_switch(out, in, tl, q) ==
    Load(in, IF out = NoTask THEN tl ELSE [tl EXCEPT ![out].context = active_context], q)

live_queue == Live(task_list, ready_queue)
Best(b)    == IsPeek(task_list, live_queue, b)
Runnable   == State(cur_idx) \in {"RUNNING", "READY"}

(* The outgoing task is re-enqueued if it is still RUNNING.                *)
yield_list  == IF State(cur_idx) = "RUNNING"
               THEN WithState(task_list, cur_idx, "READY", "NONE")
               ELSE task_list
yield_queue == IF State(cur_idx) = "RUNNING"
               THEN Requeue(live_queue, cur_idx, "READY")
               ELSE live_queue

Idle ==
    /\ pc = "decide"
    /\ live_queue = <<>>
    /\ ready_queue' = live_queue
    /\ task_list' = IF cur_idx = NoTask THEN task_list
                    ELSE [task_list EXCEPT ![cur_idx].slice_ticks_used = 0]
    /\ pc' = "app"
    /\ UNCHANGED <<task_count, current_task_index, active_context,
                   g_kernel_tick, cursor>>

FirstTick(b) ==         \* case A
    /\ pc = "decide"
    /\ Best(b)
    /\ cur_idx = NoTask
    /\ do_context_switch(NoTask, b, task_list, RemoveFirst(live_queue, b))

Forced(b) ==            \* case B
    /\ pc = "decide"
    /\ Best(b)
    /\ cur_idx # NoTask
    /\ ~Runnable
    /\ do_context_switch(cur_idx, b, task_list, RemoveFirst(live_queue, b))

Preempted(b) ==         \* case C
    /\ pc = "decide"
    /\ Best(b)
    /\ cur_idx # NoTask
    /\ Runnable
    /\ Priority(b) > Priority(cur_idx)
    /\ do_context_switch(cur_idx, b, yield_list, RemoveFirst(yield_queue, b))

(* Faulty variants: the slice ends a tick early, and a tick late.          *)
SliceEndsEarly(b) == Priority(b) = Priority(cur_idx) /\ b # cur_idx
                     /\ task_list[cur_idx].slice_ticks_used >= TimeSlice - 1
SliceEndsLate(b)  == Priority(b) = Priority(cur_idx) /\ b # cur_idx
                     /\ task_list[cur_idx].slice_ticks_used > TimeSlice

(* The test of case D.                                                     *)
SliceIsOver(b) ==
    /\ Priority(b) = Priority(cur_idx)
    /\ task_list[cur_idx].slice_ticks_used >= TimeSlice
    /\ b # cur_idx

SliceExpired(b) ==      \* case D
    /\ pc = "decide"
    /\ Best(b)
    /\ cur_idx # NoTask
    /\ Runnable
    /\ SliceIsOver(b)
    /\ do_context_switch(cur_idx, b, yield_list, RemoveFirst(yield_queue, b))

(* The current task gets another tick.                                     *)
RunAgain ==
    /\ task_list' = WithState(
          [task_list EXCEPT ![cur_idx].slice_ticks_used = (@ + 1) % SliceModulus],
          cur_idx, "RUNNING", "NONE")
    /\ ready_queue' = Requeue(live_queue, cur_idx, "RUNNING")
    /\ pc' = "task"
    /\ UNCHANGED <<task_count, current_task_index, active_context,
                   g_kernel_tick, cursor>>

(* Faulty variant: without the guard of case B.                            *)
ContinueBlocked(b) ==
    /\ pc = "decide" /\ Best(b) /\ cur_idx # NoTask
    /\ Priority(b) <= Priority(cur_idx) /\ ~SliceIsOver(b)
    /\ RunAgain

Continue(b) ==          \* case E
    /\ pc = "decide"
    /\ Best(b)
    /\ cur_idx # NoTask
    /\ Runnable
    /\ Priority(b) <= Priority(cur_idx)
    /\ ~SliceIsOver(b)
    /\ RunAgain

Dispatch(b) ==
    FirstTick(b) \/ Forced(b) \/ Preempted(b) \/ SliceExpired(b) \/ Continue(b)

(* Faulty variant: the state is left RUNNING.                              *)
ReturnRunning ==
    /\ pc = "task"
    /\ pc' = "app"
    /\ UNCHANGED <<tables, task_count, current_task_index, active_context,
                   g_kernel_tick, cursor>>

(* The task function returns; a task that is still RUNNING becomes READY.  *)
TaskReturn ==
    /\ pc = "task"
    /\ pc' = "app"
    /\ IF State(current_task_index) = "RUNNING"
       THEN scheduler_set_task_state(current_task_index, "READY", "NONE")
       ELSE UNCHANGED tables
    /\ UNCHANGED <<task_count, current_task_index, active_context,
                   g_kernel_tick, cursor>>

Cycle ==
    \/ timer_tick \/ timer_update_sleep \/ sleep_loop_done \/ soft_loop_done
    \/ Idle \/ (\E b \in Slots : Dispatch(b))
    \/ TaskReturn

-----------------------------------------------------------------------------
(* Kernel calls.                                                           *)

CallSite == pc \in {"app", "soft", "task"}

rest == <<task_count, current_task_index, active_context, g_kernel_tick, control>>

NewTask(p) ==
    LET i   == task_count
        new == [ZeroTCB EXCEPT !.priority = p, !.state = "SUSPENDED",
                               !.context = context_init(i)]
    IN /\ CallSite
       /\ task_count' = task_count + 1
       /\ task_list' = WithState([task_list EXCEPT ![i] = new], i, "READY", "NONE")
       /\ ready_queue' = Requeue(ready_queue, i, "READY")
       /\ UNCHANGED <<current_task_index, active_context, g_kernel_tick, control>>

(* Faulty variant: the test for a full task table is off by one.           *)
CreateOneTooMany(p) == task_count <= MaxTasks /\ NewTask(p)

rtos_create_task(p) == task_count < MaxTasks /\ NewTask(p)

(* rtos_task_sleep() acts on the task dispatched last.                     *)
rtos_task_sleep(n) ==
    /\ CallSite
    /\ current_task_index \in Created
    /\ task_list' = WithState(
          [task_list EXCEPT ![current_task_index].sleep_ticks = n],
          current_task_index, "BLOCKED", "SLEEP")
    /\ ready_queue' = Requeue(ready_queue, current_task_index, "BLOCKED")
    /\ UNCHANGED rest

(* Task i has id i + 1; an id that names no task is refused.               *)
rtos_suspend_task(i) ==
    /\ CallSite
    /\ i \in Created
    /\ scheduler_set_task_state(i, "SUSPENDED", "NONE")
    /\ UNCHANGED rest

rtos_resume_task(i) ==
    /\ CallSite
    /\ i \in Created
    /\ State(i) = "SUSPENDED"
    /\ scheduler_set_task_state(i, "READY", "NONE")
    /\ UNCHANGED rest

(* The blocking half of a primitive: scheduler_set_current_task_state().   *)
Block(r) ==
    /\ CallSite
    /\ current_task_index \in Created
    /\ scheduler_set_task_state(current_task_index, "BLOCKED", r)
    /\ UNCHANGED rest

(* The waking half of a primitive: scheduler_unblock_one().                *)
scheduler_unblock_one(r) ==
    IF Waiters(task_list, task_count, r) = {}
    THEN UNCHANGED tables
    ELSE \E b \in Slots : /\ IsBestWaiter(task_list, task_count, r, b)
                          /\ scheduler_set_task_state(b, "READY", "NONE")

Unblock(r) ==
    /\ CallSite
    /\ scheduler_unblock_one(r)
    /\ UNCHANGED rest

(* event_flags_set() wakes the task index its waiter table recorded.       *)
WakeByIndex(i) ==
    /\ CallSite
    /\ StaleWakes \/ i \in Waiters(task_list, task_count, "EVENT")
    /\ scheduler_set_task_state(i, "READY", "NONE")
    /\ UNCHANGED rest

(* The running task computes: its registers change.                        *)
Compute(w) ==
    /\ pc = "task"
    /\ active_context' = [active_context EXCEPT !.word = w]
    /\ UNCHANGED <<tables, task_count, current_task_index, g_kernel_tick, control>>

ClientCall ==
    \/ \E p \in Priorities : rtos_create_task(p)
    \/ \E n \in SleepArgs : rtos_task_sleep(n)
    \/ \E i \in Slots : rtos_suspend_task(i) \/ rtos_resume_task(i) \/ WakeByIndex(i)
    \/ \E r \in WaitReasons : Block(r) \/ Unblock(r)
    \/ \E w \in Words : Compute(w)

Call == ClientCall \/ rtos_init

Next == Cycle \/ Call

Spec == Init /\ [][Next]_vars

-----------------------------------------------------------------------------
(* Properties.                                                             *)

TypeOK ==
    /\ task_list \in [Slots -> TCB]
    /\ task_count \in 0 .. MaxTasks
    /\ current_task_index \in Slots \cup {NoTask}
    /\ ready_queue \in Seq(Slots)
    /\ active_context \in CPUContext
    /\ g_kernel_tick \in 0 .. TickModulus - 1
    /\ pc \in {"app", "sleep", "soft", "decide", "task"}
    /\ cursor \in 0 .. MaxTasks

IsReady(i) == i \in Created /\ State(i) = "READY"

(***************************************************************************)
(* The queue holds the READY tasks, each once: whatever calls tasks, timer *)
(* callbacks and main() interleave, no READY task is lost for the peek, no *)
(* stale or duplicate entry is left for it, and the array never overflows  *)
(* (scheduler.c:122 drops a task silently when it is full).                *)
(***************************************************************************)
ReadyQueueExact ==
    /\ IsInjective(ready_queue)
    /\ \A i \in Slots : Contains(ready_queue, i) <=> IsReady(i)

(***************************************************************************)
(* At most one task is RUNNING: the one dispatched last, and only while    *)
(* its function executes.  A second one, or one left RUNNING after its     *)
(* return, would be neither queued nor ever dispatched again.              *)
(***************************************************************************)
RunningIsCurrent ==
    \A i \in Created : State(i) = "RUNNING" => i = current_task_index /\ pc = "task"

(***************************************************************************)
(* The register file belongs to the task dispatched last, also across      *)
(* idle cycles and Continue, and every other TCB holds its own task's      *)
(* registers: a save into the wrong TCB or a missed restore breaks it.     *)
(***************************************************************************)
RegistersBelong ==
    /\ current_task_index # NoTask =>
          current_task_index \in Created /\ active_context.entry = current_task_index
    /\ \A i \in Created \ {current_task_index} : task_list[i].context.entry = i
    /\ pc = "task" => current_task_index # NoTask

(***************************************************************************)
(* README, "the highest-priority READY task always runs": a decision is    *)
(* idle only when no task is READY, and otherwise runs a READY task that   *)
(* no READY task exceeds in priority; it never runs a BLOCKED or SUSPENDED *)
(* one, whichever of the cases A to E takes it.                            *)
(***************************************************************************)
HighestPriorityRuns ==
    [][ pc = "decide" =>
          IF \E i \in Slots : IsReady(i)
          THEN /\ pc' = "task"
               /\ IsReady(current_task_index')
               /\ \A i \in Slots : IsReady(i) => Priority(i) <= Priority(current_task_index')
          ELSE pc' = "app" ]_vars

(***************************************************************************)
(* README, "no unnecessary context switches": a READY current task that no *)
(* READY task exceeds and whose slice is not used up goes on, with its     *)
(* registers untouched.                                                    *)
(***************************************************************************)
NoNeedlessSwitch ==
    [][ /\ pc = "decide"
        /\ cur_idx # NoTask
        /\ IsReady(cur_idx)
        /\ \A i \in Slots : IsReady(i) => Priority(i) <= Priority(cur_idx)
        /\ task_list[cur_idx].slice_ticks_used < TimeSlice
        => UNCHANGED <<current_task_index, active_context>> ]_vars

(***************************************************************************)
(* rtos.h:48, "maximum consecutive ticks a task may run before being       *)
(* preempted in favour of the next equal-priority READY task".  Not so: a  *)
(* peer that becomes READY while the current task heads the queue waits    *)
(* one tick more, because the peek returns the current task itself.        *)
(***************************************************************************)
SliceIsMaximum ==
    [][ /\ pc = "decide"
        /\ cur_idx # NoTask
        /\ IsReady(cur_idx)
        /\ task_list[cur_idx].slice_ticks_used >= TimeSlice
        /\ \E i \in Slots \ {cur_idx} : IsReady(i) /\ Priority(i) = Priority(cur_idx)
        => current_task_index' # current_task_index ]_vars
=============================================================================
