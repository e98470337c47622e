# Mini-RTOS in TLA+

A formal model of the kernel in `src/`: a host-based, cooperative RTOS simulator in C. TLC checks
the modules on small instances, and TLAPS proves the central properties for every number of tasks,
blocks and objects. Paths and line numbers refer to `src/` of this repository.

## The system

The program has one thread of control. `scheduler_run(max_ticks)` is a loop; each cycle advances
the tick, wakes sleepers, fires timer callbacks, peeks at the best READY task, decides (cases A to
E), and calls the function of the chosen task, which runs to its end. "Blocking" means that a call
marks the task BLOCKED and returns `false`; the task function is expected to return, and starts
from its beginning when it is dispatched next. There are no interrupts and no threads.

What makes it hard is not parallelism but *order*. Kernel calls come from three places: task
functions, timer callbacks (in the middle of a cycle, before the decision) and `main()`. All calls
that concern "the current task" act on the task that was dispatched last, which at those moments
may be READY, BLOCKED or SUSPENDED. A task may go through any number of state changes within one
run. Wake-ups are only hints: the woken task has to make its call again.

| Component | State | Operations | Talks to |
|---|---|---|---|
| Scheduler (`scheduler.c`) | `ready_queue`, `ready_count` | `scheduler_run`, `scheduler_set_task_state`, `scheduler_unblock_one` | timer, context, task functions |
| Kernel core (`rtos.c`) | `task_list`, `task_count`, `current_task_index` | create, sleep, suspend, resume, init, getters | scheduler |
| Semaphore, mutex, message queue (`rtos.c`) | objects of the application | wait/signal, lock/unlock, send/receive | scheduler |
| Context (`context.c`) | `active_context` | init, save, restore, switch | called by the scheduler |
| Tick and sleep (`timer.c`) | `g_kernel_tick`, `TCB.sleep_ticks` | `timer_tick`, `timer_update_sleep` | scheduler |
| Software timers (`timer.c`) | `g_soft_timers` | create, start, stop, delete, expiry | callbacks, i.e. everything |
| Event flags (`event.c`) | `EventFlags` objects with a waiter table | set, clear, wait | scheduler, by task index |
| Memory pool (`memory.c`) | blocks, bitmap, free-list head, counter | init, alloc, free | nobody |
| Demo (`main.c`) | a sensor, a logger and a display task | | primitives |
| `uart_log` | none | prints | |

What makes each correct:

* **Scheduler and core**: the ready queue is exactly the set of READY tasks; at most one task is
  RUNNING; every decision runs a READY task of highest priority; no needless switch; rotation among
  equals starves nobody, with a bound on the wait.
* **Context**: the one register file always belongs to the task dispatched last, every saved
  context to its own task, and a task finds its registers as it left them.
* **Sleep**: a sleep ends in the tick it should, although nothing but a countdown is stored.
* **Primitives**: no waiter sleeps beside a unit that nobody was woken for; the queue is a FIFO;
  nothing bypasses the scheduler.
* **Memory pool**: free list and bitmap agree, no block is handed out twice or freed by any address but its own, NULL only if all are held.
* **Event flags**: a set wakes every task whose mask is satisfied, spends each bit once, and leaves
  nobody blocked without an entry in the table; a stale entry damages nobody but the task that left it.
* **Software timers**: a timer fires in the tick it is due and in no other, whatever its callback does.
* **Demo**: no sample is lost or out of order, and every task is served.

`PROJECT.json` lists the hazards, each at its source line with the properties that cover it.

## Modules

| Module | What it is |
|---|---|
| `ReadyQueue` | Operators on the task table and the ready queue: the two halves of `scheduler_set_task_state()` (`WithState`, `Requeue`), the peek (`Live`, `IsPeek`), the choice of the waiter to wake |
| `Scheduler` | The core: the scheduling cycle step by step, all task life cycle calls, the context switch, tick and sleep. Properties of the core |
| `RoundRobin`, `SleepTimes`, `SavedRegisters` | `Scheduler` with one history variable each, and the properties that need it |
| `Primitives` | Semaphores, mutexes and message queues on top of `Scheduler`, with two history variables |
| `EventFlags` | Event flags on top of `Scheduler`, each iteration of the scan in `event_flags_set()` a step, with a history variable |
| `SoftTimers` | The timer pool and its pass inside the cycle of `Scheduler`, callbacks included, with a history variable |
| `Demo` | The tasks of `main.c` line by line on `Primitives` |
| `MemoryPool` | The allocator |
| `Fifo`, `EventGroup`, `BlockPool` | What message queues, event flags and the pool promise: abstract specifications that `Primitives`, `EventFlags` and `MemoryPool` implement |
| the `*Proofs` modules | Proofs, see below |
| `MCScheduler`, `MCTaskHistory`, `MCEventFlags`, `MCMemoryPool`, `MCDemo` | Instances for TLC where a cfg alone is not enough. `MCTaskHistory` runs the histories of `SleepTimes` and `SavedRegisters` at once |

`Primitives`, `EventFlags`, `SoftTimers`, `RoundRobin`, `SleepTimes` and `SavedRegisters` extend
`Scheduler` and use its actions as their own: a step of theirs is a step of the scheduler, plus what
happens to their state. `ImplementsScheduler` is the claim that this is so, and what carries the
scheduler's theorems over. `Demo` relates to `Primitives` in the same way.

### How `Scheduler` corresponds to the code

`pc` says where the thread of control is: `app` (outside `scheduler_run()` or between two cycles),
`sleep` (in the loop of `timer_update_sleep()`, at task `cursor`), `soft` (where timer callbacks
run), `decide`, `task` (inside a task function). The actions of `Cycle` are the program text
between these points. Case A to E of `scheduler_run()` are `FirstTick`, `Forced`, `Preempted`,
`SliceExpired`, `Continue`; `Idle` is the branch without a READY task. The actions of `Call` are
kernel calls, possible at `app`, `soft` and `task`, in any number and order: one run of a task
function is any sequence of calls, not a single one. Calls that return without changing anything
are stuttering steps.

* `task_list` has all TCB fields that matter: priority, state, block reason, sleep count, slice
  count, context. The stack and the name are written once and never read by the kernel. A task id
  is its index plus 1.
* `ready_queue` is the live prefix of the array; its length is `ready_count`. The bound test of
  `ready_queue_enqueue()` is kept in `Enqueue`, since "never full" is something to show.
* A context is the entry point and one word for the other registers. Nothing in `src/` computes on
  the registers yet; `Compute` stands for the simulated task doing so, which is what the switch is for.
* `slice_ticks_used` and the tick are `uint32_t` and wrap; their moduli are constants.
* `rtos_init()` again (from outside the loop) keeps TCBs and registers, as the code does.
* A wake by recorded index (`WakeByIndex`, `event.c:97`) may with `StaleWakes` hit a task in any
  state. `EventFlags` shows when this happens: only to tasks that leave stale entries.

### How `Primitives` corresponds to the code

Each call is one action with both outcomes: served, with the wake-up it gives
(`scheduler_unblock_one()`), or blocked (`scheduler_set_current_task_state()`). The ring keeps
buffer, front, rear and count as in the code. All calls but `rtos_sem_signal()` dereference
the current task and are therefore made only after a first dispatch. A mutex locked by its owner
again returns true, and one unlock releases it, as in `rtos.c:193`. Kernel and objects are
initialised once. The histories `wants` (what a blocked task waits for) and `retry` (who was woken and
has not called again) are not in the kernel; `NoLostWakeup` needs them to say what a wake-up is for.

### How `EventFlags` corresponds to the code

A flag word is a set of bits, a mask a non-empty set (`event_flags_set()` and the others ignore a zero
mask). `waiters` is the live prefix of the table. `event_flags_set()` is its entry, which sets the bits,
followed by one `scan_entry` for each entry from the last to the first; nothing else happens until
the scan is done (`Quiet`), since the program has one thread. A satisfied entry has its bits cleared
(auto-reset), is replaced by the last entry, and its task is made READY *by index*, whatever state it
is in by then.

An entry outlives its wait if the task is suspended, put to sleep or blocked elsewhere meanwhile.
`Careless` is the set of tasks (with `NoTask`, for waits before the first dispatch) that do so; the
others wait and sleep only while RUNNING and are not suspended while they wait. The properties
hold with careless tasks around, except that their own entries are not exact.

### How `SoftTimers` corresponds to the code

The pass of `timer_update_soft()` is part of the cycle, at `pc = "soft"`. A slot that is not armed is
one step (`soft_skip`), one that counts down another (`soft_decrement`). A timer that expires has two:
`soft_expire` up to the call of its callback, and `soft_callback_done` after it, which reads mode and
period again as the code does. Between the two a callback makes any kernel and timer calls,
also on its own timer: stop, delete, start, or create another in the same slot. Name, callback pointer
and argument are left out. The history `due` is the absolute tick in which an armed timer has to fire.

### How `Demo` corresponds to the code

`line` is the next call of the running task function; functions start from their first line in every
run. Samples are numbered modulo 4, more than the queue and the sensor hold together, so that a loss
or a swap shows. `setup` is what `main()` passes: the priorities and sleeps of `main.c`, or others. The
program goes on after the 25 ticks of `rtos_run()`.

### How `MemoryPool` corresponds to the code

A free block's link and the client's data are the same storage (`storage[b]`), as in the code.
Clients write whatever they like to blocks they hold, and free any address. A pointer is a byte
offset from the pool, of any size; `block_index()` casts the block number to `int` before it tests
the range (`memory.c:98`), which `AsInt` keeps, with `IntModulus` for the 2^32 values of an `int`. The
null pointer is one of those below the pool. The history `outstanding` holds the addresses clients were given and have
not passed to `memory_free()`, whether that accepts them (`memory_free`) or not (`free_refused`). The
state starts after `memory_init()`.

## Runs

State counts are distinct states.

| Run | Instance | Shows |
|---|---|---|
| `core` | `RoundRobin`: 3 tasks, 2 priorities, slice 1 wrapping at 2, blocking, waking, suspending; 0.2M | `TypeOK`, `ReadyQueueExact`, `RunningIsCurrent`, `RegistersBelong`, `HighestPriorityRuns`, `NoNeedlessSwitch`, `BoundedWait`, `NoStarvation` (fair) |
| `history` | `MCTaskHistory`: 2 tasks, sleeps of -1 and 2 ticks, tick wrapping at 3, 2 register values; 2.4M | `NobodyOversleeps`, `SleepIsExact`, `ResumesWhereItLeft` |
| `sync` | `Primitives`: 3 tasks, one semaphore (count up to 2), one mutex, two tasks suspended at will; 1.4M | `NoLostWakeup`, `ImplementsScheduler` |
| `channel` | `Primitives`: 3 tasks, ring of 2, two messages, no suspensions (they are in `sync`); 1.5M | `PTypeOK`, `NoLostWakeup`, `QueueIsFifo` |
| `events` | `MCEventFlags`: 3 tasks, masks {a} and {a, b}, table of 2, task 0 and `main()` careless; 1.1M | `ETypeOK`, `NoEventMissed`, `CarefulEntriesExact`, `ReadyQueueExact`, `ImplementsGroups`, `ImplementsScheduler` |
| `timers` | `SoftTimers`: 2 slots, periods 1 and 2, both modes, a task, tick wrapping at 3; 0.2M | `TTypeOK`, `CountdownIsDeadline`, `FiresWhenDue`, `DeadlineComes` (fair) |
| `demo` | `MCDemo`: `main.c`, and every setup of two priorities and sleeps of 1, 2 and 4 ticks; 48K | `PipelineExact`, `LoggerDropsNothing`, `ImplementsPrimitives`, `EverybodyServed` (fair) |
| `memory` | `MCMemoryPool`: 4 blocks of 2 bytes, `int` of 8 values, addresses from one below the pool to past the wrap of the block number; 8K | `TypeOK`, `FreeListExact`, `OutstandingExact`, `ImplementsPool` |
| `slice`, `two_semaphores`, `events_recheck`, `timers_restart` | violations | see below |

Bounds and why they suffice. Three tasks give a current task, a best candidate and a bystander, the
largest number of roles any step distinguishes. Two priorities give "higher", "equal" and "lower".
The slice is counted against one bound and wraps once: the moduli are one above the slice, so that
the wrap, which takes 2^32 ticks in reality, happens within the run; the tick wraps past the
longest sleep and the longest period. Where the tick counter has one value (`TickModulus = 1`) no
property of the run looks at it. A semaphore count of 2 and two slots distinguish "empty", "not
empty" and "more than one", which is what a missing wake-up needs. Overlapping masks and a table of
two with three tasks give a grant that takes another waiter's bits, a compaction that moves an entry,
and a full table. Two timer slots give a callback an earlier, a later and its own slot to act on. In
the demo the queue fills up with the setups whose sensor sleeps less than its logger. Four blocks
give a free list with an interior; the addresses above the pool have block numbers that are too large as an `int`,
negative, and those of a block again. All that is proved holds for every bound.

`core` has no stale wakes, since `BoundedWait` fails with them: a wake by a stale index moves a READY
task to the tail of the queue (`scheduler.c:444`), again and again. Stale wakes are in `events`, and in
the theorems about `Scheduler`, which hold with `StaleWakes` either way.

Deadlock is checked in every run: the loop never stops by itself.

Fairness. `RRSpec` and `TSpec` state `WF` of the cycle (`Cycle`, `TimerCycle`): `scheduler_run()` keeps
being called, and task functions and callbacks return. This is what the cooperative design demands of
the application anyway; nothing obliges a task or callback to make any call. `DSpec` states
`WF_dVars(DNext)`: the demo is a deterministic program of one thread, and runs. No other run states
any, and none states strong fairness.

Every property has a mutant, a plausible bug in a mapped definition (named "Faulty variant" in the
modules), under which TLC finds it violated.

### Disagreements between code and documents

* **`slice`**. `rtos.h:48` calls the time slice the maximum of consecutive ticks before an
  equal-priority READY task gets its turn, and the comment `scheduler.c:284` decides so. The code
  also asks that the best candidate is another task (`scheduler.c:380`). A task that ran alone heads the queue
  when a peer becomes READY, is its own best candidate, and runs again with its slice used up.
  `BoundedWait` is what holds instead: a READY task is passed over for at most one slice of each other
  task, and one tick more if a 32-bit slice counter wraps.
* **`two_semaphores`**. README line 388 says signals wake one waiter. `scheduler_unblock_one()`
  compares the block reason, not the object: a signal may wake a waiter of another semaphore, which
  blocks again, and the waiter of the signalled one sleeps on.
* **`events_recheck`**. `event.h:26` tells a woken waiter to check its flags again in its next run. The
  set that woke it has cleared them (`event.c:86`): a waiter that calls `event_flags_wait()` again blocks
  again. The wake-up itself is the only sign that the event came.
* **`timers_restart`**. `timer.h:178` calls `timer_soft_start()` safe on a running timer. A one-shot timer
  whose own callback starts it again is disarmed when the callback returns (`timer.c:129`).

Others have no run of their own:

* `rtos.h:90-93` says that the slice counter is reset to 0 on every switch away from a task. The code
  sets it to 1 on every switch to it, and to 0 when the loop idles.
* `event.h:147` explains `false` of `event_flags_wait()` as "task has been blocked". With a full table it
  returns `false` and does not block (`event.c:128`).
* A callback that starts a timer in a slot the pass has yet to reach has it counted down in the same
  tick (`timer.c:99`), so that it fires one tick earlier than any other, and than `timer.c:295` logs.
  `FirstPass` accounts for it in `due`: the timer properties show that the code keeps to this rule, and would not
  tell it from the other.
* `memory.h:119` says that `memory_free()` does nothing unless the pointer is the start of a pool block. Because of the
  cast at `memory.c:98`, an address 2^32 blocks (or a multiple) above a block's passes for it. `OutstandingExact` counts
  such addresses as one (`SameAsInt`), and says that there are no others.

## Proofs

`SchedulerProofs` proves of `Scheduler`, for any number of tasks, any priorities, slices, sleeps and
word widths, from `MaxTasksAssumption` and `SchedulerAssumption` only:

* `TypeCorrect`, `QueueExact`, `OneRunning`, `RegistersKept`: `Spec => []P` for the four invariants;
* `PriorityScheduling` and `SwitchesAreNeeded`: the two action properties.

They rest on one inductive invariant, `Inv`: the conjunction of the four. None of them is inductive alone.
The queue stays exact across a dispatch only because the dispatched task was in it once and nobody
else is RUNNING; the TCB a switch saves into is the right one only because the registers belong to
the current task; and the array has room for a READY task only because the queue is injective
and does not hold the task that enters (`RoomForOneMore`, a pigeonhole argument).
`RequeueExact` carries all state changes: it says what `scheduler_set_task_state()` does to an exact queue.
The action properties follow from the exactness of the queue: the peek sees all READY tasks.

`TaskHistoryProofs` proves `SleepersAreInTime` and `SleepsEndOnTime` with one more assumption, that a
count is below the modulus of the tick (`SleepAssumption`), and `TasksResumeWhereTheyLeft`. The kernel
counts down task by task, so that during the pass the tasks behind the cursor have one tick less to
count than those ahead of it: `SleepsKept` states the deadline for every moment of the pass, and is
inductive where `NobodyOversleeps` is not. `RegistersAreSeen` says where the registers of each task are, in
the register file or in its TCB; a switch moves them from one to the other.

`RoundRobinProofs` proves `WaitIsBounded` (`BoundedWait`), with the assumption `~StaleWakes` that the
property needs. `BoundedWait` bounds a counter, and says nothing of why it stops. The invariant
`WaitBounded` bounds the counter plus what may still be added to it, the *debt* of a READY task `t`: one slice
for each task of its priority ahead of it in the queue, and what the current task has left of its own
slice (if that task is itself READY and ahead of `t`, a tick: that is the one more of `Longest`). A run of a peer adds 1 to the counter and takes at least 1 from the debt: if the current
task goes on, its slice gets shorter (`ContinueDebt`); if it is switched out, it goes behind `t`, and the next one's
slice turns from a full one into one with a tick gone (`SwitchDebt`). No other step raises the debt: whoever becomes READY enters
at the tail, behind `t` (`SetKeepsDebt`), which is what a stale wake breaks. A task that is
dispatched or leaves READY starts from zero.

`PrimitivesProofs` proves that `Primitives` implements `Scheduler` (`PrimitivesImplementScheduler`):
a served call is an `Unblock` or a stutter, a blocked one a `Block`. Hence priority scheduling and the
exact queue hold in every system of semaphores, mutexes and queues. `PrimitiveTypesCorrect` and
`RingsAreFifos` rest on `PInv`: the types, and that `rear` is `count` steps ahead of `front` round the
ring. A send then appends to the contents, a receive takes their head, at the wrap too.

Its second half proves `NoWakeupIsLost` for systems with one semaphore, one mutex and one queue at most
(`OneOfAKind`); with two of a kind it is false, as `two_semaphores` shows. The invariant `WInv` adds two
facts to `NoLostWakeup`: a task blocked for the reason of a resource wants that resource, so that a
release wakes a task it is for, and a waiter is not among those woken already, so that the new wake-up
counts. Every step treats a resource in one of four ways (`Quiet`, `Joined`, `Taken`, `Released`), and
each of them keeps the balance of units and wake-ups.

`EventFlagsProofs` proves `EventsImplementScheduler`, `QueueWithEvents`, `EventTypeCorrect`, `NoEventIsMissed`,
`CarefulEntriesAreExact` and `EventsImplementGroups` for any tables, masks, tasks and careless tasks. The invariant `EInv` says
that what the scan has passed is unsatisfied: bits are only cleared during the scan, and the entry that
fills a gap has been passed before. It is proved jointly with the scheduler's `Inv`: that no wake is
stale rests on the entries of careful tasks being exact, and this on a running task not
being a waiting one. For the refinement the table is a bag of requests, the number of positions at
which each stands: `AppendRequests` and `CompactRequests` say that a wait adds one and that the compaction
removes one whatever entry fills the gap. That a call ends settled is `EInv` after its last step.

`DemoProofs` proves `DemoImplementsPrimitives`, `PipelineIsExact`, `NothingIsDropped` and `DemoLosesNoWakeup` for any
setups, any number of samples above the queue's size plus one, and any queue. The properties speak of the moments
between runs; `DemoInv` says what holds at each line of a run. `Control` says whose line it is and that nobody
holds the mutex but on the way from its lock to its unlock; `Pipeline` gives semaphore, queue, `sample` and `logged` with
corrections for the lines at which a sample is in the logger's hands (`Holding`), in the queue but
not counted (`Uncounted`), or sent but not yet stepped over (`Ahead`). The theorems about primitives and scheduler
carry over by refinement: `DemoLosesNoWakeup` is one of them, since the demo has one object of a kind.

`SoftTimersProofs` proves `TimersImplementScheduler`, `TimersTypeCorrect`, `DeadlinesKept` and
`TimersFireWhenDue` for any pool, periods, callbacks and tick width. The countdown of an armed timer is the
distance from its deadline, one more if the pass has yet to reach it in this tick. That the countdown never passes zero,
and that the timer fires when due, follow.

`MemoryPoolProofs` proves `PoolTypeCorrect`, `FreeListIsExact`, `OutstandingIsExact` and `PoolContract` for any pool and
any width of `int` that holds the block numbers. The
invariant `Inv` says that some sequence lists the free blocks along the chain. A pop takes its tail,
a push puts the block in front, a client write touches no listed block. That the counter never
exceeds the number of blocks again needs the list (`RoomForTheFreed`). `SameBlock` says which addresses
`block_index()` takes for a block: a free concerns its own block and no other holder. The refinement maps `held` to
the allocated blocks of the bitmap.

Only model-checked: liveness (`NoStarvation`, `DeadlineComes`, `EverybodyServed`), which needs fairness and `ENABLED` and
is out of the prover's reach. `WaitIsBounded` and `DeadlinesKept` are the safety they rest on. Every invariant, action
property and refinement of the passing runs is a theorem.

All theorems rest on the named assumptions about constants that the modules declare; TLC evaluates these
in every run.

## Not modelled

* Event flags, timers and primitives in one composition: each acts on tasks only as `Scheduler` allows,
  and none reads the others' state, so that they meet in the scheduler alone. The exception, a task
  that waits for events and is blocked by a primitive meanwhile, is a careless task of `EventFlags`.
* Initialising objects that are in use, and `rtos_init()` while objects are: the repository does neither.
* Some hazards have no property. For two of them the code does not say what should happen: a suspended task that
  goes on to sleep or block in the same run (`rtos.c:81`), and a callback that locks or unlocks a mutex as the task
  dispatched last (`rtos.c:193`). The runs contain both and show that they damage nothing else. For three
  the models follow the code and no property objects: the turn a stale wake costs a READY task (`scheduler.c:444`),
  the result of a wait on a full table (`event.c:128`), and the early tick of a timer started in a callback (`timer.c:99`).
* `scheduler_run()` called from inside a task function or callback: nothing in the repository does
  it, and the cooperative design rules it out.
* `uart_log`, the getters, the stack memory and the unit tests: no kernel state.
* Calls with null or dangling object pointers, and task functions that do not return.

## Plan

1. Done: the modules, runs and proofs above.
2. Done: `BoundedWait`, `ImplementsGroups` and the demo as theorems, so that only liveness is left to TLC alone.
3. What the abstract specifications promise, as theorems about them: that no waiting request of an event group could be
   granted between calls, and that a channel never holds more than its capacity.
4. `WaitIsBounded` where stale wakes may happen, for a task that none of them hits.
