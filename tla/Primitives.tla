----------------------------- MODULE Primitives -----------------------------
(***************************************************************************)
(* Semaphores, mutexes and message queues of src/src/rtos.c on top of the  *)
(* scheduler.  A call that cannot be served blocks the calling task and    *)
(* returns false; a release wakes one task, which owns nothing yet and has *)
(* to make its call again in its next run.                                 *)
(*                                                                         *)
(* The caller is the task dispatched last, also when a timer callback or   *)
(* main() makes the call.  All calls but rtos_sem_signal() dereference it, *)
(* so that they are made only once a task has been dispatched.             *)
(*                                                                         *)
(* The kernel does not record what a blocked task waits for beyond the     *)
(* block reason.  Two history variables do:                                *)
(*   wants[t]  the resource task t is blocked for                          *)
(*   retry[r]  the tasks woken from waiting for r that have not called     *)
(*             for r again since                                           *)
(* A resource is a pair of a block reason and an object.                   *)
(***************************************************************************)
EXTENDS Scheduler, FiniteSets

CONSTANTS
    Sems, Mutexes, Queues,   \* the application's objects
    InitialCounts,           \* arguments of semaphore_init()
    MaxCount,                \* bound on semaphore counts
    RTOS_QUEUE_SIZE,
    Messages,                \* values sent; 0 is what the zeroed buffer holds
    Suspendable              \* tasks that are suspended and resumed

ASSUME PrimitivesAssumption ==
    /\ MaxCount \in Nat
    /\ InitialCounts \subseteq 0 .. MaxCount
    /\ RTOS_QUEUE_SIZE \in Nat \ {0}
    /\ {"SEMAPHORE", "MUTEX", "QUEUE_EMPTY", "QUEUE_FULL"} \subseteq WaitReasons
    /\ Suspendable \subseteq Slots

VARIABLES sem, mutex, queue,
          received,          \* *value of the last successful receive from each queue
          wants, retry

objects   == <<sem, mutex, queue, received>>
histories == <<wants, retry>>
pVars     == <<vars, objects, histories>>

Resources ==
    ({"SEMAPHORE"} \X Sems) \cup ({"MUTEX"} \X Mutexes)
        \cup ({"QUEUE_EMPTY", "QUEUE_FULL"} \X Queues)

NoResource == <<"NONE", NoTask>>

NoOwner == -1

PInit ==
    /\ Init
    /\ sem \in [Sems -> InitialCounts]
    /\ mutex = [m \in Mutexes |-> [locked |-> FALSE, owner |-> NoOwner]]
    /\ queue = [q \in Queues |-> [buffer |-> [p \in 0 .. RTOS_QUEUE_SIZE - 1 |-> 0],
                                  front |-> 0, rear |-> 0, count |-> 0]]
    /\ received = [q \in Queues |-> 0]
    /\ wants = [t \in Slots |-> NoResource]
    /\ retry = [r \in Resources |-> {}]

-----------------------------------------------------------------------------
Caller  == current_task_index
HasTask == CallSite /\ Caller \in Created

(* What tasks want that stay blocked in a primitive.                       *)
StillWants ==
    [t \in Slots |-> IF \E r \in Resources : t \in Waiters(task_list', task_count', r[1])
                     THEN wants[t] ELSE NoResource]

(* Faulty variant: blocks without scheduler_set_task_state(), so that a    *)
(* READY caller stays queued.                                              *)
BlockInPlace(r) ==
    /\ task_list' = WithState(task_list, Caller, "BLOCKED", r[1])
    /\ UNCHANGED <<ready_queue, rest, objects>>
    /\ wants' = [StillWants EXCEPT ![Caller] = r]
    /\ retry' = [retry EXCEPT ![r] = @ \ {Caller}]

(* A call for r that cannot be served blocks the caller.                   *)
BlockOn(r) ==
    /\ scheduler_set_task_state(Caller, "BLOCKED", r[1])
    /\ UNCHANGED <<rest, objects>>
    /\ wants' = [StillWants EXCEPT ![Caller] = r]
    /\ retry' = [retry EXCEPT ![r] = @ \ {Caller}]

Woken(reason) ==
    Waiters(task_list, task_count, reason) \ Waiters(task_list', task_count, reason)

(* A call that needed r, or NoResource, was served; it wakes one task      *)
(* blocked for reason, or for "NONE" nobody.                               *)
Serve(r, reason) ==
    /\ IF reason = "NONE" THEN UNCHANGED tables ELSE scheduler_unblock_one(reason)
    /\ UNCHANGED rest
    /\ wants' = StillWants
    /\ retry' = [x \in Resources |->
          (IF x = r THEN retry[x] \ {Caller} ELSE retry[x])
             \cup {t \in Woken(reason) : wants[t] = x}]

rtos_sem_wait(s) ==
    LET r == <<"SEMAPHORE", s>>
    IN  /\ HasTask
        /\ \/ /\ sem[s] > 0
              /\ sem' = [sem EXCEPT ![s] = @ - 1]
              /\ Serve(r, "NONE")
              /\ UNCHANGED <<mutex, queue, received>>
           \/ /\ sem[s] <= 0
              /\ BlockOn(r)

(* Faulty variant: only a signal that finds the semaphore at zero wakes.   *)
SignalWakesAtZero(s) ==
    /\ CallSite
    /\ sem[s] < MaxCount
    /\ sem' = [sem EXCEPT ![s] = @ + 1]
    /\ Serve(NoResource, IF sem[s] = 0 THEN "SEMAPHORE" ELSE "NONE")
    /\ UNCHANGED <<mutex, queue, received>>

rtos_sem_signal(s) ==
    /\ CallSite
    /\ sem[s] < MaxCount
    /\ sem' = [sem EXCEPT ![s] = @ + 1]
    /\ Serve(NoResource, "SEMAPHORE")
    /\ UNCHANGED <<mutex, queue, received>>

task_id == Caller + 1

(* The owner may lock again: it is told the truth, that it holds the lock. *)
rtos_mutex_lock(m) ==
    LET r == <<"MUTEX", m>>
    IN  /\ HasTask
        /\ \/ /\ ~mutex[m].locked
              /\ mutex' = [mutex EXCEPT ![m] = [locked |-> TRUE, owner |-> task_id]]
              /\ Serve(r, "NONE")
              /\ UNCHANGED <<sem, queue, received>>
           \/ /\ mutex[m].locked
              /\ mutex[m].owner = task_id
              /\ Serve(r, "NONE")
              /\ UNCHANGED objects
           \/ /\ mutex[m].locked
              /\ mutex[m].owner # task_id
              /\ BlockOn(r)

rtos_mutex_unlock(m) ==
    /\ HasTask
    /\ mutex[m].locked
    /\ mutex[m].owner = task_id
    /\ mutex' = [mutex EXCEPT ![m] = [locked |-> FALSE, owner |-> NoOwner]]
    /\ Serve(NoResource, "MUTEX")
    /\ UNCHANGED <<sem, queue, received>>

-----------------------------------------------------------------------------
advance(i) == (i + 1) % RTOS_QUEUE_SIZE

(* Faulty variant: one message more is accepted than there is room for.    *)
FullTooLate(q) == queue[q].count > RTOS_QUEUE_SIZE

Full(q)  == queue[q].count = RTOS_QUEUE_SIZE
Empty(q) == queue[q].count = 0

(* Faulty variant: rear is advanced before it is written to.               *)
PutAfterAdvance(q, v) ==
    queue' = [queue EXCEPT ![q].buffer[advance(queue[q].rear)] = v,
                           ![q].rear  = advance(@),
                           ![q].count = @ + 1]

Put(q, v) ==
    queue' = [queue EXCEPT ![q].buffer[queue[q].rear] = v,
                           ![q].rear  = advance(@),
                           ![q].count = @ + 1]

(* Faulty variant: only a send to an empty queue wakes a receiver.         *)
SendWakesAtEmpty(q, v) ==
    LET r == <<"QUEUE_FULL", q>>
    IN  /\ HasTask
        /\ \/ /\ ~Full(q)
              /\ Put(q, v)
              /\ Serve(r, IF Empty(q) THEN "QUEUE_EMPTY" ELSE "NONE")
              /\ UNCHANGED <<sem, mutex, received>>
           \/ Full(q) /\ BlockOn(r)

rtos_queue_send(q, v) ==
    LET r == <<"QUEUE_FULL", q>>
    IN  /\ HasTask
        /\ \/ /\ ~Full(q)
              /\ Put(q, v)
              /\ Serve(r, "QUEUE_EMPTY")
              /\ UNCHANGED <<sem, mutex, received>>
           \/ /\ Full(q)
              /\ BlockOn(r)

rtos_queue_receive(q) ==
    LET r == <<"QUEUE_EMPTY", q>>
    IN  /\ HasTask
        /\ \/ /\ ~Empty(q)
              /\ received' = [received EXCEPT ![q] = queue[q].buffer[queue[q].front]]
              /\ queue' = [queue EXCEPT ![q].front = advance(@), ![q].count = @ - 1]
              /\ Serve(r, "QUEUE_FULL")
              /\ UNCHANGED <<sem, mutex>>
           \/ /\ Empty(q)
              /\ BlockOn(r)

-----------------------------------------------------------------------------
(* Steps that touch no object: the scheduling cycle and the task life      *)
(* cycle calls.  The kernel and the objects are initialised once.          *)
KernelStep ==
    /\ \/ Cycle
       \/ \E p \in Priorities : rtos_create_task(p)
       \/ \E n \in SleepArgs : rtos_task_sleep(n)
       \/ \E i \in Suspendable : rtos_suspend_task(i) \/ rtos_resume_task(i)
    /\ UNCHANGED <<objects, retry>>
    /\ wants' = StillWants

PNext ==
    \/ KernelStep
    \/ \E s \in Sems : rtos_sem_wait(s) \/ rtos_sem_signal(s)
    \/ \E m \in Mutexes : rtos_mutex_lock(m) \/ rtos_mutex_unlock(m)
    \/ \E q \in Queues : \/ rtos_queue_receive(q)
                         \/ \E v \in Messages : rtos_queue_send(q, v)

PSpec == PInit /\ [][PNext]_pVars

-----------------------------------------------------------------------------
(* Properties.                                                             *)

Indices == 0 .. RTOS_QUEUE_SIZE - 1

PTypeOK ==
    /\ sem \in [Sems -> 0 .. MaxCount]
    /\ mutex \in [Mutexes -> [locked : BOOLEAN, owner : {NoOwner} \cup 1 .. MaxTasks]]
    /\ queue \in [Queues -> [buffer : [Indices -> Messages \cup {0}],
                             front : Indices, rear : Indices,
                             count : 0 .. RTOS_QUEUE_SIZE]]
    /\ received \in [Queues -> Messages \cup {0}]
    /\ wants \in [Slots -> Resources \cup {NoResource}]
    /\ retry \in [Resources -> SUBSET Slots]

WaitingFor(r) == {t \in Waiters(task_list, task_count, r[1]) : wants[t] = r}

(* How many calls for r could be served now.                               *)
Available(r) ==
    CASE r[1] = "SEMAPHORE"   -> sem[r[2]]
      [] r[1] = "MUTEX"       -> IF mutex[r[2]].locked THEN 0 ELSE 1
      [] r[1] = "QUEUE_EMPTY" -> queue[r[2]].count
      [] r[1] = "QUEUE_FULL"  -> RTOS_QUEUE_SIZE - queue[r[2]].count

(***************************************************************************)
(* No lost wake-up: while tasks wait for a resource, every unit of it that *)
(* is available is meant for a task that was woken and has not called yet. *)
(* README, "signals wake one waiter": a waiter left blocked beside a unit  *)
(* nobody was woken for would sleep through its own signal.  It holds with *)
(* one object of a kind, in any order of waits, signals, suspensions and   *)
(* sleeps.  With two semaphores it does not: a signal wakes the best task  *)
(* waiting for any semaphore (scheduler.c:478), which finds its own at     *)
(* zero, and the waiter of the signalled one stays blocked.                *)
(***************************************************************************)
NoLostWakeup ==
    \A r \in Resources :
        WaitingFor(r) # {} => Available(r) <= Cardinality(retry[r])

(***************************************************************************)
(* The ring of each message queue is a FIFO: front, rear and count wrap    *)
(* and meet without losing, repeating or reordering a message, at full, at *)
(* empty, and when sends and receives fail and are made again.             *)
(***************************************************************************)
Contents(q) ==
    [k \in 1 .. queue[q].count |->
        queue[q].buffer[(queue[q].front + k - 1) % RTOS_QUEUE_SIZE]]

Channels == INSTANCE Fifo WITH Capacity  <- RTOS_QUEUE_SIZE,
                               items     <- [q \in Queues |-> Contents(q)],
                               delivered <- received

QueueIsFifo == Channels!Spec

(***************************************************************************)
(* The scheduler sees nothing of the primitives but its own calls: what is *)
(* shown of Scheduler holds for every use of them.                         *)
(***************************************************************************)
ImplementsScheduler == Spec
=============================================================================
