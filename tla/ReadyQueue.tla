----------------------------- MODULE ReadyQueue -----------------------------
(***************************************************************************)
(* The task table and the static ready queue of src/src/scheduler.c, as    *)
(* operators on values: `tl' is the TCB array task_list[] and `q' the live *)
(* prefix ready_queue[0 .. ready_count-1], a sequence of task indices.     *)
(*                                                                         *)
(* Every kernel call that changes a task's state goes through              *)
(* scheduler_set_task_state(); WithState and Requeue are its two halves,   *)
(* so that a step that calls it more than once can compose them.           *)
(***************************************************************************)
EXTENDS Integers, SequencesExt

CONSTANT MaxTasks          \* RTOS_MAX_TASKS

ASSUME MaxTasksAssumption == MaxTasks \in Nat \ {0}

Slots  == 0 .. MaxTasks - 1     \* indices of task_list[]
NoTask == -1                    \* current_task_index before the first dispatch

TaskState   == {"READY", "RUNNING", "BLOCKED", "SUSPENDED"}
BlockReason == {"NONE", "SLEEP", "SEMAPHORE", "MUTEX",
                "QUEUE_EMPTY", "QUEUE_FULL", "EVENT"}

(***************************************************************************)
(* The TCB after scheduler_set_task_state(i, s, r): becoming READY clears  *)
(* the sleep count and the block reason, but never slice_ticks_used.       *)
(***************************************************************************)
SetState(tcb, s, r) ==
    [tcb EXCEPT !.state        = s,
                !.block_reason = IF s = "READY" THEN "NONE" ELSE r,
                !.sleep_ticks  = IF s = "READY" THEN 0 ELSE @]

WithState(tl, i, s, r) == [tl EXCEPT ![i] = SetState(tl[i], s, r)]

(* ready_queue_enqueue(): refuses a full queue and a task already queued.  *)
Enqueue(q, i) ==
    IF Len(q) < MaxTasks /\ ~Contains(q, i) THEN Append(q, i) ELSE q

(* Faulty variants: the old entry stays; a READY task enters at the head.  *)
RequeueKeepsEntry(q, i, s) == IF s = "READY" THEN Enqueue(q, i) ELSE q
RequeueAtHead(q, i, s) ==
    IF s = "READY" THEN <<i>> \o RemoveFirst(q, i) ELSE RemoveFirst(q, i)

(* The ready queue after scheduler_set_task_state(i, s, _): the entry is   *)
(* always removed, and a READY task re-enters at the tail.                 *)
Requeue(q, i, s) ==
    IF s = "READY" THEN Enqueue(RemoveFirst(q, i), i) ELSE RemoveFirst(q, i)

-----------------------------------------------------------------------------
(* The eviction done during the peek: entries whose task is not READY.     *)
Live(tl, q) ==
    IF \E p \in 1..Len(q) : tl[q[p]].state # "READY"
    THEN SelectSeq(q, LAMBDA i : tl[i].state = "READY")
    ELSE q

(***************************************************************************)
(* ready_queue_peek_highest_priority() returns b: the entry of highest     *)
(* priority, and among equals the one nearest the head.                    *)
(***************************************************************************)
IsPeek(tl, q, b) ==
    \E p \in 1..Len(q) :
        /\ q[p] = b
        /\ \A j \in 1..Len(q) :
              /\ tl[q[j]].priority <= tl[b].priority
              /\ j < p => tl[q[j]].priority < tl[b].priority

(***************************************************************************)
(* scheduler_unblock_one(reason) picks b out of the first n tasks: the     *)
(* highest priority waiter, the lowest index among equals.  The reason is  *)
(* all that is compared: not the object the task waits on.                 *)
(***************************************************************************)
Waiters(tl, n, reason) ==
    {i \in 0 .. n-1 : tl[i].state = "BLOCKED" /\ tl[i].block_reason = reason}

IsBestWaiter(tl, n, reason, b) ==
    /\ b \in Waiters(tl, n, reason)
    /\ \A i \in Waiters(tl, n, reason) :
          /\ tl[i].priority <= tl[b].priority
          /\ i < b => tl[i].priority < tl[b].priority
=============================================================================
