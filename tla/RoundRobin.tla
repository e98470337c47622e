----------------------------- MODULE RoundRobin -----------------------------
(***************************************************************************)
(* Fairness of the time-slice rotation of scheduler.c among tasks of equal *)
(* priority.  The scheduler is Scheduler with one history variable:        *)
(*   passed[t]  the ticks given to other tasks of t's priority since t     *)
(*              became READY or was last dispatched, counted to one past   *)
(*              Longest, the bound that is claimed                         *)
(***************************************************************************)
EXTENDS Scheduler

VARIABLE passed

rrVars == <<vars, passed>>

(* One full slice of each of the other tasks, and one tick.                *)
Longest == (MaxTasks - 1) * TimeSlice + 1

RRInit == Init /\ passed = [t \in Slots |-> 0]

(* The step dispatches a task, as switch or Continue, and it is not t.     *)
PassesOver(t) ==
    /\ pc = "decide"
    /\ pc' = "task"
    /\ current_task_index' # t
    /\ Priority(current_task_index') = Priority(t)

RRNext ==
    /\ Next
    /\ passed' = [t \in Slots |->
          IF ~IsReady(t)' THEN 0
          ELSE IF PassesOver(t) /\ passed[t] <= Longest THEN passed[t] + 1
          ELSE passed[t]]

(* scheduler_run() keeps being called, and task functions and callbacks    *)
(* return; nothing obliges a client to make any call.                      *)
RRSpec == RRInit /\ [][RRNext]_rrVars /\ WF_vars(Cycle)

(***************************************************************************)
(* A READY task is passed over by at most one full slice of each of the    *)
(* other tasks, whoever blocks, wakes, preempts or is created meanwhile.   *)
(* The one tick more is for the 32-bit counter of a task that ran alone    *)
(* for 2^32 ticks: scheduler.c:409 wraps it to 0 and it starts afresh.     *)
(***************************************************************************)
BoundedWait ==
    \A t \in Slots : passed[t] <= Longest

TopReady(t) ==
    IsReady(t) /\ \A i \in Slots : IsReady(i) => Priority(i) <= Priority(t)

(***************************************************************************)
(* The rotation starves nobody: a READY task of top priority does not stay *)
(* so forever.  It is dispatched, or something of higher priority becomes  *)
(* READY, or a call takes it out of the READY state.                       *)
(***************************************************************************)
NoStarvation == \A t \in Slots : TopReady(t) ~> ~TopReady(t)
=============================================================================
