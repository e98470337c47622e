----------------------------- MODULE SleepTimes -----------------------------
(***************************************************************************)
(* Time: Scheduler with one history variable,                              *)
(*   due[t]  the tick at which the last rtos_task_sleep() of t should end: *)
(*           n ticks after the call, and not before the next tick          *)
(* The kernel keeps no such deadline.  It counts down one task at a time,  *)
(* once a tick, on a tick counter that wraps.                              *)
(***************************************************************************)
EXTENDS Scheduler

(* An int count is below the 2^32 of the tick counter.                     *)
ASSUME SleepAssumption == \A n \in SleepArgs : n < TickModulus

VARIABLE due

stVars == <<vars, due>>

STInit == Init /\ due = [t \in Slots |-> 0]

Deadline(n) == (g_kernel_tick + (IF n < 1 THEN 1 ELSE n)) % TickModulus

STNext ==
    \/ \E n \in SleepArgs :
          /\ rtos_task_sleep(n)
          /\ due' = [due EXCEPT ![current_task_index] = Deadline(n)]
    \/ /\ Next
       /\ \A n \in SleepArgs : ~rtos_task_sleep(n)
       /\ UNCHANGED due

STSpec == STInit /\ [][STNext]_stVars

(***************************************************************************)
(* README, "rtos_task_sleep(n) blocks a task for n ticks": the pass of     *)
(* timer_update_sleep() over task t wakes it in the tick it is due and in  *)
(* no other.  Holds across suspend and resume, sleeps cut short or         *)
(* replaced, calls made by timer callbacks and main() on behalf of the     *)
(* last task, and the wrap of the tick.                                    *)
(***************************************************************************)
SleepIsExact ==
    [][ \A t \in Slots :
          pc = "sleep" /\ cursor = t /\ t < task_count /\ Sleeping(t)
          => (IsReady(t)' <=> g_kernel_tick = due[t]) ]_stVars

(* Nobody oversleeps: after the pass a sleeper's deadline is still ahead,  *)
(* by exactly the count it has left (a count below 1 means one tick).      *)
SleepLeft(t) ==
    IF task_list[t].sleep_ticks < 1 THEN 1 ELSE task_list[t].sleep_ticks

NobodyOversleeps ==
    pc # "sleep" =>
      \A t \in Created :
        Sleeping(t) => due[t] = (g_kernel_tick + SleepLeft(t)) % TickModulus
=============================================================================
