------------------------- MODULE TaskHistoryProofs --------------------------
(***************************************************************************)
(* What the kernel keeps for a task over its history, for every number of  *)
(* tasks, every set of sleeps and every width of the tick counter:         *)
(*                                                                         *)
(* The deadline of a sleep.  The kernel counts down, task by task; a task  *)
(* the pass has yet to reach has the present tick still to count, which    *)
(* SleepsKept states for every moment of the pass.  It is inductive.       *)
(*                                                                         *)
(* The registers.  A task's registers are in the register file if it was   *)
(* dispatched last, and in its TCB otherwise.  Wherever they are, they are *)
(* what it left (RegistersAreSeen), which is inductive with the invariant  *)
(* of the scheduler.                                                       *)
(***************************************************************************)
EXTENDS SleepTimes, SavedRegisters, SchedulerProofs

-----------------------------------------------------------------------------
(* Sleeps.                                                                 *)

(* The pass over the sleepers has not reached task t in this tick.         *)
ToCount(t) == IF pc = "sleep" /\ cursor <= t THEN -1 ELSE 0

SleepsKept ==
    /\ due \in [Slots -> 0 .. TickModulus - 1]
    /\ \A t \in Created : Sleeping(t) =>
          /\ task_list[t].sleep_ticks < TickModulus
          /\ due[t] = (g_kernel_tick + (SleepLeft(t) + ToCount(t))) % TickModulus

(* Task t sleeps after the step only as it did before.                     *)
SleepsOn(t) ==
    Sleeping(t)' => /\ t \in Created
                    /\ Sleeping(t)
                    /\ task_list'[t].sleep_ticks = task_list[t].sleep_ticks

LEMMA SetKeepsSleeps ==
    ASSUME Inv, NEW i \in Slots, NEW s \in TaskState, NEW r \in BlockReason \ {"SLEEP"},
           scheduler_set_task_state(i, s, r), UNCHANGED task_count,
           NEW t \in Created'
    PROVE  SleepsOn(t)
<1>1. Created' = Created /\ Created \subseteq Slots /\ task_list \in [Slots -> TCB]
  BY CreatedAreSlots DEF Inv, TypeOK, Created
<1>2. CASE i \in Created
  <2>1. task_list' = WithState(task_list, i, s, r)
    BY <1>2 DEF scheduler_set_task_state
  <2>2. /\ task_list'[i].block_reason # "SLEEP"
        /\ \A j \in Slots \ {i} : task_list'[j] = task_list[j]
    BY <1>1, <2>1, WithStateWaits
  <2> QED BY <1>1, <2>2 DEF SleepsOn, Sleeping, State
<1>3. CASE i \notin Created
  BY <1>1, <1>3 DEF scheduler_set_task_state, tables, SleepsOn, Sleeping, State
<1> QED BY <1>2, <1>3

LEMMA CreateKeepsSleeps ==
    ASSUME Inv, NEW p \in Priorities, rtos_create_task(p), NEW t \in Created'
    PROVE  SleepsOn(t)
<1> DEFINE i == task_count
           new == [ZeroTCB EXCEPT !.priority = p, !.state = "SUSPENDED",
                                  !.context = context_init(i)]
           tl == [task_list EXCEPT ![i] = new]
<1>1. /\ i \in Slots /\ Created' = Created \cup {i}
      /\ task_list' = WithState(tl, i, "READY", "NONE")
      /\ Created \subseteq Slots /\ task_list \in [Slots -> TCB]
      /\ "READY" \in TaskState /\ "NONE" \in BlockReason
  BY MaxTasksAssumption, CreatedAreSlots
  DEF rtos_create_task, NewTask, Inv, TypeOK, Slots, Created, TaskState, BlockReason
<1>2. new \in TCB
  <2>1. p \in Int /\ context_init(i) \in CPUContext /\ "SUSPENDED" \in TaskState
    BY <1>1, SchedulerAssumption DEF context_init, CPUContext, TaskState
  <2> QED BY <2>1, FreshTypes DEF TCB
<1> HIDE DEF new
<1>3. tl \in [Slots -> TCB] /\ \A j \in Slots \ {i} : tl[j] = task_list[j]
  BY <1>1, <1>2
<1> HIDE DEF tl
<1>4. /\ task_list'[i].state = "READY"
      /\ \A j \in Slots \ {i} : task_list'[j] = task_list[j]
  BY <1>1, <1>3, WithStateWaits
<1> QED BY <1>1, <1>4 DEF SleepsOn, Sleeping, State

(* The calls other than rtos_task_sleep() put nobody to sleep.             *)
LEMMA CallsKeepSleeps ==
    ASSUME Inv, Call, \A n \in SleepArgs : ~rtos_task_sleep(n), NEW t \in Created'
    PROVE  SleepsOn(t)
<1>0. /\ {"READY", "BLOCKED", "SUSPENDED"} \subseteq TaskState
      /\ WaitReasons \subseteq BlockReason \ {"SLEEP"}
      /\ "NONE" \in BlockReason \ {"SLEEP"}
  BY SchedulerAssumption DEF TaskState, BlockReason
<1>1. ASSUME NEW p \in Priorities, rtos_create_task(p) PROVE SleepsOn(t)
  BY <1>1, CreateKeepsSleeps
<1>2. ASSUME NEW i \in Slots, rtos_suspend_task(i) \/ rtos_resume_task(i) \/ WakeByIndex(i)
      PROVE  SleepsOn(t)
  <2>1. task_count' = task_count
    BY <1>2 DEF rtos_suspend_task, rtos_resume_task, WakeByIndex, rest
  <2> QED BY <1>0, <1>2, <2>1, SetKeepsSleeps
          DEF rtos_suspend_task, rtos_resume_task, WakeByIndex
<1>3. ASSUME NEW r \in WaitReasons, Block(r) PROVE SleepsOn(t)
  <2>1. current_task_index \in Slots /\ task_count' = task_count
    BY <1>3, CreatedAreSlots DEF Block, Inv, rest
  <2> QED BY <1>0, <1>3, <2>1, SetKeepsSleeps DEF Block
<1>4. ASSUME NEW r \in WaitReasons, Unblock(r) PROVE SleepsOn(t)
  <2>1. task_count' = task_count
    BY <1>4 DEF Unblock, rest
  <2>2. CASE UNCHANGED tables
    BY <2>1, <2>2 DEF tables, SleepsOn, Sleeping, State, Created
  <2>3. ASSUME NEW b \in Slots, scheduler_set_task_state(b, "READY", "NONE")
        PROVE  SleepsOn(t)
    BY <1>0, <2>1, <2>3, SetKeepsSleeps
  <2> QED BY <1>4, <2>2, <2>3 DEF Unblock, scheduler_unblock_one
<1>5. ASSUME NEW w \in Words, Compute(w) PROVE SleepsOn(t)
  BY <1>5 DEF Compute, tables, SleepsOn, Sleeping, State, Created
<1>6. CASE rtos_init
  BY <1>6 DEF rtos_init, Created
<1> QED BY <1>1, <1>2, <1>3, <1>4, <1>5, <1>6 DEF Call, ClientCall

LEMMA CallsKeepPhase ==
    ASSUME ClientCall
    PROVE  pc # "sleep" /\ UNCHANGED <<pc, g_kernel_tick>>
BY DEF ClientCall, rtos_create_task, NewTask, rtos_task_sleep, rtos_suspend_task,
       rtos_resume_task, WakeByIndex, Block, Unblock, Compute, CallSite, rest, control

LEMMA CyclePhases ==
    ASSUME Cycle
    PROVE  \/ timer_tick
           \/ timer_update_sleep
           \/ sleep_loop_done
           \/ pc # "sleep" /\ pc' # "sleep" /\ g_kernel_tick' = g_kernel_tick
BY DEF Cycle, soft_loop_done, Idle, Dispatch, FirstTick, Forced, Preempted,
       SliceExpired, Continue, RunAgain, do_context_switch, Load, TaskReturn

(* What is left of a sleep, and the tick it ends in.                       *)
LEMMA LeftBounds ==
    ASSUME TypeOK, SleepsKept, NEW t \in Created, Sleeping(t)
    PROVE  SleepLeft(t) \in Nat /\ SleepLeft(t) >= 1
           /\ (SleepLeft(t) < TickModulus \/ SleepLeft(t) = 1)
<1>1. task_list[t].sleep_ticks \in Int
  BY CreatedAreSlots DEF TypeOK, TCB
<1>2. task_list[t].sleep_ticks < TickModulus /\ TickModulus \in Nat \ {0}
  BY SchedulerAssumption DEF SleepsKept
<1> QED BY <1>1, <1>2 DEF SleepLeft

(* A step that keeps a sleeper's count keeps its deadline, if the tick and *)
(* the present tick's share of the count do not change.                    *)
LEMMA SleepsOnKeeps ==
    ASSUME SleepsKept, UNCHANGED <<g_kernel_tick, due>>,
           NEW t \in Created', Sleeping(t)', SleepsOn(t),
           ToCount(t)' = ToCount(t)
    PROVE  /\ task_list'[t].sleep_ticks < TickModulus
           /\ due'[t] = (g_kernel_tick' + (SleepLeft(t)' + ToCount(t)')) % TickModulus
BY DEF SleepsOn, SleepsKept, SleepLeft

LEMMA CallsPreserveSleeps ==
    ASSUME Inv, SleepsKept, Call, \A n \in SleepArgs : ~rtos_task_sleep(n), UNCHANGED due
    PROVE  SleepsKept'
<1>1. CASE ClientCall
  <2>1. pc # "sleep" /\ UNCHANGED <<pc, g_kernel_tick>>
    BY <1>1, CallsKeepPhase
  <2>2. \A t : ToCount(t)' = ToCount(t)
    BY <2>1 DEF ToCount
  <2> SUFFICES ASSUME NEW t \in Created', Sleeping(t)'
               PROVE  /\ task_list'[t].sleep_ticks < TickModulus
                      /\ due'[t] = (g_kernel_tick' + (SleepLeft(t)' + ToCount(t)')) % TickModulus
    BY DEF SleepsKept
  <2> QED BY <2>1, <2>2, CallsKeepSleeps, SleepsOnKeeps
<1>2. CASE rtos_init
  BY <1>2 DEF rtos_init, SleepsKept, Created
<1> QED BY <1>1, <1>2 DEF Call

LEMMA SleepCallPreservesSleeps ==
    ASSUME Inv, SleepsKept, NEW n \in SleepArgs, rtos_task_sleep(n),
           due' = [due EXCEPT ![current_task_index] = Deadline(n)]
    PROVE  SleepsKept'
<1> PICK c \in Created : c = current_task_index
  BY DEF rtos_task_sleep
<1> DEFINE new == [task_list[c] EXCEPT !.sleep_ticks = n]
           tl == [task_list EXCEPT ![c] = new]
<1>1. /\ Created \subseteq Slots /\ task_list \in [Slots -> TCB] /\ Created' = Created
      /\ n \in Int /\ "BLOCKED" \in TaskState /\ "SLEEP" \in BlockReason
      /\ pc # "sleep" /\ UNCHANGED <<pc, g_kernel_tick>>
  BY CreatedAreSlots, SchedulerAssumption
  DEF Inv, TypeOK, TaskState, BlockReason, rtos_task_sleep, rest, control, CallSite, Created
<1>2. new \in TCB /\ new.sleep_ticks = n
  BY <1>1 DEF TCB
<1>3. task_list' = WithState(tl, c, "BLOCKED", "SLEEP")
  BY DEF rtos_task_sleep
<1> HIDE DEF new
<1>4. tl \in [Slots -> TCB] /\ tl[c].sleep_ticks = n /\ \A j \in Slots \ {c} : tl[j] = task_list[j]
  BY <1>1, <1>2
<1> HIDE DEF tl
<1>5. /\ task_list'[c].sleep_ticks = n
      /\ \A j \in Slots \ {c} : task_list'[j] = task_list[j]
  BY <1>1, <1>3, <1>4, WithStateWaits
<1>6. due' \in [Slots -> 0 .. TickModulus - 1] /\ due'[c] = Deadline(n)
      /\ \A j \in Slots \ {c} : due'[j] = due[j]
  <2>1. \A m \in Int : (g_kernel_tick + m) % TickModulus \in 0 .. TickModulus - 1
    BY SchedulerAssumption DEF Inv, TypeOK
  <2>2. Deadline(n) \in 0 .. TickModulus - 1
    BY <1>1, <2>1 DEF Deadline
  <2> QED BY <1>1, <2>2 DEF SleepsKept
<1>7. \A t \in Created \ {c} : Sleeping(t)' <=> Sleeping(t)
  BY <1>1, <1>5 DEF Sleeping, State
<1>8. \A t \in Created \ {c} : SleepLeft(t)' = SleepLeft(t)
  BY <1>1, <1>5 DEF SleepLeft
<1>9. \A t : ToCount(t) = 0 /\ ToCount(t)' = 0
  BY <1>1 DEF ToCount
<1>10. SleepLeft(c)' \in Int /\ Deadline(n) = (g_kernel_tick + (SleepLeft(c)' + 0)) % TickModulus
  BY <1>1, <1>5 DEF SleepLeft, Deadline
<1>11. n < TickModulus
  BY SleepAssumption
<1>12. ASSUME NEW t \in Created', Sleeping(t)'
       PROVE  /\ task_list'[t].sleep_ticks < TickModulus
              /\ due'[t] = (g_kernel_tick' + (SleepLeft(t)' + ToCount(t)')) % TickModulus
  <2>1. CASE t = c
    BY <1>1, <1>5, <1>6, <1>9, <1>10, <1>11, <2>1
  <2>2. CASE t # c
    <3>1. t \in Created \ {c} /\ t \in Slots \ {c} /\ Sleeping(t)
      BY <1>1, <1>7, <1>12, <2>2
    <3> QED BY <1>1, <1>5, <1>6, <1>8, <1>9, <3>1 DEF SleepsKept
  <2> QED BY <2>1, <2>2
<1> QED BY <1>6, <1>12 DEF SleepsKept

LEMMA TickPreservesSleeps ==
    ASSUME Inv, SleepsKept, timer_tick, UNCHANGED due
    PROVE  SleepsKept'
<1>1. /\ UNCHANGED <<task_list, task_count>> /\ Created' = Created
      /\ pc = "app" /\ pc' = "sleep" /\ cursor' = 0
      /\ g_kernel_tick' = (g_kernel_tick + 1) % TickModulus
      /\ g_kernel_tick \in 0 .. TickModulus - 1 /\ TickModulus \in Nat \ {0}
  BY SchedulerAssumption DEF timer_tick, tables, Created, Inv, TypeOK
<1>2. ASSUME NEW t \in Created', Sleeping(t)'
      PROVE  /\ task_list'[t].sleep_ticks < TickModulus
             /\ due'[t] = (g_kernel_tick' + (SleepLeft(t)' + ToCount(t)')) % TickModulus
  <2>1. t \in Created /\ Sleeping(t) /\ t \in Nat /\ SleepLeft(t)' = SleepLeft(t)
    BY <1>1, <1>2 DEF Sleeping, State, SleepLeft, Created
  <2>2. ToCount(t) = 0 /\ ToCount(t)' = -1
    BY <1>1, <2>1 DEF ToCount
  <2> PICK n \in Nat : n = SleepLeft(t)
    BY <2>1, LeftBounds DEF Inv
  <2>3. n >= 1 /\ (n < TickModulus \/ n = 1)
    BY <2>1, LeftBounds DEF Inv
  <2>4. due'[t] = (g_kernel_tick + (n + 0)) % TickModulus
    BY <2>1, <2>2 DEF SleepsKept
  <2>5. due'[t] = (g_kernel_tick + n) % TickModulus
    BY <2>4
  <2>6. (g_kernel_tick' + (n + -1)) % TickModulus = (g_kernel_tick + n) % TickModulus
    <3>1. CASE n < TickModulus
      <4>1. n \in 1 .. TickModulus - 1
        BY <1>1, <2>3, <3>1
      <4> QED BY <1>1, <4>1, OneTickLess
    <3>2. CASE n = 1
      <4>1. (g_kernel_tick + 1) % TickModulus \in 0 .. TickModulus - 1
        BY <1>1
      <4>2. \A h \in 0 .. TickModulus - 1 : (h + (1 + -1)) % TickModulus = h
        BY <1>1
      <4> QED BY <1>1, <3>2, <4>1, <4>2
    <3> QED BY <2>3, <3>1, <3>2
  <2>7. task_list'[t].sleep_ticks < TickModulus
    BY <1>1, <2>1 DEF SleepsKept
  <2> QED BY <2>1, <2>2, <2>5, <2>6, <2>7
<1>3. due' \in [Slots -> 0 .. TickModulus - 1]
  BY DEF SleepsKept
<1> QED BY <1>2, <1>3 DEF SleepsKept

(* The pass of timer_update_sleep() at a sleeper c it has come to.         *)
LEMMA PassAtSleeper ==
    ASSUME Inv, timer_update_sleep, NEW c \in Created, c = cursor, Sleeping(c)
    PROVE  /\ \A j \in Slots \ {c} : task_list'[j] = task_list[j]
           /\ \/ /\ SleepDue(c)
                 /\ task_list'[c].state = "READY"
              \/ /\ ~SleepDue(c)
                 /\ task_list'[c].state = "BLOCKED"
                 /\ task_list'[c].block_reason = "SLEEP"
                 /\ task_list'[c].sleep_ticks = task_list[c].sleep_ticks - 1
<1>1. /\ c \in Slots /\ task_list \in [Slots -> TCB]
      /\ "READY" \in TaskState /\ "NONE" \in BlockReason
  BY CreatedAreSlots DEF Inv, TypeOK, TaskState, BlockReason
<1>2. CASE SleepDue(c) /\ scheduler_set_task_state(c, "READY", "NONE")
  <2>1. task_list' = WithState(task_list, c, "READY", "NONE")
    BY <1>2 DEF scheduler_set_task_state
  <2> QED BY <1>1, <1>2, <2>1, WithStateWaits
<1>3. CASE ~SleepDue(c) /\ task_list' = [task_list EXCEPT ![c].sleep_ticks = @ - 1]
  <2> DEFINE new == [task_list[c] EXCEPT !.sleep_ticks = @ - 1]
  <2>1. /\ new.state = "BLOCKED" /\ new.block_reason = "SLEEP"
        /\ new.sleep_ticks = task_list[c].sleep_ticks - 1
    BY <1>1 DEF Sleeping, State, TCB
  <2>2. task_list' = [task_list EXCEPT ![c] = new]
    BY <1>3
  <2> HIDE DEF new
  <2> QED BY <1>1, <1>3, <2>1, <2>2
<1> QED BY <1>2, <1>3 DEF timer_update_sleep

LEMMA PassPreservesSleeps ==
    ASSUME Inv, SleepsKept, timer_update_sleep, UNCHANGED due
    PROVE  SleepsKept'
<1> PICK c \in Created : c = cursor
  BY DEF timer_update_sleep, Inv, TypeOK, Created
<1>1. /\ Created' = Created /\ Created \subseteq Slots /\ Created \subseteq Nat
      /\ pc = "sleep" /\ pc' = "sleep" /\ cursor' = c + 1
      /\ UNCHANGED g_kernel_tick
  BY CreatedAreSlots DEF timer_update_sleep, Inv, Created
<1>2. \A j \in Created \ {c} : task_list'[j] = task_list[j]
  <2>1. CASE Sleeping(c)
    BY <1>1, <2>1, PassAtSleeper
  <2>2. CASE ~Sleeping(c)
    BY <2>2 DEF timer_update_sleep, tables
  <2> QED BY <2>1, <2>2
<1>3. ASSUME NEW t \in Created', Sleeping(t)'
      PROVE  /\ task_list'[t].sleep_ticks < TickModulus
             /\ due'[t] = (g_kernel_tick' + (SleepLeft(t)' + ToCount(t)')) % TickModulus
  <2>1. CASE t # c
    <3>1. SleepsOn(t)
      BY <1>1, <1>2, <1>3, <2>1 DEF SleepsOn, Sleeping, State
    <3>2. ToCount(t)' = ToCount(t)
      BY <1>1, <2>1 DEF ToCount
    <3> QED BY <1>1, <1>3, <3>1, <3>2, SleepsOnKeeps
  <2>2. CASE t = c
    <3>1. Sleeping(c)
      BY <1>3, <2>2 DEF timer_update_sleep, tables, Sleeping, State
    <3>2. /\ ~SleepDue(c)
          /\ task_list'[c].sleep_ticks = task_list[c].sleep_ticks - 1
      BY <1>3, <2>2, <3>1, PassAtSleeper DEF Sleeping, State
    <3> PICK n \in Int : n = task_list[c].sleep_ticks
      BY <1>1 DEF Inv, TypeOK, TCB
    <3>3. n > 1 /\ n < TickModulus
      BY <3>1, <3>2 DEF SleepDue, SleepsKept
    <3>4. SleepLeft(c) = n /\ SleepLeft(c)' = n - 1
      BY <3>2, <3>3 DEF SleepLeft
    <3>5. ToCount(c) = -1 /\ ToCount(c)' = 0
      BY <1>1 DEF ToCount
    <3>6. due[c] = (g_kernel_tick + (n + -1)) % TickModulus
      BY <3>1, <3>4, <3>5 DEF SleepsKept
    <3>7. n + -1 = (n - 1) + 0 /\ n - 1 < TickModulus
      BY <3>3, SchedulerAssumption
    <3> QED BY <1>1, <2>2, <3>2, <3>4, <3>5, <3>6, <3>7
  <2> QED BY <2>1, <2>2
<1>4. due' \in [Slots -> 0 .. TickModulus - 1]
  BY DEF SleepsKept
<1> QED BY <1>3, <1>4 DEF SleepsKept

LEMMA CyclePreservesSleeps ==
    ASSUME Inv, SleepsKept, Cycle, UNCHANGED due
    PROVE  SleepsKept'
<1>1. CASE timer_tick
  BY <1>1, TickPreservesSleeps
<1>2. CASE timer_update_sleep
  BY <1>2, PassPreservesSleeps
<1>3. CASE sleep_loop_done \/ (pc # "sleep" /\ pc' # "sleep" /\ UNCHANGED g_kernel_tick)
  <2>1. UNCHANGED g_kernel_tick /\ ~timer_update_sleep
    BY <1>3 DEF sleep_loop_done, timer_update_sleep
  <2>2. \A t \in Created : ToCount(t)' = ToCount(t)
    BY <1>3 DEF sleep_loop_done, ToCount, Created, Inv, TypeOK
  <2>3. Created' = Created
    BY CycleWaits DEF Created
  <2>4. \A t \in Created : SleepsOn(t)
    BY <2>1, CycleWaits DEF SameWait, SleepsOn, Sleeping, State
  <2>5. ASSUME NEW t \in Created', Sleeping(t)'
        PROVE  /\ task_list'[t].sleep_ticks < TickModulus
               /\ due'[t] = (g_kernel_tick' + (SleepLeft(t)' + ToCount(t)')) % TickModulus
    BY <2>1, <2>2, <2>3, <2>4, <2>5, SleepsOnKeeps
  <2>6. due' \in [Slots -> 0 .. TickModulus - 1]
    BY DEF SleepsKept
  <2> QED BY <2>5, <2>6 DEF SleepsKept
<1> QED BY <1>1, <1>2, <1>3, CyclePhases

LEMMA SleepInvariance == STSpec => [](Inv /\ SleepsKept)
<1>1. STInit => Inv /\ SleepsKept
  <2> SUFFICES ASSUME STInit PROVE Inv /\ SleepsKept
    OBVIOUS
  <2>1. Created = {}
    BY DEF STInit, Init, Created
  <2>2. 0 \in 0 .. TickModulus - 1
    BY SchedulerAssumption
  <2> QED BY <2>1, <2>2, InitEstablishes DEF STInit, SleepsKept
<1>2. Inv /\ SleepsKept /\ [STNext]_stVars => Inv' /\ SleepsKept'
  <2> SUFFICES ASSUME Inv, SleepsKept, [STNext]_stVars PROVE Inv' /\ SleepsKept'
    OBVIOUS
  <2>1. ASSUME NEW n \in SleepArgs, rtos_task_sleep(n),
               due' = [due EXCEPT ![current_task_index] = Deadline(n)]
        PROVE  Inv' /\ SleepsKept'
    BY <2>1, SleepCallPreserves, SleepCallPreservesSleeps
  <2>2. CASE Next /\ (\A n \in SleepArgs : ~rtos_task_sleep(n)) /\ UNCHANGED due
    <3>1. Inv'
      BY <2>2, NextPreserves
    <3>2. SleepsKept'
      BY <2>2, CyclePreservesSleeps, CallsPreserveSleeps DEF Next
    <3> QED BY <3>1, <3>2
  <2>3. CASE UNCHANGED stVars
    <3>1. UNCHANGED vars /\ UNCHANGED due
      BY <2>3 DEF stVars
    <3>2. Inv'
      BY <3>1, NextPreserves
    <3>3. SleepsKept'
      BY <3>1 DEF vars, SleepsKept, SleepLeft, ToCount, Sleeping, State, Created
    <3> QED BY <3>2, <3>3
  <2> QED BY <2>1, <2>2, <2>3 DEF STNext
<1> QED BY <1>1, <1>2, PTL DEF STSpec

(* README, "rtos_task_sleep(n) blocks a task for n ticks": between two     *)
(* passes what a sleeper has left is its distance from its deadline.       *)
THEOREM SleepersAreInTime == STSpec => []NobodyOversleeps
<1>1. Inv /\ SleepsKept => NobodyOversleeps
  <2> SUFFICES ASSUME Inv, SleepsKept, pc # "sleep", NEW t \in Created, Sleeping(t)
               PROVE  due[t] = (g_kernel_tick + SleepLeft(t)) % TickModulus
    BY DEF NobodyOversleeps
  <2>1. ToCount(t) = 0
    BY DEF ToCount
  <2>2. SleepLeft(t) + 0 = SleepLeft(t)
    BY LeftBounds DEF Inv
  <2> QED BY <2>1, <2>2 DEF SleepsKept
<1> QED BY <1>1, SleepInvariance, PTL

(***************************************************************************)
(* README, "rtos_task_sleep(n) blocks a task for n ticks": the pass wakes  *)
(* a sleeper in the tick it is due and in no other, whatever suspends,     *)
(* wakes and puts to sleep tasks meanwhile, and however the tick wraps.    *)
(***************************************************************************)
THEOREM SleepsEndOnTime == STSpec => SleepIsExact
<1> DEFINE P == \A t \in Slots :
          pc = "sleep" /\ cursor = t /\ t < task_count /\ Sleeping(t)
          => (IsReady(t)' <=> g_kernel_tick = due[t])
<1>1. Inv /\ SleepsKept /\ [STNext]_stVars => [P]_stVars
  <2> SUFFICES ASSUME Inv, SleepsKept, STNext, NEW t \in Slots,
                      pc = "sleep", cursor = t, t < task_count, Sleeping(t)
               PROVE  IsReady(t)' <=> g_kernel_tick = due[t]
    OBVIOUS
  <2>1. timer_update_sleep
    <3>1. ~ClientCall /\ ~rtos_init /\ \A n \in SleepArgs : ~rtos_task_sleep(n)
      BY CallsKeepPhase DEF rtos_init, rtos_task_sleep, CallSite
    <3>2. Cycle
      BY <3>1 DEF STNext, Next, Call
    <3> QED BY <3>2, CyclePhases DEF timer_tick, sleep_loop_done, Inv, TypeOK
  <2>2. t \in Created /\ Created' = Created
    BY <2>1 DEF Created, timer_update_sleep, Inv, TypeOK, Slots
  <2>3. IsReady(t)' <=> SleepDue(t)
    BY <2>1, <2>2, PassAtSleeper DEF IsReady, State
  <2> PICK n \in Int : n = task_list[t].sleep_ticks
    BY DEF Inv, TypeOK, TCB
  <2> PICK k \in Nat : k = SleepLeft(t)
    BY <2>2, LeftBounds DEF Inv
  <2>4. k >= 1 /\ (k < TickModulus \/ k = 1) /\ (k = 1 <=> SleepDue(t))
    BY <2>2, LeftBounds DEF Inv, SleepLeft, SleepDue
  <2>5. due[t] = (g_kernel_tick + (k + -1)) % TickModulus
    <3>1. ToCount(t) = -1
      BY DEF ToCount, Inv, TypeOK
    <3> QED BY <2>2, <3>1 DEF SleepsKept
  <2>6. g_kernel_tick \in 0 .. TickModulus - 1 /\ TickModulus \in Nat \ {0}
    BY SchedulerAssumption DEF Inv, TypeOK
  <2>7. k + -1 \in 0 .. TickModulus - 1
    BY <2>4, <2>6
  <2>8. due[t] = IF g_kernel_tick + (k + -1) < TickModulus THEN g_kernel_tick + (k + -1)
                 ELSE g_kernel_tick + (k + -1) - TickModulus
    BY <2>5, <2>6, <2>7, TickSum
  <2>9. g_kernel_tick = due[t] <=> k = 1
    BY <2>6, <2>7, <2>8
  <2> QED BY <2>3, <2>4, <2>9
<1> QED BY <1>1, SleepInvariance, PTL DEF STSpec, SleepIsExact

-----------------------------------------------------------------------------
(* Registers.                                                              *)

Registers(t) == IF t = current_task_index THEN active_context ELSE task_list[t].context

RegistersAreSeen ==
    /\ seen \in [Slots -> Words]
    /\ \A t \in Created : Registers(t) = [entry |-> t, word |-> seen[t]]

(* A step that moves no registers, or moves them between the register file *)
(* and the TCBs only, leaves every task what it had.                       *)
LEMMA WhereverTheyAre ==
    ASSUME Inv, RegistersAreSeen, Remember, Created' = Created,
           \A t \in Created : Registers(t)' = Registers(t),
           pc = "task" => UNCHANGED <<active_context, current_task_index>>
    PROVE  RegistersAreSeen'
<1>1. \A t \in Slots : seen'[t] = seen[t]
  <2> SUFFICES ASSUME NEW t \in Slots, pc = "task", t = current_task_index
               PROVE  active_context'.word = seen[t]
    BY DEF Remember
  <2>1. t \in Created /\ Registers(t) = active_context
    BY DEF Inv, RegistersBelong, Registers
  <2> QED BY <2>1 DEF RegistersAreSeen
<1>2. seen' \in [Slots -> Words]
  BY <1>1 DEF Remember, RegistersAreSeen
<1> QED BY <1>1, <1>2, CreatedAreSlots DEF Inv, RegistersAreSeen

(* Most steps leave the register file and the contexts alone.              *)
LEMMA SameContexts ==
    ASSUME Inv, RegistersAreSeen, Remember,
           UNCHANGED <<task_count, current_task_index, active_context>>,
           \A t \in Slots : task_list'[t].context = task_list[t].context
    PROVE  RegistersAreSeen'
<1>1. Created' = Created /\ \A t \in Created : Registers(t)' = Registers(t)
  BY CreatedAreSlots DEF Inv, Created, Registers
<1> QED BY <1>1, WhereverTheyAre

LEMMA SetKeepsContexts ==
    ASSUME TypeOK, NEW i \in Slots, NEW s \in TaskState, NEW r \in BlockReason,
           scheduler_set_task_state(i, s, r)
    PROVE  \A t \in Slots : task_list'[t].context = task_list[t].context
BY WithStateFields DEF scheduler_set_task_state, tables, TypeOK

(* The registers move with the dispatch: out of the register file into the *)
(* TCB of the outgoing task, and in from that of the incoming one.         *)
LEMMA SwitchMovesRegisters ==
    ASSUME Inv, pc = "decide", NEW b, Best(b),
           do_context_switch(cur_idx, b, task_list, RemoveFirst(ready_queue, b))
    PROVE  Created' = Created /\ \A t \in Created : Registers(t)' = Registers(t)
<1> DEFINE saved == IF cur_idx = NoTask THEN task_list
                    ELSE [task_list EXCEPT ![cur_idx].context = active_context]
           timed == [saved EXCEPT ![b].slice_ticks_used = 1]
<1>1. /\ b \in Slots /\ b \in Created /\ b # NoTask
      /\ cur_idx = current_task_index
      /\ cur_idx # NoTask => cur_idx \in Created
      /\ Created \subseteq Slots /\ NoTask \notin Slots
      /\ task_list \in [Slots -> TCB] /\ active_context \in CPUContext
  BY BestIsTop, NobodyRuns, CreatedAreSlots DEF IsReady, Inv, TypeOK, Slots, NoTask
<1>2. /\ task_list' = WithState(timed, b, "RUNNING", "NONE")
      /\ active_context' = saved[b].context
      /\ current_task_index' = b
      /\ Created' = Created
  BY DEF do_context_switch, Load, Created
<1>3. saved \in [Slots -> TCB] /\ \A t \in Created : saved[t].context = Registers(t)
  <2>1. CASE cur_idx = NoTask
    BY <1>1, <2>1 DEF Registers
  <2>2. CASE cur_idx # NoTask
    <3> DEFINE new == [task_list[cur_idx] EXCEPT !.context = active_context]
    <3>1. new \in TCB /\ new.context = active_context
      BY <1>1, <2>2 DEF TCB
    <3>2. saved = [task_list EXCEPT ![cur_idx] = new]
      BY <2>2
    <3> HIDE DEF new, saved
    <3> QED BY <1>1, <2>2, <3>1, <3>2 DEF Registers
  <2> QED BY <2>1, <2>2
<1> HIDE DEF saved
<1>4. timed \in [Slots -> TCB] /\ \A t \in Slots : timed[t].context = saved[t].context
  <2> DEFINE new == [saved[b] EXCEPT !.slice_ticks_used = 1]
  <2>1. 1 \in 0 .. SliceModulus - 1 /\ saved[b] \in TCB
    BY <1>1, <1>3, SchedulerAssumption
  <2>2. new \in TCB /\ new.context = saved[b].context
    BY <2>1 DEF TCB
  <2>3. timed = [saved EXCEPT ![b] = new]
    OBVIOUS
  <2> HIDE DEF new, timed
  <2> QED BY <1>1, <1>3, <2>2, <2>3
<1> HIDE DEF timed
<1>5. \A t \in Slots : task_list'[t].context = saved[t].context
  <2>1. "RUNNING" \in TaskState /\ "NONE" \in BlockReason
    BY DEF TaskState, BlockReason
  <2> QED BY <1>1, <1>2, <1>4, <2>1, WithStateFields
<1>6. ASSUME NEW t \in Created PROVE Registers(t)' = Registers(t)
  <2>1. CASE t = b
    BY <1>2, <1>3, <2>1 DEF Registers
  <2>2. CASE t # b
    BY <1>1, <1>2, <1>3, <1>5, <2>2 DEF Registers
  <2> QED BY <2>1, <2>2
<1> QED BY <1>2, <1>6

LEMMA CycleKeepsRegisters ==
    ASSUME Inv, RegistersAreSeen, Cycle, Remember
    PROVE  RegistersAreSeen'
<1>0. /\ task_list \in [Slots -> TCB] /\ Created \subseteq Slots
      /\ "READY" \in TaskState /\ "RUNNING" \in TaskState /\ "NONE" \in BlockReason
  BY CreatedAreSlots DEF Inv, TypeOK, TaskState, BlockReason
<1>1. CASE timer_tick \/ sleep_loop_done \/ soft_loop_done
  BY <1>1, SameContexts DEF timer_tick, sleep_loop_done, soft_loop_done, tables
<1>2. CASE timer_update_sleep
  <2>1. UNCHANGED <<task_count, current_task_index, active_context>>
    BY <1>2 DEF timer_update_sleep
  <2> PICK c \in Created : c = cursor
    BY <1>2 DEF timer_update_sleep, Inv, TypeOK, Created
  <2>2. CASE scheduler_set_task_state(c, "READY", "NONE")
    BY <1>0, <2>1, <2>2, SetKeepsContexts, SameContexts DEF Inv
  <2>3. CASE task_list' = [task_list EXCEPT ![c].sleep_ticks = @ - 1]
    <3> DEFINE new == [task_list[c] EXCEPT !.sleep_ticks = @ - 1]
    <3>1. new.context = task_list[c].context
      BY <1>0 DEF TCB
    <3>2. task_list' = [task_list EXCEPT ![c] = new]
      BY <2>3
    <3> HIDE DEF new
    <3>3. \A t \in Slots : task_list'[t].context = task_list[t].context
      BY <1>0, <3>1, <3>2
    <3> QED BY <2>1, <3>3, SameContexts
  <2>4. CASE UNCHANGED tables
    BY <2>1, <2>4, SameContexts DEF tables
  <2> QED BY <1>2, <2>2, <2>3, <2>4 DEF timer_update_sleep
<1>3. CASE Idle
  <2>1. UNCHANGED <<task_count, current_task_index, active_context>> /\ pc = "decide"
    BY <1>3 DEF Idle
  <2>2. CASE cur_idx = NoTask
    BY <1>3, <2>1, <2>2, SameContexts DEF Idle
  <2>3. CASE cur_idx # NoTask
    <3> PICK c \in Slots : c = cur_idx
      BY <1>0, <2>1, <2>3, NobodyRuns
    <3> DEFINE new == [task_list[c] EXCEPT !.slice_ticks_used = 0]
    <3>1. new.context = task_list[c].context
      BY <1>0 DEF TCB
    <3>2. task_list' = [task_list EXCEPT ![c] = new]
      BY <1>3, <2>3 DEF Idle
    <3> HIDE DEF new
    <3>3. \A t \in Slots : task_list'[t].context = task_list[t].context
      BY <1>0, <3>1, <3>2
    <3> QED BY <2>1, <3>3, SameContexts
  <2> QED BY <2>2, <2>3
<1>4. ASSUME NEW b \in Slots, FirstTick(b) \/ Forced(b) \/ Preempted(b) \/ SliceExpired(b)
      PROVE  RegistersAreSeen'
  <2>1. pc = "decide" /\ Best(b)
    BY <1>4 DEF FirstTick, Forced, Preempted, SliceExpired
  <2>2. do_context_switch(cur_idx, b, task_list, RemoveFirst(ready_queue, b))
    BY <1>4, <2>1, NobodyRuns, NothingIsStale
    DEF FirstTick, Forced, Preempted, SliceExpired
  <2> QED BY <2>1, <2>2, SwitchMovesRegisters, WhereverTheyAre
<1>5. ASSUME NEW b \in Slots, Continue(b)
      PROVE  RegistersAreSeen'
  <2>1. /\ UNCHANGED <<task_count, current_task_index, active_context>>
        /\ pc = "decide" /\ cur_idx # NoTask
    BY <1>5 DEF Continue, RunAgain
  <2> PICK c \in Slots : c = cur_idx
    BY <1>0, <2>1, NobodyRuns
  <2> DEFINE new == [task_list[c] EXCEPT !.slice_ticks_used = (@ + 1) % SliceModulus]
             counted == [task_list EXCEPT ![c] = new]
  <2>2. \A x \in 0 .. SliceModulus - 1 : (x + 1) % SliceModulus \in 0 .. SliceModulus - 1
    BY SchedulerAssumption
  <2>3. new \in TCB /\ new.context = task_list[c].context
    BY <1>0, <2>2 DEF TCB
  <2>4. task_list' = WithState(counted, c, "RUNNING", "NONE")
    BY <1>5 DEF Continue, RunAgain
  <2> HIDE DEF new
  <2>5. /\ counted \in [Slots -> TCB]
        /\ \A t \in Slots : counted[t].context = task_list[t].context
    BY <1>0, <2>3
  <2> HIDE DEF counted
  <2>6. \A t \in Slots : task_list'[t].context = task_list[t].context
    BY <1>0, <2>4, <2>5, WithStateFields
  <2> QED BY <2>1, <2>6, SameContexts
<1>6. CASE TaskReturn
  <2>1. UNCHANGED <<task_count, current_task_index, active_context>>
    BY <1>6 DEF TaskReturn
  <2>2. CASE UNCHANGED tables
    BY <2>1, <2>2, SameContexts DEF tables
  <2>3. CASE scheduler_set_task_state(current_task_index, "READY", "NONE")
    <3>1. current_task_index \in Slots
      BY <1>0, <1>6 DEF TaskReturn, Inv, RegistersBelong
    <3> QED BY <1>0, <2>1, <2>3, <3>1, SetKeepsContexts, SameContexts DEF Inv
  <2> QED BY <1>6, <2>2, <2>3 DEF TaskReturn
<1> QED BY <1>1, <1>2, <1>3, <1>4, <1>5, <1>6 DEF Cycle, Dispatch

LEMMA CallsKeepRegisters ==
    ASSUME Inv, RegistersAreSeen, Call, Remember
    PROVE  RegistersAreSeen'
<1>0. /\ task_list \in [Slots -> TCB] /\ Created \subseteq Slots
      /\ {"READY", "BLOCKED", "SUSPENDED"} \subseteq TaskState
      /\ WaitReasons \subseteq BlockReason /\ "NONE" \in BlockReason /\ "SLEEP" \in BlockReason
  BY CreatedAreSlots, SchedulerAssumption DEF Inv, TypeOK, TaskState, BlockReason
<1>1. ASSUME NEW i \in Slots, NEW s \in TaskState, NEW r \in BlockReason,
             scheduler_set_task_state(i, s, r), UNCHANGED rest
      PROVE  RegistersAreSeen'
  BY <1>1, SetKeepsContexts, SameContexts DEF Inv, rest
<1>2. ASSUME NEW i \in Slots, rtos_suspend_task(i) \/ rtos_resume_task(i) \/ WakeByIndex(i)
      PROVE  RegistersAreSeen'
  BY <1>0, <1>1, <1>2 DEF rtos_suspend_task, rtos_resume_task, WakeByIndex
<1>3. ASSUME NEW r \in WaitReasons, Block(r) PROVE RegistersAreSeen'
  BY <1>0, <1>1, <1>3 DEF Block
<1>4. ASSUME NEW r \in WaitReasons, Unblock(r) PROVE RegistersAreSeen'
  <2>1. CASE UNCHANGED tables
    BY <1>4, <2>1, SameContexts DEF Unblock, rest, tables
  <2> QED BY <1>0, <1>1, <1>4, <2>1 DEF Unblock, scheduler_unblock_one
<1>5. ASSUME NEW n \in SleepArgs, rtos_task_sleep(n) PROVE RegistersAreSeen'
  <2> PICK c \in Created : c = current_task_index
    BY <1>5 DEF rtos_task_sleep
  <2> DEFINE new == [task_list[c] EXCEPT !.sleep_ticks = n]
             tl == [task_list EXCEPT ![c] = new]
  <2>1. new \in TCB /\ new.context = task_list[c].context
    BY <1>0, SchedulerAssumption DEF TCB
  <2>2. task_list' = WithState(tl, c, "BLOCKED", "SLEEP")
    BY <1>5 DEF rtos_task_sleep
  <2> HIDE DEF new
  <2>3. tl \in [Slots -> TCB] /\ \A t \in Slots : tl[t].context = task_list[t].context
    BY <1>0, <2>1
  <2> HIDE DEF tl
  <2>4. \A t \in Slots : task_list'[t].context = task_list[t].context
    <3>1. c \in Slots /\ "BLOCKED" \in TaskState /\ "SLEEP" \in BlockReason
      BY <1>0
    <3> QED BY <2>2, <2>3, <3>1, WithStateFields
  <2> QED BY <1>5, <2>4, SameContexts DEF rtos_task_sleep, rest
<1>6. ASSUME NEW p \in Priorities, rtos_create_task(p) PROVE RegistersAreSeen'
  <2> DEFINE i == task_count
             new == [ZeroTCB EXCEPT !.priority = p, !.state = "SUSPENDED",
                                    !.context = context_init(i)]
             tl == [task_list EXCEPT ![i] = new]
  <2>1. /\ i \in Slots /\ i \notin Created /\ Created' = Created \cup {i}
        /\ task_list' = WithState(tl, i, "READY", "NONE")
        /\ UNCHANGED <<current_task_index, active_context, pc>>
    BY <1>6, MaxTasksAssumption
    DEF rtos_create_task, NewTask, Inv, TypeOK, Slots, Created, control
  <2>2. current_task_index # i /\ (pc = "task" => current_task_index \in Created)
    BY <2>1, MaxTasksAssumption DEF Inv, RegistersBelong, Slots, NoTask
  <2>3. new \in TCB /\ new.context = context_init(i)
    <3>1. p \in Int /\ context_init(i) \in CPUContext /\ "SUSPENDED" \in TaskState
      BY <1>0, <2>1, SchedulerAssumption DEF context_init, CPUContext
    <3> QED BY <3>1, FreshTypes DEF TCB
  <2> HIDE DEF new
  <2>4. tl \in [Slots -> TCB] /\ tl[i] = new /\ \A t \in Slots \ {i} : tl[t] = task_list[t]
    BY <1>0, <2>1, <2>3
  <2> HIDE DEF tl
  <2>5. /\ task_list'[i].context = [entry |-> i, word |-> 0]
        /\ \A t \in Slots \ {i} : task_list'[t].context = task_list[t].context
    BY <1>0, <2>1, <2>3, <2>4, WithStateFields DEF context_init
  <2>6. seen' = [t \in Slots |-> IF t = i THEN 0
                                 ELSE IF pc = "task" /\ t = current_task_index
                                      THEN active_context.word ELSE seen[t]]
    BY <2>1 DEF Remember
  <2>7. \A t \in Created : t # i /\ seen'[t] = seen[t]
    <3> SUFFICES ASSUME NEW t \in Created, pc = "task", t = current_task_index
                 PROVE  active_context.word = seen[t]
      BY <1>0, <2>1, <2>6
    <3>1. Registers(t) = active_context
      BY DEF Registers
    <3> QED BY <3>1 DEF RegistersAreSeen
  <2>8. seen' \in [Slots -> Words] /\ seen'[i] = 0
    <3>1. 0 \in Words /\ active_context.word \in Words
      BY SchedulerAssumption DEF Inv, TypeOK, CPUContext
    <3> QED BY <2>1, <2>6, <3>1 DEF RegistersAreSeen
  <2>9. \A t \in Created' : Registers(t)' = [entry |-> t, word |-> seen'[t]]
    BY <1>0, <2>1, <2>2, <2>5, <2>7, <2>8 DEF Registers, RegistersAreSeen
  <2> QED BY <2>8, <2>9 DEF RegistersAreSeen
<1>7. ASSUME NEW w \in Words, Compute(w) PROVE RegistersAreSeen'
  <2> PICK c \in Created : c = current_task_index
    BY <1>7 DEF Compute, Inv, RegistersBelong
  <2>1. /\ UNCHANGED <<task_list, current_task_index>> /\ Created' = Created /\ pc = "task"
        /\ active_context' = [active_context EXCEPT !.word = w]
    BY <1>7 DEF Compute, tables, Created
  <2>2. active_context' = [entry |-> c, word |-> w] /\ active_context'.word = w
    BY <2>1 DEF Inv, TypeOK, RegistersBelong, CPUContext, Created, NoTask
  <2>3. seen' = [t \in Slots |-> IF t = c THEN w ELSE seen[t]]
    BY <2>1, <2>2 DEF Remember
  <2> QED BY <1>0, <2>1, <2>2, <2>3 DEF RegistersAreSeen, Registers
<1>8. CASE rtos_init
  <2>1. Created' = {} /\ pc = "app"
    BY <1>8 DEF rtos_init, Created
  <2>2. seen' = seen
    BY <2>1 DEF Remember, RegistersAreSeen
  <2> QED BY <2>1, <2>2 DEF RegistersAreSeen
<1> QED BY <1>2, <1>3, <1>4, <1>5, <1>6, <1>7, <1>8 DEF Call, ClientCall

LEMMA RegisterInvariance == SRSpec => [](Inv /\ RegistersAreSeen)
<1>1. SRInit => Inv /\ RegistersAreSeen
  <2> SUFFICES ASSUME SRInit PROVE Inv /\ RegistersAreSeen
    OBVIOUS
  <2>1. Created = {} /\ 0 \in Words
    BY SchedulerAssumption DEF SRInit, Init, Created
  <2> QED BY <2>1, InitEstablishes DEF SRInit, RegistersAreSeen
<1>2. Inv /\ RegistersAreSeen /\ [SRNext]_srVars => Inv' /\ RegistersAreSeen'
  <2> SUFFICES ASSUME Inv, RegistersAreSeen, [SRNext]_srVars PROVE Inv' /\ RegistersAreSeen'
    OBVIOUS
  <2>1. CASE SRNext
    BY <2>1, NextPreserves, CycleKeepsRegisters, CallsKeepRegisters DEF SRNext, Next
  <2>2. CASE UNCHANGED srVars
    <3>1. UNCHANGED vars /\ UNCHANGED seen
      BY <2>2 DEF srVars
    <3>2. Inv'
      BY <3>1, NextPreserves
    <3>3. RegistersAreSeen'
      BY <3>1 DEF vars, RegistersAreSeen, Registers, Created
    <3> QED BY <3>2, <3>3
  <2> QED BY <2>1, <2>2
<1> QED BY <1>1, <1>2, PTL DEF SRSpec

(***************************************************************************)
(* context.c, a task "can resume from exactly this point on its next       *)
(* scheduling turn": through any number of switches, Continue runs, idle   *)
(* cycles and calls its registers are what it left in them.                *)
(***************************************************************************)
THEOREM TasksResumeWhereTheyLeft == SRSpec => []ResumesWhereItLeft
<1>1. Inv /\ RegistersAreSeen => ResumesWhereItLeft
  BY DEF Inv, RegistersBelong, RegistersAreSeen, Registers, ResumesWhereItLeft
<1> QED BY <1>1, RegisterInvariance, PTL
=============================================================================
