-------------------------- MODULE SoftTimersProofs ---------------------------
(***************************************************************************)
(* The software timers for every pool size, set of periods and width of    *)
(* the tick counter, whatever calls callbacks, tasks and main() make.      *)
(*                                                                         *)
(* The countdown of a timer and its deadline are tied to each other by     *)
(* CountdownIsDeadline, which with the types is inductive: a timer the     *)
(* pass has not reached has the present tick still to count.  That a timer *)
(* fires in the tick it is due, and in no other, follows from it.          *)
(***************************************************************************)
EXTENDS SoftTimers, SchedulerProofs

TInv == TTypeOK /\ CountdownIsDeadline

(* What the timers see of the scheduler's cycle: the tick starts a pass,   *)
(* and nothing else changes it or the phase of the pass.                   *)
LEMMA CycleOutsidePass ==
    ASSUME Cycle, pc # "soft"
    PROVE  \/ /\ pc = "app" /\ pc' = "sleep"
              /\ g_kernel_tick' = (g_kernel_tick + 1) % TickModulus
           \/ /\ pc = "sleep" /\ pc' \in {"sleep", "soft"}
              /\ g_kernel_tick' = g_kernel_tick
           \/ /\ pc \in {"decide", "task"} /\ pc' \in {"app", "task"}
              /\ g_kernel_tick' = g_kernel_tick
BY DEF Cycle, timer_tick, timer_update_sleep, sleep_loop_done, soft_loop_done, Idle,
       Dispatch, FirstTick, Forced, Preempted, SliceExpired, Continue, RunAgain,
       do_context_switch, Load, TaskReturn

LEMMA CallsKeepTime ==
    ASSUME ClientCall
    PROVE  UNCHANGED <<pc, g_kernel_tick>>
BY DEF ClientCall, rtos_create_task, NewTask, rtos_task_sleep, rtos_suspend_task,
       rtos_resume_task, WakeByIndex, Block, Unblock, Compute, rest, control

(***************************************************************************)
(* timer.c acts on tasks only through the calls its callbacks make: the    *)
(* kernel under it is the scheduler's model, with all of its theorems.     *)
(***************************************************************************)
LEMMA TimerStep ==
    ASSUME [TNext]_tVars
    PROVE  [Next]_vars
<1>1. CASE TimerCycle
  BY <1>1 DEF TimerCycle, soft_skip, soft_decrement, soft_expire,
     soft_callback_done, soft_done, Next, Cycle
<1>2. CASE KernelCall
  BY <1>2 DEF KernelCall, Next, Call
<1>3. CASE \/ \E mode \in TimerMode, p \in Periods : timer_soft_create(mode, p)
           \/ \E i \in TimerSlots :
                 timer_soft_start(i) \/ timer_soft_stop(i) \/ timer_soft_delete(i)
  BY <1>3 DEF timer_soft_create, timer_soft_start, timer_soft_stop, timer_soft_delete
<1>4. CASE UNCHANGED tVars
  BY <1>4 DEF tVars, vars
<1> QED BY <1>1, <1>2, <1>3, <1>4 DEF TNext

THEOREM TimersImplementScheduler == TSpec => Spec
<1>1. TInit => Init
  BY DEF TInit
<1> QED BY <1>1, TimerStep, PTL DEF TSpec, Spec

-----------------------------------------------------------------------------
(* The invariant.                                                          *)

(* A countdown is never longer than the tick counter can tell.             *)
LEMMA Countdowns ==
    ASSUME TTypeOK, NEW i \in TimerSlots, Armed(i), in_callback => i # slot
    PROVE  g_soft_timers[i].remaining \in 1 .. TickModulus - 1
<1>1. /\ InUse(i)
      /\ g_soft_timers[i].period_ticks \in Periods
      /\ g_soft_timers[i].remaining \in 1 .. g_soft_timers[i].period_ticks
  BY DEF TTypeOK, Armed
<1>2. g_soft_timers[i].period_ticks \in 1 .. TickModulus - 1
  BY <1>1, TimerAssumption
<1> QED BY <1>1, <1>2, SchedulerAssumption

LEMMA TInitEstablishes ==
    ASSUME TInit
    PROVE  TInv
<1>1. RTOS_SOFT_TIMER_COUNT \in Nat \ {0}
  BY TimerAssumption
<1>2. \A i \in TimerSlots : ~Armed(i) /\ ~InUse(i) /\ due[i] = NotDue
  BY DEF TInit, Armed, InUse, ZeroTimer
<1>3. ZeroTimer \in SoftTimer
  BY DEF ZeroTimer, SoftTimer, TimerMode
<1>4. TTypeOK
  <2>1. g_soft_timers \in [TimerSlots -> SoftTimer]
    BY <1>3 DEF TInit
  <2>2. due \in [TimerSlots -> {NotDue} \cup 0 .. TickModulus - 1]
    BY DEF TInit
  <2>3. in_callback \in BOOLEAN /\ ~in_callback /\ slot = 0
    BY DEF TInit
  <2> QED BY <1>1, <1>2, <2>1, <2>2, <2>3 DEF TTypeOK
<1> QED BY <1>2, <1>4 DEF TInv, CountdownIsDeadline

(* The rest of the cycle: the tick makes every timer pending, and the      *)
(* scheduler's decision comes when the pass is over.                       *)
LEMMA CyclePreserves ==
    ASSUME TypeOK, TInv, Cycle, pc # "soft",
           UNCHANGED <<g_soft_timers, slot, in_callback, due>>
    PROVE  TInv'
<1>1. slot = 0 /\ ~in_callback
  BY DEF TInv, TTypeOK
<1>2. \A i \in TimerSlots : /\ InUse(i)' = InUse(i)
                            /\ Armed(i)' = Armed(i)
                            /\ ~Reached(i) /\ ~Reached(i)'
  BY <1>1, TimerAssumption DEF InUse, Armed, Reached, TimerSlots
<1>3. TTypeOK'
  BY <1>1, CycleOutsidePass DEF TInv, TTypeOK, InUse, Armed
<1>4. ASSUME NEW i \in TimerSlots, Armed(i)
      PROVE  due[i] = (g_kernel_tick' + (g_soft_timers[i].remaining
                          + (IF Pending(i)' THEN -1 ELSE 0))) % TickModulus
  <2> DEFINE r == g_soft_timers[i].remaining
  <2>1. r \in 1 .. TickModulus - 1
    BY <1>1, <1>4, Countdowns DEF TInv
  <2>2. due[i] = (g_kernel_tick + (r + (IF Pending(i) THEN -1 ELSE 0))) % TickModulus
    BY <1>1, <1>4 DEF TInv, CountdownIsDeadline, TickIn
  <2>3. g_kernel_tick \in 0 .. TickModulus - 1
    BY DEF TypeOK
  <2>4. CASE pc = "app" /\ g_kernel_tick' = (g_kernel_tick + 1) % TickModulus /\ pc' = "sleep"
    <3>1. ~Pending(i) /\ Pending(i)'
      BY <1>2, <2>4 DEF Pending
    <3>2. due[i] = (g_kernel_tick + r) % TickModulus
      BY <2>1, <2>2, <3>1
    <3> HIDE DEF r
    <3>3. due[i] = (g_kernel_tick' + (r + -1)) % TickModulus
      BY <2>1, <2>3, <2>4, <3>2, OneTickLess
    <3> QED BY <3>1, <3>3 DEF r
  <2>5. CASE g_kernel_tick' = g_kernel_tick /\ Pending(i)' = Pending(i)
    BY <2>2, <2>5
  <2> QED BY <1>2, <2>4, <2>5, CycleOutsidePass DEF Pending
<1>5. CountdownIsDeadline'
  BY <1>1, <1>2, <1>4 DEF TInv, CountdownIsDeadline, TickIn
<1> QED BY <1>3, <1>5 DEF TInv

(* A step that writes one slot leaves the other timers alone.              *)
LEMMA OneTimer ==
    ASSUME TTypeOK, NEW i \in TimerSlots, NEW t \in SoftTimer,
           g_soft_timers' = [g_soft_timers EXCEPT ![i] = t]
    PROVE  /\ g_soft_timers' \in [TimerSlots -> SoftTimer]
           /\ g_soft_timers'[i] = t
           /\ InUse(i)' <=> t.in_use
           /\ Armed(i)' <=> t.in_use /\ t.active
           /\ \A j \in TimerSlots \ {i} : /\ g_soft_timers'[j] = g_soft_timers[j]
                                          /\ InUse(j)' <=> InUse(j)
                                          /\ Armed(j)' <=> Armed(j)
BY DEF TTypeOK, InUse, Armed

(* The pass passes over a timer that is not armed.                         *)
LEMMA SkipPreserves ==
    ASSUME TInv, soft_skip
    PROVE  TInv'
<1>1. /\ pc = "soft" /\ pc' = "soft" /\ g_kernel_tick' = g_kernel_tick
      /\ ~in_callback /\ ~in_callback' /\ in_callback' = in_callback
      /\ slot < RTOS_SOFT_TIMER_COUNT /\ slot' = slot + 1
      /\ ~Armed(slot)
      /\ UNCHANGED <<g_soft_timers, due>>
  BY DEF soft_skip, AtSlot, vars
<1>2. slot \in TimerSlots /\ slot \in Nat /\ slot' \in 0 .. RTOS_SOFT_TIMER_COUNT
  BY <1>1, TimerAssumption DEF TInv, TTypeOK, TimerSlots
<1>3. TTypeOK'
  BY <1>1, <1>2 DEF TInv, TTypeOK, InUse, Armed
<1>4. \A i \in TimerSlots : Armed(i) => (Pending(i)' <=> Pending(i))
  BY <1>1, <1>2 DEF Pending, Reached, TimerSlots
<1>5. CountdownIsDeadline'
  BY <1>1, <1>4 DEF TInv, CountdownIsDeadline, TickIn, Armed, InUse
<1> QED BY <1>3, <1>5 DEF TInv

(* The tick is counted: a timer that has been reached is not pending.      *)
LEMMA DecrementPreserves ==
    ASSUME TInv, soft_decrement
    PROVE  TInv'
<1>1. /\ pc = "soft" /\ pc' = "soft" /\ g_kernel_tick' = g_kernel_tick
      /\ ~in_callback /\ ~in_callback' /\ in_callback' = in_callback
      /\ slot < RTOS_SOFT_TIMER_COUNT /\ slot' = slot + 1
      /\ due' = due
  BY DEF soft_decrement, AtSlot, vars
<1>2. slot \in TimerSlots /\ slot \in Nat /\ slot' \in 0 .. RTOS_SOFT_TIMER_COUNT
  BY <1>1, TimerAssumption DEF TInv, TTypeOK, TimerSlots
<1> PICK s \in TimerSlots : s = slot
  BY <1>2
<1> DEFINE t == [g_soft_timers[s] EXCEPT !.remaining = Left(s)]
<1>3. /\ Armed(s) /\ Left(s) > 0
      /\ g_soft_timers' = [g_soft_timers EXCEPT ![s] = t]
  BY DEF soft_decrement, CountDown
<1>4. /\ g_soft_timers[s] \in SoftTimer
      /\ g_soft_timers[s].remaining \in 1 .. g_soft_timers[s].period_ticks
      /\ g_soft_timers[s].period_ticks \in Nat
      /\ Left(s) = g_soft_timers[s].remaining - 1
  BY <1>1, <1>3 DEF TInv, TTypeOK, Left, SoftTimer
<1>5. /\ t \in SoftTimer /\ t.remaining = g_soft_timers[s].remaining - 1
      /\ t.remaining \in 1 .. t.period_ticks
      /\ t.period_ticks = g_soft_timers[s].period_ticks
      /\ t.in_use = g_soft_timers[s].in_use
      /\ t.active = g_soft_timers[s].active
  BY <1>3, <1>4 DEF SoftTimer
<1>6. t.in_use /\ t.active /\ InUse(s)
  BY <1>3, <1>5 DEF Armed, InUse
<1> HIDE DEF t
<1>7. /\ g_soft_timers' \in [TimerSlots -> SoftTimer]
      /\ g_soft_timers'[s] = t
      /\ \A j \in TimerSlots : InUse(j)' <=> InUse(j)
      /\ \A j \in TimerSlots : Armed(j)' <=> Armed(j)
      /\ \A j \in TimerSlots \ {s} : g_soft_timers'[j] = g_soft_timers[j]
  BY <1>3, <1>5, <1>6, OneTimer DEF TInv
<1>8. TTypeOK'
  BY <1>1, <1>2, <1>5, <1>7 DEF TInv, TTypeOK
<1>9. /\ Pending(s) /\ ~Pending(s)'
      /\ \A j \in TimerSlots \ {s} : Pending(j)' <=> Pending(j)
  BY <1>1, <1>2 DEF Pending, Reached, TimerSlots
<1>10. ASSUME NEW i \in TimerSlots, Armed(i)
       PROVE  due'[i] = (g_kernel_tick' + (g_soft_timers'[i].remaining
                           + (IF Pending(i)' THEN -1 ELSE 0))) % TickModulus
  <2>1. due[i] = (g_kernel_tick + (g_soft_timers[i].remaining
                    + (IF Pending(i) THEN -1 ELSE 0))) % TickModulus
    BY <1>1, <1>10 DEF TInv, CountdownIsDeadline, TickIn
  <2>2. CASE i = s
    <3>1. g_soft_timers[s].remaining + -1 = t.remaining + 0
      BY <1>4, <1>5
    <3> QED BY <1>1, <1>7, <1>9, <2>1, <2>2, <3>1
  <2>3. CASE i # s
    BY <1>1, <1>7, <1>9, <2>1, <2>3
  <2> QED BY <2>2, <2>3
<1>11. CountdownIsDeadline'
  <2>1. \A i \in TimerSlots : ~Armed(i) => due'[i] = NotDue
    BY <1>1 DEF TInv, CountdownIsDeadline
  <2> QED BY <1>7, <1>10, <2>1 DEF CountdownIsDeadline, TickIn
<1> QED BY <1>8, <1>11 DEF TInv

(* A step that concerns one slot s leaves the deadlines of the others.     *)
LEMMA OthersKeepDeadline ==
    ASSUME CountdownIsDeadline, NEW s \in TimerSlots, g_kernel_tick' = g_kernel_tick,
           \A j \in TimerSlots \ {s} :
              /\ g_soft_timers'[j] = g_soft_timers[j]
              /\ due'[j] = due[j]
              /\ Armed(j)' <=> Armed(j)
              /\ Pending(j)' <=> Pending(j)
              /\ (in_callback' => j # slot') => (in_callback => j # slot),
           ~Armed(s)' => due'[s] = NotDue,
           Armed(s)' /\ (in_callback' => s # slot') =>
              due'[s] = (g_kernel_tick' + (g_soft_timers'[s].remaining
                           + (IF Pending(s)' THEN -1 ELSE 0))) % TickModulus
    PROVE  CountdownIsDeadline'
<1>1. ASSUME NEW j \in TimerSlots \ {s}, Armed(j), in_callback' => j # slot'
      PROVE  due'[j] = (g_kernel_tick' + (g_soft_timers'[j].remaining
                          + (IF Pending(j)' THEN -1 ELSE 0))) % TickModulus
  BY <1>1 DEF CountdownIsDeadline, TickIn
<1>2. \A j \in TimerSlots \ {s} : ~Armed(j) => due'[j] = NotDue
  BY DEF CountdownIsDeadline
<1> QED BY <1>1, <1>2 DEF CountdownIsDeadline, TickIn

(* A timer that fires has no deadline while its callback runs.             *)
LEMMA ExpirePreserves ==
    ASSUME TInv, soft_expire
    PROVE  TInv'
<1>1. /\ pc = "soft" /\ pc' = "soft" /\ g_kernel_tick' = g_kernel_tick
      /\ ~in_callback /\ in_callback' /\ in_callback' \in BOOLEAN
      /\ slot < RTOS_SOFT_TIMER_COUNT /\ slot' = slot
  BY DEF soft_expire, AtSlot, vars
<1>2. slot \in TimerSlots /\ slot \in 0 .. RTOS_SOFT_TIMER_COUNT
  BY <1>1, TimerAssumption DEF TInv, TTypeOK, TimerSlots
<1> PICK s \in TimerSlots : s = slot
  BY <1>2
<1> DEFINE t == [g_soft_timers[s] EXCEPT !.remaining = Left(s)]
<1>3. /\ Armed(s) /\ Left(s) = 0
      /\ g_soft_timers' = [g_soft_timers EXCEPT ![s] = t]
      /\ due' = [due EXCEPT ![s] = NotDue]
  BY DEF soft_expire, CountDown
<1>4. /\ t \in SoftTimer
      /\ t.period_ticks = g_soft_timers[s].period_ticks
      /\ t.in_use = g_soft_timers[s].in_use
      /\ t.active = g_soft_timers[s].active
  BY <1>3 DEF TInv, TTypeOK, SoftTimer
<1>5. t.in_use /\ t.active /\ InUse(s)
  BY <1>3, <1>4 DEF Armed, InUse
<1> HIDE DEF t
<1>6. /\ g_soft_timers' \in [TimerSlots -> SoftTimer]
      /\ g_soft_timers'[s] = t
      /\ \A j \in TimerSlots : InUse(j)' <=> InUse(j)
      /\ \A j \in TimerSlots : Armed(j)' <=> Armed(j)
      /\ \A j \in TimerSlots \ {s} : g_soft_timers'[j] = g_soft_timers[j]
  BY <1>3, <1>4, <1>5, OneTimer DEF TInv
<1>7. /\ due' \in [TimerSlots -> {NotDue} \cup 0 .. TickModulus - 1]
      /\ \A j \in TimerSlots \ {s} : due'[j] = due[j]
  BY <1>3 DEF TInv, TTypeOK
<1>8. TTypeOK'
  BY <1>1, <1>2, <1>4, <1>6, <1>7 DEF TInv, TTypeOK
<1>9. \A j \in TimerSlots \ {s} : Pending(j)' <=> Pending(j)
  BY <1>1, <1>2 DEF Pending, Reached, TimerSlots
<1>10. CountdownIsDeadline'
  BY <1>1, <1>3, <1>6, <1>7, <1>9, OthersKeepDeadline DEF TInv
<1> QED BY <1>8, <1>10 DEF TInv

(***************************************************************************)
(* After the callback the slot is what the callback made of it: a periodic *)
(* timer has its next deadline, if it is still armed, and a one-shot none. *)
(***************************************************************************)
LEMMA CallbackDonePreserves ==
    ASSUME TypeOK, TInv, soft_callback_done
    PROVE  TInv'
<1>1. /\ pc = "soft" /\ pc' = "soft" /\ g_kernel_tick' = g_kernel_tick
      /\ in_callback /\ ~in_callback' /\ in_callback' \in BOOLEAN
      /\ slot' = slot + 1
  BY DEF soft_callback_done, vars
<1>2. slot \in TimerSlots /\ slot \in Nat /\ slot' \in 0 .. RTOS_SOFT_TIMER_COUNT
  BY <1>1, TimerAssumption DEF TInv, TTypeOK, TimerSlots
<1> PICK s \in TimerSlots : s = slot
  BY <1>2
<1>3. g_soft_timers[s] \in SoftTimer /\ (InUse(s) => g_soft_timers[s].period_ticks \in Periods)
  BY DEF TInv, TTypeOK
<1>4. \A j \in TimerSlots \ {s} : Pending(j)' <=> Pending(j)
  BY <1>1, <1>2 DEF Pending, Reached, TimerSlots
<1>5. ~Pending(s)'
  BY <1>1, <1>2 DEF Pending, Reached, TimerSlots
<1>6. CASE g_soft_timers[s].mode = "PERIODIC"
  <2> DEFINE t == Reload(g_soft_timers[s])
             d == IF Armed(s) THEN TickIn(g_soft_timers[s].period_ticks) ELSE NotDue
  <2>1. /\ g_soft_timers' = [g_soft_timers EXCEPT ![s] = t]
        /\ due' = [due EXCEPT ![s] = d]
    BY <1>6 DEF soft_callback_done, TimerMode
  <2>2. /\ t \in SoftTimer /\ t.remaining = t.period_ticks
        /\ t.period_ticks = g_soft_timers[s].period_ticks
        /\ t.in_use = g_soft_timers[s].in_use
        /\ t.active = g_soft_timers[s].active
    BY <1>3 DEF SoftTimer, Reload
  <2>3. Armed(s) => t.period_ticks \in 1 .. TickModulus - 1 /\ t.remaining \in Nat
    BY <1>3, <2>2, TimerAssumption DEF Armed, SoftTimer
  <2>5. (t.in_use <=> InUse(s)) /\ (t.in_use /\ t.active <=> Armed(s))
    BY <2>2 DEF InUse, Armed
  <2> HIDE DEF t
  <2>4. d \in {NotDue} \cup 0 .. TickModulus - 1
    <3> DEFINE n == g_soft_timers[s].period_ticks
    <3>1. \A k \in 1 .. TickModulus - 1 : TickIn(k) \in 0 .. TickModulus - 1
      BY SchedulerAssumption DEF TypeOK, TickIn
    <3>2. Armed(s) => n \in 1 .. TickModulus - 1
      BY <2>2, <2>3
    <3> HIDE DEF n
    <3>3. Armed(s) => TickIn(n) \in 0 .. TickModulus - 1
      BY <3>1, <3>2
    <3> QED BY <3>3 DEF n
  <2>6. /\ g_soft_timers' \in [TimerSlots -> SoftTimer]
        /\ g_soft_timers'[s] = t
        /\ \A j \in TimerSlots : InUse(j)' <=> InUse(j)
        /\ \A j \in TimerSlots : Armed(j)' <=> Armed(j)
        /\ \A j \in TimerSlots \ {s} : g_soft_timers'[j] = g_soft_timers[j]
    BY <2>1, <2>2, <2>5, OneTimer DEF TInv
  <2>7. d = IF Armed(s) THEN (g_kernel_tick + t.remaining) % TickModulus ELSE NotDue
    BY <2>2 DEF TickIn
  <2> HIDE DEF d
  <2>8. /\ due' \in [TimerSlots -> {NotDue} \cup 0 .. TickModulus - 1]
        /\ due'[s] = d
        /\ \A j \in TimerSlots \ {s} : due'[j] = due[j]
    BY <2>1, <2>4 DEF TInv, TTypeOK
  <2>9. TTypeOK'
    <3>1. \A j \in TimerSlots : InUse(j)' => g_soft_timers'[j].period_ticks \in Periods
      BY <1>3, <2>2, <2>6 DEF TInv, TTypeOK
    <3>2. \A j \in TimerSlots : Armed(j)' =>
             g_soft_timers'[j].remaining \in 1 .. g_soft_timers'[j].period_ticks
      BY <1>1, <2>2, <2>3, <2>6 DEF TInv, TTypeOK
    <3> QED BY <1>1, <1>2, <2>6, <2>8, <3>1, <3>2 DEF TInv, TTypeOK
  <2>10. CountdownIsDeadline'
    <3>1. Armed(s)' => due'[s] = (g_kernel_tick' + (g_soft_timers'[s].remaining + 0)) % TickModulus
      BY <1>1, <2>3, <2>6, <2>7, <2>8
    <3> QED BY <1>1, <1>4, <1>5, <2>6, <2>7, <2>8, <3>1, OthersKeepDeadline DEF TInv
  <2> QED BY <2>9, <2>10 DEF TInv
<1>7. CASE g_soft_timers[s].mode = "ONE_SHOT"
  <2> DEFINE t == Disarm(g_soft_timers[s])
  <2>1. /\ g_soft_timers' = [g_soft_timers EXCEPT ![s] = t]
        /\ due' = [due EXCEPT ![s] = NotDue]
    BY <1>7 DEF soft_callback_done, TimerMode
  <2>2. /\ t \in SoftTimer /\ ~t.active
        /\ t.period_ticks = g_soft_timers[s].period_ticks
        /\ t.in_use = g_soft_timers[s].in_use
    BY <1>3 DEF SoftTimer, Disarm
  <2>3. t.in_use <=> InUse(s)
    BY <2>2 DEF InUse
  <2> HIDE DEF t
  <2>4. /\ g_soft_timers' \in [TimerSlots -> SoftTimer]
        /\ g_soft_timers'[s] = t
        /\ ~Armed(s)'
        /\ \A j \in TimerSlots : InUse(j)' <=> InUse(j)
        /\ \A j \in TimerSlots \ {s} : /\ g_soft_timers'[j] = g_soft_timers[j]
                                       /\ Armed(j)' <=> Armed(j)
    BY <2>1, <2>2, <2>3, OneTimer DEF TInv
  <2>5. /\ due' \in [TimerSlots -> {NotDue} \cup 0 .. TickModulus - 1]
        /\ due'[s] = NotDue
        /\ \A j \in TimerSlots \ {s} : due'[j] = due[j]
    BY <2>1 DEF TInv, TTypeOK
  <2>6. TTypeOK'
    BY <1>1, <1>2, <1>3, <2>2, <2>4, <2>5 DEF TInv, TTypeOK
  <2>7. CountdownIsDeadline'
    BY <1>1, <1>4, <2>4, <2>5, OthersKeepDeadline DEF TInv
  <2> QED BY <2>6, <2>7 DEF TInv
<1> QED BY <1>3, <1>6, <1>7 DEF SoftTimer, TimerMode

(* The pass is over: nothing is pending until the next tick.               *)
LEMMA PassDonePreserves ==
    ASSUME TInv, soft_done
    PROVE  TInv'
<1>1. /\ pc = "soft" /\ pc' = "decide" /\ g_kernel_tick' = g_kernel_tick
      /\ ~in_callback /\ in_callback' = in_callback
      /\ slot >= RTOS_SOFT_TIMER_COUNT /\ slot' = 0
      /\ UNCHANGED <<g_soft_timers, due>>
  BY DEF soft_done, soft_loop_done
<1>2. \A i \in TimerSlots : ~Pending(i) /\ ~Pending(i)'
  BY <1>1, TimerAssumption DEF TInv, TTypeOK, Pending, Reached, TimerSlots
<1>3. TTypeOK'
  BY <1>1, TimerAssumption DEF TInv, TTypeOK, InUse, Armed
<1>4. CountdownIsDeadline'
  BY <1>1, <1>2 DEF TInv, CountdownIsDeadline, TickIn, Armed, InUse
<1> QED BY <1>3, <1>4 DEF TInv

-----------------------------------------------------------------------------
(* Calls write one slot and leave the pass where it is.                    *)
LEMMA SlotCallPreserves ==
    ASSUME TInv, NEW s \in TimerSlots, NEW t \in SoftTimer,
           NEW d \in {NotDue} \cup 0 .. TickModulus - 1,
           UNCHANGED <<vars, slot, in_callback>>,
           g_soft_timers' = [g_soft_timers EXCEPT ![s] = t],
           due' = [due EXCEPT ![s] = d],
           t.in_use => t.period_ticks \in Periods,
           t.in_use /\ t.active => /\ t.remaining \in 1 .. t.period_ticks
                                   /\ (in_callback => s # slot) =>
                                         d = TickIn(t.remaining + (IF Pending(s) THEN -1 ELSE 0)),
           ~(t.in_use /\ t.active) => d = NotDue
    PROVE  TInv'
<1>1. UNCHANGED <<pc, g_kernel_tick, slot, in_callback>>
  BY DEF vars
<1>2. /\ g_soft_timers' \in [TimerSlots -> SoftTimer]
      /\ g_soft_timers'[s] = t
      /\ InUse(s)' <=> t.in_use
      /\ Armed(s)' <=> t.in_use /\ t.active
      /\ \A j \in TimerSlots \ {s} : /\ g_soft_timers'[j] = g_soft_timers[j]
                                     /\ InUse(j)' <=> InUse(j)
                                     /\ Armed(j)' <=> Armed(j)
  BY OneTimer DEF TInv
<1>3. /\ due' \in [TimerSlots -> {NotDue} \cup 0 .. TickModulus - 1]
      /\ due'[s] = d
      /\ \A j \in TimerSlots \ {s} : due'[j] = due[j]
  BY DEF TInv, TTypeOK
<1>4. TTypeOK'
  <2>1. \A j \in TimerSlots : InUse(j)' => g_soft_timers'[j].period_ticks \in Periods
    BY <1>2 DEF TInv, TTypeOK
  <2>2. \A j \in TimerSlots : Armed(j)' /\ (in_callback => j # slot) =>
           g_soft_timers'[j].remaining \in 1 .. g_soft_timers'[j].period_ticks
    <3>1. Armed(s)' => g_soft_timers'[s].remaining \in 1 .. g_soft_timers'[s].period_ticks
      BY <1>2
    <3>2. ASSUME NEW j \in TimerSlots \ {s}, Armed(j), in_callback => j # slot
          PROVE  g_soft_timers'[j].remaining \in 1 .. g_soft_timers'[j].period_ticks
      BY <1>2, <3>2 DEF TInv, TTypeOK
    <3> QED BY <1>2, <3>1, <3>2
  <2> QED BY <1>1, <1>2, <1>3, <2>1, <2>2 DEF TInv, TTypeOK
<1>5. \A j \in TimerSlots : Pending(j)' <=> Pending(j)
  BY <1>1 DEF Pending, Reached
<1>6. CountdownIsDeadline'
  <2>1. ~Armed(s)' => due'[s] = NotDue
    BY <1>2, <1>3
  <2>2. Armed(s)' /\ (in_callback' => s # slot') =>
           due'[s] = (g_kernel_tick' + (g_soft_timers'[s].remaining
                        + (IF Pending(s)' THEN -1 ELSE 0))) % TickModulus
    BY <1>1, <1>2, <1>3, <1>5 DEF TickIn
  <2> QED BY <1>1, <1>2, <1>3, <1>5, <2>1, <2>2, OthersKeepDeadline DEF TInv
<1> QED BY <1>4, <1>6 DEF TInv

(* A new timer is not armed, whoever had its slot before.                  *)
LEMMA CreateTimerPreserves ==
    ASSUME TInv, NEW mode \in TimerMode, NEW p \in Periods, timer_soft_create(mode, p)
    PROVE  TInv'
<1> DEFINE t == [mode |-> mode, period_ticks |-> p, remaining |-> p,
                 active |-> FALSE, in_use |-> TRUE]
<1>1. PICK s \in TimerSlots : ~InUse(s) /\ g_soft_timers' = [g_soft_timers EXCEPT ![s] = t]
  BY DEF timer_soft_create
<1>2. t \in SoftTimer /\ ~t.active /\ t.period_ticks \in Periods
  BY TimerAssumption DEF SoftTimer
<1>3. due[s] = NotDue /\ due' = [due EXCEPT ![s] = NotDue]
  BY <1>1 DEF timer_soft_create, TInv, CountdownIsDeadline, TTypeOK, Armed
<1>4. UNCHANGED <<vars, slot, in_callback>>
  BY DEF timer_soft_create
<1> HIDE DEF t
<1> QED BY <1>1, <1>2, <1>3, <1>4, SlotCallPreserves

(* The deadline of a timer started in a callback counts the present tick   *)
(* for a slot the pass has yet to reach, and for no other.                 *)
LEMMA StartPreserves ==
    ASSUME TypeOK, TInv, NEW s \in TimerSlots, timer_soft_start(s)
    PROVE  TInv'
<1> DEFINE t == Arm(g_soft_timers[s])
           n == g_soft_timers[s].period_ticks
           d == TickIn(n + FirstPass(s))
<1>1. /\ TimerCallSite /\ InUse(s)
      /\ g_soft_timers' = [g_soft_timers EXCEPT ![s] = t]
      /\ due' = [due EXCEPT ![s] = d]
      /\ UNCHANGED <<vars, slot, in_callback>>
  BY DEF timer_soft_start
<1>2. n \in Periods /\ n \in 1 .. TickModulus - 1 /\ TickModulus \in Nat
  <2>1. n \in Periods
    BY <1>1 DEF TInv, TTypeOK
  <2> QED BY <2>1, TimerAssumption, SchedulerAssumption
<1>3. /\ t \in SoftTimer /\ t.remaining = n /\ t.period_ticks = n
  BY <1>2 DEF TInv, TTypeOK, SoftTimer, Arm, Reload
<1>4. (in_callback => s # slot) =>
         FirstPass(s) = IF Pending(s) THEN -1 ELSE 0
  BY <1>1 DEF TimerCallSite, FirstPass, Pending, Reached, TInv, TTypeOK, TimerSlots
<1> HIDE DEF t
<1>5. d \in 0 .. TickModulus - 1
  <2>1. \A k \in 0 .. TickModulus - 1 : TickIn(k) \in 0 .. TickModulus - 1
    BY SchedulerAssumption DEF TypeOK, TickIn
  <2>2. n + FirstPass(s) \in 0 .. TickModulus - 1
    BY <1>2 DEF FirstPass
  <2> HIDE DEF n
  <2> QED BY <2>1, <2>2
<1>6. (in_callback => s # slot) => d = TickIn(t.remaining + (IF Pending(s) THEN -1 ELSE 0))
  BY <1>3, <1>4
<1>7. t.remaining \in 1 .. t.period_ticks /\ t.period_ticks \in Periods
  BY <1>2, <1>3
<1>8. t.in_use /\ t.active
  BY <1>1 DEF t, Arm, Reload, InUse, TInv, TTypeOK, SoftTimer
<1> HIDE DEF d
<1> QED BY <1>1, <1>3, <1>5, <1>6, <1>7, <1>8, SlotCallPreserves

LEMMA StopPreserves ==
    ASSUME TInv, NEW s \in TimerSlots, timer_soft_stop(s) \/ timer_soft_delete(s)
    PROVE  TInv'
<1>1. PICK t \in {Disarm(g_soft_timers[s]),
                  [Disarm(g_soft_timers[s]) EXCEPT !.in_use = FALSE]} :
        /\ InUse(s)
        /\ g_soft_timers' = [g_soft_timers EXCEPT ![s] = t]
        /\ due' = [due EXCEPT ![s] = NotDue]
        /\ UNCHANGED <<vars, slot, in_callback>>
  BY DEF timer_soft_stop, timer_soft_delete
<1>2. /\ t \in SoftTimer /\ ~t.active
      /\ t.period_ticks \in Periods
  BY <1>1 DEF TInv, TTypeOK, SoftTimer, Disarm
<1> QED BY <1>1, <1>2, SlotCallPreserves

(* rtos_init() clears the pool as well, between two passes.                *)
LEMMA KernelCallPreserves ==
    ASSUME TInv, KernelCall
    PROVE  TInv'
<1>1. CASE ClientCall /\ UNCHANGED <<g_soft_timers, slot, in_callback, due>>
  <2>1. UNCHANGED <<pc, g_kernel_tick>>
    BY <1>1, CallsKeepTime
  <2> QED BY <1>1, <2>1 DEF TInv, TTypeOK, CountdownIsDeadline, TickIn,
             Pending, Reached, Armed, InUse
<1>2. CASE rtos_init /\ timer_init /\ UNCHANGED <<slot, in_callback>>
  <2>1. /\ pc = "app" /\ pc' = pc /\ slot = 0 /\ ~in_callback
        /\ UNCHANGED <<slot, in_callback>>
    BY <1>2 DEF rtos_init, control, TInv, TTypeOK
  <2>2. /\ g_soft_timers' \in [TimerSlots -> SoftTimer]
        /\ due' \in [TimerSlots -> {NotDue} \cup 0 .. TickModulus - 1]
        /\ \A i \in TimerSlots : ~InUse(i)' /\ ~Armed(i)' /\ due'[i] = NotDue
    BY <1>2 DEF timer_init, ZeroTimer, SoftTimer, TimerMode, InUse, Armed
  <2>3. TTypeOK'
    BY <2>1, <2>2 DEF TInv, TTypeOK
  <2> QED BY <2>2, <2>3 DEF TInv, CountdownIsDeadline
<1> QED BY <1>1, <1>2 DEF KernelCall

-----------------------------------------------------------------------------
LEMMA TNextPreserves ==
    ASSUME TypeOK, TInv, [TNext]_tVars
    PROVE  TInv'
<1>1. CASE TimerCycle
  BY <1>1, CyclePreserves, SkipPreserves, DecrementPreserves, ExpirePreserves,
     CallbackDonePreserves, PassDonePreserves DEF TimerCycle
<1>2. CASE KernelCall
  BY <1>2, KernelCallPreserves
<1>3. ASSUME NEW mode \in TimerMode, NEW p \in Periods, timer_soft_create(mode, p)
      PROVE  TInv'
  BY <1>3, CreateTimerPreserves
<1>4. ASSUME NEW s \in TimerSlots,
             timer_soft_start(s) \/ timer_soft_stop(s) \/ timer_soft_delete(s)
      PROVE  TInv'
  BY <1>4, StartPreserves, StopPreserves
<1>5. CASE UNCHANGED tVars
  BY <1>5 DEF tVars, vars, TInv, TTypeOK, CountdownIsDeadline, TickIn,
     Pending, Reached, Armed, InUse
<1> QED BY <1>1, <1>2, <1>3, <1>4, <1>5 DEF TNext

LEMMA TimerInvariance == TSpec => [](TypeOK /\ TInv)
<1>1. TInit => TInv
  BY TInitEstablishes
<1>2. TypeOK /\ TInv /\ [TNext]_tVars => TInv'
  BY TNextPreserves
<1>3. TSpec => []TypeOK
  BY TimersImplementScheduler, TypeCorrect, PTL
<1> QED BY <1>1, <1>2, <1>3, PTL DEF TSpec

(* timer.c: no index leaves the pool, and the countdown of an armed timer  *)
(* is positive and never above its period, so that it cannot wrap.         *)
THEOREM TimersTypeCorrect == TSpec => []TTypeOK
BY TimerInvariance, PTL DEF TInv

(* timer.c counts down, slot by slot and once in a tick: the countdown of  *)
(* an armed timer is at all times its distance from the tick it is due in. *)
THEOREM DeadlinesKept == TSpec => []CountdownIsDeadline
BY TimerInvariance, PTL DEF TInv

(***************************************************************************)
(* timer.h, timers "fire a callback when their countdown expires": in the  *)
(* tick they are due, whatever was done to the slots before and during the *)
(* pass, and in no other tick.                                             *)
(***************************************************************************)
THEOREM TimersFireWhenDue == TSpec => FiresWhenDue
<1> DEFINE P == AtSlot => (in_callback' <=> due[slot] = g_kernel_tick)
<1>1. TypeOK /\ TInv /\ [TNext]_tVars => [P]_tVars
  <2> SUFFICES ASSUME TypeOK, TInv, TNext, AtSlot
               PROVE  in_callback' <=> due[slot] = g_kernel_tick
    OBVIOUS
  <2>1. /\ slot \in TimerSlots /\ slot \in Nat /\ slot < RTOS_SOFT_TIMER_COUNT
        /\ RTOS_SOFT_TIMER_COUNT \in Nat
        /\ ~in_callback /\ pc = "soft" /\ g_kernel_tick \in 0 .. TickModulus - 1
    BY TimerAssumption DEF AtSlot, TInv, TTypeOK, TimerSlots, TypeOK
  <2>2. soft_skip \/ soft_decrement \/ soft_expire
    BY <2>1 DEF TNext, TimerCycle, soft_callback_done, soft_done, KernelCall,
       rtos_init, TimerCallSite, timer_soft_create, timer_soft_start, timer_soft_stop,
       timer_soft_delete
  <2>3. CASE ~Armed(slot)
    <3>1. due[slot] = NotDue /\ NotDue \notin 0 .. TickModulus - 1
      BY <2>1, <2>3 DEF TInv, CountdownIsDeadline, NotDue
    <3>2. soft_skip
      BY <2>2, <2>3 DEF soft_decrement, soft_expire
    <3> QED BY <2>1, <3>1, <3>2 DEF soft_skip
  <2>4. CASE Armed(slot)
    <3> DEFINE r == g_soft_timers[slot].remaining
    <3>1. r \in 1 .. TickModulus - 1 /\ Left(slot) = r - 1
      BY <2>1, <2>4, Countdowns, SchedulerAssumption DEF TInv, Left
    <3>2. Pending(slot)
      BY <2>1 DEF Pending, Reached
    <3>3. due[slot] = (g_kernel_tick + (r + -1)) % TickModulus
      BY <2>1, <2>4, <3>2 DEF TInv, CountdownIsDeadline, TickIn
    <3>4. in_callback' <=> r - 1 = 0
      BY <2>1, <2>2, <2>4, <3>1 DEF soft_skip, soft_decrement, soft_expire
    <3> HIDE DEF r
    <3>5. r + -1 \in 0 .. TickModulus - 1 /\ TickModulus \in Nat
      BY <3>1, SchedulerAssumption
    <3>6. due[slot] = IF g_kernel_tick + (r + -1) < TickModulus
                      THEN g_kernel_tick + (r + -1)
                      ELSE g_kernel_tick + (r + -1) - TickModulus
      BY <2>1, <3>3, <3>5, TickSum
    <3> QED BY <2>1, <3>1, <3>4, <3>5, <3>6
  <2> QED BY <2>3, <2>4
<1>2. TSpec => [][P]_tVars
  BY <1>1, TimerInvariance, PTL DEF TSpec
<1> QED BY <1>2 DEF FiresWhenDue
=============================================================================
