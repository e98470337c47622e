----------------------------- MODULE SoftTimers ------------------------------
(***************************************************************************)
(* Software timers: the pool of src/src/timer.c and the pass that          *)
(* timer_update_soft() makes over it in every tick, inside the cycle of    *)
(* the scheduler.  A slot is one step of the pass; a timer that expires    *)
(* has two, before and after its callback.  A callback makes any kernel    *)
(* and timer calls in between, also on the timer that is expiring.         *)
(* Name, callback and argument of a timer are left out.                    *)
(*                                                                         *)
(* The kernel counts down; a history variable has the absolute time:       *)
(*   due[i]  the tick in which the timer in slot i has to fire, NotDue if  *)
(*           it has fired or was stopped since it was last started         *)
(***************************************************************************)
EXTENDS Scheduler

CONSTANTS
    RTOS_SOFT_TIMER_COUNT,
    Periods                 \* arguments period_ticks of timer_soft_create()

ASSUME TimerAssumption ==
    /\ RTOS_SOFT_TIMER_COUNT \in Nat \ {0}
    /\ Periods \subseteq 1 .. TickModulus - 1

VARIABLES
    g_soft_timers,
    slot,                   \* loop variable of timer_update_soft()
    in_callback,            \* the callback of the timer in that slot runs
    due

tVars == <<vars, g_soft_timers, slot, in_callback, due>>

TimerSlots == 0 .. RTOS_SOFT_TIMER_COUNT - 1
TimerMode  == {"ONE_SHOT", "PERIODIC"}
SoftTimer  == [mode : TimerMode, period_ticks : Nat, remaining : Nat,
               active : BOOLEAN, in_use : BOOLEAN]

ZeroTimer == [mode |-> "ONE_SHOT", period_ticks |-> 0, remaining |-> 0,
              active |-> FALSE, in_use |-> FALSE]
NotDue == -1

timer_init ==
    /\ g_soft_timers' = [i \in TimerSlots |-> ZeroTimer]
    /\ due' = [i \in TimerSlots |-> NotDue]

TInit ==
    /\ Init
    /\ g_soft_timers = [i \in TimerSlots |-> ZeroTimer]
    /\ slot = 0
    /\ in_callback = FALSE
    /\ due = [i \in TimerSlots |-> NotDue]

InUse(i) == g_soft_timers[i].in_use
Armed(i) == InUse(i) /\ g_soft_timers[i].active

(* The tick n ticks from now.                                              *)
TickIn(n) == (g_kernel_tick + n) % TickModulus

-----------------------------------------------------------------------------
(* The pass of timer_update_soft().                                        *)

AtSlot == pc = "soft" /\ ~in_callback /\ slot < RTOS_SOFT_TIMER_COUNT

soft_skip ==
    /\ AtSlot
    /\ ~Armed(slot)
    /\ slot' = slot + 1
    /\ UNCHANGED <<vars, g_soft_timers, in_callback, due>>

(* Faulty variant: the decrement is lost.                                  *)
NoDecrement(i) == g_soft_timers[i].remaining

(* The countdown of slot i after this tick's decrement.                    *)
Left(i) == IF g_soft_timers[i].remaining > 0
           THEN g_soft_timers[i].remaining - 1 ELSE 0

CountDown == g_soft_timers' = [g_soft_timers EXCEPT ![slot].remaining = Left(slot)]

soft_decrement ==
    /\ AtSlot
    /\ Armed(slot)
    /\ Left(slot) > 0
    /\ CountDown
    /\ slot' = slot + 1
    /\ UNCHANGED <<vars, in_callback, due>>

soft_expire ==
    /\ AtSlot
    /\ Armed(slot)
    /\ Left(slot) = 0
    /\ CountDown
    /\ in_callback' = TRUE
    /\ due' = [due EXCEPT ![slot] = NotDue]
    /\ UNCHANGED <<vars, slot>>

(* Faulty variants: the countdown goes on from zero; the timer goes on.    *)
NoReload(t)  == t
StayArmed(t) == t

Reload(t) == [t EXCEPT !.remaining = t.period_ticks]
Disarm(t) == [t EXCEPT !.active = FALSE]

(* After the callback, whatever it did to the slot: a timer that is now    *)
(* periodic is reloaded, and one that is now one-shot disarmed.            *)
soft_callback_done ==
    /\ pc = "soft"
    /\ in_callback
    /\ in_callback' = FALSE
    /\ slot' = slot + 1
    /\ \/ /\ g_soft_timers[slot].mode = "PERIODIC"
          /\ g_soft_timers' = [g_soft_timers EXCEPT ![slot] = Reload(@)]
          /\ due' = [due EXCEPT ![slot] =
                IF Armed(slot) THEN TickIn(g_soft_timers[slot].period_ticks) ELSE NotDue]
       \/ /\ g_soft_timers[slot].mode = "ONE_SHOT"
          /\ g_soft_timers' = [g_soft_timers EXCEPT ![slot] = Disarm(@)]
          /\ due' = [due EXCEPT ![slot] = NotDue]
    /\ UNCHANGED vars

soft_done ==
    /\ ~in_callback
    /\ slot >= RTOS_SOFT_TIMER_COUNT
    /\ soft_loop_done
    /\ slot' = 0
    /\ UNCHANGED <<g_soft_timers, in_callback, due>>

-----------------------------------------------------------------------------
(* Calls, from main(), tasks and callbacks.                                *)

TimerCallSite == pc \in {"app", "task"} \/ in_callback

(* The first free slot is taken; with none free the call returns NULL.     *)
timer_soft_create(mode, period) ==
    /\ TimerCallSite
    /\ \E i \in TimerSlots :
          /\ ~InUse(i)
          /\ \A j \in 0 .. i - 1 : InUse(j)
          /\ g_soft_timers' = [g_soft_timers EXCEPT ![i] =
                [mode |-> mode, period_ticks |-> period, remaining |-> period,
                 active |-> FALSE, in_use |-> TRUE]]
    /\ UNCHANGED <<vars, slot, in_callback, due>>

(* A timer that a callback starts in a slot the pass has yet to reach is   *)
(* counted down in the tick it was started in; no other is.                *)
FirstPass(i) == IF in_callback /\ i > slot THEN -1 ELSE 0

(* Faulty variant: a timer that runs is not given a new countdown.         *)
GoOn(t) == IF t.active THEN t ELSE [Reload(t) EXCEPT !.active = TRUE]

Arm(t) == [Reload(t) EXCEPT !.active = TRUE]

(* A handle that was deleted is refused until its slot is in use again.    *)
timer_soft_start(i) ==
    /\ TimerCallSite
    /\ InUse(i)
    /\ g_soft_timers' = [g_soft_timers EXCEPT ![i] = Arm(@)]
    /\ due' = [due EXCEPT ![i] = TickIn(g_soft_timers[i].period_ticks + FirstPass(i))]
    /\ UNCHANGED <<vars, slot, in_callback>>

timer_soft_stop(i) ==
    /\ TimerCallSite
    /\ InUse(i)
    /\ g_soft_timers' = [g_soft_timers EXCEPT ![i] = Disarm(@)]
    /\ due' = [due EXCEPT ![i] = NotDue]
    /\ UNCHANGED <<vars, slot, in_callback>>

timer_soft_delete(i) ==
    /\ TimerCallSite
    /\ InUse(i)
    /\ g_soft_timers' = [g_soft_timers EXCEPT
          ![i] = [Disarm(g_soft_timers[i]) EXCEPT !.in_use = FALSE]]
    /\ due' = [due EXCEPT ![i] = NotDue]
    /\ UNCHANGED <<vars, slot, in_callback>>

-----------------------------------------------------------------------------
(* The cycle of the scheduler with the pass over the timers in it.         *)
TimerCycle ==
    \/ Cycle /\ pc # "soft" /\ UNCHANGED <<g_soft_timers, slot, in_callback, due>>
    \/ soft_skip \/ soft_decrement \/ soft_expire \/ soft_callback_done \/ soft_done

KernelCall ==
    \/ ClientCall /\ TimerCallSite /\ UNCHANGED <<g_soft_timers, slot, in_callback, due>>
    \/ rtos_init /\ timer_init /\ UNCHANGED <<slot, in_callback>>

TNext ==
    \/ TimerCycle
    \/ KernelCall
    \/ \E mode \in TimerMode, p \in Periods : timer_soft_create(mode, p)
    \/ \E i \in TimerSlots :
          timer_soft_start(i) \/ timer_soft_stop(i) \/ timer_soft_delete(i)

(* The scheduler keeps running, and tasks and callbacks return; nobody has *)
(* to make any call.                                                       *)
TSpec == TInit /\ [][TNext]_tVars /\ WF_tVars(TimerCycle)

-----------------------------------------------------------------------------
(* Properties.                                                             *)

TTypeOK ==
    /\ g_soft_timers \in [TimerSlots -> SoftTimer]
    /\ \A i \in TimerSlots :
          /\ InUse(i) => g_soft_timers[i].period_ticks \in Periods
          /\ Armed(i) /\ (in_callback => i # slot) =>
                g_soft_timers[i].remaining \in 1 .. g_soft_timers[i].period_ticks
    /\ slot \in 0 .. RTOS_SOFT_TIMER_COUNT
    /\ pc # "soft" => slot = 0
    /\ in_callback \in BOOLEAN
    /\ in_callback => pc = "soft" /\ slot < RTOS_SOFT_TIMER_COUNT
    /\ due \in [TimerSlots -> {NotDue} \cup 0 .. TickModulus - 1]

(***************************************************************************)
(* timer.h:30, timers "fire a callback when their countdown expires": the  *)
(* pass fires a timer in the tick it is due, and at no other time, for     *)
(* one-shot and periodic timers, started, stopped, restarted and deleted   *)
(* by anyone, also by callbacks in the middle of the pass, with slots used *)
(* again and a tick that wraps.                                            *)
(***************************************************************************)
FiresWhenDue ==
    [][ AtSlot => (in_callback' <=> due[slot] = g_kernel_tick) ]_tVars

(***************************************************************************)
(* The countdown and the deadline agree: between two passes an armed timer *)
(* is exactly `remaining' ticks from its deadline, and no other timer has  *)
(* one; during the pass, timers not yet reached have this tick to count.   *)
(***************************************************************************)
Reached(i) == pc = "soft" /\ (i < slot \/ (i = slot /\ in_callback))
Pending(i) == pc \in {"sleep", "soft"} /\ ~Reached(i)

CountdownIsDeadline ==
    \A i \in TimerSlots :
        IF Armed(i)
        THEN (in_callback => i # slot) =>
               due[i] = TickIn(g_soft_timers[i].remaining + (IF Pending(i) THEN -1 ELSE 0))
        ELSE due[i] = NotDue

(***************************************************************************)
(* No deadline is waited for in vain: the timer fires, or somebody stops,  *)
(* restarts or deletes it.  Callbacks that create and start timers cannot  *)
(* keep the pass, or the kernel, from going on.                            *)
(***************************************************************************)
DeadlineComes ==
    \A i \in TimerSlots, n \in 0 .. TickModulus - 1 : due[i] = n ~> due[i] # n

(***************************************************************************)
(* timer.h:178, "Safe to call on an already-running timer (restarts the    *)
(* countdown)": a timer started in its own callback would be armed when    *)
(* the callback has returned.  A one-shot timer is not: timer.c:129        *)
(* disarms it after the callback, and with it the new countdown.           *)
(***************************************************************************)
RestartCounts ==
    [][ in_callback /\ ~in_callback' /\ due[slot] # NotDue => Armed(slot)' ]_tVars
=============================================================================
