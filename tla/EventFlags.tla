----------------------------- MODULE EventFlags ------------------------------
(***************************************************************************)
(* Event flags: src/src/event.c on top of the scheduler.  event_flags_set()*)
(* is a call with a loop; each iteration is a step, and `scan' is its loop *)
(* variable, counted from 1.  Nothing else happens until the loop is done. *)
(*                                                                         *)
(* The caller of event_flags_wait() is the task dispatched last, whoever   *)
(* calls: a timer callback or main() waits on its behalf, and before the   *)
(* first dispatch the table gets an entry for no task.  An entry outlives  *)
(* the wait if its task leaves it some other way.  Tasks outside Careless  *)
(* do not let that happen: they wait and sleep only while RUNNING, which   *)
(* is once in a run, and they are not suspended while they wait.           *)
(***************************************************************************)
EXTENDS Scheduler, FiniteSets

CONSTANTS
    Events,                  \* EventFlags objects
    Bits,                    \* the bits of a flag word
    Masks,                   \* masks passed to the calls
    RTOS_EVENT_MAX_WAITERS,
    Careless                 \* tasks, or NoTask, that may leave stale entries

ASSUME EventAssumption ==
    /\ Masks \subseteq (SUBSET Bits) \ {{}}
    /\ RTOS_EVENT_MAX_WAITERS \in Nat
    /\ Careless \subseteq Slots \cup {NoTask}
    /\ StaleWakes \/ Careless = {}
    /\ "EVENT" \in WaitReasons

VARIABLES
    flags,     \* EventFlags.flags
    waiters,   \* EventFlags.waiters[0 .. waiter_count-1]
    scan,      \* entry event_flags_set() examines next, 0 if it is not called
    wants      \* history: the object and mask a task is blocked for

eVars == <<vars, flags, waiters, scan, wants>>

EventWaiter == [task_index : Slots \cup {NoTask}, required_mask : Masks]

NoWait == <<>>

EInit ==
    /\ Init
    /\ flags = [e \in Events |-> {}]
    /\ waiters = [e \in Events |-> <<>>]
    /\ scan = [e \in Events |-> 0]
    /\ wants = [t \in Slots |-> NoWait]

-----------------------------------------------------------------------------
Caller == current_task_index
Quiet  == \A e \in Events : scan[e] = 0

Waiting == Waiters(task_list, task_count, "EVENT")
StillWants == [t \in Slots |-> IF t \in Waiting' THEN wants[t] ELSE NoWait]

MayCall == Caller \in Careless \/ (Caller \in Created /\ State(Caller) = "RUNNING")

event_flags_set(e, m) ==
    /\ CallSite
    /\ flags' = [flags EXCEPT ![e] = @ \cup m]
    /\ scan' = [scan EXCEPT ![e] = Len(waiters[e])]
    /\ UNCHANGED <<vars, waiters, wants>>

(* Faulty variants: the last entry goes without filling the gap; the entry *)
(* of a woken task stays; its bits stay set.                               *)
DropLast(w, i)    == [k \in 1 .. Len(w) - 1 |-> w[k]]
KeepEntry(w, i)   == w
KeepBits(e, m)    == flags' = flags

(* The last entry replaces entry i.                                        *)
Compact(w, i) == [k \in 1 .. Len(w) - 1 |-> IF k = i THEN w[Len(w)] ELSE w[k]]

Satisfied(e, i) == waiters[e][i].required_mask \subseteq flags[e]
AutoReset(e, m) == flags' = [flags EXCEPT ![e] = @ \ m]

(* One iteration of the loop of event_flags_set().                         *)
scan_entry(e) ==
    LET i == scan[e]
        w == waiters[e][i]
    IN  /\ i > 0
        /\ scan' = [scan EXCEPT ![e] = i - 1]
        /\ \/ /\ ~Satisfied(e, i)
              /\ UNCHANGED <<tables, flags, waiters>>
           \/ /\ Satisfied(e, i)
              /\ AutoReset(e, w.required_mask)
              /\ waiters' = [waiters EXCEPT ![e] = Compact(@, i)]
              /\ scheduler_set_task_state(w.task_index, "READY", "NONE")
        /\ UNCHANGED rest
        /\ wants' = StillWants

event_flags_clear(e, m) ==
    /\ CallSite
    /\ AutoReset(e, m)
    /\ UNCHANGED <<vars, waiters, scan, wants>>

(* Faulty variants: one entry more than there is room for; a READY caller  *)
(* is blocked without leaving the ready queue.                             *)
FullTooLate(e) == Len(waiters[e]) > RTOS_EVENT_MAX_WAITERS
BlockInPlace   ==
    /\ Caller \in Created
    /\ task_list' = WithState(task_list, Caller, "BLOCKED", "EVENT")
    /\ UNCHANGED ready_queue

Full(e)     == Len(waiters[e]) >= RTOS_EVENT_MAX_WAITERS
BlockCaller == scheduler_set_task_state(Caller, "BLOCKED", "EVENT")

(* With a full table a wait for flags not set returns and changes nothing. *)
event_flags_wait(e, m) ==
    /\ CallSite
    /\ MayCall
    /\ \/ /\ m \subseteq flags[e]
          /\ AutoReset(e, m)
          /\ UNCHANGED <<vars, waiters, scan, wants>>
       \/ /\ ~(m \subseteq flags[e])
          /\ ~Full(e)
          /\ waiters' = [waiters EXCEPT ![e] =
                Append(@, [task_index |-> Caller, required_mask |-> m])]
          /\ BlockCaller
          /\ wants' = [t \in Slots |-> IF t = Caller THEN <<e, m>> ELSE wants[t]]
          /\ UNCHANGED <<rest, flags, scan>>

(* The scheduling cycle and the calls that touch no event flags.           *)
KernelStep ==
    /\ \/ Cycle
       \/ \E p \in Priorities : rtos_create_task(p)
       \/ \E n \in SleepArgs : MayCall /\ rtos_task_sleep(n)
       \/ \E i \in Slots :
             /\ i \in Careless \/ i \notin Waiting
             /\ rtos_suspend_task(i) \/ rtos_resume_task(i)
    /\ wants' = StillWants
    /\ UNCHANGED <<flags, waiters, scan>>

ENext ==
    \/ /\ Quiet
       /\ \/ KernelStep
          \/ \E e \in Events, m \in Masks :
                \/ event_flags_set(e, m)
                \/ event_flags_clear(e, m)
                \/ event_flags_wait(e, m)
    \/ \E e \in Events : scan_entry(e)

ESpec == EInit /\ [][ENext]_eVars

-----------------------------------------------------------------------------
(* Properties.                                                             *)

(* The table stays within its array, and the loop within the table.        *)
ETypeOK ==
    /\ flags \in [Events -> SUBSET Bits]
    /\ waiters \in [Events -> Seq(EventWaiter)]
    /\ scan \in [Events -> Nat]
    /\ wants \in [Slots -> {NoWait} \cup (Events \X Masks)]
    /\ \A e \in Events : scan[e] <= Len(waiters[e])
                         /\ Len(waiters[e]) <= RTOS_EVENT_MAX_WAITERS

Entry(e, t, m) ==
    \E k \in 1 .. Len(waiters[e]) :
        waiters[e][k] = [task_index |-> t, required_mask |-> m]

(***************************************************************************)
(* event.h:14, "unblocks every task whose required mask is now satisfied": *)
(* outside a set no entry is satisfied, although the scan clears bits and  *)
(* moves entries under its own feet, and every task blocked on event flags *)
(* has the entry through which a set will find it, whatever stale entries  *)
(* other tasks left and whoever made the calls.                            *)
(***************************************************************************)
NoEventMissed ==
    /\ \A e \in Events : scan[e] = 0 =>
          \A k \in 1 .. Len(waiters[e]) : ~Satisfied(e, k)
    /\ \A t \in Waiting : wants[t] # NoWait /\ Entry(wants[t][1], t, wants[t][2])

(***************************************************************************)
(* event.h:12, the table "records which tasks are waiting": a task that    *)
(* keeps to the rules has exactly one entry while it waits and none while  *)
(* it does not, so that no set ever wakes it from anything else, even when *)
(* other tasks break the rules on the same object.                         *)
(***************************************************************************)
CarefulEntriesExact ==
    \A e \in Events, j \in 1 .. RTOS_EVENT_MAX_WAITERS :
        j <= Len(waiters[e]) /\ waiters[e][j].task_index \notin Careless =>
            LET w == waiters[e][j]
            IN  /\ w.task_index \in Waiting
                /\ wants[w.task_index] = <<e, w.required_mask>>
                /\ \A k \in 1 .. Len(waiters[e]) :
                      waiters[e][k].task_index = w.task_index => k = j

(***************************************************************************)
(* Each group keeps the contract of EventGroup: the reverse scan with its  *)
(* compaction grants requests one by one, spends every bit once, and ends  *)
(* with nothing left that could be granted.                                *)
(***************************************************************************)
Positions(w, r) ==
    {k \in 1 .. Len(w) : w[k].task_index = r[1] /\ w[k].required_mask = r[2]}

Requests(e) ==
    [r \in (Slots \cup {NoTask}) \X Masks |-> Cardinality(Positions(waiters[e], r))]

Groups == INSTANCE EventGroup WITH
              Tasks   <- Slots \cup {NoTask},
              waiting <- [e \in Events |-> Requests(e)],
              setting <- [e \in Events |-> scan[e] > 0]

ImplementsGroups == Groups!Spec

(* event.c reaches tasks only through calls the scheduler's model allows,  *)
(* with stale wakes if there are careless tasks.                           *)
ImplementsScheduler == Spec

(***************************************************************************)
(* event.h:26, "The caller must re-check in its next scheduled run": the   *)
(* flags a waiter was woken for would have to be there then.  The set that *)
(* wakes it has cleared them, so that the re-check blocks again.           *)
(***************************************************************************)
RecheckSucceeds ==
    [][ \A t \in Waiting :
          ~Quiet /\ t \notin Waiting' => wants[t][2] \subseteq flags'[wants[t][1]] ]_eVars
=============================================================================
