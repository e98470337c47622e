-------------------------- MODULE EventFlagsProofs ---------------------------
(***************************************************************************)
(* Event flags for any number of tasks, objects and masks, any size of the *)
(* waiter table, and any set of careless tasks.                            *)
(*                                                                         *)
(* The invariant says of the scan that what it has passed is unsatisfied   *)
(* and stays so while it clears bits and fills gaps from the end of the    *)
(* table.  That no set wakes a task by a stale index rests on the entries  *)
(* of careful tasks being exact, and these on the scheduler's invariant:   *)
(* a task that runs does not wait.  So the two are proved together.        *)
(***************************************************************************)
EXTENDS EventFlags, SchedulerProofs

(* What the scan has passed, and everything when it is over.               *)
PassedUnsatisfied ==
    \A e \in Events : \A k \in 1 .. Len(waiters[e]) : k > scan[e] => ~Satisfied(e, k)

WaitersHaveEntries ==
    \A t \in Waiting : wants[t] # NoWait /\ Entry(wants[t][1], t, wants[t][2])

(* Entry j of e is that of a task that waits for it and has no other here. *)
Exact(e, j) ==
    LET t == waiters[e][j].task_index
    IN  /\ t \in Waiting
        /\ wants[t] = <<e, waiters[e][j].required_mask>>
        /\ \A k \in 1 .. Len(waiters[e]) : waiters[e][k].task_index = t => k = j

EntriesExact ==
    \A e \in Events : \A j \in 1 .. Len(waiters[e]) :
        waiters[e][j].task_index \notin Careless => Exact(e, j)

EInv ==
    /\ ETypeOK
    /\ ~Quiet => CallSite
    /\ PassedUnsatisfied
    /\ WaitersHaveEntries
    /\ EntriesExact

(* event.c:88, the compaction: the last entry moves into the gap.          *)
LEMMA CompactEntries ==
    ASSUME NEW w \in Seq(EventWaiter), NEW i \in 1 .. Len(w)
    PROVE  /\ Compact(w, i) \in Seq(EventWaiter)
           /\ Len(Compact(w, i)) = Len(w) - 1
           /\ \A k \in 1 .. Len(w) - 1 :
                Compact(w, i)[k] = IF k = i THEN w[Len(w)] ELSE w[k]
<1> DEFINE n == Len(w) - 1
<1>1. Len(w) \in Nat /\ n \in Nat /\ \A k \in 1 .. Len(w) : w[k] \in EventWaiter
  BY ElementOfSeq, LenProperties
<1>2. \A k \in 1 .. n : (IF k = i THEN w[Len(w)] ELSE w[k]) \in EventWaiter
  BY <1>1
<1>3. Compact(w, i) \in [1 .. n -> EventWaiter]
  BY <1>1, <1>2 DEF Compact
<1>4. Compact(w, i) \in Seq(EventWaiter) /\ Len(Compact(w, i)) = n
  BY <1>1, <1>3, SeqDef, LenProperties
<1> QED BY <1>4 DEF Compact

(* The scheduling cycle and the kernel calls end the waits of careless     *)
(* tasks at most, and begin none.                                          *)
LEMMA KernelKeepsWaiting ==
    ASSUME Inv, KernelStep
    PROVE  Waiting' \subseteq Waiting /\ Waiting \ Careless \subseteq Waiting'
<1>0. /\ TypeOK /\ Created \subseteq Slots /\ Waiting \subseteq Created
      /\ "EVENT" \in BlockReason \ {"NONE", "SLEEP"} /\ "NONE" \in BlockReason
      /\ {"SUSPENDED", "READY"} \subseteq TaskState
  BY CreatedAreSlots DEF Inv, BlockReason, TaskState, Waiting, Waiters, Created
<1>1. CASE Cycle
  BY <1>0, <1>1, CycleKeepsWaiters DEF Waiting
<1>2. ASSUME NEW p \in Priorities, rtos_create_task(p)
      PROVE  Waiting' = Waiting
  BY <1>0, <1>2, CreateWaiters DEF Waiting
<1>3. ASSUME NEW n \in SleepArgs, MayCall, rtos_task_sleep(n)
      PROVE  Waiting' = Waiting \ {Caller} /\ (Caller \in Careless \/ Caller \notin Waiting)
  <2>1. Waiting' = Waiting \ {Caller}
    BY <1>0, <1>3, SleepCallWaiters DEF Waiting, Caller
  <2> QED BY <1>3, <2>1 DEF MayCall, Waiting, Waiters, State
<1>4. ASSUME NEW i \in Slots, i \in Careless \/ i \notin Waiting,
             rtos_suspend_task(i) \/ rtos_resume_task(i)
      PROVE  Waiting' = Waiting \ {i} /\ (i \in Careless \/ i \notin Waiting)
  <2>1. /\ \E s \in {"SUSPENDED", "READY"} : scheduler_set_task_state(i, s, "NONE")
        /\ task_count' = task_count
    BY <1>4 DEF rtos_suspend_task, rtos_resume_task, rest
  <2> QED BY <1>0, <1>4, <2>1, SetStateWaiters DEF Waiting
<1> QED BY <1>1, <1>2, <1>3, <1>4 DEF KernelStep

(* A task that calls and keeps to the rules has no entry.                  *)
LEMMA CarefulCaller ==
    ASSUME EInv, MayCall, Caller \notin Careless
    PROVE  \A e \in Events : \A j \in 1 .. Len(waiters[e]) :
              waiters[e][j].task_index # Caller
BY DEF EInv, EntriesExact, Exact, MayCall, Waiting, Waiters, State

LEMMA EntryTypes ==
    ASSUME ETypeOK, NEW e \in Events
    PROVE  /\ waiters[e] \in Seq(EventWaiter) /\ Len(waiters[e]) \in Nat
           /\ scan[e] \in Nat /\ scan[e] <= Len(waiters[e])
           /\ Len(waiters[e]) <= RTOS_EVENT_MAX_WAITERS
           /\ \A k \in 1 .. Len(waiters[e]) :
                 /\ waiters[e][k] \in EventWaiter
                 /\ waiters[e][k].task_index \in Slots \cup {NoTask}
                 /\ waiters[e][k].required_mask \in Masks
<1>1. /\ waiters[e] \in Seq(EventWaiter) /\ scan[e] \in Nat
      /\ scan[e] <= Len(waiters[e]) /\ Len(waiters[e]) <= RTOS_EVENT_MAX_WAITERS
  BY DEF ETypeOK
<1>2. Len(waiters[e]) \in Nat /\ \A k \in 1 .. Len(waiters[e]) : waiters[e][k] \in EventWaiter
  BY <1>1, ElementOfSeq, LenProperties
<1> QED BY <1>1, <1>2 DEF EventWaiter

(***************************************************************************)
(* event.c on the scheduler: each step is one of the scheduler's, or none  *)
(* of its business.                                                        *)
(***************************************************************************)
LEMMA EventStep ==
    ASSUME Inv, EInv, [ENext]_eVars
    PROVE  [Next]_vars
<1>1. CASE KernelStep
  BY <1>1 DEF KernelStep, Next, Call, ClientCall
<1>2. ASSUME NEW e \in Events, NEW m \in Masks, event_flags_wait(e, m)
      PROVE  [Next]_vars
  <2>1. CASE UNCHANGED vars
    BY <2>1
  <2>2. CASE BlockCaller /\ UNCHANGED rest
    <3>1. CASE Caller \in Created
      <4>1. Block("EVENT")
        BY <1>2, <2>2, <3>1 DEF event_flags_wait, Block, BlockCaller, Caller
      <4> QED BY <4>1, EventAssumption DEF Next, Call, ClientCall
    <3>2. CASE Caller \notin Created
      BY <2>2, <3>2 DEF BlockCaller, scheduler_set_task_state, tables, rest, control, vars
    <3> QED BY <3>1, <3>2
  <2> QED BY <1>2, <2>1, <2>2 DEF event_flags_wait
<1>3. ASSUME NEW e \in Events, scan_entry(e)
      PROVE  [Next]_vars
  <2> DEFINE i == scan[e]
             t == waiters[e][i].task_index
  <2>1. CallSite /\ UNCHANGED rest /\ i \in 1 .. Len(waiters[e])
    BY <1>3, EntryTypes DEF scan_entry, EInv, Quiet
  <2>2. CASE UNCHANGED tables
    BY <2>1, <2>2 DEF tables, rest, control, vars
  <2>3. CASE scheduler_set_task_state(t, "READY", "NONE")
    <3>1. CASE t \in Created
      <4>1. t \in Slots /\ (StaleWakes \/ t \in Waiting)
        BY <2>1, <3>1, CreatedAreSlots, EventAssumption DEF Inv, EInv, EntriesExact, Exact
      <4>2. WakeByIndex(t)
        BY <2>1, <2>3, <4>1 DEF WakeByIndex, Waiting
      <4> QED BY <4>1, <4>2 DEF Next, Call, ClientCall
    <3>2. CASE t \notin Created
      BY <2>1, <2>3, <3>2 DEF scheduler_set_task_state, tables, rest, control, vars
    <3> QED BY <3>1, <3>2
  <2> QED BY <1>3, <2>2, <2>3 DEF scan_entry
<1>4. ASSUME NEW e \in Events, NEW m \in Masks,
             event_flags_set(e, m) \/ event_flags_clear(e, m)
      PROVE  [Next]_vars
  BY <1>4 DEF event_flags_set, event_flags_clear
<1>5. CASE UNCHANGED eVars
  BY <1>5 DEF eVars, vars
<1> QED BY <1>1, <1>2, <1>3, <1>4, <1>5 DEF ENext

-----------------------------------------------------------------------------
(* The invariant.                                                          *)

LEMMA EInitEstablishes ==
    ASSUME EInit
    PROVE  EInv
<1>1. Waiting = {}
  BY DEF EInit, Init, Waiting, Waiters
<1>2. \A e \in Events : scan[e] = 0 /\ waiters[e] = <<>> /\ Len(waiters[e]) = 0
  BY EmptySeq DEF EInit
<1>3. ETypeOK
  BY <1>2, EmptySeq, EventAssumption DEF EInit, ETypeOK
<1> QED BY <1>1, <1>2, <1>3
    DEF EInv, Quiet, PassedUnsatisfied, WaitersHaveEntries, EntriesExact

LEMMA KernelStepPreserves ==
    ASSUME Inv, EInv, Quiet, KernelStep
    PROVE  EInv'
<1>1. /\ Waiting' \subseteq Waiting /\ Waiting \ Careless \subseteq Waiting'
      /\ Waiting' \subseteq Slots /\ Waiting \subseteq Slots
  <2>1. Waiting \subseteq Slots
    BY CreatedAreSlots DEF Inv, Waiting, Waiters, Created
  <2> QED BY <2>1, KernelKeepsWaiting
<1>2. /\ UNCHANGED <<flags, waiters, scan>>
      /\ \A t \in Waiting' : wants'[t] = wants[t]
      /\ wants' \in [Slots -> {NoWait} \cup (Events \X Masks)]
  BY <1>1 DEF KernelStep, StillWants, EInv, ETypeOK
<1>3. ETypeOK' /\ Quiet'
  BY <1>2 DEF EInv, ETypeOK, Quiet
<1>4. PassedUnsatisfied'
  BY <1>2 DEF EInv, PassedUnsatisfied, Satisfied
<1>5. WaitersHaveEntries'
  BY <1>1, <1>2 DEF EInv, WaitersHaveEntries, Entry
<1>6. EntriesExact'
  BY <1>1, <1>2 DEF EInv, EntriesExact, Exact
<1> QED BY <1>3, <1>4, <1>5, <1>6 DEF EInv

(* A set adds bits and starts at the last entry.                           *)
LEMMA SetPreserves ==
    ASSUME EInv, Quiet, NEW e \in Events, NEW m \in Masks, event_flags_set(e, m)
    PROVE  EInv'
<1>1. /\ CallSite /\ UNCHANGED <<vars, waiters, wants>>
      /\ flags' = [flags EXCEPT ![e] = flags[e] \cup m]
      /\ scan' = [scan EXCEPT ![e] = Len(waiters[e])]
  BY DEF event_flags_set
<1>2. /\ UNCHANGED <<pc, task_list, task_count>> /\ Waiting' = Waiting
  BY <1>1 DEF vars, Waiting
<1>3. m \subseteq Bits
  BY EventAssumption
<1>4. ETypeOK'
  <2>1. Len(waiters[e]) \in Nat
    BY EntryTypes DEF EInv
  <2> QED BY <1>1, <1>3, <2>1 DEF EInv, ETypeOK
<1>5. PassedUnsatisfied'
  BY <1>1, EntryTypes DEF EInv, ETypeOK, PassedUnsatisfied, Satisfied
<1>6. WaitersHaveEntries' /\ EntriesExact'
  BY <1>1, <1>2 DEF EInv, WaitersHaveEntries, Entry, EntriesExact, Exact
<1> QED BY <1>1, <1>2, <1>4, <1>5, <1>6 DEF EInv, CallSite

(* Taking bits away satisfies nobody.                                      *)
LEMMA TakePreserves ==
    ASSUME EInv, Quiet, NEW e \in Events, NEW m \in Masks,
           AutoReset(e, m), UNCHANGED <<vars, waiters, scan, wants>>
    PROVE  EInv'
<1>1. UNCHANGED <<pc, task_list, task_count>> /\ Waiting' = Waiting
  BY DEF vars, Waiting
<1>2. flags' \in [Events -> SUBSET Bits] /\ \A f \in Events : flags'[f] \subseteq flags[f]
  BY DEF AutoReset, EInv, ETypeOK
<1>3. ETypeOK' /\ Quiet'
  BY <1>2 DEF EInv, ETypeOK, Quiet
<1>4. PassedUnsatisfied'
  BY <1>2 DEF EInv, PassedUnsatisfied, Satisfied
<1>5. WaitersHaveEntries' /\ EntriesExact'
  BY <1>1 DEF EInv, WaitersHaveEntries, Entry, EntriesExact, Exact
<1> QED BY <1>3, <1>4, <1>5 DEF EInv

(***************************************************************************)
(* A wait that blocks appends an entry that is not satisfied, for a caller *)
(* that has none if it is careful.                                         *)
(***************************************************************************)
LEMMA BlockPreserves ==
    ASSUME Inv, EInv, Quiet, NEW e \in Events, NEW m \in Masks, MayCall,
           ~(m \subseteq flags[e]), ~Full(e),
           waiters' = [waiters EXCEPT ![e] =
                Append(waiters[e], [task_index |-> Caller, required_mask |-> m])],
           BlockCaller,
           wants' = [t \in Slots |-> IF t = Caller THEN <<e, m>> ELSE wants[t]],
           UNCHANGED <<rest, flags, scan>>
    PROVE  EInv'
<1> PICK u \in Slots \cup {NoTask} : u = Caller
  BY DEF Inv, TypeOK, Caller
<1> DEFINE new == [task_index |-> u, required_mask |-> m]
           n == Len(waiters[e])
<1>1. /\ n \in Nat /\ n + 1 <= RTOS_EVENT_MAX_WAITERS
      /\ waiters[e] \in Seq(EventWaiter)
      /\ new \in EventWaiter /\ new.task_index = u /\ new.required_mask = m
      /\ scan[e] = 0
  <2>1. n \in Nat /\ waiters[e] \in Seq(EventWaiter)
    BY EntryTypes DEF EInv
  <2>2. n + 1 <= RTOS_EVENT_MAX_WAITERS
    BY <2>1, EventAssumption DEF Full
  <2> QED BY <2>1, <2>2 DEF EventWaiter, Quiet
<1> HIDE DEF new
<1>2. waiters' = [waiters EXCEPT ![e] = Append(waiters[e], new)]
  BY DEF new
<1>3. /\ waiters' \in [Events -> Seq(EventWaiter)]
      /\ Len(waiters'[e]) = n + 1
      /\ waiters'[e][n + 1] = new
      /\ \A k \in 1 .. n : waiters'[e][k] = waiters[e][k]
      /\ \A f \in Events \ {e} : waiters'[f] = waiters[f]
  <2>1. /\ Append(waiters[e], new) \in Seq(EventWaiter)
        /\ Len(Append(waiters[e], new)) = n + 1
        /\ Append(waiters[e], new)[n + 1] = new
        /\ \A k \in 1 .. n : Append(waiters[e], new)[k] = waiters[e][k]
    BY <1>1, AppendProperties
  <2> QED BY <1>2, <2>1 DEF EInv, ETypeOK
<1>4. /\ \A t \in Slots : wants'[t] = IF t = u THEN <<e, m>> ELSE wants[t]
      /\ wants' \in [Slots -> {NoWait} \cup (Events \X Masks)]
  BY DEF EInv, ETypeOK
<1>5. /\ Waiting \subseteq Created /\ Created \subseteq Slots
      /\ Waiting' = IF u \in Created THEN Waiting \cup {u} ELSE Waiting
  <2>1. Waiting \subseteq Created /\ Created \subseteq Slots
    BY CreatedAreSlots DEF Inv, Waiting, Waiters, Created
  <2>2. /\ "BLOCKED" \in TaskState /\ "EVENT" \in BlockReason \ {"NONE"}
        /\ task_count' = task_count /\ scheduler_set_task_state(u, "BLOCKED", "EVENT")
    BY DEF TaskState, BlockReason, rest, BlockCaller
  <2>3. CASE u \in Created
    BY <2>1, <2>2, <2>3, SetStateWaiters DEF Inv, Waiting
  <2>4. CASE u \notin Created
    BY <2>1, <2>2, <2>4 DEF scheduler_set_task_state, tables, Waiting, Waiters
  <2> QED BY <2>1, <2>3, <2>4
<1>6. UNCHANGED <<flags, scan>> /\ Quiet'
  BY DEF Quiet
<1>7. ETypeOK'
  BY <1>1, <1>3, <1>4, <1>6 DEF EInv, ETypeOK
<1>8. PassedUnsatisfied'
  <2> SUFFICES ASSUME NEW f \in Events, NEW k \in 1 .. Len(waiters'[f]), k > scan[f]
               PROVE  ~(waiters'[f][k].required_mask \subseteq flags[f])
    BY <1>6 DEF PassedUnsatisfied, Satisfied
  <2>1. CASE f = e /\ k = n + 1
    BY <1>1, <1>3, <2>1
  <2>2. CASE ~(f = e /\ k = n + 1)
    <3>1. k \in 1 .. Len(waiters[f]) /\ waiters'[f][k] = waiters[f][k]
      BY <1>1, <1>3, <2>2
    <3> QED BY <3>1 DEF EInv, PassedUnsatisfied, Satisfied
  <2> QED BY <2>1, <2>2
<1>9. WaitersHaveEntries'
  <2> SUFFICES ASSUME NEW t \in Waiting'
               PROVE  /\ wants'[t] # NoWait
                      /\ \E k \in 1 .. Len(waiters'[wants'[t][1]]) :
                            waiters'[wants'[t][1]][k]
                              = [task_index |-> t, required_mask |-> wants'[t][2]]
    BY DEF WaitersHaveEntries, Entry
  <2>1. CASE t = u /\ u \in Created
    <3>1. wants'[t] = <<e, m>> /\ wants'[t][1] = e /\ wants'[t][2] = m /\ <<e, m>> # NoWait
      BY <1>4, <1>5, <2>1 DEF NoWait
    <3>2. n + 1 \in 1 .. Len(waiters'[e])
      BY <1>1, <1>3
    <3> QED BY <1>3, <2>1, <3>1, <3>2 DEF new
  <2>2. CASE t # u
    <3>1. t \in Waiting /\ t \in Slots /\ wants'[t] = wants[t]
      BY <1>4, <1>5, <2>2
    <3> DEFINE f == wants[t][1]
    <3>2. wants[t] # NoWait /\ wants[t] \in Events \X Masks /\ Entry(f, t, wants[t][2])
      BY <3>1 DEF EInv, WaitersHaveEntries, ETypeOK
    <3>3. f \in Events
      BY <3>2
    <3>4. PICK k \in 1 .. Len(waiters[f]) :
             waiters[f][k] = [task_index |-> t, required_mask |-> wants[t][2]]
      BY <3>2 DEF Entry
    <3> HIDE DEF f
    <3>5. k \in 1 .. Len(waiters'[f]) /\ waiters'[f][k] = waiters[f][k]
      BY <1>1, <1>3, <3>3
    <3> QED BY <3>1, <3>2, <3>4, <3>5 DEF f
  <2> QED BY <1>5, <2>1, <2>2
<1>10. EntriesExact'
  <2> SUFFICES ASSUME NEW f \in Events, NEW j \in 1 .. Len(waiters'[f]),
                      waiters'[f][j].task_index \notin Careless
               PROVE  Exact(f, j)'
    BY DEF EntriesExact
  <2> PICK v : v = waiters'[f][j].task_index
    OBVIOUS
  <2> SUFFICES /\ v \in Waiting'
               /\ wants'[v] = <<f, waiters'[f][j].required_mask>>
               /\ \A k \in 1 .. Len(waiters'[f]) :
                     waiters'[f][k].task_index = v => k = j
    BY DEF Exact
  <2>1. CASE f = e /\ j = n + 1
    <3>1. v = u /\ u \in Created /\ u \notin Careless
      BY <1>1, <1>3, <2>1 DEF MayCall
    <3>2. \A k \in 1 .. n : waiters'[e][k].task_index # u
      BY <1>3, <3>1, CarefulCaller
    <3>3. v \in Waiting' /\ wants'[v] = <<e, m>>
      BY <1>4, <1>5, <3>1
    <3> QED BY <1>1, <1>3, <2>1, <3>1, <3>2, <3>3
  <2>2. CASE ~(f = e /\ j = n + 1)
    <3>1. /\ j \in 1 .. Len(waiters[f]) /\ waiters'[f][j] = waiters[f][j]
          /\ v = waiters[f][j].task_index
      BY <1>1, <1>3, <2>2
    <3>2. v # u
      BY <3>1, CarefulCaller
    <3>3. /\ v \in Waiting
          /\ wants[v] = <<f, waiters[f][j].required_mask>>
          /\ \A k \in 1 .. Len(waiters[f]) : waiters[f][k].task_index = v => k = j
      BY <3>1 DEF EInv, EntriesExact, Exact
    <3>4. \A k \in 1 .. Len(waiters'[f]) :
             \/ k \in 1 .. Len(waiters[f]) /\ waiters'[f][k] = waiters[f][k]
             \/ waiters'[f][k].task_index = u
      BY <1>1, <1>3
    <3>5. wants'[v] = wants[v]
      BY <1>4, <1>5, <3>2, <3>3
    <3> QED BY <1>5, <3>1, <3>2, <3>3, <3>4, <3>5
  <2> QED BY <2>1, <2>2
<1> QED BY <1>6, <1>7, <1>8, <1>9, <1>10 DEF EInv

(* The entry of a task that is never taken off its wait by force is its    *)
(* only one, and says what it waits for.                                   *)
LEMMA CarefulEntry ==
    ASSUME EInv, NEW f \in Events, NEW l \in 1 .. Len(waiters[f]),
           waiters[f][l].task_index \notin Careless
    PROVE  Exact(f, l)
BY DEF EInv, EntriesExact

(***************************************************************************)
(* The scan comes to a satisfied entry i: its bits are spent, the last     *)
(* entry takes its place, which the scan does not come to again, and its   *)
(* task no longer waits.                                                   *)
(***************************************************************************)
LEMMA GrantPreserves ==
    ASSUME Inv, EInv, NEW e \in Events, NEW i \in 1 .. Len(waiters[e]),
           i = scan[e], Satisfied(e, i),
           NEW t \in Slots \cup {NoTask}, t = waiters[e][i].task_index,
           scan' = [scan EXCEPT ![e] = i - 1],
           AutoReset(e, waiters[e][i].required_mask),
           waiters' = [waiters EXCEPT ![e] = Compact(waiters[e], i)],
           scheduler_set_task_state(t, "READY", "NONE"),
           UNCHANGED rest, wants' = StillWants
    PROVE  EInv'
<1> DEFINE n == Len(waiters[e])
           from(f, k) == IF f = e /\ k = i THEN n ELSE k
<1>1. /\ n \in Nat /\ n <= RTOS_EVENT_MAX_WAITERS /\ i \in Nat
      /\ waiters[e] \in Seq(EventWaiter)
  BY EntryTypes DEF EInv
<1>2. /\ waiters' \in [Events -> Seq(EventWaiter)]
      /\ Len(waiters'[e]) = n - 1
      /\ \A k \in 1 .. n - 1 :
            waiters'[e][k] = IF k = i THEN waiters[e][n] ELSE waiters[e][k]
      /\ \A f \in Events \ {e} : waiters'[f] = waiters[f]
  <2>1. /\ waiters \in [Events -> Seq(EventWaiter)]
        /\ waiters' = [waiters EXCEPT ![e] = Compact(waiters[e], i)]
    BY DEF EInv, ETypeOK
  <2> PICK w \in Seq(EventWaiter) : w = waiters[e]
    BY <2>1
  <2>2. /\ Compact(w, i) \in Seq(EventWaiter)
        /\ Len(Compact(w, i)) = Len(w) - 1
        /\ \A k \in 1 .. Len(w) - 1 : Compact(w, i)[k] = IF k = i THEN w[Len(w)] ELSE w[k]
    <3>1. i \in 1 .. Len(w)
      OBVIOUS
    <3> QED BY <3>1, CompactEntries
  <2>3. waiters'[e] = Compact(w, i)
    BY <2>1
  <2>4. \A f \in Events \ {e} : waiters'[f] = waiters[f]
    BY <2>1
  <2>5. waiters' \in [Events -> Seq(EventWaiter)]
    BY <2>1, <2>2
  <2>6. n = Len(w) /\ waiters[e] = w
    OBVIOUS
  <2> HIDE DEF n
  <2> QED BY <2>2, <2>3, <2>4, <2>5, <2>6
(* Entry k of the new table was entry from(f, k) of the old one.           *)
<1>3. ASSUME NEW f \in Events, NEW k \in 1 .. Len(waiters'[f])
      PROVE  /\ from(f, k) \in 1 .. Len(waiters[f])
             /\ waiters'[f][k] = waiters[f][from(f, k)]
             /\ ~(f = e /\ from(f, k) = i)
             /\ k <= from(f, k)
  <2>1. CASE f = e
    BY <1>1, <1>2, <2>1
  <2>2. CASE f # e
    BY <1>2, <2>2, EntryTypes DEF EInv
  <2> QED BY <2>1, <2>2
<1>4. \A f \in Events, j, k \in Nat :
         j \in 1 .. Len(waiters'[f]) /\ k \in 1 .. Len(waiters'[f]) /\ from(f, j) = from(f, k)
         => j = k
  BY <1>1, <1>2
<1>5. /\ flags' \in [Events -> SUBSET Bits] /\ \A f \in Events : flags'[f] \subseteq flags[f]
      /\ scan' \in [Events -> Nat] /\ scan'[e] = i - 1
      /\ \A f \in Events \ {e} : scan'[f] = scan[f]
  BY <1>1 DEF AutoReset, EInv, ETypeOK
<1>6. Waiting' = Waiting \ {t} /\ Waiting \subseteq Slots
  <2>1. Waiting \subseteq Created /\ Created \subseteq Slots
    BY CreatedAreSlots DEF Inv, Waiting, Waiters, Created
  <2>2. /\ "READY" \in TaskState /\ "NONE" \in BlockReason
        /\ "EVENT" \in BlockReason \ {"NONE"} /\ task_count' = task_count
    BY DEF TaskState, BlockReason, rest
  <2>3. CASE t \in Slots
    BY <2>1, <2>2, <2>3, SetStateWaiters DEF Inv, Waiting
  <2>4. CASE t \notin Slots
    <3>1. t \notin Created /\ UNCHANGED task_list
      BY <2>1, <2>4 DEF scheduler_set_task_state, tables
    <3>2. Waiting' = Waiting
      BY <2>2, <3>1 DEF Waiting
    <3> QED BY <2>1, <3>1, <3>2
  <2> QED BY <2>3, <2>4
<1>7. /\ \A u \in Waiting' : wants'[u] = wants[u]
      /\ wants' \in [Slots -> {NoWait} \cup (Events \X Masks)]
  BY <1>6 DEF StillWants, EInv, ETypeOK
<1>8. Len(waiters'[e]) \in Nat
  BY <1>1, <1>2
<1>9. ETypeOK'
  <2>1. ASSUME NEW f \in Events
        PROVE  scan'[f] <= Len(waiters'[f]) /\ Len(waiters'[f]) <= RTOS_EVENT_MAX_WAITERS
    <3>1. CASE f = e
      BY <1>1, <1>2, <1>5, <3>1, EventAssumption
    <3>2. CASE f # e
      BY <1>2, <1>5, <3>2 DEF EInv, ETypeOK
    <3> QED BY <3>1, <3>2
  <2> QED BY <1>2, <1>5, <1>7, <2>1 DEF ETypeOK
<1>10. CallSite'
  BY <1>1, EntryTypes DEF EInv, Quiet, CallSite, rest, control
<1>11. PassedUnsatisfied'
  <2> SUFFICES ASSUME NEW f \in Events, NEW k \in 1 .. Len(waiters'[f]), k > scan'[f]
               PROVE  ~(waiters'[f][k].required_mask \subseteq flags'[f])
    BY DEF PassedUnsatisfied, Satisfied
  <2>1. from(f, k) \in 1 .. Len(waiters[f]) /\ from(f, k) > scan[f]
    <3>1. CASE f = e
      BY <1>1, <1>3, <1>5, <3>1
    <3>2. CASE f # e
      BY <1>3, <1>5, <3>2
    <3> QED BY <3>1, <3>2
  <2>2. ~(waiters[f][from(f, k)].required_mask \subseteq flags[f])
    BY <2>1 DEF EInv, PassedUnsatisfied, Satisfied
  <2> QED BY <1>3, <1>5, <2>2
<1>12. WaitersHaveEntries'
  <2> SUFFICES ASSUME NEW u \in Waiting'
               PROVE  /\ wants'[u] # NoWait
                      /\ \E k \in 1 .. Len(waiters'[wants'[u][1]]) :
                            waiters'[wants'[u][1]][k]
                              = [task_index |-> u, required_mask |-> wants'[u][2]]
    BY DEF WaitersHaveEntries, Entry
  <2>1. u \in Waiting /\ u \in Slots /\ u # t /\ wants'[u] = wants[u]
    BY <1>6, <1>7
  <2>2. wants[u] # NoWait /\ wants[u] \in Events \X Masks /\ Entry(wants[u][1], u, wants[u][2])
    BY <2>1 DEF EInv, WaitersHaveEntries, ETypeOK
  <2> PICK f \in Events : f = wants[u][1]
    BY <2>2
  <2>3. PICK k \in 1 .. Len(waiters[f]) :
           waiters[f][k] = [task_index |-> u, required_mask |-> wants[u][2]]
    BY <2>2 DEF Entry
  <2>4. ~(f = e /\ k = i)
    BY <2>1, <2>3
  <2>5. \E l \in 1 .. Len(waiters'[f]) : waiters'[f][l] = waiters[f][k]
    <3>1. CASE f # e
      BY <1>2, <3>1
    <3>2. CASE f = e /\ k < n
      <4>1. k \in 1 .. n - 1
        BY <1>1, <3>2
      <4> QED BY <1>2, <2>4, <3>2, <4>1
    <3>3. CASE f = e /\ k = n
      <4>1. i \in 1 .. n - 1
        BY <1>1, <2>4, <3>3
      <4>2. waiters'[e][i] = waiters[e][n]
        BY <1>2, <4>1
      <4> QED BY <1>2, <3>3, <4>1, <4>2
    <3> QED BY <1>1, <3>1, <3>2, <3>3
  <2> QED BY <2>1, <2>2, <2>3, <2>5
<1>13. EntriesExact'
  <2> SUFFICES ASSUME NEW f \in Events, NEW j \in 1 .. Len(waiters'[f]),
                      waiters'[f][j].task_index \notin Careless
               PROVE  Exact(f, j)'
    BY DEF EntriesExact
  <2> PICK v : v = waiters'[f][j].task_index
    OBVIOUS
  <2> SUFFICES /\ v \in Waiting'
               /\ wants'[v] = <<f, waiters'[f][j].required_mask>>
               /\ \A k \in 1 .. Len(waiters'[f]) :
                     waiters'[f][k].task_index = v => k = j
    BY DEF Exact
  <2> HIDE DEF n, from
  <2> PICK l \in 1 .. Len(waiters[f]) : l = from(f, j)
    BY <1>3
  <2>1. waiters'[f][j] = waiters[f][l] /\ v = waiters[f][l].task_index /\ v \notin Careless
    BY <1>3
  <2>2. /\ v \in Waiting
        /\ wants[v] = <<f, waiters[f][l].required_mask>>
        /\ \A k \in 1 .. Len(waiters[f]) : waiters[f][k].task_index = v => k = l
    <3>1. Exact(f, l)
      BY <2>1, CarefulEntry
    <3> QED BY <2>1, <3>1 DEF Exact
  <2>3. v # t
    <3> SUFFICES ASSUME v = t PROVE FALSE
      OBVIOUS
    <3>1. wants[v] = <<e, waiters[e][i].required_mask>>
      <4>1. v = waiters[e][i].task_index
        OBVIOUS
      <4>2. Exact(e, i)
        BY <2>1, <4>1, CarefulEntry
      <4> QED BY <4>1, <4>2 DEF Exact
    <3>2. f = e
      <4>1. wants[v][1] = f
        BY <2>2
      <4>2. wants[v][1] = e
        BY <3>1
      <4> QED BY <4>1, <4>2
    <3>3. i = l
      BY <2>2, <3>2
    <3>4. ~(f = e /\ from(f, j) = i)
      BY <1>3
    <3> QED BY <3>2, <3>3, <3>4
  <2>4. v \in Waiting' /\ wants'[v] = wants[v]
    <3>1. v \in Waiting'
      <4>1. Waiting' = Waiting \ {t} /\ v \in Waiting
        BY <1>6, <2>2
      <4> QED BY <2>3, <4>1
    <3> QED BY <1>7, <3>1
  <2>5. ASSUME NEW k \in 1 .. Len(waiters'[f]), waiters'[f][k].task_index = v
        PROVE  k = j
    <3>1. from(f, k) = from(f, j)
      <4> PICK h \in 1 .. Len(waiters[f]) : h = from(f, k)
        BY <1>3
      <4>1. waiters[f][h].task_index = v
        BY <1>3, <2>5
      <4> QED BY <2>2, <4>1
    <3>2. j \in Nat /\ k \in Nat
      BY <1>8
    <3> QED BY <1>4, <3>1, <3>2
  <2> QED BY <2>1, <2>2, <2>4, <2>5
<1> QED BY <1>9, <1>10, <1>11, <1>12, <1>13 DEF EInv

LEMMA ScanPreserves ==
    ASSUME Inv, EInv, NEW e \in Events, scan_entry(e)
    PROVE  EInv'
<1> PICK i \in 1 .. Len(waiters[e]) : i = scan[e]
  BY EntryTypes DEF scan_entry, EInv
<1> PICK t \in Slots \cup {NoTask} : t = waiters[e][i].task_index
  BY EntryTypes DEF EInv
<1>1. CASE Satisfied(e, i)
  BY <1>1, GrantPreserves DEF scan_entry
<1>2. CASE ~Satisfied(e, i)
  <2>1. /\ scan' = [scan EXCEPT ![e] = i - 1]
        /\ UNCHANGED <<pc, task_list, task_count, flags, waiters>>
        /\ wants' = StillWants
    BY <1>2 DEF scan_entry, tables, rest, control
  <2>2. Waiting' = Waiting /\ Waiting \subseteq Slots
    BY <2>1, CreatedAreSlots DEF Inv, Waiting, Waiters, Created
  <2>3. \A u \in Waiting : wants'[u] = wants[u]
    BY <2>1, <2>2 DEF StillWants
  <2>4. i \in Nat /\ Len(waiters[e]) \in Nat
    BY EntryTypes DEF EInv
  <2>5. ETypeOK'
    BY <2>1, <2>2, <2>4 DEF EInv, ETypeOK, StillWants
  <2>6. CallSite'
    BY <2>1, <2>4 DEF EInv, Quiet, CallSite
  <2>7. PassedUnsatisfied'
    BY <1>2, <2>1, <2>4, EntryTypes DEF EInv, ETypeOK, PassedUnsatisfied, Satisfied
  <2>8. WaitersHaveEntries'
    BY <2>1, <2>2, <2>3 DEF EInv, WaitersHaveEntries, Entry
  <2>9. EntriesExact'
    BY <2>1, <2>2, <2>3 DEF EInv, EntriesExact, Exact
  <2> QED BY <2>5, <2>6, <2>7, <2>8, <2>9 DEF EInv
<1> QED BY <1>1, <1>2

-----------------------------------------------------------------------------
LEMMA WaitPreserves ==
    ASSUME Inv, EInv, Quiet, NEW e \in Events, NEW m \in Masks, event_flags_wait(e, m)
    PROVE  EInv'
<1>1. CASE m \subseteq flags[e]
  BY <1>1, TakePreserves DEF event_flags_wait
<1>2. CASE ~(m \subseteq flags[e])
  BY <1>2, BlockPreserves DEF event_flags_wait
<1> QED BY <1>1, <1>2

LEMMA ENextPreserves ==
    ASSUME Inv, EInv, [ENext]_eVars
    PROVE  EInv'
<1>1. ASSUME NEW e \in Events, NEW m \in Masks, Quiet, event_flags_clear(e, m)
      PROVE  EInv'
  BY <1>1, TakePreserves DEF event_flags_clear
<1>2. CASE UNCHANGED eVars
  <2>1. ETypeOK' /\ Quiet' = Quiet /\ CallSite' = CallSite /\ Waiting' = Waiting
    BY <1>2 DEF eVars, vars, EInv, ETypeOK, Quiet, CallSite, Waiting
  <2>2. PassedUnsatisfied' /\ WaitersHaveEntries'
    BY <1>2, <2>1 DEF eVars, EInv, PassedUnsatisfied, Satisfied, WaitersHaveEntries, Entry
  <2>3. EntriesExact'
    BY <1>2, <2>1 DEF eVars, EInv, EntriesExact, Exact
  <2> QED BY <2>1, <2>2, <2>3 DEF EInv
<1> QED BY <1>1, <1>2, KernelStepPreserves, SetPreserves, WaitPreserves, ScanPreserves
        DEF ENext

LEMMA EventInvariance == ESpec => [](Inv /\ EInv)
<1>1. EInit => Inv /\ EInv
  BY EInitEstablishes, InitEstablishes DEF EInit
<1>2. Inv /\ EInv /\ [ENext]_eVars => Inv' /\ EInv'
  BY EventStep, ENextPreserves, NextPreserves
<1> QED BY <1>1, <1>2, PTL DEF ESpec

(***************************************************************************)
(* event.c wakes and blocks tasks only as the scheduler allows.  A set may *)
(* wake a task by a stale index only if there are careless tasks: that no  *)
(* other wake is stale is what the exact entries are needed for.           *)
(***************************************************************************)
THEOREM EventsImplementScheduler == ESpec => ImplementsScheduler
<1>1. EInit => Init
  BY DEF EInit
<1>2. Inv /\ EInv /\ [ENext]_eVars => [Next]_vars
  BY EventStep
<1> QED BY <1>1, <1>2, EventInvariance, PTL DEF ESpec, Spec, ImplementsScheduler

(* scheduler.c under event.c: a stale wake too leaves the queue exact.     *)
THEOREM QueueWithEvents == ESpec => []ReadyQueueExact
BY EventInvariance, PTL DEF Inv

(* event.c: the waiter table stays within its array, the scan within the   *)
(* table, also when the table is full.                                     *)
THEOREM EventTypeCorrect == ESpec => []ETypeOK
BY EventInvariance, PTL DEF EInv

(***************************************************************************)
(* event.h:14, a set "unblocks every task whose required mask is now       *)
(* satisfied": when the scan is over nothing satisfied is left, and no     *)
(* task waits without an entry.                                            *)
(***************************************************************************)
THEOREM NoEventIsMissed == ESpec => []NoEventMissed
<1>1. EInv => NoEventMissed
  BY EntryTypes DEF EInv, NoEventMissed, PassedUnsatisfied, WaitersHaveEntries
<1> QED BY <1>1, EventInvariance, PTL

(* event.h:12, the table "records which tasks are waiting": of a task that *)
(* keeps to the rules exactly, whatever others leave in it.                *)
THEOREM CarefulEntriesAreExact == ESpec => []CarefulEntriesExact
<1>1. EInv => CarefulEntriesExact
  <2> SUFFICES ASSUME EInv,
                      NEW e \in Events, NEW j \in 1 .. RTOS_EVENT_MAX_WAITERS,
                      j <= Len(waiters[e]),
                      waiters[e][j].task_index \notin Careless
               PROVE  Exact(e, j)
    BY DEF CarefulEntriesExact, Exact
  <2>1. Len(waiters[e]) \in Nat
    BY EntryTypes DEF EInv
  <2>2. j \in 1 .. Len(waiters[e])
    BY <2>1
  <2> QED BY <2>2 DEF EInv, EntriesExact
<1> QED BY <1>1, EventInvariance, PTL

-----------------------------------------------------------------------------
(***************************************************************************)
(* The table as a bag of requests: it does not matter where an entry is,   *)
(* so that filling a gap from the end loses and repeats none.              *)
(***************************************************************************)
Request == (Slots \cup {NoTask}) \X Masks

RequestOf(x) == <<x.task_index, x.required_mask>>

LEMMA RequestOfEntry ==
    ASSUME NEW x \in EventWaiter
    PROVE  /\ RequestOf(x) \in Request
           /\ \A r \in Request : x.task_index = r[1] /\ x.required_mask = r[2]
                                    <=> r = RequestOf(x)
BY DEF EventWaiter, RequestOf, Request

LEMMA PositionsOf ==
    ASSUME NEW w \in Seq(EventWaiter), NEW r \in Request
    PROVE  /\ Positions(w, r) = {k \in 1 .. Len(w) : RequestOf(w[k]) = r}
           /\ IsFiniteSet(Positions(w, r))
           /\ Cardinality(Positions(w, r)) \in Nat
           /\ Cardinality(Positions(w, r)) = 0 <=> Positions(w, r) = {}
<1>1. Len(w) \in Nat /\ \A k \in 1 .. Len(w) : w[k] \in EventWaiter
  BY ElementOfSeq, LenProperties
<1>2. Positions(w, r) = {k \in 1 .. Len(w) : RequestOf(w[k]) = r}
  BY <1>1, RequestOfEntry DEF Positions
<1>3. IsFiniteSet(1 .. Len(w))
  BY <1>1, FS_Interval
<1>4. Positions(w, r) \in SUBSET (1 .. Len(w))
  BY DEF Positions
<1>5. IsFiniteSet(Positions(w, r))
  BY <1>3, <1>4, FS_Subset
<1> QED BY <1>2, <1>5, FS_CardinalityType, FS_EmptySet

(* A new entry is one request more.                                        *)
LEMMA AppendRequests ==
    ASSUME NEW w \in Seq(EventWaiter), NEW x \in EventWaiter, NEW r \in Request
    PROVE  Cardinality(Positions(Append(w, x), r))
              = IF r = RequestOf(x) THEN Cardinality(Positions(w, r)) + 1
                ELSE Cardinality(Positions(w, r))
<1> PICK v \in Seq(EventWaiter) : v = Append(w, x)
  BY AppendProperties
<1>1. /\ Len(w) \in Nat /\ Len(v) = Len(w) + 1
      /\ \A k \in 1 .. Len(w) : v[k] = w[k]
      /\ v[Len(w) + 1] = x
  BY AppendProperties, LenProperties
<1>2. /\ Positions(w, r) = {k \in 1 .. Len(w) : RequestOf(w[k]) = r}
      /\ Positions(v, r) = {k \in 1 .. Len(w) + 1 : RequestOf(v[k]) = r}
      /\ IsFiniteSet(Positions(w, r))
  BY <1>1, PositionsOf
<1>3. CASE r = RequestOf(x)
  <2>1. Positions(v, r) = Positions(w, r) \cup {Len(w) + 1}
    <3> HIDE DEF RequestOf
    <3> QED BY <1>1, <1>2, <1>3
  <2>2. Len(w) + 1 \notin Positions(w, r)
    BY <1>1, <1>2
  <2>3. Cardinality(Positions(w, r) \cup {Len(w) + 1}) = Cardinality(Positions(w, r)) + 1
    BY <1>2, <2>2, FS_AddElement
  <2> QED BY <1>3, <2>1, <2>3
<1>4. CASE r # RequestOf(x)
  <2>1. Positions(v, r) = Positions(w, r)
    <3> HIDE DEF RequestOf
    <3> QED BY <1>1, <1>2, <1>4
  <2> QED BY <1>4, <2>1
<1> QED BY <1>3, <1>4

(* The entry that goes is one request less, whatever fills its place.      *)
LEMMA CompactRequests ==
    ASSUME NEW w \in Seq(EventWaiter), NEW i \in 1 .. Len(w), NEW r \in Request
    PROVE  Cardinality(Positions(Compact(w, i), r))
              = IF r = RequestOf(w[i]) THEN Cardinality(Positions(w, r)) - 1
                ELSE Cardinality(Positions(w, r))
<1> DEFINE n == Len(w)
           P == Positions(w, r)
<1> PICK v \in Seq(EventWaiter) : v = Compact(w, i)
  BY CompactEntries
<1>1. /\ n \in Nat /\ i \in 1 .. n /\ Len(v) = n - 1
      /\ \A k \in 1 .. n - 1 : v[k] = IF k = i THEN w[n] ELSE w[k]
  BY CompactEntries, LenProperties
<1> DEFINE Is(k) == RequestOf(w[k]) = r
<1>2. /\ P = {k \in 1 .. n : Is(k)}
      /\ IsFiniteSet(P)
      /\ Positions(v, r) = {k \in 1 .. n - 1 : RequestOf(v[k]) = r}
  BY <1>1, PositionsOf
<1>3. Positions(v, r) = {k \in 1 .. n - 1 : IF k = i THEN Is(n) ELSE Is(k)}
  BY <1>1, <1>2
<1> HIDE DEF Is, P, n
<1>4. CASE Is(n)
  <2>1. n \in P
    BY <1>1, <1>2, <1>4
  <2>2. Positions(v, r) = (P \ {n}) \cup (IF i = n THEN {} ELSE {i})
    BY <1>1, <1>2, <1>3, <1>4
  <2>3. IsFiniteSet(P \ {n}) /\ Cardinality(P \ {n}) = Cardinality(P) - 1
    BY <1>2, <2>1, FS_RemoveElement
  <2>4. CASE i = n
    BY <1>4, <2>2, <2>3, <2>4 DEF Is, P
  <2>5. CASE i # n
    <3>1. Positions(v, r) = (P \ {n}) \cup {i}
      BY <2>2, <2>5
    <3>2. Cardinality(Positions(v, r))
             = IF i \in P \ {n} THEN Cardinality(P) - 1 ELSE Cardinality(P) - 1 + 1
      <4> PICK Q : Q = P \ {n}
        OBVIOUS
      <4>1. Cardinality(Q \cup {i})
               = IF i \in Q THEN Cardinality(Q) ELSE Cardinality(Q) + 1
        BY <2>3, FS_AddElement
      <4> QED BY <2>3, <3>1, <4>1
    <3>3. i \in P \ {n} <=> Is(i)
      BY <1>1, <1>2, <2>5
    <3>4. Cardinality(P) \in Nat
      BY PositionsOf DEF P
    <3>5. Cardinality(P) - 1 + 1 = Cardinality(P)
      BY <3>4
    <3> QED BY <3>2, <3>3, <3>5 DEF Is, P
  <2> QED BY <2>4, <2>5
<1>5. CASE ~Is(n)
  <2>1. Positions(v, r) = P \ {i}
    BY <1>1, <1>2, <1>3, <1>5
  <2>2. i \in P <=> Is(i)
    BY <1>1, <1>2
  <2> QED BY <1>2, <2>1, <2>2, FS_RemoveElement DEF Is, P
<1> QED BY <1>4, <1>5

(* When nothing in the table is satisfied, no request could be granted.    *)
LEMMA UnsatisfiedIsSettled ==
    ASSUME NEW w \in Seq(EventWaiter), NEW f,
           \A k \in 1 .. Len(w) : ~(w[k].required_mask \subseteq f),
           NEW r \in Request, Cardinality(Positions(w, r)) > 0
    PROVE  ~(r[2] \subseteq f)
<1>1. Positions(w, r) # {}
  BY PositionsOf
<1> PICK k \in 1 .. Len(w) : w[k].required_mask = r[2]
  BY <1>1 DEF Positions
<1> QED OBVIOUS

(* The mapping of EventFlags to EventGroup, by its parts.                  *)
Bag == [e \in Events |-> Requests(e)]
Busy == [e \in Events |-> scan[e] > 0]

LEMMA BagOf ==
    /\ Bag = [e \in Events |-> Bag[e]]
    /\ \A e \in Events : /\ Bag[e] = [r \in Request |-> Bag[e][r]]
                         /\ \A r \in Request :
                               Bag[e][r] = Cardinality(Positions(waiters[e], r))
BY DEF Bag, Requests, Request

LEMMA NextBagOf ==
    /\ Bag' = [e \in Events |-> Bag'[e]]
    /\ \A e \in Events : /\ Bag'[e] = [r \in Request |-> Bag'[e][r]]
                         /\ \A r \in Request :
                               Bag'[e][r] = Cardinality(Positions(waiters'[e], r))
BY DEF Bag, Requests, Request

(* A table that changes in one count of one event.                         *)
LEMMA BagChange ==
    ASSUME NEW e \in Events, NEW q \in Request, NEW n,
           \A f \in Events \ {e} : waiters'[f] = waiters[f],
           \A r \in Request : Bag'[e][r] = IF r = q THEN n ELSE Bag[e][r]
    PROVE  Bag' = [Bag EXCEPT ![e][q] = n]
<1>1. Bag'[e] = [Bag[e] EXCEPT ![q] = n]
  BY BagOf, NextBagOf, ChangedAt
<1>2. \A f \in Events \ {e} : Bag'[f] = Bag[f]
  <2> SUFFICES ASSUME NEW f \in Events \ {e} PROVE Bag'[f] = Bag[f]
    OBVIOUS
  <2>1. \A r \in Request : Bag'[f][r] = Bag[f][r]
    BY BagOf, NextBagOf
  <2> QED BY <2>1, BagOf, NextBagOf
<1>3. Bag' = [Bag EXCEPT ![e] = [Bag[e] EXCEPT ![q] = n]]
  BY <1>1, <1>2, BagOf, NextBagOf, ChangedAt
<1> QED BY <1>3

(* A call ends only when the scan is over, and then nothing is satisfied.  *)
LEMMA ScanProceeds ==
    ASSUME EInv', NEW e \in Events, NEW i \in Nat, scan' = [scan EXCEPT ![e] = i],
           ETypeOK
    PROVE  Groups!Proceed(e)
<1>1. Busy' \in {[Busy EXCEPT ![e] = b] : b \in BOOLEAN}
  <2>1. Busy' = [Busy EXCEPT ![e] = (i > 0)]
    BY DEF Busy, ETypeOK
  <2>2. (i > 0) \in BOOLEAN
    OBVIOUS
  <2> QED BY <2>1, <2>2
<1>2. ASSUME ~Busy'[e], NEW r \in Request, Bag'[e][r] > 0
      PROVE  ~(r[2] \subseteq flags'[e])
  <2>1. ~(scan'[e] > 0)
    BY <1>2 DEF Busy
  <2>2. scan'[e] \in Nat
    BY DEF EInv, ETypeOK
  <2>3. scan'[e] = 0
    BY <2>1, <2>2
  <2> PICK w \in Seq(EventWaiter) : w = waiters'[e]
    BY DEF EInv, ETypeOK
  <2> PICK f : f = flags'[e]
    OBVIOUS
  <2>4. \A k \in 1 .. Len(w) : k > 0
    BY LenProperties
  <2>5. \A k \in 1 .. Len(w) : ~(w[k].required_mask \subseteq f)
    BY <2>3, <2>4 DEF EInv, PassedUnsatisfied, Satisfied
  <2>6. Cardinality(Positions(w, r)) > 0
    BY <1>2, NextBagOf
  <2>7. ~(r[2] \subseteq f)
    BY <2>5, <2>6, UnsatisfiedIsSettled
  <2> QED BY <2>7
<1> QED
  BY <1>1, <1>2
  DEF Groups!Proceed, Groups!Settled, Groups!Request, Request, Bag, Busy

-----------------------------------------------------------------------------
(* Every step of event.c is one of EventGroup, or none.                    *)

LEMMA NotBusy ==
    ASSUME Quiet, NEW e \in Events
    PROVE  ~Busy[e]
<1>1. ~(scan[e] > 0)
  BY DEF Quiet
<1> QED BY <1>1 DEF Busy

LEMMA SetIsSet ==
    ASSUME Inv, EInv, EInv', Quiet, NEW e \in Events, NEW m \in Masks, event_flags_set(e, m)
    PROVE  Groups!Set(e, m)
<1>1. /\ UNCHANGED waiters
      /\ flags' = [flags EXCEPT ![e] = @ \cup m]
  BY DEF event_flags_set
<1> PICK i \in Nat : i = Len(waiters[e])
  BY EntryTypes DEF EInv
<1>2. scan' = [scan EXCEPT ![e] = i]
  BY DEF event_flags_set
<1>3. Groups!Proceed(e)
  BY <1>2, ScanProceeds DEF EInv
<1>4. UNCHANGED Bag
  BY <1>1 DEF Bag, Requests
<1> QED BY <1>1, <1>3, <1>4, NotBusy DEF Groups!Set, Bag, Busy

LEMMA TakeIsTake ==
    ASSUME Quiet, NEW e \in Events, NEW m \in Masks,
           AutoReset(e, m), UNCHANGED <<waiters, scan>>
    PROVE  /\ Groups!Clear(e, m)
           /\ m \subseteq flags[e] => Groups!GrantAtOnce(e, m)
<1>1. UNCHANGED <<Bag, Busy>>
  BY DEF Bag, Busy, Requests
<1> QED BY <1>1, NotBusy DEF AutoReset, Groups!Clear, Groups!GrantAtOnce, Bag, Busy

(* The table of e, and no other, becomes w.                                *)
TableBecomes(e, w) ==
    /\ waiters'[e] = w
    /\ \A f \in Events \ {e} : waiters'[f] = waiters[f]

LEMMA AppendToBag ==
    ASSUME ETypeOK, NEW e \in Events, NEW x \in EventWaiter, NEW q \in Request,
           q = RequestOf(x), TableBecomes(e, Append(waiters[e], x))
    PROVE  Bag' = [Bag EXCEPT ![e][q] = Bag[e][q] + 1]
<1> PICK n : n = Bag[e][q] + 1
  OBVIOUS
<1>1. ASSUME NEW r \in Request PROVE Bag'[e][r] = IF r = q THEN n ELSE Bag[e][r]
  <2> PICK w \in Seq(EventWaiter) : w = waiters[e]
    BY EntryTypes
  <2>1. Cardinality(Positions(Append(w, x), r))
           = IF r = q THEN Cardinality(Positions(w, r)) + 1 ELSE Cardinality(Positions(w, r))
    BY AppendRequests
  <2>2. Bag[e][r] = Cardinality(Positions(w, r))
    BY BagOf
  <2>3. Bag'[e][r] = Cardinality(Positions(Append(w, x), r))
    BY NextBagOf DEF TableBecomes
  <2> QED BY <2>1, <2>2, <2>3
<1>2. \A f \in Events \ {e} : waiters'[f] = waiters[f]
  BY DEF TableBecomes
<1>3. Bag' = [Bag EXCEPT ![e][q] = n]
  BY <1>1, <1>2, BagChange
<1> QED BY <1>3

LEMMA CompactInBag ==
    ASSUME ETypeOK, NEW e \in Events, NEW i \in 1 .. Len(waiters[e]), NEW q \in Request,
           q = RequestOf(waiters[e][i]), TableBecomes(e, Compact(waiters[e], i))
    PROVE  Bag' = [Bag EXCEPT ![e][q] = Bag[e][q] - 1]
<1> PICK n : n = Bag[e][q] - 1
  OBVIOUS
<1>1. ASSUME NEW r \in Request PROVE Bag'[e][r] = IF r = q THEN n ELSE Bag[e][r]
  <2> PICK w \in Seq(EventWaiter) : w = waiters[e]
    BY EntryTypes
  <2>1. Cardinality(Positions(Compact(w, i), r))
           = IF r = q THEN Cardinality(Positions(w, r)) - 1 ELSE Cardinality(Positions(w, r))
    BY CompactRequests
  <2>2. Bag[e][r] = Cardinality(Positions(w, r))
    BY BagOf
  <2>3. Bag'[e][r] = Cardinality(Positions(Compact(w, i), r))
    BY NextBagOf DEF TableBecomes
  <2> QED BY <2>1, <2>2, <2>3
<1>2. \A f \in Events \ {e} : waiters'[f] = waiters[f]
  BY DEF TableBecomes
<1>3. Bag' = [Bag EXCEPT ![e][q] = n]
  BY <1>1, <1>2, BagChange
<1> QED BY <1>3

LEMMA BlockIsWait ==
    ASSUME Inv, EInv, Quiet, NEW e \in Events, NEW m \in Masks,
           ~(m \subseteq flags[e]),
           waiters' = [waiters EXCEPT ![e] =
                Append(@, [task_index |-> Caller, required_mask |-> m])],
           UNCHANGED <<flags, scan>>
    PROVE  \E q \in Request : Groups!Wait(e, q)
<1>1. Caller \in Slots \cup {NoTask}
  BY DEF Inv, TypeOK, Caller
<1> PICK x \in EventWaiter : x = [task_index |-> Caller, required_mask |-> m]
  BY <1>1 DEF EventWaiter
<1> PICK q \in Request : q = RequestOf(x)
  BY RequestOfEntry
<1>2. TableBecomes(e, Append(waiters[e], x))
  BY DEF EInv, ETypeOK, TableBecomes
<1>3. Bag' = [Bag EXCEPT ![e][q] = Bag[e][q] + 1]
  BY <1>2, AppendToBag DEF EInv
<1>4. q[2] = m
  BY DEF RequestOf
<1>5. UNCHANGED Busy
  BY DEF Busy
<1> QED BY <1>3, <1>4, <1>5, NotBusy DEF Groups!Wait, Bag, Busy

LEMMA ScanIsGrantOrLook ==
    ASSUME Inv, EInv, EInv', NEW e \in Events, scan_entry(e)
    PROVE  Groups!Look(e) \/ \E q \in Request : Groups!Grant(e, q)
<1> PICK i \in 1 .. Len(waiters[e]) : i = scan[e]
  BY EntryTypes DEF scan_entry, EInv
<1>1. i - 1 \in Nat /\ i > 0
  BY EntryTypes DEF EInv
<1>2. Groups!Proceed(e)
  <2>1. scan' = [scan EXCEPT ![e] = i - 1]
    BY DEF scan_entry
  <2> QED BY <1>1, <2>1, ScanProceeds DEF EInv
<1>3. Busy[e]
  BY <1>1 DEF Busy
<1>4. CASE ~Satisfied(e, i)
  <2>1. UNCHANGED <<flags, waiters>>
    BY <1>4 DEF scan_entry
  <2>2. UNCHANGED Bag
    BY <2>1 DEF Bag, Requests
  <2> QED BY <1>2, <1>3, <2>1, <2>2 DEF Groups!Look, Bag, Busy
<1>5. CASE Satisfied(e, i)
  <2> PICK w \in Seq(EventWaiter) : w = waiters[e]
    BY EntryTypes DEF EInv
  <2> PICK q \in Request : q = RequestOf(w[i])
    BY RequestOfEntry, EntryTypes DEF EInv
  <2>1. /\ waiters' = [waiters EXCEPT ![e] = Compact(w, i)]
        /\ flags' = [flags EXCEPT ![e] = @ \ q[2]]
        /\ q[2] \subseteq flags[e]
    BY <1>5 DEF scan_entry, AutoReset, Satisfied, RequestOf
  <2>2. TableBecomes(e, Compact(waiters[e], i))
    BY <2>1 DEF EInv, ETypeOK, TableBecomes
  <2>3. Bag' = [Bag EXCEPT ![e][q] = Bag[e][q] - 1]
    BY <2>2, CompactInBag DEF EInv
  <2>4. Bag[e][q] > 0
    <3>1. /\ Positions(w, q) = {k \in 1 .. Len(w) : RequestOf(w[k]) = q}
          /\ Cardinality(Positions(w, q)) \in Nat
          /\ Cardinality(Positions(w, q)) = 0 <=> Positions(w, q) = {}
      BY PositionsOf
    <3>2. i \in Positions(w, q)
      BY <3>1
    <3>3. Bag[e][q] = Cardinality(Positions(w, q))
      BY BagOf
    <3> QED BY <3>1, <3>2, <3>3
  <2> QED BY <1>2, <1>3, <2>1, <2>3, <2>4 DEF Groups!Grant, Bag, Busy
<1> QED BY <1>4, <1>5

LEMMA EventStepIsGroupStep ==
    ASSUME Inv, EInv, EInv', [ENext]_eVars
    PROVE  [Groups!Next]_<<flags, Bag, Busy>>
<1> USE DEF Groups!Next
<1>1. CASE (Quiet /\ KernelStep) \/ UNCHANGED eVars
  <2>1. UNCHANGED <<flags, waiters, scan>>
    BY <1>1 DEF KernelStep, eVars
  <2> QED BY <2>1 DEF Bag, Busy, Requests
<1>2. ASSUME NEW e \in Events, NEW m \in Masks, Quiet,
             \/ event_flags_set(e, m)
             \/ event_flags_clear(e, m)
             \/ event_flags_wait(e, m)
      PROVE  Groups!Next
  <2>1. CASE event_flags_set(e, m)
    BY <1>2, <2>1, SetIsSet
  <2>2. CASE event_flags_clear(e, m)
    <3>1. AutoReset(e, m) /\ UNCHANGED <<waiters, scan>>
      BY <2>2 DEF event_flags_clear
    <3> QED BY <1>2, <3>1, TakeIsTake
  <2>3. CASE event_flags_wait(e, m)
    <3>1. CASE m \subseteq flags[e]
      <4>1. AutoReset(e, m) /\ UNCHANGED <<waiters, scan>>
        BY <2>3, <3>1 DEF event_flags_wait
      <4> QED BY <1>2, <3>1, <4>1, TakeIsTake
    <3>2. CASE ~(m \subseteq flags[e])
      <4>1. /\ waiters' = [waiters EXCEPT ![e] =
                  Append(@, [task_index |-> Caller, required_mask |-> m])]
            /\ UNCHANGED <<flags, scan>>
        BY <2>3, <3>2 DEF event_flags_wait
      <4>2. \E q \in Request : Groups!Wait(e, q)
        BY <1>2, <3>2, <4>1, BlockIsWait
      <4> QED BY <4>2 DEF Groups!Request, Request
    <3> QED BY <3>1, <3>2
  <2> QED BY <1>2, <2>1, <2>2, <2>3
<1>3. ASSUME NEW e \in Events, scan_entry(e)
      PROVE  Groups!Next
  BY <1>3, ScanIsGrantOrLook DEF Groups!Request, Request
<1> QED BY <1>1, <1>2, <1>3 DEF ENext

(***************************************************************************)
(* event.c keeps the contract of EventGroup for any tasks, masks and       *)
(* tables: whatever the order in which the reverse scan meets the entries  *)
(* and moves them, requests are granted one by one, each with bits no      *)
(* other was granted, and a call ends when nothing is left to grant.       *)
(***************************************************************************)
THEOREM EventsImplementGroups == ESpec => ImplementsGroups
<1>1. EInit => Groups!Init
  <2> SUFFICES ASSUME EInit PROVE Groups!Init
    OBVIOUS
  <2>1. \A e \in Events : waiters[e] = <<>> /\ scan[e] = 0
    BY DEF EInit
  <2>2. ASSUME NEW e \in Events, NEW r \in Request PROVE Cardinality(Positions(<<>>, r)) = 0
    <3>1. <<>> \in Seq(EventWaiter) /\ Len(<<>>) = 0
      BY EmptySeq
    <3>2. Positions(<<>>, r) = {}
      BY <3>1 DEF Positions
    <3> QED BY <3>2, FS_EmptySet
  <2>3. Bag = [e \in Events |-> [r \in Request |-> 0]]
    BY <2>1, <2>2 DEF Bag, Requests, Request
  <2>4. Busy = [e \in Events |-> FALSE]
    <3>1. \A e \in Events : (scan[e] > 0) = FALSE
      BY <2>1
    <3> QED BY <3>1 DEF Busy
  <2>5. flags = [e \in Events |-> {}]
    BY DEF EInit
  <2> QED BY <2>3, <2>4, <2>5 DEF Groups!Init, Groups!Request, Request, Bag, Busy
<1>2. Inv /\ EInv /\ EInv' /\ [ENext]_eVars => [Groups!Next]_<<flags, Bag, Busy>>
  BY EventStepIsGroupStep
<1>3. [Groups!Next]_<<flags, Bag, Busy>> => [Groups!Next]_(Groups!gVars)
  BY DEF Groups!gVars, Bag, Busy
<1> QED
  BY <1>1, <1>2, <1>3, EventInvariance, PTL DEF ESpec, ImplementsGroups, Groups!Spec
=============================================================================
