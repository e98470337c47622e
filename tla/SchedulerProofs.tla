-------------------------- MODULE SchedulerProofs ---------------------------
(***************************************************************************)
(* The safety of the kernel core for every table size, time slice, counter *)
(* width and set of priorities, sleeps and block reasons, and for wakes by *)
(* a stale index as well as exact ones.                                    *)
(*                                                                         *)
(* The four state properties of Scheduler form one inductive invariant.    *)
(* None of them is inductive alone: that the queue stays exact when a task *)
(* is dispatched rests on no other task being RUNNING, that a switch saves *)
(* into the right TCB rests on the register file being the current task's, *)
(* and all of them on the types.                                           *)
(***************************************************************************)
EXTENDS Scheduler, FiniteSetTheorems, SequenceTheorems, TLAPS

(* A family indexed by S that changes in one place.                        *)
LEMMA ChangedAt ==
    ASSUME NEW S, NEW f, NEW g, NEW q \in S, NEW w,
           f = [x \in S |-> f[x]], g = [x \in S |-> g[x]],
           g[q] = w, \A x \in S \ {q} : g[x] = f[x]
    PROVE  g = [f EXCEPT ![q] = w]
OBVIOUS

(***************************************************************************)
(* The operators of ReadyQueue, for every number of tasks: what removing,  *)
(* enqueueing and requeueing do to a queue without duplicates, and that    *)
(* such a queue cannot overflow the static array.                          *)
(***************************************************************************)

(* The queues the kernel keeps: sequences of slots, each at most once.     *)
ExactQueue == {q \in Seq(Slots) : IsInjective(q)}

(***************************************************************************)
(* ready_queue_remove() (scheduler.c:92) closes the gap: the entries after *)
(* position k move down by one and no other entry is touched.              *)
(***************************************************************************)
LEMMA RemoveAtEntries ==
    ASSUME NEW q \in Seq(Slots), NEW k \in 1 .. Len(q)
    PROVE  /\ RemoveAt(q, k) \in Seq(Slots)
           /\ Len(RemoveAt(q, k)) = Len(q) - 1
           /\ \A j \in 1 .. Len(q) - 1 :
                RemoveAt(q, k)[j] = IF j < k THEN q[j] ELSE q[j + 1]
<1> DEFINE a == SubSeq(q, 1, k - 1)
           b == SubSeq(q, k + 1, Len(q))
<1>1. /\ Len(q) \in Nat
      /\ \A j \in 1 .. Len(q) : q[j] \in Slots
  BY ElementOfSeq, LenProperties
<1>2. /\ a \in Seq(Slots)
      /\ Len(a) = k - 1
      /\ \A j \in 1 .. k - 1 : a[j] = q[j]
  <2>1. \A j \in 1 .. k - 1 : q[j] \in Slots
    BY <1>1
  <2>. QED BY <1>1, <2>1, SubSeqProperties
<1>3. /\ b \in Seq(Slots)
      /\ Len(b) = Len(q) - k
      /\ \A j \in 1 .. Len(q) - k : b[j] = q[k + j]
  <2>1. \A j \in k + 1 .. Len(q) : q[j] \in Slots
    BY <1>1
  <2>. QED BY <1>1, <2>1, SubSeqProperties
<1> HIDE DEF a, b
<1>4. /\ a \o b \in Seq(Slots)
      /\ Len(a \o b) = Len(q) - 1
      /\ \A j \in 1 .. Len(q) - 1 :
           (a \o b)[j] = IF j < k THEN a[j] ELSE b[j - (k - 1)]
  <2>1. /\ a \o b \in Seq(Slots)
        /\ Len(a \o b) = Len(a) + Len(b)
        /\ \A j \in 1 .. Len(a) + Len(b) :
             (a \o b)[j] = IF j <= Len(a) THEN a[j] ELSE b[j - Len(a)]
    BY <1>2, <1>3, ConcatProperties
  <2>2. Len(a) + Len(b) = Len(q) - 1
    BY <1>1, <1>2, <1>3
  <2>3. \A j \in 1 .. Len(q) - 1 : j <= k - 1 <=> j < k
    BY <1>1
  <2>. QED BY <1>2, <2>1, <2>2, <2>3
<1>5. ASSUME NEW j \in 1 .. Len(q) - 1, ~(j < k)
      PROVE  b[j - (k - 1)] = q[j + 1]
  <2>1. j - (k - 1) \in 1 .. Len(q) - k
    BY <1>1, <1>5
  <2>2. k + (j - (k - 1)) = j + 1
    BY <1>1
  <2>. QED BY <1>3, <2>1, <2>2
<1>6. RemoveAt(q, k) = a \o b
  BY DEF RemoveAt, a, b
<1>. QED BY <1>1, <1>2, <1>4, <1>5, <1>6

(* Without duplicates the search stops at the only position holding i.     *)
LEMMA RemoveFirstPosition ==
    ASSUME NEW q \in ExactQueue, NEW k \in 1 .. Len(q)
    PROVE  RemoveFirst(q, q[k]) = RemoveAt(q, k)
<1>1. q \in Seq(Slots) /\ DOMAIN q = 1 .. Len(q) /\ Len(q) \in Nat
  BY LenProperties DEF ExactQueue
<1>2. {p \in 1 .. Len(q) : q[p] = q[k]} = {k}
  BY <1>1 DEF ExactQueue, IsInjective
<1>3. Min({k}) = k
  BY <1>1 DEF Min
<1>. QED BY <1>1, <1>2, <1>3 DEF RemoveFirst, SelectInSeq

(***************************************************************************)
(* ready_queue_remove(): the task is out of the queue, every other task is *)
(* where it was, and duplicates cannot arise.                              *)
(***************************************************************************)
LEMMA RemoveFirstExact ==
    ASSUME NEW q \in ExactQueue, NEW e \in Slots
    PROVE  /\ RemoveFirst(q, e) \in ExactQueue
           /\ \A i \in Slots :
                Contains(RemoveFirst(q, e), i) <=> Contains(q, i) /\ i # e
<1>1. /\ q \in Seq(Slots)
      /\ Len(q) \in Nat
      /\ DOMAIN q = 1 .. Len(q)
      /\ \A x, y \in 1 .. Len(q) : q[x] = q[y] => x = y
  BY LenProperties DEF ExactQueue, IsInjective
<1>2. CASE ~Contains(q, e)
  <2>1. RemoveFirst(q, e) = q
    BY <1>2 DEF RemoveFirst, Contains
  <2>. QED BY <1>2, <2>1
<1>3. CASE Contains(q, e)
  <2>1. PICK k \in 1 .. Len(q) : q[k] = e
    BY <1>3 DEF Contains
  <2> DEFINE r == RemoveAt(q, k)
  <2>2. RemoveFirst(q, e) = r
    BY <2>1, RemoveFirstPosition
  <2>3. /\ r \in Seq(Slots)
        /\ Len(r) = Len(q) - 1
        /\ \A j \in 1 .. Len(q) - 1 : r[j] = IF j < k THEN q[j] ELSE q[j + 1]
    BY <1>1, RemoveAtEntries
  <2>4. DOMAIN r = 1 .. Len(q) - 1
    BY <2>3, LenProperties
  <2> HIDE DEF r
  <2>5. \A x, y \in 1 .. Len(q) - 1 : r[x] = r[y] => x = y
    <3>. SUFFICES ASSUME NEW x \in 1 .. Len(q) - 1, NEW y \in 1 .. Len(q) - 1,
                         r[x] = r[y]
                  PROVE  x = y
      OBVIOUS
    <3> DEFINE at(j) == IF j < k THEN j ELSE j + 1
    <3>1. /\ at(x) \in 1 .. Len(q) /\ r[x] = q[at(x)]
          /\ at(y) \in 1 .. Len(q) /\ r[y] = q[at(y)]
      BY <1>1, <2>3
    <3>2. at(x) = at(y)
      BY <1>1, <3>1
    <3>. QED BY <1>1, <3>2
  <2>6. ASSUME NEW i \in Slots
        PROVE  Contains(r, i) <=> Contains(q, i) /\ i # e
    <3>1. ASSUME NEW j \in 1 .. Len(q) - 1, r[j] = i
          PROVE  Contains(q, i) /\ i # e
      <4>1. CASE j < k
        BY <1>1, <2>1, <2>3, <3>1, <4>1 DEF Contains
      <4>2. CASE ~(j < k)
        <5>1. j + 1 \in 1 .. Len(q) /\ j + 1 # k /\ r[j] = q[j + 1]
          BY <1>1, <2>3, <4>2
        <5>. QED BY <1>1, <2>1, <3>1, <5>1 DEF Contains
      <4>. QED BY <4>1, <4>2
    <3>2. ASSUME NEW j \in 1 .. Len(q), q[j] = i, i # e
          PROVE  Contains(r, i)
      <4>1. CASE j < k
        <5>1. j \in 1 .. Len(q) - 1 /\ r[j] = i
          BY <1>1, <2>3, <3>2, <4>1
        <5>. QED BY <2>3, <5>1 DEF Contains
      <4>2. CASE ~(j < k)
        <5>1. j - 1 \in 1 .. Len(q) - 1 /\ ~(j - 1 < k) /\ (j - 1) + 1 = j
          BY <1>1, <2>1, <3>2, <4>2
        <5>2. r[j - 1] = i
          BY <2>3, <3>2, <5>1
        <5>. QED BY <2>3, <5>1, <5>2 DEF Contains
      <4>. QED BY <4>1, <4>2
    <3>. QED BY <2>3, <3>1, <3>2 DEF Contains
  <2>. QED BY <2>2, <2>3, <2>4, <2>5, <2>6 DEF ExactQueue, IsInjective
<1>. QED BY <1>2, <1>3

(***************************************************************************)
(* The array of RTOS_MAX_TASKS entries is always long enough: a queue      *)
(* without duplicates that lacks a task has room for it (scheduler.c:122). *)
(***************************************************************************)
LEMMA RoomForOneMore ==
    ASSUME NEW q \in ExactQueue, NEW i \in Slots, ~Contains(q, i)
    PROVE  Len(q) < MaxTasks
<1> DEFINE Others == Slots \ {i}
<1>1. /\ q \in Seq(Slots)
      /\ Len(q) \in Nat
      /\ DOMAIN q = 1 .. Len(q)
      /\ \A x, y \in 1 .. Len(q) : q[x] = q[y] => x = y
  BY LenProperties DEF ExactQueue, IsInjective
<1>2. /\ IsFiniteSet(Slots)
      /\ Cardinality(Slots) = MaxTasks
  BY MaxTasksAssumption, FS_Interval DEF Slots
<1>3. /\ IsFiniteSet(Others)
      /\ Cardinality(Others) = MaxTasks - 1
  BY <1>2, FS_RemoveElement
<1>4. /\ IsFiniteSet(1 .. Len(q))
      /\ Cardinality(1 .. Len(q)) = Len(q)
  BY <1>1, FS_Interval
<1>5. q \in [1 .. Len(q) -> Others]
  <2>1. \A p \in 1 .. Len(q) : q[p] \in Slots /\ q[p] # i
    BY <1>1, ElementOfSeq DEF Contains
  <2>2. q = [p \in 1 .. Len(q) |-> q[p]]
    BY <1>1, LenProperties
  <2>. QED BY <2>1, <2>2
<1> HIDE DEF Others
<1>6. ~(MaxTasks - 1 < Len(q))
  BY <1>1, <1>3, <1>4, <1>5, FS_PigeonHole
<1>. QED BY <1>1, <1>6, MaxTasksAssumption

(***************************************************************************)
(* scheduler_set_task_state(): afterwards the queue is duplicate-free and  *)
(* holds the task iff it became READY; the others are as before.           *)
(***************************************************************************)
LEMMA RequeueExact ==
    ASSUME NEW q \in ExactQueue, NEW i \in Slots, NEW s
    PROVE  /\ Requeue(q, i, s) \in ExactQueue
           /\ \A j \in Slots : Contains(Requeue(q, i, s), j)
                <=> IF j = i THEN s = "READY" ELSE Contains(q, j)
<1> DEFINE r == RemoveFirst(q, i)
<1>1. /\ r \in ExactQueue
      /\ \A j \in Slots : Contains(r, j) <=> Contains(q, j) /\ j # i
  BY RemoveFirstExact
<1> HIDE DEF r
<1>2. CASE s # "READY"
  BY <1>1, <1>2 DEF Requeue, r
<1>3. CASE s = "READY"
  <2> DEFINE a == Append(r, i)
  <2>1. Requeue(q, i, s) = a
    BY <1>1, <1>3, RoomForOneMore DEF Requeue, Enqueue, r
  <2>2. /\ r \in Seq(Slots)
        /\ Len(r) \in Nat
        /\ DOMAIN r = 1 .. Len(r)
        /\ \A x, y \in 1 .. Len(r) : r[x] = r[y] => x = y
    BY <1>1, LenProperties DEF ExactQueue, IsInjective
  <2>3. /\ a \in Seq(Slots)
        /\ Len(a) = Len(r) + 1
        /\ \A p \in 1 .. Len(r) : a[p] = r[p]
        /\ a[Len(r) + 1] = i
    BY <2>2, AppendProperties
  <2>4. DOMAIN a = 1 .. Len(r) + 1
    BY <2>3, LenProperties
  <2> HIDE DEF a
  <2>5. \A p \in 1 .. Len(r) : r[p] # i
    BY <1>1 DEF Contains
  <2>6. \A x, y \in 1 .. Len(r) + 1 : a[x] = a[y] => x = y
    <3>. SUFFICES ASSUME NEW x \in 1 .. Len(r) + 1, NEW y \in 1 .. Len(r) + 1,
                         a[x] = a[y]
                  PROVE  x = y
      OBVIOUS
    <3>1. x \in 1 .. Len(r) \/ x = Len(r) + 1
      BY <2>2
    <3>2. y \in 1 .. Len(r) \/ y = Len(r) + 1
      BY <2>2
    <3>. QED BY <2>2, <2>3, <2>5, <3>1, <3>2
  <2>7. ASSUME NEW j \in Slots
        PROVE  Contains(a, j) <=> Contains(r, j) \/ j = i
    <3>1. Len(r) + 1 \in 1 .. Len(r) + 1
      BY <2>2
    <3>2. \A p \in 1 .. Len(r) + 1 : p \in 1 .. Len(r) \/ p = Len(r) + 1
      BY <2>2
    <3>3. \A p \in 1 .. Len(r) : p \in 1 .. Len(r) + 1
      BY <2>2
    <3>. QED BY <2>3, <3>1, <3>2, <3>3 DEF Contains
  <2>. QED BY <1>1, <1>3, <2>1, <2>3, <2>4, <2>6, <2>7 DEF ExactQueue, IsInjective
<1>. QED BY <1>2, <1>3

-----------------------------------------------------------------------------
(* The invariant of the kernel core.                                       *)

(* The inductive invariant.                                                *)
Inv == TypeOK /\ ReadyQueueExact /\ RunningIsCurrent /\ RegistersBelong

(* The queue is right for the table tl with n tasks, task i aside.         *)
ExactExcept(tl, q, n, i) ==
    /\ q \in ExactQueue
    /\ \A j \in Slots \ {i} :
          Contains(q, j) <=> j \in 0 .. n - 1 /\ tl[j].state = "READY"

(***************************************************************************)
(* What scheduler_set_task_state() does to the TCBs: one task's state, and *)
(* nobody's priority, slice or registers.                                  *)
(***************************************************************************)
LEMMA WithStateFields ==
    ASSUME NEW tl \in [Slots -> TCB], NEW i \in Slots,
           NEW s \in TaskState, NEW r \in BlockReason
    PROVE  /\ WithState(tl, i, s, r) \in [Slots -> TCB]
           /\ \A j \in Slots :
                /\ WithState(tl, i, s, r)[j].state = IF j = i THEN s ELSE tl[j].state
                /\ WithState(tl, i, s, r)[j].priority = tl[j].priority
                /\ WithState(tl, i, s, r)[j].context = tl[j].context
<1>. "NONE" \in BlockReason /\ 0 \in Int
  BY DEF BlockReason
<1>1. ASSUME NEW tcb \in TCB
      PROVE  /\ SetState(tcb, s, r) \in TCB
             /\ SetState(tcb, s, r).state = s
             /\ SetState(tcb, s, r).priority = tcb.priority
             /\ SetState(tcb, s, r).context = tcb.context
  BY DEF SetState, TCB
<1>2. SetState(tl[i], s, r) \in TCB
  BY <1>1
<1>. QED BY <1>1, <1>2 DEF WithState

(***************************************************************************)
(* scheduler_set_task_state() makes a queue that is right for every other  *)
(* task right for the task it sets too.                                    *)
(***************************************************************************)
LEMMA SetStateExact ==
    ASSUME NEW tl \in [Slots -> TCB], NEW q \in ExactQueue, NEW n \in 0 .. MaxTasks,
           NEW i \in 0 .. n - 1, NEW s \in TaskState, NEW r \in BlockReason,
           ExactExcept(tl, q, n, i)
    PROVE  /\ Requeue(q, i, s) \in ExactQueue
           /\ \A j \in Slots : Contains(Requeue(q, i, s), j)
                <=> j \in 0 .. n - 1 /\ WithState(tl, i, s, r)[j].state = "READY"
<1>1. i \in Slots
  BY MaxTasksAssumption DEF Slots
<1>2. /\ Requeue(q, i, s) \in ExactQueue
      /\ \A j \in Slots : Contains(Requeue(q, i, s), j)
           <=> IF j = i THEN s = "READY" ELSE Contains(q, j)
  BY <1>1, RequeueExact DEF ExactExcept
<1>3. \A j \in Slots : WithState(tl, i, s, r)[j].state = IF j = i THEN s ELSE tl[j].state
  BY <1>1, WithStateFields
<1>. QED BY <1>2, <1>3 DEF ExactExcept

(* The queue of the kernel, as SetStateExact wants it.                     *)
LEMMA QueueIsExact ==
    ASSUME TypeOK, ReadyQueueExact
    PROVE  /\ ready_queue \in ExactQueue
           /\ \A i : ExactExcept(task_list, ready_queue, task_count, i)
BY DEF TypeOK, ReadyQueueExact, ExactExcept, ExactQueue, IsReady, Created, State

(* Only created tasks have a state that counts, and their slots exist.     *)
LEMMA CreatedAreSlots ==
    ASSUME TypeOK
    PROVE  Created \subseteq Slots
BY MaxTasksAssumption DEF TypeOK, Created, Slots

(***************************************************************************)
(* Every step that sets one task to a state other than RUNNING preserves   *)
(* the invariant: the calls, a wake-up, and the return of a task function. *)
(* tl is the table just before, which may differ in the sleep counts.      *)
(***************************************************************************)
LEMMA SetStatePreserves ==
    ASSUME Inv,
           NEW i \in Created, NEW s \in TaskState \ {"RUNNING"}, NEW r \in BlockReason,
           NEW tl \in [Slots -> TCB],
           \A j \in Slots : /\ tl[j].state = State(j)
                            /\ tl[j].context = task_list[j].context,
           task_list' = WithState(tl, i, s, r),
           ready_queue' = Requeue(ready_queue, i, s),
           UNCHANGED <<task_count, current_task_index, active_context>>,
           pc' = "task" => pc = "task",
           pc' # "task" => \A j \in Created \ {i} : State(j) # "RUNNING"
    PROVE  /\ task_list' \in [Slots -> TCB]
           /\ ready_queue' \in Seq(Slots)
           /\ ReadyQueueExact'
           /\ RunningIsCurrent'
           /\ RegistersBelong'
<1>1. i \in Slots /\ Created \subseteq Slots /\ Created' = Created
  BY CreatedAreSlots DEF Inv, Created
<1>2. /\ task_list' \in [Slots -> TCB]
      /\ \A j \in Slots : /\ task_list'[j].state = IF j = i THEN s ELSE State(j)
                          /\ task_list'[j].context = task_list[j].context
  BY <1>1, WithStateFields
<1>3. ExactExcept(tl, ready_queue, task_count, i)
  BY QueueIsExact DEF Inv, ExactExcept, State
<1>4. /\ ready_queue' \in ExactQueue
      /\ \A j \in Slots : Contains(ready_queue', j)
           <=> j \in Created /\ task_list'[j].state = "READY"
  <2>1. task_count \in 0 .. MaxTasks /\ i \in 0 .. task_count - 1 /\ s \in TaskState
    BY DEF Inv, TypeOK, Created
  <2>2. /\ Requeue(ready_queue, i, s) \in ExactQueue
        /\ \A j \in Slots : Contains(Requeue(ready_queue, i, s), j)
             <=> j \in 0 .. task_count - 1 /\ WithState(tl, i, s, r)[j].state = "READY"
    BY <1>3, <2>1, SetStateExact DEF ExactExcept
  <2>. QED BY <2>2 DEF Created
<1>5. ready_queue' \in Seq(Slots) /\ ReadyQueueExact'
  BY <1>1, <1>4 DEF ReadyQueueExact, IsReady, State, ExactQueue
<1>6. RunningIsCurrent'
  BY <1>1, <1>2 DEF Inv, RunningIsCurrent, State
<1>7. RegistersBelong'
  BY <1>1, <1>2 DEF Inv, RegistersBelong
<1>. QED BY <1>2, <1>5, <1>6, <1>7

(* The eviction of the peek finds nothing to evict.                        *)
LEMMA NothingIsStale ==
    ASSUME Inv
    PROVE  live_queue = ready_queue
<1>1. \A p \in 1 .. Len(ready_queue) : ready_queue[p] \in Slots
  BY ElementOfSeq DEF Inv, TypeOK
<1>2. \A p \in 1 .. Len(ready_queue) : IsReady(ready_queue[p])
  BY <1>1 DEF Inv, ReadyQueueExact, Contains
<1>. QED BY <1>2 DEF live_queue, Live, IsReady, State

(* The peek returns a READY task of the highest priority.                  *)
LEMMA BestIsTop ==
    ASSUME Inv, NEW b, Best(b)
    PROVE  /\ b \in Slots /\ IsReady(b) /\ Contains(ready_queue, b)
           /\ \A i \in Slots : IsReady(i) => Priority(i) <= Priority(b)
<1>1. IsPeek(task_list, ready_queue, b)
  BY NothingIsStale DEF Best
<1>2. PICK p \in 1 .. Len(ready_queue) :
        /\ ready_queue[p] = b
        /\ \A j \in 1 .. Len(ready_queue) :
             task_list[ready_queue[j]].priority <= task_list[b].priority
  BY <1>1 DEF IsPeek
<1>3. b \in Slots
  BY <1>2, ElementOfSeq DEF Inv, TypeOK
<1>4. \A i \in Slots : IsReady(i) <=> \E j \in 1 .. Len(ready_queue) : ready_queue[j] = i
  BY DEF Inv, ReadyQueueExact, Contains
<1>. QED BY <1>2, <1>3, <1>4 DEF Priority, Contains

(* No task is RUNNING while the scheduler decides.                         *)
LEMMA NobodyRuns ==
    ASSUME Inv, pc = "decide"
    PROVE  /\ \A i \in Created : State(i) # "RUNNING"
           /\ cur_idx = current_task_index
           /\ cur_idx # NoTask => /\ cur_idx \in Created
                                  /\ yield_list = task_list
                                  /\ yield_queue = ready_queue
<1>1. \A i \in Created : State(i) # "RUNNING"
  BY DEF Inv, RunningIsCurrent
<1>2. cur_idx = current_task_index
  BY DEF Inv, RegistersBelong, cur_idx
<1>3. cur_idx # NoTask => cur_idx \in Created
  BY <1>2 DEF Inv, RegistersBelong
<1>. QED BY <1>1, <1>2, <1>3, NothingIsStale DEF yield_list, yield_queue

-----------------------------------------------------------------------------
(* The steps of a cycle.                                                   *)

(* A table that differs in sleep counts or slices only is as good.         *)
LEMMA SameStates ==
    ASSUME Inv, task_list' \in [Slots -> TCB],
           \A j \in Slots : /\ task_list'[j].state = State(j)
                            /\ task_list'[j].context = task_list[j].context,
           UNCHANGED <<ready_queue, task_count, current_task_index, active_context>>,
           pc' = "task" <=> pc = "task"
    PROVE  ReadyQueueExact' /\ RunningIsCurrent' /\ RegistersBelong'
<1>1. Created \subseteq Slots /\ Created' = Created
  BY CreatedAreSlots DEF Inv, Created
<1>2. ReadyQueueExact'
  BY <1>1 DEF Inv, ReadyQueueExact, IsReady, State
<1>3. RunningIsCurrent'
  BY <1>1 DEF Inv, RunningIsCurrent, State
<1>4. RegistersBelong'
  BY <1>1 DEF Inv, RegistersBelong
<1>. QED BY <1>2, <1>3, <1>4

(* The steps that touch no TCB and no queue.                               *)
LEMMA TickPreserves ==
    ASSUME Inv, timer_tick \/ sleep_loop_done \/ soft_loop_done
    PROVE  Inv'
<1>1. UNCHANGED <<tables, task_count, current_task_index, active_context>>
  BY DEF timer_tick, sleep_loop_done, soft_loop_done
<1>2. /\ g_kernel_tick' \in 0 .. TickModulus - 1
      /\ cursor' \in 0 .. MaxTasks
      /\ pc' \in {"app", "sleep", "soft", "decide", "task"}
      /\ pc # "task" /\ pc' # "task"
  <2>1. (g_kernel_tick + 1) % TickModulus \in 0 .. TickModulus - 1
    BY SchedulerAssumption DEF Inv, TypeOK
  <2>2. 0 \in 0 .. MaxTasks
    BY MaxTasksAssumption
  <2>. QED BY <2>1, <2>2
         DEF timer_tick, sleep_loop_done, soft_loop_done, Inv, TypeOK
<1>3. TypeOK'
  BY <1>1, <1>2 DEF Inv, TypeOK, tables
<1>4. ReadyQueueExact' /\ RunningIsCurrent' /\ RegistersBelong'
  BY <1>1, <1>2, SameStates DEF Inv, TypeOK, tables, State
<1>. QED BY <1>3, <1>4 DEF Inv

(* timer_update_sleep(): a wake-up, a countdown, or nothing.               *)
LEMMA SleepPreserves ==
    ASSUME Inv, timer_update_sleep
    PROVE  Inv'
<1>1. /\ UNCHANGED <<task_count, current_task_index, active_context, g_kernel_tick, pc>>
      /\ pc = "sleep"
      /\ cursor < task_count
      /\ cursor' = cursor + 1
  BY DEF timer_update_sleep
<1>2. cursor \in Created /\ cursor \in Slots /\ cursor' \in 0 .. MaxTasks
  BY <1>1, CreatedAreSlots, MaxTasksAssumption DEF Inv, TypeOK, Created
<1>3. \A j \in Created : State(j) # "RUNNING"
  BY <1>1 DEF Inv, RunningIsCurrent
<1>4. /\ task_list' \in [Slots -> TCB]
      /\ ready_queue' \in Seq(Slots)
      /\ ReadyQueueExact' /\ RunningIsCurrent' /\ RegistersBelong'
  <2>1. CASE scheduler_set_task_state(cursor, "READY", "NONE")
    <3>1. /\ task_list' = WithState(task_list, cursor, "READY", "NONE")
          /\ ready_queue' = Requeue(ready_queue, cursor, "READY")
      BY <1>2, <2>1 DEF scheduler_set_task_state
    <3>2. "READY" \in TaskState \ {"RUNNING"} /\ "NONE" \in BlockReason
      BY DEF TaskState, BlockReason
    <3>. QED BY <1>1, <1>2, <1>3, <3>1, <3>2, SetStatePreserves
              DEF Inv, TypeOK, State
  <2>2. CASE /\ task_list' = [task_list EXCEPT ![cursor].sleep_ticks = @ - 1]
             /\ UNCHANGED ready_queue
    <3>1. task_list[cursor] \in TCB
      BY <1>2 DEF Inv, TypeOK
    <3> DEFINE new == [task_list[cursor] EXCEPT !.sleep_ticks = @ - 1]
    <3>2. /\ new \in TCB
          /\ new.state = State(cursor)
          /\ new.context = task_list[cursor].context
      BY <3>1 DEF TCB, State
    <3>3. task_list' = [task_list EXCEPT ![cursor] = new]
      BY <2>2
    <3> HIDE DEF new
    <3>4. /\ task_list' \in [Slots -> TCB]
          /\ \A j \in Slots : /\ task_list'[j].state = State(j)
                              /\ task_list'[j].context = task_list[j].context
      BY <1>2, <3>2, <3>3 DEF Inv, TypeOK, State
    <3>. QED BY <1>1, <2>2, <3>4, SameStates DEF Inv, TypeOK
  <2>3. CASE UNCHANGED tables
    BY <1>1, <2>3, SameStates DEF Inv, TypeOK, tables, State
  <2>. QED BY <2>1, <2>2, <2>3 DEF timer_update_sleep
<1>. QED BY <1>1, <1>2, <1>4 DEF Inv, TypeOK

(* The idle cycle resets the slice of the current task.                    *)
LEMMA IdlePreserves ==
    ASSUME Inv, Idle
    PROVE  Inv'
<1>1. /\ UNCHANGED <<task_count, current_task_index, active_context, g_kernel_tick, cursor>>
      /\ pc = "decide" /\ pc' = "app"
      /\ ready_queue' = ready_queue
  BY NothingIsStale DEF Idle
<1>2. /\ task_list' \in [Slots -> TCB]
      /\ \A j \in Slots : /\ task_list'[j].state = State(j)
                          /\ task_list'[j].context = task_list[j].context
  <2>1. CASE cur_idx = NoTask
    BY <2>1 DEF Idle, Inv, TypeOK, State
  <2>2. CASE cur_idx # NoTask
    <3>1. cur_idx \in Slots
      BY <1>1, <2>2, NobodyRuns, CreatedAreSlots DEF Inv
    <3>2. task_list[cur_idx] \in TCB
      BY <3>1 DEF Inv, TypeOK
    <3> DEFINE new == [task_list[cur_idx] EXCEPT !.slice_ticks_used = 0]
    <3>3. 0 \in 0 .. SliceModulus - 1
      BY SchedulerAssumption
    <3>4. /\ new \in TCB
          /\ new.state = State(cur_idx)
          /\ new.context = task_list[cur_idx].context
      BY <3>2, <3>3 DEF TCB, State
    <3>5. task_list' = [task_list EXCEPT ![cur_idx] = new]
      BY <2>2 DEF Idle
    <3> HIDE DEF new
    <3>. QED BY <3>1, <3>4, <3>5 DEF Inv, TypeOK, State
  <2>. QED BY <2>1, <2>2
<1>3. ReadyQueueExact' /\ RunningIsCurrent' /\ RegistersBelong'
  BY <1>1, <1>2, SameStates
<1>. QED BY <1>1, <1>2, <1>3 DEF Inv, TypeOK

(***************************************************************************)
(* The task that starts running leaves the queue, and is then the only one *)
(* RUNNING: common to do_context_switch() and to the Continue case.  tl is *)
(* the table with the registers saved and the slice counted.               *)
(***************************************************************************)
LEMMA RunPreserves ==
    ASSUME Inv, pc = "decide",
           NEW i \in Created, NEW tl \in [Slots -> TCB], NEW q \in ExactQueue,
           \A j \in Slots : tl[j].state = State(j),
           \A j \in Slots \ {i} : Contains(q, j) <=> Contains(ready_queue, j),
           \A j \in Created \ {i} : tl[j].context.entry = j,
           task_list' = WithState(tl, i, "RUNNING", "NONE"),
           ready_queue' = Requeue(q, i, "RUNNING"),
           active_context' \in CPUContext, active_context'.entry = i,
           current_task_index' = i,
           UNCHANGED <<task_count, g_kernel_tick, cursor>>,
           pc' = "task"
    PROVE  Inv'
<1>1. /\ i \in Slots /\ Created \subseteq Slots /\ Created' = Created
      /\ "RUNNING" \in TaskState /\ "NONE" \in BlockReason
      /\ i # NoTask
  BY CreatedAreSlots DEF Inv, Created, TaskState, BlockReason, NoTask
<1>2. /\ task_list' \in [Slots -> TCB]
      /\ \A j \in Slots :
           /\ task_list'[j].state = IF j = i THEN "RUNNING" ELSE State(j)
           /\ task_list'[j].context = tl[j].context
  BY <1>1, WithStateFields
<1>3. ExactExcept(tl, q, task_count, i)
  BY DEF ExactExcept, Inv, ReadyQueueExact, IsReady, State, Created
<1>4. /\ ready_queue' \in ExactQueue
      /\ \A j \in Slots : Contains(ready_queue', j)
           <=> j \in Created /\ task_list'[j].state = "READY"
  <2>1. task_count \in 0 .. MaxTasks /\ i \in 0 .. task_count - 1
    BY DEF Inv, TypeOK, Created
  <2>2. /\ Requeue(q, i, "RUNNING") \in ExactQueue
        /\ \A j \in Slots : Contains(Requeue(q, i, "RUNNING"), j)
             <=> j \in 0 .. task_count - 1
                 /\ WithState(tl, i, "RUNNING", "NONE")[j].state = "READY"
    BY <1>1, <1>3, <2>1, SetStateExact
  <2>. QED BY <2>2 DEF Created
<1>5. TypeOK'
  BY <1>1, <1>2, <1>4 DEF Inv, TypeOK, ExactQueue
<1>6. ReadyQueueExact'
  BY <1>1, <1>4 DEF ReadyQueueExact, IsReady, State, ExactQueue
<1>7. RunningIsCurrent'
  BY <1>1, <1>2, NobodyRuns DEF RunningIsCurrent, State
<1>8. RegistersBelong'
  BY <1>1, <1>2 DEF RegistersBelong
<1>. QED BY <1>5, <1>6, <1>7, <1>8 DEF Inv

(***************************************************************************)
(* do_context_switch() to the best task, as cases A to D call it: the      *)
(* registers go to the TCB of the task they belong to.                     *)
(***************************************************************************)
LEMMA SwitchPreserves ==
    ASSUME Inv, pc = "decide", NEW b, Best(b),
           do_context_switch(cur_idx, b, task_list, RemoveFirst(ready_queue, b))
    PROVE  Inv'
<1> DEFINE saved == IF cur_idx = NoTask THEN task_list
                    ELSE [task_list EXCEPT ![cur_idx].context = active_context]
           timed == [saved EXCEPT ![b].slice_ticks_used = 1]
           popped == RemoveFirst(ready_queue, b)
<1>1. b \in Slots /\ b \in Created
  BY BestIsTop DEF IsReady
<1>2. /\ active_context' = saved[b].context
      /\ current_task_index' = b
      /\ task_list' = WithState(timed, b, "RUNNING", "NONE")
      /\ ready_queue' = Requeue(popped, b, "RUNNING")
      /\ pc' = "task"
      /\ UNCHANGED <<task_count, g_kernel_tick, cursor>>
  BY DEF do_context_switch, Load
<1>3. /\ saved \in [Slots -> TCB]
      /\ \A j \in Slots : saved[j].state = State(j)
      /\ \A j \in Created : saved[j].context.entry = j
  <2>1. CASE cur_idx = NoTask
    <3>1. \A j \in Created : task_list[j].context.entry = j
      BY <2>1, NobodyRuns DEF Inv, RegistersBelong, Created, NoTask
    <3>. QED BY <2>1, <3>1 DEF Inv, TypeOK, State
  <2>2. CASE cur_idx # NoTask
    <3>1. /\ cur_idx \in Created /\ cur_idx \in Slots
          /\ Created \subseteq Slots
          /\ cur_idx = current_task_index
          /\ active_context.entry = cur_idx
      BY <2>2, NobodyRuns, CreatedAreSlots DEF Inv, RegistersBelong
    <3> DEFINE new == [task_list[cur_idx] EXCEPT !.context = active_context]
    <3>2. task_list[cur_idx] \in TCB /\ active_context \in CPUContext
      BY <3>1 DEF Inv, TypeOK
    <3>3. new \in TCB /\ new.state = State(cur_idx) /\ new.context = active_context
      BY <3>2 DEF TCB, State
    <3>4. saved = [task_list EXCEPT ![cur_idx] = new]
      BY <2>2
    <3> HIDE DEF new, saved
    <3>. QED BY <3>1, <3>3, <3>4 DEF Inv, TypeOK, RegistersBelong, State
  <2>. QED BY <2>1, <2>2
<1> HIDE DEF saved
<1>4. /\ timed \in [Slots -> TCB]
      /\ \A j \in Slots : timed[j].state = State(j)
      /\ \A j \in Created : timed[j].context.entry = j
  <2> DEFINE new == [saved[b] EXCEPT !.slice_ticks_used = 1]
  <2>1. 1 \in 0 .. SliceModulus - 1
    BY SchedulerAssumption
  <2>2. saved[b] \in TCB
    BY <1>1, <1>3
  <2>3. new \in TCB /\ new.state = saved[b].state /\ new.context = saved[b].context
    BY <2>1, <2>2 DEF TCB
  <2>4. timed = [saved EXCEPT ![b] = new]
    OBVIOUS
  <2> HIDE DEF new
  <2>. QED BY <1>1, <1>3, <2>3, <2>4, CreatedAreSlots DEF Inv
<1>5. saved[b].context \in CPUContext /\ saved[b].context.entry = b
  BY <1>1, <1>3 DEF TCB
<1>6. /\ popped \in ExactQueue
      /\ \A j \in Slots \ {b} : Contains(popped, j) <=> Contains(ready_queue, j)
  BY <1>1, QueueIsExact, RemoveFirstExact DEF Inv
<1> HIDE DEF timed, popped
<1>. QED BY <1>1, <1>2, <1>4, <1>5, <1>6, RunPreserves

(* Case E: the current task gets another tick with its registers in place. *)
LEMMA ContinuePreserves ==
    ASSUME Inv, NEW b, Continue(b)
    PROVE  Inv'
<1> DEFINE counted ==
      [task_list EXCEPT ![cur_idx].slice_ticks_used = (@ + 1) % SliceModulus]
<1>1. /\ pc = "decide"
      /\ task_list' = WithState(counted, cur_idx, "RUNNING", "NONE")
      /\ ready_queue' = Requeue(ready_queue, cur_idx, "RUNNING")
      /\ pc' = "task"
      /\ UNCHANGED <<task_count, current_task_index, active_context, g_kernel_tick, cursor>>
  BY NothingIsStale DEF Continue, RunAgain
<1>2. /\ cur_idx \in Created /\ cur_idx \in Slots
      /\ cur_idx = current_task_index
      /\ active_context \in CPUContext /\ active_context.entry = cur_idx
  BY <1>1, NobodyRuns, CreatedAreSlots DEF Continue, Inv, TypeOK, RegistersBelong
<1>3. /\ counted \in [Slots -> TCB]
      /\ \A j \in Slots : /\ counted[j].state = State(j)
                          /\ counted[j].context = task_list[j].context
  <2> DEFINE new == [task_list[cur_idx] EXCEPT
                       !.slice_ticks_used = (@ + 1) % SliceModulus]
  <2>1. task_list[cur_idx] \in TCB
    BY <1>2 DEF Inv, TypeOK
  <2>2. \A x \in 0 .. SliceModulus - 1 : (x + 1) % SliceModulus \in 0 .. SliceModulus - 1
    BY SchedulerAssumption
  <2>3. /\ new \in TCB
        /\ new.state = State(cur_idx)
        /\ new.context = task_list[cur_idx].context
    BY <2>1, <2>2 DEF TCB, State
  <2>4. counted = [task_list EXCEPT ![cur_idx] = new]
    OBVIOUS
  <2> HIDE DEF new, counted
  <2>. QED BY <1>2, <2>3, <2>4 DEF Inv, TypeOK, State
<1> HIDE DEF counted
<1>4. \A j \in Created \ {cur_idx} : counted[j].context.entry = j
  BY <1>2, <1>3, CreatedAreSlots DEF Inv, RegistersBelong
<1>5. ready_queue \in ExactQueue
  BY QueueIsExact DEF Inv
<1>. QED BY <1>1, <1>2, <1>3, <1>4, <1>5, RunPreserves

(* Every decision: the four switches reduce to one, the fifth continues.   *)
LEMMA DispatchPreserves ==
    ASSUME Inv, NEW b, Dispatch(b)
    PROVE  Inv'
<1>1. pc = "decide" /\ Best(b)
  BY DEF Dispatch, FirstTick, Forced, Preempted, SliceExpired, Continue
<1>2. CASE FirstTick(b) \/ Forced(b) \/ Preempted(b) \/ SliceExpired(b)
  <2>1. do_context_switch(cur_idx, b, task_list, RemoveFirst(ready_queue, b))
    BY <1>1, <1>2, NobodyRuns, NothingIsStale
    DEF FirstTick, Forced, Preempted, SliceExpired
  <2>. QED BY <1>1, <2>1, SwitchPreserves
<1>3. CASE Continue(b)
  BY <1>3, ContinuePreserves
<1>. QED BY <1>2, <1>3 DEF Dispatch

(* A task that is RUNNING when its function returns is queued again.       *)
LEMMA ReturnPreserves ==
    ASSUME Inv, TaskReturn
    PROVE  Inv'
<1>1. /\ pc = "task" /\ pc' = "app"
      /\ UNCHANGED <<task_count, current_task_index, active_context, g_kernel_tick, cursor>>
  BY DEF TaskReturn
<1>2. current_task_index \in Created /\ current_task_index \in Slots
  BY <1>1, CreatedAreSlots DEF Inv, RegistersBelong
<1>3. \A j \in Created \ {current_task_index} : State(j) # "RUNNING"
  BY DEF Inv, RunningIsCurrent
<1>4. CASE State(current_task_index) = "RUNNING"
  <2>1. /\ task_list' = WithState(task_list, current_task_index, "READY", "NONE")
        /\ ready_queue' = Requeue(ready_queue, current_task_index, "READY")
    BY <1>2, <1>4 DEF TaskReturn, scheduler_set_task_state
  <2>2. "READY" \in TaskState \ {"RUNNING"} /\ "NONE" \in BlockReason
    BY DEF TaskState, BlockReason
  <2>3. /\ task_list' \in [Slots -> TCB] /\ ready_queue' \in Seq(Slots)
        /\ ReadyQueueExact' /\ RunningIsCurrent' /\ RegistersBelong'
    BY <1>1, <1>2, <1>3, <2>1, <2>2, SetStatePreserves DEF Inv, TypeOK, State
  <2>. QED BY <1>1, <2>3 DEF Inv, TypeOK
<1>5. CASE State(current_task_index) # "RUNNING"
  <2>1. UNCHANGED tables
    BY <1>5 DEF TaskReturn
  <2>2. TypeOK'
    BY <1>1, <2>1 DEF Inv, TypeOK, tables
  <2>3. ReadyQueueExact'
    BY <1>1, <2>1 DEF Inv, ReadyQueueExact, IsReady, State, Created, tables
  <2>4. RunningIsCurrent'
    BY <1>1, <1>3, <1>5, <2>1 DEF RunningIsCurrent, State, Created, tables
  <2>5. RegistersBelong'
    BY <1>1, <2>1 DEF Inv, RegistersBelong, Created, tables
  <2>. QED BY <2>2, <2>3, <2>4, <2>5 DEF Inv
<1>. QED BY <1>4, <1>5

-----------------------------------------------------------------------------
(* The kernel calls.                                                       *)

(***************************************************************************)
(* A call that sets one task's state, from wherever it is made.  tl is the *)
(* table after the call's own assignments.                                 *)
(***************************************************************************)
LEMMA CallPreserves ==
    ASSUME Inv, NEW i \in Created, NEW s \in TaskState \ {"RUNNING"},
           NEW r \in BlockReason, NEW tl \in [Slots -> TCB],
           \A j \in Slots : /\ tl[j].state = State(j)
                            /\ tl[j].context = task_list[j].context,
           task_list' = WithState(tl, i, s, r),
           ready_queue' = Requeue(ready_queue, i, s),
           UNCHANGED rest
    PROVE  Inv'
<1>1. UNCHANGED <<task_count, current_task_index, active_context, g_kernel_tick, pc, cursor>>
  BY DEF rest, control
<1>2. pc' # "task" => \A j \in Created \ {i} : State(j) # "RUNNING"
  BY <1>1 DEF Inv, RunningIsCurrent
<1>3. /\ task_list' \in [Slots -> TCB] /\ ready_queue' \in Seq(Slots)
      /\ ReadyQueueExact' /\ RunningIsCurrent' /\ RegistersBelong'
  BY <1>1, <1>2, SetStatePreserves
<1>. QED BY <1>1, <1>3 DEF Inv, TypeOK

(* The same for a call that is a scheduler_set_task_state() and no more.   *)
LEMMA SetCallPreserves ==
    ASSUME Inv, NEW i \in Slots, NEW s \in TaskState \ {"RUNNING"},
           NEW r \in BlockReason,
           scheduler_set_task_state(i, s, r), UNCHANGED rest
    PROVE  Inv'
<1>1. CASE i \in Created
  BY <1>1, CallPreserves DEF scheduler_set_task_state, Inv, TypeOK, State
<1>2. CASE i \notin Created
  <2>1. UNCHANGED tables
    BY <1>2 DEF scheduler_set_task_state
  <2>2. UNCHANGED <<task_count, current_task_index, active_context, g_kernel_tick, pc, cursor>>
    BY DEF rest, control
  <2>3. ReadyQueueExact' /\ RunningIsCurrent' /\ RegistersBelong'
    BY <2>1, <2>2, SameStates DEF Inv, TypeOK, tables, State
  <2>. QED BY <2>1, <2>2, <2>3 DEF Inv, TypeOK, tables
<1>. QED BY <1>1, <1>2

(* rtos_task_sleep() writes the count first.                               *)
LEMMA SleepCallPreserves ==
    ASSUME Inv, NEW n \in SleepArgs, rtos_task_sleep(n)
    PROVE  Inv'
<1> DEFINE c == current_task_index
           tl == [task_list EXCEPT ![c].sleep_ticks = n]
           new == [task_list[c] EXCEPT !.sleep_ticks = n]
<1>1. /\ c \in Created /\ c \in Slots
      /\ task_list' = WithState(tl, c, "BLOCKED", "SLEEP")
      /\ ready_queue' = Requeue(ready_queue, c, "BLOCKED")
      /\ UNCHANGED rest
  BY CreatedAreSlots DEF rtos_task_sleep, Inv
<1>2. "BLOCKED" \in TaskState \ {"RUNNING"} /\ "SLEEP" \in BlockReason
  BY DEF TaskState, BlockReason
<1>3. task_list[c] \in TCB /\ n \in Int
  BY <1>1, SchedulerAssumption DEF Inv, TypeOK
<1>4. new \in TCB /\ new.state = State(c) /\ new.context = task_list[c].context
  BY <1>3 DEF TCB, State
<1>5. tl = [task_list EXCEPT ![c] = new]
  OBVIOUS
<1> HIDE DEF new, tl, c
<1>6. /\ tl \in [Slots -> TCB]
      /\ \A j \in Slots : /\ tl[j].state = State(j)
                          /\ tl[j].context = task_list[j].context
  BY <1>1, <1>4, <1>5 DEF Inv, TypeOK, State
<1>. QED BY <1>1, <1>2, <1>6, CallPreserves

(* What a fresh TCB and the reset registers hold.                          *)
LEMMA FreshTypes == ZeroTCB \in TCB /\ context_init(NoTask) \in CPUContext
<1>1. context_init(NoTask) \in CPUContext
  BY SchedulerAssumption DEF context_init, CPUContext
<1>2. /\ "READY" \in TaskState /\ "NONE" \in BlockReason
      /\ 0 \in 0 .. SliceModulus - 1
  BY SchedulerAssumption DEF TaskState, BlockReason
<1>. QED BY <1>1, <1>2 DEF ZeroTCB, TCB

(***************************************************************************)
(* rtos_create_task(): the slot taken is fresh for the queue, whatever a   *)
(* task table used before rtos_init() has left in it.                      *)
(***************************************************************************)
LEMMA CreatePreserves ==
    ASSUME Inv, NEW p \in Priorities, rtos_create_task(p)
    PROVE  Inv'
<1> DEFINE i == task_count
           new == [ZeroTCB EXCEPT !.priority = p, !.state = "SUSPENDED",
                                  !.context = context_init(i)]
           tl == [task_list EXCEPT ![i] = new]
<1>1. /\ i < MaxTasks
      /\ task_count' = i + 1
      /\ task_list' = WithState(tl, i, "READY", "NONE")
      /\ ready_queue' = Requeue(ready_queue, i, "READY")
      /\ UNCHANGED <<current_task_index, active_context, g_kernel_tick, pc, cursor>>
  BY DEF rtos_create_task, NewTask, control
<1>2. /\ i \in Nat /\ i \in Slots /\ i \notin Created /\ i # NoTask
      /\ Created \subseteq Slots
      /\ Created' = Created \cup {i}
      /\ task_count' \in 0 .. MaxTasks
  BY <1>1, MaxTasksAssumption, CreatedAreSlots
  DEF Inv, TypeOK, Slots, Created, NoTask
<1>3. new \in TCB /\ new.context.entry = i
  <2>1. context_init(i) \in CPUContext /\ context_init(i).entry = i
    BY <1>2, SchedulerAssumption DEF context_init, CPUContext
  <2>2. /\ p \in Int
        /\ "SUSPENDED" \in TaskState /\ "NONE" \in BlockReason
        /\ 0 \in 0 .. SliceModulus - 1
    BY SchedulerAssumption DEF TaskState, BlockReason
  <2>3. ZeroTCB \in TCB
    BY FreshTypes
  <2>4. /\ new \in TCB
        /\ new.context = context_init(i)
    BY <2>1, <2>2, <2>3 DEF TCB
  <2>. QED BY <2>1, <2>4
<1> HIDE DEF new
<1>4. /\ tl \in [Slots -> TCB]
      /\ tl[i].context.entry = i
      /\ \A j \in Slots \ {i} : tl[j] = task_list[j]
  BY <1>2, <1>3 DEF Inv, TypeOK
<1> HIDE DEF tl
<1>5. "READY" \in TaskState /\ "NONE" \in BlockReason
  BY DEF TaskState, BlockReason
<1>6. /\ task_list' \in [Slots -> TCB]
      /\ task_list'[i].state = "READY"
      /\ task_list'[i].context.entry = i
      /\ \A j \in Slots \ {i} : /\ task_list'[j].state = State(j)
                                /\ task_list'[j].context = task_list[j].context
  BY <1>1, <1>2, <1>4, <1>5, WithStateFields DEF State
<1>7. /\ ready_queue' \in ExactQueue
      /\ \A j \in Slots : Contains(ready_queue', j)
           <=> IF j = i THEN TRUE ELSE Contains(ready_queue, j)
  BY <1>1, <1>2, QueueIsExact, RequeueExact DEF Inv
<1>8. TypeOK'
  BY <1>1, <1>2, <1>6, <1>7 DEF Inv, TypeOK, ExactQueue
<1>9. ReadyQueueExact'
  BY <1>2, <1>6, <1>7 DEF Inv, ReadyQueueExact, IsReady, State, ExactQueue
<1>10. RunningIsCurrent'
  BY <1>1, <1>2, <1>6 DEF Inv, RunningIsCurrent, State
<1>11. RegistersBelong'
  BY <1>1, <1>2, <1>6 DEF Inv, RegistersBelong
<1>. QED BY <1>8, <1>9, <1>10, <1>11 DEF Inv

(* rtos_init() forgets the tasks, and with them everything to be exact.    *)
LEMMA InitCallPreserves ==
    ASSUME Inv, rtos_init
    PROVE  Inv'
<1>1. /\ Created' = {} /\ ready_queue' = <<>> /\ current_task_index' = NoTask
      /\ task_count' = 0 /\ g_kernel_tick' = 0
      /\ pc = "app"
      /\ UNCHANGED <<task_list, active_context, pc, cursor>>
  BY DEF rtos_init, Created, control
<1>2. TypeOK'
  BY <1>1, MaxTasksAssumption, SchedulerAssumption, EmptySeq DEF Inv, TypeOK
<1>3. ReadyQueueExact' /\ RunningIsCurrent' /\ RegistersBelong'
  BY <1>1 DEF ReadyQueueExact, IsInjective, Contains, IsReady,
              RunningIsCurrent, RegistersBelong
<1>. QED BY <1>2, <1>3 DEF Inv

LEMMA CallsPreserve ==
    ASSUME Inv, Call
    PROVE  Inv'
<1>0. /\ {"READY", "BLOCKED", "SUSPENDED"} \subseteq TaskState \ {"RUNNING"}
      /\ WaitReasons \subseteq BlockReason /\ "NONE" \in BlockReason
  BY SchedulerAssumption DEF TaskState, BlockReason
<1>1. ASSUME NEW p \in Priorities, rtos_create_task(p) PROVE Inv'
  BY <1>1, CreatePreserves
<1>2. ASSUME NEW n \in SleepArgs, rtos_task_sleep(n) PROVE Inv'
  BY <1>2, SleepCallPreserves
<1>3. ASSUME NEW i \in Slots, rtos_suspend_task(i) PROVE Inv'
  BY <1>0, <1>3, SetCallPreserves DEF rtos_suspend_task
<1>4. ASSUME NEW i \in Slots, rtos_resume_task(i) PROVE Inv'
  BY <1>0, <1>4, SetCallPreserves DEF rtos_resume_task
<1>5. ASSUME NEW i \in Slots, WakeByIndex(i) PROVE Inv'
  BY <1>0, <1>5, SetCallPreserves DEF WakeByIndex
<1>6. ASSUME NEW r \in WaitReasons, Block(r) PROVE Inv'
  <2>1. current_task_index \in Slots
    BY <1>6, CreatedAreSlots DEF Block, Inv
  <2>. QED BY <1>0, <1>6, <2>1, SetCallPreserves DEF Block
<1>7. ASSUME NEW r \in WaitReasons, Unblock(r) PROVE Inv'
  <2>1. CASE UNCHANGED tables
    <3>1. UNCHANGED <<task_count, current_task_index, active_context,
                      g_kernel_tick, pc, cursor>>
      BY <1>7 DEF Unblock, rest, control
    <3>2. ReadyQueueExact' /\ RunningIsCurrent' /\ RegistersBelong'
      BY <2>1, <3>1, SameStates DEF Inv, TypeOK, tables, State
    <3>. QED BY <2>1, <3>1, <3>2 DEF Inv, TypeOK, tables
  <2>2. ASSUME NEW b \in Slots, scheduler_set_task_state(b, "READY", "NONE")
        PROVE  Inv'
    BY <1>0, <1>7, <2>2, SetCallPreserves DEF Unblock
  <2>. QED BY <1>7, <2>1, <2>2 DEF Unblock, scheduler_unblock_one
<1>8. ASSUME NEW w \in Words, Compute(w) PROVE Inv'
  <2>1. /\ UNCHANGED <<task_list, ready_queue, task_count, current_task_index,
                       g_kernel_tick, pc, cursor>>
        /\ active_context' = [active_context EXCEPT !.word = w]
    BY <1>8 DEF Compute, tables, control
  <2>2. active_context' \in CPUContext /\ active_context'.entry = active_context.entry
    <3>1. active_context \in CPUContext /\ w \in Words
      BY DEF Inv, TypeOK
    <3>. QED BY <2>1, <3>1 DEF CPUContext
  <2>3. TypeOK'
    BY <2>1, <2>2 DEF Inv, TypeOK
  <2>4. ReadyQueueExact' /\ RunningIsCurrent' /\ RegistersBelong'
    BY <2>1, <2>2 DEF Inv, ReadyQueueExact, RunningIsCurrent, RegistersBelong,
                      IsReady, State, Created
  <2>. QED BY <2>3, <2>4 DEF Inv
<1>9. CASE rtos_init
  BY <1>9, InitCallPreserves
<1>. QED BY <1>1, <1>2, <1>3, <1>4, <1>5, <1>6, <1>7, <1>8, <1>9 DEF Call, ClientCall

-----------------------------------------------------------------------------
(* The theorems.                                                           *)

LEMMA InitEstablishes == Init => Inv
<1>. SUFFICES ASSUME Init PROVE Inv
  OBVIOUS
<1>1. Created = {}
  BY DEF Init, Created
<1>2. ZeroTCB \in TCB /\ context_init(NoTask) \in CPUContext
  BY FreshTypes
<1>3. TypeOK
  BY <1>2, MaxTasksAssumption, SchedulerAssumption, EmptySeq DEF Init, TypeOK
<1>4. ReadyQueueExact /\ RunningIsCurrent /\ RegistersBelong
  BY <1>1 DEF Init, ReadyQueueExact, IsInjective, Contains, IsReady,
              RunningIsCurrent, RegistersBelong
<1>. QED BY <1>3, <1>4 DEF Inv

LEMMA NextPreserves == Inv /\ [Next]_vars => Inv'
<1>. SUFFICES ASSUME Inv, [Next]_vars PROVE Inv'
  OBVIOUS
<1>1. CASE Cycle
  <2>1. CASE timer_tick \/ sleep_loop_done \/ soft_loop_done
    BY <2>1, TickPreserves
  <2>2. CASE timer_update_sleep
    BY <2>2, SleepPreserves
  <2>3. CASE Idle
    BY <2>3, IdlePreserves
  <2>4. ASSUME NEW b \in Slots, Dispatch(b) PROVE Inv'
    BY <2>4, DispatchPreserves
  <2>5. CASE TaskReturn
    BY <2>5, ReturnPreserves
  <2>. QED BY <1>1, <2>1, <2>2, <2>3, <2>4, <2>5 DEF Cycle
<1>2. CASE Call
  BY <1>2, CallsPreserve
<1>3. CASE UNCHANGED vars
  BY <1>3 DEF vars, Inv, TypeOK, ReadyQueueExact, RunningIsCurrent,
              RegistersBelong, IsReady, State, Created
<1>. QED BY <1>1, <1>2, <1>3 DEF Next

LEMMA Invariance == Spec => []Inv
BY InitEstablishes, NextPreserves, PTL DEF Spec

(***************************************************************************)
(* Every variable of the kernel keeps its type: in particular the task     *)
(* index stays inside the table and the queue holds only task indices.     *)
(***************************************************************************)
THEOREM TypeCorrect == Spec => []TypeOK
BY Invariance, PTL DEF Inv

(***************************************************************************)
(* The ready queue holds exactly the READY tasks, each once, so that it    *)
(* never overflows and its lazy eviction of stale entries is never needed. *)
(***************************************************************************)
THEOREM QueueExact == Spec => []ReadyQueueExact
BY Invariance, PTL DEF Inv

(* At most the current task is RUNNING, and only inside its function.      *)
THEOREM OneRunning == Spec => []RunningIsCurrent
BY Invariance, PTL DEF Inv

(* The register file and every saved context belong to the right task.     *)
THEOREM RegistersKept == Spec => []RegistersBelong
BY Invariance, PTL DEF Inv

(* Only the scheduler's decision leaves pc = "decide".                     *)
LEMMA DecideSteps ==
    ASSUME [Next]_vars, pc = "decide"
    PROVE  Idle \/ (\E b \in Slots : Dispatch(b)) \/ UNCHANGED vars
BY DEF Next, Cycle, Call, ClientCall, timer_tick, timer_update_sleep, sleep_loop_done,
       soft_loop_done, TaskReturn, rtos_create_task, NewTask, rtos_task_sleep,
       rtos_suspend_task, rtos_resume_task, Block, Unblock, WakeByIndex,
       Compute, rtos_init, CallSite

(***************************************************************************)
(* A decision runs a READY task of the highest priority, and is idle only  *)
(* when there is none: the scheduling policy, over all cases A to E.       *)
(***************************************************************************)
THEOREM PriorityScheduling == Spec => HighestPriorityRuns
<1> DEFINE P == pc = "decide" =>
          IF \E i \in Slots : IsReady(i)
          THEN /\ pc' = "task"
               /\ IsReady(current_task_index')
               /\ \A i \in Slots : IsReady(i) => Priority(i) <= Priority(current_task_index')
          ELSE pc' = "app"
<1>1. Inv /\ [Next]_vars => [P]_vars
  <2>. SUFFICES ASSUME Inv, [Next]_vars, pc = "decide", ~UNCHANGED vars
                PROVE  P
    OBVIOUS
  <2>1. CASE Idle
    <3>1. ready_queue = <<>> /\ pc' = "app"
      BY <2>1, NothingIsStale DEF Idle
    <3>2. \A i \in Slots : ~IsReady(i)
      BY <3>1 DEF Inv, ReadyQueueExact, Contains
    <3>. QED BY <3>1, <3>2
  <2>2. ASSUME NEW b \in Slots, Dispatch(b) PROVE P
    <3>1. Best(b)
      BY <2>2 DEF Dispatch, FirstTick, Forced, Preempted, SliceExpired, Continue
    <3>2. IsReady(b) /\ \A i \in Slots : IsReady(i) => Priority(i) <= Priority(b)
      BY <3>1, BestIsTop
    <3>3. CASE FirstTick(b) \/ Forced(b) \/ Preempted(b) \/ SliceExpired(b)
      <4>1. pc' = "task" /\ current_task_index' = b
        BY <3>3 DEF FirstTick, Forced, Preempted, SliceExpired, do_context_switch, Load
      <4>. QED BY <3>2, <4>1
    <3>4. CASE Continue(b)
      <4>1. /\ pc' = "task" /\ current_task_index' = cur_idx
            /\ cur_idx \in Created /\ cur_idx \in Slots
            /\ State(cur_idx) \in {"RUNNING", "READY"}
            /\ Priority(b) <= Priority(cur_idx)
        BY <3>4, NobodyRuns, CreatedAreSlots DEF Continue, RunAgain, Runnable, Inv
      <4>2. IsReady(cur_idx)
        BY <4>1, NobodyRuns DEF IsReady
      <4>3. \A i \in Slots : Priority(i) \in Int
        BY DEF Inv, TypeOK, TCB, Priority
      <4>. QED BY <3>2, <4>1, <4>2, <4>3
    <3>. QED BY <2>2, <3>3, <3>4 DEF Dispatch
  <2>. QED BY <2>1, <2>2, DecideSteps
<1>. QED BY <1>1, Invariance, PTL DEF Spec, HighestPriorityRuns

(***************************************************************************)
(* A current task that is READY, unexceeded and inside its slice keeps the *)
(* processor and its registers.                                            *)
(***************************************************************************)
THEOREM SwitchesAreNeeded == Spec => NoNeedlessSwitch
<1> DEFINE P == /\ pc = "decide"
                /\ cur_idx # NoTask
                /\ IsReady(cur_idx)
                /\ \A i \in Slots : IsReady(i) => Priority(i) <= Priority(cur_idx)
                /\ task_list[cur_idx].slice_ticks_used < TimeSlice
                => UNCHANGED <<current_task_index, active_context>>
<1>1. Inv /\ [Next]_vars => [P]_vars
  <2>. SUFFICES ASSUME Inv, [Next]_vars, ~UNCHANGED vars,
                       pc = "decide",
                       cur_idx # NoTask,
                       IsReady(cur_idx),
                       \A i \in Slots : IsReady(i) => Priority(i) <= Priority(cur_idx),
                       task_list[cur_idx].slice_ticks_used < TimeSlice
                PROVE  UNCHANGED <<current_task_index, active_context>>
    OBVIOUS
  <2>1. CASE Idle
    BY <2>1 DEF Idle
  <2>2. ASSUME NEW b \in Slots, Dispatch(b)
        PROVE  UNCHANGED <<current_task_index, active_context>>
    <3>1. Best(b)
      BY <2>2 DEF Dispatch, FirstTick, Forced, Preempted, SliceExpired, Continue
    <3>2. Priority(b) <= Priority(cur_idx)
      BY <3>1, BestIsTop
    <3>3. /\ cur_idx \in Slots
          /\ Priority(b) \in Int /\ Priority(cur_idx) \in Int
          /\ task_list[cur_idx].slice_ticks_used \in Int
          /\ TimeSlice \in Int
      BY NobodyRuns, CreatedAreSlots, SchedulerAssumption DEF Inv, TypeOK, TCB, Priority
    <3>4. Runnable
      BY DEF IsReady, Runnable
    <3>5. ~FirstTick(b) /\ ~Forced(b)
      BY <3>4 DEF FirstTick, Forced
    <3>6. ~Preempted(b) /\ ~SliceExpired(b)
      BY <3>2, <3>3 DEF Preempted, SliceExpired, SliceIsOver
    <3>. QED BY <2>2, <3>5, <3>6 DEF Dispatch, Continue, RunAgain
  <2>. QED BY <2>1, <2>2, DecideSteps
<1>. QED BY <1>1, Invariance, PTL DEF Spec, NoNeedlessSwitch

-----------------------------------------------------------------------------
(* What the cycle does to tasks that wait, for the modules that build on   *)
(* the scheduler.                                                          *)

(* The fields that say whether, for what and how long a task waits.        *)
SameWait(tl, i) ==
    /\ tl[i].state = task_list[i].state
    /\ tl[i].block_reason = task_list[i].block_reason
    /\ tl[i].sleep_ticks = task_list[i].sleep_ticks

LEMMA WithStateWaits ==
    ASSUME NEW tl \in [Slots -> TCB], NEW i \in Slots,
           NEW s \in TaskState, NEW r \in BlockReason
    PROVE  /\ WithState(tl, i, s, r)[i].state = s
           /\ WithState(tl, i, s, r)[i].block_reason = IF s = "READY" THEN "NONE" ELSE r
           /\ WithState(tl, i, s, r)[i].sleep_ticks
                = IF s = "READY" THEN 0 ELSE tl[i].sleep_ticks
           /\ \A j \in Slots \ {i} : WithState(tl, i, s, r)[j] = tl[j]
<1>1. /\ SetState(tl[i], s, r).state = s
      /\ SetState(tl[i], s, r).block_reason = IF s = "READY" THEN "NONE" ELSE r
      /\ SetState(tl[i], s, r).sleep_ticks = IF s = "READY" THEN 0 ELSE tl[i].sleep_ticks
  BY DEF SetState, TCB
<1>. QED BY <1>1 DEF WithState

(* A dispatch concerns the READY task it chooses and nobody's wait.        *)
LEMMA SwitchWaits ==
    ASSUME Inv, pc = "decide", NEW b, Best(b),
           do_context_switch(cur_idx, b, task_list, RemoveFirst(ready_queue, b))
    PROVE  /\ b \in Slots /\ State(b) = "READY" /\ task_list'[b].state = "RUNNING"
           /\ \A j \in Slots \ {b} : SameWait(task_list', j)
<1> DEFINE saved == IF cur_idx = NoTask THEN task_list
                    ELSE [task_list EXCEPT ![cur_idx].context = active_context]
           timed == [saved EXCEPT ![b].slice_ticks_used = 1]
<1>1. b \in Slots /\ IsReady(b)
  BY BestIsTop
<1>2. task_list' = WithState(timed, b, "RUNNING", "NONE")
  BY DEF do_context_switch, Load
<1>3. saved \in [Slots -> TCB] /\ \A j \in Slots : SameWait(saved, j)
  <2>1. CASE cur_idx = NoTask
    BY <2>1 DEF Inv, TypeOK, SameWait
  <2>2. CASE cur_idx # NoTask
    <3>1. cur_idx \in Slots
      BY <2>2, NobodyRuns, CreatedAreSlots DEF Inv
    <3> DEFINE new == [task_list[cur_idx] EXCEPT !.context = active_context]
    <3>2. task_list[cur_idx] \in TCB /\ active_context \in CPUContext
      BY <3>1 DEF Inv, TypeOK
    <3>3. /\ new \in TCB /\ new.state = task_list[cur_idx].state
          /\ new.block_reason = task_list[cur_idx].block_reason
          /\ new.sleep_ticks = task_list[cur_idx].sleep_ticks
      BY <3>2 DEF TCB
    <3>4. saved = [task_list EXCEPT ![cur_idx] = new]
      BY <2>2
    <3> HIDE DEF new, saved
    <3>. QED BY <3>1, <3>3, <3>4 DEF Inv, TypeOK, SameWait
  <2>. QED BY <2>1, <2>2
<1> HIDE DEF saved
<1>4. timed \in [Slots -> TCB] /\ \A j \in Slots : SameWait(timed, j)
  <2> DEFINE new == [saved[b] EXCEPT !.slice_ticks_used = 1]
  <2>1. 1 \in 0 .. SliceModulus - 1 /\ saved[b] \in TCB
    BY <1>1, <1>3, SchedulerAssumption
  <2>2. /\ new \in TCB /\ new.state = saved[b].state
        /\ new.block_reason = saved[b].block_reason
        /\ new.sleep_ticks = saved[b].sleep_ticks
    BY <2>1 DEF TCB
  <2>3. timed = [saved EXCEPT ![b] = new]
    OBVIOUS
  <2> HIDE DEF new, timed
  <2>. QED BY <1>1, <1>3, <2>2, <2>3 DEF SameWait
<1> HIDE DEF timed
<1>5. "RUNNING" \in TaskState /\ "NONE" \in BlockReason
  BY DEF TaskState, BlockReason
<1>. QED BY <1>1, <1>2, <1>4, <1>5, WithStateWaits DEF IsReady, SameWait

(***************************************************************************)
(* One step of the cycle ends no wait and begins none, except that the     *)
(* sleep pass deals with the sleeper it has come to.                       *)
(***************************************************************************)
LEMMA CycleWaits ==
    ASSUME Inv, Cycle
    PROVE  /\ task_count' = task_count
           /\ \A i \in Created :
                \/ SameWait(task_list', i)
                \/ State(i) # "BLOCKED" /\ task_list'[i].state # "BLOCKED"
                \/ timer_update_sleep /\ i = cursor /\ Sleeping(i)
<1>0. /\ Created \subseteq Slots
      /\ {"READY", "RUNNING"} \subseteq TaskState /\ "NONE" \in BlockReason
      /\ task_list \in [Slots -> TCB]
  BY CreatedAreSlots DEF Inv, TypeOK, TaskState, BlockReason
<1>1. CASE timer_tick \/ sleep_loop_done \/ soft_loop_done
  BY <1>1 DEF timer_tick, sleep_loop_done, soft_loop_done, tables, SameWait
<1>2. CASE timer_update_sleep
  <2> PICK c \in Created : c = cursor
    BY <1>2 DEF timer_update_sleep, Inv, TypeOK, Created
  <2>1. c \in Slots
    BY <1>0
  <2>2. CASE Sleeping(c)
    <3>1. \A j \in Slots \ {c} : task_list'[j] = task_list[j]
      <4>1. CASE scheduler_set_task_state(c, "READY", "NONE")
        BY <1>0, <2>1, <4>1, WithStateWaits DEF scheduler_set_task_state
      <4>2. CASE task_list' = [task_list EXCEPT ![c].sleep_ticks = @ - 1]
        BY <1>0, <2>1, <4>2
      <4>. QED BY <1>2, <2>2, <4>1, <4>2 DEF timer_update_sleep
    <3>. QED BY <1>0, <1>2, <2>2, <3>1 DEF SameWait, timer_update_sleep
  <2>3. CASE ~Sleeping(c)
    BY <1>2, <2>3 DEF timer_update_sleep, tables, SameWait
  <2>. QED BY <2>2, <2>3
<1>3. CASE Idle
  <2>1. pc = "decide" /\ task_count' = task_count
    BY <1>3 DEF Idle
  <2>2. CASE cur_idx = NoTask
    BY <1>3, <2>1, <2>2 DEF Idle, SameWait
  <2>3. CASE cur_idx # NoTask
    <3>1. cur_idx \in Slots
      BY <1>0, <2>1, <2>3, NobodyRuns
    <3> DEFINE new == [task_list[cur_idx] EXCEPT !.slice_ticks_used = 0]
    <3>2. /\ new.state = task_list[cur_idx].state
          /\ new.block_reason = task_list[cur_idx].block_reason
          /\ new.sleep_ticks = task_list[cur_idx].sleep_ticks
      BY <1>0, <3>1 DEF TCB
    <3>3. task_list' = [task_list EXCEPT ![cur_idx] = new]
      BY <1>3, <2>3 DEF Idle
    <3> HIDE DEF new
    <3>. QED BY <1>0, <2>1, <3>1, <3>2, <3>3 DEF SameWait
  <2>. QED BY <2>2, <2>3
<1>4. ASSUME NEW b \in Slots, FirstTick(b) \/ Forced(b) \/ Preempted(b) \/ SliceExpired(b)
      PROVE  /\ task_count' = task_count
             /\ \A i \in Created :
                  \/ SameWait(task_list', i)
                  \/ State(i) # "BLOCKED" /\ task_list'[i].state # "BLOCKED"
  <2>1. pc = "decide" /\ Best(b)
    BY <1>4 DEF FirstTick, Forced, Preempted, SliceExpired
  <2>2. do_context_switch(cur_idx, b, task_list, RemoveFirst(ready_queue, b))
    BY <1>4, <2>1, NobodyRuns, NothingIsStale
    DEF FirstTick, Forced, Preempted, SliceExpired
  <2>3. task_count' = task_count
    BY <2>2 DEF do_context_switch, Load
  <2>. QED BY <1>0, <2>1, <2>2, <2>3, SwitchWaits
<1>5. ASSUME NEW b \in Slots, Continue(b)
      PROVE  /\ task_count' = task_count
             /\ \A i \in Created :
                  \/ SameWait(task_list', i)
                  \/ State(i) # "BLOCKED" /\ task_list'[i].state # "BLOCKED"
  <2>1. pc = "decide" /\ cur_idx # NoTask /\ State(cur_idx) # "BLOCKED" /\ task_count' = task_count
    BY <1>5 DEF Continue, Runnable, RunAgain
  <2> PICK c \in Slots : c = cur_idx
    BY <1>0, <2>1, NobodyRuns
  <2> DEFINE new == [task_list[c] EXCEPT !.slice_ticks_used = (@ + 1) % SliceModulus]
             counted == [task_list EXCEPT ![c] = new]
  <2>2. \A x \in 0 .. SliceModulus - 1 : (x + 1) % SliceModulus \in 0 .. SliceModulus - 1
    BY SchedulerAssumption
  <2>3. new \in TCB
    BY <1>0, <2>2 DEF TCB
  <2>4. task_list' = WithState(counted, c, "RUNNING", "NONE")
    BY <1>5 DEF Continue, RunAgain
  <2> HIDE DEF new
  <2>5. counted \in [Slots -> TCB] /\ \A j \in Slots \ {c} : counted[j] = task_list[j]
    BY <1>0, <2>3
  <2> HIDE DEF counted
  <2>6. /\ task_list'[c].state = "RUNNING"
        /\ \A j \in Slots \ {c} : task_list'[j] = task_list[j]
    BY <1>0, <2>4, <2>5, WithStateWaits
  <2>. QED BY <1>0, <2>1, <2>6 DEF SameWait
<1>6. CASE TaskReturn
  <2>1. task_count' = task_count
    BY <1>6 DEF TaskReturn
  <2>2. CASE State(current_task_index) = "RUNNING"
    <3> PICK c \in Created : c = current_task_index
      BY <1>6 DEF TaskReturn, Inv, RegistersBelong
    <3>1. c \in Slots /\ task_list' = WithState(task_list, c, "READY", "NONE")
      BY <1>0, <1>6, <2>2 DEF TaskReturn, scheduler_set_task_state
    <3>2. /\ task_list'[c].state = "READY"
          /\ \A j \in Slots \ {c} : task_list'[j] = task_list[j]
      BY <1>0, <3>1, WithStateWaits
    <3>. QED BY <1>0, <2>1, <2>2, <3>2 DEF SameWait
  <2>3. CASE State(current_task_index) # "RUNNING"
    BY <1>6, <2>1, <2>3 DEF TaskReturn, tables, SameWait
  <2>. QED BY <2>2, <2>3
<1>. QED BY <1>1, <1>2, <1>3, <1>4, <1>5, <1>6 DEF Cycle, Dispatch

(* Whoever waits for something other than time waits on through the cycle. *)
LEMMA CycleKeepsWaiters ==
    ASSUME Inv, Cycle, NEW r \in BlockReason \ {"SLEEP"}
    PROVE  Waiters(task_list, task_count, r)' = Waiters(task_list, task_count, r)
<1>1. \A i \in Created : timer_update_sleep /\ i = cursor /\ Sleeping(i) =>
        ~(task_list'[i].state = "BLOCKED" /\ task_list'[i].block_reason = r)
  <2> SUFFICES ASSUME NEW i \in Created, timer_update_sleep, i = cursor, Sleeping(i)
               PROVE  ~(task_list'[i].state = "BLOCKED" /\ task_list'[i].block_reason = r)
    OBVIOUS
  <2>1. /\ i \in Slots /\ task_list \in [Slots -> TCB]
        /\ "READY" \in TaskState /\ "NONE" \in BlockReason
    BY CreatedAreSlots DEF Inv, TypeOK, TaskState, BlockReason
  <2>2. CASE scheduler_set_task_state(i, "READY", "NONE")
    BY <2>1, <2>2, WithStateWaits DEF scheduler_set_task_state
  <2>3. CASE task_list' = [task_list EXCEPT ![i].sleep_ticks = @ - 1]
    <3> DEFINE new == [task_list[i] EXCEPT !.sleep_ticks = @ - 1]
    <3>1. new.block_reason = "SLEEP"
      BY <2>1 DEF Sleeping, TCB
    <3>2. task_list' = [task_list EXCEPT ![i] = new]
      BY <2>3
    <3> HIDE DEF new
    <3>. QED BY <2>1, <3>1, <3>2
  <2>. QED BY <2>2, <2>3 DEF timer_update_sleep
<1>2. \A i \in Created :
        task_list'[i].state = "BLOCKED" /\ task_list'[i].block_reason = r
          <=> State(i) = "BLOCKED" /\ task_list[i].block_reason = r
  BY <1>1, CycleWaits DEF SameWait, Sleeping, State
<1>3. task_count' = task_count
  BY CycleWaits
<1>. QED BY <1>2, <1>3 DEF Waiters, Created, State

(* What a call of scheduler_set_task_state() does to those who wait.       *)
LEMMA SetStateWaiters ==
    ASSUME TypeOK, NEW i \in Slots, NEW s \in TaskState, NEW r \in BlockReason,
           scheduler_set_task_state(i, s, r), task_count' = task_count,
           NEW q \in BlockReason \ {"NONE"}
    PROVE  Waiters(task_list, task_count, q)' =
             IF i \in Created /\ s = "BLOCKED" /\ r = q
             THEN Waiters(task_list, task_count, q) \cup {i}
             ELSE Waiters(task_list, task_count, q) \ {i}
<1>1. Created \subseteq Slots /\ task_list \in [Slots -> TCB]
  BY CreatedAreSlots DEF TypeOK
<1>2. CASE i \in Created
  <2>1. task_list' = WithState(task_list, i, s, r)
    BY <1>2 DEF scheduler_set_task_state
  <2>2. /\ task_list'[i].state = s
        /\ task_list'[i].block_reason = IF s = "READY" THEN "NONE" ELSE r
        /\ \A j \in Slots \ {i} : task_list'[j] = task_list[j]
    BY <1>1, <2>1, WithStateWaits
  <2>. QED BY <1>1, <1>2, <2>2 DEF Waiters, Created
<1>3. CASE i \notin Created
  BY <1>3 DEF scheduler_set_task_state, tables, Waiters, Created
<1>. QED BY <1>2, <1>3

(* A task that goes to sleep waits for nothing else.                       *)
LEMMA SleepCallWaiters ==
    ASSUME TypeOK, NEW n \in SleepArgs, rtos_task_sleep(n),
           NEW q \in BlockReason \ {"NONE", "SLEEP"}
    PROVE  Waiters(task_list, task_count, q)'
             = Waiters(task_list, task_count, q) \ {current_task_index}
<1> PICK c \in Created : c = current_task_index
  BY DEF rtos_task_sleep
<1> DEFINE new == [task_list[c] EXCEPT !.sleep_ticks = n]
           tl == [task_list EXCEPT ![c] = new]
<1>1. /\ Created \subseteq Slots /\ task_list \in [Slots -> TCB]
      /\ n \in Int /\ "BLOCKED" \in TaskState /\ "SLEEP" \in BlockReason
  BY CreatedAreSlots, SchedulerAssumption DEF TypeOK, TaskState, BlockReason
<1>2. new \in TCB
  BY <1>1 DEF TCB
<1>3. task_list' = WithState(tl, c, "BLOCKED", "SLEEP") /\ task_count' = task_count
  BY DEF rtos_task_sleep, rest
<1> HIDE DEF new
<1>4. tl \in [Slots -> TCB] /\ \A j \in Slots \ {c} : tl[j] = task_list[j]
  BY <1>1, <1>2
<1> HIDE DEF tl
<1>5. /\ task_list'[c].block_reason = "SLEEP"
      /\ \A j \in Slots \ {c} : task_list'[j] = task_list[j]
  BY <1>1, <1>3, <1>4, WithStateWaits
<1>. QED BY <1>1, <1>3, <1>5 DEF Waiters, Created

(* A new task does not wait.                                               *)
LEMMA CreateWaiters ==
    ASSUME TypeOK, NEW p \in Priorities, rtos_create_task(p),
           NEW q \in BlockReason \ {"NONE"}
    PROVE  Waiters(task_list, task_count, q)' = Waiters(task_list, task_count, q)
<1> DEFINE i == task_count
           new == [ZeroTCB EXCEPT !.priority = p, !.state = "SUSPENDED",
                                  !.context = context_init(i)]
           tl == [task_list EXCEPT ![i] = new]
<1>1. /\ i \in Slots /\ task_count' = i + 1 /\ i \in Nat
      /\ task_list' = WithState(tl, i, "READY", "NONE")
  BY MaxTasksAssumption DEF rtos_create_task, NewTask, TypeOK, Slots
<1>2. /\ Created \subseteq Slots /\ task_list \in [Slots -> TCB]
      /\ "READY" \in TaskState /\ "NONE" \in BlockReason
  BY CreatedAreSlots DEF TypeOK, TaskState, BlockReason
<1>3. new \in TCB
  <2>1. p \in Int /\ context_init(i) \in CPUContext /\ "SUSPENDED" \in TaskState
    BY <1>1, SchedulerAssumption DEF context_init, CPUContext, TaskState
  <2>. QED BY <2>1, FreshTypes DEF TCB
<1> HIDE DEF new
<1>4. tl \in [Slots -> TCB] /\ \A j \in Slots \ {i} : tl[j] = task_list[j]
  BY <1>1, <1>2, <1>3
<1> HIDE DEF tl
<1>5. /\ task_list'[i].state = "READY"
      /\ \A j \in Slots \ {i} : task_list'[j] = task_list[j]
  BY <1>1, <1>2, <1>4, WithStateWaits
<1>. QED BY <1>1, <1>2, <1>5 DEF Waiters, Created

-----------------------------------------------------------------------------
(* Arithmetic of the tick counter.                                         *)

(* Ticks wrap once at most.                                                *)
LEMMA TickSum ==
    ASSUME NEW g \in 0 .. TickModulus - 1, NEW n \in 0 .. TickModulus - 1
    PROVE  (g + n) % TickModulus = IF g + n < TickModulus THEN g + n ELSE g + n - TickModulus
BY SchedulerAssumption

(* A tick that passes is a tick less to wait for.                          *)
LEMMA OneTickLess ==
    ASSUME NEW g \in 0 .. TickModulus - 1, NEW n \in 1 .. TickModulus - 1
    PROVE  /\ (g + 1) % TickModulus \in 0 .. TickModulus - 1
           /\ (((g + 1) % TickModulus) + (n + -1)) % TickModulus = (g + n) % TickModulus
<1>0. TickModulus \in Nat \ {0}
  BY SchedulerAssumption
<1>1. (g + 1) % TickModulus = IF g + 1 < TickModulus THEN g + 1 ELSE g + 1 - TickModulus
  <2>1. 1 \in 0 .. TickModulus - 1
    BY <1>0
  <2> QED BY <2>1, TickSum
<1> DEFINE h == (g + 1) % TickModulus
<1>2. h \in 0 .. TickModulus - 1
  BY <1>0, <1>1
<1>3. (h + (n + -1)) % TickModulus
        = IF h + (n + -1) < TickModulus THEN h + (n + -1) ELSE h + (n + -1) - TickModulus
  <2>1. n + -1 \in 0 .. TickModulus - 1
    BY <1>0
  <2> HIDE DEF h
  <2> QED BY <1>2, <2>1, TickSum
<1>4. (g + n) % TickModulus = IF g + n < TickModulus THEN g + n ELSE g + n - TickModulus
  BY <1>0, TickSum
<1> QED BY <1>0, <1>1, <1>2, <1>3, <1>4
=============================================================================
