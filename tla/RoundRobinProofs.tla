-------------------------- MODULE RoundRobinProofs ---------------------------
(***************************************************************************)
(* The bound on the wait of a READY task, for any number of tasks, any     *)
(* slice, any priorities and any width of the slice counter, when no task  *)
(* is woken by a stale index.                                              *)
(*                                                                         *)
(* The argument is a potential: Debt(t) bounds the ticks that tasks of t's *)
(* priority can still be given before t is dispatched.  It is one slice    *)
(* for each of them that is ahead of t in the queue, and what is left of   *)
(* its slice for the one dispatched last.  A tick for another task pays    *)
(* one of it off, and no wake-up, call or preemption adds to it, because   *)
(* whoever becomes READY queues up behind t.                               *)
(***************************************************************************)
EXTENDS RoundRobin, SchedulerProofs

IsBefore(q, i, t) == \E j, k \in 1 .. Len(q) : j < k /\ q[j] = i /\ q[k] = t

(* The tasks of t's priority ahead of it, for the table tl and the queue q. *)
AheadIn(tl, q, t) ==
    {i \in Slots : tl[i].priority = tl[t].priority /\ IsBefore(q, i, t)}

Left(s) == IF s < TimeSlice THEN TimeSlice - s ELSE 0

(* The task dispatched last counts with the rest of its slice.  If it is   *)
(* ahead of t itself it counts with a whole slice like the others, and the *)
(* tick more that it gets when its counter wraps.                          *)
ExtraIn(tl, q, c, t) ==
    IF c = NoTask \/ c = t THEN 0
    ELSE IF tl[c].priority # tl[t].priority THEN 0
    ELSE IF c \in AheadIn(tl, q, t) THEN 1
    ELSE Left(tl[c].slice_ticks_used)

DebtIn(tl, q, c, t) == TimeSlice * Cardinality(AheadIn(tl, q, t)) + ExtraIn(tl, q, c, t)

Debt(t) == DebtIn(task_list, ready_queue, current_task_index, t)

(* The inductive invariant.                                                *)
WaitBounded ==
    \A t \in Slots :
        /\ passed[t] \in Nat
        /\ IsReady(t) => passed[t] + Debt(t) <= Longest
        /\ ~IsReady(t) => passed[t] = 0

-----------------------------------------------------------------------------
(* Slices.                                                                 *)

LEMMA Slices ==
    ASSUME NEW a \in Nat, NEW b \in Nat
    PROVE  /\ TimeSlice * a \in Nat
           /\ a <= b => TimeSlice * a <= TimeSlice * b
           /\ a < b => TimeSlice * a + TimeSlice <= TimeSlice * b
<1>1. TimeSlice \in Nat
  BY SchedulerAssumption
<1>2. ASSUME NEW m \in Nat, NEW n \in Nat, m <= n PROVE TimeSlice * m <= TimeSlice * n
  <2>1. n - m \in Nat
    BY <1>2
  <2>2. TimeSlice * (n - m) \in Nat
    BY <1>1, <2>1
  <2>3. TimeSlice * n = TimeSlice * m + TimeSlice * (n - m)
    BY <1>1
  <2> QED BY <1>1, <2>2, <2>3
<1>3. a < b => TimeSlice * (a + 1) <= TimeSlice * b
  BY <1>2
<1>4. TimeSlice * (a + 1) = TimeSlice * a + TimeSlice
  BY <1>1
<1> QED BY <1>1, <1>2, <1>3, <1>4

LEMMA LongestIsNat == Longest \in Nat /\ Longest = TimeSlice * (MaxTasks - 1) + 1
<1>1. TimeSlice \in Nat /\ MaxTasks - 1 \in Nat
  BY SchedulerAssumption, MaxTasksAssumption
<1>2. TimeSlice * (MaxTasks - 1) = (MaxTasks - 1) * TimeSlice
  BY <1>1
<1>3. TimeSlice * (MaxTasks - 1) \in Nat
  BY <1>1
<1> QED BY <1>2, <1>3 DEF Longest

-----------------------------------------------------------------------------
(* The order of the queue.                                                 *)

(***************************************************************************)
(* The tasks ahead of t: neither t nor anyone outside the table.           *)
(***************************************************************************)
LEMMA AheadCount ==
    ASSUME NEW tl, NEW q \in ExactQueue, NEW t \in Slots
    PROVE  /\ IsFiniteSet(AheadIn(tl, q, t))
           /\ t \notin AheadIn(tl, q, t)
           /\ Cardinality(AheadIn(tl, q, t)) \in 0 .. MaxTasks - 1
           /\ \A c \in Slots \ {t} : c \notin AheadIn(tl, q, t) =>
                 Cardinality(AheadIn(tl, q, t)) + 1 <= MaxTasks - 1
<1> DEFINE A == AheadIn(tl, q, t)
<1>0. MaxTasks \in Nat \ {0}
  BY MaxTasksAssumption
<1>1. IsFiniteSet(Slots) /\ Cardinality(Slots) = MaxTasks
  BY <1>0, FS_Interval DEF Slots
<1>2. t \notin A
  <2>1. \A x, y \in 1 .. Len(q) : q[x] = q[y] => x = y
    <3>1. q \in Seq(Slots) /\ DOMAIN q = 1 .. Len(q)
      BY DEF ExactQueue
    <3> QED BY <3>1 DEF ExactQueue, IsInjective
  <2>2. ASSUME NEW j \in 1 .. Len(q), NEW k \in 1 .. Len(q), j < k, q[j] = t, q[k] = t
        PROVE  FALSE
    BY <2>1, <2>2
  <2> QED BY <2>2 DEF AheadIn, IsBefore
<1>3. A \subseteq Slots \ {t}
  BY <1>2 DEF AheadIn
<1> HIDE DEF A
<1>4. IsFiniteSet(Slots \ {t}) /\ Cardinality(Slots \ {t}) = MaxTasks - 1
  BY <1>1, FS_RemoveElement
<1>5. IsFiniteSet(A) /\ Cardinality(A) <= MaxTasks - 1
  BY <1>3, <1>4, FS_Subset
<1>6. Cardinality(A) \in Nat
  BY <1>5, FS_CardinalityType
<1>7. ASSUME NEW c \in Slots \ {t}, c \notin A
      PROVE  Cardinality(A) + 1 <= MaxTasks - 1
  <2>1. Cardinality(A \cup {c}) = Cardinality(A) + 1
    BY <1>5, <1>7, FS_AddElement
  <2>2. A \cup {c} \subseteq Slots \ {t}
    BY <1>3
  <2> QED BY <1>4, <2>1, <2>2, FS_Subset
<1> QED BY <1>0, <1>2, <1>5, <1>6, <1>7 DEF A

(* ready_queue_remove() brings nobody ahead of anyone.                     *)
LEMMA RemoveKeepsOrder ==
    ASSUME NEW q \in ExactQueue, NEW e \in Slots, NEW i, NEW t,
           IsBefore(RemoveFirst(q, e), i, t)
    PROVE  IsBefore(q, i, t) /\ i # e /\ t # e
<1>1. q \in Seq(Slots) /\ Len(q) \in Nat /\ DOMAIN q = 1 .. Len(q)
  BY DEF ExactQueue
<1>2. \A x, y \in 1 .. Len(q) : q[x] = q[y] => x = y
  BY <1>1 DEF ExactQueue, IsInjective
<1>3. CASE \E k \in 1 .. Len(q) : q[k] = e
  <2> PICK k \in 1 .. Len(q) : q[k] = e
    BY <1>3
  <2> DEFINE r == RemoveAt(q, k)
             at(x) == IF x < k THEN x ELSE x + 1
  <2>1. RemoveFirst(q, e) = r
    BY RemoveFirstPosition
  <2>2. Len(r) = Len(q) - 1 /\ \A j \in 1 .. Len(r) : r[j] = q[at(j)]
    BY <1>1, RemoveAtEntries
  <2>3. IsBefore(r, i, t)
    BY <2>1
  <2> HIDE DEF r
  <2> PICK x \in 1 .. Len(r), y \in 1 .. Len(r) : x < y /\ r[x] = i /\ r[y] = t
    BY <2>3 DEF IsBefore
  <2>4. /\ at(x) \in 1 .. Len(q) /\ at(y) \in 1 .. Len(q)
        /\ at(x) < at(y) /\ at(x) # k /\ at(y) # k
    BY <1>1, <2>2
  <2>5. q[at(x)] = i /\ q[at(y)] = t
    BY <2>2
  <2> HIDE DEF at
  <2> QED BY <1>2, <2>4, <2>5 DEF IsBefore
<1>4. CASE ~\E k \in 1 .. Len(q) : q[k] = e
  <2>1. RemoveFirst(q, e) = q
    BY <1>1, <1>4 DEF RemoveFirst
  <2> QED BY <1>4, <2>1 DEF IsBefore
<1> QED BY <1>3, <1>4

(***************************************************************************)
(* scheduler_set_task_state(): the task set is behind everyone else, if it *)
(* is queued at all, and the others keep their order.                      *)
(***************************************************************************)
LEMMA RequeueKeepsOrder ==
    ASSUME NEW q \in ExactQueue, NEW e \in Slots, NEW s, NEW i, NEW t, t # e,
           IsBefore(Requeue(q, e, s), i, t)
    PROVE  IsBefore(q, i, t) /\ i # e
<1> DEFINE r == RemoveFirst(q, e)
<1>1. r \in ExactQueue
  BY RemoveFirstExact
<1>2. r \in Seq(Slots) /\ Len(r) \in Nat
  BY <1>1 DEF ExactQueue
<1>3. CASE Requeue(q, e, s) = r
  BY <1>3, RemoveKeepsOrder
<1>4. CASE Requeue(q, e, s) = Append(r, e)
  <2> DEFINE a == Append(r, e)
  <2>1. Len(a) = Len(r) + 1 /\ a[Len(r) + 1] = e /\ \A p \in 1 .. Len(r) : a[p] = r[p]
    BY <1>2, AppendProperties
  <2>2. IsBefore(a, i, t)
    BY <1>4
  <2> HIDE DEF a
  <2> PICK x \in 1 .. Len(a), y \in 1 .. Len(a) : x < y /\ a[x] = i /\ a[y] = t
    BY <2>2 DEF IsBefore
  <2>3. y # Len(r) + 1
    BY <2>1
  <2> HIDE DEF r
  <2>4. x \in 1 .. Len(r) /\ y \in 1 .. Len(r)
    BY <1>2, <2>1, <2>3
  <2>5. IsBefore(r, i, t)
    BY <2>1, <2>4 DEF IsBefore
  <2> QED BY <2>5, RemoveKeepsOrder DEF r
<1> QED BY <1>3, <1>4 DEF Requeue, Enqueue

-----------------------------------------------------------------------------
(* What the steps do to priorities, slices and the order of the queue.     *)

SameTurn(tl, i) ==
    /\ tl[i].priority = task_list[i].priority
    /\ tl[i].slice_ticks_used = task_list[i].slice_ticks_used

(* scheduler_set_task_state() leaves priorities and slices alone.          *)
LEMMA WithStateTurns ==
    ASSUME NEW tl \in [Slots -> TCB], NEW i \in Slots,
           NEW s \in TaskState, NEW r \in BlockReason
    PROVE  \A j \in Slots :
             /\ WithState(tl, i, s, r)[j].priority = tl[j].priority
             /\ WithState(tl, i, s, r)[j].slice_ticks_used = tl[j].slice_ticks_used
<1>1. /\ SetState(tl[i], s, r).priority = tl[i].priority
      /\ SetState(tl[i], s, r).slice_ticks_used = tl[i].slice_ticks_used
  BY DEF SetState, TCB
<1> QED BY <1>1 DEF WithState

(* The queue is without duplicates, and who is ahead of someone is READY.  *)
LEMMA QueuedAreReady ==
    ASSUME Inv
    PROVE  /\ ready_queue \in ExactQueue
           /\ \A i, t : IsBefore(ready_queue, i, t) => i \in Created /\ State(i) = "READY"
<1>1. ready_queue \in Seq(Slots)
  BY DEF Inv, TypeOK
<1>2. ASSUME NEW j \in 1 .. Len(ready_queue)
      PROVE  IsReady(ready_queue[j])
  <2>1. ready_queue[j] \in Slots
    BY <1>1, ElementOfSeq
  <2> QED BY <2>1 DEF Inv, ReadyQueueExact, Contains
<1> QED BY <1>2, QueueIsExact DEF IsBefore, IsReady, Inv

(***************************************************************************)
(* The peek returns the first of its priority: every other READY task of   *)
(* that priority has it ahead.                                             *)
(***************************************************************************)
LEMMA BestIsAhead ==
    ASSUME Inv, NEW b, Best(b), NEW t \in Slots, IsReady(t), t # b,
           Priority(t) = Priority(b)
    PROVE  b \in AheadIn(task_list, ready_queue, t)
<1>1. IsPeek(task_list, ready_queue, b)
  BY NothingIsStale DEF Best
<1>2. PICK p \in 1 .. Len(ready_queue) :
        /\ ready_queue[p] = b
        /\ \A j \in 1 .. Len(ready_queue) :
             j < p => task_list[ready_queue[j]].priority < task_list[b].priority
  BY <1>1 DEF IsPeek
<1>3. PICK k \in 1 .. Len(ready_queue) : ready_queue[k] = t
  BY DEF Inv, ReadyQueueExact, Contains
<1>4. b \in Slots /\ Priority(b) \in Int
  BY BestIsTop DEF Inv, TypeOK, TCB, Priority
<1>5. ~(k < p)
  BY <1>2, <1>3, <1>4 DEF Priority
<1>6. k # p /\ k \in Int /\ p \in Int
  BY <1>2, <1>3
<1>7. IsBefore(ready_queue, b, t)
  BY <1>2, <1>3, <1>5, <1>6 DEF IsBefore
<1> QED BY <1>4, <1>7 DEF AheadIn, Priority

(* A part of a finite set, and a part that lacks an element.               *)
LEMMA FewerAhead ==
    ASSUME NEW A, NEW B, IsFiniteSet(A), B \subseteq A
    PROVE  /\ Cardinality(A) \in Nat /\ Cardinality(B) \in Nat
           /\ Cardinality(B) <= Cardinality(A)
           /\ \A c \in A : c \notin B => Cardinality(B) < Cardinality(A)
<1>1. IsFiniteSet(B) /\ Cardinality(B) <= Cardinality(A)
  BY FS_Subset
<1>2. Cardinality(A) \in Nat /\ Cardinality(B) \in Nat
  BY <1>1, FS_CardinalityType
<1>3. ASSUME NEW c \in A, c \notin B PROVE Cardinality(B) < Cardinality(A)
  <2>1. Cardinality(B \cup {c}) = Cardinality(B) + 1
    BY <1>1, <1>3, FS_AddElement
  <2>2. B \cup {c} \subseteq A
    OBVIOUS
  <2>3. Cardinality(B \cup {c}) <= Cardinality(A)
    BY <2>2, FS_Subset
  <2> QED BY <1>2, <2>1, <2>3
<1> QED BY <1>1, <1>2, <1>3

LEMMA LeftType ==
    ASSUME NEW s \in 0 .. SliceModulus - 1
    PROVE  Left(s) \in 0 .. TimeSlice
BY SchedulerAssumption DEF Left

(***************************************************************************)
(* Whatever the state, the debt is within the bound: it is a slice for     *)
(* each other task, with the current one among those ahead, or beside them *)
(* with the rest of its slice.                                             *)
(***************************************************************************)
LEMMA DebtWithinBound ==
    ASSUME NEW tl \in [Slots -> TCB], NEW q \in ExactQueue,
           NEW c \in Slots \cup {NoTask}, NEW t \in Slots
    PROVE  DebtIn(tl, q, c, t) \in 0 .. Longest
<1> DEFINE a == Cardinality(AheadIn(tl, q, t))
           x == ExtraIn(tl, q, c, t)
<1>1. /\ a \in 0 .. MaxTasks - 1 /\ MaxTasks - 1 \in Nat
      /\ TimeSlice \in Nat \ {0}
  BY AheadCount, MaxTasksAssumption, SchedulerAssumption
<1>2. Longest \in Nat /\ Longest = TimeSlice * (MaxTasks - 1) + 1
  BY LongestIsNat
<1>3. /\ TimeSlice * a \in Nat /\ TimeSlice * (MaxTasks - 1) \in Nat
      /\ TimeSlice * a <= TimeSlice * (MaxTasks - 1)
      /\ a < MaxTasks - 1 => TimeSlice * a + TimeSlice <= TimeSlice * (MaxTasks - 1)
  BY <1>1, Slices
<1>4. x \in {0, 1} \/ (x \in 0 .. TimeSlice /\ a < MaxTasks - 1)
  <2>1. CASE c = NoTask \/ c = t
    BY <2>1 DEF ExtraIn
  <2>2. CASE c # NoTask /\ c # t
    <3>1. c \in Slots \ {t} /\ tl[c].slice_ticks_used \in 0 .. SliceModulus - 1
      BY <2>2 DEF TCB
    <3>2. Left(tl[c].slice_ticks_used) \in 0 .. TimeSlice
      BY <3>1, LeftType
    <3>3. c \notin AheadIn(tl, q, t) => a < MaxTasks - 1
      BY <1>1, <3>1, AheadCount
    <3> QED BY <2>2, <3>2, <3>3 DEF ExtraIn
  <2> QED BY <2>1, <2>2
<1>5. DebtIn(tl, q, c, t) = TimeSlice * a + x
  BY DEF DebtIn
<1> HIDE DEF a, x
<1> DEFINE y == TimeSlice * a
           z == TimeSlice * (MaxTasks - 1)
<1>6. y \in Nat /\ y <= z /\ (a < MaxTasks - 1 => y + TimeSlice <= z) /\ z \in Int
  BY <1>3
<1>7. Longest = z + 1 /\ DebtIn(tl, q, c, t) = y + x
  BY <1>2, <1>5
<1> HIDE DEF y, z
<1> QED BY <1>1, <1>4, <1>6, <1>7

(***************************************************************************)
(* A step that dispatches nobody and puts nobody ahead of t adds nothing   *)
(* to its debt.                                                            *)
(***************************************************************************)
LEMMA DebtKept ==
    ASSUME Inv, Inv', NEW t \in Slots, IsReady(t),
           UNCHANGED current_task_index,
           \A i \in Created : SameTurn(task_list', i),
           \A i : IsBefore(ready_queue', i, t) => IsBefore(ready_queue, i, t)
    PROVE  Debt(t)' <= Debt(t)
<1> DEFINE A == AheadIn(task_list, ready_queue, t)
           B == AheadIn(task_list', ready_queue', t)
           c == current_task_index
           x == ExtraIn(task_list, ready_queue, c, t)
           z == ExtraIn(task_list', ready_queue', c, t)
<1>1. /\ ready_queue \in ExactQueue /\ ready_queue' \in ExactQueue
      /\ task_list \in [Slots -> TCB] /\ TimeSlice \in Nat \ {0}
  BY QueueIsExact, SchedulerAssumption DEF Inv, TypeOK, ReadyQueueExact, ExactQueue
<1>2. B \subseteq A
  BY QueuedAreReady DEF AheadIn, SameTurn, IsReady
<1>3. IsFiniteSet(A)
  BY <1>1, AheadCount
<1> DEFINE a == Cardinality(A)
           b == Cardinality(B)
<1> HIDE DEF A, B
<1>4. /\ a \in Nat /\ b \in Nat /\ b <= a
      /\ c \in A /\ c \notin B => b < a
  BY <1>2, <1>3, FewerAhead
<1>5. \/ z = 0
      \/ z = x
      \/ c \in A /\ c \notin B /\ z \in 0 .. TimeSlice
  <2>1. CASE c = NoTask \/ c = t
    BY <2>1 DEF ExtraIn
  <2>2. CASE c # NoTask /\ c # t
    <3>1. c \in Created /\ c \in Slots
      BY <2>2, CreatedAreSlots DEF Inv, RegistersBelong
    <3>2. SameTurn(task_list', c) /\ SameTurn(task_list', t)
      BY <3>1 DEF IsReady
    <3>3. Left(task_list[c].slice_ticks_used) \in 0 .. TimeSlice
      BY <1>1, <3>1, LeftType DEF TCB
    <3>4. x = IF task_list[c].priority # task_list[t].priority THEN 0
              ELSE IF c \in A THEN 1 ELSE Left(task_list[c].slice_ticks_used)
      BY <2>2 DEF ExtraIn, A
    <3>5. z = IF task_list[c].priority # task_list[t].priority THEN 0
              ELSE IF c \in B THEN 1 ELSE Left(task_list[c].slice_ticks_used)
      BY <2>2, <3>2 DEF ExtraIn, B, SameTurn
    <3> HIDE DEF x, z
    <3> QED BY <1>2, <3>3, <3>4, <3>5
  <2> QED BY <2>1, <2>2
<1>6. x \in 0 .. TimeSlice \cup {1}
  <2>1. c \in Slots \cup {NoTask}
    BY DEF Inv, TypeOK
  <2>2. c \in Slots => Left(task_list[c].slice_ticks_used) \in 0 .. TimeSlice
    BY <1>1, LeftType DEF TCB
  <2> QED BY <1>1, <2>1, <2>2 DEF ExtraIn
<1>7. Debt(t) = TimeSlice * a + x /\ Debt(t)' = TimeSlice * b + z
  BY DEF Debt, DebtIn, A, B
<1> HIDE DEF a, b, x, z
<1>8. /\ TimeSlice * a \in Nat /\ TimeSlice * b \in Nat
      /\ TimeSlice * b <= TimeSlice * a
      /\ b < a => TimeSlice * b + TimeSlice <= TimeSlice * a
  BY <1>4, Slices
<1> PICK u \in Nat, v \in Nat : u = TimeSlice * a /\ v = TimeSlice * b
  BY <1>8
<1>9. Debt(t) = u + x /\ Debt(t)' = v + z /\ v <= u /\ (b < a => v + TimeSlice <= u)
  BY <1>7, <1>8
<1> QED BY <1>1, <1>4, <1>5, <1>6, <1>9

(***************************************************************************)
(* What a dispatch leaves of the debt: c is the task that runs, and what   *)
(* it has paid is one tick, if it has the priority of t.                   *)
(***************************************************************************)
LEMMA DebtPaid ==
    ASSUME Inv, Inv', NEW t \in Slots, IsReady(t),
           NEW c \in Slots \ {t}, current_task_index' = c,
           \A i \in Created : task_list'[i].priority = Priority(i),
           \A i : IsBefore(ready_queue', i, t) => IsBefore(ready_queue, i, t) /\ i # c,
           c \in Created,
           \/ Priority(c) # Priority(t)
           \/ /\ c \in AheadIn(task_list, ready_queue, t)
              /\ task_list'[c].slice_ticks_used = 1 \/ current_task_index = c
           \/ /\ current_task_index = c
              /\ task_list[c].slice_ticks_used < TimeSlice
              /\ task_list'[c].slice_ticks_used = task_list[c].slice_ticks_used + 1
    PROVE  Debt(t)' + (IF Priority(c) = Priority(t) THEN 1 ELSE 0) <= Debt(t)
<1> DEFINE A == AheadIn(task_list, ready_queue, t)
           B == AheadIn(task_list', ready_queue', t)
           x == ExtraIn(task_list, ready_queue, current_task_index, t)
           z == ExtraIn(task_list', ready_queue', c, t)
<1>1. /\ ready_queue \in ExactQueue /\ ready_queue' \in ExactQueue
      /\ task_list \in [Slots -> TCB] /\ task_list' \in [Slots -> TCB]
      /\ TimeSlice \in Nat \ {0} /\ NoTask \notin Slots
  BY QueueIsExact, SchedulerAssumption DEF Inv, TypeOK, ReadyQueueExact, ExactQueue, Slots, NoTask
<1>2. B \subseteq A /\ c \notin B
  BY QueuedAreReady DEF AheadIn, Priority, IsReady
<1>3. IsFiniteSet(A)
  BY <1>1, AheadCount
<1> DEFINE a == Cardinality(A)
           b == Cardinality(B)
<1> HIDE DEF A, B
<1>4. /\ a \in Nat /\ b \in Nat /\ b <= a
      /\ c \in A => b < a
  BY <1>2, <1>3, FewerAhead
<1>5. z = IF Priority(c) # Priority(t) THEN 0 ELSE Left(task_list'[c].slice_ticks_used)
  <2>1. task_list'[c].priority = Priority(c) /\ task_list'[t].priority = Priority(t)
    BY DEF IsReady
  <2> QED BY <1>1, <1>2, <2>1 DEF ExtraIn, B
<1>6. Left(task_list'[c].slice_ticks_used) \in 0 .. TimeSlice
  BY <1>1, LeftType DEF TCB
<1>7. x \in 0 .. TimeSlice \cup {1}
  <2>1. current_task_index \in Slots \cup {NoTask}
    BY DEF Inv, TypeOK
  <2>2. current_task_index \in Slots =>
          Left(task_list[current_task_index].slice_ticks_used) \in 0 .. TimeSlice
    BY <1>1, LeftType DEF TCB
  <2> QED BY <1>1, <2>1, <2>2 DEF ExtraIn
<1>8. Debt(t) = TimeSlice * a + x /\ Debt(t)' = TimeSlice * b + z
  BY DEF Debt, DebtIn, A, B
<1>9. /\ TimeSlice * a \in Nat /\ TimeSlice * b \in Nat
      /\ TimeSlice * b <= TimeSlice * a
      /\ b < a => TimeSlice * b + TimeSlice <= TimeSlice * a
  BY <1>4, Slices
<1> PICK u \in Nat, v \in Nat : u = TimeSlice * a /\ v = TimeSlice * b
  BY <1>9
<1>10. /\ Debt(t) = u + x /\ Debt(t)' = v + z
       /\ v <= u /\ (b < a => v + TimeSlice <= u)
  BY <1>8, <1>9
<1>11. CASE Priority(c) # Priority(t)
  BY <1>5, <1>7, <1>10, <1>11
<1>12. CASE /\ Priority(c) = Priority(t) /\ c \in A
            /\ task_list'[c].slice_ticks_used = 1
  <2>1. z = TimeSlice - 1
    BY <1>1, <1>5, <1>12 DEF Left
  <2> HIDE DEF x, z
  <2> QED BY <1>1, <1>4, <1>7, <1>10, <1>12, <2>1
<1>13. CASE Priority(c) = Priority(t) /\ c \in A /\ current_task_index = c
  <2>1. x = 1
    BY <1>1, <1>13 DEF ExtraIn, A, Priority
  <2>2. z \in 0 .. TimeSlice
    BY <1>5, <1>6, <1>13
  <2> HIDE DEF x, z
  <2> QED BY <1>1, <1>4, <1>10, <1>13, <2>1, <2>2
<1>14. CASE /\ Priority(c) = Priority(t) /\ c \notin A /\ current_task_index = c
            /\ task_list[c].slice_ticks_used < TimeSlice
            /\ task_list'[c].slice_ticks_used = task_list[c].slice_ticks_used + 1
  <2> PICK s \in Nat : s = task_list[c].slice_ticks_used
    BY <1>1, SchedulerAssumption DEF TCB
  <2>1. x = Left(s)
    BY <1>1, <1>14 DEF ExtraIn, A, Priority
  <2>2. z = Left(s + 1)
    BY <1>5, <1>14
  <2>3. x = z + 1
    BY <1>1, <1>14, <2>1, <2>2 DEF Left
  <2> HIDE DEF x, z
  <2> QED BY <1>5, <1>6, <1>7, <1>10, <1>14, <2>3
<1> QED BY <1>11, <1>12, <1>13, <1>14 DEF A

-----------------------------------------------------------------------------
(* The dispatches.                                                         *)

(* A step pays for passing t over, and t does not begin to wait in it.     *)
DebtGoesOn(t) ==
    IsReady(t)' =>
        IF IsReady(t)
        THEN Debt(t)' + (IF PassesOver(t) THEN 1 ELSE 0) <= Debt(t)
        ELSE ~PassesOver(t)

(* Cases A to D: b runs, with the first tick of a new slice.               *)
LEMMA SwitchDebt ==
    ASSUME Inv, Inv', pc = "decide", NEW b, Best(b),
           do_context_switch(cur_idx, b, task_list, RemoveFirst(ready_queue, b)),
           NEW t \in Slots
    PROVE  DebtGoesOn(t)
<1> DEFINE saved == IF cur_idx = NoTask THEN task_list
                    ELSE [task_list EXCEPT ![cur_idx].context = active_context]
           timed == [saved EXCEPT ![b].slice_ticks_used = 1]
           popped == RemoveFirst(ready_queue, b)
<1>0. IsReady(t)' => IsReady(t)
  <2>1. task_count' = task_count
    BY DEF do_context_switch, Load
  <2> QED BY <2>1, SwitchWaits DEF IsReady, State, Created, SameWait
<1> SUFFICES ASSUME IsReady(t), IsReady(t)'
             PROVE  Debt(t)' + (IF PassesOver(t) THEN 1 ELSE 0) <= Debt(t)
  BY <1>0 DEF DebtGoesOn
<1>1. b \in Slots /\ IsReady(b) /\ b \in Created
  BY BestIsTop DEF IsReady
<1>2. /\ task_list' = WithState(timed, b, "RUNNING", "NONE")
      /\ current_task_index' = b
      /\ ready_queue' = Requeue(popped, b, "RUNNING")
      /\ pc' = "task"
  BY DEF do_context_switch, Load
<1>3. saved \in [Slots -> TCB] /\ \A j \in Slots : saved[j].priority = Priority(j)
  <2>1. CASE cur_idx = NoTask
    BY <2>1 DEF Inv, TypeOK, Priority
  <2>2. CASE cur_idx # NoTask
    <3>1. cur_idx \in Slots
      BY <2>2, NobodyRuns, CreatedAreSlots DEF Inv
    <3> DEFINE new == [task_list[cur_idx] EXCEPT !.context = active_context]
    <3>2. task_list[cur_idx] \in TCB /\ active_context \in CPUContext
      BY <3>1 DEF Inv, TypeOK
    <3>3. new \in TCB /\ new.priority = task_list[cur_idx].priority
      BY <3>2 DEF TCB
    <3>4. saved = [task_list EXCEPT ![cur_idx] = new]
      BY <2>2
    <3> HIDE DEF new, saved
    <3> QED BY <3>1, <3>3, <3>4 DEF Inv, TypeOK, Priority
  <2> QED BY <2>1, <2>2
<1> HIDE DEF saved
<1>4. /\ timed \in [Slots -> TCB] /\ timed[b].slice_ticks_used = 1
      /\ \A j \in Slots : timed[j].priority = Priority(j)
  <2> DEFINE new == [saved[b] EXCEPT !.slice_ticks_used = 1]
  <2>1. 1 \in 0 .. SliceModulus - 1 /\ saved[b] \in TCB
    BY <1>1, <1>3, SchedulerAssumption
  <2>2. new \in TCB /\ new.priority = saved[b].priority /\ new.slice_ticks_used = 1
    BY <2>1 DEF TCB
  <2>3. timed = [saved EXCEPT ![b] = new]
    OBVIOUS
  <2> HIDE DEF new, timed
  <2> QED BY <1>1, <1>3, <2>2, <2>3
<1> HIDE DEF timed
<1>5. "RUNNING" \in TaskState /\ "NONE" \in BlockReason
  BY DEF TaskState, BlockReason
<1>6. /\ task_list'[b].slice_ticks_used = 1
      /\ \A j \in Slots : task_list'[j].priority = Priority(j)
  BY <1>1, <1>2, <1>4, <1>5, WithStateTurns
<1>7. t # b
  <2>1. task_list'[b].state = "RUNNING"
    BY <1>1, <1>2, <1>4, <1>5, WithStateFields
  <2> QED BY <2>1 DEF IsReady, State
<1>8. popped \in ExactQueue /\ ready_queue \in ExactQueue
  BY <1>1, QueueIsExact, RemoveFirstExact DEF Inv
<1>9. \A i : IsBefore(ready_queue', i, t) => IsBefore(ready_queue, i, t) /\ i # b
  <2> SUFFICES ASSUME NEW i, IsBefore(ready_queue', i, t)
               PROVE  IsBefore(ready_queue, i, t) /\ i # b
    OBVIOUS
  <2>1. IsBefore(popped, i, t)
    <3> HIDE DEF popped
    <3> QED BY <1>1, <1>2, <1>7, <1>8, RequeueKeepsOrder
  <2> QED BY <1>1, <1>8, <2>1, RemoveKeepsOrder
<1>10. Priority(b) = Priority(t) => b \in AheadIn(task_list, ready_queue, t)
  BY <1>7, BestIsAhead
<1>11. \A i \in Created : task_list'[i].priority = Priority(i)
  BY <1>6, CreatedAreSlots DEF Inv
<1>12. Debt(t)' + (IF Priority(b) = Priority(t) THEN 1 ELSE 0) <= Debt(t)
  BY <1>1, <1>2, <1>6, <1>7, <1>9, <1>10, <1>11, DebtPaid
<1>13. PassesOver(t) <=> Priority(b) = Priority(t)
  BY <1>2, <1>7 DEF PassesOver
<1> QED BY <1>12, <1>13

(***************************************************************************)
(* Case E: the current task goes on, either from ahead of t, or inside its *)
(* slice: a task behind t of its priority is not the one peeked.           *)
(***************************************************************************)
LEMMA ContinueDebt ==
    ASSUME Inv, Inv', NEW b, Continue(b), NEW t \in Slots
    PROVE  DebtGoesOn(t)
<1>0. task_list \in [Slots -> TCB] /\ ready_queue \in ExactQueue /\ Created \subseteq Slots
  BY QueueIsExact, CreatedAreSlots DEF Inv, TypeOK
<1>1. /\ pc = "decide" /\ pc' = "task" /\ Best(b)
      /\ cur_idx # NoTask /\ Runnable
      /\ Priority(b) <= Priority(cur_idx) /\ ~SliceIsOver(b)
      /\ current_task_index' = current_task_index /\ task_count' = task_count
  BY DEF Continue, RunAgain
<1> PICK c \in Created : c = cur_idx
  BY <1>1, NobodyRuns
<1>2. c \in Slots /\ c = current_task_index /\ IsReady(c)
  BY <1>0, <1>1, NobodyRuns DEF Runnable, IsReady
<1> DEFINE new == [task_list[c] EXCEPT !.slice_ticks_used = (@ + 1) % SliceModulus]
           counted == [task_list EXCEPT ![c] = new]
<1>3. \A x \in 0 .. SliceModulus - 1 : (x + 1) % SliceModulus \in 0 .. SliceModulus - 1
  BY SchedulerAssumption
<1>4. /\ new \in TCB /\ new.priority = task_list[c].priority
      /\ new.slice_ticks_used = (task_list[c].slice_ticks_used + 1) % SliceModulus
  BY <1>0, <1>2, <1>3 DEF TCB
<1>5. /\ task_list' = WithState(counted, c, "RUNNING", "NONE")
      /\ ready_queue' = Requeue(ready_queue, c, "RUNNING")
  BY NothingIsStale DEF Continue, RunAgain
<1> HIDE DEF new
<1>6. /\ counted \in [Slots -> TCB] /\ counted[c] = new
      /\ \A j \in Slots : counted[j].priority = Priority(j)
      /\ \A j \in Slots \ {c} : counted[j].state = State(j)
  BY <1>0, <1>2, <1>4 DEF Priority, State
<1> HIDE DEF counted
<1>7. "RUNNING" \in TaskState /\ "NONE" \in BlockReason
  BY DEF TaskState, BlockReason
<1>8. /\ task_list'[c].slice_ticks_used = (task_list[c].slice_ticks_used + 1) % SliceModulus
      /\ \A j \in Slots : task_list'[j].priority = Priority(j)
  BY <1>2, <1>4, <1>5, <1>6, <1>7, WithStateTurns
<1>9. /\ task_list'[c].state = "RUNNING"
      /\ \A j \in Slots \ {c} : task_list'[j].state = State(j)
  <2>1. \A j \in Slots : task_list'[j].state = IF j = c THEN "RUNNING" ELSE counted[j].state
    BY <1>2, <1>5, <1>6, <1>7, WithStateFields
  <2> QED BY <1>2, <1>6, <2>1
<1>10. IsReady(t)' => IsReady(t)
  <2>1. Created' = Created
    BY <1>1 DEF Created
  <2>2. task_list'[t].state = "READY" => State(t) = "READY"
    BY <1>9
  <2> QED BY <2>1, <2>2 DEF IsReady, State
<1> SUFFICES ASSUME IsReady(t), IsReady(t)'
             PROVE  Debt(t)' + (IF PassesOver(t) THEN 1 ELSE 0) <= Debt(t)
  BY <1>10 DEF DebtGoesOn
<1>11. t # c
  BY <1>9 DEF IsReady, State
<1>12. \A i : IsBefore(ready_queue', i, t) => IsBefore(ready_queue, i, t) /\ i # c
  BY <1>0, <1>2, <1>5, <1>11, RequeueKeepsOrder
<1>13. ASSUME Priority(c) = Priority(t), c \notin AheadIn(task_list, ready_queue, t)
       PROVE  /\ task_list[c].slice_ticks_used < TimeSlice
              /\ task_list'[c].slice_ticks_used = task_list[c].slice_ticks_used + 1
  <2>1. b \in Slots /\ Priority(c) <= Priority(b)
    BY <1>1, <1>2, BestIsTop
  <2>2. Priority(b) = Priority(c)
    <3>1. Priority(b) \in Int /\ Priority(c) \in Int
      BY <1>0, <1>2, <2>1 DEF TCB, Priority
    <3> QED BY <1>1, <2>1, <3>1
  <2>3. b # c
    BY <1>1, <1>11, <1>13, BestIsAhead
  <2> PICK s \in 0 .. SliceModulus - 1 : s = task_list[c].slice_ticks_used
    BY <1>0, <1>2 DEF TCB
  <2>4. s < TimeSlice
    BY <1>1, <2>2, <2>3, SchedulerAssumption DEF SliceIsOver
  <2>5. (s + 1) % SliceModulus = s + 1
    BY <2>4, SchedulerAssumption
  <2> QED BY <1>8, <2>4, <2>5
<1>14. \A i \in Created : task_list'[i].priority = Priority(i)
  BY <1>0, <1>8
<1>15. Debt(t)' + (IF Priority(c) = Priority(t) THEN 1 ELSE 0) <= Debt(t)
  <2>1. current_task_index' = c /\ current_task_index = c /\ c \in Slots \ {t}
    BY <1>1, <1>2, <1>11
  <2> QED BY <1>12, <1>13, <1>14, <2>1, DebtPaid
<1>16. PassesOver(t) <=> Priority(c) = Priority(t)
  BY <1>1, <1>2, <1>11 DEF PassesOver
<1> QED BY <1>15, <1>16

-----------------------------------------------------------------------------
(* The other steps.                                                        *)

(***************************************************************************)
(* scheduler_set_task_state(i, s, _), unless it makes a READY task READY   *)
(* again, takes i out or puts it behind everyone.  tl is the table after   *)
(* the caller's own assignments.                                           *)
(***************************************************************************)
LEMMA SetKeepsDebt ==
    ASSUME Inv, Inv', NEW i \in Slots, NEW s \in TaskState, NEW r \in BlockReason,
           NEW tl \in [Slots -> TCB], \A j \in Created : SameTurn(tl, j),
           s = "READY" => ~IsReady(i),
           task_list' = WithState(tl, i, s, r),
           ready_queue' = Requeue(ready_queue, i, s),
           UNCHANGED current_task_index,
           NEW t \in Slots, IsReady(t), IsReady(t)'
    PROVE  Debt(t)' <= Debt(t)
<1>1. t # i
  <2>1. task_list'[i].state = s
    BY WithStateFields
  <2> QED BY <2>1 DEF IsReady, State
<1>2. \A j \in Created : SameTurn(task_list', j)
  BY WithStateTurns, CreatedAreSlots DEF SameTurn, Inv
<1>3. ready_queue \in ExactQueue
  BY QueueIsExact DEF Inv
<1>4. \A j : IsBefore(ready_queue', j, t) => IsBefore(ready_queue, j, t)
  BY <1>1, <1>3, RequeueKeepsOrder
<1> QED BY <1>2, <1>4, DebtKept

LEMMA SetCallKeepsDebt ==
    ASSUME Inv, Inv', NEW i \in Slots, NEW s \in TaskState, NEW r \in BlockReason,
           scheduler_set_task_state(i, s, r),
           s = "READY" => State(i) # "READY",
           UNCHANGED current_task_index,
           NEW t \in Slots, IsReady(t), IsReady(t)'
    PROVE  Debt(t)' <= Debt(t)
<1>1. task_list \in [Slots -> TCB] /\ \A j \in Created : SameTurn(task_list, j)
  BY DEF Inv, TypeOK, SameTurn
<1>2. CASE i \in Created
  <2>1. /\ task_list' = WithState(task_list, i, s, r)
        /\ ready_queue' = Requeue(ready_queue, i, s)
    BY <1>2 DEF scheduler_set_task_state
  <2>2. s = "READY" => ~IsReady(i)
    BY DEF IsReady
  <2> QED BY <1>1, <2>1, <2>2, SetKeepsDebt
<1>3. CASE i \notin Created
  <2>1. UNCHANGED <<task_list, ready_queue>>
    BY <1>3 DEF scheduler_set_task_state, tables
  <2> QED BY <1>1, <2>1, DebtKept
<1> QED BY <1>2, <1>3

LEMMA SameTablesKeepDebt ==
    ASSUME Inv, Inv', UNCHANGED <<task_list, ready_queue, current_task_index>>,
           NEW t \in Slots, IsReady(t)
    PROVE  Debt(t)' <= Debt(t)
<1>1. \A j \in Created : SameTurn(task_list', j)
  BY DEF SameTurn
<1> QED BY <1>1, DebtKept

LEMMA CycleKeepsDebt ==
    ASSUME Inv, Inv', Cycle, ~\E b \in Slots : Dispatch(b), NEW t \in Slots,
           IsReady(t), IsReady(t)'
    PROVE  Debt(t)' <= Debt(t)
<1>0. /\ Created \subseteq Slots /\ task_list \in [Slots -> TCB]
      /\ "READY" \in TaskState /\ "NONE" \in BlockReason
  BY CreatedAreSlots DEF Inv, TypeOK, TaskState, BlockReason
<1>1. CASE timer_tick \/ sleep_loop_done \/ soft_loop_done
  BY <1>1, SameTablesKeepDebt DEF timer_tick, sleep_loop_done, soft_loop_done, tables
<1>2. CASE timer_update_sleep
  <2> PICK c \in Created : c = cursor
    BY <1>2 DEF timer_update_sleep, Inv, TypeOK, Created
  <2>1. c \in Slots /\ UNCHANGED current_task_index
    BY <1>0, <1>2 DEF timer_update_sleep
  <2>2. CASE Sleeping(c) /\ scheduler_set_task_state(c, "READY", "NONE")
    BY <1>0, <2>1, <2>2, SetCallKeepsDebt DEF Sleeping
  <2>3. CASE task_list' = [task_list EXCEPT ![c].sleep_ticks = @ - 1] /\ UNCHANGED ready_queue
    <3> DEFINE new == [task_list[c] EXCEPT !.sleep_ticks = @ - 1]
    <3>1. /\ new.priority = task_list[c].priority
          /\ new.slice_ticks_used = task_list[c].slice_ticks_used
      BY <1>0, <2>1 DEF TCB
    <3>2. task_list' = [task_list EXCEPT ![c] = new]
      BY <2>3
    <3> HIDE DEF new
    <3>3. \A j \in Created : SameTurn(task_list', j)
      BY <1>0, <2>1, <3>1, <3>2 DEF SameTurn
    <3> QED BY <2>1, <2>3, <3>3, DebtKept
  <2>4. CASE UNCHANGED tables
    BY <2>1, <2>4, SameTablesKeepDebt DEF tables
  <2> QED BY <1>2, <2>2, <2>3, <2>4 DEF timer_update_sleep
<1>3. CASE Idle
  <2>1. ready_queue = <<>>
    BY <1>3, NothingIsStale DEF Idle
  <2>2. ~Contains(ready_queue, t)
    BY <2>1 DEF Contains
  <2> QED BY <2>2 DEF Inv, ReadyQueueExact
<1>4. CASE TaskReturn
  <2> PICK c \in Created : c = current_task_index
    BY <1>4 DEF TaskReturn, Inv, RegistersBelong
  <2>1. c \in Slots /\ UNCHANGED current_task_index
    BY <1>0, <1>4 DEF TaskReturn
  <2>2. CASE State(c) = "RUNNING"
    <3>1. scheduler_set_task_state(c, "READY", "NONE")
      BY <1>4, <2>2 DEF TaskReturn
    <3> QED BY <1>0, <2>1, <2>2, <3>1, SetCallKeepsDebt
  <2>3. CASE State(c) # "RUNNING"
    BY <1>4, <2>1, <2>3, SameTablesKeepDebt DEF TaskReturn, tables
  <2> QED BY <2>2, <2>3
<1> QED BY <1>1, <1>2, <1>3, <1>4 DEF Cycle

LEMMA CallsKeepDebt ==
    ASSUME ~StaleWakes, Inv, Inv', Call, NEW t \in Slots, IsReady(t), IsReady(t)'
    PROVE  Debt(t)' <= Debt(t)
<1>0. /\ Created \subseteq Slots /\ task_list \in [Slots -> TCB]
      /\ {"READY", "BLOCKED", "SUSPENDED"} \subseteq TaskState
      /\ WaitReasons \subseteq BlockReason /\ "NONE" \in BlockReason /\ "SLEEP" \in BlockReason
  BY CreatedAreSlots, SchedulerAssumption DEF Inv, TypeOK, TaskState, BlockReason
<1>1. ASSUME NEW p \in Priorities, rtos_create_task(p) PROVE Debt(t)' <= Debt(t)
  <2> DEFINE i == task_count
             new == [ZeroTCB EXCEPT !.priority = p, !.state = "SUSPENDED",
                                    !.context = context_init(i)]
             tl == [task_list EXCEPT ![i] = new]
  <2>1. /\ i \in Slots /\ i \notin Created /\ UNCHANGED current_task_index
        /\ task_list' = WithState(tl, i, "READY", "NONE")
        /\ ready_queue' = Requeue(ready_queue, i, "READY")
    BY <1>1, MaxTasksAssumption DEF rtos_create_task, NewTask, Inv, TypeOK, Slots, Created
  <2>2. new \in TCB
    <3>1. p \in Int /\ context_init(i) \in CPUContext /\ "SUSPENDED" \in TaskState
      BY <2>1, SchedulerAssumption DEF context_init, CPUContext, TaskState
    <3> QED BY <3>1, FreshTypes DEF TCB
  <2> HIDE DEF new
  <2>3. tl \in [Slots -> TCB] /\ \A j \in Created : SameTurn(tl, j)
    BY <1>0, <2>1, <2>2 DEF SameTurn
  <2> HIDE DEF tl
  <2>4. ~IsReady(i)
    BY <2>1 DEF IsReady
  <2> QED BY <1>0, <2>1, <2>3, <2>4, SetKeepsDebt
<1>2. ASSUME NEW n \in SleepArgs, rtos_task_sleep(n) PROVE Debt(t)' <= Debt(t)
  <2> PICK c \in Created : c = current_task_index
    BY <1>2 DEF rtos_task_sleep
  <2> DEFINE new == [task_list[c] EXCEPT !.sleep_ticks = n]
             tl == [task_list EXCEPT ![c] = new]
  <2>1. /\ c \in Slots /\ UNCHANGED current_task_index
        /\ task_list' = WithState(tl, c, "BLOCKED", "SLEEP")
        /\ ready_queue' = Requeue(ready_queue, c, "BLOCKED")
    BY <1>0, <1>2 DEF rtos_task_sleep, rest
  <2>2. /\ new \in TCB /\ new.priority = task_list[c].priority
        /\ new.slice_ticks_used = task_list[c].slice_ticks_used
    BY <1>0, <2>1, SchedulerAssumption DEF TCB
  <2> HIDE DEF new
  <2>3. tl \in [Slots -> TCB] /\ \A j \in Created : SameTurn(tl, j)
    BY <1>0, <2>1, <2>2 DEF SameTurn
  <2> HIDE DEF tl
  <2>4. "BLOCKED" \in TaskState /\ "BLOCKED" # "READY"
    BY <1>0
  <2> QED BY <1>0, <2>1, <2>3, <2>4, SetKeepsDebt
<1>3. ASSUME NEW i \in Slots, rtos_suspend_task(i) PROVE Debt(t)' <= Debt(t)
  BY <1>0, <1>3, SetCallKeepsDebt DEF rtos_suspend_task, rest
<1>4. ASSUME NEW i \in Slots, rtos_resume_task(i) PROVE Debt(t)' <= Debt(t)
  BY <1>0, <1>4, SetCallKeepsDebt DEF rtos_resume_task, rest
<1>5. ASSUME NEW i \in Slots, WakeByIndex(i) PROVE Debt(t)' <= Debt(t)
  <2>1. State(i) = "BLOCKED"
    BY <1>5 DEF WakeByIndex, Waiters, State
  <2> QED BY <1>0, <1>5, <2>1, SetCallKeepsDebt DEF WakeByIndex, rest
<1>6. ASSUME NEW r \in WaitReasons, Block(r) PROVE Debt(t)' <= Debt(t)
  <2>1. current_task_index \in Slots
    BY <1>0, <1>6 DEF Block
  <2> QED BY <1>0, <1>6, <2>1, SetCallKeepsDebt DEF Block, rest
<1>7. ASSUME NEW r \in WaitReasons, Unblock(r) PROVE Debt(t)' <= Debt(t)
  <2>1. UNCHANGED current_task_index
    BY <1>7 DEF Unblock, rest
  <2>2. CASE UNCHANGED tables
    BY <2>1, <2>2, SameTablesKeepDebt DEF tables
  <2>3. ASSUME NEW b \in Slots, IsBestWaiter(task_list, task_count, r, b),
               scheduler_set_task_state(b, "READY", "NONE")
        PROVE  Debt(t)' <= Debt(t)
    <3>1. State(b) = "BLOCKED"
      BY <2>3 DEF IsBestWaiter, Waiters, State
    <3> QED BY <1>0, <2>1, <2>3, <3>1, SetCallKeepsDebt
  <2> QED BY <1>7, <2>2, <2>3 DEF Unblock, scheduler_unblock_one
<1>8. ASSUME NEW w \in Words, Compute(w) PROVE Debt(t)' <= Debt(t)
  BY <1>8, SameTablesKeepDebt DEF Compute, tables
<1>9. CASE rtos_init
  BY <1>9 DEF rtos_init, IsReady, Created
<1> QED BY <1>1, <1>2, <1>3, <1>4, <1>5, <1>6, <1>7, <1>8, <1>9 DEF Call, ClientCall

LEMMA StepKeepsDebt ==
    ASSUME ~StaleWakes, Inv, Inv', [Next]_vars, NEW t \in Slots
    PROVE  DebtGoesOn(t)
<1>1. ASSUME NEW b \in Slots, Dispatch(b) PROVE DebtGoesOn(t)
  <2>1. CASE FirstTick(b) \/ Forced(b) \/ Preempted(b) \/ SliceExpired(b)
    <3>1. pc = "decide" /\ Best(b)
      BY <2>1 DEF FirstTick, Forced, Preempted, SliceExpired
    <3>2. do_context_switch(cur_idx, b, task_list, RemoveFirst(ready_queue, b))
      BY <2>1, <3>1, NobodyRuns, NothingIsStale
      DEF FirstTick, Forced, Preempted, SliceExpired
    <3> QED BY <3>1, <3>2, SwitchDebt
  <2>2. CASE Continue(b)
    BY <2>2, ContinueDebt
  <2> QED BY <1>1, <2>1, <2>2 DEF Dispatch
<1>2. ASSUME ~\E b \in Slots : Dispatch(b) PROVE DebtGoesOn(t)
  <2>1. ~PassesOver(t)
    <3>1. Idle => pc' = "app"
      BY DEF Idle
    <3>2. UNCHANGED vars => pc' = pc
      BY DEF vars
    <3> QED BY <1>2, <3>1, <3>2, DecideSteps DEF PassesOver
  <2> SUFFICES ASSUME IsReady(t), IsReady(t)' PROVE Debt(t)' <= Debt(t)
    <3>1. Debt(t)' \in Int
      <4>1. Debt(t)' \in 0 .. Longest
        BY QueueIsExact, DebtWithinBound DEF Debt, Inv, TypeOK, ReadyQueueExact, ExactQueue
      <4> QED BY <4>1, LongestIsNat
    <3> QED BY <2>1, <3>1 DEF DebtGoesOn
  <2>2. CASE Cycle
    BY <1>2, <2>2, CycleKeepsDebt
  <2>3. CASE Call
    BY <2>3, CallsKeepDebt
  <2>4. CASE UNCHANGED vars
    BY <2>4, SameTablesKeepDebt DEF vars
  <2> QED BY <2>2, <2>3, <2>4 DEF Next
<1> QED BY <1>1, <1>2

-----------------------------------------------------------------------------
(* The theorem.                                                            *)

LEMMA WaitPreserved ==
    ASSUME ~StaleWakes, Inv, Inv', WaitBounded, [RRNext]_rrVars
    PROVE  WaitBounded'
<1>1. CASE UNCHANGED rrVars
  BY <1>1 DEF rrVars, vars, WaitBounded, IsReady, State, Created, Debt
<1>2. CASE RRNext
  <2> SUFFICES ASSUME NEW t \in Slots
               PROVE  /\ passed'[t] \in Nat
                      /\ IsReady(t)' => passed'[t] + Debt(t)' <= Longest
                      /\ ~IsReady(t)' => passed'[t] = 0
    BY DEF WaitBounded
  <2>1. /\ passed'[t] = IF ~IsReady(t)' THEN 0
                        ELSE IF PassesOver(t) /\ passed[t] <= Longest THEN passed[t] + 1
                        ELSE passed[t]
        /\ [Next]_vars
    BY <1>2 DEF RRNext
  <2>2. /\ passed[t] \in Nat
        /\ IsReady(t) => passed[t] + Debt(t) <= Longest
        /\ ~IsReady(t) => passed[t] = 0
    BY DEF WaitBounded
  <2>3. Debt(t) \in 0 .. Longest /\ Debt(t)' \in 0 .. Longest /\ Longest \in Nat
    BY DebtWithinBound, LongestIsNat DEF Debt, Inv, TypeOK, ReadyQueueExact, ExactQueue
  <2>4. CASE ~IsReady(t)'
    BY <2>1, <2>4
  <2>5. CASE IsReady(t)' /\ IsReady(t)
    <3>1. Debt(t)' + (IF PassesOver(t) THEN 1 ELSE 0) <= Debt(t)
      BY <2>1, <2>5, StepKeepsDebt DEF DebtGoesOn
    <3> QED BY <2>1, <2>2, <2>3, <2>5, <3>1
  <2>6. CASE IsReady(t)' /\ ~IsReady(t)
    <3>1. ~PassesOver(t)
      BY <2>1, <2>6, StepKeepsDebt DEF DebtGoesOn
    <3> QED BY <2>1, <2>2, <2>3, <2>6, <3>1
  <2> QED BY <2>4, <2>5, <2>6
<1> QED BY <1>1, <1>2

LEMMA WaitInvariance ==
    ASSUME ~StaleWakes
    PROVE  RRSpec => [](Inv /\ WaitBounded)
<1>1. RRInit => Inv /\ WaitBounded
  <2> SUFFICES ASSUME RRInit PROVE Inv /\ WaitBounded
    OBVIOUS
  <2>1. Inv
    BY InitEstablishes DEF RRInit
  <2>2. \A t \in Slots : ~IsReady(t) /\ passed[t] = 0
    BY DEF RRInit, Init, IsReady, Created
  <2> QED BY <2>1, <2>2 DEF WaitBounded
<1>2. Inv /\ WaitBounded /\ [RRNext]_rrVars => (Inv /\ WaitBounded)'
  <2> SUFFICES ASSUME Inv, WaitBounded, [RRNext]_rrVars PROVE Inv' /\ WaitBounded'
    OBVIOUS
  <2>1. [Next]_vars
    BY DEF RRNext, rrVars
  <2>2. Inv'
    BY <2>1, NextPreserves
  <2> QED BY <2>2, WaitPreserved
<1> QED BY <1>1, <1>2, PTL DEF RRSpec

(***************************************************************************)
(* The rotation of scheduler.c: a READY task is passed over by tasks of    *)
(* its priority for one slice of each of the others at most, and one tick, *)
(* for any number of tasks and whatever blocks, wakes, sleeps, is created, *)
(* suspended or preempted meanwhile.  It takes that nobody READY is made   *)
(* READY again (scheduler.c:444), as event_flags_set() may do.             *)
(***************************************************************************)
THEOREM WaitIsBounded == ~StaleWakes => (RRSpec => []BoundedWait)
<1> SUFFICES ASSUME ~StaleWakes PROVE RRSpec => []BoundedWait
  OBVIOUS
<1>1. Inv /\ WaitBounded => BoundedWait
  <2> SUFFICES ASSUME Inv, WaitBounded, NEW t \in Slots PROVE passed[t] <= Longest
    BY DEF BoundedWait
  <2>1. Debt(t) \in 0 .. Longest /\ Longest \in Nat
    BY DebtWithinBound, LongestIsNat DEF Debt, Inv, TypeOK, ReadyQueueExact, ExactQueue
  <2> QED BY <2>1 DEF WaitBounded
<1> QED BY <1>1, WaitInvariance, PTL
=============================================================================
