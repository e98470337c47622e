-------------------------- MODULE PrimitivesProofs --------------------------
(***************************************************************************)
(* Every system of semaphores, mutexes and queues is a system of the       *)
(* scheduler: each call is a Block, an Unblock or no step at all of        *)
(* Scheduler.  The theorems of SchedulerProofs hold for it.                *)
(***************************************************************************)
EXTENDS Primitives, SchedulerProofs

(* A call that blocks.                                                     *)
LEMMA BlockOnIsBlock ==
    ASSUME NEW r, r[1] \in WaitReasons, HasTask, BlockOn(r)
    PROVE  Next
<1>1. Block(r[1])
  BY DEF HasTask, BlockOn, Block, Caller
<1> QED BY <1>1 DEF Next, Call, ClientCall

(* A call that is served.                                                  *)
LEMMA ServeIsUnblock ==
    ASSUME NEW r, NEW reason \in WaitReasons, CallSite, Serve(r, reason)
    PROVE  Next
<1>1. reason # "NONE"
  BY SchedulerAssumption
<1>2. Unblock(reason)
  BY <1>1 DEF Serve, Unblock
<1> QED BY <1>2 DEF Next, Call, ClientCall

LEMMA ServeIsStutter ==
    ASSUME NEW r, Serve(r, "NONE")
    PROVE  UNCHANGED vars
BY DEF Serve, rest, tables, control, vars

LEMMA KernelStepIsNext ==
    ASSUME KernelStep
    PROVE  Next
BY PrimitivesAssumption DEF KernelStep, Next, Call, ClientCall

LEMMA PrimitiveStep ==
    ASSUME [PNext]_pVars
    PROVE  [Next]_vars
<1> USE PrimitivesAssumption
<1>1. CASE KernelStep
  BY <1>1, KernelStepIsNext
<1>2. ASSUME NEW s \in Sems, rtos_sem_wait(s)
      PROVE  [Next]_vars
  <2> DEFINE r == <<"SEMAPHORE", s>>
  <2>1. HasTask /\ (Serve(r, "NONE") \/ BlockOn(r)) /\ r[1] \in WaitReasons
    BY <1>2 DEF rtos_sem_wait
  <2> QED BY <2>1, ServeIsStutter, BlockOnIsBlock
<1>3. ASSUME NEW s \in Sems, rtos_sem_signal(s)
      PROVE  [Next]_vars
  BY <1>3, ServeIsUnblock DEF rtos_sem_signal
<1>4. ASSUME NEW m \in Mutexes, rtos_mutex_lock(m)
      PROVE  [Next]_vars
  <2> DEFINE r == <<"MUTEX", m>>
  <2>1. HasTask /\ (Serve(r, "NONE") \/ BlockOn(r)) /\ r[1] \in WaitReasons
    BY <1>4 DEF rtos_mutex_lock
  <2> QED BY <2>1, ServeIsStutter, BlockOnIsBlock
<1>5. ASSUME NEW m \in Mutexes, rtos_mutex_unlock(m)
      PROVE  [Next]_vars
  BY <1>5, ServeIsUnblock DEF rtos_mutex_unlock, HasTask
<1>6. ASSUME NEW q \in Queues, rtos_queue_receive(q)
      PROVE  [Next]_vars
  <2> DEFINE r == <<"QUEUE_EMPTY", q>>
  <2>1. HasTask /\ (Serve(r, "QUEUE_FULL") \/ BlockOn(r)) /\ r[1] \in WaitReasons
    BY <1>6 DEF rtos_queue_receive
  <2> QED BY <2>1, ServeIsUnblock, BlockOnIsBlock DEF HasTask
<1>7. ASSUME NEW q \in Queues, NEW v \in Messages, rtos_queue_send(q, v)
      PROVE  [Next]_vars
  <2> DEFINE r == <<"QUEUE_FULL", q>>
  <2>1. HasTask /\ (Serve(r, "QUEUE_EMPTY") \/ BlockOn(r)) /\ r[1] \in WaitReasons
    BY <1>7 DEF rtos_queue_send
  <2> QED BY <2>1, ServeIsUnblock, BlockOnIsBlock DEF HasTask
<1>8. CASE UNCHANGED pVars
  BY <1>8 DEF pVars, vars
<1> QED BY <1>1, <1>2, <1>3, <1>4, <1>5, <1>6, <1>7, <1>8 DEF PNext

(* rtos.c: no primitive touches a task or the ready queue except through   *)
(* scheduler_set_task_state() and scheduler_unblock_one(), as Scheduler    *)
(* allows them, whatever the objects, tasks and messages.                  *)
THEOREM PrimitivesImplementScheduler == PSpec => ImplementsScheduler
<1>1. PInit => Init
  BY DEF PInit
<1> QED BY <1>1, PrimitiveStep, PTL DEF PSpec, Spec, ImplementsScheduler

(* README, "the highest-priority READY task always runs", in every system  *)
(* of tasks that wait for, signal, lock, unlock, send and receive.         *)
THEOREM PriorityWithPrimitives == PSpec => HighestPriorityRuns
BY PrimitivesImplementScheduler, PriorityScheduling DEF ImplementsScheduler

(* scheduler.c: no waiter is left in the ready queue, and no woken one is  *)
(* missing from it.                                                        *)
THEOREM QueueWithPrimitives == PSpec => []ReadyQueueExact
BY PrimitivesImplementScheduler, QueueExact DEF ImplementsScheduler

-----------------------------------------------------------------------------
(* Types.                                                                  *)

K == RTOS_QUEUE_SIZE

(* Front, rear and count of a ring agree.                                  *)
RingsClosed ==
    \A q \in Queues : queue[q].rear = (queue[q].front + queue[q].count) % K

PInv == PTypeOK /\ RingsClosed

(* An index that runs round the ring once at most.                         *)
LEMMA RingIndex ==
    ASSUME NEW f \in Indices, NEW k \in 0 .. K
    PROVE  /\ (f + k) % K = IF f + k < K THEN f + k ELSE f + k - K
           /\ (f + k) % K \in Indices
BY PrimitivesAssumption DEF Indices, K

LEMMA StillWantsType ==
    ASSUME PTypeOK
    PROVE  StillWants \in [Slots -> Resources \cup {NoResource}]
BY DEF PTypeOK, StillWants

LEMMA ServeTypes ==
    ASSUME TypeOK, PTypeOK, NEW r, NEW reason, Serve(r, reason)
    PROVE  /\ wants' \in [Slots -> Resources \cup {NoResource}]
           /\ retry' \in [Resources -> SUBSET Slots]
<1>1. Woken(reason) \subseteq Slots
  BY CreatedAreSlots DEF Woken, Waiters, Created
<1> QED BY <1>1, StillWantsType DEF Serve, PTypeOK

LEMMA BlockOnTypes ==
    ASSUME TypeOK, PTypeOK, NEW r \in Resources, BlockOn(r)
    PROVE  /\ wants' \in [Slots -> Resources \cup {NoResource}]
           /\ retry' \in [Resources -> SUBSET Slots]
<1>1. StillWants \in [Slots -> Resources \cup {NoResource}]
  BY StillWantsType
<1> HIDE DEF StillWants
<1> QED BY <1>1 DEF BlockOn, PTypeOK

LEMMA BlockOnKeeps ==
    ASSUME TypeOK, PInv, NEW r \in Resources, BlockOn(r)
    PROVE  PInv'
<1>1. UNCHANGED <<sem, mutex, queue, received>>
  BY DEF BlockOn, objects
<1> QED BY <1>1, BlockOnTypes DEF PInv, PTypeOK, RingsClosed

LEMMA SemTypes ==
    ASSUME TypeOK, PInv, NEW s \in Sems, rtos_sem_wait(s) \/ rtos_sem_signal(s)
    PROVE  PInv'
<1>1. sem \in [Sems -> 0 .. MaxCount] /\ MaxCount \in Nat
  BY PrimitivesAssumption DEF PInv, PTypeOK
<1>2. <<"SEMAPHORE", s>> \in Resources
  BY DEF Resources
<1>3. CASE BlockOn(<<"SEMAPHORE", s>>)
  BY <1>2, <1>3, BlockOnKeeps
<1>4. CASE /\ sem[s] > 0
           /\ sem' = [sem EXCEPT ![s] = @ - 1]
           /\ Serve(<<"SEMAPHORE", s>>, "NONE")
           /\ UNCHANGED <<mutex, queue, received>>
  <2>1. sem' \in [Sems -> 0 .. MaxCount]
    BY <1>1, <1>4
  <2> QED BY <1>4, <2>1, ServeTypes DEF PInv, PTypeOK, RingsClosed
<1>5. CASE rtos_sem_signal(s)
  <2>1. sem' \in [Sems -> 0 .. MaxCount]
    BY <1>1, <1>5 DEF rtos_sem_signal
  <2> QED BY <1>5, <2>1, ServeTypes DEF rtos_sem_signal, PInv, PTypeOK, RingsClosed
<1> QED BY <1>3, <1>4, <1>5 DEF rtos_sem_wait

LEMMA MutexTypes ==
    ASSUME TypeOK, PInv, NEW m \in Mutexes, rtos_mutex_lock(m) \/ rtos_mutex_unlock(m)
    PROVE  PInv'
<1>1. <<"MUTEX", m>> \in Resources
  BY DEF Resources
<1>2. CASE BlockOn(<<"MUTEX", m>>)
  BY <1>1, <1>2, BlockOnKeeps
<1>3. task_id \in 1 .. MaxTasks
  BY CreatedAreSlots, MaxTasksAssumption
  DEF rtos_mutex_lock, rtos_mutex_unlock, HasTask, task_id, Slots
<1>4. ASSUME NEW new \in [locked : BOOLEAN, owner : {NoOwner} \cup 1 .. MaxTasks],
             mutex' = [mutex EXCEPT ![m] = new],
             NEW r, NEW reason, Serve(r, reason),
             UNCHANGED <<sem, queue, received>>
      PROVE  PInv'
  BY <1>4, ServeTypes DEF PInv, PTypeOK, RingsClosed
<1>5. CASE UNCHANGED objects /\ Serve(<<"MUTEX", m>>, "NONE")
  BY <1>5, ServeTypes DEF objects, PInv, PTypeOK, RingsClosed
<1>6. CASE rtos_mutex_lock(m)
  <2> DEFINE new == [locked |-> TRUE, owner |-> task_id]
  <2>1. CASE /\ mutex' = [mutex EXCEPT ![m] = new]
             /\ Serve(<<"MUTEX", m>>, "NONE")
             /\ UNCHANGED <<sem, queue, received>>
    <3>1. new \in [locked : BOOLEAN, owner : {NoOwner} \cup 1 .. MaxTasks]
      BY <1>3
    <3> HIDE DEF new
    <3> QED BY <1>4, <2>1, <3>1
  <2> QED BY <1>2, <1>5, <1>6, <2>1 DEF rtos_mutex_lock
<1>7. CASE rtos_mutex_unlock(m)
  <2> DEFINE new == [locked |-> FALSE, owner |-> NoOwner]
  <2>1. new \in [locked : BOOLEAN, owner : {NoOwner} \cup 1 .. MaxTasks]
    OBVIOUS
  <2>2. mutex' = [mutex EXCEPT ![m] = new]
    BY <1>7 DEF rtos_mutex_unlock
  <2> HIDE DEF new
  <2> QED BY <1>4, <1>7, <2>1, <2>2 DEF rtos_mutex_unlock
<1> QED BY <1>6, <1>7

(* What a send and a receive that are served do to the ring.               *)
Ring == [buffer : [Indices -> Messages \cup {0}], front : Indices, rear : Indices,
         count : 0 .. K]

LEMMA PutRing ==
    ASSUME PInv, NEW q \in Queues, NEW v \in Messages, ~Full(q), Put(q, v)
    PROVE  /\ queue' \in [Queues -> Ring]
           /\ \A x \in Queues \ {q} : queue'[x] = queue[x]
           /\ queue'[q].buffer = [queue[q].buffer EXCEPT ![queue[q].rear] = v]
           /\ queue'[q].front = queue[q].front
           /\ queue'[q].rear = advance(queue[q].rear)
           /\ queue'[q].count = queue[q].count + 1
<1> PICK old \in Ring : old = queue[q]
  BY DEF PInv, PTypeOK, Ring, K
<1> DEFINE buffer == [old.buffer EXCEPT ![old.rear] = v]
           new == [old EXCEPT !.buffer = buffer,
                              !.rear = advance(old.rear),
                              !.count = old.count + 1]
<1>1. queue \in [Queues -> Ring]
  BY DEF PInv, PTypeOK, Ring, K
<1>2. queue' = [queue EXCEPT ![q] = new]
  BY <1>1 DEF Put
<1>3. buffer \in [Indices -> Messages \cup {0}]
  BY DEF Ring
<1>4. advance(old.rear) \in Indices
  BY PrimitivesAssumption DEF Ring, advance, Indices
<1>5. old.count + 1 \in 0 .. K
  BY PrimitivesAssumption DEF Ring, Full, K
<1> HIDE DEF buffer
<1>6. /\ new \in Ring /\ new.buffer = buffer /\ new.front = old.front
      /\ new.rear = advance(old.rear) /\ new.count = old.count + 1
  BY <1>3, <1>4, <1>5 DEF Ring
<1> HIDE DEF new
<1> QED BY <1>1, <1>2, <1>6 DEF buffer

LEMMA GetRing ==
    ASSUME PInv, NEW q \in Queues, ~Empty(q),
           queue' = [queue EXCEPT ![q].front = advance(@), ![q].count = @ - 1]
    PROVE  /\ queue' \in [Queues -> Ring]
           /\ \A x \in Queues \ {q} : queue'[x] = queue[x]
           /\ queue'[q].buffer = queue[q].buffer
           /\ queue'[q].front = advance(queue[q].front)
           /\ queue'[q].rear = queue[q].rear
           /\ queue'[q].count = queue[q].count - 1
<1> PICK old \in Ring : old = queue[q]
  BY DEF PInv, PTypeOK, Ring, K
<1> DEFINE new == [old EXCEPT !.front = advance(old.front), !.count = old.count - 1]
<1>1. queue \in [Queues -> Ring]
  BY DEF PInv, PTypeOK, Ring, K
<1>2. queue' = [queue EXCEPT ![q] = new]
  BY <1>1
<1>3. advance(old.front) \in Indices
  BY PrimitivesAssumption DEF Ring, advance, Indices
<1>4. old.count - 1 \in 0 .. K
  BY PrimitivesAssumption DEF Ring, Empty, K
<1>5. /\ new \in Ring /\ new.buffer = old.buffer /\ new.front = advance(old.front)
      /\ new.rear = old.rear /\ new.count = old.count - 1
  BY <1>3, <1>4 DEF Ring
<1> HIDE DEF new
<1> QED BY <1>1, <1>2, <1>5

LEMMA RingNext ==
    ASSUME NEW f \in Indices, NEW k \in 0 .. K - 1
    PROVE  /\ advance((f + k) % K) = (f + (k + 1)) % K
           /\ (advance(f) + k) % K = (f + (k + 1)) % K
           /\ advance(f) \in Indices
<1>0. K \in Nat \ {0} /\ f \in Int /\ k \in 0 .. K /\ k + 1 \in 0 .. K /\ 1 \in 0 .. K
  BY PrimitivesAssumption DEF K, Indices
<1> DEFINE g == (f + k) % K
           h == (f + 1) % K
           j == (f + (k + 1)) % K
<1>1. g = (IF f + k < K THEN f + k ELSE f + k - K) /\ g \in Indices
  BY <1>0, RingIndex
<1>2. h = (IF f + 1 < K THEN f + 1 ELSE f + 1 - K) /\ h \in Indices
  BY <1>0, RingIndex
<1>3. j = (IF f + (k + 1) < K THEN f + (k + 1) ELSE f + (k + 1) - K) /\ j \in Indices
  BY <1>0, RingIndex
<1> HIDE DEF g, h, j
<1>4. (g + 1) % K = IF g + 1 < K THEN g + 1 ELSE g + 1 - K
  BY <1>0, <1>1, RingIndex
<1>5. (h + k) % K = IF h + k < K THEN h + k ELSE h + k - K
  BY <1>0, <1>2, RingIndex
<1>6. f \in 0 .. K - 1 /\ g \in 0 .. K - 1 /\ h \in 0 .. K - 1
  BY <1>1, <1>2 DEF Indices, K
<1>7. (g + 1) % K = j
  BY <1>0, <1>1, <1>3, <1>4, <1>6
<1>8. (h + k) % K = j
  BY <1>0, <1>2, <1>3, <1>5, <1>6
<1> QED BY <1>2, <1>7, <1>8 DEF g, h, j, advance, K

LEMMA QueueTypes ==
    ASSUME TypeOK, PInv, NEW q \in Queues,
           rtos_queue_receive(q) \/ \E v \in Messages : rtos_queue_send(q, v)
    PROVE  PInv'
<1>0. /\ {<<"QUEUE_EMPTY", q>>, <<"QUEUE_FULL", q>>} \subseteq Resources
      /\ queue[q] \in Ring /\ K \in Nat \ {0}
  BY PrimitivesAssumption DEF Resources, PInv, PTypeOK, Ring, K
<1>1. ASSUME NEW r \in Resources, BlockOn(r) PROVE PInv'
  BY <1>1, BlockOnKeeps
<1>2. ASSUME NEW v \in Messages, ~Full(q), Put(q, v), NEW r, NEW reason, Serve(r, reason),
             UNCHANGED <<sem, mutex, received>>
      PROVE  PInv'
  <2>1. queue' \in [Queues -> Ring]
    BY <1>2, PutRing
  <2>2. RingsClosed'
    <3> SUFFICES ASSUME NEW x \in Queues
                 PROVE  queue'[x].rear = (queue'[x].front + queue'[x].count) % K
      BY DEF RingsClosed
    <3>1. CASE x # q
      <4>1. queue'[x] = queue[x]
        BY <1>2, <3>1, PutRing
      <4> QED BY <4>1 DEF PInv, RingsClosed
    <3>2. CASE x = q
      <4> PICK f \in Indices, k \in 0 .. K - 1 : f = queue[q].front /\ k = queue[q].count
        BY <1>0, <1>2 DEF Ring, Full, K
      <4>1. queue[q].rear = (f + k) % K
        BY DEF PInv, RingsClosed
      <4>2. /\ queue'[q].front = f /\ queue'[q].count = k + 1
            /\ queue'[q].rear = advance((f + k) % K)
        BY <1>2, <4>1, PutRing
      <4>3. advance((f + k) % K) = (f + (k + 1)) % K
        BY RingNext
      <4> QED BY <3>2, <4>2, <4>3
    <3> QED BY <3>1, <3>2
  <2> QED BY <1>2, <2>1, <2>2, ServeTypes DEF PInv, PTypeOK, Ring, K
<1>3. CASE /\ rtos_queue_receive(q)
           /\ ~Empty(q)
           /\ received' = [received EXCEPT ![q] = queue[q].buffer[queue[q].front]]
           /\ queue' = [queue EXCEPT ![q].front = advance(@), ![q].count = @ - 1]
           /\ Serve(<<"QUEUE_EMPTY", q>>, "QUEUE_FULL")
           /\ UNCHANGED <<sem, mutex>>
  <2>1. queue' \in [Queues -> Ring]
    BY <1>3, GetRing
  <2>2. RingsClosed'
    <3> SUFFICES ASSUME NEW x \in Queues
                 PROVE  queue'[x].rear = (queue'[x].front + queue'[x].count) % K
      BY DEF RingsClosed
    <3>1. CASE x # q
      <4>1. queue'[x] = queue[x]
        BY <1>3, <3>1, GetRing
      <4> QED BY <4>1 DEF PInv, RingsClosed
    <3>2. CASE x = q
      <4> PICK k \in 0 .. K - 1 : k = queue[q].count - 1
        BY <1>0, <1>3 DEF Ring, Empty, K
      <4> PICK f \in Indices : f = queue[q].front
        BY <1>0 DEF Ring
      <4>1. queue[q].count = k + 1
        BY <1>0 DEF Ring
      <4>2. queue[q].rear = (f + (k + 1)) % K
        BY <4>1 DEF PInv, RingsClosed
      <4>3. /\ queue'[q].front = advance(f) /\ queue'[q].count = k
            /\ queue'[q].rear = (f + (k + 1)) % K
        BY <1>3, <4>2, GetRing
      <4>4. (advance(f) + k) % K = (f + (k + 1)) % K
        BY RingNext
      <4> QED BY <3>2, <4>3, <4>4
    <3> QED BY <3>1, <3>2
  <2>3. received' \in [Queues -> Messages \cup {0}]
    <3>1. queue[q].buffer[queue[q].front] \in Messages \cup {0}
      BY <1>0 DEF Ring
    <3> QED BY <1>3, <3>1 DEF PInv, PTypeOK
  <2> QED BY <1>3, <2>1, <2>2, <2>3, ServeTypes DEF PInv, PTypeOK, Ring, K
<1> QED BY <1>0, <1>1, <1>2, <1>3 DEF rtos_queue_receive, rtos_queue_send

LEMMA PrimitiveInvariance == PSpec => [](Inv /\ PInv)
<1>1. PInit => PInv
  <2> SUFFICES ASSUME PInit PROVE PInv
    OBVIOUS
  <2>1. /\ 0 \in Indices /\ 0 \in 0 .. RTOS_QUEUE_SIZE
        /\ (0 + 0) % K = 0
    BY PrimitivesAssumption DEF Indices, K
  <2>2. [buffer |-> [p \in 0 .. RTOS_QUEUE_SIZE - 1 |-> 0], front |-> 0, rear |-> 0, count |-> 0]
          \in Ring
    BY <2>1 DEF Ring, Indices, K
  <2>3. PTypeOK
    BY <2>2, PrimitivesAssumption DEF PInit, PTypeOK, Ring, K
  <2> QED BY <2>1, <2>3 DEF PInit, PInv, RingsClosed
<1>2. TypeOK /\ PInv /\ [PNext]_pVars => PInv'
  <2> SUFFICES ASSUME TypeOK, PInv, [PNext]_pVars PROVE PInv'
    OBVIOUS
  <2>1. CASE KernelStep
    <3>1. wants' \in [Slots -> Resources \cup {NoResource}]
      BY <2>1, StillWantsType DEF KernelStep, PInv
    <3> QED BY <2>1, <3>1 DEF KernelStep, objects, PInv, PTypeOK, RingsClosed
  <2>2. CASE UNCHANGED pVars
    BY <2>2 DEF pVars, objects, histories, PInv, PTypeOK, RingsClosed
  <2> QED BY <2>1, <2>2, SemTypes, MutexTypes, QueueTypes DEF PNext
<1>3. PSpec => []Inv
  BY PrimitivesImplementScheduler, Invariance, PTL DEF ImplementsScheduler
<1> QED BY <1>1, <1>2, <1>3, PTL DEF PSpec, Inv

(* rtos.c: counts stay within their bounds, front and rear within the      *)
(* ring, and a locked mutex names a task.                                  *)
THEOREM PrimitiveTypesCorrect == PSpec => []PTypeOK
BY PrimitiveInvariance, PTL DEF PInv

-----------------------------------------------------------------------------
(* The rings are FIFOs.                                                    *)

Data == Messages \cup {0}

RingContents(r) == [k \in 1 .. r.count |-> r.buffer[(r.front + k - 1) % K]]

LEMMA RingContentsType ==
    ASSUME NEW r \in Ring
    PROVE  /\ RingContents(r) \in Seq(Data)
           /\ Len(RingContents(r)) = r.count
           /\ r.count \in 0 .. K
           /\ \A k \in 1 .. r.count :
                /\ (r.front + k - 1) % K \in Indices
                /\ (r.front + k - 1) % K = IF r.front + k - 1 < K THEN r.front + k - 1
                                           ELSE r.front + k - 1 - K
                /\ RingContents(r)[k] = r.buffer[(r.front + k - 1) % K]
<1>0. K \in Nat \ {0} /\ r.count \in 0 .. K /\ r.front \in Indices /\ r.front \in Int
      /\ r.buffer \in [Indices -> Data]
  BY PrimitivesAssumption DEF Ring, K, Data, Indices
<1>1. ASSUME NEW k \in 1 .. r.count
      PROVE  /\ (r.front + k - 1) % K \in Indices
             /\ (r.front + k - 1) % K = IF r.front + k - 1 < K THEN r.front + k - 1
                                        ELSE r.front + k - 1 - K
  <2> PICK j \in 0 .. K : j = k - 1
    BY <1>0
  <2> PICK f \in Indices : f = r.front
    BY <1>0
  <2>1. r.front + k - 1 = f + j /\ f \in Int
    BY <1>0
  <2>2. /\ (f + j) % K \in Indices
        /\ (f + j) % K = IF f + j < K THEN f + j ELSE f + j - K
    BY RingIndex
  <2> QED BY <2>1, <2>2
<1>2. RingContents(r) \in [1 .. r.count -> Data]
  BY <1>0, <1>1 DEF RingContents
<1>3. RingContents(r) \in Seq(Data) /\ Len(RingContents(r)) = r.count
  <2> HIDE DEF RingContents
  <2>1. r.count \in Nat
    BY <1>0
  <2>2. RingContents(r) \in Seq(Data)
    BY <1>2, <2>1, SeqDef
  <2>3. DOMAIN RingContents(r) = 1 .. r.count
    BY <1>2
  <2> QED BY <2>1, <2>2, <2>3, LenProperties
<1>4. \A k \in 1 .. r.count : RingContents(r)[k] = r.buffer[(r.front + k - 1) % K]
  BY DEF RingContents
<1> QED BY <1>0, <1>1, <1>3, <1>4

LEMMA PutAppends ==
    ASSUME NEW r \in Ring, NEW n \in Ring, NEW v \in Messages,
           r.count < K, r.rear = (r.front + r.count) % K,
           n.buffer = [r.buffer EXCEPT ![r.rear] = v],
           n.front = r.front, n.count = r.count + 1
    PROVE  RingContents(n) = Append(RingContents(r), v)
<1> DEFINE s == RingContents(r)
           t == RingContents(n)
<1>0. K \in Nat \ {0} /\ r.count \in 0 .. K - 1 /\ r.front \in 0 .. K - 1 /\ r.front \in Indices
      /\ r.buffer \in [Indices -> Data] /\ r.rear \in Indices /\ v \in Data
  BY PrimitivesAssumption DEF Ring, K, Data, Indices
<1>1. /\ s \in Seq(Data) /\ Len(s) = r.count /\ t \in Seq(Data) /\ Len(t) = r.count + 1
  <2> HIDE DEF RingContents
  <2> QED BY RingContentsType
<1>2. /\ Append(s, v) \in Seq(Data) /\ Len(Append(s, v)) = r.count + 1
      /\ \A k \in 1 .. r.count : Append(s, v)[k] = s[k]
      /\ Append(s, v)[r.count + 1] = v
  <2> HIDE DEF s
  <2> QED BY <1>0, <1>1, AppendProperties
<1>3. r.rear = IF r.front + r.count < K THEN r.front + r.count ELSE r.front + r.count - K
  <2> PICK f \in Indices, c \in 0 .. K : f = r.front /\ c = r.count
    BY <1>0
  <2>1. (f + c) % K = IF f + c < K THEN f + c ELSE f + c - K
    BY RingIndex
  <2> QED BY <2>1
<1>4. ASSUME NEW k \in 1 .. r.count PROVE t[k] = s[k]
  <2> DEFINE i == (r.front + k - 1) % K
  <2>1. /\ i \in Indices
        /\ i = IF r.front + k - 1 < K THEN r.front + k - 1 ELSE r.front + k - 1 - K
        /\ s[k] = r.buffer[i]
    BY RingContentsType
  <2>2. t[k] = n.buffer[i]
    <3>1. k \in 1 .. n.count /\ n.front = r.front
      BY <1>0
    <3>2. RingContents(n)[k] = n.buffer[(n.front + k - 1) % K]
      BY <3>1, RingContentsType
    <3> QED BY <3>1, <3>2
  <2> HIDE DEF i
  <2>3. i # r.rear
    BY <1>0, <1>3, <2>1
  <2> QED BY <1>0, <2>1, <2>2, <2>3
<1>5. t[r.count + 1] = v
  <2>1. r.count + 1 \in 1 .. n.count
    BY <1>0
  <2>2. t[r.count + 1] = n.buffer[(n.front + (r.count + 1) - 1) % K]
    BY <2>1, RingContentsType
  <2>3. n.front + (r.count + 1) - 1 = r.front + r.count
    BY <1>0
  <2> QED BY <1>0, <2>2, <2>3
<1> HIDE DEF s, t
<1>6. \A k \in 1 .. Len(t) : t[k] = Append(s, v)[k]
  <2> SUFFICES ASSUME NEW k \in 1 .. r.count + 1 PROVE t[k] = Append(s, v)[k]
    BY <1>1
  <2>1. k \in 1 .. r.count \/ k = r.count + 1
    BY <1>0
  <2> QED BY <1>2, <1>4, <1>5, <2>1
<1>7. t = Append(s, v)
  BY <1>1, <1>2, <1>6, SeqEqual
<1> QED BY <1>7 DEF s, t

LEMMA GetTakesHead ==
    ASSUME NEW r \in Ring, NEW n \in Ring, r.count # 0,
           n.buffer = r.buffer, n.front = advance(r.front), n.count = r.count - 1
    PROVE  /\ RingContents(r) # <<>>
           /\ Head(RingContents(r)) = r.buffer[r.front]
           /\ RingContents(n) = Tail(RingContents(r))
<1> DEFINE s == RingContents(r)
           t == RingContents(n)
<1>0. K \in Nat \ {0} /\ r.count \in 1 .. K /\ r.front \in 0 .. K - 1 /\ r.front \in Indices
  BY PrimitivesAssumption DEF Ring, K, Indices
<1>1. /\ s \in Seq(Data) /\ Len(s) = r.count /\ t \in Seq(Data) /\ Len(t) = r.count - 1
  BY RingContentsType
<1>2. s # <<>> /\ s[1] = r.buffer[r.front]
  <2>1. 1 \in 1 .. r.count
    BY <1>0
  <2>2. s[1] = r.buffer[(r.front + 1 - 1) % K]
        /\ (r.front + 1 - 1) % K = IF r.front + 1 - 1 < K THEN r.front + 1 - 1
                                   ELSE r.front + 1 - 1 - K
    BY <2>1, RingContentsType
  <2>3. (r.front + 1 - 1) % K = r.front
    BY <1>0, <2>2
  <2> HIDE DEF s
  <2> QED BY <1>0, <1>1, <2>2, <2>3
<1>3. ASSUME NEW k \in 1 .. r.count - 1 PROVE t[k] = s[k + 1]
  <2> PICK j \in 0 .. K - 1 : j = k - 1
    BY <1>0
  <2>1. k \in 1 .. n.count /\ k + 1 \in 1 .. r.count
    BY <1>0
  <2>2. t[k] = r.buffer[(advance(r.front) + k - 1) % K]
    BY <2>1, RingContentsType
  <2>3. s[k + 1] = r.buffer[(r.front + (k + 1) - 1) % K]
    BY <2>1, RingContentsType
  <2>4. (advance(r.front) + j) % K = (r.front + (j + 1)) % K /\ advance(r.front) \in Int
    BY <1>0, RingNext DEF Indices
  <2>5. advance(r.front) + k - 1 = advance(r.front) + j
        /\ r.front + (k + 1) - 1 = r.front + (j + 1)
    BY <1>0, <2>4
  <2> HIDE DEF s, t
  <2> QED BY <2>2, <2>3, <2>4, <2>5
<1> HIDE DEF s, t
<1>4. /\ Tail(s) \in Seq(Data) /\ Len(Tail(s)) = r.count - 1
      /\ \A k \in 1 .. r.count - 1 : Tail(s)[k] = s[k + 1]
  BY <1>1, <1>2, HeadTailProperties
<1>5. t = Tail(s)
  BY <1>1, <1>3, <1>4, SeqEqual
<1>6. Head(s) = s[1]
  BY <1>1, <1>2
<1> QED BY <1>2, <1>5, <1>6 DEF s, t

(***************************************************************************)
(* rtos.c, queue_send() and queue_receive(): messages come out in the      *)
(* order they went in, none lost, repeated or made up, for any size of the *)
(* ring and any tasks that send, receive, block and try again.             *)
(***************************************************************************)
THEOREM RingsAreFifos == PSpec => QueueIsFifo
<1> DEFINE items == [q \in Queues |-> Contents(q)]
<1>1. PInit => Channels!Init
  <2> SUFFICES ASSUME PInit, NEW q \in Queues PROVE Contents(q) = <<>>
    BY DEF Channels!Init
  <2>1. queue[q].count = 0
    BY DEF PInit
  <2> QED BY <2>1 DEF Contents
<1>2. PInv /\ [PNext]_pVars => [Channels!Next]_<<items, received>>
  <2> SUFFICES ASSUME PInv, [PNext]_pVars
               PROVE  Channels!Next \/ UNCHANGED <<items, received>>
    OBVIOUS
  <2>0. /\ items = [x \in Queues |-> items[x]] /\ items' = [x \in Queues |-> items'[x]]
        /\ \A x \in Queues : /\ items[x] = RingContents(queue[x])
                              /\ items'[x] = RingContents(queue'[x])
    BY DEF Contents, RingContents, K
  <2>1. CASE UNCHANGED <<queue, received>>
    BY <2>1 DEF Contents
  <2>2. ASSUME NEW q \in Queues, NEW v \in Messages, rtos_queue_send(q, v), ~BlockOn(<<"QUEUE_FULL", q>>)
        PROVE  Channels!Next
    <3>1. ~Full(q) /\ Put(q, v) /\ UNCHANGED received
      BY <2>2 DEF rtos_queue_send
    <3> PICK r \in Ring, n \in Ring : r = queue[q] /\ n = queue'[q]
      BY <3>1, PutRing DEF PInv, PTypeOK, Ring, K
    <3>2. r.count < K /\ r.count \in Nat /\ r.rear = (r.front + r.count) % K
      BY <3>1, PrimitivesAssumption DEF Full, Ring, K, PInv, RingsClosed
    <3>0. /\ n.buffer = [r.buffer EXCEPT ![r.rear] = v]
          /\ n.front = r.front /\ n.count = r.count + 1
      BY <3>1, PutRing
    <3>3. RingContents(n) = Append(RingContents(r), v)
      BY <3>0, <3>2, PutAppends
    <3>4. Len(RingContents(r)) < K
      BY <3>2, RingContentsType
    <3>5. \A x \in Queues \ {q} : RingContents(queue'[x]) = RingContents(queue[x])
      BY <3>1, PutRing
    <3>6. RingContents(queue'[q]) = RingContents(n) /\ RingContents(queue[q]) = RingContents(r)
      OBVIOUS
    <3>7. items' = [items EXCEPT ![q] = Append(items[q], v)] /\ items[q] = RingContents(r)
      <4> HIDE DEF items
      <4>1. items[q] = RingContents(r) /\ items'[q] = Append(items[q], v)
        BY <2>0, <3>3, <3>6
      <4>2. \A x \in Queues \ {q} : items'[x] = items[x]
        BY <2>0, <3>5
      <4> QED BY <2>0, <4>1, <4>2, ChangedAt
    <3>8. Channels!Send(q, v)
      BY <3>1, <3>4, <3>7 DEF Channels!Send, K
    <3> QED BY <3>8 DEF Channels!Next
  <2>3. ASSUME NEW q \in Queues, rtos_queue_receive(q), ~BlockOn(<<"QUEUE_EMPTY", q>>)
        PROVE  Channels!Next
    <3>1. /\ ~Empty(q)
          /\ received' = [received EXCEPT ![q] = queue[q].buffer[queue[q].front]]
          /\ queue' = [queue EXCEPT ![q].front = advance(@), ![q].count = @ - 1]
      BY <2>3 DEF rtos_queue_receive
    <3> PICK r \in Ring, n \in Ring : r = queue[q] /\ n = queue'[q]
      BY <3>1, GetRing DEF PInv, PTypeOK, Ring, K
    <3>0. /\ r.count # 0 /\ n.buffer = r.buffer
          /\ n.front = advance(r.front) /\ n.count = r.count - 1
      BY <3>1, GetRing DEF Empty
    <3>2. /\ RingContents(r) # <<>>
          /\ Head(RingContents(r)) = r.buffer[r.front]
          /\ RingContents(n) = Tail(RingContents(r))
      BY <3>0, GetTakesHead
    <3>3. \A x \in Queues \ {q} : RingContents(queue'[x]) = RingContents(queue[x])
      BY <3>1, GetRing
    <3>4. RingContents(queue'[q]) = RingContents(n) /\ RingContents(queue[q]) = RingContents(r)
      OBVIOUS
    <3>5. items' = [items EXCEPT ![q] = Tail(items[q])] /\ items[q] = RingContents(r)
      <4> HIDE DEF items
      <4>1. items[q] = RingContents(r) /\ items'[q] = Tail(items[q])
        BY <2>0, <3>2, <3>4
      <4>2. \A x \in Queues \ {q} : items'[x] = items[x]
        BY <2>0, <3>3
      <4> QED BY <2>0, <4>1, <4>2, ChangedAt
    <3>6. Channels!Receive(q)
      BY <3>1, <3>2, <3>5 DEF Channels!Receive
    <3> QED BY <3>6 DEF Channels!Next
  <2>4. \A r : BlockOn(r) => UNCHANGED <<queue, received>>
    BY DEF BlockOn, objects
  <2>5. CASE KernelStep \/ UNCHANGED pVars
    BY <2>1, <2>5 DEF KernelStep, pVars, objects
  <2>6. ASSUME NEW s \in Sems, rtos_sem_wait(s) \/ rtos_sem_signal(s)
        PROVE  UNCHANGED <<queue, received>>
    BY <2>4, <2>6 DEF rtos_sem_wait, rtos_sem_signal
  <2>7. ASSUME NEW m \in Mutexes, rtos_mutex_lock(m) \/ rtos_mutex_unlock(m)
        PROVE  UNCHANGED <<queue, received>>
    BY <2>4, <2>7 DEF rtos_mutex_lock, rtos_mutex_unlock, objects
  <2> QED BY <2>1, <2>2, <2>3, <2>4, <2>5, <2>6, <2>7 DEF PNext
<1> QED BY <1>1, <1>2, PrimitiveInvariance, PTL DEF PSpec, QueueIsFifo, Channels!Spec

-----------------------------------------------------------------------------
(***************************************************************************)
(* No wake-up is lost where an application has one semaphore, one mutex    *)
(* and one queue at most.  The block reason then names the resource a task *)
(* waits for, and the task that a release wakes is one it is for.          *)
(*                                                                         *)
(* NoLostWakeup alone is not inductive: a release adds a unit, and the     *)
(* task woken for it counts only if it was not among the woken before.     *)
(* The invariant adds what makes it so: whoever waits for a resource is    *)
(* recorded as wanting it and has called since it was last woken.          *)
(***************************************************************************)
OneOfAKind ==
    /\ \A x, y \in Sems : x = y
    /\ \A x, y \in Mutexes : x = y
    /\ \A x, y \in Queues : x = y

(* The tasks blocked for the reason of resource r.                         *)
W(r) == Waiters(task_list, task_count, r[1])

WakeupAt(r) ==
    /\ \A t \in W(r) : wants[t] = r /\ t \notin retry[r]
    /\ W(r) # {} => Available(r) <= Cardinality(retry[r])

(* The inductive invariant.                                                *)
WInv == \A r \in Resources : WakeupAt(r)

LEMMA ResourceKinds ==
    ASSUME NEW r \in Resources
    PROVE  /\ r[1] \in {"SEMAPHORE", "MUTEX", "QUEUE_EMPTY", "QUEUE_FULL"}
           /\ r[1] \in BlockReason \ {"NONE", "SLEEP"}
           /\ r = <<r[1], r[2]>>
           /\ r[1] = "SEMAPHORE" => r[2] \in Sems
           /\ r[1] = "MUTEX" => r[2] \in Mutexes
           /\ r[1] \in {"QUEUE_EMPTY", "QUEUE_FULL"} => r[2] \in Queues
BY DEF Resources, BlockReason

(* A block reason names one resource.                                      *)
LEMMA ReasonNamesResource ==
    ASSUME OneOfAKind, NEW r \in Resources, NEW x \in Resources, r[1] = x[1]
    PROVE  r = x
BY ResourceKinds DEF OneOfAKind

-----------------------------------------------------------------------------
(* The four ways a step can treat a resource.                              *)

WantsKept(r) == \A t \in W(r)' : wants'[t] = wants[t]

(* Nothing of it is given back, and waiters leave at most.                 *)
Quiet(r) ==
    /\ W(r)' \subseteq W(r)
    /\ WantsKept(r)
    /\ retry'[r] = retry[r]
    /\ Available(r)' = Available(r)

(* The caller finds none of it and joins the waiters.                      *)
Joined(r) ==
    /\ W(r)' \subseteq W(r) \cup {Caller}
    /\ \A t \in W(r)' : wants'[t] = IF t = Caller THEN r ELSE wants[t]
    /\ retry'[r] = retry[r] \ {Caller}
    /\ Available(r)' = 0

(* The caller takes a unit, or is told that it holds it already.           *)
Taken(r) ==
    /\ W(r)' \subseteq W(r)
    /\ WantsKept(r)
    /\ retry'[r] = retry[r] \ {Caller}
    /\ Available(r)' = Available(r) - 1 \/ Available(r)' = 0

(* A unit is given back, and a waiter is woken if there is one.            *)
Released(r) ==
    /\ Available(r)' = Available(r) + 1
    /\ W(r) = {} => W(r)' = {}
    /\ W(r) # {} => \E b \in W(r) : /\ W(r)' = W(r) \ {b}
                                    /\ retry'[r] = retry[r] \cup {b}
    /\ WantsKept(r)

LEMMA RetryFinite ==
    ASSUME PTypeOK, NEW r \in Resources
    PROVE  /\ IsFiniteSet(retry[r])
           /\ Cardinality(retry[r]) \in Nat
           /\ Available(r) \in Int
<1>1. IsFiniteSet(Slots)
  BY MaxTasksAssumption, FS_Interval DEF Slots
<1>2. retry[r] \in SUBSET Slots
  BY DEF PTypeOK
<1>3. Available(r) \in Int
  BY ResourceKinds, PrimitivesAssumption DEF Available, PTypeOK
<1> QED BY <1>1, <1>2, <1>3, FS_Subset, FS_CardinalityType

(* Each of them keeps the invariant.                                       *)
LEMMA WakeupKept ==
    ASSUME PTypeOK, NEW r \in Resources, WakeupAt(r),
           Quiet(r) \/ Joined(r) \/ Taken(r) \/ Released(r)
    PROVE  WakeupAt(r)'
<1> DEFINE n == Cardinality(retry[r])
           a == Available(r)
<1>0. IsFiniteSet(retry[r]) /\ n \in Nat /\ a \in Int
  BY RetryFinite
<1>1. CASE Quiet(r)
  BY <1>1 DEF Quiet, WantsKept, WakeupAt
<1>2. IsFiniteSet(retry[r] \ {Caller}) /\ Cardinality(retry[r] \ {Caller}) \in Nat
      /\ Cardinality(retry[r] \ {Caller}) >= n - 1
  <2>1. /\ IsFiniteSet(retry[r] \ {Caller})
        /\ Cardinality(retry[r] \ {Caller}) = IF Caller \in retry[r] THEN n - 1 ELSE n
    BY <1>0, FS_RemoveElement
  <2>2. Cardinality(retry[r] \ {Caller}) \in Nat
    BY <2>1, FS_CardinalityType
  <2> HIDE DEF n
  <2> QED BY <1>0, <2>1, <2>2
<1>3. CASE Joined(r)
  BY <1>2, <1>3 DEF Joined, WakeupAt
<1>4. CASE Taken(r)
  <2>1. \A t \in W(r)' : wants'[t] = r /\ t \notin retry'[r]
    BY <1>4 DEF Taken, WantsKept, WakeupAt
  <2>2. ASSUME W(r)' # {} PROVE Available(r)' <= Cardinality(retry'[r])
    <3>1. a <= n
      BY <1>4, <2>2 DEF Taken, WakeupAt
    <3>2. Available(r)' = a - 1 \/ Available(r)' = 0
      BY <1>4 DEF Taken
    <3>3. retry'[r] = retry[r] \ {Caller}
      BY <1>4 DEF Taken
    <3> HIDE DEF a, n
    <3> QED BY <1>0, <1>2, <3>1, <3>2, <3>3
  <2> QED BY <2>1, <2>2 DEF WakeupAt
<1>5. CASE Released(r)
  <2>1. CASE W(r) = {}
    BY <1>5, <2>1 DEF Released, WakeupAt
  <2>2. CASE W(r) # {}
    <3> PICK b \in W(r) : W(r)' = W(r) \ {b} /\ retry'[r] = retry[r] \cup {b}
      BY <1>5, <2>2 DEF Released
    <3>1. \A t \in W(r)' : wants'[t] = r /\ t \notin retry'[r]
      BY <1>5 DEF Released, WantsKept, WakeupAt
    <3>2. Available(r)' = a + 1 /\ a <= n
      BY <1>5, <2>2 DEF Released, WakeupAt
    <3>3. b \notin retry[r]
      BY DEF WakeupAt
    <3>4. Cardinality(retry[r] \cup {b}) = n + 1
      BY <1>0, <3>3, FS_AddElement
    <3>5. Available(r)' <= Cardinality(retry'[r])
      <4> HIDE DEF a, n
      <4> QED BY <1>0, <3>2, <3>4
    <3> QED BY <3>1, <3>5 DEF WakeupAt
  <2> QED BY <2>1, <2>2
<1> QED BY <1>1, <1>3, <1>4, <1>5

-----------------------------------------------------------------------------
(* What the calls do to the waiters.                                       *)

LEMMA StillWantsKept ==
    ASSUME TypeOK, NEW r \in Resources, wants' = StillWants, W(r)' \subseteq W(r)
    PROVE  WantsKept(r)
<1>1. W(r)' \subseteq Slots
  BY CreatedAreSlots DEF W, Waiters, Created
<1>2. W(r)' = Waiters(task_list', task_count', r[1])
  BY DEF W
<1> QED BY <1>1, <1>2 DEF WantsKept, StillWants

(* A call that blocks for r makes the caller a waiter of r and of nothing  *)
(* else.                                                                   *)
LEMMA BlockOnWaiters ==
    ASSUME OneOfAKind, TypeOK, PTypeOK, NEW r \in Resources, HasTask, BlockOn(r),
           NEW x \in Resources
    PROVE  /\ x # r => Quiet(x)
           /\ x = r /\ Available(r) = 0 => Joined(r)
<1> PICK c \in Created : c = Caller
  BY DEF HasTask
<1>1. /\ c \in Slots /\ "BLOCKED" \in TaskState /\ r[1] \in BlockReason
      /\ x[1] \in BlockReason \ {"NONE"} /\ task_count' = task_count
      /\ scheduler_set_task_state(c, "BLOCKED", r[1])
  BY CreatedAreSlots, ResourceKinds DEF TaskState, BlockOn, rest
<1>2. W(x)' = IF r[1] = x[1] THEN W(x) \cup {c} ELSE W(x) \ {c}
  BY <1>1, SetStateWaiters DEF W
<1>3. W(x)' \subseteq Slots /\ W(x)' = Waiters(task_list', task_count', x[1])
  BY <1>1, <1>2, CreatedAreSlots DEF W, Waiters, Created
<1>4. /\ wants' = [StillWants EXCEPT ![c] = r]
      /\ retry' = [retry EXCEPT ![r] = @ \ {c}]
      /\ Available(x)' = Available(x)
  BY DEF BlockOn, objects, Available
<1>5. \A t \in W(x)' : wants'[t] = IF t = c THEN r ELSE wants[t]
  BY <1>3, <1>4 DEF StillWants
<1>6. ASSUME x # r PROVE Quiet(x)
  <2>1. W(x)' = W(x) \ {c}
    BY <1>2, <1>6, ReasonNamesResource
  <2> QED BY <1>4, <1>5, <1>6, <2>1 DEF Quiet, WantsKept, PTypeOK
<1>7. ASSUME x = r, Available(r) = 0 PROVE Joined(r)
  BY <1>2, <1>4, <1>5, <1>7 DEF Joined, PTypeOK
<1> QED BY <1>6, <1>7

(* A served call that wakes nobody.                                        *)
LEMMA ServeNobody ==
    ASSUME TypeOK, PTypeOK, NEW r, Serve(r, "NONE"), NEW x \in Resources
    PROVE  /\ W(x)' = W(x)
           /\ WantsKept(x)
           /\ retry'[x] = IF x = r THEN retry[x] \ {Caller} ELSE retry[x]
<1>1. UNCHANGED <<task_list, task_count>>
  BY DEF Serve, tables, rest
<1>2. W(x)' = W(x) /\ Woken("NONE") = {}
  BY <1>1 DEF W, Waiters, Woken
<1>3. WantsKept(x)
  BY <1>2, StillWantsKept DEF Serve
<1> QED BY <1>2, <1>3 DEF Serve

(* A served call that gives back a unit of y wakes a waiter of y.          *)
LEMMA ServeWakes ==
    ASSUME OneOfAKind, TypeOK, PTypeOK, WInv,
           NEW r, NEW y \in Resources, r # y, Serve(r, y[1]), NEW x \in Resources
    PROVE  /\ WantsKept(x)
           /\ x # y => /\ W(x)' = W(x)
                       /\ retry'[x] = IF x = r THEN retry[x] \ {Caller} ELSE retry[x]
           /\ x = y => /\ W(y) = {} => W(y)' = {}
                       /\ W(y) # {} => \E b \in W(y) : /\ W(y)' = W(y) \ {b}
                                                       /\ retry'[y] = retry[y] \cup {b}
<1>0. /\ y[1] # "NONE" /\ y[1] \in BlockReason \ {"NONE"}
      /\ x[1] \in BlockReason \ {"NONE"}
      /\ x # y => x[1] # y[1]
  BY ResourceKinds, ReasonNamesResource
<1>1. /\ scheduler_unblock_one(y[1]) /\ task_count' = task_count
      /\ wants' = StillWants
      /\ retry'[x] = (IF x = r THEN retry[x] \ {Caller} ELSE retry[x])
                        \cup {t \in Woken(y[1]) : wants[t] = x}
  BY <1>0 DEF Serve, rest
<1>2. CASE W(y) = {}
  <2>1. UNCHANGED <<task_list, task_count>>
    BY <1>1, <1>2 DEF W, scheduler_unblock_one, tables
  <2>2. W(x)' = W(x) /\ Woken(y[1]) = {}
    BY <2>1 DEF W, Waiters, Woken
  <2>3. WantsKept(x)
    BY <1>1, <2>2, StillWantsKept
  <2> QED BY <1>1, <1>2, <2>2, <2>3
<1>3. CASE W(y) # {}
  <2> PICK b \in Slots : /\ IsBestWaiter(task_list, task_count, y[1], b)
                         /\ scheduler_set_task_state(b, "READY", "NONE")
    BY <1>1, <1>3 DEF W, scheduler_unblock_one
  <2>1. b \in W(y) /\ (x # y => b \notin W(x))
    BY <1>0 DEF IsBestWaiter, W, Waiters
  <2>2. /\ "READY" \in TaskState /\ "NONE" \in BlockReason /\ "READY" # "BLOCKED"
        /\ scheduler_set_task_state(b, "READY", "NONE") /\ task_count' = task_count
        /\ x[1] \in BlockReason \ {"NONE"} /\ y[1] \in BlockReason \ {"NONE"}
    <3>1. "READY" \in TaskState /\ "NONE" \in BlockReason /\ "READY" # "BLOCKED"
      BY DEF TaskState, BlockReason
    <3> QED BY <1>0, <1>1, <3>1
  <2>3. W(x)' = W(x) \ {b} /\ W(y)' = W(y) \ {b}
    <3>1. W(x)' = W(x) \ {b}
      BY <2>2, SetStateWaiters DEF W
    <3>2. W(y)' = W(y) \ {b}
      BY <2>2, SetStateWaiters DEF W
    <3> QED BY <3>1, <3>2
  <2>4. Woken(y[1]) = {b} /\ wants[b] = y
    <3>1. Woken(y[1]) = W(y) \ W(y)'
      <4>1. W(y)' = Waiters(task_list', task_count', y[1])
        BY DEF W
      <4> QED BY <1>1, <4>1 DEF Woken, W
    <3>2. wants[b] = y
      BY <2>1 DEF WInv, WakeupAt
    <3> QED BY <2>1, <2>3, <3>1, <3>2
  <2>5. WantsKept(x)
    BY <1>1, <2>3, StillWantsKept
  <2>6. retry'[x] = (IF x = r THEN retry[x] \ {Caller} ELSE retry[x])
                      \cup (IF x = y THEN {b} ELSE {})
    BY <1>1, <2>4
  <2>7. CASE x # y
    BY <2>1, <2>3, <2>5, <2>6, <2>7
  <2>8. CASE x = y
    BY <1>3, <2>1, <2>3, <2>5, <2>6, <2>8
  <2> QED BY <2>7, <2>8
<1> QED BY <1>2, <1>3

(* The scheduling cycle and the task life cycle calls end waits at most.   *)
LEMMA KernelIsQuiet ==
    ASSUME Inv, KernelStep, NEW x \in Resources
    PROVE  Quiet(x)
<1>0. /\ TypeOK /\ x[1] \in BlockReason \ {"NONE", "SLEEP"} /\ "NONE" \in BlockReason
      /\ {"SUSPENDED", "READY"} \subseteq TaskState /\ Suspendable \subseteq Slots
  BY ResourceKinds, PrimitivesAssumption DEF Inv, BlockReason, TaskState
<1>1. W(x)' \subseteq W(x)
  <2>1. CASE Cycle
    BY <1>0, <2>1, CycleKeepsWaiters DEF W
  <2>2. ASSUME NEW p \in Priorities, rtos_create_task(p) PROVE W(x)' \subseteq W(x)
    BY <1>0, <2>2, CreateWaiters DEF W
  <2>3. ASSUME NEW n \in SleepArgs, rtos_task_sleep(n) PROVE W(x)' \subseteq W(x)
    BY <1>0, <2>3, SleepCallWaiters DEF W
  <2>4. ASSUME NEW i \in Slots, rtos_suspend_task(i) \/ rtos_resume_task(i)
        PROVE  W(x)' \subseteq W(x)
    <3>1. /\ \E s \in {"SUSPENDED", "READY"} : scheduler_set_task_state(i, s, "NONE")
          /\ task_count' = task_count
      BY <2>4 DEF rtos_suspend_task, rtos_resume_task, rest
    <3> QED BY <1>0, <3>1, SetStateWaiters DEF W
  <2> QED BY <1>0, <2>1, <2>2, <2>3, <2>4 DEF KernelStep
<1>2. WantsKept(x)
  BY <1>0, <1>1, StillWantsKept DEF KernelStep
<1> QED BY <1>1, <1>2 DEF Quiet, KernelStep, objects, Available

-----------------------------------------------------------------------------
(* What each call does to the units.                                       *)

Treated(x) == Quiet(x) \/ Joined(x) \/ Taken(x) \/ Released(x)

LEMMA BlockOnTreats ==
    ASSUME OneOfAKind, TypeOK, PTypeOK, NEW r \in Resources, HasTask, BlockOn(r),
           Available(r) = 0, NEW x \in Resources
    PROVE  Treated(x)
BY BlockOnWaiters DEF Treated

LEMMA SemTreats ==
    ASSUME OneOfAKind, TypeOK, PTypeOK, WInv, NEW s \in Sems,
           rtos_sem_wait(s) \/ rtos_sem_signal(s), NEW x \in Resources
    PROVE  Treated(x)
<1> DEFINE r == <<"SEMAPHORE", s>>
<1>0. /\ r \in Resources /\ sem[s] \in Nat
      /\ Available(r) = sem[s] /\ Available(r)' = sem'[s]
      /\ r # NoResource /\ NoResource[1] = "NONE"
  BY PrimitivesAssumption DEF Resources, PTypeOK, Available, NoResource
<1>1. x = r \/ (x[1] # "SEMAPHORE")
  <2>1. x[1] = r[1] => x = r
    BY <1>0, ReasonNamesResource
  <2> QED BY <2>1
<1>2. ASSUME UNCHANGED <<mutex, queue>>, x # r
      PROVE  Available(x)' = Available(x)
  BY <1>1, <1>2, ResourceKinds DEF Available
<1>3. CASE rtos_sem_wait(s) /\ sem[s] > 0 /\ sem' = [sem EXCEPT ![s] = @ - 1]
           /\ Serve(r, "NONE") /\ UNCHANGED <<mutex, queue, received>>
  <2>1. /\ W(x)' = W(x) /\ WantsKept(x)
        /\ retry'[x] = IF x = r THEN retry[x] \ {Caller} ELSE retry[x]
    BY <1>3, ServeNobody
  <2>2. x = r => Available(x)' = Available(x) - 1
    BY <1>0, <1>3 DEF PTypeOK
  <2> HIDE DEF r
  <2>3. x = r => Taken(x)
    BY <2>1, <2>2 DEF Taken
  <2>4. x # r => Quiet(x)
    BY <1>2, <1>3, <2>1 DEF Quiet
  <2> QED BY <2>3, <2>4 DEF Treated
<1>4. CASE rtos_sem_wait(s) /\ HasTask /\ sem[s] <= 0 /\ BlockOn(r)
  <2>1. Available(r) = 0
    BY <1>0, <1>4
  <2> HIDE DEF r
  <2> QED BY <1>0, <1>4, <2>1, BlockOnTreats
<1>5. CASE rtos_sem_signal(s)
  <2>1. /\ Serve(NoResource, r[1]) /\ sem' = [sem EXCEPT ![s] = @ + 1]
        /\ UNCHANGED <<mutex, queue, received>>
    BY <1>5 DEF rtos_sem_signal
  <2>2. x = r => Available(x)' = Available(x) + 1
    BY <1>0, <2>1 DEF PTypeOK
  <2>3. x # NoResource
    BY ResourceKinds DEF NoResource, BlockReason
  <2> HIDE DEF r
  <2>4. x = r => Released(x)
    BY <1>0, <2>1, <2>2, ServeWakes DEF Released
  <2>5. x # r => Quiet(x)
    BY <1>0, <1>2, <2>1, <2>3, ServeWakes DEF Quiet
  <2> QED BY <2>4, <2>5 DEF Treated
<1> QED BY <1>3, <1>4, <1>5 DEF rtos_sem_wait

LEMMA MutexTreats ==
    ASSUME OneOfAKind, TypeOK, PTypeOK, WInv, NEW m \in Mutexes,
           rtos_mutex_lock(m) \/ rtos_mutex_unlock(m), NEW x \in Resources
    PROVE  Treated(x)
<1> DEFINE r == <<"MUTEX", m>>
<1>0. /\ r \in Resources /\ r # NoResource
      /\ Available(r) = IF mutex[m].locked THEN 0 ELSE 1
      /\ Available(r)' = IF mutex'[m].locked THEN 0 ELSE 1
  BY DEF Resources, Available, NoResource
<1>1. x = r \/ (x[1] # "MUTEX")
  <2>1. x[1] = r[1] => x = r
    BY <1>0, ReasonNamesResource
  <2> QED BY <2>1
<1>2. ASSUME UNCHANGED <<sem, queue>>, x # r
      PROVE  Available(x)' = Available(x)
  BY <1>1, <1>2, ResourceKinds DEF Available
<1>3. CASE /\ rtos_mutex_lock(m)
           /\ Serve(r, "NONE")
           /\ mutex'[m].locked
           /\ UNCHANGED <<sem, queue, received>>
  <2>1. /\ W(x)' = W(x) /\ WantsKept(x)
        /\ retry'[x] = IF x = r THEN retry[x] \ {Caller} ELSE retry[x]
    BY <1>3, ServeNobody
  <2>2. x = r => Available(x)' = 0
    BY <1>0, <1>3
  <2> HIDE DEF r
  <2>3. x = r => Taken(x)
    BY <2>1, <2>2 DEF Taken
  <2>4. x # r => Quiet(x)
    BY <1>2, <1>3, <2>1 DEF Quiet
  <2> QED BY <2>3, <2>4 DEF Treated
<1>4. CASE HasTask /\ mutex[m].locked /\ BlockOn(r)
  <2>1. Available(r) = 0
    BY <1>0, <1>4
  <2> HIDE DEF r
  <2> QED BY <1>0, <1>4, <2>1, BlockOnTreats
<1>5. CASE rtos_mutex_unlock(m)
  <2>1. /\ Serve(NoResource, r[1])
        /\ mutex[m].locked
        /\ mutex' = [mutex EXCEPT ![m] = [locked |-> FALSE, owner |-> NoOwner]]
        /\ UNCHANGED <<sem, queue, received>>
    BY <1>5 DEF rtos_mutex_unlock
  <2>2. x = r => Available(x)' = Available(x) + 1
    BY <1>0, <2>1 DEF PTypeOK
  <2>3. x # NoResource
    BY ResourceKinds DEF NoResource, BlockReason
  <2> HIDE DEF r
  <2>4. x = r => Released(x)
    BY <1>0, <2>1, <2>2, ServeWakes DEF Released
  <2>5. ASSUME x # r PROVE Quiet(x)
    <3>1. WantsKept(x) /\ W(x)' = W(x) /\ retry'[x] = retry[x]
      <4>1. r \in Resources /\ NoResource # r /\ Serve(NoResource, r[1])
        BY <1>0, <2>1
      <4>2. /\ WantsKept(x)
            /\ x # r => /\ W(x)' = W(x)
                        /\ retry'[x] = IF x = NoResource THEN retry[x] \ {Caller}
                                       ELSE retry[x]
        BY <4>1, ServeWakes
      <4> QED BY <2>3, <2>5, <4>2
    <3>2. Available(x)' = Available(x)
      BY <1>2, <2>1, <2>5
    <3> QED BY <3>1, <3>2 DEF Quiet
  <2> QED BY <2>4, <2>5 DEF Treated
<1>6. ASSUME rtos_mutex_lock(m)
      PROVE  \/ /\ Serve(r, "NONE") /\ mutex'[m].locked
                /\ UNCHANGED <<sem, queue, received>>
             \/ HasTask /\ mutex[m].locked /\ BlockOn(r)
  BY <1>6 DEF rtos_mutex_lock, PTypeOK, objects
<1> QED BY <1>3, <1>4, <1>5, <1>6

(* A message takes a free slot of its queue and gives an item, or back.    *)
LEMMA QueueTreats ==
    ASSUME OneOfAKind, TypeOK, PTypeOK, WInv,
           NEW r \in Resources, NEW y \in Resources, NEW x \in Resources,
           r[1] # y[1], {r[1], y[1]} = {"QUEUE_FULL", "QUEUE_EMPTY"},
           Serve(r, y[1]), UNCHANGED <<sem, mutex>>,
           Available(r)' = Available(r) - 1,
           Available(y)' = Available(y) + 1
    PROVE  Treated(x)
<1>1. x = r \/ x = y \/ (x[1] \notin {"QUEUE_FULL", "QUEUE_EMPTY"})
  BY ReasonNamesResource
<1>2. ASSUME x # r, x # y PROVE Available(x)' = Available(x)
  <2>1. x[1] \in {"SEMAPHORE", "MUTEX"}
    BY <1>1, <1>2, ResourceKinds
  <2> QED BY <2>1 DEF Available
<1>3. /\ WantsKept(x)
      /\ x # y => /\ W(x)' = W(x)
                  /\ retry'[x] = IF x = r THEN retry[x] \ {Caller} ELSE retry[x]
      /\ x = y => /\ W(y) = {} => W(y)' = {}
                  /\ W(y) # {} => \E b \in W(y) : /\ W(y)' = W(y) \ {b}
                                                  /\ retry'[y] = retry[y] \cup {b}
  BY ServeWakes
<1>4. CASE x = r
  BY <1>3, <1>4 DEF Taken, Treated
<1>5. CASE x = y
  BY <1>3, <1>5 DEF Released, Treated
<1>6. CASE x # r /\ x # y
  BY <1>2, <1>3, <1>6 DEF Quiet, Treated
<1> QED BY <1>4, <1>5, <1>6

LEMMA SendTreats ==
    ASSUME OneOfAKind, TypeOK, PInv, WInv, NEW q \in Queues, NEW v \in Messages,
           rtos_queue_send(q, v), NEW x \in Resources
    PROVE  Treated(x)
<1> DEFINE r == <<"QUEUE_FULL", q>>
           y == <<"QUEUE_EMPTY", q>>
<1>0. /\ Available(r) = K - queue[q].count /\ Available(r)' = K - queue'[q].count
      /\ Available(y) = queue[q].count /\ Available(y)' = queue'[q].count
      /\ queue[q].count \in Nat /\ K \in Nat
  BY PrimitivesAssumption DEF Available, K, PInv, PTypeOK
<1>1. CASE ~Full(q) /\ Put(q, v) /\ Serve(r, y[1]) /\ UNCHANGED <<sem, mutex, received>>
  <2>1. queue'[q].count = queue[q].count + 1
    BY <1>1, PutRing
  <2>2. Available(r)' = Available(r) - 1 /\ Available(y)' = Available(y) + 1
    BY <1>0, <2>1
  <2>3. /\ r \in Resources /\ y \in Resources /\ r[1] # y[1]
        /\ {r[1], y[1]} = {"QUEUE_FULL", "QUEUE_EMPTY"}
    BY DEF Resources
  <2> HIDE DEF r, y
  <2> QED BY <1>1, <2>2, <2>3, QueueTreats DEF PInv
<1>2. CASE HasTask /\ Full(q) /\ BlockOn(r)
  <2>1. Available(r) = 0
    BY <1>0, <1>2 DEF Full, K
  <2>2. r \in Resources
    BY DEF Resources
  <2> HIDE DEF r
  <2> QED BY <1>2, <2>1, <2>2, BlockOnTreats DEF PInv
<1> QED BY <1>1, <1>2 DEF rtos_queue_send

LEMMA ReceiveTreats ==
    ASSUME OneOfAKind, TypeOK, PInv, WInv, NEW q \in Queues,
           rtos_queue_receive(q), NEW x \in Resources
    PROVE  Treated(x)
<1> DEFINE r == <<"QUEUE_EMPTY", q>>
           y == <<"QUEUE_FULL", q>>
<1>0. /\ Available(r) = queue[q].count /\ Available(r)' = queue'[q].count
      /\ Available(y) = K - queue[q].count /\ Available(y)' = K - queue'[q].count
      /\ queue[q].count \in Nat /\ K \in Nat
  BY PrimitivesAssumption DEF Available, K, PInv, PTypeOK
<1>1. CASE /\ ~Empty(q) /\ Serve(r, y[1]) /\ UNCHANGED <<sem, mutex>>
           /\ queue' = [queue EXCEPT ![q].front = advance(@), ![q].count = @ - 1]
  <2>1. queue'[q].count = queue[q].count - 1
    BY <1>1, GetRing
  <2>2. Available(r)' = Available(r) - 1 /\ Available(y)' = Available(y) + 1
    BY <1>0, <2>1
  <2>3. /\ r \in Resources /\ y \in Resources /\ r[1] # y[1]
        /\ {r[1], y[1]} = {"QUEUE_FULL", "QUEUE_EMPTY"}
    BY DEF Resources
  <2> HIDE DEF r, y
  <2> QED BY <1>1, <2>2, <2>3, QueueTreats DEF PInv
<1>2. CASE HasTask /\ Empty(q) /\ BlockOn(r)
  <2>1. Available(r) = 0
    BY <1>0, <1>2 DEF Empty
  <2>2. r \in Resources
    BY DEF Resources
  <2> HIDE DEF r
  <2> QED BY <1>2, <2>1, <2>2, BlockOnTreats DEF PInv
<1> QED BY <1>1, <1>2 DEF rtos_queue_receive

-----------------------------------------------------------------------------

LEMMA WakeupInvariance == OneOfAKind => (PSpec => []WInv)
<1> SUFFICES ASSUME OneOfAKind PROVE PSpec => []WInv
  OBVIOUS
<1>1. PInit => WInv
  <2> SUFFICES ASSUME PInit, NEW r \in Resources PROVE WakeupAt(r)
    BY DEF WInv
  <2>1. W(r) = {}
    BY DEF W, Waiters, PInit, Init
  <2> QED BY <2>1 DEF WakeupAt
<1>2. Inv /\ PInv /\ WInv /\ [PNext]_pVars => WInv'
  <2> SUFFICES ASSUME Inv, PInv, WInv, [PNext]_pVars, NEW x \in Resources
               PROVE  WakeupAt(x)'
    BY DEF WInv, Resources
  <2>0. TypeOK /\ PTypeOK /\ WakeupAt(x)
    BY DEF Inv, PInv, WInv
  <2>1. CASE UNCHANGED pVars
    <3>1. UNCHANGED <<task_list, task_count, sem, mutex, queue, wants, retry>>
      BY <2>1 DEF pVars, vars, tables, objects, histories
    <3>2. W(x)' = W(x) /\ Available(x)' = Available(x)
      BY <3>1 DEF W, Waiters, Available
    <3> QED BY <2>0, <3>1, <3>2 DEF WakeupAt
  <2>2. CASE PNext
    <3>1. ASSUME KernelStep PROVE Treated(x)
      BY <3>1, KernelIsQuiet DEF Treated
    <3>2. PNext => KernelStep \/ Treated(x)
      BY <2>0, SemTreats, MutexTreats, SendTreats, ReceiveTreats DEF PNext
    <3>3. Treated(x)
      BY <2>2, <3>1, <3>2
    <3> QED BY <2>0, <3>3, WakeupKept DEF Treated
  <2> QED BY <2>1, <2>2
<1> QED BY <1>1, <1>2, PrimitiveInvariance, PTL DEF PSpec

(***************************************************************************)
(* rtos.c and scheduler_unblock_one(): with one object of a kind, no task  *)
(* stays blocked beside a unit that nobody has been woken for, in any      *)
(* order of waits, releases, suspensions and sleeps, for any number of     *)
(* tasks, any counts and any size of the queue.                            *)
(***************************************************************************)
THEOREM NoWakeupIsLost == OneOfAKind => (PSpec => []NoLostWakeup)
<1> SUFFICES ASSUME OneOfAKind PROVE PSpec => []NoLostWakeup
  OBVIOUS
<1>1. WInv => NoLostWakeup
  BY DEF WInv, WakeupAt, NoLostWakeup, WaitingFor, W
<1> QED BY <1>1, WakeupInvariance, PTL
=============================================================================
