----------------------------- MODULE DemoProofs ------------------------------
(***************************************************************************)
(* The demo of main.c uses the primitives as their model allows, whatever  *)
(* priorities and sleeps its tasks are given, however many samples there   *)
(* are and whatever the size of the queue; and its pipeline loses nothing. *)
(***************************************************************************)
EXTENDS Demo, PrimitivesProofs

(* What DInit chooses and what the sensor counts.                          *)
DemoTypes == setup \in Setups /\ sample \in Messages

LEMMA DemoConstants ==
    /\ data_ready \in Sems /\ uart_mutex \in Mutexes /\ sensor_queue \in Queues
    /\ K \in Nat \ {0} /\ Samples \in Nat /\ Samples > K + 1
    /\ Messages = 0 .. Samples - 1 /\ 0 \in Messages /\ Samples - 1 \in Messages
BY DemoAssumption, PrimitivesAssumption DEF K

(* The sample k places on, for k up to a full queue and two more.          *)
LEMMA AfterIs ==
    ASSUME NEW l \in Messages, NEW k \in 0 .. Samples
    PROVE  /\ After(l, k) = IF l + k < Samples THEN l + k ELSE l + k - Samples
           /\ After(l, k) \in Messages
BY DemoConstants DEF After

LEMMA AfterTwice ==
    ASSUME NEW l \in Messages, NEW k \in 0 .. Samples - 1
    PROVE  /\ After(After(l, k), 1) = After(l, k + 1)
           /\ After(After(l, 1), k) = After(l, k + 1)
<1>0. /\ Samples \in Nat /\ Samples > 1 /\ Messages = 0 .. Samples - 1
      /\ k \in 0 .. Samples /\ k + 1 \in 0 .. Samples /\ 1 \in 0 .. Samples
  BY DemoConstants
<1> PICK a \in Messages : a = After(l, k)
  BY <1>0, AfterIs
<1> PICK b \in Messages : b = After(l, 1)
  BY <1>0, AfterIs
<1>1. a = IF l + k < Samples THEN l + k ELSE l + k - Samples
  BY <1>0, AfterIs
<1>2. b = IF l + 1 < Samples THEN l + 1 ELSE l + 1 - Samples
  BY <1>0, AfterIs
<1>3. After(a, 1) = IF a + 1 < Samples THEN a + 1 ELSE a + 1 - Samples
  BY <1>0, AfterIs
<1>4. After(b, k) = IF b + k < Samples THEN b + k ELSE b + k - Samples
  BY <1>0, AfterIs
<1>5. After(l, k + 1) = IF l + (k + 1) < Samples THEN l + (k + 1)
                        ELSE l + (k + 1) - Samples
  BY <1>0, AfterIs
<1>6. l \in 0 .. Samples - 1 /\ a \in 0 .. Samples - 1 /\ b \in 0 .. Samples - 1
  BY <1>0
<1>7. After(a, 1) = After(l, k + 1)
  BY <1>0, <1>1, <1>3, <1>5, <1>6
<1>8. After(b, k) = After(l, k + 1)
  BY <1>0, <1>2, <1>4, <1>5, <1>6
<1> QED BY <1>7, <1>8

-----------------------------------------------------------------------------
(* The demo implements the primitives.                                     *)

(* Every call of the demo is a call Primitives knows.                      *)
LEMMA DemoStepIsPrimitive ==
    ASSUME TypeOK, DemoTypes, [DNext]_dVars
    PROVE  [PNext]_pVars
<1> USE DemoConstants
<1>1. CASE main
  <2>1. CASE task_count < 3 /\ Plain(rtos_create_task(setup.priority[task_count]))
    <3>1. task_count \in Tasks
      BY <2>1 DEF TypeOK, Tasks
    <3>2. setup.priority[task_count] \in Priorities
      BY <3>1, DemoAssumption DEF DemoTypes
    <3> QED BY <2>1, <3>2 DEF Plain, KernelStep, PNext
  <2>2. CASE Plain(Cycle)
    BY <2>2 DEF Plain, KernelStep, PNext
  <2> QED BY <1>1, <2>1, <2>2 DEF main
<1>2. ASSUME NEW t \in Tasks, Sleep(t) PROVE PNext
  <2>1. setup.sleep[t] \in SleepArgs
    BY DemoAssumption DEF DemoTypes
  <2> QED BY <1>2, <2>1 DEF Sleep, Does, Plain, KernelStep, PNext
<1>3. ASSUME NEW t \in Tasks, Return(t) PROVE PNext
  BY <1>3 DEF Return, Does, Plain, KernelStep, Cycle, PNext
<1>4. ASSUME NEW t, NEW l, NEW next, NEW otherwise, Lock(t, l, next, otherwise)
      PROVE  PNext
  BY <1>4 DEF Lock, Does, PNext
<1>5. ASSUME NEW t, Unlock(t) PROVE PNext
  BY <1>5 DEF Unlock, Does, PNext
<1>6. CASE sensor_task
  <2>1. CASE Does(Sensor, "start", rtos_queue_send(sensor_queue, sample), AfterSend)
    BY <2>1 DEF Does, PNext, DemoTypes
  <2>2. CASE Does(Sensor, "signal", Announce, "sleep")
    BY <2>2 DEF Does, Announce, PNext
  <2> QED BY <1>2, <1>6, <2>1, <2>2 DEF sensor_task, Sensor, Tasks
<1>7. CASE logger_task
  <2>1. CASE rtos_sem_wait(data_ready) \/ rtos_queue_receive(sensor_queue)
    BY <2>1 DEF PNext
  <2> QED BY <1>2, <1>4, <1>5, <1>7, <2>1 DEF logger_task, Does, Logger, Tasks
<1>8. CASE display_task
  BY <1>2, <1>4, <1>5, <1>8 DEF display_task, Display, Tasks
<1>9. CASE UNCHANGED dVars
  BY <1>9 DEF dVars
<1> QED BY <1>1, <1>3, <1>6, <1>7, <1>8, <1>9 DEF DNext

LEMMA DemoTypesKept ==
    ASSUME DemoTypes, [DNext]_dVars
    PROVE  DemoTypes'
<1>1. UNCHANGED setup
  BY DEF DNext, dVars, main, sensor_task, logger_task, display_task,
         Sleep, Return, Lock, Unlock, Does
<1>2. sample' = sample \/ sample' = After(sample, 1)
  BY DEF DNext, dVars, main, sensor_task, logger_task, display_task,
         Sleep, Return, Lock, Unlock, Does, KeepSamples
<1>3. After(sample, 1) \in Messages
  <2>1. 1 \in 0 .. Samples
    BY DemoConstants
  <2> QED BY <2>1, AfterIs DEF DemoTypes
<1> QED BY <1>1, <1>2, <1>3 DEF DemoTypes

(***************************************************************************)
(* main.c makes no call the primitives do not allow: every theorem about   *)
(* them, and through them about the scheduler, holds for the demo.         *)
(***************************************************************************)
THEOREM DemoImplementsPrimitives == DSpec => ImplementsPrimitives
<1>1. DInit => PInit /\ TypeOK /\ DemoTypes
  <2>1. DInit => DemoTypes
    BY DemoConstants DEF DInit, DemoTypes
  <2> QED BY <2>1, InitEstablishes DEF DInit, PInit, Inv
<1>2. Inv /\ DemoTypes /\ [DNext]_dVars => [PNext]_pVars /\ Inv' /\ DemoTypes'
  <2> SUFFICES ASSUME Inv, DemoTypes, [DNext]_dVars
               PROVE  [PNext]_pVars /\ Inv' /\ DemoTypes'
    OBVIOUS
  <2>1. [PNext]_pVars
    BY DemoStepIsPrimitive DEF Inv
  <2>2. [Next]_vars
    BY <2>1, PrimitiveStep
  <2> QED BY <2>1, <2>2, NextPreserves, DemoTypesKept
<1>3. DInit => Inv
  BY InitEstablishes DEF DInit, PInit
<1> QED BY <1>1, <1>2, <1>3, PTL DEF DSpec, PSpec, ImplementsPrimitives

LEMMA DemoInvariance == DSpec => [](Inv /\ PInv /\ DemoTypes)
<1>1. DInit => DemoTypes
  BY DemoConstants DEF DInit, DemoTypes
<1>2. DemoTypes /\ [DNext]_dVars => DemoTypes'
  BY DemoTypesKept
<1> QED
  BY <1>1, <1>2, DemoImplementsPrimitives, PrimitiveInvariance, PTL
  DEF DSpec, ImplementsPrimitives

-----------------------------------------------------------------------------
(* The lines of a run, and what the two ends of the pipeline hold there.   *)

(* The logger has received a sample and not yet stored it.                 *)
Holding == IF line \in {"lock", "store"} THEN 1 ELSE 0

(* A message is queued that the semaphore does not count: it is not yet    *)
(* announced, or already claimed.                                          *)
Uncounted == IF line \in {"signal", "receive"} THEN 1 ELSE 0

(* The sensor has gone on to the sample after the last one sent.           *)
Ahead == IF line = "signal" THEN 0 ELSE 1

Control ==
    /\ pc # "task" => line = "start"
    /\ line # "dropped"
    /\ line = "signal" => Caller = Sensor
    /\ line \in {"receive", "lock", "store"} => Caller = Logger
    /\ line \notin {"store", "unlock"} => ~mutex[uart_mutex].locked

(* The queue holds the samples after those the logger holds or has stored. *)
InOrder ==
    \A k \in 1 .. queue[sensor_queue].count :
        Contents(sensor_queue)[k] = After(logged, k + Holding)

Pipeline ==
    /\ logged \in Messages
    /\ sem[data_ready] = queue[sensor_queue].count - Uncounted
    /\ InOrder
    /\ sample = After(logged, queue[sensor_queue].count + Holding + Ahead)
    /\ Holding = 1 => received[sensor_queue] = After(logged, 1)

DemoInv == Control /\ Pipeline

-----------------------------------------------------------------------------
(* What the calls of a run do.                                             *)

LEMMA CallsStayInRun ==
    ASSUME NEW r, NEW reason, Serve(r, reason) \/ BlockOn(r)
    PROVE  pc' = pc /\ Caller' = Caller
BY DEF Serve, BlockOn, rest, control, Caller

LEMMA ContentsOfRing ==
    ASSUME NEW q \in Queues
    PROVE  /\ Contents(q) = RingContents(queue[q])
           /\ Contents(q)' = RingContents(queue'[q])
BY DEF Contents, RingContents, K

LEMMA CountInRing ==
    ASSUME PInv, NEW q \in Queues
    PROVE  /\ queue[q] \in Ring
           /\ queue[q].count \in 0 .. K
           /\ queue[q].count \in Nat
BY DemoConstants DEF PInv, PTypeOK, Ring, K

LEMMA SendAppends ==
    ASSUME PInv, NEW q \in Queues, NEW v \in Messages, ~Full(q), Put(q, v)
    PROVE  /\ queue'[q].count = queue[q].count + 1
           /\ queue[q].count < K
           /\ \A k \in 1 .. queue[q].count : (Contents(q)')[k] = Contents(q)[k]
           /\ (Contents(q)')[queue[q].count + 1] = v
<1> PICK r \in Ring, n \in Ring : r = queue[q] /\ n = queue'[q]
  BY PutRing, CountInRing
<1>1. r.count < K /\ r.count \in Nat
  BY CountInRing, DemoConstants DEF Full, K
<1>2. r.rear = (r.front + r.count) % K
  BY DEF PInv, RingsClosed
<1>3. /\ n.buffer = [r.buffer EXCEPT ![r.rear] = v]
      /\ n.front = r.front /\ n.count = r.count + 1
  BY PutRing
<1>4. RingContents(n) = Append(RingContents(r), v)
  BY <1>1, <1>2, <1>3, PutAppends
<1>5. RingContents(r) \in Seq(Data) /\ Len(RingContents(r)) = r.count /\ v \in Data
  BY RingContentsType DEF Data
<1> PICK s \in Seq(Data) : s = RingContents(r)
  BY <1>5
<1>6. /\ \A k \in 1 .. Len(s) : Append(s, v)[k] = s[k]
      /\ Append(s, v)[Len(s) + 1] = v
  BY <1>5, AppendProperties
<1>7. Contents(q) = s /\ Contents(q)' = Append(s, v)
  BY <1>4, ContentsOfRing
<1> QED BY <1>1, <1>3, <1>5, <1>6, <1>7

LEMMA ReceiveTakes ==
    ASSUME PInv, NEW q \in Queues, ~Empty(q),
           queue' = [queue EXCEPT ![q].front = advance(@), ![q].count = @ - 1]
    PROVE  /\ queue'[q].count = queue[q].count - 1
           /\ queue[q].count >= 1
           /\ Contents(q)[1] = queue[q].buffer[queue[q].front]
           /\ \A k \in 1 .. queue[q].count - 1 : (Contents(q)')[k] = Contents(q)[k + 1]
<1> PICK r \in Ring, n \in Ring : r = queue[q] /\ n = queue'[q]
  BY GetRing, CountInRing
<1>1. r.count \in Nat /\ r.count # 0
  BY CountInRing DEF Empty
<1>2. n.buffer = r.buffer /\ n.front = advance(r.front) /\ n.count = r.count - 1
  BY GetRing
<1>3. /\ RingContents(r) # <<>>
      /\ Head(RingContents(r)) = r.buffer[r.front]
      /\ RingContents(n) = Tail(RingContents(r))
  BY <1>1, <1>2, GetTakesHead
<1>4. RingContents(r) \in Seq(Data) /\ Len(RingContents(r)) = r.count
  BY RingContentsType
<1> PICK s \in Seq(Data) : s = RingContents(r)
  BY <1>4
<1>5. /\ Head(s) = s[1]
      /\ \A k \in 1 .. Len(s) - 1 : Tail(s)[k] = s[k + 1]
  BY <1>3
<1>6. Contents(q) = s /\ Contents(q)' = Tail(s)
  BY <1>3, ContentsOfRing
<1> QED BY <1>1, <1>2, <1>3, <1>4, <1>5, <1>6

-----------------------------------------------------------------------------
(* Steps that leave the objects alone and stay on lines that hold nothing. *)
PlainLines == {"start", "sleep", "return", "unlock"}

LEMMA SamplesKept ==
    ASSUME Pipeline, line \in PlainLines \cup {"dropped"}, line' \in PlainLines,
           UNCHANGED <<queue, received, sem, sample, logged>>
    PROVE  Pipeline'
<1>1. /\ Holding = 0 /\ Uncounted = 0 /\ Ahead = 1
      /\ Holding' = 0 /\ Uncounted' = 0 /\ Ahead' = 1
  BY DEF Holding, Uncounted, Ahead, PlainLines
<1>2. Contents(sensor_queue)' = Contents(sensor_queue)
  BY DEF Contents
<1> QED BY <1>1, <1>2 DEF Pipeline, InOrder

LEMMA MainKeeps ==
    ASSUME DemoInv, main
    PROVE  DemoInv'
<1>1. /\ line = "start" /\ line' = "start" /\ ~mutex[uart_mutex].locked
      /\ UNCHANGED <<sem, mutex, queue, received, sample, logged>>
  BY DEF main, Plain, objects, DemoInv, Control
<1> QED BY <1>1, SamplesKept DEF DemoInv, Control, PlainLines

LEMMA ReturnKeeps ==
    ASSUME DemoInv, NEW t \in Tasks, Return(t)
    PROVE  DemoInv'
<1>1. /\ line = "return" /\ line' = "start" /\ ~mutex[uart_mutex].locked
      /\ UNCHANGED <<sem, mutex, queue, received, sample, logged>>
  BY DEF Return, Does, At, Plain, objects, KeepSamples, DemoInv, Control
<1> QED BY <1>1, SamplesKept DEF DemoInv, Control, PlainLines

LEMMA SleepKeeps ==
    ASSUME DemoInv, NEW t \in Tasks, Sleep(t)
    PROVE  DemoInv'
<1>1. /\ line = "sleep" /\ line' = "return" /\ ~mutex[uart_mutex].locked
      /\ pc = "task" /\ UNCHANGED <<pc, sem, mutex, queue, received, sample, logged>>
  BY DEF Sleep, Does, At, Plain, rtos_task_sleep, rest, control, objects, KeepSamples,
         DemoInv, Control
<1> QED BY <1>1, SamplesKept DEF DemoInv, Control, PlainLines

LEMMA UnlockKeeps ==
    ASSUME PTypeOK, DemoInv, NEW t \in Tasks, Unlock(t)
    PROVE  DemoInv'
<1>1. /\ line = "unlock" /\ line' = "sleep" /\ pc = "task"
      /\ rtos_mutex_unlock(uart_mutex)
      /\ UNCHANGED <<sample, logged>>
  BY DEF Unlock, Does, At, KeepSamples
<1>2. /\ Serve(NoResource, "MUTEX")
      /\ mutex' = [mutex EXCEPT ![uart_mutex] = [locked |-> FALSE, owner |-> NoOwner]]
      /\ UNCHANGED <<sem, queue, received>>
  BY <1>1 DEF rtos_mutex_unlock
<1>3. pc' = "task"
  BY <1>1, <1>2, CallsStayInRun
<1>4. ~mutex'[uart_mutex].locked
  BY <1>2, DemoConstants DEF PTypeOK
<1> QED BY <1>1, <1>2, <1>3, <1>4, SamplesKept DEF DemoInv, Control, PlainLines

(* The display's lock: taken, or the run ends.                             *)
LEMMA DisplayLockKeeps ==
    ASSUME DemoInv, Lock(Display, "start", "unlock", "return")
    PROVE  DemoInv'
<1>1. /\ line = "start" /\ line' = "unlock" /\ pc = "task"
      /\ ~mutex[uart_mutex].locked
      /\ rtos_mutex_lock(uart_mutex) /\ UNCHANGED <<sample, logged>>
  BY DEF Lock, Does, At, KeepSamples, DemoInv, Control
<1>2. /\ Serve(<<"MUTEX", uart_mutex>>, "NONE")
      /\ UNCHANGED <<sem, queue, received>>
  BY <1>1 DEF rtos_mutex_lock
<1>3. pc' = "task"
  BY <1>1, <1>2, CallsStayInRun
<1> QED BY <1>1, <1>2, <1>3, SamplesKept DEF DemoInv, Control, PlainLines

(* The logger's lock: it is free, and the sample is kept.                  *)
LEMMA LoggerLockKeeps ==
    ASSUME DemoInv, Lock(Logger, "lock", "store", "dropped")
    PROVE  DemoInv'
<1>1. /\ line = "lock" /\ line' = "store" /\ pc = "task" /\ Caller = Logger
      /\ ~mutex[uart_mutex].locked
      /\ rtos_mutex_lock(uart_mutex) /\ UNCHANGED <<sample, logged>>
  BY DEF Lock, Does, At, KeepSamples, DemoInv, Control
<1>2. /\ Serve(<<"MUTEX", uart_mutex>>, "NONE")
      /\ UNCHANGED <<sem, queue, received>>
  BY <1>1 DEF rtos_mutex_lock
<1>3. pc' = "task" /\ Caller' = Logger
  BY <1>1, <1>2, CallsStayInRun
<1>4. Contents(sensor_queue)' = Contents(sensor_queue)
  BY <1>2 DEF Contents
<1>5. /\ Holding = 1 /\ Uncounted = 0 /\ Ahead = 1
      /\ Holding' = 1 /\ Uncounted' = 0 /\ Ahead' = 1
  BY <1>1 DEF Holding, Uncounted, Ahead
<1>6. Pipeline'
  BY <1>1, <1>2, <1>4, <1>5 DEF DemoInv, Pipeline, InOrder
<1> QED BY <1>1, <1>3, <1>6 DEF DemoInv, Control

(* A sample that is stored is the one after the last one stored.           *)
LEMMA StoreKeeps ==
    ASSUME PInv, DemoInv, Does(Logger, "store", UNCHANGED pVars, "unlock"),
           logged' = received[sensor_queue], UNCHANGED sample
    PROVE  DemoInv'
<1>1. /\ line = "store" /\ line' = "unlock" /\ pc = "task" /\ Caller = Logger
      /\ UNCHANGED <<pc, Caller, mutex, queue, sem, received>>
  BY DEF Does, At, pVars, vars, objects, Caller
<1>2. Control'
  BY <1>1 DEF Control
<1> PICK n \in 0 .. K : n = queue[sensor_queue].count
  BY CountInRing, DemoConstants
<1>3. /\ Holding = 1 /\ Uncounted = 0 /\ Ahead = 1
      /\ Holding' = 0 /\ Uncounted' = 0 /\ Ahead' = 1
  BY <1>1 DEF Holding, Uncounted, Ahead
<1> PICK l \in Messages : l = logged
  BY DEF DemoInv, Pipeline
<1>4. logged' = After(l, 1)
  BY <1>3 DEF DemoInv, Pipeline
<1>5. 1 \in 0 .. Samples /\ n \in Int /\ n + 1 \in 0 .. Samples - 1
  BY DemoConstants
<1>6. logged' \in Messages
  BY <1>4, <1>5, AfterIs
<1>7. ASSUME NEW k \in 1 .. n
      PROVE  (Contents(sensor_queue)')[k] = After(logged', k + 0)
  <2>1. k \in 0 .. Samples - 1 /\ k + 0 = k
    BY DemoConstants
  <2>2. After(After(l, 1), k) = After(l, k + 1)
    BY <2>1, AfterTwice
  <2>3. Contents(sensor_queue)' = Contents(sensor_queue)
    BY <1>1 DEF Contents
  <2>4. Contents(sensor_queue)[k] = After(l, k + 1)
    BY <1>3 DEF DemoInv, Pipeline, InOrder
  <2> QED BY <1>4, <2>1, <2>2, <2>3, <2>4
<1>8. InOrder'
  BY <1>1, <1>3, <1>7 DEF InOrder
<1>9. sample = After(logged', n + 0 + 1)
  <2>1. After(After(l, 1), n + 1) = After(l, n + 1 + 1)
    BY <1>5, AfterTwice
  <2>2. sample = After(l, n + 1 + 1)
    BY <1>3 DEF DemoInv, Pipeline
  <2>3. n + 0 + 1 = n + 1
    BY <1>5
  <2> QED BY <1>4, <2>1, <2>2, <2>3
<1>10. sem'[data_ready] = n - 0
  BY <1>1, <1>3 DEF DemoInv, Pipeline
<1>11. Pipeline'
  BY <1>1, <1>3, <1>6, <1>8, <1>9, <1>10 DEF Pipeline
<1> QED BY <1>2, <1>11 DEF DemoInv

(* A sample that is sent is the one after the last one queued.             *)
LEMMA SendKeeps ==
    ASSUME PInv, DemoTypes, DemoInv,
           Does(Sensor, "start", rtos_queue_send(sensor_queue, sample), AfterSend),
           KeepSamples
    PROVE  DemoInv'
<1>1. /\ line = "start" /\ pc = "task" /\ Caller = Sensor
      /\ ~mutex[uart_mutex].locked
      /\ rtos_queue_send(sensor_queue, sample) /\ UNCHANGED <<sample, logged>>
  BY DEF Does, At, KeepSamples, DemoInv, Control
<1>2. CASE Full(sensor_queue)
  <2>1. BlockOn(<<"QUEUE_FULL", sensor_queue>>) /\ line' = "sleep"
    BY <1>1, <1>2 DEF rtos_queue_send, Does, AfterSend
  <2>2. pc' = "task"
    BY <1>1, <2>1, CallsStayInRun
  <2>3. UNCHANGED <<sem, mutex, queue, received>>
    BY <2>1 DEF BlockOn, objects
  <2> QED BY <1>1, <2>1, <2>2, <2>3, SamplesKept DEF DemoInv, Control, PlainLines
<1>3. CASE ~Full(sensor_queue)
  <2>1. /\ Put(sensor_queue, sample)
        /\ Serve(<<"QUEUE_FULL", sensor_queue>>, "QUEUE_EMPTY")
        /\ UNCHANGED <<sem, mutex, received>>
        /\ line' = "signal"
    BY <1>1, <1>3 DEF rtos_queue_send, Does, AfterSend
  <2>2. pc' = "task" /\ Caller' = Sensor
    BY <1>1, <2>1, CallsStayInRun
  <2>3. Control'
    BY <1>1, <2>1, <2>2 DEF Control
  <2> PICK n \in 0 .. K : n = queue[sensor_queue].count
    BY CountInRing, DemoConstants
  <2>4. /\ queue'[sensor_queue].count = n + 1
        /\ \A k \in 1 .. n : (Contents(sensor_queue)')[k] = Contents(sensor_queue)[k]
        /\ (Contents(sensor_queue)')[n + 1] = sample
    BY <1>3, <2>1, SendAppends, DemoConstants DEF DemoTypes
  <2>5. /\ Holding = 0 /\ Uncounted = 0 /\ Ahead = 1
        /\ Holding' = 0 /\ Uncounted' = 1 /\ Ahead' = 0
    BY <1>1, <2>1 DEF Holding, Uncounted, Ahead
  <2>6. sample = After(logged, n + 0 + 1) /\ n + 0 + 1 = n + 1 /\ n \in Int
    BY <2>5, DemoConstants DEF DemoInv, Pipeline
  <2>7. ASSUME NEW k \in 1 .. n + 1
        PROVE  (Contents(sensor_queue)')[k] = After(logged, k + 0)
    <3>1. CASE k = n + 1
      <4>1. k + 0 = n + 1
        BY <2>6, <3>1
      <4> QED BY <2>4, <2>6, <3>1, <4>1
    <3>2. CASE k # n + 1
      <4>1. k \in 1 .. n
        BY <2>6, <3>2
      <4> QED BY <2>4, <2>5, <4>1 DEF DemoInv, Pipeline, InOrder
    <3> QED BY <3>1, <3>2
  <2>8. InOrder'
    BY <1>1, <2>4, <2>5, <2>7 DEF InOrder
  <2>9. sem'[data_ready] = n + 1 - 1
    BY <2>1, <2>5, <2>6 DEF DemoInv, Pipeline
  <2>10. sample' = After(logged, n + 1 + 0 + 0)
    <3>1. n + 1 + 0 + 0 = n + 1
      BY <2>6
    <3> QED BY <1>1, <2>6, <3>1
  <2>11. Pipeline'
    BY <1>1, <2>4, <2>5, <2>8, <2>9, <2>10 DEF DemoInv, Pipeline
  <2> QED BY <2>3, <2>11 DEF DemoInv
<1> QED BY <1>2, <1>3

(* The signal brings the semaphore level with the queue.                   *)
LEMMA SignalKeeps ==
    ASSUME PInv, DemoInv, Does(Sensor, "signal", Announce, "sleep"),
           sample' = After(sample, 1), UNCHANGED logged
    PROVE  DemoInv'
<1>1. /\ line = "signal" /\ line' = "sleep" /\ pc = "task"
      /\ ~mutex[uart_mutex].locked /\ rtos_sem_signal(data_ready)
  BY DEF Does, At, Announce, DemoInv, Control
<1>2. /\ sem' = [sem EXCEPT ![data_ready] = @ + 1]
      /\ Serve(NoResource, "SEMAPHORE")
      /\ UNCHANGED <<mutex, queue, received>>
  BY <1>1 DEF rtos_sem_signal
<1>3. pc' = "task"
  BY <1>1, <1>2, CallsStayInRun
<1>4. Control'
  BY <1>1, <1>2, <1>3 DEF Control
<1> PICK n \in 0 .. K : n = queue[sensor_queue].count
  BY CountInRing, DemoConstants
<1>5. /\ Holding = 0 /\ Uncounted = 1 /\ Ahead = 0
      /\ Holding' = 0 /\ Uncounted' = 0 /\ Ahead' = 1
  BY <1>1 DEF Holding, Uncounted, Ahead
<1>6. n \in Int /\ n \in 0 .. Samples - 1 /\ n + 0 + 0 = n /\ n + 0 + 1 = n + 1
  BY DemoConstants
<1>7. sem'[data_ready] = n - 0
  <2>1. sem[data_ready] = n - 1
    BY <1>5 DEF DemoInv, Pipeline
  <2>2. sem'[data_ready] = sem[data_ready] + 1
    BY <1>2, DemoConstants DEF PInv, PTypeOK
  <2> QED BY <1>6, <2>1, <2>2
<1> PICK l \in Messages : l = logged
  BY DEF DemoInv, Pipeline
<1>8. sample' = After(l, n + 0 + 1)
  <2>1. sample = After(l, n)
    BY <1>5, <1>6 DEF DemoInv, Pipeline
  <2>2. After(After(l, n), 1) = After(l, n + 1)
    BY <1>6, AfterTwice
  <2> QED BY <1>6, <2>1, <2>2
<1>9. Contents(sensor_queue)' = Contents(sensor_queue)
  BY <1>2 DEF Contents
<1>10. InOrder'
  BY <1>2, <1>5, <1>9 DEF DemoInv, Pipeline, InOrder
<1>11. Pipeline'
  BY <1>2, <1>5, <1>7, <1>8, <1>10 DEF DemoInv, Pipeline
<1> QED BY <1>4, <1>11 DEF DemoInv

(* A count claimed has its message.                                        *)
LEMMA WaitKeeps ==
    ASSUME PInv, DemoInv,
           Does(Logger, "start", rtos_sem_wait(data_ready),
                IF sem[data_ready] > 0 THEN "receive" ELSE "return"),
           KeepSamples
    PROVE  DemoInv'
<1>1. /\ line = "start" /\ pc = "task" /\ Caller = Logger
      /\ ~mutex[uart_mutex].locked
      /\ rtos_sem_wait(data_ready) /\ UNCHANGED <<sample, logged>>
  BY DEF Does, At, KeepSamples, DemoInv, Control
<1>0. sem[data_ready] \in Nat
  BY DemoConstants, PrimitivesAssumption DEF PInv, PTypeOK
<1>2. CASE sem[data_ready] <= 0
  <2>1. BlockOn(<<"SEMAPHORE", data_ready>>) /\ line' = "return"
    BY <1>0, <1>1, <1>2 DEF rtos_sem_wait, Does
  <2>2. pc' = "task"
    BY <1>1, <2>1, CallsStayInRun
  <2>3. UNCHANGED <<sem, mutex, queue, received>>
    BY <2>1 DEF BlockOn, objects
  <2> QED BY <1>1, <2>1, <2>2, <2>3, SamplesKept DEF DemoInv, Control, PlainLines
<1>3. CASE sem[data_ready] > 0
  <2>1. /\ sem' = [sem EXCEPT ![data_ready] = @ - 1]
        /\ Serve(<<"SEMAPHORE", data_ready>>, "NONE")
        /\ UNCHANGED <<mutex, queue, received>>
        /\ line' = "receive"
    BY <1>0, <1>1, <1>3 DEF rtos_sem_wait, Does
  <2>2. pc' = "task" /\ Caller' = Logger
    BY <1>1, <2>1, CallsStayInRun
  <2>3. Control'
    BY <1>1, <2>1, <2>2 DEF Control
  <2>4. /\ Holding = 0 /\ Uncounted = 0 /\ Ahead = 1
        /\ Holding' = 0 /\ Uncounted' = 1 /\ Ahead' = 1
    BY <1>1, <2>1 DEF Holding, Uncounted, Ahead
  <2> PICK n \in 0 .. K : n = queue[sensor_queue].count
    BY CountInRing, DemoConstants
  <2>5. sem'[data_ready] = n - 1
    <3>1. sem[data_ready] = n - 0 /\ n - 0 = n
      BY <2>4, DemoConstants DEF DemoInv, Pipeline
    <3>2. sem'[data_ready] = sem[data_ready] - 1
      BY <2>1, DemoConstants DEF PInv, PTypeOK
    <3> QED BY <3>1, <3>2
  <2>6. Contents(sensor_queue)' = Contents(sensor_queue)
    BY <2>1 DEF Contents
  <2>7. InOrder'
    BY <1>1, <2>1, <2>4, <2>6 DEF DemoInv, Pipeline, InOrder
  <2>8. Pipeline'
    BY <1>1, <2>1, <2>4, <2>5, <2>7 DEF DemoInv, Pipeline
  <2> QED BY <2>3, <2>8 DEF DemoInv
<1> QED BY <1>0, <1>2, <1>3

(* The message received is the sample after the last one stored.           *)
LEMMA ReceiveKeeps ==
    ASSUME PInv, DemoInv,
           Does(Logger, "receive", rtos_queue_receive(sensor_queue),
                IF Empty(sensor_queue) THEN "dropped" ELSE "lock"),
           KeepSamples
    PROVE  DemoInv'
<1>1. /\ line = "receive" /\ pc = "task" /\ Caller = Logger
      /\ ~mutex[uart_mutex].locked
      /\ rtos_queue_receive(sensor_queue) /\ UNCHANGED <<sample, logged>>
  BY DEF Does, At, KeepSamples, DemoInv, Control
<1> PICK n \in 0 .. K : n = queue[sensor_queue].count
  BY CountInRing, DemoConstants
<1>2. Holding = 0 /\ Uncounted = 1 /\ Ahead = 1
  BY <1>1 DEF Holding, Uncounted, Ahead
<1>3. sem[data_ready] = n - 1 /\ sem[data_ready] \in Nat /\ n \in Int
  BY <1>2, DemoConstants, PrimitivesAssumption DEF DemoInv, Pipeline, PInv, PTypeOK
<1>4. ~Empty(sensor_queue)
  BY <1>3 DEF Empty
<1>5. /\ received' = [received EXCEPT
             ![sensor_queue] = queue[sensor_queue].buffer[queue[sensor_queue].front]]
      /\ queue' = [queue EXCEPT ![sensor_queue].front = advance(@),
                                ![sensor_queue].count = @ - 1]
      /\ Serve(<<"QUEUE_EMPTY", sensor_queue>>, "QUEUE_FULL")
      /\ UNCHANGED <<sem, mutex>>
      /\ line' = "lock"
  BY <1>1, <1>4 DEF rtos_queue_receive, Does
<1>6. pc' = "task" /\ Caller' = Logger
  BY <1>1, <1>5, CallsStayInRun
<1>7. Control'
  BY <1>1, <1>5, <1>6 DEF Control
<1>8. /\ queue'[sensor_queue].count = n - 1
      /\ Contents(sensor_queue)[1] =
            queue[sensor_queue].buffer[queue[sensor_queue].front]
      /\ \A k \in 1 .. n - 1 :
            (Contents(sensor_queue)')[k] = Contents(sensor_queue)[k + 1]
  BY <1>4, <1>5, ReceiveTakes, DemoConstants
<1>9. Holding' = 1 /\ Uncounted' = 0 /\ Ahead' = 1
  BY <1>5 DEF Holding, Uncounted, Ahead
<1>10. received'[sensor_queue] = After(logged, 1)
  <2>1. 1 \in 1 .. n
    BY <1>3
  <2>2. Contents(sensor_queue)[1] = After(logged, 1)
    <3>1. Contents(sensor_queue)[1] = After(logged, 1 + 0) /\ 1 + 0 = 1
      BY <1>2, <2>1 DEF DemoInv, Pipeline, InOrder
    <3> QED BY <3>1
  <2>3. received'[sensor_queue] =
            queue[sensor_queue].buffer[queue[sensor_queue].front]
    BY <1>5, DemoConstants DEF PInv, PTypeOK
  <2> QED BY <1>8, <2>2, <2>3
<1>11. ASSUME NEW k \in 1 .. n - 1
       PROVE  (Contents(sensor_queue)')[k] = After(logged, k + 1)
  <2>1. k + 1 \in 1 .. n /\ k + 1 + 0 = k + 1
    BY <1>3
  <2>2. Contents(sensor_queue)[k + 1] = After(logged, k + 1 + 0)
    BY <1>2, <2>1 DEF DemoInv, Pipeline, InOrder
  <2> QED BY <1>8, <2>1, <2>2
<1>12. InOrder'
  BY <1>1, <1>8, <1>9, <1>11 DEF InOrder
<1>13. sem'[data_ready] = n - 1 - 0
  BY <1>3, <1>5
<1>14. sample' = After(logged', n - 1 + 1 + 1)
  <2>1. sample = After(logged, n + 0 + 1) /\ n + 0 + 1 = n - 1 + 1 + 1
    BY <1>2, <1>3 DEF DemoInv, Pipeline
  <2> QED BY <1>1, <2>1
<1>15. Pipeline'
  BY <1>1, <1>8, <1>9, <1>10, <1>12, <1>13, <1>14 DEF DemoInv, Pipeline
<1> QED BY <1>7, <1>15 DEF DemoInv

-----------------------------------------------------------------------------
LEMMA DemoInit == DInit => DemoInv
<1> SUFFICES ASSUME DInit PROVE DemoInv
  OBVIOUS
<1>1. /\ line = "start" /\ pc = "app" /\ queue[sensor_queue].count = 0
      /\ ~mutex[uart_mutex].locked
      /\ sem[data_ready] = 0 /\ sample = 0 /\ logged = Samples - 1
  BY DemoConstants DEF DInit, PInit, Init
<1>2. Holding = 0 /\ Uncounted = 0 /\ Ahead = 1
  BY <1>1 DEF Holding, Uncounted, Ahead
<1>3. After(logged, 0 + 0 + 1) = 0
  <2>1. logged \in Messages /\ 1 \in 0 .. Samples
    BY <1>1, DemoConstants
  <2>2. After(logged, 1) = IF logged + 1 < Samples THEN logged + 1
                           ELSE logged + 1 - Samples
    BY <2>1, AfterIs
  <2> QED BY <1>1, <2>2, DemoConstants
<1>4. Pipeline
  BY <1>1, <1>2, <1>3, DemoConstants DEF Pipeline, InOrder
<1> QED BY <1>1, <1>4 DEF DemoInv, Control

LEMMA DemoStepKeeps ==
    ASSUME PInv, DemoTypes, DemoInv, [DNext]_dVars
    PROVE  DemoInv'
<1>0. PTypeOK /\ {Sensor, Logger, Display} \subseteq Tasks
  BY DEF PInv, Sensor, Logger, Display, Tasks
<1>1. CASE sensor_task
  BY <1>0, <1>1, SendKeeps, SignalKeeps, SleepKeeps DEF sensor_task
<1>2. CASE logger_task
  BY <1>0, <1>2, WaitKeeps, ReceiveKeeps, LoggerLockKeeps, StoreKeeps, UnlockKeeps,
     SleepKeeps DEF logger_task
<1>3. CASE display_task
  BY <1>0, <1>3, DisplayLockKeeps, UnlockKeeps, SleepKeeps DEF display_task
<1>4. CASE UNCHANGED dVars
  BY <1>4 DEF dVars, pVars, vars, objects, DemoInv, Control, Pipeline, InOrder, Contents,
              Holding, Uncounted, Ahead, Caller
<1> QED BY <1>1, <1>2, <1>3, <1>4, MainKeeps, ReturnKeeps DEF DNext

LEMMA DemoInvariant == DSpec => []DemoInv
BY DemoInit, DemoStepKeeps, DemoInvariance, PTL DEF DSpec

(***************************************************************************)
(* main.c: between runs semaphore and queue agree, and the queue holds the *)
(* samples after the last one stored, in order and without a gap, up to    *)
(* the one the sensor sends next, whatever the sleeps, the priorities and  *)
(* the size of the queue; nobody sleeps with the mutex.                    *)
(***************************************************************************)
THEOREM PipelineIsExact == DSpec => []PipelineExact
<1>1. PInv /\ DemoInv => PipelineExact
  <2> SUFFICES ASSUME PInv, DemoInv, pc # "task" PROVE PipelineExact
    BY DEF PipelineExact
  <2> PICK n \in 0 .. K : n = queue[sensor_queue].count
    BY CountInRing, DemoConstants
  <2>1. line = "start" /\ n \in Int
    BY DemoConstants DEF DemoInv, Control
  <2>2. Holding = 0 /\ Uncounted = 0 /\ Ahead = 1
    BY <2>1 DEF Holding, Uncounted, Ahead
  <2>3. /\ sem[data_ready] = n
        /\ sample = After(logged, n + 1)
        /\ ~mutex[uart_mutex].locked
    <3>1. n - 0 = n /\ n + 0 + 1 = n + 1
      BY <2>1
    <3> QED BY <2>1, <2>2, <3>1 DEF DemoInv, Control, Pipeline
  <2>4. \A k \in 1 .. n : Contents(sensor_queue)[k] = After(logged, k)
    <3> SUFFICES ASSUME NEW k \in 1 .. n
                 PROVE  Contents(sensor_queue)[k] = After(logged, k)
      OBVIOUS
    <3>1. k + 0 = k
      BY <2>1
    <3> QED BY <2>2, <3>1 DEF DemoInv, Pipeline, InOrder
  <2>5. Contents(sensor_queue) = [k \in 1 .. n |-> Contents(sensor_queue)[k]]
    BY DEF Contents
  <2>6. Contents(sensor_queue) = [k \in 1 .. n |-> After(logged, k)]
    <3> HIDE DEF Contents, After
    <3> QED BY <2>4, <2>5
  <2> HIDE DEF Contents, After
  <2> QED BY <2>3, <2>6 DEF PipelineExact
<1> QED BY <1>1, DemoInvariance, DemoInvariant, PTL

(* main.c:31 and 35: after its semaphore wait the logger finds a message,  *)
(* and then the mutex free: it gives up nothing it has taken.              *)
THEOREM NothingIsDropped == DSpec => []LoggerDropsNothing
BY DemoInvariant, PTL DEF DemoInv, Control, LoggerDropsNothing

(* main.c has one semaphore, one mutex and one queue, so that no release   *)
(* in it passes by a task that waits for it.                               *)
THEOREM DemoLosesNoWakeup == DSpec => []NoLostWakeup
<1>1. OneOfAKind
  BY DemoAssumption DEF OneOfAKind
<1> QED
  BY <1>1, DemoImplementsPrimitives, NoWakeupIsLost, PTL DEF ImplementsPrimitives
=============================================================================
