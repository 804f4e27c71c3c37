-------------------------- MODULE ThreadPoolProofs --------------------------
(***************************************************************************)
(* Proofs about ThreadPool for any number of workers and jobs: types, the  *)
(* mutex around the queue, that no signal is lost, and that the pool       *)
(* implements the safety part of JobPool.                                  *)
(***************************************************************************)
EXTENDS ThreadPool, FiniteSetTheorems, TLAPS

(* A thread sleeps where its pc says, a job is only pushed while there is  *)
(* one, and a busy worker's w is a job.                                    *)
Places ==
  /\ asleep = {t \in Worker : pc[t] = "asleep"}
  /\ mpc = "push" => next <= NumJobs
  /\ \A t \in Busy : w[t] # 0

Inv == TypeOK /\ QueueGuarded /\ Places /\ NoLostSignal

LEMMA InitInv == Init => Inv
<1> SUFFICES ASSUME Init PROVE Inv
  OBVIOUS
<1> USE ThreadPoolAssumption DEF Init
<1>1. TypeOK
  BY DEF TypeOK
<1>2. QueueGuarded
  BY DEF QueueGuarded
<1>3. Places
  BY DEF Places, Busy
<1>4. NoLostSignal
  BY DEF NoLostSignal
<1> QED
  BY <1>1, <1>2, <1>3, <1>4 DEF Inv

(* More workers awake are at least as many. *)
LEMMA AwakeGrows ==
  ASSUME NEW A \in SUBSET Worker, NEW B \in SUBSET A
  PROVE  /\ Cardinality(Worker \ A) \in Nat
         /\ Cardinality(Worker \ B) \in Nat
         /\ Cardinality(Worker \ A) <= Cardinality(Worker \ B)
         /\ A # B => Cardinality(Worker \ A) + 1 <= Cardinality(Worker \ B)
<1>1. IsFiniteSet(Worker)
  BY ThreadPoolAssumption
<1>2. IsFiniteSet(Worker \ B) /\ IsFiniteSet(Worker \ A)
  BY <1>1, FS_Subset
<1>3. Cardinality(Worker \ B) \in Nat /\ Cardinality(Worker \ A) \in Nat
  BY <1>2, FS_CardinalityType
<1>4. /\ Cardinality(Worker \ A) <= Cardinality(Worker \ B)
      /\ Cardinality(Worker \ A) = Cardinality(Worker \ B) => Worker \ A = Worker \ B
  <2>1. Worker \ A \in SUBSET (Worker \ B)
    OBVIOUS
  <2>2. \A T \in SUBSET (Worker \ B) :
           /\ Cardinality(T) <= Cardinality(Worker \ B)
           /\ Cardinality(Worker \ B) = Cardinality(T) => Worker \ B = T
    BY <1>2, FS_Subset
  <2> QED
    BY <2>1, <2>2
<1>5. A # B => Worker \ A # Worker \ B
  OBVIOUS
<1> QED
  BY <1>3, <1>4, <1>5

LEMMA NextTypes ==
  ASSUME Inv, [Next]_vars
  PROVE  TypeOK' /\ QueueGuarded' /\ Places'
<1> USE ThreadPoolAssumption DEF Inv, TypeOK, QueueGuarded, Places, Busy
<1>1. CASE QueueLock
  BY <1>1 DEF QueueLock
<1>2. CASE Push
  BY <1>2 DEF Push
<1>3. CASE Signal
  BY <1>3 DEF Signal, WakeAll
<1>4. CASE QueueUnlock
  BY <1>4 DEF QueueUnlock
<1>5. ASSUME NEW t \in Worker, Lock(t)
      PROVE  TypeOK' /\ QueueGuarded' /\ Places'
  BY <1>5 DEF Lock
<1>6. ASSUME NEW t \in Worker, Wait(t)
      PROVE  TypeOK' /\ QueueGuarded' /\ Places'
  BY <1>6 DEF Wait
<1>7. ASSUME NEW t \in Worker, Take(t)
      PROVE  TypeOK' /\ QueueGuarded' /\ Places'
  BY <1>7 DEF Take
<1>8. ASSUME NEW t \in Worker, Unlock(t)
      PROVE  TypeOK' /\ QueueGuarded' /\ Places'
  BY <1>8 DEF Unlock
<1>9. ASSUME NEW t \in Worker, Run(t)
      PROVE  TypeOK' /\ QueueGuarded' /\ Places'
  <2>1. pc[t] = "run" /\ t \in Busy /\ w[t] \in 1..NumJobs
    BY <1>9 DEF Run
  <2>2. done' \subseteq 1..NumJobs
    BY <1>9, <2>1 DEF Run
  <2>3. pc' \in [Worker -> {"lock", "check", "asleep", "unlock", "run"}]
    BY <1>9 DEF Run
  <2>4. TypeOK'
    BY <1>9, <2>2, <2>3 DEF Run
  <2>5. QueueGuarded' /\ Places'
    BY <1>9, <2>1 DEF Run
  <2> QED
    BY <2>4, <2>5
<1>10. ASSUME NEW t \in Worker, Wake(t)
       PROVE  TypeOK' /\ QueueGuarded' /\ Places'
  BY <1>10 DEF Wake
<1>11. CASE UNCHANGED vars
  BY <1>11 DEF vars
<1> QED
  BY <1>1, <1>2, <1>3, <1>4, <1>5, <1>6, <1>7, <1>8, <1>9, <1>10, <1>11
  DEF Next, worker, thread_pool_queue

(* Only Push makes the queue longer and only Wait puts a worker to sleep,  *)
(* when there is nothing in the queue.                                     *)
LEMMA NextNoLostSignal ==
  ASSUME Inv, [Next]_vars
  PROVE  NoLostSignal'
<1> USE DEF Inv, TypeOK, NoLostSignal, Awake
<1>0. /\ asleep \in SUBSET Worker
      /\ Cardinality(Worker \ asleep) \in Nat
      /\ Len(queue) \in Nat
  <2>1. asleep \in SUBSET Worker /\ asleep \in SUBSET asleep /\ Len(queue) \in Nat
    OBVIOUS
  <2> QED
    BY <2>1, AwakeGrows
<1>1. CASE QueueLock
  BY <1>0, <1>1 DEF QueueLock
<1>2. CASE Push
  <2>1. Len(queue') = Len(queue) + 1
    BY <1>2 DEF Push
  <2> QED
    BY <1>0, <1>2, <2>1 DEF Push
<1>3. CASE Signal
  <2>1. PICK S \in SUBSET asleep : (asleep # {} => S # {}) /\ asleep' = asleep \ S
    BY <1>3 DEF Signal, WakeAll
  <2>2. CASE asleep = {}
    BY <2>1, <2>2
  <2>3. CASE asleep # {}
    <3>1. asleep' \in SUBSET asleep /\ asleep' # asleep
      BY <2>1, <2>3
    <3>2. /\ Cardinality(Worker \ asleep') \in Nat
          /\ Cardinality(Worker \ asleep) + 1 <= Cardinality(Worker \ asleep')
      BY <1>0, <3>1, AwakeGrows
    <3>3. mpc = "signal" /\ queue' = queue
      BY <1>3 DEF Signal
    <3> QED
      BY <1>0, <2>3, <3>2, <3>3
  <2> QED
    BY <2>2, <2>3
<1>4. CASE QueueUnlock
  BY <1>0, <1>4 DEF QueueUnlock
<1>5. ASSUME NEW t \in Worker, Lock(t)
      PROVE  NoLostSignal'
  BY <1>0, <1>5 DEF Lock
<1>6. ASSUME NEW t \in Worker, Wait(t)
      PROVE  NoLostSignal'
  <2>1. asleep' \in SUBSET Worker /\ Len(queue') = 0
    BY <1>6 DEF Wait
  <2>2. Cardinality(Worker \ asleep') \in Nat
    BY <2>1, AwakeGrows
  <2> QED
    BY <2>1, <2>2
<1>7. ASSUME NEW t \in Worker, Take(t)
      PROVE  NoLostSignal'
  <2>1. Len(queue') = Len(queue) - 1
    BY <1>7 DEF Take
  <2> QED
    BY <1>0, <1>7, <2>1 DEF Take
<1>8. ASSUME NEW t \in Worker, Unlock(t)
      PROVE  NoLostSignal'
  BY <1>0, <1>8 DEF Unlock
<1>9. ASSUME NEW t \in Worker, Run(t)
      PROVE  NoLostSignal'
  BY <1>0, <1>9 DEF Run
<1>10. ASSUME NEW t \in Worker, Wake(t)
       PROVE  NoLostSignal'
  <2>1. asleep' \in SUBSET asleep /\ queue' = queue /\ mpc' = mpc
    BY <1>10 DEF Wake
  <2>2. /\ Cardinality(Worker \ asleep') \in Nat
        /\ Cardinality(Worker \ asleep) <= Cardinality(Worker \ asleep')
    BY <1>0, <2>1, AwakeGrows
  <2>3. asleep' # {} => asleep # {}
    BY <2>1
  <2> QED
    BY <1>0, <2>1, <2>2, <2>3
<1>11. CASE UNCHANGED vars
  BY <1>11 DEF vars
<1> QED
  BY <1>1, <1>2, <1>3, <1>4, <1>5, <1>6, <1>7, <1>8, <1>9, <1>10, <1>11
  DEF Next, worker, thread_pool_queue

THEOREM InvHolds == Spec => []Inv
<1>1. Inv /\ [Next]_vars => Inv'
  BY NextTypes, NextNoLostSignal DEF Inv
<1> QED
  BY InitInv, <1>1, PTL DEF Spec

(* Every variable has its type: in particular no worker ever takes a job   *)
(* from an empty queue (thread.cpp:25-30).                                 *)
THEOREM TypeCorrect == Spec => []TypeOK
<1>1. Inv => TypeOK
  BY DEF Inv
<1> QED
  BY InvHolds, <1>1, PTL

(* The queue is read and changed only by the thread that has the mutex.    *)
THEOREM MutexGuardsQueue == Spec => []QueueGuarded
<1>1. Inv => QueueGuarded
  BY DEF Inv
<1> QED
  BY InvHolds, <1>1, PTL

(* While a worker sleeps there are as many workers awake as jobs in the    *)
(* queue (thread.cpp:25-27, 58-60), with any number of workers and with    *)
(* signals that wake more than one.                                        *)
THEOREM SignalsNotLost == Spec => []NoLostSignal
<1>1. Inv => NoLostSignal
  BY DEF Inv
<1> QED
  BY InvHolds, <1>1, PTL

-----------------------------------------------------------------------------
(* The jobs queued, next - 1 of them, are the ones taken, then the ones in *)
(* the queue, in order; no two busy workers have the same one.             *)
Running == {w[t] : t \in Busy}
Taken == next - 1 - Len(queue)

Jobs ==
  /\ Taken \in Nat
  /\ \A i \in 1..Len(queue) : queue[i] = Taken + i
  /\ Running \cup done = 1..Taken
  /\ \A t, u \in Busy : w[t] = w[u] => t = u
  /\ Running \cap done = {}

(* A job is pushed at the end. *)
LEMMA PushJobs ==
  ASSUME TypeOK, Places, Jobs, Push
  PROVE  Jobs' /\ Pool!Queue(next) /\ next \in 1..NumJobs
<1> USE DEF Push, TypeOK
<1>1. /\ queue' \in Seq(Nat) /\ Len(queue') = Len(queue) + 1
      /\ \A i \in 1..Len(queue) : queue'[i] = queue[i]
      /\ queue'[Len(queue) + 1] = next
  <2>1. queue \in Seq(Nat) /\ next \in Nat /\ queue' = Append(queue, next)
    BY ThreadPoolAssumption
  <2> HIDE DEF Push, TypeOK
  <2> QED
    BY <2>1
<1>2. Taken' = Taken /\ Len(queue) \in Nat /\ Taken + Len(queue) = next - 1
  BY <1>1 DEF Taken
<1>3. Busy' = Busy /\ Running' = Running /\ done' = done /\ w' = w
  BY DEF Busy, Running
<1>4. \A i \in 1..Len(queue') : queue'[i] = Taken + i
  <2>1. /\ Taken \in Nat /\ next \in Int
        /\ \A i \in 1..Len(queue) : queue[i] = Taken + i
    BY DEF Jobs
  <2>2. ASSUME NEW i \in 1..Len(queue')
        PROVE  queue'[i] = Taken + i
    <3>1. CASE i \in 1..Len(queue)
      BY <1>1, <2>1, <3>1
    <3>2. CASE i = Len(queue) + 1
      <4>1. Taken + (Len(queue) + 1) = next
        BY <1>2, <2>1
      <4> QED
        BY <1>1, <3>2, <4>1
    <3> QED
      BY <1>1, <1>2, <3>1, <3>2
  <2> QED
    BY <2>2
<1>5. Jobs'
  BY <1>2, <1>3, <1>4 DEF Jobs
<1>6. Pool!queued = 1..next - 1
  <2>1. {queue[i] : i \in 1..Len(queue)} = Taken + 1..next - 1
    <3>1. /\ Taken \in Nat /\ next \in Nat
          /\ \A i \in 1..Len(queue) : queue[i] = Taken + i
      BY ThreadPoolAssumption DEF Jobs
    <3> HIDE DEF Push, TypeOK, Taken
    <3>2. ASSUME NEW j \in Taken + 1..next - 1
          PROVE  \E i \in 1..Len(queue) : queue[i] = j
      <4>1. j - Taken \in 1..Len(queue) /\ Taken + (j - Taken) = j
        BY <1>2, <3>1
      <4> QED
        BY <3>1, <4>1
    <3>3. \A i \in 1..Len(queue) : queue[i] \in Taken + 1..next - 1
      <4>1. \A i \in 1..Len(queue) : Taken + i \in Taken + 1..next - 1
        BY <1>2, <3>1
      <4> QED
        BY <3>1, <4>1
    <3> QED
      BY <3>2, <3>3
  <2>2. Pool!queued = {queue[i] : i \in 1..Len(queue)} \cup Running \cup done
    BY DEF Pool!queued, Running
  <2>3. Running \cup done = 1..Taken
    BY DEF Jobs
  <2>4. 1..next - 1 = (Taken + 1..next - 1) \cup (1..Taken)
    BY <1>2 DEF Jobs
  <2> QED
    BY <2>1, <2>2, <2>3, <2>4
<1>7. next \in 1..NumJobs
  BY ThreadPoolAssumption DEF Places
<1>8. /\ queue' = Append(queue, next)
      /\ {w'[t] : t \in Busy'} = {w[t] : t \in Busy}
      /\ done' = done
  BY <1>3
<1> QED
  BY <1>5, <1>6, <1>7, <1>8 DEF Pool!Queue

(* A worker takes the first job in the queue. *)
LEMMA TakeJobs ==
  ASSUME TypeOK, Jobs, NEW t \in Worker, Take(t)
  PROVE  Jobs' /\ Pool!Start
<1> USE DEF Take, TypeOK
<1>1. /\ queue # <<>> /\ queue' = Tail(queue)
      /\ Len(queue) \in Nat /\ Len(queue') = Len(queue) - 1
      /\ \A i \in 1..Len(queue') : queue'[i] = queue[i + 1]
      /\ Head(queue) = queue[1] /\ 1 \in 1..Len(queue)
  OBVIOUS
<1>2. Taken' = Taken + 1 /\ Taken \in Nat /\ Head(queue) = Taken + 1
  BY <1>1 DEF Taken, Jobs
<1>3. /\ t \notin Busy /\ Busy' = Busy \cup {t}
      /\ \A u \in Busy : w'[u] = w[u]
      /\ w'[t] = Head(queue)
  BY DEF Busy
<1>4. Running' = Running \cup {Head(queue)}
  BY <1>3 DEF Running
<1>5. \A i \in 1..Len(queue') : queue'[i] = Taken' + i
  BY <1>1, <1>2 DEF Jobs
<1>6. Running \cup done = 1..Taken /\ done' = done
  BY DEF Jobs
<1>7. Running' \cup done' = 1..Taken'
  BY <1>2, <1>4, <1>6
<1>8. \A u \in Busy : w[u] \in 1..Taken
  BY <1>6 DEF Running
<1>9. \A u, v \in Busy' : w'[u] = w'[v] => u = v
  BY <1>2, <1>3, <1>8 DEF Jobs
<1>10. Running' \cap done' = {}
  BY <1>2, <1>4, <1>6 DEF Jobs
<1>11. Jobs'
  BY <1>2, <1>5, <1>7, <1>9, <1>10 DEF Jobs
<1>12. Pool!Start
  BY <1>1, <1>4, <1>6 DEF Pool!Start, Running
<1> QED
  BY <1>11, <1>12

(* A worker's job is run. *)
LEMMA RunJobs ==
  ASSUME TypeOK, Jobs, NEW t \in Worker, Run(t)
  PROVE  Jobs' /\ \E j \in 1..NumJobs : Pool!Finish(j)
<1> USE DEF Run, TypeOK
<1>1. t \in Busy /\ Busy' = Busy \ {t} /\ w' = w /\ queue' = queue /\ next' = next
  BY DEF Busy
<1>2. Running' = Running \ {w[t]}
  BY <1>1 DEF Running, Jobs
<1>3. w[t] \in Running /\ done' = done \cup {w[t]}
  BY <1>1 DEF Running
<1>4. Taken' = Taken
  BY <1>1 DEF Taken
<1>5. Running' \cup done' = Running \cup done /\ (Running \cap done = {} => Running' \cap done' = {})
  BY <1>2, <1>3
<1>6. Jobs'
  BY <1>1, <1>4, <1>5 DEF Jobs
<1>7. w[t] \in 1..NumJobs
  <2>1. w[t] \in 1..Taken /\ Taken \in Nat /\ Taken <= next - 1
    BY <1>3 DEF Jobs, Taken
  <2> QED
    BY <2>1, ThreadPoolAssumption
<1>8. PICK j \in 1..NumJobs : j = w[t]
  BY <1>7
<1>9. Pool!Finish(j)
  BY <1>1, <1>2, <1>3, <1>8 DEF Pool!Finish, Running
<1> QED
  BY <1>6, <1>9

(* Every other step leaves the jobs alone. *)
LEMMA OtherStepsJobs ==
  ASSUME TypeOK, Jobs, UNCHANGED <<queue, w, next, done>>, Busy' = Busy
  PROVE  Jobs' /\ UNCHANGED Pool!vars
<1>1. Running' = Running /\ Taken' = Taken
  BY DEF Running, Taken
<1>2. Jobs'
  BY <1>1 DEF Jobs
<1>3. UNCHANGED Pool!vars
  BY <1>1 DEF Pool!vars, Running
<1> QED
  BY <1>2, <1>3

LEMMA NextJobs ==
  ASSUME Inv, Jobs, [Next]_vars
  PROVE  Jobs' /\ [Pool!Next]_(Pool!vars)
<1>0. TypeOK /\ Places
  BY DEF Inv
<1>1. CASE Push
  BY <1>0, <1>1, PushJobs DEF Pool!Next
<1>2. ASSUME NEW t \in Worker, Take(t)
      PROVE  Jobs' /\ [Pool!Next]_(Pool!vars)
  BY <1>0, <1>2, TakeJobs DEF Pool!Next
<1>3. ASSUME NEW t \in Worker, Run(t)
      PROVE  Jobs' /\ [Pool!Next]_(Pool!vars)
  <2>1. Jobs' /\ \E j \in 1..NumJobs : Pool!Finish(j)
    BY <1>0, <1>3, RunJobs
  <2>2. Pool!Next
    BY <2>1 DEF Pool!Next
  <2> QED
    BY <2>1, <2>2
<1>4. CASE QueueLock \/ QueueUnlock \/ UNCHANGED vars
  <2>1. UNCHANGED <<queue, w, next, done>> /\ Busy' = Busy
    BY <1>4 DEF QueueLock, QueueUnlock, vars, Busy
  <2> QED
    BY <1>0, <2>1, OtherStepsJobs
<1>5. CASE Signal
  <2>1. UNCHANGED <<queue, w, next, done>>
    BY <1>5 DEF Signal
  <2>2. PICK S \in SUBSET asleep : pc' = [t \in Worker |-> IF t \in S THEN "lock" ELSE pc[t]]
    BY <1>5 DEF Signal, WakeAll
  <2>3. \A t \in S : pc[t] = "asleep"
    BY <1>0 DEF Places
  <2>4. Busy' = Busy
    BY <2>2, <2>3 DEF Busy
  <2> QED
    BY <1>0, <2>1, <2>4, OtherStepsJobs
<1>6. ASSUME NEW t \in Worker, Lock(t) \/ Wait(t) \/ Unlock(t) \/ Wake(t)
      PROVE  Jobs' /\ [Pool!Next]_(Pool!vars)
  <2>1. UNCHANGED <<queue, w, next, done>>
    BY <1>6 DEF Lock, Wait, Unlock, Wake
  <2>2. Busy' = Busy
    BY <1>0, <1>6 DEF Lock, Wait, Unlock, Wake, Busy, TypeOK, Places
  <2> QED
    BY <1>0, <2>1, <2>2, OtherStepsJobs
<1> QED
  BY <1>1, <1>2, <1>3, <1>4, <1>5, <1>6 DEF Next, worker, thread_pool_queue

(* Every job queued is taken by one worker, run once, and taken in the     *)
(* order of the calls of thread_pool_queue (thread.cpp:20-36, 53-61).      *)
THEOREM ImplementsJobPoolSafety == Spec => Pool!SafeSpec
<1>1. Init => Jobs /\ Pool!Init
  <2> SUFFICES ASSUME Init PROVE Jobs /\ Pool!Init
    OBVIOUS
  <2>1. Busy = {} /\ Running = {}
    BY DEF Init, Busy, Running
  <2>2. Taken = 0 /\ Len(queue) = 0 /\ done = {}
    <3>1. next = 1 /\ Len(queue) = 0 /\ done = {}
      BY DEF Init
    <3> QED
      BY <3>1 DEF Taken
  <2>3. Jobs
    BY <2>1, <2>2 DEF Jobs
  <2>4. Pool!Init
    BY <2>1 DEF Init, Pool!Init, Running
  <2> QED
    BY <2>3, <2>4
<1>2. Inv /\ Jobs /\ [Next]_vars => Jobs' /\ [Pool!Next]_(Pool!vars)
  BY NextJobs
<1> QED
  BY <1>1, <1>2, InvHolds, PTL DEF Spec, Pool!SafeSpec
=============================================================================
