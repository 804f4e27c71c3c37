----------------------------- MODULE ThreadPool -----------------------------
(***************************************************************************)
(* The thread pool (thread.cpp): worker threads that take jobs from a      *)
(* queue under a mutex and sleep on a condition variable while the queue   *)
(* is empty, and one thread, the server's, that queues jobs.               *)
(*                                                                         *)
(* A step is one call of the pthread library or one operation on the       *)
(* queue.  The condition variable follows POSIX: a wait releases the mutex *)
(* and goes to sleep in one step, a signal wakes at least one sleeping     *)
(* thread, and a thread may wake up without a signal.                      *)
(***************************************************************************)
EXTENDS Integers, Sequences, FiniteSets

CONSTANTS
  Worker,     \* the threads of tp->threads
  Main,       \* the thread that calls thread_pool_queue
  Free,       \* the owner of a mutex nobody has locked
  NumJobs     \* jobs are numbered in the order they are queued

ASSUME ThreadPoolAssumption ==
  /\ IsFiniteSet(Worker) /\ Worker # {}
  /\ Main \notin Worker /\ Free \notin Worker \cup {Main}
  /\ NumJobs \in Nat

VARIABLES
  queue,      \* tp->queue
  mu,         \* tp->mu: the thread that has locked it, or Free
  asleep,     \* the workers sleeping in pthread_cond_wait(&tp->not_empty)
  pc,         \* where each worker is
  w,          \* the local variable w of each worker: its last job, or 0
  mpc,        \* where the main thread is
  next,       \* the next job to be queued
  done        \* the jobs that have been run

vars == <<queue, mu, asleep, pc, w, mpc, next, done>>

Init ==
  /\ queue = <<>>
  /\ mu = Free
  /\ asleep = {}
  /\ pc = [t \in Worker |-> "lock"]
  /\ w = [t \in Worker |-> 0]
  /\ mpc = "idle"
  /\ next = 1
  /\ done = {}

-----------------------------------------------------------------------------
(* worker: also how a woken thread gets the mutex back inside the wait. *)
Lock(t) ==
  /\ pc[t] = "lock" /\ mu = Free
  /\ mu' = t
  /\ pc' = [pc EXCEPT ![t] = "check"]
  /\ UNCHANGED <<queue, asleep, w, mpc, next, done>>

Wait(t) ==
  /\ pc[t] = "check" /\ queue = <<>>
  /\ mu' = Free
  /\ asleep' = asleep \cup {t}
  /\ pc' = [pc EXCEPT ![t] = "asleep"]
  /\ UNCHANGED <<queue, w, mpc, next, done>>

(* Mutant of Wake: the wait returns without the mutex. *)
WakeUnlocked(t) ==
  /\ t \in asleep
  /\ asleep' = asleep \ {t}
  /\ pc' = [pc EXCEPT ![t] = "check"]
  /\ UNCHANGED <<queue, mu, w, mpc, next, done>>

(* A wake-up without a signal. *)
Wake(t) ==
  /\ t \in asleep
  /\ asleep' = asleep \ {t}
  /\ pc' = [pc EXCEPT ![t] = "lock"]
  /\ UNCHANGED <<queue, mu, w, mpc, next, done>>

(* Mutant of Take: no test for an empty queue, whose front is garbage. *)
TakeUntested(t) ==
  /\ pc[t] = "check"
  /\ w' = [w EXCEPT ![t] = IF queue = <<>> THEN -1 ELSE Head(queue)]
  /\ queue' = IF queue = <<>> THEN queue ELSE Tail(queue)
  /\ pc' = [pc EXCEPT ![t] = "unlock"]
  /\ UNCHANGED <<mu, asleep, mpc, next, done>>

Take(t) ==
  /\ pc[t] = "check" /\ queue # <<>>
  /\ w' = [w EXCEPT ![t] = Head(queue)]
  /\ queue' = Tail(queue)
  /\ pc' = [pc EXCEPT ![t] = "unlock"]
  /\ UNCHANGED <<mu, asleep, mpc, next, done>>

Unlock(t) ==
  /\ pc[t] = "unlock"
  /\ mu' = Free
  /\ pc' = [pc EXCEPT ![t] = "run"]
  /\ UNCHANGED <<queue, asleep, w, mpc, next, done>>

Run(t) ==
  /\ pc[t] = "run"
  /\ done' = done \cup {w[t]}
  /\ pc' = [pc EXCEPT ![t] = "lock"]
  /\ UNCHANGED <<queue, mu, asleep, w, mpc, next>>

worker(t) == Lock(t) \/ Wait(t) \/ Take(t) \/ Unlock(t) \/ Run(t)

-----------------------------------------------------------------------------
(* thread_pool_queue *)
QueueLock ==
  /\ mpc = "idle" /\ next <= NumJobs /\ mu = Free
  /\ mu' = Main
  /\ mpc' = "push"
  /\ UNCHANGED <<queue, asleep, pc, w, next, done>>

Push ==
  /\ mpc = "push"
  /\ queue' = Append(queue, next)
  /\ next' = next + 1
  /\ mpc' = "signal"
  /\ UNCHANGED <<mu, asleep, pc, w, done>>

WakeAll(S) ==
  /\ asleep' = asleep \ S
  /\ pc' = [t \in Worker |-> IF t \in S THEN "lock" ELSE pc[t]]

(* Mutant of Signal: only the first job of an empty queue is signalled. *)
SignalIfFirst ==
  /\ mpc = "signal"
  /\ \E S \in SUBSET asleep : (asleep # {} /\ Len(queue) = 1 => S # {}) /\ WakeAll(S)
  /\ mpc' = "unlock"
  /\ UNCHANGED <<queue, mu, w, next, done>>

(* Mutant of Signal: forgotten. *)
SignalForgotten ==
  /\ mpc = "signal"
  /\ mpc' = "unlock"
  /\ UNCHANGED <<queue, mu, asleep, pc, w, next, done>>

Signal ==
  /\ mpc = "signal"
  /\ \E S \in SUBSET asleep : (asleep # {} => S # {}) /\ WakeAll(S)
  /\ mpc' = "unlock"
  /\ UNCHANGED <<queue, mu, w, next, done>>

QueueUnlock ==
  /\ mpc = "unlock"
  /\ mu' = Free
  /\ mpc' = "idle"
  /\ UNCHANGED <<queue, asleep, pc, w, next, done>>

thread_pool_queue == QueueLock \/ Push \/ Signal \/ QueueUnlock

-----------------------------------------------------------------------------
Next == thread_pool_queue \/ \E t \in Worker : worker(t) \/ Wake(t)

Spec == Init /\ [][Next]_vars

(* The operating system runs every thread that can run; nothing forces a   *)
(* spurious wake-up or another job.  Blocking in pthread_mutex_lock is not *)
(* assumed to be fair beyond that: a mutex that is free for good is taken. *)
FairSpec ==
  /\ Spec
  /\ \A t \in Worker : WF_vars(worker(t))
  /\ WF_vars(Push \/ Signal \/ QueueUnlock)
-----------------------------------------------------------------------------
TypeOK ==
  /\ queue \in Seq(1..NumJobs)
  /\ mu \in Worker \cup {Main, Free}
  /\ asleep \subseteq Worker
  /\ pc \in [Worker -> {"lock", "check", "asleep", "unlock", "run"}]
  /\ w \in [Worker -> 0..NumJobs]
  /\ mpc \in {"idle", "push", "signal", "unlock"}
  /\ next \in 1..NumJobs + 1
  /\ done \subseteq 1..NumJobs

(* The queue is a std::deque, which two threads must not touch at once:    *)
(* whoever is about to read or change it has the mutex.                    *)
QueueGuarded ==
  /\ \A t \in Worker : pc[t] \in {"check", "unlock"} <=> mu = t
  /\ mpc # "idle" <=> mu = Main

(* No signal is lost (thread.cpp:25-27, 58-60): whenever some worker       *)
(* sleeps, at least as many workers are awake, and will look at the queue  *)
(* again, as there are jobs in it.  The job just pushed is the exception   *)
(* until it is signalled.                                                  *)
Awake == Worker \ asleep
NoLostSignal ==
  asleep # {} =>
    Len(queue) <= Cardinality(Awake) + (IF mpc = "signal" THEN 1 ELSE 0)

Busy == {t \in Worker : pc[t] \in {"unlock", "run"}}

Pool == INSTANCE JobPool WITH
  pending  <- queue,
  running  <- {w[t] : t \in Busy},
  finished <- done

(* Every job is started once, first queued first started, and under        *)
(* FairSpec it is finished: the pool frees every sorted set it is given.   *)
ImplementsJobPool == Pool!Spec
=============================================================================
