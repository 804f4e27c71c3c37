------------------------------ MODULE JobPool ------------------------------
(***************************************************************************)
(* What thread_pool_queue promises its callers: every job queued is started *)
(* once, in the order the jobs were queued, and is eventually finished.    *)
(***************************************************************************)
EXTENDS Naturals, Sequences

CONSTANTS NumJobs   \* jobs are numbered in the order they are queued

VARIABLES pending, running, finished

vars == <<pending, running, finished>>

queued == {pending[i] : i \in 1..Len(pending)} \cup running \cup finished

Init == pending = <<>> /\ running = {} /\ finished = {}

Queue(j) ==
  /\ queued = 1..j - 1
  /\ pending' = Append(pending, j)
  /\ UNCHANGED <<running, finished>>

Start ==
  /\ pending # <<>>
  /\ running' = running \cup {Head(pending)}
  /\ pending' = Tail(pending)
  /\ UNCHANGED finished

Finish(j) ==
  /\ j \in running
  /\ running' = running \ {j}
  /\ finished' = finished \cup {j}
  /\ UNCHANGED pending

Next == Start \/ \E j \in 1..NumJobs : Queue(j) \/ Finish(j)

SafeSpec == Init /\ [][Next]_vars

Spec == SafeSpec /\ WF_vars(Start) /\ \A j \in 1..NumJobs : WF_vars(Finish(j))
=============================================================================
