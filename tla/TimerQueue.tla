---------------------------- MODULE TimerQueue ----------------------------
(***************************************************************************)
(* What the server needs of its heap: at most one deadline per entry, and  *)
(* the entry it expires next is one with the earliest deadline.            *)
(***************************************************************************)
EXTENDS Integers

CONSTANTS Ref, Deadline, NoDeadline

VARIABLES
  due,     \* due[r]: the deadline of entry r, or NoDeadline
  last     \* the last operation: "none", "put", "clear" or "fire"

vars == <<due, last>>

Init == /\ due = [r \in Ref |-> NoDeadline]
        /\ last = "none"

Put(r, d) == /\ due' = [due EXCEPT ![r] = d]
             /\ last' = "put"

Clear(r) == /\ due[r] # NoDeadline
            /\ due' = [due EXCEPT ![r] = NoDeadline]
            /\ last' = "clear"

Fire(r) == /\ due[r] # NoDeadline
           /\ \A s \in Ref : due[s] = NoDeadline \/ due[r] <= due[s]
           /\ due' = [due EXCEPT ![r] = NoDeadline]
           /\ last' = "fire"

Next == \E r \in Ref : Clear(r) \/ Fire(r) \/ \E d \in Deadline : Put(r, d)

Spec == Init /\ [][Next]_vars
=============================================================================
