------------------------------ MODULE KVStore ------------------------------
(***************************************************************************)
(* What the database promises a careful client: one binding per key, that  *)
(* a key goes away only by DEL or because a deadline it was given has      *)
(* passed, and that a deadline is only ever set by EXPIRE, in the future.  *)
(***************************************************************************)
EXTENDS Integers

CONSTANTS
  Key,
  Time,     \* the deadlines EXPIRE may set
  Absent,   \* no binding
  Never     \* a binding without a deadline

VARIABLES
  kv,     \* kv[k]: the type and deadline of key k, or Absent
  turn,   \* "io" while commands are served, "timers" while keys expire
  now

vars == <<kv, turn, now>>

Init == kv = [k \in Key |-> Absent] /\ turn = "io" /\ now = 0

Insert(k, type) ==
  /\ turn = "io"
  /\ kv[k] = Absent
  /\ kv' = [kv EXCEPT ![k] = [type |-> type, deadline |-> Never]]
  /\ UNCHANGED <<turn, now>>

Delete(k) ==
  /\ turn = "io"
  /\ kv[k] # Absent
  /\ kv' = [kv EXCEPT ![k] = Absent]
  /\ UNCHANGED <<turn, now>>

SetDeadline(k, d) ==
  /\ turn = "io"
  /\ kv[k] # Absent
  /\ d = Never \/ d >= now
  /\ kv' = [kv EXCEPT ![k].deadline = d]
  /\ UNCHANGED <<turn, now>>

(* The last key of a pass may end it: turn is then the client's. *)
Evict(k) ==
  /\ turn = "timers"
  /\ kv[k] # Absent
  /\ kv[k].deadline # Never /\ kv[k].deadline < now
  /\ kv' = [kv EXCEPT ![k] = Absent]
  /\ turn' \in {"io", "timers"}
  /\ UNCHANGED now

Switch == turn' \in {"io", "timers"} \ {turn} /\ UNCHANGED <<kv, now>>

Advance == now' = now + 1 /\ UNCHANGED <<kv, turn>>

Next ==
  \/ \E k \in Key :
       \/ \E type \in {"string", "zset"} : Insert(k, type)
       \/ Delete(k)
       \/ Evict(k)
       \/ \E d \in Time \cup {Never} : SetDeadline(k, d)
  \/ Switch
  \/ Advance

Spec == Init /\ [][Next]_vars
=============================================================================
