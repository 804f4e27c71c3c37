----------------------------- MODULE MCHashMap -----------------------------
(* Instances of HashMap for TLC. *)
EXTENDS HashMap, TLC

(* Nodes 1 to 6; 1 and 2 share a key.  Hash codes collide in every table.  *)
SmallNodes == 1..6
SmallKeys == 1..5
SmallKeyOf == [n \in SmallNodes |-> IF n = 1 THEN 1 ELSE n - 1]
SmallHash == [k \in SmallKeys |-> IF k <= 3 THEN 0 ELSE k]

(* The server's own sizes: nodes are inserted until the third doubling that *)
(* one call of hm_help_resizing cannot finish, then nodes are deleted.      *)
ManyNodes == 1..288
Identity == [n \in ManyNodes |-> n]

Inserted == hmap.ht1.size + hmap.ht2.size

LastWas(op) == ret # None /\ ret[1] = op

FillThenDelete ==
  IF Inserted < 288 /\ ~LastWas("delete") THEN hm_insert(Inserted + 1)
  ELSE IF LastWas("insert") THEN \E k \in Key : hm_delete(k)
  ELSE Overrun \/ \E k \in Key : hm_lookup(k)

FillSpec == Init /\ [][FillThenDelete]_vars
=============================================================================
