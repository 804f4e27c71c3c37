------------------------------ MODULE NodeSet ------------------------------
(***************************************************************************)
(* What callers of the hash table rely on: a set of nodes in which lookups *)
(* and deletions by key find a node with that key whenever there is one,   *)
(* and the KEYS command lists every node once.                             *)
(***************************************************************************)
CONSTANTS Node, Key, KeyOf, None

VARIABLES
  nodes,   \* the nodes in the table
  ret,     \* the last operation, its key and what it found: a node or None
  listed   \* the nodes a KEYS command would list

vars == <<nodes, ret, listed>>

With(k) == {n \in nodes : KeyOf[n] = k}

Init == nodes = {} /\ ret = None /\ listed = {}

Insert(n) == /\ n \notin nodes
             /\ nodes' = nodes \cup {n}
             /\ ret' = <<"insert", KeyOf[n], n>>

(* The result of a search for k: a node with that key, or None. *)
Finds(k, n) == IF With(k) = {} THEN n = None ELSE n \in With(k)

Lookup(k) == /\ \E n \in Node \cup {None} : Finds(k, n) /\ ret' = <<"lookup", k, n>>
             /\ UNCHANGED nodes

Delete(k) == \E n \in Node \cup {None} :
               /\ Finds(k, n)
               /\ ret' = <<"delete", k, n>>
               /\ nodes' = nodes \ {n}

Next == /\ \/ \E n \in Node : Insert(n)
           \/ \E k \in Key : Lookup(k) \/ Delete(k)
        /\ listed' = nodes'

Spec == Init /\ [][Next]_vars
=============================================================================
