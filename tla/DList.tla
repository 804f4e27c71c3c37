------------------------------- MODULE DList -------------------------------
(***************************************************************************)
(* The intrusive circular lists of DList.cpp: l gives the two pointers of  *)
(* every node, the head of the list among them.                            *)
(***************************************************************************)
EXTENDS Integers, SequencesExt

dList_init(l, node) == [l EXCEPT ![node] = [prev |-> node, next |-> node]]

dList_empty(l, node) == l[node].next = node

dlist_detach(l, node) ==
  [l EXCEPT ![l[node].prev].next = l[node].next, ![l[node].next].prev = l[node].prev]

(* Mutant of list_insert_before: the last assignment is forgotten. *)
InsertOneWay(l, target, node) ==
  [l EXCEPT ![l[target].prev].next = node,
            ![node] = [prev |-> l[target].prev, next |-> target]]

list_insert_before(l, target, node) ==
  [l EXCEPT ![l[target].prev].next = node,
            ![node] = [prev |-> l[target].prev, next |-> target],
            ![target].prev = node]

(* From head, both pointers go through the nodes of s and back to head.    *)
Circular(l, head, s) ==
  LET at(i) == IF i \in 1..Len(s) THEN s[i] ELSE head
  IN \A i \in 0..Len(s) : l[at(i)].next = at(i + 1) /\ l[at(i + 1)].prev = at(i)
=============================================================================
