------------------------------ MODULE HashMap ------------------------------
(***************************************************************************)
(* The chained hash table with progressive rehashing (hashtable.cpp).      *)
(*                                                                         *)
(* ht1 is the table in use.  When it gets too full it becomes ht2 and a    *)
(* table of twice its size takes its place; every later operation first    *)
(* moves up to k_resizing_work nodes from ht2 to ht1 (hm_help_resizing).   *)
(* A chain is the sequence of its nodes, head first.  Slot i of the C++    *)
(* array is i+1 here; cap is mask + 1, and 0 stands for a NULL tab.        *)
(***************************************************************************)
EXTENDS Integers, SequencesExt

CONSTANTS
  Node,             \* the HNodes
  Key, KeyOf,       \* the key of each node
  Hash,             \* the hash code of each key
  None,
  InitialSize,      \* hinit of an empty map: 4
  k_max_load_factor,\* 8
  k_resizing_work   \* 128

ASSUME HashMapAssumption ==
  /\ KeyOf \in [Node -> Key] /\ Hash \in [Key -> Nat]
  /\ None \notin Node
  /\ InitialSize \in Nat \ {0} /\ k_max_load_factor \in Nat
  /\ k_resizing_work \in Nat \ {0}

VARIABLES
  hmap,    \* ht1, ht2 and resizing_pos
  ret,     \* the last operation, its key and the node it found, or None
  fault    \* hm_help_resizing has read past the end of ht2.tab

vars == <<hmap, ret, fault>>

HTab == {t \in [cap : Nat, size : Int, tab : Seq(Seq(Node))] : Len(t.tab) = t.cap}
HMap == {h \in [ht1 : HTab, ht2 : HTab, resizing_pos : Nat \ {0}] : h.ht1.cap = 0 => h.ht2.cap = 0}

NullTab == [cap |-> 0, size |-> 0, tab |-> <<>>]

hinit(cap) == [cap |-> cap, size |-> 0, tab |-> [i \in 1..cap |-> <<>>]]

Slot(t, k) == (Hash[k] % t.cap) + 1

hinsert(t, n) == [t EXCEPT !.size = @ + 1, !.tab[Slot(t, KeyOf[n])] = <<n>> \o @]

(* The first node with key k in its chain, if t has one. *)
hlookup(t, k) ==
  LET chain == t.tab[Slot(t, k)]
      here  == {i \in 1..Len(chain) : KeyOf[chain[i]] = k}
  IN IF t.cap = 0 \/ here = {} THEN None ELSE chain[Min(here)]

(* Mutant of Unlink: *from = NULL drops the rest of the chain. *)
UnlinkRest(t, n) ==
  [t EXCEPT !.tab[Slot(t, KeyOf[n])] = SubSeq(@, 1, (CHOOSE i \in 1..Len(@) : @[i] = n) - 1)]

(* The node leaves its chain; the caller counts. *)
Unlink(t, n) ==
  [t EXCEPT !.tab[Slot(t, KeyOf[n])] = RemoveAt(@, CHOOSE i \in 1..Len(@) : @[i] = n)]

Nodes(t) == {n \in Node : \E i \in 1..t.cap : n \in Range(t.tab[i])}

(* Mutant of hm_start_resizing: the new table is as large as the old one. *)
StartSameSize(h) ==
  [ht1 |-> hinit(h.ht1.cap), ht2 |-> h.ht1, resizing_pos |-> 1]

hm_start_resizing(h) ==
  [ht1 |-> hinit(h.ht1.cap * 2), ht2 |-> h.ht1, resizing_pos |-> 1]

(* Where hm_help_resizing finds the next node to move, from resizing_pos   *)
(* on: a slot, or the place behind the last.                               *)
NextSlot(h) ==
  Min({p \in h.resizing_pos..h.ht2.cap : h.ht2.tab[p] # <<>>} \cup {h.ht2.cap + 1})

(* Mutant of Move: the node is not counted off. *)
MoveUncounted(h) ==
  LET p == NextSlot(h)
  IN [ht1 |-> hinsert(h.ht1, h.ht2.tab[p][1]),
      ht2 |-> [h.ht2 EXCEPT !.tab[p] = Tail(@)],
      resizing_pos |-> p]

(* One node goes from the head of its chain in ht2 to ht1. *)
Move(h) ==
  LET p == NextSlot(h)
  IN [ht1 |-> hinsert(h.ht1, h.ht2.tab[p][1]),
      ht2 |-> [h.ht2 EXCEPT !.size = @ - 1, !.tab[p] = Tail(@)],
      resizing_pos |-> p]

(* The loop of hm_help_resizing, for work more nodes.  It goes on while    *)
(* ht2.size > 0, so it leaves the table when size counts more nodes than   *)
(* there are.                                                              *)
Moved[work \in Nat] == [h \in HMap |->
  IF work = 0 \/ h.ht2.size <= 0 THEN h
  ELSE IF NextSlot(h) > h.ht2.cap THEN [h EXCEPT !.resizing_pos = NextSlot(h)]
  ELSE Moved[work - 1][Move(h)]]

(* Mutant of Freed: the memory is freed, but the table still has it. *)
FreedOnly(h) == IF h.ht2.size = 0 THEN [h EXCEPT !.ht2.tab = <<>>] ELSE h

(* A table that counts no nodes is freed. *)
Freed(h) == IF h.ht2.size = 0 THEN [h EXCEPT !.ht2 = NullTab] ELSE h
hm_help_resizing(h) == Freed(Moved[k_resizing_work][h])

Overruns(h) ==
  LET g == Moved[k_resizing_work][h]
  IN g.ht2.size > 0 /\ g.resizing_pos > g.ht2.cap

Init ==
  /\ hmap = [ht1 |-> NullTab, ht2 |-> NullTab, resizing_pos |-> 1]
  /\ ret = None
  /\ fault = FALSE

TooFull(t) == t.size \div t.cap > k_max_load_factor

(* Every operation calls hm_help_resizing, which may overrun. *)
Ready(h) == ~fault /\ ~Overruns(h)

Overrun ==
  /\ ~fault /\ Overruns(hmap)
  /\ fault' = TRUE
  /\ UNCHANGED <<hmap, ret>>

hm_insert(n) ==
  LET first == IF hmap.ht1.cap = 0 THEN hinit(InitialSize) ELSE hmap.ht1
      h1 == [hmap EXCEPT !.ht1 = hinsert(first, n)]
      h2 == IF h1.ht2.cap = 0 /\ TooFull(h1.ht1) THEN hm_start_resizing(h1) ELSE h1
  IN /\ Ready(h2)
     /\ n \notin Nodes(hmap.ht1) \cup Nodes(hmap.ht2)
     /\ hmap' = hm_help_resizing(h2)
     /\ ret' = <<"insert", KeyOf[n], n>>
     /\ UNCHANGED fault

(* Mutant of Found: the table being drained is forgotten. *)
FoundInNew(h, k) == hlookup(h.ht1, k)

(* ht1 is searched first, then ht2. *)
Found(h, k) == IF hlookup(h.ht1, k) # None THEN hlookup(h.ht1, k) ELSE hlookup(h.ht2, k)

hm_lookup(k) ==
  /\ Ready(hmap)
  /\ hmap' = hm_help_resizing(hmap)
  /\ ret' = <<"lookup", k, Found(hmap', k)>>
  /\ UNCHANGED fault

(* Whichever table the node is in, it is ht1 that counts one node less; a  *)
(* size of -1 stands for 2^64 - 1, of which only sums are used.            *)
Detach(h, n) ==
  LET table == IF n \in Nodes(h.ht1) THEN "ht1" ELSE "ht2"
      u     == [h EXCEPT ![table] = Unlink(h[table], n)]
  IN [u EXCEPT !.ht1.size = @ - 1]

hm_delete(k) ==
  LET h == hm_help_resizing(hmap)
      n == Found(h, k)
  IN /\ Ready(hmap)
     /\ hmap' = IF n = None THEN h ELSE Detach(h, n)
     /\ ret' = <<"delete", k, n>>
     /\ UNCHANGED fault

Next ==
  \/ \E n \in Node : hm_insert(n)
  \/ \E k \in Key : hm_lookup(k) \/ hm_delete(k)
  \/ Overrun

Spec == Init /\ [][Next]_vars
-----------------------------------------------------------------------------
TypeOK ==
  /\ hmap \in HMap
  /\ hmap.ht2.cap # 0 => hmap.resizing_pos <= hmap.ht2.cap
  /\ ret = None \/ ret \in {"insert", "lookup", "delete"} \X Key \X (Node \cup {None})
  /\ fault \in BOOLEAN

(* A node is where a lookup of its key will look, and nowhere else.        *)
Placed(t) ==
  \A i \in 1..t.cap : /\ \A n \in Range(t.tab[i]) : Slot(t, KeyOf[n]) = i
                      /\ IsInjective(t.tab[i])

(* Every node stays in the right chain of one table, whatever is deleted   *)
(* during however many rehashes; the two sizes add up to the number of     *)
(* nodes (hm_size), what the rehash has passed is empty, and the old table *)
(* is freed with its last node.                                            *)
Structure ==
  /\ Placed(hmap.ht1) /\ Placed(hmap.ht2)
  /\ Nodes(hmap.ht1) \cap Nodes(hmap.ht2) = {}
  /\ hmap.ht1.size + hmap.ht2.size = Cardinality(Nodes(hmap.ht1) \cup Nodes(hmap.ht2))
  /\ \A i \in 1..hmap.ht2.cap : i < hmap.resizing_pos => hmap.ht2.tab[i] = <<>>
  /\ hmap.ht2.cap # 0 => hmap.ht2.size > 0

(* ht2.size, which hm_help_resizing relies on, is the number of nodes of   *)
(* ht2 until hm_delete finds a node there (hashtable.cpp:111).             *)
Counted == hmap.ht2.size = Cardinality(Nodes(hmap.ht2))
OnlyDeleteMiscounts ==
  [][Counted /\ ~Counted' => \E k \in Key : hm_delete(k) /\ ret'[3] \in Nodes(hm_help_resizing(hmap).ht2)]_vars

(* The rehash keeps up: it is over before the new table could itself be    *)
(* too full, so at most two tables are ever needed (hashtable.cpp:59) and  *)
(* between operations no table is too full.                                *)
RehashKeepsUp == hmap.ht1.cap # 0 => ~TooFull(hmap.ht1)

(* Mutant of h_scan: i < mask instead of i < mask + 1. *)
ScanToMask(t) == IF t.size = 0 THEN <<>> ELSE FlattenSeq([i \in 1..t.cap - 1 |-> t.tab[i]])

(* What h_scan lists: a table that counts no nodes is skipped. *)
h_scan(t) == IF t.size = 0 THEN <<>> ELSE FlattenSeq([i \in 1..t.cap |-> t.tab[i]])
do_keys == [size |-> hmap.ht1.size + hmap.ht2.size,
            nodes |-> h_scan(hmap.ht1) \o h_scan(hmap.ht2)]

(* The header of a KEYS reply is the number of keys that follow it, no     *)
(* matter how far the rehash is.                                           *)
KeysReplyExact ==
  Counted => do_keys.size = Len(do_keys.nodes) /\ IsInjective(do_keys.nodes)

AllNodes == Nodes(hmap.ht1) \cup Nodes(hmap.ht2)
Set == INSTANCE NodeSet WITH
  nodes <- AllNodes,
  listed <- IF Counted THEN ToSet(do_keys.nodes) ELSE AllNodes

(* At every point of a rehash the map is the set of the nodes inserted and *)
(* not deleted, which KEYS lists while the nodes are counted right: no     *)
(* operation misses or loses a node.                                       *)
ImplementsNodeSet == Set!Spec

(* The rehash reads only the table it drains (README.md:10: the server     *)
(* "supports" DEL).                                                        *)
NoOverrun == ~fault
=============================================================================
