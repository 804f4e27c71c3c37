------------------------------- MODULE Heap -------------------------------
(***************************************************************************)
(* The binary heap of deadlines (heap.cpp) and the two ways the server     *)
(* changes it: entry_set_ttl (common.cpp) and the removal at the top of    *)
(* the loop of process_timers (timer.cpp).                                 *)
(*                                                                         *)
(* A heap is a sequence of items [val, ref]: a deadline and the entry that *)
(* owns it.  Slot i of the C++ array is position i+1 here, so the parent   *)
(* of i is i \div 2 and 0 stands for "(size_t)-1".  Each entry keeps the   *)
(* slot of its own item (heap_idx); idx maps every entry to it.  A store   *)
(* through "*a[i].ref" updates idx.                                        *)
(*                                                                         *)
(* The loops of heap_up and heap_down are given by their effect: the items *)
(* on the path the hole takes shift by one and the moved item lands at its *)
(* end.  HeapLoops.tla runs the loops themselves and is checked to agree.  *)
(***************************************************************************)
EXTENDS Integers, Sequences, FiniteSetsExt

NoIdx == 0

Parent(i) == i \div 2

(* The slots a loop visits that starts in pos and goes from slot s to      *)
(* next[s], until next[s] = s: the least set with pos that is closed under *)
(* next.                                                                   *)
Visited(next, pos) ==
  {j \in DOMAIN next : \A S \in SUBSET DOMAIN next :
                         pos \in S /\ (\A s \in S : next[s] \in S) => j \in S}

(* heap_up: the hole climbs while its parent is larger than the item. *)
Climb(a, pos) ==
  [s \in 1..Len(a) |-> IF s > 1 /\ a[Parent(s)].val > a[pos].val THEN Parent(s) ELSE s]

(* heap_down: the hole sinks to its smaller child while that is smaller    *)
(* than the item; the left child wins a tie.                               *)
Smaller(a, pos, s, c) ==
  /\ c <= Len(a)
  /\ a[c].val < a[pos].val
  /\ \A o \in {2 * s, 2 * s + 1} : o <= Len(a) => a[c].val <= a[o].val

Sink(a, pos) ==
  [s \in 1..Len(a) |-> CASE Smaller(a, pos, s, 2 * s) -> 2 * s
                         [] /\ Smaller(a, pos, s, 2 * s + 1)
                            /\ ~Smaller(a, pos, s, 2 * s)   -> 2 * s + 1
                         [] OTHER -> s]

(* The whole loop: the item of next[i] moves into every visited slot i but *)
(* the last, which gets the item of pos.  Every visited slot is written    *)
(* together with "*a[i].ref = i", and the last write to an entry wins.     *)
Sift(a, idx, pos, next) ==
  LET path == Visited(next, pos)
      b    == [i \in 1..Len(a) |-> CASE i \notin path                   -> a[i]
                                     [] i \in path /\ next[i] # i -> a[next[i]]
                                     [] i \in path /\ next[i] = i -> a[pos]]
      slots(r) == {i \in path : b[i].ref = r}
  IN [heap  |-> b,
      idx   |-> [r \in DOMAIN idx |-> CASE slots(r) = {} -> idx[r]
                                       [] slots(r) # {} /\ next[pos] <= pos -> Min(slots(r))
                                       [] slots(r) # {} /\ next[pos] > pos  -> Max(slots(r))],
      wrote |-> path]

heap_up(a, idx, pos) == Sift(a, idx, pos, Climb(a, pos))

heap_down(a, idx, pos) == Sift(a, idx, pos, Sink(a, pos))

(* Mutant of heap_update: it only sinks items. *)
heap_update_down(a, idx, pos) == heap_down(a, idx, pos)

heap_update(a, idx, pos) ==
  IF pos > 1 /\ a[Parent(pos)].val > a[pos].val
  THEN heap_up(a, idx, pos)
  ELSE heap_down(a, idx, pos)

(* entry_set_ttl with ttl_ms >= 0: the item of r is pushed if r has none,  *)
(* gets the deadline val, and is sifted.                                   *)
PutTimer(a, idx, r, val) ==
  LET fresh == idx[r] = NoIdx
      pos   == IF fresh THEN Len(a) + 1 ELSE idx[r]
      b     == IF fresh THEN Append(a, [val |-> val, ref |-> r])
                        ELSE [a EXCEPT ![pos].val = val]
  IN heap_update(b, [idx EXCEPT ![r] = pos], pos)

(* The last item takes the place of the one in slot pos, which is popped. *)
FillFromLast(a, pos) ==
  [i \in 1..Len(a) - 1 |-> IF i = pos THEN a[Len(a)] ELSE a[i]]

(* Mutant of RemoveTimer: the heap_idx of r is not reset. *)
RemoveTimerKeepsIdx(a, idx, r) ==
  LET b == FillFromLast(a, idx[r])
  IN IF idx[r] = Len(a) THEN [heap |-> b, idx |-> idx, wrote |-> {}]
                        ELSE heap_update(b, idx, idx[r])

(* Mutant of RemoveTimer: the item stays in the heap. *)
RemoveTimerKeepsItem(a, idx, r) ==
  [heap |-> a, idx |-> [idx EXCEPT ![r] = NoIdx], wrote |-> {}]

(* Removal of the item of r, which its heap_idx says is in slot idx[r]. *)
RemoveTimer(a, idx, r) ==
  LET pos  == idx[r]
      b    == FillFromLast(a, pos)
      last == pos = Len(a)
      moved == IF last THEN idx ELSE [idx EXCEPT ![a[Len(a)].ref] = pos]
      u    == IF last THEN [heap |-> b, idx |-> idx, wrote |-> {}]
                      ELSE heap_update(b, moved, pos)
  IN [heap |-> u.heap, idx |-> [u.idx EXCEPT ![r] = NoIdx], wrote |-> u.wrote]

(* The heap order: no deadline is later than those below it. *)
HeapOrdered(a) == \A i \in 2..Len(a) : a[Parent(i)].val <= a[i].val

(* Every entry with a heap_idx finds its own item there. *)
IdxFindsItem(a, idx) ==
  \A r \in DOMAIN idx : idx[r] # NoIdx => idx[r] \in 1..Len(a) /\ a[idx[r]].ref = r

(* Every item is found by the entry it refers to. *)
ItemHasIdx(a, idx) == \A i \in 1..Len(a) : idx[a[i].ref] = i
=============================================================================
