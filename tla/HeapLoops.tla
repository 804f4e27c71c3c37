----------------------------- MODULE HeapLoops -----------------------------
(***************************************************************************)
(* The loops of heap_up and heap_down, one iteration per step, started by  *)
(* the three operations the server makes on its heap: entry_set_ttl with a *)
(* deadline (Put), entry_set_ttl with a negative ttl (Clear) and the       *)
(* removal of the earliest item by process_timers (Fire).                  *)
(*                                                                         *)
(* Slots count from 1 (see Heap.tla).  While a loop runs, the slot pos is  *)
(* the hole: its contents are stale and the moved item is in t.            *)
(***************************************************************************)
EXTENDS Heap

CONSTANTS
  Ref,        \* the entries that may own an item
  Deadline,   \* the deadlines given to them
  NoDeadline, \* "no item", in the abstraction
  NoRef

ASSUME HeapLoopsAssumption ==
  /\ Deadline \subseteq Nat
  /\ NoDeadline \notin Deadline
  /\ NoRef \notin Ref

VARIABLES
  heap,   \* g_data.heap
  idx,    \* heap_idx of every entry
  pc,     \* "idle", "up" or "down": no loop, or the one that runs
  pos,    \* the loop's pos
  t,      \* the loop's t, the item being placed
  last,   \* the operation in progress or the last one
  leaving,\* the entry whose heap_idx is reset when the loop is over
  goal    \* what Heap.tla says the operation must return

vars == <<heap, idx, pc, pos, t, last, leaving, goal>>

Item == [val : Deadline, ref : Ref]

Init ==
  /\ heap = <<>>
  /\ idx = [r \in Ref |-> NoIdx]
  /\ pc = "idle" /\ pos = 1 /\ t = <<>>
  /\ last = "none" /\ leaving = NoRef
  /\ goal = [heap |-> <<>>, idx |-> idx]

(* heap_update: which way the item of slot p has to go. *)
StartUpdate(a, p) ==
  /\ pc' = IF p > 1 /\ a[Parent(p)].val > a[p].val THEN "up" ELSE "down"
  /\ pos' = p
  /\ t' = a[p]

Result(u) == [heap |-> u.heap, idx |-> u.idx]

Put(r, d) ==
  /\ pc = "idle"
  /\ LET p == IF idx[r] = NoIdx THEN Len(heap) + 1 ELSE idx[r]
         a == IF idx[r] = NoIdx THEN Append(heap, [val |-> d, ref |-> r])
                                ELSE [heap EXCEPT ![p].val = d]
     IN /\ heap' = a
        /\ idx' = [idx EXCEPT ![r] = p]
        /\ StartUpdate(a, p)
  /\ last' = "put"
  /\ leaving' = NoRef
  /\ goal' = Result(PutTimer(heap, idx, r, d))

(* Removal of the item of r.  When it is the last one no loop runs. *)
TakeOut(r) ==
  /\ pc = "idle"
  /\ idx[r] # NoIdx
  /\ goal' = Result(RemoveTimer(heap, idx, r))
  /\ heap' = FillFromLast(heap, idx[r])
  /\ IF idx[r] = Len(heap)
     THEN /\ idx' = [idx EXCEPT ![r] = NoIdx]
          /\ leaving' = NoRef
          /\ UNCHANGED <<pc, pos, t>>
     ELSE /\ idx' = [idx EXCEPT ![heap[Len(heap)].ref] = idx[r]]
          /\ leaving' = r
          /\ StartUpdate(heap', idx[r])

Clear(r) == TakeOut(r) /\ last' = "clear"

(* process_timers takes the item of slot 1. *)
Fire == heap # <<>> /\ TakeOut(heap[1].ref) /\ last' = "fire"

(* One iteration: the item of slot from moves into the hole. *)
MoveHole(from) ==
  /\ heap' = [heap EXCEPT ![pos] = heap[from]]
  /\ idx' = [idx EXCEPT ![heap[from].ref] = pos]
  /\ pos' = from
  /\ UNCHANGED <<pc, t, last, leaving, goal>>

(* Mutants of Land: "a[pos] = t" is missing; "heap_idx = -1" is missing. *)
LandNowhere ==
  /\ idx' = [idx EXCEPT ![t.ref] = pos]
  /\ pc' = "idle" /\ pos' = 1 /\ t' = <<>> /\ leaving' = NoRef
  /\ UNCHANGED <<heap, last, goal>>

LandKeepsIdx ==
  /\ heap' = [heap EXCEPT ![pos] = t]
  /\ idx' = [idx EXCEPT ![t.ref] = pos]
  /\ pc' = "idle" /\ pos' = 1 /\ t' = <<>> /\ leaving' = NoRef
  /\ UNCHANGED <<last, goal>>

(* After the loop: the item lands in the hole, and the caller resets the   *)
(* heap_idx of an entry whose item it removed.                             *)
Land ==
  /\ heap' = [heap EXCEPT ![pos] = t]
  /\ LET placed == [idx EXCEPT ![t.ref] = pos]
     IN idx' = IF leaving = NoRef THEN placed ELSE [placed EXCEPT ![leaving] = NoIdx]
  /\ pc' = "idle"
  /\ pos' = 1 /\ t' = <<>>
  /\ leaving' = NoRef
  /\ UNCHANGED <<last, goal>>

(* Mutant of ClimbsHigher: equal deadlines change places. *)
ClimbsOverEqual == pos > 1 /\ heap[Parent(pos)].val >= t.val

ClimbsHigher == pos > 1 /\ heap[Parent(pos)].val > t.val

UpStep == pc = "up" /\ ClimbsHigher /\ MoveHole(Parent(pos))

UpEnd == pc = "up" /\ ~ClimbsHigher /\ Land

(* Mutant of MinPos: r is compared with the item, not with l. *)
MinPosRightFirst ==
  LET l == pos * 2
      r == pos * 2 + 1
  IN IF r <= Len(heap) /\ heap[r].val < t.val THEN r
     ELSE IF l <= Len(heap) /\ heap[l].val < t.val THEN l ELSE pos

(* The child heap_down picks: r replaces l only when strictly smaller. *)
MinPos ==
  LET l  == pos * 2
      r  == pos * 2 + 1
      m1 == IF l <= Len(heap) /\ heap[l].val < t.val THEN l ELSE pos
      v1 == IF m1 = l THEN heap[l].val ELSE t.val
  IN IF r <= Len(heap) /\ heap[r].val < v1 THEN r ELSE m1

DownStep == pc = "down" /\ MinPos # pos /\ MoveHole(MinPos)

DownEnd == pc = "down" /\ MinPos = pos /\ Land

Next ==
  \/ \E r \in Ref, d \in Deadline : Put(r, d)
  \/ \E r \in Ref : Clear(r)
  \/ Fire
  \/ UpStep \/ UpEnd \/ DownStep \/ DownEnd

Spec == Init /\ [][Next]_vars
-----------------------------------------------------------------------------
TypeOK ==
  /\ heap \in Seq(Item)
  /\ idx \in [Ref -> 0..Len(heap)]
  /\ pc \in {"idle", "up", "down"}
  /\ pos \in Nat \ {0}
  /\ pc # "idle" => t \in Item /\ pos \in 1..Len(heap)
  /\ last \in {"none", "put", "clear", "fire"}
  /\ leaving \in Ref \cup {NoRef}

(* When no loop runs, whatever sequence of insertions, changes and         *)
(* removals led there: no deadline is later than one below it, so the top  *)
(* is the item process_timers must look at; and heap_idx and ref are       *)
(* inverse to each other, so an EXPIRE or TTL reaches its own item.        *)
SoundWhenIdle ==
  pc = "idle" => HeapOrdered(heap) /\ IdxFindsItem(heap, idx) /\ ItemHasIdx(heap, idx)

(* The loops compute what the operators of Heap.tla say, the entry each    *)
(* "*a[pos].ref" wrote included.                                           *)
LoopsMeetDefinition == pc = "idle" => goal = [heap |-> heap, idx |-> idx]

(* The items a loop is rearranging: the hole holds t. *)
Items == {IF pc # "idle" /\ i = pos THEN t ELSE heap[i] : i \in 1..Len(heap)}

Due == [r \in Ref |-> IF \E x \in Items : x.ref = r
                      THEN (CHOOSE x \in Items : x.ref = r).val
                      ELSE NoDeadline]

Queue == INSTANCE TimerQueue WITH due <- Due

(* No loop loses, duplicates or changes an item at any of its steps, and   *)
(* the item process_timers removes has the earliest deadline of all.       *)
ImplementsTimerQueue == Queue!Spec
=============================================================================
