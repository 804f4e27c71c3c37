--------------------------- MODULE HeapLoopsProofs ---------------------------
(***************************************************************************)
(* The loops of heap_up and heap_down keep the heap order, the back        *)
(* references and every deadline, and end where the operators of Heap.tla  *)
(* say, for any number of entries and any deadlines.                       *)
(***************************************************************************)
EXTENDS HeapLoops, Lemmas

(* The heap with the item in hand put into the hole. *)
Whole == IF pc = "idle" THEN heap ELSE [heap EXCEPT ![pos] = t]

Hole == IF pc = "idle" THEN NoIdx ELSE pos

(* Items and entries match one to one, but for the item of slot p, which   *)
(* its entry may look for elsewhere, and for the entry x, whose item is    *)
(* gone and whose heap_idx is not reset yet.                               *)
Linked(a, jdx, p, x) ==
  /\ \A i \in 1..Len(a) : i # p => jdx[a[i].ref] = i
  /\ Distinct(a)
  /\ \A r \in Ref : jdx[r] # NoIdx /\ r # x => \E i \in 1..Len(a) : a[i].ref = r
  /\ \A i \in 1..Len(a) : a[i].ref # x

Links == Linked(Whole, idx, Hole, leaving)

(* Where the loop is on its way. *)
Course ==
  /\ pc = "idle" => HeapOrdered(heap)
  /\ pc = "up"   => Rising(Whole, pos)
  /\ pc = "down" => Sinking(Whole, pos)

(* What is left of the loop leads to the result Heap.tla gives for the     *)
(* whole operation.                                                        *)
Done(u, x) ==
  [heap |-> u.heap, idx |-> IF x = NoRef THEN u.idx ELSE [u.idx EXCEPT ![x] = NoIdx]]

OnTheWay ==
  /\ pc = "idle" => goal = [heap |-> heap, idx |-> idx]
  /\ pc = "up"   => goal = Done(heap_up(Whole, idx, pos), leaving)
  /\ pc = "down" => goal = Done(heap_down(Whole, idx, pos), leaving)

Settled == pc = "idle" => leaving = NoRef

Inv == TypeOK /\ Settled /\ Links /\ Course /\ OnTheWay
-----------------------------------------------------------------------------
LEMMA LinkedStep ==
  ASSUME NEW a \in Seq(ItemsOf(Ref)), NEW jdx \in [Ref -> Nat],
         NEW p \in 1..Len(a), NEW q \in 1..Len(a), p # q,
         NEW x, Linked(a, jdx, p, x)
  PROVE  Linked(Exchanged(a, p, q), [jdx EXCEPT ![a[q].ref] = p], q, x)
<1> DEFINE b == Exchanged(a, p, q)
           kdx == [jdx EXCEPT ![a[q].ref] = p]
<1>1. /\ Len(b) = Len(a)
      /\ \A i \in 1..Len(a) : b[i] = IF i = q THEN a[p] ELSE IF i = p THEN a[q] ELSE a[i]
  <2>1. ChangePlaces(ItemsOf(Ref), a, p, q, b)
    BY ExchangedProperties
  <2> HIDE DEF b
  <2> QED
    BY <2>1 DEF ChangePlaces
<1>2. Len(a) \in Nat /\ \A i \in 1..Len(a) : a[i].ref \in Ref
  BY ItemsTyped DEF ItemsIn
<1>3. \A r \in Ref : kdx[r] = IF r = a[q].ref THEN p ELSE jdx[r]
  BY <1>2
<1> HIDE DEF b, kdx
<1>4. \A i \in 1..Len(b) : i # q => kdx[b[i].ref] = i
  BY <1>1, <1>2, <1>3 DEF Linked, Distinct
<1>5. Distinct(b)
  BY <1>1, <1>2 DEF Linked, Distinct
<1>6. ASSUME NEW r \in Ref, kdx[r] # NoIdx, r # x
      PROVE  \E i \in 1..Len(b) : b[i].ref = r
  <2>1. \E i \in 1..Len(a) : a[i].ref = r
    BY <1>3, <1>6 DEF Linked
  <2>2. PICK i \in 1..Len(a) : a[i].ref = r
    BY <2>1
  <2>3. b[p] = a[q] /\ b[q] = a[p] /\ (i # p /\ i # q => b[i] = a[i])
    BY <1>1
  <2> QED
    BY <2>2, <2>3, <1>1
<1>7. \A i \in 1..Len(b) : b[i].ref # x
  BY <1>1 DEF Linked
<1> QED
  BY <1>4, <1>5, <1>6, <1>7 DEF Linked, b, kdx

(* The item in hand lands, and the heap_idx of the entry x is reset. *)
Reset(jdx, x) == IF x = NoRef THEN jdx ELSE [jdx EXCEPT ![x] = NoIdx]

LEMMA LinkedEnd ==
  ASSUME NEW a \in Seq(ItemsOf(Ref)), NEW jdx \in [Ref -> Nat], NEW p \in 1..Len(a),
         NEW x \in Ref \cup {NoRef}, Linked(a, jdx, p, x)
  PROVE  Linked(a, Reset([jdx EXCEPT ![a[p].ref] = p], x), NoIdx, NoRef)
<1> DEFINE kdx == Reset([jdx EXCEPT ![a[p].ref] = p], x)
<1>1. Len(a) \in Nat /\ \A i \in 1..Len(a) : a[i].ref \in Ref /\ i # NoIdx
  BY ItemsTyped DEF ItemsIn, NoIdx
<1>2. \A r \in Ref : kdx[r] = IF r = x THEN NoIdx ELSE IF r = a[p].ref THEN p ELSE jdx[r]
  BY <1>1, HeapLoopsAssumption DEF Reset
<1> HIDE DEF kdx
<1>3. \A i \in 1..Len(a) : kdx[a[i].ref] = i
  BY <1>1, <1>2 DEF Linked, Distinct
<1>4. ASSUME NEW r \in Ref, kdx[r] # NoIdx
      PROVE  \E i \in 1..Len(a) : a[i].ref = r
  BY <1>2, <1>4 DEF Linked
<1>5. \A i \in 1..Len(a) : a[i].ref # NoRef
  BY <1>1, HeapLoopsAssumption
<1> QED
  BY <1>3, <1>4, <1>5 DEF Linked, kdx

(* At rest every entry finds its item, and the other way round. *)
LEMMA LinkedAtRest ==
  ASSUME NEW a \in Seq(ItemsOf(Ref)), NEW jdx \in [Ref -> Nat]
  PROVE  Linked(a, jdx, NoIdx, NoRef) <=> IdxFindsItem(a, jdx) /\ ItemHasIdx(a, jdx)
<1>1. Len(a) \in Nat /\ \A i \in 1..Len(a) : a[i].ref \in Ref /\ i # NoIdx
  BY ItemsTyped DEF ItemsIn, NoIdx
<1>2. \A r \in Ref : r # NoRef
  BY HeapLoopsAssumption
<1>3. DOMAIN jdx = Ref
  OBVIOUS
<1>4. ASSUME Linked(a, jdx, NoIdx, NoRef)
      PROVE  IdxFindsItem(a, jdx) /\ ItemHasIdx(a, jdx)
  <2>1. ItemHasIdx(a, jdx)
    BY <1>1, <1>4 DEF Linked, ItemHasIdx
  <2>2. ASSUME NEW r \in Ref, jdx[r] # NoIdx
        PROVE  jdx[r] \in 1..Len(a) /\ a[jdx[r]].ref = r
    <3>1. PICK i \in 1..Len(a) : a[i].ref = r
      BY <1>2, <1>4, <2>2 DEF Linked
    <3> QED
      BY <2>1, <3>1 DEF ItemHasIdx
  <2> QED
    BY <1>3, <2>1, <2>2 DEF IdxFindsItem
<1>5. ASSUME IdxFindsItem(a, jdx), ItemHasIdx(a, jdx)
      PROVE  Linked(a, jdx, NoIdx, NoRef)
  <2>1. Distinct(a)
    BY <1>5 DEF Distinct, ItemHasIdx
  <2>2. \A r \in Ref : jdx[r] # NoIdx => \E i \in 1..Len(a) : a[i].ref = r
    BY <1>3, <1>5 DEF IdxFindsItem
  <2> QED
    BY <1>1, <1>2, <1>5, <2>1, <2>2 DEF Linked, ItemHasIdx
<1> QED
  BY <1>4, <1>5
-----------------------------------------------------------------------------
(* The items before the loop starts: after an insertion or a change, *)
OneChanged(a, b, p, item) ==
  /\ p \in 1..Len(b)
  /\ Len(b) = Len(a) \/ (Len(b) = Len(a) + 1 /\ p = Len(b))
  /\ Len(b) = Len(a) => a[p].ref = item.ref
  /\ Len(b) > Len(a) => \A i \in 1..Len(a) : a[i].ref # item.ref
  /\ \A i \in 1..Len(b) : b[i] = IF i = p THEN item ELSE a[i]

LEMMA PlacedItems ==
  ASSUME NEW a \in Seq(ItemsOf(Ref)), NEW jdx \in [Ref -> Nat],
         Linked(a, jdx, NoIdx, NoRef), NEW r \in Ref, NEW d \in Nat
  PROVE  OneChanged(a, WithTimer(a, jdx, r, d), SlotFor(a, jdx, r), [val |-> d, ref |-> r])
<1> DEFINE b == WithTimer(a, jdx, r, d)
           p == SlotFor(a, jdx, r)
           item == [val |-> d, ref |-> r]
<1>1. Len(a) \in Nat /\ \A i \in 1..Len(a) : a[i] \in ItemsOf(Ref)
  OBVIOUS
<1>2. IdxFindsItem(a, jdx) /\ ItemHasIdx(a, jdx)
  BY LinkedAtRest
<1>3. item \in ItemsOf(Ref) /\ item.ref = r
  BY DEF ItemsOf
<1>4. CASE jdx[r] = NoIdx
  <2>1. p = Len(a) + 1 /\ b = Append(a, item)
    BY <1>4 DEF WithTimer, SlotFor
  <2> HIDE DEF b, p, item
  <2>2. Len(b) = Len(a) + 1 /\ \A i \in 1..Len(b) : b[i] = IF i = p THEN item ELSE a[i]
    BY <1>1, <1>3, <2>1, AppendProperties
  <2>3. \A i \in 1..Len(a) : a[i].ref # r
    BY <1>1, <1>2, <1>4 DEF ItemHasIdx, NoIdx
  <2>4. OneChanged(a, b, p, item)
    BY <1>1, <1>3, <2>1, <2>2, <2>3 DEF OneChanged
  <2> QED
    BY <2>4 DEF b, p, item
<1>5. CASE jdx[r] # NoIdx
  <2>1. p = jdx[r] /\ b = [a EXCEPT ![p].val = d]
    BY <1>5 DEF WithTimer, SlotFor
  <2>2. p \in 1..Len(a) /\ a[p].ref = r
    BY <1>2, <1>5, <2>1 DEF IdxFindsItem
  <2> HIDE DEF b, p
  <2>3. [a[p] EXCEPT !.val = d] = item
    BY <1>1, <2>2 DEF ItemsOf
  <2>4. b = [a EXCEPT ![p] = item]
    BY <2>1, <2>3
  <2> HIDE DEF item
  <2>5. Len(b) = Len(a) /\ \A i \in 1..Len(a) : b[i] = IF i = p THEN item ELSE a[i]
    BY <1>1, <1>3, <2>2, <2>4, ExceptSeq
  <2>6. OneChanged(a, b, p, item)
    BY <1>1, <1>3, <2>2, <2>5 DEF OneChanged
  <2> QED
    BY <2>6 DEF b, p, item
<1> QED
  BY <1>4, <1>5

(* and after a removal. *)
OneGone(a, b, p) ==
  /\ Len(b) = Len(a) - 1
  /\ \A i \in 1..Len(b) : b[i] = IF i = p THEN a[Len(a)] ELSE a[i]

LEMMA FilledItems ==
  ASSUME NEW a \in Seq(ItemsOf(Ref)), NEW p \in 1..Len(a)
  PROVE  OneGone(a, FillFromLast(a, p), p)
<1>1. Len(a) - 1 \in Nat
  OBVIOUS
<1> QED
  BY <1>1 DEF FillFromLast, OneGone

LEMMA LinkedPut ==
  ASSUME NEW a \in Seq(ItemsOf(Ref)), NEW jdx \in [Ref -> Nat], Linked(a, jdx, NoIdx, NoRef),
         NEW b \in Seq(ItemsOf(Ref)), NEW p, NEW item \in ItemsOf(Ref), OneChanged(a, b, p, item)
  PROVE  Linked(b, [jdx EXCEPT ![item.ref] = p], p, NoRef)
<1> DEFINE kdx == [jdx EXCEPT ![item.ref] = p]
<1>1. ItemsIn(Ref, a) /\ ItemsIn(Ref, b)
  BY ItemsTyped
<1>2. item.ref \in Ref
  BY DEF ItemsOf
<1>3. \A s \in Ref : kdx[s] = IF s = item.ref THEN p ELSE jdx[s]
  OBVIOUS
<1> HIDE DEF kdx
<1>4. \A i \in 1..Len(a) : jdx[a[i].ref] = i
  BY <1>1 DEF Linked, ItemsIn, NoIdx
<1>5. \A i \in 1..Len(b) : i # p => i \in 1..Len(a) /\ b[i] = a[i] /\ b[i].ref # item.ref
  <2> SUFFICES ASSUME NEW i \in 1..Len(b), i # p
               PROVE  i \in 1..Len(a) /\ b[i] = a[i] /\ b[i].ref # item.ref
    OBVIOUS
  <2>1. i \in 1..Len(a) /\ b[i] = a[i]
    BY <1>1 DEF OneChanged, ItemsIn
  <2>2. a[i].ref # item.ref
    BY <1>1, <1>4, <2>1 DEF OneChanged, ItemsIn
  <2> QED
    BY <2>1, <2>2
<1>6. b[p] = item /\ p \in 1..Len(b)
  BY DEF OneChanged
<1>7. \A i \in 1..Len(b) : kdx[b[i].ref] = i
  <2> SUFFICES ASSUME NEW i \in 1..Len(b)
               PROVE  kdx[b[i].ref] = i
    OBVIOUS
  <2>1. b[i].ref \in Ref
    BY <1>1 DEF ItemsIn
  <2> QED
    BY <1>3, <1>4, <1>5, <1>6, <2>1
<1>8. ASSUME NEW s \in Ref, kdx[s] # NoIdx, s # NoRef
      PROVE  \E i \in 1..Len(b) : b[i].ref = s
  <2>1. CASE s = item.ref
    BY <1>6, <2>1
  <2>2. CASE s # item.ref
    <3>1. \E i \in 1..Len(a) : a[i].ref = s
      BY <1>3, <1>8, <2>2 DEF Linked
    <3>2. PICK i \in 1..Len(a) : a[i].ref = s
      BY <3>1
    <3>3. i # p \/ Len(b) # Len(a)
      BY <2>2, <3>2 DEF OneChanged
    <3>4. i \in 1..Len(b) /\ i # p
      BY <1>1, <3>2, <3>3 DEF OneChanged, ItemsIn
    <3> QED
      BY <1>5, <3>2, <3>4
  <2> QED
    BY <2>1, <2>2
<1>9. \A i \in 1..Len(b) : b[i].ref # NoRef
  BY <1>1, HeapLoopsAssumption DEF ItemsIn
<1> QED
  BY <1>7, <1>8, <1>9 DEF Linked, Distinct, kdx

LEMMA LinkedRemove ==
  ASSUME NEW a \in Seq(ItemsOf(Ref)), NEW jdx \in [Ref -> Nat], Linked(a, jdx, NoIdx, NoRef),
         NEW r \in Ref, jdx[r] # NoIdx,
         NEW b \in Seq(ItemsOf(Ref)), OneGone(a, b, jdx[r])
  PROVE  /\ jdx[r] = Len(a) => Linked(b, [jdx EXCEPT ![r] = NoIdx], NoIdx, NoRef)
         /\ jdx[r] # Len(a) => /\ jdx[r] \in 1..Len(b) /\ a[Len(a)].ref \in Ref
                               /\ Linked(b, [jdx EXCEPT ![a[Len(a)].ref] = jdx[r]], jdx[r], r)
<1> DEFINE n == Len(a)
           p == jdx[r]
<1>1. ItemsIn(Ref, a) /\ ItemsIn(Ref, b)
  BY ItemsTyped
<1>2. IdxFindsItem(a, jdx) /\ ItemHasIdx(a, jdx)
  BY LinkedAtRest
<1>3. n \in Nat /\ p \in 1..n /\ a[p].ref = r /\ \A i \in 1..n : jdx[a[i].ref] = i
  BY <1>1, <1>2 DEF IdxFindsItem, ItemHasIdx, ItemsIn
<1>4. Len(b) = n - 1 /\ \A i \in 1..n - 1 : b[i] = IF i = p THEN a[n] ELSE a[i]
  BY DEF OneGone
<1>5. \A i \in 1..n : a[i].ref = r => i = p
  BY <1>3
<1> HIDE DEF p
<1>6. \A s \in Ref : jdx[s] # NoIdx => jdx[s] \in 1..n /\ a[jdx[s]].ref = s
  BY <1>2 DEF IdxFindsItem
<1>7. ASSUME p = n
      PROVE  Linked(b, [jdx EXCEPT ![r] = NoIdx], NoIdx, NoRef)
  <2> DEFINE kdx == [jdx EXCEPT ![r] = NoIdx]
  <2>1. \A s \in Ref : kdx[s] = IF s = r THEN NoIdx ELSE jdx[s]
    OBVIOUS
  <2> HIDE DEF kdx
  <2>2. \A i \in 1..n - 1 : i \in 1..n /\ b[i] = a[i] /\ i # p /\ a[i].ref # r /\ a[i].ref \in Ref
    BY <1>1, <1>3, <1>4, <1>5, <1>7 DEF ItemsIn
  <2>3. \A i \in 1..Len(b) : kdx[b[i].ref] = i
    BY <1>3, <1>4, <2>1, <2>2
  <2>4. ASSUME NEW s \in Ref, kdx[s] # NoIdx
        PROVE  \E i \in 1..Len(b) : b[i].ref = s
    <3>1. s # r /\ jdx[s] \in 1..n /\ a[jdx[s]].ref = s
      BY <1>6, <2>1, <2>4
    <3>2. jdx[s] # n
      BY <1>3, <1>7, <3>1
    <3>3. jdx[s] \in 1..n - 1
      BY <1>3, <3>1, <3>2
    <3> QED
      BY <1>4, <2>2, <3>1, <3>3
  <2>5. \A i \in 1..Len(b) : b[i].ref # NoRef
    BY <1>1, HeapLoopsAssumption DEF ItemsIn
  <2> QED
    BY <2>3, <2>4, <2>5 DEF Linked, Distinct, kdx
<1>8. ASSUME p # n
      PROVE  /\ p \in 1..Len(b) /\ a[n].ref \in Ref
             /\ Linked(b, [jdx EXCEPT ![a[n].ref] = p], p, r)
  <2> DEFINE kdx == [jdx EXCEPT ![a[n].ref] = p]
  <2>1. p \in 1..n - 1 /\ n \in 1..n /\ a[n].ref \in Ref
    BY <1>1, <1>3, <1>8 DEF ItemsIn
  <2>2. \A s \in Ref : kdx[s] = IF s = a[n].ref THEN p ELSE jdx[s]
    BY <2>1
  <2> HIDE DEF kdx
  <2>3. \A i \in 1..n - 1 : i # p => /\ i \in 1..n /\ b[i] = a[i] /\ a[i].ref # r
                                     /\ a[i].ref \in Ref /\ a[i].ref # a[n].ref
    <3> SUFFICES ASSUME NEW i \in 1..n - 1, i # p
                 PROVE  /\ i \in 1..n /\ b[i] = a[i] /\ a[i].ref # r
                        /\ a[i].ref \in Ref /\ a[i].ref # a[n].ref
      OBVIOUS
    <3>1. i \in 1..n /\ i # n
      BY <1>3
    <3> QED
      BY <1>1, <1>3, <1>4, <1>5, <2>1, <3>1 DEF ItemsIn
  <2>4. b[p] = a[n] /\ a[n].ref # r
    BY <1>3, <1>4, <1>5, <1>8, <2>1
  <2>5. ASSUME NEW i \in 1..Len(b)
        PROVE  kdx[b[i].ref] = i
    <3>1. i \in 1..n - 1
      BY <1>3, <1>4
    <3>2. CASE i = p
      BY <2>1, <2>2, <2>4, <3>2
    <3>3. CASE i # p
      <4>1. b[i].ref = a[i].ref /\ kdx[b[i].ref] = jdx[a[i].ref] /\ a[i].ref # r
            /\ i \in 1..n
        BY <2>2, <2>3, <3>1, <3>3
      <4> QED
        BY <1>3, <4>1
    <3> QED
      BY <3>2, <3>3
  <2>6. ASSUME NEW s \in Ref, kdx[s] # NoIdx, s # r
        PROVE  \E i \in 1..Len(b) : b[i].ref = s
    <3>1. CASE s = a[n].ref
      BY <1>4, <2>1, <2>4, <3>1
    <3>2. CASE s # a[n].ref
      <4>1. jdx[s] \in 1..n /\ a[jdx[s]].ref = s
        BY <1>6, <2>2, <2>6, <3>2
      <4>2. jdx[s] # n /\ jdx[s] # p
        BY <1>3, <2>6, <3>2, <4>1
      <4>3. jdx[s] \in 1..n - 1
        BY <1>3, <4>1, <4>2
      <4> QED
        BY <1>4, <2>3, <4>1, <4>2, <4>3
    <3> QED
      BY <3>1, <3>2
  <2>7. \A i \in 1..Len(b) : b[i].ref # r
    BY <1>4, <2>3, <2>4
  <2> QED
    BY <1>4, <2>1, <2>5, <2>6, <2>7 DEF Linked, Distinct, kdx
<1> QED
  BY <1>7, <1>8 DEF p
-----------------------------------------------------------------------------
LEMMA ItemSeqs == \A a \in Seq(Item) : a \in Seq(ItemsOf(Ref))
<1>1. Item \subseteq ItemsOf(Ref)
  BY HeapLoopsAssumption DEF Item, ItemsOf
<1> QED
  BY <1>1

HeapAsWhole(a) ==
  /\ a \in Seq(Item) /\ a \in Seq(ItemsOf(Ref))
  /\ Len(a) = Len(heap)
  /\ \A i \in 1..Len(heap) : a[i] = IF pc # "idle" /\ i = pos THEN t ELSE heap[i]

LEMMA WholeType == TypeOK => HeapAsWhole(Whole)
<1> SUFFICES ASSUME TypeOK
             PROVE  HeapAsWhole(Whole)
  OBVIOUS
<1>1. Whole \in Seq(Item) /\ Len(Whole) = Len(heap)
      /\ \A i \in 1..Len(heap) : Whole[i] = IF pc # "idle" /\ i = pos THEN t ELSE heap[i]
  <2>1. CASE pc = "idle"
    BY <2>1 DEF Whole, TypeOK
  <2>2. CASE pc # "idle"
    <3>1. heap \in Seq(Item) /\ pos \in 1..Len(heap) /\ t \in Item
      BY <2>2 DEF TypeOK
    <3>2. Whole = [heap EXCEPT ![pos] = t]
      BY <2>2 DEF Whole
    <3> QED
      BY <3>1, <3>2, <2>2, ExceptSeq
  <2> QED
    BY <2>1, <2>2
<1> QED
  BY <1>1, ItemSeqs DEF HeapAsWhole

(* heap_update sends the item the way it has to go. *)
LEMMA StartsWell ==
  ASSUME NEW a \in Seq(ItemsOf(Ref)), NEW p \in 1..Len(a), OrderedBut(a, p)
  PROVE  IF p > 1 /\ a[Parent(p)].val > a[p].val THEN Rising(a, p) ELSE Sinking(a, p)
<1>1. ItemsIn(Ref, a)
  BY ItemsTyped
<1>2. \A i \in 2..Len(a) : a[i].val \in Nat
  BY <1>1 DEF ItemsIn
<1>3. p > 1 => Parent(p) \in 1..Len(a) /\ a[Parent(p)].val \in Nat
  BY <1>1, ParentProperties DEF ItemsIn
<1>4. a[p].val \in Nat /\ p \in Nat /\ p >= 1
  BY <1>1 DEF ItemsIn
<1>5. CASE p > 1 /\ a[Parent(p)].val > a[p].val
  BY <1>2, <1>3, <1>4, <1>5 DEF Rising, OrderedBut
<1>6. CASE ~(p > 1 /\ a[Parent(p)].val > a[p].val)
  BY <1>3, <1>4, <1>6 DEF Sinking
<1> QED
  BY <1>5, <1>6

(* The heap b a loop starts from, in slot p. *)
Started(b, p) ==
  /\ heap' = b /\ b \in Seq(Item) /\ p \in 1..Len(b) /\ StartUpdate(b, p)
  /\ idx' \in [Ref -> 0..Len(b)]
  /\ last' \in {"put", "clear", "fire"} /\ leaving' \in Ref \cup {NoRef}
  /\ OrderedBut(b, p)
  /\ Linked(b, idx', p, leaving')
  /\ goal' = Done(heap_update(b, idx', p), leaving')

LEMMA StartKeepsInv ==
  ASSUME NEW b, NEW p, Started(b, p)
  PROVE  Inv' /\ Whole' = b
<1>1. /\ heap' = b /\ b \in Seq(Item) /\ p \in 1..Len(b)
      /\ pc' = (IF p > 1 /\ b[Parent(p)].val > b[p].val THEN "up" ELSE "down")
      /\ pos' = p /\ t' = b[p]
  BY DEF Started, StartUpdate
<1>2. pc' # "idle" /\ pc' \in {"up", "down"} /\ t' \in Item
  BY <1>1
<1>3. Whole' = b
  <2>1. Whole' = [b EXCEPT ![p] = b[p]]
    BY <1>1, <1>2 DEF Whole
  <2> QED
    BY <2>1, <1>1
<1>4. TypeOK'
  BY <1>1, <1>2 DEF TypeOK, Started
<1>5. Links'
  BY <1>1, <1>2, <1>3 DEF Links, Hole, Started
<1>6. Course'
  <2>1. b \in Seq(ItemsOf(Ref)) /\ OrderedBut(b, p)
    BY <1>1, ItemSeqs DEF Started
  <2>2. IF p > 1 /\ b[Parent(p)].val > b[p].val THEN Rising(b, p) ELSE Sinking(b, p)
    BY <1>1, <2>1, StartsWell
  <2> QED
    BY <1>1, <1>2, <1>3, <2>2 DEF Course
<1>7. OnTheWay'
  BY <1>1, <1>2, <1>3 DEF OnTheWay, Started, heap_update
<1>8. Settled'
  BY <1>2 DEF Settled
<1> QED
  BY <1>3, <1>4, <1>5, <1>6, <1>7, <1>8 DEF Inv

LEMMA PutStep ==
  ASSUME Inv, NEW r \in Ref, NEW d \in Deadline, Put(r, d)
  PROVE  /\ Inv' /\ last' = "put"
         /\ OneChanged(heap, Whole', SlotFor(heap, idx, r), [val |-> d, ref |-> r])
<1> DEFINE b == WithTimer(heap, idx, r, d)
           p == SlotFor(heap, idx, r)
           item == [val |-> d, ref |-> r]
<1>1. /\ heap \in Seq(ItemsOf(Ref)) /\ heap \in Seq(Item) /\ idx \in [Ref -> Nat]
      /\ d \in Nat /\ item \in Item /\ item \in ItemsOf(Ref) /\ item.ref = r
      /\ idx \in [Ref -> 0..Len(heap)]
  <2>1. heap \in Seq(Item) /\ idx \in [Ref -> 0..Len(heap)]
    BY DEF Inv, TypeOK
  <2>2. heap \in Seq(ItemsOf(Ref))
    BY <2>1, ItemSeqs
  <2>3. d \in Nat /\ item \in Item /\ item \in ItemsOf(Ref) /\ item.ref = r
    BY HeapLoopsAssumption DEF Item, ItemsOf
  <2>4. idx \in [Ref -> Nat]
    BY <2>1, <2>2
  <2> QED
    BY <2>1, <2>2, <2>3, <2>4
<1>2. /\ pc = "idle" /\ heap' = b /\ idx' = [idx EXCEPT ![r] = p]
      /\ StartUpdate(b, p) /\ last' = "put" /\ leaving' = NoRef
      /\ goal' = Result(PutTimer(heap, idx, r, d))
  BY DEF Put, WithTimer, SlotFor
<1>3. Linked(heap, idx, NoIdx, NoRef) /\ HeapOrdered(heap)
  BY <1>2 DEF Inv, Links, Whole, Hole, Settled, Course
<1>4. OneChanged(heap, b, p, item)
  BY <1>1, <1>3, PlacedItems
<1>5. PlacedWell(Ref, b, p)
  BY <1>1, <1>3, PlacedOrders, LinkedAtRest DEF IdxFindsItem
<1>6. PutTimer(heap, idx, r, d) = heap_update(b, [idx EXCEPT ![r] = p], p)
  BY DEF PutTimer, WithTimer, SlotFor
<1> HIDE DEF b, p, item
<1>7. b \in Seq(Item)
  <2>1. /\ Len(b) \in Nat /\ DOMAIN b = 1..Len(b)
        /\ \A i \in 1..Len(b) : i = p \/ i \in 1..Len(heap)
    BY <1>1, <1>4, <1>5 DEF OneChanged, PlacedWell
  <2>2. \A i \in 1..Len(b) : b[i] \in Item
    <3>1. \A i \in 1..Len(heap) : heap[i] \in Item
      BY <1>1
    <3>2. \A i \in 1..Len(b) : b[i] = IF i = p THEN item ELSE heap[i]
      BY <1>4 DEF OneChanged
    <3> QED
      BY <1>1, <2>1, <3>1, <3>2
  <2>3. b = [i \in 1..Len(b) |-> b[i]]
    BY <1>5 DEF PlacedWell
  <2> QED
    BY <2>1, <2>2, <2>3
<1>8. Linked(b, [idx EXCEPT ![r] = p], p, NoRef)
  BY <1>1, <1>3, <1>4, <1>5, LinkedPut DEF PlacedWell
<1>9. idx' \in [Ref -> 0..Len(b)]
  <2>1. p \in 0..Len(b) /\ \A s \in Ref : idx[s] \in 0..Len(b)
    BY <1>1, <1>4, <1>5 DEF OneChanged, PlacedWell
  <2> QED
    BY <1>1, <1>2, <2>1
<1>10. Started(b, p)
  <2>1. goal' = Done(heap_update(b, idx', p), leaving')
    BY <1>2, <1>6 DEF Done, Result
  <2> QED
    BY <1>2, <1>5, <1>7, <1>8, <1>9, <2>1 DEF Started, PlacedWell
<1>11. Inv' /\ Whole' = b
  BY <1>10, StartKeepsInv
<1> QED
  BY <1>2, <1>4, <1>11 DEF p, item
LEMMA TakeOutStep ==
  ASSUME Inv, NEW r \in Ref, TakeOut(r), last' \in {"clear", "fire"}
  PROVE  /\ Inv' /\ idx[r] \in 1..Len(heap) /\ heap[idx[r]].ref = r
         /\ OneGone(heap, Whole', idx[r])
<1> DEFINE n == Len(heap)
           p == idx[r]
           b == FillFromLast(heap, p)
<1>1. heap \in Seq(Item) /\ heap \in Seq(ItemsOf(Ref)) /\ idx \in [Ref -> 0..n] /\ n \in Nat
  <2>1. heap \in Seq(Item) /\ idx \in [Ref -> 0..n]
    BY DEF Inv, TypeOK
  <2> QED
    BY <2>1, ItemSeqs
<1>2. idx \in [Ref -> Nat]
  BY <1>1
<1>3. /\ pc = "idle" /\ p # NoIdx /\ heap' = b
      /\ goal' = Result(RemoveTimer(heap, idx, r))
  BY DEF TakeOut
<1>4. Linked(heap, idx, NoIdx, NoRef) /\ HeapOrdered(heap)
  BY <1>3 DEF Inv, Links, Whole, Hole, Settled, Course
<1>5. /\ p \in 1..n /\ heap[p].ref = r
      /\ \A i \in 1..n : idx[heap[i].ref] = i
      /\ \A s \in Ref : idx[s] # NoIdx => heap[idx[s]].ref = s
  BY <1>1, <1>2, <1>3, <1>4, LinkedAtRest DEF IdxFindsItem, ItemHasIdx
<1>6. OneGone(heap, b, p) /\ FilledWell(Ref, b, n, p)
  BY <1>1, <1>4, <1>5, FilledItems, FillOrders
<1>7. b \in Seq(Item) /\ b \in Seq(ItemsOf(Ref))
  <2> HIDE DEF b
  <2>1. b \in Seq(ItemsOf(Ref)) /\ Len(b) = n - 1 /\ n \in 1..n
    BY <1>1, <1>5, <1>6 DEF FilledWell
  <2>2. \A i \in 1..Len(b) : b[i] = heap[i] \/ b[i] = heap[n]
    BY <1>6 DEF OneGone
  <2>3. \A i \in 1..n : heap[i] \in Item
    BY <1>1
  <2>4. \A i \in 1..Len(b) : b[i] \in Item
    BY <1>1, <2>1, <2>2, <2>3
  <2>5. b = [i \in 1..Len(b) |-> b[i]]
    BY <2>1
  <2> QED
    BY <2>1, <2>4, <2>5
<1> HIDE DEF b
<1>8. CASE p = n
  <2> DEFINE jdx == [idx EXCEPT ![r] = NoIdx]
  <2>1. idx' = jdx /\ leaving' = NoRef /\ pc' = "idle" /\ pos' = pos
    BY <1>3, <1>8 DEF TakeOut
  <2>2. Linked(b, jdx, NoIdx, NoRef)
    BY <1>1, <1>2, <1>3, <1>4, <1>6, <1>7, <1>8, LinkedRemove
  <2>3. jdx \in [Ref -> Nat]
    BY <1>2 DEF NoIdx
  <2>4. Whole' = b /\ Hole' = NoIdx
    BY <1>3, <2>1 DEF Whole, Hole
  <2>5. goal' = [heap |-> b, idx |-> jdx]
    BY <1>3, <1>8 DEF Result, RemoveTimer, b
  <2> HIDE DEF jdx
  <2>6. jdx \in [Ref -> 0..Len(b)]
    <3>1. IdxFindsItem(b, jdx)
      BY <1>7, <2>2, <2>3, LinkedAtRest
    <3>2. \A s \in Ref : jdx[s] \in 0..Len(b)
      BY <2>3, <3>1 DEF IdxFindsItem, NoIdx
    <3> QED
      BY <2>3, <3>2
  <2>7. TypeOK'
    <3>1. pos \in Nat \ {0}
      BY DEF Inv, TypeOK
    <3> QED
      BY <1>3, <1>7, <2>1, <2>6, <3>1 DEF TypeOK
  <2>8. HeapOrdered(b)
    BY <1>6, <1>8 DEF FilledWell
  <2>9. Settled' /\ Links' /\ Course' /\ OnTheWay'
    BY <1>3, <2>1, <2>2, <2>4, <2>5, <2>8 DEF Settled, Links, Course, OnTheWay
  <2> QED
    BY <1>5, <1>6, <2>4, <2>7, <2>9 DEF Inv
<1>9. CASE p # n
  <2> DEFINE e == heap[n].ref
             jdx == [idx EXCEPT ![e] = p]
  <2>1. idx' = jdx /\ leaving' = r /\ StartUpdate(b, p)
    BY <1>3, <1>9 DEF TakeOut
  <2>2. p \in 1..Len(b) /\ e \in Ref /\ Linked(b, jdx, p, r)
    BY <1>1, <1>2, <1>3, <1>4, <1>6, <1>7, <1>9, LinkedRemove
  <2>3. OrderedBut(b, p) /\ Len(b) = n - 1
    BY <1>6, <1>9 DEF FilledWell
  <2>4. goal' = Done(heap_update(b, jdx, p), r)
    <3>1. r # NoRef
      BY HeapLoopsAssumption
    <3> QED
      BY <1>3, <1>9, <3>1 DEF Result, RemoveTimer, Done, b
  <2>5. jdx \in [Ref -> 0..Len(b)]
    <3>1. \A s \in Ref : s # e => idx[s] # n
      BY <1>1, <1>3, <1>5 DEF NoIdx
    <3>2. \A s \in Ref : jdx[s] = IF s = e THEN p ELSE idx[s]
      BY <1>1, <2>2
    <3>3. \A s \in Ref : idx[s] \in 0..n
      BY <1>1
    <3> HIDE DEF jdx, e
    <3>4. \A s \in Ref : jdx[s] \in 0..Len(b)
      BY <1>1, <2>2, <2>3, <3>1, <3>2, <3>3
    <3>5. jdx \in [Ref -> Nat]
      BY <1>1, <1>2, <1>5 DEF jdx
    <3> QED
      BY <3>4, <3>5
  <2> HIDE DEF jdx, e
  <2>6. Started(b, p)
    BY <1>3, <1>7, <2>1, <2>2, <2>3, <2>4, <2>5 DEF Started
  <2>7. Inv' /\ Whole' = b
    BY <2>6, StartKeepsInv
  <2> QED
    BY <1>5, <1>6, <2>7
<1> QED
  BY <1>8, <1>9

(* One iteration: the hole and the slot q change places. *)
LEMMA MoveStep ==
  ASSUME Inv, pc # "idle", NEW q \in 1..Len(heap), q # pos, MoveHole(q),
         pc = "up" => /\ Rising(Exchanged(Whole, pos, q), q)
                      /\ SameResult(heap_up(Whole, idx, pos),
                                    heap_up(Exchanged(Whole, pos, q),
                                            [idx EXCEPT ![Whole[q].ref] = pos], q)),
         pc = "down" => /\ Sinking(Exchanged(Whole, pos, q), q)
                        /\ SameResult(heap_down(Whole, idx, pos),
                                      heap_down(Exchanged(Whole, pos, q),
                                                [idx EXCEPT ![Whole[q].ref] = pos], q))
  PROVE  Inv' /\ Whole' = Exchanged(Whole, pos, q) /\ last' = last
<1> PICK a : a = Whole
  OBVIOUS
<1> PICK p : p = pos
  OBVIOUS
<1> PICK n : n = Len(heap)
  OBVIOUS
<1> DEFINE b == Exchanged(a, p, q)
           jdx == [idx EXCEPT ![a[q].ref] = p]
<1>1. HeapAsWhole(a) /\ TypeOK /\ t \in Item /\ p \in 1..n /\ heap \in Seq(Item)
  BY WholeType DEF Inv, TypeOK
<1>2. /\ a \in Seq(Item) /\ a \in Seq(ItemsOf(Ref)) /\ Len(a) = n /\ n \in Nat
      /\ a[p] = t /\ \A i \in 1..n : i # p => a[i] = heap[i]
  BY <1>1 DEF HeapAsWhole
<1>3. /\ heap' = [heap EXCEPT ![p] = heap[q]] /\ idx' = jdx
      /\ pos' = q /\ pc' = pc /\ t' = t /\ leaving' = leaving /\ goal' = goal /\ last' = last
  BY <1>2 DEF MoveHole
<1>4. /\ b \in Seq(Item) /\ Len(b) = n
      /\ \A i \in 1..n : b[i] = IF i = q THEN a[p] ELSE IF i = p THEN a[q] ELSE a[i]
  <2>1. ChangePlaces(Item, a, p, q, b)
    BY <1>1, <1>2, ExchangedProperties
  <2> HIDE DEF b
  <2> QED
    BY <1>2, <2>1 DEF ChangePlaces
<1>5. /\ heap' \in Seq(Item) /\ Len(heap') = n
      /\ \A i \in 1..n : heap'[i] = IF i = p THEN heap[q] ELSE heap[i]
  <2>1. heap[q] \in Item
    BY <1>1
  <2> QED
    BY <1>1, <1>3, <2>1, ExceptSeq
<1>6. Whole' = b
  <2>1. Whole' = [heap' EXCEPT ![q] = t]
    BY <1>3 DEF Whole
  <2> PICK h : h = heap'
    OBVIOUS
  <2> PICK c : c = Whole'
    OBVIOUS
  <2>2. /\ c \in Seq(Item) /\ Len(c) = n
        /\ \A i \in 1..n : c[i] = IF i = q THEN t ELSE h[i]
    BY <1>1, <1>5, <2>1, ExceptSeq
  <2>3. \A i \in 1..n : c[i] = b[i]
    BY <1>2, <1>4, <1>5, <2>2
  <2> HIDE DEF b
  <2>4. c = [i \in 1..n |-> c[i]] /\ b = [i \in 1..n |-> b[i]]
    BY <1>4, <2>2
  <2> QED
    BY <2>3, <2>4
<1>7. idx \in [Ref -> 0..n] /\ idx \in [Ref -> Nat] /\ a[q].ref \in Ref
  <2>1. idx \in [Ref -> 0..n] /\ a[q] \in Item
    BY <1>1, <1>2 DEF TypeOK
  <2> QED
    BY <1>2, <2>1 DEF Item
<1>8. jdx \in [Ref -> 0..n]
  <2>1. p \in 0..n
    BY <1>1, <1>2
  <2> QED
    BY <1>7, <2>1
<1>9. TypeOK'
  BY <1>1, <1>2, <1>3, <1>5, <1>8 DEF TypeOK
<1>10. Links'
  <2>1. Linked(a, idx, p, leaving)
    BY DEF Inv, Links, Hole
  <2>2. Linked(b, jdx, q, leaving)
    BY <1>1, <1>2, <1>7, <2>1, LinkedStep
  <2> QED
    BY <1>3, <1>6, <2>2 DEF Links, Hole
<1> HIDE DEF b
<1>11. Course' /\ Settled'
  BY <1>1, <1>3, <1>6 DEF Course, Settled, TypeOK, b
<1>12. OnTheWay'
  <2>1. /\ pc = "up" => goal = Done(heap_up(a, idx, p), leaving)
        /\ pc = "down" => goal = Done(heap_down(a, idx, p), leaving)
    BY DEF Inv, OnTheWay
  <2>2. /\ pc = "up" => SameResult(heap_up(a, idx, p), heap_up(b, jdx, q))
        /\ pc = "down" => SameResult(heap_down(a, idx, p), heap_down(b, jdx, q))
    BY DEF b
  <2> HIDE DEF jdx
  <2> QED
    BY <1>3, <1>6, <2>1, <2>2 DEF OnTheWay, Done, SameResult
<1> QED
  BY <1>3, <1>6, <1>9, <1>10, <1>11, <1>12 DEF Inv, b

(* After the loop. *)
LEMMA LandStep ==
  ASSUME Inv, pc # "idle", Land, HeapOrdered(Whole),
         goal = Done([heap |-> Whole, idx |-> [idx EXCEPT ![Whole[pos].ref] = pos]], leaving)
  PROVE  Inv' /\ Whole' = Whole /\ last' = last
<1> PICK a : a = Whole
  OBVIOUS
<1> PICK p : p = pos
  OBVIOUS
<1> DEFINE jdx == Reset([idx EXCEPT ![a[p].ref] = p], leaving)
<1>1. /\ a \in Seq(Item) /\ a \in Seq(ItemsOf(Ref)) /\ Len(a) = Len(heap)
      /\ a[p] = t /\ p \in 1..Len(a) /\ a = [heap EXCEPT ![p] = t]
  BY WholeType DEF Inv, TypeOK, HeapAsWhole, Whole
<1>2. heap' = a /\ idx' = jdx /\ pc' = "idle" /\ leaving' = NoRef /\ pos' = 1 /\ goal' = goal
      /\ last' = last
  BY <1>1 DEF Land, Reset
<1>3. idx \in [Ref -> 0..Len(a)] /\ idx \in [Ref -> Nat] /\ leaving \in Ref \cup {NoRef}
  BY <1>1 DEF Inv, TypeOK
<1>4. a[p].ref \in Ref /\ Len(a) \in Nat
  BY <1>1, ItemsTyped DEF ItemsIn
<1>5. jdx \in [Ref -> 0..Len(a)] /\ jdx \in [Ref -> Nat]
  <2>1. p \in 0..Len(a) /\ NoIdx \in 0..Len(a)
    BY <1>1, <1>4 DEF NoIdx
  <2>2. [idx EXCEPT ![a[p].ref] = p] \in [Ref -> 0..Len(a)]
    BY <1>3, <2>1
  <2>3. jdx \in [Ref -> 0..Len(a)]
    BY <2>1, <2>2 DEF Reset
  <2> HIDE DEF jdx
  <2> QED
    BY <1>4, <2>3
<1>6. Linked(a, jdx, NoIdx, NoRef)
  <2>1. Linked(a, idx, p, leaving)
    BY DEF Inv, Links, Hole
  <2> QED
    BY <1>1, <1>3, <2>1, LinkedEnd
<1>7. goal = [heap |-> a, idx |-> jdx]
  BY DEF Done, Reset
<1> HIDE DEF jdx
<1>8. Whole' = a /\ Hole' = NoIdx
  BY <1>2 DEF Whole, Hole
<1>9. TypeOK'
  BY <1>1, <1>2, <1>5 DEF TypeOK, Inv
<1>10. Links' /\ Course' /\ OnTheWay' /\ Settled'
  BY <1>2, <1>6, <1>7, <1>8 DEF Links, Course, OnTheWay, Settled
<1> QED
  BY <1>2, <1>8, <1>9, <1>10 DEF Inv
(* heap_down's choice of a child, as Heap.tla states it. *)
LEMMA MinPosIsSink ==
  ASSUME TypeOK, pc = "down"
  PROVE  MinPos = Sink(Whole, pos)[pos]
<1> PICK a : a = Whole
  OBVIOUS
<1> PICK p : p = pos
  OBVIOUS
<1> DEFINE n == Len(heap)
           l == 2 * p
           r == 2 * p + 1
<1>1. /\ n \in Nat /\ p \in Nat /\ p \in 1..n /\ Len(a) = n /\ t.val \in Nat
      /\ a[p] = t /\ \A i \in 1..n : i # p => a[i] = heap[i]
      /\ \A i \in 1..n : a[i].val \in Nat
  <2>1. HeapAsWhole(a) /\ p \in 1..n
    BY WholeType DEF TypeOK
  <2>2. ItemsIn(Ref, a)
    BY <2>1, ItemsTyped DEF HeapAsWhole
  <2> QED
    BY <2>1, <2>2 DEF HeapAsWhole, ItemsIn
<1>2. MinPos = LET m1 == IF l <= n /\ heap[l].val < t.val THEN l ELSE p
                   v1 == IF m1 = l THEN heap[l].val ELSE t.val
               IN IF r <= n /\ heap[r].val < v1 THEN r ELSE m1
  BY <1>1 DEF MinPos
<1>3. Sink(a, p)[p] = CASE Smaller(a, p, p, l) -> l
                        [] Smaller(a, p, p, r) /\ ~Smaller(a, p, p, l) -> r
                        [] OTHER -> p
  BY <1>1 DEF Sink
<1>4. /\ l # p /\ r # p /\ l # r
      /\ l <= n => l \in 1..n /\ a[l] = heap[l] /\ heap[l].val \in Nat
      /\ r <= n => l <= n /\ r \in 1..n /\ a[r] = heap[r] /\ heap[r].val \in Nat
  <2>1. l \in Nat /\ r \in Nat /\ l > p /\ r > p /\ l >= 1 /\ r >= 1 /\ r = l + 1
    BY <1>1
  <2> HIDE DEF l, r, n
  <2>2. /\ l <= n => l \in 1..n /\ l # p
        /\ r <= n => r \in 1..n /\ r # p /\ l <= n
    BY <1>1, <2>1
  <2>3. /\ l <= n => a[l] = heap[l] /\ heap[l].val \in Nat
        /\ r <= n => a[r] = heap[r] /\ heap[r].val \in Nat
    BY <1>1, <2>2
  <2> QED
    BY <1>1, <2>1, <2>2, <2>3
<1>5. /\ Smaller(a, p, p, l) <=> /\ l <= n /\ heap[l].val < t.val
                                 /\ r <= n => heap[l].val <= heap[r].val
      /\ Smaller(a, p, p, r) <=> /\ r <= n /\ heap[r].val < t.val
                                 /\ heap[r].val <= heap[l].val
  <2>1. /\ Smaller(a, p, p, l) <=> /\ l <= n /\ a[l].val < t.val
                                   /\ l <= n => a[l].val <= a[l].val
                                   /\ r <= n => a[l].val <= a[r].val
        /\ Smaller(a, p, p, r) <=> /\ r <= n /\ a[r].val < t.val
                                   /\ l <= n => a[r].val <= a[l].val
                                   /\ r <= n => a[r].val <= a[r].val
    BY <1>1 DEF Smaller
  <2> HIDE DEF l, r, n
  <2> QED
    BY <1>4, <2>1
<1> HIDE DEF l, r, n
<1>6. CASE l <= n /\ heap[l].val < t.val
  <2>1. CASE r <= n /\ heap[r].val < heap[l].val
    <3>1. Smaller(a, p, p, r) /\ ~Smaller(a, p, p, l)
      BY <1>1, <1>4, <1>5, <1>6, <2>1
    <3> QED
      BY <1>2, <1>3, <1>4, <1>6, <2>1, <3>1
  <2>2. CASE ~(r <= n /\ heap[r].val < heap[l].val)
    <3>1. Smaller(a, p, p, l)
      BY <1>1, <1>4, <1>5, <1>6, <2>2
    <3> QED
      BY <1>2, <1>3, <1>4, <1>6, <2>2, <3>1
  <2> QED
    BY <2>1, <2>2
<1>7. CASE ~(l <= n /\ heap[l].val < t.val)
  <2>1. ~Smaller(a, p, p, l)
    BY <1>5, <1>7
  <2>2. CASE r <= n /\ heap[r].val < t.val
    <3>1. Smaller(a, p, p, r)
      BY <1>1, <1>4, <1>5, <1>7, <2>2
    <3> QED
      BY <1>2, <1>3, <1>4, <1>7, <2>1, <2>2, <3>1
  <2>3. CASE ~(r <= n /\ heap[r].val < t.val)
    <3>1. ~Smaller(a, p, p, r)
      BY <1>5, <2>3
    <3> QED
      BY <1>2, <1>3, <1>4, <1>7, <2>1, <2>3, <3>1
  <2> QED
    BY <2>2, <2>3
<1> QED
  BY <1>6, <1>7

(* What the loops know of the heap they walk. *)
LEMMA Running ==
  ASSUME Inv, pc # "idle"
  PROVE  /\ TypeOK /\ HeapAsWhole(Whole) /\ Whole \in Seq(ItemsOf(Ref)) /\ Distinct(Whole)
         /\ pos \in 1..Len(Whole) /\ Whole[pos] = t /\ idx \in [Ref -> Nat]
<1>1. TypeOK /\ HeapAsWhole(Whole)
  BY WholeType DEF Inv
<1>2. pos \in 1..Len(heap) /\ idx \in [Ref -> 0..Len(heap)] /\ Len(heap) \in Nat
  BY <1>1 DEF TypeOK
<1>3. pos \in 1..Len(Whole) /\ Whole[pos] = t /\ Whole \in Seq(ItemsOf(Ref))
  BY <1>1, <1>2 DEF HeapAsWhole
<1>4. idx \in [Ref -> Nat]
  BY <1>2
<1>5. Distinct(Whole)
  BY DEF Inv, Links, Linked
<1> QED
  BY <1>1, <1>3, <1>4, <1>5

LEMMA ParentInWhole ==
  ASSUME Inv, pc # "idle", pos > 1
  PROVE  Parent(pos) \in 1..Len(heap) /\ Parent(pos) # pos /\ heap[Parent(pos)] = Whole[Parent(pos)]
<1>1. HeapAsWhole(Whole) /\ pos \in 1..Len(heap) /\ Len(heap) \in Nat
  BY Running DEF TypeOK
<1>2. Parent(pos) \in Nat /\ 1 <= Parent(pos) /\ Parent(pos) < pos
  BY <1>1, ParentProperties
<1>3. Parent(pos) \in 1..Len(heap) /\ Parent(pos) # pos
  BY <1>1, <1>2
<1> QED
  BY <1>1, <1>3 DEF HeapAsWhole

LEMMA UpMoves ==
  ASSUME Inv, UpStep
  PROVE  Inv' /\ Whole' = Exchanged(Whole, pos, Parent(pos)) /\ last' = last
<1> PICK q : q = Parent(pos)
  OBVIOUS
<1> PICK a : a = Whole
  OBVIOUS
<1>1. pc = "up" /\ pc # "idle" /\ pos > 1 /\ heap[q].val > t.val /\ MoveHole(q)
  BY DEF UpStep, ClimbsHigher
<1>2. q \in 1..Len(heap) /\ q # pos /\ heap[q] = a[q]
  BY <1>1, ParentInWhole
<1>3. /\ a \in Seq(ItemsOf(Ref)) /\ Distinct(a) /\ pos \in 1..Len(a) /\ a[pos] = t
      /\ idx \in [Ref -> Nat]
  BY <1>1, Running
<1>4. a[q].val > a[pos].val
  BY <1>1, <1>2, <1>3
<1>5. Rising(a, pos)
  BY <1>1 DEF Inv, Course
<1>6. Rising(Exchanged(a, pos, q), q)
  BY <1>1, <1>3, <1>4, <1>5, RisingStep
<1>7. SameResult(heap_up(a, idx, pos),
                 heap_up(Exchanged(a, pos, q), [idx EXCEPT ![a[q].ref] = pos], q))
  BY <1>1, <1>3, <1>4, UpUnfolds
<1> QED
  BY <1>1, <1>2, <1>6, <1>7, MoveStep

LEMMA UpLands ==
  ASSUME Inv, UpEnd
  PROVE  Inv' /\ Whole' = Whole /\ last' = last
<1> PICK a : a = Whole
  OBVIOUS
<1>1. pc = "up" /\ pc # "idle" /\ ~ClimbsHigher /\ Land
  BY DEF UpEnd
<1>2. /\ a \in Seq(ItemsOf(Ref)) /\ pos \in 1..Len(a) /\ a[pos] = t /\ idx \in [Ref -> Nat]
  BY <1>1, Running
<1>3. ~(pos > 1 /\ a[Parent(pos)].val > a[pos].val)
  BY <1>1, <1>2, ParentInWhole DEF ClimbsHigher
<1>4. HeapOrdered(a)
  BY <1>1, <1>2, <1>3, LoopEndsOrdered DEF Inv, Course
<1>5. SameResult(heap_up(a, idx, pos),
                 [heap |-> a, idx |-> [idx EXCEPT ![a[pos].ref] = pos]])
  BY <1>2, <1>3, UpEnds
<1>6. goal = Done(heap_up(a, idx, pos), leaving)
  BY <1>1 DEF Inv, OnTheWay
<1>7. goal = Done([heap |-> a, idx |-> [idx EXCEPT ![a[pos].ref] = pos]], leaving)
  BY <1>5, <1>6 DEF SameResult, Done
<1> QED
  BY <1>1, <1>4, <1>7, LandStep

LEMMA DownMoves ==
  ASSUME Inv, DownStep
  PROVE  /\ Inv' /\ last' = last
         /\ \E q \in 1..Len(Whole) : Whole' = Exchanged(Whole, pos, q)
<1> PICK q : q = MinPos
  OBVIOUS
<1> PICK a : a = Whole
  OBVIOUS
<1>1. pc = "down" /\ pc # "idle" /\ q # pos /\ MoveHole(q)
  BY DEF DownStep
<1>2. /\ a \in Seq(ItemsOf(Ref)) /\ Distinct(a) /\ pos \in 1..Len(a) /\ a[pos] = t
      /\ idx \in [Ref -> Nat] /\ HeapAsWhole(a) /\ TypeOK
  BY <1>1, Running
<1>3. q = Sink(a, pos)[pos]
  BY <1>1, <1>2, MinPosIsSink
<1>4. q \in 1..Len(a) /\ q \in 1..Len(heap)
  BY <1>1, <1>2, <1>3, SinkChild DEF HeapAsWhole
<1>5. Sinking(a, pos)
  BY <1>1 DEF Inv, Course
<1>6. Sinking(Exchanged(a, pos, q), q)
  BY <1>1, <1>2, <1>3, <1>5, SinkingStep
<1>7. SameResult(heap_down(a, idx, pos),
                 heap_down(Exchanged(a, pos, q), [idx EXCEPT ![a[q].ref] = pos], q))
  BY <1>1, <1>2, <1>3, DownUnfolds
<1>8. Inv' /\ Whole' = Exchanged(Whole, pos, q) /\ last' = last
  BY <1>1, <1>4, <1>6, <1>7, MoveStep
<1> QED
  BY <1>4, <1>8

LEMMA DownLands ==
  ASSUME Inv, DownEnd
  PROVE  Inv' /\ Whole' = Whole /\ last' = last
<1> PICK a : a = Whole
  OBVIOUS
<1>1. pc = "down" /\ pc # "idle" /\ MinPos = pos /\ Land
  BY DEF DownEnd
<1>2. /\ a \in Seq(ItemsOf(Ref)) /\ pos \in 1..Len(a) /\ a[pos] = t /\ idx \in [Ref -> Nat]
      /\ TypeOK
  BY <1>1, Running
<1>3. Sink(a, pos)[pos] = pos
  BY <1>1, <1>2, MinPosIsSink
<1>4. HeapOrdered(a)
  BY <1>1, <1>2, <1>3, LoopEndsOrdered DEF Inv, Course
<1>5. SameResult(heap_down(a, idx, pos),
                 [heap |-> a, idx |-> [idx EXCEPT ![a[pos].ref] = pos]])
  BY <1>2, <1>3, DownEnds
<1>6. goal = Done(heap_down(a, idx, pos), leaving)
  BY <1>1 DEF Inv, OnTheWay
<1>7. goal = Done([heap |-> a, idx |-> [idx EXCEPT ![a[pos].ref] = pos]], leaving)
  BY <1>5, <1>6 DEF SameResult, Done
<1> QED
  BY <1>1, <1>4, <1>7, LandStep

LEMMA InitInv == Init => Inv
<1> SUFFICES ASSUME Init
             PROVE  Inv
  OBVIOUS
<1>1. TypeOK
  BY HeapLoopsAssumption DEF Init, TypeOK, NoIdx
<1>2. Len(heap) = 0 /\ Whole = heap /\ Hole = NoIdx
  BY DEF Init, Whole, Hole
<1>3. Links
  BY <1>2 DEF Links, Linked, Distinct, Init
<1>4. Course /\ OnTheWay /\ Settled
  BY <1>2 DEF Course, OnTheWay, Settled, Init, HeapOrdered
<1> QED
  BY <1>1, <1>3, <1>4 DEF Inv

LEMMA NextInv == Inv /\ [Next]_vars => Inv'
<1> SUFFICES ASSUME Inv, [Next]_vars
             PROVE  Inv'
  OBVIOUS
<1>1. ASSUME NEW r \in Ref, NEW d \in Deadline, Put(r, d)
      PROVE  Inv'
  BY <1>1, PutStep
<1>2. ASSUME NEW r \in Ref, Clear(r)
      PROVE  Inv'
  BY <1>2, TakeOutStep DEF Clear
<1>3. ASSUME Fire
      PROVE  Inv'
  <2>1. heap[1].ref \in Ref
    <3>1. heap \in Seq(ItemsOf(Ref)) /\ heap # <<>>
      BY <1>3, ItemSeqs DEF Inv, TypeOK, Fire
    <3>2. ItemsIn(Ref, heap) /\ 1 \in 1..Len(heap)
      BY <3>1, ItemsTyped, EmptySeq
    <3> QED
      BY <3>2 DEF ItemsIn
  <2> QED
    BY <1>3, <2>1, TakeOutStep DEF Fire
<1>4. CASE UpStep
  BY <1>4, UpMoves
<1>5. CASE UpEnd
  BY <1>5, UpLands
<1>6. CASE DownStep
  BY <1>6, DownMoves
<1>7. CASE DownEnd
  BY <1>7, DownLands
<1>8. CASE UNCHANGED vars
  BY <1>8 DEF vars, Inv, TypeOK, Settled, Links, Course, OnTheWay, Whole, Hole
<1> QED
  BY <1>1, <1>2, <1>3, <1>4, <1>5, <1>6, <1>7, <1>8 DEF Next

LEMMA Invariance == Spec => []Inv
<1> QED
  BY InitInv, NextInv, PTL DEF Spec

(* Every value stays in its type: no index of a loop leaves the array.     *)
THEOREM TypeCorrect == Spec => []TypeOK
<1>1. Inv => TypeOK
  BY DEF Inv
<1> QED
  BY <1>1, Invariance, PTL

(* Between two operations the deadlines are in heap order, and every item  *)
(* and its entry's heap_idx refer to each other, so heap_up and heap_down  *)
(* write each "*a[pos].ref" they have to.                                  *)
THEOREM HeapSoundAtRest == Spec => []SoundWhenIdle
<1>1. Inv => SoundWhenIdle
  <2> SUFFICES ASSUME Inv, pc = "idle"
               PROVE  HeapOrdered(heap) /\ IdxFindsItem(heap, idx) /\ ItemHasIdx(heap, idx)
    BY DEF SoundWhenIdle
  <2>1. HeapOrdered(heap) /\ Linked(heap, idx, NoIdx, NoRef)
    BY DEF Inv, Course, Links, Whole, Hole, Settled
  <2>2. heap \in Seq(ItemsOf(Ref)) /\ idx \in [Ref -> Nat]
    <3>1. heap \in Seq(Item) /\ idx \in [Ref -> 0..Len(heap)] /\ Len(heap) \in Nat
      BY DEF Inv, TypeOK
    <3> QED
      BY <3>1, ItemSeqs
  <2> QED
    BY <2>1, <2>2, LinkedAtRest
<1> QED
  BY <1>1, Invariance, PTL

(* The loops of heap.cpp end with the heap and the heap_idx of every entry *)
(* that Heap.tla's operators give, whatever the operation: what is proved  *)
(* of the operators (KeyspaceProofs) is true of the loops.                 *)
THEOREM LoopsComputeOperators == Spec => []LoopsMeetDefinition
<1>1. Inv => LoopsMeetDefinition
  BY DEF Inv, OnTheWay, LoopsMeetDefinition
<1> QED
  BY <1>1, Invariance, PTL
-----------------------------------------------------------------------------
(* The deadlines f are those of the items of a. *)
Shows(a, f) ==
  /\ f \in [Ref -> Deadline \cup {NoDeadline}]
  /\ \A i \in 1..Len(a) : f[a[i].ref] = a[i].val
  /\ \A r \in Ref : (\A i \in 1..Len(a) : a[i].ref # r) => f[r] = NoDeadline

LEMMA ShowsOne ==
  ASSUME NEW a, NEW f, NEW g, Shows(a, f), Shows(a, g)
  PROVE  f = g
<1>1. \A r \in Ref : f[r] = g[r]
  BY DEF Shows
<1> QED
  BY <1>1 DEF Shows

LEMMA DueShows == Inv => Shows(Whole, Due)
<1> SUFFICES ASSUME Inv
             PROVE  Shows(Whole, Due)
  OBVIOUS
<1> PICK a : a = Whole
  OBVIOUS
<1>1. HeapAsWhole(a) /\ Distinct(a)
  BY WholeType DEF Inv, Links, Linked
<1>2. /\ Len(a) \in Nat /\ \A i \in 1..Len(a) : a[i] \in Item
      /\ \A i \in 1..Len(a) : a[i].val \in Deadline /\ a[i].ref \in Ref
  <2>1. Len(a) \in Nat /\ \A i \in 1..Len(a) : a[i] \in Item
    BY <1>1 DEF HeapAsWhole
  <2> QED
    BY <2>1 DEF Item
<1>3. Items = {a[i] : i \in 1..Len(a)}
  BY <1>1 DEF Items, HeapAsWhole
<1>4. ASSUME NEW i \in 1..Len(a)
      PROVE  Due[a[i].ref] = a[i].val
  <2> PICK r : r = a[i].ref
    OBVIOUS
  <2>1. \E x \in Items : x.ref = r
    BY <1>3
  <2>2. \A x \in Items : x.ref = r => x = a[i]
    BY <1>1, <1>3 DEF Distinct
  <2>3. (CHOOSE x \in Items : x.ref = r) = a[i]
    BY <2>1, <2>2
  <2>4. r \in Ref
    BY <1>2
  <2> QED
    BY <2>1, <2>3, <2>4 DEF Due
<1>5. ASSUME NEW r \in Ref, \A i \in 1..Len(a) : a[i].ref # r
      PROVE  Due[r] = NoDeadline
  BY <1>3, <1>5 DEF Due
<1>6. ASSUME NEW r \in Ref
      PROVE  Due[r] \in Deadline \cup {NoDeadline}
  BY <1>2, <1>4, <1>5
<1>7. Due \in [Ref -> Deadline \cup {NoDeadline}]
  <2>1. Due = [r \in Ref |-> Due[r]]
    BY DEF Due
  <2> QED
    BY <2>1, <1>6
<1> QED
  BY <1>4, <1>5, <1>7 DEF Shows

LEMMA ExchangeShows ==
  ASSUME NEW a \in Seq(ItemsOf(Ref)), NEW p \in 1..Len(a), NEW q \in 1..Len(a),
         NEW f, Shows(a, f)
  PROVE  Shows(Exchanged(a, p, q), f)
<1> DEFINE b == Exchanged(a, p, q)
<1>1. /\ Len(b) = Len(a)
      /\ \A i \in 1..Len(a) : b[i] = IF i = q THEN a[p] ELSE IF i = p THEN a[q] ELSE a[i]
  <2>1. ChangePlaces(ItemsOf(Ref), a, p, q, b)
    BY ExchangedProperties
  <2> HIDE DEF b
  <2> QED
    BY <2>1 DEF ChangePlaces
<1> HIDE DEF b
<1>2. \A i \in 1..Len(b) : f[b[i].ref] = b[i].val
  BY <1>1 DEF Shows
<1>3. ASSUME NEW r \in Ref, \A i \in 1..Len(b) : b[i].ref # r
      PROVE  f[r] = NoDeadline
  <2>1. b[p] = a[q] /\ b[q] = a[p] /\ \A i \in 1..Len(a) : i # p /\ i # q => b[i] = a[i]
    BY <1>1
  <2>2. \A i \in 1..Len(a) : a[i].ref # r
    BY <1>1, <1>3, <2>1
  <2> QED
    BY <2>2 DEF Shows
<1> QED
  BY <1>2, <1>3 DEF Shows, b

LEMMA PutShows ==
  ASSUME NEW a, Len(a) \in Nat, NEW b, NEW p, NEW r \in Ref, NEW d \in Deadline,
         OneChanged(a, b, p, [val |-> d, ref |-> r]), Distinct(b), Len(b) \in Nat,
         NEW f, Shows(a, f)
  PROVE  Shows(b, [f EXCEPT ![r] = d])
<1> DEFINE g == [f EXCEPT ![r] = d]
           item == [val |-> d, ref |-> r]
<1>1. item.ref = r /\ item.val = d
  OBVIOUS
<1>2. OneChanged(a, b, p, item)
  OBVIOUS
<1> HIDE DEF item
<1>3. /\ p \in 1..Len(b) /\ b[p] = item
      /\ \A i \in 1..Len(b) : i # p => b[i] = a[i] /\ i \in 1..Len(a)
  BY <1>2 DEF OneChanged
<1>4. /\ g \in [Ref -> Deadline \cup {NoDeadline}]
      /\ \A s \in Ref : g[s] = IF s = r THEN d ELSE f[s]
      /\ g[r] = d /\ \A s : s # r /\ s \in DOMAIN g => g[s] = f[s]
  BY DEF Shows
<1>5. ASSUME NEW i \in 1..Len(b)
      PROVE  g[b[i].ref] = b[i].val
  <2>1. CASE i = p
    BY <1>1, <1>3, <1>4, <2>1
  <2>2. CASE i # p
    <3>1. b[i].ref # r
      BY <1>1, <1>3, <2>2 DEF Distinct
    <3>2. f[b[i].ref] = b[i].val
      BY <1>3, <2>2 DEF Shows
    <3>3. g[b[i].ref] = f[b[i].ref]
      BY <3>1 DEF Shows
    <3> QED
      BY <3>2, <3>3
  <2> QED
    BY <2>1, <2>2
<1>6. ASSUME NEW s \in Ref, \A i \in 1..Len(b) : b[i].ref # s
      PROVE  g[s] = NoDeadline
  <2>1. s # r
    BY <1>1, <1>3, <1>6
  <2>2. \A i \in 1..Len(a) : a[i].ref # s
    <3> TAKE i \in 1..Len(a)
    <3>1. CASE i = p
      BY <1>1, <1>2, <1>3, <2>1, <3>1 DEF OneChanged
    <3>2. CASE i # p
      <4>1. i \in 1..Len(b)
        BY <1>2 DEF OneChanged
      <4> QED
        BY <1>3, <1>6, <3>2, <4>1
    <3> QED
      BY <3>1, <3>2
  <2> QED
    BY <1>4, <2>1, <2>2 DEF Shows
<1> HIDE DEF g
<1> QED
  BY <1>4, <1>5, <1>6 DEF Shows, g

LEMMA TakeOutShows ==
  ASSUME NEW a \in Seq(ItemsOf(Ref)), Distinct(a), NEW p \in 1..Len(a),
         NEW b, OneGone(a, b, p), NEW f, Shows(a, f)
  PROVE  Shows(b, [f EXCEPT ![a[p].ref] = NoDeadline])
<1> DEFINE n == Len(a)
           r == a[p].ref
           g == [f EXCEPT ![r] = NoDeadline]
<1>1. n \in Nat /\ \A i \in 1..n : a[i].ref \in Ref
  BY ItemsTyped DEF ItemsIn
<1>2. /\ Len(b) = n - 1 /\ n \in 1..n
      /\ \A i \in 1..n - 1 : b[i] = IF i = p THEN a[n] ELSE a[i]
  BY <1>1 DEF OneGone
<1>3. \A i \in 1..n : a[i].ref = r => i = p
  BY DEF Distinct
<1>4. \A s \in Ref : g[s] = IF s = r THEN NoDeadline ELSE f[s]
  BY DEF Shows
<1>4a. g \in [Ref -> Deadline \cup {NoDeadline}]
  BY DEF Shows
<1> HIDE DEF g, r
<1>5. ASSUME NEW i \in 1..Len(b)
      PROVE  g[b[i].ref] = b[i].val
  <2>1. PICK j \in 1..n : b[i] = a[j] /\ j # p
    <3>1. i \in 1..n - 1 /\ i \in 1..n /\ i # n
      BY <1>1, <1>2
    <3>2. CASE i = p
      BY <1>2, <3>1, <3>2
    <3>3. CASE i # p
      BY <1>2, <3>1, <3>3
    <3> QED
      BY <3>2, <3>3
  <2>2. a[j].ref # r /\ a[j].ref \in Ref /\ f[a[j].ref] = a[j].val
    BY <1>1, <1>3, <2>1 DEF Shows
  <2> QED
    BY <1>4, <2>1, <2>2
<1>6. ASSUME NEW s \in Ref, s # r, \A i \in 1..Len(b) : b[i].ref # s
      PROVE  f[s] = NoDeadline
  <2>1. \A i \in 1..n : a[i].ref # s
    <3> SUFFICES ASSUME NEW i \in 1..n, a[i].ref = s
                 PROVE  FALSE
      OBVIOUS
    <3>1. i # p
      BY <1>6 DEF r
    <3>2. CASE i = n
      <4>1. p \in 1..n - 1
        BY <1>1, <3>1, <3>2
      <4> QED
        BY <1>2, <1>6, <3>2, <4>1
    <3>3. CASE i # n
      <4>1. i \in 1..n - 1
        BY <1>1, <3>3
      <4> QED
        BY <1>2, <1>6, <3>1, <4>1
    <3> QED
      BY <3>2, <3>3
  <2> QED
    BY <2>1 DEF Shows
<1> QED
  BY <1>4, <1>4a, <1>5, <1>6 DEF Shows, g, r

LEMMA InitQueue == Init => Queue!Init
<1> SUFFICES ASSUME Init
             PROVE  Queue!Init
  OBVIOUS
<1>1. Items = {}
  BY DEF Items, Init
<1>2. Due = [r \in Ref |-> NoDeadline]
  BY <1>1 DEF Due
<1> QED
  BY <1>2 DEF Queue!Init, Init

LEMMA NextQueue == Inv /\ Inv' /\ [Next]_vars => [Queue!Next]_(Queue!vars)
<1> SUFFICES ASSUME Inv, Inv', [Next]_vars
             PROVE  [Queue!Next]_(Queue!vars)
  OBVIOUS
<1> PICK f : f = Due
  OBVIOUS
<1> PICK g : g = Due'
  OBVIOUS
<1> PICK a : a = Whole
  OBVIOUS
<1> PICK b : b = Whole'
  OBVIOUS
<1>1. Shows(a, f) /\ Shows(b, g)
  <2>1. Shows(Whole, Due)
    BY DueShows
  <2>2. Shows(Whole, Due)'
    BY DueShows, PTL
  <2>3. Shows(Whole', Due')
    BY <2>2 DEF Shows
  <2> QED
    BY <2>1, <2>3
<1>2. /\ a \in Seq(ItemsOf(Ref)) /\ Len(a) \in Nat /\ Distinct(a)
      /\ pc = "idle" => a = heap
  <2>1. HeapAsWhole(Whole) /\ Distinct(Whole)
    BY WholeType DEF Inv, Links, Linked
  <2>2. a \in Seq(ItemsOf(Ref)) /\ Distinct(a)
    BY <2>1 DEF HeapAsWhole
  <2> QED
    BY <2>2 DEF Whole
<1>3. Len(b) \in Nat /\ Distinct(b)
  <2>1. HeapAsWhole(Whole)' /\ Distinct(Whole)'
    BY WholeType, PTL DEF Inv, Links, Linked
  <2>2. Whole' \in Seq(Item)
    BY <2>1 DEF HeapAsWhole
  <2> QED
    BY <2>1, <2>2
<1>4. ASSUME NEW r \in Ref, NEW d \in Deadline, Put(r, d)
      PROVE  Queue!Next
  <2>1. /\ last' = "put" /\ pc = "idle"
        /\ OneChanged(heap, b, SlotFor(heap, idx, r), [val |-> d, ref |-> r])
    BY <1>4, PutStep DEF Put
  <2>2. Shows(b, [f EXCEPT ![r] = d])
    BY <1>1, <1>2, <1>3, <2>1, PutShows
  <2>3. g = [f EXCEPT ![r] = d]
    BY <1>1, <2>2, ShowsOne
  <2>4. Queue!Put(r, d)
    BY <2>1, <2>3 DEF Queue!Put
  <2> QED
    BY <2>4 DEF Queue!Next
<1>5. ASSUME NEW r \in Ref, TakeOut(r), last' \in {"clear", "fire"}
      PROVE  /\ g = [f EXCEPT ![r] = NoDeadline]
             /\ f[r] # NoDeadline /\ pc = "idle"
             /\ idx[r] \in 1..Len(heap) /\ heap[idx[r]].ref = r /\ f[r] = heap[idx[r]].val
  <2>1. /\ idx[r] \in 1..Len(heap) /\ heap[idx[r]].ref = r /\ pc = "idle"
        /\ OneGone(heap, b, idx[r])
    BY <1>5, TakeOutStep DEF TakeOut
  <2>2. Shows(b, [f EXCEPT ![r] = NoDeadline])
    BY <1>1, <1>2, <2>1, TakeOutShows
  <2>3. g = [f EXCEPT ![r] = NoDeadline]
    BY <1>1, <2>2, ShowsOne
  <2>4. f[r] = heap[idx[r]].val
    BY <1>1, <1>2, <2>1 DEF Shows
  <2>5. heap[idx[r]] \in Item
    BY <2>1 DEF Inv, TypeOK
  <2>6. f[r] # NoDeadline
    BY <2>4, <2>5, HeapLoopsAssumption DEF Item
  <2> QED
    BY <2>1, <2>3, <2>4, <2>6
<1>6. ASSUME NEW r \in Ref, Clear(r)
      PROVE  Queue!Next
  <2>1. g = [f EXCEPT ![r] = NoDeadline] /\ f[r] # NoDeadline /\ last' = "clear"
    BY <1>5, <1>6 DEF Clear
  <2>2. Queue!Clear(r)
    BY <2>1 DEF Queue!Clear
  <2> QED
    BY <2>2 DEF Queue!Next
<1>7. ASSUME Fire
      PROVE  Queue!Next
  <2> PICK r : r = heap[1].ref
    OBVIOUS
  <2>1. TakeOut(r) /\ last' = "fire" /\ pc = "idle" /\ heap # <<>>
    BY <1>7 DEF Fire, TakeOut
  <2>2. a = heap /\ ItemsIn(Ref, a) /\ 1 \in 1..Len(a)
    BY <1>2, <2>1, ItemsTyped, EmptySeq
  <2>3. r \in Ref
    BY <2>2 DEF ItemsIn
  <2>4. g = [f EXCEPT ![r] = NoDeadline] /\ f[r] # NoDeadline
    BY <1>5, <2>1, <2>3
  <2>5. f[r] = a[1].val
    BY <1>1, <2>2 DEF Shows
  <2>6. HeapOrdered(a)
    BY <2>1, <2>2 DEF Inv, Course
  <2>7. ASSUME NEW s \in Ref, f[s] # NoDeadline
        PROVE  f[r] <= f[s]
    <3>1. PICK i \in 1..Len(a) : a[i].ref = s
      BY <1>1, <2>7 DEF Shows
    <3>2. f[s] = a[i].val
      BY <1>1, <3>1 DEF Shows
    <3>3. a[1].val <= a[i].val
      BY <1>2, <2>6, TopIsEarliest
    <3> QED
      BY <2>5, <3>2, <3>3
  <2>8. Queue!Fire(r)
    BY <2>1, <2>4, <2>7 DEF Queue!Fire
  <2> QED
    BY <2>3, <2>8 DEF Queue!Next
(* A step of a loop is no step of the queue. *)
<1>8. ASSUME UpStep \/ UpEnd \/ DownStep \/ DownEnd
      PROVE  UNCHANGED Queue!vars
  <2>1. /\ last' = last
        /\ b = a \/ \E p, q \in 1..Len(a) : b = Exchanged(a, p, q)
    <3>1. pos \in 1..Len(a)
      BY <1>8, Running DEF UpStep, UpEnd, DownStep, DownEnd
    <3>2. CASE UpStep
      <4>1. pos > 1 /\ pc # "idle"
        BY <3>2 DEF UpStep, ClimbsHigher
      <4>2. Parent(pos) \in 1..Len(a)
        BY <4>1, ParentInWhole, WholeType DEF HeapAsWhole, Inv
      <4> QED
        BY <3>1, <3>2, <4>2, UpMoves
    <3>3. CASE DownStep
      BY <3>1, <3>3, DownMoves
    <3>4. CASE UpEnd \/ DownEnd
      BY <3>4, UpLands, DownLands
    <3> QED
      BY <1>8, <3>2, <3>3, <3>4
  <2>2. Shows(b, f)
    BY <1>1, <1>2, <2>1, ExchangeShows
  <2>3. g = f
    BY <1>1, <2>2, ShowsOne
  <2> QED
    BY <2>1, <2>3 DEF Queue!vars
<1>9. CASE UNCHANGED vars
  BY <1>9 DEF vars, Queue!vars, Due, Items
<1> QED
  BY <1>4, <1>6, <1>7, <1>8, <1>9 DEF Next

(* No loop loses, duplicates or changes an item at any of its steps, and   *)
(* the item process_timers takes from the top has the earliest deadline    *)
(* of all: the heap implements the abstract queue of deadlines.            *)
THEOREM HeapImplementsTimerQueue == Spec => ImplementsTimerQueue
<1>1. Init => Queue!Init
  BY InitQueue
<1>2. Inv /\ Inv' /\ [Next]_vars => [Queue!Next]_(Queue!vars)
  BY NextQueue
<1> QED
  BY <1>1, <1>2, Invariance, PTL DEF Spec, ImplementsTimerQueue, Queue!Spec
=============================================================================
