--------------------------- MODULE HashMapProofs ---------------------------
(***************************************************************************)
(* Proofs about HashMap for any nodes, keys, hash codes, sizes and work:   *)
(* every node is in its chain of one table, a rehash ends before the next  *)
(* is due, and the map implements the abstract set of NodeSet.             *)
(***************************************************************************)
EXTENDS HashMap, Lemmas

(* A slot is in its table. *)
LEMMA SlotIn ==
  ASSUME NEW c \in Nat \ {0}, NEW k \in Key
  PROVE  (Hash[k] % c) + 1 \in 1..c
<1>1. Hash[k] \in Nat
  BY HashMapAssumption
<1>2. \A a \in Nat : a % c \in 0..c - 1
  OBVIOUS
<1> QED
  BY <1>1, <1>2

(* A table in which nodes are where they belong. *)
Chained(t) == t \in HTab /\ Placed(t)

LEMMA TabFields ==
  ASSUME NEW t \in HTab
  PROVE  /\ t.cap \in Nat /\ t.size \in Int /\ t.tab \in Seq(Seq(Node)) /\ Len(t.tab) = t.cap
         /\ DOMAIN t.tab = 1..t.cap
         /\ \A i \in 1..t.cap : t.tab[i] \in Seq(Node)
BY DEF HTab

(* The nodes of a table, each in its chain. *)
LEMMA NodesIn ==
  ASSUME NEW t, Chained(t)
  PROVE  /\ \A n \in Nodes(t) :
              /\ n \in Node /\ KeyOf[n] \in Key /\ t.cap # 0
              /\ Slot(t, KeyOf[n]) \in 1..t.cap
              /\ n \in Range(t.tab[Slot(t, KeyOf[n])])
         /\ \A i \in 1..t.cap : Range(t.tab[i]) \subseteq Nodes(t)
<1>0. t \in HTab
  BY DEF Chained
<1>1. \A i \in 1..t.cap : Range(t.tab[i]) \subseteq Node
  BY <1>0, TabFields DEF Range
<1>2. ASSUME NEW n \in Nodes(t)
      PROVE  /\ n \in Node /\ KeyOf[n] \in Key /\ t.cap # 0
             /\ Slot(t, KeyOf[n]) \in 1..t.cap
             /\ n \in Range(t.tab[Slot(t, KeyOf[n])])
  <2>1. PICK i \in 1..t.cap : n \in Range(t.tab[i])
    BY DEF Nodes
  <2>2. n \in Node /\ KeyOf[n] \in Key
    BY HashMapAssumption DEF Nodes
  <2>3. t.cap \in Nat
    BY <1>0, TabFields
  <2>4. Slot(t, KeyOf[n]) = i
    BY <2>1 DEF Chained, Placed
  <2> QED
    BY <2>1, <2>2, <2>3, <2>4
<1>3. \A i \in 1..t.cap : Range(t.tab[i]) \subseteq Nodes(t)
  BY <1>1 DEF Nodes
<1> QED
  BY <1>2, <1>3

(* A table in which one chain is another. *)
WithChain(t, i, s, size) == [t EXCEPT !.size = size, !.tab[i] = s]

LEMMA WithChainType ==
  ASSUME NEW t \in HTab, NEW i \in 1..t.cap, NEW s \in Seq(Node), NEW size \in Int
  PROVE  LET u == WithChain(t, i, s, size)
         IN /\ u \in HTab /\ u.cap = t.cap /\ u.size = size
            /\ u.tab[i] = s /\ \A j \in 1..t.cap : j # i => u.tab[j] = t.tab[j]
<1> DEFINE u == WithChain(t, i, s, size)
<1>1. /\ u.cap = t.cap /\ u.size = size
      /\ u.tab = [t.tab EXCEPT ![i] = s]
  BY DEF HTab, WithChain
<1>2. /\ [t.tab EXCEPT ![i] = s] \in Seq(Seq(Node))
      /\ Len([t.tab EXCEPT ![i] = s]) = t.cap
  BY TabFields
<1>3. u.tab[i] = s /\ \A j \in 1..t.cap : j # i => u.tab[j] = t.tab[j]
  BY <1>1, TabFields
<1>4. u \in HTab
  <2> DEFINE T == [t.tab EXCEPT ![i] = s]
  <2>1. t \in [cap : Nat, size : Int, tab : Seq(Seq(Node))]
    BY DEF HTab
  <2>2. u = [t EXCEPT !.size = size, !.tab = T]
    BY <2>1 DEF WithChain
  <2>3. T \in Seq(Seq(Node)) /\ Len(T) = t.cap
    BY <1>2
  <2> HIDE DEF T
  <2>4. [t EXCEPT !.size = size, !.tab = T] \in [cap : Nat, size : Int, tab : Seq(Seq(Node))]
    BY <2>1, <2>3
  <2> QED
    BY <1>1, <1>2, <2>2, <2>4 DEF HTab
<1> QED
  BY <1>1, <1>3, <1>4

(* hinsert, and a node taken from the head of a chain, in these terms. *)
LEMMA InsertType ==
  ASSUME NEW t \in HTab, t.cap # 0, NEW n \in Node
  PROVE  /\ Slot(t, KeyOf[n]) \in 1..t.cap
         /\ <<n>> \o t.tab[Slot(t, KeyOf[n])] \in Seq(Node)
         /\ hinsert(t, n) = WithChain(t, Slot(t, KeyOf[n]), <<n>> \o t.tab[Slot(t, KeyOf[n])], t.size + 1)
         /\ hinsert(t, n) \in HTab /\ hinsert(t, n).cap = t.cap
<1> DEFINE i == Slot(t, KeyOf[n])
           s == <<n>> \o t.tab[i]
<1>1. i \in 1..t.cap
  BY TabFields, SlotIn, HashMapAssumption DEF Slot
<1>2. t.tab[i] \in Seq(Node)
  BY <1>1, TabFields
<1>3. s \in Seq(Node) /\ t.size + 1 \in Int
  <2> HIDE DEF i
  <2> QED
    BY <1>2, TabFields
<1>4. hinsert(t, n) = WithChain(t, i, s, t.size + 1)
  BY DEF hinsert, WithChain, HTab
<1> HIDE DEF i, s
<1>5. hinsert(t, n) \in HTab /\ hinsert(t, n).cap = t.cap
  BY <1>1, <1>3, <1>4, WithChainType
<1> QED
  BY <1>1, <1>3, <1>4, <1>5 DEF i, s

PopHead(t, i) == [t EXCEPT !.size = @ - 1, !.tab[i] = Tail(@)]

LEMMA PopType ==
  ASSUME NEW t \in HTab, NEW i \in 1..t.cap, t.tab[i] # <<>>
  PROVE  /\ Tail(t.tab[i]) \in Seq(Node) /\ t.tab[i][1] \in Node
         /\ PopHead(t, i) = WithChain(t, i, Tail(t.tab[i]), t.size - 1)
         /\ PopHead(t, i) \in HTab /\ PopHead(t, i).cap = t.cap
<1> DEFINE s == Tail(t.tab[i])
<1>1. t.tab[i] \in Seq(Node) /\ t.size - 1 \in Int
  BY TabFields
<1>2. s \in Seq(Node) /\ t.tab[i][1] \in Node
  BY <1>1
<1>3. PopHead(t, i) = WithChain(t, i, s, t.size - 1)
  BY DEF PopHead, WithChain, HTab
<1> HIDE DEF s
<1>4. PopHead(t, i) \in HTab /\ PopHead(t, i).cap = t.cap
  BY <1>1, <1>2, <1>3, WithChainType
<1> QED
  BY <1>2, <1>3, <1>4 DEF s

(* The nodes change with it. *)
LEMMA ChainChanged ==
  ASSUME NEW t, Chained(t), NEW i \in 1..t.cap, NEW s \in Seq(Node), NEW size \in Int,
         IsInjective(s), \A n \in Range(s) : Slot(t, KeyOf[n]) = i
  PROVE  LET u == WithChain(t, i, s, size)
         IN /\ Chained(u) /\ u.cap = t.cap /\ u.size = size
            /\ u.tab[i] = s /\ \A j \in 1..t.cap : j # i => u.tab[j] = t.tab[j]
            /\ Nodes(u) = (Nodes(t) \ Range(t.tab[i])) \cup Range(s)
<1> DEFINE u == WithChain(t, i, s, size)
<1>0. t \in HTab
  BY DEF Chained
<1>1. /\ u \in HTab /\ u.cap = t.cap /\ u.size = size
      /\ u.tab[i] = s /\ \A j \in 1..t.cap : j # i => u.tab[j] = t.tab[j]
  BY <1>0, WithChainType
<1>3. u.tab[i] = s /\ \A j \in 1..t.cap : j # i => u.tab[j] = t.tab[j]
  BY <1>1
<1> HIDE DEF u
<1>5. Placed(u)
  <2> SUFFICES ASSUME NEW j \in 1..t.cap
               PROVE  /\ \A n \in Range(u.tab[j]) : Slot(u, KeyOf[n]) = j
                      /\ IsInjective(u.tab[j])
    BY <1>1 DEF Placed
  <2>1. \A n : Slot(u, KeyOf[n]) = Slot(t, KeyOf[n])
    BY <1>1 DEF Slot
  <2>2. CASE j = i
    BY <1>3, <2>1, <2>2
  <2>3. CASE j # i
    BY <1>3, <2>1, <2>3 DEF Chained, Placed
  <2> QED
    BY <2>2, <2>3
<1>6. Nodes(u) = (Nodes(t) \ Range(t.tab[i])) \cup Range(s)
  <2>1. Range(s) \subseteq Node
    BY DEF Range
  <2>2. ASSUME NEW n \in Node
        PROVE  n \in Nodes(u) <=> (n \in Nodes(t) /\ n \notin Range(t.tab[i])) \/ n \in Range(s)
    <3>1. n \in Nodes(u) <=> n \in Range(s) \/ \E j \in 1..t.cap : j # i /\ n \in Range(t.tab[j])
      BY <1>1, <1>3 DEF Nodes
    <3>2. (\E j \in 1..t.cap : j # i /\ n \in Range(t.tab[j])) <=>
          n \in Nodes(t) /\ n \notin Range(t.tab[i])
      BY DEF Nodes, Chained, Placed
    <3> QED
      BY <3>1, <3>2
  <2> QED
    BY <2>1, <2>2 DEF Nodes
<1> QED
  BY <1>1, <1>5, <1>6 DEF Chained, u

(* hinsert puts a new node into its chain. *)
LEMMA Inserted ==
  ASSUME NEW t, Chained(t), t.cap # 0, NEW n \in Node, n \notin Nodes(t)
  PROVE  LET u == hinsert(t, n)
         IN Chained(u) /\ u.cap = t.cap /\ u.size = t.size + 1 /\ Nodes(u) = Nodes(t) \cup {n}
<1>0. t \in HTab
  BY DEF Chained
<1> DEFINE i == Slot(t, KeyOf[n])
           s == <<n>> \o t.tab[i]
<1>1. i \in 1..t.cap
  BY <1>0, TabFields, SlotIn, HashMapAssumption DEF Slot
<1>2. t.tab[i] \in Seq(Node) /\ IsInjective(t.tab[i]) /\ n \notin Range(t.tab[i])
  BY <1>0, <1>1, TabFields, NodesIn DEF Chained, Placed
<1>3. s \in Seq(Node) /\ IsInjective(s) /\ Range(s) = Range(t.tab[i]) \cup {n}
  BY <1>2, PushFrontRange
<1>4. \A m \in Range(s) : Slot(t, KeyOf[m]) = i
  BY <1>1, <1>3 DEF Chained, Placed
<1>5. t.size + 1 \in Int
  BY <1>0, TabFields
<1>6. hinsert(t, n) = WithChain(t, i, s, t.size + 1)
  BY <1>0, InsertType
<1>7. Range(t.tab[i]) \subseteq Nodes(t)
  BY <1>1, NodesIn
<1> HIDE DEF i, s
<1>8. LET u == WithChain(t, i, s, t.size + 1)
      IN Chained(u) /\ u.cap = t.cap /\ u.size = t.size + 1
         /\ Nodes(u) = (Nodes(t) \ Range(t.tab[i])) \cup Range(s)
  BY <1>1, <1>3, <1>4, <1>5, ChainChanged
<1> QED
  BY <1>3, <1>6, <1>7, <1>8

(* The head of a chain leaves it. *)
LEMMA Popped ==
  ASSUME NEW t, Chained(t), NEW i \in 1..t.cap, t.tab[i] # <<>>
  PROVE  LET u == PopHead(t, i)
             n == t.tab[i][1]
         IN /\ Chained(u) /\ u.cap = t.cap /\ u.size = t.size - 1
            /\ \A j \in 1..t.cap : j # i => u.tab[j] = t.tab[j]
            /\ n \in Nodes(t) /\ Nodes(u) = Nodes(t) \ {n}
<1> DEFINE s == Tail(t.tab[i])
           n == t.tab[i][1]
<1>0. t \in HTab
  BY DEF Chained
<1>1. t.tab[i] \in Seq(Node) /\ IsInjective(t.tab[i]) /\ t.size - 1 \in Int
  BY <1>0, TabFields DEF Chained, Placed
<1>2. /\ s \in Seq(Node) /\ IsInjective(s) /\ Range(s) = Range(t.tab[i]) \ {n}
      /\ n \in Range(t.tab[i])
  <2>1. Head(t.tab[i]) = n
    BY <1>1
  <2> QED
    BY <1>1, <2>1, TailRange
<1>3. \A m \in Range(s) : Slot(t, KeyOf[m]) = i
  BY <1>2 DEF Chained, Placed
<1>4. PopHead(t, i) = WithChain(t, i, s, t.size - 1)
  BY <1>0, PopType
<1>5. Range(t.tab[i]) \subseteq Nodes(t)
  BY NodesIn
<1> HIDE DEF s, n
<1>6. LET u == WithChain(t, i, s, t.size - 1)
      IN /\ Chained(u) /\ u.cap = t.cap /\ u.size = t.size - 1
         /\ \A j \in 1..t.cap : j # i => u.tab[j] = t.tab[j]
         /\ Nodes(u) = (Nodes(t) \ Range(t.tab[i])) \cup Range(s)
  BY <1>1, <1>2, <1>3, ChainChanged
<1>7. LET u == WithChain(t, i, s, t.size - 1)
      IN /\ Chained(u) /\ u.cap = t.cap /\ u.size = t.size - 1
         /\ \A j \in 1..t.cap : j # i => u.tab[j] = t.tab[j]
         /\ n \in Nodes(t) /\ Nodes(u) = Nodes(t) \ {n}
  BY <1>2, <1>5, <1>6
<1> QED
  BY <1>4, <1>7 DEF n

(* h_detach takes a node out of its chain, wherever it is there. *)
LEMMA Unlinked ==
  ASSUME NEW t, Chained(t), NEW n \in Nodes(t)
  PROVE  LET u == Unlink(t, n)
         IN /\ Chained(u) /\ u.cap = t.cap /\ u.size = t.size
            /\ \A j \in 1..t.cap : t.tab[j] = <<>> => u.tab[j] = <<>>
            /\ Nodes(u) = Nodes(t) \ {n}
<1> DEFINE i == Slot(t, KeyOf[n])
           at == CHOOSE j \in 1..Len(t.tab[i]) : t.tab[i][j] = n
           s == RemoveAt(t.tab[i], at)
<1>0. t \in HTab
  BY DEF Chained
<1>1. i \in 1..t.cap /\ n \in Range(t.tab[i])
  BY NodesIn
<1>2. t.tab[i] \in Seq(Node) /\ IsInjective(t.tab[i]) /\ t.size \in Int
  BY <1>0, <1>1, TabFields DEF Chained, Placed
<1>3. at \in 1..Len(t.tab[i]) /\ t.tab[i][at] = n
  <2>1. \E j \in 1..Len(t.tab[i]) : t.tab[i][j] = n
    BY <1>1, <1>2 DEF Range
  <2> QED
    BY <2>1
<1>4. s \in Seq(Node) /\ IsInjective(s) /\ Range(s) = Range(t.tab[i]) \ {n}
  <2> HIDE DEF at, i
  <2> QED
    BY <1>2, <1>3, RemoveAtRange, RemoveAtType
<1>5. \A m \in Range(s) : Slot(t, KeyOf[m]) = i
  BY <1>1, <1>4 DEF Chained, Placed
<1>6. Unlink(t, n) = WithChain(t, i, s, t.size)
  <2>1. t = [t EXCEPT !.size = t.size]
    BY <1>0 DEF HTab
  <2>2. Unlink(t, n) = [t EXCEPT !.tab[i] = s]
    BY <1>0 DEF Unlink, HTab
  <2>3. WithChain(t, i, s, t.size) = [[t EXCEPT !.size = t.size] EXCEPT !.tab[i] = s]
    BY <1>0 DEF WithChain, HTab
  <2> QED
    BY <2>1, <2>2, <2>3
<1>7. Range(t.tab[i]) \subseteq Nodes(t)
  BY <1>1, NodesIn
<1>8. t.tab[i] # <<>>
  BY <1>2, <1>3
<1> HIDE DEF i, at, s
<1>9. LET u == WithChain(t, i, s, t.size)
      IN /\ Chained(u) /\ u.cap = t.cap /\ u.size = t.size
         /\ \A j \in 1..t.cap : j # i => u.tab[j] = t.tab[j]
         /\ Nodes(u) = (Nodes(t) \ Range(t.tab[i])) \cup Range(s)
  BY <1>1, <1>2, <1>4, <1>5, ChainChanged
<1> QED
  BY <1>1, <1>4, <1>6, <1>7, <1>8, <1>9

(* hlookup finds a node with the key if the table has one. *)
LEMMA LookedUp ==
  ASSUME NEW t, Chained(t), NEW k \in Key
  PROVE  /\ hlookup(t, k) # None => hlookup(t, k) \in Nodes(t) /\ KeyOf[hlookup(t, k)] = k
         /\ hlookup(t, k) = None => \A n \in Nodes(t) : KeyOf[n] # k
<1> DEFINE i == Slot(t, k)
           chain == t.tab[i]
           here == {j \in 1..Len(chain) : KeyOf[chain[j]] = k}
<1>0. t \in HTab /\ t.cap \in Nat
  BY TabFields DEF Chained
<1>1. ASSUME t.cap # 0, here # {}
      PROVE  hlookup(t, k) # None /\ hlookup(t, k) \in Nodes(t) /\ KeyOf[hlookup(t, k)] = k
  <2>1. i \in 1..t.cap
    BY <1>0, <1>1, SlotIn DEF Slot
  <2>2. chain \in Seq(Node) /\ Range(chain) \subseteq Nodes(t)
    BY <1>0, <2>1, TabFields, NodesIn
  <2>3. here \in SUBSET Nat
    OBVIOUS
  <2>4. Min(here) \in here
    BY <1>1, <2>3, MinIn
  <2>5. hlookup(t, k) = chain[Min(here)]
    BY <1>1 DEF hlookup
  <2>6. chain[Min(here)] \in Range(chain)
    <3>1. \A j \in 1..Len(chain) : chain[j] \in Range(chain)
      BY <2>2 DEF Range
    <3> QED
      BY <2>4, <3>1
  <2> QED
    BY <2>2, <2>4, <2>5, <2>6, HashMapAssumption DEF Nodes
<1>2. ASSUME t.cap = 0 \/ here = {}
      PROVE  hlookup(t, k) = None /\ \A n \in Nodes(t) : KeyOf[n] # k
  <2>1. hlookup(t, k) = None
    BY <1>2 DEF hlookup
  <2>2. ASSUME NEW n \in Nodes(t), KeyOf[n] = k
        PROVE  FALSE
    <3>1. t.cap # 0 /\ i \in 1..t.cap /\ n \in Range(chain)
      BY <2>2, NodesIn
    <3>2. chain \in Seq(Node)
      BY <1>0, <3>1, TabFields
    <3>3. PICK j \in 1..Len(chain) : chain[j] = n
      BY <3>1, <3>2 DEF Range
    <3> QED
      BY <1>2, <2>2, <3>1, <3>3
  <2> QED
    BY <2>1, <2>2
<1> QED
  BY <1>1, <1>2
-----------------------------------------------------------------------------
LEMMA MapFields ==
  ASSUME NEW h \in HMap
  PROVE  /\ h.ht1 \in HTab /\ h.ht2 \in HTab /\ h.resizing_pos \in Nat \ {0}
         /\ h.ht1.cap = 0 => h.ht2.cap = 0
BY DEF HMap

LEMMA NullTabType == NullTab \in HTab /\ NullTab.cap = 0 /\ NullTab.size = 0
<1>1. <<>> \in Seq(Seq(Node)) /\ Len(<<>>) = 0
  OBVIOUS
<1> QED
  BY <1>1 DEF NullTab, HTab

(* The next node to move is in the first slot from resizing_pos on that is *)
(* not empty.                                                              *)
LEMMA NextSlotIs ==
  ASSUME NEW h \in HMap
  PROVE  /\ NextSlot(h) \in Nat \ {0}
         /\ NextSlot(h) > h.ht2.cap => NextSlot(h) = h.ht2.cap + 1
         /\ NextSlot(h) <= h.ht2.cap =>
              h.resizing_pos <= NextSlot(h) /\ h.ht2.tab[NextSlot(h)] # <<>>
         /\ \A i \in 1..h.ht2.cap :
              h.resizing_pos <= i /\ i < NextSlot(h) => h.ht2.tab[i] = <<>>
<1> DEFINE c == h.ht2.cap
           T == {p \in h.resizing_pos..c : h.ht2.tab[p] # <<>>} \cup {c + 1}
<1>1. c \in Nat /\ h.resizing_pos \in Nat \ {0}
  BY MapFields, TabFields
<1>2. T \in SUBSET Nat /\ T # {} /\ \A p \in T : p # 0
  BY <1>1
<1>3. Min(T) \in T /\ \A p \in T : Min(T) <= p
  BY <1>2, MinIn
<1>4. NextSlot(h) = Min(T)
  BY DEF NextSlot
<1>5. c + 1 \in T
  OBVIOUS
<1>6. PICK p : p = NextSlot(h)
  OBVIOUS
<1>7. p \in T /\ p \in Nat /\ p # 0 /\ p <= c + 1 /\ \A q \in T : p <= q
  BY <1>2, <1>3, <1>4, <1>5, <1>6
<1>8. p > c => p = c + 1
  BY <1>1, <1>7
<1>9. p <= c => h.resizing_pos <= p /\ h.ht2.tab[p] # <<>>
  BY <1>1, <1>7
<1>10. ASSUME NEW i \in 1..c, h.resizing_pos <= i, i < p
       PROVE  h.ht2.tab[i] = <<>>
  <2>1. i \notin T
    BY <1>7, <1>10
  <2> QED
    BY <1>1, <1>10, <2>1
<1> QED
  BY <1>6, <1>7, <1>8, <1>9, <1>10

(* What Move does to each table. *)
LEMMA MoveFields ==
  ASSUME NEW h
  PROVE  LET p == NextSlot(h)
         IN /\ Move(h).ht1 = hinsert(h.ht1, h.ht2.tab[p][1])
            /\ Move(h).ht2 = [h.ht2 EXCEPT !.size = @ - 1, !.tab[p] = Tail(@)]
            /\ Move(h).resizing_pos = p
            /\ Move(h) = [ht1 |-> Move(h).ht1, ht2 |-> Move(h).ht2,
                          resizing_pos |-> Move(h).resizing_pos]
BY DEF Move

(* A round of hm_help_resizing moves a node. *)
Moving(h) == h.ht2.size > 0 /\ NextSlot(h) <= h.ht2.cap

LEMMA MoveType ==
  ASSUME NEW h \in HMap, Moving(h)
  PROVE  Move(h) \in HMap /\ Move(h).ht1.cap = h.ht1.cap /\ Move(h).ht2.cap = h.ht2.cap
<1>1. /\ h.ht2 \in HTab /\ NextSlot(h) \in 1..h.ht2.cap /\ h.ht2.tab[NextSlot(h)] # <<>>
      /\ h.ht1 \in HTab /\ h.ht1.cap # 0
  BY MapFields, TabFields, NextSlotIs DEF Moving
<1>2. Move(h).ht2 = PopHead(h.ht2, NextSlot(h))
  BY MoveFields DEF PopHead
<1>3. /\ h.ht2.tab[NextSlot(h)][1] \in Node
      /\ Move(h).ht2 \in HTab /\ Move(h).ht2.cap = h.ht2.cap
  BY <1>1, <1>2, PopType
<1>4. Move(h).ht1 \in HTab /\ Move(h).ht1.cap = h.ht1.cap
  BY <1>1, <1>3, InsertType, MoveFields
<1>5. Move(h).resizing_pos \in Nat \ {0}
  BY NextSlotIs, MoveFields
<1>6. Move(h) \in [ht1 : HTab, ht2 : HTab, resizing_pos : Nat \ {0}]
  <2> PICK a : a = Move(h).ht1
    OBVIOUS
  <2> PICK b : b = Move(h).ht2
    OBVIOUS
  <2> PICK c : c = Move(h).resizing_pos
    OBVIOUS
  <2>1. Move(h) = [ht1 |-> a, ht2 |-> b, resizing_pos |-> c]
    BY MoveFields
  <2>2. a \in HTab /\ b \in HTab /\ c \in Nat \ {0}
    BY <1>3, <1>4, <1>5
  <2>3. [ht1 |-> a, ht2 |-> b, resizing_pos |-> c] \in [ht1 : HTab, ht2 : HTab, resizing_pos : Nat \ {0}]
    BY <2>2
  <2> QED
    BY <2>1, <2>3, Zenon
<1> QED
  BY <1>1, <1>3, <1>4, <1>6 DEF HMap

(* One round of the loop: before is what the rounds after it make of a map. *)
MovedFrom(before, work, h) ==
  IF work = 0 \/ h.ht2.size <= 0 THEN h
  ELSE IF NextSlot(h) > h.ht2.cap THEN [h EXCEPT !.resizing_pos = NextSlot(h)]
  ELSE before[Move(h)]

LEMMA MovedFromType ==
  ASSUME NEW before, NEW work \in Nat, work # 0 => before \in [HMap -> HMap], NEW h \in HMap
  PROVE  MovedFrom(before, work, h) \in HMap
<1>0. NextSlot(h) \in Nat \ {0} /\ h.ht2.cap \in Nat /\ h.ht2.size \in Int
  BY NextSlotIs, MapFields, TabFields
<1>1. CASE work = 0 \/ h.ht2.size <= 0
  BY <1>1 DEF MovedFrom
<1>2. CASE work # 0 /\ h.ht2.size > 0 /\ NextSlot(h) > h.ht2.cap
  <2>1. MovedFrom(before, work, h) = [h EXCEPT !.resizing_pos = NextSlot(h)]
    BY <1>0, <1>2 DEF MovedFrom
  <2> PICK p : p = NextSlot(h)
    OBVIOUS
  <2>2. [h EXCEPT !.resizing_pos = p] \in HMap
    BY <1>0 DEF HMap
  <2> QED
    BY <2>1, <2>2
<1>3. CASE work # 0 /\ h.ht2.size > 0 /\ NextSlot(h) <= h.ht2.cap
  <2>1. MovedFrom(before, work, h) = before[Move(h)]
    BY <1>0, <1>3 DEF MovedFrom
  <2>2. Move(h) \in HMap
    BY <1>3, MoveType DEF Moving
  <2> QED
    BY <1>3, <2>1, <2>2
<1> QED
  BY <1>0, <1>1, <1>2, <1>3

(* Moved is the function its definition says: the recursion ends. *)
LEMMA MovedIs ==
  /\ Moved \in [Nat -> [HMap -> HMap]]
  /\ \A n \in Nat, h \in HMap : Moved[n][h] = MovedFrom(Moved[n - 1], n, h)
<1> DEFINE V == [HMap -> HMap]
           m == [n \in Nat |-> n]
           G == [p \in [Nat -> V] \X Nat |->
                   [h \in HMap |-> MovedFrom(p[1][p[2] - 1], p[2], h)]]
           Table(f) == f = [n \in Nat |-> [h \in HMap |-> MovedFrom(f[n - 1], n, h)]]
<1>1. \A f \in [Nat -> V], n \in Nat : [h \in HMap |-> MovedFrom(f[n - 1], n, h)] \in V
  <2> TAKE f \in [Nat -> V], n \in Nat
  <2>1. n # 0 => n - 1 \in Nat
    OBVIOUS
  <2>2. n # 0 => f[n - 1] \in V
    BY <2>1
  <2>3. \A h \in HMap : MovedFrom(f[n - 1], n, h) \in HMap
    BY <2>2, MovedFromType
  <2> QED
    BY <2>3
<1>2. \A f \in [Nat -> V], n \in Nat :
        G[<<f, n>>] = [h \in HMap |-> MovedFrom(f[n - 1], n, h)]
  OBVIOUS
<1>3. Recursion(Nat, V, m, G)
  <2>1. V # {}
    <3>1. [h \in HMap |-> h] \in V
      OBVIOUS
    <3> QED
      BY <3>1
  <2>2. G \in [[Nat -> V] \X Nat -> V]
    <3> HIDE DEF V
    <3> QED
      BY <1>1
  <2>3. ASSUME NEW f \in [Nat -> V], NEW g \in [Nat -> V], NEW n \in Nat,
               \A k \in Nat : m[k] < m[n] => f[k] = g[k]
        PROVE  G[<<f, n>>] = G[<<g, n>>]
    <3>1. n # 0 => f[n - 1] = g[n - 1]
      <4>1. n # 0 => n - 1 \in Nat /\ n - 1 < n
        OBVIOUS
      <4> QED
        BY <2>3, <4>1
    <3>2. \A h \in HMap : MovedFrom(f[n - 1], n, h) = MovedFrom(g[n - 1], n, h)
      BY <3>1 DEF MovedFrom
    <3> HIDE DEF V, G
    <3> QED
      BY <1>2, <3>2
  <2>4. m \in [Nat -> Nat]
    OBVIOUS
  <2> HIDE DEF V, G, m
  <2> QED
    BY <2>1, <2>2, <2>3, <2>4 DEF Recursion
<1>4. PICK F \in [Nat -> V] : \A n \in Nat : F[n] = G[<<F, n>>]
  <2> HIDE DEF V, G, m
  <2> QED
    BY <1>3, RecursiveFunction
<1>5. Table(F)
  <2> HIDE DEF V, G
  <2> QED
    BY <1>2, <1>4
<1>6. Moved = CHOOSE f : Table(f)
  BY DEF Moved, MovedFrom
<1>7. Table(Moved)
  <2> HIDE DEF Table
  <2> QED
    BY <1>5, <1>6
<1> DEFINE Is(n) == [h \in HMap |-> MovedFrom(Moved[n - 1], n, h)]
<1>8. Moved = [n \in Nat |-> Is(n)]
  BY <1>7
<1>9. ASSUME NEW n \in Nat
      PROVE  Moved[n] \in V
  <2> DEFINE T == {k \in Nat : Moved[k] \notin V}
  <2> SUFFICES ASSUME T # {}
               PROVE  FALSE
    OBVIOUS
  <2>1. PICK k \in T : \A j \in T : k <= j
    <3> HIDE DEF V
    <3> QED
      BY LeastNat
  <2>2. k # 0 => Moved[k - 1] \in V
    <3>1. k \in Nat /\ (k # 0 => k - 1 \in Nat /\ ~(k <= k - 1))
      OBVIOUS
    <3> HIDE DEF V
    <3> QED
      BY <2>1, <3>1
  <2>3. Moved[k] = Is(k)
    <3> HIDE DEF Is
    <3> QED
      BY <1>8
  <2>4. \A h \in HMap : MovedFrom(Moved[k - 1], k, h) \in HMap
    BY <2>2, MovedFromType
  <2>5. Is(k) \in V
    BY <2>4
  <2> HIDE DEF Is, V
  <2> QED
    BY <2>1, <2>3, <2>5
<1>10. Moved \in [Nat -> V]
  <2> HIDE DEF V, Is
  <2> QED
    BY <1>8, <1>9
<1>11. \A n \in Nat, h \in HMap : Moved[n][h] = MovedFrom(Moved[n - 1], n, h)
  <2> TAKE n \in Nat, h \in HMap
  <2>1. Moved[n] = Is(n)
    <3> HIDE DEF Is
    <3> QED
      BY <1>8
  <2> QED
    BY <2>1
<1> QED
  BY <1>10, <1>11

(* What a round keeps, all of them keep. *)
LEMMA MovedKeeps ==
  ASSUME NEW S \in SUBSET HMap, NEW h \in S, NEW work \in Nat,
         \A g \in S : Moving(g) => Move(g) \in S,
         \A g \in S : g.ht2.size > 0 /\ ~Moving(g) => [g EXCEPT !.resizing_pos = NextSlot(g)] \in S
  PROVE  Moved[work][h] \in S
<1> DEFINE T == {k \in Nat : \E g \in S : Moved[k][g] \notin S}
<1> SUFFICES ASSUME T # {}
             PROVE  FALSE
  BY Zenon
<1>1. PICK k \in T : \A j \in T : k <= j
  BY LeastNat
<1>2. PICK g \in S : Moved[k][g] \notin S
  BY <1>1
<1>3. k # 0 => k - 1 \in Nat /\ k - 1 \notin T
  BY <1>1
<1>4. Moved[k][g] = MovedFrom(Moved[k - 1], k, g)
  BY MovedIs
<1>5. NextSlot(g) \in Nat /\ g.ht2.cap \in Nat /\ g.ht2.size \in Int
  BY NextSlotIs, MapFields, TabFields
<1>6. CASE k = 0 \/ g.ht2.size <= 0
  BY <1>2, <1>4, <1>6 DEF MovedFrom
<1>7. CASE k # 0 /\ g.ht2.size > 0 /\ NextSlot(g) > g.ht2.cap
  <2>1. MovedFrom(Moved[k - 1], k, g) = [g EXCEPT !.resizing_pos = NextSlot(g)]
    BY <1>5, <1>7 DEF MovedFrom
  <2>2. ~Moving(g)
    BY <1>5, <1>7 DEF Moving
  <2> QED
    BY <1>2, <1>4, <1>7, <2>1, <2>2
<1>8. CASE k # 0 /\ g.ht2.size > 0 /\ NextSlot(g) <= g.ht2.cap
  <2>1. MovedFrom(Moved[k - 1], k, g) = Moved[k - 1][Move(g)]
    BY <1>5, <1>8 DEF MovedFrom
  <2>2. Move(g) \in S
    BY <1>8 DEF Moving
  <2>3. Moved[k - 1][Move(g)] \in S
    BY <1>3, <1>8, <2>2
  <2> QED
    BY <1>2, <1>4, <2>1, <2>3
<1> QED
  BY <1>5, <1>6, <1>7, <1>8
-----------------------------------------------------------------------------
(* What holds of a map within operations too. *)
All(h) == Nodes(h.ht1) \cup Nodes(h.ht2)
Finite(h) ==
  IsFiniteSet(Nodes(h.ht1)) /\ IsFiniteSet(Nodes(h.ht2)) /\ Nodes(h.ht1) \cap Nodes(h.ht2) = {}
Sizes(h) ==
  /\ h.ht1.size + h.ht2.size = Cardinality(All(h))
  /\ Cardinality(Nodes(h.ht2)) <= h.ht2.size
  /\ h.ht1.cap = 0 => h.ht1.size = 0
  /\ h.ht2.cap = 0 => h.ht2.size = 0
Drained(h) == \A i \in 1..h.ht2.cap : i < h.resizing_pos => h.ht2.tab[i] = <<>>
Sound(h) ==
  h \in HMap /\ Placed(h.ht1) /\ Placed(h.ht2) /\ Finite(h) /\ Sizes(h) /\ Drained(h)

(* How many nodes ht2 counts that it does not have. *)
Miscount(h) == h.ht2.size - Cardinality(Nodes(h.ht2))

(* A table is too full when it has as many nodes as its limit. *)
Limit(c) == (k_max_load_factor + 1) * c
Load(h) == h.ht1.size + 2 * h.ht2.size
Light(h) == h.ht1.cap # 0 => Load(h) < Limit(h.ht1.cap)

LEMMA LoadType ==
  ASSUME NEW h \in HMap
  PROVE  Load(h) \in Int
<1>1. h.ht1.size \in Int /\ h.ht2.size \in Int
  BY MapFields, TabFields
<1> QED
  BY <1>1 DEF Load

LEMMA SoundTabs ==
  ASSUME NEW h, Sound(h)
  PROVE  /\ Chained(h.ht1) /\ Chained(h.ht2)
         /\ Cardinality(Nodes(h.ht1)) \in Nat /\ Cardinality(Nodes(h.ht2)) \in Nat
         /\ IsFiniteSet(All(h))
         /\ Cardinality(All(h)) = Cardinality(Nodes(h.ht1)) + Cardinality(Nodes(h.ht2))
<1>1. Chained(h.ht1) /\ Chained(h.ht2)
  BY MapFields DEF Sound, Chained
<1>2. /\ IsFiniteSet(Nodes(h.ht1)) /\ IsFiniteSet(Nodes(h.ht2))
      /\ Nodes(h.ht1) \cap Nodes(h.ht2) = {}
  BY DEF Sound, Finite
<1>3. Cardinality(Nodes(h.ht1)) \in Nat /\ Cardinality(Nodes(h.ht2)) \in Nat
  BY <1>2, FS_CardinalityType
<1>4. IsFiniteSet(All(h)) /\
      Cardinality(All(h)) = Cardinality(Nodes(h.ht1)) + Cardinality(Nodes(h.ht2)) - Cardinality({})
  BY <1>2, FS_Union DEF All
<1>5. Cardinality({}) = 0
  BY FS_EmptySet
<1> QED
  BY <1>1, <1>3, <1>4, <1>5

(* One node moved: the same nodes, counted as before. *)
LEMMA MoveSound ==
  ASSUME NEW h, Sound(h), Moving(h)
  PROVE  /\ Sound(Move(h)) /\ All(Move(h)) = All(h) /\ Miscount(Move(h)) = Miscount(h)
         /\ Move(h).ht1.cap = h.ht1.cap /\ Load(Move(h)) = Load(h) - 1
<1> PICK p : p = NextSlot(h)
  OBVIOUS
<1> PICK n : n = h.ht2.tab[p][1]
  OBVIOUS
<1> PICK g : g = Move(h)
  OBVIOUS
<1>0. h \in HMap /\ g \in HMap /\ g.ht1.cap = h.ht1.cap /\ g.ht2.cap = h.ht2.cap
  BY MoveType DEF Sound
<1>1. Chained(h.ht1) /\ Chained(h.ht2)
  BY SoundTabs
<1>2. /\ p \in 1..h.ht2.cap /\ h.ht2.tab[p] # <<>> /\ h.resizing_pos <= p
      /\ \A i \in 1..h.ht2.cap : h.resizing_pos <= i /\ i < p => h.ht2.tab[i] = <<>>
  BY <1>0, NextSlotIs, MapFields, TabFields DEF Moving
<1>3. g.ht1 = hinsert(h.ht1, n) /\ g.ht2 = PopHead(h.ht2, p) /\ g.resizing_pos = p
  BY MoveFields DEF PopHead
<1>4. /\ Chained(g.ht2) /\ g.ht2.size = h.ht2.size - 1
      /\ \A j \in 1..h.ht2.cap : j # p => g.ht2.tab[j] = h.ht2.tab[j]
      /\ n \in Nodes(h.ht2) /\ Nodes(g.ht2) = Nodes(h.ht2) \ {n}
  BY <1>1, <1>2, <1>3, Popped
<1>5. n \in Node /\ n \notin Nodes(h.ht1) /\ h.ht1.cap # 0
  <2>1. n \in Node
    BY <1>4 DEF Nodes
  <2>2. n \notin Nodes(h.ht1)
    BY <1>4 DEF Sound, Finite
  <2>3. h.ht1.cap # 0
    BY <1>0, <1>2, MapFields, TabFields
  <2> QED
    BY <2>1, <2>2, <2>3
<1>6. Chained(g.ht1) /\ g.ht1.size = h.ht1.size + 1 /\ Nodes(g.ht1) = Nodes(h.ht1) \cup {n}
  BY <1>1, <1>3, <1>5, Inserted
<1>7. All(g) = All(h)
  BY <1>4, <1>6 DEF All
<1>8. Finite(g) /\ Cardinality(Nodes(g.ht2)) = Cardinality(Nodes(h.ht2)) - 1
  <2>1. IsFiniteSet(Nodes(h.ht1)) /\ IsFiniteSet(Nodes(h.ht2))
    BY DEF Sound, Finite
  <2>2. IsFiniteSet(Nodes(g.ht1))
    <3>1. IsFiniteSet(Nodes(h.ht1) \cup {n})
      BY <2>1, FS_AddElement
    <3> QED
      BY <1>6, <3>1
  <2>3. /\ IsFiniteSet(Nodes(g.ht2))
        /\ Cardinality(Nodes(g.ht2)) = Cardinality(Nodes(h.ht2)) - 1
    BY <1>4, <2>1, FS_RemoveElement
  <2>4. Nodes(g.ht1) \cap Nodes(g.ht2) = {}
    BY <1>4, <1>6 DEF Sound, Finite
  <2> QED
    BY <2>2, <2>3, <2>4 DEF Finite
<1> PICK a : a = Cardinality(Nodes(h.ht2))
  OBVIOUS
<1> PICK b : b = Cardinality(All(h))
  OBVIOUS
<1>9. a \in Nat /\ h.ht1.size \in Int /\ h.ht2.size \in Int
  BY <1>0, SoundTabs, MapFields, TabFields
<1>10. h.ht1.size + h.ht2.size = b /\ a <= h.ht2.size
  BY DEF Sound, Sizes
<1>11. Sizes(g) /\ Miscount(g) = Miscount(h) /\ Load(g) = Load(h) - 1
  <2>1. g.ht1.size + g.ht2.size = b /\ a - 1 <= g.ht2.size /\ g.ht2.size - (a - 1) = h.ht2.size - a
    BY <1>4, <1>6, <1>9, <1>10
  <2>2. g.ht1.size + 2 * g.ht2.size = h.ht1.size + 2 * h.ht2.size - 1
    BY <1>4, <1>6, <1>9
  <2>3. Cardinality(Nodes(g.ht2)) = a - 1 /\ Cardinality(All(g)) = b
    BY <1>7, <1>8
  <2>4. g.ht1.cap # 0 /\ g.ht2.cap # 0
    BY <1>0, <1>2, <1>5
  <2>5. Sizes(g)
    BY <2>1, <2>3, <2>4 DEF Sizes
  <2>6. Miscount(g) = Miscount(h)
    <3>1. Miscount(g) = g.ht2.size - (a - 1)
      BY <2>3 DEF Miscount
    <3> QED
      BY <2>1, <3>1 DEF Miscount
  <2>7. Load(g) = Load(h) - 1
    BY <1>4, <1>6, <1>9 DEF Load
  <2> QED
    BY <2>5, <2>6, <2>7
<1>12. Drained(g)
  <2> SUFFICES ASSUME NEW i \in 1..h.ht2.cap, i < p
               PROVE  g.ht2.tab[i] = <<>>
    BY <1>0, <1>3 DEF Drained
  <2>1. g.ht2.tab[i] = h.ht2.tab[i]
    BY <1>2, <1>4
  <2>2. h.resizing_pos \in Nat
    BY <1>0, MapFields
  <2>3. CASE i < h.resizing_pos
    BY <2>1, <2>3 DEF Sound, Drained
  <2>4. CASE h.resizing_pos <= i
    BY <1>2, <2>1, <2>4
  <2> QED
    BY <2>2, <2>3, <2>4
<1>13. Sound(g)
  BY <1>0, <1>4, <1>6, <1>8, <1>11, <1>12 DEF Sound, Chained
<1> QED
  BY <1>0, <1>7, <1>11, <1>13

(* The loop is behind the last slot, and will go on. *)
Out(h) == h.ht2.size > 0 /\ h.resizing_pos > h.ht2.cap

LEMMA StopSound ==
  ASSUME NEW h, Sound(h), h.ht2.size > 0, ~Moving(h)
  PROVE  LET g == [h EXCEPT !.resizing_pos = NextSlot(h)]
         IN /\ Sound(g) /\ All(g) = All(h) /\ Miscount(g) = Miscount(h)
            /\ g.ht1.cap = h.ht1.cap /\ Load(g) = Load(h) /\ Out(g)
<1> PICK p : p = NextSlot(h)
  OBVIOUS
<1> PICK g : g = [h EXCEPT !.resizing_pos = p]
  OBVIOUS
<1>0. h \in HMap
  BY DEF Sound
<1>1. p \in Nat \ {0} /\ h.ht2.cap \in Nat /\ h.resizing_pos \in Nat
  BY <1>0, NextSlotIs, MapFields, TabFields
<1>2. g.ht1 = h.ht1 /\ g.ht2 = h.ht2 /\ g.resizing_pos = p /\ g \in HMap
  BY <1>0, <1>1 DEF HMap
<1>3. p > h.ht2.cap
  BY <1>1 DEF Moving
<1>4. \A i \in 1..h.ht2.cap : h.resizing_pos <= i /\ i < p => h.ht2.tab[i] = <<>>
  BY <1>0, NextSlotIs
<1>5. Drained(g)
  <2> SUFFICES ASSUME NEW i \in 1..h.ht2.cap
               PROVE  h.ht2.tab[i] = <<>>
    BY <1>2 DEF Drained
  <2>1. CASE i < h.resizing_pos
    BY <2>1 DEF Sound, Drained
  <2>2. CASE h.resizing_pos <= i
    BY <1>1, <1>3, <1>4, <2>2
  <2> QED
    BY <1>1, <2>1, <2>2
<1>6. Finite(g) /\ Sizes(g) /\ All(g) = All(h) /\ Miscount(g) = Miscount(h) /\ Load(g) = Load(h)
  BY <1>2 DEF Sound, Finite, Sizes, All, Miscount, Load
<1>7. Sound(g) /\ Out(g)
  BY <1>2, <1>3, <1>5, <1>6 DEF Sound, Out
<1> QED
  BY <1>2, <1>6, <1>7

(* What the loop makes of h. *)
After(h, g) ==
  /\ Sound(g) /\ All(g) = All(h) /\ Miscount(g) = Miscount(h)
  /\ g.ht1.cap = h.ht1.cap /\ (Out(g) \/ Load(g) < Load(h))

LEMMA AfterMove ==
  ASSUME NEW h, Sound(h), NEW g, After(h, g)
  PROVE  /\ Moving(g) => After(h, Move(g))
         /\ g.ht2.size > 0 /\ ~Moving(g) => After(h, [g EXCEPT !.resizing_pos = NextSlot(g)])
<1>0. h \in HMap /\ g \in HMap
  BY DEF Sound, After
<1>1. Load(h) \in Int /\ Load(g) \in Int
  BY <1>0, MapFields, TabFields DEF Load
<1>2. ASSUME Moving(g)
      PROVE  After(h, Move(g))
  <2>1. /\ Sound(Move(g)) /\ All(Move(g)) = All(g) /\ Miscount(Move(g)) = Miscount(g)
        /\ Move(g).ht1.cap = g.ht1.cap /\ Load(Move(g)) = Load(g) - 1
    BY <1>2, MoveSound DEF After
  <2>2. ~Out(g)
    <3>1. /\ NextSlot(g) \in Nat /\ g.ht2.cap \in Nat /\ g.resizing_pos \in Nat
          /\ g.resizing_pos <= NextSlot(g)
      BY <1>0, <1>2, NextSlotIs, MapFields, TabFields DEF Moving
    <3> QED
      BY <1>2, <3>1 DEF Moving, Out
  <2>3. Load(Move(g)) < Load(h)
    BY <1>1, <2>1, <2>2 DEF After
  <2> QED
    BY <2>1, <2>3 DEF After
<1>3. ASSUME g.ht2.size > 0, ~Moving(g)
      PROVE  After(h, [g EXCEPT !.resizing_pos = NextSlot(g)])
  <2> PICK r : r = [g EXCEPT !.resizing_pos = NextSlot(g)]
    OBVIOUS
  <2>1. /\ Sound(r) /\ All(r) = All(g) /\ Miscount(r) = Miscount(g)
        /\ r.ht1.cap = g.ht1.cap /\ Load(r) = Load(g) /\ Out(r)
    BY <1>3, StopSound DEF After
  <2> QED
    BY <2>1 DEF After
<1> QED
  BY <1>2, <1>3

(* If there is something to move, the loop moves it, or leaves the table. *)
LEMMA MovedSound ==
  ASSUME NEW h, Sound(h)
  PROVE  LET g == Moved[k_resizing_work][h]
         IN g \in HMap /\ IF h.ht2.size > 0 THEN After(h, g) ELSE g = h
<1> PICK k : k = k_resizing_work
  OBVIOUS
<1>0. h \in HMap /\ k \in Nat /\ k # 0 /\ k - 1 \in Nat
  BY HashMapAssumption DEF Sound
<1>1. h.ht2.size \in Int /\ h.ht2.cap \in Nat /\ NextSlot(h) \in Nat /\ Load(h) \in Int
  BY <1>0, NextSlotIs, MapFields, TabFields DEF Load
<1>2. Moved[k][h] \in HMap /\ Moved[k][h] = MovedFrom(Moved[k - 1], k, h)
  BY <1>0, MovedIs
<1>3. ASSUME h.ht2.size <= 0
      PROVE  Moved[k][h] = h
  BY <1>2, <1>3 DEF MovedFrom
<1>4. ASSUME h.ht2.size > 0, ~Moving(h)
      PROVE  After(h, Moved[k][h])
  <2> PICK g : g = [h EXCEPT !.resizing_pos = NextSlot(h)]
    OBVIOUS
  <2>1. MovedFrom(Moved[k - 1], k, h) = g
    BY <1>0, <1>1, <1>4 DEF MovedFrom, Moving
  <2>2. /\ Sound(g) /\ All(g) = All(h) /\ Miscount(g) = Miscount(h)
        /\ g.ht1.cap = h.ht1.cap /\ Out(g)
    BY <1>4, StopSound
  <2> QED
    BY <1>2, <2>1, <2>2 DEF After
<1>5. ASSUME Moving(h)
      PROVE  After(h, Moved[k][h])
  <2> DEFINE S == {g \in HMap : After(h, g)}
  <2>1. MovedFrom(Moved[k - 1], k, h) = Moved[k - 1][Move(h)]
    BY <1>0, <1>1, <1>5 DEF MovedFrom, Moving
  <2>2. Move(h) \in S
    <3>1. /\ Sound(Move(h)) /\ All(Move(h)) = All(h) /\ Miscount(Move(h)) = Miscount(h)
          /\ Move(h).ht1.cap = h.ht1.cap /\ Load(Move(h)) = Load(h) - 1
      BY <1>5, MoveSound
    <3>2. Load(Move(h)) < Load(h)
      BY <1>1, <3>1
    <3> QED
      BY <3>1, <3>2 DEF After, Sound
  <2>3. \A g \in S : Moving(g) => Move(g) \in S
    BY AfterMove DEF After, Sound
  <2>4. \A g \in S :
          g.ht2.size > 0 /\ ~Moving(g) => [g EXCEPT !.resizing_pos = NextSlot(g)] \in S
    BY AfterMove DEF After, Sound
  <2>5. S \in SUBSET HMap
    OBVIOUS
  <2>6. Moved[k - 1][Move(h)] \in S
    <3> HIDE DEF S
    <3> QED
      BY <1>0, <2>2, <2>3, <2>4, <2>5, MovedKeeps
  <2> QED
    BY <1>2, <2>1, <2>6
<1> QED
  BY <1>1, <1>2, <1>3, <1>4, <1>5

LEMMA NullNodes == Nodes(NullTab) = {}
BY DEF Nodes, NullTab

(* A call of hm_help_resizing that does not overrun. *)
LEMMA HelpSound ==
  ASSUME NEW h, Sound(h), ~Overruns(h), h.ht1.cap # 0 => Load(h) <= Limit(h.ht1.cap),
         h.ht2.size > 0 \/ Light(h)
  PROVE  LET g == hm_help_resizing(h)
         IN /\ Sound(g) /\ All(g) = All(h) /\ Miscount(g) = Miscount(h) /\ Light(g)
            /\ g.ht2.cap # 0 => g.ht2.size > 0 /\ g.resizing_pos <= g.ht2.cap
<1> PICK r : r = Moved[k_resizing_work][h]
  OBVIOUS
<1>0. h \in HMap /\ r \in HMap
  BY MovedSound DEF Sound
<1>1. h.ht2.size \in Int /\ Load(h) \in Int /\ h.ht1.cap \in Nat /\ Limit(h.ht1.cap) \in Int
  <2>1. k_max_load_factor + 1 \in Nat
    BY HashMapAssumption
  <2> QED
    BY <1>0, <2>1, MapFields, TabFields DEF Load, Limit
<1>2. ~Out(r)
  BY DEF Overruns, Out
<1>3. /\ Sound(r) /\ All(r) = All(h) /\ Miscount(r) = Miscount(h) /\ Light(r)
  <2>1. CASE h.ht2.size > 0
    <3>1. After(h, r)
      BY <2>1, MovedSound
    <3>2. Load(r) \in Int
      BY <1>0, LoadType
    <3>3. r.ht1.cap = h.ht1.cap /\ Load(r) < Load(h)
      BY <1>2, <3>1 DEF After
    <3> QED
      BY <1>1, <3>1, <3>2, <3>3 DEF After, Light
  <2>2. CASE ~(h.ht2.size > 0)
    <3>1. r = h
      BY <2>2, MovedSound
    <3> QED
      BY <2>2, <3>1
  <2> QED
    BY <2>1, <2>2
<1>4. /\ r.ht2.size \in Int /\ r.ht2.cap \in Nat /\ r.resizing_pos \in Nat
      /\ Cardinality(Nodes(r.ht2)) \in Nat /\ Cardinality(Nodes(r.ht2)) <= r.ht2.size
      /\ r.ht2.size >= 0
  <2>1. /\ r.ht2.size \in Int /\ r.ht2.cap \in Nat /\ r.resizing_pos \in Nat
        /\ Cardinality(Nodes(r.ht2)) \in Nat /\ Cardinality(Nodes(r.ht2)) <= r.ht2.size
    BY <1>0, <1>3, SoundTabs, MapFields, TabFields DEF Sound, Sizes
  <2> QED
    BY <2>1
<1>5. CASE r.ht2.size # 0
  <2>1. hm_help_resizing(h) = r
    BY <1>5 DEF hm_help_resizing, Freed
  <2>2. r.ht2.size > 0 /\ r.resizing_pos <= r.ht2.cap
    BY <1>2, <1>4, <1>5 DEF Out
  <2> QED
    BY <1>3, <2>1, <2>2
<1>6. CASE r.ht2.size = 0
  <2> PICK g : g = [r EXCEPT !.ht2 = NullTab]
    OBVIOUS
  <2>1. hm_help_resizing(h) = g
    BY <1>6 DEF hm_help_resizing, Freed
  <2>2. g.ht1 = r.ht1 /\ g.ht2 = NullTab /\ g.resizing_pos = r.resizing_pos /\ g \in HMap
    BY <1>0, NullTabType DEF HMap
  <2>3. Cardinality(Nodes(r.ht2)) = 0
    BY <1>4, <1>6
  <2>4. Nodes(r.ht2) = {}
    <3>1. IsFiniteSet(Nodes(r.ht2))
      BY <1>3 DEF Sound, Finite
    <3> QED
      BY <2>3, <3>1, FS_EmptySet
  <2>5. All(g) = All(r) /\ Finite(g) /\ Miscount(g) = Miscount(r)
    <3>1. Nodes(g.ht2) = Nodes(r.ht2) /\ g.ht2.size = r.ht2.size
      BY <1>6, <2>2, <2>4, NullNodes, NullTabType
    <3> QED
      BY <1>3, <2>2, <3>1 DEF All, Finite, Miscount, Sound
  <2>6. Load(g) = Load(r) /\ Light(g)
    BY <1>3, <1>6, <2>2, NullTabType DEF Load, Light
  <2>7. Sizes(g)
    <3>1. Nodes(g.ht2) = Nodes(r.ht2) /\ g.ht2.size = r.ht2.size /\ g.ht2.size = 0
      BY <1>6, <2>2, <2>4, NullNodes, NullTabType
    <3> QED
      BY <1>3, <2>2, <2>5, <3>1 DEF Sizes, Sound
  <2>8. Placed(g.ht2) /\ Drained(g) /\ g.ht2.cap = 0
    BY <2>2, NullTabType DEF Placed, Drained
  <2>9. Sound(g)
    BY <1>3, <2>2, <2>5, <2>7, <2>8 DEF Sound
  <2> QED
    BY <1>3, <2>1, <2>5, <2>6, <2>8, <2>9
<1> QED
  BY <1>5, <1>6
-----------------------------------------------------------------------------
(* What holds between operations. *)
AtRest(h) ==
  /\ Sound(h) /\ Light(h)
  /\ h.ht2.cap # 0 => h.ht2.size > 0 /\ h.resizing_pos <= h.ht2.cap

LEMMA LimitOf ==
  ASSUME NEW a \in Int, NEW c \in Nat \ {0}
  PROVE  /\ Limit(c) \in Nat \ {0} /\ Limit(c * 2) = 2 * Limit(c)
         /\ a \div c > k_max_load_factor <=> a >= Limit(c)
<1> PICK f : f = k_max_load_factor
  OBVIOUS
<1>1. f \in Nat
  BY HashMapAssumption
<1>2. (f + 1) * c \in Nat \ {0} /\ (f + 1) * (c * 2) = 2 * ((f + 1) * c)
  BY <1>1
<1>3. a \div c > f <=> a >= (f + 1) * c
  BY <1>1
<1> QED
  BY <1>2, <1>3 DEF Limit

(* A search finds a node with the key if there is one in either table. *)
LEMMA FoundIs ==
  ASSUME NEW h, Sound(h), NEW k \in Key
  PROVE  /\ Found(h, k) # None => Found(h, k) \in All(h) /\ KeyOf[Found(h, k)] = k
         /\ Found(h, k) = None => \A n \in All(h) : KeyOf[n] # k
<1>1. Chained(h.ht1) /\ Chained(h.ht2)
  BY SoundTabs
<1>2. CASE hlookup(h.ht1, k) # None
  <2>1. Found(h, k) = hlookup(h.ht1, k)
    BY <1>2 DEF Found
  <2> QED
    BY <1>1, <1>2, <2>1, LookedUp DEF All
<1>3. CASE hlookup(h.ht1, k) = None
  <2>1. Found(h, k) = hlookup(h.ht2, k)
    BY <1>3 DEF Found
  <2> QED
    BY <1>1, <1>3, <2>1, LookedUp DEF All
<1> QED
  BY <1>2, <1>3

(* The node found is taken out, and ht1 counts one less. *)
LEMMA DetachRest ==
  ASSUME NEW h, AtRest(h), NEW n \in All(h)
  PROVE  /\ AtRest(Detach(h, n)) /\ All(Detach(h, n)) = All(h) \ {n}
         /\ n \in Nodes(h.ht1) => Miscount(Detach(h, n)) = Miscount(h)
<1> PICK g : g = Detach(h, n)
  OBVIOUS
<1>0. /\ h \in HMap /\ Chained(h.ht1) /\ Chained(h.ht2) /\ Sound(h)
      /\ h.ht1.size \in Int /\ h.ht2.size \in Int
  BY SoundTabs, MapFields, TabFields DEF AtRest, Sound
<1> DEFINE Is(a, b) ==
      /\ g \in HMap /\ g.resizing_pos = h.resizing_pos
      /\ Placed(g.ht1) /\ g.ht1.cap = h.ht1.cap /\ g.ht1.size = h.ht1.size - 1
      /\ Placed(g.ht2) /\ g.ht2.cap = h.ht2.cap /\ g.ht2.size = h.ht2.size
      /\ Nodes(g.ht1) = a /\ Nodes(g.ht2) = b
      /\ \A i \in 1..h.ht2.cap : h.ht2.tab[i] = <<>> => g.ht2.tab[i] = <<>>
<1>1. ASSUME n \in Nodes(h.ht1)
      PROVE  Is(Nodes(h.ht1) \ {n}, Nodes(h.ht2))
  <2> PICK u : u = Unlink(h.ht1, n)
    OBVIOUS
  <2>1. Chained(u) /\ u.cap = h.ht1.cap /\ u.size = h.ht1.size /\ Nodes(u) = Nodes(h.ht1) \ {n}
    BY <1>0, <1>1, Unlinked
  <2> PICK v : v = [u EXCEPT !.size = @ - 1]
    OBVIOUS
  <2>2. /\ v \in HTab /\ v.cap = h.ht1.cap /\ v.size = h.ht1.size - 1 /\ v.tab = u.tab
    BY <1>0, <2>1 DEF Chained, HTab
  <2>3. Placed(v) /\ Nodes(v) = Nodes(u)
    BY <2>1, <2>2 DEF Placed, Nodes, Slot, Chained
  <2>4. g = [h EXCEPT !.ht1 = v]
    <3>1. g = [[h EXCEPT !["ht1"] = u] EXCEPT !.ht1.size = @ - 1]
      BY <1>1 DEF Detach
    <3> QED
      BY <1>0, <3>1 DEF HMap
  <2>5. g \in HMap /\ g.ht1 = v /\ g.ht2 = h.ht2 /\ g.resizing_pos = h.resizing_pos
    BY <1>0, <2>2, <2>4 DEF HMap
  <2> QED
    BY <1>0, <2>1, <2>2, <2>3, <2>5 DEF Chained
<1>2. ASSUME n \notin Nodes(h.ht1)
      PROVE  n \in Nodes(h.ht2) /\ Is(Nodes(h.ht1), Nodes(h.ht2) \ {n})
  <2>0. n \in Nodes(h.ht2)
    BY <1>2 DEF All
  <2> PICK u : u = Unlink(h.ht2, n)
    OBVIOUS
  <2>1. /\ Chained(u) /\ u.cap = h.ht2.cap /\ u.size = h.ht2.size
        /\ Nodes(u) = Nodes(h.ht2) \ {n}
        /\ \A i \in 1..h.ht2.cap : h.ht2.tab[i] = <<>> => u.tab[i] = <<>>
    BY <1>0, <2>0, Unlinked
  <2> PICK t : t = h.ht1
    OBVIOUS
  <2> PICK v : v = [t EXCEPT !.size = @ - 1]
    OBVIOUS
  <2>2. /\ v \in HTab /\ v.cap = h.ht1.cap /\ v.size = h.ht1.size - 1 /\ v.tab = h.ht1.tab
    BY <1>0 DEF Chained, HTab
  <2>3. Placed(v) /\ Nodes(v) = Nodes(h.ht1)
    BY <1>0, <2>2 DEF Placed, Nodes, Slot, Chained
  <2>4. g = [h EXCEPT !.ht2 = u, !.ht1 = v]
    <3>1. g = [[h EXCEPT !["ht2"] = u] EXCEPT !.ht1.size = @ - 1]
      BY <1>2 DEF Detach
    <3> QED
      BY <1>0, <3>1 DEF HMap
  <2>5. g.ht1 = v /\ g.ht2 = u /\ g.resizing_pos = h.resizing_pos /\ g \in HMap
    BY <1>0, <2>1, <2>2, <2>4 DEF HMap, Chained
  <2> QED
    BY <1>0, <2>0, <2>1, <2>2, <2>3, <2>5 DEF Chained
<1>3. Nodes(h.ht1) \cap Nodes(h.ht2) = {}
  BY <1>0 DEF Sound, Finite
<1>4. Is(Nodes(h.ht1) \ {n}, Nodes(h.ht2) \ {n})
  <2>1. CASE n \in Nodes(h.ht1)
    <3>1. Nodes(h.ht2) \ {n} = Nodes(h.ht2)
      BY <1>3, <2>1
    <3> HIDE DEF Is
    <3> QED
      BY <1>1, <2>1, <3>1
  <2>2. CASE n \notin Nodes(h.ht1)
    <3>1. Nodes(h.ht1) \ {n} = Nodes(h.ht1)
      BY <2>2
    <3> HIDE DEF Is
    <3> QED
      BY <1>2, <2>2, <3>1
  <2> QED
    BY <2>1, <2>2
<1>5. All(g) = All(h) \ {n} /\ Finite(g)
  <2>1. IsFiniteSet(Nodes(h.ht1)) /\ IsFiniteSet(Nodes(h.ht2))
    BY <1>0 DEF Sound, Finite
  <2>2. IsFiniteSet(Nodes(h.ht1) \ {n}) /\ IsFiniteSet(Nodes(h.ht2) \ {n})
    BY <2>1, FS_RemoveElement
  <2> QED
    BY <1>3, <1>4, <2>2 DEF Finite, All
<1> PICK a : a = Cardinality(Nodes(h.ht2))
  OBVIOUS
<1> PICK b : b = Cardinality(All(h))
  OBVIOUS
<1>6. a \in Nat /\ b \in Int /\ h.ht1.size + h.ht2.size = b /\ a <= h.ht2.size
  BY <1>0, SoundTabs DEF Sound, Sizes
<1>7. Cardinality(All(g)) = b - 1
  BY <1>0, <1>5, SoundTabs, FS_RemoveElement
<1>8. Cardinality(Nodes(g.ht2)) = IF n \in Nodes(h.ht2) THEN a - 1 ELSE a
  <2>1. IsFiniteSet(Nodes(h.ht2))
    BY <1>0 DEF Sound, Finite
  <2>2. Cardinality(Nodes(h.ht2) \ {n}) = IF n \in Nodes(h.ht2) THEN a - 1 ELSE a
    BY <2>1, FS_RemoveElement
  <2> QED
    BY <1>4, <2>2
<1>9. h.ht1.cap # 0
  BY <1>0, MapFields, TabFields, NodesIn DEF All
<1>10. Sizes(g)
  <2>1. g.ht1.size + g.ht2.size = b - 1
    BY <1>0, <1>4, <1>6
  <2>2. Cardinality(Nodes(g.ht2)) <= g.ht2.size
    BY <1>0, <1>4, <1>6, <1>8
  <2>3. g.ht1.cap # 0 /\ (g.ht2.cap = 0 => g.ht2.size = 0)
    BY <1>0, <1>4, <1>9 DEF Sound, Sizes
  <2> QED
    BY <1>7, <2>1, <2>2, <2>3 DEF Sizes
<1>11. n \in Nodes(h.ht1) => Miscount(g) = Miscount(h)
  BY <1>3, <1>4, <1>8 DEF Miscount
<1>12. Drained(g)
  BY <1>0, <1>4 DEF Sound, Drained
<1>13. Sound(g)
  BY <1>4, <1>5, <1>10, <1>12 DEF Sound
<1>14. Light(g)
  <2>1. Load(h) < Limit(h.ht1.cap)
    BY <1>9 DEF AtRest, Light
  <2>2. Load(g) = Load(h) - 1 /\ Load(h) \in Int
    BY <1>0, <1>4 DEF Load
  <2>3. Limit(h.ht1.cap) \in Int
    <3>1. h.ht1.cap \in Nat /\ k_max_load_factor + 1 \in Nat
      BY <1>0, MapFields, TabFields, HashMapAssumption
    <3> QED
      BY <3>1 DEF Limit
  <2> QED
    BY <1>4, <2>1, <2>2, <2>3 DEF Light
<1> QED
  BY <1>4, <1>5, <1>11, <1>13, <1>14 DEF AtRest

(* A new table is empty. *)
LEMMA NewTab ==
  ASSUME NEW c \in Nat \ {0}
  PROVE  /\ Chained(hinit(c)) /\ hinit(c).cap = c /\ hinit(c).size = 0 /\ Nodes(hinit(c)) = {}
<1> DEFINE tab == [i \in 1..c |-> <<>>]
<1>1. tab \in Seq(Seq(Node)) /\ Len(tab) = c
  <2>1. <<>> \in Seq(Node)
    OBVIOUS
  <2>2. tab \in [1..c -> Seq(Node)]
    BY <2>1
  <2> HIDE DEF tab
  <2> QED
    BY <2>2, FunctionSeq
<1>2. hinit(c) = [cap |-> c, size |-> 0, tab |-> tab]
  BY DEF hinit
<1>3. hinit(c).cap = c /\ hinit(c).size = 0 /\ \A i \in 1..c : hinit(c).tab[i] = <<>>
  BY <1>2
<1>4. hinit(c) \in HTab
  <2> HIDE DEF tab
  <2>1. [cap |-> c, size |-> 0, tab |-> tab] \in [cap : Nat, size : Int, tab : Seq(Seq(Node))]
    BY <1>1
  <2> QED
    BY <1>1, <1>2, <2>1 DEF HTab
<1>5. Range(<<>>) = {} /\ IsInjective(<<>>)
  BY DEF Range, IsInjective
<1>6. Nodes(hinit(c)) = {} /\ Placed(hinit(c))
  BY <1>3, <1>5 DEF Nodes, Placed
<1> QED
  BY <1>3, <1>4, <1>6 DEF Chained

(* The map with another ht1. *)
LEMMA OtherTab ==
  ASSUME NEW h, Sound(h), NEW t, Chained(t), t.cap # 0, IsFiniteSet(Nodes(t)),
         Nodes(t) \cap Nodes(h.ht2) = {}, t.size = Cardinality(Nodes(t)) + Cardinality(Nodes(h.ht2)) - h.ht2.size
  PROVE  LET g == [h EXCEPT !.ht1 = t]
         IN /\ Sound(g) /\ g.ht1 = t /\ g.ht2 = h.ht2 /\ g.resizing_pos = h.resizing_pos
            /\ All(g) = Nodes(t) \cup Nodes(h.ht2) /\ Miscount(g) = Miscount(h)
<1> PICK g : g = [h EXCEPT !.ht1 = t]
  OBVIOUS
<1>0. h \in HMap
  BY DEF Sound
<1>1. g \in HMap /\ g.ht1 = t /\ g.ht2 = h.ht2 /\ g.resizing_pos = h.resizing_pos
  BY <1>0 DEF HMap, Chained
<1>2. All(g) = Nodes(t) \cup Nodes(h.ht2) /\ Miscount(g) = Miscount(h) /\ Drained(g) /\ Finite(g)
  BY <1>1 DEF All, Miscount, Drained, Finite, Sound
<1> PICK a : a = Cardinality(Nodes(t))
  OBVIOUS
<1> PICK b : b = Cardinality(Nodes(h.ht2))
  OBVIOUS
<1>3. a \in Nat /\ b \in Nat /\ h.ht2.size \in Int /\ b <= h.ht2.size
  BY <1>0, SoundTabs, FS_CardinalityType, MapFields, TabFields DEF Sound, Sizes
<1>4. Cardinality(All(g)) = a + b
  <2>1. Cardinality(Nodes(t) \cup Nodes(h.ht2)) = a + b - Cardinality({})
    BY FS_Union DEF Sound, Finite
  <2> QED
    BY <1>2, <1>3, <2>1, FS_EmptySet
<1>5. Sizes(g)
  <2>1. g.ht1.size + g.ht2.size = a + b
    BY <1>1, <1>3
  <2> QED
    BY <1>1, <1>3, <1>4, <2>1 DEF Sizes, Sound
<1>6. Sound(g)
  BY <1>1, <1>2, <1>5 DEF Sound, Chained
<1> QED
  BY <1>1, <1>2, <1>6

(* The node in ht1, before hm_insert thinks of resizing. *)
LEMMA InsertFirst ==
  ASSUME NEW h, AtRest(h), NEW n \in Node, n \notin All(h)
  PROVE  LET first == IF h.ht1.cap = 0 THEN hinit(InitialSize) ELSE h.ht1
             g == [h EXCEPT !.ht1 = hinsert(first, n)]
         IN /\ Sound(g) /\ All(g) = All(h) \cup {n} /\ Miscount(g) = Miscount(h)
            /\ g.ht1.cap # 0 /\ g.ht2 = h.ht2 /\ Load(g) <= Limit(g.ht1.cap)
<1> PICK t : t = IF h.ht1.cap = 0 THEN hinit(InitialSize) ELSE h.ht1
  OBVIOUS
<1>0. /\ Sound(h) /\ h \in HMap /\ h.ht1.size \in Int /\ h.ht2.size \in Int
      /\ h.ht1.cap \in Nat /\ h.ht2.cap \in Nat /\ Chained(h.ht1)
  BY SoundTabs, MapFields, TabFields DEF AtRest, Sound
<1> PICK a : a = Cardinality(Nodes(h.ht1))
  OBVIOUS
<1> PICK b : b = Cardinality(Nodes(h.ht2))
  OBVIOUS
<1>1. a \in Nat /\ b \in Nat /\ h.ht1.size + h.ht2.size = a + b
  BY <1>0, SoundTabs DEF Sound, Sizes
<1>2. /\ Chained(t) /\ t.cap # 0 /\ t.cap \in Nat /\ Nodes(t) = Nodes(h.ht1) /\ t.size = h.ht1.size
      /\ Load(h) < Limit(t.cap)
  <2>1. CASE h.ht1.cap # 0
    BY <1>0, <2>1 DEF AtRest, Light
  <2>2. CASE h.ht1.cap = 0
    <3>1. /\ InitialSize \in Nat \ {0} /\ t = hinit(InitialSize) /\ 0 \in Int
      BY <2>2, HashMapAssumption
    <3>2. /\ Chained(t) /\ t.cap = InitialSize /\ t.size = 0 /\ Nodes(t) = {}
      BY <3>1, NewTab
    <3>3. Nodes(h.ht1) = {}
      BY <1>0, <2>2, NodesIn
    <3>4. h.ht1.size = 0 /\ h.ht2.size = 0
      BY <1>0, <2>2, MapFields DEF Sound, Sizes
    <3>5. Limit(InitialSize) \in Nat \ {0}
      BY <3>1, LimitOf
    <3>6. Load(h) = 0
      BY <3>4 DEF Load
    <3> QED
      BY <3>1, <3>2, <3>3, <3>4, <3>5, <3>6
  <2> QED
    BY <2>1, <2>2
<1> PICK u : u = hinsert(t, n)
  OBVIOUS
<1>3. Chained(u) /\ u.cap = t.cap /\ u.size = t.size + 1 /\ Nodes(u) = Nodes(t) \cup {n}
  BY <1>2, Inserted DEF All
<1>4. IsFiniteSet(Nodes(u)) /\ Cardinality(Nodes(u)) = a + 1 /\ Nodes(u) \cap Nodes(h.ht2) = {}
  <2>1. IsFiniteSet(Nodes(h.ht1)) /\ n \notin Nodes(h.ht1)
    BY <1>0 DEF Sound, Finite, All
  <2>2. /\ IsFiniteSet(Nodes(h.ht1) \cup {n})
        /\ Cardinality(Nodes(h.ht1) \cup {n}) = a + 1
    BY <2>1, FS_AddElement
  <2>3. Nodes(u) \cap Nodes(h.ht2) = {}
    BY <1>0, <1>2, <1>3 DEF Sound, Finite, All
  <2> QED
    BY <1>2, <1>3, <2>2, <2>3
<1>5. u.size = (a + 1) + b - h.ht2.size
  BY <1>0, <1>1, <1>2, <1>3
<1> PICK g : g = [h EXCEPT !.ht1 = u]
  OBVIOUS
<1>6. /\ Sound(g) /\ g.ht1 = u /\ g.ht2 = h.ht2
      /\ All(g) = Nodes(u) \cup Nodes(h.ht2) /\ Miscount(g) = Miscount(h)
  BY <1>0, <1>2, <1>3, <1>4, <1>5, OtherTab
<1>7. All(g) = All(h) \cup {n}
  BY <1>2, <1>3, <1>6 DEF All
<1>8. Load(g) = Load(h) + 1 /\ Load(h) \in Int
  BY <1>0, <1>2, <1>3, <1>6 DEF Load
<1>9. Limit(t.cap) \in Int
  BY <1>0, <1>2, LimitOf
<1> QED
  BY <1>2, <1>3, <1>6, <1>7, <1>8, <1>9

(* hm_start_resizing: the full table is drained into one twice its size.   *)
LEMMA StartSound ==
  ASSUME NEW h, Sound(h), h.ht1.cap # 0, h.ht2.cap = 0, TooFull(h.ht1),
         Load(h) <= Limit(h.ht1.cap)
  PROVE  LET g == hm_start_resizing(h)
         IN /\ Sound(g) /\ All(g) = All(h) /\ Miscount(g) = Miscount(h)
            /\ g.ht1.cap # 0 /\ g.ht2.size > 0 /\ Load(g) <= Limit(g.ht1.cap)
<1> PICK c : c = h.ht1.cap
  OBVIOUS
<1> PICK s : s = h.ht1.size
  OBVIOUS
<1> PICK t : t = hinit(c * 2)
  OBVIOUS
<1>0. /\ h \in HMap /\ h.ht1 \in HTab /\ h.ht2 \in HTab /\ c \in Nat \ {0} /\ s \in Int
      /\ c * 2 \in Nat \ {0} /\ Chained(h.ht1)
  BY MapFields, TabFields, SoundTabs DEF Sound
<1>1. /\ Chained(t) /\ t \in HTab /\ t.cap = c * 2 /\ t.size = 0 /\ Nodes(t) = {}
  BY <1>0, NewTab DEF Chained
<1> PICK g : g = hm_start_resizing(h)
  OBVIOUS
<1>2. g.ht1 = t /\ g.ht2 = h.ht1 /\ g.resizing_pos = 1
  BY DEF hm_start_resizing
<1>3. g \in HMap
  <2>1. g = [ht1 |-> t, ht2 |-> h.ht1, resizing_pos |-> 1]
    BY DEF hm_start_resizing
  <2>2. g \in [ht1 : HTab, ht2 : HTab, resizing_pos : Nat \ {0}]
    BY <2>1, <1>0, <1>1
  <2> QED
    BY <2>2, <1>2, <1>1, <1>0 DEF HMap
<1>4. Nodes(h.ht2) = {}
  BY DEF Nodes
<1>5. All(h) = Nodes(h.ht1) /\ All(g) = Nodes(h.ht1)
  BY <1>1, <1>2, <1>4 DEF All
<1>6. IsFiniteSet(Nodes(h.ht1)) /\ h.ht2.size = 0 /\ s = Cardinality(Nodes(h.ht1))
  <2>1. h.ht2.size = 0 /\ h.ht1.size + h.ht2.size = Cardinality(All(h)) /\ IsFiniteSet(Nodes(h.ht1))
    BY DEF Sound, Sizes, Finite
  <2> QED
    BY <2>1, <1>5, <1>0
<1>7. Finite(g)
  BY <1>1, <1>2, <1>6, FS_EmptySet DEF Finite
<1>8. Cardinality({}) = 0
  BY FS_EmptySet
<1>9. Sizes(g)
  BY <1>0, <1>1, <1>2, <1>5, <1>6 DEF Sizes
<1>10. Miscount(g) = Miscount(h)
  BY <1>0, <1>2, <1>4, <1>6, <1>8 DEF Miscount
<1>11. Sound(g)
  BY <1>0, <1>1, <1>2, <1>3, <1>7, <1>9 DEF Sound, Chained, Drained
<1>12. s <= Limit(c) /\ s >= Limit(c) /\ Limit(c) \in Nat \ {0} /\ Limit(c * 2) = 2 * Limit(c)
  <2>1. /\ Limit(c) \in Nat \ {0} /\ Limit(c * 2) = 2 * Limit(c)
        /\ s \div c > k_max_load_factor <=> s >= Limit(c)
    BY <1>0, LimitOf
  <2>2. s \div c > k_max_load_factor
    BY DEF TooFull
  <2>3. Load(h) = s
    BY <1>0, <1>6 DEF Load
  <2>4. s <= Limit(c)
    BY <2>3
  <2> QED
    BY <2>1, <2>2, <2>4
<1>13. g.ht2.size > 0 /\ Load(g) <= Limit(g.ht1.cap)
  BY <1>12, <1>0, <1>1, <1>2 DEF Load
<1> QED
  BY <1>0, <1>1, <1>2, <1>5, <1>10, <1>11, <1>13

(* hm_insert as a whole. *)
LEMMA InsertRest ==
  ASSUME NEW h, AtRest(h), NEW n \in Node, n \notin All(h)
  PROVE  LET first == IF h.ht1.cap = 0 THEN hinit(InitialSize) ELSE h.ht1
             h1 == [h EXCEPT !.ht1 = hinsert(first, n)]
             h2 == IF h1.ht2.cap = 0 /\ TooFull(h1.ht1) THEN hm_start_resizing(h1) ELSE h1
             g  == hm_help_resizing(h2)
         IN ~Overruns(h2) =>
              AtRest(g) /\ All(g) = All(h) \cup {n} /\ Miscount(g) = Miscount(h)
<1> PICK h1 : h1 = [h EXCEPT !.ht1 = hinsert(IF h.ht1.cap = 0 THEN hinit(InitialSize) ELSE h.ht1, n)]
  OBVIOUS
<1> PICK h2 : h2 = IF h1.ht2.cap = 0 /\ TooFull(h1.ht1) THEN hm_start_resizing(h1) ELSE h1
  OBVIOUS
<1>1. /\ Sound(h1) /\ All(h1) = All(h) \cup {n} /\ Miscount(h1) = Miscount(h)
      /\ h1.ht1.cap # 0 /\ h1.ht2 = h.ht2 /\ Load(h1) <= Limit(h1.ht1.cap)
  BY InsertFirst
<1>2. h1 \in HMap /\ h1.ht1.cap \in Nat \ {0} /\ h1.ht1.size \in Int /\ h1.ht2.size \in Int
  BY <1>1, MapFields, TabFields DEF Sound
<1>3. /\ Sound(h2) /\ All(h2) = All(h) \cup {n} /\ Miscount(h2) = Miscount(h)
      /\ h2.ht1.cap # 0 /\ Load(h2) <= Limit(h2.ht1.cap)
      /\ h2.ht2.size > 0 \/ Light(h2)
  <2>1. CASE h1.ht2.cap = 0 /\ TooFull(h1.ht1)
    BY <2>1, <1>1, StartSound
  <2>2. CASE h1.ht2.cap = 0 /\ ~TooFull(h1.ht1)
    <3>1. h1.ht2.size = 0
      BY <2>2, <1>1 DEF Sound, Sizes
    <3>2. h1.ht1.size < Limit(h1.ht1.cap)
      BY <2>2, <1>2, LimitOf DEF TooFull
    <3>3. Light(h1)
      BY <3>1, <3>2, <1>2 DEF Light, Load
    <3> QED
      BY <2>2, <3>3, <1>1
  <2>3. CASE h1.ht2.cap # 0
    BY <2>3, <1>1 DEF AtRest
  <2> QED
    BY <2>1, <2>2, <2>3
<1>4. ~Overruns(h2) => LET g == hm_help_resizing(h2)
         IN AtRest(g) /\ All(g) = All(h) \cup {n} /\ Miscount(g) = Miscount(h)
  BY <1>3, HelpSound DEF AtRest
<1> QED
  BY <1>4

(* hm_help_resizing at the start of a lookup or deletion. *)
LEMMA HelpRest ==
  ASSUME NEW h, AtRest(h), ~Overruns(h)
  PROVE  LET g == hm_help_resizing(h)
         IN AtRest(g) /\ All(g) = All(h) /\ Miscount(g) = Miscount(h)
<1>1. h \in HMap /\ Sound(h) /\ Light(h)
  BY DEF AtRest, Sound
<1>2. h.ht1.cap \in Nat /\ Load(h) \in Int
  BY <1>1, MapFields, TabFields DEF Load
<1>3. h.ht1.cap # 0 => Load(h) <= Limit(h.ht1.cap)
  <2>1. h.ht1.cap # 0 => Limit(h.ht1.cap) \in Nat /\ Load(h) < Limit(h.ht1.cap)
    BY <1>1, <1>2, LimitOf DEF Light
  <2> QED
    BY <2>1, <1>2
<1> QED
  BY <1>1, <1>3, HelpSound DEF AtRest
-----------------------------------------------------------------------------
RetOK == ret = None \/ ret \in {"insert", "lookup", "delete"} \X Key \X (Node \cup {None})

(* The inductive invariant. *)
Inv == AtRest(hmap) /\ RetOK /\ fault \in BOOLEAN

LEMMA InitInv == Init => Inv /\ AllNodes = {} /\ Miscount(hmap) = 0
<1> SUFFICES ASSUME Init
             PROVE  Inv /\ AllNodes = {} /\ Miscount(hmap) = 0
  OBVIOUS
<1> PICK h : h = hmap
  OBVIOUS
<1>1. h = [ht1 |-> NullTab, ht2 |-> NullTab, resizing_pos |-> 1]
  BY DEF Init
<1>2. h.ht1 = NullTab /\ h.ht2 = NullTab /\ h.resizing_pos = 1
  BY <1>1
<1>3. h \in HMap
  <2>1. h \in [ht1 : HTab, ht2 : HTab, resizing_pos : Nat \ {0}]
    BY <1>1, NullTabType
  <2> QED
    BY <2>1, <1>2, NullTabType DEF HMap
<1>4. All(h) = {} /\ Nodes(h.ht1) = {} /\ Nodes(h.ht2) = {}
  BY <1>2, NullNodes DEF All
<1>5. IsFiniteSet({}) /\ Cardinality({}) = 0
  BY FS_EmptySet
<1>6. Finite(h) /\ Sizes(h) /\ Drained(h) /\ Miscount(h) = 0
  BY <1>2, <1>4, <1>5, NullTabType DEF Finite, Sizes, Drained, Miscount
<1>7. Placed(h.ht1) /\ Placed(h.ht2)
  BY <1>2, NullTabType DEF Placed
<1>8. AtRest(h)
  BY <1>2, <1>3, <1>6, <1>7, NullTabType DEF AtRest, Sound, Light
<1> QED
  BY <1>4, <1>6, <1>8 DEF Inv, RetOK, Init, AllNodes, All

LEMMA InsertStep ==
  ASSUME Inv, NEW n \in Node, hm_insert(n)
  PROVE  Inv' /\ AllNodes' = AllNodes \cup {n} /\ Miscount(hmap') = Miscount(hmap)
<1>1. n \notin All(hmap)
  BY DEF hm_insert, All
<1>2. AtRest(hmap') /\ All(hmap') = All(hmap) \cup {n} /\ Miscount(hmap') = Miscount(hmap)
  BY <1>1, InsertRest DEF Inv, hm_insert, Ready
<1>3. RetOK' /\ fault' \in BOOLEAN
  BY HashMapAssumption DEF Inv, hm_insert, RetOK
<1> QED
  BY <1>2, <1>3 DEF Inv, AllNodes, All

LEMMA LookupStep ==
  ASSUME Inv, NEW k \in Key, hm_lookup(k)
  PROVE  /\ Inv' /\ AllNodes' = AllNodes /\ Miscount(hmap') = Miscount(hmap)
         /\ ret' = <<"lookup", k, Found(hmap', k)>>
<1>1. AtRest(hmap') /\ All(hmap') = All(hmap) /\ Miscount(hmap') = Miscount(hmap)
  BY HelpRest DEF Inv, hm_lookup, Ready
<1>2. Found(hmap', k) \in Node \cup {None}
  <2>1. Found(hmap', k) # None => Found(hmap', k) \in All(hmap')
    BY <1>1, FoundIs DEF AtRest
  <2>2. All(hmap') \subseteq Node
    BY DEF All, Nodes
  <2> QED
    BY <2>1, <2>2
<1>3. ret' = <<"lookup", k, Found(hmap', k)>> /\ fault' = fault
  BY DEF hm_lookup
<1>4. RetOK'
  BY <1>2, <1>3 DEF RetOK
<1> QED
  BY <1>1, <1>3, <1>4 DEF Inv, AllNodes, All

LEMMA DeleteStep ==
  ASSUME Inv, NEW k \in Key, hm_delete(k)
  PROVE  LET h == hm_help_resizing(hmap)
             n == Found(h, k)
         IN /\ Inv' /\ ret' = <<"delete", k, n>>
            /\ Sound(h) /\ All(h) = AllNodes /\ AllNodes' = AllNodes \ {n}
            /\ n \in Nodes(h.ht2) \/ Miscount(hmap') = Miscount(hmap)
<1> PICK h : h = hm_help_resizing(hmap)
  OBVIOUS
<1> PICK n : n = Found(h, k)
  OBVIOUS
<1>1. AtRest(h) /\ All(h) = AllNodes /\ Miscount(h) = Miscount(hmap)
  BY HelpRest DEF Inv, hm_delete, Ready, AllNodes, All
<1>2. /\ hmap' = IF n = None THEN h ELSE Detach(h, n)
      /\ ret' = <<"delete", k, n>> /\ fault' = fault
  BY DEF hm_delete
<1>3. n # None => n \in All(h)
  BY <1>1, FoundIs DEF AtRest
<1>4. All(h) \subseteq Node
  BY DEF All, Nodes
<1>5. None \notin Node
  BY HashMapAssumption
<1>6. AtRest(hmap') /\ All(hmap') = All(h) \ {n} /\ (n \in Nodes(h.ht2) \/ Miscount(hmap') = Miscount(h))
  <2>1. CASE n = None
    BY <2>1, <1>1, <1>2, <1>4, <1>5
  <2>2. CASE n # None
    <3>1. n \in Nodes(h.ht1) \/ n \in Nodes(h.ht2)
      BY <2>2, <1>3 DEF All
    <3> QED
      BY <2>2, <3>1, <1>1, <1>2, <1>3, DetachRest
  <2> QED
    BY <2>1, <2>2
<1>7. RetOK'
  BY <1>2, <1>3, <1>4 DEF RetOK
<1> QED
  BY <1>1, <1>2, <1>6, <1>7 DEF Inv, AllNodes, All, AtRest

LEMMA OverrunStep ==
  ASSUME Inv, Overrun
  PROVE  Inv' /\ hmap' = hmap /\ ret' = ret
BY DEF Inv, Overrun, RetOK

LEMMA StepInv == Inv /\ [Next]_vars => Inv'
<1> SUFFICES ASSUME Inv, [Next]_vars
             PROVE  Inv'
  OBVIOUS
<1>1. CASE \E n \in Node : hm_insert(n)
  BY <1>1, InsertStep
<1>2. CASE \E k \in Key : hm_lookup(k)
  BY <1>2, LookupStep
<1>3. CASE \E k \in Key : hm_delete(k)
  BY <1>3, DeleteStep
<1>4. CASE Overrun
  BY <1>4, OverrunStep
<1>5. CASE UNCHANGED vars
  BY <1>5 DEF vars, Inv, RetOK
<1> QED
  BY <1>1, <1>2, <1>3, <1>4, <1>5 DEF Next

(* The invariant the other results rest on holds of every reachable state. *)
LEMMA InvHolds == Spec => []Inv
<1>1. Init => Inv
  BY InitInv
<1>2. Inv /\ [Next]_vars => Inv'
  BY StepInv
<1> QED
  BY <1>1, <1>2, PTL DEF Spec

(* hm_insert, hm_lookup and hm_delete keep the two tables, resizing_pos,   *)
(* the results and fault in their types.                                   *)
THEOREM TypeCorrect == Spec => []TypeOK
<1>1. Inv => TypeOK
  BY DEF Inv, RetOK, TypeOK, AtRest, Sound
<1> QED
  BY <1>1, InvHolds, PTL

(* Whatever is inserted and deleted, and however far the rehash has got,   *)
(* every node is once in the chain its hash code says, in one of the two   *)
(* tables; the sizes add up, and the old table is freed with its last node.*)
THEOREM TablesSound == Spec => []Structure
<1>1. Inv => Structure
  BY DEF Inv, Structure, AtRest, Sound, Finite, Sizes, Drained, All
<1> QED
  BY <1>1, InvHolds, PTL

(* A rehash of k_resizing_work nodes per operation is over before the new  *)
(* table could be too full: after every operation ht1 is below its load    *)
(* factor, so a rehash never has to start before the last one has ended.   *)
THEOREM NeverTooFull == Spec => []RehashKeepsUp
<1>1. Inv => RehashKeepsUp
  <2> SUFFICES ASSUME Inv, hmap.ht1.cap # 0
               PROVE  ~TooFull(hmap.ht1)
    BY DEF RehashKeepsUp
  <2>1. Sound(hmap) /\ Load(hmap) < Limit(hmap.ht1.cap)
    BY DEF Inv, AtRest, Light
  <2>2. /\ hmap.ht1.cap \in Nat \ {0} /\ hmap.ht1.size \in Int /\ hmap.ht2.size \in Int
        /\ Cardinality(Nodes(hmap.ht2)) \in Nat /\ Cardinality(Nodes(hmap.ht2)) <= hmap.ht2.size
    BY <2>1, MapFields, TabFields, SoundTabs DEF Sound, Sizes
  <2>3. /\ Limit(hmap.ht1.cap) \in Nat
        /\ hmap.ht1.size \div hmap.ht1.cap > k_max_load_factor <=> hmap.ht1.size >= Limit(hmap.ht1.cap)
    BY <2>2, LimitOf
  <2>5. \A a \in Nat, b \in Int : a <= b => b >= 0
    OBVIOUS
  <2>6. hmap.ht2.size >= 0
    BY <2>2, <2>5
  <2>4. hmap.ht1.size < Limit(hmap.ht1.cap)
    BY <2>1, <2>2, <2>3, <2>6 DEF Load
  <2>7. ~(hmap.ht1.size >= Limit(hmap.ht1.cap))
    BY <2>2, <2>3, <2>4
  <2> QED
    BY <2>3, <2>7 DEF TooFull
<1> QED
  BY <1>1, InvHolds, PTL

(* ht2.size stops being the number of nodes of ht2 only when hm_delete     *)
(* finds a node there, for which it counts one off ht1.size.               *)
THEOREM DeleteAloneMiscounts == Spec => OnlyDeleteMiscounts
<1>1. ASSUME NEW h, Sound(h)
      PROVE  h.ht2.size = Cardinality(Nodes(h.ht2)) <=> Miscount(h) = 0
  <2>1. h.ht2.size \in Int /\ Cardinality(Nodes(h.ht2)) \in Nat
    BY <1>1, MapFields, TabFields, SoundTabs DEF Sound
  <2> QED
    BY <2>1 DEF Miscount
<1>2. ASSUME Inv, Inv', [Next]_vars, Counted, ~Counted'
      PROVE  \E k \in Key : hm_delete(k) /\ ret'[3] \in Nodes(hm_help_resizing(hmap).ht2)
  <2>1. Miscount(hmap) = 0 /\ Miscount(hmap') # 0
    BY <1>1, <1>2 DEF Inv, AtRest, Counted
  <2>2. ~\E n \in Node : hm_insert(n)
    BY <1>2, <2>1, InsertStep
  <2>3. ~\E k \in Key : hm_lookup(k)
    BY <1>2, <2>1, LookupStep
  <2>4. ~Overrun /\ ~UNCHANGED vars
    BY <1>2, <2>1, OverrunStep DEF vars
  <2>5. PICK k \in Key : hm_delete(k)
    BY <1>2, <2>2, <2>3, <2>4 DEF Next
  <2>6. ret' = <<"delete", k, Found(hm_help_resizing(hmap), k)>>
    BY <1>2, <2>5, DeleteStep
  <2>7. Found(hm_help_resizing(hmap), k) \in Nodes(hm_help_resizing(hmap).ht2)
    BY <1>2, <2>1, <2>5, DeleteStep
  <2>8. ret'[3] = Found(hm_help_resizing(hmap), k)
    BY <2>6
  <2> QED
    BY <2>5, <2>7, <2>8
<1>3. Inv /\ Inv' /\ [Next]_vars =>
        [Counted /\ ~Counted' =>
           \E k \in Key : hm_delete(k) /\ ret'[3] \in Nodes(hm_help_resizing(hmap).ht2)]_vars
  BY <1>2
<1> QED
  BY <1>3, InvHolds, PTL DEF Spec, OnlyDeleteMiscounts
-----------------------------------------------------------------------------
(* The chains of a table share no node, so h_scan lists each node once.    *)
LEMMA ScanIs ==
  ASSUME NEW t, Chained(t), t.size = 0 => Nodes(t) = {}
  PROVE  h_scan(t) \in Seq(Node) /\ IsInjective(h_scan(t)) /\ Range(h_scan(t)) = Nodes(t)
<1>0. t \in HTab
  BY DEF Chained
<1>1. /\ t.tab \in Seq(Seq(Node)) /\ Len(t.tab) = t.cap /\ DOMAIN t.tab = 1..t.cap
  BY <1>0, TabFields
<1>2. CASE t.size = 0
  <2>1. <<>> \in Seq(Node) /\ IsInjective(<<>>) /\ Range(<<>>) = {}
    BY DEF IsInjective, Range
  <2>2. h_scan(t) = <<>>
    BY <1>2 DEF h_scan
  <2> QED
    BY <1>2, <2>1, <2>2
<1>3. CASE t.size # 0
  <2>1. [i \in 1..t.cap |-> t.tab[i]] = t.tab
    <3> PICK s : s = t.tab
      OBVIOUS
    <3>1. s \in Seq(Seq(Node)) /\ Len(s) = t.cap
      BY <1>1
    <3>2. s \in [1..Len(s) -> Seq(Node)]
      BY <3>1
    <3>3. [i \in 1..Len(s) |-> s[i]] = s
      BY <3>2, Zenon
    <3> QED
      BY <3>1, <3>3, Zenon
  <2>2. h_scan(t) = FlattenSeq(t.tab)
    BY <1>3, <2>1 DEF h_scan
  <2>3. Apart(t.tab)
    BY <1>1 DEF Apart, Chained, Placed
  <2>4. /\ IsInjective(FlattenSeq(t.tab))
        /\ \A x : x \in Range(FlattenSeq(t.tab)) <=> \E i \in 1..t.cap : x \in Range(t.tab[i])
    BY <1>1, <2>3, FlattenRange
  <2>5. FlattenSeq(t.tab) \in Seq(Node)
    BY <1>1, FlattenType
  <2>6. \A i \in 1..t.cap : Range(t.tab[i]) \subseteq Node
    BY <1>0, TabFields DEF Range
  <2>7. Range(FlattenSeq(t.tab)) = Nodes(t)
    BY <2>4, <2>6 DEF Nodes
  <2> QED
    BY <2>2, <2>4, <2>5, <2>7
<1> QED
  BY <1>2, <1>3

(* What KEYS lists when ht2 is counted right. *)
LEMMA KeysAre ==
  ASSUME Inv, Counted
  PROVE  LET s == h_scan(hmap.ht1) \o h_scan(hmap.ht2)
         IN /\ s \in Seq(Node) /\ IsInjective(s) /\ Range(s) = AllNodes
            /\ Len(s) = hmap.ht1.size + hmap.ht2.size
<1>1. Sound(hmap) /\ Chained(hmap.ht1) /\ Chained(hmap.ht2)
  BY SoundTabs DEF Inv, AtRest
<1>2. /\ hmap.ht1.size \in Int /\ hmap.ht2.size \in Int
      /\ IsFiniteSet(Nodes(hmap.ht1)) /\ IsFiniteSet(Nodes(hmap.ht2))
      /\ Nodes(hmap.ht1) \cap Nodes(hmap.ht2) = {}
  BY <1>1, MapFields, TabFields DEF Sound, Finite
<1>3. hmap.ht2.size = Cardinality(Nodes(hmap.ht2))
  BY DEF Counted
<1>4. /\ hmap.ht1.size + hmap.ht2.size = Cardinality(All(hmap))
      /\ Cardinality(All(hmap)) = Cardinality(Nodes(hmap.ht1)) + Cardinality(Nodes(hmap.ht2))
      /\ Cardinality(Nodes(hmap.ht1)) \in Nat /\ Cardinality(Nodes(hmap.ht2)) \in Nat
  BY <1>1, SoundTabs DEF Sound, Sizes
<1>5. hmap.ht1.size = Cardinality(Nodes(hmap.ht1))
  BY <1>2, <1>3, <1>4
<1>6. /\ hmap.ht1.size = 0 => Nodes(hmap.ht1) = {}
      /\ hmap.ht2.size = 0 => Nodes(hmap.ht2) = {}
  BY <1>2, <1>3, <1>5, FS_EmptySet
<1> PICK a : a = h_scan(hmap.ht1)
  OBVIOUS
<1> PICK b : b = h_scan(hmap.ht2)
  OBVIOUS
<1> PICK s : s = a \o b
  OBVIOUS
<1>7. /\ a \in Seq(Node) /\ IsInjective(a) /\ Range(a) = Nodes(hmap.ht1)
      /\ b \in Seq(Node) /\ IsInjective(b) /\ Range(b) = Nodes(hmap.ht2)
  BY <1>1, <1>6, ScanIs
<1>8. s \in Seq(Node)
  BY <1>7
<1>9. IsInjective(s) /\ Range(s) = AllNodes
  BY <1>2, <1>7, ConcatRange DEF AllNodes
<1>10. Len(s) = Cardinality(AllNodes)
  BY <1>8, <1>9, InjectiveLength
<1> QED
  BY <1>4, <1>8, <1>9, <1>10 DEF AllNodes, All

(* The header of a KEYS reply is the number of keys that follow it, at     *)
(* every point of a rehash, as long as ht2 is counted right.               *)
THEOREM KeysCounted == Spec => []KeysReplyExact
<1>1. Inv => KeysReplyExact
  BY KeysAre DEF KeysReplyExact, do_keys
<1> QED
  BY <1>1, InvHolds, PTL

(* The listing of the abstract set is always that of its nodes. *)
Listed == IF Counted THEN ToSet(do_keys.nodes) ELSE AllNodes
LEMMA ListedAll == Inv => Listed = AllNodes
<1> SUFFICES ASSUME Inv, Counted
             PROVE  ToSet(do_keys.nodes) = AllNodes
  BY DEF Listed
<1>1. do_keys.nodes = h_scan(hmap.ht1) \o h_scan(hmap.ht2)
  BY DEF do_keys
<1>2. Range(do_keys.nodes) = AllNodes
  BY <1>1, KeysAre
<1> QED
  BY <1>2 DEF ToSet, Range

(* The result of a search is one the abstract set allows. *)
LEMMA FindsIs ==
  ASSUME NEW h, Sound(h), All(h) = AllNodes, NEW k \in Key
  PROVE  Found(h, k) \in Node \cup {None} /\ Set!Finds(k, Found(h, k))
<1> PICK n : n = Found(h, k)
  OBVIOUS
<1>1. /\ n # None => n \in AllNodes /\ KeyOf[n] = k
      /\ n = None => \A m \in AllNodes : KeyOf[m] # k
  BY FoundIs
<1>2. AllNodes \subseteq Node
  BY DEF AllNodes, Nodes
<1>3. n \in Node \cup {None}
  BY <1>1, <1>2
<1>4. Set!Finds(k, n)
  BY <1>1 DEF Set!Finds, Set!With
<1> QED
  BY <1>3, <1>4

LEMMA SetInit == Init => Set!Init
<1> SUFFICES ASSUME Init
             PROVE  Set!Init
  OBVIOUS
<1>1. AllNodes = {}
  BY InitInv
<1>2. Listed = {}
  BY <1>1, InitInv, ListedAll
<1>3. ret = None
  BY DEF Init
<1> QED
  BY <1>1, <1>2, <1>3 DEF Set!Init, Listed

(* Each operation is the abstract set's; a step of the rehash shows in     *)
(* none.                                                                   *)
LEMMA SetStep == Inv /\ Inv' /\ [Next]_vars => [Set!Next]_(Set!vars)
<1> SUFFICES ASSUME Inv, Inv', [Next]_vars
             PROVE  [Set!Next]_(Set!vars)
  OBVIOUS
<1>0. Listed = AllNodes
  BY ListedAll
<1>1. (Listed = AllNodes)'
  BY ListedAll, PTL
<1>2. ASSUME NEW n \in Node, hm_insert(n)
      PROVE  Set!Insert(n)
  <2>1. n \notin AllNodes /\ ret' = <<"insert", KeyOf[n], n>>
    BY <1>2 DEF hm_insert, AllNodes
  <2> QED
    BY <1>2, <2>1, InsertStep DEF Set!Insert
<1>3. ASSUME NEW k \in Key, hm_lookup(k)
      PROVE  Set!Lookup(k)
  <2>1. AllNodes' = AllNodes /\ ret' = <<"lookup", k, Found(hmap', k)>>
    BY <1>3, LookupStep
  <2>2. Sound(hmap') /\ All(hmap') = AllNodes
    BY <2>1 DEF Inv, AtRest, All, AllNodes
  <2> QED
    BY <2>1, <2>2, FindsIs DEF Set!Lookup
<1>4. ASSUME NEW k \in Key, hm_delete(k)
      PROVE  Set!Delete(k)
  <2> PICK h : h = hm_help_resizing(hmap)
    OBVIOUS
  <2>1. /\ Sound(h) /\ All(h) = AllNodes /\ AllNodes' = AllNodes \ {Found(h, k)}
        /\ ret' = <<"delete", k, Found(h, k)>>
    BY <1>4, DeleteStep
  <2> QED
    BY <2>1, FindsIs DEF Set!Delete
<1>5. CASE Next /\ ~Overrun
  <2>1. \/ \E n \in Node : Set!Insert(n)
        \/ \E k \in Key : Set!Lookup(k) \/ Set!Delete(k)
    BY <1>2, <1>3, <1>4, <1>5 DEF Next
  <2> QED
    BY <1>1, <2>1 DEF Set!Next, Listed
<1>6. CASE Overrun \/ UNCHANGED vars
  <2>1. hmap' = hmap /\ ret' = ret
    BY <1>6, OverrunStep DEF vars
  <2>2. AllNodes' = AllNodes
    BY <2>1 DEF AllNodes
  <2> QED
    BY <1>0, <1>1, <2>1, <2>2 DEF Set!vars, Listed
<1> QED
  BY <1>5, <1>6

(* For callers the map is a set of nodes: an insertion adds one, a lookup  *)
(* finds one with the key whenever there is one, a deletion takes out the  *)
(* one it found, and KEYS lists them while ht2 is counted right, however   *)
(* the nodes are spread over the two tables.                               *)
THEOREM HashMapImplementsNodeSet == Spec => ImplementsNodeSet
<1>1. Init => Set!Init
  BY SetInit
<1>2. Inv /\ Inv' /\ [Next]_vars => [Set!Next]_(Set!vars)
  BY SetStep
<1> QED
  BY <1>1, <1>2, InvHolds, PTL DEF Spec, ImplementsNodeSet, Set!Spec
=============================================================================
