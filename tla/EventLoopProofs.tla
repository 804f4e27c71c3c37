-------------------------- MODULE EventLoopProofs --------------------------
(***************************************************************************)
(* The event loop keeps its books, for any number of clients, descriptors  *)
(* and connections.  The inductive invariant adds to the properties what   *)
(* the server's thread knows at each place of its loop (Phases).           *)
(***************************************************************************)
EXTENDS EventLoop, Lemmas, FiniteSetTheorems

-----------------------------------------------------------------------------
(* What the operations of DList.cpp do to a list of any length.            *)
Links(N) == [N -> [prev : N, next : N]]

(* The i-th node round the list, its head being the 0-th and the last. *)
Nth(head, s, i) == IF i \in 1..Len(s) THEN s[i] ELSE head

LEMMA CircularNth ==
  ASSUME NEW l, NEW head, NEW s
  PROVE  Circular(l, head, s) <=>
           \A i \in 0..Len(s) : /\ l[Nth(head, s, i)].next = Nth(head, s, i + 1)
                                /\ l[Nth(head, s, i + 1)].prev = Nth(head, s, i)
BY DEF Circular, Nth

(* No node comes twice in one round. *)
LEMMA NthDistinct ==
  ASSUME NEW N, NEW head \in N, NEW s \in Seq(N), IsInjective(s), head \notin Range(s)
  PROVE  /\ \A i \in 0..Len(s) + 1 : Nth(head, s, i) \in N
         /\ \A i, j \in 0..Len(s) : Nth(head, s, i) = Nth(head, s, j) => i = j
         /\ \A i, j \in 1..Len(s) + 1 : Nth(head, s, i) = Nth(head, s, j) => i = j
<1>1. DOMAIN s = 1..Len(s)
  OBVIOUS
<1>2. \A i \in 1..Len(s) : s[i] # head
  BY <1>1 DEF Range
<1>3. \A i, j \in 1..Len(s) : s[i] = s[j] => i = j
  BY <1>1 DEF IsInjective
<1> QED
  BY <1>2, <1>3 DEF Nth

LEMMA InitCircular ==
  ASSUME NEW N, NEW head \in N, NEW l \in Links(N), NEW a \in N
  PROVE  /\ dList_init(l, a) \in Links(N)
         /\ \A s \in Seq(N) : /\ head # a /\ a \notin Range(s) /\ Circular(l, head, s)
                              => Circular(dList_init(l, a), head, s)
<1> DEFINE m == dList_init(l, a)
<1>1. m \in Links(N) /\ \A n \in N : n # a => m[n] = l[n]
  BY DEF dList_init, Links
<1> HIDE DEF m
<1>2. ASSUME NEW s \in Seq(N), head # a, a \notin Range(s), Circular(l, head, s)
      PROVE  Circular(m, head, s)
  <2>1. \A i \in 0..Len(s) + 1 : Nth(head, s, i) \in N /\ Nth(head, s, i) # a
    <3>1. \A i \in 1..Len(s) : s[i] \in N /\ s[i] # a
      BY <1>2 DEF Range
    <3> QED
      BY <1>2, <3>1 DEF Nth
  <2>2. \A i \in 0..Len(s) + 1 : m[Nth(head, s, i)] = l[Nth(head, s, i)]
    BY <1>1, <2>1
  <2>3. \A i \in 0..Len(s) : i \in 0..Len(s) + 1 /\ i + 1 \in 0..Len(s) + 1
    OBVIOUS
  <2> QED
    BY <1>2, <2>2, <2>3, CircularNth
<1> QED
  BY <1>1, <1>2 DEF m

(* Inserting before the head puts a node at the end. *)
LEMMA InsertCircular ==
  ASSUME NEW N, NEW head \in N, NEW l \in Links(N), NEW a \in N,
         NEW s \in Seq(N), IsInjective(s), head \notin Range(s), Circular(l, head, s),
         a # head, a \notin Range(s)
  PROVE  /\ list_insert_before(l, head, a) \in Links(N)
         /\ Circular(list_insert_before(l, head, a), head, Append(s, a))
<1> DEFINE m == list_insert_before(l, head, a)
           r == Append(s, a)
           n == Len(s)
           last == Nth(head, s, n)
<1>1. n \in Nat /\ r \in Seq(N) /\ Len(r) = n + 1
      /\ (\A i \in 1..n : r[i] = s[i]) /\ r[n + 1] = a
  OBVIOUS
<1>2. l[head].prev = last
  <2>1. n \in 0..n /\ Nth(head, s, n + 1) = head
    BY <1>1 DEF Nth
  <2> QED
    BY <2>1, CircularNth
<1>3. last \in N /\ last # a
  BY <1>1, NthDistinct DEF Nth, Range
<1>4. /\ m \in Links(N)
      /\ \A x \in N : /\ m[x].next = IF x = a THEN head ELSE IF x = last THEN a ELSE l[x].next
                      /\ m[x].prev = IF x = head THEN a ELSE IF x = a THEN last ELSE l[x].prev
  <2> HIDE DEF last
  <2>1. m = [l EXCEPT ![last].next = a, ![a] = [prev |-> last, next |-> head], ![head].prev = a]
    BY <1>2 DEF list_insert_before
  <2> QED
    BY <2>1, <1>3 DEF Links
<1>5. \A i \in 0..n : Nth(head, r, i) = Nth(head, s, i)
  BY <1>1 DEF Nth
<1>6. Nth(head, r, n + 1) = a /\ Nth(head, r, n + 2) = head /\ Nth(head, s, n + 1) = head
      /\ Nth(head, s, 0) = head
  BY <1>1 DEF Nth
<1>7. \A i \in 0..n : Nth(head, s, i) \in N /\ Nth(head, s, i) # a
  BY <1>1, NthDistinct DEF Nth, Range
<1> HIDE DEF m, r
<1>8. ASSUME NEW i \in 0..n - 1
      PROVE  m[Nth(head, r, i)].next = Nth(head, r, i + 1) /\ m[Nth(head, r, i + 1)].prev = Nth(head, r, i)
  <2>1. i \in 0..n /\ i + 1 \in 0..n /\ i # n /\ i + 1 # 0 /\ n \in 0..n /\ 0 \in 0..n
    BY <1>1
  <2>2. Nth(head, s, i) # last /\ Nth(head, s, i + 1) # head
    BY <2>1, <1>6, NthDistinct
  <2>3. l[Nth(head, s, i)].next = Nth(head, s, i + 1) /\ l[Nth(head, s, i + 1)].prev = Nth(head, s, i)
    BY <2>1, CircularNth
  <2> QED
    BY <1>4, <1>5, <1>7, <2>1, <2>2, <2>3
<1>9. m[Nth(head, r, n)].next = a /\ m[a].prev = Nth(head, r, n)
  BY <1>1, <1>3, <1>4, <1>5
<1>10. m[a].next = head /\ m[head].prev = a
  BY <1>4
<1>11. \A i \in 0..n + 1 : i \in 0..n - 1 \/ i = n \/ i = n + 1
  BY <1>1
<1>12. \A i \in 0..Len(r) : /\ m[Nth(head, r, i)].next = Nth(head, r, i + 1)
                            /\ m[Nth(head, r, i + 1)].prev = Nth(head, r, i)
  <2> SUFFICES ASSUME NEW i \in 0..n + 1
               PROVE  /\ m[Nth(head, r, i)].next = Nth(head, r, i + 1)
                      /\ m[Nth(head, r, i + 1)].prev = Nth(head, r, i)
    BY <1>1
  <2>1. CASE i \in 0..n - 1
    BY <2>1, <1>8
  <2>2. CASE i = n
    BY <2>2, <1>6, <1>9
  <2>3. CASE i = n + 1
    <3>1. (n + 1) + 1 = n + 2
      BY <1>1
    <3> QED
      BY <2>3, <3>1, <1>6, <1>10
  <2> QED
    BY <1>11, <2>1, <2>2, <2>3
<1> QED
  BY <1>4, <1>12, CircularNth DEF m, r

(* Detaching a node closes the list over the place it had. *)
LEMMA DetachCircular ==
  ASSUME NEW N, NEW head \in N, NEW l \in Links(N),
         NEW s \in Seq(N), IsInjective(s), head \notin Range(s), Circular(l, head, s),
         NEW k \in 1..Len(s)
  PROVE  /\ dlist_detach(l, s[k]) \in Links(N)
         /\ Circular(dlist_detach(l, s[k]), head, RemoveAt(s, k))
<1>a. /\ RemoveAt(s, k) \in Seq(N) /\ Len(RemoveAt(s, k)) = Len(s) - 1
      /\ \A j \in 1..Len(s) - 1 : RemoveAt(s, k)[j] = IF j < k THEN s[j] ELSE s[j + 1]
  BY RemoveAtType
<1> DEFINE m == dlist_detach(l, s[k])
           r == RemoveAt(s, k)
           n == Len(s)
           at(i) == Nth(head, s, i)
<1>1. /\ n \in Nat /\ r \in Seq(N) /\ Len(r) = n - 1
      /\ \A j \in 1..n - 1 : r[j] = IF j < k THEN s[j] ELSE s[j + 1]
  BY <1>a
<1>2. \A i \in 0..n : l[at(i)].next = at(i + 1) /\ l[at(i + 1)].prev = at(i)
  BY CircularNth
<1>3. /\ \A i \in 0..n + 1 : at(i) \in N
      /\ \A i, j \in 0..n : at(i) = at(j) => i = j
      /\ \A i, j \in 1..n + 1 : at(i) = at(j) => i = j
  BY NthDistinct
<1>4. s[k] = at(k)
  BY DEF Nth
<1>5. \A j \in 0..n : Nth(head, r, j) = IF j < k THEN at(j) ELSE at(j + 1)
  BY <1>1 DEF Nth
<1> HIDE DEF r, at
<1>6. l[s[k]].prev = at(k - 1) /\ l[s[k]].next = at(k + 1)
  <2>1. k - 1 \in 0..n /\ k \in 0..n /\ (k - 1) + 1 = k
    BY <1>1
  <2> QED
    BY <1>2, <1>4, <2>1
<1>7. at(k - 1) \in N /\ at(k + 1) \in N /\ at(k) \in N
  BY <1>1, <1>3
<1>8. /\ m \in Links(N)
      /\ \A x \in N : /\ m[x].next = IF x = at(k - 1) THEN at(k + 1) ELSE l[x].next
                      /\ m[x].prev = IF x = at(k + 1) THEN at(k - 1) ELSE l[x].prev
  <2>1. m = [l EXCEPT ![at(k - 1)].next = at(k + 1), ![at(k + 1)].prev = at(k - 1)]
    BY <1>6 DEF dlist_detach
  <2> QED
    BY <2>1, <1>7 DEF Links
<1> HIDE DEF m
<1>9. ASSUME NEW j \in 0..n - 1
      PROVE  m[Nth(head, r, j)].next = Nth(head, r, j + 1) /\ m[Nth(head, r, j + 1)].prev = Nth(head, r, j)
  <2>1. CASE j + 1 < k
    <3>1. /\ j \in 0..n /\ j + 1 \in 0..n /\ j + 1 \in 1..n + 1 /\ k - 1 \in 0..n /\ k + 1 \in 1..n + 1
          /\ j # k - 1 /\ j + 1 # k + 1 /\ j < k /\ j \in 0..n + 1 /\ j + 1 \in 0..n + 1
      BY <2>1, <1>1
    <3>2. Nth(head, r, j) = at(j) /\ Nth(head, r, j + 1) = at(j + 1)
      BY <2>1, <3>1, <1>5
    <3>3. at(j) # at(k - 1) /\ at(j + 1) # at(k + 1)
      BY <3>1, <1>3
    <3> QED
      BY <1>2, <1>3, <1>8, <3>1, <3>2, <3>3
  <2>2. CASE j + 1 = k
    <3>1. j \in 0..n /\ j + 1 \in 0..n /\ j < k /\ ~(j + 1 < k) /\ j = k - 1 /\ (j + 1) + 1 = k + 1
      BY <2>2, <1>1
    <3>2. Nth(head, r, j) = at(k - 1) /\ Nth(head, r, j + 1) = at(k + 1)
      BY <3>1, <1>5
    <3> QED
      BY <1>7, <1>8, <3>2
  <2>3. CASE k <= j
    <3>1. /\ j \in 0..n /\ j + 1 \in 0..n /\ ~(j < k) /\ ~(j + 1 < k) /\ (j + 1) + 1 = j + 2
          /\ j + 2 \in 1..n + 1 /\ k - 1 \in 0..n /\ k + 1 \in 1..n + 1
          /\ j + 1 # k - 1 /\ j + 2 # k + 1 /\ j + 1 \in 0..n + 1 /\ j + 2 \in 0..n + 1
      BY <2>3, <1>1
    <3>2. Nth(head, r, j) = at(j + 1) /\ Nth(head, r, j + 1) = at(j + 2)
      BY <3>1, <1>5
    <3>3. at(j + 1) # at(k - 1) /\ at(j + 2) # at(k + 1)
      BY <3>1, <1>3
    <3>4. l[at(j + 1)].next = at(j + 2) /\ l[at(j + 2)].prev = at(j + 1)
      BY <3>1, <1>2
    <3> QED
      BY <1>3, <1>8, <3>1, <3>2, <3>3, <3>4
  <2> QED
    BY <2>1, <2>2, <2>3, <1>1
<1>10. Circular(m, head, r)
  BY <1>1, <1>9, CircularNth
<1> QED
  BY <1>8, <1>10 DEF m, r
-----------------------------------------------------------------------------
(* The event loop.                                                         *)
Nodes == Conn \cup {Idle}

Sorted(cn, s) == \A i, j \in 1..Len(s) : i < j => cn[s[i]].age >= cn[s[j]].age

(* s lists the connections of S, as the pointers l go, by their ages cn. *)
Lists(l, cn, s, S) ==
  /\ s \in Seq(Conn) /\ IsInjective(s) /\ Range(s) = S
  /\ Circular(l, Idle, s) /\ Sorted(cn, s)

Ordered == \E s \in Seq(Conn) : Lists(links, conn, s, Live)

Tables ==
  /\ \A f \in Fd : sock[f] = None <=> fd2conn[f] = None
  /\ \A f \in Registered : fd2conn[f] \in Live /\ conn[fd2conn[f]].fd = f
  /\ \A a \in Live : fd2conn[conn[a].fd] = a

InTime == \A a \in Live : wait <= k_idle_timeout - conn[a].age

Polled == \A arg \in poll_args : arg # Listener => sock[arg.fd] = arg.client

Phases ==
  /\ cur # None <=> pc \in {"io", "dead"}
  /\ cur # None => cur \in Live
  /\ pc \in {"poll", "polling", "timers"} => ready = {}
  /\ pc = "polling" => Polled /\ InTime
  /\ pc = "io" => Listener \notin ready /\ \A arg \in ready : arg.fd # conn[cur].fd

Inv == TypeOK /\ Tables /\ Ordered /\ Phases /\ OwnEvents

-----------------------------------------------------------------------------
(* Constants and types. *)
LEMMA ConstantFacts ==
  /\ None \notin Client /\ None \notin Conn /\ None \notin Fd /\ None \notin Record
  /\ Idle \notin Conn /\ k_idle_timeout \in Nat /\ k_idle_timeout # 0
  /\ IsFiniteSet(Conn) /\ Fd \subseteq Nat /\ EmptyWait \in Nat
BY EventLoopAssumption

LEMMA LinksType == TypeOK => links \in Links(Nodes)
BY DEF TypeOK, Links, Nodes

LEMMA LiveConn ==
  ASSUME TypeOK, NEW a \in Live
  PROVE  /\ a \in Conn /\ a # None /\ a # Idle
         /\ conn[a] \in Record
         /\ conn[a].fd \in Fd /\ conn[a].age \in 0..k_idle_timeout
         /\ conn[a].state \in {"REQ", "RES"} /\ conn[a].age \in Nat
BY ConstantFacts DEF TypeOK, Live, Record

LEMMA ArgFacts ==
  ASSUME NEW arg \in Arg, arg # Listener
  PROVE  arg.fd \in Fd /\ arg.client \in Client /\ arg.client # None
BY ConstantFacts DEF Arg, Listener

LEMMA SeqOfNodes ==
  ASSUME NEW s \in Seq(Conn)
  PROVE  s \in Seq(Nodes)
BY DEF Nodes

-----------------------------------------------------------------------------
(* The idle list under the steps of the loop. *)
LEMMA DetachLists ==
  ASSUME NEW l \in Links(Nodes), NEW cn, NEW s \in Seq(Conn), NEW S \in SUBSET Conn,
         Lists(l, cn, s, S), NEW a \in S
  PROVE  /\ dlist_detach(l, a) \in Links(Nodes)
         /\ \E r \in Seq(Conn) : Lists(dlist_detach(l, a), cn, r, S \ {a})
<1>1. s \in Seq(Nodes) /\ Idle \in Nodes /\ Idle \notin Range(s)
  BY SeqOfNodes, ConstantFacts DEF Nodes, Lists
<1>2. PICK k \in 1..Len(s) : s[k] = a
  BY DEF Lists, Range
<1> DEFINE r == RemoveAt(s, k)
<1>3. dlist_detach(l, a) \in Links(Nodes) /\ Circular(dlist_detach(l, a), Idle, r)
  <2>1. /\ dlist_detach(l, s[k]) \in Links(Nodes)
        /\ Circular(dlist_detach(l, s[k]), Idle, RemoveAt(s, k))
    BY <1>1, DetachCircular DEF Lists
  <2> QED
    BY <2>1, <1>2
<1>4. IsInjective(r) /\ Range(r) = S \ {a}
  BY <1>2, RemoveAtRange DEF Lists
<1>5. /\ r \in Seq(Conn) /\ Len(r) = Len(s) - 1
      /\ \A j \in 1..Len(s) - 1 : r[j] = IF j < k THEN s[j] ELSE s[j + 1]
  BY RemoveAtType
<1> HIDE DEF r
<1>6. Sorted(cn, r)
  <2> SUFFICES ASSUME NEW i \in 1..Len(s) - 1, NEW j \in 1..Len(s) - 1, i < j
               PROVE  cn[r[i]].age >= cn[r[j]].age
    BY <1>5 DEF Sorted
  <2> DEFINE to(x) == IF x < k THEN x ELSE x + 1
  <2>1. r[i] = s[to(i)] /\ r[j] = s[to(j)]
    BY <1>5
  <2>2. to(i) \in 1..Len(s) /\ to(j) \in 1..Len(s) /\ to(i) < to(j)
    OBVIOUS
  <2> HIDE DEF to
  <2> QED
    BY <2>1, <2>2 DEF Lists, Sorted
<1> QED
  BY <1>3, <1>4, <1>5, <1>6 DEF Lists

LEMMA InsertLists ==
  ASSUME NEW l \in Links(Nodes), NEW cn, NEW s \in Seq(Conn), NEW S \in SUBSET Conn,
         Lists(l, cn, s, S), NEW a \in Conn \ S,
         cn[a].age = 0, \A b \in S : cn[b].age \in Nat
  PROVE  /\ list_insert_before(l, Idle, a) \in Links(Nodes)
         /\ \E r \in Seq(Conn) : Lists(list_insert_before(l, Idle, a), cn, r, S \cup {a})
<1>1. /\ s \in Seq(Nodes) /\ Idle \in Nodes /\ Idle \notin Range(s)
      /\ a \in Nodes /\ a # Idle /\ a \notin Range(s)
  BY SeqOfNodes, ConstantFacts DEF Nodes, Lists
<1> DEFINE r == Append(s, a)
<1>2. /\ list_insert_before(l, Idle, a) \in Links(Nodes)
      /\ Circular(list_insert_before(l, Idle, a), Idle, r)
  BY <1>1, InsertCircular DEF Lists
<1>3. IsInjective(r) /\ Range(r) = S \cup {a}
  BY <1>1, AppendRange DEF Lists
<1>4. /\ r \in Seq(Conn) /\ Len(r) = Len(s) + 1
      /\ (\A i \in 1..Len(s) : r[i] = s[i] /\ s[i] \in S) /\ r[Len(s) + 1] = a
  <2>1. \A i \in 1..Len(s) : s[i] \in S
    BY DEF Lists, Range
  <2> QED
    BY <2>1
<1> HIDE DEF r
<1>5. Sorted(cn, r)
  <2> SUFFICES ASSUME NEW i \in 1..Len(s) + 1, NEW j \in 1..Len(s) + 1, i < j
               PROVE  cn[r[i]].age >= cn[r[j]].age
    BY <1>4 DEF Sorted
  <2>1. i \in 1..Len(s) /\ (j \in 1..Len(s) \/ j = Len(s) + 1)
    OBVIOUS
  <2>2. CASE j \in 1..Len(s)
    BY <2>1, <2>2, <1>4 DEF Lists, Sorted
  <2>3. CASE j = Len(s) + 1
    BY <2>1, <2>3, <1>4
  <2> QED
    BY <2>1, <2>2, <2>3
<1> QED
  BY <1>2, <1>3, <1>4, <1>5 DEF Lists

LEMMA InitLists ==
  ASSUME NEW l \in Links(Nodes), NEW cn, NEW s \in Seq(Conn), NEW S \in SUBSET Conn,
         Lists(l, cn, s, S), NEW a \in Conn \ S
  PROVE  dList_init(l, a) \in Links(Nodes) /\ Lists(dList_init(l, a), cn, s, S)
<1>1. s \in Seq(Nodes) /\ Idle \in Nodes /\ a \in Nodes /\ a # Idle /\ a \notin Range(s)
  BY SeqOfNodes, ConstantFacts DEF Nodes, Lists
<1> QED
  BY <1>1, InitCircular DEF Lists

(* The order depends only on the ages of the connections listed. *)
LEMMA SameAges ==
  ASSUME NEW l, NEW cn, NEW dn, NEW s \in Seq(Conn), NEW S,
         Lists(l, cn, s, S), \A a \in S : dn[a].age = cn[a].age
  PROVE  Lists(l, dn, s, S)
<1>1. \A i \in 1..Len(s) : s[i] \in S
  BY DEF Lists, Range
<1> QED
  BY <1>1 DEF Lists, Sorted

(* The front of the list is its oldest connection. *)
LEMMA FrontIsOldest ==
  ASSUME TypeOK, NEW s \in Seq(Conn), Lists(links, conn, s, Live)
  PROVE  /\ dList_empty(links, Idle) <=> Live = {}
         /\ Live # {} => /\ Oldest \in Live
                         /\ \A a \in Live : conn[Oldest].age >= conn[a].age
<1>1. Oldest = Nth(Idle, s, 1)
  <2>1. 0 \in 0..Len(s) /\ Nth(Idle, s, 0) = Idle /\ 0 + 1 = 1
    BY DEF Nth
  <2> QED
    BY <2>1, CircularNth DEF Lists, Oldest
<1>2. \A i \in 1..Len(s) : s[i] \in Live
  BY DEF Lists, Range
<1>3. \A a \in Live : \E i \in 1..Len(s) : s[i] = a
  BY DEF Lists, Range
<1>4. CASE s = <<>>
  <2>1. Live = {} /\ Oldest = Idle
    BY <1>1, <1>3, <1>4 DEF Nth
  <2> QED
    BY <2>1 DEF dList_empty, Oldest
<1>5. CASE s # <<>>
  <2>1. 1 \in 1..Len(s)
    BY <1>5
  <2>2. Oldest = s[1] /\ Oldest \in Live /\ Oldest # Idle
    BY <1>1, <1>2, <2>1, LiveConn DEF Nth
  <2>3. ASSUME NEW a \in Live
        PROVE  conn[Oldest].age >= conn[a].age
    <3>1. PICK i \in 1..Len(s) : s[i] = a
      BY <1>3
    <3>2. CASE i = 1
      BY <2>2, <3>1, <3>2, LiveConn
    <3>3. CASE 1 < i
      BY <2>1, <2>2, <3>1, <3>3 DEF Lists, Sorted
    <3> QED
      BY <3>2, <3>3
  <2> QED
    BY <2>2, <2>3 DEF dList_empty, Oldest
<1> QED
  BY <1>4, <1>5

-----------------------------------------------------------------------------
(* Closing a connection. *)
ServerTypes ==
  /\ status \in [Client -> {"off", "backlog", "open", "closed"}]
  /\ sock \in [Fd -> Client \cup {None}]
  /\ conn \in [Conn -> Record \cup {None}]
  /\ fd2conn \in [Fd -> Conn \cup {None}]
  /\ links \in Links(Nodes)

RestTypes ==
  /\ mode \in [Client -> {"quiet", "active", "hung"}]
  /\ pc \in {"poll", "polling", "events", "io", "timers", "dead"}
  /\ wait \in 0..k_idle_timeout \cup 0..EmptyWait
  /\ poll_args \subseteq Arg /\ ready \subseteq Arg
  /\ cur \in Conn \cup {None}

LEMMA TypesInTwo == TypeOK <=> ServerTypes /\ RestTypes
BY DEF TypeOK, ServerTypes, RestTypes, Links, Nodes

LEMMA CloseKeeps ==
  ASSUME TypeOK, Tables, Ordered, NEW a \in Live, Close(a)
  PROVE  /\ ServerTypes' /\ Tables' /\ Ordered'
         /\ Live' = Live \ {a}
         /\ \A b \in Live' : conn'[b] = conn[b] /\ conn[b].fd # conn[a].fd
         /\ \A f \in Fd : f # conn[a].fd => sock'[f] = sock[f]
<1> DEFINE f == conn[a].fd
<1>1. /\ a \in Conn /\ a # None /\ a # Idle /\ f \in Fd
      /\ conn[a].age \in Nat
  BY LiveConn
<1>2. /\ status' = [status EXCEPT ![sock[f]] = "closed"]
      /\ sock' = [sock EXCEPT ![f] = None]
      /\ fd2conn' = [fd2conn EXCEPT ![f] = None]
      /\ conn' = [conn EXCEPT ![a] = None]
      /\ links' = dList_init(dlist_detach(links, a), a)
  BY DEF Close
<1>3. fd2conn[f] = a
  BY DEF Tables
<1> HIDE DEF f
<1>4. /\ status \in [Client -> {"off", "backlog", "open", "closed"}]
      /\ sock \in [Fd -> Client \cup {None}]
      /\ conn \in [Conn -> Record \cup {None}]
      /\ fd2conn \in [Fd -> Conn \cup {None}]
      /\ links \in Links(Nodes)
  BY TypesInTwo DEF ServerTypes
<1>5. Live' = Live \ {a} /\ \A b \in Live' : conn'[b] = conn[b]
  BY <1>1, <1>2, <1>4 DEF Live
<1>6. \A b \in Live' : conn[b].fd # f
  BY <1>3, <1>5 DEF Tables
<1>7. \A g \in Fd : g # f => sock'[g] = sock[g] /\ fd2conn'[g] = fd2conn[g]
  BY <1>2, <1>4
<1>8. sock'[f] = None /\ fd2conn'[f] = None
  BY <1>1, <1>2, <1>4
<1>9. Tables'
  <2>1. \A g \in Fd : sock'[g] = None <=> fd2conn'[g] = None
    BY <1>7, <1>8 DEF Tables
  <2>2. ASSUME NEW g \in Fd, fd2conn'[g] # None
        PROVE  fd2conn'[g] \in Live' /\ conn'[fd2conn'[g]].fd = g
    <3>1. g # f /\ fd2conn'[g] = fd2conn[g] /\ fd2conn[g] # None
      BY <2>2, <1>7, <1>8
    <3>2. fd2conn[g] \in Live /\ conn[fd2conn[g]].fd = g
      BY <3>1 DEF Tables, Registered
    <3>3. fd2conn[g] # a
      BY <3>1, <3>2 DEF f
    <3> QED
      BY <3>1, <3>2, <3>3, <1>5
  <2>3. ASSUME NEW b \in Live'
        PROVE  fd2conn'[conn'[b].fd] = b
    <3>1. b \in Live /\ conn'[b] = conn[b] /\ conn[b].fd # f
      BY <1>5, <1>6
    <3>2. conn[b].fd \in Fd /\ fd2conn[conn[b].fd] = b
      BY <3>1, LiveConn DEF Tables
    <3> QED
      BY <3>1, <3>2, <1>7
  <2> QED
    BY <2>1, <2>2, <2>3 DEF Tables, Registered
<1>10. Ordered' /\ links' \in Links(Nodes)
  <2>1. PICK s \in Seq(Conn) : Lists(links, conn, s, Live)
    BY DEF Ordered
  <2> DEFINE l == dlist_detach(links, a)
  <2>2. Live \in SUBSET Conn /\ Live \ {a} \in SUBSET Conn /\ a \in Conn \ (Live \ {a})
    BY <1>1 DEF Live
  <2>3. l \in Links(Nodes) /\ \E r \in Seq(Conn) : Lists(l, conn, r, Live \ {a})
    BY <1>4, <2>1, <2>2, DetachLists
  <2>4. PICK r \in Seq(Conn) : Lists(l, conn, r, Live \ {a})
    BY <2>3
  <2> HIDE DEF l
  <2>5. dList_init(l, a) \in Links(Nodes) /\ Lists(dList_init(l, a), conn, r, Live \ {a})
    BY <2>2, <2>3, <2>4, InitLists
  <2>6. Lists(dList_init(l, a), conn', r, Live \ {a})
    <3>1. \A b \in Live \ {a} : conn'[b].age = conn[b].age
      BY <1>5
    <3> QED
      BY <2>5, <3>1, SameAges
  <2>7. links' = dList_init(l, a)
    BY <1>2 DEF l
  <2> QED
    BY <2>5, <2>6, <2>7, <1>5 DEF Ordered
<1>11. ServerTypes'
  BY <1>1, <1>2, <1>4, <1>10 DEF ServerTypes
<1> QED
  BY <1>5, <1>6, <1>7, <1>9, <1>10, <1>11 DEF f

-----------------------------------------------------------------------------
(* The inductive invariant, action by action. *)
LEMMA InvInit == Init => Inv
<1> SUFFICES ASSUME Init PROVE Inv
  OBVIOUS
<1>1. Live = {} /\ cur = None /\ ready = {}
  BY DEF Init, Live
<1>2. TypeOK
  BY ConstantFacts DEF Init, TypeOK
<1>3. Tables
  BY <1>1 DEF Init, Tables, Registered
<1>4. Ordered
  <2>1. <<>> \in Seq(Conn) /\ Lists(links, conn, <<>>, {})
    BY DEF Init, Lists, Sorted, Circular, IsInjective, Range
  <2> QED
    BY <2>1, <1>1 DEF Ordered
<1>5. Phases /\ OwnEvents
  BY <1>1 DEF Init, Phases, OwnEvents
<1> QED
  BY <1>2, <1>3, <1>4, <1>5 DEF Inv

(* Tables, the list and the types see only these variables. *)
LEMMA BooksUnchanged ==
  ASSUME UNCHANGED <<sock, conn, fd2conn, links>>
  PROVE  /\ Tables' = Tables /\ Ordered' = Ordered /\ Live' = Live
         /\ InTime' = (\A a \in Live : wait' <= k_idle_timeout - conn[a].age)
BY DEF Tables, Ordered, Lists, Live, Registered, InTime, Sorted, Circular

LEMMA PollKeeps ==
  ASSUME Inv, Poll
  PROVE  Inv'
<1>1. /\ UNCHANGED <<status, mode, sock, conn, fd2conn, links, cur, ready>>
      /\ pc = "poll" /\ pc' = "polling" /\ poll_args' = PollArgs /\ wait' = next_timer_ms
  BY DEF Poll, clients, server
<1>2. Tables' /\ Ordered' /\ Live' = Live
  BY <1>1, BooksUnchanged DEF Inv
<1>3. PICK s \in Seq(Conn) : Lists(links, conn, s, Live)
  BY DEF Inv, Ordered
<1>4. /\ wait' \in 0..k_idle_timeout \cup 0..EmptyWait
      /\ \A a \in Live : wait' <= k_idle_timeout - conn[a].age
  <2>1. CASE Live = {}
    <3>1. wait' = EmptyWait
      BY <1>1, <1>3, <2>1, FrontIsOldest DEF Inv, next_timer_ms
    <3> QED
      BY <2>1, <3>1, ConstantFacts
  <2>2. CASE Live # {}
    <3>1. /\ wait' = k_idle_timeout - conn[Oldest].age /\ Oldest \in Live
          /\ \A a \in Live : conn[Oldest].age >= conn[a].age
      BY <1>1, <1>3, <2>2, FrontIsOldest DEF Inv, next_timer_ms
    <3>2. \A a \in Live : conn[a].age \in 0..k_idle_timeout
      BY LiveConn DEF Inv
    <3> QED
      BY <3>1, <3>2, ConstantFacts
  <2> QED
    BY <2>1, <2>2
<1>5. poll_args' \subseteq Arg /\ \A arg \in poll_args' : arg # Listener => sock[arg.fd] = arg.client
  <2>1. \A f \in Registered : f \in Fd /\ sock[f] \in Client
    BY DEF Inv, TypeOK, Tables, Registered
  <2> QED
    BY <1>1, <2>1 DEF PollArgs, ClientArgs, Arg
<1>6. TypeOK'
  BY <1>1, <1>4, <1>5 DEF Inv, TypeOK
<1>7. Phases'
  <2>1. Polled'
    BY <1>1, <1>5 DEF Polled, Listener
  <2>2. InTime'
    BY <1>1, <1>4, BooksUnchanged
  <2> QED
    BY <1>1, <1>2, <2>1, <2>2 DEF Inv, Phases
<1>8. OwnEvents'
  BY <1>1 DEF Inv, OwnEvents, Listener
<1> QED
  BY <1>2, <1>6, <1>7, <1>8 DEF Inv

LEMMA PollReturnsKeeps ==
  ASSUME Inv, PollReturns
  PROVE  Inv'
<1>1. /\ UNCHANGED <<status, mode, sock, conn, fd2conn, links, cur, wait, poll_args>>
      /\ pc = "polling" /\ pc' = "events" /\ ready' = {arg \in poll_args : HasEvent(arg)}
  BY DEF PollReturns, clients, server
<1>2. Tables' /\ Ordered' /\ Live' = Live
  BY <1>1, BooksUnchanged DEF Inv
<1>3. TypeOK'
  BY <1>1 DEF Inv, TypeOK
<1>4. OwnEvents'
  <2>1. ready' \subseteq poll_args /\ Polled
    BY <1>1 DEF Inv, Phases
  <2> QED
    BY <1>1, <2>1 DEF OwnEvents, Polled, Listener
<1>5. Phases'
  BY <1>1, <1>2 DEF Inv, Phases
<1> QED
  BY <1>2, <1>3, <1>4, <1>5 DEF Inv

LEMMA AcceptFailsKeeps ==
  ASSUME Inv, AcceptFails
  PROVE  Inv'
<1>1. /\ UNCHANGED <<mode, sock, conn, fd2conn, links, cur, pc, wait, poll_args>>
      /\ pc = "events" /\ ready' = ready \ {Listener}
  BY DEF AcceptFails, Accepting, server
<1>2. status' \in [Client -> {"off", "backlog", "open", "closed"}]
  BY DEF AcceptFails, Inv, TypeOK
<1>3. Tables' /\ Ordered' /\ Live' = Live
  BY <1>1, BooksUnchanged DEF Inv
<1>4. TypeOK'
  BY <1>1, <1>2 DEF Inv, TypeOK
<1>5. OwnEvents'
  BY <1>1 DEF Inv, OwnEvents, Listener
<1>6. Phases'
  BY <1>1, <1>3 DEF Inv, Phases
<1> QED
  BY <1>3, <1>4, <1>5, <1>6 DEF Inv

LEMMA AcceptKeeps ==
  ASSUME Inv, Accept
  PROVE  Inv'
<1>1. /\ UNCHANGED <<mode, cur, pc, wait, poll_args>>
      /\ pc = "events" /\ ready' = ready \ {Listener}
  BY DEF Accept, Accepting
<1>2. PICK c \in Client, a \in Conn, f \in Fd :
        /\ conn[a] = None /\ sock[f] = None
        /\ status' = [status EXCEPT ![c] = "open"]
        /\ sock' = [sock EXCEPT ![f] = c]
        /\ conn' = [conn EXCEPT ![a] = [fd |-> f, state |-> "REQ", age |-> 0]]
        /\ links' = list_insert_before(dList_init(links, a), Idle, a)
        /\ fd2conn' = [fd2conn EXCEPT ![f] = a]
  BY DEF Accept, Backlog, FreeMem, FreeFds, conn_put
<1>3. TypeOK /\ Tables /\ Ordered
  BY DEF Inv
<1>4. /\ sock \in [Fd -> Client \cup {None}] /\ fd2conn \in [Fd -> Conn \cup {None}]
      /\ conn \in [Conn -> Record \cup {None}]
      /\ links \in Links(Nodes) /\ c # None /\ a # None
  BY <1>3, ConstantFacts, LinksType DEF TypeOK
<1>5. fd2conn[f] = None /\ a \notin Live
  BY <1>2, <1>3 DEF Tables, Live
<1>6. /\ conn'[a] = [fd |-> f, state |-> "REQ", age |-> 0]
      /\ \A b \in Conn : b # a => conn'[b] = conn[b]
  BY <1>2, <1>4
<1>7. Live' = Live \cup {a}
  <2>1. conn'[a] # None
    <3>1. conn'[a] \in Record
      BY <1>6, ConstantFacts DEF Record
    <3> QED
      BY <3>1, ConstantFacts
  <2> QED
    BY <2>1, <1>6 DEF Live
<1>8. \A b \in Live : conn'[b] = conn[b] /\ conn[b].fd \in Fd /\ conn[b].fd # f
  <2>1. \A b \in Live : conn[b].fd \in Fd /\ fd2conn[conn[b].fd] = b /\ b # None
    BY <1>3, LiveConn DEF Tables
  <2> QED
    BY <2>1, <1>5, <1>6 DEF Live
<1>9. /\ sock'[f] = c /\ fd2conn'[f] = a
      /\ \A g \in Fd : g # f => sock'[g] = sock[g] /\ fd2conn'[g] = fd2conn[g]
  BY <1>2, <1>4
<1>10. Tables'
  <2>1. \A g \in Fd : sock'[g] = None <=> fd2conn'[g] = None
    BY <1>3, <1>4, <1>9 DEF Tables
  <2>2. ASSUME NEW g \in Fd, fd2conn'[g] # None
        PROVE  fd2conn'[g] \in Live' /\ conn'[fd2conn'[g]].fd = g
    <3>1. CASE g = f
      BY <3>1, <1>6, <1>7, <1>9
    <3>2. CASE g # f
      BY <2>2, <3>2, <1>3, <1>7, <1>8, <1>9 DEF Tables, Registered
    <3> QED
      BY <3>1, <3>2
  <2>3. ASSUME NEW b \in Live'
        PROVE  fd2conn'[conn'[b].fd] = b
    <3>1. CASE b = a
      BY <3>1, <1>6, <1>9
    <3>2. CASE b \in Live
      BY <3>2, <1>3, <1>8, <1>9 DEF Tables
    <3> QED
      BY <3>1, <3>2, <1>7
  <2> QED
    BY <2>1, <2>2, <2>3 DEF Tables, Registered
<1>11. links' \in Links(Nodes) /\ Ordered'
  <2>1. PICK s \in Seq(Conn) : Lists(links, conn, s, Live)
    BY <1>3 DEF Ordered
  <2>2. Live \in SUBSET Conn /\ a \in Conn \ Live
    BY <1>5 DEF Live
  <2> DEFINE l == dList_init(links, a)
  <2>3. l \in Links(Nodes) /\ Lists(l, conn, s, Live)
    BY <1>4, <2>1, <2>2, InitLists
  <2> HIDE DEF l
  <2>4. Lists(l, conn', s, Live)
    BY <2>3, <1>8, SameAges
  <2>5. conn'[a].age = 0 /\ \A b \in Live : conn'[b].age \in Nat
    BY <1>3, <1>6, <1>8, LiveConn
  <2>6. /\ list_insert_before(l, Idle, a) \in Links(Nodes)
        /\ \E r \in Seq(Conn) : Lists(list_insert_before(l, Idle, a), conn', r, Live \cup {a})
    BY <2>2, <2>3, <2>4, <2>5, InsertLists
  <2>7. links' = list_insert_before(l, Idle, a)
    BY <1>2 DEF l
  <2> QED
    BY <2>6, <2>7, <1>7 DEF Ordered
<1>12. TypeOK'
  <2>1. ServerTypes'
    <3>1. conn'[a] \in Record
      BY <1>6, ConstantFacts DEF Record
    <3>2. conn' \in [Conn -> Record \cup {None}]
      BY <3>1, <1>2, <1>4, <1>6
    <3> QED
      BY <3>2, <1>2, <1>3, <1>4, <1>11 DEF ServerTypes, TypeOK
  <2>2. RestTypes'
    BY <1>1, <1>3 DEF TypeOK, RestTypes
  <2> QED
    BY <2>1, <2>2, TypesInTwo DEF TypeOK, ServerTypes, RestTypes, Links, Nodes
<1>13. OwnEvents'
  <2> SUFFICES ASSUME NEW arg \in ready, arg # Listener
               PROVE  sock'[arg.fd] = arg.client
    BY <1>1 DEF OwnEvents, Listener
  <2>1. arg.fd \in Fd /\ arg.client # None /\ sock[arg.fd] = arg.client
    BY <1>3, ArgFacts DEF Inv, OwnEvents, TypeOK
  <2> QED
    BY <2>1, <1>2, <1>9
<1>14. Phases'
  BY <1>1, <1>7 DEF Inv, Phases
<1> QED
  BY <1>10, <1>11, <1>12, <1>13, <1>14 DEF Inv

LEMMA StartIOKeeps ==
  ASSUME Inv, StartIO
  PROVE  Inv'
<1>1. PICK arg \in ready : Serving(arg) /\ cur' = fd2conn[arg.fd] /\ ready' = ready \ {arg}
  BY DEF StartIO
<1>2. /\ UNCHANGED <<status, mode, sock, fd2conn, wait, poll_args>> /\ pc' = "io"
      /\ conn' = [conn EXCEPT ![cur'].age = 0]
      /\ links' = list_insert_before(dlist_detach(links, cur'), Idle, cur')
  BY DEF StartIO, clients, Refreshed
<1>3. TypeOK /\ Tables /\ Ordered /\ OwnEvents
  BY DEF Inv
<1>4. /\ pc = "events" /\ Listener \notin ready /\ ready \subseteq Arg
  BY <1>1, <1>3 DEF Serving, TypeOK
<1>5. arg.fd \in Fd /\ arg.client # None /\ sock[arg.fd] = arg.client
  BY <1>1, <1>3, <1>4, ArgFacts DEF OwnEvents
<1>6. cur' \in Live /\ conn[cur'].fd = arg.fd
  BY <1>1, <1>3, <1>5 DEF Tables, Registered
<1>7. /\ cur' \in Conn /\ cur' # None
      /\ conn[cur'] \in Record
  BY <1>3, <1>6, LiveConn
<1>8. /\ conn' \in [Conn -> Record \cup {None}]
      /\ conn'[cur'] \in Record
      /\ conn'[cur'].age = 0 /\ conn'[cur'].fd = conn[cur'].fd
      /\ \A b \in Conn : b # cur' => conn'[b] = conn[b]
  <2>1. conn'[cur'] = [conn[cur'] EXCEPT !.age = 0]
    BY <1>2, <1>3, <1>7 DEF TypeOK
  <2>2. conn'[cur'] \in Record
        /\ conn'[cur'].age = 0 /\ conn'[cur'].fd = conn[cur'].fd
    BY <2>1, <1>7, ConstantFacts DEF Record
  <2>3. DOMAIN conn' = Conn /\ \A b \in Conn : b # cur' => conn'[b] = conn[b]
    BY <1>2, <1>3 DEF TypeOK
  <2>4. conn' = [b \in Conn |-> conn'[b]]
    BY <1>2, <1>3 DEF TypeOK
  <2> QED
    BY <2>2, <2>3, <2>4, <1>3 DEF TypeOK
<1>9. Live' = Live
  <2>1. conn'[cur'] # None
    BY <1>8, ConstantFacts
  <2> QED
    BY <2>1, <1>6, <1>8 DEF Live
<1>10. \A b \in Live : conn'[b].fd = conn[b].fd
  BY <1>8 DEF Live
<1>11. Tables'
  BY <1>2, <1>3, <1>9, <1>10 DEF Tables, Registered
<1>12. links' \in Links(Nodes) /\ Ordered'
  <2>1. PICK s \in Seq(Conn) : Lists(links, conn, s, Live)
    BY <1>3 DEF Ordered
  <2> DEFINE l == dlist_detach(links, cur')
             S == Live \ {cur'}
  <2>2. Live \in SUBSET Conn /\ S \in SUBSET Conn /\ cur' \in Conn \ S /\ S \cup {cur'} = Live
    BY <1>6, <1>7 DEF Live
  <2>3. l \in Links(Nodes) /\ \E r \in Seq(Conn) : Lists(l, conn, r, S)
    BY <1>3, <1>6, <2>1, <2>2, LinksType, DetachLists
  <2>4. PICK r \in Seq(Conn) : Lists(l, conn, r, S)
    BY <2>3
  <2>5. \A b \in S : conn'[b] = conn[b] /\ conn[b].age \in Nat
    BY <1>3, <1>8, LiveConn, <2>2
  <2> HIDE DEF l, S
  <2>6. Lists(l, conn', r, S)
    BY <2>4, <2>5, SameAges
  <2>7. /\ list_insert_before(l, Idle, cur') \in Links(Nodes)
        /\ \E t \in Seq(Conn) : Lists(list_insert_before(l, Idle, cur'), conn', t, S \cup {cur'})
    BY <2>2, <2>3, <2>5, <2>6, <1>8, InsertLists
  <2>8. links' = list_insert_before(l, Idle, cur')
    BY <1>2 DEF l
  <2> QED
    BY <2>2, <2>7, <2>8, <1>9 DEF Ordered
<1>13. TypeOK'
  <2>1. ServerTypes'
    BY <1>2, <1>3, <1>8, <1>12 DEF ServerTypes, TypeOK
  <2>2. RestTypes'
    BY <1>1, <1>2, <1>3, <1>7 DEF TypeOK, RestTypes
  <2> QED
    BY <2>1, <2>2 DEF TypeOK, ServerTypes, RestTypes, Links, Nodes
<1>14. OwnEvents'
  BY <1>1, <1>2, <1>3 DEF OwnEvents, Listener
<1>15. Phases'
  <2>1. Listener \notin ready'
    BY <1>1, <1>4
  <2>2. ASSUME NEW other \in ready' PROVE other.fd # conn'[cur'].fd
    <3>1. other \in ready /\ other # arg /\ other # Listener
      BY <1>1, <1>4, <2>2
    <3>2. sock[other.fd] = other.client
      BY <1>3, <3>1 DEF OwnEvents
    <3>3. other.fd # arg.fd
      <4>1. arg \in [fd : Fd, client : Client] /\ other \in [fd : Fd, client : Client]
        BY <1>1, <1>4, <3>1 DEF Arg
      <4> QED
        BY <4>1, <1>5, <3>1, <3>2
    <3> QED
      BY <3>3, <1>6, <1>8
  <2> QED
    BY <1>2, <1>6, <1>7, <1>9, <2>1, <2>2 DEF Phases
<1> QED
  BY <1>11, <1>12, <1>13, <1>14, <1>15 DEF Inv

LEMMA EndIOKeeps ==
  ASSUME Inv, EndIO
  PROVE  Inv'
<1>1. /\ pc = "io" /\ cur' = None /\ pc' = "events" /\ UNCHANGED <<wait, poll_args, ready>>
      /\ mode' = Quieted(sock[conn[cur].fd])
  BY DEF EndIO
<1>2. TypeOK /\ Tables /\ Ordered /\ OwnEvents /\ cur \in Live
  BY <1>1 DEF Inv, Phases
<1>3. /\ Listener \notin ready /\ ready \subseteq Arg
      /\ \A arg \in ready : arg.fd # conn[cur].fd
  BY <1>1, <1>2 DEF Inv, Phases, TypeOK
<1>4. RestTypes'
  <2>1. mode' \in [Client -> {"quiet", "active", "hung"}]
    BY <1>1, <1>2 DEF TypeOK, Quieted
  <2> QED
    BY <1>1, <1>2, <2>1 DEF TypeOK, RestTypes
<1>5. PICK s \in {"REQ", "RES", "END"} :
        IF s = "END" THEN Close(cur)
        ELSE conn' = [conn EXCEPT ![cur].state = s] /\ UNCHANGED <<status, sock, fd2conn, links>>
  <2>1. Outcomes(cur) \subseteq {"REQ", "RES", "END"}
    BY DEF Outcomes
  <2> QED
    BY <2>1 DEF EndIO
<1>6. /\ ServerTypes' /\ Tables' /\ Ordered'
      /\ \A f \in Fd : f # conn[cur].fd => sock'[f] = sock[f]
  <2>1. CASE Close(cur)
    BY <1>2, <2>1, CloseKeeps
  <2>2. CASE /\ s # "END" /\ conn' = [conn EXCEPT ![cur].state = s]
             /\ UNCHANGED <<status, sock, fd2conn, links>>
    <3>1. conn[cur] \in Record /\ cur \in Conn /\ conn \in [Conn -> Record \cup {None}]
      BY <1>2, LiveConn DEF Record, TypeOK
    <3>2. conn'[cur] = [conn[cur] EXCEPT !.state = s]
      BY <2>2, <3>1
    <3>3. /\ conn'[cur] \in Record
          /\ conn'[cur].fd = conn[cur].fd /\ conn'[cur].age = conn[cur].age
      BY <2>2, <3>1, <3>2 DEF Record
    <3>4. conn' \in [Conn -> Record \cup {None}] /\ \A b \in Conn : b # cur => conn'[b] = conn[b]
      <4>1. DOMAIN conn' = Conn /\ conn' = [b \in Conn |-> conn'[b]]
        BY <2>2, <3>1
      <4>2. \A b \in Conn : b # cur => conn'[b] = conn[b]
        BY <2>2, <3>1
      <4> QED
        BY <4>1, <4>2, <3>1, <3>3
    <3>5. Live' = Live
      BY <1>2, <3>1, <3>3, <3>4, ConstantFacts DEF Live
    <3>6. \A b \in Live : conn'[b].fd = conn[b].fd /\ conn'[b].age = conn[b].age
      BY <3>3, <3>4 DEF Live
    <3>7. Tables'
      BY <1>2, <2>2, <3>5, <3>6 DEF Tables, Registered
    <3>8. Ordered'
      <4>1. PICK t \in Seq(Conn) : Lists(links, conn, t, Live)
        BY <1>2 DEF Ordered
      <4>2. Lists(links, conn', t, Live)
        BY <4>1, <3>6, SameAges
      <4> QED
        BY <2>2, <4>2, <3>5 DEF Ordered
    <3> QED
      BY <1>2, <2>2, <3>4, <3>7, <3>8, LinksType DEF ServerTypes, TypeOK
  <2> QED
    BY <1>5, <2>1, <2>2
<1>7. TypeOK'
  BY <1>4, <1>6 DEF TypeOK, ServerTypes, RestTypes, Links, Nodes
<1>8. OwnEvents'
  <2> SUFFICES ASSUME NEW arg \in ready
               PROVE  sock'[arg.fd] = arg.client
    BY <1>1 DEF OwnEvents
  <2>1. arg # Listener /\ arg.fd \in Fd /\ arg.fd # conn[cur].fd /\ sock[arg.fd] = arg.client
    BY <1>2, <1>3, ArgFacts DEF OwnEvents
  <2> QED
    BY <2>1, <1>6
<1>9. Phases'
  BY <1>1 DEF Phases
<1> QED
  BY <1>6, <1>7, <1>8, <1>9 DEF Inv

LEMMA EndEventsKeeps ==
  ASSUME Inv, EndEvents
  PROVE  Inv'
<1>1. /\ UNCHANGED <<status, mode, sock, conn, fd2conn, links, cur, wait, poll_args, ready>>
      /\ pc = "events" /\ ready = {} /\ pc' = "timers"
  BY DEF EndEvents, clients, server
<1>2. Tables' /\ Ordered' /\ Live' = Live
  BY <1>1, BooksUnchanged DEF Inv
<1>3. TypeOK'
  BY <1>1 DEF Inv, TypeOK
<1>4. Phases' /\ OwnEvents'
  BY <1>1, <1>2 DEF Inv, Phases, OwnEvents
<1> QED
  BY <1>2, <1>3, <1>4 DEF Inv

LEMMA ProcessTimersKeeps ==
  ASSUME Inv, process_timers
  PROVE  Inv'
<1>1. UNCHANGED <<mode, cur, wait, poll_args, ready>> /\ pc = "timers"
  BY DEF process_timers
<1>2. TypeOK /\ Tables /\ Ordered /\ ready = {} /\ cur = None
  BY <1>1 DEF Inv, Phases
<1>3. ServerTypes' /\ Tables' /\ Ordered' /\ pc' \in {"timers", "poll"}
  <2>1. CASE ~dList_empty(links, Idle) /\ Due(Oldest)
    <3>1. Oldest \in Live
      BY <1>2, <2>1, FrontIsOldest DEF Ordered
    <3>2. Close(Oldest) /\ pc' = pc
      BY <2>1 DEF process_timers
    <3> QED
      BY <1>1, <1>2, <3>1, <3>2, CloseKeeps
  <2>2. CASE ~(~dList_empty(links, Idle) /\ Due(Oldest))
    <3>1. pc' = "poll" /\ UNCHANGED <<status, sock, conn, fd2conn, links>>
      BY <2>2 DEF process_timers
    <3> QED
      BY <1>2, <3>1, BooksUnchanged, LinksType DEF TypeOK, ServerTypes
  <2> QED
    BY <2>1, <2>2
<1>4. TypeOK'
  <2>1. RestTypes'
    BY <1>1, <1>2, <1>3 DEF TypeOK, RestTypes
  <2> QED
    BY <2>1, <1>3 DEF TypeOK, ServerTypes, RestTypes, Links, Nodes
<1>5. Phases' /\ OwnEvents'
  BY <1>1, <1>2, <1>3 DEF Phases, OwnEvents
<1> QED
  BY <1>3, <1>4, <1>5 DEF Inv

LEMMA TickKeeps ==
  ASSUME Inv, Tick
  PROVE  Inv'
<1>1. /\ UNCHANGED <<status, mode, sock, fd2conn, links, cur, pc, poll_args, ready>>
      /\ wait' = IF wait = 0 THEN 0 ELSE wait - 1
      /\ conn' = [a \in Conn |->
                    IF conn[a] = None THEN None
                    ELSE [conn[a] EXCEPT !.age = IF @ = k_idle_timeout THEN @ ELSE @ + 1]]
  BY DEF Tick, clients
<1>2. TypeOK /\ Tables /\ Ordered /\ OwnEvents /\ Phases
  BY DEF Inv
<1> DEFINE older(n) == IF n = k_idle_timeout THEN n ELSE n + 1
<1>3. ASSUME NEW a \in Live
      PROVE  /\ conn'[a] \in Record /\ conn'[a].fd = conn[a].fd
             /\ conn'[a].age = older(conn[a].age)
  <2>1. conn[a] \in Record /\ a \in Conn /\ conn[a] # None /\ conn[a].age \in 0..k_idle_timeout
    BY <1>2, LiveConn DEF Record, Live
  <2>2. conn'[a] = [conn[a] EXCEPT !.age = older(conn[a].age)]
    BY <1>1, <2>1
  <2>3. older(conn[a].age) \in 0..k_idle_timeout
    BY <2>1, ConstantFacts
  <2> HIDE DEF older
  <2> QED
    BY <2>1, <2>2, <2>3 DEF Record
<1>4. \A a \in Conn \ Live : conn[a] = None /\ conn'[a] = None
  BY <1>1 DEF Live
<1>5. Live' = Live
  BY <1>3, <1>4, ConstantFacts DEF Live
<1>6. conn' \in [Conn -> Record \cup {None}]
  <2>1. conn' = [a \in Conn |-> conn'[a]]
    BY <1>1
  <2> QED
    BY <2>1, <1>3, <1>4
<1>7. TypeOK'
  <2>1. wait' \in 0..k_idle_timeout \cup 0..EmptyWait
    <3>1. wait \in 0..k_idle_timeout \/ wait \in 0..EmptyWait
      BY <1>2 DEF TypeOK
    <3>2. wait' = IF wait = 0 THEN 0 ELSE wait - 1
      BY <1>1
    <3> QED
      BY <3>1, <3>2, ConstantFacts
  <2> QED
    BY <1>1, <1>2, <1>6, <2>1 DEF TypeOK
<1>8. Tables'
  BY <1>1, <1>2, <1>3, <1>5 DEF Tables, Registered
<1>9. Ordered'
  <2>1. PICK s \in Seq(Conn) : Lists(links, conn, s, Live)
    BY <1>2 DEF Ordered
  <2>2. \A i \in 1..Len(s) : s[i] \in Live
    BY <2>1 DEF Lists, Range
  <2>3. Sorted(conn', s)
    <3> SUFFICES ASSUME NEW i \in 1..Len(s), NEW j \in 1..Len(s), i < j
                 PROVE  conn'[s[i]].age >= conn'[s[j]].age
      BY DEF Sorted
    <3>1. conn[s[i]].age >= conn[s[j]].age
      BY <2>1 DEF Lists, Sorted
    <3>2. conn[s[i]].age \in 0..k_idle_timeout /\ conn[s[j]].age \in 0..k_idle_timeout
      BY <1>2, <2>2, LiveConn
    <3>3. conn'[s[i]].age = older(conn[s[i]].age) /\ conn'[s[j]].age = older(conn[s[j]].age)
      BY <1>3, <2>2
    <3> QED
      BY <3>1, <3>2, <3>3, ConstantFacts
  <2> QED
    BY <1>1, <1>5, <2>1, <2>3 DEF Ordered, Lists
<1>10. Phases'
  <2>1. ASSUME InTime
        PROVE  InTime'
    <3> SUFFICES ASSUME NEW a \in Live
                 PROVE  wait' <= k_idle_timeout - conn'[a].age
      BY <1>5 DEF InTime
    <3>1. wait <= k_idle_timeout - conn[a].age /\ conn[a].age \in 0..k_idle_timeout
      BY <1>2, <2>1, LiveConn DEF InTime
    <3>2. conn'[a].age = older(conn[a].age) /\ wait \in Nat
      BY <1>2, <1>3, ConstantFacts DEF TypeOK
    <3> QED
      BY <1>1, <3>1, <3>2, ConstantFacts
  <2>2. ASSUME pc = "io"
        PROVE  conn'[cur].fd = conn[cur].fd
    BY <1>2, <1>3, <2>2 DEF Phases
  <2> QED
    BY <1>1, <1>2, <1>5, <2>1, <2>2 DEF Phases, Polled
<1>11. OwnEvents'
  BY <1>1, <1>2 DEF OwnEvents
<1> QED
  BY <1>7, <1>8, <1>9, <1>10, <1>11 DEF Inv

LEMMA ClientsKeep ==
  ASSUME Inv, NEW c \in Client, Connect(c) \/ GiveUp(c) \/ Act(c) \/ Hangup(c)
  PROVE  Inv'
<1>1. UNCHANGED <<sock, conn, fd2conn, links, cur, pc, wait, poll_args, ready>>
  BY DEF Connect, GiveUp, Act, Hangup, server
<1>2. /\ status' \in [Client -> {"off", "backlog", "open", "closed"}]
      /\ mode' \in [Client -> {"quiet", "active", "hung"}]
  BY DEF Connect, GiveUp, Act, Hangup, Inv, TypeOK
<1>3. Tables' /\ Ordered' /\ Live' = Live
  BY <1>1, BooksUnchanged DEF Inv
<1>4. TypeOK'
  BY <1>1, <1>2 DEF Inv, TypeOK
<1>5. Phases' /\ OwnEvents'
  BY <1>1, <1>3 DEF Inv, Phases, OwnEvents, Polled, InTime
<1> QED
  BY <1>3, <1>4, <1>5 DEF Inv

LEMMA InvStutter ==
  ASSUME Inv, UNCHANGED vars
  PROVE  Inv'
<1>1. UNCHANGED <<status, mode, sock, conn, fd2conn, links, cur, pc, wait, poll_args, ready>>
  BY DEF vars, clients, server
<1>2. Tables' /\ Ordered' /\ Live' = Live
  BY <1>1, BooksUnchanged DEF Inv
<1>3. TypeOK' /\ Phases' /\ OwnEvents'
  BY <1>1, <1>2 DEF Inv, TypeOK, Phases, OwnEvents, Polled, InTime
<1> QED
  BY <1>2, <1>3 DEF Inv

LEMMA KilledKeeps ==
  ASSUME Inv, Killed
  PROVE  Inv'
<1>1. /\ pc = "io" /\ pc' = "dead"
      /\ UNCHANGED <<status, mode, sock, conn, fd2conn, links, cur, wait, poll_args, ready>>
  BY DEF Killed, clients, server
<1>2. Tables' /\ Ordered' /\ Live' = Live
  BY <1>1, BooksUnchanged DEF Inv
<1>3. TypeOK' /\ Phases' /\ OwnEvents'
  BY <1>1, <1>2 DEF Inv, TypeOK, Phases, OwnEvents, Polled, InTime
<1> QED
  BY <1>2, <1>3 DEF Inv

LEMMA InvStep == Inv /\ [Next]_vars => Inv'
<1> SUFFICES ASSUME Inv, [Next]_vars PROVE Inv'
  OBVIOUS
<1>1. CASE Server
  BY <1>1, PollKeeps, PollReturnsKeeps, AcceptFailsKeeps, AcceptKeeps, StartIOKeeps, EndIOKeeps,
     EndEventsKeeps, ProcessTimersKeeps DEF Server
<1>2. CASE Tick
  BY <1>2, TickKeeps
<1>3. CASE \E c \in Client : Connect(c) \/ GiveUp(c) \/ Act(c) \/ Hangup(c)
  BY <1>3, ClientsKeep
<1>4. CASE UNCHANGED vars
  BY <1>4, InvStutter
<1>5. CASE Killed
  BY <1>5, KilledKeeps
<1> QED
  BY <1>1, <1>2, <1>3, <1>4, <1>5 DEF Next

LEMMA Invariance == Spec => []Inv
BY InvInit, InvStep, PTL DEF Spec

-----------------------------------------------------------------------------
(* A sequence that lists the connections once each is an order of them. *)
LEMMA ListsAreOrders ==
  ASSUME NEW s \in Seq(Conn), Lists(links, conn, s, Live)
  PROVE  s \in SetToSeqs(Live)
<1>1. s \in [1..Len(s) -> Live] /\ IsInjective(s) /\ \A a \in Live : \E i \in 1..Len(s) : s[i] = a
  BY DEF Lists, Range
<1>2. Len(s) = Cardinality(Live)
  <2>1. s \in Bijection(1..Len(s), Live)
    BY <1>1 DEF Bijection, Injection, Surjection, IsInjective
  <2>2. IsFiniteSet(1..Len(s)) /\ Cardinality(1..Len(s)) = Len(s)
    <3>1. Len(s) \in Nat
      OBVIOUS
    <3> QED
      BY <3>1, FS_Interval
  <2> QED
    BY <2>1, <2>2, FS_Bijection DEF ExistsBijection
<1>3. \A i, j \in 1..Cardinality(Live) : i # j => s[i] # s[j]
  BY <1>1, <1>2 DEF IsInjective
<1> QED
  BY <1>1, <1>2, <1>3 DEF SetToSeqs

(* Every variable keeps its type.                                          *)
THEOREM TypeCorrect == Spec => []TypeOK
<1>1. Inv => TypeOK
  BY DEF Inv
<1> QED
  BY <1>1, Invariance, PTL

(* The table, the idle list in both directions, the descriptors and the    *)
(* memory of the connections always agree.                                 *)
THEOREM BooksBalance == Spec => []Bookkeeping
<1>1. Inv => Bookkeeping
  <2> SUFFICES ASSUME Inv PROVE Bookkeeping
    OBVIOUS
  <2>1. PICK s \in Seq(Conn) : Lists(links, conn, s, Live)
    BY DEF Inv, Ordered
  <2>2. s \in SetToSeqs(Live) /\ Listed(s)
    BY <2>1, ListsAreOrders DEF Lists, Listed
  <2> QED
    BY <2>2 DEF Inv, Tables, Phases, Bookkeeping
<1> QED
  BY <1>1, Invariance, PTL

(* No event gathered by poll is taken for another connection's.            *)
THEOREM EventsFindTheirOwner == Spec => []OwnEvents
<1>1. Inv => OwnEvents
  BY DEF Inv
<1> QED
  BY <1>1, Invariance, PTL

(* The idle list is in order, and poll returns before any connection has   *)
(* been idle for longer than the timeout.                                  *)
THEOREM IdleListInOrder == Spec => []IdleInOrder
<1>1. Inv => IdleInOrder
  <2> SUFFICES ASSUME Inv PROVE IdleInOrder
    OBVIOUS
  <2>1. PICK s \in Seq(Conn) : Lists(links, conn, s, Live)
    BY DEF Inv, Ordered
  <2>2. s \in SetToSeqs(Live) /\ Listed(s) /\ Sorted(conn, s)
    BY <2>1, ListsAreOrders DEF Lists, Listed
  <2> QED
    BY <2>2 DEF Inv, Phases, InTime, Sorted, IdleInOrder
<1> QED
  BY <1>1, Invariance, PTL
=============================================================================
