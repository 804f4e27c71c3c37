--------------------------- MODULE KeyspaceProofs ---------------------------
(***************************************************************************)
(* Proofs about Keyspace for any keys, addresses, workers and bounds:      *)
(* types, that a heap_idx finds its own item, that every Entry has one     *)
(* owner, that the heap stays ordered, and what the pool is given; and     *)
(* what holds besides when clients are careful.                            *)
(***************************************************************************)
EXTENDS Keyspace, Lemmas

(* The inductive invariant.  PutTimer and RemoveTimer need the heap_idx of *)
(* their entry in range, so TypeOK needs IndexSound; IndexSound speaks of  *)
(* live entries, so a command needs to know that those of db are live.     *)
Inv == TypeOK /\ IndexSound /\ Ownership /\ EarliestOnTop /\ PoolGetsSortedSets

(* IndexSound in the terms of the heap lemmas. *)
LEMMA IndexSoundIsFindsOwn == IndexSound <=> FindsOwn(heap, heap_idx, Allocated)
BY DEF IndexSound, FindsOwn

LEMMA HeapItemIsItems == HeapItem = ItemsOf(Addr)
BY DEF HeapItem, ItemsOf

LEMMA LookupsAreMatches ==
  ASSUME TypeOK, NEW k, NEW i \in Lookups(k)
  PROVE  i \in Matches(k)
<1>1. Matches(k) \in SUBSET Nat
  BY DEF Matches, TypeOK
<1> QED
  BY <1>1, MinIn DEF Lookups

(* A lookup yields a live entry of the table, with the key looked up. *)
LEMMA LookupsProperties ==
  ASSUME TypeOK, NEW k \in Key, NEW i \in Lookups(k), Range(db) \subseteq Allocated
  PROVE  i \in 1..Len(db) /\ db[i] \in Allocated /\ ent[db[i]].key = k
<1>1. i \in 1..Len(db) /\ ent[db[i]].key = k
  BY LookupsAreMatches DEF Matches
<1>2. db[i] \in Range(db)
  BY <1>1 DEF Range, TypeOK
<1> QED
  BY <1>1, <1>2

(* What an expiry or an EXPIRE does to the heap of a live entry. *)
LEMMA HeapStep ==
  ASSUME TypeOK, IndexSound, NEW a \in Allocated, NEW u,
         \/ u = RemoveTimer(heap, heap_idx, a) /\ heap_idx[a] # NoIdx
         \/ \E val \in Nat : u = PutTimer(heap, heap_idx, a, val)
  PROVE  /\ u.heap \in Seq(HeapItem)
         /\ u.idx \in [Addr -> Nat]
         /\ FindsOwn(u.heap, u.idx, Allocated)
<1>1. /\ heap \in Seq(ItemsOf(Addr))
      /\ heap_idx \in [Addr -> Nat]
      /\ Allocated \in SUBSET Addr
      /\ FindsOwn(heap, heap_idx, Allocated)
  BY HeapItemIsItems, IndexSoundIsFindsOwn DEF TypeOK, Allocated
<1>2. CASE u = RemoveTimer(heap, heap_idx, a) /\ heap_idx[a] # NoIdx
  BY <1>1, <1>2, HeapItemIsItems, RemoveTimerProperties
<1>3. CASE \E val \in Nat : u = PutTimer(heap, heap_idx, a, val)
  BY <1>1, <1>3, HeapItemIsItems, PutTimerProperties
<1> QED
  BY <1>2, <1>3

(* Fewer live entries need less. *)
LEMMA FindsOwnMonotone ==
  ASSUME NEW h, NEW idx, NEW L, FindsOwn(h, idx, L), NEW M \in SUBSET L
  PROVE  FindsOwn(h, idx, M)
BY DEF FindsOwn

LEMMA NewEntryKeepsTypes ==
  ASSUME TypeOK, IndexSound, NEW k \in Key, NEW type \in {"string", "zset"},
         NewEntry(k, type), UNCHANGED <<heap, queue, busy, clock, pc, now_us, nworks, status>>
  PROVE  TypeOK' /\ IndexSound'
<1>1. PICK a \in Addr :
        /\ ent[a] = None
        /\ ent' = [ent EXCEPT ![a] = [key |-> k, type |-> type]]
        /\ heap_idx' = [heap_idx EXCEPT ![a] = NoIdx]
        /\ db' = <<a>> \o db
  BY DEF NewEntry
<1>2. [key |-> k, type |-> type] \in Entry
  BY DEF Entry
<1>3. ent' \in [Addr -> Entry \cup {None}] /\ heap_idx' \in [Addr -> Nat]
  BY <1>1, <1>2 DEF TypeOK, NoIdx
<1>4. db' \in Seq(Addr)
  <2>1. <<a>> \in Seq(Addr) /\ db \in Seq(Addr)
    BY DEF TypeOK
  <2> QED
    BY <2>1, <1>1, ConcatProperties
<1>5. TypeOK'
  BY <1>3, <1>4 DEF TypeOK, clock
<1>6. IndexSound'
  <2> SUFFICES ASSUME NEW b \in Addr, ent'[b] # None, heap_idx'[b] # NoIdx
               PROVE  heap_idx'[b] \in 1..Len(heap) /\ heap[heap_idx'[b]].ref = b
    BY DEF IndexSound, Allocated
  <2>1. b # a
    BY <1>1 DEF TypeOK
  <2>2. ent'[b] = ent[b] /\ heap_idx'[b] = heap_idx[b]
    BY <2>1, <1>1 DEF TypeOK
  <2> QED
    BY <2>2 DEF IndexSound, Allocated
<1> QED
  BY <1>5, <1>6

(* entry_del leaves fewer live entries, or queues one. *)
LEMMA EntryDelTypes ==
  ASSUME TypeOK, NEW a \in Addr, entry_del(a)
  PROVE  /\ ent' \in [Addr -> Entry \cup {None}]
         /\ queue' \in Seq(Addr)
         /\ Allocated' \subseteq Allocated
<1>1. CASE ent[a].type = "zset"
  <2>1. ent' = ent /\ queue' = Append(queue, a)
    BY <1>1 DEF entry_del
  <2>2. queue' \in Seq(Addr)
    BY <2>1, AppendProperties DEF TypeOK
  <2> QED
    BY <2>1, <2>2 DEF TypeOK, Allocated
<1>2. CASE ent[a].type # "zset"
  BY <1>2 DEF entry_del, TypeOK, Allocated
<1> QED
  BY <1>1, <1>2

LEMMA CrashKeepsTypes ==
  ASSUME TypeOK, IndexSound, NEW how \in {"assert", "throw", "segv", "ub", "sigpipe"}, Crash(how)
  PROVE  TypeOK' /\ IndexSound'
BY DEF Crash, TypeOK, IndexSound, Allocated, memory, clock

(* What else may end the process, without a change of the keyspace.        *)
OtherEnd == WriteToNobody \/ \E k \in Key : Zrem(k)

LEMMA OtherEndIsCrash ==
  ASSUME OtherEnd
  PROVE  /\ ~Polite /\ \E how \in {"ub", "sigpipe"} : Crash(how)
         /\ UNCHANGED <<memory, clock, pc, now_us, nworks>>
BY DEF OtherEnd, WriteToNobody, Zrem, Crash

LEMMA DelKeepsTypes ==
  ASSUME TypeOK, IndexSound, Range(db) \subseteq Allocated, NEW k \in Key, Del(k)
  PROVE  TypeOK' /\ IndexSound'
<1>1. PICK i \in Lookups(k) : db' = RemoveAt(db, i) /\ entry_del(db[i])
  BY DEF Del
<1>2. i \in 1..Len(db) /\ db[i] \in Addr
  BY LookupsProperties DEF Allocated
<1>3. db' \in Seq(Addr)
  BY <1>1, <1>2, RemoveAtType DEF TypeOK
<1>4. /\ ent' \in [Addr -> Entry \cup {None}]
      /\ queue' \in Seq(Addr)
      /\ Allocated' \subseteq Allocated
  BY <1>1, <1>2, EntryDelTypes
<1>5. UNCHANGED <<heap_idx, heap, busy, clock, pc, now_us, nworks, status>>
  BY DEF Del
<1>6. TypeOK'
  BY <1>3, <1>4, <1>5 DEF TypeOK, clock
<1>7. IndexSound'
  BY <1>4, <1>5 DEF IndexSound
<1> QED
  BY <1>6, <1>7

LEMMA ExpireKeepsTypes ==
  ASSUME TypeOK, IndexSound, Range(db) \subseteq Allocated,
         NEW k \in Key, NEW ttl \in TTL, Expire(k, ttl)
  PROVE  TypeOK' /\ IndexSound'
<1>1. PICK i \in Lookups(k) :
        LET a == db[i]
            u == IF ttl < 0 THEN RemoveTimer(heap, heap_idx, a)
                            ELSE PutTimer(heap, heap_idx, a, (now + ttl) % ClockMod)
        IN /\ ttl < 0 => heap_idx[a] # NoIdx
           /\ IF WritesFreed(u)
              THEN Crash("ub")
              ELSE /\ heap' = u.heap
                   /\ heap_idx' = u.idx
                   /\ UNCHANGED <<ent, db, queue, busy, clock, pc, now_us, nworks, status>>
  BY DEF Expire
<1> DEFINE a == db[i]
           u == IF ttl < 0 THEN RemoveTimer(heap, heap_idx, a)
                           ELSE PutTimer(heap, heap_idx, a, (now + ttl) % ClockMod)
<1>2. a \in Allocated
  BY LookupsProperties
<1>3. CASE WritesFreed(u)
  BY <1>1, <1>3, CrashKeepsTypes
<1>4. CASE ~WritesFreed(u)
  <2>1. /\ heap' = u.heap
        /\ heap_idx' = u.idx
        /\ UNCHANGED <<ent, db, queue, busy, clock, pc, now_us, nworks, status>>
    BY <1>1, <1>4
  <2>2. ttl \in Int /\ now \in Int
    BY KeyspaceAssumption DEF TypeOK
  <2>3. (now + ttl) % ClockMod \in Nat
    BY <2>2, KeyspaceAssumption
  <2>4. \/ u = RemoveTimer(heap, heap_idx, a) /\ heap_idx[a] # NoIdx
        \/ \E val \in Nat : u = PutTimer(heap, heap_idx, a, val)
    BY <1>1, <2>3
  <2> HIDE DEF u, a
  <2>5. /\ u.heap \in Seq(HeapItem)
        /\ u.idx \in [Addr -> Nat]
        /\ FindsOwn(u.heap, u.idx, Allocated)
    BY <1>2, <2>4, HeapStep
  <2>6. TypeOK'
    BY <2>1, <2>5 DEF TypeOK, clock
  <2>7. IndexSound'
    BY <2>1, <2>5 DEF IndexSound, FindsOwn, Allocated
  <2> QED
    BY <2>6, <2>7
<1> QED
  BY <1>3, <1>4

LEMMA ExpireTopKeepsTypes ==
  ASSUME TypeOK, IndexSound, Range(db) \subseteq Allocated, ExpireTop
  PROVE  TypeOK' /\ IndexSound'
<1> DEFINE a == heap[1].ref
           u == RemoveTimer(heap, heap_idx, a)
<1>1. a \in Addr
  <2>1. heap # <<>> /\ heap \in Seq(HeapItem)
    BY DEF ExpireTop, TopIsDue, TypeOK
  <2>2. heap[1] \in HeapItem
    BY <2>1, EmptySeq, ElementOfSeq
  <2> QED
    BY <2>2 DEF HeapItem
<1>2. CASE \E how \in {"assert", "throw", "segv", "ub"} : Crash(how)
  BY <1>2, CrashKeepsTypes
<1>3. CASE /\ ent[a] # None
           /\ \E i \in Lookups(ent[a].key) :
                /\ Asserted(i, a)
                /\ heap_idx[a] # NoIdx
                /\ db' = RemoveAt(db, i)
                /\ heap' = u.heap
                /\ heap_idx' = u.idx
                /\ entry_del(a)
                /\ IF WorkLimitReached
                   THEN LeaveTimers
                   ELSE nworks' = nworks + 1 /\ UNCHANGED <<pc, now_us, clock>>
                /\ UNCHANGED <<busy, status>>
  <2>1. a \in Allocated /\ ent[a].key \in Key
    BY <1>1, <1>3 DEF Allocated, TypeOK, Entry
  <2>2. PICK i \in Lookups(ent[a].key) :
          /\ heap_idx[a] # NoIdx
          /\ db' = RemoveAt(db, i)
          /\ heap' = u.heap
          /\ heap_idx' = u.idx
          /\ entry_del(a)
          /\ IF WorkLimitReached
             THEN LeaveTimers
             ELSE nworks' = nworks + 1 /\ UNCHANGED <<pc, now_us, clock>>
          /\ UNCHANGED <<busy, status>>
    BY <1>3
  <2>3. i \in 1..Len(db)
    BY <2>1, LookupsProperties
  <2>4. db' \in Seq(Addr)
    BY <2>2, <2>3, RemoveAtType DEF TypeOK
  <2>5. /\ u.heap \in Seq(HeapItem)
        /\ u.idx \in [Addr -> Nat]
        /\ FindsOwn(u.heap, u.idx, Allocated)
    BY <2>1, <2>2, HeapStep
  <2> HIDE DEF a, u
  <2>6. /\ ent' \in [Addr -> Entry \cup {None}]
        /\ queue' \in Seq(Addr)
        /\ Allocated' \subseteq Allocated
    BY <1>1, <2>2, EntryDelTypes
  <2>7. /\ now_us' \in 0..MaxNow /\ pc' \in {"io", "timers"} /\ nworks' \in 0..k_max_works
        /\ now' \in 0..MaxNow /\ wait' \in 0..EmptyWait
    BY <2>2, KeyspaceAssumption DEF TypeOK, LeaveTimers, WorkLimitReached, clock
  <2>8. TypeOK'
    BY <2>2, <2>4, <2>5, <2>6, <2>7 DEF TypeOK
  <2>9. IndexSound'
    BY <2>2, <2>5, <2>6 DEF IndexSound, FindsOwn
  <2> QED
    BY <2>8, <2>9
<1> QED
  BY <1>2, <1>3 DEF ExpireTop

LEMMA TypesInit == Init => TypeOK /\ IndexSound
BY KeyspaceAssumption DEF Init, TypeOK, IndexSound, Allocated, NoIdx, Entry

LEMMA TypesStep ==
  ASSUME TypeOK, IndexSound, Range(db) \subseteq Allocated, [Next]_vars
  PROVE  TypeOK' /\ IndexSound'
<1>1. ASSUME NEW k \in Key, Set(k)
      PROVE  TypeOK' /\ IndexSound'
  BY <1>1, NewEntryKeepsTypes DEF Set
<1>2. ASSUME NEW k \in Key, Del(k)
      PROVE  TypeOK' /\ IndexSound'
  BY <1>2, DelKeepsTypes
<1>3. ASSUME NEW k \in Key, NEW isNumber \in BOOLEAN, Zadd(k, isNumber)
      PROVE  TypeOK' /\ IndexSound'
  BY <1>3, NewEntryKeepsTypes, CrashKeepsTypes DEF Zadd
<1>4. ASSUME NEW k \in Key, NEW ttl \in TTL, Expire(k, ttl)
      PROVE  TypeOK' /\ IndexSound'
  BY <1>4, ExpireKeepsTypes
<1>5. CASE StartTimers
  BY <1>5, KeyspaceAssumption DEF StartTimers, TypeOK, IndexSound, Allocated, memory, clock
<1>6. CASE ExpireTop
  BY <1>6, ExpireTopKeepsTypes
<1>7. CASE EndTimers
  BY <1>7, KeyspaceAssumption DEF EndTimers, LeaveTimers, TypeOK, IndexSound, Allocated, memory
<1>8. ASSUME NEW w \in Worker, Take(w)
      PROVE  TypeOK' /\ IndexSound'
  <2>1. Head(queue) \in Addr /\ Tail(queue) \in Seq(Addr)
    BY <1>8, HeadTailProperties DEF Take, TypeOK
  <2>2. busy' \in [Worker -> Addr \cup {None}]
    BY <1>8, <2>1 DEF Take, TypeOK
  <2> QED
    BY <1>8, <2>1, <2>2 DEF Take, TypeOK, IndexSound, Allocated, clock
<1>9. ASSUME NEW w \in Worker, threaded_zset_destructor(w)
      PROVE  TypeOK' /\ IndexSound'
  BY <1>9 DEF threaded_zset_destructor, TypeOK, IndexSound, Allocated, clock
<1>10. CASE Tick
  <2>1. wait' \in 0..EmptyWait
    BY <1>10, KeyspaceAssumption DEF Tick, TypeOK
  <2> QED
    BY <1>10, <2>1, KeyspaceAssumption DEF Tick, TypeOK, IndexSound, Allocated, memory
<1>11. CASE UNCHANGED vars
  BY <1>11 DEF vars, memory, clock, TypeOK, IndexSound, Allocated
<1>12. CASE OtherEnd
  BY <1>12, OtherEndIsCrash, CrashKeepsTypes
<1> QED
  BY <1>1, <1>2, <1>3, <1>4, <1>5, <1>6, <1>7, <1>8, <1>9, <1>10, <1>11, <1>12 DEF Next, OtherEnd
-----------------------------------------------------------------------------
(* The owners of entries: only these variables matter. *)
LEMMA OwnershipUnchanged ==
  ASSUME Ownership, UNCHANGED <<ent, db, queue, busy>>
  PROVE  Ownership'
BY DEF Ownership, Allocated, InWork

LEMMA NewEntryKeepsOwnership ==
  ASSUME TypeOK, Ownership, NEW k \in Key, NEW type \in {"string", "zset"},
         NewEntry(k, type), UNCHANGED <<queue, busy>>
  PROVE  Ownership'
<1>1. PICK a \in Addr :
        /\ ent[a] = None
        /\ ent' = [ent EXCEPT ![a] = [key |-> k, type |-> type]]
        /\ db' = <<a>> \o db
  BY DEF NewEntry
<1>2. a \notin Allocated
  BY <1>1 DEF Allocated
<1>3. a \notin Range(db)
  BY <1>2 DEF Ownership
<1>4. IsInjective(db') /\ Range(db') = Range(db) \cup {a}
  BY <1>1, <1>3, PushFrontRange DEF TypeOK, Ownership
<1>5. Allocated' = Allocated \cup {a}
  <2>1. [key |-> k, type |-> type] # None
    BY KeyspaceAssumption
  <2> QED
    BY <2>1, <1>1 DEF Allocated, TypeOK
<1>6. InWork' = InWork
  BY DEF InWork
<1> QED
  BY <1>2, <1>4, <1>5, <1>6 DEF Ownership

(* An entry of the table is freed, or moves to the queue. *)
LEMMA DetachKeepsOwnership ==
  ASSUME TypeOK, Ownership, NEW i \in 1..Len(db),
         db' = RemoveAt(db, i), entry_del(db[i]), UNCHANGED busy
  PROVE  Ownership'
<1>1. db[i] \in Addr /\ db[i] \in Range(db)
  BY DEF TypeOK, Range
<1>2. IsInjective(db') /\ Range(db') = Range(db) \ {db[i]}
  BY RemoveAtRange DEF TypeOK, Ownership
<1>3. db[i] \notin Range(queue) /\ db[i] \notin InWork
  BY <1>1 DEF Ownership
<1>4. InWork' = InWork
  BY DEF InWork
<1>5. CASE ent[db[i]].type = "zset"
  <2>1. ent' = ent /\ queue' = Append(queue, db[i])
    BY <1>5 DEF entry_del
  <2>2. IsInjective(queue') /\ Range(queue') = Range(queue) \cup {db[i]}
    BY <1>1, <1>3, <2>1, AppendRange DEF TypeOK, Ownership
  <2>3. Allocated' = Allocated
    BY <2>1 DEF Allocated
  <2> QED
    BY <1>1, <1>2, <1>3, <1>4, <2>2, <2>3 DEF Ownership
<1>6. CASE ent[db[i]].type # "zset"
  <2>1. ent' = [ent EXCEPT ![db[i]] = None] /\ queue' = queue
    BY <1>6 DEF entry_del
  <2>2. Allocated' = Allocated \ {db[i]}
    BY <2>1, <1>1 DEF Allocated, TypeOK
  <2> QED
    BY <1>1, <1>2, <1>3, <1>4, <2>1, <2>2 DEF Ownership
<1> QED
  BY <1>5, <1>6

LEMMA TakeKeepsOwnership ==
  ASSUME TypeOK, Ownership, NEW w \in Worker, Take(w)
  PROVE  Ownership'
<1> DEFINE a == Head(queue)
<1>1. /\ IsInjective(queue')
      /\ Range(queue') = Range(queue) \ {a}
      /\ a \in Range(queue)
  BY TailRange DEF Take, TypeOK, Ownership
<1>2. /\ busy' = [busy EXCEPT ![w] = a]
      /\ busy[w] = None
      /\ UNCHANGED <<ent, db>>
  BY DEF Take
<1>3. a \in Allocated /\ a # None /\ a \notin InWork /\ a \notin Range(db)
  BY <1>1, KeyspaceAssumption DEF Ownership, Allocated
<1>4. InWork' = InWork \cup {a}
  BY <1>2, <1>3 DEF InWork, TypeOK
<1>5. \A v, x \in Worker : busy'[v] = busy'[x] /\ busy'[v] # None => v = x
  <2>1. \A v \in Worker : busy[v] # None => busy[v] \in InWork
    BY DEF InWork
  <2>2. \A v \in Worker : busy'[v] = IF v = w THEN a ELSE busy[v]
    BY <1>2 DEF TypeOK
  <2> QED
    BY <2>1, <2>2, <1>3 DEF Ownership
<1>6. Allocated' = Allocated
  BY <1>2 DEF Allocated
<1> QED
  BY <1>1, <1>2, <1>3, <1>4, <1>5, <1>6 DEF Ownership

LEMMA DestructorKeepsOwnership ==
  ASSUME TypeOK, Ownership, NEW w \in Worker, threaded_zset_destructor(w)
  PROVE  Ownership'
<1>1. /\ busy[w] # None
      /\ ent' = [ent EXCEPT ![busy[w]] = None]
      /\ busy' = [busy EXCEPT ![w] = None]
      /\ UNCHANGED <<db, queue>>
  BY DEF threaded_zset_destructor
<1>2. busy[w] \in Addr /\ busy[w] \in InWork
  BY <1>1 DEF TypeOK, InWork
<1>3. \A v \in Worker : busy'[v] = IF v = w THEN None ELSE busy[v]
  BY <1>1 DEF TypeOK
<1>4. InWork' = InWork \ {busy[w]}
  <2>1. \A v \in Worker : v # w => busy[v] # busy[w]
    BY <1>1 DEF Ownership
  <2> QED
    BY <1>3, <2>1, <1>1 DEF InWork
<1>5. Allocated' = Allocated \ {busy[w]}
  BY <1>1, <1>2 DEF Allocated, TypeOK
<1>6. \A v, x \in Worker : busy'[v] = busy'[x] /\ busy'[v] # None => v = x
  BY <1>3 DEF Ownership
<1> QED
  BY <1>1, <1>2, <1>4, <1>5, <1>6 DEF Ownership

LEMMA OwnershipInit == Init => Ownership
<1> SUFFICES ASSUME Init PROVE Ownership
  OBVIOUS
<1>1. Range(<<>>) = {} /\ IsInjective(<<>>)
  BY DEF Range, IsInjective
<1>2. Allocated = {} /\ InWork = {}
  BY DEF Init, Allocated, InWork
<1> QED
  BY <1>1, <1>2 DEF Init, Ownership

LEMMA OwnershipStep ==
  ASSUME TypeOK, Ownership, [Next]_vars
  PROVE  Ownership'
<1>1. ASSUME NEW k \in Key, Set(k)
      PROVE  Ownership'
  BY <1>1, NewEntryKeepsOwnership DEF Set
<1>2. ASSUME NEW k \in Key, Del(k)
      PROVE  Ownership'
  <2>1. PICK i \in Lookups(k) : db' = RemoveAt(db, i) /\ entry_del(db[i]) /\ UNCHANGED busy
    BY <1>2 DEF Del
  <2>2. i \in 1..Len(db)
    BY LookupsAreMatches DEF Matches
  <2> QED
    BY <2>1, <2>2, DetachKeepsOwnership
<1>3. ASSUME NEW k \in Key, NEW isNumber \in BOOLEAN, Zadd(k, isNumber)
      PROVE  Ownership'
  BY <1>3, NewEntryKeepsOwnership, OwnershipUnchanged DEF Zadd, Crash, memory
<1>4. ASSUME NEW k \in Key, NEW ttl \in TTL, Expire(k, ttl)
      PROVE  Ownership'
  BY <1>4, OwnershipUnchanged DEF Expire, Crash, memory
<1>5. CASE StartTimers \/ EndTimers \/ Tick \/ UNCHANGED vars
  BY <1>5, OwnershipUnchanged DEF StartTimers, EndTimers, Tick, vars, memory
<1>6. CASE ExpireTop
  <2>1. \/ \E how \in {"assert", "ub"} : Crash(how)
        \/ \E i \in Lookups(ent[heap[1].ref].key) :
             /\ db[i] = heap[1].ref
             /\ db' = RemoveAt(db, i)
             /\ entry_del(heap[1].ref)
             /\ UNCHANGED busy
    BY <1>6 DEF ExpireTop, Asserted
  <2>2. ASSUME NEW i \in Lookups(ent[heap[1].ref].key),
               db' = RemoveAt(db, i), entry_del(db[i]), UNCHANGED busy
        PROVE  Ownership'
    <3>1. i \in 1..Len(db)
      BY LookupsAreMatches DEF Matches
    <3> QED
      BY <2>2, <3>1, DetachKeepsOwnership
  <2> QED
    BY <2>1, <2>2, OwnershipUnchanged DEF Crash, memory
<1>7. ASSUME NEW w \in Worker, Take(w) \/ threaded_zset_destructor(w)
      PROVE  Ownership'
  BY <1>7, TakeKeepsOwnership, DestructorKeepsOwnership
<1>8. CASE OtherEnd
  BY <1>8, OtherEndIsCrash, OwnershipUnchanged DEF memory
<1> QED
  BY <1>1, <1>2, <1>3, <1>4, <1>5, <1>6, <1>7, <1>8 DEF Next, OtherEnd
-----------------------------------------------------------------------------
(* Only EXPIRE and the expiry loop change the heap, and each for an entry  *)
(* that finds its item.                                                    *)
LEMMA OrderStep ==
  ASSUME TypeOK, IndexSound, EarliestOnTop, Range(db) \subseteq Allocated, [Next]_vars
  PROVE  EarliestOnTop'
<1>1. /\ heap \in Seq(ItemsOf(Addr)) /\ heap_idx \in [Addr -> Nat] /\ HeapOrdered(heap)
      /\ \A a \in Allocated : a \in Addr /\ (heap_idx[a] # NoIdx => heap_idx[a] \in 1..Len(heap))
  BY HeapItemIsItems DEF TypeOK, EarliestOnTop, IndexSound, Allocated
<1>2. ASSUME UNCHANGED heap
      PROVE  EarliestOnTop'
  BY <1>2 DEF EarliestOnTop
<1>3. ASSUME NEW k \in Key, NEW ttl \in TTL, Expire(k, ttl)
      PROVE  EarliestOnTop'
  <2>1. PICK i \in Lookups(k) :
          \/ UNCHANGED heap
          \/ ttl < 0 /\ heap_idx[db[i]] # NoIdx /\ heap' = RemoveTimer(heap, heap_idx, db[i]).heap
          \/ ~(ttl < 0) /\ heap' = PutTimer(heap, heap_idx, db[i], (now + ttl) % ClockMod).heap
    BY <1>3 DEF Expire, Crash, memory
  <2>2. db[i] \in Allocated
    BY LookupsProperties
  <2>3. (now + ttl) % ClockMod \in Nat
    <3>1. ttl \in Int /\ now \in Int
      BY KeyspaceAssumption DEF TypeOK
    <3> QED
      BY <3>1, KeyspaceAssumption
  <2> QED
    BY <1>1, <1>2, <2>1, <2>2, <2>3, PutTimerOrders, RemoveTimerOrders DEF EarliestOnTop
<1>4. CASE ExpireTop
  <2>1. \/ UNCHANGED heap
        \/ /\ ent[heap[1].ref] # None /\ heap_idx[heap[1].ref] # NoIdx
           /\ heap' = RemoveTimer(heap, heap_idx, heap[1].ref).heap
    BY <1>4 DEF ExpireTop, Crash, memory
  <2>2. heap[1].ref \in Addr
    <3>1. heap # <<>> /\ heap \in Seq(HeapItem)
      BY <1>4 DEF ExpireTop, TopIsDue, TypeOK
    <3>2. heap[1] \in HeapItem
      BY <3>1, EmptySeq, ElementOfSeq
    <3> QED
      BY <3>2 DEF HeapItem
  <2> QED
    BY <1>1, <1>2, <2>1, <2>2, RemoveTimerOrders DEF EarliestOnTop, Allocated
<1>5. CASE OtherEnd
  BY <1>2, <1>5, OtherEndIsCrash DEF memory
<1> QED
  BY <1>2, <1>3, <1>4, <1>5
  DEF Next, OtherEnd, Set, Del, Zadd, Crash, StartTimers, EndTimers, Take,
      threaded_zset_destructor, Tick, vars, memory

(* What the pool holds is not in the table, so no command frees it or      *)
(* takes its address.                                                      *)
LEMMA PoolStep ==
  ASSUME TypeOK, Ownership, PoolGetsSortedSets, [Next]_vars
  PROVE  PoolGetsSortedSets'
<1> DEFINE Pool == Range(queue) \cup InWork
<1>1. Pool \subseteq Allocated /\ Pool \cap Range(db) = {} /\ Pool \subseteq Addr
  BY DEF Ownership, Allocated
<1>2. ASSUME UNCHANGED <<ent, queue, busy>>
      PROVE  PoolGetsSortedSets'
  BY <1>2 DEF PoolGetsSortedSets, InWork
<1>3. ASSUME NEW k \in Key, NEW type \in {"string", "zset"},
             NewEntry(k, type), UNCHANGED <<queue, busy>>
      PROVE  PoolGetsSortedSets'
  <2>1. PICK a \in Addr : ent[a] = None /\ ent' = [ent EXCEPT ![a] = [key |-> k, type |-> type]]
    BY <1>3 DEF NewEntry
  <2>2. a \notin Pool
    BY <1>1, <2>1 DEF Allocated
  <2> QED
    BY <1>1, <1>3, <2>1, <2>2 DEF PoolGetsSortedSets, InWork, TypeOK
<1>4. ASSUME NEW i \in 1..Len(db), entry_del(db[i]), UNCHANGED busy
      PROVE  PoolGetsSortedSets'
  <2>1. db[i] \in Addr /\ db[i] \notin Pool
    <3>1. db[i] \in Addr /\ db[i] \in Range(db)
      BY DEF TypeOK, Range
    <3> QED
      BY <3>1, <1>1
  <2>2. InWork' = InWork
    BY <1>4 DEF InWork
  <2>3. CASE ent[db[i]].type = "zset"
    <3>1. ent' = ent /\ queue' = Append(queue, db[i])
      BY <1>4, <2>3 DEF entry_del
    <3>2. Range(queue') = Range(queue) \cup {db[i]}
      BY <2>1, <3>1, AppendRange DEF TypeOK, Ownership
    <3> QED
      BY <3>1, <3>2, <2>2, <2>3 DEF PoolGetsSortedSets
  <2>4. CASE ent[db[i]].type # "zset"
    BY <1>1, <1>4, <2>1, <2>2, <2>4 DEF entry_del, PoolGetsSortedSets, TypeOK
  <2> QED
    BY <2>3, <2>4
<1>5. ASSUME NEW k \in Key, Del(k)
      PROVE  PoolGetsSortedSets'
  <2>1. PICK i \in Lookups(k) : entry_del(db[i]) /\ UNCHANGED busy
    BY <1>5 DEF Del
  <2>2. i \in 1..Len(db)
    BY LookupsAreMatches DEF Matches
  <2> QED
    BY <2>1, <2>2, <1>4
<1>6. CASE ExpireTop
  <2>1. \/ UNCHANGED <<ent, queue, busy>>
        \/ \E i \in Lookups(ent[heap[1].ref].key) :
             db[i] = heap[1].ref /\ entry_del(heap[1].ref) /\ UNCHANGED busy
    BY <1>6 DEF ExpireTop, Asserted, Crash, memory
  <2>2. ASSUME NEW i \in Lookups(ent[heap[1].ref].key), entry_del(db[i]), UNCHANGED busy
        PROVE  PoolGetsSortedSets'
    <3>1. i \in 1..Len(db)
      BY LookupsAreMatches DEF Matches
    <3> QED
      BY <2>2, <3>1, <1>4
  <2> QED
    BY <2>1, <2>2, <1>2
<1>7. ASSUME NEW w \in Worker, Take(w)
      PROVE  PoolGetsSortedSets'
  <2>1. Range(queue') \subseteq Range(queue) /\ Head(queue) \in Range(queue)
    BY <1>7, TailRange DEF Take, TypeOK, Ownership
  <2>2. InWork' \subseteq InWork \cup {Head(queue)} /\ ent' = ent
    BY <1>7 DEF Take, InWork, TypeOK
  <2> QED
    BY <2>1, <2>2 DEF PoolGetsSortedSets
<1>8. ASSUME NEW w \in Worker, threaded_zset_destructor(w)
      PROVE  PoolGetsSortedSets'
  <2>1. /\ busy[w] # None /\ busy[w] \in InWork
        /\ ent' = [ent EXCEPT ![busy[w]] = None]
        /\ queue' = queue
        /\ \A v \in Worker : busy'[v] = IF v = w THEN None ELSE busy[v]
    BY <1>8 DEF threaded_zset_destructor, TypeOK, InWork
  <2>2. InWork' \subseteq InWork /\ busy[w] \notin InWork'
    BY <2>1 DEF InWork, Ownership
  <2>3. busy[w] \notin Range(queue)
    BY <2>1 DEF Ownership
  <2> QED
    BY <1>1, <2>1, <2>2, <2>3 DEF PoolGetsSortedSets, TypeOK
<1>9. CASE OtherEnd
  BY <1>2, <1>9, OtherEndIsCrash DEF memory
<1> QED
  BY <1>2, <1>3, <1>5, <1>6, <1>7, <1>8, <1>9
  DEF Next, OtherEnd, Set, Zadd, Expire, Crash, StartTimers, EndTimers, Tick, vars, memory
-----------------------------------------------------------------------------
LEMMA InvInit == Init => Inv
<1>1. Init => EarliestOnTop
  BY DEF Init, EarliestOnTop, HeapOrdered
<1>2. Init => PoolGetsSortedSets
  BY DEF Init, PoolGetsSortedSets, InWork, Range
<1> QED
  BY <1>1, <1>2, TypesInit, OwnershipInit DEF Inv

LEMMA InvStep ==
  ASSUME Inv, [Next]_vars
  PROVE  Inv'
<1>1. Range(db) \subseteq Allocated
  BY DEF Inv, Ownership
<1> QED
  BY <1>1, TypesStep, OwnershipStep, OrderStep, PoolStep DEF Inv

LEMMA Invariance == Spec => []Inv
BY InvInit, InvStep, PTL DEF Spec

(* The variables keep their types: heap items refer to addresses and the   *)
(* expiry loop counts no further than k_max_works (timer.cpp:74).          *)
THEOREM TypeCorrect == Spec => []TypeOK
<1>1. Inv => TypeOK
  BY DEF Inv
<1> QED
  BY <1>1, Invariance, PTL

(* Whatever clients do, and wherever malloc puts a new Entry, the heap_idx *)
(* of a live entry is in range and finds an item of that entry.            *)
THEOREM HeapIndexSound == Spec => []IndexSound
<1>1. Inv => IndexSound
  BY DEF Inv
<1> QED
  BY <1>1, Invariance, PTL

(* Every Entry is in the table, in the queue of the pool or with a worker, *)
(* in exactly one place: no double free and no leak of an Entry.           *)
THEOREM SingleOwner == Spec => []Ownership
<1>1. Inv => Ownership
  BY DEF Inv
<1> QED
  BY <1>1, Invariance, PTL

(* Whatever DEL leaves behind, the earliest deadline is on top: the expiry *)
(* loop may stop at the first item that is not due.                        *)
THEOREM HeapStaysOrdered == Spec => []EarliestOnTop
<1>1. Inv => EarliestOnTop
  BY DEF Inv
<1> QED
  BY <1>1, Invariance, PTL

(* The destructor the pool runs is never given a string.                   *)
THEOREM PoolOnlySortedSets == Spec => []PoolGetsSortedSets
<1>1. Inv => PoolGetsSortedSets
  BY DEF Inv
<1> QED
  BY <1>1, Invariance, PTL
-----------------------------------------------------------------------------
(* With careful clients (Polite) the process never faults, no timer        *)
(* outlives its key, and the keyspace implements the store of KVStore.     *)
UniqueKeys == \A a, b \in Range(db) : ent[a].key = ent[b].key => a = b

(* Items and the heap_idx of all addresses match one to one, and only      *)
(* entries of the table have a timer.                                      *)
TimersMatch ==
  /\ FindsOwn(heap, heap_idx, Addr) /\ ItemHasIdx(heap, heap_idx)
  /\ \A a \in Addr : heap_idx[a] # NoIdx => a \in Range(db)

(* process_timers compares deadlines with a time that has been.            *)
ReadEarlier == now_us <= now

CarefulInv == Inv /\ NoFault /\ UniqueKeys /\ TimersMatch /\ ReadEarlier

(* The entries of the table are allocated, and have the type of an Entry.  *)
LEMMA TableLive ==
  ASSUME TypeOK, Ownership
  PROVE  \A a \in Range(db) : a \in Addr /\ ent[a] # None /\ ent[a] \in Entry
BY DEF TypeOK, Ownership, Allocated

(* A lookup finds the one entry that has the key. *)
LEMMA KeyFound ==
  ASSUME TypeOK, UniqueKeys, NEW a \in Range(db)
  PROVE  /\ ~Missing(ent[a].key)
         /\ \A i \in Lookups(ent[a].key) : i \in 1..Len(db) /\ db[i] = a
<1>1. PICK j \in 1..Len(db) : db[j] = a
  BY DEF Range, TypeOK
<1>2. j \in Matches(ent[a].key)
  BY <1>1 DEF Matches
<1>3. ASSUME NEW i \in Lookups(ent[a].key)
      PROVE  i \in 1..Len(db) /\ db[i] = a
  <2>1. i \in 1..Len(db) /\ ent[db[i]].key = ent[a].key
    BY LookupsAreMatches DEF Matches
  <2>2. db[i] \in Range(db)
    BY <2>1 DEF Range, TypeOK
  <2> QED
    BY <2>1, <2>2 DEF UniqueKeys
<1> QED
  BY <1>2, <1>3 DEF Missing

(* Looking a key up fails only if no entry of the table has it.            *)
LEMMA KeyMissing ==
  ASSUME TypeOK, NEW k
  PROVE  Missing(k) <=> \A a \in Range(db) : ent[a].key # k
<1>1. Range(db) = {db[i] : i \in 1..Len(db)}
  BY DEF Range, TypeOK
<1> QED
  BY <1>1 DEF Missing, Matches

(* A new entry for a key that has none, at an address without a timer. *)
LEMMA InsertStep ==
  ASSUME CarefulInv, NEW k \in Key, NEW type, Missing(k), NewEntry(k, type),
         UNCHANGED <<heap, status>>
  PROVE  /\ \E a \in Addr : /\ a \notin Range(db) /\ Range(db') = Range(db) \cup {a}
                            /\ ent' = [ent EXCEPT ![a] = [key |-> k, type |-> type]]
                            /\ heap_idx[a] = NoIdx
         /\ heap_idx' = heap_idx
         /\ NoFault' /\ UniqueKeys' /\ TimersMatch'
<1> USE DEF CarefulInv, Inv
<1>1. PICK a \in Addr :
        /\ ent[a] = None
        /\ ent' = [ent EXCEPT ![a] = [key |-> k, type |-> type]]
        /\ heap_idx' = [heap_idx EXCEPT ![a] = NoIdx]
        /\ db' = <<a>> \o db
  BY DEF NewEntry
<1>2. a \notin Range(db)
  BY <1>1, TableLive
<1>3. Range(db') = Range(db) \cup {a}
  BY <1>1, <1>2, PushFrontRange DEF TypeOK, Ownership
<1>4. heap_idx[a] = NoIdx /\ heap_idx' = heap_idx
  BY <1>1, <1>2 DEF TimersMatch, TypeOK
<1>5. ent'[a].key = k /\ \A b \in Range(db) : ent'[b] = ent[b] /\ ent[b].key # k
  BY <1>1, <1>2, KeyMissing, TableLive DEF TypeOK
<1>6. UniqueKeys'
  BY <1>2, <1>3, <1>5 DEF UniqueKeys
<1>7. TimersMatch'
  BY <1>3, <1>4 DEF TimersMatch
<1>8. NoFault'
  BY DEF NoFault
<1> QED
  BY <1>1, <1>2, <1>3, <1>4, <1>6, <1>7, <1>8

(* An entry leaves the table, whether freed or queued. *)
LEMMA DetachStep ==
  ASSUME TypeOK, Ownership, UniqueKeys, NEW i \in 1..Len(db),
         db' = RemoveAt(db, i), entry_del(db[i])
  PROVE  /\ db[i] \in Range(db) /\ Range(db') = Range(db) \ {db[i]}
         /\ \A b \in Range(db') : ent'[b] = ent[b]
         /\ UniqueKeys'
<1>1. db[i] \in Addr /\ db[i] \in Range(db)
  BY DEF TypeOK, Range
<1>2. Range(db') = Range(db) \ {db[i]}
  BY RemoveAtRange DEF TypeOK, Ownership
<1>3. \A b \in Range(db') : ent'[b] = ent[b]
  BY <1>1, <1>2, TableLive DEF entry_del, TypeOK
<1>4. UniqueKeys'
  BY <1>2, <1>3 DEF UniqueKeys
<1> QED
  BY <1>1, <1>2, <1>3, <1>4

(* What EXPIRE and the expiry loop get from the heap for an entry of the   *)
(* table: no write through freed memory, and other deadlines as before.    *)
LEMMA HeapTracks ==
  ASSUME TypeOK, Ownership, TimersMatch, NEW a \in Range(db), NEW u,
         \/ u = RemoveTimer(heap, heap_idx, a) /\ heap_idx[a] # NoIdx
         \/ \E val \in Nat : u = PutTimer(heap, heap_idx, a, val)
  PROVE  /\ ~WritesFreed(u)
         /\ FindsOwn(u.heap, u.idx, Addr) /\ ItemHasIdx(u.heap, u.idx)
         /\ SameTimers(heap, heap_idx, u, Addr \ {a})
         /\ u = RemoveTimer(heap, heap_idx, a) /\ heap_idx[a] # NoIdx => u.idx[a] = NoIdx
         /\ \A val \in Nat : u = PutTimer(heap, heap_idx, a, val) =>
              TimerIs(u, a, val)
<1>1. /\ heap \in Seq(ItemsOf(Addr)) /\ heap_idx \in [Addr -> Nat] /\ a \in Addr
      /\ FindsOwn(heap, heap_idx, Addr) /\ ItemHasIdx(heap, heap_idx)
  BY HeapItemIsItems, TableLive DEF TypeOK, TimersMatch
<1>2. ASSUME u = RemoveTimer(heap, heap_idx, a), heap_idx[a] # NoIdx
      PROVE  /\ u.heap \in Seq(ItemsOf(Addr)) /\ FindsOwn(u.heap, u.idx, Addr)
             /\ ItemHasIdx(u.heap, u.idx) /\ u.wrote \subseteq 1..Len(u.heap)
             /\ SameTimers(heap, heap_idx, u, Addr \ {a})
             /\ u.idx[a] = NoIdx
  <2>1. u.heap \in Seq(ItemsOf(Addr)) /\ FindsOwn(u.heap, u.idx, Addr)
    BY <1>1, <1>2, RemoveTimerProperties
  <2>2. /\ ItemHasIdx(u.heap, u.idx) /\ u.wrote \subseteq 1..Len(u.heap)
        /\ SameTimers(heap, heap_idx, u, Addr \ {a})
        /\ u.idx[a] = NoIdx
    <3>1. TimerGone(heap, heap_idx, u, a, Addr)
      BY <1>1, <1>2, RemoveTimerTracks
    <3> QED
      BY <3>1 DEF TimerGone
  <2> QED
    BY <2>1, <2>2
<1>3. ASSUME NEW val \in Nat, u = PutTimer(heap, heap_idx, a, val)
      PROVE  /\ u.heap \in Seq(ItemsOf(Addr)) /\ FindsOwn(u.heap, u.idx, Addr)
             /\ ItemHasIdx(u.heap, u.idx) /\ u.wrote \subseteq 1..Len(u.heap)
             /\ SameTimers(heap, heap_idx, u, Addr \ {a})
             /\ TimerIs(u, a, val)
  <2>1. u.heap \in Seq(ItemsOf(Addr)) /\ FindsOwn(u.heap, u.idx, Addr)
    BY <1>1, <1>3, PutTimerProperties
  <2>2. /\ ItemHasIdx(u.heap, u.idx) /\ u.wrote \subseteq 1..Len(u.heap)
        /\ SameTimers(heap, heap_idx, u, Addr \ {a})
        /\ TimerIs(u, a, val)
    BY <1>1, <1>3, PutTimerTracks
  <2> QED
    BY <2>1, <2>2
<1>4. /\ u.heap \in Seq(ItemsOf(Addr)) /\ FindsOwn(u.heap, u.idx, Addr)
      /\ ItemHasIdx(u.heap, u.idx) /\ u.wrote \subseteq 1..Len(u.heap)
      /\ SameTimers(heap, heap_idx, u, Addr \ {a})
  BY <1>2, <1>3
<1>5. ASSUME NEW i \in u.wrote
      PROVE  ent[u.heap[i].ref] # None
  <2> DEFINE r == u.heap[i].ref
  <2>1. i \in 1..Len(u.heap) /\ u.heap[i] \in ItemsOf(Addr)
    BY <1>4
  <2>2. r \in Addr /\ u.idx[r] = i /\ i # NoIdx
    BY <2>1, <1>4 DEF ItemsOf, ItemHasIdx, NoIdx
  <2>3. r # a => heap_idx[r] # NoIdx
    BY <2>2, <1>4 DEF SameTimers
  <2>4. r \in Range(db)
    BY <2>2, <2>3 DEF TimersMatch
  <2> QED
    BY <2>4, TableLive
<1> QED
  BY <1>2, <1>3, <1>4, <1>5 DEF WritesFreed

(* EXPIRE changes the deadline of the one entry that has the key.          *)
LEMMA ExpireStep ==
  ASSUME CarefulInv, NEW k \in Key, NEW ttl \in TTL, Expire(k, ttl)
  PROVE  /\ \E a \in Range(db) :
              /\ ent[a].key = k
              /\ SameTimers(heap, heap_idx, [heap |-> heap', idx |-> heap_idx'], Addr \ {a})
              /\ ttl < 0 => heap_idx'[a] = NoIdx
              /\ ~(ttl < 0) => TimerIs([heap |-> heap', idx |-> heap_idx'], a,
                                       (now + ttl) % ClockMod)
         /\ UNCHANGED <<ent, db, pc, now>>
         /\ NoFault' /\ UniqueKeys' /\ TimersMatch'
<1> USE DEF CarefulInv, Inv
<1>1. PICK i \in Lookups(k) :
        LET u == IF ttl < 0 THEN RemoveTimer(heap, heap_idx, db[i])
                 ELSE PutTimer(heap, heap_idx, db[i], (now + ttl) % ClockMod)
        IN /\ ttl < 0 => heap_idx[db[i]] # NoIdx
           /\ IF WritesFreed(u)
              THEN Crash("ub")
              ELSE /\ heap' = u.heap
                   /\ heap_idx' = u.idx
                   /\ UNCHANGED <<ent, db, queue, busy, clock, pc, now_us, nworks, status>>
  BY DEF Expire
<1> DEFINE a == db[i]
           d == (now + ttl) % ClockMod
           u == IF ttl < 0 THEN RemoveTimer(heap, heap_idx, a) ELSE PutTimer(heap, heap_idx, a, d)
<1>2. a \in Range(db) /\ ent[a].key = k
  BY LookupsAreMatches DEF Matches, Range, TypeOK
<1>3. d \in Nat
  <2>1. ttl \in Int /\ now \in Int
    BY KeyspaceAssumption DEF TypeOK
  <2> QED
    BY <2>1, KeyspaceAssumption
<1>4. /\ ttl < 0 => u = RemoveTimer(heap, heap_idx, a) /\ heap_idx[a] # NoIdx
      /\ ~(ttl < 0) => u = PutTimer(heap, heap_idx, a, d)
  BY <1>1
<1>5. ~WritesFreed(u) => /\ heap' = u.heap
                         /\ heap_idx' = u.idx
                         /\ UNCHANGED <<ent, db, clock, pc, status>>
  BY <1>1
<1> HIDE DEF u, d, a
<1>6. /\ ~WritesFreed(u)
      /\ FindsOwn(u.heap, u.idx, Addr) /\ ItemHasIdx(u.heap, u.idx)
      /\ SameTimers(heap, heap_idx, u, Addr \ {a})
      /\ ttl < 0 => u.idx[a] = NoIdx
      /\ ~(ttl < 0) => TimerIs(u, a, d)
  BY <1>2, <1>3, <1>4, HeapTracks
<1>7. heap' = u.heap /\ heap_idx' = u.idx /\ UNCHANGED <<ent, db, clock, pc, status>>
  BY <1>5, <1>6
<1>8. UniqueKeys' /\ NoFault' /\ UNCHANGED <<ent, db, pc, now>>
  BY <1>7 DEF UniqueKeys, NoFault, clock
<1>9. TimersMatch'
  BY <1>2, <1>6, <1>7 DEF TimersMatch, SameTimers
<1>10. SameTimers(heap, heap_idx, [heap |-> heap', idx |-> heap_idx'], Addr \ {a})
  BY <1>6, <1>7 DEF SameTimers
<1>11. /\ ttl < 0 => heap_idx'[a] = NoIdx
       /\ ~(ttl < 0) => TimerIs([heap |-> heap', idx |-> heap_idx'], a, d)
  BY <1>6, <1>7 DEF TimerIs
<1> QED
  BY <1>2, <1>8, <1>9, <1>10, <1>11 DEF d

(* The earliest item belongs to an entry of the table, which hm_delete     *)
(* finds, so that none of the ways to fault is taken.                      *)
LEMMA ExpireTopStep ==
  ASSUME CarefulInv, ExpireTop
  PROVE  /\ \E a \in Range(db) :
              /\ heap_idx[a] # NoIdx /\ heap_idx[a] = 1 /\ heap[heap_idx[a]].val < now_us
              /\ Range(db') = Range(db) \ {a}
              /\ \A b \in Range(db') : ent'[b] = ent[b]
              /\ SameTimers(heap, heap_idx, [heap |-> heap', idx |-> heap_idx'], Addr \ {a})
         /\ UNCHANGED now /\ pc' \in {"io", "timers"}
         /\ NoFault' /\ UniqueKeys' /\ TimersMatch'
<1> USE DEF CarefulInv, Inv
<1> DEFINE a == heap[1].ref
           u == RemoveTimer(heap, heap_idx, a)
<1>1. heap # <<>> /\ heap[1].val < now_us /\ pc = "timers"
  BY DEF ExpireTop, TopIsDue, Running
<1>2. 1 \in 1..Len(heap) /\ a \in Addr /\ heap_idx[a] = 1
  <2>1. heap \in Seq(HeapItem) /\ 1 \in 1..Len(heap)
    BY <1>1, EmptySeq DEF TypeOK
  <2>2. heap[1] \in HeapItem
    BY <2>1
  <2> QED
    BY <2>1, <2>2 DEF HeapItem, TimersMatch, ItemHasIdx
<1>3. heap_idx[a] # NoIdx /\ a \in Range(db) /\ ent[a] # None
  BY <1>2, TableLive DEF NoIdx, TimersMatch
<1>4. ~Missing(ent[a].key) /\ \A i \in Lookups(ent[a].key) : i \in 1..Len(db) /\ db[i] = a
  BY <1>3, KeyFound
<1>5. /\ ~WritesFreed(u)
      /\ FindsOwn(u.heap, u.idx, Addr) /\ ItemHasIdx(u.heap, u.idx)
      /\ SameTimers(heap, heap_idx, u, Addr \ {a})
      /\ u.idx[a] = NoIdx
  BY <1>3, HeapTracks
<1>6. PICK i \in Lookups(ent[a].key) :
        /\ db' = RemoveAt(db, i)
        /\ heap' = u.heap
        /\ heap_idx' = u.idx
        /\ entry_del(a)
        /\ IF WorkLimitReached THEN LeaveTimers
           ELSE nworks' = nworks + 1 /\ UNCHANGED <<pc, now_us, clock>>
        /\ UNCHANGED <<busy, status>>
  BY <1>3, <1>4, <1>5 DEF ExpireTop, Asserted
<1> HIDE DEF a, u
<1>7. i \in 1..Len(db) /\ db[i] = a
  BY <1>4
<1>8. /\ Range(db') = Range(db) \ {a}
      /\ \A b \in Range(db') : ent'[b] = ent[b]
      /\ UniqueKeys'
  BY <1>6, <1>7, DetachStep
<1>9. TimersMatch'
  BY <1>5, <1>6, <1>8 DEF TimersMatch, SameTimers
<1>10. NoFault' /\ UNCHANGED now /\ pc' \in {"io", "timers"}
  BY <1>1, <1>6 DEF NoFault, LeaveTimers, clock
<1>11. SameTimers(heap, heap_idx, [heap |-> heap', idx |-> heap_idx'], Addr \ {a})
  BY <1>5, <1>6 DEF SameTimers
<1> QED
  BY <1>1, <1>2, <1>3, <1>8, <1>9, <1>10, <1>11

(* The steps that leave the table and the timers alone. *)
LEMMA TableUnchanged ==
  ASSUME CarefulInv, UNCHANGED <<db, heap, heap_idx, status>>,
         \A a \in Range(db) : ent'[a] = ent[a]
  PROVE  NoFault' /\ UniqueKeys' /\ TimersMatch'
<1>1. NoFault' /\ TimersMatch'
  BY DEF CarefulInv, NoFault, TimersMatch
<1>2. UniqueKeys'
  BY DEF CarefulInv, UniqueKeys
<1> QED
  BY <1>1, <1>2

(* A worker frees an entry that is not in the table.                       *)
LEMMA DestructorKeepsTable ==
  ASSUME Inv, NEW w \in Worker, threaded_zset_destructor(w)
  PROVE  \A a \in Range(db) : ent'[a] = ent[a]
<1>1. busy[w] \in InWork
  BY DEF threaded_zset_destructor, InWork
<1>2. \A a \in Range(db) : a \in Addr /\ a # busy[w]
  BY <1>1, TableLive DEF Inv, Ownership
<1> QED
  BY <1>2 DEF threaded_zset_destructor, Inv, TypeOK

(* DEL takes the one entry that has the key out of the table; a careful    *)
(* client deletes no key with a deadline, so no item is left behind.       *)
LEMMA DelStep ==
  ASSUME Polite, CarefulInv, NEW k \in Key, Del(k)
  PROVE  /\ \E a \in Range(db) : /\ ent[a].key = k
                                /\ Range(db') = Range(db) \ {a}
         /\ \A b \in Range(db') : ent'[b] = ent[b]
         /\ UNCHANGED <<heap, heap_idx, status, pc, now>>
         /\ UniqueKeys' /\ NoFault' /\ TimersMatch'
<1> USE DEF CarefulInv, Inv
<1>1. PICK i \in Lookups(k) :
        /\ heap_idx[db[i]] = NoIdx
        /\ db' = RemoveAt(db, i)
        /\ entry_del(db[i])
  BY DEF Del, Careful
<1>2. i \in 1..Len(db) /\ ent[db[i]].key = k
  BY LookupsAreMatches DEF Matches
<1>3. /\ db[i] \in Range(db) /\ Range(db') = Range(db) \ {db[i]}
      /\ \A b \in Range(db') : ent'[b] = ent[b]
      /\ UniqueKeys'
  BY <1>1, <1>2, DetachStep
<1>4. UNCHANGED <<heap, heap_idx, status, pc, now>>
  BY DEF Del, clock
<1>5. NoFault' /\ TimersMatch'
  BY <1>1, <1>3, <1>4 DEF NoFault, TimersMatch
<1> QED
  BY <1>2, <1>3, <1>4, <1>5

(* The clock only moves on, and process_timers reads it when it starts.    *)
LEMMA ReadEarlierStep ==
  ASSUME TypeOK, ReadEarlier, [Next]_vars
  PROVE  ReadEarlier'
<1>1. now \in Nat /\ now_us \in Nat
  BY KeyspaceAssumption DEF TypeOK
<1>2. /\ now' = now \/ now' = now + 1
      /\ now_us' = now_us \/ (now_us' = now /\ now' = now) \/ now_us' = 0
  <2>1. ASSUME NEW k \in Key, Set(k) \/ Del(k) \/ \E isNumber \in BOOLEAN : Zadd(k, isNumber)
        PROVE  UNCHANGED <<now, now_us>>
    BY <2>1 DEF Set, Del, Zadd, Crash, clock
  <2>2. ASSUME NEW k \in Key, NEW ttl \in TTL, Expire(k, ttl)
        PROVE  UNCHANGED <<now, now_us>>
    BY <2>2 DEF Expire, Crash, clock
  <2>3. CASE ExpireTop
    BY <2>3 DEF ExpireTop, LeaveTimers, Crash, clock
  <2>4. CASE StartTimers \/ EndTimers \/ Tick \/ UNCHANGED vars
    BY <2>4 DEF StartTimers, EndTimers, LeaveTimers, Tick, vars, clock
  <2>5. ASSUME NEW w \in Worker, Take(w) \/ threaded_zset_destructor(w)
        PROVE  UNCHANGED <<now, now_us>>
    BY <2>5 DEF Take, threaded_zset_destructor, clock
  <2>6. CASE OtherEnd
    BY <2>6, OtherEndIsCrash DEF clock
  <2> QED
    BY <2>1, <2>2, <2>3, <2>4, <2>5, <2>6 DEF Next, OtherEnd
<1> QED
  BY <1>1, <1>2 DEF ReadEarlier

(* Careful clients take no step that throws or uses a string as a set.     *)
LEMMA CarefulStep ==
  ASSUME Polite, CarefulInv, [Next]_vars
  PROVE  CarefulInv'
<1>1. Inv'
  BY InvStep DEF CarefulInv
<1> SUFFICES NoFault' /\ UniqueKeys' /\ TimersMatch'
  BY <1>1, ReadEarlierStep DEF CarefulInv, Inv
<1>2. ASSUME NEW k \in Key, Set(k)
      PROVE  NoFault' /\ UniqueKeys' /\ TimersMatch'
  BY <1>2, InsertStep DEF Set, Careful
<1>3. ASSUME NEW k \in Key, Del(k)
      PROVE  NoFault' /\ UniqueKeys' /\ TimersMatch'
  BY <1>3, DelStep
<1>4. ASSUME NEW k \in Key, NEW isNumber \in BOOLEAN, Zadd(k, isNumber)
      PROVE  NoFault' /\ UniqueKeys' /\ TimersMatch'
  BY <1>4, InsertStep DEF Zadd, Careful
<1>5. ASSUME NEW k \in Key, NEW ttl \in TTL, Expire(k, ttl)
      PROVE  NoFault' /\ UniqueKeys' /\ TimersMatch'
  BY <1>5, ExpireStep
<1>6. CASE ExpireTop
  BY <1>6, ExpireTopStep
<1>7. CASE UNCHANGED <<memory, status>>
  BY <1>7, TableUnchanged DEF memory
<1>8. ASSUME NEW w \in Worker, Take(w)
      PROVE  NoFault' /\ UniqueKeys' /\ TimersMatch'
  BY <1>8, TableUnchanged DEF Take
<1>9. ASSUME NEW w \in Worker, threaded_zset_destructor(w)
      PROVE  NoFault' /\ UniqueKeys' /\ TimersMatch'
  <2>1. \A a \in Range(db) : ent'[a] = ent[a]
    BY <1>9, DestructorKeepsTable DEF CarefulInv
  <2> QED
    BY <1>9, <2>1, TableUnchanged DEF threaded_zset_destructor
<1>10. ~OtherEnd
  BY OtherEndIsCrash
<1> QED
  BY <1>2, <1>3, <1>4, <1>5, <1>6, <1>7, <1>8, <1>9, <1>10
  DEF Next, OtherEnd, StartTimers, EndTimers, Tick, vars

LEMMA CarefulInit == Init => CarefulInv
<1>1. ASSUME Init
      PROVE  NoFault /\ UniqueKeys /\ TimersMatch
  <2>1. Range(db) = {} /\ Len(heap) = 0
    BY <1>1 DEF Init, Range
  <2>2. NoFault /\ UniqueKeys
    BY <1>1, <2>1 DEF Init, NoFault, UniqueKeys
  <2>3. TimersMatch
    BY <1>1, <2>1 DEF Init, TimersMatch, FindsOwn, ItemHasIdx
  <2> QED
    BY <2>2, <2>3
<1>2. Init => ReadEarlier
  BY DEF Init, ReadEarlier
<1> QED
  BY <1>1, <1>2, InvInit DEF CarefulInv

LEMMA CarefulInvariance == ASSUME Polite PROVE Spec => []CarefulInv
BY CarefulInit, CarefulStep, PTL DEF Spec
-----------------------------------------------------------------------------
(* Clients that never SET an existing key, never DEL one that has a        *)
(* deadline and ZADD numbers to sorted sets only are safe: the assertion   *)
(* of process_timers holds and no freed Entry is touched, whatever expires *)
(* and however the pool runs.                                              *)
THEOREM CarefulNeverFault == ASSUME Polite PROVE Spec => []NoFault
<1>1. CarefulInv => NoFault
  BY DEF CarefulInv
<1> QED
  BY <1>1, CarefulInvariance, PTL

(* For such clients every item of the heap belongs to a key of the table   *)
(* and to no other: the expiry loop, EXPIRE and TTL find the right one.    *)
THEOREM NoTimerOutlivesKey == ASSUME Polite PROVE Spec => []TimersOwned
<1>1. CarefulInv => TimersOwned
  <2> SUFFICES ASSUME CarefulInv
               PROVE  TimersOwned
    OBVIOUS
  <2>1. \A i \in 1..Len(heap) : heap[i].ref \in Addr /\ heap_idx[heap[i].ref] = i
    <3>1. \A i \in 1..Len(heap) : heap[i] \in HeapItem
      BY DEF CarefulInv, Inv, TypeOK
    <3> QED
      BY <3>1 DEF HeapItem, CarefulInv, TimersMatch, ItemHasIdx
  <2>2. \A i \in 1..Len(heap) : heap[i].ref \in Range(db)
    BY <2>1 DEF NoIdx, CarefulInv, TimersMatch
  <2>3. \A a \in Range(db) : heap_idx[a] # NoIdx => heap_idx[a] \in 1..Len(heap)
    BY TableLive DEF CarefulInv, Inv, TimersMatch, FindsOwn
  <2> QED
    BY <2>1, <2>2, <2>3 DEF TimersOwned
<1> QED
  BY <1>1, CarefulInvariance, PTL
-----------------------------------------------------------------------------
(* Deadlines are 64 bit milliseconds: this EXPIRE does not overflow.       *)
NoWrap == \A ttl \in TTL : MaxNow + ttl < ClockMod

(* The bindings of the abstract store, read off the entries of the table.  *)
BindingsAre ==
  \A k \in Key :
    /\ (\A a \in Range(db) : ent[a].key # k) => Binding(k) = None
    /\ \A a \in Range(db) : ent[a].key = k =>
         Binding(k) = [type |-> ent[a].type, deadline |-> Deadline(a)]

(* With unique keys a binding is that of the one entry that has the key.   *)
LEMMA Bindings == TypeOK /\ UniqueKeys => BindingsAre
<1> SUFFICES ASSUME TypeOK, UniqueKeys, NEW k \in Key
             PROVE  /\ (\A a \in Range(db) : ent[a].key # k) => Binding(k) = None
                    /\ \A a \in Range(db) : ent[a].key = k =>
                         Binding(k) = [type |-> ent[a].type, deadline |-> Deadline(a)]
  BY DEF BindingsAre
<1>1. (\A a \in Range(db) : ent[a].key # k) => Binding(k) = None
  BY KeyMissing DEF Binding
<1>2. ASSUME NEW a \in Range(db), ent[a].key = k
      PROVE  Binding(k) = [type |-> ent[a].type, deadline |-> Deadline(a)]
  <2>1. ~Missing(k)
    BY <1>2, KeyFound
  <2>2. Matches(k) \in SUBSET Nat /\ Matches(k) # {}
    BY <2>1 DEF Matches, Missing, TypeOK
  <2>3. Min(Matches(k)) \in Matches(k)
    BY <2>2, MinIn
  <2>4. db[Min(Matches(k))] \in Range(db) /\ ent[db[Min(Matches(k))]].key = k
    <3> DEFINE i == Min(Matches(k))
    <3>1. i \in Matches(k)
      BY <2>3
    <3> HIDE DEF i
    <3>2. i \in 1..Len(db) /\ ent[db[i]].key = k
      BY <3>1 DEF Matches
    <3>3. db[i] \in Range(db)
      BY <3>2 DEF Range, TypeOK
    <3> QED
      BY <3>2, <3>3 DEF i
  <2>5. db[Min(Matches(k))] = a
    BY <1>2, <2>4 DEF UniqueKeys
  <2> QED
    BY <2>1, <2>5 DEF Binding
<1> QED
  BY <1>1, <1>2

(* Deadlines are numbers. *)
LEMMA ItemTime ==
  ASSUME TypeOK, NEW i \in 1..Len(heap)
  PROVE  heap[i].val \in Nat
<1>1. heap[i] \in HeapItem
  BY DEF TypeOK
<1> QED
  BY <1>1 DEF HeapItem

(* The abstract store has every key of the table.                          *)
LEMMA BindingIsSome ==
  ASSUME CarefulInv, BindingsAre, NEW a \in Range(db)
  PROVE  Binding(ent[a].key) # None
<1>1. a \in Addr /\ ent[a] \in Entry
  BY TableLive DEF CarefulInv, Inv
<1>2. Deadline(a) \in Nat \cup {None}
  <2>1. ASSUME heap_idx[a] # NoIdx
        PROVE  heap[heap_idx[a]].val \in Nat
    <3>1. heap_idx[a] \in 1..Len(heap)
      BY <1>1, <2>1 DEF CarefulInv, TimersMatch, FindsOwn
    <3> QED
      BY <3>1, ItemTime DEF CarefulInv, Inv
  <2> QED
    BY <2>1 DEF Deadline
<1>3. Binding(ent[a].key) = [type |-> ent[a].type, deadline |-> Deadline(a)]
  BY <1>1 DEF Entry, BindingsAre
<1>4. Binding(ent[a].key) \in [type : {"string", "zset"}, deadline : Nat \cup {None}]
  BY <1>1, <1>2, <1>3 DEF Entry
<1> QED
  BY <1>4, KeyspaceAssumption

(* What a sift keeps, in the terms of the abstract store.                  *)
LEMMA DeadlineKept ==
  ASSUME NEW L, SameTimers(heap, heap_idx, [heap |-> heap', idx |-> heap_idx'], L), NEW b \in L
  PROVE  Deadline(b)' = Deadline(b)
BY DEF SameTimers, Deadline

(* A key keeps its binding when its entry, and its deadline, stay.         *)
LEMMA BindingKept ==
  ASSUME BindingsAre, BindingsAre', NEW k \in Key,
         \A b : b \in Range(db) /\ ent[b].key = k <=> b \in Range(db') /\ ent'[b].key = k,
         \A b \in Range(db') : ent'[b].key = k => ent'[b] = ent[b] /\ Deadline(b)' = Deadline(b)
  PROVE  Binding(k)' = Binding(k)
<1>1. CASE \A b \in Range(db) : ent[b].key # k
  <2>1. Binding(k) = None
    BY <1>1 DEF BindingsAre
  <2>2. \A b \in Range(db') : ent'[b].key # k
    BY <1>1
  <2>3. Binding(k)' = None
    BY <2>2 DEF BindingsAre
  <2> QED
    BY <2>1, <2>3
<1>2. ASSUME NEW b \in Range(db), ent[b].key = k
      PROVE  Binding(k)' = Binding(k)
  <2>1. Binding(k) = [type |-> ent[b].type, deadline |-> Deadline(b)]
    BY <1>2 DEF BindingsAre
  <2>2. b \in Range(db') /\ ent'[b].key = k
    BY <1>2
  <2>3. Binding(k)' = [type |-> ent'[b].type, deadline |-> Deadline(b)']
    BY <2>2 DEF BindingsAre
  <2> QED
    BY <2>1, <2>2, <2>3
<1> QED
  BY <1>1, <1>2

(* One key's binding changes. *)
LEMMA OthersKept ==
  ASSUME NEW k \in Key, NEW v, Binding(k)' = v, \A j \in Key \ {k} : Binding(j)' = Binding(j)
  PROVE  [j \in Key |-> Binding(j)]' = [[j \in Key |-> Binding(j)] EXCEPT ![k] = v]
OBVIOUS

(* SET or ZADD of a new key is Insert.                                     *)
LEMMA InsertRefines ==
  ASSUME CarefulInv, BindingsAre, BindingsAre', NEW k \in Key, NEW type \in {"string", "zset"},
         Missing(k), NewEntry(k, type), pc = "io", UNCHANGED <<heap, status, pc, now>>
  PROVE  Store!Insert(k, type)
<1> USE DEF CarefulInv, Inv
<1>1. PICK a \in Addr :
        /\ a \notin Range(db) /\ Range(db') = Range(db) \cup {a}
        /\ ent' = [ent EXCEPT ![a] = [key |-> k, type |-> type]]
        /\ heap_idx[a] = NoIdx
  BY InsertStep
<1>2. heap_idx' = heap_idx
  BY InsertStep
<1>3. ent'[a] = [key |-> k, type |-> type] /\ \A b \in Range(db) : b # a /\ ent'[b] = ent[b]
  BY <1>1, TableLive DEF TypeOK
<1>4. \A b \in Range(db) : ent[b].key # k
  BY KeyMissing
<1>5. Binding(k) = None
  BY <1>4 DEF BindingsAre
<1>6. Binding(k)' = [type |-> type, deadline |-> None]
  <2>1. Deadline(a)' = None
    BY <1>1, <1>2 DEF Deadline
  <2>2. a \in Range(db') /\ ent'[a].key = k /\ ent'[a].type = type
    BY <1>1, <1>3
  <2> QED
    BY <2>1, <2>2 DEF BindingsAre
<1>7. ASSUME NEW j \in Key \ {k}
      PROVE  Binding(j)' = Binding(j)
  <2>1. \A b : Deadline(b)' = Deadline(b)
    BY <1>2 DEF Deadline
  <2>2. \A b : b \in Range(db) /\ ent[b].key = j <=> b \in Range(db') /\ ent'[b].key = j
    BY <1>1, <1>3
  <2>3. \A b \in Range(db') : ent'[b].key = j => ent'[b] = ent[b]
    BY <1>1, <1>3
  <2> QED
    BY <2>1, <2>2, <2>3, BindingKept
<1>8. [j \in Key |-> Binding(j)]'
        = [[j \in Key |-> Binding(j)] EXCEPT ![k] = [type |-> type, deadline |-> None]]
  BY <1>6, <1>7, OthersKept
<1> QED
  BY <1>5, <1>8 DEF Store!Insert

(* DEL is Delete. *)
LEMMA DeleteRefines ==
  ASSUME Polite, CarefulInv, BindingsAre, BindingsAre', NEW k \in Key, Del(k)
  PROVE  Store!Delete(k)
<1>1. PICK a \in Range(db) : ent[a].key = k /\ Range(db') = Range(db) \ {a}
  BY DelStep
<1>2. /\ \A b \in Range(db') : ent'[b] = ent[b]
      /\ UNCHANGED <<heap, heap_idx, pc, now>>
  BY DelStep
<1>3. \A b \in Range(db) : ent[b].key = k => b = a
  BY <1>1 DEF CarefulInv, UniqueKeys
<1>4. Binding(k) # None
  BY <1>1, BindingIsSome
<1>5. Binding(k)' = None
  <2>1. \A b \in Range(db') : ent'[b].key # k
    BY <1>1, <1>2, <1>3
  <2> QED
    BY <2>1 DEF BindingsAre
<1>6. ASSUME NEW j \in Key \ {k}
      PROVE  Binding(j)' = Binding(j)
  <2>1. \A b : Deadline(b)' = Deadline(b)
    BY <1>2 DEF Deadline
  <2> QED
    BY <1>1, <1>2, <2>1, BindingKept
<1>7. [j \in Key |-> Binding(j)]' = [[j \in Key |-> Binding(j)] EXCEPT ![k] = None]
  BY <1>5, <1>6, OthersKept
<1>8. pc = "io"
  BY DEF Del, Running
<1> QED
  BY <1>2, <1>4, <1>7, <1>8 DEF Store!Delete

(* EXPIRE is SetDeadline: the deadline is not before now, or none.         *)
LEMMA ExpireRefines ==
  ASSUME NoWrap, CarefulInv, BindingsAre, BindingsAre',
         NEW k \in Key, NEW ttl \in TTL, Expire(k, ttl)
  PROVE  \E d \in (0..ClockMod - 1) \cup {None} : Store!SetDeadline(k, d)
<1> DEFINE later == [heap |-> heap', idx |-> heap_idx']
           due == (now + ttl) % ClockMod
           d == IF ttl < 0 THEN None ELSE due
<1>1. PICK a \in Range(db) :
        /\ ent[a].key = k
        /\ SameTimers(heap, heap_idx, later, Addr \ {a})
        /\ ttl < 0 => heap_idx'[a] = NoIdx
        /\ ~(ttl < 0) => TimerIs(later, a, due)
  BY ExpireStep
<1>2. UNCHANGED <<ent, db, pc, now>>
  BY ExpireStep
<1>3. d \in (0..ClockMod - 1) \cup {None} /\ (d = None \/ d >= now)
  <2>1. ttl \in Int /\ now \in Nat /\ ClockMod \in Nat /\ now <= MaxNow /\ MaxNow \in Nat
    BY KeyspaceAssumption DEF TypeOK, CarefulInv, Inv
  <2>2. MaxNow + ttl < ClockMod
    BY DEF NoWrap
  <2>3. ~(ttl < 0) => now + ttl \in 0..ClockMod - 1 /\ now + ttl >= now
    BY <2>1, <2>2
  <2>4. \A x \in 0..ClockMod - 1 : x % ClockMod = x
    BY <2>1
  <2>5. ~(ttl < 0) => due = now + ttl
    BY <2>3, <2>4
  <2> QED
    BY <2>3, <2>5
<1>4. Deadline(a)' = d
  BY <1>1 DEF Deadline, TimerIs
<1> HIDE DEF d, due
<1>5. Binding(k) # None /\ Binding(k) = [type |-> ent[a].type, deadline |-> Deadline(a)]
  BY <1>1, BindingIsSome DEF BindingsAre
<1>6. Binding(k)' = [Binding(k) EXCEPT !.deadline = d]
  <2>1. a \in Range(db') /\ ent'[a].key = k /\ ent'[a].type = ent[a].type
    BY <1>1, <1>2
  <2>2. Binding(k)' = [type |-> ent[a].type, deadline |-> d]
    BY <2>1, <1>4 DEF BindingsAre
  <2> QED
    BY <1>5, <2>2
<1>7. ASSUME NEW j \in Key \ {k}
      PROVE  Binding(j)' = Binding(j)
  <2>1. \A b \in Range(db) : ent[b].key = j => Deadline(b)' = Deadline(b)
    BY <1>1, TableLive, DeadlineKept DEF CarefulInv, Inv
  <2> QED
    BY <1>2, <2>1, BindingKept
<1>8. [j \in Key |-> Binding(j)]'
        = [[j \in Key |-> Binding(j)] EXCEPT ![k] = [Binding(k) EXCEPT !.deadline = d]]
  BY <1>6, <1>7, OthersKept
<1>9. [j \in Key |-> Binding(j)]' = [[j \in Key |-> Binding(j)] EXCEPT ![k].deadline = d]
  BY <1>8
<1>10. pc = "io"
  BY DEF Expire, Running
<1>11. Store!SetDeadline(k, d)
  BY <1>2, <1>3, <1>5, <1>9, <1>10 DEF Store!SetDeadline
<1> QED
  BY <1>3, <1>11

(* An iteration of the expiry loop is Evict: the deadline has passed.      *)
LEMMA EvictRefines ==
  ASSUME CarefulInv, BindingsAre, BindingsAre', ExpireTop
  PROVE  \E k \in Key : Store!Evict(k) /\ Binding(k).deadline = heap[1].val
<1>1. PICK a \in Range(db) :
        /\ heap_idx[a] # NoIdx /\ heap_idx[a] = 1 /\ heap[heap_idx[a]].val < now_us
        /\ Range(db') = Range(db) \ {a}
        /\ \A b \in Range(db') : ent'[b] = ent[b]
        /\ SameTimers(heap, heap_idx, [heap |-> heap', idx |-> heap_idx'], Addr \ {a})
  BY ExpireTopStep
<1>2. UNCHANGED now /\ pc' \in {"io", "timers"} /\ pc = "timers"
  BY ExpireTopStep DEF ExpireTop, Running
<1>3. a \in Addr /\ ent[a].key \in Key
  BY TableLive DEF Entry, CarefulInv, Inv
<1>4. PICK k \in Key : k = ent[a].key
  BY <1>3
<1>5. \A b \in Range(db) : ent[b].key = k => b = a
  BY <1>1, <1>4 DEF CarefulInv, UniqueKeys
<1>6. Binding(k) # None /\ Binding(k).deadline # None /\ Binding(k).deadline < now
  <2>1. Binding(k) = [type |-> ent[a].type, deadline |-> heap[heap_idx[a]].val]
    BY <1>1, <1>4 DEF BindingsAre, Deadline
  <2>2. heap_idx[a] \in 1..Len(heap)
    BY <1>1, <1>3 DEF CarefulInv, TimersMatch, FindsOwn
  <2>3. heap[heap_idx[a]].val \in Nat
    BY <2>2, ItemTime DEF CarefulInv, Inv
  <2>4. heap[heap_idx[a]].val < now
    BY <1>1, <2>3, KeyspaceAssumption DEF CarefulInv, Inv, TypeOK, ReadEarlier
  <2> QED
    BY <1>1, <1>4, <2>1, <2>3, <2>4, BindingIsSome, KeyspaceAssumption
<1>7. Binding(k)' = None
  <2>1. \A b \in Range(db') : ent'[b].key # k
    BY <1>1, <1>5
  <2> QED
    BY <2>1 DEF BindingsAre
<1>8. ASSUME NEW j \in Key \ {k}
      PROVE  Binding(j)' = Binding(j)
  <2>1. \A b \in Range(db') : Deadline(b)' = Deadline(b)
    BY <1>1, TableLive, DeadlineKept DEF CarefulInv, Inv
  <2>2. \A b \in Range(db) : ent[b].key = j => b # a
    BY <1>8, <1>4
  <2> QED
    BY <1>1, <2>1, <2>2, BindingKept
<1>9. [j \in Key |-> Binding(j)]' = [[j \in Key |-> Binding(j)] EXCEPT ![k] = None]
  BY <1>7, <1>8, OthersKept
<1>10. Store!Evict(k)
  BY <1>2, <1>6, <1>9 DEF Store!Evict
<1>11. Binding(k).deadline = heap[1].val
  <2>1. Binding(k) = [type |-> ent[a].type, deadline |-> heap[1].val]
    BY <1>1, <1>4 DEF BindingsAre, Deadline
  <2> QED
    BY <2>1
<1> QED
  BY <1>10, <1>11

(* Workers and the clock change no binding.                                *)
LEMMA SameBindings ==
  ASSUME BindingsAre, BindingsAre', UNCHANGED <<db, heap, heap_idx>>,
         \A a \in Range(db) : ent'[a] = ent[a]
  PROVE  [k \in Key |-> Binding(k)]' = [k \in Key |-> Binding(k)]
<1>1. \A b : Deadline(b)' = Deadline(b)
  BY DEF Deadline
<1>2. \A k \in Key : Binding(k)' = Binding(k)
  BY <1>1, BindingKept
<1> QED
  BY <1>2

LEMMA StoreInit == Init => Store!Init
<1> SUFFICES ASSUME Init
             PROVE  Store!Init
  OBVIOUS
<1>1. BindingsAre /\ Range(db) = {}
  <2>1. CarefulInv
    BY CarefulInit
  <2>2. db = <<>>
    BY DEF Init
  <2> QED
    BY <2>1, <2>2, Bindings DEF CarefulInv, Inv, Range
<1>2. \A k \in Key : Binding(k) = None
  BY <1>1 DEF BindingsAre
<1> QED
  BY <1>2 DEF Init, Store!Init

(* One case for each action.  *)
LEMMA StoreStep ==
  ASSUME Polite, NoWrap, CarefulInv, BindingsAre, BindingsAre', [Next]_vars
  PROVE  [Store!Next]_(Store!vars)
<1> DEFINE kv == [k \in Key |-> Binding(k)]
<1>1. ASSUME NEW k \in Key, NEW type \in {"string", "zset"}, Store!Insert(k, type)
      PROVE  Store!Next
  BY <1>1 DEF Store!Next
<1>2. ASSUME NEW k \in Key, Set(k)
      PROVE  Store!Next
  <2>1. Store!Insert(k, "string")
    BY <1>2, InsertRefines DEF Set, Careful, Running, clock
  <2> QED
    BY <2>1, <1>1
<1>3. ASSUME NEW k \in Key, NEW isNumber \in BOOLEAN, Zadd(k, isNumber)
      PROVE  Store!Next
  <2>1. Store!Insert(k, "zset")
    BY <1>3, InsertRefines DEF Zadd, Careful, Running, clock
  <2> QED
    BY <2>1, <1>1
<1>4. ASSUME NEW k \in Key, Del(k)
      PROVE  Store!Next
  BY <1>4, DeleteRefines DEF Store!Next
<1>5. ASSUME NEW k \in Key, NEW ttl \in TTL, Expire(k, ttl)
      PROVE  Store!Next
  BY <1>5, ExpireRefines DEF Store!Next
<1>6. ASSUME ExpireTop
      PROVE  Store!Next
  BY <1>6, EvictRefines DEF Store!Next
<1>7. UNCHANGED memory => UNCHANGED kv
  BY SameBindings DEF memory
<1>8. ASSUME StartTimers \/ EndTimers
      PROVE  Store!Switch
  BY <1>7, <1>8 DEF StartTimers, EndTimers, LeaveTimers, Running, clock, Store!Switch
<1>9. ASSUME Tick
      PROVE  Store!Advance
  BY <1>7, <1>9 DEF Tick, Store!Advance
<1>10. ASSUME NEW w \in Worker, Take(w)
       PROVE  UNCHANGED Store!vars
  BY <1>10, SameBindings DEF Take, clock, Store!vars
<1>11. ASSUME NEW w \in Worker, threaded_zset_destructor(w)
       PROVE  UNCHANGED Store!vars
  <2>1. \A a \in Range(db) : ent'[a] = ent[a]
    BY <1>11, DestructorKeepsTable DEF CarefulInv
  <2> QED
    BY <1>11, <2>1, SameBindings DEF threaded_zset_destructor, clock, Store!vars
<1>12. ASSUME UNCHANGED vars
       PROVE  UNCHANGED Store!vars
  BY <1>7, <1>12 DEF vars, clock, Store!vars
<1>13. ~OtherEnd
  BY OtherEndIsCrash
<1> QED
  BY <1>2, <1>3, <1>4, <1>5, <1>6, <1>8, <1>9, <1>10, <1>11, <1>12, <1>13
  DEF Next, OtherEnd, Store!Next

(* For careful clients the table, the heap, the expiry loop and the pool   *)
(* together are a store with one binding per key: a key goes away by DEL   *)
(* or after a deadline it was given, and only EXPIRE sets deadlines.       *)
THEOREM ImplementsStoreForCareful ==
  ASSUME Polite, NoWrap
  PROVE  Spec => ImplementsStore
<1>1. Init => Store!Init
  BY StoreInit
<1>2. CarefulInv => BindingsAre
  BY Bindings DEF CarefulInv, Inv
<1>3. CarefulInv /\ BindingsAre /\ BindingsAre' /\ [Next]_vars => [Store!Next]_(Store!vars)
  BY StoreStep
<1> QED
  BY <1>1, <1>2, <1>3, CarefulInvariance, PTL DEF Spec, ImplementsStore, Store!Spec
-----------------------------------------------------------------------------
(* How late a key may be served.  Rounds(n) is how many passes of          *)
(* process_timers remove n keys.                                           *)
Rounds(n) == (n + k_max_works) \div (k_max_works + 1)

LEMMA Quotient ==
  ASSUME NEW x \in Nat, NEW c \in Nat \ {0}, NEW f \in Nat
  PROVE  x \div c > f <=> x >= (f + 1) * c
OBVIOUS

LEMMA RoundsAre ==
  /\ \A n \in Nat : /\ Rounds(n) \in Nat /\ (n >= 1 => Rounds(n) >= 1)
                    /\ (n >= 1 => Rounds(n + k_max_works) = Rounds(n - 1) + 1)
  /\ \A a, b \in Nat : a <= b => Rounds(a) <= Rounds(b)
<1> PICK c : c = k_max_works + 1
  OBVIOUS
<1>1. k_max_works \in Nat /\ c \in Nat \ {0}
  BY KeyspaceAssumption
<1>2. \A x \in Nat : x \div c \in Nat
  BY <1>1
<1>3. ASSUME NEW x \in Nat, NEW y \in Nat, x <= y
      PROVE  x \div c <= y \div c
  <2> PICK q : q = x \div c
    OBVIOUS
  <2>1. q \in Nat /\ y \div c \in Nat
    BY <1>2
  <2>2. CASE q = 0
    BY <2>1, <2>2
  <2>3. CASE q # 0
    <3> PICK f \in Nat : q = f + 1
      BY <2>1, <2>3
    <3>1. x \div c > f
      BY <2>1
    <3>2. x >= (f + 1) * c
      BY <3>1, <1>1, Quotient
    <3>3. y >= (f + 1) * c
      <4> PICK z : z = (f + 1) * c
        OBVIOUS
      <4>1. z \in Nat
        BY <1>1
      <4> QED
        BY <3>2, <4>1, <1>3
    <3>4. y \div c > f
      BY <3>3, <1>1, Quotient
    <3> QED
      BY <3>4, <2>1
  <2> QED
    BY <2>2, <2>3
<1>4. ASSUME NEW x \in Nat, x >= c
      PROVE  x \div c >= 1
  <2>1. x >= (0 + 1) * c
    BY <1>1, <1>4
  <2>2. x \div c > 0
    BY <2>1, <1>1, Quotient
  <2> QED
    BY <2>2, <1>2
<1>5. \A x \in Nat : (x + c) \div c = (x \div c) + 1
  BY <1>1
<1>6. \A n : Rounds(n) = (n + k_max_works) \div c
  BY DEF Rounds
<1>7. ASSUME NEW n \in Nat
      PROVE  /\ Rounds(n) \in Nat /\ (n >= 1 => Rounds(n) >= 1)
             /\ (n >= 1 => Rounds(n + k_max_works) = Rounds(n - 1) + 1)
  <2>1. Rounds(n) \in Nat
    BY <1>1, <1>2, <1>6
  <2>2. ASSUME n >= 1
        PROVE  Rounds(n) >= 1
    <3>1. n + k_max_works \in Nat /\ n + k_max_works >= c
      BY <1>1, <2>2
    <3> QED
      BY <3>1, <1>4, <1>6
  <2>3. ASSUME n >= 1
        PROVE  Rounds(n + k_max_works) = Rounds(n - 1) + 1
    <3>1. /\ (n - 1) + k_max_works \in Nat
          /\ (n + k_max_works) + k_max_works = ((n - 1) + k_max_works) + c
      BY <1>1, <2>3
    <3>2. (((n - 1) + k_max_works) + c) \div c = (((n - 1) + k_max_works) \div c) + 1
      BY <3>1, <1>5
    <3> QED
      BY <3>1, <3>2, <1>6
  <2> QED
    BY <2>1, <2>2, <2>3
<1>8. ASSUME NEW a \in Nat, NEW b \in Nat, a <= b
      PROVE  Rounds(a) <= Rounds(b)
  <2>1. a + k_max_works \in Nat /\ b + k_max_works \in Nat /\ a + k_max_works <= b + k_max_works
    BY <1>1, <1>8
  <2> QED
    BY <2>1, <1>3, <1>6
<1> QED
  BY <1>7, <1>8

(* The keys with a deadline, and those with one no later than d. *)
When(k) == Binding(k).deadline
Timed(k) == Binding(k) # None /\ When(k) # None
DueBy(d) == {k \in Key : Timed(k) /\ When(k) <= d}

(* What is left of the wait. *)
Spent == IF pc = "io" THEN wait ELSE 0

(* A key that is late is so by one wait for each pass there has been since *)
(* its deadline, and each has removed as many keys as it may, all of them  *)
(* due before it.                                                          *)
OnPace(d, n) == now + Spent + EmptyWait * (Rounds(n + nworks) - 1) <= d + EmptyWait * Passes
Pace == \A k \in Key : Timed(k) /\ When(k) < now => OnPace(When(k), Cardinality(DueBy(When(k))))

(* The clock stands still during a pass. *)
PassBegun == IF pc = "io" THEN nworks = 0 ELSE now_us = now

LEMMA TimedIs ==
  ASSUME CarefulInv, BindingsAre, NEW k \in Key, Timed(k)
  PROVE  /\ When(k) \in Nat /\ heap # <<>> /\ heap[1].val \in Nat
         /\ heap[1].val <= When(k)
<1>1. PICK a \in Range(db) : ent[a].key = k
  BY DEF Timed, BindingsAre
<1>2. Binding(k) = [type |-> ent[a].type, deadline |-> Deadline(a)]
  BY <1>1 DEF BindingsAre
<1>3. heap_idx[a] # NoIdx /\ When(k) = heap[heap_idx[a]].val
  BY <1>2 DEF Timed, When, Deadline
<1>4. heap_idx[a] \in 1..Len(heap)
  BY <1>1, <1>3, TableLive DEF CarefulInv, Inv, TimersMatch, FindsOwn
<1>5. heap \in Seq(ItemsOf(Addr)) /\ HeapOrdered(heap)
  BY HeapItemIsItems DEF CarefulInv, Inv, TypeOK, EarliestOnTop
<1>6. heap[1].val <= heap[heap_idx[a]].val
  BY <1>4, <1>5, TopIsEarliest
<1>7. heap # <<>> /\ 1 \in 1..Len(heap)
  BY <1>4, <1>5
<1> QED
  BY <1>3, <1>4, <1>6, <1>7, ItemTime DEF CarefulInv, Inv

(* Deadlines are numbers, none before that of the item on top. *)
TimesAre ==
  \A k \in Key : Timed(k) =>
    /\ When(k) \in Nat /\ heap # <<>> /\ heap[1].val \in Nat
    /\ heap[1].val <= When(k)

LEMMA TimesKnown == CarefulInv /\ BindingsAre => TimesAre
BY TimedIs DEF TimesAre

LEMMA DueCount ==
  ASSUME IsFiniteSet(Key), NEW d
  PROVE  /\ IsFiniteSet(DueBy(d)) /\ Cardinality(DueBy(d)) \in Nat
         /\ Rounds(Cardinality(DueBy(d))) <= Passes /\ Passes \in Nat
<1>1. DueBy(d) \subseteq Key
  BY DEF DueBy
<1>2. /\ IsFiniteSet(DueBy(d)) /\ Cardinality(DueBy(d)) <= Cardinality(Key)
      /\ Cardinality(DueBy(d)) \in Nat /\ Cardinality(Key) \in Nat
  BY <1>1, FS_Subset, FS_CardinalityType
<1>3. Passes = Rounds(Cardinality(Key))
  BY DEF Passes, Rounds
<1> QED
  BY <1>2, <1>3, RoundsAre

(* A key that is not missing has a binding. *)
LEMMA KeyPresent ==
  ASSUME CarefulInv, BindingsAre, NEW k \in Key, ~Missing(k)
  PROVE  Binding(k) # None
<1>1. PICK i \in 1..Len(db) : ent[db[i]].key = k
  BY DEF Missing, Matches
<1>2. db[i] \in Range(db)
  BY DEF Range, CarefulInv, Inv, TypeOK
<1> QED
  BY <1>1, <1>2, BindingIsSome

(* Waits are counted in natural numbers. *)
LEMMA Waits ==
  ASSUME NEW w \in Nat, NEW a \in Int, NEW b \in Int
  PROVE  /\ w * a \in Int /\ w * (a + 1) = w * a + w
         /\ a <= b => w * a <= w * b
         /\ a >= 0 => w * a >= 0
OBVIOUS

(* Fewer keys due are no further behind. *)
LEMMA FewerDue ==
  ASSUME TypeOK, NEW d, NEW e, d = e, NEW a \in Nat, NEW b \in Nat, a <= b, d \in Nat,
         IsFiniteSet(Key), OnPace(e, b)
  PROVE  OnPace(d, a)
<1>1. /\ now \in Nat /\ Spent \in Nat /\ EmptyWait \in Nat /\ nworks \in Nat /\ Passes \in Nat
  <2>1. Passes \in Nat
    BY DueCount
  <2> QED
    BY <2>1, KeyspaceAssumption DEF TypeOK, Spent
<1> PICK x : x = Rounds(a + nworks) - 1
  OBVIOUS
<1> PICK y : y = Rounds(b + nworks) - 1
  OBVIOUS
<1>2. a + nworks \in Nat /\ b + nworks \in Nat /\ a + nworks <= b + nworks
  BY <1>1
<1>3. x \in Int /\ y \in Int /\ x <= y
  BY <1>2, RoundsAre
<1>4. EmptyWait * x \in Int /\ EmptyWait * y \in Int /\ EmptyWait * Passes \in Int
      /\ EmptyWait * x <= EmptyWait * y
  BY <1>1, <1>3, Waits
<1>5. now + Spent + EmptyWait * y <= d + EmptyWait * Passes
  BY DEF OnPace
<1>6. now + Spent + EmptyWait * x <= d + EmptyWait * Passes
  BY <1>1, <1>4, <1>5
<1> QED
  BY <1>6 DEF OnPace

(* No key gets a deadline that is over.                                    *)
SlowsNone ==
  \A j \in Key : Binding(j)' = Binding(j) \/ ~Timed(j)' \/ When(j)' >= now

(* It leaves no key more behind, and a pass may begin on the way.          *)
LEMMA PaceKept ==
  ASSUME IsFiniteSet(Key), TypeOK, TimesAre, TimesAre', Pace, SlowsNone,
         now' = now, nworks' = nworks, Spent' \in 0..Spent
  PROVE  Pace'
<1> SUFFICES ASSUME NEW k \in Key, Timed(k)', When(k)' < now'
             PROVE  OnPace(When(k), Cardinality(DueBy(When(k))))'
  BY DEF Pace
<1> PICK d : d = When(k)'
  OBVIOUS
<1>1. d \in Nat /\ now \in Nat
  BY KeyspaceAssumption DEF TimesAre, TypeOK
<1>2. Binding(k)' = Binding(k)
  BY <1>1 DEF SlowsNone
<1>3. Timed(k) /\ When(k) = d
  BY <1>2 DEF Timed, When
<1>4. OnPace(d, Cardinality(DueBy(d)))
  BY <1>1, <1>3 DEF Pace
<1> PICK D : D = {j \in Key : Timed(j)' /\ When(j)' <= d}
  OBVIOUS
<1>5. D \subseteq DueBy(d)
  <2> SUFFICES ASSUME NEW j \in Key, Timed(j)', When(j)' <= d
               PROVE  Timed(j) /\ When(j) <= d
    BY DEF DueBy
  <2>1. When(j)' \in Nat
    BY DEF TimesAre
  <2>2. ~(When(j)' >= now)
    BY <1>1, <2>1
  <2>3. Binding(j)' = Binding(j)
    BY <2>2 DEF SlowsNone
  <2> QED
    BY <2>3 DEF Timed, When
<1> PICK a : a = Cardinality(D)
  OBVIOUS
<1> PICK b : b = Cardinality(DueBy(d))
  OBVIOUS
<1>6. a \in Nat /\ b \in Nat /\ a <= b
  <2>1. IsFiniteSet(DueBy(d)) /\ b \in Nat
    BY DueCount
  <2>2. IsFiniteSet(D) /\ a <= b
    BY <1>5, <2>1, FS_Subset
  <2> QED
    BY <2>1, <2>2, FS_CardinalityType
<1>7. OnPace(d, a)
  BY <1>1, <1>4, <1>6, FewerDue
<1>8. now' + Spent' + EmptyWait * (Rounds(a + nworks') - 1) <= d + EmptyWait * Passes
  <2> PICK x : x = EmptyWait * (Rounds(a + nworks) - 1)
    OBVIOUS
  <2> PICK y : y = EmptyWait * Passes
    OBVIOUS
  <2>1. x \in Int /\ y \in Int
    <3>1. nworks \in Nat /\ EmptyWait \in Nat /\ Passes \in Nat
      BY DueCount, KeyspaceAssumption DEF TypeOK
    <3>2. a + nworks \in Nat
      BY <1>6, <3>1
    <3>3. Rounds(a + nworks) - 1 \in Int
      BY <3>2, RoundsAre
    <3> QED
      BY <3>1, <3>3, Waits
  <2>2. now + Spent + x <= d + y
    BY <1>7 DEF OnPace
  <2>3. Spent \in Nat /\ Spent' \in 0..Spent
    BY KeyspaceAssumption DEF TypeOK, Spent
  <2>4. now' + Spent' + x <= d + y
    BY <1>1, <2>1, <2>2, <2>3
  <2> QED
    BY <2>4
<1>9. DueBy(When(k))' = D
  BY DEF DueBy
<1> QED
  BY <1>8, <1>9 DEF OnPace

(* A command. *)
LEMMA CommandPace ==
  ASSUME Polite, NoWrap, CarefulInv, BindingsAre, BindingsAre', NEW k \in Key,
         \/ Set(k) \/ Del(k) \/ \E isNumber \in BOOLEAN : Zadd(k, isNumber)
         \/ \E ttl \in TTL : Expire(k, ttl)
  PROVE  SlowsNone
<1> USE DEF SlowsNone
<1> PICK kv : kv = [j \in Key |-> Binding(j)]
  OBVIOUS
<1>1. ASSUME NEW v, [j \in Key |-> Binding(j)]' = [kv EXCEPT ![k] = v], NEW j \in Key
      PROVE  Binding(j)' = IF j = k THEN v ELSE Binding(j)
  <2>1. [i \in Key |-> Binding(i)]'[j] = Binding(j)' /\ kv[j] = Binding(j)
    OBVIOUS
  <2>2. [kv EXCEPT ![k] = v][j] = IF j = k THEN v ELSE kv[j]
    OBVIOUS
  <2> QED
    BY <1>1, <2>1, <2>2
<1>2. ASSUME NEW type \in {"string", "zset"}, Store!Insert(k, type)
      PROVE  \A j \in Key : Binding(j)' = Binding(j) \/ ~Timed(j)'
  <2>1. [j \in Key |-> Binding(j)]' = [kv EXCEPT ![k] = [type |-> type, deadline |-> None]]
    BY <1>2 DEF Store!Insert
  <2>2. [type |-> type, deadline |-> None].deadline = None
    OBVIOUS
  <2> QED
    BY <1>1, <2>1, <2>2 DEF Timed, When
<1>3. ASSUME Store!Delete(k)
      PROVE  \A j \in Key : Binding(j)' = Binding(j) \/ ~Timed(j)'
  <2>1. [j \in Key |-> Binding(j)]' = [kv EXCEPT ![k] = None]
    BY <1>3 DEF Store!Delete
  <2> QED
    BY <1>1, <2>1 DEF Timed
<1>4. ASSUME NEW d, Store!SetDeadline(k, d)
      PROVE  \A j \in Key : Binding(j)' = Binding(j) \/ ~Timed(j)' \/ When(j)' >= now
  <2>1. [j \in Key |-> Binding(j)]' = [kv EXCEPT ![k] = [kv[k] EXCEPT !.deadline = d]]
    BY <1>4 DEF Store!SetDeadline
  <2>2. d = None \/ d >= now
    BY <1>4 DEF Store!SetDeadline
  <2>3. kv[k] = Binding(k)
    OBVIOUS
  <2>4. Binding(k)' = [Binding(k) EXCEPT !.deadline = d]
    BY <1>1, <2>1, <2>3
  <2>5. Timed(k)' => When(k)' = d \/ Binding(k)' = Binding(k)
    BY <2>4 DEF Timed, When
  <2> QED
    BY <1>1, <2>1, <2>2, <2>5 DEF Timed
<1>5. CASE Set(k)
  BY <1>2, <1>5, InsertRefines DEF Set, Careful, Running, clock
<1>6. CASE Del(k)
  BY <1>3, <1>6, DeleteRefines
<1>7. CASE \E isNumber \in BOOLEAN : Zadd(k, isNumber)
  BY <1>2, <1>7, InsertRefines DEF Zadd, Careful, Running, clock
<1>8. CASE \E ttl \in TTL : Expire(k, ttl)
  BY <1>4, <1>8, ExpireRefines
<1> QED
  BY <1>5, <1>6, <1>7, <1>8

(* The expiry loop removes a key that was due before all others: each of   *)
(* them has one key less before it.                                        *)
LEMMA ExpireTopPace ==
  ASSUME IsFiniteSet(Key), CarefulInv, BindingsAre, BindingsAre', TimesAre, TimesAre',
         Pace, PassBegun, ExpireTop
  PROVE  Pace' /\ PassBegun'
<1> USE DEF CarefulInv, Inv
<1>1. /\ pc = "timers" /\ now' = now /\ now_us = now /\ now \in Nat
      /\ nworks \in Nat /\ nworks <= k_max_works
  BY ExpireTopStep, KeyspaceAssumption DEF ExpireTop, Running, PassBegun, TypeOK
<1>2. \/ nworks = k_max_works /\ pc' = "io" /\ wait' = EmptyWait /\ nworks' = 0
      \/ pc' = "timers" /\ nworks' = nworks + 1 /\ now_us' = now_us
  <2>1. NoFault'
    BY ExpireTopStep
  <2>2. IF WorkLimitReached THEN LeaveTimers ELSE nworks' = nworks + 1 /\ UNCHANGED <<pc, now_us, clock>>
    BY <2>1 DEF ExpireTop, Crash, NoFault
  <2> QED
    BY <1>1, <2>2, KeyspaceAssumption DEF WorkLimitReached, LeaveTimers
<1>3. PassBegun'
  BY <1>1, <1>2 DEF PassBegun
<1>4. PICK k \in Key : Store!Evict(k) /\ When(k) = heap[1].val
  BY EvictRefines DEF When
<1>5. Timed(k) /\ ~Timed(k)' /\ \A j \in Key \ {k} : Binding(j)' = Binding(j)
  <2> PICK kv : kv = [j \in Key |-> Binding(j)]
    OBVIOUS
  <2>1. /\ kv[k] # None /\ kv[k].deadline # None
        /\ [j \in Key |-> Binding(j)]' = [kv EXCEPT ![k] = None]
    BY <1>4 DEF Store!Evict
  <2>2. \A j \in Key : [i \in Key |-> Binding(i)]'[j] = Binding(j)' /\ kv[j] = Binding(j)
    OBVIOUS
  <2>3. \A j \in Key : [kv EXCEPT ![k] = None][j] = IF j = k THEN None ELSE kv[j]
    OBVIOUS
  <2> QED
    BY <2>1, <2>2, <2>3 DEF Timed, When
<1> SUFFICES ASSUME NEW j \in Key, Timed(j)', When(j)' < now'
             PROVE  OnPace(When(j), Cardinality(DueBy(When(j))))'
  BY <1>3 DEF Pace
<1> PICK d : d = When(j)'
  OBVIOUS
<1>6. Timed(j) /\ When(j) = d /\ d < now /\ d \in Nat
  BY <1>1, <1>5 DEF Timed, When, TimesAre
<1> PICK n : n = Cardinality(DueBy(d))
  OBVIOUS
<1> PICK D : D = {i \in Key : Timed(i)' /\ When(i)' <= d}
  OBVIOUS
<1>7. OnPace(d, n)
  BY <1>1, <1>6 DEF Pace
<1>8. k \in DueBy(d) /\ D = DueBy(d) \ {k}
  BY <1>4, <1>5, <1>6 DEF DueBy, Timed, When, TimesAre
<1>9. n \in Nat /\ n >= 1 /\ Cardinality(D) = n - 1
  <2>1. IsFiniteSet(DueBy(d)) /\ n \in Nat
    BY DueCount
  <2>2. n # 0
    BY <1>8, <2>1, FS_EmptySet
  <2>3. Cardinality(D) = n - 1
    BY <1>8, <2>1, FS_RemoveElement
  <2> QED
    BY <2>1, <2>2, <2>3
<1>10. DueBy(When(j))' = D
  BY DEF DueBy
<1> PICK y : y = EmptyWait * Passes
  OBVIOUS
<1>11. y \in Int /\ EmptyWait \in Nat
  BY DueCount, Waits, KeyspaceAssumption
<1>12. now' + Spent' + EmptyWait * (Rounds((n - 1) + nworks') - 1) <= d + y
  <2>1. CASE nworks = k_max_works /\ pc' = "io" /\ wait' = EmptyWait /\ nworks' = 0
    <3> PICK r : r = Rounds(n - 1)
      OBVIOUS
    <3> PICK x : x = EmptyWait * (r - 1)
      OBVIOUS
    <3>1. r \in Nat /\ Rounds(n + nworks) = r + 1 /\ Rounds((n - 1) + nworks') = r
      BY <1>9, <2>1, RoundsAre
    <3>2. x \in Int /\ EmptyWait * ((r + 1) - 1) = x + EmptyWait
      <4>1. (r + 1) - 1 = (r - 1) + 1 /\ r - 1 \in Int
        BY <3>1
      <4> QED
        BY <1>11, <4>1, Waits
    <3>3. now + 0 + (x + EmptyWait) <= d + y
      BY <1>1, <1>7, <3>1, <3>2 DEF OnPace, Spent
    <3>4. now + EmptyWait + x <= d + y
      BY <1>1, <1>6, <1>11, <3>2, <3>3
    <3> QED
      BY <1>1, <2>1, <3>1, <3>4 DEF Spent
  <2>2. CASE pc' = "timers" /\ nworks' = nworks + 1 /\ now_us' = now_us
    <3>1. (n - 1) + nworks' = n + nworks
      BY <1>1, <1>9, <2>2
    <3>2. now + 0 + EmptyWait * (Rounds(n + nworks) - 1) <= d + y
      BY <1>1, <1>7 DEF OnPace, Spent
    <3> QED
      BY <1>1, <2>2, <3>1, <3>2 DEF Spent
  <2> QED
    BY <1>2, <2>1, <2>2
<1> QED
  BY <1>9, <1>10, <1>12 DEF OnPace

(* The clock: a key whose deadline passes now has a whole wait ahead, and  *)
(* no pass has begun.                                                      *)
LEMMA TickPace ==
  ASSUME Prompt, IsFiniteSet(Key), TypeOK, BindingsAre, BindingsAre', TimesAre,
         Pace, PassBegun, Tick
  PROVE  Pace' /\ PassBegun'
<1>1. /\ pc = "io" /\ pc' = "io" /\ nworks = 0 /\ nworks' = 0
      /\ now \in Nat /\ wait \in Nat /\ wait <= EmptyWait /\ EmptyWait \in Nat
      /\ now' = now + 1 /\ wait' = wait - 1 /\ UNCHANGED memory
  BY KeyspaceAssumption DEF Tick, PassBegun, TypeOK
<1>2. PassBegun'
  BY <1>1 DEF PassBegun
<1>3. \A j \in Key : Binding(j)' = Binding(j)
  <2>1. [j \in Key |-> Binding(j)]' = [j \in Key |-> Binding(j)]
    BY <1>1, SameBindings DEF memory
  <2> QED
    BY <2>1
<1> SUFFICES ASSUME NEW k \in Key, Timed(k)', When(k)' < now'
             PROVE  OnPace(When(k), Cardinality(DueBy(When(k))))'
  BY <1>2 DEF Pace
<1> PICK d : d = When(k)'
  OBVIOUS
<1>4. Timed(k) /\ When(k) = d /\ d < now + 1 /\ d \in Nat
  BY <1>1, <1>3 DEF Timed, When, TimesAre
<1> PICK n : n = Cardinality(DueBy(d))
  OBVIOUS
<1>5. n \in Nat /\ Rounds(n) \in Nat /\ Rounds(n) <= Passes /\ Passes \in Nat
  BY DueCount, RoundsAre
<1>6. Cardinality(DueBy(When(k)))' = n
  BY <1>3 DEF DueBy, Timed, When
<1> PICK x : x = EmptyWait * (Rounds(n) - 1)
  OBVIOUS
<1> PICK y : y = EmptyWait * Passes
  OBVIOUS
<1>7. x \in Int /\ y \in Int /\ x + EmptyWait <= y
  <2>1. Rounds(n) - 1 \in Int /\ Rounds(n) = (Rounds(n) - 1) + 1
    BY <1>5
  <2>2. x \in Int /\ EmptyWait * Rounds(n) = x + EmptyWait
    BY <1>1, <2>1, Waits
  <2>3. y \in Int /\ EmptyWait * Rounds(n) <= y
    BY <1>1, <1>5, Waits
  <2> QED
    BY <2>2, <2>3
<1>8. now + wait + x <= d + y
  <2>1. CASE d < now
    <3>1. OnPace(d, n)
      BY <1>4, <2>1 DEF Pace
    <3>2. n + nworks = n
      BY <1>1, <1>5
    <3> QED
      BY <1>1, <3>1, <3>2 DEF OnPace, Spent
  <2>2. CASE d = now
    BY <1>1, <1>7, <2>2
  <2> QED
    BY <1>1, <1>4, <2>1, <2>2
<1>9. now' + wait' + x <= d + y
  BY <1>1, <1>4, <1>7, <1>8
<1>10. n + nworks' = n
  BY <1>1, <1>5
<1> QED
  BY <1>1, <1>6, <1>9, <1>10 DEF OnPace, Spent

LEMMA PaceStep ==
  ASSUME Polite, Prompt, NoWrap, IsFiniteSet(Key), CarefulInv, BindingsAre, BindingsAre',
         TimesAre, TimesAre', Pace, PassBegun, [Next]_vars
  PROVE  Pace' /\ PassBegun'
<1> USE DEF CarefulInv, Inv
<1>1. Spent \in Nat /\ (UNCHANGED <<pc, wait>> => Spent' \in 0..Spent)
  BY KeyspaceAssumption DEF TypeOK, Spent
<1>2. ASSUME SlowsNone, UNCHANGED <<clock, pc, now_us, nworks>>
      PROVE  Pace' /\ PassBegun'
  <2>1. Pace'
    BY <1>1, <1>2, PaceKept DEF clock
  <2> QED
    BY <1>2, <2>1 DEF PassBegun, clock
<1>3. ASSUME NEW k \in Key,
             \/ Set(k) \/ Del(k) \/ \E isNumber \in BOOLEAN : Zadd(k, isNumber)
             \/ \E ttl \in TTL : Expire(k, ttl)
      PROVE  Pace' /\ PassBegun'
  <2>1. SlowsNone
    BY <1>3, CommandPace
  <2>2. UNCHANGED <<clock, pc, now_us, nworks>>
    BY <1>3 DEF Set, Del, Zadd, Expire, Crash
  <2> QED
    BY <2>1, <2>2, <1>2
<1>4. ASSUME UNCHANGED <<db, heap, heap_idx>>, \A a \in Range(db) : ent'[a] = ent[a]
      PROVE  SlowsNone
  <2>1. [k \in Key |-> Binding(k)]' = [k \in Key |-> Binding(k)]
    BY <1>4, SameBindings
  <2> QED
    BY <2>1 DEF SlowsNone
<1>5. CASE StartTimers
  <2>1. /\ pc = "io" /\ pc' = "timers" /\ now_us' = now /\ nworks' = 0
        /\ UNCHANGED <<memory, clock>>
    BY <1>5 DEF StartTimers, Running
  <2>2. nworks' = nworks /\ PassBegun'
    BY <2>1 DEF PassBegun, clock
  <2>3. SlowsNone
    BY <1>4, <2>1 DEF memory
  <2>4. Spent' \in 0..Spent
    BY <1>1, <2>1 DEF Spent
  <2> QED
    BY <2>1, <2>2, <2>3, <2>4, PaceKept DEF clock
<1>6. CASE EndTimers
  <2>1. /\ pc = "timers" /\ pc' = "io" /\ nworks' = 0 /\ now' = now
        /\ ~TopIsDue /\ UNCHANGED memory /\ now_us = now /\ now \in Nat
    BY <1>6, KeyspaceAssumption DEF EndTimers, LeaveTimers, Running, PassBegun, TypeOK
  <2>2. [k \in Key |-> Binding(k)]' = [k \in Key |-> Binding(k)]
    BY <2>1, SameBindings DEF memory
  <2>3. \A k \in Key : ~(Timed(k)' /\ When(k)' < now')
    <3> SUFFICES ASSUME NEW k \in Key, Timed(k)
                 PROVE  ~(When(k) < now)
      BY <2>1, <2>2 DEF Timed, When
    <3> QED
      BY <2>1 DEF TopIsDue, TimesAre
  <2> QED
    BY <2>1, <2>3 DEF Pace, PassBegun
<1>7. CASE ExpireTop
  BY <1>7, ExpireTopPace
<1>8. CASE Tick
  BY <1>8, TickPace
<1>9. ASSUME NEW w \in Worker, Take(w)
      PROVE  Pace' /\ PassBegun'
  BY <1>2, <1>4, <1>9 DEF Take
<1>10. ASSUME NEW w \in Worker, threaded_zset_destructor(w)
       PROVE  Pace' /\ PassBegun'
  <2>1. \A a \in Range(db) : ent'[a] = ent[a]
    BY <1>10, DestructorKeepsTable
  <2> QED
    BY <1>2, <1>4, <1>10, <2>1 DEF threaded_zset_destructor
<1>11. CASE UNCHANGED vars
  BY <1>2, <1>4, <1>11 DEF vars, memory
<1>12. ~OtherEnd
  BY OtherEndIsCrash
<1> QED
  BY <1>3, <1>5, <1>6, <1>7, <1>8, <1>9, <1>10, <1>11, <1>12 DEF Next, OtherEnd

LEMMA PaceInit ==
  ASSUME Init
  PROVE  Pace /\ PassBegun
<1>1. \A k \in Key : Binding(k) = None
  BY DEF Init, Binding, Missing, Matches
<1> QED
  BY <1>1 DEF Init, Pace, PassBegun, Timed

(* A key on its pace has waited for no more passes than remove all keys.   *)
LEMMA PaceIsLateness ==
  ASSUME IsFiniteSet(Key), CarefulInv, BindingsAre, TimesAre, Pace
  PROVE  LateByWaits
<1> SUFFICES ASSUME NEW k \in Key, ~Missing(k), Binding(k).deadline # None
             PROVE  now <= Binding(k).deadline + EmptyWait * Passes
  BY DEF LateByWaits
<1>1. Timed(k) /\ When(k) = Binding(k).deadline
  <2>1. Binding(k) # None
    BY KeyPresent
  <2> QED
    BY <2>1 DEF Timed, When
<1> PICK d : d = When(k)
  OBVIOUS
<1> PICK n : n = Cardinality(DueBy(d))
  OBVIOUS
<1> PICK y : y = EmptyWait * Passes
  OBVIOUS
<1>2. /\ d \in Nat /\ now \in Nat /\ nworks \in Nat /\ Spent \in Nat
      /\ EmptyWait \in Nat /\ y \in Int /\ y >= 0
  <2>1. Passes \in Nat /\ EmptyWait \in Nat
    BY DueCount, KeyspaceAssumption
  <2>2. y \in Int /\ y >= 0
    BY <2>1, Waits
  <2>3. now \in Nat /\ nworks \in Nat /\ Spent \in Nat
    BY KeyspaceAssumption DEF CarefulInv, Inv, TypeOK, Spent
  <2> QED
    BY <1>1, <2>1, <2>2, <2>3 DEF TimesAre
<1>3. ASSUME d < now
      PROVE  now <= d + y
  <2>1. IsFiniteSet(DueBy(d)) /\ n \in Nat /\ k \in DueBy(d)
    <3>1. k \in DueBy(d)
      BY <1>1, <1>2 DEF DueBy
    <3> QED
      BY <3>1, DueCount
  <2>2. n >= 1
    BY <2>1, FS_EmptySet
  <2> PICK x : x = EmptyWait * (Rounds(n + nworks) - 1)
    OBVIOUS
  <2>3. x \in Int /\ x >= 0
    <3>1. n + nworks \in Nat /\ n + nworks >= 1
      BY <1>2, <2>1, <2>2
    <3>2. Rounds(n + nworks) - 1 \in Int /\ Rounds(n + nworks) - 1 >= 0
      BY <3>1, RoundsAre
    <3> QED
      BY <1>2, <3>2, Waits
  <2>4. OnPace(d, n)
    BY <1>1, <1>3 DEF Pace
  <2>5. now + Spent + x <= d + y
    BY <2>4 DEF OnPace
  <2> QED
    BY <1>2, <2>3, <2>5
<1>4. now <= d + y
  BY <1>2, <1>3
<1> QED
  BY <1>1, <1>4

(* For careful clients, and with an event loop that takes no time of its   *)
(* own, a key outlives its deadline by no more than one full wait of poll  *)
(* for each pass that the removal of all keys takes: process_timers takes  *)
(* the keys in the order of their deadlines, a pass that ends before its   *)
(* limit leaves none that is due, and no wait is begun without a pass.     *)
THEOREM LatenessBounded ==
  ASSUME Polite, NoWrap, IsFiniteSet(Key)
  PROVE  Spec => []LateByWaits
<1>1. CarefulInv => BindingsAre /\ TimesAre
  BY Bindings, TimesKnown DEF CarefulInv, Inv
<1>2. CASE Prompt
  <2>1. Init => Pace /\ PassBegun
    BY PaceInit
  <2>2. /\ CarefulInv /\ BindingsAre /\ BindingsAre' /\ TimesAre /\ TimesAre'
        /\ Pace /\ PassBegun /\ [Next]_vars
        => Pace' /\ PassBegun'
    BY <1>2, PaceStep
  <2>3. CarefulInv /\ BindingsAre /\ TimesAre /\ Pace => LateByWaits
    BY PaceIsLateness
  <2> QED
    BY <1>1, <2>1, <2>2, <2>3, CarefulInvariance, PTL DEF Spec
<1>3. CASE ~Prompt
  <2>1. TRUE => LateByWaits
    BY <1>3 DEF LateByWaits
  <2> QED
    BY <2>1, PTL
<1> QED
  BY <1>2, <1>3
=============================================================================
