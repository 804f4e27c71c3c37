------------------------------ MODULE Keyspace ------------------------------
(***************************************************************************)
(* The keyspace of the server: the entries of g_data.db, their deadlines   *)
(* in g_data.heap, and the thread pool that destroys sorted sets.          *)
(*                                                                         *)
(* Three activities interleave: the event loop between two calls of        *)
(* process_timers (pc = "io": poll and the commands), the expiry loop      *)
(* of process_timers (pc = "timers"), and the workers.  An Entry is known  *)
(* by its address; a freed address may be handed out again by any later    *)
(* "new Entry".                                                            *)
(*                                                                         *)
(* The hash table is used through its contract: a lookup by key yields an  *)
(* entry with that key.  Among several it yields the newest, or any of     *)
(* them once a rehash has reordered the chain (Rehashing).  HashMap.tla    *)
(* models the table itself.                                                *)
(***************************************************************************)
EXTENDS Heap, SequencesExt

CONSTANTS
  Key,        \* the keys clients use
  Addr,       \* the addresses malloc hands out for an Entry
  Worker,     \* the threads of the pool
  None,       \* no entry: a free address, an idle worker
  TTL,        \* the arguments of EXPIRE, times 1000, in clock units
  MaxNow,     \* bound: the clock stops here
  MaxHeap,    \* bound: EXPIRE adds no item to a heap of this size
  ClockMod,   \* deadlines are uint64_t: computed modulo ClockMod
  k_max_works,\* process_timers stops after k_max_works + 1 entries
  Rehashing,  \* whether rehashes may reorder entries with equal keys
  Polite,     \* whether clients keep to the use described at Careful
  EmptyWait,  \* the longest poll may wait, in clock units
  Prompt,     \* whether only poll takes time
  NonBlocking \* whether accept gives sockets O_NONBLOCK (see EventLoop)

ASSUME KeyspaceAssumption ==
  /\ MaxNow \in Nat /\ MaxHeap \in Nat /\ ClockMod \in Nat \ {0} /\ k_max_works \in Nat
  /\ TTL \subseteq Int
  /\ Rehashing \in BOOLEAN /\ Polite \in BOOLEAN /\ Prompt \in BOOLEAN
  /\ NonBlocking \in BOOLEAN
  /\ EmptyWait \in Nat
  /\ None \notin Addr \cup Nat
  /\ None \notin [key : Key, type : {"string", "zset"}]
  /\ None \notin [type : {"string", "zset"}, deadline : Nat \cup {None}]

VARIABLES
  ent,       \* ent[a]: the Entry at address a, or None when a is free
  heap_idx,  \* heap_idx of the Entry at a; stale while a is free
  db,        \* the entries in g_data.db, newest first
  heap,      \* g_data.heap; ref is the address of the Entry
  queue,     \* the entries in g_data.tp.queue
  busy,      \* busy[w]: the entry worker w is destroying, or None
  now,       \* the clock
  wait,      \* what is left of poll's time when no event comes
  pc,        \* "io" or "timers"
  now_us,    \* process_timers: its now_us
  nworks,    \* process_timers: its nworks
  status     \* "up", or what ended the process: "assert" (timer.cpp:59),
             \* "throw" (std::stod), "segv" (a string used as a sorted
             \* set), "ub" (memory used after free, out of bounds or as
             \* another type), "sigpipe"

memory == <<ent, heap_idx, db, heap, queue, busy>>
clock == <<now, wait>>
vars == <<memory, clock, pc, now_us, nworks, status>>

Entry == [key : Key, type : {"string", "zset"}]
HeapItem == [val : Nat, ref : Addr]

Init ==
  /\ ent = [a \in Addr |-> None]
  /\ heap_idx = [a \in Addr |-> NoIdx]
  /\ db = <<>> /\ heap = <<>> /\ queue = <<>>
  /\ busy = [w \in Worker |-> None]
  /\ now = 0 /\ wait = EmptyWait
  /\ pc = "io" /\ now_us = 0 /\ nworks = 0
  /\ status = "up"
-----------------------------------------------------------------------------
Running(where) == status = "up" /\ pc = where

Crash(how) ==
  /\ status' = how
  /\ UNCHANGED <<memory, clock, pc, now_us, nworks>>

(* The positions of db whose key is k, and those a lookup may yield. *)
Matches(k) == {i \in 1..Len(db) : ent[db[i]].key = k}
Lookups(k) == IF Rehashing \/ Matches(k) = {} THEN Matches(k) ELSE {Min(Matches(k))}

Missing(k) == Matches(k) = {}

(* Mutant of entry_del: every entry goes to the pool. *)
entry_del_all(a) == queue' = Append(queue, a) /\ UNCHANGED ent

(* entry_del: a sorted set is handed to the pool, a string is freed. *)
entry_del(a) ==
  IF ent[a].type = "zset"
  THEN queue' = Append(queue, a) /\ UNCHANGED ent
  ELSE ent' = [ent EXCEPT ![a] = None] /\ UNCHANGED queue

(* The sift u writes through the ref of every slot it fills. *)
WritesFreed(u) == \E i \in u.wrote : ent[u.heap[i].ref] = None

(* new Entry: any free address; heap_idx starts at -1. *)
NewEntry(k, type) ==
  \E a \in Addr :
    /\ ent[a] = None
    /\ ent' = [ent EXCEPT ![a] = [key |-> k, type |-> type]]
    /\ heap_idx' = [heap_idx EXCEPT ![a] = NoIdx]
    /\ db' = <<a>> \o db

(* With Polite, clients never SET a key that exists, never DEL one that    *)
(* has a deadline, ZADD only numbers and only to sorted sets, never ZREM a *)
(* member, and stay until they have their replies.                         *)
Careful(allowed) == Polite => allowed

Set(k) ==
  /\ Running("io")
  /\ Careful(Missing(k))
  /\ NewEntry(k, "string")
  /\ UNCHANGED <<heap, queue, busy, clock, pc, now_us, nworks, status>>

(* The entry is freed, or queued, with its heap item still in place. *)
Del(k) ==
  /\ Running("io")
  /\ \E i \in Lookups(k) :
       /\ Careful(heap_idx[db[i]] = NoIdx)
       /\ db' = RemoveAt(db, i)
       /\ entry_del(db[i])
  /\ UNCHANGED <<heap_idx, heap, busy, clock, pc, now_us, nworks, status>>

(* zadd: a score that is no number throws before the lookup; a string has  *)
(* a null zset; an existing sorted set changes inside only.                *)
Zadd(k, isNumber) ==
  /\ Running("io")
  /\ Careful(isNumber)
  /\ \/ ~isNumber /\ Crash("throw")
     \/ /\ isNumber /\ Missing(k)
        /\ NewEntry(k, "zset")
        /\ UNCHANGED <<heap, queue, busy, clock, pc, now_us, nworks, status>>
     \/ /\ isNumber /\ ~Polite
        /\ \E i \in Lookups(k) : ent[db[i]].type = "string"
        /\ Crash("segv")

(* ZREM of a member: hm_delete takes the ZNodes of the set for Entries     *)
(* (SortedSet.Popped).  Any other ZREM changes nothing here.               *)
Zrem(k) ==
  /\ Running("io")
  /\ ~Polite
  /\ \E i \in Lookups(k) : ent[db[i]].type = "zset"
  /\ Crash("ub")

(* A reply is written to a client that is gone (Connection.WriteToNobody). *)
WriteToNobody ==
  /\ Running("io")
  /\ ~Polite
  /\ Crash("sigpipe")

(* entry_set_ttl on the entry a lookup yields. *)
Expire(k, ttl) ==
  /\ Running("io")
  /\ \E i \in Lookups(k) :
       LET a == db[i]
           u == IF ttl < 0 THEN RemoveTimer(heap, heap_idx, a)
                           ELSE PutTimer(heap, heap_idx, a, (now + ttl) % ClockMod)
       IN /\ ttl < 0 => heap_idx[a] # NoIdx
          /\ heap_idx[a] = NoIdx => Len(heap) < MaxHeap
          /\ IF WritesFreed(u)
             THEN Crash("ub")
             ELSE /\ heap' = u.heap
                  /\ heap_idx' = u.idx
                  /\ UNCHANGED <<ent, db, queue, busy, clock, pc, now_us, nworks, status>>

(* poll returns, with events or without, the events are handled and        *)
(* process_timers is called.                                               *)
StartTimers ==
  /\ Running("io")
  /\ pc' = "timers" /\ now_us' = now /\ nworks' = 0
  /\ UNCHANGED <<memory, clock, status>>

(* The locals of process_timers end with it, and main polls again.         *)
(* next_timer_ms looks at the idle connections only, whatever the heap has *)
(* on top: with none of them due poll waits its longest.                   *)
LeaveTimers ==
  /\ pc' = "io" /\ wait' = EmptyWait
  /\ now_us' = 0 /\ nworks' = 0
  /\ UNCHANGED now

(* Mutant of WorkLimitReached: one entry more. *)
WorkLimitPassed == nworks > k_max_works

(* "nworks++ >= k_max_works": don't stall the server if too many expire. *)
WorkLimitReached == nworks >= k_max_works

(* Mutants of TopIsDue: a deadline that is not over yet; one that has been *)
(* over for a while; the last item.                                        *)
TopIsDueNow == heap # <<>> /\ heap[1].val <= now_us
TopIsLongDue == heap # <<>> /\ heap[1].val + 1 < now_us
LastIsDue == heap # <<>> /\ heap[Len(heap)].val < now_us

TopIsDue == heap # <<>> /\ heap[1].val < now_us

(* Mutant of Asserted: built with NDEBUG. *)
AssertedNever(i, a) == TRUE
(* assert(node == &ent->node) *)
Asserted(i, a) == db[i] = a

(* One iteration of the expiry loop, on the entry of the earliest item:    *)
(* hm_delete by its key, the assertion that it found this very entry, the  *)
(* removal from the heap, entry_del.                                       *)
ExpireTop ==
  /\ Running("timers")
  /\ TopIsDue
  /\ LET a == heap[1].ref IN
     IF ent[a] = None THEN Crash("ub")
     ELSE \/ Missing(ent[a].key) /\ Crash("assert")
          \/ \E i \in Lookups(ent[a].key) : ~Asserted(i, a) /\ Crash("assert")
          \/ \E i \in Lookups(ent[a].key) :
               /\ Asserted(i, a)
               /\ LET u == RemoveTimer(heap, heap_idx, a) IN
                  IF heap_idx[a] = NoIdx \/ WritesFreed(u) THEN Crash("ub")
                  ELSE /\ db' = RemoveAt(db, i)
                       /\ heap' = u.heap
                       /\ heap_idx' = u.idx
                       /\ entry_del(a)
                       /\ IF WorkLimitReached
                          THEN LeaveTimers
                          ELSE nworks' = nworks + 1 /\ UNCHANGED <<pc, now_us, clock>>
                       /\ UNCHANGED <<busy, status>>

EndTimers ==
  /\ Running("timers")
  /\ ~TopIsDue
  /\ LeaveTimers
  /\ UNCHANGED <<memory, status>>

(* A worker takes the oldest job, then destroys its sorted set and entry. *)
Take(w) ==
  /\ status = "up"
  /\ busy[w] = None /\ queue # <<>>
  /\ busy' = [busy EXCEPT ![w] = Head(queue)]
  /\ queue' = Tail(queue)
  /\ UNCHANGED <<ent, heap_idx, db, heap, clock, pc, now_us, nworks, status>>

threaded_zset_destructor(w) ==
  /\ status = "up"
  /\ busy[w] # None
  /\ ent' = [ent EXCEPT ![busy[w]] = None]
  /\ busy' = [busy EXCEPT ![w] = None]
  /\ UNCHANGED <<heap_idx, db, heap, queue, clock, pc, now_us, nworks, status>>

(* With Prompt the server's own steps take no time. *)
Tick ==
  /\ status = "up"
  /\ now < MaxNow
  /\ Prompt => pc = "io" /\ wait > 0
  /\ now' = now + 1
  /\ wait' = IF wait = 0 THEN 0 ELSE wait - 1
  /\ UNCHANGED <<memory, pc, now_us, nworks, status>>

Next ==
  \/ \E k \in Key : Set(k) \/ Del(k) \/ Zrem(k)
  \/ \E k \in Key, isNumber \in BOOLEAN : Zadd(k, isNumber)
  \/ \E k \in Key, ttl \in TTL : Expire(k, ttl)
  \/ WriteToNobody
  \/ StartTimers \/ ExpireTop \/ EndTimers
  \/ \E w \in Worker : Take(w) \/ threaded_zset_destructor(w)
  \/ Tick

(* The clock advances and the expiry loop runs on.  The main loop gets     *)
(* back to process_timers, for poll waits 10 seconds at most, but only if  *)
(* sockets do not block: a read from one that does may keep the thread for *)
(* good (utils.cpp:120).  Clients promise nothing, and expiry does not     *)
(* wait for the pool.                                                      *)
Fairness ==
  /\ WF_vars(Tick) /\ WF_vars(ExpireTop \/ EndTimers)
  /\ WF_vars(NonBlocking /\ StartTimers)

Spec == Init /\ [][Next]_vars /\ Fairness
-----------------------------------------------------------------------------
Allocated == {a \in Addr : ent[a] # None}
InWork == {busy[w] : w \in Worker} \ {None}

TypeOK ==
  /\ ent \in [Addr -> Entry \cup {None}]
  /\ heap_idx \in [Addr -> Nat]
  /\ db \in Seq(Addr) /\ queue \in Seq(Addr)
  /\ heap \in Seq(HeapItem)
  /\ busy \in [Worker -> Addr \cup {None}]
  /\ now \in 0..MaxNow /\ now_us \in 0..MaxNow
  /\ wait \in 0..EmptyWait
  /\ pc \in {"io", "timers"}
  /\ nworks \in 0..k_max_works
  /\ status \in {"up", "assert", "throw", "segv", "ub", "sigpipe"}

(* Every Entry has one owner: it is in the table, waiting for a worker or  *)
(* being destroyed, never two of these and never none.  So no command, no  *)
(* timer and no worker frees an Entry another one can still reach through  *)
(* the table or the queue, and none leaks (do_del, entry_del, the          *)
(* assertion of process_timers).                                           *)
Ownership ==
  /\ IsInjective(db) /\ IsInjective(queue)
  /\ \A v, w \in Worker : busy[v] = busy[w] /\ busy[v] # None => v = w
  /\ Range(db) \cap Range(queue) = {}
  /\ InWork \cap (Range(db) \cup Range(queue)) = {}
  /\ Allocated = Range(db) \cup Range(queue) \cup InWork

(* Only sorted sets reach the pool: the destructor finds a zset to free.   *)
PoolGetsSortedSets ==
  \A a \in Range(queue) \cup InWork : ent[a].type = "zset"

(* Even with items left behind by DEL the earliest deadline is on top, so  *)
(* process_timers can stop at the first item that is not due.              *)
EarliestOnTop == HeapOrdered(heap)

(* A live entry that has a heap_idx finds an item of its own there, though *)
(* stale items write to it too: TTL and EXPIRE index g_data.heap within    *)
(* bounds, and never change the deadline of another entry.                 *)
IndexSound ==
  \A a \in Allocated : heap_idx[a] # NoIdx =>
    heap_idx[a] \in 1..Len(heap) /\ heap[heap_idx[a]].ref = a
-----------------------------------------------------------------------------
(* What holds for careful clients.                                         *)

(* The process neither aborts nor touches freed memory.  (What HashMap     *)
(* says of miscounted tables is not repeated here.)                        *)
NoFault == status = "up"

(* Every item of the heap belongs to an entry of the table, which finds it *)
(* by its heap_idx: no timer outlives its key.                             *)
TimersOwned ==
  /\ \A i \in 1..Len(heap) : heap[i].ref \in Range(db) /\ heap_idx[heap[i].ref] = i
  /\ \A a \in Range(db) : heap_idx[a] # NoIdx => heap_idx[a] \in 1..Len(heap)

Deadline(a) == IF heap_idx[a] = NoIdx THEN None ELSE heap[heap_idx[a]].val

Binding(k) ==
  IF Missing(k) THEN None
  ELSE LET a == db[Min(Matches(k))] IN [type |-> ent[a].type, deadline |-> Deadline(a)]

Store == INSTANCE KVStore WITH
  kv <- [k \in Key |-> Binding(k)], turn <- pc,
  Time <- 0..ClockMod - 1, Absent <- None, Never <- None

(* The keyspace implements the abstract store: no key goes away before its *)
(* deadline or without DEL, and no key gets a deadline nobody gave it.     *)
ImplementsStore == Store!Spec

(* poll is not told of deadlines and a pass of process_timers removes      *)
(* k_max_works + 1 keys at most, yet a key outlives its deadline by no     *)
(* more than one full wait for each pass that it takes to remove them all. *)
Passes == (Cardinality(Key) + k_max_works) \div (k_max_works + 1)
LateByWaits ==
  Prompt => \A k \in Key :
              Missing(k) \/ Binding(k).deadline = None
                \/ now <= Binding(k).deadline + EmptyWait * Passes

(* Unless sockets block, a key whose deadline has passed is removed, or    *)
(* given another one, at some later call of process_timers, however many   *)
(* expire at once.                                                         *)
Overdue(k) ==
  ~Missing(k) /\ Binding(k).deadline # None /\ Binding(k).deadline < now
ExpiredKeysGo == NonBlocking => \A k \in Key : Overdue(k) ~> ~Overdue(k)

-----------------------------------------------------------------------------
(* timer.cpp:59: the node hm_delete finds by key is the expired one.  It   *)
(* need not be when a key was SET twice.                                   *)
AssertionHolds == status # "assert"
=============================================================================
