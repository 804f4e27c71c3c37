# A TLA+ model of the Redis-like server

This directory holds TLA+ modules that model the server in `src/`, TLC
configurations that model-check them on small instances, and theorems about them
that TLAPS checks for every instance. `PROJECT.json` lists the runs, the source
lines behind each definition, the mutants that show each property can fail, the
theorems, and the hazards the properties are for.

## 1. The system

One process. One thread runs everything but the destruction of sorted sets: it
polls, accepts, reads, parses, executes, writes, expires. Four more threads wait
for sorted sets to free. Nothing is persisted.

| Component | State | Operations | Source |
|---|---|---|---|
| event loop | `g_data.fd2conn`, `g_data.idle_list`, `poll_args` | `main`'s loop, `accept_new_connection`, `next_timer_ms`, idle half of `process_timers` | `Server.cpp`, `timer.cpp`, `DList.cpp` |
| connection | a `Conn`: state, `rbuf`, `wbuf`, `wbuf_sent`, `idle_start` | `connection_io`, `statereq`, `stateres`, `try_fill_buffer`, `one_request`, `try_flush_buffer` | `utils.cpp` |
| parser, dispatch | none | `parse_req`, `do_request` and what each command may say | `common.cpp` |
| keyspace | `g_data.db`, one `Entry` per key, `heap_idx` in each | `do_set/get/del/keys/expire/ttl/zadd/zrem/zscore/zquery`, `entry_set_ttl`, `entry_del` | `common.cpp` |
| hash table | an `HMap`: two `HTab`s and `resizing_pos` | `hm_insert`, `hm_lookup`, `hm_delete`, `hm_help_resizing`, `h_scan` | `hashtable.cpp` |
| expiry heap | `g_data.heap`, back references to `heap_idx` | `heap_update`, insertion and removal around it | `heap.cpp`, `common.cpp`, `timer.cpp` |
| thread pool | `g_data.tp`: queue, mutex, condition variable | `thread_pool_queue`, `worker` | `thread.cpp` |
| sorted sets | a `Zset`: an AVL tree and an `HMap` over the same nodes | `zset_add/pop/query/lookup/dispose`, `avl_fix/del/offset` | `zset.cpp`, `AVL.cpp` |
| replies | none | `out_*` | `serialisation.cpp` |
| client | none | `send_req`, `read_resp`, `on_response` | `client.cpp` |
| idle list | `prev` and `next` of every `Conn` and of the head | `dList_init`, `dList_empty`, `dlist_detach`, `list_insert_before` | `DList.cpp` |

How they meet: `main` calls `connection_io` for a descriptor with an event, which
calls `do_request`, which works on the keyspace; after the events `process_timers`
closes idle connections and expires keys. `EXPIRE` and expiry move heap items,
and every move writes `heap_idx` *inside the Entry the item points at*. `DEL` and
expiry give an Entry that is a sorted set to the thread pool, whose workers free
it while the server goes on.

What is hard here, and what makes each part correct:

* **Ownership across structures.** An Entry is reached from the table, from the
  heap, from the pool's queue and from a worker. Each must have one owner, and
  the heap must never write through an Entry that is gone.
* **An indexed heap.** Items and back references move together through sifts that
  go up or down, for insertion, change and removal at any position.
* **Progressive rehashing.** Between any two calls nodes may be in either table;
  every lookup, delete and `KEYS` must see each exactly once, and the rehash must
  end before another is due.
* **Condition variables.** A job pushed between a worker's test and its sleep
  must not be lost.
* **Streams.** Requests come in arbitrary pieces, replies leave in arbitrary
  pieces, and the client may be gone at any step.
* **Descriptors reused at once, and a list that must stay in order of time**, for
  the event loop.
* **A protocol written twice**, by server and client, with byte orders that differ from
  field to field: the client must print what the command said.
* **Progress**: every overdue key goes, and not much too late; every sorted set is freed,
  every client is accepted and answered.

## 2. The modules

| Module | What it is | Uses |
|---|---|---|
| `Heap` | `heap_up`, `heap_down`, `heap_update` and the item insertions and removals, as operators on a heap and its `heap_idx` | |
| `HeapLoops` | the same code one loop iteration a step: the hole, the item in hand, the back references | checks `Heap`, implements `TimerQueue` |
| `TimerQueue` | abstract: a set of deadlines from which the earliest fires | |
| `Keyspace` | entries, table, heap, pool and clock; the commands, the expiry loop, the workers | `Heap`; implements `KVStore` |
| `KVStore` | abstract: one binding per key, gone only by `DEL` or by its deadline | |
| `HashMap` | the two tables, chain by chain | implements `NodeSet` |
| `NodeSet` | abstract: a set of nodes, found by key, all listed | |
| `SortedSet` | AVL tree and members of one sorted set; `tree_add`, `avl_fix`, `avl_del` one iteration a step; `avl_offset` | `HashMap` as its contract |
| `ThreadPool` | one step per pthread call and queue operation | implements `JobPool` |
| `JobPool` | abstract: a queue of jobs, each started once and finished | |
| `Wire` | the bytes: requests, their parser, every command's replies, `out_*`, the client's decoder | |
| `Connection` | one connection, the socket's queues and the client | `Wire` |
| `DList` | the pointer operations of the idle list | |
| `EventLoop` | all connections: poll, accept, dispatch, close, idle timeouts | `DList`; `Connection` as its contract |
| `HeapLoopsProofs`, `KeyspaceProofs`, `HashMapProofs`, `SortedSetProofs`, `ThreadPoolProofs`, `EventLoopProofs`, `ConnectionProofs` | theorems | |
| `Lemmas` | what several of them use: lemmas on sets of naturals, recursive functions, sequences and the operators of `Heap` | `Heap` |

`MC*.tla` give constants their values. Where a module uses another part by
contract only, the contract is stated in it and checked where that part is
modelled: `Keyspace` finds entries by key as `HashMap` does (`Lookups`), hands jobs
over as `ThreadPool` does (first in, first out, each to one worker), and
`EventLoop` takes from `Connection` how a call of `connection_io` can end.

The ways a command or a client can end the process are in every module that its end concerns:
`Keyspace` (`Zadd`, `Zrem`, `WriteToNobody`, and the aborts and faults of its own), `SortedSet`
(`Popped`), `Wire` and `Connection` (`MayEnd` with `Crash`, `WriteToNobody`) and `EventLoop`
(`Killed`). What goes wrong only in memory damaged by commands before stays where that damage is
modelled: the overrun of the table in `HashMap`, the broken tree in `SortedSet`, the freed entries
in `Keyspace`.

### State and actions against the code

**Heap, HeapLoops.** Positions count from 1, `heap_idx` 0 stands for -1. `Sift`
gives heap, back references and the positions the loop wrote through; `Climb` and
`Sink` are the paths of `heap_up` and `heap_down`. `PutTimer` is `entry_set_ttl`
with a deadline; `RemoveTimer` is the removal in `entry_set_ttl(ent, -1)` and in
`process_timers`. `HeapLoops` starts the same operations (`Put`, `Clear`, `Fire`)
and then steps through the loops (`UpStep`, `UpEnd`, `DownStep`, `DownEnd`).

**Keyspace.** `ent[a]` is the Entry at address `a`, or `None` when the address is
free; any free address may be returned by the next `new`. `heap_idx[a]` keeps its
value when the Entry is freed, as memory does. `db` is newest first: `do_set`
inserts without looking, so two entries can share a key, and `Lookups` says which
of them `hm_lookup` and `hm_delete` may return: the newest, or, after a rehash
has reversed a chain, any. `Set`, `Del`, `Zadd`, `Expire` are whole commands;
`Zrem` is the ZREM of a member, which faults (any other changes nothing here), `WriteToNobody` the
reply that SIGPIPE answers.
`StartTimers`, `ExpireTop`, `EndTimers` are the call, the iterations and the end of
the expiry loop, so a worker or the clock can step in between. `Take` and
`threaded_zset_destructor` are a worker's two halves. What would end the process
or be undefined behaviour sets `status`, after which nothing happens: a model
that went on after a write through freed memory would say nothing. `GET`, `TTL`,
`KEYS` and `ZSCORE` change no state of this module. `wait` is what is left of `poll`'s time:
`LeaveTimers` sets it to `EmptyWait` whatever is on top of the heap, as `next_timer_ms` does
when no connection is about to time out, and an event may end it early (`StartTimers`). With
`Prompt` the clock only moves while the server polls.

**HashMap.** A table is its capacity, its size field (a number the code keeps, not
the number of nodes) and its chains, head first. `Moved` is the loop of
`hm_help_resizing` for so many more nodes: `NextSlot` is where it finds the next node (or the place
behind the last slot), `Move` hands it over, and `Freed` lets an emptied table go. Every operation
calls it where the code does. `Overrun` is the loop passing the last slot; after it nothing happens.

**SortedSet.** `mem` holds the pointers, counts and depths of every node, `tree` is
`zset->tree`. `rot_left`/`rot_right` and `avl_fix_left`/`avl_fix_right` are one operator
each with the side as a parameter. A ZADD of a new member is `AddNew`, `Descend`...,
`Attach`, `FixUp`...; a ZADD of another score begins with `avl_del` (`Detach`, or
`SeekRight`, `SeekLeft`..., `DelVictim` and a nested `avl_del`, then `SwapWithVictim`),
with `stack` for the calls that have not returned. `avl_fix` never attaches a rotated
subtree to its parent; `inner` says that it has done so below the root, and the model
starts no command after that (a named bound): what happens in a broken tree is of
no interest. ZREM of a member ends in `Popped`, a fault.

**ThreadPool.** `Lock`, `Wait`, `Wake`, `Take`, `Unlock`, `Run` for each worker and
`QueueLock`, `Push`, `Signal`, `QueueUnlock` for the server. A wait releases the
mutex and sleeps in one step, a signal wakes one or more sleepers, and sleepers
may wake by themselves, as POSIX has it.

**Wire.** A byte is a cell: the i-th of a named string, of a 32-bit field or of a 64-bit number
with its value, or a reply's type. A field takes `W` cells, a number `2 * W`; `htobe64` reverses
them. `parse_req` is the set of the one command a body holds, or the empty set. `do_request`
gives, for a command, all it may say if it returns: an error code and the values it writes. It says
nothing to a ZADD whose score is no number (`std::stod` throws), and `MayEnd` are the commands that
need not return: a ZADD of four words, a ZREM that names a member (by a name that is not empty), a
ZQUERY. `cut_req` is a request without its last byte, which only a client other than `client.cpp`
sends. `Bytes` is what
the `out_*` functions make of them, `Frame` adds the length, `Frames` is how `read_full` takes
a stream apart, and `on_response` is the client's decoder, with the number of bytes it used
and what it prints (`Responses` is its recursion: the values of an array, one after the other).

**Connection.** Each system call is a step: `Read`, `ReadNothing` (EAGAIN), `ReadFails` (EOF or
error), `Write` (any positive amount up to the room in the send queue), `WriteNothing`,
`WriteToNobody` (the peer is gone: the write is lost, fails, or SIGPIPE ends the process). `Answer`
and `Refuse` are `one_request`: they parse what is in `rbuf` and take one of the replies
`do_request` allows, replaced when it is too big (`Bounded`). `Crash` is a command that does not return; `pc` is then
`"dead"`, as after SIGPIPE, and nothing is served any more. Of the commands of `CutShort` the last
byte is missing. `Close` is the event loop's; closing
a socket with input unread resets the connection, so queued replies may be lost. Whether the
socket is non-blocking is chosen in `Init`: the code sets `O_NONBLOCK` on the listening socket
only, which the BSDs and macOS pass on to accepted sockets and Linux does not.
`answers` is a history variable.

**EventLoop.** `Poll` builds `poll_args`; `PollReturns` takes a snapshot of the ready
descriptors; `Accept`, `AcceptFails`, `StartIO`/`EndIO` (dispatch, then one of the
ways `connection_io` ends), `Killed` (it does not end: a write to a client that has left raises
SIGPIPE, or a request just read is one that ends the process; `pc` stays `"dead"`), `EndEvents`, and `process_timers`, one connection a step, during
which the clock stands still because the code reads it once. `poll_args` and `ready` are sets:
`Serving` takes the descriptors in the order of the vector. Ages and the poll timeout
count down instead of clocks counting up, so the state space is finite without a
bound on time. `fd2conn`, `links` and `conn` are `g_data`'s table, the pointers of the idle list,
and memory; `DList` has the pointer assignments. `NonBlocking` is what `accept` does with
`O_NONBLOCK`.

## 3. What is checked

| Run | Instance | Shows |
|---|---|---|
| `heap_loops` | 6 entries, 3 deadlines | order and back references after every sequence of insertions, changes, removals (`SoundWhenIdle`); loops equal the operators; no step loses an item (`ImplementsTimerQueue`) |
| `keyspace` | 2 keys, 3 addresses, 2 workers, 3 items, clock to 2, any client | until the process dies: one owner per Entry, only sorted sets in the pool, earliest deadline on top, live back references right |
| `keyspace_careful` | 2 keys, 3 addresses, 1 worker, clock to 3, waits of 1, one key a pass or two, careful clients, sockets that do not block, fair | no fault, no timer outlives its key, implements `KVStore`, overdue keys go, and are late by no more than a full wait for each pass needed (`LateByWaits`) |
| `hashmap` | 6 nodes, 5 keys, tables of 1, 2, 4, one node moved per call | chains, sum of the sizes, pace of the rehash, implements `NodeSet`; exact `KEYS` and a right `ht2.size` until a node of `ht2` is deleted |
| `zset` | 6 members, 2 scores | until a rotation below the root: every member in the tree, order, balance, counts; `avl_offset` exact |
| `thread_pool` | 3 workers, 4 jobs, fair | queue under the mutex, no lost wake-up, implements `JobPool`, liveness included |
| `conn` | 2 requests, pipelined or not, of 12 commands: some for each outcome, two with a word for a number, two that may end the process, one with too many words, one too long, one cut short; both socket modes, fair | buffers fit; requests and replies whole and in order; the client prints what the command said; only whole requests that make sense are answered, refusals and ends of the process only for cause; requests answered in turn |
| `loop` | 3 clients, 2 descriptors, 2 blocks of memory, fair | table, both directions of the list, descriptors, memory agree; events reach their own connection; idle list in order; dead connections go and everyone is accepted while a descriptor is free, unless a client ends the process |

*Careful* clients never SET a key that exists, never DEL one with a deadline,
ZADD numbers to sorted sets only, never ZREM a member, and stay until they have their replies
(`Polite = TRUE`). The run with careful clients
shows what the design promises; the run with any client shows what survives until
the first fault; the violation runs show faults. In `hashmap` nodes
are deleted from either table. After a delete from the one being drained its size is wrong
(`Counted` is false), and what then still holds is claimed without it; the process ends
when `hm_help_resizing` overruns.

### Where the code does something else

Four runs expect a violation, each a sequence of steps against something the
repository says:

* `keyspace_assertion`: SET, EXPIRE, SET of one key, then the deadline: the
  assertion at `timer.cpp:59` ends the server, since `hm_delete` finds the newer entry.
* `hashmap_overrun`: `hm_delete` counts a node of `ht2` off `ht1` (`hashtable.cpp:111`).
  With the real sizes 4, 8 and 128, after 288 insertions one DEL and one more
  operation read past `ht2.tab`.
* `zset_successor`: `avl_fix` does not attach a subtree it has rotated to its parent,
  so five ZADDs with ascending scores leave members out of the tree, and
  `znode_offset(znode, +1)` is not the successor.
* `loop_blocking`: on Linux accepted sockets block, and one client that keeps its
  connection open keeps the server in `read`.

The models contain more that a user of the server should know, without a run of
its own: a key SET twice is still found after one DEL (`Set`, `Del`); DEL leaves the
heap item behind, and a later Entry at that address gets its deadline from the next
sift (`Del`, `PutTimer`); `now + ttl * 1000` wraps modulo 2^64, so a huge EXPIRE takes
effect at once (`Expire`, `ClockMod`); a GET or ZSCORE of a missing key closes the connection and
drops the reply (`Refuse`); ZADD of something that is no number, or to a string, ends
the server (`Zadd`, `Crash`), and so does ZREM of a member (`Zrem`, `Popped`) and a reply to a client that
has gone, by SIGPIPE (`WriteToNobody`, `Killed`); on non-blocking sockets a request already
buffered when a reply has to wait for POLLOUT is not looked at afterwards
(`utils.cpp:161`, the reason why `AnsweredInTurn` makes its distinction); the client does not
know the type of a score, so the reply to a successful ZSCORE cannot be shown (`client.cpp:82`,
the exception in `RepliesUnderstood`); and a key is served after its deadline until `poll`
happens to return (`LateByWaits` bounds it, `timer.cpp:26`).

### Bounds, and why they are enough

* *Heap*: six items make a three-level heap in which a removed item is the last,
  an inner one, or one whose replacement must go up; three deadlines give smaller,
  equal and greater.
* *Keyspace*: three addresses for two keys let two entries share a key while a third
  sits in the heap, or in the pool, and an address come back. The clock's ticks
  give a deadline that is past, one that is now, one ahead. In the careful run only `poll` takes
  time (`Prompt`), a wait is one tick and `k_max_works` is 0, so that two keys due at once take two
  passes and the second is late. `MaxHeap` stops EXPIRE from adding a fourth dangling item. In
  `keyspace` `k_max_works` is 1, so a pass handles two entries and leaves a third, with the code's
  off-by-one kept. `ClockMod` is the 2^64 of `uint64_t`: 16 where wrapping is of no interest, and
  5 in the careful run, where the latest deadline is the greatest that does not wrap.
* *HashMap*: sizes and factors are constants of the code scaled to 1, so six nodes
  force two rehashes that take several calls each; `hashmap_overrun` uses the code's.
* *SortedSet*: six members give trees of three levels with every kind of deletion, two
  scores give ties that the name breaks.
* *ThreadPool*: more jobs than workers, so that all workers are awake, some, none.
* *Connection*: fields of two cells can be cut in two; a body of 20 cells is filled exactly by a
  command, exceeded by another (sent by clients other than `client.cpp`), and too small for
  one reply, which becomes the error reply. Segments end after four cells or when all is sent,
  which cuts within a header, between fields and within a word; the send queue
  of two cells takes a reply in many writes. Two requests are enough for one to wait while the
  other is answered.
* *EventLoop*: fewer descriptors and less memory than clients, so both run out and
  both are reused. The idle timeout is one tick: a connection is idle long enough
  or it is not, which is all the code asks.

Bounds appear in guards only as the named constants `MaxNow`, `MaxHeap`,
`MaxRequests`, `Window`, `Cuts`, `NumJobs`, and in `Idle` of `SortedSet`. Symmetry is used only in runs without liveness
properties, over values the modules never order or choose from.

`CHECK_DEADLOCK FALSE` is set where the system may stop: a keyspace whose process
has died (`keyspace`, `keyspace_assertion`, `hashmap`, `hashmap_overrun`), a connection
that is closed or gone with the process (`conn`), and a tree that ZREM or an inner rotation has ended (`zset`,
`zset_successor`).

### Fairness

Weak fairness on the server's own steps (one thread that is always scheduled; `poll`
returns within `next_timer_ms`, at most 10 s; no step has to end the process), on the clock, on the
network's delivery and on a client's reading of replies, and on each worker in `ThreadPool`.
In `EventLoop` the clock has strong fairness, since it cannot move during `process_timers`.
In `Keyspace` the thread gets back to `process_timers` (`StartTimers`) only where sockets do not block:
on Linux accepted ones do (`Server.cpp:24`), `read` at `utils.cpp:120` may then wait for one client for
good, as `loop_blocking` shows, and no key expires any more. The constant `NonBlocking` says which it is, the fairness
of `StartTimers` and the claim of `ExpiredKeysGo` depend on it, and `keyspace_careful` has it `TRUE`, as on the BSDs
and macOS. `Connection` and `EventLoop` model the blocking itself.
`Keyspace` assumes nothing of the workers: expiry does not wait for the pool, and that every
sorted set handed over is freed is the liveness of `JobPool`. Clients are never made to
send, connect or hang up. Taking the mutex has weak fairness only: the server can
lock it again before a waiting worker gets it, and the properties hold in spite of that
because the number of jobs is finite.

## 4. What is proved

TLAPS checks these for every value of the constants that satisfies the named
assumption of the module (`HeapLoopsAssumption`, `KeyspaceAssumption`, `ThreadPoolAssumption`,
`EventLoopAssumption`, `WireAssumption`, `ConnectionAssumption`, `HashMapAssumption`,
`SortedSetAssumption`), which only say what the constants are, `None` being none of the other
values, and the nodes a sorted set may ever have being finitely many, as memory is. `TagsAreStrings` in `Wire` says that the literals it
uses are strings, which the provers cannot see.

**Keyspace** (`KeyspaceProofs`): `TypeCorrect`, `HeapIndexSound`, `SingleOwner`,
`HeapStaysOrdered` and `PoolOnlySortedSets`, each `Spec => []...`, from one inductive invariant

    Inv == TypeOK /\ IndexSound /\ Ownership /\ EarliestOnTop /\ PoolGetsSortedSets

`TypeOK` alone is not inductive: `RemoveTimer` and `PutTimer` index the heap with
`heap_idx[a]`, and only `IndexSound` says that the index is in range. `IndexSound` speaks
of live entries only, because items of freed entries dangle and write to whatever is at
their address; that it survives them is the point. A removal
writes `heap_idx` of the entry moved into the gap, so the proof needs that two
live entries never share a position, which follows from `IndexSound` itself (the item
there has one `ref`). `Ownership` supplies that the entry a command finds in `db` is
live, so that `IndexSound` applies to it, and that freeing it leaves no other owner.
There is one step per action. The work on the heap is in `Lemmas`:
`VisitedProperties` (the positions a sift can pass), `ClimbType` and `SinkType` (the paths),
`SiftPermutes` (a sift permutes the items of the slots it writes, and what it writes to
`heap_idx`), `SiftFinds`, then `HeapUpdateProperties`, `PutTimerProperties` and
`RemoveTimerProperties`: types, lengths and `FindsOwn` (the entries of a given set
find their own items) go in and come out. Nothing is assumed there of the order of the heap.
The order is a second argument over the same operators: `OrderedBut` says that a heap is ordered
but for one item that may be too small or too large for its place. `ClimbOrders` and
`SinkOrders` show that a sift restores the order in its direction, `HeapUpdateOrders` that
`heap_update` picks the right one, `PutTimerOrders` and `RemoveTimerOrders` that every insertion, change
and removal ends in an ordered heap, dangling items included. `PoolStep` needs `Ownership`: what
the pool holds is not in the table, so no command frees it or gets its address.

**Heap loops** (`HeapLoopsProofs`): `TypeCorrect`, `HeapSoundAtRest`, `LoopsComputeOperators` and
`HeapImplementsTimerQueue`, for any number of entries, from

    Inv == TypeOK /\ Settled /\ Links /\ Course /\ OnTheWay

`Settled` is what must hold when no loop runs; `Links` that the heap with the item in hand put into
the hole has every item found by its entry, but for the one `heap_idx` still to be written;
`Course` that a loop which started as `heap_up` or `heap_down` would, from the hole on, give what
the operator `Climb` or `Sink` gives for the whole; `OnTheWay` which part of the heap is in order
meanwhile. The step of `LoopsComputeOperators` is that one iteration unfolds the operator once
(`SiftStep`, with `UpUnfolds` and `DownUnfolds`, `SiftEnd` at the end): the operator's path of slots
is the first slot and the path from the second. Without `OnTheWay` the loops might stop too early:
`heap_down` compares only with the children. That the top of an ordered heap is the least of all
(`TopIsEarliest`) is by induction along parents, on the least position that breaks it
(`LeastNat`). `NextQueue` is the refinement: an iteration exchanges two items and leaves the
set of deadlines alone (`ExchangeShows`), the start of an operation changes one (`PutShows`,
`TakeOutShows`).

**Keyspace with careful clients** (`KeyspaceProofs`, second half): `CarefulNeverFault`, `NoTimerOutlivesKey`,
`ImplementsStoreForCareful` and `LatenessBounded`, under the assumption `Polite`, the first three from

    CarefulInv == Inv /\ NoFault /\ UniqueKeys /\ TimersMatch /\ ReadEarlier

`UniqueKeys` is why `hm_delete` finds the entry that expired. `TimersMatch` says that items and
`heap_idx` match one to one, over all addresses and not only live ones, and that only an entry of the
table has a timer: so a new Entry starts where no item points, a sift writes to live entries
only, and an entry freed by the pool had none. It needs more of the heap than `Inv` does:
`SiftTracks`, `PutTimerTracks` and `RemoveTimerTracks` of `Lemmas` show that an insertion, a
change or a removal leaves every other entry its own deadline (`SameTimers`). The refinement maps
SET and ZADD of a new key to `Insert`, DEL to `Delete`, EXPIRE to `SetDeadline`, an iteration of
the expiry loop to `Evict`, its start and end to `Switch`, the clock to `Advance`, and the
workers to steps that change nothing. `Evict` needs `ReadEarlier`, that the time the loop compares
with is not ahead of the clock. `SetDeadline` needs `NoWrap`, that `MaxNow` plus the longest
EXPIRE is less than `ClockMod`: with the real 2^64 it is an assumption on the clients, because
`common.cpp:43` does not check. None of the three uses the order of the heap.

`LatenessBounded` does: for careful clients, `NoWrap` and finitely many keys, `LateByWaits` holds
(which itself asks for `Prompt`: only `poll` takes time). It is from `CarefulInv`, `Pace` and
`PassBegun`. `DueBy(d)` are the keys with a deadline no later than `d` and `Rounds(n)` the
passes that remove `n` keys; `Pace` says of each key that is late, with deadline `d`, that

    now + Spent + EmptyWait * (Rounds(Cardinality(DueBy(d)) + nworks) - 1) <= d + EmptyWait * Passes

where `Spent` is what is left of the wait: the passes still needed, plus the time gone by, are
within the bound. No command adds to `DueBy(d)`, because EXPIRE sets no deadline that is over
(`CommandPace`). An iteration of the expiry loop removes a key due before all others
(`EarliestOnTop`), hence one of `DueBy(d)`, and counts it in `nworks`; when it is the last of its
pass the count starts again with one round less and one wait more (`ExpireTopPace`). A pass
that ends before its limit leaves no late key, which needs `PassBegun`: the clock stands still
during a pass. Only the clock makes a key late, and then a wait is under way and `DueBy(d)` is
at most all keys (`TickPace`).

**Event loop** (`EventLoopProofs`): `TypeCorrect`, `BooksBalance`,
`EventsFindTheirOwner` and `IdleListInOrder`, for any number of clients, descriptors and addresses, from

    Inv == TypeOK /\ Tables /\ Ordered /\ Phases /\ OwnEvents

Its first lemmas show what `dList_init`, `list_insert_before` and `dlist_detach` do to a circular list
of any length (`InitCircular`, `InsertCircular`, `DetachCircular`): both pointers of every node go
through the list as before, with the node last or taken out. `Ordered` says that some sequence
lists the connections as the pointers go, oldest first; it is the witness that each step extends
or shortens, so that the front of the list is the oldest connection (`FrontIsOldest`) and `poll`'s
timeout is short enough. `Phases` is what the thread knows at each place of its loop: that the events gathered
are for connections that still exist, because only `EndIO` closes one before they are handled, and
only the one whose event it is. `Killed` leaves everything as it was, so what is proved holds to the end.

**Connections** (`ConnectionProofs`): `TypeCorrect`, `RoomToRead`, `RequestsKept`, `RepliesKept`,
`RefusedForCause` and `RepliesRead`, the first four for any commands, any lengths and sizes and however the bytes are cut up on the way, from

    Inv == Typed /\ Phases /\ InStream /\ OutStream

`Typed` adds to `TypeOK` that an answer is a sequence of values the server writes. `InStream` and
`OutStream` are what the bytes are: the buffer, what the client has written and what it still has to
write are, end to end, the frames of the requests not yet answered; the reply buffer and what is on
the way back are the frames of the answers, up to what the server still owes or will no longer send.
No step of either side knows where a frame begins but by reading a length where the last frame
ended, and that this never takes the middle of a message for its beginning (`HeadOfStream`,
`FirstMessage`) is the heart of both. `RequestSayable` and `BoundedType` bound a message by the
number that is its length. `Phases` is what `END` and the poll flags say of the two buffers;
`RoomToRead` needs that `one_request` ran until it could not. What is said of byte strings of
any length is shown by least counterexamples (`LeastNat`), and a recursive function over them is shown
to satisfy its equation by `RecursiveFunction` of `Lemmas`.

`RefusedForCause` says which requests are answered, which refused and which end the process. It adds the invariants
`Deserved` (every answer is to a whole request that deserves one), `Refused` and `Crashed` (the end of the
connection, or of the process, has its reason in the request at hand). For them the parser has to invert the
client: `WordsIs` gives `Words` its equation, `ReadsBack` and `ParseBody` show that `parse_req` makes
of a body that `send_req` built the words it was built from, or refuses it because they are too
many, and `ParseCut`, on `CutFailsAll`, that it makes nothing of a body without its last byte: some length
then says more than is there. `RequestAtHand` ties this to the buffer: what `one_request` parses is the first
request not yet answered (`ParsedWhole`, `WholeParsed`). `RequestByName` says which reply a command gets
by its words, although the code compares bytes (`SameName`), and `RepliesVerdict` which of them may be
answered and which refused: a ZADD without a number neither, so it can only end the process, which
`CrashForCause` allows to three commands. `DeadUnread` is for SIGPIPE: a process dies while writing only when
a reply has not been received whole; `FramesIs` and `FramesSound` show that `read_full` never
takes part of a message for a message, so a reply counted as received is one.

`RepliesRead` adds `AllReadable`: every answer is a single value, or an array's header followed by as
many single values as it announces (`ReplyShapes`), and no longer than `k_max_msg`. That the decoder
inverts the `out_*` functions is `TellsScalar` for one value (`TellsInt` needs that reversing twice
changes nothing), `UnderstoodAll` for several in a row, and `ReadsArray` for an array; `ResponsesIs` gives
the recursion its equation. `FramesAreReplies` is the tie to the stream: the frames a client has are
the first replies given. The theorem assumes `k_max_args < 6` (`common.h:26` has 4), so that ZQUERY, of
six words, is refused before it is executed: its reply is a row of values without an array header, or
nothing at all, and `on_response` would print the first value only.

**Hash table** (`HashMapProofs`): `TypeCorrect`, `TablesSound`, `NeverTooFull`, `KeysCounted`,
`DeleteAloneMiscounts` and `HashMapImplementsNodeSet`, for any nodes, keys and hash codes, any first
size, load factor and work per call, from

    Inv == AtRest(hmap) /\ RetOK /\ fault \in BOOLEAN

`AtRest` is `Sound`, which also holds between two rounds of the loop, and what the loop leaves behind.
`Sound` says that nodes are where their hash codes put them (`Placed`), in one table only, that the
sizes add up, and that ht2 counts at least the nodes it has: a deletion can only make it count too many
(`Miscount`), so the loop never stops with nodes left and frees them. `Light` is why a rehash is over in time:
with `Load`, ht1.size + 2 * ht2.size, and `Limit`, the nodes a table may have, an insertion adds 1
to the load, each node moved takes 1 away, and a call that does not overrun moves at least one while
ht2 has any. So the load stays below the limit, and a start of a rehash, which doubles both, finds
the load at the limit and moves a node at once. That the code moves 128 nodes a call is
not needed: one is enough.
`MovedIs` gives the recursion of the loop its equation and `MovedKeeps` what each round keeps to the
whole; `Inserted`, `Popped` and `Unlinked` are the three changes of a chain, all by `ChainChanged`.
For KEYS, `FlattenRange` of `Lemmas` says that chains without common nodes, joined, repeat
nothing, and `InjectiveLength` counts them. The refinement maps each operation to the abstract one:
`FoundIs` is that a search in ht1 and then ht2 misses no node with the key. An overrun is a stutter.

**Sorted sets** (`SortedSetProofs`): `TypeCorrect`, `TreeIsSound` and `OffsetIsExact`, for any finite number of
members and any scores, from

    SetInv == TypeOK /\ Control /\ (~inner /\ pc # "dead" => \E U : TreeWith(U))

`U` gives each node the set of the nodes of its subtree. The code has no such thing; it lets every
fact about a tree be one about sets, without recursion. `Shape` says that a subtree is its node and
the two subtrees under it, that two of them are nested or apart, that pointers agree both ways, and
that no node outside a subtree is between two inside (`Convex`). It is a statement about given nodes, top
and members, because during a command these are not the whole set: `Held` leaves out the node that
`tree_add` is to hang and the one that `avl_del` has taken out, and `Top` is what `avl_del` will return.
Each way of changing a tree has a lemma of what it makes of `U`: `HungShape` (a leaf: one element more in the
sets above it), `TakenOutShape` (one less), `TurnedShape` (a rotation: two sets change) and
`RenamedShape` (the victim takes the place of the node it is next to). That the descent ends at the right
place is `FitsDown`, that the search for the successor does is `SeekFinds`.

`Mending` is the invariant of `avl_fix`: there is an old depth `o` of the cursor's subtree such that all nodes
outside the path are exact, those above are exact with `o` for the depth of that subtree, and the new depth is
off by at most one (`MendUp`, one iteration up). At the root it may rotate: `SingleTurn` and `DoubleTurn` are
the arithmetic, `RootTurn` the result. `inner` is left open, and nothing is said of a tree after a rotation
below the root but its types. That is also why `TypeOK` asks counts and depths only to be positive: once two
nodes share a child, what the counts add up to is no longer a number of nodes. `Control` bounds the stack: each call of
`avl_del` is about the node next after the one before (`Adjacent`, which rotations in between cannot change),
so the second has no left child, its right child, if any, is a leaf by balance (`LeafRight`), and the third has none.

`TreeSound` and `OffsetExact` are then about `U`. The sizes of the subtrees grow along `parent`, so the way up from a node, which `Above`
cuts off after as many steps as there are members, does reach the root (`ClimbPasses`), and
`UnderIs` is that the nodes under `n` are those of `U[n]`. For `avl_offset`, `EdgeCount` says how
much the ranks of a node and its child differ; every step therefore keeps `pos` the distance in rank (`OnTheWay`),
a step up is taken only when the rank is not in the subtree and a step down only when it is (`StepUp`,
`StepLeft`, `StepRight`), and the walk leaves the tree only when no member has the rank. `Far` is the
measure that ends it: up to the root and down again, at most twice the number of members.

**Thread pool** (`ThreadPoolProofs`): `TypeCorrect`, `MutexGuardsQueue`,
`SignalsNotLost` and `ImplementsJobPoolSafety`, from

    Inv == TypeOK /\ QueueGuarded /\ Places /\ NoLostSignal

`Places` ties `pc` to `asleep`. `NoLostSignal` is itself inductive given the others:
a worker goes to sleep only with the mutex and an empty queue, a push raises both sides
through the pending signal, and a signal adds a worker when any sleeps. The refinement adds
`Jobs`: the queue, the jobs in the workers' hands and the finished ones are, without
overlap, the jobs queued so far, the queue in order.

## 5. What is only model-checked

Liveness (`ExpiredKeysGo`, `AnsweredInTurn`, `DeadConnectionsGo`,
`EveryoneAccepted`, the fairness of `JobPool`): out of the prover's reach. Every invariant and
every safety refinement of a passing run has a theorem.

## 6. What is not modelled

* **`zset_query`**: it copies the name past the end of a local variable
  (`zset.cpp:124-128`), which is undefined, and no client can send the command that
  calls it (`k_max_args` is 4, ZQUERY has 6 words). In `Keyspace` a sorted set is an
  Entry that goes to the pool.
* **What commands do to the data, in `Wire`**: each may give any of the replies it has; which one is
  the right one for the state of the database is not asked. `Keyspace` has the state.
* **`query` in `client.cpp`**, which nothing calls, and `main` there: its exit status is 1 after
  every good reply, because `read_resp` returns the number of bytes it read.
* **Deadlines that wrap**: `ClockMod` computes them, and no run asks for one.
* **Tests and build files**: no state of the server's.
* The end of the process when `poll` itself, `socket`, `bind` or `listen` fails; wording
  and logging.

## 7. Plan

All components that keep state are modelled. What would extend this:

1. `zset_query` and `SortedSet` after an inner rotation, once the code is repaired.
2. `EventLoop` and `Keyspace` composed with one clock, which would give the wait of `LateByWaits`
   from the idle connections instead of its longest.
