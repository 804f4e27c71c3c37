----------------------------- MODULE EventLoop -----------------------------
(***************************************************************************)
(* The server's main loop (Server.cpp, with the idle timeouts of timer.cpp *)
(* and the list of module DList): one thread that polls the listening socket  *)
(* and every connection, accepts, serves and closes them, and closes the   *)
(* ones that have been idle for k_idle_timeout_ms.                         *)
(*                                                                         *)
(* What a connection does with its data is module Connection's; here       *)
(* connection_io ends in whatever state it can end in, or with the end of  *)
(* the process, after which pc stays "dead".  Instead of the               *)
(* clock and idle_start a connection has its age, the time since           *)
(* idle_start, which stops at the timeout: the code only compares it.      *)
(***************************************************************************)
EXTENDS DList, FiniteSets

CONSTANTS
  Client,      \* each connects once
  Conn,        \* addresses malloc may return for a Conn
  Fd,          \* file descriptors left for connections, numbers
  None,
  Idle,        \* &g_data.idle_list
  k_idle_timeout, \* in ticks of the clock
  EmptyWait,   \* how long poll may wait when there is no connection
  NonBlocking  \* whether accept gives the new socket O_NONBLOCK (BSD and macOS
               \* do when the listening socket has it, Linux does not)

Record == [fd : Fd, state : {"REQ", "RES"}, age : 0..k_idle_timeout]  \* a Conn

ASSUME EventLoopAssumption ==
  /\ IsFiniteSet(Fd) /\ Fd \subseteq Nat
  /\ None \notin Client \cup Conn \cup Fd \cup Record
  /\ IsFiniteSet(Conn) /\ Idle \notin Conn \cup {None}
  /\ k_idle_timeout \in Nat \ {0} /\ EmptyWait \in Nat
  /\ NonBlocking \in BOOLEAN

VARIABLES
  status,      \* clients: "off", "backlog", "open" or "closed"
  mode,        \* clients: "quiet", "active" (poll reports what the server waits
               \* for) or "hung" (has hung up, or will send nothing legal)
  sock,        \* kernel: the client behind each descriptor, or None
  conn,        \* memory: the Conn at each address, or None
  fd2conn,     \* g_data.fd2conn
  links,       \* the idle_list of every Conn and the list's head
  pc,          \* where the server's thread is, or "dead"
  wait,        \* time left before poll returns without an event
  poll_args,   \* the descriptors polled
  ready,       \* those with revents that have not been handled yet
  cur          \* the connection connection_io is working on, or None

clients == <<status, mode>>
server == <<sock, conn, fd2conn, links, cur>>
vars == <<clients, server, pc, wait, poll_args, ready>>

Listener == [fd |-> None, client |-> None]
Backlog == {c \in Client : status[c] = "backlog"}

Init ==
  /\ status = [c \in Client |-> "off"] /\ mode = [c \in Client |-> "quiet"]
  /\ sock = [f \in Fd |-> None] /\ conn = [a \in Conn |-> None]
  /\ fd2conn = [f \in Fd |-> None]
  /\ links = [n \in Conn \cup {Idle} |-> [prev |-> n, next |-> n]]
  /\ pc = "poll" /\ wait = 0 /\ poll_args = {} /\ ready = {} /\ cur = None

-----------------------------------------------------------------------------
Oldest == links[Idle].next

next_timer_ms ==
  IF dList_empty(links, Idle) THEN EmptyWait ELSE k_idle_timeout - conn[Oldest].age

Registered == {f \in Fd : fd2conn[f] # None}
ClientArgs == {[fd |-> f, client |-> sock[f]] : f \in Registered}

(* Mutant of PollArgs: the listening socket is lost with the first clear. *)
PollArgsNoListener == ClientArgs

(* Mutant of PollArgs: the clear is forgotten. *)
PollArgsKept == {Listener} \cup ClientArgs \cup poll_args

(* client is not in the code: it says whose event revents will be.         *)
PollArgs == {Listener} \cup ClientArgs

Poll ==
  /\ pc = "poll"
  /\ poll_args' = PollArgs
  /\ wait' = next_timer_ms
  /\ pc' = "polling"
  /\ UNCHANGED <<clients, server, ready>>

HasEvent(arg) == IF arg = Listener THEN Backlog # {} ELSE mode[arg.client] # "quiet"

PollReturns ==
  /\ pc = "polling"
  /\ ready' = {arg \in poll_args : HasEvent(arg)}
  /\ ready' # {} \/ wait = 0
  /\ pc' = "events"
  /\ UNCHANGED <<clients, server, wait, poll_args>>

(* The listening socket comes first, then the descriptors in the order of  *)
(* the table.                                                              *)
Accepting == pc = "events" /\ Listener \in ready
Serving(arg) ==
  /\ pc = "events" /\ Listener \notin ready
  /\ arg \in ready /\ \A other \in ready : arg.fd <= other.fd

FreeFds == {f \in Fd : sock[f] = None}
FreeMem == {a \in Conn : conn[a] = None}

(* accept fails, for the client is gone or no descriptor is left, or       *)
(* malloc does, and the new descriptor is closed.                          *)
AcceptFails ==
  /\ Accepting
  /\ \/ Backlog = {} /\ UNCHANGED status
     \/ FreeFds = {} /\ UNCHANGED status
     \/ FreeFds # {} /\ \E c \in Backlog : status' = [status EXCEPT ![c] = "closed"]
  /\ ready' = ready \ {Listener}
  /\ UNCHANGED <<mode, server, pc, wait, poll_args>>

conn_put(f, a) == [fd2conn EXCEPT ![f] = a]

(* The new descriptor is the lowest free one. *)
Accept ==
  /\ Accepting
  /\ \E c \in Backlog, a \in FreeMem, f \in FreeFds :
       /\ \A other \in FreeFds : f <= other
       /\ status' = [status EXCEPT ![c] = "open"]
       /\ sock' = [sock EXCEPT ![f] = c]
       /\ conn' = [conn EXCEPT ![a] = [fd |-> f, state |-> "REQ", age |-> 0]]
       /\ links' = list_insert_before(dList_init(links, a), Idle, a)
       /\ fd2conn' = conn_put(f, a)
  /\ ready' = ready \ {Listener}
  /\ UNCHANGED <<mode, cur, pc, wait, poll_args>>

(* Mutant of Refreshed: the connection keeps its place in the idle list. *)
RefreshedInPlace(a) == links

Refreshed(a) == list_insert_before(dlist_detach(links, a), Idle, a)

(* The descriptor is registered (Server.cpp:113-116): see OwnEvents. *)
StartIO ==
  /\ \E arg \in ready : Serving(arg) /\ cur' = fd2conn[arg.fd] /\ ready' = ready \ {arg}
  /\ conn' = [conn EXCEPT ![cur'].age = 0]
  /\ links' = Refreshed(cur')
  /\ pc' = "io"
  /\ UNCHANGED <<clients, sock, fd2conn, wait, poll_args>>

(* What connection_io can leave behind.  A blocking socket keeps it in its *)
(* loops until the connection ends.                                        *)
Outcomes(a) ==
  LET hung == mode[sock[conn[a].fd]] = "hung"
  IN IF ~NonBlocking THEN (IF hung THEN {"END"} ELSE {})
     ELSE IF ~hung THEN {"REQ", "RES", "END"}
     ELSE IF conn[a].state = "REQ" THEN {"END"} ELSE {"REQ", "END"}

(* Close the connection and free it; the pointers of freed memory mean     *)
(* nothing, and are kept as dList_init leaves them.                        *)
Close(a) ==
  LET f == conn[a].fd
  IN /\ status' = [status EXCEPT ![sock[f]] = "closed"]
     /\ sock' = [sock EXCEPT ![f] = None]
     /\ fd2conn' = [fd2conn EXCEPT ![f] = None]
     /\ conn' = [conn EXCEPT ![a] = None]
     /\ links' = dList_init(dlist_detach(links, a), a)

Quieted(c) == [mode EXCEPT ![c] = IF @ = "active" THEN "quiet" ELSE @]

(* Mutant of EndIO: a connection in STATE_END is not closed. *)
EndIOKeepsEnd ==
  /\ pc = "io"
  /\ \E s \in Outcomes(cur) : conn' = [conn EXCEPT ![cur].state = s]
  /\ mode' = Quieted(sock[conn[cur].fd])
  /\ cur' = None
  /\ pc' = "events"
  /\ UNCHANGED <<status, sock, fd2conn, links, wait, poll_args, ready>>

EndIO ==
  /\ pc = "io"
  /\ \E s \in Outcomes(cur) :
       IF s = "END" THEN Close(cur)
       ELSE conn' = [conn EXCEPT ![cur].state = s] /\ UNCHANGED <<status, sock, fd2conn, links>>
  /\ mode' = Quieted(sock[conn[cur].fd])
  /\ cur' = None
  /\ pc' = "events"
  /\ UNCHANGED <<wait, poll_args, ready>>

(* connection_io may not come back at all: a write to a client that is     *)
(* gone raises SIGPIPE (utils.cpp:39), and while requests are read a       *)
(* command may end the process (Connection.Crash).                         *)
Killed ==
  /\ pc = "io"
  /\ conn[cur].state = "REQ" \/ mode[sock[conn[cur].fd]] = "hung"
  /\ pc' = "dead"
  /\ UNCHANGED <<clients, server, wait, poll_args, ready>>

EndEvents ==
  /\ pc = "events" /\ ready = {}
  /\ pc' = "timers"
  /\ UNCHANGED <<clients, server, wait, poll_args, ready>>

(* Mutant of Due: a connection with a reply to send is left alone.         *)
DueREQ(a) == conn[a].age = k_idle_timeout /\ conn[a].state = "REQ"

Due(a) == conn[a].age = k_idle_timeout

(* One turn of the loop of process_timers, which looks no further than the *)
(* first that is not idle enough.                                          *)
process_timers ==
  /\ pc = "timers"
  /\ IF ~dList_empty(links, Idle) /\ Due(Oldest)
     THEN Close(Oldest) /\ UNCHANGED pc
     ELSE pc' = "poll" /\ UNCHANGED <<status, sock, conn, fd2conn, links>>
  /\ UNCHANGED <<mode, cur, wait, poll_args, ready>>

-----------------------------------------------------------------------------
(* process_timers reads the clock once, before its loop. *)
Tick ==
  /\ pc # "timers"
  /\ wait' = IF wait = 0 THEN 0 ELSE wait - 1
  /\ conn' = [a \in Conn |->
                IF conn[a] = None THEN None
                ELSE [conn[a] EXCEPT !.age = IF @ = k_idle_timeout THEN @ ELSE @ + 1]]
  /\ UNCHANGED <<clients, sock, fd2conn, links, cur, pc, poll_args, ready>>

Connect(c) ==
  /\ status[c] = "off"
  /\ status' = [status EXCEPT ![c] = "backlog"]
  /\ UNCHANGED <<mode, server, pc, wait, poll_args, ready>>

GiveUp(c) ==
  /\ status[c] = "backlog"
  /\ status' = [status EXCEPT ![c] = "closed"]
  /\ UNCHANGED <<mode, server, pc, wait, poll_args, ready>>

Act(c) ==
  /\ status[c] = "open" /\ mode[c] = "quiet"
  /\ mode' = [mode EXCEPT ![c] = "active"]
  /\ UNCHANGED <<status, server, pc, wait, poll_args, ready>>

Hangup(c) ==
  /\ status[c] = "open" /\ mode[c] # "hung"
  /\ mode' = [mode EXCEPT ![c] = "hung"]
  /\ UNCHANGED <<status, server, pc, wait, poll_args, ready>>

Server == Poll \/ PollReturns \/ AcceptFails \/ Accept \/ StartIO \/ EndIO
          \/ EndEvents \/ process_timers

Next == Server \/ Killed \/ Tick \/ \E c \in Client : Connect(c) \/ GiveUp(c) \/ Act(c) \/ Hangup(c)

Spec == Init /\ [][Next]_vars

(* The server's thread is run and the clock advances, strongly fair since  *)
(* it is read once in each process_timers; clients need not do anything,   *)
(* and none has to kill the server.                                        *)
FairSpec == Spec /\ WF_vars(Server) /\ SF_vars(Tick)
-----------------------------------------------------------------------------
Arg == [fd : Fd, client : Client] \cup {Listener}

TypeOK ==
  /\ status \in [Client -> {"off", "backlog", "open", "closed"}]
  /\ mode \in [Client -> {"quiet", "active", "hung"}]
  /\ sock \in [Fd -> Client \cup {None}]
  /\ conn \in [Conn -> Record \cup {None}]
  /\ fd2conn \in [Fd -> Conn \cup {None}]
  /\ links \in [Conn \cup {Idle} -> [prev : Conn \cup {Idle}, next : Conn \cup {Idle}]]
  /\ pc \in {"poll", "polling", "events", "io", "timers", "dead"}
  /\ wait \in 0..k_idle_timeout \cup 0..EmptyWait
  /\ poll_args \subseteq Arg /\ ready \subseteq Arg
  /\ cur \in Conn \cup {None}

Live == {a \in Conn : conn[a] # None}

(* s lists the connections that exist as the pointers go, oldest first.    *)
Listed(s) == Circular(links, Idle, s)

(* The table, the idle list in both its directions, the descriptors and    *)
(* the memory agree: no connection is leaked, closed twice or reachable    *)
(* after free (Server.cpp:119-124, timer.cpp:41-52).                       *)
Bookkeeping ==
  /\ \A f \in Fd : sock[f] = None <=> fd2conn[f] = None
  /\ \A f \in Registered : fd2conn[f] \in Live /\ conn[fd2conn[f]].fd = f
  /\ \A a \in Live : fd2conn[conn[a].fd] = a
  /\ \E s \in SetToSeqs(Live) : Listed(s)
  /\ cur # None => cur \in Live

(* Descriptors are reused at once, but an event is never taken for that of *)
(* a connection accepted after poll returned, and the connection it is for *)
(* is still there when its turn comes (Server.cpp:102-116).                *)
OwnEvents ==
  \A arg \in ready : arg # Listener => sock[arg.fd] = arg.client

(* next_timer_ms and process_timers look only at the front of the list:    *)
(* it is in order of idle_start, so poll returns in time for every         *)
(* connection and none that is due waits behind one that is not.           *)
IdleInOrder ==
  /\ \E s \in SetToSeqs(Live) :
       Listed(s) /\ \A i, j \in 1..Len(s) : i < j => conn[s[i]].age >= conn[s[j]].age
  /\ pc = "polling" => \A a \in Live : wait <= k_idle_timeout - conn[a].age

(* A connection whose client falls silent or hangs up is closed, unless    *)
(* some client has ended the process before (Killed).                      *)
Open(c) == status[c] = "open"
DeadConnectionsGo ==
  \A c \in Client :
    /\ Open(c) ~> (~Open(c) \/ mode[c] = "active" \/ pc = "dead")
    /\ (Open(c) /\ mode[c] = "hung") ~> (~Open(c) \/ pc = "dead")

(* README.md:15: the server handles multiple clients.  Whoever connects is *)
(* accepted (or malloc fails) however the other clients are busy or        *)
(* silent, unless they have taken every descriptor, or one of them has     *)
(* ended the process: by leaving before its reply or with a command that   *)
(* does.                                                                   *)
EveryoneAccepted ==
  \A c \in Client :
    status[c] = "backlog" ~> (status[c] # "backlog" \/ FreeFds = {} \/ pc = "dead")
=============================================================================
