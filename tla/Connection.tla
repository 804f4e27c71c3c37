----------------------------- MODULE Connection -----------------------------
(***************************************************************************)
(* One connection of the server (utils.cpp): the request and reply buffers *)
(* of a Conn, the loops that read, parse, answer and write, the socket's   *)
(* two queues and the client at the other end.                             *)
(*                                                                         *)
(* The bytes are those of Wire.tla: what the server makes of a request it  *)
(* reads out of rbuf.  A server step is one system call or one pass of     *)
(* one_request's code.                                                     *)
(***************************************************************************)
EXTENDS Wire

CONSTANTS
  Commands,    \* the commands clients send: sequences of words
  Unchecked,   \* those sent by clients other than client.cpp, whatever their length
  CutShort,    \* those of them sent without the last byte
  SndCap,      \* the room in the socket's send queue
  MaxRequests, \* bound: requests a client sends
  Window,      \* bound: requests a client sends without waiting for replies
  Cuts         \* bound: the sizes of segments that do not hold all that is unsent

ASSUME ConnectionAssumption ==
  /\ \A words \in Commands : IsText(words)
  /\ CutShort \subseteq Unchecked /\ Unchecked \subseteq Commands
  /\ W + 1 + 2 * W + Length("response is too big") <= k_max_msg
  /\ SndCap \in Nat \ {0} /\ MaxRequests \in Nat /\ Window \in Nat \ {0}
  /\ Cuts \subseteq Nat \ {0}

VARIABLES
  state,       \* conn->state
  rbuf,        \* conn->rbuf[0 .. rbuf_size)
  wbuf,        \* conn->wbuf[0 .. wbuf_size)
  wbuf_sent,
  pc,          \* where the server is in this connection's code
  nonblocking, \* whether accept gave the socket O_NONBLOCK (BSD and macOS do
               \* when the listening socket has it, Linux does not)
  inq, outq,   \* the socket's receive and send queues
  answers,     \* history: the replies given, as values
  requests,    \* client: the commands sent
  unsent,      \* client: bytes not yet delivered
  got,         \* client: bytes received
  peer         \* client: "open" or "closed"

conn == <<state, rbuf, wbuf, wbuf_sent, nonblocking, answers>>
client == <<requests, unsent, got, peer>>
vars == <<conn, pc, inq, outq, client>>

Init ==
  /\ state = "REQ" /\ rbuf = <<>> /\ wbuf = <<>> /\ wbuf_sent = 0
  /\ pc = "poll"
  /\ nonblocking \in BOOLEAN
  /\ inq = <<>> /\ outq = <<>>
  /\ answers = <<>>
  /\ requests = <<>> /\ unsent = <<>> /\ got = <<>> /\ peer = "open"

-----------------------------------------------------------------------------
(* The event loop calls connection_io when poll reports the socket.        *)
Readable == inq # <<>> \/ peer = "closed"
Writable == Len(outq) < SndCap \/ peer = "closed"

connection_io ==
  /\ pc = "poll"
  /\ \/ state = "REQ" /\ Readable /\ pc' = "read"
     \/ state = "RES" /\ Writable /\ pc' = "write"
  /\ UNCHANGED <<conn, inq, outq, client>>

(* try_fill_buffer, up to the end of its read.                             *)
Read ==
  /\ pc = "read" /\ inq # <<>>
  /\ LET n == Min({W + k_max_msg - Len(rbuf), Len(inq)})
     IN /\ rbuf' = rbuf \o SubSeq(inq, 1, n)
        /\ inq' = SubSeq(inq, n + 1, Len(inq))
  /\ pc' = "request"
  /\ UNCHANGED <<nonblocking, answers, state, wbuf, wbuf_sent, outq, client>>

(* EAGAIN; a blocking socket waits instead. *)
ReadNothing ==
  /\ pc = "read" /\ inq = <<>> /\ peer = "open" /\ nonblocking
  /\ pc' = "poll"
  /\ UNCHANGED <<conn, inq, outq, client>>

(* The end of the stream or a reset. *)
ReadFails ==
  /\ pc = "read" /\ peer = "closed"
  /\ state' = "END" /\ pc' = "close"
  /\ UNCHANGED <<nonblocking, answers, rbuf, wbuf, wbuf_sent, inq, outq, client>>

(* The length field of the request read first. *)
len == Number(At(rbuf, 0, W))
TooLong == Len(rbuf) >= W /\ len > k_max_msg
Complete == Len(rbuf) >= W /\ W + len <= Len(rbuf)
Parsed == parse_req(At(rbuf, W, len))

(* Mutant of Rest: the length field stays in the buffer. *)
RestWithHeader == SubSeq(rbuf, len + 1, Len(rbuf))
(* memmove of what follows the request *)
Rest == SubSeq(rbuf, W + len + 1, Len(rbuf))

(* Mutant of Bounded: no bound on the reply. *)
Unbounded(out) == out
(* The reply, or an error when it is too big for wbuf. *)
Bounded(out) ==
  IF W + Len(Bytes(out)) > k_max_msg THEN <<Error(ERR_2BIG, "response is too big")>> ELSE out

(* A socket closed with input unread resets the connection: what is still  *)
(* queued for the client may be lost.                                      *)
LeftToRead == {outq} \cup (IF inq = <<>> THEN {} ELSE {<<>>})

(* one_request with too little data: try_fill_buffer reads on. *)
NeedMore ==
  /\ pc = "request" /\ ~TooLong /\ ~Complete
  /\ pc' = "read"
  /\ UNCHANGED <<conn, inq, outq, client>>

(* Whatever reply came with an error code is not sent. *)
Refuse ==
  /\ pc = "request"
  /\ \/ TooLong
     \/ /\ ~TooLong /\ Complete
        /\ Parsed = {} \/ \E cmd \in Parsed : \E reply \in do_request(cmd) : reply.err # RES_OK
  /\ state' = "END" /\ pc' = "close"
  /\ UNCHANGED <<nonblocking, answers, rbuf, wbuf, wbuf_sent, inq, outq, client>>

(* one_request, up to its call of stateres *)
Answer ==
  /\ pc = "request" /\ ~TooLong /\ Complete
  /\ \E cmd \in Parsed : \E reply \in do_request(cmd) :
       /\ reply.err = RES_OK
       /\ wbuf' = Frame(Bounded(reply.out))
       /\ answers' = Append(answers, Bounded(reply.out))
  /\ rbuf' = Rest
  /\ state' = "RES" /\ pc' = "reply"
  /\ UNCHANGED <<nonblocking, wbuf_sent, inq, outq, client>>

(* one_request does not come back from do_request.  The sockets are closed *)
(* with the process, as by Close.                                          *)
Crash ==
  /\ pc = "request" /\ ~TooLong /\ Complete
  /\ \E cmd \in Parsed : MayEnd(cmd)
  /\ pc' = "dead"
  /\ outq' \in LeftToRead
  /\ UNCHANGED <<conn, inq, client>>

(* stateres is called from one_request (pc is "reply") or from             *)
(* connection_io (pc is "write"); only the former goes on with what is in  *)
(* the read buffer.                                                        *)
Flushing == pc \in {"reply", "write"}
(* Mutant of AfterFlush: pipelined requests are left in the buffer. *)
AfterFlushPoll == "poll"
AfterFlush == IF pc = "reply" THEN "request" ELSE "poll"

(* Mutant of SentAfter: wbuf_sent is not reset. *)
SentInAll == Len(wbuf)

(* try_flush_buffer when all is written: wbuf_sent, the state *)
SentAfter == 0
StateAfter == "REQ"

(* try_flush_buffer after a write of n bytes *)
Wrote(n) ==
  IF wbuf_sent + n = Len(wbuf)
  THEN state' = StateAfter /\ wbuf' = <<>> /\ wbuf_sent' = SentAfter /\ pc' = AfterFlush
  ELSE wbuf_sent' = wbuf_sent + n /\ UNCHANGED <<state, wbuf, pc>>

Write ==
  /\ Flushing /\ peer = "open"
  /\ \E n \in 1..Min({Len(wbuf) - wbuf_sent, SndCap - Len(outq)}) :
       /\ outq' = outq \o SubSeq(wbuf, wbuf_sent + 1, wbuf_sent + n)
       /\ Wrote(n)
  /\ UNCHANGED <<nonblocking, answers, rbuf, inq, client>>

(* Mutant of WouldBlock: one_request goes on when the write must wait. *)
GoOn == AfterFlush
WouldBlock == "poll"

(* EAGAIN; a blocking socket waits instead. *)
WriteNothing ==
  /\ Flushing /\ peer = "open" /\ Len(outq) = SndCap /\ nonblocking
  /\ pc' = WouldBlock
  /\ UNCHANGED <<conn, inq, outq, client>>

(* After the client is gone a write may still be taken and lost, fail, or  *)
(* raise SIGPIPE, whose default action ends the process: the server does   *)
(* not ignore it.                                                          *)
WriteToNobody ==
  /\ Flushing /\ peer = "closed"
  /\ \/ \E n \in 1..Len(wbuf) - wbuf_sent : Wrote(n)
     \/ state' = "END" /\ pc' = "close" /\ UNCHANGED <<wbuf, wbuf_sent>>
     \/ pc' = "dead" /\ UNCHANGED <<state, wbuf, wbuf_sent>>
  /\ UNCHANGED <<nonblocking, answers, rbuf, inq, outq, client>>

(* The event loop closes a connection in STATE_END, and any connection     *)
(* that has been idle for too long.                                        *)
Close ==
  /\ pc = "close" \/ pc = "poll"
  /\ pc' = "gone"
  /\ outq' \in LeftToRead
  /\ UNCHANGED <<conn, inq, client>>

-----------------------------------------------------------------------------
(* The client and the network.                                             *)
Received(r) == r <= Len(Frames[got])

(* The server's end of the connection is closed. *)
Ended == pc \in {"gone", "dead"}

Request(words) == IF words \in CutShort THEN cut_req(Strs(words)) ELSE send_req(Strs(words))

(* client.cpp sends one command and waits; other clients pipeline. *)
Send(words) ==
  /\ peer = "open" /\ ~Ended
  /\ Sendable(Strs(words)) \/ words \in Unchecked
  /\ Len(requests) < MaxRequests /\ Len(requests) < Len(Frames[got]) + Window
  /\ requests' = Append(requests, words)
  /\ unsent' = unsent \o Request(words)
  /\ UNCHANGED <<conn, pc, inq, outq, got, peer>>

(* A segment of any length arrives. *)
Deliver ==
  /\ peer = "open" /\ ~Ended
  /\ \E n \in (1..Len(unsent)) \cap (Cuts \cup {Len(unsent)}) :
       /\ inq' = inq \o SubSeq(unsent, 1, n)
       /\ unsent' = SubSeq(unsent, n + 1, Len(unsent))
  /\ UNCHANGED <<conn, pc, outq, requests, got, peer>>

Receive ==
  /\ peer = "open" /\ outq # <<>>
  /\ got' = got \o outq
  /\ outq' = <<>>
  /\ UNCHANGED <<conn, pc, inq, requests, unsent, peer>>

Hangup ==
  /\ peer = "open" /\ ~Ended
  /\ peer' = "closed"
  /\ unsent' = <<>> /\ outq' = <<>>
  /\ UNCHANGED <<conn, pc, inq, requests, got>>

Serves ==
  \/ connection_io \/ Read \/ ReadNothing \/ ReadFails
  \/ NeedMore \/ Refuse \/ Answer \/ Crash
  \/ Write \/ WriteNothing \/ WriteToNobody

Next ==
  \/ Serves \/ Close
  \/ (\E words \in Commands : Send(words)) \/ Deliver \/ Receive \/ Hangup

Spec == Init /\ [][Next]_vars

(* The server's one thread and the network make progress, and a client     *)
(* reads its replies.  No client need send anything or hang up, and        *)
(* whether the idle timeout strikes first is left open.                    *)
FairSpec ==
  /\ Spec
  /\ WF_vars(Serves \/ (pc = "close" /\ Close)) /\ WF_vars(Deliver) /\ WF_vars(Receive)
-----------------------------------------------------------------------------
(* Buffers never hold more than their arrays: the assertions at            *)
(* utils.cpp:51 and 131, and the reply of any request fits wbuf.           *)
TypeOK ==
  /\ state \in {"REQ", "RES", "END"}
  /\ rbuf \in Seq(Cell) /\ Len(rbuf) <= W + k_max_msg
  /\ wbuf \in Seq(Cell) /\ Len(wbuf) <= W + k_max_msg
  /\ wbuf_sent \in 0..Len(wbuf)
  /\ pc \in {"poll", "read", "request", "reply", "write", "close", "gone", "dead"}
  /\ inq \in Seq(Cell) /\ outq \in Seq(Cell) /\ unsent \in Seq(Cell) /\ got \in Seq(Cell)
  /\ Len(outq) <= SndCap
  /\ requests \in Seq(Commands) /\ Len(answers) \in 0..Len(requests)
  /\ peer \in {"open", "closed"}
  /\ nonblocking \in BOOLEAN

(* The assertion at utils.cpp:116: there is always room to read into, for  *)
(* a full buffer would hold a complete request, which is answered first.   *)
(* And the state the event loop polls for is the state of the buffers.     *)
ReadHasRoom ==
  /\ pc = "read" => state = "REQ" /\ Len(rbuf) < W + k_max_msg
  /\ pc = "poll" => (state = "RES" <=> wbuf # <<>>)

(* Wherever the stream is cut and however far each buffer has got, what    *)
(* the server has and will read is the requests not yet answered, whole    *)
(* and in order, one it refuses included.                                  *)
RequestsInOrder ==
  peer = "open" =>
    rbuf \o inq \o unsent =
      FlattenSeq([i \in 1..Len(requests) - Len(answers) |->
                    Request(requests[Len(answers) + i])])

(* ... and what the client has and will read is the replies given, each    *)
(* one once, whole and in the order of requests: no reply is overwritten   *)
(* in wbuf before it is sent, and none is given to a request refused.      *)
RepliesInOrder ==
  peer = "open" /\ ~Ended =>
    got \o outq \o SubSeq(wbuf, wbuf_sent + 1, Len(wbuf)) =
      FlattenSeq([i \in 1..Len(answers) |-> Frame(answers[i])])

(* client.cpp prints the values do_request has said, in any sequence of    *)
(* replies, however they are cut; but for scores: it does not know the     *)
(* type of a double (client.cpp:82) and gives up.                          *)
RepliesUnderstood ==
  \A r \in 1..Len(Frames[got]) :
    read_resp(Frames[got][r]) =
      IF \E i \in 1..Len(answers[r]) : answers[r][i].type = "SER_DOUBLE"
      THEN Failed
      ELSE [used |-> Len(Bytes(answers[r])), prints |-> answers[r]]

(* The number of words of each command. *)
Arity ==
  [keys |-> 1, get |-> 2, del |-> 2, ttl |-> 2, set |-> 3, zscore |-> 3, zrem |-> 3,
   expire |-> 3, zadd |-> 4, zquery |-> 6]
Whole(words) ==
  words \notin CutShort /\ Len(words) <= k_max_args /\ Sendable(Strs(words))
Known(words) ==
  words # <<>> /\ words[1] \in DOMAIN Arity /\ Len(words) = Arity[words[1]]
HasNumbers(words) ==
  /\ words[1] = "expire" => ~NoInteger(Str(words[3]))
  /\ words[1] = "zadd" => ~Throws(Str(words[3]))
  /\ words[1] = "zquery" => \A i \in {3, 5, 6} : ~Throws(Str(words[i]))
AtHand == requests[Len(answers) + 1]

(* The server answers a request only if it is whole, of a command it knows *)
(* and with numbers where they belong.  It refuses one only if it is cut   *)
(* short, too long or has too many words (ZQUERY has), is of no command it *)
(* knows, is EXPIRE without a number, or may find nothing.  It ends, with  *)
(* a request at hand, only for three commands, which it knows and is not   *)
(* up to (ZADD without a number is neither answered nor refused), and      *)
(* while it writes only of SIGPIPE: a client left without all its replies. *)
EndsForCause ==
  /\ \A r \in 1..Len(answers) :
       Whole(requests[r]) /\ Known(requests[r]) /\ HasNumbers(requests[r])
  /\ state = "END" /\ peer = "open" =>
       /\ Len(answers) < Len(requests)
       /\ \/ ~Whole(AtHand) \/ ~Known(AtHand)
          \/ AtHand[1] = "expire" /\ ~HasNumbers(AtHand)
          \/ AtHand[1] \in {"get", "zscore", "zquery"}
  /\ pc = "dead" /\ state = "REQ" =>
       /\ Len(answers) < Len(requests)
       /\ Whole(AtHand) /\ Known(AtHand) /\ AtHand[1] \in {"zadd", "zrem", "zquery"}
  /\ pc = "dead" /\ state # "REQ" =>
       peer = "closed" /\ \E r \in 1..Len(answers) : ~Received(r)

(* What follows is promised unless the connection or the server ends.      *)
Over == Ended \/ peer = "closed"
Sent(r) == r <= Len(requests)
IsAnswered(r) == Sent(r) /\ Received(r)

(* A request that sets out when all before it have been answered is        *)
(* answered, and on a blocking socket so is any other: the loops of        *)
(* try_fill_buffer, one_request and stateres leave nothing behind          *)
(* (utils.cpp:132: "Process the request").                                 *)
SetsOut(r) ==
  /\ Sent(r)
  /\ unsent = FlattenSeq([i \in 1..Len(requests) + 1 - r |-> Request(requests[r - 1 + i])])
  /\ \A q \in 1..r - 1 : Received(q)
AnsweredInTurn ==
  \A r \in 1..MaxRequests :
    SetsOut(r) \/ (Sent(r) /\ ~nonblocking) ~> Over \/ IsAnswered(r)
=============================================================================
