-------------------------------- MODULE Wire --------------------------------
(***************************************************************************)
(* The protocol: requests as client.cpp writes and parse_req reads them,   *)
(* what do_request may say to each command, and replies as                 *)
(* serialisation.cpp writes and client.cpp reads them.                     *)
(*                                                                         *)
(* A byte is a cell <<what, i, n>>: the i-th of the string called what, of *)
(* the 32-bit field or the 64-bit number n, or a reply's type byte.  A     *)
(* field takes W cells, a number 2 * W.  A word is a string with a name;   *)
(* strings are sequences of cells.                                         *)
(***************************************************************************)
EXTENDS Integers, SequencesExt

CONSTANTS
  W, k_max_msg, k_max_args,
  Length(_),  \* the length of a word
  Values,     \* the words GET may find
  Listings,   \* the keys KEYS may list: sequences of words
  Found,      \* what ZQUERY may find: sequences of words
  TimeLeft    \* what TTL may say of a key with a deadline

(* What the words are made of: they have a name and a length. *)
IsWord(w) == w \in STRING /\ Length(w) \in Nat
IsText(words) == words \in Seq(STRING) /\ \A i \in DOMAIN words : IsWord(words[i])

(* The commands' names. *)
Names == {"keys", "get", "set", "del", "ttl", "expire", "zadd", "zscore", "zrem", "zquery"}

ASSUME WireAssumption ==
  /\ W \in Nat \ {0} /\ k_max_msg \in Nat \ {0} /\ k_max_args \in Nat
  /\ \A w \in Values \cup {"usage", "expect int64", "response is too big"} : IsWord(w)
  /\ \A w \in Names : IsWord(w) /\ Length(w) # 0
  /\ \A words \in Listings \cup Found : IsText(words)
  /\ TimeLeft \subseteq Int

(* What bytes and values are tagged with.  The provers have to be told     *)
(* that literals are strings.                                              *)
Types == {"SER_NIL", "SER_STR", "SER_INT", "SER_DOUBLE", "SER_ERR", "SER_ARR"}
ASSUME TagsAreStrings == Types \cup {"field", "number", "score"} \subseteq STRING

Cell == STRING \X Nat \X Int
Str(w) == [i \in 1..Length(w) |-> <<w, i, 0>>]
Strs(words) == [i \in 1..Len(words) |-> Str(words[i])]
Field(n) == [i \in 1..W |-> <<"field", i, n>>]
Wide(n) == [i \in 1..2 * W |-> <<"number", i, n>>]
htobe64(s) == Reverse(s)

At(data, pos, n) == SubSeq(data, pos + 1, pos + n)

(* A 32-bit field, unsigned.  One read from a place where none was written *)
(* is more than any limit: the bytes of a text are.                        *)
Number(s) ==
  LET n == s[1][3]
  IN IF n >= 0 /\ s = Field(n) THEN n ELSE k_max_msg + k_max_args + 1
-----------------------------------------------------------------------------
(* Requests. *)
Body(cmd) ==
  Field(Len(cmd)) \o FlattenSeq([i \in 1..Len(cmd) |-> Field(Len(cmd[i])) \o cmd[i]])

(* send_req gives up on what the server would refuse. *)
Sendable(cmd) == Len(Body(cmd)) <= k_max_msg
send_req(cmd) == Field(Len(Body(cmd))) \o Body(cmd)

(* What a client that is not client.cpp may send: the last byte of the     *)
(* body is missing, and not counted.                                       *)
cut_req(cmd) == Field(Len(Body(cmd)) - 1) \o Front(Body(cmd))

(* Mutant of Fits: no word may end where the request ends. *)
FitsBelow(n, data) == n < Len(data)
Fits(n, data) == n <= Len(data)

(* The words data consists of, if it consists of n words: a set of one     *)
(* command or of none.                                                     *)
Words[n \in Nat] == [data \in Seq(Cell) |->
  IF n = 0 THEN IF data = <<>> THEN {<<>>} ELSE {}
  ELSE IF ~Fits(W, data) \/ ~Fits(W + Number(At(data, 0, W)), data) THEN {}
  ELSE LET end == W + Number(At(data, 0, W))
       IN {<<At(data, W, end - W)>> \o cmd : cmd \in Words[n - 1][SubSeq(data, end + 1, Len(data))]}]

parse_req(data) ==
  IF ~Fits(W, data) \/ Number(At(data, 0, W)) > k_max_args THEN {}
  ELSE Words[Number(At(data, 0, W))][SubSeq(data, W + 1, Len(data))]
-----------------------------------------------------------------------------
(* Replies: sequences of values, with the code of the function that wrote  *)
(* them.  code is the code of an error and the length of an array.         *)
RES_OK == 0
RES_ERR == 1
RES_NX == 2
ERR_2BIG == 1001

V(type, code, data) == [type |-> type, code |-> code, data |-> data]
Nil == V("SER_NIL", 0, <<>>)
Int64(n) == V("SER_INT", 0, Wide(n))
Double(w) == V("SER_DOUBLE", 0, [i \in 1..2 * W |-> <<w, i, 0>>])
String(s) == V("SER_STR", 0, s)
Error(code, w) == V("SER_ERR", code, Str(w))
Array(n) == V("SER_ARR", n, <<>>)

Type(t) == <<<<t, 1, 0>>>>

(* Mutant of out_int: in the order of the host. *)
out_int_host(v) == Type("SER_INT") \o v.data

out_nil == Type("SER_NIL")
out_str(v) == Type("SER_STR") \o Field(Len(v.data)) \o v.data
out_int(v) == Type("SER_INT") \o htobe64(v.data)
out_dbl(v) == Type("SER_DOUBLE") \o htobe64(v.data)
out_err(v) == Type("SER_ERR") \o Field(v.code) \o Field(Len(v.data)) \o v.data
out_arr(v) == Type("SER_ARR") \o Field(v.code)

Bytes(values) ==
  FlattenSeq([i \in 1..Len(values) |->
    LET v == values[i]
    IN CASE v.type = "SER_NIL"    -> out_nil
         [] v.type = "SER_STR"    -> out_str(v)
         [] v.type = "SER_INT"    -> out_int(v)
         [] v.type = "SER_DOUBLE" -> out_dbl(v)
         [] v.type = "SER_ERR"    -> out_err(v)
         [] v.type = "SER_ARR"    -> out_arr(v)])

Frame(values) == Field(Len(Bytes(values))) \o Bytes(values)

Says(err, values) == [err |-> err, out |-> values]
Ints(S) == {Says(RES_OK, <<Int64(n)>>) : n \in S}
Usage(w) == {Says(RES_ERR, <<Error(RES_ERR, w)>>)}

do_get == {Says(RES_OK, <<String(Str(w))>>) : w \in Values} \cup {Says(RES_NX, <<Int64(RES_NX)>>)}
do_set == Ints({RES_OK})
do_del == Ints({0, 1})
do_keys ==
  {Says(RES_OK, <<Array(Len(l))>> \o [i \in 1..Len(l) |-> String(Str(l[i]))]) : l \in Listings}
do_ttl == Ints({-2, -1} \cup TimeLeft)

(* "word" is no number, any other word is one where a number belongs.      *)
(* str2int takes the empty string for 0; stod and stoll throw at it.       *)
NoInteger(s) == s = Str("word")
Throws(s) == NoInteger(s) \/ s = <<>>

do_expire(cmd) == IF NoInteger(cmd[3]) THEN Usage("expect int64") ELSE Ints({0, 1})
do_zadd(cmd) ==
  IF Len(cmd) # 4 THEN Usage("usage") ELSE IF Throws(cmd[3]) THEN {} ELSE Ints({0, 1})
do_zscore(cmd) ==
  IF Len(cmd) # 3 THEN Usage("usage")
  ELSE {Says(RES_NX, <<Nil>>), Says(RES_OK, <<Double("score")>>)}
(* A member is removed only if its name is empty: see MayEnd. *)
do_zrem(cmd) ==
  IF Len(cmd) # 3 THEN Usage("usage") ELSE Ints(IF cmd[3] = <<>> THEN {0, 1} ELSE {0})
do_query(cmd) ==
  IF Len(cmd) # 6 THEN Usage("usage")
  ELSE {Says(RES_NX, <<>>)} \cup
       IF Throws(cmd[3]) \/ Throws(cmd[5]) \/ Throws(cmd[6]) THEN {}
       ELSE {Says(RES_OK,
                  FlattenSeq([i \in 1..Len(l) |-> <<String(Str(l[i])), Double("score")>>])) :
               l \in Found}

IsNamed(cmd, w) == cmd # <<>> /\ cmd[1] = Str(w)

(* do_request: what it may say to the command cmd, if it returns. *)
do_request(cmd) ==
  LET n     == Len(cmd)
      is(w) == IsNamed(cmd, w)
  IN CASE n = 0                  -> {Says(RES_ERR, <<>>)}
       [] is("keys") /\ n = 1    -> do_keys
       [] is("get") /\ n = 2     -> do_get
       [] is("set") /\ n = 3     -> do_set
       [] is("del") /\ n = 2     -> do_del
       [] is("zadd")             -> do_zadd(cmd)
       [] is("zscore")           -> do_zscore(cmd)
       [] is("zrem")             -> do_zrem(cmd)
       [] is("zquery")           -> do_query(cmd)
       [] is("expire") /\ n = 3  -> do_expire(cmd)
       [] is("ttl") /\ n = 2     -> do_ttl
       [] OTHER                  -> {Says(RES_ERR, <<>>)}

(* The commands that may end the process, whatever came before.  ZADD: an  *)
(* uncaught exception of stod, or the null zset of a string's entry; ZREM: *)
(* hm_delete takes members for entries and faults, but for an empty name   *)
(* (SortedSet.Popped); ZQUERY: stod, stoll, or a name copied to where      *)
(* there is no room for it.  Ends that need memory damaged by commands     *)
(* before are those of Keyspace, HashMap and SortedSet.                    *)
MayEnd(cmd) ==
  \/ IsNamed(cmd, "zadd") /\ Len(cmd) = 4
  \/ IsNamed(cmd, "zrem") /\ Len(cmd) = 3 /\ cmd[3] # <<>>
  \/ IsNamed(cmd, "zquery") /\ Len(cmd) = 6
-----------------------------------------------------------------------------
(* The client. *)
Failed == [used |-> -1, prints |-> <<>>]

(* First a, then b, unless one of them failed.                             *)
Then(a, b) ==
  IF a.used < 0 \/ b.used < 0 THEN Failed
  ELSE [used |-> a.used + b.used, prints |-> a.prints \o b.prints]

(* on_response called for count values, one after the other: the bytes     *)
(* used, or -1, and the values printed.  It calls itself for those of an   *)
(* array.                                                                  *)
Responses[data \in Seq(Cell)] == [count \in Nat |->
  LET size  == Len(data)
      is(t) == data # <<>> /\ At(data, 0, 1) = Type(t)
      n(pos) == Number(At(data, pos, W))
      Left(used) == SubSeq(data, used + 1, size)
      Shows(used, v) == IF size < used THEN Failed ELSE [used |-> used, prints |-> <<v>>]
      first ==
        CASE is("SER_NIL") -> Shows(1, Nil)
          [] is("SER_INT") ->
               Shows(1 + 2 * W, V("SER_INT", 0, Reverse(At(data, 1, 2 * W))))
          [] is("SER_STR") /\ size >= 1 + W ->
               Shows(1 + W + n(1), String(At(data, 1 + W, n(1))))
          [] is("SER_ERR") /\ size >= 1 + 2 * W ->
               Shows(1 + 2 * W + n(1 + W), V("SER_ERR", n(1), At(data, 1 + 2 * W, n(1 + W))))
          [] is("SER_ARR") /\ size >= 1 + W ->
               Then(Shows(1 + W, Array(n(1))), Responses[Left(1 + W)][n(1)])
          [] OTHER -> Failed
  IN IF count = 0 THEN [used |-> 0, prints |-> <<>>]
     ELSE Then(first, Responses[Left(first.used)][count - 1])]

on_response(data) == Responses[data][1]

(* read_full: the frames that are all there. *)
Frames[s \in Seq(Cell)] ==
  LET end == W + Number(At(s, 0, W))
  IN IF Len(s) < W \/ Len(s) < end THEN <<>>
     ELSE <<At(s, W, end - W)>> \o Frames[SubSeq(s, end + 1, Len(s))]

read_resp(data) == IF Len(data) \in 1..k_max_msg THEN on_response(data) ELSE Failed
=============================================================================
