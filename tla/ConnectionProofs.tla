-------------------------- MODULE ConnectionProofs --------------------------
(***************************************************************************)
(* A connection's buffers and its two streams, for any sizes, any number   *)
(* of requests and any way the stream is cut: that the buffers fit, that   *)
(* no request is lost, cut short or read twice, and no reply either.       *)
(* Then what the bytes mean: parse_req inverts send_req and on_response    *)
(* the out_* functions, so the server refuses only what it must, and the   *)
(* client prints what was said.                                            *)
(***************************************************************************)
EXTENDS Connection, Lemmas

Stream == Seq(Cell)
Value == [type : Types, code : Nat, data : Stream]

-----------------------------------------------------------------------------
(* Fields, words and numbers are bytes. *)
LEMMA WireSizes ==
  W \in Nat /\ W >= 1 /\ k_max_msg \in Nat /\ k_max_msg >= 1 /\ k_max_args \in Nat
<1>1. W \in Nat \ {0} /\ k_max_msg \in Nat \ {0} /\ k_max_args \in Nat
  BY WireAssumption, Zenon
<1> QED
  BY <1>1

(* A cell. *)
LEMMA CellIs ==
  ASSUME NEW what \in STRING, NEW i \in Nat, NEW n \in Int
  PROVE  <<what, i, n>> \in Cell
BY Zenon DEF Cell

(* A 32-bit field takes W cells, each of which has its value ... *)
LEMMA FieldType ==
  ASSUME NEW n \in Int
  PROVE  Field(n) \in Stream /\ Len(Field(n)) = W /\ \A i \in 1..W : Field(n)[i] = <<"field", i, n>>
<1>1. \A i \in 1..W : <<"field", i, n>> \in Cell
  <2>0. "field" \in STRING
    BY TagsAreStrings
  <2>1. \A i \in 1..W : i \in Nat
    BY WireSizes
  <2> QED
    BY <2>0, <2>1, CellIs, Zenon
<1>2. Field(n) \in [1..W -> Cell] /\ \A i \in 1..W : Field(n)[i] = <<"field", i, n>>
  BY <1>1 DEF Field
<1> QED
  BY <1>2, WireSizes DEF Stream

(* ... which is what is read from it. *)
LEMMA NumberField ==
  ASSUME NEW n \in Nat
  PROVE  Number(Field(n)) = n
<1>1. Field(n)[1] = <<"field", 1, n>>
  BY FieldType, WireSizes
<1>2. n >= 0
  OBVIOUS
<1> QED
  BY <1>1, <1>2 DEF Number

(* Whatever is there, what is read from it is a number. *)
LEMMA NumberType ==
  ASSUME NEW s \in Stream, Len(s) >= 1
  PROVE  Number(s) \in Nat
<1>1. s[1] \in Cell
  BY DEF Stream
<1>2. s[1][3] \in Int
  BY <1>1 DEF Cell
<1> QED
  BY <1>2, WireSizes DEF Number

(* A word is as many cells as it is long ... *)
LEMMA StrType ==
  ASSUME NEW w, IsWord(w)
  PROVE  Str(w) \in Stream /\ Len(Str(w)) = Length(w)
<1>1. \A i \in 1..Length(w) : <<w, i, 0>> \in Cell
  BY DEF Cell, IsWord
<1>2. Str(w) \in [1..Length(w) -> Cell] /\ Length(w) \in Nat
  BY <1>1 DEF Str, IsWord
<1> QED
  BY <1>2 DEF Stream

(* ... and a text so many words. *)
LEMMA StrsType ==
  ASSUME NEW words, IsText(words)
  PROVE  Strs(words) \in Seq(Stream) /\ Len(Strs(words)) = Len(words)
         /\ \A i \in 1..Len(words) : Strs(words)[i] = Str(words[i])
<1>1. Len(words) \in Nat /\ DOMAIN words = 1..Len(words)
  BY DEF IsText
<1>2. \A i \in 1..Len(words) : Str(words[i]) \in Stream
  BY <1>1, StrType DEF IsText
<1>3. Strs(words) \in [1..Len(words) -> Stream]
      /\ \A i \in 1..Len(words) : Strs(words)[i] = Str(words[i])
  BY <1>2 DEF Strs
<1> HIDE DEF Stream
<1> QED
  BY <1>1, <1>3

(* A number is the same bytes in either order. *)
LEMMA WideType ==
  ASSUME NEW n \in Int
  PROVE  Wide(n) \in Stream /\ Len(Wide(n)) = 2 * W
<1>1. \A i \in 1..2 * W : <<"number", i, n>> \in Cell
  <2>0. "number" \in STRING
    BY TagsAreStrings
  <2>1. \A i \in 1..2 * W : i \in Nat
    BY WireSizes
  <2> QED
    BY <2>0, <2>1, CellIs, Zenon
<1>2. Wide(n) \in [1..2 * W -> Cell]
  BY <1>1 DEF Wide
<1> QED
  BY <1>2, WireSizes DEF Stream

(* htobe64 keeps the length. *)
LEMMA ReverseType ==
  ASSUME NEW s \in Stream
  PROVE  Reverse(s) \in Stream /\ Len(Reverse(s)) = Len(s)
<1>1. Len(s) \in Nat /\ \A i \in 1..Len(s) : s[i] \in Cell
  BY DEF Stream
<1>2. \A i \in 1..Len(s) : Len(s) - i + 1 \in 1..Len(s)
  BY <1>1
<1>3. Reverse(s) \in [1..Len(s) -> Cell]
  BY <1>1, <1>2 DEF Reverse
<1> QED
  BY <1>1, <1>3 DEF Stream

(* A type takes one cell. *)
LEMMA TypeType ==
  ASSUME NEW t \in STRING
  PROVE  Type(t) \in Stream /\ Len(Type(t)) = 1
<1>1. <<t, 1, 0>> \in Cell
  <2>1. 1 \in Nat /\ 0 \in Int
    OBVIOUS
  <2> QED
    BY <2>1, CellIs, Zenon
<1> QED
  BY <1>1 DEF Type, Stream

(* Streams put together. *)
LEMMA Joined ==
  ASSUME NEW a \in Stream, NEW b \in Stream
  PROVE  a \o b \in Stream /\ Len(a \o b) = Len(a) + Len(b)
BY ConcatProperties DEF Stream

(* The length of a stream is a number. *)
LEMMA StreamLen ==
  ASSUME NEW a \in Stream
  PROVE  Len(a) \in Nat /\ Len(a) \in Int
<1>1. Len(a) \in Nat
  BY DEF Stream
<1> PICK n : n = Len(a)
  OBVIOUS
<1>2. n \in Nat
  BY <1>1
<1>3. n \in Int
  BY ONLY <1>2
<1> QED
  BY <1>1, <1>3, Zenon
-----------------------------------------------------------------------------
(* Requests. *)
LEMMA BodyType ==
  ASSUME NEW cmd \in Seq(Stream)
  PROVE  Body(cmd) \in Stream /\ send_req(cmd) \in Stream
         /\ Len(send_req(cmd)) = W + Len(Body(cmd)) /\ Body(cmd) # <<>>
<1> DEFINE ss == [i \in 1..Len(cmd) |-> Field(Len(cmd[i])) \o cmd[i]]
<1>1. Len(cmd) \in Nat /\ \A i \in 1..Len(cmd) : cmd[i] \in Stream
  <2> HIDE DEF Stream
  <2> QED
    OBVIOUS
<1>2. ASSUME NEW i \in 1..Len(cmd)
      PROVE  Field(Len(cmd[i])) \o cmd[i] \in Stream
  <2>1. cmd[i] \in Stream /\ Len(cmd[i]) \in Int
    BY <1>1, StreamLen
  <2>2. Field(Len(cmd[i])) \in Stream
    BY <2>1, FieldType
  <2> QED
    BY <2>1, <2>2, Joined
<1>3. ss \in Seq(Seq(Cell))
  <2>1. ss \in [1..Len(cmd) -> Stream]
    BY <1>2
  <2> HIDE DEF ss
  <2>2. ss \in Seq(Stream)
    BY <1>1, <2>1
  <2> QED
    BY <2>2 DEF Stream
<1>4. Body(cmd) = Field(Len(cmd)) \o FlattenSeq(ss)
  BY DEF Body
<1> HIDE DEF ss
<1>5. FlattenSeq(ss) \in Stream
  BY <1>3, FlattenType DEF Stream
<1>6. Field(Len(cmd)) \in Stream
  BY <1>1, FieldType
<1>7. Body(cmd) \in Stream
  BY <1>4, <1>5, <1>6, Joined
<1>8. Len(Body(cmd)) \in Int
  BY <1>7, StreamLen
<1>9. Field(Len(Body(cmd))) \in Stream /\ Len(Field(Len(Body(cmd)))) = W
  BY <1>8, FieldType
<1>10. Body(cmd) # <<>>
  <2>1. Len(Field(Len(cmd))) = W
    BY <1>1, FieldType
  <2>2. Len(Body(cmd)) = W + Len(FlattenSeq(ss)) /\ Len(FlattenSeq(ss)) \in Nat
    BY <1>4, <1>5, <1>6, <2>1, Joined, StreamLen
  <2>3. Len(Body(cmd)) # 0
    BY <2>2, WireSizes
  <2> QED
    BY <1>7, <2>3, EmptySeq DEF Stream
<1> QED
  BY <1>7, <1>9, <1>10, Joined DEF send_req
-----------------------------------------------------------------------------
(* Replies. *)
OneValue(v) ==
  CASE v.type = "SER_NIL"    -> out_nil
    [] v.type = "SER_STR"    -> out_str(v)
    [] v.type = "SER_INT"    -> out_int(v)
    [] v.type = "SER_DOUBLE" -> out_dbl(v)
    [] v.type = "SER_ERR"    -> out_err(v)
    [] v.type = "SER_ARR"    -> out_arr(v)

(* What the out_* function of a value's type writes is bytes. *)
LEMMA OneValueType ==
  ASSUME NEW v \in Value
  PROVE  OneValue(v) \in Stream
<1>1. v.type \in Types /\ v.code \in Int /\ v.data \in Stream /\ Len(v.data) \in Int
  BY StreamLen DEF Value
<1>2. ASSUME NEW t \in Types
      PROVE  Type(t) \in Stream
  BY TagsAreStrings, TypeType
<1>3. Field(v.code) \in Stream /\ Field(Len(v.data)) \in Stream /\ htobe64(v.data) \in Stream
  BY <1>1, FieldType, ReverseType DEF htobe64
<1> HIDE DEF Stream
<1>4. Type(v.type) \in Stream
  BY <1>1, <1>2
<1>5. CASE v.type = "SER_NIL"
  BY <1>4, <1>5 DEF OneValue, out_nil
<1>6. CASE v.type = "SER_STR"
  <2>1. out_str(v) \in Stream
    BY <1>1, <1>3, <1>4, <1>6, Joined DEF out_str
  <2> QED
    BY <1>6, <2>1 DEF OneValue
<1>7. CASE v.type = "SER_INT"
  <2>1. out_int(v) \in Stream
    BY <1>1, <1>3, <1>4, <1>7, Joined DEF out_int
  <2> QED
    BY <1>7, <2>1 DEF OneValue
<1>8. CASE v.type = "SER_DOUBLE"
  <2>1. out_dbl(v) \in Stream
    BY <1>1, <1>3, <1>4, <1>8, Joined DEF out_dbl
  <2> QED
    BY <1>8, <2>1 DEF OneValue
<1>9. CASE v.type = "SER_ERR"
  <2>1. out_err(v) \in Stream
    BY <1>1, <1>3, <1>4, <1>9, Joined DEF out_err
  <2> QED
    BY <1>9, <2>1 DEF OneValue
<1>10. CASE v.type = "SER_ARR"
  <2>1. out_arr(v) \in Stream
    BY <1>1, <1>3, <1>4, <1>10, Joined DEF out_arr
  <2> QED
    BY <1>10, <2>1 DEF OneValue
<1> QED
  BY <1>1, <1>5, <1>6, <1>7, <1>8, <1>9, <1>10 DEF Types

(* The values of a reply, and Bytes as what OneValue writes of each. *)
LEMMA ValuesOf ==
  ASSUME NEW values \in Seq(Value)
  PROVE  /\ Len(values) \in Nat /\ \A i \in 1..Len(values) : values[i] \in Value
         /\ [i \in 1..Len(values) |-> OneValue(values[i])] \in Seq(Seq(Cell))
         /\ Bytes(values) = FlattenSeq([i \in 1..Len(values) |-> OneValue(values[i])])
<1> DEFINE ss == [i \in 1..Len(values) |-> OneValue(values[i])]
<1>1. Len(values) \in Nat /\ \A i \in 1..Len(values) : values[i] \in Value
  <2> HIDE DEF Value
  <2> QED
    OBVIOUS
<1>2. ss \in [1..Len(values) -> Stream]
  BY <1>1, OneValueType
<1>3. Bytes(values) = FlattenSeq(ss)
  BY DEF Bytes, OneValue
<1> HIDE DEF ss
<1>4. ss \in Seq(Seq(Cell))
  BY <1>1, <1>2 DEF Stream
<1> QED
  BY <1>1, <1>3, <1>4 DEF ss

(* A reply is bytes, W more with the length before it. *)
LEMMA BytesType ==
  ASSUME NEW values \in Seq(Value)
  PROVE  /\ Bytes(values) \in Stream /\ Frame(values) \in Stream
         /\ Len(Bytes(values)) \in Nat
         /\ Len(Frame(values)) = W + Len(Bytes(values))
<1>1. Bytes(values) \in Stream
  BY ValuesOf, FlattenType DEF Stream
<1>2. Len(Bytes(values)) \in Nat
  BY <1>1, StreamLen
<1>3. Field(Len(Bytes(values))) \in Stream /\ Len(Field(Len(Bytes(values)))) = W
  BY <1>2, FieldType
<1> QED
  BY <1>1, <1>2, <1>3, Joined DEF Frame

(* The values do_request may say can all be written. *)
Sayable(replies) == \A reply \in replies : reply.out \in Seq(Value)

(* A sequence of one. *)
LEMMA OneIsSeq ==
  ASSUME NEW S, NEW v \in S
  PROVE  <<v>> \in Seq(S)
OBVIOUS

(* A value is what V makes of a type, a code and bytes. *)
LEMMA ValueIs ==
  ASSUME NEW t \in Types, NEW c \in Nat, NEW d \in Stream
  PROVE  V(t, c, d) \in Value
BY DEF V, Value

(* No bytes are a stream. *)
LEMMA EmptyStream == <<>> \in Stream
BY DEF Stream

(* What the commands write are values: numbers, ... *)
LEMMA IntValue ==
  ASSUME NEW n \in Int
  PROVE  Int64(n) \in Value
BY WideType, ValueIs DEF Int64, Types

(* ... words, ... *)
LEMMA StringValue ==
  ASSUME NEW w, IsWord(w)
  PROVE  String(Str(w)) \in Value
BY StrType, ValueIs DEF String, Types

(* ... errors, ... *)
LEMMA ErrorValue ==
  ASSUME NEW c \in Nat, NEW w, IsWord(w)
  PROVE  Error(c, w) \in Value
BY StrType, ValueIs DEF Error, Types

(* ... arrays, ... *)
LEMMA ArrayValue ==
  ASSUME NEW n \in Nat
  PROVE  Array(n) \in Value
BY EmptyStream, ValueIs DEF Array, Types

(* ... nil ... *)
LEMMA NilValue == Nil \in Value
BY EmptyStream, ValueIs DEF Nil, Types

(* ... and scores. *)
LEMMA DoubleValue == Double("score") \in Value
<1>1. \A i \in 1..2 * W : <<"score", i, 0>> \in Cell
  <2>1. "score" \in STRING /\ 0 \in Int
    BY TagsAreStrings
  <2>2. \A i \in 1..2 * W : i \in Nat
    BY WireSizes
  <2> QED
    BY <2>1, <2>2, CellIs, Zenon
<1>2. [i \in 1..2 * W |-> <<"score", i, 0>>] \in [1..2 * W -> Cell]
  BY <1>1
<1>3. [i \in 1..2 * W |-> <<"score", i, 0>>] \in Stream
  BY <1>2, WireSizes DEF Stream
<1> QED
  BY <1>3, ValueIs DEF Double, Types

(* The parts of a reply. *)
LEMMA SaysOut ==
  ASSUME NEW err, NEW values
  PROVE  Says(err, values).out = values /\ Says(err, values).err = err
BY DEF Says

(* One reply that can be written; more of them; numbers. *)
LEMMA SayableOne ==
  ASSUME NEW err, NEW values \in Seq(Value)
  PROVE  Sayable({Says(err, values)})
<1> SUFFICES Says(err, values).out \in Seq(Value)
  BY DEF Sayable
<1> QED
  BY SaysOut

LEMMA SayableCup ==
  ASSUME NEW A, NEW B, Sayable(A), Sayable(B)
  PROVE  Sayable(A \cup B)
BY DEF Sayable

LEMMA IntsSayable ==
  ASSUME NEW T \in SUBSET Int
  PROVE  Sayable(Ints(T))
<1> SUFFICES ASSUME NEW n \in T
             PROVE  Says(RES_OK, <<Int64(n)>>).out \in Seq(Value)
  BY DEF Ints, Sayable
<1> HIDE DEF Value
<1>1. n \in Int /\ Int64(n) \in Value
  BY IntValue
<1>2. <<Int64(n)>> \in Seq(Value)
  BY <1>1, OneIsSeq
<1> QED
  BY <1>2, SaysOut

(* An error message for a wrong number of arguments. *)
LEMMA UsageSayable ==
  ASSUME NEW w, IsWord(w)
  PROVE  Sayable(Usage(w))
<1>1. Error(RES_ERR, w) \in Value
  BY ErrorValue DEF RES_ERR
<1>2. <<Error(RES_ERR, w)>> \in Seq(Value)
  BY <1>1, OneIsSeq
<1> QED
  BY <1>2, SaysOut DEF Usage, Sayable

(* KEYS: an array of names. *)
LEMMA KeysSayable == Sayable(do_keys)
<1> DEFINE list(l) == [i \in 1..Len(l) |-> String(Str(l[i]))]
           out(l) == <<Array(Len(l))>> \o list(l)
<1>1. ASSUME NEW l \in Listings
      PROVE  out(l) \in Seq(Value)
  <2>1. IsText(l)
    BY WireAssumption, Zenon
  <2>2. Len(l) \in Nat /\ DOMAIN l = 1..Len(l)
    BY <2>1 DEF IsText
  <2>3. \A i \in 1..Len(l) : String(Str(l[i])) \in Value
    BY <2>1, <2>2, StringValue DEF IsText
  <2>4. list(l) \in [1..Len(l) -> Value]
    BY <2>3
  <2> HIDE DEF list
  <2>5. list(l) \in Seq(Value)
    BY <2>2, <2>4
  <2>6. <<Array(Len(l))>> \in Seq(Value)
    BY <2>2, ArrayValue, OneIsSeq
  <2> QED
    BY <2>5, <2>6, ConcatProperties
<1>2. do_keys = {Says(RES_OK, out(l)) : l \in Listings}
  BY DEF do_keys
<1> HIDE DEF out
<1> SUFFICES ASSUME NEW l \in Listings
             PROVE  Says(RES_OK, out(l)).out \in Seq(Value)
  BY <1>2 DEF Sayable
<1> QED
  BY <1>1, SaysOut

(* ZQUERY: pairs of a name and a score. *)
LEMMA QuerySayable ==
  ASSUME NEW cmd
  PROVE  Sayable(do_query(cmd))
<1>1. ASSUME NEW l \in Found
      PROVE  FlattenSeq([i \in 1..Len(l) |-> <<String(Str(l[i])), Double("score")>>]) \in Seq(Value)
  <2>1. IsText(l)
    BY WireAssumption, Zenon
  <2>2. Len(l) \in Nat /\ DOMAIN l = 1..Len(l)
    BY <2>1 DEF IsText
  <2>3. ASSUME NEW i \in 1..Len(l)
        PROVE  <<String(Str(l[i])), Double("score")>> \in Seq(Value)
    <3>1. String(Str(l[i])) \in Value /\ Double("score") \in Value
      BY <2>1, <2>2, StringValue, DoubleValue DEF IsText
    <3> QED
      BY <3>1
  <2> DEFINE list == [i \in 1..Len(l) |-> <<String(Str(l[i])), Double("score")>>]
  <2>4. list \in [1..Len(l) -> Seq(Value)]
    BY <2>3
  <2> HIDE DEF list
  <2>5. list \in Seq(Seq(Value))
    BY <2>2, <2>4
  <2>6. FlattenSeq(list) \in Seq(Value)
    BY <2>5, FlattenType
  <2> QED
    BY <2>6 DEF list
<1>2. <<>> \in Seq(Value)
  OBVIOUS
<1>3. Sayable(Usage("usage"))
  BY WireAssumption, UsageSayable
<1> DEFINE flat(l) == FlattenSeq([i \in 1..Len(l) |-> <<String(Str(l[i])), Double("score")>>])
<1>4. Sayable({Says(RES_OK, flat(l)) : l \in Found})
  <2>1. \A l \in Found : flat(l) \in Seq(Value)
    BY <1>1
  <2> HIDE DEF flat
  <2> SUFFICES ASSUME NEW l \in Found
               PROVE  Says(RES_OK, flat(l)).out \in Seq(Value)
    BY DEF Sayable
  <2> QED
    BY <2>1, SaysOut
<1>5. Sayable({Says(RES_NX, <<>>)})
  BY <1>2, SayableOne
<1>6. Sayable({Says(RES_NX, <<>>)} \cup {Says(RES_OK, flat(l)) : l \in Found})
  <2> HIDE DEF flat
  <2> QED
    BY <1>4, <1>5, SayableCup
<1>7. Sayable({Says(RES_NX, <<>>)} \cup {})
  BY <1>5 DEF Sayable
<1> QED
  BY <1>3, <1>6, <1>7 DEF do_query

(* Whatever the command, do_request says what can be written. *)
LEMMA RequestSayable ==
  ASSUME NEW cmd
  PROVE  Sayable(do_request(cmd))
<1>1. Sayable(do_get)
  <2>1. ASSUME NEW w \in Values
        PROVE  <<String(Str(w))>> \in Seq(Value)
    <3>1. IsWord(w)
      BY WireAssumption, Zenon
    <3> QED
      BY <3>1, StringValue, OneIsSeq
  <2>2. <<Int64(RES_NX)>> \in Seq(Value)
    BY IntValue, OneIsSeq DEF RES_NX
  <2>3. Sayable({Says(RES_NX, <<Int64(RES_NX)>>)})
    BY <2>2, SayableOne
  <2>4. Sayable({Says(RES_OK, <<String(Str(w))>>) : w \in Values})
    <3> SUFFICES ASSUME NEW w \in Values
                 PROVE  Says(RES_OK, <<String(Str(w))>>).out \in Seq(Value)
      BY DEF Sayable
    <3> PICK v : v = <<String(Str(w))>>
      OBVIOUS
    <3>1. v \in Seq(Value)
      BY <2>1
    <3> QED
      BY <3>1, SaysOut
  <2> QED
    BY <2>3, <2>4, SayableCup DEF do_get
<1>2. Sayable(do_set) /\ Sayable(do_del) /\ Sayable(do_ttl) /\ Sayable(Ints({0, 1}))
  <2>1. Sayable(do_set)
    BY IntsSayable DEF do_set, RES_OK
  <2>2. Sayable(do_del) /\ Sayable(Ints({0, 1}))
    BY IntsSayable DEF do_del
  <2>3. TimeLeft \subseteq Int
    BY WireAssumption, Zenon
  <2>4. Sayable(do_ttl)
    BY <2>3, IntsSayable DEF do_ttl
  <2> QED
    BY <2>1, <2>2, <2>4
<1>3. Sayable(Usage("usage")) /\ Sayable(Usage("expect int64"))
  BY WireAssumption, UsageSayable
<1>4. Sayable(do_zadd(cmd)) /\ Sayable(do_zrem(cmd))
  <2>1. Sayable({})
    BY DEF Sayable
  <2>2. Sayable(Ints({0}))
    BY IntsSayable
  <2> QED
    BY <1>2, <1>3, <2>1, <2>2 DEF do_zadd, do_zrem
<1>5. Sayable(do_zscore(cmd))
  <2>1. <<Nil>> \in Seq(Value) /\ <<Double("score")>> \in Seq(Value)
    BY NilValue, DoubleValue, OneIsSeq
  <2>2. Sayable({Says(RES_NX, <<Nil>>), Says(RES_OK, <<Double("score")>>)})
    <3> DEFINE A == {Says(RES_NX, <<Nil>>)}
               B == {Says(RES_OK, <<Double("score")>>)}
    <3>1. Sayable(A) /\ Sayable(B)
      BY <2>1, SayableOne
    <3>2. {Says(RES_NX, <<Nil>>), Says(RES_OK, <<Double("score")>>)} = A \cup B
      OBVIOUS
    <3> HIDE DEF A, B
    <3> QED
      BY <3>1, <3>2, SayableCup
  <2> QED
    BY <1>3, <2>2 DEF do_zscore
<1>6. Sayable(do_expire(cmd))
  BY <1>2, <1>3 DEF do_expire
<1>7. Sayable({Says(RES_ERR, <<>>)})
  <2>1. <<>> \in Seq(Value)
    OBVIOUS
  <2> QED
    BY <2>1, SaysOut DEF Sayable
<1> QED
  BY <1>1, <1>2, <1>4, <1>5, <1>6, <1>7, KeysSayable, QuerySayable DEF do_request
Assoc(a, b, c) == (a \o b) \o c = a \o (b \o c)

(* Put together in either order. *)
LEMMA Regroup ==
  ASSUME NEW a \in Stream, NEW b \in Stream, NEW c \in Stream
  PROVE  Assoc(a, b, c)
BY ConcatAssociative DEF Assoc, Stream

(* The same bytes, cut at the same place. *)
CutAlike(a, b, c, d) == a \o b = c \o d /\ Len(a) = Len(c)

(* Then the parts are the same. *)
LEMMA StreamCancel ==
  ASSUME NEW a \in Stream, NEW b \in Stream, NEW c \in Stream, NEW d \in Stream,
         CutAlike(a, b, c, d)
  PROVE  a = c /\ b = d
BY ConcatCancel DEF Stream, CutAlike

(* Messages, each with its length before it. *)
Framed(ss) ==
  /\ ss \in Seq(Stream)
  /\ \A i \in 1..Len(ss) : \E body \in Stream : ss[i] = Field(Len(body)) \o body

(* What the first message of a stream leaves, and the stream b of which t  *)
(* is still to come.                                                       *)
Begun(ss, b, t) ==
  /\ ss # <<>> /\ ss[1] \in Stream /\ Tail(ss) \in Seq(Stream) /\ Len(ss[1]) >= W
  /\ Number(At(b, 0, W)) = Len(ss[1]) - W
  /\ Len(ss[1]) <= Len(b) =>
       /\ SubSeq(b, 1, Len(ss[1])) = ss[1]
       /\ SubSeq(b, Len(ss[1]) + 1, Len(b)) \in Stream
       /\ b = ss[1] \o SubSeq(b, Len(ss[1]) + 1, Len(b))
       /\ SubSeq(b, Len(ss[1]) + 1, Len(b)) \o t = FlattenSeq(Tail(ss))

(* Whoever has read the length of the first message can take it.           *)
LEMMA FirstMessage ==
  ASSUME NEW ss, Framed(ss), NEW b \in Stream, NEW t \in Stream,
         b \o t = FlattenSeq(ss), Len(b) >= W
  PROVE  Begun(ss, b, t)
<1>1. W \in Nat /\ W >= 1 /\ Len(b) \in Nat
  BY WireSizes, StreamLen
<1>2. ss # <<>>
  <2> SUFFICES ASSUME ss = <<>>
               PROVE  FALSE
    OBVIOUS
  <2>1. b \o t = <<>>
    BY FlattenEmpty
  <2>2. Len(b \o t) = Len(b) + Len(t) /\ Len(t) \in Nat
    BY Joined, StreamLen
  <2> QED
    BY <1>1, <2>1, <2>2
<1>3. ss \in Seq(Seq(Cell))
  BY DEF Framed, Stream
<1> PICK x : x = ss[1]
  OBVIOUS
<1> PICK tl : tl = Tail(ss)
  OBVIOUS
<1> PICK f : f = FlattenSeq(tl)
  OBVIOUS
<1>4. x \in Stream /\ tl \in Seq(Stream) /\ b \o t = x \o f /\ f \in Stream
  <2>1. Tail(ss) \in Seq(Seq(Cell)) /\ ss[1] \in Seq(Cell)
        /\ FlattenSeq(ss) = ss[1] \o FlattenSeq(Tail(ss))
    BY <1>2, <1>3, FlattenCons
  <2>2. FlattenSeq(Tail(ss)) \in Seq(Cell)
    BY <2>1, FlattenType
  <2> QED
    BY <2>1, <2>2 DEF Stream
<1>5. PICK body \in Stream : x = Field(Len(body)) \o body
  <2>1. 1 \in 1..Len(ss)
    BY <1>2, <1>3, EmptySeq
  <2> QED
    BY <2>1 DEF Framed
<1> PICK fd : fd = Field(Len(body))
  OBVIOUS
<1>6. fd \in Stream /\ Len(fd) = W /\ Number(fd) = Len(body) /\ x = fd \o body
      /\ Len(x) = W + Len(body) /\ Len(body) \in Nat
  <2>1. Len(body) \in Nat /\ Len(body) \in Int
    BY StreamLen
  <2>2. fd \in Stream /\ Len(fd) = W /\ Number(fd) = Len(body)
    BY <2>1, FieldType, NumberField
  <2> QED
    BY <1>5, <2>1, <2>2, Joined
<1>7. SubSeq(b, 1, W) = fd
  <2> PICK u : u = SubSeq(b, 1, W)
    OBVIOUS
  <2> PICK v : v = SubSeq(b, W + 1, Len(b))
    OBVIOUS
  <2>1. u \in Stream /\ v \in Stream /\ Len(u) = W /\ u \o v = b
    <3>1. W \in 0..Len(b)
      BY <1>1
    <3> QED
      BY <3>1, SplitSeq DEF Stream
  <2>2. u \o (v \o t) = fd \o (body \o f)
    <3>1. (u \o v) \o t = (fd \o body) \o f
      BY <1>4, <1>6, <2>1
    <3>2. (u \o v) \o t = u \o (v \o t)
      <4>1. Assoc(u, v, t)
        BY <2>1, Regroup
      <4> QED
        BY <4>1 DEF Assoc
    <3>3. (fd \o body) \o f = fd \o (body \o f)
      <4>1. Assoc(fd, body, f)
        BY <1>4, <1>6, Regroup
      <4> QED
        BY <4>1 DEF Assoc
    <3> QED
      BY <3>1, <3>2, <3>3
  <2>3. v \o t \in Stream /\ body \o f \in Stream
    BY <1>4, <2>1, Joined
  <2>4. u = fd
    <3> PICK y : y = v \o t
      OBVIOUS
    <3> PICK z : z = body \o f
      OBVIOUS
    <3>1. u \in Stream /\ y \in Stream /\ fd \in Stream /\ z \in Stream
          /\ CutAlike(u, y, fd, z)
      BY <1>6, <2>1, <2>2, <2>3 DEF CutAlike
    <3> QED
      BY <3>1, StreamCancel
  <2> QED
    BY <2>4
<1>8. Number(At(b, 0, W)) = Len(x) - W
  <2>1. At(b, 0, W) = fd
    <3>1. 0 + 1 = 1 /\ 0 + W = W
      BY <1>1
    <3> QED
      BY <1>7, <3>1 DEF At
  <2>2. Number(At(b, 0, W)) = Len(body)
    BY <1>6, <2>1, Zenon
  <2> QED
    BY <1>1, <1>6, <2>2
<1>9. ASSUME Len(x) <= Len(b)
      PROVE  /\ SubSeq(b, 1, Len(x)) = x
             /\ SubSeq(b, Len(x) + 1, Len(b)) \in Stream
             /\ b = x \o SubSeq(b, Len(x) + 1, Len(b))
             /\ SubSeq(b, Len(x) + 1, Len(b)) \o t = f
  <2> PICK u : u = SubSeq(b, 1, Len(x))
    OBVIOUS
  <2> PICK v : v = SubSeq(b, Len(x) + 1, Len(b))
    OBVIOUS
  <2>1. u \in Stream /\ v \in Stream /\ Len(u) = Len(x) /\ u \o v = b
    <3>1. Len(x) \in 0..Len(b)
      BY <1>1, <1>6, <1>9
    <3> QED
      BY <3>1, SplitSeq DEF Stream
  <2>2. u \o (v \o t) = x \o f
    <3>1. (u \o v) \o t = u \o (v \o t)
      <4>1. Assoc(u, v, t)
        BY <2>1, Regroup
      <4> QED
        BY <4>1 DEF Assoc
    <3> QED
      BY <1>4, <2>1, <3>1
  <2>3. v \o t \in Stream
    BY <2>1, Joined
  <2>4. u = x /\ v \o t = f
    <3> PICK y : y = v \o t
      OBVIOUS
    <3>1. u \in Stream /\ y \in Stream /\ x \in Stream /\ f \in Stream
          /\ CutAlike(u, y, x, f)
      BY <1>4, <2>1, <2>2, <2>3 DEF CutAlike
    <3> QED
      BY <3>1, StreamCancel
  <2> QED
    BY <2>1, <2>4
<1>10. Len(x) >= W
  BY <1>1, <1>6
<1> QED
  BY <1>2, <1>4, <1>8, <1>9, <1>10, Zenon DEF Begun
-----------------------------------------------------------------------------
(* What clients still have to be answered, and what they have been.        *)
Pending(reqs, n) == [i \in 1..Len(reqs) - n |-> Request(reqs[n + i])]
Given(as) == [i \in 1..Len(as) |-> Frame(as[i])]

(* What is sent of a request after its length. *)
SentBody(words) == IF words \in CutShort THEN Front(Body(Strs(words))) ELSE Body(Strs(words))

(* All but the last. *)
LEMMA FrontIs ==
  ASSUME NEW S, NEW b \in Seq(S), b # <<>>
  PROVE  /\ Front(b) \in Seq(S) /\ Len(Front(b)) = Len(b) - 1 /\ Len(b) >= 1
         /\ \A i \in 1..Len(b) - 1 : Front(b)[i] = b[i]
<1> PICK n : n = Len(b) - 1
  OBVIOUS
<1>1. n \in Nat /\ Len(b) = n + 1
  <2>1. Len(b) \in Nat /\ Len(b) # 0
    BY EmptySeq
  <2> QED
    BY <2>1
<1>2. \A i \in 1..n : b[i] \in S
  BY <1>1
<1> PICK f : f = SubSeq(b, 1, n)
  OBVIOUS
<1>3. f \in Seq(S) /\ Len(f) = n /\ \A i \in 1..n : f[i] = b[i]
  <2>1. 1 \in Int /\ n \in Int /\ (IF 1 <= n THEN n - 1 + 1 ELSE 0) = n /\ n - 1 + 1 = n
        /\ \A i \in 1..n : 1 + i - 1 = i
    BY <1>1
  <2> QED
    BY <1>2, <2>1, SubSeqProperties
<1>4. f = Front(b)
  BY DEF Front
<1> QED
  BY <1>1, <1>3, <1>4

(* The last of what was put together is the last of the second part. *)
LEMMA FrontConcat ==
  ASSUME NEW S, NEW a \in Seq(S), NEW b \in Seq(S), b # <<>>
  PROVE  Front(a \o b) = a \o Front(b)
<1> PICK f : f = Front(b)
  OBVIOUS
<1>1. f \in Seq(S) /\ Len(f) = Len(b) - 1 /\ Len(b) >= 1 /\ \A i \in 1..Len(b) - 1 : f[i] = b[i]
  BY FrontIs
<1>2. Len(a) \in Nat /\ Len(b) \in Nat
  OBVIOUS
<1> PICK c : c = a \o b
  OBVIOUS
<1>3. /\ c \in Seq(S) /\ Len(c) = Len(a) + Len(b)
      /\ \A i \in 1..Len(a) + Len(b) : c[i] = IF i <= Len(a) THEN a[i] ELSE b[i - Len(a)]
  BY ConcatProperties
<1> PICK h : h = a \o f
  OBVIOUS
<1>4. /\ h \in Seq(S) /\ Len(h) = Len(a) + Len(f)
      /\ \A i \in 1..Len(a) + Len(f) : h[i] = IF i <= Len(a) THEN a[i] ELSE f[i - Len(a)]
  <2>1. f \in Seq(S)
    BY <1>1
  <2> QED
    BY <2>1, ConcatProperties
<1> PICK g : g = Front(c)
  OBVIOUS
<1>5. g \in Seq(S) /\ Len(g) = Len(c) - 1 /\ \A i \in 1..Len(c) - 1 : g[i] = c[i]
  <2>1. c # <<>>
    <3>1. Len(c) # 0
      BY <1>1, <1>2, <1>3
    <3> QED
      BY <1>3, <3>1, EmptySeq
  <2> QED
    BY <1>3, <2>1, FrontIs
<1>6. Len(g) = Len(h) /\ Len(g) = Len(a) + Len(f)
  BY <1>1, <1>2, <1>3, <1>4, <1>5
<1>7. \A i \in 1..Len(g) : g[i] = h[i]
  <2> TAKE i \in 1..Len(g)
  <2>1. i \in 1..Len(c) - 1 /\ i \in 1..Len(a) + Len(b) /\ i \in 1..Len(a) + Len(f)
    BY <1>1, <1>2, <1>3, <1>5, <1>6
  <2>2. ~(i <= Len(a)) => i - Len(a) \in 1..Len(b) - 1
    BY <1>1, <1>2, <1>3, <2>1
  <2>3. g[i] = IF i <= Len(a) THEN a[i] ELSE b[i - Len(a)]
    BY <1>3, <1>5, <2>1
  <2>4. h[i] = IF i <= Len(a) THEN a[i] ELSE f[i - Len(a)]
    BY <1>4, <2>1
  <2> QED
    BY <1>1, <2>2, <2>3, <2>4
<1>8. g = h
  BY <1>4, <1>5, <1>6, <1>7, SeqEqual
<1> QED
  BY <1>8

(* The last byte taken off. *)
LEMMA FrontOf ==
  ASSUME NEW a \in Stream, NEW b \in Stream, b # <<>>
  PROVE  /\ Front(b) \in Stream /\ Len(Front(b)) = Len(b) - 1 /\ Len(b) >= 1
         /\ Front(a \o b) = a \o Front(b)
BY FrontIs, FrontConcat DEF Stream

(* A command as it is sent: its length, then its body. *)
LEMMA CommandType ==
  ASSUME NEW words \in Commands
  PROVE  /\ Strs(words) \in Seq(Stream) /\ SentBody(words) \in Stream
         /\ Request(words) \in Stream
         /\ Request(words) = Field(Len(SentBody(words))) \o SentBody(words)
         /\ Len(Request(words)) = W + Len(SentBody(words))
<1> PICK cmd : cmd = Strs(words)
  OBVIOUS
<1> PICK body : body = SentBody(words)
  OBVIOUS
<1>1. IsText(words)
  BY ConnectionAssumption, Zenon
<1>2. cmd \in Seq(Stream)
  BY <1>1, StrsType
<1>3. Body(cmd) \in Stream /\ Body(cmd) # <<>>
  BY <1>2, BodyType
<1>4. body \in Stream /\ Request(words) = Field(Len(body)) \o body
  <2>1. CASE words \in CutShort
    <3>1. Front(Body(cmd)) \in Stream /\ Len(Front(Body(cmd))) = Len(Body(cmd)) - 1
      BY <1>3, FrontOf
    <3> QED
      BY <2>1, <3>1 DEF SentBody, Request, cut_req
  <2>2. CASE words \notin CutShort
    BY <1>3, <2>2 DEF SentBody, Request, send_req
  <2> QED
    BY <2>1, <2>2
<1>5. Len(body) \in Int
  BY <1>4, StreamLen
<1>6. Field(Len(body)) \in Stream /\ Len(Field(Len(body))) = W
  BY <1>5, FieldType
<1> QED
  BY <1>2, <1>4, <1>6, Joined

(* What is pending is messages, one for each request from the n-th on. *)
LEMMA PendingFramed ==
  ASSUME NEW reqs \in Seq(Commands), NEW n \in 0..Len(reqs)
  PROVE  /\ Framed(Pending(reqs, n)) /\ Len(Pending(reqs, n)) = Len(reqs) - n
         /\ \A i \in 1..Len(reqs) - n : Pending(reqs, n)[i] = Request(reqs[n + i])
<1>1. Len(reqs) \in Nat /\ Len(reqs) - n \in Nat
  OBVIOUS
<1>2. \A i \in 1..Len(reqs) - n : reqs[n + i] \in Commands
  <2>1. \A i \in 1..Len(reqs) - n : n + i \in 1..Len(reqs)
    BY <1>1
  <2> QED
    BY <2>1
<1> PICK p : p = Pending(reqs, n)
  OBVIOUS
<1>3. /\ p \in [1..Len(reqs) - n -> Stream]
      /\ \A i \in 1..Len(reqs) - n : p[i] = Request(reqs[n + i])
  <2>1. \A i \in 1..Len(reqs) - n : Request(reqs[n + i]) \in Stream
    BY <1>2, CommandType
  <2> QED
    BY <2>1 DEF Pending
<1>4. p \in Seq(Stream) /\ Len(p) = Len(reqs) - n
  BY <1>1, <1>3
<1>5. ASSUME NEW i \in 1..Len(reqs) - n
      PROVE  \E body \in Stream : p[i] = Field(Len(body)) \o body
  <2> PICK words : words = reqs[n + i]
    OBVIOUS
  <2>1. words \in Commands /\ p[i] = Request(words)
    BY <1>2, <1>3
  <2> QED
    BY <2>1, CommandType
<1> QED
  BY <1>3, <1>4, <1>5 DEF Framed

(* One more request, and its message is at the end of the stream. *)
LEMMA PendingAppend ==
  ASSUME NEW reqs \in Seq(Commands), NEW n \in 0..Len(reqs), NEW words \in Commands
  PROVE  /\ Append(reqs, words) \in Seq(Commands) /\ n \in 0..Len(Append(reqs, words))
         /\ FlattenSeq(Pending(Append(reqs, words), n)) =
              FlattenSeq(Pending(reqs, n)) \o Request(words)
<1> PICK more : more = Append(reqs, words)
  OBVIOUS
<1>1. /\ more \in Seq(Commands) /\ Len(more) = Len(reqs) + 1 /\ n \in 0..Len(more)
      /\ more[Len(reqs) + 1] = words /\ Len(reqs) \in Nat
      /\ \A i \in 1..Len(reqs) : more[i] = reqs[i]
  OBVIOUS
<1> PICK p : p = Pending(reqs, n)
  OBVIOUS
<1> PICK q : q = Pending(more, n)
  OBVIOUS
<1> PICK m : m = Len(reqs) - n
  OBVIOUS
<1>2. /\ p \in Seq(Stream) /\ Len(p) = m
      /\ \A i \in 1..m : p[i] = Request(reqs[n + i])
  BY PendingFramed DEF Framed
<1>3. /\ q \in Seq(Stream) /\ Len(q) = Len(more) - n
      /\ \A i \in 1..Len(more) - n : q[i] = Request(more[n + i])
  BY <1>1, PendingFramed DEF Framed
<1>4. m \in Nat /\ Len(more) - n = m + 1 /\ n + (m + 1) = Len(reqs) + 1
      /\ \A i \in 1..m : n + i \in 1..Len(reqs)
  BY <1>1
<1> PICK x : x = Request(words)
  OBVIOUS
<1>5. x \in Stream /\ q[m + 1] = x /\ \A i \in 1..m : q[i] = p[i]
  <2>1. q[m + 1] = Request(more[n + (m + 1)])
    BY <1>3, <1>4
  <2>2. \A i \in 1..m : q[i] = Request(more[n + i]) /\ more[n + i] = reqs[n + i]
    <3> TAKE i \in 1..m
    <3>1. i \in 1..m + 1 /\ n + i \in 1..Len(reqs)
      BY <1>4
    <3>2. q[i] = Request(more[n + i])
      BY <1>3, <1>4, <3>1
    <3> QED
      BY <1>1, <3>1, <3>2
  <2>3. x \in Stream
    BY CommandType
  <2>4. more[n + (m + 1)] = words
    BY <1>1, <1>4
  <2>5. q[m + 1] = x
    BY <2>1, <2>4
  <2>6. \A i \in 1..m : q[i] = p[i]
    BY <1>2, <2>2
  <2> QED
    BY <2>3, <2>5, <2>6
<1>6. q = Append(p, x)
  <2>1. Extends(Stream, q, p, x)
    BY <1>2, <1>3, <1>4, <1>5 DEF Extends
  <2> QED
    BY <1>2, <1>5, <2>1, ExtendsAppend
<1>7. FlattenSeq(Append(p, x)) = FlattenSeq(p) \o x
  BY <1>2, <1>5, FlattenAppend DEF Stream
<1> QED
  BY <1>1, <1>6, <1>7

(* One more answer, and the first message is gone. *)
LEMMA PendingTail ==
  ASSUME NEW reqs \in Seq(Commands), NEW n \in 0..Len(reqs), Pending(reqs, n) # <<>>
  PROVE  /\ n + 1 \in 0..Len(reqs) /\ reqs[n + 1] \in Commands
         /\ Pending(reqs, n)[1] = Request(reqs[n + 1])
         /\ Tail(Pending(reqs, n)) = Pending(reqs, n + 1)
<1> PICK p : p = Pending(reqs, n)
  OBVIOUS
<1> PICK m : m = Len(reqs) - n
  OBVIOUS
<1>1. /\ p \in Seq(Stream) /\ Len(p) = m
      /\ \A i \in 1..m : p[i] = Request(reqs[n + i])
  BY PendingFramed DEF Framed
<1>2. m \in Nat /\ m >= 1 /\ Len(reqs) \in Nat /\ n \in Nat /\ n <= Len(reqs) /\ m = Len(reqs) - n
  BY <1>1, EmptySeq
<1>3. n + 1 \in 0..Len(reqs) /\ n + 1 \in 1..Len(reqs) /\ 1 \in 1..m
  BY <1>2
<1> PICK q : q = Pending(reqs, n + 1)
  OBVIOUS
<1>4. /\ q \in Seq(Stream) /\ Len(q) = m - 1
      /\ \A i \in 1..m - 1 : q[i] = Request(reqs[(n + 1) + i])
  <2>1. Len(reqs) - (n + 1) = m - 1
    BY <1>2
  <2> QED
    BY <1>3, <2>1, PendingFramed DEF Framed
<1>5. Tail(p) = q
  <2>1. \A i \in 1..m - 1 : q[i] = p[i + 1]
    <3> TAKE i \in 1..m - 1
    <3>1. i + 1 \in 1..m /\ n + (i + 1) = (n + 1) + i
      BY <1>2
    <3>2. p[i + 1] = Request(reqs[n + (i + 1)])
      BY <1>1, <3>1
    <3> QED
      BY <1>4, <3>1, <3>2
  <2>2. Drops(Stream, q, p)
    BY <1>1, <1>2, <1>4, <2>1 DEF Drops
  <2> QED
    BY <1>1, <2>2, DropsTail
<1> QED
  BY <1>1, <1>3, <1>5

(* What was given is messages, one for each answer. *)
LEMMA GivenFramed ==
  ASSUME NEW as \in Seq(Seq(Value))
  PROVE  /\ Framed(Given(as)) /\ Len(Given(as)) = Len(as)
         /\ \A i \in 1..Len(as) : Given(as)[i] = Frame(as[i]) /\ as[i] \in Seq(Value)
<1>1. Len(as) \in Nat /\ \A i \in 1..Len(as) : as[i] \in Seq(Value)
  BY SeqHolds DEF Holds
<1> PICK g : g = Given(as)
  OBVIOUS
<1>2. g \in [1..Len(as) -> Stream] /\ \A i \in 1..Len(as) : g[i] = Frame(as[i])
  BY <1>1, BytesType DEF Given
<1>3. g \in Seq(Stream) /\ Len(g) = Len(as)
  <2> PICK k : k = Len(as)
    OBVIOUS
  <2>1. k \in Nat /\ g \in [1..k -> Stream]
    BY <1>1, <1>2
  <2> QED
    BY ONLY k = Len(as), <2>1, FunctionSeq
<1>4. \A i \in 1..Len(as) : \E body \in Stream : g[i] = Field(Len(body)) \o body
  BY <1>1, <1>2, BytesType DEF Frame
<1> QED
  BY <1>1, <1>2, <1>3, <1>4 DEF Framed

(* One more answer, and its message is at the end of the stream. *)
LEMMA GivenAppend ==
  ASSUME NEW as \in Seq(Seq(Value)), NEW out \in Seq(Value)
  PROVE  /\ Append(as, out) \in Seq(Seq(Value)) /\ Len(Append(as, out)) = Len(as) + 1
         /\ FlattenSeq(Given(Append(as, out))) = FlattenSeq(Given(as)) \o Frame(out)
<1> PICK more : more = Append(as, out)
  OBVIOUS
<1>1. /\ more \in Seq(Seq(Value)) /\ Len(more) = Len(as) + 1 /\ Len(as) \in Nat
      /\ more[Len(as) + 1] = out /\ \A i \in 1..Len(as) : more[i] = as[i]
  <2>1. Extends(Seq(Value), Append(as, out), as, out)
    BY AppendExtends
  <2> QED
    BY <2>1 DEF Extends
<1> PICK g : g = Given(as)
  OBVIOUS
<1> PICK h : h = Given(more)
  OBVIOUS
<1> PICK x : x = Frame(out)
  OBVIOUS
<1>2. g \in Seq(Stream) /\ Len(g) = Len(as) /\ \A i \in 1..Len(as) : g[i] = Frame(as[i])
  BY GivenFramed DEF Framed
<1>3. h \in Seq(Stream) /\ Len(h) = Len(more) /\ \A i \in 1..Len(more) : h[i] = Frame(more[i])
  BY <1>1, GivenFramed DEF Framed
<1>4. x \in Stream
  BY BytesType
<1>5. h = Append(g, x)
  <2>1. h[Len(g) + 1] = x
    <3>1. Len(as) + 1 \in 1..Len(more)
      <4> PICK k : k = Len(as)
        OBVIOUS
      <4> PICK l : l = Len(more)
        OBVIOUS
      <4>1. k \in Nat /\ l = k + 1
        BY <1>1
      <4>2. k + 1 \in 1..l
        BY ONLY <4>1
      <4> QED
        BY <4>2
    <3> QED
      BY <1>1, <1>2, <1>3, <3>1
  <2>2. \A i \in 1..Len(g) : h[i] = g[i]
    <3> TAKE i \in 1..Len(g)
    <3>1. i \in 1..Len(as) /\ i \in 1..Len(more)
      <4> PICK k : k = Len(as)
        OBVIOUS
      <4> PICK l : l = Len(more)
        OBVIOUS
      <4>1. k \in Nat /\ l = k + 1 /\ i \in 1..k
        BY <1>1, <1>2
      <4>2. i \in 1..k /\ i \in 1..l
        BY ONLY <4>1
      <4> QED
        BY <4>2
    <3>2. h[i] = Frame(more[i]) /\ g[i] = Frame(as[i]) /\ more[i] = as[i]
      BY <1>1, <1>2, <1>3, <3>1
    <3> QED
      BY <3>2
  <2>3. Extends(Stream, h, g, x)
    BY <1>1, <1>2, <1>3, <2>1, <2>2 DEF Extends
  <2> QED
    BY <1>2, <1>4, <2>3, ExtendsAppend
<1>6. FlattenSeq(Append(g, x)) = FlattenSeq(g) \o x
  BY <1>2, <1>4, FlattenAppend DEF Stream
<1> QED
  BY <1>1, <1>5, <1>6

-----------------------------------------------------------------------------
(* The reply that goes out fits, be it the error instead of one too big.   *)
LEMMA FlattenOne ==
  ASSUME NEW S, NEW x \in Seq(S)
  PROVE  FlattenSeq(<<x>>) = x
<1>1. <<>> \in Seq(Seq(S)) /\ <<x>> = Append(<<>>, x)
  OBVIOUS
<1>2. FlattenSeq(Append(<<>>, x)) = FlattenSeq(<<>>) \o x
  BY <1>1, FlattenAppend
<1> QED
  BY <1>1, <1>2, FlattenEmpty

(* A reply of one value. *)
LEMMA BytesOne ==
  ASSUME NEW v \in Value
  PROVE  Bytes(<<v>>) = OneValue(v)
<1> PICK values : values = <<v>>
  OBVIOUS
<1>1. values \in Seq(Value) /\ Len(values) = 1 /\ values[1] = v
  <2> HIDE DEF Value
  <2> QED
    OBVIOUS
<1>2. Bytes(values) = FlattenSeq([i \in 1..Len(values) |-> OneValue(values[i])])
  BY <1>1, ValuesOf
<1>3. [i \in 1..Len(values) |-> OneValue(values[i])] = <<OneValue(v)>>
  BY <1>1
<1>4. OneValue(v) \in Seq(Cell)
  BY OneValueType DEF Stream
<1> QED
  BY <1>2, <1>3, <1>4, FlattenOne

(* The error code is a number. *)
LEMMA ErrorCodes == ERR_2BIG \in Nat /\ ERR_2BIG \in Int
BY DEF ERR_2BIG

(* That the error itself fits is the size conjunct of ConnectionAssumption. *)
LEMMA BoundedType ==
  ASSUME NEW out \in Seq(Value)
  PROVE  /\ Bounded(out) \in Seq(Value)
         /\ Frame(Bounded(out)) \in Stream
         /\ Len(Frame(Bounded(out))) \in W..k_max_msg
<1> PICK w : w = "response is too big"
  OBVIOUS
<1> PICK v : v = Error(ERR_2BIG, w)
  OBVIOUS
<1>1. IsWord(w) /\ v \in Value /\ ERR_2BIG \in Int
  <2>1. IsWord(w)
    BY WireAssumption, Zenon
  <2>2. ERR_2BIG \in Nat /\ ERR_2BIG \in Int
    BY ErrorCodes
  <2> QED
    BY <2>1, <2>2, ErrorValue
<1>2. <<v>> \in Seq(Value)
  BY <1>1, OneIsSeq
<1>3. Len(Bytes(<<v>>)) = 1 + W + W + Length(w)
  <2>1. v.type = "SER_ERR" /\ v.code = ERR_2BIG /\ v.data = Str(w)
    BY DEF Error, V
  <2>2. Bytes(<<v>>) = out_err(v)
    BY <1>1, <2>1, BytesOne DEF OneValue
  <2> PICK a : a = Type("SER_ERR")
    OBVIOUS
  <2> PICK b : b = Field(v.code)
    OBVIOUS
  <2> PICK c : c = Field(Len(v.data))
    OBVIOUS
  <2> PICK d : d = v.data
    OBVIOUS
  <2>3. d \in Stream /\ Len(d) = Length(w) /\ Len(d) \in Int
    <3>1. Str(w) \in Stream /\ Len(Str(w)) = Length(w)
      BY <1>1, StrType
    <3>2. d = Str(w)
      BY <2>1
    <3> QED
      BY <3>1, <3>2, StreamLen, Zenon
  <2>4. a \in Stream /\ Len(a) = 1
    BY TypeType, TagsAreStrings DEF Types
  <2>5. b \in Stream /\ Len(b) = W /\ c \in Stream /\ Len(c) = W
    BY <1>1, <2>1, <2>3, FieldType
  <2>6. a \o b \in Stream /\ Len(a \o b) = Len(a) + Len(b)
    BY <2>4, <2>5, Joined
  <2>7. (a \o b) \o c \in Stream /\ Len((a \o b) \o c) = Len(a \o b) + Len(c)
    BY <2>5, <2>6, Joined
  <2>8. Len(((a \o b) \o c) \o d) = Len((a \o b) \o c) + Len(d)
    BY <2>3, <2>7, Joined
  <2>9. out_err(v) = ((a \o b) \o c) \o d
    BY DEF out_err
  <2> QED
    BY <2>2, <2>3, <2>4, <2>5, <2>6, <2>7, <2>8, <2>9
<1>4. W + 1 + 2 * W + Length(w) <= k_max_msg
  BY ConnectionAssumption, Zenon
<1>5. CASE W + Len(Bytes(out)) > k_max_msg
  <2>1. Bounded(out) = <<v>>
    BY <1>5 DEF Bounded
  <2>2. Length(w) \in Nat
    BY <1>1 DEF IsWord
  <2>3. Frame(<<v>>) \in Stream /\ Len(Frame(<<v>>)) = W + (1 + W + W + Length(w))
    BY <1>2, <1>3, BytesType
  <2>4. W + (1 + W + W + Length(w)) \in W..k_max_msg
    <3> PICK l : l = Length(w)
      OBVIOUS
    <3>1. W + 1 + 2 * W + l <= k_max_msg /\ l \in Nat
      BY <1>4, <2>2, Zenon
    <3>2. W + (1 + W + W + l) \in W..k_max_msg
      BY ONLY <3>1, WireSizes
    <3> QED
      BY <3>2, Zenon
  <2> QED
    BY <1>2, <2>1, <2>3, <2>4
<1>6. CASE ~(W + Len(Bytes(out)) > k_max_msg)
  <2>1. Bounded(out) = out
    BY <1>6 DEF Bounded
  <2>2. Frame(out) \in Stream /\ Len(Frame(out)) = W + Len(Bytes(out)) /\ Len(Bytes(out)) \in Nat
    BY BytesType
  <2>3. W + Len(Bytes(out)) \in W..k_max_msg
    <3> PICK l : l = Len(Bytes(out))
      OBVIOUS
    <3>1. ~(W + l > k_max_msg) /\ l \in Nat
      BY <1>6, <2>2, Zenon
    <3>2. W + l \in W..k_max_msg
      BY ONLY <3>1, WireSizes
    <3> QED
      BY <3>2, Zenon
  <2> QED
    BY <2>1, <2>2, <2>3
<1> QED
  BY <1>5, <1>6
-----------------------------------------------------------------------------
(* Min as try_fill_buffer and the socket take it. *)
LEMMA MinOfTwo ==
  ASSUME NEW a \in Int, NEW b \in Int
  PROVE  Min({a, b}) \in {a, b} /\ Min({a, b}) <= a /\ Min({a, b}) <= b
<1> DEFINE Least(x) == x \in {a, b} /\ \A y \in {a, b} : x <= y
<1>1. \E x : Least(x)
  <2>1. CASE a <= b
    BY <2>1
  <2>2. CASE b <= a
    BY <2>2
  <2> QED
    BY <2>1, <2>2
<1>2. Min({a, b}) = CHOOSE x : Least(x)
  BY DEF Min
<1>3. Least(Min({a, b}))
  <2> HIDE DEF Least
  <2> QED
    BY <1>1, <1>2
<1> QED
  BY <1>3

(* The n cells of s after the first a, and what follows them.              *)
Cut(s, a, n) ==
  /\ SubSeq(s, a + 1, a + n) \in Stream /\ Len(SubSeq(s, a + 1, a + n)) = n
  /\ SubSeq(s, a + n + 1, Len(s)) \in Stream
  /\ Len(SubSeq(s, a + n + 1, Len(s))) = Len(s) - (a + n)
  /\ SubSeq(s, a + 1, Len(s)) = SubSeq(s, a + 1, a + n) \o SubSeq(s, a + n + 1, Len(s))

(* They are pieces of it. *)
LEMMA CutStream ==
  ASSUME NEW s \in Stream, NEW a \in 0..Len(s), NEW n \in 0..Len(s) - a
  PROVE  Cut(s, a, n)
<1>1. Len(s) \in Nat /\ a \in Nat /\ n \in Nat /\ a + n <= Len(s) /\ s \in Seq(Cell)
  BY StreamLen DEF Stream
<1>2. SubSeq(s, a + 1, a + n) \in Seq(Cell) /\ Len(SubSeq(s, a + 1, a + n)) = n
  BY <1>1, SubSeqProperties
<1>3. SubSeq(s, a + n + 1, Len(s)) \in Seq(Cell)
      /\ Len(SubSeq(s, a + n + 1, Len(s))) = Len(s) - (a + n)
  BY <1>1, SubSeqProperties
<1>4. SubSeq(s, a + 1, Len(s)) = SubSeq(s, a + 1, a + n) \o SubSeq(s, a + n + 1, Len(s))
  <2>1. a + 1 \in 1..Len(s) + 1 /\ a + n \in (a + 1) - 1..Len(s) /\ Len(s) \in a + n..Len(s)
    BY <1>1
  <2> QED
    BY <1>1, <2>1, ConcatAdjacentSubSeq
<1> QED
  BY <1>2, <1>3, <1>4 DEF Cut, Stream

(* The ends of a cut. *)
LEMMA WholeStream ==
  ASSUME NEW s \in Stream
  PROVE  /\ SubSeq(s, 1, Len(s)) = s /\ SubSeq(s, 0 + 1, Len(s)) = s
         /\ s \o <<>> = s /\ <<>> \o s = s
BY SubSeqFull, EmptyConcat DEF Stream
-----------------------------------------------------------------------------
(* The inductive invariant.  Of the bytes a client has sent, rbuf and inq  *)
(* have a part that no step takes out of order; a client that hangs up     *)
(* leaves the rest unsaid.  The same goes for the replies.                 *)
Owed == SubSeq(wbuf, wbuf_sent + 1, Len(wbuf))

Phases ==
  /\ pc \in {"read", "request"} => state = "REQ"
  /\ pc \in {"reply", "write"} => state = "RES"
  /\ pc = "poll" => state # "END"
  /\ pc = "dead" => state = "REQ" \/ (state = "RES" /\ peer = "closed")
  /\ state = "REQ" => wbuf = <<>> /\ wbuf_sent = 0
  /\ state = "RES" => wbuf_sent < Len(wbuf) /\ Len(rbuf) <= k_max_msg
  /\ pc \in {"read", "poll"} => Len(rbuf) < W + k_max_msg

InStream ==
  \E rest \in Stream :
    /\ rbuf \o inq \o rest = FlattenSeq(Pending(requests, Len(answers)))
    /\ peer = "open" => rest = unsent

OutStream ==
  \E rest \in Stream :
    /\ got \o outq \o rest = FlattenSeq(Given(answers))
    /\ peer = "open" /\ ~Ended => rest = Owed
    /\ state = "RES" => rest # <<>>

Typed == TypeOK /\ answers \in Seq(Seq(Value))
Inv == Typed /\ Phases /\ InStream /\ OutStream

(* The socket takes at least a byte. *)
LEMMA SendRoom == SndCap \in Nat /\ SndCap >= 1
<1>1. SndCap \in Nat \ {0}
  BY ConnectionAssumption, Zenon
<1> QED
  BY <1>1

(* A new connection. *)
LEMMA InitInv == Init => Inv
<1> SUFFICES ASSUME Init
             PROVE  Inv
  OBVIOUS
<1>1. <<>> \in Stream /\ <<>> \in Seq(Seq(Value)) /\ <<>> \in Seq(Commands)
      /\ Len(<<>>) = 0 /\ <<>> \in Seq(Cell)
  BY DEF Stream
<1>2. Typed
  BY <1>1, WireSizes, SendRoom DEF Init, Typed, TypeOK
<1>3. Phases
  BY <1>1, WireSizes DEF Init, Phases
<1>4. <<>> \o <<>> \o <<>> = <<>>
  OBVIOUS
<1>5. InStream
  <2>1. Pending(<<>>, Len(<<>>)) = <<>>
    BY DEF Pending
  <2> QED
    BY <1>1, <1>4, <2>1, FlattenEmpty, Zenon DEF Init, InStream
<1>6. OutStream
  <2>1. Given(<<>>) = <<>>
    BY DEF Given
  <2>2. SubSeq(<<>>, 0 + 1, Len(<<>>)) = <<>>
    OBVIOUS
  <2>3. Owed = <<>>
    BY <2>2, Zenon DEF Init, Owed
  <2>4. state # "RES"
    BY DEF Init
  <2> QED
    BY <1>1, <1>4, <2>1, <2>3, <2>4, FlattenEmpty, Zenon DEF Init, OutStream
<1> QED
  BY <1>2, <1>3, <1>5, <1>6 DEF Inv
-----------------------------------------------------------------------------
(* The request at the head of rbuf is the first one not answered.          *)
Heads(cmd) ==
  /\ Len(answers) < Len(requests)
  /\ cmd = requests[Len(answers) + 1] /\ cmd \in Commands
  /\ W + len = Len(Request(cmd))
  /\ Complete =>
       /\ rbuf = Request(cmd) \o Rest /\ Rest \in Stream
       /\ Len(Rest) = Len(rbuf) - (W + len)
       /\ SubSeq(rbuf, 1, W + len) = Request(cmd)
       /\ \E rest \in Stream :
            /\ Rest \o inq \o rest = FlattenSeq(Pending(requests, Len(answers) + 1))
            /\ peer = "open" => rest = unsent

(* one_request never takes the middle of a message for its beginning. *)
LEMMA HeadOfStream ==
  Typed /\ InStream /\ Len(rbuf) >= W => \E cmd : Heads(cmd)
<1> SUFFICES ASSUME Typed, InStream, Len(rbuf) >= W
             PROVE  \E cmd : Heads(cmd)
  OBVIOUS
<1>1. /\ rbuf \in Stream /\ inq \in Stream /\ requests \in Seq(Commands)
      /\ Len(answers) \in 0..Len(requests)
  BY DEF Typed, TypeOK, Stream
<1>2. PICK rest \in Stream :
        /\ rbuf \o inq \o rest = FlattenSeq(Pending(requests, Len(answers)))
        /\ peer = "open" => rest = unsent
  BY DEF InStream
<1> PICK n : n = Len(answers)
  OBVIOUS
<1> PICK ss : ss = Pending(requests, n)
  OBVIOUS
<1> PICK t : t = inq \o rest
  OBVIOUS
<1>3. t \in Stream
  BY <1>1, <1>2, Joined
<1>4. rbuf \o t = FlattenSeq(ss)
  <2>1. Assoc(rbuf, inq, rest)
    BY <1>1, <1>2, Regroup
  <2> QED
    BY <1>2, <2>1 DEF Assoc
<1>5. Framed(ss)
  BY <1>1, PendingFramed
<1>6. Begun(ss, rbuf, t)
  BY <1>1, <1>3, <1>4, <1>5, FirstMessage
<1> PICK cmd : cmd = requests[n + 1]
  OBVIOUS
<1> PICK x : x = ss[1]
  OBVIOUS
<1> PICK l : l = len
  OBVIOUS
<1>7. /\ ss # <<>> /\ x \in Stream /\ l = Len(x) - W
  BY <1>6, Zenon DEF Begun, len
<1>8. /\ n + 1 \in 0..Len(requests) /\ cmd \in Commands /\ x = Request(cmd)
      /\ Tail(ss) = Pending(requests, n + 1)
  BY <1>1, <1>7, PendingTail
<1>9. W + l = Len(x) /\ n < Len(requests)
  <2>1. Len(x) \in Nat /\ W \in Nat
    BY <1>7, StreamLen, WireSizes
  <2>2. W + l = Len(x)
    BY <1>7, <2>1
  <2>3. n < Len(requests)
    BY <1>1, <1>8
  <2> QED
    BY <2>2, <2>3
<1>10. ASSUME Complete
       PROVE  /\ rbuf = x \o Rest /\ Rest \in Stream
              /\ Len(Rest) = Len(rbuf) - (W + l)
              /\ SubSeq(rbuf, 1, W + l) = x
              /\ Rest \o inq \o rest = FlattenSeq(Pending(requests, n + 1))
  <2>1. Len(x) <= Len(rbuf)
    BY <1>9, <1>10 DEF Complete
  <2> PICK r : r = Rest
    OBVIOUS
  <2>2. r = SubSeq(rbuf, Len(x) + 1, Len(rbuf))
    BY <1>9 DEF Rest
  <2>3. /\ rbuf = x \o r /\ r \in Stream /\ r \o t = FlattenSeq(Tail(ss))
        /\ SubSeq(rbuf, 1, Len(x)) = x
    BY <1>6, <2>1, <2>2, Zenon DEF Begun
  <2>4. r \o inq \o rest = FlattenSeq(Pending(requests, n + 1))
    <3>1. Assoc(r, inq, rest)
      BY <1>1, <1>2, <2>3, Regroup
    <3> QED
      BY <1>8, <2>3, <3>1 DEF Assoc
  <2>5. Len(r) = Len(rbuf) - (W + l)
    <3>1. Len(rbuf) = Len(x) + Len(r) /\ Len(r) \in Nat /\ Len(x) \in Nat
      BY <1>7, <2>3, Joined, StreamLen
    <3> QED
      BY <1>9, <3>1
  <2> QED
    BY <1>9, <2>3, <2>4, <2>5
<1> QED
  BY <1>2, <1>8, <1>9, <1>10, Zenon DEF Heads
-----------------------------------------------------------------------------
(* Steps that leave the stream of requests alone, ... *)
LEMMA SameIn ==
  /\ InStream /\ UNCHANGED <<rbuf, inq, requests, answers, unsent>>
  /\ peer' = "open" => peer = "open"
  => InStream'
BY DEF InStream

(* ... and that of replies. *)
LEMMA SameOut ==
  /\ OutStream /\ UNCHANGED <<got, outq, answers, wbuf, wbuf_sent>>
  /\ peer' = "open" /\ ~Ended' => peer = "open" /\ ~Ended
  /\ state' = "RES" => state = "RES"
  => OutStream'
BY DEF OutStream, Owed

(* The steps that move no bytes.                                           *)
Quiet ==
  connection_io \/ ReadNothing \/ ReadFails \/ NeedMore \/ Refuse \/ WriteNothing

(* The length field is a number whatever is in it. *)
LEMMA LengthRead ==
  Typed /\ Len(rbuf) >= W => len \in Nat
<1> SUFFICES ASSUME Typed, Len(rbuf) >= W
             PROVE  len \in Nat
  OBVIOUS
<1>1. rbuf \in Stream /\ W \in Nat /\ W >= 1 /\ Len(rbuf) \in Nat
  BY WireSizes, StreamLen DEF Typed, TypeOK, Stream
<1>2. 0 \in 0..Len(rbuf) /\ W \in 0..Len(rbuf) - 0 /\ 0 + W = W
  BY <1>1
<1> PICK s : s = At(rbuf, 0, W)
  OBVIOUS
<1>3. s \in Stream /\ Len(s) = W
  <2>1. Cut(rbuf, 0, W)
    BY <1>1, <1>2, CutStream
  <2> QED
    BY <2>1 DEF Cut, At
<1> QED
  BY <1>1, <1>3, NumberType DEF len

(* They keep the invariant: one_request reads on only when there is room. *)
LEMMA QuietStep == Inv /\ Quiet => Inv'
<1> SUFFICES ASSUME Inv, Quiet
             PROVE  Inv'
  OBVIOUS
<1>0. UNCHANGED <<nonblocking, answers, rbuf, wbuf, wbuf_sent, inq, outq, client>>
  BY DEF Quiet, connection_io, ReadNothing, ReadFails, NeedMore, Refuse, WriteNothing, conn
<1>1. Typed'
  BY <1>0 DEF Quiet, connection_io, ReadNothing, ReadFails, NeedMore, Refuse, WriteNothing, conn,
              client, WouldBlock, Inv, Typed, TypeOK
<1>2. Phases'
  <2>1. CASE connection_io
    BY <2>1, <1>0 DEF connection_io, conn, client, Inv, Phases
  <2>2. CASE ReadNothing \/ ReadFails \/ WriteNothing
    BY <2>2, <1>0, WireSizes
    DEF ReadNothing, ReadFails, WriteNothing, Flushing, WouldBlock, conn, client, Inv, Phases,
        Typed, TypeOK
  <2>3. CASE NeedMore
    <3>1. Len(rbuf) \in Nat
      BY StreamLen DEF Inv, Typed, TypeOK, Stream
    <3>2. Len(rbuf) < W + k_max_msg
      <4>1. CASE Len(rbuf) < W
        BY <3>1, <4>1, WireSizes
      <4>2. CASE Len(rbuf) >= W
        <5>1. ~TooLong /\ ~Complete /\ len \in Int
          BY <2>3, <4>2, LengthRead DEF NeedMore, Inv
        <5> PICK l : l = len
          OBVIOUS
        <5>2. l \in Int /\ ~(l > k_max_msg) /\ ~(W + l <= Len(rbuf))
          BY <4>2, <5>1 DEF TooLong, Complete
        <5> QED
          BY <3>1, <5>2, WireSizes
      <4> QED
        BY <3>1, <4>1, <4>2, WireSizes
    <3>3. state' = state /\ wbuf' = wbuf /\ rbuf' = rbuf /\ wbuf_sent' = wbuf_sent /\ pc' = "read"
          /\ state = "REQ"
      BY <2>3 DEF NeedMore, conn, Inv, Phases
    <3> QED
      BY <3>2, <3>3 DEF Inv, Phases
  <2>4. CASE Refuse
    BY <2>4, <1>0 DEF Refuse, conn, client, Inv, Phases
  <2> QED
    BY <2>1, <2>2, <2>3, <2>4 DEF Quiet
<1>3. InStream'
  BY <1>0, SameIn DEF Inv, client
<1>4. OutStream'
  BY <1>0, SameOut DEF Ended, Inv, client, Quiet, connection_io, ReadNothing, ReadFails, NeedMore, Refuse,
     WriteNothing, WouldBlock, Flushing, conn
<1> QED
  BY <1>1, <1>2, <1>3, <1>4 DEF Inv

(* What a step that touches nothing of the server's keeps.                 *)
LEMMA Streams ==
  Typed => /\ rbuf \in Stream /\ wbuf \in Stream /\ inq \in Stream /\ outq \in Stream
           /\ unsent \in Stream /\ got \in Stream
           /\ Len(rbuf) \in Nat /\ Len(wbuf) \in Nat /\ Len(inq) \in Nat /\ Len(outq) \in Nat
           /\ Len(unsent) \in Nat /\ wbuf_sent \in Nat
BY StreamLen DEF Typed, TypeOK, Stream

(* read() moves bytes from inq to the end of rbuf. *)
LEMMA ReadStep == Inv /\ Read => Inv'
<1> SUFFICES ASSUME Inv, Read
             PROVE  Inv'
  OBVIOUS
<1>0. Typed /\ Phases /\ InStream /\ OutStream
  BY DEF Inv
<1>1. /\ rbuf \in Stream /\ inq \in Stream /\ Len(rbuf) \in Nat /\ Len(inq) \in Nat
      /\ Len(rbuf) < W + k_max_msg /\ state = "REQ"
  BY <1>0, Streams DEF Phases, Read
<1> PICK n : n = Min({W + k_max_msg - Len(rbuf), Len(inq)})
  OBVIOUS
<1>2. n \in 0..Len(inq) /\ Len(rbuf) + n <= W + k_max_msg
  <2> PICK r : r = Len(rbuf)
    OBVIOUS
  <2> PICK i : i = Len(inq)
    OBVIOUS
  <2> PICK room : room = W + k_max_msg - r
    OBVIOUS
  <2>1. r \in Nat /\ i \in Nat /\ room \in Nat /\ room = W + k_max_msg - r
    BY <1>1, WireSizes
  <2>2. n \in {room, i} /\ n <= room /\ n <= i
    <3>1. n = Min({room, i})
      OBVIOUS
    <3>2. room \in Int /\ i \in Int
      BY <2>1
    <3> QED
      BY <3>1, <3>2, MinOfTwo, Zenon
  <2>3. n \in 0..i /\ r + n <= W + k_max_msg
    BY <2>1, <2>2, WireSizes
  <2> QED
    BY <2>3
<1> PICK seg : seg = SubSeq(inq, 1, n)
  OBVIOUS
<1> PICK left : left = SubSeq(inq, n + 1, Len(inq))
  OBVIOUS
<1>3. /\ rbuf' = rbuf \o seg /\ inq' = left /\ pc' = "request"
      /\ UNCHANGED <<nonblocking, answers, state, wbuf, wbuf_sent, outq, client>>
  BY DEF Read
<1>4. seg \in Stream /\ left \in Stream /\ Len(seg) = n /\ seg \o left = inq
  BY <1>1, <1>2, SplitSeq DEF Stream
<1>5. rbuf' \in Stream /\ Len(rbuf') <= W + k_max_msg
  <2>1. rbuf \o seg \in Stream /\ Len(rbuf \o seg) = Len(rbuf) + Len(seg)
    BY <1>1, <1>4, Joined
  <2> QED
    BY <1>2, <1>3, <1>4, <2>1
<1>6. Typed'
  <2>1. rbuf' \in Seq(Cell) /\ inq' \in Seq(Cell)
    BY <1>3, <1>4, <1>5 DEF Stream
  <2> QED
    BY <1>0, <1>3, <1>5, <2>1 DEF Typed, TypeOK, client
<1>7. Phases'
  BY <1>0, <1>1, <1>3 DEF Phases, client
<1>8. InStream'
  <2>1. PICK rest \in Stream :
          /\ rbuf \o inq \o rest = FlattenSeq(Pending(requests, Len(answers)))
          /\ peer = "open" => rest = unsent
    BY <1>0 DEF InStream
  <2>2. (rbuf \o seg) \o left = rbuf \o inq
    <3>1. Assoc(rbuf, seg, left)
      BY <1>1, <1>4, Regroup
    <3> QED
      BY <1>4, <3>1 DEF Assoc
  <2>3. rbuf' \o inq' \o rest = FlattenSeq(Pending(requests', Len(answers')))
    BY <1>3, <2>1, <2>2 DEF client
  <2>4. peer' = "open" => rest = unsent'
    BY <1>3, <2>1 DEF client
  <2> QED
    BY <2>3, <2>4 DEF InStream
<1>9. OutStream'
  BY <1>0, <1>3, SameOut DEF Ended, client, Read
<1> QED
  BY <1>6, <1>7, <1>8, <1>9 DEF Inv

(* A request is put at the end of the stream. *)
LEMMA SendStep ==
  ASSUME Inv, NEW words \in Commands, Send(words)
  PROVE  Inv'
<1>0. Typed /\ Phases /\ InStream /\ OutStream
  BY DEF Inv
<1> PICK q : q = Request(words)
  OBVIOUS
<1>1. /\ q \in Stream /\ unsent \in Stream /\ rbuf \in Stream /\ inq \in Stream
      /\ requests \in Seq(Commands) /\ Len(answers) \in 0..Len(requests)
  BY <1>0, Streams, CommandType DEF Typed, TypeOK
<1>2. /\ peer = "open" /\ requests' = Append(requests, words) /\ unsent' = unsent \o q
      /\ UNCHANGED <<conn, pc, inq, outq, got, peer>>
  BY DEF Send
<1>3. /\ requests' \in Seq(Commands) /\ Len(answers) \in 0..Len(requests')
      /\ FlattenSeq(Pending(requests', Len(answers))) =
           FlattenSeq(Pending(requests, Len(answers))) \o q
  BY <1>1, <1>2, PendingAppend
<1>4. unsent' \in Stream
  BY <1>1, <1>2, Joined
<1>5. Typed'
  <2>1. unsent' \in Seq(Cell)
    BY <1>4 DEF Stream
  <2> QED
    BY <1>0, <1>2, <1>3, <2>1 DEF Typed, TypeOK, conn
<1>6. Phases'
  BY <1>0, <1>2 DEF Phases, conn
<1>7. InStream'
  <2> PICK seen : seen = rbuf \o inq
    OBVIOUS
  <2>1. seen \in Stream
    BY <1>1, Joined
  <2>2. seen \o unsent = FlattenSeq(Pending(requests, Len(answers)))
    BY <1>0, <1>2 DEF InStream
  <2>3. (seen \o unsent) \o q = seen \o (unsent \o q)
    <3>1. Assoc(seen, unsent, q)
      BY <1>1, <2>1, Regroup
    <3> QED
      BY <3>1 DEF Assoc
  <2>4. rbuf' \o inq' \o unsent' = FlattenSeq(Pending(requests', Len(answers')))
    BY <1>2, <1>3, <2>2, <2>3 DEF conn
  <2> QED
    BY <1>4, <2>4 DEF InStream
<1>8. OutStream'
  BY <1>0, <1>2, SameOut DEF Ended, conn
<1> QED
  BY <1>5, <1>6, <1>7, <1>8 DEF Inv

(* The network moves bytes from unsent to the end of inq. *)
LEMMA DeliverStep == Inv /\ Deliver => Inv'
<1> SUFFICES ASSUME Inv, Deliver
             PROVE  Inv'
  OBVIOUS
<1>0. Typed /\ Phases /\ InStream /\ OutStream
  BY DEF Inv
<1>1. PICK n \in 1..Len(unsent) :
        /\ inq' = inq \o SubSeq(unsent, 1, n)
        /\ unsent' = SubSeq(unsent, n + 1, Len(unsent))
  BY DEF Deliver
<1>2. peer = "open" /\ UNCHANGED <<conn, pc, outq, requests, got, peer>>
  BY DEF Deliver
<1>3. /\ unsent \in Stream /\ rbuf \in Stream /\ inq \in Stream /\ Len(unsent) \in Nat
  BY <1>0, Streams
<1> PICK seg : seg = SubSeq(unsent, 1, n)
  OBVIOUS
<1> PICK left : left = SubSeq(unsent, n + 1, Len(unsent))
  OBVIOUS
<1>4. seg \in Stream /\ left \in Stream /\ seg \o left = unsent
  <2>1. n \in 0..Len(unsent)
    BY <1>3
  <2> QED
    BY <1>3, <2>1, SplitSeq DEF Stream
<1>5. inq' = inq \o seg /\ unsent' = left /\ inq' \in Stream
  BY <1>1, <1>3, <1>4, Joined
<1>6. Typed'
  <2>1. unsent' \in Seq(Cell) /\ inq' \in Seq(Cell)
    BY <1>4, <1>5 DEF Stream
  <2> QED
    BY <1>0, <1>2, <2>1 DEF Typed, TypeOK, conn
<1>7. Phases'
  BY <1>0, <1>2 DEF Phases, conn
<1>8. InStream'
  <2>1. rbuf \o inq \o unsent = FlattenSeq(Pending(requests, Len(answers)))
    BY <1>0, <1>2 DEF InStream
  <2>2. (rbuf \o (inq \o seg)) \o left = (rbuf \o inq) \o (seg \o left)
    <3>1. Assoc(rbuf, inq, seg) /\ Assoc(rbuf \o inq, seg, left)
      BY <1>3, <1>4, Joined, Regroup
    <3> QED
      BY <3>1 DEF Assoc
  <2>3. rbuf' \o inq' \o unsent' = FlattenSeq(Pending(requests', Len(answers')))
    BY <1>2, <1>4, <1>5, <2>1, <2>2 DEF conn
  <2>4. unsent' \in Stream
    BY <1>4, <1>5
  <2> QED
    BY <2>3, <2>4 DEF InStream
<1>9. OutStream'
  BY <1>0, <1>2, SameOut DEF Ended, conn
<1> QED
  BY <1>6, <1>7, <1>8, <1>9 DEF Inv

(* The client moves all of outq to the end of what it got. *)
LEMMA ReceiveStep == Inv /\ Receive => Inv'
<1> SUFFICES ASSUME Inv, Receive
             PROVE  Inv'
  OBVIOUS
<1>0. Typed /\ Phases /\ InStream /\ OutStream
  BY DEF Inv
<1>1. /\ got' = got \o outq /\ outq' = <<>>
      /\ UNCHANGED <<conn, pc, inq, peer, requests, unsent>>
  BY DEF Receive
<1>2. got \in Stream /\ outq \in Stream /\ got' \in Stream
  BY <1>0, <1>1, Streams, Joined
<1>3. Typed'
  <2>1. got' \in Seq(Cell) /\ <<>> \in Seq(Cell) /\ Len(<<>>) = 0
    BY <1>2 DEF Stream
  <2>2. Len(outq') <= SndCap
    BY <1>1, <2>1, SendRoom
  <2> QED
    BY <1>0, <1>1, <2>1, <2>2 DEF Typed, TypeOK, conn
<1>4. Phases'
  BY <1>0, <1>1 DEF Phases, conn
<1>5. InStream'
  BY <1>0, <1>1, SameIn DEF conn
<1>6. OutStream'
  <2>1. got' \o outq' = got \o outq
    BY <1>1, <1>2, WholeStream
  <2> QED
    BY <1>0, <1>1, <2>1 DEF Ended, OutStream, Owed, conn
<1> QED
  BY <1>3, <1>4, <1>5, <1>6 DEF Inv

(* Bytes still queued are as good as not written.                          *)
LEMMA LoseQueue ==
  /\ Typed /\ OutStream /\ outq' = <<>> /\ UNCHANGED <<got, answers>>
  /\ ~(peer' = "open" /\ ~Ended') /\ (state' = "RES" => state = "RES")
  => OutStream'
<1> SUFFICES ASSUME Typed, OutStream, outq' = <<>>, UNCHANGED <<got, answers>>,
                    ~(peer' = "open" /\ ~Ended'), state' = "RES" => state = "RES"
             PROVE  OutStream'
  OBVIOUS
<1>1. PICK rest \in Stream :
        /\ got \o outq \o rest = FlattenSeq(Given(answers))
        /\ state = "RES" => rest # <<>>
  BY DEF OutStream
<1>2. got \in Stream /\ outq \in Stream
  BY Streams
<1> PICK lost : lost = outq \o rest
  OBVIOUS
<1>3. lost \in Stream /\ Len(lost) = Len(outq) + Len(rest)
  BY <1>1, <1>2, Joined
<1>4. got' \o outq' \o lost = FlattenSeq(Given(answers'))
  <2>1. Assoc(got, outq, rest)
    BY <1>1, <1>2, Regroup
  <2>2. got \o <<>> = got
    BY <1>2, WholeStream
  <2>3. got \o lost = FlattenSeq(Given(answers))
    BY <1>1, <2>1 DEF Assoc
  <2>4. got' \o outq' = got
    BY <2>2
  <2>5. answers' = answers
    OBVIOUS
  <2> QED
    BY <2>3, <2>4, <2>5
<1>5. state' = "RES" => lost # <<>>
  <2> SUFFICES ASSUME state' = "RES", lost = <<>>
               PROVE  FALSE
    OBVIOUS
  <2>1. rest # <<>>
    BY <1>1
  <2>2. Len(rest) \in Nat /\ Len(rest) # 0
    BY <1>1, <2>1, StreamLen, EmptySeq DEF Stream
  <2>3. Len(lost) = 0
    OBVIOUS
  <2>4. Len(outq) \in Nat
    BY <1>2, StreamLen
  <2> QED
    BY <1>3, <2>2, <2>3, <2>4
<1> QED
  BY <1>3, <1>4, <1>5 DEF OutStream

(* A client that hangs up drops what it has not sent and what it was sent. *)
LEMMA HangupStep == Inv /\ Hangup => Inv'
<1> SUFFICES ASSUME Inv, Hangup
             PROVE  Inv'
  OBVIOUS
<1>0. Typed /\ Phases /\ InStream /\ OutStream
  BY DEF Inv
<1>1. /\ peer = "open" /\ peer' = "closed" /\ unsent' = <<>> /\ outq' = <<>>
      /\ UNCHANGED <<conn, pc, inq, requests, got>>
  BY DEF Hangup
<1>2. Typed'
  <2>1. <<>> \in Seq(Cell) /\ Len(<<>>) = 0
    OBVIOUS
  <2>2. Len(outq') <= SndCap
    BY <1>1, <2>1, SendRoom
  <2> QED
    BY <1>0, <1>1, <2>1, <2>2 DEF Typed, TypeOK, conn
<1>3. Phases'
  BY <1>0, <1>1 DEF Phases, conn
<1>4. InStream'
  BY <1>0, <1>1 DEF InStream, conn
<1>5. OutStream'
  BY <1>0, <1>1, LoseQueue DEF conn
<1> QED
  BY <1>2, <1>3, <1>4, <1>5 DEF Inv

(* The server closes the connection, or is ended by a command, and what is *)
(* queued may be lost.                                                     *)
LEMMA CloseStep == Inv /\ (Close \/ Crash) => Inv'
<1> SUFFICES ASSUME Inv, Close \/ Crash
             PROVE  Inv'
  OBVIOUS
<1>0. Typed /\ Phases /\ InStream /\ OutStream
  BY DEF Inv
<1>1. /\ pc' = "gone" \/ (pc' = "dead" /\ pc = "request")
      /\ outq' = outq \/ outq' = <<>>
      /\ UNCHANGED <<conn, inq, client>>
  BY Zenon DEF Close, Crash, LeftToRead
<1>e. Ended'
  BY <1>1 DEF Ended
<1>2. Typed'
  <2>1. <<>> \in Seq(Cell) /\ Len(<<>>) = 0
    OBVIOUS
  <2>2. outq' \in Seq(Cell) /\ Len(outq') <= SndCap
    <3>1. outq \in Seq(Cell) /\ Len(outq) <= SndCap
      BY <1>0 DEF Typed, TypeOK
    <3>2. Len(<<>>) <= SndCap
      BY <2>1, SendRoom
    <3> QED
      BY <1>1, <2>1, <3>1, <3>2, Zenon
  <2> QED
    BY <1>0, <1>1, <2>2 DEF Typed, TypeOK, conn, client
<1>3. Phases'
  BY <1>0, <1>1 DEF Phases, conn, client
<1>4. InStream'
  BY <1>0, <1>1, SameIn DEF conn, client
<1>5. OutStream'
  <2>1. CASE outq' = outq
    BY <1>0, <1>1, <1>e, <2>1, SameOut DEF conn, client
  <2>2. CASE outq' = <<>>
    BY <1>0, <1>1, <1>e, <2>2, LoseQueue DEF conn, client
  <2> QED
    BY <1>1, <2>1, <2>2
<1> QED
  BY <1>2, <1>3, <1>4, <1>5 DEF Inv

(* one_request takes the first message out of rbuf and puts a reply in wbuf, which was empty. *)
LEMMA AnswerStep == Inv /\ Answer => Inv'
<1> SUFFICES ASSUME Inv, Answer
             PROVE  Inv'
  OBVIOUS
<1>0. Typed /\ Phases /\ InStream /\ OutStream
  BY DEF Inv
<1>1. PICK cmd \in Parsed : \E reply \in do_request(cmd) :
        /\ wbuf' = Frame(Bounded(reply.out))
        /\ answers' = Append(answers, Bounded(reply.out))
  BY DEF Answer
<1>2. PICK reply \in do_request(cmd) :
        /\ wbuf' = Frame(Bounded(reply.out))
        /\ answers' = Append(answers, Bounded(reply.out))
  BY <1>1
<1> PICK out : out = Bounded(reply.out)
  OBVIOUS
<1>3. /\ pc = "request" /\ ~TooLong /\ Complete /\ rbuf' = Rest /\ state' = "RES" /\ pc' = "reply"
      /\ UNCHANGED <<nonblocking, wbuf_sent, inq, outq, client>>
      /\ wbuf' = Frame(out) /\ answers' = Append(answers, out)
  BY <1>2 DEF Answer
<1>4. out \in Seq(Value) /\ Frame(out) \in Stream /\ Len(Frame(out)) \in W..k_max_msg
  <2>1. reply.out \in Seq(Value)
    BY <1>2, RequestSayable DEF Sayable
  <2> QED
    BY <2>1, BoundedType
<1>5. Len(rbuf) >= W /\ W + len <= Len(rbuf)
  BY <1>3 DEF Complete
<1>6. PICK head : Heads(head)
  BY <1>0, <1>5, HeadOfStream
<1>7. /\ rbuf \in Stream /\ inq \in Stream /\ got \in Stream /\ outq \in Stream
      /\ Len(rbuf) \in Nat /\ answers \in Seq(Seq(Value)) /\ requests \in Seq(Commands)
      /\ Len(answers) \in Nat /\ Len(requests) \in Nat
  BY <1>0, Streams DEF Typed, TypeOK
<1>8. /\ Rest \in Stream /\ Len(Rest) = Len(rbuf) - (W + len)
      /\ Len(answers) < Len(requests)
      /\ \E rest \in Stream :
            /\ Rest \o inq \o rest = FlattenSeq(Pending(requests, Len(answers) + 1))
            /\ peer = "open" => rest = unsent
  BY <1>3, <1>6 DEF Heads
<1>9. answers' \in Seq(Seq(Value)) /\ Len(answers') = Len(answers) + 1
      /\ FlattenSeq(Given(answers')) = FlattenSeq(Given(answers)) \o Frame(out)
  BY <1>3, <1>4, <1>7, GivenAppend
<1>10. Len(rbuf') <= k_max_msg
  <2>1. W + len = Len(Request(head)) /\ head \in Commands
    BY <1>6 DEF Heads
  <2>2. Len(Request(head)) \in Nat /\ Len(Request(head)) >= W
    <3> PICK l : l = Len(SentBody(head))
      OBVIOUS
    <3>1. Len(Request(head)) = W + l /\ l \in Nat
      BY <2>1, CommandType, StreamLen
    <3> QED
      BY <3>1, WireSizes
  <2> PICK h : h = W + len
    OBVIOUS
  <2> PICK r : r = Len(rbuf)
    OBVIOUS
  <2>3. h \in Nat /\ h >= W
    BY <2>1, <2>2
  <2>4. r \in Nat /\ r <= W + k_max_msg
    BY <1>0, <1>7 DEF Typed, TypeOK
  <2>5. r - h <= k_max_msg
    BY <2>3, <2>4, WireSizes
  <2> QED
    BY <1>3, <1>8, <2>5
<1>11. Len(wbuf') <= W + k_max_msg /\ wbuf_sent' = 0 /\ 0 < Len(wbuf') /\ wbuf' \in Stream
       /\ wbuf = <<>>
  <2> PICK l : l = Len(Frame(out))
    OBVIOUS
  <2>1. l <= W + k_max_msg /\ 0 < l
    BY <1>4, WireSizes
  <2>2. wbuf_sent = 0 /\ wbuf = <<>>
    BY <1>0, <1>3 DEF Phases
  <2> QED
    BY <1>3, <1>4, <2>1, <2>2
<1>12. Typed'
  <2>1. rbuf' \in Seq(Cell) /\ wbuf' \in Seq(Cell)
    BY <1>3, <1>8, <1>11 DEF Stream
  <2>2. Len(answers') \in 0..Len(requests')
    BY <1>3, <1>7, <1>8, <1>9 DEF client
  <2>3. wbuf_sent' \in 0..Len(wbuf')
    <3> PICK l : l = Len(wbuf')
      OBVIOUS
    <3>1. l \in Nat
      BY <1>11, StreamLen
    <3> QED
      BY <1>11, <3>1
  <2>4. Len(rbuf') <= W + k_max_msg
    <3>1. rbuf' \in Stream
      BY <1>3, <1>8
    <3> PICK l : l = Len(rbuf')
      OBVIOUS
    <3>2. l \in Nat /\ l <= k_max_msg
      BY <1>10, <3>1, StreamLen
    <3> QED
      BY <3>2, WireSizes
  <2> QED
    BY <1>0, <1>3, <1>9, <1>11, <2>1, <2>2, <2>3, <2>4 DEF Typed, TypeOK, client
<1>13. Phases'
  BY <1>0, <1>3, <1>10, <1>11 DEF Phases, client
<1>14. InStream'
  BY <1>3, <1>8, <1>9 DEF InStream, client
<1>15. OutStream'
  <2>1. PICK rest \in Stream :
          /\ got \o outq \o rest = FlattenSeq(Given(answers))
          /\ peer = "open" /\ ~Ended => rest = Owed
    BY <1>0 DEF OutStream
  <2> PICK f : f = Frame(out)
    OBVIOUS
  <2> PICK more : more = rest \o f
    OBVIOUS
  <2>2. more \in Stream /\ Len(more) = Len(rest) + Len(f)
    BY <1>4, <2>1, Joined
  <2>3. got' \o outq' \o more = FlattenSeq(Given(answers'))
    <3> PICK seen : seen = got \o outq
      OBVIOUS
    <3>1. seen \in Stream /\ f \in Stream
      BY <1>4, <1>7, Joined
    <3>2. Assoc(seen, rest, f)
      BY <2>1, <3>1, Regroup
    <3> QED
      BY <1>3, <1>9, <2>1, <3>2 DEF Assoc, client
  <2>4. ASSUME peer' = "open" /\ ~Ended'
        PROVE  more = Owed'
    <3>1. rest = Owed
      BY <1>3, <2>1, <2>4 DEF Ended, client
    <3>2. SubSeq(<<>>, 0 + 1, Len(<<>>)) = <<>>
      OBVIOUS
    <3>3. Owed = <<>>
      BY <1>3, <1>11, <3>2, Zenon DEF Owed
    <3>4. more = f
      BY <1>4, <3>1, <3>3, WholeStream
    <3>5. Owed' = SubSeq(f, 0 + 1, Len(f))
      BY <1>3, <1>11, Zenon DEF Owed
    <3> QED
      BY <1>4, <3>4, <3>5, WholeStream
  <2>5. more # <<>>
    <3> SUFFICES ASSUME more = <<>>
                 PROVE  FALSE
      OBVIOUS
    <3>1. Len(more) = 0 /\ Len(rest) \in Nat
      BY <2>1, StreamLen
    <3>2. Len(f) \in Nat /\ Len(f) > 0
      BY <1>3, <1>4, <1>11, StreamLen
    <3> QED
      BY <2>2, <3>1, <3>2
  <2> QED
    BY <2>2, <2>3, <2>4, <2>5 DEF OutStream
<1> QED
  BY <1>12, <1>13, <1>14, <1>15 DEF Inv

(* write() moves bytes from wbuf to the end of outq. *)
LEMMA WriteStep == Inv /\ Write => Inv'
<1> SUFFICES ASSUME Inv, Write
             PROVE  Inv'
  OBVIOUS
<1>0. Typed /\ Phases /\ InStream /\ OutStream
  BY DEF Inv
<1>1. PICK n \in 1..Min({Len(wbuf) - wbuf_sent, SndCap - Len(outq)}) :
        /\ outq' = outq \o SubSeq(wbuf, wbuf_sent + 1, wbuf_sent + n)
        /\ Wrote(n)
  BY DEF Write
<1>2. Flushing /\ peer = "open" /\ UNCHANGED <<nonblocking, answers, rbuf, inq, client>>
  BY DEF Write
<1>3. /\ state = "RES" /\ wbuf_sent < Len(wbuf) /\ Len(rbuf) <= k_max_msg
      /\ pc \in {"reply", "write"}
  BY <1>0, <1>2 DEF Flushing, Phases
<1>4. /\ wbuf \in Stream /\ outq \in Stream /\ got \in Stream /\ Len(wbuf) \in Nat
      /\ Len(outq) \in Nat /\ wbuf_sent \in Nat /\ Len(outq) <= SndCap /\ Len(rbuf) \in Nat
  BY <1>0, Streams DEF Typed, TypeOK
<1>5. n \in Nat /\ n >= 1 /\ wbuf_sent + n <= Len(wbuf) /\ Len(outq) + n <= SndCap
  <2> PICK a : a = Len(wbuf) - wbuf_sent
    OBVIOUS
  <2> PICK b : b = SndCap - Len(outq)
    OBVIOUS
  <2>1. a \in Nat /\ b \in Nat /\ a = Len(wbuf) - wbuf_sent /\ b = SndCap - Len(outq)
    BY <1>3, <1>4, SendRoom
  <2> PICK m : m = Min({a, b})
    OBVIOUS
  <2>2. m \in {a, b} /\ m <= a /\ m <= b
    <3>1. a \in Int /\ b \in Int
      BY <2>1
    <3> QED
      BY <3>1, MinOfTwo, Zenon
  <2>3. n \in 1..m
    BY <1>1
  <2> PICK l : l = Len(wbuf)
    OBVIOUS
  <2> PICK o : o = Len(outq)
    OBVIOUS
  <2>4. l \in Nat /\ o \in Nat /\ a = l - wbuf_sent /\ b = SndCap - o
    BY <1>4, <2>1
  <2>5. n \in Nat /\ n >= 1 /\ wbuf_sent + n <= l /\ o + n <= SndCap
    BY ONLY <1>4, <2>1, <2>2, <2>3, <2>4, SendRoom
  <2> QED
    BY <2>5
<1> PICK seg : seg = SubSeq(wbuf, wbuf_sent + 1, wbuf_sent + n)
  OBVIOUS
<1> PICK left : left = SubSeq(wbuf, wbuf_sent + n + 1, Len(wbuf))
  OBVIOUS
<1>6. /\ seg \in Stream /\ Len(seg) = n /\ left \in Stream /\ Owed = seg \o left
      /\ Len(left) = Len(wbuf) - (wbuf_sent + n)
  <2>1. wbuf_sent \in 0..Len(wbuf) /\ n \in 0..Len(wbuf) - wbuf_sent
    BY <1>4, <1>5
  <2>2. Cut(wbuf, wbuf_sent, n)
    BY <1>4, <2>1, CutStream
  <2> QED
    BY <2>2 DEF Cut, Owed
<1>7. outq' = outq \o seg /\ outq' \in Stream /\ Len(outq') <= SndCap
  <2>1. outq \o seg \in Stream /\ Len(outq \o seg) = Len(outq) + Len(seg)
    BY <1>4, <1>6, Joined
  <2> QED
    BY <1>1, <1>5, <1>6, <2>1
(* All is written, or some of it is left.                                  *)
<1>8. \/ /\ wbuf_sent + n = Len(wbuf) /\ state' = "REQ" /\ wbuf' = <<>> /\ wbuf_sent' = 0
         /\ pc' = AfterFlush
      \/ /\ wbuf_sent + n < Len(wbuf) /\ wbuf_sent' = wbuf_sent + n
         /\ UNCHANGED <<state, wbuf, pc>>
  BY <1>1, <1>4, <1>5 DEF Wrote, SentAfter, StateAfter
<1>9. AfterFlush \in {"request", "poll"}
  BY DEF AfterFlush
<1>10. Typed'
  <2>1. outq' \in Seq(Cell) /\ <<>> \in Seq(Cell) /\ Len(<<>>) = 0
    BY <1>7 DEF Stream
  <2>2. /\ wbuf' \in Seq(Cell) /\ Len(wbuf') <= W + k_max_msg /\ wbuf_sent' \in 0..Len(wbuf')
        /\ state' \in {"REQ", "RES", "END"}
        /\ pc' \in {"poll", "read", "request", "reply", "write", "close", "gone", "dead"}
    <3>1. CASE wbuf' = <<>> /\ wbuf_sent' = 0 /\ state' = "REQ" /\ pc' = AfterFlush
      BY <1>9, <2>1, <3>1, WireSizes
    <3>2. CASE /\ wbuf_sent + n < Len(wbuf) /\ wbuf_sent' = wbuf_sent + n
              /\ UNCHANGED <<state, wbuf, pc>>
      <4>1. wbuf_sent' \in 0..Len(wbuf')
        BY <1>4, <1>5, <3>2
      <4> QED
        BY <1>0, <3>2, <4>1 DEF Typed, TypeOK
    <3> QED
      BY <1>8, <3>1, <3>2
  <2> QED
    BY <1>0, <1>2, <1>7, <2>1, <2>2 DEF Typed, TypeOK, client
<1>11. Phases'
  <2>1. Len(rbuf) < W + k_max_msg
    <3> PICK l : l = Len(rbuf)
      OBVIOUS
    <3>1. l \in Nat /\ l <= k_max_msg
      BY <1>3, <1>4
    <3>2. l < W + k_max_msg
      BY <3>1, WireSizes
    <3> QED
      BY <3>2
  <2>2. CASE wbuf' = <<>> /\ wbuf_sent' = 0 /\ state' = "REQ" /\ pc' = AfterFlush
    BY <1>2, <1>9, <2>1, <2>2 DEF Phases, client
  <2>3. CASE /\ wbuf_sent + n < Len(wbuf) /\ wbuf_sent' = wbuf_sent + n
            /\ UNCHANGED <<state, wbuf, pc>>
    BY <1>2, <1>3, <2>3 DEF Phases, client
  <2> QED
    BY <1>8, <2>2, <2>3
<1>12. InStream'
  BY <1>0, <1>2, SameIn DEF client
<1>13. OutStream'
  <2>1. PICK rest \in Stream :
          /\ got \o outq \o rest = FlattenSeq(Given(answers))
          /\ peer = "open" /\ ~Ended => rest = Owed
    BY <1>0 DEF OutStream
  <2>2. rest = seg \o left
    BY <1>2, <1>3, <1>6, <2>1 DEF Ended
  <2>3. (got \o (outq \o seg)) \o left = (got \o outq) \o (seg \o left)
    <3>1. Assoc(got, outq, seg) /\ Assoc(got \o outq, seg, left)
      BY <1>4, <1>6, Joined, Regroup
    <3> QED
      BY <3>1 DEF Assoc
  <2>4. got' \o outq' \o left = FlattenSeq(Given(answers'))
    BY <1>2, <1>7, <2>1, <2>2, <2>3 DEF client
  <2>5. CASE wbuf_sent + n = Len(wbuf) /\ wbuf' = <<>> /\ wbuf_sent' = 0 /\ state' = "REQ"
    <3>1. left = <<>>
      <4>1. Len(left) = 0
        <5> PICK l : l = Len(wbuf)
          OBVIOUS
        <5>1. l \in Nat /\ l - (wbuf_sent + n) = 0
          BY <1>4, <1>5, <2>5
        <5> QED
          BY <1>6, <5>1
      <4> QED
        BY <1>6, <4>1, EmptySeq DEF Stream
    <3>2. SubSeq(<<>>, 0 + 1, Len(<<>>)) = <<>>
      OBVIOUS
    <3>3. Owed' = <<>>
      BY <2>5, <3>2, Zenon DEF Owed
    <3>4. state' # "RES"
      BY <2>5
    <3> QED
      BY <1>6, <2>4, <3>1, <3>3, <3>4, Zenon DEF OutStream
  <2>6. CASE /\ wbuf_sent + n < Len(wbuf) /\ wbuf_sent' = wbuf_sent + n
            /\ UNCHANGED <<state, wbuf, pc>>
    <3>1. Owed' = left
      BY <2>6, Zenon DEF Owed
    <3>2. left # <<>>
      <4> SUFFICES ASSUME left = <<>>
                   PROVE  FALSE
        OBVIOUS
      <4> PICK l : l = Len(wbuf)
        OBVIOUS
      <4>1. Len(left) = 0
        <5>1. Len(<<>>) = 0
          OBVIOUS
        <5> QED
          BY <5>1, Zenon
      <4>2. l \in Nat /\ l - (wbuf_sent + n) # 0
        BY <1>4, <1>5, <2>6
      <4> QED
        BY <1>6, <4>1, <4>2
    <3> QED
      BY <1>6, <2>4, <3>1, <3>2, Zenon DEF OutStream
  <2> QED
    BY <1>8, <2>5, <2>6
<1> QED
  BY <1>10, <1>11, <1>12, <1>13 DEF Inv

(* What is written to nobody is of no consequence to the client. *)
LEMMA WriteToNobodyStep == Inv /\ WriteToNobody => Inv'
<1> SUFFICES ASSUME Inv, WriteToNobody
             PROVE  Inv'
  OBVIOUS
<1>0. Typed /\ Phases /\ InStream /\ OutStream
  BY DEF Inv
<1>1. Flushing /\ peer = "closed" /\ UNCHANGED <<nonblocking, answers, rbuf, inq, outq, client>>
  BY DEF WriteToNobody
<1>2. /\ state = "RES" /\ wbuf_sent < Len(wbuf) /\ Len(rbuf) <= k_max_msg
      /\ pc \in {"reply", "write"}
  BY <1>0, <1>1 DEF Flushing, Phases
<1>3. /\ wbuf \in Stream /\ Len(wbuf) \in Nat /\ wbuf_sent \in Nat /\ Len(rbuf) \in Nat
  BY <1>0, Streams
<1> DEFINE All == /\ wbuf' = <<>> /\ wbuf_sent' = 0 /\ state' = "REQ" /\ pc' \in {"request", "poll"}
           Some == /\ wbuf_sent' \in Nat /\ wbuf_sent' < Len(wbuf) /\ UNCHANGED <<state, wbuf, pc>>
           Fails == state' = "END" /\ pc' = "close" /\ UNCHANGED <<wbuf, wbuf_sent>>
           Dies == pc' = "dead" /\ UNCHANGED <<state, wbuf, wbuf_sent>>
<1>4. All \/ Some \/ Fails \/ Dies
  <2>1. CASE \E n \in 1..Len(wbuf) - wbuf_sent : Wrote(n)
    <3>1. PICK n \in 1..Len(wbuf) - wbuf_sent : Wrote(n)
      BY <2>1
    <3>2. n \in Nat /\ wbuf_sent + n \in Nat /\ wbuf_sent + n <= Len(wbuf)
      BY <1>3, <3>1
    <3> QED
      BY <1>3, <3>1, <3>2 DEF Wrote, SentAfter, StateAfter, AfterFlush
  <2> QED
    BY <2>1 DEF WriteToNobody
<1>5. Typed'
  <2>1. <<>> \in Seq(Cell) /\ Len(<<>>) = 0
    OBVIOUS
  <2>2. /\ wbuf' \in Seq(Cell) /\ Len(wbuf') <= W + k_max_msg /\ wbuf_sent' \in 0..Len(wbuf')
        /\ state' \in {"REQ", "RES", "END"}
        /\ pc' \in {"poll", "read", "request", "reply", "write", "close", "gone", "dead"}
    <3>1. CASE All
      BY <2>1, <3>1, WireSizes
    <3>2. CASE Some
      <4>1. wbuf_sent' \in 0..Len(wbuf')
        BY <1>3, <3>2
      <4> QED
        BY <1>0, <3>2, <4>1 DEF Typed, TypeOK
    <3>3. CASE Fails \/ Dies
      BY <1>0, <3>3 DEF Typed, TypeOK
    <3> QED
      BY <1>4, <3>1, <3>2, <3>3
  <2> QED
    BY <1>0, <1>1, <2>2 DEF Typed, TypeOK, client
<1>6. Phases'
  <2>1. Len(rbuf) < W + k_max_msg
    <3> PICK l : l = Len(rbuf)
      OBVIOUS
    <3>1. l \in Nat /\ l <= k_max_msg
      BY <1>2, <1>3
    <3>2. l < W + k_max_msg
      BY <3>1, WireSizes
    <3> QED
      BY <3>2
  <2> QED
    BY <1>1, <1>2, <1>4, <2>1 DEF Phases, client
<1>7. InStream'
  BY <1>0, <1>1, SameIn DEF client
<1>8. OutStream'
  <2>1. PICK rest \in Stream :
          /\ got \o outq \o rest = FlattenSeq(Given(answers))
          /\ state = "RES" => rest # <<>>
    BY <1>0 DEF OutStream
  <2>2. rest # <<>> /\ peer' = "closed"
    BY <1>1, <1>2, <2>1 DEF client
  <2>3. got' \o outq' \o rest = FlattenSeq(Given(answers'))
    BY <1>1, <2>1 DEF client
  <2> QED
    BY <2>2, <2>3 DEF OutStream
<1> QED
  BY <1>5, <1>6, <1>7, <1>8 DEF Inv

(* All steps. *)
LEMMA InvStep == Inv /\ [Next]_vars => Inv'
<1> SUFFICES ASSUME Inv, [Next]_vars
             PROVE  Inv'
  OBVIOUS
<1>1. CASE Quiet \/ Read \/ Answer \/ Write \/ WriteToNobody
  BY <1>1, QuietStep, ReadStep, AnswerStep, WriteStep, WriteToNobodyStep
<1>2. CASE Close \/ Crash \/ Deliver \/ Receive \/ Hangup
  BY <1>2, CloseStep, DeliverStep, ReceiveStep, HangupStep
<1>3. CASE \E words \in Commands : Send(words)
  BY <1>3, SendStep
<1>4. CASE UNCHANGED vars
  <2>1. Typed'
    BY <1>4 DEF vars, conn, client, Inv, Typed, TypeOK
  <2>2. Phases'
    BY <1>4 DEF vars, conn, client, Inv, Phases
  <2>3. InStream' /\ OutStream'
    BY <1>4, SameIn, SameOut DEF Ended, vars, conn, client, Inv
  <2> QED
    BY <2>1, <2>2, <2>3 DEF Inv
<1> QED
  BY <1>1, <1>2, <1>3, <1>4 DEF Next, Serves, Quiet

(* The invariant holds always, whatever one_request finds in the buffer. *)
THEOREM InvariantHolds == Spec => []Inv
<1> QED
  BY InitInv, InvStep, PTL DEF Spec

(* The buffers of utils.cpp never overflow: neither assertion at utils.cpp:51 and 131 can fail. *)
THEOREM TypeCorrect == Spec => []TypeOK
<1>1. Inv => TypeOK
  BY DEF Inv, Typed
<1> QED
  BY <1>1, InvariantHolds, PTL

(* try_fill_buffer always has room to read into (the assertion at utils.cpp:116). *)
THEOREM RoomToRead == Spec => []ReadHasRoom
<1>1. Inv => ReadHasRoom
  BY DEF Inv, Phases, ReadHasRoom, Typed, TypeOK
<1> QED
  BY <1>1, InvariantHolds, PTL

(* The server reads the requests as they were sent, however they are cut. *)
THEOREM RequestsKept == Spec => []RequestsInOrder
<1>1. Inv => RequestsInOrder
  BY DEF Inv, InStream, RequestsInOrder, Pending
<1> QED
  BY <1>1, InvariantHolds, PTL

(* The client gets the replies as they were given, each whole, once and in order. *)
THEOREM RepliesKept == Spec => []RepliesInOrder
<1>1. Inv => RepliesInOrder
  BY DEF Inv, OutStream, RepliesInOrder, Given, Owed
<1> QED
  BY <1>1, InvariantHolds, PTL
-----------------------------------------------------------------------------
(* What was put together, read where it was put.                           *)
Reads(a, b, c) ==
  LET x == (a \o b) \o c
  IN /\ At(x, Len(a), Len(b)) = b
     /\ SubSeq(x, Len(a) + Len(b) + 1, Len(x)) = c
     /\ x \in Stream /\ Len(x) = Len(a) + Len(b) + Len(c)

(* Reads holds of any three parts. *)
LEMMA ReadsBack ==
  ASSUME NEW a \in Stream, NEW b \in Stream, NEW c \in Stream
  PROVE  Reads(a, b, c)
<1> PICK ab : ab = a \o b
  OBVIOUS
<1> PICK x : x = ab \o c
  OBVIOUS
<1>1. /\ a \in Seq(Cell) /\ b \in Seq(Cell) /\ c \in Seq(Cell) /\ Len(a) \in Nat /\ Len(b) \in Nat
      /\ Len(c) \in Nat
  BY StreamLen DEF Stream
<1>2. /\ ab \in Seq(Cell) /\ Len(ab) = Len(a) + Len(b)
      /\ \A i \in 1..Len(b) : ab[Len(a) + i] = b[i]
  BY <1>1, ConcatProperties
<1>3. Splits(Cell, x, ab, c)
  BY <1>1, <1>2, SplitConcat
<1>4. /\ x \in Seq(Cell) /\ Len(x) = Len(ab) + Len(c)
      /\ \A i \in 1..Len(ab) : x[i] = ab[i]
  BY <1>1, <1>2, ConcatProperties
<1> PICK y : y = SubSeq(x, Len(a) + 1, Len(a) + Len(b))
  OBVIOUS
<1>5. y = b
  <2>1. y \in Seq(Cell) /\ Len(y) = Len(b) /\ \A i \in 1..Len(b) : y[i] = x[Len(a) + i]
    BY <1>1, <1>2, <1>4, SubSeqProperties
  <2>2. \A i \in 1..Len(b) : y[i] = b[i]
    <3> TAKE i \in 1..Len(b)
    <3>1. Len(a) + i \in 1..Len(ab)
      BY <1>1, <1>2
    <3> QED
      BY <1>2, <1>4, <2>1, <3>1
  <2> QED
    BY <1>1, <2>1, <2>2, SeqEqual
<1>6. SubSeq(x, Len(a) + Len(b) + 1, Len(x)) = c
  BY <1>2, <1>3 DEF Splits
<1>7. Len(x) = Len(a) + Len(b) + Len(c)
  BY <1>2, <1>4
<1> QED
  BY <1>4, <1>5, <1>6, <1>7 DEF Reads, At, Stream

(* Two parts only.                                                         *)
Begins(a, b) ==
  LET x == a \o b
  IN /\ At(x, 0, Len(a)) = a /\ SubSeq(x, Len(a) + 1, Len(x)) = b
     /\ At(x, Len(a), Len(b)) = b
     /\ x \in Stream /\ Len(x) = Len(a) + Len(b)

(* Begins holds of any two. *)
LEMMA BeginsWith ==
  ASSUME NEW a \in Stream, NEW b \in Stream
  PROVE  Begins(a, b)
<1>1. Splits(Cell, a \o b, a, b)
  BY SplitConcat DEF Stream
<1>2. a \o b \in Stream /\ Len(a \o b) = Len(a) + Len(b) /\ Len(a) \in Nat /\ Len(b) \in Nat
  BY Joined, StreamLen
<1>3. At(a \o b, 0, Len(a)) = a
  <2>1. 0 + 1 = 1 /\ 0 + Len(a) = Len(a)
    BY <1>2
  <2> QED
    BY <1>1, <2>1 DEF Splits, At
<1>4. At(a \o b, Len(a), Len(b)) = b
  BY <1>1, <1>2 DEF Splits, At
<1> QED
  BY <1>1, <1>2, <1>3, <1>4 DEF Begins, Splits
-----------------------------------------------------------------------------
(* parse_req's loop: one pass of it, the words that follow being prev's.   *)
WordsFrom(prev, n, data) ==
  IF n = 0 THEN IF data = <<>> THEN {<<>>} ELSE {}
  ELSE IF ~Fits(W, data) \/ ~Fits(W + Number(At(data, 0, W)), data) THEN {}
  ELSE {<<At(data, W, (W + Number(At(data, 0, W))) - W)>> \o cmd :
          cmd \in prev[SubSeq(data, (W + Number(At(data, 0, W))) + 1, Len(data))]}

(* The word at the beginning of what fits.                                 *)
LEMMA FirstWord ==
  ASSUME NEW data \in Stream, Fits(W, data), Fits(W + Number(At(data, 0, W)), data)
  PROVE  /\ Number(At(data, 0, W)) \in Nat
         /\ At(data, W, (W + Number(At(data, 0, W))) - W) \in Stream
         /\ SubSeq(data, (W + Number(At(data, 0, W))) + 1, Len(data)) \in Stream
         /\ Len(SubSeq(data, (W + Number(At(data, 0, W))) + 1, Len(data))) < Len(data)
<1>1. Len(data) \in Nat /\ W \in Nat /\ W >= 1 /\ W <= Len(data)
  BY WireSizes, StreamLen DEF Fits
<1> PICK k : k = Number(At(data, 0, W))
  OBVIOUS
<1>2. k \in Nat
  <2> PICK s : s = At(data, 0, W)
    OBVIOUS
  <2>1. 0 \in 0..Len(data) /\ W \in 0..Len(data) - 0
    BY <1>1
  <2>2. s \in Stream /\ Len(s) = W
    <3>1. Cut(data, 0, W)
      BY <2>1, CutStream
    <3> QED
      BY <3>1 DEF Cut, At
  <2> QED
    BY <1>1, <2>2, NumberType
<1>3. W + k <= Len(data) /\ (W + k) - W = k
  BY <1>1, <1>2 DEF Fits
<1>4. W \in 0..Len(data) /\ k \in 0..Len(data) - W
  BY <1>1, <1>2, <1>3
<1>5. Cut(data, W, k)
  BY <1>4, CutStream
<1>6. Len(data) - (W + k) < Len(data)
  BY <1>1, <1>2
<1> QED
  BY <1>2, <1>3, <1>5, <1>6 DEF Cut, At

(* One pass gives commands, when the passes after it do. *)
LEMMA WordsFromType ==
  ASSUME NEW prev, NEW n \in Nat, n # 0 => prev \in [Stream -> SUBSET Seq(Stream)],
         NEW data \in Stream
  PROVE  WordsFrom(prev, n, data) \in SUBSET Seq(Stream)
<1>1. CASE n = 0
  BY <1>1 DEF WordsFrom
<1>2. CASE n # 0 /\ (~Fits(W, data) \/ ~Fits(W + Number(At(data, 0, W)), data))
  BY <1>2 DEF WordsFrom
<1>3. CASE n # 0 /\ Fits(W, data) /\ Fits(W + Number(At(data, 0, W)), data)
  <2> PICK w : w = At(data, W, (W + Number(At(data, 0, W))) - W)
    OBVIOUS
  <2> PICK left : left = SubSeq(data, (W + Number(At(data, 0, W))) + 1, Len(data))
    OBVIOUS
  <2>1. w \in Stream /\ left \in Stream
    BY <1>3, FirstWord
  <2>2. prev[left] \in SUBSET Seq(Stream)
    BY <1>3, <2>1
  <2>3. WordsFrom(prev, n, data) = {<<w>> \o cmd : cmd \in prev[left]}
    BY <1>3 DEF WordsFrom
  <2>4. \A cmd \in prev[left] : <<w>> \o cmd \in Seq(Stream)
    <3> TAKE cmd \in prev[left]
    <3>1. cmd \in Seq(Stream) /\ <<w>> \in Seq(Stream)
      BY <2>1, <2>2, OneIsSeq
    <3> QED
      BY <3>1, ConcatProperties
  <2> QED
    BY <2>3, <2>4
<1> QED
  BY <1>1, <1>2, <1>3

(* Words is the function its definition says: the recursion ends. *)
LEMMA WordsIs ==
  /\ Words \in [Nat -> [Stream -> SUBSET Seq(Stream)]]
  /\ \A n \in Nat, data \in Stream : Words[n][data] = WordsFrom(Words[n - 1], n, data)
<1> DEFINE Val == [Stream -> SUBSET Seq(Stream)]
           m == [n \in Nat |-> n]
           G == [p \in [Nat -> Val] \X Nat |->
                   [data \in Stream |-> WordsFrom(p[1][p[2] - 1], p[2], data)]]
           Table(f) == f = [n \in Nat |-> [data \in Stream |-> WordsFrom(f[n - 1], n, data)]]
<1>1. \A f \in [Nat -> Val], n \in Nat :
        [data \in Stream |-> WordsFrom(f[n - 1], n, data)] \in Val
  <2> TAKE f \in [Nat -> Val], n \in Nat
  <2>1. n # 0 => n - 1 \in Nat
    OBVIOUS
  <2>2. n # 0 => f[n - 1] \in Val
    BY <2>1
  <2>3. \A data \in Stream : WordsFrom(f[n - 1], n, data) \in SUBSET Seq(Stream)
    BY <2>2, WordsFromType
  <2> QED
    BY <2>3
<1>2. \A f \in [Nat -> Val], n \in Nat : G[<<f, n>>] = [data \in Stream |-> WordsFrom(f[n - 1], n, data)]
  OBVIOUS
<1>3. Recursion(Nat, Val, m, G)
  <2>1. Val # {}
    <3>1. [data \in Stream |-> {}] \in Val
      OBVIOUS
    <3> QED
      BY <3>1
  <2>2. G \in [[Nat -> Val] \X Nat -> Val]
    <3> HIDE DEF Val
    <3> QED
      BY <1>1
  <2>3. ASSUME NEW f \in [Nat -> Val], NEW g \in [Nat -> Val], NEW n \in Nat,
               \A k \in Nat : m[k] < m[n] => f[k] = g[k]
        PROVE  G[<<f, n>>] = G[<<g, n>>]
    <3>1. n # 0 => f[n - 1] = g[n - 1]
      <4>1. n # 0 => n - 1 \in Nat /\ n - 1 < n
        OBVIOUS
      <4> QED
        BY <2>3, <4>1
    <3>2. \A data \in Stream : WordsFrom(f[n - 1], n, data) = WordsFrom(g[n - 1], n, data)
      BY <3>1 DEF WordsFrom
    <3> HIDE DEF Val, G
    <3> QED
      BY <1>2, <3>2
  <2>4. m \in [Nat -> Nat]
    OBVIOUS
  <2> HIDE DEF Val, G, m
  <2> QED
    BY <2>1, <2>2, <2>3, <2>4 DEF Recursion
<1>4. PICK F \in [Nat -> Val] : \A n \in Nat : F[n] = G[<<F, n>>]
  <2> HIDE DEF Val, G, m
  <2> QED
    BY <1>3, RecursiveFunction
<1>5. Table(F)
  <2> HIDE DEF Val, G
  <2> QED
    BY <1>2, <1>4
<1>6. Words = CHOOSE f : Table(f)
  BY DEF Words, WordsFrom, Stream
<1>7. Table(Words)
  <2> HIDE DEF Table
  <2> QED
    BY <1>5, <1>6
<1> DEFINE Is(n) == [data \in Stream |-> WordsFrom(Words[n - 1], n, data)]
<1>8. Words = [n \in Nat |-> Is(n)]
  BY <1>7
<1>9. ASSUME NEW n \in Nat
      PROVE  Words[n] \in Val
  <2> DEFINE T == {k \in Nat : Words[k] \notin Val}
  <2> SUFFICES ASSUME T # {}
               PROVE  FALSE
    OBVIOUS
  <2>1. PICK k \in T : \A j \in T : k <= j
    <3> HIDE DEF Val
    <3> QED
      BY LeastNat
  <2>2. k # 0 => Words[k - 1] \in Val
    <3>1. k \in Nat /\ (k # 0 => k - 1 \in Nat /\ ~(k <= k - 1))
      OBVIOUS
    <3> HIDE DEF Val
    <3> QED
      BY <2>1, <3>1
  <2>3. Words[k] = Is(k)
    <3> HIDE DEF Is
    <3> QED
      BY <1>8
  <2>4. \A data \in Stream : WordsFrom(Words[k - 1], k, data) \in SUBSET Seq(Stream)
    BY <2>2, WordsFromType
  <2>5. Is(k) \in Val
    BY <2>4
  <2> HIDE DEF Is, Val
  <2> QED
    BY <2>1, <2>3, <2>5
<1>10. Words \in [Nat -> Val]
  <2> HIDE DEF Val, Is
  <2> QED
    BY <1>8, <1>9
<1>11. \A n \in Nat, data \in Stream : Words[n][data] = WordsFrom(Words[n - 1], n, data)
  <2> TAKE n \in Nat, data \in Stream
  <2>1. Words[n] = Is(n)
    <3> HIDE DEF Is
    <3> QED
      BY <1>8
  <2> QED
    BY <2>1
<1> QED
  BY <1>10, <1>11
-----------------------------------------------------------------------------
(* The words of a request as send_req writes them.                         *)
Args(cmd) == [i \in 1..Len(cmd) |-> Field(Len(cmd[i])) \o cmd[i]]

(* They are messages, each with its length before it. *)
LEMMA ArgsFramed ==
  ASSUME NEW cmd \in Seq(Stream)
  PROVE  /\ Framed(Args(cmd)) /\ Len(Args(cmd)) = Len(cmd)
         /\ \A i \in 1..Len(cmd) : cmd[i] \in Stream /\ Args(cmd)[i] = Field(Len(cmd[i])) \o cmd[i]
         /\ Body(cmd) = Field(Len(cmd)) \o FlattenSeq(Args(cmd))
<1>1. Len(cmd) \in Nat /\ \A i \in 1..Len(cmd) : cmd[i] \in Stream
  OBVIOUS
<1> PICK g : g = Args(cmd)
  OBVIOUS
<1>2. ASSUME NEW i \in 1..Len(cmd)
      PROVE  Field(Len(cmd[i])) \o cmd[i] \in Stream
  <2>1. cmd[i] \in Stream /\ Len(cmd[i]) \in Int
    BY <1>1, StreamLen
  <2> QED
    BY <2>1, FieldType, Joined
<1>3. /\ g \in [1..Len(cmd) -> Stream]
      /\ \A i \in 1..Len(cmd) : g[i] = Field(Len(cmd[i])) \o cmd[i]
  BY <1>2 DEF Args
<1>4. g \in Seq(Stream) /\ Len(g) = Len(cmd)
  BY <1>1, <1>3, FunctionSeq
<1>5. Body(cmd) = Field(Len(cmd)) \o FlattenSeq(g)
  BY DEF Body, Args
<1> QED
  BY <1>1, <1>3, <1>4, <1>5 DEF Framed

(* The words after the first. *)
LEMMA ArgsTail ==
  ASSUME NEW cmd \in Seq(Stream), cmd # <<>>
  PROVE  /\ Tail(cmd) \in Seq(Stream) /\ cmd[1] \in Stream /\ Len(Tail(cmd)) = Len(cmd) - 1
         /\ cmd = <<cmd[1]>> \o Tail(cmd)
         /\ Args(cmd) # <<>> /\ Args(cmd)[1] = Field(Len(cmd[1])) \o cmd[1]
         /\ Tail(Args(cmd)) = Args(Tail(cmd))
<1> PICK t : t = Tail(cmd)
  OBVIOUS
<1>1. Drops(Stream, t, cmd)
  BY TailDrops
<1>2. /\ t \in Seq(Stream) /\ Len(cmd) \in Nat /\ Len(cmd) >= 1 /\ Len(t) = Len(cmd) - 1
      /\ \A i \in 1..Len(cmd) - 1 : t[i] = cmd[i + 1]
  BY <1>1 DEF Drops
<1> PICK g : g = Args(cmd)
  OBVIOUS
<1> PICK h : h = Args(t)
  OBVIOUS
<1>3. /\ g \in Seq(Stream) /\ Len(g) = Len(cmd)
      /\ \A i \in 1..Len(cmd) : cmd[i] \in Stream /\ g[i] = Field(Len(cmd[i])) \o cmd[i]
  BY ArgsFramed DEF Framed
<1>4. /\ h \in Seq(Stream) /\ Len(h) = Len(t)
      /\ \A i \in 1..Len(t) : h[i] = Field(Len(t[i])) \o t[i]
  BY <1>2, ArgsFramed DEF Framed
<1>5. Drops(Stream, h, g)
  <2>1. \A i \in 1..Len(g) - 1 : h[i] = g[i + 1]
    <3> TAKE i \in 1..Len(g) - 1
    <3>1. i \in 1..Len(t) /\ i \in 1..Len(cmd) - 1 /\ i + 1 \in 1..Len(cmd)
      BY <1>2, <1>3
    <3> QED
      BY <1>2, <1>3, <1>4, <3>1
  <2> QED
    BY <1>2, <1>3, <1>4, <2>1 DEF Drops
<1>6. h = Tail(g)
  BY <1>3, <1>5, DropsTail
<1>7. 1 \in 1..Len(cmd) /\ g # <<>>
  BY <1>2, <1>3
<1>8. cmd = <<cmd[1]>> \o t
  <2>1. cmd[1] \in Stream
    BY <1>3, <1>7
  <2> HIDE DEF Stream
  <2> QED
    BY HeadTailProperties
<1> QED
  BY <1>2, <1>3, <1>6, <1>7, <1>8

(* parse_req takes apart what send_req has put together ...                *)
Parses(cmd) == Words[Len(cmd)][FlattenSeq(Args(cmd))] = {cmd}

(* One word more is taken off as it was put in front. *)
LEMMA ParsesMore ==
  ASSUME NEW cmd \in Seq(Stream), cmd # <<>>, Parses(Tail(cmd))
  PROVE  Parses(cmd)
<1> PICK ss : ss = Args(cmd)
  OBVIOUS
<1> PICK t : t = Tail(cmd)
  OBVIOUS
<1> PICK w : w = cmd[1]
  OBVIOUS
<1> PICK fd : fd = Field(Len(w))
  OBVIOUS
<1> PICK data : data = FlattenSeq(ss)
  OBVIOUS
<1> PICK left : left = FlattenSeq(Args(t))
  OBVIOUS
<1> PICK n : n = Len(cmd)
  OBVIOUS
<1>1. /\ t \in Seq(Stream) /\ w \in Stream /\ Len(t) = n - 1 /\ cmd = <<w>> \o t
      /\ ss # <<>> /\ ss[1] = fd \o w /\ Tail(ss) = Args(t)
  BY ArgsTail
<1>2. n \in Nat /\ n # 0 /\ ss \in Seq(Seq(Cell)) /\ left \in Stream
  <2>1. n \in Nat /\ n # 0
    BY EmptySeq
  <2>2. ss \in Seq(Seq(Cell))
    BY ArgsFramed DEF Framed, Stream
  <2>3. Args(t) \in Seq(Seq(Cell))
    BY <1>1, ArgsFramed DEF Framed, Stream
  <2>4. left \in Stream
    BY <2>3, FlattenType DEF Stream
  <2> QED
    BY <2>1, <2>2, <2>4
<1>3. data = (fd \o w) \o left
  BY <1>1, <1>2, FlattenCons
<1>4. /\ fd \in Stream /\ Len(fd) = W /\ Number(fd) = Len(w) /\ Len(w) \in Nat
  <2>1. Len(w) \in Nat /\ Len(w) \in Int
    BY <1>1, StreamLen
  <2> QED
    BY <2>1, FieldType, NumberField
<1>5. Reads(fd, w, left) /\ Begins(fd, w \o left) /\ Assoc(fd, w, left)
  BY <1>1, <1>2, <1>4, ReadsBack, BeginsWith, Joined, Regroup
<1> PICK k : k = Len(w)
  OBVIOUS
<1>6. /\ At(data, W, k) = w /\ SubSeq(data, W + k + 1, Len(data)) = left
      /\ data \in Stream /\ Len(data) = W + k + Len(left)
  BY <1>3, <1>4, <1>5 DEF Reads
<1>7. At(data, 0, W) = fd
  BY <1>3, <1>4, <1>5 DEF Begins, Assoc
<1>8. Number(At(data, 0, W)) = k
  BY <1>4, <1>7
<1>9. W \in Nat /\ k \in Nat /\ Len(left) \in Nat
  BY <1>2, <1>4, WireSizes, StreamLen
<1>10. Fits(W, data) /\ Fits(W + k, data) /\ (W + k) - W = k
  BY <1>6, <1>9 DEF Fits
<1>11. Words[n][data] = WordsFrom(Words[n - 1], n, data)
  BY <1>2, <1>6, WordsIs
<1>12. Words[n - 1][left] = {t}
  BY <1>1 DEF Parses
<1>13. WordsFrom(Words[n - 1], n, data) = {<<w>> \o c : c \in {t}}
  <2>1. At(data, W, (W + k) - W) = w
    BY <1>6, <1>10
  <2>2. WordsFrom(Words[n - 1], n, data) =
          {<<At(data, W, (W + k) - W)>> \o c : c \in Words[n - 1][SubSeq(data, W + k + 1, Len(data))]}
    BY <1>2, <1>8, <1>10, Zenon DEF WordsFrom
  <2> QED
    BY <1>6, <1>12, <2>1, <2>2
<1>14. {<<w>> \o c : c \in {t}} = {cmd}
  BY <1>1
<1> QED
  BY <1>11, <1>13, <1>14 DEF Parses

(* So every command is parsed back: by the shortest that is not. *)
LEMMA ParsesAll ==
  ASSUME NEW cmd \in Seq(Stream)
  PROVE  Parses(cmd)
<1> DEFINE T == {k \in Nat : \E c \in Seq(Stream) : Len(c) = k /\ ~Parses(c)}
<1> SUFFICES ASSUME ~Parses(cmd)
             PROVE  FALSE
  OBVIOUS
<1>1. Len(cmd) \in T
  OBVIOUS
<1>2. PICK k \in T : \A j \in T : k <= j
  BY <1>1, LeastNat
<1>3. PICK c \in Seq(Stream) : Len(c) = k /\ ~Parses(c)
  BY <1>2
<1>4. CASE c = <<>>
  <2>1. Args(<<>>) = <<>> /\ Len(<<>>) = 0 /\ <<>> \in Stream /\ 0 \in Nat
    BY EmptyStream DEF Args
  <2>2. Words[0][<<>>] = WordsFrom(Words[0 - 1], 0, <<>>)
    BY <2>1, WordsIs
  <2>3. Words[0][<<>>] = {<<>>}
    BY <2>2 DEF WordsFrom
  <2>4. Parses(<<>>)
    BY <2>1, <2>3, FlattenEmpty, Zenon DEF Parses
  <2> QED
    BY <1>3, <1>4, <2>4, Zenon
<1>5. CASE c # <<>>
  <2>1. Tail(c) \in Seq(Stream) /\ Len(Tail(c)) = k - 1
    BY <1>3, <1>5, ArgsTail
  <2>2. k - 1 \in Nat /\ ~(k <= k - 1)
    <3>1. Len(Tail(c)) \in Nat /\ k \in Nat
      BY <2>1
    <3> QED
      BY <2>1, <3>1
  <2>3. Parses(Tail(c))
    BY <1>2, <2>1, <2>2
  <2> QED
    BY <1>3, <1>5, <2>3, ParsesMore
<1> QED
  BY <1>4, <1>5

(* ... unless there is more of it than it takes.                           *)
LEMMA ParseBody ==
  ASSUME NEW cmd \in Seq(Stream)
  PROVE  parse_req(Body(cmd)) = IF Len(cmd) > k_max_args THEN {} ELSE {cmd}
<1> PICK fd : fd = Field(Len(cmd))
  OBVIOUS
<1> PICK left : left = FlattenSeq(Args(cmd))
  OBVIOUS
<1> PICK data : data = Body(cmd)
  OBVIOUS
<1>1. Len(cmd) \in Nat /\ Len(cmd) \in Int
  <2>1. Len(cmd) \in Nat
    OBVIOUS
  <2> PICK l : l = Len(cmd)
    OBVIOUS
  <2>2. l \in Nat /\ l \in Int
    BY <2>1
  <2> QED
    BY <2>2
<1>2. fd \in Stream /\ Len(fd) = W /\ Number(fd) = Len(cmd)
  BY <1>1, FieldType, NumberField
<1>3. left \in Stream /\ data = fd \o left
  <2>1. Args(cmd) \in Seq(Seq(Cell)) /\ Body(cmd) = fd \o left
    BY ArgsFramed DEF Framed, Stream
  <2> QED
    BY <2>1, FlattenType DEF Stream
<1>4. Begins(fd, left)
  BY <1>2, <1>3, BeginsWith
<1>5. /\ At(data, 0, W) = fd /\ SubSeq(data, W + 1, Len(data)) = left
      /\ Len(data) = W + Len(left)
  BY <1>2, <1>3, <1>4 DEF Begins
<1>6. Fits(W, data)
  <2>1. Len(left) \in Nat /\ W \in Nat
    BY <1>3, StreamLen, WireSizes
  <2> QED
    BY <1>5, <2>1 DEF Fits
<1>7. Words[Len(cmd)][left] = {cmd}
  BY ParsesAll DEF Parses
<1> QED
  BY <1>2, <1>5, <1>6, <1>7, Zenon DEF parse_req

(* A word that is cut short is not one, ...                                *)
CutFails(cmd) == Words[Len(cmd)][Front(FlattenSeq(Args(cmd)))] = {}

(* ... and neither is one before it. *)
LEMMA CutFailsMore ==
  ASSUME NEW cmd \in Seq(Stream), cmd # <<>>, Tail(cmd) # <<>> => CutFails(Tail(cmd))
  PROVE  CutFails(cmd)
<1> PICK ss : ss = Args(cmd)
  OBVIOUS
<1> PICK t : t = Tail(cmd)
  OBVIOUS
<1> PICK w : w = cmd[1]
  OBVIOUS
<1> PICK fd : fd = Field(Len(w))
  OBVIOUS
<1> PICK left : left = FlattenSeq(Args(t))
  OBVIOUS
<1> PICK data : data = Front(FlattenSeq(ss))
  OBVIOUS
<1> PICK n : n = Len(cmd)
  OBVIOUS
<1> PICK k : k = Len(w)
  OBVIOUS
<1>1. /\ t \in Seq(Stream) /\ w \in Stream /\ Len(t) = n - 1
      /\ ss # <<>> /\ ss[1] = fd \o w /\ Tail(ss) = Args(t)
  BY ArgsTail
<1>2. n \in Nat /\ n # 0 /\ ss \in Seq(Seq(Cell)) /\ left \in Stream
  <2>1. n \in Nat /\ n # 0
    BY EmptySeq
  <2>2. ss \in Seq(Seq(Cell))
    BY ArgsFramed DEF Framed, Stream
  <2>3. Args(t) \in Seq(Seq(Cell))
    BY <1>1, ArgsFramed DEF Framed, Stream
  <2>4. left \in Stream
    BY <2>3, FlattenType DEF Stream
  <2> QED
    BY <2>1, <2>2, <2>4
<1>3. FlattenSeq(ss) = (fd \o w) \o left
  BY <1>1, <1>2, FlattenCons
<1>4. fd \in Stream /\ Len(fd) = W /\ Number(fd) = k /\ k \in Nat /\ W \in Nat /\ W >= 1
  <2>1. Len(w) \in Nat /\ Len(w) \in Int
    BY <1>1, StreamLen
  <2> QED
    BY <2>1, FieldType, NumberField, WireSizes
<1>5. fd \o w \in Stream /\ Len(fd \o w) = W + k
  BY <1>1, <1>4, Joined
<1>6. CASE left = <<>>
  <2> PICK x : x = fd \o w
    OBVIOUS
  <2>1. FlattenSeq(ss) = x
    BY <1>3, <1>5, <1>6, WholeStream
  <2>2. x # <<>> /\ <<>> \in Stream /\ x = <<>> \o x
    <3>1. Len(x) # 0
      BY <1>4, <1>5
    <3> QED
      BY <1>5, <3>1, EmptyStream, EmptySeq, ConcatEmptySeq DEF Stream
  <2>3. data \in Stream /\ Len(data) = (W + k) - 1
    <3>1. Front(x) \in Stream /\ Len(Front(x)) = Len(x) - 1
      BY <1>5, <2>2, FrontOf
    <3>2. data = Front(x) /\ Len(x) = W + k
      BY <1>5, <2>1
    <3> QED
      BY <3>1, <3>2
  <2>4. Words[n][data] = WordsFrom(Words[n - 1], n, data)
    BY <1>2, <2>3, WordsIs
  <2>5. ASSUME Fits(W, data)
        PROVE  ~Fits(W + Number(At(data, 0, W)), data)
    <3>1. k # 0
      BY <1>4, <2>3, <2>5 DEF Fits
    <3>2. w # <<>> /\ data = fd \o Front(w) /\ Front(w) \in Stream
      <4>1. w # <<>>
        BY <1>1, <3>1, EmptySeq DEF Stream
      <4>2. Front(fd \o w) = fd \o Front(w) /\ Front(w) \in Stream
        BY <1>1, <1>4, <4>1, FrontOf
      <4>3. data = Front(fd \o w)
        BY <2>1
      <4> QED
        BY <4>1, <4>2, <4>3
    <3>3. At(data, 0, W) = fd
      <4>1. Begins(fd, Front(w))
        BY <1>4, <3>2, BeginsWith
      <4> QED
        BY <1>4, <3>2, <4>1, Zenon DEF Begins
    <3> QED
      BY <1>4, <2>3, <3>3 DEF Fits
  <2>6. WordsFrom(Words[n - 1], n, data) = {}
    BY <1>2, <2>5, Zenon DEF WordsFrom
  <2> QED
    BY <2>4, <2>6 DEF CutFails
<1>7. CASE left # <<>>
  <2> PICK f : f = Front(left)
    OBVIOUS
  <2>1. data = (fd \o w) \o f /\ f \in Stream
    <3> PICK x : x = fd \o w
      OBVIOUS
    <3>1. x \in Stream
      BY <1>5
    <3>2. Front(x \o left) = x \o f /\ f \in Stream
      BY <1>2, <1>7, <3>1, FrontOf
    <3>3. data = Front(x \o left)
      BY <1>3
    <3> QED
      BY <3>2, <3>3
  <2>2. Reads(fd, w, f) /\ Begins(fd, w \o f) /\ Assoc(fd, w, f)
    BY <1>1, <1>4, <2>1, ReadsBack, BeginsWith, Joined, Regroup
  <2>3. /\ At(data, W, k) = w /\ SubSeq(data, W + k + 1, Len(data)) = f
        /\ data \in Stream /\ Len(data) = W + k + Len(f)
    <3>1. data \in Stream
      BY <1>5, <2>1, Joined
    <3> QED
      BY <1>4, <2>1, <2>2, <3>1 DEF Reads
  <2>4. Number(At(data, 0, W)) = k
    BY <1>4, <2>1, <2>2 DEF Begins, Assoc
  <2>5. Fits(W, data) /\ Fits(W + k, data) /\ (W + k) - W = k
    <3>1. Len(f) \in Nat
      BY <2>1, StreamLen
    <3> QED
      BY <1>4, <2>3, <3>1 DEF Fits
  <2>6. Words[n][data] = WordsFrom(Words[n - 1], n, data)
    BY <1>2, <2>3, WordsIs
  <2>7. Words[n - 1][f] = {}
    <3>1. t # <<>>
      <4> SUFFICES ASSUME t = <<>>
                   PROVE  FALSE
        OBVIOUS
      <4>1. Args(<<>>) = <<>>
        BY DEF Args
      <4> QED
        BY <1>7, <4>1, FlattenEmpty
    <3> QED
      BY <1>1, <3>1 DEF CutFails
  <2>8. WordsFrom(Words[n - 1], n, data) =
          {<<At(data, W, (W + k) - W)>> \o c : c \in Words[n - 1][SubSeq(data, W + k + 1, Len(data))]}
    BY <1>2, <2>4, <2>5, Zenon DEF WordsFrom
  <2> QED
    BY <2>3, <2>6, <2>7, <2>8 DEF CutFails
<1> QED
  BY <1>6, <1>7

(* So no command that is cut short is parsed: by the shortest that is. *)
LEMMA CutFailsAll ==
  ASSUME NEW cmd \in Seq(Stream), cmd # <<>>
  PROVE  CutFails(cmd)
<1> DEFINE Bad(c) == c # <<>> /\ ~CutFails(c)
           T == {k \in Nat : \E c \in Seq(Stream) : Len(c) = k /\ Bad(c)}
<1> SUFFICES ASSUME Bad(cmd)
             PROVE  FALSE
  OBVIOUS
<1>1. Len(cmd) \in T
  <2> HIDE DEF Bad
  <2> QED
    OBVIOUS
<1>2. PICK k \in T : \A j \in T : k <= j
  BY <1>1, LeastNat
<1>3. PICK c \in Seq(Stream) : Len(c) = k /\ Bad(c)
  BY <1>2
<1>4. Tail(c) \in Seq(Stream) /\ Len(Tail(c)) = k - 1
  BY <1>3, ArgsTail
<1>5. k - 1 \in Nat /\ ~(k <= k - 1)
  <2>1. Len(Tail(c)) \in Nat /\ k \in Nat
    BY <1>4
  <2> QED
    BY <1>4, <2>1
<1>6. ~Bad(Tail(c))
  <2> HIDE DEF Bad
  <2> QED
    BY <1>2, <1>4, <1>5
<1> QED
  BY <1>3, <1>6, CutFailsMore

(* parse_req refuses what cut_req sends. *)
LEMMA ParseCut ==
  ASSUME NEW cmd \in Seq(Stream)
  PROVE  parse_req(Front(Body(cmd))) = {}
<1> PICK fd : fd = Field(Len(cmd))
  OBVIOUS
<1> PICK left : left = FlattenSeq(Args(cmd))
  OBVIOUS
<1> PICK data : data = Front(Body(cmd))
  OBVIOUS
<1>1. Len(cmd) \in Int
  <2>1. Len(cmd) \in Nat
    OBVIOUS
  <2> PICK l : l = Len(cmd)
    OBVIOUS
  <2>2. l \in Nat /\ l \in Int
    BY <2>1
  <2> QED
    BY <2>2
<1>2. fd \in Stream /\ Len(fd) = W
  BY <1>1, FieldType
<1>3. left \in Stream /\ Body(cmd) = fd \o left
  <2>1. Args(cmd) \in Seq(Seq(Cell)) /\ Body(cmd) = fd \o left
    BY ArgsFramed DEF Framed, Stream
  <2> QED
    BY <2>1, FlattenType DEF Stream
<1>4. CASE left = <<>>
  <2>1. Body(cmd) = fd
    BY <1>2, <1>3, <1>4, WholeStream
  <2>2. Len(data) = W - 1
    <3>1. fd # <<>>
      BY <2>1, BodyType
    <3> QED
      BY <1>2, <2>1, <3>1, FrontOf
  <2>3. ~Fits(W, data)
    BY <2>2, WireSizes DEF Fits
  <2> QED
    BY <2>3, Zenon DEF parse_req
<1>5. CASE left # <<>>
  <2> PICK f : f = Front(left)
    OBVIOUS
  <2>1. data = fd \o f /\ f \in Stream
    BY <1>2, <1>3, <1>5, FrontOf
  <2>2. At(data, 0, W) = fd /\ SubSeq(data, W + 1, Len(data)) = f
    <3>1. Begins(fd, f)
      BY <1>2, <2>1, BeginsWith
    <3> QED
      BY <1>2, <2>1, <3>1, Zenon DEF Begins
  <2>3. cmd # <<>>
    <3> SUFFICES ASSUME cmd = <<>>
                 PROVE  FALSE
      OBVIOUS
    <3>1. Args(<<>>) = <<>>
      BY DEF Args
    <3> QED
      BY <1>5, <3>1, FlattenEmpty
  <2>4. Words[Len(cmd)][f] = {}
    BY <2>3, CutFailsAll DEF CutFails
  <2>5. Number(fd) = Len(cmd)
    <3>1. Len(cmd) \in Nat
      OBVIOUS
    <3> QED
      BY <3>1, NumberField
  <2> QED
    BY <2>2, <2>4, <2>5, Zenon DEF parse_req
<1> QED
  BY <1>4, <1>5
-----------------------------------------------------------------------------
(* read_full's loop: the first frame, and those after it.                  *)
FramesFrom(f, s) ==
  IF Len(s) < W \/ Len(s) < W + Number(At(s, 0, W)) THEN <<>>
  ELSE <<At(s, W, (W + Number(At(s, 0, W))) - W)>> \o
         f[SubSeq(s, (W + Number(At(s, 0, W))) + 1, Len(s))]

(* The two ways to say that a frame is all there.                          *)
LEMMA FrameFits ==
  ASSUME NEW s \in Stream
  PROVE  Len(s) < W \/ Len(s) < W + Number(At(s, 0, W)) <=>
         ~Fits(W, s) \/ ~Fits(W + Number(At(s, 0, W)), s)
<1>1. Len(s) \in Nat /\ W \in Nat /\ W >= 1
  BY WireSizes, StreamLen
<1>2. CASE Len(s) < W
  <2>1. ~Fits(W, s)
    BY <1>1, <1>2 DEF Fits
  <2> QED
    BY <1>2, <2>1
<1>3. CASE ~(Len(s) < W)
  <2>1. 0 \in 0..Len(s) /\ W \in 0..Len(s) - 0
    BY <1>1, <1>3
  <2>2. Cut(s, 0, W)
    BY <2>1, CutStream
  <2>3. Number(At(s, 0, W)) \in Nat
    BY <1>1, <2>2, NumberType DEF Cut, At
  <2> PICK k : k = Number(At(s, 0, W))
    OBVIOUS
  <2> QED
    BY <1>1, <2>3 DEF Fits
<1> QED
  BY <1>2, <1>3

(* One pass gives bodies, when the passes after it do ... *)
LEMMA FramesFromType ==
  ASSUME NEW f \in [Stream -> Seq(Stream)], NEW s \in Stream
  PROVE  FramesFrom(f, s) \in Seq(Stream)
<1>1. CASE ~Fits(W, s) \/ ~Fits(W + Number(At(s, 0, W)), s)
  <2>1. <<>> \in Seq(Stream)
    OBVIOUS
  <2> QED
    BY <1>1, <2>1, FrameFits DEF FramesFrom
<1>2. CASE Fits(W, s) /\ Fits(W + Number(At(s, 0, W)), s)
  <2> PICK w : w = At(s, W, (W + Number(At(s, 0, W))) - W)
    OBVIOUS
  <2> PICK left : left = SubSeq(s, (W + Number(At(s, 0, W))) + 1, Len(s))
    OBVIOUS
  <2>1. w \in Stream /\ left \in Stream
    BY <1>2, FirstWord
  <2>2. f[left] \in Seq(Stream) /\ <<w>> \in Seq(Stream)
    BY <2>1, OneIsSeq
  <2>3. FramesFrom(f, s) = <<w>> \o f[left]
    BY <1>2, FrameFits DEF FramesFrom
  <2> QED
    BY <2>2, <2>3, ConcatProperties
<1> QED
  BY <1>1, <1>2

(* ... and looks only at what is left of the stream. *)
LEMMA FramesLocal ==
  ASSUME NEW f, NEW g, NEW s \in Stream,
         \A r \in Stream : Len(r) < Len(s) => f[r] = g[r]
  PROVE  FramesFrom(f, s) = FramesFrom(g, s)
<1>1. CASE ~Fits(W, s) \/ ~Fits(W + Number(At(s, 0, W)), s)
  BY <1>1, FrameFits DEF FramesFrom
<1>2. CASE Fits(W, s) /\ Fits(W + Number(At(s, 0, W)), s)
  <2>1. f[SubSeq(s, (W + Number(At(s, 0, W))) + 1, Len(s))] =
        g[SubSeq(s, (W + Number(At(s, 0, W))) + 1, Len(s))]
    BY <1>2, FirstWord
  <2> QED
    BY <1>2, <2>1, FrameFits DEF FramesFrom
<1> QED
  BY <1>1, <1>2

(* Frames is the function its definition says. *)
LEMMA FramesIs ==
  /\ Frames \in [Stream -> Seq(Stream)]
  /\ \A s \in Stream : Frames[s] = FramesFrom(Frames, s)
<1> DEFINE Val == Seq(Stream)
           m == [s \in Stream |-> Len(s)]
           G == [p \in [Stream -> Val] \X Stream |-> FramesFrom(p[1], p[2])]
           Table(f) == f = [s \in Stream |-> FramesFrom(f, s)]
<1>1. \A f \in [Stream -> Val], s \in Stream : FramesFrom(f, s) \in Val
  BY FramesFromType
<1>2. \A f \in [Stream -> Val], s \in Stream : G[<<f, s>>] = FramesFrom(f, s)
  OBVIOUS
<1>3. Recursion(Stream, Val, m, G)
  <2>1. Val # {}
    <3>1. <<>> \in Val
      OBVIOUS
    <3> QED
      BY <3>1
  <2>2. G \in [[Stream -> Val] \X Stream -> Val]
    <3> HIDE DEF Val
    <3> QED
      BY <1>1
  <2>3. ASSUME NEW f \in [Stream -> Val], NEW g \in [Stream -> Val], NEW s \in Stream,
               \A r \in Stream : m[r] < m[s] => f[r] = g[r]
        PROVE  G[<<f, s>>] = G[<<g, s>>]
    <3>1. \A r \in Stream : Len(r) < Len(s) => f[r] = g[r]
      BY <2>3
    <3>2. FramesFrom(f, s) = FramesFrom(g, s)
      BY <3>1, FramesLocal
    <3> HIDE DEF Val, G
    <3> QED
      BY <1>2, <3>2
  <2>4. m \in [Stream -> Nat]
    BY StreamLen
  <2> HIDE DEF Val, G, m
  <2> QED
    BY <2>1, <2>2, <2>3, <2>4 DEF Recursion
<1>4. PICK F \in [Stream -> Val] : \A s \in Stream : F[s] = G[<<F, s>>]
  <2> HIDE DEF Val, G, m
  <2> QED
    BY <1>3, RecursiveFunction
<1>5. Table(F)
  <2> HIDE DEF Val, G
  <2> QED
    BY <1>2, <1>4
<1>6. \A s \in Seq(Cell) : Len(s) \in Nat /\ W \in Nat
  BY StreamLen, WireSizes DEF Stream
<1>7. Frames = CHOOSE f : Table(f)
  BY DEF Frames, FramesFrom, Stream, Fits
<1>8. Table(Frames)
  <2> HIDE DEF Table
  <2> QED
    BY <1>5, <1>7
<1>9. ASSUME NEW s \in Stream
      PROVE  Frames[s] \in Val
  <2> DEFINE T == {k \in Nat : \E r \in Stream : Len(r) = k /\ Frames[r] \notin Val}
  <2> SUFFICES ASSUME Frames[s] \notin Val
               PROVE  FALSE
    OBVIOUS
  <2>1. PICK k \in T : \A j \in T : k <= j
    <3>1. Len(s) \in T
      BY StreamLen
    <3> HIDE DEF Val
    <3> QED
      BY <3>1, LeastNat
  <2>2. PICK r \in Stream : Len(r) = k /\ Frames[r] \notin Val
    BY <2>1
  <2>3. Frames[r] = FramesFrom(Frames, r)
    BY <1>8
  (* What Frames is on shorter streams is all that matters.                *)
  <2> DEFINE g == [q \in Stream |-> IF Len(q) < k THEN Frames[q] ELSE <<>>]
  <2>4. g \in [Stream -> Val]
    <3>1. <<>> \in Val
      OBVIOUS
    <3>2. \A q \in Stream : Len(q) < k => Frames[q] \in Val
      <4> TAKE q \in Stream
      <4>1. Len(q) \in Nat /\ k \in Nat
        BY StreamLen
      <4>2. Len(q) < k => Len(q) \notin T
        <5> HIDE DEF T
        <5> QED
          BY <2>1, <4>1
      <4> HIDE DEF Val
      <4> QED
        BY <4>1, <4>2
    <3> HIDE DEF Val
    <3> QED
      BY <3>1, <3>2
  <2>5. FramesFrom(Frames, r) = FramesFrom(g, r)
    <3>1. \A q \in Stream : Len(q) < Len(r) => Frames[q] = g[q]
      BY <2>2
    <3> HIDE DEF g
    <3> QED
      BY <3>1, FramesLocal
  <2>6. FramesFrom(g, r) \in Val
    <3> HIDE DEF g
    <3> QED
      BY <2>4, FramesFromType
  <2> HIDE DEF Val, g
  <2> QED
    BY <2>2, <2>3, <2>5, <2>6
<1>10. Frames \in [Stream -> Val]
  <2>1. Frames = [s \in Stream |-> FramesFrom(Frames, s)]
    BY <1>8
  <2> HIDE DEF Val
  <2> QED
    BY <1>9, <2>1
<1> QED
  BY <1>8, <1>10
-----------------------------------------------------------------------------
(* The messages fs, taken off the front of the stream ss.                  *)
Accounts(ss, fs) ==
  /\ fs \in Seq(Stream) /\ Len(fs) <= Len(ss)
  /\ \A i \in 1..Len(fs) : ss[i] = Field(Len(fs[i])) \o fs[i]

(* One more message at the front. *)
LEMMA AccountsMore ==
  ASSUME NEW ss \in Seq(Stream), ss # <<>>, NEW w \in Stream, ss[1] = Field(Len(w)) \o w,
         NEW fs, Accounts(Tail(ss), fs)
  PROVE  /\ Accounts(ss, <<w>> \o fs) /\ Len(<<w>> \o fs) = Len(fs) + 1
         /\ Len(Tail(ss)) \in Nat /\ Len(ss) = Len(Tail(ss)) + 1
<1> PICK tl : tl = Tail(ss)
  OBVIOUS
<1> PICK all : all = <<w>> \o fs
  OBVIOUS
<1>1. /\ Len(ss) \in Nat /\ Len(ss) >= 1 /\ Len(tl) = Len(ss) - 1
      /\ \A i \in 1..Len(ss) - 1 : tl[i] = ss[i + 1]
  BY TailDrops DEF Drops
<1>2. fs \in Seq(Stream) /\ Len(fs) \in Nat /\ Len(fs) <= Len(tl)
      /\ \A i \in 1..Len(fs) : tl[i] = Field(Len(fs[i])) \o fs[i]
  <2>1. fs \in Seq(Stream) /\ Len(fs) <= Len(tl)
        /\ \A i \in 1..Len(fs) : tl[i] = Field(Len(fs[i])) \o fs[i]
    BY DEF Accounts
  <2>2. Len(fs) \in Nat
    BY <2>1, SeqHolds DEF Holds
  <2> QED
    BY <2>1, <2>2
<1>3. /\ all \in Seq(Stream) /\ Len(all) = Len(fs) + 1
      /\ all[1] = w /\ \A i \in 1..Len(fs) : all[i + 1] = fs[i]
  <2> PICK one : one = <<w>>
    OBVIOUS
  <2>1. one \in Seq(Stream) /\ Len(one) = 1 /\ one[1] = w
    BY OneIsSeq
  <2> HIDE DEF Stream
  <2>2. /\ all \in Seq(Stream) /\ Len(all) = 1 + Len(fs)
        /\ \A i \in 1..1 + Len(fs) : all[i] = IF i <= 1 THEN one[i] ELSE fs[i - 1]
    <3>1. all = one \o fs
      OBVIOUS
    <3> QED
      BY <1>2, <2>1, <3>1, ConcatProperties
  <2>3. \A i \in 1..Len(fs) : all[i + 1] = fs[i]
    <3> TAKE i \in 1..Len(fs)
    <3>1. i + 1 \in 1..1 + Len(fs) /\ ~(i + 1 <= 1) /\ (i + 1) - 1 = i
      BY <1>2
    <3> QED
      BY <2>2, <3>1
  <2>4. all[1] = w
    BY <1>2, <2>1, <2>2
  <2> QED
    BY <1>2, <2>1, <2>2, <2>3, <2>4
<1>4. ASSUME NEW i \in 1..Len(all)
      PROVE  ss[i] = Field(Len(all[i])) \o all[i]
  <2>1. CASE i = 1
    BY <1>3, <2>1
  <2>2. CASE i # 1
    <3> PICK j : j = i - 1
      OBVIOUS
    <3>1. j \in 1..Len(fs) /\ j \in 1..Len(ss) - 1 /\ i = j + 1
      BY <1>1, <1>2, <1>3, <2>2
    <3>2. ss[i] = tl[j] /\ all[i] = fs[j]
      BY <1>1, <1>3, <3>1
    <3> QED
      BY <1>2, <3>1, <3>2
  <2> QED
    BY <2>1, <2>2
<1>5. Len(all) <= Len(ss)
  BY <1>1, <1>2, <1>3
<1>6. Accounts(ss, all)
  BY <1>3, <1>4, <1>5 DEF Accounts
<1>7. Len(tl) \in Nat /\ Len(ss) = Len(tl) + 1
  <2> PICK n : n = Len(ss)
    OBVIOUS
  <2>1. n \in Nat /\ n >= 1 /\ Len(tl) = n - 1
    BY <1>1
  <2> QED
    BY <2>1
<1> QED
  BY <1>3, <1>6, <1>7

(* read_full takes whole messages, from the first on, and no more of them  *)
(* than have come.                                                         *)
FrameByFrame(ss, b, t) ==
  Accounts(ss, Frames[b]) /\ (t # <<>> => Len(Frames[b]) < Len(ss))

(* One frame is taken; those after it are as they should be. *)
LEMMA OneFrame ==
  ASSUME NEW ss, Framed(ss), NEW b \in Stream, NEW t \in Stream, b \o t = FlattenSeq(ss),
         \A tl : \A left \in Stream :
           tl = Tail(ss) /\ ss # <<>> /\ Framed(tl) /\ left \o t = FlattenSeq(tl) =>
             FrameByFrame(tl, left, t)
  PROVE  FrameByFrame(ss, b, t)
<1>1. /\ Len(b) \in Nat /\ W \in Nat /\ ss \in Seq(Stream) /\ Len(ss) \in Nat
      /\ Frames[b] = FramesFrom(Frames, b)
  BY StreamLen, WireSizes, FramesIs DEF Framed
<1>2. CASE Len(b) < W \/ Len(b) < W + Number(At(b, 0, W))
  <2>1. Frames[b] = <<>>
    BY <1>1, <1>2 DEF FramesFrom
  <2>2. <<>> \in Seq(Stream) /\ Len(<<>>) = 0
    OBVIOUS
  <2>3. Accounts(ss, <<>>)
    <3> PICK e : e = <<>> /\ e \in Seq(Stream) /\ Len(e) = 0
      BY <2>2
    <3>1. Accounts(ss, e)
      BY <1>1 DEF Accounts
    <3> QED
      BY <3>1
  <2>4. t # <<>> => 0 < Len(ss)
    <3>1. ASSUME ss = <<>>
          PROVE  t = <<>>
      <4>1. b \o t = <<>>
        BY <3>1, FlattenEmpty
      <4> QED
        BY <4>1, ConcatEqualIffEmpty DEF Stream
    <3>2. ss # <<>> => Len(ss) # 0
      BY <1>1, EmptySeq
    <3> QED
      BY <1>1, <3>1, <3>2
  <2> QED
    BY <2>1, <2>2, <2>3, <2>4, Zenon DEF FrameByFrame
<1>3. CASE ~(Len(b) < W \/ Len(b) < W + Number(At(b, 0, W)))
  <2> PICK k : k = Number(At(b, 0, W))
    OBVIOUS
  <2> PICK x : x = ss[1]
    OBVIOUS
  <2> PICK tl : tl = Tail(ss)
    OBVIOUS
  <2> PICK left : left = SubSeq(b, Len(x) + 1, Len(b))
    OBVIOUS
  <2>1. Begun(ss, b, t)
    <3>1. Len(b) >= W
      BY <1>1, <1>3
    <3> QED
      BY <3>1, FirstMessage
  <2>2. ss # <<>> /\ x \in Stream /\ tl \in Seq(Stream) /\ k = Len(x) - W /\ Len(x) >= W
    BY <2>1, Zenon DEF Begun
  <2>3. Len(x) \in Nat /\ W + k = Len(x) /\ Len(x) <= Len(b)
    <3>1. Len(x) \in Nat
      BY <2>2, StreamLen
    <3>2. W + k = Len(x)
      BY <1>1, <2>2, <3>1
    <3>3. ~(Len(b) < W + k)
      BY <1>3, Zenon
    <3> QED
      BY <1>1, <3>1, <3>2, <3>3
  <2>4. left \in Stream /\ b = x \o left /\ left \o t = FlattenSeq(tl)
    BY <2>1, <2>3, Zenon DEF Begun
  <2>5. Framed(tl)
    <3>1. Drops(Stream, tl, ss)
      BY <1>1, <2>2, TailDrops
    <3>2. \A i \in 1..Len(tl) : \E body \in Stream : tl[i] = Field(Len(body)) \o body
      <4> TAKE i \in 1..Len(tl)
      <4>1. i + 1 \in 1..Len(ss) /\ tl[i] = ss[i + 1]
        BY <3>1 DEF Drops
      <4> QED
        BY <4>1 DEF Framed
    <3> QED
      BY <2>2, <3>2 DEF Framed
  <2>6. FrameByFrame(tl, left, t)
    BY <2>2, <2>4, <2>5
  <2>7. PICK w \in Stream : x = Field(Len(w)) \o w
    <3>1. 1 \in 1..Len(ss)
      BY <1>1, <2>2, EmptySeq
    <3> QED
      BY <3>1 DEF Framed
  <2>8. At(b, W, k) = w /\ k = Len(w)
    <3> PICK fd : fd = Field(Len(w))
      OBVIOUS
    <3>1. fd \in Stream /\ Len(fd) = W /\ Len(w) \in Nat
      BY StreamLen, FieldType
    <3>2. Reads(fd, w, left)
      BY <2>4, <3>1, ReadsBack
    <3>3. Len(x) = W + Len(w)
      BY <2>7, <3>1, Joined
    <3>4. k = Len(w)
      <4> PICK n : n = Len(w)
        OBVIOUS
      <4>1. n \in Nat /\ W + k = W + n
        BY <2>3, <3>1, <3>3
      <4>2. k \in Int
        <5> PICK lx : lx = Len(x)
          OBVIOUS
        <5>1. lx \in Nat /\ k = lx - W
          BY <2>2, <2>3
        <5> QED
          BY <1>1, <5>1
      <4>3. W \in Nat
        BY <1>1
      <4>4. k = n
        BY ONLY <4>1, <4>2, <4>3
      <4> QED
        BY <4>4
    <3> QED
      BY <2>4, <2>7, <3>1, <3>2, <3>4 DEF Reads
  <2>9. Frames[b] = <<w>> \o Frames[left]
    <3>1. (W + k) - W = k
      BY <1>1, <2>8, StreamLen
    <3>2. Frames[b] = <<At(b, W, (W + k) - W)>> \o Frames[SubSeq(b, (W + k) + 1, Len(b))]
      BY <1>1, <1>3, Zenon DEF FramesFrom
    <3> QED
      BY <2>3, <2>8, <3>1, <3>2
  <2> PICK fs : fs = Frames[left]
    OBVIOUS
  <2>10. Accounts(tl, fs) /\ (t # <<>> => Len(fs) < Len(tl))
    BY <2>6 DEF FrameByFrame
  <2>11. /\ Accounts(ss, <<w>> \o fs) /\ Len(<<w>> \o fs) = Len(fs) + 1
         /\ Len(tl) \in Nat /\ Len(ss) = Len(tl) + 1
    BY <1>1, <2>2, <2>7, <2>10, AccountsMore
  <2> PICK all : all = <<w>> \o fs
    OBVIOUS
  <2>12. Len(fs) \in Nat
    BY <2>10 DEF Accounts
  <2>13. t # <<>> => Len(all) < Len(ss)
    BY <2>10, <2>11, <2>12
  <2> QED
    BY <2>9, <2>11, <2>13 DEF FrameByFrame
<1> QED
  BY <1>2, <1>3

(* So all are: by the shortest sequence of messages of which it is not true. *)
LEMMA FramesSound ==
  ASSUME NEW ss, Framed(ss), NEW b \in Stream, NEW t \in Stream, b \o t = FlattenSeq(ss)
  PROVE  FrameByFrame(ss, b, t)
<1> DEFINE Bad(s, c) == Framed(s) /\ c \o t = FlattenSeq(s) /\ ~FrameByFrame(s, c, t)
           U == {k \in Nat : \E s, c : Len(s) = k /\ c \in Stream /\ Bad(s, c)}
<1> SUFFICES ASSUME Bad(ss, b)
             PROVE  FALSE
  OBVIOUS
<1>2. U # {}
  <2>1. Len(ss) \in Nat
    BY DEF Framed
  <2>2. Len(ss) \in U
    <3> HIDE DEF Bad
    <3> QED
      BY <2>1
  <2> HIDE DEF U
  <2> QED
    BY <2>2
<1>3. PICK k \in U : \A j \in U : k <= j
  <2> HIDE DEF Bad
  <2> QED
    BY <1>2, LeastNat
<1>4. PICK s, c : Len(s) = k /\ c \in Stream /\ Bad(s, c)
  <2> HIDE DEF Bad
  <2> QED
    BY <1>3
<1>5. ASSUME NEW tl, NEW left \in Stream, tl = Tail(s), s # <<>>, Framed(tl),
             left \o t = FlattenSeq(tl)
      PROVE  FrameByFrame(tl, left, t)
  <2>1. s \in Seq(Stream) /\ Len(tl) \in Nat /\ Len(s) = Len(tl) + 1
    <3>1. s \in Seq(Stream)
      BY <1>4 DEF Framed
    <3>2. Drops(Stream, tl, s)
      BY <1>5, <3>1, TailDrops
    <3> QED
      BY <1>5, <3>1, <3>2 DEF Drops, Framed
  <2>2. Len(tl) \notin U
    <3> HIDE DEF U, Bad
    <3> QED
      BY <1>3, <1>4, <2>1
  <2>3. ~Bad(tl, left)
    <3> HIDE DEF Bad
    <3> QED
      BY <2>1, <2>2
  <2> QED
    BY <1>5, <2>3
<1> QED
  BY <1>4, <1>5, OneFrame
-----------------------------------------------------------------------------
(* do_request compares the bytes of a word with those of a name.           *)
LEMMA SameName ==
  ASSUME NEW x, IsWord(x), NEW w \in Names, Str(x) = Str(w)
  PROVE  x = w
<1>1. Length(w) \in Nat /\ Length(w) # 0 /\ Length(x) \in Nat
  <2>1. IsWord(w) /\ Length(w) # 0
    BY WireAssumption, Zenon
  <2> QED
    BY <2>1, Zenon DEF IsWord
<1> PICK n : n = Length(w)
  OBVIOUS
<1> PICK m : m = Length(x)
  OBVIOUS
<1> DEFINE f == [i \in 1..n |-> <<w, i, 0>>]
           g == [i \in 1..m |-> <<x, i, 0>>]
<1>2. f = g
  BY Zenon DEF Str
<1>3. 1 \in 1..n
  BY <1>1
<1>4. 1 \in 1..m
  <2>1. DOMAIN f = 1..n /\ DOMAIN g = 1..m
    OBVIOUS
  <2> HIDE DEF f, g
  <2> QED
    BY <1>2, <1>3, <2>1
<1>5. f[1] = <<w, 1, 0>> /\ g[1] = <<x, 1, 0>>
  BY <1>3, <1>4
<1>6. <<w, 1, 0>> = <<x, 1, 0>>
  <2> HIDE DEF f, g
  <2> QED
    BY <1>2, <1>5
<1> QED
  BY <1>6

AllOk(replies) == \A reply \in replies : reply.err = RES_OK
NoneOk(replies) == \A reply \in replies : reply.err # RES_OK

(* The codes of the replies most commands choose from. *)
LEMMA Verdicts ==
  /\ \A S : AllOk(Ints(S))
  /\ \A w : NoneOk(Usage(w))
  /\ AllOk(do_keys) /\ NoneOk({Says(RES_ERR, <<>>)})
<1>1. \A S : AllOk(Ints(S))
  <2> SUFFICES ASSUME NEW S, NEW n \in S
               PROVE  Says(RES_OK, <<Int64(n)>>).err = RES_OK
    BY DEF AllOk, Ints
  <2> QED
    BY SaysOut
<1>2. \A w : NoneOk(Usage(w))
  BY SaysOut DEF NoneOk, Usage, RES_OK, RES_ERR
<1>3. AllOk(do_keys)
  <2> SUFFICES ASSUME NEW l \in Listings
               PROVE  Says(RES_OK, <<Array(Len(l))>> \o
                             [i \in 1..Len(l) |-> String(Str(l[i]))]).err = RES_OK
    BY DEF AllOk, do_keys
  <2> QED
    BY SaysOut
<1>4. NoneOk({Says(RES_ERR, <<>>)})
  BY SaysOut DEF NoneOk, RES_OK, RES_ERR
<1> QED
  BY <1>1, <1>2, <1>3, <1>4

(* The table of the commands' lengths. *)
LEMMA ArityIs ==
  /\ DOMAIN Arity = Names
  /\ Arity["keys"] = 1 /\ Arity["get"] = 2 /\ Arity["del"] = 2 /\ Arity["ttl"] = 2
  /\ Arity["set"] = 3 /\ Arity["zscore"] = 3 /\ Arity["zrem"] = 3 /\ Arity["expire"] = 3
  /\ Arity["zadd"] = 4 /\ Arity["zquery"] = 6
BY DEF Arity, Names

(* How do_request finds the command: by name, most also by the number of   *)
(* words.                                                                  *)
Named(words, w) == words # <<>> /\ words[1] = w

(* Comparing bytes or names is the same for the names there are. *)
LEMMA NamedIs ==
  ASSUME NEW words, IsText(words)
  PROVE  \A w \in Names :
           (Strs(words) # <<>> /\ Strs(words)[1] = Str(w)) <=> Named(words, w)
<1>1. /\ Strs(words) \in Seq(Stream) /\ Len(Strs(words)) = Len(words) /\ words \in Seq(STRING)
      /\ \A i \in 1..Len(words) : Strs(words)[i] = Str(words[i])
  BY StrsType DEF IsText
<1>2. words # <<>> <=> Strs(words) # <<>>
  <2> PICK s : s = Strs(words)
    OBVIOUS
  <2>1. words # <<>> <=> Len(words) # 0
    BY <1>1, EmptySeq
  <2>2. s # <<>> <=> Len(s) # 0
    BY <1>1, EmptySeq
  <2> QED
    BY <1>1, <2>1, <2>2
<1>3. words # <<>> => 1 \in 1..Len(words) /\ IsWord(words[1])
  BY <1>1, EmptySeq DEF IsText
<1> TAKE w \in Names
<1> QED
  BY <1>1, <1>2, <1>3, SameName DEF Named

(* The replies to a command, by its name.                                  *)
ReplyTo(words) ==
  LET n == Len(words)
  IN CASE n = 0                                -> {Says(RES_ERR, <<>>)}
       [] Named(words, "keys") /\ n = 1    -> do_keys
       [] Named(words, "get") /\ n = 2     -> do_get
       [] Named(words, "set") /\ n = 3     -> do_set
       [] Named(words, "del") /\ n = 2     -> do_del
       [] Named(words, "zadd")             -> do_zadd(Strs(words))
       [] Named(words, "zscore")           -> do_zscore(Strs(words))
       [] Named(words, "zrem")             -> do_zrem(Strs(words))
       [] Named(words, "zquery")           -> do_query(Strs(words))
       [] Named(words, "expire") /\ n = 3  -> do_expire(Strs(words))
       [] Named(words, "ttl") /\ n = 2     -> do_ttl
       [] OTHER                            -> {Says(RES_ERR, <<>>)}

(* do_request in terms of names. *)
LEMMA RequestByName ==
  ASSUME NEW words, IsText(words)
  PROVE  do_request(Strs(words)) = ReplyTo(words)
<1>1. \A w \in Names :
        (Strs(words) # <<>> /\ Strs(words)[1] = Str(w)) <=> Named(words, w)
  BY NamedIs
<1>2. Len(Strs(words)) = Len(words) /\ Len(words) \in Nat
  BY StrsType DEF IsText
<1> PICK s : s = Strs(words)
  OBVIOUS
<1> DEFINE is(w) == s # <<>> /\ s[1] = Str(w)
<1>3. /\ is("keys") <=> Named(words, "keys")
      /\ is("get") <=> Named(words, "get")
      /\ is("set") <=> Named(words, "set")
      /\ is("del") <=> Named(words, "del")
      /\ is("zadd") <=> Named(words, "zadd")
      /\ is("zscore") <=> Named(words, "zscore")
      /\ is("zrem") <=> Named(words, "zrem")
      /\ is("zquery") <=> Named(words, "zquery")
      /\ is("expire") <=> Named(words, "expire")
      /\ is("ttl") <=> Named(words, "ttl")
  BY <1>1 DEF Names
<1>4. Len(s) = Len(words)
  BY <1>2
<1>5. \A w : IsNamed(s, w) <=> is(w)
  BY DEF IsNamed
<1> HIDE DEF is
<1> QED
  BY <1>3, <1>4, <1>5 DEF do_request, ReplyTo
-----------------------------------------------------------------------------
(* A command that is answered, and one that is refused.                    *)
Answerable(words) == Known(words) /\ HasNumbers(words)
Refusable(words) ==
  \/ ~Known(words)
  \/ words[1] = "expire" /\ ~HasNumbers(words)
  \/ words[1] \in {"get", "zscore", "zquery"}

(* do_request answers only what is answerable, and refuses only what is refusable. *)
LEMMA RepliesVerdict ==
  ASSUME NEW words, IsText(words)
  PROVE  /\ ~Answerable(words) => NoneOk(do_request(Strs(words)))
         /\ ~Refusable(words) => AllOk(do_request(Strs(words)))
<1>1. do_request(Strs(words)) = ReplyTo(words)
  BY RequestByName
<1>2. Len(words) \in Nat /\ (Len(words) = 0 <=> words = <<>>)
  BY EmptySeq DEF IsText
<1> PICK n : n = Len(words)
  OBVIOUS
<1> PICK s : s = Strs(words)
  OBVIOUS
<1>3. Len(s) = n /\ \A i \in 1..n : s[i] = Str(words[i])
  BY StrsType DEF IsText
<1>n. /\ n = 3 => s[3] = Str(words[3])
      /\ n = 4 => s[3] = Str(words[3])
      /\ n = 6 => s[3] = Str(words[3]) /\ s[5] = Str(words[5]) /\ s[6] = Str(words[6])
  BY <1>3
<1>v. NoneOk({}) /\ AllOk({}) /\ NoneOk({Says(RES_NX, <<>>)})
  BY SaysOut DEF NoneOk, AllOk, RES_NX, RES_OK
<1>4. ~Answerable(words) => NoneOk(ReplyTo(words))
  <2> SUFFICES ASSUME ~Answerable(words)
               PROVE  NoneOk(ReplyTo(words))
    OBVIOUS
  <2>1. /\ Named(words, "keys") => n # 1
        /\ Named(words, "get") => n # 2
        /\ Named(words, "set") => n # 3
        /\ Named(words, "del") => n # 2
        /\ Named(words, "zadd") => n # 4 \/ Throws(s[3])
        /\ Named(words, "zscore") => n # 3
        /\ Named(words, "zrem") => n # 3
        /\ Named(words, "zquery") => n # 6 \/ Throws(s[3]) \/ Throws(s[5]) \/ Throws(s[6])
        /\ Named(words, "expire") /\ n = 3 => NoInteger(s[3])
        /\ Named(words, "ttl") => n # 2
    BY <1>n, ArityIs DEF Answerable, Known, HasNumbers, Named, Names
  <2>2. /\ n # 4 \/ Throws(s[3]) => NoneOk(do_zadd(s))
        /\ n # 3 => NoneOk(do_zscore(s)) /\ NoneOk(do_zrem(s))
        /\ n # 6 \/ Throws(s[3]) \/ Throws(s[5]) \/ Throws(s[6]) => NoneOk(do_query(s))
        /\ NoInteger(s[3]) => NoneOk(do_expire(s))
    <3>1. n # 4 \/ Throws(s[3]) => NoneOk(do_zadd(s))
      BY <1>3, <1>v, Verdicts DEF do_zadd
    <3>2. n # 3 => NoneOk(do_zscore(s)) /\ NoneOk(do_zrem(s))
      BY <1>3, Verdicts DEF do_zscore, do_zrem
    <3>3. n # 6 \/ Throws(s[3]) \/ Throws(s[5]) \/ Throws(s[6]) => NoneOk(do_query(s))
      <4>1. {Says(RES_NX, <<>>)} \cup {} = {Says(RES_NX, <<>>)}
        OBVIOUS
      <4>2. CASE n # 6
        BY <1>3, <4>2, Verdicts DEF do_query
      <4>3. CASE n = 6 /\ (Throws(s[3]) \/ Throws(s[5]) \/ Throws(s[6]))
        <5>1. do_query(s) = {Says(RES_NX, <<>>)} \cup {}
          BY <1>3, <4>3, Zenon DEF do_query
        <5> QED
          BY <1>v, <4>1, <5>1
      <4> QED
        BY <4>2, <4>3
    <3>4. NoInteger(s[3]) => NoneOk(do_expire(s))
      BY Verdicts DEF do_expire
    <3> QED
      BY <3>1, <3>2, <3>3, <3>4
  <2> QED
    BY <2>1, <2>2, Verdicts DEF ReplyTo
<1>5. ASSUME ~Refusable(words)
      PROVE  AllOk(ReplyTo(words))
  <2>1. /\ words # <<>> /\ n # 0 /\ Known(words)
        /\ words[1] \in {"keys", "set", "del", "ttl", "expire", "zadd", "zrem"}
    BY <1>2, <1>5, ArityIs DEF Refusable, Known, Names
  <2>2. /\ AllOk(do_set) /\ AllOk(do_del) /\ AllOk(do_keys) /\ AllOk(do_ttl)
        /\ n = 4 => AllOk(do_zadd(s))
        /\ n = 3 => AllOk(do_zrem(s))
        /\ ~NoInteger(s[3]) => AllOk(do_expire(s))
    BY <1>3, <1>v, Verdicts DEF do_set, do_del, do_ttl, do_zadd, do_zrem, do_expire
  <2>3. CASE words[1] = "keys"
    <3>1. n = 1
      BY <2>1, <2>3, ArityIs DEF Known
    <3> QED
      BY <2>1, <2>2, <2>3, <3>1 DEF ReplyTo, Named
  <2>4. CASE words[1] = "set"
    <3>1. n = 3
      BY <2>1, <2>4, ArityIs DEF Known
    <3> QED
      BY <2>1, <2>2, <2>4, <3>1 DEF ReplyTo, Named
  <2>5. CASE words[1] = "del"
    <3>1. n = 2
      BY <2>1, <2>5, ArityIs DEF Known
    <3> QED
      BY <2>1, <2>2, <2>5, <3>1 DEF ReplyTo, Named
  <2>6. CASE words[1] = "ttl"
    <3>1. n = 2
      BY <2>1, <2>6, ArityIs DEF Known
    <3> QED
      BY <2>1, <2>2, <2>6, <3>1 DEF ReplyTo, Named
  <2>7. CASE words[1] = "expire"
    <3>1. n = 3 /\ ~NoInteger(s[3])
      BY <1>5, <1>n, <2>1, <2>7, ArityIs DEF Known, Refusable, HasNumbers
    <3> QED
      BY <2>1, <2>2, <2>7, <3>1 DEF ReplyTo, Named
  <2>8. CASE words[1] = "zadd"
    <3>1. n = 4
      BY <2>1, <2>8, ArityIs DEF Known
    <3> QED
      BY <2>1, <2>2, <2>8, <3>1 DEF ReplyTo, Named
  <2>9. CASE words[1] = "zrem"
    <3>1. n = 3
      BY <2>1, <2>9, ArityIs DEF Known
    <3> QED
      BY <2>1, <2>2, <2>9, <3>1 DEF ReplyTo, Named
  <2> QED
    BY <2>1, <2>3, <2>4, <2>5, <2>6, <2>7, <2>8, <2>9
<1> QED
  BY <1>1, <1>4, <1>5
-----------------------------------------------------------------------------
(* What one_request parses is the first request not yet answered, word for *)
(* word, unless it was cut short.                                          *)
LEMMA RequestAtHand ==
  ASSUME Typed, InStream, Len(rbuf) >= W
  PROVE  /\ Len(answers) < Len(requests) /\ AtHand \in Commands /\ IsText(AtHand)
         /\ AtHand \notin CutShort => len = Len(Body(Strs(AtHand)))
         /\ Complete =>
              Parsed = IF AtHand \in CutShort \/ Len(AtHand) > k_max_args THEN {}
                       ELSE {Strs(AtHand)}
<1> PICK words : words = AtHand
  OBVIOUS
<1> PICK cmd : cmd = Strs(words)
  OBVIOUS
<1> PICK body : body = SentBody(words)
  OBVIOUS
<1> PICK fd : fd = Field(Len(body))
  OBVIOUS
<1>1. Heads(words)
  BY HeadOfStream, Zenon DEF Heads, AtHand
<1>2. Len(answers) < Len(requests) /\ words \in Commands /\ W + len = Len(Request(words))
  BY <1>1 DEF Heads
<1>3. IsText(words) /\ cmd \in Seq(Stream) /\ body \in Stream /\ Request(words) = fd \o body
      /\ Len(Request(words)) = W + Len(body) /\ Len(cmd) = Len(words)
  <2>1. IsText(words)
    BY <1>2, ConnectionAssumption, Zenon
  <2> QED
    BY <1>2, <2>1, CommandType, StrsType
<1>4. W \in Nat /\ Len(body) \in Nat /\ fd \in Stream /\ Len(fd) = W
  BY <1>3, WireSizes, StreamLen, FieldType
<1>5. len = Len(body)
  <2> PICK n : n = Len(body)
    OBVIOUS
  <2> PICK l : l = len
    OBVIOUS
  <2>1. l \in Nat
    BY LengthRead, Zenon DEF Typed
  <2>2. W + l = W + n /\ n \in Nat
    BY <1>2, <1>3, <1>4
  <2>3. l = n
    BY <1>4, <2>1, <2>2
  <2> QED
    BY <2>3
<1>6. words \notin CutShort => len = Len(Body(cmd))
  BY <1>5 DEF SentBody
<1>7. ASSUME Complete
      PROVE  Parsed = IF words \in CutShort \/ Len(words) > k_max_args THEN {} ELSE {cmd}
  <2>1. rbuf = (fd \o body) \o Rest /\ Rest \in Stream
    BY <1>1, <1>3, <1>7 DEF Heads
  <2> PICK r : r = Rest
    OBVIOUS
  <2>2. Reads(fd, body, r)
    BY <1>3, <1>4, <2>1, ReadsBack
  <2>3. At(rbuf, W, len) = body
    BY <1>4, <1>5, <2>1, <2>2 DEF Reads
  <2>4. parse_req(body) = IF words \in CutShort \/ Len(cmd) > k_max_args THEN {} ELSE {cmd}
    BY <1>3, ParseBody, ParseCut DEF SentBody
  <2> QED
    BY <1>3, <2>3, <2>4, Zenon DEF Parsed
<1> QED
  BY <1>2, <1>3, <1>6, <1>7

(* A request that is parsed is whole, and it is what is parsed ...         *)
LEMMA ParsedWhole ==
  ASSUME Typed, InStream, Complete, ~TooLong, Parsed # {}
  PROVE  /\ Len(answers) < Len(requests) /\ IsText(AtHand) /\ Whole(AtHand)
         /\ Parsed = {Strs(AtHand)}
<1> PICK words : words = AtHand
  OBVIOUS
<1>1. Len(rbuf) >= W
  BY DEF Complete
<1>2. /\ Len(answers) < Len(requests) /\ IsText(words)
      /\ words \notin CutShort => len = Len(Body(Strs(words)))
      /\ Parsed = IF words \in CutShort \/ Len(words) > k_max_args THEN {} ELSE {Strs(words)}
  BY <1>1, RequestAtHand
<1>3. words \notin CutShort /\ ~(Len(words) > k_max_args) /\ Parsed = {Strs(words)}
  BY <1>2
<1>4. Len(words) <= k_max_args
  <2>1. Len(words) \in Nat /\ k_max_args \in Nat
    BY <1>2, WireSizes DEF IsText
  <2> QED
    BY <1>3, <2>1
<1>5. Sendable(Strs(words))
  <2> PICK n : n = Len(Body(Strs(words)))
    OBVIOUS
  <2>1. n = len /\ ~(n > k_max_msg)
    BY <1>1, <1>2, <1>3 DEF TooLong
  <2>2. n \in Nat /\ k_max_msg \in Nat
    BY <1>1, <2>1, LengthRead, WireSizes
  <2>3. n <= k_max_msg
    BY <2>1, <2>2
  <2> QED
    BY <2>3 DEF Sendable
<1> QED
  BY <1>2, <1>3, <1>4, <1>5 DEF Whole

(* ... and one that is whole is parsed, when all of it is there.           *)
LEMMA WholeParsed ==
  ASSUME Typed, InStream, Len(rbuf) >= W, Whole(AtHand)
  PROVE  ~TooLong /\ (Complete => Parsed = {Strs(AtHand)})
<1> PICK words : words = AtHand
  OBVIOUS
<1>1. /\ IsText(words) /\ words \notin CutShort /\ len = Len(Body(Strs(words)))
      /\ Complete => Parsed = IF Len(words) > k_max_args THEN {} ELSE {Strs(words)}
  BY RequestAtHand DEF Whole
<1>2. ~TooLong
  <2> PICK n : n = Len(Body(Strs(words)))
    OBVIOUS
  <2>1. n <= k_max_msg /\ n = len
    BY <1>1 DEF Whole, Sendable
  <2>2. n \in Nat /\ k_max_msg \in Nat
    BY <2>1, LengthRead, WireSizes
  <2>3. ~(n > k_max_msg)
    BY <2>1, <2>2
  <2> QED
    BY <2>1, <2>3 DEF TooLong
<1>3. ~(Len(words) > k_max_args)
  <2>1. Len(words) \in Nat /\ k_max_args \in Nat /\ Len(words) <= k_max_args
    BY <1>1, WireSizes DEF IsText, Whole
  <2> QED
    BY <2>1
<1> QED
  BY <1>1, <1>2, <1>3

(* The arguments for an answer, ...                                        *)
LEMMA AnswerForCause ==
  Inv /\ Answer => Len(answers) < Len(requests) /\ Whole(AtHand) /\ Answerable(AtHand)
<1> SUFFICES ASSUME Inv, Answer
             PROVE  Len(answers) < Len(requests) /\ Whole(AtHand) /\ Answerable(AtHand)
  OBVIOUS
<1>1. /\ ~TooLong /\ Complete /\ Typed /\ InStream
      /\ \E cmd \in Parsed : \E reply \in do_request(cmd) : reply.err = RES_OK
  BY Zenon DEF Answer, Inv
<1>2. /\ Len(answers) < Len(requests) /\ IsText(AtHand) /\ Whole(AtHand)
      /\ Parsed = {Strs(AtHand)}
  BY <1>1, ParsedWhole
<1>3. ~NoneOk(do_request(Strs(AtHand)))
  BY <1>1, <1>2 DEF NoneOk
<1> QED
  BY <1>2, <1>3, RepliesVerdict

(* ... for a refusal, ... *)
LEMMA RefuseForCause ==
  Inv /\ Refuse => Len(answers) < Len(requests) /\ (~Whole(AtHand) \/ Refusable(AtHand))
<1> SUFFICES ASSUME Inv, Refuse
             PROVE  Len(answers) < Len(requests) /\ (~Whole(AtHand) \/ Refusable(AtHand))
  OBVIOUS
<1>1. Len(rbuf) >= W /\ Typed /\ InStream
  BY DEF Refuse, TooLong, Complete, Inv
<1>2. Len(answers) < Len(requests) /\ IsText(AtHand)
  BY <1>1, RequestAtHand
<1>3. ASSUME Whole(AtHand)
      PROVE  Refusable(AtHand)
  <2>1. ~TooLong /\ (Complete => Parsed = {Strs(AtHand)})
    BY <1>1, <1>3, WholeParsed
  <2>2. /\ Complete
        /\ Parsed = {} \/ \E cmd \in Parsed : \E reply \in do_request(cmd) : reply.err # RES_OK
    BY <2>1, Zenon DEF Refuse
  <2>3. ~AllOk(do_request(Strs(AtHand)))
    BY <2>1, <2>2 DEF AllOk
  <2> QED
    BY <1>2, <2>3, RepliesVerdict
<1> QED
  BY <1>2, <1>3

(* ... and for an end of the process.                                      *)
LEMMA CrashForCause ==
  Inv /\ Crash =>
    /\ state = "REQ" /\ Len(answers) < Len(requests)
    /\ Whole(AtHand) /\ Known(AtHand) /\ AtHand[1] \in {"zadd", "zrem", "zquery"}
<1> SUFFICES ASSUME Inv, Crash
             PROVE  /\ state = "REQ" /\ Len(answers) < Len(requests)
                    /\ Whole(AtHand) /\ Known(AtHand) /\ AtHand[1] \in {"zadd", "zrem", "zquery"}
  OBVIOUS
<1>1. /\ pc = "request" /\ ~TooLong /\ Complete /\ Typed /\ InStream /\ Phases
      /\ \E cmd \in Parsed : MayEnd(cmd)
  BY Zenon DEF Crash, Inv
<1> PICK words : words = AtHand
  OBVIOUS
<1>2. /\ Len(answers) < Len(requests) /\ IsText(words) /\ Whole(words)
      /\ Parsed = {Strs(words)}
  BY <1>1, ParsedWhole
<1>3. MayEnd(Strs(words))
  BY <1>1, <1>2
<1>4. Len(Strs(words)) = Len(words)
  BY <1>2, StrsType DEF IsText
<1>5. \A w \in Names : IsNamed(Strs(words), w) <=> Named(words, w)
  BY <1>2, NamedIs DEF IsNamed
<1>6. \/ Named(words, "zadd") /\ Len(words) = 4
      \/ Named(words, "zrem") /\ Len(words) = 3
      \/ Named(words, "zquery") /\ Len(words) = 6
  BY <1>3, <1>4, <1>5 DEF MayEnd, Names
<1>7. Known(words) /\ words[1] \in {"zadd", "zrem", "zquery"}
  BY <1>6, ArityIs DEF Named, Known, Names
<1> QED
  BY <1>1, <1>2, <1>7 DEF Phases
-----------------------------------------------------------------------------
(* Every request answered deserved it, and the one a connection or the     *)
(* process ended for.                                                      *)
Deserved == \A r \in 1..Len(answers) : Whole(requests[r]) /\ Answerable(requests[r])
Refused ==
  state = "END" /\ peer = "open" =>
    Len(answers) < Len(requests) /\ (~Whole(AtHand) \/ Refusable(AtHand))
Crashed ==
  pc = "dead" /\ state = "REQ" =>
    /\ Len(answers) < Len(requests)
    /\ Whole(AtHand) /\ Known(AtHand) /\ AtHand[1] \in {"zadd", "zrem", "zquery"}
ForCause == Refused /\ Crashed

(* No step answers a bad request or ends anything for a good one. *)
LEMMA CauseStep == Inv /\ Deserved /\ ForCause /\ [Next]_vars => Deserved' /\ ForCause'
<1> SUFFICES ASSUME Inv, Deserved, ForCause, [Next]_vars
             PROVE  Deserved' /\ ForCause'
  OBVIOUS
<1>1. /\ requests \in Seq(Commands) /\ answers \in Seq(Seq(Value))
      /\ Len(answers) \in 0..Len(requests) /\ Len(requests) \in Nat
  BY DEF Inv, Typed, TypeOK
<1>2. ASSUME UNCHANGED <<requests, answers>>,
             state' = "END" /\ peer' = "open" => state = "END" /\ peer = "open",
             pc' = "dead" /\ state' = "REQ" => pc = "dead" /\ state = "REQ"
      PROVE  Deserved' /\ ForCause'
  BY <1>2 DEF Deserved, ForCause, Refused, Crashed, AtHand
<1>3. CASE Answer
  <2>1. PICK out \in Seq(Value) : answers' = Append(answers, out)
    <3>1. Inv'
      BY <1>3, AnswerStep
    <3>2. PICK out : answers' = Append(answers, out)
      BY <1>3, Zenon DEF Answer
    <3>3. answers' \in Seq(Seq(Value)) /\ answers'[Len(answers) + 1] = out
          /\ Len(answers') = Len(answers) + 1
      BY <1>1, <3>1, <3>2 DEF Inv, Typed
    <3>4. out \in Seq(Value)
      <4>1. Len(answers) + 1 \in 1..Len(answers')
        BY <1>1, <3>3
      <4> HIDE DEF Value
      <4> QED
        BY <3>3, <4>1
    <3> QED
      BY <3>2, <3>4
  <2>2. Len(answers') = Len(answers) + 1 /\ Len(answers) \in Nat
    BY <1>1, <2>1
  <2>3. requests' = requests /\ state' = "RES"
    BY <1>3 DEF Answer, client
  <2>4. Whole(requests[Len(answers) + 1]) /\ Answerable(requests[Len(answers) + 1])
    BY <1>3, AnswerForCause DEF AtHand
  <2>5. ASSUME NEW r \in 1..Len(answers')
        PROVE  Whole(requests'[r]) /\ Answerable(requests'[r])
    <3>1. r \in 1..Len(answers) \/ r = Len(answers) + 1
      BY <2>2
    <3> QED
      BY <2>3, <2>4, <3>1 DEF Deserved
  <2> QED
    BY <2>3, <2>5 DEF Deserved, ForCause, Refused, Crashed
<1>4. CASE Refuse
  <2>1. UNCHANGED <<requests, answers>> /\ pc' = "close"
    BY <1>4 DEF Refuse, client
  <2> QED
    BY <1>4, <2>1, RefuseForCause DEF Deserved, ForCause, Refused, Crashed, AtHand
<1>12. CASE Crash
  <2>1. UNCHANGED <<requests, answers, state, peer>>
    BY <1>12 DEF Crash, conn, client
  <2> QED
    BY <1>12, <2>1, CrashForCause DEF Deserved, ForCause, Refused, Crashed, AtHand
<1>5. CASE \E words \in Commands : Send(words)
  <2>1. PICK words \in Commands : requests' = Append(requests, words)
    BY <1>5 DEF Send
  <2>2. UNCHANGED <<answers, state, peer, pc>> /\ pc # "dead"
    BY <1>5 DEF Send, conn, Ended
  <2>3. /\ Len(requests') = Len(requests) + 1
        /\ \A i \in 1..Len(requests) : requests'[i] = requests[i]
    <3>1. Extends(Commands, requests', requests, words)
      BY <1>1, <2>1, AppendExtends
    <3> QED
      BY <3>1 DEF Extends
  <2>4. Deserved'
    <3>1. \A r \in 1..Len(answers) : r \in 1..Len(requests)
      BY <1>1
    <3> QED
      BY <2>2, <2>3, <3>1 DEF Deserved
  <2>5. ForCause'
    <3>1. Len(answers) < Len(requests) =>
            Len(answers) < Len(requests') /\ Len(answers) + 1 \in 1..Len(requests)
      BY <1>1, <2>3
    <3> QED
      BY <2>2, <2>3, <3>1 DEF ForCause, Refused, Crashed, AtHand
  <2> QED
    BY <2>4, <2>5
<1>6. CASE ReadFails \/ WriteToNobody
  <2>1. UNCHANGED <<requests, answers, peer>> /\ peer = "closed"
    BY <1>6 DEF ReadFails, WriteToNobody, client
  <2>2. ~(pc' = "dead" /\ state' = "REQ")
    BY <1>6 DEF ReadFails, WriteToNobody, Wrote, Flushing, AfterFlush, Inv, Phases
  <2> QED
    BY <1>2, <2>1, <2>2
<1>7. CASE Write
  <2>1. UNCHANGED <<requests, answers, peer>> /\ state' \in {"REQ", state} /\ pc' # "dead"
    BY <1>7 DEF Write, Wrote, client, StateAfter, Flushing, AfterFlush
  <2> QED
    BY <1>2, <2>1
<1>8. CASE connection_io \/ Read \/ ReadNothing \/ NeedMore \/ WriteNothing
  <2>1. UNCHANGED <<requests, answers, peer, state>> /\ pc' # "dead"
    BY <1>8 DEF connection_io, Read, ReadNothing, NeedMore, WriteNothing, WouldBlock, client, conn
  <2> QED
    BY <1>2, <2>1
<1>9. CASE Close \/ Deliver \/ Receive
  <2>1. UNCHANGED <<requests, answers, peer, state>> /\ pc' \in {pc, "gone"}
    BY <1>9 DEF Close, Deliver, Receive, client, conn
  <2> QED
    BY <1>2, <2>1
<1>10. CASE Hangup
  <2>1. UNCHANGED <<requests, answers, pc, state>> /\ peer' = "closed"
    BY <1>10 DEF Hangup, client, conn
  <2> QED
    BY <1>2, <2>1
<1>11. CASE UNCHANGED vars
  BY <1>2, <1>11 DEF vars, conn, client
<1> QED
  BY <1>3, <1>4, <1>5, <1>6, <1>7, <1>8, <1>9, <1>10, <1>11, <1>12 DEF Next, Serves

(* The server dies of SIGPIPE only with a reply still to give: what it was *)
(* writing has not all been read.                                          *)
LEMMA DeadUnread ==
  Inv /\ pc = "dead" /\ state # "REQ" => peer = "closed" /\ \E r \in 1..Len(answers) : ~Received(r)
<1> SUFFICES ASSUME Inv, pc = "dead", state # "REQ"
             PROVE  peer = "closed" /\ \E r \in 1..Len(answers) : ~Received(r)
  OBVIOUS
<1>1. state = "RES" /\ peer = "closed"
  BY DEF Inv, Phases
<1>2. /\ answers \in Seq(Seq(Value)) /\ got \in Stream /\ outq \in Stream
      /\ Len(answers) \in Nat
  BY DEF Inv, Typed, TypeOK, Stream
<1>3. PICK rest \in Stream : got \o outq \o rest = FlattenSeq(Given(answers)) /\ rest # <<>>
  BY <1>1 DEF Inv, OutStream
<1> PICK t : t = outq \o rest
  OBVIOUS
<1> PICK ss : ss = Given(answers)
  OBVIOUS
<1>4. t \in Stream /\ t # <<>> /\ got \o t = FlattenSeq(ss)
  <2>1. t \in Stream
    BY <1>2, <1>3, Joined
  <2>2. t # <<>>
    BY <1>2, <1>3, ConcatEqualIffEmpty DEF Stream
  <2>3. Assoc(got, outq, rest)
    BY <1>2, <1>3, Regroup
  <2> QED
    BY <1>3, <2>1, <2>2, <2>3 DEF Assoc
<1>5. Framed(ss) /\ Len(ss) = Len(answers)
  BY <1>2, GivenFramed
<1>6. FrameByFrame(ss, got, t)
  BY <1>2, <1>4, <1>5, FramesSound
<1> PICK n : n = Len(Frames[got])
  OBVIOUS
<1> PICK r : r = Len(answers)
  OBVIOUS
<1>7. n < r /\ n \in Nat
  <2>1. n < r /\ Frames[got] \in Seq(Stream)
    BY <1>4, <1>5, <1>6 DEF FrameByFrame, Accounts
  <2> QED
    BY <2>1, SeqHolds DEF Holds
<1>8. r \in 1..Len(answers) /\ ~(r <= n)
  BY <1>2, <1>7
<1> QED
  BY <1>1, <1>8 DEF Received

(* ... hence the server answers only requests that are whole, of a command *)
(* it knows and with numbers where they belong; it refuses, or ends with,  *)
(* only those it has a reason to.                                          *)
THEOREM RefusedForCause == Spec => []EndsForCause
<1>1. Init => Deserved /\ ForCause
  <2>1. Len(<<>>) = 0
    OBVIOUS
  <2> QED
    BY <2>1 DEF Init, Deserved, ForCause, Refused, Crashed
<1>2. Inv /\ Deserved /\ ForCause => EndsForCause
  BY DeadUnread DEF EndsForCause, Deserved, Answerable, ForCause, Refused, Refusable, Crashed
<1> QED
  BY <1>1, <1>2, CauseStep, InvariantHolds, PTL DEF Spec
-----------------------------------------------------------------------------
(* on_response's replies: what it has used and what it prints.             *)
Response == [used : Int, prints : Seq(Value)]

Is(data, t) == data # <<>> /\ At(data, 0, 1) = Type(t)
Left(data, used) == SubSeq(data, used + 1, Len(data))
Shows(data, used, v) == IF Len(data) < used THEN Failed ELSE [used |-> used, prints |-> <<v>>]

(* The first value in data, when f knows those of the arrays in it.        *)
FirstFrom(f, data) ==
  CASE Is(data, "SER_NIL") -> Shows(data, 1, Nil)
    [] Is(data, "SER_INT") ->
         Shows(data, 1 + 2 * W, V("SER_INT", 0, Reverse(At(data, 1, 2 * W))))
    [] Is(data, "SER_STR") /\ Len(data) >= 1 + W ->
         Shows(data, 1 + W + Number(At(data, 1, W)),
               String(At(data, 1 + W, Number(At(data, 1, W)))))
    [] Is(data, "SER_ERR") /\ Len(data) >= 1 + 2 * W ->
         Shows(data, 1 + 2 * W + Number(At(data, 1 + W, W)),
               V("SER_ERR", Number(At(data, 1, W)),
                 At(data, 1 + 2 * W, Number(At(data, 1 + W, W)))))
    [] Is(data, "SER_ARR") /\ Len(data) >= 1 + W ->
         Then(Shows(data, 1 + W, Array(Number(At(data, 1, W)))),
              f[Left(data, 1 + W)][Number(At(data, 1, W))])
    [] OTHER -> Failed

ResponsesFrom(f, data) ==
  [count \in Nat |->
     IF count = 0 THEN [used |-> 0, prints |-> <<>>]
     ELSE Then(FirstFrom(f, data), f[Left(data, FirstFrom(f, data).used)][count - 1])]
-----------------------------------------------------------------------------
(* A response that is no failure has used a byte at least.                 *)
Sound(r) == r \in Response /\ (~(r.used < 0) => r.used >= 1)

(* The failure is a response. *)
LEMMA FailedIs == Failed \in Response /\ Failed.used = -1 /\ Failed.used < 0
<1>1. <<>> \in Seq(Value) /\ -1 \in Int
  OBVIOUS
<1> QED
  BY <1>1 DEF Failed, Response

(* A value shown when all its bytes are there. *)
LEMMA ShowsType ==
  ASSUME NEW data \in Stream, NEW used \in Nat, used >= 1, NEW v,
         used <= Len(data) => v \in Value
  PROVE  Sound(Shows(data, used, v))
<1>1. Len(data) \in Nat
  BY StreamLen
<1>2. CASE Len(data) < used
  BY <1>2, FailedIs DEF Shows, Sound
<1>3. CASE ~(Len(data) < used)
  <2>1. v \in Value
    BY <1>1, <1>3
  <2> HIDE DEF Value
  <2>2. <<v>> \in Seq(Value)
    BY <2>1, OneIsSeq
  <2> QED
    BY <1>3, <2>2 DEF Shows, Sound, Response
<1> QED
  BY <1>2, <1>3

(* Two responses, one after the other. *)
LEMMA ThenType ==
  ASSUME NEW a \in Response, NEW b, ~(a.used < 0) => b \in Response
  PROVE  /\ Then(a, b) \in Response
         /\ Sound(a) => Sound(Then(a, b))
<1>1. CASE a.used < 0 \/ b.used < 0
  BY <1>1, FailedIs DEF Then, Sound
<1>2. CASE ~(a.used < 0) /\ ~(b.used < 0)
  <2> PICK i : i = a.used
    OBVIOUS
  <2> PICK j : j = b.used
    OBVIOUS
  <2>1. /\ i \in Int /\ j \in Int /\ i >= 0 /\ j >= 0 /\ ~(i < 0)
        /\ a.prints \in Seq(Value) /\ b.prints \in Seq(Value)
    BY <1>2 DEF Response
  <2> PICK p : p = a.prints \o b.prints
    OBVIOUS
  <2>2. p \in Seq(Value)
    <3> HIDE DEF Value
    <3> QED
      BY <2>1, ConcatProperties
  <2> PICK k : k = i + j
    OBVIOUS
  <2>3. k \in Int /\ k >= i
    BY <2>1
  <2>4. Then(a, b) = [used |-> k, prints |-> p]
    BY <1>2 DEF Then
  <2>5. Then(a, b) \in Response /\ Then(a, b).used = k
    BY <2>2, <2>3, <2>4 DEF Response
  <2>6. Sound(a) => k >= 1
    BY <2>1, <2>3 DEF Sound
  <2> QED
    BY <2>5, <2>6 DEF Sound
<1> QED
  BY <1>1, <1>2

(* What is left of data once a value of it is gone.                        *)
LEMMA LeftType ==
  ASSUME NEW data \in Stream, data # <<>>, NEW used \in Int, used >= 1
  PROVE  Left(data, used) \in Stream /\ Len(Left(data, used)) < Len(data)
<1> PICK n : n = Len(data)
  OBVIOUS
<1>1. n \in Nat /\ n >= 1
  BY EmptySeq DEF Stream
<1>2. CASE used <= n
  <2>1. used \in 0..n
    BY <1>1, <1>2
  <2> PICK r : r = SubSeq(data, used + 1, n)
    OBVIOUS
  <2>2. r \in Stream /\ Len(r) = n - used
    BY <2>1, SplitSeq DEF Stream
  <2>3. n - used < n
    BY <1>1
  <2> QED
    BY <2>2, <2>3 DEF Left
<1>3. CASE ~(used <= n)
  <2>1. used + 1 \in Int /\ n \in Int /\ n < used + 1
    BY <1>1, <1>3
  <2>2. SubSeq(data, used + 1, n) = <<>>
    BY <2>1, SubSeqEmpty
  <2>3. Left(data, used) = <<>>
    BY <2>2 DEF Left
  <2>4. Len(<<>>) = 0
    OBVIOUS
  <2>5. Len(Left(data, used)) = 0
    BY <2>3, <2>4, Zenon
  <2> QED
    BY <1>1, <2>3, <2>5, EmptyStream
<1> QED
  BY <1>2, <1>3

(* A field that is all there.                                              *)
LEMMA FieldRead ==
  ASSUME NEW data \in Stream, NEW pos \in Nat, Len(data) >= pos + W
  PROVE  Number(At(data, pos, W)) \in Nat
<1>1. Len(data) \in Nat /\ W \in Nat /\ W >= 1
  BY WireSizes, StreamLen
<1>2. pos \in 0..Len(data) /\ W \in 0..Len(data) - pos
  BY <1>1
<1>3. Cut(data, pos, W)
  BY <1>2, CutStream
<1> QED
  BY <1>1, <1>3, NumberType DEF Cut, At

(* Bytes that are all there.                                               *)
LEMMA AtType ==
  ASSUME NEW data \in Stream, NEW pos \in Nat, NEW n \in Nat, pos + n <= Len(data)
  PROVE  At(data, pos, n) \in Stream /\ Len(At(data, pos, n)) = n
<1>1. Len(data) \in Nat
  BY StreamLen
<1>2. pos \in 0..Len(data) /\ n \in 0..Len(data) - pos
  BY <1>1
<1>3. Cut(data, pos, n)
  BY <1>2, CutStream
<1> QED
  BY <1>3 DEF Cut, At
-----------------------------------------------------------------------------
(* The first value is a sound response, whatever the bytes are. *)
LEMMA FirstFromType ==
  ASSUME NEW f \in [Stream -> [Nat -> Response]], NEW data \in Stream
  PROVE  Sound(FirstFrom(f, data))
<1> HIDE DEF Value, Stream
<1>1. Len(data) \in Nat /\ W \in Nat /\ W >= 1 /\ 2 * W \in Nat /\ 1 + W \in Nat /\ 1 + 2 * W \in Nat
  BY WireSizes, StreamLen
<1>2. Sound(Shows(data, 1, Nil))
  BY NilValue, ShowsType
<1>3. Sound(Shows(data, 1 + 2 * W, V("SER_INT", 0, Reverse(At(data, 1, 2 * W)))))
  <2> PICK v : v = V("SER_INT", 0, Reverse(At(data, 1, 2 * W)))
    OBVIOUS
  <2> PICK u : u = 1 + 2 * W
    OBVIOUS
  <2>1. ASSUME u <= Len(data)
        PROVE  v \in Value
    <3>1. At(data, 1, 2 * W) \in Stream
      BY <1>1, <2>1, AtType
    <3>2. Reverse(At(data, 1, 2 * W)) \in Stream
      BY <3>1, ReverseType
    <3> QED
      BY <3>2, ValueIs DEF Types
  <2>2. u \in Nat /\ u >= 1
    BY <1>1
  <2> QED
    BY <2>1, <2>2, ShowsType
<1>4. ASSUME Len(data) >= 1 + W
      PROVE  Sound(Shows(data, 1 + W + Number(At(data, 1, W)),
                         String(At(data, 1 + W, Number(At(data, 1, W))))))
  <2> PICK n : n = Number(At(data, 1, W))
    OBVIOUS
  <2>1. n \in Nat
    BY <1>4, FieldRead
  <2> PICK u : u = 1 + W + n
    OBVIOUS
  <2> PICK v : v = String(At(data, 1 + W, n))
    OBVIOUS
  <2>2. ASSUME u <= Len(data)
        PROVE  v \in Value
    <3>1. At(data, 1 + W, n) \in Stream
      BY <1>1, <2>1, <2>2, AtType
    <3> QED
      BY <3>1, ValueIs DEF String, Types
  <2>3. u \in Nat /\ u >= 1
    BY <1>1, <2>1
  <2> QED
    BY <2>2, <2>3, ShowsType
<1>5. ASSUME Len(data) >= 1 + 2 * W
      PROVE  Sound(Shows(data, 1 + 2 * W + Number(At(data, 1 + W, W)),
                         V("SER_ERR", Number(At(data, 1, W)),
                           At(data, 1 + 2 * W, Number(At(data, 1 + W, W))))))
  <2> PICK n : n = Number(At(data, 1 + W, W))
    OBVIOUS
  <2> PICK code : code = Number(At(data, 1, W))
    OBVIOUS
  <2>1. n \in Nat /\ code \in Nat
    <3>1. Len(data) >= 1 + W /\ Len(data) >= (1 + W) + W
      BY <1>1, <1>5
    <3> QED
      BY <1>1, <3>1, FieldRead
  <2> PICK u : u = 1 + 2 * W + n
    OBVIOUS
  <2> PICK v : v = V("SER_ERR", code, At(data, 1 + 2 * W, n))
    OBVIOUS
  <2>2. ASSUME u <= Len(data)
        PROVE  v \in Value
    <3>1. At(data, 1 + 2 * W, n) \in Stream
      BY <1>1, <2>1, <2>2, AtType
    <3> QED
      BY <2>1, <3>1, ValueIs DEF Types
  <2>3. u \in Nat /\ u >= 1
    BY <1>1, <2>1
  <2> QED
    BY <2>2, <2>3, ShowsType
<1>6. ASSUME Is(data, "SER_ARR"), Len(data) >= 1 + W
      PROVE  Sound(Then(Shows(data, 1 + W, Array(Number(At(data, 1, W)))),
                        f[Left(data, 1 + W)][Number(At(data, 1, W))]))
  <2> PICK n : n = Number(At(data, 1, W))
    OBVIOUS
  <2> PICK u : u = 1 + W
    OBVIOUS
  <2>1. n \in Nat /\ u \in Nat /\ u >= 1 /\ u \in Int
    BY <1>1, <1>6, FieldRead
  <2>2. Array(n) \in Value
    BY <2>1, ArrayValue
  <2>3. Sound(Shows(data, u, Array(n)))
    BY <2>1, <2>2, ShowsType
  <2>4. Left(data, u) \in Stream
    BY <1>6, <2>1, LeftType DEF Is
  <2>5. f[Left(data, u)][n] \in Response
    <3>1. f[Left(data, u)] \in [Nat -> Response]
      BY <2>4
    <3> QED
      BY <2>1, <3>1
  <2> QED
    BY <2>3, <2>5, ThenType DEF Sound
<1>7. Sound(Failed)
  BY FailedIs DEF Sound
<1> QED
  BY <1>2, <1>3, <1>4, <1>5, <1>6, <1>7 DEF FirstFrom

(* A failure is reported, whatever would come after it.                    *)
LEMMA ResponsesFromType ==
  ASSUME NEW f \in [Stream -> [Nat -> Response]], NEW data \in Stream
  PROVE  ResponsesFrom(f, data) \in [Nat -> Response]
<1> HIDE DEF Stream
<1> PICK r : r = FirstFrom(f, data)
  OBVIOUS
<1>1. Sound(r)
  BY FirstFromType
<1>2. ASSUME NEW count \in Nat, count # 0
      PROVE  Then(r, f[Left(data, r.used)][count - 1]) \in Response
  <2>1. ASSUME ~(r.used < 0)
        PROVE  f[Left(data, r.used)][count - 1] \in Response
    <3>1. data # <<>>
      <4> SUFFICES ASSUME data = <<>>
                   PROVE  FALSE
        OBVIOUS
      <4>1. r = Failed
        BY DEF FirstFrom, Is
      <4> QED
        BY <2>1, <4>1, FailedIs
    <3>2. r.used \in Int /\ r.used >= 1
      BY <1>1, <2>1 DEF Sound, Response
    <3>3. Left(data, r.used) \in Stream
      BY <3>1, <3>2, LeftType
    <3>4. f[Left(data, r.used)] \in [Nat -> Response]
      BY <3>3
    <3>5. count - 1 \in Nat
      BY <1>2
    <3> QED
      BY <3>4, <3>5
  <2> QED
    BY <1>1, <2>1, ThenType DEF Sound
<1>3. [used |-> 0, prints |-> <<>>] \in Response
  BY DEF Response
<1> QED
  BY <1>2, <1>3 DEF ResponsesFrom

(* What shorter data gives is all that matters.                            *)
LEMMA FirstFromLocal ==
  ASSUME NEW f, NEW g, NEW data \in Stream,
         \A d \in Stream : Len(d) < Len(data) => f[d] = g[d]
  PROVE  FirstFrom(f, data) = FirstFrom(g, data)
<1>1. ASSUME Is(data, "SER_ARR")
      PROVE  f[Left(data, 1 + W)] = g[Left(data, 1 + W)]
  <2> PICK u : u = 1 + W
    OBVIOUS
  <2>1. u \in Int /\ u >= 1
    BY WireSizes
  <2> QED
    BY <1>1, <2>1, LeftType DEF Is
<1> QED
  BY <1>1 DEF FirstFrom

(* ... for all the values, too. *)
LEMMA ResponsesFromLocal ==
  ASSUME NEW f, NEW g, NEW h \in [Stream -> [Nat -> Response]], NEW data \in Stream,
         \A d \in Stream : Len(d) < Len(data) => f[d] = g[d],
         \A d \in Stream : Len(d) < Len(data) => h[d] = g[d]
  PROVE  ResponsesFrom(f, data) = ResponsesFrom(g, data)
<1> HIDE DEF Stream
<1> PICK r : r = FirstFrom(g, data)
  OBVIOUS
<1>1. FirstFrom(f, data) = r /\ FirstFrom(h, data) = r
  BY FirstFromLocal
<1>2. Sound(r)
  BY <1>1, FirstFromType
<1>3. CASE r.used < 0
  <2>1. \A x : Then(r, x) = Failed
    BY <1>3 DEF Then
  <2> QED
    BY <1>1, <2>1 DEF ResponsesFrom
<1>4. CASE ~(r.used < 0)
  <2>1. data # <<>>
    <3> SUFFICES ASSUME data = <<>>
                 PROVE  FALSE
      OBVIOUS
    <3>1. r = Failed
      BY DEF FirstFrom, Is
    <3> QED
      BY <1>4, <3>1, FailedIs
  <2>2. r.used \in Int /\ r.used >= 1
    BY <1>2, <1>4 DEF Sound, Response
  <2>3. f[Left(data, r.used)] = g[Left(data, r.used)]
    BY <2>1, <2>2, LeftType
  <2> QED
    BY <1>1, <2>3 DEF ResponsesFrom
<1> QED
  BY <1>3, <1>4

(* Responses is the function its definition says. *)
LEMMA ResponsesIs ==
  /\ Responses \in [Stream -> [Nat -> Response]]
  /\ \A data \in Stream : Responses[data] = ResponsesFrom(Responses, data)
<1> DEFINE Val == [Nat -> Response]
           m == [s \in Stream |-> Len(s)]
           G == [p \in [Stream -> Val] \X Stream |-> ResponsesFrom(p[1], p[2])]
           Table(f) == f = [data \in Stream |-> ResponsesFrom(f, data)]
<1>1. \A f \in [Stream -> Val], s \in Stream : ResponsesFrom(f, s) \in Val
  BY ResponsesFromType
<1>2. \A f \in [Stream -> Val], s \in Stream : G[<<f, s>>] = ResponsesFrom(f, s)
  OBVIOUS
<1>3. Recursion(Stream, Val, m, G)
  <2>1. Val # {}
    <3>1. [count \in Nat |-> Failed] \in Val
      BY FailedIs
    <3> QED
      BY <3>1
  <2>2. G \in [[Stream -> Val] \X Stream -> Val]
    <3> HIDE DEF Val
    <3> QED
      BY <1>1
  <2>3. ASSUME NEW f \in [Stream -> Val], NEW g \in [Stream -> Val], NEW s \in Stream,
               \A r \in Stream : m[r] < m[s] => f[r] = g[r]
        PROVE  G[<<f, s>>] = G[<<g, s>>]
    <3>1. \A r \in Stream : Len(r) < Len(s) => f[r] = g[r]
      BY <2>3
    <3>2. ResponsesFrom(f, s) = ResponsesFrom(g, s)
      BY <3>1, ResponsesFromLocal
    <3> HIDE DEF Val, G
    <3> QED
      BY <1>2, <3>2
  <2>4. m \in [Stream -> Nat]
    BY StreamLen
  <2> HIDE DEF Val, G, m
  <2> QED
    BY <2>1, <2>2, <2>3, <2>4 DEF Recursion
<1>4. PICK F \in [Stream -> Val] : \A s \in Stream : F[s] = G[<<F, s>>]
  <2> HIDE DEF Val, G, m
  <2> QED
    BY <1>3, RecursiveFunction
<1>5. Table(F)
  <2> HIDE DEF Val, G
  <2> QED
    BY <1>2, <1>4
<1>6. Responses = CHOOSE f : Table(f)
  BY DEF Responses, ResponsesFrom, FirstFrom, Stream, Is, Left, Shows
<1>7. Table(Responses)
  <2> HIDE DEF Table
  <2> QED
    BY <1>5, <1>6
<1>8. ASSUME NEW s \in Stream
      PROVE  Responses[s] \in Val
  <2> DEFINE T == {k \in Nat : \E r \in Stream : Len(r) = k /\ Responses[r] \notin Val}
  <2> SUFFICES ASSUME Responses[s] \notin Val
               PROVE  FALSE
    OBVIOUS
  <2>1. PICK k \in T : \A j \in T : k <= j
    <3>1. Len(s) \in T
      BY StreamLen
    <3> HIDE DEF Val
    <3> QED
      BY <3>1, LeastNat
  <2>2. PICK r \in Stream : Len(r) = k /\ Responses[r] \notin Val
    BY <2>1
  <2>3. Responses[r] = ResponsesFrom(Responses, r)
    BY <1>7
  (* What Responses is on shorter streams is all that matters.             *)
  <2> DEFINE none == [count \in Nat |-> Failed]
             g == [q \in Stream |-> IF Len(q) < k THEN Responses[q] ELSE none]
  <2>4. g \in [Stream -> Val]
    <3>1. none \in Val
      BY FailedIs
    <3>2. \A q \in Stream : Len(q) < k => Responses[q] \in Val
      <4> TAKE q \in Stream
      <4>1. Len(q) \in Nat /\ k \in Nat
        BY StreamLen
      <4>2. Len(q) < k => Len(q) \notin T
        <5> HIDE DEF T
        <5> QED
          BY <2>1, <4>1
      <4> HIDE DEF Val
      <4> QED
        BY <4>1, <4>2
    <3> HIDE DEF Val, none
    <3> QED
      BY <3>1, <3>2
  <2>5. ResponsesFrom(Responses, r) = ResponsesFrom(g, r)
    <3>1. \A q \in Stream : Len(q) < Len(r) => Responses[q] = g[q]
      BY <2>2
    <3>2. \A q \in Stream : Len(q) < Len(r) => g[q] = g[q]
      OBVIOUS
    <3>3. g \in [Stream -> [Nat -> Response]]
      BY <2>4
    <3> HIDE DEF g, Val, T, none, m, G, Table
    <3> QED
      BY <3>1, <3>2, <3>3, ResponsesFromLocal
  <2>6. ResponsesFrom(g, r) \in Val
    <3> HIDE DEF g
    <3> QED
      BY <2>4, ResponsesFromType
  <2> HIDE DEF Val, g
  <2> QED
    BY <2>2, <2>3, <2>5, <2>6
<1>9. Responses \in [Stream -> Val]
  <2>1. Responses = [s \in Stream |-> ResponsesFrom(Responses, s)]
    BY <1>7
  <2> HIDE DEF Val
  <2> QED
    BY <1>8, <2>1
<1> QED
  BY <1>7, <1>9
-----------------------------------------------------------------------------
(* A type byte is read as what was written.                                *)
TagRead(data, t) ==
  data \in Stream /\ Len(data) \in Nat /\ \A u \in Types : Is(data, u) <=> u = t

(* No type byte is taken for another. *)
LEMMA TagOf ==
  ASSUME NEW t \in Types, NEW rest \in Stream
  PROVE  TagRead(Type(t) \o rest, t) /\ Type(t) \in Stream /\ Len(Type(t)) = 1
         /\ Len(Type(t) \o rest) = 1 + Len(rest)
<1> PICK tag : tag = Type(t)
  OBVIOUS
<1> PICK data : data = tag \o rest
  OBVIOUS
<1>1. tag \in Stream /\ Len(tag) = 1
  BY TagsAreStrings, TypeType
<1>2. Begins(tag, rest)
  BY <1>1, BeginsWith
<1>3. data \in Stream /\ At(data, 0, 1) = tag /\ Len(data) = 1 + Len(rest)
  BY <1>1, <1>2 DEF Begins
<1>4. Len(data) \in Nat /\ Len(rest) \in Nat
  BY <1>3, StreamLen
<1>5. data # <<>>
  <2>1. Len(data) # 0
    BY <1>3, <1>4
  <2>2. Len(<<>>) = 0
    OBVIOUS
  <2> QED
    BY <2>1, <2>2, Zenon
<1>6. ASSUME NEW u \in Types
      PROVE  Is(data, u) <=> u = t
  <2>1. Type(u) = Type(t) => u = t
    <3>1. Type(u)[1][1] = u /\ Type(t)[1][1] = t
      BY DEF Type
    <3> QED
      BY <3>1, Zenon
  <2> QED
    BY <1>3, <1>5, <2>1 DEF Is
<1> QED
  BY <1>1, <1>3, <1>4, <1>6 DEF TagRead

(* Htobe64 twice.                                                          *)
LEMMA ReverseTwice ==
  ASSUME NEW s \in Stream
  PROVE  Reverse(Reverse(s)) = s
<1> PICK n : n = Len(s)
  OBVIOUS
<1> PICK r : r = Reverse(s)
  OBVIOUS
<1> PICK q : q = Reverse(r)
  OBVIOUS
<1>1. n \in Nat /\ r \in Stream /\ Len(r) = n /\ q \in Stream /\ Len(q) = n
  BY ReverseType, StreamLen
<1>2. ASSUME NEW i \in 1..n
      PROVE  q[i] = s[i]
  <2>1. n - i + 1 \in 1..n /\ n - (n - i + 1) + 1 = i
    BY <1>1
  <2>2. q[i] = r[n - i + 1]
    BY <1>1 DEF Reverse
  <2>3. r[n - i + 1] = s[n - (n - i + 1) + 1]
    BY <1>1, <2>1 DEF Reverse
  <2> QED
    BY <2>1, <2>2, <2>3
<1>3. q \in Seq(Cell) /\ s \in Seq(Cell) /\ Len(q) = Len(s)
  BY <1>1 DEF Stream
<1>4. \A i \in 1..Len(q) : q[i] = s[i]
  BY <1>1, <1>2
<1> QED
  BY <1>3, <1>4, SeqEqual

(* on_response knows the value that comes first, and how long it is.       *)
Tells(v, rest) ==
  LET data == OneValue(v) \o rest
  IN /\ data \in Stream /\ Left(data, Len(OneValue(v))) = rest
     /\ \A f : FirstFrom(f, data) = [used |-> Len(OneValue(v)), prints |-> <<v>>]

(* That the right branch is taken is enough: the bytes are all there. *)
LEMMA TellsWhen ==
  ASSUME NEW v, NEW rest \in Stream, NEW bytes \in Stream, OneValue(v) = bytes,
         \A f : FirstFrom(f, bytes \o rest) = Shows(bytes \o rest, Len(bytes), v)
  PROVE  Tells(v, rest)
<1> PICK data : data = bytes \o rest
  OBVIOUS
<1>1. Begins(bytes, rest)
  BY BeginsWith
<1>2. data \in Stream /\ Left(data, Len(bytes)) = rest /\ Len(data) = Len(bytes) + Len(rest)
  BY <1>1 DEF Begins, Left
<1>3. ~(Len(data) < Len(bytes))
  <2>1. Len(bytes) \in Nat /\ Len(rest) \in Nat
    BY StreamLen
  <2> QED
    BY <1>2, <2>1
<1>4. \A f : FirstFrom(f, data) = [used |-> Len(bytes), prints |-> <<v>>]
  BY <1>3 DEF Shows
<1> QED
  BY <1>2, <1>4 DEF Tells

(* Nil, ... *)
LEMMA TellsNil ==
  ASSUME NEW rest \in Stream
  PROVE  Tells(Nil, rest)
<1> PICK bytes : bytes = Type("SER_NIL")
  OBVIOUS
<1> PICK data : data = bytes \o rest
  OBVIOUS
<1>1. TagRead(data, "SER_NIL") /\ bytes \in Stream /\ Len(bytes) = 1
  BY TagOf DEF Types
<1>2. OneValue(Nil) = bytes
  BY DEF OneValue, out_nil, Nil, V
<1>3. \A f : FirstFrom(f, data) = Shows(data, Len(bytes), Nil)
  BY <1>1 DEF FirstFrom, TagRead, Types
<1> QED
  BY <1>1, <1>2, <1>3, TellsWhen

(* ... a number, ... *)
LEMMA TellsInt ==
  ASSUME NEW n \in Int, NEW rest \in Stream
  PROVE  Tells(Int64(n), rest)
<1> PICK tag : tag = Type("SER_INT")
  OBVIOUS
<1> PICK w : w = Reverse(Wide(n))
  OBVIOUS
<1> PICK bytes : bytes = tag \o w
  OBVIOUS
<1> PICK data : data = bytes \o rest
  OBVIOUS
<1> PICK v : v = Int64(n)
  OBVIOUS
<1>1. Wide(n) \in Stream /\ Len(Wide(n)) = 2 * W /\ w \in Stream /\ Len(w) = 2 * W
      /\ Reverse(w) = Wide(n)
  BY WideType, ReverseType, ReverseTwice
<1>2. TagRead(tag \o (w \o rest), "SER_INT") /\ tag \in Stream /\ Len(tag) = 1
  <2>1. w \o rest \in Stream
    BY <1>1, Joined
  <2> QED
    BY <2>1, TagOf DEF Types
<1>3. Reads(tag, w, rest) /\ Assoc(tag, w, rest)
  BY <1>1, <1>2, ReadsBack, Regroup
<1>4. TagRead(data, "SER_INT") /\ At(data, 1, 2 * W) = w
  BY <1>1, <1>2, <1>3 DEF Assoc, Reads
<1>5. OneValue(v) = bytes
  BY DEF OneValue, out_int, htobe64, Int64, V
<1>6. bytes \in Stream /\ Len(bytes) = 1 + 2 * W
  <2>1. Len(tag \o w) = Len(tag) + Len(w) /\ tag \o w \in Stream
    BY <1>1, <1>2, Joined
  <2> QED
    BY <1>1, <1>2, <2>1
<1>7. \A f : FirstFrom(f, data) = Shows(data, Len(bytes), v)
  <2>1. V("SER_INT", 0, Reverse(At(data, 1, 2 * W))) = v
    BY <1>1, <1>4 DEF Int64
  <2>2. /\ Is(data, "SER_INT") /\ ~Is(data, "SER_NIL") /\ ~Is(data, "SER_STR")
        /\ ~Is(data, "SER_ERR") /\ ~Is(data, "SER_ARR")
    BY <1>4 DEF TagRead, Types
  <2>3. \A f : FirstFrom(f, data) =
                 Shows(data, 1 + 2 * W, V("SER_INT", 0, Reverse(At(data, 1, 2 * W))))
    BY <2>2 DEF FirstFrom
  <2>4. Len(bytes) = 1 + 2 * W
    BY <1>6
  <2> QED
    BY <2>1, <2>3, <2>4, Zenon
<1> QED
  BY <1>5, <1>6, <1>7, TellsWhen

(* ... a string ... *)
LEMMA TellsString ==
  ASSUME NEW s \in Stream, NEW rest \in Stream
  PROVE  Tells(String(s), rest) /\ OneValue(String(s)) # <<>>
<1> PICK n : n = Len(s)
  OBVIOUS
<1> PICK tag : tag = Type("SER_STR")
  OBVIOUS
<1> PICK fd : fd = Field(n)
  OBVIOUS
<1> PICK head : head = tag \o fd
  OBVIOUS
<1> PICK bytes : bytes = head \o s
  OBVIOUS
<1> PICK data : data = bytes \o rest
  OBVIOUS
<1> PICK v : v = String(s)
  OBVIOUS
<1>1. n \in Nat /\ n \in Int /\ W \in Nat
  BY StreamLen, WireSizes
<1>2. fd \in Stream /\ Len(fd) = W /\ Number(fd) = n
  BY <1>1, FieldType, NumberField
<1>3. s \o rest \in Stream /\ fd \o (s \o rest) \in Stream
  BY <1>2, Joined
<1>4. TagRead(tag \o (fd \o (s \o rest)), "SER_STR") /\ tag \in Stream /\ Len(tag) = 1
  BY <1>3, TagOf DEF Types
<1>5. head \in Stream /\ Len(head) = 1 + W
  <2>1. Len(tag \o fd) = Len(tag) + Len(fd) /\ tag \o fd \in Stream
    BY <1>2, <1>4, Joined
  <2> QED
    BY <1>2, <1>4, <2>1
<1>6. data = tag \o (fd \o (s \o rest)) /\ data = (tag \o fd) \o (s \o rest)
  <2>1. Assoc(head, s, rest)
    BY <1>5, Regroup
  <2>2. Assoc(tag, fd, s \o rest)
    BY <1>2, <1>3, <1>4, Regroup
  <2> QED
    BY <2>1, <2>2 DEF Assoc
<1>7. TagRead(data, "SER_STR") /\ At(data, 1, W) = fd
  <2>1. Reads(tag, fd, s \o rest)
    BY <1>2, <1>3, <1>4, ReadsBack
  <2> QED
    BY <1>2, <1>4, <1>6, <2>1 DEF Reads
<1>8. At(data, 1 + W, n) = s /\ Len(data) = 1 + W + n + Len(rest)
  <2>1. Reads(head, s, rest)
    BY <1>5, ReadsBack
  <2> QED
    BY <1>5, <2>1 DEF Reads
<1>9. OneValue(v) = bytes
  BY DEF OneValue, out_str, String, V
<1>10. bytes \in Stream /\ Len(bytes) = 1 + W + n
  <2>1. Len(head \o s) = Len(head) + Len(s) /\ head \o s \in Stream
    BY <1>5, Joined
  <2> QED
    BY <1>5, <2>1
<1>11. \A f : FirstFrom(f, data) = Shows(data, Len(bytes), v)
  <2>1. Number(At(data, 1, W)) = n
    BY <1>2, <1>7
  <2>2. /\ Is(data, "SER_STR") /\ ~Is(data, "SER_NIL") /\ ~Is(data, "SER_INT")
        /\ ~Is(data, "SER_ERR") /\ ~Is(data, "SER_ARR")
    BY <1>7 DEF TagRead, Types
  <2>3. Len(data) >= 1 + W
    <3>1. Len(rest) \in Nat
      BY StreamLen
    <3> QED
      BY <1>1, <1>8, <3>1
  <2>4. \A f : FirstFrom(f, data) =
                 Shows(data, 1 + W + Number(At(data, 1, W)),
                       String(At(data, 1 + W, Number(At(data, 1, W)))))
    BY <2>2, <2>3 DEF FirstFrom
  <2> QED
    BY <1>8, <1>10, <2>1, <2>4, Zenon
<1>12. bytes # <<>>
  <2>1. Len(bytes) # 0
    BY <1>1, <1>10
  <2>2. Len(<<>>) = 0
    OBVIOUS
  <2> QED
    BY <2>1, <2>2, Zenon
<1> QED
  BY <1>9, <1>10, <1>11, <1>12, TellsWhen

(* ... and an error are read back as they were written. *)
LEMMA TellsError ==
  ASSUME NEW code \in Nat, NEW s \in Stream, NEW rest \in Stream
  PROVE  Tells(V("SER_ERR", code, s), rest)
<1> PICK n : n = Len(s)
  OBVIOUS
<1> PICK tag : tag = Type("SER_ERR")
  OBVIOUS
<1> PICK fc : fc = Field(code)
  OBVIOUS
<1> PICK fd : fd = Field(n)
  OBVIOUS
<1> PICK head : head = tag \o fc
  OBVIOUS
<1> PICK heads : heads = head \o fd
  OBVIOUS
<1> PICK bytes : bytes = heads \o s
  OBVIOUS
<1> PICK data : data = bytes \o rest
  OBVIOUS
<1> PICK v : v = V("SER_ERR", code, s)
  OBVIOUS
<1>1. n \in Nat /\ n \in Int /\ W \in Nat /\ code \in Int /\ 2 * W = W + W
  BY StreamLen, WireSizes
<1>2. /\ fd \in Stream /\ Len(fd) = W /\ Number(fd) = n
      /\ fc \in Stream /\ Len(fc) = W /\ Number(fc) = code
  BY <1>1, FieldType, NumberField
<1> PICK end : end = s \o rest
  OBVIOUS
<1> PICK mid : mid = fd \o end
  OBVIOUS
<1>3. end \in Stream /\ mid \in Stream /\ fc \o mid \in Stream
  BY <1>2, Joined
<1>4. TagRead(tag \o (fc \o mid), "SER_ERR") /\ tag \in Stream /\ Len(tag) = 1
  BY <1>3, TagOf DEF Types
<1>5. head \in Stream /\ Len(head) = 1 + W /\ heads \in Stream /\ Len(heads) = 1 + 2 * W
  <2>1. Len(tag \o fc) = Len(tag) + Len(fc) /\ tag \o fc \in Stream
    BY <1>2, <1>4, Joined
  <2>2. Len(head \o fd) = Len(head) + Len(fd) /\ head \o fd \in Stream
    BY <1>2, <2>1, Joined
  <2>3. Len(head) = 1 + W /\ Len(heads) = (1 + W) + W
    BY <1>2, <1>4, <2>1, <2>2
  <2>4. (1 + W) + W = 1 + 2 * W
    BY <1>1
  <2> QED
    BY <2>1, <2>2, <2>3, <2>4
<1>6. data = heads \o end /\ data = head \o mid /\ data = tag \o (fc \o mid)
  <2>1. Assoc(heads, s, rest)
    BY <1>5, Regroup
  <2>2. Assoc(head, fd, end)
    BY <1>2, <1>3, <1>5, Regroup
  <2>3. Assoc(tag, fc, mid)
    BY <1>2, <1>3, <1>4, Regroup
  <2> QED
    BY <2>1, <2>2, <2>3 DEF Assoc
<1>7. TagRead(data, "SER_ERR") /\ At(data, 1, W) = fc
  <2>1. Reads(tag, fc, mid)
    BY <1>2, <1>3, <1>4, ReadsBack
  <2> QED
    BY <1>2, <1>4, <1>6, <2>1 DEF Reads
<1>8. At(data, 1 + W, W) = fd
  <2>1. Reads(head, fd, end)
    BY <1>2, <1>3, <1>5, ReadsBack
  <2> QED
    BY <1>2, <1>5, <1>6, <2>1 DEF Reads
<1>9. At(data, 1 + 2 * W, n) = s /\ Len(data) = 1 + 2 * W + n + Len(rest)
  <2>1. Reads(heads, s, rest)
    BY <1>5, ReadsBack
  <2> QED
    BY <1>5, <2>1 DEF Reads
<1>10. OneValue(v) = bytes
  BY DEF OneValue, out_err, V
<1>11. bytes \in Stream /\ Len(bytes) = 1 + 2 * W + n
  <2>1. Len(heads \o s) = Len(heads) + Len(s) /\ heads \o s \in Stream
    BY <1>5, Joined
  <2> QED
    BY <1>5, <2>1
<1>12. \A f : FirstFrom(f, data) = Shows(data, Len(bytes), v)
  <2>1. Number(At(data, 1, W)) = code /\ Number(At(data, 1 + W, W)) = n
    BY <1>2, <1>7, <1>8
  <2>2. /\ Is(data, "SER_ERR") /\ ~Is(data, "SER_NIL") /\ ~Is(data, "SER_INT")
        /\ ~Is(data, "SER_STR") /\ ~Is(data, "SER_ARR")
    BY <1>7 DEF TagRead, Types
  <2>3. Len(data) >= 1 + 2 * W
    <3>1. Len(rest) \in Nat
      BY StreamLen
    <3> QED
      BY <1>1, <1>9, <3>1
  <2>4. \A f : FirstFrom(f, data) =
                 Shows(data, 1 + 2 * W + Number(At(data, 1 + W, W)),
                       V("SER_ERR", Number(At(data, 1, W)),
                         At(data, 1 + 2 * W, Number(At(data, 1 + W, W)))))
    BY <2>2, <2>3 DEF FirstFrom
  <2> QED
    BY <1>9, <1>11, <2>1, <2>4, Zenon
<1> QED
  BY <1>10, <1>11, <1>12, TellsWhen
-----------------------------------------------------------------------------
(* The values that are complete by themselves and that the client knows.   *)
Scalar(v) ==
  \/ v = Nil
  \/ \E n \in Int : v = Int64(n)
  \/ \E s \in Stream : v = String(s)
  \/ \E code \in Nat, s \in Stream : v = V("SER_ERR", code, s)

(* Any of them is read back. *)
LEMMA TellsScalar ==
  ASSUME NEW v, Scalar(v), NEW rest \in Stream
  PROVE  Tells(v, rest)
BY TellsNil, TellsInt, TellsString, TellsError DEF Scalar

(* They are values, and no scores. *)
LEMMA ScalarType ==
  ASSUME NEW v, Scalar(v)
  PROVE  v \in Value /\ v.type # "SER_DOUBLE"
<1>1. CASE v = Nil
  BY <1>1, NilValue DEF Nil, V
<1>2. ASSUME NEW n \in Int, v = Int64(n)
      PROVE  v \in Value /\ v.type # "SER_DOUBLE"
  BY <1>2, IntValue DEF Int64, V
<1>3. ASSUME NEW s \in Stream, v = String(s)
      PROVE  v \in Value /\ v.type # "SER_DOUBLE"
  BY <1>3, ValueIs DEF String, V, Types
<1>4. ASSUME NEW code \in Nat, NEW s \in Stream, v = V("SER_ERR", code, s)
      PROVE  v \in Value /\ v.type # "SER_DOUBLE"
  BY <1>4, ValueIs DEF V, Types
<1> QED
  BY <1>1, <1>2, <1>3, <1>4 DEF Scalar

(* The bytes of one more value in front.                                   *)
LEMMA BytesCons ==
  ASSUME NEW v \in Value, NEW vs \in Seq(Value)
  PROVE  /\ <<v>> \o vs \in Seq(Value) /\ Len(<<v>> \o vs) = Len(vs) + 1
         /\ Bytes(<<v>> \o vs) = OneValue(v) \o Bytes(vs)
<1> PICK all : all = <<v>> \o vs
  OBVIOUS
<1>1. /\ all \in Seq(Value) /\ Len(all) = Len(vs) + 1 /\ all[1] = v /\ Len(vs) \in Nat
      /\ \A i \in 1..Len(vs) : all[i + 1] = vs[i]
  <2> PICK one : one = <<v>>
    OBVIOUS
  <2>1. one \in Seq(Value) /\ Len(one) = 1 /\ one[1] = v
    BY OneIsSeq
  <2>2. Len(vs) \in Nat
    BY ValuesOf
  <2> HIDE DEF Value
  <2>3. /\ all \in Seq(Value) /\ Len(all) = 1 + Len(vs)
        /\ \A i \in 1..1 + Len(vs) : all[i] = IF i <= 1 THEN one[i] ELSE vs[i - 1]
    <3>1. all = one \o vs
      OBVIOUS
    <3> QED
      BY <2>1, <3>1, ConcatProperties
  <2>4. \A i \in 1..Len(vs) : all[i + 1] = vs[i]
    <3> TAKE i \in 1..Len(vs)
    <3>1. i + 1 \in 1..1 + Len(vs) /\ ~(i + 1 <= 1) /\ (i + 1) - 1 = i
      BY <2>2
    <3> QED
      BY <2>3, <3>1
  <2>5. all[1] = v
    BY <2>1, <2>2, <2>3
  <2> QED
    BY <2>2, <2>3, <2>4, <2>5
<1> PICK g : g = [i \in 1..Len(all) |-> OneValue(all[i])]
  OBVIOUS
<1> PICK h : h = [i \in 1..Len(vs) |-> OneValue(vs[i])]
  OBVIOUS
<1>2. g \in Seq(Seq(Cell)) /\ h \in Seq(Seq(Cell)) /\ Bytes(all) = FlattenSeq(g) /\ Bytes(vs) = FlattenSeq(h)
  BY <1>1, ValuesOf
<1>3. Len(g) = Len(all) /\ Len(h) = Len(vs) /\ g[1] = OneValue(v)
      /\ \A i \in 1..Len(g) - 1 : h[i] = g[i + 1]
  <2>1. Len(g) = Len(all) /\ Len(h) = Len(vs)
    BY <1>1
  <2>2. 1 \in 1..Len(all)
    BY <1>1
  <2>3. \A i \in 1..Len(vs) : h[i] = g[i + 1]
    <3> TAKE i \in 1..Len(vs)
    <3>1. i + 1 \in 1..Len(all)
      BY <1>1
    <3> QED
      BY <1>1, <3>1
  <2>4. Len(g) - 1 = Len(vs)
    BY <1>1, <2>1
  <2> QED
    BY <1>1, <2>1, <2>2, <2>3, <2>4
<1>4. g # <<>> /\ h = Tail(g)
  <2>1. Len(g) \in Nat /\ Len(g) >= 1 /\ Len(h) = Len(g) - 1
    BY <1>1, <1>3
  <2>2. Drops(Seq(Cell), h, g)
    BY <1>2, <1>3, <2>1 DEF Drops
  <2>3. h = Tail(g)
    BY <1>2, <2>2, DropsTail
  <2>4. g # <<>>
    <3>1. Len(<<>>) = 0 /\ Len(g) # 0
      BY <2>1
    <3> QED
      BY <3>1, Zenon
  <2> QED
    BY <2>3, <2>4
<1>5. FlattenSeq(g) = g[1] \o FlattenSeq(Tail(g))
  BY <1>2, <1>4, FlattenCons
<1> QED
  BY <1>1, <1>2, <1>3, <1>4, <1>5
-----------------------------------------------------------------------------
(* on_response counts the values of a list off.                            *)
Understood(vs) == Responses[Bytes(vs)][Len(vs)] = [used |-> Len(Bytes(vs)), prints |-> vs]

(* on_response called no more. *)
LEMMA NoMore ==
  ASSUME NEW data \in Stream
  PROVE  Responses[data][0] = [used |-> 0, prints |-> <<>>]
<1>1. Responses[data] = ResponsesFrom(Responses, data)
  BY ResponsesIs
<1>2. 0 \in Nat
  OBVIOUS
<1> QED
  BY <1>1, <1>2 DEF ResponsesFrom

(* ... and once more. *)
LEMMA OneMore ==
  ASSUME NEW data \in Stream, NEW n \in Nat, NEW first, FirstFrom(Responses, data) = first
  PROVE  Responses[data][n + 1] = Then(first, Responses[Left(data, first.used)][n])
<1>1. Responses[data] = ResponsesFrom(Responses, data)
  BY ResponsesIs
<1>2. n + 1 \in Nat /\ n + 1 # 0 /\ (n + 1) - 1 = n
  OBVIOUS
<1>3. ResponsesFrom(Responses, data)[n + 1] =
        Then(first, Responses[Left(data, first.used)][(n + 1) - 1])
  BY <1>2 DEF ResponsesFrom
<1> QED
  BY <1>1, <1>2, <1>3

(* A value in front of a list that is understood. *)
LEMMA UnderstoodMore ==
  ASSUME NEW v, Scalar(v), NEW vs \in Seq(Value), Understood(vs)
  PROVE  Understood(<<v>> \o vs)
<1> PICK rest : rest = Bytes(vs)
  OBVIOUS
<1> PICK bytes : bytes = OneValue(v)
  OBVIOUS
<1> PICK data : data = bytes \o rest
  OBVIOUS
<1> PICK n : n = Len(vs)
  OBVIOUS
<1> PICK all : all = <<v>> \o vs
  OBVIOUS
<1>1. v \in Value /\ rest \in Stream /\ bytes \in Stream /\ n \in Nat
  BY ScalarType, BytesType, OneValueType, ValuesOf
<1>2. Bytes(all) = data /\ Len(all) = n + 1
  BY <1>1, BytesCons
<1> PICK l : l = Len(bytes)
  OBVIOUS
<1> PICK m : m = Len(rest)
  OBVIOUS
<1>3. data \in Stream /\ Len(data) = l + m /\ l \in Nat /\ m \in Nat
  BY <1>1, Joined, StreamLen
<1>4. Tells(v, rest)
  BY <1>1, TellsScalar
<1> PICK first : first = [used |-> l, prints |-> <<v>>]
  OBVIOUS
<1>5. FirstFrom(Responses, data) = first /\ Left(data, l) = rest
  BY <1>4, Zenon DEF Tells
<1>6. first.used = l /\ first.prints = <<v>> /\ ~(l < 0) /\ ~(m < 0)
  BY <1>3
<1>7. Responses[data][n + 1] = Then(first, Responses[rest][n])
  <2>1. Responses[data][n + 1] = Then(first, Responses[Left(data, first.used)][n])
    <3>1. data \in Stream /\ n \in Nat /\ FirstFrom(Responses, data) = first
      BY <1>1, <1>3, <1>5
    <3> HIDE DEF Stream
    <3> QED
      BY <3>1, OneMore, Zenon
  <2> QED
    BY <1>5, <1>6, <2>1
<1> PICK second : second = [used |-> m, prints |-> vs]
  OBVIOUS
<1>8. Responses[rest][n] = second
  BY DEF Understood
<1>9. Then(first, second) = [used |-> l + m, prints |-> all]
  <2>1. second.used = m /\ second.prints = vs
    OBVIOUS
  <2> QED
    BY <1>6, <2>1 DEF Then
<1> QED
  BY <1>2, <1>3, <1>7, <1>8, <1>9 DEF Understood

(* So any list is: by the shortest that is not. *)
LEMMA UnderstoodAll ==
  ASSUME NEW vs \in Seq(Value), \A i \in 1..Len(vs) : Scalar(vs[i])
  PROVE  Understood(vs)
<1> HIDE DEF Value
<1> DEFINE Bad(s) == (\A i \in 1..Len(s) : Scalar(s[i])) /\ ~Understood(s)
           T == {k \in Nat : \E s \in Seq(Value) : Len(s) = k /\ Bad(s)}
<1> SUFFICES ASSUME Bad(vs)
             PROVE  FALSE
  OBVIOUS
<1>1. Len(vs) \in T
  <2>1. Len(vs) \in Nat
    OBVIOUS
  <2> HIDE DEF Bad
  <2> QED
    BY <2>1
<1>2. PICK k \in T : \A j \in T : k <= j
  <2> HIDE DEF Bad
  <2> QED
    BY <1>1, LeastNat
<1>3. PICK s \in Seq(Value) : Len(s) = k /\ Bad(s)
  <2> HIDE DEF Bad
  <2> QED
    BY <1>2
<1>4. CASE s = <<>>
  <2>1. Bytes(<<>>) = <<>>
    <3>1. Len(<<>>) = 0 /\ [i \in 1..0 |-> OneValue(<<>>[i])] = <<>>
      OBVIOUS
    <3>2. <<>> \in Seq(Value)
      OBVIOUS
    <3> PICK e : e = <<>>
      OBVIOUS
    <3>3. Bytes(e) = FlattenSeq([i \in 1..Len(e) |-> OneValue(e[i])])
      BY <3>2, ValuesOf
    <3>4. Len(e) = 0 /\ [i \in 1..Len(e) |-> OneValue(e[i])] = <<>>
      BY <3>1
    <3> QED
      BY <3>3, <3>4, FlattenEmpty
  <2>2. Responses[<<>>][0] = [used |-> 0, prints |-> <<>>]
    BY EmptyStream, NoMore
  <2>3. Len(<<>>) = 0
    OBVIOUS
  <2>4. Understood(<<>>)
    BY <2>1, <2>2, <2>3, Zenon DEF Understood
  <2> QED
    BY <1>3, <1>4, <2>4, Zenon
<1>5. CASE s # <<>>
  <2> PICK t : t = Tail(s)
    OBVIOUS
  <2>1. Drops(Value, t, s)
    BY <1>5, TailDrops
  <2>2. /\ t \in Seq(Value) /\ Len(t) = k - 1 /\ k \in Nat /\ k >= 1
        /\ \A i \in 1..k - 1 : t[i] = s[i + 1]
    BY <1>3, <2>1 DEF Drops
  <2>3. Len(t) \notin T
    <3>1. Len(t) \in Nat /\ ~(k <= Len(t))
      BY <2>2
    <3> HIDE DEF T
    <3> QED
      BY <1>2, <3>1
  <2>4. ~Bad(t)
    <3>1. Len(t) \in Nat
      BY <2>2
    <3> HIDE DEF Bad
    <3> QED
      BY <2>2, <2>3, <3>1
  <2>5. \A i \in 1..Len(t) : Scalar(t[i])
    <3> TAKE i \in 1..Len(t)
    <3>1. i \in 1..k - 1 /\ i + 1 \in 1..Len(s)
      BY <1>3, <2>2
    <3> QED
      BY <1>3, <2>2, <3>1
  <2>6. Understood(t)
    BY <2>4, <2>5
  <2>7. Scalar(s[1])
    <3>1. 1 \in 1..Len(s)
      BY <1>3, <2>2
    <3> QED
      BY <1>3, <3>1
  <2>8. s = <<s[1]>> \o t
    BY <1>5, HeadTailProperties
  <2>9. Understood(<<s[1]>> \o t)
    BY <2>2, <2>6, <2>7, UnderstoodMore
  <2> QED
    BY <1>3, <2>8, <2>9
<1> QED
  BY <1>4, <1>5
-----------------------------------------------------------------------------
(* The replies there are: one value, a score, or an array and its values.  *)
Reply(out) ==
  \/ \E v : Scalar(v) /\ out = <<v>>
  \/ out = <<Double("score")>>
  \/ \E vs \in Seq(Value) :
       /\ \A i \in 1..Len(vs) : Scalar(vs[i])
       /\ out = <<Array(Len(vs))>> \o vs

HasScore(out) == \E i \in 1..Len(out) : out[i].type = "SER_DOUBLE"

(* A value and nothing after it.                                           *)
LEMMA LastResponse ==
  ASSUME NEW data \in Stream, data # <<>>, NEW u \in Nat, u >= 1, NEW p \in Seq(Value),
         FirstFrom(Responses, data) = [used |-> u, prints |-> p]
  PROVE  on_response(data) = [used |-> u, prints |-> p]
<1> HIDE DEF Value, Stream
<1> PICK first : first = [used |-> u, prints |-> p]
  OBVIOUS
<1> PICK none : none = [used |-> 0, prints |-> <<>>]
  OBVIOUS
<1>1. 0 \in Nat /\ 0 + 1 = 1 /\ u \in Int /\ u + 0 = u /\ ~(u < 0)
  OBVIOUS
<1>2. Responses[data][0 + 1] = Then(first, Responses[Left(data, first.used)][0])
  BY <1>1, OneMore, Zenon
<1>3. first.used = u /\ first.prints = p /\ none.used = 0 /\ none.prints = <<>>
  OBVIOUS
<1>4. Left(data, u) \in Stream
  BY <1>1, LeftType
<1>5. Responses[Left(data, u)][0] = none
  BY <1>4, NoMore
<1>6. p \o <<>> = p
  BY ConcatEmptySeq
<1>7. Then(first, none) = [used |-> u + 0, prints |-> p \o <<>>]
  BY <1>1, <1>3 DEF Then
<1> QED
  BY <1>1, <1>2, <1>3, <1>5, <1>6, <1>7 DEF on_response

(* A reply of one value is read back, ... *)
LEMMA ReadsScalar ==
  ASSUME NEW v, Scalar(v)
  PROVE  /\ on_response(Bytes(<<v>>)) = [used |-> Len(Bytes(<<v>>)), prints |-> <<v>>]
         /\ Len(Bytes(<<v>>)) >= 1 /\ ~HasScore(<<v>>)
<1> PICK data : data = OneValue(v)
  OBVIOUS
<1> PICK n : n = Len(data)
  OBVIOUS
<1>1. v \in Value /\ v.type # "SER_DOUBLE" /\ data \in Stream /\ Bytes(<<v>>) = data /\ n \in Nat
  BY ScalarType, OneValueType, BytesOne, StreamLen
<1>2. data \o <<>> = data
  BY <1>1, ConcatEmptySeq DEF Stream
<1>3. FirstFrom(Responses, data) = [used |-> n, prints |-> <<v>>]
  BY <1>2, EmptyStream, TellsScalar, Zenon DEF Tells
<1>4. n >= 1
  <2>1. Sound(FirstFrom(Responses, data))
    BY <1>1, ResponsesIs, FirstFromType
  <2>2. FirstFrom(Responses, data).used = n
    BY <1>3
  <2> QED
    BY <1>1, <2>1, <2>2 DEF Sound
<1>5. data # <<>>
  <2>1. Len(<<>>) = 0 /\ n # 0
    BY <1>1, <1>4
  <2> QED
    BY <2>1, Zenon
<1>6. <<v>> \in Seq(Value)
  BY <1>1, OneIsSeq
<1>7. on_response(data) = [used |-> n, prints |-> <<v>>]
  BY <1>1, <1>3, <1>4, <1>5, <1>6, LastResponse
<1>8. ~HasScore(<<v>>)
  BY <1>1 DEF HasScore
<1> QED
  BY <1>1, <1>4, <1>7, <1>8

(* ... a score is not, client.cpp lacking its type, ... *)
LEMMA ReadsScore ==
  LET out == <<Double("score")>>
  IN on_response(Bytes(out)) = Failed /\ HasScore(out) /\ out \in Seq(Value)
<1> PICK v : v = Double("score")
  OBVIOUS
<1> PICK data : data = OneValue(v)
  OBVIOUS
<1>1. v \in Value /\ data \in Stream /\ Bytes(<<v>>) = data /\ v.type = "SER_DOUBLE"
  BY DoubleValue, OneValueType, BytesOne DEF Double, V
<1>2. data = Type("SER_DOUBLE") \o htobe64(v.data) /\ htobe64(v.data) \in Stream
  <2>1. v.data \in Stream
    BY <1>1 DEF Value
  <2> QED
    BY <1>1, <2>1, ReverseType DEF OneValue, out_dbl, htobe64
<1>3. TagRead(data, "SER_DOUBLE")
  BY <1>2, TagOf DEF Types
<1>4. FirstFrom(Responses, data) = Failed
  BY <1>3 DEF FirstFrom, TagRead, Types
<1>5. on_response(data) = Failed
  <2>1. 0 \in Nat /\ 0 + 1 = 1
    OBVIOUS
  <2>2. Responses[data][0 + 1] = Then(Failed, Responses[Left(data, Failed.used)][0])
    BY <1>1, <1>4, <2>1, OneMore, Zenon
  <2>3. Then(Failed, Responses[Left(data, Failed.used)][0]) = Failed
    BY FailedIs DEF Then
  <2> QED
    BY <2>1, <2>2, <2>3 DEF on_response
<1>6. HasScore(<<v>>)
  BY <1>1 DEF HasScore
<1>7. <<v>> \in Seq(Value)
  BY <1>1, OneIsSeq
<1> QED
  BY <1>1, <1>5, <1>6, <1>7

(* ... and an array is, with all its values. *)
LEMMA ReadsArray ==
  ASSUME NEW vs \in Seq(Value), \A i \in 1..Len(vs) : Scalar(vs[i]),
         NEW out, out = <<Array(Len(vs))>> \o vs
  PROVE  /\ on_response(Bytes(out)) = [used |-> Len(Bytes(out)), prints |-> out]
         /\ Len(Bytes(out)) >= 1 /\ ~HasScore(out) /\ out \in Seq(Value)
<1> PICK n : n = Len(vs)
  OBVIOUS
<1> PICK v : v = Array(n)
  OBVIOUS
<1> PICK rest : rest = Bytes(vs)
  OBVIOUS
<1> PICK tag : tag = Type("SER_ARR")
  OBVIOUS
<1> PICK fd : fd = Field(n)
  OBVIOUS
<1> PICK bytes : bytes = tag \o fd
  OBVIOUS
<1> PICK data : data = bytes \o rest
  OBVIOUS
<1> PICK m : m = Len(rest)
  OBVIOUS
<1> PICK h : h = 1 + W
  OBVIOUS
<1>1. /\ n \in Nat /\ n \in Int /\ rest \in Stream /\ m \in Nat /\ W \in Nat
      /\ h \in Nat /\ h >= 1 /\ h \in Int
  BY ValuesOf, BytesType, WireSizes
<1>2. v \in Value
  BY <1>1, ArrayValue
<1>3. out \in Seq(Value) /\ Bytes(out) = OneValue(v) \o rest /\ OneValue(v) = bytes
      /\ Len(out) = n + 1
  <2>1. OneValue(v) = bytes
    BY DEF OneValue, out_arr, Array, V
  <2> QED
    BY <1>2, <2>1, BytesCons
<1>4. fd \in Stream /\ Len(fd) = W /\ Number(fd) = n
  BY <1>1, FieldType, NumberField
<1>5. TagRead(tag \o (fd \o rest), "SER_ARR") /\ tag \in Stream /\ Len(tag) = 1
  <2>1. fd \o rest \in Stream
    BY <1>1, <1>4, Joined
  <2> QED
    BY <2>1, TagOf DEF Types
<1>6. Reads(tag, fd, rest) /\ Assoc(tag, fd, rest)
  BY <1>1, <1>4, <1>5, ReadsBack, Regroup
<1>7. /\ TagRead(data, "SER_ARR") /\ At(data, 1, W) = fd /\ data \in Stream
      /\ Len(data) = h + m /\ Left(data, h) = rest
  BY <1>4, <1>5, <1>6 DEF Assoc, Reads, Left
<1> PICK first : first = [used |-> h, prints |-> <<v>>]
  OBVIOUS
<1> PICK second : second = [used |-> m, prints |-> vs]
  OBVIOUS
<1>8. FirstFrom(Responses, data) = Then(first, second)
  <2>1. /\ Is(data, "SER_ARR") /\ ~Is(data, "SER_NIL") /\ ~Is(data, "SER_INT")
        /\ ~Is(data, "SER_ERR") /\ ~Is(data, "SER_STR")
    BY <1>7 DEF TagRead, Types
  <2>2. Len(data) >= h /\ ~(Len(data) < h)
    BY <1>1, <1>7
  <2>3. Number(At(data, 1, W)) = n
    BY <1>4, <1>7
  <2>4. FirstFrom(Responses, data) =
          Then(Shows(data, 1 + W, Array(Number(At(data, 1, W)))),
               Responses[Left(data, 1 + W)][Number(At(data, 1, W))])
    BY <2>1, <2>2 DEF FirstFrom
  <2>5. Shows(data, h, v) = first
    BY <2>2 DEF Shows
  <2>6. Responses[rest][n] = second
    BY UnderstoodAll DEF Understood
  <2> QED
    BY <1>7, <2>3, <2>4, <2>5, <2>6, Zenon
<1>9. Then(first, second) = [used |-> h + m, prints |-> out]
  <2>1. first.used = h /\ first.prints = <<v>> /\ second.used = m /\ second.prints = vs
        /\ ~(h < 0) /\ ~(m < 0)
    BY <1>1
  <2> QED
    BY <2>1 DEF Then
<1> PICK u : u = h + m
  OBVIOUS
<1>10. u \in Nat /\ u >= 1
  BY <1>1
<1>11. data # <<>>
  <2>1. Len(<<>>) = 0 /\ Len(data) # 0
    BY <1>7, <1>10
  <2> QED
    BY <2>1, Zenon
<1>12. on_response(data) = [used |-> u, prints |-> out]
  <2>1. FirstFrom(Responses, data) = [used |-> u, prints |-> out]
    BY <1>8, <1>9, Zenon
  <2>2. data \in Stream /\ out \in Seq(Value)
    BY <1>3, <1>7
  <2> QED
    BY <2>1, <2>2, <1>10, <1>11, LastResponse
<1>13. ~HasScore(out)
  <2>1. /\ out[1] = v /\ \A i \in 1..n : out[i + 1] = vs[i]
    <3> PICK one : one = <<v>>
      OBVIOUS
    <3>1. one \in Seq(Value) /\ Len(one) = 1 /\ one[1] = v
      BY <1>2, OneIsSeq
    <3> HIDE DEF Value
    <3>2. \A i \in 1..1 + n : out[i] = IF i <= 1 THEN one[i] ELSE vs[i - 1]
      <4>1. out = one \o vs
        OBVIOUS
      <4> QED
        BY <1>1, <3>1, <4>1, ConcatProperties
    <3>3. \A i \in 1..n : out[i + 1] = vs[i]
      <4> TAKE i \in 1..n
      <4>1. i + 1 \in 1..1 + n /\ ~(i + 1 <= 1) /\ (i + 1) - 1 = i
        BY <1>1
      <4> QED
        BY <3>2, <4>1
    <3>4. out[1] = v
      BY <1>1, <3>1, <3>2
    <3> QED
      BY <3>3, <3>4
  <2>2. v.type # "SER_DOUBLE"
    BY DEF Array, V
  <2>3. ASSUME NEW i \in 1..Len(out)
        PROVE  out[i].type # "SER_DOUBLE"
    <3>1. CASE i = 1
      BY <2>1, <2>2, <3>1
    <3>2. CASE i # 1
      <4> PICK j : j = i - 1
        OBVIOUS
      <4>1. j \in 1..n /\ i = j + 1
        BY <1>1, <1>3, <3>2
      <4>2. out[i] = vs[j] /\ Scalar(vs[j])
        BY <2>1, <4>1
      <4> QED
        BY <4>2, ScalarType
    <3> QED
      BY <3>1, <3>2
  <2> QED
    BY <2>3 DEF HasScore
<1> QED
  BY <1>3, <1>7, <1>10, <1>12, <1>13
-----------------------------------------------------------------------------
(* What do_request says with RES_OK, ZQUERY aside, is such a reply.        *)
Replies(S) == \A reply \in S : reply.err = RES_OK => Reply(reply.out)

(* The values do_request says are of these. *)
LEMMA ScalarIs ==
  /\ Scalar(Nil) /\ \A n \in Int : Scalar(Int64(n))
  /\ \A w : IsWord(w) => Scalar(String(Str(w)))
  /\ \A code \in Nat : \A w : IsWord(w) => Scalar(Error(code, w))
<1>1. Scalar(Nil) /\ \A n \in Int : Scalar(Int64(n))
  BY DEF Scalar
<1>2. \A w : IsWord(w) => Scalar(String(Str(w)))
  BY StrType DEF Scalar
<1>3. \A code \in Nat : \A w : IsWord(w) => Scalar(Error(code, w))
  BY StrType DEF Scalar, Error
<1> QED
  BY <1>1, <1>2, <1>3

(* A number is a reply, ... *)
LEMMA IntsReply ==
  ASSUME NEW T \in SUBSET Int
  PROVE  Replies(Ints(T))
<1> SUFFICES ASSUME NEW n \in T
             PROVE  Reply(Says(RES_OK, <<Int64(n)>>).out)
  BY DEF Replies, Ints
<1>1. Scalar(Int64(n))
  BY ScalarIs
<1> QED
  BY <1>1, SaysOut DEF Reply

(* ... what is refused need not be one, ... *)
LEMMA RefusalsReply ==
  ASSUME NEW S, NoneOk(S)
  PROVE  Replies(S)
BY DEF NoneOk, Replies

(* ... and so are what GET has found, ... *)
LEMMA GetReply == Replies(do_get)
<1> SUFFICES ASSUME NEW reply \in do_get, reply.err = RES_OK
             PROVE  Reply(reply.out)
  BY DEF Replies
<1>1. reply # Says(RES_NX, <<Int64(RES_NX)>>)
  BY SaysOut DEF RES_NX, RES_OK
<1>2. PICK w \in Values : reply = Says(RES_OK, <<String(Str(w))>>)
  BY <1>1 DEF do_get
<1>3. IsWord(w)
  BY WireAssumption, Zenon
<1>4. Scalar(String(Str(w))) /\ reply.out = <<String(Str(w))>>
  BY <1>2, <1>3, ScalarIs, SaysOut
<1> QED
  BY <1>4 DEF Reply

(* ... the array KEYS gives ... *)
LEMMA KeysReply == Replies(do_keys)
<1> SUFFICES ASSUME NEW l \in Listings
             PROVE  Reply(Says(RES_OK, <<Array(Len(l))>> \o
                                 [i \in 1..Len(l) |-> String(Str(l[i]))]).out)
  BY DEF Replies, do_keys
<1> PICK vs : vs = [i \in 1..Len(l) |-> String(Str(l[i]))]
  OBVIOUS
<1>1. IsText(l)
  BY WireAssumption, Zenon
<1> PICK n : n = Len(l)
  OBVIOUS
<1>2. n \in Nat /\ \A i \in 1..n : IsWord(l[i])
  BY <1>1 DEF IsText
<1>3. \A i \in 1..n : vs[i] \in Value /\ Scalar(vs[i])
  BY <1>2, StringValue, ScalarIs
<1>4. vs \in Seq(Value) /\ Len(vs) = n
  <2> HIDE DEF Value
  <2>1. vs \in [1..n -> Value]
    BY <1>3
  <2> QED
    BY <1>2, <2>1, FunctionSeq
<1>5. Reply(<<Array(Len(vs))>> \o vs)
  BY <1>3, <1>4 DEF Reply
<1> QED
  BY <1>4, <1>5, SaysOut

(* ... and what ZSCORE says. *)
LEMMA ScoreReply ==
  ASSUME NEW cmd, Len(cmd) = 3
  PROVE  Replies(do_zscore(cmd))
<1> SUFFICES ASSUME NEW reply \in {Says(RES_NX, <<Nil>>), Says(RES_OK, <<Double("score")>>)},
                    reply.err = RES_OK
             PROVE  Reply(reply.out)
  BY DEF Replies, do_zscore
<1>1. reply # Says(RES_NX, <<Nil>>)
  BY SaysOut DEF RES_NX, RES_OK
<1> QED
  BY <1>1, SaysOut DEF Reply

(* Every answer to fewer than 6 words, ZQUERY's number, is a reply. *)
LEMMA ReplyShapes ==
  ASSUME NEW words, IsText(words), Len(words) < 6
  PROVE  Replies(do_request(Strs(words)))
<1>1. do_request(Strs(words)) = ReplyTo(words)
  BY RequestByName
<1> PICK n : n = Len(words)
  OBVIOUS
<1>2. n \in Nat /\ n # 6
  <2>1. Len(words) \in Nat
    BY DEF IsText
  <2> QED
    BY <2>1
<1>3. TimeLeft \subseteq Int
  BY WireAssumption, Zenon
<1>4. /\ Replies(do_set) /\ Replies(do_del) /\ Replies(do_ttl) /\ Replies(Ints({0, 1}))
      /\ Replies(Ints({0})) /\ Replies({})
  <2>1. {RES_OK} \in SUBSET Int /\ {0, 1} \in SUBSET Int /\ {-2, -1} \cup TimeLeft \in SUBSET Int
        /\ {0} \in SUBSET Int
    BY <1>3 DEF RES_OK
  <2>2. Replies({})
    BY DEF Replies
  <2> QED
    BY <2>1, <2>2, IntsReply DEF do_set, do_del, do_ttl
<1>5. \A w : Replies(Usage(w))
  BY Verdicts, RefusalsReply
<1> PICK s : s = Strs(words)
  OBVIOUS
<1>6. Replies(do_zadd(s)) /\ Replies(do_zrem(s)) /\ Replies(do_zscore(s)) /\ Replies(do_query(s))
      /\ Replies(do_expire(s))
  <2>1. Len(s) = n
    BY StrsType DEF IsText
  <2>2. Replies(do_zscore(s))
    <3>1. n = 3 => Replies(do_zscore(s))
      BY <2>1, ScoreReply
    <3> QED
      BY <1>5, <2>1, <3>1 DEF do_zscore
  <2>3. Replies(do_zadd(s)) /\ Replies(do_zrem(s)) /\ Replies(do_expire(s))
    BY <1>4, <1>5 DEF do_zadd, do_zrem, do_expire
  <2>4. Replies(do_query(s))
    BY <1>2, <1>5, <2>1, Zenon DEF do_query
  <2> QED
    BY <2>2, <2>3, <2>4
<1>7. Replies({Says(RES_ERR, <<>>)})
  BY Verdicts, RefusalsReply
<1> QED
  BY <1>1, <1>4, <1>6, <1>7, GetReply, KeysReply DEF ReplyTo
-----------------------------------------------------------------------------
(* A reply is bytes the client takes, and prints as what was said.         *)
LEMMA ReplyRead ==
  ASSUME NEW out, Reply(out)
  PROVE  /\ out \in Seq(Value)
         /\ Len(Bytes(out)) <= k_max_msg =>
              read_resp(Bytes(out)) =
                IF HasScore(out) THEN Failed ELSE [used |-> Len(Bytes(out)), prints |-> out]
<1>1. ASSUME NEW v, Scalar(v), out = <<v>>
      PROVE  /\ on_response(Bytes(out)) = [used |-> Len(Bytes(out)), prints |-> out]
             /\ ~HasScore(out) /\ Len(Bytes(out)) >= 1 /\ out \in Seq(Value)
  <2>1. v \in Value
    BY <1>1, ScalarType
  <2>2. out \in Seq(Value)
    BY <1>1, <2>1, OneIsSeq
  <2> QED
    BY <1>1, <2>2, ReadsScalar
<1>2. ASSUME out = <<Double("score")>>
      PROVE  on_response(Bytes(out)) = Failed /\ HasScore(out) /\ out \in Seq(Value)
  BY <1>2, ReadsScore
<1>3. ASSUME NEW vs \in Seq(Value), \A i \in 1..Len(vs) : Scalar(vs[i]),
             out = <<Array(Len(vs))>> \o vs
      PROVE  /\ on_response(Bytes(out)) = [used |-> Len(Bytes(out)), prints |-> out]
             /\ ~HasScore(out) /\ Len(Bytes(out)) >= 1 /\ out \in Seq(Value)
  BY <1>3, ReadsArray
<1>4. \/ /\ on_response(Bytes(out)) = [used |-> Len(Bytes(out)), prints |-> out]
         /\ ~HasScore(out) /\ Len(Bytes(out)) >= 1 /\ out \in Seq(Value)
      \/ on_response(Bytes(out)) = Failed /\ HasScore(out) /\ out \in Seq(Value)
  BY <1>1, <1>2, <1>3, Zenon DEF Reply
<1>5. ASSUME Len(Bytes(out)) <= k_max_msg, Len(Bytes(out)) >= 1, out \in Seq(Value)
      PROVE  Len(Bytes(out)) \in 1..k_max_msg
  <2>1. Len(Bytes(out)) \in Nat /\ k_max_msg \in Nat
    BY <1>5, BytesType, WireSizes
  <2> QED
    BY <1>5, <2>1
<1> QED
  BY <1>4, <1>5, Zenon DEF read_resp
-----------------------------------------------------------------------------
(* The replies given are such replies, and no longer than a message.       *)
Legible(out) == Reply(out) /\ Len(Bytes(out)) <= k_max_msg
AllReadable == \A r \in 1..Len(answers) : Legible(answers[r])

(* It stays one, and short enough, when it is replaced for being too big. *)
LEMMA BoundedReadable ==
  ASSUME NEW out \in Seq(Value), Reply(out)
  PROVE  Legible(Bounded(out))
<1> PICK b : b = Bounded(out)
  OBVIOUS
<1>1. b \in Seq(Value) /\ Len(Frame(b)) \in W..k_max_msg
  BY BoundedType
<1>2. Len(Bytes(b)) \in Nat /\ Len(Frame(b)) = W + Len(Bytes(b)) /\ W \in Nat /\ k_max_msg \in Nat
  BY <1>1, BytesType, WireSizes
<1>3. Len(Bytes(b)) <= k_max_msg
  <2> PICK n : n = Len(Bytes(b))
    OBVIOUS
  <2>1. n \in Nat /\ W + n <= k_max_msg
    BY <1>1, <1>2
  <2> QED
    BY <1>2, <2>1
<1>4. Reply(b)
  <2> PICK w : w = "response is too big"
    OBVIOUS
  <2>1. IsWord(w)
    BY WireAssumption, Zenon
  <2>2. Scalar(Error(ERR_2BIG, w))
    BY <2>1, ErrorCodes, ScalarIs
  <2>3. b = out \/ b = <<Error(ERR_2BIG, w)>>
    BY DEF Bounded
  <2> QED
    BY <2>2, <2>3 DEF Reply
<1> QED
  BY <1>3, <1>4 DEF Legible

(* What Answer adds is such a reply. *)
LEMMA AnswerReadable ==
  ASSUME k_max_args < 6
  PROVE  Inv /\ Answer =>
           \E out : Legible(out) /\ answers' = Append(answers, out) /\ out \in Seq(Value)
<1> SUFFICES ASSUME Inv, Answer
             PROVE  \E out : Legible(out) /\ answers' = Append(answers, out) /\ out \in Seq(Value)
  OBVIOUS
<1>0. PICK cmd \in Parsed : \E reply \in do_request(cmd) :
        reply.err = RES_OK /\ answers' = Append(answers, Bounded(reply.out))
  BY Zenon DEF Answer
<1>1. PICK reply \in do_request(cmd) :
        reply.err = RES_OK /\ answers' = Append(answers, Bounded(reply.out))
  BY <1>0
<1> PICK words : words = AtHand
  OBVIOUS
<1>2. Complete /\ Len(rbuf) >= W /\ Typed /\ InStream
  BY Zenon DEF Answer, Complete, Inv
<1>3. IsText(words) /\ Parsed = {Strs(words)}
  <2>1. ~TooLong /\ Parsed # {}
    BY <1>0, Zenon DEF Answer
  <2> QED
    BY <1>2, <2>1, ParsedWhole
<1>4. cmd = Strs(words)
  BY <1>0, <1>3
<1>5. Len(words) < 6
  <2>1. Whole(words)
    BY AnswerForCause
  <2>2. Len(words) <= k_max_args /\ Len(words) \in Nat /\ k_max_args \in Nat
    BY <1>3, <2>1, WireSizes DEF Whole, IsText
  <2> QED
    BY <2>2
<1>6. Reply(reply.out)
  BY <1>1, <1>3, <1>4, <1>5, ReplyShapes DEF Replies
<1>7. reply.out \in Seq(Value)
  BY <1>6, ReplyRead
<1>8. Legible(Bounded(reply.out)) /\ Bounded(reply.out) \in Seq(Value)
  BY <1>6, <1>7, BoundedReadable, BoundedType
<1> QED
  BY <1>1, <1>8

(* No other step adds any. *)
LEMMA ReadableStep ==
  ASSUME k_max_args < 6
  PROVE  Inv /\ AllReadable /\ [Next]_vars => AllReadable'
<1> SUFFICES ASSUME Inv, AllReadable, [Next]_vars
             PROVE  AllReadable'
  OBVIOUS
<1>1. answers \in Seq(Seq(Value)) /\ Len(answers) \in Nat
  BY DEF Inv, Typed, TypeOK
<1>2. CASE Answer
  <2>1. PICK out \in Seq(Value) : Legible(out) /\ answers' = Append(answers, out)
    BY <1>2, AnswerReadable
  <2>2. Extends(Seq(Value), answers', answers, out)
    BY <1>1, <2>1, AppendExtends
  <2>3. /\ Len(answers') = Len(answers) + 1 /\ answers'[Len(answers) + 1] = out
        /\ \A i \in 1..Len(answers) : answers'[i] = answers[i]
    BY <2>2 DEF Extends
  <2>4. ASSUME NEW r \in 1..Len(answers')
        PROVE  Legible(answers'[r])
    <3>1. r \in 1..Len(answers) \/ r = Len(answers) + 1
      BY <1>1, <2>3
    <3> QED
      BY <2>1, <2>3, <3>1 DEF AllReadable
  <2> QED
    BY <2>4 DEF AllReadable
<1>3. CASE ~Answer
  <2>1. UNCHANGED answers
    BY <1>3 DEF Next, Serves, connection_io, Read, ReadNothing, ReadFails, NeedMore, Refuse, Write,
                WriteNothing, WriteToNobody, Close, Crash, Send, Deliver, Receive, Hangup, vars, conn
  <2> QED
    BY <2>1 DEF AllReadable
<1> QED
  BY <1>2, <1>3

(* The frames received are the replies, in order.                          *)
LEMMA FramesAreReplies ==
  ASSUME Inv, NEW r \in 1..Len(Frames[got])
  PROVE  r \in 1..Len(answers) /\ Frames[got][r] = Bytes(answers[r])
<1>1. /\ answers \in Seq(Seq(Value)) /\ got \in Stream /\ outq \in Stream
      /\ Len(answers) \in Nat
  BY DEF Inv, Typed, TypeOK, Stream
<1>2. PICK rest \in Stream : got \o outq \o rest = FlattenSeq(Given(answers))
  BY DEF Inv, OutStream
<1> PICK t : t = outq \o rest
  OBVIOUS
<1> PICK ss : ss = Given(answers)
  OBVIOUS
<1>3. t \in Stream /\ got \o t = FlattenSeq(ss)
  <2>1. Assoc(got, outq, rest)
    BY <1>1, <1>2, Regroup
  <2> QED
    BY <1>1, <1>2, <2>1, Joined DEF Assoc
<1>4. Framed(ss) /\ Len(ss) = Len(answers)
      /\ \A i \in 1..Len(answers) : ss[i] = Frame(answers[i]) /\ answers[i] \in Seq(Value)
  BY <1>1, GivenFramed
<1> PICK fs : fs = Frames[got]
  OBVIOUS
<1>5. /\ fs \in Seq(Stream) /\ Len(fs) <= Len(ss)
      /\ \A i \in 1..Len(fs) : ss[i] = Field(Len(fs[i])) \o fs[i]
  BY <1>1, <1>3, <1>4, FramesSound DEF FrameByFrame, Accounts
<1>6. r \in 1..Len(fs) /\ r \in 1..Len(answers) /\ fs[r] \in Stream
  <2>1. Len(fs) \in Nat /\ \A i \in 1..Len(fs) : fs[i] \in Stream
    BY <1>5, SeqHolds DEF Holds
  <2> QED
    BY <1>1, <1>4, <1>5, <2>1
<1> PICK a : a = fs[r]
  OBVIOUS
<1> PICK b : b = Bytes(answers[r])
  OBVIOUS
<1>7. a \in Stream /\ b \in Stream /\ Field(Len(a)) \o a = Field(Len(b)) \o b
  BY <1>4, <1>5, <1>6, BytesType DEF Frame
<1>8. /\ Field(Len(a)) \in Stream /\ Field(Len(b)) \in Stream
      /\ Len(Field(Len(a))) = W /\ Len(Field(Len(b))) = W
  BY <1>7, StreamLen, FieldType
<1>9. a = b
  <2>1. CutAlike(Field(Len(a)), a, Field(Len(b)), b)
    BY <1>7, <1>8 DEF CutAlike
  <2> QED
    BY <1>7, <1>8, <2>1, StreamCancel
<1> QED
  BY <1>6, <1>9

(* Whatever sequence of replies the server gives, however it is cut, the   *)
(* client takes it apart as it was put together, if the server refuses     *)
(* ZQUERY, as it does: k_max_args is 4 (common.h).                         *)
THEOREM RepliesRead ==
  ASSUME k_max_args < 6
  PROVE  Spec => []RepliesUnderstood
<1>1. Init => AllReadable
  <2>1. Len(<<>>) = 0
    OBVIOUS
  <2> QED
    BY <2>1 DEF Init, AllReadable
<1>2. Inv /\ AllReadable => RepliesUnderstood
  <2> SUFFICES ASSUME Inv, AllReadable, NEW r \in 1..Len(Frames[got])
               PROVE  read_resp(Frames[got][r]) =
                        IF HasScore(answers[r]) THEN Failed
                        ELSE [used |-> Len(Bytes(answers[r])), prints |-> answers[r]]
    BY DEF RepliesUnderstood, HasScore
  <2>1. r \in 1..Len(answers) /\ Frames[got][r] = Bytes(answers[r])
    BY FramesAreReplies
  <2>2. Legible(answers[r])
    BY <2>1 DEF AllReadable
  <2> QED
    BY <2>1, <2>2, ReplyRead DEF Legible
<1> QED
  BY <1>1, <1>2, ReadableStep, InvariantHolds, PTL DEF Spec
=============================================================================
