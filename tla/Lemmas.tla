------------------------------- MODULE Lemmas -------------------------------
(***************************************************************************)
(* The lemmas that several components' proofs use.  First, facts about     *)
(* least and greatest elements of sets of naturals, about recursive        *)
(* functions and about the sequence operators the models use.  Then, what  *)
(* the heap operators of Heap.tla return and preserve, for heaps of any    *)
(* size: they keep the type, the length and the heap order, and a heap_idx *)
(* that found an item of its own entry still does.                         *)
(***************************************************************************)
EXTENDS Heap, SequencesExt, SequenceTheorems, FiniteSetTheorems, FunctionTheorems,
        WellFoundedInduction, TLAPS

(* A nonempty set of naturals has a least element. *)
LEMMA LeastNat ==
  ASSUME NEW T \in SUBSET Nat, T # {}
  PROVE  \E x \in T : \A y \in T : x <= y
<1>1. IsWellFoundedOn(OpToRel(<, Nat), Nat)
  BY NatLessThanWellFounded
<1>2. PICK x \in T : \A y \in T : ~ (<<y, x>> \in OpToRel(<, Nat))
  BY <1>1, WFMin
<1>3. \A y \in T : ~(y < x)
  BY <1>2 DEF OpToRel
<1> QED
  BY <1>3

(* Min and Max, as the sifts of Heap.tla use them, pick an element. *)
LEMMA MinIn ==
  ASSUME NEW T \in SUBSET Nat, T # {}
  PROVE  Min(T) \in T /\ \A y \in T : Min(T) <= y
BY LeastNat DEF Min

(* The greatest. *)
LEMMA MaxIn ==
  ASSUME NEW n \in Nat, NEW T \in SUBSET (0..n), T # {}
  PROVE  Max(T) \in T /\ \A y \in T : y <= Max(T)
<1> DEFINE U == {n - x : x \in T}
<1>1. U \in SUBSET Nat /\ U # {}
  <2>1. \A x \in T : x \in Int /\ 0 <= x /\ x <= n
    OBVIOUS
  <2>2. \A x \in T : n - x \in Nat
    BY <2>1
  <2> QED
    BY <2>2
<1>2. PICK u \in U : \A y \in U : u <= y
  BY <1>1, LeastNat
<1>3. PICK x \in T : u = n - x
  OBVIOUS
<1>4. \A y \in T : x >= y
  <2> TAKE y \in T
  <2>1. n - y \in U
    OBVIOUS
  <2> QED
    BY <1>2, <1>3, <2>1
<1> QED
  BY <1>4 DEF Max

(* Taking one element out of a sequence (SequencesExt). *)
LEMMA RemoveAtType ==
  ASSUME NEW S, NEW s \in Seq(S), NEW i \in 1..Len(s)
  PROVE  /\ RemoveAt(s, i) \in Seq(S)
         /\ Len(RemoveAt(s, i)) = Len(s) - 1
         /\ \A j \in 1..Len(s) - 1 : RemoveAt(s, i)[j] = IF j < i THEN s[j] ELSE s[j + 1]
<1> DEFINE u == SubSeq(s, 1, i - 1)
           v == SubSeq(s, i + 1, Len(s))
<1>1. /\ u \in Seq(S) /\ Len(u) = i - 1
      /\ \A j \in 1..i - 1 : u[j] = s[j]
  BY SubSeqProperties
<1>2. /\ v \in Seq(S) /\ Len(v) = Len(s) - i
      /\ \A j \in 1..Len(s) - i : v[j] = s[i + j]
  BY SubSeqProperties
<1>3. RemoveAt(s, i) = u \o v
  BY DEF RemoveAt
<1> HIDE DEF u, v
<1>4. /\ u \o v \in Seq(S) /\ Len(u \o v) = Len(s) - 1
      /\ \A j \in 1..Len(s) - 1 :
           (u \o v)[j] = IF j <= i - 1 THEN u[j] ELSE v[j - (i - 1)]
  <2>1. u \in Seq(S) /\ v \in Seq(S)
    BY <1>1, <1>2
  <2>2. /\ u \o v \in Seq(S) /\ Len(u \o v) = Len(u) + Len(v)
        /\ \A j \in 1..Len(u) + Len(v) :
             (u \o v)[j] = IF j <= Len(u) THEN u[j] ELSE v[j - Len(u)]
    BY <2>1, ConcatProperties
  <2>3. Len(u) = i - 1 /\ Len(u) + Len(v) = Len(s) - 1
    BY <1>1, <1>2
  <2> QED
    BY <2>2, <2>3
<1>5. ASSUME NEW j \in 1..Len(s) - 1
      PROVE  (u \o v)[j] = IF j < i THEN s[j] ELSE s[j + 1]
  BY <1>1, <1>2, <1>4
<1> QED
  BY <1>3, <1>4, <1>5

(* What is left without it. *)
LEMMA RemoveAtRange ==
  ASSUME NEW S, NEW s \in Seq(S), IsInjective(s), NEW i \in 1..Len(s)
  PROVE  /\ IsInjective(RemoveAt(s, i))
         /\ Range(RemoveAt(s, i)) = Range(s) \ {s[i]}
<1> DEFINE r == RemoveAt(s, i)
<1>1. /\ r \in Seq(S)
      /\ Len(r) = Len(s) - 1
      /\ \A j \in 1..Len(s) - 1 : r[j] = IF j < i THEN s[j] ELSE s[j + 1]
  BY RemoveAtType
<1>2. DOMAIN r = 1..Len(s) - 1 /\ DOMAIN s = 1..Len(s)
  BY <1>1
<1> HIDE DEF r
<1>3. IsInjective(r)
  <2> SUFFICES ASSUME NEW a \in 1..Len(s) - 1, NEW b \in 1..Len(s) - 1, r[a] = r[b]
               PROVE  a = b
    BY <1>2 DEF IsInjective
  <2> DEFINE at(j) == IF j < i THEN j ELSE j + 1
  <2>1. r[a] = s[at(a)] /\ r[b] = s[at(b)]
    BY <1>1
  <2>2. at(a) \in 1..Len(s) /\ at(b) \in 1..Len(s)
    OBVIOUS
  <2>3. at(a) = at(b)
    BY <1>2, <2>1, <2>2 DEF IsInjective
  <2> QED
    BY <2>3
<1>4. Range(r) \subseteq Range(s) \ {s[i]}
  <2> SUFFICES ASSUME NEW j \in 1..Len(s) - 1
               PROVE  r[j] \in Range(s) /\ r[j] # s[i]
    BY <1>2 DEF Range
  <2> DEFINE at == IF j < i THEN j ELSE j + 1
  <2>1. at \in 1..Len(s) /\ at # i /\ r[j] = s[at]
    BY <1>1
  <2> HIDE DEF at
  <2>2. s[at] \in Range(s)
    BY <2>1, <1>2 DEF Range
  <2>3. s[at] # s[i]
    BY <2>1, <1>2 DEF IsInjective
  <2> QED
    BY <2>1, <2>2, <2>3
<1>5. ASSUME NEW x \in Range(s) \ {s[i]}
      PROVE  x \in Range(r)
  <2>1. PICK j \in 1..Len(s) : x = s[j]
    BY <1>2 DEF Range
  <2>2. CASE j < i
    BY <2>1, <2>2, <1>1, <1>2 DEF Range
  <2>3. CASE j > i
    <3>1. j - 1 \in 1..Len(s) - 1 /\ r[j - 1] = x
      BY <2>1, <2>3, <1>1
    <3> QED
      BY <3>1, <1>2 DEF Range
  <2> QED
    BY <2>1, <2>2, <2>3
<1> QED
  BY <1>3, <1>4, <1>5 DEF r

(* What a sequence contains with one more at the front, ... *)
LEMMA PushFrontRange ==
  ASSUME NEW S, NEW s \in Seq(S), IsInjective(s), NEW a \in S, a \notin Range(s)
  PROVE  /\ <<a>> \o s \in Seq(S)
         /\ IsInjective(<<a>> \o s)
         /\ Range(<<a>> \o s) = Range(s) \cup {a}
<1> DEFINE r == <<a>> \o s
<1>1. <<a>> \in Seq(S) /\ Len(<<a>>) = 1 /\ <<a>>[1] = a
  OBVIOUS
<1>2. /\ r \in Seq(S) /\ Len(r) = Len(s) + 1
      /\ \A j \in 1..Len(s) + 1 : r[j] = IF j <= 1 THEN <<a>>[j] ELSE s[j - 1]
  BY <1>1, ConcatProperties
<1> HIDE DEF r
<1>3. DOMAIN r = 1..Len(s) + 1 /\ DOMAIN s = 1..Len(s)
  BY <1>2
<1>4. \A j \in 1..Len(s) : s[j] # a
  BY <1>3 DEF Range
<1>5. r[1] = a /\ \A j \in 2..Len(s) + 1 : r[j] = s[j - 1] /\ j - 1 \in 1..Len(s)
  BY <1>1, <1>2
<1>6. IsInjective(r)
  <2> SUFFICES ASSUME NEW x \in 1..Len(s) + 1, NEW y \in 1..Len(s) + 1, r[x] = r[y]
               PROVE  x = y
    BY <1>3 DEF IsInjective
  <2>1. CASE x = 1 \/ y = 1
    BY <2>1, <1>4, <1>5
  <2>2. CASE x \in 2..Len(s) + 1 /\ y \in 2..Len(s) + 1
    <3>1. s[x - 1] = s[y - 1]
      BY <2>2, <1>5
    <3>2. x - 1 = y - 1
      BY <2>2, <3>1, <1>3, <1>5 DEF IsInjective
    <3> QED
      BY <3>2
  <2> QED
    BY <2>1, <2>2
<1>7. Range(r) = Range(s) \cup {a}
  <2>1. Range(r) \subseteq Range(s) \cup {a}
    <3> SUFFICES ASSUME NEW j \in 1..Len(s) + 1
                 PROVE  r[j] \in Range(s) \cup {a}
      BY <1>3 DEF Range
    <3>1. j = 1 \/ j \in 2..Len(s) + 1
      OBVIOUS
    <3> QED
      BY <3>1, <1>3, <1>5 DEF Range
  <2>2. ASSUME NEW j \in 1..Len(s)
        PROVE  s[j] \in Range(r)
    <3>1. j + 1 \in 2..Len(s) + 1 /\ j + 1 \in 1..Len(s) + 1 /\ (j + 1) - 1 = j
      OBVIOUS
    <3> QED
      BY <3>1, <1>3, <1>5 DEF Range
  <2>3. a \in Range(r)
    BY <1>3, <1>5 DEF Range
  <2> QED
    BY <2>1, <2>2, <2>3, <1>3 DEF Range
<1> QED
  BY <1>2, <1>6, <1>7 DEF r

(* ... at the back, ... *)
LEMMA AppendRange ==
  ASSUME NEW S, NEW s \in Seq(S), IsInjective(s), NEW a \in S, a \notin Range(s)
  PROVE  /\ IsInjective(Append(s, a))
         /\ Range(Append(s, a)) = Range(s) \cup {a}
BY DEF IsInjective, Range

(* ... or one fewer. *)
LEMMA TailRange ==
  ASSUME NEW S, NEW s \in Seq(S), IsInjective(s), s # <<>>
  PROVE  /\ Tail(s) \in Seq(S)
         /\ IsInjective(Tail(s))
         /\ Range(Tail(s)) = Range(s) \ {Head(s)}
         /\ Head(s) \in Range(s)
<1> DEFINE r == Tail(s)
<1>1. /\ r \in Seq(S) /\ Len(r) = Len(s) - 1
      /\ \A j \in 1..Len(s) - 1 : r[j] = s[j + 1]
  BY HeadTailProperties
<1>2. Head(s) = s[1] /\ Len(s) >= 1
  BY EmptySeq
<1>3. DOMAIN r = 1..Len(s) - 1 /\ DOMAIN s = 1..Len(s)
  BY <1>1
<1> HIDE DEF r
<1>4. IsInjective(r)
  <2> SUFFICES ASSUME NEW x \in 1..Len(s) - 1, NEW y \in 1..Len(s) - 1, r[x] = r[y]
               PROVE  x = y
    BY <1>3 DEF IsInjective
  <2>1. s[x + 1] = s[y + 1]
    BY <1>1
  <2>2. x + 1 = y + 1
    BY <2>1, <1>3 DEF IsInjective
  <2> QED
    BY <2>2
<1>5. Range(r) \subseteq Range(s) \ {Head(s)}
  <2> SUFFICES ASSUME NEW j \in 1..Len(s) - 1
               PROVE  r[j] \in Range(s) /\ r[j] # Head(s)
    BY <1>3 DEF Range
  <2>1. r[j] = s[j + 1] /\ j + 1 \in 1..Len(s) /\ 1 \in 1..Len(s) /\ j + 1 # 1
    BY <1>1, <1>2
  <2> QED
    BY <2>1, <1>2, <1>3 DEF Range, IsInjective
<1>6. ASSUME NEW x \in Range(s) \ {Head(s)}
      PROVE  x \in Range(r)
  <2>1. PICK j \in 1..Len(s) : x = s[j]
    BY <1>3 DEF Range
  <2>2. j - 1 \in 1..Len(s) - 1 /\ r[j - 1] = x
    BY <2>1, <1>1, <1>2
  <2> QED
    BY <2>2, <1>3 DEF Range
<1>7. Head(s) \in Range(s)
  BY <1>2, <1>3 DEF Range
<1> QED
  BY <1>1, <1>4, <1>5, <1>6, <1>7 DEF r
-----------------------------------------------------------------------------
(* G gives the value at x of a function with values in V from its values   *)
(* at elements of less measure; such a function exists.                    *)
Recursion(D, V, m, G) ==
  /\ V # {} /\ m \in [D -> Nat] /\ G \in [[D -> V] \X D -> V]
  /\ \A f, g \in [D -> V], x \in D :
       (\A y \in D : m[y] < m[x] => f[y] = g[y]) => G[<<f, x>>] = G[<<g, x>>]

(* By the least measure at which it could fail. *)
LEMMA RecursiveFunction ==
  ASSUME NEW D, NEW V, NEW m, NEW G, Recursion(D, V, m, G)
  PROVE  \E F \in [D -> V] : \A x \in D : F[x] = G[<<F, x>>]
<1> USE DEF Recursion
<1> DEFINE Upto(n, f) == /\ f \in [D -> V]
                         /\ \A x \in D : m[x] < n => f[x] = G[<<f, x>>]
<1>1. ASSUME NEW n \in Nat, NEW f, NEW g, Upto(n, f), Upto(n, g)
      PROVE  \A x \in D : m[x] < n => f[x] = g[x]
  <2> DEFINE T == {k \in Nat : \E x \in D : m[x] = k /\ k < n /\ f[x] # g[x]}
  <2> SUFFICES ASSUME T # {}
               PROVE  FALSE
    OBVIOUS
  <2>1. PICK k \in T : \A j \in T : k <= j
    BY LeastNat
  <2>2. PICK x \in D : m[x] = k /\ k < n /\ f[x] # g[x]
    BY <2>1
  <2>3. ASSUME NEW y \in D, m[y] < m[x]
        PROVE  f[y] = g[y]
    <3>1. m[y] \in Nat /\ m[y] < n /\ ~(k <= m[y])
      BY <2>1, <2>2, <2>3
    <3>2. m[y] \notin T
      BY <2>1, <3>1
    <3> QED
      BY <3>1, <3>2
  <2>4. G[<<f, x>>] = G[<<g, x>>]
    BY <1>1, <2>3
  <2> QED
    BY <1>1, <2>2, <2>4
<1>2. \A n \in Nat : \E f : Upto(n, f)
  <2> DEFINE T == {n \in Nat : ~\E f : Upto(n, f)}
  <2> SUFFICES ASSUME T # {}
               PROVE  FALSE
    OBVIOUS
  <2>1. PICK n \in T : \A j \in T : n <= j
    BY LeastNat
  <2>2. CASE n = 0
    <3>1. PICK v \in V : TRUE
      OBVIOUS
    <3>2. Upto(0, [x \in D |-> v])
      OBVIOUS
    <3> QED
      BY <2>1, <2>2, <3>2
  <2>3. CASE n # 0
    <3>1. n - 1 \in Nat /\ ~(n <= n - 1)
      BY <2>1, <2>3
    <3>1a. n - 1 \notin T
      <4> HIDE DEF T
      <4> QED
        BY <2>1, <3>1
    <3>2. PICK f : Upto(n - 1, f)
      <4> HIDE DEF Upto
      <4> QED
        BY <3>1, <3>1a
    <3> DEFINE g == [x \in D |-> G[<<f, x>>]]
    <3>3. g \in [D -> V]
      BY <3>2
    <3>4. ASSUME NEW x \in D, m[x] < n
          PROVE  g[x] = G[<<g, x>>]
      <4>1. \A y \in D : m[y] < m[x] => f[y] = g[y]
        BY <2>1, <3>2, <3>4
      <4>2. G[<<f, x>>] = G[<<g, x>>]
        BY <3>2, <3>3, <4>1
      <4> QED
        BY <4>2
    <3>5. Upto(n, g)
      BY <3>3, <3>4
    <3> QED
      BY <2>1, <3>5
  <2> QED
    BY <2>2, <2>3
<1> DEFINE At(n) == CHOOSE f : Upto(n, f)
           F == [x \in D |-> At(m[x] + 1)[x]]
<1>3. \A n \in Nat : Upto(n, At(n))
  BY <1>2
<1> HIDE DEF At
<1>4. F \in [D -> V]
  BY <1>3
<1>5. ASSUME NEW x \in D
      PROVE  F[x] = G[<<F, x>>]
  <2> DEFINE f == At(m[x] + 1)
  <2>1. Upto(m[x] + 1, f)
    <3> HIDE DEF Upto
    <3> QED
      BY <1>3
  <2>2. ASSUME NEW y \in D, m[y] < m[x]
        PROVE  F[y] = f[y]
    <3> DEFINE g == At(m[y] + 1)
    <3>1. Upto(m[y] + 1, g)
      <4> HIDE DEF Upto
      <4> QED
        BY <1>3
    <3> HIDE DEF f, g
    <3>3. m[y] < m[y] + 1 /\ m[y] + 1 \in Nat /\ m[x] \in Nat
      OBVIOUS
    <3>2. Upto(m[y] + 1, f)
      BY <2>1, <2>2, <3>3
    <3> HIDE DEF Upto
    <3>4. f[y] = g[y]
      BY <1>1, <3>1, <3>2, <3>3
    <3> QED
      BY <3>4 DEF g
  <2>6. F[x] = f[x]
    OBVIOUS
  <2> HIDE DEF f
  <2>3. f[x] = G[<<f, x>>]
    BY <2>1
  <2>4. f \in [D -> V]
    BY <2>1
  <2>5. G[<<F, x>>] = G[<<f, x>>]
    BY <1>4, <2>2, <2>4
  <2> QED
    BY <2>3, <2>5, <2>6
<1> QED
  BY <1>4, <1>5

(* f[i] is what the first i sequences of ss are together. *)
Joins(f, ss) == f[0] = <<>> /\ \A i \in 1..Len(ss) : f[i] = f[i - 1] \o ss[i]

(* The joins of a sequence of sequences exist ... *)
LEMMA JoinsExist ==
  ASSUME NEW S, NEW ss \in Seq(Seq(S))
  PROVE  \E f \in [0..Len(ss) -> Seq(S)] : Joins(f, ss)
<1> DEFINE n == Len(ss)
           D == 0..n
           V == Seq(S)
           m == [i \in D |-> i]
           G == [p \in [D -> V] \X D |->
                   IF p[2] = 0 THEN <<>> ELSE p[1][p[2] - 1] \o ss[p[2]]]
<1>1. n \in Nat /\ \A i \in 1..n : ss[i] \in V
  OBVIOUS
<1>2. V # {} /\ <<>> \in V
  OBVIOUS
<1>3. m \in [D -> Nat] /\ \A i \in D : m[i] = i
  BY <1>1
<1>4. ASSUME NEW f \in [D -> V], NEW i \in D
      PROVE  /\ G[<<f, i>>] = IF i = 0 THEN <<>> ELSE f[i - 1] \o ss[i]
             /\ i # 0 => i - 1 \in D /\ f[i - 1] \in V /\ ss[i] \in V
  BY <1>1
<1> HIDE DEF n, D, V, m
<1>5. G \in [[D -> V] \X D -> V]
  <2> SUFFICES ASSUME NEW f \in [D -> V], NEW i \in D
               PROVE  (IF i = 0 THEN <<>> ELSE f[i - 1] \o ss[i]) \in V
    OBVIOUS
  <2> QED
    <3>1. CASE i = 0
      BY <1>2, <3>1, Zenon
    <3>2. CASE i # 0
      <4>1. f[i - 1] \in Seq(S) /\ ss[i] \in Seq(S)
        BY <1>4, <3>2 DEF V
      <4>2. f[i - 1] \o ss[i] \in V
        BY <4>1, ConcatProperties DEF V
      <4> QED
        BY <3>2, <4>2, Zenon
    <3> QED
      BY <3>1, <3>2, Zenon
<1>6. ASSUME NEW f \in [D -> V], NEW g \in [D -> V], NEW i \in D,
             \A j \in D : m[j] < m[i] => f[j] = g[j]
      PROVE  G[<<f, i>>] = G[<<g, i>>]
  <2>1. i # 0 => i - 1 \in D /\ i - 1 < i
    BY <1>1, <1>4 DEF D
  <2>2. i # 0 => f[i - 1] = g[i - 1]
    BY <1>3, <1>6, <2>1
  <2> QED
    BY <1>4, <2>2
<1> HIDE DEF G
<1>6a. \A f, g \in [D -> V], i \in D :
        (\A j \in D : m[j] < m[i] => f[j] = g[j]) => G[<<f, i>>] = G[<<g, i>>]
  BY <1>6
<1>6b. Recursion(D, V, m, G)
  BY <1>2, <1>3, <1>5, <1>6a DEF Recursion
<1>7. PICK f \in [D -> V] : \A i \in D : f[i] = G[<<f, i>>]
  BY <1>6b, RecursiveFunction
<1>8. f[0] = <<>> /\ \A i \in 1..n : f[i] = f[i - 1] \o ss[i]
  <2>1. 0 \in D /\ \A i \in 1..n : i \in D /\ i # 0
    BY <1>1 DEF D
  <2> QED
    BY <1>4, <1>7, <2>1, Zenon
<1> QED
  BY <1>8 DEF Joins, n, D, V

(* ... and are all there are. *)
LEMMA JoinsUnique ==
  ASSUME NEW S, NEW ss \in Seq(Seq(S)), NEW f, NEW g, Joins(f, ss), Joins(g, ss)
  PROVE  \A i \in 0..Len(ss) : f[i] = g[i]
<1> DEFINE T == {i \in 0..Len(ss) : f[i] # g[i]}
<1> SUFFICES ASSUME T # {}
             PROVE  FALSE
  OBVIOUS
<1>1. T \in SUBSET Nat
  OBVIOUS
<1>2. PICK i \in T : \A j \in T : i <= j
  BY <1>1, LeastNat
<1>3. i \in 1..Len(ss) /\ i - 1 \in 0..Len(ss) /\ ~(i <= i - 1)
  BY DEF Joins
<1>4. f[i - 1] = g[i - 1]
  BY <1>2, <1>3
<1> QED
  BY <1>3, <1>4 DEF Joins

(* Nothing before or after. *)
LEMMA EmptyConcat ==
  ASSUME NEW S, NEW s \in Seq(S)
  PROVE  <<>> \o s = s /\ s \o <<>> = s
OBVIOUS

(* FlattenSeq (SequencesExt) is the last of the joins. *)
LEMMA FlattenJoins ==
  ASSUME NEW S, NEW ss \in Seq(Seq(S)), NEW f \in [0..Len(ss) -> Seq(S)], Joins(f, ss)
  PROVE  FlattenSeq(ss) = f[Len(ss)]
<1> DEFINE n == Len(ss)
           Flat(g) == g = [i \in 1..n |-> IF i = 1 THEN ss[i] ELSE g[i - 1] \o ss[i]]
           h == CHOOSE g : Flat(g)
<1>0. n \in Nat /\ \A i \in 1..n : ss[i] \in Seq(S)
  OBVIOUS
<1>1. CASE n = 0
  <2>1. FlattenSeq(ss) = ss /\ ss = <<>>
    BY <1>1 DEF FlattenSeq
  <2> QED
    BY <1>1, <2>1 DEF Joins
<1>2. CASE n # 0
  <2>1. n \in 1..n
    BY <1>2
  <2>2. FlattenSeq(ss) = h[n]
    BY <1>2 DEF FlattenSeq
  <2> DEFINE g == [i \in 1..n |-> f[i]]
  <2>3. \A i \in 1..n : g[i] = IF i = 1 THEN ss[i] ELSE g[i - 1] \o ss[i]
    <3> TAKE i \in 1..n
    <3>1. f[i] = f[i - 1] \o ss[i] /\ ss[i] \in Seq(S)
      BY DEF Joins
    <3>2. CASE i = 1
      <4>1. f[0] = <<>> /\ <<>> \o ss[i] = ss[i] /\ 1 - 1 = 0
        BY <3>1, EmptyConcat DEF Joins
      <4>2. g[i] = f[i]
        OBVIOUS
      <4> HIDE DEF g
      <4> QED
        BY <3>1, <3>2, <4>1, <4>2, Zenon
    <3>3. CASE i # 1
      <4>1. i - 1 \in 1..n
        BY <3>3
      <4>2. g[i - 1] = f[i - 1] /\ g[i] = f[i]
        BY <4>1
      <4> QED
        BY <3>1, <3>3, <4>2, Zenon
    <3> QED
      BY <3>2, <3>3
  <2>4. Flat(g)
    BY <2>3
  <2>5. Flat(h)
    <3> HIDE DEF Flat
    <3> QED
      BY <2>4
  <2> HIDE DEF h
  <2>6. \A i \in 1..n : h[i] = IF i = 1 THEN ss[i] ELSE h[i - 1] \o ss[i]
    BY <2>5
  <2> DEFINE k == [i \in 0..n |-> IF i = 0 THEN <<>> ELSE h[i]]
  <2>7. Joins(k, ss)
    <3>1. k[0] = <<>>
      OBVIOUS
    <3>2. ASSUME NEW i \in 1..n
          PROVE  k[i] = k[i - 1] \o ss[i]
      <4>1. CASE i = 1
        <5>1. k[i] = h[i] /\ i - 1 = 0
          BY <4>1
        <5>2. k[i] = ss[i] /\ k[i - 1] = <<>> /\ ss[i] \in Seq(S)
          BY <1>0, <2>6, <4>1, <5>1
        <5> HIDE DEF k
        <5> QED
          BY <5>2, EmptyConcat
      <4>2. CASE i # 1
        <5>1. i - 1 \in 0..n /\ i - 1 # 0 /\ i \in 0..n /\ i # 0
          BY <4>2, <1>0
        <5>2. k[i] = h[i] /\ k[i - 1] = h[i - 1]
          BY <5>1
        <5> QED
          BY <2>6, <4>2, <5>2
      <4> QED
        BY <4>1, <4>2
    <3> QED
      BY <3>1, <3>2 DEF Joins
  <2>8. k[n] = h[n]
    BY <2>1
  <2> HIDE DEF k
  <2>9. k[n] = f[n]
    BY <2>1, <2>7, JoinsUnique
  <2> QED
    BY <2>2, <2>8, <2>9
<1> QED
  BY <1>1, <1>2

(* What FlattenSeq makes of sequences over S ... *)
LEMMA FlattenType ==
  ASSUME NEW S, NEW ss \in Seq(Seq(S))
  PROVE  FlattenSeq(ss) \in Seq(S)
<1>1. PICK f \in [0..Len(ss) -> Seq(S)] : Joins(f, ss)
  BY JoinsExist
<1>2. FlattenSeq(ss) = f[Len(ss)] /\ Len(ss) \in 0..Len(ss)
  BY <1>1, FlattenJoins
<1> QED
  BY <1>2

(* ... of none ... *)
LEMMA FlattenEmpty == FlattenSeq(<<>>) = <<>>
BY DEF FlattenSeq

(* ... of one more at the end ... *)
LEMMA FlattenAppend ==
  ASSUME NEW S, NEW ss \in Seq(Seq(S)), NEW x \in Seq(S)
  PROVE  FlattenSeq(Append(ss, x)) = FlattenSeq(ss) \o x
<1> DEFINE n == Len(ss)
           tt == Append(ss, x)
<1>1. PICK f \in [0..n -> Seq(S)] : Joins(f, ss)
  BY JoinsExist
<1>2. FlattenSeq(ss) = f[n]
  BY <1>1, FlattenJoins
<1>3. /\ tt \in Seq(Seq(S)) /\ Len(tt) = n + 1 /\ tt[n + 1] = x
      /\ \A i \in 1..n : tt[i] = ss[i]
  OBVIOUS
<1> HIDE DEF tt
<1> DEFINE g == [i \in 0..n + 1 |-> IF i = n + 1 THEN f[n] \o x ELSE f[i]]
<1>3a. n \in Nat /\ f[n] \in Seq(S) /\ f[n] \o x \in Seq(S)
  OBVIOUS
<1>4. g \in [0..n + 1 -> Seq(S)]
  BY <1>3a
<1>4a. g[n + 1] = f[n] \o x /\ \A i \in 0..n : g[i] = f[i]
  BY <1>3a
<1> HIDE DEF g
<1>5. Joins(g, tt)
  <2>1. g[0] = <<>>
    BY <1>1, <1>3a, <1>4a DEF Joins
  <2>2. ASSUME NEW i \in 1..n + 1
        PROVE  g[i] = g[i - 1] \o tt[i]
    <3>1. i - 1 \in 0..n
      BY <1>3a
    <3>2. CASE i = n + 1
      <4>1. i - 1 = n
        BY <1>3a, <3>2
      <4>2. g[i - 1] = f[n]
        BY <1>4a, <3>1, <4>1
      <4> QED
        BY <1>3, <1>4a, <3>2, <4>2, Zenon
    <3>3. CASE i # n + 1
      <4>1. i \in 1..n
        BY <1>3a, <3>3
      <4>2. f[i] = f[i - 1] \o ss[i]
        BY <1>1, <4>1 DEF Joins
      <4>3. i \in 0..n
        BY <4>1
      <4> QED
        BY <1>3, <1>4a, <3>1, <4>1, <4>2, <4>3, Zenon
    <3> QED
      BY <3>2, <3>3
  <2> QED
    BY <1>3, <2>1, <2>2 DEF Joins
<1>6. g[n + 1] = f[n] \o x
  BY <1>4a, Zenon
<1>7. FlattenSeq(tt) = g[n + 1]
  <2>1. g \in [0..Len(tt) -> Seq(S)]
    BY <1>3, <1>4
  <2>2. FlattenSeq(tt) = g[Len(tt)]
    BY <1>3, <1>5, <2>1, FlattenJoins
  <2> QED
    BY <1>3, <2>2
<1> QED
  BY <1>2, <1>6, <1>7 DEF tt

(* ... and of one more at the front. *)
LEMMA FlattenCons ==
  ASSUME NEW S, NEW ss \in Seq(Seq(S)), ss # <<>>
  PROVE  /\ Tail(ss) \in Seq(Seq(S)) /\ ss[1] \in Seq(S)
         /\ FlattenSeq(ss) = ss[1] \o FlattenSeq(Tail(ss))
<1> DEFINE n == Len(ss)
           tt == Tail(ss)
<1>1. /\ tt \in Seq(Seq(S)) /\ Len(tt) = n - 1 /\ n \in Nat /\ n >= 1
      /\ \A i \in 1..n - 1 : tt[i] = ss[i + 1]
      /\ \A i \in 1..n : ss[i] \in Seq(S)
  BY HeadTailProperties
<1> HIDE DEF tt
<1>2. PICK f \in [0..n - 1 -> Seq(S)] : Joins(f, tt)
  BY <1>1, JoinsExist
<1>3. FlattenSeq(tt) = f[n - 1]
  <2>1. f \in [0..Len(tt) -> Seq(S)]
    BY <1>1
  <2>2. FlattenSeq(tt) = f[Len(tt)]
    BY <1>1, <1>2, <2>1, FlattenJoins
  <2> QED
    BY <1>1, <2>2
<1> DEFINE g == [i \in 0..n |-> IF i = 0 THEN <<>> ELSE ss[1] \o f[i - 1]]
<1>4. ss[1] \in Seq(S)
  BY <1>1
<1>5. g \in [0..n -> Seq(S)]
  BY <1>1, <1>4
<1>5a. g[0] = <<>> /\ \A i \in 1..n : g[i] = ss[1] \o f[i - 1]
  <2>1. \A i \in 0..n : g[i] = IF i = 0 THEN <<>> ELSE ss[1] \o f[i - 1]
    OBVIOUS
  <2>2. 0 \in 0..n /\ \A i \in 1..n : i \in 0..n /\ i # 0
    BY <1>1
  <2> HIDE DEF g
  <2> QED
    BY <2>1, <2>2, Zenon
<1>5b. 1 \in 1..n /\ n \in 1..n
  BY <1>1
<1> HIDE DEF g
<1>6. Joins(g, ss)
  <2>1. g[0] = <<>>
    BY <1>1, <1>5a
  <2>2. ASSUME NEW i \in 1..n
        PROVE  g[i] = g[i - 1] \o ss[i]
    <3>1. CASE i = 1
      <4>0. f[0] = <<>> /\ 1 - 1 = 0
        BY <1>2 DEF Joins
      <4>1. g[i] = ss[1] \o f[0] /\ g[i - 1] = <<>> /\ f[0] = <<>>
        BY <1>5a, <3>1, <4>0, Zenon
      <4>2. ss[1] \o <<>> = ss[1] /\ <<>> \o ss[1] = ss[1]
        BY <1>4, EmptyConcat
      <4> QED
        BY <3>1, <4>1, <4>2
    <3>2. CASE i # 1
      <4>1. i - 1 \in 1..n - 1 /\ i - 2 \in 0..n - 1 /\ i - 1 \in 0..n - 1
            /\ (i - 1) - 1 = i - 2 /\ (i - 1) + 1 = i
        BY <1>1, <3>2
      <4>2. /\ \A j \in 1..n - 1 : f[j] = f[j - 1] \o tt[j]
            /\ \A j \in 1..n - 1 : tt[j] = ss[j + 1]
        BY <1>1, <1>2 DEF Joins
      <4>3. f[i - 1] = f[(i - 1) - 1] \o tt[i - 1] /\ tt[i - 1] = ss[(i - 1) + 1]
        BY <4>1, <4>2
      <4>4. f[i - 1] = f[i - 2] \o ss[i]
        BY <4>1, <4>3
      <4>5. g[i] = ss[1] \o f[i - 1] /\ g[i - 1] = ss[1] \o f[i - 2]
        <5>1. i - 1 \in 1..n
          BY <1>1, <4>1
        <5>2. g[i - 1] = ss[1] \o f[(i - 1) - 1]
          BY <1>5a, <5>1, Zenon
        <5> QED
          BY <1>5a, <4>1, <5>2, Zenon
      <4>6. f[i - 2] \in Seq(S) /\ ss[i] \in Seq(S)
        BY <1>1, <4>1
      <4>7. ss[1] \o (f[i - 2] \o ss[i]) = (ss[1] \o f[i - 2]) \o ss[i]
        <5> PICK u : u = f[i - 2]
          OBVIOUS
        <5> PICK v : v = ss[i]
          OBVIOUS
        <5> PICK w : w = ss[1]
          OBVIOUS
        <5>1. u \in Seq(S) /\ v \in Seq(S) /\ w \in Seq(S)
          BY <1>4, <4>6
        <5>2. (w \o u) \o v = w \o (u \o v)
          BY ONLY <5>1
        <5> QED
          BY <5>2
      <4> QED
        BY <4>4, <4>5, <4>7
    <3> QED
      BY <3>1, <3>2
  <2> QED
    BY <2>1, <2>2 DEF Joins
<1>7. g[n] = ss[1] \o f[n - 1]
  BY <1>5a, <1>5b, Zenon
<1>8. FlattenSeq(ss) = g[n]
  BY <1>5, <1>6, FlattenJoins
<1> QED
  BY <1>1, <1>3, <1>4, <1>7, <1>8 DEF tt
-----------------------------------------------------------------------------
(* Cutting a sequence in two and putting it together again.                *)
LEMMA SplitSeq ==
  ASSUME NEW S, NEW s \in Seq(S), NEW n \in 0..Len(s)
  PROVE  /\ SubSeq(s, 1, n) \in Seq(S) /\ Len(SubSeq(s, 1, n)) = n
         /\ SubSeq(s, n + 1, Len(s)) \in Seq(S) /\ Len(SubSeq(s, n + 1, Len(s))) = Len(s) - n
         /\ SubSeq(s, 1, n) \o SubSeq(s, n + 1, Len(s)) = s
<1>1. Len(s) \in Nat /\ n \in Nat /\ n <= Len(s)
  OBVIOUS
<1> PICK u : u = SubSeq(s, 1, n)
  OBVIOUS
<1> PICK v : v = SubSeq(s, n + 1, Len(s))
  OBVIOUS
<1>2. u \in Seq(S) /\ Len(u) = n /\ \A i \in 1..n : u[i] = s[i]
  BY <1>1, SubSeqProperties
<1>3. v \in Seq(S) /\ Len(v) = Len(s) - n /\ \A i \in 1..Len(s) - n : v[i] = s[n + i]
  BY <1>1, SubSeqProperties
<1>4. u \o v = s
  <2>1. n + 1 \in 1..Len(s) + 1 /\ 1 \in 1..Len(s) + 1 /\ n \in 1 - 1..Len(s)
        /\ Len(s) \in n..Len(s)
    BY <1>1
  <2>2. SubSeq(s, 1, n) \o SubSeq(s, n + 1, Len(s)) = SubSeq(s, 1, Len(s))
    BY <2>1, ConcatAdjacentSubSeq
  <2>3. SubSeq(s, 1, Len(s)) = s
    BY SubSeqFull
  <2> QED
    BY <2>2, <2>3
<1> QED
  BY <1>2, <1>3, <1>4

(* A sequence over S, s with x at its end, s without its first element.    *)
Holds(S, s) == Len(s) \in Nat /\ \A i \in 1..Len(s) : s[i] \in S
Extends(S, r, s, x) ==
  /\ r \in Seq(S) /\ Len(s) \in Nat /\ Len(r) = Len(s) + 1
  /\ r[Len(s) + 1] = x /\ \A i \in 1..Len(s) : r[i] = s[i]
Drops(S, r, s) ==
  /\ r \in Seq(S) /\ Len(s) \in Nat /\ Len(s) >= 1 /\ Len(r) = Len(s) - 1
  /\ \A i \in 1..Len(s) - 1 : r[i] = s[i + 1]

(* A sequence's elements. *)
LEMMA SeqHolds ==
  ASSUME NEW S, NEW s \in Seq(S)
  PROVE  Holds(S, s)
BY DEF Holds

(* A function as a sequence. *)
LEMMA FunctionSeq ==
  ASSUME NEW S, NEW n \in Nat, NEW g \in [1..n -> S]
  PROVE  g \in Seq(S) /\ Len(g) = n
OBVIOUS

(* Append extends, and is the only way to. *)
LEMMA AppendExtends ==
  ASSUME NEW S, NEW s \in Seq(S), NEW x \in S
  PROVE  Extends(S, Append(s, x), s, x)
BY DEF Extends

LEMMA ExtendsAppend ==
  ASSUME NEW S, NEW s \in Seq(S), NEW x \in S, NEW r, Extends(S, r, s, x)
  PROVE  r = Append(s, x)
<1>1. Extends(S, Append(s, x), s, x)
  BY AppendExtends
<1>2. \A i \in 1..Len(s) + 1 : r[i] = Append(s, x)[i]
  <2> PICK t : t = Append(s, x)
    OBVIOUS
  <2>1. Extends(S, t, s, x)
    BY <1>1
  <2> QED
    BY <2>1 DEF Extends
<1> QED
  BY <1>1, <1>2, SeqEqual DEF Extends

(* Tail drops the first, and is the only way to. *)
LEMMA TailDrops ==
  ASSUME NEW S, NEW s \in Seq(S), s # <<>>
  PROVE  Drops(S, Tail(s), s)
BY HeadTailProperties, EmptySeq DEF Drops

LEMMA DropsTail ==
  ASSUME NEW S, NEW s \in Seq(S), NEW r, Drops(S, r, s)
  PROVE  r = Tail(s)
<1>1. s # <<>>
  BY DEF Drops
<1> PICK t : t = Tail(s)
  OBVIOUS
<1>2. Drops(S, t, s)
  BY <1>1, TailDrops
<1>3. \A i \in 1..Len(s) - 1 : r[i] = t[i]
  BY <1>2 DEF Drops
<1> QED
  BY <1>2, <1>3, SeqEqual DEF Drops

(* c is a followed by b. *)
Splits(S, c, a, b) ==
  /\ c \in Seq(S) /\ Len(c) = Len(a) + Len(b)
  /\ SubSeq(c, 1, Len(a)) = a /\ SubSeq(c, Len(a) + 1, Len(c)) = b

(* a \o b splits into a and b ... *)
LEMMA SplitConcat ==
  ASSUME NEW S, NEW a \in Seq(S), NEW b \in Seq(S)
  PROVE  Splits(S, a \o b, a, b)
<1> PICK c : c = a \o b
  OBVIOUS
<1>1. /\ c \in Seq(S) /\ Len(c) = Len(a) + Len(b) /\ Len(a) \in Nat /\ Len(b) \in Nat
      /\ \A i \in 1..Len(a) : c[i] = a[i]
      /\ \A i \in 1..Len(b) : c[Len(a) + i] = b[i]
  BY ConcatProperties
<1>2. SubSeq(c, 1, Len(a)) = a
  BY <1>1, SubSeqProperties
<1>3. SubSeq(c, Len(a) + 1, Len(a) + Len(b)) = b
  BY <1>1, SubSeqProperties
<1> QED
  BY <1>1, <1>2, <1>3 DEF Splits

(* ... and in no other way. *)
LEMMA ConcatCancel ==
  ASSUME NEW S, NEW a \in Seq(S), NEW b \in Seq(S), NEW c \in Seq(S), NEW d \in Seq(S),
         a \o b = c \o d, Len(a) = Len(c)
  PROVE  a = c /\ b = d
<1>1. Splits(S, a \o b, a, b) /\ Splits(S, c \o d, c, d)
  BY SplitConcat
<1> QED
  BY <1>1 DEF Splits
-----------------------------------------------------------------------------
(* Two sequences one behind the other.                                     *)
LEMMA ConcatRange ==
  ASSUME NEW S, NEW a \in Seq(S), NEW b \in Seq(S)
  PROVE  /\ Range(a \o b) = Range(a) \cup Range(b)
         /\ IsInjective(a) /\ IsInjective(b) /\ Range(a) \cap Range(b) = {} => IsInjective(a \o b)
<1> PICK c : c = a \o b
  OBVIOUS
<1>1. /\ c \in Seq(S) /\ Len(c) = Len(a) + Len(b) /\ Len(a) \in Nat /\ Len(b) \in Nat
      /\ \A i \in 1..Len(a) : c[i] = a[i]
      /\ \A i \in 1..Len(b) : c[Len(a) + i] = b[i]
  OBVIOUS
<1>2. DOMAIN a = 1..Len(a) /\ DOMAIN b = 1..Len(b) /\ DOMAIN c = 1..Len(c)
  BY <1>1
<1>3. \A i \in 1..Len(c) :
        \/ i \in 1..Len(a) /\ c[i] = a[i]
        \/ i - Len(a) \in 1..Len(b) /\ c[i] = b[i - Len(a)]
  <2> SUFFICES ASSUME NEW i \in 1..Len(c), i \notin 1..Len(a)
               PROVE  i - Len(a) \in 1..Len(b) /\ c[i] = b[i - Len(a)]
    BY <1>1
  <2>1. i - Len(a) \in 1..Len(b) /\ Len(a) + (i - Len(a)) = i
    BY <1>1
  <2> QED
    BY <1>1, <2>1
<1>4. \A i \in 1..Len(c) : c[i] \in Range(a) \cup Range(b)
  BY <1>2, <1>3 DEF Range
<1>5. Range(a) \subseteq Range(c)
  <2> SUFFICES ASSUME NEW i \in 1..Len(a)
               PROVE  a[i] \in Range(c)
    BY <1>2 DEF Range
  <2>1. i \in 1..Len(c) /\ c[i] = a[i]
    BY <1>1
  <2> QED
    BY <2>1, <1>2 DEF Range
<1>6. Range(b) \subseteq Range(c)
  <2> SUFFICES ASSUME NEW i \in 1..Len(b)
               PROVE  b[i] \in Range(c)
    BY <1>2 DEF Range
  <2>1. Len(a) + i \in 1..Len(c) /\ c[Len(a) + i] = b[i]
    BY <1>1
  <2> QED
    BY <2>1, <1>2 DEF Range
<1>7. Range(c) = Range(a) \cup Range(b)
  BY <1>2, <1>4, <1>5, <1>6 DEF Range
<1>8. ASSUME IsInjective(a), IsInjective(b), Range(a) \cap Range(b) = {}
      PROVE  IsInjective(c)
  <2> SUFFICES ASSUME NEW i \in 1..Len(c), NEW j \in 1..Len(c), c[i] = c[j]
               PROVE  i = j
    BY <1>2 DEF IsInjective
  <2>1. i \in 1..Len(a) => c[i] \in Range(a)
    BY <1>1, <1>2 DEF Range
  <2>2. j \in 1..Len(a) => c[j] \in Range(a)
    BY <1>1, <1>2 DEF Range
  <2>3. i \notin 1..Len(a) => c[i] \in Range(b)
    BY <1>2, <1>3 DEF Range
  <2>4. j \notin 1..Len(a) => c[j] \in Range(b)
    BY <1>2, <1>3 DEF Range
  <2>5. i \in 1..Len(a) <=> j \in 1..Len(a)
    BY <1>8, <2>1, <2>2, <2>3, <2>4
  <2>6. CASE i \in 1..Len(a)
    BY <2>5, <2>6, <1>1, <1>2, <1>8 DEF IsInjective
  <2>7. CASE i \notin 1..Len(a)
    <3>1. /\ i - Len(a) \in DOMAIN b /\ j - Len(a) \in DOMAIN b
          /\ b[i - Len(a)] = b[j - Len(a)]
      BY <2>5, <2>7, <1>2, <1>3
    <3>2. i - Len(a) = j - Len(a)
      BY <3>1, <1>8 DEF IsInjective
    <3> QED
      BY <3>2, <1>1
  <2> QED
    BY <2>6, <2>7
<1> QED
  BY <1>7, <1>8

(* Sequences without repetitions that have no element in common.           *)
Apart(ss) ==
  /\ \A i \in 1..Len(ss) : IsInjective(ss[i])
  /\ \A i, j \in 1..Len(ss) : i # j => Range(ss[i]) \cap Range(ss[j]) = {}

(* Joined, they repeat nothing either. *)
LEMMA FlattenRange ==
  ASSUME NEW S, NEW ss \in Seq(Seq(S)), Apart(ss)
  PROVE  /\ IsInjective(FlattenSeq(ss))
         /\ \A x : x \in Range(FlattenSeq(ss)) <=> \E i \in 1..Len(ss) : x \in Range(ss[i])
<1> DEFINE Is(f, i) == /\ IsInjective(f[i])
                       /\ \A x : x \in Range(f[i]) <=> \E j \in 1..i : x \in Range(ss[j])
<1> PICK n : n = Len(ss)
  OBVIOUS
<1>1. n \in Nat /\ \A i \in 1..n : ss[i] \in Seq(S)
  OBVIOUS
<1>2. PICK f \in [0..n -> Seq(S)] : Joins(f, ss)
  BY JoinsExist
<1>3. f[0] = <<>> /\ \A i \in 1..n : f[i] = f[i - 1] \o ss[i]
  BY <1>2 DEF Joins
<1>4. Is(f, 0)
  <2>1. Range(<<>>) = {} /\ IsInjective(<<>>)
    BY DEF Range, IsInjective
  <2> QED
    BY <1>3, <2>1
<1>5. ASSUME NEW i \in 1..n, Is(f, i - 1)
      PROVE  Is(f, i)
  <2>1. i - 1 \in 0..n /\ i \in Nat
    BY <1>1
  <2>2. f[i - 1] \in Seq(S) /\ ss[i] \in Seq(S) /\ f[i] = f[i - 1] \o ss[i]
    BY <1>1, <1>2, <1>3, <2>1
  <2>3. \A j \in 1..i - 1 : j \in 1..n /\ j # i
    BY <1>1, <2>1
  <2>4. Range(f[i - 1]) \cap Range(ss[i]) = {}
    BY <1>5, <2>3 DEF Apart
  <2>5. IsInjective(ss[i])
    BY DEF Apart
  <2>6. Range(f[i]) = Range(f[i - 1]) \cup Range(ss[i]) /\ IsInjective(f[i])
    BY <1>5, <2>2, <2>4, <2>5, ConcatRange
  <2>7. 1..i = (1..i - 1) \cup {i}
    BY <2>1
  <2> QED
    BY <1>5, <2>6, <2>7
<1> DEFINE T == {i \in 0..n : ~Is(f, i)}
<1> HIDE DEF Is
<1>6. T = {}
  <2> SUFFICES ASSUME T # {}
               PROVE  FALSE
    OBVIOUS
  <2>1. T \in SUBSET Nat
    BY <1>1
  <2>2. PICK i \in T : \A j \in T : i <= j
    BY <2>1, LeastNat
  <2>3. i # 0
    BY <1>4
  <2>4. i \in 1..n /\ i - 1 \in 0..n /\ ~(i <= i - 1)
    BY <2>3, <1>1
  <2>5. Is(f, i - 1)
    BY <2>2, <2>4
  <2> QED
    BY <1>5, <2>4, <2>5
<1>7. Is(f, n)
  BY <1>1, <1>6
<1>8. FlattenSeq(ss) = f[n]
  BY <1>2, FlattenJoins
<1> QED
  BY <1>7, <1>8 DEF Is

(* A sequence without repetitions is as long as it has elements. *)
LEMMA InjectiveLength ==
  ASSUME NEW S, NEW s \in Seq(S), IsInjective(s)
  PROVE  IsFiniteSet(Range(s)) /\ Cardinality(Range(s)) = Len(s)
<1>1. Len(s) \in Nat /\ DOMAIN s = 1..Len(s)
  OBVIOUS
<1>2. s \in [1..Len(s) -> Range(s)]
  BY <1>1 DEF Range
<1>3. \A y \in Range(s) : \E i \in 1..Len(s) : s[i] = y
  BY <1>1 DEF Range
<1>4. s \in Bijection(1..Len(s), Range(s))
  BY <1>1, <1>2, <1>3 DEF Bijection, Injection, Surjection, IsInjective
<1>5. ExistsBijection(1..Len(s), Range(s))
  BY <1>4 DEF ExistsBijection
<1> QED
  BY <1>1, <1>5, FS_NatBijection, FS_CountingElements
-----------------------------------------------------------------------------
(* The heap. *)
ItemsOf(R) == [val : Nat, ref : R]

(* The entries of L that have a heap_idx find an item of their own there. *)
FindsOwn(a, idx, L) ==
  \A r \in L : idx[r] # NoIdx => idx[r] \in 1..Len(a) /\ a[idx[r]].ref = r

LEMMA VisitedProperties ==
  ASSUME NEW n \in Nat, NEW next \in [1..n -> 1..n], NEW pos \in 1..n
  PROVE  /\ Visited(next, pos) \subseteq 1..n
         /\ pos \in Visited(next, pos)
         /\ \A s \in Visited(next, pos) : next[s] \in Visited(next, pos)
         /\ \A i \in Visited(next, pos) :
              i # pos => \E c \in Visited(next, pos) : c # i /\ next[c] = i
<1> DEFINE V == Visited(next, pos)
<1>1. V \subseteq 1..n /\ pos \in V
  BY DEF Visited
<1>2. \A s \in V : next[s] \in V
  BY DEF Visited
<1>3. ASSUME NEW i \in V, i # pos, \A c \in V : c = i \/ next[c] # i
      PROVE  FALSE
  <2> DEFINE S == V \ {i}
  <2>1. S \in SUBSET DOMAIN next /\ pos \in S
    BY <1>1, <1>3
  <2>2. \A s \in S : next[s] \in S
    BY <1>2, <1>3
  <2>3. i \in S
    BY <2>1, <2>2 DEF Visited
  <2> QED
    BY <2>3
<1> QED
  BY <1>1, <1>2, <1>3

LEMMA ClimbType ==
  ASSUME NEW R, NEW a \in Seq(ItemsOf(R)), NEW pos \in 1..Len(a)
  PROVE  /\ Climb(a, pos) \in [1..Len(a) -> 1..Len(a)]
         /\ \A s \in 1..Len(a) : Climb(a, pos)[s] <= s
BY DEF Climb, Parent

LEMMA SinkType ==
  ASSUME NEW R, NEW a \in Seq(ItemsOf(R)), NEW pos \in 1..Len(a)
  PROVE  /\ Sink(a, pos) \in [1..Len(a) -> 1..Len(a)]
         /\ \A s \in 1..Len(a) : Sink(a, pos)[s] >= s
<1>1. ASSUME NEW s \in 1..Len(a)
      PROVE  /\ Sink(a, pos)[s] \in 1..Len(a)
             /\ Sink(a, pos)[s] >= s
  BY DEF Sink, Smaller
<1> QED
  BY <1>1 DEF Sink

(* A sift u of a moves items among the slots it writes, none twice and     *)
(* none lost, and the entries of these items find a slot with their item.  *)
Permutes(a, idx, u) ==
  /\ Len(u.heap) = Len(a) /\ u.wrote \subseteq 1..Len(a)
  /\ \A i \in 1..Len(a) \ u.wrote : u.heap[i] = a[i]
  /\ \E src \in [u.wrote -> u.wrote] :
       /\ \A i \in u.wrote : u.heap[i] = a[src[i]]
       /\ \A i, j \in u.wrote : src[i] = src[j] => i = j
       /\ \A j \in u.wrote : \E i \in u.wrote : src[i] = j
  /\ \A r \in DOMAIN idx :
       IF \E i \in u.wrote : u.heap[i].ref = r
       THEN u.idx[r] \in u.wrote /\ u.heap[u.idx[r]].ref = r
       ELSE u.idx[r] = idx[r]

LEMMA SiftPermutes ==
  ASSUME NEW R, NEW a \in Seq(ItemsOf(R)), NEW idx \in [R -> Nat],
         NEW pos \in 1..Len(a),
         NEW next \in [1..Len(a) -> 1..Len(a)],
         \/ \A s \in 1..Len(a) : next[s] <= s
         \/ \A s \in 1..Len(a) : next[s] >= s
  PROVE  /\ Sift(a, idx, pos, next).heap \in Seq(ItemsOf(R))
         /\ Sift(a, idx, pos, next).idx \in [R -> Nat]
         /\ Permutes(a, idx, Sift(a, idx, pos, next))
<1> DEFINE n == Len(a)
           path == Visited(next, pos)
           src == [i \in path |-> IF next[i] # i THEN next[i] ELSE pos]
           b == [i \in 1..n |-> CASE i \notin path                   -> a[i]
                                 [] i \in path /\ next[i] # i -> a[next[i]]
                                 [] i \in path /\ next[i] = i -> a[pos]]
           slots(r) == {i \in path : b[i].ref = r}
           jdx == [r \in DOMAIN idx |->
                     CASE slots(r) = {} -> idx[r]
                       [] slots(r) # {} /\ next[pos] <= pos -> Min(slots(r))
                       [] slots(r) # {} /\ next[pos] > pos  -> Max(slots(r))]
<1>1. Sift(a, idx, pos, next) = [heap |-> b, idx |-> jdx, wrote |-> path]
  BY DEF Sift
<1>2. n \in Nat /\ \A i \in 1..n : a[i] \in ItemsOf(R)
  OBVIOUS
<1>3. /\ path \subseteq 1..n
      /\ pos \in path
      /\ \A s \in path : next[s] \in path
      /\ \A i \in path : i # pos => \E c \in path : c # i /\ next[c] = i
  BY <1>2, VisitedProperties
<1> HIDE DEF path
<1>3a. \A s \in path : s \in Nat /\ s \in 0..n /\ next[s] \in Nat
  BY <1>2, <1>3
<1>4. src \in [path -> path]
  BY <1>3
<1>5. /\ \A i \in 1..n : i \notin path => b[i] = a[i]
      /\ \A i \in path : b[i] = a[src[i]]
  BY <1>3
<1>6. b \in Seq(ItemsOf(R)) /\ Len(b) = n
  <2>1. \A i \in 1..n : b[i] \in ItemsOf(R)
    BY <1>2, <1>3, <1>4, <1>5
  <2> QED
    BY <2>1, <1>2
(* The loop ends in a slot of the path. *)
<1>7. \E e \in path : next[e] = e
  <2>1. CASE \A s \in 1..n : next[s] <= s
    <3>1. path \in SUBSET Nat /\ path # {}
      BY <1>3
    <3>2. Min(path) \in path /\ \A y \in path : Min(path) <= y
      BY <3>1, MinIn
    <3>3. next[Min(path)] <= Min(path) /\ Min(path) <= next[Min(path)]
      BY <2>1, <3>2, <1>3
    <3> QED
      BY <3>2, <3>3, <1>3a
  <2>2. CASE \A s \in 1..n : next[s] >= s
    <3>1. path \in SUBSET (0..n) /\ path # {}
      BY <1>3
    <3>2. Max(path) \in path /\ \A y \in path : y <= Max(path)
      BY <3>1, <1>2, MaxIn
    <3>3. next[Max(path)] >= Max(path) /\ next[Max(path)] <= Max(path)
      BY <2>2, <3>2, <1>3
    <3> QED
      BY <3>2, <3>3, <1>3a
  <2> QED
    BY <2>1, <2>2
<1>8. \A j \in path : \E i \in path : src[i] = j
  <2> TAKE j \in path
  <2>1. CASE j # pos
    BY <2>1, <1>3
  <2>2. CASE j = pos
    BY <2>2, <1>7
  <2> QED
    BY <2>1, <2>2
<1> HIDE DEF src, b
(* A finite set is not mapped onto itself but one to one. *)
<1>9. \A i, j \in path : src[i] = src[j] => i = j
  <2>1. IsFiniteSet(path)
    <3>1. IsFiniteSet(1..n)
      BY <1>2, FS_Interval
    <3> QED
      BY <3>1, <1>3, FS_Subset
  <2>2. src \in Surjection(path, path)
    BY <1>4, <1>8, Fun_IsSurj
  <2>3. src \in Injection(path, path)
    BY <2>1, <2>2, FS_Surjection
  <2> QED
    BY <2>3, Fun_InjectionProperties
<1>10. ASSUME NEW r \in R, slots(r) # {}
       PROVE  jdx[r] \in slots(r)
  <2>1. slots(r) \in SUBSET Nat /\ slots(r) \in SUBSET (0..n)
    BY <1>3a
  <2>2. Min(slots(r)) \in slots(r)
    BY <2>1, <1>10, MinIn
  <2>3. Max(slots(r)) \in slots(r)
    BY <2>1, <1>2, <1>10, MaxIn
  <2>4. next[pos] \in Int /\ pos \in Int
    BY <1>3
  <2> HIDE DEF slots
  <2>5. CASE next[pos] <= pos
    BY <2>2, <2>4, <2>5, <1>10
  <2>6. CASE next[pos] > pos
    BY <2>3, <2>4, <2>6, <1>10
  <2> QED
    BY <2>4, <2>5, <2>6
<1>11. ASSUME NEW r \in R, slots(r) = {}
       PROVE  jdx[r] = idx[r]
  BY <1>11
<1> HIDE DEF jdx
<1>12. jdx \in [R -> Nat]
  <2>1. \A r \in R : jdx[r] \in Nat
    <3> TAKE r \in R
    <3>1. slots(r) \subseteq Nat
      BY <1>3a
    <3> QED
      BY <3>1, <1>10, <1>11
  <2> QED
    BY <2>1 DEF jdx
<1>13. \A r \in R : IF \E i \in path : b[i].ref = r
                    THEN jdx[r] \in path /\ b[jdx[r]].ref = r
                    ELSE jdx[r] = idx[r]
  BY <1>10, <1>11
<1>14. \E f \in [path -> path] :
         /\ \A i \in path : b[i] = a[f[i]]
         /\ \A i, j \in path : f[i] = f[j] => i = j
         /\ \A j \in path : \E i \in path : f[i] = j
  BY <1>4, <1>5, <1>8, <1>9
<1> HIDE DEF slots
<1> DEFINE u == Sift(a, idx, pos, next)
<1>15. u.heap = b /\ u.idx = jdx /\ u.wrote = path
  BY <1>1
<1> HIDE DEF u
<1>16. /\ Len(u.heap) = Len(a) /\ u.wrote \subseteq 1..Len(a)
       /\ \A i \in 1..Len(a) \ u.wrote : u.heap[i] = a[i]
  BY <1>3, <1>5, <1>6, <1>15
<1>17. Permutes(a, idx, u)
  <2>1. \E f \in [u.wrote -> u.wrote] :
          /\ \A i \in u.wrote : u.heap[i] = a[f[i]]
          /\ \A i, j \in u.wrote : f[i] = f[j] => i = j
          /\ \A j \in u.wrote : \E i \in u.wrote : f[i] = j
    BY <1>14, <1>15
  <2>2. \A r \in DOMAIN idx : IF \E i \in u.wrote : u.heap[i].ref = r
                              THEN u.idx[r] \in u.wrote /\ u.heap[u.idx[r]].ref = r
                              ELSE u.idx[r] = idx[r]
    BY <1>13, <1>15
  <2> QED
    BY <2>1, <2>2, <1>16 DEF Permutes
<1> QED
  BY <1>6, <1>12, <1>15, <1>17 DEF u

(* An entry that found an item of its own still does. *)
LEMMA SiftFinds ==
  ASSUME NEW R, NEW a, NEW idx \in [R -> Nat], NEW u, Permutes(a, idx, u),
         NEW L \in SUBSET R, FindsOwn(a, idx, L)
  PROVE  FindsOwn(u.heap, u.idx, L)
<1> SUFFICES ASSUME NEW r \in L, u.idx[r] # NoIdx
             PROVE  u.idx[r] \in 1..Len(u.heap) /\ u.heap[u.idx[r]].ref = r
  BY DEF FindsOwn
<1>1. CASE \E i \in u.wrote : u.heap[i].ref = r
  BY <1>1 DEF Permutes
<1>2. CASE ~ \E i \in u.wrote : u.heap[i].ref = r
  <2>1. u.idx[r] = idx[r]
    BY <1>2 DEF Permutes
  <2>2. idx[r] \in 1..Len(a) /\ a[idx[r]].ref = r
    BY <2>1 DEF FindsOwn
  <2>3. idx[r] \notin u.wrote
    <3>1. \A j \in u.wrote : \E i \in u.wrote : u.heap[i] = a[j]
      <4>1. PICK src \in [u.wrote -> u.wrote] :
              /\ \A i \in u.wrote : u.heap[i] = a[src[i]]
              /\ \A j \in u.wrote : \E i \in u.wrote : src[i] = j
        BY DEF Permutes
      <4> QED
        BY <4>1
    <3> QED
      BY <3>1, <2>2, <1>2
  <2> QED
    BY <2>1, <2>2, <2>3 DEF Permutes
<1> QED
  BY <1>1, <1>2

(* heap_update, wherever the item of pos has to go. *)
LEMMA HeapUpdatePermutes ==
  ASSUME NEW R, NEW a \in Seq(ItemsOf(R)), NEW idx \in [R -> Nat], NEW pos \in 1..Len(a)
  PROVE  /\ heap_update(a, idx, pos).heap \in Seq(ItemsOf(R))
         /\ heap_update(a, idx, pos).idx \in [R -> Nat]
         /\ Permutes(a, idx, heap_update(a, idx, pos))
<1>1. /\ heap_up(a, idx, pos).heap \in Seq(ItemsOf(R))
      /\ heap_up(a, idx, pos).idx \in [R -> Nat]
      /\ Permutes(a, idx, heap_up(a, idx, pos))
  BY ClimbType, SiftPermutes DEF heap_up
<1>2. /\ heap_down(a, idx, pos).heap \in Seq(ItemsOf(R))
      /\ heap_down(a, idx, pos).idx \in [R -> Nat]
      /\ Permutes(a, idx, heap_down(a, idx, pos))
  BY SinkType, SiftPermutes DEF heap_down
<1> QED
  BY <1>1, <1>2 DEF heap_update

LEMMA HeapUpdateProperties ==
  ASSUME NEW R, NEW a \in Seq(ItemsOf(R)), NEW idx \in [R -> Nat],
         NEW pos \in 1..Len(a), NEW L \in SUBSET R, FindsOwn(a, idx, L)
  PROVE  /\ heap_update(a, idx, pos).heap \in Seq(ItemsOf(R))
         /\ Len(heap_update(a, idx, pos).heap) = Len(a)
         /\ heap_update(a, idx, pos).idx \in [R -> Nat]
         /\ FindsOwn(heap_update(a, idx, pos).heap, heap_update(a, idx, pos).idx, L)
<1>1. Permutes(a, idx, heap_update(a, idx, pos))
  BY HeapUpdatePermutes
<1>2. Len(heap_update(a, idx, pos).heap) = Len(a)
  BY <1>1 DEF Permutes
<1> QED
  BY <1>1, <1>2, HeapUpdatePermutes, SiftFinds

(* entry_set_ttl with a deadline, on an entry of L. *)
LEMMA PutTimerProperties ==
  ASSUME NEW R, NEW a \in Seq(ItemsOf(R)), NEW idx \in [R -> Nat],
         NEW L \in SUBSET R, FindsOwn(a, idx, L), NEW r \in L, NEW val \in Nat
  PROVE  /\ PutTimer(a, idx, r, val).heap \in Seq(ItemsOf(R))
         /\ PutTimer(a, idx, r, val).idx \in [R -> Nat]
         /\ FindsOwn(PutTimer(a, idx, r, val).heap, PutTimer(a, idx, r, val).idx, L)
<1> DEFINE fresh == idx[r] = NoIdx
           pos == IF fresh THEN Len(a) + 1 ELSE idx[r]
           b == IF fresh THEN Append(a, [val |-> val, ref |-> r])
                         ELSE [a EXCEPT ![pos].val = val]
           jdx == [idx EXCEPT ![r] = pos]
<1>1. PutTimer(a, idx, r, val) = heap_update(b, jdx, pos)
  BY DEF PutTimer
<1>2. Len(a) \in Nat /\ idx[r] \in Nat /\ \A i \in 1..Len(a) : a[i] \in ItemsOf(R)
  OBVIOUS
<1>3. /\ b \in Seq(ItemsOf(R))
      /\ pos \in 1..Len(b)
      /\ FindsOwn(b, jdx, L)
  <2>1. CASE fresh
    <3>1. [val |-> val, ref |-> r] \in ItemsOf(R)
      BY DEF ItemsOf
    <3>2. /\ b \in Seq(ItemsOf(R)) /\ Len(b) = Len(a) + 1 /\ pos = Len(a) + 1
          /\ \A i \in 1..Len(a) : b[i] = a[i]
          /\ b[pos].ref = r
      BY <2>1, <3>1, <1>2, AppendProperties
    <3> HIDE DEF b, pos
    <3>3. ASSUME NEW s \in L, jdx[s] # NoIdx
          PROVE  jdx[s] \in 1..Len(b) /\ b[jdx[s]].ref = s
      <4>1. CASE s = r
        BY <4>1, <3>2, <1>2
      <4>2. CASE s # r
        <5>1. jdx[s] = idx[s]
          BY <4>2
        <5>2. idx[s] \in 1..Len(a) /\ a[idx[s]].ref = s
          BY <5>1, <3>3 DEF FindsOwn
        <5> QED
          BY <5>1, <5>2, <3>2, <1>2
      <4> QED
        BY <4>1, <4>2
    <3> QED
      BY <3>2, <3>3, <1>2 DEF FindsOwn
  <2>2. CASE ~fresh
    <3>1. pos = idx[r] /\ pos \in 1..Len(a) /\ a[pos].ref = r
      BY <2>2 DEF FindsOwn
    <3> DEFINE c == [a[pos] EXCEPT !.val = val]
    <3>2. c \in ItemsOf(R)
      BY <3>1, <1>2 DEF ItemsOf
    <3>3. b = [a EXCEPT ![pos] = c]
      BY <2>2, <3>1
    <3>4. c.ref = a[pos].ref
      BY <3>1, <1>2 DEF ItemsOf
    <3>5. jdx = idx
      BY <3>1
    <3> HIDE DEF b, c, pos
    <3>6. /\ b \in Seq(ItemsOf(R)) /\ Len(b) = Len(a)
          /\ \A i \in 1..Len(a) : b[i].ref = a[i].ref
      <4>1. b \in Seq(ItemsOf(R)) /\ Len(b) = Len(a)
        BY <3>1, <3>2, <3>3, ExceptSeq
      <4>2. \A i \in 1..Len(a) : b[i] = IF i = pos THEN c ELSE a[i]
        BY <3>1, <3>2, <3>3, ExceptSeq
      <4> QED
        BY <4>1, <4>2, <3>4
    <3> QED
      BY <3>1, <3>6, <3>5 DEF FindsOwn
  <2> QED
    BY <2>1, <2>2
<1>4. jdx \in [R -> Nat]
  BY <1>2
<1> HIDE DEF b, jdx, pos
<1>5. /\ heap_update(b, jdx, pos).heap \in Seq(ItemsOf(R))
      /\ heap_update(b, jdx, pos).idx \in [R -> Nat]
      /\ FindsOwn(heap_update(b, jdx, pos).heap, heap_update(b, jdx, pos).idx, L)
  BY <1>3, <1>4, HeapUpdateProperties
<1> QED
  BY <1>1, <1>5

(* The heap_idx of all entries when the last item has taken the place of   *)
(* that of r.                                                              *)
Refilled(a, idx, r) ==
  IF idx[r] = Len(a) THEN idx ELSE [idx EXCEPT ![a[Len(a)].ref] = idx[r]]

(* The last item in the gap: the entries of L but r find their items.      *)
LEMMA FillProperties ==
  ASSUME NEW R, NEW a \in Seq(ItemsOf(R)), NEW idx \in [R -> Nat],
         NEW L \in SUBSET R, FindsOwn(a, idx, L), NEW r \in L, idx[r] # NoIdx
  PROVE  /\ idx[r] \in 1..Len(a) /\ a[idx[r]].ref = r
         /\ FillFromLast(a, idx[r]) \in Seq(ItemsOf(R))
         /\ \A i \in 1..Len(a) - 1 :
              FillFromLast(a, idx[r])[i] = IF i = idx[r] THEN a[Len(a)] ELSE a[i]
         /\ Refilled(a, idx, r) \in [R -> Nat]
         /\ FindsOwn(FillFromLast(a, idx[r]), Refilled(a, idx, r), L \ {r})
<1> DEFINE pos == idx[r]
           n == Len(a)
           b == FillFromLast(a, pos)
           moved == Refilled(a, idx, r)
<1>1. n \in Nat /\ pos \in 1..n /\ a[pos].ref = r /\ \A i \in 1..n : a[i] \in ItemsOf(R)
  BY DEF FindsOwn
<1>2. a[n].ref \in R
  BY <1>1 DEF ItemsOf
<1>3. /\ \A i \in 1..n - 1 : b[i] = IF i = pos THEN a[n] ELSE a[i]
      /\ DOMAIN b = 1..n - 1
  BY DEF FillFromLast
<1>4. b \in Seq(ItemsOf(R)) /\ Len(b) = n - 1
  <2>1. n - 1 \in Nat /\ \A i \in 1..n - 1 : b[i] \in ItemsOf(R)
    BY <1>1, <1>3
  <2> QED
    BY <2>1 DEF FillFromLast
<1> HIDE DEF b
<1>5. moved \in [R -> Nat]
  BY <1>1 DEF Refilled
<1>6. FindsOwn(b, moved, L \ {r})
  <2> SUFFICES ASSUME NEW s \in L \ {r}, moved[s] # NoIdx
               PROVE  moved[s] \in 1..Len(b) /\ b[moved[s]].ref = s
    BY DEF FindsOwn
  <2>1. CASE moved[s] = idx[s]
    <3>1. idx[s] \in 1..n /\ a[idx[s]].ref = s
      BY <2>1 DEF FindsOwn
    <3>2. idx[s] # pos
      BY <3>1, <1>1
    <3>3. idx[s] # n
      <4>1. CASE pos = n
        BY <4>1, <3>2
      <4>2. CASE pos # n /\ s # a[n].ref
        BY <4>2, <3>1
      <4>3. CASE pos # n /\ s = a[n].ref
        <5>1. moved[s] = pos
          BY <4>3, <1>2 DEF Refilled
        <5> QED
          BY <5>1, <2>1, <3>2
      <4> QED
        BY <4>1, <4>2, <4>3
    <3> QED
      BY <2>1, <3>1, <3>2, <3>3, <1>1, <1>3, <1>4
  <2>2. CASE moved[s] # idx[s]
    <3>1. pos # n /\ s = a[n].ref /\ moved[s] = pos
      BY <2>2 DEF Refilled
    <3> QED
      BY <3>1, <1>1, <1>3, <1>4
  <2> QED
    BY <2>1, <2>2
<1> QED
  BY <1>1, <1>3, <1>4, <1>5, <1>6 DEF b

(* The removal of the item of an entry of L that has one. *)
LEMMA RemoveTimerProperties ==
  ASSUME NEW R, NEW a \in Seq(ItemsOf(R)), NEW idx \in [R -> Nat],
         NEW L \in SUBSET R, FindsOwn(a, idx, L), NEW r \in L, idx[r] # NoIdx
  PROVE  /\ RemoveTimer(a, idx, r).heap \in Seq(ItemsOf(R))
         /\ RemoveTimer(a, idx, r).idx \in [R -> Nat]
         /\ FindsOwn(RemoveTimer(a, idx, r).heap, RemoveTimer(a, idx, r).idx, L)
<1> DEFINE pos == idx[r]
           n == Len(a)
           b == FillFromLast(a, pos)
           moved == Refilled(a, idx, r)
           u == IF pos = n THEN [heap |-> b, idx |-> moved, wrote |-> {}]
                           ELSE heap_update(b, moved, pos)
<1>1. /\ RemoveTimer(a, idx, r).heap = u.heap
      /\ RemoveTimer(a, idx, r).idx = [u.idx EXCEPT ![r] = NoIdx]
  BY DEF RemoveTimer, Refilled
<1>2. /\ pos \in 1..n
      /\ b \in Seq(ItemsOf(R)) /\ Len(b) = n - 1
      /\ moved \in [R -> Nat]
      /\ FindsOwn(b, moved, L \ {r})
  <2>1. pos \in 1..n
    BY FillProperties
  <2>2. b \in Seq(ItemsOf(R))
    BY FillProperties
  <2>3. Len(b) = n - 1
    BY <2>1 DEF FillFromLast
  <2>4. moved \in [R -> Nat]
    BY FillProperties
  <2>5. FindsOwn(b, moved, L \ {r})
    BY FillProperties
  <2> QED
    BY <2>1, <2>2, <2>3, <2>4, <2>5
<1>3. /\ u.heap \in Seq(ItemsOf(R))
      /\ u.idx \in [R -> Nat]
      /\ FindsOwn(u.heap, u.idx, L \ {r})
  <2>1. CASE pos = n
    BY <2>1, <1>2
  <2>2. CASE pos # n
    <3>1. u = heap_update(b, moved, pos) /\ pos \in 1..Len(b) /\ L \ {r} \in SUBSET R
      BY <2>2, <1>2
    <3> HIDE DEF b, moved, pos, u
    <3> QED
      BY <3>1, <1>2, HeapUpdateProperties
  <2> QED
    BY <2>1, <2>2
<1> HIDE DEF u
<1>4. FindsOwn(u.heap, [u.idx EXCEPT ![r] = NoIdx], L)
  BY <1>3 DEF FindsOwn, NoIdx
<1> QED
  BY <1>1, <1>3, <1>4 DEF NoIdx
-----------------------------------------------------------------------------
(* The heap order.  Before a sift only the item of pos may be out of place:*)
(* its children are not smaller than its parent.                           *)
OrderedBut(a, pos) ==
  /\ \A i \in 2..Len(a) : i # pos /\ Parent(i) # pos => a[Parent(i)].val <= a[i].val
  /\ \A i \in 2..Len(a) : Parent(i) = pos /\ pos > 1 => a[Parent(pos)].val <= a[i].val

LEMMA ParentProperties ==
  ASSUME NEW i \in Nat, i >= 2
  PROVE  /\ Parent(i) \in Nat /\ 1 <= Parent(i) /\ Parent(i) < i
         /\ i = 2 * Parent(i) \/ i = 2 * Parent(i) + 1
BY DEF Parent

LEMMA ParentOfChild ==
  ASSUME NEW c \in Nat
  PROVE  Parent(2 * c) = c /\ Parent(2 * c + 1) = c
BY DEF Parent

(* The slots of a climb are not above pos, those of a sink not below. *)
LEMMA VisitedBounds ==
  ASSUME NEW n \in Nat, NEW next \in [1..n -> 1..n], NEW pos \in 1..n
  PROVE  /\ (\A s \in 1..n : next[s] <= s) => \A s \in Visited(next, pos) : s <= pos
         /\ (\A s \in 1..n : next[s] >= s) => \A s \in Visited(next, pos) : s >= pos
<1>1. ASSUME \A s \in 1..n : next[s] <= s, NEW v \in Visited(next, pos)
      PROVE  v <= pos
  <2> DEFINE S == {s \in 1..n : s <= pos}
  <2>1. S \in SUBSET DOMAIN next /\ pos \in S /\ \A s \in S : next[s] \in S
    BY <1>1
  <2> QED
    BY <2>1, <1>1 DEF Visited
<1>2. ASSUME \A s \in 1..n : next[s] >= s, NEW v \in Visited(next, pos)
      PROVE  v >= pos
  <2> DEFINE S == {s \in 1..n : s >= pos}
  <2>1. S \in SUBSET DOMAIN next /\ pos \in S /\ \A s \in S : next[s] \in S
    BY <1>2
  <2> QED
    BY <2>1, <1>2 DEF Visited
<1> QED
  BY <1>1, <1>2

LEMMA ClimbOrders ==
  ASSUME NEW R, NEW a \in Seq(ItemsOf(R)), NEW idx, NEW pos \in 1..Len(a),
         OrderedBut(a, pos), pos > 1, a[Parent(pos)].val > a[pos].val
  PROVE  HeapOrdered(heap_up(a, idx, pos).heap)
<1> DEFINE n == Len(a)
           next == Climb(a, pos)
           V == Visited(next, pos)
           v == a[pos].val
           b == [i \in 1..n |-> CASE i \notin V                -> a[i]
                                 [] i \in V /\ next[i] # i -> a[next[i]]
                                 [] i \in V /\ next[i] = i -> a[pos]]
<1>1. heap_up(a, idx, pos).heap = b
  BY DEF heap_up, Sift
<1>2. n \in Nat /\ \A i \in 1..n : a[i].val \in Nat
  <2>1. n \in Nat /\ \A i \in 1..n : a[i] \in ItemsOf(R)
    OBVIOUS
  <2> QED
    BY <2>1 DEF ItemsOf
<1>3. next \in [1..n -> 1..n] /\ \A s \in 1..n : next[s] <= s
  BY ClimbType
<1>4. \A s \in 1..n : \/ s > 1 /\ a[Parent(s)].val > v /\ next[s] = Parent(s)
                      \/ (s > 1 => a[Parent(s)].val <= v) /\ next[s] = s
  <2> SUFFICES ASSUME NEW s \in 1..n
               PROVE  \/ s > 1 /\ a[Parent(s)].val > v /\ next[s] = Parent(s)
                      \/ (s > 1 => a[Parent(s)].val <= v) /\ next[s] = s
    OBVIOUS
  <2>1. s > 1 => Parent(s) \in 1..n
    BY ParentProperties
  <2> QED
    BY <2>1, <1>2 DEF Climb
<1> HIDE DEF next
<1>5. /\ V \subseteq 1..n /\ pos \in V
      /\ \A s \in V : next[s] \in V /\ s <= pos
      /\ \A i \in V : i # pos => \E c \in V : c # i /\ next[c] = i
  BY <1>2, <1>3, VisitedProperties, VisitedBounds
<1> HIDE DEF V
(* The hole went through every slot of V but pos: its item was larger. *)
<1>6. \A i \in V : i # pos => a[i].val > v
  BY <1>4, <1>5
<1>7. Len(b) = n /\ \A i \in 1..n :
        /\ i \notin V => b[i].val = a[i].val
        /\ i \in V /\ next[i] # i => b[i].val = a[Parent(i)].val
        /\ i \in V /\ next[i] = i => b[i].val = v
  BY <1>2, <1>4, <1>5
<1> HIDE DEF b
<1> SUFFICES ASSUME NEW i \in 2..n
             PROVE  b[Parent(i)].val <= b[i].val
  BY <1>1, <1>7 DEF HeapOrdered
<1> DEFINE p == Parent(i)
           g == Parent(p)
<1>8. p \in 1..n /\ p < i /\ (p > 1 => g \in 1..n /\ g < p)
  BY <1>2, ParentProperties
<1> HIDE DEF p, g, v
<1>9. CASE i \notin V /\ p \notin V
  BY <1>2, <1>5, <1>7, <1>8, <1>9 DEF OrderedBut, p
<1>10. CASE i \in V /\ next[i] = i
  <2>1. a[p].val <= v
    BY <1>2, <1>4, <1>5, <1>8, <1>10 DEF p
  <2>2. p \notin V
    BY <2>1, <1>2, <1>5, <1>6, <1>8, <1>10 DEF v
  <2> QED
    BY <2>1, <2>2, <1>7, <1>8, <1>10 DEF p
<1>11. CASE i \in V /\ next[i] # i
  <2>1. next[i] = p /\ a[p].val > v /\ p \in V /\ b[i].val = a[p].val
    BY <1>4, <1>5, <1>7, <1>11 DEF p
  <2>2. p < pos
    BY <1>5, <1>8, <1>11
  <2>3. CASE next[p] = p
    BY <2>1, <2>3, <1>2, <1>7, <1>8 DEF p, v
  <2>4. CASE next[p] # p
    <3>1. p > 1 /\ b[p].val = a[g].val
      BY <2>1, <2>4, <1>4, <1>7, <1>8 DEF g
    <3>2. a[g].val <= a[p].val
      BY <3>1, <2>2, <1>2, <1>8 DEF OrderedBut, g
    <3> QED
      BY <3>1, <3>2, <2>1 DEF p
  <2> QED
    BY <2>3, <2>4
<1>12. CASE i \notin V /\ p \in V
  <2>1. b[i].val = a[i].val /\ i # pos
    BY <1>5, <1>7, <1>12
  <2>2. CASE p = pos
    <3>1. b[p].val = a[g].val
      BY <2>2, <1>2, <1>4, <1>5, <1>7, <1>8 DEF g, v
    <3> QED
      BY <3>1, <2>1, <2>2 DEF OrderedBut, p, g
  <2>3. CASE p # pos
    <3>1. a[p].val > v /\ p < pos
      <4>1. a[p].val > v
        BY <2>3, <1>6, <1>12
      <4>2. p <= pos
        BY <1>5, <1>12
      <4> QED
        BY <4>1, <4>2, <2>3, <1>2, <1>8
    <3>2. a[p].val <= a[i].val
      BY <2>1, <2>3, <1>8 DEF OrderedBut, p
    <3>3. CASE next[p] = p
      BY <3>1, <3>2, <3>3, <2>1, <1>2, <1>7, <1>8, <1>12 DEF p, v
    <3>4. CASE next[p] # p
      <4>1. p > 1 /\ b[p].val = a[g].val
        BY <3>4, <1>4, <1>7, <1>8, <1>12 DEF g
      <4>2. a[g].val <= a[p].val
        BY <4>1, <3>1, <1>2, <1>8 DEF OrderedBut, g
      <4> QED
        BY <4>1, <4>2, <3>2, <2>1, <1>2, <1>8 DEF p
    <3> QED
      BY <3>3, <3>4
  <2> QED
    BY <2>2, <2>3
<1> QED
  BY <1>9, <1>10, <1>11, <1>12

LEMMA SinkOrders ==
  ASSUME NEW R, NEW a \in Seq(ItemsOf(R)), NEW idx, NEW pos \in 1..Len(a),
         OrderedBut(a, pos), pos > 1 => a[Parent(pos)].val <= a[pos].val
  PROVE  HeapOrdered(heap_down(a, idx, pos).heap)
<1> DEFINE n == Len(a)
           next == Sink(a, pos)
           V == Visited(next, pos)
           v == a[pos].val
           b == [i \in 1..n |-> CASE i \notin V                -> a[i]
                                 [] i \in V /\ next[i] # i -> a[next[i]]
                                 [] i \in V /\ next[i] = i -> a[pos]]
<1>1. heap_down(a, idx, pos).heap = b
  BY DEF heap_down, Sift
<1>2. n \in Nat /\ \A i \in 1..n : a[i].val \in Nat
  <2>1. n \in Nat /\ \A i \in 1..n : a[i] \in ItemsOf(R)
    OBVIOUS
  <2> QED
    BY <2>1 DEF ItemsOf
<1>3. next \in [1..n -> 1..n] /\ \A s \in 1..n : next[s] >= s
  BY SinkType
(* The hole goes on to a smaller child, or there is none. *)
<1>4. ASSUME NEW s \in 1..n
      PROVE  /\ next[s] # s => /\ Parent(next[s]) = s /\ a[next[s]].val < v
                               /\ \A o \in 2..n : Parent(o) = s => a[next[s]].val <= a[o].val
             /\ next[s] = s => \A o \in 2..n : Parent(o) = s => v <= a[o].val
  <2>1. \A o \in 2..n : Parent(o) = s => o \in {2 * s, 2 * s + 1}
    BY <1>2, ParentProperties
  <2>2. Parent(2 * s) = s /\ Parent(2 * s + 1) = s
    BY ParentOfChild
  <2>3. CASE Smaller(a, pos, s, 2 * s)
    <3>1. next[s] = 2 * s /\ next[s] # s
      BY <2>3 DEF Sink
    <3> QED
      BY <3>1, <2>1, <2>2, <2>3, <1>2 DEF Smaller
  <2>4. CASE Smaller(a, pos, s, 2 * s + 1) /\ ~Smaller(a, pos, s, 2 * s)
    <3>1. next[s] = 2 * s + 1 /\ next[s] # s
      BY <2>4 DEF Sink
    <3> QED
      BY <3>1, <2>1, <2>2, <2>4, <1>2 DEF Smaller
  <2>5. CASE ~Smaller(a, pos, s, 2 * s) /\ ~Smaller(a, pos, s, 2 * s + 1)
    <3>1. next[s] = s
      BY <2>5 DEF Sink
    <3>2. /\ 2 * s <= n => a[2 * s].val \in Nat
          /\ 2 * s + 1 <= n => a[2 * s + 1].val \in Nat
          /\ v \in Nat
      <4>1. /\ 2 * s <= n => 2 * s \in 1..n
            /\ 2 * s + 1 <= n => 2 * s + 1 \in 1..n
        BY <1>2
      <4> QED
        BY <4>1, <1>2
    <3> DEFINE l == a[2 * s].val
               r == a[2 * s + 1].val
    <3>3. 2 * s <= n => ~(l < v) \/ ~(l <= l) \/ (2 * s + 1 <= n /\ ~(l <= r))
      BY <2>5 DEF Smaller
    <3>4. 2 * s + 1 <= n => ~(r < v) \/ ~(r <= r) \/ (2 * s <= n /\ ~(r <= l))
      BY <2>5 DEF Smaller
    <3> HIDE DEF l, r, v
    <3>5. /\ 2 * s <= n => v <= l
          /\ 2 * s + 1 <= n => v <= r
      BY <3>2, <3>3, <3>4 DEF l, r
    <3>6. ASSUME NEW o \in 2..n, Parent(o) = s
          PROVE  v <= a[o].val
      <4>1. o <= n /\ (o = 2 * s \/ o = 2 * s + 1)
        BY <3>6, <2>1
      <4> QED
        BY <4>1, <3>5 DEF l, r
    <3> QED
      BY <3>1, <3>6
  <2> QED
    BY <2>3, <2>4, <2>5
<1> HIDE DEF next
<1>5. /\ V \subseteq 1..n /\ pos \in V
      /\ \A s \in V : next[s] \in V /\ s >= pos
      /\ \A i \in V : i # pos => \E c \in V : c # i /\ next[c] = i
  BY <1>2, <1>3, VisitedProperties, VisitedBounds
<1> HIDE DEF V
<1>6. Len(b) = n /\ \A i \in 1..n :
        /\ i \notin V => b[i].val = a[i].val
        /\ i \in V /\ next[i] # i => b[i].val = a[next[i]].val
        /\ i \in V /\ next[i] = i => b[i].val = v
  BY <1>2, <1>5
<1> HIDE DEF b
(* A slot of V below pos is where the hole went from its parent. *)
<1>7. \A i \in V : i # pos => Parent(i) \in V /\ next[Parent(i)] = i
  BY <1>4, <1>5
<1> SUFFICES ASSUME NEW i \in 2..n
             PROVE  b[Parent(i)].val <= b[i].val
  BY <1>1, <1>6 DEF HeapOrdered
<1> DEFINE p == Parent(i)
           c == next[i]
<1>8. i \in 1..n /\ i > 1 /\ p \in 1..n /\ p < i /\ c \in 1..n /\ c >= i
  BY <1>2, <1>3, ParentProperties
(* The child the hole moves on to was below i already. *)
<1>9. ASSUME i \in V, c # i
      PROVE  c \in 2..n /\ Parent(c) = i /\ b[i].val = a[c].val /\ c # pos
  BY <1>4, <1>5, <1>6, <1>8, <1>9
<1> HIDE DEF p, c, v
<1>10. CASE i \notin V /\ p \notin V
  BY <1>5, <1>6, <1>8, <1>10 DEF OrderedBut, p
<1>11. CASE i \notin V /\ p \in V
  <2>1. b[i].val = a[i].val
    BY <1>6, <1>8, <1>11
  <2>2. next[p] # p => b[p].val = a[next[p]].val /\ a[next[p]].val <= a[i].val
    BY <1>4, <1>6, <1>8, <1>11 DEF p
  <2>3. next[p] = p => b[p].val = v /\ v <= a[i].val
    BY <1>4, <1>6, <1>8, <1>11 DEF p
  <2> QED
    BY <2>1, <2>2, <2>3 DEF p
<1>12. CASE i \in V /\ p \notin V
  <2>1. i = pos
    BY <1>7, <1>12 DEF p
  <2>2. b[p].val = a[p].val
    BY <1>6, <1>8, <1>12
  <2>3. CASE c = i
    <3>1. b[i].val = v
      BY <2>3, <1>6, <1>8, <1>12 DEF c
    <3> QED
      BY <3>1, <2>1, <2>2, <1>8 DEF p, v
  <2>4. CASE c # i
    <3>1. c \in 2..n /\ Parent(c) = i /\ b[i].val = a[c].val
      BY <2>4, <1>9, <1>12
    <3> QED
      BY <3>1, <2>1, <2>2, <1>8 DEF OrderedBut, p
  <2> QED
    BY <2>3, <2>4
<1>13. CASE i \in V /\ p \in V
  <2>1. i # pos
    BY <1>5, <1>8, <1>13
  <2>2. next[p] = i /\ p # i
    BY <2>1, <1>7, <1>8, <1>13 DEF p
  <2>3. b[p].val = a[i].val /\ a[i].val < v
    BY <2>2, <1>4, <1>6, <1>8, <1>13
  <2>4. CASE c = i
    <3>1. b[i].val = v
      BY <2>4, <1>6, <1>8, <1>13 DEF c
    <3>2. v \in Nat /\ a[i].val \in Nat
      BY <1>2, <1>8 DEF v
    <3> QED
      BY <3>1, <3>2, <2>3 DEF p
  <2>5. CASE c # i
    <3>1. c \in 2..n /\ Parent(c) = i /\ b[i].val = a[c].val /\ c # pos
      BY <2>5, <1>9, <1>13
    <3> QED
      BY <3>1, <2>1, <2>3 DEF OrderedBut, p
  <2> QED
    BY <2>4, <2>5
<1> QED
  BY <1>10, <1>11, <1>12, <1>13

(* heap_update puts the one item in its place. *)
LEMMA HeapUpdateOrders ==
  ASSUME NEW R, NEW a \in Seq(ItemsOf(R)), NEW idx, NEW pos \in 1..Len(a), OrderedBut(a, pos)
  PROVE  HeapOrdered(heap_update(a, idx, pos).heap)
<1>1. CASE pos > 1 /\ a[Parent(pos)].val > a[pos].val
  BY <1>1, ClimbOrders DEF heap_update
<1>2. CASE ~(pos > 1 /\ a[Parent(pos)].val > a[pos].val)
  <2>1. pos > 1 => a[Parent(pos)].val <= a[pos].val
    <3>1. \A i \in 1..Len(a) : a[i] \in ItemsOf(R)
      OBVIOUS
    <3>2. pos > 1 => Parent(pos) \in 1..Len(a)
      BY ParentProperties
    <3> QED
      BY <3>1, <3>2, <1>2 DEF ItemsOf
  <2> QED
    BY <2>1, <1>2, SinkOrders DEF heap_update
<1> QED
  BY <1>1, <1>2

(* The slot of the item of r, and the heap with its new deadline, before   *)
(* heap_update.                                                            *)
SlotFor(a, idx, r) == IF idx[r] = NoIdx THEN Len(a) + 1 ELSE idx[r]

WithTimer(a, idx, r, val) ==
  IF idx[r] = NoIdx THEN Append(a, [val |-> val, ref |-> r])
                    ELSE [a EXCEPT ![idx[r]].val = val]

PlacedWell(R, b, pos) == b \in Seq(ItemsOf(R)) /\ pos \in 1..Len(b) /\ OrderedBut(b, pos)

LEMMA PlacedOrders ==
  ASSUME NEW R, NEW a \in Seq(ItemsOf(R)), NEW idx \in [R -> Nat], NEW r \in R, NEW val \in Nat,
         HeapOrdered(a), idx[r] # NoIdx => idx[r] \in 1..Len(a)
  PROVE  PlacedWell(R, WithTimer(a, idx, r, val), SlotFor(a, idx, r))
<1> DEFINE n == Len(a)
           fresh == idx[r] = NoIdx
           pos == IF fresh THEN n + 1 ELSE idx[r]
           b == IF fresh THEN Append(a, [val |-> val, ref |-> r])
                         ELSE [a EXCEPT ![pos].val = val]
<1>2. n \in Nat /\ \A i \in 1..n : a[i] \in ItemsOf(R) /\ a[i].val \in Nat
  <2>1. n \in Nat /\ \A i \in 1..n : a[i] \in ItemsOf(R)
    OBVIOUS
  <2> QED
    BY <2>1 DEF ItemsOf
<1>3. \A i \in 2..n : Parent(i) \in 1..n /\ a[Parent(i)].val <= a[i].val
  BY <1>2, ParentProperties DEF HeapOrdered
<1>4. b \in Seq(ItemsOf(R)) /\ pos \in 1..Len(b) /\ OrderedBut(b, pos)
  <2>1. CASE fresh
    <3>1. [val |-> val, ref |-> r] \in ItemsOf(R)
      BY DEF ItemsOf
    <3>2. /\ b \in Seq(ItemsOf(R)) /\ Len(b) = n + 1 /\ pos = n + 1
          /\ \A i \in 1..n : b[i] = a[i]
      BY <2>1, <3>1, <1>2, AppendProperties
    <3> HIDE DEF b, pos
    <3>3. \A i \in 2..Len(b) : Parent(i) \in 1..n
      BY <3>2, <1>2, ParentProperties
    <3>4. \A i \in 2..Len(b) : Parent(i) # pos /\ (i # pos => i \in 2..n)
      BY <3>2, <3>3, <1>2
    <3>5. \A i \in 2..Len(b) : i # pos => b[Parent(i)].val <= b[i].val
      BY <3>2, <3>3, <3>4, <1>3
    <3> QED
      BY <3>2, <3>4, <3>5, <1>2 DEF OrderedBut
  <2>2. CASE ~fresh
    <3> DEFINE c == [a[pos] EXCEPT !.val = val]
    <3>1. pos \in 1..n
      BY <2>2
    <3>2. c \in ItemsOf(R)
      BY <3>1, <1>2 DEF ItemsOf
    <3>3. b = [a EXCEPT ![pos] = c]
      BY <2>2, <3>1
    <3> HIDE DEF b, c, pos
    <3>4. /\ b \in Seq(ItemsOf(R)) /\ Len(b) = n
          /\ \A i \in 1..n : b[i] = IF i = pos THEN c ELSE a[i]
      BY <3>1, <3>2, <3>3, ExceptSeq
    <3>5. \A i \in 2..n : i # pos /\ Parent(i) # pos => b[Parent(i)].val <= b[i].val
      BY <3>4, <1>3, <1>2
    <3>6. \A i \in 2..n : Parent(i) = pos /\ pos > 1 => b[Parent(pos)].val <= b[i].val
      <4> SUFFICES ASSUME NEW i \in 2..n, Parent(i) = pos, pos > 1
                   PROVE  b[Parent(pos)].val <= b[i].val
        OBVIOUS
      <4>1. pos \in 2..n /\ Parent(pos) \in 1..n /\ Parent(pos) # pos /\ i # pos
        BY <1>2, <3>1, ParentProperties
      <4>2. a[Parent(pos)].val <= a[pos].val /\ a[pos].val <= a[i].val
        BY <4>1, <1>3
      <4>3. b[Parent(pos)] = a[Parent(pos)] /\ b[i] = a[i]
        BY <4>1, <3>4, <1>2
      <4>4. a[Parent(pos)].val \in Nat /\ a[pos].val \in Nat /\ a[i].val \in Nat
        BY <4>1, <3>1, <1>2
      <4> QED
        BY <4>2, <4>3, <4>4
    <3> QED
      BY <3>1, <3>4, <3>5, <3>6, <1>2 DEF OrderedBut
  <2> QED
    BY <2>1, <2>2
<1> QED
  BY <1>4 DEF PlacedWell, WithTimer, SlotFor

(* A new deadline for an entry that finds its item keeps the order. *)
LEMMA PutTimerOrders ==
  ASSUME NEW R, NEW a \in Seq(ItemsOf(R)), NEW idx \in [R -> Nat], NEW r \in R, NEW val \in Nat,
         HeapOrdered(a), idx[r] # NoIdx => idx[r] \in 1..Len(a)
  PROVE  HeapOrdered(PutTimer(a, idx, r, val).heap)
<1> DEFINE b == WithTimer(a, idx, r, val)
           pos == SlotFor(a, idx, r)
           jdx == [idx EXCEPT ![r] = pos]
<1>1. PutTimer(a, idx, r, val) = heap_update(b, jdx, pos)
  BY DEF PutTimer, WithTimer, SlotFor
<1> HIDE DEF jdx
<1>2. PlacedWell(R, b, pos)
  BY PlacedOrders
<1> HIDE DEF b, pos
<1> QED
  BY <1>1, <1>2, HeapUpdateOrders DEF PlacedWell

(* The last item in the gap: it is the only one that may be out of place.  *)
FilledWell(R, b, n, pos) ==
  /\ b \in Seq(ItemsOf(R)) /\ Len(b) = n - 1
  /\ IF pos = n THEN HeapOrdered(b) ELSE pos \in 1..Len(b) /\ OrderedBut(b, pos)

LEMMA FillOrders ==
  ASSUME NEW R, NEW a \in Seq(ItemsOf(R)), NEW pos \in 1..Len(a), HeapOrdered(a)
  PROVE  FilledWell(R, FillFromLast(a, pos), Len(a), pos)
<1> DEFINE n == Len(a)
           b == FillFromLast(a, pos)
<1>2. n \in Nat /\ pos \in 1..n /\ \A i \in 1..n : a[i] \in ItemsOf(R) /\ a[i].val \in Nat
  <2>1. n \in Nat /\ \A i \in 1..n : a[i] \in ItemsOf(R)
    OBVIOUS
  <2> QED
    BY <2>1 DEF ItemsOf
<1>3. \A i \in 2..n : Parent(i) \in 1..n /\ Parent(i) < i /\ a[Parent(i)].val <= a[i].val
  BY <1>2, ParentProperties DEF HeapOrdered
<1>4. \A i \in 1..n - 1 : b[i] = IF i = pos THEN a[n] ELSE a[i]
  BY DEF FillFromLast
<1>5. b \in Seq(ItemsOf(R)) /\ Len(b) = n - 1
  <2>1. n - 1 \in Nat /\ \A i \in 1..n - 1 : b[i] \in ItemsOf(R)
    BY <1>2, <1>4
  <2> QED
    BY <2>1 DEF FillFromLast
<1> HIDE DEF b
<1>6. \A i \in 2..n - 1 : i # pos /\ Parent(i) # pos => b[Parent(i)].val <= b[i].val
  <2> SUFFICES ASSUME NEW i \in 2..n - 1, i # pos, Parent(i) # pos
               PROVE  b[Parent(i)].val <= b[i].val
    OBVIOUS
  <2>1. i \in 2..n /\ i \in 1..n - 1
    BY <1>2
  <2>2. Parent(i) \in 1..n - 1
    BY <2>1, <1>2, <1>3
  <2> QED
    BY <2>1, <2>2, <1>3, <1>4
<1>7. CASE pos = n
  <2>1. \A i \in 2..n - 1 : i # pos /\ Parent(i) # pos
    BY <1>2, <1>3, <1>7
  <2> QED
    BY <2>1, <1>5, <1>6, <1>7 DEF HeapOrdered, FilledWell, b
<1>8. CASE pos # n
  <2>1. pos \in 1..Len(b)
    BY <1>2, <1>5, <1>8
  <2>2. \A i \in 2..n - 1 : Parent(i) = pos /\ pos > 1 => b[Parent(pos)].val <= b[i].val
    <3> SUFFICES ASSUME NEW i \in 2..n - 1, Parent(i) = pos, pos > 1
                 PROVE  b[Parent(pos)].val <= b[i].val
      OBVIOUS
    <3>1. i \in 2..n /\ i \in 1..n - 1 /\ pos \in 2..n
      BY <1>2
    <3>2. i # pos /\ Parent(pos) # pos /\ Parent(pos) \in 1..n - 1
      BY <3>1, <1>2, <1>3
    <3>3. b[i] = a[i] /\ b[Parent(pos)] = a[Parent(pos)]
      BY <3>1, <3>2, <1>4
    <3>4. a[Parent(pos)].val <= a[pos].val /\ a[pos].val <= a[i].val
      BY <3>1, <1>3
    <3>5. a[Parent(pos)].val \in Nat /\ a[pos].val \in Nat /\ a[i].val \in Nat
      BY <3>1, <1>2, <1>3
    <3> QED
      BY <3>3, <3>4, <3>5
  <2>3. OrderedBut(b, pos)
    BY <2>2, <1>5, <1>6 DEF OrderedBut
  <2> QED
    BY <2>1, <2>3, <1>5, <1>8 DEF FilledWell, b
<1> QED
  BY <1>7, <1>8
(* So does the removal of the item of an entry that finds it. *)
LEMMA RemoveTimerOrders ==
  ASSUME NEW R, NEW a \in Seq(ItemsOf(R)), NEW idx \in [R -> Nat], NEW r \in R,
         HeapOrdered(a), idx[r] \in 1..Len(a)
  PROVE  HeapOrdered(RemoveTimer(a, idx, r).heap)
<1> DEFINE pos == idx[r]
           b == FillFromLast(a, pos)
           moved == [idx EXCEPT ![a[Len(a)].ref] = pos]
<1>1. RemoveTimer(a, idx, r).heap = IF pos = Len(a) THEN b ELSE heap_update(b, moved, pos).heap
  BY DEF RemoveTimer
<1> HIDE DEF moved
<1>2. FilledWell(R, b, Len(a), pos)
  BY FillOrders
<1> HIDE DEF b, pos
<1> QED
  BY <1>1, <1>2, HeapUpdateOrders DEF FilledWell
-----------------------------------------------------------------------------
(* What each entry of L has for a deadline is not changed by u.            *)
SameTimers(a, idx, u, L) ==
  \A r \in L : /\ u.idx[r] = NoIdx <=> idx[r] = NoIdx
               /\ idx[r] # NoIdx => u.heap[u.idx[r]] = a[idx[r]]

(* The deadline of r is val. *)
TimerIs(u, r, val) == u.idx[r] # NoIdx /\ u.heap[u.idx[r]].val = val

(* From (a, idx) to u the entry r lost its timer and no other of R did. *)
TimerGone(a, idx, u, r, R) ==
  /\ ItemHasIdx(u.heap, u.idx) /\ u.wrote \subseteq 1..Len(u.heap)
  /\ SameTimers(a, idx, u, R \ {r})
  /\ u.idx[r] = NoIdx

(* When every item is found by its entry, a sift keeps all deadlines.      *)
LEMMA SiftTracks ==
  ASSUME NEW R, NEW a \in Seq(ItemsOf(R)), NEW idx \in [R -> Nat], NEW u,
         Permutes(a, idx, u), ItemHasIdx(a, idx),
         NEW L \in SUBSET R, FindsOwn(a, idx, L)
  PROVE  /\ ItemHasIdx(u.heap, u.idx)
         /\ SameTimers(a, idx, u, L)
         /\ \A i \in 1..Len(a) : \E j \in 1..Len(a) : u.heap[i] = a[j]
<1> DEFINE n == Len(a)
           W == u.wrote
<1>1. \A i \in 1..n : a[i].ref \in R /\ idx[a[i].ref] = i
  <2>1. \A i \in 1..n : a[i] \in ItemsOf(R)
    OBVIOUS
  <2> QED
    BY <2>1 DEF ItemsOf, ItemHasIdx
<1>2. /\ Len(u.heap) = n /\ W \subseteq 1..n
      /\ \A i \in 1..n \ W : u.heap[i] = a[i]
  BY DEF Permutes
<1>3. PICK src \in [W -> W] :
        /\ \A i \in W : u.heap[i] = a[src[i]]
        /\ \A i, j \in W : src[i] = src[j] => i = j
        /\ \A j \in W : \E i \in W : src[i] = j
  BY DEF Permutes
<1>4. \A r \in R : IF \E i \in W : u.heap[i].ref = r
                   THEN u.idx[r] \in W /\ u.heap[u.idx[r]].ref = r
                   ELSE u.idx[r] = idx[r]
  BY DEF Permutes
<1> HIDE DEF W
(* An item in a slot of W was in one before. *)
<1>5. \A i \in W : u.heap[i].ref \in R /\ idx[u.heap[i].ref] = src[i] /\ src[i] \in W
  BY <1>1, <1>2, <1>3
<1>6. ASSUME NEW i \in 1..n
      PROVE  u.idx[u.heap[i].ref] = i
  <2>1. CASE i \in W
    <3> DEFINE k == u.idx[u.heap[i].ref]
    <3>1. k \in W /\ u.heap[k].ref = u.heap[i].ref
      BY <2>1, <1>4, <1>5
    <3>2. src[k] = src[i]
      BY <2>1, <3>1, <1>5
    <3> QED
      BY <2>1, <3>1, <3>2, <1>3
  <2>2. CASE i \notin W
    <3>1. u.heap[i] = a[i] /\ a[i].ref \in R /\ idx[a[i].ref] = i
      BY <2>2, <1>1, <1>2
    <3>2. ~ \E j \in W : u.heap[j].ref = a[i].ref
      BY <2>2, <3>1, <1>5
    <3> QED
      BY <3>1, <3>2, <1>4
  <2> QED
    BY <2>1, <2>2
<1>7. ASSUME NEW r \in L
      PROVE  /\ u.idx[r] = NoIdx <=> idx[r] = NoIdx
             /\ idx[r] # NoIdx => u.heap[u.idx[r]] = a[idx[r]]
  <2>1. NoIdx \notin 1..n
    BY DEF NoIdx
  <2>2. CASE idx[r] \notin W
    <3>1. u.idx[r] = idx[r]
      BY <2>2, <1>4, <1>5
    <3>2. idx[r] # NoIdx => idx[r] \in 1..n
      BY DEF FindsOwn
    <3> QED
      BY <2>2, <3>1, <3>2, <1>2
  <2>3. CASE idx[r] \in W
    <3>1. idx[r] # NoIdx /\ a[idx[r]].ref = r
      BY <2>1, <2>3, <1>2 DEF FindsOwn
    <3>2. PICK i \in W : u.heap[i] = a[idx[r]]
      BY <2>3, <1>3
    <3>3. u.idx[r] \in W /\ u.heap[u.idx[r]].ref = r
      BY <3>1, <3>2, <1>4
    <3>4. src[u.idx[r]] = idx[r]
      BY <3>3, <1>5
    <3>5. u.heap[u.idx[r]] = a[idx[r]]
      BY <3>3, <3>4, <1>3
    <3>6. u.idx[r] # NoIdx
      BY <2>1, <3>3, <1>2
    <3> QED
      BY <3>1, <3>5, <3>6
  <2> QED
    BY <2>2, <2>3
<1>8. \A i \in 1..n : \E j \in 1..n : u.heap[i] = a[j]
  BY <1>2, <1>3
<1> QED
  BY <1>2, <1>6, <1>7, <1>8 DEF ItemHasIdx, SameTimers

(* EXPIRE gives the entry its deadline and changes no other.               *)
LEMMA PutTimerTracks ==
  ASSUME NEW R, NEW a \in Seq(ItemsOf(R)), NEW idx \in [R -> Nat],
         FindsOwn(a, idx, R), ItemHasIdx(a, idx), NEW r \in R, NEW val \in Nat,
         NEW u, u = PutTimer(a, idx, r, val)
  PROVE  /\ ItemHasIdx(u.heap, u.idx) /\ u.wrote \subseteq 1..Len(u.heap)
         /\ SameTimers(a, idx, u, R \ {r})
         /\ TimerIs(u, r, val)
<1> DEFINE n == Len(a)
           fresh == idx[r] = NoIdx
           pos == IF fresh THEN n + 1 ELSE idx[r]
           item == [val |-> val, ref |-> r]
           b == IF fresh THEN Append(a, item) ELSE [a EXCEPT ![pos].val = val]
           jdx == [idx EXCEPT ![r] = pos]
<1>1. u = heap_update(b, jdx, pos)
  BY DEF PutTimer
<1>2. n \in Nat /\ item \in ItemsOf(R) /\ \A i \in 1..n : a[i] \in ItemsOf(R)
  <2>1. item \in ItemsOf(R)
    BY DEF ItemsOf
  <2> QED
    BY <2>1
<1>3. \A i \in 1..n : a[i].ref \in R /\ idx[a[i].ref] = i
  BY <1>2 DEF ItemsOf, ItemHasIdx
<1>4. /\ b \in Seq(ItemsOf(R)) /\ pos \in 1..Len(b)
      /\ Len(b) = IF fresh THEN n + 1 ELSE n
      /\ \A i \in 1..Len(b) : b[i] = IF i = pos THEN item ELSE a[i]
  <2>1. CASE fresh
    BY <2>1, <1>2, AppendProperties
  <2>2. CASE ~fresh
    <3>1. pos = idx[r] /\ pos \in 1..n /\ a[pos].ref = r
      BY <2>2 DEF FindsOwn
    <3>2. [a[pos] EXCEPT !.val = val] = item
      BY <3>1, <1>2 DEF ItemsOf
    <3>3. b = [a EXCEPT ![pos] = item]
      BY <2>2, <3>1, <3>2
    <3> HIDE DEF b, item, pos
    <3>4. /\ b \in Seq(ItemsOf(R)) /\ Len(b) = n
          /\ \A i \in 1..n : b[i] = IF i = pos THEN item ELSE a[i]
      BY <3>1, <3>3, <1>2, ExceptSeq
    <3> QED
      BY <2>2, <3>1, <3>4
  <2> QED
    BY <2>1, <2>2
<1>5. jdx \in [R -> Nat] /\ jdx[r] = pos /\ \A s \in R \ {r} : jdx[s] = idx[s]
  BY <1>2
<1>6. \A i \in 1..Len(b) : i # pos => i \in 1..n /\ a[i].ref # r
  BY <1>2, <1>3, <1>4 DEF NoIdx
<1>7. pos # NoIdx /\ \A s \in R \ {r} : idx[s] # NoIdx =>
        idx[s] \in 1..n /\ idx[s] # pos /\ idx[s] \in 1..Len(b) /\ a[idx[s]].ref = s
  <2>1. \A s \in R : idx[s] # NoIdx => idx[s] \in 1..n /\ a[idx[s]].ref = s
    BY DEF FindsOwn
  <2>2. pos # NoIdx
    BY <1>2, <1>4 DEF NoIdx
  <2>3. ASSUME NEW s \in R \ {r}, idx[s] # NoIdx
        PROVE  idx[s] # pos
    <3>1. CASE fresh
      BY <2>1, <2>3, <3>1, <1>2
    <3>2. CASE ~fresh
      BY <2>1, <2>3, <3>2
    <3> QED
      BY <3>1, <3>2
  <2>4. \A i \in 1..n : i \in 1..Len(b)
    BY <1>2, <1>4
  <2> QED
    BY <2>1, <2>2, <2>3, <2>4
<1> HIDE DEF b, jdx, pos
<1>8. ItemHasIdx(b, jdx)
  BY <1>3, <1>4, <1>5, <1>6 DEF ItemHasIdx
<1>9. FindsOwn(b, jdx, R)
  <2>1. jdx[r] \in 1..Len(b) /\ b[jdx[r]].ref = r
    BY <1>4, <1>5
  <2>2. ASSUME NEW s \in R \ {r}, jdx[s] # NoIdx
        PROVE  jdx[s] \in 1..Len(b) /\ b[jdx[s]].ref = s
    BY <2>2, <1>4, <1>5, <1>7
  <2> QED
    BY <2>1, <2>2 DEF FindsOwn
<1>10. Permutes(b, jdx, u)
  <2>1. /\ b \in Seq(ItemsOf(R)) /\ jdx \in [R -> Nat] /\ pos \in 1..Len(b)
        /\ u = heap_update(b, jdx, pos)
    BY <1>1, <1>4, <1>5
  <2>2. Permutes(b, jdx, heap_update(b, jdx, pos))
    BY <2>1, HeapUpdatePermutes
  <2> QED
    BY <2>1, <2>2
<1>11. ItemHasIdx(u.heap, u.idx) /\ SameTimers(b, jdx, u, R)
  BY <1>4, <1>5, <1>8, <1>9, <1>10, SiftTracks
<1>12. u.wrote \subseteq 1..Len(u.heap)
  BY <1>10 DEF Permutes
<1>13. SameTimers(a, idx, u, R \ {r})
  <2> SUFFICES ASSUME NEW s \in R \ {r}
               PROVE  /\ u.idx[s] = NoIdx <=> idx[s] = NoIdx
                      /\ idx[s] # NoIdx => u.heap[u.idx[s]] = a[idx[s]]
    BY DEF SameTimers
  <2>1. /\ u.idx[s] = NoIdx <=> jdx[s] = NoIdx
        /\ jdx[s] # NoIdx => u.heap[u.idx[s]] = b[jdx[s]]
    BY <1>11 DEF SameTimers
  <2>2. jdx[s] = idx[s] /\ (idx[s] # NoIdx => b[idx[s]] = a[idx[s]])
    BY <1>4, <1>5, <1>7
  <2> QED
    BY <2>1, <2>2
<1>14. u.idx[r] # NoIdx /\ u.heap[u.idx[r]] = b[pos] /\ b[pos].val = val
  BY <1>4, <1>5, <1>7, <1>11 DEF SameTimers
<1> QED
  BY <1>11, <1>12, <1>13, <1>14 DEF TimerIs

(* Taking an item out changes no other deadline.                           *)
LEMMA RemoveTimerTracks ==
  ASSUME NEW R, NEW a \in Seq(ItemsOf(R)), NEW idx \in [R -> Nat],
         FindsOwn(a, idx, R), ItemHasIdx(a, idx), NEW r \in R, idx[r] # NoIdx,
         NEW u, u = RemoveTimer(a, idx, r)
  PROVE  TimerGone(a, idx, u, r, R)
<1> DEFINE n == Len(a)
           pos == idx[r]
           b == FillFromLast(a, pos)
           moved == Refilled(a, idx, r)
           t == IF pos = n THEN [heap |-> b, idx |-> moved, wrote |-> {}]
                           ELSE heap_update(b, moved, pos)
<1>1. u = [heap |-> t.heap, idx |-> [t.idx EXCEPT ![r] = NoIdx], wrote |-> t.wrote]
  BY DEF RemoveTimer, Refilled
<1>2. n \in Nat /\ \A i \in 1..n : a[i].ref \in R /\ idx[a[i].ref] = i
  <2>1. \A i \in 1..n : a[i] \in ItemsOf(R)
    OBVIOUS
  <2> QED
    BY <2>1 DEF ItemsOf, ItemHasIdx
<1>3. /\ pos \in 1..n /\ a[pos].ref = r
      /\ b \in Seq(ItemsOf(R)) /\ moved \in [R -> Nat] /\ FindsOwn(b, moved, R \ {r})
      /\ \A i \in 1..n - 1 : b[i] = IF i = pos THEN a[n] ELSE a[i]
  <2>1. pos \in 1..n /\ a[pos].ref = r
    BY DEF FindsOwn
  <2>2. b \in Seq(ItemsOf(R))
    BY FillProperties
  <2>3. moved \in [R -> Nat]
    BY FillProperties
  <2>4. FindsOwn(b, moved, R \ {r})
    BY FillProperties
  <2>5. \A i \in 1..n - 1 : b[i] = IF i = pos THEN a[n] ELSE a[i]
    BY DEF FillFromLast
  <2> QED
    BY <2>1, <2>2, <2>3, <2>4, <2>5
<1>4. Len(b) = n - 1
  BY <1>2, <1>3 DEF FillFromLast
<1>5. \A s \in R : moved[s] = IF pos # n /\ s = a[n].ref THEN pos ELSE idx[s]
  BY <1>2, <1>3 DEF Refilled
<1> HIDE DEF b, moved, pos
<1>6. \A i \in 1..n - 1 : b[i].ref \in R \ {r} /\ moved[b[i].ref] = i
  <2> TAKE i \in 1..n - 1
  <2>1. CASE i = pos
    <3>1. b[i] = a[n] /\ pos # n
      BY <2>1, <1>2, <1>3
    <3> QED
      BY <2>1, <3>1, <1>2, <1>3, <1>5
  <2>2. CASE i # pos
    <3>1. b[i] = a[i] /\ i \in 1..n /\ i # n
      BY <2>2, <1>2, <1>3
    <3>2. a[i].ref # r /\ a[i].ref # a[n].ref
      <4>1. n \in 1..n /\ pos \in 1..n /\ a[pos].ref = r
        BY <3>1, <1>2, <1>3
      <4>2. idx[a[i].ref] = i /\ idx[a[n].ref] = n /\ idx[r] = pos
        BY <3>1, <4>1, <1>2
      <4> QED
        BY <2>2, <3>1, <4>2
    <3> QED
      BY <3>1, <3>2, <1>2, <1>5
  <2> QED
    BY <2>1, <2>2
<1>7. ItemHasIdx(b, moved)
  BY <1>4, <1>6 DEF ItemHasIdx
<1>8. SameTimers(a, idx, [heap |-> b, idx |-> moved, wrote |-> {}], R \ {r})
  <2> SUFFICES ASSUME NEW s \in R \ {r}
               PROVE  /\ moved[s] = NoIdx <=> idx[s] = NoIdx
                      /\ idx[s] # NoIdx => b[moved[s]] = a[idx[s]]
    BY DEF SameTimers
  <2>1. idx[s] # NoIdx => idx[s] \in 1..n /\ a[idx[s]].ref = s
    BY DEF FindsOwn
  <2>2. CASE pos # n /\ s = a[n].ref
    BY <2>2, <1>2, <1>3, <1>5 DEF NoIdx
  <2>3. CASE ~(pos # n /\ s = a[n].ref)
    <3>1. moved[s] = idx[s]
      BY <2>3, <1>5
    <3>2. idx[s] # NoIdx => idx[s] # pos /\ idx[s] # n
      BY <2>1, <2>3, <1>3
    <3>3. idx[s] # NoIdx => idx[s] \in 1..n - 1
      BY <2>1, <3>2, <1>2
    <3> QED
      BY <3>1, <3>2, <3>3, <1>3
  <2> QED
    BY <2>2, <2>3
<1>9. /\ ItemHasIdx(t.heap, t.idx) /\ t.wrote \subseteq 1..Len(t.heap)
      /\ t.idx \in [R -> Nat]
      /\ SameTimers(a, idx, t, R \ {r})
      /\ \A i \in 1..Len(t.heap) : t.heap[i].ref # r
  <2>1. CASE pos = n
    BY <2>1, <1>3, <1>4, <1>6, <1>7, <1>8
  <2>2. CASE pos # n
    <3>1. t = heap_update(b, moved, pos) /\ pos \in 1..Len(b) /\ R \ {r} \in SUBSET R
      BY <2>2, <1>3, <1>4
    <3> HIDE DEF t
    <3>2. Permutes(b, moved, t) /\ t.idx \in [R -> Nat]
      BY <3>1, <1>3, HeapUpdatePermutes
    <3>3. /\ ItemHasIdx(t.heap, t.idx)
          /\ SameTimers(b, moved, t, R \ {r})
          /\ \A i \in 1..Len(b) : \E j \in 1..Len(b) : t.heap[i] = b[j]
      <4> DEFINE L == R \ {r}
      <4>1. L \in SUBSET R /\ FindsOwn(b, moved, L)
        BY <1>3
      <4> HIDE DEF L
      <4>2. /\ ItemHasIdx(t.heap, t.idx)
            /\ SameTimers(b, moved, t, L)
            /\ \A i \in 1..Len(b) : \E j \in 1..Len(b) : t.heap[i] = b[j]
        BY <4>1, <3>2, <1>3, <1>7, SiftTracks
      <4> QED
        BY <4>2 DEF L
    <3>4. Len(t.heap) = Len(b) /\ t.wrote \subseteq 1..Len(t.heap)
      BY <3>2 DEF Permutes
    <3>5. SameTimers(a, idx, t, R \ {r})
      BY <3>3, <1>8 DEF SameTimers
    <3>6. ASSUME NEW i \in 1..Len(t.heap)
          PROVE  t.heap[i].ref # r
      <4>1. PICK j \in 1..n - 1 : t.heap[i] = b[j]
        BY <3>3, <3>4, <1>4
      <4> QED
        BY <4>1, <1>6
    <3> QED
      BY <3>2, <3>3, <3>4, <3>5, <3>6
  <2> QED
    BY <2>1, <2>2
<1> HIDE DEF t
<1>10. u.heap = t.heap /\ u.wrote = t.wrote /\ u.idx = [t.idx EXCEPT ![r] = NoIdx]
  BY <1>1
<1>11. u.idx[r] = NoIdx /\ \A s \in R \ {r} : u.idx[s] = t.idx[s]
  BY <1>9, <1>10
<1>12. ItemHasIdx(u.heap, u.idx)
  <2> SUFFICES ASSUME NEW i \in 1..Len(t.heap)
               PROVE  u.idx[t.heap[i].ref] = i
    BY <1>10 DEF ItemHasIdx
  <2> QED
    BY <1>9, <1>10 DEF ItemHasIdx
<1>13. SameTimers(a, idx, u, R \ {r})
  BY <1>9, <1>10, <1>11 DEF SameTimers
<1> QED
  BY <1>9, <1>10, <1>11, <1>12, <1>13 DEF TimerGone
-----------------------------------------------------------------------------
(* One iteration of a sift: the items of the hole and of the slot it goes  *)
(* to change places, and what is left is a sift from there.                *)
Exchanged(a, p, q) == [a EXCEPT ![p] = a[q], ![q] = a[p]]

Distinct(a) == \A i, j \in 1..Len(a) : a[i].ref = a[j].ref => i = j

ChangePlaces(S, a, p, q, b) ==
  /\ b \in Seq(S) /\ Len(b) = Len(a)
  /\ \A i \in 1..Len(a) : b[i] = IF i = q THEN a[p] ELSE IF i = p THEN a[q] ELSE a[i]

LEMMA ExchangedProperties ==
  ASSUME NEW S, NEW a \in Seq(S), NEW p \in 1..Len(a), NEW q \in 1..Len(a)
  PROVE  ChangePlaces(S, a, p, q, Exchanged(a, p, q))
<1>1. Len(a) \in Nat /\ \A i \in 1..Len(a) : a[i] \in S
  OBVIOUS
<1> DEFINE b == [a EXCEPT ![p] = a[q]]
<1>2. /\ b \in Seq(S) /\ Len(b) = Len(a)
      /\ \A i \in 1..Len(a) : b[i] = IF i = p THEN a[q] ELSE a[i]
  BY <1>1, ExceptSeq
<1>3. Exchanged(a, p, q) = [b EXCEPT ![q] = a[p]]
  BY DEF Exchanged
<1> HIDE DEF b
<1> QED
  BY <1>1, <1>2, <1>3, ExceptSeq DEF ChangePlaces

Agree(f, g, W) == \A s \in W : f[s] = g[s]

Opens(W, p, V) == W = {p} \cup V

LEMMA VisitedStep ==
  ASSUME NEW n \in Nat, NEW f \in [1..n -> 1..n], NEW g \in [1..n -> 1..n],
         NEW p \in 1..n, NEW q \in 1..n, f[p] = q,
         Agree(f, g, Visited(g, q))
  PROVE  Opens(Visited(f, p), p, Visited(g, q))
<1> DEFINE U == Visited(f, p)
           V == Visited(g, q)
<1>1. /\ U \subseteq 1..n /\ p \in U /\ \A s \in U : f[s] \in U
      /\ V \subseteq 1..n /\ q \in V /\ \A s \in V : g[s] \in V /\ f[s] = g[s]
  BY VisitedProperties DEF Agree
<1>2. U \subseteq {p} \cup V
  <2> DEFINE S == {p} \cup V
  <2>1. S \in SUBSET DOMAIN f /\ p \in S /\ \A s \in S : f[s] \in S
    BY <1>1
  <2> QED
    BY <2>1 DEF Visited
<1>3. V \subseteq U
  <2> DEFINE S == U \cap V
  <2>1. S \in SUBSET DOMAIN g /\ q \in S /\ \A s \in S : g[s] \in S
    BY <1>1
  <2> QED
    BY <2>1 DEF Visited
<1> QED
  BY <1>1, <1>2, <1>3 DEF Opens

(* Of a sift of items of different entries: so are those it wrote.         *)
LEMMA PermutesDistinct ==
  ASSUME NEW a, NEW idx, NEW u, Permutes(a, idx, u), Distinct(a)
  PROVE  \A i, j \in u.wrote : u.heap[i].ref = u.heap[j].ref => i = j
<1>1. /\ u.wrote \subseteq 1..Len(a)
      /\ \E src \in [u.wrote -> u.wrote] :
           /\ \A i \in u.wrote : u.heap[i] = a[src[i]]
           /\ \A i, j \in u.wrote : src[i] = src[j] => i = j
  BY DEF Permutes
<1>2. PICK src \in [u.wrote -> u.wrote] :
        /\ \A i \in u.wrote : u.heap[i] = a[src[i]]
        /\ \A i, j \in u.wrote : src[i] = src[j] => i = j
  BY <1>1
<1> TAKE i, j \in u.wrote
<1> HAVE u.heap[i].ref = u.heap[j].ref
<1>3. src[i] \in 1..Len(a) /\ src[j] \in 1..Len(a)
  BY <1>1
<1>4. a[src[i]].ref = a[src[j]].ref
  BY <1>2
<1>5. src[i] = src[j]
  BY <1>3, <1>4 DEF Distinct
<1> QED
  BY <1>2, <1>5

(* What a sift writes to the entries: their own slots.                     *)
WritesIdx(R, idx, heap, jdx, W) ==
  \A r \in R : IF \E i \in W : heap[i].ref = r
               THEN jdx[r] \in W /\ heap[jdx[r]].ref = r
               ELSE jdx[r] = idx[r]

LEMMA PermutesWrites ==
  ASSUME NEW R, NEW a, NEW idx \in [R -> Nat], NEW u, Permutes(a, idx, u)
  PROVE  WritesIdx(R, idx, u.heap, u.idx, u.wrote)
BY DEF Permutes, WritesIdx

SameResult(u, v) == u.heap = v.heap /\ u.idx = v.idx

LEMMA SiftStep ==
  ASSUME NEW R, NEW a \in Seq(ItemsOf(R)), NEW idx \in [R -> Nat], Distinct(a),
         NEW p \in 1..Len(a), NEW q \in 1..Len(a), p # q,
         NEW f \in [1..Len(a) -> 1..Len(a)], NEW g \in [1..Len(a) -> 1..Len(a)],
         \/ q < p /\ \A s \in 1..Len(a) : f[s] <= s /\ g[s] <= s
         \/ q > p /\ \A s \in 1..Len(a) : f[s] >= s /\ g[s] >= s,
         f[p] = q, Agree(f, g, Visited(g, q)),
         NEW b, b = Exchanged(a, p, q),
         NEW jdx, jdx = [idx EXCEPT ![a[q].ref] = p]
  PROVE  SameResult(Sift(a, idx, p, f), Sift(b, jdx, q, g))
<1> DEFINE n == Len(a)
           U == Visited(f, p)
           V == Visited(g, q)
           u == Sift(a, idx, p, f)
           v == Sift(b, jdx, q, g)
<1>1. n \in Nat /\ \A i \in 1..n : a[i] \in ItemsOf(R)
  OBVIOUS
<1>2. /\ b \in Seq(ItemsOf(R)) /\ Len(b) = n
      /\ \A i \in 1..n : b[i] = IF i = q THEN a[p] ELSE IF i = p THEN a[q] ELSE a[i]
  <2>1. ChangePlaces(ItemsOf(R), a, p, q, b)
    BY ExchangedProperties
  <2> QED
    BY <2>1 DEF ChangePlaces
<1>3. U = {p} \cup V
  <2>1. /\ n \in Nat /\ f \in [1..n -> 1..n] /\ g \in [1..n -> 1..n]
        /\ p \in 1..n /\ q \in 1..n /\ f[p] = q /\ Agree(f, g, V)
    BY <1>1
  <2>2. Opens(U, p, V)
    BY <2>1, VisitedStep
  <2> QED
    BY <2>2 DEF Opens
<1>4. /\ V \subseteq 1..n /\ q \in V /\ \A s \in V : g[s] \in V
      /\ q < p => \A s \in V : s <= q /\ g[s] <= s
      /\ q > p => \A s \in V : s >= q /\ g[s] >= s
  <2>1. V \subseteq 1..n /\ q \in V /\ \A s \in V : g[s] \in V
    BY <1>1, VisitedProperties
  <2>2. ASSUME q < p
        PROVE  \A s \in V : s <= q /\ g[s] <= s
    <3>1. \A s \in 1..n : g[s] <= s
      BY <2>2
    <3>2. \A s \in V : s <= q
      BY <1>1, <3>1, VisitedBounds
    <3> QED
      BY <2>1, <3>1, <3>2
  <2>3. ASSUME q > p
        PROVE  \A s \in V : s >= q /\ g[s] >= s
    <3>1. \A s \in 1..n : g[s] >= s
      BY <2>3
    <3>2. \A s \in V : s >= q
      BY <1>1, <3>1, VisitedBounds
    <3> QED
      BY <2>1, <3>1, <3>2
  <2> QED
    BY <2>1, <2>2, <2>3
<1>4a. \A s \in V : f[s] = g[s]
  BY DEF Agree
<1> HIDE DEF U, V
<1>5. p \notin V
  BY <1>1, <1>4
<1>6. a[q].ref \in R /\ jdx \in [R -> Nat]
  <2>1. a[q].ref \in R /\ p \in Nat
    BY <1>1 DEF ItemsOf
  <2> QED
    BY <2>1
<1>7. /\ u.wrote = U /\ v.wrote = V
      /\ u.heap = [i \in 1..n |-> CASE i \notin U             -> a[i]
                                    [] i \in U /\ f[i] # i -> a[f[i]]
                                    [] i \in U /\ f[i] = i -> a[p]]
      /\ v.heap = [i \in 1..n |-> CASE i \notin V             -> b[i]
                                    [] i \in V /\ g[i] # i -> b[g[i]]
                                    [] i \in V /\ g[i] = i -> b[q]]
  BY <1>2 DEF Sift, U, V
<1>7a. /\ u.wrote = U /\ v.wrote = V /\ DOMAIN u.heap = 1..n /\ DOMAIN v.heap = 1..n
       /\ \A i \in 1..n : /\ i \notin U => u.heap[i] = a[i]
                          /\ i \in U /\ f[i] # i => u.heap[i] = a[f[i]]
                          /\ i \in U /\ f[i] = i => u.heap[i] = a[p]
                          /\ i \notin V => v.heap[i] = b[i]
                          /\ i \in V /\ g[i] # i => v.heap[i] = b[g[i]]
                          /\ i \in V /\ g[i] = i => v.heap[i] = b[q]
  <2> HIDE DEF u, v
  <2> QED
    BY <1>7
<1>7b. u.heap = [i \in 1..n |-> u.heap[i]] /\ v.heap = [i \in 1..n |-> v.heap[i]]
  <2> HIDE DEF u, v
  <2> QED
    BY <1>7
<1>8. u.heap = v.heap
  <2> SUFFICES ASSUME NEW i \in 1..n
               PROVE  u.heap[i] = v.heap[i]
    BY <1>7b
  <2> HIDE DEF u, v
  <2>1. CASE i = p
    BY <2>1, <1>2, <1>3, <1>5, <1>7a
  <2>2. CASE i \in V /\ g[i] # i
    <3>1. i # p /\ f[i] = g[i] /\ i \in U /\ g[i] \in V
      BY <2>2, <1>3, <1>4, <1>4a, <1>5
    <3>2. g[i] # q /\ g[i] # p
      BY <2>2, <3>1, <1>4, <1>5
    <3>3. u.heap[i] = a[g[i]] /\ v.heap[i] = b[g[i]]
      BY <2>2, <3>1, <1>7a
    <3> QED
      BY <3>2, <3>3, <1>2
  <2>3. CASE i \in V /\ g[i] = i
    <3>1. i # p /\ f[i] = g[i] /\ i \in U
      BY <2>3, <1>3, <1>4a, <1>5
    <3>2. u.heap[i] = a[p] /\ v.heap[i] = b[q]
      BY <2>3, <3>1, <1>7a
    <3> QED
      BY <3>2, <1>2
  <2>4. CASE i \notin V /\ i # p
    <3>1. i \notin U /\ i # q
      BY <2>4, <1>3, <1>4
    <3>2. u.heap[i] = a[i] /\ v.heap[i] = b[i]
      BY <2>4, <3>1, <1>7a
    <3> QED
      BY <2>4, <3>1, <3>2, <1>2
  <2> QED
    BY <2>1, <2>2, <2>3, <2>4
<1>9. /\ u.idx \in [R -> Nat] /\ Permutes(a, idx, u)
      /\ v.idx \in [R -> Nat] /\ Permutes(b, jdx, v)
  <2>1. u.idx \in [R -> Nat] /\ Permutes(a, idx, u)
    BY SiftPermutes
  <2>2. v.idx \in [R -> Nat] /\ Permutes(b, jdx, v)
    <3>1. b \in Seq(ItemsOf(R)) /\ jdx \in [R -> Nat]
      BY <1>2, <1>6
    <3>2. /\ q \in 1..Len(b) /\ g \in [1..Len(b) -> 1..Len(b)]
          /\ \/ \A s \in 1..Len(b) : g[s] <= s
             \/ \A s \in 1..Len(b) : g[s] >= s
      BY <1>2
    <3> QED
      BY <3>1, <3>2, SiftPermutes
  <2> QED
    BY <2>1, <2>2
<1> HIDE DEF u, v
<1>10. u.heap[p] = a[q]
  BY <1>3, <1>7a
(* Both write the same entries, each with the slot of its only item.       *)
<1>11. \A i, j \in U : u.heap[i].ref = u.heap[j].ref => i = j
  BY <1>7a, <1>9, PermutesDistinct
<1>11a. WritesIdx(R, idx, u.heap, u.idx, U) /\ WritesIdx(R, jdx, u.heap, v.idx, V)
  BY <1>6, <1>7a, <1>8, <1>9, PermutesWrites
<1>12. ASSUME NEW r \in R
       PROVE  u.idx[r] = v.idx[r]
  <2>1. /\ IF \E i \in U : u.heap[i].ref = r
           THEN u.idx[r] \in U /\ u.heap[u.idx[r]].ref = r
           ELSE u.idx[r] = idx[r]
        /\ IF \E i \in V : u.heap[i].ref = r
           THEN v.idx[r] \in V /\ u.heap[v.idx[r]].ref = r
           ELSE v.idx[r] = jdx[r]
    BY <1>11a DEF WritesIdx
  <2>2. CASE \E i \in V : u.heap[i].ref = r
    <3>1. /\ u.idx[r] \in U /\ u.heap[u.idx[r]].ref = r
          /\ v.idx[r] \in U /\ u.heap[v.idx[r]].ref = r
      BY <2>1, <2>2, <1>3
    <3> QED
      BY <3>1, <1>11
  <2>3. CASE ~ (\E i \in V : u.heap[i].ref = r) /\ a[q].ref = r
    <3>1. v.idx[r] = p
      BY <2>1, <2>3
    <3>2. u.idx[r] \in U /\ u.heap[u.idx[r]].ref = r
      BY <2>1, <2>3, <1>3, <1>10
    <3>3. u.idx[r] = p
      BY <2>3, <3>2, <1>3
    <3> QED
      BY <3>1, <3>3
  <2>4. CASE ~ (\E i \in V : u.heap[i].ref = r) /\ a[q].ref # r
    <3>1. v.idx[r] = idx[r]
      BY <2>1, <2>4, <1>6
    <3>2. u.idx[r] = idx[r]
      BY <2>1, <2>4, <1>3, <1>10
    <3> QED
      BY <3>1, <3>2
  <2> QED
    BY <2>2, <2>3, <2>4
<1>13. u.idx = v.idx
  BY <1>9, <1>12
<1> QED
  BY <1>8, <1>13 DEF u, v, SameResult

(* The last iteration: the item stays in the hole. *)
LEMMA SiftEnd ==
  ASSUME NEW R, NEW a \in Seq(ItemsOf(R)), NEW idx \in [R -> Nat],
         NEW p \in 1..Len(a), NEW f \in [1..Len(a) -> 1..Len(a)], f[p] = p,
         \/ \A s \in 1..Len(a) : f[s] <= s
         \/ \A s \in 1..Len(a) : f[s] >= s
  PROVE  SameResult(Sift(a, idx, p, f), [heap |-> a, idx |-> [idx EXCEPT ![a[p].ref] = p]])
<1> DEFINE n == Len(a)
           u == Sift(a, idx, p, f)
           U == Visited(f, p)
<1>1. n \in Nat /\ \A i \in 1..n : a[i] \in ItemsOf(R)
  OBVIOUS
<1>2. U = {p}
  <2>1. p \in U /\ U \subseteq 1..n
    BY <1>1, VisitedProperties
  <2>2. {p} \in SUBSET DOMAIN f /\ p \in {p} /\ \A s \in {p} : f[s] \in {p}
    OBVIOUS
  <2>3. U \subseteq {p}
    BY <2>2 DEF Visited
  <2> QED
    BY <2>1, <2>3
<1> HIDE DEF U
<1>3. /\ u.wrote = U
      /\ u.heap = [i \in 1..n |-> CASE i \notin U             -> a[i]
                                    [] i \in U /\ f[i] # i -> a[f[i]]
                                    [] i \in U /\ f[i] = i -> a[p]]
  BY DEF Sift, U
<1>3a. u.wrote = {p}
  BY <1>2, <1>3
<1>4. u.heap = a
  <2>1. u.heap = [i \in 1..n |-> a[i]]
    BY <1>2, <1>3
  <2> QED
    BY <2>1, <1>1
<1>5. u.idx \in [R -> Nat] /\ Permutes(a, idx, u)
  BY SiftPermutes
<1> HIDE DEF u
<1>6. ASSUME NEW r \in R
      PROVE  u.idx[r] = [idx EXCEPT ![a[p].ref] = p][r]
  <2>0. WritesIdx(R, idx, u.heap, u.idx, u.wrote)
    BY <1>5, PermutesWrites
  <2>1. IF \E i \in {p} : a[i].ref = r
        THEN u.idx[r] \in {p} /\ a[u.idx[r]].ref = r
        ELSE u.idx[r] = idx[r]
    BY <2>0, <1>3a, <1>4 DEF WritesIdx
  <2> QED
    BY <2>1
<1>7. [idx EXCEPT ![a[p].ref] = p] \in [R -> Nat]
  <2>1. p \in Nat
    BY <1>1
  <2> QED
    BY <2>1
<1> QED
  BY <1>4, <1>5, <1>6, <1>7 DEF u, SameResult
ItemsIn(R, a) ==
  /\ Len(a) \in Nat
  /\ \A i \in 1..Len(a) : a[i].val \in Nat /\ a[i].ref \in R

LEMMA ItemsTyped ==
  ASSUME NEW R, NEW a \in Seq(ItemsOf(R))
  PROVE  ItemsIn(R, a)
<1>1. Len(a) \in Nat /\ \A i \in 1..Len(a) : a[i] \in ItemsOf(R)
  OBVIOUS
<1> QED
  BY <1>1 DEF ItemsOf, ItemsIn

(* heap_up and heap_down, unfolded by one iteration. *)
LEMMA UpUnfolds ==
  ASSUME NEW R, NEW a \in Seq(ItemsOf(R)), NEW idx \in [R -> Nat], Distinct(a),
         NEW p \in 1..Len(a), p > 1, NEW q, q = Parent(p), a[q].val > a[p].val,
         NEW b, b = Exchanged(a, p, q),
         NEW jdx, jdx = [idx EXCEPT ![a[q].ref] = p]
  PROVE  SameResult(heap_up(a, idx, p), heap_up(b, jdx, q))
<1> DEFINE n == Len(a)
           f == Climb(a, p)
           g == Climb(b, q)
<1>1. n \in Nat /\ p \in Nat /\ q \in 1..n /\ q < p
  BY ParentProperties
<1>2. /\ b \in Seq(ItemsOf(R)) /\ Len(b) = n
      /\ \A i \in 1..n : b[i] = IF i = q THEN a[p] ELSE IF i = p THEN a[q] ELSE a[i]
  <2>1. ChangePlaces(ItemsOf(R), a, p, q, b)
    BY <1>1, ExchangedProperties
  <2> QED
    BY <2>1 DEF ChangePlaces
<1>3. /\ f \in [1..n -> 1..n] /\ \A s \in 1..n : f[s] <= s
      /\ g \in [1..n -> 1..n] /\ \A s \in 1..n : g[s] <= s
  BY <1>1, <1>2, ClimbType
<1>4. f[p] = q
  BY <1>1 DEF Climb
<1>5. Agree(f, g, Visited(g, q))
  <2>1. \A s \in Visited(g, q) : s \in 1..n /\ s <= q
    BY <1>1, <1>3, VisitedProperties, VisitedBounds
  <2>2. ASSUME NEW s \in 1..n, s <= q
        PROVE  f[s] = g[s]
    <3>1. s > 1 => Parent(s) \in 1..n /\ Parent(s) < s
      BY <1>1, ParentProperties
    <3>2. s > 1 => b[Parent(s)] = a[Parent(s)]
      BY <1>1, <1>2, <2>2, <3>1
    <3>3. b[q] = a[p]
      BY <1>1, <1>2
    <3> QED
      BY <1>2, <3>2, <3>3 DEF Climb
  <2> QED
    BY <2>1, <2>2 DEF Agree
<1> HIDE DEF f, g
<1>6. SameResult(Sift(a, idx, p, f), Sift(b, jdx, q, g))
  <2>1. /\ p # q /\ q \in 1..Len(a)
        /\ q < p /\ \A s \in 1..Len(a) : f[s] <= s /\ g[s] <= s
    BY <1>1, <1>3
  <2> QED
    BY <2>1, <1>3, <1>4, <1>5, SiftStep
<1> QED
  BY <1>6 DEF heap_up, f, g

LEMMA UpEnds ==
  ASSUME NEW R, NEW a \in Seq(ItemsOf(R)), NEW idx \in [R -> Nat],
         NEW p \in 1..Len(a), ~(p > 1 /\ a[Parent(p)].val > a[p].val)
  PROVE  SameResult(heap_up(a, idx, p), [heap |-> a, idx |-> [idx EXCEPT ![a[p].ref] = p]])
<1> DEFINE f == Climb(a, p)
<1>1. f \in [1..Len(a) -> 1..Len(a)] /\ \A s \in 1..Len(a) : f[s] <= s
  BY ClimbType
<1>2. f[p] = p
  BY DEF Climb
<1> HIDE DEF f
<1>3. SameResult(Sift(a, idx, p, f), [heap |-> a, idx |-> [idx EXCEPT ![a[p].ref] = p]])
  BY <1>1, <1>2, SiftEnd
<1> QED
  BY <1>3 DEF heap_up, f

LEMMA DownUnfolds ==
  ASSUME NEW R, NEW a \in Seq(ItemsOf(R)), NEW idx \in [R -> Nat], Distinct(a),
         NEW p \in 1..Len(a), NEW q, q = Sink(a, p)[p], q # p,
         NEW b, b = Exchanged(a, p, q),
         NEW jdx, jdx = [idx EXCEPT ![a[q].ref] = p]
  PROVE  SameResult(heap_down(a, idx, p), heap_down(b, jdx, q))
<1> DEFINE n == Len(a)
           f == Sink(a, p)
           g == Sink(b, q)
<1>1. n \in Nat /\ p \in Nat
  OBVIOUS
<1>2. /\ f \in [1..n -> 1..n] /\ \A s \in 1..n : f[s] >= s
      /\ q \in 1..n /\ q > p
  <2>1. f \in [1..n -> 1..n] /\ \A s \in 1..n : f[s] >= s
    BY SinkType
  <2> HIDE DEF f
  <2>2. f[p] = q
    BY DEF f
  <2> QED
    BY <1>1, <2>1, <2>2
<1>3. /\ b \in Seq(ItemsOf(R)) /\ Len(b) = n
      /\ \A i \in 1..n : b[i] = IF i = q THEN a[p] ELSE IF i = p THEN a[q] ELSE a[i]
  <2>1. ChangePlaces(ItemsOf(R), a, p, q, b)
    BY <1>2, ExchangedProperties
  <2> QED
    BY <2>1 DEF ChangePlaces
<1>4. g \in [1..n -> 1..n] /\ \A s \in 1..n : g[s] >= s
  BY <1>2, <1>3, SinkType
<1>5. Agree(f, g, Visited(g, q))
  <2>1. \A s \in Visited(g, q) : s \in 1..n /\ s >= q
    <3> HIDE DEF g
    <3> QED
      BY <1>1, <1>2, <1>4, VisitedProperties, VisitedBounds
  <2>2. ASSUME NEW s \in 1..n, s >= q
        PROVE  f[s] = g[s]
    <3>1. \A c \in {2 * s, 2 * s + 1} : c \in Nat /\ c > q /\ c > p
      BY <1>1, <1>2, <2>2
    <3>2. \A c \in {2 * s, 2 * s + 1} : c <= n => b[c] = a[c]
      BY <1>1, <1>3, <3>1
    <3>3. b[q] = a[p]
      BY <1>2, <1>3
    <3>4. \A c \in {2 * s, 2 * s + 1} : Smaller(a, p, s, c) <=> Smaller(b, q, s, c)
      BY <1>3, <3>2, <3>3 DEF Smaller
    <3> QED
      BY <1>3, <3>4 DEF Sink
  <2> QED
    BY <2>1, <2>2 DEF Agree
<1>5a. f[p] = q
  OBVIOUS
<1> HIDE DEF f, g
<1>6. SameResult(Sift(a, idx, p, f), Sift(b, jdx, q, g))
  BY <1>2, <1>4, <1>5, <1>5a, SiftStep
<1> QED
  BY <1>6 DEF heap_down, f, g

LEMMA DownEnds ==
  ASSUME NEW R, NEW a \in Seq(ItemsOf(R)), NEW idx \in [R -> Nat],
         NEW p \in 1..Len(a), Sink(a, p)[p] = p
  PROVE  SameResult(heap_down(a, idx, p), [heap |-> a, idx |-> [idx EXCEPT ![a[p].ref] = p]])
<1> DEFINE f == Sink(a, p)
<1>1. f \in [1..Len(a) -> 1..Len(a)] /\ \A s \in 1..Len(a) : f[s] >= s
  BY SinkType
<1>2. f[p] = p
  OBVIOUS
<1> HIDE DEF f
<1>3. SameResult(Sift(a, idx, p, f), [heap |-> a, idx |-> [idx EXCEPT ![a[p].ref] = p]])
  BY <1>1, <1>2, SiftEnd
<1> QED
  BY <1>3 DEF heap_down, f
-----------------------------------------------------------------------------
(* The order while a loop runs: only the item of slot p may be out of      *)
(* place, too small for the slots above while it climbs, too large for     *)
(* those below while it sinks.                                             *)
Rising(a, p) ==
  /\ OrderedBut(a, p)
  /\ \A i \in 2..Len(a) : Parent(i) = p => a[p].val <= a[i].val

Sinking(a, p) ==
  /\ OrderedBut(a, p)
  /\ p > 1 => a[Parent(p)].val <= a[p].val

LEMMA RisingStep ==
  ASSUME NEW R, NEW a \in Seq(ItemsOf(R)), NEW p \in 1..Len(a), Rising(a, p),
         p > 1, a[Parent(p)].val > a[p].val
  PROVE  Rising(Exchanged(a, p, Parent(p)), Parent(p))
<1> DEFINE n == Len(a)
           q == Parent(p)
           b == Exchanged(a, p, q)
<1>1. /\ n \in Nat /\ p \in Nat /\ q \in 1..n /\ q < p
      /\ \A i \in 1..n : a[i].val \in Nat
  BY ItemsTyped, ParentProperties DEF ItemsIn
<1>2. /\ Len(b) = n
      /\ \A i \in 1..n : b[i] = IF i = q THEN a[p] ELSE IF i = p THEN a[q] ELSE a[i]
  <2>1. q \in 1..Len(a)
    BY <1>1
  <2> HIDE DEF q
  <2>2. ChangePlaces(ItemsOf(R), a, p, q, b)
    BY <2>1, ExchangedProperties
  <2> HIDE DEF b
  <2> QED
    BY <2>2 DEF ChangePlaces
<1>3. ASSUME NEW i \in 2..n
      PROVE  /\ i \in 1..n /\ Parent(i) \in 1..n /\ Parent(i) # i
             /\ i # p /\ Parent(i) # p => a[Parent(i)].val <= a[i].val
             /\ Parent(i) = p => a[q].val <= a[i].val /\ a[p].val <= a[i].val
  BY <1>1, <1>3, ParentProperties DEF Rising, OrderedBut
<1>4. q > 1 => /\ Parent(q) \in 1..n /\ Parent(q) < q
               /\ a[Parent(q)].val <= a[q].val
  <2> SUFFICES ASSUME q > 1
               PROVE  /\ Parent(q) \in 1..n /\ Parent(q) < q
                      /\ a[Parent(q)].val <= a[q].val
    OBVIOUS
  <2>1. q \in 2..n /\ q # p
    BY <1>1
  <2> HIDE DEF q
  <2>2. Parent(q) \in 1..n /\ Parent(q) < q
    BY <1>1, <2>1, ParentProperties
  <2> QED
    BY <1>1, <1>3, <2>1, <2>2
<1>5. a[q].val > a[p].val
  OBVIOUS
<1> HIDE DEF b, q
<1>6. ASSUME NEW i \in 2..n, i # q, Parent(i) # q
      PROVE  b[Parent(i)].val <= b[i].val
  BY <1>1, <1>2, <1>3, <1>6 DEF q
<1>7. ASSUME NEW i \in 2..n, Parent(i) = q
      PROVE  b[q].val <= b[i].val /\ (q > 1 => b[Parent(q)].val <= b[i].val)
  <2>1. b[q] = a[p]
    BY <1>1, <1>2
  <2>2. a[q].val <= b[i].val
    <3>1. CASE i = p
      BY <1>1, <1>2, <3>1
    <3>2. CASE i # p
      BY <1>1, <1>2, <1>3, <1>7, <3>2
    <3> QED
      BY <3>1, <3>2
  <2>3. b[i].val \in Nat
    BY <1>1, <1>2, <1>3
  <2>4. ASSUME q > 1
        PROVE  b[Parent(q)].val <= b[i].val
    <3>1. b[Parent(q)] = a[Parent(q)]
      BY <1>1, <1>2, <1>4, <2>4
    <3> QED
      BY <1>1, <1>4, <2>2, <2>3, <2>4, <3>1
  <2> QED
    BY <1>1, <1>5, <2>1, <2>2, <2>3, <2>4
<1> QED
  BY <1>2, <1>6, <1>7 DEF Rising, OrderedBut, b, q

(* The child the item of the hole gives way to is not larger than another. *)
LEMMA SinkChild ==
  ASSUME NEW R, NEW a \in Seq(ItemsOf(R)), NEW p \in 1..Len(a), NEW q, q = Sink(a, p)[p]
  PROVE  /\ q # p => /\ q \in 2..Len(a) /\ Parent(q) = p /\ a[q].val < a[p].val
                     /\ \A o \in 2..Len(a) : Parent(o) = p => a[q].val <= a[o].val
         /\ q = p => \A o \in 2..Len(a) : Parent(o) = p => a[p].val <= a[o].val
<1> DEFINE n == Len(a)
<1>1. n \in Nat /\ p \in Nat /\ p >= 1 /\ \A i \in 1..n : a[i].val \in Nat
  BY ItemsTyped DEF ItemsIn
<1>2. \A o \in 2..n : Parent(o) = p => o \in {2 * p, 2 * p + 1}
  BY ParentProperties
<1>3. Parent(2 * p) = p /\ Parent(2 * p + 1) = p
  BY <1>1, ParentOfChild
<1>4. q = CASE Smaller(a, p, p, 2 * p) -> 2 * p
            [] /\ Smaller(a, p, p, 2 * p + 1)
               /\ ~Smaller(a, p, p, 2 * p) -> 2 * p + 1
            [] OTHER -> p
  BY DEF Sink
<1>5. CASE Smaller(a, p, p, 2 * p)
  <2>1. q = 2 * p
    BY <1>4, <1>5
  <2> QED
    BY <1>1, <1>2, <1>3, <1>5, <2>1 DEF Smaller
<1>6. CASE Smaller(a, p, p, 2 * p + 1) /\ ~Smaller(a, p, p, 2 * p)
  <2>1. q = 2 * p + 1
    BY <1>4, <1>6
  <2> QED
    BY <1>1, <1>2, <1>3, <1>6, <2>1 DEF Smaller
<1>7. CASE ~Smaller(a, p, p, 2 * p) /\ ~Smaller(a, p, p, 2 * p + 1)
  <2>1. q = p
    BY <1>4, <1>7
  <2>2. 2 * p <= n => a[2 * p].val \in Nat
    BY <1>1
  <2>3. 2 * p + 1 <= n => 2 * p <= n /\ a[2 * p + 1].val \in Nat
    BY <1>1
  <2>4. a[p].val \in Nat
    BY <1>1
  <2>5. /\ 2 * p <= n => a[p].val <= a[2 * p].val
        /\ 2 * p + 1 <= n => a[p].val <= a[2 * p + 1].val
    BY <1>1, <1>7, <2>2, <2>3, <2>4 DEF Smaller
  <2>6. ASSUME NEW o \in 2..n, Parent(o) = p
        PROVE  a[p].val <= a[o].val
    <3>1. (o = 2 * p \/ o = 2 * p + 1) /\ o <= n
      BY <1>1, <1>2, <2>6
    <3> QED
      BY <2>5, <3>1
  <2> QED
    BY <2>1, <2>6
<1> QED
  BY <1>5, <1>6, <1>7

LEMMA SinkingStep ==
  ASSUME NEW R, NEW a \in Seq(ItemsOf(R)), NEW p \in 1..Len(a), Sinking(a, p),
         NEW q, q = Sink(a, p)[p], q # p
  PROVE  Sinking(Exchanged(a, p, q), q)
<1> DEFINE n == Len(a)
           b == Exchanged(a, p, q)
<1>1. n \in Nat /\ p \in Nat /\ \A i \in 1..n : a[i].val \in Nat
  BY ItemsTyped DEF ItemsIn
<1>2. /\ q \in 2..n /\ Parent(q) = p /\ a[q].val < a[p].val
      /\ \A o \in 2..n : Parent(o) = p => a[q].val <= a[o].val
  BY SinkChild
<1>3. /\ Len(b) = n
      /\ \A i \in 1..n : b[i] = IF i = q THEN a[p] ELSE IF i = p THEN a[q] ELSE a[i]
  <2>1. q \in 1..Len(a)
    BY <1>1, <1>2
  <2>2. ChangePlaces(ItemsOf(R), a, p, q, b)
    BY <2>1, ExchangedProperties
  <2> HIDE DEF b
  <2> QED
    BY <2>2 DEF ChangePlaces
<1>4. ASSUME NEW i \in 2..n
      PROVE  /\ i \in 1..n /\ Parent(i) \in 1..n /\ Parent(i) < i
             /\ i # p /\ Parent(i) # p => a[Parent(i)].val <= a[i].val
  BY <1>1, <1>4, ParentProperties DEF Sinking, OrderedBut
<1>5. p > 1 => a[Parent(p)].val <= a[q].val
  BY <1>1, <1>2 DEF Sinking, OrderedBut
<1> HIDE DEF b
<1>6. ASSUME NEW i \in 2..n, i # q, Parent(i) # q
      PROVE  b[Parent(i)].val <= b[i].val
  <2>1. CASE i = p
    <3>1. b[i] = a[q] /\ b[Parent(i)] = a[Parent(p)]
      BY <1>1, <1>2, <1>3, <1>4, <1>6, <2>1
    <3> QED
      BY <1>1, <1>5, <2>1, <3>1
  <2>2. CASE Parent(i) = p
    <3>1. b[Parent(i)] = a[q] /\ b[i] = a[i]
      BY <1>1, <1>2, <1>3, <1>4, <1>6, <2>2
    <3> QED
      BY <1>2, <2>2, <3>1
  <2>3. CASE i # p /\ Parent(i) # p
    <3>1. b[Parent(i)] = a[Parent(i)] /\ b[i] = a[i]
      BY <1>1, <1>2, <1>3, <1>4, <1>6, <2>3
    <3> QED
      BY <1>4, <2>3, <3>1
  <2> QED
    BY <2>1, <2>2, <2>3
<1>7. ASSUME NEW i \in 2..n, Parent(i) = q
      PROVE  b[Parent(q)].val <= b[i].val
  <2>1. i # q /\ i # p /\ q # p
    BY <1>1, <1>2, <1>4, <1>7
  <2>2. b[p] = a[q] /\ b[i] = a[i]
    BY <1>1, <1>2, <1>3, <1>4, <2>1
  <2>3. a[q].val <= a[i].val
    BY <1>4, <1>7, <2>1
  <2> QED
    BY <1>2, <2>2, <2>3
<1>8. b[Parent(q)].val <= b[q].val
  <2>1. b[p] = a[q] /\ b[q] = a[p]
    BY <1>1, <1>2, <1>3
  <2> QED
    BY <1>1, <1>2, <2>1
<1> QED
  BY <1>3, <1>6, <1>7, <1>8 DEF Sinking, OrderedBut, b

(* Where the loops end, the whole heap is ordered. *)
LEMMA LoopEndsOrdered ==
  ASSUME NEW R, NEW a \in Seq(ItemsOf(R)), NEW p \in 1..Len(a),
         \/ Rising(a, p) /\ ~(p > 1 /\ a[Parent(p)].val > a[p].val)
         \/ Sinking(a, p) /\ Sink(a, p)[p] = p
  PROVE  HeapOrdered(a)
<1> SUFFICES ASSUME NEW i \in 2..Len(a)
             PROVE  a[Parent(i)].val <= a[i].val
  BY DEF HeapOrdered
<1>1. /\ Len(a) \in Nat /\ p \in Nat /\ Parent(i) \in 1..Len(a) /\ i \in 1..Len(a)
      /\ a[i].val \in Nat /\ a[Parent(i)].val \in Nat
  BY ItemsTyped, ParentProperties DEF ItemsIn
<1>2. OrderedBut(a, p)
  BY DEF Rising, Sinking
<1>3. CASE i # p /\ Parent(i) # p
  BY <1>2, <1>3 DEF OrderedBut
<1>4. CASE i = p
  BY <1>1, <1>4 DEF Sinking
<1>5. CASE Parent(i) = p
  BY <1>1, <1>5, SinkChild DEF Rising
<1> QED
  BY <1>3, <1>4, <1>5

(* The top of an ordered heap is the earliest of all deadlines: by         *)
(* induction, since every other slot has a parent that comes before it.    *)
LEMMA TopIsEarliest ==
  ASSUME NEW R, NEW a \in Seq(ItemsOf(R)), HeapOrdered(a), NEW i \in 1..Len(a)
  PROVE  a[1].val <= a[i].val
<1> DEFINE T == {j \in 1..Len(a) : ~(a[1].val <= a[j].val)}
<1>1. Len(a) \in Nat /\ \A j \in 1..Len(a) : a[j].val \in Nat
  BY ItemsTyped DEF ItemsIn
<1>2. ASSUME T # {}
      PROVE  FALSE
  <2>1. T \in SUBSET Nat
    OBVIOUS
  <2>2. PICK j \in T : \A y \in T : j <= y
    BY <1>2, <2>1, LeastNat
  <2>3. j \in 2..Len(a)
    BY <1>1
  <2>4. Parent(j) \in 1..Len(a) /\ Parent(j) < j
    BY <1>1, <2>3, ParentProperties
  <2>5. Parent(j) \notin T
    BY <1>1, <2>2, <2>4
  <2>6. a[1].val <= a[Parent(j)].val
    BY <2>4, <2>5
  <2>7. a[Parent(j)].val <= a[j].val
    BY <2>3 DEF HeapOrdered
  <2> QED
    BY <1>1, <2>3, <2>4, <2>6, <2>7
<1> QED
  BY <1>2
=============================================================================
