--------------------------- MODULE SortedSetProofs ---------------------------
(***************************************************************************)
(* Proofs about SortedSet: as long as avl_fix has rotated at the root only *)
(* the tree is sound between two commands, and avl_offset exact.           *)
(***************************************************************************)
EXTENDS SortedSet, Lemmas

(* The two sides of a node, and what is on a side of it. *)
Sides == {"left", "right"}
Before(sc, a, b) == sc[a] < sc[b] \/ (sc[a] = sc[b] /\ a < b)
Toward(sc, s, a, b) == IF s = "left" THEN Before(sc, a, b) ELSE Before(sc, b, a)

(* U[n] is the set of the nodes of n's subtree. *)
Sub(U, n) == IF n = Nil THEN {} ELSE U[n]

(* The nodes M have the shape of a search tree with the nodes T under top: *)
(* all nodes are below the top, each subtree is its node and its two       *)
(* subtrees, pointers agree both ways, the sides are in order, subtrees    *)
(* are nested or apart, and no node outside one is between two inside.     *)
Rooted(M, T, top, U) == Sub(U, top) = T /\ (top # Nil => top \in T /\ M[top].parent = Nil)
Forks(M, T, U) == \A n \in T : U[n] = {n} \cup Sub(U, M[n].left) \cup Sub(U, M[n].right)
Points(M, T) ==
  \A n \in T, s \in Sides : M[n][s] # Nil => M[n][s] \in T /\ M[M[n][s]].parent = n
Sorts(M, sc, T, U) == \A n \in T, s \in Sides : \A m \in Sub(U, M[n][s]) : Toward(sc, s, m, n)
Hangs(M, T, top) ==
  \A m \in T : m # top => M[m].parent \in T /\ \E s \in Sides : M[M[m].parent][s] = m
Nests(T, U) ==
  \A a, b \in T : /\ b \in U[a] => U[b] \subseteq U[a]
                  /\ b \in U[a] \/ a \in U[b] \/ U[a] \cap U[b] = {}
Convex(sc, T, U) ==
  \A a \in T : \A t \in T \ U[a], x, y \in U[a] : Before(sc, t, x) <=> Before(sc, t, y)

Shape(M, sc, T, top, U) ==
  /\ T \subseteq Member /\ top \in Link /\ U \in [Member -> SUBSET Member]
  /\ Rooted(M, T, top, U) /\ Forks(M, T, U) /\ Points(M, T) /\ Sorts(M, sc, T, U)
  /\ Hangs(M, T, top) /\ Nests(T, U) /\ Convex(sc, T, U)

(* d is the depth over subtrees of the depths a and b, which are balanced. *)
Level(d, a, b) == d = 1 + Max({a, b}) /\ a - b \in -1..1
LevelAt(M, n) == Level(M[n].depth, avl_depth(M, M[n].left), avl_depth(M, M[n].right))
Counts(M, U, n) == M[n].count = Cardinality(U[n])
Exact(M, U, n) == Counts(M, U, n) /\ LevelAt(M, n)

(* The depth of n, with o for that of the node c. *)
DepthBut(M, c, o, n) == IF n = c THEN o ELSE avl_depth(M, n)
(* avl_fix is at c, whose subtree had the depth o. *)
MendingFrom(M, T, U, c, o) ==
  /\ \A n \in T : c \notin U[n] => Exact(M, U, n)
  /\ \A n \in T \ {c} : c \in U[n] =>
       Level(M[n].depth, DepthBut(M, c, o, M[n].left), DepthBut(M, c, o, M[n].right))
  /\ LET l == avl_depth(M, M[c].left)
         r == avl_depth(M, M[c].right)
     IN l - r \in -2..2 /\ 1 + Max({l, r}) \in o - 1..o + 1
Mending(M, T, U, c) == \E o \in Nat : MendingFrom(M, T, U, c, o)

(* x belongs under the node c, or anywhere when c is Nil. *)
Fits(sc, T, U, c, x) ==
  c # Nil => c \in T /\ \A t \in T \ U[c], y \in U[c] : Before(sc, t, x) <=> Before(sc, t, y)

(* b is next after a. *)
Adjacent(sc, T, a, b) ==
  Before(sc, a, b) /\ \A t \in T \ {a, b} : Before(sc, t, a) <=> Before(sc, t, b)

(* avl_del looks for the first node of r's subtree and is at c. *)
Seeking(M, sc, U, r, c) ==
  r # Nil /\ c \in U[r] /\ \A t \in U[r] \ U[c], y \in U[c] : Before(sc, y, t)

(* The nodes in the tree, and its top: the node that tree_add adds is not  *)
(* in it yet, the one that the last call of avl_del is about no longer.    *)
Held ==
  IF pc = "descend" THEN members \ {arg.m}
  ELSE IF pc \in {"fix", "unwind"} /\ stack # <<>> THEN members \ {Last(stack)}
  ELSE members
Top == IF pc = "unwind" THEN root ELSE tree

(* The tree at each loop. *)
TreeWith(U) ==
  /\ Shape(mem, score, Held, Top, U)
  /\ pc # "fix" => \A n \in Held : Exact(mem, U, n)
  /\ pc = "descend" => Fits(score, Held, U, node, arg.m)
  /\ pc = "fix" => node \in Held /\ Mending(mem, Held, U, node)
  /\ pc = "seek" => Seeking(mem, score, U, mem[Last(stack)].right, node)

(* The cursor and the calls of avl_del: each is about the node next after  *)
(* the one before, so the third finds a node without children.             *)
Control ==
  /\ pc \in {"idle", "descend", "dead"} => stack = <<>>
  /\ pc \in {"del", "seek", "unwind"} => stack # <<>>
  /\ pc \in {"del", "seek"} => ~inner
  /\ pc \in {"fix", "seek"} <=> node \in Member /\ pc # "descend"
  /\ pc \in {"descend", "fix", "del", "seek", "unwind"} => arg.m \in members
  /\ pc \in {"descend"} => mem[arg.m] = avl_init
  /\ stack # <<>> => stack[1] = arg.m
  /\ \A i \in 1..Len(stack) : stack[i] \in members
  /\ \A i \in 1..Len(stack) - 1 : Adjacent(score, members, stack[i], stack[i + 1])
  /\ pc = "del" => LET n == Last(stack) IN
       /\ Len(stack) > 1 => mem[n].left = Nil
       /\ Len(stack) > 2 => mem[n].right = Nil
  /\ pc = "seek" => /\ Len(stack) < 3
                    /\ Len(stack) = 2 => mem[node].left = Nil /\ mem[node].right = Nil
-----------------------------------------------------------------------------
(* The order by score and name. *)
Scores == [Member -> Int]
Nodes == [Member -> AVLNode]

(* zless compares in the scores of the current state. *)
LEMMA ZlessIsBefore == \A a, b : zless(a, b) <=> Before(score, a, b)
BY DEF zless, Before

(* zless is a strict total order ... *)
LEMMA BeforeOrders ==
  ASSUME NEW sc \in Scores
  PROVE  /\ \A a \in Member : ~Before(sc, a, a)
         /\ \A a, b \in Member : a = b \/ Before(sc, a, b) \/ Before(sc, b, a)
         /\ \A a, b, c \in Member : Before(sc, a, b) /\ Before(sc, b, c) => Before(sc, a, c)
BY SortedSetAssumption DEF Before, Scores

(* The same, seen from either side. *)
LEMMA TowardOrders ==
  ASSUME NEW sc \in Scores, NEW s \in Sides
  PROVE  /\ \A a \in Member : ~Toward(sc, s, a, a)
         /\ \A a, b \in Member : a = b \/ Toward(sc, s, a, b) \/ Toward(sc, s, b, a)
         /\ \A a, b, c \in Member : Toward(sc, s, a, b) /\ Toward(sc, s, b, c) => Toward(sc, s, a, c)
         /\ \A a, b : Toward(sc, Other(s), a, b) <=> Toward(sc, s, b, a)
BY BeforeOrders DEF Toward, Sides, Other

(* The two sides. *)
LEMMA OtherSide ==
  ASSUME NEW s \in Sides
  PROVE  /\ Other(s) \in Sides /\ Other(s) # s /\ Other(Other(s)) = s
         /\ Sides = {s, Other(s)} /\ s # "parent" /\ Other(s) # "parent"
BY DEF Sides, Other

(* Two nodes that compare alike with a third do so seen from either side. *)
LEMMA SameSide ==
  ASSUME NEW sc \in Scores, NEW s \in Sides, NEW t \in Member, NEW x \in Member, NEW y \in Member,
         t # x, t # y
  PROVE  /\ (Before(sc, t, x) <=> Before(sc, t, y)) <=> (Toward(sc, s, t, x) <=> Toward(sc, s, t, y))
         /\ (Before(sc, t, x) <=> Before(sc, t, y)) <=> (Toward(sc, s, x, t) <=> Toward(sc, s, y, t))
BY BeforeOrders DEF Toward

(* The pointers of a node. *)
LEMMA LinkIn ==
  ASSUME NEW M \in Nodes, NEW n \in Member, NEW s \in Sides
  PROVE  M[n][s] \in Link /\ M[n].parent \in Link
BY DEF Nodes, AVLNode, Sides

(* What the parts of Shape say together. *)
LEMMA SubtreesLie ==
  ASSUME NEW M \in Nodes, NEW sc \in Scores, NEW T, NEW top, NEW U, Shape(M, sc, T, top, U)
  PROVE  \A n \in T : n \in Member /\ n \in U[n] /\ U[n] \subseteq T
BY DEF Shape, Rooted, Forks, Nests, Sub

(* A subtree is the node and the two subtrees under it, which share nothing. *)
LEMMA SubtreeForks ==
  ASSUME NEW M \in Nodes, NEW sc \in Scores, NEW T, NEW top, NEW U, Shape(M, sc, T, top, U),
         NEW n \in T, NEW s \in Sides
  PROVE  /\ M[n][s] \in Link
         /\ U[n] = {n} \cup Sub(U, M[n][s]) \cup Sub(U, M[n][Other(s)])
         /\ n \notin Sub(U, M[n][s])
         /\ Sub(U, M[n][s]) \cap Sub(U, M[n][Other(s)]) = {}
         /\ Sub(U, M[n][s]) \subseteq T
         /\ M[n][s] # Nil => M[n][s] \in T /\ M[n][s] \in U[n] /\ M[n][s] # n /\ M[n][s] \in U[M[n][s]]
<1>1. n \in Member /\ U[n] \subseteq T /\ T \subseteq Member
  BY SubtreesLie DEF Shape
<1>2. M[n][s] \in Link
  BY <1>1, LinkIn
<1>3. U[n] = {n} \cup Sub(U, M[n][s]) \cup Sub(U, M[n][Other(s)])
  BY DEF Shape, Forks, Sides, Other
<1>4. n \notin Sub(U, M[n][s])
  BY <1>1, TowardOrders DEF Shape, Sorts
<1>5. Sub(U, M[n][s]) \subseteq T
  BY <1>1, <1>3
<1>6. Sub(U, M[n][s]) \cap Sub(U, M[n][Other(s)]) = {}
  <2> SUFFICES ASSUME NEW m \in Sub(U, M[n][s]), m \in Sub(U, M[n][Other(s)])
               PROVE  FALSE
    OBVIOUS
  <2>1. m \in Member
    BY <1>1, <1>5
  <2>2. Toward(sc, s, m, n) /\ Toward(sc, Other(s), m, n)
    BY OtherSide DEF Shape, Sorts
  <2> QED
    BY <1>1, <2>1, <2>2, TowardOrders
<1>7. ASSUME M[n][s] # Nil
      PROVE  M[n][s] \in T /\ M[n][s] \in U[n] /\ M[n][s] # n /\ M[n][s] \in U[M[n][s]]
  <2>1. M[n][s] \in T
    BY <1>7 DEF Shape, Points
  <2>2. M[n][s] \in U[M[n][s]]
    BY <2>1, SubtreesLie
  <2> QED
    BY <2>1, <2>2, <1>3, <1>4, <1>7 DEF Sub
<1> QED
  BY <1>2, <1>3, <1>4, <1>5, <1>6, <1>7

(* No two nodes are in each other's subtrees. *)
LEMMA SubtreesDiffer ==
  ASSUME NEW M \in Nodes, NEW sc \in Scores, NEW T, NEW top, NEW U, Shape(M, sc, T, top, U),
         NEW a \in T, NEW b \in T, a \in U[b], b \in U[a]
  PROVE  a = b
<1> SUFFICES ASSUME a # b
             PROVE  FALSE
  OBVIOUS
<1>1. PICK s \in Sides : a \in Sub(U, M[b][s])
  BY SubtreeForks, OtherSide DEF Sides
<1>2. M[b][s] # Nil /\ M[b][s] \in T /\ a \in U[M[b][s]] /\ b \notin U[M[b][s]]
  BY <1>1, SubtreeForks DEF Sub
<1>3. U[a] \subseteq U[M[b][s]]
  BY <1>2 DEF Shape, Nests
<1> QED
  BY <1>2, <1>3

(* Every node but the top of a subtree has its parent in the subtree. *)
LEMMA ParentInSubtree ==
  ASSUME NEW M \in Nodes, NEW sc \in Scores, NEW T, NEW top, NEW U, Shape(M, sc, T, top, U),
         NEW a \in T, NEW x \in U[a], x # a
  PROVE  M[x].parent \in T /\ M[x].parent \in U[a]
<1>1. x \in T /\ a \in U[a]
  BY SubtreesLie
<1>2. x # top
  <2> SUFFICES ASSUME x = top
               PROVE  FALSE
    OBVIOUS
  <2>1. top # Nil
    BY <1>1, SortedSetAssumption DEF Shape
  <2>2. a \in U[x]
    BY <2>1 DEF Shape, Rooted, Sub
  <2> QED
    BY <1>1, <2>2, SubtreesDiffer
<1>3. PICK p \in T, s \in Sides : p = M[x].parent /\ M[p][s] = x
  BY <1>1, <1>2 DEF Shape, Hangs
<1>4. x # Nil /\ x \in U[p] /\ x \in U[x]
  BY <1>1, <1>3, SubtreeForks, SortedSetAssumption DEF Shape
<1>5. CASE p \in U[a]
  BY <1>3, <1>5
<1>6. CASE p \notin U[a]
  <2>1. a \in U[p]
    BY <1>4, <1>6 DEF Shape, Nests
  <2>2. a # p
    BY <1>1, <1>6
  <2>3. a \in Sub(U, M[p][s]) \/ a \in Sub(U, M[p][Other(s)])
    BY <2>1, <2>2, SubtreeForks
  <2>4. CASE a \in Sub(U, M[p][s])
    <3>1. a \in U[x]
      BY <1>3, <1>4, <2>4 DEF Sub
    <3> QED
      BY <1>1, <3>1, SubtreesDiffer
  <2>5. CASE a \in Sub(U, M[p][Other(s)])
    <3> PICK c : c = M[p][Other(s)]
      OBVIOUS
    <3>1. c # Nil /\ a \in U[c] /\ c \in T
      BY <2>5, SubtreeForks, OtherSide DEF Sub
    <3>2. x \in U[c]
      BY <3>1 DEF Shape, Nests
    <3>3. x \in Sub(U, M[p][s]) /\ x \in Sub(U, M[p][Other(s)])
      BY <1>3, <1>4, <3>1, <3>2 DEF Sub
    <3> QED
      BY <3>3, SubtreeForks
  <2> QED
    BY <2>3, <2>4, <2>5
<1> QED
  BY <1>5, <1>6

(* The subtrees inside one side. *)
LEMMA SidesNest ==
  ASSUME NEW M \in Nodes, NEW sc \in Scores, NEW T, NEW top, NEW U, Shape(M, sc, T, top, U),
         NEW n \in T, NEW s \in Sides, NEW b \in Sub(U, M[n][s])
  PROVE  b \in T /\ U[b] \subseteq Sub(U, M[n][s])
<1>1. b \in T /\ M[n][s] # Nil /\ M[n][s] \in T
  BY SubtreeForks DEF Sub
<1> QED
  BY <1>1 DEF Sub, Shape, Nests
-----------------------------------------------------------------------------
(* The one node of a tree. *)
LEMMA LeafShape ==
  ASSUME NEW M \in Nodes, NEW sc \in Scores, NEW x \in Member, NEW U \in [Member -> SUBSET Member],
         M[x].left = Nil, M[x].right = Nil, M[x].parent = Nil, U[x] = {x}
  PROVE  Shape(M, sc, {x}, x, U)
<1>1. \A s \in Sides : M[x][s] = Nil
  BY DEF Sides
<1>2. x # Nil
  BY SortedSetAssumption
<1>3. Rooted(M, {x}, x, U) /\ Forks(M, {x}, U) /\ Points(M, {x}) /\ Hangs(M, {x}, x)
  BY <1>1, <1>2 DEF Rooted, Forks, Points, Hangs, Sub
<1>4. Sorts(M, sc, {x}, U)
  BY <1>1 DEF Sorts, Sub
<1>5. Nests({x}, U) /\ Convex(sc, {x}, U)
  BY DEF Nests, Convex
<1> QED
  BY <1>3, <1>4, <1>5 DEF Shape, Link

(* tree_add hangs the leaf x on the side s of c. *)
Grown(U, c, x) ==
  [a \in Member |-> IF a = x THEN {x} ELSE IF c \in U[a] THEN U[a] \cup {x} ELSE U[a]]
HungOn(M, T, c, s, x, N) ==
  /\ N[x].left = Nil /\ N[x].right = Nil /\ N[x].parent = c
  /\ N[c][s] = x
  /\ \A n \in T : N[n].parent = M[n].parent
  /\ \A n \in T, t \in Sides : n # c \/ t # s => N[n][t] = M[n][t]

(* tree_add hangs a leaf under the node it belongs to. *)
LEMMA HungShape ==
  ASSUME NEW M \in Nodes, NEW sc \in Scores, NEW T, NEW top, NEW U, Shape(M, sc, T, top, U),
         NEW c \in T, NEW s \in Sides, NEW x \in Member \ T, M[c][s] = Nil,
         Toward(sc, s, x, c), Fits(sc, T, U, c, x),
         NEW N \in Nodes, HungOn(M, T, c, s, x, N)
  PROVE  Shape(N, sc, T \cup {x}, top, Grown(U, c, x))
<1> DEFINE V == Grown(U, c, x)
           R == T \cup {x}
<1>1. /\ T \subseteq Member /\ U \in [Member -> SUBSET Member] /\ c \in Member
      /\ \A n \in T : n # x /\ n \in U[n] /\ U[n] \subseteq T /\ x \notin U[n]
  BY SubtreesLie DEF Shape
<1>2. /\ V \in [Member -> SUBSET Member] /\ V[x] = {x}
      /\ \A n \in T : V[n] = IF c \in U[n] THEN U[n] \cup {x} ELSE U[n]
  BY <1>1 DEF Grown
<1>3. x # Nil /\ c # Nil /\ Nil \notin T
  BY <1>1, SortedSetAssumption
<1> HIDE DEF V
<1>4. Rooted(N, R, top, V)
  <2>1. top # Nil /\ top \in T /\ U[top] = T /\ M[top].parent = Nil
    BY DEF Shape, Rooted, Sub
  <2> QED
    BY <2>1, <1>2 DEF Rooted, Sub, HungOn
<1>5. ASSUME NEW n \in T, NEW t \in Sides
      PROVE  Sub(V, M[n][t]) = IF c \in Sub(U, M[n][t]) THEN Sub(U, M[n][t]) \cup {x} ELSE Sub(U, M[n][t])
  <2> PICK k : k = M[n][t]
    OBVIOUS
  <2>1. k # Nil => k \in T
    BY SubtreeForks
  <2>2. Sub(V, k) = IF c \in Sub(U, k) THEN Sub(U, k) \cup {x} ELSE Sub(U, k)
    BY <2>1, <1>2 DEF Sub
  <2> QED
    BY <2>2
<1>6. \A t \in Sides : N[x][t] = Nil
  BY DEF HungOn, Sides
<1>7. /\ Sub(V, N[c][s]) = {x}
      /\ \A n \in T, t \in Sides : n # c \/ t # s => Sub(V, N[n][t]) = Sub(V, M[n][t])
  BY <1>2, <1>3 DEF HungOn, Sub
<1>8. Forks(N, R, V)
  <2> SUFFICES ASSUME NEW n \in R
               PROVE  V[n] = {n} \cup Sub(V, N[n].left) \cup Sub(V, N[n].right)
    BY DEF Forks
  <2>1. CASE n = x
    BY <2>1, <1>2, <1>6 DEF Sub, HungOn
  <2>2. CASE n \in T
    <3>1. V[n] = {n} \cup Sub(V, N[n][s]) \cup Sub(V, N[n][Other(s)])
      <4>1. /\ U[n] = {n} \cup Sub(U, M[n][s]) \cup Sub(U, M[n][Other(s)])
            /\ Sub(V, M[n][s]) = IF c \in Sub(U, M[n][s]) THEN Sub(U, M[n][s]) \cup {x} ELSE Sub(U, M[n][s])
            /\ Sub(V, M[n][Other(s)]) = IF c \in Sub(U, M[n][Other(s)])
                 THEN Sub(U, M[n][Other(s)]) \cup {x} ELSE Sub(U, M[n][Other(s)])
        <5>1. U[n] = {n} \cup Sub(U, M[n][s]) \cup Sub(U, M[n][Other(s)]) /\ Other(s) \in Sides
          BY <2>2, SubtreeForks, OtherSide
        <5> QED
          BY <2>2, <5>1, <1>5
      <4>2. CASE n # c
        <5>1. Sub(V, N[n][s]) = Sub(V, M[n][s]) /\ Sub(V, N[n][Other(s)]) = Sub(V, M[n][Other(s)])
          BY <2>2, <4>2, <1>7, OtherSide
        <5> QED
          BY <4>1, <4>2, <5>1, <2>2, <1>2
      <4>3. CASE n = c
        <5>1. Sub(U, M[c][s]) = {} /\ c \notin Sub(U, M[c][Other(s)])
          BY SubtreeForks, OtherSide DEF Sub
        <5>2. Sub(V, N[c][s]) = {x} /\ Sub(V, N[c][Other(s)]) = Sub(V, M[c][Other(s)])
          BY <1>7, OtherSide
        <5> QED
          BY <4>1, <4>3, <5>1, <5>2, <1>2
      <4> QED
        BY <4>2, <4>3
    <3> QED
      BY <3>1 DEF Sides, Other
  <2> QED
    BY <2>1, <2>2
<1>9. Points(N, R)
  <2> SUFFICES ASSUME NEW n \in R, NEW t \in Sides, N[n][t] # Nil
               PROVE  N[n][t] \in R /\ N[N[n][t]].parent = n
    BY DEF Points
  <2>1. n # x /\ n \in T
    BY <1>6
  <2>2. CASE n = c /\ t = s
    BY <2>2 DEF HungOn
  <2>3. CASE ~(n = c /\ t = s)
    <3>1. N[n][t] = M[n][t] /\ M[n][t] \in T /\ M[M[n][t]].parent = n
      BY <2>1, <2>3 DEF HungOn, Shape, Points
    <3> QED
      BY <3>1 DEF HungOn
  <2> QED
    BY <2>2, <2>3
<1>10. Sorts(N, sc, R, V)
  <2> SUFFICES ASSUME NEW n \in R, NEW t \in Sides, NEW m \in Sub(V, N[n][t])
               PROVE  Toward(sc, t, m, n)
    BY DEF Sorts
  <2>1. n # x /\ n \in T
    BY <1>6 DEF Sub
  <2>2. CASE n = c /\ t = s
    BY <1>7, <2>2
  <2>3. CASE ~(n = c /\ t = s)
    <3>1. m \in Sub(V, M[n][t])
      BY <1>7, <2>1, <2>3
    <3>2. CASE m \in Sub(U, M[n][t])
      BY <2>1, <3>2 DEF Shape, Sorts
    <3>3. CASE m \notin Sub(U, M[n][t])
      <4>1. m = x /\ c \in Sub(U, M[n][t])
        BY <1>5, <2>1, <3>1, <3>3
      <4>2. n \notin U[c]
        BY <2>1, <4>1, SubtreeForks, SubtreesDiffer
      <4>3. Toward(sc, t, c, n)
        BY <2>1, <4>1 DEF Shape, Sorts
      <4>4. Before(sc, n, x) <=> Before(sc, n, c)
        BY <1>1, <1>3, <2>1, <4>2 DEF Fits
      <4>5. n # c /\ n \in Member
        BY <1>1, <2>1, <4>2
      <4> QED
        BY <1>1, <2>1, <4>1, <4>3, <4>4, <4>5, SameSide
    <3> QED
      BY <3>2, <3>3
  <2> QED
    BY <2>2, <2>3
<1>11. Hangs(N, R, top)
  <2> SUFFICES ASSUME NEW m \in R, m # top
               PROVE  N[m].parent \in R /\ \E t \in Sides : N[N[m].parent][t] = m
    BY DEF Hangs
  <2>1. CASE m = x
    BY <2>1 DEF HungOn
  <2>2. CASE m \in T
    <3>1. PICK p \in T, t \in Sides : p = M[m].parent /\ M[p][t] = m
      BY <2>2 DEF Shape, Hangs
    <3>2. N[m].parent = p
      BY <2>2, <3>1 DEF HungOn
    <3>3. ~(p = c /\ t = s)
      BY <2>2, <3>1, <1>3
    <3>4. N[p][t] = m
      BY <3>1, <3>3 DEF HungOn
    <3> QED
      BY <3>1, <3>2, <3>4
  <2> QED
    BY <2>1, <2>2
<1>12. Nests(R, V)
  <2> SUFFICES ASSUME NEW a \in R, NEW b \in R
               PROVE  /\ b \in V[a] => V[b] \subseteq V[a]
                      /\ b \in V[a] \/ a \in V[b] \/ V[a] \cap V[b] = {}
    BY DEF Nests
  <2>1. CASE a = x \/ b = x
    BY <2>1, <1>1, <1>2
  <2>2. CASE a \in T /\ b \in T
    <3>1. /\ b \in U[a] => U[b] \subseteq U[a]
          /\ b \in U[a] \/ a \in U[b] \/ U[a] \cap U[b] = {}
      BY <2>2 DEF Shape, Nests
    <3> QED
      BY <2>2, <3>1, <1>1, <1>2
  <2> QED
    BY <2>1, <2>2
<1>13. Convex(sc, R, V)
  <2> SUFFICES ASSUME NEW a \in R, NEW t \in R \ V[a], NEW y \in V[a], NEW z \in V[a]
               PROVE  Before(sc, t, y) <=> Before(sc, t, z)
    BY DEF Convex
  <2>1. CASE a = x
    BY <2>1, <1>2
  <2>2. CASE a \in T /\ t = x
    <3>1. c \notin U[a] /\ y \in U[a] /\ z \in U[a]
      BY <2>2, <1>2
    <3>2. CASE a \in U[c]
      <4>1. a \in Sub(U, M[c][Other(s)])
        BY <3>1, <3>2, <1>1, SubtreeForks, OtherSide DEF Sub
      <4>2. U[a] \subseteq Sub(U, M[c][Other(s)])
        BY <4>1, <2>2, SubtreeForks, OtherSide DEF Sub, Shape, Nests
      <4>3. Toward(sc, Other(s), y, c) /\ Toward(sc, Other(s), z, c)
        BY <3>1, <4>2, OtherSide DEF Shape, Sorts
      <4>4. Toward(sc, s, x, y) /\ Toward(sc, s, x, z) /\ x # y /\ x # z
        BY <4>3, <3>1, <2>2, <1>1, TowardOrders
      <4>5. y \in Member /\ z \in Member
        BY <3>1, <2>2, <1>1
      <4> QED
        BY <2>2, <4>4, <4>5, SameSide
    <3>3. CASE a \notin U[c]
      <4>1. U[a] \cap U[c] = {}
        BY <3>1, <3>3, <2>2 DEF Shape, Nests
      <4>2. y \in T \ U[c] /\ z \in T \ U[c] /\ c \in T \ U[a]
        BY <3>1, <4>1, <2>2, <1>1
      <4>3. (Before(sc, y, x) <=> Before(sc, y, c)) /\ (Before(sc, z, x) <=> Before(sc, z, c))
        BY <4>2, <1>1, <1>3 DEF Fits
      <4>4. Before(sc, c, y) <=> Before(sc, c, z)
        BY <4>2, <3>1, <2>2 DEF Shape, Convex
      <4>5. y # c /\ z # c /\ y # x /\ z # x /\ y \in Member /\ z \in Member
        BY <4>2, <1>1
      <4> QED
        BY <2>2, <4>3, <4>4, <4>5, <1>1, BeforeOrders
    <3> QED
      BY <3>2, <3>3
  <2>3. CASE a \in T /\ t \in T
    <3>1. t \in T \ U[a]
      BY <2>3, <1>2
    <3>2. ASSUME NEW w \in V[a]
          PROVE  Before(sc, t, w) <=> Before(sc, t, a)
      <4>1. CASE w \in U[a]
        BY <4>1, <3>1, <2>3, <1>1 DEF Shape, Convex
      <4>2. CASE w \notin U[a]
        <5>1. w = x /\ c \in U[a]
          BY <4>2, <2>3, <1>2
        <5>2. U[c] \subseteq U[a] /\ t \in T \ U[c] /\ c \in U[c]
          BY <5>1, <2>3, <3>1, <1>1 DEF Shape, Nests
        <5>3. Before(sc, t, x) <=> Before(sc, t, c)
          BY <5>2, <1>3 DEF Fits
        <5>4. Before(sc, t, c) <=> Before(sc, t, a)
          BY <5>1, <3>1, <2>3, <1>1 DEF Shape, Convex
        <5> QED
          BY <5>1, <5>3, <5>4
      <4> QED
        BY <4>1, <4>2
    <3> QED
      BY <3>2
  <2> QED
    BY <2>1, <2>2, <2>3
<1> QED
  BY <1>1, <1>2, <1>4, <1>8, <1>9, <1>10, <1>11, <1>12, <1>13 DEF Shape, V

(* avl_del takes n, which has no right child, out: l takes its place. *)
TakenOut(M, T, n, N) ==
  LET l == M[n].left
      p == M[n].parent
  IN /\ \A m \in T \ {n} : N[m].parent = IF m = l THEN p ELSE M[m].parent
     /\ \A m \in T \ {n}, t \in Sides : N[m][t] = IF M[m][t] = n THEN l ELSE M[m][t]
Without(U, n) == [a \in Member |-> U[a] \ {n}]

(* avl_del puts the left child of a node without a right one in its place. *)
LEMMA TakenOutShape ==
  ASSUME NEW M \in Nodes, NEW sc \in Scores, NEW T, NEW top, NEW U, Shape(M, sc, T, top, U),
         NEW n \in T, M[n].right = Nil, NEW N \in Nodes, TakenOut(M, T, n, N)
  PROVE  Shape(N, sc, T \ {n}, IF n = top THEN M[n].left ELSE top, Without(U, n))
<1> DEFINE V == Without(U, n)
           R == T \ {n}
           goal == IF n = top THEN M[n].left ELSE top
<1> PICK l : l = M[n].left
  OBVIOUS
<1> PICK p : p = M[n].parent
  OBVIOUS
<1> PICK h : h = goal
  OBVIOUS
<1>1. /\ T \subseteq Member /\ U \in [Member -> SUBSET Member] /\ n \in Member /\ top \in Link
      /\ \A m \in T : m \in U[m] /\ U[m] \subseteq T
  BY SubtreesLie DEF Shape
<1>2. /\ V \in [Member -> SUBSET Member]
      /\ \A m \in T : V[m] = U[m] \ {n}
  BY <1>1 DEF Without
<1>3. Nil \notin T /\ n # Nil
  BY <1>1, SortedSetAssumption
<1>4. /\ l \in Link /\ U[n] = {n} \cup Sub(U, l) /\ n \notin Sub(U, l) /\ l # n
      /\ (l # Nil => l \in R /\ M[l].parent = n)
  <2>1. "left" \in Sides /\ Other("left") = "right"
    BY DEF Sides, Other
  <2>2. /\ l \in Link /\ U[n] = {n} \cup Sub(U, M[n]["left"]) \cup Sub(U, M[n]["right"])
        /\ n \notin Sub(U, l) /\ (l # Nil => l \in T /\ l # n)
    BY <2>1, SubtreeForks
  <2>3. l # Nil => M[l].parent = n
    BY <2>1 DEF Shape, Points
  <2> QED
    BY <2>2, <2>3, <1>3 DEF Sub
<1> HIDE DEF V
<1>5. ASSUME NEW m \in R, NEW t \in Sides
      PROVE  Sub(V, N[m][t]) = Sub(U, M[m][t]) \ {n}
  <2>1. M[m][t] # Nil => M[m][t] \in T
    BY SubtreeForks
  <2>2. CASE M[m][t] = n
    <3>1. N[m][t] = l
      BY <2>2 DEF TakenOut
    <3> QED
      BY <3>1, <2>2, <1>2, <1>3, <1>4 DEF Sub
  <2>3. CASE M[m][t] # n
    <3>1. N[m][t] = M[m][t]
      BY <2>3 DEF TakenOut
    <3> QED
      BY <3>1, <2>1, <1>2 DEF Sub
  <2> QED
    BY <2>2, <2>3
<1>6. top # Nil /\ top \in T /\ U[top] = T /\ M[top].parent = Nil
  BY DEF Shape, Rooted, Sub
<1>7. n = top => p = Nil
  BY <1>6
<1>8. n # top => p \in R /\ \E s \in Sides : M[p][s] = n
  <2> SUFFICES ASSUME n # top
               PROVE  p \in R /\ \E s \in Sides : M[p][s] = n
    OBVIOUS
  <2>1. p \in T /\ \E s \in Sides : M[p][s] = n
    BY DEF Shape, Hangs
  <2>2. p # n
    BY <2>1, <1>3, SubtreeForks
  <2> QED
    BY <2>1, <2>2
<1>9. Rooted(N, R, h, V) /\ h \in Link
  <2>1. CASE n = top
    <3>1. h = l /\ Sub(V, l) = Sub(U, l)
      <4>1. l # Nil => V[l] = U[l] \ {n} /\ n \notin U[l]
        BY <1>2, <1>4 DEF Sub
      <4>2. l # Nil => V[l] = U[l]
        BY <4>1
      <4> QED
        BY <2>1, <4>2 DEF Sub
    <3>2. R = Sub(U, l)
      BY <2>1, <1>4, <1>6
    <3>3. l # Nil => N[l].parent = Nil
      BY <2>1, <1>4, <1>7 DEF TakenOut
    <3> QED
      BY <3>1, <3>2, <3>3, <1>4 DEF Rooted
  <2>2. CASE n # top
    <3>1. h = top /\ top \in R /\ V[top] = R
      BY <2>2, <1>2, <1>6
    <3>2. top # l
      BY <1>4, <1>6, <1>3
    <3>3. N[top].parent = Nil
      BY <3>1, <3>2, <1>6 DEF TakenOut
    <3> QED
      BY <3>1, <3>3, <1>1, <1>6 DEF Rooted, Sub
  <2> QED
    BY <2>1, <2>2
<1>10. Forks(N, R, V)
  <2> SUFFICES ASSUME NEW m \in R
               PROVE  V[m] = {m} \cup Sub(V, N[m].left) \cup Sub(V, N[m].right)
    BY DEF Forks
  <2>1. U[m] = {m} \cup Sub(U, M[m]["left"]) \cup Sub(U, M[m]["right"])
    BY DEF Shape, Forks
  <2>2. /\ Sub(V, N[m]["left"]) = Sub(U, M[m]["left"]) \ {n}
        /\ Sub(V, N[m]["right"]) = Sub(U, M[m]["right"]) \ {n}
    BY <1>5 DEF Sides
  <2>3. V[m] = U[m] \ {n} /\ m # n
    BY <1>2
  <2> QED
    BY <2>1, <2>2, <2>3
<1>11. Points(N, R)
  <2> SUFFICES ASSUME NEW m \in R, NEW t \in Sides, N[m][t] # Nil
               PROVE  N[m][t] \in R /\ N[N[m][t]].parent = m
    BY DEF Points
  <2>1. CASE M[m][t] = n
    <3>1. N[m][t] = l /\ p = m
      BY <2>1, <1>3 DEF TakenOut, Shape, Points
    <3> QED
      BY <3>1, <1>4 DEF TakenOut
  <2>2. CASE M[m][t] # n
    <3>1. N[m][t] = M[m][t]
      BY <2>2 DEF TakenOut
    <3>2. M[m][t] \in R /\ M[M[m][t]].parent = m
      BY <2>2, <3>1 DEF Shape, Points
    <3>3. M[m][t] # l
      BY <3>1, <3>2, <1>4
    <3> QED
      BY <3>1, <3>2, <3>3 DEF TakenOut
  <2> QED
    BY <2>1, <2>2
<1>12. Sorts(N, sc, R, V)
  BY <1>5 DEF Sorts, Shape
<1>13. Hangs(N, R, h)
  <2> SUFFICES ASSUME NEW m \in R, m # h
               PROVE  N[m].parent \in R /\ \E t \in Sides : N[N[m].parent][t] = m
    BY DEF Hangs
  <2>1. CASE m = l
    <3>1. n # top
      BY <2>1
    <3>2. PICK s \in Sides : M[p][s] = n
      BY <3>1, <1>8
    <3>3. N[m].parent = p /\ N[p][s] = m /\ p \in R
      BY <2>1, <3>1, <3>2, <1>8 DEF TakenOut
    <3> QED
      BY <3>3
  <2>2. CASE m # l
    <3>1. m # top
      BY <1>4, <1>6, <2>2
    <3>2. PICK q \in T, s \in Sides : q = M[m].parent /\ M[q][s] = m
      BY <3>1 DEF Shape, Hangs
    <3>3. q # n
      BY <2>2, <3>2, <1>3 DEF Sides
    <3>4. N[m].parent = q /\ N[q][s] = m
      BY <2>2, <3>2, <3>3 DEF TakenOut
    <3> QED
      BY <3>2, <3>3, <3>4
  <2> QED
    BY <2>1, <2>2
<1>14. Nests(R, V)
  BY <1>2 DEF Nests, Shape
<1>15. Convex(sc, R, V)
  BY <1>2 DEF Convex, Shape
<1> QED
  BY <1>1, <1>2, <1>9, <1>10, <1>11, <1>12, <1>13, <1>14, <1>15 DEF Shape, V

(* rot_left and rot_right: the child g on the side s of q goes up. *)
Turned(M, T, q, s, N) ==
  LET g == M[q][s]
      mid == M[g][Other(s)]
  IN /\ N[q][s] = mid /\ N[q][Other(s)] = M[q][Other(s)] /\ N[q].parent = g
     /\ N[g][Other(s)] = q /\ N[g][s] = M[g][s] /\ N[g].parent = M[q].parent
     /\ \A m \in T \ {q, g} : N[m].parent = IF m = mid THEN q ELSE M[m].parent
     /\ \A m \in T \ {q, g}, t \in Sides : N[m][t] = IF M[m][t] = q THEN g ELSE M[m][t]
TurnedSub(M, U, q, s) ==
  LET g == M[q][s]
  IN [U EXCEPT ![q] = {q} \cup Sub(U, M[q][Other(s)]) \cup Sub(U, M[g][Other(s)]), ![g] = U[q]]

(* A rotation about q keeps the order of the nodes. *)
LEMMA TurnedShape ==
  ASSUME NEW M \in Nodes, NEW sc \in Scores, NEW T, NEW top, NEW U, Shape(M, sc, T, top, U),
         NEW q \in T, NEW s \in Sides, M[q][s] # Nil, NEW N \in Nodes, Turned(M, T, q, s, N)
  PROVE  Shape(N, sc, T, IF q = top THEN M[q][s] ELSE top, TurnedSub(M, U, q, s))
<1> DEFINE V == TurnedSub(M, U, q, s)
           goal == IF q = top THEN M[q][s] ELSE top
<1> PICK o : o = Other(s)
  OBVIOUS
<1> PICK g : g = M[q][s]
  OBVIOUS
<1> PICK mid : mid = M[g][o]
  OBVIOUS
<1> PICK far : far = M[g][s]
  OBVIOUS
<1> PICK oth : oth = M[q][o]
  OBVIOUS
<1> PICK p : p = M[q].parent
  OBVIOUS
<1> PICK h : h = goal
  OBVIOUS
<1> PICK F : F = Sub(U, far)
  OBVIOUS
<1> PICK D : D = Sub(U, mid)
  OBVIOUS
<1> PICK E : E = Sub(U, oth)
  OBVIOUS
<1>1. /\ T \subseteq Member /\ U \in [Member -> SUBSET Member] /\ q \in Member /\ top \in Link
      /\ \A m \in T : m \in U[m] /\ U[m] \subseteq T
  BY SubtreesLie DEF Shape
<1>2. o \in Sides /\ Other(o) = s /\ o # s /\ Sides = {s, o}
  BY OtherSide
<1>3. Nil \notin T /\ q # Nil
  BY <1>1, SortedSetAssumption
<1>4. /\ g \in T /\ g \in Member /\ g # q /\ g # Nil /\ M[g].parent = q /\ g \in U[q]
      /\ U[q] = {q} \cup U[g] \cup E /\ q \notin U[g] /\ q \notin E /\ U[g] \cap E = {}
      /\ oth \in Link /\ (oth # Nil => oth \in T /\ M[oth].parent = q)
  <2>1. g \in T /\ g # q /\ M[g].parent = q /\ g \in U[q]
    BY <1>2, SubtreeForks DEF Shape, Points
  <2>2. /\ U[q] = {q} \cup U[g] \cup E /\ q \notin U[g] /\ U[g] \cap E = {}
    BY <2>1, <1>3, SubtreeForks DEF Sub
  <2>3. q \notin E /\ oth \in Link /\ (oth # Nil => oth \in T /\ M[oth].parent = q)
    BY <1>2, SubtreeForks DEF Shape, Points
  <2> QED
    BY <2>1, <2>2, <2>3, <1>1, <1>3
<1>5. /\ U[g] = {g} \cup F \cup D /\ g \notin F /\ g \notin D /\ F \cap D = {}
      /\ mid \in Link /\ (mid # Nil => mid \in T /\ M[mid].parent = g)
      /\ far \in Link /\ (far # Nil => far \in T /\ M[far].parent = g)
  <2>1. /\ U[g] = {g} \cup Sub(U, M[g][s]) \cup Sub(U, M[g][o]) /\ g \notin F /\ F \cap D = {}
        /\ far \in Link /\ (far # Nil => far \in T)
    BY <1>4, SubtreeForks
  <2>2. g \notin D /\ mid \in Link /\ (mid # Nil => mid \in T)
    BY <1>2, <1>4, SubtreeForks
  <2>3. (mid # Nil => M[mid].parent = g) /\ (far # Nil => M[far].parent = g)
    BY <1>2, <1>4 DEF Shape, Points
  <2> QED
    BY <2>1, <2>2, <2>3
<1>6. /\ V \in [Member -> SUBSET Member] /\ V[q] = {q} \cup E \cup D /\ V[g] = U[q]
      /\ \A m \in Member \ {q, g} : V[m] = U[m]
  <2>1. {q} \cup E \cup D \subseteq Member
    BY <1>1, <1>4, <1>5
  <2>2. V = [U EXCEPT ![q] = {q} \cup E \cup D, ![g] = U[q]]
    BY DEF TurnedSub
  <2> HIDE DEF V
  <2> QED
    BY <2>1, <2>2, <1>1, <1>4
<1> HIDE DEF V
<1>7. /\ N[q][s] = mid /\ N[q][o] = oth /\ N[q].parent = g
      /\ N[g][o] = q /\ N[g][s] = far /\ N[g].parent = p
      /\ \A m \in T \ {q, g} : N[m].parent = IF m = mid THEN q ELSE M[m].parent
      /\ \A m \in T \ {q, g}, t \in Sides : N[m][t] = IF M[m][t] = q THEN g ELSE M[m][t]
  BY DEF Turned
<1>8. /\ mid \notin {q, g} /\ far \notin {q, g} /\ oth \notin {q, g}
  <2>1. mid # g /\ far # g
    BY <1>4, <1>2, SubtreeForks
  <2>2. mid # q /\ far # q
    BY <1>3, <1>4, <1>5, SubtreesLie DEF Sub
  <2>3. oth # q /\ oth # g
    BY <1>3, <1>4, <1>1 DEF Sub
  <2> QED
    BY <2>1, <2>2, <2>3
<1>9. Sub(V, mid) = D /\ Sub(V, far) = F /\ Sub(V, oth) = E
  BY <1>4, <1>5, <1>6, <1>8, <1>1 DEF Sub
<1>10. ASSUME NEW m \in T \ {q, g}, NEW t \in Sides
       PROVE  M[m][t] # g /\ Sub(V, N[m][t]) = Sub(U, M[m][t])
  <2>1. M[m][t] # Nil => M[m][t] \in T /\ M[M[m][t]].parent = m
    BY DEF Shape, Points
  <2>2. M[m][t] # g
    BY <2>1, <1>4
  <2>3. CASE M[m][t] = q
    BY <2>3, <1>3, <1>4, <1>6, <1>7 DEF Sub
  <2>4. CASE M[m][t] # q
    <3>1. N[m][t] = M[m][t]
      BY <2>4, <1>7
    <3> QED
      BY <3>1, <2>1, <2>2, <2>4, <1>1, <1>6 DEF Sub
  <2> QED
    BY <2>2, <2>3, <2>4
<1>11. top # Nil /\ top \in T /\ U[top] = T /\ M[top].parent = Nil /\ top # g
  BY <1>3, <1>4 DEF Shape, Rooted, Sub
<1>12. Rooted(N, T, h, V) /\ h \in Link
  <2>1. CASE q = top
    BY <2>1, <1>4, <1>6, <1>7, <1>11 DEF Rooted, Sub, Link
  <2>2. CASE q # top
    <3>1. top # mid
      BY <1>3, <1>4, <1>5, <1>11
    <3>2. h = top /\ N[top].parent = Nil /\ V[top] = T
      BY <2>2, <3>1, <1>1, <1>6, <1>7, <1>11
    <3> QED
      BY <3>2, <1>1, <1>11 DEF Rooted, Sub
  <2> QED
    BY <2>1, <2>2
<1>13. Forks(N, T, V)
  <2> SUFFICES ASSUME NEW m \in T
               PROVE  V[m] = {m} \cup Sub(V, N[m].left) \cup Sub(V, N[m].right)
    BY DEF Forks
  <2>1. V[m] = {m} \cup Sub(V, N[m][s]) \cup Sub(V, N[m][o])
    <3>1. CASE m = q
      BY <3>1, <1>6, <1>7, <1>9
    <3>2. CASE m = g
      <4>1. Sub(V, N[g][o]) = {q} \cup E \cup D /\ Sub(V, N[g][s]) = F
        BY <1>3, <1>6, <1>7, <1>9 DEF Sub
      <4> QED
        BY <3>2, <4>1, <1>4, <1>5, <1>6
    <3>3. CASE m \notin {q, g}
      <4>1. V[m] = U[m]
        BY <3>3, <1>1, <1>6
      <4>2. Sub(V, N[m][s]) = Sub(U, M[m][s]) /\ Sub(V, N[m][o]) = Sub(U, M[m][o])
        BY <3>3, <1>2, <1>10
      <4> QED
        BY <4>1, <4>2, SubtreeForks
    <3> QED
      BY <3>1, <3>2, <3>3
  <2> QED
    BY <2>1 DEF Sides, Other
<1>14. Points(N, T)
  <2> SUFFICES ASSUME NEW m \in T, NEW t \in Sides, N[m][t] # Nil
               PROVE  N[m][t] \in T /\ N[N[m][t]].parent = m
    BY DEF Points
  <2>1. CASE m = q /\ t = s
    BY <2>1, <1>5, <1>7, <1>8
  <2>2. CASE m = q /\ t = o
    <3>1. oth # mid
      BY <2>2, <1>4, <1>5, <1>7
    <3> QED
      BY <2>2, <3>1, <1>4, <1>7, <1>8
  <2>3. CASE m = g /\ t = o
    BY <2>3, <1>7
  <2>4. CASE m = g /\ t = s
    <3>1. far # mid
      <4>1. far \in F
        BY <2>4, <1>1, <1>5, <1>7 DEF Sub
      <4> QED
        BY <2>4, <4>1, <1>5, <1>7 DEF Sub
    <3> QED
      BY <2>4, <3>1, <1>5, <1>7, <1>8
  <2>5. CASE m \notin {q, g} /\ M[m][t] = q
    <3>1. N[m][t] = g /\ p = m
      BY <2>5, <1>3, <1>7 DEF Shape, Points
    <3> QED
      BY <3>1, <1>4, <1>7
  <2>6. CASE m \notin {q, g} /\ M[m][t] # q
    <3>1. N[m][t] = M[m][t]
      BY <2>6, <1>7
    <3>2. M[m][t] \in T /\ M[M[m][t]].parent = m
      BY <3>1 DEF Shape, Points
    <3>3. M[m][t] # mid
      BY <2>6, <3>1, <3>2, <1>5
    <3>4. M[m][t] # g
      BY <2>6, <1>10
    <3> QED
      BY <2>6, <3>1, <3>2, <3>3, <3>4, <1>7
  <2> QED
    BY <2>1, <2>2, <2>3, <2>4, <2>5, <2>6, <1>2
<1>15. /\ \A x \in U[g] : Toward(sc, s, x, q)
       /\ \A x \in E : Toward(sc, o, x, q)
       /\ \A x \in F : Toward(sc, s, x, g)
       /\ \A x \in D : Toward(sc, o, x, g)
  BY <1>2, <1>3, <1>4 DEF Shape, Sorts, Sub
<1>16. U[g] \subseteq Member /\ E \subseteq Member /\ F \subseteq Member /\ D \subseteq Member
  BY <1>1, <1>4, <1>5
<1>17. \A x \in {q} \cup E \cup D : Toward(sc, o, x, g)
  <2>1. Toward(sc, o, q, g)
    BY <1>1, <1>4, <1>15, TowardOrders
  <2>2. \A x \in E : Toward(sc, o, x, g)
    BY <2>1, <1>1, <1>2, <1>4, <1>15, <1>16, TowardOrders
  <2> QED
    BY <2>1, <2>2, <1>15
<1>18. Sorts(N, sc, T, V)
  <2> SUFFICES ASSUME NEW m \in T, NEW t \in Sides, NEW x \in Sub(V, N[m][t])
               PROVE  Toward(sc, t, x, m)
    BY DEF Sorts
  <2>1. CASE m = q /\ t = s
    BY <2>1, <1>5, <1>7, <1>9, <1>15
  <2>2. CASE m = q /\ t = o
    BY <2>2, <1>7, <1>9, <1>15
  <2>3. CASE m = g /\ t = o
    BY <2>3, <1>3, <1>6, <1>7, <1>17 DEF Sub
  <2>4. CASE m = g /\ t = s
    BY <2>4, <1>7, <1>9, <1>15
  <2>5. CASE m \notin {q, g}
    BY <2>5, <1>10 DEF Shape, Sorts
  <2> QED
    BY <2>1, <2>2, <2>3, <2>4, <2>5, <1>2
<1>19. Hangs(N, T, h)
  <2> SUFFICES ASSUME NEW m \in T, m # h
               PROVE  N[m].parent \in T /\ \E t \in Sides : N[N[m].parent][t] = m
    BY DEF Hangs
  <2>1. CASE m = q
    BY <2>1, <1>2, <1>4, <1>7
  <2>2. CASE m = g
    <3>1. q # top
      BY <2>2
    <3>2. PICK t \in Sides : p \in T /\ M[p][t] = q
      BY <3>1 DEF Shape, Hangs
    <3>3. p # q
      BY <3>2, <1>3, SubtreeForks
    <3>4. p # g
      <4>1. q \in U[p]
        BY <3>2, <1>3, SubtreeForks
      <4> QED
        BY <4>1, <1>4
    <3>5. N[p][t] = g
      BY <3>2, <3>3, <3>4, <1>7
    <3> QED
      BY <2>2, <3>2, <3>5, <1>7
  <2>3. CASE m = mid /\ m \notin {q, g}
    BY <2>3, <1>2, <1>7
  <2>4. CASE m \notin {q, g} /\ m # mid
    <3>1. m # top
      BY <2>4
    <3>2. PICK r \in T, t \in Sides : r = M[m].parent /\ M[r][t] = m
      BY <3>1 DEF Shape, Hangs
    <3>3. N[m].parent = r
      BY <2>4, <3>2, <1>7
    <3>4. CASE r = q
      <4>1. t = o
        BY <2>4, <3>2, <3>4, <1>2
      <4> QED
        BY <3>2, <3>3, <3>4, <4>1, <1>2, <1>7
    <3>5. CASE r = g
      <4>1. t = s
        BY <2>4, <3>2, <3>5, <1>2
      <4> QED
        BY <3>2, <3>3, <3>5, <4>1, <1>2, <1>7
    <3>6. CASE r \notin {q, g}
      BY <2>4, <3>2, <3>3, <3>6, <1>7
    <3> QED
      BY <3>4, <3>5, <3>6
  <2> QED
    BY <2>1, <2>2, <2>3, <2>4
<1>20. /\ \A b \in E : b \in T => U[b] \subseteq E
       /\ \A b \in D : b \in T => U[b] \subseteq D
       /\ \A b \in F : b \in T => U[b] \subseteq F
  BY <1>2, <1>4, SidesNest
<1>21. V[q] \subseteq U[q] /\ q \in V[q] /\ g \in V[g] /\ g \notin V[q]
  BY <1>1, <1>4, <1>5, <1>6
<1>22. ASSUME NEW b \in T \ {q, g}
       PROVE  /\ V[b] = U[b] /\ b \in V[b]
              /\ g \in U[b] <=> q \in U[b]
              /\ q \in U[b] => U[q] \subseteq U[b]
              /\ b \in U[q] => U[b] \subseteq U[q]
              /\ b \in U[q] \/ q \in U[b] \/ U[b] \cap U[q] = {}
              /\ b \in V[q] => U[b] \subseteq V[q]
              /\ b \in V[q] \/ q \in U[b] \/ U[b] \cap V[q] = {}
  <2>1. V[b] = U[b] /\ b \in V[b]
    BY <1>1, <1>6
  <2>2. /\ q \in U[b] => U[q] \subseteq U[b]
        /\ b \in U[q] => U[b] \subseteq U[q]
        /\ b \in U[q] \/ q \in U[b] \/ U[b] \cap U[q] = {}
    BY DEF Shape, Nests
  <2>3. g \in U[b] => q \in U[b]
    BY <1>4, ParentInSubtree
  <2>4. b \in V[q] => U[b] \subseteq V[q]
    BY <1>6, <1>20
  <2>5. ASSUME b \notin V[q], q \notin U[b]
        PROVE  U[b] \cap V[q] = {}
    <3>1. CASE b \in U[q]
      <4>1. b \in F
        BY <2>5, <3>1, <1>4, <1>5, <1>6
      <4>2. U[b] \subseteq F
        BY <4>1, <1>20
      <4>3. F \subseteq U[g]
        BY <1>5
      <4> QED
        BY <4>2, <4>3, <1>4, <1>5, <1>6
    <3>2. CASE b \notin U[q]
      BY <2>2, <2>5, <3>2, <1>21
    <3> QED
      BY <3>1, <3>2
  <2> QED
    BY <2>1, <2>2, <2>3, <2>4, <2>5, <1>4
<1>23. Nests(T, V)
  <2> SUFFICES ASSUME NEW a \in T, NEW b \in T
               PROVE  /\ b \in V[a] => V[b] \subseteq V[a]
                      /\ b \in V[a] \/ a \in V[b] \/ V[a] \cap V[b] = {}
    BY DEF Nests
  <2>1. CASE a \in {q, g} /\ b \in {q, g}
    BY <2>1, <1>4, <1>6, <1>21
  <2>2. CASE a \in {q, g} /\ b \notin {q, g}
    BY <2>2, <1>6, <1>22
  <2>3. CASE a \notin {q, g} /\ b \in {q, g}
    BY <2>3, <1>6, <1>21, <1>22
  <2>4. CASE a \notin {q, g} /\ b \notin {q, g}
    BY <2>4, <1>22 DEF Shape, Nests
  <2> QED
    BY <2>1, <2>2, <2>3, <2>4
<1>24. Convex(sc, T, V)
  <2> SUFFICES ASSUME NEW a \in T, NEW t \in T \ V[a], NEW y \in V[a], NEW z \in V[a]
               PROVE  Before(sc, t, y) <=> Before(sc, t, z)
    BY DEF Convex
  <2>1. CASE a = g
    BY <2>1, <1>6 DEF Shape, Convex
  <2>2. CASE a = q /\ t \notin U[q]
    BY <2>2, <1>21 DEF Shape, Convex
  <2>3. CASE a = q /\ t \in U[q]
    <3>1. t = g \/ t \in F
      BY <2>3, <1>4, <1>5, <1>6
    <3>2. t \in Member /\ y \in Member /\ z \in Member
      BY <2>3, <1>1, <1>21
    <3>3. Toward(sc, o, y, g) /\ Toward(sc, o, z, g)
      BY <2>3, <1>6, <1>17
    <3>4. t # g => Toward(sc, o, g, t)
      BY <3>1, <3>2, <1>4, <1>15, TowardOrders
    <3>5. Toward(sc, o, y, t) /\ Toward(sc, o, z, t)
      BY <3>2, <3>3, <3>4, <1>2, <1>4, TowardOrders
    <3>6. t # y /\ t # z
      BY <3>2, <3>5, <1>2, TowardOrders
    <3> QED
      BY <3>2, <3>5, <3>6, <1>2, SameSide
  <2>4. CASE a \notin {q, g}
    BY <2>4, <1>22 DEF Shape, Convex
  <2> QED
    BY <2>1, <2>2, <2>3, <2>4
<1>25. Shape(N, sc, T, h, V)
  BY <1>1, <1>6, <1>12, <1>13, <1>14, <1>18, <1>19, <1>23, <1>24 DEF Shape
<1> QED
  BY <1>25 DEF V

(* avl_del puts the node v where n is. *)
Name(n, v, a) == IF a = n THEN v ELSE a
Names(n, v, S) == IF n \in S THEN (S \ {n}) \cup {v} ELSE S
Renamed(M, T, n, v, N) ==
  \A m \in T : /\ N[Name(n, v, m)].parent = Name(n, v, M[m].parent)
               /\ \A t \in Sides : N[Name(n, v, m)][t] = Name(n, v, M[m][t])
RenamedSub(U, n, v) == [a \in Member |-> Names(n, v, U[IF a = v THEN n ELSE a])]

(* Renaming is one to one. *)
LEMMA NamesOf ==
  ASSUME NEW T, NEW n \in T, NEW v, v \notin T, NEW S \in SUBSET T
  PROVE  /\ \A b \in T : Name(n, v, b) \in Names(n, v, S) <=> b \in S
         /\ \A x \in Names(n, v, S) : \E b \in S : x = Name(n, v, b)
         /\ \A a, b \in T : Name(n, v, a) = Name(n, v, b) => a = b
BY DEF Name, Names

(* A victim next to n in the order can take its place in the tree. *)
LEMMA RenamedShape ==
  ASSUME NEW M \in Nodes, NEW sc \in Scores, NEW T, NEW top, NEW U, Shape(M, sc, T, top, U),
         NEW n \in T, NEW v \in Member \ T,
         \A t \in T \ {n} : Before(sc, t, n) <=> Before(sc, t, v),
         NEW N \in Nodes, Renamed(M, T, n, v, N)
  PROVE  Shape(N, sc, (T \ {n}) \cup {v}, Name(n, v, top), RenamedSub(U, n, v))
<1> DEFINE f(a) == Name(n, v, a)
           F(S) == Names(n, v, S)
           V == RenamedSub(U, n, v)
           R == (T \ {n}) \cup {v}
           h == Name(n, v, top)
<1>1. /\ T \subseteq Member /\ U \in [Member -> SUBSET Member] /\ n \in Member /\ top \in Link
      /\ \A m \in T : m \in U[m] /\ U[m] \subseteq T
  BY SubtreesLie DEF Shape
<1>2. Nil \notin T /\ n # Nil /\ v # Nil
  BY <1>1, SortedSetAssumption
<1>3. V \in [Member -> SUBSET Member] /\ \A a \in T : V[f(a)] = F(U[a])
  <2>1. \A a \in Member : V[a] = Names(n, v, U[IF a = v THEN n ELSE a])
    BY DEF RenamedSub
  <2>2. \A a \in T : V[f(a)] = F(U[a])
    BY <2>1, <1>1 DEF Name
  <2>3. \A a \in Member : V[a] \subseteq Member
    BY <2>1, <1>1 DEF Names
  <2>4. V \in [Member -> SUBSET Member]
    BY <2>3 DEF RenamedSub
  <2> QED
    BY <2>2, <2>4
<1>4. /\ \A a \in T : f(a) \in R /\ f(a) # Nil
      /\ \A x \in R : \E a \in T : x = f(a)
      /\ f(Nil) = Nil
  BY <1>2 DEF Name
<1>5. /\ \A a, b \in T : f(b) \in F(U[a]) <=> b \in U[a]
      /\ \A a \in T : \A x \in F(U[a]) : \E b \in U[a] : b \in T /\ x = f(b)
      /\ \A a, b \in T : f(a) = f(b) => a = b
  BY <1>1, NamesOf
<1>6. \A a, b \in T : Before(sc, f(a), f(b)) <=> Before(sc, a, b)
  <2> TAKE a \in T, b \in T
  <2>1. CASE a = n /\ b = n
    BY <2>1, <1>1, BeforeOrders DEF Name
  <2>2. CASE a # n /\ b = n
    BY <2>2 DEF Name
  <2>3. CASE a = n /\ b # n
    <3>1. Before(sc, b, n) <=> Before(sc, b, v)
      BY <2>3
    <3>2. b # v /\ b \in Member
      BY <1>1
    <3> QED
      BY <2>3, <3>1, <3>2, <1>1, BeforeOrders DEF Name
  <2>4. CASE a # n /\ b # n
    BY <2>4 DEF Name
  <2> QED
    BY <2>1, <2>2, <2>3, <2>4
<1>7. \A a, b \in T, s \in Sides : Toward(sc, s, f(a), f(b)) <=> Toward(sc, s, a, b)
  BY <1>6 DEF Toward
<1>8. ASSUME NEW a \in T, NEW s \in Sides
      PROVE  /\ Sub(V, N[f(a)][s]) = F(Sub(U, M[a][s])) /\ N[f(a)][s] = f(M[a][s])
             /\ M[a][s] # Nil => M[a][s] \in T
  <2>1. N[f(a)][s] = f(M[a][s]) /\ (M[a][s] # Nil => M[a][s] \in T)
    BY SubtreeForks DEF Renamed
  <2>2. CASE M[a][s] = Nil
    BY <2>1, <2>2, <1>4 DEF Sub, Names
  <2>3. CASE M[a][s] # Nil
    BY <2>1, <2>3, <1>3, <1>4 DEF Sub
  <2> QED
    BY <2>1, <2>2, <2>3
<1> HIDE DEF f, F, V, h
<1>9. /\ \A S : F(S) = IF n \in S THEN (S \ {n}) \cup {v} ELSE S
      /\ \A a : f(a) = IF a = n THEN v ELSE a
  BY DEF f, F, Name, Names
<1>10. top # Nil /\ top \in T /\ U[top] = T /\ M[top].parent = Nil
  BY DEF Shape, Rooted, Sub
<1>11. Rooted(N, R, h, V) /\ h \in Link
  <2>1. h = f(top) /\ h \in R /\ h # Nil
    BY <1>4, <1>10 DEF f, h
  <2>2. V[h] = R
    BY <2>1, <1>3, <1>9, <1>10
  <2>3. N[h].parent = Nil
    BY <2>1, <1>4, <1>10 DEF Renamed, f
  <2>4. h \in Link
    BY <2>1, <1>1 DEF Link
  <2> QED
    BY <2>1, <2>2, <2>3, <2>4 DEF Rooted, Sub
<1>12. Forks(N, R, V)
  <2> SUFFICES ASSUME NEW a \in T
               PROVE  V[f(a)] = {f(a)} \cup Sub(V, N[f(a)].left) \cup Sub(V, N[f(a)].right)
    BY <1>4 DEF Forks
  <2>1. U[a] = {a} \cup Sub(U, M[a].left) \cup Sub(U, M[a].right)
    BY DEF Shape, Forks
  <2>2. /\ Sub(V, N[f(a)]["left"]) = F(Sub(U, M[a]["left"]))
        /\ Sub(V, N[f(a)]["right"]) = F(Sub(U, M[a]["right"]))
    BY <1>8 DEF Sides
  <2>3. \A A, B : F({a} \cup A \cup B) = {f(a)} \cup F(A) \cup F(B)
    BY <1>9
  <2> QED
    BY <2>1, <2>2, <2>3, <1>3
<1>13. Points(N, R)
  <2> SUFFICES ASSUME NEW a \in T, NEW s \in Sides, N[f(a)][s] # Nil
               PROVE  N[f(a)][s] \in R /\ N[N[f(a)][s]].parent = f(a)
    BY <1>4 DEF Points
  <2> PICK k : k = M[a][s]
    OBVIOUS
  <2>1. N[f(a)][s] = f(k) /\ k # Nil
    BY <1>4, <1>8
  <2>2. k \in T /\ M[k].parent = a
    BY <2>1 DEF Shape, Points
  <2>3. N[f(k)].parent = f(a)
    BY <2>2 DEF Renamed, f
  <2> QED
    BY <2>1, <2>2, <2>3, <1>4
<1>14. Sorts(N, sc, R, V)
  <2> SUFFICES ASSUME NEW a \in T, NEW s \in Sides, NEW x \in Sub(V, N[f(a)][s])
               PROVE  Toward(sc, s, x, f(a))
    BY <1>4 DEF Sorts
  <2>1. x \in F(Sub(U, M[a][s]))
    BY <1>8
  <2>2. PICK b \in Sub(U, M[a][s]) : x = f(b)
    BY <2>1, <1>9
  <2>3. b \in T
    BY SubtreeForks
  <2>4. Toward(sc, s, b, a)
    BY DEF Shape, Sorts
  <2> QED
    BY <2>2, <2>3, <2>4, <1>7
<1>15. Hangs(N, R, h)
  <2> SUFFICES ASSUME NEW a \in T, f(a) # h
               PROVE  N[f(a)].parent \in R /\ \E s \in Sides : N[N[f(a)].parent][s] = f(a)
    BY <1>4 DEF Hangs
  <2>1. a # top
    BY DEF f, h
  <2>2. PICK p \in T, s \in Sides : p = M[a].parent /\ M[p][s] = a
    BY <2>1 DEF Shape, Hangs
  <2>3. N[f(a)].parent = f(p) /\ N[f(p)][s] = f(a)
    BY <2>2, <1>8 DEF Renamed, f
  <2> QED
    BY <2>2, <2>3, <1>4
<1>16. Nests(R, V)
  <2> SUFFICES ASSUME NEW a \in T, NEW b \in T
               PROVE  /\ f(b) \in V[f(a)] => V[f(b)] \subseteq V[f(a)]
                      /\ f(b) \in V[f(a)] \/ f(a) \in V[f(b)] \/ V[f(a)] \cap V[f(b)] = {}
    <3> HIDE DEF R
    <3> QED
      BY <1>4 DEF Nests
  <2>1. /\ b \in U[a] => U[b] \subseteq U[a]
        /\ b \in U[a] \/ a \in U[b] \/ U[a] \cap U[b] = {}
    BY DEF Shape, Nests
  <2>2. V[f(a)] = F(U[a]) /\ V[f(b)] = F(U[b]) /\ v \notin U[a] /\ v \notin U[b]
    BY <1>1, <1>3
  <2>3. (f(b) \in V[f(a)] <=> b \in U[a]) /\ (f(a) \in V[f(b)] <=> a \in U[b])
    BY <1>5, <2>2
  <2>4. U[b] \subseteq U[a] => F(U[b]) \subseteq F(U[a])
    BY <1>9
  <2>5. U[a] \cap U[b] = {} => F(U[a]) \cap F(U[b]) = {}
    BY <2>2, <1>9
  <2> QED
    BY <2>1, <2>2, <2>3, <2>4, <2>5
<1>17. Convex(sc, R, V)
  <2> SUFFICES ASSUME NEW a \in T, NEW t \in R \ V[f(a)], NEW y \in V[f(a)], NEW z \in V[f(a)]
               PROVE  Before(sc, t, y) <=> Before(sc, t, z)
    <3> HIDE DEF R
    <3> QED
      BY <1>4 DEF Convex
  <2>1. PICK t0 \in T : t = f(t0)
    BY <1>4
  <2>2. PICK y0 \in U[a] : y0 \in T /\ y = f(y0)
    BY <1>3, <1>5
  <2>3. PICK z0 \in U[a] : z0 \in T /\ z = f(z0)
    BY <1>3, <1>5
  <2>4. t0 \notin U[a]
    BY <2>1, <1>3, <1>5
  <2>5. Before(sc, t0, y0) <=> Before(sc, t0, z0)
    BY <2>4 DEF Shape, Convex
  <2> QED
    BY <2>1, <2>2, <2>3, <2>5, <1>6
<1>18. R \subseteq Member
  BY <1>1
<1> HIDE DEF R
<1>19. Shape(N, sc, R, h, V)
  BY <1>3, <1>11, <1>12, <1>13, <1>14, <1>15, <1>16, <1>17, <1>18 DEF Shape
<1> QED
  BY <1>19 DEF R, h, V

SameLinks(M, N, T) ==
  \A m \in T : N[m].parent = M[m].parent /\ \A t \in Sides : N[m][t] = M[m][t]
SameSizes(M, N, m) == N[m].depth = M[m].depth /\ N[m].count = M[m].count

(* The shape depends on the pointers and the order only. *)
LEMMA SameShape ==
  ASSUME NEW M, NEW sc, NEW T, NEW top, NEW U, Shape(M, sc, T, top, U),
         NEW N, SameLinks(M, N, T), NEW sd, \A m \in T : sd[m] = sc[m],
         \A n \in T : U[n] \subseteq T
  PROVE  Shape(N, sd, T, top, U)
<1>1. /\ \A m \in T, t \in Sides : N[m][t] = M[m][t]
      /\ \A m \in T : N[m].left = M[m].left /\ N[m].right = M[m].right
      /\ \A m \in T : N[m].parent = M[m].parent
  BY DEF SameLinks, Sides
<1>2. /\ \A a, b \in T : Before(sd, a, b) <=> Before(sc, a, b)
      /\ \A s, a, b : a \in T /\ b \in T => (Toward(sd, s, a, b) <=> Toward(sc, s, a, b))
  BY DEF Before, Toward
<1>3. Rooted(N, T, top, U)
  BY <1>1 DEF Shape, Rooted
<1>4. Forks(N, T, U)
  BY <1>1 DEF Shape, Forks
<1>5. Points(N, T)
  BY <1>1 DEF Shape, Points
<1>6. Sorts(N, sd, T, U)
  <2> SUFFICES ASSUME NEW n \in T, NEW s \in Sides, NEW m \in Sub(U, N[n][s])
               PROVE  Toward(sd, s, m, n)
    BY DEF Sorts
  <2>1. N[n][s] = M[n][s] /\ Toward(sc, s, m, n)
    BY <1>1 DEF Shape, Sorts
  <2>2. m \in T
    BY <2>1 DEF Sub, Shape, Points
  <2> QED
    BY <2>1, <2>2, <1>2
<1>7. Hangs(N, T, top)
  BY <1>1 DEF Shape, Hangs
<1>8. Convex(sd, T, U)
  <2> SUFFICES ASSUME NEW a \in T, NEW t \in T \ U[a], NEW x \in U[a], NEW y \in U[a]
               PROVE  Before(sd, t, x) <=> Before(sd, t, y)
    BY DEF Convex
  <2>1. x \in T /\ y \in T
    OBVIOUS
  <2>2. Before(sc, t, x) <=> Before(sc, t, y)
    BY DEF Shape, Convex
  <2> QED
    BY <2>1, <2>2, <1>2
<1> QED
  BY <1>3, <1>4, <1>5, <1>6, <1>7, <1>8 DEF Shape

-----------------------------------------------------------------------------
(* Depths and counts. *)
LEMMA MaxPair ==
  ASSUME NEW a \in Nat, NEW b \in Nat
  PROVE  Max({a, b}) = IF a >= b THEN a ELSE b
<1>1. {a, b} \in SUBSET (0..a + b) /\ {a, b} # {}
  OBVIOUS
<1>2. Max({a, b}) \in {a, b} /\ \A y \in {a, b} : y <= Max({a, b})
  BY <1>1, MaxIn
<1> QED
  BY <1>2

(* avl_depth and avl_count, of no node too. *)
LEMMA DepthIs ==
  ASSUME NEW M \in Nodes, NEW n \in Link
  PROVE  /\ avl_depth(M, n) \in Nat /\ (n # Nil <=> avl_depth(M, n) > 0)
         /\ avl_count(M, n) \in Nat
BY SortedSetAssumption DEF Nodes, AVLNode, Link, avl_depth, avl_count

(* What avl_update stores. *)
LEMMA UpdateIs ==
  ASSUME NEW M \in Nodes, NEW n \in Member, NEW s \in Sides
  PROVE  /\ avl_update(M, n) \in Nodes /\ SameLinks(M, avl_update(M, n), Member)
         /\ \A m \in Member \ {n} : avl_update(M, n)[m] = M[m]
         /\ avl_update(M, n)[n].depth = 1 + Max({avl_depth(M, M[n][s]), avl_depth(M, M[n][Other(s)])})
         /\ avl_update(M, n)[n].count = 1 + avl_count(M, M[n][s]) + avl_count(M, M[n][Other(s)])
<1> PICK d : d = 1 + Max({avl_depth(M, M[n].left), avl_depth(M, M[n].right)})
  OBVIOUS
<1> PICK k : k = 1 + avl_count(M, M[n].left) + avl_count(M, M[n].right)
  OBVIOUS
<1> PICK N : N = [M EXCEPT ![n].depth = d, ![n].count = k]
  OBVIOUS
<1>1. avl_update(M, n) = N
  BY DEF avl_update
<1>2. M[n].left \in Link /\ M[n].right \in Link
  BY DEF Nodes, AVLNode
<1>3. d \in Nat \ {0} /\ k \in Nat \ {0}
  <2> PICK a : a = avl_depth(M, M[n].left)
    OBVIOUS
  <2> PICK b : b = avl_depth(M, M[n].right)
    OBVIOUS
  <2>1. a \in Nat /\ b \in Nat
    BY <1>2, DepthIs
  <2>2. Max({a, b}) \in Nat
    BY <2>1, MaxPair
  <2>3. d \in Nat \ {0}
    BY <2>2
  <2>4. k \in Nat \ {0}
    BY <1>2, DepthIs
  <2> QED
    BY <2>3, <2>4
<1>4. N \in Nodes
  BY <1>3 DEF Nodes, AVLNode
<1>5. SameLinks(M, N, Member) /\ \A m \in Member \ {n} : N[m] = M[m]
  BY <1>3 DEF SameLinks, Sides, Nodes, AVLNode
<1>6. N[n].depth = d /\ N[n].count = k
  BY DEF Nodes, AVLNode
<1>7. CASE s = "left"
  BY <1>1, <1>4, <1>5, <1>6, <1>7 DEF Other
<1>8. CASE s = "right"
  <2>1. {avl_depth(M, M[n].left), avl_depth(M, M[n].right)} = {avl_depth(M, M[n].right), avl_depth(M, M[n].left)}
    OBVIOUS
  <2>2. k = 1 + avl_count(M, M[n].right) + avl_count(M, M[n].left)
    BY <1>2, DepthIs
  <2> QED
    BY <1>1, <1>4, <1>5, <1>6, <1>8, <2>1, <2>2 DEF Other
<1> QED
  BY <1>7, <1>8 DEF Sides

(* The nodes of the turned tree, links and sizes. *)
RotatedSizes(M, N, q, s) ==
  LET g == M[q][s]
  IN /\ \A m \in Member \ {q, g} : SameSizes(M, N, m)
     /\ N[q].depth = 1 + Max({avl_depth(M, M[g][Other(s)]), avl_depth(M, M[q][Other(s)])})
     /\ N[q].count = 1 + avl_count(M, M[g][Other(s)]) + avl_count(M, M[q][Other(s)])
     /\ N[g].depth = 1 + Max({avl_depth(M, M[g][s]), N[q].depth})
     /\ N[g].count = 1 + avl_count(M, M[g][s]) + N[q].count
RotatedLinks(M, N, q, s) ==
  LET g == M[q][s]
      mid == M[g][Other(s)]
  IN /\ N[q][s] = mid /\ N[q][Other(s)] = M[q][Other(s)] /\ N[q].parent = g
     /\ N[g][Other(s)] = q /\ N[g][s] = M[g][s] /\ N[g].parent = M[q].parent
     /\ \A m \in Member \ {q, g} : N[m].parent = IF m = mid THEN q ELSE M[m].parent
     /\ \A m \in Member \ {q, g}, t \in Sides : N[m][t] = M[m][t]

(* N is B with new sizes in n. *)
Updated(B, N, n, s, o) ==
  /\ N \in Nodes /\ SameLinks(B, N, Member)
  /\ \A m \in Member \ {n} : N[m] = B[m]
  /\ N[n].depth = 1 + Max({avl_depth(B, B[n][s]), avl_depth(B, B[n][o])})
  /\ N[n].count = 1 + avl_count(B, B[n][s]) + avl_count(B, B[n][o])
Adopted(M, A, mid, q) ==
  \A m \in Member : /\ \A t \in Sides : A[m][t] = M[m][t]
                    /\ A[m].parent = IF m = mid THEN q ELSE M[m].parent
                    /\ SameSizes(M, A, m)
Reversed(A, B, q, g, s, o, mid, p) ==
  /\ \A m \in Member : SameSizes(A, B, m)
  /\ B[q][s] = mid /\ B[q].parent = g /\ B[q][o] = A[q][o]
  /\ B[g][o] = q /\ B[g].parent = p /\ B[g][s] = A[g][s]
  /\ SameLinks(A, B, Member \ {q, g})
RotatedAs(M, N, q, g, s, o, mid, oth, far, p) ==
  /\ N[q][s] = mid /\ N[q][o] = oth /\ N[q].parent = g
  /\ N[g][o] = q /\ N[g][s] = far /\ N[g].parent = p
  /\ \A m \in Member \ {q, g} : N[m].parent = IF m = mid THEN q ELSE M[m].parent
  /\ \A m \in Member \ {q, g}, t \in Sides : N[m][t] = M[m][t]
  /\ \A m \in Member \ {q, g} : SameSizes(M, N, m)
  /\ N[q].depth = 1 + Max({avl_depth(M, mid), avl_depth(M, oth)})
  /\ N[q].count = 1 + avl_count(M, mid) + avl_count(M, oth)
  /\ N[g].depth = 1 + Max({avl_depth(M, far), N[q].depth})
  /\ N[g].count = 1 + avl_count(M, far) + N[q].count

(* What a new parent changes. *)
LEMMA AdoptIs ==
  ASSUME NEW M \in Nodes, NEW n \in Link, NEW p \in Link
  PROVE  /\ Adopt(M, n, p) \in Nodes
         /\ Adopted(M, Adopt(M, n, p), n, p)
BY SortedSetAssumption DEF Adopt, Nodes, AVLNode, Link, Sides, SameSizes, Adopted

Fields == Sides \cup {"parent"}
(* N is M but for the link f of n. *)
ButFor(M, N, n, f) ==
  /\ \A m \in Member, t \in Sides \cup {"parent"} : m # n \/ t # f => N[m][t] = M[m][t]
  /\ \A m \in Member : SameSizes(M, N, m)

SetTo(M, n, f, v) == [M EXCEPT ![n][f] = v]

(* What one store to a pointer changes. *)
LEMMA SetLink ==
  ASSUME NEW M \in Nodes, NEW n \in Member, NEW f \in Fields, NEW v \in Link
  PROVE  /\ SetTo(M, n, f, v) \in Nodes /\ SetTo(M, n, f, v)[n][f] = v
         /\ ButFor(M, SetTo(M, n, f, v), n, f)
BY DEF Nodes, AVLNode, Sides, SameSizes, ButFor, SetTo, Fields

(* The links a rotation sets. *)
Rejoin(A, q, g, s, mid, p) ==
  [A EXCEPT ![q][s] = mid, ![q].parent = g, ![g][Other(s)] = q, ![g].parent = p]

(* The four stores of a rotation. *)
LEMMA Rehung ==
  ASSUME NEW A \in Nodes, NEW q \in Member, NEW g \in Member, NEW s \in Sides, NEW mid \in Link,
         NEW p \in Link,
         NEW B, B = Rejoin(A, q, g, s, mid, p)
  PROVE  B \in Nodes /\ (g # q => Reversed(A, B, q, g, s, Other(s), mid, p))
<1>eB1. PICK B1 : B1 = SetTo(A, q, s, mid)
  OBVIOUS
<1>eB2. PICK B2 : B2 = SetTo(B1, q, "parent", g)
  OBVIOUS
<1>eB3. PICK B3 : B3 = SetTo(B2, g, Other(s), q)
  OBVIOUS
<1>eB4. PICK B4 : B4 = SetTo(B3, g, "parent", p)
  OBVIOUS
<1>eo. PICK o : o = Other(s)
  OBVIOUS
<1>1. B = B4
  BY <1>eB1, <1>eB2, <1>eB3, <1>eB4 DEF Rejoin, SetTo
<1>2. o \in Sides /\ o # s /\ s # "parent" /\ o # "parent" /\ Sides = {s, o} /\ q \in Link /\ g \in Link
  BY <1>eo, OtherSide DEF Link
<1>20. s \in Fields /\ o \in Fields /\ "parent" \in Fields
  BY <1>2 DEF Fields
<1>3. /\ B1 \in Nodes /\ B1[q][s] = mid
      /\ ButFor(A, B1, q, s)
  BY <1>2, <1>20, <1>eB1, SetLink, Zenon
<1>4. /\ B2 \in Nodes /\ B2[q]["parent"] = g
      /\ ButFor(B1, B2, q, "parent")
  BY <1>2, <1>20, <1>3, <1>eB2, SetLink, Zenon
<1>5. /\ B3 \in Nodes /\ B3[g][o] = q
      /\ ButFor(B2, B3, g, o)
  BY <1>2, <1>20, <1>4, <1>eB3, <1>eo, SetLink, Zenon
<1>6. /\ B4 \in Nodes /\ B4[g]["parent"] = p
      /\ ButFor(B3, B4, g, "parent")
  BY <1>2, <1>20, <1>5, <1>eB4, SetLink, Zenon
<1>7. \A m \in Member : SameSizes(A, B4, m)
  BY <1>3, <1>4, <1>5, <1>6 DEF SameSizes, ButFor
<1>8. ASSUME g # q
      PROVE  /\ B4[q][s] = mid /\ B4[q]["parent"] = g /\ B4[q][o] = A[q][o]
             /\ B4[g][o] = q /\ B4[g]["parent"] = p /\ B4[g][s] = A[g][s]
             /\ \A m \in Member \ {q, g}, t \in Sides \cup {"parent"} : B4[m][t] = A[m][t]
  BY <1>2, <1>3, <1>4, <1>5, <1>6, <1>8 DEF ButFor
<1>9. g # q => SameLinks(A, B4, Member \ {q, g})
  BY <1>8 DEF SameLinks
<1>10. g # q => Reversed(A, B4, q, g, s, o, mid, p)
  BY <1>7, <1>8, <1>9 DEF Reversed
<1> QED
  BY <1>1, <1>6, <1>10, <1>eo

(* Nodes whose counts and depths are the same. *)
LEMMA SizesSame ==
  ASSUME NEW M, NEW N, NEW n \in Link, n # Nil => SameSizes(M, N, n)
  PROVE  avl_depth(N, n) = avl_depth(M, n) /\ avl_count(N, n) = avl_count(M, n)
BY DEF avl_depth, avl_count, SameSizes

(* The sizes of the two nodes a rotation updates. *)
Resized(M, N, q, g, mid, oth, far) ==
  /\ \A m \in Member \ {q, g} : SameSizes(M, N, m)
  /\ N[q].depth = 1 + Max({avl_depth(M, mid), avl_depth(M, oth)})
  /\ N[q].count = 1 + avl_count(M, mid) + avl_count(M, oth)
  /\ N[g].depth = 1 + Max({avl_depth(M, far), N[q].depth})
  /\ N[g].count = 1 + avl_count(M, far) + N[q].count
SizedBy(B, C, n, a, b) ==
  /\ \A m \in Member \ {n} : C[m] = B[m]
  /\ C[n].depth = 1 + Max({avl_depth(B, a), avl_depth(B, b)})
  /\ C[n].count = 1 + avl_count(B, a) + avl_count(B, b)

(* The counts and depths after the two calls of avl_update ... *)
LEMMA RotatedCounts ==
  ASSUME NEW M \in Nodes, NEW B \in Nodes, NEW C \in Nodes, NEW N \in Nodes,
         NEW q \in Member, NEW g \in Member, g # q,
         NEW mid \in Link \ {q, g}, NEW oth \in Link \ {q, g}, NEW far \in Link \ {q, g},
         \A m \in Member : SameSizes(M, B, m),
         SizedBy(B, C, q, mid, oth), SizedBy(C, N, g, far, q)
  PROVE  Resized(M, N, q, g, mid, oth, far)
<1>0. /\ \A m \in Member \ {q} : C[m] = B[m]
      /\ \A m \in Member \ {g} : N[m] = C[m]
  BY DEF SizedBy
<1>1. /\ avl_depth(B, mid) = avl_depth(M, mid) /\ avl_count(B, mid) = avl_count(M, mid)
      /\ avl_depth(B, oth) = avl_depth(M, oth) /\ avl_count(B, oth) = avl_count(M, oth)
  <2>1. \A n \in Link : n # Nil => SameSizes(M, B, n)
    BY DEF Link
  <2> QED
    BY <2>1, SizesSame
<1>2. avl_depth(C, far) = avl_depth(M, far) /\ avl_count(C, far) = avl_count(M, far)
  <2>1. \A n \in Link \ {q} : n # Nil => SameSizes(M, C, n)
    BY <1>0 DEF Link, SameSizes
  <2> QED
    BY <2>1, SizesSame
<1>3. avl_depth(C, q) = C[q].depth /\ avl_count(C, q) = C[q].count
  BY SortedSetAssumption DEF avl_depth, avl_count
<1>4. N[q] = C[q]
  BY <1>0
<1>5. \A m \in Member \ {q, g} : SameSizes(M, N, m)
  <2> SUFFICES ASSUME NEW m \in Member \ {q, g} PROVE SameSizes(M, N, m)
    OBVIOUS
  <2>1. N[m] = B[m] /\ SameSizes(M, B, m)
    BY <1>0
  <2> QED
    BY <2>1 DEF SameSizes
<1>6. /\ N[q].depth = 1 + Max({avl_depth(M, mid), avl_depth(M, oth)})
      /\ N[q].count = 1 + avl_count(M, mid) + avl_count(M, oth)
  BY <1>1, <1>4, Zenon DEF SizedBy
<1>7. /\ N[g].depth = 1 + Max({avl_depth(M, far), N[q].depth})
      /\ N[g].count = 1 + avl_count(M, far) + N[q].count
  BY <1>2, <1>3, <1>4, Zenon DEF SizedBy
<1> QED
  BY <1>5, <1>6, <1>7, Zenon DEF Resized

(* ... of which each does this ... *)
LEMMA Updates ==
  ASSUME NEW M \in Nodes, NEW n \in Member, NEW s \in Sides, NEW o, o = Other(s)
  PROVE  Updated(M, avl_update(M, n), n, s, o)
BY UpdateIs, Zenon DEF Updated

(* A rotation of q's child g: A has adopted the middle, B is turned, C has *)
(* q's sizes and N g's.                                                    *)
LEMMA RotatedBy ==
  ASSUME NEW M \in Nodes, NEW A \in Nodes, NEW B \in Nodes, NEW C \in Nodes, NEW N,
         NEW q \in Member, NEW g \in Member, g # q, NEW s \in Sides, NEW o \in Sides, o # s,
         NEW mid \in Link \ {q, g}, NEW oth \in Link \ {q, g}, NEW far \in Link \ {q, g},
         NEW p, M[q][o] = oth, M[g][s] = far,
         Adopted(M, A, mid, q), Reversed(A, B, q, g, s, o, mid, p),
         Updated(B, C, q, s, o), Updated(C, N, g, s, o)
  PROVE  RotatedAs(M, N, q, g, s, o, mid, oth, far, p)
<1>1. /\ B[q][s] = mid /\ B[q].parent = g /\ B[q][o] = oth
      /\ B[g][o] = q /\ B[g].parent = p /\ B[g][s] = far
  BY DEF Adopted, Reversed
<1>2. /\ \A m \in Member \ {q, g} : B[m].parent = IF m = mid THEN q ELSE M[m].parent
      /\ \A m \in Member \ {q, g}, t \in Sides : B[m][t] = M[m][t]
  BY DEF SameLinks, Adopted, Reversed
<1>3. \A m \in Member : SameSizes(M, B, m)
  BY DEF SameSizes, Adopted, Reversed
<1>4. \A m \in Member : /\ C[m].parent = B[m].parent
                        /\ \A t \in Sides : C[m][t] = B[m][t]
  BY DEF SameLinks, Updated
<1>5. \A m \in Member : /\ N[m].parent = C[m].parent
                        /\ \A t \in Sides : N[m][t] = C[m][t]
  BY DEF SameLinks, Updated
<1>6. C[g][s] = far /\ C[g][o] = q
  BY <1>1, <1>4
<1>7. SizedBy(B, C, q, mid, oth)
  BY <1>1, Zenon DEF Updated, SizedBy
<1>8. SizedBy(C, N, g, far, q)
  BY <1>6, Zenon DEF Updated, SizedBy
<1>9. Resized(M, N, q, g, mid, oth, far)
  <2>1. N \in Nodes
    BY DEF Updated
  <2> QED
    BY <1>3, <1>7, <1>8, <2>1, RotatedCounts
<1>10. /\ N[q][s] = mid /\ N[q][o] = oth /\ N[q].parent = g
       /\ N[g][o] = q /\ N[g][s] = far /\ N[g].parent = p
  BY <1>1, <1>4, <1>5
<1>11. /\ \A m \in Member \ {q, g} : N[m].parent = IF m = mid THEN q ELSE M[m].parent
       /\ \A m \in Member \ {q, g}, t \in Sides : N[m][t] = M[m][t]
  BY <1>2, <1>4, <1>5
<1> QED
  BY <1>9, <1>10, <1>11, Zenon DEF RotatedAs, Resized

(* ... and so what Rotate returns, where the nodes it touches differ. *)
LEMMA RotateType ==
  ASSUME NEW M \in Nodes, NEW q \in Member, NEW s \in Sides, M[q][s] # Nil
  PROVE  /\ Rotate(M, q, s) \in Nodes
         /\ M[q][s] # q /\ M[M[q][s]][Other(s)] \notin {q, M[q][s]} /\ M[q][Other(s)] \notin {q, M[q][s]}
              /\ M[M[q][s]][s] \notin {q, M[q][s]}
            => RotatedLinks(M, Rotate(M, q, s), q, s) /\ RotatedSizes(M, Rotate(M, q, s), q, s)
<1>eo. PICK o : o = Other(s)
  OBVIOUS
<1>eg. PICK g : g = M[q][s]
  OBVIOUS
<1>emid. PICK mid : mid = M[g][o]
  OBVIOUS
<1>efar. PICK far : far = M[g][s]
  OBVIOUS
<1>eoth. PICK oth : oth = M[q][o]
  OBVIOUS
<1>ep. PICK p : p = M[q].parent
  OBVIOUS
<1>eA. PICK A : A = Adopt(M, mid, q)
  OBVIOUS
<1>eB. PICK B : B = Rejoin(A, q, g, s, mid, p)
  OBVIOUS
<1>eC. PICK C : C = avl_update(B, q)
  OBVIOUS
<1>eN. PICK N : N = avl_update(C, g)
  OBVIOUS
<1>1. Rotate(M, q, s) = N
  BY <1>eo, <1>eg, <1>emid, <1>ep, <1>eA, <1>eB, <1>eC, <1>eN, Zenon DEF Rotate, Rejoin
<1>2. /\ o \in Sides /\ o # s /\ Sides = {s, o} /\ Other(o) = s
      /\ g \in Member /\ mid \in Link /\ far \in Link /\ oth \in Link /\ p \in Link /\ q \in Link
  <2>1. o \in Sides /\ o # s /\ Sides = {s, o} /\ Other(o) = s
    BY <1>eo, OtherSide
  <2>2. g \in Member
    BY <1>eg, LinkIn DEF Link
  <2> QED
    BY <2>1, <2>2, <1>emid, <1>efar, <1>eoth, <1>ep, LinkIn DEF Link
<1>3. A \in Nodes /\ Adopted(M, A, mid, q)
  BY <1>2, <1>eA, AdoptIs
<1>4. B \in Nodes /\ (g # q => Reversed(A, B, q, g, s, o, mid, p))
  BY <1>2, <1>3, <1>eo, <1>eB, Rehung
<1>5. Updated(B, C, q, s, o) /\ C \in Nodes
  <2>1. Updated(B, C, q, s, o)
    BY <1>4, <1>eo, <1>eC, Updates
  <2> QED
    BY <2>1 DEF Updated
<1>6. Updated(C, N, g, s, o) /\ N \in Nodes
  <2>1. Updated(C, N, g, s, o)
    BY <1>2, <1>5, <1>eo, <1>eN, Updates
  <2> QED
    BY <2>1 DEF Updated
<1>7. ASSUME g # q, mid \notin {q, g}, oth \notin {q, g}, far \notin {q, g}
      PROVE  RotatedLinks(M, N, q, s) /\ RotatedSizes(M, N, q, s)
  <2>1. mid \in Link \ {q, g} /\ oth \in Link \ {q, g} /\ far \in Link \ {q, g}
    BY <1>2, <1>7, Zenon
  <2>2. M[q][o] = oth /\ M[g][s] = far
    BY <1>eoth, <1>efar, Zenon
  <2>3. RotatedAs(M, N, q, g, s, o, mid, oth, far, p)
    BY <1>2, <1>3, <1>4, <1>5, <1>6, <1>7, <2>1, <2>2, RotatedBy, Zenon
  <2>4. RotatedLinks(M, N, q, s)
    BY <2>3, <1>eo, <1>eg, <1>emid, <1>efar, <1>eoth, <1>ep, Zenon DEF RotatedAs, RotatedLinks
  <2>5. RotatedSizes(M, N, q, s)
    BY <2>3, <1>eo, <1>eg, <1>emid, <1>efar, <1>eoth, Zenon DEF RotatedAs, RotatedSizes
  <2> QED
    BY <2>4, <2>5
<1> QED
  BY <1>1, <1>6, <1>7, <1>eo, <1>eg, <1>emid, <1>efar, <1>eoth, Zenon
-----------------------------------------------------------------------------
(* The counts and depths of a tree. *)
LEMMA FiniteSub ==
  ASSUME NEW U \in [Member -> SUBSET Member], NEW n \in Link
  PROVE  /\ Sub(U, n) \subseteq Member /\ IsFiniteSet(Sub(U, n)) /\ Cardinality(Sub(U, n)) \in Nat
         /\ n # Nil => Sub(U, n) = U[n]
<1>1. Sub(U, n) \subseteq Member
  BY DEF Sub, Link
<1>2. IsFiniteSet(Sub(U, n))
  BY <1>1, FS_Subset, SortedSetAssumption
<1>3. Cardinality(Sub(U, n)) \in Nat
  BY <1>2, FS_CardinalityType
<1> QED
  BY <1>1, <1>2, <1>3 DEF Sub

(* The size of a subtree. *)
LEMMA CountForks ==
  ASSUME NEW M \in Nodes, NEW sc \in Scores, NEW T, NEW top, NEW U, Shape(M, sc, T, top, U),
         NEW n \in T, NEW s \in Sides
  PROVE  Cardinality(U[n]) = 1 + Cardinality(Sub(U, M[n][s])) + Cardinality(Sub(U, M[n][Other(s)]))
<1>1. PICK A : A = Sub(U, M[n][s])
  OBVIOUS
<1>2. PICK B : B = Sub(U, M[n][Other(s)])
  OBVIOUS
<1>3. /\ U[n] = {n} \cup A \cup B /\ n \notin A /\ A \cap B = {}
      /\ M[n][s] \in Link
  BY <1>1, <1>2, SubtreeForks
<1>4. n \notin B /\ M[n][Other(s)] \in Link
  BY <1>2, OtherSide, SubtreeForks
<1>5. IsFiniteSet(A) /\ IsFiniteSet(B) /\ Cardinality(A) \in Nat /\ Cardinality(B) \in Nat
  <2>1. U \in [Member -> SUBSET Member]
    BY DEF Shape
  <2> QED
    BY <2>1, <1>1, <1>2, <1>3, <1>4, FiniteSub
<1>6. IsFiniteSet(A \cup B) /\ Cardinality(A \cup B) = Cardinality(A) + Cardinality(B)
  <2>1. Cardinality(A \cup B) = Cardinality(A) + Cardinality(B) - Cardinality(A \cap B)
    BY <1>5, FS_Union
  <2>2. Cardinality(A \cap B) = 0
    BY <1>3, FS_EmptySet
  <2>3. IsFiniteSet(A \cup B)
    BY <1>5, FS_Union
  <2> QED
    BY <2>1, <2>2, <2>3, <1>5
<1>7. n \notin A \cup B /\ U[n] = (A \cup B) \cup {n}
  BY <1>3, <1>4
<1>8. Cardinality(U[n]) = Cardinality(A \cup B) + 1
  BY <1>6, <1>7, FS_AddElement
<1>9. Cardinality(U[n]) = 1 + Cardinality(A) + Cardinality(B)
  BY <1>5, <1>6, <1>8
<1> QED
  BY <1>1, <1>2, <1>9, Zenon

(* avl_count returns it where the counts are right. *)
LEMMA CountOf ==
  ASSUME NEW M, NEW U, NEW n \in Link, n # Nil => Counts(M, U, n)
  PROVE  avl_count(M, n) = Cardinality(Sub(U, n))
<1>1. CASE n = Nil
  BY <1>1, FS_EmptySet DEF avl_count, Sub
<1>2. CASE n # Nil
  BY <1>2 DEF avl_count, Sub, Counts
<1> QED
  BY <1>1, <1>2

(* A child and its parent. *)
LEMMA ChildOf ==
  ASSUME NEW M \in Nodes, NEW sc \in Scores, NEW T, NEW top, NEW U, Shape(M, sc, T, top, U),
         NEW n \in T, NEW s \in Sides, M[n][s] # Nil
  PROVE  /\ M[n][s] \in T /\ M[n][s] # n /\ M[M[n][s]].parent = n /\ M[n][s] \in U[n]
         /\ n \notin U[M[n][s]] /\ U[M[n][s]] \subseteq U[n]
<1>1. M[n][s] \in T /\ M[n][s] \in U[n] /\ M[n][s] # n
  BY SubtreeForks
<1>2. M[M[n][s]].parent = n
  BY DEF Shape, Points
<1>3. n \notin U[M[n][s]]
  BY <1>1, SubtreesDiffer
<1>4. U[M[n][s]] \subseteq U[n]
  BY <1>1 DEF Shape, Nests
<1> QED
  BY <1>1, <1>2, <1>3, <1>4

(* The links of n, the sizes of n and of its children. *)
SameAround(M, N, n) ==
  /\ SameSizes(M, N, n) /\ N[n].left = M[n].left /\ N[n].right = M[n].right
  /\ \A s \in Sides : M[n][s] # Nil => SameSizes(M, N, M[n][s])

(* A node whose neighbours keep their counts and depths stays right. *)
LEMMA ExactSame ==
  ASSUME NEW M \in Nodes, NEW N, NEW n \in Member, SameAround(M, N, n)
  PROVE  /\ LevelAt(M, n) => LevelAt(N, n)
         /\ \A U : Counts(M, U, n) => Counts(N, U, n)
         /\ \A U : Exact(M, U, n) => Exact(N, U, n)
<1>1. M[n].left \in Link /\ M[n].right \in Link
  BY LinkIn DEF Sides
<1>2. /\ M[n].left # Nil => SameSizes(M, N, M[n].left)
      /\ M[n].right # Nil => SameSizes(M, N, M[n].right)
  BY DEF SameAround, Sides
<1>3. avl_depth(N, M[n].left) = avl_depth(M, M[n].left) /\ avl_depth(N, M[n].right) = avl_depth(M, M[n].right)
  BY <1>1, <1>2, SizesSame
<1>4. N[n].left = M[n].left /\ N[n].right = M[n].right /\ N[n].depth = M[n].depth /\ N[n].count = M[n].count
  BY DEF SameAround, SameSizes
<1>5. LevelAt(M, n) => LevelAt(N, n)
  BY <1>3, <1>4, Zenon DEF LevelAt
<1>6. \A U : Counts(M, U, n) => Counts(N, U, n)
  BY <1>4, Zenon DEF Counts
<1> QED
  BY <1>5, <1>6, Zenon DEF Exact
-----------------------------------------------------------------------------
(* One iteration of avl_fix. *)
LEMMA LevelIs ==
  ASSUME NEW d, NEW a \in Nat, NEW b \in Nat
  PROVE  /\ Level(d, a, b) <=> d = 1 + (IF a >= b THEN a ELSE b) /\ -1 <= a - b /\ a - b <= 1
         /\ Level(d, a, b) <=> Level(d, b, a)
<1>1. PICK x : x = Max({a, b})
  OBVIOUS
<1>2. PICK y : y = Max({b, a})
  OBVIOUS
<1>3. x = (IF a >= b THEN a ELSE b) /\ y = (IF b >= a THEN b ELSE a)
  BY <1>1, <1>2, MaxPair
<1>4. Level(d, a, b) <=> d = 1 + x /\ a - b \in -1..1
  BY <1>1 DEF Level
<1>5. Level(d, b, a) <=> d = 1 + y /\ b - a \in -1..1
  BY <1>2 DEF Level
<1>6. a - b \in -1..1 <=> -1 <= a - b /\ a - b <= 1
  OBVIOUS
<1>7. b - a \in -1..1 <=> -1 <= a - b /\ a - b <= 1
  OBVIOUS
<1>8. x = y
  BY <1>3
<1> QED
  BY <1>3, <1>4, <1>5, <1>6, <1>7, <1>8

(* From either side. *)
LEMMA LevelSides ==
  ASSUME NEW M \in Nodes, NEW n \in Member, NEW s \in Sides
  PROVE  LevelAt(M, n) <=> Level(M[n].depth, avl_depth(M, M[n][s]), avl_depth(M, M[n][Other(s)]))
<1>1. avl_depth(M, M[n].left) \in Nat /\ avl_depth(M, M[n].right) \in Nat
  BY LinkIn, DepthIs DEF Sides
<1>2. Level(M[n].depth, avl_depth(M, M[n].left), avl_depth(M, M[n].right))
        <=> Level(M[n].depth, avl_depth(M, M[n].right), avl_depth(M, M[n].left))
  BY <1>1, LevelIs
<1> QED
  BY <1>2 DEF Sides, Other, LevelAt

(* avl_update makes the node that avl_fix is at right. *)
LEMMA MendUpdate ==
  ASSUME NEW M \in Nodes, NEW sc \in Scores, NEW T, NEW top, NEW U, Shape(M, sc, T, top, U),
         NEW c \in T, \A n \in T : c \notin U[n] => Exact(M, U, n),
         NEW N, N = avl_update(M, c)
  PROVE  /\ N \in Nodes /\ Shape(N, sc, T, top, U) /\ Counts(N, U, c)
         /\ \A s \in Sides : /\ N[c][s] = M[c][s]
                             /\ avl_depth(N, M[c][s]) = avl_depth(M, M[c][s])
         /\ N[c].depth = 1 + Max({avl_depth(M, M[c].left), avl_depth(M, M[c].right)})
         /\ \A n \in T : c \notin U[n] => Exact(N, U, n)
         /\ \A m \in Member \ {c} : N[m] = M[m]
         /\ SameLinks(M, N, Member)
<1>1. c \in Member /\ T \subseteq Member /\ U \in [Member -> SUBSET Member]
  BY DEF Shape
<1>2. /\ N \in Nodes /\ SameLinks(M, N, Member)
      /\ \A m \in Member \ {c} : N[m] = M[m]
      /\ N[c].depth = 1 + Max({avl_depth(M, M[c].left), avl_depth(M, M[c].right)})
      /\ N[c].count = 1 + avl_count(M, M[c].left) + avl_count(M, M[c].right)
  BY <1>1, UpdateIs DEF Sides, Other
<1>3. Shape(N, sc, T, top, U)
  <2>1. SameLinks(M, N, T)
    BY <1>1, <1>2 DEF SameLinks
  <2>2. \A n \in T : U[n] \subseteq T
    BY SubtreesLie
  <2> QED
    BY <2>1, <2>2, SameShape
<1>4. \A s \in Sides : M[c][s] \in Link /\ (M[c][s] # Nil => M[c][s] \in T /\ M[c][s] # c /\ c \notin U[M[c][s]])
  BY <1>1, ChildOf, LinkIn
<1>5. Counts(N, U, c)
  <2>1. \A s \in Sides : avl_count(M, M[c][s]) = Cardinality(Sub(U, M[c][s]))
    <3> TAKE s \in Sides
    <3>1. M[c][s] # Nil => Counts(M, U, M[c][s])
      BY <1>4 DEF Exact
    <3> QED
      BY <1>4, <3>1, CountOf
  <2>2. avl_count(M, M[c].left) = Cardinality(Sub(U, M[c].left)) /\ avl_count(M, M[c].right) = Cardinality(Sub(U, M[c].right))
    BY <2>1 DEF Sides
  <2>3. Cardinality(U[c]) = 1 + Cardinality(Sub(U, M[c].left)) + Cardinality(Sub(U, M[c].right))
    BY CountForks DEF Sides, Other
  <2> QED
    BY <2>2, <2>3, <1>2 DEF Counts
<1>6. \A s \in Sides : avl_depth(N, M[c][s]) = avl_depth(M, M[c][s])
  <2> TAKE s \in Sides
  <2>1. M[c][s] # Nil => SameSizes(M, N, M[c][s])
    BY <1>1, <1>2, <1>4 DEF SameSizes
  <2> QED
    BY <1>4, <2>1, SizesSame
<1>7. ASSUME NEW n \in T, c \notin U[n]
      PROVE  Exact(N, U, n)
  <2>1. n # c
    BY <1>7, SubtreesLie
  <2>2. n \in Member /\ N[n] = M[n]
    BY <1>1, <1>2, <2>1
  <2>3. \A s \in Sides : M[n][s] # Nil => SameSizes(M, N, M[n][s])
    <3> SUFFICES ASSUME NEW s \in Sides, M[n][s] # Nil
                 PROVE  SameSizes(M, N, M[n][s])
      OBVIOUS
    <3>1. M[n][s] \in T /\ M[n][s] \in U[n]
      BY ChildOf
    <3>2. N[M[n][s]] = M[M[n][s]]
      BY <1>1, <1>2, <1>7, <3>1
    <3> QED
      BY <3>2 DEF SameSizes
  <2>4. SameAround(M, N, n)
    BY <2>2, <2>3 DEF SameAround, SameSizes
  <2> QED
    BY <2>2, <2>4, <1>7, ExactSame
<1>8. \A s \in Sides : N[c][s] = M[c][s]
  BY <1>1, <1>2 DEF SameLinks
<1> QED
  BY <1>2, <1>3, <1>5, <1>6, <1>7, <1>8
(* The arithmetic of a step up: c had the depth o in its parent, whose      *)
(* other child has the depth h, and now has the depth e.                    *)
LEMMA LevelUp ==
  ASSUME NEW d, NEW o \in Nat, NEW h \in Nat, NEW e \in Nat, Level(d, o, h), e \in o - 1..o + 1
  PROVE  /\ d \in Nat /\ e - h \in -2..2 /\ h - e \in -2..2
         /\ 1 + Max({e, h}) \in d - 1..d + 1 /\ 1 + Max({h, e}) \in d - 1..d + 1
<1>1. d = 1 + (IF o >= h THEN o ELSE h) /\ -1 <= o - h /\ o - h <= 1
  BY LevelIs
<1>2. PICK x : x = Max({e, h})
  OBVIOUS
<1>3. PICK y : y = Max({h, e})
  OBVIOUS
<1>4. x = (IF e >= h THEN e ELSE h) /\ y = (IF h >= e THEN h ELSE e)
  BY <1>2, <1>3, MaxPair
<1>5. o - 1 <= e /\ e <= o + 1
  OBVIOUS
<1>6. d \in Nat /\ e - h \in -2..2 /\ h - e \in -2..2
  BY <1>1, <1>5
<1>7. 1 + x \in d - 1..d + 1 /\ 1 + y \in d - 1..d + 1
  BY <1>1, <1>4, <1>5
<1> QED
  BY <1>2, <1>3, <1>6, <1>7

(* Where neither side is too deep, the node is balanced ... *)
LEMMA HeavyNone ==
  ASSUME NEW N, NEW n, Heavy(N, n) = "none",
         NEW l, NEW r, l = avl_depth(N, N[n].left), r = avl_depth(N, N[n].right),
         l \in Nat, r \in Nat, l - r \in -2..2
  PROVE  l - r \in -1..1
<1>1. ~(l = r + 2) /\ ~(l + 2 = r)
  BY DEF Heavy
<1> QED
  BY <1>1

(* ... and avl_fix goes on at its parent. *)
LEMMA MendUp ==
  ASSUME NEW M \in Nodes, NEW sc \in Scores, NEW T, NEW top, NEW U, Shape(M, sc, T, top, U),
         NEW c \in T, NEW o \in Nat, MendingFrom(M, T, U, c, o),
         NEW N, N = avl_update(M, c), Heavy(N, c) = "none"
  PROVE  /\ Exact(N, U, c)
         /\ M[c].parent # Nil => M[c].parent \in T /\ Mending(N, T, U, M[c].parent)
         /\ M[c].parent = Nil => \A n \in T : Exact(N, U, n)
<1>1. c \in Member /\ T \subseteq Member /\ U \in [Member -> SUBSET Member]
  BY DEF Shape
<1>2. /\ N \in Nodes /\ Shape(N, sc, T, top, U) /\ Counts(N, U, c)
      /\ \A s \in Sides : /\ N[c][s] = M[c][s]
                          /\ avl_depth(N, M[c][s]) = avl_depth(M, M[c][s])
      /\ N[c].depth = 1 + Max({avl_depth(M, M[c].left), avl_depth(M, M[c].right)})
      /\ \A n \in T : c \notin U[n] => Exact(N, U, n)
      /\ \A m \in Member \ {c} : N[m] = M[m]
      /\ SameLinks(M, N, Member)
  BY MendUpdate DEF MendingFrom
<1>3. PICK a : a = avl_depth(M, M[c].left)
  OBVIOUS
<1>4. PICK b : b = avl_depth(M, M[c].right)
  OBVIOUS
<1>5. /\ a \in Nat /\ b \in Nat /\ a - b \in -2..2 /\ 1 + Max({a, b}) \in o - 1..o + 1
      /\ a = avl_depth(N, N[c].left) /\ b = avl_depth(N, N[c].right)
      /\ N[c].depth = 1 + Max({a, b})
  <2>1. a \in Nat /\ b \in Nat
    BY <1>1, <1>3, <1>4, LinkIn, DepthIs DEF Sides
  <2>2. a - b \in -2..2 /\ 1 + Max({a, b}) \in o - 1..o + 1
    BY <1>3, <1>4 DEF MendingFrom
  <2>3. a = avl_depth(N, N[c].left) /\ b = avl_depth(N, N[c].right)
    BY <1>2, <1>3, <1>4 DEF Sides
  <2> QED
    BY <2>1, <2>2, <2>3, <1>2, <1>3, <1>4, Zenon
<1>6. Exact(N, U, c)
  <2>1. a - b \in -1..1
    BY <1>5, HeavyNone
  <2>2. Level(N[c].depth, a, b)
    BY <2>1, <1>5, Zenon DEF Level
  <2> QED
    BY <2>2, <1>2, <1>5, Zenon DEF Exact, LevelAt
<1>7. ASSUME M[c].parent = Nil
      PROVE  \A n \in T : Exact(N, U, n)
  <2>1. c = top
    BY <1>1, <1>7, SortedSetAssumption DEF Shape, Hangs
  <2>2. U[c] = T
    BY <1>1, <2>1, SortedSetAssumption DEF Shape, Rooted, Sub
  <2> SUFFICES ASSUME NEW n \in T PROVE Exact(N, U, n)
    OBVIOUS
  <2>3. CASE c \in U[n]
    BY <2>2, <2>3, <1>6, SubtreesDiffer
  <2> QED
    BY <2>3, <1>2
<1>8. ASSUME M[c].parent # Nil
      PROVE  M[c].parent \in T /\ Mending(N, T, U, M[c].parent)
  <2>1. PICK p : p = M[c].parent
    OBVIOUS
  <2>2. PICK d : d = M[p].depth
    OBVIOUS
  <2>3. c # top
    BY <1>1, <1>8, SortedSetAssumption DEF Shape, Rooted
  <2>4. p \in T /\ \E s \in Sides : M[p][s] = c
    BY <2>1, <2>3 DEF Shape, Hangs
  <2>5. PICK s \in Sides : M[p][s] = c
    BY <2>4
  <2>6. c \in U[p] /\ p # c /\ p \notin U[c] /\ p \in Member
    BY <1>1, <2>4, <2>5, SortedSetAssumption, ChildOf
  <2>7. ASSUME NEW n \in T, p \notin U[n]
        PROVE  Exact(N, U, n)
    <3>1. CASE c \notin U[n]
      BY <3>1, <1>2
    <3>2. CASE c \in U[n]
      <4>1. c = n
        BY <2>1, <2>7, <3>2, ParentInSubtree
      <4> QED
        BY <4>1, <1>6
    <3> QED
      BY <3>1, <3>2
  <2>8. ASSUME NEW n \in T \ {c}, c \in U[n]
        PROVE  Level(M[n].depth, DepthBut(M, c, o, M[n].left), DepthBut(M, c, o, M[n].right))
    BY <2>8 DEF MendingFrom
  <2>9. ASSUME NEW n \in T \ {p}, p \in U[n]
        PROVE  Level(N[n].depth, DepthBut(N, p, d, N[n].left), DepthBut(N, p, d, N[n].right))
    <3>1. c \in U[n] /\ n # c
      <4>1. U[p] \subseteq U[n]
        BY <2>4, <2>9 DEF Shape, Nests
      <4> QED
        BY <4>1, <2>6, <2>9
    <3>2. n \in Member /\ N[n] = M[n]
      BY <1>1, <1>2, <3>1
    <3>3. ASSUME NEW t \in Sides
          PROVE  DepthBut(N, p, d, M[n][t]) = DepthBut(M, c, o, M[n][t])
      <4>1. M[n][t] # c
        <5>1. CASE M[n][t] = Nil
          BY <5>1, <1>1, SortedSetAssumption
        <5>2. CASE M[n][t] # Nil
          BY <5>2, <2>1, <2>9, ChildOf
        <5> QED
          BY <5>1, <5>2
      <4>2. CASE M[n][t] = p
        BY <4>1, <4>2, <2>2, <2>6, SortedSetAssumption DEF DepthBut, avl_depth
      <4>3. CASE M[n][t] # p
        <5>1. M[n][t] \in Link
          BY <3>2, LinkIn
        <5>2. M[n][t] # Nil => SameSizes(M, N, M[n][t])
          BY <5>1, <4>1, <1>2 DEF Link, SameSizes
        <5>3. avl_depth(N, M[n][t]) = avl_depth(M, M[n][t])
          BY <5>1, <5>2, SizesSame
        <5> QED
          BY <5>3, <4>1, <4>3 DEF DepthBut
      <4> QED
        BY <4>2, <4>3
    <3>4. /\ DepthBut(N, p, d, M[n].left) = DepthBut(M, c, o, M[n].left)
          /\ DepthBut(N, p, d, M[n].right) = DepthBut(M, c, o, M[n].right)
      BY <3>3 DEF Sides
    <3>5. Level(M[n].depth, DepthBut(M, c, o, M[n].left), DepthBut(M, c, o, M[n].right))
      BY <2>8, <3>1
    <3> QED
      BY <3>2, <3>4, <3>5, Zenon
  <2>10. PICK h : h = avl_depth(M, M[p][Other(s)])
    OBVIOUS
  <2>11. PICK e : e = N[c].depth
    OBVIOUS
  <2>12. h \in Nat /\ e \in Nat /\ e \in o - 1..o + 1
    <3>1. h \in Nat
      BY <2>6, <2>10, OtherSide, LinkIn, DepthIs
    <3>2. e \in Nat
      BY <1>1, <1>2, <2>11 DEF Nodes, AVLNode
    <3> QED
      BY <3>1, <3>2, <1>5, <2>11
  <2>13. M[p][Other(s)] # c /\ M[p][Other(s)] \in Link
    <3>1. M[p][Other(s)] \in Link
      BY <2>6, OtherSide, LinkIn
    <3>2. Sub(U, M[p][s]) \cap Sub(U, M[p][Other(s)]) = {}
      BY <2>4, SubtreeForks
    <3>3. c \in Sub(U, c)
      BY <1>1, SubtreesLie, SortedSetAssumption DEF Sub
    <3> QED
      BY <3>1, <3>2, <3>3, <2>5
  <2>14. Level(d, o, h)
    <3>1. DepthBut(M, c, o, M[p][s]) = o
      BY <2>5 DEF DepthBut
    <3>2. DepthBut(M, c, o, M[p][Other(s)]) = h
      BY <2>10, <2>13 DEF DepthBut
    <3>3. Level(d, DepthBut(M, c, o, M[p].left), DepthBut(M, c, o, M[p].right))
      BY <2>8, <2>2, <2>4, <2>6
    <3>4. CASE s = "left"
      BY <3>1, <3>2, <3>3, <3>4 DEF Other
    <3>5. CASE s = "right"
      <4>1. Level(d, h, o)
        BY <3>1, <3>2, <3>3, <3>5 DEF Other
      <4> QED
        BY <4>1, <2>12, LevelIs
    <3> QED
      BY <3>4, <3>5 DEF Sides
  <2>15. /\ d \in Nat /\ e - h \in -2..2 /\ h - e \in -2..2
         /\ 1 + Max({e, h}) \in d - 1..d + 1 /\ 1 + Max({h, e}) \in d - 1..d + 1
    BY <2>12, <2>14, LevelUp
  <2>16. avl_depth(N, N[p][s]) = e /\ avl_depth(N, N[p][Other(s)]) = h
    <3>1. N[p] = M[p]
      BY <1>2, <2>6
    <3>2. avl_depth(N, c) = e
      BY <1>1, <2>11, SortedSetAssumption DEF avl_depth
    <3>3. M[p][Other(s)] # Nil => SameSizes(M, N, M[p][Other(s)])
      BY <1>2, <2>13 DEF Link, SameSizes
    <3>4. avl_depth(N, M[p][Other(s)]) = h
      BY <3>3, <2>10, <2>13, SizesSame
    <3> QED
      BY <3>1, <3>2, <3>4, <2>5
  <2>17. /\ avl_depth(N, N[p].left) - avl_depth(N, N[p].right) \in -2..2
         /\ 1 + Max({avl_depth(N, N[p].left), avl_depth(N, N[p].right)}) \in d - 1..d + 1
    <3>1. CASE s = "left"
      BY <3>1, <2>15, <2>16 DEF Other
    <3>2. CASE s = "right"
      BY <3>2, <2>15, <2>16 DEF Other
    <3> QED
      BY <3>1, <3>2 DEF Sides
  <2>18. MendingFrom(N, T, U, p, d)
    BY <2>7, <2>9, <2>17 DEF MendingFrom
  <2> QED
    BY <2>1, <2>4, <2>15, <2>18 DEF Mending
<1> QED
  BY <1>6, <1>7, <1>8
-----------------------------------------------------------------------------
(* Rotations at the root, and what they do to counts and depths. *)
ApartAt(M, T, q, g, s) ==
  /\ g \in T /\ q \in T /\ g # q
  /\ M[g][Other(s)] \in Link \ {q, g} /\ M[g][s] \in Link \ {q, g} /\ M[q][Other(s)] \in Link \ {q, g}
  /\ M[g][Other(s)] # Nil => M[g][Other(s)] \in T
  /\ M[g][s] # Nil => M[g][s] \in T
  /\ M[q][Other(s)] # Nil => M[q][Other(s)] \in T

(* The nodes a rotation in a tree touches differ. *)
LEMMA AreApart ==
  ASSUME NEW M \in Nodes, NEW sc \in Scores, NEW T, NEW top, NEW U, Shape(M, sc, T, top, U),
         NEW q \in T, NEW s \in Sides, M[q][s] # Nil
  PROVE  ApartAt(M, T, q, M[q][s], s)
<1>1. PICK g : g = M[q][s]
  OBVIOUS
<1>2. PICK o : o = Other(s)
  OBVIOUS
<1>3. o \in Sides /\ Nil \notin T /\ T \subseteq Member
  BY <1>2, OtherSide, SortedSetAssumption DEF Shape
<1>4. g \in T /\ g # q /\ q \notin U[g]
  BY <1>1, ChildOf
<1>5. ASSUME NEW t \in Sides
      PROVE  M[g][t] \in Link \ {q, g} /\ (M[g][t] # Nil => M[g][t] \in T)
  <2>1. M[g][t] \in Link
    BY <1>3, <1>4, LinkIn
  <2>2. CASE M[g][t] = Nil
    BY <2>1, <2>2, <1>3, <1>4
  <2>3. CASE M[g][t] # Nil
    BY <2>1, <2>3, <1>4, ChildOf
  <2> QED
    BY <2>2, <2>3
<1>6. M[q][o] \in Link \ {q, g} /\ (M[q][o] # Nil => M[q][o] \in T)
  <2>1. M[q][o] \in Link
    BY <1>3, LinkIn
  <2>2. CASE M[q][o] = Nil
    BY <2>1, <2>2, <1>3, <1>4
  <2>3. CASE M[q][o] # Nil
    <3>1. M[q][o] \in T /\ M[q][o] # q /\ M[q][o] \in U[M[q][o]]
      BY <2>3, <1>3, SubtreeForks
    <3>2. Sub(U, g) \cap Sub(U, M[q][o]) = {}
      BY <1>1, <1>2, SubtreeForks
    <3>3. Sub(U, g) = U[g] /\ Sub(U, M[q][o]) = U[M[q][o]]
      BY <2>3, <1>3, <1>4 DEF Sub
    <3>4. g \in U[g]
      BY <1>4, SubtreesLie
    <3> QED
      BY <2>1, <3>1, <3>2, <3>3, <3>4
  <2> QED
    BY <2>2, <2>3
<1>7. ApartAt(M, T, q, g, s)
  BY <1>2, <1>3, <1>4, <1>5, <1>6 DEF ApartAt
<1> QED
  BY <1>1, <1>7

(* The counts after a rotation anywhere. *)
LEMMA TurnCounts ==
  ASSUME NEW M \in Nodes, NEW sc \in Scores, NEW T, NEW top, NEW U, Shape(M, sc, T, top, U),
         NEW q \in T, NEW s \in Sides, M[q][s] # Nil, NEW N \in Nodes, Turned(M, T, q, s, N),
         RotatedSizes(M, N, q, s), \A m \in T \ {q, M[q][s]} : Counts(M, U, m)
  PROVE  \A m \in T : Counts(N, TurnedSub(M, U, q, s), m)
<1>1. PICK g : g = M[q][s]
  OBVIOUS
<1>2. PICK o : o = Other(s)
  OBVIOUS
<1>3. PICK V : V = TurnedSub(M, U, q, s)
  OBVIOUS
<1>4. PICK tip : tip = IF q = top THEN M[q][s] ELSE top
  OBVIOUS
<1>5. Shape(N, sc, T, tip, V)
  BY <1>3, <1>4, TurnedShape
<1>6. ApartAt(M, T, q, g, s)
  BY <1>1, AreApart
<1>7. /\ N[q][s] = M[g][o] /\ N[q][o] = M[q][o] /\ N[g][o] = q /\ N[g][s] = M[g][s]
      /\ \A m \in T \ {q, g} : SameSizes(M, N, m)
      /\ N[q].count = 1 + avl_count(M, M[g][o]) + avl_count(M, M[q][o])
      /\ N[g].count = 1 + avl_count(M, M[g][s]) + N[q].count
  <2>1. T \subseteq Member
    BY DEF Shape
  <2> QED
    BY <2>1, <1>1, <1>2 DEF Turned, RotatedSizes
<1>8. /\ U \in [Member -> SUBSET Member] /\ T \subseteq Member /\ Nil \notin Member
      /\ V \in [Member -> SUBSET Member]
  BY <1>5, SortedSetAssumption DEF Shape
<1>9. \A m \in Member \ {q, g} : V[m] = U[m]
  BY <1>1, <1>3, <1>8 DEF TurnedSub
<1>10. ASSUME NEW n \in Link \ {q, g}, n # Nil => n \in T
       PROVE  avl_count(M, n) = Cardinality(Sub(V, n))
  <2>1. avl_count(M, n) = Cardinality(Sub(U, n))
    BY <1>1, <1>10, CountOf
  <2>2. Sub(V, n) = Sub(U, n)
    BY <1>8, <1>9, <1>10 DEF Sub
  <2> QED
    BY <2>1, <2>2
<1>11. /\ avl_count(M, M[g][o]) = Cardinality(Sub(V, M[g][o]))
       /\ avl_count(M, M[q][o]) = Cardinality(Sub(V, M[q][o]))
       /\ avl_count(M, M[g][s]) = Cardinality(Sub(V, M[g][s]))
  BY <1>2, <1>6, <1>10 DEF ApartAt
<1>12. Counts(N, V, q)
  <2>1. Cardinality(V[q]) = 1 + Cardinality(Sub(V, N[q][s])) + Cardinality(Sub(V, N[q][o]))
    BY <1>2, <1>5, CountForks
  <2>2. Cardinality(V[q]) = N[q].count
    BY <2>1, <1>7, <1>11, Zenon
  <2> QED
    BY <2>2 DEF Counts
<1>13. Counts(N, V, g)
  <2>1. Cardinality(V[g]) = 1 + Cardinality(Sub(V, N[g][s])) + Cardinality(Sub(V, N[g][o]))
    BY <1>2, <1>5, <1>6, CountForks DEF ApartAt
  <2>2. Sub(V, N[g][o]) = V[q]
    BY <1>7, <1>8 DEF Sub
  <2>3. N[q].count = Cardinality(V[q])
    BY <1>12 DEF Counts
  <2>4. Cardinality(V[g]) = N[g].count
    BY <2>1, <2>2, <2>3, <1>7, <1>11, Zenon
  <2> QED
    BY <2>4 DEF Counts
<1>14. ASSUME NEW m \in T \ {q, g}
       PROVE  Counts(N, V, m)
  <2>1. Counts(M, U, m) /\ V[m] = U[m] /\ N[m].count = M[m].count
    BY <1>1, <1>7, <1>8, <1>9 DEF SameSizes
  <2> QED
    BY <2>1 DEF Counts
<1>15. \A m \in T : Counts(N, V, m)
  BY <1>12, <1>13, <1>14
<1> QED
  BY <1>3, <1>15

(* The depths after it: of the nodes around q and g, and of the others. *)
DepthsTurned(M, N, T, q, g, s, o) ==
  /\ \A n \in Link \ {q, g} : avl_depth(N, n) = avl_depth(M, n)
  /\ N[q].depth = 1 + Max({avl_depth(M, M[g][o]), avl_depth(M, M[q][o])})
  /\ N[g].depth = 1 + Max({avl_depth(M, M[g][s]), N[q].depth})
  /\ avl_depth(N, N[q][s]) = avl_depth(M, M[g][o])
  /\ avl_depth(N, N[q][o]) = avl_depth(M, M[q][o])
  /\ avl_depth(N, N[g][s]) = avl_depth(M, M[g][s])
  /\ avl_depth(N, N[g][o]) = N[q].depth
  /\ \A m \in T \ {q, g} : (\A t \in Sides : M[m][t] # q) /\ LevelAt(M, m) => LevelAt(N, m)

(* The depths after a rotation. *)
LEMMA TurnDepths ==
  ASSUME NEW M \in Nodes, NEW sc \in Scores, NEW T, NEW top, NEW U, Shape(M, sc, T, top, U),
         NEW q \in T, NEW s \in Sides, M[q][s] # Nil, NEW N \in Nodes, Turned(M, T, q, s, N),
         RotatedSizes(M, N, q, s), NEW g, g = M[q][s], NEW o, o = Other(s)
  PROVE  DepthsTurned(M, N, T, q, g, s, o)
<1>1. ApartAt(M, T, q, g, s)
  BY AreApart
<1>2. T \subseteq Member /\ Nil \notin Member
  BY SortedSetAssumption DEF Shape
<1>3. /\ N[q][s] = M[g][o] /\ N[q][o] = M[q][o] /\ N[g][o] = q /\ N[g][s] = M[g][s]
      /\ \A m \in Member \ {q, g} : SameSizes(M, N, m)
      /\ N[q].depth = 1 + Max({avl_depth(M, M[g][o]), avl_depth(M, M[q][o])})
      /\ N[g].depth = 1 + Max({avl_depth(M, M[g][s]), N[q].depth})
  BY DEF Turned, RotatedSizes
<1>4. \A n \in Link \ {q, g} : avl_depth(N, n) = avl_depth(M, n)
  <2> TAKE n \in Link \ {q, g}
  <2>1. n # Nil => SameSizes(M, N, n)
    BY <1>3 DEF Link
  <2> QED
    BY <2>1, SizesSame
<1>5. avl_depth(N, q) = N[q].depth
  BY <1>2 DEF avl_depth
<1>6. /\ avl_depth(N, M[g][o]) = avl_depth(M, M[g][o])
      /\ avl_depth(N, M[q][o]) = avl_depth(M, M[q][o])
      /\ avl_depth(N, M[g][s]) = avl_depth(M, M[g][s])
  BY <1>1, <1>4 DEF ApartAt
<1>7. ASSUME NEW m \in T \ {q, g}, \A t \in Sides : M[m][t] # q, LevelAt(M, m)
      PROVE  LevelAt(N, m)
  <2>1. \A t \in Sides : N[m][t] = M[m][t]
    BY <1>7 DEF Turned
  <2>2. ASSUME NEW t \in Sides, M[m][t] # Nil
        PROVE  SameSizes(M, N, M[m][t])
    <3>1. M[m][t] \in T /\ M[M[m][t]].parent = m /\ M[g].parent = q
      BY <2>2, ChildOf
    <3> QED
      BY <3>1, <1>2, <1>3, <1>7
  <2>3. SameAround(M, N, m)
    BY <2>1, <2>2, <1>2, <1>3 DEF SameAround, Sides
  <2> QED
    BY <2>3, <1>2, <1>7, ExactSame
<1> QED
  BY <1>3, <1>4, <1>5, <1>6, <1>7 DEF DepthsTurned
(* The last rotation of avl_fix at the root. *)
LEMMA RootTurned ==
  ASSUME NEW M \in Nodes, NEW sc \in Scores, NEW T, NEW top, NEW U, Shape(M, sc, T, top, U),
         top \in T, NEW s \in Sides, M[top][s] # Nil, NEW N, N = Rotate(M, top, s)
  PROVE  N \in Nodes /\ Turned(M, T, top, s, N) /\ RotatedSizes(M, N, top, s)
<1>1. ApartAt(M, T, top, M[top][s], s)
  BY AreApart
<1>2. T \subseteq Member /\ Nil \notin Member /\ M[top].parent = Nil
  BY SortedSetAssumption DEF Shape, Rooted
<1>3. N \in Nodes /\ RotatedLinks(M, N, top, s) /\ RotatedSizes(M, N, top, s)
  BY <1>1, <1>2, RotateType DEF ApartAt
<1>4. \A m \in T, t \in Sides : M[m][t] # top
  <2> SUFFICES ASSUME NEW m \in T, NEW t \in Sides, M[m][t] = top PROVE FALSE
    OBVIOUS
  <2>1. M[top].parent = m
    BY <1>2, ChildOf
  <2> QED
    BY <2>1, <1>2
<1>5. Turned(M, T, top, s, N)
  BY <1>2, <1>3, <1>4 DEF Turned, RotatedLinks
<1> QED
  BY <1>3, <1>5

(* The depths mid, oth and far around a node make a balanced tree once it  *)
(* is rotated.                                                             *)
LevelsFor(mid, oth, far) ==
  LET d == 1 + Max({mid, oth})
  IN Level(d, mid, oth) /\ Level(1 + Max({far, d}), far, d)

Balanced(M, sc, T, top) ==
  \E V : Shape(M, sc, T, top, V) /\ \A m \in T : Exact(M, V, m)
(* One rotation at the root, of its child g on the side s, will do. *)
RootReady(M, sc, T, top, U, s, g, o) ==
  /\ Shape(M, sc, T, top, U) /\ top \in T
  /\ g = M[top][s] /\ g # Nil /\ o = Other(s)
  /\ \A m \in T \ {top, g} : Exact(M, U, m)
  /\ LevelsFor(avl_depth(M, M[g][o]), avl_depth(M, M[top][o]), avl_depth(M, M[g][s]))

(* A rotation at the root that evens out the depths makes the tree balanced. *)
LEMMA RootRotate ==
  ASSUME NEW M \in Nodes, NEW sc \in Scores, NEW T, NEW top, NEW U, NEW s \in Sides, NEW g, NEW o,
         RootReady(M, sc, T, top, U, s, g, o)
  PROVE  Rotate(M, top, s) \in Nodes /\ g \in T /\ Balanced(Rotate(M, top, s), sc, T, g)
<1>01. PICK N : N = Rotate(M, top, s)
  OBVIOUS
<1>02. /\ Shape(M, sc, T, top, U) /\ top \in T /\ M[top][s] # Nil /\ M[top][s] = g /\ o = Other(s)
       /\ \A m \in T \ {top, g} : Exact(M, U, m)
       /\ LevelsFor(avl_depth(M, M[g][o]), avl_depth(M, M[top][o]), avl_depth(M, M[g][s]))
  BY DEF RootReady
<1>1. N \in Nodes /\ Turned(M, T, top, s, N) /\ RotatedSizes(M, N, top, s)
  BY <1>01, <1>02, RootTurned
<1>2. PICK V : V = TurnedSub(M, U, top, s)
  OBVIOUS
<1>3. Shape(N, sc, T, g, V)
  BY <1>02, <1>1, <1>2, TurnedShape
<1>4. \A m \in T : Counts(N, V, m)
  BY <1>02, <1>1, <1>2, TurnCounts DEF Exact
<1>5. DepthsTurned(M, N, T, top, g, s, o)
  BY <1>02, <1>1, TurnDepths
<1>6. T \subseteq Member /\ Nil \notin Member /\ M[top].parent = Nil
  BY <1>02, SortedSetAssumption DEF Shape, Rooted
<1>7. g \in T /\ g \in Member /\ top \in Member
  BY <1>02, <1>6, ChildOf
<1>8. /\ Level(N[top].depth, avl_depth(M, M[g][o]), avl_depth(M, M[top][o]))
      /\ Level(N[g].depth, avl_depth(M, M[g][s]), N[top].depth)
  BY <1>02, <1>5, Zenon DEF DepthsTurned, LevelsFor
<1>9. LevelAt(N, top)
  <2>1. Level(N[top].depth, avl_depth(N, N[top][s]), avl_depth(N, N[top][o]))
    BY <1>5, <1>8, Zenon DEF DepthsTurned
  <2> QED
    BY <2>1, <1>02, <1>1, <1>7, LevelSides
<1>10. LevelAt(N, g)
  <2>1. Level(N[g].depth, avl_depth(N, N[g][s]), avl_depth(N, N[g][o]))
    BY <1>5, <1>8, Zenon DEF DepthsTurned
  <2> QED
    BY <2>1, <1>02, <1>1, <1>7, LevelSides
<1>11. ASSUME NEW m \in T \ {top, g}
       PROVE  LevelAt(N, m)
  <2>1. \A t \in Sides : M[m][t] # top
    <3> SUFFICES ASSUME NEW t \in Sides, M[m][t] = top PROVE FALSE
      OBVIOUS
    <3>1. M[top].parent = m
      BY <1>02, <1>6, ChildOf
    <3> QED
      BY <3>1, <1>6
  <2> QED
    BY <2>1, <1>02, <1>5 DEF Exact, DepthsTurned
<1>12. \A m \in T : Exact(N, V, m)
  BY <1>4, <1>9, <1>10, <1>11 DEF Exact
<1> QED
  BY <1>01, <1>1, <1>3, <1>7, <1>12 DEF Balanced

(* The first rotation, of the root's child q on the side s: the link to it *)
(* is set too.                                                             *)
Bent(M, c, s, q, o, k) ==
  /\ q = M[c][s] /\ q # Nil /\ o = Other(s)
  /\ k = M[q][o] /\ k # Nil

(* The nodes of a double rotation. *)
LEMMA BentParts ==
  ASSUME NEW M \in Nodes, NEW sc \in Scores, NEW T, NEW top, NEW U, Shape(M, sc, T, top, U),
         NEW c \in T, NEW s \in Sides, NEW q, NEW o, NEW k, Bent(M, c, s, q, o, k)
  PROVE  /\ q \in T /\ q # c /\ M[q].parent = c /\ c \in Member /\ q \in Member /\ k \in Member
         /\ o \in Sides /\ o # s /\ Sides = {s, o} /\ M[c][o] # q
         /\ k \in T /\ k \in Link /\ k # c /\ k # q /\ ApartAt(M, T, q, k, o)
         /\ Rotate(M, q, o) \in Nodes /\ RotatedSizes(M, Rotate(M, q, o), q, o)
         /\ RotatedLinks(M, Rotate(M, q, o), q, o)
<1>1. q \in T /\ q # c /\ c \notin U[q] /\ M[q].parent = c /\ o \in Sides /\ Other(o) = s
      /\ o # s /\ Sides = {s, o}
  BY ChildOf, OtherSide DEF Bent
<1>2. T \subseteq Member /\ Nil \notin Member
  BY SortedSetAssumption DEF Shape
<1>3. ApartAt(M, T, q, k, o) /\ k \in T /\ k \in U[q]
  BY <1>1, AreApart, ChildOf DEF Bent
<1>4. ApartAt(M, T, c, q, s)
  BY AreApart DEF Bent
<1>5. M[c][o] # q
  BY <1>4 DEF ApartAt, Bent
<1>6. q \in Member /\ M[q][o] # Nil /\ M[q][o] = k
  BY <1>1, <1>2 DEF Bent
<1>7. /\ M[q][o] # q /\ M[M[q][o]][Other(o)] \notin {q, M[q][o]} /\ M[q][Other(o)] \notin {q, M[q][o]}
      /\ M[M[q][o]][o] \notin {q, M[q][o]}
  BY <1>3, <1>6, Zenon DEF ApartAt
<1>8. /\ Rotate(M, q, o) \in Nodes /\ RotatedSizes(M, Rotate(M, q, o), q, o)
      /\ RotatedLinks(M, Rotate(M, q, o), q, o)
  BY <1>1, <1>6, <1>7, RotateType, Zenon
<1> QED
  BY <1>1, <1>2, <1>3, <1>5, <1>8 DEF ApartAt, Link

TurnedAs(M, T, q, k, o, s, N) ==
  /\ N[q][o] = M[k][s] /\ N[q][s] = M[q][s] /\ N[q].parent = k
  /\ N[k][s] = q /\ N[k][o] = M[k][o] /\ N[k].parent = M[q].parent
  /\ \A m \in T \ {q, k} : N[m].parent = IF m = M[k][s] THEN q ELSE M[m].parent
  /\ \A m \in T \ {q, k}, t \in Sides : N[m][t] = IF M[m][t] = q THEN k ELSE M[m][t]

(* A rotation, with its nodes named. *)
LEMMA TurnedIs ==
  ASSUME NEW M, NEW T, NEW q, NEW o, NEW N, TurnedAs(M, T, q, M[q][o], o, Other(o), N)
  PROVE  Turned(M, T, q, o, N)
BY Zenon DEF Turned, TurnedAs

(* The first rotation of avl_fix_left and avl_fix_right, with the pointer to it set. *)
LEMMA ChildTurned ==
  ASSUME NEW M \in Nodes, NEW sc \in Scores, NEW T, NEW top, NEW U, Shape(M, sc, T, top, U),
         NEW c \in T, NEW s \in Sides, NEW q, NEW o, NEW k, Bent(M, c, s, q, o, k)
  PROVE  /\ SetTo(Rotate(M, q, o), c, s, k) \in Nodes
         /\ Turned(M, T, q, o, SetTo(Rotate(M, q, o), c, s, k))
         /\ RotatedSizes(M, SetTo(Rotate(M, q, o), c, s, k), q, o)
         /\ SetTo(Rotate(M, q, o), c, s, k)[c][s] = k
<1>1. PICK R : R = Rotate(M, q, o)
  OBVIOUS
<1>2. PICK N : N = SetTo(R, c, s, k)
  OBVIOUS
<1>3. /\ q \in T /\ q # c /\ M[q].parent = c /\ c \in Member /\ q \in Member /\ k \in Member
      /\ o \in Sides /\ o # s /\ Sides = {s, o} /\ M[c][o] # q
      /\ k \in T /\ k \in Link /\ k # c /\ k # q /\ ApartAt(M, T, q, k, o)
      /\ R \in Nodes /\ RotatedSizes(M, R, q, o) /\ RotatedLinks(M, R, q, o)
  BY <1>1, BentParts
<1>4. M[q][o] = k /\ Other(o) = s
  BY OtherSide DEF Bent
<1>5. /\ R[q][o] = M[k][s] /\ R[q][s] = M[q][s] /\ R[q].parent = k
      /\ R[k][s] = q /\ R[k][o] = M[k][o] /\ R[k].parent = M[q].parent
      /\ \A m \in Member \ {q, k} : R[m].parent = IF m = M[k][s] THEN q ELSE M[m].parent
      /\ \A m \in Member \ {q, k}, t \in Sides : R[m][t] = M[m][t]
  BY <1>3, <1>4, Zenon DEF RotatedLinks
<1>6. N \in Nodes /\ N[c][s] = k /\ ButFor(R, N, c, s)
  <2>1. s \in Fields
    BY DEF Fields
  <2> QED
    BY <2>1, <1>2, <1>3, SetLink, Zenon
<1>7. \A m \in Member : SameSizes(R, N, m)
  BY <1>6 DEF ButFor
<1>8. RotatedSizes(M, N, q, o)
  <2>1. /\ N[q].depth = R[q].depth /\ N[q].count = R[q].count
        /\ N[k].depth = R[k].depth /\ N[k].count = R[k].count
        /\ \A m \in Member : SameSizes(M, R, m) => SameSizes(M, N, m)
    BY <1>3, <1>7 DEF SameSizes
  <2> QED
    BY <2>1, <1>3, <1>4, Zenon DEF RotatedSizes
<1>9. /\ \A m \in Member : m # c => \A t \in Sides : N[m][t] = R[m][t]
      /\ \A m \in Member : N[m].parent = R[m].parent
      /\ N[c][o] = R[c][o]
  BY <1>3, <1>6, OtherSide DEF ButFor, Fields
<1>10. T \subseteq Member
  BY DEF Shape
<1>11. ASSUME NEW m \in T \ {q, k}, NEW t \in Sides
       PROVE  N[m][t] = IF M[m][t] = q THEN k ELSE M[m][t]
  <2>1. R[m][t] = M[m][t]
    BY <1>5, <1>10
  <2>2. CASE M[m][t] = q
    <3>1. m = c
      <4>1. q # Nil
        BY DEF Bent
      <4> QED
        BY <4>1, <2>2, <1>3, ChildOf
    <3>2. t = s
      BY <3>1, <2>2, <1>3
    <3> QED
      BY <3>1, <3>2, <2>2, <1>6
  <2>3. CASE M[m][t] # q
    <3>1. m # c \/ t # s
      BY <2>3 DEF Bent
    <3>2. N[m][t] = R[m][t]
      BY <3>1, <1>3, <1>9, <1>10
    <3> QED
      BY <3>2, <2>1, <2>3
  <2> QED
    BY <2>2, <2>3
<1>12. /\ N[q][o] = M[k][s] /\ N[q][s] = M[q][s] /\ N[q].parent = k
       /\ N[k][s] = q /\ N[k][o] = M[k][o] /\ N[k].parent = M[q].parent
  BY <1>3, <1>5, <1>9
<1>13. \A m \in T \ {q, k} : N[m].parent = IF m = M[k][s] THEN q ELSE M[m].parent
  BY <1>5, <1>9, <1>10
<1>14. Turned(M, T, q, o, N)
  <2>1. \A m \in T \ {q, k}, t \in Sides : N[m][t] = IF M[m][t] = q THEN k ELSE M[m][t]
    BY <1>11
  <2>2. TurnedAs(M, T, q, k, o, s, N)
    BY <2>1, <1>12, <1>13, Zenon DEF TurnedAs
  <2>3. TurnedAs(M, T, q, M[q][o], o, Other(o), N)
    BY <2>2, <1>4
  <2> QED
    BY <2>3, TurnedIs
<1> QED
  BY <1>1, <1>2, <1>6, <1>8, <1>14
(* The arithmetic of the single and of the double rotation. *)
LEMMA SingleTurn ==
  ASSUME NEW h \in Nat, NEW m \in Nat, NEW f \in Nat, Level(h + 2, f, m), ~(f < m)
  PROVE  LevelsFor(m, h, f)
<1>0. PICK d : d = 1 + Max({m, h})
  OBVIOUS
<1>1. h + 2 = 1 + (IF f >= m THEN f ELSE m) /\ -1 <= f - m /\ f - m <= 1
  BY LevelIs
<1>2. f = h + 1 /\ (m = h \/ m = h + 1)
  BY <1>1
<1>3. d = m + 1 /\ d \in Nat
  <2>1. PICK x : x = Max({m, h})
    OBVIOUS
  <2>2. x = IF m >= h THEN m ELSE h
    BY <2>1, MaxPair
  <2> QED
    BY <2>1, <2>2, <1>0, <1>2
<1>4. Level(d, m, h)
  BY <1>2, <1>3, LevelIs
<1>5. PICK y : y = Max({f, d})
  OBVIOUS
<1>6. y = IF f >= d THEN f ELSE d
  BY <1>3, <1>5, MaxPair
<1>7. Level(1 + y, f, d)
  BY <1>2, <1>3, <1>6, LevelIs
<1> QED
  BY <1>0, <1>4, <1>5, <1>7, Zenon DEF LevelsFor

(* The same for the double rotation. *)
LEMMA DoubleTurn ==
  ASSUME NEW h \in Nat, NEW x \in Nat, NEW k \in Nat, NEW ks \in Nat, NEW ko \in Nat,
         Level(h + 2, x, k), x < k, Level(k, ko, ks)
  PROVE  Level(1 + Max({ks, x}), ks, x) /\ LevelsFor(ko, h, 1 + Max({ks, x}))
<1>01. PICK e : e = 1 + Max({ks, x})
  OBVIOUS
<1>02. PICK d : d = 1 + Max({ko, h})
  OBVIOUS
<1>1. /\ h + 2 = 1 + (IF x >= k THEN x ELSE k) /\ -1 <= x - k /\ x - k <= 1
      /\ k = 1 + (IF ko >= ks THEN ko ELSE ks) /\ -1 <= ko - ks /\ ko - ks <= 1
  BY LevelIs
<1>2. k = h + 1 /\ x = h /\ ks <= h /\ h <= ks + 1 /\ ko <= h /\ h <= ko + 1
  BY <1>1
<1>3. e = h + 1
  <2>1. PICK a : a = Max({ks, x})
    OBVIOUS
  <2>2. a = IF ks >= x THEN ks ELSE x
    BY <2>1, MaxPair
  <2> QED
    BY <2>1, <2>2, <1>01, <1>2
<1>4. d = h + 1
  <2>1. PICK a : a = Max({ko, h})
    OBVIOUS
  <2>2. a = IF ko >= h THEN ko ELSE h
    BY <2>1, MaxPair
  <2> QED
    BY <2>1, <2>2, <1>02, <1>2
<1>5. Level(e, ks, x)
  BY <1>2, <1>3, LevelIs
<1>6. Level(d, ko, h)
  BY <1>2, <1>4, LevelIs
<1>7. e \in Nat /\ d \in Nat
  BY <1>3, <1>4
<1>8. PICK y : y = Max({e, d})
  OBVIOUS
<1>9. y = IF e >= d THEN e ELSE d
  BY <1>7, <1>8, MaxPair
<1>10. Level(1 + y, e, d)
  BY <1>3, <1>4, <1>7, <1>9, LevelIs
<1> QED
  BY <1>01, <1>02, <1>5, <1>6, <1>8, <1>10, Zenon DEF LevelsFor

(* The two rotations, one after the other. *)
LEMMA DoubleRotate ==
  ASSUME NEW M \in Nodes, NEW sc \in Scores, NEW T, NEW c, NEW U, Shape(M, sc, T, c, U),
         c \in T, Counts(M, U, c), \A m \in T \ {c} : Exact(M, U, m),
         NEW s \in Sides, NEW q, NEW o, NEW k, Bent(M, c, s, q, o, k),
         NEW h \in Nat, h = avl_depth(M, M[c][o]), avl_depth(M, q) = h + 2,
         avl_depth(M, M[q][s]) < avl_depth(M, k),
         NEW S, S = SetTo(Rotate(M, q, o), c, s, k)
  PROVE  /\ S \in Nodes /\ S[c][s] = k /\ k \in T /\ Rotate(S, c, s) \in Nodes
         /\ Balanced(Rotate(S, c, s), sc, T, k)
<1>1. S \in Nodes /\ Turned(M, T, q, o, S) /\ RotatedSizes(M, S, q, o) /\ S[c][s] = k
  BY ChildTurned
<1>2. /\ q \in T /\ q # c /\ M[q].parent = c /\ c \in Member /\ q \in Member /\ k \in Member
      /\ o \in Sides /\ o # s /\ Sides = {s, o} /\ M[c][o] # q
      /\ k \in T /\ k \in Link /\ k # c /\ k # q /\ ApartAt(M, T, q, k, o)
  BY BentParts
<1>3. /\ q = M[c][s] /\ M[q][o] = k /\ M[q][o] # Nil /\ Other(o) = s /\ Other(s) = o
      /\ Nil \notin Member
  BY OtherSide, SortedSetAssumption DEF Bent
<1>4. PICK W : W = TurnedSub(M, U, q, o)
  OBVIOUS
<1>5. Shape(S, sc, T, c, W)
  BY <1>1, <1>2, <1>3, <1>4, TurnedShape
<1>6. \A m \in T : Counts(S, W, m)
  BY <1>1, <1>2, <1>3, <1>4, TurnCounts DEF Exact
<1>7. DepthsTurned(M, S, T, q, k, o, s)
  BY <1>1, <1>2, <1>3, TurnDepths
<1>8. PICK x : x = avl_depth(M, M[q][s])
  OBVIOUS
<1>9. PICK kd : kd = avl_depth(M, k)
  OBVIOUS
<1>10. PICK ks : ks = avl_depth(M, M[k][s])
  OBVIOUS
<1>11. PICK ko : ko = avl_depth(M, M[k][o])
  OBVIOUS
<1>12. x \in Nat /\ kd \in Nat /\ ks \in Nat /\ ko \in Nat
  BY <1>2, <1>8, <1>9, <1>10, <1>11, LinkIn, DepthIs
<1>13. Level(h + 2, x, kd)
  <2>1. LevelAt(M, q) /\ M[q].depth = h + 2
    BY <1>2, <1>3 DEF Exact, avl_depth
  <2>2. Level(M[q].depth, avl_depth(M, M[q][s]), avl_depth(M, M[q][o]))
    BY <2>1, <1>2, <1>3, LevelSides
  <2> QED
    BY <2>1, <2>2, <1>3, <1>8, <1>9
<1>14. Level(kd, ko, ks)
  <2>1. LevelAt(M, k) /\ M[k].depth = kd
    BY <1>2, <1>3, <1>9 DEF Exact, avl_depth
  <2>2. Level(M[k].depth, avl_depth(M, M[k][o]), avl_depth(M, M[k][s]))
    BY <2>1, <1>2, <1>3, LevelSides
  <2> QED
    BY <2>1, <2>2, <1>10, <1>11
<1>15. PICK e : e = 1 + Max({ks, x})
  OBVIOUS
<1>16. x < kd
  BY <1>8, <1>9
<1>17. Level(e, ks, x) /\ LevelsFor(ko, h, e)
  <2>1. Level(1 + Max({ks, x}), ks, x) /\ LevelsFor(ko, h, 1 + Max({ks, x}))
    BY <1>12, <1>13, <1>14, <1>16, DoubleTurn
  <2> QED
    BY <2>1, <1>15, Zenon
<1>18. /\ S[q].depth = e /\ avl_depth(S, S[q][o]) = ks /\ avl_depth(S, S[q][s]) = x
       /\ avl_depth(S, S[k][o]) = ko /\ avl_depth(S, S[k][s]) = e
  BY <1>7, <1>8, <1>10, <1>11, <1>15, Zenon DEF DepthsTurned
<1>19. LevelAt(S, q)
  <2>1. Level(S[q].depth, avl_depth(S, S[q][o]), avl_depth(S, S[q][s]))
    BY <1>17, <1>18, Zenon
  <2> QED
    BY <2>1, <1>1, <1>2, <1>3, LevelSides
<1>20. ASSUME NEW m \in T \ {c, k}
       PROVE  Exact(S, W, m)
  <2>1. CASE m = q
    BY <2>1, <1>6, <1>19 DEF Exact
  <2>2. CASE m # q
    <3>1. \A t \in Sides : M[m][t] # q
      <4> SUFFICES ASSUME NEW t \in Sides, M[m][t] = q PROVE FALSE
        OBVIOUS
      <4>1. M[q].parent = m
        BY <1>2, <1>3, ChildOf
      <4> QED
        BY <4>1, <1>2, <1>20
    <3>2. LevelAt(S, m)
      BY <3>1, <2>2, <1>7, <1>20 DEF DepthsTurned, Exact
    <3> QED
      BY <3>2, <1>6, <1>20 DEF Exact
  <2> QED
    BY <2>1, <2>2
<1>21. avl_depth(S, S[c][o]) = h
  <2>1. S[c][o] = M[c][o]
    BY <1>1, <1>2, <1>3 DEF Turned
  <2>2. M[c][o] \in Link
    BY <1>2, LinkIn
  <2>3. M[c][o] # k
    <3>1. M[k].parent = q
      BY <1>2, <1>3, ChildOf
    <3>2. M[c][o] = k => M[k].parent = c
      BY <1>2, <1>3, ChildOf
    <3> QED
      BY <3>1, <3>2, <1>2
  <2>4. M[c][o] \in Link \ {q, k}
    BY <2>2, <2>3, <1>2
  <2>5. avl_depth(S, M[c][o]) = avl_depth(M, M[c][o])
    BY <2>4, <1>7 DEF DepthsTurned
  <2> QED
    BY <2>1, <2>5
<1>22. RootReady(S, sc, T, c, W, s, k, o)
  <2>1. k = S[c][s] /\ k # Nil /\ o = Other(s)
    BY <1>1, <1>2, <1>3
  <2>2. LevelsFor(avl_depth(S, S[k][o]), avl_depth(S, S[c][o]), avl_depth(S, S[k][s]))
    BY <1>17, <1>18, <1>21, Zenon
  <2>3. \A m \in T \ {c, k} : Exact(S, W, m)
    BY <1>20
  <2> QED
    BY <2>1, <2>2, <2>3, <1>5, Zenon DEF RootReady
<1> QED
  BY <1>1, <1>2, <1>22, RootRotate

(* avl_fix at the root, when the side s is two levels deeper. *)
LEMMA RootTurn ==
  ASSUME NEW M \in Nodes, NEW sc \in Scores, NEW T, NEW c, NEW U, Shape(M, sc, T, c, U),
         c \in T, Counts(M, U, c), \A m \in T \ {c} : Exact(M, U, m), NEW s \in Sides,
         avl_depth(M, M[c][s]) = avl_depth(M, M[c][Other(s)]) + 2,
         NEW S, S = Straightened(M, c, s)
  PROVE  /\ S \in Nodes /\ Rotate(S, c, s) \in Nodes /\ S[c][s] \in T
         /\ Balanced(Rotate(S, c, s), sc, T, S[c][s])
<1>1. PICK o : o = Other(s)
  OBVIOUS
<1>2. PICK q : q = M[c][s]
  OBVIOUS
<1>3. PICK h : h = avl_depth(M, M[c][o])
  OBVIOUS
<1>4. T \subseteq Member /\ Nil \notin Member /\ o \in Sides
  BY <1>1, OtherSide, SortedSetAssumption DEF Shape
<1>5. h \in Nat /\ avl_depth(M, q) = h + 2 /\ q \in Link
  BY <1>1, <1>2, <1>3, <1>4, LinkIn, DepthIs
<1>6. q # Nil
  BY <1>5 DEF avl_depth
<1>7. q \in T /\ q # c /\ q \in Member
  BY <1>2, <1>4, <1>6, ChildOf
<1>8. PICK x : x = avl_depth(M, M[q][s])
  OBVIOUS
<1>9. PICK k : k = M[q][o]
  OBVIOUS
<1>10. PICK m : m = avl_depth(M, k)
  OBVIOUS
<1>11. x \in Nat /\ m \in Nat /\ k \in Link
  BY <1>4, <1>7, <1>8, <1>9, <1>10, LinkIn, DepthIs
<1>12. S = IF x < m THEN [Rotate(M, q, o) EXCEPT ![c][s] = k] ELSE M
  BY <1>1, <1>2, <1>8, <1>9, <1>10, Zenon DEF Straightened
<1>13. CASE x < m
  <2>1. S = SetTo(Rotate(M, q, o), c, s, k)
    BY <1>12, <1>13 DEF SetTo
  <2>2. k # Nil
    BY <1>10, <1>11, <1>13 DEF avl_depth
  <2>3. Bent(M, c, s, q, o, k)
    BY <2>2, <1>1, <1>2, <1>6, <1>9 DEF Bent
  <2>4. /\ S \in Nodes /\ S[c][s] = k /\ k \in T /\ Rotate(S, c, s) \in Nodes
        /\ Balanced(Rotate(S, c, s), sc, T, k)
    BY <2>1, <2>3, <1>3, <1>5, <1>8, <1>10, <1>13, DoubleRotate
  <2> QED
    BY <2>4
<1>14. CASE ~(x < m)
  <2>1. S = M
    BY <1>12, <1>14
  <2>2. Level(h + 2, x, m)
    <3>1. LevelAt(M, q) /\ M[q].depth = h + 2
      BY <1>5, <1>6, <1>7 DEF Exact, avl_depth
    <3>2. Level(M[q].depth, avl_depth(M, M[q][s]), avl_depth(M, M[q][o]))
      BY <3>1, <1>1, <1>7, LevelSides
    <3> QED
      BY <3>1, <3>2, <1>8, <1>9, <1>10
  <2>3. LevelsFor(m, h, x)
    BY <2>2, <1>5, <1>11, <1>14, SingleTurn
  <2>4. LevelsFor(avl_depth(M, M[q][o]), avl_depth(M, M[c][o]), avl_depth(M, M[q][s]))
    BY <2>3, <1>3, <1>8, <1>9, <1>10, Zenon
  <2>5. RootReady(M, sc, T, c, U, s, q, o)
    BY <2>4, <1>1, <1>2, <1>6, Zenon DEF RootReady
  <2>6. Rotate(M, c, s) \in Nodes /\ q \in T /\ Balanced(Rotate(M, c, s), sc, T, q)
    BY <2>5, RootRotate
  <2> QED
    BY <2>1, <2>6, <1>2
<1> QED
  BY <1>13, <1>14

(* The side that is too deep has a child. *)
LEMMA HeavySide ==
  ASSUME NEW M \in Nodes, NEW n \in Member, NEW s, s = Heavy(M, n)
  PROVE  /\ s \in Sides \/ s = "none"
         /\ s # "none" => /\ avl_depth(M, M[n][s]) = avl_depth(M, M[n][Other(s)]) + 2
                          /\ M[n][s] # Nil
<1>1. PICK l : l = avl_depth(M, M[n].left)
  OBVIOUS
<1>2. PICK r : r = avl_depth(M, M[n].right)
  OBVIOUS
<1>3. l \in Nat /\ r \in Nat
  BY <1>1, <1>2, LinkIn, DepthIs DEF Sides
<1>4. s = IF l = r + 2 THEN "left" ELSE IF l + 2 = r THEN "right" ELSE "none"
  BY <1>1, <1>2 DEF Heavy
<1>5. CASE l = r + 2
  <2>1. s = "left"
    BY <1>4, <1>5
  <2>2. M[n].left # Nil
    BY <1>1, <1>3, <1>5 DEF avl_depth
  <2> QED
    BY <2>1, <2>2, <1>1, <1>2, <1>5 DEF Sides, Other
<1>6. CASE ~(l = r + 2) /\ l + 2 = r
  <2>1. s = "right" /\ r = l + 2
    BY <1>3, <1>4, <1>6
  <2>2. M[n].right # Nil
    BY <1>2, <1>3, <1>6 DEF avl_depth
  <2> QED
    BY <2>1, <2>2, <1>1, <1>2 DEF Sides, Other
<1>7. CASE ~(l = r + 2) /\ ~(l + 2 = r)
  BY <1>4, <1>7
<1> QED
  BY <1>5, <1>6, <1>7

(* What Straightened does, whatever the links are. *)
LEMMA StraightenedType ==
  ASSUME NEW M \in Nodes, NEW c \in Member, NEW s \in Sides, M[c][s] # Nil,
         NEW S, S = Straightened(M, c, s)
  PROVE  /\ S \in Nodes /\ S[c][s] # Nil
         /\ S[c][s] # M[c][s] => Bent(M, c, s, M[c][s], Other(s), S[c][s])
<1>1. PICK o : o = Other(s)
  OBVIOUS
<1>2. PICK q : q = M[c][s]
  OBVIOUS
<1>3. PICK k : k = M[q][o]
  OBVIOUS
<1>4. o \in Sides /\ q \in Member /\ q # Nil
  BY <1>1, <1>2, OtherSide, LinkIn DEF Link
<1>5. PICK x : x = avl_depth(M, M[q][s])
  OBVIOUS
<1>6. PICK y : y = avl_depth(M, k)
  OBVIOUS
<1>7. x \in Nat /\ y \in Nat /\ k \in Link
  BY <1>3, <1>4, <1>5, <1>6, LinkIn, DepthIs
<1>8. S = IF x < y THEN SetTo(Rotate(M, q, o), c, s, k) ELSE M
  BY <1>1, <1>2, <1>3, <1>5, <1>6, Zenon DEF Straightened, SetTo
<1>9. CASE x < y
  <2>1. k # Nil
    BY <1>6, <1>7, <1>9 DEF avl_depth
  <2>2. Rotate(M, q, o) \in Nodes
    BY <2>1, <1>3, <1>4, RotateType
  <2>3. s \in Fields
    BY DEF Fields
  <2>4. S = SetTo(Rotate(M, q, o), c, s, k)
    BY <1>8, <1>9
  <2>5. S \in Nodes /\ S[c][s] = k
    <3>1. PICK R : R = Rotate(M, q, o)
      OBVIOUS
    <3>2. SetTo(R, c, s, k) \in Nodes /\ SetTo(R, c, s, k)[c][s] = k
      BY <3>1, <2>2, <2>3, <1>7, SetLink
    <3>3. S = SetTo(R, c, s, k)
      BY <2>4, <3>1
    <3> QED
      BY <3>2, <3>3
  <2>6. Bent(M, c, s, q, o, k)
    BY <2>1, <1>1, <1>2, <1>3, <1>4, Zenon DEF Bent
  <2> QED
    BY <2>1, <2>5, <2>6, <1>1, <1>2
<1>10. CASE ~(x < y)
  BY <1>8, <1>10
<1> QED
  BY <1>9, <1>10

(* One iteration of avl_fix keeps the nodes well typed, even in a tree     *)
(* that is no longer sound.                                                *)
LEMMA FixedType ==
  ASSUME mem \in Nodes, NEW c \in Member
  PROVE  Fixed(c).mem \in Nodes /\ Fixed(c).top \in Member
<1>1. PICK M : M = avl_update(mem, c)
  OBVIOUS
<1>2. PICK s : s = Heavy(M, c)
  OBVIOUS
<1>3. PICK S : S = Straightened(M, c, s)
  OBVIOUS
<1>4. Fixed(c) = IF s = "none" THEN [mem |-> M, top |-> c] ELSE [mem |-> Rotate(S, c, s), top |-> S[c][s]]
  BY <1>1, <1>2, <1>3, Zenon DEF Fixed
<1>5. M \in Nodes
  BY <1>1, UpdateIs DEF Sides
<1>6. CASE s = "none"
  <2>1. Fixed(c) = [mem |-> M, top |-> c]
    BY <1>4, <1>6
  <2> QED
    BY <2>1, <1>5
<1>7. CASE s # "none"
  <2>1. s \in Sides /\ M[c][s] # Nil
    BY <1>2, <1>5, <1>7, HeavySide
  <2>2. S \in Nodes /\ S[c][s] # Nil
    BY <2>1, <1>3, <1>5, StraightenedType
  <2>3. Rotate(S, c, s) \in Nodes /\ S[c][s] \in Member
    BY <2>1, <2>2, RotateType, LinkIn DEF Link
  <2>4. Fixed(c) = [mem |-> Rotate(S, c, s), top |-> S[c][s]]
    BY <1>4, <1>7
  <2> QED
    BY <2>3, <2>4
<1> QED
  BY <1>6, <1>7

(* In a sound tree, as long as it rotates at the root only. *)
LEMMA FixedTree ==
  ASSUME mem \in Nodes, score \in Scores, NEW T, NEW top, NEW U, Shape(mem, score, T, top, U),
         NEW c \in T, Mending(mem, T, U, c)
  PROVE  /\ mem[c].parent # Nil /\ Fixed(c).top = c =>
              /\ mem[c].parent \in T /\ Shape(Fixed(c).mem, score, T, top, U)
              /\ Mending(Fixed(c).mem, T, U, mem[c].parent)
         /\ mem[c].parent = Nil => Fixed(c).top \in T /\ Balanced(Fixed(c).mem, score, T, Fixed(c).top)
<1>1. PICK M : M = avl_update(mem, c)
  OBVIOUS
<1>2. PICK s : s = Heavy(M, c)
  OBVIOUS
<1>3. PICK S : S = Straightened(M, c, s)
  OBVIOUS
<1>4. Fixed(c) = IF s = "none" THEN [mem |-> M, top |-> c] ELSE [mem |-> Rotate(S, c, s), top |-> S[c][s]]
  BY <1>1, <1>2, <1>3, Zenon DEF Fixed
<1>5. PICK o \in Nat : MendingFrom(mem, T, U, c, o)
  BY DEF Mending
<1>6. /\ M \in Nodes /\ Shape(M, score, T, top, U) /\ Counts(M, U, c)
      /\ \A n \in T : c \notin U[n] => Exact(M, U, n)
  BY <1>1, <1>5, MendUpdate DEF MendingFrom
<1>7. c \in Member /\ Nil \notin Member /\ T \subseteq Member
  BY SortedSetAssumption DEF Shape
<1>8. mem[c].parent = Nil => c = top /\ U[c] = T
  <2>1. mem[c].parent = Nil => c = top
    BY <1>7 DEF Shape, Hangs
  <2>2. c = top => U[c] = T
    BY <1>7 DEF Shape, Rooted, Sub
  <2> QED
    BY <2>1, <2>2
<1>9. CASE s = "none"
  <2>1. Fixed(c).mem = M /\ Fixed(c).top = c
    BY <1>4, <1>9
  <2>2. /\ mem[c].parent # Nil => mem[c].parent \in T /\ Mending(M, T, U, mem[c].parent)
        /\ mem[c].parent = Nil => \A n \in T : Exact(M, U, n)
    BY <1>1, <1>2, <1>5, <1>9, MendUp
  <2>3. mem[c].parent = Nil => Balanced(M, score, T, c)
    BY <2>2, <1>6, <1>8 DEF Balanced
  <2> QED
    BY <2>1, <2>2, <2>3, <1>6
<1>10. CASE s # "none"
  <2>1. s \in Sides /\ M[c][s] # Nil /\ avl_depth(M, M[c][s]) = avl_depth(M, M[c][Other(s)]) + 2
    BY <1>2, <1>6, <1>7, <1>10, HeavySide
  <2>2. Fixed(c).mem = Rotate(S, c, s) /\ Fixed(c).top = S[c][s]
    BY <1>4, <1>10
  <2>3. S[c][s] # c
    <3>1. S[c][s] # M[c][s] => Bent(M, c, s, M[c][s], Other(s), S[c][s])
      BY <2>1, <1>3, <1>6, <1>7, StraightenedType
    <3>2. CASE S[c][s] = M[c][s]
      BY <3>2, <2>1, <1>6, ChildOf
    <3>3. CASE S[c][s] # M[c][s]
      BY <3>1, <3>3, <2>1, <1>6, BentParts
    <3> QED
      BY <3>2, <3>3
  <2>4. ASSUME mem[c].parent = Nil
        PROVE  S[c][s] \in T /\ Balanced(Rotate(S, c, s), score, T, S[c][s])
    <3>1. \A m \in T \ {c} : Exact(M, U, m)
      <4> SUFFICES ASSUME NEW m \in T \ {c} PROVE Exact(M, U, m)
        OBVIOUS
      <4>1. c \notin U[m]
        BY <2>4, <1>8, SubtreesDiffer
      <4> QED
        BY <4>1, <1>6
    <3>2. Shape(M, score, T, c, U)
      BY <2>4, <1>6, <1>8
    <3> QED
      BY <3>1, <3>2, <2>1, <1>3, <1>6, RootTurn
  <2> QED
    BY <2>2, <2>3, <2>4
<1> QED
  BY <1>9, <1>10
-----------------------------------------------------------------------------
(* Where avl_fix begins: at a new leaf ... *)
LEMMA LeafMends ==
  ASSUME NEW M \in Nodes, NEW x \in Member, NEW U, M[x].left = Nil, M[x].right = Nil, x \in U[x]
  PROVE  Mending(M, {x}, U, x)
<1>1. avl_depth(M, M[x].left) = 0 /\ avl_depth(M, M[x].right) = 0
  BY DEF avl_depth
<1>2. Max({0, 0}) = 0
  BY MaxPair
<1>3. MendingFrom(M, {x}, U, x, 0)
  BY <1>1, <1>2 DEF MendingFrom
<1> QED
  BY <1>3 DEF Mending

(* ... in a tree ... *)
LEMMA HungMends ==
  ASSUME NEW M \in Nodes, NEW sc \in Scores, NEW T, NEW top, NEW U, Shape(M, sc, T, top, U),
         \A n \in T : Exact(M, U, n),
         NEW c \in T, NEW s \in Sides, NEW x \in Member \ T, M[c][s] = Nil,
         NEW N \in Nodes, HungOn(M, T, c, s, x, N), \A m \in Member : SameSizes(M, N, m)
  PROVE  Mending(N, T \cup {x}, Grown(U, c, x), x)
<1>1. PICK V : V = Grown(U, c, x)
  OBVIOUS
<1>2. /\ T \subseteq Member /\ Nil \notin Member /\ U \in [Member -> SUBSET Member]
      /\ \A n \in T : n \in U[n] /\ U[n] \subseteq T
  BY SubtreesLie, SortedSetAssumption DEF Shape
<1>3. \A n \in T : /\ V[n] = IF c \in U[n] THEN U[n] \cup {x} ELSE U[n]
                   /\ n # x
  BY <1>1, <1>2 DEF Grown
<1>4. N[x].left = Nil /\ N[x].right = Nil /\ N[c][s] = x
  BY DEF HungOn
<1>5. ASSUME NEW n \in T, NEW t \in Sides
      PROVE  DepthBut(N, x, 0, N[n][t]) = avl_depth(M, M[n][t])
  <2>1. M[n][t] \in Link /\ M[n][t] # x
    BY <1>2, SubtreeForks
  <2>2. CASE n = c /\ t = s
    BY <2>2, <1>4 DEF DepthBut, avl_depth
  <2>3. CASE n # c \/ t # s
    <3>1. N[n][t] = M[n][t]
      BY <2>3 DEF HungOn
    <3>2. avl_depth(N, M[n][t]) = avl_depth(M, M[n][t])
      BY <2>1, SizesSame DEF Link
    <3> QED
      BY <3>1, <3>2, <2>1 DEF DepthBut
  <2> QED
    BY <2>2, <2>3
<1>6. ASSUME NEW n \in T
      PROVE  Level(N[n].depth, DepthBut(N, x, 0, N[n].left), DepthBut(N, x, 0, N[n].right))
  <2>1. Level(M[n].depth, avl_depth(M, M[n].left), avl_depth(M, M[n].right))
    BY DEF Exact, LevelAt
  <2>2. N[n].depth = M[n].depth
    BY <1>2 DEF SameSizes
  <2>3. /\ DepthBut(N, x, 0, N[n].left) = avl_depth(M, M[n].left)
        /\ DepthBut(N, x, 0, N[n].right) = avl_depth(M, M[n].right)
    BY <1>5 DEF Sides
  <2> QED
    BY <2>1, <2>2, <2>3, Zenon
<1>7. ASSUME NEW n \in T \cup {x}, x \notin V[n]
      PROVE  Exact(N, V, n)
  <2>1. n \in T
    <3>1. V[x] = {x}
      BY <1>1 DEF Grown
    <3> QED
      BY <3>1, <1>7
  <2>2. c \notin U[n] /\ V[n] = U[n] /\ n # c
    BY <2>1, <1>2, <1>3, <1>7
  <2>3. \A t \in Sides : N[n][t] = M[n][t]
    BY <2>1, <2>2 DEF HungOn
  <2>4. SameAround(M, N, n)
    <3>1. \A t \in Sides : M[n][t] # Nil => M[n][t] \in Member
      BY <2>1, <1>2, ChildOf
    <3> QED
      BY <3>1, <2>1, <2>3, <1>2 DEF SameAround, Sides
  <2>5. Exact(N, U, n)
    BY <2>1, <2>4, <1>2, ExactSame
  <2> QED
    BY <2>2, <2>5 DEF Exact, Counts
<1>8. avl_depth(N, N[x].left) = 0 /\ avl_depth(N, N[x].right) = 0 /\ Max({0, 0}) = 0
  BY <1>4, MaxPair DEF avl_depth
<1>9. MendingFrom(N, T \cup {x}, V, x, 0)
  BY <1>6, <1>7, <1>8 DEF MendingFrom
<1> QED
  BY <1>1, <1>9 DEF Mending

(* ... or at the parent of a node that was taken out. *)
LEMMA TakenOutMends ==
  ASSUME NEW M \in Nodes, NEW sc \in Scores, NEW T, NEW top, NEW U, Shape(M, sc, T, top, U),
         \A m \in T : Exact(M, U, m),
         NEW n \in T, M[n].right = Nil, NEW N \in Nodes, TakenOut(M, T, n, N),
         \A m \in Member : SameSizes(M, N, m)
  PROVE  /\ M[n].parent # Nil => /\ M[n].parent \in T \ {n}
                                 /\ Mending(N, T \ {n}, Without(U, n), M[n].parent)
         /\ M[n].parent = Nil => n = top /\ \A m \in T \ {n} : Exact(N, Without(U, n), m)
<1>1. PICK V : V = Without(U, n)
  OBVIOUS
<1>2. PICK l : l = M[n].left
  OBVIOUS
<1>3. PICK p : p = M[n].parent
  OBVIOUS
<1>4. /\ T \subseteq Member /\ Nil \notin Member /\ U \in [Member -> SUBSET Member]
      /\ \A m \in T : m \in U[m] /\ U[m] \subseteq T
      /\ l \in Link
  BY <1>2, SubtreesLie, LinkIn, SortedSetAssumption DEF Shape, Sides
<1>5. \A m \in T : V[m] = U[m] \ {n}
  BY <1>1, <1>4 DEF Without
<1>6. \A m \in T \ {n}, t \in Sides : N[m][t] = IF M[m][t] = n THEN l ELSE M[m][t]
  BY <1>2 DEF TakenOut
<1>7. ASSUME NEW m \in T \ {n}, n \notin U[m]
      PROVE  Exact(N, V, m)
  <2>1. V[m] = U[m]
    BY <1>5, <1>7
  <2>2. \A t \in Sides : M[m][t] # Nil => M[m][t] \in Member /\ M[m][t] # n
    BY <1>4, <1>7, ChildOf
  <2>3. \A t \in Sides : N[m][t] = M[m][t]
    BY <2>2, <1>4, <1>6
  <2>4. SameAround(M, N, m)
    BY <2>2, <2>3, <1>4 DEF SameAround, Sides
  <2>5. Exact(N, U, m)
    BY <2>4, <1>4, ExactSame
  <2> QED
    BY <2>1, <2>5 DEF Exact, Counts
<1>8. ASSUME p = Nil
      PROVE  n = top /\ \A m \in T \ {n} : Exact(N, V, m)
  <2>1. n = top
    BY <1>3, <1>4, <1>8 DEF Shape, Hangs
  <2>2. U[n] = T
    BY <2>1, <1>4 DEF Shape, Rooted, Sub
  <2>3. \A m \in T \ {n} : n \notin U[m]
    BY <2>2, SubtreesDiffer
  <2> QED
    BY <2>1, <2>3, <1>7
<1>9. ASSUME p # Nil
      PROVE  p \in T \ {n} /\ Mending(N, T \ {n}, V, p)
  <2>1. n # top
    BY <1>3, <1>4, <1>9 DEF Shape, Rooted
  <2>2. p \in T /\ \E s \in Sides : M[p][s] = n
    BY <1>3, <2>1 DEF Shape, Hangs
  <2>3. PICK s \in Sides : M[p][s] = n
    BY <2>2
  <2>4. n \in U[p] /\ p # n /\ p \in Member
    BY <1>4, <2>2, <2>3, ChildOf
  <2>5. PICK o : o = M[p].depth
    OBVIOUS
  <2>6. o \in Nat
    BY <2>4, <2>5 DEF Nodes, AVLNode
  <2>7. ASSUME NEW m \in T \ {n}, p \notin V[m]
        PROVE  Exact(N, V, m)
    <3>1. p \notin U[m]
      BY <1>5, <2>4, <2>7
    <3>2. n \notin U[m]
      BY <3>1, <1>3, <2>7, ParentInSubtree
    <3> QED
      BY <3>2, <1>7
  <2>8. ASSUME NEW m \in T \ {n}, m # p
        PROVE  Level(N[m].depth, DepthBut(N, p, o, N[m].left), DepthBut(N, p, o, N[m].right))
    <3>1. ASSUME NEW t \in Sides
          PROVE  DepthBut(N, p, o, N[m][t]) = avl_depth(M, M[m][t])
      <4>1. M[m][t] \in Link /\ M[m][t] # n
        <5>1. M[m][t] = n => M[n].parent = m
          BY <1>4, ChildOf
        <5> QED
          BY <5>1, <1>3, <1>4, <2>8, LinkIn
      <4>2. N[m][t] = M[m][t]
        BY <4>1, <1>6
      <4>3. CASE M[m][t] = p
        BY <4>2, <4>3, <2>4, <2>5, <1>4 DEF DepthBut, avl_depth
      <4>4. CASE M[m][t] # p
        <5>1. avl_depth(N, M[m][t]) = avl_depth(M, M[m][t])
          BY <4>1, SizesSame DEF Link
        <5> QED
          BY <5>1, <4>2, <4>4 DEF DepthBut
      <4> QED
        BY <4>3, <4>4
    <3>2. /\ DepthBut(N, p, o, N[m].left) = avl_depth(M, M[m].left)
          /\ DepthBut(N, p, o, N[m].right) = avl_depth(M, M[m].right)
      BY <3>1 DEF Sides
    <3>3. Level(M[m].depth, avl_depth(M, M[m].left), avl_depth(M, M[m].right))
      BY DEF Exact, LevelAt
    <3>4. N[m].depth = M[m].depth
      BY <1>4 DEF SameSizes
    <3> QED
      BY <3>2, <3>3, <3>4, Zenon
  <2>9. PICK d : d = M[n].depth
    OBVIOUS
  <2>10. PICK h : h = avl_depth(M, M[p][Other(s)])
    OBVIOUS
  <2>11. PICK e : e = avl_depth(M, l)
    OBVIOUS
  <2>12. d \in Nat /\ h \in Nat /\ e \in Nat /\ d = 1 + e
    <3>1. d \in Nat /\ h \in Nat /\ e \in Nat
      BY <1>4, <2>4, <2>9, <2>10, <2>11, OtherSide, LinkIn, DepthIs DEF Nodes, AVLNode
    <3>2. Level(d, e, 0)
      <4>1. avl_depth(M, M[n].right) = 0
        BY DEF avl_depth
      <4>2. Level(M[n].depth, avl_depth(M, M[n].left), avl_depth(M, M[n].right))
        BY DEF Exact, LevelAt
      <4> QED
        BY <4>1, <4>2, <1>2, <2>9, <2>11
    <3>3. d = 1 + (IF e >= 0 THEN e ELSE 0)
      BY <3>1, <3>2, LevelIs
    <3> QED
      BY <3>1, <3>3
  <2>13. Level(o, d, h)
    <3>1. LevelAt(M, p)
      BY <2>2 DEF Exact
    <3>2. avl_depth(M, n) = d
      BY <1>4, <2>9 DEF avl_depth
    <3>3. Level(M[p].depth, avl_depth(M, M[p][s]), avl_depth(M, M[p][Other(s)]))
      BY <3>1, <2>4, LevelSides
    <3> QED
      BY <3>2, <3>3, <2>3, <2>5, <2>10
  <2>14. /\ e - h \in -2..2 /\ h - e \in -2..2
         /\ 1 + Max({e, h}) \in o - 1..o + 1 /\ 1 + Max({h, e}) \in o - 1..o + 1
    <3>1. e \in d - 1..d + 1
      BY <2>12
    <3> QED
      BY <3>1, <2>12, <2>13, LevelUp
  <2>15. M[p][Other(s)] # n /\ M[p][Other(s)] \in Link
    <3>1. M[p][s] # Nil
      BY <1>4, <2>3
    <3>2. ApartAt(M, T, p, n, s)
      BY <3>1, <2>2, <2>3, AreApart
    <3> QED
      BY <3>2 DEF ApartAt
  <2>16. avl_depth(N, N[p][s]) = e /\ avl_depth(N, N[p][Other(s)]) = h
    <3>1. N[p][s] = l
      BY <1>6, <2>2, <2>3, <2>4
    <3>2. N[p][Other(s)] = M[p][Other(s)]
      BY <1>6, <2>2, <2>4, <2>15, OtherSide
    <3>3. avl_depth(N, l) = avl_depth(M, l)
      BY <1>4, SizesSame DEF Link
    <3>4. avl_depth(N, M[p][Other(s)]) = avl_depth(M, M[p][Other(s)])
      BY <2>15, SizesSame DEF Link
    <3> QED
      BY <3>1, <3>2, <3>3, <3>4, <2>10, <2>11
  <2>17. /\ avl_depth(N, N[p].left) - avl_depth(N, N[p].right) \in -2..2
         /\ 1 + Max({avl_depth(N, N[p].left), avl_depth(N, N[p].right)}) \in o - 1..o + 1
    <3>1. CASE s = "left"
      BY <3>1, <2>14, <2>16 DEF Other
    <3>2. CASE s = "right"
      BY <3>2, <2>14, <2>16 DEF Other
    <3> QED
      BY <3>1, <3>2 DEF Sides
  <2>18. MendingFrom(N, T \ {n}, V, p, o)
    BY <2>7, <2>8, <2>17 DEF MendingFrom
  <2> QED
    BY <2>2, <2>4, <2>6, <2>18 DEF Mending
<1> QED
  BY <1>1, <1>3, <1>8, <1>9
(* The successor in the place of its predecessor. *)
LEMMA RenamedExact ==
  ASSUME NEW M \in Nodes, NEW sc \in Scores, NEW T, NEW top, NEW U, Shape(M, sc, T, top, U),
         NEW n \in T, NEW v \in Member \ T, NEW N \in Nodes, Renamed(M, T, n, v, N),
         \A m \in T : N[Name(n, v, m)].depth = M[m].depth /\ N[Name(n, v, m)].count = M[m].count,
         \A m \in T : Exact(M, U, m)
  PROVE  \A m \in (T \ {n}) \cup {v} : Exact(N, RenamedSub(U, n, v), m)
<1>1. PICK V : V = RenamedSub(U, n, v)
  OBVIOUS
<1>2. /\ T \subseteq Member /\ Nil \notin Member /\ U \in [Member -> SUBSET Member]
      /\ \A m \in T : m \in U[m] /\ U[m] \subseteq T
  BY SubtreesLie, SortedSetAssumption DEF Shape
<1>3. ASSUME NEW m \in T
      PROVE  V[Name(n, v, m)] = Names(n, v, U[m])
  BY <1>1, <1>2 DEF RenamedSub, Name
<1>4. ASSUME NEW m \in T
      PROVE  Cardinality(Names(n, v, U[m])) = Cardinality(U[m])
  <2>1. IsFiniteSet(U[m]) /\ Cardinality(U[m]) \in Nat /\ v \notin U[m]
    BY <1>2, FiniteSub DEF Link
  <2>2. CASE n \in U[m]
    <3>1. PICK A : A = U[m] \ {n}
      OBVIOUS
    <3>2. IsFiniteSet(A) /\ Cardinality(A) = Cardinality(U[m]) - 1 /\ v \notin A
      BY <2>1, <2>2, <3>1, FS_RemoveElement
    <3>3. Cardinality(A \cup {v}) = Cardinality(A) + 1
      BY <3>2, FS_AddElement
    <3>4. Names(n, v, U[m]) = A \cup {v}
      BY <2>2, <3>1 DEF Names
    <3> QED
      BY <2>1, <3>2, <3>3, <3>4
  <2>3. CASE n \notin U[m]
    BY <2>3 DEF Names
  <2> QED
    BY <2>2, <2>3
<1>5. ASSUME NEW m \in Link, m # Nil => m \in T
      PROVE  avl_depth(N, Name(n, v, m)) = avl_depth(M, m)
  <2>1. CASE m = Nil
    BY <2>1, <1>2 DEF avl_depth, Name
  <2>2. CASE m # Nil
    <3>1. Name(n, v, m) # Nil
      BY <2>2, <1>2 DEF Name
    <3> QED
      BY <2>2, <3>1, <1>5 DEF avl_depth
  <2> QED
    BY <2>1, <2>2
<1>6. ASSUME NEW m \in T
      PROVE  Exact(N, V, Name(n, v, m))
  <2>1. PICK x : x = Name(n, v, m)
    OBVIOUS
  <2>2. Counts(N, V, x)
    <3>1. N[x].count = M[m].count /\ M[m].count = Cardinality(U[m])
      BY <2>1 DEF Exact, Counts
    <3>2. Cardinality(V[x]) = Cardinality(U[m])
      BY <2>1, <1>3, <1>4
    <3> QED
      BY <3>1, <3>2 DEF Counts
  <2>3. \A t \in Sides : avl_depth(N, N[x][t]) = avl_depth(M, M[m][t])
    <3> TAKE t \in Sides
    <3>1. N[x][t] = Name(n, v, M[m][t])
      BY <2>1 DEF Renamed
    <3>2. M[m][t] \in Link /\ (M[m][t] # Nil => M[m][t] \in T)
      BY SubtreeForks
    <3> QED
      BY <3>1, <3>2, <1>5
  <2>4. avl_depth(N, N[x].left) = avl_depth(M, M[m].left) /\ avl_depth(N, N[x].right) = avl_depth(M, M[m].right)
    BY <2>3 DEF Sides
  <2>5. N[x].depth = M[m].depth
    BY <2>1
  <2>6. Level(M[m].depth, avl_depth(M, M[m].left), avl_depth(M, M[m].right))
    BY DEF Exact, LevelAt
  <2>7. LevelAt(N, x)
    BY <2>4, <2>5, <2>6, Zenon DEF LevelAt
  <2> QED
    BY <2>1, <2>2, <2>7 DEF Exact
<1>7. \A m \in (T \ {n}) \cup {v} : Exact(N, V, m)
  <2> TAKE m \in (T \ {n}) \cup {v}
  <2>1. CASE m = v
    <3>1. Name(n, v, n) = v
      BY DEF Name
    <3> QED
      BY <2>1, <3>1, <1>6
  <2>2. CASE m # v
    <3>1. m \in T /\ Name(n, v, m) = m
      BY <2>2 DEF Name
    <3> QED
      BY <3>1, <1>6
  <2> QED
    BY <2>1, <2>2
<1> QED
  BY <1>1, <1>7
-----------------------------------------------------------------------------
(* What the other loops keep. *)

(* tree_add goes down a link. *)
LEMMA FitsDown ==
  ASSUME NEW M \in Nodes, NEW sc \in Scores, NEW T, NEW top, NEW U, Shape(M, sc, T, top, U),
         NEW c \in T, NEW x \in Member \ T, Fits(sc, T, U, c, x),
         NEW s \in Sides, Toward(sc, s, x, c), M[c][s] # Nil
  PROVE  Fits(sc, T, U, M[c][s], x)
<1>1. PICK d : d = M[c][s]
  OBVIOUS
<1>2. d \in T /\ U[d] \subseteq U[c] /\ U[c] \subseteq T /\ T \subseteq Member /\ c \in Member /\ Nil \notin Member
  BY <1>1, ChildOf, SubtreesLie, SortedSetAssumption DEF Shape
<1>3. U[c] = {c} \cup U[d] \cup Sub(U, M[c][Other(s)])
  BY <1>1, SubtreeForks DEF Sub
<1>4. /\ \A m \in U[d] : Toward(sc, s, m, c)
      /\ \A m \in Sub(U, M[c][Other(s)]) : Toward(sc, s, c, m)
  <2>1. \A t \in Sides : \A m \in Sub(U, M[c][t]) : Toward(sc, t, m, c)
    BY DEF Shape, Sorts
  <2>2. Sub(U, M[c][s]) = U[d]
    BY <1>1 DEF Sub
  <2> QED
    BY <2>1, <2>2, OtherSide, TowardOrders
<1>5. ASSUME NEW t \in T \ U[d], NEW y \in U[d]
      PROVE  Before(sc, t, x) <=> Before(sc, t, y)
  <2>1. t \in Member /\ y \in Member /\ t # x /\ t # y /\ y \in U[c]
    BY <1>2
  <2>2. CASE t \notin U[c]
    BY <2>1, <2>2, <1>2 DEF Fits
  <2>3. CASE t \in U[c]
    <3>1. t = c \/ Toward(sc, s, c, t)
      BY <2>3, <1>3, <1>4
    <3>2. Toward(sc, s, x, t) /\ Toward(sc, s, y, t)
      BY <3>1, <2>1, <1>2, <1>4, TowardOrders
    <3> QED
      BY <3>2, <2>1, SameSide
  <2> QED
    BY <2>2, <2>3
<1>6. Fits(sc, T, U, d, x)
  BY <1>2, <1>5 DEF Fits
<1> QED
  BY <1>1, <1>6

(* A node outside the tree is written. *)
LEMMA OutsideSame ==
  ASSUME NEW M \in Nodes, NEW sc \in Scores, NEW T, NEW top, NEW U, Shape(M, sc, T, top, U),
         \A n \in T : Exact(M, U, n),
         NEW N, NEW sd, \A m \in T : N[m] = M[m] /\ sd[m] = sc[m]
  PROVE  Shape(N, sd, T, top, U) /\ \A n \in T : Exact(N, U, n)
<1>1. T \subseteq Member /\ \A n \in T : U[n] \subseteq T
  BY SubtreesLie DEF Shape
<1>2. Shape(N, sd, T, top, U)
  <2>1. SameLinks(M, N, T)
    BY DEF SameLinks
  <2> QED
    BY <2>1, <1>1, SameShape
<1>3. ASSUME NEW n \in T
      PROVE  Exact(N, U, n)
  <2>1. \A t \in Sides : M[n][t] # Nil => M[n][t] \in T
    BY ChildOf
  <2>2. SameAround(M, N, n)
    BY <2>1 DEF SameAround, SameSizes
  <2> QED
    BY <1>1, <2>2, ExactSame
<1> QED
  BY <1>2, <1>3

(* The right child of a node without a left child has no children. *)
LEMMA LeafRight ==
  ASSUME NEW M \in Nodes, NEW sc \in Scores, NEW T, NEW top, NEW U, Shape(M, sc, T, top, U),
         \A m \in T : Exact(M, U, m), NEW n \in T, M[n].left = Nil, M[n].right # Nil
  PROVE  M[M[n].right].left = Nil /\ M[M[n].right].right = Nil
<1>1. PICK r : r = M[n].right
  OBVIOUS
<1>2. r \in T /\ T \subseteq Member /\ Nil \notin Member /\ r # Nil
  BY <1>1, ChildOf, SortedSetAssumption DEF Shape, Sides
<1>3. PICK d : d = M[r].depth
  OBVIOUS
<1>4. PICK a : a = avl_depth(M, M[r].left)
  OBVIOUS
<1>5. PICK b : b = avl_depth(M, M[r].right)
  OBVIOUS
<1>6. /\ d \in Nat /\ a \in Nat /\ b \in Nat
      /\ (a = 0 <=> M[r].left = Nil) /\ (b = 0 <=> M[r].right = Nil)
  <2>1. M[r].left \in Link /\ M[r].right \in Link
    BY <1>2, LinkIn DEF Sides
  <2>2. d \in Nat
    BY <1>2, <1>3 DEF Nodes, AVLNode
  <2> QED
    BY <2>1, <2>2, <1>4, <1>5, DepthIs
<1>7. Level(d, a, b)
  BY <1>2, <1>3, <1>4, <1>5, Zenon DEF Exact, LevelAt
<1>8. Level(M[n].depth, 0, d)
  <2>1. avl_depth(M, M[n].left) = 0 /\ avl_depth(M, M[n].right) = d
    BY <1>1, <1>2, <1>3 DEF avl_depth
  <2>2. Level(M[n].depth, avl_depth(M, M[n].left), avl_depth(M, M[n].right))
    BY DEF Exact, LevelAt
  <2> QED
    BY <2>1, <2>2
<1>9. d <= 1
  <2>1. -1 <= 0 - d
    BY <1>6, <1>8, LevelIs
  <2> QED
    BY <2>1, <1>6
<1>10. d = 1 + (IF a >= b THEN a ELSE b)
  BY <1>6, <1>7, LevelIs
<1>11. a = 0 /\ b = 0
  BY <1>6, <1>9, <1>10
<1> QED
  BY <1>1, <1>6, <1>11

(* avl_del goes left in the right subtree r of n ... *)
LEMMA SeekDown ==
  ASSUME NEW M \in Nodes, NEW sc \in Scores, NEW T, NEW top, NEW U, Shape(M, sc, T, top, U),
         NEW r \in T, NEW c, Seeking(M, sc, U, r, c), M[c].left # Nil
  PROVE  Seeking(M, sc, U, r, M[c].left)
<1>1. PICK d : d = M[c].left
  OBVIOUS
<1>2. c \in U[r] /\ c \in T /\ T \subseteq Member /\ U[r] \subseteq T /\ Nil \notin Member
  BY SubtreesLie, SortedSetAssumption DEF Seeking, Shape
<1>3. d \in T /\ d \in U[c] /\ U[d] \subseteq U[c] /\ U[c] \subseteq T
  BY <1>1, <1>2, ChildOf, SubtreesLie DEF Sides
<1>4. U[c] \subseteq U[r]
  BY <1>2 DEF Shape, Nests
<1>5. U[c] = {c} \cup U[d] \cup Sub(U, M[c].right)
  <2>1. U[c] = {c} \cup Sub(U, M[c].left) \cup Sub(U, M[c].right)
    BY <1>2 DEF Shape, Forks
  <2> QED
    BY <2>1, <1>1 DEF Sub
<1>6. /\ \A m \in U[d] : Before(sc, m, c)
      /\ \A m \in Sub(U, M[c].right) : Before(sc, c, m)
  <2>1. \A t \in Sides : \A m \in Sub(U, M[c][t]) : Toward(sc, t, m, c)
    BY <1>2 DEF Shape, Sorts
  <2>2. Sub(U, M[c].left) = U[d]
    BY <1>1 DEF Sub
  <2> QED
    BY <2>1, <2>2 DEF Sides, Toward
<1>7. ASSUME NEW t \in U[r] \ U[d], NEW y \in U[d]
      PROVE  Before(sc, y, t)
  <2>1. CASE t \notin U[c]
    BY <2>1, <1>3 DEF Seeking
  <2>2. CASE t \in U[c]
    <3>1. t = c \/ Before(sc, c, t)
      BY <2>2, <1>5, <1>6
    <3>2. y \in Member /\ c \in Member /\ t \in Member
      BY <1>2, <1>3
    <3> QED
      BY <3>1, <3>2, <1>6, BeforeOrders
  <2> QED
    BY <2>1, <2>2
<1> QED
  BY <1>1, <1>3, <1>4, <1>7 DEF Seeking

(* ... and ends at n's successor. *)
LEMMA SeekFinds ==
  ASSUME NEW M \in Nodes, NEW sc \in Scores, NEW T, NEW top, NEW U, Shape(M, sc, T, top, U),
         NEW n \in T, NEW c, Seeking(M, sc, U, M[n].right, c), M[c].left = Nil
  PROVE  c \in T /\ Adjacent(sc, T, n, c)
<1>1. PICK r : r = M[n].right
  OBVIOUS
<1>2. r # Nil /\ c \in U[r] /\ \A t \in U[r] \ U[c], y \in U[c] : Before(sc, y, t)
  BY <1>1 DEF Seeking
<1>3. r \in T /\ U[r] \subseteq U[n] /\ U[n] \subseteq T /\ T \subseteq Member /\ c \in T /\ c \in U[n] /\ c \in U[c]
  BY <1>1, <1>2, ChildOf, SubtreesLie DEF Sides, Shape
<1>4. U[n] = {n} \cup Sub(U, M[n].left) \cup U[r]
  <2>1. U[n] = {n} \cup Sub(U, M[n].left) \cup Sub(U, M[n].right)
    BY DEF Shape, Forks
  <2> QED
    BY <2>1, <1>1, <1>2 DEF Sub
<1>5. U[c] = {c} \cup Sub(U, M[c].right)
  <2>1. U[c] = {c} \cup Sub(U, M[c].left) \cup Sub(U, M[c].right)
    BY <1>3 DEF Shape, Forks
  <2> QED
    BY <2>1 DEF Sub
<1>6. \A a \in T : /\ \A m \in Sub(U, M[a].left) : Before(sc, m, a)
                   /\ \A m \in Sub(U, M[a].right) : Before(sc, a, m)
  BY DEF Shape, Sorts, Sides, Toward
<1>7. \A m \in U[r] : Before(sc, n, m)
  BY <1>1, <1>2, <1>6 DEF Sub
<1>8. ASSUME NEW t \in T \ {n, c}
      PROVE  Before(sc, t, n) <=> Before(sc, t, c)
  <2>1. t \in Member /\ n \in Member /\ c \in Member
    BY <1>3
  <2>2. CASE t \notin U[n]
    <3>1. n \in U[n]
      BY <1>4
    <3> QED
      BY <2>2, <3>1, <1>3 DEF Shape, Convex
  <2>3. CASE t \in Sub(U, M[n].left)
    <3>1. Before(sc, t, n) /\ Before(sc, n, c)
      BY <2>3, <1>2, <1>6, <1>7
    <3> QED
      BY <3>1, <2>1, BeforeOrders
  <2>4. CASE t \in U[r]
    <3>1. Before(sc, n, t)
      BY <2>4, <1>7
    <3>2. Before(sc, c, t)
      <4>1. CASE t \in U[c]
        BY <4>1, <1>3, <1>5, <1>6
      <4>2. CASE t \notin U[c]
        BY <4>2, <2>4, <1>2, <1>3
      <4> QED
        BY <4>1, <4>2
    <3> QED
      BY <3>1, <3>2, <2>1, BeforeOrders
  <2> QED
    BY <2>2, <2>3, <2>4, <1>4
<1> QED
  BY <1>2, <1>3, <1>7, <1>8 DEF Adjacent
-----------------------------------------------------------------------------
(* The links that Attach, Detach and SwapWithVictim set. *)
LEMMA RelinkIs ==
  ASSUME NEW M \in Nodes, NEW p \in Member, NEW n, NEW c \in Link,
         \E s \in Sides : M[p][s] = n, M[p].left = n => M[p].right # n
  PROVE  /\ Relink(M, p, n, c) \in Nodes
         /\ \A t \in Sides : Relink(M, p, n, c)[p][t] = IF M[p][t] = n THEN c ELSE M[p][t]
         /\ \A m \in Member, t \in Sides : m # p => Relink(M, p, n, c)[m][t] = M[m][t]
         /\ \A m \in Member : Relink(M, p, n, c)[m].parent = M[m].parent
         /\ \A m \in Member : SameSizes(M, Relink(M, p, n, c), m)
<1>1. PICK s \in Sides : M[p][s] = n
  OBVIOUS
<1>2. PICK N : N = SetTo(M, p, s, c)
  OBVIOUS
<1>3. Relink(M, p, n, c) = N
  BY <1>1, <1>2 DEF Relink, SetTo, Sides
<1>4. N \in Nodes /\ N[p][s] = c /\ ButFor(M, N, p, s)
  <2>1. s \in Fields
    BY DEF Fields
  <2> QED
    BY <2>1, <1>2, SetLink, Zenon
<1>5. \A t \in Sides : t # s => M[p][t] # n
  BY <1>1 DEF Sides
<1>6. \A t \in Sides : N[p][t] = IF M[p][t] = n THEN c ELSE M[p][t]
  BY <1>1, <1>4, <1>5 DEF ButFor, Fields
<1>7. \A m \in Member, t \in Sides : m # p => N[m][t] = M[m][t]
  BY <1>4 DEF ButFor, Fields
<1>8. \A m \in Member : N[m].parent = M[m].parent
  <2>1. "parent" \in Fields /\ s # "parent"
    BY DEF Fields, Sides
  <2> QED
    BY <2>1, <1>4 DEF ButFor, Fields
<1>9. \A m \in Member : SameSizes(M, N, m)
  BY <1>4 DEF ButFor
<1> QED
  BY <1>3, <1>4, <1>6, <1>7, <1>8, <1>9

(* At its type, whatever the links are. *)
LEMMA RelinkType ==
  ASSUME NEW M \in Nodes, NEW p \in Member, NEW n, NEW c \in Link
  PROVE  Relink(M, p, n, c) \in Nodes
<1>1. \A s \in Sides : SetTo(M, p, s, c) \in Nodes
  BY SetLink DEF Fields
<1> QED
  BY <1>1 DEF Relink, SetTo, Sides

(* A child is on one side only. *)
LEMMA OneSide ==
  ASSUME NEW M \in Nodes, NEW sc \in Scores, NEW T, NEW top, NEW U, Shape(M, sc, T, top, U),
         NEW p \in T, M[p].left # Nil
  PROVE  M[p].right # M[p].left
<1>1. ApartAt(M, T, p, M[p]["left"], "left")
  BY AreApart DEF Sides
<1> QED
  BY <1>1 DEF ApartAt, Other

Taken(M, n) ==
  LET p == M[n].parent
      A == Adopt(M, M[n].left, p)
  IN IF p = Nil THEN A ELSE Relink(A, p, n, M[n].left)

(* What avl_del stores when it takes a node out. *)
LEMMA TakenIs ==
  ASSUME NEW M \in Nodes, NEW sc \in Scores, NEW T, NEW top, NEW U, Shape(M, sc, T, top, U),
         NEW n \in T, NEW N, N = Taken(M, n)
  PROVE  N \in Nodes /\ TakenOut(M, T, n, N) /\ \A m \in Member : SameSizes(M, N, m)
<1>1. PICK l : l = M[n].left
  OBVIOUS
<1>2. PICK p : p = M[n].parent
  OBVIOUS
<1>3. PICK A : A = Adopt(M, l, p)
  OBVIOUS
<1>4. N = IF p = Nil THEN A ELSE Relink(A, p, n, l)
  BY <1>1, <1>2, <1>3, Zenon DEF Taken
<1>5. T \subseteq Member /\ Nil \notin Member /\ l \in Link /\ p \in Link
  BY <1>1, <1>2, LinkIn, SortedSetAssumption DEF Shape, Sides
<1>6. A \in Nodes /\ Adopted(M, A, l, p)
  BY <1>3, <1>5, AdoptIs
<1>7. ASSUME NEW m \in T, NEW t \in Sides, M[m][t] = n
      PROVE  p = m
  BY <1>2, <1>5, <1>7, ChildOf
<1>8. CASE p = Nil
  <2>1. N = A
    BY <1>4, <1>8
  <2>2. \A m \in T, t \in Sides : M[m][t] # n
    BY <1>5, <1>7, <1>8
  <2>3. \A m \in T \ {n} : N[m].parent = IF m = l THEN p ELSE M[m].parent
    BY <2>1, <1>5, <1>6 DEF Adopted
  <2>4. \A m \in T \ {n}, t \in Sides : N[m][t] = IF M[m][t] = n THEN l ELSE M[m][t]
    BY <2>1, <2>2, <1>5, <1>6 DEF Adopted
  <2>5. TakenOut(M, T, n, N)
    BY <2>3, <2>4, <1>1, <1>2, Zenon DEF TakenOut
  <2> QED
    BY <2>1, <2>5, <1>6 DEF Adopted
<1>9. CASE p # Nil
  <2>1. N = Relink(A, p, n, l)
    BY <1>4, <1>9
  <2>2. n # top
    BY <1>2, <1>5, <1>9 DEF Shape, Rooted
  <2>3. p \in T /\ \E s \in Sides : M[p][s] = n
    BY <1>2, <2>2 DEF Shape, Hangs
  <2>4. \A m \in Member, t \in Sides : A[m][t] = M[m][t]
    BY <1>6 DEF Adopted
  <2>5. /\ p \in Member /\ \E s \in Sides : A[p][s] = n
        /\ A[p].left = n => A[p].right # n
    <3>1. A[p].left = M[p].left /\ A[p].right = M[p].right
      BY <2>3, <2>4, <1>5 DEF Sides
    <3>2. M[p].left = n => M[p].right # n
      BY <2>3, <1>5, OneSide
    <3> QED
      BY <3>1, <3>2, <2>3, <2>4, <1>5
  <2>6. /\ N \in Nodes
        /\ \A t \in Sides : N[p][t] = IF A[p][t] = n THEN l ELSE A[p][t]
        /\ \A m \in Member, t \in Sides : m # p => N[m][t] = A[m][t]
        /\ \A m \in Member : N[m].parent = A[m].parent
        /\ \A m \in Member : SameSizes(A, N, m)
    BY <2>1, <2>5, <1>5, <1>6, RelinkIs
  <2>7. \A m \in T \ {n} : N[m].parent = IF m = l THEN p ELSE M[m].parent
    BY <2>6, <1>5, <1>6 DEF Adopted
  <2>8. ASSUME NEW m \in T \ {n}, NEW t \in Sides
        PROVE  N[m][t] = IF M[m][t] = n THEN l ELSE M[m][t]
    <3>1. CASE m = p
      BY <3>1, <2>4, <2>5, <2>6
    <3>2. CASE m # p
      <4>1. M[m][t] # n
        BY <3>2, <1>7
      <4>2. m \in Member
        BY <1>5
      <4> QED
        BY <4>1, <4>2, <3>2, <2>4, <2>6
    <3> QED
      BY <3>1, <3>2
  <2>9. \A m \in T \ {n}, t \in Sides : N[m][t] = IF M[m][t] = n THEN l ELSE M[m][t]
    BY <2>8
  <2>10. TakenOut(M, T, n, N)
    BY <2>7, <2>9, <1>1, <1>2, Zenon DEF TakenOut
  <2>11. \A m \in Member : SameSizes(M, N, m)
    BY <2>6, <1>6 DEF Adopted, SameSizes
  <2> QED
    BY <2>6, <2>10, <2>11
<1> QED
  BY <1>8, <1>9

Swapped(M, n, v) ==
  LET p == M[n].parent
      A == Adopt(Adopt([M EXCEPT ![v] = M[n]], M[n].left, v), M[n].right, v)
  IN IF p = Nil THEN A ELSE Relink(A, p, n, v)

(* What it stores when the victim takes the place of n: types, in any tree ... *)
LEMMA SwappedType ==
  ASSUME NEW M \in Nodes, NEW n \in Member, NEW v \in Member
  PROVE  Swapped(M, n, v) \in Nodes
<1>1. PICK C : C = [M EXCEPT ![v] = M[n]]
  OBVIOUS
<1>2. PICK A : A = Adopt(Adopt(C, M[n].left, v), M[n].right, v)
  OBVIOUS
<1>3. C \in Nodes
  BY <1>1 DEF Nodes
<1>4. M[n].left \in Link /\ M[n].right \in Link /\ M[n].parent \in Link /\ v \in Link
  BY LinkIn DEF Sides, Link
<1>5. A \in Nodes
  BY <1>2, <1>3, <1>4, AdoptIs
<1>6. Swapped(M, n, v) = IF M[n].parent = Nil THEN A ELSE Relink(A, M[n].parent, n, v)
  BY <1>1, <1>2, Zenon DEF Swapped
<1>7. M[n].parent # Nil => Relink(A, M[n].parent, n, v) \in Nodes
  BY <1>4, <1>5, RelinkType DEF Link
<1> QED
  BY <1>5, <1>6, <1>7

(* ... and the renaming, in a sound one. *)
LEMMA SwappedIs ==
  ASSUME NEW M \in Nodes, NEW sc \in Scores, NEW T, NEW top, NEW U, Shape(M, sc, T, top, U),
         NEW n \in T, NEW v \in Member \ T, NEW N, N = Swapped(M, n, v)
  PROVE  /\ N \in Nodes /\ Renamed(M, T, n, v, N)
         /\ \A m \in T : N[Name(n, v, m)].depth = M[m].depth /\ N[Name(n, v, m)].count = M[m].count
         /\ M[n].parent = Nil <=> n = top
<1>1. PICK l : l = M[n].left
  OBVIOUS
<1>2. PICK r : r = M[n].right
  OBVIOUS
<1>3. PICK p : p = M[n].parent
  OBVIOUS
<1>4. PICK C : C = [M EXCEPT ![v] = M[n]]
  OBVIOUS
<1>5. PICK B : B = Adopt(C, l, v)
  OBVIOUS
<1>6. PICK A : A = Adopt(B, r, v)
  OBVIOUS
<1>7. N = IF p = Nil THEN A ELSE Relink(A, p, n, v)
  BY <1>1, <1>2, <1>3, <1>4, <1>5, <1>6, Zenon DEF Swapped
<1>8. T \subseteq Member /\ Nil \notin Member /\ l \in Link /\ r \in Link /\ p \in Link /\ n # v /\ v \in Link
  BY <1>1, <1>2, <1>3, LinkIn, SortedSetAssumption DEF Shape, Sides, Link
<1>9. /\ l # Nil => l \in T /\ l # n /\ M[l].parent = n
      /\ r # Nil => r \in T /\ r # n /\ M[r].parent = n
  BY <1>1, <1>2, ChildOf DEF Sides
<1>10. C \in Nodes /\ C[v] = M[n] /\ \A m \in Member \ {v} : C[m] = M[m]
  BY <1>4, <1>8 DEF Nodes
<1>11. B \in Nodes /\ Adopted(C, B, l, v)
  BY <1>5, <1>8, <1>10, AdoptIs
<1>12. A \in Nodes /\ Adopted(B, A, r, v)
  BY <1>6, <1>8, <1>11, AdoptIs
<1>13. p = Nil <=> n = top
  BY <1>3, <1>8 DEF Shape, Rooted, Hangs
<1>14. p # Nil => p \in T /\ p # n /\ \E s \in Sides : M[p][s] = n
  <2> SUFFICES ASSUME p # Nil PROVE p \in T /\ p # n /\ \E s \in Sides : M[p][s] = n
    OBVIOUS
  <2>1. p \in T /\ \E s \in Sides : M[p][s] = n
    BY <1>3, <1>13 DEF Shape, Hangs
  <2>2. p # n
    BY <2>1, <1>8, ChildOf
  <2> QED
    BY <2>1, <2>2
<1>15. /\ \A m \in Member, t \in Sides : A[m][t] = C[m][t]
       /\ \A m \in Member : SameSizes(C, A, m)
       /\ \A m \in Member : A[m].parent = IF m \in {l, r} THEN v ELSE C[m].parent
  BY <1>11, <1>12 DEF Adopted, SameSizes
<1>16. /\ N \in Nodes
       /\ \A m \in Member, t \in Sides : N[m][t] = IF m = p /\ A[m][t] = n THEN v ELSE A[m][t]
       /\ \A m \in Member : N[m].parent = A[m].parent
       /\ \A m \in Member : SameSizes(A, N, m)
  <2>1. CASE p = Nil
    BY <2>1, <1>7, <1>8, <1>12 DEF SameSizes
  <2>2. CASE p # Nil
    <3>1. p \in Member /\ p # v
      BY <2>2, <1>8, <1>14
    <3>2. \A t \in Sides : A[p][t] = M[p][t]
      BY <3>1, <1>10, <1>15
    <3>3. \E s \in Sides : A[p][s] = n
      BY <3>2, <2>2, <1>14
    <3>4. A[p].left = n => A[p].right # n
      <4>1. A[p].left = M[p].left /\ A[p].right = M[p].right
        BY <3>2 DEF Sides
      <4>2. M[p].left = n => M[p].right # n
        BY <2>2, <1>8, <1>14, OneSide
      <4> QED
        BY <4>1, <4>2
    <3>5. N = Relink(A, p, n, v)
      BY <2>2, <1>7
    <3> QED
      BY <3>1, <3>3, <3>4, <3>5, <1>8, <1>12, RelinkIs
  <2> QED
    BY <2>1, <2>2
<1>17. ASSUME NEW m \in T, NEW t \in Sides
       PROVE  N[Name(n, v, m)][t] = Name(n, v, M[m][t])
  <2>1. CASE m = n
    <3>1. Name(n, v, m) = v /\ v # p
      BY <2>1, <1>8, <1>14 DEF Name
    <3>2. N[v][t] = M[n][t]
      BY <3>1, <1>8, <1>10, <1>15, <1>16
    <3>3. M[n][t] # n
      BY <1>8, ChildOf
    <3> QED
      BY <2>1, <3>1, <3>2, <3>3 DEF Name
  <2>2. CASE m # n
    <3>1. Name(n, v, m) = m /\ m \in Member \ {v}
      BY <2>2, <1>8 DEF Name
    <3>2. A[m][t] = M[m][t]
      BY <3>1, <1>10, <1>15
    <3>3. M[m][t] = n => m = p
      BY <1>3, <1>8, ChildOf
    <3>4. N[m][t] = IF M[m][t] = n THEN v ELSE M[m][t]
      BY <3>1, <3>2, <3>3, <1>16
    <3> QED
      BY <3>1, <3>4 DEF Name
  <2> QED
    BY <2>1, <2>2
<1>18. ASSUME NEW m \in T
       PROVE  N[Name(n, v, m)].parent = Name(n, v, M[m].parent)
  <2>1. CASE m = n
    <3>1. Name(n, v, m) = v /\ v \notin {l, r} /\ p # n
      BY <2>1, <1>8, <1>9, <1>14 DEF Name
    <3>2. N[v].parent = p
      BY <3>1, <1>3, <1>10, <1>15, <1>16
    <3> QED
      BY <2>1, <3>1, <3>2, <1>3 DEF Name
  <2>2. CASE m # n
    <3>1. Name(n, v, m) = m /\ m \in Member \ {v}
      BY <2>2, <1>8 DEF Name
    <3>2. N[m].parent = IF m \in {l, r} THEN v ELSE M[m].parent
      BY <3>1, <1>10, <1>15, <1>16
    <3>3. m \in {l, r} <=> M[m].parent = n
      <4>1. m \in {l, r} => M[m].parent = n
        BY <1>8, <1>9
      <4>2. ASSUME M[m].parent = n
            PROVE  m \in {l, r}
        <5>1. m # top
          BY <4>2, <1>8 DEF Shape, Rooted
        <5>2. \E s \in Sides : M[n][s] = m
          BY <4>2, <5>1 DEF Shape, Hangs
        <5> QED
          BY <5>2, <1>1, <1>2 DEF Sides
      <4> QED
        BY <4>1, <4>2
    <3> QED
      BY <3>1, <3>2, <3>3 DEF Name
  <2> QED
    BY <2>1, <2>2
<1>19. ASSUME NEW m \in T
       PROVE  N[Name(n, v, m)].depth = M[m].depth /\ N[Name(n, v, m)].count = M[m].count
  <2>1. \A x \in Member : N[x].depth = C[x].depth /\ N[x].count = C[x].count
    BY <1>15, <1>16 DEF SameSizes
  <2>2. C[Name(n, v, m)] = M[m] /\ Name(n, v, m) \in Member
    BY <1>8, <1>10 DEF Name
  <2> QED
    BY <2>1, <2>2
<1> QED
  BY <1>3, <1>13, <1>16, <1>17, <1>18, <1>19 DEF Renamed

(* What tree_add stores. *)
LEMMA HungIs ==
  ASSUME NEW M \in Nodes, NEW c \in Member, NEW s \in Sides, NEW x \in Member, c # x,
         NEW N, N = [M EXCEPT ![x].parent = c, ![c][s] = x]
  PROVE  /\ N \in Nodes /\ \A m \in Member : SameSizes(M, N, m)
         /\ \A T \in SUBSET Member : x \notin T /\ M[x].left = Nil /\ M[x].right = Nil => HungOn(M, T, c, s, x, N)
<1>1. PICK P : P = SetTo(M, x, "parent", c)
  OBVIOUS
<1>2. PICK Q : Q = SetTo(P, c, s, x)
  OBVIOUS
<1>3. s \in Fields /\ "parent" \in Fields /\ s # "parent" /\ c \in Link /\ x \in Link
  BY DEF Fields, Sides, Link
<1>4. P \in Nodes /\ P[x]["parent"] = c /\ ButFor(M, P, x, "parent")
  BY <1>1, <1>3, SetLink, Zenon
<1>5. Q \in Nodes /\ Q[c][s] = x /\ ButFor(P, Q, c, s)
  BY <1>2, <1>3, <1>4, SetLink, Zenon
<1>9. N = Q
  BY <1>1, <1>2 DEF SetTo
<1>6. \A m \in Member : SameSizes(M, Q, m)
  BY <1>4, <1>5 DEF ButFor, SameSizes
<1>7. /\ \A m \in Member, t \in Sides : m # c \/ t # s => Q[m][t] = M[m][t]
      /\ \A m \in Member : m # x => Q[m].parent = M[m].parent
      /\ Q[x].parent = c
  <2>1. \A m \in Member, t \in Fields : m # x \/ t # "parent" => P[m][t] = M[m][t]
    BY <1>4 DEF ButFor, Fields
  <2>2. \A m \in Member, t \in Fields : m # c \/ t # s => Q[m][t] = P[m][t]
    BY <1>5 DEF ButFor, Fields
  <2>3. \A t \in Sides : t \in Fields /\ t # "parent"
    BY DEF Fields, Sides
  <2>4. \A m \in Member : Q[m]["parent"] = P[m]["parent"]
    BY <2>2, <1>3
  <2> QED
    BY <2>1, <2>2, <2>3, <2>4, <1>3, <1>4
<1>8. ASSUME NEW T \in SUBSET Member, x \notin T, M[x].left = Nil, M[x].right = Nil
      PROVE  HungOn(M, T, c, s, x, Q)
  <2>1. Q[x].left = Nil /\ Q[x].right = Nil
    BY <1>7, <1>8 DEF Sides
  <2> QED
    BY <2>1, <1>5, <1>7, <1>8 DEF HungOn
<1> QED
  BY <1>5, <1>6, <1>8, <1>9

-----------------------------------------------------------------------------
(* The invariant. *)
SetInv ==
  /\ TypeOK /\ Control
  /\ ~inner /\ pc # "dead" => \E U : TreeWith(U)

(* The empty set has it. *)
LEMMA InitInv == Init => SetInv
<1> SUFFICES ASSUME Init PROVE SetInv
  OBVIOUS
<1> USE DEF Init
<1>1. TypeOK
  <2>1. avl_init \in AVLNode
    BY DEF avl_init, AVLNode, Link
  <2>2. stack \in Seq(Member) /\ Len(stack) <= 3
    OBVIOUS
  <2> QED
    BY <2>1, <2>2 DEF TypeOK, NoArg, Link
<1>2. Control
  BY SortedSetAssumption DEF Control, NoArg
<1>3. TreeWith([m \in Member |-> {}])
  <2>1. Held = {} /\ Top = Nil
    BY DEF Held, Top
  <2>2. Shape(mem, score, {}, Nil, [m \in Member |-> {}])
    BY DEF Shape, Rooted, Sub, Forks, Points, Sorts, Hangs, Nests, Convex, Link
  <2> QED
    BY <2>1, <2>2 DEF TreeWith
<1> QED
  BY <1>1, <1>2, <1>3 DEF SetInv

(* What the type says of the current state. *)
LEMMA StateTypes ==
  ASSUME TypeOK
  PROVE  mem \in Nodes /\ score \in Scores /\ Nil \notin Member
<1>1. score \in [Member -> Score \cup {0}] /\ Score \cup {0} \subseteq Int
  BY SortedSetAssumption DEF TypeOK
<1>2. score \in [Member -> Int]
  BY <1>1
<1> QED
  BY <1>2, SortedSetAssumption DEF TypeOK, Nodes, Scores

(* The top of the stack. *)
LEMMA StackType ==
  ASSUME NEW S, NEW s \in Seq(S), s # <<>>
  PROVE  /\ Len(s) \in Nat \ {0} /\ Last(s) = s[Len(s)] /\ Last(s) \in S
         /\ Len(s) = 1 => Last(s) = s[1]
<1>1. Len(s) \in Nat \ {0}
  BY EmptySeq, LenProperties
<1>2. Last(s) = s[Len(s)]
  BY DEF Last
<1> QED
  BY <1>1, <1>2
-----------------------------------------------------------------------------
(* Every action keeps it. *)
LEMMA AddNewStep ==
  ASSUME SetInv, NEW m \in Member, NEW s \in Score, AddNew(m, s)
  PROVE  SetInv'
<1> USE DEF AddNew, Idle
<1>1. TypeOK /\ Control /\ mem \in Nodes /\ score \in Scores /\ Nil \notin Member
  BY StateTypes DEF SetInv
<1>2. stack = <<>> /\ node \notin Member
  BY <1>1 DEF Control
<1>3. TypeOK'
  <2>1. avl_init \in AVLNode
    BY DEF avl_init, AVLNode, Link
  <2> QED
    BY <2>1, <1>1 DEF TypeOK, Link
<1>4. Control'
  <2>1. mem'[m] = avl_init
    BY <1>1 DEF TypeOK
  <2> QED
    BY <2>1, <1>1, <1>2 DEF Control
<1>5. PICK U : TreeWith(U)
  BY DEF SetInv
<1>6. Held = members /\ Top = tree /\ Held' = members /\ Top' = tree
  BY <1>2 DEF Held, Top
<1>7. Shape(mem, score, members, tree, U) /\ \A n \in members : Exact(mem, U, n)
  BY <1>5, <1>6 DEF TreeWith
<1>8. \A n \in members : mem'[n] = mem[n] /\ score'[n] = score[n]
  BY <1>1 DEF TypeOK
<1>9. Shape(mem', score', members, tree, U) /\ \A n \in members : Exact(mem', U, n)
  <2>1. PICK N : N = mem'
    OBVIOUS
  <2>2. PICK sd : sd = score'
    OBVIOUS
  <2>3. Shape(N, sd, members, tree, U) /\ \A n \in members : Exact(N, U, n)
    <3>1. \A n \in members : N[n] = mem[n] /\ sd[n] = score[n]
      BY <1>8, <2>1, <2>2
    <3> HIDE DEF AddNew, Idle
    <3> QED
      BY <1>1, <1>7, <3>1, OutsideSame
  <2> QED
    BY <2>1, <2>2, <2>3
<1>10. TreeWith(U)'
  BY <1>6, <1>9 DEF TreeWith, Fits
<1> QED
  BY <1>3, <1>4, <1>10 DEF SetInv

(* avl_del begins. *)
LEMMA StartDelStep ==
  ASSUME SetInv, NEW m \in Member, NEW s \in Score \cup {0}, NEW pop \in BOOLEAN, StartDel(m, s, pop)
  PROVE  SetInv'
<1> USE DEF StartDel, Idle
<1>1. TypeOK /\ Control
  BY DEF SetInv
<1>2. stack = <<>> /\ node \notin Member
  BY <1>1 DEF Control
<1>3. stack' \in Seq(Member) /\ Len(stack') = 1 /\ stack'[1] = m /\ stack' # <<>>
  OBVIOUS
<1>4. TypeOK'
  BY <1>1, <1>3 DEF TypeOK, Link
<1>5. Control'
  BY <1>1, <1>2, <1>3 DEF Control
<1>6. PICK U : TreeWith(U)
  BY DEF SetInv
<1>7. Held = members /\ Top = tree /\ Held' = members /\ Top' = tree
  BY <1>2 DEF Held, Top
<1>8. TreeWith(U)'
  BY <1>6, <1>7 DEF TreeWith
<1> QED
  BY <1>4, <1>5, <1>8 DEF SetInv

(* Where tree_add looks. *)
LEMMA FromType ==
  ASSUME TypeOK, Control, pc = "descend"
  PROVE  /\ arg.m \in Member /\ From \in Link
         /\ node # Nil => node \in Member /\ Side(arg.m, node) \in Sides
<1>1. arg.m \in Member /\ node \in Link
  BY DEF Control, TypeOK
<1>2. \A x, n : Side(x, n) \in Sides
  BY DEF Side, Sides
<1> QED
  BY <1>1, <1>2, StateTypes, LinkIn DEF From, TypeOK, Link

(* The side tree_add takes at node. *)
LEMMA SideIs ==
  ASSUME TypeOK, NEW x \in Member, NEW n \in Member, x # n
  PROVE  Toward(score, Side(x, n), x, n)
BY StateTypes, ZlessIsBefore, BeforeOrders DEF Side, Toward

(* The node still fits under the cursor. *)
LEMMA DescendStep ==
  ASSUME SetInv, Descend
  PROVE  SetInv'
<1> USE DEF Descend
<1>1. TypeOK /\ Control /\ mem \in Nodes /\ score \in Scores /\ Nil \notin Member
  BY StateTypes DEF SetInv
<1>2. arg.m \in Member /\ From \in Link /\ (node # Nil => node \in Member /\ Side(arg.m, node) \in Sides)
  BY <1>1, FromType
<1>3. TypeOK'
  BY <1>1, <1>2 DEF TypeOK
<1>4. Control'
  BY <1>1 DEF Control
<1>5. ASSUME ~inner
      PROVE  \E U : TreeWith(U)'
  <2>1. PICK U : TreeWith(U)
    BY <1>5 DEF SetInv
  <2>2. PICK T : T = Held
    OBVIOUS
  <2>3. PICK x : x = arg.m
    OBVIOUS
  <2>4. Shape(mem, score, T, tree, U) /\ Fits(score, T, U, node, x) /\ T = members \ {x}
        /\ \A n \in T : Exact(mem, U, n)
    BY <2>1, <2>2, <2>3 DEF TreeWith, Held, Top
  <2>5. Fits(score, T, U, From, x)
    <3>1. CASE node = Nil
      <4>1. tree # Nil /\ From = tree
        BY <3>1 DEF From
      <4>2. tree \in T /\ U[tree] = T
        BY <2>4, <4>1 DEF Shape, Rooted, Sub
      <4> QED
        BY <4>1, <4>2 DEF Fits
    <3>2. CASE node # Nil
      <4>1. node \in T /\ node # x
        BY <2>4, <3>2 DEF Fits
      <4>2. PICK s : s = Side(x, node)
        OBVIOUS
      <4>3. s \in Sides /\ From = mem[node][s] /\ Toward(score, s, x, node)
        BY <1>1, <1>2, <2>3, <3>2, <4>1, <4>2, SideIs DEF From
      <4> QED
        BY <4>1, <4>3, <1>1, <1>2, <2>3, <2>4, FitsDown
    <3> QED
      BY <3>1, <3>2
  <2>6. Held' = T /\ Top' = tree
    BY <2>2 DEF Held, Top
  <2>7. TreeWith(U)'
    BY <2>3, <2>4, <2>5, <2>6 DEF TreeWith
  <2> QED
    BY <2>7
<1> QED
  BY <1>3, <1>4, <1>5 DEF SetInv

(* A new leaf, where avl_fix begins. *)
LEMMA AttachStep ==
  ASSUME SetInv, Attach
  PROVE  SetInv'
<1>1. TypeOK /\ Control /\ mem \in Nodes /\ score \in Scores /\ Nil \notin Member /\ pc = "descend"
  BY StateTypes DEF SetInv, Attach
<1>2. /\ arg.m \in Member /\ node \in Link /\ stack = <<>> /\ arg.m \in members /\ members \subseteq Member
      /\ mem[arg.m] = avl_init
      /\ (node # Nil => node \in Member /\ Side(arg.m, node) \in Sides)
  BY <1>1, FromType DEF Control, TypeOK
<1>3. PICK x : x = arg.m
  OBVIOUS
<1>4. PICK s : s = Side(x, node)
  OBVIOUS
<1>5. PICK N : N = mem'
  OBVIOUS
<1>6. PICK T : T = members \ {x}
  OBVIOUS
<1>7. PICK tip : tip = tree'
  OBVIOUS
<1>8. /\ From = Nil /\ pc' = "fix" /\ node' = x
      /\ UNCHANGED <<members, score, arg, stack, root, inner>>
      /\ IF node = Nil THEN tip = x /\ N = mem
         ELSE N = [mem EXCEPT ![x].parent = node, ![node][s] = x] /\ tip = tree
  BY <1>3, <1>4, <1>5, <1>7 DEF Attach
<1>9. x \in Member /\ x \in members /\ x # Nil /\ mem[x].left = Nil /\ mem[x].right = Nil
      /\ mem[x].parent = Nil
  BY <1>1, <1>2, <1>3 DEF avl_init
<1>10. N \in Nodes
  <2>1. node # Nil => [mem EXCEPT ![x].parent = node, ![node][s] = x] \in Nodes
    <3> SUFFICES ASSUME node # Nil PROVE [mem EXCEPT ![x].parent = node, ![node][s] = x] \in Nodes
      OBVIOUS
    <3>1. PICK Q : Q = SetTo(mem, x, "parent", node)
      OBVIOUS
    <3>2. s \in Fields /\ "parent" \in Fields /\ node \in Member /\ x \in Link
      BY <1>2, <1>3, <1>4, <1>9 DEF Fields, Link
    <3>3. Q \in Nodes
      BY <3>1, <3>2, <1>1, <1>2, <1>9, SetLink
    <3>4. SetTo(Q, node, s, x) \in Nodes
      BY <3>2, <3>3, SetLink
    <3> QED
      BY <3>1, <3>4 DEF SetTo
  <2> QED
    BY <2>1, <1>1, <1>8
<1>11. TypeOK'
  <2>1. tip \in Link
    BY <1>1, <1>8, <1>9 DEF TypeOK, Link
  <2> QED
    BY <2>1, <1>1, <1>5, <1>7, <1>8, <1>9, <1>10 DEF TypeOK, Nodes, Link
<1>12. Control'
  BY <1>1, <1>2, <1>3, <1>8, <1>9 DEF Control
<1>13. ASSUME ~inner
       PROVE  \E V : TreeWith(V)'
  <2>1. PICK U : TreeWith(U)
    BY <1>1, <1>13 DEF SetInv
  <2>2. Shape(mem, score, T, tree, U) /\ Fits(score, T, U, node, x) /\ \A n \in T : Exact(mem, U, n)
    BY <2>1, <1>1, <1>3, <1>6 DEF TreeWith, Held, Top
  <2>3. x \notin T /\ T \cup {x} = members /\ T \subseteq Member
    BY <1>2, <1>6, <1>9
  <2>4. \E V : Shape(N, score, members, tip, V) /\ Mending(N, members, V, x)
    <3>1. CASE node = Nil
      <4>1. T = {} /\ N = mem /\ tip = x
        BY <3>1, <2>2, <1>8 DEF From, Shape, Rooted, Sub
      <4>2. members = {x}
        BY <4>1, <2>3
      <4>3. PICK V : V = [a \in Member |-> {x}]
        OBVIOUS
      <4>4. V \in [Member -> SUBSET Member] /\ V[x] = {x}
        BY <4>3, <1>9
      <4>5. Shape(N, score, {x}, x, V)
        BY <4>1, <4>4, <1>1, <1>9, LeafShape
      <4>6. Mending(N, {x}, V, x)
        <5>1. N[x].left = Nil /\ N[x].right = Nil /\ x \in V[x] /\ N \in Nodes
          BY <4>1, <4>4, <1>9, <1>10
        <5> QED
          BY <5>1, <1>9, LeafMends
      <4> QED
        BY <4>1, <4>2, <4>5, <4>6
    <3>2. CASE node # Nil
      <4>1. node \in T /\ node # x /\ node \in Member /\ s \in Sides
        BY <3>2, <2>2, <2>3, <1>2, <1>3, <1>4 DEF Fits
      <4>2. mem[node][s] = Nil
        BY <3>2, <1>3, <1>4, <1>8 DEF From
      <4>3. Toward(score, s, x, node)
        BY <4>1, <1>1, <1>4, <1>9, SideIs
      <4>4. N = [mem EXCEPT ![x].parent = node, ![node][s] = x] /\ tip = tree
        BY <3>2, <1>8
      <4>5. HungOn(mem, T, node, s, x, N) /\ \A m \in Member : SameSizes(mem, N, m)
        BY <4>1, <4>4, <2>3, <1>1, <1>9, HungIs
      <4>6. Shape(N, score, T \cup {x}, tree, Grown(U, node, x))
        BY <4>1, <4>2, <4>3, <4>5, <2>2, <2>3, <1>1, <1>9, <1>10, HungShape
      <4>7. Mending(N, T \cup {x}, Grown(U, node, x), x)
        BY <4>1, <4>2, <4>5, <2>2, <2>3, <1>1, <1>9, <1>10, HungMends
      <4> QED
        BY <4>4, <4>6, <4>7, <2>3
    <3> QED
      BY <3>1, <3>2
  <2>5. PICK V : Shape(N, score, members, tip, V) /\ Mending(N, members, V, x)
    BY <2>4
  <2>6. Held' = members /\ Top' = tip
    BY <1>2, <1>7, <1>8 DEF Held, Top
  <2>7. TreeWith(V)'
    BY <2>5, <2>6, <1>5, <1>8, <1>9 DEF TreeWith
  <2> QED
    BY <2>7
<1> QED
  BY <1>8, <1>11, <1>12, <1>13 DEF SetInv

(* One iteration of avl_fix. *)
LEMMA FixUpStep ==
  ASSUME SetInv, FixUp
  PROVE  SetInv'
<1>1. TypeOK /\ Control /\ mem \in Nodes /\ score \in Scores /\ Nil \notin Member /\ pc = "fix"
  BY StateTypes DEF SetInv, FixUp
<1>2. node \in Member /\ arg.m \in members /\ stack \in Seq(Member)
  BY <1>1 DEF Control, TypeOK
<1>3. PICK p : p = mem[node].parent
  OBVIOUS
<1>4. PICK N : N = Fixed(node).mem
  OBVIOUS
<1>5. PICK tip : tip = Fixed(node).top
  OBVIOUS
<1>6. N \in Nodes /\ tip \in Member /\ p \in Link
  BY <1>1, <1>2, <1>3, <1>4, <1>5, FixedType, LinkIn DEF Sides
<1>7. /\ mem' = N /\ inner' = (inner \/ (p # Nil /\ tip # node))
      /\ UNCHANGED <<members, score, stack>>
  BY <1>3, <1>4, <1>5 DEF FixUp
<1>8. p # Nil => node' = p /\ UNCHANGED <<tree, root, pc, arg>>
  BY <1>3 DEF FixUp
<1>9. p = Nil => /\ node' = Nil
                 /\ stack = <<>> => tree' = tip /\ pc' = "idle" /\ arg' = NoArg /\ UNCHANGED root
                 /\ stack # <<>> => root' = tip /\ pc' = "unwind" /\ UNCHANGED <<tree, arg>>
  BY <1>3, <1>5 DEF FixUp
<1>10. NoArg \in [m : Link, score : Score \cup {0}, pop : BOOLEAN]
  BY DEF NoArg, Link
<1>11. TypeOK'
  <2>1. mem' \in [Member -> AVLNode] /\ inner' \in BOOLEAN
    BY <1>1, <1>6, <1>7 DEF TypeOK, Nodes
  <2>2. CASE p # Nil
    BY <2>1, <2>2, <1>1, <1>6, <1>7, <1>8 DEF TypeOK
  <2>3. CASE p = Nil /\ stack = <<>>
    BY <2>1, <2>3, <1>1, <1>6, <1>7, <1>9, <1>10 DEF TypeOK, Link
  <2>4. CASE p = Nil /\ stack # <<>>
    BY <2>1, <2>4, <1>1, <1>6, <1>7, <1>9 DEF TypeOK, Link
  <2> QED
    BY <2>2, <2>3, <2>4
<1>12. Control'
  <2>2. CASE p # Nil
    <3>1. node' \in Member
      BY <2>2, <1>6, <1>8 DEF Link
    <3> QED
      BY <3>1, <2>2, <1>1, <1>7, <1>8 DEF Control
  <2>3. CASE p = Nil /\ stack = <<>>
    BY <2>3, <1>1, <1>7, <1>9 DEF Control
  <2>4. CASE p = Nil /\ stack # <<>>
    BY <2>4, <1>1, <1>7, <1>9 DEF Control
  <2> QED
    BY <2>2, <2>3, <2>4
<1>13. ASSUME ~inner'
       PROVE  \E V : TreeWith(V)'
  <2>1. ~inner /\ (p # Nil => tip = node)
    BY <1>7, <1>13
  <2>2. PICK U : TreeWith(U)
    BY <2>1, <1>1 DEF SetInv
  <2>3. PICK T : T = Held
    OBVIOUS
  <2>4. Shape(mem, score, T, tree, U) /\ node \in T /\ Mending(mem, T, U, node)
    BY <2>2, <2>3, <1>1 DEF TreeWith, Top
  <2>5. /\ p # Nil => p \in T /\ Shape(N, score, T, tree, U) /\ Mending(N, T, U, p)
        /\ p = Nil => Balanced(N, score, T, tip)
    BY <2>1, <2>4, <1>1, <1>3, <1>4, <1>5, FixedTree
  <2>6. CASE p # Nil
    <3>1. Held' = T /\ Top' = tree
      BY <2>3, <2>6, <1>1, <1>7, <1>8 DEF Held, Top
    <3>2. TreeWith(U)'
      BY <3>1, <2>5, <2>6, <1>1, <1>7, <1>8 DEF TreeWith
    <3> QED
      BY <3>2
  <2>7. CASE p = Nil
    <3>1. Held' = T /\ Top' = tip
      BY <2>3, <2>7, <1>1, <1>7, <1>9 DEF Held, Top
    <3>2. PICK V : Shape(N, score, T, tip, V) /\ \A m \in T : Exact(N, V, m)
      BY <2>5, <2>7 DEF Balanced
    <3>3. pc' \in {"idle", "unwind"}
      BY <2>7, <1>9
    <3>4. TreeWith(V)'
      BY <3>1, <3>2, <3>3, <1>7 DEF TreeWith
    <3> QED
      BY <3>4
  <2> QED
    BY <2>6, <2>7
<1> QED
  BY <1>11, <1>12, <1>13 DEF SetInv

(* The node without a right child goes. *)
LEMMA DetachStep ==
  ASSUME SetInv, Detach
  PROVE  SetInv'
<1>1. TypeOK /\ Control /\ mem \in Nodes /\ score \in Scores /\ Nil \notin Member
      /\ pc = "del" /\ ~inner /\ stack # <<>>
  BY StateTypes DEF SetInv, Detach, Control
<1>2. PICK n : n = Last(stack)
  OBVIOUS
<1>3. PICK N : N = Taken(mem, n)
  OBVIOUS
<1>4. n \in Member /\ n \in members /\ members \subseteq Member /\ arg.m \in members
  <2>1. Len(stack) \in Nat \ {0} /\ n = stack[Len(stack)] /\ n \in Member
    BY <1>1, <1>2, StackType DEF TypeOK
  <2> QED
    BY <2>1, <1>1 DEF Control, TypeOK
<1>5. mem[n].right = Nil /\ mem[n].left \in Link /\ mem[n].parent \in Link
  BY <1>1, <1>2, <1>4, LinkIn DEF Detach, Sides
<1>6. /\ mem' = N /\ UNCHANGED <<members, tree, score, arg, stack, inner>>
      /\ IF mem[n].parent = Nil THEN root' = mem[n].left /\ pc' = "unwind" /\ node' = node
         ELSE node' = mem[n].parent /\ pc' = "fix" /\ root' = root
  BY <1>2, <1>3 DEF Detach, Taken
<1>7. PICK U : TreeWith(U)
  BY <1>1 DEF SetInv
<1>8. Shape(mem, score, members, tree, U) /\ \A m \in members : Exact(mem, U, m)
  BY <1>1, <1>7 DEF TreeWith, Held, Top
<1>9. N \in Nodes /\ TakenOut(mem, members, n, N) /\ \A m \in Member : SameSizes(mem, N, m)
  BY <1>1, <1>3, <1>4, <1>8, TakenIs
<1>10. PICK V : V = Without(U, n)
  OBVIOUS
<1>11. Shape(N, score, members \ {n}, IF n = tree THEN mem[n].left ELSE tree, V)
  BY <1>1, <1>4, <1>5, <1>8, <1>9, <1>10, TakenOutShape
<1>12. /\ mem[n].parent # Nil => /\ mem[n].parent \in members \ {n}
                                 /\ Mending(N, members \ {n}, V, mem[n].parent)
       /\ mem[n].parent = Nil => n = tree /\ \A m \in members \ {n} : Exact(N, V, m)
  <2>1. mem[n].parent # Nil => /\ mem[n].parent \in members \ {n}
                               /\ Mending(N, members \ {n}, Without(U, n), mem[n].parent)
    BY <1>1, <1>4, <1>5, <1>8, <1>9, TakenOutMends
  <2>2. mem[n].parent = Nil => n = tree /\ \A m \in members \ {n} : Exact(N, Without(U, n), m)
    BY <1>1, <1>4, <1>5, <1>8, <1>9, TakenOutMends
  <2> QED
    BY <2>1, <2>2, <1>10
<1>13. TypeOK'
  <2>1. mem' \in [Member -> AVLNode] /\ node' \in Link /\ root' \in Link /\ pc' \in {"unwind", "fix"}
    BY <1>1, <1>5, <1>6, <1>9 DEF TypeOK, Nodes
  <2> QED
    BY <2>1, <1>1, <1>6 DEF TypeOK
<1>14. Control'
  <2>1. CASE mem[n].parent = Nil
    BY <2>1, <1>1, <1>6 DEF Control
  <2>2. CASE mem[n].parent # Nil
    BY <2>2, <1>1, <1>4, <1>6, <1>12 DEF Control
  <2> QED
    BY <2>1, <2>2
<1>15. Held' = members \ {n}
  BY <1>1, <1>2, <1>6 DEF Held
<1>16. TreeWith(V)'
  <2>1. CASE mem[n].parent = Nil
    <3>1. n = tree /\ Top' = mem[n].left /\ pc' = "unwind"
      BY <2>1, <1>6, <1>12 DEF Top
    <3> QED
      BY <3>1, <2>1, <1>6, <1>11, <1>12, <1>15 DEF TreeWith
  <2>2. CASE mem[n].parent # Nil
    <3>1. n # tree
      BY <2>2, <1>1, <1>4, <1>8 DEF Shape, Rooted
    <3>2. Top' = tree /\ pc' = "fix" /\ node' = mem[n].parent
      BY <2>2, <1>6 DEF Top
    <3> QED
      BY <3>1, <3>2, <2>2, <1>6, <1>11, <1>12, <1>15 DEF TreeWith
  <2> QED
    BY <2>1, <2>2
<1> QED
  BY <1>13, <1>14, <1>16 DEF SetInv

(* The search for the successor begins ... *)
LEMMA SeekRightStep ==
  ASSUME SetInv, SeekRight
  PROVE  SetInv'
<1>1. TypeOK /\ Control /\ mem \in Nodes /\ score \in Scores /\ Nil \notin Member
      /\ pc = "del" /\ ~inner /\ stack # <<>>
  BY StateTypes DEF SetInv, SeekRight, Control
<1>2. PICK n : n = Last(stack)
  OBVIOUS
<1>3. PICK r : r = mem[n].right
  OBVIOUS
<1>4. n \in Member /\ n \in members /\ Len(stack) \in Nat
  <2>1. Len(stack) \in Nat \ {0} /\ n = stack[Len(stack)] /\ n \in Member
    BY <1>1, <1>2, StackType DEF TypeOK
  <2> QED
    BY <2>1, <1>1 DEF Control
<1>5. /\ r # Nil /\ node' = r /\ pc' = "seek"
      /\ UNCHANGED <<members, tree, mem, score, arg, stack, root, inner>>
  BY <1>2, <1>3 DEF SeekRight
<1>6. r \in Link /\ r \in Member
  BY <1>1, <1>3, <1>4, <1>5, LinkIn DEF Link, Sides
<1>7. PICK U : TreeWith(U)
  BY <1>1 DEF SetInv
<1>8. Shape(mem, score, members, tree, U) /\ \A m \in members : Exact(mem, U, m)
  BY <1>1, <1>7 DEF TreeWith, Held, Top
<1>9. r \in members /\ r \in U[r]
  <2>1. "right" \in Sides /\ mem[n]["right"] = r
    BY <1>3 DEF Sides
  <2> QED
    BY <2>1, <1>1, <1>4, <1>5, <1>8, SubtreeForks
<1>10. TypeOK'
  BY <1>1, <1>5, <1>6 DEF TypeOK
<1>11. Len(stack) < 3 /\ (Len(stack) = 2 => mem[r].left = Nil /\ mem[r].right = Nil)
  <2>1. /\ Len(stack) > 1 => mem[n].left = Nil
        /\ Len(stack) > 2 => mem[n].right = Nil
    BY <1>1, <1>2 DEF Control
  <2>2. mem[n].left = Nil => mem[r].left = Nil /\ mem[r].right = Nil
    BY <1>1, <1>3, <1>4, <1>5, <1>8, LeafRight
  <2>3. Len(stack) > 2 => FALSE
    BY <2>1, <1>3, <1>5
  <2>4. Len(stack) = 2 => Len(stack) > 1
    OBVIOUS
  <2>5. Len(stack) < 3
    BY <2>3, <1>4
  <2> QED
    BY <2>1, <2>2, <2>4, <2>5
<1>12. Control'
  BY <1>1, <1>5, <1>6, <1>11 DEF Control
<1>13. Seeking(mem, score, U, r, r)
  BY <1>5, <1>9 DEF Seeking
<1>14. TreeWith(U)'
  <2>1. Held' = members /\ Top' = tree
    BY <1>5 DEF Held, Top
  <2> QED
    BY <2>1, <1>2, <1>3, <1>5, <1>8, <1>13 DEF TreeWith
<1> QED
  BY <1>10, <1>12, <1>14 DEF SetInv

(* ... goes left ... *)
LEMMA SeekLeftStep ==
  ASSUME SetInv, SeekLeft
  PROVE  SetInv'
<1>1. TypeOK /\ Control /\ mem \in Nodes /\ score \in Scores /\ Nil \notin Member
      /\ pc = "seek" /\ ~inner /\ stack # <<>> /\ node \in Member
  BY StateTypes DEF SetInv, SeekLeft, Control
<1>2. PICK n : n = Last(stack)
  OBVIOUS
<1>3. PICK l : l = mem[node].left
  OBVIOUS
<1>4. n \in Member /\ n \in members /\ Len(stack) \in Nat
  <2>1. Len(stack) \in Nat \ {0} /\ n = stack[Len(stack)] /\ n \in Member
    BY <1>1, <1>2, StackType DEF TypeOK
  <2> QED
    BY <2>1, <1>1 DEF Control
<1>5. /\ l # Nil /\ node' = l
      /\ UNCHANGED <<members, tree, mem, score, pc, arg, stack, root, inner>>
  BY <1>3 DEF SeekLeft
<1>6. l \in Link /\ l \in Member
  BY <1>1, <1>3, <1>5, LinkIn DEF Link, Sides
<1>7. PICK U : TreeWith(U)
  BY <1>1 DEF SetInv
<1>8. PICK r : r = mem[n].right
  OBVIOUS
<1>9. Shape(mem, score, members, tree, U) /\ (\A m \in members : Exact(mem, U, m))
      /\ Seeking(mem, score, U, r, node)
  BY <1>1, <1>2, <1>7, <1>8 DEF TreeWith, Held, Top
<1>10. r \in members
  <2>1. "right" \in Sides /\ mem[n]["right"] = r /\ r # Nil
    BY <1>8, <1>9 DEF Sides, Seeking
  <2> QED
    BY <2>1, <1>1, <1>4, <1>9, SubtreeForks
<1>11. Seeking(mem, score, U, r, l)
  BY <1>1, <1>3, <1>5, <1>9, <1>10, SeekDown
<1>12. TypeOK'
  BY <1>1, <1>5, <1>6 DEF TypeOK
<1>13. Len(stack) < 3 /\ Len(stack) # 2
  BY <1>1, <1>3, <1>5 DEF Control
<1>14. Control'
  BY <1>1, <1>5, <1>6, <1>13 DEF Control
<1>15. TreeWith(U)'
  <2>1. Held' = members /\ Top' = tree
    BY <1>1, <1>5 DEF Held, Top
  <2> QED
    BY <2>1, <1>1, <1>2, <1>5, <1>8, <1>9, <1>11 DEF TreeWith
<1> QED
  BY <1>12, <1>14, <1>15 DEF SetInv

(* ... and ends at the node that is next in the order. *)
LEMMA DelVictimStep ==
  ASSUME SetInv, DelVictim
  PROVE  SetInv'
<1>1. TypeOK /\ Control /\ mem \in Nodes /\ score \in Scores /\ Nil \notin Member
      /\ pc = "seek" /\ ~inner /\ stack # <<>> /\ node \in Member
  BY StateTypes DEF SetInv, DelVictim, Control
<1>2. PICK n : n = Last(stack)
  OBVIOUS
<1>3. PICK k : k = Len(stack)
  OBVIOUS
<1>4. PICK r : r = stack'
  OBVIOUS
<1>5. /\ mem[node].left = Nil /\ r = Append(stack, node) /\ node' = Nil /\ pc' = "del"
      /\ UNCHANGED <<members, tree, mem, score, arg, root, inner>>
  BY <1>4 DEF DelVictim
<1>6. k \in Nat \ {0} /\ n = stack[k] /\ n \in Member /\ stack \in Seq(Member) /\ k < 3
      /\ (k = 2 => mem[node].right = Nil)
  BY <1>1, <1>2, <1>3, StackType DEF TypeOK, Control
<1>7. /\ r \in Seq(Member) /\ Len(r) = k + 1 /\ r # <<>> /\ r[k + 1] = node
      /\ \A i \in 1..k : r[i] = stack[i]
  BY <1>1, <1>3, <1>5, <1>6, AppendProperties
<1>8. Last(r) = node
  BY <1>6, <1>7, StackType
<1>9. n \in members
  BY <1>1, <1>3, <1>6 DEF Control
<1>10. PICK U : TreeWith(U)
  BY <1>1 DEF SetInv
<1>11. Shape(mem, score, members, tree, U) /\ (\A m \in members : Exact(mem, U, m))
       /\ Seeking(mem, score, U, mem[n].right, node)
  BY <1>1, <1>2, <1>10 DEF TreeWith, Held, Top
<1>12. node \in members /\ Adjacent(score, members, n, node)
  BY <1>1, <1>5, <1>9, <1>11, SeekFinds
<1>13. TypeOK'
  <2>1. stack' \in Seq(Member) /\ Len(stack') <= 3
    BY <1>4, <1>6, <1>7
  <2> QED
    BY <2>1, <1>1, <1>5 DEF TypeOK, Link
<1>14. Control'
  <2>1. stack' # <<>> /\ stack'[1] = arg.m
    BY <1>1, <1>4, <1>6, <1>7 DEF Control
  <2>2. \A i \in 1..Len(stack') : stack'[i] \in members
    <3>1. \A i \in 1..k : stack[i] \in members
      BY <1>1, <1>3 DEF Control
    <3> QED
      BY <3>1, <1>4, <1>6, <1>7, <1>12
  <2>3. \A i \in 1..Len(stack') - 1 : Adjacent(score, members, stack'[i], stack'[i + 1])
    <3>1. \A i \in 1..k - 1 : Adjacent(score, members, stack[i], stack[i + 1])
      BY <1>1, <1>3 DEF Control
    <3>2. ASSUME NEW i \in 1..k
          PROVE  Adjacent(score, members, r[i], r[i + 1])
      <4>1. CASE i = k
        BY <4>1, <1>6, <1>7, <1>12
      <4>2. CASE i # k
        <5>1. i \in 1..k - 1 /\ i + 1 \in 1..k
          BY <4>2, <1>6
        <5> QED
          BY <5>1, <3>1, <1>7
      <4> QED
        BY <4>1, <4>2
    <3>3. Len(r) - 1 = k
      BY <1>6, <1>7
    <3> QED
      BY <3>2, <3>3, <1>4
  <2>4. Last(stack') = node /\ (Len(stack') > 2 => mem[node].right = Nil)
    BY <1>4, <1>6, <1>7, <1>8
  <2> QED
    BY <2>1, <2>2, <2>3, <2>4, <1>1, <1>5 DEF Control
<1>15. TreeWith(U)'
  <2>1. Held' = members /\ Top' = tree
    BY <1>5 DEF Held, Top
  <2> QED
    BY <2>1, <1>5, <1>11 DEF TreeWith
<1> QED
  BY <1>13, <1>14, <1>15 DEF SetInv

(* The victim takes the place of the deleted node. *)
LEMMA SwapStep ==
  ASSUME SetInv, SwapWithVictim
  PROVE  SetInv'
<1>1. TypeOK /\ Control /\ mem \in Nodes /\ score \in Scores /\ Nil \notin Member /\ pc = "unwind"
  BY StateTypes DEF SetInv, SwapWithVictim
<1>2. PICK v : v = Last(stack)
  OBVIOUS
<1>3. PICK k : k = Len(stack)
  OBVIOUS
<1>4. PICK n : n = stack[k - 1]
  OBVIOUS
<1>5. PICK r : r = stack'
  OBVIOUS
<1>6. PICK N : N = Swapped(mem, n, v)
  OBVIOUS
<1>7. /\ k > 1 /\ mem' = N /\ r = Front(stack)
      /\ UNCHANGED <<members, tree, score, pc, arg, node, inner>>
      /\ root' = IF mem[n].parent = Nil THEN v ELSE root
  BY <1>2, <1>3, <1>4, <1>5, <1>6 DEF SwapWithVictim, Swapped
<1>8. stack \in Seq(Member) /\ k \in Nat /\ k <= 3 /\ stack # <<>> /\ v = stack[k]
  <2>1. stack \in Seq(Member) /\ k \in Nat /\ k <= 3
    BY <1>1, <1>3 DEF TypeOK
  <2>2. stack # <<>>
    BY <1>1 DEF Control
  <2> QED
    BY <2>1, <2>2, <1>2, <1>3, StackType
<1>9. /\ \A i \in 1..k : stack[i] \in members
      /\ \A i \in 1..k - 1 : Adjacent(score, members, stack[i], stack[i + 1])
      /\ members \subseteq Member /\ arg.m \in members /\ node \notin Member /\ stack[1] = arg.m
  BY <1>1, <1>3, <1>8 DEF Control, TypeOK
<1>10. k - 1 \in 1..k - 1 /\ k - 1 \in 1..k /\ k \in 1..k /\ k - 1 + 1 = k
  BY <1>7, <1>8
<1>11. n \in members /\ v \in members /\ n \in Member /\ v \in Member /\ Adjacent(score, members, n, v)
  BY <1>4, <1>8, <1>9, <1>10
<1>12. /\ r \in Seq(Member) /\ Len(r) = k - 1 /\ r # <<>>
       /\ \A i \in 1..k - 1 : r[i] = stack[i]
  <2>1. r = SubSeq(stack, 1, k - 1)
    BY <1>3, <1>7 DEF Front
  <2>2. 1 \in 1..k + 1 /\ k - 1 \in 0..k /\ k - 1 \in Nat
    BY <1>7, <1>8
  <2>3. /\ r \in Seq(Member) /\ Len(r) = k - 1
        /\ \A i \in 1..k - 1 : r[i] = stack[i]
    BY <2>1, <2>2, <1>3, <1>8
  <2>4. r # <<>>
    BY <2>3, <1>7, <1>8
  <2> QED
    BY <2>3, <2>4
<1>13. Last(r) = n
  BY <1>4, <1>10, <1>12, StackType
<1>14. N \in Nodes
  BY <1>1, <1>6, <1>11, SwappedType
<1>15. TypeOK'
  <2>1. mem' \in [Member -> AVLNode] /\ root' \in Link /\ stack' \in Seq(Member) /\ Len(stack') <= 3
    BY <1>1, <1>5, <1>7, <1>8, <1>11, <1>12, <1>14 DEF TypeOK, Nodes, Link
  <2> QED
    BY <2>1, <1>1, <1>7 DEF TypeOK
<1>16. Control'
  <2>1. stack' # <<>> /\ stack'[1] = arg.m
    BY <1>5, <1>9, <1>10, <1>12
  <2>2. \A i \in 1..Len(stack') : stack'[i] \in members
    BY <1>5, <1>8, <1>9, <1>12
  <2>3. \A i \in 1..Len(stack') - 1 : Adjacent(score, members, stack'[i], stack'[i + 1])
    <3>1. ASSUME NEW i \in 1..k - 2
          PROVE  Adjacent(score, members, r[i], r[i + 1])
      <4>1. i \in 1..k - 1 /\ i + 1 \in 1..k - 1
        BY <1>8
      <4> QED
        BY <4>1, <1>9, <1>12
    <3>2. Len(r) - 1 = k - 2
      BY <1>8, <1>12
    <3> QED
      BY <3>1, <3>2, <1>5
  <2> QED
    BY <2>1, <2>2, <2>3, <1>1, <1>7, <1>9 DEF Control
<1>17. ASSUME ~inner
       PROVE  \E V : TreeWith(V)'
  <2>1. PICK U : TreeWith(U)
    BY <1>1, <1>17 DEF SetInv
  <2>2. PICK T : T = members \ {v}
    OBVIOUS
  <2>3. Shape(mem, score, T, root, U) /\ \A m \in T : Exact(mem, U, m)
    BY <2>1, <2>2, <1>1, <1>2, <1>8 DEF TreeWith, Held, Top
  <2>4. n # v
    BY <1>1, <1>11, BeforeOrders DEF Adjacent
  <2>5. n \in T /\ v \in Member \ T /\ (T \ {n}) \cup {v} = members \ {n}
    BY <2>2, <2>4, <1>11
  <2>6. \A t \in T \ {n} : Before(score, t, n) <=> Before(score, t, v)
    BY <2>2, <1>11 DEF Adjacent
  <2>7. /\ Renamed(mem, T, n, v, N)
        /\ \A m \in T : N[Name(n, v, m)].depth = mem[m].depth /\ N[Name(n, v, m)].count = mem[m].count
        /\ mem[n].parent = Nil <=> n = root
    BY <2>3, <2>5, <1>1, <1>6, SwappedIs
  <2>8. Shape(N, score, (T \ {n}) \cup {v}, Name(n, v, root), RenamedSub(U, n, v))
    BY <2>3, <2>5, <2>6, <2>7, <1>1, <1>14, RenamedShape
  <2>9. \A m \in (T \ {n}) \cup {v} : Exact(N, RenamedSub(U, n, v), m)
    BY <2>3, <2>5, <2>7, <1>1, <1>14, RenamedExact
  <2>10. Held' = members \ {n} /\ Top' = Name(n, v, root)
    BY <2>7, <1>1, <1>5, <1>7, <1>12, <1>13 DEF Held, Top, Name
  <2>11. TreeWith(RenamedSub(U, n, v))'
    BY <2>5, <2>8, <2>9, <2>10, <1>1, <1>7 DEF TreeWith
  <2> QED
    BY <2>11
<1> QED
  BY <1>7, <1>15, <1>16, <1>17, <1>1 DEF SetInv

(* zset_update adds the node with its new score. *)
LEMMA AddAgainStep ==
  ASSUME SetInv, AddAgain
  PROVE  SetInv'
<1>1. TypeOK /\ Control /\ mem \in Nodes /\ score \in Scores /\ Nil \notin Member /\ pc = "unwind"
      /\ Len(stack) = 1
  BY StateTypes DEF SetInv, AddAgain, Deleted
<1>2. PICK x : x = arg.m
  OBVIOUS
<1>3. PICK N : N = mem'
  OBVIOUS
<1>4. PICK sd : sd = score'
  OBVIOUS
<1>5. /\ tree' = root /\ sd = [score EXCEPT ![x] = arg.score] /\ N = [mem EXCEPT ![x] = avl_init]
      /\ stack' = <<>> /\ root' = Nil /\ pc' = "descend"
      /\ UNCHANGED <<members, arg, node, inner>>
  BY <1>2, <1>3, <1>4 DEF AddAgain
<1>6. /\ members \subseteq Member /\ x \in members /\ x \in Member /\ node = Nil
      /\ arg.score \in Score \cup {0} /\ stack[1] = x /\ stack # <<>> /\ stack \in Seq(Member)
  BY <1>1, <1>2 DEF Control, TypeOK, Link
<1>7. Last(stack) = x
  BY <1>1, <1>6, StackType
<1>8. TypeOK'
  <2>1. avl_init \in AVLNode
    BY DEF avl_init, AVLNode, Link
  <2>2. N \in [Member -> AVLNode] /\ sd \in [Member -> Score \cup {0}]
    BY <2>1, <1>1, <1>5, <1>6 DEF TypeOK
  <2>3. stack' \in Seq(Member) /\ Len(stack') <= 3
    BY <1>5
  <2> QED
    BY <2>2, <2>3, <1>1, <1>3, <1>4, <1>5 DEF TypeOK, Link
<1>9. Control'
  <2>1. mem'[x] = avl_init
    BY <1>1, <1>3, <1>5, <1>6 DEF TypeOK
  <2> QED
    BY <2>1, <1>1, <1>2, <1>5, <1>6 DEF Control
<1>10. ASSUME ~inner
       PROVE  \E V : TreeWith(V)'
  <2>1. PICK U : TreeWith(U)
    BY <1>1, <1>10 DEF SetInv
  <2>2. PICK T : T = members \ {x}
    OBVIOUS
  <2>3. Shape(mem, score, T, root, U) /\ \A m \in T : Exact(mem, U, m)
    BY <2>1, <2>2, <1>1, <1>6, <1>7 DEF TreeWith, Held, Top
  <2>4. \A m \in T : N[m] = mem[m] /\ sd[m] = score[m]
    BY <2>2, <1>1, <1>5, <1>6 DEF TypeOK
  <2>5. Shape(N, sd, T, root, U) /\ \A m \in T : Exact(N, U, m)
    BY <2>3, <2>4, <1>1, OutsideSame
  <2>6. Held' = T /\ Top' = root
    BY <2>2, <1>2, <1>5 DEF Held, Top
  <2>7. TreeWith(U)'
    BY <2>5, <2>6, <1>3, <1>4, <1>5, <1>6 DEF TreeWith, Fits
  <2> QED
    BY <2>7
<1> QED
  BY <1>1, <1>5, <1>8, <1>9, <1>10 DEF SetInv

(* zset_pop ends the model. *)
LEMMA PoppedStep ==
  ASSUME SetInv, Popped
  PROVE  SetInv'
<1>1. TypeOK /\ Control /\ pc = "unwind"
  BY DEF SetInv, Popped, Deleted
<1>2. NoArg \in [m : Link, score : Score \cup {0}, pop : BOOLEAN]
  BY DEF NoArg, Link
<1>3. TypeOK'
  <2>1. stack' \in Seq(Member) /\ Len(stack') <= 3
    BY DEF Popped
  <2> QED
    BY <2>1, <1>1, <1>2 DEF TypeOK, Popped, Link
<1>4. Control'
  BY <1>1 DEF Control, Popped
<1> QED
  BY <1>3, <1>4 DEF SetInv, Popped

(* Together. *)
LEMMA NextStep ==
  ASSUME SetInv, Next
  PROVE  SetInv'
<1>1. ASSUME NEW m \in Member, NEW s \in Score, AddNew(m, s)
      PROVE  SetInv'
  BY <1>1, AddNewStep
<1>2. ASSUME NEW m \in Member, NEW s \in Score, zset_update(m, s)
      PROVE  SetInv'
  <2>1. StartDel(m, s, FALSE) /\ s \in Score \cup {0}
    BY <1>2 DEF zset_update
  <2> QED
    BY <2>1, StartDelStep
<1>3. ASSUME NEW m \in Member, zset_pop(m)
      PROVE  SetInv'
  <2>1. StartDel(m, 0, TRUE) /\ 0 \in Score \cup {0}
    BY <1>3 DEF zset_pop
  <2> QED
    BY <2>1, StartDelStep
<1> QED
  BY <1>1, <1>2, <1>3, DescendStep, AttachStep, FixUpStep, DetachStep, SeekRightStep, SeekLeftStep,
     DelVictimStep, SwapStep, AddAgainStep, PoppedStep DEF Next

(* A step that changes nothing. *)
LEMMA StutterStep ==
  ASSUME SetInv, UNCHANGED vars
  PROVE  SetInv'
BY DEF SetInv, vars, TypeOK, Control, TreeWith, Held, Top

(* The invariant holds of every run. *)
LEMMA InvHolds == Spec => []SetInv
<1>1. SetInv /\ [Next]_vars => SetInv'
  BY NextStep, StutterStep
<1> QED
  BY <1>1, InitInv, PTL DEF Spec

(* The nodes' pointers are members or NULL, their counts and depths        *)
(* positive, and avl_del is at most three calls deep, whatever avl_fix has *)
(* done to the tree.                                                       *)
THEOREM TypeCorrect == Spec => []TypeOK
<1>1. SetInv => TypeOK
  BY DEF SetInv
<1> QED
  BY <1>1, InvHolds, PTL
-----------------------------------------------------------------------------
(* A step taken again and again. *)
Iterated(f, c, v0, S) == \A i \in 0..c : f[i] = IF i = 0 THEN v0 ELSE S[f[i - 1]]

(* There is a function that takes it so often. *)
LEMMA Iterates ==
  ASSUME NEW V, NEW c \in Nat, NEW v0 \in V, NEW S \in [V -> V]
  PROVE  \E f \in [0..c -> V] : Iterated(f, c, v0, S)
<1> DEFINE D == 0..c
           m == [i \in D |-> i]
           G == [p \in [D -> V] \X D |-> IF p[2] = 0 THEN v0 ELSE S[p[1][p[2] - 1]]]
<1>1. m \in [D -> Nat] /\ \A i \in D : m[i] = i /\ (i # 0 => i - 1 \in D /\ i - 1 < i)
  OBVIOUS
<1>2. ASSUME NEW f \in [D -> V], NEW i \in D
      PROVE  G[<<f, i>>] = IF i = 0 THEN v0 ELSE S[f[i - 1]]
  OBVIOUS
<1> HIDE DEF D, m
<1>3. G \in [[D -> V] \X D -> V]
  <2> SUFFICES ASSUME NEW f \in [D -> V], NEW i \in D
               PROVE  (IF i = 0 THEN v0 ELSE S[f[i - 1]]) \in V
    OBVIOUS
  <2>1. i # 0 => f[i - 1] \in V
    BY <1>1
  <2> QED
    BY <2>1
<1> HIDE DEF G
<1>4. \A f, g \in [D -> V], i \in D :
        (\A j \in D : m[j] < m[i] => f[j] = g[j]) => G[<<f, i>>] = G[<<g, i>>]
  <2> SUFFICES ASSUME NEW f \in [D -> V], NEW g \in [D -> V], NEW i \in D,
                      \A j \in D : m[j] < m[i] => f[j] = g[j]
               PROVE  G[<<f, i>>] = G[<<g, i>>]
    OBVIOUS
  <2>1. i # 0 => f[i - 1] = g[i - 1]
    BY <1>1
  <2> QED
    BY <1>2, <2>1
<1>5. Recursion(D, V, m, G)
  BY <1>1, <1>3, <1>4 DEF Recursion
<1>6. PICK f \in [D -> V] : \A i \in D : f[i] = G[<<f, i>>]
  BY <1>5, RecursiveFunction
<1>7. \A i \in D : f[i] = IF i = 0 THEN v0 ELSE S[f[i - 1]]
  BY <1>2, <1>6
<1> QED
  BY <1>7 DEF D, Iterated

(* The way from n to the root, as Above takes it. *)
Climbed(M, n, f) ==
  \A i \in 0..Cardinality(Member) :
    f[i] = IF i = 0 THEN n ELSE IF f[i - 1] = Nil THEN Nil ELSE M[f[i - 1]].parent

(* Above goes that way ... *)
LEMMA AboveIs ==
  ASSUME NEW n \in Link, mem \in Nodes
  PROVE  \E f : Climbed(mem, n, f) /\ Above(n) = {f[i] : i \in 0..Cardinality(Member)} \ {Nil}
<1> DEFINE c == Cardinality(Member)
           step == [v \in Link |-> IF v = Nil THEN Nil ELSE mem[v].parent]
           Way(g) == g = [i \in 0..c |-> IF i = 0 THEN n ELSE IF g[i - 1] = Nil THEN Nil
                                                             ELSE mem[g[i - 1]].parent]
           h == CHOOSE g : Way(g)
<1>1. c \in Nat
  BY SortedSetAssumption, FS_CardinalityType
<1>2. step \in [Link -> Link]
  BY LinkIn DEF Link, Sides
<1>3. \A v \in Link : step[v] = IF v = Nil THEN Nil ELSE mem[v].parent
  OBVIOUS
<1>4. Above(n) = {h[i] : i \in DOMAIN h} \ {Nil}
  BY DEF Above
<1> HIDE DEF c, step
<1>5. PICK f \in [0..c -> Link] : \A i \in 0..c : f[i] = IF i = 0 THEN n ELSE step[f[i - 1]]
  <2>1. \E f \in [0..c -> Link] : Iterated(f, c, n, step)
    BY <1>1, <1>2, Iterates
  <2> QED
    BY <2>1 DEF Iterated
<1>6. Way(f)
  <2>1. ASSUME NEW i \in 0..c
        PROVE  f[i] = IF i = 0 THEN n ELSE IF f[i - 1] = Nil THEN Nil ELSE mem[f[i - 1]].parent
    <3>1. i # 0 => f[i - 1] \in Link
      BY <1>1, <1>5
    <3> QED
      BY <3>1, <1>3, <1>5
  <2>2. f = [i \in 0..c |-> f[i]]
    BY <1>5
  <2> QED
    BY <2>1, <2>2
<1>7. Way(h)
  <2> HIDE DEF Way
  <2> QED
    BY <1>6
<1> HIDE DEF h
<1>8. DOMAIN h = 0..c
  BY <1>7
<1>9. \A i \in 0..c : h[i] = IF i = 0 THEN n ELSE IF h[i - 1] = Nil THEN Nil ELSE mem[h[i - 1]].parent
  BY <1>7
<1>10. Climbed(mem, n, h)
  BY <1>9 DEF Climbed, c
<1> QED
  BY <1>4, <1>8, <1>10 DEF c

(* ... passes exactly the nodes in whose subtrees n is. *)
LEMMA ClimbPasses ==
  ASSUME NEW M \in Nodes, NEW sc \in Scores, NEW T, NEW top, NEW U, Shape(M, sc, T, top, U),
         NEW n \in T, NEW f, Climbed(M, n, f)
  PROVE  {f[i] : i \in 0..Cardinality(Member)} \ {Nil} = {a \in T : n \in U[a]}
<1> DEFINE c == Cardinality(Member)
<1>1. /\ c \in Nat /\ T \subseteq Member /\ Nil \notin Member /\ U \in [Member -> SUBSET Member]
      /\ \A m \in T : m \in U[m] /\ U[m] \subseteq T
  BY SortedSetAssumption, FS_CardinalityType, SubtreesLie DEF Shape
<1>2. \A i \in 0..c : f[i] = IF i = 0 THEN n ELSE IF f[i - 1] = Nil THEN Nil ELSE M[f[i - 1]].parent
  BY DEF Climbed
<1> HIDE DEF c
<1>3. ASSUME NEW m \in T, n \in U[m], M[m].parent # Nil
      PROVE  /\ M[m].parent \in T /\ n \in U[M[m].parent]
             /\ U[m] \subseteq U[M[m].parent] /\ M[m].parent \notin U[m]
  <2>1. m # top
    BY <1>1, <1>3 DEF Shape, Rooted
  <2>2. PICK p : p = M[m].parent
    OBVIOUS
  <2>3. p \in T /\ \E s \in Sides : M[p][s] = m
    BY <2>1, <2>2 DEF Shape, Hangs
  <2>4. PICK s \in Sides : M[p][s] = m
    BY <2>3
  <2>5. m # Nil
    BY <1>1
  <2>6. p \notin U[m] /\ U[m] \subseteq U[p]
    BY <2>3, <2>4, <2>5, ChildOf
  <2> QED
    BY <2>2, <2>3, <2>6, <1>3
<1>4. \A i \in 0..c : f[i] = Nil \/ (f[i] \in T /\ n \in U[f[i]])
  <2> DEFINE B == {i \in 0..c : ~(f[i] = Nil \/ (f[i] \in T /\ n \in U[f[i]]))}
  <2> SUFFICES ASSUME B # {} PROVE FALSE
    OBVIOUS
  <2>1. B \in SUBSET Nat
    BY <1>1
  <2>2. PICK i \in B : \A j \in B : i <= j
    BY <2>1, LeastNat
  <2>3. i # 0
    BY <1>1, <1>2, <2>2
  <2>4. i - 1 \in 0..c /\ ~(i <= i - 1)
    BY <1>1, <2>3
  <2>5. f[i - 1] = Nil \/ (f[i - 1] \in T /\ n \in U[f[i - 1]])
    BY <2>2, <2>4
  <2>6. f[i] = IF f[i - 1] = Nil THEN Nil ELSE M[f[i - 1]].parent
    BY <1>2, <2>3
  <2>7. f[i] = Nil \/ (f[i] \in T /\ n \in U[f[i]])
    BY <2>5, <2>6, <1>3
  <2> QED
    BY <2>7
<1>5. ASSUME NEW a \in T, n \in U[a]
      PROVE  \E i \in 0..c : f[i] = a
  <2> SUFFICES ASSUME \A i \in 0..c : f[i] # a PROVE FALSE
    OBVIOUS
  <2> DEFINE Good(i) == f[i] \in U[a] /\ f[i] \in T /\ Cardinality(U[f[i]]) >= i + 1
             B == {i \in 0..c : ~Good(i)}
  <2>1. \A m \in T : IsFiniteSet(U[m]) /\ Cardinality(U[m]) \in Nat /\ Cardinality(U[m]) <= c
    <3> TAKE m \in T
    <3>1. U[m] \subseteq Member
      BY <1>1
    <3> QED
      BY <3>1, SortedSetAssumption, FS_Subset, FS_CardinalityType DEF c
  <2>2. B = {}
    <3> SUFFICES ASSUME B # {} PROVE FALSE
      OBVIOUS
    <3>1. B \in SUBSET Nat
      BY <1>1
    <3>2. PICK i \in B : \A j \in B : i <= j
      BY <3>1, LeastNat
    <3>3. i # 0
      <4>1. f[0] = n /\ n \in U[n]
        BY <1>1, <1>2
      <4>2. U[n] # {} /\ Cardinality(U[n]) # 0
        BY <4>1, <2>1, FS_EmptySet
      <4>3. Good(0)
        BY <4>1, <4>2, <2>1, <1>5
      <4> QED
        BY <4>3
    <3>4. i - 1 \in 0..c /\ ~(i <= i - 1) /\ i \in Nat
      BY <1>1, <3>3
    <3>5. Good(i - 1)
      BY <3>2, <3>4
    <3>6. PICK x : x = f[i - 1]
      OBVIOUS
    <3>7. PICK p : p = f[i]
      OBVIOUS
    <3>8. x \in U[a] /\ x \in T /\ Cardinality(U[x]) >= i /\ x # a /\ x # Nil
      BY <3>4, <3>5, <3>6, <1>1
    <3>9. p = M[x].parent
      BY <3>3, <3>6, <3>7, <3>8, <1>2
    <3>10. p \in T /\ p \in U[a]
      BY <3>8, <3>9, ParentInSubtree
    <3>11. U[x] \subseteq U[p] /\ p \notin U[x] /\ p \in U[p]
      <4>1. f[i - 1] \in T /\ n \in U[x]
        BY <1>4, <3>4, <3>6, <3>8
      <4>2. p # Nil
        BY <3>10, <1>1
      <4> QED
        BY <4>1, <4>2, <3>8, <3>9, <3>10, <1>1, <1>3
    <3>12. Cardinality(U[p]) >= i + 1
      <4>1. U[x] # U[p]
        BY <3>11
      <4>2. Cardinality(U[x]) < Cardinality(U[p])
        BY <4>1, <3>8, <3>10, <3>11, <2>1, FS_Subset
      <4> QED
        BY <4>2, <3>4, <3>8, <3>10, <2>1
    <3>13. Good(i)
      BY <3>7, <3>10, <3>12
    <3> QED
      BY <3>13
  <2>3. Good(c)
    BY <1>1, <2>2
  <2> QED
    BY <2>1, <2>3, <1>1
<1> QED
  BY <1>1, <1>4, <1>5 DEF c

(* Between two commands. *)
LEMMA AtIdle ==
  ASSUME SetInv, Idle
  PROVE  /\ TypeOK /\ mem \in Nodes /\ score \in Scores /\ Nil \notin Member
         /\ members \subseteq Member /\ IsFiniteSet(members)
         /\ \E U : Shape(mem, score, members, tree, U) /\ \A n \in members : Exact(mem, U, n)
<1>1. TypeOK /\ mem \in Nodes /\ score \in Scores /\ Nil \notin Member /\ pc = "idle" /\ ~inner
  BY StateTypes DEF SetInv, Idle
<1>2. members \subseteq Member /\ IsFiniteSet(members)
  BY <1>1, SortedSetAssumption, FS_Subset DEF TypeOK
<1>3. PICK U : TreeWith(U)
  BY <1>1 DEF SetInv
<1>4. Held = members /\ Top = tree
  BY <1>1 DEF Held, Top
<1>5. Shape(mem, score, members, tree, U) /\ \A n \in members : Exact(mem, U, n)
  BY <1>1, <1>3, <1>4 DEF TreeWith
<1> QED
  BY <1>1, <1>2, <1>5

(* The nodes under n are those of its subtree. *)
LEMMA UnderIs ==
  ASSUME mem \in Nodes, score \in Scores, Nil \notin Member,
         NEW U, Shape(mem, score, members, tree, U)
  PROVE  /\ \A n \in members : Above(n) = {a \in members : n \in U[a]}
         /\ \A n \in members \cup {Nil} : Under(n) = Sub(U, n)
<1>1. \A n \in members : n \in Member /\ U[n] \subseteq members
  BY SubtreesLie
<1>2. ASSUME NEW n \in members
      PROVE  Above(n) = {a \in members : n \in U[a]}
  <2>1. n \in Link
    BY <1>1 DEF Link
  <2>2. PICK f : Climbed(mem, n, f) /\ Above(n) = {f[i] : i \in 0..Cardinality(Member)} \ {Nil}
    BY <2>1, AboveIs
  <2> QED
    BY <2>2, ClimbPasses
<1>3. ASSUME NEW n \in members
      PROVE  Under(n) = U[n]
  <2>1. n # Nil
    BY <1>1
  <2>2. Under(n) = {m \in members : n \in Above(m)}
    BY <2>1 DEF Under
  <2>3. \A m \in members : n \in Above(m) <=> m \in U[n]
    BY <1>2
  <2> QED
    BY <2>2, <2>3, <1>1
<1>4. Under(Nil) = {}
  BY DEF Under
<1> QED
  BY <1>1, <1>2, <1>3, <1>4 DEF Sub

(* Between two commands the tree holds every member of the hash map, in    *)
(* the order of zless, with the pointers both ways, balanced, and with the *)
(* right counts and depths, as long as avl_fix has rotated at the root     *)
(* only.                                                                   *)
THEOREM TreeIsSound == Spec => []TreeSound
<1>1. ASSUME SetInv, Idle
      PROVE  Linked /\ Ordered /\ Counted
  <2>1. /\ mem \in Nodes /\ score \in Scores /\ Nil \notin Member /\ members \subseteq Member
        /\ \E U : Shape(mem, score, members, tree, U) /\ \A n \in members : Exact(mem, U, n)
    BY <1>1, AtIdle
  <2>2. PICK U : Shape(mem, score, members, tree, U) /\ \A n \in members : Exact(mem, U, n)
    BY <2>1
  <2>3. /\ \A n \in members : Above(n) = {a \in members : n \in U[a]}
        /\ \A n \in members \cup {Nil} : Under(n) = Sub(U, n)
    BY <2>1, <2>2, UnderIs
  <2>4. \A n \in members, s \in Sides : mem[n][s] \in members \cup {Nil}
    BY <2>2 DEF Shape, Points
  <2>5. Linked
    <3>1. \A m \in members : tree \in Above(m)
      BY <2>2, <2>3 DEF Shape, Rooted, Sub
    <3>2. ASSUME NEW m \in members \ {tree}
          PROVE  LET p == mem[m].parent IN m \in {mem[p].left, mem[p].right}
      <4>1. \E s \in Sides : mem[mem[m].parent][s] = m
        BY <2>2 DEF Shape, Hangs
      <4> QED
        BY <4>1 DEF Sides
    <3>3. \A n \in members, side \in {"left", "right"} :
            mem[n][side] # Nil => mem[n][side] \in members /\ mem[mem[n][side]].parent = n
      BY <2>2 DEF Shape, Points, Sides
    <3> QED
      BY <3>1, <3>2, <3>3 DEF Linked
  <2>6. Ordered
    <3> SUFFICES ASSUME NEW n \in members
                 PROVE  /\ \A m \in Under(mem[n].left) : zless(m, n)
                        /\ \A m \in Under(mem[n].right) : zless(n, m)
      BY DEF Ordered
    <3>1. "left" \in Sides /\ "right" \in Sides /\ mem[n].left = mem[n]["left"]
          /\ mem[n].right = mem[n]["right"]
      BY DEF Sides
    <3>2. \A m \in Sub(U, mem[n].left) : Toward(score, "left", m, n)
      BY <3>1, <2>2 DEF Shape, Sorts
    <3>3. \A m \in Sub(U, mem[n].right) : Toward(score, "right", m, n)
      BY <3>1, <2>2 DEF Shape, Sorts
    <3>4. Under(mem[n].left) = Sub(U, mem[n].left) /\ Under(mem[n].right) = Sub(U, mem[n].right)
      BY <3>1, <2>3, <2>4
    <3> QED
      BY <3>2, <3>3, <3>4, ZlessIsBefore DEF Toward
  <2>7. Counted
    <3> SUFFICES ASSUME NEW n \in members
                 PROVE  /\ mem[n].count = Cardinality(Under(n))
                        /\ mem[n].depth = 1 + Max({avl_depth(mem, mem[n].left), avl_depth(mem, mem[n].right)})
                        /\ avl_depth(mem, mem[n].left) - avl_depth(mem, mem[n].right) \in -1..1
      BY DEF Counted
    <3>1. Under(n) = U[n]
      BY <2>1, <2>3 DEF Sub
    <3> QED
      BY <3>1, <2>2 DEF Exact, Counts, LevelAt, Level
  <2> QED
    BY <2>5, <2>6, <2>7
<1>2. SetInv => TreeSound
  BY <1>1 DEF TreeSound
<1> QED
  BY <1>2, InvHolds, PTL
-----------------------------------------------------------------------------
(* avl_offset.  The ranks of the nodes. *)
SoundTree(U) ==
  /\ mem \in Nodes /\ score \in Scores /\ Nil \notin Member
  /\ members \subseteq Member /\ IsFiniteSet(members)
  /\ Shape(mem, score, members, tree, U) /\ \A n \in members : Exact(mem, U, n)

Ahead(s, n) == {m \in members : Toward(score, s, m, n)}
Size(U, n) == Cardinality(Sub(U, n))

(* Two sets that share nothing, and one more. *)
LEMMA JoinCount ==
  ASSUME NEW A, NEW B, NEW n, IsFiniteSet(A), IsFiniteSet(B), A \cap B = {}, n \notin A, n \notin B
  PROVE  /\ IsFiniteSet(A \cup B \cup {n}) /\ Cardinality(A) \in Nat /\ Cardinality(B) \in Nat
         /\ Cardinality(A \cup B \cup {n}) = Cardinality(A) + 1 + Cardinality(B)
<1>1. Cardinality(A) \in Nat /\ Cardinality(B) \in Nat
  BY FS_CardinalityType
<1>2. IsFiniteSet(A \cup B) /\ Cardinality(A \cup B) = Cardinality(A) + Cardinality(B)
  <2>1. Cardinality(A \cup B) = Cardinality(A) + Cardinality(B) - Cardinality(A \cap B)
    BY FS_Union
  <2>2. Cardinality(A \cap B) = 0
    BY FS_EmptySet
  <2>3. IsFiniteSet(A \cup B)
    BY FS_Union
  <2> QED
    BY <2>1, <2>2, <2>3, <1>1
<1>3. n \notin A \cup B
  OBVIOUS
<1>4. /\ IsFiniteSet((A \cup B) \cup {n})
      /\ Cardinality((A \cup B) \cup {n}) = Cardinality(A \cup B) + 1
  BY <1>2, <1>3, FS_AddElement
<1>5. (A \cup B) \cup {n} = A \cup B \cup {n}
  OBVIOUS
<1>6. Cardinality((A \cup B) \cup {n}) = Cardinality(A) + 1 + Cardinality(B)
  BY <1>1, <1>2, <1>4
<1> QED
  BY <1>1, <1>4, <1>5, <1>6, Zenon

(* The nodes before n in the order are as many as its rank. *)
LEMMA AheadFinite ==
  ASSUME NEW U, SoundTree(U), NEW s, NEW n
  PROVE  /\ Ahead(s, n) \subseteq members /\ IsFiniteSet(Ahead(s, n)) /\ Cardinality(Ahead(s, n)) \in Nat
         /\ Cardinality(Ahead("left", n)) = Rank(n) /\ Rank(n) \in Nat
<1>1. \A t : /\ Ahead(t, n) \subseteq members /\ IsFiniteSet(Ahead(t, n))
             /\ Cardinality(Ahead(t, n)) \in Nat
  <2> TAKE t
  <2>1. Ahead(t, n) \subseteq members /\ IsFiniteSet(members)
    BY DEF Ahead, SoundTree
  <2> QED
    BY <2>1, FS_Subset, FS_CardinalityType
<1>2. Ahead("left", n) = {m \in members : zless(m, n)}
  BY ZlessIsBefore DEF Ahead, Toward
<1> QED
  BY <1>1, <1>2 DEF Rank

(* A node divides the others. *)
LEMMA RankSplit ==
  ASSUME NEW U, SoundTree(U), NEW n \in members, NEW s \in Sides
  PROVE  Cardinality(members) = Cardinality(Ahead(s, n)) + 1 + Cardinality(Ahead(Other(s), n))
<1>1. score \in Scores /\ members \subseteq Member
  BY DEF SoundTree
<1>2. PICK A : A = Ahead(s, n)
  OBVIOUS
<1>3. PICK B : B = Ahead(Other(s), n)
  OBVIOUS
<1>4. IsFiniteSet(A) /\ IsFiniteSet(B)
  BY <1>2, <1>3, AheadFinite
<1>5. \A m \in members : /\ m \in A <=> Toward(score, s, m, n)
                         /\ m \in B <=> Toward(score, s, n, m)
  BY <1>1, <1>2, <1>3, TowardOrders DEF Ahead
<1>6. A \subseteq members /\ B \subseteq members
  BY <1>2, <1>3 DEF Ahead
<1>7. A \cap B = {} /\ n \notin A /\ n \notin B /\ members = A \cup B \cup {n}
  <2>1. \A m \in members : /\ ~Toward(score, s, m, m)
                           /\ m = n \/ Toward(score, s, m, n) \/ Toward(score, s, n, m)
                           /\ ~(Toward(score, s, m, n) /\ Toward(score, s, n, m))
    BY <1>1, TowardOrders
  <2> QED
    BY <2>1, <1>5, <1>6
<1>8. Cardinality(members) = Cardinality(A) + 1 + Cardinality(B)
  BY <1>4, <1>7, JoinCount
<1> QED
  BY <1>2, <1>3, <1>8

(* No two have the same rank. *)
LEMMA RanksDiffer ==
  ASSUME NEW U, SoundTree(U), NEW a \in members, NEW b \in members, Rank(a) = Rank(b)
  PROVE  a = b
<1>1. score \in Scores /\ members \subseteq Member /\ a \in Member /\ b \in Member
  BY DEF SoundTree
<1>2. ASSUME NEW x \in members, NEW y \in members, Before(score, x, y)
      PROVE  Rank(x) # Rank(y)
  <2>1. x \in Member /\ y \in Member
    BY <1>1
  <2>2. Ahead("left", x) \subseteq Ahead("left", y)
    BY <1>1, <1>2, <2>1, BeforeOrders DEF Ahead, Toward
  <2>3. x \in Ahead("left", y) /\ x \notin Ahead("left", x)
    BY <1>1, <1>2, <2>1, BeforeOrders DEF Ahead, Toward
  <2>4. Cardinality(Ahead("left", x)) # Cardinality(Ahead("left", y))
    BY <2>2, <2>3, AheadFinite, FS_Subset
  <2> QED
    BY <2>4, AheadFinite
<1>3. a = b \/ Before(score, a, b) \/ Before(score, b, a)
  BY <1>1, BeforeOrders
<1> QED
  BY <1>2, <1>3

(* From a node to its child c on the side s: past itself and what c has on *)
(* the other side.                                                         *)
LEMMA EdgeAhead ==
  ASSUME NEW U, SoundTree(U), NEW n \in members, NEW s \in Sides, NEW c, c = mem[n][s], c # Nil
  PROVE  Ahead(Other(s), c) = Ahead(Other(s), n) \cup Sub(U, mem[c][Other(s)]) \cup {n}
<1>1. /\ mem \in Nodes /\ score \in Scores /\ Nil \notin Member /\ members \subseteq Member
      /\ Shape(mem, score, members, tree, U)
  BY DEF SoundTree
<1>2. PICK o : o = Other(s)
  OBVIOUS
<1>3. o \in Sides /\ o # s /\ Other(o) = s /\ \A a, b : Toward(score, o, a, b) <=> Toward(score, s, b, a)
  BY <1>1, <1>2, OtherSide, TowardOrders
<1>4. /\ c \in members /\ c # n /\ c \in U[n] /\ n \notin U[c] /\ U[c] \subseteq U[n] /\ n \in U[n]
      /\ c \in U[c] /\ c \in Member /\ n \in Member
  BY <1>1, ChildOf, SubtreesLie
<1>5. /\ U[c] = {c} \cup Sub(U, mem[c][s]) \cup Sub(U, mem[c][o])
      /\ U[n] = {n} \cup U[c] \cup Sub(U, mem[n][o])
      /\ Sub(U, mem[c][o]) \subseteq members
  <2>1. Sub(U, mem[n][s]) = U[c]
    BY DEF Sub
  <2>2. U[n] = {n} \cup Sub(U, mem[n][s]) \cup Sub(U, mem[n][o])
    BY <1>1, <1>2, SubtreeForks
  <2>3. U[c] = {c} \cup Sub(U, mem[c][s]) \cup Sub(U, mem[c][o])
    BY <1>1, <1>2, <1>4, SubtreeForks
  <2>4. Sub(U, mem[c][o]) \subseteq members
    BY <1>1, <1>3, <1>4, SubtreeForks
  <2> QED
    BY <2>1, <2>2, <2>3, <2>4
<1>6. /\ \A m \in Sub(U, mem[c][s]) : Toward(score, s, m, c)
      /\ \A m \in Sub(U, mem[c][o]) : Toward(score, o, m, c)
      /\ \A m \in Sub(U, mem[n][o]) : Toward(score, o, m, n)
      /\ Toward(score, s, c, n)
  <2>1. Sub(U, mem[n][s]) = U[c]
    BY DEF Sub
  <2> QED
    BY <2>1, <1>1, <1>3, <1>4 DEF Shape, Sorts
<1>7. \A m \in members : m \notin U[n] => (Toward(score, o, m, n) <=> Toward(score, o, m, c))
  <2> SUFFICES ASSUME NEW m \in members, m \notin U[n]
               PROVE  Toward(score, o, m, n) <=> Toward(score, o, m, c)
    OBVIOUS
  <2>1. Before(score, m, n) <=> Before(score, m, c)
    BY <1>1, <1>4 DEF Shape, Convex
  <2>2. m # n /\ m # c /\ m \in Member
    BY <1>1, <1>4
  <2> QED
    BY <2>1, <2>2, <1>1, <1>3, <1>4, SameSide
<1>8. \A a, b, d \in Member : Toward(score, o, a, b) /\ Toward(score, o, b, d) => Toward(score, o, a, d)
  BY <1>1, <1>3, TowardOrders
<1>9. \A a \in Member : ~Toward(score, o, a, a)
  BY <1>1, <1>3, TowardOrders
<1>10. ASSUME NEW m \in members
       PROVE  Toward(score, o, m, c) <=> Toward(score, o, m, n) \/ m \in Sub(U, mem[c][o]) \/ m = n
  <2>1. m \in Member
    BY <1>1
  <2>2. ASSUME Toward(score, o, m, n) \/ m \in Sub(U, mem[c][o]) \/ m = n
        PROVE  Toward(score, o, m, c)
    <3>1. Toward(score, o, n, c)
      BY <1>3, <1>6
    <3> QED
      BY <3>1, <2>1, <2>2, <1>4, <1>6, <1>8
  <2>3. ASSUME Toward(score, o, m, c), m # n, m \notin Sub(U, mem[c][o])
        PROVE  Toward(score, o, m, n)
    <3>1. CASE m \notin U[n]
      BY <3>1, <2>3, <1>7
    <3>2. CASE m \in Sub(U, mem[n][o])
      BY <3>2, <1>6
    <3>3. CASE m = c
      BY <3>3, <2>1, <2>3, <1>9
    <3>4. CASE m \in Sub(U, mem[c][s])
      <4>1. Toward(score, o, c, m)
        BY <3>4, <1>3, <1>6
      <4> QED
        BY <4>1, <2>1, <2>3, <1>4, <1>8, <1>9
    <3> QED
      BY <3>1, <3>2, <3>3, <3>4, <2>3, <1>5
  <2> QED
    BY <2>2, <2>3
<1>11. Ahead(o, c) = Ahead(o, n) \cup Sub(U, mem[c][o]) \cup {n}
  BY <1>5, <1>10 DEF Ahead
<1> QED
  BY <1>2, <1>11

(* The same in numbers. *)
LEMMA EdgeCount ==
  ASSUME NEW U, SoundTree(U), NEW n \in members, NEW s \in Sides, NEW c, c = mem[n][s], c # Nil
  PROVE  Cardinality(Ahead(Other(s), c)) =
           Cardinality(Ahead(Other(s), n)) + 1 + Size(U, mem[c][Other(s)])
<1>1. /\ mem \in Nodes /\ score \in Scores /\ members \subseteq Member
      /\ Shape(mem, score, members, tree, U) /\ U \in [Member -> SUBSET Member]
  BY DEF SoundTree, Shape
<1>2. PICK o : o = Other(s)
  OBVIOUS
<1>3. o \in Sides /\ \A a, b : Toward(score, o, a, b) <=> Toward(score, s, b, a)
  BY <1>1, <1>2, OtherSide, TowardOrders
<1>4. c \in members /\ c \in Member /\ n \in Member /\ n \notin U[c] /\ U[c] = Sub(U, mem[n][s])
  BY <1>1, ChildOf DEF Sub
<1>5. PICK B : B = Sub(U, mem[c][o])
  OBVIOUS
<1>6. B \subseteq U[c] /\ mem[c][o] \in Link /\ B \subseteq members
  BY <1>1, <1>3, <1>4, <1>5, SubtreeForks
<1>7. IsFiniteSet(B)
  BY <1>1, <1>5, <1>6, FiniteSub
<1>8. IsFiniteSet(Ahead(o, n)) /\ n \notin Ahead(o, n) /\ n \notin B /\ Ahead(o, n) \cap B = {}
  <2>1. n \notin Ahead(o, n)
    BY <1>1, <1>3, <1>4, TowardOrders DEF Ahead
  <2>2. \A m \in B : m \in Member /\ Toward(score, s, m, n)
    BY <1>1, <1>4, <1>6 DEF Shape, Sorts
  <2>3. \A m \in Ahead(o, n) : m \in Member /\ Toward(score, s, n, m)
    BY <1>1, <1>3 DEF Ahead
  <2>4. \A m \in Member : ~(Toward(score, s, m, n) /\ Toward(score, s, n, m))
    BY <1>1, <1>4, TowardOrders
  <2> QED
    BY <2>1, <2>2, <2>3, <2>4, <1>4, <1>6, AheadFinite
<1>9. Ahead(o, c) = Ahead(o, n) \cup B \cup {n}
  BY <1>2, <1>5, EdgeAhead
<1>10. Cardinality(Ahead(o, c)) = Cardinality(Ahead(o, n)) + 1 + Cardinality(B)
  BY <1>7, <1>8, <1>9, JoinCount
<1> QED
  BY <1>2, <1>5, <1>10 DEF Size

(* The sizes of the subtrees, as the code counts them. *)
LEMMA SizesOf ==
  ASSUME NEW U, SoundTree(U), NEW n \in members
  PROVE  /\ n \in Member /\ n # Nil
         /\ mem[n].left \in members \cup {Nil} /\ mem[n].right \in members \cup {Nil}
         /\ avl_count(mem, mem[n].left) = Size(U, mem[n].left) /\ Size(U, mem[n].left) \in Nat
         /\ avl_count(mem, mem[n].right) = Size(U, mem[n].right) /\ Size(U, mem[n].right) \in Nat
         /\ Size(U, n) = 1 + Size(U, mem[n].left) + Size(U, mem[n].right)
         /\ Size(U, n) <= Cardinality(members) /\ Cardinality(members) \in Nat
         /\ Size(U, Nil) = 0
<1>1. /\ mem \in Nodes /\ score \in Scores /\ Nil \notin Member /\ members \subseteq Member
      /\ Shape(mem, score, members, tree, U) /\ U \in [Member -> SUBSET Member]
      /\ IsFiniteSet(members) /\ \A m \in members : Exact(mem, U, m)
  BY DEF SoundTree, Shape
<1>2. n \in Member /\ n # Nil
  BY <1>1
<1>3. ASSUME NEW s \in Sides
      PROVE  /\ mem[n][s] \in members \cup {Nil}
             /\ avl_count(mem, mem[n][s]) = Size(U, mem[n][s]) /\ Size(U, mem[n][s]) \in Nat
  <2>1. mem[n][s] \in Link /\ (mem[n][s] # Nil => mem[n][s] \in members)
    BY <1>1, SubtreeForks
  <2>2. mem[n][s] # Nil => Counts(mem, U, mem[n][s])
    BY <2>1, <1>1 DEF Exact
  <2>3. Cardinality(Sub(U, mem[n][s])) \in Nat
    BY <2>1, <1>1, FiniteSub
  <2> QED
    BY <2>1, <2>2, <2>3, CountOf DEF Size
<1>4. "left" \in Sides /\ "right" \in Sides /\ Other("left") = "right"
  BY DEF Sides, Other
<1>5. Cardinality(U[n]) = 1 + Cardinality(Sub(U, mem[n]["left"])) + Cardinality(Sub(U, mem[n]["right"]))
  <2>1. Cardinality(U[n]) = 1 + Cardinality(Sub(U, mem[n]["left"])) + Cardinality(Sub(U, mem[n][Other("left")]))
    BY <1>1, <1>4, CountForks
  <2> QED
    BY <2>1, <1>4
<1>6. Size(U, n) = Cardinality(U[n])
  BY <1>2 DEF Size, Sub
<1>7. Cardinality(U[n]) <= Cardinality(members) /\ Cardinality(members) \in Nat
  <2>1. U[n] \subseteq members
    BY <1>1, SubtreesLie
  <2> QED
    BY <2>1, <1>1, FS_Subset, FS_CardinalityType
<1>8. Size(U, Nil) = 0
  BY FS_EmptySet DEF Size, Sub
<1> QED
  BY <1>2, <1>3, <1>4, <1>5, <1>6, <1>7, <1>8 DEF Size

(* The rank of a child. *)
LEMMA ChildRank ==
  ASSUME NEW U, SoundTree(U), NEW n \in members
  PROVE  /\ mem[n].right # Nil => Rank(mem[n].right) = Rank(n) + Size(U, mem[mem[n].right].left) + 1
         /\ mem[n].left # Nil => Rank(mem[n].left) = Rank(n) - Size(U, mem[mem[n].left].right) - 1
         /\ Rank(n) \in Nat /\ Rank(n) < Cardinality(members)
<1>1. "left" \in Sides /\ "right" \in Sides /\ Other("left") = "right" /\ Other("right") = "left"
  BY DEF Sides, Other
<1>2. /\ Cardinality(members) \in Nat
      /\ mem[n].left \in members \cup {Nil} /\ mem[n].right \in members \cup {Nil}
  BY SizesOf
<1>3. \A a : /\ Rank(a) \in Nat /\ Cardinality(Ahead("left", a)) = Rank(a)
             /\ Cardinality(Ahead("right", a)) \in Nat
  BY AheadFinite
<1>4. \A a \in members : Cardinality(Ahead("right", a)) = Cardinality(members) - 1 - Rank(a)
  <2> TAKE a \in members
  <2>1. Cardinality(members) = Cardinality(Ahead("left", a)) + 1 + Cardinality(Ahead("right", a))
    BY <1>1, RankSplit
  <2> QED
    BY <2>1, <1>2, <1>3
<1>5. ASSUME mem[n].right # Nil
      PROVE  Rank(mem[n].right) = Rank(n) + Size(U, mem[mem[n].right].left) + 1
  <2>1. PICK c : c = mem[n]["right"]
    OBVIOUS
  <2>2. c # Nil
    BY <2>1, <1>5
  <2>3. Cardinality(Ahead("left", c)) = Cardinality(Ahead("left", n)) + 1 + Size(U, mem[c]["left"])
    BY <2>1, <2>2, <1>1, EdgeCount
  <2>4. Size(U, mem[c].left) \in Nat
    BY <2>1, <2>2, <1>2, SizesOf
  <2>5. Rank(c) = Rank(n) + Size(U, mem[c].left) + 1
    BY <2>3, <2>4, <1>3
  <2> QED
    BY <2>1, <2>5
<1>6. ASSUME mem[n].left # Nil
      PROVE  Rank(mem[n].left) = Rank(n) - Size(U, mem[mem[n].left].right) - 1
  <2>1. PICK c : c = mem[n]["left"]
    OBVIOUS
  <2>2. c # Nil /\ c \in members
    BY <2>1, <1>2, <1>6
  <2>3. Cardinality(Ahead("right", c)) = Cardinality(Ahead("right", n)) + 1 + Size(U, mem[c]["right"])
    BY <2>1, <2>2, <1>1, EdgeCount
  <2>4. Size(U, mem[c].right) \in Nat
    BY <2>2, SizesOf
  <2>5. Rank(c) = Rank(n) - Size(U, mem[c].right) - 1
    BY <2>2, <2>3, <2>4, <1>2, <1>3, <1>4
  <2> QED
    BY <2>1, <2>5
<1>7. Rank(n) < Cardinality(members)
  BY <1>2, <1>3, <1>4
<1> QED
  BY <1>3, <1>5, <1>6, <1>7

(* Where the root is. *)
LEMMA RootRank ==
  ASSUME NEW U, SoundTree(U), tree \in members
  PROVE  Rank(tree) = Size(U, mem[tree].left) /\ Cardinality(members) = Size(U, tree)
<1>1. /\ mem \in Nodes /\ score \in Scores /\ Nil \notin Member /\ members \subseteq Member
      /\ Shape(mem, score, members, tree, U)
  BY DEF SoundTree
<1>2. "left" \in Sides /\ "right" \in Sides /\ Other("left") = "right"
  BY DEF Sides, Other
<1>3. tree \in Member /\ Sub(U, tree) = members /\ U[tree] = members
  BY <1>1 DEF Shape, Rooted, Sub
<1>4. PICK A : A = Sub(U, mem[tree]["left"])
  OBVIOUS
<1>5. PICK B : B = Sub(U, mem[tree]["right"])
  OBVIOUS
<1>6. members = {tree} \cup A \cup B /\ A \subseteq members
  <2>1. U[tree] = {tree} \cup Sub(U, mem[tree]["left"]) \cup Sub(U, mem[tree][Other("left")])
        /\ Sub(U, mem[tree]["left"]) \subseteq members
    BY <1>1, <1>2, SubtreeForks
  <2> QED
    BY <2>1, <1>2, <1>3, <1>4, <1>5
<1>7. /\ \A m \in A : Before(score, m, tree)
      /\ \A m \in B : Before(score, tree, m)
  BY <1>1, <1>2, <1>4, <1>5 DEF Shape, Sorts, Toward
<1>8. \A m \in members : Before(score, m, tree) <=> m \in A
  <2> SUFFICES ASSUME NEW m \in members, Before(score, m, tree), m \notin A
               PROVE  FALSE
    BY <1>7
  <2>1. m = tree \/ Before(score, tree, m)
    BY <1>6, <1>7
  <2>2. m \in Member
    BY <1>1
  <2> QED
    BY <2>1, <2>2, <1>1, <1>3, BeforeOrders
<1>9. {m \in members : zless(m, tree)} = A
  BY <1>6, <1>8, ZlessIsBefore
<1> QED
  BY <1>3, <1>4, <1>9 DEF Rank, Size

(* Up and down the tree by parent pointers. *)
LEMMA ParentSize ==
  ASSUME NEW U, SoundTree(U), NEW x \in members, NEW p, p = mem[x].parent
  PROVE  /\ p = Nil => x = tree
         /\ p # Nil => /\ p \in members /\ Size(U, x) < Size(U, p)
                       /\ mem[p].right = x \/ mem[p].left = x
<1>1. /\ mem \in Nodes /\ score \in Scores /\ Nil \notin Member /\ members \subseteq Member
      /\ Shape(mem, score, members, tree, U)
  BY DEF SoundTree
<1>2. p = Nil => x = tree
  BY <1>1 DEF Shape, Hangs
<1>3. ASSUME p # Nil
      PROVE  p \in members /\ Size(U, x) < Size(U, p) /\ (mem[p].right = x \/ mem[p].left = x)
  <2>1. x # tree
    BY <1>1, <1>3 DEF Shape, Rooted
  <2>2. p \in members /\ \E s \in Sides : mem[p][s] = x
    BY <2>1, <1>1 DEF Shape, Hangs
  <2>3. x # Nil
    BY <1>1
  <2>4. mem[p].right = x \/ mem[p].left = x
    BY <2>2 DEF Sides
  <2>5. /\ Size(U, p) = 1 + Size(U, mem[p].left) + Size(U, mem[p].right)
        /\ Size(U, mem[p].left) \in Nat /\ Size(U, mem[p].right) \in Nat
    BY <2>2, SizesOf
  <2>6. Size(U, x) < Size(U, p)
    BY <2>4, <2>5
  <2> QED
    BY <2>2, <2>4, <2>6
<1> QED
  BY <1>2, <1>3

(* The walk of avl_offset from n is at the node it says, or has left a     *)
(* tree without the node it looks for.                                     *)
OnTheWay(n, k, w) ==
  /\ w \in [node : members \cup {Nil}, pos : Int]
  /\ w.node = Nil => \A m \in members : Rank(m) # Rank(n) + k
  /\ w.node # Nil => w.pos = Rank(w.node) - Rank(n)
(* The rank t is in x's subtree. *)
Within(U, x, t) == Rank(x) - Size(U, mem[x].left) <= t /\ t <= Rank(x) + Size(U, mem[x].right)
(* How long the walk may still be: down, or up to the root and down.       *)
Far(U, n, k, w) ==
  IF Arrived(w, k) THEN 0
  ELSE IF Within(U, w.node, Rank(n) + k) THEN Size(U, w.node)
  ELSE 2 * Cardinality(members) - Size(U, w.node)

(* A step to the right keeps the rank it looks for in the subtree ... *)
LEMMA StepRight ==
  ASSUME NEW U, SoundTree(U), NEW x \in members, NEW d \in Int, NEW b \in Int, NEW k \in Int,
         d = Rank(x) - b, d < k, d + avl_count(mem, mem[x].right) >= k,
         NEW r, r = mem[x].right
  PROVE  /\ r \in members /\ Size(U, r) < Size(U, x)
         /\ Within(U, x, b + k) /\ Within(U, r, b + k)
         /\ d + avl_count(mem, mem[r].left) + 1 = Rank(r) - b
<1>1. /\ avl_count(mem, mem[x].right) = Size(U, r) /\ Size(U, r) \in Nat
      /\ Size(U, mem[x].left) \in Nat
      /\ Size(U, x) = 1 + Size(U, mem[x].left) + Size(U, r)
      /\ r \in members \cup {Nil} /\ Size(U, Nil) = 0
  BY SizesOf
<1>2. Size(U, r) > 0
  BY <1>1
<1>3. r # Nil /\ r \in members
  BY <1>1, <1>2
<1>4. /\ avl_count(mem, mem[r].left) = Size(U, mem[r].left)
      /\ Size(U, mem[r].left) \in Nat /\ Size(U, mem[r].right) \in Nat
      /\ Size(U, r) = 1 + Size(U, mem[r].left) + Size(U, mem[r].right)
  BY <1>3, SizesOf
<1>5. Rank(r) = Rank(x) + Size(U, mem[r].left) + 1 /\ Rank(x) \in Nat /\ Rank(r) \in Nat
  BY <1>3, ChildRank
<1>6. Within(U, x, b + k)
  BY <1>1, <1>5 DEF Within
<1>7. Within(U, r, b + k)
  BY <1>1, <1>4, <1>5 DEF Within
<1> QED
  BY <1>1, <1>3, <1>4, <1>5, <1>6, <1>7

(* ... so does one to the left ... *)
LEMMA StepLeft ==
  ASSUME NEW U, SoundTree(U), NEW x \in members, NEW d \in Int, NEW b \in Int, NEW k \in Int,
         d = Rank(x) - b, d > k, d - avl_count(mem, mem[x].left) <= k,
         NEW l, l = mem[x].left
  PROVE  /\ l \in members /\ Size(U, l) < Size(U, x)
         /\ Within(U, x, b + k) /\ Within(U, l, b + k)
         /\ d - (avl_count(mem, mem[l].right) + 1) = Rank(l) - b
<1>1. /\ avl_count(mem, mem[x].left) = Size(U, l) /\ Size(U, l) \in Nat
      /\ Size(U, mem[x].right) \in Nat
      /\ Size(U, x) = 1 + Size(U, l) + Size(U, mem[x].right)
      /\ l \in members \cup {Nil} /\ Size(U, Nil) = 0
  BY SizesOf
<1>2. Size(U, l) > 0
  BY <1>1
<1>3. l # Nil /\ l \in members
  BY <1>1, <1>2
<1>4. /\ avl_count(mem, mem[l].right) = Size(U, mem[l].right)
      /\ Size(U, mem[l].left) \in Nat /\ Size(U, mem[l].right) \in Nat
      /\ Size(U, l) = 1 + Size(U, mem[l].left) + Size(U, mem[l].right)
  BY <1>3, SizesOf
<1>5. Rank(l) = Rank(x) - Size(U, mem[l].right) - 1 /\ Rank(x) \in Nat /\ Rank(l) \in Nat
  BY <1>3, ChildRank
<1>6. Within(U, x, b + k)
  BY <1>1, <1>5 DEF Within
<1>7. Within(U, l, b + k)
  BY <1>1, <1>4, <1>5 DEF Within
<1> QED
  BY <1>1, <1>3, <1>4, <1>5, <1>6, <1>7

(* ... and one up is taken only when the rank is not there. *)
LEMMA StepUp ==
  ASSUME NEW U, SoundTree(U), NEW x \in members, NEW d \in Int, NEW b \in Int, NEW k \in Int,
         d = Rank(x) - b, d # k,
         ~(d < k /\ d + avl_count(mem, mem[x].right) >= k),
         ~(d > k /\ d - avl_count(mem, mem[x].left) <= k),
         NEW p, p = mem[x].parent
  PROVE  /\ ~Within(U, x, b + k)
         /\ p = Nil => \A m \in members : Rank(m) # b + k
         /\ p # Nil =>
              /\ p \in members /\ Size(U, x) < Size(U, p)
              /\ mem[p].right = x => d - (avl_count(mem, mem[x].left) + 1) = Rank(p) - b
              /\ mem[p].right # x => d + avl_count(mem, mem[x].right) + 1 = Rank(p) - b
<1>1. /\ avl_count(mem, mem[x].left) = Size(U, mem[x].left) /\ Size(U, mem[x].left) \in Nat
      /\ avl_count(mem, mem[x].right) = Size(U, mem[x].right) /\ Size(U, mem[x].right) \in Nat
      /\ Size(U, x) = 1 + Size(U, mem[x].left) + Size(U, mem[x].right) /\ x # Nil
  BY SizesOf
<1>2. Rank(x) \in Nat
  BY ChildRank
<1>3. ~Within(U, x, b + k)
  BY <1>1, <1>2 DEF Within
<1>4. ASSUME p = Nil, NEW m \in members
      PROVE  Rank(m) # b + k
  <2>1. x = tree
    BY <1>4, ParentSize
  <2>2. Rank(x) = Size(U, mem[x].left) /\ Cardinality(members) = Size(U, x)
    BY <2>1, RootRank
  <2>3. Rank(m) \in Nat /\ Rank(m) < Cardinality(members)
    BY ChildRank
  <2>4. b + k < Rank(x) - Size(U, mem[x].left) \/ b + k > Rank(x) + Size(U, mem[x].right)
    BY <1>1, <1>2, <1>3 DEF Within
  <2> QED
    BY <2>2, <2>3, <2>4, <1>1
<1>5. ASSUME p # Nil
      PROVE  /\ p \in members /\ Size(U, x) < Size(U, p)
             /\ mem[p].right = x => d - (avl_count(mem, mem[x].left) + 1) = Rank(p) - b
             /\ mem[p].right # x => d + avl_count(mem, mem[x].right) + 1 = Rank(p) - b
  <2>1. p \in members /\ Size(U, x) < Size(U, p) /\ (mem[p].right = x \/ mem[p].left = x)
    BY <1>5, ParentSize
  <2>2. /\ mem[p].right = x => Rank(x) = Rank(p) + Size(U, mem[x].left) + 1
        /\ mem[p].left = x => Rank(x) = Rank(p) - Size(U, mem[x].right) - 1
        /\ Rank(p) \in Nat
    BY <2>1, <1>1, ChildRank
  <2> QED
    BY <2>1, <2>2, <1>1, <1>2
<1> QED
  BY <1>3, <1>4, <1>5

(* Every step of avl_offset gets nearer. *)
LEMMA WalkStep ==
  ASSUME NEW U, SoundTree(U), NEW n \in members, NEW k \in Int, NEW w, OnTheWay(n, k, w)
  PROVE  /\ OnTheWay(n, k, Walk(w, k)) /\ Far(U, n, k, w) \in Nat
         /\ Arrived(w, k) => Walk(w, k) = w
         /\ ~Arrived(w, k) => Far(U, n, k, Walk(w, k)) < Far(U, n, k, w)
<1>1. Arrived(w, k) => Walk(w, k) = w /\ Far(U, n, k, w) = 0
  BY DEF Walk, Far
<1>2. ASSUME ~Arrived(w, k)
      PROVE  /\ OnTheWay(n, k, Walk(w, k)) /\ Far(U, n, k, w) \in Nat
             /\ Far(U, n, k, Walk(w, k)) < Far(U, n, k, w)
  <2>1. PICK x : x = w.node
    OBVIOUS
  <2>2. PICK d : d = w.pos
    OBVIOUS
  <2>3. PICK b : b = Rank(n)
    OBVIOUS
  <2>4. b \in Nat
    BY <2>3, ChildRank
  <2>5. x \in members /\ d \in Int /\ d = Rank(x) - b /\ d # k
    BY <1>2, <2>1, <2>2, <2>3 DEF OnTheWay, Arrived
  <2>6. PICK c : c = Cardinality(members)
    OBVIOUS
  <2>7. \A m \in members : /\ Size(U, m) \in Nat /\ Size(U, m) > 0 /\ Size(U, m) <= c /\ m # Nil
    <3> TAKE m \in members
    <3>1. /\ Size(U, mem[m].left) \in Nat /\ Size(U, mem[m].right) \in Nat
          /\ Size(U, m) = 1 + Size(U, mem[m].left) + Size(U, mem[m].right)
          /\ Size(U, m) <= c /\ m # Nil
      BY <2>6, SizesOf
    <3> QED
      BY <3>1
  <2>8. c \in Nat
    BY <2>5, <2>6, SizesOf
  <2>9. Far(U, n, k, w) = IF Within(U, x, b + k) THEN Size(U, x) ELSE 2 * c - Size(U, x)
    BY <1>2, <2>1, <2>3, <2>6 DEF Far
  <2>10. \A v : Far(U, n, k, v) = IF Arrived(v, k) THEN 0
                                  ELSE IF Within(U, v.node, b + k) THEN Size(U, v.node)
                                  ELSE 2 * c - Size(U, v.node)
    BY <2>3, <2>6 DEF Far
  <2>11. CASE GoRight(w, k)
    <3>1. PICK r : r = mem[x].right
      OBVIOUS
    <3>2. d < k /\ d + avl_count(mem, mem[x].right) >= k
      BY <2>1, <2>2, <2>11 DEF GoRight
    <3>3. /\ r \in members /\ Size(U, r) < Size(U, x)
          /\ Within(U, x, b + k) /\ Within(U, r, b + k)
          /\ d + avl_count(mem, mem[r].left) + 1 = Rank(r) - b
      BY <3>1, <3>2, <2>4, <2>5, StepRight
    <3>4. PICK e : e = d + avl_count(mem, mem[r].left) + 1
      OBVIOUS
    <3>5. PICK v : v = Walk(w, k)
      OBVIOUS
    <3>6. v = [node |-> r, pos |-> e]
      BY <1>2, <2>1, <2>2, <2>11, <3>1, <3>4, <3>5 DEF Walk
    <3>7. e = Rank(r) - b /\ e \in Int
      <4>1. Rank(r) \in Nat
        BY <3>3, ChildRank
      <4> QED
        BY <4>1, <3>3, <3>4, <2>4
    <3>8. OnTheWay(n, k, v)
      BY <3>3, <3>6, <3>7, <2>3, <2>7 DEF OnTheWay
    <3>9. Far(U, n, k, v) = 0 \/ Far(U, n, k, v) = Size(U, r)
      BY <3>3, <3>6, <2>10
    <3> QED
      BY <3>3, <3>5, <3>8, <3>9, <2>5, <2>7, <2>9
  <2>12. CASE ~GoRight(w, k) /\ GoLeft(w, k)
    <3>1. PICK l : l = mem[x].left
      OBVIOUS
    <3>2. d > k /\ d - avl_count(mem, mem[x].left) <= k
      BY <2>1, <2>2, <2>12 DEF GoLeft
    <3>3. /\ l \in members /\ Size(U, l) < Size(U, x)
          /\ Within(U, x, b + k) /\ Within(U, l, b + k)
          /\ d - (avl_count(mem, mem[l].right) + 1) = Rank(l) - b
      BY <3>1, <3>2, <2>4, <2>5, StepLeft
    <3>4. PICK e : e = d - (avl_count(mem, mem[l].right) + 1)
      OBVIOUS
    <3>5. PICK v : v = Walk(w, k)
      OBVIOUS
    <3>6. v = [node |-> l, pos |-> e]
      BY <1>2, <2>1, <2>2, <2>12, <3>1, <3>4, <3>5 DEF Walk
    <3>7. e = Rank(l) - b /\ e \in Int
      <4>1. Rank(l) \in Nat
        BY <3>3, ChildRank
      <4> QED
        BY <4>1, <3>3, <3>4, <2>4
    <3>8. OnTheWay(n, k, v)
      BY <3>3, <3>6, <3>7, <2>3, <2>7 DEF OnTheWay
    <3>9. Far(U, n, k, v) = 0 \/ Far(U, n, k, v) = Size(U, l)
      BY <3>3, <3>6, <2>10
    <3> QED
      BY <3>3, <3>5, <3>8, <3>9, <2>5, <2>7, <2>9
  <2>13. CASE ~GoRight(w, k) /\ ~GoLeft(w, k)
    <3>1. PICK p : p = mem[x].parent
      OBVIOUS
    <3>2. /\ ~(d < k /\ d + avl_count(mem, mem[x].right) >= k)
          /\ ~(d > k /\ d - avl_count(mem, mem[x].left) <= k)
      BY <2>1, <2>2, <2>13 DEF GoRight, GoLeft
    <3>3. /\ ~Within(U, x, b + k)
          /\ p = Nil => \A m \in members : Rank(m) # b + k
          /\ p # Nil =>
               /\ p \in members /\ Size(U, x) < Size(U, p)
               /\ mem[p].right = x => d - (avl_count(mem, mem[x].left) + 1) = Rank(p) - b
               /\ mem[p].right # x => d + avl_count(mem, mem[x].right) + 1 = Rank(p) - b
      BY <3>1, <3>2, <2>4, <2>5, StepUp
    <3>4. PICK e : e = IF p # Nil /\ mem[p].right = x THEN d - (avl_count(mem, mem[x].left) + 1)
                       ELSE d + avl_count(mem, mem[x].right) + 1
      OBVIOUS
    <3>5. PICK v : v = Walk(w, k)
      OBVIOUS
    <3>6. v = [node |-> p, pos |-> e]
      BY <1>2, <2>1, <2>2, <2>13, <3>1, <3>4, <3>5 DEF Walk
    <3>7. e \in Int
      <4>1. avl_count(mem, mem[x].left) \in Nat /\ avl_count(mem, mem[x].right) \in Nat
        BY <2>5, SizesOf
      <4> QED
        BY <4>1, <3>4, <2>5
    <3>8. p # Nil => e = Rank(p) - b
      BY <3>3, <3>4
    <3>9. OnTheWay(n, k, v)
      BY <3>3, <3>6, <3>7, <3>8, <2>3 DEF OnTheWay
    <3>10. Far(U, n, k, w) = 2 * c - Size(U, x)
      BY <3>3, <2>9
    <3>11. Far(U, n, k, w) \in Nat /\ Far(U, n, k, w) > 0
      BY <3>10, <2>5, <2>7, <2>8
    <3>12. CASE Arrived(v, k)
      BY <3>5, <3>9, <3>11, <3>12, <2>10
    <3>13. CASE ~Arrived(v, k)
      <4>1. p # Nil
        BY <3>6, <3>13 DEF Arrived
      <4>2. p \in members /\ Size(U, x) < Size(U, p) /\ Size(U, p) <= c /\ Size(U, p) \in Nat
        BY <4>1, <3>3, <2>7
      <4>3. Far(U, n, k, v) = Size(U, p) \/ Far(U, n, k, v) = 2 * c - Size(U, p)
        BY <3>6, <3>13, <2>10
      <4>4. Far(U, n, k, v) < Far(U, n, k, w)
        BY <4>2, <4>3, <3>10, <2>5, <2>7, <2>8
      <4> QED
        BY <4>4, <3>5, <3>9, <3>11
    <3> QED
      BY <3>12, <3>13
  <2> QED
    BY <2>11, <2>12, <2>13
<1> QED
  BY <1>1, <1>2

(* So it arrives within twice the number of members. *)
LEMMA OffsetWalk ==
  ASSUME NEW U, SoundTree(U), NEW n \in members, NEW k \in Int
  PROVE  \E w : OnTheWay(n, k, w) /\ Arrived(w, k) /\ avl_offset(n, k) = w.node
<1> DEFINE c == 2 * Cardinality(members)
           start == [node |-> n, pos |-> 0]
           V == {w \in [node : members \cup {Nil}, pos : Int] : OnTheWay(n, k, w)}
           step == [w \in V |-> Walk(w, k)]
           Steps(g) == g = [i \in 0..c |-> IF i = 0 THEN [node |-> n, pos |-> 0]
                                                    ELSE Walk(g[i - 1], k)]
           h == CHOOSE g : Steps(g)
<1>1. /\ c \in Nat /\ Cardinality(members) \in Nat /\ n # Nil
      /\ 0 < Size(U, n) /\ Size(U, n) <= Cardinality(members) /\ Size(U, n) \in Nat
  <2>1. /\ Size(U, mem[n].left) \in Nat /\ Size(U, mem[n].right) \in Nat
        /\ Size(U, n) = 1 + Size(U, mem[n].left) + Size(U, mem[n].right)
        /\ Size(U, n) <= Cardinality(members) /\ n # Nil /\ Cardinality(members) \in Nat
    BY SizesOf
  <2> QED
    BY <2>1
<1>2. avl_offset(n, k) = h[c].node
  BY DEF avl_offset
<1>3. OnTheWay(n, k, start)
  <2>1. Rank(n) \in Nat
    BY ChildRank
  <2> QED
    BY <2>1, <1>1 DEF OnTheWay
<1>4. \A w : w \in V <=> OnTheWay(n, k, w)
  BY DEF OnTheWay
<1>5. step \in [V -> V] /\ \A w \in V : step[w] = Walk(w, k)
  <2>1. \A w \in V : Walk(w, k) \in V
    <3> TAKE w \in V
    <3>1. OnTheWay(n, k, Walk(w, k))
      BY <1>4, WalkStep
    <3> QED
      BY <3>1, <1>4
  <2> QED
    BY <2>1
<1> HIDE DEF c, V, step
<1>6. \E f \in [0..c -> V] : Iterated(f, c, start, step)
  <2>1. start \in V
    BY <1>3, <1>4
  <2> HIDE DEF start
  <2> QED
    BY <2>1, <1>1, <1>5, Iterates
<1>7. PICK f \in [0..c -> V] : \A i \in 0..c : f[i] = IF i = 0 THEN start ELSE step[f[i - 1]]
  BY <1>6 DEF Iterated
<1>8. Steps(f)
  <2>1. \A i \in 0..c : f[i] = IF i = 0 THEN start ELSE Walk(f[i - 1], k)
    <3> TAKE i \in 0..c
    <3>1. i # 0 => f[i - 1] \in V
      BY <1>1, <1>7
    <3> HIDE DEF start
    <3> QED
      BY <3>1, <1>5, <1>7
  <2>2. f = [i \in 0..c |-> f[i]]
    BY <1>7
  <2> QED
    BY <2>1, <2>2
<1>9. Steps(h)
  <2> HIDE DEF Steps
  <2> QED
    BY <1>8
<1> HIDE DEF h
<1>10. \A i \in 0..c : h[i] = IF i = 0 THEN start ELSE Walk(h[i - 1], k)
  BY <1>9
<1> DEFINE Good(i) == OnTheWay(n, k, h[i]) /\ (Far(U, n, k, h[i]) <= c - i \/ Arrived(h[i], k))
           B == {i \in 0..c : ~Good(i)}
<1>11. B = {}
  <2> SUFFICES ASSUME B # {} PROVE FALSE
    OBVIOUS
  <2>1. B \in SUBSET Nat
    BY <1>1
  <2>2. PICK i \in B : \A j \in B : i <= j
    BY <2>1, LeastNat
  <2>3. i # 0
    <3>1. h[0] = start /\ start.node = n
      BY <1>1, <1>10
    <3>2. Far(U, n, k, start) <= c
      <4>1. Far(U, n, k, start) \in {0, Size(U, n), 2 * Cardinality(members) - Size(U, n)}
        BY <3>1 DEF Far
      <4> QED
        BY <4>1, <1>1 DEF c
    <3>3. Good(0)
      <4> HIDE DEF start
      <4> QED
        BY <3>1, <3>2, <1>1, <1>3
    <3> QED
      BY <3>3
  <2>4. i \in Nat /\ i \in 0..c /\ i - 1 \in 0..c /\ ~(i <= i - 1)
    BY <1>1, <2>3
  <2>5. Good(i - 1)
    BY <2>2, <2>4
  <2>6. PICK w : w = h[i - 1]
    OBVIOUS
  <2>7. h[i] = Walk(w, k)
    BY <1>10, <2>3, <2>6
  <2>8. OnTheWay(n, k, w) /\ (Far(U, n, k, w) <= c - (i - 1) \/ Arrived(w, k))
    BY <2>5, <2>6
  <2>9. /\ OnTheWay(n, k, Walk(w, k)) /\ Far(U, n, k, w) \in Nat
        /\ Arrived(w, k) => Walk(w, k) = w
        /\ ~Arrived(w, k) => Far(U, n, k, Walk(w, k)) < Far(U, n, k, w)
    BY <2>8, WalkStep
  <2>10. Far(U, n, k, Walk(w, k)) \in Nat
    BY <2>9, WalkStep
  <2>11. CASE Arrived(w, k)
    BY <2>7, <2>8, <2>9, <2>11
  <2>12. CASE ~Arrived(w, k)
    <3>1. Far(U, n, k, Walk(w, k)) <= c - i
      BY <2>4, <2>8, <2>9, <2>10, <2>12, <1>1
    <3> QED
      BY <3>1, <2>7, <2>9
  <2> QED
    BY <2>11, <2>12
<1>12. PICK w : w = h[c]
  OBVIOUS
<1>13. OnTheWay(n, k, w) /\ (Far(U, n, k, w) <= 0 \/ Arrived(w, k))
  <2>1. Good(c)
    BY <1>1, <1>11
  <2> QED
    BY <2>1, <1>1, <1>12
<1>14. Arrived(w, k)
  <2> SUFFICES ASSUME ~Arrived(w, k) PROVE FALSE
    OBVIOUS
  <2>1. Far(U, n, k, Walk(w, k)) < Far(U, n, k, w) /\ Far(U, n, k, w) \in Nat
        /\ OnTheWay(n, k, Walk(w, k))
    BY <1>13, WalkStep
  <2>2. Far(U, n, k, Walk(w, k)) \in Nat
    BY <2>1, WalkStep
  <2> QED
    BY <2>1, <2>2, <1>13
<1> QED
  BY <1>2, <1>12, <1>13, <1>14

(* Between two commands avl_offset finds, from any node, the node that     *)
(* many places before or after it in the order of zless, or NULL where     *)
(* there is none, as long as avl_fix has rotated at the root only.         *)
THEOREM OffsetIsExact == Spec => []OffsetExact
<1>1. ASSUME SetInv, Idle, NEW n \in members, NEW k \in -Cardinality(Member)..Cardinality(Member)
      PROVE  LET there == {m \in members : Rank(m) = Rank(n) + k}
             IN avl_offset(n, k) = IF there = {} THEN Nil ELSE CHOOSE m \in there : TRUE
  <2>1. PICK U : SoundTree(U)
    BY <1>1, AtIdle DEF SoundTree
  <2>2. k \in Int
    BY SortedSetAssumption, FS_CardinalityType
  <2>3. PICK w : OnTheWay(n, k, w) /\ Arrived(w, k) /\ avl_offset(n, k) = w.node
    BY <2>1, <2>2, OffsetWalk
  <2>4. PICK there : there = {m \in members : Rank(m) = Rank(n) + k}
    OBVIOUS
  <2>5. PICK x : x = w.node
    OBVIOUS
  <2>6. \A m \in members : m # Nil
    BY <2>1, SizesOf
  <2>7. CASE x = Nil
    <3>1. there = {}
      BY <2>3, <2>4, <2>5, <2>7 DEF OnTheWay
    <3> QED
      BY <3>1, <2>3, <2>4, <2>5, <2>7
  <2>8. CASE x # Nil
    <3>1. x \in members /\ k = Rank(x) - Rank(n)
      BY <2>3, <2>5, <2>8 DEF OnTheWay, Arrived
    <3>2. Rank(x) \in Nat /\ Rank(n) \in Nat
      BY <3>1, <2>1, ChildRank
    <3>3. Rank(x) = Rank(n) + k
      BY <3>1, <3>2
    <3>4. \A m \in there : m = x
      <4> TAKE m \in there
      <4>1. m \in members /\ Rank(m) = Rank(x)
        BY <3>3, <2>4
      <4> QED
        BY <4>1, <3>1, <2>1, RanksDiffer
    <3>5. there = {x}
      BY <3>1, <3>3, <3>4, <2>4
    <3>6. (CHOOSE m \in there : TRUE) = x /\ there # {}
      BY <3>5
    <3> QED
      BY <3>6, <2>3, <2>4, <2>5
  <2> QED
    BY <2>7, <2>8
<1>2. SetInv => OffsetExact
  BY <1>1 DEF OffsetExact
<1> QED
  BY <1>2, InvHolds, PTL
=============================================================================
