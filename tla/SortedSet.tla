----------------------------- MODULE SortedSet -----------------------------
(***************************************************************************)
(* One sorted set (zset.cpp): ZNodes that are in a hash map by name and in *)
(* an AVL tree (AVL.cpp) by score and name.  The loops of tree_add,        *)
(* avl_fix and avl_del are taken one iteration a step, on the pointers     *)
(* and the counts the code keeps in each node.                             *)
(*                                                                         *)
(* The hash map is used through its contract: a member is found by name    *)
(* (HashMap.tla).  The one exception is hm_delete, see Popped.             *)
(***************************************************************************)
EXTENDS Integers, SequencesExt

CONSTANTS
  Member,  \* the members' ZNodes, numbered in the order of their names
  Score,
  Nil      \* the null pointer

ASSUME SortedSetAssumption ==
  /\ Member \subseteq Nat /\ IsFiniteSet(Member) /\ Score \subseteq Int
  /\ Nil \notin Member

VARIABLES
  members, \* the ZNodes in zset->hmap
  tree,    \* zset->tree
  mem,     \* mem[m]: the AVLNode of m
  score,
  pc,      \* the loop that runs, "idle" between commands, "dead" after a fault
  arg,     \* the ZNode the command is about, its new score, and whether it is popped
  node,    \* the cursor of the loop
  stack,   \* the arguments of the calls of avl_del that have not returned
  root,    \* what the innermost of them will return
  inner    \* avl_fix has rotated a subtree that is not the whole tree

vars == <<members, tree, mem, score, pc, arg, node, stack, root, inner>>

avl_init == [left |-> Nil, right |-> Nil, parent |-> Nil, count |-> 1, depth |-> 1]
NoArg == [m |-> Nil, score |-> 0, pop |-> FALSE]

Init ==
  /\ members = {} /\ tree = Nil
  /\ mem = [m \in Member |-> avl_init] /\ score = [m \in Member |-> 0]
  /\ pc = "idle" /\ arg = NoArg /\ node = Nil /\ stack = <<>> /\ root = Nil
  /\ inner = FALSE

(* zless: by score, then by name. *)
zless(a, b) == score[a] < score[b] \/ (score[a] = score[b] /\ a < b)

-----------------------------------------------------------------------------
(* AVL.cpp on the nodes M.  The two directions of each function are one    *)
(* operator with the side as a parameter.                                  *)
Other(side) == IF side = "left" THEN "right" ELSE "left"

avl_depth(M, n) == IF n = Nil THEN 0 ELSE M[n].depth
avl_count(M, n) == IF n = Nil THEN 0 ELSE M[n].count

(* Mutant of avl_update: the node itself is not counted. *)
UpdateNoSelf(M, n) ==
  [M EXCEPT ![n].depth = 1 + Max({avl_depth(M, M[n].left), avl_depth(M, M[n].right)}),
            ![n].count = avl_count(M, M[n].left) + avl_count(M, M[n].right)]

avl_update(M, n) ==
  [M EXCEPT ![n].depth = 1 + Max({avl_depth(M, M[n].left), avl_depth(M, M[n].right)}),
            ![n].count = 1 + avl_count(M, M[n].left) + avl_count(M, M[n].right)]

Adopt(M, n, p) == IF n = Nil THEN M ELSE [M EXCEPT ![n].parent = p]

(* rot_left (side is "right") and rot_right: the child on that side goes   *)
(* up.  The pointer from the parent to n is left to the caller.            *)
Rotate(M, n, side) ==
  LET top    == M[n][side]
      middle == M[top][Other(side)]
      turned == [Adopt(M, middle, n) EXCEPT
                   ![n][side] = middle, ![n].parent = top,
                   ![top][Other(side)] = n, ![top].parent = M[n].parent]
  IN avl_update(avl_update(turned, n), top)

(* avl_fix_left and avl_fix_right, up to their last rotation. *)
Straightened(M, n, side) ==
  LET child == M[n][side]
  IN IF avl_depth(M, M[child][side]) < avl_depth(M, M[child][Other(side)])
     THEN [Rotate(M, child, Other(side)) EXCEPT ![n][side] = M[child][Other(side)]]
     ELSE M

Heavy(M, n) ==
  LET l == avl_depth(M, M[n].left)
      r == avl_depth(M, M[n].right)
  IN IF l = r + 2 THEN "left" ELSE IF l + 2 = r THEN "right" ELSE "none"

(* The nodes and the top of n's subtree after one iteration of avl_fix. *)
Fixed(n) ==
  LET M == avl_update(mem, n)
      side == Heavy(M, n)
      S == Straightened(M, n, side)
  IN IF side = "none" THEN [mem |-> M, top |-> n]
     ELSE [mem |-> Rotate(S, n, side), top |-> S[n][side]]

(* The pointer to n in its parent p gets the value c. *)
Relink(M, p, n, c) ==
  IF M[p].left = n THEN [M EXCEPT ![p].left = c] ELSE [M EXCEPT ![p].right = c]

-----------------------------------------------------------------------------
(* Bound: the model ends with the first rotation after which the tree no   *)
(* longer holds all members.                                               *)
Idle == pc = "idle" /\ ~inner

(* zset_add of a new member: avl_init, hm_insert, tree_add. *)
AddNew(m, s) ==
  /\ Idle /\ m \notin members
  /\ members' = members \cup {m}
  /\ score' = [score EXCEPT ![m] = s]
  /\ mem' = [mem EXCEPT ![m] = avl_init]
  /\ arg' = [m |-> m, score |-> s, pop |-> FALSE]
  /\ pc' = "descend" /\ node' = Nil
  /\ UNCHANGED <<tree, stack, root, inner>>

(* zset_update and zset_pop begin with avl_del. *)
StartDel(m, s, pop) ==
  /\ Idle /\ m \in members
  /\ arg' = [m |-> m, score |-> s, pop |-> pop]
  /\ pc' = "del" /\ stack' = <<m>>
  /\ UNCHANGED <<members, tree, mem, score, node, root, inner>>

zset_update(m, s) == m \in members /\ score[m] # s /\ StartDel(m, s, FALSE)
zset_pop(m) == StartDel(m, 0, TRUE)

(* tree_add: "from" points to the tree, or to the child x belongs under. *)
Side(x, n) == IF zless(x, n) THEN "left" ELSE "right"
From == IF node = Nil THEN tree ELSE mem[node][Side(arg.m, node)]

Descend ==
  /\ pc = "descend" /\ From # Nil
  /\ node' = From
  /\ UNCHANGED <<members, tree, mem, score, pc, arg, stack, root, inner>>

Attach ==
  /\ pc = "descend" /\ From = Nil
  /\ LET x == arg.m
     IN IF node = Nil THEN tree' = x /\ UNCHANGED mem
        ELSE /\ mem' = [mem EXCEPT ![x].parent = node, ![node][Side(x, node)] = x]
             /\ UNCHANGED tree
  /\ pc' = "fix" /\ node' = arg.m
  /\ UNCHANGED <<members, score, arg, stack, root, inner>>

(* One iteration of avl_fix.  Nothing makes the parent point to the top of *)
(* a rotated subtree.  At the root avl_fix returns, to tree_add or to      *)
(* avl_del.                                                                *)
FixUp ==
  /\ pc = "fix"
  /\ LET u == Fixed(node)
         parent == mem[node].parent
     IN /\ mem' = u.mem
        /\ inner' = (inner \/ (parent # Nil /\ u.top # node))
        /\ IF parent # Nil
           THEN node' = parent /\ UNCHANGED <<tree, root, pc, arg>>
           ELSE /\ node' = Nil
                /\ IF stack = <<>>
                   THEN tree' = u.top /\ pc' = "idle" /\ arg' = NoArg /\ UNCHANGED root
                   ELSE root' = u.top /\ pc' = "unwind" /\ UNCHANGED <<tree, arg>>
  /\ UNCHANGED <<members, score, stack>>

(* avl_del of a node without a right child: its left child replaces it. *)
Detach ==
  LET n == Last(stack)
      p == mem[n].parent
      M == Adopt(mem, mem[n].left, p)
  IN /\ pc = "del" /\ mem[n].right = Nil
     /\ IF p = Nil
        THEN mem' = M /\ root' = mem[n].left /\ pc' = "unwind" /\ UNCHANGED node
        ELSE mem' = Relink(M, p, n, mem[n].left) /\ node' = p /\ pc' = "fix" /\ UNCHANGED root
     /\ UNCHANGED <<members, tree, score, arg, stack, inner>>

(* avl_del of any other node: its successor is deleted first. *)
SeekRight ==
  /\ pc = "del" /\ mem[Last(stack)].right # Nil
  /\ node' = mem[Last(stack)].right /\ pc' = "seek"
  /\ UNCHANGED <<members, tree, mem, score, arg, stack, root, inner>>

SeekLeft ==
  /\ pc = "seek" /\ mem[node].left # Nil
  /\ node' = mem[node].left
  /\ UNCHANGED <<members, tree, mem, score, pc, arg, stack, root, inner>>

DelVictim ==
  /\ pc = "seek" /\ mem[node].left = Nil
  /\ stack' = Append(stack, node) /\ node' = Nil /\ pc' = "del"
  /\ UNCHANGED <<members, tree, mem, score, arg, root, inner>>

(* Mutant of SwapWithVictim: the children keep their parent. *)
SwapCopyOnly ==
  LET victim == Last(stack)
      n      == stack[Len(stack) - 1]
      p      == mem[n].parent
      M      == [mem EXCEPT ![victim] = mem[n]]
  IN /\ pc = "unwind" /\ Len(stack) > 1
     /\ IF p = Nil THEN mem' = M /\ root' = victim
        ELSE mem' = Relink(M, p, n, victim) /\ UNCHANGED root
     /\ stack' = Front(stack)
     /\ UNCHANGED <<members, tree, score, pc, arg, node, inner>>

(* ... and then takes its place. *)
SwapWithVictim ==
  LET victim == Last(stack)
      n      == stack[Len(stack) - 1]
      p      == mem[n].parent
      M      == Adopt(Adopt([mem EXCEPT ![victim] = mem[n]], mem[n].left, victim),
                      mem[n].right, victim)
  IN /\ pc = "unwind" /\ Len(stack) > 1
     /\ IF p = Nil THEN mem' = M /\ root' = victim
        ELSE mem' = Relink(M, p, n, victim) /\ UNCHANGED root
     /\ stack' = Front(stack)
     /\ UNCHANGED <<members, tree, score, pc, arg, node, inner>>

Deleted == pc = "unwind" /\ Len(stack) = 1

(* zset_update after avl_del: the node is added again. *)
AddAgain ==
  /\ Deleted /\ ~arg.pop
  /\ tree' = root
  /\ score' = [score EXCEPT ![arg.m] = arg.score]
  /\ mem' = [mem EXCEPT ![arg.m] = avl_init]
  /\ stack' = <<>> /\ root' = Nil /\ pc' = "descend"
  /\ UNCHANGED <<members, arg, node, inner>>

(* zset_pop after avl_del: hm_delete compares with entry_eq, which takes   *)
(* the ZNodes for Entry objects: the score is read as the pointer of a     *)
(* string as long as the name, and comparing it with itself faults.  (Only *)
(* an empty name, which no member has here, escapes.)                      *)
Popped ==
  /\ Deleted /\ arg.pop
  /\ tree' = root
  /\ stack' = <<>> /\ root' = Nil /\ pc' = "dead" /\ arg' = NoArg
  /\ UNCHANGED <<members, mem, score, node, inner>>

Next ==
  \/ \E m \in Member, s \in Score : AddNew(m, s) \/ zset_update(m, s)
  \/ \E m \in Member : zset_pop(m)
  \/ Descend \/ Attach \/ FixUp
  \/ Detach \/ SeekRight \/ SeekLeft \/ DelVictim \/ SwapWithVictim
  \/ AddAgain \/ Popped

Spec == Init /\ [][Next]_vars

-----------------------------------------------------------------------------
(* avl_offset: pos is how far the node is from where the walk began.  A    *)
(* walk in a sound tree is no longer than twice its height.                *)
Arrived(w, offset) == w.node = Nil \/ w.pos = offset

GoRight(w, offset) ==
  w.pos < offset /\ w.pos + avl_count(mem, mem[w.node].right) >= offset

(* Mutant of GoLeft: the last node to the left is missed. *)
GoLeftStrictly(w, offset) ==
  w.pos > offset /\ w.pos - avl_count(mem, mem[w.node].left) < offset

GoLeft(w, offset) ==
  w.pos > offset /\ w.pos - avl_count(mem, mem[w.node].left) <= offset

Walk(w, offset) ==
  LET l == mem[w.node].left
      r == mem[w.node].right
      p == mem[w.node].parent
  IN IF Arrived(w, offset) THEN w
     ELSE IF GoRight(w, offset)
     THEN [node |-> r, pos |-> w.pos + avl_count(mem, mem[r].left) + 1]
     ELSE IF GoLeft(w, offset)
     THEN [node |-> l, pos |-> w.pos - (avl_count(mem, mem[l].right) + 1)]
     ELSE IF p # Nil /\ mem[p].right = w.node
     THEN [node |-> p, pos |-> w.pos - (avl_count(mem, l) + 1)]
     ELSE [node |-> p, pos |-> w.pos + avl_count(mem, r) + 1]

avl_offset(n, offset) ==
  LET walk[i \in 0..2 * Cardinality(members)] ==
        IF i = 0 THEN [node |-> n, pos |-> 0] ELSE Walk(walk[i - 1], offset)
  IN walk[2 * Cardinality(members)].node
-----------------------------------------------------------------------------
Link == Member \cup {Nil}
AVLNode == [left : Link, right : Link, parent : Link,
            count : Nat \ {0}, depth : Nat \ {0}]

TypeOK ==
  /\ members \subseteq Member /\ tree \in Link
  /\ mem \in [Member -> AVLNode]
  /\ score \in [Member -> Score \cup {0}]
  /\ pc \in {"idle", "descend", "fix", "del", "seek", "unwind", "dead"}
  /\ arg \in [m : Link, score : Score \cup {0}, pop : BOOLEAN]
  /\ node \in Link /\ root \in Link
  /\ stack \in Seq(Member) /\ Len(stack) <= 3
  /\ inner \in BOOLEAN

(* The nodes on the way from n to the root, n included. *)
Above(n) ==
  LET up[i \in 0..Cardinality(Member)] ==
        IF i = 0 THEN n ELSE IF up[i - 1] = Nil THEN Nil ELSE mem[up[i - 1]].parent
  IN {up[i] : i \in DOMAIN up} \ {Nil}
Under(n) == IF n = Nil THEN {} ELSE {m \in members : n \in Above(m)}

Linked ==
  /\ \A m \in members : tree \in Above(m)
  /\ \A m \in members \ {tree} : LET p == mem[m].parent IN m \in {mem[p].left, mem[p].right}
  /\ \A n \in members, side \in {"left", "right"} :
       mem[n][side] # Nil => mem[n][side] \in members /\ mem[mem[n][side]].parent = n
Ordered ==
  \A n \in members : /\ \A m \in Under(mem[n].left) : zless(m, n)
                     /\ \A m \in Under(mem[n].right) : zless(n, m)
Counted ==
  \A n \in members :
    /\ mem[n].count = Cardinality(Under(n))
    /\ mem[n].depth = 1 + Max({avl_depth(mem, mem[n].left), avl_depth(mem, mem[n].right)})
    /\ avl_depth(mem, mem[n].left) - avl_depth(mem, mem[n].right) \in -1..1

(* Between two commands the tree holds every member of the hash map, in    *)
(* order, balanced, with right counts and pointers both ways -- as long as *)
(* avl_fix has rotated at the root only.                                   *)
TreeSound == Idle => Linked /\ Ordered /\ Counted

(* ... and avl_offset finds the node that many places away, or NULL.       *)
Rank(n) == Cardinality({m \in members : zless(m, n)})
OffsetExact ==
  Idle => \A n \in members, k \in -Cardinality(Member)..Cardinality(Member) :
            LET there == {m \in members : Rank(m) = Rank(n) + k}
            IN avl_offset(n, k) = IF there = {} THEN Nil ELSE CHOOSE m \in there : TRUE

(* common.cpp:322: znode_offset(znode, +1) is the "successor", whatever    *)
(* has been added before.                                                  *)
SuccessorIsNext ==
  pc = "idle" => \A n \in members :
                   LET next == {m \in members : Rank(m) = Rank(n) + 1}
                   IN avl_offset(n, 1) = IF next = {} THEN Nil ELSE CHOOSE m \in next : TRUE
=============================================================================
