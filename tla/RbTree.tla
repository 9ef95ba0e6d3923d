------------------------------- MODULE RbTree -------------------------------
(***************************************************************************)
(* The red-black tree of src/src/Tree.h, a cut-down STL tree that maps the *)
(* number of an allocation to its block.  A node lives in the memory of    *)
(* the block it stands for, so the tree must never follow a link to a node *)
(* that was erased: here the fields of an erased node are gone, and a      *)
(* step that reads them has no value.  A node is named by its key.         *)
(*                                                                         *)
(* The code writes every case twice, once per side; here the side is a     *)
(* parameter.  The header's parent is the root, its left child the least   *)
(* node and its right child the greatest.                                  *)
(***************************************************************************)
EXTENDS Naturals, FiniteSets

CONSTANTS
    Keys,       \* the allocation numbers, naturals from 1
    Null        \* the null pointer

ASSUME KeysAssumption == Keys \subseteq Nat \ {0} /\ Null \notin Nat

VARIABLES
    tree,       \* [color, parent, child]: the links of the nodes in the tree
    count,      \* _M_node_count
    inserted    \* history: the keys inserted and not erased since

vars == <<tree, count, inserted>>

Header == 0
Sides == {"left", "right"}
Opposite(s) == IF s = "left" THEN "right" ELSE "left"

Root(t) == t.parent[Header]
Child(t, n, s) == t.child[s][n]
Black(t, n) == n = Null \/ t.color[n] = "black"

\* The side of its parent on which a node hangs.
SideOf(t, n) == IF Child(t, t.parent[n], "left") = n THEN "left" ELSE "right"

\* _S_minimum and _S_maximum: the last node towards a side.
RECURSIVE Outermost(_, _, _)
Outermost(t, n, s) ==
    IF Child(t, n, s) = Null THEN n ELSE Outermost(t, Child(t, n, s), s)

\* Hang node new where node old hangs: under its parent or as the root.
Transplant(t, old, new) ==
    IF Root(t) = old
    THEN [t EXCEPT !.parent[Header] = new]
    ELSE [t EXCEPT !.child[SideOf(t, old)][t.parent[old]] = new]

\* Bug: a node that moves up keeps its old parent.
BugAdopt(t, n, p) == t

\* Set the parent of a node that may be null.
Adopt(t, n, p) == IF n = Null THEN t ELSE [t EXCEPT !.parent[n] = p]

\* Turn node x down to side s; its child of the other side takes its place.
Rotate(t, x, s) ==
    LET y == Child(t, x, Opposite(s))
        m == Child(t, y, s)
        p == t.parent[x]
        t1 == Transplant(Adopt(t, m, x), x, y)
    IN  [t1 EXCEPT !.child[Opposite(s)][x] = m, !.child[s][y] = x,
                   !.parent[y] = p, !.parent[x] = y]

-----------------------------------------------------------------------------
(* Insertion. *)

\* Restore the colours after x was added red: the uncle's colour decides.
RECURSIVE Rebalance(_, _)
Rebalance(t, x) ==
    LET p == t.parent[x]
        g == t.parent[p]
        s == SideOf(t, p)
        uncle == Child(t, g, Opposite(s))
        turned == x = Child(t, p, Opposite(s))
        t1 == IF turned THEN Rotate(t, p, s) ELSE t
        top == IF turned THEN x ELSE p
    IN  IF x = Root(t) \/ Black(t, p)
        THEN [t EXCEPT !.color[Root(t)] = "black"]
        ELSE IF ~Black(t, uncle)
        THEN Rebalance([t EXCEPT !.color[p] = "black", !.color[uncle] = "black",
                                 !.color[g] = "red"], g)
        ELSE Rebalance(Rotate([t1 EXCEPT !.color[top] = "black",
                                         !.color[g] = "red"], g, Opposite(s)),
                       IF turned THEN p ELSE x)

\* Bug: a new node is black.
BugWithLeaf(t, k, y) ==
    LET Extended(f, v) == [n \in DOMAIN f \cup {k} |-> IF n = k THEN v ELSE f[n]]
    IN  [color |-> Extended(t.color, "black"), parent |-> Extended(t.parent, y),
         child |-> [s \in Sides |-> Extended(t.child[s], Null)]]

\* The fields of a new red leaf under y.
WithLeaf(t, k, y) ==
    LET Extended(f, v) == [n \in DOMAIN f \cup {k} |-> IF n = k THEN v ELSE f[n]]
    IN  [color |-> Extended(t.color, "red"), parent |-> Extended(t.parent, y),
         child |-> [s \in Sides |-> Extended(t.child[s], Null)]]

\* _M_insert: hang k on side s of y and keep the header's three links.
Inserted(t, k, y, s) ==
    LET t1 == [WithLeaf(t, k, y) EXCEPT !.child[s][y] = k]
        t2 == IF y = Header
              THEN [t1 EXCEPT !.parent[Header] = k, !.child["right"][Header] = k]
              ELSE IF y = Child(t, Header, s)
              THEN [t1 EXCEPT !.child[s][Header] = k]
              ELSE t1
    IN  Rebalance(t2, k)

\* The descent of insert_unique: the last node passed and the side taken.
RECURSIVE Descend(_, _, _, _)
Descend(t, k, y, x) ==
    LET s == IF k < x THEN "left" ELSE "right"
    IN  IF x = Null
        THEN <<y, IF y = Header \/ k < y THEN "left" ELSE "right">>
        ELSE Descend(t, k, x, Child(t, x, s))

\* _M_decrement for a node inside the tree: the node before it.
RECURSIVE ClimbFrom(_, _)
ClimbFrom(t, n) ==
    IF n = Child(t, t.parent[n], "left") THEN ClimbFrom(t, t.parent[n])
    ELSE t.parent[n]

Decrement(t, n) ==
    IF Child(t, n, "left") # Null
    THEN Outermost(t, Child(t, n, "left"), "right")
    ELSE ClimbFrom(t, n)

\* Whether insert_unique adds the key: the node before the place is less.
IsNew(t, k) ==
    LET place == Descend(t, k, Header, Root(t))
    IN  IF place[2] = "right" THEN place[1] < k
        ELSE place[1] = Child(t, Header, "left") \/ Decrement(t, place[1]) < k

InsertUnique(k) ==
    LET place == Descend(tree, k, Header, Root(tree))
    IN  IF IsNew(tree, k)
        THEN /\ tree' = Inserted(tree, k, place[1], place[2])
             /\ count' = count + 1
             /\ inserted' = inserted \cup {k}
        ELSE UNCHANGED vars

-----------------------------------------------------------------------------
(* Erasure. *)

\* The node that takes the place of z: its only child, or its successor.
Successor(t, z) == Outermost(t, Child(t, z, "right"), "left")
HasTwo(t, z) == \A s \in Sides : Child(t, z, s) # Null

\* z has two children: its successor y is relinked in its place and takes its
\* colour, and what hung right of y takes the place of y.
UnlinkInner(t, z) ==
    LET y == Successor(t, z)
        x == Child(t, y, "right")
        near == y = Child(t, z, "right")
        xp == IF near THEN y ELSE t.parent[y]
        t1 == IF near THEN t
              ELSE Adopt([Adopt(t, x, xp) EXCEPT
                              !.child["left"][xp] = x,
                              !.child["right"][y] = Child(t, z, "right")],
                         Child(t, z, "right"), y)
        t2 == Transplant(Adopt(t1, Child(t, z, "left"), y), z, y)
    IN  [tree |-> [t2 EXCEPT !.child["left"][y] = Child(t, z, "left"),
                             !.parent[y] = t.parent[z],
                             !.color[y] = t.color[z]],
         x |-> x, parent |-> xp, color |-> t.color[y]]

\* z has at most one child: it takes the place of z, and the header's link to
\* the least or greatest node moves on when z was that node.
UnlinkOuter(t, z) ==
    LET x == IF Child(t, z, "left") = Null THEN Child(t, z, "right")
             ELSE Child(t, z, "left")
        End(s) ==
            IF Child(t, Header, s) # z THEN Child(t, Header, s)
            ELSE IF Child(t, z, Opposite(s)) = Null THEN t.parent[z]
            ELSE Outermost(t, x, s)
    IN  [tree |-> [Transplant(Adopt(t, x, t.parent[z]), z, x) EXCEPT
                       !.child["left"][Header] = End("left"),
                       !.child["right"][Header] = End("right")],
         x |-> x, parent |-> t.parent[z], color |-> t.color[z]]

\* Make up for a black node lost above x: the sibling w decides.
RECURSIVE Refill(_, _, _)
Refill(t, x, xp) ==
    LET s == IF x = Child(t, xp, "left") THEN "left" ELSE "right"
        o == Opposite(s)
        w0 == Child(t, xp, o)
        t1 == IF Black(t, w0) THEN t
              ELSE Rotate([t EXCEPT !.color[w0] = "black", !.color[xp] = "red"],
                          xp, s)
        w == Child(t1, xp, o)
        inner == Child(t1, w, s)
        t2 == IF ~Black(t1, Child(t1, w, o)) THEN t1
              ELSE Rotate([t1 EXCEPT !.color[inner] = "black", !.color[w] = "red"],
                          w, o)
        v == Child(t2, xp, o)
        t3 == [t2 EXCEPT !.color[v] = t2.color[xp], !.color[xp] = "black",
                         !.color[Child(t2, v, o)] = "black"]
    IN  IF x = Root(t) \/ ~Black(t, x)
        THEN IF x = Null THEN t ELSE [t EXCEPT !.color[x] = "black"]
        ELSE IF \A side \in Sides : Black(t1, Child(t1, w, side))
        THEN Refill([t1 EXCEPT !.color[w] = "red"], xp, t1.parent[xp])
        ELSE IF x = Null THEN Rotate(t3, xp, s)
        ELSE [Rotate(t3, xp, s) EXCEPT !.color[x] = "black"]

\* The node's memory goes back to the block.
Without(t, z) ==
    LET Restricted(f) == [n \in DOMAIN f \ {z} |-> f[n]]
    IN  [color |-> Restricted(t.color), parent |-> Restricted(t.parent),
         child |-> [s \in Sides |-> Restricted(t.child[s])]]

\* _Rb_tree_rebalance_for_erase
Erased(t, z) ==
    LET u == IF HasTwo(t, z) THEN UnlinkInner(t, z) ELSE UnlinkOuter(t, z)
    IN  Without(IF u.color = "red" THEN u.tree ELSE Refill(u.tree, u.x, u.parent), z)

\* find: the last node not less than k, if it is k.
RECURSIVE Seek(_, _, _, _)
Seek(t, k, y, x) ==
    IF x = Null THEN y
    ELSE IF x < k THEN Seek(t, k, y, Child(t, x, "right"))
    ELSE Seek(t, k, x, Child(t, x, "left"))

Find(t, k) ==
    LET y == Seek(t, k, Header, Root(t))
    IN  IF y = Header \/ k < y THEN Header ELSE y

\* A caller erases the node find returned.
Erase(k) ==
    /\ Find(tree, k) # Header
    /\ tree' = Erased(tree, Find(tree, k))
    /\ count' = count - 1
    /\ inserted' = inserted \ {k}

-----------------------------------------------------------------------------

\* _M_empty_initialize
EmptyTree ==
    [color |-> [n \in {Header} |-> "red"], parent |-> [n \in {Header} |-> Null],
     child |-> [s \in Sides |-> [n \in {Header} |-> Header]]]

Init == tree = EmptyTree /\ count = 0 /\ inserted = {}

Next == \E k \in Keys : InsertUnique(k) \/ Erase(k)

Spec == Init /\ [][Next]_vars

-----------------------------------------------------------------------------

\* The tree is the set of keys inserted and not erased: find finds exactly
\* those, begin() and the greatest node are the least and greatest of them,
\* the count is their number, and every link has its link back.
HoldsWhatWasInserted ==
    /\ DOMAIN tree.color = inserted \cup {Header}
    /\ count = Cardinality(inserted)
    /\ \A k \in Keys : Find(tree, k) = IF k \in inserted THEN k ELSE Header
    /\ inserted # {} =>
          /\ tree.parent[Root(tree)] = Header
          /\ Child(tree, Header, "left") \in inserted
          /\ Child(tree, Header, "right") \in inserted
          /\ \A k \in inserted : /\ Child(tree, Header, "left") <= k
                                 /\ k <= Child(tree, Header, "right")
    /\ \A n \in inserted, s \in Sides :
          Child(tree, n, s) # Null => tree.parent[Child(tree, n, s)] = n

\* The number of black nodes on the paths down from a node, as a set.
RECURSIVE BlackHeights(_)
BlackHeights(n) ==
    IF n = Null THEN {0}
    ELSE {h + (IF tree.color[n] = "black" THEN 1 ELSE 0) :
             h \in UNION {BlackHeights(Child(tree, n, s)) : s \in Sides}}

\* The tree stays balanced whatever is inserted and erased: a red node has no
\* red child and every path down from the root passes as many black nodes, so
\* that no search is longer than twice the shortest.
Balanced ==
    /\ Cardinality(BlackHeights(Root(tree))) = 1
    /\ \A n \in inserted : tree.color[n] = "red" =>
          \A s \in Sides : Black(tree, Child(tree, n, s))

=============================================================================
