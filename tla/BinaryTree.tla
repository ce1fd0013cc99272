----------------------------- MODULE BinaryTree -----------------------------
(***************************************************************************)
(* The tree exercises CS2501/trees, tree0.c to tree6.c: the traversals,    *)
(* counts and rotation of a binary tree, the queue that prints it breadth  *)
(* first and the one that builds it from a list of names.                  *)
(*                                                                         *)
(* A node is known by its place, the pointers that lead to it from the     *)
(* root, and a tree is the function from places to ids.  As no node is     *)
(* shared, what a C routine does to the nodes is the tree it leaves, and   *)
(* what it prints a sequence; a routine that calls itself with a node's    *)
(* children is a recursive function of places.                             *)
(***************************************************************************)
EXTENDS Naturals, Sequences, FiniteSets

CONSTANTS QueueSize,  \* entries of the queues of tree5.c and tree6.c, 100 there
          Undefined   \* what a program does that leaves its queue: anything

(* There is room for the tree of tree5.c and for the names that the        *)
(* comment of tree6.c gives.                                               *)
ASSUME QueueAssumption == QueueSize \in Nat /\ QueueSize >= 15

Side == {"l", "r"}
Place == Seq(Side)

Child(p, s) == Append(p, s)

Null == <<>>
Tree(id, left, right) ==
  [p \in {<<>>} \union { <<"l">> \o q : q \in DOMAIN left }
                \union { <<"r">> \o q : q \in DOMAIN right } |->
     IF p = <<>> THEN id ELSE IF p[1] = "l" THEN left[Tail(p)] ELSE right[Tail(p)]]
Leaf(id) == Tree(id, Null, Null)
-----------------------------------------------------------------------------
(***************************************************************************)
(* Traversals (tree1.c, tree4.c, tree6.c): what is printed                 *)
(***************************************************************************)
inorder(t) ==
  LET print[p \in Place] ==
        IF p \notin DOMAIN t THEN <<>>
        ELSE print[Child(p, "l")] \o <<t[p]>> \o print[Child(p, "r")]
  IN print[<<>>]

preorder(t) ==
  LET print[p \in Place] ==
        IF p \notin DOMAIN t THEN <<>>
        ELSE <<t[p]>> \o print[Child(p, "l")] \o print[Child(p, "r")]
  IN print[<<>>]

postorder(t) ==
  LET print[p \in Place] ==
        IF p \notin DOMAIN t THEN <<>>
        ELSE print[Child(p, "l")] \o print[Child(p, "r")] \o <<t[p]>>
  IN print[<<>>]

(* tree5.c, the loop of breadthFirst: the queue after k rounds, in which   *)
(* both children went in, null ones too, until the first null one comes    *)
(* out.  They fill entries 1 to 2k, and nothing keeps that below the size. *)
breadthFirst(t) ==
  LET q[k \in Nat] ==
        IF k = 0 THEN << <<>> >>
        ELSE LET before == q[k - 1]
             IN before \o <<Child(before[k], "l"), Child(before[k], "r")>>
      back == CHOOSE k \in 0..Cardinality(DOMAIN t) :
                /\ q[k][k + 1] \notin DOMAIN t
                /\ \A j \in 0..k-1 : q[j][j + 1] \in DOMAIN t
  IN IF 2 * back >= QueueSize THEN Undefined ELSE [k \in 1..back |-> t[q[k - 1][k]]]
-----------------------------------------------------------------------------
(***************************************************************************)
(* Counts (tree2.c, tree3.c) and the rotation (tree4.c)                    *)
(***************************************************************************)
countNodes(t) ==
  LET count[p \in Place] ==
        IF p \notin DOMAIN t THEN 0
        ELSE 1 + count[Child(p, "l")] + count[Child(p, "r")]
  IN count[<<>>]

countLevels(t) ==
  LET count[p \in Place] ==
        IF p \notin DOMAIN t THEN 0
        ELSE LET l == count[Child(p, "l")]  r == count[Child(p, "r")]
             IN 1 + (IF l > r THEN l ELSE r)
  IN count[<<>>]

(* Mutant of rotate: the subtrees are not rotated. *)
rotateTop(t) ==
  LET kept[p \in Place] ==
        IF p \notin DOMAIN t THEN Null
        ELSE Tree(t[p], kept[Child(p, "l")], kept[Child(p, "r")])
  IN IF t = Null THEN Null ELSE Tree(t[<<>>], kept[<<"r">>], kept[<<"l">>])

rotate(t) ==
  LET rotated[p \in Place] ==
        IF p \notin DOMAIN t THEN Null
        ELSE Tree(t[p], rotated[Child(p, "r")], rotated[Child(p, "l")])
  IN rotated[<<>>]
-----------------------------------------------------------------------------
(***************************************************************************)
(* tree6.c: the names, in the order given, as a complete tree.  Entry k of *)
(* the queue has the entries 2k+1 and 2k+2 below it, null past the last    *)
(* name.  Those of the last name are read too, past the end of the queue   *)
(* when the names are more than 49 of the 100 entries.                     *)
(***************************************************************************)

(* Mutant of Built: the children of entry k are 2k and 2k+1. *)
BuiltOff(names) ==
  LET entry[k \in Nat] ==
        IF k >= Len(names) THEN Null
        ELSE Tree(names[k + 1], IF k = 0 THEN Null ELSE entry[2 * k], entry[2 * k + 1])
  IN IF 2 * Len(names) >= QueueSize THEN Undefined ELSE entry[0]

Built(names) ==
  LET entry[k \in Nat] ==
        IF k >= Len(names) THEN Null
        ELSE Tree(names[k + 1], entry[2 * k + 1], entry[2 * k + 2])
  IN IF 2 * Len(names) >= QueueSize THEN Undefined ELSE entry[0]
-----------------------------------------------------------------------------
(***************************************************************************)
(* The trees the programs build by hand                                    *)
(***************************************************************************)
tree01 == Tree("a", Leaf("b"), Tree("c", Leaf("d"), Leaf("z")))  \* tree0.c, tree1.c

tree3 == Tree(1, Tree(2, Tree(4, Leaf(0), Null), Leaf(5)), Tree(3, Leaf(6), Leaf(7)))

tree45 == Tree(1, Tree(2, Leaf(4), Leaf(5)), Tree(3, Leaf(6), Leaf(7)))

tree2 == LET full == Tree(0, Leaf(0), Leaf(0)) IN Tree(0, full, full)  \* ids are not set
=============================================================================
