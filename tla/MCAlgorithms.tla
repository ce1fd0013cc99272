---------------------------- MODULE MCAlgorithms ----------------------------
(***************************************************************************)
(* The search tree and the sorting programs, and the tree exercises on the *)
(* trees and the inputs these two reach: one of the programs runs, the     *)
(* other one stays in its initial state.                                   *)
(***************************************************************************)
EXTENDS SearchTree, Sorting, SequencesExt

CONSTANT MaxLines  \* bound on the lines the sorting programs read

Init == TreeInit /\ DataInit

SortNext == Len(data) < MaxLines /\ \E v \in Number : ReadLine(v)

Next ==
  \/ data = <<>> /\ TreeNext /\ UNCHANGED data
  \/ root = <<>> /\ SortNext /\ UNCHANGED root

Spec == Init /\ [][Next]_<<root, data>>

(* The rotation of tree4.c turns around the three orders in which the      *)
(* routines that call themselves print the nodes, and keeps the number of  *)
(* the nodes and the levels; twice, it gives the tree back.                *)
Rotates ==
  /\ preorder(rotate(tree45)) = <<1, 3, 7, 6, 2, 5, 4>>
  /\ inorder(rotate(root)) = Reverse(inorder(root))
  /\ preorder(rotate(root)) = Reverse(postorder(root))
  /\ countNodes(rotate(root)) = countNodes(root)
  /\ countLevels(rotate(root)) = countLevels(root)
  /\ rotate(rotate(root)) = root

(* The tree that tree6.c builds from as many names as its queue has room   *)
(* for, 49 with the 100 entries of the program, has all of them, level by  *)
(* level in the order given, every level full but the last, so that the    *)
(* breadth-first print of tree5.c, which ends at the first empty place and *)
(* has a queue of the same size, reaches them all; and the names of the    *)
(* comment in tree6.c come out as it shows them.                           *)
Complete ==
  /\ 2 * Len(data) < QueueSize =>
       LET t == Built(data)
       IN /\ breadthFirst(t) = data
          /\ countNodes(t) = Len(data)
          /\ \A k \in 1..countLevels(t) - 1 : [1..k-1 -> Side] \subseteq DOMAIN t
  /\ inorder(Built(<<"giselle", "magda", "aviva", "ahnk", "havi", "minna", "monique">>))
       = <<"ahnk", "magda", "havi", "giselle", "minna", "aviva", "monique">>

(* What the comments of the exercises ask of the trees built by hand.      *)
ASSUME Literals ==
  /\ preorder(tree01) = <<"a", "b", "c", "d", "z">>
  /\ inorder(tree01) = <<"b", "a", "d", "c", "z">>
  /\ postorder(tree01) = <<"b", "d", "z", "c", "a">>
  /\ countNodes(tree2) >= 6
  /\ countNodes(tree3) = 8 /\ countLevels(tree3) = 4
  /\ breadthFirst(tree45) = <<1, 2, 3, 4, 5, 6, 7>>
=============================================================================
