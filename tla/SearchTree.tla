----------------------------- MODULE SearchTree -----------------------------
(***************************************************************************)
(* The search tree CS2501/bstAssignment.c.  Every line of the input is one *)
(* step: "i word" inserts the word, "d word" deletes it.  Words are        *)
(* numbers, ordered as strcmp orders them.                                 *)
(*                                                                         *)
(* The tree is a function from places to words: a pointer that is assigned *)
(* moves the nodes below it to other places, one that is set to null takes *)
(* them away.                                                              *)
(***************************************************************************)
EXTENDS BinaryTree

CONSTANT Word

ASSUME WordAssumption == Word \subseteq Nat

VARIABLE root

TreeInit == root = Null

(* The place x is p or below it; it is below p on side s. *)
Under(p, x) == Len(p) <= Len(x) /\ \A i \in 1..Len(p) : x[i] = p[i]
On(s, p, x) == Len(p) < Len(x) /\ Under(p, x) /\ x[Len(p) + 1] = s

contains(t, q) == \E p \in DOMAIN t : t[p] = q

(* Mutant of Leads: the words are not compared before turning right. *)
LeadsRight(t, q, p) ==
  /\ \A a \in DOMAIN t : On("l", a, p) => q < t[a]
  /\ p \in DOMAIN t => t[p] = q

(* The comparisons of insert lead the word q to p.  A word that the tree   *)
(* has already goes no further.                                            *)
Leads(t, q, p) ==
  /\ \A a \in DOMAIN t : (On("l", a, p) => q < t[a]) /\ (On("r", a, p) => q > t[a])
  /\ p \in DOMAIN t => t[p] = q

(* The pointers of the tree: where a node is, or null. *)
Pointers(t) == {<<>>} \union { Child(p, s) : p \in DOMAIN t, s \in Side }

InsertLine(q) ==
  \E p \in Pointers(root) :
    /\ Leads(root, q, p)
    /\ root' = [x \in DOMAIN root \union {p} |-> IF x = p THEN q ELSE root[x]]

(* m is the leftmost node on the right of p. *)
Leftmost(t, p, m) ==
  /\ On("r", p, m)
  /\ \A i \in Len(p)+2..Len(m) : m[i] = "l"
  /\ Child(m, "l") \notin DOMAIN t

(* Mutant of Replaced: the node that takes the place does not get the      *)
(* deleted node's left subtree.                                            *)
ReplacedHalf(t, p, m) ==
  [x \in { y \in DOMAIN t : ~Under(m, y) /\ ~On("l", p, y) } |-> IF x = p THEN t[m] ELSE t[x]]

(* The node m takes the place of p, with the subtrees of p; the pointer to *)
(* m is set to null, and its right subtree is lost.                        *)
Replaced(t, p, m) ==
  [x \in { y \in DOMAIN t : ~Under(m, y) } |-> IF x = p THEN t[m] ELSE t[x]]

(* A place below p on side s when the subtree there takes the place of p,  *)
(* and the other way round.                                                *)
Raised(p, x) == SubSeq(x, 1, Len(p)) \o SubSeq(x, Len(p) + 2, Len(x))
Lowered(p, s, x) == SubSeq(x, 1, Len(p)) \o <<s>> \o SubSeq(x, Len(p) + 1, Len(x))

Lifted(t, p, s) ==
  [x \in { y \in DOMAIN t : ~Under(p, y) }
           \union { Raised(p, y) : y \in { z \in DOMAIN t : On(s, p, z) } } |->
     IF Under(p, x) THEN t[Lowered(p, s, x)] ELSE t[x]]

(* A word that is not there changes nothing. *)
DeleteLine(q) ==
  \/ ~contains(root, q) /\ UNCHANGED root
  \/ \E p \in DOMAIN root :
       /\ root[p] = q
       /\ \A s \in Side : Child(p, s) \in DOMAIN root
       /\ \E m \in DOMAIN root : Leftmost(root, p, m) /\ root' = Replaced(root, p, m)
  \/ \E p \in DOMAIN root :
       /\ root[p] = q
       /\ Child(p, "l") \in DOMAIN root /\ Child(p, "r") \notin DOMAIN root
       /\ root' = Lifted(root, p, "l")
  \/ \E p \in DOMAIN root :
       /\ root[p] = q
       /\ Child(p, "l") \notin DOMAIN root
       /\ root' = Lifted(root, p, "r")

TreeNext == \E q \in Word : InsertLine(q) \/ DeleteLine(q)

TreeSpec == TreeInit /\ [][TreeNext]_root
-----------------------------------------------------------------------------
Words(t) == { t[p] : p \in DOMAIN t }

(* The tree stays a search tree: every node can be reached, and what is to *)
(* its left is smaller and what is to its right greater, although          *)
(* deletions move a node to another's place and drop nodes.                *)
Ordered ==
  /\ \A p \in DOMAIN root : \A k \in 0..Len(p) : SubSeq(p, 1, k) \in DOMAIN root
  /\ \A p, x \in DOMAIN root :
       (On("l", p, x) => root[x] < root[p]) /\ (On("r", p, x) => root[x] > root[p])

(* A line loses no word but the one it deletes and some that came next     *)
(* after the word that follows it in order: what is smaller, the word that *)
(* takes its place and what comes after a word that was kept are safe.     *)
LosesOnly ==
  [][ LET before == Words(root)
          kept == before \intersect Words(root')
          lost == before \ kept
      IN lost # {} =>
           \E q \in lost : \A x \in lost \ {q} :
             \E y \in kept :
               /\ q < y /\ y < x
               /\ \A z \in before : q < z /\ z < x => z = y \/ z \in lost ]_root
=============================================================================
