------------------------------ MODULE Sorting -------------------------------
(***************************************************************************)
(* The sorting exercises CS2501/sorting: the numbers are read one a line   *)
(* and sorted in place, by sortAssignment1.c first ascending by selection  *)
(* and then descending by insertion, by sortAssignment2.c by merging.      *)
(*                                                                         *)
(* A loop is a recursive function from its counter to what it has made.    *)
(***************************************************************************)
EXTENDS Naturals, Sequences, FiniteSets

CONSTANT Number

ASSUME NumberAssumption == Number \subseteq Nat

VARIABLE data

DataInit == data = <<>>

(* A line of the input. *)
ReadLine(v) == data' = Append(data, v)

SortSpec == DataInit /\ [][\E v \in Number : ReadLine(v)]_data

Swapped(d, i, j) == [d EXCEPT ![i] = d[j], ![j] = d[i]]

(* The inner loop of selectionSortAscending: d[i] is exchanged with every  *)
(* smaller d[j] after it.                                                  *)
Selected(d, i) ==
  LET after[j \in i..Len(d)] ==
        IF j = i THEN d
        ELSE LET e == after[j - 1]
             IN IF e[i] > e[j] THEN Swapped(e, i, j) ELSE e
  IN after[Len(d)]

selectionSortAscending(d) ==
  LET after[i \in 0..Len(d)] == IF i = 0 THEN d ELSE Selected(after[i - 1], i)
  IN after[Len(d)]

(* The inner loop of insertionSortDescending: the j-th number moves        *)
(* forward past the smaller ones.  (What is read in front of the first one *)
(* is not used.)                                                           *)
Moved(d, j) ==
  LET from[k \in 1..j] ==
        [e \in [1..Len(d) -> Number] |->
           IF k > 1 /\ e[k] > e[k - 1] THEN from[k - 1][Swapped(e, k, k - 1)] ELSE e]
  IN from[j][d]

(* Mutant of insertionSortDescending: the last number stays. *)
insertionSortShort(d) ==
  LET after[i \in 0..Len(d)] ==
        IF i = 0 THEN d
        ELSE IF i = Len(d) THEN after[i - 1] ELSE Moved(after[i - 1], i)
  IN after[Len(d)]

insertionSortDescending(d) ==
  LET after[i \in 0..Len(d)] == IF i = 0 THEN d ELSE Moved(after[i - 1], i)
  IN after[Len(d)]

(* The loop of mergeSort from the end of d.  With k numbers of the first   *)
(* half s left when the i-th place is filled, i - k of the second are; the *)
(* smaller of the two last ones is taken, of equal ones the second half's. *)
FromFirst(s, t, k, i) == i = k \/ (k # 0 /\ s[k] < t[i - k])

Merged(s, t) ==
  LET n == Len(s) + Len(t)
      n1[i \in 0..n] ==
        IF i = n THEN Len(s)
        ELSE LET k == n1[i + 1]
             IN IF FromFirst(s, t, k, i + 1) THEN k - 1 ELSE k
  IN [i \in 1..n |-> IF FromFirst(s, t, n1[i], i) THEN s[n1[i]] ELSE t[i - n1[i]]]

(* mergeSort(d, n) for the n up to Len(d), which are those of its calls.   *)
(* Only for a d that is not empty: the halves of no numbers are no         *)
(* shorter, and the recursion does not end.                                *)
mergeSort(d) ==
  LET sort[n \in 1..Len(d)] ==
        [e \in [1..n -> Number] |->
           IF n = 1 THEN e
           ELSE LET half == n \div 2
                IN Merged(sort[half][SubSeq(e, 1, half)],
                          sort[n - half][SubSeq(e, half + 1, n)])]
  IN sort[Len(d)][d]
-----------------------------------------------------------------------------
Count(d, v) == Cardinality({ i \in 1..Len(d) : d[i] = v })
SameNumbers(d, e) == \A v \in Number : Count(d, v) = Count(e, v)

(* The three sorts print the numbers that were read, each as often, in     *)
(* order: ascending by selection; descending by insertion, which is given  *)
(* what the selection made; descending by merging.                         *)
Sorts ==
  LET up == selectionSortAscending(data)
      down == insertionSortDescending(up)
  IN /\ Len(up) = Len(data) /\ SameNumbers(up, data)
     /\ Len(down) = Len(data) /\ SameNumbers(down, data)
     /\ \A i, j \in 1..Len(data) : i < j => up[i] <= up[j] /\ down[i] >= down[j]
     /\ data # <<>> => mergeSort(data) = down
=============================================================================
