-------------------------- MODULE AlgorithmProofs --------------------------
(***************************************************************************)
(* The tree and sorting programs, for any input of any length.  The sorts  *)
(* sort: each loop by induction on its counter, mergeSort by induction on  *)
(* the length of its argument.  The search tree stays in order and a line  *)
(* loses little: by the places of its nodes.  The rotation turns every     *)
(* tree around: by induction on trees, on which every routine that calls   *)
(* itself is a fold.  The tree built by levels is complete: by the queue   *)
(* of all places in order of length.                                       *)
(***************************************************************************)
EXTENDS MCAlgorithms, FiniteSetTheorems, SequenceTheorems, WellFoundedInduction, TLAPS

(***************************************************************************)
(* Induction, in the form of sets.                                         *)
(***************************************************************************)

LEMMA LeastNat == ASSUME NEW T, T \subseteq Nat, T # {}
                  PROVE  \E m \in T : \A k \in T : ~(k < m)
<1> DEFINE R == OpToRel(<, Nat)
<1>1. IsWellFoundedOn(R, Nat) BY NatLessThanWellFounded
<1>2. \A x, y \in Nat : <<x, y>> \in R <=> x < y
  BY DEF OpToRel
<1> HIDE DEF R
<1>3. \E x \in T : \A y \in T : ~ (<<y, x>> \in R)
  BY <1>1, WFMin
<1> QED BY <1>2, <1>3

LEMMA NatIsInductive == ASSUME NEW T, 0 \in T, \A n \in Nat : n \in T => n + 1 \in T
                        PROVE  Nat \subseteq T
<1> DEFINE U == Nat \ T
<1> SUFFICES ASSUME U # {} PROVE FALSE
  OBVIOUS
<1>1. PICK m \in U : \A k \in U : ~(k < m)
  <2> HIDE DEF U
  <2>1. U \subseteq Nat BY DEF U
  <2> QED BY <2>1, LeastNat
<1>2. m # 0 /\ m - 1 \in Nat /\ m - 1 < m /\ m - 1 \notin U
  BY <1>1
<1> QED BY <1>1, <1>2

(* From a to b. *)
LEMMA Upwards ==
  ASSUME NEW a \in Int, NEW b \in Int, NEW T, a <= b => a \in T,
         \A k \in a+1..b : k - 1 \in T => k \in T
  PROVE  \A k \in a..b : k \in T
<1> DEFINE U == { m \in Nat : a + m <= b => a + m \in T }
<1>1. 0 \in U
  OBVIOUS
<1>2. ASSUME NEW m \in Nat, m \in U PROVE m + 1 \in U
  <2> SUFFICES ASSUME a + (m + 1) <= b PROVE a + (m + 1) \in T
    OBVIOUS
  <2>1. a + (m + 1) \in a+1..b /\ (a + (m + 1)) - 1 = a + m /\ a + m <= b
    OBVIOUS
  <2> QED BY <1>2, <2>1
<1> HIDE DEF U
<1>3. Nat \subseteq U
  BY <1>1, <1>2, NatIsInductive
<1>4. ASSUME NEW k \in a..b PROVE k \in T
  <2>1. k - a \in Nat /\ a + (k - a) = k /\ k <= b
    OBVIOUS
  <2> QED BY <1>3, <2>1 DEF U
<1> QED BY <1>4

(***************************************************************************)
(* Loops: what a loop has made after each round exists.                    *)
(***************************************************************************)

Rounds(S, lo, hi) == [lo+1..hi -> [S -> S]]

IsLoop(h, S, b, lo, hi, F) ==
  /\ h \in [lo..hi -> S]
  /\ h[lo] = b
  /\ \A k \in lo+1..hi : h[k] = F[k][h[k - 1]]

LEMMA Loop ==
  ASSUME NEW S, NEW b \in S, NEW lo \in Int, NEW hi \in Int, lo <= hi,
         NEW F \in Rounds(S, lo, hi)
  PROVE  \E h : IsLoop(h, S, b, lo, hi, F)
<1>0. F \in [lo+1..hi -> [S -> S]]
  BY DEF Rounds
<1> DEFINE Made(m) == { h \in [lo..m -> S] :
                          h[lo] = b /\ \A k \in lo+1..m : h[k] = F[k][h[k - 1]] }
           T == { m \in lo..hi : Made(m) # {} }
<1>1. lo \in T
  <2>1. [k \in lo..lo |-> b] \in Made(lo)
    OBVIOUS
  <2> HIDE DEF Made
  <2> QED BY <2>1
<1>2. ASSUME NEW m \in lo+1..hi, m - 1 \in T PROVE m \in T
  <2>1. PICK h : h \in Made(m - 1)
    BY <1>2
  <2> DEFINE g == [k \in lo..m |-> IF k = m THEN F[m][h[m - 1]] ELSE h[k]]
  <2>2. /\ h \in [lo..m-1 -> S] /\ h[lo] = b
        /\ \A k \in lo+1..m-1 : h[k] = F[k][h[k - 1]]
    BY <2>1
  <2>3. g \in [lo..m -> S] /\ g[lo] = b
    <3>1. F[m] \in [S -> S] /\ h[m - 1] \in S
      BY <1>0, <2>2
    <3> QED BY <2>2, <3>1
  <2>4. ASSUME NEW k \in lo+1..m PROVE g[k] = F[k][g[k - 1]]
    <3>1. CASE k = m
      <4>1. m - 1 \in lo..m /\ m - 1 # m
        OBVIOUS
      <4> QED BY <3>1, <4>1
    <3>2. CASE k # m
      <4>1. k \in lo+1..m-1 /\ k \in lo..m /\ k - 1 \in lo..m /\ k - 1 # m
        BY <3>2
      <4> QED BY <2>2, <3>2, <4>1
    <3> QED BY <3>1, <3>2
  <2> HIDE DEF g
  <2>5. g \in Made(m)
    BY <2>3, <2>4
  <2> QED BY <2>5
<1> HIDE DEF T
<1>3. \A k \in lo..hi : k \in T
  BY <1>1, <1>2, Upwards
<1>4. Made(hi) # {}
  BY <1>3 DEF T
<1> QED BY <1>4 DEF IsLoop

(***************************************************************************)
(* Arrays and how often they have a number.                                *)
(***************************************************************************)

Arr(n) == [1..n -> Number]

Ascending(e) == \A i, j \in 1..Len(e) : i < j => e[i] <= e[j]
Descending(e) == \A i, j \in 1..Len(e) : i < j => e[i] >= e[j]

LEMMA ArrLen == ASSUME NEW n \in Nat, NEW d \in Arr(n)
                PROVE  d \in Seq(Number) /\ Len(d) = n /\ \A i \in 1..n : d[i] \in Nat
<1>1. d \in [1..n -> Number]
  BY DEF Arr
<1>2. d \in Seq(Number) /\ Len(d) = n
  BY <1>1
<1>3. \A i \in 1..n : d[i] \in Nat
  BY <1>1, NumberAssumption DEF NumberAssumption
<1> QED BY <1>2, <1>3

(* The places after i that have v. *)
Places(d, i, v) == { k \in i+1..Len(d) : d[k] = v }
After(d, i, v) == Cardinality(Places(d, i, v))

Counts(d, n, v) ==
  /\ Count(d, v) = After(d, 0, v)
  /\ After(d, n, v) = 0
  /\ \A i \in 0..n : IsFiniteSet(Places(d, i, v)) /\ After(d, i, v) \in Nat
  /\ \A i \in 1..n : After(d, i - 1, v) = IF d[i] = v THEN After(d, i, v) + 1
                                          ELSE After(d, i, v)

LEMMA AfterStep ==
  ASSUME NEW n \in Nat, NEW d \in Arr(n), NEW v
  PROVE  Counts(d, n, v)
<1>1. Len(d) = n
  BY ArrLen
<1>2. ASSUME NEW i \in 0..n
      PROVE  IsFiniteSet(Places(d, i, v)) /\ After(d, i, v) \in Nat
  <2>1. IsFiniteSet(i+1..n)
    BY FS_Interval
  <2>2. Places(d, i, v) \in SUBSET (i+1..n)
    BY <1>1 DEF Places
  <2> QED BY <2>1, <2>2, FS_Subset, FS_CardinalityType DEF After
<1>3. Count(d, v) = After(d, 0, v)
  <2>1. { i \in 1..Len(d) : d[i] = v } = Places(d, 0, v)
    BY DEF Places
  <2> QED BY <2>1 DEF Count, After
<1>4. After(d, n, v) = 0
  <2>1. Places(d, n, v) = {}
    BY <1>1 DEF Places
  <2> QED BY <2>1, FS_EmptySet DEF After
<1>5. ASSUME NEW i \in 1..n
      PROVE  After(d, i - 1, v) = IF d[i] = v THEN After(d, i, v) + 1
                                  ELSE After(d, i, v)
  <2>1. CASE d[i] = v
    <3>1. Places(d, i - 1, v) = Places(d, i, v) \union {i} /\ i \notin Places(d, i, v)
      BY <1>1, <2>1 DEF Places
    <3>2. IsFiniteSet(Places(d, i, v))
      BY <1>2
    <3> QED BY <2>1, <3>1, <3>2, FS_AddElement DEF After
  <2>2. CASE d[i] # v
    <3>1. Places(d, i - 1, v) = Places(d, i, v)
      BY <1>1, <2>2 DEF Places
    <3> QED BY <2>2, <3>1 DEF After
  <2> QED BY <2>1, <2>2
<1> QED BY <1>2, <1>3, <1>4, <1>5 DEF Counts

LEMMA SameSize ==
  ASSUME NEW A, NEW B, IsFiniteSet(A), NEW f \in [A -> B],
         \A k, l \in A : f[k] = f[l] => k = l,
         \A m \in B : \E k \in A : f[k] = m
  PROVE  Cardinality(B) = Cardinality(A)
<1>1. f \in Injection(A, B)
  BY DEF Injection, IsInjective
<1>2. f \in Surjection(A, B)
  BY DEF Surjection
<1>3. ExistsBijection(A, B)
  BY <1>1, <1>2 DEF ExistsBijection, Bijection
<1> QED BY <1>3, FS_Bijection

LEMMA SwapFacts ==
  ASSUME NEW n \in Nat, NEW e \in Arr(n), NEW i \in 1..n, NEW j \in 1..n
  PROVE  /\ Swapped(e, i, j) \in Arr(n)
         /\ \A k \in 1..n : Swapped(e, i, j)[k] = IF k = i THEN e[j]
                                                 ELSE IF k = j THEN e[i] ELSE e[k]
BY DEF Swapped, Arr

LEMMA SwapCount ==
  ASSUME NEW n \in Nat, NEW e \in Arr(n), NEW i \in 1..n, NEW j \in 1..n, NEW v
  PROVE  Count(Swapped(e, i, j), v) = Count(e, v)
<1> DEFINE s == Swapped(e, i, j)
           A == { k \in 1..Len(e) : e[k] = v }
           B == { k \in 1..Len(s) : s[k] = v }
           f == [k \in A |-> IF k = i THEN j ELSE IF k = j THEN i ELSE k]
<1>1. /\ Len(e) = n /\ Len(s) = n
      /\ \A k \in 1..n : s[k] = IF k = i THEN e[j] ELSE IF k = j THEN e[i] ELSE e[k]
  BY SwapFacts, ArrLen
<1> HIDE DEF s
<1>2. f \in [A -> B]
  BY <1>1
<1>3. \A k, l \in A : f[k] = f[l] => k = l
  OBVIOUS
<1>4. ASSUME NEW m \in B PROVE \E k \in A : f[k] = m
  <2> DEFINE k == IF m = i THEN j ELSE IF m = j THEN i ELSE m
  <2>1. k \in A /\ f[k] = m
    BY <1>1
  <2> QED BY <2>1
<1>5. IsFiniteSet(A)
  <2>1. A \in SUBSET (1..n)
    BY <1>1
  <2> QED BY <2>1, FS_Interval, FS_Subset
<1> HIDE DEF A, B, f
<1>6. Cardinality(B) = Cardinality(A)
  BY <1>2, <1>3, <1>4, <1>5, SameSize
<1> QED BY <1>6 DEF A, B, s, Count

(***************************************************************************)
(* Selection                                                               *)
(***************************************************************************)

SelectRound(e, i, j) == IF e[i] > e[j] THEN Swapped(e, i, j) ELSE e

LEMMA SelectedRounds ==
  ASSUME NEW n \in Nat, NEW d \in Arr(n), NEW i \in 1..n
  PROVE  \E after \in [i..n -> Arr(n)] :
           /\ after[i] = d
           /\ \A j \in i+1..n : after[j] = SelectRound(after[j - 1], i, j)
           /\ Selected(d, i) = after[n]
<1> DEFINE S == Arr(n)
           F == [j \in i+1..n |-> [e \in S |-> SelectRound(e, i, j)]]
           Body(g) == [j \in i..n |-> IF j = i THEN d
                                     ELSE LET e == g[j - 1]
                                          IN IF e[i] > e[j] THEN Swapped(e, i, j) ELSE e]
<1>1. F \in Rounds(S, i, n)
  <2>1. \A j \in i+1..n, e \in S : SelectRound(e, i, j) \in S
    BY SwapFacts DEF SelectRound
  <2> HIDE DEF S
  <2> QED BY <2>1 DEF Rounds
<1>2. PICK h : IsLoop(h, S, d, i, n, F)
  <2> HIDE DEF F, S
  <2>1. d \in S
    BY DEF S
  <2>2. i \in Int /\ n \in Int /\ i <= n
    OBVIOUS
  <2> QED BY <1>1, <2>1, <2>2, Loop
<1>3. ASSUME NEW j \in i+1..n PROVE h[j] = SelectRound(h[j - 1], i, j)
  <2> HIDE DEF S
  <2>1. j - 1 \in i..n /\ h[j - 1] \in S
    BY <1>2 DEF IsLoop
  <2> QED BY <1>2, <2>1 DEF IsLoop
<1>4. h = Body(h)
  <2>1. ASSUME NEW j \in i..n PROVE h[j] = Body(h)[j]
    BY <1>2, <1>3 DEF SelectRound, IsLoop
  <2> HIDE DEF S
  <2> QED BY <1>2, <2>1 DEF IsLoop
<1>5. Selected(d, i) = (CHOOSE g : g = Body(g))[n]
  BY ArrLen DEF Selected
<1> HIDE DEF Body
<1>6. PICK g : g = Body(g) /\ Selected(d, i) = g[n]
  BY <1>4, <1>5
<1>7. g \in [i..n -> S] /\ g[i] = d /\ \A j \in i+1..n : g[j] = SelectRound(g[j - 1], i, j)
  <2>1. ASSUME NEW j \in i..n PROVE g[j] = Body(g)[j]
    BY <1>6
  <2>2. g[i] = d
    BY <2>1 DEF Body
  <2>3. ASSUME NEW j \in i+1..n PROVE g[j] = SelectRound(g[j - 1], i, j)
    BY <2>1 DEF Body, SelectRound
  <2> DEFINE T == { j \in i..n : g[j] \in S }
  <2>4. i \in T
    BY <2>2
  <2>5. ASSUME NEW j \in i+1..n, j - 1 \in T PROVE j \in T
    <3>1. g[j - 1] \in Arr(n) /\ j \in 1..n
      BY <2>5
    <3>2. Swapped(g[j - 1], i, j) \in Arr(n)
      BY <3>1, SwapFacts
    <3> QED BY <2>3, <3>1, <3>2 DEF SelectRound
  <2>6. \A j \in i..n : j \in T
    <3> HIDE DEF T
    <3> QED BY <2>4, <2>5, Upwards
  <2>7. g = [j \in i..n |-> g[j]]
    BY <1>6 DEF Body
  <2> HIDE DEF S
  <2> QED BY <2>2, <2>3, <2>6, <2>7
<1> QED BY <1>6, <1>7

(* Nothing up to i is greater than what comes after it. *)
Low(e, i) == \A p, q \in 1..Len(e) : p < q /\ p <= i => e[p] <= e[q]

SameAs(d, e) == \A v \in Number : Count(e, v) = Count(d, v)

(* The i-th round of the selection puts the smallest of the rest there.    *)
LEMMA SelectedLow ==
  ASSUME NEW n \in Nat, NEW d \in Arr(n), NEW i \in 1..n, Low(d, i - 1)
  PROVE  /\ Selected(d, i) \in Arr(n)
         /\ Low(Selected(d, i), i)
         /\ SameAs(d, Selected(d, i))
<1>1. PICK after \in [i..n -> Arr(n)] :
        /\ after[i] = d
        /\ \A j \in i+1..n : after[j] = SelectRound(after[j - 1], i, j)
        /\ Selected(d, i) = after[n]
  BY SelectedRounds
<1> DEFINE Inv(e, j) == /\ Low(e, i - 1)
                        /\ \A q \in i+1..j : e[i] <= e[q]
                        /\ SameAs(d, e)
           T == { j \in i..n : Inv(after[j], j) }
<1>2. i \in T
  BY <1>1 DEF SameAs
<1>3. ASSUME NEW j \in i+1..n, j - 1 \in T PROVE j \in T
  <2> DEFINE e == after[j - 1]
  <2>1. e \in Arr(n) /\ Inv(e, j - 1) /\ after[j] = SelectRound(e, i, j)
    BY <1>1, <1>3
  <2>2. Len(e) = n /\ \A p \in 1..n : e[p] \in Nat
    BY <2>1, ArrLen
  <2> HIDE DEF e
  <2>3. CASE e[i] > e[j]
    <3> DEFINE f == Swapped(e, i, j)
    <3>1. /\ f \in Arr(n)
          /\ \A k \in 1..n : f[k] = IF k = i THEN e[j] ELSE IF k = j THEN e[i] ELSE e[k]
      BY <2>1, SwapFacts
    <3>2. SameAs(d, f)
      BY <2>1, SwapCount DEF SameAs
    <3>3. Len(f) = n
      BY <3>1, ArrLen
    <3> HIDE DEF f
    <3>4. Low(f, i - 1)
      <4> SUFFICES ASSUME NEW p \in 1..n, NEW q \in 1..n, p < q, p <= i - 1
                   PROVE  f[p] <= f[q]
        BY <3>3 DEF Low
      <4>1. f[p] = e[p]
        BY <3>1
      <4>2. e[p] <= e[q] /\ e[p] <= e[i] /\ e[p] <= e[j]
        BY <2>1, <2>2 DEF Low
      <4> QED BY <3>1, <4>1, <4>2
    <3>5. ASSUME NEW q \in i+1..j PROVE f[i] <= f[q]
      <4>1. f[i] = e[j]
        BY <3>1
      <4>2. CASE q = j
        <5>1. f[q] = e[i]
          BY <3>1, <4>2
        <5> QED BY <2>2, <2>3, <4>1, <5>1
      <4>3. CASE q # j
        <5>1. q \in i+1..j-1 /\ f[q] = e[q] /\ e[i] <= e[q]
          BY <2>1, <3>1, <4>3
        <5> QED BY <2>2, <2>3, <4>1, <5>1
      <4> QED BY <4>2, <4>3
    <3>6. after[j] = f
      BY <2>1, <2>3 DEF SelectRound, f
    <3> QED BY <3>2, <3>4, <3>5, <3>6
  <2>4. CASE ~(e[i] > e[j])
    <3>1. after[j] = e
      BY <2>1, <2>4 DEF SelectRound
    <3>2. ASSUME NEW q \in i+1..j PROVE e[i] <= e[q]
      BY <2>1, <2>2, <2>4
    <3> QED BY <2>1, <3>1, <3>2
  <2> QED BY <2>3, <2>4
<1> HIDE DEF T
<1>4. n \in T
  <2>1. \A j \in i..n : j \in T
    BY <1>2, <1>3, Upwards
  <2> QED BY <2>1
<1>5. Selected(d, i) \in Arr(n)
  BY <1>1
<1>6. Low(Selected(d, i), i)
  <2>1. Inv(Selected(d, i), n)
    BY <1>1, <1>4 DEF T
  <2>2. Len(Selected(d, i)) = n
    BY <1>5, ArrLen
  <2> QED BY <2>1, <2>2 DEF Low
<1> QED BY <1>1, <1>4, <1>5, <1>6 DEF T

LEMMA SelectedType ==
  ASSUME NEW n \in Nat, NEW d \in Arr(n), NEW i \in 1..n
  PROVE  Selected(d, i) \in Arr(n)
<1>1. PICK after \in [i..n -> Arr(n)] : Selected(d, i) = after[n]
  BY SelectedRounds
<1> QED BY <1>1

LEMMA SelectionRounds ==
  ASSUME NEW n \in Nat, NEW d \in Arr(n)
  PROVE  \E after \in [0..n -> Arr(n)] :
           /\ after[0] = d
           /\ \A i \in 1..n : after[i] = Selected(after[i - 1], i)
           /\ selectionSortAscending(d) = after[n]
<1> DEFINE S == Arr(n)
           F == [i \in 1..n |-> [e \in S |-> Selected(e, i)]]
           Body(g) == [i \in 0..n |-> IF i = 0 THEN d ELSE Selected(g[i - 1], i)]
<1>1. F \in Rounds(S, 0, n)
  <2>1. \A i \in 1..n, e \in S : Selected(e, i) \in S
    BY SelectedType
  <2> HIDE DEF S
  <2> QED BY <2>1 DEF Rounds
<1>2. PICK h : IsLoop(h, S, d, 0, n, F)
  <2> HIDE DEF F, S
  <2>1. d \in S
    BY DEF S
  <2> QED BY <1>1, <2>1, Loop
<1>3. h = Body(h)
  <2>1. ASSUME NEW i \in 0..n PROVE h[i] = Body(h)[i]
    <3> HIDE DEF S
    <3>1. CASE i = 0
      BY <1>2, <3>1 DEF IsLoop
    <3>2. CASE i # 0
      <4>1. i \in 1..n /\ i - 1 \in 0..n /\ h[i - 1] \in S
        BY <1>2, <3>2 DEF IsLoop
      <4>2. h[i] = F[i][h[i - 1]]
        <5> HIDE DEF F
        <5> QED BY <1>2, <4>1 DEF IsLoop
      <4> QED BY <3>2, <4>1, <4>2
    <3> QED BY <3>1, <3>2
  <2> HIDE DEF S
  <2> QED BY <1>2, <2>1 DEF IsLoop
<1>4. selectionSortAscending(d) = (CHOOSE g : g = Body(g))[n]
  BY ArrLen DEF selectionSortAscending
<1> HIDE DEF Body
<1>5. PICK g : g = Body(g) /\ selectionSortAscending(d) = g[n]
  BY <1>3, <1>4
<1>6. g[0] = d /\ \A i \in 1..n : g[i] = Selected(g[i - 1], i)
  BY <1>5 DEF Body
<1> DEFINE T == { i \in 0..n : g[i] \in S }
<1>7. \A i \in 0..n : i \in T
  <2>1. 0 \in T
    BY <1>6
  <2>2. ASSUME NEW i \in 0+1..n, i - 1 \in T PROVE i \in T
    BY <1>6, <2>2, SelectedType
  <2> HIDE DEF T
  <2> QED BY <2>1, <2>2, Upwards
<1>8. g \in [0..n -> S]
  <2>1. g = [i \in 0..n |-> g[i]]
    BY <1>5 DEF Body
  <2> HIDE DEF S
  <2> QED BY <1>7, <2>1
<1> QED BY <1>5, <1>6, <1>8

LEMMA SameTrans ==
  ASSUME NEW d, NEW e, NEW f, SameAs(d, e), SameAs(e, f)
  PROVE  SameAs(d, f)
BY DEF SameAs

(* selectionSortAscending sorts.                                           *)
LEMMA SelectionSorts ==
  ASSUME NEW n \in Nat, NEW d \in Arr(n)
  PROVE  /\ selectionSortAscending(d) \in Arr(n)
         /\ Ascending(selectionSortAscending(d))
         /\ SameAs(d, selectionSortAscending(d))
<1>1. PICK after \in [0..n -> Arr(n)] :
        /\ after[0] = d
        /\ \A i \in 1..n : after[i] = Selected(after[i - 1], i)
        /\ selectionSortAscending(d) = after[n]
  BY SelectionRounds
<1> DEFINE T == { i \in 0..n : Low(after[i], i) /\ SameAs(d, after[i]) }
<1>2. 0 \in T
  BY <1>1 DEF Low, SameAs
<1>3. ASSUME NEW i \in 0+1..n, i - 1 \in T PROVE i \in T
  <2>1. /\ i \in 1..n /\ after[i - 1] \in Arr(n)
        /\ Low(after[i - 1], i - 1) /\ SameAs(d, after[i - 1])
        /\ after[i] = Selected(after[i - 1], i)
    BY <1>1, <1>3
  <2> QED BY <2>1, SelectedLow, SameTrans
<1> HIDE DEF T
<1>4. n \in T
  <2>1. \A i \in 0..n : i \in T
    BY <1>2, <1>3, Upwards
  <2> QED BY <2>1
<1>5. after[n] \in Arr(n) /\ Len(after[n]) = n
  BY <1>1, ArrLen
<1>6. Ascending(after[n])
  BY <1>4, <1>5 DEF T, Low, Ascending
<1> QED BY <1>1, <1>4, <1>5, <1>6 DEF T

(***************************************************************************)
(* Insertion                                                               *)
(***************************************************************************)

LEMMA MovedRounds ==
  ASSUME NEW n \in Nat, NEW d \in Arr(n), NEW j \in 1..n
  PROVE  \E from \in [1..j -> [Arr(n) -> Arr(n)]] :
           /\ \A k \in 1..j : \A e \in Arr(n) :
                from[k][e] = IF k > 1 /\ e[k] > e[k - 1]
                             THEN from[k - 1][Swapped(e, k, k - 1)] ELSE e
           /\ Moved(d, j) = from[j][d]
<1> DEFINE A == Arr(n)
           S == [A -> A]
           b == [e \in A |-> e]
           Step(f, k) == [e \in A |-> IF e[k] > e[k - 1] THEN f[Swapped(e, k, k - 1)] ELSE e]
           F == [k \in 2..j |-> [f \in S |-> Step(f, k)]]
           Body(g) == [k \in 1..j |-> [e \in A |->
                         IF k > 1 /\ e[k] > e[k - 1]
                         THEN g[k - 1][Swapped(e, k, k - 1)] ELSE e]]
<1>1. ASSUME NEW k \in 2..j, NEW f \in S PROVE Step(f, k) \in S
  <2>1. \A e \in A : Swapped(e, k, k - 1) \in A
    BY SwapFacts
  <2> HIDE DEF A
  <2> QED BY <2>1
<1>2. F \in Rounds(S, 1, j)
  <2> HIDE DEF Step, S
  <2> QED BY <1>1 DEF Rounds
<1>3. PICK h : IsLoop(h, S, b, 1, j, F)
  <2>1. b \in S
    OBVIOUS
  <2> HIDE DEF F, S, b
  <2>2. 1 <= j /\ 1 \in Int /\ j \in Int
    OBVIOUS
  <2> QED BY <1>2, <2>1, <2>2, Loop
<1>4. h = Body(h)
  <2>1. ASSUME NEW k \in 1..j PROVE h[k] = Body(h)[k]
    <3>1. CASE k = 1
      <4>1. h[k] = b
        BY <1>3, <3>1 DEF IsLoop
      <4> HIDE DEF A
      <4> QED BY <3>1, <4>1
    <3>2. CASE k # 1
      <4>1. k \in 2..j /\ k - 1 \in 1..j /\ h[k - 1] \in S /\ k > 1
        <5> HIDE DEF S, F, b
        <5> QED BY <1>3, <3>2 DEF IsLoop
      <4>2. h[k] = F[k][h[k - 1]]
        <5> HIDE DEF F, S, b
        <5> QED BY <1>3, <4>1 DEF IsLoop
      <4>3. h[k] = Step(h[k - 1], k)
        <5> HIDE DEF S, Step
        <5> QED BY <4>1, <4>2
      <4> HIDE DEF A
      <4> QED BY <4>1, <4>3
    <3> QED BY <3>1, <3>2
  <2>2. h = [k \in 1..j |-> h[k]]
    <3> HIDE DEF F, S, b
    <3> QED BY <1>3 DEF IsLoop
  <2> HIDE DEF A
  <2> QED BY <2>1, <2>2
<1>5. Moved(d, j) = (CHOOSE g : g = Body(g))[j][d]
  <2>1. Len(d) = n
    BY ArrLen
  <2> QED BY <2>1 DEF Moved, Arr
<1> HIDE DEF Body
<1>6. PICK g : g = Body(g) /\ Moved(d, j) = g[j][d]
  BY <1>4, <1>5
<1>7. ASSUME NEW k \in 1..j
      PROVE  /\ g[k] = [e \in A |-> g[k][e]]
             /\ \A e \in A : g[k][e] = IF k > 1 /\ e[k] > e[k - 1]
                                       THEN g[k - 1][Swapped(e, k, k - 1)] ELSE e
  <2>1. g[k] = Body(g)[k]
    BY <1>6
  <2> HIDE DEF A
  <2>2. g[k] = [e \in A |-> IF k > 1 /\ e[k] > e[k - 1]
                            THEN g[k - 1][Swapped(e, k, k - 1)] ELSE e]
    BY <2>1 DEF Body
  <2> QED BY <2>2
<1> DEFINE T == { k \in 1..j : g[k] \in S }
<1>8. \A k \in 1..j : k \in T
  <2>1. 1 \in T
    <3> HIDE DEF A
    <3>1. 1 \in 1..j /\ ~(1 > 1)
      OBVIOUS
    <3>2. g[1] = [e \in A |-> g[1][e]] /\ \A e \in A : g[1][e] = e
      BY <1>7, <3>1
    <3> QED BY <3>1, <3>2
  <2>2. ASSUME NEW k \in 1+1..j, k - 1 \in T PROVE k \in T
    <3>1. \A e \in A : Swapped(e, k, k - 1) \in A
      BY SwapFacts
    <3> HIDE DEF A
    <3>2. k \in 1..j /\ g[k - 1] \in [A -> A]
      BY <2>2
    <3>3. \A e \in A : g[k][e] \in A
      BY <1>7, <3>1, <3>2
    <3>4. g[k] = [e \in A |-> g[k][e]]
      BY <1>7, <3>2
    <3> QED BY <3>2, <3>3, <3>4
  <2> HIDE DEF T
  <2>3. 1 <= j /\ 1 \in Int /\ j \in Int
    OBVIOUS
  <2> QED BY <2>1, <2>2, <2>3, Upwards
<1>9. g \in [1..j -> S]
  <2>1. g = [k \in 1..j |-> g[k]]
    BY <1>6 DEF Body
  <2> HIDE DEF S
  <2> QED BY <1>8, <2>1
<1>10. \A k \in 1..j : \A e \in Arr(n) :
         g[k][e] = IF k > 1 /\ e[k] > e[k - 1]
                   THEN g[k - 1][Swapped(e, k, k - 1)] ELSE e
  <2>1. A = Arr(n)
    OBVIOUS
  <2> QED BY <1>7, <2>1, Zenon
<1> QED BY <1>6, <1>9, <1>10

(* The first j numbers descend; and those but the k-th do, and it is not   *)
(* smaller than those after it.                                            *)
Down(e, j) == \A p, q \in 1..j : p < q => e[p] >= e[q]
DownBut(e, k, j) == \A p, q \in 1..j : p < q /\ q # k => e[p] >= e[q]

LEMMA SwapDownBut ==
  ASSUME NEW n \in Nat, NEW e \in Arr(n), NEW j \in 1..n, NEW k \in 2..j,
         DownBut(e, k, j), e[k] > e[k - 1]
  PROVE  DownBut(Swapped(e, k, k - 1), k - 1, j)
<1> DEFINE f == Swapped(e, k, k - 1)
<1>1. \A i \in 1..n : f[i] = IF i = k THEN e[k - 1] ELSE IF i = k - 1 THEN e[k] ELSE e[i]
  <2>1. k \in 1..n /\ k - 1 \in 1..n
    OBVIOUS
  <2>2. \A x, y \in 1..n : \A i \in 1..n :
          Swapped(e, x, y)[i] = IF i = x THEN e[y] ELSE IF i = y THEN e[x] ELSE e[i]
    BY SwapFacts
  <2> QED BY <2>1, <2>2
<1>2. \A i \in 1..n : e[i] \in Nat
  BY ArrLen
<1> HIDE DEF f
<1> SUFFICES ASSUME NEW p \in 1..j, NEW q \in 1..j, p < q, q # k - 1
             PROVE  f[p] >= f[q]
  BY DEF DownBut, f
<1>3. \A x, y \in 1..j : x < y /\ y # k => e[x] >= e[y]
  BY DEF DownBut
<1>4. /\ f[k] = e[k - 1] /\ f[k - 1] = e[k]
      /\ \A i \in 1..j : i # k /\ i # k - 1 => f[i] = e[i]
  BY <1>1
<1>5. CASE q = k
  <2>1. CASE p = k - 1
    BY <1>2, <1>4, <1>5, <2>1
  <2>2. CASE p # k - 1
    <3>1. f[p] = e[p] /\ e[p] >= e[k - 1]
      BY <1>3, <1>4, <1>5, <2>2
    <3> QED BY <1>4, <1>5, <3>1
  <2> QED BY <2>1, <2>2
<1>6. CASE q # k
  <2>1. f[q] = e[q]
    BY <1>4, <1>6
  <2>2. CASE p = k
    <3>1. e[k - 1] >= e[q]
      BY <1>3, <1>6, <2>2
    <3> QED BY <1>4, <2>1, <2>2, <3>1
  <2>3. CASE p = k - 1
    <3>1. e[k] >= e[q]
      <4>1. k < q
        BY <1>6, <2>3
      <4> QED BY <1>3, <1>6, <4>1
    <3> QED BY <1>4, <2>1, <2>3, <3>1
  <2>4. CASE p # k /\ p # k - 1
    BY <1>3, <1>4, <1>6, <2>1, <2>4
  <2> QED BY <2>2, <2>3, <2>4
<1> QED BY <1>5, <1>6

(* The j-th number moves to its place among those before it.               *)
LEMMA MovedDown ==
  ASSUME NEW n \in Nat, NEW d \in Arr(n), NEW j \in 1..n, Down(d, j - 1)
  PROVE  /\ Moved(d, j) \in Arr(n)
         /\ Down(Moved(d, j), j)
         /\ SameAs(d, Moved(d, j))
<1>1. PICK from \in [1..j -> [Arr(n) -> Arr(n)]] :
        /\ \A k \in 1..j : \A e \in Arr(n) :
             from[k][e] = IF k > 1 /\ e[k] > e[k - 1]
                          THEN from[k - 1][Swapped(e, k, k - 1)] ELSE e
        /\ Moved(d, j) = from[j][d]
  BY MovedRounds
<1> DEFINE T == { k \in 1..j : \A e \in Arr(n) : DownBut(e, k, j) =>
                    Down(from[k][e], j) /\ SameAs(e, from[k][e]) }
<1>2. ASSUME NEW k \in 1..j, NEW e \in Arr(n), DownBut(e, k, j), ~(k > 1 /\ e[k] > e[k - 1])
      PROVE  Down(from[k][e], j) /\ SameAs(e, from[k][e])
  <2>1. from[k][e] = e
    BY <1>1, <1>2
  <2>2. \A i \in 1..n : e[i] \in Nat
    BY ArrLen
  <2>3. ASSUME NEW p \in 1..j, NEW q \in 1..j, p < q PROVE e[p] >= e[q]
    <3>1. CASE q # k
      BY <1>2, <2>3, <3>1 DEF DownBut
    <3>2. CASE q = k
      <4>1. k > 1 /\ k - 1 \in 1..j /\ e[k - 1] >= e[k]
        BY <1>2, <2>2, <2>3, <3>2
      <4>2. CASE p = k - 1
        BY <3>2, <4>1, <4>2
      <4>3. CASE p # k - 1
        <5>1. e[p] >= e[k - 1]
          BY <1>2, <2>3, <3>2, <4>1, <4>3 DEF DownBut
        <5>2. e[p] \in Nat /\ e[k - 1] \in Nat /\ e[k] \in Nat
          BY <2>2, <4>1
        <5> QED BY <3>2, <4>1, <5>1, <5>2
      <4> QED BY <4>2, <4>3
    <3> QED BY <3>1, <3>2
  <2> QED BY <2>1, <2>3 DEF Down, SameAs
<1>3. 1 \in T
  BY <1>2
<1>4. ASSUME NEW k \in 1+1..j, k - 1 \in T PROVE k \in T
  <2> SUFFICES ASSUME NEW e \in Arr(n), DownBut(e, k, j)
               PROVE  Down(from[k][e], j) /\ SameAs(e, from[k][e])
    OBVIOUS
  <2>1. CASE k > 1 /\ e[k] > e[k - 1]
    <3> DEFINE f == Swapped(e, k, k - 1)
    <3>1. f \in Arr(n)
      BY SwapFacts
    <3>2. DownBut(f, k - 1, j)
      BY <2>1, SwapDownBut
    <3>3. SameAs(e, f)
      BY SwapCount DEF SameAs
    <3>4. from[k][e] = from[k - 1][f]
      BY <1>1, <2>1
    <3> HIDE DEF f
    <3>5. Down(from[k - 1][f], j) /\ SameAs(f, from[k - 1][f])
      BY <1>4, <3>1, <3>2
    <3> QED BY <3>3, <3>4, <3>5, SameTrans
  <2>2. CASE ~(k > 1 /\ e[k] > e[k - 1])
    BY <1>2, <2>2
  <2> QED BY <2>1, <2>2
<1> HIDE DEF T
<1>5. j \in T
  <2>1. 1 <= j /\ 1 \in Int /\ j \in Int
    OBVIOUS
  <2>2. \A k \in 1..j : k \in T
    BY <1>3, <1>4, <2>1, Upwards
  <2> QED BY <2>1, <2>2
<1>6. DownBut(d, j, j)
  BY DEF DownBut, Down
<1>7. Moved(d, j) \in Arr(n)
  BY <1>1
<1> QED BY <1>1, <1>5, <1>6, <1>7 DEF T

LEMMA MovedType ==
  ASSUME NEW n \in Nat, NEW d \in Arr(n), NEW j \in 1..n
  PROVE  Moved(d, j) \in Arr(n)
<1>1. PICK from \in [1..j -> [Arr(n) -> Arr(n)]] :
        /\ \A k \in 1..j : \A e \in Arr(n) :
             from[k][e] = IF k > 1 /\ e[k] > e[k - 1]
                          THEN from[k - 1][Swapped(e, k, k - 1)] ELSE e
        /\ Moved(d, j) = from[j][d]
  BY MovedRounds
<1> QED BY <1>1

LEMMA InsertionRounds ==
  ASSUME NEW n \in Nat, NEW d \in Arr(n)
  PROVE  \E after \in [0..n -> Arr(n)] :
           /\ after[0] = d
           /\ \A i \in 1..n : after[i] = Moved(after[i - 1], i)
           /\ insertionSortDescending(d) = after[n]
<1> DEFINE S == Arr(n)
           F == [i \in 1..n |-> [e \in S |-> Moved(e, i)]]
           Body(g) == [i \in 0..n |-> IF i = 0 THEN d ELSE Moved(g[i - 1], i)]
<1>1. F \in Rounds(S, 0, n)
  <2>1. \A i \in 1..n, e \in S : Moved(e, i) \in S
    BY MovedType
  <2> HIDE DEF S
  <2> QED BY <2>1 DEF Rounds
<1>2. PICK h : IsLoop(h, S, d, 0, n, F)
  <2> HIDE DEF F, S
  <2>1. d \in S
    BY DEF S
  <2> QED BY <1>1, <2>1, Loop
<1>3. h = Body(h)
  <2>1. ASSUME NEW i \in 0..n PROVE h[i] = Body(h)[i]
    <3> HIDE DEF S
    <3>1. CASE i = 0
      BY <1>2, <3>1 DEF IsLoop
    <3>2. CASE i # 0
      <4>1. i \in 1..n /\ i - 1 \in 0..n /\ h[i - 1] \in S
        BY <1>2, <3>2 DEF IsLoop
      <4>2. h[i] = F[i][h[i - 1]]
        <5> HIDE DEF F
        <5> QED BY <1>2, <4>1 DEF IsLoop
      <4> QED BY <3>2, <4>1, <4>2
    <3> QED BY <3>1, <3>2
  <2> HIDE DEF S
  <2> QED BY <1>2, <2>1 DEF IsLoop
<1>4. insertionSortDescending(d) = (CHOOSE g : g = Body(g))[n]
  BY ArrLen DEF insertionSortDescending
<1> HIDE DEF Body
<1>5. PICK g : g = Body(g) /\ insertionSortDescending(d) = g[n]
  BY <1>3, <1>4
<1>6. g[0] = d /\ \A i \in 1..n : g[i] = Moved(g[i - 1], i)
  BY <1>5 DEF Body
<1> DEFINE T == { i \in 0..n : g[i] \in S }
<1>7. \A i \in 0..n : i \in T
  <2>1. 0 \in T
    BY <1>6
  <2>2. ASSUME NEW i \in 0+1..n, i - 1 \in T PROVE i \in T
    BY <1>6, <2>2, MovedType
  <2> HIDE DEF T
  <2> QED BY <2>1, <2>2, Upwards
<1>8. g \in [0..n -> S]
  <2>1. g = [i \in 0..n |-> g[i]]
    BY <1>5 DEF Body
  <2> HIDE DEF S
  <2> QED BY <1>7, <2>1
<1> QED BY <1>5, <1>6, <1>8

(* insertionSortDescending sorts.                                          *)
LEMMA InsertionSorts ==
  ASSUME NEW n \in Nat, NEW d \in Arr(n)
  PROVE  /\ insertionSortDescending(d) \in Arr(n)
         /\ Descending(insertionSortDescending(d))
         /\ SameAs(d, insertionSortDescending(d))
<1>1. PICK after \in [0..n -> Arr(n)] :
        /\ after[0] = d
        /\ \A i \in 1..n : after[i] = Moved(after[i - 1], i)
        /\ insertionSortDescending(d) = after[n]
  BY InsertionRounds
<1> DEFINE T == { i \in 0..n : Down(after[i], i) /\ SameAs(d, after[i]) }
<1>2. 0 \in T
  BY <1>1 DEF Down, SameAs
<1>3. ASSUME NEW i \in 0+1..n, i - 1 \in T PROVE i \in T
  <2>1. /\ i \in 1..n /\ after[i - 1] \in Arr(n)
        /\ Down(after[i - 1], i - 1) /\ SameAs(d, after[i - 1])
        /\ after[i] = Moved(after[i - 1], i)
    BY <1>1, <1>3
  <2> QED BY <2>1, MovedDown, SameTrans
<1> HIDE DEF T
<1>4. n \in T
  <2>1. \A i \in 0..n : i \in T
    BY <1>2, <1>3, Upwards
  <2> QED BY <2>1
<1>5. after[n] \in Arr(n) /\ Len(after[n]) = n
  BY <1>1, ArrLen
<1>6. Descending(after[n])
  BY <1>4, <1>5 DEF T, Down, Descending
<1> QED BY <1>1, <1>4, <1>5, <1>6 DEF T

(***************************************************************************)
(* Merging                                                                 *)
(***************************************************************************)

MergeRounds(n1, s, t, a, n) ==
  /\ n1 \in [0..n -> Int]
  /\ n1[n] = a
  /\ \A i \in 0..n-1 :
       n1[i] = IF FromFirst(s, t, n1[i + 1], i + 1) THEN n1[i + 1] - 1 ELSE n1[i + 1]
  /\ Merged(s, t) = [i \in 1..n |-> IF FromFirst(s, t, n1[i], i) THEN s[n1[i]]
                                   ELSE t[i - n1[i]]]

LEMMA MergedRounds ==
  ASSUME NEW a \in Nat, NEW b \in Nat, NEW s \in Arr(a), NEW t \in Arr(b),
         NEW n \in Nat, n = a + b
  PROVE  \E n1 : MergeRounds(n1, s, t, a, n)
<1> DEFINE F == [m \in 1..n |-> [k \in Int |->
                   IF FromFirst(s, t, k, n - m + 1) THEN k - 1 ELSE k]]
           Body(g) == [i \in 0..n |->
                         IF i = n THEN a
                         ELSE LET k == g[i + 1]
                              IN IF FromFirst(s, t, k, i + 1) THEN k - 1 ELSE k]
           Out(g) == [i \in 1..n |-> IF FromFirst(s, t, g[i], i) THEN s[g[i]] ELSE t[i - g[i]]]
<1>1. F \in Rounds(Int, 0, n)
  BY DEF Rounds
<1>2. PICK h : IsLoop(h, Int, a, 0, n, F)
  <2> HIDE DEF F
  <2>1. a \in Int /\ 0 \in Int /\ n \in Int /\ 0 <= n
    OBVIOUS
  <2> QED BY <1>1, <2>1, Loop
<1> DEFINE g0 == [i \in 0..n |-> h[n - i]]
<1>3. g0 = Body(g0)
  <2>1. ASSUME NEW i \in 0..n PROVE g0[i] = Body(g0)[i]
    <3>1. CASE i = n
      BY <1>2, <3>1 DEF IsLoop
    <3>2. CASE i # n
      <4>1. /\ n - i \in 1..n /\ n - (i + 1) = (n - i) - 1 /\ i + 1 \in 0..n
            /\ n - (n - i) + 1 = i + 1
        BY <3>2
      <4>2. h[n - i] = F[n - i][h[n - (i + 1)]] /\ h[n - (i + 1)] \in Int
        <5> DEFINE k == n - i
        <5>1. \A j \in 1..n : h[j] = F[j][h[j - 1]]
          <6> HIDE DEF F
          <6> QED BY <1>2, SMTT(30) DEF IsLoop
        <5>2. \A j \in 0..n : h[j] \in Int
          <6> HIDE DEF F
          <6> QED BY <1>2, SMTT(30) DEF IsLoop
        <5>3. k \in 1..n /\ k - 1 = n - (i + 1) /\ k - 1 \in 0..n
          BY <4>1
        <5> HIDE DEF F, k
        <5>4. h[k] = F[k][h[k - 1]] /\ h[k - 1] \in Int
          BY <5>1, <5>2, <5>3
        <5> QED BY <5>3, <5>4 DEF k
      <4>3. g0[i] = F[n - i][g0[i + 1]] /\ g0[i + 1] \in Int
        <5> HIDE DEF F
        <5> QED BY <4>1, <4>2
      <4> HIDE DEF g0
      <4> QED BY <3>2, <4>1, <4>3
    <3> QED BY <3>1, <3>2
  <2> HIDE DEF Body
  <2>2. Body(g0) = [i \in 0..n |-> Body(g0)[i]]
    BY DEF Body
  <2> QED BY <2>1, <2>2
<1>4. Merged(s, t) = Out(CHOOSE g : g = Body(g))
  <2>1. Len(s) = a /\ Len(t) = b
    BY ArrLen
  <2> QED BY <2>1 DEF Merged
<1> HIDE DEF Body, Out, g0
<1>5. PICK g : g = Body(g) /\ Merged(s, t) = Out(g)
  BY <1>3, <1>4
<1>6. ASSUME NEW i \in 0..n PROVE g[i] = Body(g)[i]
  BY <1>5
<1>7. g[n] = a
  BY <1>6 DEF Body
<1>8. ASSUME NEW i \in 0..n-1
      PROVE g[i] = IF FromFirst(s, t, g[i + 1], i + 1) THEN g[i + 1] - 1 ELSE g[i + 1]
  BY <1>6 DEF Body
<1> DEFINE T == { m \in 0..n : g[n - m] \in Int }
<1>9. \A m \in 0..n : m \in T
  <2>1. 0 \in T
    BY <1>7
  <2>2. ASSUME NEW m \in 0+1..n, m - 1 \in T PROVE m \in T
    <3>1. n - m \in 0..n-1 /\ (n - m) + 1 = n - (m - 1)
      OBVIOUS
    <3> QED BY <1>8, <2>2, <3>1
  <2> HIDE DEF T
  <2> QED BY <2>1, <2>2, Upwards
<1>10. g \in [0..n -> Int]
  <2>1. ASSUME NEW i \in 0..n PROVE g[i] \in Int
    <3>1. n - i \in 0..n /\ n - (n - i) = i
      OBVIOUS
    <3> QED BY <1>9, <3>1
  <2>2. g = [i \in 0..n |-> g[i]]
    BY <1>5 DEF Body
  <2> QED BY <2>1, <2>2
<1>11. MergeRounds(g, s, t, a, n)
  BY <1>5, <1>7, <1>8, <1>10 DEF Out, MergeRounds
<1> QED BY <1>11

(* The numbers left of the halves when the i-th place is filled.           *)
IsLeft(n1, s, t, a, b, n) ==
  /\ n1 \in [0..n -> Nat]
  /\ n1[n] = a
  /\ \A i \in 0..n : n1[i] <= a /\ n1[i] <= i /\ i - n1[i] <= b
  /\ \A i \in 1..n :
       IF FromFirst(s, t, n1[i], i)
       THEN n1[i] \in 1..a /\ Merged(s, t)[i] = s[n1[i]] /\ n1[i - 1] = n1[i] - 1
       ELSE i - n1[i] \in 1..b /\ Merged(s, t)[i] = t[i - n1[i]] /\ n1[i - 1] = n1[i]

LEMMA MergedLeft ==
  ASSUME NEW a \in Nat, NEW b \in Nat, NEW s \in Arr(a), NEW t \in Arr(b),
         NEW n \in Nat, n = a + b
  PROVE  /\ Merged(s, t) \in Arr(n)
         /\ \E n1 : IsLeft(n1, s, t, a, b, n)
<1>0. PICK n1 : MergeRounds(n1, s, t, a, n)
  BY MergedRounds
<1>1. /\ n1 \in [0..n -> Int]
      /\ n1[n] = a
      /\ \A i \in 0..n-1 :
           n1[i] = IF FromFirst(s, t, n1[i + 1], i + 1) THEN n1[i + 1] - 1 ELSE n1[i + 1]
      /\ Merged(s, t) = [i \in 1..n |-> IF FromFirst(s, t, n1[i], i) THEN s[n1[i]]
                                       ELSE t[i - n1[i]]]
  BY <1>0 DEF MergeRounds
<1> DEFINE Ok(i) == n1[i] \in Nat /\ n1[i] <= a /\ n1[i] <= i /\ i - n1[i] <= b
<1>2. ASSUME NEW i \in 1..n, Ok(i)
      PROVE  /\ IF FromFirst(s, t, n1[i], i) THEN n1[i] \in 1..a ELSE i - n1[i] \in 1..b
             /\ n1[i - 1] = IF FromFirst(s, t, n1[i], i) THEN n1[i] - 1 ELSE n1[i]
  <2>1. i - 1 \in 0..n-1 /\ (i - 1) + 1 = i
    OBVIOUS
  <2>2. n1[i - 1] = IF FromFirst(s, t, n1[i], i) THEN n1[i] - 1 ELSE n1[i]
    BY <1>1, <2>1
  <2>3. FromFirst(s, t, n1[i], i) => n1[i] # 0
    BY DEF FromFirst
  <2>4. ~FromFirst(s, t, n1[i], i) => i # n1[i]
    BY DEF FromFirst
  <2>5. FromFirst(s, t, n1[i], i) => n1[i] \in 1..a
    BY <1>2, <2>3
  <2>6. ~FromFirst(s, t, n1[i], i) => i - n1[i] \in 1..b
    BY <1>2, <2>4
  <2> QED BY <2>2, <2>5, <2>6
<1> DEFINE T == { m \in 0..n : Ok(n - m) }
<1>3. \A m \in 0..n : m \in T
  <2>1. 0 \in T
    BY <1>1
  <2>2. ASSUME NEW m \in 0+1..n, m - 1 \in T PROVE m \in T
    <3> DEFINE i == n - (m - 1)
    <3>1. i \in 1..n /\ Ok(i) /\ n - m = i - 1
      BY <2>2
    <3> HIDE DEF i
    <3>2. CASE FromFirst(s, t, n1[i], i)
      <4>1. n1[i] \in 1..a /\ n1[i - 1] = n1[i] - 1
        BY <1>2, <3>1, <3>2
      <4>2. Ok(i - 1)
        BY <3>1, <4>1
      <4> QED BY <3>1, <4>2
    <3>3. CASE ~FromFirst(s, t, n1[i], i)
      <4>1. i - n1[i] \in 1..b /\ n1[i - 1] = n1[i]
        BY <1>2, <3>1, <3>3
      <4>2. Ok(i - 1)
        BY <3>1, <4>1
      <4> QED BY <3>1, <4>2
    <3> QED BY <3>2, <3>3
  <2> HIDE DEF T
  <2>3. 0 \in Int /\ n \in Int /\ 0 <= n
    OBVIOUS
  <2> QED BY <2>1, <2>2, <2>3, Upwards
<1>4. ASSUME NEW i \in 0..n PROVE Ok(i)
  <2>1. n - i \in 0..n /\ n - (n - i) = i
    OBVIOUS
  <2>2. n - i \in T
    BY <1>3, <2>1
  <2> QED BY <2>1, <2>2
<1>5. ASSUME NEW i \in 1..n
      PROVE  /\ IF FromFirst(s, t, n1[i], i) THEN Merged(s, t)[i] = s[n1[i]]
                ELSE Merged(s, t)[i] = t[i - n1[i]]
             /\ Merged(s, t)[i] \in Number
  <2>1. Merged(s, t)[i] = IF FromFirst(s, t, n1[i], i) THEN s[n1[i]] ELSE t[i - n1[i]]
    BY <1>1
  <2>2. Ok(i)
    BY <1>4
  <2>3. \A j \in 1..a : s[j] \in Number
    BY DEF Arr
  <2>4. \A j \in 1..b : t[j] \in Number
    BY DEF Arr
  <2> HIDE DEF Ok
  <2> QED BY <1>2, <2>1, <2>2, <2>3, <2>4
<1>6. Merged(s, t) \in Arr(n)
  BY <1>1, <1>5 DEF Arr
<1>7. n1 \in [0..n -> Nat]
  BY <1>1, <1>4
<1>8. IsLeft(n1, s, t, a, b, n)
  <2>1. \A i \in 0..n : n1[i] <= a /\ n1[i] <= i /\ i - n1[i] <= b
    BY <1>4
  <2>2. ASSUME NEW i \in 1..n
        PROVE  IF FromFirst(s, t, n1[i], i)
               THEN n1[i] \in 1..a /\ Merged(s, t)[i] = s[n1[i]] /\ n1[i - 1] = n1[i] - 1
               ELSE i - n1[i] \in 1..b /\ Merged(s, t)[i] = t[i - n1[i]] /\ n1[i - 1] = n1[i]
    <3>1. Ok(i)
      BY <1>4
    <3> HIDE DEF Ok
    <3> QED BY <1>2, <1>5, <3>1
  <2> QED BY <1>1, <1>7, <2>1, <2>2 DEF IsLeft
<1> QED BY <1>6, <1>8

LEMMA MergedCount ==
  ASSUME NEW a \in Nat, NEW b \in Nat, NEW s \in Arr(a), NEW t \in Arr(b), NEW v
  PROVE  Count(Merged(s, t), v) = Count(s, v) + Count(t, v)
<1> DEFINE n == a + b
           d == Merged(s, t)
<1>1. n \in Nat
  OBVIOUS
<1>2. d \in Arr(n) /\ \E n1 : IsLeft(n1, s, t, a, b, n)
  <2> HIDE DEF n
  <2>1. n = a + b
    BY DEF n
  <2> QED BY <1>1, <2>1, MergedLeft
<1>3. PICK n1 : IsLeft(n1, s, t, a, b, n)
  BY <1>2
<1> HIDE DEF d
<1>4. /\ n1 \in [0..n -> Nat]
      /\ n1[n] = a
      /\ \A i \in 0..n : n1[i] <= a /\ n1[i] <= i /\ i - n1[i] <= b
      /\ \A i \in 1..n :
           IF FromFirst(s, t, n1[i], i)
           THEN n1[i] \in 1..a /\ d[i] = s[n1[i]] /\ n1[i - 1] = n1[i] - 1
           ELSE i - n1[i] \in 1..b /\ d[i] = t[i - n1[i]] /\ n1[i - 1] = n1[i]
  BY <1>3 DEF IsLeft, d
<1> DEFINE Sum(i) == After(d, i, v) = After(s, n1[i], v) + After(t, i - n1[i], v)
           T == { m \in 0..n : Sum(n - m) }
<1>5. Counts(d, n, v)
  <2> HIDE DEF n
  <2> QED BY <1>1, <1>2, AfterStep DEF d
<1>6. Counts(s, a, v) /\ Counts(t, b, v)
  BY AfterStep
<1>7. ASSUME NEW i \in 0..n
      PROVE  /\ n1[i] \in 0..a /\ i - n1[i] \in 0..b
             /\ After(s, n1[i], v) \in Nat /\ After(t, i - n1[i], v) \in Nat
             /\ After(d, i, v) \in Nat
  <2>1. n1[i] \in 0..a /\ i - n1[i] \in 0..b
    BY <1>4
  <2> QED BY <1>5, <1>6, <2>1 DEF Counts
<1>8. ASSUME NEW i \in 1..n, Sum(i) PROVE Sum(i - 1)
  <2>1. /\ n1[i] \in 0..a /\ i - n1[i] \in 0..b /\ n1[i] \in Nat
        /\ After(s, n1[i], v) \in Nat /\ After(t, i - n1[i], v) \in Nat
        /\ After(d, i, v) \in Nat
    <3>1. i \in 0..n
      OBVIOUS
    <3> QED BY <1>7, <3>1
  <2>2. CASE FromFirst(s, t, n1[i], i)
    <3>1. n1[i] \in 1..a /\ d[i] = s[n1[i]] /\ n1[i - 1] = n1[i] - 1
      BY <1>4, <2>2
    <3>2. After(s, n1[i - 1], v) = IF s[n1[i]] = v THEN After(s, n1[i], v) + 1
                                   ELSE After(s, n1[i], v)
      BY <1>6, <3>1 DEF Counts
    <3>3. (i - 1) - n1[i - 1] = i - n1[i]
      BY <2>1, <3>1
    <3>4. After(d, i - 1, v) = IF d[i] = v THEN After(d, i, v) + 1 ELSE After(d, i, v)
      BY <1>5 DEF Counts
    <3> QED BY <1>8, <2>1, <3>1, <3>2, <3>3, <3>4
  <2>3. CASE ~FromFirst(s, t, n1[i], i)
    <3>1. i - n1[i] \in 1..b /\ d[i] = t[i - n1[i]] /\ n1[i - 1] = n1[i]
      BY <1>4, <2>3
    <3>2. (i - 1) - n1[i - 1] = (i - n1[i]) - 1
      BY <2>1, <3>1
    <3>3. After(t, (i - 1) - n1[i - 1], v) =
            IF t[i - n1[i]] = v THEN After(t, i - n1[i], v) + 1 ELSE After(t, i - n1[i], v)
      BY <1>6, <3>1, <3>2 DEF Counts
    <3>4. After(d, i - 1, v) = IF d[i] = v THEN After(d, i, v) + 1 ELSE After(d, i, v)
      BY <1>5 DEF Counts
    <3> QED BY <1>8, <2>1, <3>1, <3>3, <3>4
  <2> QED BY <2>2, <2>3
<1>9. \A m \in 0..n : m \in T
  <2>1. 0 \in T
    <3>1. n - 0 = n /\ n - n1[n] = b
      BY <1>4
    <3> QED BY <1>4, <1>5, <1>6, <3>1 DEF Counts
  <2>2. ASSUME NEW m \in 0+1..n, m - 1 \in T PROVE m \in T
    <3>1. n - (m - 1) \in 1..n /\ (n - (m - 1)) - 1 = n - m
      OBVIOUS
    <3>2. Sum(n - (m - 1))
      BY <2>2
    <3>3. Sum((n - (m - 1)) - 1)
      <4> HIDE DEF Sum
      <4> QED BY <1>8, <3>1, <3>2
    <3> QED BY <3>1, <3>3
  <2> HIDE DEF T
  <2>3. 0 \in Int /\ n \in Int /\ 0 <= n
    OBVIOUS
  <2> QED BY <2>1, <2>2, <2>3, Upwards
<1>10. Sum(0)
  <2>1. n \in 0..n /\ n - n = 0
    OBVIOUS
  <2>2. n \in T
    BY <1>9, <2>1
  <2> QED BY <2>1, <2>2
<1>11. n1[0] = 0 /\ 0 - n1[0] = 0
  <2>1. 0 \in 0..n
    OBVIOUS
  <2>2. n1[0] \in Nat /\ n1[0] <= 0
    BY <1>4, <2>1
  <2> QED BY <2>2
<1> QED BY <1>5, <1>6, <1>10, <1>11 DEF d, Counts

LEMMA Adjacent ==
  ASSUME NEW n \in Nat, NEW e \in Arr(n), \A i \in 1..n-1 : e[i] >= e[i + 1]
  PROVE  Descending(e)
<1>1. Len(e) = n /\ \A i \in 1..n : e[i] \in Nat
  BY ArrLen
<1>2. ASSUME NEW i \in 1..n, NEW j \in 1..n, i < j PROVE e[i] >= e[j]
  <2> DEFINE T == { k \in i..n : e[i] >= e[k] }
  <2>1. i \in T
    BY <1>1
  <2>2. ASSUME NEW k \in i+1..n, k - 1 \in T PROVE k \in T
    <3>1. /\ k - 1 \in 1..n-1 /\ (k - 1) + 1 = k /\ k \in 1..n /\ k - 1 \in 1..n
          /\ e[i] >= e[k - 1]
      BY <2>2
    <3>2. e[k - 1] >= e[k]
      BY <3>1
    <3>3. e[i] \in Nat /\ e[k - 1] \in Nat /\ e[k] \in Nat
      BY <1>1, <3>1
    <3>4. e[i] >= e[k]
      BY <3>1, <3>2, <3>3
    <3> QED BY <3>4
  <2> HIDE DEF T
  <2>3. i <= n /\ i \in Int /\ n \in Int
    OBVIOUS
  <2>4. \A k \in i..n : k \in T
    BY <2>1, <2>2, <2>3, Upwards
  <2>5. j \in T
    BY <1>2, <2>4
  <2> QED BY <2>5 DEF T
<1> QED BY <1>1, <1>2 DEF Descending

LEMMA MergedDescends ==
  ASSUME NEW a \in Nat, NEW b \in Nat, NEW s \in Arr(a), NEW t \in Arr(b),
         NEW n \in Nat, n = a + b, Descending(s), Descending(t)
  PROVE  Descending(Merged(s, t))
<1> DEFINE d == Merged(s, t)
<1>1. d \in Arr(n) /\ \E n1 : IsLeft(n1, s, t, a, b, n)
  BY MergedLeft
<1>2. PICK n1 : IsLeft(n1, s, t, a, b, n)
  BY <1>1
<1> HIDE DEF d
<1>3. /\ n1 \in [0..n -> Nat]
      /\ \A i \in 0..n : n1[i] <= a /\ n1[i] <= i /\ i - n1[i] <= b
      /\ \A i \in 1..n :
           IF FromFirst(s, t, n1[i], i)
           THEN n1[i] \in 1..a /\ d[i] = s[n1[i]] /\ n1[i - 1] = n1[i] - 1
           ELSE i - n1[i] \in 1..b /\ d[i] = t[i - n1[i]] /\ n1[i - 1] = n1[i]
  BY <1>2 DEF IsLeft, d
<1>4. /\ \A i, j \in 1..a : i <= j => s[i] >= s[j] /\ s[i] \in Nat
      /\ \A i, j \in 1..b : i <= j => t[i] >= t[j] /\ t[i] \in Nat
  <2>1. Len(s) = a /\ \A i \in 1..a : s[i] \in Nat
    BY ArrLen
  <2>2. Len(t) = b /\ \A i \in 1..b : t[i] \in Nat
    BY ArrLen
  <2>3. ASSUME NEW i \in 1..a, NEW j \in 1..a, i <= j PROVE s[i] >= s[j] /\ s[i] \in Nat
    <3>1. CASE i = j
      BY <2>1, <3>1
    <3>2. CASE i < j
      BY <2>1, <3>2 DEF Descending
    <3> QED BY <2>3, <3>1, <3>2
  <2>4. ASSUME NEW i \in 1..b, NEW j \in 1..b, i <= j PROVE t[i] >= t[j] /\ t[i] \in Nat
    <3>1. CASE i = j
      BY <2>2, <3>1
    <3>2. CASE i < j
      BY <2>2, <3>2 DEF Descending
    <3> QED BY <2>4, <3>1, <3>2
  <2> QED BY <2>3, <2>4
(* Whatever is left is not smaller than what is put down. *)
<1>5. ASSUME NEW i \in 1..n
      PROVE  /\ \A p \in 1..n1[i] : s[p] >= d[i]
             /\ \A q \in 1..i-n1[i] : t[q] >= d[i]
  <2>1. n1[i] \in 0..a /\ i - n1[i] \in 0..b /\ n1[i] \in Nat
    <3>1. i \in 0..n
      OBVIOUS
    <3>2. n1[i] \in Nat /\ n1[i] <= a /\ n1[i] <= i /\ i - n1[i] <= b
      BY <1>3, <3>1
    <3> QED BY <3>1, <3>2
  <2>2. CASE FromFirst(s, t, n1[i], i)
    <3>1. n1[i] \in 1..a /\ d[i] = s[n1[i]]
      BY <1>3, <2>2
    <3>2. \A p \in 1..n1[i] : s[p] >= d[i]
      BY <1>4, <3>1
    <3>3. ASSUME NEW q \in 1..i-n1[i] PROVE t[q] >= d[i]
      <4>1. i - n1[i] \in 1..b /\ q \in 1..b
        BY <2>1
      <4>2. s[n1[i]] < t[i - n1[i]]
        BY <2>1, <2>2, <4>1 DEF FromFirst
      <4>3. t[q] >= t[i - n1[i]] /\ t[q] \in Nat /\ t[i - n1[i]] \in Nat /\ s[n1[i]] \in Nat
        BY <1>4, <3>1, <4>1
      <4> QED BY <3>1, <4>2, <4>3
    <3> QED BY <3>2, <3>3
  <2>3. CASE ~FromFirst(s, t, n1[i], i)
    <3>1. i - n1[i] \in 1..b /\ d[i] = t[i - n1[i]]
      BY <1>3, <2>3
    <3>2. \A q \in 1..i-n1[i] : t[q] >= d[i]
      BY <1>4, <3>1
    <3>3. ASSUME NEW p \in 1..n1[i] PROVE s[p] >= d[i]
      <4>1. n1[i] \in 1..a /\ p \in 1..a
        BY <2>1
      <4>2. ~(s[n1[i]] < t[i - n1[i]])
        BY <2>3, <4>1 DEF FromFirst
      <4>3. s[p] >= s[n1[i]] /\ s[p] \in Nat /\ s[n1[i]] \in Nat /\ t[i - n1[i]] \in Nat
        BY <1>4, <3>1, <4>1
      <4> QED BY <3>1, <4>2, <4>3
    <3> QED BY <3>2, <3>3
  <2> QED BY <2>2, <2>3
<1>6. ASSUME NEW i \in 1..n-1 PROVE d[i] >= d[i + 1]
  <2>1. i \in 1..n /\ i + 1 \in 1..n /\ (i + 1) - 1 = i /\ i \in 0..n /\ i + 1 \in 0..n
    OBVIOUS
  <2>2. n1[i] \in Nat /\ n1[i + 1] \in Nat
    BY <1>3, <2>1
  <2>3. n1[i] = n1[i + 1] - 1 \/ n1[i] = n1[i + 1]
    BY <1>3, <2>1
  <2>4. CASE FromFirst(s, t, n1[i], i)
    <3>1. n1[i] \in 1..a /\ d[i] = s[n1[i]]
      BY <1>3, <2>1, <2>4
    <3>2. n1[i] \in 1..n1[i + 1]
      BY <2>2, <2>3, <3>1
    <3> QED BY <1>5, <2>1, <3>1, <3>2
  <2>5. CASE ~FromFirst(s, t, n1[i], i)
    <3>1. i - n1[i] \in 1..b /\ d[i] = t[i - n1[i]]
      BY <1>3, <2>1, <2>5
    <3>2. i - n1[i] \in 1..(i + 1) - n1[i + 1]
      BY <2>2, <2>3, <3>1
    <3> QED BY <1>5, <2>1, <3>1, <3>2
  <2> QED BY <2>4, <2>5
<1> QED BY <1>1, <1>6, Adjacent DEF d

(* An array in two parts.                                                  *)
LEMMA Parts ==
  ASSUME NEW n \in Nat, NEW e \in Arr(n), NEW h \in 0..n
  PROVE  /\ SubSeq(e, 1, h) \in Arr(h)
         /\ SubSeq(e, h + 1, n) \in Arr(n - h)
         /\ \A v : Count(e, v) = Count(SubSeq(e, 1, h), v) + Count(SubSeq(e, h + 1, n), v)
<1> DEFINE s == SubSeq(e, 1, h)
           t == SubSeq(e, h + 1, n)
<1>1. \A i \in 1..n : e[i] \in Number
  BY DEF Arr
<1>2. s \in Arr(h) /\ \A i \in 1..h : s[i] = e[i]
  <2>1. \A i \in 1..h : e[i] \in Number
    BY <1>1
  <2>2. /\ s \in Seq(Number) /\ Len(s) = IF 1 <= h THEN h - 1 + 1 ELSE 0
        /\ \A i \in 1..h-1+1 : s[i] = e[1 + i - 1]
    <3>1. 1 \in Int /\ h \in Int
      OBVIOUS
    <3> QED BY <2>1, <3>1, SubSeqProperties
  <2>3. Len(s) = h /\ \A i \in 1..h : s[i] = e[i]
    BY <2>2
  <2> HIDE DEF s
  <2> QED BY <2>2, <2>3, LenProperties DEF Arr
<1>3. t \in Arr(n - h) /\ \A i \in 1..n-h : t[i] = e[h + i]
  <2>1. \A i \in h+1..n : e[i] \in Number
    BY <1>1
  <2>2. /\ t \in Seq(Number) /\ Len(t) = IF h + 1 <= n THEN n - (h + 1) + 1 ELSE 0
        /\ \A i \in 1..n-(h+1)+1 : t[i] = e[(h + 1) + i - 1]
    <3>1. h + 1 \in Int /\ n \in Int
      OBVIOUS
    <3> QED BY <2>1, <3>1, SubSeqProperties
  <2>3. Len(t) = n - h /\ \A i \in 1..n-h : t[i] = e[h + i]
    BY <2>2
  <2> HIDE DEF t
  <2> QED BY <2>2, <2>3, LenProperties DEF Arr
<1> HIDE DEF s, t
<1>4. ASSUME NEW v PROVE Count(e, v) = Count(s, v) + Count(t, v)
  <2> DEFINE A == { i \in 1..n : e[i] = v }
             B == { i \in 1..h : s[i] = v }
             D == { i \in h+1..n : e[i] = v }
             E == { i \in 1..n-h : t[i] = v }
             f == [i \in E |-> h + i]
  <2>1. Len(e) = n /\ Len(s) = h /\ Len(t) = n - h
    <3>1. n - h \in Nat /\ h \in Nat
      OBVIOUS
    <3>2. Len(e) = n
      BY ArrLen
    <3>3. Len(s) = h
      BY <1>2, <3>1, ArrLen
    <3>4. Len(t) = n - h
      BY <1>3, <3>1, ArrLen
    <3> QED BY <3>2, <3>3, <3>4
  <2>2. A = B \union D /\ B \intersect D = {}
    BY <1>2
  <2>3. IsFiniteSet(B) /\ IsFiniteSet(D) /\ IsFiniteSet(E)
    <3>1. B \in SUBSET (1..h) /\ D \in SUBSET (h+1..n) /\ E \in SUBSET (1..n-h)
      OBVIOUS
    <3>2. IsFiniteSet(1..h) /\ IsFiniteSet(h+1..n) /\ IsFiniteSet(1..n-h)
      BY FS_Interval
    <3> HIDE DEF B, D, E
    <3> QED BY <3>1, <3>2, FS_Subset
  <2>4. Cardinality(D) = Cardinality(E)
    <3>1. f \in [E -> D]
      BY <1>3
    <3>2. \A i, j \in E : f[i] = f[j] => i = j
      OBVIOUS
    <3>3. ASSUME NEW m \in D PROVE \E i \in E : f[i] = m
      <4>1. m - h \in E /\ f[m - h] = m
        BY <1>3
      <4> QED BY <4>1
    <3> HIDE DEF D, E, f
    <3> QED BY <2>3, <3>1, <3>2, <3>3, SameSize
  <2>5. Count(e, v) = Cardinality(A) /\ Count(s, v) = Cardinality(B) /\ Count(t, v) = Cardinality(E)
    BY <2>1 DEF Count
  <2>6. Cardinality(A) = Cardinality(B) + Cardinality(D) - Cardinality({})
    <3> HIDE DEF A, B, D
    <3> QED BY <2>2, <2>3, FS_Union
  <2>7. Cardinality({}) = 0 /\ Cardinality(B) \in Nat /\ Cardinality(D) \in Nat
    <3> HIDE DEF B, D
    <3> QED BY <2>3, FS_EmptySet, FS_CardinalityType
  <2> HIDE DEF A, B, D, E
  <2> QED BY <2>4, <2>5, <2>6, <2>7
<1> QED BY <1>2, <1>3, <1>4 DEF s, t

(* There is one way to put the same numbers in order.                      *)
LEMMA SortedUnique ==
  ASSUME NEW n \in Nat, NEW d \in Arr(n), NEW e \in Arr(n),
         Descending(d), Descending(e), SameAs(d, e)
  PROVE  d = e
<1>1. Len(d) = n /\ \A i \in 1..n : d[i] \in Nat
  BY ArrLen
<1>2. Len(e) = n /\ \A i \in 1..n : e[i] \in Nat
  BY ArrLen
(* The one that is greater where they differ first has that number more    *)
(* often than the other.                                                   *)
<1>3. ASSUME NEW x \in Arr(n), NEW y \in Arr(n), Len(x) = n, Len(y) = n,
             \A i \in 1..n : x[i] \in Nat /\ y[i] \in Nat,
             Descending(y), NEW m \in 1..n, \A i \in 1..m-1 : x[i] = y[i], x[m] > y[m]
      PROVE  Count(y, x[m]) # Count(x, x[m])
  <2> DEFINE v == x[m]
             X == { i \in 1..n : x[i] = v }
             Y == { i \in 1..n : y[i] = v }
  <2>1. ASSUME NEW i \in Y PROVE i \in X /\ i # m
    <3>1. ~(i >= m)
      <4>1. CASE i = m
        BY <1>3, <4>1
      <4>2. CASE i > m
        <5>1. y[m] >= y[i]
          BY <1>3, <4>2 DEF Descending
        <5>2. y[m] \in Nat /\ y[i] \in Nat /\ x[m] \in Nat /\ y[i] = x[m]
          BY <1>3
        <5> QED BY <1>3, <5>1, <5>2
      <4> QED BY <4>1, <4>2
    <3>2. i \in 1..m-1
      BY <3>1
    <3> QED BY <1>3, <3>2
  <2>2. m \in X /\ m \notin Y /\ Y \in SUBSET X
    BY <2>1
  <2>3. IsFiniteSet(X)
    <3>1. X \in SUBSET (1..n) /\ IsFiniteSet(1..n)
      BY FS_Interval
    <3> HIDE DEF X
    <3> QED BY <3>1, FS_Subset
  <2>4. Cardinality(Y) # Cardinality(X)
    <3> HIDE DEF X, Y
    <3> QED BY <2>2, <2>3, FS_Subset
  <2> QED BY <1>3, <2>4 DEF Count
<1> SUFFICES ASSUME d # e PROVE FALSE
  OBVIOUS
<1> DEFINE T == { i \in 1..n : d[i] # e[i] }
<1>4. T # {}
  BY DEF Arr
<1>5. PICK m \in T : \A k \in T : ~(k < m)
  <2>1. T \subseteq Nat
    OBVIOUS
  <2> HIDE DEF T
  <2> QED BY <1>4, <2>1, LeastNat
<1>6. \A i \in 1..m-1 : d[i] = e[i]
  BY <1>5
<1>7. d[m] \in Number /\ e[m] \in Number
  BY DEF Arr
<1>8. d[m] > e[m] \/ e[m] > d[m]
  BY <1>1, <1>2
<1>9. CASE d[m] > e[m]
  <2>1. Count(e, d[m]) # Count(d, d[m])
    BY <1>1, <1>2, <1>3, <1>6, <1>9
  <2> QED BY <1>7, <2>1 DEF SameAs
<1>10. CASE e[m] > d[m]
  <2>1. Count(d, e[m]) # Count(e, e[m])
    BY <1>1, <1>2, <1>3, <1>6, <1>10
  <2> QED BY <1>7, <2>1 DEF SameAs
<1> QED BY <1>8, <1>9, <1>10

(***************************************************************************)
(* mergeSort                                                               *)
(***************************************************************************)

LEMMA Halves ==
  ASSUME NEW k \in Nat, k >= 2
  PROVE  k \div 2 \in 1..k-1 /\ k - (k \div 2) \in 1..k-1 /\ k \div 2 \in 0..k
OBVIOUS

LEMMA MergeSortCalls ==
  ASSUME NEW n \in Nat \ {0}, NEW d \in Arr(n)
  PROVE  \E sort :
           /\ mergeSort(d) = sort[n][d]
           /\ \A e \in Arr(1) : sort[1][e] = e
           /\ \A k \in 2..n : \A e \in Arr(k) :
                sort[k][e] = Merged(sort[k \div 2][SubSeq(e, 1, k \div 2)],
                                    sort[k - (k \div 2)][SubSeq(e, (k \div 2) + 1, k)])
<1> DEFINE Call(g, k) == [e \in [1..k -> Number] |->
              IF k = 1 THEN e
              ELSE LET half == k \div 2
                   IN Merged(g[half][SubSeq(e, 1, half)], g[k - half][SubSeq(e, half + 1, k)])]
           Body(g, m) == [k \in 1..m |-> Call(g, k)]
           T == { m \in 0..n : \E g : g = Body(g, m) }
<1>1. ASSUME NEW f, NEW g, NEW m \in Nat, NEW k \in 1..m+1,
             \A i \in 1..m : f[i] = g[i]
      PROVE  Call(f, k) = Call(g, k)
  <2>1. CASE k = 1
    BY <2>1
  <2>2. CASE k # 1
    <3>1. k \div 2 \in 1..m /\ k - (k \div 2) \in 1..m
      <4>1. k \in Nat /\ k >= 2 /\ k - 1 <= m
        BY <2>2
      <4> QED BY <4>1, Halves
    <3>2. f[k \div 2] = g[k \div 2] /\ f[k - (k \div 2)] = g[k - (k \div 2)]
      BY <1>1, <3>1
    <3> QED BY <3>2
  <2> QED BY <2>1, <2>2
<1>2. 0 \in T
  <2>1. [k \in 1..0 |-> 0] = Body([k \in 1..0 |-> 0], 0)
    OBVIOUS
  <2> HIDE DEF Body
  <2> QED BY <2>1
<1>3. ASSUME NEW m \in 0+1..n, m - 1 \in T PROVE m \in T
  <2>1. PICK g : g = Body(g, m - 1)
    BY <1>3
  <2> DEFINE f == [k \in 1..m |-> Call(g, k)]
  <2>2. ASSUME NEW i \in 1..m-1 PROVE f[i] = g[i]
    <3> HIDE DEF Call
    <3> QED BY <2>1
  <2>3. ASSUME NEW k \in 1..m PROVE Call(f, k) = Call(g, k)
    <3>1. m - 1 \in Nat /\ k \in 1..(m-1)+1
      OBVIOUS
    <3> HIDE DEF Call, f
    <3> QED BY <1>1, <2>2, <3>1
  <2>4. f = Body(f, m)
    <3> DEFINE cg == [k \in 1..m |-> Call(g, k)]
    <3>1. \A x : (\A k \in 1..m : Call(x, k) = Call(g, k)) => [k \in 1..m |-> Call(x, k)] = cg
      <4> HIDE DEF Call
      <4> QED OBVIOUS
    <3> HIDE DEF Call
    <3> QED BY <2>3, <3>1
  <2> HIDE DEF f, Body
  <2> QED BY <2>4
<1>4. PICK h : h = Body(h, n)
  <2> HIDE DEF T
  <2>1. 0 \in Int /\ n \in Int /\ 0 <= n
    OBVIOUS
  <2>2. \A m \in 0..n : m \in T
    BY <1>2, <1>3, <2>1, Upwards
  <2>3. n \in T
    BY <2>2
  <2> HIDE DEF Body
  <2> QED BY <2>3 DEF T
<1>5. mergeSort(d) = (CHOOSE g : g = Body(g, n))[n][d]
  <2>1. Len(d) = n
    BY ArrLen
  <2> QED BY <2>1 DEF mergeSort
<1> HIDE DEF Body
<1>6. PICK g : g = Body(g, n) /\ mergeSort(d) = g[n][d]
  BY <1>4, <1>5
<1>7. ASSUME NEW k \in 1..n PROVE g[k] = Call(g, k)
  <2> HIDE DEF Call
  <2> QED BY <1>6 DEF Body
<1>8. \A e \in Arr(1) : g[1][e] = e
  <2>1. g[1] = Call(g, 1)
    <3> HIDE DEF Call
    <3> QED BY <1>7
  <2> QED BY <2>1 DEF Arr
<1>9. ASSUME NEW k \in 2..n, NEW e \in Arr(k)
      PROVE  g[k][e] = Merged(g[k \div 2][SubSeq(e, 1, k \div 2)],
                              g[k - (k \div 2)][SubSeq(e, (k \div 2) + 1, k)])
  <2>1. g[k] = Call(g, k) /\ k # 1
    <3> HIDE DEF Call
    <3> QED BY <1>7
  <2> QED BY <2>1 DEF Arr
<1> QED BY <1>6, <1>8, <1>9

(* mergeSort sorts.                                                        *)
LEMMA MergeSortSorts ==
  ASSUME NEW n \in Nat \ {0}, NEW d \in Arr(n)
  PROVE  /\ mergeSort(d) \in Arr(n)
         /\ Descending(mergeSort(d))
         /\ SameAs(d, mergeSort(d))
<1>1. PICK sort :
        /\ mergeSort(d) = sort[n][d]
        /\ \A e \in Arr(1) : sort[1][e] = e
        /\ \A k \in 2..n : \A e \in Arr(k) :
             sort[k][e] = Merged(sort[k \div 2][SubSeq(e, 1, k \div 2)],
                                 sort[k - (k \div 2)][SubSeq(e, (k \div 2) + 1, k)])
  BY MergeSortCalls
<1> DEFINE Good(x, k, e) == x \in Arr(k) /\ Descending(x) /\ SameAs(e, x)
           T == { m \in 0..n : \A k \in 1..m : \A e \in Arr(k) : Good(sort[k][e], k, e) }
<1>2. 0 \in T
  OBVIOUS
<1>3. ASSUME NEW m \in 0+1..n, m - 1 \in T PROVE m \in T
  <2> SUFFICES ASSUME NEW e \in Arr(m) PROVE Good(sort[m][e], m, e)
    <3>1. ASSUME NEW k \in 1..m, NEW x \in Arr(k) PROVE Good(sort[k][x], k, x)
      <4>1. CASE k = m
        BY <4>1
      <4>2. CASE k # m
        <5>1. k \in 1..m-1
          BY <4>2
        <5> HIDE DEF Good
        <5> QED BY <1>3, <5>1
      <4> QED BY <4>1, <4>2
    <3> HIDE DEF Good
    <3> QED BY <3>1
  <2>1. CASE m = 1
    <3>1. sort[m][e] = e /\ e \in Arr(1)
      BY <1>1, <2>1
    <3>2. Len(e) = 1
      BY <3>1, ArrLen
    <3> QED BY <2>1, <3>1, <3>2 DEF Descending, SameAs
  <2>2. CASE m # 1
    <3> DEFINE h == m \div 2
               s == SubSeq(e, 1, h)
               t == SubSeq(e, h + 1, m)
               a == sort[h][s]
               b == sort[m - h][t]
    <3>1. m \in 2..n /\ h \in 1..m-1 /\ m - h \in 1..m-1 /\ h \in 0..m /\ m \in Nat
      <4>1. m \in Nat /\ m >= 2 /\ m \in 2..n
        BY <2>2
      <4> QED BY <4>1, Halves
    <3>2. sort[m][e] = Merged(a, b)
      BY <1>1, <3>1
    <3> HIDE DEF h
    <3>3. s \in Arr(h) /\ t \in Arr(m - h) /\ \A v : Count(e, v) = Count(s, v) + Count(t, v)
      BY <3>1, Parts
    <3> HIDE DEF s, t
    <3>4. Good(a, h, s) /\ Good(b, m - h, t)
      <4> HIDE DEF Good
      <4> QED BY <1>3, <3>1, <3>3
    <3> HIDE DEF a, b
    <3>5. h \in Nat /\ m - h \in Nat /\ m = h + (m - h)
      BY <3>1
    <3>6. Merged(a, b) \in Arr(m)
      BY <3>1, <3>4, <3>5, MergedLeft
    <3>7. Descending(Merged(a, b))
      BY <3>1, <3>4, <3>5, MergedDescends
    <3>8. ASSUME NEW v \in Number PROVE Count(Merged(a, b), v) = Count(e, v)
      <4>1. Count(Merged(a, b), v) = Count(a, v) + Count(b, v)
        BY <3>4, <3>5, MergedCount
      <4>2. Count(a, v) = Count(s, v) /\ Count(b, v) = Count(t, v)
        BY <3>4 DEF SameAs
      <4> QED BY <3>3, <4>1, <4>2
    <3> QED BY <3>2, <3>6, <3>7, <3>8 DEF SameAs
  <2> QED BY <2>1, <2>2
<1> HIDE DEF T
<1>4. n \in T
  <2>1. 0 \in Int /\ n \in Int /\ 0 <= n
    OBVIOUS
  <2>2. \A m \in 0..n : m \in T
    BY <1>2, <1>3, <2>1, Upwards
  <2> QED BY <2>2
<1>5. Good(sort[n][d], n, d)
  <2>1. n \in 1..n
    OBVIOUS
  <2> HIDE DEF Good
  <2> QED BY <1>4, <2>1 DEF T
<1> QED BY <1>1, <1>5

(***************************************************************************)
(* The programs                                                            *)
(***************************************************************************)

LEMMA SortsInput == data \in Seq(Number) => Sorts
<1> SUFFICES ASSUME data \in Seq(Number) PROVE Sorts
  OBVIOUS
<1> DEFINE n == Len(data)
           up == selectionSortAscending(data)
           down == insertionSortDescending(up)
<1>1. n \in Nat /\ data \in Arr(n)
  BY LenProperties DEF Arr
<1>2. up \in Arr(n) /\ Ascending(up) /\ SameAs(data, up)
  <2> HIDE DEF n
  <2> QED BY <1>1, SelectionSorts
<1>3. down \in Arr(n) /\ Descending(down) /\ SameAs(up, down)
  <2> HIDE DEF n, up
  <2> QED BY <1>1, <1>2, InsertionSorts
<1>4. SameAs(data, down)
  <2> HIDE DEF up, down
  <2> QED BY <1>2, <1>3, SameTrans
<1>5. ASSUME data # <<>> PROVE mergeSort(data) = down
  <2>1. n \in Nat \ {0}
    BY <1>1, <1>5, EmptySeq
  <2>2. /\ mergeSort(data) \in Arr(n) /\ Descending(mergeSort(data))
        /\ SameAs(data, mergeSort(data))
    <3> HIDE DEF n
    <3> QED BY <1>1, <2>1, MergeSortSorts
  <2>3. SameAs(mergeSort(data), down)
    <3> HIDE DEF down
    <3> QED BY <1>4, <2>2 DEF SameAs
  <2> HIDE DEF n, down
  <2> QED BY <1>1, <1>3, <2>2, <2>3, SortedUnique
<1>6. Len(up) = n /\ Len(down) = n
  <2>1. Len(up) = n
    <3> HIDE DEF n, up
    <3> QED BY <1>1, <1>2, ArrLen
  <2>2. Len(down) = n
    <3> HIDE DEF n, down
    <3> QED BY <1>1, <1>3, ArrLen
  <2> QED BY <2>1, <2>2
<1>7. \A i, j \in 1..n : i < j => up[i] <= up[j] /\ down[i] >= down[j]
  <2> HIDE DEF up, down, n
  <2> QED BY <1>2, <1>3, <1>6 DEF Ascending, Descending
<1>8. SameNumbers(up, data) /\ SameNumbers(down, data)
  <2> HIDE DEF up, down
  <2> QED BY <1>2, <1>4 DEF SameAs, SameNumbers
<1> HIDE DEF n, up, down
<1> QED BY <1>5, <1>6, <1>7, <1>8 DEF Sorts, n, up, down

(* The three sorts put any input of any length in order and keep what it   *)
(* has, and the merge and the insertion agree.                             *)
THEOREM SortingSorts == SortSpec => []Sorts
<1> DEFINE Input == data \in Seq(Number)
<1>1. DataInit => Input
  BY DEF DataInit
<1>2. Input /\ [\E v \in Number : ReadLine(v)]_data => Input'
  BY DEF ReadLine
<1>3. Input => Sorts
  BY SortsInput
<1> HIDE DEF Input
<1> QED BY <1>1, <1>2, <1>3, PTL DEF SortSpec

(***************************************************************************)
(* The search tree: places.                                                *)
(***************************************************************************)
LEMMA PlaceFacts ==
  ASSUME NEW x \in Place
  PROVE  Len(x) \in Nat /\ \A i \in 1..Len(x) : x[i] \in Side
BY LenProperties, ElementOfSeq DEF Place

(* The first k pointers of a place. *)
LEMMA Prefix ==
  ASSUME NEW x \in Place, NEW k \in 0..Len(x)
  PROVE  /\ SubSeq(x, 1, k) \in Place
         /\ Len(SubSeq(x, 1, k)) = k
         /\ \A i \in 1..k : SubSeq(x, 1, k)[i] = x[i]
<1>1. Len(x) \in Nat /\ \A i \in 1..Len(x) : x[i] \in Side
  BY PlaceFacts
<1>2. \A i \in 1..k : x[i] \in Side
  BY <1>1
<1>3. /\ SubSeq(x, 1, k) \in Seq(Side)
      /\ Len(SubSeq(x, 1, k)) = IF 1 <= k THEN k - 1 + 1 ELSE 0
      /\ \A i \in 1 .. k-1+1 : SubSeq(x, 1, k)[i] = x[1+i-1]
  <2>1. k \in Int BY <1>1
  <2> QED BY <1>2, <2>1, SubSeqProperties
<1>4. k \in Nat
  BY <1>1
<1> QED BY <1>3, <1>4 DEF Place

(* Two places are the same, one is below the other, or they are on the two *)
(* sides of a third one.                                                   *)
LEMMA Apart ==
  ASSUME NEW x \in Place, NEW y \in Place
  PROVE  \/ x = y
         \/ \E s \in Side : On(s, x, y) \/ On(s, y, x)
         \/ \E c \in Place : \/ On("l", c, x) /\ On("r", c, y)
                             \/ On("r", c, x) /\ On("l", c, y)
<1>1. /\ Len(x) \in Nat /\ \A i \in 1..Len(x) : x[i] \in Side
      /\ Len(y) \in Nat /\ \A i \in 1..Len(y) : y[i] \in Side
  BY PlaceFacts
<1> DEFINE D == { i \in Nat : i \in 1..Len(x) /\ i \in 1..Len(y) /\ x[i] # y[i] }
<1>2. CASE D = {}
  <2>1. \A i \in Nat : i \in 1..Len(x) /\ i \in 1..Len(y) => x[i] = y[i]
    BY <1>2
  <2>2. CASE Len(x) = Len(y)
    <3>1. \A i \in 1..Len(x) : x[i] = y[i]
      BY <1>1, <2>1, <2>2
    <3> QED BY <2>2, <3>1, SeqEqual DEF Place
  <2>3. CASE Len(x) < Len(y)
    <3>1. \A i \in 1..Len(x) : y[i] = x[i]
      BY <1>1, <2>1, <2>3
    <3>2. y[Len(x) + 1] \in Side
      BY <1>1, <2>3
    <3> QED BY <1>1, <2>3, <3>1, <3>2 DEF On, Under
  <2>4. CASE Len(y) < Len(x)
    <3>1. \A i \in 1..Len(y) : x[i] = y[i]
      BY <1>1, <2>1, <2>4
    <3>2. x[Len(y) + 1] \in Side
      BY <1>1, <2>4
    <3> QED BY <1>1, <2>4, <3>1, <3>2 DEF On, Under
  <2> QED BY <1>1, <2>2, <2>3, <2>4
<1>3. CASE D # {}
  <2>1. PICK j \in D : \A k \in D : ~(k < j)
    <3> HIDE DEF D
    <3>1. D \subseteq Nat BY DEF D
    <3> QED BY <1>3, <3>1, LeastNat
  <2>2. j \in Nat /\ j \in 1..Len(x) /\ j \in 1..Len(y) /\ x[j] # y[j]
    BY <2>1
  <2>3. ASSUME NEW i \in 1..j-1 PROVE x[i] = y[i]
    BY <1>1, <2>1, <2>2
  <2> DEFINE c == SubSeq(x, 1, j - 1)
  <2>4. /\ c \in Place /\ Len(c) = j - 1
        /\ \A i \in 1..j-1 : c[i] = x[i]
    <3>1. j - 1 \in 0..Len(x) BY <1>1, <2>2
    <3> QED BY <3>1, Prefix
  <2> HIDE DEF c, D
  <2>5. /\ Len(c) < Len(x) /\ Len(c) < Len(y)
        /\ Len(c) <= Len(x) /\ Len(c) <= Len(y)
        /\ Len(c) + 1 = j
    BY <1>1, <2>2, <2>4
  <2>6. Under(c, x) /\ Under(c, y)
    BY <2>3, <2>4, <2>5 DEF Under
  <2>7. x[j] \in Side /\ y[j] \in Side
    BY <1>1, <2>2
  <2>8. CASE x[j] = "l" /\ y[j] = "r"
    BY <2>4, <2>5, <2>6, <2>8 DEF On
  <2>9. CASE x[j] = "r" /\ y[j] = "l"
    BY <2>4, <2>5, <2>6, <2>9 DEF On
  <2> QED BY <2>2, <2>7, <2>8, <2>9 DEF Side
<1> QED BY <1>2, <1>3

LEMMA UnderItself == ASSUME NEW p \in Place PROVE Under(p, p)
BY PlaceFacts DEF Under

LEMMA UnderUnder ==
  ASSUME NEW p \in Place, NEW x \in Place, NEW y \in Place, Under(p, x), Under(x, y)
  PROVE  Under(p, y)
BY PlaceFacts DEF Under

(* What is above the same place is above or below. *)
LEMMA UnderBoth ==
  ASSUME NEW p \in Place, NEW q \in Place, NEW x \in Place, Under(p, x), Under(q, x),
         Len(p) <= Len(q)
  PROVE  Under(p, q)
BY PlaceFacts DEF Under

LEMMA UnderSame ==
  ASSUME NEW p \in Place, NEW x \in Place, Under(p, x), Len(p) = Len(x)
  PROVE  p = x
BY PlaceFacts, SeqEqual DEF Under, Place

LEMMA UnderOn ==
  ASSUME NEW p \in Place, NEW x \in Place, Under(p, x), p # x
  PROVE  \E s \in Side : On(s, p, x)
<1>1. Len(p) # Len(x)
  BY UnderSame
<1>2. Len(p) < Len(x)
  BY <1>1, PlaceFacts DEF Under
<1>3. x[Len(p) + 1] \in Side
  BY <1>2, PlaceFacts
<1> QED BY <1>2, <1>3 DEF On

(* On a side of p, and so is what is below. *)
LEMMA OnUnder ==
  ASSUME NEW s \in Side, NEW p \in Place, NEW x \in Place, NEW y \in Place,
         On(s, p, x), Under(x, y)
  PROVE  On(s, p, y)
<1>1. Under(p, y)
  BY UnderUnder DEF On
<1>2. Len(p) \in Nat /\ Len(x) \in Nat /\ Len(y) \in Nat
  BY PlaceFacts
<1>3. Len(p) + 1 \in 1..Len(x) /\ Len(p) < Len(y)
  BY <1>2 DEF On, Under
<1>4. y[Len(p) + 1] = x[Len(p) + 1]
  BY <1>3 DEF Under
<1> QED BY <1>1, <1>3, <1>4 DEF On

LEMMA OnApart ==
  ASSUME NEW s \in Side, NEW p \in Place, NEW x \in Place, On(s, p, x)
  PROVE  Under(p, x) /\ ~Under(x, p) /\ p # x
BY PlaceFacts DEF On, Under

LEMMA ChildFacts ==
  ASSUME NEW p \in Place, NEW s \in Side
  PROVE  /\ Child(p, s) \in Place /\ Len(Child(p, s)) = Len(p) + 1
         /\ \A i \in 1..Len(p) : Child(p, s)[i] = p[i]
         /\ Child(p, s)[Len(p) + 1] = s
         /\ On(s, p, Child(p, s))
         /\ \A x \in Place : On(s, p, x) => Under(Child(p, s), x)
<1>1. Len(p) \in Nat
  BY PlaceFacts
<1>2. /\ Child(p, s) \in Place /\ Len(Child(p, s)) = Len(p) + 1
      /\ \A i \in 1..Len(p) : Child(p, s)[i] = p[i]
      /\ Child(p, s)[Len(p) + 1] = s
  BY <1>1 DEF Child, Place
<1>3. On(s, p, Child(p, s))
  BY <1>1, <1>2 DEF On, Under
<1>4. ASSUME NEW x \in Place, On(s, p, x)
      PROVE  Under(Child(p, s), x)
  <2>1. Len(x) \in Nat /\ Len(p) < Len(x) /\ x[Len(p) + 1] = s /\ \A i \in 1..Len(p) : x[i] = p[i]
    BY <1>4, PlaceFacts DEF On, Under
  <2> QED BY <1>1, <1>2, <2>1 DEF Under
<1> QED BY <1>2, <1>3, <1>4

(***************************************************************************)
(* The search tree is in order.                                            *)
(***************************************************************************)

(* Every node can be reached. *)
Reached(t) == \A p \in DOMAIN t : \A x \in Place : Under(x, p) => x \in DOMAIN t

Compared(t, p, x) == (On("l", p, x) => t[x] < t[p]) /\ (On("r", p, x) => t[x] > t[p])

SearchTreeOf(t) ==
  /\ t \in [DOMAIN t -> Word]
  /\ DOMAIN t \subseteq Place
  /\ Reached(t)
  /\ \A p, x \in DOMAIN t : Compared(t, p, x)

LEMMA WordFacts ==
  ASSUME NEW t, SearchTreeOf(t)
  PROVE  \A x \in DOMAIN t : t[x] \in Word /\ t[x] \in Nat
BY WordAssumption DEF SearchTreeOf

(* What is below a node is on one of its sides. *)
LEMMA ComparedOn ==
  ASSUME NEW t, SearchTreeOf(t), NEW p \in DOMAIN t, NEW x \in DOMAIN t
  PROVE  /\ On("l", p, x) => t[x] < t[p]
         /\ On("r", p, x) => t[p] < t[x]
BY WordFacts DEF SearchTreeOf, Compared

(* A word is there once. *)
LEMMA Once ==
  ASSUME NEW t, SearchTreeOf(t), NEW x \in DOMAIN t, NEW y \in DOMAIN t, t[x] = t[y]
  PROVE  x = y
<1>1. x \in Place /\ y \in Place
  BY DEF SearchTreeOf
<1>2. ASSUME NEW p \in DOMAIN t, NEW z \in DOMAIN t, NEW s \in Side, On(s, p, z)
      PROVE  t[p] # t[z]
  BY <1>2, ComparedOn, WordFacts DEF Side
<1>3. ASSUME NEW c \in Place, NEW p \in DOMAIN t, NEW z \in DOMAIN t, On("l", c, p), On("r", c, z)
      PROVE  t[p] # t[z]
  <2>1. c \in DOMAIN t
    BY <1>3 DEF SearchTreeOf, Reached, On
  <2> QED BY <1>3, <2>1, ComparedOn, WordFacts
<1> QED BY <1>1, <1>2, <1>3, Apart

LEMMA OrderedOf == ASSUME SearchTreeOf(root) PROVE Ordered
<1>1. ASSUME NEW p \in DOMAIN root, NEW k \in 0..Len(p)
      PROVE  SubSeq(p, 1, k) \in DOMAIN root
  <2>1. p \in Place /\ Len(p) \in Nat
    BY PlaceFacts DEF SearchTreeOf
  <2>2. /\ SubSeq(p, 1, k) \in Place
        /\ Len(SubSeq(p, 1, k)) = k
        /\ \A i \in 1..k : SubSeq(p, 1, k)[i] = p[i]
    BY <2>1, Prefix
  <2>3. Under(SubSeq(p, 1, k), p)
    BY <2>1, <2>2 DEF Under
  <2> QED BY <2>2, <2>3 DEF SearchTreeOf, Reached
<1>2. ASSUME NEW p \in DOMAIN root, NEW x \in DOMAIN root PROVE Compared(root, p, x)
  BY DEF SearchTreeOf
<1> QED BY <1>1, <1>2 DEF Ordered, Compared

LEMMA OrderedAtFirst == TreeInit => SearchTreeOf(root)
BY DEF TreeInit, Null, SearchTreeOf, Reached

LEMMA InsertKeepsOrder ==
  ASSUME SearchTreeOf(root), NEW q \in Word, InsertLine(q)
  PROVE  SearchTreeOf(root') /\ Words(root) \subseteq Words(root')
<1>1. PICK p \in Pointers(root) :
        /\ Leads(root, q, p)
        /\ root' = [x \in DOMAIN root \union {p} |-> IF x = p THEN q ELSE root[x]]
  BY DEF InsertLine
<1>2. /\ root \in [DOMAIN root -> Word]
      /\ DOMAIN root \subseteq Place
      /\ Reached(root)
      /\ \A a, x \in DOMAIN root : Compared(root, a, x)
  BY DEF SearchTreeOf
<1>3. p \in Place
  <2>1. <<>> \in Place
    BY EmptySeq DEF Place
  <2> QED BY <1>2, <2>1, ChildFacts DEF Pointers
<1>4. /\ root' \in [DOMAIN root' -> Word]
      /\ DOMAIN root' = DOMAIN root \union {p}
      /\ DOMAIN root' \subseteq Place
      /\ root'[p] = q
      /\ \A x \in DOMAIN root : root'[x] = root[x]
  <2>1. p \in DOMAIN root => root[p] = q
    BY <1>1 DEF Leads
  <2> QED BY <1>1, <1>2, <1>3, <2>1
<1>5. ASSUME NEW x \in Place, Under(x, p), x # p
      PROVE  x \in DOMAIN root
  <2>1. CASE p = <<>>
    BY <1>5, <2>1, EmptySeq, UnderSame, PlaceFacts DEF Under
  <2>2. ASSUME NEW a \in DOMAIN root, NEW s \in Side, p = Child(a, s)
        PROVE  x \in DOMAIN root
    <3>1. a \in Place
      BY <1>2
    <3>2. Len(x) <= Len(a)
      <4>1. Len(x) # Len(p)
        BY <1>3, <1>5, UnderSame
      <4> QED BY <1>3, <1>5, <2>2, <3>1, <4>1, ChildFacts, PlaceFacts DEF Under
    <3>3. Under(x, a)
      <4>1. Len(x) \in Nat /\ Len(a) \in Nat /\ \A i \in 1..Len(a) : p[i] = a[i]
        <5>1. \A i \in 1..Len(a) : Child(a, s)[i] = a[i]
          BY <3>1, ChildFacts
        <5> QED BY <2>2, <3>1, <5>1, PlaceFacts
      <4>2. \A i \in 1..Len(x) : p[i] = x[i] /\ i \in 1..Len(a)
        BY <1>5, <3>2, <4>1 DEF Under
      <4> QED BY <3>2, <4>1, <4>2 DEF Under
    <3> QED BY <1>2, <3>3 DEF Reached
  <2> QED BY <2>1, <2>2 DEF Pointers
<1>6. Reached(root')
  BY <1>2, <1>4, <1>5 DEF Reached
<1>7. ASSUME NEW a \in DOMAIN root', NEW x \in DOMAIN root'
      PROVE  Compared(root', a, x)
  <2>1. CASE a \in DOMAIN root /\ x \in DOMAIN root
    BY <1>2, <1>4, <2>1 DEF Compared
  <2>2. CASE a \in DOMAIN root /\ x = p
    BY <1>1, <1>4, <2>2 DEF Compared, Leads
  <2>3. CASE a = p /\ x \in DOMAIN root /\ p \notin DOMAIN root
    <3>1. ~Under(p, x)
      BY <1>2, <1>3, <2>3 DEF Reached
    <3> QED BY <2>3, <3>1 DEF Compared, On
  <2>4. CASE a = p /\ x = p
    BY <1>3, <2>4, OnApart DEF Compared, Side
  <2> QED BY <1>4, <2>1, <2>2, <2>3, <2>4
<1>8. Words(root) \subseteq Words(root')
  BY <1>4 DEF Words
<1> QED BY <1>4, <1>6, <1>7, <1>8 DEF SearchTreeOf

(* The places below m, the leftmost node on the right of p, come before    *)
(* those that are on the right of p and not below m.                       *)
LEMMA LeftmostFirst ==
  ASSUME NEW t, SearchTreeOf(t), NEW p \in DOMAIN t, NEW m \in DOMAIN t, Leftmost(t, p, m),
         NEW w \in DOMAIN t, Under(m, w), NEW v \in DOMAIN t, On("r", p, v), ~Under(m, v)
  PROVE  t[w] < t[v]
<1>1. p \in Place /\ m \in Place /\ w \in Place /\ v \in Place
  BY DEF SearchTreeOf
<1>2. On("r", p, m) /\ On("r", p, w)
  BY <1>1, OnUnder DEF Leftmost, Side
<1>3. /\ Len(p) \in Nat /\ Len(m) \in Nat /\ Len(w) \in Nat /\ Len(v) \in Nat
      /\ Len(p) < Len(m) /\ Len(m) <= Len(w) /\ Len(p) < Len(v)
      /\ \A i \in 1..Len(m) : w[i] = m[i]
      /\ \A i \in 1..Len(p) : w[i] = p[i] /\ v[i] = p[i]
      /\ w[Len(p) + 1] = "r" /\ v[Len(p) + 1] = "r"
      /\ \A i \in Len(p)+2..Len(m) : m[i] = "l"
  BY <1>1, <1>2, PlaceFacts DEF On, Under, Leftmost
(* c is between p and m, strictly above m. *)
<1>4. ASSUME NEW c \in Place, NEW s \in Side, On(s, c, w), ~Under(m, c), Len(c) > Len(p)
      PROVE  s = "l"
  <2>1. Len(c) < Len(m)
    <3>1. Len(m) <= Len(c) => Under(m, c)
      BY <1>1, <1>4, UnderBoth DEF On
    <3> QED BY <1>1, <1>4, <3>1, PlaceFacts
  <2>2. Len(c) + 1 \in Len(p)+2..Len(m) /\ Len(c) + 1 \in 1..Len(m)
    BY <1>3, <1>4, <2>1, PlaceFacts
  <2>3. w[Len(c) + 1] = "l"
    BY <1>3, <2>2
  <2> QED BY <1>4, <2>3 DEF On
<1>5. v # w
  OBVIOUS
<1>6. ASSUME NEW s \in Side, On(s, w, v) PROVE FALSE
  BY <1>1, <1>6, UnderUnder DEF On
<1>7. ASSUME NEW s \in Side, On(s, v, w) PROVE t[w] < t[v]
  <2>1. s = "l"
    BY <1>1, <1>3, <1>4, <1>7
  <2> QED BY <1>7, <2>1, ComparedOn
<1>8. ASSUME NEW c \in Place, NEW s \in Side, NEW u \in Side, s # u, On(s, c, w), On(u, c, v)
      PROVE  t[w] < t[v]
  <2>1. ~Under(m, c)
    BY <1>1, <1>8, UnderUnder DEF On
  <2>2. c \in DOMAIN t
    BY <1>8 DEF SearchTreeOf, Reached, On
  <2>3. Len(c) > Len(p)
    <3>1. Len(c) \in Nat /\ w[Len(c) + 1] # v[Len(c) + 1]
      BY <1>8, PlaceFacts DEF On
    <3>2. Len(c) + 1 \notin 1..Len(p) /\ Len(c) # Len(p)
      BY <1>3, <3>1
    <3> QED BY <1>3, <3>1, <3>2
  <2>4. s = "l" /\ u = "r"
    BY <1>4, <1>8, <2>1, <2>3 DEF Side
  <2>5. t[w] < t[c] /\ t[c] < t[v]
    BY <1>8, <2>2, <2>4, ComparedOn
  <2> QED BY <2>2, <2>5, WordFacts
<1>9. \/ \E s \in Side : On(s, w, v) \/ On(s, v, w)
      \/ \E c \in Place : \/ On("l", c, w) /\ On("r", c, v)
                          \/ On("r", c, w) /\ On("l", c, v)
  BY <1>1, <1>5, Apart
<1>10. "l" \in Side /\ "r" \in Side /\ "l" # "r"
  BY DEF Side
<1> QED BY <1>6, <1>7, <1>8, <1>9, <1>10

LEMMA ReplacedKeepsOrder ==
  ASSUME NEW t, SearchTreeOf(t), NEW p \in DOMAIN t, NEW m \in DOMAIN t, Leftmost(t, p, m)
  PROVE  /\ SearchTreeOf(Replaced(t, p, m))
         /\ DOMAIN Replaced(t, p, m) = { y \in DOMAIN t : ~Under(m, y) }
         /\ p \in DOMAIN Replaced(t, p, m)
         /\ \A x \in DOMAIN Replaced(t, p, m) :
              Replaced(t, p, m)[x] = IF x = p THEN t[m] ELSE t[x]
<1> DEFINE u == Replaced(t, p, m)
<1>1. /\ t \in [DOMAIN t -> Word]
      /\ DOMAIN t \subseteq Place
      /\ Reached(t)
      /\ \A a, x \in DOMAIN t : Compared(t, a, x)
  BY DEF SearchTreeOf
<1>2. /\ DOMAIN u = { y \in DOMAIN t : ~Under(m, y) }
      /\ \A x \in DOMAIN u : u[x] = IF x = p THEN t[m] ELSE t[x]
      /\ u \in [DOMAIN u -> Word]
  BY <1>1 DEF Replaced
<1> HIDE DEF u
<1>3. p \in Place /\ m \in Place /\ On("r", p, m) /\ p # m /\ Under(m, m)
  BY <1>1, OnApart, UnderItself DEF Leftmost, Side
<1>4. p \in DOMAIN u
  BY <1>2, <1>3, OnApart DEF Side
<1>5. Reached(u)
  <2> SUFFICES ASSUME NEW a \in DOMAIN u, NEW x \in Place, Under(x, a) PROVE x \in DOMAIN u
    BY DEF Reached
  <2>1. x \in DOMAIN t
    BY <1>1, <1>2 DEF Reached
  <2>2. ~Under(m, x)
    BY <1>1, <1>2, <1>3, UnderUnder
  <2> QED BY <1>2, <2>1, <2>2
<1>6. ASSUME NEW a \in DOMAIN u, NEW x \in DOMAIN u PROVE Compared(u, a, x)
  <2>1. a \in DOMAIN t /\ x \in DOMAIN t /\ a \in Place /\ x \in Place /\ ~Under(m, x)
    BY <1>1, <1>2
  <2>2. CASE a # p /\ x # p
    BY <1>1, <1>2, <2>1, <2>2 DEF Compared
  <2>3. CASE x = p
    <3>1. ASSUME NEW s \in Side, On(s, a, p) PROVE On(s, a, m) /\ a # p
      BY <1>3, <2>1, <3>1, OnUnder, OnApart DEF On
    <3>2. /\ On("l", a, p) => t[m] < t[a] /\ u[a] = t[a]
          /\ On("r", a, p) => t[m] > t[a] /\ u[a] = t[a]
      BY <1>1, <1>2, <2>1, <3>1 DEF Compared, Side
    <3> QED BY <1>2, <2>3, <3>2 DEF Compared
  <2>4. CASE a = p /\ x # p
    <3>1. u[a] = t[m] /\ u[x] = t[x] /\ t[m] \in Nat /\ t[x] \in Nat /\ t[p] \in Nat
      BY <1>2, <2>1, <2>4, WordFacts
    <3>2. t[p] < t[m]
      BY <1>3, ComparedOn
    <3>3. On("l", p, x) => t[x] < t[p]
      BY <2>1, ComparedOn
    <3>4. On("r", p, x) => t[m] < t[x]
      BY <1>3, <2>1, LeftmostFirst
    <3> QED BY <2>4, <3>1, <3>2, <3>3, <3>4 DEF Compared
  <2> QED BY <2>2, <2>3, <2>4
<1>7. SearchTreeOf(u)
  BY <1>1, <1>2, <1>5, <1>6 DEF SearchTreeOf
<1> QED BY <1>2, <1>4, <1>7 DEF u

(***************************************************************************)
(* A subtree takes the place of the node above it.                         *)
(***************************************************************************)
LEMMA RaisedFacts ==
  ASSUME NEW p \in Place, NEW s \in Side, NEW x \in Place, On(s, p, x)
  PROVE  /\ Raised(p, x) \in Place /\ Len(Raised(p, x)) = Len(x) - 1
         /\ \A i \in 1..Len(x) - 1 : Raised(p, x)[i] = IF i <= Len(p) THEN x[i] ELSE x[i + 1]
         /\ Under(p, Raised(p, x))
<1>1. /\ Len(p) \in Nat /\ Len(x) \in Nat /\ Len(p) < Len(x)
      /\ \A i \in 1..Len(x) : x[i] \in Side
      /\ \A i \in 1..Len(p) : x[i] = p[i]
  BY PlaceFacts DEF On, Under
<1> DEFINE a == SubSeq(x, 1, Len(p))
           b == SubSeq(x, Len(p) + 2, Len(x))
<1>2. a \in Seq(Side) /\ Len(a) = Len(p) /\ \A i \in 1..Len(p) : a[i] = x[i]
  BY <1>1, Prefix DEF Place
<1>3. b \in Seq(Side) /\ Len(b) = Len(x) - Len(p) - 1
      /\ \A i \in 1..Len(x) - Len(p) - 1 : b[i] = x[Len(p) + 1 + i]
  <2>1. \A i \in Len(p)+2..Len(x) : x[i] \in Side
    BY <1>1
  <2>2. Len(p) + 2 \in Int /\ Len(x) \in Int
    BY <1>1
  <2>3. /\ b \in Seq(Side)
        /\ Len(b) = IF Len(p) + 2 <= Len(x) THEN Len(x) - (Len(p) + 2) + 1 ELSE 0
        /\ \A i \in 1..Len(x) - (Len(p) + 2) + 1 : b[i] = x[Len(p) + 2 + i - 1]
    BY <2>1, <2>2, SubSeqProperties
  <2> QED BY <1>1, <2>3
<1> HIDE DEF a, b
<1>4. /\ a \o b \in Seq(Side) /\ Len(a \o b) = Len(x) - 1
      /\ \A i \in 1..Len(x) - 1 : (a \o b)[i] = IF i <= Len(p) THEN x[i] ELSE x[i + 1]
  <2>1. /\ a \o b \in Seq(Side) /\ Len(a \o b) = Len(a) + Len(b)
        /\ \A i \in 1..Len(a) + Len(b) : (a \o b)[i] = IF i <= Len(a) THEN a[i] ELSE b[i - Len(a)]
    BY <1>2, <1>3, ConcatProperties
  <2>2. ASSUME NEW i \in 1..Len(x) - 1
        PROVE  (a \o b)[i] = IF i <= Len(p) THEN x[i] ELSE x[i + 1]
    <3>0. i <= Len(p) \/ i > Len(p)
      BY <1>1
    <3>1. CASE i <= Len(p)
      BY <1>1, <1>2, <1>3, <2>1, <3>1
    <3>2. CASE i > Len(p)
      <4>1. i - Len(p) \in 1..Len(x) - Len(p) - 1
        BY <1>1, <3>2
      <4>2. b[i - Len(p)] = x[Len(p) + 1 + (i - Len(p))]
        BY <1>3, <4>1
      <4>3. Len(p) + 1 + (i - Len(p)) = i + 1 /\ i \in 1..Len(a) + Len(b)
        BY <1>1, <1>2, <1>3
      <4>4. ~(i <= Len(p))
        BY <1>1, <3>2
      <4> QED BY <1>2, <2>1, <4>2, <4>3, <4>4
    <3> QED BY <3>0, <3>1, <3>2
  <2> QED BY <1>1, <1>2, <1>3, <2>1, <2>2
<1>5. Raised(p, x) = a \o b
  BY DEF Raised, a, b
<1>6. Under(p, a \o b)
  <2>1. Len(p) <= Len(a \o b) /\ \A i \in 1..Len(p) : i \in 1..Len(x) - 1 /\ i <= Len(p)
    BY <1>1, <1>4
  <2> QED BY <1>1, <1>4, <2>1 DEF Under
<1> QED BY <1>4, <1>5, <1>6 DEF Place

LEMMA LoweredFacts ==
  ASSUME NEW p \in Place, NEW s \in Side, NEW x \in Place, Under(p, x)
  PROVE  /\ Lowered(p, s, x) \in Place /\ Len(Lowered(p, s, x)) = Len(x) + 1
         /\ \A i \in 1..Len(x) + 1 :
              Lowered(p, s, x)[i] = IF i <= Len(p) THEN x[i]
                                    ELSE IF i = Len(p) + 1 THEN s ELSE x[i - 1]
         /\ On(s, p, Lowered(p, s, x))
<1>1. /\ Len(p) \in Nat /\ Len(x) \in Nat /\ Len(p) <= Len(x)
      /\ \A i \in 1..Len(x) : x[i] \in Side
      /\ \A i \in 1..Len(p) : x[i] = p[i]
  BY PlaceFacts DEF Under
<1> DEFINE a == SubSeq(x, 1, Len(p))
           c == <<s>>
           b == SubSeq(x, Len(p) + 1, Len(x))
           l == (a \o c) \o b
<1>2. a \in Seq(Side) /\ Len(a) = Len(p) /\ \A i \in 1..Len(p) : a[i] = x[i]
  BY <1>1, Prefix DEF Place
<1>3. b \in Seq(Side) /\ Len(b) = Len(x) - Len(p)
      /\ \A i \in 1..Len(x) - Len(p) : b[i] = x[Len(p) + i]
  <2>1. \A i \in Len(p)+1..Len(x) : x[i] \in Side
    BY <1>1
  <2>2. Len(p) + 1 \in Int /\ Len(x) \in Int
    BY <1>1
  <2>3. /\ b \in Seq(Side)
        /\ Len(b) = IF Len(p) + 1 <= Len(x) THEN Len(x) - (Len(p) + 1) + 1 ELSE 0
        /\ \A i \in 1..Len(x) - (Len(p) + 1) + 1 : b[i] = x[Len(p) + 1 + i - 1]
    BY <2>1, <2>2, SubSeqProperties
  <2> QED BY <1>1, <2>3
<1>4. c \in Seq(Side) /\ Len(c) = 1 /\ c[1] = s
  OBVIOUS
<1>5. Lowered(p, s, x) = l
  BY DEF Lowered
<1> HIDE DEF a, b, c
<1>6. /\ a \o c \in Seq(Side) /\ Len(a \o c) = Len(p) + 1
      /\ \A i \in 1..Len(p) + 1 : (a \o c)[i] = IF i <= Len(p) THEN x[i] ELSE s
  <2>1. /\ a \o c \in Seq(Side) /\ Len(a \o c) = Len(a) + Len(c)
        /\ \A i \in 1..Len(a) + Len(c) : (a \o c)[i] = IF i <= Len(a) THEN a[i] ELSE c[i - Len(a)]
    <3>1. a \in Seq(Side) /\ c \in Seq(Side)
      BY <1>2, <1>4
    <3> QED BY <3>1, ConcatProperties
  <2>2. ASSUME NEW i \in 1..Len(p) + 1
        PROVE  (a \o c)[i] = IF i <= Len(p) THEN x[i] ELSE s
    <3>0. i <= Len(p) \/ i > Len(p)
      BY <1>1
    <3>1. CASE i <= Len(p)
      BY <1>1, <1>2, <1>4, <2>1, <3>1
    <3>2. CASE i > Len(p)
      <4>1. i - Len(p) = 1
        BY <1>1, <3>2
      <4> QED BY <1>1, <1>2, <1>4, <2>1, <3>2, <4>1
    <3> QED BY <3>0, <3>1, <3>2
  <2> QED BY <1>1, <1>2, <1>4, <2>1, <2>2
<1>7. /\ l \in Seq(Side) /\ Len(l) = Len(x) + 1
      /\ \A i \in 1..Len(x) + 1 :
           l[i] = IF i <= Len(p) THEN x[i] ELSE IF i = Len(p) + 1 THEN s ELSE x[i - 1]
  <2>1. /\ l \in Seq(Side) /\ Len(l) = Len(a \o c) + Len(b)
        /\ \A i \in 1..Len(a \o c) + Len(b) :
             l[i] = IF i <= Len(a \o c) THEN (a \o c)[i] ELSE b[i - Len(a \o c)]
    <3> HIDE DEF l
    <3> QED BY <1>3, <1>6, ConcatProperties DEF l
  <2> HIDE DEF l
  <2>2. ASSUME NEW i \in 1..Len(x) + 1
        PROVE  l[i] = IF i <= Len(p) THEN x[i] ELSE IF i = Len(p) + 1 THEN s ELSE x[i - 1]
    <3>1. CASE i <= Len(p) + 1
      <4>1. i \in 1..Len(p) + 1 /\ i \in 1..Len(a \o c) + Len(b) /\ i <= Len(a \o c)
        BY <1>1, <1>3, <1>6, <3>1
      <4>2. l[i] = (a \o c)[i] /\ (a \o c)[i] = IF i <= Len(p) THEN x[i] ELSE s
        BY <1>6, <2>1, <4>1
      <4>3. i <= Len(p) \/ i = Len(p) + 1
        BY <1>1, <4>1
      <4> QED BY <4>2, <4>3
    <3>2. CASE i > Len(p) + 1
      <4>1. i - (Len(p) + 1) \in 1..Len(x) - Len(p)
        BY <1>1, <3>2
      <4>2. b[i - (Len(p) + 1)] = x[Len(p) + (i - (Len(p) + 1))]
        BY <1>3, <4>1
      <4>3. Len(p) + (i - (Len(p) + 1)) = i - 1 /\ i \in 1..Len(a \o c) + Len(b)
        BY <1>1, <1>3, <1>6
      <4> QED BY <1>1, <1>6, <2>1, <3>2, <4>2, <4>3
    <3> QED BY <1>1, <3>1, <3>2
  <2> QED BY <1>1, <1>3, <1>6, <2>1, <2>2
<1> HIDE DEF l
<1>8. On(s, p, l)
  BY <1>1, <1>7 DEF On, Under
<1> QED BY <1>5, <1>7, <1>8 DEF Place

LEMMA LoweredRaised ==
  ASSUME NEW p \in Place, NEW s \in Side, NEW x \in Place, On(s, p, x)
  PROVE  Lowered(p, s, Raised(p, x)) = x
<1> DEFINE y == Raised(p, x)
<1>1. /\ y \in Place /\ Len(y) = Len(x) - 1 /\ Under(p, y)
      /\ \A i \in 1..Len(x) - 1 : y[i] = IF i <= Len(p) THEN x[i] ELSE x[i + 1]
  BY RaisedFacts
<1> HIDE DEF y
<1>2. /\ Lowered(p, s, y) \in Place /\ Len(Lowered(p, s, y)) = Len(y) + 1
      /\ \A i \in 1..Len(y) + 1 :
           Lowered(p, s, y)[i] = IF i <= Len(p) THEN y[i]
                                 ELSE IF i = Len(p) + 1 THEN s ELSE y[i - 1]
  BY <1>1, LoweredFacts
<1>3. /\ Len(p) \in Nat /\ Len(x) \in Nat /\ Len(p) < Len(x) /\ x[Len(p) + 1] = s
  BY PlaceFacts DEF On
<1>4. ASSUME NEW i \in 1..Len(x) PROVE Lowered(p, s, y)[i] = x[i]
  <2>1. CASE i <= Len(p)
    BY <1>1, <1>2, <1>3, <2>1
  <2>2. CASE i = Len(p) + 1
    BY <1>1, <1>2, <1>3, <2>2
  <2>3. CASE i > Len(p) + 1
    <3>1. i - 1 \in 1..Len(x) - 1 /\ ~(i - 1 <= Len(p)) /\ (i - 1) + 1 = i
      BY <1>3, <2>3
    <3>2. y[i - 1] = x[i]
      BY <1>1, <3>1
    <3> QED BY <1>1, <1>2, <1>3, <2>3, <3>2
  <2> QED BY <1>3, <2>1, <2>2, <2>3
<1>5. Lowered(p, s, y) = x
  BY <1>1, <1>2, <1>3, <1>4, SeqEqual DEF Place
<1> QED BY <1>5 DEF y

LEMMA RaisedLowered ==
  ASSUME NEW p \in Place, NEW s \in Side, NEW x \in Place, Under(p, x)
  PROVE  Raised(p, Lowered(p, s, x)) = x
<1> DEFINE y == Lowered(p, s, x)
<1>1. /\ y \in Place /\ Len(y) = Len(x) + 1 /\ On(s, p, y)
      /\ \A i \in 1..Len(x) + 1 :
           y[i] = IF i <= Len(p) THEN x[i] ELSE IF i = Len(p) + 1 THEN s ELSE x[i - 1]
  BY LoweredFacts
<1> HIDE DEF y
<1>2. /\ Raised(p, y) \in Place /\ Len(Raised(p, y)) = Len(y) - 1
      /\ \A i \in 1..Len(y) - 1 : Raised(p, y)[i] = IF i <= Len(p) THEN y[i] ELSE y[i + 1]
  BY <1>1, RaisedFacts
<1>3. Len(p) \in Nat /\ Len(x) \in Nat /\ Len(p) <= Len(x)
  BY PlaceFacts DEF Under
<1>4. ASSUME NEW i \in 1..Len(x) PROVE Raised(p, y)[i] = x[i]
  <2>1. CASE i <= Len(p)
    BY <1>1, <1>2, <1>3, <2>1
  <2>2. CASE i > Len(p)
    <3>1. i + 1 \in 1..Len(x) + 1 /\ ~(i + 1 <= Len(p)) /\ i + 1 # Len(p) + 1 /\ (i + 1) - 1 = i
      BY <1>3, <2>2
    <3>2. y[i + 1] = x[i]
      BY <1>1, <3>1
    <3> QED BY <1>1, <1>2, <1>3, <2>2, <3>2
  <2> QED BY <1>3, <2>1, <2>2
<1>5. Raised(p, y) = x
  BY <1>1, <1>2, <1>3, <1>4, SeqEqual DEF Place
<1> QED BY <1>5 DEF y

LEMMA LoweredUnder ==
  ASSUME NEW p \in Place, NEW s \in Side, NEW a \in Place, NEW x \in Place,
         Under(p, a), Under(a, x)
  PROVE  /\ Under(Lowered(p, s, a), Lowered(p, s, x))
         /\ \A d \in Side : On(d, a, x) => On(d, Lowered(p, s, a), Lowered(p, s, x))
<1> DEFINE b == Lowered(p, s, a)
           y == Lowered(p, s, x)
<1>1. /\ Len(p) \in Nat /\ Len(x) \in Nat /\ Len(a) \in Nat
      /\ Len(p) <= Len(a) /\ Len(a) <= Len(x) /\ Under(p, x)
      /\ \A i \in 1..Len(a) : x[i] = a[i]
  BY UnderUnder, PlaceFacts DEF Under
<1>2. /\ Len(b) = Len(a) + 1
      /\ \A i \in 1..Len(a) + 1 :
           b[i] = IF i <= Len(p) THEN a[i] ELSE IF i = Len(p) + 1 THEN s ELSE a[i - 1]
  BY LoweredFacts
<1>3. /\ Len(y) = Len(x) + 1
      /\ \A i \in 1..Len(x) + 1 :
           y[i] = IF i <= Len(p) THEN x[i] ELSE IF i = Len(p) + 1 THEN s ELSE x[i - 1]
  BY <1>1, LoweredFacts
<1> HIDE DEF b, y
<1>4. ASSUME NEW i \in 1..Len(b) PROVE y[i] = b[i]
  <2>1. i \in 1..Len(a) + 1 /\ i \in 1..Len(x) + 1
    BY <1>1, <1>2
  <2>2. CASE i <= Len(p)
    BY <1>1, <1>2, <1>3, <2>1, <2>2
  <2>3. CASE i = Len(p) + 1
    BY <1>1, <1>2, <1>3, <2>1, <2>3
  <2>4. CASE i > Len(p) + 1
    <3>1. i - 1 \in 1..Len(a)
      BY <1>1, <2>1, <2>4
    <3> QED BY <1>1, <1>2, <1>3, <2>1, <2>4, <3>1
  <2> QED BY <1>1, <2>1, <2>2, <2>3, <2>4
<1>5. Under(b, y)
  BY <1>1, <1>2, <1>3, <1>4 DEF Under
<1>6. ASSUME NEW d \in Side, On(d, a, x) PROVE On(d, b, y)
  <2>1. Len(a) < Len(x) /\ x[Len(a) + 1] = d
    BY <1>6 DEF On
  <2>2. y[Len(a) + 2] = x[Len(a) + 1]
    <3>1. /\ Len(a) + 2 \in 1..Len(x) + 1 /\ ~(Len(a) + 2 <= Len(p)) /\ Len(a) + 2 # Len(p) + 1
          /\ (Len(a) + 2) - 1 = Len(a) + 1
      BY <1>1, <2>1
    <3> QED BY <1>3, <3>1
  <2>3. Len(b) < Len(y) /\ Len(b) + 1 = Len(a) + 2
    BY <1>1, <1>2, <1>3, <2>1
  <2> QED BY <1>5, <2>1, <2>2, <2>3 DEF On
<1> QED BY <1>5, <1>6 DEF b, y

(* Where the nodes of the tree were before the subtree was lifted. *)
LEMMA LiftedFacts ==
  ASSUME NEW t, SearchTreeOf(t), NEW p \in DOMAIN t, NEW s \in Side
  PROVE  /\ DOMAIN Lifted(t, p, s) \subseteq Place
         /\ \A y \in DOMAIN t : ~Under(p, y) => y \in DOMAIN Lifted(t, p, s)
         /\ \A y \in DOMAIN t : On(s, p, y) => Raised(p, y) \in DOMAIN Lifted(t, p, s)
         /\ \A x \in DOMAIN Lifted(t, p, s) :
              IF Under(p, x)
                THEN /\ Lowered(p, s, x) \in DOMAIN t
                     /\ Lifted(t, p, s)[x] = t[Lowered(p, s, x)]
                ELSE x \in DOMAIN t /\ Lifted(t, p, s)[x] = t[x]
         /\ \A x \in Place : Under(p, x) /\ Lowered(p, s, x) \in DOMAIN t
                               => x \in DOMAIN Lifted(t, p, s)
<1> DEFINE D == { y \in DOMAIN t : ~Under(p, y) }
           R == { Raised(p, y) : y \in { z \in DOMAIN t : On(s, p, z) } }
           u == Lifted(t, p, s)
<1>1. DOMAIN t \subseteq Place /\ p \in Place
  BY DEF SearchTreeOf
<1>2. u = [x \in D \union R |-> IF Under(p, x) THEN t[Lowered(p, s, x)] ELSE t[x]]
  BY DEF Lifted
<1>3. ASSUME NEW x \in R
      PROVE  x \in Place /\ Under(p, x) /\ Lowered(p, s, x) \in DOMAIN t
  <2>1. PICK y \in DOMAIN t : On(s, p, y) /\ x = Raised(p, y)
    OBVIOUS
  <2> QED BY <1>1, <2>1, RaisedFacts, LoweredRaised
<1>4. ASSUME NEW x \in D
      PROVE  x \in Place /\ ~Under(p, x) /\ x \in DOMAIN t
  BY <1>1
<1>5. ASSUME NEW y \in DOMAIN t
      PROVE  (~Under(p, y) => y \in D) /\ (On(s, p, y) => Raised(p, y) \in R)
  OBVIOUS
<1>6. ASSUME NEW x \in Place, Under(p, x), Lowered(p, s, x) \in DOMAIN t
      PROVE  x \in R
  <2>1. On(s, p, Lowered(p, s, x)) /\ Raised(p, Lowered(p, s, x)) = x
    BY <1>1, <1>6, LoweredFacts, RaisedLowered
  <2> QED BY <1>6, <2>1
<1> HIDE DEF D, R, u
<1>7. DOMAIN u = D \union R
  BY <1>2
<1>8. \A x \in DOMAIN u : u[x] = IF Under(p, x) THEN t[Lowered(p, s, x)] ELSE t[x]
  BY <1>2, <1>7
<1>9. DOMAIN u \subseteq Place
  BY <1>3, <1>4, <1>7
<1>10. \A x \in DOMAIN u :
         IF Under(p, x) THEN Lowered(p, s, x) \in DOMAIN t /\ u[x] = t[Lowered(p, s, x)]
                        ELSE x \in DOMAIN t /\ u[x] = t[x]
  BY <1>3, <1>4, <1>7, <1>8
<1> QED BY <1>5, <1>6, <1>7, <1>9, <1>10 DEF u

LEMMA LiftedKeepsOrder ==
  ASSUME NEW t, SearchTreeOf(t), NEW p \in DOMAIN t, NEW s \in Side
  PROVE  SearchTreeOf(Lifted(t, p, s))
<1> DEFINE u == Lifted(t, p, s)
           was(x) == IF Under(p, x) THEN Lowered(p, s, x) ELSE x
<1>1. /\ DOMAIN t \subseteq Place /\ p \in Place /\ Reached(t) /\ t \in [DOMAIN t -> Word]
      /\ \A a, x \in DOMAIN t : Compared(t, a, x)
  BY DEF SearchTreeOf
<1>2. /\ DOMAIN u \subseteq Place
      /\ \A y \in DOMAIN t : ~Under(p, y) => y \in DOMAIN u
      /\ \A x \in DOMAIN u :
           IF Under(p, x) THEN Lowered(p, s, x) \in DOMAIN t /\ u[x] = t[Lowered(p, s, x)]
                          ELSE x \in DOMAIN t /\ u[x] = t[x]
      /\ \A x \in Place : Under(p, x) /\ Lowered(p, s, x) \in DOMAIN t => x \in DOMAIN u
  BY LiftedFacts
<1>3. \E D : u = [x \in D |-> IF Under(p, x) THEN t[Lowered(p, s, x)] ELSE t[x]]
  BY DEF Lifted
<1> HIDE DEF u
<1>4. u \in [DOMAIN u -> Word]
  <2>1. \A x \in DOMAIN u : u[x] \in Word
    BY <1>1, <1>2
  <2> QED BY <1>3, <2>1
<1>5. \A x \in DOMAIN u : was(x) \in DOMAIN t /\ u[x] = t[was(x)]
  BY <1>2
<1>6. ASSUME NEW a \in DOMAIN u, NEW x \in Place, Under(x, a) PROVE x \in DOMAIN u
  <2>1. a \in Place
    BY <1>2
  <2>2. CASE ~Under(p, x) /\ ~Under(p, a)
    BY <1>1, <1>2, <1>6, <2>2 DEF Reached
  <2>3. CASE ~Under(p, x) /\ Under(p, a)
    <3>1. ~(Len(p) <= Len(x))
      BY <1>1, <1>6, <2>1, <2>3, UnderBoth
    <3>2. Under(x, p)
      BY <1>1, <1>6, <2>1, <2>3, <3>1, UnderBoth, PlaceFacts
    <3> QED BY <1>1, <1>2, <2>3, <3>2 DEF Reached
  <2>4. CASE Under(p, x)
    <3>1. Under(p, a) /\ Lowered(p, s, a) \in DOMAIN t
      BY <1>1, <1>2, <1>6, <2>1, <2>4, UnderUnder
    <3>2. Under(Lowered(p, s, x), Lowered(p, s, a)) /\ Lowered(p, s, x) \in Place
      BY <1>1, <1>6, <2>1, <2>4, LoweredUnder, LoweredFacts
    <3>3. Lowered(p, s, x) \in DOMAIN t
      BY <1>1, <3>1, <3>2 DEF Reached
    <3> QED BY <1>2, <2>4, <3>3
  <2> QED BY <2>2, <2>3, <2>4
<1>7. ASSUME NEW a \in DOMAIN u, NEW x \in DOMAIN u, NEW d \in Side, On(d, a, x)
      PROVE  On(d, was(a), was(x))
  <2>1. a \in Place /\ x \in Place /\ Under(a, x)
    BY <1>2, <1>7 DEF On
  <2>2. CASE Under(p, a)
    <3>1. Under(p, x)
      BY <1>1, <2>1, <2>2, UnderUnder
    <3>2. On(d, Lowered(p, s, a), Lowered(p, s, x))
      BY <1>1, <1>7, <2>1, <2>2, LoweredUnder
    <3> QED BY <2>2, <3>1, <3>2
  <2>3. CASE ~Under(p, a) /\ Under(p, x)
    <3>1. Len(a) < Len(p)
      <4>1. ~(Len(p) <= Len(a))
        BY <1>1, <2>1, <2>3, UnderBoth
      <4> QED BY <1>1, <2>1, <4>1, PlaceFacts
    <3>2. Under(a, p)
      BY <1>1, <2>1, <2>3, <3>1, UnderBoth, PlaceFacts
    <3>3. Len(a) \in Nat /\ Len(p) \in Nat /\ Len(a) + 1 \in 1..Len(p)
      BY <1>1, <2>1, <3>1, PlaceFacts
    <3>4. x[Len(a) + 1] = p[Len(a) + 1]
      BY <2>3, <3>3 DEF Under
    <3>5. On(d, a, p)
      BY <1>7, <3>1, <3>2, <3>4 DEF On
    <3>6. Under(p, Lowered(p, s, x)) /\ Lowered(p, s, x) \in Place
      BY <1>1, <2>1, <2>3, LoweredFacts DEF On
    <3>7. On(d, a, Lowered(p, s, x))
      BY <1>1, <2>1, <3>5, <3>6, OnUnder
    <3> QED BY <2>3, <3>7
  <2>4. CASE ~Under(p, a) /\ ~Under(p, x)
    BY <1>7, <2>4
  <2> QED BY <2>2, <2>3, <2>4
<1> HIDE DEF was
<1>8. ASSUME NEW a \in DOMAIN u, NEW x \in DOMAIN u PROVE Compared(u, a, x)
  <2>1. Compared(t, was(a), was(x)) /\ u[a] = t[was(a)] /\ u[x] = t[was(x)]
    BY <1>1, <1>5
  <2>2. /\ On("l", a, x) => On("l", was(a), was(x))
        /\ On("r", a, x) => On("r", was(a), was(x))
    BY <1>7 DEF Side
  <2> QED BY <2>1, <2>2 DEF Compared
<1>9. SearchTreeOf(u)
  BY <1>2, <1>4, <1>6, <1>8 DEF SearchTreeOf, Reached
<1> QED BY <1>9 DEF u

LEMMA DeleteKeepsOrder ==
  ASSUME SearchTreeOf(root), NEW q \in Word, DeleteLine(q)
  PROVE  SearchTreeOf(root')
<1>1. CASE ~contains(root, q) /\ UNCHANGED root
  BY <1>1
<1>2. ASSUME NEW p \in DOMAIN root, NEW m \in DOMAIN root, Leftmost(root, p, m),
             root' = Replaced(root, p, m)
      PROVE  SearchTreeOf(root')
  BY <1>2, ReplacedKeepsOrder
<1>3. ASSUME NEW p \in DOMAIN root, NEW s \in Side, root' = Lifted(root, p, s)
      PROVE  SearchTreeOf(root')
  BY <1>3, LiftedKeepsOrder
<1>4. "l" \in Side /\ "r" \in Side
  BY DEF Side
<1> QED BY <1>1, <1>2, <1>3, <1>4 DEF DeleteLine

LEMMA TreeInvariant == TreeSpec => []SearchTreeOf(root)
<1>1. SearchTreeOf(root) /\ [TreeNext]_root => SearchTreeOf(root')
  <2> SUFFICES ASSUME SearchTreeOf(root), [TreeNext]_root PROVE SearchTreeOf(root')
    OBVIOUS
  <2>1. ASSUME NEW q \in Word, InsertLine(q) PROVE SearchTreeOf(root')
    BY <2>1, InsertKeepsOrder
  <2>2. ASSUME NEW q \in Word, DeleteLine(q) PROVE SearchTreeOf(root')
    BY <2>2, DeleteKeepsOrder
  <2>3. CASE UNCHANGED root
    BY <2>3
  <2> QED BY <2>1, <2>2, <2>3 DEF TreeNext
<1>2. SearchTreeOf(root)' <=> SearchTreeOf(root')
  BY DEF SearchTreeOf, Reached, Compared
<1> QED BY <1>1, <1>2, OrderedAtFirst, PTL DEF TreeSpec

(* Whatever the lines, the tree stays a search tree: every node can be     *)
(* reached from the root, and what is on its left is smaller and what is   *)
(* on its right is greater.                                                *)
THEOREM StaysOrdered == TreeSpec => []Ordered
<1>1. SearchTreeOf(root) => Ordered
  BY OrderedOf
<1> QED BY <1>1, TreeInvariant, PTL

(***************************************************************************)
(* What a line loses.                                                      *)
(***************************************************************************)

(* Lost is what a step loses, kept what it keeps. *)
LosesAfter(before, kept, lost, q, x) ==
  \E y \in kept :
    /\ q < y /\ y < x
    /\ \A z \in before : q < z /\ z < x => z = y \/ z \in lost

Loses(t, u) ==
  LET kept == Words(t) \intersect Words(u)
      lost == Words(t) \ kept
  IN lost # {} => \E q \in lost : \A x \in lost \ {q} : LosesAfter(Words(t), kept, lost, q, x)

LEMMA LiftedLoses ==
  ASSUME NEW t, SearchTreeOf(t), NEW p \in DOMAIN t, NEW s \in Side, NEW o \in Side,
         s # o, Child(p, o) \notin DOMAIN t
  PROVE  Loses(t, Lifted(t, p, s))
<1> DEFINE u == Lifted(t, p, s)
<1>1. DOMAIN t \subseteq Place /\ p \in Place /\ Reached(t)
  BY DEF SearchTreeOf
<1>2. ASSUME NEW y \in DOMAIN t, y # p
      PROVE  t[y] \in Words(u)
  <2>1. CASE ~Under(p, y)
    <3>1. y \in DOMAIN u /\ u[y] = t[y]
      BY <2>1, LiftedFacts
    <3> QED BY <3>1 DEF Words
  <2>2. CASE Under(p, y)
    <3>1. PICK d \in Side : On(d, p, y)
      BY <1>1, <1>2, <2>2, UnderOn
    <3>2. d # o
      BY <1>1, <3>1, ChildFacts DEF Reached
    <3>3. On(s, p, y)
      BY <3>1, <3>2 DEF Side
    <3>4. Raised(p, y) \in DOMAIN u /\ Under(p, Raised(p, y)) /\ Lowered(p, s, Raised(p, y)) = y
      BY <1>1, <3>3, LiftedFacts, RaisedFacts, LoweredRaised
    <3>5. u[Raised(p, y)] = t[y]
      BY <3>4, LiftedFacts
    <3> QED BY <3>4, <3>5 DEF Words
  <2> QED BY <2>1, <2>2
<1> HIDE DEF u
<1>3. \A x \in Words(t) : x \in Words(u) \/ x = t[p]
  BY <1>2 DEF Words
<1>4. Loses(t, u)
  BY <1>3 DEF Loses
<1> QED BY <1>4 DEF u

LEMMA ReplacedLoses ==
  ASSUME NEW t, SearchTreeOf(t), NEW p \in DOMAIN t, NEW m \in DOMAIN t, Leftmost(t, p, m)
  PROVE  Loses(t, Replaced(t, p, m))
<1> DEFINE u == Replaced(t, p, m)
           kept == Words(t) \intersect Words(u)
           lost == Words(t) \ kept
<1>1. DOMAIN t \subseteq Place /\ p \in Place /\ m \in Place /\ On("r", p, m) /\ Reached(t)
  BY DEF SearchTreeOf, Leftmost
<1>2. /\ DOMAIN u = { y \in DOMAIN t : ~Under(m, y) }
      /\ p \in DOMAIN u
      /\ \A x \in DOMAIN u : u[x] = IF x = p THEN t[m] ELSE t[x]
  BY ReplacedKeepsOrder
<1> HIDE DEF u
<1>3. p # m /\ t[p] < t[m]
  BY <1>1, OnApart, ComparedOn DEF Side
<1>4. \A x \in DOMAIN t : t[x] \in Nat
  BY WordFacts
<1>5. t[m] \in Words(u) /\ t[m] \in Words(t)
  <2>1. u[p] = t[m]
    BY <1>2
  <2> QED BY <1>2, <2>1 DEF Words
(* The words lost are that of p and those below m. *)
<1>6. ASSUME NEW w \in DOMAIN t
      PROVE  t[w] \in Words(u) <=> w = m \/ (w # p /\ ~Under(m, w))
  <2>1. ASSUME t[w] \in Words(u) PROVE w = m \/ (w # p /\ ~Under(m, w))
    <3>1. PICK x \in DOMAIN u : u[x] = t[w]
      BY <2>1 DEF Words
    <3>2. x \in DOMAIN t /\ ~Under(m, x)
      BY <1>2
    <3>3. CASE x = p
      <4>1. t[w] = t[m]
        BY <1>2, <3>1, <3>3
      <4> QED BY <4>1, Once
    <3>4. CASE x # p
      <4>1. t[w] = t[x]
        BY <1>2, <3>1, <3>4
      <4>2. w = x
        BY <3>2, <4>1, Once
      <4> QED BY <3>2, <3>4, <4>2
    <3> QED BY <3>3, <3>4
  <2>2. ASSUME w # p, ~Under(m, w) PROVE t[w] \in Words(u)
    <3>1. w \in DOMAIN u /\ u[w] = t[w]
      BY <1>2, <2>2
    <3> QED BY <3>1 DEF Words
  <2> QED BY <1>5, <2>1, <2>2
<1>7. \A w \in DOMAIN t : t[w] \in Words(t)
  BY DEF Words
<1>8. t[p] \in lost
  BY <1>3, <1>6, <1>7
<1>9. ASSUME NEW w \in DOMAIN t, Under(m, w), w # m,
             NEW v \in DOMAIN t, t[p] < t[v], t[v] < t[w]
      PROVE  Under(m, v)
  <2> SUFFICES ASSUME ~Under(m, v) PROVE FALSE
    OBVIOUS
  <2>1. v \in Place /\ w \in Place /\ On("r", p, w)
    BY <1>1, <1>9, OnUnder DEF Side
  <2>2. t[v] \in Nat /\ t[w] \in Nat /\ t[p] \in Nat
    BY <1>4
  <2>3. v # p
    BY <1>9, <2>2
  <2>4. ~On("r", p, v)
    <3>1. On("r", p, v) => t[w] < t[v]
      BY <1>9, LeftmostFirst
    <3> QED BY <1>9, <2>2, <3>1
  <2>5. ~On("l", p, v)
    <3>1. On("l", p, v) => t[v] < t[p]
      BY ComparedOn
    <3> QED BY <1>9, <2>2, <3>1
  <2>6. ASSUME NEW s \in Side, On(s, v, p) PROVE FALSE
    <3>1. On(s, v, w)
      BY <1>1, <2>1, <2>6, OnUnder DEF On
    <3>2. /\ On("l", v, w) => t[w] < t[v]
          /\ On("r", v, p) => t[v] < t[p]
      BY ComparedOn
    <3> QED BY <1>9, <2>2, <2>6, <3>1, <3>2 DEF Side
  <2>7. ASSUME NEW c \in Place, NEW s \in Side, NEW d \in Side, s # d, On(s, c, p), On(d, c, v)
        PROVE  FALSE
    <3>1. On(s, c, w) /\ c \in DOMAIN t
      BY <1>1, <2>1, <2>7, OnUnder DEF On, Reached
    <3>2. t[c] \in Nat
      BY <1>4, <3>1
    <3>3. CASE s = "l" /\ d = "r"
      <4>1. t[w] < t[c] /\ t[c] < t[v]
        BY <2>7, <3>1, <3>3, ComparedOn
      <4> QED BY <1>9, <2>2, <3>2, <4>1
    <3>4. CASE s = "r" /\ d = "l"
      <4>1. t[c] < t[p] /\ t[v] < t[c]
        BY <2>7, <3>1, <3>4, ComparedOn
      <4> QED BY <1>9, <2>2, <3>2, <4>1
    <3> QED BY <2>7, <3>3, <3>4 DEF Side
  <2>8. "l" \in Side /\ "r" \in Side /\ "l" # "r"
    BY DEF Side
  <2>9. \/ \E s \in Side : On(s, p, v) \/ On(s, v, p)
        \/ \E c \in Place : \/ On("l", c, p) /\ On("r", c, v)
                            \/ On("r", c, p) /\ On("l", c, v)
    BY <1>1, <2>1, <2>3, Apart
  <2>10. \A s \in Side : ~On(s, p, v)
    BY <2>4, <2>5 DEF Side
  <2> QED BY <2>6, <2>7, <2>8, <2>9, <2>10
<1>10. ASSUME NEW x \in lost \ {t[p]}
       PROVE  LosesAfter(Words(t), kept, lost, t[p], x)
  <2>1. PICK w \in DOMAIN t : x = t[w]
    BY DEF Words
  <2>2. w # p /\ w # m /\ Under(m, w)
    BY <1>6, <2>1
  <2>3. t[m] < x
    <3>1. PICK s \in Side : On(s, m, w)
      BY <1>1, <2>2, UnderOn
    <3>2. s # "l"
      BY <1>1, <3>1, ChildFacts DEF Reached, Leftmost
    <3> QED BY <2>1, <3>1, <3>2, ComparedOn DEF Side
  <2>4. ASSUME NEW z \in Words(t), t[p] < z, z < x
        PROVE  z = t[m] \/ z \in lost
    <3>1. PICK v \in DOMAIN t : z = t[v]
      BY DEF Words
    <3>2. Under(m, v)
      BY <1>9, <2>1, <2>2, <2>4, <3>1
    <3> QED BY <1>6, <3>1, <3>2
  <2>5. t[m] \in kept
    BY <1>5
  <2> QED BY <1>3, <2>3, <2>4, <2>5 DEF LosesAfter
<1>11. Loses(t, u)
  BY <1>8, <1>10 DEF Loses
<1> QED BY <1>11 DEF u

(* A line loses no word but the one it deletes and some of those that come *)
(* next after the word that takes its place.                               *)
THEOREM LosesLittle == TreeSpec => LosesOnly
<1> DEFINE A == LET before == Words(root)
                    kept == before \intersect Words(root')
                    lost == before \ kept
                IN lost # {} =>
                     \E q \in lost : \A x \in lost \ {q} :
                       \E y \in kept :
                         /\ q < y /\ y < x
                         /\ \A z \in before : q < z /\ z < x => z = y \/ z \in lost
<1>1. Loses(root, root') => A
  BY DEF Loses, LosesAfter
<1>2. ASSUME SearchTreeOf(root), TreeNext PROVE Loses(root, root')
  <2>1. ASSUME NEW q \in Word, InsertLine(q) PROVE Loses(root, root')
    BY <1>2, <2>1, InsertKeepsOrder DEF Loses
  <2>2. ASSUME NEW q \in Word, DeleteLine(q) PROVE Loses(root, root')
    <3>1. CASE UNCHANGED root
      BY <3>1 DEF Loses
    <3>2. ASSUME NEW p \in DOMAIN root, NEW m \in DOMAIN root, Leftmost(root, p, m),
                 root' = Replaced(root, p, m)
          PROVE  Loses(root, root')
      BY <1>2, <3>2, ReplacedLoses
    <3>3. ASSUME NEW p \in DOMAIN root, NEW s \in Side, NEW o \in Side, s # o,
                 Child(p, o) \notin DOMAIN root, root' = Lifted(root, p, s)
          PROVE  Loses(root, root')
      BY <1>2, <3>3, LiftedLoses
    <3>4. "l" \in Side /\ "r" \in Side /\ "l" # "r"
      BY DEF Side
    <3> QED BY <2>2, <3>1, <3>2, <3>3, <3>4 DEF DeleteLine
  <2> QED BY <1>2, <2>1, <2>2 DEF TreeNext
<1>3. SearchTreeOf(root) /\ [TreeNext]_root => [A]_root
  BY <1>1, <1>2
<1> QED BY <1>3, TreeInvariant, PTL DEF TreeSpec, LosesOnly

(***************************************************************************)
(* What a line is for.                                                     *)
(***************************************************************************)
LEMMA InsertAdds ==
  ASSUME NEW q \in Word, InsertLine(q)
  PROVE  Words(root') = Words(root) \union {q}
<1>1. PICK p \in Pointers(root) :
        /\ Leads(root, q, p)
        /\ root' = [x \in DOMAIN root \union {p} |-> IF x = p THEN q ELSE root[x]]
  BY DEF InsertLine
<1>2. p \in DOMAIN root => root[p] = q
  BY <1>1 DEF Leads
<1>3. /\ DOMAIN root' = DOMAIN root \union {p} /\ root'[p] = q
      /\ \A x \in DOMAIN root : root'[x] = root[x]
  BY <1>1, <1>2
<1>4. \A x \in DOMAIN root' : root'[x] = q \/ (x \in DOMAIN root /\ root'[x] = root[x])
  BY <1>3
<1>5. Words(root') \subseteq Words(root) \union {q}
  BY <1>4 DEF Words
<1>6. Words(root) \union {q} \subseteq Words(root')
  BY <1>3 DEF Words
<1> QED BY <1>5, <1>6

LEMMA ReplacedWords ==
  ASSUME NEW t, SearchTreeOf(t), NEW p \in DOMAIN t, NEW m \in DOMAIN t, Leftmost(t, p, m)
  PROVE  Words(Replaced(t, p, m)) \subseteq Words(t) \ {t[p]}
<1> DEFINE u == Replaced(t, p, m)
<1>1. /\ DOMAIN u = { y \in DOMAIN t : ~Under(m, y) }
      /\ p \in DOMAIN u
      /\ \A x \in DOMAIN u : u[x] = IF x = p THEN t[m] ELSE t[x]
  BY ReplacedKeepsOrder
<1>2. p # m
  BY OnApart DEF SearchTreeOf, Leftmost, Side
<1> HIDE DEF u
<1>3. ASSUME NEW x \in DOMAIN u
      PROVE  \E y \in DOMAIN t : y # p /\ u[x] = t[y]
  BY <1>1, <1>2
<1>4. ASSUME NEW x \in DOMAIN u
      PROVE  u[x] \in Words(t) /\ u[x] # t[p]
  <2>1. PICK y \in DOMAIN t : y # p /\ u[x] = t[y]
    BY <1>3
  <2>2. t[y] # t[p]
    BY <2>1, Once
  <2> QED BY <2>1, <2>2 DEF Words
<1>5. Words(u) \subseteq Words(t) \ {t[p]}
  BY <1>4 DEF Words
<1> QED BY <1>5 DEF u

LEMMA LiftedWords ==
  ASSUME NEW t, SearchTreeOf(t), NEW p \in DOMAIN t, NEW s \in Side
  PROVE  Words(Lifted(t, p, s)) \subseteq Words(t) \ {t[p]}
<1> DEFINE u == Lifted(t, p, s)
<1>1. /\ DOMAIN u \subseteq Place
      /\ \A x \in DOMAIN u :
           IF Under(p, x) THEN Lowered(p, s, x) \in DOMAIN t /\ u[x] = t[Lowered(p, s, x)]
                          ELSE x \in DOMAIN t /\ u[x] = t[x]
  BY LiftedFacts
<1>2. DOMAIN t \subseteq Place /\ p \in Place
  BY DEF SearchTreeOf
<1> HIDE DEF u
<1>3. ASSUME NEW x \in DOMAIN u
      PROVE  \E y \in DOMAIN t : y # p /\ u[x] = t[y]
  <2>1. CASE Under(p, x)
    <3>1. On(s, p, Lowered(p, s, x)) /\ Lowered(p, s, x) \in Place
      BY <1>1, <1>2, <2>1, LoweredFacts
    <3>2. Lowered(p, s, x) # p
      BY <1>2, <3>1, OnApart
    <3> QED BY <1>1, <2>1, <3>2
  <2>2. CASE ~Under(p, x)
    <3>1. x # p
      BY <1>2, <2>2, UnderItself
    <3> QED BY <1>1, <2>2, <3>1
  <2> QED BY <2>1, <2>2
<1>4. ASSUME NEW x \in DOMAIN u
      PROVE  u[x] \in Words(t) /\ u[x] # t[p]
  <2>1. PICK y \in DOMAIN t : y # p /\ u[x] = t[y]
    BY <1>3
  <2>2. t[y] # t[p]
    BY <2>1, Once
  <2> QED BY <2>1, <2>2 DEF Words
<1>5. Words(u) \subseteq Words(t) \ {t[p]}
  BY <1>4 DEF Words
<1> QED BY <1>5 DEF u

LEMMA DeleteRemoves ==
  ASSUME SearchTreeOf(root), NEW q \in Word, DeleteLine(q)
  PROVE  Words(root') \subseteq Words(root) \ {q}
<1>1. CASE ~contains(root, q) /\ UNCHANGED root
  BY <1>1 DEF contains, Words
<1>2. ASSUME NEW p \in DOMAIN root, root[p] = q, NEW m \in DOMAIN root, Leftmost(root, p, m),
             root' = Replaced(root, p, m)
      PROVE  Words(root') \subseteq Words(root) \ {q}
  BY <1>2, ReplacedWords
<1>3. ASSUME NEW p \in DOMAIN root, root[p] = q, NEW s \in Side, root' = Lifted(root, p, s)
      PROVE  Words(root') \subseteq Words(root) \ {q}
  BY <1>3, LiftedWords
<1>4. "l" \in Side /\ "r" \in Side
  BY DEF Side
<1> QED BY <1>1, <1>2, <1>3, <1>4 DEF DeleteLine

(* After "i word" the tree has the word and all it had before; after "d    *)
(* word" it does not have the word, wherever it was and whatever moved,    *)
(* and has gained none.                                                    *)
THEOREM LinesDoTheirWork ==
  TreeSpec => [][ /\ \A q \in Word : InsertLine(q) => Words(root') = Words(root) \union {q}
                  /\ \A q \in Word : DeleteLine(q) => Words(root') \subseteq Words(root) \ {q}
                ]_root
<1>1. SearchTreeOf(root) =>
        /\ \A q \in Word : InsertLine(q) => Words(root') = Words(root) \union {q}
        /\ \A q \in Word : DeleteLine(q) => Words(root') \subseteq Words(root) \ {q}
  BY InsertAdds, DeleteRemoves
<1> QED BY <1>1, TreeInvariant, PTL DEF TreeSpec

(***************************************************************************)
(* Trees: the functions from finitely many places, each with those above   *)
(* it, to S.                                                               *)
(***************************************************************************)
Shallow(t, d) == \A p \in DOMAIN t : Len(p) < d

Trees(S) == { t \in UNION { [D -> S] : D \in SUBSET Place } :
                Reached(t) /\ \E d \in Nat : Shallow(t, d) }

LEMMA TreeFacts ==
  ASSUME NEW S, NEW t \in Trees(S)
  PROVE  /\ t \in [DOMAIN t -> S] /\ DOMAIN t \subseteq Place /\ Reached(t)
         /\ \E d \in Nat : Shallow(t, d)
BY DEF Trees

LEMMA TreeOf ==
  ASSUME NEW S, NEW D \in SUBSET Place, NEW t \in [D -> S], Reached(t),
         NEW d \in Nat, Shallow(t, d)
  PROVE  t \in Trees(S)
BY DEF Trees

(* The place q of the subtree on side s. *)
At(s, q) == <<s>> \o q

LEMMA AtFacts ==
  ASSUME NEW s \in Side, NEW q \in Place
  PROVE  /\ At(s, q) \in Place /\ Len(At(s, q)) = Len(q) + 1
         /\ At(s, q)[1] = s /\ Tail(At(s, q)) = q /\ At(s, q) # <<>>
         /\ \A i \in 1..Len(q) : At(s, q)[i + 1] = q[i]
         /\ \A o \in Side : Child(At(s, q), o) = At(s, Child(q, o))
<1>1. <<s>> \in Seq(Side) /\ Len(<<s>>) = 1 /\ <<s>>[1] = s /\ q \in Seq(Side) /\ Len(q) \in Nat
  BY PlaceFacts DEF Place
<1>2. /\ At(s, q) \in Place /\ Len(At(s, q)) = 1 + Len(q)
      /\ \A i \in 1..1+Len(q) : At(s, q)[i] = IF i <= 1 THEN <<s>>[i] ELSE q[i - 1]
  BY <1>1, ConcatProperties DEF At, Place
<1>3. \A i \in 1..Len(q) : At(s, q)[i + 1] = q[i]
  BY <1>1, <1>2
<1>4. At(s, q)[1] = s /\ At(s, q) # <<>>
  BY <1>1, <1>2
<1>5. Tail(At(s, q)) = q
  <2>1. /\ Tail(At(s, q)) \in Seq(Side) /\ Len(Tail(At(s, q))) = Len(At(s, q)) - 1
        /\ \A i \in 1..Len(Tail(At(s, q))) : Tail(At(s, q))[i] = At(s, q)[i + 1]
    BY <1>2, <1>4, HeadTailProperties DEF Place
  <2> QED BY <1>1, <1>2, <1>3, <2>1, SeqEqual
<1>6. ASSUME NEW o \in Side PROVE Child(At(s, q), o) = At(s, Child(q, o))
  <2>1. Child(At(s, q), o) = At(s, q) \o <<o>> /\ Child(q, o) = q \o <<o>>
    BY <1>1, <1>2, AppendIsConcat DEF Child, Place
  <2>2. (<<s>> \o q) \o <<o>> = <<s>> \o (q \o <<o>>)
    BY <1>1, ConcatAssociative
  <2> QED BY <2>1, <2>2 DEF At
<1> QED BY <1>1, <1>2, <1>3, <1>4, <1>5, <1>6

LEMMA AtSame ==
  ASSUME NEW s \in Side, NEW o \in Side, NEW q \in Place, NEW p \in Place, At(s, q) = At(o, p)
  PROVE  s = o /\ q = p
<1>1. At(s, q)[1] = s /\ Tail(At(s, q)) = q
  BY AtFacts
<1>2. At(o, p)[1] = o /\ Tail(At(o, p)) = p
  BY AtFacts
<1> QED BY <1>1, <1>2

LEMMA AtSplit ==
  ASSUME NEW p \in Place, p # <<>>
  PROVE  p[1] \in Side /\ Tail(p) \in Place /\ p = At(p[1], Tail(p))
<1>1. Len(p) \in Nat /\ Len(p) # 0 /\ p[1] \in Side
  BY PlaceFacts, EmptySeq DEF Place
<1>2. /\ Tail(p) \in Seq(Side) /\ Len(Tail(p)) = Len(p) - 1
      /\ \A i \in 1..Len(Tail(p)) : Tail(p)[i] = p[i + 1]
  BY HeadTailProperties DEF Place
<1>3. /\ At(p[1], Tail(p)) \in Place /\ Len(At(p[1], Tail(p))) = Len(Tail(p)) + 1
      /\ At(p[1], Tail(p))[1] = p[1]
      /\ \A i \in 1..Len(Tail(p)) : At(p[1], Tail(p))[i + 1] = Tail(p)[i]
  BY <1>1, <1>2, AtFacts DEF Place
<1>4. ASSUME NEW i \in 1..Len(p) PROVE p[i] = At(p[1], Tail(p))[i]
  <2>1. CASE i = 1
    BY <1>3, <2>1
  <2>2. CASE i # 1
    <3>1. i - 1 \in 1..Len(Tail(p)) /\ (i - 1) + 1 = i
      BY <1>1, <1>2, <2>2
    <3> QED BY <1>2, <1>3, <3>1
  <2> QED BY <2>1, <2>2
<1> QED BY <1>1, <1>2, <1>3, <1>4, SeqEqual DEF Place

(* The root, and the child of the root. *)
LEMMA Root ==
  /\ <<>> \in Place /\ Len(<<>>) = 0 /\ \A p \in Place : Under(<<>>, p)
  /\ \A s \in Side : At(s, <<>>) = Child(<<>>, s)
<1>1. <<>> \in Place /\ Len(<<>>) = 0
  BY EmptySeq DEF Place
<1>2. ASSUME NEW p \in Place PROVE Under(<<>>, p)
  BY <1>1, PlaceFacts DEF Under
<1>3. ASSUME NEW s \in Side PROVE At(s, <<>>) = Child(<<>>, s)
  <2>1. <<s>> \o <<>> = <<s>> /\ Append(<<>>, s) = <<s>>
    OBVIOUS
  <2> QED BY <2>1 DEF At, Child
<1> QED BY <1>1, <1>2, <1>3

LEMMA AtUnder ==
  ASSUME NEW s \in Side, NEW x \in Place, NEW q \in Place, x # <<>>, Under(x, At(s, q))
  PROVE  \E y \in Place : x = At(s, y) /\ Under(y, q)
<1>1. x[1] \in Side /\ Tail(x) \in Place /\ x = At(x[1], Tail(x))
  BY AtSplit
<1> DEFINE y == Tail(x)
<1>2. Len(x) = Len(y) + 1 /\ Len(y) \in Nat /\ Len(q) \in Nat /\ Len(At(s, q)) = Len(q) + 1
  BY <1>1, AtFacts, PlaceFacts
<1>3. x[1] = s
  BY <1>2, AtFacts DEF Under
<1>4. ASSUME NEW i \in 1..Len(y) PROVE q[i] = y[i]
  <2>1. i + 1 \in 1..Len(x) /\ i \in 1..Len(q)
    BY <1>2 DEF Under
  <2>2. At(s, q)[i + 1] = x[i + 1]
    BY <2>1 DEF Under
  <2>3. At(s, q)[i + 1] = q[i]
    BY <2>1, AtFacts
  <2>4. x[i + 1] = y[i]
    BY <1>1, AtFacts
  <2> QED BY <2>2, <2>3, <2>4
<1>5. Under(y, q)
  BY <1>2, <1>4 DEF Under
<1> QED BY <1>1, <1>3, <1>5

(* What Tree puts together. *)
LEMMA TreeParts ==
  ASSUME NEW S, NEW x \in S, NEW l \in Trees(S), NEW r \in Trees(S)
  PROVE  /\ Tree(x, l, r) \in Trees(S)
         /\ <<>> \in DOMAIN Tree(x, l, r) /\ Tree(x, l, r)[<<>>] = x
         /\ \A q \in Place : /\ At("l", q) \in DOMAIN Tree(x, l, r) <=> q \in DOMAIN l
                             /\ At("r", q) \in DOMAIN Tree(x, l, r) <=> q \in DOMAIN r
         /\ \A q \in DOMAIN l : Tree(x, l, r)[At("l", q)] = l[q]
         /\ \A q \in DOMAIN r : Tree(x, l, r)[At("r", q)] = r[q]
<1> DEFINE t == Tree(x, l, r)
           D == {<<>>} \union { At("l", q) : q \in DOMAIN l } \union { At("r", q) : q \in DOMAIN r }
<1>1. t = [p \in D |-> IF p = <<>> THEN x
                       ELSE IF p[1] = "l" THEN l[Tail(p)] ELSE r[Tail(p)]]
  BY DEF Tree, At
<1>2. "l" \in Side /\ "r" \in Side /\ "l" # "r"
  BY DEF Side
<1>3. /\ l \in [DOMAIN l -> S] /\ DOMAIN l \subseteq Place /\ Reached(l)
      /\ r \in [DOMAIN r -> S] /\ DOMAIN r \subseteq Place /\ Reached(r)
  BY TreeFacts
<1>4. DOMAIN t = D
  BY <1>1
<1>5. ASSUME NEW q \in Place
      PROVE  /\ At("l", q) \in D <=> q \in DOMAIN l
             /\ At("r", q) \in D <=> q \in DOMAIN r
  <2>1. At("l", q) # <<>> /\ At("r", q) # <<>>
    BY <1>2, AtFacts
  <2>2. /\ \A p \in Place : At("l", q) = At("l", p) => q = p
        /\ \A p \in Place : At("r", q) = At("r", p) => q = p
        /\ \A p \in Place : At("l", q) # At("r", p)
        /\ \A p \in Place : At("r", q) # At("l", p)
    BY <1>2, AtSame
  <2> QED BY <1>3, <2>1, <2>2
<1>6. t[<<>>] = x
  BY <1>1
<1>7. ASSUME NEW q \in DOMAIN l PROVE t[At("l", q)] = l[q]
  <2>1. At("l", q) \in D /\ At("l", q) # <<>> /\ At("l", q)[1] = "l" /\ Tail(At("l", q)) = q
    BY <1>2, <1>3, AtFacts
  <2> QED BY <1>1, <2>1
<1>8. ASSUME NEW q \in DOMAIN r PROVE t[At("r", q)] = r[q]
  <2>1. At("r", q) \in D /\ At("r", q) # <<>> /\ At("r", q)[1] = "r" /\ Tail(At("r", q)) = q
    BY <1>2, <1>3, AtFacts
  <2> QED BY <1>1, <1>2, <2>1
<1>9. D \in SUBSET Place
  <2>1. \A q \in Place : At("l", q) \in Place /\ At("r", q) \in Place
    BY <1>2, AtFacts
  <2> QED BY <1>3, <2>1, Root
<1>10. t \in [D -> S]
  <2>1. ASSUME NEW p \in D PROVE t[p] \in S
    <3>1. CASE p = <<>>
      BY <1>6, <3>1
    <3>2. ASSUME NEW q \in DOMAIN l, p = At("l", q) PROVE t[p] \in S
      BY <1>3, <1>7, <3>2
    <3>3. ASSUME NEW q \in DOMAIN r, p = At("r", q) PROVE t[p] \in S
      BY <1>3, <1>8, <3>3
    <3> QED BY <3>1, <3>2, <3>3
  <2> HIDE DEF D
  <2> QED BY <1>1, <2>1
<1>11. Reached(t)
  <2> SUFFICES ASSUME NEW p \in D, NEW y \in Place, Under(y, p), y # <<>>
               PROVE  y \in D
    BY <1>4 DEF Reached
  <2>1. p # <<>>
    BY Root, PlaceFacts, EmptySeq DEF Under, Place
  <2>2. ASSUME NEW q \in DOMAIN l, p = At("l", q) PROVE y \in D
    <3>1. PICK z \in Place : y = At("l", z) /\ Under(z, q)
      BY <1>2, <1>3, <2>2, AtUnder
    <3> QED BY <1>3, <3>1 DEF Reached
  <2>3. ASSUME NEW q \in DOMAIN r, p = At("r", q) PROVE y \in D
    <3>1. PICK z \in Place : y = At("r", z) /\ Under(z, q)
      BY <1>2, <1>3, <2>3, AtUnder
    <3> QED BY <1>3, <3>1 DEF Reached
  <2> QED BY <2>1, <2>2, <2>3
<1>12. \E d \in Nat : Shallow(t, d)
  <2>1. PICK c \in Nat : Shallow(l, c)
    BY TreeFacts
  <2>2. PICK d \in Nat : Shallow(r, d)
    BY TreeFacts
  <2>3. ASSUME NEW p \in D PROVE Len(p) < c + d + 1
    <3>1. CASE p = <<>>
      BY <3>1, Root
    <3>2. ASSUME NEW q \in DOMAIN l, p = At("l", q) PROVE Len(p) < c + d + 1
      <4>1. Len(p) = Len(q) + 1 /\ Len(q) \in Nat /\ Len(q) < c
        BY <1>2, <1>3, <2>1, <3>2, AtFacts, PlaceFacts DEF Shallow
      <4> QED BY <4>1
    <3>3. ASSUME NEW q \in DOMAIN r, p = At("r", q) PROVE Len(p) < c + d + 1
      <4>1. Len(p) = Len(q) + 1 /\ Len(q) \in Nat /\ Len(q) < d
        BY <1>2, <1>3, <2>2, <3>3, AtFacts, PlaceFacts DEF Shallow
      <4> QED BY <4>1
    <3> QED BY <3>1, <3>2, <3>3
  <2>4. c + d + 1 \in Nat
    OBVIOUS
  <2> HIDE DEF D
  <2> QED BY <1>4, <2>3, <2>4 DEF Shallow
<1> HIDE DEF D, t
<1>13. t \in Trees(S)
  BY <1>9, <1>10, <1>11, <1>12, TreeOf
<1>14. <<>> \in D
  BY DEF D
<1>15. t = Tree(x, l, r)
  BY DEF t
<1> QED BY <1>4, <1>5, <1>6, <1>7, <1>8, <1>13, <1>14, <1>15

LEMMA NoTree ==
  ASSUME NEW S
  PROVE  Null \in Trees(S) /\ DOMAIN Null = {} /\ \A t \in Trees(S) : DOMAIN t = {} => t = Null
<1>1. DOMAIN Null = {} /\ Null \in [{} -> S]
  BY DEF Null
<1>2. Null \in Trees(S)
  <2>1. Reached(Null) /\ Shallow(Null, 0)
    BY <1>1 DEF Reached, Shallow
  <2>2. {} \in SUBSET Place /\ 0 \in Nat
    OBVIOUS
  <2> QED BY <1>1, <2>1, <2>2, TreeOf
<1>3. ASSUME NEW t \in Trees(S), DOMAIN t = {} PROVE t = Null
  <2>1. t \in [DOMAIN t -> S]
    BY TreeFacts
  <2> QED BY <1>1, <1>3, <2>1
<1> QED BY <1>1, <1>2, <1>3

(* A tree is empty, or it has a root and two subtrees. *)
LEMMA TreeSplit ==
  ASSUME NEW S, NEW t \in Trees(S), t # Null, NEW d \in Nat, Shallow(t, d + 1)
  PROVE  \E x \in S, l, r \in Trees(S) : t = Tree(x, l, r) /\ Shallow(l, d) /\ Shallow(r, d)
<1> DEFINE sub(s) == [q \in { y \in Place : At(s, y) \in DOMAIN t } |-> t[At(s, q)]]
<1>1. t \in [DOMAIN t -> S] /\ DOMAIN t \subseteq Place /\ Reached(t)
  BY TreeFacts
<1>2. <<>> \in DOMAIN t
  <2>1. DOMAIN t # {}
    BY NoTree
  <2> QED BY <1>1, <2>1, Root DEF Reached
<1>3. ASSUME NEW s \in Side PROVE sub(s) \in Trees(S) /\ Shallow(sub(s), d)
  <2> DEFINE E == { y \in Place : At(s, y) \in DOMAIN t }
  <2>1. E \in SUBSET Place /\ sub(s) \in [E -> S] /\ DOMAIN sub(s) = E
    BY <1>1
  <2>2. Reached(sub(s))
    <3> SUFFICES ASSUME NEW q \in E, NEW y \in Place, Under(y, q) PROVE At(s, y) \in DOMAIN t
      BY DEF Reached
    <3>1. /\ At(s, q) \in Place /\ Len(At(s, q)) = Len(q) + 1 /\ At(s, q)[1] = s
          /\ \A i \in 1..Len(q) : At(s, q)[i + 1] = q[i]
      BY AtFacts
    <3>2. /\ At(s, y) \in Place /\ Len(At(s, y)) = Len(y) + 1 /\ At(s, y)[1] = s
          /\ \A i \in 1..Len(y) : At(s, y)[i + 1] = y[i]
      BY AtFacts
    <3>3. Len(y) \in Nat /\ Len(q) \in Nat /\ Len(y) <= Len(q) /\ \A i \in 1..Len(y) : q[i] = y[i]
      BY PlaceFacts DEF Under
    <3>4. ASSUME NEW i \in 1..Len(At(s, y)) PROVE At(s, q)[i] = At(s, y)[i]
      <4>1. CASE i = 1
        BY <3>1, <3>2, <4>1
      <4>2. CASE i # 1
        <5>1. i - 1 \in 1..Len(y) /\ i - 1 \in 1..Len(q) /\ (i - 1) + 1 = i
          BY <3>2, <3>3, <4>2
        <5>2. At(s, q)[i] = q[i - 1] /\ At(s, y)[i] = y[i - 1]
          BY <3>1, <3>2, <5>1
        <5> QED BY <3>3, <5>1, <5>2
      <4> QED BY <4>1, <4>2
    <3>5. Under(At(s, y), At(s, q))
      BY <3>1, <3>2, <3>3, <3>4 DEF Under
    <3> QED BY <1>1, <3>2, <3>5 DEF Reached
  <2>3. Shallow(sub(s), d)
    <3> SUFFICES ASSUME NEW q \in E PROVE Len(q) < d
      BY DEF Shallow
    <3>1. Len(At(s, q)) = Len(q) + 1 /\ Len(q) \in Nat /\ Len(At(s, q)) < d + 1
      BY AtFacts, PlaceFacts DEF Shallow
    <3> QED BY <3>1
  <2> HIDE DEF E, sub
  <2> QED BY <2>1, <2>2, <2>3, TreeOf
<1> DEFINE l == sub("l")
           r == sub("r")
           u == Tree(t[<<>>], l, r)
<1>4. "l" \in Side /\ "r" \in Side /\ Side = {"l", "r"}
  BY DEF Side
<1>5. l \in Trees(S) /\ r \in Trees(S) /\ t[<<>>] \in S /\ Shallow(l, d) /\ Shallow(r, d)
  BY <1>1, <1>2, <1>3, <1>4
<1>6. \A q \in Place : /\ q \in DOMAIN l <=> At("l", q) \in DOMAIN t
                       /\ q \in DOMAIN r <=> At("r", q) \in DOMAIN t
                       /\ q \in DOMAIN l => l[q] = t[At("l", q)]
                       /\ q \in DOMAIN r => r[q] = t[At("r", q)]
  OBVIOUS
<1> HIDE DEF l, r, sub
<1>7. /\ u \in Trees(S) /\ <<>> \in DOMAIN u /\ u[<<>>] = t[<<>>]
      /\ \A q \in Place : /\ At("l", q) \in DOMAIN u <=> q \in DOMAIN l
                          /\ At("r", q) \in DOMAIN u <=> q \in DOMAIN r
      /\ \A q \in DOMAIN l : u[At("l", q)] = l[q]
      /\ \A q \in DOMAIN r : u[At("r", q)] = r[q]
  BY <1>5, TreeParts
<1> HIDE DEF u
<1>8. ASSUME NEW p \in Place PROVE (p \in DOMAIN u <=> p \in DOMAIN t) /\ (p \in DOMAIN t => u[p] = t[p])
  <2>1. CASE p = <<>>
    BY <1>2, <1>7, <2>1
  <2>2. ASSUME NEW q \in Place, p = At("l", q)
        PROVE  (p \in DOMAIN u <=> p \in DOMAIN t) /\ (p \in DOMAIN t => u[p] = t[p])
    BY <1>6, <1>7, <2>2
  <2>3. ASSUME NEW q \in Place, p = At("r", q)
        PROVE  (p \in DOMAIN u <=> p \in DOMAIN t) /\ (p \in DOMAIN t => u[p] = t[p])
    BY <1>6, <1>7, <2>3
  <2> QED BY <1>4, <2>1, <2>2, <2>3, AtSplit
<1>9. u = t
  <2>1. u \in [DOMAIN u -> S] /\ DOMAIN u \subseteq Place
    BY <1>7, TreeFacts
  <2>2. DOMAIN u = DOMAIN t
    BY <1>1, <1>8, <2>1
  <2> QED BY <1>1, <1>8, <2>1, <2>2
<1> QED BY <1>5, <1>9 DEF u

(* Induction on trees. *)
LEMMA TreeInduction ==
  ASSUME NEW S, NEW X, Null \in X,
         \A x \in S : \A l, r \in Trees(S) : l \in X /\ r \in X => Tree(x, l, r) \in X
  PROVE  Trees(S) \subseteq X
<1> DEFINE T == { n \in Nat : \A t \in Trees(S) : Shallow(t, n) => t \in X }
<1>1. 0 \in T
  <2> SUFFICES ASSUME NEW t \in Trees(S), Shallow(t, 0) PROVE t \in X
    OBVIOUS
  <2>1. ASSUME NEW p \in DOMAIN t PROVE FALSE
    <3>1. p \in Place /\ Len(p) < 0
      BY TreeFacts DEF Shallow
    <3> QED BY <3>1, PlaceFacts
  <2> QED BY <2>1, NoTree
<1>2. ASSUME NEW n \in Nat, n \in T PROVE n + 1 \in T
  <2> SUFFICES ASSUME NEW t \in Trees(S), Shallow(t, n + 1), t # Null PROVE t \in X
    OBVIOUS
  <2>1. PICK x \in S, l \in Trees(S), r \in Trees(S) :
          t = Tree(x, l, r) /\ Shallow(l, n) /\ Shallow(r, n)
    BY TreeSplit
  <2> QED BY <1>2, <2>1
<1> HIDE DEF T
<1>3. Nat \subseteq T
  BY <1>1, <1>2, NatIsInductive
<1>4. ASSUME NEW t \in Trees(S) PROVE t \in X
  <2>1. PICK d \in Nat : Shallow(t, d)
    BY TreeFacts
  <2> QED BY <1>3, <2>1 DEF T
<1> QED BY <1>4

(***************************************************************************)
(* Recursive functions: one whose value at p is given by its values at     *)
(* what has a higher rank, of ranks up to d, exists.                       *)
(***************************************************************************)
ByRank(G, D, V, rank, d) ==
  /\ G \in [[D -> V] -> [D -> V]] /\ rank \in [D -> Nat] /\ d \in Nat
  /\ \A f, g \in [D -> V] : \A p \in D :
       (\A q \in D : rank[q] > rank[p] => f[q] = g[q]) => G[f][p] = G[g][p]
  /\ \A f, g \in [D -> V] : \A p \in D : rank[p] >= d => G[f][p] = G[g][p]

LEMMA Recursive ==
  ASSUME NEW D, NEW V, NEW b \in [D -> V], NEW G, NEW rank, NEW d, ByRank(G, D, V, rank, d)
  PROVE  \E f \in [D -> V] : f = G[f]
<1>0. /\ G \in [[D -> V] -> [D -> V]] /\ rank \in [D -> Nat] /\ d \in Nat
      /\ \A f, g \in [D -> V] : \A p \in D :
           (\A q \in D : rank[q] > rank[p] => f[q] = g[q]) => G[f][p] = G[g][p]
      /\ \A f, g \in [D -> V] : \A p \in D : rank[p] >= d => G[f][p] = G[g][p]
  BY DEF ByRank
<1> DEFINE S == [D -> V]
           F == [k \in 1..d+2 |-> G]
<1>1. PICK h : IsLoop(h, S, b, 0, d + 2, F)
  <2> HIDE DEF S
  <2>1. F \in Rounds(S, 0, d + 2)
    BY <1>0 DEF Rounds, S
  <2>2. 0 \in Int /\ d + 2 \in Int /\ 0 <= d + 2 /\ b \in S
    BY <1>0 DEF S
  <2> HIDE DEF F
  <2> QED BY <2>1, <2>2, Loop
<1>2. /\ \A k \in 0..d+2 : h[k] \in S
      /\ \A k \in 1..d+2 : h[k] = G[h[k - 1]]
  BY <1>1 DEF IsLoop
<1> DEFINE T == { m \in 1..d+1 : \A p \in D : rank[p] + m >= d + 1 => h[m + 1][p] = h[m][p] }
<1>3. 1 \in T
  <2> SUFFICES ASSUME NEW p \in D, rank[p] + 1 >= d + 1 PROVE h[2][p] = h[1][p]
    BY <1>0
  <2>1. h[2] = G[h[1]] /\ h[1] = G[h[0]] /\ h[1] \in S /\ h[0] \in S
    BY <1>0, <1>2
  <2>2. rank[p] >= d
    BY <1>0
  <2> QED BY <1>0, <2>1, <2>2
<1>4. ASSUME NEW m \in 2..d+1, m - 1 \in T PROVE m \in T
  <2> SUFFICES ASSUME NEW p \in D, rank[p] + m >= d + 1 PROVE h[m + 1][p] = h[m][p]
    OBVIOUS
  <2>1. h[m + 1] = G[h[m]] /\ h[m] = G[h[m - 1]] /\ h[m] \in S /\ h[m - 1] \in S
    <3>1. m + 1 \in 1..d+2 /\ m \in 1..d+2 /\ m \in 0..d+2 /\ m - 1 \in 0..d+2 /\ (m + 1) - 1 = m
      BY <1>0
    <3> QED BY <1>2, <3>1
  <2>2. ASSUME NEW q \in D, rank[q] > rank[p] PROVE h[m][q] = h[m - 1][q]
    <3>1. rank[q] + (m - 1) >= d + 1 /\ (m - 1) + 1 = m
      <4>1. rank[q] \in Nat /\ rank[p] \in Nat
        BY <1>0
      <4> QED BY <1>0, <2>2, <4>1
    <3> QED BY <1>4, <3>1
  <2> QED BY <1>0, <2>1, <2>2
<1>5. \A m \in 1..d+1 : m \in T
  <2> HIDE DEF T
  <2>1. \A m \in 1+1..d+1 : m - 1 \in T => m \in T
    BY <1>4
  <2> QED BY <1>0, <1>3, <2>1, Upwards
<1>6. h[d + 2] = h[d + 1]
  <2>1. d + 1 \in T /\ (d + 1) + 1 = d + 2
    BY <1>0, <1>5
  <2>2. \A p \in D : h[d + 2][p] = h[d + 1][p]
    BY <1>0, <2>1
  <2>3. h[d + 2] \in S /\ h[d + 1] \in S
    BY <1>0, <1>2
  <2> QED BY <2>2, <2>3
<1>7. h[d + 2] = G[h[d + 1]] /\ h[d + 1] \in S
  <2>1. d + 2 \in 1..d+2 /\ d + 1 \in 0..d+2 /\ (d + 2) - 1 = d + 1
    BY <1>0
  <2> QED BY <1>2, <2>1
<1> QED BY <1>6, <1>7

(* What holds at a place when it holds at its children holds at the root,  *)
(* if it holds where the tree has no node.                                 *)
LEMMA Downward ==
  ASSUME NEW S, NEW t \in Trees(S), NEW T, Place \ DOMAIN t \subseteq T,
         \A p \in DOMAIN t : (\A s \in Side : Child(p, s) \in T) => p \in T
  PROVE  Place \subseteq T
<1>1. PICK d \in Nat : Shallow(t, d)
  BY TreeFacts
<1> DEFINE U == { n \in Nat : \A p \in Place : Len(p) + n >= d => p \in T }
<1>2. 0 \in U
  <2> SUFFICES ASSUME NEW p \in Place, Len(p) >= d PROVE p \in T
    BY PlaceFacts
  <2>1. p \notin DOMAIN t
    BY <1>1, PlaceFacts DEF Shallow
  <2> QED BY <2>1
<1>3. ASSUME NEW n \in Nat, n \in U PROVE n + 1 \in U
  <2> SUFFICES ASSUME NEW p \in Place, Len(p) + (n + 1) >= d PROVE p \in T
    OBVIOUS
  <2>1. ASSUME NEW s \in Side PROVE Child(p, s) \in T
    <3>1. Child(p, s) \in Place /\ Len(Child(p, s)) = Len(p) + 1 /\ Len(p) \in Nat
      BY ChildFacts, PlaceFacts
    <3>2. Len(Child(p, s)) + n >= d
      BY <3>1
    <3> QED BY <1>3, <3>1, <3>2
  <2> QED BY <2>1
<1> HIDE DEF U
<1>4. Nat \subseteq U
  BY <1>2, <1>3, NatIsInductive
<1>5. ASSUME NEW p \in Place PROVE p \in T
  <2>1. Len(p) \in Nat /\ d \in U
    BY <1>4, PlaceFacts
  <2> QED BY <2>1 DEF U
<1> QED BY <1>5

(***************************************************************************)
(* Folds: the value at a node is F of its id and the values at its         *)
(* children, and b where there is no node.                                 *)
(***************************************************************************)
IsFold(f, t, V, b, F) ==
  /\ f \in [Place -> V]
  /\ \A p \in Place \ DOMAIN t : f[p] = b
  /\ \A p \in DOMAIN t : f[p] = F[<<t[p], f[Child(p, "l")], f[Child(p, "r")]>>]

Folds(S, V, b, F) == b \in V /\ F \in [S \X V \X V -> V]

Follows(g, t, V, b, F) ==
  /\ \A p \in Place \ DOMAIN t : g[p] = b
  /\ \A p \in DOMAIN t : g[Child(p, "l")] \in V /\ g[Child(p, "r")] \in V
                           => g[p] = F[<<t[p], g[Child(p, "l")], g[Child(p, "r")]>>]

FoldOf(t, V, b, F) == (CHOOSE f : IsFold(f, t, V, b, F))[<<>>]

LEMMA FoldExists ==
  ASSUME NEW S, NEW t \in Trees(S), NEW V, NEW b, NEW F, Folds(S, V, b, F)
  PROVE  IsFold(CHOOSE f : IsFold(f, t, V, b, F), t, V, b, F)
<1> DEFINE G == [f \in [Place -> V] |->
                   [p \in Place |-> IF p \in DOMAIN t
                                    THEN F[<<t[p], f[Child(p, "l")], f[Child(p, "r")]>>]
                                    ELSE b]]
           rank == [p \in Place |-> Len(p)]
           z == [p \in Place |-> b]
<1>0. b \in V /\ F \in [S \X V \X V -> V]
  BY DEF Folds
<1>1. t \in [DOMAIN t -> S] /\ DOMAIN t \subseteq Place
  BY TreeFacts
<1>2. \A p \in Place : /\ Child(p, "l") \in Place /\ Len(Child(p, "l")) = Len(p) + 1
                       /\ Child(p, "r") \in Place /\ Len(Child(p, "r")) = Len(p) + 1
                       /\ Len(p) \in Nat
  BY ChildFacts, PlaceFacts DEF Side
<1>3. G \in [[Place -> V] -> [Place -> V]]
  <2> SUFFICES ASSUME NEW f \in [Place -> V], NEW p \in DOMAIN t
               PROVE  F[<<t[p], f[Child(p, "l")], f[Child(p, "r")]>>] \in V
    BY <1>0
  <2>1. t[p] \in S /\ f[Child(p, "l")] \in V /\ f[Child(p, "r")] \in V
    BY <1>1, <1>2
  <2> QED BY <1>0, <2>1
<1>4. rank \in [Place -> Nat] /\ z \in [Place -> V]
  BY <1>0, <1>2
<1>5. PICK d \in Nat : Shallow(t, d)
  BY TreeFacts
<1>6. ASSUME NEW f \in [Place -> V], NEW g \in [Place -> V], NEW p \in Place,
             \A q \in Place : rank[q] > rank[p] => f[q] = g[q]
      PROVE  G[f][p] = G[g][p]
  <2>1. f[Child(p, "l")] = g[Child(p, "l")] /\ f[Child(p, "r")] = g[Child(p, "r")]
    <3>1. /\ Child(p, "l") \in Place /\ Child(p, "r") \in Place
          /\ rank[Child(p, "l")] > rank[p] /\ rank[Child(p, "r")] > rank[p]
      <4>1. rank[Child(p, "l")] = Len(Child(p, "l")) /\ rank[Child(p, "r")] = Len(Child(p, "r"))
        BY <1>2
      <4> HIDE DEF rank
      <4>2. rank[p] = Len(p)
        BY DEF rank
      <4> QED BY <1>2, <4>1, <4>2
    <3> QED BY <1>6, <3>1
  <2> QED BY <2>1
<1>7. ASSUME NEW f \in [Place -> V], NEW g \in [Place -> V], NEW p \in Place, rank[p] >= d
      PROVE  G[f][p] = G[g][p]
  <2>1. p \notin DOMAIN t
    BY <1>2, <1>5, <1>7 DEF Shallow
  <2> QED BY <2>1
<1>8. \A f \in [Place -> V] : \A p \in Place :
        G[f][p] = IF p \in DOMAIN t THEN F[<<t[p], f[Child(p, "l")], f[Child(p, "r")]>>] ELSE b
  OBVIOUS
<1> HIDE DEF G, rank, z
<1>9. PICK f \in [Place -> V] : f = G[f]
  <2>1. \A f, g \in [Place -> V] : \A p \in Place :
          (\A q \in Place : rank[q] > rank[p] => f[q] = g[q]) => G[f][p] = G[g][p]
    BY <1>6
  <2>2. \A f, g \in [Place -> V] : \A p \in Place : rank[p] >= d => G[f][p] = G[g][p]
    BY <1>7
  <2>3. ByRank(G, Place, V, rank, d)
    BY <1>3, <1>4, <2>1, <2>2 DEF ByRank
  <2> QED BY <1>4, <2>3, Recursive
<1>10. \A p \in Place :
         f[p] = IF p \in DOMAIN t THEN F[<<t[p], f[Child(p, "l")], f[Child(p, "r")]>>] ELSE b
  BY <1>8, <1>9
<1>11. IsFold(f, t, V, b, F)
  BY <1>1, <1>10 DEF IsFold
<1> QED BY <1>11

(* There is one fold only. *)
LEMMA FoldUnique ==
  ASSUME NEW S, NEW t \in Trees(S), NEW V, NEW b, NEW F, Folds(S, V, b, F), NEW g,
         Follows(g, t, V, b, F)
  PROVE  /\ \A f : IsFold(f, t, V, b, F) => \A p \in Place : g[p] = f[p]
         /\ g[<<>>] = FoldOf(t, V, b, F)
         /\ g[<<>>] \in V
<1>1. ASSUME NEW f, IsFold(f, t, V, b, F) PROVE \A p \in Place : g[p] = f[p]
  <2> DEFINE T == { p \in Place : g[p] = f[p] }
  <2>1. DOMAIN t \subseteq Place
    BY TreeFacts
  <2>2. Place \ DOMAIN t \subseteq T
    BY <1>1 DEF IsFold, Follows
  <2>3. ASSUME NEW p \in DOMAIN t, \A s \in Side : Child(p, s) \in T PROVE p \in T
    <3>1. Child(p, "l") \in T /\ Child(p, "r") \in T
      BY <2>3 DEF Side
    <3>2. /\ f[Child(p, "l")] \in V /\ f[Child(p, "r")] \in V
          /\ g[Child(p, "l")] = f[Child(p, "l")] /\ g[Child(p, "r")] = f[Child(p, "r")]
      BY <1>1, <3>1 DEF IsFold
    <3>3. g[p] = F[<<t[p], g[Child(p, "l")], g[Child(p, "r")]>>]
      BY <3>2 DEF Follows
    <3>4. f[p] = F[<<t[p], f[Child(p, "l")], f[Child(p, "r")]>>]
      BY <1>1 DEF IsFold
    <3> QED BY <2>1, <3>2, <3>3, <3>4
  <2> HIDE DEF T
  <2>4. Place \subseteq T
    BY <2>2, <2>3, Downward
  <2> QED BY <2>4 DEF T
<1>2. IsFold(CHOOSE f : IsFold(f, t, V, b, F), t, V, b, F)
  BY FoldExists
<1>3. g[<<>>] = FoldOf(t, V, b, F)
  BY <1>1, <1>2, Root DEF FoldOf
<1>4. FoldOf(t, V, b, F) \in V
  BY <1>2, Root DEF FoldOf, IsFold
<1> QED BY <1>1, <1>3, <1>4

LEMMA FoldParts ==
  ASSUME NEW S, NEW V, NEW b, NEW F, Folds(S, V, b, F)
  PROVE  /\ \A t \in Trees(S) : FoldOf(t, V, b, F) \in V
         /\ FoldOf(Null, V, b, F) = b
         /\ \A x \in S : \A l, r \in Trees(S) :
              FoldOf(Tree(x, l, r), V, b, F) = F[<<x, FoldOf(l, V, b, F), FoldOf(r, V, b, F)>>]
<1> DEFINE Fd(t) == CHOOSE f : IsFold(f, t, V, b, F)
<1>1. \A t \in Trees(S) : IsFold(Fd(t), t, V, b, F)
  BY FoldExists
<1>2. \A t : FoldOf(t, V, b, F) = Fd(t)[<<>>]
  BY DEF FoldOf
<1> HIDE DEF Fd
<1>3. \A t \in Trees(S) : FoldOf(t, V, b, F) \in V
  BY <1>1, <1>2, Root DEF IsFold
<1>4. FoldOf(Null, V, b, F) = b
  BY <1>1, <1>2, NoTree, Root DEF IsFold
<1>5. ASSUME NEW x \in S, NEW l \in Trees(S), NEW r \in Trees(S)
      PROVE  FoldOf(Tree(x, l, r), V, b, F) = F[<<x, FoldOf(l, V, b, F), FoldOf(r, V, b, F)>>]
  <2> DEFINE t == Tree(x, l, r)
             f == Fd(t)
  <2>1. /\ t \in Trees(S) /\ <<>> \in DOMAIN t /\ t[<<>>] = x
        /\ \A q \in Place : /\ At("l", q) \in DOMAIN t <=> q \in DOMAIN l
                            /\ At("r", q) \in DOMAIN t <=> q \in DOMAIN r
        /\ \A q \in DOMAIN l : t[At("l", q)] = l[q]
        /\ \A q \in DOMAIN r : t[At("r", q)] = r[q]
    BY TreeParts
  <2> HIDE DEF t
  <2>2. IsFold(f, t, V, b, F)
    BY <1>1, <2>1
  <2>3. f[<<>>] = F[<<x, f[Child(<<>>, "l")], f[Child(<<>>, "r")]>>]
    BY <2>1, <2>2 DEF IsFold
  <2>4. "l" \in Side /\ "r" \in Side
    BY DEF Side
  <2>5. ASSUME NEW s \in Side, NEW u \in Trees(S),
               \A q \in Place : At(s, q) \in DOMAIN t <=> q \in DOMAIN u,
               \A q \in DOMAIN u : t[At(s, q)] = u[q]
        PROVE  f[Child(<<>>, s)] = FoldOf(u, V, b, F)
    <3> DEFINE g == [q \in Place |-> f[At(s, q)]]
    <3>1. \A q \in Place : /\ At(s, q) \in Place /\ g[q] = f[At(s, q)]
                           /\ Child(q, "l") \in Place /\ Child(q, "r") \in Place
                           /\ g[Child(q, "l")] = f[Child(At(s, q), "l")]
                           /\ g[Child(q, "r")] = f[Child(At(s, q), "r")]
      <4>1. ASSUME NEW q \in Place
            PROVE  /\ At(s, q) \in Place /\ Child(q, "l") \in Place /\ Child(q, "r") \in Place
                   /\ Child(At(s, q), "l") = At(s, Child(q, "l"))
                   /\ Child(At(s, q), "r") = At(s, Child(q, "r"))
        BY <2>4, AtFacts, ChildFacts
      <4> HIDE DEF f
      <4> QED BY <4>1
    <3> HIDE DEF g, f
    <3>2. DOMAIN u \subseteq Place
      BY TreeFacts
    <3>3. ASSUME NEW q \in Place \ DOMAIN u PROVE g[q] = b
      BY <2>2, <2>5, <3>1, <3>3 DEF IsFold
    <3>4. ASSUME NEW q \in DOMAIN u PROVE g[q] = F[<<u[q], g[Child(q, "l")], g[Child(q, "r")]>>]
      <4>1. q \in Place /\ At(s, q) \in DOMAIN t
        BY <2>5, <3>2
      <4>2. f[At(s, q)] = F[<<t[At(s, q)], f[Child(At(s, q), "l")], f[Child(At(s, q), "r")]>>]
        BY <2>2, <4>1 DEF IsFold
      <4> QED BY <2>5, <3>1, <4>1, <4>2
    <3>5. g[<<>>] = FoldOf(u, V, b, F)
      <4>1. Follows(g, u, V, b, F)
        BY <3>3, <3>4 DEF Follows
      <4> QED BY <4>1, FoldUnique
    <3> QED BY <3>1, <3>5, Root
  <2>6. f[Child(<<>>, "l")] = FoldOf(l, V, b, F)
    BY <2>1, <2>4, <2>5
  <2>7. f[Child(<<>>, "r")] = FoldOf(r, V, b, F)
    BY <2>1, <2>4, <2>5
  <2>8. FoldOf(t, V, b, F) = f[<<>>]
    BY <1>2
  <2> QED BY <2>3, <2>6, <2>7, <2>8 DEF t
<1> QED BY <1>3, <1>4, <1>5

(* What the traversals, counts and the rotation do with a node. *)
LEMMA InorderParts ==
  ASSUME NEW S
  PROVE  /\ \A t \in Trees(S) : inorder(t) \in Seq(S)
         /\ inorder(Null) = <<>>
         /\ \A x \in S : \A l, r \in Trees(S) :
              inorder(Tree(x, l, r)) = inorder(l) \o <<x>> \o inorder(r)
<1> DEFINE V == Seq(S)
           F == [a \in S \X V \X V |-> a[2] \o <<a[1]>> \o a[3]]
<1>1. Folds(S, V, <<>>, F)
  BY DEF Folds
<1>2. ASSUME NEW t \in Trees(S) PROVE inorder(t) = FoldOf(t, V, <<>>, F)
  <2> DEFINE Body(g) == [p \in Place |-> IF p \notin DOMAIN t THEN <<>>
                                         ELSE g[Child(p, "l")] \o <<t[p]>> \o g[Child(p, "r")]]
             f == CHOOSE h : IsFold(h, t, V, <<>>, F)
  <2>1. t \in [DOMAIN t -> S] /\ DOMAIN t \subseteq Place
        /\ \A p \in Place : Child(p, "l") \in Place /\ Child(p, "r") \in Place
    BY TreeFacts, ChildFacts DEF Side
  <2>2. IsFold(f, t, V, <<>>, F)
    <3> HIDE DEF V, F
    <3> QED BY <1>1, FoldExists
  <2>3. f = Body(f)
    <3> HIDE DEF f, V
    <3>1. f \in [Place -> V] /\ \A p \in DOMAIN t : t[p] \in S
      BY <2>1, <2>2 DEF IsFold
    <3>2. \A p \in DOMAIN t : f[p] = Body(f)[p]
      BY <2>1, <2>2, <3>1 DEF IsFold
    <3>3. \A p \in Place \ DOMAIN t : f[p] = Body(f)[p]
      BY <2>2 DEF IsFold
    <3> QED BY <3>1, <3>2, <3>3
  <2>4. inorder(t) = (CHOOSE g : g = Body(g))[<<>>]
    BY DEF inorder
  <2> HIDE DEF f, V
  <2>5. PICK g : g = Body(g) /\ inorder(t) = g[<<>>]
    <3> HIDE DEF Body
    <3> QED BY <2>3, <2>4
  <2>6. Follows(g, t, V, <<>>, F)
    <3>1. \A p \in Place : g[p] = Body(g)[p]
      BY <2>5
    <3> QED BY <2>1, <3>1 DEF Follows
  <2>7. g[<<>>] = FoldOf(t, V, <<>>, F)
    <3> DEFINE b == <<>>
    <3>1. Folds(S, V, b, F) /\ Follows(g, t, V, b, F)
      BY <1>1, <2>6
    <3> HIDE DEF F, b
    <3>2. g[<<>>] = FoldOf(t, V, b, F)
      BY <3>1, FoldUnique
    <3> QED BY <3>2 DEF b
  <2> QED BY <2>5, <2>7
<1>3. /\ \A t \in Trees(S) : FoldOf(t, V, <<>>, F) \in V
      /\ FoldOf(Null, V, <<>>, F) = <<>>
      /\ \A x \in S : \A l, r \in Trees(S) :
           FoldOf(Tree(x, l, r), V, <<>>, F)
             = F[<<x, FoldOf(l, V, <<>>, F), FoldOf(r, V, <<>>, F)>>]
  <2> HIDE DEF V, F
  <2> QED BY <1>1, FoldParts
<1>4. Null \in Trees(S)
  BY NoTree
<1>5. ASSUME NEW x \in S, NEW l \in Trees(S), NEW r \in Trees(S)
      PROVE  inorder(Tree(x, l, r)) = inorder(l) \o <<x>> \o inorder(r)
  <2>1. Tree(x, l, r) \in Trees(S)
    BY TreeParts
  <2>2. inorder(Tree(x, l, r)) = F[<<x, inorder(l), inorder(r)>>]
    <3> HIDE DEF V, F
    <3> QED BY <1>2, <1>3, <2>1
  <2>3. inorder(l) \in V /\ inorder(r) \in V
    <3> HIDE DEF V, F
    <3> QED BY <1>2, <1>3
  <2> QED BY <2>2, <2>3
<1> HIDE DEF F
<1> QED BY <1>2, <1>3, <1>4, <1>5

LEMMA PreorderParts ==
  ASSUME NEW S
  PROVE  /\ \A t \in Trees(S) : preorder(t) \in Seq(S)
         /\ preorder(Null) = <<>>
         /\ \A x \in S : \A l, r \in Trees(S) :
              preorder(Tree(x, l, r)) = <<x>> \o preorder(l) \o preorder(r)
<1> DEFINE V == Seq(S)
           F == [a \in S \X V \X V |-> <<a[1]>> \o a[2] \o a[3]]
<1>1. Folds(S, V, <<>>, F)
  BY DEF Folds
<1>2. ASSUME NEW t \in Trees(S) PROVE preorder(t) = FoldOf(t, V, <<>>, F)
  <2> DEFINE Body(g) == [p \in Place |-> IF p \notin DOMAIN t THEN <<>>
                                         ELSE <<t[p]>> \o g[Child(p, "l")] \o g[Child(p, "r")]]
             f == CHOOSE h : IsFold(h, t, V, <<>>, F)
  <2>1. t \in [DOMAIN t -> S] /\ DOMAIN t \subseteq Place
        /\ \A p \in Place : Child(p, "l") \in Place /\ Child(p, "r") \in Place
    BY TreeFacts, ChildFacts DEF Side
  <2>2. IsFold(f, t, V, <<>>, F)
    <3> HIDE DEF V, F
    <3> QED BY <1>1, FoldExists
  <2>3. f = Body(f)
    <3> HIDE DEF f, V
    <3>1. f \in [Place -> V] /\ \A p \in DOMAIN t : t[p] \in S
      BY <2>1, <2>2 DEF IsFold
    <3>2. \A p \in DOMAIN t : f[p] = Body(f)[p]
      BY <2>1, <2>2, <3>1 DEF IsFold
    <3>3. \A p \in Place \ DOMAIN t : f[p] = Body(f)[p]
      BY <2>2 DEF IsFold
    <3> QED BY <3>1, <3>2, <3>3
  <2>4. preorder(t) = (CHOOSE g : g = Body(g))[<<>>]
    BY DEF preorder
  <2> HIDE DEF f, V
  <2>5. PICK g : g = Body(g) /\ preorder(t) = g[<<>>]
    <3> HIDE DEF Body
    <3> QED BY <2>3, <2>4
  <2>6. Follows(g, t, V, <<>>, F)
    <3>1. \A p \in Place : g[p] = Body(g)[p]
      BY <2>5
    <3> QED BY <2>1, <3>1 DEF Follows
  <2>7. g[<<>>] = FoldOf(t, V, <<>>, F)
    <3> DEFINE b == <<>>
    <3>1. Folds(S, V, b, F) /\ Follows(g, t, V, b, F)
      BY <1>1, <2>6
    <3> HIDE DEF F, b
    <3>2. g[<<>>] = FoldOf(t, V, b, F)
      BY <3>1, FoldUnique
    <3> QED BY <3>2 DEF b
  <2> QED BY <2>5, <2>7
<1>3. /\ \A t \in Trees(S) : FoldOf(t, V, <<>>, F) \in V
      /\ FoldOf(Null, V, <<>>, F) = <<>>
      /\ \A x \in S : \A l, r \in Trees(S) :
           FoldOf(Tree(x, l, r), V, <<>>, F)
             = F[<<x, FoldOf(l, V, <<>>, F), FoldOf(r, V, <<>>, F)>>]
  <2> HIDE DEF V, F
  <2> QED BY <1>1, FoldParts
<1>4. Null \in Trees(S)
  BY NoTree
<1>5. ASSUME NEW x \in S, NEW l \in Trees(S), NEW r \in Trees(S)
      PROVE  preorder(Tree(x, l, r)) = <<x>> \o preorder(l) \o preorder(r)
  <2>1. Tree(x, l, r) \in Trees(S)
    BY TreeParts
  <2>2. preorder(Tree(x, l, r)) = F[<<x, preorder(l), preorder(r)>>]
    <3> HIDE DEF V, F
    <3> QED BY <1>2, <1>3, <2>1
  <2>3. preorder(l) \in V /\ preorder(r) \in V
    <3> HIDE DEF V, F
    <3> QED BY <1>2, <1>3
  <2> QED BY <2>2, <2>3
<1> HIDE DEF F
<1> QED BY <1>2, <1>3, <1>4, <1>5

LEMMA PostorderParts ==
  ASSUME NEW S
  PROVE  /\ \A t \in Trees(S) : postorder(t) \in Seq(S)
         /\ postorder(Null) = <<>>
         /\ \A x \in S : \A l, r \in Trees(S) :
              postorder(Tree(x, l, r)) = postorder(l) \o postorder(r) \o <<x>>
<1> DEFINE V == Seq(S)
           F == [a \in S \X V \X V |-> a[2] \o a[3] \o <<a[1]>>]
<1>1. Folds(S, V, <<>>, F)
  BY DEF Folds
<1>2. ASSUME NEW t \in Trees(S) PROVE postorder(t) = FoldOf(t, V, <<>>, F)
  <2> DEFINE Body(g) == [p \in Place |-> IF p \notin DOMAIN t THEN <<>>
                                         ELSE g[Child(p, "l")] \o g[Child(p, "r")] \o <<t[p]>>]
             f == CHOOSE h : IsFold(h, t, V, <<>>, F)
  <2>1. t \in [DOMAIN t -> S] /\ DOMAIN t \subseteq Place
        /\ \A p \in Place : Child(p, "l") \in Place /\ Child(p, "r") \in Place
    BY TreeFacts, ChildFacts DEF Side
  <2>2. IsFold(f, t, V, <<>>, F)
    <3> HIDE DEF V, F
    <3> QED BY <1>1, FoldExists
  <2>3. f = Body(f)
    <3> HIDE DEF f, V
    <3>1. f \in [Place -> V] /\ \A p \in DOMAIN t : t[p] \in S
      BY <2>1, <2>2 DEF IsFold
    <3>2. \A p \in DOMAIN t : f[p] = Body(f)[p]
      BY <2>1, <2>2, <3>1 DEF IsFold
    <3>3. \A p \in Place \ DOMAIN t : f[p] = Body(f)[p]
      BY <2>2 DEF IsFold
    <3> QED BY <3>1, <3>2, <3>3
  <2>4. postorder(t) = (CHOOSE g : g = Body(g))[<<>>]
    BY DEF postorder
  <2> HIDE DEF f, V
  <2>5. PICK g : g = Body(g) /\ postorder(t) = g[<<>>]
    <3> HIDE DEF Body
    <3> QED BY <2>3, <2>4
  <2>6. Follows(g, t, V, <<>>, F)
    <3>1. \A p \in Place : g[p] = Body(g)[p]
      BY <2>5
    <3> QED BY <2>1, <3>1 DEF Follows
  <2>7. g[<<>>] = FoldOf(t, V, <<>>, F)
    <3> DEFINE b == <<>>
    <3>1. Folds(S, V, b, F) /\ Follows(g, t, V, b, F)
      BY <1>1, <2>6
    <3> HIDE DEF F, b
    <3>2. g[<<>>] = FoldOf(t, V, b, F)
      BY <3>1, FoldUnique
    <3> QED BY <3>2 DEF b
  <2> QED BY <2>5, <2>7
<1>3. /\ \A t \in Trees(S) : FoldOf(t, V, <<>>, F) \in V
      /\ FoldOf(Null, V, <<>>, F) = <<>>
      /\ \A x \in S : \A l, r \in Trees(S) :
           FoldOf(Tree(x, l, r), V, <<>>, F)
             = F[<<x, FoldOf(l, V, <<>>, F), FoldOf(r, V, <<>>, F)>>]
  <2> HIDE DEF V, F
  <2> QED BY <1>1, FoldParts
<1>4. Null \in Trees(S)
  BY NoTree
<1>5. ASSUME NEW x \in S, NEW l \in Trees(S), NEW r \in Trees(S)
      PROVE  postorder(Tree(x, l, r)) = postorder(l) \o postorder(r) \o <<x>>
  <2>1. Tree(x, l, r) \in Trees(S)
    BY TreeParts
  <2>2. postorder(Tree(x, l, r)) = F[<<x, postorder(l), postorder(r)>>]
    <3> HIDE DEF V, F
    <3> QED BY <1>2, <1>3, <2>1
  <2>3. postorder(l) \in V /\ postorder(r) \in V
    <3> HIDE DEF V, F
    <3> QED BY <1>2, <1>3
  <2> QED BY <2>2, <2>3
<1> HIDE DEF F
<1> QED BY <1>2, <1>3, <1>4, <1>5

LEMMA CountNodesParts ==
  ASSUME NEW S
  PROVE  /\ \A t \in Trees(S) : countNodes(t) \in Nat
         /\ countNodes(Null) = 0
         /\ \A x \in S : \A l, r \in Trees(S) :
              countNodes(Tree(x, l, r)) = 1 + countNodes(l) + countNodes(r)
<1> DEFINE V == Nat
           F == [a \in S \X V \X V |-> 1 + a[2] + a[3]]
<1>1. Folds(S, V, 0, F)
  BY DEF Folds
<1>2. ASSUME NEW t \in Trees(S) PROVE countNodes(t) = FoldOf(t, V, 0, F)
  <2> DEFINE Body(g) == [p \in Place |-> IF p \notin DOMAIN t THEN 0
                                         ELSE 1 + g[Child(p, "l")] + g[Child(p, "r")]]
             f == CHOOSE h : IsFold(h, t, V, 0, F)
  <2>1. t \in [DOMAIN t -> S] /\ DOMAIN t \subseteq Place
        /\ \A p \in Place : Child(p, "l") \in Place /\ Child(p, "r") \in Place
    BY TreeFacts, ChildFacts DEF Side
  <2>2. IsFold(f, t, V, 0, F)
    <3> HIDE DEF V, F
    <3> QED BY <1>1, FoldExists
  <2>3. f = Body(f)
    <3> HIDE DEF f, V
    <3>1. f \in [Place -> V] /\ \A p \in DOMAIN t : t[p] \in S
      BY <2>1, <2>2 DEF IsFold
    <3>2. \A p \in DOMAIN t : f[p] = Body(f)[p]
      BY <2>1, <2>2, <3>1 DEF IsFold
    <3>3. \A p \in Place \ DOMAIN t : f[p] = Body(f)[p]
      BY <2>2 DEF IsFold
    <3> QED BY <3>1, <3>2, <3>3
  <2>4. countNodes(t) = (CHOOSE g : g = Body(g))[<<>>]
    BY DEF countNodes
  <2> HIDE DEF f, V
  <2>5. PICK g : g = Body(g) /\ countNodes(t) = g[<<>>]
    <3> HIDE DEF Body
    <3> QED BY <2>3, <2>4
  <2>6. Follows(g, t, V, 0, F)
    <3>1. \A p \in Place : g[p] = Body(g)[p]
      BY <2>5
    <3> QED BY <2>1, <3>1 DEF Follows
  <2>7. g[<<>>] = FoldOf(t, V, 0, F)
    <3> DEFINE b == 0
    <3>1. Folds(S, V, b, F) /\ Follows(g, t, V, b, F)
      BY <1>1, <2>6
    <3> HIDE DEF F, b
    <3>2. g[<<>>] = FoldOf(t, V, b, F)
      BY <3>1, FoldUnique
    <3> QED BY <3>2 DEF b
  <2> QED BY <2>5, <2>7
<1>3. /\ \A t \in Trees(S) : FoldOf(t, V, 0, F) \in V
      /\ FoldOf(Null, V, 0, F) = 0
      /\ \A x \in S : \A l, r \in Trees(S) :
           FoldOf(Tree(x, l, r), V, 0, F)
             = F[<<x, FoldOf(l, V, 0, F), FoldOf(r, V, 0, F)>>]
  <2> HIDE DEF V, F
  <2> QED BY <1>1, FoldParts
<1>4. Null \in Trees(S)
  BY NoTree
<1>5. ASSUME NEW x \in S, NEW l \in Trees(S), NEW r \in Trees(S)
      PROVE  countNodes(Tree(x, l, r)) = 1 + countNodes(l) + countNodes(r)
  <2>1. Tree(x, l, r) \in Trees(S)
    BY TreeParts
  <2>2. countNodes(Tree(x, l, r)) = F[<<x, countNodes(l), countNodes(r)>>]
    <3> HIDE DEF V, F
    <3> QED BY <1>2, <1>3, <2>1
  <2>3. countNodes(l) \in V /\ countNodes(r) \in V
    <3> HIDE DEF V, F
    <3> QED BY <1>2, <1>3
  <2> QED BY <2>2, <2>3
<1> HIDE DEF F
<1> QED BY <1>2, <1>3, <1>4, <1>5

LEMMA CountLevelsParts ==
  ASSUME NEW S
  PROVE  /\ \A t \in Trees(S) : countLevels(t) \in Nat
         /\ countLevels(Null) = 0
         /\ \A x \in S : \A l, r \in Trees(S) :
              countLevels(Tree(x, l, r)) = 1 + (IF countLevels(l) > countLevels(r) THEN countLevels(l) ELSE countLevels(r))
<1> DEFINE V == Nat
           F == [a \in S \X V \X V |-> 1 + (IF a[2] > a[3] THEN a[2] ELSE a[3])]
<1>1. Folds(S, V, 0, F)
  BY DEF Folds
<1>2. ASSUME NEW t \in Trees(S) PROVE countLevels(t) = FoldOf(t, V, 0, F)
  <2> DEFINE Body(g) == [p \in Place |-> IF p \notin DOMAIN t THEN 0
                                         ELSE LET lv == g[Child(p, "l")]  rv == g[Child(p, "r")] IN 1 + (IF lv > rv THEN lv ELSE rv)]
             f == CHOOSE h : IsFold(h, t, V, 0, F)
  <2>1. t \in [DOMAIN t -> S] /\ DOMAIN t \subseteq Place
        /\ \A p \in Place : Child(p, "l") \in Place /\ Child(p, "r") \in Place
    BY TreeFacts, ChildFacts DEF Side
  <2>2. IsFold(f, t, V, 0, F)
    <3> HIDE DEF V, F
    <3> QED BY <1>1, FoldExists
  <2>3. f = Body(f)
    <3> HIDE DEF f, V
    <3>1. f \in [Place -> V] /\ \A p \in DOMAIN t : t[p] \in S
      BY <2>1, <2>2 DEF IsFold
    <3>2. \A p \in DOMAIN t : f[p] = Body(f)[p]
      BY <2>1, <2>2, <3>1 DEF IsFold
    <3>3. \A p \in Place \ DOMAIN t : f[p] = Body(f)[p]
      BY <2>2 DEF IsFold
    <3> QED BY <3>1, <3>2, <3>3
  <2>4. countLevels(t) = (CHOOSE g : g = Body(g))[<<>>]
    BY DEF countLevels
  <2> HIDE DEF f, V
  <2>5. PICK g : g = Body(g) /\ countLevels(t) = g[<<>>]
    <3> HIDE DEF Body
    <3> QED BY <2>3, <2>4
  <2>6. Follows(g, t, V, 0, F)
    <3>1. \A p \in Place : g[p] = Body(g)[p]
      BY <2>5
    <3> QED BY <2>1, <3>1 DEF Follows
  <2>7. g[<<>>] = FoldOf(t, V, 0, F)
    <3> DEFINE b == 0
    <3>1. Folds(S, V, b, F) /\ Follows(g, t, V, b, F)
      BY <1>1, <2>6
    <3> HIDE DEF F, b
    <3>2. g[<<>>] = FoldOf(t, V, b, F)
      BY <3>1, FoldUnique
    <3> QED BY <3>2 DEF b
  <2> QED BY <2>5, <2>7
<1>3. /\ \A t \in Trees(S) : FoldOf(t, V, 0, F) \in V
      /\ FoldOf(Null, V, 0, F) = 0
      /\ \A x \in S : \A l, r \in Trees(S) :
           FoldOf(Tree(x, l, r), V, 0, F)
             = F[<<x, FoldOf(l, V, 0, F), FoldOf(r, V, 0, F)>>]
  <2> HIDE DEF V, F
  <2> QED BY <1>1, FoldParts
<1>4. Null \in Trees(S)
  BY NoTree
<1>5. ASSUME NEW x \in S, NEW l \in Trees(S), NEW r \in Trees(S)
      PROVE  countLevels(Tree(x, l, r)) = 1 + (IF countLevels(l) > countLevels(r) THEN countLevels(l) ELSE countLevels(r))
  <2>1. Tree(x, l, r) \in Trees(S)
    BY TreeParts
  <2>2. countLevels(Tree(x, l, r)) = F[<<x, countLevels(l), countLevels(r)>>]
    <3> HIDE DEF V, F
    <3> QED BY <1>2, <1>3, <2>1
  <2>3. countLevels(l) \in V /\ countLevels(r) \in V
    <3> HIDE DEF V, F
    <3> QED BY <1>2, <1>3
  <2> QED BY <2>2, <2>3
<1> HIDE DEF F
<1> QED BY <1>2, <1>3, <1>4, <1>5

LEMMA RotateParts ==
  ASSUME NEW S
  PROVE  /\ \A t \in Trees(S) : rotate(t) \in Trees(S)
         /\ rotate(Null) = Null
         /\ \A x \in S : \A l, r \in Trees(S) :
              rotate(Tree(x, l, r)) = Tree(x, rotate(r), rotate(l))
<1> DEFINE V == Trees(S)
           F == [a \in S \X V \X V |-> Tree(a[1], a[3], a[2])]
<1>1. Folds(S, V, Null, F)
  BY NoTree, TreeParts DEF Folds
<1>2. ASSUME NEW t \in Trees(S) PROVE rotate(t) = FoldOf(t, V, Null, F)
  <2> DEFINE Body(g) == [p \in Place |-> IF p \notin DOMAIN t THEN Null
                                         ELSE Tree(t[p], g[Child(p, "r")], g[Child(p, "l")])]
             f == CHOOSE h : IsFold(h, t, V, Null, F)
  <2>1. t \in [DOMAIN t -> S] /\ DOMAIN t \subseteq Place
        /\ \A p \in Place : Child(p, "l") \in Place /\ Child(p, "r") \in Place
    BY TreeFacts, ChildFacts DEF Side
  <2>2. IsFold(f, t, V, Null, F)
    <3> HIDE DEF V, F
    <3> QED BY <1>1, FoldExists
  <2>3. f = Body(f)
    <3> HIDE DEF f, V
    <3>1. f \in [Place -> V] /\ \A p \in DOMAIN t : t[p] \in S
      BY <2>1, <2>2 DEF IsFold
    <3>2. \A p \in DOMAIN t : f[p] = Body(f)[p]
      BY <2>1, <2>2, <3>1 DEF IsFold
    <3>3. \A p \in Place \ DOMAIN t : f[p] = Body(f)[p]
      BY <2>2 DEF IsFold
    <3> QED BY <3>1, <3>2, <3>3
  <2>4. rotate(t) = (CHOOSE g : g = Body(g))[<<>>]
    BY DEF rotate
  <2> HIDE DEF f, V
  <2>5. PICK g : g = Body(g) /\ rotate(t) = g[<<>>]
    <3> HIDE DEF Body
    <3> QED BY <2>3, <2>4
  <2>6. Follows(g, t, V, Null, F)
    <3>1. \A p \in Place : g[p] = Body(g)[p]
      BY <2>5
    <3> QED BY <2>1, <3>1 DEF Follows
  <2>7. g[<<>>] = FoldOf(t, V, Null, F)
    <3> DEFINE b == Null
    <3>1. Folds(S, V, b, F) /\ Follows(g, t, V, b, F)
      BY <1>1, <2>6
    <3> HIDE DEF F, b
    <3>2. g[<<>>] = FoldOf(t, V, b, F)
      BY <3>1, FoldUnique
    <3> QED BY <3>2 DEF b
  <2> QED BY <2>5, <2>7
<1>3. /\ \A t \in Trees(S) : FoldOf(t, V, Null, F) \in V
      /\ FoldOf(Null, V, Null, F) = Null
      /\ \A x \in S : \A l, r \in Trees(S) :
           FoldOf(Tree(x, l, r), V, Null, F)
             = F[<<x, FoldOf(l, V, Null, F), FoldOf(r, V, Null, F)>>]
  <2> HIDE DEF V, F
  <2> QED BY <1>1, FoldParts
<1>4. Null \in Trees(S)
  BY NoTree
<1>5. ASSUME NEW x \in S, NEW l \in Trees(S), NEW r \in Trees(S)
      PROVE  rotate(Tree(x, l, r)) = Tree(x, rotate(r), rotate(l))
  <2>1. Tree(x, l, r) \in Trees(S)
    BY TreeParts
  <2>2. rotate(Tree(x, l, r)) = F[<<x, rotate(l), rotate(r)>>]
    <3> HIDE DEF V, F
    <3> QED BY <1>2, <1>3, <2>1
  <2>3. rotate(l) \in V /\ rotate(r) \in V
    <3> HIDE DEF V, F
    <3> QED BY <1>2, <1>3
  <2> QED BY <2>2, <2>3
<1> HIDE DEF F
<1> QED BY <1>2, <1>3, <1>4, <1>5

(***************************************************************************)
(* The rotation turns every order around.                                  *)
(***************************************************************************)
LEMMA ReverseFacts ==
  ASSUME NEW S
  PROVE  /\ Reverse(<<>>) = <<>>
         /\ \A x \in S : Reverse(<<x>>) = <<x>>
         /\ \A a \in Seq(S) : Reverse(a) \in Seq(S)
         /\ \A a, b \in Seq(S) : Reverse(a \o b) = Reverse(b) \o Reverse(a)
<1>1. Reverse(<<>>) = <<>>
  BY DEF Reverse
<1>2. ASSUME NEW x \in S PROVE Reverse(<<x>>) = <<x>>
  <2>1. Reverse(<<x>>) = [i \in 1..1 |-> <<x>>[(1 - i) + 1]]
    BY DEF Reverse
  <2>2. \A i \in 1..1 : <<x>>[(1 - i) + 1] = x
    OBVIOUS
  <2>3. Reverse(<<x>>) = [i \in 1..1 |-> x]
    BY <2>1, <2>2
  <2> QED BY <2>3
<1>3. ASSUME NEW a \in Seq(S)
      PROVE  /\ Reverse(a) \in Seq(S) /\ Len(Reverse(a)) = Len(a) /\ Len(a) \in Nat
             /\ \A i \in 1..Len(a) : Reverse(a)[i] = a[(Len(a) - i) + 1]
  <2>1. Len(a) \in Nat /\ \A i \in 1..Len(a) : a[i] \in S
    BY LenProperties, ElementOfSeq
  <2>2. \A i \in 1..Len(a) : (Len(a) - i) + 1 \in 1..Len(a)
    BY <2>1
  <2>3. Reverse(a) \in [1..Len(a) -> S]
    BY <2>1, <2>2 DEF Reverse
  <2>4. Reverse(a) \in Seq(S) /\ Len(Reverse(a)) = Len(a)
    BY <2>1, <2>3
  <2> QED BY <2>1, <2>4 DEF Reverse
<1>4. ASSUME NEW a \in Seq(S), NEW b \in Seq(S)
      PROVE  Reverse(a \o b) = Reverse(b) \o Reverse(a)
  <2> DEFINE c == a \o b
             d == Reverse(b) \o Reverse(a)
  <2>1. /\ c \in Seq(S) /\ Len(c) = Len(a) + Len(b) /\ Len(a) \in Nat /\ Len(b) \in Nat
        /\ \A i \in 1..Len(a)+Len(b) : c[i] = IF i <= Len(a) THEN a[i] ELSE b[i - Len(a)]
    BY ConcatProperties, LenProperties
  <2>2. /\ d \in Seq(S) /\ Len(d) = Len(b) + Len(a)
        /\ \A i \in 1..Len(b)+Len(a) : d[i] = IF i <= Len(b) THEN Reverse(b)[i]
                                                            ELSE Reverse(a)[i - Len(b)]
    <3>1. /\ Reverse(a) \in Seq(S) /\ Len(Reverse(a)) = Len(a)
          /\ Reverse(b) \in Seq(S) /\ Len(Reverse(b)) = Len(b)
      BY <1>3
    <3> DEFINE ra == Reverse(a)
               rb == Reverse(b)
    <3> HIDE DEF ra, rb
    <3>2. /\ rb \o ra \in Seq(S) /\ Len(rb \o ra) = Len(rb) + Len(ra)
          /\ \A i \in 1..Len(rb)+Len(ra) : (rb \o ra)[i] = IF i <= Len(rb) THEN rb[i]
                                                           ELSE ra[i - Len(rb)]
      <4>1. ra \in Seq(S) /\ rb \in Seq(S)
        BY <3>1 DEF ra, rb
      <4> QED BY <4>1, ConcatProperties
    <3> QED BY <3>1, <3>2 DEF ra, rb
  <2> HIDE DEF c, d
  <2>3. /\ Reverse(c) \in Seq(S) /\ Len(Reverse(c)) = Len(c)
        /\ \A i \in 1..Len(c) : Reverse(c)[i] = c[(Len(c) - i) + 1]
    BY <1>3, <2>1
  <2>4. ASSUME NEW i \in 1..Len(a)+Len(b) PROVE Reverse(c)[i] = d[i]
    <3>1. Reverse(c)[i] = c[(Len(a) + Len(b) - i) + 1]
      BY <2>1, <2>3
    <3>2. CASE i <= Len(b)
      <4>1. i \in 1..Len(b) /\ (Len(a) + Len(b) - i) + 1 \in 1..Len(a)+Len(b)
            /\ ~((Len(a) + Len(b) - i) + 1 <= Len(a))
            /\ ((Len(a) + Len(b) - i) + 1) - Len(a) = (Len(b) - i) + 1
        BY <2>1, <3>2
      <4>2. c[(Len(a) + Len(b) - i) + 1] = b[(Len(b) - i) + 1]
        BY <2>1, <4>1
      <4>3. Reverse(b)[i] = b[(Len(b) - i) + 1]
        BY <1>3, <4>1
      <4>4. d[i] = b[(Len(b) - i) + 1]
        BY <2>1, <2>2, <3>2, <4>3
      <4> QED BY <3>1, <4>2, <4>4
    <3>3. CASE ~(i <= Len(b))
      <4>1. i - Len(b) \in 1..Len(a) /\ (Len(a) + Len(b) - i) + 1 \in 1..Len(a)
            /\ (Len(a) + Len(b) - i) + 1 \in 1..Len(a)+Len(b)
            /\ (Len(a) - (i - Len(b))) + 1 = (Len(a) + Len(b) - i) + 1
        BY <2>1, <3>3
      <4>2. c[(Len(a) + Len(b) - i) + 1] = a[(Len(a) + Len(b) - i) + 1]
        BY <2>1, <4>1
      <4>3. d[i] = Reverse(a)[i - Len(b)]
        BY <2>1, <2>2, <3>3
      <4>4. Reverse(a)[i - Len(b)] = a[(Len(a) - (i - Len(b))) + 1]
        BY <1>3, <4>1
      <4> QED BY <3>1, <4>1, <4>2, <4>3, <4>4
    <3> QED BY <3>2, <3>3
  <2>5. Reverse(c) = d
    <3>1. Len(Reverse(c)) = Len(d) /\ \A i \in 1..Len(d) : Reverse(c)[i] = d[i]
      BY <2>1, <2>2, <2>3, <2>4
    <3> QED BY <2>2, <2>3, <3>1, SeqEqual
  <2> QED BY <2>5 DEF c, d
<1> QED BY <1>1, <1>2, <1>3, <1>4

Turned(t) ==
  /\ inorder(rotate(t)) = Reverse(inorder(t))
  /\ preorder(rotate(t)) = Reverse(postorder(t))
  /\ countNodes(rotate(t)) = countNodes(t)
  /\ countLevels(rotate(t)) = countLevels(t)
  /\ rotate(rotate(t)) = t

LEMMA AllTurned ==
  ASSUME NEW S, NEW t \in Trees(S)
  PROVE  Turned(t)
<1> DEFINE X == { u \in Trees(S) : Turned(u) }
<1>1. /\ \A u \in Trees(S) : inorder(u) \in Seq(S)
      /\ \A u \in Trees(S) : postorder(u) \in Seq(S)
      /\ \A u \in Trees(S) : countNodes(u) \in Nat
      /\ \A u \in Trees(S) : countLevels(u) \in Nat
      /\ \A u \in Trees(S) : rotate(u) \in Trees(S)
  BY InorderParts, PostorderParts, CountNodesParts, CountLevelsParts, RotateParts
<1>0. \A y \in S : \A a, b \in Trees(S) :
        /\ inorder(Tree(y, a, b)) = (inorder(a) \o <<y>>) \o inorder(b)
        /\ preorder(Tree(y, a, b)) = (<<y>> \o preorder(a)) \o preorder(b)
        /\ postorder(Tree(y, a, b)) = (postorder(a) \o postorder(b)) \o <<y>>
  <2>1. \A y \in S : \A a, b \in Trees(S) :
          inorder(Tree(y, a, b)) = (inorder(a) \o <<y>>) \o inorder(b)
    BY InorderParts
  <2>2. \A y \in S : \A a, b \in Trees(S) :
          preorder(Tree(y, a, b)) = (<<y>> \o preorder(a)) \o preorder(b)
    BY PreorderParts
  <2>3. \A y \in S : \A a, b \in Trees(S) :
          postorder(Tree(y, a, b)) = (postorder(a) \o postorder(b)) \o <<y>>
    BY PostorderParts
  <2> QED BY <2>1, <2>2, <2>3
<1>2. Null \in X
  <2>1. rotate(Null) = Null /\ Null \in Trees(S)
    BY RotateParts, NoTree
  <2>2. inorder(Null) = <<>> /\ preorder(Null) = <<>> /\ postorder(Null) = <<>>
    BY InorderParts, PreorderParts, PostorderParts
  <2>3. Reverse(<<>>) = <<>>
    BY ReverseFacts
  <2> QED BY <2>1, <2>2, <2>3 DEF Turned
<1>3. ASSUME NEW x \in S, NEW l \in Trees(S), NEW r \in Trees(S), l \in X, r \in X
      PROVE  Tree(x, l, r) \in X
  <2> DEFINE u == Tree(x, l, r)
  <2>1. u \in Trees(S) /\ rotate(u) = Tree(x, rotate(r), rotate(l))
        /\ rotate(l) \in Trees(S) /\ rotate(r) \in Trees(S)
    BY <1>1, TreeParts, RotateParts
  <2>2. Turned(l) /\ Turned(r)
    BY <1>3
  <2>3. inorder(rotate(u)) = Reverse(inorder(u))
    <3> DEFINE a == inorder(l)
               b == inorder(r)
    <3>1. inorder(rotate(u)) = inorder(rotate(r)) \o <<x>> \o inorder(rotate(l))
      <4> DEFINE v == rotate(l)
                 w == rotate(r)
      <4>1. v \in Trees(S) /\ w \in Trees(S) /\ rotate(u) = Tree(x, w, v)
        BY <2>1
      <4> HIDE DEF u, v, w
      <4>2. inorder(Tree(x, w, v)) = (inorder(w) \o <<x>>) \o inorder(v)
        BY <1>0, <4>1
      <4> QED BY <4>1, <4>2 DEF v, w
    <3>2. inorder(u) = (a \o <<x>>) \o b /\ a \in Seq(S) /\ b \in Seq(S) /\ <<x>> \in Seq(S)
          /\ a \o <<x>> \in Seq(S)
      <4>1. a \in Seq(S) /\ b \in Seq(S) /\ <<x>> \in Seq(S)
        BY <1>1
      <4>2. inorder(u) = (a \o <<x>>) \o b
        BY <1>0
      <4> HIDE DEF a, b, u
      <4>3. a \o <<x>> \in Seq(S)
        BY <4>1, ConcatProperties
      <4> QED BY <4>1, <4>2, <4>3
    <3>3. inorder(rotate(u)) = Reverse(b) \o <<x>> \o Reverse(a)
      BY <2>2, <3>1 DEF Turned
    <3> HIDE DEF a, b, u
    <3>4. Reverse((a \o <<x>>) \o b) = Reverse(b) \o Reverse(a \o <<x>>)
      BY <3>2, ReverseFacts
    <3>5. Reverse(a \o <<x>>) = <<x>> \o Reverse(a)
      BY <3>2, ReverseFacts
    <3>6. Reverse(a) \in Seq(S) /\ Reverse(b) \in Seq(S)
      BY <3>2, ReverseFacts
    <3>7. Reverse(b) \o (<<x>> \o Reverse(a)) = Reverse(b) \o <<x>> \o Reverse(a)
      <4> DEFINE y == <<x>>
                 ra == Reverse(a)
                 rb == Reverse(b)
      <4>1. y \in Seq(S) /\ ra \in Seq(S) /\ rb \in Seq(S)
        BY <3>2, <3>6
      <4> HIDE DEF y, ra, rb
      <4>2. (rb \o y) \o ra = rb \o (y \o ra)
        BY <4>1, ConcatAssociative
      <4> QED BY <4>2 DEF y, ra, rb
    <3> QED BY <3>2, <3>3, <3>4, <3>5, <3>7
  <2>4. preorder(rotate(u)) = Reverse(postorder(u))
    <3> DEFINE a == postorder(l)
               b == postorder(r)
    <3>1. preorder(rotate(u)) = <<x>> \o preorder(rotate(r)) \o preorder(rotate(l))
      <4> DEFINE v == rotate(l)
                 w == rotate(r)
      <4>1. v \in Trees(S) /\ w \in Trees(S) /\ rotate(u) = Tree(x, w, v)
        BY <2>1
      <4> HIDE DEF u, v, w
      <4>2. preorder(Tree(x, w, v)) = (<<x>> \o preorder(w)) \o preorder(v)
        BY <1>0, <4>1
      <4> QED BY <4>1, <4>2 DEF v, w
    <3>2. postorder(u) = (a \o b) \o <<x>> /\ a \in Seq(S) /\ b \in Seq(S) /\ <<x>> \in Seq(S)
          /\ a \o b \in Seq(S)
      <4>1. a \in Seq(S) /\ b \in Seq(S) /\ <<x>> \in Seq(S)
        BY <1>1
      <4>2. postorder(u) = (a \o b) \o <<x>>
        BY <1>0
      <4> HIDE DEF a, b, u
      <4>3. a \o b \in Seq(S)
        BY <4>1, ConcatProperties
      <4> QED BY <4>1, <4>2, <4>3
    <3>3. preorder(rotate(u)) = <<x>> \o Reverse(b) \o Reverse(a)
      BY <2>2, <3>1 DEF Turned
    <3> HIDE DEF a, b, u
    <3>4. Reverse((a \o b) \o <<x>>) = <<x>> \o Reverse(a \o b)
      BY <3>2, ReverseFacts
    <3>5. Reverse(a \o b) = Reverse(b) \o Reverse(a)
      BY <3>2, ReverseFacts
    <3>6. Reverse(a) \in Seq(S) /\ Reverse(b) \in Seq(S)
      BY <3>2, ReverseFacts
    <3>7. <<x>> \o (Reverse(b) \o Reverse(a)) = <<x>> \o Reverse(b) \o Reverse(a)
      <4> DEFINE y == <<x>>
                 ra == Reverse(a)
                 rb == Reverse(b)
      <4>1. y \in Seq(S) /\ ra \in Seq(S) /\ rb \in Seq(S)
        BY <3>2, <3>6
      <4> HIDE DEF y, ra, rb
      <4>2. (y \o rb) \o ra = y \o (rb \o ra)
        BY <4>1, ConcatAssociative
      <4> QED BY <4>2 DEF y, ra, rb
    <3> QED BY <3>2, <3>3, <3>4, <3>5, <3>7
  <2>5. countNodes(rotate(u)) = countNodes(u)
    <3>1. countNodes(rotate(u)) = 1 + countNodes(rotate(r)) + countNodes(rotate(l))
      BY <2>1, CountNodesParts
    <3>2. countNodes(u) = 1 + countNodes(l) + countNodes(r)
      BY CountNodesParts
    <3>3. countNodes(rotate(l)) = countNodes(l) /\ countNodes(rotate(r)) = countNodes(r)
      BY <2>2 DEF Turned
    <3>4. countNodes(l) \in Nat /\ countNodes(r) \in Nat
      BY <1>1
    <3> HIDE DEF u
    <3> QED BY <3>1, <3>2, <3>3, <3>4
  <2>6. countLevels(rotate(u)) = countLevels(u)
    <3> DEFINE Lv(i, j) == 1 + (IF i > j THEN i ELSE j)
    <3>1. countLevels(rotate(u)) = Lv(countLevels(rotate(r)), countLevels(rotate(l)))
      BY <2>1, CountLevelsParts
    <3>2. countLevels(u) = Lv(countLevels(l), countLevels(r))
      BY CountLevelsParts
    <3>3. countLevels(rotate(l)) = countLevels(l) /\ countLevels(rotate(r)) = countLevels(r)
      BY <2>2 DEF Turned
    <3>4. \A i, j \in Nat : Lv(i, j) = Lv(j, i)
      OBVIOUS
    <3>5. countLevels(l) \in Nat /\ countLevels(r) \in Nat
      BY <1>1
    <3> HIDE DEF u, Lv
    <3> QED BY <3>1, <3>2, <3>3, <3>4, <3>5
  <2>7. rotate(rotate(u)) = u
    <3>1. rotate(rotate(u)) = Tree(x, rotate(rotate(l)), rotate(rotate(r)))
      BY <2>1, RotateParts
    <3>2. rotate(rotate(l)) = l /\ rotate(rotate(r)) = r
      BY <2>2 DEF Turned
    <3> QED BY <3>1, <3>2
  <2> HIDE DEF u
  <2>8. u \in X
    BY <2>1, <2>3, <2>4, <2>5, <2>6, <2>7 DEF Turned
  <2> QED BY <2>8 DEF u
<1> HIDE DEF X
<1>4. Trees(S) \subseteq X
  BY <1>2, <1>3, TreeInduction
<1> QED BY <1>4 DEF X

(* Sequences put together. *)
Joins(a, b, c) ==
  /\ Len(c) = Len(a) + Len(b)
  /\ \A i \in 1..Len(a) : c[i] = a[i]
  /\ \A i \in 1..Len(b) : c[Len(a) + i] = b[i]

LEMMA Joined ==
  ASSUME NEW S, NEW a \in Seq(S), NEW b \in Seq(S), NEW c \in Seq(S), Joins(a, b, c)
  PROVE  a \o b = c
<1>0. /\ Len(c) = Len(a) + Len(b)
      /\ \A i \in 1..Len(a) : c[i] = a[i]
      /\ \A i \in 1..Len(b) : c[Len(a) + i] = b[i]
  BY DEF Joins
<1>1. /\ a \o b \in Seq(S) /\ Len(a \o b) = Len(a) + Len(b)
      /\ \A i \in 1..Len(a)+Len(b) : (a \o b)[i] = IF i <= Len(a) THEN a[i] ELSE b[i - Len(a)]
  BY ConcatProperties
<1>2. Len(a) \in Nat /\ Len(b) \in Nat
  BY LenProperties
<1>3. ASSUME NEW i \in 1..Len(c) PROVE (a \o b)[i] = c[i]
  <2>1. CASE i <= Len(a)
    BY <1>0, <1>1, <1>2, <2>1
  <2>2. CASE ~(i <= Len(a))
    <3>1. i - Len(a) \in 1..Len(b) /\ Len(a) + (i - Len(a)) = i
      BY <1>0, <1>2, <2>2
    <3> QED BY <1>0, <1>1, <2>2, <3>1
  <2> QED BY <2>1, <2>2
<1> QED BY <1>0, <1>1, <1>3, SeqEqual

LEMMA Chain11 ==
  ASSUME NEW a, NEW b
  PROVE  <<a>> \o <<b>> = <<a, b>>
<1> DEFINE S == {a, b}
           u == <<a>>
           v == <<b>>
           w == <<a, b>>
<1>1. /\ u \in Seq(S) /\ v \in Seq(S) /\ w \in Seq(S)
      /\ Len(u) = 1 /\ Len(v) = 1 /\ Len(w) = 2
  OBVIOUS
<1>2. (\A i \in 1..1 : w[i] = u[i]) /\ (\A i \in 1..1 : w[1 + i] = v[i])
  OBVIOUS
<1> HIDE DEF S, u, v, w
<1>3. Joins(u, v, w)
  BY <1>1, <1>2 DEF Joins
<1>4. u \o v = w
  BY <1>1, <1>3, Joined, Zenon
<1> QED BY <1>4 DEF u, v, w

LEMMA Chain21 ==
  ASSUME NEW a, NEW b, NEW c
  PROVE  <<a, b>> \o <<c>> = <<a, b, c>>
<1> DEFINE S == {a, b, c}
           u == <<a, b>>
           v == <<c>>
           w == <<a, b, c>>
<1>1. /\ u \in Seq(S) /\ v \in Seq(S) /\ w \in Seq(S)
      /\ Len(u) = 2 /\ Len(v) = 1 /\ Len(w) = 3
  OBVIOUS
<1>2. (\A i \in 1..2 : w[i] = u[i]) /\ (\A i \in 1..1 : w[2 + i] = v[i])
  OBVIOUS
<1> HIDE DEF S, u, v, w
<1>3. Joins(u, v, w)
  BY <1>1, <1>2 DEF Joins
<1>4. u \o v = w
  BY <1>1, <1>3, Joined, Zenon
<1> QED BY <1>4 DEF u, v, w

LEMMA Chain31 ==
  ASSUME NEW a, NEW b, NEW c, NEW d
  PROVE  <<a, b, c>> \o <<d>> = <<a, b, c, d>>
<1> DEFINE S == {a, b, c, d}
           u == <<a, b, c>>
           v == <<d>>
           w == <<a, b, c, d>>
<1>1. /\ u \in Seq(S) /\ v \in Seq(S) /\ w \in Seq(S)
      /\ Len(u) = 3 /\ Len(v) = 1 /\ Len(w) = 4
  OBVIOUS
<1>2. (\A i \in 1..3 : w[i] = u[i]) /\ (\A i \in 1..1 : w[3 + i] = v[i])
  OBVIOUS
<1> HIDE DEF S, u, v, w
<1>3. Joins(u, v, w)
  BY <1>1, <1>2 DEF Joins
<1>4. u \o v = w
  BY <1>1, <1>3, Joined, Zenon
<1> QED BY <1>4 DEF u, v, w

LEMMA Chain13 ==
  ASSUME NEW a, NEW b, NEW c, NEW d
  PROVE  <<a>> \o <<b, c, d>> = <<a, b, c, d>>
<1> DEFINE S == {a, b, c, d}
           u == <<a>>
           v == <<b, c, d>>
           w == <<a, b, c, d>>
<1>1. /\ u \in Seq(S) /\ v \in Seq(S) /\ w \in Seq(S)
      /\ Len(u) = 1 /\ Len(v) = 3 /\ Len(w) = 4
  OBVIOUS
<1>2. (\A i \in 1..1 : w[i] = u[i]) /\ (\A i \in 1..3 : w[1 + i] = v[i])
  OBVIOUS
<1> HIDE DEF S, u, v, w
<1>3. Joins(u, v, w)
  BY <1>1, <1>2 DEF Joins
<1>4. u \o v = w
  BY <1>1, <1>3, Joined, Zenon
<1> QED BY <1>4 DEF u, v, w

LEMMA Chain43 ==
  ASSUME NEW a, NEW b, NEW c, NEW d, NEW e, NEW f, NEW g
  PROVE  <<a, b, c, d>> \o <<e, f, g>> = <<a, b, c, d, e, f, g>>
<1> DEFINE S == {a, b, c, d, e, f, g}
           u == <<a, b, c, d>>
           v == <<e, f, g>>
           w == <<a, b, c, d, e, f, g>>
<1>1. /\ u \in Seq(S) /\ v \in Seq(S) /\ w \in Seq(S)
      /\ Len(u) = 4 /\ Len(v) = 3 /\ Len(w) = 7
  OBVIOUS
<1>2. (\A i \in 1..4 : w[i] = u[i]) /\ (\A i \in 1..3 : w[4 + i] = v[i])
  OBVIOUS
<1> HIDE DEF S, u, v, w
<1>3. Joins(u, v, w)
  BY <1>1, <1>2 DEF Joins
<1>4. u \o v = w
  BY <1>1, <1>3, Joined, Zenon
<1> QED BY <1>4 DEF u, v, w

LEMMA LeafParts ==
  ASSUME NEW S, NEW x \in S
  PROVE  /\ Leaf(x) \in Trees(S) /\ rotate(Leaf(x)) = Leaf(x)
         /\ preorder(Leaf(x)) = <<x>> /\ inorder(Leaf(x)) = <<x>>
<1>1. Null \in Trees(S)
  BY NoTree
<1>2. Leaf(x) \in Trees(S)
  BY <1>1, TreeParts DEF Leaf
<1>3. rotate(Leaf(x)) = Leaf(x)
  <2>1. rotate(Null) = Null
    BY RotateParts
  <2> QED BY <1>1, <2>1, RotateParts DEF Leaf
<1>4. preorder(Leaf(x)) = <<x>>
  <2>1. preorder(Null) = <<>>
    BY PreorderParts
  <2>2. preorder(Tree(x, Null, Null)) = (<<x>> \o preorder(Null)) \o preorder(Null)
    BY <1>1, PreorderParts
  <2>3. preorder(Leaf(x)) = (<<x>> \o <<>>) \o <<>>
    BY <2>1, <2>2 DEF Leaf
  <2> QED BY <2>3
<1>5. inorder(Leaf(x)) = <<x>>
  <2>1. inorder(Null) = <<>>
    BY InorderParts
  <2>2. inorder(Tree(x, Null, Null)) = (inorder(Null) \o <<x>>) \o inorder(Null)
    BY <1>1, InorderParts
  <2>3. inorder(Leaf(x)) = (<<>> \o <<x>>) \o <<>>
    BY <2>1, <2>2 DEF Leaf
  <2> QED BY <2>3
<1> QED BY <1>2, <1>3, <1>4, <1>5

LEMMA Tree45Turned == preorder(rotate(tree45)) = <<1, 3, 7, 6, 2, 5, 4>>
<1>1. \A x \in Nat : /\ Leaf(x) \in Trees(Nat) /\ rotate(Leaf(x)) = Leaf(x)
                     /\ preorder(Leaf(x)) = <<x>>
  BY LeafParts
<1>2. \A x \in Nat : \A l, r \in Trees(Nat) :
        /\ Tree(x, l, r) \in Trees(Nat)
        /\ rotate(Tree(x, l, r)) = Tree(x, rotate(r), rotate(l))
  BY TreeParts, RotateParts
<1>3. \A x \in Nat : \A l, r \in Trees(Nat) :
        preorder(Tree(x, l, r)) = (<<x>> \o preorder(l)) \o preorder(r)
  <2> DEFINE S == Nat
  <2> HIDE DEF S
  <2>1. \A x \in S : \A l, r \in Trees(S) :
          preorder(Tree(x, l, r)) = (<<x>> \o preorder(l)) \o preorder(r)
    BY PreorderParts
  <2> QED BY <2>1 DEF S
<1>0. ASSUME NEW x \in Nat, NEW y \in Nat, NEW z \in Nat
      PROVE  preorder(Tree(x, Leaf(y), Leaf(z))) = <<x, y, z>>
  <2>1. preorder(Tree(x, Leaf(y), Leaf(z))) = (<<x>> \o preorder(Leaf(y))) \o preorder(Leaf(z))
    BY <1>1, <1>3
  <2>2. preorder(Leaf(y)) = <<y>> /\ preorder(Leaf(z)) = <<z>>
    BY <1>1
  <2>3. (<<x>> \o <<y>>) \o <<z>> = <<x, y, z>>
    <3>1. <<x>> \o <<y>> = <<x, y>> /\ <<x, y>> \o <<z>> = <<x, y, z>>
      BY Chain11, Chain21
    <3> QED BY <3>1
  <2> QED BY <2>1, <2>2, <2>3
<1>4. 1 \in Nat /\ 2 \in Nat /\ 3 \in Nat /\ 4 \in Nat /\ 5 \in Nat /\ 6 \in Nat /\ 7 \in Nat
  OBVIOUS
<1> DEFINE a == Tree(2, Leaf(4), Leaf(5))
           b == Tree(3, Leaf(6), Leaf(7))
           c == Tree(2, Leaf(5), Leaf(4))
           d == Tree(3, Leaf(7), Leaf(6))
<1>5. a \in Trees(Nat) /\ b \in Trees(Nat) /\ rotate(a) = c /\ rotate(b) = d
  BY <1>1, <1>2, <1>4
<1>6. c \in Trees(Nat) /\ d \in Trees(Nat)
  BY <1>1, <1>2, <1>4
<1>7. preorder(c) = <<2, 5, 4>>
  BY <1>0, <1>4
<1>8. preorder(d) = <<3, 7, 6>>
  BY <1>0, <1>4
<1>9. tree45 = Tree(1, a, b)
  BY DEF tree45
<1> HIDE DEF a, b, c, d
<1>10. preorder(rotate(tree45)) = (<<1>> \o <<3, 7, 6>>) \o <<2, 5, 4>>
  <2>1. rotate(tree45) = Tree(1, d, c)
    BY <1>2, <1>4, <1>5, <1>9
  <2>2. preorder(Tree(1, d, c)) = (<<1>> \o preorder(d)) \o preorder(c)
    BY <1>3, <1>4, <1>6
  <2> QED BY <1>7, <1>8, <2>1, <2>2
<1>11. (<<1>> \o <<3, 7, 6>>) \o <<2, 5, 4>> = <<1, 3, 7, 6, 2, 5, 4>>
  <2>1. <<1>> \o <<3, 7, 6>> = <<1, 3, 7, 6>>
    BY Chain13
  <2>2. <<1, 3, 7, 6>> \o <<2, 5, 4>> = <<1, 3, 7, 6, 2, 5, 4>>
    BY Chain43
  <2> QED BY <2>1, <2>2
<1> QED BY <1>10, <1>11

(* A line makes the tree at most one level deeper. *)
LEMMA StaysShallow ==
  ASSUME SearchTreeOf(root), NEW d \in Nat, Shallow(root, d), [TreeNext]_root
  PROVE  \E e \in Nat : Shallow(root', e)
<1>1. DOMAIN root \subseteq Place /\ \A p \in DOMAIN root : Len(p) \in Nat /\ Len(p) < d
  BY PlaceFacts DEF SearchTreeOf, Shallow
<1>2. ASSUME NEW q \in Word, InsertLine(q) PROVE Shallow(root', d + 1)
  <2>1. PICK p \in Pointers(root) : DOMAIN root' = DOMAIN root \union {p}
    BY <1>2 DEF InsertLine
  <2>2. Len(p) < d + 1
    <3>1. CASE p = <<>>
      BY <3>1, Root
    <3>2. ASSUME NEW a \in DOMAIN root, NEW s \in Side, p = Child(a, s) PROVE Len(p) < d + 1
      <4>1. Len(p) = Len(a) + 1 /\ Len(a) \in Nat /\ Len(a) < d
        BY <1>1, <3>2, ChildFacts
      <4> QED BY <4>1
    <3> QED BY <3>1, <3>2 DEF Pointers
  <2>3. \A x \in DOMAIN root' : Len(x) < d + 1
    BY <1>1, <2>1, <2>2
  <2> QED BY <2>3 DEF Shallow
<1>3. ASSUME NEW p \in DOMAIN root, NEW m \in DOMAIN root, root' = Replaced(root, p, m)
      PROVE  Shallow(root', d)
  <2>1. DOMAIN root' \subseteq DOMAIN root
    BY <1>3 DEF Replaced
  <2> QED BY <2>1 DEF Shallow
<1>4. ASSUME NEW p \in DOMAIN root, NEW s \in Side, root' = Lifted(root, p, s)
      PROVE  Shallow(root', d)
  <2>1. DOMAIN root' = { y \in DOMAIN root : ~Under(p, y) }
                         \union { Raised(p, y) : y \in { z \in DOMAIN root : On(s, p, z) } }
    BY <1>4 DEF Lifted
  <2>2. ASSUME NEW y \in DOMAIN root, On(s, p, y) PROVE Len(Raised(p, y)) < d
    <3>1. Len(Raised(p, y)) = Len(y) - 1
      BY <1>1, <2>2, RaisedFacts
    <3> QED BY <1>1, <3>1
  <2> QED BY <1>1, <2>1, <2>2 DEF Shallow
<1>5. CASE UNCHANGED root
  BY <1>5
<1>6. ASSUME NEW q \in Word, DeleteLine(q) PROVE Shallow(root', d)
  <2>1. "l" \in Side /\ "r" \in Side
    BY DEF Side
  <2>2. CASE root' = root
    BY <2>2
  <2> QED BY <1>3, <1>4, <1>6, <2>1, <2>2 DEF DeleteLine
<1> QED BY <1>2, <1>5, <1>6 DEF TreeNext

LEMMA RootIsTree == TreeSpec => [](root \in Trees(Word))
<1> DEFINE Inv == SearchTreeOf(root) /\ \E d \in Nat : Shallow(root, d)
<1>1. TreeInit => \E d \in Nat : Shallow(root, d)
  <2>1. Shallow(Null, 0)
    BY NoTree DEF Shallow
  <2> QED BY <2>1 DEF TreeInit
<1>2. SearchTreeOf(root) /\ (\E d \in Nat : Shallow(root, d)) /\ [TreeNext]_root
        => (\E d \in Nat : Shallow(root, d))'
  BY StaysShallow DEF Shallow
<1>3. SearchTreeOf(root) /\ (\E d \in Nat : Shallow(root, d)) => root \in Trees(Word)
  BY DEF SearchTreeOf, Trees
<1> QED BY <1>1, <1>2, <1>3, TreeInvariant, PTL DEF TreeSpec

(* The rotation turns the orders around, keeps the number of nodes and of  *)
(* levels and undoes itself, on every tree that lines of input can build,  *)
(* and on the tree in the comment of tree4.c.                              *)
THEOREM RotatesAnyTree == TreeSpec => []Rotates
<1>1. root \in Trees(Word) => Rotates
  <2> SUFFICES ASSUME root \in Trees(Word) PROVE Rotates
    OBVIOUS
  <2>1. Turned(root)
    BY AllTurned
  <2> QED BY <2>1, Tree45Turned DEF Rotates, Turned
<1> QED BY <1>1, RootIsTree, PTL

(***************************************************************************)
(* The queue: entry k is a place, the root first, and the entries 2k+1 and *)
(* 2k+2 are its children.                                                  *)
(***************************************************************************)
IsQueue(e) ==
  /\ e \in [Nat -> Place]
  /\ e[0] = <<>>
  /\ \A k \in Nat : e[2 * k + 1] = Child(e[k], "l") /\ e[2 * k + 2] = Child(e[k], "r")

LEMMA FromBelow ==
  ASSUME NEW T, \A n \in Nat : (\A m \in Nat : m < n => m \in T) => n \in T
  PROVE  Nat \subseteq T
<1> DEFINE U == Nat \ T
<1> SUFFICES ASSUME U # {} PROVE FALSE
  OBVIOUS
<1>1. PICK m \in U : \A k \in U : ~(k < m)
  <2>1. U \subseteq Nat
    OBVIOUS
  <2> HIDE DEF U
  <2> QED BY <2>1, LeastNat
<1> QED BY <1>1

LEMMA Parent ==
  ASSUME NEW n \in Nat
  PROVE  n = 0 \/ \E k \in Nat : k < n /\ (n = 2 * k + 1 \/ n = 2 * k + 2)
<1> DEFINE T == { m \in Nat : m = 0 \/ \E k \in Nat : k < m /\ (m = 2 * k + 1 \/ m = 2 * k + 2) }
<1>1. 0 \in T
  OBVIOUS
<1>2. ASSUME NEW m \in Nat, m \in T PROVE m + 1 \in T
  <2>1. CASE m = 0
    <3>1. 0 \in Nat /\ 0 < m + 1 /\ m + 1 = 2 * 0 + 1
      BY <2>1
    <3> QED BY <3>1
  <2>2. ASSUME NEW k \in Nat, k < m, m = 2 * k + 1 PROVE m + 1 \in T
    <3>1. k < m + 1 /\ m + 1 = 2 * k + 2
      BY <2>2
    <3> QED BY <3>1
  <2>3. ASSUME NEW k \in Nat, k < m, m = 2 * k + 2 PROVE m + 1 \in T
    <3>1. k + 1 \in Nat /\ k + 1 < m + 1 /\ m + 1 = 2 * (k + 1) + 1
      BY <2>3
    <3>2. \E j \in Nat : j < m + 1 /\ (m + 1 = 2 * j + 1 \/ m + 1 = 2 * j + 2)
      BY <3>1
    <3> QED BY <3>2
  <2> QED BY <1>2, <2>1, <2>2, <2>3
<1> HIDE DEF T
<1>3. Nat \subseteq T
  BY <1>1, <1>2, NatIsInductive
<1> QED BY <1>3 DEF T

LEMMA ChildSame ==
  ASSUME NEW p \in Place, NEW q \in Place, NEW s \in Side, NEW o \in Side, Child(p, s) = Child(q, o)
  PROVE  p = q /\ s = o
<1>1. /\ Len(Child(p, s)) = Len(p) + 1 /\ Child(p, s)[Len(p) + 1] = s
      /\ \A i \in 1..Len(p) : Child(p, s)[i] = p[i]
  BY ChildFacts
<1>2. /\ Len(Child(q, o)) = Len(q) + 1 /\ Child(q, o)[Len(q) + 1] = o
      /\ \A i \in 1..Len(q) : Child(q, o)[i] = q[i]
  BY ChildFacts
<1>3. Len(p) \in Nat /\ Len(q) \in Nat
  BY PlaceFacts
<1>4. Len(p) = Len(q)
  BY <1>1, <1>2, <1>3
<1>5. \A i \in 1..Len(p) : p[i] = q[i]
  BY <1>1, <1>2, <1>4
<1> QED BY <1>1, <1>2, <1>4, <1>5, SeqEqual DEF Place

LEMMA ChildSplit ==
  ASSUME NEW p \in Place, NEW n \in Nat, Len(p) = n + 1
  PROVE  \E q \in Place, s \in Side : p = Child(q, s) /\ Len(q) = n
<1> DEFINE q == SubSeq(p, 1, n)
           s == p[n + 1]
<1>1. q \in Place /\ Len(q) = n /\ \A i \in 1..n : q[i] = p[i]
  BY Prefix
<1>2. s \in Side
  BY PlaceFacts
<1> HIDE DEF q
<1>3. /\ Child(q, s) \in Place /\ Len(Child(q, s)) = n + 1
      /\ \A i \in 1..n : Child(q, s)[i] = q[i]
      /\ Child(q, s)[n + 1] = s
  BY <1>1, <1>2, ChildFacts
<1>4. ASSUME NEW i \in 1..n+1 PROVE p[i] = Child(q, s)[i]
  <2>1. i \in 1..n \/ i = n + 1
    OBVIOUS
  <2> QED BY <1>1, <1>3, <2>1
<1>5. p = Child(q, s)
  BY <1>3, <1>4, SeqEqual DEF Place
<1> QED BY <1>1, <1>2, <1>5

LEMMA QueueFacts ==
  ASSUME NEW e, IsQueue(e)
  PROVE  /\ \A m, n \in Nat : e[m] = e[n] => m = n
         /\ \A p \in Place : \E n \in Nat : e[n] = p
         /\ \A m, n \in Nat : m <= n => Len(e[m]) <= Len(e[n])
<1>1. /\ e \in [Nat -> Place] /\ e[0] = <<>>
      /\ \A k \in Nat : e[2 * k + 1] = Child(e[k], "l") /\ e[2 * k + 2] = Child(e[k], "r")
  BY DEF IsQueue
<1>2. "l" \in Side /\ "r" \in Side /\ "l" # "r"
  BY DEF Side
<1>3. ASSUME NEW k \in Nat
      PROVE  /\ e[k] \in Place /\ Len(e[k]) \in Nat
             /\ Len(e[2 * k + 1]) = Len(e[k]) + 1 /\ Len(e[2 * k + 2]) = Len(e[k]) + 1
  BY <1>1, <1>2, ChildFacts, PlaceFacts
<1>4. Len(e[0]) = 0
  BY <1>1, Root
<1>9. ASSUME NEW k \in Nat, NEW x \in Nat, x = 2 * k + 1 \/ x = 2 * k + 2
      PROVE  Len(e[x]) = Len(e[k]) + 1 /\ Len(e[k]) \in Nat /\ Len(e[x]) \in Nat
  <2>1. CASE x = 2 * k + 1
    BY <1>3, <2>1
  <2>2. CASE x = 2 * k + 2
    BY <1>3, <2>2
  <2> QED BY <1>9, <2>1, <2>2
<1>5. ASSUME NEW m \in Nat, NEW n \in Nat, e[m] = e[n] PROVE m = n
  <2> DEFINE T == { y \in Nat : \A x \in Nat : e[x] = e[y] => x = y }
  <2>1. ASSUME NEW y \in Nat, \A z \in Nat : z < y => z \in T PROVE y \in T
    <3> SUFFICES ASSUME NEW x \in Nat, e[x] = e[y] PROVE x = y
      OBVIOUS
    <3>1. Len(e[x]) = Len(e[y])
      OBVIOUS
    <3>2. CASE y = 0
      <4>1. ASSUME NEW k \in Nat, x = 2 * k + 1 \/ x = 2 * k + 2 PROVE FALSE
        <5>1. Len(e[x]) = Len(e[k]) + 1 /\ Len(e[k]) \in Nat
          BY <1>9, <4>1
        <5>2. Len(e[x]) = 0
          BY <1>4, <3>1, <3>2
        <5> QED BY <5>1, <5>2
      <4> QED BY <3>2, <4>1, Parent
    <3>3. CASE x = 0
      <4>1. ASSUME NEW k \in Nat, y = 2 * k + 1 \/ y = 2 * k + 2 PROVE FALSE
        <5>1. Len(e[y]) = Len(e[k]) + 1 /\ Len(e[k]) \in Nat
          BY <1>9, <4>1
        <5>2. Len(e[y]) = 0
          BY <1>4, <3>1, <3>3
        <5> QED BY <5>1, <5>2
      <4> QED BY <3>3, <4>1, Parent
    <3>4. ASSUME NEW j \in Nat, NEW k \in Nat, k < y,
                 x = 2 * j + 1 \/ x = 2 * j + 2, y = 2 * k + 1 \/ y = 2 * k + 2
          PROVE  x = y
      <4>1. e[j] \in Place /\ e[k] \in Place
        BY <1>3
      <4>2. e[j] = e[k] => j = k
        BY <2>1, <3>4
      <4>3. CASE x = 2 * j + 1 /\ y = 2 * k + 1
        <5>1. Child(e[j], "l") = Child(e[k], "l")
          BY <1>1, <4>3
        <5> QED BY <1>2, <4>1, <4>2, <4>3, <5>1, ChildSame
      <4>4. CASE x = 2 * j + 2 /\ y = 2 * k + 2
        <5>1. Child(e[j], "r") = Child(e[k], "r")
          BY <1>1, <4>4
        <5> QED BY <1>2, <4>1, <4>2, <4>4, <5>1, ChildSame
      <4>5. CASE x = 2 * j + 1 /\ y = 2 * k + 2
        <5>1. Child(e[j], "l") = Child(e[k], "r")
          BY <1>1, <4>5
        <5> QED BY <1>2, <4>1, <5>1, ChildSame
      <4>6. CASE x = 2 * j + 2 /\ y = 2 * k + 1
        <5>1. Child(e[j], "r") = Child(e[k], "l")
          BY <1>1, <4>6
        <5> QED BY <1>2, <4>1, <5>1, ChildSame
      <4> QED BY <3>4, <4>3, <4>4, <4>5, <4>6
    <3> QED BY <3>2, <3>3, <3>4, Parent
  <2> HIDE DEF T
  <2>2. Nat \subseteq T
    BY <2>1, FromBelow
  <2> QED BY <1>5, <2>2 DEF T
<1>6. ASSUME NEW p \in Place PROVE \E n \in Nat : e[n] = p
  <2> DEFINE T == { l \in Nat : \A x \in Place : Len(x) = l => \E n \in Nat : e[n] = x }
  <2>1. 0 \in T
    <3> SUFFICES ASSUME NEW x \in Place, Len(x) = 0 PROVE \E n \in Nat : e[n] = x
      OBVIOUS
    <3>1. x = e[0]
      BY <1>1, EmptySeq DEF Place
    <3> QED BY <3>1
  <2>2. ASSUME NEW l \in Nat, l \in T PROVE l + 1 \in T
    <3> SUFFICES ASSUME NEW x \in Place, Len(x) = l + 1 PROVE \E n \in Nat : e[n] = x
      OBVIOUS
    <3>1. PICK y \in Place, s \in Side : x = Child(y, s) /\ Len(y) = l
      BY ChildSplit
    <3>2. PICK n \in Nat : e[n] = y
      BY <2>2, <3>1
    <3>3. 2 * n + 1 \in Nat /\ 2 * n + 2 \in Nat
      OBVIOUS
    <3> QED BY <1>1, <3>1, <3>2, <3>3 DEF Side
  <2> HIDE DEF T
  <2>3. Nat \subseteq T
    BY <2>1, <2>2, NatIsInductive
  <2>4. Len(p) \in Nat
    BY PlaceFacts
  <2> QED BY <2>3, <2>4 DEF T
<1>7. ASSUME NEW n \in Nat PROVE Len(e[n]) <= Len(e[n + 1])
  <2> DEFINE T == { y \in Nat : Len(e[y]) <= Len(e[y + 1]) }
  <2>1. ASSUME NEW y \in Nat, \A z \in Nat : z < y => z \in T PROVE y \in T
    <3>1. CASE y = 0
      <4>1. Len(e[0 + 1]) = Len(e[0]) + 1
        BY <1>9
      <4> QED BY <1>4, <3>1, <4>1
    <3>2. ASSUME NEW k \in Nat, y = 2 * k + 1 PROVE y \in T
      <4>1. Len(e[y]) = Len(e[k]) + 1 /\ Len(e[y]) \in Nat
        BY <1>9, <3>2
      <4>2. y + 1 = 2 * k + 2 /\ y + 1 \in Nat
        BY <3>2
      <4>3. Len(e[y + 1]) = Len(e[k]) + 1
        BY <1>9, <4>2
      <4> QED BY <4>1, <4>3
    <3>3. ASSUME NEW k \in Nat, k < y, y = 2 * k + 2 PROVE y \in T
      <4>1. y + 1 = 2 * (k + 1) + 1 /\ k + 1 \in Nat
        BY <3>3
      <4>2. Len(e[k]) <= Len(e[k + 1])
        BY <2>1, <3>3
      <4>3. Len(e[y]) = Len(e[k]) + 1 /\ Len(e[y + 1]) = Len(e[k + 1]) + 1
        <5>1. y + 1 \in Nat
          OBVIOUS
        <5> QED BY <1>9, <3>3, <4>1, <5>1
      <4>4. Len(e[k]) \in Nat /\ Len(e[k + 1]) \in Nat
        BY <1>3, <4>1
      <4> QED BY <4>2, <4>3, <4>4
    <3> QED BY <3>1, <3>2, <3>3, Parent
  <2> HIDE DEF T
  <2>2. Nat \subseteq T
    BY <2>1, FromBelow
  <2> QED BY <2>2 DEF T
<1>8. ASSUME NEW m \in Nat, NEW n \in Nat, m <= n PROVE Len(e[m]) <= Len(e[n])
  <2> DEFINE T == { k \in m..n : Len(e[m]) <= Len(e[k]) }
  <2>1. m \in T
    BY <1>3, <1>8
  <2>2. ASSUME NEW k \in m+1..n, k - 1 \in T PROVE k \in T
    <3>1. k - 1 \in Nat /\ (k - 1) + 1 = k /\ k \in Nat
      OBVIOUS
    <3>2. Len(e[m]) <= Len(e[k - 1]) /\ Len(e[k - 1]) <= Len(e[k])
      BY <1>7, <2>2, <3>1
    <3>3. Len(e[m]) \in Nat /\ Len(e[k - 1]) \in Nat /\ Len(e[k]) \in Nat
      BY <1>3, <3>1
    <3> QED BY <3>2, <3>3
  <2> HIDE DEF T
  <2>3. \A k \in m..n : k \in T
    BY <2>1, <2>2, Upwards
  <2>4. n \in m..n
    BY <1>8
  <2> QED BY <2>3, <2>4 DEF T
<1> QED BY <1>5, <1>6, <1>8

(* The iterates of F exist. *)
LEMMA Iterated ==
  ASSUME NEW S, NEW b \in S, NEW F \in [S -> S]
  PROVE  \E h \in [Nat -> S] : h[0] = b /\ \A n \in Nat : h[n + 1] = F[h[n]]
<1> DEFINE Fn(n) == [k \in 1..n |-> F]
           It(n) == CHOOSE f : IsLoop(f, S, b, 0, n, Fn(n))
           h == [n \in Nat |-> It(n)[n]]
<1>1. ASSUME NEW n \in Nat
      PROVE  /\ It(n) \in [0..n -> S] /\ It(n)[0] = b
             /\ \A k \in 1..n : It(n)[k] = F[It(n)[k - 1]]
  <2>1. Fn(n) \in Rounds(S, 0, n)
    BY DEF Rounds
  <2>2. \E f : IsLoop(f, S, b, 0, n, Fn(n))
    <3> HIDE DEF Fn
    <3> QED BY <2>1, Loop
  <2>3. IsLoop(It(n), S, b, 0, n, Fn(n))
    <3> HIDE DEF Fn
    <3> QED BY <2>2
  <2> HIDE DEF It
  <2>4. \A k \in 0+1..n : It(n)[k] = F[It(n)[k - 1]]
    BY <2>3 DEF IsLoop
  <2>5. 0+1..n = 1..n
    OBVIOUS
  <2> QED BY <2>3, <2>4, <2>5 DEF IsLoop
<1> HIDE DEF It
<1>2. ASSUME NEW n \in Nat PROVE It(n + 1)[n] = It(n)[n]
  <2> DEFINE T == { k \in 0..n : It(n + 1)[k] = It(n)[k] }
  <2>1. 0 \in T
    BY <1>1
  <2>2. ASSUME NEW k \in 0+1..n, k - 1 \in T PROVE k \in T
    <3>1. n + 1 \in Nat /\ k \in 1..n /\ k \in 1..n+1
      OBVIOUS
    <3>2. It(n + 1)[k] = F[It(n + 1)[k - 1]] /\ It(n)[k] = F[It(n)[k - 1]]
      BY <1>1, <3>1
    <3> QED BY <2>2, <3>2
  <2> HIDE DEF T
  <2>3. \A k \in 0..n : k \in T
    BY <2>1, <2>2, Upwards
  <2>4. n \in 0..n
    OBVIOUS
  <2> QED BY <2>3, <2>4 DEF T
<1>3. h \in [Nat -> S] /\ h[0] = b
  BY <1>1
<1>4. ASSUME NEW n \in Nat PROVE h[n + 1] = F[h[n]]
  <2>1. n + 1 \in Nat /\ n + 1 \in 1..n+1 /\ (n + 1) - 1 = n
    OBVIOUS
  <2>2. It(n + 1)[n + 1] = F[It(n + 1)[n]]
    BY <1>1, <2>1
  <2> QED BY <1>2, <2>1, <2>2
<1> HIDE DEF h
<1> QED BY <1>3, <1>4

(* The queue after k rounds of breadthFirst. *)
IsRounds(q) ==
  /\ q \in [Nat -> Seq(Place)]
  /\ q[0] = << <<>> >>
  /\ \A k \in Nat : /\ Len(q[k]) = 2 * k + 1
                    /\ q[k + 1] = q[k] \o <<Child(q[k][k + 1], "l"), Child(q[k][k + 1], "r")>>

Round(s, k) == s \o <<Child(s[k], "l"), Child(s[k], "r")>>

LEMMA RoundFacts ==
  ASSUME NEW s \in Seq(Place), NEW k \in 1..Len(s)
  PROVE  /\ Round(s, k) \in Seq(Place) /\ Len(Round(s, k)) = Len(s) + 2
         /\ \A i \in 1..Len(s) : Round(s, k)[i] = s[i]
         /\ Round(s, k)[Len(s) + 1] = Child(s[k], "l")
         /\ Round(s, k)[Len(s) + 2] = Child(s[k], "r")
<1> DEFINE c == <<Child(s[k], "l"), Child(s[k], "r")>>
<1>1. Len(s) \in Nat /\ s[k] \in Place
  BY LenProperties, ElementOfSeq
<1>2. Child(s[k], "l") \in Place /\ Child(s[k], "r") \in Place
  BY <1>1, ChildFacts DEF Side
<1>3. /\ c \in Seq(Place) /\ Len(c) = 2 /\ c[1] = Child(s[k], "l") /\ c[2] = Child(s[k], "r")
  BY <1>2
<1> HIDE DEF c
<1>4. /\ s \o c \in Seq(Place) /\ Len(s \o c) = Len(s) + 2
      /\ \A i \in 1..Len(s)+2 : (s \o c)[i] = IF i <= Len(s) THEN s[i] ELSE c[i - Len(s)]
  <2>1. /\ s \o c \in Seq(Place) /\ Len(s \o c) = Len(s) + Len(c)
        /\ \A i \in 1..Len(s)+Len(c) : (s \o c)[i] = IF i <= Len(s) THEN s[i] ELSE c[i - Len(s)]
    BY <1>3, ConcatProperties
  <2> QED BY <1>3, <2>1
<1>5. \A i \in 1..Len(s) : (s \o c)[i] = s[i]
  BY <1>1, <1>4
<1>6. (s \o c)[Len(s) + 1] = c[1] /\ (s \o c)[Len(s) + 2] = c[2]
  <2>1. /\ Len(s) + 1 \in 1..Len(s)+2 /\ Len(s) + 2 \in 1..Len(s)+2
        /\ (Len(s) + 1) - Len(s) = 1 /\ (Len(s) + 2) - Len(s) = 2
        /\ ~(Len(s) + 1 <= Len(s)) /\ ~(Len(s) + 2 <= Len(s))
    BY <1>1
  <2> QED BY <1>4, <2>1
<1> QED BY <1>3, <1>4, <1>5, <1>6 DEF Round, c

LEMMA RoundsExist == \E q : IsRounds(q)
<1> DEFINE S == { x \in Nat \X Seq(Place) : Len(x[2]) = 2 * x[1] + 1 }
           F == [x \in S |-> <<x[1] + 1, Round(x[2], x[1] + 1)>>]
           b == <<0, << <<>> >> >>
<1>1. b \in S
  <2>1. << <<>> >> \in Seq(Place) /\ Len(<< <<>> >>) = 1
    BY Root
  <2>2. b \in Nat \X Seq(Place) /\ b[1] = 0 /\ b[2] = << <<>> >>
    BY <2>1
  <2>3. Len(b[2]) = 2 * b[1] + 1
    BY <2>1, <2>2
  <2> HIDE DEF b
  <2> QED BY <2>2, <2>3
<1>2. ASSUME NEW x \in S PROVE <<x[1] + 1, Round(x[2], x[1] + 1)>> \in S
  <2>1. x[1] \in Nat /\ x[2] \in Seq(Place) /\ Len(x[2]) = 2 * x[1] + 1
    OBVIOUS
  <2>2. x[1] + 1 \in 1..Len(x[2])
    BY <2>1
  <2>3. Round(x[2], x[1] + 1) \in Seq(Place) /\ Len(Round(x[2], x[1] + 1)) = Len(x[2]) + 2
    BY <2>1, <2>2, RoundFacts
  <2>4. Len(Round(x[2], x[1] + 1)) = 2 * (x[1] + 1) + 1
    BY <2>1, <2>3
  <2> QED BY <2>1, <2>3, <2>4
<1>3. F \in [S -> S]
  BY <1>2
<1>4. PICK h \in [Nat -> S] : h[0] = b /\ \A n \in Nat : h[n + 1] = F[h[n]]
  <2> HIDE DEF S, F, b
  <2> QED BY <1>1, <1>3, Iterated
<1>5. ASSUME NEW n \in Nat
      PROVE  /\ h[n][1] \in Nat /\ h[n][2] \in Seq(Place) /\ Len(h[n][2]) = 2 * h[n][1] + 1
             /\ h[n + 1][1] = h[n][1] + 1 /\ h[n + 1][2] = Round(h[n][2], h[n][1] + 1)
  <2>1. h[n] \in S /\ h[n + 1] = F[h[n]]
    BY <1>4
  <2> QED BY <2>1
<1>6. \A n \in Nat : h[n][1] = n
  <2> DEFINE T == { n \in Nat : h[n][1] = n }
  <2>1. 0 \in T /\ \A n \in Nat : n \in T => n + 1 \in T
    BY <1>4, <1>5
  <2> HIDE DEF T
  <2>2. Nat \subseteq T
    BY <2>1, NatIsInductive
  <2> QED BY <2>2 DEF T
<1> DEFINE q == [n \in Nat |-> h[n][2]]
<1>7. q \in [Nat -> Seq(Place)] /\ q[0] = << <<>> >>
  <2>1. h[0][2] = << <<>> >>
    BY <1>4
  <2>2. \A n \in Nat : h[n][2] \in Seq(Place)
    BY <1>5
  <2> HIDE DEF S
  <2> QED BY <2>1, <2>2
<1>8. ASSUME NEW n \in Nat PROVE Len(q[n]) = 2 * n + 1 /\ q[n + 1] = Round(q[n], n + 1)
  <2>1. h[n][1] = n /\ n + 1 \in Nat
    BY <1>6
  <2>2. Len(h[n][2]) = 2 * n + 1 /\ h[n + 1][2] = Round(h[n][2], n + 1)
    BY <1>5, <2>1
  <2> HIDE DEF S
  <2> QED BY <2>1, <2>2
<1> HIDE DEF q
<1>9. IsRounds(q)
  BY <1>7, <1>8 DEF IsRounds, Round
<1> QED BY <1>9

(* What was put into the queue stays where it is. *)
LEMMA RoundsAreQueue ==
  ASSUME NEW q, IsRounds(q)
  PROVE  IsQueue([k \in Nat |-> q[k][k + 1]])
<1> DEFINE e == [k \in Nat |-> q[k][k + 1]]
<1>1. /\ q \in [Nat -> Seq(Place)] /\ q[0] = << <<>> >>
      /\ \A k \in Nat : Len(q[k]) = 2 * k + 1 /\ q[k + 1] = Round(q[k], k + 1)
  BY DEF IsRounds, Round
<1>2. ASSUME NEW k \in Nat
      PROVE  /\ \A i \in 1..2*k+1 : q[k + 1][i] = q[k][i]
             /\ q[k + 1][2 * k + 2] = Child(q[k][k + 1], "l")
             /\ q[k + 1][2 * k + 3] = Child(q[k][k + 1], "r")
  <2>1. q[k] \in Seq(Place) /\ k + 1 \in 1..Len(q[k]) /\ Len(q[k]) = 2 * k + 1
    <3>1. q[k] \in Seq(Place) /\ Len(q[k]) = 2 * k + 1
      BY <1>1
    <3> QED BY <3>1
  <2>2. /\ \A i \in 1..2*k+1 : Round(q[k], k + 1)[i] = q[k][i]
        /\ Round(q[k], k + 1)[(2 * k + 1) + 1] = Child(q[k][k + 1], "l")
        /\ Round(q[k], k + 1)[(2 * k + 1) + 2] = Child(q[k][k + 1], "r")
    BY <2>1, RoundFacts
  <2>3. (2 * k + 1) + 1 = 2 * k + 2 /\ (2 * k + 1) + 2 = 2 * k + 3
    OBVIOUS
  <2> QED BY <1>1, <2>2, <2>3
<1>3. ASSUME NEW k \in Nat, NEW i \in 1..2*k+1, NEW n \in Nat, k <= n PROVE q[n][i] = q[k][i]
  <2> DEFINE T == { m \in k..n : q[m][i] = q[k][i] }
  <2>1. k \in T
    BY <1>3
  <2>2. ASSUME NEW m \in k+1..n, m - 1 \in T PROVE m \in T
    <3>1. m - 1 \in Nat /\ (m - 1) + 1 = m /\ i \in 1..2*(m - 1)+1
      OBVIOUS
    <3>2. q[(m - 1) + 1][i] = q[m - 1][i]
      BY <1>2, <3>1
    <3> QED BY <2>2, <3>1, <3>2
  <2> HIDE DEF T
  <2>3. \A m \in k..n : m \in T
    BY <2>1, <2>2, Upwards
  <2>4. n \in k..n
    BY <1>3
  <2> QED BY <2>3, <2>4 DEF T
<1>4. e \in [Nat -> Place]
  <2>1. ASSUME NEW k \in Nat PROVE q[k][k + 1] \in Place
    <3>1. q[k] \in Seq(Place) /\ k + 1 \in 1..Len(q[k])
      <4>1. q[k] \in Seq(Place) /\ Len(q[k]) = 2 * k + 1
        BY <1>1
      <4> QED BY <4>1
    <3> QED BY <3>1, ElementOfSeq
  <2> QED BY <2>1
<1>5. e[0] = <<>>
  BY <1>1
<1>6. ASSUME NEW k \in Nat PROVE e[2 * k + 1] = Child(e[k], "l") /\ e[2 * k + 2] = Child(e[k], "r")
  <2>1. /\ k + 1 \in Nat /\ 2 * k + 1 \in Nat /\ 2 * k + 2 \in Nat
        /\ k + 1 <= 2 * k + 1 /\ k + 1 <= 2 * k + 2
        /\ 2 * k + 2 \in 1..2*(k + 1)+1 /\ 2 * k + 3 \in 1..2*(k + 1)+1
        /\ (2 * k + 1) + 1 = 2 * k + 2 /\ (2 * k + 2) + 1 = 2 * k + 3
    OBVIOUS
  <2>2. q[2 * k + 1][2 * k + 2] = q[k + 1][2 * k + 2]
    BY <1>3, <2>1
  <2>3. q[2 * k + 2][2 * k + 3] = q[k + 1][2 * k + 3]
    BY <1>3, <2>1
  <2>4. /\ e[2 * k + 1] = q[2 * k + 1][2 * k + 2] /\ e[2 * k + 2] = q[2 * k + 2][2 * k + 3]
        /\ e[k] = q[k][k + 1]
    BY <2>1
  <2> QED BY <1>2, <2>2, <2>3, <2>4
<1> HIDE DEF e
<1>7. IsQueue(e)
  BY <1>4, <1>5, <1>6 DEF IsQueue
<1> QED BY <1>7 DEF e

(***************************************************************************)
(* The tree built from the names has entry k of the queue at its place.    *)
(***************************************************************************)
IsEntries(g, names, S) ==
  /\ g \in [Nat -> Trees(S)]
  /\ \A k \in Nat : k >= Len(names) => g[k] = Null
  /\ \A k \in Nat : k < Len(names) => g[k] = Tree(names[k + 1], g[2 * k + 1], g[2 * k + 2])

LEMMA NameFacts ==
  ASSUME NEW S, NEW names \in Seq(S)
  PROVE  Len(names) \in Nat /\ \A k \in Nat : k < Len(names) => names[k + 1] \in S
<1>1. Len(names) \in Nat /\ \A i \in 1..Len(names) : names[i] \in S
  BY LenProperties, ElementOfSeq
<1>2. \A k \in Nat : k < Len(names) => k + 1 \in 1..Len(names)
  BY <1>1
<1> QED BY <1>1, <1>2

LEMMA EntriesExist ==
  ASSUME NEW S, NEW names \in Seq(S), 2 * Len(names) < QueueSize
  PROVE  \E g : IsEntries(g, names, S) /\ Built(names) = g[0]
<1> DEFINE V == Trees(S)
           Body(g) == [k \in Nat |-> IF k >= Len(names) THEN Null
                                    ELSE Tree(names[k + 1], g[2 * k + 1], g[2 * k + 2])]
           G == [g \in [Nat -> V] |-> Body(g)]
           rank == [k \in Nat |-> k]
           z == [k \in Nat |-> Null]
<1>1. Len(names) \in Nat /\ \A k \in Nat : k < Len(names) => names[k + 1] \in S
  BY NameFacts
<1>2. Null \in V
  BY NoTree
<1>3. ASSUME NEW k \in Nat PROVE 2 * k + 1 \in Nat /\ 2 * k + 2 \in Nat /\ 2 * k + 1 > k /\ 2 * k + 2 > k
  OBVIOUS
<1>4. ASSUME NEW g \in [Nat -> V], NEW k \in Nat PROVE Body(g)[k] \in V
  <2>1. CASE k >= Len(names)
    BY <1>2, <2>1
  <2>2. CASE ~(k >= Len(names))
    <3>1. names[k + 1] \in S /\ g[2 * k + 1] \in V /\ g[2 * k + 2] \in V
      BY <1>1, <1>3, <2>2
    <3>2. Tree(names[k + 1], g[2 * k + 1], g[2 * k + 2]) \in V
      BY <3>1, TreeParts
    <3> QED BY <2>2, <3>2
  <2> QED BY <2>1, <2>2
<1>5. G \in [[Nat -> V] -> [Nat -> V]]
  <2>1. \A g \in [Nat -> V] : Body(g) \in [Nat -> V]
    <3> HIDE DEF V
    <3> QED BY <1>4
  <2> HIDE DEF V, Body
  <2> QED BY <2>1
<1>6. ASSUME NEW f \in [Nat -> V], NEW g \in [Nat -> V], NEW k \in Nat,
             \A j \in Nat : rank[j] > rank[k] => f[j] = g[j]
      PROVE  G[f][k] = G[g][k]
  <2>1. f[2 * k + 1] = g[2 * k + 1] /\ f[2 * k + 2] = g[2 * k + 2]
    BY <1>3, <1>6
  <2>2. G[f] = Body(f) /\ G[g] = Body(g)
    <3> HIDE DEF Body
    <3> QED OBVIOUS
  <2> HIDE DEF G
  <2> QED BY <2>1, <2>2
<1>7. ASSUME NEW f \in [Nat -> V], NEW g \in [Nat -> V], NEW k \in Nat, rank[k] >= Len(names)
      PROVE  G[f][k] = G[g][k]
  <2>1. k >= Len(names)
    BY <1>7
  <2>2. G[f] = Body(f) /\ G[g] = Body(g)
    <3> HIDE DEF Body
    <3> QED OBVIOUS
  <2> HIDE DEF G
  <2> QED BY <2>1, <2>2
<1>8. rank \in [Nat -> Nat] /\ z \in [Nat -> V]
  BY <1>2
<1>9. PICK f \in [Nat -> V] : f = Body(f)
  <2> HIDE DEF V
  <2>1. \A g \in [Nat -> V] : G[g] = Body(g)
    OBVIOUS
  <2> HIDE DEF G, rank, z, Body
  <2>2. ByRank(G, Nat, V, rank, Len(names))
    BY <1>1, <1>5, <1>6, <1>7, <1>8 DEF ByRank
  <2>3. \E f \in [Nat -> V] : f = G[f]
    <3>1. z \in [Nat -> V]
      BY <1>8
    <3> DEFINE D == Nat
               d == Len(names)
    <3>2. z \in [D -> V] /\ ByRank(G, D, V, rank, d)
      BY <2>2, <3>1
    <3> HIDE DEF D, d
    <3>3. \E f \in [D -> V] : f = G[f]
      BY <3>2, Recursive
    <3> QED BY <3>3 DEF D
  <2> QED BY <2>1, <2>3
<1>10. Built(names) = (CHOOSE g : g = Body(g))[0]
  <2>1. ~(2 * Len(names) >= QueueSize)
    BY <1>1, QueueAssumption
  <2> QED BY <2>1 DEF Built
<1>11. PICK g : g = Body(g) /\ Built(names) = g[0]
  <2> HIDE DEF Body
  <2> QED BY <1>9, <1>10
<1>12. ASSUME NEW k \in Nat
       PROVE  /\ k >= Len(names) => g[k] = Null
              /\ k < Len(names) => g[k] = Tree(names[k + 1], g[2 * k + 1], g[2 * k + 2])
  <2>1. g[k] = Body(g)[k]
    BY <1>11
  <2> QED BY <1>1, <2>1
<1>13. ASSUME NEW k \in Nat PROVE g[k] \in V
  <2> DEFINE T == { m \in Nat : \A j \in Nat : j + m >= Len(names) => g[j] \in V }
  <2>1. 0 \in T
    BY <1>1, <1>2, <1>12
  <2>2. ASSUME NEW m \in Nat, m \in T PROVE m + 1 \in T
    <3> SUFFICES ASSUME NEW j \in Nat, j + (m + 1) >= Len(names), j < Len(names) PROVE g[j] \in V
      BY <1>1, <1>2, <1>12
    <3>1. (2 * j + 1) + m >= Len(names) /\ (2 * j + 2) + m >= Len(names)
      BY <1>1
    <3>2. g[2 * j + 1] \in V /\ g[2 * j + 2] \in V
      BY <1>3, <2>2, <3>1
    <3>3. g[j] = Tree(names[j + 1], g[2 * j + 1], g[2 * j + 2]) /\ names[j + 1] \in S
      BY <1>1, <1>12
    <3> QED BY <3>2, <3>3, TreeParts
  <2> HIDE DEF T
  <2>3. Nat \subseteq T
    BY <2>1, <2>2, NatIsInductive
  <2>4. Len(names) \in T /\ k + Len(names) >= Len(names)
    BY <1>1, <2>3
  <2> QED BY <2>4 DEF T
<1>14. g \in [Nat -> V]
  <2>1. g = [k \in Nat |-> g[k]]
    BY <1>11
  <2> HIDE DEF V
  <2> QED BY <1>13, <2>1
<1>15. IsEntries(g, names, S)
  BY <1>12, <1>14 DEF IsEntries
<1> QED BY <1>11, <1>15

LEMMA Below ==
  ASSUME NEW p \in Place, NEW s \in Side, NEW q \in Place
  PROVE  Child(p, s) \o q = p \o At(s, q)
<1>1. p \in Seq(Side) /\ <<s>> \in Seq(Side) /\ q \in Seq(Side)
  BY DEF Place
<1>2. Child(p, s) = p \o <<s>>
  BY <1>1, AppendIsConcat DEF Child
<1>3. (p \o <<s>>) \o q = p \o (<<s>> \o q)
  BY <1>1, ConcatAssociative
<1> QED BY <1>2, <1>3 DEF At

Holds(t, p, u) ==
  \A q \in Place : /\ p \o q \in DOMAIN t <=> q \in DOMAIN u
                   /\ q \in DOMAIN u => t[p \o q] = u[q]

LEMMA EntryPlaces ==
  ASSUME NEW S, NEW names \in Seq(S), NEW g, IsEntries(g, names, S), NEW e, IsQueue(e),
         NEW k \in Nat
  PROVE  Holds(g[0], e[k], g[k])
<1>1. Len(names) \in Nat /\ \A j \in Nat : j < Len(names) => names[j + 1] \in S
  BY NameFacts
<1>2. /\ g \in [Nat -> Trees(S)]
      /\ \A j \in Nat : j >= Len(names) => g[j] = Null
      /\ \A j \in Nat : j < Len(names) => g[j] = Tree(names[j + 1], g[2 * j + 1], g[2 * j + 2])
  BY DEF IsEntries
<1>3. /\ e \in [Nat -> Place] /\ e[0] = <<>>
      /\ \A j \in Nat : e[2 * j + 1] = Child(e[j], "l") /\ e[2 * j + 2] = Child(e[j], "r")
  BY DEF IsQueue
<1> DEFINE T == { n \in Nat : Holds(g[0], e[n], g[n]) }
<1>4. "l" \in Side /\ "r" \in Side
  BY DEF Side
<1>5. ASSUME NEW n \in Nat, \A m \in Nat : m < n => m \in T PROVE n \in T
  <2>1. CASE n = 0
    <3>1. \A q \in Place : <<>> \o q = q
      BY ConcatEmptySeq DEF Place
    <3>2. Holds(g[0], <<>>, g[0])
      BY <3>1 DEF Holds
    <3> QED BY <1>3, <2>1, <3>2
  <2>2. ASSUME NEW j \in Nat, j < n, NEW s \in Side, e[n] = Child(e[j], s),
               (n = 2 * j + 1 /\ s = "l") \/ (n = 2 * j + 2 /\ s = "r")
        PROVE  n \in T
    <3>1. Holds(g[0], e[j], g[j])
      BY <1>5, <2>2
    <3>2. ASSUME NEW q \in Place
          PROVE  /\ At(s, q) \in Place
                 /\ At(s, q) \in DOMAIN g[j] <=> q \in DOMAIN g[n]
                 /\ q \in DOMAIN g[n] => g[j][At(s, q)] = g[n][q]
      <4>1. At(s, q) \in Place
        BY AtFacts
      <4>2. CASE j < Len(names)
        <5> DEFINE x == names[j + 1]
                   l == g[2 * j + 1]
                   r == g[2 * j + 2]
        <5>1. x \in S /\ l \in Trees(S) /\ r \in Trees(S) /\ g[j] = Tree(x, l, r)
          BY <1>1, <1>2, <4>2
        <5>2. (n = 2 * j + 1 /\ s = "l" /\ g[n] = l) \/ (n = 2 * j + 2 /\ s = "r" /\ g[n] = r)
          BY <2>2
        <5> HIDE DEF x, l, r
        <5>3. /\ At("l", q) \in DOMAIN g[j] <=> q \in DOMAIN l
              /\ At("r", q) \in DOMAIN g[j] <=> q \in DOMAIN r
              /\ q \in DOMAIN l => g[j][At("l", q)] = l[q]
              /\ q \in DOMAIN r => g[j][At("r", q)] = r[q]
          BY <5>1, TreeParts
        <5> QED BY <4>1, <5>2, <5>3
      <4>3. CASE ~(j < Len(names))
        <5>1. j >= Len(names) /\ n >= Len(names)
          BY <1>1, <2>2, <4>3
        <5>2. DOMAIN g[j] = {} /\ DOMAIN g[n] = {}
          BY <1>2, <5>1, NoTree
        <5> QED BY <4>1, <5>2
      <4> QED BY <4>2, <4>3
    <3>3. ASSUME NEW q \in Place PROVE e[n] \o q = e[j] \o At(s, q)
      BY <1>3, <2>2, Below
    <3>4. Holds(g[0], e[n], g[n])
      BY <3>1, <3>2, <3>3 DEF Holds
    <3> QED BY <3>4
  <2>3. ASSUME NEW j \in Nat, j < n, n = 2 * j + 1 \/ n = 2 * j + 2 PROVE n \in T
    <3>1. CASE n = 2 * j + 1
      <4>1. e[n] = Child(e[j], "l")
        BY <1>3, <3>1
      <4> QED BY <1>4, <2>2, <2>3, <3>1, <4>1
    <3>2. CASE n = 2 * j + 2
      <4>1. e[n] = Child(e[j], "r")
        BY <1>3, <3>2
      <4> QED BY <1>4, <2>2, <2>3, <3>2, <4>1
    <3> QED BY <2>3, <3>1, <3>2
  <2> QED BY <2>1, <2>3, Parent
<1> HIDE DEF T
<1>6. Nat \subseteq T
  BY <1>5, FromBelow
<1> QED BY <1>6 DEF T

LEMMA BuiltPlaces ==
  ASSUME NEW S, NEW names \in Seq(S), 2 * Len(names) < QueueSize, NEW e, IsQueue(e)
  PROVE  /\ Built(names) \in Trees(S)
         /\ \A k \in Nat : e[k] \in DOMAIN Built(names) <=> k < Len(names)
         /\ \A k \in Nat : k < Len(names) => Built(names)[e[k]] = names[k + 1]
<1>1. PICK g : IsEntries(g, names, S) /\ Built(names) = g[0]
  BY EntriesExist
<1>2. /\ g \in [Nat -> Trees(S)]
      /\ \A j \in Nat : j >= Len(names) => g[j] = Null
      /\ \A j \in Nat : j < Len(names) => g[j] = Tree(names[j + 1], g[2 * j + 1], g[2 * j + 2])
  BY <1>1 DEF IsEntries
<1>3. Len(names) \in Nat /\ \A j \in Nat : j < Len(names) => names[j + 1] \in S
  BY NameFacts
<1>4. ASSUME NEW k \in Nat
      PROVE  /\ e[k] \in DOMAIN g[0] <=> k < Len(names)
             /\ k < Len(names) => g[0][e[k]] = names[k + 1]
  <2>1. Holds(g[0], e[k], g[k])
    BY <1>1, EntryPlaces
  <2>2. e[k] \o <<>> = e[k]
    <3>1. e[k] \in Place
      BY DEF IsQueue
    <3> QED BY <3>1, ConcatEmptySeq DEF Place
  <2>3. /\ e[k] \in DOMAIN g[0] <=> <<>> \in DOMAIN g[k]
        /\ <<>> \in DOMAIN g[k] => g[0][e[k]] = g[k][<<>>]
    BY <2>1, <2>2, Root DEF Holds
  <2>4. CASE k < Len(names)
    <3>1. /\ g[k] = Tree(names[k + 1], g[2 * k + 1], g[2 * k + 2]) /\ names[k + 1] \in S
          /\ g[2 * k + 1] \in Trees(S) /\ g[2 * k + 2] \in Trees(S)
      BY <1>2, <1>3, <2>4
    <3>2. <<>> \in DOMAIN g[k] /\ g[k][<<>>] = names[k + 1]
      BY <3>1, TreeParts
    <3> QED BY <2>3, <2>4, <3>2
  <2>5. CASE ~(k < Len(names))
    <3>1. g[k] = Null
      BY <1>2, <1>3, <2>5
    <3> QED BY <2>3, <2>5, <3>1, NoTree
  <2> QED BY <2>4, <2>5
<1>5. g[0] \in Trees(S)
  BY <1>2
<1> QED BY <1>1, <1>4, <1>5

(***************************************************************************)
(* countNodes counts the nodes, and the last level has one.                *)
(***************************************************************************)
Counted(t) == IsFiniteSet(DOMAIN t) /\ Cardinality(DOMAIN t) = countNodes(t)

LEMMA SameBelow ==
  ASSUME NEW s \in Side, NEW D \in SUBSET Place, IsFiniteSet(D)
  PROVE  /\ IsFiniteSet({ At(s, q) : q \in D })
         /\ Cardinality({ At(s, q) : q \in D }) = Cardinality(D)
<1> DEFINE E == { At(s, q) : q \in D }
           f == [q \in D |-> At(s, q)]
<1>1. f \in [D -> E] /\ \A m \in E : \E k \in D : f[k] = m
  OBVIOUS
<1>2. ASSUME NEW k \in D, NEW l \in D, f[k] = f[l] PROVE k = l
  <2>1. At(s, k) = At(s, l)
    BY <1>2
  <2> QED BY <2>1, AtSame
<1> HIDE DEF E, f
<1>3. Cardinality(E) = Cardinality(D)
  BY <1>1, <1>2, SameSize
<1>4. f \in Surjection(D, E)
  BY <1>1 DEF Surjection
<1>5. IsFiniteSet(E)
  BY <1>4, FS_Surjection
<1> QED BY <1>3, <1>5 DEF E

LEMMA AllCounted ==
  ASSUME NEW S, NEW t \in Trees(S)
  PROVE  Counted(t)
<1> DEFINE X == { u \in Trees(S) : Counted(u) }
<1>1. Null \in X
  <2>1. Null \in Trees(S) /\ DOMAIN Null = {} /\ countNodes(Null) = 0
    BY NoTree, CountNodesParts
  <2> QED BY <2>1, FS_EmptySet DEF Counted
<1>2. ASSUME NEW x \in S, NEW l \in Trees(S), NEW r \in Trees(S), l \in X, r \in X
      PROVE  Tree(x, l, r) \in X
  <2> DEFINE u == Tree(x, l, r)
             L == { At("l", q) : q \in DOMAIN l }
             R == { At("r", q) : q \in DOMAIN r }
  <2>1. "l" \in Side /\ "r" \in Side /\ "l" # "r"
    BY DEF Side
  <2>2. DOMAIN l \in SUBSET Place /\ DOMAIN r \in SUBSET Place
    BY TreeFacts
  <2>3. IsFiniteSet(DOMAIN l) /\ IsFiniteSet(DOMAIN r)
    BY <1>2 DEF Counted
  <2>4. IsFiniteSet(L) /\ Cardinality(L) = Cardinality(DOMAIN l)
    BY <2>1, <2>2, <2>3, SameBelow
  <2>5. IsFiniteSet(R) /\ Cardinality(R) = Cardinality(DOMAIN r)
    BY <2>1, <2>2, <2>3, SameBelow
  <2>6. L \intersect R = {}
    <3>1. ASSUME NEW p \in DOMAIN l, NEW q \in DOMAIN r, At("l", p) = At("r", q) PROVE FALSE
      BY <2>1, <2>2, <3>1, AtSame
    <3> QED BY <3>1
  <2>7. <<>> \notin L \union R
    <3>1. \A q \in Place : At("l", q) # <<>> /\ At("r", q) # <<>>
      BY <2>1, AtFacts
    <3> QED BY <2>2, <3>1
  <2>8. DOMAIN u = (L \union R) \union { <<>> }
    BY DEF Tree, At
  <2>9. Cardinality(L) \in Nat /\ Cardinality(R) \in Nat
    BY <2>4, <2>5, FS_CardinalityType
  <2>10. /\ IsFiniteSet(L \union R)
         /\ Cardinality(L \union R) = Cardinality(L) + Cardinality(R)
    <3> HIDE DEF L, R
    <3>1. /\ IsFiniteSet(L \union R)
          /\ Cardinality(L \union R) = Cardinality(L) + Cardinality(R) - Cardinality(L \intersect R)
      BY <2>4, <2>5, FS_Union
    <3>2. Cardinality(L \intersect R) = 0
      BY <2>6, FS_EmptySet
    <3> QED BY <2>9, <3>1, <3>2
  <2>11. /\ IsFiniteSet(DOMAIN u)
         /\ Cardinality(DOMAIN u) = (Cardinality(L) + Cardinality(R)) + 1
    <3> HIDE DEF L, R, u
    <3> QED BY <2>7, <2>8, <2>10, FS_AddElement
  <2>12. countNodes(u) = 1 + countNodes(l) + countNodes(r)
    BY CountNodesParts
  <2>13. countNodes(l) = Cardinality(L) /\ countNodes(r) = Cardinality(R)
    BY <1>2, <2>4, <2>5 DEF Counted
  <2>14. u \in Trees(S)
    BY TreeParts
  <2> HIDE DEF L, R, u
  <2>15. u \in X
    BY <2>9, <2>11, <2>12, <2>13, <2>14 DEF Counted
  <2> QED BY <2>15 DEF u
<1> HIDE DEF X
<1>3. Trees(S) \subseteq X
  BY <1>1, <1>2, TreeInduction
<1> QED BY <1>3 DEF X

Reaches(t) == countLevels(t) # 0 => \E p \in DOMAIN t : Len(p) + 1 = countLevels(t)

LEMMA AllReach ==
  ASSUME NEW S, NEW t \in Trees(S)
  PROVE  Reaches(t)
<1> DEFINE X == { u \in Trees(S) : Reaches(u) }
<1>1. Null \in X
  BY NoTree, CountLevelsParts DEF Reaches
<1>2. ASSUME NEW x \in S, NEW l \in Trees(S), NEW r \in Trees(S), l \in X, r \in X
      PROVE  Tree(x, l, r) \in X
  <2> DEFINE u == Tree(x, l, r)
             i == countLevels(l)
             j == countLevels(r)
  <2>1. /\ u \in Trees(S) /\ <<>> \in DOMAIN u
        /\ \A q \in Place : /\ At("l", q) \in DOMAIN u <=> q \in DOMAIN l
                            /\ At("r", q) \in DOMAIN u <=> q \in DOMAIN r
    BY TreeParts
  <2>2. i \in Nat /\ j \in Nat /\ countLevels(u) = 1 + (IF i > j THEN i ELSE j)
    BY CountLevelsParts
  <2>3. "l" \in Side /\ "r" \in Side
    BY DEF Side
  <2>4. Reaches(l) /\ Reaches(r) /\ DOMAIN l \subseteq Place /\ DOMAIN r \subseteq Place
    BY <1>2, TreeFacts
  <2> HIDE DEF u
  <2>5. CASE i > j
    <3>1. PICK p \in DOMAIN l : Len(p) + 1 = i
      BY <2>2, <2>4, <2>5 DEF Reaches
    <3>2. p \in Place /\ At("l", p) \in DOMAIN u /\ Len(At("l", p)) = Len(p) + 1
      BY <2>1, <2>3, <2>4, <3>1, AtFacts
    <3>3. Len(At("l", p)) + 1 = countLevels(u)
      BY <2>2, <2>5, <3>1, <3>2
    <3> QED BY <2>1, <3>2, <3>3 DEF Reaches, u
  <2>6. CASE ~(i > j) /\ j # 0
    <3>1. PICK p \in DOMAIN r : Len(p) + 1 = j
      BY <2>2, <2>4, <2>6 DEF Reaches
    <3>2. p \in Place /\ At("r", p) \in DOMAIN u /\ Len(At("r", p)) = Len(p) + 1
      BY <2>1, <2>3, <2>4, <3>1, AtFacts
    <3>3. Len(At("r", p)) + 1 = countLevels(u)
      BY <2>2, <2>6, <3>1, <3>2
    <3> QED BY <2>1, <3>2, <3>3 DEF Reaches, u
  <2>7. CASE ~(i > j) /\ j = 0
    <3>1. Len(<<>>) + 1 = countLevels(u)
      BY <2>2, <2>7, Root
    <3> QED BY <2>1, <3>1 DEF Reaches, u
  <2> QED BY <2>5, <2>6, <2>7
<1> HIDE DEF X
<1>3. Trees(S) \subseteq X
  BY <1>1, <1>2, TreeInduction
<1> QED BY <1>3 DEF X

(***************************************************************************)
(* The tree built from as many names as the queue has room for is complete. *)
(***************************************************************************)
Full(t) == \A k \in 1..countLevels(t) - 1 : [1..k-1 -> Side] \subseteq DOMAIN t

LEMMA BuiltComplete ==
  ASSUME NEW S, NEW names \in Seq(S), 2 * Len(names) < QueueSize
  PROVE  /\ breadthFirst(Built(names)) = names
         /\ countNodes(Built(names)) = Len(names)
         /\ Full(Built(names))
<1> DEFINE t == Built(names)
           n == Len(names)
<1>1. PICK q : IsRounds(q)
  BY RoundsExist
<1>2. ASSUME NEW e, IsQueue(e)
      PROVE  /\ t \in Trees(S)
             /\ \A k \in Nat : e[k] \in DOMAIN t <=> k < n
             /\ \A k \in Nat : k < n => t[e[k]] = names[k + 1]
  BY <1>2, BuiltPlaces
<1>3. n \in Nat /\ names \in [1..n -> S]
  BY LenProperties
<1> HIDE DEF t
<1>4. Counted(t) /\ Reaches(t) /\ t \in Trees(S)
  BY <1>1, <1>2, RoundsAreQueue, AllCounted, AllReach
<1>5. Cardinality(DOMAIN t) = n
  <2> DEFINE e == [k \in Nat |-> q[k][k + 1]]
             A == 0..n-1
             B == DOMAIN t
             f == [k \in A |-> e[k]]
  <2>1. IsQueue(e)
    BY <1>1, RoundsAreQueue
  <2> HIDE DEF e
  <2>2. /\ \A k, l \in Nat : e[k] = e[l] => k = l
        /\ \A p \in Place : \E k \in Nat : e[k] = p
    BY <2>1, QueueFacts
  <2>3. \A k \in Nat : e[k] \in B <=> k < n
    BY <1>2, <2>1
  <2>4. f \in [A -> B]
    BY <1>3, <2>3
  <2>5. \A k, l \in A : f[k] = f[l] => k = l
    BY <2>2
  <2>6. ASSUME NEW p \in B PROVE \E k \in A : f[k] = p
    <3>1. PICK k \in Nat : e[k] = p
      BY <1>4, <2>2, TreeFacts
    <3>2. k \in A
      BY <1>3, <2>3, <3>1
    <3> QED BY <3>1, <3>2
  <2>7. IsFiniteSet(A) /\ Cardinality(A) = n
    <3>1. n \in Nat
      BY <1>3
    <3> HIDE DEF n
    <3>2. /\ IsFiniteSet(0..n-1)
          /\ Cardinality(0..n-1) = IF 0 > n-1 THEN 0 ELSE n-1-0+1
      <4>1. 0 \in Int /\ n-1 \in Int
        BY <3>1
      <4> QED BY <4>1, FS_Interval
    <3> QED BY <3>1, <3>2 DEF A
  <2> HIDE DEF A, B, f
  <2>8. Cardinality(B) = Cardinality(A)
    BY <2>4, <2>5, <2>6, <2>7, SameSize
  <2> QED BY <2>7, <2>8 DEF B
<1>6. countNodes(t) = n
  BY <1>4, <1>5 DEF Counted
<1>7. Full(t)
  <2> DEFINE e == [k \in Nat |-> q[k][k + 1]]
  <2>1. IsQueue(e)
    BY <1>1, RoundsAreQueue
  <2> HIDE DEF e
  <2> SUFFICES ASSUME NEW k \in 1..countLevels(t)-1, NEW p \in [1..k-1 -> Side]
               PROVE  p \in DOMAIN t
    BY DEF Full
  <2>2. countLevels(t) \in Nat /\ countLevels(t) # 0 /\ k \in Nat /\ k - 1 \in Nat /\ k < countLevels(t)
    BY <1>4, CountLevelsParts
  <2>3. p \in Place /\ Len(p) = k - 1
    BY <2>2 DEF Place
  <2>4. PICK x \in DOMAIN t : Len(x) + 1 = countLevels(t)
    BY <1>4, <2>2 DEF Reaches
  <2>5. x \in Place /\ Len(x) \in Nat
    BY <1>4, TreeFacts, PlaceFacts
  <2>6. PICK i \in Nat : e[i] = p
    BY <2>1, <2>3, QueueFacts
  <2>7. PICK j \in Nat : e[j] = x
    BY <2>1, <2>5, QueueFacts
  <2>8. ~(j <= i)
    <3>1. j <= i => Len(x) <= Len(p)
      BY <2>1, <2>6, <2>7, QueueFacts
    <3> QED BY <2>2, <2>3, <2>4, <2>5, <3>1
  <2>9. j < n
    BY <1>2, <2>1, <2>7
  <2>10. i < n
    BY <1>3, <2>8, <2>9
  <2> QED BY <1>2, <2>1, <2>6, <2>10
<1>8. breadthFirst(t) = names
  <2> DEFINE Body(g) == [k \in Nat |->
               IF k = 0 THEN << <<>> >>
               ELSE g[k - 1] \o <<Child(g[k - 1][k], "l"), Child(g[k - 1][k], "r")>>]
             g == CHOOSE h : h = Body(h)
             back == CHOOSE k \in 0..Cardinality(DOMAIN t) :
                       /\ g[k][k + 1] \notin DOMAIN t
                       /\ \A j \in 0..k-1 : g[j][j + 1] \in DOMAIN t
  <2>1. breadthFirst(t) = IF 2 * back >= QueueSize THEN Undefined
                           ELSE [k \in 1..back |-> t[g[k - 1][k]]]
    BY DEF breadthFirst
  <2>2. ASSUME NEW h, h = Body(h), NEW k \in Nat
        PROVE  /\ h[0] = << <<>> >>
               /\ h[k + 1] = Round(h[k], k + 1)
               /\ h = [j \in Nat |-> h[j]]
    <3>1. h[0] = Body(h)[0] /\ h[k + 1] = Body(h)[k + 1]
      BY <2>2
    <3>2. k + 1 \in Nat /\ k + 1 # 0 /\ (k + 1) - 1 = k
      OBVIOUS
    <3> QED BY <2>2, <3>1, <3>2 DEF Round
  <2>3. q = Body(q)
    <3>1. /\ q \in [Nat -> Seq(Place)] /\ q[0] = << <<>> >>
          /\ \A k \in Nat : q[k + 1] = Round(q[k], k + 1)
      BY <1>1 DEF IsRounds, Round
    <3>2. ASSUME NEW k \in Nat PROVE q[k] = Body(q)[k]
      <4>1. CASE k = 0
        BY <3>1, <4>1
      <4>2. CASE k # 0
        <5>1. k - 1 \in Nat /\ (k - 1) + 1 = k
          BY <4>2
        <5>2. q[k] = Round(q[k - 1], k)
          BY <3>1, <5>1
        <5> QED BY <4>2, <5>2 DEF Round
      <4> QED BY <4>1, <4>2
    <3> QED BY <3>1, <3>2
  <2>4. g = Body(g)
    <3> HIDE DEF Body
    <3> QED BY <2>3
  <2> HIDE DEF Body, g
  <2>5. g = q
    <3>1. q[0] = << <<>> >> /\ g[0] = << <<>> >>
      BY <2>2, <2>3, <2>4
    <3> DEFINE T == { k \in Nat : g[k] = q[k] }
    <3>0. 0 \in T
      BY <3>1
    <3>2. ASSUME NEW k \in Nat, k \in T PROVE k + 1 \in T
      <4>1. g[k + 1] = Round(g[k], k + 1)
        BY <2>2, <2>4
      <4>2. q[k + 1] = Round(q[k], k + 1)
        BY <2>2, <2>3
      <4> QED BY <3>2, <4>1, <4>2
    <3> HIDE DEF T
    <3>3. Nat \subseteq T
      BY <3>0, <3>2, NatIsInductive
    <3>4. g = [k \in Nat |-> g[k]] /\ q = [k \in Nat |-> q[k]]
      BY <2>2, <2>3, <2>4
    <3> QED BY <3>3, <3>4 DEF T
  <2> DEFINE e == [k \in Nat |-> q[k][k + 1]]
  <2>6. IsQueue(e)
    BY <1>1, RoundsAreQueue
  <2>7. \A k \in Nat : g[k][k + 1] = e[k]
    BY <2>5
  <2> HIDE DEF e
  <2>8. /\ \A k \in Nat : e[k] \in DOMAIN t <=> k < n
        /\ \A k \in Nat : k < n => t[e[k]] = names[k + 1]
    BY <1>2, <2>6
  <2>9. back = n
    <3>1. ASSUME NEW k \in 0..Cardinality(DOMAIN t)
          PROVE  (/\ g[k][k + 1] \notin DOMAIN t
                  /\ \A j \in 0..k-1 : g[j][j + 1] \in DOMAIN t)
                 <=> k = n
      <4>1. k \in Nat /\ (g[k][k + 1] \notin DOMAIN t <=> ~(k < n))
        BY <1>3, <1>5, <2>7, <2>8
      <4>2. \A j \in 0..k-1 : g[j][j + 1] \in DOMAIN t <=> j < n
        BY <4>1, <2>7, <2>8
      <4>3. CASE k = n
        BY <1>3, <4>1, <4>2, <4>3
      <4>4. CASE k # n
        <5>1. k <= n
          BY <1>3, <1>5
        <5> QED BY <1>3, <4>1, <4>4, <5>1
      <4> QED BY <4>3, <4>4
    <3>2. n \in 0..Cardinality(DOMAIN t)
      BY <1>3, <1>5
    <3> QED BY <3>1, <3>2
  <2> HIDE DEF back
  <2>10. ASSUME NEW k \in 1..n PROVE t[g[k - 1][k]] = names[k]
    <3>1. k - 1 \in Nat /\ (k - 1) + 1 = k /\ k - 1 < n
      BY <1>3
    <3> QED BY <2>7, <2>8, <3>1
  <2>11. ~(2 * n >= QueueSize)
    BY <1>3, QueueAssumption
  <2>12. breadthFirst(t) = [k \in 1..n |-> t[g[k - 1][k]]]
    BY <2>1, <2>9, <2>11
  <2> QED BY <1>3, <2>10, <2>12
<1> QED BY <1>6, <1>7, <1>8 DEF t

(* Seven names make a tree of three levels. *)
LEMMA BuiltOfSeven ==
  ASSUME NEW a, NEW b, NEW c, NEW d, NEW e, NEW f, NEW h
  PROVE  inorder(Built(<<a, b, c, d, e, f, h>>)) = <<d, b, e, a, f, c, h>>
<1> DEFINE S == {a, b, c, d, e, f, h}
           names == <<a, b, c, d, e, f, h>>
<1>0. a \in S /\ b \in S /\ c \in S /\ d \in S /\ e \in S /\ f \in S /\ h \in S
  OBVIOUS
<1>1. /\ names \in Seq(S) /\ Len(names) = 7
      /\ names[1] = a /\ names[2] = b /\ names[3] = c /\ names[4] = d
      /\ names[5] = e /\ names[6] = f /\ names[7] = h
  OBVIOUS
<1> HIDE DEF S, names
<1>2. PICK g : IsEntries(g, names, S) /\ Built(names) = g[0]
  <2>1. 2 * Len(names) < QueueSize
    BY <1>1, QueueAssumption
  <2> QED BY <1>1, <2>1, EntriesExist
<1>3. /\ \A k \in Nat : k >= 7 => g[k] = Null
      /\ \A k \in Nat : k < 7 => g[k] = Tree(names[k + 1], g[2 * k + 1], g[2 * k + 2])
  BY <1>1, <1>2 DEF IsEntries
<1>4. \A k \in 7..14 : g[k] = Null
  BY <1>3
<1>5. g[3] = Leaf(d)
  <2>1. g[3] = Tree(names[3 + 1], g[2 * 3 + 1], g[2 * 3 + 2])
    BY <1>3
  <2> QED BY <1>1, <1>4, <2>1 DEF Leaf
<1>6. g[4] = Leaf(e)
  <2>1. g[4] = Tree(names[4 + 1], g[2 * 4 + 1], g[2 * 4 + 2])
    BY <1>3
  <2> QED BY <1>1, <1>4, <2>1 DEF Leaf
<1>7. g[5] = Leaf(f)
  <2>1. g[5] = Tree(names[5 + 1], g[2 * 5 + 1], g[2 * 5 + 2])
    BY <1>3
  <2> QED BY <1>1, <1>4, <2>1 DEF Leaf
<1>8. g[6] = Leaf(h)
  <2>1. g[6] = Tree(names[6 + 1], g[2 * 6 + 1], g[2 * 6 + 2])
    BY <1>3
  <2> QED BY <1>1, <1>4, <2>1 DEF Leaf
<1>9. g[1] = Tree(b, Leaf(d), Leaf(e))
  <2>1. g[1] = Tree(names[1 + 1], g[2 * 1 + 1], g[2 * 1 + 2])
    BY <1>3
  <2> QED BY <1>1, <1>5, <1>6, <2>1
<1>10. g[2] = Tree(c, Leaf(f), Leaf(h))
  <2>1. g[2] = Tree(names[2 + 1], g[2 * 2 + 1], g[2 * 2 + 2])
    BY <1>3
  <2> QED BY <1>1, <1>7, <1>8, <2>1
<1>11. g[0] = Tree(a, g[1], g[2])
  <2>1. g[0] = Tree(names[0 + 1], g[2 * 0 + 1], g[2 * 0 + 2])
    BY <1>3
  <2> QED BY <1>1, <2>1
<1>12. ASSUME NEW x \in S, NEW y \in S, NEW z \in S
       PROVE  /\ Tree(x, Leaf(y), Leaf(z)) \in Trees(S)
              /\ inorder(Tree(x, Leaf(y), Leaf(z))) = <<y, x, z>>
  <2>1. Leaf(y) \in Trees(S) /\ Leaf(z) \in Trees(S)
    BY LeafParts
  <2>2. inorder(Leaf(y)) = <<y>> /\ inorder(Leaf(z)) = <<z>>
    BY LeafParts
  <2>3. inorder(Tree(x, Leaf(y), Leaf(z))) = (inorder(Leaf(y)) \o <<x>>) \o inorder(Leaf(z))
    BY <2>1, InorderParts
  <2>4. <<y>> \o <<x>> = <<y, x>> /\ <<y, x>> \o <<z>> = <<y, x, z>>
    BY Chain11, Chain21
  <2> QED BY <2>1, <2>2, <2>3, <2>4, TreeParts
<1>13. g[1] \in Trees(S) /\ g[2] \in Trees(S)
  BY <1>0, <1>9, <1>10, <1>12
<1>14. inorder(g[1]) = <<d, b, e>>
  BY <1>0, <1>9, <1>12
<1>15. inorder(g[2]) = <<f, c, h>>
  BY <1>0, <1>10, <1>12
<1>16. inorder(g[0]) = (inorder(g[1]) \o <<a>>) \o inorder(g[2])
  BY <1>0, <1>11, <1>13, InorderParts
<1>17. <<d, b, e>> \o <<a>> = <<d, b, e, a>>
  BY Chain31
<1>18. <<d, b, e, a>> \o <<f, c, h>> = <<d, b, e, a, f, c, h>>
  BY Chain43
<1> QED BY <1>2, <1>14, <1>15, <1>16, <1>17, <1>18 DEF names

(* For a queue of any size, the tree built from as many names as it has    *)
(* room for is complete: all of them, level by level in the order given,   *)
(* every level full but the last, and the breadth-first print reaches all  *)
(* of it; and so for the names in the comment of tree6.c.                  *)
THEOREM BuildsComplete == SortSpec => []Complete
<1> DEFINE Input == data \in Seq(Number)
<1>1. DataInit => Input
  BY DEF DataInit
<1>2. Input /\ [\E v \in Number : ReadLine(v)]_data => Input'
  BY DEF ReadLine
<1>3. Input => Complete
  <2> SUFFICES ASSUME data \in Seq(Number) PROVE Complete
    OBVIOUS
  <2>1. ASSUME 2 * Len(data) < QueueSize
        PROVE  /\ breadthFirst(Built(data)) = data
               /\ countNodes(Built(data)) = Len(data)
               /\ Full(Built(data))
    BY <2>1, BuiltComplete
  <2>2. inorder(Built(<<"giselle", "magda", "aviva", "ahnk", "havi", "minna", "monique">>))
          = <<"ahnk", "magda", "havi", "giselle", "minna", "aviva", "monique">>
    BY BuiltOfSeven
  <2> QED BY <2>1, <2>2 DEF Complete, Full
<1> HIDE DEF Input
<1> QED BY <1>1, <1>2, <1>3, PTL DEF SortSpec

(* The two programs side by side: every behaviour of the model that the    *)
(* run checks is one of each program, so that what is proved of either     *)
(* holds there.                                                            *)
THEOREM BothPrograms == Spec => [](Ordered /\ Rotates /\ Sorts /\ Complete) /\ LosesOnly
<1>1. Init => TreeInit /\ DataInit
  BY DEF Init
<1>2. [Next]_<<root, data>> => [TreeNext]_root
  BY DEF Next
<1>3. [Next]_<<root, data>> => [\E v \in Number : ReadLine(v)]_data
  BY DEF Next, SortNext
<1>4. Spec => TreeSpec
  BY <1>1, <1>2, PTL DEF Spec, TreeSpec
<1>5. Spec => SortSpec
  BY <1>1, <1>3, PTL DEF Spec, SortSpec
<1> QED BY <1>4, <1>5, StaysOrdered, RotatesAnyTree, SortingSorts, BuildsComplete, LosesLittle, PTL

=============================================================================
