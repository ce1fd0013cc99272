--------------------------- MODULE WRServerProofs ---------------------------
(***************************************************************************)
(* The safety properties of the resource server, for any number of readers *)
(* and any size of the resource.                                           *)
(***************************************************************************)
EXTENDS WRServer, FiniteSetTheorems, TLAPS

LEMMA Constants ==
  /\ IsFiniteSet(Reader) /\ Cardinality(Reader) \in Nat
  /\ Size \in Nat /\ Size > 0 /\ Copies \in Nat /\ Copies > 0
  /\ Limit \in Nat /\ Limit > 2 /\ Copies * Size \in Nat /\ Permits = 2
BY ServerAssumption, FS_CardinalityType DEF ServerAssumption, Permits

-----------------------------------------------------------------------------
(***************************************************************************)
(* Who holds which semaphore                                               *)
(***************************************************************************)

(* TypeOK without the bounds that need counting. *)
Types ==
  /\ flg \in 0..1 /\ flg1 \in 0..1 /\ flg2 \in Nat /\ cor \in Int
  /\ res \in [1..Size -> 0..Limit-1]
  /\ wpc \in {"flg2", "flg", "fill", "release", "leave", "sleep"}
  /\ i \in 1..Size+1 /\ value \in 1..Limit-1
  /\ wpc = "fill" => i <= Size
  /\ rpc \in [Reader -> {"none", "flg2", "pass", "flg1", "flg", "count", "send",
                         "release", "again", "discount", "ended", "thrown"}]
  /\ first \in [Reader -> BOOLEAN]
  /\ n \in [Reader -> 0..Copies * Size]
  /\ sent \in [Reader -> SUBSET (0..Limit-1)]

WriterHas == wpc \in {"fill", "release"}
Has(r) == first[r] /\ rpc[r] \in {"count", "send", "release", "thrown"}
Has1(r) == rpc[r] \in {"flg", "count", "discount"}

(* flg has one holder when it is down, the dead first reader included; the *)
(* same of flg1, whose holder the others cannot overtake.                  *)
Holders ==
  /\ WriterHas => flg = 0
  /\ \A r \in Reader : Has(r) => flg = 0 /\ ~WriterHas
  /\ \A r, s \in Reader : Has(r) /\ Has(s) => r = s
  /\ \A r \in Reader : Has1(r) => flg1 = 0
  /\ \A r, s \in Reader : Has1(r) /\ Has1(s) => r = s
  /\ \A r \in Reader : rpc[r] = "flg" => first[r] /\ cor = 0
  /\ \A r \in Reader : rpc[r] = "release" => first[r]

Inv == Types /\ Holders

LEMMA InvInit == Init => Inv
BY Constants DEF Init, Inv, Types, Holders, WriterHas, Has, Has1

LEMMA InvWriter == ASSUME Inv, WriterStep PROVE Inv'
<1> USE Constants DEF Inv, Types, Holders, WriterHas, Has, Has1, WriterGoto, readers, sems
<1>1. CASE WriterEnters BY <1>1 DEF WriterEnters
<1>2. CASE WriterTakes BY <1>2 DEF WriterTakes
<1>3. CASE Fill BY <1>3 DEF Fill
<1>4. CASE WriterReleases BY <1>4 DEF WriterReleases
<1>5. CASE WriterLeaves BY <1>5 DEF WriterLeaves
<1>6. CASE WriterWakes BY <1>6 DEF WriterWakes
<1> QED BY <1>1, <1>2, <1>3, <1>4, <1>5, <1>6 DEF WriterStep

LEMMA InvReader ==
  ASSUME Inv, NEW r \in Reader, Accept(r) \/ ReaderStep(r) \/ Throw(r) PROVE Inv'
<1> USE Constants DEF Inv, Types, Holders, WriterHas, Has, Has1, Goto, At, writer, sems
<1>1. CASE Accept(r) BY <1>1 DEF Accept
<1>2. CASE Enter(r) BY <1>2 DEF Enter
<1>3. CASE Pass(r) BY <1>3 DEF Pass
<1>4. CASE Ask(r)
  <2>1. CASE cor = 0
    <3>1. first' = [first EXCEPT ![r] = TRUE] BY <1>4, <2>1 DEF Ask
    <3>2. rpc' = [rpc EXCEPT ![r] = "flg"] BY <1>4, <2>1 DEF Ask
    <3> QED BY <1>4, <2>1, <3>1, <3>2 DEF Ask
  <2>2. CASE cor # 0
    <3>1. first' = [first EXCEPT ![r] = FALSE] BY <1>4, <2>2 DEF Ask
    <3>2. rpc' = [rpc EXCEPT ![r] = "count"] BY <1>4, <2>2 DEF Ask
    <3> QED BY <1>4, <2>2, <3>1, <3>2 DEF Ask
  <2> QED BY <2>1, <2>2
<1>5. CASE Take(r) BY <1>5 DEF Take
<1>6. CASE Count(r) BY <1>6 DEF Count
<1>7. CASE Send(r) BY <1>7 DEF Send
<1>8. CASE Sentinel(r) BY <1>8 DEF Sentinel
<1>9. CASE Release(r) BY <1>9 DEF Release
<1>10. CASE Again(r) BY <1>10 DEF Again
<1>11. CASE Discount(r) BY <1>11 DEF Discount
<1>12. CASE Throw(r) BY <1>12 DEF Throw
<1> QED BY <1>1, <1>2, <1>3, <1>4, <1>5, <1>6, <1>7, <1>8, <1>9, <1>10, <1>11, <1>12
        DEF ReaderStep, Own

LEMMA InvStep == Inv /\ [Next]_vars => Inv'
<1> SUFFICES ASSUME Inv, [Next]_vars PROVE Inv'
  OBVIOUS
<1>1. CASE UNCHANGED vars
  BY <1>1 DEF Inv, Types, Holders, WriterHas, Has, Has1, vars, sems, writer, readers
<1> QED BY <1>1, InvWriter, InvReader DEF Next

-----------------------------------------------------------------------------
(***************************************************************************)
(* cor and the permits of flg2                                             *)
(***************************************************************************)

(* The readers that cor counts, the dead ones included. *)
Counted == { r \in Reader : rpc[r] \in {"send", "release", "again", "discount", "thrown"} }
Passing == { r \in Reader : rpc[r] = "pass" }

WPermit == IF wpc \in {"flg", "fill", "release", "leave"} THEN 1 ELSE 0

Counts == /\ cor = Cardinality(Counted)
          /\ flg2 + WPermit + Cardinality(Passing) = Permits

LEMMA SubsetCard ==
  ASSUME NEW S \in SUBSET Reader
  PROVE  /\ IsFiniteSet(S) /\ Cardinality(S) \in 0..Cardinality(Reader)
         /\ \A r \in Reader \ S : Cardinality(S \cup {r}) = Cardinality(S) + 1
         /\ \A r \in S : Cardinality(S \ {r}) = Cardinality(S) - 1
<1>1. IsFiniteSet(S) /\ Cardinality(S) <= Cardinality(Reader)
  BY Constants, FS_Subset
<1>2. Cardinality(S) \in Nat BY <1>1, FS_CardinalityType
<1>3. \A r \in Reader \ S : Cardinality(S \cup {r}) = Cardinality(S) + 1
  BY <1>1, FS_AddElement
<1>4. \A r \in S : Cardinality(S \ {r}) = Cardinality(S) - 1
  BY <1>1, FS_RemoveElement
<1> QED BY <1>1, <1>2, <1>3, <1>4, Constants

LEMMA CountsInit == Init => Counts
<1> SUFFICES ASSUME Init PROVE Counts
  OBVIOUS
<1>1. Counted = {} /\ Passing = {} BY DEF Init, Counted, Passing
<1>2. Cardinality({}) = 0 BY FS_EmptySet
<1> QED BY <1>1, <1>2, Constants DEF Init, Counts, WPermit

LEMMA CountsWriter == ASSUME Inv, Counts, WriterStep PROVE Counts'
<1>1. Counted' = Counted /\ Passing' = Passing /\ cor' = cor
  BY DEF WriterStep, WriterEnters, WriterTakes, Fill, WriterReleases, WriterLeaves,
         WriterWakes, readers, Counted, Passing
<1>2. Cardinality(Passing) \in Nat
  <2>1. Passing \in SUBSET Reader BY DEF Passing
  <2> QED BY <2>1, SubsetCard
<1>3. flg2' + WPermit' = flg2 + WPermit
  BY DEF Inv, Types, WriterStep, WriterEnters, WriterTakes, Fill, WriterReleases,
         WriterLeaves, WriterWakes, WriterGoto, sems, WPermit
<1>4. flg2' \in Int /\ WPermit' \in Int /\ flg2 \in Int /\ WPermit \in Int
  BY InvWriter DEF Inv, Types, WPermit
<1> QED BY <1>1, <1>2, <1>3, <1>4 DEF Counts

LEMMA CountsReader ==
  ASSUME Inv, Counts, NEW r \in Reader, Accept(r) \/ ReaderStep(r) \/ Throw(r)
  PROVE  Counts'
<1> DEFINE Same == Counted' = Counted /\ Passing' = Passing /\ cor' = cor /\ flg2' = flg2
<1> USE DEF Counted, Passing, Goto, At, Inv, Types
<1>1. Counted \in SUBSET Reader /\ Passing \in SUBSET Reader
  OBVIOUS
<1>2. wpc' = wpc /\ WPermit' = WPermit /\ WPermit \in Int
  BY DEF Accept, ReaderStep, Own, Throw, Enter, Pass, Ask, Take, Count, Send, Sentinel,
         Release, Again, Discount, writer, WPermit
<1>3. CASE Enter(r)
  <2>1. Counted' = Counted /\ cor' = cor BY <1>3 DEF Enter
  <2>2. Passing' = Passing \cup {r} /\ r \notin Passing BY <1>3 DEF Enter
  <2>3. Cardinality(Passing') = Cardinality(Passing) + 1 BY <1>1, <2>2, SubsetCard
  <2>4. flg2' = flg2 - 1 BY <1>3 DEF Enter
  <2>5. Cardinality(Passing) \in Nat BY <1>1, SubsetCard
  <2>6. flg2' + WPermit' + Cardinality(Passing') = Permits
    BY <1>2, <2>3, <2>4, <2>5 DEF Counts
  <2> QED BY <2>1, <2>6 DEF Counts
<1>4. CASE Pass(r)
  <2>1. Counted' = Counted /\ cor' = cor BY <1>4 DEF Pass
  <2>2. Passing' = Passing \ {r} /\ r \in Passing BY <1>4 DEF Pass
  <2>3. Cardinality(Passing') = Cardinality(Passing) - 1 BY <1>1, <2>2, SubsetCard
  <2>4. flg2' = flg2 + 1 BY <1>4 DEF Pass
  <2>5. Cardinality(Passing) \in Nat BY <1>1, SubsetCard
  <2>6. flg2' + WPermit' + Cardinality(Passing') = Permits
    BY <1>2, <2>3, <2>4, <2>5 DEF Counts
  <2> QED BY <2>1, <2>6 DEF Counts
<1>5. CASE Count(r)
  <2>1. Passing' = Passing /\ flg2' = flg2 BY <1>5 DEF Count
  <2>2. Counted' = Counted \cup {r} /\ r \notin Counted BY <1>5 DEF Count
  <2>3. Cardinality(Counted') = Cardinality(Counted) + 1 BY <1>1, <2>2, SubsetCard
  <2>4. cor' = cor + 1 BY <1>5 DEF Count
  <2> QED BY <1>2, <2>1, <2>3, <2>4 DEF Counts
<1>6. CASE Discount(r)
  <2>1. Passing' = Passing /\ flg2' = flg2 BY <1>6 DEF Discount
  <2>2. Counted' = Counted \ {r} /\ r \in Counted BY <1>6 DEF Discount
  <2>3. Cardinality(Counted') = Cardinality(Counted) - 1 BY <1>1, <2>2, SubsetCard
  <2>4. cor' = cor - 1 BY <1>6 DEF Discount
  <2> QED BY <1>2, <2>1, <2>3, <2>4 DEF Counts
<1>7. ASSUME Accept(r) \/ Ask(r) \/ Take(r) \/ Send(r) \/ Sentinel(r) \/ Release(r)
             \/ Again(r) \/ Throw(r)
      PROVE  Same
  <2>1. CASE Accept(r) BY <2>1 DEF Accept, sems
  <2>2. CASE Ask(r) BY <2>2 DEF Ask
  <2>3. CASE Take(r) BY <2>3 DEF Take
  <2>4. CASE Send(r) BY <2>4 DEF Send, sems
  <2>5. CASE Sentinel(r) BY <2>5 DEF Sentinel, sems
  <2>6. CASE Release(r) BY <2>6 DEF Release
  <2>7. CASE Again(r) BY <2>7 DEF Again
  <2>8. CASE Throw(r) BY <2>8 DEF Throw, sems
  <2> QED BY <1>7, <2>1, <2>2, <2>3, <2>4, <2>5, <2>6, <2>7, <2>8
<1>8. Same => Counts' BY <1>2 DEF Counts
<1> QED BY <1>3, <1>4, <1>5, <1>6, <1>7, <1>8 DEF ReaderStep, Own

LEMMA CountsStep == Inv /\ Counts /\ [Next]_vars => Counts'
<1> SUFFICES ASSUME Inv, Counts, [Next]_vars PROVE Counts'
  OBVIOUS
<1>1. CASE UNCHANGED vars
  BY <1>1 DEF Counts, Counted, Passing, WPermit, vars, sems, writer, readers
<1> QED BY <1>1, CountsWriter, CountsReader DEF Next

LEMMA CountsType == Inv /\ Counts => TypeOK
<1> SUFFICES ASSUME Inv, Counts PROVE TypeOK
  OBVIOUS
<1>1. Counted \in SUBSET Reader /\ Passing \in SUBSET Reader
  BY DEF Counted, Passing
<1>2. cor \in 0..Cardinality(Reader) BY <1>1, SubsetCard DEF Counts
<1>3. Cardinality(Passing) \in Nat BY <1>1, SubsetCard
<1>4. flg2 <= Permits BY <1>3, Constants DEF Counts, WPermit, Inv, Types
<1> QED BY <1>2, <1>4, Constants DEF Inv, Types, TypeOK

LEMMA Always == Spec => [](Inv /\ Counts)
<1>1. Init => Inv /\ Counts BY InvInit, CountsInit
<1>2. Inv /\ Counts /\ [Next]_vars => (Inv /\ Counts)' BY InvStep, CountsStep
<1> QED BY <1>1, <1>2, PTL DEF Spec

(* No semaphore ever has more permits than it began with, and cor is the   *)
(* number of some readers: a lost client keeps permits, it makes none.     *)
THEOREM TypeCorrect == Spec => []TypeOK
BY Always, CountsType, PTL

-----------------------------------------------------------------------------
(***************************************************************************)
(* The first reader is alone                                               *)
(***************************************************************************)

LEMMA AloneAtFlg ==
  ASSUME Inv, Counts, NEW r \in Reader, At(r, "flg"), NEW s \in Reader \ {r}
  PROVE  ~Begun(s)
<1>1. cor = 0 BY DEF Inv, Holders, At
<1>2. IsFiniteSet(Counted)
  <2>1. Counted \in SUBSET Reader BY DEF Counted
  <2> QED BY <2>1, SubsetCard
<1>3. Counted = {} BY <1>1, <1>2, FS_EmptySet DEF Counts
<1>4. rpc[s] # "count" BY DEF Inv, Holders, Has1, At
<1> QED BY <1>3, <1>4 DEF Counted, Begun

(* A reader takes flg only when every other one has ended or not begun,    *)
(* however the threads interleave and whichever clients are lost.          *)
THEOREM Alone == Spec => FirstAlone
<1>1. Inv /\ Counts =>
        [ \A r \in Reader : At(r, "flg") /\ rpc'[r] = "count"
            => \A s \in Reader \ {r} : ~Begun(s) ]_vars
  BY AloneAtFlg
<1> QED BY <1>1, Always, PTL DEF FirstAlone

-----------------------------------------------------------------------------
(***************************************************************************)
(* What the first reader sends                                             *)
(***************************************************************************)

(* The resource is uniform but for the writer's work in progress, and what *)
(* the holder of flg has sent are bytes of the resource as it is.          *)
Whole ==
  /\ wpc = "fill" => \A k \in 1..Size : k < i => res[k] = value
  /\ wpc # "fill" => \A k \in 1..Size : res[k] = res[1]
  /\ \A r \in Reader : Has(r) => sent[r] \subseteq {res[1]}
  /\ \A r \in Reader : first[r] => \A a, b \in sent[r] : a = b
  /\ \A r \in Reader : rpc[r] \in {"none", "flg2", "pass", "flg1", "flg", "count"}
                         => sent[r] = {}

LEMMA WholeInit == Init => Whole
BY Constants DEF Init, Whole, Has

LEMMA WholeWriter == ASSUME Inv, Whole, WriterStep PROVE Whole'
<1> USE Constants DEF Inv, Types, Holders, WriterHas, Has, Whole, WriterGoto, readers, sems
<1>1. CASE WriterEnters BY <1>1 DEF WriterEnters
<1>2. CASE WriterTakes BY <1>2 DEF WriterTakes
<1>3. CASE Fill
  <2>1. \A r \in Reader : ~Has(r)' BY <1>3 DEF Fill
  <2>2. \A k \in 1..Size : k <= i => res'[k] = value BY <1>3 DEF Fill
  <2> QED BY <1>3, <2>1, <2>2 DEF Fill
<1>4. CASE WriterReleases BY <1>4 DEF WriterReleases
<1>5. CASE WriterLeaves BY <1>5 DEF WriterLeaves
<1>6. CASE WriterWakes BY <1>6 DEF WriterWakes
<1> QED BY <1>1, <1>2, <1>3, <1>4, <1>5, <1>6 DEF WriterStep

LEMMA WholeReader ==
  ASSUME Inv, Whole, NEW r \in Reader, Accept(r) \/ ReaderStep(r) \/ Throw(r)
  PROVE  Whole'
<1> USE Constants DEF Inv, Types, Holders, WriterHas, Has, Whole, Goto, At, writer, sems
<1>1. CASE Accept(r) BY <1>1 DEF Accept
<1>2. CASE Enter(r) BY <1>2 DEF Enter
<1>3. CASE Pass(r) BY <1>3 DEF Pass
<1>4. CASE Ask(r) BY <1>4 DEF Ask
<1>5. CASE Take(r) BY <1>5 DEF Take
<1>6. CASE Count(r) BY <1>6 DEF Count
<1>7. CASE Send(r)
  <2> DEFINE byte == res[(n[r] % Size) + 1]
  <2>1. (n[r] % Size) + 1 \in 1..Size OBVIOUS
  <2>2. first[r] => byte = res[1] BY <1>7, <2>1 DEF Send
  <2>3. sent' = [sent EXCEPT ![r] = @ \cup {byte}] /\ UNCHANGED <<rpc, first, res, wpc, i, value>>
    BY <1>7 DEF Send
  <2> HIDE DEF byte
  <2> QED BY <1>7, <2>2, <2>3 DEF Send
<1>8. CASE Sentinel(r) BY <1>8 DEF Sentinel
<1>9. CASE Release(r) BY <1>9 DEF Release
<1>10. CASE Again(r) BY <1>10 DEF Again
<1>11. CASE Discount(r) BY <1>11 DEF Discount
<1>12. CASE Throw(r) BY <1>12 DEF Throw
<1> QED BY <1>1, <1>2, <1>3, <1>4, <1>5, <1>6, <1>7, <1>8, <1>9, <1>10, <1>11, <1>12
        DEF ReaderStep, Own

LEMMA WholeStep == Inv /\ Whole /\ [Next]_vars => Whole'
<1> SUFFICES ASSUME Inv, Whole, [Next]_vars PROVE Whole'
  OBVIOUS
<1>1. CASE UNCHANGED vars BY <1>1 DEF Whole, Has, vars, sems, writer, readers
<1> QED BY <1>1, WholeWriter, WholeReader DEF Next

LEMMA WholeFirst == Whole => FirstWhole
<1> SUFFICES ASSUME Whole, NEW r \in Reader, first[r] PROVE Cardinality(sent[r]) <= 1
  BY DEF FirstWhole
<1>1. CASE sent[r] = {} BY <1>1, FS_EmptySet
<1>2. ASSUME NEW a \in sent[r] PROVE Cardinality(sent[r]) <= 1
  <2>1. sent[r] = {a} BY <1>2 DEF Whole
  <2> QED BY <2>1, FS_Singleton
<1> QED BY <1>1, <1>2

(* All the bytes that a first reader ever sends are of one value: for any  *)
(* number of copies the writer stays out until that reader has finished.   *)
THEOREM FirstSendsWhole == Spec => []FirstWhole
<1>1. Init => Inv /\ Whole BY InvInit, WholeInit
<1>2. Inv /\ Whole /\ [Next]_vars => (Inv /\ Whole)' BY InvStep, WholeStep
<1> QED BY <1>1, <1>2, WholeFirst, PTL DEF Spec
=============================================================================
