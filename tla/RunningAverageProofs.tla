------------------------ MODULE RunningAverageProofs ------------------------
(***************************************************************************)
(* Proofs about the ring of the client: its indices, and the average of    *)
(* the last minute, for any length of the ring, of the minute and of the   *)
(* reads.                                                                  *)
(***************************************************************************)
EXTENDS RunningAverage, FiniteSetTheorems, SequenceTheorems, TLAPS

(* The numbers still to be handled are among those counted by the bound,   *)
(* start_ptr is set before the first average, and nothing is done after    *)
(* the ring was written past its end.                                      *)
Room ==
  /\ wild => pc = "select"
  /\ Len(arrived) + left <= MaxNumbers
  /\ pc = "average" => start_ptr >= 0

(* The numbers come in the order of time, and now is a minute ago at most. *)
Times ==
  /\ \A k \in 1..Len(arrived) : arrived[k] <= clock
  /\ \A j, k \in 1..Len(arrived) : j <= k => arrived[j] <= arrived[k]
  /\ now <= clock - Minute

(* The ring is the sequence of all numbers; the first start_ptr are old.   *)
Prefix ==
  /\ end_ptr = Len(arrived)
  /\ start_ptr = -1 \/ start_ptr < end_ptr
  /\ \A i \in 0..end_ptr-1 : ring[i] = [num |-> i + 1, tv |-> arrived[i+1]]
  /\ \A k \in 1..start_ptr : arrived[k] <= now

(* After the expiry the numbers from start_ptr on are young. *)
Young == \A k \in 1..Len(arrived) : k > start_ptr => arrived[k] > now

Whole == Regular => Prefix /\ (pc = "average" => Young) /\ ~wild

Bounds == TypeOK /\ Room
Inv == Bounds /\ Times /\ Whole /\ Exact
-----------------------------------------------------------------------------
(***************************************************************************)
(* Types                                                                   *)
(***************************************************************************)
LEMMA BoundsInit == Init => Bounds
<1> SUFFICES ASSUME Init PROVE Bounds
  OBVIOUS
<1>1. ring \in [Slot -> [num : 0..MaxNumbers, tv : 0..MaxTime]]
  BY AverageAssumption DEF Init, Unset
<1>2. end_ptr = 0 /\ start_ptr = -1 /\ end_ptr <= BUFFER_SIZE /\ ~wild
  BY AverageAssumption DEF Init
<1>3. /\ pc = "first" /\ clock = 0 /\ now = -Minute /\ left = 0 /\ averaged = {} /\ cnt = 0
      /\ arrived = <<>> /\ quiet = FALSE
  BY DEF Init
<1>4. /\ clock \in 0..MaxTime /\ now \in Int /\ left \in 0..MaxRead
      /\ arrived \in Seq(0..MaxTime) /\ Len(arrived) + left <= MaxNumbers
  BY <1>3, AverageAssumption
<1>5. /\ start_ptr \in -1..BUFFER_SIZE /\ end_ptr \in Nat /\ ~(end_ptr > BUFFER_SIZE)
  BY <1>2, AverageAssumption
<1>6. quiet \in BOOLEAN /\ wild \in BOOLEAN
  BY DEF Init
<1>7. averaged \subseteq 0..MaxNumbers /\ cnt \in Nat
  BY <1>3
<1> QED BY <1>1, <1>2, <1>3, <1>4, <1>5, <1>6, <1>7 DEF Bounds, TypeOK, Room

LEMMA BoundsStep == Bounds /\ [Next]_vars => Bounds'
<1> SUFFICES ASSUME Bounds, [Next]_vars PROVE Bounds'
  OBVIOUS
<1> USE AverageAssumption DEF Bounds, TypeOK, Room
<1>1. CASE Tick
  BY <1>1 DEF Tick
<1>2. CASE Select
  <2>1. now' \in Int /\ left' \in 0..MaxRead /\ pc' \in {"read", "expire"}
    BY <1>2 DEF Select
  <2>2. Len(arrived) + left' <= MaxNumbers
    BY <1>2 DEF Select
  <2>3. UNCHANGED <<clock, ring, start_ptr, end_ptr, averaged, cnt, arrived, quiet, wild>>
    BY <1>2 DEF Select
  <2>4. ~wild
    BY <1>2 DEF Select
  <2> QED BY <2>1, <2>2, <2>3, <2>4
<1>3. CASE Store
  <2>0. ~wild /\ end_ptr \in 0..BUFFER_SIZE
    BY <1>3 DEF Store, StoreAt
  <2>1. PICK e \in 0..BUFFER_SIZE-1 : StoreAt(e)
    BY <1>3, <2>0 DEF Store
  <2>2. arrived' = Append(arrived, clock) /\ left' = left - 1 /\ left > 0
    BY <2>1 DEF StoreAt
  <2>3. arrived' \in Seq(0..MaxTime) /\ Len(arrived') = Len(arrived) + 1
    BY <2>2
  <2>4. Len(arrived) + 1 \in 0..MaxNumbers
    BY <2>2
  <2>5. end_ptr' \in 0..BUFFER_SIZE
    BY <2>1 DEF StoreAt
  <2>6. ring' \in [Slot -> [num : 0..MaxNumbers, tv : 0..MaxTime]]
    <3> DEFINE entry == [num |-> Len(arrived) + 1, tv |-> clock]
    <3>1. entry \in [num : 0..MaxNumbers, tv : 0..MaxTime]
      BY <2>4
    <3>2. ring' = ring \/ ring' = [ring EXCEPT ![e] = entry]
      BY <2>1 DEF StoreAt
    <3> HIDE DEF entry
    <3> QED BY <3>1, <3>2
  <2> QED BY <2>1, <2>2, <2>3, <2>5, <2>6 DEF StoreAt
<1>4. CASE AllStored
  BY <1>4 DEF AllStored
<1>5. CASE ExpireInOrder
  <2>1. start_ptr' \in 0..BUFFER_SIZE
    BY <1>5 DEF ExpireInOrder, Begin
  <2>2. UNCHANGED <<clock, now, left, ring, end_ptr, averaged, cnt, arrived, wild>>
        /\ pc' = "average" /\ quiet' \in BOOLEAN
    BY <1>5 DEF ExpireInOrder, Expired
  <2>3. ~wild
    BY <1>5 DEF ExpireInOrder
  <2> QED BY <2>1, <2>2, <2>3
<1>6. CASE ExpireWrapped
  <2> DEFINE e == end_ptr + 3 * (BUFFER_SIZE - Begin)
  <2>0. ~wild /\ end_ptr \in 0..BUFFER_SIZE
    BY <1>6 DEF ExpireWrapped
  <2>1. Begin \in 0..BUFFER_SIZE
    BY DEF Begin
  <2>2. e \in 0..BUFFER_SIZE
    <3>1. CASE Begin = BUFFER_SIZE
      BY <2>0, <3>1
    <3>2. CASE Begin < BUFFER_SIZE
      <4>1. e - 1 \in Written
        BY <2>0, <2>1, <3>2 DEF Written, EndWritten
      <4>2. e - 1 \in Slot
        BY <1>6, <4>1 DEF ExpireWrapped
      <4> QED BY <2>0, <2>1, <3>2, <4>2, SMTT(30) DEF Slot
    <3> QED BY <2>1, <3>1, <3>2
  <2>3. start_ptr' \in 0..BUFFER_SIZE-1
    <3>1. PICK t \in 0..BUFFER_SIZE : start_ptr' = t % BUFFER_SIZE
      BY <1>6 DEF ExpireWrapped
    <3> QED BY <3>1
  <2>4. ring' \in [Slot -> [num : 0..MaxNumbers, tv : 0..MaxTime]]
    <3>1. ASSUME NEW i \in Slot
          PROVE  [ring[i] EXCEPT !.num = IF i \in Written THEN 0 ELSE @]
                   \in [num : 0..MaxNumbers, tv : 0..MaxTime]
      <4>1. ring[i] \in [num : 0..MaxNumbers, tv : 0..MaxTime]
        OBVIOUS
      <4>2. ASSUME NEW r \in [num : 0..MaxNumbers, tv : 0..MaxTime], NEW n \in 0..MaxNumbers
            PROVE  [r EXCEPT !.num = n] \in [num : 0..MaxNumbers, tv : 0..MaxTime]
        OBVIOUS
      <4>3. (IF i \in Written THEN 0 ELSE ring[i].num) \in 0..MaxNumbers
        BY <4>1
      <4> QED BY <4>1, <4>2, <4>3
    <3> QED BY <1>6, <3>1 DEF ExpireWrapped
  <2>5. end_ptr' = e /\ pc' = "average"
    BY <1>6 DEF ExpireWrapped, EndWritten
  <2>6. UNCHANGED <<clock, now, left, averaged, cnt, arrived, wild>> /\ quiet' \in BOOLEAN
    BY <1>6 DEF ExpireWrapped, Expired
  <2> HIDE DEF e
  <2> QED BY <2>0, <2>2, <2>3, <2>4, <2>5, <2>6
<1>7. CASE ExpireWild
  <2>1. EndWritten \in Nat
    BY <1>7 DEF EndWritten, Begin
  <2> QED BY <1>7, <2>1 DEF ExpireWild, Expired
<1>8. CASE Average
  <2>1. averaged' \subseteq 0..MaxNumbers
    <3>1. \A i \in Slot : ring[i].num \in 0..MaxNumbers
      OBVIOUS
    <3>2. start_ptr >= 0
      BY <1>8 DEF Average
    <3>3. \A x \in averaged' : \E i \in Slot : x = ring[i].num
      BY <1>8, <3>2 DEF Average, Slot
    <3> QED BY <3>1, <3>3
  <2>2. cnt' \in Nat
    BY <1>8 DEF Average
  <2> QED BY <1>8, <2>1, <2>2 DEF Average
<1>9. CASE UNCHANGED vars
  BY <1>9 DEF vars
<1> QED BY <1>1, <1>2, <1>3, <1>4, <1>5, <1>6, <1>7, <1>8, <1>9 DEF Next

(* TypeOK: whatever arrives and when, start_ptr stays in the ring or at    *)
(* its end, and so does end_ptr until the expiry writes past the end of    *)
(* the ring (client.c 76-114).                                             *)
THEOREM TypeCorrect == Spec => []TypeOK
<1>1. Bounds => TypeOK
  BY DEF Bounds
<1> QED BY <1>1, BoundsInit, BoundsStep, PTL DEF Spec
-----------------------------------------------------------------------------
(***************************************************************************)
(* The average                                                             *)
(***************************************************************************)
LEMMA InvInit == Init => Inv
<1> SUFFICES ASSUME Init PROVE Inv
  OBVIOUS
<1>1. Bounds
  BY BoundsInit
<1>2. Times /\ Whole /\ Exact
  BY AverageAssumption DEF Init, Times, Whole, Prefix, Exact
<1> QED BY <1>1, <1>2 DEF Inv

LEMMA TimesStep == Bounds /\ Times /\ [Next]_vars => Times'
<1> SUFFICES ASSUME Bounds, Times, [Next]_vars PROVE Times'
  OBVIOUS
<1> USE AverageAssumption DEF Bounds, TypeOK, Times
<1>1. CASE Tick
  <2>1. \A k \in 1..Len(arrived) : arrived[k] \in 0..MaxTime /\ arrived[k] <= clock
    OBVIOUS
  <2>2. UNCHANGED <<arrived, now>> /\ clock' = clock + 1
    BY <1>1 DEF Tick
  <2>3. \A k \in 1..Len(arrived') : arrived'[k] <= clock'
    BY <2>1, <2>2
  <2> QED BY <2>2, <2>3
<1>2. CASE Select
  BY <1>2 DEF Select
<1>3. CASE Store
  <2>1. arrived' = Append(arrived, clock) /\ clock' = clock /\ now' = now
    BY <1>3 DEF Store, StoreAt
  <2>2. Len(arrived') = Len(arrived) + 1 /\ arrived'[Len(arrived) + 1] = clock
    BY <2>1
  <2>3. \A k \in 1..Len(arrived) : arrived'[k] = arrived[k]
    BY <2>1
  <2>4. \A k \in 1..Len(arrived) : arrived[k] \in 0..MaxTime
    OBVIOUS
  <2>5. ASSUME NEW k \in 1..Len(arrived')
        PROVE  k \in 1..Len(arrived) \/ k = Len(arrived) + 1
    BY <2>2
  <2>6. ASSUME NEW k \in 1..Len(arrived')
        PROVE  arrived'[k] <= clock'
    BY <2>1, <2>2, <2>3, <2>5
  <2>7. ASSUME NEW j \in 1..Len(arrived'), NEW k \in 1..Len(arrived'), j <= k
        PROVE  arrived'[j] <= arrived'[k]
    <3>1. CASE k \in 1..Len(arrived)
      <4>1. j \in 1..Len(arrived)
        BY <2>7, <3>1
      <4>2. arrived[j] <= arrived[k]
        BY <2>7, <3>1, <4>1
      <4> QED BY <2>3, <3>1, <4>1, <4>2
    <3>2. CASE k = Len(arrived) + 1
      <4>1. arrived'[k] = clock'
        BY <2>1, <2>2, <3>2
      <4> QED BY <2>6, <4>1
    <3> QED BY <2>5, <3>1, <3>2
  <2>8. now' <= clock' - Minute
    BY <2>1
  <2> QED BY <2>6, <2>7, <2>8
<1>4. CASE AllStored \/ ExpireInOrder \/ ExpireWrapped \/ ExpireWild \/ Average
  BY <1>4 DEF AllStored, ExpireInOrder, ExpireWrapped, ExpireWild, Expired, Average
<1>5. CASE UNCHANGED vars
  BY <1>5 DEF vars
<1> QED BY <1>1, <1>2, <1>3, <1>4, <1>5 DEF Next

LEMMA EntryFields ==
  ASSUME NEW n, NEW v, NEW r, r = [num |-> n, tv |-> v]
  PROVE  r.num = n /\ r.tv = v
  OBVIOUS

(* A run that is regular was so before. *)
LEMMA RegularBefore ==
  ASSUME Bounds, [Next]_vars, Regular'
  PROVE  Regular
<1> USE AverageAssumption DEF Bounds, TypeOK, Regular
<1>1. CASE Store
  <2>1. arrived' = Append(arrived, clock) /\ quiet' = quiet
    BY <1>1 DEF Store, StoreAt
  <2> QED BY <2>1
<1>2. CASE Tick \/ Select \/ AllStored \/ Average \/ UNCHANGED vars
  BY <1>2 DEF Tick, Select, AllStored, Average, vars
<1>3. CASE ExpireInOrder \/ ExpireWrapped \/ ExpireWild
  BY <1>3 DEF ExpireInOrder, ExpireWrapped, ExpireWild, Expired
<1> QED BY <1>1, <1>2, <1>3 DEF Next

(* The steps that leave the ring and the pointers as they are. *)
LEMMA QuietStep ==
  ASSUME Inv, Regular, Tick \/ Select \/ AllStored \/ UNCHANGED vars
  PROVE  Prefix' /\ (pc' = "average" => Young') /\ wild' = FALSE
<1> USE DEF Inv, Bounds, TypeOK
<1>1. UNCHANGED <<ring, start_ptr, end_ptr, arrived, wild>> /\ Prefix /\ ~wild
  BY DEF Tick, Select, AllStored, vars, Whole
<1>2. now' \in Int /\ now <= now'
  BY AverageAssumption DEF Tick, Select, AllStored, vars, Times
<1>3. Prefix'
  <2>1. ASSUME NEW k \in 1..start_ptr
        PROVE  arrived[k] <= now'
    <3>1. k \in 1..Len(arrived) /\ arrived[k] <= now
      BY <1>1 DEF Prefix
    <3>2. arrived[k] \in 0..MaxTime
      BY <3>1, ElementOfSeq
    <3> QED BY <1>2, <3>1, <3>2
  <2> HIDE DEF Inv
  <2> QED BY <1>1, <2>1 DEF Prefix
<1>4. pc' = "average" => UNCHANGED vars
  BY DEF Tick, Select, AllStored, vars
<1>5. pc' = "average" => Young'
  BY <1>1, <1>4 DEF Young, Whole, vars
<1> QED BY <1>1, <1>3, <1>5

(* A number that has a place in the ring is stored after the others. *)
LEMMA StoreStep ==
  ASSUME Inv, Regular, Store, Regular'
  PROVE  Prefix' /\ pc' = "read" /\ wild' = FALSE
<1> USE AverageAssumption DEF Inv, Bounds, TypeOK
<1>1. Prefix /\ ~wild
  BY DEF Whole
<1>2. arrived' = Append(arrived, clock) /\ pc' = "read" /\ wild' = wild
      /\ start_ptr' = start_ptr /\ now' = now
  BY DEF Store, StoreAt
<1>3. Len(arrived') = Len(arrived) + 1 /\ Len(arrived') <= BUFFER_SIZE
  BY <1>2 DEF Regular
<1>4. end_ptr = Len(arrived) /\ end_ptr # BUFFER_SIZE /\ end_ptr # start_ptr /\ end_ptr \in Slot
  BY <1>1, <1>3 DEF Prefix, Slot
<1>5. /\ ring' = [ring EXCEPT ![end_ptr] = [num |-> Len(arrived) + 1, tv |-> clock]]
      /\ end_ptr' = end_ptr + 1
  BY <1>4 DEF Store, StoreAt
<1>6. ASSUME NEW i \in 0..end_ptr'-1
      PROVE  ring'[i] = [num |-> i + 1, tv |-> arrived'[i + 1]]
  <2>1. CASE i = end_ptr
    <3>1. arrived'[i + 1] = clock
      BY <2>1, <1>2, <1>4
    <3> QED BY <2>1, <3>1, <1>4, <1>5
  <2>2. CASE i # end_ptr
    <3>1. i \in 0..end_ptr-1 /\ i + 1 \in 1..Len(arrived)
      BY <2>2, <1>4, <1>5, <1>6
    <3>2. arrived'[i + 1] = arrived[i + 1]
      BY <3>1, <1>2
    <3>3. ring'[i] = ring[i]
      BY <2>2, <3>1, <1>5 DEF Slot
    <3> QED BY <3>1, <3>2, <3>3, <1>1 DEF Prefix
  <2> QED BY <2>1, <2>2
<1>7. ASSUME NEW k \in 1..start_ptr'
      PROVE  arrived'[k] <= now'
  <2>1. k \in 1..start_ptr /\ k \in 1..Len(arrived)
    BY <1>1, <1>2, <1>7 DEF Prefix
  <2>2. arrived'[k] = arrived[k]
    BY <2>1, <1>2
  <2> QED BY <2>1, <2>2, <1>1, <1>2 DEF Prefix
<1>8. end_ptr' = Len(arrived') /\ (start_ptr' = -1 \/ start_ptr' < end_ptr')
  BY <1>1, <1>2, <1>3, <1>4, <1>5 DEF Prefix
<1> QED BY <1>1, <1>2, <1>6, <1>7, <1>8 DEF Prefix

(* The expiry moves start_ptr to the first young number, if there is one. *)
LEMMA ExpireStep ==
  ASSUME Inv, Regular, ExpireInOrder \/ ExpireWrapped \/ ExpireWild, Regular'
  PROVE  Prefix' /\ Young' /\ wild' = FALSE
<1>0. /\ Whole /\ Times /\ BUFFER_SIZE \in Nat \ {0}
      /\ arrived \in Seq(0..MaxTime) /\ MaxTime \in Nat /\ now \in Int
      /\ start_ptr \in -1..BUFFER_SIZE /\ end_ptr \in 0..BUFFER_SIZE
  BY AverageAssumption DEF Inv, Bounds, TypeOK, Whole
<1> USE <1>0
<1>1. Prefix /\ ~wild
  BY DEF Whole
<1>2. UNCHANGED <<arrived, now>> /\ ~quiet'
  BY DEF ExpireInOrder, ExpireWrapped, ExpireWild, Expired, Regular
<1>3. PICK y \in 1..Len(arrived) : arrived[y] > now
  <2>1. ~(\A k \in 1..Len(arrived) : arrived[k] <= now)
    BY <1>2 DEF ExpireInOrder, ExpireWrapped, ExpireWild, Expired
  <2>2. \A k \in 1..Len(arrived) : arrived[k] \in Int
    OBVIOUS
  <2> QED BY <2>1, <2>2
<1>4. Begin \in Nat /\ Begin < end_ptr /\ end_ptr = Len(arrived)
  BY <1>1, <1>3 DEF Begin, Prefix
<1>5. ExpireInOrder
  BY <1>4 DEF ExpireWrapped, ExpireWild
<1>6. PICK t \in Begin..end_ptr : After(Begin, end_ptr, Begin, t) /\ start_ptr' = t
  BY <1>5 DEF ExpireInOrder
<1>7. ASSUME NEW i \in 0..end_ptr-1
      PROVE  Old(i) <=> arrived[i + 1] <= now
  <2>1. ring[i] = [num |-> i + 1, tv |-> arrived[i+1]]
    BY <1>1 DEF Prefix
  <2>2. ring[i].tv = arrived[i+1]
    BY <2>1, EntryFields
  <2> QED BY <2>2 DEF Old
<1>8. ASSUME NEW k \in 1..t
      PROVE  arrived[k] <= now
  <2>0. k \in 1..Len(arrived) /\ arrived[k] \in Int
    BY <1>4, <1>6
  <2>1. CASE t = Begin
    BY <2>1, <1>1 DEF Prefix, Begin
  <2>2. CASE t # Begin
    <3>1. t-1 \in Begin..end_ptr-1 /\ Old(t-1)
      BY <2>2, <1>6 DEF After
    <3>2. t-1 \in 0..end_ptr-1 /\ t \in 1..Len(arrived) /\ (t-1) + 1 = t
      BY <3>1, <1>4
    <3>3. arrived[t] <= now
      BY <3>1, <3>2, <1>7
    <3>4. arrived[t] \in Int /\ k <= t
      BY <3>2
    <3>5. arrived[k] <= arrived[t]
      BY <2>0, <3>2, <3>4 DEF Times
    <3> QED BY <2>0, <3>3, <3>4, <3>5
  <2> QED BY <2>1, <2>2
<1>9. ASSUME NEW k \in 1..Len(arrived), k > t
      PROVE  arrived[k] > now
  <2>1. k-1 \in t..end_ptr-1 /\ k-1 \in 0..end_ptr-1 /\ (k-1) + 1 = k
    BY <1>4, <1>6, <1>9
  <2>2. ~Old(k-1)
    BY <2>1, <1>6 DEF After
  <2>3. ~(arrived[k] <= now) /\ arrived[k] \in Int
    BY <2>1, <2>2, <1>7
  <2> QED BY <2>3
<1>10. t < end_ptr
  <2>0. arrived[y] \in Int
    OBVIOUS
  <2>1. ~(y \in 1..t)
    BY <1>3, <1>8, <2>0
  <2> QED BY <2>1, <1>3, <1>4, <1>6
<1>11. UNCHANGED <<ring, end_ptr, wild>>
  BY <1>5 DEF ExpireInOrder
<1>12. Prefix'
  BY <1>1, <1>2, <1>6, <1>8, <1>10, <1>11 DEF Prefix
<1>13. Young'
  BY <1>2, <1>6, <1>9 DEF Young
<1> QED BY <1>1, <1>11, <1>12, <1>13

(* What is averaged is what came in the last minute. *)
LEMMA AverageStep ==
  ASSUME Inv, Regular, Average
  PROVE  Prefix' /\ pc' = "select" /\ wild' = FALSE /\ Exact'
<1> USE AverageAssumption DEF Inv, Bounds, TypeOK
<1>1. Prefix /\ Young /\ ~wild /\ start_ptr >= 0
  BY DEF Whole, Average, Room
<1>2. UNCHANGED <<ring, start_ptr, end_ptr, arrived, now, wild>> /\ pc' = "select"
  BY DEF Average
<1>3. Prefix'
  BY <1>1, <1>2 DEF Prefix
<1>4. start_ptr < end_ptr /\ end_ptr = Len(arrived) /\ start_ptr \in Nat /\ end_ptr \in Nat
  BY <1>1 DEF Prefix
<1>5. /\ averaged' = { ring[i].num : i \in start_ptr..end_ptr-1 }
      /\ cnt' = end_ptr - start_ptr
  BY <1>4 DEF Average
<1>6. { ring[i].num : i \in start_ptr..end_ptr-1 } = start_ptr+1..end_ptr
  <2>1. ASSUME NEW i \in start_ptr..end_ptr-1
        PROVE  ring[i].num = i + 1
    <3>1. \A j \in 0..end_ptr-1 : ring[j] = [num |-> j + 1, tv |-> arrived[j+1]]
      BY <1>1 DEF Prefix
    <3> HIDE DEF Inv, Bounds, TypeOK
    <3>2. i \in 0..end_ptr-1
      BY <1>4
    <3>3. ring[i] = [num |-> i + 1, tv |-> arrived[i+1]]
      BY <3>1, <3>2
    <3> QED BY <3>3, EntryFields
  <2>2. \A k \in start_ptr+1..end_ptr : k-1 \in start_ptr..end_ptr-1 /\ (k-1) + 1 = k
    BY <1>4
  <2>3. \A i \in start_ptr..end_ptr-1 : i + 1 \in start_ptr+1..end_ptr
    BY <1>4
  <2>4. { ring[i].num : i \in start_ptr..end_ptr-1 } = { i + 1 : i \in start_ptr..end_ptr-1 }
    BY <2>1
  <2>5. ASSUME NEW k
        PROVE  k \in start_ptr+1..end_ptr <=> \E i \in start_ptr..end_ptr-1 : k = i + 1
    BY <2>2, <2>3
  <2> HIDE DEF Inv
  <2> QED BY <2>4, <2>5
<1>7. ASSUME NEW k \in 1..Len(arrived)
      PROVE  arrived[k] > now <=> k \in start_ptr+1..end_ptr
  <2>1. CASE k > start_ptr
    BY <2>1, <1>1, <1>4 DEF Young
  <2>2. CASE ~(k > start_ptr)
    <3>1. k \in 1..start_ptr /\ arrived[k] \in Int
      BY <2>2, <1>4
    <3> QED BY <3>1, <2>2, <1>1 DEF Prefix
  <2> QED BY <2>1, <2>2
<1>8. { k \in 1..Len(arrived) : arrived[k] > now } = start_ptr+1..end_ptr
  BY <1>4, <1>7
<1>9. Cardinality(start_ptr+1..end_ptr) = end_ptr - start_ptr
  BY <1>4, FS_Interval
<1>10. Exact'
  BY <1>2, <1>5, <1>6, <1>8, <1>9 DEF Exact
<1> QED BY <1>1, <1>2, <1>3, <1>10

LEMMA InvStep == Inv /\ [Next]_vars => Inv'
<1> SUFFICES ASSUME Inv, [Next]_vars PROVE Inv'
  OBVIOUS
<1>1. Bounds' /\ Times'
  BY BoundsStep, TimesStep DEF Inv
<1>2. CASE ~Regular'
  BY <1>1, <1>2 DEF Inv, Whole, Exact
<1>3. CASE Regular'
  <2>1. Regular
    BY <1>3, RegularBefore DEF Inv
  <2>2. CASE Tick \/ Select \/ AllStored \/ UNCHANGED vars
    <3>1. Whole'
      BY <2>1, <2>2, QuietStep DEF Whole
    <3>2. pc' = "select" => pc = "select" /\ UNCHANGED <<averaged, cnt, arrived, now, quiet>>
      BY <2>2 DEF Tick, Select, AllStored, vars, Inv, Bounds, TypeOK
    <3>3. Exact'
      BY <3>2 DEF Exact, Inv, Regular
    <3> QED BY <1>1, <3>1, <3>3 DEF Inv
  <2>3. CASE Store
    <3>1. Prefix' /\ pc' = "read" /\ wild' = FALSE
      BY <2>1, <2>3, <1>3, StoreStep
    <3> QED BY <1>1, <3>1 DEF Inv, Whole, Exact
  <2>4. CASE ExpireInOrder \/ ExpireWrapped \/ ExpireWild
    <3>1. Prefix' /\ Young' /\ wild' = FALSE
      BY <2>1, <2>4, <1>3, ExpireStep
    <3>2. pc' = "average"
      BY <2>4, <3>1 DEF ExpireInOrder, ExpireWrapped, ExpireWild
    <3> QED BY <1>1, <3>1, <3>2 DEF Inv, Whole, Exact
  <2>5. CASE Average
    <3>1. Prefix' /\ pc' = "select" /\ wild' = FALSE /\ Exact'
      BY <2>1, <2>5, AverageStep
    <3> QED BY <1>1, <3>1 DEF Inv, Whole
  <2> QED BY <2>2, <2>3, <2>4, <2>5 DEF Next
<1> QED BY <1>2, <1>3

(* Exact: as long as the ring held all numbers and never ran empty, what   *)
(* is averaged is what came less than a minute ago (client.c 89-131).      *)
THEOREM AverageExact == Spec => []Exact
<1>1. Inv => Exact
  BY DEF Inv
<1> QED BY <1>1, InvInit, InvStep, PTL DEF Spec

(* InBounds: until then nothing is written past the ring (98-104). *)
THEOREM NeverWild == Spec => []InBounds
<1>1. Inv => InBounds
  BY DEF Inv, Whole, InBounds
<1> QED BY <1>1, InvInit, InvStep, PTL DEF Spec
=============================================================================
