--------------------------- MODULE RunningAverage ---------------------------
(***************************************************************************)
(* The client of CS3871/timing/client.c: it stores the numbers a server    *)
(* sends in the ring num_buffer, each with the second of its arrival, and  *)
(* after every select, twice a second from the first number on, removes    *)
(* the old ones from the front and prints the average of the rest.         *)
(*                                                                         *)
(* A number is known by its place in arrived, a history variable; quiet is *)
(* another: it records that a round found no number young enough.  wild is *)
(* set when the ring is written past its end, and nothing is said of the   *)
(* program after that.  The socket and the digits are left out.            *)
(***************************************************************************)
EXTENDS Integers, Sequences, FiniteSets

CONSTANTS
  BUFFER_SIZE,
  Minute,           \* 60 seconds
  MaxRead,          \* numbers in one read, 512 in the program
  MaxTime, MaxNumbers   \* bounds of a run

ASSUME AverageAssumption ==
  {BUFFER_SIZE, Minute, MaxRead, MaxTime, MaxNumbers} \subseteq Nat \ {0}

VARIABLES
  pc, clock, now,   \* the program's place, the time, and its now: a minute ago
  left,             \* numbers of the last read that are not handled yet
  ring, start_ptr, end_ptr,
  averaged, cnt,    \* the numbers last averaged, and what was divided by
  arrived, quiet, wild

vars == <<pc, clock, now, left, ring, start_ptr, end_ptr, averaged, cnt,
          arrived, quiet, wild>>

Slot == 0..BUFFER_SIZE-1
Unset == [num |-> 0, tv |-> 0]     \* num 0: no number of the server's

Init ==
  /\ pc = "first" /\ clock = 0 /\ now = -Minute /\ left = 0
  /\ ring = [i \in Slot |-> Unset] /\ start_ptr = -1 /\ end_ptr = 0
  /\ averaged = {} /\ cnt = 0
  /\ arrived = <<>> /\ quiet = FALSE /\ wild = FALSE

Tick ==
  /\ pc \in {"first", "select"} /\ clock < MaxTime
  /\ clock' = clock + 1
  /\ UNCHANGED <<pc, now, left, ring, start_ptr, end_ptr, averaged, cnt,
                 arrived, quiet, wild>>

(* select returns for the socket, the first time only so: a read of k      *)
(* numbers, none when the server has closed, or, later, for its timeout.   *)
Select ==
  /\ pc \in {"first", "select"} /\ ~wild
  /\ now' = clock - Minute
  /\ \/ \E k \in 0..MaxRead :
          /\ Len(arrived) + k <= MaxNumbers
          /\ left' = k /\ pc' = "read"
     \/ pc = "select" /\ left' = 0 /\ pc' = "expire"
  /\ UNCHANGED <<clock, ring, start_ptr, end_ptr, averaged, cnt, arrived, quiet,
                 wild>>

(* One number: it is dropped if its place is that of the first one left. *)
StoreAt(e) ==
  /\ pc = "read" /\ left > 0
  /\ IF e # start_ptr
       THEN /\ ring' = [ring EXCEPT ![e] = [num |-> Len(arrived) + 1, tv |-> clock]]
            /\ end_ptr' = e + 1
       ELSE end_ptr' = e /\ UNCHANGED ring
  /\ arrived' = Append(arrived, clock)
  /\ left' = left - 1
  /\ UNCHANGED <<pc, clock, now, start_ptr, averaged, cnt, quiet, wild>>

(* Mutant of Store: end_ptr wraps one entry early. *)
StoreEarly == StoreAt(IF end_ptr = BUFFER_SIZE - 1 THEN 0 ELSE end_ptr)

(* One round of the loop over the buffer: end_ptr wraps, also when the     *)
(* number is then dropped.                                                 *)
Store == StoreAt(IF end_ptr = BUFFER_SIZE THEN 0 ELSE end_ptr)

AllStored ==
  /\ pc = "read" /\ left = 0
  /\ pc' = "expire"
  /\ UNCHANGED <<clock, now, left, ring, start_ptr, end_ptr, averaged, cnt,
                 arrived, quiet, wild>>

(* Mutant of Old: an entry is removed a second early. *)
OldEarly(i) == ring[i].tv <= now + 1

Old(i) == ring[i].tv <= now

(* t is the index after the last old entry from a on and below b, or s. *)
After(a, b, s, t) ==
  \/ t = s /\ \A i \in a..b-1 : ~Old(i)
  \/ t-1 \in a..b-1 /\ Old(t-1) /\ \A i \in t..b-1 : ~Old(i)

(* start_ptr of -1 becomes 0. *)
Begin == IF start_ptr = -1 THEN 0 ELSE start_ptr

Expired ==
  /\ quiet' = (quiet \/ \A k \in 1..Len(arrived) : arrived[k] <= now)
  /\ UNCHANGED <<clock, now, left, averaged, cnt, arrived>>

(* start_ptr < end_ptr: the numbers lie between them. *)
ExpireInOrder ==
  /\ pc = "expire" /\ Begin < end_ptr
  /\ \E t \in Begin..end_ptr : After(Begin, end_ptr, Begin, t) /\ start_ptr' = t
  /\ pc' = "average"
  /\ Expired
  /\ UNCHANGED <<ring, end_ptr, wild>>

(* Otherwise each round of the first loop also writes the value of three   *)
(* entries, from end_ptr on, beyond the ring unless few entries are left.  *)
EndWritten == end_ptr + 3 * (BUFFER_SIZE - Begin)
Written == end_ptr..EndWritten - 1

ExpireWrapped ==
  /\ pc = "expire" /\ Begin >= end_ptr /\ Written \subseteq Slot
  /\ ring' = [i \in Slot |-> [ring[i] EXCEPT !.num = IF i \in Written THEN 0 ELSE @]]
  /\ end_ptr' = EndWritten
  /\ \E s, t \in 0..BUFFER_SIZE :
       /\ After(Begin, BUFFER_SIZE, Begin, s) /\ After(0, end_ptr', s, t)
       /\ start_ptr' = t % BUFFER_SIZE
  /\ pc' = "average"
  /\ Expired
  /\ UNCHANGED wild

(* end_ptr is past the end of the ring, and so are some of the writes,     *)
(* whatever lies there; the program is not followed any further.           *)
ExpireWild ==
  /\ pc = "expire" /\ Begin >= end_ptr /\ ~(Written \subseteq Slot)
  /\ end_ptr' = EndWritten
  /\ wild' = TRUE
  /\ pc' = "select"
  /\ Expired
  /\ UNCHANGED <<ring, start_ptr>>

(* The sum and the count; an empty or wrapped ring is summed to its end. *)
Average ==
  /\ pc = "average"
  /\ LET summed == IF start_ptr < end_ptr THEN start_ptr..end_ptr-1
                   ELSE (start_ptr..BUFFER_SIZE-1) \union (0..end_ptr-1)
         n == IF start_ptr > end_ptr THEN BUFFER_SIZE - start_ptr + end_ptr
              ELSE end_ptr - start_ptr
     IN averaged' = { ring[i].num : i \in summed } /\ cnt' = IF n = 0 THEN 10 ELSE n
  /\ pc' = "select"
  /\ UNCHANGED <<clock, now, left, ring, start_ptr, end_ptr, arrived, quiet, wild>>

Next == \/ Tick \/ Select \/ Store \/ AllStored
        \/ ExpireInOrder \/ ExpireWrapped \/ ExpireWild \/ Average

Spec == Init /\ [][Next]_vars
-----------------------------------------------------------------------------
TypeOK ==
  /\ pc \in {"first", "select", "read", "expire", "average"}
  /\ clock \in 0..MaxTime /\ now \in Int /\ left \in 0..MaxRead
  /\ ring \in [Slot -> [num : 0..MaxNumbers, tv : 0..MaxTime]]
  /\ start_ptr \in -1..BUFFER_SIZE
  /\ end_ptr \in Nat /\ (end_ptr > BUFFER_SIZE => wild)
  /\ averaged \subseteq 0..MaxNumbers /\ cnt \in Nat
  /\ arrived \in Seq(0..MaxTime)
  /\ quiet \in BOOLEAN /\ wild \in BOOLEAN

(* The ring has held every number so far, and never ran empty. *)
Regular == Len(arrived) <= BUFFER_SIZE /\ ~quiet

(* README.txt:34-36, "a running average of the numbers over the last 60    *)
(* seconds": what is printed is the average of just the numbers that came  *)
(* less than a minute ago, until one is received too many or too late.     *)
Exact ==
  pc = "select" /\ Regular
    => /\ averaged = { k \in 1..Len(arrived) : arrived[k] > now }
       /\ cnt = Cardinality(averaged)

(* The ring is written past its end only after it was full or empty. *)
InBounds == Regular => ~wild
=============================================================================
