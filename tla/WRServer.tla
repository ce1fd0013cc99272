------------------------------ MODULE WRServer ------------------------------
(***************************************************************************)
(* The resource server, CS2452/assign5/src.                                *)
(*                                                                         *)
(* One ResourceWriter thread fills theSharedResource with a new value      *)
(* every fifteen seconds; WRServer starts a ResourceReader thread for each *)
(* connection, which sends the resource fifty times and a sentinel.  The   *)
(* threads share the semaphores flg (the resource), flg2 (which the writer *)
(* keeps while it waits for flg) and flg1 (the reader count cor).  Only    *)
(* the reader that finds cor = 0 takes flg, and it gives flg back when it  *)
(* is done itself, not when the last reader is.  A write to a closed       *)
(* connection ends a reader where it stands: cor, and flg if it has it,    *)
(* stay as they are.                                                       *)
(*                                                                         *)
(* Scaled down: Size bytes for 1 MB, Copies for 50, the values 1..Limit-1  *)
(* for 33..99; 0 is the array's initial value.                             *)
(***************************************************************************)
EXTENDS Integers, FiniteSets

CONSTANTS Reader, Size, Copies, Limit

ASSUME ServerAssumption ==
  /\ IsFiniteSet(Reader)
  /\ Size \in Nat \ {0} /\ Copies \in Nat \ {0}
  /\ Limit \in Nat /\ Limit > 2

VARIABLES
  flg, flg1, flg2,   \* the permits of the three semaphores
  cor,               \* readers that have started and not finished
  res,               \* theSharedResource
  wpc, i, value,     \* the writer: its place, its index and the next value
  rpc, first, n, sent  \* the readers: place, branch taken, bytes sent, values among them

sems == <<flg, flg1, flg2>>
writer == <<wpc, i, value>>
readers == <<rpc, first, n, sent>>
vars == <<sems, cor, res, writer, readers>>

(* Mutant of Permits: one permit, which the writer can take. *)
PermitsOne == 1

(* flg2 = new Semaphore(2) *)
Permits == 2

Init ==
  /\ flg = 1 /\ flg1 = 1 /\ flg2 = Permits /\ cor = 0
  /\ res = [k \in 1..Size |-> 0]
  /\ wpc = "flg2" /\ i = 1 /\ value = 1
  /\ rpc = [r \in Reader |-> "none"]
  /\ first = [r \in Reader |-> FALSE]
  /\ n = [r \in Reader |-> 0]
  /\ sent = [r \in Reader |-> {}]
-----------------------------------------------------------------------------
(***************************************************************************)
(* The writer                                                              *)
(***************************************************************************)
WriterGoto(l) == wpc' = l

WriterEnters ==
  /\ wpc = "flg2" /\ flg2 > 0
  /\ flg2' = flg2 - 1
  /\ WriterGoto("flg")
  /\ UNCHANGED <<flg, flg1, cor, res, i, value, readers>>

(* Mutant of WriterTakes: flg2 is taken for enough. *)
WriterTakesAtOnce ==
  /\ wpc = "flg"
  /\ i' = 1
  /\ WriterGoto("fill")
  /\ UNCHANGED <<sems, cor, res, value, readers>>

WriterTakes ==
  /\ wpc = "flg" /\ flg > 0
  /\ flg' = flg - 1 /\ i' = 1
  /\ WriterGoto("fill")
  /\ UNCHANGED <<flg1, flg2, cor, res, value, readers>>

Fill ==
  /\ wpc = "fill"
  /\ res' = [res EXCEPT ![i] = value]
  /\ i' = i + 1
  /\ WriterGoto(IF i = Size THEN "release" ELSE "fill")
  /\ UNCHANGED <<sems, cor, value, readers>>

WriterReleases ==
  /\ wpc = "release"
  /\ flg' = flg + 1
  /\ WriterGoto("leave")
  /\ UNCHANGED <<flg1, flg2, cor, res, i, value, readers>>

(* flg2.release(), the next value, and the sleep. *)
WriterLeaves ==
  /\ wpc = "leave"
  /\ flg2' = flg2 + 1
  /\ value' = IF value + 1 = Limit THEN 1 ELSE value + 1
  /\ WriterGoto("sleep")
  /\ UNCHANGED <<flg, flg1, cor, res, i, readers>>

WriterWakes ==
  /\ wpc = "sleep"
  /\ WriterGoto("flg2")
  /\ UNCHANGED <<sems, cor, res, i, value, readers>>

WriterStep == \/ WriterEnters \/ WriterTakes \/ Fill \/ WriterReleases
              \/ WriterLeaves \/ WriterWakes
-----------------------------------------------------------------------------
(***************************************************************************)
(* The readers                                                             *)
(***************************************************************************)
At(r, l) == rpc[r] = l
Goto(r, l) == rpc' = [rpc EXCEPT ![r] = l]

(* WRServer accepts a connection and starts the thread. *)
Accept(r) ==
  /\ At(r, "none")
  /\ Goto(r, "flg2")
  /\ UNCHANGED <<sems, cor, res, writer, first, n, sent>>

Enter(r) ==
  /\ At(r, "flg2") /\ flg2 > 0
  /\ flg2' = flg2 - 1
  /\ Goto(r, "pass")
  /\ UNCHANGED <<flg, flg1, cor, res, writer, first, n, sent>>

Pass(r) ==
  /\ At(r, "pass")
  /\ flg2' = flg2 + 1
  /\ Goto(r, "flg1")
  /\ UNCHANGED <<flg, flg1, cor, res, writer, first, n, sent>>

(* Mutant of Ask: cor is tested without flg1. *)
AskUnlocked(r) ==
  /\ At(r, "flg1")
  /\ flg1' = flg1 - 1
  /\ first' = [first EXCEPT ![r] = cor = 0]
  /\ Goto(r, IF cor = 0 THEN "flg" ELSE "count")
  /\ UNCHANGED <<flg, flg2, cor, res, writer, n, sent>>

(* flg1.acquire(); if (cor == 0).  Whoever changes cor has flg1. *)
Ask(r) ==
  /\ At(r, "flg1") /\ flg1 > 0
  /\ flg1' = flg1 - 1
  /\ first' = [first EXCEPT ![r] = cor = 0]
  /\ Goto(r, IF cor = 0 THEN "flg" ELSE "count")
  /\ UNCHANGED <<flg, flg2, cor, res, writer, n, sent>>

(* The first reader takes flg, with flg1 in hand. *)
Take(r) ==
  /\ At(r, "flg") /\ flg > 0
  /\ flg' = flg - 1
  /\ Goto(r, "count")
  /\ UNCHANGED <<flg1, flg2, cor, res, writer, first, n, sent>>

(* cor++; flg1.release() *)
Count(r) ==
  /\ At(r, "count")
  /\ cor' = cor + 1 /\ flg1' = flg1 + 1
  /\ Goto(r, "send")
  /\ UNCHANGED <<flg, flg2, res, writer, first, n, sent>>

(* A byte of the resource goes out: as soon as the client reads, if ever. *)
Send(r) ==
  /\ At(r, "send") /\ n[r] < Copies * Size
  /\ n' = [n EXCEPT ![r] = @ + 1]
  /\ sent' = [sent EXCEPT ![r] = @ \cup {res[(n[r] % Size) + 1]}]
  /\ UNCHANGED <<sems, cor, res, writer, rpc, first>>

(* Mutants of Sentinel: the first reader goes the way of the others, and   *)
(* the others the way of the first.                                        *)
SentinelKeeps(r) ==
  /\ At(r, "send") /\ n[r] = Copies * Size
  /\ Goto(r, "again")
  /\ UNCHANGED <<sems, cor, res, writer, first, n, sent>>
SentinelAll(r) ==
  /\ At(r, "send") /\ n[r] = Copies * Size
  /\ Goto(r, "release")
  /\ UNCHANGED <<sems, cor, res, writer, first, n, sent>>

(* The last write, after which only the first reader has flg to give back. *)
Sentinel(r) ==
  /\ At(r, "send") /\ n[r] = Copies * Size
  /\ Goto(r, IF first[r] THEN "release" ELSE "again")
  /\ UNCHANGED <<sems, cor, res, writer, first, n, sent>>

Release(r) ==
  /\ At(r, "release")
  /\ flg' = flg + 1
  /\ Goto(r, "again")
  /\ UNCHANGED <<flg1, flg2, cor, res, writer, first, n, sent>>

(* flg1.acquire() for the second time. *)
Again(r) ==
  /\ At(r, "again") /\ flg1 > 0
  /\ flg1' = flg1 - 1
  /\ Goto(r, "discount")
  /\ UNCHANGED <<flg, flg2, cor, res, writer, first, n, sent>>

(* cor--; flg1.release(); and the thread ends. *)
Discount(r) ==
  /\ At(r, "discount")
  /\ cor' = cor - 1 /\ flg1' = flg1 + 1
  /\ Goto(r, "ended")
  /\ UNCHANGED <<flg, flg2, res, writer, first, n, sent>>

(* The client is gone: dout.write throws, the reader closes and returns. *)
Throw(r) ==
  /\ At(r, "send")
  /\ Goto(r, "thrown")
  /\ UNCHANGED <<sems, cor, res, writer, first, n, sent>>

(* The steps that do not wait for the client. *)
Own(r) == \/ Enter(r) \/ Pass(r) \/ Ask(r) \/ Take(r) \/ Count(r)
          \/ Release(r) \/ Again(r) \/ Discount(r)

ReaderStep(r) == Own(r) \/ Send(r) \/ Sentinel(r)

Next == WriterStep \/ \E r \in Reader : Accept(r) \/ ReaderStep(r) \/ Throw(r)

Spec == Init /\ [][Next]_vars

(* Every thread is scheduled, but dout.write need not return: a client may *)
(* stay connected and stop reading.  The writer sleeps fifteen seconds     *)
(* after it gave flg back, so the reader that waits for flg gets it in the *)
(* end.                                                                    *)
Fairness == /\ WF_vars(WriterStep)
            /\ SF_vars(\E r \in Reader : Take(r))
            /\ \A r \in Reader : WF_vars(Own(r))

FairSpec == Spec /\ Fairness
-----------------------------------------------------------------------------
TypeOK ==
  /\ flg \in 0..1 /\ flg1 \in 0..1 /\ flg2 \in 0..Permits
  /\ cor \in 0..Cardinality(Reader)
  /\ res \in [1..Size -> 0..Limit-1]
  /\ wpc \in {"flg2", "flg", "fill", "release", "leave", "sleep"}
  /\ i \in 1..Size+1 /\ value \in 1..Limit-1
  /\ rpc \in [Reader -> {"none", "flg2", "pass", "flg1", "flg", "count", "send",
                         "release", "again", "discount", "ended", "thrown"}]
  /\ first \in [Reader -> BOOLEAN]
  /\ n \in [Reader -> 0..Copies * Size]
  /\ sent \in [Reader -> SUBSET (0..Limit-1)]

(* What the first reader sends, all of its copies, is one value: the       *)
(* writer does not come in between, whatever the other readers do and      *)
(* wherever they die.  (The others may send a mixture: the first reader    *)
(* gives flg back while they are still sending.)                           *)
FirstWhole == \A r \in Reader : first[r] => Cardinality(sent[r]) <= 1

(* A reader takes flg only when no other reader has begun and not ended,   *)
(* the ones that died on a closed connection included: after such a death  *)
(* no reader ever takes flg again.                                         *)
Begun(r) == rpc[r] \in {"count", "send", "release", "again", "discount", "thrown"}
FirstAlone ==
  [][ \A r \in Reader : At(r, "flg") /\ rpc'[r] = "count"
        => \A s \in Reader \ {r} : ~Begun(s) ]_vars

(* Every connection gets to its first write, whatever the other clients do *)
(* (some may be gone, some may not read) and although the writer may then  *)
(* wait for flg for ever: it keeps one permit of flg2 only.                *)
Served == \A r \in Reader : At(r, "flg2") ~> At(r, "send")

(* The writer comes to its next update if every reader that has flg gives  *)
(* it back: its client neither closes the connection nor stops reading.    *)
Holds(r) == first[r] /\ rpc[r] \in {"send", "thrown"}
Updates == (\A r \in Reader : []<>~Holds(r)) => (wpc = "flg2" ~> wpc = "sleep")
=============================================================================
