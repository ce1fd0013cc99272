--------------------------- MODULE CrawlerProofs ---------------------------
(***************************************************************************)
(* What holds of the crawler for every web, every number of workers and    *)
(* every channel capacity.  The invariants are layered: Lock says who holds *)
(* the mutex and what its holder may assume of Prev; Budget counts the     *)
(* additions to links_visited that are under way; Once follows each link   *)
(* from its send to its fetch; Ending counts the workers that are done and *)
(* finds one that will look at a link left in the channel; Deep relates    *)
(* every link to its distance from the seed; Bfs is the order in which a   *)
(* single worker takes the links.                                          *)
(***************************************************************************)
EXTENDS Crawler, FiniteSetTheorems, WellFoundedInduction, TLAPS

LEMMA LinksType == /\ Links \in [URL -> Seq(URL \union {Malformed})]
                   /\ Seed \in Scope /\ Scope \subseteq URL
                   /\ Malformed \notin URL
  BY WebAssumption DEF WebAssumption

(* What a receive takes from the channel and leaves in it. *)
LEMMA HeadTail ==
  ASSUME NEW S, NEW q \in Seq(S), q # <<>>
  PROVE  /\ Head(q) \in S /\ Tail(q) \in Seq(S)
         /\ Len(q) \in Nat /\ Len(q) > 0 /\ Len(Tail(q)) = Len(q) - 1
         /\ Head(q) = q[1]
         /\ \A i \in 1..Len(q) - 1 : Tail(q)[i] = q[i + 1]
OBVIOUS

(***************************************************************************)
(* Types, and the mutex                                                    *)
(***************************************************************************)

(* Only a worker that is adding a link holds the mutex, the link it adds   *)
(* is in scope, and nobody enters it in Prev between the test and the send.*)
Lock ==
  \A w \in Workers :
    /\ mutex = w <=> wpc[w] \in {"send", "mark"}
    /\ wpc[w] \in {"send", "mark"} => todo[w] # <<>> /\ Target(w) \in Scope
    /\ wpc[w] = "send" => Target(w) \notin Prev

LockInv == TypeOK /\ Lock

LEMMA LockInit == Init => LockInv
<1> SUFFICES ASSUME Init PROVE LockInv
  OBVIOUS
<1>1. [u |-> Seed, depth |-> 0] \in Link /\ Len(jobs) = 1
  BY LinksType DEF Init, Link
<1>2. jobs \in Seq(Link) /\ cur \in [Workers -> Link]
  BY <1>1 DEF Init
<1>3. /\ todo \in [Workers -> Seq(URL \union {Malformed})]
      /\ fetched \in [URL -> Nat] /\ wpc \in [Workers -> WorkerPC]
  BY DEF Init, WorkerPC
<1>4. Len(jobs) <= JobsCap /\ visited \in Nat /\ received \in Nat
  BY <1>1, ArgsAssumption DEF Init, ArgsAssumption
<1>5. TypeOK
  BY <1>2, <1>3, <1>4 DEF Init, TypeOK, Panic
<1>6. Lock
  BY ArgsAssumption DEF Init, Lock, ArgsAssumption
<1> QED BY <1>5, <1>6 DEF LockInv

(* Types are preserved by every step of a worker. *)
LEMMA TypeWorker == ASSUME LockInv, NEW w \in Workers, WorkerStep(w)
                    PROVE  TypeOK'
<1> USE ArgsAssumption, LinksType DEF ArgsAssumption, LockInv, TypeOK, Link,
        WorkerPC, Panic, At, Goto, Alive, Target, chans, main
<1>1. CASE CheckTotal(w) BY <1>1 DEF CheckTotal
<1>2. CASE AddVisited(w) BY <1>2 DEF AddVisited
<1>3. CASE Receive(w)
  <2> HIDE DEF Link
  <2>1. Head(jobs) \in Link /\ Tail(jobs) \in Seq(Link) /\ Len(Tail(jobs)) <= JobsCap
    BY <1>3, HeadTail DEF Receive
  <2>2. cur' \in [Workers -> Link] /\ jobs' \in Seq(Link) /\ Len(jobs') <= JobsCap
    BY <1>3, <2>1 DEF Receive
  <2> QED BY <1>3, <2>2 DEF Receive
<1>4. CASE ReceiveZero(w) BY <1>4 DEF ReceiveZero
<1>5. CASE GiveUp(w) BY <1>5, SMTT(30) DEF GiveUp
<1>6. CASE FetchFails(w) BY <1>6, SMTT(30) DEF FetchFails
<1>7. CASE Fetch(w) BY <1>7, SMTT(30) DEF Fetch
<1>8. CASE Finish(w) BY <1>8, SMTT(30) DEF Finish
<1>9. CASE FinishPanics(w) BY <1>9, SMTT(30) DEF FinishPanics
<1>10. CASE LinksDone(w) BY <1>10, SMTT(30) DEF LinksDone
<1>11. CASE ParsePanics(w) BY <1>11, SMTT(30) DEF ParsePanics
<1>12. CASE SkipLink(w) BY <1>12, SMTT(30) DEF SkipLink
<1>13. CASE LockForSend(w) BY <1>13, SMTT(30) DEF LockForSend
<1>14. CASE SendLink(w)
  <2>1. [u |-> Target(w), depth |-> cur[w].depth + 1] \in Link
    BY <1>14 DEF SendLink, Lock
  <2> HIDE DEF Link, Target
  <2>2. jobs' \in Seq(Link) /\ Len(jobs') <= JobsCap
    BY <1>14, <2>1 DEF SendLink
  <2> QED BY <1>14, <2>2 DEF SendLink
<1>15. CASE SendPanics(w) BY <1>15 DEF SendPanics
<1>16. CASE MarkLink(w) BY <1>16 DEF MarkLink, Lock
<1> QED BY WorkerStep(w), <1>1, <1>2, <1>3, <1>4, <1>5, <1>6, <1>7, <1>8,
           <1>9, <1>10, <1>11, <1>12, <1>13, <1>14, <1>15, <1>16 DEF
           WorkerStep

LEMMA LockWorker == ASSUME LockInv, NEW w \in Workers, WorkerStep(w)
                    PROVE  Lock'
<1> USE ArgsAssumption, LinksType DEF ArgsAssumption, LockInv, TypeOK, Lock,
        WorkerPC, At, Goto, Alive, Target, chans, main
<1>1. CASE CheckTotal(w) BY <1>1 DEF CheckTotal
<1>2. CASE AddVisited(w) BY <1>2 DEF AddVisited
<1>3. CASE Receive(w) BY <1>3 DEF Receive
<1>4. CASE ReceiveZero(w) BY <1>4 DEF ReceiveZero
<1>5. CASE GiveUp(w) BY <1>5 DEF GiveUp
<1>6. CASE FetchFails(w) BY <1>6 DEF FetchFails
<1>7. CASE Fetch(w) BY <1>7 DEF Fetch
<1>8. CASE Finish(w) BY <1>8 DEF Finish
<1>9. CASE FinishPanics(w) BY <1>9 DEF FinishPanics
<1>10. CASE LinksDone(w) BY <1>10 DEF LinksDone
<1>11. CASE ParsePanics(w) BY <1>11 DEF ParsePanics
<1>12. CASE SkipLink(w) BY <1>12 DEF SkipLink
<1>13. CASE LockForSend(w) BY <1>13 DEF LockForSend
<1>14. CASE SendLink(w) BY <1>14 DEF SendLink
<1>15. CASE SendPanics(w) BY <1>15 DEF SendPanics
<1>16. CASE MarkLink(w) BY <1>16 DEF MarkLink
<1> QED BY WorkerStep(w), <1>1, <1>2, <1>3, <1>4, <1>5, <1>6, <1>7, <1>8,
           <1>9, <1>10, <1>11, <1>12, <1>13, <1>14, <1>15, <1>16 DEF
           WorkerStep

LEMMA LockMain == ASSUME LockInv, MainStep PROVE LockInv'
BY DEF LockInv, TypeOK, Lock, Target, MainStep, MainAt, FullTimeout,
       AllReceived, CloseDone, CloseJobs, Return, chans

LEMMA LockStep == LockInv /\ [Next]_vars => LockInv'
<1> SUFFICES ASSUME LockInv, [Next]_vars PROVE LockInv'
  OBVIOUS
<1>1. CASE MainStep BY <1>1, LockMain
<1>2. ASSUME NEW w \in Workers, WorkerStep(w) PROVE LockInv'
  BY <1>2, TypeWorker, LockWorker DEF LockInv
<1>3. CASE UNCHANGED vars
  BY <1>3 DEF vars, LockInv, TypeOK, Lock, Target
<1> QED BY <1>1, <1>2, <1>3 DEF Next

(* The state of the crawler keeps its types: Prev holds links of the site  *)
(* only, and the channel never holds more than its capacity.               *)
THEOREM TypeCorrect == Spec => []TypeOK
<1>1. LockInv => TypeOK BY DEF LockInv
<1> QED BY <1>1, LockInit, LockStep, PTL DEF Spec

(***************************************************************************)
(* The link budget                                                         *)
(***************************************************************************)

Adding == { w \in Workers : wpc[w] = "add" }

(* An addition that is decided counts as done. *)
Budget == \/ visited = 0 /\ Adding = {}
          \/ visited + Cardinality(Adding) < MaxLinks + Cardinality(Workers)

LEMMA AddingFinite == /\ IsFiniteSet(Adding) /\ Cardinality(Adding) \in Nat
                      /\ Cardinality(Workers) \in Nat
BY ArgsAssumption, FS_Subset, FS_CardinalityType DEF Adding, ArgsAssumption

(* Only CheckTotal and AddVisited change the additions under way. *)
LEMMA AddingFrame ==
  ASSUME TypeOK, NEW w \in Workers, WorkerStep(w), ~CheckTotal(w), ~AddVisited(w)
  PROVE  Adding' = Adding /\ visited' = visited
BY DEF TypeOK, WorkerPC, Adding, WorkerStep, At, Goto, Receive, ReceiveZero,
       GiveUp, FetchFails, Fetch, Finish, FinishPanics, LinksDone, ParsePanics,
       SkipLink, LockForSend, SendLink, SendPanics, MarkLink

LEMMA BudgetWorker == ASSUME TypeOK, Budget, NEW w \in Workers, WorkerStep(w)
                      PROVE  Budget'
<1>1. CASE CheckTotal(w) /\ visited >= MaxLinks
  <2>1. Adding' = Adding /\ visited' = visited
    BY <1>1 DEF CheckTotal, TypeOK, WorkerPC, Adding, At, Goto
  <2> QED BY <2>1 DEF Budget
<1>2. CASE CheckTotal(w) /\ ~(visited >= MaxLinks)
  <2>1. /\ Adding' = Adding \union {w} /\ visited' = visited
        /\ w \notin Adding /\ Adding \subseteq Workers \ {w}
    BY <1>2 DEF CheckTotal, TypeOK, WorkerPC, Adding, At, Goto
  <2>2. Cardinality(Adding') = Cardinality(Adding) + 1
    BY <2>1, AddingFinite, FS_AddElement
  <2>3. /\ IsFiniteSet(Workers \ {w})
        /\ Cardinality(Workers \ {w}) = Cardinality(Workers) - 1
    BY ArgsAssumption, FS_RemoveElement DEF ArgsAssumption
  <2>4. Cardinality(Adding) <= Cardinality(Workers \ {w})
    BY <2>1, <2>3, FS_Subset
  <2> QED BY <1>2, <2>1, <2>2, <2>3, <2>4, AddingFinite, ArgsAssumption
          DEF Budget, TypeOK, ArgsAssumption
<1>3. CASE AddVisited(w)
  <2>1. Adding' = Adding \ {w} /\ visited' = visited + 1 /\ w \in Adding
    BY <1>3 DEF AddVisited, TypeOK, WorkerPC, Adding, At, Goto
  <2>2. Cardinality(Adding') = Cardinality(Adding) - 1
    BY <2>1, AddingFinite, FS_RemoveElement
  <2> QED BY <2>1, <2>2, AddingFinite, ArgsAssumption
          DEF Budget, TypeOK, ArgsAssumption
<1>4. CASE ~CheckTotal(w) /\ ~AddVisited(w)
  BY <1>4, AddingFrame DEF Budget
<1> QED BY <1>1, <1>2, <1>3, <1>4

LEMMA BudgetStep == TypeOK /\ Budget /\ [Next]_vars => Budget'
<1> SUFFICES ASSUME TypeOK, Budget, [Next]_vars PROVE Budget'
  OBVIOUS
<1>1. CASE MainStep \/ UNCHANGED vars
  BY <1>1 DEF Budget, Adding, vars, MainStep, FullTimeout, AllReceived,
              CloseDone, CloseJobs, Return
<1>2. ASSUME NEW w \in Workers, WorkerStep(w) PROVE Budget'
  BY <1>2, BudgetWorker
<1> QED BY <1>1, <1>2 DEF Next

LEMMA BudgetInit == Init => Budget
BY DEF Init, Budget, Adding

LEMMA BudgetBounds == TypeOK /\ Budget => VisitBound
BY AddingFinite, ArgsAssumption DEF TypeOK, Budget, VisitBound, ArgsAssumption

(* Whatever the number of workers, links_visited passes max_links by less  *)
(* than their number.                                                      *)
THEOREM VisitBounded == Spec => []VisitBound
<1>1. LockInv => TypeOK BY DEF LockInv
<1> QED BY <1>1, LockInit, LockStep, BudgetInit, BudgetStep, BudgetBounds,
           PTL DEF Spec

(***************************************************************************)
(* From send to fetch                                                      *)
(***************************************************************************)

(* main's link has depth 0 and names the seed, every other link was sent.  *)
Sent(l) == l.depth # 0

InHand(w) == wpc[w] = "fetch"

(* main's link to u, or a link to u that was sent, is in the channel or its *)
(* fetch is under way.                                                     *)
FirstPending(u) ==
  \/ \E i \in 1..Len(jobs) : jobs[i].u = u /\ ~Sent(jobs[i])
  \/ \E w \in Workers : InHand(w) /\ cur[w].u = u /\ ~Sent(cur[w])

SentPending(u) ==
  \/ \E i \in 1..Len(jobs) : jobs[i].u = u /\ Sent(jobs[i])
  \/ \E w \in Workers : InHand(w) /\ cur[w].u = u /\ Sent(cur[w])

From(l) == IF Sent(l) THEN Claimed(l.u) ELSE l.u = Seed

Origin == /\ \A i \in 1..Len(jobs) : From(jobs[i])
          /\ \A w \in Workers : InHand(w) => From(cur[w])

Same(l, m) == l.u = m.u /\ (Sent(l) <=> Sent(m))

(* No link is pending twice. *)
Distinct ==
  /\ \A i, j \in 1..Len(jobs) : Same(jobs[i], jobs[j]) => i = j
  /\ \A i \in 1..Len(jobs), w \in Workers : InHand(w) => ~Same(jobs[i], cur[w])
  /\ \A v, w \in Workers : InHand(v) /\ InHand(w) /\ Same(cur[v], cur[w]) => v = w

(* Of every page, the fetches made and the fetches that may still come. *)
NFirst(u) == IF FirstPending(u) THEN 1 ELSE 0
NSent(u) == IF SentPending(u) THEN 1 ELSE 0
NFree(u) == IF Claimed(u) THEN 0 ELSE 1
Total(u) == fetched[u] + NFirst(u) + NSent(u) + NFree(u)

Count == \A u \in URL : Total(u) <= IF u = Seed THEN 2 ELSE 1

Once == Origin /\ Distinct /\ Count

(* Nothing becomes or stops being claimed but by a send. *)
LEMMA ClaimedFrame ==
  ASSUME LockInv, NEW w \in Workers, WorkerStep(w), ~SendLink(w)
  PROVE  \A u : Claimed(u)' <=> Claimed(u)
<1> USE DEF LockInv, TypeOK, Lock, Claimed, WorkerPC, At, Goto, Target, chans, main
<1>1. CASE CheckTotal(w) BY <1>1 DEF CheckTotal
<1>2. CASE AddVisited(w) BY <1>2 DEF AddVisited
<1>3. CASE Receive(w) BY <1>3 DEF Receive
<1>4. CASE ReceiveZero(w) BY <1>4 DEF ReceiveZero
<1>5. CASE GiveUp(w) BY <1>5 DEF GiveUp
<1>6. CASE FetchFails(w) BY <1>6 DEF FetchFails
<1>7. CASE Fetch(w) BY <1>7 DEF Fetch
<1>8. CASE Finish(w) BY <1>8 DEF Finish
<1>9. CASE FinishPanics(w) BY <1>9 DEF FinishPanics
<1>10. CASE LinksDone(w) BY <1>10 DEF LinksDone
<1>11. CASE ParsePanics(w) BY <1>11 DEF ParsePanics
<1>12. CASE SkipLink(w) BY <1>12 DEF SkipLink
<1>13. CASE LockForSend(w) BY <1>13 DEF LockForSend
<1>14. CASE SendLink(w) BY <1>14
<1>15. CASE SendPanics(w) BY <1>15 DEF SendPanics
<1>16. CASE MarkLink(w) BY <1>16 DEF MarkLink
<1> QED BY WorkerStep(w), <1>1, <1>2, <1>3, <1>4, <1>5, <1>6, <1>7, <1>8,
           <1>9, <1>10, <1>11, <1>12, <1>13, <1>14, <1>15, <1>16 DEF
           WorkerStep

(* A send claims its target, which was not claimed. *)
LEMMA ClaimedSend ==
  ASSUME LockInv, NEW w \in Workers, SendLink(w)
  PROVE  /\ ~Claimed(Target(w))
         /\ \A u : Claimed(u)' <=> Claimed(u) \/ u = Target(w)
BY DEF SendLink, LockInv, TypeOK, Lock, Claimed, WorkerPC, At, Goto, Target

(* The other steps move no link. *)
LEMMA PendingFrame ==
  ASSUME TypeOK, NEW w \in Workers, WorkerStep(w),
         ~Receive(w), ~FetchFails(w), ~Fetch(w), ~SendLink(w)
  PROVE  /\ jobs' = jobs /\ fetched' = fetched /\ cur' = cur
         /\ \A v \in Workers : InHand(v)' <=> InHand(v)
BY DEF TypeOK, WorkerPC, InHand, WorkerStep, At, Goto, chans, CheckTotal,
       AddVisited, ReceiveZero, GiveUp, Finish, FinishPanics, LinksDone,
       ParsePanics, SkipLink, LockForSend, SendPanics, MarkLink

LEMMA NType == \A u : NFirst(u) \in {0, 1} /\ NSent(u) \in {0, 1} /\ NFree(u) \in {0, 1}
BY DEF NFirst, NSent, NFree

LEMMA NTypeNext ==
  \A u : NFirst(u)' \in {0, 1} /\ NSent(u)' \in {0, 1} /\ NFree(u)' \in {0, 1}
BY DEF NFirst, NSent, NFree

LEMMA FetchedType == TypeOK => fetched \in [URL -> Nat]
BY DEF TypeOK

(* Count is preserved when no page's total grows. *)
LEMMA CountStep ==
  ASSUME fetched \in [URL -> Nat], Count, fetched' \in [URL -> Nat],
         \A u \in URL : Total(u)' <= Total(u)
  PROVE  Count'
<1> SUFFICES ASSUME NEW u \in URL
             PROVE  Total(u)' <= IF u = Seed THEN 2 ELSE 1
  BY DEF Count
<1>1. /\ Total(u) \in Int /\ Total(u)' \in Int /\ Total(u)' <= Total(u)
      /\ Total(u) <= IF u = Seed THEN 2 ELSE 1
  BY NType, NTypeNext DEF Total, Count
<1> QED BY <1>1

LEMMA OnceFrame ==
  ASSUME Once, jobs' = jobs, fetched' = fetched, cur' = cur,
         \A v \in Workers : InHand(v)' <=> InHand(v),
         \A u : Claimed(u)' <=> Claimed(u)
  PROVE  Once'
<1>1. Origin' BY DEF Once, Origin, From, Sent
<1>2. Distinct' BY DEF Once, Distinct, Same, Sent
<1>3. \A u \in URL : /\ FirstPending(u)' <=> FirstPending(u)
                     /\ SentPending(u)' <=> SentPending(u)
  BY DEF FirstPending, SentPending, Sent
<1>4. Count' BY <1>3 DEF Once, Count, Total, NFirst, NSent, NFree
<1> QED BY <1>1, <1>2, <1>4 DEF Once

(* A receive moves the first link from the channel to the worker's hand, or *)
(* drops it for its depth.                                                 *)
LEMMA OnceReceive ==
  ASSUME TypeOK, Once, NEW w \in Workers, Receive(w),
         \A u : Claimed(u)' <=> Claimed(u)
  PROVE  Once'
<1>1. /\ jobs' = Tail(jobs) /\ cur' = [cur EXCEPT ![w] = jobs[1]]
      /\ fetched' = fetched /\ ~InHand(w)
      /\ \A v \in Workers : v # w => (InHand(v)' <=> InHand(v))
  BY HeadTail DEF TypeOK, Receive, InHand, At, Goto, WorkerPC
<1>2. /\ Len(jobs) \in Nat /\ Len(jobs) > 0 /\ Len(jobs') = Len(jobs) - 1
      /\ \A i \in 1..Len(jobs') : i + 1 \in 1..Len(jobs) /\ jobs'[i] = jobs[i+1]
  BY <1>1, HeadTail DEF TypeOK, Receive
<1>3. cur'[w] = jobs[1] /\ \A v \in Workers : v # w => cur'[v] = cur[v]
  BY <1>1 DEF TypeOK
<1> HIDE DEF InHand
<1>4. Origin'
  BY <1>1, <1>2, <1>3 DEF Once, Origin, From, Sent
<1>5. Distinct'
  <2>1. \A i, j \in 1..Len(jobs') : Same(jobs[i+1], jobs[j+1]) => i = j
    BY <1>2 DEF Once, Distinct
  <2>2. \A i \in 1..Len(jobs') : ~Same(jobs[i+1], jobs[1])
    BY <1>2 DEF Once, Distinct
  <2>3. \A v \in Workers : InHand(v) => ~Same(jobs[1], cur[v])
    BY <1>2 DEF Once, Distinct
  <2> QED BY <1>1, <1>2, <1>3, <2>1, <2>2, <2>3 DEF Once, Distinct, Same, Sent
<1>6. \A u \in URL : /\ FirstPending(u)' => FirstPending(u)
                     /\ SentPending(u)' => SentPending(u)
  BY <1>1, <1>2, <1>3 DEF FirstPending, SentPending, Sent
<1>7. Count'
  <2> SUFFICES ASSUME NEW u \in URL PROVE Total(u)' <= Total(u)
    BY <1>1, CountStep DEF Once, TypeOK
  <2>1. NFirst(u)' <= NFirst(u) /\ NSent(u)' <= NSent(u) /\ NFree(u)' = NFree(u)
    BY <1>6 DEF NFirst, NSent, NFree
  <2> QED BY <1>1, <2>1, NType, NTypeNext, FetchedType DEF Total
<1> QED BY <1>4, <1>5, <1>7 DEF Once

(* A fetch ends; if it succeeded, the page's count grows as its link stops *)
(* being pending.                                                          *)
LEMMA OnceFetch ==
  ASSUME TypeOK, Once, NEW w \in Workers, Fetch(w) \/ FetchFails(w),
         \A u : Claimed(u)' <=> Claimed(u)
  PROVE  Once'
<1>1. /\ jobs' = jobs /\ cur' = cur /\ InHand(w) /\ ~InHand(w)'
      /\ \A v \in Workers : v # w => (InHand(v)' <=> InHand(v))
      /\ cur[w].u \in URL
  BY DEF TypeOK, Link, Fetch, FetchFails, InHand, At, Goto, WorkerPC, chans
<1>2. fetched' \in [URL -> Nat]
      /\ \A u \in URL : fetched'[u] <= IF u = cur[w].u THEN fetched[u] + 1
                                                     ELSE fetched[u]
  BY <1>1 DEF TypeOK, Fetch, FetchFails
<1>3. Origin' BY <1>1 DEF Once, Origin, From, Sent
<1>4. Distinct' BY <1>1 DEF Once, Distinct, Same, Sent
<1>5. \A u \in URL : /\ FirstPending(u)' => FirstPending(u)
                     /\ SentPending(u)' => SentPending(u)
  BY <1>1 DEF FirstPending, SentPending, Sent
<1>6. \A u : u = cur[w].u =>
        /\ Sent(cur[w]) => SentPending(u) /\ ~SentPending(u)'
        /\ ~Sent(cur[w]) => FirstPending(u) /\ ~FirstPending(u)'
  BY <1>1 DEF FirstPending, SentPending, Once, Distinct, Same, Sent
<1>7. Count'
  <2> SUFFICES ASSUME NEW u \in URL PROVE Total(u)' <= Total(u)
    BY <1>2, CountStep DEF Once, TypeOK
  <2>1. NFirst(u)' <= NFirst(u) /\ NSent(u)' <= NSent(u) /\ NFree(u)' = NFree(u)
    BY <1>5 DEF NFirst, NSent, NFree
  <2>2. CASE u = cur[w].u /\ Sent(cur[w])
    <3>1. SentPending(u) /\ ~SentPending(u)'
      BY <1>6, <2>2
    <3>2. NSent(u)' = 0 /\ NSent(u) = 1
      BY <3>1 DEF NSent
    <3> QED BY <1>2, <2>1, <2>2, <3>2, NType, NTypeNext, FetchedType DEF Total
  <2>3. CASE u = cur[w].u /\ ~Sent(cur[w])
    <3>1. FirstPending(u) /\ ~FirstPending(u)'
      BY <1>6, <2>3
    <3>2. NFirst(u)' = 0 /\ NFirst(u) = 1
      BY <3>1 DEF NFirst
    <3> QED BY <1>2, <2>1, <2>3, <3>2, NType, NTypeNext, FetchedType DEF Total
  <2>4. CASE u # cur[w].u
    BY <1>2, <2>1, <2>4, NType, NTypeNext, FetchedType DEF Total
  <2> QED BY <2>2, <2>3, <2>4
<1> QED BY <1>3, <1>4, <1>7 DEF Once

(* A send makes its target pending as it becomes claimed. *)
LEMMA OnceSend ==
  ASSUME LockInv, Once, NEW w \in Workers, SendLink(w)
  PROVE  Once'
<1> DEFINE t == Target(w)
           l == [u |-> t, depth |-> cur[w].depth + 1]
<1>1. /\ jobs' = Append(jobs, l) /\ cur' = cur /\ fetched' = fetched
      /\ \A v \in Workers : InHand(v)' <=> InHand(v)
  BY DEF LockInv, TypeOK, SendLink, InHand, At, Goto, WorkerPC
<1>2. Sent(l) /\ l.u = t
  BY DEF LockInv, TypeOK, Link, Sent
<1>3. ~Claimed(t) /\ \A u : Claimed(u)' <=> Claimed(u) \/ u = t
  BY ClaimedSend
<1>4. /\ Len(jobs) \in Nat /\ Len(jobs') = Len(jobs) + 1
      /\ \A i \in 1..Len(jobs) : jobs'[i] = jobs[i]
      /\ jobs'[Len(jobs) + 1] = l
  BY <1>1 DEF LockInv, TypeOK
<1> HIDE DEF t, l
<1>5. Origin'
  BY <1>1, <1>2, <1>3, <1>4 DEF Once, Origin, From, Sent
<1>6. /\ \A i \in 1..Len(jobs) : ~Same(jobs[i], l)
      /\ \A v \in Workers : InHand(v) => ~Same(l, cur[v])
  BY <1>2, <1>3 DEF Once, Origin, From, Same
<1>7. Distinct'
  BY <1>1, <1>4, <1>6 DEF Once, Distinct, Same, Sent
<1>8. ~SentPending(t)
  BY <1>2, <1>3 DEF Once, Origin, From, SentPending
<1>9. \A u \in URL : /\ FirstPending(u)' => FirstPending(u)
                     /\ SentPending(u)' => SentPending(u) \/ u = t
  BY <1>1, <1>2, <1>4 DEF FirstPending, SentPending, Sent
<1>10. Count'
  <2> SUFFICES ASSUME NEW u \in URL PROVE Total(u)' <= Total(u)
    BY <1>1, CountStep DEF Once, LockInv, TypeOK
  <2>1. NFirst(u)' <= NFirst(u)
    BY <1>9 DEF NFirst
  <2>2. NSent(u)' + NFree(u)' <= NSent(u) + NFree(u)
    BY <1>3, <1>8, <1>9 DEF NSent, NFree
  <2> QED BY <1>1, <2>1, <2>2, NType, NTypeNext, FetchedType DEF Total, LockInv
<1> QED BY <1>5, <1>7, <1>10 DEF Once

LEMMA OnceInit == Init => Once
<1> SUFFICES ASSUME Init PROVE Once
  OBVIOUS
<1>1. /\ Len(jobs) = 1 /\ jobs[1].u = Seed /\ ~Sent(jobs[1])
      /\ \A w \in Workers : ~InHand(w)
      /\ \A u : ~Claimed(u)
  BY DEF Init, Sent, InHand, Claimed
<1>2. \A u \in URL : FirstPending(u) => u = Seed
  BY <1>1 DEF FirstPending
<1>3. \A u \in URL : ~SentPending(u)
  BY <1>1 DEF SentPending
<1>4. \A u \in URL : NFirst(u) <= IF u = Seed THEN 1 ELSE 0
  BY <1>2 DEF NFirst
<1>5. \A u \in URL : NSent(u) = 0 /\ NFree(u) = 1 /\ fetched[u] = 0
  BY <1>1, <1>3 DEF NSent, NFree, Init
<1>6. Count
  BY <1>4, <1>5, NType DEF Count, Total
<1>7. Origin /\ Distinct
  BY <1>1 DEF Origin, Distinct, From
<1> QED BY <1>6, <1>7 DEF Once

LEMMA OnceStep == LockInv /\ Once /\ [Next]_vars => Once'
<1> SUFFICES ASSUME LockInv, Once, [Next]_vars PROVE Once'
  OBVIOUS
<1>1. CASE MainStep \/ UNCHANGED vars
  <2>1. /\ jobs' = jobs /\ fetched' = fetched /\ cur' = cur
        /\ wpc' = wpc /\ Prev' = Prev /\ todo' = todo
    BY <1>1 DEF vars, chans, MainStep, FullTimeout, AllReceived, CloseDone,
                CloseJobs, Return
  <2> QED BY <2>1, OnceFrame DEF InHand, Claimed, Target
<1>2. ASSUME NEW w \in Workers, WorkerStep(w) PROVE Once'
  <2>1. CASE SendLink(w) BY <2>1, OnceSend
  <2>2. CASE ~SendLink(w)
    <3> \A u : Claimed(u)' <=> Claimed(u)
      BY <1>2, <2>2, ClaimedFrame
    <3>1. CASE Receive(w) BY <3>1, OnceReceive DEF LockInv
    <3>2. CASE Fetch(w) \/ FetchFails(w) BY <3>2, OnceFetch DEF LockInv
    <3>3. CASE ~(Receive(w) \/ Fetch(w) \/ FetchFails(w))
      BY <1>2, <2>2, <3>3, PendingFrame, OnceFrame DEF LockInv
    <3> QED BY <3>1, <3>2, <3>3
  <2> QED BY <2>1, <2>2
<1> QED BY <1>1, <1>2 DEF Next

LEMMA OnceBounds == TypeOK /\ Once => FetchedOnce
BY NType, FetchedType DEF Once, Count, Total, FetchedOnce

(* The critical section of addLinks suffices: no interleaving of the       *)
(* workers has a page fetched twice, the seed three times.                 *)
THEOREM FetchesBounded == Spec => []FetchedOnce
<1>1. LockInv => TypeOK BY DEF LockInv
<1> QED BY <1>1, LockInit, LockStep, OnceInit, OnceStep, OnceBounds, PTL DEF Spec

(***************************************************************************)
(* The crawler implements CrawlContract                                    *)
(***************************************************************************)

Known == {Seed} \union { u \in Scope : Claimed(u) }

(* A worker that adds links does so for a page it has saved. *)
Adds == \A w \in Workers :
          wpc[w] \in {"links", "send", "mark"} =>
            /\ cur[w].u \in Saved
            /\ \A i \in 1..Len(todo[w]) : todo[w][i] \in Contract!Outgoing(cur[w].u)

LEMMA AddsStep == LockInv /\ Adds /\ [Next]_vars => Adds'
<1> SUFFICES ASSUME LockInv, Adds, [Next]_vars PROVE Adds'
  OBVIOUS
<1>1. CASE MainStep \/ UNCHANGED vars
  BY <1>1 DEF Adds, Saved, vars, chans, MainStep, FullTimeout, AllReceived,
              CloseDone, CloseJobs, Return
<1>2. ASSUME NEW w \in Workers, WorkerStep(w) PROVE Adds'
  <2>1. TypeOK BY DEF LockInv
  <2>0. Fetch(w) => cur[w].u \in URL /\ cur[w].u \in Saved'
                    /\ \A u \in Saved : u \in Saved'
    BY <2>1, FetchedType DEF TypeOK, Link, Saved, Fetch
  <2>2. \A u \in Saved : u \in Saved'
    <3>1. ~Fetch(w) => fetched' = fetched
      BY <1>2 DEF WorkerStep, CheckTotal, AddVisited, Receive, ReceiveZero,
         GiveUp, FetchFails, Finish, FinishPanics, LinksDone, ParsePanics, SkipLink,
         LockForSend, SendLink, SendPanics, MarkLink
    <3> QED BY <2>0, <3>1 DEF Saved
  <2>3. CASE Fetch(w)
    <3>1. /\ cur' = cur /\ todo'[w] = Links[cur[w].u] /\ cur[w].u \in Saved'
          /\ \A v \in Workers : v # w => todo'[v] = todo[v] /\ wpc'[v] = wpc[v]
          /\ Links[cur[w].u] \in Seq(URL \union {Malformed})
      BY <2>0, <2>1, <2>3, LinksType DEF TypeOK, Fetch, At, Goto
    <3>2. \A i \in 1..Len(todo'[w]) : todo'[w][i] \in Contract!Outgoing(cur[w].u)
      BY <3>1 DEF Contract!Outgoing
    <3> QED BY <2>2, <3>1, <3>2 DEF Adds
  <2>4. CASE SkipLink(w) \/ MarkLink(w)
    <3>1. /\ cur' = cur /\ wpc[w] \in {"links", "mark"}
          /\ todo'[w] = Tail(todo[w]) /\ todo[w] # <<>>
          /\ \A v \in Workers : v # w => todo'[v] = todo[v] /\ wpc'[v] = wpc[v]
      BY <2>1, <2>4 DEF LockInv, Lock, TypeOK, SkipLink, MarkLink, At, Goto
    <3>2. /\ Len(todo'[w]) = Len(todo[w]) - 1 /\ Len(todo[w]) \in Nat
          /\ \A i \in 1..Len(todo'[w]) : i + 1 \in 1..Len(todo[w])
                                         /\ todo'[w][i] = todo[w][i + 1]
      BY <2>1, <3>1, HeadTail DEF TypeOK
    <3> QED BY <2>2, <3>1, <3>2 DEF Adds
  <2>5. CASE ~(Fetch(w) \/ SkipLink(w) \/ MarkLink(w))
    <3>1. /\ todo' = todo
          /\ \A v \in Workers : wpc'[v] \in {"links", "send", "mark"} =>
               wpc[v] \in {"links", "send", "mark"} /\ cur'[v] = cur[v]
      BY <1>2, <2>1, <2>5 DEF TypeOK, WorkerPC, WorkerStep, At, Goto, CheckTotal,
         AddVisited, Receive, ReceiveZero, GiveUp, FetchFails, Finish, FinishPanics,
         LinksDone, ParsePanics, LockForSend, SendLink, SendPanics
    <3> QED BY <2>2, <3>1 DEF Adds
  <2> QED BY <2>3, <2>4, <2>5
<1> QED BY <1>1, <1>2 DEF Next

(* Every step is a Discover, a Save or invisible. *)
LEMMA RefineStep ==
  LockInv /\ Once /\ Adds /\ [Next]_vars => [Contract!Next]_(Contract!vars)
<1> SUFFICES ASSUME LockInv, Once, Adds, [Next]_vars
             PROVE  [Contract!Next]_(Contract!vars)
  OBVIOUS
<1>0. Contract!vars = <<Known, Saved>> /\ Contract!vars' = <<Known', Saved'>>
  BY DEF Contract!vars, Known
<1>1. CASE MainStep \/ UNCHANGED vars
  <2>1. Prev' = Prev /\ wpc' = wpc /\ todo' = todo /\ fetched' = fetched
    BY <1>1 DEF vars, MainStep, FullTimeout, AllReceived, CloseDone, CloseJobs,
                Return
  <2>2. Known' = Known /\ Saved' = Saved
    BY <2>1 DEF Known, Saved, Claimed, Target
  <2> QED BY <1>0, <2>2
<1>2. ASSUME NEW w \in Workers, WorkerStep(w)
      PROVE  [Contract!Next]_(Contract!vars)
  <2>1. CASE SendLink(w)
    <3>1. \A u : Claimed(u)' <=> Claimed(u) \/ u = Target(w)
      BY <2>1, ClaimedSend
    <3>2. Target(w) \in Scope /\ Target(w) \in Contract!Outgoing(cur[w].u)
          /\ cur[w].u \in Saved
      BY <2>1, HeadTail DEF SendLink, At, Lock, LockInv, TypeOK, Adds, Target
    <3>3. Known' = Known \union {Target(w)} /\ Saved' = Saved
      BY <2>1, <3>1, <3>2 DEF Known, Saved, SendLink
    <3>4. Contract!Discover(Target(w))
      BY <3>2, <3>3 DEF Contract!Discover, Known
    <3> QED BY <3>2, <3>4, LinksType DEF Contract!Next
  <2>2. CASE Fetch(w)
    <3>1. \A u : Claimed(u)' <=> Claimed(u)
      BY <1>2, <2>2, ClaimedFrame DEF Fetch, SendLink, At
    <3>2. Saved' = Saved \union {cur[w].u} /\ cur[w].u \in URL
      BY <2>2 DEF LockInv, TypeOK, Link, Fetch, Saved
    <3>3. cur[w].u \in Known
      <4>1. From(cur[w])
        BY <2>2 DEF Fetch, At, InHand, Once, Origin
      <4>2. Claimed(cur[w].u) => cur[w].u \in Scope
        BY DEF Claimed, LockInv, Lock, TypeOK
      <4> QED BY <4>1, <4>2 DEF From, Known
    <3>4. Known' = Known
      BY <3>1 DEF Known
    <3>5. Contract!Save(cur[w].u)
      BY <3>2, <3>3, <3>4 DEF Contract!Save, Known
    <3> QED BY <3>2, <3>5 DEF Contract!Next
  <2>3. CASE ~SendLink(w) /\ ~Fetch(w)
    <3>1. \A u : Claimed(u)' <=> Claimed(u)
      BY <1>2, <2>3, ClaimedFrame
    <3>2. fetched' = fetched
      BY <1>2, <2>3 DEF WorkerStep, CheckTotal, AddVisited, Receive, ReceiveZero,
         GiveUp, FetchFails, Finish, FinishPanics, LinksDone, ParsePanics, SkipLink,
         LockForSend, SendPanics, MarkLink
    <3>3. Known' = Known /\ Saved' = Saved
      BY <3>1, <3>2 DEF Known, Saved
    <3> QED BY <1>0, <3>3
  <2> QED BY <2>1, <2>2, <2>3
<1> QED BY <1>1, <1>2 DEF Next

LEMMA RefineInit == Init => Adds /\ Contract!Init
BY DEF Init, Adds, Contract!Init, Known, Saved, Claimed

(* The concurrent crawl is a crawl: it saves pages it has learnt of, and   *)
(* learns of pages of the site by the links of saved pages only.           *)
THEOREM CrawlRefines == Spec => Refines
<1> USE DEF Refines, Contract!Spec
<1> QED BY LockInit, LockStep, OnceInit, OnceStep, RefineInit, AddsStep,
           RefineStep, PTL DEF Spec

(***************************************************************************)
(* The end of the crawl                                                    *)
(***************************************************************************)

Gone == { w \in Workers : wpc[w] = "exited" }

(* A worker that still takes links, or will. *)
Active(w) == wpc[w] \notin {"finish", "exited"}

(* main has received as many dones as workers have returned; a process     *)
(* that died had a worker left; and a link that is in the channel while    *)
(* the budget lasts has a worker that will look at the channel again.      *)
Ending ==
  /\ received = Cardinality(Gone)
  /\ panic # "none" => Gone # Workers
  /\ Workers # {} /\ jobs # <<>> /\ visited < MaxLinks =>
       \E w \in Workers : Active(w)

LEMMA GoneFinite == /\ IsFiniteSet(Workers) /\ IsFiniteSet(Gone)
                    /\ Gone \in SUBSET Workers
BY ArgsAssumption, FS_Subset DEF Gone, ArgsAssumption

LEMMA EndingInit == Init => Ending
<1> SUFFICES ASSUME Init PROVE Ending
  OBVIOUS
<1>1. Gone = {}
  BY DEF Init, Gone
<1> QED BY <1>1, FS_EmptySet DEF Init, Ending, Active

(* A worker returns when main receives its done, and not otherwise. *)
LEMMA GoneFrame ==
  ASSUME TypeOK, NEW w \in Workers, WorkerStep(w)
  PROVE  /\ Finish(w) => /\ Gone' = Gone \union {w} /\ w \notin Gone
                         /\ received' = received + 1 /\ panic' = "none"
                         /\ jobs' = jobs /\ visited' = visited
                         /\ ~Active(w) /\ \A v \in Workers \ {w} : wpc'[v] = wpc[v]
         /\ ~Finish(w) => Gone' = Gone /\ received' = received /\ w \notin Gone
BY DEF TypeOK, WorkerPC, Gone, Active, WorkerStep, At, Alive, Goto, main, chans, CheckTotal,
       AddVisited, Receive, ReceiveZero, GiveUp, FetchFails, Fetch, Finish,
       FinishPanics, LinksDone, ParsePanics, SkipLink, LockForSend, SendLink,
       SendPanics, MarkLink

(* A worker that stops taking links leaves no work: the budget is spent or *)
(* the channel is empty.                                                   *)
LEMMA ActiveStep ==
  ASSUME TypeOK, NEW w \in Workers, WorkerStep(w), ~Finish(w),
         jobs' # <<>>, visited' < MaxLinks
  PROVE  /\ Active(w)' <=> Active(w)
         /\ \A v \in Workers \ {w} : Active(v)' <=> Active(v)
         /\ ~Active(w) => jobs' = jobs /\ visited' = visited
<1> USE ArgsAssumption DEF TypeOK, ArgsAssumption, WorkerPC, Active, At, Goto, chans
<1>1. CASE CheckTotal(w) \/ AddVisited(w) BY <1>1 DEF CheckTotal, AddVisited
<1>2. CASE Receive(w) \/ ReceiveZero(w) BY <1>2 DEF Receive, ReceiveZero
<1>3. CASE GiveUp(w) BY <1>3 DEF GiveUp
<1>4. CASE FetchFails(w) \/ Fetch(w) BY <1>4 DEF FetchFails, Fetch
<1>5. CASE FinishPanics(w) BY <1>5 DEF FinishPanics
<1>6. CASE LinksDone(w) \/ ParsePanics(w) \/ SkipLink(w) \/ LockForSend(w)
  BY <1>6 DEF LinksDone, ParsePanics, SkipLink, LockForSend
<1>7. CASE SendLink(w) \/ SendPanics(w) \/ MarkLink(w)
  BY <1>7 DEF SendLink, SendPanics, MarkLink
<1> QED BY <1>1, <1>2, <1>3, <1>4, <1>5, <1>6, <1>7 DEF WorkerStep

(* Links come only from a worker that is active, and the budget only grows.*)
LEMMA WorkGrows ==
  ASSUME TypeOK, NEW w \in Workers, WorkerStep(w)
  PROVE  /\ jobs = <<>> /\ jobs' # <<>> => Active(w)
         /\ visited' >= visited /\ visited \in Nat
BY DEF TypeOK, Active, WorkerStep, At, Goto, chans, CheckTotal,
       AddVisited, Receive, ReceiveZero, GiveUp, FetchFails, Fetch, Finish,
       FinishPanics, LinksDone, ParsePanics, SkipLink, LockForSend, SendLink,
       SendPanics, MarkLink

LEMMA EndingStep == TypeOK /\ Ending /\ [Next]_vars => Ending'
<1> SUFFICES ASSUME TypeOK, Ending, [Next]_vars PROVE Ending'
  OBVIOUS
<1>1. CASE MainStep \/ UNCHANGED vars
  BY <1>1 DEF Ending, Gone, Active, vars, chans, MainStep, FullTimeout, AllReceived,
              CloseDone, CloseJobs, Return
<1>2. ASSUME NEW w \in Workers, Finish(w) PROVE Ending'
  <2>1. /\ Gone' = Gone \union {w} /\ w \notin Gone /\ received' = received + 1
        /\ panic' = "none" /\ jobs' = jobs /\ visited' = visited
        /\ ~Active(w) /\ \A v \in Workers \ {w} : wpc'[v] = wpc[v]
    BY <1>2, GoneFrame DEF WorkerStep
  <2>2. Cardinality(Gone') = Cardinality(Gone) + 1
    BY <2>1, GoneFinite, FS_AddElement
  <2> QED BY <2>1, <2>2 DEF Ending, Active
<1>3. ASSUME NEW w \in Workers, WorkerStep(w), ~Finish(w) PROVE Ending'
  <2>1. Gone' = Gone /\ received' = received /\ w \notin Gone
    BY <1>3, GoneFrame
  <2>2. ASSUME jobs' # <<>>, visited' < MaxLinks
        PROVE  \E v \in Workers : Active(v)'
    <3>1. CASE Active(w) BY <1>3, <2>2, <3>1, ActiveStep
    <3>2. CASE ~Active(w)
      <4>1. jobs' = jobs /\ visited' = visited
        BY <1>3, <2>2, <3>2, ActiveStep
      <4>2. PICK v \in Workers : Active(v)
        BY <2>2, <4>1 DEF Ending
      <4> QED BY <1>3, <2>2, <3>2, <4>2, ActiveStep
    <3> QED BY <3>1, <3>2
  <2> QED BY <2>1, <2>2 DEF Ending
<1> QED BY <1>1, <1>2, <1>3 DEF Next

LEMMA EndingEverybody == Ending /\ received = Cardinality(Workers) => Gone = Workers
BY GoneFinite, FS_Subset DEF Ending

LEMMA EndingClean == Ending => CleanShutdown
BY EndingEverybody DEF Ending, CleanShutdown

LEMMA EndingNothingLeft == TypeOK /\ Ending => NothingLeft
BY EndingEverybody, ArgsAssumption
   DEF Ending, NothingLeft, Gone, Active, TypeOK, ArgsAssumption

(* When main has received a done for every worker, none of them is left to *)
(* use the channels it closes: a send on a closed channel, or the nil link *)
(* of one, is possible only after main gave up early.                      *)
THEOREM ShutdownIsClean == Spec => []CleanShutdown
<1>1. LockInv => TypeOK BY DEF LockInv
<1> QED BY <1>1, LockInit, LockStep, EndingInit, EndingStep, EndingClean, PTL DEF Spec

(* No link is left behind while the budget lasts, however the workers      *)
(* interleave: whoever sends a link will look at the channel again.        *)
THEOREM NoLinkLeft == Spec => []NothingLeft
<1>1. LockInv => TypeOK BY DEF LockInv
<1> QED BY <1>1, LockInit, LockStep, EndingInit, EndingStep, EndingNothingLeft,
           PTL DEF Spec

(***************************************************************************)
(* Induction.  The provers do not instantiate the library's theorems with  *)
(* an operator parameter; these take a set.                                *)
(***************************************************************************)

LEMMA LeastNat == ASSUME NEW T, T \subseteq Nat, T # {}
                  PROVE  \E m \in T : \A k \in T : ~(k < m)
<1> DEFINE R == OpToRel(<, Nat)
<1>1. IsWellFoundedOn(R, Nat) BY NatLessThanWellFounded
<1>2. \A x, y \in Nat : <<x, y>> \in R <=> x < y
  BY DEF OpToRel
<1> HIDE DEF R
<1>3. \E x \in T : \A y \in T : ~ (<<y, x>> \in R)
  BY <1>1, WFMin
<1> QED BY <1>2, <1>3

LEMMA NatIsInductive == ASSUME NEW T, 0 \in T, \A n \in Nat : n \in T => n + 1 \in T
                        PROVE  Nat \subseteq T
<1> DEFINE U == Nat \ T
<1> SUFFICES ASSUME U # {} PROVE FALSE
  OBVIOUS
<1>1. PICK m \in U : \A k \in U : ~(k < m)
  <2> HIDE DEF U
  <2>1. U \subseteq Nat BY DEF U
  <2> QED BY <2>1, LeastNat
<1>2. m # 0 /\ m - 1 \in Nat /\ m - 1 < m /\ m - 1 \notin U
  BY <1>1
<1> QED BY <1>1, <1>2

(* What n applications of F make of b, step by step. *)
Iterates(S, F, b, n) ==
  { f \in [0..n -> S] : f[0] = b /\ \A i \in 0..n-1 : f[i + 1] = F[f[i]] }

LEMMA IteratesExist ==
  ASSUME NEW S, NEW b \in S, NEW F \in [S -> S], NEW n \in Nat
  PROVE  Iterates(S, F, b, n) # {}
<1> DEFINE T == { k \in Nat : Iterates(S, F, b, k) # {} }
<1>1. 0 \in T
  <2>1. [i \in 0..0 |-> b] \in Iterates(S, F, b, 0)
    BY DEF Iterates
  <2> QED BY <2>1
<1>2. ASSUME NEW k \in Nat, k \in T PROVE k + 1 \in T
  <2>1. PICK f : f \in Iterates(S, F, b, k)
    BY <1>2
  <2> DEFINE g == [i \in 0..k+1 |-> IF i = k + 1 THEN F[f[k]] ELSE f[i]]
  <2>2. /\ f \in [0..k -> S] /\ f[0] = b
        /\ \A i \in 0..k-1 : f[i + 1] = F[f[i]]
    BY <2>1 DEF Iterates
  <2>3. g \in [0..k+1 -> S] /\ g[0] = b
    BY <2>2
  <2>4. ASSUME NEW i \in 0..(k+1)-1 PROVE g[i + 1] = F[g[i]]
    <3>1. CASE i = k BY <2>2, <3>1
    <3>2. CASE i # k
      <4>1. i \in 0..k-1 /\ i + 1 \in 0..k+1 /\ i + 1 # k + 1 /\ i \in 0..k+1 /\ i # k + 1
        BY <3>2
      <4> QED BY <2>2, <4>1
    <3> QED BY <3>1, <3>2
  <2> HIDE DEF g
  <2>5. g \in Iterates(S, F, b, k + 1)
    BY <2>3, <2>4 DEF Iterates
  <2> QED BY <2>5
<1> HIDE DEF T
<1>3. Nat \subseteq T
  BY <1>1, <1>2, NatIsInductive
<1> QED BY <1>3 DEF T

LEMMA IteratesUnique ==
  ASSUME NEW S, NEW b, NEW F, NEW m \in Nat, NEW n \in Nat,
         NEW f \in Iterates(S, F, b, m), NEW g \in Iterates(S, F, b, n),
         NEW i \in Nat, i <= m, i <= n
  PROVE  f[i] = g[i]
<1> DEFINE T == { k \in Nat : k <= m /\ k <= n => f[k] = g[k] }
<1>1. 0 \in T
  BY DEF Iterates
<1>2. ASSUME NEW k \in Nat, k \in T PROVE k + 1 \in T
  <2> SUFFICES ASSUME k + 1 <= m, k + 1 <= n PROVE f[k + 1] = g[k + 1]
    OBVIOUS
  <2>1. f[k] = g[k] /\ k \in 0..m-1 /\ k \in 0..n-1
    BY <1>2
  <2> QED BY <2>1 DEF Iterates
<1> HIDE DEF T
<1>3. Nat \subseteq T
  BY <1>1, <1>2, NatIsInductive
<1> QED BY <1>3 DEF T

(* A function that is iterated has an orbit. *)
LEMMA Recursion ==
  ASSUME NEW S, NEW b \in S, NEW F \in [S -> S]
  PROVE  \E h \in [Nat -> S] : h[0] = b /\ \A n \in Nat : h[n + 1] = F[h[n]]
<1> DEFINE It(n) == CHOOSE f : f \in Iterates(S, F, b, n)
           h == [n \in Nat |-> It(n)[n]]
<1>1. \A n \in Nat : It(n) \in Iterates(S, F, b, n)
  BY IteratesExist
<1> HIDE DEF It
<1>2. h \in [Nat -> S]
  BY <1>1 DEF Iterates
<1>3. h[0] = b
  BY <1>1 DEF Iterates
<1>4. ASSUME NEW n \in Nat PROVE h[n + 1] = F[h[n]]
  <2>1. It(n) \in Iterates(S, F, b, n) /\ It(n + 1) \in Iterates(S, F, b, n + 1)
    BY <1>1
  <2>2. It(n + 1)[n] = It(n)[n]
    BY <2>1, IteratesUnique
  <2>3. It(n + 1)[n + 1] = F[It(n + 1)[n]]
    BY <2>1 DEF Iterates
  <2> QED BY <2>2, <2>3
<1> HIDE DEF h
<1> QED BY <1>2, <1>3, <1>4

(***************************************************************************)
(* The pages within n links                                                *)
(***************************************************************************)

Linked(A) ==
  { u \in Scope : \E p \in A : \E i \in DOMAIN Links[p] : Links[p][i] = u }

(* The recursive definition of Within defines the function it seems to.    *)
LEMMA WithinDef ==
  /\ Within \in [Nat -> SUBSET URL]
  /\ Within[0] = {Seed}
  /\ \A n \in Nat : Within[n + 1] = Within[n] \union Linked(Within[n])
<1> DEFINE F == [A \in SUBSET URL |-> A \union Linked(A)]
           G(g) == [n \in Nat |-> IF n = 0 THEN {Seed}
                                 ELSE g[n - 1] \union Linked(g[n - 1])]
<1>1. {Seed} \in SUBSET URL /\ F \in [SUBSET URL -> SUBSET URL]
  BY LinksType DEF Linked
<1>2. PICK h \in [Nat -> SUBSET URL] : h[0] = {Seed} /\ \A n \in Nat : h[n + 1] = F[h[n]]
  <2> DEFINE S == SUBSET URL
             b == {Seed}
  <2>1. b \in S /\ F \in [S -> S]
    BY <1>1
  <2> HIDE DEF F, S, b
  <2>2. \E h \in [Nat -> S] : h[0] = b /\ \A n \in Nat : h[n + 1] = F[h[n]]
    BY <2>1, Recursion
  <2> QED BY <2>2 DEF S, b
<1>3. \A n \in Nat : h[n + 1] = h[n] \union Linked(h[n])
  BY <1>2
<1>4. ASSUME NEW n \in Nat PROVE h[n] = G(h)[n]
  <2>1. CASE n = 0 BY <1>2, <2>1
  <2>2. CASE n # 0
    <3>1. n - 1 \in Nat /\ (n - 1) + 1 = n
      BY <2>2
    <3> QED BY <1>3, <2>2, <3>1
  <2> QED BY <2>1, <2>2
<1>5. h = G(h)
  BY <1>2, <1>4
<1>6. Within = CHOOSE g : g = G(g)
  BY DEF Within, Linked
<1>7. Within = G(Within)
  <2> HIDE DEF G
  <2> QED BY <1>5, <1>6
<1>8. Within[0] = {Seed} /\ \A n \in Nat : Within[n + 1] = Within[n] \union Linked(Within[n])
  <2>1. ASSUME NEW n \in Nat PROVE n + 1 \in Nat /\ n + 1 # 0 /\ (n + 1) - 1 = n
    OBVIOUS
  <2> QED BY <1>7, <2>1
<1>9. \A n \in Nat : Within[n] \subseteq URL
  <2> DEFINE T == { n \in Nat : Within[n] \subseteq URL }
  <2>1. 0 \in T /\ \A n \in Nat : n \in T => n + 1 \in T
    BY <1>1, <1>8, LinksType DEF Linked
  <2> HIDE DEF T
  <2>2. Nat \subseteq T BY <2>1, NatIsInductive
  <2> QED BY <2>2 DEF T
<1> QED BY <1>7, <1>8, <1>9

LEMMA WithinMonotone ==
  ASSUME NEW m \in Nat, NEW n \in Nat, m <= n
  PROVE  Within[m] \subseteq Within[n]
<1> DEFINE T == { k \in Nat : Within[m] \subseteq Within[m + k] }
<1>1. 0 \in T
  OBVIOUS
<1>2. ASSUME NEW k \in Nat, k \in T PROVE k + 1 \in T
  <2>1. m + k \in Nat /\ m + (k + 1) = (m + k) + 1
    OBVIOUS
  <2> QED BY <1>2, <2>1, WithinDef
<1> HIDE DEF T
<1>3. Nat \subseteq T
  BY <1>1, <1>2, NatIsInductive
<1>4. n - m \in Nat /\ m + (n - m) = n
  OBVIOUS
<1> QED BY <1>3, <1>4 DEF T

(***************************************************************************)
(* The depth of a fetch                                                    *)
(***************************************************************************)

(* A link's depth is the length of a path to it, and a worker fetches and  *)
(* adds links of pages less than MaxDepth deep only.                       *)
Deep ==
  /\ \A i \in 1..Len(jobs) : jobs[i].u \in Within[jobs[i].depth]
  /\ \A w \in Workers : cur[w].u \in Within[cur[w].depth]
  /\ \A w \in Workers :
       wpc[w] \in {"fetch", "links", "send", "mark"} => cur[w].depth < MaxDepth
  /\ DepthBound

LEMMA SeqElement == ASSUME NEW S, NEW q \in Seq(S)
                    PROVE  Len(q) \in Nat /\ \A i \in 1..Len(q) : q[i] \in S
OBVIOUS

LEMMA DeepInit == Init => Deep
BY WithinDef DEF Init, Deep, DepthBound, Saved

(* The link that is sent is one link further from the seed.                *)
LEMMA TargetDepth ==
  ASSUME LockInv, Adds, NEW w \in Workers, wpc[w] = "send",
         NEW n \in Nat, cur[w].u \in Within[n]
  PROVE  Target(w) \in Within[n + 1]
<1>1. Target(w) \in Scope /\ todo[w] # <<>>
  BY DEF LockInv, Lock
<1>2. Target(w) = todo[w][1] /\ 1 \in 1..Len(todo[w])
  <2>1. todo[w] \in Seq(URL \union {Malformed})
    BY DEF LockInv, TypeOK
  <2> QED BY <1>1, <2>1, HeadTail DEF Target
<1>3. Target(w) \in Contract!Outgoing(cur[w].u)
  BY <1>2 DEF Adds
<1>4. Target(w) \in Linked(Within[n])
  BY <1>1, <1>3 DEF Linked, Contract!Outgoing
<1> QED BY <1>4, WithinDef

LEMMA DeepWorker ==
  ASSUME LockInv, Adds, Deep, NEW w \in Workers, WorkerStep(w)
  PROVE  Deep'
<1>0. TypeOK BY DEF LockInv
<1>1. CASE Receive(w)
  <2>1. /\ jobs' = Tail(jobs) /\ cur' = [cur EXCEPT ![w] = jobs[1]]
        /\ fetched' = fetched /\ \A v \in Workers \ {w} : wpc'[v] = wpc[v]
        /\ wpc'[w] = IF jobs[1].depth < MaxDepth THEN "fetch" ELSE "check"
    BY <1>0, <1>1, HeadTail DEF TypeOK, Receive, At, Goto
  <2>2. /\ Len(jobs) \in Nat /\ Len(jobs) > 0 /\ Len(jobs') = Len(jobs) - 1
        /\ \A i \in 1..Len(jobs') : i + 1 \in 1..Len(jobs) /\ jobs'[i] = jobs[i+1]
    BY <1>0, <1>1, <2>1, HeadTail DEF TypeOK, Receive
  <2>3. cur'[w] = jobs[1] /\ \A v \in Workers \ {w} : cur'[v] = cur[v]
    BY <1>0, <2>1 DEF TypeOK
  <2>4. jobs[1].u \in Within[jobs[1].depth]
    BY <2>2 DEF Deep
  <2> QED BY <2>1, <2>2, <2>3, <2>4 DEF Deep, DepthBound, Saved
<1>2. CASE Fetch(w)
  <2>1. /\ jobs' = jobs /\ cur' = cur /\ wpc[w] = "fetch"
        /\ wpc' = [wpc EXCEPT ![w] = "links"]
    BY <1>2 DEF Fetch, At, Goto, chans
  <2>2. Saved' = Saved \union {cur[w].u}
    BY <1>0, <1>2 DEF TypeOK, Link, Fetch, Saved
  <2>3. cur[w].depth \in Nat /\ cur[w].depth <= MaxDepth - 1 /\ MaxDepth - 1 \in Nat
        /\ MaxDepth > 0
    BY <1>0, <2>1, ArgsAssumption DEF Deep, TypeOK, Link, ArgsAssumption
  <2>4. cur[w].u \in Within[MaxDepth - 1]
    BY <2>3, WithinMonotone DEF Deep
  <2>5. DepthBound'
    BY <2>2, <2>3, <2>4 DEF Deep, DepthBound
  <2> QED BY <1>0, <2>1, <2>5 DEF Deep, TypeOK
<1>3. CASE SendLink(w)
  <2> DEFINE l == [u |-> Target(w), depth |-> cur[w].depth + 1]
  <2>1. /\ jobs' = Append(jobs, l) /\ cur' = cur /\ fetched' = fetched
        /\ wpc[w] = "send" /\ wpc' = [wpc EXCEPT ![w] = "mark"]
    BY <1>3 DEF SendLink, At, Goto
  <2>2. cur[w].depth \in Nat
    BY <1>0 DEF TypeOK, Link
  <2>3. l.u \in Within[l.depth]
    BY <2>1, <2>2, TargetDepth DEF Deep
  <2> HIDE DEF l
  <2>4. /\ Len(jobs') = Len(jobs) + 1 /\ Len(jobs) \in Nat
        /\ \A i \in 1..Len(jobs) : jobs'[i] = jobs[i]
        /\ jobs'[Len(jobs) + 1] = l
    BY <1>0, <2>1 DEF TypeOK
  <2>5. \A i \in 1..Len(jobs') : jobs'[i].u \in Within[jobs'[i].depth]
    BY <2>3, <2>4 DEF Deep
  <2> QED BY <1>0, <2>1, <2>5 DEF Deep, DepthBound, Saved, TypeOK
<1>4. CASE ~Receive(w) /\ ~Fetch(w) /\ ~SendLink(w)
  <2>1. /\ jobs' = jobs /\ cur' = cur /\ fetched' = fetched
        /\ \A v \in Workers : wpc'[v] \in {"fetch", "links", "send", "mark"} =>
                               wpc[v] \in {"fetch", "links", "send", "mark"}
    BY <1>0, <1>4 DEF TypeOK, WorkerPC, WorkerStep, At, Goto, chans, CheckTotal,
       AddVisited, ReceiveZero, GiveUp, FetchFails, Finish, FinishPanics, LinksDone,
       ParsePanics, SkipLink, LockForSend, SendPanics, MarkLink
  <2> QED BY <2>1 DEF Deep, DepthBound, Saved
<1> QED BY <1>1, <1>2, <1>3, <1>4

LEMMA DeepStep == LockInv /\ Adds /\ Deep /\ [Next]_vars => Deep'
<1> SUFFICES ASSUME LockInv, Adds, Deep, [Next]_vars PROVE Deep'
  OBVIOUS
<1>1. CASE MainStep \/ UNCHANGED vars
  BY <1>1 DEF Deep, DepthBound, Saved, vars, chans, MainStep, FullTimeout, AllReceived,
              CloseDone, CloseJobs, Return
<1> QED BY <1>1, DeepWorker DEF Next

(* However the workers interleave, only pages less than MaxDepth links     *)
(* from the seed are fetched, for every web.                               *)
THEOREM DepthBounded == Spec => []DepthBound
<1>1. Deep => DepthBound BY DEF Deep
<1>2. Init => Adds BY RefineInit
<1> QED BY <1>1, <1>2, LockInit, LockStep, AddsStep, DeepInit, DeepStep, PTL DEF Spec

(***************************************************************************)
(* A single worker finds every page                                        *)
(***************************************************************************)

(* Page u is saved, in the worker's hand, or in the channel with a depth   *)
(* of k at most.                                                           *)
Held(w, u, k) ==
  \/ u \in Saved
  \/ \E i \in 1..Len(jobs) : jobs[i].u = u /\ jobs[i].depth <= k
  \/ InHand(w) /\ cur[w].u = u

Expanding(w) == wpc[w] \in {"links", "send", "mark"}

(* The channel holds the rest of the worker's level, then the next one.    *)
Levels(w) ==
  /\ \A i, j \in 1..Len(jobs) : i <= j => jobs[i].depth <= jobs[j].depth
  /\ \A i \in 1..Len(jobs) : /\ cur[w].depth <= jobs[i].depth
                             /\ jobs[i].depth <= cur[w].depth + 1

(* Every link of a saved page has been sent, but those the worker is at.   *)
Expanded(w) ==
  \A u \in Saved : \A i \in DOMAIN Links[u] :
    Links[u][i] \in Scope =>
      \/ Claimed(Links[u][i])
      \/ /\ Expanding(w) /\ cur[w].u = u
         /\ \E k \in 1..Len(todo[w]) : todo[w][k] = Links[u][i]

(* Before the depth limit no page of the worker's level is missing and no  *)
(* link that was sent is lost; at the limit everything in reach is saved.  *)
Bfs(w) ==
  /\ Levels(w)
  /\ cur[w].depth < MaxDepth =>
       /\ \A u \in Within[cur[w].depth] : Held(w, u, cur[w].depth)
       /\ \A u : Claimed(u) => Held(w, u, cur[w].depth + 1)
       /\ Expanded(w)
  /\ cur[w].depth >= MaxDepth => Within[MaxDepth - 1] \subseteq Saved

Single == Cardinality(Workers) = 1 /\ Flaky = {} /\ MaxDepth > 0

BfsInv == Single => \A w \in Workers : Bfs(w)

LEMMA SingleWorker == ASSUME Single, NEW w \in Workers PROVE Workers = {w}
BY FS_Singleton, ArgsAssumption DEF Single, ArgsAssumption

LEMMA BfsInit == Init => BfsInv
<1> SUFFICES ASSUME Init, Single, NEW w \in Workers PROVE Bfs(w)
  BY DEF BfsInv
<1>1. /\ Len(jobs) = 1 /\ jobs[1] = [u |-> Seed, depth |-> 0]
      /\ cur[w] = [u |-> Seed, depth |-> 0] /\ Saved = {}
      /\ \A u : ~Claimed(u)
  BY DEF Init, Saved, Claimed
<1>2. Within[0] = {Seed} /\ MaxDepth > 0 /\ MaxDepth \in Nat
  BY WithinDef, ArgsAssumption DEF Single, ArgsAssumption
<1>3. Levels(w) /\ Expanded(w)
  BY <1>1 DEF Levels, Expanded
<1>4. Held(w, Seed, 0)
  BY <1>1 DEF Held
<1> QED BY <1>1, <1>2, <1>3, <1>4 DEF Bfs

(* Types of what the single worker's steps compare.                        *)
LEMMA DepthTypes ==
  ASSUME TypeOK, NEW w \in Workers
  PROVE  /\ cur[w].depth \in Nat /\ cur[w].u \in URL
         /\ Len(jobs) \in Nat /\ \A i \in 1..Len(jobs) : jobs[i].depth \in Nat
         /\ MaxDepth \in Nat
<1>1. cur[w] \in Link /\ jobs \in Seq(Link)
  BY DEF TypeOK
<1>2. Len(jobs) \in Nat /\ \A i \in 1..Len(jobs) : jobs[i] \in Link
  BY <1>1, SeqElement
<1> QED BY <1>1, <1>2, ArgsAssumption DEF Link, ArgsAssumption

(* A step that leaves the links where they are, and neither ends nor       *)
(* starts to add the links of a page.                                      *)
LEMMA BfsFrame ==
  ASSUME NEW w \in Workers, Bfs(w), jobs' = jobs, cur' = cur, fetched' = fetched,
         InHand(w)' <=> InHand(w), \A u : Claimed(u)' <=> Claimed(u),
         Expanded(w) => Expanded(w)'
  PROVE  Bfs(w)'
BY DEF Bfs, Levels, Held, Saved

LEMMA BfsReceive ==
  ASSUME TypeOK, Single, NEW w \in Workers, Bfs(w), Receive(w),
         \A u : Claimed(u)' <=> Claimed(u)
  PROVE  Bfs(w)'
<1> DEFINE c == cur[w].depth
           d == jobs[1].depth
<1>1. /\ jobs' = Tail(jobs) /\ cur' = [cur EXCEPT ![w] = jobs[1]]
      /\ fetched' = fetched /\ ~InHand(w) /\ ~Expanding(w) /\ ~Expanding(w)'
      /\ d < MaxDepth => InHand(w)'
  BY HeadTail DEF TypeOK, Receive, At, Goto, InHand, Expanding
<1>2. /\ Len(jobs) \in Nat /\ Len(jobs) > 0 /\ Len(jobs') = Len(jobs) - 1
      /\ \A i \in 1..Len(jobs') : i + 1 \in 1..Len(jobs) /\ jobs'[i] = jobs[i+1]
  BY <1>1, HeadTail DEF TypeOK, Receive
<1>3. /\ cur'[w] = jobs[1] /\ Saved' = Saved
      /\ c \in Nat /\ d \in Nat /\ MaxDepth \in Nat
      /\ \A i \in 1..Len(jobs) : jobs[i].depth \in Nat
  BY <1>1, <1>2, DepthTypes DEF TypeOK, Saved
<1>4. /\ c <= d /\ d <= c + 1
      /\ \A i \in 1..Len(jobs) : d <= jobs[i].depth /\ jobs[i].depth <= c + 1
  BY <1>2, <1>3 DEF Bfs, Levels
<1>5. Levels(w)'
  <2>1. \A i \in 1..Len(jobs') : d <= jobs'[i].depth /\ jobs'[i].depth <= d + 1
    BY <1>2, <1>3, <1>4
  <2>2. \A i, j \in 1..Len(jobs') : i <= j => jobs'[i].depth <= jobs'[j].depth
    BY <1>2 DEF Bfs, Levels
  <2> QED BY <1>3, <2>1, <2>2 DEF Levels
<1>6. ASSUME d < MaxDepth, NEW u, NEW k \in Nat, Held(w, u, k)
      PROVE  Held(w, u, k)'
  <2>1. CASE u \in Saved BY <1>3, <2>1 DEF Held
  <2>2. CASE \E i \in 1..Len(jobs) : jobs[i].u = u /\ jobs[i].depth <= k
    <3>1. PICK i \in 1..Len(jobs) : jobs[i].u = u /\ jobs[i].depth <= k
      BY <2>2
    <3>2. CASE i = 1
      BY <1>1, <1>3, <1>6, <3>1, <3>2 DEF Held
    <3>3. CASE i # 1
      <4>1. i - 1 \in 1..Len(jobs') /\ (i - 1) + 1 = i
        BY <1>2, <3>3
      <4>2. jobs'[i - 1] = jobs[i]
        BY <1>2, <4>1
      <4> QED BY <3>1, <4>1, <4>2 DEF Held
    <3> QED BY <3>2, <3>3
  <2> QED BY <1>1, <1>6, <2>1, <2>2 DEF Held
<1>7. Expanded(w) => Expanded(w)'
  BY <1>1, <1>3 DEF Expanded
<1>8. ASSUME NEW u, NEW k \in Nat, k < d, Held(w, u, k) PROVE u \in Saved
  BY <1>1, <1>3, <1>4, <1>8 DEF Held
<1>9. CASE d = c
  <2>1. ASSUME c < MaxDepth, NEW u \in Within[c] PROVE Held(w, u, cur[w].depth)'
    <3>1. \A k \in Nat : k = c => Held(w, u, k)'
      BY <1>6, <1>9, <2>1 DEF Bfs
    <3> QED BY <1>3, <1>9, <3>1 DEF Held
  <2>2. ASSUME c < MaxDepth, NEW u, Claimed(u)' PROVE Held(w, u, cur[w].depth + 1)'
    <3>1. \A k \in Nat : k = c + 1 => Held(w, u, k)'
      BY <1>6, <1>9, <2>2 DEF Bfs
    <3> QED BY <1>3, <1>9, <3>1 DEF Held
  <2> QED BY <1>3, <1>5, <1>7, <1>9, <2>1, <2>2 DEF Bfs
<1>10. CASE d = c + 1 /\ c < MaxDepth
  <2>1. Within[c] \subseteq Saved
    BY <1>3, <1>8, <1>10 DEF Bfs
  <2>2. ASSUME NEW u \in Linked(Within[c]) PROVE Claimed(u)
    BY <1>1, <1>10, <2>1 DEF Linked, Bfs, Expanded
  <2>3. \A u : Claimed(u) => Held(w, u, d)
    BY <1>10 DEF Bfs
  <2>4. \A u \in Within[d] : Held(w, u, d)
    BY <1>3, <1>10, <2>1, <2>2, <2>3, WithinDef DEF Held
  <2>5. ASSUME d < MaxDepth, NEW u \in Within[d] PROVE Held(w, u, cur[w].depth)'
    <3>1. \A k \in Nat : k = d => Held(w, u, k)'
      BY <1>6, <2>4, <2>5
    <3> QED BY <1>3, <3>1 DEF Held
  <2>6. ASSUME d < MaxDepth, NEW u, Claimed(u)' PROVE Held(w, u, cur[w].depth + 1)'
    <3>1. \A k \in Nat : k = d + 1 => Held(w, u, k)
      BY <1>3, <2>3, <2>6 DEF Held
    <3>2. \A k \in Nat : k = d + 1 => Held(w, u, k)'
      BY <1>6, <2>6, <3>1
    <3> QED BY <1>3, <3>2 DEF Held
  <2>7. d >= MaxDepth => Within[MaxDepth - 1] \subseteq Saved
    <3>1. d >= MaxDepth => MaxDepth - 1 = c
      BY <1>3, <1>10
    <3> QED BY <2>1, <3>1
  <2> QED BY <1>3, <1>5, <1>7, <1>10, <2>5, <2>6, <2>7 DEF Bfs
<1>11. CASE d = c + 1 /\ c >= MaxDepth
  BY <1>3, <1>5, <1>11 DEF Bfs
<1>12. d = c \/ d = c + 1
  BY <1>3, <1>4
<1> QED BY <1>3, <1>9, <1>10, <1>11, <1>12

(* A fetch saves the page in hand, whose links are then all still to come. *)
LEMMA BfsFetch ==
  ASSUME TypeOK, NEW w \in Workers, Bfs(w), Fetch(w),
         \A u : Claimed(u)' <=> Claimed(u)
  PROVE  Bfs(w)'
<1>1. /\ jobs' = jobs /\ cur' = cur /\ InHand(w) /\ ~Expanding(w) /\ Expanding(w)'
      /\ todo'[w] = Links[cur[w].u] /\ cur[w].u \in URL
  BY DepthTypes DEF TypeOK, Fetch, At, Goto, InHand, Expanding, chans
<1>2. Saved' = Saved \union {cur[w].u}
  BY <1>1 DEF TypeOK, Fetch, Saved
<1>3. \A u, k : Held(w, u, k) => Held(w, u, k)'
  BY <1>1, <1>2 DEF Held
<1>4. Levels(w)'
  BY <1>1 DEF Bfs, Levels
<1>5. Expanded(w) => Expanded(w)'
  <2> SUFFICES ASSUME Expanded(w), NEW u \in Saved', NEW i \in DOMAIN Links[u],
                      Links[u][i] \in Scope
               PROVE  \/ Claimed(Links[u][i])'
                      \/ /\ Expanding(w)' /\ cur'[w].u = u
                         /\ \E k \in 1..Len(todo'[w]) : todo'[w][k] = Links[u][i]
    BY DEF Expanded
  <2>1. CASE u = cur[w].u
    <3>1. DOMAIN Links[u] = 1..Len(Links[u])
      BY <1>1, <2>1, LinksType, SeqElement
    <3> QED BY <1>1, <2>1, <3>1
  <2>2. CASE u # cur[w].u
    BY <1>1, <1>2, <2>2 DEF Expanded
  <2> QED BY <2>1, <2>2
<1>6. /\ \A u : Held(w, u, cur[w].depth) => Held(w, u, cur[w].depth)'
      /\ \A u : Held(w, u, cur[w].depth + 1) => Held(w, u, cur[w].depth + 1)'
  BY <1>1, <1>2 DEF Held
<1> QED BY <1>1, <1>2, <1>4, <1>5, <1>6 DEF Bfs

(* A link is sent: it is the deepest in the channel. *)
LEMMA BfsSend ==
  ASSUME LockInv, NEW w \in Workers, Bfs(w), SendLink(w)
  PROVE  Bfs(w)'
<1> DEFINE l == [u |-> Target(w), depth |-> cur[w].depth + 1]
<1>1. /\ jobs' = Append(jobs, l) /\ cur' = cur /\ todo' = todo /\ Saved' = Saved
      /\ ~InHand(w) /\ Expanding(w) /\ Expanding(w)'
  BY DEF LockInv, TypeOK, SendLink, At, Goto, InHand, Expanding, Saved
<1>2. \A u : Claimed(u)' <=> Claimed(u) \/ u = Target(w)
  BY ClaimedSend
<1>3. l.u = Target(w) /\ l.depth = cur[w].depth + 1 /\ cur[w].depth \in Nat
  BY DepthTypes DEF LockInv
<1> HIDE DEF l
<1>4. /\ Len(jobs) \in Nat /\ Len(jobs') = Len(jobs) + 1
      /\ \A i \in 1..Len(jobs) : jobs'[i] = jobs[i]
      /\ jobs'[Len(jobs) + 1] = l
      /\ \A i \in 1..Len(jobs) : jobs[i].depth \in Nat
  <2>1. jobs \in Seq(Link)
    BY DEF LockInv, TypeOK
  <2>2. \A i \in 1..Len(jobs) : jobs[i].depth \in Nat
    BY DepthTypes DEF LockInv
  <2> QED BY <1>1, <2>1, <2>2
<1>5. Levels(w)'
  BY <1>1, <1>3, <1>4 DEF Bfs, Levels
<1>6. Expanded(w) => Expanded(w)'
  BY <1>1, <1>2 DEF Expanded
<1>7. /\ \A u : Held(w, u, cur[w].depth) => Held(w, u, cur[w].depth)'
      /\ \A u : Held(w, u, cur[w].depth + 1) => Held(w, u, cur[w].depth + 1)'
      /\ Held(w, Target(w), cur[w].depth + 1)'
  <2>1. \A u : Held(w, u, cur[w].depth) => Held(w, u, cur[w].depth)'
    BY <1>1, <1>4 DEF Held
  <2>2. \A u : Held(w, u, cur[w].depth + 1) => Held(w, u, cur[w].depth + 1)'
    BY <1>1, <1>4 DEF Held
  <2>3. Held(w, Target(w), cur[w].depth + 1)'
    <3>1. Target(w)' = Target(w)
      BY <1>1 DEF Target
    <3>2. jobs'[Len(jobs) + 1].u = Target(w)' /\ Len(jobs) + 1 \in 1..Len(jobs')
          /\ jobs'[Len(jobs) + 1].depth <= cur'[w].depth + 1
      BY <1>1, <1>3, <1>4, <3>1
    <3> QED BY <3>2 DEF Held
  <2> QED BY <2>1, <2>2, <2>3
<1>8. Target(w)' = Target(w)
  BY <1>1 DEF Target
<1> QED BY <1>1, <1>2, <1>5, <1>6, <1>7, <1>8 DEF Bfs

(* An anchor is done with: its link leaves the site or is claimed. *)
LEMMA BfsAnchor ==
  ASSUME LockInv, NEW w \in Workers, Bfs(w), SkipLink(w) \/ MarkLink(w),
         \A u : Claimed(u)' <=> Claimed(u)
  PROVE  Bfs(w)'
<1>1. /\ jobs' = jobs /\ cur' = cur /\ fetched' = fetched
      /\ ~InHand(w) /\ ~InHand(w)' /\ Expanding(w) /\ Expanding(w)'
      /\ todo'[w] = Tail(todo[w]) /\ todo[w] # <<>>
      /\ todo[w] \in Seq(URL \union {Malformed})
      /\ Target(w) \in Scope => Claimed(Target(w))
  BY DEF LockInv, Lock, TypeOK, SkipLink, MarkLink, At, Goto, InHand, Expanding,
         Claimed, chans
<1>2. /\ Len(todo'[w]) = Len(todo[w]) - 1 /\ Len(todo[w]) \in Nat
      /\ todo[w][1] = Target(w)
      /\ \A k \in 1..Len(todo'[w]) : todo'[w][k] = todo[w][k + 1]
  BY <1>1, HeadTail DEF Target
<1>3. \A k \in 1..Len(todo[w]) : k # 1 => k - 1 \in 1..Len(todo'[w])
                                        /\ todo'[w][k - 1] = todo[w][k]
  BY <1>2
<1>4. Expanded(w) => Expanded(w)'
  <2> SUFFICES ASSUME Expanded(w), NEW u \in Saved, NEW i \in DOMAIN Links[u],
                      Links[u][i] \in Scope, ~Claimed(Links[u][i])
               PROVE  /\ cur[w].u = u
                      /\ \E k \in 1..Len(todo'[w]) : todo'[w][k] = Links[u][i]
    BY <1>1 DEF Expanded, Saved
  <2>1. PICK k \in 1..Len(todo[w]) : todo[w][k] = Links[u][i]
    BY DEF Expanded
  <2>2. k # 1
    BY <1>1, <1>2, <2>1
  <2> QED BY <1>3, <2>1, <2>2 DEF Expanded
<1> QED BY <1>1, <1>4, BfsFrame

LEMMA BfsWorker ==
  ASSUME LockInv, Single, NEW w \in Workers, Bfs(w), WorkerStep(w)
  PROVE  Bfs(w)'
<1>0. TypeOK BY DEF LockInv
<1>1. CASE SendLink(w) BY <1>1, BfsSend
<1>2. ASSUME ~SendLink(w) PROVE Bfs(w)'
  <2> \A u : Claimed(u)' <=> Claimed(u)
    BY <1>2, ClaimedFrame
  <2>1. CASE Receive(w) BY <1>0, <2>1, BfsReceive
  <2>2. CASE Fetch(w) BY <1>0, <2>2, BfsFetch
  <2>3. CASE SkipLink(w) \/ MarkLink(w) BY <2>3, BfsAnchor
  <2>4. ~FetchFails(w)
    BY DEF Single, FetchFails
  <2>5. CASE ~(Receive(w) \/ Fetch(w) \/ SkipLink(w) \/ MarkLink(w))
    <3>1. jobs' = jobs /\ fetched' = fetched /\ cur' = cur /\ (InHand(w)' <=> InHand(w))
      BY <1>0, <1>2, <2>4, <2>5, PendingFrame
    <3>2. /\ todo' = todo
          /\ Expanding(w) => Expanding(w)' \/ todo[w] = <<>>
      BY <1>0, <1>2, <2>4, <2>5 DEF TypeOK, WorkerPC, Expanding, WorkerStep, At, Goto,
         CheckTotal, AddVisited, ReceiveZero, GiveUp, Finish, FinishPanics, LinksDone,
         ParsePanics, LockForSend, SendPanics
    <3>3. Expanded(w) => Expanded(w)'
      BY <3>1, <3>2 DEF Expanded, Saved
    <3> QED BY <3>1, <3>3, BfsFrame
  <2> QED BY <2>1, <2>2, <2>3, <2>5
<1> QED BY <1>1, <1>2

LEMMA BfsStep == LockInv /\ BfsInv /\ [Next]_vars => BfsInv'
<1> SUFFICES ASSUME LockInv, Single, [Next]_vars, NEW w \in Workers, Bfs(w)
             PROVE  Bfs(w)'
  BY DEF BfsInv, Single
<1>1. CASE MainStep \/ UNCHANGED vars
  <2>1. /\ jobs' = jobs /\ fetched' = fetched /\ cur' = cur
        /\ wpc' = wpc /\ Prev' = Prev /\ todo' = todo
    BY <1>1 DEF vars, chans, MainStep, FullTimeout, AllReceived, CloseDone,
                CloseJobs, Return
  <2>2. \A u : Claimed(u)' <=> Claimed(u)
    BY <2>1 DEF Claimed, Target
  <2>3. Expanded(w) => Expanded(w)'
    BY <2>1, <2>2 DEF Expanded, Expanding, Saved
  <2> QED BY <2>1, <2>2, <2>3, BfsFrame DEF InHand
<1>2. ASSUME NEW v \in Workers, WorkerStep(v) PROVE Bfs(w)'
  <2>1. v = w BY SingleWorker
  <2> QED BY <1>2, <2>1, BfsWorker
<1> QED BY <1>1, <1>2 DEF Next

(* When the worker is done, what is saved is closed under the links of the *)
(* site, or has reached the depth limit.                                   *)
LEMMA BfsComplete == LockInv /\ Ending /\ BfsInv => CompleteCrawl
<1> SUFFICES ASSUME LockInv, Ending, BfsInv, Single, received = 1, visited < MaxLinks
             PROVE  Within[MaxDepth - 1] \subseteq Saved
  BY ArgsAssumption DEF CompleteCrawl, Single, ArgsAssumption
<1>0. TypeOK BY DEF LockInv
<1>1. PICK w : Workers = {w}
  BY FS_Singleton, ArgsAssumption DEF Single, ArgsAssumption
<1>2. jobs = <<>> /\ wpc[w] = "exited"
  <2>1. received = Cardinality(Workers)
    BY DEF Single
  <2>2. Gone = Workers BY <2>1, EndingEverybody
  <2>3. jobs = <<>> \/ visited >= MaxLinks
    BY <1>0, <1>1, <2>1, EndingNothingLeft DEF NothingLeft
  <2> QED BY <1>0, <1>1, <2>2, <2>3, ArgsAssumption DEF Gone, TypeOK, ArgsAssumption
<1>3. Bfs(w) /\ cur[w].depth \in Nat /\ MaxDepth \in Nat /\ MaxDepth > 0
  BY <1>0, <1>1, DepthTypes DEF BfsInv, Single
<1>4. \A u, k : Held(w, u, k) => u \in Saved
  BY <1>2 DEF Held, InHand
<1>5. CASE cur[w].depth >= MaxDepth
  BY <1>3, <1>5 DEF Bfs
<1>6. CASE cur[w].depth < MaxDepth
  <2> DEFINE T == { n \in Nat : Within[n] \subseteq Saved }
  <2>1. 0 \in T
    <3>1. Within[0] \subseteq Within[cur[w].depth]
      BY <1>3, WithinMonotone
    <3> QED BY <1>3, <1>4, <1>6, <3>1 DEF Bfs
  <2>2. ASSUME NEW n \in Nat, n \in T PROVE n + 1 \in T
    <3>1. ASSUME NEW u \in Linked(Within[n]) PROVE u \in Saved
      <4>1. Claimed(u)
        BY <1>2, <1>3, <1>6, <2>2, <3>1 DEF Linked, Bfs, Expanded, Expanding
      <4> QED BY <1>3, <1>4, <1>6, <4>1 DEF Bfs
    <3> QED BY <2>2, <3>1, WithinDef
  <2> HIDE DEF T
  <2>3. Nat \subseteq T
    BY <2>1, <2>2, NatIsInductive
  <2> QED BY <1>3, <2>3 DEF T
<1> QED BY <1>3, <1>5, <1>6

(* One worker alone misses nothing: unless a fetch fails or the budget is  *)
(* spent, it has every page less than MaxDepth links from the seed when    *)
(* main has its done.  It takes the links in the order of their depth.     *)
THEOREM SingleWorkerComplete == Spec => []CompleteCrawl
<1>1. LockInv => TypeOK BY DEF LockInv
<1> QED BY <1>1, LockInit, LockStep, EndingInit, EndingStep, BfsInit, BfsStep,
           BfsComplete, PTL DEF Spec
=============================================================================
