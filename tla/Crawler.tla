------------------------------ MODULE Crawler ------------------------------
(***************************************************************************)
(* The concurrent web crawler, CSC2636/webCrawler2/crawler.go.             *)
(*                                                                         *)
(* A pool of workers takes links from the buffered channel jobs, fetches   *)
(* them, saves each page and sends every new in-scope link of the page     *)
(* back on the same channel.  The mutex protects Prev, the set of links    *)
(* already sent, and is held across the channel send.  main counts the     *)
(* workers' "done" messages, gives up early when the channel is full, then *)
(* closes both channels and returns.                                       *)
(*                                                                         *)
(* The web is a constant: Links[u] is the sequence of the href targets of  *)
(* page u after ResolveReference, Malformed an href url.Parse rejects, and *)
(* Flaky the pages whose fetch may fail.                                   *)
(***************************************************************************)
EXTENDS Naturals, Sequences, FiniteSets

CONSTANTS URL, Seed, Scope, Links, Malformed, Flaky,
          Workers,      \* the goroutines, w of them
          MaxDepth,     \* the depth argument
          MaxLinks,     \* the max_links argument, total in worker
          JobsCap,      \* capacity of jobs, 1024*1024 in the program
          NoWorker      \* the free mutex

ASSUME WebAssumption ==
  /\ Seed \in Scope /\ Scope \subseteq URL /\ Flaky \subseteq URL
  /\ Malformed \notin URL
  /\ Links \in [URL -> Seq(URL \union {Malformed})]

ASSUME ArgsAssumption ==
  /\ IsFiniteSet(Workers) /\ NoWorker \notin Workers
  /\ MaxDepth \in Nat /\ MaxLinks \in Nat
  /\ JobsCap \in Nat \ {0}

VARIABLES
  jobs,         \* the buffered channel, oldest link first
  jobsClosed, doneClosed,
  visited,      \* links_visited
  Prev,         \* the keys of the map Prev
  mutex,        \* the worker that holds the mutex, or NoWorker
  wpc,          \* what each worker does next
  cur,          \* each worker's current link, the parameter of addLinks
  todo,         \* the anchors of cur that addLinks has not handled yet
  mpc, received,  \* main: where it is, and the loop variable i of its wait
  fetched,      \* how often each page was consumed
  panic         \* why the process died, or "none"

chans == <<jobs, jobsClosed, doneClosed>>
main == <<mpc, received>>
vars == <<jobs, jobsClosed, doneClosed, visited, Prev, mutex, wpc, cur, todo,
          mpc, received, fetched, panic>>

Link == [u : URL, depth : Nat]
WorkerPC == {"check", "add", "select", "fetch", "links", "send", "mark",
             "finish", "exited"}
Panic == {"none", "parse", "nil_link", "send_on_closed"}

(* The link that worker w is adding: the first of its remaining anchors. *)
Target(w) == Head(todo[w])

(* The process runs: nobody panicked and main has not returned. *)
Alive == panic = "none" /\ mpc # "exited"

At(w, l) == Alive /\ wpc[w] = l
MainAt(l) == Alive /\ mpc = l
Goto(w, l) == wpc' = [wpc EXCEPT ![w] = l]

Init ==
  /\ jobs = <<[u |-> Seed, depth |-> 0]>>
  /\ jobsClosed = FALSE /\ doneClosed = FALSE
  /\ visited = 0
  /\ Prev = {}
  /\ mutex = NoWorker
  /\ wpc = [w \in Workers |-> "check"]
  /\ cur = [w \in Workers |-> [u |-> Seed, depth |-> 0]]
  /\ todo = [w \in Workers |-> <<>>]
  /\ mpc = "wait" /\ received = 0
  /\ fetched = [u \in URL |-> 0]
  /\ panic = "none"
-----------------------------------------------------------------------------
(***************************************************************************)
(* worker                                                                  *)
(***************************************************************************)

(* Mutant of CheckTotal: x > total. *)
CheckTotalLate(w) ==
  /\ At(w, "check")
  /\ Goto(w, IF visited > MaxLinks THEN "finish" ELSE "add")
  /\ UNCHANGED <<chans, visited, Prev, mutex, cur, todo, main, fetched, panic>>

(* x := atomic.LoadUint64(&links_visited); if x >= total the worker ends. *)
CheckTotal(w) ==
  /\ At(w, "check")
  /\ Goto(w, IF visited >= MaxLinks THEN "finish" ELSE "add")
  /\ UNCHANGED <<chans, visited, Prev, mutex, cur, todo, main, fetched, panic>>

(* atomic.AddUint64(&links_visited, 1): a step of its own, after the check. *)
AddVisited(w) ==
  /\ At(w, "add")
  /\ visited' = visited + 1
  /\ Goto(w, "select")
  /\ UNCHANGED <<chans, Prev, mutex, cur, todo, main, fetched, panic>>

(* Mutant of Receive: j.depth <= depth. *)
ReceiveDeeper(w) ==
  /\ At(w, "select")
  /\ jobs # <<>>
  /\ jobs' = Tail(jobs)
  /\ cur' = [cur EXCEPT ![w] = Head(jobs)]
  /\ Goto(w, IF Head(jobs).depth <= MaxDepth THEN "fetch" ELSE "check")
  /\ UNCHANGED <<jobsClosed, doneClosed, visited, Prev, mutex, todo, main,
                 fetched, panic>>

(* case j := <-jobs. *)
Receive(w) ==
  /\ At(w, "select")
  /\ jobs # <<>>
  /\ jobs' = Tail(jobs)
  /\ cur' = [cur EXCEPT ![w] = Head(jobs)]
  /\ Goto(w, IF Head(jobs).depth < MaxDepth THEN "fetch" ELSE "check")
  /\ UNCHANGED <<jobsClosed, doneClosed, visited, Prev, mutex, todo, main,
                 fetched, panic>>

(* A receive from the closed and empty channel yields the zero link, depth *)
(* 0 and a nil URL, which j.u.String() dereferences.                       *)
ReceiveZero(w) ==
  /\ At(w, "select")
  /\ jobs = <<>> /\ jobsClosed
  /\ IF 0 < MaxDepth
       THEN panic' = "nil_link" /\ UNCHANGED wpc
       ELSE Goto(w, "check") /\ UNCHANGED panic
  /\ UNCHANGED <<chans, visited, Prev, mutex, cur, todo, main, fetched>>

(* Mutant of GiveUp: the timer is not reset by an arriving link. *)
GiveUpBusy(w) ==
  /\ At(w, "select")
  /\ ~jobsClosed
  /\ Goto(w, "finish")
  /\ UNCHANGED <<chans, visited, Prev, mutex, cur, todo, main, fetched, panic>>

(* case <-time.After(10 s): nothing arrived while the worker waited. *)
GiveUp(w) ==
  /\ At(w, "select")
  /\ jobs = <<>> /\ ~jobsClosed
  /\ Goto(w, "finish")
  /\ UNCHANGED <<chans, visited, Prev, mutex, cur, todo, main, fetched, panic>>

(* goquery.NewDocument fails: the link is dropped. *)
FetchFails(w) ==
  /\ At(w, "fetch")
  /\ cur[w].u \in Flaky
  /\ Goto(w, "check")
  /\ UNCHANGED <<chans, visited, Prev, mutex, cur, todo, main, fetched, panic>>

(* The page is read and consumed (saved), and addLinks is entered. *)
Fetch(w) ==
  /\ At(w, "fetch")
  /\ fetched' = [fetched EXCEPT ![cur[w].u] = @ + 1]
  /\ todo' = [todo EXCEPT ![w] = Links[cur[w].u]]
  /\ Goto(w, "links")
  /\ UNCHANGED <<chans, visited, Prev, mutex, cur, main, panic>>

(* Mutant of Finish: the worker does not return after its done. *)
FinishGoesOn(w) ==
  /\ At(w, "finish")
  /\ ~doneClosed
  /\ mpc = "wait" /\ received < Cardinality(Workers)
  /\ received' = received + 1
  /\ Goto(w, "check")
  /\ UNCHANGED <<chans, visited, Prev, mutex, cur, todo, mpc, fetched, panic>>

(* done <- true on the unbuffered channel: main receives it in its select. *)
Finish(w) ==
  /\ At(w, "finish")
  /\ ~doneClosed
  /\ mpc = "wait" /\ received < Cardinality(Workers)
  /\ received' = received + 1
  /\ Goto(w, "exited")
  /\ UNCHANGED <<chans, visited, Prev, mutex, cur, todo, mpc, fetched, panic>>

(* A worker that is sending on done when main closes it, or sends after. *)
FinishPanics(w) ==
  /\ At(w, "finish")
  /\ doneClosed
  /\ panic' = "send_on_closed"
  /\ UNCHANGED <<chans, visited, Prev, mutex, wpc, cur, todo, main, fetched>>
-----------------------------------------------------------------------------
(***************************************************************************)
(* addLinks, one anchor of the page at a time                              *)
(***************************************************************************)

(* No anchor is left: addLinks returns and the worker loops. *)
LinksDone(w) ==
  /\ At(w, "links")
  /\ todo[w] = <<>>
  /\ Goto(w, "check")
  /\ UNCHANGED <<chans, visited, Prev, mutex, cur, todo, main, fetched, panic>>

(* url.Parse fails: addLinks panics, and the process with it. *)
ParsePanics(w) ==
  /\ At(w, "links")
  /\ todo[w] # <<>> /\ Target(w) = Malformed
  /\ panic' = "parse"
  /\ UNCHANGED <<chans, visited, Prev, mutex, wpc, cur, todo, main, fetched>>

(* The anchor leaves the site, or its link was sent before.  Prev is read  *)
(* with the mutex held, so the second case waits for the mutex; locking,   *)
(* finding the link and unlocking is one step.                             *)
SkipLink(w) ==
  /\ At(w, "links")
  /\ todo[w] # <<>> /\ Target(w) # Malformed
  /\ \/ Target(w) \notin Scope
     \/ mutex = NoWorker /\ Target(w) \in Prev
  /\ todo' = [todo EXCEPT ![w] = Tail(@)]
  /\ UNCHANGED <<chans, visited, Prev, mutex, wpc, cur, main, fetched, panic>>

(* Mutant of LockForSend: links that leave the site are sent too. *)
LockForSendAnywhere(w) ==
  /\ At(w, "links")
  /\ todo[w] # <<>> /\ Target(w) # Malformed
  /\ mutex = NoWorker /\ Target(w) \notin Prev
  /\ mutex' = w
  /\ Goto(w, "send")
  /\ UNCHANGED <<chans, visited, Prev, cur, todo, main, fetched, panic>>

(* mutex.Lock() for a link that Prev does not have: the mutex stays held. *)
LockForSend(w) ==
  /\ At(w, "links")
  /\ todo[w] # <<>> /\ Target(w) \in Scope
  /\ mutex = NoWorker /\ Target(w) \notin Prev
  /\ mutex' = w
  /\ Goto(w, "send")
  /\ UNCHANGED <<chans, visited, Prev, cur, todo, main, fetched, panic>>

(* Mutants of SendLink: the mutex is released before the send is recorded *)
(* in Prev; the link is put before the others, depth first.               *)
SendLinkUnlocked(w) ==
  /\ At(w, "send")
  /\ ~jobsClosed /\ Len(jobs) < JobsCap
  /\ jobs' = Append(jobs, [u |-> Target(w), depth |-> cur[w].depth + 1])
  /\ mutex' = NoWorker
  /\ Goto(w, "mark")
  /\ UNCHANGED <<jobsClosed, doneClosed, visited, Prev, cur, todo, main,
                 fetched, panic>>

SendLinkFirst(w) ==
  /\ At(w, "send")
  /\ ~jobsClosed /\ Len(jobs) < JobsCap
  /\ jobs' = <<[u |-> Target(w), depth |-> cur[w].depth + 1]>> \o jobs
  /\ Goto(w, "mark")
  /\ UNCHANGED <<jobsClosed, doneClosed, visited, Prev, mutex, cur, todo, main,
                 fetched, panic>>

(* jobs <- link{u, d}: blocks, mutex held, while the channel is full. *)
SendLink(w) ==
  /\ At(w, "send")
  /\ ~jobsClosed /\ Len(jobs) < JobsCap
  /\ jobs' = Append(jobs, [u |-> Target(w), depth |-> cur[w].depth + 1])
  /\ Goto(w, "mark")
  /\ UNCHANGED <<jobsClosed, doneClosed, visited, Prev, mutex, cur, todo, main,
                 fetched, panic>>

SendPanics(w) ==
  /\ At(w, "send")
  /\ jobsClosed
  /\ panic' = "send_on_closed"
  /\ UNCHANGED <<chans, visited, Prev, mutex, wpc, cur, todo, main, fetched>>

(* Prev[u.String()] = true; mutex.Unlock(). *)
MarkLink(w) ==
  /\ At(w, "mark")
  /\ Prev' = Prev \union {Target(w)}
  /\ mutex' = NoWorker
  /\ todo' = [todo EXCEPT ![w] = Tail(@)]
  /\ Goto(w, "links")
  /\ UNCHANGED <<chans, visited, cur, main, fetched, panic>>
-----------------------------------------------------------------------------
(***************************************************************************)
(* main, after it started the workers.  Its receive of done is Finish.     *)
(***************************************************************************)

(* Mutant of FullTimeout: the capacity it compares with is never reached. *)
FullTimeoutNever ==
  /\ MainAt("wait") /\ received < Cardinality(Workers)
  /\ Len(jobs) = JobsCap + 1
  /\ mpc' = "close_done"
  /\ UNCHANGED <<chans, visited, Prev, mutex, wpc, cur, todo, received,
                 fetched, panic>>

(* case <-time.After(1 s) with len(jobs) at the capacity: stop waiting. *)
FullTimeout ==
  /\ MainAt("wait") /\ received < Cardinality(Workers)
  /\ Len(jobs) = JobsCap
  /\ mpc' = "close_done"
  /\ UNCHANGED <<chans, visited, Prev, mutex, wpc, cur, todo, received,
                 fetched, panic>>

AllReceived ==
  /\ MainAt("wait") /\ received = Cardinality(Workers)
  /\ mpc' = "close_done"
  /\ UNCHANGED <<chans, visited, Prev, mutex, wpc, cur, todo, received,
                 fetched, panic>>

CloseDone ==
  /\ MainAt("close_done")
  /\ doneClosed' = TRUE
  /\ mpc' = "close_jobs"
  /\ UNCHANGED <<jobs, jobsClosed, visited, Prev, mutex, wpc, cur, todo,
                 received, fetched, panic>>

CloseJobs ==
  /\ MainAt("close_jobs")
  /\ jobsClosed' = TRUE
  /\ mpc' = "return"
  /\ UNCHANGED <<jobs, doneClosed, visited, Prev, mutex, wpc, cur, todo,
                 received, fetched, panic>>

(* main returns: the process exits, whatever the workers are doing. *)
Return ==
  /\ MainAt("return")
  /\ mpc' = "exited"
  /\ UNCHANGED <<chans, visited, Prev, mutex, wpc, cur, todo, received,
                 fetched, panic>>

WorkerStep(w) ==
  \/ CheckTotal(w) \/ AddVisited(w) \/ Receive(w) \/ ReceiveZero(w)
  \/ GiveUp(w) \/ FetchFails(w) \/ Fetch(w) \/ Finish(w) \/ FinishPanics(w)
  \/ LinksDone(w) \/ ParsePanics(w) \/ SkipLink(w) \/ LockForSend(w)
  \/ SendLink(w) \/ SendPanics(w) \/ MarkLink(w)

MainStep == FullTimeout \/ AllReceived \/ CloseDone \/ CloseJobs \/ Return

Next == MainStep \/ \E w \in Workers : WorkerStep(w)

Spec == Init /\ [][Next]_vars

(***************************************************************************)
(* A goroutine that can run is eventually run, a timer that is armed fires *)
(* and a fetch ends one way or the other.                                  *)
(***************************************************************************)
Fairness == /\ WF_vars(MainStep)
            /\ \A w \in Workers : WF_vars(WorkerStep(w))

FairSpec == Spec /\ Fairness
-----------------------------------------------------------------------------
(***************************************************************************)
(* Properties                                                              *)
(***************************************************************************)

TypeOK ==
  /\ jobs \in Seq(Link) /\ Len(jobs) <= JobsCap
  /\ jobsClosed \in BOOLEAN /\ doneClosed \in BOOLEAN
  /\ visited \in Nat
  /\ Prev \subseteq Scope
  /\ mutex \in Workers \union {NoWorker}
  /\ wpc \in [Workers -> WorkerPC]
  /\ cur \in [Workers -> Link]
  /\ todo \in [Workers -> Seq(URL \union {Malformed})]
  /\ mpc \in {"wait", "close_done", "close_jobs", "return", "exited"}
  /\ received \in Nat
  /\ fetched \in [URL -> Nat]
  /\ panic \in Panic

(* A page is fetched at most once whatever the workers do: the test of     *)
(* Prev, the send and the insertion into Prev are one critical section.    *)
(* The seed is the exception, main queues it without entering it in Prev:  *)
(* a page that links back to it has it fetched a second time.              *)
FetchedOnce == \A u \in URL : fetched[u] <= IF u = Seed THEN 2 ELSE 1

(* links_visited overshoots max_links, since a worker tests it and adds to *)
(* it in two steps, but by less than the number of workers.                *)
VisitBound == visited = 0 \/ visited < MaxLinks + Cardinality(Workers)

Saved == { u \in URL : fetched[u] > 0 }

(* What the usage line "url depth max_links workers" says of max_links.    *)
SavedWithinTotal == Cardinality(Saved) <= MaxLinks

(* The pages n links or fewer from the seed. *)
Within[n \in Nat] ==
  IF n = 0 THEN {Seed}
  ELSE Within[n-1] \union
       { u \in Scope : \E p \in Within[n-1] : \E i \in DOMAIN Links[p] : Links[p][i] = u }

(* Whatever the order in which the workers find the pages, no page MaxDepth *)
(* or more links from the seed is fetched.                                 *)
DepthBound == \A u \in Saved : MaxDepth > 0 /\ u \in Within[MaxDepth - 1]

(* A single worker is a breadth-first search: if no fetch fails and the    *)
(* link budget is not spent, it has fetched every page less than MaxDepth  *)
(* links from the seed when it is done.  Two workers may lose one: the     *)
(* first to find it enters it in Prev, maybe with too large a depth.       *)
CompleteCrawl ==
  received = 1 /\ Cardinality(Workers) = 1 /\ Flaky = {} /\ visited < MaxLinks
    => MaxDepth = 0 \/ Within[MaxDepth - 1] \subseteq Saved

(* When main has received every worker's done, no link is left in the      *)
(* channel unless the budget is spent: no worker gives up for good while   *)
(* another still has links to send.  (Without a worker the seed is left.)  *)
NothingLeft ==
  received = Cardinality(Workers) /\ Workers # {}
    => jobs = <<>> \/ visited >= MaxLinks

(* The channels are closed only when nobody will use them again, unless    *)
(* main gave up early because the channel was full.                        *)
CleanShutdown == received = Cardinality(Workers) => panic \in {"none", "parse"}

(* The program ends, also when every worker waits for the mutex and its    *)
(* holder for room in the channel.                                         *)
Terminates == <>~Alive

(* A page is claimed from its send on, when only its sender can know it.   *)
Claimed(u) == u \in Prev \/ \E w \in Workers : wpc[w] = "mark" /\ Target(w) = u

Contract == INSTANCE CrawlContract
              WITH known <- {Seed} \union { u \in Scope : Claimed(u) },
                   saved <- Saved

(* The crawl keeps the promise of CrawlContract. *)
Refines == Contract!Spec
=============================================================================
