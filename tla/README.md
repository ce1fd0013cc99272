# LandmarkCS in TLA+

Models, model checking and proofs for the programs of the repository: a web
crawler in Go, readers and writers over System V IPC and a signal-driven job
scheduler in C, a resource server and a telephone in Java, a small file system,
a client with a ring buffer, and the tree and sorting exercises. Every
definition is translated from the source; `PROJECT.json` maps it to its lines.

## 1. Inventory

The repository is a collection of independent course assignments. Components
interact only inside an assignment; the exception is the crawler, whose `./pages`
directory the search programs read.

| Component | State | Operations | What is hard | What makes it correct |
|---|---|---|---|---|
| **Web crawler** `CSC2636/webCrawler2/crawler.go` | channels `jobs` and `done`, map `Prev`, `mutex`, counter `links_visited` | `worker`, `addLinks`, `consume`, main's wait and shutdown | a pool on one channel that feeds itself, a mutex held across a blocking send, a check and an add in two steps, timeouts, closing channels others use | the budget, the depth, each page once, nothing left behind, no panic at shutdown, termination |
| **System V readers and writers** `CS3871/sync` | shared segment, a semaphore set, a process tree | launcher's fork/wait/quit, reader, writer, SIGQUIT | kills with the semaphore held, unchecked `semop`, a set that is not shared or is removed, exec that returns | writers exclude everybody, whole copies, all children collected, no starvation |
| **Job scheduler** `CS3871/jobScheduler` | process table `pt`, `turn`, `v`, `go` in child and parent | four jobs, `cpusched` in both processes, accounting, choice of the next job | a handler that runs between any two instructions of the child | every job keeps its own value, gives up the processor, shortest job first |
| **Resource server** `CS2452/assign5` | semaphores `flg`, `flg1`, `flg2`, count `cor`, the byte array | writer thread, a reader thread per connection | lost clients at any byte, clients that stop reading, the first reader's special part | what a first reader sends is whole, connections are served, the writer gets on |
| **Skype** `CS2452/Skype` | `incall`, `open`, semaphores `svrflg`, `audflg`, `guiflg` | button, server, client, speaker, mic | permits released that were never taken, taken and not released; calls and hang-ups that cross | permits do not run out, every hang-up pays for one incoming call, the button does not hang |
| **File system** `CS3871/filesystem/tfs.c` | inode list with its end and size, bitmap, descriptors | open, close, read, write, ulink | undefined results, off-by-one searches, freed inodes in use | names are unique, inodes reachable, descriptors and their inodes not shared |
| **Running average** `CS3871/timing/client.c` | ring of 1024 numbers, its two pointers | receive, expire, average | wrap-around, a ring full or empty | indices stay inside, the average is of the last minute |
| **Search tree, trees** `CS2501` | linked nodes | insert, delete, traversals, counts, rotation, construction by levels | pointers after a deletion, positions past the last node | contents and order are kept |
| **Sorting** `CS2501/sorting` | an array | three sorts | boundaries of inner loops and halves | a sorted permutation |
| **Search** `CSC2636/search` | posting lists, `index.dat` | index, write, read, query | order of map iteration | not modelled (section 7) |
| **GUI network, chat, threaded chat** `CS2452` | one connection each | copying loops | end of a conversation | not modelled |
| **Others**: `graph.c` (does not compile), single-function Java programs, boot loader, 8051 assembly | | | | not modelled |

The hazards are listed, each at its line, in `PROJECT.json`.

## 2. Plan

The order was: most concurrency first, then the sequential
programs whose tables and pointers go wrong over a sequence of calls.

1. `Crawler` with the abstract specification `CrawlContract`, refinement, proofs.
2. `SysVSync`, proofs of exclusion and whole copies.
3. `JobScheduler`, proofs of the jobs' values and of the choice of the next job.
4. `WRServer`, proofs of its safety properties.
5. `Tfs` and `RunningAverage`, proofs of all their properties.
6. `BinaryTree`, `SearchTree`, `Sorting`, composed in `MCAlgorithms`.
7. `Skype`, proofs of its two counting invariants.
8. Proofs of the crawler's shutdown, of its depth and completeness, and of
   `ReapsAll`; `Sorting` and `SearchTree` written without recursive operators,
   and proofs of the sorts and of the search tree (`AlgorithmProofs`).
9. `BinaryTree` written without recursive operators, and proofs of the rotation,
   of the construction by levels and of both programs together.

Every invariant and action property that a run checks is now a theorem; left
is what needs fairness.

## 3. Modules

### Crawler (`Crawler`, `CrawlContract`, `MCCrawler`, `CrawlerProofs`)

One action per atomic step of `worker` and `addLinks`: between the load and the
add of `links_visited` (`CheckTotal`, `AddVisited`), between locking, sending
and recording a link (`LockForSend`, `SendLink`, `MarkLink`), and around the
select (`Receive`, `GiveUp`). `done` is unbuffered, so sending on it and main's
receive are the single action `Finish`. Sending on a closed channel, parsing a
bad href and dereferencing the nil URL of the zero link set `panic`, which stops
everything, as does main's return. The web is a constant function `Links`.
`GiveUp` needs an empty open channel: `time.After` is armed anew in every round,
so it fires only for a worker that has been parked in its select for ten
seconds, and a link that arrives before that goes to such a worker.

`CrawlContract` knows two variables, the pages known and the pages saved: a page
becomes known when a saved page links to it and it is in scope, and is saved
only when known. The refinement mapping counts a page as known from its *send*
on, before `Prev` has it, since a second worker may receive it in between.

### Readers and writers (`SysVSync`, `SysVSyncProofs`)

Processes are drawn from `Pid` by `Fork`; `ExecReturns` makes a child a second
launcher that continues the loop where it was forked (an exec that fails for a
reader also sends it through the rest of the loops). `Lock` and `Unlock` are
`semop`, unchecked: without the set they return at once. `Access` handles one
byte. `SignalChild` kills a reader or writer anywhere, `SignalLauncher` removes
the IPC objects under everyone, and so does a second launcher at its end
(`Quit`, line 117), under the readers and writers of the first.

The key of the semaphore set is the id of the segment. `Shared` says that this
is not 0, which is `IPC_PRIVATE`: with 0 every process makes a set of its own,
which in reader.c and writer.c has mode 0, and the `semop` of an ordinary user
fails there (root's would wait for ever, which is not modelled). `Guarded`, the
set exists and is shared, is the premise of what is said about the semaphore.
The readers share it with the writers and so exclude each other too, which the
assignment does not ask for; `MutualExclusion` is about writers.

### Job scheduler (`JobScheduler`, `MCJobScheduler`, `JobSchedulerProofs`)

The child is cut where a signal makes a difference: loading `v`, the call, the
first value, the test of `go` and the change of `v` in each round, leaving the
loop, marking it done, `go=1`, accounting, and each comparison of the scan.
`Handler` runs anywhere; the ghost `astray` records that it ran where `turn` and
`v` belong to different jobs, also inside the scan where `turn` is only a
candidate, so that one run shows what holds with and without such signals. The
turnaround of a finished or first-run job is any of `Times`. `v` is a float with
integer values far below 2^24, so integers are exact; parities are C's
remainders translated to TLA+'s.

### Resource server (`WRServer`, `WRServerProofs`)

The three semaphores are counters. `Ask` joins `flg1.acquire()` to the test of
`cor`, since `cor` changes only with `flg1` held. `Throw` is the IOException of
`dout.write`: the reader leaves without giving back anything, which the
repository's own `Client` provokes when it closes after its first million bytes.
A client may also stay connected and stop reading: `Send` and `Sentinel`, the
calls of `dout.write`, need not happen ever. `Served` therefore ends at a reader's
first write, and `Updates` supposes that no reader keeps `flg` for ever; `Own`
has the steps that depend on nobody outside.

### File system (`Tfs`, `TfsProofs`)

One action per call and outcome. `list` is the chain from `root`; `end` is
represented by `detached`, which says that it points at an entry `root` does not
reach (after the last entry was unlinked; a create then goes there). Searches
look at `Bound` entries and follow a null pointer when the list is shorter than
`inode_list_size`, which ends the program (`OpenFails`, `UlinkFails`, `status`).
`Later` is ulink's search, one entry further than `inode_search`.

Undefined behaviour is modelled as the build shows it: `find_fd` without a
`return` leaves `size` in the register (gcc -O0 and -O2; for `size` 0 only -O0);
`malloc` gives back the inode freed last, with the allocator's bytes over its
name, so that a name stored there without its NUL may be `Garbled`. `write` fills
in the head of the block list, which is not the block it marked, and a closed
descriptor still writes; the last block of the disk cannot be used, since
`get_blocks` then returns null. The run and the proofs follow a program until it
follows a null pointer or leaves `files`.

### Running average (`RunningAverage`, `RunningAverageProofs`)

One action per phase of the loop: `Select`, `Store` for one number, the three
cases of the expiry, `Average`. `Tick` is the clock, in seconds; numbers are
known by their place in `arrived`, so the average is the set of places summed
and the count divided by. `ExpireWrapped` is the loop that writes three entries
for each it passes, as long as they stay in the ring, `ExpireWild` the one that
does not: `end_ptr` moves on past the end, as in the code, and the run stops
there, as what lies behind the ring decides what follows. Equal pointers are
handled as the code does, which takes them for a wrapped ring.

### Trees and sorting (`BinaryTree`, `SearchTree`, `Sorting`, `MCAlgorithms`, `AlgorithmProofs`)

In both tree modules a tree is a function from places, the pointers that lead
to a node from the root, to what the node holds; no node is shared.

In `BinaryTree` a C routine that calls itself with a node's children is a
recursive function of places, which ends at the places that are not in the tree,
and its value at the root is what the routine prints, counts or leaves.
`breadthFirst` is the queue after `k` rounds and the first round in which an
empty place comes out. `Built` is the index arithmetic of tree6's queue. Both
queues have `QueueSize` entries, 100 in the code, which nothing checks: a print
that writes past it and a construction that reads past it, from 50 names on, are
`Undefined`.

`SearchTree` steps by input lines: `Leads` is where the
comparisons of `insert` go, `Replaced` and `Lifted` are what the pointer
assignments of `delete` leave of a node with two children and with fewer. The
recursion of `insert` and `contains` is the quantifier over the nodes on the way
and over all nodes.

`Sorting` keeps the comparisons and their order, the swaps and the halves: a loop
is a recursive function from its counter to what it has made, `mergeSort` one
from the length of its argument.

`MCAlgorithms` lets either program run and applies the tree exercises to the
trees and lists they reach; `Literals` evaluates what the exercise comments draw
(TLC does, no proof uses it).

### Skype (`Skype`, `SkypeProofs`)

Processes are the event thread (`PressCall`, `PressHangup`, `Hangup`), the
server, and for each call a client (if it was made here), a speaker and a mic. A
section that takes a permit, writes one flag and releases it is one step, since
nobody else writes that flag without the permit; `incall` is written by `mic`,
server and window, always under `guiflg`. Hanging up, which waits for `audflg`
while it holds `guiflg`, is two. `Play` is a round of the speaker with sound: it
releases `audflg`, takes it if it can for the volume, and releases it again: one
permit more. `SpeakerCloses` takes one and does not give it back. The stream of
a speaker has two million frames, so that the rounds of a call are bounded:
`MaxRounds` of them use it up. An address may be mistyped: a port that is no
number throws inside the window's section, which keeps `guiflg`
(`PressCallWrong`), one out of range ends the client's thread (`ClientDies`), a
host that is not found gives a null socket (`Connect`). `open` is not
`volatile`; the speaker, which reads from a socket in every round, is assumed to
see what was written to it.

## 4. Runs

| Run | Shows |
|---|---|
| `crawler` | 3 workers, a channel of 1, 7 pages with a cycle, off-site, malformed and failing pages; depth 3, budget 4: `TypeOK`, `VisitBound`, `DepthBound`, `NothingLeft`, `CleanShutdown`, `FetchedOnce`, `Refines` (CrawlContract), `Terminates` |
| `crawler_single` | 1 worker, two ways of different length to a page: `CompleteCrawl` |
| `crawler_total` (violated) | more than `max_links` pages are saved |
| `sync` | 4 processes, 1 reader, 2 writers, a shared set, signals, failing execs: `TypeOK`, `MutualExclusion`, `CopyUniform`, `ReapsAll`, `NoStarvation` |
| `job` | signals anywhere: `TypeOK`, `OwnValue`, `FoundOnlyAstray`, `NoRepeat`, `Preempted` |
| `job_anywhere` (violated) | signals anywhere, inside the scan too: a job finds the value of another |
| `job_shortest` (violated) | the next job is not the shortest (`README.txt:39`) |
| `resource_server` | 3 readers, clients lost or not reading: `TypeOK`, `FirstWhole`, `FirstAlone`, `Served`, `Updates` |
| `tfs` | 3 names, 2 inodes searched and 4 created, 2 descriptors, 3 blocks: `TypeOK`, `NamesUnique`, `NothingLost`, `OnlyFirstSector`, `FreshDescriptor`, `KeepsInode` |
| `timing` | a ring of 4, a minute of 2, 7 numbers in 5 seconds, up to 3 in a read: `Exact`, `InBounds` |
| `algorithms` | words 1..6, up to 8 numbers of 1..3, queues of 15: `Ordered`, `LosesOnly`, `Rotates`, `Sorts`, `Complete` |
| `skype` | 3 calls, one round of sound each, addresses mistyped: `SoundPays`, `OnePerHangup`, `Reopens` |

**Bounds.** Crawler: three workers are the least with which one can be in each
of check, add and send while `VisitBound` is tight (4 + 3 - 1 adds); the
capacity 1 makes the full channel common (the program's is a million), and
`CleanShutdown` excludes only the runs in which main gave up because of it.
`Links` has each kind of link, and `MCDeepLinks` the shortcut with which any
other order than breadth first would lose a page. Readers and writers: two bytes
are enough to tear a copy, four processes for a failed exec whose launcher forks
again. Scheduler: `f0` and `f1` end after one round instead of 100 or 200,
`High` stops the two endless ones, and runs have 4 turns instead of 1000;
`OwnValue` needs two turns to break, `NoRepeat` four. Resource server: two
bytes, one copy, three values of the resource; three readers are one first
reader, one that it lets in, and one that comes after both are gone or dead.
File system: four inodes are two more than a search looks at, so that a ulink
stops at the limit, and four opens reach every descriptor and one past the
table; of the 20 sectors of an inode two are enough to distinguish the first.
Running average: seven numbers fill the ring of four and wrap it, five seconds
are two minutes and one second. Search tree: six words reach a deleted node
whose successor is deep and has a right subtree of its own. Trees: a queue of 15
has room for the seven names and nodes of the exercises and is overrun by eight.
`Shared` is TRUE: without it there is no semaphore in common, and nothing to
check. Skype: three calls are one hung up, one that ended by itself and one that
they disturb; a round is what tells a call heard from a silent one.

**Fairness.** Crawler: weak fairness of main and of each goroutine; the Go
scheduler runs whatever can run, armed timers fire and HTTP requests end.
`sync`: weak fairness of each process, strong fairness of `Lock`, because the
kernel serves a semaphore's waiters in order of arrival. Scheduler: both
processes run; the handler is strongly fair, a pending signal being delivered at
the next return to user mode. Resource server: weak fairness of what each thread
does by itself, `dout.write` not included, which waits for the client, and
strong fairness of `Take`: the semaphore is not fair, but the writer sleeps
fifteen seconds after each release. Skype: weak fairness of the hang-up and of
the server only. No fairness is assumed of signals, failures, clients, `Accept`,
buttons or the other computer. `Tfs`, `RunningAverage` and `MCAlgorithms` are
sequential and state safety only.

**Deadlock** checking is off, and what must not get stuck is stated by
`Terminates`, `NoStarvation`, `Preempted`, `Served`, `Updates` and `Reopens`. The
crawler ends; launchers end and killed holders leave the others waiting; the
child of the scheduler exits; the writer may wait for ever for a lost `flg`; the
file system ends in a fault; the clock, the numbers, the lines and the calls are
bounded.

## 5. Proofs

All for every value of the constants that satisfies the named assumptions.

`CrawlerProofs` (from `WebAssumption`, `ArgsAssumption`):
- `TypeCorrect`. `TypeOK` is not inductive: that `Prev` stays in scope and a link
  is sent with a legal target needs that the worker between lock and unlock
  holds the mutex and has a target left (`LockInv`).
- `VisitBounded`. The invariant `Budget` counts the workers between check and
  add: the visits and these workers together stay below the bound.
- `FetchesBounded`. The invariant `Once` weighs, for every page, the copies in
  the channel, in the workers' hands and fetched: their sum never exceeds what
  the page was sent, once if it is claimed, and once more for the seed.
- `CrawlRefines`. With `Adds` (a worker that adds links has saved its page)
  every step is a step of `CrawlContract` or leaves its variables alone.
- `ShutdownIsClean` and `NoLinkLeft` from `Ending`: `received` is the number of
  workers that have returned; a process that panicked had a worker left; and if a
  link is in the channel while the budget lasts, some worker will look at the
  channel again, since one gives up only when it finds the channel empty, and
  whoever fills it afterwards is such a worker. `NothingLeft` speaks of the moment
  when all workers have returned, and `CleanShutdown` of runs in which main did
  not give up early.
- `DepthBounded` from `Deep`: a link in the channel or in a worker's hand is at
  most its `depth` links from the seed. `Within`, a recursive function, is
  unfolded by `WithinDef`; that such a function exists is `Recursion`.
- `SingleWorkerComplete` from `Bfs`: with one worker the channel holds the rest of
  the worker's level and then the next one (`Levels`); before the depth limit no
  page of the worker's level is missing and no link that was sent is lost, and at
  the limit everything in reach is saved. `CompleteCrawl` supposes that main has
  received the worker's end, that budget was left and that no page fails.

`SysVSyncProofs` (from `SyncAssumption`):
- `TypeCorrect` and `Exclusion` from `Inv`: where a process can be in the loops
  (`Place`), and that a held semaphore is down and has one holder (`Holding`),
  as long as the set exists and is shared.
- `CopiesAreWhole` adds `Whole`: with the semaphore up the segment is uniform,
  the bytes a writer has passed are its own, those a reader has passed are the
  segment's. Nobody can enter after a kill, since the semaphore stays down.
- `LauncherReaps` from `Family`: a launcher in its fork loop has at most as many
  children as slots behind it and all its waits before it, one in its wait loop no
  more children unreaped than waits left. A child whose exec failed has no
  children of its own, but starts in the middle of the loop, so it waits more
  often than it forks.

`JobSchedulerProofs` (from `JobAssumption`):
- `TypeCorrect`; `Scan` adds that the scan has entries left and a run that goes
  on has turns left.
- `ValuesKept` and `NoneFound`. `Own` follows the value of job `turn` from the
  load of `v` to the end of the accounting, until a signal comes astray;
  `job_anywhere` shows that the condition is needed.
- `NeverTwice`, since the candidate is dropped at `last` and only the end of the
  table has no neighbour to go on to.

`WRServerProofs` (from `ServerAssumption`):
- `TypeCorrect`. `Holders` says who holds `flg` (the writer, or one first reader,
  dead or alive) and `flg1`; `Counts` that `cor` is the number of readers that
  began, the dead included, and that permits of `flg2` are held or free.
- `Alone`, since a reader waits for `flg` with `cor = 0` and `flg1` in hand.
- `FirstSendsWhole`. `Whole` says how far the writer has come and that the holder
  of `flg` has sent bytes of the resource as it is.

`TfsProofs` (from `TfsAssumption`):
- `TypeCorrect`; `Without` is the lemma on a list without its k-th entry.
- `DescriptorsFresh` and `OneSector` from `Tables`: descriptors in use lie below
  `size` (`InUse`), and those for writing are at their first sector (`First`).
- `NamesOnce`, `InodesKept` and `InodeOfOpenKept` from `Linked`: while at most
  `MAX_INODES` inodes were created, either nothing was unlinked yet and the list
  is as long as its size, or it is shorter for good and no search of a new name
  returns any more. It is this accident, the null pointer that every later create
  runs into, that keeps the three properties.

`RunningAverageProofs` (from `AverageAssumption`):
- `TypeCorrect`, with `Room` for the numbers still to be stored: the pointers are
  in the ring or at its end, but for `end_ptr` once the expiry wrote past it.
- `AverageExact` and `NeverWild` from `Whole`: while the ring is regular it is
  the sequence of all numbers, and those before `start_ptr` are old (`Prefix`);
  the numbers come in the order of time (`Times`), so that what is young is a
  suffix; `Young` says where it begins after the expiry.

`SkypeProofs` (from `SkypeAssumption`):
- `PermitsPaid`. `Sound` is an equation: the permits of `audflg` and the speakers
  that ended are one more than the rounds that were heard. If every call that
  ended was heard, its first round pays for it.
- `CallsPaid`. The property is itself an equation, the calls taken, the permits
  of `svrflg` and the one the server holds against the hang-ups; `Fresh` adds that
  the calls not yet begun have no client.

`AlgorithmProofs` (from `WordAssumption`, `NumberAssumption`, `QueueAssumption`):
- Induction as a statement about sets: the library's well-founded sets give `LeastNat`
  and from it `NatIsInductive`, which need no operator parameter. That the
  function which a loop computes exists is `Loop`.
- `SortingSorts`. After a round of the selection sort nothing before its place is
  greater than what comes after it (`Low`); in the insertion sort the beginning
  descends but for the number being moved (`DownBut`); both only swap, so every
  number occurs as often as before. `IsLeft` says what is left of the two halves
  when a place of the merge is filled; from it the counts add up and the result
  descends, and `mergeSort` is right for every length by induction on it. There
  is one way to put the same numbers in order (`SortedUnique`).
- `StaysOrdered`. `SearchTreeOf` is inductive: places are closed under their
  beginnings and every node has smaller words on its left, greater ones on its
  right. Two places are the same, one below the other, or on the two sides of a
  third (`Apart`). For a node with two children `LeftmostFirst` says that what
  is at or below its successor comes before everything else on its right; for
  another node, lifting a subtree keeps the side on which one node is of another
  (`LoweredUnder`).
- `LosesLittle`. With every word there once (`Once`) the words lost are the one
  deleted and those below the node that moved, and by `Apart` nothing else lies
  between the deleted word and these.
- `LinesDoTheirWork`, from the same invariant: an insertion adds exactly its word,
  a deletion removes its word wherever it was and gains none.
- `RotatesAnyTree`. `TreeInduction` is induction on trees, as a set of trees that
  has the empty one and every tree whose two subtrees it has. A routine that calls
  itself with a node's children is a fold (`IsFold`): because no place of a tree is
  longer than some bound there is such a function of places (`FoldExists`, from
  `Downward`, recursion from the leaves up), two of them agree on a tree
  (`FoldUnique`), and below a child it is the fold of the subtree (`FoldParts`).
  So every routine of the exercises unfolds at the root (`InorderParts` to
  `RotateParts`) and `Turned` goes through by induction. The trees of the program
  are such trees since no line makes a place longer than the lines before allow
  (`StaysShallow`).
- `BuildsComplete`. The queue of places (`QueueFacts`) holds every place once, in
  order of length, entries 2k+1 and 2k+2 being the children of entry k. `BuiltPlaces`
  says that the tree built has the names at the first places of the queue; so the
  print, which runs through the same queue, gives them back, the count is right
  (`AllCounted`), and since the lengths in the queue never fall, a level is full
  before a place of the next one is taken (`Full`). All this for as many names as
  the queue has room for, since the construction reads up to entry 2n of it and the
  print writes up to there.
- `BothPrograms` puts these together for the specification that the run checks.

Model-checked only: everything under fairness (`Terminates`, `NoStarvation`,
`Preempted`, `Served`, `Updates`, `Reopens`), which the proof system does not
handle.

## 6. Findings

Shown by a violated run:

- `crawler_total`: `max_links` is exceeded by up to one page per further worker.
- `job_anywhere`: a signal inside the scan for the next job saves the value of the
  job that just ran as that of a candidate, here job 2; the scan goes on to job 3,
  and at its next turn job 2 finds a value that is not its own and ends the
  program. (A signal after the scan also clears `go`, so that the loop of the job
  chosen is not entered at that turn.) All is well as long as signals come only from
  the loop of a job to the accounting after it (`FoundOnlyAstray`).
- `job_shortest`: the scan drops its candidate at the job that just ran.

Met while modelling, and part of the models:

- readers and writers queue alike, against the assignment (`assign.rst:40`), and
  readers do not read together, which it allows (`assign.rst:39`);
- `sync.c:60`: the id of the segment is taken as the key of the semaphore set; with
  id 0 the processes share no set;
- `tfs.c:300`: every write goes to the sector of a list head that was never set,
  the same for all files; after a ulink the next open of a new name follows a null
  pointer, unless `MAX_INODES` were created before;
- `client.c:99`: the ring is written past its end once it was full or a minute
  was quiet (`README.txt:34`);
- `bstAssignment.c:98`: a deletion loses the right subtree of the node that moves;
  line 64, no message for an empty tree; line 163, a postorder print;
- `tree6.c:97`: 49 names at most, against "any number" (line 88);
- `speaker.java:73`: a call that ends in silence takes the last permit of
  `audflg`, and the next hang-up waits for ever with `guiflg` held;
- `Client.java:31`: a port that is no number throws while the window holds `guiflg`,
  and the window is dead.

## 7. Not modelled

Files, HTML, HTTP, sound, windows and formatting, everywhere. In `tfs.c` the
contents of sectors, times, over-long and empty names and the four functions that
nothing calls. In Skype the volume, the clock, the input filter, failures of the
audio lines and of the server socket. (That a speaker goes on when the next call
sets `open` before it has looked is in the model; no property is about it.) In the
client, how a read may cut a number from its separator. The search programs are three sequential string processors
whose only shared state is a file; chat and GUI network copy lines between a
connection and a window without state of their own. `graph.c` does not compile.
The boot loader and the single-function programs have no state worth a model;
what the 8051 programs do depends on peripherals that are not in the repository.
