----------------------------- MODULE SysVSync ------------------------------
(***************************************************************************)
(* Readers and writers over System V IPC, CS3871/sync: sync.c, reader.c    *)
(* and writer.c.                                                           *)
(*                                                                         *)
(* The launcher (sync) creates a shared segment of bytes and a semaphore   *)
(* set, forks a child for every reader and writer, waits for as many       *)
(* children and removes both.  Each child execs its program.  A reader     *)
(* copies the segment byte by byte to its file and a writer fills it with  *)
(* its number, both between a semop(-1) and a semop(+1) on semaphore 0     *)
(* whose results nobody looks at: when the set is gone, semop returns at   *)
(* once.  A child whose exec fails goes on as a second launcher, inside    *)
(* the loop of the first.                                                  *)
(*                                                                         *)
(* The key of the set is the id of the segment.  Id 0, the first segment   *)
(* of a system, is IPC_PRIVATE: semget then makes a set of its own for     *)
(* every reader and writer, with mode 0, and semop fails at once for an    *)
(* ordinary user, whose processes are the ones modelled.                   *)
(*                                                                         *)
(* Files, sleeps and messages are left out.  Forks succeed.                *)
(***************************************************************************)
EXTENDS Naturals, FiniteSets

CONSTANTS
  Pid, Main,      \* the processes, and the first launcher
  NR, NW,         \* the arguments n_read and n_write
  Size,           \* bytes in the segment, 1<<14 in the program
  Shared,         \* the id of the segment is not 0, so the set is shared
  Quits,          \* SIGQUIT may be sent to any process
  ExecFails       \* the executables ./reader and ./writer may be missing

ASSUME SyncAssumption ==
  /\ IsFiniteSet(Pid) /\ Main \in Pid
  /\ NR \in Nat /\ NW \in Nat /\ Size \in Nat \ {0}
  /\ Shared \in BOOLEAN /\ Quits \in BOOLEAN /\ ExecFails \in BOOLEAN

VARIABLES
  pc,         \* what each process does next
  slot,       \* a launcher's loop variable i, a child's place in the loop
  parent,     \* who forked a process
  waits,      \* calls of wait a launcher has still to make
  live,       \* the segment and the semaphore set exist
  sem,        \* value of semaphore 0
  mem,        \* the bytes of the segment, less 0x30
  at,         \* i, the next byte of a reader or writer
  copy        \* what a reader has copied in this pass

vars == <<pc, slot, parent, waits, live, sem, mem, at, copy>>
launch == <<slot, parent, waits>>
data == <<mem, at, copy>>

Byte == 0..Size-1
Slots == NR + NW
Value == 0..(IF NW = 0 THEN 0 ELSE NW - 1)

PC == {"free", "fork", "wait", "exec", "start", "loop", "lock", "critical",
       "unlock", "ended", "reaped"}

IsReader(p) == slot[p] < NR
Id(p) == IF IsReader(p) THEN slot[p] ELSE slot[p] - NR     \* argv[1]

Children(p) == { c \in Pid \ {p} : parent[c] = p }
Launches(p) == pc[p] \in {"fork", "wait"}
Critical(p) == pc[p] \in {"critical", "unlock"}
Goto(p, l) == pc' = [pc EXCEPT ![p] = l]

(* semop works on the launcher's semaphore. *)
Guarded == live /\ Shared

(* The children to wait for; its mutant waits for the writers only. *)
WritersOnly == NW
Waits == Slots

(* sync.c after its set-up: segment of 0x30s, semaphores set to 1. *)
Init ==
  /\ pc = [p \in Pid |-> IF p = Main THEN "fork" ELSE "free"]
  /\ slot = [p \in Pid |-> 0]
  /\ parent = [p \in Pid |-> p]
  /\ waits = [p \in Pid |-> Waits]
  /\ live = TRUE
  /\ sem = 1
  /\ mem = [b \in Byte |-> 0]
  /\ at = [p \in Pid |-> 0]
  /\ copy = [p \in Pid |-> [b \in Byte |-> 0]]
-----------------------------------------------------------------------------
(***************************************************************************)
(* The launcher                                                            *)
(***************************************************************************)

(* fork() of the next child: it shares the loop variable's value. *)
Fork(p, c) ==
  /\ pc[p] = "fork" /\ slot[p] < Slots
  /\ pc[c] = "free"
  /\ pc' = [pc EXCEPT ![c] = "exec"]
  /\ slot' = [slot EXCEPT ![c] = slot[p], ![p] = @ + 1]
  /\ parent' = [parent EXCEPT ![c] = p]
  /\ UNCHANGED <<waits, live, sem, data>>

(* Both loops are over; shmdt. *)
ForksDone(p) ==
  /\ pc[p] = "fork" /\ slot[p] = Slots
  /\ Goto(p, "wait")
  /\ UNCHANGED <<launch, live, sem, data>>

(* wait(&w) collects a child that has ended, or fails without children. *)
Wait(p) ==
  /\ pc[p] = "wait" /\ waits[p] > 0
  /\ \/ \E c \in Children(p) : pc[c] = "ended" /\ Goto(c, "reaped")
     \/ (\A c \in Children(p) : pc[c] = "reaped") /\ UNCHANGED pc
  /\ waits' = [waits EXCEPT ![p] = @ - 1]
  /\ UNCHANGED <<slot, parent, live, sem, data>>

(* quit() removes the segment and the set; main returns. *)
Quit(p) ==
  /\ pc[p] = "wait" /\ waits[p] = 0
  /\ live' = FALSE
  /\ Goto(p, "ended")
  /\ UNCHANGED <<launch, sem, data>>

Exec(p) ==
  /\ pc[p] = "exec"
  /\ Goto(p, "start")
  /\ UNCHANGED <<launch, live, sem, data>>

(* exec returns: the child carries on with the launcher's loop. *)
ExecReturns(p) ==
  /\ ExecFails
  /\ pc[p] = "exec"
  /\ Goto(p, "fork")
  /\ slot' = [slot EXCEPT ![p] = @ + 1]
  /\ UNCHANGED <<parent, waits, live, sem, data>>
-----------------------------------------------------------------------------
(***************************************************************************)
(* Readers and writers                                                     *)
(***************************************************************************)

(* The head of the endless loop: a writer draws a random number first. *)
Again(p) == IF IsReader(p) THEN "lock" ELSE "loop"

(* shmget, shmat, semget: without the set they exit(1).  The segment is    *)
(* made anew by then and has another id than 0.                            *)
Start(p) ==
  /\ pc[p] = "start"
  /\ Goto(p, IF live THEN Again(p) ELSE "ended")
  /\ UNCHANGED <<launch, live, sem, data>>

(* A writer's rand() % id has no defined result for writer 0: the division *)
(* raises SIGFPE, or is left out since its value is not used.              *)
Draw(p) ==
  /\ pc[p] = "loop"
  /\ \/ Goto(p, "lock")
     \/ Id(p) = 0 /\ Goto(p, "ended")
  /\ UNCHANGED <<launch, live, sem, data>>

(* Mutant of Lock: IPC_NOWAIT, whose failure is not heeded either. *)
LockNoWait(p) ==
  /\ pc[p] = "lock"
  /\ IF Guarded /\ sem > 0 THEN sem' = sem - 1 ELSE UNCHANGED sem
  /\ Goto(p, "critical")
  /\ UNCHANGED <<launch, live, data>>

(* semop(-1): blocks at 0, fails and is not heeded when the set is gone or *)
(* the process has a set of its own.                                       *)
Lock(p) ==
  /\ pc[p] = "lock"
  /\ IF Guarded THEN sem > 0 /\ sem' = sem - 1 ELSE UNCHANGED sem
  /\ Goto(p, "critical")
  /\ UNCHANGED <<launch, live, data>>

(* Mutant of Access: the byte counter is set back to 0 at the end. *)
AccessAgain(p) ==
  /\ pc[p] = "critical"
  /\ IF IsReader(p)
       THEN copy' = [copy EXCEPT ![p][at[p]] = mem[at[p]]] /\ UNCHANGED mem
       ELSE mem' = [mem EXCEPT ![at[p]] = Id(p)] /\ UNCHANGED copy
  /\ at' = [at EXCEPT ![p] = (@ + 1) % Size]
  /\ UNCHANGED <<pc, launch, live, sem>>

(* One byte: fprintf of it by a reader, the assignment by a writer. *)
Access(p) ==
  /\ pc[p] = "critical"
  /\ IF IsReader(p)
       THEN copy' = [copy EXCEPT ![p][at[p]] = mem[at[p]]] /\ UNCHANGED mem
       ELSE mem' = [mem EXCEPT ![at[p]] = Id(p)] /\ UNCHANGED copy
  /\ at' = [at EXCEPT ![p] = @ + 1]
  /\ Goto(p, IF at[p] + 1 = Size THEN "unlock" ELSE "critical")
  /\ UNCHANGED <<launch, live, sem>>

(* Mutant of Unlock: sb.sem_op = 2. *)
UnlockTwice(p) ==
  /\ pc[p] = "unlock"
  /\ sem' = IF Guarded THEN sem + 2 ELSE sem
  /\ Goto(p, Again(p))
  /\ at' = [at EXCEPT ![p] = 0]
  /\ copy' = [copy EXCEPT ![p] = [b \in Byte |-> 0]]
  /\ UNCHANGED <<launch, live, mem>>

(* semop(+1), then the sleep. *)
Unlock(p) ==
  /\ pc[p] = "unlock"
  /\ sem' = IF Guarded THEN sem + 1 ELSE sem
  /\ Goto(p, Again(p))
  /\ at' = [at EXCEPT ![p] = 0]
  /\ copy' = [copy EXCEPT ![p] = [b \in Byte |-> 0]]
  /\ UNCHANGED <<launch, live, mem>>
-----------------------------------------------------------------------------
(***************************************************************************)
(* SIGQUIT.  The launcher's handler removes the IPC objects and returns; a *)
(* child that has not exec'd yet still has that handler.  A reader or      *)
(* writer exits, whatever it holds: the semaphore operations have no       *)
(* SEM_UNDO.                                                               *)
(***************************************************************************)

SignalLauncher(p) ==
  /\ Quits
  /\ Launches(p) \/ pc[p] = "exec"
  /\ live' = FALSE
  /\ UNCHANGED <<pc, launch, sem, data>>

(* Mutant of SignalChild: the operations are made with SEM_UNDO. *)
SignalChildUndo(p) ==
  /\ Quits
  /\ pc[p] \in {"start", "loop", "lock", "critical", "unlock"}
  /\ Goto(p, "ended")
  /\ sem' = IF Guarded /\ Critical(p) THEN sem + 1 ELSE sem
  /\ UNCHANGED <<launch, live, data>>

SignalChild(p) ==
  /\ Quits
  /\ pc[p] \in {"start", "loop", "lock", "critical", "unlock"}
  /\ Goto(p, "ended")
  /\ UNCHANGED <<launch, live, sem, data>>

Program(p) ==
  \/ \E c \in Pid : Fork(p, c)
  \/ ForksDone(p) \/ Wait(p) \/ Quit(p) \/ Exec(p) \/ ExecReturns(p)
  \/ Start(p) \/ Draw(p) \/ Lock(p) \/ Access(p) \/ Unlock(p)

Next == \E p \in Pid : Program(p) \/ SignalLauncher(p) \/ SignalChild(p)

Spec == Init /\ [][Next]_vars

(* Processes are scheduled; a semop that waits is carried out, in order of *)
(* arrival, by the semop that makes it possible.                           *)
Fairness == \A p \in Pid : WF_vars(Program(p)) /\ SF_vars(Lock(p))

FairSpec == Spec /\ Fairness
-----------------------------------------------------------------------------
TypeOK ==
  /\ pc \in [Pid -> PC]
  /\ slot \in [Pid -> 0..Slots]
  /\ parent \in [Pid -> Pid]
  /\ waits \in [Pid -> 0..Slots]
  /\ live \in BOOLEAN
  /\ sem \in {0, 1}
  /\ mem \in [Byte -> Value]
  /\ at \in [Pid -> 0..Size]
  /\ copy \in [Pid -> [Byte -> Value]]

(* As long as the semaphore set exists, a writer in its critical section  *)
(* excludes the readers and the other writers, also after some of them     *)
(* were killed (assign.rst:38,41).  The readers exclude each other as      *)
(* well, which assign.rst:39 does not ask for: they may read together.     *)
MutualExclusion ==
  Guarded => \A p, q \in Pid : Critical(p) /\ Critical(q) /\ ~IsReader(p) => p = q

(* A reader's pass shows the bytes of one writer, or the initial ones,     *)
(* even when a writer was killed half way: it keeps the semaphore.         *)
CopyUniform ==
  Guarded => \A p \in Pid : pc[p] = "unlock" /\ IsReader(p) =>
               \A b, c \in Byte : copy[p][b] = copy[p][c]

(* A launcher whose waits are over has collected all the children it       *)
(* forked, wherever in the loop it began.  It may well remove the IPC      *)
(* objects under others: a child whose exec failed calls quit() itself     *)
(* (sync.c:117), under the first launcher's readers and writers.           *)
ReapsAll ==
  \A p \in Pid : pc[p] = "wait" /\ waits[p] = 0
                   => \A c \in Children(p) : pc[c] = "reaped"

(* Whoever asks for the semaphore gets it or is killed, unless a process   *)
(* is killed while it holds the semaphore.  (Writer 0, when its division   *)
(* kills it, does not hold it.)                                            *)
NoStarvation ==
  [](Guarded => sem = 1 \/ \E q \in Pid : Critical(q))
    => \A p \in Pid : pc[p] = "lock" ~> pc[p] # "lock"
=============================================================================
