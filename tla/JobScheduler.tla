---------------------------- MODULE JobScheduler ---------------------------
(***************************************************************************)
(* The job scheduler, CS3871/jobScheduler/cpuScheduleTable.c.              *)
(*                                                                         *)
(* The child runs four jobs in turn, each a loop on the shared variable v  *)
(* that ends when the signal handler clears go, or when the job is done.   *)
(* The parent sends SIGUSR1 after every five seconds in which the child    *)
(* did not report a finished job, by a SIGUSR1 of its own.  The handler    *)
(* cpusched saves v in the table entry of the current turn, wherever the   *)
(* signal finds the child; astray records that one found it where turn and *)
(* v do not belong together.                                               *)
(*                                                                         *)
(* The average turnaround is any of Times, the numbers of steps of the     *)
(* jobs are scaled down (Low0, Low1) and v is capped (High).               *)
(***************************************************************************)
EXTENDS Integers

CONSTANTS
  Times,        \* values of turnaround[8]
  Low0, Low1,   \* where f0 and f1 end: -200 and -401 in the program
  High,         \* bound on the v of f2 and f3, which never end
  MaxTurns      \* turns of a run, 1000 in the program

(* From a job's loop to the accounting after it v is the value of job turn. *)
WhileRunning == {"loop", "round", "leave", "reset", "account"}

ChildPC == {"turn", "stamp", "enter", "loop", "round", "leave", "reset",
            "account", "next", "pick", "failed", "exited"}

ASSUME JobAssumption ==
  /\ 0 \in Times /\ Times \subseteq Nat
  /\ Low0 \in Int /\ Low0 < 0 /\ Low0 % 2 = 0
  /\ Low1 \in Int /\ Low1 < 0 /\ Low1 % 2 = 1
  /\ High \in Nat /\ MaxTurns \in Nat \ {0}

Job == 0..3     \* PROCESS_COUNT of them

VARIABLES
  pc, turn, last, i, v, go, x, turns,     \* the child, x the argument of f
  virgin, save, ran, turnaround,          \* its table pt; ran is runs > 0
  signal, astray,  \* SIGUSR1 is pending for the child; one came astray
  ppc, pgo, psignal       \* the parent: its place, its go, SIGUSR1 pending

table == <<virgin, save, ran, turnaround>>
child == <<pc, turn, last, i, v, go, x, turns>>
signals == <<signal, astray>>
parent == <<ppc, pgo, psignal>>
vars == <<child, table, signals, parent>>

Goto(l) == pc' = l

(* The first value of each job's v, and what a round of its loop adds. *)
First(j) == CASE j = 0 -> 0 [] j = 1 -> -1 [] j = 2 -> 1 [] j = 3 -> 0
Step(j) == IF j \in {0, 1} THEN -2 ELSE 2

Done(j, n) == (j = 0 /\ n <= Low0) \/ (j = 1 /\ n <= Low1)

(* The values each job admits: "found odd or positive" and the like. *)
Admits(j, n) == CASE j = 0 -> n <= 0 /\ n % 2 = 0
                  [] j = 1 -> n <= 0 /\ n % 2 = 1
                  [] j = 2 -> n >= 0 /\ n % 2 = 1
                  [] j = 3 -> n >= 0 /\ n % 2 = 0

Init ==
  /\ pc = "turn" /\ turn = 0 /\ last = 0 /\ i = 1 /\ v = 0 /\ go = TRUE
  /\ x = FALSE /\ turns = 0
  /\ virgin = [j \in Job |-> TRUE]
  /\ save = [j \in Job |-> 0]
  /\ ran = [j \in Job |-> FALSE]
  /\ turnaround = [j \in Job |-> 0]
  /\ signal = FALSE /\ astray = FALSE
  /\ ppc = "go" /\ pgo = TRUE /\ psignal = FALSE
-----------------------------------------------------------------------------
(***************************************************************************)
(* The child                                                               *)
(***************************************************************************)

(* Mutant of Resume: v is left as the last job had it. *)
ResumeNothing ==
  /\ pc = "turn"
  /\ turns' = turns + 1
  /\ Goto("stamp")
  /\ UNCHANGED <<turn, last, i, v, go, x, table, signals, parent>>

(* turns++; v = pt[turn].save *)
Resume ==
  /\ pc = "turn"
  /\ turns' = turns + 1
  /\ v' = save[turn]
  /\ Goto("stamp")
  /\ UNCHANGED <<turn, last, i, go, x, table, signals, parent>>

(* The call, with the argument pt[turn].virgin. *)
Call ==
  /\ pc = "stamp"
  /\ x' = virgin[turn]
  /\ Goto("enter")
  /\ UNCHANGED <<turn, last, i, v, go, turns, table, signals, parent>>

(* A fresh job sets v to its first value. *)
Enter ==
  /\ pc = "enter"
  /\ v' = IF x THEN First(turn) ELSE v
  /\ Goto("loop")
  /\ UNCHANGED <<turn, last, i, go, x, turns, table, signals, parent>>

(* The head of a job's loop finds go set; the two endless jobs are capped. *)
TestGo ==
  /\ pc = "loop" /\ go /\ ~Done(turn, v)
  /\ turn \in {2, 3} => v < High
  /\ Goto("round")
  /\ UNCHANGED <<turn, last, i, v, go, x, turns, table, signals, parent>>

(* A round of it; a value that is not the job's ends the run. *)
Round ==
  /\ pc = "round"
  /\ v' = v + Step(turn)
  /\ Goto(IF Admits(turn, v') THEN "loop" ELSE "failed")
  /\ UNCHANGED <<turn, last, i, go, x, turns, table, signals, parent>>

LeaveLoop ==
  /\ pc = "loop" /\ (~go \/ Done(turn, v))
  /\ Goto("leave")
  /\ UNCHANGED <<turn, last, i, v, go, x, turns, table, signals, parent>>

(* f0 and f1 are fresh again when they are done. *)
MarkDone ==
  /\ pc = "leave"
  /\ virgin' = [virgin EXCEPT ![turn] = @ \/ Done(turn, v)]
  /\ Goto("reset")
  /\ UNCHANGED <<turn, last, i, v, go, x, turns, save, ran, turnaround, signals,
                 parent>>

ResetGo ==
  /\ pc = "reset"
  /\ go' = TRUE
  /\ Goto("account")
  /\ UNCHANGED <<turn, last, i, v, x, turns, table, signals, parent>>

(* Turnaround, and for a finished job the signal to the parent.  After the *)
(* last turn the child kills the parent and exits.                         *)
Account ==
  /\ pc = "account"
  /\ \E t \in Times :
       turnaround' = IF virgin[turn] \/ ~ran[turn]
                       THEN [turnaround EXCEPT ![turn] = t] ELSE turnaround
  /\ ran' = [ran EXCEPT ![turn] = @ \/ virgin[turn]]
  /\ psignal' = (psignal \/ virgin[turn])
  /\ IF turns = MaxTurns
       THEN Goto("exited") /\ ppc' = "killed"
       ELSE Goto("next") /\ UNCHANGED ppc
  /\ UNCHANGED <<turn, last, i, v, go, x, turns, virgin, save, signals, pgo>>

(* last = turn; turn = 0; i = 1 *)
StartPick ==
  /\ pc = "next"
  /\ last' = turn /\ turn' = 0 /\ i' = 1
  /\ Goto("pick")
  /\ UNCHANGED <<v, go, x, turns, table, signals, parent>>

(* Mutant of Better: the job that just ran is not passed over. *)
BetterAgain == turnaround[turn] < turnaround[i]

(* The candidate is kept if it is strictly shorter and did not just run. *)
Better == turnaround[turn] < turnaround[i] /\ turn # last

(* Mutant of Pick: the table is searched from 0 to PROCESS_COUNT. *)
PickPast ==
  /\ pc = "pick"
  /\ turn' = IF i < 4 /\ Better THEN turn ELSE i
  /\ i' = i + 1
  /\ Goto(IF i = 4 THEN "turn" ELSE "pick")
  /\ UNCHANGED <<last, v, go, x, turns, table, signals, parent>>

Pick ==
  /\ pc = "pick"
  /\ turn' = IF Better THEN turn ELSE i
  /\ i' = i + 1
  /\ Goto(IF i = 3 THEN "turn" ELSE "pick")
  /\ UNCHANGED <<last, v, go, x, turns, table, signals, parent>>

(* cpusched, wherever the child is. *)
Handler ==
  /\ signal /\ pc \notin {"failed", "exited"}
  /\ signal' = FALSE
  /\ astray' = (astray \/ pc \notin WhileRunning)
  /\ virgin' = [virgin EXCEPT ![turn] = FALSE]
  /\ save' = [save EXCEPT ![turn] = v]
  /\ go' = FALSE
  /\ UNCHANGED <<pc, turn, last, i, v, x, turns, ran, turnaround, parent>>
-----------------------------------------------------------------------------
(***************************************************************************)
(* The parent                                                              *)
(***************************************************************************)

(* Mutant of ParentGo: go is set once, before the loop. *)
ParentGoOnce ==
  /\ ppc = "go"
  /\ ppc' = "sleep"
  /\ UNCHANGED <<child, table, signals, pgo, psignal>>

ParentGo ==
  /\ ppc = "go"
  /\ pgo' = TRUE /\ ppc' = "sleep"
  /\ UNCHANGED <<child, table, signals, psignal>>

(* The five seconds are over. *)
ParentWakes ==
  /\ ppc = "sleep"
  /\ ppc' = "test"
  /\ UNCHANGED <<child, table, signals, pgo, psignal>>

ParentTest ==
  /\ ppc = "test"
  /\ ppc' = IF pgo THEN "kill" ELSE "go"
  /\ UNCHANGED <<child, table, signals, pgo, psignal>>

ParentKills ==
  /\ ppc = "kill"
  /\ signal' = TRUE
  /\ ppc' = "go"
  /\ UNCHANGED <<child, table, astray, pgo, psignal>>

(* The parent's handler, cpusched too: go = 0, and a sleep is cut short. *)
ParentHandler ==
  /\ psignal /\ ppc # "killed"
  /\ psignal' = FALSE /\ pgo' = FALSE
  /\ ppc' = IF ppc = "sleep" THEN "test" ELSE ppc
  /\ UNCHANGED <<child, table, signals>>

ChildStep == \/ Resume \/ Call \/ Enter \/ TestGo \/ Round \/ LeaveLoop \/ MarkDone
             \/ ResetGo \/ Account \/ StartPick \/ Pick

ParentStep == ParentGo \/ ParentWakes \/ ParentTest \/ ParentKills

Next == ChildStep \/ Handler \/ ParentStep \/ ParentHandler

Spec == Init /\ [][Next]_vars

(* Both processes run, and a signal is delivered at the next chance. *)
Fairness == /\ WF_vars(ChildStep) /\ SF_vars(Handler)
            /\ WF_vars(ParentStep) /\ WF_vars(ParentHandler)

FairSpec == Spec /\ Fairness
-----------------------------------------------------------------------------
TypeOK ==
  /\ pc \in ChildPC /\ turn \in Job /\ last \in Job /\ i \in 1..4
  /\ v \in Int /\ go \in BOOLEAN /\ x \in BOOLEAN /\ turns \in 0..MaxTurns
  /\ virgin \in [Job -> BOOLEAN] /\ save \in [Job -> Int]
  /\ ran \in [Job -> BOOLEAN] /\ turnaround \in [Job -> Times]
  /\ signal \in BOOLEAN /\ astray \in BOOLEAN
  /\ ppc \in {"go", "sleep", "test", "kill", "killed"}
  /\ pgo \in BOOLEAN /\ psignal \in BOOLEAN

(* A job that was interrupted has a value of its own saved, so no job ever *)
(* finds the value of another, as long as every signal found the child     *)
(* where turn and v belong together.                                       *)
OwnValue == ~astray => \A j \in Job : ~virgin[j] => Admits(j, save[j])

(* "f1, found even or positive" and its like are never printed. *)
NothingFound == pc # "failed"

(* They are printed only after a signal came astray. *)
FoundOnlyAstray == ~astray => NothingFound

(* Every job gives up the processor, also the two that never end: a signal *)
(* that arrives too late for one slice, or is used up between two, is      *)
(* followed by another.                                                    *)
Preempted == pc \in {"loop", "round"} ~> pc \notin {"loop", "round"}

(* A job does not run twice in a row, unless it is the last of the table. *)
NoRepeat == [][ pc = "pick" /\ pc' = "turn" => turn' # last \/ last = 3 ]_vars

(* README.txt: "shortest job first": the next job is the shortest of those *)
(* that did not just run.                                                  *)
ShortestFirst ==
  [][ pc = "pick" /\ pc' = "turn"
        => \A j \in Job \ {last} : turnaround[turn'] <= turnaround[j] ]_vars
=============================================================================
