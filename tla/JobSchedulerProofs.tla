------------------------- MODULE JobSchedulerProofs -------------------------
(***************************************************************************)
(* The table of the scheduler, and the jobs' values as long as no signal   *)
(* came astray; any ends of f0 and f1, any number of turns, any bound on v. *)
(***************************************************************************)
EXTENDS JobScheduler, TLAPS

(* Where the scan is, and that a run that goes on has turns left. *)
Scan == /\ pc = "pick" => i \in 1..3
        /\ pc \in {"next", "pick", "turn"} => turns < MaxTurns

TypeInv == TypeOK /\ Scan

LEMMA StepType == \A j \in Job : Step(j) \in Int /\ First(j) \in Int
BY DEF Job, Step, First

LEMMA TypeInit == Init => TypeInv
<1> SUFFICES ASSUME Init PROVE TypeInv
  OBVIOUS
<1>1. 0 \in Times /\ 0 \in Job /\ 0 < MaxTurns /\ 0 \in 0..MaxTurns
  BY JobAssumption DEF JobAssumption, Job
<1>2. /\ virgin \in [Job -> BOOLEAN] /\ save \in [Job -> Int]
      /\ ran \in [Job -> BOOLEAN] /\ turnaround \in [Job -> Times]
  BY <1>1 DEF Init
<1>3. Scan BY <1>1 DEF Init, Scan
<1>4. /\ go \in BOOLEAN /\ x \in BOOLEAN /\ signal \in BOOLEAN /\ astray \in BOOLEAN
      /\ pgo \in BOOLEAN /\ psignal \in BOOLEAN
  BY DEF Init
<1>5. /\ pc \in ChildPC /\ turn \in Job /\ last \in Job /\ i \in 1..4
      /\ v \in Int /\ turns \in 0..MaxTurns
      /\ ppc \in {"go", "sleep", "test", "kill", "killed"}
  BY <1>1 DEF Init, ChildPC
<1> QED BY <1>2, <1>3, <1>4, <1>5 DEF TypeInv, TypeOK

LEMMA TypeChild == TypeInv /\ ChildStep => TypeInv'
<1> SUFFICES ASSUME TypeInv, ChildStep PROVE TypeInv'
  OBVIOUS
<1> USE JobAssumption DEF TypeInv, TypeOK, Scan, JobAssumption, ChildPC, Goto, table, signals, parent
<1>1. CASE Resume BY <1>1 DEF Resume
<1>2. CASE Call BY <1>2 DEF Call
<1>3. CASE Enter BY <1>3, StepType DEF Enter
<1>4. CASE Round BY <1>4, StepType DEF Round
<1>5. CASE TestGo BY <1>5 DEF TestGo
<1>6. CASE LeaveLoop BY <1>6 DEF LeaveLoop
<1>7. CASE MarkDone
  <2>1. virgin' \in [Job -> BOOLEAN] BY <1>7 DEF MarkDone, Done
  <2> QED BY <1>7, <2>1 DEF MarkDone
<1>8. CASE ResetGo BY <1>8 DEF ResetGo
<1>9. CASE Account
  <2>1. ran' \in [Job -> BOOLEAN] BY <1>9 DEF Account
  <2>2. turnaround' \in [Job -> Times] BY <1>9 DEF Account
  <2>3. psignal' \in BOOLEAN BY <1>9 DEF Account
  <2>4. pc' \in ChildPC /\ ppc' \in {"go", "sleep", "test", "kill", "killed"}
        /\ (pc' = "next" => turns' < MaxTurns) /\ pc' \in {"next", "exited"}
    BY <1>9 DEF Account
  <2> QED BY <1>9, <2>1, <2>2, <2>3, <2>4 DEF Account
<1>10. CASE StartPick BY <1>10 DEF StartPick, Job
<1>11. CASE Pick BY <1>11 DEF Pick, Job
<1> QED BY <1>1, <1>2, <1>3, <1>4, <1>5, <1>6, <1>7, <1>8, <1>9, <1>10, <1>11
   DEF ChildStep

LEMMA TypeStep == TypeInv /\ [Next]_vars => TypeInv'
<1> SUFFICES ASSUME TypeInv, [Next]_vars PROVE TypeInv'
  OBVIOUS
<1> USE DEF TypeInv, TypeOK, Scan, child, signals, parent, table
<1>1. CASE Handler BY <1>1 DEF Handler
<1>2. CASE ParentStep
  BY <1>2 DEF ParentStep, ParentGo, ParentWakes, ParentTest, ParentKills
<1>3. CASE ParentHandler BY <1>3 DEF ParentHandler
<1>4. CASE UNCHANGED vars BY <1>4 DEF vars
<1> QED BY TypeChild, <1>1, <1>2, <1>3, <1>4 DEF Next

(* Wherever the signals find the two processes, turn and i stay inside the *)
(* table and the number of turns within its limit.                         *)
THEOREM TypeCorrect == Spec => []TypeOK
<1>1. TypeInv => TypeOK BY DEF TypeInv
<1> QED BY <1>1, TypeInit, TypeStep, PTL DEF Spec
-----------------------------------------------------------------------------
(***************************************************************************)
(* No signal came astray                                                   *)
(***************************************************************************)

(* v belongs to turn from the load on, unless a fresh job is to set it. *)
Owned == /\ \A j \in Job : ~virgin[j] => Admits(j, save[j])
         /\ pc = "stamp" => virgin[turn] \/ Admits(turn, v)
         /\ pc = "enter" => x \/ Admits(turn, v)
         /\ pc \in WhileRunning => Admits(turn, v)
         /\ NothingFound

Own == ~astray => Owned

LEMMA FirstAdmitted == \A j \in Job : Admits(j, First(j))
<1>1. Admits(0, First(0)) BY DEF Admits, First
<1>2. Admits(1, First(1))
  <2>1. \A k \in Int : k + 1 = 0 => k <= 0 /\ k % 2 = 1 OBVIOUS
  <2>2. First(1) \in Int /\ First(1) + 1 = 0 BY DEF First
  <2> QED BY <2>1, <2>2 DEF Admits
<1>3. Admits(2, First(2)) BY DEF Admits, First
<1>4. Admits(3, First(3)) BY DEF Admits, First
<1> QED BY <1>1, <1>2, <1>3, <1>4 DEF Job

LEMMA StepAdmitted ==
  ASSUME NEW j \in Job, NEW k \in Int, Admits(j, k) PROVE Admits(j, k + Step(j))
<1>1. CASE j = 0 BY <1>1 DEF Admits, Step
<1>2. CASE j = 1 BY <1>2 DEF Admits, Step
<1>3. CASE j = 2 BY <1>3 DEF Admits, Step
<1>4. CASE j = 3 BY <1>4 DEF Admits, Step
<1> QED BY <1>1, <1>2, <1>3, <1>4 DEF Job

LEMMA OwnInit == Init => Own
BY DEF Init, Own, Owned, NothingFound, WhileRunning

LEMMA OwnChild == TypeInv /\ Own /\ ChildStep => Own'
<1> SUFFICES ASSUME TypeInv, Own, ChildStep, ~astray' PROVE Owned'
  BY DEF Own
<1> USE DEF TypeInv, TypeOK, Owned, NothingFound, WhileRunning, Goto, table, signals, parent
<1>0. Owned
  <2>1. ~astray
    BY DEF ChildStep, Resume, Call, Enter, TestGo, Round, LeaveLoop, MarkDone, ResetGo, Account,
           StartPick, Pick
  <2> QED BY <2>1 DEF Own
<1> USE <1>0
<1>1. CASE Resume BY <1>1 DEF Resume
<1>2. CASE Call BY <1>2 DEF Call
<1>3. CASE Enter
  <2>1. Admits(turn, v') BY <1>3, FirstAdmitted DEF Enter
  <2> QED BY <1>3, <2>1 DEF Enter
<1>4. CASE Round
  <2>1. Admits(turn, v') BY <1>4, StepAdmitted DEF Round
  <2> QED BY <1>4, <2>1 DEF Round
<1>5. CASE TestGo BY <1>5 DEF TestGo
<1>6. CASE LeaveLoop BY <1>6 DEF LeaveLoop
<1>7. CASE MarkDone
  <2>1. \A j \in Job : ~virgin'[j] => ~virgin[j] BY <1>7 DEF MarkDone
  <2> QED BY <1>7, <2>1 DEF MarkDone
<1>8. CASE ResetGo BY <1>8 DEF ResetGo
<1>9. CASE Account BY <1>9 DEF Account
<1>10. CASE StartPick BY <1>10 DEF StartPick
<1>11. CASE Pick BY <1>11 DEF Pick
<1> QED BY <1>1, <1>2, <1>3, <1>4, <1>5, <1>6, <1>7, <1>8, <1>9, <1>10, <1>11
   DEF ChildStep

LEMMA OwnStep == TypeInv /\ Own /\ [Next]_vars => Own'
<1> SUFFICES ASSUME TypeInv, Own, [Next]_vars PROVE Own'
  OBVIOUS
<1> USE DEF TypeInv, TypeOK, Own, Owned, NothingFound, child, signals, parent, table
<1>1. CASE Handler
  <2>1. CASE astray \/ pc \notin WhileRunning
    <3>1. astray' BY <1>1, <2>1 DEF Handler
    <3> QED BY <3>1
  <2>2. CASE ~astray /\ pc \in WhileRunning
    <3>1. Admits(turn, v) /\ Owned BY <2>2
    <3>2. \A j \in Job : ~virgin'[j] => Admits(j, save'[j]) BY <1>1, <3>1 DEF Handler
    <3> QED BY <1>1, <2>2, <3>1, <3>2 DEF Handler, WhileRunning
  <2> QED BY <2>1, <2>2
<1>2. CASE ParentStep
  BY <1>2 DEF ParentStep, ParentGo, ParentWakes, ParentTest, ParentKills
<1>3. CASE ParentHandler BY <1>3 DEF ParentHandler
<1>4. CASE UNCHANGED vars BY <1>4 DEF vars
<1> QED BY OwnChild, <1>1, <1>2, <1>3, <1>4 DEF Next

LEMMA OwnAlways == Spec => []Own
<1>1. Init => TypeInv /\ Own BY TypeInit, OwnInit
<1>2. TypeInv /\ Own /\ [Next]_vars => (TypeInv /\ Own)' BY TypeStep, OwnStep
<1> QED BY <1>1, <1>2, PTL DEF Spec

(* As long as signals come only from the loop of a job to the accounting   *)
(* after it, what is saved for a job is a value of that job.               *)
THEOREM ValuesKept == Spec => []OwnValue
<1>1. Own => OwnValue BY DEF Own, Owned, OwnValue
<1> QED BY <1>1, OwnAlways, PTL

(* And no job has found a value that is not its own. *)
THEOREM NoneFound == Spec => []FoundOnlyAstray
<1>1. Own => FoundOnlyAstray BY DEF Own, Owned, FoundOnlyAstray
<1> QED BY <1>1, OwnAlways, PTL

(* The candidate that is picked is not the job that just ran, unless the   *)
(* scan ended at the last of the table: a kept candidate is never last.    *)
THEOREM NeverTwice == Spec => NoRepeat
<1>1. TypeInv /\ [Next]_vars
        => (pc = "pick" /\ pc' = "turn" => turn' # last \/ last = 3) \/ UNCHANGED vars
  <2> SUFFICES ASSUME TypeInv, [Next]_vars, pc = "pick", pc' = "turn"
               PROVE  turn' # last \/ last = 3
    OBVIOUS
  <2>1. Pick
    BY DEF Next, vars, child, ChildStep, Resume, Call, Enter, TestGo, Round, LeaveLoop, MarkDone,
           ResetGo, Account, StartPick, Pick, Goto, Handler, ParentStep, ParentGo, ParentWakes,
           ParentTest, ParentKills, ParentHandler
  <2>2. i = 3 BY <2>1 DEF Pick, Goto
  <2> QED BY <2>1, <2>2 DEF Pick, Better
<1>2. TypeInv /\ [Next]_vars => [pc = "pick" /\ pc' = "turn" => turn' # last \/ last = 3]_vars
  BY <1>1
<1> QED BY <1>2, TypeInit, TypeStep, PTL DEF Spec, NoRepeat
=============================================================================
