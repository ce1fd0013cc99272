-------------------------- MODULE SysVSyncProofs ---------------------------
(***************************************************************************)
(* Mutual exclusion and whole copies for any number of readers, writers,   *)
(* launchers and signals, as long as the semaphore set exists; and that a  *)
(* launcher collects all its children, which is a matter of counting them. *)
(***************************************************************************)
EXTENDS SysVSync, FiniteSetTheorems, TLAPS

(* Where a process can be in the loops: only a launcher has left them. *)
Place == \A p \in Pid :
  /\ pc[p] \notin {"free", "fork", "wait", "ended", "reaped"} => slot[p] < Slots
  /\ pc[p] = "critical" => at[p] < Size
  /\ pc[p] \notin {"critical", "unlock", "ended", "reaped"} => at[p] = 0
  /\ pc[p] = "unlock" => at[p] = Size

TypeInv == TypeOK /\ Place

LEMMA ConstantTypes == /\ NR \in Nat /\ NW \in Nat /\ Size \in Nat /\ Size > 0
                       /\ Slots \in Nat /\ Main \in Pid
BY SyncAssumption DEF SyncAssumption, Slots

(* A semaphore that is up has no holder, one that is down at most one. *)
Holding == Guarded => \A p \in Pid : Critical(p) => /\ sem = 0
                                                    /\ \A q \in Pid : Critical(q) => p = q

Inv == TypeInv /\ Holding

LEMMA IdType == ASSUME TypeInv, NEW p \in Pid, slot[p] < Slots, ~IsReader(p)
                PROVE  Id(p) \in Value
BY ConstantTypes DEF TypeInv, TypeOK, IsReader, Id, Value, Slots

LEMMA InvInit == Init => Inv
<1> SUFFICES ASSUME Init PROVE Inv
  OBVIOUS
<1>1. 0 \in Value BY ConstantTypes DEF Value
<1>2. TypeOK
  BY <1>1, ConstantTypes DEF Init, TypeOK, PC, Waits, Byte
<1>3. Place BY ConstantTypes DEF Init, Place
<1>4. Holding BY DEF Init, Holding, Guarded, Critical
<1> QED BY <1>2, <1>3, <1>4 DEF Inv, TypeInv

LEMMA InvStep == Inv /\ [Next]_vars => Inv'
<1> SUFFICES ASSUME Inv, [Next]_vars PROVE Inv'
  OBVIOUS
<1> USE ConstantTypes DEF Inv, TypeInv, TypeOK, Place, Holding, Guarded, Critical, PC,
        Goto, launch, data
<1>1. ASSUME NEW p \in Pid, NEW c \in Pid, Fork(p, c) PROVE Inv'
  BY <1>1 DEF Fork
<1>2. ASSUME NEW p \in Pid, ForksDone(p) PROVE Inv'
  BY <1>2 DEF ForksDone
<1>3. ASSUME NEW p \in Pid, Wait(p) PROVE Inv'
  <2>1. /\ waits' = [waits EXCEPT ![p] = @ - 1] /\ waits[p] > 0
        /\ UNCHANGED <<slot, parent, live, sem, mem, at, copy>>
    BY <1>3 DEF Wait
  <2>2. waits' \in [Pid -> 0..Slots]
    <3>1. waits[p] - 1 \in 0..Slots BY <2>1
    <3> QED BY <2>1, <3>1
  <2>3. CASE \E c \in Children(p) : pc[c] = "ended" /\ Goto(c, "reaped")
    <3>1. PICK c \in Pid : pc[c] = "ended" /\ pc' = [pc EXCEPT ![c] = "reaped"]
      BY <2>3 DEF Children
    <3>2. pc' \in [Pid -> PC] BY <3>1
    <3>3. \A q \in Pid : pc'[q] = pc[q] \/ (pc[q] = "ended" /\ pc'[q] = "reaped")
      BY <3>1
    <3>4. TypeOK' BY <2>1, <2>2, <3>2
    <3>5. Place' BY <2>1, <3>3
    <3>6. Holding' BY <2>1, <3>3
    <3> QED BY <3>4, <3>5, <3>6
  <2>4. CASE UNCHANGED pc
    <3>1. TypeOK' BY <2>1, <2>2, <2>4
    <3>2. Place' BY <2>1, <2>4
    <3>3. Holding' BY <2>1, <2>4
    <3> QED BY <3>1, <3>2, <3>3
  <2> QED BY <1>3, <2>3, <2>4 DEF Wait
<1>4. ASSUME NEW p \in Pid, Quit(p) PROVE Inv'
  BY <1>4 DEF Quit
<1>5. ASSUME NEW p \in Pid, Exec(p) PROVE Inv'
  BY <1>5 DEF Exec
<1>6. ASSUME NEW p \in Pid, ExecReturns(p) PROVE Inv'
  <2>1. slot' \in [Pid -> 0..Slots]
    <3>1. slot[p] \in 0..Slots /\ slot[p] < Slots BY <1>6 DEF ExecReturns
    <3>2. \A n \in 0..Slots : n < Slots => n + 1 \in 0..Slots OBVIOUS
    <3> QED BY <1>6, <3>1, <3>2 DEF ExecReturns
  <2>2. TypeOK' BY <1>6, <2>1 DEF ExecReturns
  <2>3. Place' BY <1>6 DEF ExecReturns
  <2>4. Holding' BY <1>6 DEF ExecReturns
  <2> QED BY <2>2, <2>3, <2>4
<1>7. ASSUME NEW p \in Pid, Start(p) PROVE Inv'
  BY <1>7 DEF Start, Again
<1>8. ASSUME NEW p \in Pid, Draw(p) PROVE Inv'
  BY <1>8 DEF Draw
<1>9. ASSUME NEW p \in Pid, Lock(p) PROVE Inv'
  BY <1>9 DEF Lock
<1>10. ASSUME NEW p \in Pid, Access(p) PROVE Inv'
  <2>1. at[p] \in Byte /\ at[p] + 1 \in 0..Size
    BY <1>10 DEF Access, Byte
  <2>2. at' \in [Pid -> 0..Size] /\ pc' \in [Pid -> PC]
    BY <1>10, <2>1 DEF Access
  <2>3. mem' \in [Byte -> Value]
    <3>1. CASE IsReader(p) BY <1>10, <3>1 DEF Access
    <3>2. CASE ~IsReader(p)
      <4>1. Id(p) \in Value BY <1>10, <3>2, IdType DEF Access
      <4> QED BY <1>10, <3>2, <4>1 DEF Access
    <3> QED BY <3>1, <3>2
  <2>4. copy' \in [Pid -> [Byte -> Value]]
    <3>1. CASE IsReader(p)
      <4>1. mem[at[p]] \in Value BY <2>1
      <4>2. [copy[p] EXCEPT ![at[p]] = mem[at[p]]] \in [Byte -> Value]
        BY <4>1
      <4>3. copy' = [copy EXCEPT ![p] = [copy[p] EXCEPT ![at[p]] = mem[at[p]]]]
        BY <1>10, <3>1 DEF Access
      <4> QED BY <4>2, <4>3
    <3>2. CASE ~IsReader(p) BY <1>10, <3>2 DEF Access
    <3> QED BY <3>1, <3>2
  <2>5. TypeOK' BY <1>10, <2>2, <2>3, <2>4 DEF Access
  <2>6. Place' BY <1>10, <2>1 DEF Access
  <2>7. Holding' BY <1>10 DEF Access
  <2> QED BY <2>5, <2>6, <2>7
<1>11. ASSUME NEW p \in Pid, Unlock(p) PROVE Inv'
  <2>1. sem' \in {0, 1} BY <1>11 DEF Unlock
  <2>2. copy' \in [Pid -> [Byte -> Value]] /\ at' \in [Pid -> 0..Size]
    <3>1. 0 \in Value /\ 0 \in 0..Size BY DEF Value
    <3> QED BY <1>11, <3>1 DEF Unlock
  <2>3. pc' \in [Pid -> PC] BY <1>11 DEF Unlock, Again
  <2>4. TypeOK' BY <1>11, <2>1, <2>2, <2>3 DEF Unlock
  <2>5. Place' BY <1>11 DEF Unlock, Again
  <2>6. Holding' BY <1>11 DEF Unlock, Again
  <2> QED BY <2>4, <2>5, <2>6
<1>12. ASSUME NEW p \in Pid, SignalLauncher(p) PROVE Inv'
  BY <1>12 DEF SignalLauncher
<1>13. ASSUME NEW p \in Pid, SignalChild(p) PROVE Inv'
  BY <1>13 DEF SignalChild
<1>14. CASE UNCHANGED vars BY <1>14 DEF vars
<1> QED BY <1>1, <1>2, <1>3, <1>4, <1>5, <1>6, <1>7, <1>8, <1>9, <1>10, <1>11, <1>12,
           <1>13, <1>14 DEF Next, Program

(* The state of the readers and writers keeps its types; in particular the *)
(* semaphore is never above 1, whoever dies when.                          *)
THEOREM TypeCorrect == Spec => []TypeOK
<1>1. Inv => TypeOK BY DEF Inv, TypeInv
<1> QED BY <1>1, InvInit, InvStep, PTL DEF Spec

(* While the semaphore set exists nobody else is in its critical section   *)
(* when a writer is, for any number of processes, of signals and of failed *)
(* execs.                                                                  *)
THEOREM Exclusion == Spec => []MutualExclusion
<1>1. Inv => MutualExclusion BY DEF Inv, Holding, MutualExclusion
<1> QED BY <1>1, InvInit, InvStep, PTL DEF Spec

(***************************************************************************)
(* Whole copies                                                            *)
(***************************************************************************)

Uniform == \A b, c \in Byte : mem[b] = mem[c]

(* The segment is uniform whenever no writer is half way through it: when   *)
(* the semaphore is up, and when a reader holds it.  A killed holder leaves *)
(* the semaphore down and nobody in, so nothing needs to be said of it.    *)
Whole ==
  Guarded =>
    /\ sem = 1 => Uniform
    /\ \A p \in Pid : Critical(p) /\ ~IsReader(p) =>
         \A b \in Byte : b < at[p] => mem[b] = Id(p)
    /\ \A p \in Pid : Critical(p) /\ IsReader(p) =>
         Uniform /\ \A b \in Byte : b < at[p] => copy[p][b] = mem[b]

WholeInv == Inv /\ Whole

LEMMA WholeInit == Init => Whole
BY DEF Init, Whole, Guarded, Uniform, Critical

LEMMA WholeStep == Inv /\ Whole /\ [Next]_vars => Whole'
<1> SUFFICES ASSUME Inv, Whole, [Next]_vars, Guarded' PROVE Whole'
  BY DEF Whole
<1> USE ConstantTypes DEF Inv, TypeInv, TypeOK, Place, Holding, Guarded, Critical, Goto,
        Whole, Uniform, IsReader, Id, launch, data
<1>1. ASSUME NEW p \in Pid, NEW c \in Pid, Fork(p, c) PROVE Whole'
  BY <1>1 DEF Fork
<1>2. ASSUME NEW p \in Pid, ForksDone(p) PROVE Whole'
  BY <1>2 DEF ForksDone
<1>3. ASSUME NEW p \in Pid, Wait(p) PROVE Whole'
  BY <1>3 DEF Wait, Children
<1>4. ASSUME NEW p \in Pid, Quit(p) PROVE Whole'
  BY <1>4 DEF Quit
<1>5. ASSUME NEW p \in Pid, Exec(p) PROVE Whole'
  BY <1>5 DEF Exec
<1>6. ASSUME NEW p \in Pid, ExecReturns(p) PROVE Whole'
  BY <1>6 DEF ExecReturns
<1>7. ASSUME NEW p \in Pid, Start(p) PROVE Whole'
  BY <1>7 DEF Start, Again
<1>8. ASSUME NEW p \in Pid, Draw(p) PROVE Whole'
  BY <1>8 DEF Draw
<1>9. ASSUME NEW p \in Pid, Lock(p) PROVE Whole'
  <2>0. /\ Guarded /\ sem > 0 /\ sem' = sem - 1 /\ mem' = mem /\ at' = at
        /\ slot' = slot /\ pc[p] = "lock"
    BY <1>9 DEF Lock
  <2>1. sem = 1 /\ sem' = 0 /\ at[p] = 0
    BY <2>0
  <2>2. \A q \in Pid : Critical(q)' => q = p
    BY <1>9, <2>0, <2>1 DEF Lock
  <2>3. \A b \in Byte : ~(b < 0)
    BY DEF Byte
  <2> QED BY <2>0, <2>1, <2>2, <2>3
<1>10. ASSUME NEW p \in Pid, Access(p) PROVE Whole'
  <2>1. /\ Guarded /\ sem = 0 /\ sem' = 0 /\ slot' = slot /\ Critical(p)
        /\ \A q \in Pid : Critical(q)' => q = p
    BY <1>10 DEF Access
  <2>2. at[p] \in Byte /\ at'[p] = at[p] + 1
    BY <1>10 DEF Access, Byte
  <2>3. \A b \in Byte : b < at'[p] => b < at[p] \/ b = at[p]
    BY <2>2 DEF Byte
  <2>4. CASE IsReader(p)
    <3>1. mem' = mem /\ \A b \in Byte : copy'[p][b] = IF b = at[p] THEN mem[b]
                                                               ELSE copy[p][b]
      BY <1>10, <2>2, <2>4 DEF Access
    <3> QED BY <2>1, <2>3, <2>4, <3>1
  <2>5. CASE ~IsReader(p)
    <3>1. \A b \in Byte : mem'[b] = IF b = at[p] THEN Id(p) ELSE mem[b]
      BY <1>10, <2>2, <2>5 DEF Access
    <3> QED BY <2>1, <2>3, <2>5, <3>1
  <2> QED BY <2>4, <2>5
<1>11. ASSUME NEW p \in Pid, Unlock(p) PROVE Whole'
  <2>1. /\ Guarded /\ mem' = mem /\ Critical(p) /\ at[p] = Size
        /\ \A q \in Pid : ~Critical(q)'
    BY <1>11 DEF Unlock, Again
  <2>2. \A b \in Byte : b < Size
    BY DEF Byte
  <2>3. Uniform
    BY <2>1, <2>2
  <2> QED BY <2>1, <2>3
<1>12. ASSUME NEW p \in Pid, SignalLauncher(p) PROVE Whole'
  BY <1>12 DEF SignalLauncher
<1>13. ASSUME NEW p \in Pid, SignalChild(p) PROVE Whole'
  BY <1>13 DEF SignalChild
<1>14. CASE UNCHANGED vars BY <1>14 DEF vars
<1> QED BY <1>1, <1>2, <1>3, <1>4, <1>5, <1>6, <1>7, <1>8, <1>9, <1>10, <1>11, <1>12,
           <1>13, <1>14 DEF Next, Program

LEMMA WholeCopies == Inv /\ Whole => CopyUniform
<1> SUFFICES ASSUME Inv, Whole, Guarded, NEW p \in Pid, pc[p] = "unlock", IsReader(p),
                    NEW b \in Byte, NEW c \in Byte
             PROVE  copy[p][b] = copy[p][c]
  BY DEF CopyUniform
<1>1. at[p] = Size
  BY DEF Inv, TypeInv, Place
<1>2. b < at[p] /\ c < at[p]
  BY <1>1, ConstantTypes DEF Byte
<1> QED BY <1>2 DEF Whole, Uniform, Critical

(* A reader never hands on a copy that mixes the bytes of two writers,     *)
(* whatever the size of the segment and whoever was killed before.         *)
THEOREM CopiesAreWhole == Spec => []CopyUniform
BY InvInit, InvStep, WholeInit, WholeStep, WholeCopies, PTL DEF Spec

(***************************************************************************)
(* The launcher's count                                                    *)
(***************************************************************************)

Unreaped(p) == { c \in Children(p) : pc[c] # "reaped" }

(* Who has not left the loop of forks still has all its calls of wait to   *)
(* make, and a child for at most every slot behind it; in the loop of      *)
(* waits it has at least as many calls left as children.  A process that   *)
(* never was a launcher has no child, and a free one no parent.            *)
Family == \A p \in Pid :
  /\ pc[p] = "free" => parent[p] = p
  /\ pc[p] \notin {"fork", "wait", "ended", "reaped"} => Children(p) = {}
  /\ pc[p] \in {"free", "exec", "fork"} => waits[p] = Slots
  /\ pc[p] = "fork" => Cardinality(Children(p)) <= slot[p]
  /\ pc[p] = "wait" => Cardinality(Unreaped(p)) <= waits[p]

LEMMA FamilyFinite ==
  ASSUME NEW p \in Pid
  PROVE  /\ IsFiniteSet(Children(p)) /\ IsFiniteSet(Unreaped(p))
         /\ Cardinality(Children(p)) \in Nat /\ Cardinality(Unreaped(p)) \in Nat
         /\ Cardinality(Unreaped(p)) <= Cardinality(Children(p))
<1>1. IsFiniteSet(Pid) /\ Children(p) \in SUBSET Pid
  BY SyncAssumption DEF SyncAssumption, Children
<1>2. IsFiniteSet(Children(p)) /\ Unreaped(p) \in SUBSET Children(p)
  BY <1>1, FS_Subset DEF Unreaped
<1> QED BY <1>2, FS_Subset, FS_CardinalityType

LEMMA FamilyInit == Init => Family
<1> SUFFICES ASSUME Init, NEW p \in Pid
             PROVE  /\ pc[p] \in {"fork", "free"} /\ parent[p] = p
                    /\ Children(p) = {} /\ waits[p] = Slots
                    /\ Cardinality(Children(p)) <= slot[p]
  BY DEF Family
<1>1. Children(p) = {}
  BY DEF Init, Children
<1> QED BY <1>1, FS_EmptySet DEF Init, Waits

(* A step that forks and collects nobody, and makes no call of wait. *)
Quiet ==
  /\ parent' = parent /\ waits' = waits
  /\ \A p \in Pid :
       /\ pc'[p] = "reaped" <=> pc[p] = "reaped"
       /\ pc'[p] = "free" <=> pc[p] = "free"
       /\ pc'[p] = "fork" => pc[p] \in {"fork", "exec"} /\ slot'[p] >= slot[p]
       /\ pc'[p] = "exec" => pc[p] = "exec"
       /\ pc[p] \in {"fork", "wait"} => pc'[p] \in {"fork", "wait", "ended"}
       /\ pc[p] = "ended" => pc'[p] = "ended"
       /\ pc'[p] = "wait" => pc[p] = "wait" \/ (pc[p] = "fork" /\ slot[p] = Slots)

LEMMA FamilyFrame == ASSUME TypeOK, TypeOK', Family, Quiet PROVE Family'
<1> USE ConstantTypes DEF Quiet
<1>0. \A p \in Pid : slot[p] \in Nat /\ slot'[p] \in Nat
  BY DEF TypeOK
<1> SUFFICES ASSUME NEW p \in Pid
             PROVE  /\ pc'[p] = "free" => parent'[p] = p
                    /\ pc'[p] \notin {"fork", "wait", "ended", "reaped"} =>
                         Children(p)' = {}
                    /\ pc'[p] \in {"free", "exec", "fork"} => waits'[p] = Slots
                    /\ pc'[p] = "fork" => Cardinality(Children(p)') <= slot'[p]
                    /\ pc'[p] = "wait" => Cardinality(Unreaped(p)') <= waits'[p]
  BY DEF Family
<1>1. Children(p)' = Children(p) /\ Unreaped(p)' = Unreaped(p)
  BY DEF Children, Unreaped
<1>2. CASE pc'[p] = "fork"
  <2>1. pc[p] = "exec" => Cardinality(Children(p)) = 0
    BY FS_EmptySet DEF Family
  <2>2. Cardinality(Children(p)) <= slot'[p]
    BY <1>0, <1>2, <2>1, FamilyFinite DEF Family
  <2> QED BY <1>1, <1>2, <2>2 DEF Family
<1>3. CASE pc'[p] = "wait"
  BY <1>1, <1>3, FamilyFinite, ConstantTypes DEF Family
<1> QED BY <1>1, <1>2, <1>3 DEF Family

(* A fork adds one child, to the forking launcher only. *)
LEMMA FamilyFork ==
  ASSUME TypeOK, Family, NEW p \in Pid, NEW c \in Pid, Fork(p, c)
  PROVE  Family'
<1>1. /\ p # c /\ pc[p] = "fork" /\ pc[c] = "free" /\ parent[c] = c
      /\ pc'[c] = "exec" /\ parent'[c] = p /\ slot'[p] = slot[p] + 1
      /\ \A q \in Pid \ {c} : pc'[q] = pc[q] /\ parent'[q] = parent[q]
      /\ \A q \in Pid \ {p, c} : slot'[q] = slot[q]
      /\ waits' = waits
  BY DEF Fork, TypeOK, Family
<1>2. Children(p)' = Children(p) \union {c} /\ c \notin Children(p)
  BY <1>1 DEF Children
<1>3. \A q \in Pid \ {p} : Children(q)' = Children(q)
  BY <1>1 DEF Children
<1>4. \A q \in Pid \ {p} : Unreaped(q)' = Unreaped(q)
  BY <1>1, <1>3 DEF Unreaped, Children
<1>5. Cardinality(Children(p)') = Cardinality(Children(p)) + 1
  BY <1>2, FS_AddElement, FamilyFinite
<1> SUFFICES ASSUME NEW q \in Pid
             PROVE  /\ pc'[q] = "free" => parent'[q] = q
                    /\ pc'[q] \notin {"fork", "wait", "ended", "reaped"} =>
                         Children(q)' = {}
                    /\ pc'[q] \in {"free", "exec", "fork"} => waits'[q] = Slots
                    /\ pc'[q] = "fork" => Cardinality(Children(q)') <= slot'[q]
                    /\ pc'[q] = "wait" => Cardinality(Unreaped(q)') <= waits'[q]
  BY DEF Family
<1>6. CASE q = p
  BY <1>1, <1>5, <1>6, FamilyFinite DEF Family, TypeOK
<1>7. CASE q = c
  BY <1>1, <1>3, <1>7 DEF Family
<1>8. CASE q \notin {p, c}
  BY <1>1, <1>3, <1>4, <1>8 DEF Family
<1> QED BY <1>6, <1>7, <1>8

(* A wait uses up a call, and a child if there is one to collect. *)
LEMMA FamilyWait ==
  ASSUME TypeOK, Family, NEW p \in Pid, Wait(p)
  PROVE  Family'
<1>1. /\ pc[p] = "wait" /\ waits[p] > 0 /\ waits[p] \in Nat
      /\ waits'[p] = waits[p] - 1 /\ parent' = parent /\ slot' = slot
      /\ \A q \in Pid \ {p} : waits'[q] = waits[q]
      /\ \A q \in Pid : Children(q)' = Children(q)
  BY ConstantTypes DEF Wait, TypeOK, Children
<1>2. CASE \E c \in Children(p) : pc[c] = "ended" /\ Goto(c, "reaped")
  <2>1. PICK c \in Children(p) : pc[c] = "ended" /\ Goto(c, "reaped")
    BY <1>2
  <2>2. /\ c \in Pid \ {p} /\ parent[c] = p /\ pc'[c] = "reaped"
        /\ \A q \in Pid \ {c} : pc'[q] = pc[q]
    BY <2>1 DEF Children, TypeOK, Goto
  <2>3. Unreaped(p)' = Unreaped(p) \ {c} /\ c \in Unreaped(p)
    BY <1>1, <2>1, <2>2 DEF Unreaped, Children
  <2>4. Cardinality(Unreaped(p)') = Cardinality(Unreaped(p)) - 1
    BY <2>3, FS_RemoveElement, FamilyFinite
  <2>5. \A q \in Pid \ {p} : Unreaped(q)' = Unreaped(q)
    BY <1>1, <2>2 DEF Unreaped, Children
  <2>6. Cardinality(Unreaped(p)') <= waits'[p]
    BY <1>1, <2>4, FamilyFinite DEF Family
  <2> QED BY <1>1, <2>1, <2>2, <2>5, <2>6 DEF Family
<1>3. CASE (\A c \in Children(p) : pc[c] = "reaped") /\ UNCHANGED pc
  <2>1. Unreaped(p) = {} /\ \A q \in Pid : Unreaped(q)' = Unreaped(q)
    BY <1>1, <1>3 DEF Unreaped
  <2>2. Cardinality(Unreaped(p)') <= waits'[p]
    BY <1>1, <2>1, FS_EmptySet
  <2> QED BY <1>1, <1>3, <2>1, <2>2 DEF Family
<1> QED BY <1>2, <1>3 DEF Wait

LEMMA FamilyStep == Inv /\ Family /\ [Next]_vars => Family'
<1> SUFFICES ASSUME Inv, Family, Inv', [Next]_vars PROVE Family'
  BY InvStep
<1>0. TypeOK /\ TypeOK'
  BY DEF Inv, TypeInv
<1>1. ASSUME NEW p \in Pid, NEW c \in Pid, Fork(p, c) PROVE Family'
  BY <1>0, <1>1, FamilyFork
<1>2. ASSUME NEW p \in Pid, Wait(p) PROVE Family'
  BY <1>0, <1>2, FamilyWait
<1>3. ASSUME NEW p \in Pid, Program(p) \/ SignalLauncher(p) \/ SignalChild(p),
             ~Wait(p), \A c \in Pid : ~Fork(p, c)
      PROVE  Quiet
  <2>1. /\ parent' = parent /\ waits' = waits
        /\ \A q \in Pid \ {p} : pc'[q] = pc[q] /\ slot'[q] = slot[q]
    BY <1>0, <1>3 DEF TypeOK, Program, launch, Goto, ForksDone, Quit, Exec, ExecReturns,
       Start, Draw, Lock, Access, Unlock, SignalLauncher, SignalChild
  <2>2. \/ pc'[p] = pc[p] /\ slot'[p] = slot[p]
        \/ pc[p] = "fork" /\ slot[p] = Slots /\ pc'[p] = "wait"
        \/ pc[p] = "exec" /\ pc'[p] = "fork" /\ slot'[p] = slot[p] + 1
        \/ pc[p] = "wait" /\ pc'[p] = "ended"
        \/ /\ pc[p] \in {"exec", "start", "loop", "lock", "critical", "unlock"}
           /\ pc'[p] \in {"start", "loop", "lock", "critical", "unlock", "ended"}
    BY <1>0, <1>3 DEF TypeOK, Program, Again, launch, Goto, ForksDone, Quit, Exec,
       ExecReturns, Start, Draw, Lock, Access, Unlock, SignalLauncher, SignalChild
  <2>3. \A q \in Pid : slot[q] \in Nat
    BY <1>0, ConstantTypes DEF TypeOK
  <2> QED BY <2>1, <2>2, <2>3 DEF Quiet
<1>4. CASE UNCHANGED vars
  BY <1>4 DEF vars, Family, Children, Unreaped
<1> QED BY <1>0, <1>1, <1>2, <1>3, <1>4, FamilyFrame DEF Next

LEMMA FamilyReaps == Family => ReapsAll
<1> SUFFICES ASSUME Family, NEW p \in Pid, pc[p] = "wait", waits[p] = 0
             PROVE  Unreaped(p) = {}
  BY DEF ReapsAll, Unreaped
<1>1. Cardinality(Unreaped(p)) = 0
  BY FamilyFinite DEF Family
<1> QED BY <1>1, FamilyFinite, FS_EmptySet

(* A launcher makes as many calls of wait as it forked children, or more:  *)
(* when it removes the IPC objects none of its own children is left, for   *)
(* every number of them and also when it is itself a child whose exec      *)
(* failed in the middle of the loop.                                       *)
THEOREM LauncherReaps == Spec => []ReapsAll
BY InvInit, InvStep, FamilyInit, FamilyStep, FamilyReaps, PTL DEF Spec
=============================================================================
