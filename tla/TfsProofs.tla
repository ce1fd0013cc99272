------------------------------ MODULE TfsProofs -----------------------------
(***************************************************************************)
(* Proofs about the file system's tables, for any sizes of them and any    *)
(* sequence of calls.                                                      *)
(***************************************************************************)
EXTENDS Tfs, SequenceTheorems, TLAPS

(* What an open leaves a descriptor with, if it is in files. *)
Described(n, m) ==
  \/ files' = files /\ size' = size /\ status' = "wild"
  \/ \E fd \in Fd :
       /\ FindFd(fd)
       /\ files' = [files EXCEPT ![fd] = [node |-> n, mode |-> m, next_sec |-> 0, free |-> FALSE]]
       /\ size' = size + 1 /\ status' = status

LEMMA DescribeCases ==
  ASSUME NEW n, NEW m, Describe(n, m)
  PROVE  Described(n, m)
  BY DEF Describe, Described

(* A list without its k-th entry. *)
Cut(s, k) == SubSeq(s, 1, k - 1) \o SubSeq(s, k + 1, Len(s))

LEMMA Without ==
  ASSUME NEW S, NEW s \in Seq(S), NEW k \in 1..Len(s)
  PROVE  /\ Cut(s, k) \in Seq(S) /\ Len(Cut(s, k)) = Len(s) - 1
         /\ \A j \in 1..Len(s)-1 : Cut(s, k)[j] = s[IF j < k THEN j ELSE j + 1]
<1>1. Len(s) \in Nat /\ k \in Nat /\ k >= 1 /\ k <= Len(s)
  OBVIOUS
<1> DEFINE u == SubSeq(s, 1, k - 1)  v == SubSeq(s, k + 1, Len(s))
<1>2. u \in Seq(S) /\ Len(u) = k - 1 /\ \A j \in 1..k-1 : u[j] = s[j]
  OBVIOUS
<1>3. v \in Seq(S) /\ Len(v) = Len(s) - k /\ \A j \in 1..Len(s)-k : v[j] = s[k + j]
  OBVIOUS
<1>4. Cut(s, k) = u \o v
  BY DEF Cut
<1> HIDE DEF u, v
<1>5. u \o v \in Seq(S) /\ Len(u \o v) = Len(u) + Len(v)
  BY <1>2, <1>3, ConcatProperties
<1>6. \A i \in 1..Len(u) + Len(v) : (u \o v)[i] = IF i <= Len(u) THEN u[i] ELSE v[i - Len(u)]
  BY <1>2, <1>3, ConcatProperties
<1>7. Len(u) + Len(v) = Len(s) - 1
  BY <1>1, <1>2, <1>3
<1>8. ASSUME NEW j \in 1..Len(s)-1
      PROVE  (u \o v)[j] = s[IF j < k THEN j ELSE j + 1]
  <2>1. CASE j < k
    <3>1. (u \o v)[j] = u[j] /\ j \in 1..k-1
      BY <2>1, <1>1, <1>2, <1>6, <1>7
    <3> QED BY <2>1, <3>1, <1>2
  <2>2. CASE ~(j < k)
    <3>1. (u \o v)[j] = v[j - (k - 1)] /\ j - (k - 1) \in 1..Len(s)-k
      BY <2>2, <1>1, <1>2, <1>6, <1>7
    <3>2. v[j - (k - 1)] = s[k + (j - (k - 1))] /\ k + (j - (k - 1)) = j + 1
      BY <3>1, <1>1, <1>3
    <3> QED BY <2>2, <3>1, <3>2
  <2> QED BY <2>1, <2>2
<1>9. Cut(s, k) \in Seq(S) /\ Len(Cut(s, k)) = Len(s) - 1
  BY <1>4, <1>5, <1>7
<1> QED BY <1>4, <1>8, <1>9

LEMMA Constants ==
  /\ MaxInodes \in Nat \ {0} /\ MaxFiles \in Nat \ {0} /\ Blocks \in Nat \ {0}
  /\ Sectors \in Nat \ {0} /\ MaxNodes \in Nat \ {0} /\ MaxOpens \in Nat \ {0}
  BY TfsAssumption
-----------------------------------------------------------------------------
(***************************************************************************)
(* Types                                                                   *)
(***************************************************************************)
LEMMA TypeInit == Init => TypeOK
<1> SUFFICES ASSUME Init PROVE TypeOK
  OBVIOUS
<1>1. list \in Seq(Node) /\ Len(list) = 0 /\ freed \in Seq(Node)
  BY EmptySeq DEF Init
<1>2. 1 \in Node /\ 0 \in 0..Sectors /\ 0 \in 0..MaxNodes /\ 0 \in 0..MaxOpens
  BY Constants DEF Node
<1>3. name \in [Node -> Name \union {Garbled, NoName}] /\ data \in [Node -> SUBSET (0..Sectors-1)]
  BY DEF Init
<1>4. files \in [Fd -> [node : Node, mode : {0, 1}, next_sec : 0..Sectors, free : BOOLEAN]]
  <2> DEFINE r == [node |-> 1, mode |-> 0, next_sec |-> 0, free |-> TRUE]
  <2>1. r \in [node : Node, mode : {0, 1}, next_sec : 0..Sectors, free : BOOLEAN]
    BY <1>2
  <2>2. files = [fd \in Fd |-> r]
    BY DEF Init
  <2> HIDE DEF r
  <2> QED BY <2>1, <2>2
<1>5. Len(list) <= inode_list_size /\ inode_list_size \in 0..MaxNodes /\ size \in 0..MaxOpens
  BY <1>1, <1>2 DEF Init
<1>6. /\ detached \in BOOLEAN /\ bitmap \subseteq Block
      /\ status \in {"ok", "open", "ulink", "write", "wild"}
  BY DEF Init
<1> QED BY <1>1, <1>3, <1>4, <1>5, <1>6 DEF TypeOK

LEMMA TypeRemove ==
  ASSUME TypeOK, NEW k \in 1..Len(list), Remove(k)
  PROVE  /\ list' \in Seq(Node) /\ Len(list') = Len(list) - 1
         /\ freed' \in Seq(Node) /\ detached' \in BOOLEAN
<1>1. list \in Seq(Node) /\ freed \in Seq(Node) /\ detached \in BOOLEAN
  BY DEF TypeOK
<1>2. list' \in Seq(Node) /\ Len(list') = Len(list) - 1
  BY <1>1, Without DEF Remove, Cut
<1>3. list[k] \in Node
  BY <1>1, ElementOfSeq
<1>4. freed' \in Seq(Node)
  BY <1>1, <1>3 DEF Remove
<1> QED BY <1>1, <1>2, <1>4 DEF Remove

LEMMA TypeDescribe ==
  ASSUME TypeOK, NEW n \in Node, NEW m \in {0, 1}, Describe(n, m), size < MaxOpens, Running
  PROVE  /\ files' \in [Fd -> [node : Node, mode : {0, 1}, next_sec : 0..Sectors, free : BOOLEAN]]
         /\ size' \in 0..MaxOpens
         /\ status' \in {"ok", "wild"}
<1>1. Described(n, m)
  BY DescribeCases
<1> DEFINE R == [node : Node, mode : {0, 1}, next_sec : 0..Sectors, free : BOOLEAN]
           r == [node |-> n, mode |-> m, next_sec |-> 0, free |-> FALSE]
<1>2. r \in R
  BY Constants
<1>3. files \in [Fd -> R] /\ size \in 0..MaxOpens
  BY DEF TypeOK
<1>4. files' = files \/ \E fd \in Fd : files' = [files EXCEPT ![fd] = r]
  BY <1>1 DEF Described
<1> HIDE DEF R, r
<1>5. files' \in [Fd -> R]
  BY <1>2, <1>3, <1>4
<1>6. size' \in 0..MaxOpens /\ status' \in {"ok", "wild"}
  BY <1>1, <1>3, Constants DEF Described, Running
<1> QED BY <1>5, <1>6 DEF R

LEMMA TypeStep == TypeOK /\ [Next]_vars => TypeOK'
<1> SUFFICES ASSUME TypeOK, [Next]_vars PROVE TypeOK'
  OBVIOUS
<1> USE Constants DEF inodes
<1>1. ASSUME NEW f \in Name, NEW m \in {0, 1}, OpenOld(f, m)
      PROVE  TypeOK'
  <2>1. PICK n \in Node : Describe(n, m)
    BY <1>1 DEF OpenOld
  <2> QED BY <1>1, <2>1, TypeDescribe DEF OpenOld, TypeOK
<1>2. ASSUME NEW f \in Name, NEW m \in {0, 1}, OpenNew(f, m)
      PROVE  TypeOK'
  <2>1. PICK n \in Node : Create(f, n) /\ Describe(n, m)
    BY <1>2 DEF OpenNew
  <2>2. list' \in Seq(Node) /\ Len(list') <= inode_list_size'
    BY <2>1 DEF Create, TypeOK
  <2>3. freed' \in Seq(Node)
    BY <2>1 DEF Create, TypeOK
  <2>4. name' \in [Node -> Name \union {Garbled, NoName}]
    BY <2>1 DEF Create, TypeOK
  <2>5. inode_list_size' \in 0..MaxNodes /\ UNCHANGED <<detached, data, bitmap>>
    BY <1>2, <2>1 DEF OpenNew, Create, TypeOK
  <2> QED BY <1>2, <2>1, <2>2, <2>3, <2>4, <2>5, TypeDescribe DEF OpenNew, TypeOK
<1>3. ASSUME NEW f \in Name, Ulink(f) \/ UlinkOther(f)
      PROVE  TypeOK'
  <2>1. PICK k \in 1..Len(list) : Remove(k)
    BY <1>3 DEF Ulink, UlinkOther, Later, Bound, Least, TypeOK
  <2>2. UNCHANGED <<inode_list_size, name, data, bitmap, files, size, status>>
    BY <1>3, <2>1 DEF Ulink, UlinkOther, Remove
  <2> QED BY <2>1, <2>2, TypeRemove DEF TypeOK
<1>4. ASSUME NEW f \in Name, OpenFails(f) \/ UlinkFails(f)
      PROVE  TypeOK'
  BY <1>4 DEF OpenFails, UlinkFails, TypeOK
<1>5. ASSUME NEW fd \in Fd, Close(fd)
      PROVE  TypeOK'
  BY <1>5 DEF Close, TypeOK
<1>6. ASSUME NEW fd \in Fd, Read(fd)
      PROVE  TypeOK'
  <2>1. files[fd].next_sec + 1 \in 0..Sectors
    BY <1>6 DEF Read, TypeOK
  <2>2. UNCHANGED <<inodes, bitmap, size, status>>
        /\ files' = [files EXCEPT ![fd].next_sec = @ + 1]
    BY <1>6 DEF Read
  <2> QED BY <2>1, <2>2 DEF TypeOK
<1>7. ASSUME NEW fd \in Fd, Write(fd)
      PROVE  TypeOK'
  <2>1. bitmap' \subseteq Block
    BY <1>7 DEF Write, TypeOK
  <2>2. data' \in [Node -> SUBSET (0..Sectors-1)]
    <3>1. files[fd].next_sec \in 0..Sectors-1 /\ files[fd].node \in Node
      BY <1>7 DEF Write, TypeOK
    <3> QED BY <1>7, <3>1 DEF Write, TypeOK
  <2> QED BY <1>7, <2>1, <2>2 DEF Write, TypeOK
<1>8. CASE UNCHANGED vars
  BY <1>8 DEF vars, TypeOK
<1> QED BY <1>1, <1>2, <1>3, <1>4, <1>5, <1>6, <1>7, <1>8 DEF Next

(* TypeOK: the tables stay in their sizes until an open indexes files past *)
(* its end, which is kept in status (tfs.c 47-53).                         *)
THEOREM TypeCorrect == Spec => []TypeOK
  BY TypeInit, TypeStep, PTL DEF Spec
-----------------------------------------------------------------------------
(***************************************************************************)
(* Descriptors                                                             *)
(***************************************************************************)
InUse == \A fd \in Fd : ~files[fd].free => fd < size /\ name[files[fd].node] # NoName
First == \A fd \in Fd : files[fd].mode # 0 => files[fd].next_sec = 0

(* An open takes a descriptor that was free. *)
LEMMA TakesFree ==
  ASSUME TypeOK, InUse, NEW fd \in Fd, FindFd(fd)
  PROVE  files[fd].free /\ fd <= size
  BY Constants DEF FindFd, InUse, TypeOK, Fd

(* Names are never taken from an inode. *)
LEMMA NamesStay ==
  ASSUME TypeOK, [Next]_vars, NEW n \in Node, name[n] # NoName
  PROVE  name'[n] # NoName
<1>1. ASSUME NEW f \in Name, NEW m \in {0, 1}, OpenNew(f, m)
      PROVE  name'[n] # NoName
  <2>1. PICK k \in Node, g \in Name \union {Garbled} : name' = [name EXCEPT ![k] = g]
    BY <1>1 DEF OpenNew, Create
  <2> QED BY <2>1, TfsAssumption DEF TypeOK
<1>2. CASE name' = name
  BY <1>2
<1> QED BY <1>1, <1>2 DEF Next, vars, inodes, OpenOld, OpenFails, Ulink, UlinkOther, UlinkFails,
                         Remove, Close, Read, Write

(* What an open does to the descriptors: the next has an inode with a name. *)
LEMMA OpenStep ==
  ASSUME TypeOK, [Next]_vars, InUse, First, NEW n \in Node, NEW m \in {0, 1},
         Describe(n, m), name'[n] # NoName
  PROVE  /\ InUse' /\ First'
         /\ \A fd \in Fd : ~files[fd].free =>
               files'[fd].node = files[fd].node /\ files'[fd].mode = files[fd].mode
<1>1. Described(n, m)
  BY DescribeCases
<1>2. CASE files' = files /\ size' = size
  BY <1>2, NamesStay DEF InUse, First, TypeOK
<1>3. ASSUME NEW fd \in Fd, FindFd(fd), size' = size + 1,
             files' = [files EXCEPT ![fd] = [node |-> n, mode |-> m, next_sec |-> 0, free |-> FALSE]]
      PROVE  /\ InUse' /\ First'
             /\ \A g \in Fd : ~files[g].free =>
                   files'[g].node = files[g].node /\ files'[g].mode = files[g].mode
  <2>1. files[fd].free /\ fd <= size /\ fd \in Int /\ size \in Nat
    BY <1>3, TakesFree, Constants DEF Fd, TypeOK
  <2>2. files'[fd].node = n /\ files'[fd].next_sec = 0 /\ \A g \in Fd : g # fd => files'[g] = files[g]
    BY <1>3 DEF TypeOK
  <2>3. ASSUME NEW g \in Fd, ~files'[g].free
        PROVE  g < size' /\ name'[files'[g].node] # NoName
    <3>1. CASE g = fd
      BY <3>1, <2>1, <2>2, <1>3
    <3>2. CASE g # fd
      <4>1. g < size /\ name[files[g].node] # NoName /\ files[g].node \in Node /\ g \in Int
        BY <2>2, <2>3, <3>2, Constants DEF InUse, TypeOK, Fd
      <4> QED BY <4>1, <2>1, <2>2, <3>2, <1>3, NamesStay
    <3> QED BY <3>1, <3>2
  <2>4. First'
    BY <2>2 DEF First
  <2>5. \A g \in Fd : ~files[g].free => files'[g] = files[g]
    BY <2>1, <2>2
  <2> QED BY <2>3, <2>4, <2>5 DEF InUse
<1> QED BY <1>1, <1>2, <1>3 DEF Described

(* The fields of a descriptor that a close or a read leaves alone. *)
LEMMA Fields ==
  ASSUME TypeOK, NEW fd \in Fd, NEW g \in Fd, NEW h,
         \/ h = [files EXCEPT ![fd].free = TRUE]
         \/ files[fd].mode = 0 /\ h = [files EXCEPT ![fd].next_sec = @ + 1]
  PROVE  /\ h[g].node = files[g].node /\ h[g].mode = files[g].mode
         /\ files[g].free => h[g].free
         /\ files[g].mode # 0 => h[g].next_sec = files[g].next_sec
<1>1. CASE g # fd
  BY <1>1 DEF TypeOK
<1>2. CASE g = fd /\ h = [files EXCEPT ![fd].free = TRUE]
  BY <1>2 DEF TypeOK
<1>3. CASE g = fd /\ files[fd].mode = 0 /\ h = [files EXCEPT ![fd].next_sec = @ + 1]
  BY <1>3 DEF TypeOK
<1> QED BY <1>1, <1>2, <1>3

(* The other steps leave what a descriptor in use stands for. *)
LEMMA DescriptorStep ==
  ASSUME TypeOK, [Next]_vars, InUse, First
  PROVE  /\ InUse' /\ First'
         /\ \A fd \in Fd : ~files[fd].free =>
               files'[fd].node = files[fd].node /\ files'[fd].mode = files[fd].mode
<1>1. ASSUME NEW f \in Name, NEW m \in {0, 1}, OpenOld(f, m)
      PROVE  \E n \in Node : Describe(n, m) /\ name'[n] # NoName
  <2>1. PICK n \in Node : Found(f, n) /\ Describe(n, m) /\ name' = name
    BY <1>1 DEF OpenOld, inodes
  <2>2. name[n] = f
    BY <2>1 DEF Found, Hits
  <2> QED BY <2>1, <2>2, TfsAssumption
<1>2. ASSUME NEW f \in Name, NEW m \in {0, 1}, OpenNew(f, m)
      PROVE  \E n \in Node : Describe(n, m) /\ name'[n] # NoName
  <2>1. PICK n \in Node : Create(f, n) /\ Describe(n, m)
    BY <1>2 DEF OpenNew
  <2>2. PICK g \in Name \union {Garbled} : name' = [name EXCEPT ![n] = g]
    BY <2>1 DEF Create
  <2>3. name'[n] = g
    BY <2>2 DEF TypeOK
  <2> QED BY <2>1, <2>3, TfsAssumption
<1>3. CASE files' = files /\ size' = size
  BY <1>3, NamesStay DEF InUse, First, TypeOK
<1>4. ASSUME NEW fd \in Fd, Close(fd) \/ Read(fd)
      PROVE  /\ InUse' /\ First'
             /\ \A g \in Fd : ~files[g].free =>
                   files'[g].node = files[g].node /\ files'[g].mode = files[g].mode
  <2>1. name' = name /\ size' = size
    BY <1>4 DEF Close, Read, inodes
  <2>2. \/ files' = [files EXCEPT ![fd].free = TRUE]
        \/ files[fd].mode = 0 /\ files' = [files EXCEPT ![fd].next_sec = @ + 1]
    BY <1>4 DEF Close, Read
  <2>3. ASSUME NEW g \in Fd
        PROVE  /\ files'[g].node = files[g].node /\ files'[g].mode = files[g].mode
               /\ files[g].free => files'[g].free
               /\ files[g].mode # 0 => files'[g].next_sec = files[g].next_sec
    BY <2>2, Fields
  <2> QED BY <2>1, <2>3 DEF InUse, First
<1> QED BY <1>1, <1>2, <1>3, <1>4, OpenStep
        DEF Next, vars, OpenFails, Ulink, UlinkOther, UlinkFails, Write

(* A write goes where next_sec is, which is 0 for who may write. *)
LEMMA SectorStep == TypeOK /\ First /\ OnlyFirstSector /\ [Next]_vars => OnlyFirstSector'
<1> SUFFICES ASSUME TypeOK, First, OnlyFirstSector, [Next]_vars PROVE OnlyFirstSector'
  OBVIOUS
<1>1. ASSUME NEW fd \in Fd, Write(fd)
      PROVE  OnlyFirstSector'
  <2>1. files[fd].next_sec = 0
    BY <1>1 DEF Write, First
  <2>2. data' = data \/ data' = [data EXCEPT ![files[fd].node] = @ \union {0}]
    BY <1>1, <2>1 DEF Write
  <2> QED BY <2>2 DEF OnlyFirstSector, TypeOK
<1>2. CASE data' = data
  BY <1>2 DEF OnlyFirstSector
<1> QED BY <1>1, <1>2 DEF Next, vars, inodes, OpenOld, OpenNew, Create, OpenFails, Ulink,
                         UlinkOther, UlinkFails, Remove, Close, Read

Tables == TypeOK /\ InUse /\ First /\ OnlyFirstSector

LEMMA TablesInit == Init => Tables
<1> SUFFICES ASSUME Init PROVE Tables
  OBVIOUS
<1>1. InUse /\ First /\ OnlyFirstSector
  BY DEF Init, InUse, First, OnlyFirstSector
<1> QED BY <1>1, TypeInit DEF Tables

LEMMA TablesStep == Tables /\ [Next]_vars => Tables'
  BY TypeStep, DescriptorStep, SectorStep DEF Tables

(* OnlyFirstSector: whatever is opened, read and written, no file gets a   *)
(* second sector (tfs.c 278-304).                                          *)
THEOREM OneSector == Spec => []OnlyFirstSector
<1>1. Tables => OnlyFirstSector
  BY DEF Tables
<1> QED BY <1>1, TablesInit, TablesStep, PTL DEF Spec

(* FreshDescriptor: no open takes a descriptor in use, although find_fd    *)
(* does not always return one (218-225).                                   *)
THEOREM DescriptorsFresh == Spec => FreshDescriptor
<1>1. Tables /\ [Next]_vars
        => [ \A fd \in Fd : ~files[fd].free /\ ~files'[fd].free
               => files'[fd].node = files[fd].node /\ files'[fd].mode = files[fd].mode ]_vars
  BY DescriptorStep DEF Tables
<1> QED BY <1>1, TablesInit, TablesStep, PTL DEF Spec, FreshDescriptor
-----------------------------------------------------------------------------
(***************************************************************************)
(* The inode list                                                          *)
(***************************************************************************)
IsIn(s, n) == \E k \in 1..Len(s) : s[k] = n

(* As long as the searches see all inodes there ever were, the list is     *)
(* either as long as its size says, and then nothing was unlinked, or no   *)
(* search of open comes to its end any more.                               *)
Linked ==
  /\ Len(list) = inode_list_size => freed = <<>> /\ ~detached
  /\ \A k \in 1..Len(list) : name[list[k]] # NoName
  /\ \A k \in 1..Len(freed) : name[freed[k]] # NoName
  /\ \A j, k \in 1..Len(list) : name[list[j]] = name[list[k]] => j = k
  /\ \A n \in Node : name[n] # NoName => IsIn(list, n) # IsIn(freed, n)

LEMMA LinkedInit == Init => Linked
  BY DEF Init, Linked

(* inode_create is reached only when nothing was unlinked. *)
LEMMA CreateFirst ==
  ASSUME TypeOK, Linked, Within', NEW f \in Name, NEW m \in {0, 1}, NEW n \in Node,
         OpenNew(f, m), Create(f, n)
  PROVE  /\ freed = <<>> /\ freed' = <<>> /\ detached' = detached
         /\ name[n] = NoName /\ name' = [name EXCEPT ![n] = f]
         /\ list' = Append(list, n)
         /\ \A k \in 1..Len(list) : name[list[k]] # f
<1>1. inode_list_size + 1 <= MaxInodes /\ inode_list_size \in Nat /\ MaxInodes \in Nat /\ Len(list) \in Nat
  BY Constants DEF Within, Create, TypeOK
<1>2. Bound = inode_list_size
  BY <1>1 DEF Bound, Least
<1>3. Len(list) = inode_list_size
  BY <1>1, <1>2 DEF OpenNew, Missing, TypeOK
<1>4. freed = <<>> /\ ~detached
  BY <1>3 DEF Linked
<1>5. \A k \in 1..Len(list) : name[list[k]] # f
  BY <1>1, <1>2, <1>3 DEF OpenNew, Missing, Hits, Least
<1> QED BY <1>4, <1>5 DEF Create, Allocated

LEMMA CreateKeeps ==
  ASSUME TypeOK, Linked, Within', NEW f \in Name, NEW m \in {0, 1}, NEW n \in Node,
         OpenNew(f, m), Create(f, n)
  PROVE  Linked'
<1>1. /\ freed = <<>> /\ freed' = <<>> /\ detached' = detached
      /\ name[n] = NoName /\ name' = [name EXCEPT ![n] = f]
      /\ list' = Append(list, n)
      /\ \A k \in 1..Len(list) : name[list[k]] # f
  BY CreateFirst
<1>2. list \in Seq(Node) /\ name \in [Node -> Name \union {Garbled, NoName}] /\ f # NoName
  BY TfsAssumption DEF TypeOK
<1>3. /\ Len(list') = Len(list) + 1 /\ list'[Len(list) + 1] = n
      /\ \A k \in 1..Len(list) : list'[k] = list[k] /\ list[k] \in Node /\ list[k] # n
  BY <1>1, <1>2 DEF Linked
<1>4. Len(list) \in Nat /\ \A k \in 1..Len(list') : k \in 1..Len(list) \/ k = Len(list) + 1
  BY <1>2, <1>3
<1>5. name'[n] = f /\ \A x \in Node : x # n => name'[x] = name[x]
  BY <1>1, <1>2
<1>6. \A k \in 1..Len(list) : name'[list'[k]] = name[list[k]]
  BY <1>3, <1>5
<1>7. name'[list'[Len(list) + 1]] = f
  BY <1>3, <1>5
<1>8. \A k \in 1..Len(list') : name'[list'[k]] # NoName
  BY <1>2, <1>4, <1>6, <1>7 DEF Linked
<1>9. ASSUME NEW j \in 1..Len(list'), NEW k \in 1..Len(list'), name'[list'[j]] = name'[list'[k]]
      PROVE  j = k
  BY <1>1, <1>4, <1>6, <1>7, <1>9 DEF Linked
<1>10. Len(freed') = 0 /\ Len(freed) = 0
  BY <1>1
<1>11. ASSUME NEW x \in Node, name'[x] # NoName
       PROVE  IsIn(list', x) # IsIn(freed', x)
  <2>1. ~IsIn(freed', x) /\ ~IsIn(freed, x)
    BY <1>10 DEF IsIn
  <2>2. CASE x = n
    <3>1. Len(list) + 1 \in 1..Len(list')
      BY <1>3, <1>4
    <3>2. IsIn(list', x)
      BY <2>2, <3>1, <1>3 DEF IsIn
    <3> QED BY <2>1, <3>2
  <2>3. CASE x # n
    <3>1. name[x] # NoName
      BY <2>3, <1>5, <1>11
    <3>2. IsIn(list, x) # IsIn(freed, x)
      BY <3>1 DEF Linked
    <3>3. IsIn(list, x) \in BOOLEAN /\ IsIn(freed, x) \in BOOLEAN
      BY DEF IsIn
    <3>4. IsIn(list, x)
      BY <2>1, <3>2, <3>3, Zenon
    <3>5. PICK k \in 1..Len(list) : list[k] = x
      BY <3>4 DEF IsIn
    <3>6. k \in 1..Len(list') /\ list'[k] = x
      BY <3>5, <1>3, <1>4
    <3>7. IsIn(list', x)
      BY <3>6 DEF IsIn
    <3> QED BY <2>1, <3>7
  <2> QED BY <2>2, <2>3
<1>12. Len(list') = inode_list_size' => freed' = <<>> /\ ~detached'
  <2>1. Len(list) = inode_list_size \/ Len(list') # inode_list_size'
    BY <1>3, <1>4 DEF Create, TypeOK
  <2> QED BY <2>1, <1>1 DEF Linked
<1> QED BY <1>8, <1>9, <1>10, <1>11, <1>12 DEF Linked

LEMMA RemoveKeeps ==
  ASSUME TypeOK, Linked, NEW k \in 1..Len(list), Remove(k)
  PROVE  Linked'
<1>1. /\ list \in Seq(Node) /\ freed \in Seq(Node) /\ Len(list) <= inode_list_size
      /\ inode_list_size \in Nat /\ Len(list) \in Nat /\ list[k] \in Node
  BY Constants DEF TypeOK
<1>2. /\ Len(list') = Len(list) - 1
      /\ \A j \in 1..Len(list)-1 : list'[j] = list[IF j < k THEN j ELSE j + 1]
  BY <1>1, Without DEF Remove, Cut
<1>3. freed' = <<list[k]>> \o freed /\ name' = name /\ inode_list_size' = inode_list_size
  BY DEF Remove
<1>4. /\ Len(freed') = Len(freed) + 1 /\ freed'[1] = list[k] /\ Len(freed) \in Nat
      /\ \A j \in 1..Len(freed) : freed'[j + 1] = freed[j]
  BY <1>1, <1>3
<1> DEFINE old(j) == IF j < k THEN j ELSE j + 1
<1>5. ASSUME NEW j \in 1..Len(list')
      PROVE  old(j) \in 1..Len(list) /\ old(j) # k /\ list'[j] = list[old(j)]
  BY <1>1, <1>2
<1>6. ASSUME NEW i \in 1..Len(list), i # k
      PROVE  \E j \in 1..Len(list') : list'[j] = list[i]
  <2>1. CASE i < k
    <3>1. i \in 1..Len(list') /\ old(i) = i
      BY <2>1, <1>1, <1>2
    <3> QED BY <3>1, <1>5
  <2>2. CASE ~(i < k)
    <3>1. i - 1 \in 1..Len(list') /\ old(i - 1) = i
      BY <2>2, <1>1, <1>2, <1>6
    <3>2. list'[i - 1] = list[i]
      BY <3>1, <1>5
    <3> QED BY <3>1, <3>2
  <2> QED BY <2>1, <2>2
<1>7. \A i, j \in 1..Len(list) : name[list[i]] = name[list[j]] => i = j
  BY DEF Linked
<1>8. Len(list') # inode_list_size'
  BY <1>1, <1>2, <1>3
<1>9. \A j \in 1..Len(list') : name'[list'[j]] # NoName
  BY <1>3, <1>5 DEF Linked
<1>10. ASSUME NEW i \in 1..Len(freed')
       PROVE  freed'[i] = list[k] \/ \E j \in 1..Len(freed) : freed'[i] = freed[j]
  <2>1. CASE i = 1
    BY <2>1, <1>4
  <2>2. CASE i # 1
    <3>1. i - 1 \in 1..Len(freed) /\ (i - 1) + 1 = i
      BY <2>2, <1>4
    <3>2. freed'[(i - 1) + 1] = freed[i - 1]
      BY <3>1, <1>4
    <3> QED BY <3>1, <3>2
  <2> QED BY <2>1, <2>2
<1>11. \A i \in 1..Len(freed') : name'[freed'[i]] # NoName
  BY <1>3, <1>10 DEF Linked
<1>12. ASSUME NEW i \in 1..Len(list'), NEW j \in 1..Len(list'), name'[list'[i]] = name'[list'[j]]
       PROVE  i = j
  <2>1. old(i) = old(j)
    BY <1>3, <1>5, <1>7, <1>12
  <2> QED BY <2>1, <1>1, <1>2
<1>13. ASSUME NEW n \in Node, name'[n] # NoName
       PROVE  IsIn(list', n) # IsIn(freed', n)
  <2>1. IsIn(list, n) # IsIn(freed, n)
    BY <1>3, <1>13 DEF Linked
  <2>2. IsIn(freed', n) <=> n = list[k] \/ IsIn(freed, n)
    <3>1. IsIn(freed', n) => n = list[k] \/ IsIn(freed, n)
      BY <1>10 DEF IsIn
    <3>2. n = list[k] => IsIn(freed', n)
      BY <1>4 DEF IsIn
    <3>3. ASSUME NEW j \in 1..Len(freed), freed[j] = n
          PROVE  IsIn(freed', n)
      <4>1. j + 1 \in 1..Len(freed') /\ freed'[j + 1] = n
        BY <3>3, <1>4
      <4> QED BY <4>1 DEF IsIn
    <3> QED BY <3>1, <3>2, <3>3 DEF IsIn
  <2>3. IsIn(list', n) <=> n # list[k] /\ IsIn(list, n)
    <3>1. ASSUME NEW j \in 1..Len(list'), list'[j] = n
          PROVE  n # list[k] /\ IsIn(list, n)
      <4>1. old(j) \in 1..Len(list) /\ old(j) # k /\ list[old(j)] = n
        BY <3>1, <1>5
      <4>2. n # list[k]
        BY <4>1, <1>7
      <4> QED BY <4>1, <4>2 DEF IsIn
    <3>2. ASSUME NEW i \in 1..Len(list), list[i] = n, n # list[k]
          PROVE  IsIn(list', n)
      BY <3>2, <1>6 DEF IsIn
    <3> QED BY <3>1, <3>2 DEF IsIn
  <2>4. IsIn(list, list[k])
    BY DEF IsIn
  <2>5. CASE n = list[k]
    <3>1. IsIn(freed', n) /\ ~IsIn(list', n)
      BY <2>2, <2>3, <2>5
    <3> QED BY <3>1
  <2>6. CASE n # list[k]
    <3>1. (IsIn(freed', n) <=> IsIn(freed, n)) /\ (IsIn(list', n) <=> IsIn(list, n))
      BY <2>2, <2>3, <2>6
    <3>2. IsIn(freed, n) \in BOOLEAN /\ IsIn(list, n) \in BOOLEAN
          /\ IsIn(freed', n) \in BOOLEAN /\ IsIn(list', n) \in BOOLEAN
      BY DEF IsIn
    <3> QED BY <2>1, <3>1, <3>2, Zenon
  <2> QED BY <2>5, <2>6
<1> QED BY <1>8, <1>9, <1>11, <1>12, <1>13 DEF Linked

(* The inodes change by a create or a remove, or not at all. *)
LEMMA InodeCases ==
  ASSUME TypeOK, [Next]_vars
  PROVE  \/ \E f \in Name, m \in {0, 1}, n \in Node : OpenNew(f, m) /\ Create(f, n)
         \/ \E k \in 1..Len(list) : Remove(k)
         \/ UNCHANGED <<list, inode_list_size, detached, name, freed>>
<1>1. ASSUME NEW f \in Name, Ulink(f) \/ UlinkOther(f)
      PROVE  \E k \in 1..Len(list) : Remove(k)
  BY <1>1, Constants DEF Ulink, UlinkOther, Later, Bound, Least, TypeOK
<1>2. ASSUME NEW f \in Name, NEW m \in {0, 1}, OpenNew(f, m)
      PROVE  \E n \in Node : OpenNew(f, m) /\ Create(f, n)
  BY <1>2 DEF OpenNew
<1> QED BY <1>1, <1>2 DEF Next, vars, inodes, OpenOld, OpenFails, UlinkFails, Close, Read, Write

(* inode_list_size never shrinks: within the limit now, always so before. *)
LEMMA WithinBefore ==
  ASSUME TypeOK, [Next]_vars, Within'
  PROVE  Within
<1>1. inode_list_size' = inode_list_size \/ inode_list_size' = inode_list_size + 1
  BY InodeCases DEF Create, Remove
<1> QED BY <1>1, Constants DEF Within, TypeOK

LEMMA LinkedStep == TypeOK /\ (Within => Linked) /\ [Next]_vars => (Within => Linked)'
<1> SUFFICES ASSUME TypeOK, Within => Linked, [Next]_vars, Within' PROVE Linked'
  OBVIOUS
<1>1. Linked
  BY WithinBefore
<1>2. CASE UNCHANGED <<list, inode_list_size, detached, name, freed>>
  BY <1>1, <1>2 DEF Linked, IsIn
<1> QED BY <1>1, <1>2, InodeCases, CreateKeeps, RemoveKeeps

LEMMA ListInit == Init => Tables /\ (Within => Linked)
  BY TablesInit, LinkedInit

LEMMA ListStep == Tables /\ (Within => Linked) /\ [Next]_vars => (Tables /\ (Within => Linked))'
  BY TablesStep, LinkedStep DEF Tables

(* NamesUnique: while all inodes are within reach of the searches, no two  *)
(* files have one name (tfs.c 92-107, 245-256).                            *)
THEOREM NamesOnce == Spec => []NamesUnique
<1>1. (Within => Linked) => NamesUnique
  BY DEF Linked, NamesUnique
<1> QED BY <1>1, ListInit, ListStep, PTL DEF Spec

(* NothingLost: every inode is in the list or was unlinked, never both or  *)
(* neither, although ulink leaves end at an entry it took out (306-323).   *)
THEOREM InodesKept == Spec => []NothingLost
<1>1. (Within => Linked) => NothingLost
  BY DEF Linked, NothingLost, IsIn
<1> QED BY <1>1, ListInit, ListStep, PTL DEF Spec

(* KeepsInode: the inode of a descriptor in use gets no other name, freed  *)
(* or not (135-159).                                                       *)
THEOREM InodeOfOpenKept == Spec => KeepsInode
<1>1. Tables /\ (Within => Linked) /\ [Next]_vars
        => [ Within' => \A fd \in Fd : ~files[fd].free
               => name'[files[fd].node] = name[files[fd].node] ]_vars
  <2> SUFFICES ASSUME Tables, Within => Linked, [Next]_vars, Within', NEW fd \in Fd, ~files[fd].free
               PROVE  name'[files[fd].node] = name[files[fd].node]
    OBVIOUS
  <2>1. name[files[fd].node] # NoName /\ files[fd].node \in Node /\ TypeOK /\ Linked
    BY WithinBefore DEF Tables, InUse, TypeOK
  <2>2. ASSUME NEW f \in Name, NEW m \in {0, 1}, NEW n \in Node, OpenNew(f, m), Create(f, n)
        PROVE  name'[files[fd].node] = name[files[fd].node]
    <3>1. name[n] = NoName /\ name' = [name EXCEPT ![n] = f]
      BY <2>1, <2>2, CreateFirst
    <3> QED BY <2>1, <3>1 DEF TypeOK
  <2>3. ASSUME NEW k \in 1..Len(list), Remove(k)
        PROVE  name' = name
    BY <2>3 DEF Remove
  <2> QED BY <2>1, <2>2, <2>3, InodeCases
<1> QED BY <1>1, ListInit, ListStep, PTL DEF Spec, KeepsInode
=============================================================================
