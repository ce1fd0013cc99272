-------------------------------- MODULE Tfs ---------------------------------
(***************************************************************************)
(* The file system CS3871/filesystem/tfs.c, a library of five calls on     *)
(* tables in memory: the list of inodes with its end and its size, the     *)
(* block bitmap and the descriptors.  The disk driver disk.o is external,  *)
(* and the contents of the sectors are left out.                           *)
(*                                                                         *)
(* The calls may come in any order and with any name or descriptor.  What  *)
(* ends the program is kept in status: the call that followed a null       *)
(* pointer, or "wild" when files was indexed past its end.                 *)
(*                                                                         *)
(* Memory: an inode that is freed is the next one malloc returns, with     *)
(* data as it was and the bytes of the name overwritten by the allocator,  *)
(* so that the new name, stored without its NUL, may be garbled.           *)
(***************************************************************************)
EXTENDS Naturals, Sequences, FiniteSets

CONSTANTS
  Name, Garbled,    \* file names, and one that no caller asks for
  NoName,           \* of an inode that was never allocated
  MaxInodes,        \* MAX_INODES, where the searches of the list end
  MaxFiles,         \* MAX_FILES, the descriptors
  Blocks,           \* sectors of the disk, TRACKS * SECTORS
  Sectors,          \* length of an inode's data, 20 in the program
  MaxNodes, MaxOpens  \* bounds on the inodes and on the opens of a run

ASSUME TfsAssumption ==
  /\ Garbled \notin Name /\ NoName \notin Name \union {Garbled}
  /\ {MaxInodes, MaxFiles, Blocks, Sectors, MaxNodes, MaxOpens} \subseteq Nat \ {0}

VARIABLES
  list,             \* the inodes from root on, in their order
  inode_list_size,
  detached,         \* end is an entry that root does not reach any more
  name, data,       \* of every inode; data holds the sectors that were set
  freed,            \* the inodes given back to malloc, the last one first
  bitmap,           \* the blocks marked as taken
  files, size,      \* the descriptors, and the number of opens
  status

inodes == <<list, inode_list_size, detached, name, data, freed>>
vars == <<inodes, bitmap, files, size, status>>

Node == 1..MaxNodes
Block == 0..Blocks-1
Fd == 0..MaxFiles-1

Running == status = "ok"
Least(n, m) == IF n < m THEN n ELSE m

(* How many entries a search looks at: i < MAX_INODES && i < inode_list_size *)
Bound == Least(MaxInodes, inode_list_size)

(* tfs_init: an empty list and MAX_FILES free descriptors. *)
Init ==
  /\ list = <<>> /\ inode_list_size = 0 /\ detached = FALSE
  /\ name = [n \in Node |-> NoName]
  /\ data = [n \in Node |-> {}]
  /\ freed = <<>>
  /\ bitmap = {}
  /\ files = [fd \in Fd |-> [node |-> 1, mode |-> 0, next_sec |-> 0, free |-> TRUE]]
  /\ size = 0
  /\ status = "ok"
-----------------------------------------------------------------------------
(***************************************************************************)
(* The inode list                                                          *)
(***************************************************************************)

(* Mutant of Hits: the last entry is not compared. *)
HitsShort(f) == { k \in 1..Least(Bound, Len(list)) - 1 : name[list[k]] = f }

(* inode_search compares the first Bound entries, and follows the null     *)
(* pointer at the end of a list that is shorter.                           *)
Hits(f) == { k \in 1..Least(Bound, Len(list)) : name[list[k]] = f }
Found(f, n) == \E k \in Hits(f) : n = list[k] /\ \A j \in Hits(f) : k <= j
Missing(f) == Hits(f) = {} /\ Len(list) >= Bound
SearchFails(f) == Hits(f) = {} /\ Len(list) < Bound

(* The memory inode_create gets for an inode. *)
Allocated(n) ==
  IF freed # <<>> THEN n = Head(freed)
  ELSE name[n] = NoName /\ \A m \in Node : name[m] = NoName => n <= m

(* inode_create: the entry goes to end, which root may not reach. *)
Create(f, n) ==
  /\ Allocated(n)
  /\ \E g \in {f} \union (IF freed = <<>> THEN {} ELSE {Garbled}) :
       name' = [name EXCEPT ![n] = g]
  /\ freed' = IF freed = <<>> THEN <<>> ELSE Tail(freed)
  /\ list' = IF detached THEN list ELSE Append(list, n)
  /\ inode_list_size' = inode_list_size + 1
  /\ UNCHANGED <<detached, data>>

(* Mutant of Remove: inode_list_size is kept up to date. *)
RemoveCounted(k) ==
  /\ list' = SubSeq(list, 1, k - 1) \o SubSeq(list, k + 1, Len(list))
  /\ freed' = <<list[k]>> \o freed
  /\ detached' = (detached \/ k = Len(list))
  /\ inode_list_size' = inode_list_size - 1
  /\ UNCHANGED <<name, data>>

(* The k-th entry is unlinked and its inode freed; end stays. *)
Remove(k) ==
  /\ list' = SubSeq(list, 1, k - 1) \o SubSeq(list, k + 1, Len(list))
  /\ freed' = <<list[k]>> \o freed
  /\ detached' = (detached \/ k = Len(list))
  /\ UNCHANGED <<inode_list_size, name, data>>
-----------------------------------------------------------------------------
(***************************************************************************)
(* The calls                                                               *)
(***************************************************************************)

(* Mutant of FindFd: the scan stops before the last descriptor given out. *)
FindFdShort(fd) ==
  LET unused == { g \in Fd : g + 1 < size /\ files[g].free }
  IN IF unused = {} THEN fd = (IF size = 0 THEN 0 ELSE size - 1)
     ELSE fd \in unused /\ \A g \in unused : fd <= g

(* find_fd: the first free descriptor below size.  When there is none the  *)
(* function returns no value; the register holds size, with gcc -O0 and    *)
(* with -O2 (for size 0, with -O0).                                        *)
FindFd(fd) ==
  LET unused == { g \in Fd : g < size /\ files[g].free }
  IN IF unused = {} THEN fd = size
     ELSE fd \in unused /\ \A g \in unused : fd <= g

(* Mutant of Describe: next_sec is left as the last user had it. *)
DescribeKept(n, m) ==
  \E fd \in 0..size :
    /\ FindFd(fd)
    /\ IF fd \in Fd
         THEN /\ files' = [files EXCEPT ![fd] = [node |-> n, mode |-> m,
                                                 next_sec |-> @.next_sec, free |-> FALSE]]
              /\ size' = size + 1
              /\ UNCHANGED status
         ELSE status' = "wild" /\ UNCHANGED <<files, size>>

(* The rest of open: the descriptor is filled in, in files or past it. *)
Describe(n, m) ==
  \E fd \in 0..size :
    /\ FindFd(fd)
    /\ IF fd \in Fd
         THEN /\ files' = [files EXCEPT ![fd] = [node |-> n, mode |-> m,
                                                 next_sec |-> 0, free |-> FALSE]]
              /\ size' = size + 1
              /\ UNCHANGED status
         ELSE status' = "wild" /\ UNCHANGED <<files, size>>

OpenOld(f, m) ==
  /\ Running /\ size < MaxOpens
  /\ \E n \in Node : Found(f, n) /\ Describe(n, m)
  /\ UNCHANGED <<inodes, bitmap>>

OpenNew(f, m) ==
  /\ Running /\ size < MaxOpens /\ inode_list_size < MaxNodes
  /\ Missing(f)
  /\ \E n \in Node : Create(f, n) /\ Describe(n, m)
  /\ UNCHANGED bitmap

OpenFails(f) ==
  /\ Running
  /\ SearchFails(f)
  /\ status' = "open"
  /\ UNCHANGED <<inodes, bitmap, files, size>>

Close(fd) ==
  /\ Running /\ ~files[fd].free
  /\ files' = [files EXCEPT ![fd].free = TRUE]
  /\ UNCHANGED <<inodes, bitmap, size, status>>

(* Mutant of Read: next_sec is not compared with the end of data. *)
ReadPast(fd) ==
  /\ Running
  /\ ~files[fd].free /\ files[fd].mode = 0
  /\ files' = [files EXCEPT ![fd].next_sec = @ + 1]
  /\ UNCHANGED <<inodes, bitmap, size, status>>

(* A sector is read, whether or not the inode has it; returns 512. *)
Read(fd) ==
  /\ Running
  /\ ~files[fd].free /\ files[fd].mode = 0 /\ files[fd].next_sec # Sectors
  /\ files' = [files EXCEPT ![fd].next_sec = @ + 1]
  /\ UNCHANGED <<inodes, bitmap, size, status>>

(* get_blocks(500) marks the first free block and returns a list whose     *)
(* head was never set, or null if its scan came to the end of the disk.    *)
Free == Block \ bitmap
Marked(b) == IF Free = {} THEN b = Blocks - 1
             ELSE b \in Free /\ \A c \in Free : b <= c

(* The list's head, not the block that was marked, becomes the sector      *)
(* next_sec of the inode and is written.  (Its memory is new and zero, so  *)
(* it is always sector 0 of track 0.)  A closed descriptor will do.        *)
Write(fd) ==
  /\ Running /\ files[fd].next_sec # Sectors /\ files[fd].mode # 0
  /\ \E b \in Block :
       /\ Marked(b) /\ bitmap' = bitmap \union {b}
       /\ IF b = Blocks - 1
            THEN status' = "write" /\ UNCHANGED data
            ELSE /\ data' = [data EXCEPT ![files[fd].node] = @ \union {files[fd].next_sec}]
                 /\ UNCHANGED status
  /\ UNCHANGED <<list, inode_list_size, detached, name, freed, files, size>>

(* ulink compares the entries from the second on, one more than Bound.     *)
Later(f) == { k \in 2..Least(Bound + 1, Len(list)) : name[list[k]] = f }

Ulink(f) ==
  /\ Running
  /\ \E k \in Later(f) : Remove(k) /\ \A j \in Later(f) : k <= j
  /\ UNCHANGED <<bitmap, files, size, status>>

(* A name that is not found: the search stops at MAX_INODES and the entry  *)
(* there is unlinked, or it follows the null pointer at the end.           *)
UlinkOther(f) ==
  /\ Running /\ Later(f) = {} /\ Len(list) > Bound
  /\ Remove(Bound + 1)
  /\ UNCHANGED <<bitmap, files, size, status>>

UlinkFails(f) ==
  /\ Running /\ Later(f) = {} /\ Len(list) <= Bound
  /\ status' = "ulink"
  /\ UNCHANGED <<inodes, bitmap, files, size>>

Next ==
  \/ \E f \in Name :
       \/ \E m \in {0, 1} : OpenOld(f, m) \/ OpenNew(f, m)
       \/ OpenFails(f) \/ Ulink(f) \/ UlinkOther(f) \/ UlinkFails(f)
  \/ \E fd \in Fd : Close(fd) \/ Read(fd) \/ Write(fd)

Spec == Init /\ [][Next]_vars
-----------------------------------------------------------------------------
TypeOK ==
  /\ list \in Seq(Node) /\ Len(list) <= inode_list_size
  /\ inode_list_size \in 0..MaxNodes
  /\ detached \in BOOLEAN
  /\ name \in [Node -> Name \union {Garbled, NoName}]
  /\ data \in [Node -> SUBSET (0..Sectors-1)]
  /\ freed \in Seq(Node)
  /\ bitmap \subseteq Block
  /\ files \in [Fd -> [node : Node, mode : {0, 1}, next_sec : 0..Sectors,
                        free : BOOLEAN]]
  /\ size \in 0..MaxOpens
  /\ status \in {"ok", "open", "ulink", "write", "wild"}

(* A descriptor that is in use is not given out again: size, which is      *)
(* never decreased, is past all of them, so that it may stand in for the   *)
(* result that find_fd does not return.                                    *)
FreshDescriptor ==
  [][ \A fd \in Fd : ~files[fd].free /\ ~files'[fd].free
        => files'[fd].node = files[fd].node /\ files'[fd].mode = files[fd].mode ]_vars

(* As long as no more inodes were created than a search looks at.          *)
Within == inode_list_size <= MaxInodes

(* No two files have the same name. *)
NamesUnique ==
  Within => \A j, k \in 1..Len(list) : name[list[j]] = name[list[k]] => j = k

(* Every inode is in the list or was unlinked: no create appends to an end *)
(* that root does not reach.  ulink leaves inode_list_size as it was, and  *)
(* after it no create gets as far as that.                                 *)
NothingLost ==
  Within => \A n \in Node :
    name[n] # NoName => (\E k \in 1..Len(list) : list[k] = n) # (\E k \in 1..Len(freed) : freed[k] = n)

(* The inode of an open descriptor is not made another file's, although    *)
(* ulink frees it under the descriptor.                                    *)
KeepsInode ==
  [][ Within' => \A fd \in Fd : ~files[fd].free => name'[files[fd].node] = name[files[fd].node] ]_vars

(* A file never has more than its first sector: only descriptors opened    *)
(* for writing write, and only those opened for reading advance.           *)
OnlyFirstSector == \A n \in Node : data[n] \subseteq {0}
=============================================================================
