------------------------------- MODULE Fat32 -------------------------------
(***************************************************************************)
(* The FAT32 driver (src/src/fat32.c) over its disk.  The driver runs in   *)
(* the kernel with interrupts off, one call at a time, and the only other  *)
(* actor is the power switch: a call is a sequence of steps, at most one   *)
(* cluster written per step, and the machine may stop between any two.     *)
(*                                                                         *)
(* A cluster holds a directory table or a block of a file; cluster 1 holds *)
(* the FAT and the first block of cluster 0 the boot signature.  The FAT   *)
(* is an array of CLUSTER_MAP_SIZE words, but its scans have no bound: an  *)
(* index at or past CLUSTER_MAP_SIZE reads the words behind the array      *)
(* (dir_table_buf, then the rest of the kernel's data).  Such an index is  *)
(* a member of StrayClusters, such a word a member of StrayWords.  And a   *)
(* call takes whatever its parent's cluster holds for a directory: a       *)
(* file's block is then a member of BlockTables.  wild records that a call *)
(* which goes on from there has used a stray index or taken a file's block *)
(* for a directory.                                                        *)
(***************************************************************************)
EXTENDS Integers, Sequences

CONSTANTS
  CLUSTER_MAP_SIZE,  \* words of the FAT (512 in the code)
  CLUSTER_SIZE,      \* bytes of a cluster (2048 in the code)
  ENTRY_COUNT,       \* entries of a directory table (64 in the code)
  Names, Exts,       \* names and extensions callers use
  NoName, NoExt,     \* the name and the extension made of zero bytes
  RootName, Garbled, \* "ROOT"; a name a stray FAT word was written over
  NamePrefix,        \* <<r, e>>: memcmp(r, e, strlen(e)) = 0
  Payloads,          \* contents of files
  RequestSizes,      \* values of buffer_size in write requests
  BufferSizes,       \* values of buffer_size in read requests
  MaxFileSize,       \* bound: largest value of a filesize field
  StrayClusters, StrayWords,
  BlockTables,       \* what files' blocks are, read as directories
  NoTable, NoBlock,  \* a cluster that holds no table, no block of a file
  NoRequest, Nobody,
  MaxCrashes,        \* bound: how often the machine stops
  CrashDuringFormat  \* whether it may stop while the disk is formatted

CLUSTER_0_VALUE == 268435440
FAT32_FAT_END_OF_FILE == 268435455
FAT32_FAT_EMPTY_ENTRY == 0
ROOT_CLUSTER_NUMBER == 2

Cluster == 0 .. CLUSTER_MAP_SIZE - 1
DiskCluster == Cluster \cup StrayClusters
Slot == 0 .. ENTRY_COUNT - 1

UINT16_MAX == 65535
Uint16 == 0 .. UINT16_MAX
FIRST_RESERVED == 65520  \* CLUSTER_0_VALUE in a uint16_t; no cluster has this number

ASSUME SizeAssumption ==
  /\ CLUSTER_MAP_SIZE \in Nat /\ CLUSTER_MAP_SIZE > 3
  /\ CLUSTER_MAP_SIZE < FIRST_RESERVED
  /\ CLUSTER_SIZE \in Nat \ {0}
  /\ ENTRY_COUNT \in Nat \ {0}
  /\ MaxFileSize \in Nat
  /\ MaxCrashes \in Nat
  /\ CrashDuringFormat \in BOOLEAN
  /\ RequestSizes \subseteq Nat
  /\ BufferSizes \subseteq Nat

ASSUME StrayAssumption ==
  /\ \A c \in StrayClusters : c \in Nat /\ c >= CLUSTER_MAP_SIZE /\ c < FIRST_RESERVED
  /\ StrayWords \subseteq Nat

ASSUME NameAssumption ==
  /\ NoName \notin Names /\ RootName \notin Names /\ Garbled \notin Names
  /\ \A n \in Names : <<n, n>> \in NamePrefix

VARIABLES
  \* the disk
  signature,      \* fs_signature is in the boot sector
  diskFat,        \* cluster 1
  tables, blocks, \* what the other clusters hold, seen as table or as block
  \* fat32_driver_state
  fat_table, dir_table_buf,
  \* the call in progress: its locals and where it is
  pc, request, cluster, slot, i, to_zeros,
  buf,            \* the caller's buffer, as filled by read
  reply,          \* the last value returned, and the entry it is about
  \* bookkeeping of the model
  wild, owner, crashes

disk == <<signature, diskFat, tables, blocks>>
locals == <<request, cluster, slot, i, to_zeros>>
vars == <<disk, fat_table, dir_table_buf, pc, locals, buf, reply,
          wild, owner, crashes>>

-----------------------------------------------------------------------------
(* Data *)

Word == Cluster \cup StrayClusters \cup StrayWords
          \cup {CLUSTER_0_VALUE, FAT32_FAT_END_OF_FILE}
Entry == [name : Names \cup {NoName, RootName, Garbled},
          ext : Exts \cup {NoExt},
          attribute : BOOLEAN,     \* ATTR_SUBDIRECTORY
          used : BOOLEAN,          \* user_attribute = UATTR_NOT_EMPTY
          cluster : DiskCluster,   \* cluster_low; cluster_high stays 0
          filesize : Nat]
Table == [Slot -> Entry]
Block == [data : Payloads, part : Nat, of : Nat]
Place == DiskCluster \X (Slot \cup {ENTRY_COUNT})
Request == [name : Names, ext : Exts \cup {NoExt}, parent : DiskCluster,
            size : Nat, data : Payloads \cup {NoBlock}]

ASSUME BlockAssumption == BlockTables \subseteq Table

ASSUME SentinelAssumption ==
  /\ NoTable \notin Table /\ NoBlock \notin Block
  /\ NoRequest \notin Request /\ Nobody \notin Place

EmptyEntry == [name |-> NoName, ext |-> NoExt, attribute |-> FALSE,
               used |-> FALSE, cluster |-> 0, filesize |-> 0]

(* divceil *)
DivCeil(a, b) == IF a % b = 0 THEN a \div b ELSE a \div b + 1

(* init_directory_table: entry 0 describes the directory itself. *)
SelfEntry(name, c) == [EmptyEntry EXCEPT !.name = name, !.cluster = c,
                                         !.attribute = TRUE, !.used = TRUE]
NewTable(name, c) == [s \in Slot |-> IF s = 0 THEN SelfEntry(name, c) ELSE EmptyEntry]

(* Mutant: a word kept whole. *)
Trunc32(w) == w

(* A word of the FAT kept in a uint16_t, and the test read ends on. *)
Trunc16(w) == w % 65536
EndOfChain(w) == w >= 65528

(* cluster_map[c]: past the end of the array, any stray word. *)
WordsAt(f, c) == IF c \in Cluster THEN {f[c]} ELSE StrayWords
SetWord(f, c, w) == [d \in Cluster |-> IF d = c THEN w ELSE f[d]]

(* cluster_map[c] = ... past the end lands in the loaded table: in fields   *)
(* nothing reads, or in the name of its first entry.                        *)
TablesAfter(t, c) ==
  IF c \in Cluster THEN {t} ELSE {t, [t EXCEPT ![0] = [@ EXCEPT !.name = Garbled]]}

(* table[s] = e; entry ENTRY_COUNT is the start of cluster_buf, which       *)
(* nothing reads.                                                           *)
PutEntry(t, s, e) == [x \in Slot |-> IF x = s THEN e ELSE t[x]]

(* Mutant: the last cluster of a chain taken for a free one. *)
FoundFreeOrLast(f, from, c) ==
  /\ c \in Cluster /\ c >= from /\ f[c] \in {FAT32_FAT_EMPTY_ENTRY, FAT32_FAT_END_OF_FILE}
  /\ \A d \in Cluster :
       d >= from /\ d < c => f[d] \notin {FAT32_FAT_EMPTY_ENTRY, FAT32_FAT_END_OF_FILE}

(* c is what "while (cluster_map[c] != 0) c++" started at from ends with.   *)
FoundFree(f, from, c) ==
  \/ /\ c \in Cluster /\ c >= from /\ f[c] = FAT32_FAT_EMPTY_ENTRY
     /\ \A d \in Cluster : d >= from /\ d < c => f[d] # FAT32_FAT_EMPTY_ENTRY
  \/ /\ c \in StrayClusters
     /\ \A d \in Cluster : d >= from => f[d] # FAT32_FAT_EMPTY_ENTRY

(* s is the first entry of t that is not in use, or ENTRY_COUNT. *)
FoundSlot(t, s) == /\ s \in Slot \cup {ENTRY_COUNT}
                   /\ s \in Slot => ~t[s].used
                   /\ \A x \in Slot : x < s => t[x].used

(* s is the first entry that satisfies Q, told by the set of those that do. *)
IsFirst(s, S) == s \in S /\ \A x \in S : s <= x

SameFile(t, r) == {s \in Slot : t[s].name = r.name /\ t[s].ext = r.ext}
SameFolder(t, r) == {s \in Slot : t[s].used /\ t[s].name = r.name}
Victims(t, r) == {s \in Slot \ {0} : /\ t[s].used
                                     /\ <<r.name, t[s].name>> \in NamePrefix
                                     /\ t[s].attribute \/ t[s].ext = r.ext}

(* The tables a directory's cluster may be read as: its own, or, when a     *)
(* stray write replaced it by a file's block, one with or without entries.  *)
HasTable(c) == c \in DiskCluster /\ tables[c] # NoTable
SeesChild(c) == HasTable(c) => \E s \in Slot \ {0} : tables[c][s].used
(* Mutant: the folder is not looked into. *)
SeesAnything(c) == TRUE

SeesNoChild(c) == HasTable(c) => \A s \in Slot \ {0} : ~tables[c][s].used

(* The clusters a caller passes as parent: the root, and the cluster of any *)
(* directory entry there is to be read, in use or deleted.  A deleted       *)
(* folder may have left its cluster to a file.                              *)
CallerClusters ==
  {ROOT_CLUSTER_NUMBER} \cup
  {c \in DiskCluster : \E d \in DiskCluster :
     /\ tables[d] # NoTable
     /\ \E s \in Slot : tables[d][s].attribute /\ tables[d][s].cluster = c}

(* What a call takes for the directory in cluster c.                        *)
TakenFor(c) == IF tables[c] # NoTable THEN {tables[c]} ELSE BlockTables

(* Entry s of the table in cluster c names a file or a folder that is in    *)
(* that directory; entry 0 names the directory itself.                      *)
Live(c, s) == /\ tables[c] # NoTable
              /\ tables[c][s].used
              /\ ~(s = 0 /\ tables[c][0].attribute /\ tables[c][0].cluster = c)

-----------------------------------------------------------------------------
(* The end and the beginning of a call *)

NoReply == [op |-> "none", code |-> 0, place |-> Nobody]

(* The locals die with the call; so does the loaded table, which every      *)
(* operation reloads before it looks at it.                                 *)
Return(op, code, place) ==
  /\ pc' = "return"
  /\ reply' = [op |-> op, code |-> code, place |-> place]
  /\ request' = NoRequest /\ dir_table_buf' = NoTable
  /\ cluster' = 0 /\ slot' = 0 /\ i' = 0 /\ to_zeros' = {}

(* syscall stores the code for the caller and goes back to it. *)
SyscallReturn ==
  /\ pc = "return"
  /\ pc' = "idle" /\ reply' = NoReply /\ buf' = <<>>
  /\ UNCHANGED <<disk, fat_table, dir_table_buf, locals, wild, owner, crashes>>

Enter(step, r, t, s, c) ==
  /\ pc' = step
  /\ UNCHANGED <<reply, buf>>
  /\ request' = r /\ dir_table_buf' = t
  /\ slot' = s /\ cluster' = c /\ i' = 0 /\ to_zeros' = {}

WriteTable(c, t) == /\ tables' = [tables EXCEPT ![c] = t]
                    /\ blocks' = [blocks EXCEPT ![c] = NoBlock]
                    /\ signature' = (signature /\ c # 0)
WriteBlock(c, b) == /\ tables' = [tables EXCEPT ![c] = NoTable]
                    /\ blocks' = [blocks EXCEPT ![c] = b]
                    /\ signature' = (signature /\ c # 0)

MyPlace == <<request.parent, slot>>
Disown(p) == [c \in Cluster |-> IF owner[c] = p THEN Nobody ELSE owner[c]]
Own(c, p) == [d \in Cluster |-> IF d = c THEN p ELSE owner[d]]

-----------------------------------------------------------------------------
(* initialize_filesystem_fat32 and create_fat32 *)

(* Mutant: the FAT is not read. *)
MountUnread ==
  /\ pc = "off" /\ signature /\ pc' = "idle"
  /\ UNCHANGED <<disk, fat_table, dir_table_buf, locals, buf, reply, wild, owner, crashes>>

(* The signature is there: the FAT is read into memory. *)
Mount ==
  /\ pc = "off" /\ signature
  /\ fat_table' = diskFat /\ pc' = "idle"
  /\ UNCHANGED <<disk, dir_table_buf, locals, buf, reply, wild, owner, crashes>>

(* It is not: the signature is written first ... *)
FormatBoot ==
  /\ pc = "off" /\ ~signature
  /\ signature' = TRUE /\ pc' = "format_fat"
  /\ UNCHANGED <<diskFat, tables, blocks, fat_table, dir_table_buf, locals,
                 buf, reply, wild, owner, crashes>>

(* ... then the FAT, of which memory holds zeros but for three words ... *)
FormatFat ==
  /\ pc = "format_fat"
  /\ fat_table' = [fat_table EXCEPT ![0] = CLUSTER_0_VALUE,
                                    ![1] = FAT32_FAT_END_OF_FILE,
                                    ![2] = FAT32_FAT_END_OF_FILE]
  /\ diskFat' = fat_table'
  /\ owner' = [c \in Cluster |-> Nobody]
  /\ pc' = "format_root"
  /\ UNCHANGED <<signature, tables, blocks, dir_table_buf, locals,
                 buf, reply, wild, crashes>>

(* ... then the table of the root directory. *)
FormatRoot ==
  /\ pc = "format_root"
  /\ WriteTable(ROOT_CLUSTER_NUMBER, NewTable(RootName, ROOT_CLUSTER_NUMBER))
  /\ pc' = "idle"
  /\ UNCHANGED <<diskFat, fat_table, dir_table_buf, locals, buf, reply,
                 wild, owner, crashes>>

(* The machine stops: memory is lost, the clusters written so far are not.  *)
(* What a write allocated and a delete was about to free belongs to nobody. *)
Crash ==
  /\ pc # "off" /\ crashes < MaxCrashes
  /\ pc \in {"format_fat", "format_root"} => CrashDuringFormat
  /\ crashes' = crashes + 1
  /\ pc' = "off" /\ fat_table' = [c \in Cluster |-> 0] /\ dir_table_buf' = NoTable
  /\ request' = NoRequest /\ cluster' = 0 /\ slot' = 0 /\ i' = 0 /\ to_zeros' = {}
  /\ buf' = <<>> /\ reply' = NoReply
  /\ owner' = IF request = NoRequest \/ pc = "read" THEN owner ELSE Disown(MyPlace)
  /\ UNCHANGED <<disk, wild>>

-----------------------------------------------------------------------------
(* read *)

(* The entry is looked for among all 64, in use or not. *)
ReadRefused(r, t) ==
  /\ pc = "idle"
  /\ \/ SameFile(t, r) = {} /\ Return("read", 2, Nobody)
     \/ \E s \in Slot :
          /\ IsFirst(s, SameFile(t, r))
          /\ \/ t[s].attribute /\ Return("read", 1, <<r.parent, s>>)
             \/ /\ ~t[s].attribute /\ r.size < t[s].filesize
                /\ Return("read", -1, <<r.parent, s>>)
  /\ UNCHANGED <<disk, fat_table, buf, wild, owner, crashes>>

ReadFile(r, t) ==
  /\ pc = "idle"
  /\ \E s \in Slot : /\ IsFirst(s, SameFile(t, r))
                     /\ ~t[s].attribute /\ r.size >= t[s].filesize
                     /\ Enter("read", r, t, s, t[s].cluster)
  /\ wild' = (wild \/ t # tables[r.parent])
  /\ UNCHANGED <<disk, fat_table, owner, crashes>>

(* Mutant: the last, partly filled cluster is left out. *)
MoreWholeToRead == /\ i < dir_table_buf[slot].filesize \div CLUSTER_SIZE
                   /\ ~EndOfChain(cluster)

MoreToRead == /\ i < DivCeil(dir_table_buf[slot].filesize, CLUSTER_SIZE)
              /\ ~EndOfChain(cluster)

(* One turn of the loop over the chain; a cluster past the disk reads as no *)
(* block of a file.                                                         *)
ReadBlock ==
  /\ pc = "read" /\ MoreToRead
  /\ buf' = Append(buf, IF cluster \in DiskCluster THEN blocks[cluster] ELSE NoBlock)
  /\ \E w \in WordsAt(fat_table, cluster) : cluster' = Trunc16(w)
  /\ i' = i + 1
  /\ UNCHANGED <<disk, fat_table, dir_table_buf, pc, request, slot, to_zeros,
                 reply, wild, owner, crashes>>

ReadReturn ==
  /\ pc = "read" /\ ~MoreToRead
  /\ Return("read", 0, MyPlace)
  /\ UNCHANGED <<disk, fat_table, buf, wild, owner, crashes>>

(* read_directory.  On success the caller's buffer holds the table of the   *)
(* cluster the entry names; reply.place is that entry.                      *)
ReadDirectory(r, t) ==
  /\ pc = "idle"
  /\ \/ 0 \in WordsAt(fat_table, r.parent) /\ Return("read_directory", 2, Nobody)
     \/ /\ \E w \in WordsAt(fat_table, r.parent) : w # FAT32_FAT_EMPTY_ENTRY
        /\ \/ SameFolder(t, r) = {} /\ Return("read_directory", 2, Nobody)
           \/ \E s \in Slot :
                /\ IsFirst(s, SameFolder(t, r))
                /\ Return("read_directory", IF t[s].attribute THEN 0 ELSE 1, <<r.parent, s>>)
  /\ UNCHANGED <<disk, fat_table, buf, wild, owner, crashes>>

-----------------------------------------------------------------------------
(* write *)

(* The caller's parent has no word in the FAT. *)
WriteBadParent(r) ==
  /\ pc = "idle"
  /\ 0 \in WordsAt(diskFat, r.parent)
  /\ fat_table' = diskFat
  /\ Return("write", 2, Nobody)
  /\ UNCHANGED <<disk, buf, wild, owner, crashes>>

(* Mutant: any parent will do. *)
AnyParent(r) == TRUE

GoodParent(r) == \E w \in WordsAt(diskFat, r.parent) : w # FAT32_FAT_EMPTY_ENTRY

(* Mutant: the scan stops before the last entry. *)
NameTakenBeforeLast(t, r) == r.size # 0 /\ SameFile(t, r) \ {ENTRY_COUNT - 1} # {}

(* A file of that name and extension: any entry counts, in use or not, and  *)
(* only when a file is written (fat32.h:222: "1 file/folder already exist"; *)
(* a folder is made though one of that name is there).                      *)
NameTaken(t, r) == r.size # 0 /\ SameFile(t, r) # {}

WriteDuplicate(r, t) ==
  /\ pc = "idle" /\ GoodParent(r)
  /\ NameTaken(t, r)
  /\ fat_table' = diskFat
  /\ \E s \in Slot : /\ IsFirst(s, SameFile(t, r))
                     /\ Return("write", 1, <<r.parent, s>>)
  /\ UNCHANGED <<disk, buf, wild, owner, crashes>>

(* A folder: its word in the FAT first ... *)
MkdirFat(r, t) ==
  /\ pc = "idle" /\ GoodParent(r) /\ r.size = 0
  /\ \E c \in DiskCluster, s \in Slot \cup {ENTRY_COUNT} :
       /\ FoundFree(diskFat, 0, c) /\ FoundSlot(t, s)
       /\ fat_table' = SetWord(diskFat, c, FAT32_FAT_END_OF_FILE)
       /\ \E u \in TablesAfter(t, c) : Enter("mkdir_table", r, u, s, c)
       /\ owner' = Own(c, <<r.parent, s>>)
       /\ wild' = (wild \/ c \notin Cluster \/ s = ENTRY_COUNT \/ t # tables[r.parent])
  /\ diskFat' = fat_table'
  /\ UNCHANGED <<signature, tables, blocks, crashes>>

(* ... then its own table ... *)
MkdirTable ==
  /\ pc = "mkdir_table"
  /\ WriteTable(cluster, NewTable(request.name, cluster))
  /\ pc' = "mkdir_entry"
  /\ UNCHANGED <<diskFat, fat_table, dir_table_buf, locals, buf, reply,
                 wild, owner, crashes>>

(* ... then its entry in the parent's. *)
MkdirEntry ==
  /\ pc = "mkdir_entry"
  /\ WriteTable(request.parent,
                PutEntry(dir_table_buf, slot, SelfEntry(request.name, cluster)))
  /\ Return("write", 0, MyPlace)
  /\ UNCHANGED <<diskFat, fat_table, buf, wild, owner, crashes>>

(* A file: the entry is filled in memory.  Its filesize field is not reset; *)
(* MaxFileSize bounds what it may grow to.                                  *)
StartWriteFile(r, t) ==
  /\ pc = "idle" /\ GoodParent(r)
  /\ r.size # 0 /\ ~NameTaken(t, r)
  /\ fat_table' = diskFat
  /\ \E c \in DiskCluster, s \in Slot \cup {ENTRY_COUNT} :
       /\ FoundFree(diskFat, 0, c) /\ FoundSlot(t, s)
       /\ r.size + (IF s \in Slot THEN t[s].filesize ELSE 0) <= MaxFileSize
       /\ Enter("file_data", r,
                PutEntry(t, s, [name |-> r.name, ext |-> r.ext, attribute |-> FALSE,
                                used |-> TRUE, cluster |-> c,
                                filesize |-> t[s].filesize]), s, c)
       /\ wild' = (wild \/ c \notin Cluster \/ s = ENTRY_COUNT \/ t # tables[r.parent])
  /\ UNCHANGED <<disk, owner, crashes>>

TotalCluster == DivCeil(request.size, CLUSTER_SIZE)

(* One turn of the loop: the first free cluster takes the block, the next   *)
(* free one is what it will be linked to unless it is the last.             *)
FileData ==
  /\ pc = "file_data"
  /\ LET last == i = TotalCluster - 1
         grow == IF last THEN request.size - CLUSTER_SIZE * i ELSE CLUSTER_SIZE
         grown == [s \in Slot |-> IF s = slot
                                  THEN [dir_table_buf[s] EXCEPT !.filesize = @ + grow]
                                  ELSE dir_table_buf[s]]
     IN \E c \in DiskCluster, n \in DiskCluster \cup {FAT32_FAT_END_OF_FILE} :
          /\ FoundFree(fat_table, 0, c)
          /\ IF last THEN n = FAT32_FAT_END_OF_FILE ELSE FoundFree(fat_table, c + 1, n)
          /\ fat_table' = SetWord(fat_table, c, n)
          /\ dir_table_buf' \in TablesAfter(grown, c)
          /\ WriteBlock(c, [data |-> request.data, part |-> i, of |-> TotalCluster])
          /\ cluster' = c
          /\ owner' = Own(c, MyPlace)
          /\ wild' = (wild \/ c \notin Cluster)
  /\ pc' = "file_fat"
  /\ UNCHANGED <<diskFat, request, slot, i, to_zeros, buf, reply, crashes>>

(* Mutant: the FAT is not written. *)
FileFatUnwritten ==
  /\ pc = "file_fat"
  /\ i' = i + 1
  /\ pc' = IF i + 1 < TotalCluster THEN "file_data" ELSE "file_entry"
  /\ UNCHANGED <<disk, fat_table, dir_table_buf, request, cluster, slot, to_zeros,
                 buf, reply, wild, owner, crashes>>

FileFat ==
  /\ pc = "file_fat"
  /\ diskFat' = fat_table
  /\ i' = i + 1
  /\ pc' = IF i + 1 < TotalCluster THEN "file_data" ELSE "file_entry"
  /\ UNCHANGED <<signature, tables, blocks, fat_table, dir_table_buf, request,
                 cluster, slot, to_zeros, buf, reply, wild, owner, crashes>>

(* The entry reaches the disk last. *)
FileEntry ==
  /\ pc = "file_entry"
  /\ WriteTable(request.parent, dir_table_buf)
  /\ Return("write", 0, MyPlace)
  /\ UNCHANGED <<diskFat, fat_table, buf, wild, owner, crashes>>

-----------------------------------------------------------------------------
(* delete *)

(* Mutant: the entry is not marked. *)
StillUsed(t, s) == t

Unused(t, s) == [t EXCEPT ![s] = [@ EXCEPT !.used = FALSE]]

(* Nothing of that name, or a folder with something in it. *)
DeleteRefused(r, t) ==
  /\ pc = "idle"
  /\ \/ Victims(t, r) = {} /\ Return("delete", 1, Nobody)
     \/ \E s \in Slot : /\ IsFirst(s, Victims(t, r))
                        /\ t[s].attribute /\ SeesChild(t[s].cluster)
                        /\ Return("delete", 2, <<r.parent, s>>)
  /\ UNCHANGED <<disk, fat_table, buf, wild, owner, crashes>>

(* An empty folder: its word is zeroed in memory, its entry on the disk ... *)
DeleteDir(r, t) ==
  /\ pc = "idle"
  /\ \E s \in Slot :
       /\ IsFirst(s, Victims(t, r))
       /\ t[s].attribute /\ SeesNoChild(t[s].cluster)
       /\ fat_table' = SetWord(fat_table, t[s].cluster, FAT32_FAT_EMPTY_ENTRY)
       /\ \E u \in TablesAfter(Unused(t, s), t[s].cluster) :
            /\ WriteTable(r.parent, u)
            /\ Enter("dir_fat", r, u, s, t[s].cluster)
       /\ wild' = (wild \/ t[s].cluster \notin Cluster \/ t # tables[r.parent])
       /\ owner' = Disown(<<r.parent, s>>)
  /\ UNCHANGED <<diskFat, crashes>>

(* ... then the FAT is written. *)
DeleteDirFat ==
  /\ pc = "dir_fat"
  /\ diskFat' = fat_table
  /\ Return("delete", 0, MyPlace)
  /\ UNCHANGED <<signature, tables, blocks, fat_table, buf, wild, owner, crashes>>

(* A file: its entry first ... *)
DeleteFile(r, t) ==
  /\ pc = "idle"
  /\ \E s \in Slot :
       /\ IsFirst(s, Victims(t, r)) /\ ~t[s].attribute
       /\ WriteTable(r.parent, Unused(t, s))
       /\ Enter("walk", r, Unused(t, s), s, t[s].cluster)
  /\ wild' = (wild \/ t # tables[r.parent])
  /\ UNCHANGED <<diskFat, fat_table, owner, crashes>>

(* Mutant: the last, partly filled cluster is left out. *)
MoreWholeToWalk == i < dir_table_buf[slot].filesize \div CLUSTER_SIZE

MoreToWalk == i < DivCeil(dir_table_buf[slot].filesize, CLUSTER_SIZE)

(* Mutant: the loop does not count. *)
DeleteWalkUncounted ==
  /\ pc = "walk" /\ MoreToWalk
  /\ to_zeros' = to_zeros \cup {cluster}
  /\ \E w \in WordsAt(fat_table, cluster) : cluster' = Trunc16(w)
  /\ wild' = (wild \/ cluster \notin Cluster)
  /\ UNCHANGED <<disk, fat_table, dir_table_buf, pc, request, slot, i, buf, reply,
                 owner, crashes>>

(* ... then as many clusters as the filesize says are collected: the chain  *)
(* may be shorter, and its end is not looked at.                            *)
DeleteWalk ==
  /\ pc = "walk" /\ MoreToWalk
  /\ to_zeros' = to_zeros \cup {cluster}
  /\ \E w \in WordsAt(fat_table, cluster) : cluster' = Trunc16(w)
  /\ wild' = (wild \/ cluster \notin Cluster)
  /\ i' = i + 1
  /\ UNCHANGED <<disk, fat_table, dir_table_buf, pc, request, slot, buf, reply,
                 owner, crashes>>

(* ... and zeroed, and the FAT is written. *)
DeleteFree ==
  /\ pc = "walk" /\ ~MoreToWalk
  /\ fat_table' = [c \in Cluster |-> IF c \in to_zeros THEN FAT32_FAT_EMPTY_ENTRY
                                                       ELSE fat_table[c]]
  /\ diskFat' = fat_table'
  /\ owner' = Disown(MyPlace)
  /\ Return("delete", 0, MyPlace)
  /\ UNCHANGED <<signature, tables, blocks, buf, wild, crashes>>

-----------------------------------------------------------------------------
(* The driver, its callers and the machine *)

Init ==
  /\ signature = FALSE
  /\ diskFat = [c \in Cluster |-> 0]
  /\ tables = [c \in DiskCluster |-> [s \in Slot |-> EmptyEntry]]
  /\ blocks = [c \in DiskCluster |-> NoBlock]
  /\ fat_table = [c \in Cluster |-> 0] /\ dir_table_buf = NoTable
  /\ pc = "off"
  /\ request = NoRequest /\ cluster = 0 /\ slot = 0 /\ i = 0 /\ to_zeros = {}
  /\ buf = <<>> /\ reply = NoReply
  /\ wild = FALSE /\ owner = [c \in Cluster |-> Nobody] /\ crashes = 0

Boot == Mount \/ FormatBoot \/ FormatFat \/ FormatRoot

Step == \/ SyscallReturn
        \/ ReadBlock \/ ReadReturn
        \/ MkdirTable \/ MkdirEntry
        \/ FileData \/ FileFat \/ FileEntry
        \/ DeleteDirFat \/ DeleteWalk \/ DeleteFree

Requests(sizes, contents) ==
  [name : Names, ext : Exts \cup {NoExt}, parent : CallerClusters,
   size : sizes, data : contents]

(* A call on what its parent's cluster holds; a write that finds no word of *)
(* the parent in the FAT has not looked.                                    *)
Call ==
  \/ \E r \in Requests(RequestSizes, Payloads) :
       \/ WriteBadParent(r)
       \/ \E t \in TakenFor(r.parent) :
            WriteDuplicate(r, t) \/ MkdirFat(r, t) \/ StartWriteFile(r, t)
  \/ \E r \in Requests(BufferSizes, {NoBlock}) : \E t \in TakenFor(r.parent) :
       ReadRefused(r, t) \/ ReadFile(r, t)
  \/ \E r \in Requests({0}, {NoBlock}) : \E t \in TakenFor(r.parent) :
       ReadDirectory(r, t) \/ DeleteRefused(r, t) \/ DeleteDir(r, t) \/ DeleteFile(r, t)

Next == Boot \/ Step \/ Call \/ Crash

(* The driver runs with interrupts off on a machine that is on, so it takes *)
(* its next step; nothing makes a caller call or the machine stop.          *)
Spec == Init /\ [][Next]_vars
FairSpec == Spec /\ WF_vars(Boot \/ Step)
=============================================================================
