-------------------------- MODULE Fat32Properties --------------------------
(* What the FAT32 driver promises, as properties of Fat32. *)
EXTENDS Fat32

Steps == {"read", "mkdir_table", "mkdir_entry", "file_data", "file_fat",
          "file_entry", "dir_fat", "walk"}

(* The shape of every variable: a call in progress has a request, and the   *)
(* table it loaded.                                                         *)
TypeOK ==
  /\ signature \in BOOLEAN
  /\ diskFat \in [Cluster -> Word] /\ fat_table \in [Cluster -> Word]
  /\ tables \in [DiskCluster -> Table \cup {NoTable}]
  /\ blocks \in [DiskCluster -> Block \cup {NoBlock}]
  /\ pc \in {"off", "format_fat", "format_root", "idle", "return"} \cup Steps
  /\ pc \in Steps => request \in Request /\ dir_table_buf \in Table
  /\ pc \notin Steps => request = NoRequest /\ dir_table_buf = NoTable
  /\ cluster \in Uint16 /\ i \in Nat
  /\ pc \in {"mkdir_table", "mkdir_entry"} => cluster \in DiskCluster
  /\ pc \in {"file_data", "file_fat"} => request.data \in Payloads
  /\ slot \in Slot \cup {ENTRY_COUNT}
  /\ pc \in {"read", "walk", "dir_fat"} => slot \in Slot
  /\ to_zeros \subseteq Uint16
  /\ buf \in Seq(Block \cup {NoBlock})
  /\ reply \in [op : {"none", "read", "read_directory", "write", "delete"},
                code : -1 .. 2, place : Place \cup {Nobody}]
  /\ wild \in BOOLEAN
  /\ owner \in [Cluster -> Place \cup {Nobody}]
  /\ crashes \in 0 .. MaxCrashes

-----------------------------------------------------------------------------
(* Chains *)

(* The cluster j links after c on the disk. *)
Follow(c) ==
  LET f[j \in 0 .. CLUSTER_MAP_SIZE] ==
        IF j = 0 THEN c
        ELSE IF f[j - 1] \in Cluster THEN Trunc16(diskFat[f[j - 1]]) ELSE f[j - 1]
  IN f

Chain(c) == LET f == Follow(c) IN {f[j] : j \in 0 .. CLUSTER_MAP_SIZE} \cap Cluster

(* From c on, the chain holds one payload from its first part to its last. *)
Whole(c) ==
  /\ c \in Cluster /\ blocks[c] # NoBlock /\ blocks[c].of <= CLUSTER_MAP_SIZE
  /\ LET f == Follow(c) IN
     /\ \A j \in 0 .. blocks[c].of - 1 :
          f[j] \in Cluster /\ blocks[f[j]] = [blocks[c] EXCEPT !.part = j]
     /\ EndOfChain(f[blocks[c].of])

LivePlaces == {p \in DiskCluster \X Slot : Live(p[1], p[2])}
EntryAt(p) == tables[p[1]][p[2]]

-----------------------------------------------------------------------------
(* Safety *)

(* Except between the step that changes it in memory and the one that       *)
(* writes it, the FAT in memory is the one on the disk: read and delete     *)
(* follow the former, write reloads the latter.                             *)
FatCoherent == pc \notin {"off", "format_fat", "file_fat", "dir_fat"} => fat_table = diskFat

(* Whatever step the machine stops at, a file or folder some table names    *)
(* has its first cluster allocated on the disk: the FAT is written before   *)
(* an entry appears and after it is gone.                                   *)
LiveEntriesAllocated ==
  ~wild => \A p \in LivePlaces : /\ EntryAt(p).cluster \in Cluster
                                 /\ diskFat[EntryAt(p).cluster] # FAT32_FAT_EMPTY_ENTRY

(* Every file that is there is whole on the disk, and no cluster belongs to *)
(* two files or folders, whatever was deleted, reused or interrupted.       *)
ChainsIntact ==
  ~wild => LET chain == [p \in LivePlaces |-> Chain(EntryAt(p).cluster)] IN
           /\ \A p \in LivePlaces : EntryAt(p).attribute \/ Whole(EntryAt(p).cluster)
           /\ \A p, q \in LivePlaces : p # q => chain[p] \cap chain[q] = {}

(* Every folder that is there leads to a table whose first entry names that *)
(* folder and that cluster.                                                 *)
FoldersNameThemselves ==
  ~wild => \A p \in LivePlaces :
             LET e == EntryAt(p)
             IN e.attribute => /\ tables[e.cluster] # NoTable
                               /\ tables[e.cluster][0] = SelfEntry(e.name, e.cluster)

(* read, which does not look at user_attribute, finds every file with an    *)
(* extension: no other entry of its directory, not even a deleted one,      *)
(* comes before it under the same name.                                     *)
LookupFindsFile ==
  ~wild => \A p \in LivePlaces :
             LET e == EntryAt(p)
             IN ~e.attribute /\ e.ext # NoExt => IsFirst(p[2], SameFile(tables[p[1]], e))

(* read returns a file that is there with all its blocks, in order.         *)
ReadFaithful ==
  /\ pc = "return" /\ reply.op = "read" /\ reply.code = 0
  /\ ~wild /\ reply.place \in LivePlaces
  => LET b == blocks[EntryAt(reply.place).cluster]
     IN b # NoBlock /\ buf = [j \in 1 .. b.of |-> [b EXCEPT !.part = j - 1]]

(* As long as the machine has not stopped, an allocated cluster is in use:  *)
(* no sequence of calls loses space.                                        *)
NoLeak ==
  /\ pc \in {"idle", "return"} /\ crashes = 0 /\ ~wild
  => LET inUse == UNION {Chain(EntryAt(p).cluster) : p \in LivePlaces} IN
     \A c \in Cluster \ (0 .. ROOT_CLUSTER_NUMBER) :
       diskFat[c] # FAT32_FAT_EMPTY_ENTRY => c \in inUse

(* As long as the machine has not stopped, every file and folder is in a    *)
(* folder that is there, although callers keep the numbers of folders that  *)
(* were deleted and go on passing them: until one of those clusters is      *)
(* written as a directory again after a file has taken it.                  *)
NoOrphans ==
  /\ crashes = 0 /\ ~wild
  => \A p \in LivePlaces : \/ p[1] = ROOT_CLUSTER_NUMBER
                           \/ \E q \in LivePlaces : /\ EntryAt(q).attribute
                                                    /\ EntryAt(q).cluster = p[1]

-----------------------------------------------------------------------------
(* The store callers see *)

Object(p) ==
  LET e == EntryAt(p)
  IN [folder |-> e.attribute, name |-> e.name, ext |-> e.ext,
      content |-> IF e.attribute THEN e.cluster
                  ELSE IF Whole(e.cluster) THEN blocks[e.cluster] ELSE NoBlock]

(* Where nothing is, no object is: Nobody is none. *)
ASSUME ObjectAssumption ==
  Nobody \notin [folder : BOOLEAN, name : Names \cup {NoName, RootName, Garbled}, ext : Exts \cup {NoExt},
                content : DiskCluster \cup Block \cup {NoBlock}]

StoreView == LET live == LivePlaces IN
             [p \in DiskCluster \X Slot |-> IF p \in live THEN Object(p) ELSE Nobody]

Store == INSTANCE FileStore WITH Place <- DiskCluster \X Slot, Nothing <- Nobody,
                                 store <- StoreView, damaged <- wild

(* Files and folders appear and disappear whole, at the single write that   *)
(* puts their entry or takes it away; every other step, crash and reboot    *)
(* included, leaves the store as it was.                                    *)
ImplementsStore == Store!Spec

-----------------------------------------------------------------------------
(* Liveness *)

(* The driver never stays in a call, nor in an interrupted format: from     *)
(* every state it comes back to where it takes the next call.               *)
AlwaysReadyAgain == []<>(pc = "idle")

-----------------------------------------------------------------------------
(* What the header says and the code does not do *)

(* The words of clusters 0 and 1 are "reserved" (fat32.h:20): no call       *)
(* changes them.                                                            *)
ReservedWordsIntact ==
  pc = "idle" => /\ diskFat[0] = CLUSTER_0_VALUE
                 /\ diskFat[1] = FAT32_FAT_END_OF_FILE

(* "2 invalid parent cluster" (fat32.h:222): what write puts a file or a    *)
(* folder in is the root or a folder that is there.                         *)
ParentIsFolder ==
  pc = "return" /\ reply.op = "write" /\ reply.code = 0 =>
    \/ reply.place[1] = ROOT_CLUSTER_NUMBER
    \/ \E p \in LivePlaces : EntryAt(p).attribute /\ EntryAt(p).cluster = reply.place[1]

(* A disk that carries the signature is one create_fat32 has given a proper *)
(* FAT and an initialized root directory (fat32.h:163-165).                 *)
MountedIsFormatted ==
  pc = "idle" => /\ diskFat[0] = CLUSTER_0_VALUE
                 /\ diskFat[ROOT_CLUSTER_NUMBER] = FAT32_FAT_END_OF_FILE
                 /\ tables[ROOT_CLUSTER_NUMBER][0] = SelfEntry(RootName, ROOT_CLUSTER_NUMBER)
=============================================================================
