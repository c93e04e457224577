---------------------------- MODULE Fat32Proofs ----------------------------
(***************************************************************************)
(* For every size of disk and directory, every sequence of calls and every *)
(* number of crashes: the types of Fat32, the coherence of the FAT in      *)
(* memory with the one on the disk, and LiveEntriesAllocated.              *)
(***************************************************************************)
EXTENDS Fat32Properties, TLAPS

-----------------------------------------------------------------------------
(* Types *)

(* What a call does, whichever it is, on a directory taken for t, and on    *)
(* its own.                                                                 *)
CallWith(r, t) == \/ WriteBadParent(r) \/ WriteDuplicate(r, t) \/ MkdirFat(r, t)
                  \/ StartWriteFile(r, t) /\ r.data \in Payloads
                  \/ ReadRefused(r, t) \/ ReadFile(r, t) \/ ReadDirectory(r, t)
                  \/ DeleteRefused(r, t) \/ DeleteDir(r, t) \/ DeleteFile(r, t)
CallOn(r) == CallWith(r, tables[r.parent])

(* One that only answers. *)
OnlyAnswers ==
  /\ pc = "idle"
  /\ \E op \in {"read", "read_directory", "write", "delete"}, code \in -1 .. 2,
        p \in Place \cup {Nobody} : Return(op, code, p) /\ (op = "read" => code # 0)
  /\ UNCHANGED <<disk, fat_table, buf, wild, owner, crashes>>

(* It is made with a well-formed request for a directory the caller knows,  *)
(* or for a file's block that was one.                                      *)
LEMMA CallRequest ==
  ASSUME Call
  PROVE  \E r \in Request : r.parent \in CallerClusters /\
           \/ WriteBadParent(r)
           \/ \E t \in TakenFor(r.parent) : CallWith(r, t)
<1>1. \A sizes \in SUBSET Nat, contents \in SUBSET (Payloads \cup {NoBlock}) :
        \A r \in Requests(sizes, contents) :
          r \in Request /\ r.parent \in CallerClusters /\ r.data \in contents
  <2>1. CallerClusters \subseteq DiskCluster
    BY SizeAssumption DEF CallerClusters, ROOT_CLUSTER_NUMBER, DiskCluster, Cluster
  <2> QED BY <2>1 DEF Requests, Request
<1>2. CASE \E r \in Requests(RequestSizes, Payloads) :
             \/ WriteBadParent(r)
             \/ \E t \in TakenFor(r.parent) :
                  WriteDuplicate(r, t) \/ MkdirFat(r, t) \/ StartWriteFile(r, t)
  BY <1>1, <1>2, SizeAssumption DEF CallWith
<1>3. CASE \E r \in Requests(BufferSizes, {NoBlock}) : \E t \in TakenFor(r.parent) :
             ReadRefused(r, t) \/ ReadFile(r, t)
  BY <1>1, <1>3, SizeAssumption DEF CallWith
<1>4. CASE \E r \in Requests({0}, {NoBlock}) : \E t \in TakenFor(r.parent) :
             ReadDirectory(r, t) \/ DeleteRefused(r, t) \/ DeleteDir(r, t) \/ DeleteFile(r, t)
  BY <1>1, <1>4 DEF CallWith
<1> QED BY <1>2, <1>3, <1>4 DEF Call

(* The constants of the code are numbers; their values matter to no other   *)
(* proof, and stay folded.                                                  *)
LEMMA Constants ==
  /\ UINT16_MAX \in Nat /\ FIRST_RESERVED \in Nat /\ FIRST_RESERVED <= UINT16_MAX
  /\ FAT32_FAT_END_OF_FILE \in Nat /\ CLUSTER_0_VALUE \in Nat
  /\ FAT32_FAT_END_OF_FILE > UINT16_MAX /\ CLUSTER_0_VALUE > UINT16_MAX
  /\ Trunc16(FAT32_FAT_END_OF_FILE) = UINT16_MAX
  /\ \A w \in Nat : /\ Trunc16(w) \in Nat /\ Trunc16(w) <= UINT16_MAX
                    /\ w <= UINT16_MAX => Trunc16(w) = w
  BY SMT DEF UINT16_MAX, FIRST_RESERVED, FAT32_FAT_END_OF_FILE, CLUSTER_0_VALUE, Trunc16

(* Every cluster of the disk fits a cluster variable. *)
LEMMA DiskClusterSmall == 0 \in Uint16 /\ \A c \in DiskCluster : c \in Uint16 /\ c \in Nat
<1>1. \A c \in DiskCluster : c \in Nat /\ c <= UINT16_MAX
  BY SizeAssumption, StrayAssumption, Constants DEF DiskCluster, Cluster
<1> QED BY <1>1, Constants DEF Uint16

(* A word of the FAT is a number, and fits a cluster variable once cut. *)
LEMMA WordCut ==
  ASSUME NEW f \in [Cluster -> Word], NEW c \in Nat, NEW w \in WordsAt(f, c)
  PROVE  w \in Nat /\ Trunc16(w) \in Uint16
<1>1. \A d \in Cluster \cup StrayClusters : d \in Nat
  BY DiskClusterSmall DEF DiskCluster
<1>2. Word \subseteq Nat
  BY <1>1, StrayAssumption, Constants DEF Word
<1>3. w \in Nat
  BY <1>2, StrayAssumption DEF WordsAt
<1> QED BY <1>3, Constants DEF Uint16

LEMMA SetWordType ==
  ASSUME NEW f \in [Cluster -> Word], NEW c, NEW w \in Word
  PROVE  SetWord(f, c, w) \in [Cluster -> Word]
  BY DEF SetWord

LEMMA TableTypes ==
  /\ EmptyEntry \in Entry
  /\ \A name \in Names \cup {RootName}, c \in DiskCluster :
       SelfEntry(name, c) \in Entry /\ NewTable(name, c) \in Table
  /\ \A t \in Table, e \in Entry : \A s : PutEntry(t, s, e) \in Table
  /\ \A t \in Table, s \in Slot : Unused(t, s) \in Table
  /\ \A t \in Table : \A c : TablesAfter(t, c) \subseteq Table
<1>1. EmptyEntry \in Entry
  BY SizeAssumption DEF EmptyEntry, Entry, DiskCluster, Cluster
<1>2. \A name \in Names \cup {RootName}, c \in DiskCluster :
       SelfEntry(name, c) \in Entry /\ NewTable(name, c) \in Table
  BY <1>1 DEF EmptyEntry, SelfEntry, NewTable, Entry, Table
<1>3. \A t \in Table, e \in Entry : \A s : PutEntry(t, s, e) \in Table
  BY DEF PutEntry, Table
<1>4. \A t \in Table, s \in Slot : Unused(t, s) \in Table
  BY DEF Unused, Table, Entry
<1>5. \A t \in Table : \A c : TablesAfter(t, c) \subseteq Table
  <2> SUFFICES ASSUME NEW t \in Table
               PROVE  [t EXCEPT ![0] = [@ EXCEPT !.name = Garbled]] \in Table
    BY DEF TablesAfter
  <2>1. [t[0] EXCEPT !.name = Garbled] \in Entry
    BY SizeAssumption DEF Table, Entry, Slot
  <2> QED BY <2>1 DEF Table
<1> QED BY <1>1, <1>2, <1>3, <1>4, <1>5

LEMMA TypeInit == Init => TypeOK
<1> SUFFICES ASSUME Init PROVE TypeOK
  OBVIOUS
<1>1. tables \in [DiskCluster -> Table \cup {NoTable}]
  BY TableTypes DEF Init, Table
<1>2. 0 \in Word /\ 0 \in Slot
  BY SizeAssumption DEF Word, Cluster, Slot
<1>3. /\ diskFat \in [Cluster -> Word] /\ fat_table \in [Cluster -> Word]
      /\ blocks \in [DiskCluster -> Block \cup {NoBlock}]
      /\ owner \in [Cluster -> Place \cup {Nobody}]
  BY <1>2 DEF Init
<1>4. NoReply \in [op : {"none", "read", "read_directory", "write", "delete"},
                   code : -1 .. 2, place : Place \cup {Nobody}]
  BY DEF NoReply
<1>5. /\ cluster \in Uint16 /\ i \in Nat /\ to_zeros \subseteq Uint16
      /\ slot \in Slot \cup {ENTRY_COUNT} /\ buf \in Seq(Block \cup {NoBlock})
      /\ crashes \in 0 .. MaxCrashes
  BY <1>2, SizeAssumption, DiskClusterSmall DEF Init
<1>6. /\ pc = "off" /\ pc \notin Steps /\ request = NoRequest /\ dir_table_buf = NoTable
      /\ signature \in BOOLEAN /\ wild \in BOOLEAN
  BY DEF Init, Steps
<1>7. reply = NoReply
  BY DEF Init
<1> QED BY <1>1, <1>3, <1>4, <1>5, <1>6, <1>7 DEF TypeOK

USE DEF vars, disk, locals

LEMMA TypeBoot == ASSUME TypeOK, Boot PROVE TypeOK'
<1>1. CASE Mount
  BY <1>1 DEF Mount, TypeOK, Steps
<1>2. CASE FormatBoot
  BY <1>2 DEF FormatBoot, TypeOK, Steps
<1>3. CASE FormatFat
  <2>1. fat_table' \in [Cluster -> Word]
    BY <1>3, SizeAssumption DEF FormatFat, TypeOK, Word, Cluster
  <2> QED BY <1>3, <2>1 DEF FormatFat, TypeOK, Steps
<1>4. CASE FormatRoot
  <2>1. tables' \in [DiskCluster -> Table \cup {NoTable}] /\ blocks' \in [DiskCluster -> Block \cup {NoBlock}]
    BY <1>4, TableTypes, SizeAssumption
       DEF FormatRoot, TypeOK, WriteTable, ROOT_CLUSTER_NUMBER, DiskCluster, Cluster
  <2> QED BY <1>4, <2>1 DEF FormatRoot, WriteTable, TypeOK, Steps
<1> QED BY <1>1, <1>2, <1>3, <1>4 DEF Boot

LEMMA TypeCrash == ASSUME TypeOK, Crash PROVE TypeOK'
<1>1. 0 \in Word /\ 0 \in Slot
  BY SizeAssumption DEF Word, Cluster, Slot
<1>2. owner' \in [Cluster -> Place \cup {Nobody}]
  BY DEF Crash, Disown, TypeOK
<1> QED BY <1>1, <1>2, SizeAssumption, DiskClusterSmall DEF Crash, TypeOK, Steps, NoReply

(* The end of a call. *)
LEMMA TypeReturn ==
  ASSUME TypeOK, NEW op \in {"read", "read_directory", "write", "delete"},
         NEW code \in -1 .. 2, NEW p \in Place \cup {Nobody}, Return(op, code, p),
         signature' \in BOOLEAN, diskFat' \in [Cluster -> Word], fat_table' \in [Cluster -> Word],
         tables' \in [DiskCluster -> Table \cup {NoTable}],
         blocks' \in [DiskCluster -> Block \cup {NoBlock}],
         owner' \in [Cluster -> Place \cup {Nobody}], UNCHANGED <<buf, wild, crashes>>
  PROVE  TypeOK'
  BY SizeAssumption, DiskClusterSmall DEF Return, TypeOK, Steps, Slot

(* The beginning of one. *)
LEMMA TypeEnter ==
  ASSUME TypeOK, NEW r \in Request, NEW t \in Table, NEW s \in Slot \cup {ENTRY_COUNT},
         NEW c \in DiskCluster, NEW step \in Steps, Enter(step, r, t, s, c),
         step \in {"read", "walk", "dir_fat"} => s \in Slot,
         step \in {"file_data", "file_fat"} => r.data \in Payloads,
         signature' \in BOOLEAN, diskFat' \in [Cluster -> Word], fat_table' \in [Cluster -> Word],
         tables' \in [DiskCluster -> Table \cup {NoTable}],
         blocks' \in [DiskCluster -> Block \cup {NoBlock}],
         owner' \in [Cluster -> Place \cup {Nobody}], wild' \in BOOLEAN, UNCHANGED crashes
  PROVE  TypeOK'
  BY DiskClusterSmall DEF Enter, TypeOK, Steps

LEMMA TypeWrites ==
  ASSUME TypeOK, NEW c \in DiskCluster
  PROVE  /\ \A t \in Table : WriteTable(c, t) =>
              /\ signature' \in BOOLEAN
              /\ tables' \in [DiskCluster -> Table \cup {NoTable}]
              /\ blocks' \in [DiskCluster -> Block \cup {NoBlock}]
         /\ \A b \in Block : WriteBlock(c, b) =>
              /\ signature' \in BOOLEAN
              /\ tables' \in [DiskCluster -> Table \cup {NoTable}]
              /\ blocks' \in [DiskCluster -> Block \cup {NoBlock}]
         /\ \A p \in Place : Own(c, p) \in [Cluster -> Place \cup {Nobody}]
         /\ \A p : Disown(p) \in [Cluster -> Place \cup {Nobody}]
<1>1. /\ signature \in BOOLEAN
      /\ tables \in [DiskCluster -> Table \cup {NoTable}]
      /\ blocks \in [DiskCluster -> Block \cup {NoBlock}]
      /\ owner \in [Cluster -> Place \cup {Nobody}]
  BY DEF TypeOK
<1> QED BY <1>1 DEF WriteTable, WriteBlock, Own, Disown

LEMMA ParentTable ==
  ASSUME TypeOK, NEW r \in Request, HasTable(r.parent)
  PROVE  r.parent \in DiskCluster /\ tables[r.parent] \in Table
  BY DEF TypeOK, HasTable

(* Whoever calls, and for whatever directory it is. *)
LEMMA TypeCallWith ==
  ASSUME TypeOK, NEW r \in Request, NEW t \in Table, CallWith(r, t) PROVE TypeOK'
<1>2. r.parent \in DiskCluster
  BY DEF Request
<1>3. FAT32_FAT_END_OF_FILE \in Word /\ 0 \in Word
  BY SizeAssumption DEF Word, Cluster
<1>4. \A s \in Slot \cup {ENTRY_COUNT} : <<r.parent, s>> \in Place
  BY <1>2 DEF Place
<1>5. \A p : Disown(p) \in [Cluster -> Place \cup {Nobody}]
  BY <1>2, TypeWrites
<1>6. CASE WriteBadParent(r)
  BY <1>6, TypeReturn DEF WriteBadParent, TypeOK
<1>7. CASE WriteDuplicate(r, t)
  <2>1. PICK s \in Slot : Return("write", 1, <<r.parent, s>>)
    BY <1>7 DEF WriteDuplicate
  <2> QED BY <1>7, <1>4, <2>1, TypeReturn DEF WriteDuplicate, TypeOK
<1>8. CASE MkdirFat(r, t)
  <2>1. PICK c \in DiskCluster, s \in Slot \cup {ENTRY_COUNT} :
          /\ fat_table' = SetWord(diskFat, c, FAT32_FAT_END_OF_FILE)
          /\ \E u \in TablesAfter(t, c) : Enter("mkdir_table", r, u, s, c)
          /\ owner' = Own(c, <<r.parent, s>>)
          /\ wild' = (wild \/ c \notin Cluster \/ s = ENTRY_COUNT \/ t # tables[r.parent])
    BY <1>8 DEF MkdirFat
  <2>2. PICK u \in Table : Enter("mkdir_table", r, u, s, c)
    BY <1>2, <2>1, TableTypes
  <2>3. fat_table' \in [Cluster -> Word] /\ diskFat' \in [Cluster -> Word]
    BY <1>8, <1>3, <2>1, SetWordType DEF MkdirFat, TypeOK
  <2>4. owner' \in [Cluster -> Place \cup {Nobody}] /\ wild' \in BOOLEAN
    BY <1>4, <2>1, TypeWrites DEF TypeOK
  <2> QED BY <1>8, <2>1, <2>2, <2>3, <2>4, TypeEnter DEF MkdirFat, TypeOK, Steps
<1>9. CASE StartWriteFile(r, t) /\ r.data \in Payloads
  <2> DEFINE e(c, s) == [name |-> r.name, ext |-> r.ext, attribute |-> FALSE, used |-> TRUE,
                         cluster |-> c, filesize |-> t[s].filesize]
  <2>1. PICK c \in DiskCluster, s \in Slot \cup {ENTRY_COUNT} :
          /\ Enter("file_data", r, PutEntry(t, s, e(c, s)), s, c)
          /\ wild' = (wild \/ c \notin Cluster \/ s = ENTRY_COUNT \/ t # tables[r.parent])
    BY <1>9 DEF StartWriteFile
  <2>2. PutEntry(t, s, e(c, s)) \in Table
    <3>1. s \in Slot => e(c, s) \in Entry
      BY <1>2 DEF Request, Entry, Table
    <3> QED BY <1>2, <3>1 DEF PutEntry, Table
  <2>3. wild' \in BOOLEAN
    BY <2>1 DEF TypeOK
  <2> QED BY <1>9, <2>1, <2>2, <2>3, TypeEnter DEF StartWriteFile, TypeOK, Steps
<1>10. CASE ReadRefused(r, t)
  <2>1. PICK code \in {2, 1, -1}, p \in Place \cup {Nobody} : Return("read", code, p)
    BY <1>10, <1>4 DEF ReadRefused
  <2>2. UNCHANGED <<disk, fat_table, buf, wild, owner, crashes>>
    BY <1>10 DEF ReadRefused
  <2>3. code \in -1 .. 2
    BY <2>1
  <2> QED BY <2>1, <2>2, <2>3, TypeReturn DEF TypeOK
<1>11. CASE ReadFile(r, t)
  <2>1. PICK s \in Slot : Enter("read", r, t, s, t[s].cluster)
    BY <1>11 DEF ReadFile
  <2>2. t[s].cluster \in DiskCluster
    BY <1>2 DEF Table, Entry
  <2> QED BY <1>11, <1>2, <2>1, <2>2, TypeEnter DEF ReadFile, TypeOK, Steps
<1>12. CASE ReadDirectory(r, t)
  <2>1. PICK code \in {2, 1, 0}, p \in Place \cup {Nobody} : Return("read_directory", code, p)
    BY <1>12, <1>4 DEF ReadDirectory
  <2>2. UNCHANGED <<disk, fat_table, buf, wild, owner, crashes>>
    BY <1>12 DEF ReadDirectory
  <2>3. code \in -1 .. 2
    BY <2>1
  <2> QED BY <2>1, <2>2, <2>3, TypeReturn DEF TypeOK
<1>13. CASE DeleteRefused(r, t)
  <2>1. PICK code \in {2, 1}, p \in Place \cup {Nobody} : Return("delete", code, p)
    BY <1>13, <1>4 DEF DeleteRefused
  <2>2. UNCHANGED <<disk, fat_table, buf, wild, owner, crashes>>
    BY <1>13 DEF DeleteRefused
  <2>3. code \in -1 .. 2
    BY <2>1
  <2> QED BY <2>1, <2>2, <2>3, TypeReturn DEF TypeOK
<1>14. CASE DeleteDir(r, t)
  <2>1. PICK s \in Slot :
          /\ fat_table' = SetWord(fat_table, t[s].cluster, 0)
          /\ \E u \in TablesAfter(Unused(t, s), t[s].cluster) :
               WriteTable(r.parent, u) /\ Enter("dir_fat", r, u, s, t[s].cluster)
          /\ wild' = (wild \/ t[s].cluster \notin Cluster \/ t # tables[r.parent])
          /\ owner' = Disown(<<r.parent, s>>)
    BY <1>14 DEF DeleteDir, FAT32_FAT_EMPTY_ENTRY
  <2>2. t[s].cluster \in DiskCluster /\ Unused(t, s) \in Table
    BY <1>2, TableTypes DEF Table, Entry
  <2>5. PICK u \in Table : WriteTable(r.parent, u) /\ Enter("dir_fat", r, u, s, t[s].cluster)
    BY <2>1, <2>2, TableTypes
  <2>3. fat_table' \in [Cluster -> Word] /\ wild' \in BOOLEAN
    BY <1>3, <2>1, SetWordType DEF TypeOK
  <2>4. owner' \in [Cluster -> Place \cup {Nobody}]
    BY <1>5, <2>1
  <2> QED BY <1>14, <1>2, <2>1, <2>2, <2>3, <2>4, <2>5, TypeWrites, TypeEnter
          DEF DeleteDir, TypeOK, Steps
<1>15. CASE DeleteFile(r, t)
  <2>1. PICK s \in Slot : /\ WriteTable(r.parent, Unused(t, s))
                          /\ Enter("walk", r, Unused(t, s), s, t[s].cluster)
    BY <1>15 DEF DeleteFile
  <2>2. Unused(t, s) \in Table /\ t[s].cluster \in DiskCluster
    BY <1>2, TableTypes DEF Table, Entry
  <2> QED BY <1>15, <1>2, <2>1, <2>2, TypeWrites, TypeEnter DEF DeleteFile, TypeOK, Steps
<1> QED BY <1>6, <1>7, <1>8, <1>9, <1>10, <1>11, <1>12, <1>13, <1>14, <1>15 DEF CallWith

LEMMA TypeCallOn == ASSUME TypeOK, NEW r \in Request, HasTable(r.parent), CallOn(r) PROVE TypeOK'
<1>1. tables[r.parent] \in Table
  BY ParentTable
<1> QED BY <1>1, TypeCallWith DEF CallOn

LEMMA TypeCall == ASSUME TypeOK, Call PROVE TypeOK'
<1>1. PICK r \in Request : \/ WriteBadParent(r)
                           \/ \E t \in TakenFor(r.parent) : CallWith(r, t)
  BY CallRequest
<1>2. TakenFor(r.parent) \subseteq Table
  BY BlockAssumption DEF TakenFor, TypeOK, Request
<1>3. CASE WriteBadParent(r)
  BY <1>3, TypeReturn DEF WriteBadParent, TypeOK
<1> QED BY <1>1, <1>2, <1>3, TypeCallWith

(* What the last turn of write's loop finds left to write is not negative.  *)
LEMMA LastPart ==
  ASSUME NEW a \in Nat, NEW b \in Nat \ {0}, NEW j \in Nat, j = DivCeil(a, b) - 1
  PROVE  b * j \in Nat /\ a - b * j \in Nat
<1> DEFINE q == a \div b
           m == a % b
<1>1. q \in Nat /\ m \in Nat /\ a = b * q + m
  BY SMT
<1>2. j = q \/ j = q - 1
  BY <1>1 DEF DivCeil
<1>3. b * j \in Nat
  BY SMT
<1>4. CASE j = q
  BY <1>1, <1>3, <1>4
<1>5. CASE j = q - 1
  <2>1. b * (q - 1) = b * q - b
    BY <1>1, SMT
  <2> QED BY <1>1, <1>3, <1>5, <2>1
<1> QED BY <1>2, <1>4, <1>5

(* While a call runs. *)
LEMMA BusyTypes ==
  ASSUME TypeOK, pc \in Steps
  PROVE  /\ request \in Request /\ dir_table_buf \in Table /\ request.parent \in DiskCluster
         /\ MyPlace \in Place /\ TotalCluster \in Nat /\ cluster \in Nat
         /\ \A w \in WordsAt(fat_table, cluster) : Trunc16(w) \in Uint16
<1>1. request \in Request /\ dir_table_buf \in Table /\ slot \in Slot \cup {ENTRY_COUNT}
  <2>1. pc \in Steps => request \in Request /\ dir_table_buf \in Table
    BY DEF TypeOK
  <2>2. slot \in Slot \cup {ENTRY_COUNT}
    BY DEF TypeOK
  <2> QED BY <2>1, <2>2
<1>2. request.parent \in DiskCluster /\ request.size \in Nat
  BY <1>1 DEF Request
<1>3. MyPlace \in Place
  BY <1>1, <1>2 DEF MyPlace, Place
<1>4. TotalCluster \in Nat
  BY <1>2, SizeAssumption, SMT DEF TotalCluster, DivCeil
<1>5. fat_table \in [Cluster -> Word] /\ cluster \in Uint16
  BY DEF TypeOK
<1>6. cluster \in Nat
  BY <1>5, Constants DEF Uint16
<1>7. \A w \in WordsAt(fat_table, cluster) : Trunc16(w) \in Uint16
  BY <1>5, <1>6, WordCut
<1> QED BY <1>1, <1>2, <1>3, <1>4, <1>6, <1>7

(* The words write puts in the FAT. *)
LEMMA NewWords == DiskCluster \cup {FAT32_FAT_END_OF_FILE, 0} \subseteq Word
  BY SizeAssumption DEF DiskCluster, Word, Cluster

LEMMA TypeStep == ASSUME TypeOK, Step PROVE TypeOK'
<1>1. CASE SyscallReturn
  BY <1>1, SizeAssumption DEF SyscallReturn, TypeOK, Steps, NoReply
<1>2. CASE ReadBlock
  <2>1. pc \in Steps
    BY <1>2 DEF ReadBlock, Steps
  <2>2. cluster' \in Uint16
    BY <1>2, <2>1, BusyTypes DEF ReadBlock
  <2>3. buf' \in Seq(Block \cup {NoBlock})
    <3>1. \A c \in DiskCluster : blocks[c] \in Block \cup {NoBlock}
      BY DEF TypeOK
    <3>2. buf \in Seq(Block \cup {NoBlock})
      BY DEF TypeOK
    <3> QED BY <1>2, <3>1, <3>2 DEF ReadBlock
  <2> QED BY <1>2, <2>2, <2>3 DEF ReadBlock, TypeOK, Steps
<1>3. CASE ReadReturn
  <2>1. pc \in Steps
    BY <1>3 DEF ReadReturn, Steps
  <2>2. Return("read", 0, MyPlace) /\ UNCHANGED <<disk, fat_table, buf, wild, owner, crashes>>
    BY <1>3 DEF ReadReturn
  <2>3. MyPlace \in Place /\ 0 \in -1 .. 2
    BY <2>1, BusyTypes
  <2> QED BY <2>2, <2>3, TypeReturn DEF TypeOK
<1>4. CASE MkdirTable
  <2>1. pc \in Steps /\ cluster \in DiskCluster
    BY <1>4 DEF MkdirTable, TypeOK, Steps
  <2>2. request.name \in Names
    BY <2>1, BusyTypes DEF Request
  <2>3. NewTable(request.name, cluster) \in Table
    BY <2>1, <2>2, TableTypes
  <2>4. /\ signature' \in BOOLEAN
        /\ tables' \in [DiskCluster -> Table \cup {NoTable}]
        /\ blocks' \in [DiskCluster -> Block \cup {NoBlock}]
    BY <1>4, <2>1, <2>3, TypeWrites DEF MkdirTable
  <2> QED BY <1>4, <2>4 DEF MkdirTable, TypeOK, Steps
<1>5. CASE MkdirEntry
  <2>1. pc \in Steps /\ cluster \in DiskCluster
    BY <1>5 DEF MkdirEntry, TypeOK, Steps
  <2>2. request.name \in Names /\ request.parent \in DiskCluster /\ dir_table_buf \in Table
    BY <2>1, BusyTypes DEF Request
  <2>3. SelfEntry(request.name, cluster) \in Entry
    BY <2>1, <2>2, TableTypes
  <2>4. PutEntry(dir_table_buf, slot, SelfEntry(request.name, cluster)) \in Table
    BY <2>2, <2>3 DEF PutEntry, Table
  <2>5. /\ signature' \in BOOLEAN
        /\ tables' \in [DiskCluster -> Table \cup {NoTable}]
        /\ blocks' \in [DiskCluster -> Block \cup {NoBlock}]
    BY <1>5, <2>2, <2>4, TypeWrites DEF MkdirEntry
  <2>6. Return("write", 0, MyPlace) /\ UNCHANGED <<diskFat, fat_table, buf, wild, owner, crashes>>
    BY <1>5 DEF MkdirEntry
  <2>7. MyPlace \in Place /\ 0 \in -1 .. 2
    BY <2>1, BusyTypes
  <2> QED BY <2>5, <2>6, <2>7, TypeReturn DEF TypeOK
<1>6. CASE FileData
  <2> DEFINE last == i = TotalCluster - 1
             grow == IF last THEN request.size - CLUSTER_SIZE * i ELSE CLUSTER_SIZE
             grown == [s \in Slot |-> IF s = slot
                                      THEN [dir_table_buf[s] EXCEPT !.filesize = @ + grow]
                                      ELSE dir_table_buf[s]]
  <2>1. pc \in Steps /\ i \in Nat
    BY <1>6 DEF FileData, TypeOK, Steps
  <2>2. PICK c \in DiskCluster, n \in DiskCluster \cup {FAT32_FAT_END_OF_FILE} :
          /\ fat_table' = SetWord(fat_table, c, n)
          /\ dir_table_buf' \in TablesAfter(grown, c)
          /\ WriteBlock(c, [data |-> request.data, part |-> i, of |-> TotalCluster])
          /\ cluster' = c
          /\ owner' = Own(c, MyPlace)
          /\ wild' = (wild \/ c \notin Cluster)
    BY <1>6 DEF FileData
  <2>13. request.data \in Payloads
    BY <1>6 DEF FileData, TypeOK
  <2>3. request.size \in Nat /\ TotalCluster \in Nat /\ dir_table_buf \in Table
    BY <2>1, BusyTypes DEF Request
  <2>4. grow \in Nat
    <3>1. CASE last
      BY <3>1, <2>1, <2>3, LastPart, SizeAssumption DEF TotalCluster
    <3>2. CASE ~last
      BY <3>2, SizeAssumption
    <3> QED BY <3>1, <3>2
  <2> HIDE DEF grow
  <2>5. \A e \in Entry : [e EXCEPT !.filesize = @ + grow] \in Entry
    BY <2>4 DEF Entry
  <2>6. grown \in Table
    BY <2>3, <2>5 DEF Table
  <2>7. dir_table_buf' \in Table
    BY <2>2, <2>6, TableTypes
  <2>8. fat_table' \in [Cluster -> Word]
    BY <2>2, NewWords, SetWordType DEF TypeOK
  <2>9. owner' \in [Cluster -> Place \cup {Nobody}] /\ wild' \in BOOLEAN /\ cluster' \in Uint16
    BY <2>1, <2>2, BusyTypes, TypeWrites, DiskClusterSmall DEF TypeOK
  <2>12. [data |-> request.data, part |-> i, of |-> TotalCluster] \in Block
    BY <2>1, <2>3, <2>13 DEF Block
  <2>10. /\ signature' \in BOOLEAN
         /\ tables' \in [DiskCluster -> Table \cup {NoTable}]
         /\ blocks' \in [DiskCluster -> Block \cup {NoBlock}]
    BY <2>2, <2>12, TypeWrites
  <2>11. pc' = "file_fat"
         /\ UNCHANGED <<diskFat, request, slot, i, to_zeros, buf, reply, crashes>>
    BY <1>6 DEF FileData
  <2>14. request' \in Request /\ request'.data \in Payloads /\ pc' \in Steps
         /\ pc' \notin {"mkdir_table", "mkdir_entry", "read", "walk", "dir_fat"}
    BY <2>1, <2>11, <2>13, BusyTypes DEF Steps
  <2>15. /\ diskFat' \in [Cluster -> Word] /\ i' \in Nat /\ slot' \in Slot \cup {ENTRY_COUNT}
         /\ to_zeros' \subseteq Uint16 /\ buf' \in Seq(Block \cup {NoBlock})
         /\ crashes' \in 0 .. MaxCrashes
    BY <2>11 DEF TypeOK
  <2>16. reply' \in [op : {"none", "read", "read_directory", "write", "delete"},
                     code : -1 .. 2, place : Place \cup {Nobody}]
    BY <2>11 DEF TypeOK
  <2> QED BY <2>7, <2>8, <2>9, <2>10, <2>14, <2>15, <2>16 DEF TypeOK
<1>7. CASE FileFat
  BY <1>7 DEF FileFat, TypeOK, Steps
<1>8. CASE FileEntry
  <2>1. pc \in Steps
    BY <1>8 DEF FileEntry, Steps
  <2>2. Return("write", 0, MyPlace) /\ UNCHANGED <<diskFat, fat_table, buf, wild, owner, crashes>>
    BY <1>8 DEF FileEntry
  <2>3. MyPlace \in Place /\ 0 \in -1 .. 2
    BY <2>1, BusyTypes
  <2>4. /\ signature' \in BOOLEAN
        /\ tables' \in [DiskCluster -> Table \cup {NoTable}]
        /\ blocks' \in [DiskCluster -> Block \cup {NoBlock}]
    BY <1>8, <2>1, BusyTypes, TypeWrites DEF FileEntry
  <2> QED BY <2>2, <2>3, <2>4, TypeReturn DEF TypeOK
<1>9. CASE DeleteDirFat
  <2>1. pc \in Steps
    BY <1>9 DEF DeleteDirFat, Steps
  <2>2. Return("delete", 0, MyPlace) /\ diskFat' = fat_table
        /\ UNCHANGED <<signature, tables, blocks, fat_table, buf, wild, owner, crashes>>
    BY <1>9 DEF DeleteDirFat
  <2>3. MyPlace \in Place /\ 0 \in -1 .. 2
    BY <2>1, BusyTypes
  <2> QED BY <2>2, <2>3, TypeReturn DEF TypeOK
<1>10. CASE DeleteWalk
  <2>1. pc \in Steps
    BY <1>10 DEF DeleteWalk, Steps
  <2>2. cluster' \in Uint16
    BY <1>10, <2>1, BusyTypes DEF DeleteWalk
  <2> QED BY <1>10, <2>2 DEF DeleteWalk, TypeOK, Steps
<1>11. CASE DeleteFree
  <2>1. pc \in Steps
    BY <1>11 DEF DeleteFree, Steps
  <2>2. fat_table' \in [Cluster -> Word] /\ diskFat' = fat_table'
    BY <1>11, NewWords DEF DeleteFree, TypeOK, FAT32_FAT_EMPTY_ENTRY
  <2>3. owner' \in [Cluster -> Place \cup {Nobody}]
    BY <1>11, <2>1, BusyTypes, TypeWrites DEF DeleteFree
  <2>4. MyPlace \in Place /\ 0 \in -1 .. 2
    BY <2>1, BusyTypes
  <2>5. Return("delete", 0, MyPlace) /\ UNCHANGED <<signature, tables, blocks, buf, wild, crashes>>
    BY <1>11 DEF DeleteFree
  <2> QED BY <2>2, <2>3, <2>4, <2>5, TypeReturn DEF TypeOK
<1> QED BY <1>1, <1>2, <1>3, <1>4, <1>5, <1>6, <1>7, <1>8, <1>9, <1>10, <1>11 DEF Step

(* A step that leaves the driver alone leaves its types. *)
LEMMA TypeStutter == ASSUME TypeOK, UNCHANGED vars PROVE TypeOK'
<1>1. (/\ signature \in BOOLEAN
       /\ diskFat \in [Cluster -> Word] /\ fat_table \in [Cluster -> Word]
       /\ tables \in [DiskCluster -> Table \cup {NoTable}]
       /\ blocks \in [DiskCluster -> Block \cup {NoBlock}]
       /\ owner \in [Cluster -> Place \cup {Nobody}])'
  BY DEF TypeOK
<1> QED BY <1>1 DEF TypeOK

(* Every variable always has the shape TypeOK gives it: a call that runs    *)
(* has its request and the table it loaded, whatever stray index it uses.   *)
THEOREM TypeCorrect == Spec => []TypeOK
<1>1. ASSUME TypeOK, [Next]_vars PROVE TypeOK'
  BY <1>1, TypeStutter, TypeBoot, TypeStep, TypeCall, TypeCrash DEF Next
<1> QED BY <1>1, TypeInit, PTL DEF Spec

LEMMA CoherentDriver ==
  ASSUME FatCoherent, Boot \/ Step PROVE FatCoherent'
<1>1. CASE Boot
  BY <1>1 DEF Boot, Mount, FormatBoot, FormatFat, FormatRoot, FatCoherent
<1>2. CASE Step
  BY <1>2 DEF Step, SyscallReturn, ReadBlock, ReadReturn, MkdirTable, MkdirEntry, FileData,
              FileFat, FileEntry, DeleteDirFat, DeleteWalk, DeleteFree, Return, FatCoherent
<1> QED BY <1>1, <1>2

LEMMA CoherentCallWith ==
  ASSUME FatCoherent, NEW r, NEW t, CallWith(r, t) PROVE FatCoherent'
  BY DEF CallWith, WriteBadParent, WriteDuplicate, MkdirFat, StartWriteFile, ReadRefused, ReadFile,
         ReadDirectory, DeleteRefused, DeleteDir, DeleteFile, Return, Enter, FatCoherent

(* The FAT in memory is the one on the disk but for the steps that write    *)
(* it: whatever is read, or decided, from either is the same.               *)
THEOREM Coherent == Spec => []FatCoherent
<1>1. Init => FatCoherent
  BY DEF Init, FatCoherent
<1>2. ASSUME FatCoherent, [Next]_vars PROVE FatCoherent'
  <2>1. CASE UNCHANGED vars
    BY <1>2, <2>1 DEF FatCoherent
  <2>2. CASE Call
    <3>1. PICK r : WriteBadParent(r) \/ \E t : CallWith(r, t)
      BY <2>2, CallRequest
    <3> QED BY <1>2, <3>1, CoherentCallWith DEF CallWith
  <2>3. CASE Crash
    BY <2>3 DEF Crash, FatCoherent
  <2> QED BY <1>2, <2>1, <2>2, <2>3, CoherentDriver DEF Next
<1> QED BY <1>1, <1>2, PTL DEF Spec

-----------------------------------------------------------------------------
(* Entries over allocated clusters *)

(* LiveEntriesAllocated: the order in which the driver writes the FAT and   *)
(* the entries keeps every entry in use over an allocated cluster.  The     *)
(* invariant, Sound, says whose each cluster is (owner), from the step that *)
(* takes it to the one that gives it back.                                  *)

Writing == {"mkdir_table", "mkdir_entry", "file_data", "file_fat", "file_entry"}
Deleting == {"walk", "dir_fat"}

-----------------------------------------------------------------------------
(* What holds of the disk, whatever step the machine stops at. *)

(* The boot sector and the first word of the FAT, once written, stay; a     *)
(* disk whose format stopped before the FAT has no word but zeros.          *)
Signed ==
  /\ pc # "off" => signature
  /\ diskFat[0] # 0 \/ \A c \in Cluster : diskFat[c] = 0

(* Entry s of t, a table of cluster c, is in use and names something else   *)
(* than that directory.                                                     *)
NamesOther(t, c, s) == t[s].used /\ ~(s = 0 /\ t[0].attribute /\ t[0].cluster = c)

(* Before the disk is formatted there is nothing on it. *)
NothingYet ==
  ~signature \/ pc \in {"format_fat", "format_root"}
    => \A c \in DiskCluster, s \in Slot : ~Live(c, s)

(* A folder's cluster is one the FAT describes, and not the boot sector's. *)
FoldersIn(t) == \A s \in Slot : t[s].attribute => t[s].cluster \in Cluster \ {0}
FolderTables == \A c \in DiskCluster : tables[c] # NoTable => FoldersIn(tables[c])

(* An entry that is in use owns its first cluster. *)
Owns(own, t, c, s) == NamesOther(t, c, s) => /\ t[s].cluster \in Cluster
                                         /\ own[t[s].cluster] = <<c, s>>
HeadsOwned == \A c \in DiskCluster : tables[c] # NoTable => \A s \in Slot : Owns(owner, tables[c], c, s)

(* The end of the chain a write is building, whose link is not yet owned. *)
OpenEnd == pc = "file_fat" \/ (pc = "file_data" /\ i > 0)

Linked(c) == \/ diskFat[c] = FAT32_FAT_END_OF_FILE
             \/ diskFat[c] \in Cluster /\ owner[diskFat[c]] = owner[c]

(* What is owned is allocated on the disk and linked to what the same entry *)
(* owns; never cluster 0.                                                   *)
ChainsOwned ==
  /\ owner[0] = Nobody
  /\ \A c \in Cluster : owner[c] # Nobody =>
       (OpenEnd /\ c = cluster) \/ (diskFat[c] # 0 /\ Linked(c))

OnDisk == Signed /\ NothingYet /\ FolderTables /\ HeadsOwned /\ ChainsOwned

-----------------------------------------------------------------------------
(* What holds of the call in progress. *)

Loaded == pc \in Steps => FoldersIn(dir_table_buf) /\ request.parent \in Cluster \ {0}

(* The table that is about to be written back owns what it names; the entry *)
(* the call works on is not on the disk until the last step of a write, and *)
(* no longer after the first of a delete.                                   *)
LoadedHeadsOwned ==
  pc \in Writing => \A s \in Slot \ {slot} : Owns(owner, dir_table_buf, request.parent, s)
PlaceFree == pc \in Writing \cup Deleting => slot \in Slot /\ ~Live(request.parent, slot)

Mine(c) == c \in Cluster /\ owner[c] = MyPlace

(* The progress of a folder's write, ... *)
MkdirInFlight == pc \in {"mkdir_table", "mkdir_entry"} => Mine(cluster)

(* ... of a file's, ... *)
FirstCluster == dir_table_buf[slot].cluster
FileStarts ==
  pc = "file_data" /\ i = 0 => FirstCluster \in Cluster /\ FoundFree(fat_table, 0, FirstCluster)
FileGoesOn ==
  /\ OpenEnd \/ pc = "file_entry" => Mine(FirstCluster)
  /\ pc \in {"file_data", "file_fat"} => diskFat[0] # 0 /\ i < TotalCluster
  /\ OpenEnd => Mine(cluster) /\ fat_table[cluster] # 0
  /\ pc = "file_data" /\ i > 0 => FoundFree(fat_table, 0, fat_table[cluster])
FileLinks ==
  pc = "file_fat" =>
    /\ i = TotalCluster - 1 => fat_table[cluster] = FAT32_FAT_END_OF_FILE
    /\ i # TotalCluster - 1 => FoundFree(fat_table, 0, fat_table[cluster])
    /\ \A d \in Cluster \ {cluster} : fat_table[d] = diskFat[d]

(* ... and of a delete. *)
WalkInFlight == pc = "walk" => /\ \A z \in to_zeros : Mine(z)
                               /\ cluster \in Cluster => Mine(cluster)
DirInFlight ==
  pc = "dir_fat" => /\ cluster \in Cluster \ {0} /\ owner[cluster] = Nobody
                    /\ fat_table[cluster] = 0
                    /\ \A d \in Cluster \ {cluster} : fat_table[d] = diskFat[d]

InCall == /\ Loaded /\ LoadedHeadsOwned /\ PlaceFree /\ MkdirInFlight
          /\ FileStarts /\ FileGoesOn /\ FileLinks /\ WalkInFlight /\ DirInFlight

Sound == OnDisk /\ InCall

-----------------------------------------------------------------------------
(* About the operators. *)

LEMMA SmallNumbers ==
  /\ 0 \in Cluster /\ ROOT_CLUSTER_NUMBER \in Cluster \ {0}
  /\ \A c \in Cluster : c \in Nat /\ c \in DiskCluster
  /\ \A c \in StrayClusters : c \in Nat /\ c # 0 /\ c \notin Cluster
  /\ FAT32_FAT_END_OF_FILE # 0 /\ CLUSTER_0_VALUE # 0
  /\ \A c \in Cluster : Trunc16(c) = c
  /\ Trunc16(FAT32_FAT_END_OF_FILE) \notin Cluster
<1>1. \A c \in Cluster : c \in Nat /\ c < FIRST_RESERVED /\ c <= UINT16_MAX
  BY SizeAssumption, Constants DEF Cluster
<1>2. FAT32_FAT_END_OF_FILE # 0 /\ CLUSTER_0_VALUE # 0
  BY DEF FAT32_FAT_END_OF_FILE, CLUSTER_0_VALUE
<1>3. UINT16_MAX \notin Cluster
  BY <1>1, Constants
<1>4. \A c \in StrayClusters : c \in Nat /\ c # 0 /\ c \notin Cluster
  BY StrayAssumption, SizeAssumption DEF Cluster
<1>5. 0 \in Cluster /\ ROOT_CLUSTER_NUMBER \in Cluster \ {0}
  BY SizeAssumption DEF Cluster, ROOT_CLUSTER_NUMBER
<1> QED BY <1>1, <1>2, <1>3, <1>4, <1>5, Constants DEF DiskCluster

(* Only one cluster is the first free one. *)
LEMMA FirstFreeUnique ==
  ASSUME NEW f, NEW c \in Cluster, NEW d, FoundFree(f, 0, c), FoundFree(f, 0, d)
  PROVE  c = d
<1>1. c \in Nat /\ c >= 0 /\ f[c] = 0
  BY SmallNumbers DEF FoundFree, FAT32_FAT_EMPTY_ENTRY
<1>2. d \in Cluster /\ d \in Nat /\ f[d] = 0
  BY <1>1, SmallNumbers DEF FoundFree, FAT32_FAT_EMPTY_ENTRY
<1>3. ~(d < c) /\ ~(c < d)
  BY <1>1, <1>2 DEF FoundFree, FAT32_FAT_EMPTY_ENTRY
<1> QED BY <1>1, <1>2, <1>3

(* What is free and what is found free. *)
LEMMA FreeWord ==
  ASSUME NEW f, NEW c \in Cluster, FoundFree(f, 0, c)
  PROVE  f[c] = 0
  BY SmallNumbers DEF FoundFree, FAT32_FAT_EMPTY_ENTRY

(* The next free cluster is the first one once this one is taken. *)
LEMMA NextBecomesFirst ==
  ASSUME NEW f \in [Cluster -> Word], NEW c \in Cluster, NEW n,
         FoundFree(f, 0, c), FoundFree(f, c + 1, n)
  PROVE  n # 0 /\ FoundFree(SetWord(f, c, n), 0, n)
<1>1. c \in Nat
  BY SmallNumbers
<1>2. n # 0
  BY <1>1, SmallNumbers DEF FoundFree
<1> DEFINE g == SetWord(f, c, n)
<1>3. \A d \in Cluster : g[d] = IF d = c THEN n ELSE f[d]
  BY DEF SetWord
<1> HIDE DEF g
<1>4. CASE n \in Cluster /\ n >= c + 1 /\ f[n] = 0 /\ \A d \in Cluster : d >= c + 1 /\ d < n => f[d] # 0
  <2>1. n \in Nat /\ n >= 0 /\ g[n] = 0
    BY <1>1, <1>3, <1>4, SmallNumbers
  <2>2. \A d \in Cluster : d < n => g[d] # 0
    <3> SUFFICES ASSUME NEW d \in Cluster, d < n PROVE g[d] # 0
      OBVIOUS
    <3>1. d \in Nat
      BY SmallNumbers
    <3>2. CASE d = c
      BY <1>2, <1>3, <3>2
    <3>3. CASE d < c
      BY <1>1, <1>3, <3>1, <3>3 DEF FoundFree, FAT32_FAT_EMPTY_ENTRY
    <3>4. CASE d > c
      BY <1>1, <1>3, <1>4, <3>1, <3>4
    <3> QED BY <1>1, <3>1, <3>2, <3>3, <3>4
  <2> QED BY <1>2, <1>4, <2>1, <2>2 DEF FoundFree, FAT32_FAT_EMPTY_ENTRY, g
<1>5. CASE n \in StrayClusters /\ \A d \in Cluster : d >= c + 1 => f[d] # 0
  <2>1. \A d \in Cluster : g[d] # 0
    <3> SUFFICES ASSUME NEW d \in Cluster PROVE g[d] # 0
      OBVIOUS
    <3>1. d \in Nat
      BY SmallNumbers
    <3>2. CASE d = c
      BY <1>2, <1>3, <3>2
    <3>3. CASE d < c
      BY <1>1, <1>3, <3>1, <3>3 DEF FoundFree, FAT32_FAT_EMPTY_ENTRY
    <3>4. CASE d > c
      BY <1>1, <1>3, <1>5, <3>1, <3>4
    <3> QED BY <1>1, <3>1, <3>2, <3>3, <3>4
  <2> QED BY <1>2, <1>5, <2>1 DEF FoundFree, FAT32_FAT_EMPTY_ENTRY, g
<1> QED BY <1>4, <1>5 DEF FoundFree, FAT32_FAT_EMPTY_ENTRY

LEMMA NewTableFacts ==
  ASSUME NEW name, NEW c \in Cluster \ {0}
  PROVE  /\ FoldersIn(NewTable(name, c))
         /\ \A s \in Slot : ~NamesOther(NewTable(name, c), c, s)
  BY DEF FoldersIn, NamesOther, NewTable, SelfEntry, EmptyEntry

LEMMA UnusedFacts ==
  ASSUME NEW t \in Table, NEW s \in Slot
  PROVE  /\ ~Unused(t, s)[s].used
         /\ \A x \in Slot \ {s} : Unused(t, s)[x] = t[x]
         /\ \A x \in Slot : /\ Unused(t, s)[x].attribute = t[x].attribute
                            /\ Unused(t, s)[x].cluster = t[x].cluster
  BY DEF Unused, Table, Entry

(* A call of zero bytes is a folder's: a file's takes at least one cluster. *)
LEMMA AtLeastOne ==
  ASSUME NEW a \in Nat \ {0}, NEW b \in Nat \ {0}
  PROVE  0 < DivCeil(a, b)
<1> DEFINE q == a \div b
           m == a % b
<1>1. q \in Nat /\ m \in Nat /\ a = b * q + m
  BY SMT
<1>2. q = 0 => b * q = 0
  BY SMT
<1>3. q = 0 => m # 0
  BY <1>1, <1>2
<1>4. DivCeil(a, b) = IF m = 0 THEN q ELSE q + 1
  BY DEF DivCeil
<1> HIDE DEF q, m
<1> QED BY <1>1, <1>3, <1>4

(* No call, nothing to say of it. *)
LEMMA NoCall == ASSUME pc' \notin Steps PROVE InCall' /\ ~OpenEnd'
  BY DEF InCall, Loaded, LoadedHeadsOwned, PlaceFree, MkdirInFlight, FileStarts, FileGoesOn,
         FileLinks, WalkInFlight, DirInFlight, OpenEnd, Steps, Writing, Deleting
-----------------------------------------------------------------------------
(* Steps that write neither the FAT nor a table. *)

LEMMA OnDiskQuiet ==
  ASSUME OnDisk, ~OpenEnd, UNCHANGED <<signature, diskFat, tables, owner>>,
         pc' # "off" => signature, pc' \notin {"format_fat", "format_root"}
  PROVE  OnDisk'
<1>1. Signed' /\ NothingYet'
  BY DEF OnDisk, Signed, NothingYet, Live
<1>2. FolderTables' /\ HeadsOwned'
  BY DEF OnDisk, FolderTables, FoldersIn, HeadsOwned, Owns, NamesOther
<1>3. ChainsOwned'
  BY DEF OnDisk, ChainsOwned, Linked
<1> QED BY <1>1, <1>2, <1>3 DEF OnDisk

(* The directory a call is for. *)
DirectoryAt(c) == c \in Cluster \ {0} /\ tables[c] # NoTable

(* That a caller names is one, unless a file has taken its cluster, and not *)
(* the boot sector.                                                         *)
LEMMA CallerDirectory ==
  ASSUME FolderTables, NEW c \in CallerClusters, tables[c] # NoTable
  PROVE  DirectoryAt(c)
<1>1. CASE c = ROOT_CLUSTER_NUMBER
  BY <1>1, SmallNumbers DEF DirectoryAt
<1>2. CASE \E d \in DiskCluster : /\ tables[d] # NoTable
                                  /\ \E s \in Slot : /\ tables[d][s].attribute
                                                     /\ tables[d][s].cluster = c
  BY <1>2 DEF FolderTables, FoldersIn, DirectoryAt
<1> QED BY <1>1, <1>2 DEF CallerClusters

LEMMA ParentFolder ==
  ASSUME TypeOK, FolderTables, NEW r \in Request, DirectoryAt(r.parent)
  PROVE  /\ r.parent \in Cluster \ {0} /\ r.parent \in DiskCluster
         /\ tables[r.parent] \in Table /\ tables[r.parent] # NoTable
         /\ FoldersIn(tables[r.parent])
<1>1. HasTable(r.parent) /\ tables[r.parent] # NoTable /\ r.parent \in Cluster \ {0}
  BY SmallNumbers DEF DirectoryAt, HasTable
<1>2. r.parent \in DiskCluster /\ tables[r.parent] \in Table
  BY <1>1, ParentTable
<1> QED BY <1>1, <1>2 DEF FolderTables

(* Its entries in use own what they name. *)
LEMMA ParentOwns ==
  ASSUME HeadsOwned, NEW c \in DiskCluster, tables[c] # NoTable
  PROVE  \A s \in Slot : Owns(owner, tables[c], c, s) /\ (Live(c, s) <=> NamesOther(tables[c], c, s))
  BY DEF HeadsOwned, Live, NamesOther

LEMMA SoundReads ==
  ASSUME TypeOK, Sound,
         \/ Mount \/ SyscallReturn \/ ReadBlock \/ ReadReturn
         \/ \E r \in Request : /\ DirectoryAt(r.parent)
                               /\ \/ ReadRefused(r, tables[r.parent]) \/ ReadFile(r, tables[r.parent]) \/ ReadDirectory(r, tables[r.parent])
                                  \/ WriteBadParent(r) \/ WriteDuplicate(r, tables[r.parent]) \/ DeleteRefused(r, tables[r.parent])
  PROVE  Sound'
<1> USE DEF Sound
<1>1. CASE Mount \/ SyscallReturn
  <2>1. OnDisk'
    BY <1>1, OnDiskQuiet DEF Mount, SyscallReturn, OpenEnd, OnDisk, Signed
  <2> QED BY <1>1, <2>1, NoCall DEF Mount, SyscallReturn, Steps
<1>2. CASE ReadReturn
  <2>1. OnDisk'
    BY <1>2, OnDiskQuiet DEF ReadReturn, Return, OpenEnd, OnDisk, Signed
  <2> QED BY <1>2, <2>1, NoCall DEF ReadReturn, Return, Steps
<1>3. CASE ReadBlock
  <2>1. OnDisk'
    BY <1>3, OnDiskQuiet DEF ReadBlock, OpenEnd, OnDisk, Signed
  <2>2. Loaded'
    BY <1>3 DEF ReadBlock, InCall, Loaded, FoldersIn, Steps
  <2> QED BY <1>3, <2>1, <2>2
       DEF ReadBlock, InCall, LoadedHeadsOwned, PlaceFree, MkdirInFlight, FileStarts, FileGoesOn,
           FileLinks, WalkInFlight, DirInFlight, OpenEnd, Writing, Deleting
<1>4. CASE \E r \in Request : /\ DirectoryAt(r.parent)
                              /\ \/ ReadRefused(r, tables[r.parent]) \/ ReadDirectory(r, tables[r.parent])
                                 \/ WriteBadParent(r) \/ WriteDuplicate(r, tables[r.parent]) \/ DeleteRefused(r, tables[r.parent])
  <2>1. pc = "idle" /\ pc' = "return" /\ UNCHANGED <<signature, diskFat, tables, owner>>
    BY <1>4 DEF ReadRefused, ReadDirectory, WriteBadParent, WriteDuplicate, DeleteRefused, Return
  <2>2. OnDisk'
    BY <2>1, OnDiskQuiet DEF OpenEnd, OnDisk, Signed
  <2> QED BY <2>1, <2>2, NoCall DEF Steps
<1>5. ASSUME NEW r \in Request, DirectoryAt(r.parent), ReadFile(r, tables[r.parent])
      PROVE  Sound'
  <2>1. /\ pc = "idle" /\ pc' = "read" /\ request' = r /\ dir_table_buf' = tables[r.parent]
        /\ UNCHANGED <<signature, diskFat, tables, owner>>
    BY <1>5 DEF ReadFile, Enter
  <2>2. OnDisk'
    BY <2>1, OnDiskQuiet DEF OpenEnd, OnDisk, Signed
  <2>3. Loaded'
    BY <1>5, <2>1, ParentFolder DEF OnDisk, Loaded, FoldersIn
  <2> QED BY <2>1, <2>2, <2>3
       DEF InCall, LoadedHeadsOwned, PlaceFree, MkdirInFlight, FileStarts, FileGoesOn,
           FileLinks, WalkInFlight, DirInFlight, OpenEnd, Writing, Deleting
<1> QED BY <1>1, <1>2, <1>3, <1>4, <1>5

-----------------------------------------------------------------------------
(* Boot and crash *)

LEMMA Written ==
  ASSUME TypeOK, NEW c \in Cluster \ {0}, NEW t, WriteTable(c, t)
  PROVE  /\ tables'[c] = t /\ \A d \in DiskCluster \ {c} : tables'[d] = tables[d]
         /\ signature' = signature
<1>1. c \in DiskCluster
  BY SmallNumbers
<1>2. tables \in [DiskCluster -> Table \cup {NoTable}] /\ signature \in BOOLEAN
  BY DEF TypeOK
<1> QED BY <1>1, <1>2 DEF WriteTable

LEMMA SoundInit == Init => Sound
<1> SUFFICES ASSUME Init PROVE Sound
  OBVIOUS
<1>1. \A c \in DiskCluster, s \in Slot : ~Live(c, s) /\ ~tables[c][s].used /\ ~tables[c][s].attribute
  BY DEF Init, Live, EmptyEntry
<1>2. pc = "off" /\ ~signature /\ \A c \in Cluster : diskFat[c] = 0 /\ owner[c] = Nobody
  BY DEF Init
<1>3. OnDisk
  BY <1>1, <1>2, SmallNumbers DEF OnDisk, Signed, NothingYet, FolderTables, FoldersIn, HeadsOwned,
     Owns, NamesOther, ChainsOwned
<1>4. InCall
  BY <1>2 DEF InCall, Loaded, LoadedHeadsOwned, PlaceFree, MkdirInFlight, FileStarts, FileGoesOn,
     FileLinks, WalkInFlight, DirInFlight, OpenEnd, Steps, Writing, Deleting
<1> QED BY <1>3, <1>4 DEF Sound

LEMMA SoundBoot ==
  ASSUME TypeOK, Sound, FormatBoot \/ FormatFat \/ FormatRoot
  PROVE  Sound'
<1> USE DEF Sound
<1>1. CASE FormatBoot
  <2>1. NothingYet' /\ FolderTables' /\ HeadsOwned'
    BY <1>1 DEF FormatBoot, OnDisk, NothingYet, Live, FolderTables, FoldersIn, HeadsOwned, Owns, NamesOther
  <2>2. Signed' /\ ChainsOwned'
    BY <1>1 DEF FormatBoot, OnDisk, Signed, ChainsOwned, Linked, OpenEnd
  <2> QED BY <1>1, <2>1, <2>2, NoCall DEF FormatBoot, OnDisk, Steps
<1>2. CASE FormatFat
  <2>1. NothingYet' /\ FolderTables'
    BY <1>2 DEF FormatFat, OnDisk, NothingYet, Live, FolderTables, FoldersIn
  <2>2. HeadsOwned'
    BY <1>2 DEF FormatFat, OnDisk, NothingYet, Live, HeadsOwned, Owns, NamesOther
  <2>3. diskFat'[0] = CLUSTER_0_VALUE
    BY <1>2, SmallNumbers DEF FormatFat, TypeOK
  <2>4. Signed' /\ ChainsOwned'
    BY <1>2, <2>3, SmallNumbers DEF FormatFat, OnDisk, Signed, ChainsOwned
  <2> QED BY <1>2, <2>1, <2>2, <2>4, NoCall DEF FormatFat, OnDisk, Steps
<1>3. CASE FormatRoot
  <2> DEFINE two == ROOT_CLUSTER_NUMBER
             t == NewTable(RootName, two)
  <2>1. two \in Cluster \ {0} /\ two \in DiskCluster
    BY SmallNumbers
  <2> HIDE DEF two
  <2>2. /\ tables'[two] = t /\ \A d \in DiskCluster \ {two} : tables'[d] = tables[d]
        /\ signature' = signature
    BY <1>3, <2>1, Written DEF FormatRoot, two
  <2>3. FoldersIn(t) /\ \A s \in Slot : ~NamesOther(t, two, s)
    BY <2>1, NewTableFacts
  <2> HIDE DEF t
  <2>4. FolderTables'
    BY <2>1, <2>2, <2>3 DEF OnDisk, FolderTables, FoldersIn
  <2>5. HeadsOwned'
    <3>1. owner' = owner
      BY <1>3 DEF FormatRoot
    <3>2. \A s \in Slot : Owns(owner', t, two, s)
      BY <2>3 DEF Owns, NamesOther
    <3>3. ASSUME NEW d \in DiskCluster, tables'[d] # NoTable, NEW s \in Slot
          PROVE  Owns(owner', tables'[d], d, s)
      <4>1. CASE d = two
        BY <2>2, <3>2, <4>1
      <4>2. CASE d # two
        <5>1. tables'[d] = tables[d] /\ Owns(owner, tables[d], d, s)
          BY <2>2, <3>3, <4>2 DEF OnDisk, HeadsOwned
        <5> QED BY <3>1, <5>1
      <4> QED BY <4>1, <4>2
    <3> QED BY <3>3 DEF HeadsOwned, Owns, NamesOther
  <2>6. Signed' /\ NothingYet' /\ ChainsOwned'
    BY <1>3, <2>2 DEF FormatRoot, OnDisk, Signed, NothingYet, ChainsOwned, Linked, OpenEnd
  <2> QED BY <1>3, <2>4, <2>5, <2>6, NoCall DEF FormatRoot, OnDisk, Steps
<1> QED BY <1>1, <1>2, <1>3

(* A place that holds no entry may own nothing; the other entries lose      *)
(* nothing by that, and what they link to stays theirs.                     *)
LEMMA HeadsDisowned ==
  ASSUME HeadsOwned, UNCHANGED tables, NEW p, owner' = Disown(p),
         \A c \in DiskCluster, s \in Slot : Live(c, s) => p # <<c, s>>
  PROVE  HeadsOwned'
<1> SUFFICES ASSUME NEW c \in DiskCluster, tables[c] # NoTable, NEW s \in Slot,
                    NamesOther(tables[c], c, s)
             PROVE  /\ tables[c][s].cluster \in Cluster
                    /\ owner'[tables[c][s].cluster] = <<c, s>>
  BY DEF HeadsOwned, Owns, NamesOther
<1>1. tables[c][s].cluster \in Cluster /\ owner[tables[c][s].cluster] = <<c, s>> /\ Live(c, s)
  BY ParentOwns DEF Owns
<1>2. \A d \in Cluster : owner'[d] = IF owner[d] = p THEN Nobody ELSE owner[d]
  BY DEF Disown
<1> QED BY <1>1, <1>2

LEMMA LinkKept ==
  ASSUME NEW p, owner' = Disown(p), NEW c \in Cluster, owner'[c] # Nobody,
         Linked(c), diskFat'[c] = diskFat[c]
  PROVE  owner[c] = owner'[c] /\ owner[c] # p /\ Linked(c)'
<1>1. \A d \in Cluster : owner'[d] = IF owner[d] = p THEN Nobody ELSE owner[d]
  BY DEF Disown
<1>2. owner[c] = owner'[c] /\ owner[c] # p
  BY <1>1
<1>3. CASE diskFat[c] = FAT32_FAT_END_OF_FILE
  BY <1>2, <1>3 DEF Linked
<1>4. CASE diskFat[c] \in Cluster /\ owner[diskFat[c]] = owner[c]
  BY <1>1, <1>2, <1>4 DEF Linked
<1> QED BY <1>2, <1>3, <1>4 DEF Linked

LEMMA SoundCrash == ASSUME TypeOK, Sound, Crash PROVE Sound'
<1> USE DEF Sound
<1>1. pc' = "off" /\ UNCHANGED <<signature, diskFat, tables>> /\ InCall'
  BY NoCall DEF Crash, Steps
<1>2. Signed' /\ NothingYet' /\ FolderTables'
  BY <1>1 DEF OnDisk, Signed, NothingYet, Live, FolderTables, FoldersIn, Crash
<1>3. ASSUME owner' = owner, ~OpenEnd PROVE HeadsOwned' /\ ChainsOwned'
  BY <1>1, <1>3 DEF OnDisk, HeadsOwned, Owns, NamesOther, ChainsOwned, Linked
<1>4. ASSUME owner' = Disown(MyPlace), pc \in Steps, pc # "read" PROVE HeadsOwned' /\ ChainsOwned'
  <2>1. \A c \in Cluster : owner'[c] = IF owner[c] = MyPlace THEN Nobody ELSE owner[c]
    BY <1>4 DEF Disown
  <2>2. MyPlace # Nobody /\ ~Live(request.parent, slot)
    <3>1. MyPlace \in Place
      BY <1>4, BusyTypes
    <3> QED BY <1>4, <3>1, SentinelAssumption DEF InCall, PlaceFree, Steps, Writing, Deleting
  <2>3. HeadsOwned'
    BY <1>1, <1>4, <2>2, HeadsDisowned DEF OnDisk, MyPlace
  <2>4. ChainsOwned'
    <3>1. owner'[0] = Nobody
      BY <2>1, SmallNumbers DEF OnDisk, ChainsOwned
    <3>2. ASSUME NEW c \in Cluster, owner'[c] # Nobody PROVE diskFat[c] # 0 /\ Linked(c)'
      <4>1. owner[c] # MyPlace /\ owner[c] # Nobody /\ owner'[c] = owner[c]
        BY <2>1, <3>2
      <4>2. ~(OpenEnd /\ c = cluster)
        BY <4>1 DEF InCall, FileGoesOn, Mine
      <4>3. diskFat[c] # 0 /\ Linked(c)
        BY <4>1, <4>2 DEF OnDisk, ChainsOwned
      <4> QED BY <1>1, <1>4, <3>2, <4>3, LinkKept
    <3> QED BY <1>1, <3>1, <3>2 DEF ChainsOwned
  <2> QED BY <2>3, <2>4
<1>5. \/ owner' = owner /\ ~OpenEnd
      \/ owner' = Disown(MyPlace) /\ pc \in Steps /\ pc # "read"
  BY SentinelAssumption DEF Crash, TypeOK, OpenEnd, Steps
<1> QED BY <1>1, <1>2, <1>3, <1>4, <1>5 DEF OnDisk

-----------------------------------------------------------------------------
(* What a step leaves alone *)

(* Entries go on owning what no step takes from them. *)
LEMMA StillOwns ==
  ASSUME NEW t, NEW c \in DiskCluster, NEW s \in Slot, Owns(owner, t, c, s),
         \A d \in Cluster : owner[d] = <<c, s>> => owner'[d] = owner[d]
  PROVE  Owns(owner', t, c, s)
  BY DEF Owns, NamesOther

LEMMA HeadsKept ==
  ASSUME HeadsOwned, UNCHANGED tables,
         \A d \in Cluster : owner[d] # Nobody => owner'[d] = owner[d]
  PROVE  HeadsOwned'
<1>1. \A c \in DiskCluster, s \in Slot : <<c, s>> # Nobody
  BY SentinelAssumption DEF Place
<1>2. ASSUME NEW c \in DiskCluster, tables[c] # NoTable, NEW s \in Slot
      PROVE  Owns(owner', tables[c], c, s)
  <2>1. Owns(owner, tables[c], c, s)
    BY <1>2 DEF HeadsOwned
  <2> QED BY <1>1, <2>1 DEF Owns
<1> QED BY <1>2 DEF HeadsOwned

(* One table is written, and what the entries of the others own is left. *)
LEMMA HeadsWritten ==
  ASSUME FolderTables, HeadsOwned, NEW c \in Cluster \ {0}, NEW t,
         tables'[c] = t, \A d \in DiskCluster \ {c} : tables'[d] = tables[d],
         FoldersIn(t), \A s \in Slot : Owns(owner', t, c, s),
         \A d \in DiskCluster \ {c}, s \in Slot : \A x \in Cluster :
           owner[x] = <<d, s>> => owner'[x] = owner[x]
  PROVE  FolderTables' /\ HeadsOwned'
<1>1. FolderTables'
  BY DEF FolderTables, FoldersIn
<1>2. ASSUME NEW d \in DiskCluster, tables'[d] # NoTable, NEW s \in Slot
      PROVE  Owns(owner', tables'[d], d, s)
  <2>1. CASE d = c
    BY <2>1
  <2>2. CASE d # c
    <3>1. tables'[d] = tables[d] /\ Owns(owner, tables[d], d, s)
      BY <1>2, <2>2 DEF HeadsOwned
    <3>2. \A x \in Cluster : owner[x] = <<d, s>> => owner'[x] = owner[x]
      BY <2>2
    <3> QED BY <3>1, <3>2 DEF Owns
  <2> QED BY <2>1, <2>2
<1> QED BY <1>1, <1>2 DEF HeadsOwned, Owns, NamesOther

LEMMA ChainsKept ==
  ASSUME ChainsOwned, ~OpenEnd, UNCHANGED <<diskFat, owner>>
  PROVE  ChainsOwned'
  BY DEF ChainsOwned, Linked

(* A word that is zero on the disk is nobody's. *)
LEMMA ZeroIsFree ==
  ASSUME ChainsOwned, ~OpenEnd, NEW c \in Cluster, diskFat[c] = 0
  PROVE  owner[c] = Nobody
  BY DEF ChainsOwned

(* The parent's word is not zero, so the FAT was written, and cluster 0 is  *)
(* never found free.                                                        *)
LEMMA FatWritten ==
  ASSUME TypeOK, OnDisk, NEW r \in Request, DirectoryAt(r.parent), GoodParent(r)
  PROVE  diskFat[0] # 0
<1>1. r.parent \in Cluster
  BY ParentFolder DEF OnDisk
<1>2. diskFat[r.parent] # 0
  BY <1>1 DEF GoodParent, WordsAt, FAT32_FAT_EMPTY_ENTRY
<1> QED BY <1>1, <1>2 DEF OnDisk, Signed

-----------------------------------------------------------------------------
(* mkdir *)

LEMMA SoundMkdirFat ==
  ASSUME TypeOK, Sound, ~wild', NEW r \in Request, DirectoryAt(r.parent), MkdirFat(r, tables[r.parent])
  PROVE  Sound'
<1> DEFINE t == tables[r.parent]
<1>1. PICK c \in DiskCluster, s \in Slot \cup {ENTRY_COUNT} :
        /\ FoundFree(diskFat, 0, c) /\ FoundSlot(t, s)
        /\ fat_table' = SetWord(diskFat, c, FAT32_FAT_END_OF_FILE)
        /\ \E u \in TablesAfter(t, c) : Enter("mkdir_table", r, u, s, c)
        /\ owner' = Own(c, <<r.parent, s>>)
        /\ wild' = (wild \/ c \notin Cluster \/ s = ENTRY_COUNT)
  BY DEF MkdirFat
<1>2. c \in Cluster /\ s \in Slot
  BY <1>1
<1>3. pc = "idle" /\ diskFat' = fat_table' /\ UNCHANGED <<signature, tables>>
  BY DEF MkdirFat
<1>4. /\ pc' = "mkdir_table" /\ request' = r /\ dir_table_buf' = t
      /\ slot' = s /\ cluster' = c
  BY <1>1, <1>2 DEF TablesAfter, Enter
<1>5. /\ r.parent \in Cluster \ {0} /\ r.parent \in DiskCluster
      /\ t # NoTable /\ FoldersIn(t)
  BY ParentFolder DEF Sound, OnDisk
<1> HIDE DEF t
<1>6. diskFat[c] = 0
  BY <1>1, <1>2, FreeWord
<1>7. c # 0 /\ diskFat[0] # 0
  BY <1>6, FatWritten DEF MkdirFat, Sound
<1>8. owner[c] = Nobody
  BY <1>2, <1>3, <1>6, ZeroIsFree DEF Sound, OnDisk, OpenEnd
<1>9. \A d \in Cluster : /\ diskFat'[d] = IF d = c THEN FAT32_FAT_END_OF_FILE ELSE diskFat[d]
                         /\ owner'[d] = IF d = c THEN <<r.parent, s>> ELSE owner[d]
  BY <1>1, <1>3 DEF SetWord, Own
<1>10. ~OpenEnd /\ ~OpenEnd'
  BY <1>3, <1>4 DEF OpenEnd
<1>11. Signed' /\ NothingYet' /\ FolderTables'
  BY <1>3, <1>4, <1>7, <1>9, SmallNumbers DEF Sound, OnDisk, Signed, NothingYet, FolderTables, FoldersIn
<1>12. HeadsOwned'
  BY <1>3, <1>8, <1>9, HeadsKept DEF Sound, OnDisk
<1>13. ChainsOwned'
  <2>1. owner'[0] = Nobody
    BY <1>7, <1>9, SmallNumbers DEF Sound, OnDisk, ChainsOwned
  <2>2. ASSUME NEW d \in Cluster, owner'[d] # Nobody PROVE diskFat'[d] # 0 /\ Linked(d)'
    <3>1. CASE d = c
      BY <1>9, <3>1, SmallNumbers DEF Linked
    <3>2. CASE d # c
      <4>1. owner[d] # Nobody /\ owner'[d] = owner[d] /\ diskFat'[d] = diskFat[d]
        BY <1>9, <2>2, <3>2
      <4>2. diskFat[d] # 0 /\ Linked(d)
        BY <1>10, <4>1 DEF Sound, OnDisk, ChainsOwned
      <4>3. CASE diskFat[d] = FAT32_FAT_END_OF_FILE
        BY <4>1, <4>2, <4>3 DEF Linked
      <4>4. CASE diskFat[d] \in Cluster /\ owner[diskFat[d]] = owner[d]
        <5>1. diskFat[d] # c
          BY <1>8, <4>1, <4>4
        <5> QED BY <1>9, <4>1, <4>2, <4>4, <5>1 DEF Linked
      <4> QED BY <4>2, <4>3, <4>4 DEF Linked
    <3> QED BY <3>1, <3>2
  <2> QED BY <2>1, <2>2 DEF ChainsOwned
<1>14. Loaded'
  BY <1>4, <1>5 DEF Loaded, FoldersIn
<1>15. LoadedHeadsOwned'
  <2>1. \A x \in Slot : Owns(owner', t, r.parent, x)
    BY <1>5, <1>12, <1>3 DEF HeadsOwned, Owns, NamesOther, t
  <2> QED BY <1>4, <2>1 DEF LoadedHeadsOwned, Owns, NamesOther
<1>16. PlaceFree'
  BY <1>1, <1>2, <1>3, <1>4 DEF PlaceFree, FoundSlot, Live, t
<1>17. MkdirInFlight'
  BY <1>2, <1>4, <1>9 DEF MkdirInFlight, Mine, MyPlace
<1>18. FileStarts' /\ FileGoesOn' /\ FileLinks' /\ WalkInFlight' /\ DirInFlight'
  BY <1>4 DEF FileStarts, FileGoesOn, FileLinks, WalkInFlight, DirInFlight, OpenEnd
<1> QED BY <1>11, <1>12, <1>13, <1>14, <1>15, <1>16, <1>17, <1>18 DEF Sound, OnDisk, InCall

LEMMA SoundMkdirTable == ASSUME TypeOK, Sound, MkdirTable PROVE Sound'
<1> DEFINE t == NewTable(request.name, cluster)
<1>1. /\ pc = "mkdir_table" /\ pc' = "mkdir_entry"
      /\ UNCHANGED <<diskFat, dir_table_buf, request, cluster, slot, owner>>
  BY DEF MkdirTable
<1>2. cluster \in Cluster \ {0} /\ owner[cluster] = MyPlace
  <2>1. cluster \in Cluster /\ owner[cluster] = MyPlace
    BY <1>1 DEF Sound, InCall, MkdirInFlight, Mine
  <2>2. MyPlace # Nobody
    BY <1>1, BusyTypes, SentinelAssumption DEF Steps
  <2> QED BY <2>1, <2>2 DEF Sound, OnDisk, ChainsOwned
<1>3. /\ tables'[cluster] = t /\ \A d \in DiskCluster \ {cluster} : tables'[d] = tables[d]
      /\ signature' = signature
  BY <1>2, Written DEF MkdirTable
<1>4. FoldersIn(t) /\ \A s \in Slot : ~NamesOther(t, cluster, s)
  BY <1>2, NewTableFacts
<1> HIDE DEF t
<1>5. \A s \in Slot : Owns(owner', t, cluster, s)
  BY <1>1, <1>4 DEF Owns, NamesOther
<1>6. FolderTables' /\ HeadsOwned'
  BY <1>1, <1>2, <1>3, <1>4, <1>5, HeadsWritten DEF Sound, OnDisk
<1>7. Signed' /\ NothingYet'
  BY <1>1, <1>3 DEF Sound, OnDisk, Signed, NothingYet
<1>8. ChainsOwned'
  BY <1>1, ChainsKept DEF Sound, OnDisk, OpenEnd
<1>9. Loaded' /\ LoadedHeadsOwned' /\ MkdirInFlight'
  BY <1>1 DEF Sound, InCall, Loaded, FoldersIn, LoadedHeadsOwned, Owns, NamesOther, MkdirInFlight,
              Mine, MyPlace, Steps, Writing
<1>10. PlaceFree'
  <2>1. slot \in Slot /\ ~Live(request.parent, slot) /\ request.parent \in DiskCluster
    BY <1>1, BusyTypes DEF Sound, InCall, PlaceFree, Writing, Steps
  <2>2. ~Live(request.parent, slot)'
    <3>1. CASE request.parent = cluster
      BY <1>1, <1>3, <1>4, <2>1, <3>1 DEF Live, NamesOther
    <3>2. CASE request.parent # cluster
      BY <1>1, <1>3, <2>1, <3>2 DEF Live
    <3> QED BY <3>1, <3>2
  <2> QED BY <1>1, <2>1, <2>2 DEF PlaceFree, Live
<1>11. FileStarts' /\ FileGoesOn' /\ FileLinks' /\ WalkInFlight' /\ DirInFlight'
  BY <1>1 DEF FileStarts, FileGoesOn, FileLinks, WalkInFlight, DirInFlight, OpenEnd
<1> QED BY <1>6, <1>7, <1>8, <1>9, <1>10, <1>11 DEF Sound, OnDisk, InCall

LEMMA SoundMkdirEntry == ASSUME TypeOK, Sound, MkdirEntry PROVE Sound'
<1> DEFINE c == request.parent
           e == SelfEntry(request.name, cluster)
           t == PutEntry(dir_table_buf, slot, e)
<1>1. /\ pc = "mkdir_entry" /\ pc' = "return" /\ UNCHANGED <<diskFat, owner>>
      /\ WriteTable(c, t)
  BY DEF MkdirEntry, Return
<1>2. /\ c \in Cluster \ {0} /\ FoldersIn(dir_table_buf)
      /\ slot \in Slot /\ cluster \in Cluster /\ owner[cluster] = <<c, slot>>
      /\ \A s \in Slot \ {slot} : Owns(owner, dir_table_buf, c, s)
  BY <1>1 DEF Sound, InCall, Loaded, LoadedHeadsOwned, PlaceFree, MkdirInFlight, Mine, MyPlace,
              Steps, Writing
<1>3. cluster # 0
  <2>1. <<c, slot>> # Nobody
    BY <1>1, BusyTypes, SentinelAssumption DEF Steps, MyPlace
  <2> QED BY <1>2, <2>1 DEF Sound, OnDisk, ChainsOwned
<1>4. /\ tables'[c] = t /\ \A d \in DiskCluster \ {c} : tables'[d] = tables[d]
      /\ signature' = signature
  BY <1>1, <1>2, Written
<1>5. e.attribute /\ e.used /\ e.cluster = cluster
  BY DEF SelfEntry, EmptyEntry
<1>6. \A s \in Slot : t[s] = IF s = slot THEN e ELSE dir_table_buf[s]
  BY DEF PutEntry
<1> HIDE DEF c, e, t
<1>7. FoldersIn(t)
  BY <1>2, <1>3, <1>5, <1>6 DEF FoldersIn
<1>8. \A s \in Slot : Owns(owner', t, c, s)
  <2> SUFFICES ASSUME NEW s \in Slot, NamesOther(t, c, s)
               PROVE  t[s].cluster \in Cluster /\ owner[t[s].cluster] = <<c, s>>
    BY <1>1 DEF Owns, NamesOther
  <2>1. CASE s = slot
    BY <1>2, <1>5, <1>6, <2>1
  <2>2. CASE s # slot
    <3>1. t[s] = dir_table_buf[s] /\ Owns(owner, dir_table_buf, c, s)
      BY <1>2, <1>6, <2>2
    <3>2. NamesOther(dir_table_buf, c, s)
      BY <3>1 DEF NamesOther
    <3> QED BY <3>1, <3>2 DEF Owns
  <2> QED BY <2>1, <2>2
<1>9. FolderTables' /\ HeadsOwned'
  BY <1>1, <1>2, <1>4, <1>7, <1>8, HeadsWritten DEF Sound, OnDisk
<1>10. Signed' /\ NothingYet'
  BY <1>1, <1>4 DEF Sound, OnDisk, Signed, NothingYet
<1>11. ChainsOwned'
  BY <1>1, ChainsKept DEF Sound, OnDisk, OpenEnd
<1> QED BY <1>1, <1>9, <1>10, <1>11, NoCall DEF Sound, OnDisk, Steps

-----------------------------------------------------------------------------
(* Writing a file *)

LEMMA SoundStartWriteFile ==
  ASSUME TypeOK, Sound, ~wild', NEW r \in Request, DirectoryAt(r.parent), StartWriteFile(r, tables[r.parent])
  PROVE  Sound'
<1> DEFINE t == tables[r.parent]
           Filled(c, s) == [name |-> r.name, ext |-> r.ext, attribute |-> FALSE, used |-> TRUE,
                            cluster |-> c, filesize |-> t[s].filesize]
<1>1. PICK c \in DiskCluster, s \in Slot \cup {ENTRY_COUNT} :
        /\ FoundFree(diskFat, 0, c) /\ FoundSlot(t, s)
        /\ Enter("file_data", r, PutEntry(t, s, Filled(c, s)), s, c)
        /\ wild' = (wild \/ c \notin Cluster \/ s = ENTRY_COUNT)
  BY DEF StartWriteFile
<1> DEFINE e == Filled(c, s)
           u == PutEntry(t, s, e)
<1>2. c \in Cluster /\ s \in Slot
  BY <1>1
<1>3. /\ pc = "idle" /\ r.size # 0 /\ fat_table' = diskFat
      /\ UNCHANGED <<signature, diskFat, tables, owner>>
  BY DEF StartWriteFile
<1>4. /\ pc' = "file_data" /\ request' = r /\ dir_table_buf' = u
      /\ slot' = s /\ cluster' = c /\ i' = 0
  BY <1>1 DEF Enter
<1>5. /\ r.parent \in Cluster \ {0} /\ r.parent \in DiskCluster
      /\ t # NoTable /\ FoldersIn(t)
  BY ParentFolder DEF Sound, OnDisk
<1>6. ~e.attribute /\ e.cluster = c
  OBVIOUS
<1>7. \A x \in Slot : u[x] = IF x = s THEN e ELSE t[x]
  BY DEF PutEntry
<1> HIDE DEF e, u
<1>8. diskFat[0] # 0
  BY FatWritten DEF StartWriteFile, Sound
<1>9. OnDisk'
  BY <1>3, <1>4, OnDiskQuiet DEF OpenEnd, Sound, OnDisk, Signed
<1>10. FoldersIn(u)
  BY <1>2, <1>5, <1>6, <1>7 DEF FoldersIn
<1>11. Loaded'
  BY <1>4, <1>5, <1>10 DEF Loaded, FoldersIn
<1>12. LoadedHeadsOwned'
  <2>1. \A x \in Slot \ {s} : Owns(owner, u, r.parent, x)
    <3> SUFFICES ASSUME NEW x \in Slot \ {s}, NamesOther(u, r.parent, x)
                 PROVE  u[x].cluster \in Cluster /\ owner[u[x].cluster] = <<r.parent, x>>
      BY DEF Owns
    <3>1. u[x] = t[x] /\ Owns(owner, t, r.parent, x)
      BY <1>5, <1>7, ParentOwns DEF Sound, OnDisk
    <3>2. NamesOther(t, r.parent, x)
      BY <3>1 DEF NamesOther
    <3> QED BY <3>1, <3>2 DEF Owns
  <2> QED BY <1>3, <1>4, <2>1 DEF LoadedHeadsOwned, Owns, NamesOther
<1>13. PlaceFree'
  BY <1>1, <1>2, <1>3, <1>4 DEF PlaceFree, FoundSlot, Live
<1>14. FileStarts'
  <2>1. u[s].cluster = c
    BY <1>2, <1>6, <1>7
  <2> QED BY <1>1, <1>2, <1>3, <1>4, <2>1 DEF FileStarts, FirstCluster, FoundFree
<1>15. FileGoesOn'
  <2>1. r.size \in Nat \ {0}
    BY <1>3 DEF Request
  <2>2. 0 < DivCeil(r.size, CLUSTER_SIZE)
    BY <2>1, AtLeastOne, SizeAssumption
  <2> QED BY <1>3, <1>4, <1>8, <2>2 DEF FileGoesOn, OpenEnd, TotalCluster, DivCeil
<1>16. MkdirInFlight' /\ FileLinks' /\ WalkInFlight' /\ DirInFlight'
  BY <1>4 DEF MkdirInFlight, FileLinks, WalkInFlight, DirInFlight
<1> QED BY <1>9, <1>11, <1>12, <1>13, <1>14, <1>15, <1>16 DEF Sound, InCall

(* A block's cluster is written, and taken. *)
LEMMA WrittenBlock ==
  ASSUME TypeOK, NEW c \in Cluster \ {0}, NEW b, WriteBlock(c, b)
  PROVE  /\ tables'[c] = NoTable /\ \A d \in DiskCluster \ {c} : tables'[d] = tables[d]
         /\ signature' = signature
<1>1. c \in DiskCluster
  BY SmallNumbers
<1>2. tables \in [DiskCluster -> Table \cup {NoTable}] /\ signature \in BOOLEAN
  BY DEF TypeOK
<1> QED BY <1>1, <1>2 DEF WriteBlock

LEMMA SoundFileData ==
  ASSUME TypeOK, FatCoherent, Sound, ~wild', FileData
  PROVE  Sound'
<1> DEFINE t == dir_table_buf
           last == i = TotalCluster - 1
           grow == IF last THEN request.size - CLUSTER_SIZE * i ELSE CLUSTER_SIZE
           grown == [s \in Slot |-> IF s = slot THEN [t[s] EXCEPT !.filesize = @ + grow] ELSE t[s]]
<1>1. PICK c \in DiskCluster, n \in DiskCluster \cup {FAT32_FAT_END_OF_FILE} :
        /\ FoundFree(fat_table, 0, c)
        /\ IF last THEN n = FAT32_FAT_END_OF_FILE ELSE FoundFree(fat_table, c + 1, n)
        /\ fat_table' = SetWord(fat_table, c, n)
        /\ dir_table_buf' \in TablesAfter(grown, c)
        /\ WriteBlock(c, [data |-> request.data, part |-> i, of |-> TotalCluster])
        /\ cluster' = c
        /\ owner' = Own(c, MyPlace)
        /\ wild' = (wild \/ c \notin Cluster)
  BY DEF FileData
<1>2. c \in Cluster /\ dir_table_buf' = grown
  BY <1>1 DEF TablesAfter
<1>3. /\ pc = "file_data" /\ pc' = "file_fat"
      /\ UNCHANGED <<diskFat, request, slot, i>>
  BY DEF FileData
<1>4. /\ FoldersIn(t) /\ request.parent \in Cluster \ {0} /\ slot \in Slot
      /\ \A s \in Slot \ {slot} : Owns(owner, t, request.parent, s)
      /\ ~Live(request.parent, slot)
  BY <1>3 DEF Sound, InCall, Loaded, LoadedHeadsOwned, PlaceFree, Steps, Writing
<1>5. t \in Table /\ MyPlace \in Place /\ request.parent \in DiskCluster
  BY <1>3, BusyTypes DEF Steps
<1>6. \A s \in Slot : /\ grown[s].attribute = t[s].attribute /\ grown[s].used = t[s].used
                      /\ grown[s].cluster = t[s].cluster
  BY <1>5 DEF Table, Entry
<1> HIDE DEF grown
<1>7. fat_table = diskFat /\ fat_table[c] = 0 /\ diskFat[0] # 0 /\ i < TotalCluster
  BY <1>1, <1>2, <1>3, FreeWord DEF FatCoherent, Sound, InCall, FileGoesOn
<1>8. c # 0 /\ owner[c] = Nobody
  <2>1. ~(OpenEnd /\ c = cluster)
    BY <1>7 DEF Sound, InCall, FileGoesOn
  <2> QED BY <1>2, <1>7, <2>1 DEF Sound, OnDisk, ChainsOwned
<1>9. /\ tables'[c] = NoTable /\ \A d \in DiskCluster \ {c} : tables'[d] = tables[d]
      /\ signature' = signature
  BY <1>1, <1>2, <1>8, WrittenBlock
<1>10. /\ \A d \in Cluster : owner'[d] = IF d = c THEN MyPlace ELSE owner[d]
       /\ \A d \in Cluster : owner[d] # Nobody => owner'[d] = owner[d]
  BY <1>1, <1>8 DEF Own
<1>11. MyPlace # Nobody /\ MyPlace' = MyPlace
  BY <1>3, <1>5, SentinelAssumption DEF MyPlace
<1>12. c = FirstCluster \/ (i > 0 /\ Mine(FirstCluster) /\ c = fat_table[cluster])
  <2>1. CASE i = 0
    BY <1>1, <1>2, <1>3, <2>1, FirstFreeUnique DEF Sound, InCall, FileStarts
  <2>2. CASE i > 0
    <3>1. Mine(FirstCluster) /\ FoundFree(fat_table, 0, fat_table[cluster])
      BY <1>3, <2>2 DEF Sound, InCall, FileGoesOn, OpenEnd
    <3> QED BY <1>1, <1>2, <2>2, <3>1, FirstFreeUnique
  <2>3. i \in Nat
    BY DEF TypeOK
  <2> QED BY <2>1, <2>2, <2>3
<1>13. fat_table'[c] = n /\ n # 0 /\ (~last => FoundFree(fat_table', 0, n))
  <2>1. fat_table'[c] = n
    BY <1>1, <1>2 DEF SetWord
  <2>2. CASE last
    BY <1>1, <2>1, <2>2, SmallNumbers
  <2>3. CASE ~last
    <3>1. fat_table \in [Cluster -> Word]
      BY DEF TypeOK
    <3> QED BY <1>1, <1>2, <2>1, <2>3, <3>1, NextBecomesFirst
  <2> QED BY <2>1, <2>2, <2>3
<1>14. Signed' /\ NothingYet' /\ FolderTables'
  <2>1. Signed' /\ NothingYet'
    BY <1>3, <1>9 DEF Sound, OnDisk, Signed, NothingYet
  <2>2. FolderTables'
    BY <1>9 DEF Sound, OnDisk, FolderTables, FoldersIn
  <2> QED BY <2>1, <2>2
<1>15. HeadsOwned'
  <2> SUFFICES ASSUME NEW d \in DiskCluster, tables'[d] # NoTable, NEW s \in Slot
               PROVE  Owns(owner', tables'[d], d, s)
    BY DEF HeadsOwned, Owns, NamesOther
  <2>1. tables'[d] = tables[d] /\ Owns(owner, tables[d], d, s)
    BY <1>9 DEF Sound, OnDisk, HeadsOwned
  <2>2. <<d, s>> # Nobody
    BY SentinelAssumption DEF Place
  <2> QED BY <1>10, <2>1, <2>2 DEF Owns
<1>16. ChainsOwned'
  <2>1. owner'[0] = Nobody
    BY <1>8, <1>10, SmallNumbers DEF Sound, OnDisk, ChainsOwned
  <2>2. ASSUME NEW d \in Cluster, owner'[d] # Nobody
        PROVE  (OpenEnd' /\ d = cluster') \/ (diskFat'[d] # 0 /\ Linked(d)')
    <3>1. CASE d = c
      BY <1>1, <1>3, <3>1 DEF OpenEnd
    <3>2. CASE d # c /\ OpenEnd /\ d = cluster
      <4>1. i > 0
        BY <1>3, <3>2 DEF OpenEnd
      <4>2. FoundFree(fat_table, 0, fat_table[cluster]) /\ owner[d] = MyPlace
        BY <1>3, <3>2, <4>1 DEF Sound, InCall, FileGoesOn, Mine
      <4>3. diskFat[d] = c
        BY <1>1, <1>2, <1>7, <3>2, <4>2, FirstFreeUnique
      <4> QED BY <1>2, <1>3, <1>8, <1>10, <3>2, <4>2, <4>3 DEF Linked
    <3>3. CASE d # c /\ ~(OpenEnd /\ d = cluster)
      <4>1. owner'[d] = owner[d] /\ owner[d] # Nobody
        BY <1>10, <2>2, <3>3
      <4>2. diskFat[d] # 0 /\ Linked(d)
        BY <3>3, <4>1 DEF Sound, OnDisk, ChainsOwned
      <4>3. CASE diskFat[d] = FAT32_FAT_END_OF_FILE
        BY <1>3, <4>2, <4>3 DEF Linked
      <4>4. CASE diskFat[d] \in Cluster /\ owner[diskFat[d]] = owner[d]
        <5>1. owner'[diskFat[d]] = owner'[d]
          BY <1>10, <4>1, <4>4
        <5> QED BY <1>3, <4>2, <4>4, <5>1 DEF Linked
      <4> QED BY <4>2, <4>3, <4>4 DEF Linked
    <3> QED BY <3>1, <3>2, <3>3
  <2> QED BY <2>1, <2>2 DEF ChainsOwned
<1>17. Loaded'
  BY <1>2, <1>3, <1>4, <1>6 DEF Loaded, FoldersIn
<1>18. LoadedHeadsOwned'
  <2>1. \A s \in Slot \ {slot} : Owns(owner', grown, request.parent, s)
    <3> SUFFICES ASSUME NEW s \in Slot \ {slot}, NamesOther(grown, request.parent, s)
                 PROVE  /\ grown[s].cluster \in Cluster
                        /\ owner'[grown[s].cluster] = <<request.parent, s>>
      BY DEF Owns
    <3>1. NamesOther(t, request.parent, s)
      BY <1>6, SizeAssumption DEF NamesOther, Slot
    <3>2. t[s].cluster \in Cluster /\ owner[t[s].cluster] = <<request.parent, s>>
      BY <1>4, <3>1 DEF Owns
    <3>3. <<request.parent, s>> # Nobody
      BY <1>5, SentinelAssumption DEF Place
    <3> QED BY <1>6, <1>10, <3>2, <3>3
  <2> QED BY <1>2, <1>3, <2>1 DEF LoadedHeadsOwned, Owns, NamesOther
<1>19. PlaceFree'
  <2>1. ~Live(request.parent, slot)'
    BY <1>3, <1>4, <1>5, <1>9 DEF Live
  <2> QED BY <1>3, <1>4, <2>1 DEF PlaceFree, Live
<1>20. FileGoesOn'
  <2>1. FirstCluster' = FirstCluster
    BY <1>2, <1>3, <1>4, <1>6 DEF FirstCluster
  <2>2. Mine(FirstCluster)'
    BY <1>2, <1>10, <1>11, <1>12, <2>1 DEF Mine
  <2>3. Mine(cluster)' /\ fat_table'[cluster'] # 0
    BY <1>1, <1>2, <1>10, <1>11, <1>13 DEF Mine
  <2>4. diskFat'[0] # 0 /\ i' < TotalCluster'
    BY <1>3, <1>7 DEF TotalCluster
  <2> QED BY <1>3, <2>2, <2>3, <2>4 DEF FileGoesOn
<1>21. FileLinks'
  <2>1. \A d \in Cluster \ {c} : fat_table'[d] = diskFat'[d]
    BY <1>1, <1>3, <1>7 DEF SetWord
  <2>2. TotalCluster' = TotalCluster
    BY <1>3 DEF TotalCluster
  <2>3. last => fat_table'[c] = FAT32_FAT_END_OF_FILE
    BY <1>1, <1>13
  <2>4. ~last => FoundFree(fat_table', 0, fat_table'[c])
    BY <1>13
  <2> QED BY <1>1, <1>3, <2>1, <2>2, <2>3, <2>4 DEF FileLinks, FoundFree
<1>22. MkdirInFlight' /\ FileStarts' /\ WalkInFlight' /\ DirInFlight'
  BY <1>3 DEF MkdirInFlight, FileStarts, WalkInFlight, DirInFlight
<1> QED BY <1>14, <1>15, <1>16, <1>17, <1>18, <1>19, <1>20, <1>21, <1>22 DEF Sound, OnDisk, InCall

LEMMA SoundFileFat == ASSUME TypeOK, Sound, FileFat PROVE Sound'
<1>1. /\ pc = "file_fat" /\ i' = i + 1 /\ diskFat' = fat_table
      /\ pc' = IF i + 1 < TotalCluster THEN "file_data" ELSE "file_entry"
      /\ UNCHANGED <<signature, tables, fat_table, dir_table_buf, request, cluster, slot, owner>>
  BY DEF FileFat
<1>2. i \in Nat /\ TotalCluster \in Nat /\ MyPlace # Nobody /\ TotalCluster' = TotalCluster
  <2>1. i \in Nat
    BY DEF TypeOK
  <2>2. TotalCluster' = TotalCluster
    BY <1>1 DEF TotalCluster
  <2> QED BY <1>1, <2>1, <2>2, BusyTypes, SentinelAssumption DEF Steps
<1>3. /\ i < TotalCluster /\ diskFat[0] # 0 /\ Mine(FirstCluster) /\ Mine(cluster)
      /\ fat_table[cluster] # 0
  BY <1>1 DEF Sound, InCall, FileGoesOn, OpenEnd
<1>4. /\ i = TotalCluster - 1 => fat_table[cluster] = FAT32_FAT_END_OF_FILE
      /\ i # TotalCluster - 1 => FoundFree(fat_table, 0, fat_table[cluster])
      /\ \A d \in Cluster \ {cluster} : fat_table[d] = diskFat[d]
  BY <1>1 DEF Sound, InCall, FileLinks
<1>5. cluster \in Cluster \ {0} /\ owner[0] = Nobody
  BY <1>2, <1>3 DEF Mine, Sound, OnDisk, ChainsOwned
<1>6. Signed'
  BY <1>1, <1>3, <1>4, <1>5, SmallNumbers DEF Sound, OnDisk, Signed
<1>7. NothingYet' /\ FolderTables' /\ HeadsOwned'
  BY <1>1 DEF Sound, OnDisk, Signed, NothingYet, FolderTables, FoldersIn, HeadsOwned, Owns, NamesOther
<1>8. CASE i = TotalCluster - 1
  <2>1. pc' = "file_entry"
    BY <1>1, <1>2, <1>8
  <2>2. ASSUME NEW d \in Cluster, owner[d] # Nobody PROVE diskFat'[d] # 0 /\ Linked(d)'
    <3>1. CASE d = cluster
      BY <1>1, <1>4, <1>8, <3>1, SmallNumbers DEF Linked
    <3>2. CASE d # cluster
      <4>1. diskFat'[d] = diskFat[d] /\ diskFat[d] # 0 /\ Linked(d)
        BY <1>1, <1>4, <2>2, <3>2 DEF Sound, OnDisk, ChainsOwned
      <4> QED BY <1>1, <4>1 DEF Linked
    <3> QED BY <3>1, <3>2
  <2>3. ChainsOwned'
    BY <1>1, <1>5, <2>2 DEF ChainsOwned
  <2>4. Loaded' /\ LoadedHeadsOwned' /\ PlaceFree'
    BY <1>1, <2>1 DEF Sound, InCall, Loaded, FoldersIn, LoadedHeadsOwned, Owns, NamesOther, PlaceFree,
                      Live, Steps, Writing
  <2>5. FileGoesOn'
    BY <1>1, <1>3, <2>1 DEF FileGoesOn, OpenEnd, Mine, FirstCluster, MyPlace
  <2>6. MkdirInFlight' /\ FileStarts' /\ FileLinks' /\ WalkInFlight' /\ DirInFlight'
    BY <2>1 DEF MkdirInFlight, FileStarts, FileLinks, WalkInFlight, DirInFlight
  <2> QED BY <1>6, <1>7, <2>3, <2>4, <2>5, <2>6 DEF Sound, OnDisk, InCall
<1>9. CASE i # TotalCluster - 1
  <2>1. pc' = "file_data" /\ i' > 0 /\ i' < TotalCluster'
    BY <1>1, <1>2, <1>3, <1>9
  <2>2. ASSUME NEW d \in Cluster \ {cluster}, owner[d] # Nobody PROVE diskFat'[d] # 0 /\ Linked(d)'
    <3>1. diskFat'[d] = diskFat[d] /\ diskFat[d] # 0 /\ Linked(d)
      BY <1>1, <1>4, <2>2 DEF Sound, OnDisk, ChainsOwned
    <3> QED BY <1>1, <3>1 DEF Linked
  <2>3. ChainsOwned'
    BY <1>1, <1>5, <2>1, <2>2 DEF ChainsOwned, OpenEnd
  <2>4. Loaded' /\ LoadedHeadsOwned' /\ PlaceFree'
    BY <1>1, <2>1 DEF Sound, InCall, Loaded, FoldersIn, LoadedHeadsOwned, Owns, NamesOther, PlaceFree,
                      Live, Steps, Writing
  <2>5. FileGoesOn'
    <3>1. Mine(FirstCluster)' /\ Mine(cluster)' /\ fat_table'[cluster'] # 0 /\ diskFat'[0] # 0
      BY <1>1, <1>3, <1>4, <1>5, SmallNumbers DEF Mine, FirstCluster, MyPlace
    <3>2. FoundFree(fat_table', 0, fat_table'[cluster'])
      BY <1>1, <1>4, <1>9
    <3> QED BY <2>1, <3>1, <3>2 DEF FileGoesOn, OpenEnd, FoundFree
  <2>6. MkdirInFlight' /\ FileStarts' /\ FileLinks' /\ WalkInFlight' /\ DirInFlight'
    BY <2>1 DEF MkdirInFlight, FileStarts, FileLinks, WalkInFlight, DirInFlight
  <2> QED BY <1>6, <1>7, <2>3, <2>4, <2>5, <2>6 DEF Sound, OnDisk, InCall
<1> QED BY <1>8, <1>9

LEMMA SoundFileEntry == ASSUME TypeOK, Sound, FileEntry PROVE Sound'
<1> DEFINE c == request.parent
           t == dir_table_buf
<1>1. /\ pc = "file_entry" /\ pc' = "return" /\ UNCHANGED <<diskFat, owner>>
      /\ WriteTable(c, t)
  BY DEF FileEntry, Return
<1>2. /\ c \in Cluster \ {0} /\ FoldersIn(t)
      /\ t[slot].cluster \in Cluster /\ owner[t[slot].cluster] = <<c, slot>>
      /\ \A s \in Slot \ {slot} : Owns(owner, t, c, s)
  BY <1>1 DEF Sound, InCall, Loaded, LoadedHeadsOwned, FileGoesOn, FirstCluster, Mine, MyPlace,
              Steps, Writing
<1>3. /\ tables'[c] = t /\ \A d \in DiskCluster \ {c} : tables'[d] = tables[d]
      /\ signature' = signature
  BY <1>1, <1>2, Written
<1> HIDE DEF c, t
<1>4. \A s \in Slot : Owns(owner', t, c, s)
  BY <1>1, <1>2 DEF Owns
<1>5. FolderTables' /\ HeadsOwned'
  BY <1>1, <1>2, <1>3, <1>4, HeadsWritten DEF Sound, OnDisk
<1>6. Signed' /\ NothingYet'
  BY <1>1, <1>3 DEF Sound, OnDisk, Signed, NothingYet
<1>7. ChainsOwned'
  BY <1>1, ChainsKept DEF Sound, OnDisk, OpenEnd
<1> QED BY <1>1, <1>5, <1>6, <1>7, NoCall DEF Sound, OnDisk, Steps

-----------------------------------------------------------------------------
(* Deleting *)

(* The entry a delete finds is in use, and not its directory's own. *)
LEMMA VictimOwns ==
  ASSUME TypeOK, OnDisk, NEW r \in Request, DirectoryAt(r.parent),
         NEW s, IsFirst(s, Victims(tables[r.parent], r))
  PROVE  /\ s \in Slot /\ tables[r.parent][s].cluster \in Cluster
         /\ owner[tables[r.parent][s].cluster] = <<r.parent, s>>
<1>1. s \in Slot \ {0} /\ tables[r.parent][s].used
  BY DEF IsFirst, Victims
<1>2. Owns(owner, tables[r.parent], r.parent, s)
  BY <1>1, ParentFolder, ParentOwns DEF OnDisk
<1> QED BY <1>1, <1>2 DEF Owns, NamesOther

(* Its table without it. *)
LEMMA EntryGone ==
  ASSUME TypeOK, FolderTables, HeadsOwned, NEW r \in Request, DirectoryAt(r.parent),
         NEW s \in Slot, WriteTable(r.parent, Unused(tables[r.parent], s)),
         owner' = owner \/ owner' = Disown(<<r.parent, s>>)
  PROVE  /\ FolderTables' /\ HeadsOwned' /\ FoldersIn(Unused(tables[r.parent], s))
         /\ signature' = signature /\ ~tables'[r.parent][s].used
<1> DEFINE c == r.parent
           t == tables[c]
           u == Unused(t, s)
<1>1. c \in Cluster \ {0} /\ c \in DiskCluster /\ t \in Table /\ t # NoTable /\ FoldersIn(t)
  BY ParentFolder
<1>2. /\ tables'[c] = u /\ \A d \in DiskCluster \ {c} : tables'[d] = tables[d]
      /\ signature' = signature
  BY <1>1, Written
<1>3. /\ ~u[s].used
      /\ \A x \in Slot \ {s} : u[x] = t[x]
      /\ \A x \in Slot : u[x].attribute = t[x].attribute /\ u[x].cluster = t[x].cluster
  BY <1>1, UnusedFacts
<1>4. \A x \in Slot : Owns(owner, t, c, x)
  BY <1>1, ParentOwns
<1> HIDE DEF c, u
<1>5. FoldersIn(u)
  BY <1>1, <1>3 DEF FoldersIn
<1>6. \A d \in Cluster : owner[d] # <<c, s>> => owner'[d] = owner[d]
  BY DEF Disown, c
<1>7. \A x \in Slot : Owns(owner', u, c, x)
  <2> SUFFICES ASSUME NEW x \in Slot, NamesOther(u, c, x)
               PROVE  u[x].cluster \in Cluster /\ owner'[u[x].cluster] = <<c, x>>
    BY DEF Owns
  <2>1. x # s
    BY <1>3 DEF NamesOther
  <2>2. u[x] = t[x] /\ NamesOther(t, c, x)
    BY <1>3, <2>1 DEF NamesOther
  <2> QED BY <1>4, <1>6, <2>1, <2>2 DEF Owns
<1>8. \A d \in DiskCluster \ {c}, x \in Slot : \A y \in Cluster :
        owner[y] = <<d, x>> => owner'[y] = owner[y]
  BY <1>6
<1>9. FolderTables' /\ HeadsOwned'
  BY <1>1, <1>2, <1>5, <1>7, <1>8, HeadsWritten
<1> QED BY <1>2, <1>3, <1>5, <1>9 DEF c, u

LEMMA SoundDeleteDir ==
  ASSUME TypeOK, FatCoherent, Sound, NEW r \in Request, DirectoryAt(r.parent), DeleteDir(r, tables[r.parent])
  PROVE  Sound'
<1> DEFINE t == tables[r.parent]
<1>1. PICK s \in Slot :
        /\ IsFirst(s, Victims(t, r)) /\ t[s].attribute
        /\ fat_table' = SetWord(fat_table, t[s].cluster, FAT32_FAT_EMPTY_ENTRY)
        /\ \E u \in TablesAfter(Unused(t, s), t[s].cluster) :
             WriteTable(r.parent, u) /\ Enter("dir_fat", r, u, s, t[s].cluster)
        /\ owner' = Disown(<<r.parent, s>>)
  BY DEF DeleteDir
<1> DEFINE c == t[s].cluster
           u == Unused(t, s)
           p == <<r.parent, s>>
<1>2. pc = "idle" /\ UNCHANGED diskFat
  BY DEF DeleteDir
<1>3. FolderTables /\ HeadsOwned /\ ChainsOwned /\ ~OpenEnd /\ fat_table = diskFat
  BY <1>2 DEF Sound, OnDisk, OpenEnd, FatCoherent
<1>4. r.parent \in Cluster \ {0} /\ FoldersIn(t) /\ r.parent \in DiskCluster
  BY <1>3, ParentFolder
<1>5. c \in Cluster \ {0} /\ owner[c] = p
  BY <1>1, <1>4, VictimOwns DEF Sound, FoldersIn
<1>6. WriteTable(r.parent, u) /\ Enter("dir_fat", r, u, s, c)
  BY <1>1, <1>5 DEF TablesAfter
<1>7. /\ FolderTables' /\ HeadsOwned' /\ FoldersIn(u)
      /\ signature' = signature /\ ~tables'[r.parent][s].used
  BY <1>1, <1>3, <1>6, EntryGone
<1>8. \A d \in Cluster : owner'[d] = IF owner[d] = p THEN Nobody ELSE owner[d]
  BY <1>1 DEF Disown
<1>9. /\ pc' = "dir_fat" /\ request' = r /\ dir_table_buf' = u /\ slot' = s /\ cluster' = c
  BY <1>6 DEF Enter
<1> HIDE DEF c, u, t
<1>10. Signed' /\ NothingYet'
  BY <1>2, <1>7, <1>9 DEF Sound, OnDisk, Signed, NothingYet
<1>11. ChainsOwned'
  <2>1. owner'[0] = Nobody
    BY <1>3, <1>8, SmallNumbers DEF ChainsOwned
  <2>2. ASSUME NEW d \in Cluster, owner'[d] # Nobody PROVE diskFat'[d] # 0 /\ Linked(d)'
    <3>1. owner[d] # Nobody
      BY <1>8, <2>2
    <3>2. diskFat[d] # 0 /\ Linked(d)
      BY <1>3, <3>1 DEF ChainsOwned
    <3> QED BY <1>1, <1>2, <2>2, <3>2, LinkKept
  <2> QED BY <2>1, <2>2 DEF ChainsOwned
<1>12. Loaded' /\ PlaceFree'
  BY <1>4, <1>7, <1>9 DEF Loaded, FoldersIn, PlaceFree, Live
<1>13. DirInFlight'
  <2>1. \A d \in Cluster : fat_table'[d] = IF d = c THEN 0 ELSE diskFat[d]
    BY <1>1, <1>3 DEF SetWord, FAT32_FAT_EMPTY_ENTRY, c
  <2> QED BY <1>2, <1>5, <1>8, <1>9, <2>1 DEF DirInFlight
<1>14. LoadedHeadsOwned' /\ MkdirInFlight' /\ FileStarts' /\ FileGoesOn' /\ FileLinks' /\ WalkInFlight'
  BY <1>9 DEF LoadedHeadsOwned, Writing, MkdirInFlight, FileStarts, FileGoesOn, FileLinks,
              WalkInFlight, OpenEnd
<1> QED BY <1>7, <1>10, <1>11, <1>12, <1>13, <1>14 DEF Sound, OnDisk, InCall

LEMMA SoundDeleteDirFat == ASSUME TypeOK, Sound, DeleteDirFat PROVE Sound'
<1>1. /\ pc = "dir_fat" /\ pc' = "return" /\ diskFat' = fat_table
      /\ UNCHANGED <<signature, tables, owner>>
  BY DEF DeleteDirFat, Return
<1>2. /\ cluster \in Cluster \ {0} /\ owner[cluster] = Nobody /\ fat_table[cluster] = 0
      /\ \A d \in Cluster \ {cluster} : fat_table[d] = diskFat[d]
  BY <1>1 DEF Sound, InCall, DirInFlight
<1>3. Signed'
  BY <1>1, <1>2, SmallNumbers DEF Sound, OnDisk, Signed
<1>4. NothingYet' /\ FolderTables' /\ HeadsOwned'
  BY <1>1 DEF Sound, OnDisk, Signed, NothingYet, FolderTables, FoldersIn, HeadsOwned, Owns, NamesOther
<1>5. ChainsOwned'
  <2>1. ASSUME NEW d \in Cluster, owner[d] # Nobody PROVE diskFat'[d] # 0 /\ Linked(d)'
    <3>1. diskFat'[d] = diskFat[d]
      BY <1>1, <1>2, <2>1
    <3>2. diskFat[d] # 0 /\ Linked(d)
      BY <1>1, <2>1 DEF Sound, OnDisk, ChainsOwned, OpenEnd
    <3> QED BY <1>1, <3>1, <3>2 DEF Linked
  <2> QED BY <1>1, <2>1 DEF Sound, OnDisk, ChainsOwned
<1> QED BY <1>1, <1>3, <1>4, <1>5, NoCall DEF Sound, OnDisk, Steps

LEMMA SoundDeleteFile ==
  ASSUME TypeOK, Sound, NEW r \in Request, DirectoryAt(r.parent), DeleteFile(r, tables[r.parent])
  PROVE  Sound'
<1> DEFINE t == tables[r.parent]
<1>1. PICK s \in Slot : /\ IsFirst(s, Victims(t, r))
                        /\ WriteTable(r.parent, Unused(t, s))
                        /\ Enter("walk", r, Unused(t, s), s, t[s].cluster)
  BY DEF DeleteFile
<1> DEFINE c == t[s].cluster
           u == Unused(t, s)
<1>2. pc = "idle" /\ UNCHANGED <<diskFat, owner>>
  BY DEF DeleteFile
<1>3. FolderTables /\ HeadsOwned /\ ChainsOwned /\ ~OpenEnd
  BY <1>2 DEF Sound, OnDisk, OpenEnd
<1>4. r.parent \in Cluster \ {0} /\ r.parent \in DiskCluster
  BY <1>3, ParentFolder
<1>5. c \in Cluster /\ owner[c] = <<r.parent, s>>
  BY <1>1, VictimOwns DEF Sound
<1>6. /\ FolderTables' /\ HeadsOwned' /\ FoldersIn(u)
      /\ signature' = signature /\ ~tables'[r.parent][s].used
  BY <1>1, <1>2, <1>3, EntryGone
<1>7. /\ pc' = "walk" /\ request' = r /\ dir_table_buf' = u /\ slot' = s /\ cluster' = c
      /\ to_zeros' = {}
  BY <1>1 DEF Enter
<1> HIDE DEF c, u, t
<1>8. Signed' /\ NothingYet' /\ ChainsOwned'
  BY <1>2, <1>3, <1>6, <1>7, ChainsKept DEF Sound, OnDisk, Signed, NothingYet
<1>9. Loaded' /\ PlaceFree'
  BY <1>4, <1>6, <1>7 DEF Loaded, FoldersIn, PlaceFree, Live
<1>10. WalkInFlight'
  BY <1>2, <1>5, <1>7 DEF WalkInFlight, Mine, MyPlace
<1>11. LoadedHeadsOwned' /\ MkdirInFlight' /\ FileStarts' /\ FileGoesOn' /\ FileLinks' /\ DirInFlight'
  BY <1>7 DEF LoadedHeadsOwned, Writing, MkdirInFlight, FileStarts, FileGoesOn, FileLinks,
              DirInFlight, OpenEnd
<1> QED BY <1>6, <1>8, <1>9, <1>10, <1>11 DEF Sound, OnDisk, InCall

LEMMA SoundDeleteWalk == ASSUME TypeOK, FatCoherent, Sound, ~wild', DeleteWalk PROVE Sound'
<1>1. /\ pc = "walk" /\ pc' = "walk" /\ cluster \in Cluster
      /\ to_zeros' = to_zeros \cup {cluster} /\ cluster' = Trunc16(fat_table[cluster])
      /\ UNCHANGED <<signature, diskFat, tables, dir_table_buf, request, slot, owner>>
  BY DEF DeleteWalk, WordsAt
<1>2. fat_table = diskFat /\ Mine(cluster) /\ MyPlace # Nobody /\ MyPlace' = MyPlace
  BY <1>1, BusyTypes, SentinelAssumption DEF FatCoherent, Sound, InCall, WalkInFlight, Steps, MyPlace
<1>3. Linked(cluster)
  BY <1>1, <1>2 DEF Sound, OnDisk, ChainsOwned, OpenEnd, Mine
<1>4. cluster' \in Cluster => owner[cluster'] = MyPlace
  <2>1. CASE diskFat[cluster] = FAT32_FAT_END_OF_FILE
    BY <1>1, <1>2, <2>1, SmallNumbers
  <2>2. CASE diskFat[cluster] \in Cluster /\ owner[diskFat[cluster]] = owner[cluster]
    BY <1>1, <1>2, <2>2, SmallNumbers DEF Mine
  <2> QED BY <1>3, <2>1, <2>2 DEF Linked
<1>5. WalkInFlight'
  <2>1. \A z \in to_zeros : z \in Cluster /\ owner[z] = MyPlace
    BY <1>1 DEF Sound, InCall, WalkInFlight, Mine
  <2> QED BY <1>1, <1>2, <1>4, <2>1 DEF WalkInFlight, Mine
<1>6. OnDisk'
  BY <1>1, OnDiskQuiet DEF Sound, OnDisk, Signed, OpenEnd
<1>7. Loaded' /\ PlaceFree'
  BY <1>1 DEF Sound, InCall, Loaded, FoldersIn, PlaceFree, Live, Steps, Deleting
<1>8. LoadedHeadsOwned' /\ MkdirInFlight' /\ FileStarts' /\ FileGoesOn' /\ FileLinks' /\ DirInFlight'
  BY <1>1 DEF LoadedHeadsOwned, Writing, MkdirInFlight, FileStarts, FileGoesOn, FileLinks,
              DirInFlight, OpenEnd
<1> QED BY <1>5, <1>6, <1>7, <1>8 DEF Sound, InCall

LEMMA SoundDeleteFree == ASSUME TypeOK, FatCoherent, Sound, DeleteFree PROVE Sound'
<1>1. /\ pc = "walk" /\ pc' = "return" /\ owner' = Disown(MyPlace) /\ fat_table = diskFat
      /\ diskFat' = [c \in Cluster |-> IF c \in to_zeros THEN FAT32_FAT_EMPTY_ENTRY
                                                         ELSE fat_table[c]]
      /\ UNCHANGED <<signature, tables>>
  BY DEF DeleteFree, Return, FatCoherent
<1>2. /\ \A z \in to_zeros : z \in Cluster /\ owner[z] = MyPlace
      /\ ~Live(request.parent, slot) /\ MyPlace # Nobody
  BY <1>1, BusyTypes, SentinelAssumption
     DEF Sound, InCall, WalkInFlight, Mine, PlaceFree, Deleting, Steps
<1>3. \A c \in Cluster : /\ owner[c] # MyPlace => diskFat'[c] = diskFat[c]
                         /\ diskFat[c] = 0 => diskFat'[c] = 0
  BY <1>1, <1>2 DEF FAT32_FAT_EMPTY_ENTRY
<1>4. owner[0] = Nobody /\ owner'[0] = Nobody
  BY <1>1, SmallNumbers DEF Sound, OnDisk, ChainsOwned, Disown
<1>5. Signed'
  BY <1>1, <1>2, <1>3, <1>4, SmallNumbers DEF Sound, OnDisk, Signed
<1>6. NothingYet' /\ FolderTables'
  BY <1>1 DEF Sound, OnDisk, Signed, NothingYet, FolderTables, FoldersIn
<1>7. HeadsOwned'
  BY <1>1, <1>2, HeadsDisowned DEF Sound, OnDisk, MyPlace
<1>8. ChainsOwned'
  <2>1. ASSUME NEW c \in Cluster, owner'[c] # Nobody PROVE diskFat'[c] # 0 /\ Linked(c)'
    <3>1. owner[c] # Nobody /\ owner[c] # MyPlace
      BY <1>1, <2>1 DEF Disown
    <3>2. diskFat[c] # 0 /\ Linked(c) /\ diskFat'[c] = diskFat[c]
      BY <1>1, <1>3, <3>1 DEF Sound, OnDisk, ChainsOwned, OpenEnd
    <3> QED BY <1>1, <2>1, <3>2, LinkKept
  <2> QED BY <1>4, <2>1 DEF ChainsOwned
<1> QED BY <1>1, <1>5, <1>6, <1>7, <1>8, NoCall DEF Sound, OnDisk, Steps

-----------------------------------------------------------------------------
(* The theorem *)

LEMMA SoundStep ==
  ASSUME TypeOK, FatCoherent, Sound, ~wild', Step PROVE Sound'
  BY SoundReads, SoundMkdirTable, SoundMkdirEntry, SoundFileData, SoundFileFat, SoundFileEntry,
     SoundDeleteDirFat, SoundDeleteWalk, SoundDeleteFree DEF Step

LEMMA SoundCallOn ==
  ASSUME TypeOK, FatCoherent, Sound, ~wild', NEW r \in Request, DirectoryAt(r.parent), CallOn(r)
  PROVE  Sound'
<1>2. CASE ReadRefused(r, tables[r.parent]) \/ ReadFile(r, tables[r.parent]) \/ ReadDirectory(r, tables[r.parent])
             \/ WriteBadParent(r) \/ WriteDuplicate(r, tables[r.parent]) \/ DeleteRefused(r, tables[r.parent])
  BY <1>2, SoundReads
<1>3. CASE MkdirFat(r, tables[r.parent]) \/ StartWriteFile(r, tables[r.parent])
  BY <1>3, SoundMkdirFat, SoundStartWriteFile
<1>4. CASE DeleteDir(r, tables[r.parent]) \/ DeleteFile(r, tables[r.parent])
  BY <1>4, SoundDeleteDir, SoundDeleteFile
<1> QED BY <1>2, <1>3, <1>4 DEF CallOn, CallWith

(* A call that is refused only answers. *)
LEMMA Refused ==
  ASSUME FatCoherent, NEW r, NEW t, r.parent \in DiskCluster,
         \/ ReadRefused(r, t) \/ ReadDirectory(r, t) \/ WriteBadParent(r) \/ WriteDuplicate(r, t)
         \/ DeleteRefused(r, t)
  PROVE  OnlyAnswers
<1>1. Nobody \in Place \cup {Nobody} /\ \A s \in Slot : <<r.parent, s>> \in Place \cup {Nobody}
  BY DEF Place
<1>2. pc = "idle" => fat_table = diskFat
  BY DEF FatCoherent
<1>3. ASSUME NEW op \in {"read", "read_directory", "write", "delete"}, NEW code \in {-1, 0, 1, 2},
             NEW p \in Place \cup {Nobody}, Return(op, code, p), op = "read" => code # 0, pc = "idle",
             UNCHANGED <<disk, fat_table, buf, wild, owner, crashes>>
      PROVE  OnlyAnswers
  <2>1. code \in -1 .. 2
    OBVIOUS
  <2> QED BY <1>3, <2>1 DEF OnlyAnswers
<1>4. CASE ReadRefused(r, t)
  <2>1. \E code \in {-1, 1, 2}, p \in Place \cup {Nobody} : Return("read", code, p)
    BY <1>1, <1>4 DEF ReadRefused
  <2> QED BY <1>3, <1>4, <2>1 DEF ReadRefused
<1>5. CASE ReadDirectory(r, t)
  <2>1. \E code \in {-1, 0, 1, 2}, p \in Place \cup {Nobody} : Return("read_directory", code, p)
    <3>1. CASE Return("read_directory", 2, Nobody)
      BY <1>1, <3>1
    <3>2. CASE \E s \in Slot : Return("read_directory", IF t[s].attribute THEN 0 ELSE 1,
                                      <<r.parent, s>>)
      <4>1. PICK s \in Slot : Return("read_directory", IF t[s].attribute THEN 0 ELSE 1,
                                     <<r.parent, s>>)
        BY <3>2
      <4>2. Return("read_directory", 0, <<r.parent, s>>) \/ Return("read_directory", 1, <<r.parent, s>>)
        BY <4>1
      <4> QED BY <1>1, <4>2
    <3> QED BY <1>5, <3>1, <3>2 DEF ReadDirectory
  <2> QED BY <1>3, <1>5, <2>1 DEF ReadDirectory
<1>6. CASE WriteBadParent(r)
  BY <1>1, <1>2, <1>3, <1>6 DEF WriteBadParent
<1>7. CASE WriteDuplicate(r, t)
  <2>1. \E p \in Place \cup {Nobody} : Return("write", 1, p)
    BY <1>1, <1>7 DEF WriteDuplicate
  <2> QED BY <1>2, <1>3, <1>7, <2>1 DEF WriteDuplicate
<1>8. CASE DeleteRefused(r, t)
  <2>1. \E code \in {-1, 0, 1, 2}, p \in Place \cup {Nobody} : Return("delete", code, p)
    BY <1>1, <1>8 DEF DeleteRefused
  <2> QED BY <1>3, <1>8, <2>1 DEF DeleteRefused
<1> QED BY <1>4, <1>5, <1>6, <1>7, <1>8

(* A call on a file's block only answers, or says so. *)
LEMMA MisreadCall ==
  ASSUME FatCoherent, NEW r, NEW t, r.parent \in DiskCluster, t # tables[r.parent], CallWith(r, t)
  PROVE  wild' \/ OnlyAnswers
<1>1. CASE \/ ReadRefused(r, t) \/ ReadDirectory(r, t) \/ WriteBadParent(r) \/ WriteDuplicate(r, t)
           \/ DeleteRefused(r, t)
  BY <1>1, Refused
<1> QED BY <1>1 DEF CallWith, ReadFile, MkdirFat, StartWriteFile, DeleteDir, DeleteFile

(* What callers ask for. *)
LEMMA CallKnown ==
  ASSUME FatCoherent, Call, ~wild', ~OnlyAnswers
  PROVE  \E r \in Request : /\ r.parent \in CallerClusters /\ tables[r.parent] # NoTable
                            /\ CallOn(r)
<1>1. PICK r \in Request : r.parent \in CallerClusters /\
        \/ WriteBadParent(r)
        \/ \E t \in TakenFor(r.parent) : CallWith(r, t)
  BY CallRequest
<1>2. r.parent \in DiskCluster
  BY DEF Request
<1>3. ~WriteBadParent(r)
  BY <1>2, Refused
<1>4. PICK t \in TakenFor(r.parent) : CallWith(r, t)
  BY <1>1, <1>3
<1>5. t = tables[r.parent]
  BY <1>2, <1>4, MisreadCall
<1>6. tables[r.parent] # NoTable
  BY <1>4, <1>5, BlockAssumption, SentinelAssumption DEF TakenFor
<1> QED BY <1>1, <1>4, <1>5, <1>6 DEF CallOn

LEMMA CallDirectory ==
  ASSUME FatCoherent, Sound, Call, ~wild', ~OnlyAnswers
  PROVE  \E r \in Request : DirectoryAt(r.parent) /\ CallOn(r)
  BY CallKnown, CallerDirectory DEF Sound, OnDisk

LEMMA SoundAnswers == ASSUME Sound, OnlyAnswers PROVE Sound'
<1>1. pc = "idle" /\ pc' = "return" /\ UNCHANGED <<signature, diskFat, tables, owner>>
  BY DEF OnlyAnswers, Return
<1>2. OnDisk'
  BY <1>1, OnDiskQuiet DEF Sound, OpenEnd, OnDisk, Signed
<1> QED BY <1>1, <1>2, NoCall DEF Sound, Steps

LEMMA SoundCall ==
  ASSUME TypeOK, FatCoherent, Sound, ~wild', Call PROVE Sound'
  BY CallDirectory, SoundCallOn, SoundAnswers

(* Once a call that changes the disk has used a stray word, it stays said.  *)
LEMMA WildStaysDriver == ASSUME wild, Boot \/ Step PROVE wild'
<1>1. CASE Boot
  BY <1>1 DEF Boot, Mount, FormatBoot, FormatFat, FormatRoot
<1>2. CASE Step
  BY <1>2 DEF Step, SyscallReturn, ReadBlock, ReadReturn, MkdirTable, MkdirEntry, FileData, FileFat,
              FileEntry, DeleteDirFat, DeleteWalk, DeleteFree
<1> QED BY <1>1, <1>2

LEMMA WildStaysCallWith == ASSUME wild, NEW r, NEW t, CallWith(r, t) PROVE wild'
  BY DEF CallWith, WriteBadParent, WriteDuplicate, MkdirFat, StartWriteFile, ReadRefused,
         ReadFile, ReadDirectory, DeleteRefused, DeleteDir, DeleteFile

LEMMA WildStays == ASSUME Next, wild PROVE wild'
<1>1. CASE Crash
  BY <1>1 DEF Crash
<1>2. CASE Call
  <2>1. PICK r : WriteBadParent(r) \/ \E t : CallWith(r, t)
    BY <1>2, CallRequest
  <2> QED BY <2>1, WildStaysCallWith DEF CallWith
<1> QED BY <1>1, <1>2, WildStaysDriver DEF Next

(* A step that leaves the driver alone keeps all that. *)
LEMMA SoundStutter == ASSUME Sound, UNCHANGED vars PROVE Sound'
<1>1. OnDisk'
  BY DEF Sound, OnDisk, Signed, NothingYet, Live, FolderTables, FoldersIn, HeadsOwned,
         Owns, NamesOther, ChainsOwned, Linked, OpenEnd
<1>2. Loaded' /\ LoadedHeadsOwned' /\ PlaceFree'
  BY DEF Sound, InCall, Loaded, FoldersIn, LoadedHeadsOwned, Owns, NamesOther, PlaceFree, Live
<1>3. MkdirInFlight' /\ FileStarts' /\ FileGoesOn' /\ WalkInFlight' /\ DirInFlight'
  BY DEF Sound, InCall, MkdirInFlight, FileStarts, FileGoesOn, WalkInFlight,
         DirInFlight, Mine, MyPlace, FirstCluster, FoundFree, OpenEnd, TotalCluster
<1>4. FileLinks'
  BY DEF Sound, InCall, FileLinks, FoundFree, TotalCluster
<1> QED BY <1>1, <1>2, <1>3, <1>4 DEF Sound, InCall

(* Until a call goes astray all that is so. *)
LEMMA SoundAlways == Spec => [](~wild => Sound)
<1>1. ASSUME TypeOK, FatCoherent, ~wild => Sound, [Next]_vars PROVE (~wild => Sound)'
  <2> SUFFICES ASSUME ~wild' PROVE Sound'
    OBVIOUS
  <2>1. CASE UNCHANGED vars
    BY <1>1, <2>1, SoundStutter
  <2>2. CASE Next
    <3>1. ~wild
      BY <1>1, <2>2, WildStays
    <3>2. Sound
      BY <1>1, <3>1
    <3> QED BY <1>1, <2>2, <3>2, SoundBoot, SoundReads, SoundStep, SoundCall, SoundCrash DEF Next, Boot
  <2> QED BY <1>1, <2>1, <2>2
<1> QED BY <1>1, SoundInit, TypeCorrect, Coherent, PTL DEF Spec

(* Whatever was called and wherever the machine stopped, a file or folder   *)
(* that some table names has its first cluster allocated on the disk: the   *)
(* FAT is written before an entry appears and after it is gone.             *)
THEOREM Allocated == Spec => []LiveEntriesAllocated
<1>1. (~wild => Sound) => LiveEntriesAllocated
  <2> SUFFICES ASSUME Sound, NEW c \in DiskCluster, NEW s \in Slot, Live(c, s)
               PROVE  /\ tables[c][s].cluster \in Cluster
                      /\ diskFat[tables[c][s].cluster] # 0
    BY DEF LiveEntriesAllocated, LivePlaces, EntryAt, FAT32_FAT_EMPTY_ENTRY
  <2> DEFINE h == tables[c][s].cluster
  <2>1. h \in Cluster /\ owner[h] = <<c, s>>
    BY ParentOwns DEF Sound, OnDisk, Live, Owns
  <2>2. <<c, s>> # Nobody
    BY SentinelAssumption DEF Place
  <2>3. ~(OpenEnd /\ h = cluster)
    BY <2>1 DEF Sound, InCall, FileGoesOn, Mine, MyPlace, PlaceFree, OpenEnd, Writing
  <2> QED BY <2>1, <2>2, <2>3 DEF Sound, OnDisk, ChainsOwned
<1> QED BY <1>1, SoundAlways, PTL

(* No two of them have the same first cluster, whatever was freed and taken *)
(* again, folders included.                                                 *)
THEOREM Apart ==
  Spec => [](~wild => \A p, q \in LivePlaces : EntryAt(p).cluster = EntryAt(q).cluster => p = q)
<1>1. Sound => \A p, q \in LivePlaces : EntryAt(p).cluster = EntryAt(q).cluster => p = q
  <2> SUFFICES ASSUME Sound PROVE \A p \in LivePlaces : owner[EntryAt(p).cluster] = p
    OBVIOUS
  <2>1. ASSUME NEW c \in DiskCluster, NEW s \in Slot, Live(c, s)
        PROVE  owner[tables[c][s].cluster] = <<c, s>>
    BY <2>1, ParentOwns DEF Sound, OnDisk, Live, Owns
  <2> QED BY <2>1 DEF LivePlaces, EntryAt
<1> QED BY <1>1, SoundAlways, PTL
=============================================================================
