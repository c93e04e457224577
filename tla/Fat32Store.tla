----------------------------- MODULE Fat32Store -----------------------------
(***************************************************************************)
(* What callers are promised, for every size of disk and directory and     *)
(* every sequence of calls: no cluster is lost as long as the machine has  *)
(* not stopped (NoLeak), read returns what is there (ReadFaithful), and    *)
(* the driver implements the store of FileStore, crashes included.         *)
(***************************************************************************)
EXTENDS Fat32Chains, SequenceTheorems

USE DEF vars, disk, locals

-----------------------------------------------------------------------------
(* Space *)

(* What the FAT marks as taken is owned, but for the cluster of a folder    *)
(* whose entry is gone and whose word is about to be zeroed; a format       *)
(* starts from zeros.                                                       *)
Zeroed == pc \in {"off", "format_fat"} => \A c \in Cluster : fat_table[c] = 0
Accounted ==
  crashes = 0 =>
    \A c \in Cluster : c > ROOT_CLUSTER_NUMBER /\ diskFat[c] # 0 =>
      owner[c] # Nobody \/ (pc = "dir_fat" /\ c = cluster)

LEMMA ZeroedAlways == Spec => []Zeroed
<1>1. Init => Zeroed
  BY DEF Init, Zeroed
<1>2. ASSUME Zeroed, [Next]_vars PROVE Zeroed'
  <2>1. CASE UNCHANGED vars
    BY <1>2, <2>1 DEF Zeroed
  <2>2. CASE Boot
    BY <1>2, <2>2 DEF Boot, Mount, FormatBoot, FormatFat, FormatRoot, Zeroed
  <2>3. CASE Step
    <3>1. pc' \notin {"off", "format_fat"}
      BY <2>3 DEF Step, SyscallReturn, ReadBlock, ReadReturn, MkdirTable, MkdirEntry, FileData,
                  FileFat, FileEntry, DeleteDirFat, DeleteWalk, DeleteFree, Return
    <3> QED BY <3>1 DEF Zeroed
  <2>4. CASE Call
    <3>1. PICK r : WriteBadParent(r) \/ \E t : CallWith(r, t)
      BY <2>4, CallRequest
    <3>2. ASSUME NEW t, CallWith(r, t) PROVE pc' \notin {"off", "format_fat"}
      BY <3>2 DEF CallWith, WriteBadParent, WriteDuplicate, MkdirFat, StartWriteFile, ReadRefused,
                  ReadFile, ReadDirectory, DeleteRefused, DeleteDir, DeleteFile, Return, Enter
    <3>3. WriteBadParent(r) => CallWith(r, NoTable)
      BY DEF CallWith
    <3>4. pc' \notin {"off", "format_fat"}
      BY <3>1, <3>2, <3>3
    <3> QED BY <3>4 DEF Zeroed
  <2>5. CASE Crash
    BY <2>5 DEF Crash, Zeroed
  <2> QED BY <1>2, <2>1, <2>2, <2>3, <2>4, <2>5 DEF Next
<1> QED BY <1>1, <1>2, PTL DEF Spec

LEMMA AccountedQuiet ==
  ASSUME Accounted, pc # "dir_fat", UNCHANGED <<diskFat, crashes>>,
         \A c \in Cluster : owner[c] # Nobody => owner'[c] # Nobody
  PROVE  Accounted'
  BY DEF Accounted

(* A folder has one cluster: its own. *)
LEMMA FolderHasOne ==
  ASSUME Sound, Folders, FilesHeld, NEW c \in DiskCluster, NEW s \in Slot, LiveFolder(c, s)
  PROVE  /\ blocks[tables[c][s].cluster] = NoBlock
         /\ \A d \in Cluster : owner[d] = <<c, s>> => d = tables[c][s].cluster
<1> DEFINE h == tables[c][s].cluster
<1>1. h \in Cluster /\ h \in DiskCluster /\ owner[h] = <<c, s>> /\ <<c, s>> # Nobody
  BY FolderOwns DEF LiveFolder
<1>2. tables[h] # NoTable
  BY DEF Folders, FolderNamed, Leads
<1> HIDE DEF h
<1>3. blocks[h] = NoBlock
  BY <1>1, <1>2 DEF FilesHeld, Held, OneKind
<1> QED BY <1>1, <1>3 DEF FilesHeld, Held, OneFile, PartsOfOne, h

LEMMA AccountedBoot == ASSUME TypeOK, Zeroed, Accounted, Boot PROVE Accounted'
<1>1. CASE FormatFat
  <2>1. /\ diskFat' = [fat_table EXCEPT ![0] = CLUSTER_0_VALUE, ![1] = FAT32_FAT_END_OF_FILE,
                                        ![2] = FAT32_FAT_END_OF_FILE]
        /\ \A c \in Cluster : fat_table[c] = 0
    BY <1>1 DEF FormatFat, Zeroed
  <2>2. \A c \in Cluster : c > ROOT_CLUSTER_NUMBER => c # 0 /\ c # 1 /\ c # 2
    BY SmallNumbers DEF ROOT_CLUSTER_NUMBER
  <2>3. \A c \in Cluster : c > ROOT_CLUSTER_NUMBER => diskFat'[c] = fat_table[c]
    BY <2>1, <2>2 DEF TypeOK
  <2> QED BY <2>1, <2>3 DEF Accounted
<1> QED BY <1>1, AccountedQuiet DEF Boot, Mount, FormatBoot, FormatRoot

LEMMA AccountedStep ==
  ASSUME TypeOK, FatCoherent, Sound, Folders, FilesHeld, Accounted, ~wild', Step PROVE Accounted'
<1>1. CASE \/ SyscallReturn \/ ReadBlock \/ ReadReturn \/ MkdirTable \/ MkdirEntry \/ FileEntry
           \/ DeleteWalk
  BY <1>1, AccountedQuiet DEF SyscallReturn, ReadBlock, ReadReturn, MkdirTable, MkdirEntry, FileEntry,
                              DeleteWalk, Return
<1>2. CASE FileData
  <2>1. PICK c \in DiskCluster : owner' = Own(c, MyPlace)
    BY <1>2 DEF FileData
  <2>2. pc = "file_data" /\ UNCHANGED <<diskFat, crashes>>
    BY <1>2 DEF FileData
  <2>3. MyPlace # Nobody
    BY <2>2, BusyTypes, SentinelAssumption DEF Steps
  <2> QED BY <2>1, <2>2, <2>3, AccountedQuiet DEF Own
<1>3. CASE FileFat
  <2>1. pc = "file_fat" /\ diskFat' = fat_table /\ UNCHANGED <<owner, crashes>>
    BY <1>3 DEF FileFat
  <2>2. /\ cluster \in Cluster /\ owner[cluster] # Nobody
        /\ \A d \in Cluster \ {cluster} : fat_table[d] = diskFat[d]
    BY <2>1, BusyTypes, SentinelAssumption
       DEF Sound, InCall, FileGoesOn, FileLinks, OpenEnd, Mine, Steps
  <2> QED BY <2>1, <2>2 DEF Accounted
<1>4. CASE DeleteDirFat
  <2>1. pc = "dir_fat" /\ diskFat' = fat_table /\ UNCHANGED <<owner, crashes>>
    BY <1>4 DEF DeleteDirFat
  <2>2. fat_table[cluster] = 0 /\ \A d \in Cluster \ {cluster} : fat_table[d] = diskFat[d]
    BY <2>1 DEF Sound, InCall, DirInFlight
  <2> QED BY <2>1, <2>2 DEF Accounted
<1>5. CASE DeleteFree
  <2>1. /\ pc = "walk" /\ owner' = Disown(MyPlace) /\ ~MoreToWalk /\ UNCHANGED crashes
        /\ diskFat' = [c \in Cluster |-> IF c \in to_zeros THEN 0 ELSE fat_table[c]]
        /\ fat_table = diskFat
    BY <1>5 DEF DeleteFree, FatCoherent, FAT32_FAT_EMPTY_ENTRY
  <2>2. \A c \in Cluster : owner[c] = MyPlace => c \in to_zeros
    BY <2>1, WalkedAll
  <2> QED BY <2>1, <2>2 DEF Accounted, Disown
<1> QED BY <1>1, <1>2, <1>3, <1>4, <1>5 DEF Step

LEMMA AccountedCall ==
  ASSUME TypeOK, FatCoherent, Sound, Folders, FilesHeld, Accounted, ~wild', Call PROVE Accounted'
<1>4. CASE OnlyAnswers
  BY <1>4, AccountedQuiet DEF OnlyAnswers
<1> SUFFICES ASSUME ~OnlyAnswers PROVE Accounted'
  BY <1>4
<1>1. PICK r \in Request : DirectoryAt(r.parent) /\ CallOn(r)
  BY CallDirectory
<1>2. CASE MkdirFat(r, tables[r.parent])
  <2>1. PICK c \in DiskCluster, s \in Slot \cup {ENTRY_COUNT} :
          /\ fat_table' = SetWord(diskFat, c, FAT32_FAT_END_OF_FILE)
          /\ owner' = Own(c, <<r.parent, s>>)
    BY <1>2 DEF MkdirFat
  <2>2. pc = "idle" /\ diskFat' = fat_table' /\ UNCHANGED crashes
    BY <1>2 DEF MkdirFat
  <2>3. <<r.parent, s>> # Nobody
    BY SentinelAssumption DEF Place, Request
  <2> QED BY <2>1, <2>2, <2>3 DEF Accounted, Own, SetWord
<1>3. CASE DeleteDir(r, tables[r.parent])
  <2>1. PICK s \in Slot :
          /\ IsFirst(s, Victims(tables[r.parent], r)) /\ tables[r.parent][s].attribute
          /\ \E u : Enter("dir_fat", r, u, s, tables[r.parent][s].cluster)
          /\ owner' = Disown(<<r.parent, s>>)
    BY <1>3 DEF DeleteDir
  <2>2. pc = "idle" /\ UNCHANGED <<diskFat, crashes>>
    BY <1>3 DEF DeleteDir
  <2>3. pc' = "dir_fat" /\ cluster' = tables[r.parent][s].cluster
    BY <2>1 DEF Enter
  <2>4. r.parent \in DiskCluster /\ LiveFolder(r.parent, s)
    <3>1. s \in Slot \ {0} /\ tables[r.parent][s].used
      BY <2>1 DEF IsFirst, Victims
    <3> QED BY <1>1, <2>1, <3>1, ParentFolder DEF Sound, OnDisk, LiveFolder, Live
  <2>5. \A d \in Cluster : owner[d] = <<r.parent, s>> => d = cluster'
    BY <2>3, <2>4, FolderHasOne
  <2> QED BY <2>1, <2>2, <2>3, <2>5 DEF Accounted, Disown
<1> QED BY <1>1, <1>2, <1>3, AccountedQuiet DEF CallOn, CallWith, WriteBadParent, WriteDuplicate, StartWriteFile,
           ReadRefused, ReadFile, ReadDirectory, DeleteRefused, DeleteFile, Return, Enter

LEMMA AccountedAlways == Spec => [](~wild => Accounted)
<1>1. ASSUME TypeOK, FatCoherent, Zeroed, ~wild => Sound /\ Folders /\ FilesHeld, ~wild => Accounted,
             [Next]_vars
      PROVE  (~wild => Accounted)'
  <2>1. CASE UNCHANGED vars
    BY <1>1, <2>1 DEF Accounted
  <2>2. CASE Crash
    BY <1>1, <2>2 DEF Crash, Accounted, TypeOK
  <2>3. CASE Next
    BY <1>1, <2>2, <2>3, WildStays, AccountedBoot, AccountedStep, AccountedCall DEF Next
  <2> QED BY <1>1, <2>1, <2>3
<1>2. Init => Accounted
  BY DEF Init, Accounted
<1> QED BY <1>1, <1>2, TypeCorrect, Coherent, ZeroedAlways, FilesAlways, PTL DEF Spec

(* The chain of an entry in use runs through everything it owns. *)
LEMMA ChainReaches ==
  ASSUME TypeOK, Sound, Folders, FilesHeld, NEW c \in DiskCluster, NEW s \in Slot, Live(c, s),
         NEW d \in Cluster, owner[d] = <<c, s>>
  PROVE  d \in Chain(tables[c][s].cluster)
<1> DEFINE h == tables[c][s].cluster
           p == <<c, s>>
<1>1. h \in Cluster /\ owner[h] = p /\ OfLive(p) /\ p # Nobody
  BY FolderOwns DEF OfLive
<1>2. CLUSTER_MAP_SIZE \in Nat /\ h \in Nat
  BY <1>1, SizeAssumption, SmallNumbers
<1>3. CASE d = h
  <2>1. Follow(h)[0] = d
    BY <1>1, <1>2, <1>3, FollowSteps
  <2> HIDE DEF h
  <2> QED BY <1>2, <2>1 DEF Chain, h
<1>4. CASE d # h
  <2>1. PartsOfOne(blocks[d], blocks[h])
    BY <1>1, <1>4 DEF FilesHeld, Held, OneFile
  <2>2. ~tables[c][s].attribute
    BY <2>1, FolderHasOne DEF LiveFolder, PartsOfOne
  <2>3. blocks[h].part = 0 /\ blocks[h] # NoBlock
    BY <2>2 DEF FilesHeld, Held, HeadsStart, Starts
  <2> HIDE DEF h, p
  <2>4. /\ blocks[d] # NoBlock /\ LinkedOn(d) /\ blocks[d].of = blocks[h].of
        /\ blocks[d].part \in Nat /\ blocks[h].of \in Nat /\ blocks[h] \in Block
    BY <1>1, <2>1, Settled, BlockTypes, SmallNumbers DEF PartsOfOne, FilesHeld, Held, PartsLinked, p
  <2>5. PICK j : j = blocks[d].part
    OBVIOUS
  <2>6. j \in 0 .. CLUSTER_MAP_SIZE /\ j < blocks[h].of
    <3>1. j < blocks[h].of /\ blocks[h].of <= CLUSTER_MAP_SIZE
      BY <1>1, <2>3, <2>4, <2>5, PartsFit DEF LinkedOn
    <3> QED BY <1>2, <2>4, <2>5, <3>1
  <2>7. PICK e : e = Follow(h)[j]
    OBVIOUS
  <2>8. e \in Cluster /\ owner[e] = p /\ blocks[e] = [blocks[h] EXCEPT !.part = j]
    BY <1>1, <2>3, <2>6, <2>7, ChainParts
  <2>9. blocks[e].part = j
    BY <2>4, <2>8 DEF Block
  <2>10. e = d
    <3>1. owner[d] = p
      BY DEF p
    <3>2. e # d => PartsOfOne(blocks[e], blocks[d])
      BY <1>1, <2>8, <3>1 DEF FilesHeld, Held, OneFile
    <3>3. blocks[e].part = blocks[d].part
      BY <2>5, <2>9
    <3> QED BY <3>2, <3>3 DEF PartsOfOne
  <2> QED BY <2>6, <2>7, <2>8, <2>10 DEF Chain, h
<1> QED BY <1>3, <1>4

(* As long as the machine has not stopped, an allocated cluster is in the   *)
(* chain of a file or folder that is there: no sequence of calls loses      *)
(* space.                                                                   *)
THEOREM SpaceKept == Spec => []NoLeak
<1>1. ASSUME TypeOK, ~wild => Sound /\ Folders /\ FilesHeld, ~wild => Accounted PROVE NoLeak
  <2> SUFFICES ASSUME Sound, Folders, FilesHeld, Accounted, pc \in {"idle", "return"}, crashes = 0,
                      NEW d \in Cluster \ (0 .. ROOT_CLUSTER_NUMBER), diskFat[d] # 0
               PROVE  \E p \in LivePlaces : d \in Chain(EntryAt(p).cluster)
    BY <1>1 DEF NoLeak, FAT32_FAT_EMPTY_ENTRY
  <2>1. d > ROOT_CLUSTER_NUMBER
    BY SmallNumbers DEF ROOT_CLUSTER_NUMBER
  <2>2. OfLive(owner[d])
    BY <2>1 DEF Accounted, FilesHeld, Held, OwnedLive, Busy, Writing
  <2>3. PICK c \in DiskCluster, s \in Slot : Live(c, s) /\ owner[d] = <<c, s>>
    BY <2>2 DEF OfLive
  <2>4. <<c, s>> \in LivePlaces /\ d \in Chain(EntryAt(<<c, s>>).cluster)
    BY <1>1, <2>3, ChainReaches DEF LivePlaces, EntryAt
  <2> QED BY <2>4
<1> QED BY <1>1, TypeCorrect, FilesAlways, AccountedAlways, PTL

-----------------------------------------------------------------------------
(* Read *)

(* While a file that is there is read, the buffer holds its first parts,    *)
(* and the next is at hand.                                                 *)
Parts(b, n) == [j \in 1 .. n |-> [b EXCEPT !.part = j - 1]]
ReadSoFar ==
  pc = "read" =>
    /\ dir_table_buf = tables[request.parent] /\ ~dir_table_buf[slot].attribute
    /\ Live(request.parent, slot) =>
         /\ Mine(FirstCluster) /\ Starts(blocks, dir_table_buf[slot])
         /\ i <= blocks[FirstCluster].of
         /\ buf = Parts(blocks[FirstCluster], i)
         /\ i < blocks[FirstCluster].of => Mine(cluster) /\ blocks[cluster].part = i
         /\ i = blocks[FirstCluster].of => EndOfChain(cluster)
NoAnswer == pc \notin {"read", "return"} => buf = <<>>
Answered ==
  pc = "return" /\ reply.op = "read" /\ reply.code = 0 /\ reply.place \in LivePlaces
    => LET b == blocks[EntryAt(reply.place).cluster] IN b # NoBlock /\ buf = Parts(b, b.of)
Reads == NoAnswer /\ ReadSoFar /\ Answered

(* A function on 1 .. n is a sequence of n; one more makes it one of n + 1. *)
LEMMA SeqOf ==
  ASSUME NEW S, NEW n \in Nat, NEW s \in [1 .. n -> S]
  PROVE  s \in Seq(S) /\ Len(s) = n
<1>1. s \in Seq(S)
  BY SeqDef, Zenon
<1>2. Len(s) \in Nat /\ 1 .. n = 1 .. Len(s)
  BY <1>1, LenProperties
<1>3. Len(s) = n
  <2>1. n > 0 => n \in 1 .. Len(s)
    BY <1>2
  <2>2. Len(s) > 0 => Len(s) \in 1 .. n
    BY <1>2
  <2> QED BY <1>2, <2>1, <2>2
<1> QED BY <1>1, <1>3

LEMMA SeqGrow ==
  ASSUME NEW S, NEW n \in Nat, NEW s \in [1 .. n -> S], NEW t \in [1 .. n + 1 -> S],
         \A j \in 1 .. n : t[j] = s[j]
  PROVE  Append(s, t[n + 1]) = t
<1>1. s \in Seq(S) /\ Len(s) = n /\ t \in Seq(S) /\ Len(t) = n + 1
  BY SeqOf
<1>2. t[n + 1] \in S
  OBVIOUS
<1>3. /\ Append(s, t[n + 1]) \in Seq(S) /\ Len(Append(s, t[n + 1])) = n + 1
      /\ \A j \in 1 .. n : Append(s, t[n + 1])[j] = s[j]
      /\ Append(s, t[n + 1])[n + 1] = t[n + 1]
  BY <1>1, <1>2, AppendProperties
<1>4. \A j \in 1 .. n + 1 : Append(s, t[n + 1])[j] = t[j]
  <2>1. \A j \in 1 .. n + 1 : j \in 1 .. n \/ j = n + 1
    OBVIOUS
  <2> QED BY <1>3, <2>1
<1> QED BY <1>1, <1>3, <1>4, SeqEqual

LEMMA PartsGrow ==
  ASSUME NEW b \in Block, NEW n \in Nat
  PROVE  Append(Parts(b, n), [b EXCEPT !.part = n]) = Parts(b, n + 1)
<1>1. \A m \in Nat : [b EXCEPT !.part = m] \in Block
  BY DEF Block
<1>2. \A m \in Nat : /\ Parts(b, m) \in [1 .. m -> Block]
                     /\ \A j \in 1 .. m : Parts(b, m)[j] = [b EXCEPT !.part = j - 1]
  BY <1>1 DEF Parts
<1> DEFINE s == Parts(b, n)
           t == Parts(b, n + 1)
<1>3. /\ s \in [1 .. n -> Block] /\ t \in [1 .. n + 1 -> Block]
      /\ \A j \in 1 .. n : t[j] = s[j]
      /\ t[n + 1] = [b EXCEPT !.part = n]
  <2>1. /\ n + 1 \in Nat /\ n + 1 \in 1 .. n + 1 /\ n + 1 - 1 = n
        /\ \A j \in 1 .. n : j \in 1 .. n + 1
    OBVIOUS
  <2>2. s \in [1 .. n -> Block] /\ t \in [1 .. n + 1 -> Block]
    BY <1>2, <2>1
  <2>3. \A j \in 1 .. n : t[j] = s[j]
    BY <1>2, <2>1
  <2>4. t[n + 1] = [b EXCEPT !.part = n + 1 - 1]
    BY <1>2, <2>1
  <2> HIDE DEF s, t
  <2> QED BY <2>1, <2>2, <2>3, <2>4
<1> HIDE DEF s, t
<1> QED BY <1>3, SeqGrow DEF s, t

(* No cluster of the disk reads as the end of a chain; the end mark does.   *)
LEMMA EndMark ==
  /\ EndOfChain(Trunc16(FAT32_FAT_END_OF_FILE))
  /\ \A c \in Cluster : ~EndOfChain(c)
<1>1. EndOfChain(Trunc16(FAT32_FAT_END_OF_FILE))
  BY SMT DEF EndOfChain, Trunc16, FAT32_FAT_END_OF_FILE
<1>2. \A c \in Cluster : c \in Nat /\ c < FIRST_RESERVED
  BY SizeAssumption, Constants DEF Cluster
<1> QED BY <1>1, <1>2, SMT DEF EndOfChain, FIRST_RESERVED

LEMMA ReadsReadFile ==
  ASSUME TypeOK, Sound, FilesHeld, Reads, NEW r \in Request, DirectoryAt(r.parent), ReadFile(r, tables[r.parent])
  PROVE  Reads'
<1>1. PICK s \in Slot :
        /\ IsFirst(s, SameFile(tables[r.parent], r)) /\ ~tables[r.parent][s].attribute
        /\ Enter("read", r, tables[r.parent], s, tables[r.parent][s].cluster)
  BY DEF ReadFile
<1>0. PICK c : c = tables[r.parent][s].cluster
  OBVIOUS
<1>2. /\ pc = "idle" /\ UNCHANGED <<tables, blocks, owner>>
      /\ pc' = "read" /\ request' = r /\ slot' = s /\ cluster' = c /\ i' = 0
      /\ dir_table_buf' = tables[r.parent] /\ buf' = <<>>
  BY <1>0, <1>1 DEF ReadFile, Enter, Reads, NoAnswer
<1>3. FirstCluster' = c /\ MyPlace' = <<r.parent, s>>
  BY <1>0, <1>2 DEF FirstCluster, MyPlace
<1>4. r.parent \in DiskCluster
  BY SmallNumbers DEF DirectoryAt
<1>5. ASSUME Live(r.parent, s)
      PROVE  /\ Mine(c)' /\ Starts(blocks, tables[r.parent][s])
             /\ blocks[c].part = 0 /\ blocks[c].of \in Nat /\ 0 < blocks[c].of
  <2>1. /\ c \in Cluster /\ c \in DiskCluster /\ owner[c] = <<r.parent, s>>
        /\ OfLive(owner[c]) /\ owner[c] # Nobody
    BY <1>0, <1>4, <1>5, FolderOwns DEF OfLive
  <2>2. Starts(blocks, tables[r.parent][s])
    BY <1>1, <1>4, <1>5 DEF FilesHeld, Held, HeadsStart
  <2>3. blocks[c] # NoBlock /\ blocks[c].part = 0
    BY <1>0, <2>2 DEF Starts
  <2>4. LinkedOn(c)
    BY <2>1, <2>3, Settled DEF FilesHeld, Held, PartsLinked
  <2> QED BY <1>2, <1>3, <2>1, <2>2, <2>3, <2>4, BlockTypes DEF LinkedOn, Mine
<1>6. ReadSoFar'
  <2>1. Live(request.parent, slot)' => Live(r.parent, s)
    BY <1>2 DEF Live
  <2>2. \A b : Parts(b, 0) = <<>>
    BY DEF Parts
  <2>3. SUFFICES ASSUME Live(r.parent, s)
                 PROVE  /\ Mine(FirstCluster)' /\ Starts(blocks, dir_table_buf[slot])'
                        /\ 0 <= blocks[c].of
                        /\ buf' = Parts(blocks[c], 0)
                        /\ Mine(cluster)' /\ blocks[c].part = 0
                        /\ 0 # blocks[c].of
    <3>1. (dir_table_buf = tables[request.parent] /\ ~dir_table_buf[slot].attribute)'
      BY <1>1, <1>2
    <3>2. (buf = Parts(blocks[FirstCluster], i))' <=> buf' = Parts(blocks[c], 0)
      BY <1>2, <1>3
    <3> QED BY <1>2, <1>3, <2>1, <3>1, <3>2 DEF ReadSoFar
  <2>4. Mine(FirstCluster)' /\ Mine(cluster)'
    BY <1>2, <1>3, <1>5, <2>3 DEF Mine
  <2>5. Starts(blocks, dir_table_buf[slot])'
    BY <1>2, <1>5, <2>3 DEF Starts, Covers
  <2> QED BY <1>2, <1>5, <2>2, <2>3, <2>4, <2>5
<1> QED BY <1>2, <1>6 DEF Reads, NoAnswer, Answered

LEMMA ReadsReadBlock ==
  ASSUME TypeOK, FatCoherent, Sound, FilesHeld, Reads, ReadBlock PROVE Reads'
<1> DEFINE h == FirstCluster
<1>1. /\ pc = "read" /\ pc' = "read" /\ i' = i + 1 /\ i \in Nat /\ ~EndOfChain(cluster)
      /\ buf' = Append(buf, IF cluster \in DiskCluster THEN blocks[cluster] ELSE NoBlock)
      /\ \E w \in WordsAt(fat_table, cluster) : cluster' = Trunc16(w)
      /\ UNCHANGED <<diskFat, tables, blocks, dir_table_buf, request, slot, owner>>
      /\ FirstCluster' = FirstCluster /\ MyPlace' = MyPlace /\ fat_table = diskFat
  BY DEF ReadBlock, MoreToRead, FirstCluster, MyPlace, TypeOK, FatCoherent
<1>2. dir_table_buf = tables[request.parent] /\ ~dir_table_buf[slot].attribute
  BY <1>1 DEF Reads, ReadSoFar
<1>3. ASSUME Live(request.parent, slot)
      PROVE  /\ Mine(h) /\ Starts(blocks, dir_table_buf[slot]) /\ blocks[h].of \in Nat
             /\ i + 1 <= blocks[h].of
             /\ buf' = Parts(blocks[h], i + 1)
             /\ i + 1 < blocks[h].of => Mine(cluster') /\ blocks[cluster'].part = i + 1
             /\ i + 1 = blocks[h].of => EndOfChain(cluster')
  <2>1. /\ Mine(h) /\ Starts(blocks, dir_table_buf[slot]) /\ i <= blocks[h].of
        /\ buf = Parts(blocks[h], i)
        /\ i < blocks[h].of => Mine(cluster) /\ blocks[cluster].part = i
        /\ i # blocks[h].of
    BY <1>1, <1>3 DEF Reads, ReadSoFar
  <2>2. /\ blocks[h] # NoBlock /\ blocks[h].of \in Nat /\ blocks[h] \in Block
        /\ h \in Cluster /\ owner[h] = MyPlace
    BY <2>1, BlockTypes, SmallNumbers DEF Starts, Mine, FirstCluster
  <2>3. /\ i < blocks[h].of /\ cluster \in Cluster /\ cluster \in DiskCluster
        /\ owner[cluster] = MyPlace /\ blocks[cluster].part = i
    BY <1>1, <2>1, <2>2, SmallNumbers DEF Mine
  <2>4. OfLive(MyPlace) /\ MyPlace # Nobody
    <3>1. request.parent \in DiskCluster /\ slot \in Slot
      BY <1>1, BusyTypes DEF Steps, TypeOK
    <3> QED BY <1>3, <3>1, PlacesOwn DEF OfLive, MyPlace
  <2>5. /\ blocks[cluster] # NoBlock /\ blocks[cluster].data = blocks[h].data
        /\ blocks[cluster].of = blocks[h].of /\ LinkedOn(cluster)
    BY <2>2, <2>3, <2>4, SameFileParts, Settled DEF FilesHeld, Held, PartsLinked
  <2>6. blocks[cluster] = [blocks[h] EXCEPT !.part = i]
    <3>1. blocks[cluster] = [data |-> blocks[h].data, part |-> i, of |-> blocks[h].of]
      BY <2>3, <2>5, BlockTypes
    <3> QED BY <2>2, <3>1 DEF Block
  <2>7. cluster' = Trunc16(diskFat[cluster])
    BY <1>1, <2>3 DEF WordsAt
  <2>8. buf' = Parts(blocks[h], i + 1)
    <3>1. buf' = Append(Parts(blocks[h], i), [blocks[h] EXCEPT !.part = i])
      BY <1>1, <2>1, <2>3, <2>6
    <3> HIDE DEF h
    <3> QED BY <1>1, <2>2, <3>1, PartsGrow
  <2>9. i + 1 < blocks[h].of => Mine(cluster') /\ blocks[cluster'].part = i + 1
    <3>1. ASSUME i + 1 < blocks[h].of PROVE NextPart(cluster)
      BY <1>1, <2>2, <2>3, <2>5, <3>1 DEF LinkedOn
    <3> QED BY <2>3, <2>7, <3>1, SmallNumbers DEF NextPart, Mine
  <2>10. i + 1 = blocks[h].of => EndOfChain(cluster')
    <3>1. ASSUME i + 1 = blocks[h].of PROVE diskFat[cluster] = FAT32_FAT_END_OF_FILE
      BY <1>1, <2>2, <2>3, <2>5, <3>1 DEF LinkedOn
    <3> QED BY <2>7, <3>1, EndMark
  <2>11. i + 1 <= blocks[h].of
    BY <1>1, <2>2, <2>3
  <2> QED BY <2>1, <2>2, <2>8, <2>9, <2>10, <2>11
<1> HIDE DEF h
<1>4. ReadSoFar'
  <2>1. h = FirstCluster
    BY DEF h
  <2>2. (dir_table_buf = tables[request.parent] /\ ~dir_table_buf[slot].attribute)'
    BY <1>1, <1>2
  <2>3. Live(request.parent, slot)' => Live(request.parent, slot)
    BY <1>1 DEF Live
  <2>4. ASSUME Live(request.parent, slot)
        PROVE  /\ Mine(FirstCluster)' /\ Starts(blocks, dir_table_buf[slot])'
               /\ (i + 1 < blocks[h].of => Mine(cluster)')
    BY <1>1, <1>3, <2>1, <2>4 DEF Mine, Starts, Covers
  <2>5. (buf = Parts(blocks[FirstCluster], i))' <=> buf' = Parts(blocks[h], i + 1)
    BY <1>1, <2>1
  <2> QED BY <1>1, <1>3, <2>1, <2>2, <2>3, <2>4, <2>5 DEF ReadSoFar
<1> QED BY <1>1, <1>4 DEF Reads, NoAnswer, Answered

(* The loop ends when the size, or the chain, is exhausted: not before the  *)
(* last part, which the size reaches and the end mark follows.              *)
LEMMA ReadsReadReturn == ASSUME TypeOK, Sound, FilesHeld, Reads, ReadReturn PROVE Reads'
<1>1. /\ pc = "read" /\ pc' = "return" /\ reply'.place = MyPlace /\ ~MoreToRead
      /\ UNCHANGED <<tables, blocks, buf>>
  BY DEF ReadReturn, Return
<1>2. dir_table_buf = tables[request.parent] /\ ~dir_table_buf[slot].attribute
  BY <1>1 DEF Reads, ReadSoFar
<1>3. request.parent \in DiskCluster /\ slot \in Slot /\ dir_table_buf \in Table /\ i \in Nat
  BY <1>1, BusyTypes DEF Steps, TypeOK
<1>4. ASSUME Live(request.parent, slot)
      PROVE  blocks[FirstCluster] # NoBlock /\ buf = Parts(blocks[FirstCluster], blocks[FirstCluster].of)
  <2> DEFINE h == FirstCluster
             size == dir_table_buf[slot].filesize
  <2>1. /\ Mine(h) /\ Starts(blocks, dir_table_buf[slot]) /\ i <= blocks[h].of
        /\ buf = Parts(blocks[h], i)
        /\ i < blocks[h].of => Mine(cluster)
    BY <1>1, <1>4 DEF Reads, ReadSoFar
  <2>2. blocks[h] # NoBlock /\ Covers(size, blocks[h].of) /\ h \in DiskCluster
    BY <2>1, SmallNumbers DEF Starts, Mine, FirstCluster
  <2>3. blocks[h].of \in Nat /\ size \in Nat
    BY <1>3, <2>2, BlockTypes DEF Table, Entry
  <2>4. DivCeil(size, CLUSTER_SIZE) \in Nat
    BY <2>3, SizeAssumption DEF DivCeil
  <2>5. ~(i < DivCeil(size, CLUSTER_SIZE)) \/ EndOfChain(cluster)
    BY <1>1 DEF MoreToRead
  <2> HIDE DEF h, size
  <2>6. EndOfChain(cluster) => cluster \notin Cluster
    BY EndMark
  <2>7. blocks[h].of <= DivCeil(size, CLUSTER_SIZE)
    BY <2>2, <2>3, CoveredParts
  <2>8. i = blocks[h].of
    BY <1>3, <2>1, <2>3, <2>4, <2>5, <2>6, <2>7 DEF Mine
  <2> QED BY <2>1, <2>2, <2>8 DEF h
<1>5. Answered'
  <2>1. SUFFICES ASSUME MyPlace \in LivePlaces'
                 PROVE  LET b == blocks[FirstCluster] IN b # NoBlock /\ buf = Parts(b, b.of)
    <3>1. \A p : p = MyPlace => tables'[p[1]][p[2]] = dir_table_buf[slot]
      BY <1>1, <1>2 DEF MyPlace
    <3>2. blocks'[tables'[MyPlace[1]][MyPlace[2]].cluster] = blocks[FirstCluster]
      BY <1>1, <3>1 DEF FirstCluster
    <3> QED BY <1>1, <3>2 DEF Answered, EntryAt
  <2>2. Live(request.parent, slot)
    BY <1>1, <2>1 DEF LivePlaces, MyPlace, Live
  <2> QED BY <1>4, <2>2
<1> QED BY <1>1, <1>5 DEF Reads, NoAnswer, ReadSoFar

(* Nothing else reads. *)
LEMMA ReadsQuiet ==
  ASSUME pc' # "read", pc' = "return" => ~(reply'.op = "read" /\ reply'.code = 0),
         pc' # "return" => buf' = <<>>
  PROVE  Reads'
  BY DEF Reads, NoAnswer, ReadSoFar, Answered

LEMMA ReadsStep ==
  ASSUME TypeOK, FatCoherent, Sound, FilesHeld, Reads, Step PROVE Reads'
<1>1. CASE ReadBlock \/ ReadReturn
  BY <1>1, ReadsReadBlock, ReadsReadReturn
<1>2. CASE SyscallReturn
  BY <1>2, ReadsQuiet DEF SyscallReturn
<1>3. CASE MkdirTable \/ FileData \/ FileFat \/ DeleteWalk
  <2>1. pc \notin {"read", "return"} /\ pc' \notin {"read", "return"} /\ buf' = buf
    BY <1>3 DEF MkdirTable, FileData, FileFat, DeleteWalk
  <2> QED BY <2>1, ReadsQuiet DEF Reads, NoAnswer
<1>4. CASE MkdirEntry \/ FileEntry \/ DeleteDirFat \/ DeleteFree
  <2>1. pc' = "return" /\ reply'.op # "read"
    BY <1>4 DEF MkdirEntry, FileEntry, DeleteDirFat, DeleteFree, Return
  <2> QED BY <2>1, ReadsQuiet
<1> QED BY <1>1, <1>2, <1>3, <1>4 DEF Step

LEMMA ReadsCall ==
  ASSUME TypeOK, FatCoherent, Sound, FilesHeld, Reads, ~wild', Call PROVE Reads'
<1>6. CASE OnlyAnswers
  BY <1>6, ReadsQuiet DEF OnlyAnswers, Return
<1> SUFFICES ASSUME ~OnlyAnswers PROVE Reads'
  BY <1>6
<1>1. PICK r \in Request : DirectoryAt(r.parent) /\ CallOn(r)
  BY CallDirectory
<1>2. CASE ReadFile(r, tables[r.parent])
  BY <1>1, <1>2, ReadsReadFile
<1>3. CASE MkdirFat(r, tables[r.parent]) \/ StartWriteFile(r, tables[r.parent]) \/ DeleteDir(r, tables[r.parent]) \/ DeleteFile(r, tables[r.parent])
  <2>1. pc = "idle" /\ pc' \notin {"read", "return"} /\ buf' = buf
    BY <1>3 DEF MkdirFat, StartWriteFile, DeleteDir, DeleteFile, Enter
  <2> QED BY <2>1, ReadsQuiet DEF Reads, NoAnswer
<1>4. CASE ReadRefused(r, tables[r.parent])
  <2>1. pc' = "return" /\ reply'.code # 0
    BY <1>4 DEF ReadRefused, Return
  <2> QED BY <2>1, ReadsQuiet
<1>5. CASE WriteBadParent(r) \/ WriteDuplicate(r, tables[r.parent]) \/ ReadDirectory(r, tables[r.parent]) \/ DeleteRefused(r, tables[r.parent])
  <2>1. pc' = "return" /\ reply'.op # "read"
    BY <1>5 DEF WriteBadParent, WriteDuplicate, ReadDirectory, DeleteRefused, Return
  <2> QED BY <2>1, ReadsQuiet
<1> QED BY <1>1, <1>2, <1>3, <1>4, <1>5 DEF CallOn, CallWith

LEMMA ReadsAlways == Spec => [](~wild => Reads)
<1>1. Init => Reads
  BY DEF Init, Reads, NoAnswer, ReadSoFar, Answered
<1>2. ASSUME TypeOK, FatCoherent, ~wild => Sound /\ Folders /\ FilesHeld, ~wild => Reads, [Next]_vars
      PROVE  (~wild => Reads)'
  <2>1. CASE UNCHANGED vars
    <3>1. ReadSoFar => ReadSoFar'
      BY <2>1 DEF ReadSoFar, Live, Mine, MyPlace, FirstCluster, Starts, Covers, Parts
    <3>2. Answered => Answered'
      BY <2>1 DEF Answered, LivePlaces, Live, EntryAt, Parts
    <3> QED BY <1>2, <2>1, <3>1, <3>2 DEF Reads, NoAnswer
  <2>2. CASE Boot
    <3>1. pc \notin {"read", "return"} /\ pc' \notin {"read", "return"} /\ UNCHANGED <<buf, wild>>
      BY <2>2 DEF Boot, Mount, FormatBoot, FormatFat, FormatRoot
    <3> QED BY <1>2, <3>1, ReadsQuiet DEF Reads, NoAnswer
  <2>3. CASE Crash
    BY <2>3, ReadsQuiet DEF Crash
  <2>4. CASE Step \/ Call
    <3>1. ~wild' => ~wild
      BY <1>2, <2>4, WildStays DEF Next
    <3> QED BY <1>2, <2>4, <3>1, ReadsStep, ReadsCall
  <2> QED BY <1>2, <2>1, <2>2, <2>3, <2>4 DEF Next
<1> QED BY <1>1, <1>2, TypeCorrect, Coherent, FilesAlways, PTL DEF Spec

(* A read that returns 0 for a file that is there has given all its blocks, *)
(* in order and nothing else, however the file was linked over the disk.    *)
THEOREM ReadsWhole == Spec => []ReadFaithful
<1>1. ASSUME ~wild => Reads PROVE ReadFaithful
  BY <1>1 DEF Reads, Answered, ReadFaithful, Parts
<1> QED BY <1>1, ReadsAlways, PTL

-----------------------------------------------------------------------------
(* The store *)

(* What callers see is what the tables and the heads of files show, because *)
(* every file is whole.                                                     *)
Shown(bl, e) == [folder |-> e.attribute, name |-> e.name, ext |-> e.ext,
                 content |-> IF e.attribute THEN e.cluster ELSE bl[e.cluster]]
Places == DiskCluster \X Slot
View == [p \in Places |-> IF Live(p[1], p[2]) THEN Shown(blocks, tables[p[1]][p[2]]) ELSE Nobody]

Plain == INSTANCE FileStore WITH Place <- Places, Nothing <- Nobody, store <- View, damaged <- wild

LEMMA SeenPlain == ASSUME TypeOK, Sound, FilesHeld PROVE StoreView = View
<1> SUFFICES ASSUME NEW c \in DiskCluster, NEW s \in Slot, Live(c, s)
             PROVE  Object(<<c, s>>) = Shown(blocks, tables[c][s])
  BY DEF StoreView, View, LivePlaces, Places
<1>1. tables[c][s].attribute \/ Whole(tables[c][s].cluster)
  BY FileWhole
<1> QED BY <1>1 DEF Object, EntryAt, Shown

LEMMA ShownFields ==
  \A bl, e : /\ Shown(bl, e).folder = e.attribute
             /\ Shown(bl, e).name = e.name /\ Shown(bl, e).ext = e.ext
             /\ e.attribute => Shown(bl, e).content = e.cluster
  BY DEF Shown

(* What the view says of a place. *)
ViewTells ==
  \A c \in DiskCluster, s \in Slot :
    /\ View[<<c, s>>] # Nobody <=> Live(c, s)
    /\ Live(c, s) => View[<<c, s>>] = Shown(blocks, tables[c][s])

LEMMA Tells == TypeOK => ViewTells
<1> SUFFICES ASSUME TypeOK, NEW c \in DiskCluster, NEW s \in Slot
             PROVE  /\ View[<<c, s>>] # Nobody <=> Live(c, s)
                    /\ Live(c, s) => View[<<c, s>>] = Shown(blocks, tables[c][s])
  BY DEF ViewTells
<1>1. View[<<c, s>>] = IF Live(c, s) THEN Shown(blocks, tables[c][s]) ELSE Nobody
  BY DEF View, Places
<1>2. ASSUME Live(c, s) PROVE Shown(blocks, tables[c][s]) # Nobody
  <2>1. tables[c][s] \in Entry
    BY <1>2 DEF TypeOK, Live, Table
  <2>2. tables[c][s].cluster \in DiskCluster /\ blocks[tables[c][s].cluster] \in Block \cup {NoBlock}
    BY <2>1 DEF TypeOK, Entry
  <2> QED BY <2>1, <2>2, ObjectAssumption DEF Shown, Entry
<1> QED BY <1>1, <1>2

LEMMA ViewStays == ASSUME Sound, EntriesStay PROVE View' = View
<1> SUFFICES ASSUME NEW c \in DiskCluster, NEW s \in Slot, Live(c, s)
             PROVE  Shown(blocks', tables'[c][s]) = Shown(blocks, tables[c][s])
  BY DEF View, Places, EntriesStay
<1>1. tables[c][s].cluster \in Cluster /\ OfLive(owner[tables[c][s].cluster])
  BY FolderOwns DEF OfLive
<1> QED BY <1>1 DEF EntriesStay, Shown

LEMMA ViewQuiet == ASSUME UNCHANGED <<tables, blocks>> PROVE View' = View
  BY DEF View, Live

(* One place changes. *)
LEMMA ViewOne ==
  ASSUME NEW c \in DiskCluster, NEW k \in Slot, UNCHANGED blocks, OtherEntriesStay(c, k)
  PROVE  \A o : View'[<<c, k>>] = o => View' = [View EXCEPT ![<<c, k>>] = o]
<1> SUFFICES View' = [View EXCEPT ![<<c, k>>] = View'[<<c, k>>]]
  OBVIOUS
<1>1. ASSUME NEW d \in DiskCluster, NEW s \in Slot, <<d, s>> # <<c, k>>
      PROVE  View'[<<d, s>>] = View[<<d, s>>]
  BY <1>1 DEF OtherEntriesStay, View, Places
<1>2. View = [p \in Places |-> View[p]] /\ View' = [p \in Places |-> View'[p]]
  BY DEF View
<1>3. \A p \in Places : p # <<c, k>> => View'[p] = View[p]
  BY <1>1 DEF Places
<1> HIDE DEF View
<1> QED BY <1>2, <1>3

LEMMA ViewAppears ==
  ASSUME ViewTells, ViewTells', NEW c, NEW k, NEW e, Appears(c, k, e)
  PROVE  /\ <<c, k>> \in Places /\ View[<<c, k>>] = Nobody
         /\ View'[<<c, k>>] = Shown(blocks, e) /\ View'[<<c, k>>] # Nobody
         /\ View' = [View EXCEPT ![<<c, k>>] = View'[<<c, k>>]]
<1>1. c \in DiskCluster /\ k \in Slot
  BY DEF Appears
<1>2. View' = [View EXCEPT ![<<c, k>>] = View'[<<c, k>>]]
  BY <1>1, ViewOne DEF Appears
<1>3. View'[<<c, k>>] = Shown(blocks, e)
  BY <1>1 DEF ViewTells, Appears
<1> QED BY <1>1, <1>2, <1>3 DEF ViewTells, Appears, Places

LEMMA ViewDisappears ==
  ASSUME ViewTells, ViewTells', NEW c \in DiskCluster, NEW k \in Slot,
         Live(c, k), ~Live(c, k)', UNCHANGED blocks, OtherEntriesStay(c, k)
  PROVE  /\ <<c, k>> \in Places /\ View[<<c, k>>] # Nobody
         /\ View[<<c, k>>].folder = tables[c][k].attribute
         /\ tables[c][k].attribute => View[<<c, k>>].content = tables[c][k].cluster
         /\ View' = [View EXCEPT ![<<c, k>>] = Nobody]
<1>1. View'[<<c, k>>] = Nobody
  BY DEF ViewTells
<1>2. View' = [View EXCEPT ![<<c, k>>] = Nobody]
  BY <1>1, ViewOne
<1>3. View[<<c, k>>] # Nobody /\ View[<<c, k>>] = Shown(blocks, tables[c][k])
  BY DEF ViewTells
<1> QED BY <1>2, <1>3, ShownFields DEF Places

(* A directory in which nothing is, has no children. *)
LEMMA NoChildren ==
  ASSUME ViewTells, NEW d, Vacant(d) PROVE Plain!Children(d) = {}
  BY DEF Plain!Children, ViewTells, Vacant, Places

LEMMA StoreMkdirEntry ==
  ASSUME TypeOK, FatCoherent, Sound, Folders, FilesHeld, ViewTells, ViewTells', MkdirEntry
  PROVE  Plain!Next
<1>1. PICK c, k, e : /\ c = request.parent /\ k = slot /\ e = SelfEntry(request.name, cluster)
                     /\ Appears(c, k, e)
  BY FilesMkdirEntry
<1>2. PICK d : d = cluster
  OBVIOUS
<1> DEFINE p == <<c, k>>
<1>3. pc = "mkdir_entry" /\ wild' = wild
  BY DEF MkdirEntry
<1>4. e.attribute /\ e.cluster = d
  BY <1>1, <1>2 DEF SelfEntry, EmptyEntry
<1>5. /\ p \in Places /\ View[p] = Nobody /\ View'[p] = Shown(blocks, e) /\ View'[p] # Nobody
      /\ View' = [View EXCEPT ![p] = View'[p]]
  BY <1>1, ViewAppears
<1>6. View'[p].folder /\ View'[p].content = d
  BY <1>4, <1>5 DEF Shown
<1>7. Plain!Children(d) = {}
  BY <1>2, <1>3, NoChildren DEF FilesHeld, InHand, FolderEmpty, InMkdir
<1>8. ASSUME NEW q \in Places, View[q] # Nobody, View[q].folder PROVE View[q].content # d
  <2>1. PICK b \in DiskCluster, s \in Slot : q = <<b, s>> /\ Live(b, s) /\ OfLive(q)
    BY <1>8 DEF ViewTells, Places, OfLive
  <2>2. View[q] = Shown(blocks, tables[b][s])
    BY <2>1 DEF ViewTells
  <2>3. View[q].content = tables[b][s].cluster
    BY <1>8, <2>2, ShownFields
  <2>4. owner[tables[b][s].cluster] = q
    BY <2>1, FolderOwns
  <2>5. owner[d] = MyPlace /\ ~OfLive(MyPlace)
    BY <1>2, <1>3, OthersPlace DEF Sound, InCall, MkdirInFlight, Mine, Writing
  <2> QED BY <2>1, <2>3, <2>4, <2>5
<1> HIDE DEF p
<1>9. Plain!CreateFolder(p, View'[p])
  BY <1>3, <1>5, <1>6, <1>7, <1>8 DEF Plain!CreateFolder, Plain!Put
<1> QED BY <1>5, <1>9 DEF Plain!Next

LEMMA StoreFileEntry ==
  ASSUME TypeOK, FatCoherent, Sound, Folders, FilesHeld, ViewTells, ViewTells', FileEntry
  PROVE  Plain!Next
<1>1. PICK c, k, e : /\ c = request.parent /\ k = slot /\ e = dir_table_buf[slot]
                     /\ Appears(c, k, e)
  BY FilesFileEntry
<1> DEFINE p == <<c, k>>
<1>2. pc = "file_entry" /\ wild' = wild
  BY DEF FileEntry
<1>3. ~e.attribute
  BY <1>1, <1>2 DEF Folders, LoadedFrom, Writing, InMkdir
<1>4. /\ p \in Places /\ View[p] = Nobody /\ View'[p] = Shown(blocks, e) /\ View'[p] # Nobody
      /\ View' = [View EXCEPT ![p] = View'[p]]
  BY <1>1, ViewAppears
<1>5. ~View'[p].folder /\ View'[p].name = e.name /\ View'[p].ext = e.ext
  BY <1>3, <1>4 DEF Shown
<1>6. ASSUME NEW q \in Plain!Children(c), ~View[q].folder
      PROVE  <<View[q].name, View[q].ext>> # <<e.name, e.ext>>
  <2>1. PICK s \in Slot : q = <<c, s>> /\ View[q] # Nobody
    BY <1>6 DEF Plain!Children, Places
  <2>2. c \in DiskCluster /\ ~Live(c, k)
    BY <1>1 DEF Appears
  <2>3. Live(c, s) /\ View[q] = Shown(blocks, tables[c][s])
    BY <2>1, <2>2 DEF ViewTells
  <2>4. s # k /\ tables[c][s] = dir_table_buf[s]
    BY <1>1, <1>2, <2>2, <2>3, WriteFacts DEF Writing
  <2>5. dir_table_buf[s].name # e.name \/ dir_table_buf[s].ext # e.ext
    BY <1>1, <1>2, <2>4 DEF FilesHeld, InHand, NameFree, InFile
  <2> QED BY <2>3, <2>4, <2>5 DEF Shown
<1>7. p[1] = c
  OBVIOUS
<1> HIDE DEF p
<1>8. Plain!CreateFile(p, View'[p])
  BY <1>2, <1>4, <1>5, <1>6, <1>7 DEF Plain!CreateFile, Plain!Put
<1> QED BY <1>4, <1>8 DEF Plain!Next

LEMMA StoreDelete ==
  ASSUME TypeOK, Sound, Folders, FilesHeld, ViewTells, ViewTells', ~wild', wild \in BOOLEAN,
         NEW r \in Request, DirectoryAt(r.parent), DeleteDir(r, tables[r.parent]) \/ DeleteFile(r, tables[r.parent])
  PROVE  Plain!Next
<1> DEFINE t == tables[r.parent]
<1>1. PICK s \in Slot :
        /\ IsFirst(s, Victims(t, r))
        /\ t[s].attribute => SeesNoChild(t[s].cluster)
        /\ WriteTable(r.parent, Unused(t, s))
  <2>1. CASE DeleteFile(r, tables[r.parent])
    BY <2>1 DEF DeleteFile
  <2>2. CASE DeleteDir(r, tables[r.parent])
    <3>1. PICK s \in Slot :
            /\ IsFirst(s, Victims(t, r)) /\ SeesNoChild(t[s].cluster)
            /\ \E u \in TablesAfter(Unused(t, s), t[s].cluster) : WriteTable(r.parent, u)
      BY <2>2 DEF DeleteDir
    <3>2. t[s].cluster \in Cluster
      BY <3>1, VictimOwns DEF Sound
    <3> QED BY <3>1, <3>2 DEF TablesAfter
  <2> QED BY <2>1, <2>2
<1> DEFINE p == <<r.parent, s>>
<1>2. /\ r.parent \in DiskCluster /\ s \in Slot \ {0} /\ Live(r.parent, s) /\ ~Live(r.parent, s)'
      /\ UNCHANGED blocks /\ OtherEntriesStay(r.parent, s)
  BY <1>1, EntryRemoved DEF FilesHeld, Held
<1>3. /\ p \in Places /\ View[p] # Nobody /\ View[p].folder = t[s].attribute
      /\ t[s].attribute => View[p].content = t[s].cluster
      /\ View' = [View EXCEPT ![p] = Nobody]
  BY <1>2, ViewDisappears
<1>4. View[p].folder => Plain!Children(View[p].content) = {}
  <2>1. ASSUME t[s].attribute PROVE Vacant(t[s].cluster)
    BY <1>1, <1>2, <2>1, FolderIsEmpty DEF LiveFolder
  <2> QED BY <1>3, <2>1, NoChildren
<1>5. wild' = wild
  BY DEF DeleteDir, DeleteFile
<1> HIDE DEF p
<1>6. Plain!Remove(p)
  BY <1>3, <1>4, <1>5 DEF Plain!Remove, Plain!Put
<1> QED BY <1>3, <1>6 DEF Plain!Next

LEMMA StoreBoot == ASSUME TypeOK, Sound, FilesHeld, Boot PROVE View' = View
<1>1. CASE Mount \/ FormatBoot \/ FormatFat
  BY <1>1, ViewQuiet DEF Mount, FormatBoot, FormatFat
<1>2. CASE FormatRoot
  <2> DEFINE two == ROOT_CLUSTER_NUMBER
             t == NewTable(RootName, two)
  <2>1. two \in Cluster \ {0} /\ two \in DiskCluster
    BY SmallNumbers
  <2>2. WriteTable(two, t) /\ pc = "format_root"
    BY <1>2 DEF FormatRoot
  <2> HIDE DEF two
  <2>3. tables'[two] = t /\ \A d \in DiskCluster \ {two} : tables'[d] = tables[d]
    BY <2>1, <2>2, TableWritten
  <2>4. \A s \in Slot : ~NamesOther(t, two, s)
    BY <2>1, NewTableFacts
  <2> HIDE DEF t
  <2>5. \A c \in DiskCluster, s \in Slot : ~Live(c, s) /\ ~Live(c, s)'
    BY <2>2, <2>3, <2>4 DEF Sound, OnDisk, NothingYet, Live, NamesOther
  <2> QED BY <2>5, ViewStays DEF EntriesStay, OfLive
<1> QED BY <1>1, <1>2 DEF Boot

(* A step that does no damage leaves the store as it was, or puts one       *)
(* object into it or takes one away.                                        *)
LEMMA StoreStep ==
  ASSUME TypeOK, TypeOK', FatCoherent, Sound, Folders, FilesHeld, ~wild, ~wild', Next
  PROVE  Plain!Next \/ View' = View
<1>1. ViewTells /\ ViewTells'
  <2>1. ViewTells'
    BY Tells, PTL
  <2> QED BY <2>1, Tells
<1>2. CASE Boot
  BY <1>2, StoreBoot
<1>3. CASE Crash
  BY <1>3, ViewQuiet DEF Crash
<1>4. CASE Step
  <2>1. CASE \/ SyscallReturn \/ ReadBlock \/ ReadReturn \/ FileFat
             \/ DeleteDirFat \/ DeleteWalk \/ DeleteFree
    BY <2>1, ViewQuiet DEF SyscallReturn, ReadBlock, ReadReturn, FileFat, DeleteDirFat, DeleteWalk,
                           DeleteFree
  <2>2. CASE MkdirTable \/ FileData
    BY <2>2, FilesMkdirTable, FilesFileData, ViewStays
  <2>3. CASE MkdirEntry \/ FileEntry
    BY <1>1, <2>3, StoreMkdirEntry, StoreFileEntry
  <2> QED BY <1>4, <2>1, <2>2, <2>3 DEF Step
<1>6. CASE OnlyAnswers
  BY <1>6, ViewQuiet DEF OnlyAnswers
<1>5. CASE Call /\ ~OnlyAnswers
  <2>1. PICK r \in Request : DirectoryAt(r.parent) /\ CallOn(r)
    BY <1>1, <1>5, CallDirectory
  <2>2. CASE DeleteDir(r, tables[r.parent]) \/ DeleteFile(r, tables[r.parent])
    <3>1. wild \in BOOLEAN
      BY DEF TypeOK
    <3> QED BY <1>1, <2>1, <2>2, <3>1, StoreDelete
  <2>3. CASE \/ WriteBadParent(r) \/ WriteDuplicate(r, tables[r.parent]) \/ MkdirFat(r, tables[r.parent]) \/ StartWriteFile(r, tables[r.parent])
             \/ ReadRefused(r, tables[r.parent]) \/ ReadFile(r, tables[r.parent]) \/ ReadDirectory(r, tables[r.parent]) \/ DeleteRefused(r, tables[r.parent])
    BY <2>3, ViewQuiet DEF WriteBadParent, WriteDuplicate, MkdirFat, StartWriteFile, ReadRefused,
                           ReadFile, ReadDirectory, DeleteRefused
  <2> QED BY <2>1, <2>2, <2>3 DEF CallOn, CallWith
<1> QED BY <1>2, <1>3, <1>4, <1>5, <1>6 DEF Next

(* Files and folders appear and disappear whole: every step of the driver,  *)
(* crash and reboot included, is one of the store or leaves it as it was.   *)
THEOREM DriverImplementsStore == Spec => ImplementsStore
<1>1. Init => Store!Init
  <2> SUFFICES ASSUME Init PROVE StoreView = [p \in DiskCluster \X Slot |-> Nobody] /\ wild = FALSE
    BY DEF Store!Init
  <2>1. \A c \in DiskCluster, s \in Slot : ~Live(c, s)
    BY DEF Init, Live, EmptyEntry
  <2> QED BY <2>1 DEF Init, StoreView, LivePlaces
<1>2. ASSUME TypeOK, TypeOK', FatCoherent, ~wild => Sound /\ Folders /\ FilesHeld,
             (~wild => Sound /\ Folders /\ FilesHeld)', [Next]_vars
      PROVE  [Store!Next]_<<StoreView, wild>>
  <2>1. CASE wild'
    BY <2>1 DEF Store!Next, Store!Damage
  <2>2. CASE UNCHANGED vars
    <3>1. StoreView' = StoreView
      BY <2>2 DEF StoreView, LivePlaces, Live, Object, EntryAt, Whole, Follow
    <3> QED BY <2>2, <3>1
  <2>3. CASE ~wild' /\ Next
    <3>1. ~wild /\ wild' = wild
      BY <1>2, <2>3, WildStays DEF TypeOK
    <3>2. StoreView = View
      BY <1>2, <3>1, SeenPlain
    <3>3. (TypeOK /\ Sound /\ FilesHeld => StoreView = View)'
      BY SeenPlain, PTL
    <3>4. StoreView' = View'
      BY <1>2, <2>3, <3>3
    <3>5. Plain!Next \/ View' = View
      BY <1>2, <2>3, <3>1, StoreStep
    <3>6. Plain!Next => Store!Next
      BY <3>2, <3>4 DEF Plain!Next, Plain!CreateFile, Plain!CreateFolder, Plain!Remove, Plain!Damage,
         Plain!Children, Plain!Put, Store!Next, Store!CreateFile, Store!CreateFolder, Store!Remove,
         Store!Damage, Store!Children, Store!Put, Places
    <3> QED BY <3>1, <3>2, <3>4, <3>5, <3>6
  <2> QED BY <1>2, <2>1, <2>2, <2>3
<1> QED BY <1>1, <1>2, TypeCorrect, Coherent, FilesAlways, PTL DEF Spec, ImplementsStore, Store!Spec
=============================================================================
