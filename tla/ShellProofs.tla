---------------------------- MODULE ShellProofs ----------------------------
(***************************************************************************)
(* What the shell's commands keep over the driver they call.  The shell is *)
(* a caller like no other: the requests it makes name clusters it read     *)
(* from entries no longer in use, and some that are no directory's.  So    *)
(* the driver's own invariants are carried over call by call (the lemmas   *)
(* on CallOn), as long as the disk can be trusted: nothing was done past   *)
(* it, and nothing is being written over its boot sector or was.           *)
(***************************************************************************)
EXTENDS ShellProperties, Fat32Chains

USE DEF vars, disk, locals

(* A write whose parent is cluster 0: it ends over the boot sector. *)
OverBoot == pc \in Writing /\ request.parent = 0

Trusted == ~wild /\ (signature \/ pc = "off") /\ ~OverBoot

(* Nothing is in the clusters no directory has: a delete finds nothing there. *)
NoDirectory == DiskCluster \ (Cluster \ {0})
Outside == \A c \in NoDirectory : tables[c] # NoTable => \A s \in Slot : ~tables[c][s].used

DiskKept == Sound /\ Folders /\ FilesHeld /\ Outside

(* The steps of the driver's call and the shell's system call fit. *)
CallFits ==
  /\ at \in {"prompt", "printing", "astray"} => pc = "idle"
  /\ at = "read" => pc \in {"idle", "read", "return"}
  /\ at = "table" => pc \in {"idle", "return"}
  /\ at = "write" => pc \in {"idle", "return"} \cup Writing
  /\ at = "delete" => pc \in {"idle", "return"} \cup Deleting

(* The line typed is one that makes the call it is at. *)
LineFits ==
  /\ at = "read" => command.op \in {"cat", "cp", "mv"}
  /\ at = "table" => command.op \in {"cd", "ls", "find", "cp", "mv"}
  /\ at = "write" => command.op \in {"mkdir", "cp", "mv"}
  /\ at = "delete" => command.op \in {"rm", "mv"}
  /\ at = "table" /\ command.op = "cd" => depth < MaxDepth
  /\ at \notin {"delete", "astray"} => codeWrite = NotWritten

(* Every folder of the path was entered by a folder's entry, so it is no    *)
(* file's, and all but ls, find and the copy ask for the last one.          *)
PathTaken == at # "boot" => \A k \in 0 .. depth : listCluster[k] \in Cluster \ {0}

AsksHere == \/ at \in {"read", "delete"}
            \/ at = "table" /\ command.op \notin {"ls", "find"}
            \/ at = "write" /\ command.op = "mkdir"
ParentFits == /\ AsksHere => parent = listCluster[depth]
              /\ at = "table" => \E k \in 0 .. depth : parent = listCluster[k]

(* What read_directory answered is still so when the answer is taken. *)
FolderFound(x) == /\ reply.place = <<parent, x>>
                  /\ HasTable(parent) /\ tables[parent][x].used /\ tables[parent][x].attribute
TableAnswered == at = "table" /\ pc = "return" =>
                   /\ ~wild /\ signature
                   /\ reply.code = 0 => \E x \in Slot : FolderFound(x)

(* What cp or mv has read is still in the folder the shell is in. *)
SourceThere == SameFile(tables[listCluster[depth]], command) # {}
SourceRead == \/ at = "read" /\ (pc = "read" \/ (pc = "return" /\ reply.code = 0))
              \/ at = "table" /\ readAnswer = 0
              \/ at = "write" /\ pc = "idle" /\ readAnswer = 0
SourceKept == SourceRead /\ command.op \in {"cp", "mv"} => SourceThere

(* The copy of a move goes to another folder, under the name of its source. *)
Moving == command.op = "mv" /\ readAnswer = 0
CopyNamed(e) == ~e.attribute /\ e.name = command.name /\ e.ext = command.ext
CopyWritten ==
  at = "write" /\ Moving /\ pc \in Writing =>
    /\ InFile
    /\ request = Ask(command.name, command.ext, parent, BufferSize, cl)
    /\ parent # listCluster[depth]
    /\ ~wild => slot \in Slot /\ CopyNamed(dir_table_buf[slot])

(* It is there, elsewhere, when its entry is. *)
CopyAt(c, s) == /\ Live(c, s) /\ c # listCluster[depth]
                /\ CopyNamed(tables[c][s]) /\ blocks[tables[c][s].cluster].data = cl
CopyThere == \E c \in DiskCluster, s \in Slot : CopyAt(c, s)
CopyMade == \/ at = "write" /\ pc = "return" /\ reply.code = 0
            \/ /\ at = "delete" /\ codeWrite = 0
               /\ command.ext = NoExt => listCluster[depth] < 256
               /\ command.ext # NoExt /\ NameLength(command.name) = 7 => command.dst # NoName
CopyKept == Trusted /\ CopyMade /\ Moving => CopyThere

ShellFits == /\ CallFits /\ LineFits /\ PathTaken /\ ParentFits /\ TableAnswered
             /\ SourceKept /\ CopyWritten /\ CopyKept

ShellInv == /\ TypeOK /\ FatCoherent /\ ShellTypeOK /\ ShellFits
            /\ Trusted => DiskKept

-----------------------------------------------------------------------------
(* What the shell makes the driver do *)

(* One that may be carried out, on a directory but for a write over the     *)
(* boot sector.                                                             *)
Called(r) == /\ r \in Request /\ r.parent \in Cluster /\ HasTable(r.parent) /\ CallOn(r)
             /\ r.parent = 0 => OverBoot'

DriverMoves == \/ UNCHANGED vars \/ Boot \/ Step \/ OnlyAnswers \/ \E r \in Request : Called(r)

(* The driver's variables keep their types, and the FAT in memory is the    *)
(* one on the disk.                                                         *)
LEMMA MovesType == ASSUME TypeOK, DriverMoves PROVE TypeOK'
<1>1. CASE OnlyAnswers
  <2>1. PICK op \in {"read", "read_directory", "write", "delete"}, code \in -1 .. 2,
             p \in Place \cup {Nobody} : Return(op, code, p)
    BY <1>1 DEF OnlyAnswers
  <2>2. /\ UNCHANGED <<disk, fat_table, buf, wild, owner, crashes>>
        /\ signature \in BOOLEAN
        /\ diskFat \in [Cluster -> Word] /\ fat_table \in [Cluster -> Word]
        /\ tables \in [DiskCluster -> Table \cup {NoTable}]
        /\ blocks \in [DiskCluster -> Block \cup {NoBlock}]
        /\ owner \in [Cluster -> Place \cup {Nobody}]
    BY <1>1 DEF OnlyAnswers, TypeOK
  <2> QED BY <2>1, <2>2, TypeReturn
<1> QED BY <1>1, TypeStutter, TypeBoot, TypeStep, TypeCallOn DEF DriverMoves, Called

LEMMA MovesCoherent == ASSUME FatCoherent, DriverMoves PROVE FatCoherent'
<1>1. CASE UNCHANGED vars \/ OnlyAnswers
  BY <1>1 DEF FatCoherent, OnlyAnswers
<1> QED BY <1>1, CoherentDriver, CoherentCallWith DEF DriverMoves, Called, CallOn, CallWith

(* A disk that cannot be trusted is not trusted again. *)
LEMMA TrustBefore == ASSUME TypeOK, DriverMoves, Trusted' PROVE Trusted
<1>1. ~wild
  <2>1. CASE UNCHANGED vars \/ OnlyAnswers
    BY <2>1 DEF OnlyAnswers, Trusted
  <2> QED BY <2>1, WildStaysDriver, WildStaysCallWith DEF DriverMoves, Called, CallOn, Trusted
<1>2. ~OverBoot
  <2> SUFFICES ASSUME OverBoot PROVE FALSE
    OBVIOUS
  <2>1. pc \in Writing /\ request.parent = 0
    BY DEF OverBoot
  <2>2. ~OnlyAnswers /\ ~Boot /\ \A r : ~CallOn(r)
    BY <2>1 DEF Writing, OnlyAnswers, Boot, Mount, FormatBoot, FormatFat, FormatRoot, CallOn, CallWith,
             WriteBadParent, WriteDuplicate, MkdirFat, StartWriteFile, ReadRefused, ReadFile,
             ReadDirectory, DeleteRefused, DeleteDir, DeleteFile
  <2>3. CASE UNCHANGED vars
    BY <2>1, <2>3 DEF Trusted, OverBoot
  <2>4. CASE MkdirTable \/ FileData \/ FileFat
    <3>1. UNCHANGED request /\ pc' \in Writing
      BY <2>4 DEF MkdirTable, FileData, FileFat, Writing
    <3> QED BY <2>1, <3>1 DEF Trusted, OverBoot
  <2>5. CASE MkdirEntry \/ FileEntry
    BY <2>1, <2>5 DEF MkdirEntry, FileEntry, WriteTable, Return, Trusted
  <2> QED BY <2>1, <2>2, <2>3, <2>4, <2>5
          DEF DriverMoves, Called, Step, SyscallReturn, ReadBlock, ReadReturn, DeleteDirFat, DeleteWalk,
              DeleteFree, Writing
<1>3. signature \/ pc = "off"
  <2> SUFFICES ASSUME ~signature, pc # "off" PROVE FALSE
    OBVIOUS
  <2>1. CASE UNCHANGED vars \/ OnlyAnswers
    BY <2>1 DEF OnlyAnswers, Trusted, Return
  <2>2. CASE Boot
    BY <2>2 DEF Boot, Mount, FormatBoot, FormatFat, FormatRoot, WriteTable, Trusted
  <2>3. CASE Step
    BY <2>3 DEF Step, SyscallReturn, ReadBlock, ReadReturn, MkdirTable, MkdirEntry, FileData, FileFat,
                FileEntry, DeleteDirFat, DeleteWalk, DeleteFree, WriteTable, WriteBlock, Return, Trusted
  <2>4. CASE \E r \in Request : Called(r)
    <3>1. PICK r \in Request : CallOn(r)
      BY <2>4 DEF Called
    <3>2. signature' => signature
      BY <3>1 DEF CallOn, CallWith, WriteBadParent, WriteDuplicate, MkdirFat, StartWriteFile, ReadRefused,
                  ReadFile, ReadDirectory, DeleteRefused, DeleteDir, DeleteFile, WriteTable
    <3>3. pc' # "off"
      BY <3>1 DEF CallOn, CallWith, WriteBadParent, WriteDuplicate, MkdirFat, StartWriteFile, ReadRefused,
                  ReadFile, ReadDirectory, DeleteRefused, DeleteDir, DeleteFile, Enter, Return
    <3> QED BY <3>2, <3>3 DEF Trusted
  <2> QED BY <2>1, <2>2, <2>3, <2>4 DEF DriverMoves
<1> QED BY <1>1, <1>2, <1>3 DEF Trusted

(* While it can be trusted, nothing is put where no directory is. *)
LEMMA OutsideUnwritten ==
  ASSUME TypeOK, FatCoherent, DiskKept, ~wild', NEW c \in NoDirectory,
         Boot \/ Step \/ \E r \in Request : DirectoryAt(r.parent) /\ CallOn(r)
  PROVE  tables'[c] = tables[c]
<1>1. c \in DiskCluster /\ c \notin Cluster \ {0}
  BY DEF NoDirectory
<1>2. UNCHANGED tables => tables'[c] = tables[c]
  OBVIOUS
<1>3. ASSUME NEW d \in Cluster \ {0}, NEW t, WriteTable(d, t) PROVE tables'[c] = tables[c]
  BY <1>1, <1>3, Written
<1>4. ASSUME NEW d \in Cluster \ {0}, NEW b, WriteBlock(d, b) PROVE tables'[c] = tables[c]
  BY <1>1, <1>4, WrittenBlock
<1>5. CASE Boot
  <2>1. CASE FormatRoot
    BY <1>3, <2>1, SmallNumbers DEF FormatRoot
  <2> QED BY <1>2, <1>5, <2>1 DEF Boot, Mount, FormatBoot, FormatFat
<1>6. CASE MkdirTable
  <2>1. cluster \in Cluster /\ owner[cluster] = MyPlace /\ owner[0] = Nobody
    BY <1>6 DEF MkdirTable, DiskKept, Sound, InCall, MkdirInFlight, Mine, OnDisk, ChainsOwned
  <2>2. request.parent \in Cluster /\ slot \in Slot
    BY <1>6 DEF MkdirTable, DiskKept, Sound, InCall, Loaded, PlaceFree, Steps, Writing
  <2>3. MyPlace # Nobody
    BY <2>2, PlacesOwn, SmallNumbers DEF MyPlace
  <2> QED BY <1>3, <1>6, <2>1, <2>3 DEF MkdirTable
<1>7. CASE MkdirEntry \/ FileEntry
  <2>1. request.parent \in Cluster \ {0}
    BY <1>7 DEF MkdirEntry, FileEntry, DiskKept, Sound, InCall, Loaded, Steps
  <2> QED BY <1>3, <1>7, <2>1 DEF MkdirEntry, FileEntry
<1>8. CASE FileData
  <2>1. PICK d \in DiskCluster : /\ FoundFree(fat_table, 0, d) /\ d \in Cluster
                                 /\ \E b : WriteBlock(d, b)
    BY <1>8 DEF FileData
  <2>2. fat_table[0] # 0
    BY <1>8 DEF FileData, FatCoherent, DiskKept, Sound, InCall, FileGoesOn
  <2>3. d # 0
    BY <2>1, <2>2, FreeWord
  <2> QED BY <1>4, <2>1, <2>3
<1>9. CASE Step /\ ~(MkdirTable \/ MkdirEntry \/ FileEntry \/ FileData)
  BY <1>2, <1>9 DEF Step, SyscallReturn, ReadBlock, ReadReturn, FileFat, DeleteDirFat, DeleteWalk,
                    DeleteFree
<1>10. CASE \E r \in Request : DirectoryAt(r.parent) /\ CallOn(r)
  <2>1. PICK r \in Request : DirectoryAt(r.parent) /\ CallOn(r)
    BY <1>10
  <2>2. CASE DeleteDir(r, tables[r.parent]) \/ DeleteFile(r, tables[r.parent])
    BY <1>3, <2>1, <2>2 DEF DirectoryAt, DeleteDir, DeleteFile
  <2> QED BY <1>2, <2>1, <2>2
          DEF CallOn, CallWith, WriteBadParent, WriteDuplicate, MkdirFat, StartWriteFile, ReadRefused,
              ReadFile, ReadDirectory, DeleteRefused
<1> QED BY <1>5, <1>6, <1>7, <1>8, <1>9, <1>10

(* And all the driver's invariants are kept. *)
LEMMA MovesDisk ==
  ASSUME TypeOK, FatCoherent, DiskKept, DriverMoves, Trusted'
  PROVE  DiskKept'
<1>1. CASE UNCHANGED vars
  BY <1>1, SoundStutter, FoldersStutter, FilesStutter DEF DiskKept, Outside
<1>2. CASE OnlyAnswers
  <2>1. /\ pc = "idle" /\ pc' = "return"
        /\ UNCHANGED <<signature, diskFat, tables, blocks, owner>>
    BY <1>2 DEF OnlyAnswers, Return
  <2>2. Sound'
    <3>1. OnDisk'
      BY <2>1, OnDiskQuiet DEF DiskKept, Sound, OpenEnd, OnDisk, Signed
    <3> QED BY <2>1, <3>1, NoCall DEF Sound, Steps
  <2>3. Folders'
    BY <2>1, FoldersQuiet DEF DiskKept, Writing
  <2>4. FilesHeld'
    BY <2>1, FilesQuiet DEF DiskKept, Writing
  <2> QED BY <2>1, <2>2, <2>3, <2>4 DEF DiskKept, Outside
<1>3. CASE Boot \/ Step \/ \E r \in Request : Called(r)
  <2>1. ~wild'
    BY DEF Trusted
  <2>2. Boot \/ Step \/ \E r \in Request : DirectoryAt(r.parent) /\ CallOn(r)
    BY <1>3 DEF Called, Trusted, DirectoryAt, HasTable
  <2>3. Sound' /\ Folders' /\ FilesHeld'
    BY <2>1, <2>2, SoundBoot, SoundReads, SoundStep, SoundCallOn, FoldersBoot, FoldersStep,
       FoldersCallOn, FilesBoot, FilesStep, FilesCallOn DEF DiskKept, Boot
  <2>4. Outside'
    BY <2>1, <2>2, OutsideUnwritten DEF DiskKept, Outside
  <2> QED BY <2>3, <2>4 DEF DiskKept
<1> QED BY <1>1, <1>2, <1>3 DEF DriverMoves

-----------------------------------------------------------------------------
(* The requests *)

(* The line being carried out, and the folder the shell is in. *)
LEMMA LineTyped ==
  ASSUME ShellTypeOK, at \in {"read", "table", "write", "delete"}
  PROVE  /\ command \in Commands /\ command \in Command
         /\ command.ext \in Exts \cup {NoExt} /\ command.ext # GarbledExt
         /\ command.op \notin {"cd", "ls", "find"} => command.name \in Names
  BY ShellAssumption DEF ShellTypeOK, Command

LEMMA Here ==
  ASSUME ShellTypeOK, PathTaken, at # "boot"
  PROVE  /\ depth \in 0 .. MaxDepth /\ depth \in 0 .. depth
         /\ listCluster[depth] \in Cluster \ {0} /\ listCluster[depth] \in DiskCluster
<1>1. depth \in 0 .. MaxDepth /\ MaxDepth \in Nat
  BY ShellAssumption DEF ShellTypeOK
<1>2. depth \in 0 .. depth
  BY <1>1
<1>3. listCluster[depth] \in Cluster \ {0}
  BY <1>2 DEF PathTaken
<1> QED BY <1>1, <1>2, <1>3, SmallNumbers

LEMMA BufferSizeNat == BufferSize \in Nat /\ BufferSize # 0
<1>1. BUFFER_CLUSTERS \in Nat \ {0} /\ CLUSTER_SIZE \in Nat \ {0}
  BY ShellAssumption, SizeAssumption
<1>2. \A a, b \in Nat \ {0} : a * b \in Nat /\ a * b # 0
  OBVIOUS
<1> QED BY <1>1, <1>2 DEF BufferSize

(* Where the shell asks, the disk can be trusted. *)
LEMMA ReadableTrusted ==
  ASSUME Readable PROVE Trusted /\ pc = "idle" /\ signature /\ parent \in Cluster
  BY DEF Readable, Trusted, OverBoot, Writing

LEMMA MovesRead ==
  ASSUME TypeOK, FatCoherent, ShellTypeOK, LineFits, PathTaken, ParentFits, ReadCall
  PROVE  DriverMoves
<1> DEFINE r == Ask(command.name, command.ext, parent, BufferSize, NoBlock)
<1>1. at = "read" /\ Readable /\ (ReadRefused(r, tables[r.parent]) \/ ReadFile(r, tables[r.parent]))
  BY DEF ReadCall
<1>2. parent = listCluster[depth] /\ command.op \notin {"cd", "ls", "find"}
  BY <1>1 DEF ParentFits, AsksHere, LineFits
<1>3. parent \in Cluster \ {0} /\ parent \in DiskCluster
  BY <1>1, <1>2, Here
<1>4. r \in Request /\ r.parent = parent
  BY <1>1, <1>2, <1>3, LineTyped, BufferSizeNat DEF Ask, Request
<1>5. HasTable(parent)
  BY <1>1 DEF Readable
<1> HIDE DEF r
<1>6. CASE ReadRefused(r, tables[r.parent])
  BY <1>3, <1>4, <1>6, Refused DEF DriverMoves
<1>7. CASE ReadFile(r, tables[r.parent])
  BY <1>3, <1>4, <1>5, <1>7 DEF DriverMoves, Called, CallOn, CallWith
<1> QED BY <1>1, <1>6, <1>7

LEMMA MovesTable ==
  ASSUME TypeOK, FatCoherent, ShellTypeOK, TableCall
  PROVE  OnlyAnswers
<1> DEFINE r == Ask(dirname, NoExt, parent, 0, NoBlock)
<1>1. r.parent = parent /\ parent \in DiskCluster
  BY DEF Ask, ShellTypeOK
<1>2. ReadDirectory(r, tables[r.parent])
  BY DEF TableCall, Ask
<1> HIDE DEF r
<1> QED BY <1>1, <1>2, Refused

LEMMA MovesWrite ==
  ASSUME TypeOK, FatCoherent, ShellTypeOK, LineFits, PathTaken, ParentFits, WriteCall
  PROVE  DriverMoves
<1> DEFINE r == IF command.op = "mkdir"
                THEN Ask(command.name, NoExt, parent, 0, Zeros)
                ELSE Ask(command.name, command.ext, parent, BufferSize, cl)
<1>1. /\ at = "write" /\ Readable
      /\ WriteBadParent(r) \/ WriteDuplicate(r, tables[r.parent]) \/ MkdirFat(r, tables[r.parent]) \/ StartWriteFile(r, tables[r.parent])
  BY DEF WriteCall
<1>2. parent \in Cluster /\ parent \in DiskCluster /\ pc = "idle"
  BY <1>1, ReadableTrusted, SmallNumbers
<1>3. command.op \notin {"cd", "ls", "find"}
  BY <1>1 DEF LineFits
<1>4. /\ r \in Request /\ r.parent = parent /\ r.data \in Payloads
  BY <1>1, <1>2, <1>3, LineTyped, BufferSizeNat, ShellAssumption DEF Ask, Request, ShellTypeOK
<1> HIDE DEF r
<1>5. CASE WriteBadParent(r) \/ WriteDuplicate(r, tables[r.parent])
  BY <1>2, <1>4, <1>5, Refused DEF DriverMoves
<1>6. CASE MkdirFat(r, tables[r.parent]) \/ StartWriteFile(r, tables[r.parent])
  <2>1. fat_table[parent] # 0
    BY <1>2, <1>4, <1>6 DEF MkdirFat, StartWriteFile, GoodParent, WordsAt, FatCoherent,
                            FAT32_FAT_EMPTY_ENTRY
  <2>2. HasTable(parent)
    BY <1>1, <2>1 DEF Readable, FAT32_FAT_EMPTY_ENTRY
  <2>3. CallOn(r)
    BY <1>4, <1>6 DEF CallOn, CallWith
  <2>4. pc' \in Writing /\ request' = r
    BY <1>6 DEF MkdirFat, StartWriteFile, Enter, Writing
  <2>5. r.parent = 0 => OverBoot'
    BY <2>4 DEF OverBoot
  <2> QED BY <1>2, <1>4, <2>2, <2>3, <2>5 DEF DriverMoves, Called
<1> QED BY <1>1, <1>5, <1>6

(* What delete is asked: for the command's name, with an extension and a    *)
(* parent that mv may have run over.                                        *)
DeleteAsked(d, r) ==
  /\ d \in Deleted(command) /\ HasTable(d[2]) /\ d[2] \in DiskCluster
  /\ r.parent = d[2] /\ r.ext = d[1]
  /\ \/ DeleteRefused(r, tables[r.parent]) \/ DeleteDir(r, tables[r.parent])
     \/ DeleteFile(r, tables[r.parent])

LEMMA DeletedAsked ==
  ASSUME ShellTypeOK, LineFits, DeleteCall
  PROVE  /\ at = "delete" /\ Readable /\ UNCHANGED shell
         /\ \E d, r : DeleteAsked(d, r) /\ r \in Request
<1>1. at = "delete" /\ Readable /\ UNCHANGED shell
  BY DEF DeleteCall
<1>2. PICK d \in Deleted(command) :
        LET r == Ask(command.name, d[1], d[2], 0, NoBlock)
            t == tables[r.parent]
        IN HasTable(d[2]) /\ (DeleteRefused(r, t) \/ DeleteDir(r, t) \/ DeleteFile(r, t))
  BY DEF DeleteCall
<1> DEFINE r == Ask(command.name, d[1], d[2], 0, NoBlock)
<1>3. r.parent = d[2] /\ r.ext = d[1] /\ d[2] \in DiskCluster
  BY <1>2 DEF Ask, HasTable
<1>4. command.name \in Names /\ command.ext \in Exts \cup {NoExt}
  BY <1>1, LineTyped DEF LineFits
<1>5. d[1] \in {command.ext, NoExt, GarbledExt}
  BY <1>2 DEF Deleted
<1>6. r \in Request
  BY <1>3, <1>4, <1>5, ShellAssumption DEF Ask, Request
<1>7. DeleteRefused(r, tables[r.parent]) \/ DeleteDir(r, tables[r.parent]) \/ DeleteFile(r, tables[r.parent])
  BY <1>2
<1> HIDE DEF r
<1> QED BY <1>1, <1>2, <1>3, <1>6, <1>7 DEF DeleteAsked

(* The parent's number mv ran over may be of no directory: then delete      *)
(* finds nothing.                                                           *)
LEMMA MovesDelete ==
  ASSUME TypeOK, FatCoherent, ShellTypeOK, LineFits, Trusted => DiskKept, DeleteCall
  PROVE  DriverMoves
<1>1. PICK d, r : DeleteAsked(d, r) /\ r \in Request
  BY DeletedAsked
<1>2. at = "delete" /\ Readable
  BY DeletedAsked
<1> DEFINE p == d[2]
<1>3. /\ HasTable(p) /\ r.parent = p /\ p \in DiskCluster
      /\ DeleteRefused(r, tables[r.parent]) \/ DeleteDir(r, tables[r.parent]) \/ DeleteFile(r, tables[r.parent])
  BY <1>1 DEF DeleteAsked
<1> HIDE DEF p
<1>4. CASE DeleteRefused(r, tables[r.parent])
  BY <1>3, <1>4, Refused DEF DriverMoves
<1>5. CASE p \in Cluster \ {0}
  BY <1>1, <1>3, <1>4, <1>5 DEF DriverMoves, Called, CallOn, CallWith
<1>6. CASE p \notin Cluster \ {0} /\ (DeleteDir(r, tables[r.parent]) \/ DeleteFile(r, tables[r.parent]))
  <2>1. Outside
    BY <1>2, ReadableTrusted DEF DiskKept
  <2>2. Victims(tables[p], r) = {}
    BY <1>3, <1>6, <2>1 DEF Outside, NoDirectory, HasTable, Victims
  <2> QED BY <1>3, <1>6, <2>2 DEF DeleteDir, DeleteFile, IsFirst
<1> QED BY <1>3, <1>4, <1>5, <1>6

LEMMA MovesInsert ==
  ASSUME TypeOK, ShellTypeOK, Insert PROVE DriverMoves
<1> DEFINE k == inserted + 1
           r == Files[k]
<1>1. k \in DOMAIN Files
  BY ShellAssumption DEF Insert, ShellTypeOK
<1>2. r \in Request /\ r.parent = ROOT_CLUSTER_NUMBER /\ r.data \in Payloads
  BY <1>1, ShellAssumption
<1>3. StartWriteFile(r, tables[r.parent]) /\ HasTable(r.parent)
  BY <1>2 DEF Insert
<1> HIDE DEF r
<1> QED BY <1>2, <1>3, SmallNumbers DEF DriverMoves, Called, CallOn, CallWith, ROOT_CLUSTER_NUMBER

(* Every step of the shell, and every step of the driver under it. *)
LEMMA ShellMoves ==
  ASSUME TypeOK, FatCoherent, ShellTypeOK, ShellFits, Trusted => DiskKept,
         [User \/ Running]_svars
  PROVE  DriverMoves
<1>1. CASE User \/ GoAstray \/ Main \/ PutsForever \/ UNCHANGED svars
  BY <1>1 DEF User, Up, Type, GoAstray, Main, PutsForever, svars, driver, DriverMoves
<1>2. CASE DriverStep
  BY <1>2 DEF DriverStep, Boot, Step, DriverMoves
<1>3. CASE Answers \/ InsertAnswered
  BY <1>3 DEF Answers, CdAnswered, LsAnswered, FindAnswered, CatAnswered, CopyRead, CopyTarget,
              MoveWritten, LastAnswered, Answered, InsertAnswered, Step, DriverMoves
<1>4. CASE Calls
  BY <1>4, MovesRead, MovesTable, MovesWrite, MovesDelete DEF Calls, ShellFits, DriverMoves
<1> QED BY <1>1, <1>2, <1>3, <1>4, MovesInsert DEF Running

-----------------------------------------------------------------------------
(* The steps of the driver *)

LEMMA FitsInit == ShellInit => ShellInv
<1> SUFFICES ASSUME ShellInit PROVE ShellInv
  OBVIOUS
<1>1. Init /\ pc = "off"
  BY DEF ShellInit, Init
<1>2. DiskKept
  <2>1. Outside
    BY <1>1 DEF Init, Outside, NoDirectory, EmptyEntry
  <2> QED BY <1>1, <2>1, SoundInit, FoldersInit, FilesInit DEF DiskKept
<1>3. FatCoherent
  BY <1>1 DEF FatCoherent
<1>4. ShellTypeOK
  <2>1. 0 \in 0 .. MaxDepth /\ 0 \in 0 .. Len(Files) /\ 0 \in -1 .. 2
    <3>1. MaxDepth \in Nat /\ Len(Files) \in Nat
      BY ShellAssumption
    <3> QED BY <3>1
  <2>2. 0 \in DiskCluster /\ 0 \in Slot
    BY SmallNumbers, SizeAssumption DEF Slot
  <2>3. ZeroTable \in Table
    BY TableTypes DEF ZeroTable, Table
  <2> QED BY <2>1, <2>2, <2>3, ShellAssumption DEF ShellInit, ShellTypeOK, NotWritten
<1>5. ShellFits
  BY DEF ShellInit, ShellFits, CallFits, LineFits, PathTaken, ParentFits, AsksHere, TableAnswered,
         SourceKept, SourceRead, CopyWritten, CopyKept, CopyMade
<1> QED BY <1>1, <1>2, <1>3, <1>4, <1>5, TypeInit DEF ShellInv

(* No step of the driver's own is taken before the call, nor after it. *)
LEMMA DriverBusy ==
  ASSUME DriverStep
  PROVE  pc \notin {"idle", "return"} /\ UNCHANGED shell /\ (Boot \/ Step)
  BY DEF DriverStep, Boot, Step, Mount, FormatBoot, FormatFat, FormatRoot, ReadBlock, ReadReturn,
         MkdirTable, MkdirEntry, FileData, FileFat, FileEntry, DeleteDirFat, DeleteWalk, DeleteFree

(* From one step of the call to the next. *)
LEMMA DriverGoesOn ==
  ASSUME DriverStep
  PROVE  /\ pc \in Writing => pc' \in Writing \cup {"return"}
         /\ pc = "read" => pc' \in {"read", "return"} /\ UNCHANGED tables
         /\ pc \in Deleting => pc' \in Deleting \cup {"return"} /\ UNCHANGED <<tables, blocks>>
  BY DEF DriverStep, Mount, FormatBoot, FormatFat, FormatRoot, ReadBlock, ReadReturn,
         MkdirTable, MkdirEntry, FileData, FileFat, FileEntry, DeleteDirFat, DeleteWalk, DeleteFree,
         Return, Writing, Deleting

(* The copy stays where nothing changes. *)
LEMMA CopyStays ==
  ASSUME CopyThere, UNCHANGED <<tables, blocks, depth, listCluster, command, cl>>
  PROVE  CopyThere'
  BY DEF CopyThere, CopyAt, CopyNamed, Live

LEMMA SourceStays ==
  ASSUME SourceThere, UNCHANGED <<tables, depth, listCluster, command>>
  PROVE  SourceThere'
  BY DEF SourceThere, SameFile

(* While the copy is written its entry in memory only grows. *)
LEMMA CopyGoesOn ==
  ASSUME TypeOK, CopyWritten, DriverStep
  PROVE  CopyWritten'
<1> SUFFICES ASSUME at = "write", Moving, pc' \in Writing PROVE
      (/\ InFile
       /\ request = Ask(command.name, command.ext, parent, BufferSize, cl)
       /\ parent # listCluster[depth]
       /\ ~wild => slot \in Slot /\ CopyNamed(dir_table_buf[slot]))'
  BY DriverBusy DEF CopyWritten, shell, line, Moving
<1>1. UNCHANGED <<command, parent, cl, depth, listCluster>>
  BY DriverBusy DEF shell, path, line
<1>2. pc \in Writing
  BY DEF DriverStep, Mount, FormatBoot, FormatFat, FormatRoot, ReadBlock, ReadReturn,
         MkdirTable, MkdirEntry, FileData, FileFat, FileEntry, DeleteDirFat, DeleteWalk, DeleteFree,
         Return, Writing
<1>3. /\ InFile /\ parent # listCluster[depth]
      /\ request = Ask(command.name, command.ext, parent, BufferSize, cl)
      /\ ~wild => slot \in Slot /\ CopyNamed(dir_table_buf[slot])
  BY <1>2 DEF CopyWritten
<1>4. CASE FileFat
  BY <1>1, <1>3, <1>4 DEF FileFat, InFile, CopyNamed, Ask
<1>5. CASE FileData
  <2>1. InFile' /\ UNCHANGED <<request, slot>>
    BY <1>5 DEF FileData, InFile
  <2>2. ASSUME ~wild' PROVE (slot \in Slot /\ CopyNamed(dir_table_buf[slot]))'
    <3>1. slot \in Slot /\ CopyNamed(dir_table_buf[slot])
      BY <1>3, <1>5, <2>2 DEF FileData
    <3> DEFINE grow == IF i = TotalCluster - 1 THEN request.size - CLUSTER_SIZE * i ELSE CLUSTER_SIZE
               grown == [s \in Slot |-> IF s = slot THEN [dir_table_buf[s] EXCEPT !.filesize = @ + grow]
                                                    ELSE dir_table_buf[s]]
    <3>2. dir_table_buf' = grown
      <4>1. PICK c \in DiskCluster : /\ dir_table_buf' \in TablesAfter(grown, c)
                                     /\ wild' = (wild \/ c \notin Cluster)
        BY <1>5 DEF FileData
      <4> QED BY <2>2, <4>1 DEF TablesAfter
    <3>3. dir_table_buf \in Table
      BY <1>5 DEF FileData, TypeOK, Steps
    <3>4. dir_table_buf[slot] \in Entry
      BY <3>1, <3>3 DEF Table
    <3>5. dir_table_buf'[slot] = [dir_table_buf[slot] EXCEPT !.filesize = @ + grow]
      BY <3>1, <3>2
    <3> HIDE DEF grow
    <3>6. /\ dir_table_buf'[slot].attribute = dir_table_buf[slot].attribute
          /\ dir_table_buf'[slot].name = dir_table_buf[slot].name
          /\ dir_table_buf'[slot].ext = dir_table_buf[slot].ext
      BY <3>4, <3>5 DEF Entry
    <3> QED BY <1>1, <2>1, <3>1, <3>6 DEF CopyNamed
  <2> QED BY <1>1, <1>3, <2>1, <2>2 DEF Ask
<1> QED BY <1>2, <1>3, <1>4, <1>5
        DEF DriverStep, Mount, FormatBoot, FormatFat, FormatRoot, ReadBlock, ReadReturn, MkdirTable,
            MkdirEntry, FileEntry, DeleteDirFat, DeleteWalk, DeleteFree, Return, Writing, InFile

(* With its entry the copy is there. *)
LEMMA CopyAppears ==
  ASSUME TypeOK, FatCoherent, DiskKept, ShellTypeOK, LineFits, CopyWritten, ~wild,
         at = "write", Moving, pc \in Writing, DriverStep, pc' = "return"
  PROVE  CopyThere'
<1>1. UNCHANGED <<command, parent, cl, depth, listCluster>>
  BY DriverBusy DEF shell, path, line
<1>2. /\ InFile /\ parent # listCluster[depth]
      /\ request = Ask(command.name, command.ext, parent, BufferSize, cl)
      /\ slot \in Slot /\ CopyNamed(dir_table_buf[slot])
  BY DEF CopyWritten
<1>3. FileEntry
  BY <1>2 DEF InFile, DriverStep, Mount, FormatBoot, FormatFat, FormatRoot, ReadBlock, ReadReturn,
              MkdirTable, MkdirEntry, FileData, FileFat, DeleteDirFat, DeleteWalk, DeleteFree
<1>4. PICK c, k, e : /\ c = request.parent /\ k = slot /\ e = dir_table_buf[slot]
                     /\ Appears(c, k, e)
  BY <1>3, FilesFileEntry DEF DiskKept
<1>5. c = parent /\ request.data = cl /\ request.size = BufferSize
  BY <1>2, <1>4 DEF Ask
<1>6. blocks[e.cluster].data = cl
  <2>1. i = TotalCluster /\ pc = "file_entry"
    BY <1>3 DEF FileEntry, DiskKept, FilesHeld, InHand, SizeReaches, InFile, Turns
  <2>2. TotalCluster > 0
    <3>1. request.size \in Nat \ {0}
      BY <1>5, BufferSizeNat
    <3> QED BY <3>1, AtLeastOne, SizeAssumption DEF TotalCluster
  <2>3. Mine(FirstCluster)
    BY <1>2, <2>1, <2>2 DEF DiskKept, FilesHeld, InHand, PartsWritten, Turns
  <2>4. FirstCluster \in Cluster
    BY <2>3 DEF Mine
  <2>5. blocks[FirstCluster].data = request.data
    BY <1>2, <2>3, <2>4 DEF DiskKept, FilesHeld, InHand, PartsWritten
  <2> QED BY <1>4, <1>5, <2>5 DEF FirstCluster
<1>7. /\ c \in DiskCluster /\ k \in Slot /\ Live(c, k)' /\ tables'[c][k] = e
      /\ UNCHANGED blocks
  BY <1>4 DEF Appears
<1>8. CopyNamed(e)
  BY <1>2, <1>4
<1>9. CopyAt(c, k)'
  BY <1>1, <1>2, <1>5, <1>6, <1>7, <1>8 DEF CopyAt, CopyNamed
<1> QED BY <1>7, <1>9 DEF CopyThere

(* The driver's own steps keep what the shell relies on. *)
LEMMA FitsDriver ==
  ASSUME TypeOK, FatCoherent, ShellTypeOK, ShellFits, Trusted => DiskKept, DriverStep
  PROVE  ShellTypeOK' /\ ShellFits'
<1>1. UNCHANGED shell /\ pc \notin {"idle", "return"} /\ DriverMoves
  BY DriverBusy DEF DriverMoves
<1>2. ShellTypeOK'
  BY <1>1 DEF shell, path, line, ShellTypeOK
<1>3. LineFits' /\ PathTaken' /\ ParentFits'
  BY <1>1 DEF shell, path, line, ShellFits, LineFits, PathTaken, ParentFits, AsksHere
<1>4. CallFits'
  <2>1. CASE at = "boot"
    BY <1>1, <2>1 DEF shell, CallFits
  <2>2. CASE at # "boot"
    BY <1>1, <1>2, <2>2, DriverGoesOn DEF ShellTypeOK, ShellFits, CallFits, shell
  <2> QED BY <2>1, <2>2
<1>5. TableAnswered'
  BY <1>1 DEF ShellFits, CallFits, TableAnswered, shell
<1>6. SourceKept'
  <2> SUFFICES ASSUME SourceRead', command.op \in {"cp", "mv"} PROVE SourceThere'
    BY <1>1 DEF SourceKept, shell, line
  <2>1. UNCHANGED <<at, depth, listCluster, command, readAnswer>>
    BY <1>1 DEF shell, path, line
  <2>2. at = "read" /\ pc = "read"
    <3>1. at # "table"
      BY <1>1 DEF ShellFits, CallFits
    <3>2. at = "write" => pc' # "idle"
      BY <1>1, <1>4, DriverGoesOn DEF ShellFits, CallFits, Writing
    <3>3. at = "read" => pc = "read"
      BY <1>1 DEF ShellFits, CallFits
    <3> QED BY <2>1, <3>1, <3>2, <3>3 DEF SourceRead
  <2>3. SourceThere
    BY <2>2 DEF ShellFits, SourceKept, SourceRead
  <2> QED BY <2>1, <2>2, <2>3, DriverGoesOn, SourceStays
<1>7. CopyWritten'
  BY CopyGoesOn DEF ShellFits
<1>8. CopyKept'
  <2> SUFFICES ASSUME Trusted', CopyMade', Moving' PROVE CopyThere'
    BY DEF CopyKept
  <2>1. UNCHANGED <<at, command, cl, depth, listCluster, readAnswer, codeWrite>> /\ Moving
    BY <1>1 DEF shell, path, line, Moving
  <2>2. Trusted /\ DiskKept
    BY <1>1, TrustBefore
  <2>3. CASE at = "write"
    <3>1. pc \in Writing /\ pc' = "return"
      BY <1>1, <2>1, <2>3 DEF CopyMade, ShellFits, CallFits
    <3> QED BY <2>1, <2>2, <2>3, <3>1, CopyAppears DEF ShellFits, Trusted
  <2>4. CASE at = "delete"
    <3>1. CopyThere
      BY <2>1, <2>2, <2>4 DEF CopyMade, ShellFits, CopyKept
    <3>2. UNCHANGED <<tables, blocks>>
      BY <1>1, <2>4, DriverGoesOn DEF ShellFits, CallFits
    <3> QED BY <2>1, <3>1, <3>2, CopyStays
  <2> QED BY <2>1, <2>3, <2>4 DEF CopyMade
<1> QED BY <1>2, <1>3, <1>4, <1>5, <1>6, <1>7, <1>8 DEF ShellFits

-----------------------------------------------------------------------------
(* The shell's calls *)

LEMMA FitsRead ==
  ASSUME TypeOK, FatCoherent, ShellTypeOK, ShellFits, ReadCall
  PROVE  ShellTypeOK' /\ ShellFits'
<1> DEFINE r == Ask(command.name, command.ext, parent, BufferSize, NoBlock)
<1>1. UNCHANGED shell /\ at = "read" /\ pc = "idle" /\ (ReadRefused(r, tables[r.parent]) \/ ReadFile(r, tables[r.parent]))
  BY DEF ReadCall, Readable
<1> HIDE DEF r
<1>2. ASSUME ReadRefused(r, tables[r.parent]) PROVE UNCHANGED tables /\ pc' = "return" /\ reply'.code # 0
  <2>1. CASE Return("read", 2, Nobody)
    BY <1>2, <2>1 DEF ReadRefused, Return
  <2>2. CASE \E s \in Slot : \/ Return("read", 1, <<r.parent, s>>)
                            \/ Return("read", -1, <<r.parent, s>>)
    BY <1>2, <2>2 DEF ReadRefused, Return
  <2> QED BY <1>2, <2>1, <2>2 DEF ReadRefused
<1>3. ASSUME ReadFile(r, tables[r.parent]) PROVE UNCHANGED tables /\ pc' = "read"
  BY <1>3 DEF ReadFile, Enter
<1>4. ShellTypeOK'
  BY <1>1 DEF shell, path, line, ShellTypeOK
<1>5. CallFits' /\ LineFits' /\ PathTaken' /\ ParentFits'
  BY <1>1, <1>2, <1>3 DEF shell, path, line, ShellFits, CallFits, LineFits, PathTaken, ParentFits,
                          AsksHere
<1>6. TableAnswered' /\ CopyWritten' /\ CopyKept'
  BY <1>1 DEF shell, TableAnswered, CopyWritten, CopyKept, CopyMade
<1>7. SourceKept'
  <2> SUFFICES ASSUME SourceRead' PROVE SourceThere'
    BY DEF SourceKept
  <2>1. ReadFile(r, tables[r.parent]) /\ UNCHANGED <<depth, listCluster, command>>
    BY <1>1, <1>2 DEF SourceRead, shell, path, line
  <2>2. /\ r.parent = listCluster[depth]
        /\ r.name = command.name /\ r.ext = command.ext
    BY <1>1 DEF r, Ask, ShellFits, ParentFits, AsksHere
  <2>3. SameFile(tables[r.parent], r) # {}
    BY <2>1 DEF ReadFile, IsFirst
  <2>4. SourceThere
    BY <2>2, <2>3 DEF SourceThere, SameFile
  <2> QED BY <1>3, <2>1, <2>4, SourceStays
<1> QED BY <1>4, <1>5, <1>6, <1>7 DEF ShellFits

LEMMA FitsTable ==
  ASSUME TypeOK, FatCoherent, ShellTypeOK, ShellFits, TableCall
  PROVE  ShellTypeOK' /\ ShellFits'
<1> DEFINE r == Ask(dirname, NoExt, parent, 0, NoBlock)
<1>1. /\ UNCHANGED <<path, cl, at, line, inserted, changes>> /\ table' = ZeroTable
      /\ at = "table" /\ Readable /\ ReadDirectory(r, tables[r.parent]) /\ r.parent = parent
  BY DEF TableCall, Ask
<1> HIDE DEF r
<1>2. pc' = "return" /\ UNCHANGED <<signature, tables, fat_table, wild>>
  BY <1>1 DEF ReadDirectory, Return
<1>3. ShellTypeOK'
  <2>1. ZeroTable \in Table
    BY TableTypes DEF ZeroTable, Table
  <2> QED BY <1>1, <2>1 DEF path, line, ShellTypeOK
<1>4. CallFits' /\ LineFits' /\ PathTaken' /\ ParentFits'
  BY <1>1, <1>2 DEF path, line, ShellFits, CallFits, LineFits, PathTaken, ParentFits, AsksHere
<1>5. CopyWritten' /\ CopyKept'
  BY <1>1 DEF CopyWritten, CopyKept, CopyMade
<1>6. TableAnswered'
  <2>1. ~wild /\ signature /\ parent \in Cluster
    BY <1>1 DEF Readable
  <2>2. ASSUME reply'.code = 0 PROVE \E x \in Slot : FolderFound(x)'
    <3>1. /\ \E w \in WordsAt(fat_table, parent) : w # FAT32_FAT_EMPTY_ENTRY
          /\ \E s \in Slot :
               /\ IsFirst(s, SameFolder(tables[parent], r))
               /\ tables[parent][s].attribute /\ reply'.place = <<parent, s>>
      BY <1>1, <2>2 DEF ReadDirectory, Return
    <3>2. HasTable(parent)
      BY <1>1, <2>1, <3>1 DEF Readable, WordsAt
    <3>3. PICK s \in Slot : /\ tables[parent][s].used /\ tables[parent][s].attribute
                            /\ reply'.place = <<parent, s>>
      BY <3>1 DEF IsFirst, SameFolder
    <3> QED BY <1>1, <1>2, <3>2, <3>3 DEF FolderFound, HasTable, line
  <2> QED BY <1>2, <2>1, <2>2 DEF TableAnswered
<1>7. SourceKept'
  <2>1. UNCHANGED <<tables, depth, listCluster, command, at, readAnswer>>
    BY <1>1, <1>2 DEF path, line
  <2>2. SourceRead' /\ command.op \in {"cp", "mv"} => SourceThere
    BY <1>1, <2>1 DEF ShellFits, SourceKept, SourceRead
  <2> QED BY <2>1, <2>2, SourceStays DEF SourceKept
<1> QED BY <1>3, <1>4, <1>5, <1>6, <1>7 DEF ShellFits

(* A copy is written to another folder: where the source is its name is     *)
(* taken.                                                                   *)
LEMMA FitsWrite ==
  ASSUME TypeOK, FatCoherent, ShellTypeOK, ShellFits, WriteCall
  PROVE  ShellTypeOK' /\ ShellFits'
<1> DEFINE r == IF command.op = "mkdir"
                THEN Ask(command.name, NoExt, parent, 0, Zeros)
                ELSE Ask(command.name, command.ext, parent, BufferSize, cl)
<1>1. /\ UNCHANGED shell /\ at = "write" /\ pc = "idle"
      /\ WriteBadParent(r) \/ WriteDuplicate(r, tables[r.parent]) \/ MkdirFat(r, tables[r.parent]) \/ StartWriteFile(r, tables[r.parent])
  BY DEF WriteCall, Readable
<1>2. command.op = "mv" => r = Ask(command.name, command.ext, parent, BufferSize, cl)
  OBVIOUS
<1> HIDE DEF r
<1>3. /\ pc' \in {"return", "mkdir_table", "file_data"}
      /\ pc' = "return" => reply'.code \in {1, 2}
      /\ pc' = "file_data" => StartWriteFile(r, tables[r.parent])
      /\ pc' = "mkdir_table" => MkdirFat(r, tables[r.parent])
  <2>1. CASE WriteBadParent(r)
    BY <2>1 DEF WriteBadParent, Return
  <2>2. CASE WriteDuplicate(r, tables[r.parent])
    BY <2>2 DEF WriteDuplicate, Return
  <2>3. CASE MkdirFat(r, tables[r.parent])
    BY <2>3 DEF MkdirFat, Enter
  <2>4. CASE StartWriteFile(r, tables[r.parent])
    BY <2>4 DEF StartWriteFile, Enter
  <2> QED BY <1>1, <2>1, <2>2, <2>3, <2>4
<1>4. ShellTypeOK'
  BY <1>1 DEF shell, path, line, ShellTypeOK
<1>5. CallFits' /\ LineFits' /\ PathTaken' /\ ParentFits'
  BY <1>1, <1>3 DEF shell, path, line, ShellFits, CallFits, LineFits, PathTaken, ParentFits, AsksHere,
                    Writing
<1>6. TableAnswered' /\ SourceKept' /\ CopyKept'
  BY <1>1, <1>3 DEF shell, TableAnswered, SourceKept, SourceRead, CopyKept, CopyMade
<1>7. CopyWritten'
  <2> SUFFICES ASSUME Moving, pc' \in Writing PROVE
        (/\ InFile
         /\ request = Ask(command.name, command.ext, parent, BufferSize, cl)
         /\ parent # listCluster[depth]
         /\ ~wild => slot \in Slot /\ CopyNamed(dir_table_buf[slot]))'
    BY <1>1 DEF CopyWritten, shell, line, Moving
  <2>1. UNCHANGED <<command, parent, cl, depth, listCluster>>
    BY <1>1 DEF shell, path, line
  <2>2. /\ r = Ask(command.name, command.ext, parent, BufferSize, cl)
        /\ r.name = command.name /\ r.ext = command.ext /\ r.parent = parent /\ r.size = BufferSize
    BY <1>2 DEF Ask, Moving
  <2>3. StartWriteFile(r, tables[r.parent])
    BY <1>3, <2>2, BufferSizeNat DEF MkdirFat, Writing
  <2>4. InFile' /\ request' = r
    BY <2>3 DEF StartWriteFile, Enter, InFile
  <2>5. parent # listCluster[depth]
    <3>1. SameFile(tables[parent], r) = {}
      BY <2>2, <2>3, BufferSizeNat DEF StartWriteFile, NameTaken
    <3>2. SourceThere
      BY <1>1 DEF ShellFits, SourceKept, SourceRead, Moving
    <3> QED BY <2>2, <3>1, <3>2 DEF SourceThere, SameFile
  <2>6. ASSUME ~wild' PROVE (slot \in Slot /\ CopyNamed(dir_table_buf[slot]))'
    <3>1. PICK s \in Slot :
            \E e : /\ slot' = s /\ dir_table_buf' = PutEntry(tables[r.parent], s, e)
                   /\ ~e.attribute /\ e.name = r.name /\ e.ext = r.ext
      <4>1. PICK c \in DiskCluster, s \in Slot \cup {ENTRY_COUNT} :
              /\ wild' = (wild \/ c \notin Cluster \/ s = ENTRY_COUNT)
              /\ Enter("file_data", r,
                   PutEntry(tables[r.parent], s,
                            [name |-> r.name, ext |-> r.ext, attribute |-> FALSE,
                             used |-> TRUE, cluster |-> c,
                             filesize |-> tables[r.parent][s].filesize]), s, c)
        BY <2>3 DEF StartWriteFile
      <4>2. s \in Slot
        BY <2>6, <4>1
      <4> QED BY <4>1, <4>2 DEF Enter
    <3>2. PICK e : /\ slot' = s /\ dir_table_buf' = PutEntry(tables[r.parent], s, e)
                   /\ ~e.attribute /\ e.name = r.name /\ e.ext = r.ext
      BY <3>1
    <3>3. dir_table_buf'[s] = e
      BY <3>2 DEF PutEntry
    <3> QED BY <2>1, <2>2, <3>2, <3>3 DEF CopyNamed
  <2> QED BY <2>1, <2>2, <2>4, <2>5, <2>6
<1> QED BY <1>4, <1>5, <1>6, <1>7 DEF ShellFits

(* Where mv's delete looks elsewhere than where the source is, and still    *)
(* for its extension, no directory is.                                      *)
LEMMA DeletedElsewhere ==
  ASSUME ShellTypeOK, LineFits, at = "delete", command.op = "mv",
         NEW d \in Deleted(command), d[2] # parent, d[1] = command.ext,
         command.ext = NoExt => parent < 256,
         command.ext # NoExt /\ NameLength(command.name) = 7 => command.dst # NoName
  PROVE  d[2] \notin Cluster \ {0}
<1>1. NameLength(command.name) \in 1 .. 8 /\ command.ext # GarbledExt
  BY LineTyped, ShellAssumption DEF LineFits
<1>2. Copied(command) = 2 * NameLength(command.name)
  BY DEF Copied
<1>3. Copied(command) \in {2, 4, 6, 8, 10, 12, 14, 16}
  BY <1>1, <1>2
<1>4. Copied(command) > 8
  <2> SUFFICES ASSUME Copied(command) <= 8 PROVE FALSE
    BY <1>3
  <2>1. d = <<command.ext, parent>>
    BY DEF Deleted
  <2> QED BY <2>1
<1>5. CASE command.ext = NoExt
  <2>1. parent \in Nat
    BY DiskClusterSmall DEF ShellTypeOK
  <2>2. parent - (parent % 256) = 0
    BY <1>5, <2>1
  <2>3. d = <<NoExt, Zeroed(command)>>
    BY <1>1, <1>4, <1>5 DEF Deleted
  <2>4. Zeroed(command) \in {parent, 0}
    BY <1>3, <2>2 DEF Zeroed
  <2> QED BY <2>3, <2>4
<1>6. CASE command.ext # NoExt
  <2>1. Copied(command) = 14
    <3> SUFFICES ASSUME Copied(command) # 14 PROVE FALSE
      OBVIOUS
    <3>1. d \in {GarbledExt} \X Overrun(command)
      BY <1>4, <1>6 DEF Deleted
    <3> QED BY <1>1, <3>1
  <2>2. command.dst # NoName
    BY <1>1, <1>2, <1>6, <2>1
  <2>3. d[2] \in BehindSeven(command)
    BY <1>4, <1>6, <2>1 DEF Deleted
  <2>4. d[2] \in StrayClusters
    BY <2>2, <2>3 DEF BehindSeven
  <2> QED BY <2>4, SmallNumbers
<1> QED BY <1>5, <1>6

(* So what it deletes, if anything, is not the copy. *)
LEMMA CopyNotDeleted ==
  ASSUME TypeOK, FatCoherent, ShellTypeOK, ShellFits, Trusted => DiskKept, DeleteCall,
         Moving, CopyMade
  PROVE  CopyThere'
<1>1. UNCHANGED shell /\ at = "delete" /\ Readable
  BY DEF DeleteCall
<1>2. UNCHANGED <<depth, listCluster, command, cl>>
  BY <1>1 DEF shell, path, line
<1>3. Trusted /\ DiskKept /\ CopyThere
  BY <1>1, ReadableTrusted DEF ShellFits, CopyKept
<1>4. PICK c \in DiskCluster, s \in Slot : CopyAt(c, s)
  BY <1>3 DEF CopyThere
<1>5. PICK d, r : DeleteAsked(d, r) /\ r \in Request
  BY DeletedAsked DEF ShellFits
<1> DEFINE p == d[2]
<1>6. /\ d \in Deleted(command) /\ HasTable(p) /\ r.parent = p /\ p \in DiskCluster /\ r.ext = d[1]
      /\ DeleteRefused(r, tables[r.parent]) \/ DeleteDir(r, tables[r.parent]) \/ DeleteFile(r, tables[r.parent])
  BY <1>5 DEF DeleteAsked
<1>7. CASE DeleteRefused(r, tables[r.parent])
  BY <1>2, <1>3, <1>7, CopyStays DEF DeleteRefused
<1>8. CASE DeleteDir(r, tables[r.parent]) \/ DeleteFile(r, tables[r.parent])
  <2>1. PICK v \in Slot : /\ IsFirst(v, Victims(tables[p], r))
                          /\ \/ WriteTable(p, Unused(tables[p], v))
                             \/ \E u \in TablesAfter(Unused(tables[p], v), tables[p][v].cluster) :
                                  WriteTable(p, u)
    BY <1>6, <1>8 DEF DeleteDir, DeleteFile
  <2>2. p \in Cluster \ {0}
    BY <1>3, <1>6, <2>1 DEF DiskKept, Outside, NoDirectory, HasTable, IsFirst, Victims
  <2>3. DirectoryAt(p)
    BY <1>6, <2>2 DEF DirectoryAt, HasTable
  <2>4. tables[p][v].cluster \in Cluster
    BY <1>3, <1>5, <1>6, <2>1, <2>3, VictimOwns DEF DiskKept, Sound
  <2>5. WriteTable(p, Unused(tables[p], v))
    BY <2>1, <2>4 DEF TablesAfter
  <2>6. UNCHANGED blocks /\ OtherEntriesStay(p, v)
    BY <1>3, <1>5, <1>6, <2>1, <2>3, <2>5, EntryRemoved DEF DiskKept, FilesHeld, Held
  <2>7. <<c, s>> # <<p, v>>
    <3> SUFFICES ASSUME c = p, s = v PROVE FALSE
      OBVIOUS
    <3>1. p # parent
      BY <1>1, <1>4 DEF CopyAt, ShellFits, ParentFits, AsksHere
    <3>2. tables[p][v].ext = d[1]
      BY <1>4, <1>6, <2>1 DEF CopyAt, CopyNamed, IsFirst, Victims
    <3>3. tables[p][v].ext = command.ext
      BY <1>4 DEF CopyAt, CopyNamed
    <3>4. /\ command.op = "mv" /\ (command.ext = NoExt => parent < 256)
          /\ command.ext # NoExt /\ NameLength(command.name) = 7 => command.dst # NoName
      BY <1>1 DEF Moving, CopyMade, ShellFits, ParentFits, AsksHere
    <3> QED BY <1>1, <1>6, <2>2, <3>1, <3>2, <3>3, <3>4, DeletedElsewhere DEF ShellFits
  <2>8. CopyAt(c, s)'
    <3>1. Live(c, s)' /\ tables'[c][s] = tables[c][s]
      BY <1>4, <2>6, <2>7 DEF OtherEntriesStay, CopyAt
    <3> QED BY <1>2, <1>4, <2>6, <3>1 DEF CopyAt, CopyNamed
  <2> QED BY <2>8 DEF CopyThere
<1> QED BY <1>6, <1>7, <1>8

LEMMA FitsDelete ==
  ASSUME TypeOK, FatCoherent, ShellTypeOK, ShellFits, Trusted => DiskKept, DeleteCall
  PROVE  ShellTypeOK' /\ ShellFits'
<1>1. UNCHANGED shell /\ at = "delete"
  BY DEF DeleteCall
<1>2. pc' \in {"return", "dir_fat", "walk"}
  <2>1. PICK d, r : DeleteAsked(d, r)
    BY DeletedAsked DEF ShellFits
  <2> QED BY <2>1 DEF DeleteAsked, DeleteRefused, DeleteDir, DeleteFile, Enter, Return
<1>3. ShellTypeOK'
  BY <1>1 DEF shell, path, line, ShellTypeOK
<1>4. CallFits' /\ LineFits' /\ PathTaken' /\ ParentFits'
  BY <1>1, <1>2 DEF shell, path, line, ShellFits, CallFits, LineFits, PathTaken, ParentFits, AsksHere,
                    Deleting
<1>5. TableAnswered' /\ SourceKept' /\ CopyWritten'
  BY <1>1 DEF shell, TableAnswered, SourceKept, SourceRead, CopyWritten
<1>6. CopyKept'
  BY <1>1, CopyNotDeleted DEF shell, path, line, CopyKept, CopyMade, Moving
<1> QED BY <1>3, <1>4, <1>5, <1>6 DEF ShellFits

-----------------------------------------------------------------------------
(* What the user types, and what runs before *)

LEMMA DirNameType ==
  ASSUME ShellTypeOK PROVE DirName(depth) \in Names \cup {NoName, RootName, Garbled}
  BY DEF ShellTypeOK, DirName, Table, Entry

LEMMA FitsType ==
  ASSUME ShellTypeOK, ShellFits, NEW c \in Commands, Type(c)
  PROVE  ShellTypeOK' /\ ShellFits'
<1>1. /\ at = "prompt" /\ pc = "idle" /\ at' = FirstCall(c.op) /\ command' = c
      /\ UNCHANGED <<driver, path, table, cl, readAnswer, codeWrite, inserted>>
      /\ parent' = ParentAsked(c) /\ dirname' = DirName(depth)
      /\ c.op = "cd" => depth < MaxDepth
  BY DEF Type
<1>2. pc' = "idle"
  BY <1>1 DEF driver
<1>3. c.op \in {"cd", "mkdir", "cat", "rm", "cp", "mv", "ls", "find"}
  BY ShellAssumption DEF Command
<1>4. /\ c.op \in {"cat", "cp", "mv"} => at' = "read"
      /\ c.op \in {"cd", "ls", "find"} => at' = "table"
      /\ c.op = "mkdir" => at' = "write"
      /\ c.op = "rm" => at' = "delete"
  BY <1>1 DEF FirstCall
<1>5. at' \in {"read", "table", "write", "delete"}
  BY <1>3, <1>4
<1>6. /\ c.op \notin {"ls", "find"} => parent' = listCluster[depth]
      /\ \E k \in 0 .. depth : parent' = listCluster[k]
  <2>1. depth \in 0 .. depth /\ (depth # 0 => depth - 1 \in 0 .. depth) /\ 0 \in 0 .. depth
    BY ShellAssumption DEF ShellTypeOK
  <2> QED BY <1>1, <2>1 DEF ParentAsked, Above
<1>7. ShellTypeOK'
  <2>1. parent' \in DiskCluster
    <3>1. PICK k \in 0 .. depth : parent' = listCluster[k]
      BY <1>6
    <3>2. k \in 0 .. MaxDepth
      BY ShellAssumption DEF ShellTypeOK
    <3> QED BY <3>1, <3>2 DEF ShellTypeOK
  <2>2. dirname' \in Names \cup {NoName, RootName, Garbled}
    BY <1>1, DirNameType
  <2> QED BY <1>1, <1>5, <2>1, <2>2 DEF path, ShellTypeOK
<1>8. CallFits' /\ LineFits'
  BY <1>1, <1>2, <1>3, <1>4, <1>5 DEF CallFits, LineFits, ShellFits, path
<1>9. PathTaken' /\ ParentFits'
  BY <1>1, <1>3, <1>4, <1>6 DEF PathTaken, ParentFits, AsksHere, ShellFits, path
<1>10. TableAnswered' /\ SourceKept' /\ CopyWritten'
  BY <1>1, <1>2, <1>3, <1>4 DEF TableAnswered, SourceKept, SourceRead, CopyWritten, Writing
<1>11. CopyKept'
  BY <1>1, <1>2, <1>3, <1>4 DEF CopyKept, CopyMade, ShellFits, LineFits, NotWritten
<1> QED BY <1>7, <1>8, <1>9, <1>10, <1>11 DEF ShellFits

LEMMA FitsUp ==
  ASSUME ShellTypeOK, ShellFits, Up PROVE ShellTypeOK' /\ ShellFits'
<1>1. depth \in 0 .. MaxDepth /\ MaxDepth \in Nat /\ depth > 0
  BY ShellAssumption DEF ShellTypeOK, Up
<1>2. /\ at = "prompt" /\ UNCHANGED <<driver, table, cl, at, line, inserted>> /\ depth' = depth - 1
      /\ listCluster' = [listCluster EXCEPT ![depth] = 0] /\ listDir' = [listDir EXCEPT ![depth] = 0]
  BY DEF Up
<1>3. 0 \in DiskCluster /\ 0 \in Slot
  BY SmallNumbers, SizeAssumption DEF Slot
<1>4. ShellTypeOK'
  BY <1>1, <1>2, <1>3 DEF line, ShellTypeOK
<1>5. PathTaken'
  <2> SUFFICES ASSUME NEW k \in 0 .. depth' PROVE listCluster'[k] \in Cluster \ {0}
    BY DEF PathTaken
  <2>1. k \in 0 .. depth /\ k # depth /\ k \in 0 .. MaxDepth
    BY <1>1, <1>2
  <2>2. listCluster'[k] = listCluster[k]
    BY <1>2, <2>1 DEF ShellTypeOK
  <2> QED BY <1>2, <2>1, <2>2 DEF PathTaken, ShellFits
<1>6. CallFits' /\ LineFits' /\ ParentFits' /\ TableAnswered' /\ SourceKept' /\ CopyWritten' /\ CopyKept'
  BY <1>2 DEF driver, line, ShellFits, CallFits, LineFits, ParentFits, AsksHere, TableAnswered,
              SourceKept, SourceRead, CopyWritten, CopyKept, CopyMade
<1> QED BY <1>4, <1>5, <1>6 DEF ShellFits

LEMMA FitsAstray ==
  ASSUME ShellTypeOK, ShellFits, GoAstray PROVE ShellTypeOK' /\ ShellFits'
<1>1. /\ pc = "idle" /\ at' = "astray" /\ at # "boot"
      /\ UNCHANGED <<driver, path, table, cl, line, inserted>>
  BY DEF GoAstray
<1>2. ShellTypeOK'
  BY <1>1 DEF path, line, ShellTypeOK
<1> QED BY <1>1, <1>2 DEF driver, path, ShellFits, CallFits, LineFits, PathTaken, ParentFits, AsksHere,
              TableAnswered, SourceKept, SourceRead, CopyWritten, CopyKept, CopyMade

LEMMA FitsBoot ==
  ASSUME ShellTypeOK, ShellFits, Insert \/ InsertAnswered \/ Main
  PROVE  ShellTypeOK' /\ ShellFits'
<1>1. CASE Insert \/ InsertAnswered
  <2>1. /\ at = "boot" /\ UNCHANGED <<path, table, cl, at, line>>
        /\ inserted' = inserted \/ (inserted < Len(Files) /\ inserted' = inserted + 1)
    BY <1>1 DEF Insert, InsertAnswered, shell
  <2>2. ShellTypeOK'
    <3>1. inserted' \in 0 .. Len(Files)
      BY <2>1, ShellAssumption DEF ShellTypeOK
    <3> QED BY <2>1, <3>1 DEF path, line, ShellTypeOK
  <2> QED BY <2>1, <2>2 DEF line, ShellFits, CallFits, LineFits, PathTaken, ParentFits, AsksHere,
              TableAnswered, SourceKept, SourceRead, CopyWritten, CopyKept, CopyMade
<1>2. CASE Main
  <2>1. /\ at = "boot" /\ pc = "idle" /\ at' = "prompt"
        /\ listCluster' = [listCluster EXCEPT ![0] = ROOT_CLUSTER_NUMBER]
        /\ UNCHANGED <<driver, depth, listDir, table, cl, line, inserted>>
    BY <1>2 DEF Main
  <2>2. depth = 0 /\ 0 \in 0 .. MaxDepth
    BY <2>1, ShellAssumption DEF ShellTypeOK
  <2>3. ShellTypeOK'
    BY <2>1, <2>2, SmallNumbers DEF line, ShellTypeOK
  <2>4. PathTaken'
    <3>1. listCluster'[0] = ROOT_CLUSTER_NUMBER
      BY <2>1, <2>2 DEF ShellTypeOK
    <3>2. \A k \in 0 .. depth' : k = 0
      BY <2>1, <2>2
    <3> QED BY <3>1, <3>2, SmallNumbers DEF PathTaken
  <2> QED BY <2>1, <2>3, <2>4 DEF driver, line, ShellFits, CallFits, LineFits, ParentFits, AsksHere,
              TableAnswered, SourceKept, SourceRead, CopyWritten, CopyKept, CopyMade
<1> QED BY <1>1, <1>2

-----------------------------------------------------------------------------
(* The answers *)

(* read_directory gives the table of the folder asked for: the parent       *)
(* itself, or a folder in it.                                               *)
LEMMA FolderRead ==
  ASSUME TypeOK, DiskKept, ShellTypeOK, reply.code = 0, NEW x \in Slot, FolderFound(x),
         NEW d, d = tables[parent][x].cluster
  PROVE  /\ TableRead = tables[d] /\ d \in DiskCluster /\ tables[d] # NoTable
         /\ parent \in DiskCluster /\ tables[parent][x].attribute
         /\ d = parent \/ Live(parent, x)
<1>1. /\ reply.place[1] = parent /\ reply.place[2] = x /\ parent \in DiskCluster
      /\ tables[parent] # NoTable /\ tables[parent][x].used /\ tables[parent][x].attribute
  BY DEF FolderFound, HasTable
<1>2. TableRead = tables[d]
  BY <1>1 DEF TableRead
<1>3. CASE Live(parent, x)
  <2>1. d \in DiskCluster
    BY <1>1, <1>3, FolderOwns DEF DiskKept
  <2>2. Leads(tables[d], tables[parent][x])
    BY <1>1, <1>3 DEF DiskKept, Folders, FolderNamed, LiveFolder
  <2> QED BY <1>1, <1>2, <1>3, <2>1, <2>2 DEF Leads
<1>4. CASE ~Live(parent, x)
  BY <1>1, <1>2, <1>4 DEF Live
<1> QED BY <1>3, <1>4

LEMMA TableReadFacts ==
  ASSUME TypeOK, ShellTypeOK, ShellFits, Trusted => DiskKept, at = "table", pc = "return"
  PROVE  /\ Trusted /\ DiskKept /\ TableRead \in Table /\ FoldersIn(TableRead)
<1>1. Trusted
  BY DEF ShellFits, TableAnswered, Trusted, OverBoot, Writing
<1>2. CASE reply.code = 0
  <2>1. PICK x \in Slot : FolderFound(x)
    BY <1>2 DEF ShellFits, TableAnswered
  <2>2. PICK d : d = tables[parent][x].cluster
    OBVIOUS
  <2>3. TableRead = tables[d] /\ d \in DiskCluster /\ tables[d] # NoTable
    BY <1>1, <1>2, <2>1, <2>2, FolderRead
  <2>4. tables[d] \in Table
    BY <2>3 DEF TypeOK
  <2>5. FoldersIn(tables[d])
    BY <1>1, <2>3 DEF DiskKept, Sound, OnDisk, FolderTables
  <2> QED BY <1>1, <2>3, <2>4, <2>5
<1>3. CASE reply.code # 0
  <2>1. TableRead = ZeroTable
    BY <1>3 DEF TableRead
  <2>2. ZeroTable \in Table /\ FoldersIn(ZeroTable)
    BY TableTypes DEF ZeroTable, Table, FoldersIn, EmptyEntry
  <2> QED BY <1>1, <2>1, <2>2
<1> QED BY <1>2, <1>3

(* Once the line is done only the path matters. *)
LEMMA EndsFit ==
  ASSUME NEW where \in {"prompt", "printing", "astray"}, Ends(where), pc' = "idle", PathTaken'
  PROVE  ShellFits'
  BY DEF Ends, ShellFits, CallFits, LineFits, ParentFits, AsksHere, TableAnswered, SourceKept, SourceRead,
         CopyWritten, CopyKept, CopyMade

LEMMA EndsTypes ==
  ASSUME ShellTypeOK, NEW where \in {"prompt", "printing", "astray"}, Ends(where),
         UNCHANGED inserted, depth' \in 0 .. MaxDepth,
         listCluster' \in [0 .. MaxDepth -> DiskCluster], listDir' \in [0 .. MaxDepth -> Slot],
         table' \in Table, cl' \in Payloads
  PROVE  ShellTypeOK'
<1>1. 0 \in DiskCluster
  BY SmallNumbers
<1> QED BY <1>1 DEF Ends, ShellTypeOK, NotWritten

LEMMA FilledType ==
  ASSUME TypeOK, ShellTypeOK, FillBuffer PROVE cl' \in Payloads
<1>1. buf # <<>> => buf[1] \in Block \cup {NoBlock}
  BY DEF TypeOK
<1>2. \A b \in Block : b.data \in Payloads
  BY DEF Block
<1> QED BY <1>1, <1>2 DEF FillBuffer, ShellTypeOK

(* Where cd goes: a folder's entry of the table it was given. *)
LEMMA FitsCd ==
  ASSUME TypeOK, ShellTypeOK, ShellFits, Trusted => DiskKept, CdAnswered
  PROVE  ShellTypeOK' /\ ShellFits'
<1>1. /\ at = "table" /\ pc = "return" /\ pc' = "idle" /\ command.op = "cd"
      /\ table' = TableRead /\ Done /\ UNCHANGED <<cl, inserted>>
  BY DEF CdAnswered, Answered, SyscallReturn
<1>2. TableRead \in Table /\ FoldersIn(TableRead)
  BY <1>1, TableReadFacts
<1>3. ShellTypeOK => depth \in 0 .. MaxDepth /\ cl \in Payloads
  BY DEF ShellTypeOK
<1>4. CASE UNCHANGED path
  <2>1. PathTaken'
    BY <1>1, <1>4 DEF path, ShellFits, PathTaken
  <2>2. ShellTypeOK'
    BY <1>1, <1>2, <1>4, EndsTypes DEF Done, path, ShellTypeOK
  <2> QED BY <1>1, <2>1, <2>2, EndsFit DEF Done
<1>5. CASE \E s \in Slot : TableRead[s].attribute /\ EnterSlot(s)
  <2>1. PICK s \in Slot : TableRead[s].attribute /\ EnterSlot(s)
    BY <1>5
  <2>2. TableRead[s].cluster \in Cluster \ {0} /\ TableRead[s].cluster \in DiskCluster
    BY <1>2, <2>1, SmallNumbers DEF FoldersIn
  <2>3. depth \in 0 .. MaxDepth /\ MaxDepth \in Nat /\ depth < MaxDepth
    BY <1>1, ShellAssumption DEF ShellTypeOK, ShellFits, LineFits
  <2>4. depth + 1 \in 0 .. MaxDepth /\ depth' = depth + 1
    BY <2>1, <2>3 DEF EnterSlot
  <2>5. /\ listCluster' = [listCluster EXCEPT ![depth + 1] = TableRead[s].cluster]
        /\ listDir' = [listDir EXCEPT ![depth + 1] = s]
    BY <2>1 DEF EnterSlot
  <2>6. /\ listCluster' \in [0 .. MaxDepth -> DiskCluster] /\ listDir' \in [0 .. MaxDepth -> Slot]
        /\ listCluster'[depth + 1] = TableRead[s].cluster
        /\ \A k \in 0 .. MaxDepth : k # depth + 1 => listCluster'[k] = listCluster[k]
    BY <2>2, <2>4, <2>5 DEF ShellTypeOK
  <2>7. ShellTypeOK'
    BY <1>1, <1>2, <1>3, <2>4, <2>6, EndsTypes DEF Done
  <2>8. PathTaken'
    <3> SUFFICES ASSUME NEW k \in 0 .. depth' PROVE listCluster'[k] \in Cluster \ {0}
      BY DEF PathTaken
    <3>1. k = depth + 1 \/ (k \in 0 .. depth /\ k \in 0 .. MaxDepth /\ k # depth + 1)
      BY <2>3, <2>4
    <3> QED BY <1>1, <2>2, <2>6, <3>1 DEF ShellFits, PathTaken
  <2> QED BY <1>1, <2>7, <2>8, EndsFit DEF Done
<1> QED BY <1>4, <1>5 DEF CdAnswered

LEMMA FitsDone ==
  ASSUME TypeOK, ShellTypeOK, ShellFits, Trusted => DiskKept,
         LsAnswered \/ FindAnswered \/ CatAnswered \/ LastAnswered
  PROVE  ShellTypeOK' /\ ShellFits'
<1>0. PICK where \in {"prompt", "printing", "astray"} : Ends(where)
  BY DEF LsAnswered, FindAnswered, CatAnswered, LastAnswered, Done
<1>1. pc' = "idle" /\ at # "boot" /\ UNCHANGED <<path, inserted>>
  BY DEF LsAnswered, FindAnswered, CatAnswered, LastAnswered, Answered, SyscallReturn
<1>2. PathTaken'
  BY <1>0, <1>1 DEF Ends, path, ShellFits, PathTaken
<1>3. ShellFits'
  BY <1>0, <1>1, <1>2, EndsFit
<1>4. table' \in Table
  <2>1. CASE LsAnswered
    <3>1. TableRead \in Table
      BY <2>1, TableReadFacts DEF LsAnswered, Answered, SyscallReturn
    <3>2. dirname \in Names \cup {NoName, RootName, Garbled} /\ listDir[depth] \in Slot
      BY ShellAssumption DEF ShellTypeOK
    <3>3. [TableRead EXCEPT ![listDir[depth]] = [@ EXCEPT !.name = dirname]] \in Table
      <4>1. [TableRead[listDir[depth]] EXCEPT !.name = dirname] \in Entry
        BY <3>1, <3>2 DEF Table, Entry
      <4> QED BY <3>1, <4>1 DEF Table
    <3> QED BY <2>1, <3>1, <3>3 DEF LsAnswered
  <2>2. CASE FindAnswered
    BY <2>2, TableReadFacts DEF FindAnswered, Answered, SyscallReturn
  <2> QED BY <2>1, <2>2 DEF CatAnswered, LastAnswered, ShellTypeOK
<1>5. cl' \in Payloads
  BY FilledType DEF LsAnswered, FindAnswered, CatAnswered, LastAnswered, ShellTypeOK
<1>6. ShellTypeOK'
  BY <1>0, <1>1, <1>4, <1>5, EndsTypes DEF path, ShellTypeOK
<1> QED BY <1>3, <1>6

LEMMA FitsCopyRead ==
  ASSUME TypeOK, ShellTypeOK, ShellFits, CopyRead
  PROVE  ShellTypeOK' /\ ShellFits'
<1>1. /\ at = "read" /\ at' \in {"table", "astray"} /\ pc = "return" /\ pc' = "idle" /\ command.op \in {"cp", "mv"}
      /\ FillBuffer /\ readAnswer' = reply.code
      /\ UNCHANGED <<tables, path, table, command, parent, dirname, codeWrite, inserted>>
  BY DEF CopyRead, Answered, SyscallReturn
<1>2. ShellTypeOK'
  <2>1. cl' \in Payloads
    BY <1>1, FilledType
  <2>2. readAnswer' \in -1 .. 2
    BY <1>1 DEF TypeOK
  <2> QED BY <1>1, <2>1, <2>2 DEF path, ShellTypeOK
<1>3. CallFits' /\ LineFits' /\ TableAnswered' /\ CopyWritten' /\ CopyKept'
  BY <1>1 DEF CallFits, LineFits, TableAnswered, CopyWritten, CopyKept, CopyMade, ShellFits
<1>4. PathTaken' /\ ParentFits'
  <2>1. parent = listCluster[depth] /\ depth \in 0 .. depth
    BY <1>1, Here DEF ShellFits, ParentFits, AsksHere
  <2> QED BY <1>1, <2>1 DEF path, ShellFits, PathTaken, ParentFits, AsksHere
<1>5. SourceKept'
  <2>1. readAnswer' = 0 => SourceThere
    BY <1>1 DEF ShellFits, SourceKept, SourceRead
  <2> QED BY <1>1, <2>1, SourceStays DEF path, SourceKept, SourceRead
<1> QED BY <1>2, <1>3, <1>4, <1>5 DEF ShellFits

LEMMA FitsCopyTarget ==
  ASSUME TypeOK, ShellTypeOK, ShellFits, Trusted => DiskKept, CopyTarget
  PROVE  ShellTypeOK' /\ ShellFits'
<1>1. /\ at = "table" /\ pc = "return" /\ pc' = "idle" /\ command.op \in {"cp", "mv"}
      /\ table' = TableRead
      /\ UNCHANGED <<tables, path, cl, inserted>>
  BY DEF CopyTarget, Answered, SyscallReturn
<1>2. TableRead \in Table
  BY <1>1, TableReadFacts
<1>3. PathTaken'
  BY <1>1 DEF path, CopyTarget, Done, ShellFits, PathTaken
<1>4. CASE Done
  <2>1. ShellTypeOK'
    BY <1>1, <1>2, <1>4, EndsTypes DEF Done, path, ShellTypeOK
  <2> QED BY <1>1, <1>3, <1>4, <2>1, EndsFit DEF Done
<1>5. CASE ~Done
  <2>1. /\ UNCHANGED <<command, dirname, readAnswer, codeWrite>>
        /\ \/ at' = "write" /\ parent' \in DiskCluster
           \/ at' = "delete" /\ parent' = listCluster[depth] /\ command.op = "mv"
    <3>1. \A s \in Slot : TableRead[s].cluster \in DiskCluster
      BY <1>2 DEF Table, Entry
    <3>2. CASE at' = "write"
      <4>1. PICK s \in Slot : parent' = TableRead[s].cluster
        BY <1>5, <3>2 DEF CopyTarget
      <4> QED BY <1>5, <3>1, <3>2, <4>1 DEF CopyTarget
    <3> QED BY <1>5, <3>2 DEF CopyTarget
  <2>2. parent' \in DiskCluster
    BY <1>1, <2>1, Here DEF ShellFits
  <2>3. ShellTypeOK'
    BY <1>1, <1>2, <2>1, <2>2 DEF path, ShellTypeOK
  <2>4. CallFits' /\ LineFits' /\ TableAnswered' /\ CopyWritten'
    BY <1>1, <2>1 DEF CallFits, LineFits, TableAnswered, CopyWritten, Writing, ShellFits, path
  <2>5. ParentFits'
    BY <1>1, <2>1 DEF path, ParentFits, AsksHere
  <2>6. CopyKept'
    BY <1>1, <2>1 DEF CopyKept, CopyMade, ShellFits, LineFits, NotWritten
  <2>7. SourceKept'
    <3>1. readAnswer = 0 => SourceThere
      BY <1>1 DEF ShellFits, SourceKept, SourceRead
    <3> QED BY <1>1, <2>1, <3>1, SourceStays DEF path, SourceKept, SourceRead
  <2> QED BY <1>3, <2>3, <2>4, <2>5, <2>6, <2>7 DEF ShellFits
<1> QED BY <1>4, <1>5

LEMMA FitsMoveWritten ==
  ASSUME TypeOK, ShellTypeOK, ShellFits, Trusted => DiskKept, MoveWritten
  PROVE  ShellTypeOK' /\ ShellFits'
<1>1. /\ at = "write" /\ at' = "delete" /\ pc = "return" /\ pc' = "idle" /\ command.op = "mv"
      /\ codeWrite' = reply.code /\ parent' = listCluster[depth] /\ SyscallReturn
      /\ UNCHANGED <<tables, blocks, path, table, cl, command, dirname, readAnswer, inserted>>
  BY DEF MoveWritten, Answered, SyscallReturn
<1>2. ShellTypeOK'
  <2>1. codeWrite' \in -1 .. NotWritten
    BY <1>1 DEF TypeOK, NotWritten
  <2>2. parent' \in DiskCluster
    BY <1>1, Here DEF ShellFits
  <2> QED BY <1>1, <2>1, <2>2 DEF path, ShellTypeOK
<1>3. CallFits' /\ LineFits' /\ TableAnswered' /\ CopyWritten' /\ SourceKept'
  BY <1>1 DEF CallFits, LineFits, TableAnswered, CopyWritten, SourceKept, SourceRead
<1>4. PathTaken' /\ ParentFits'
  BY <1>1 DEF path, ShellFits, PathTaken, ParentFits, AsksHere
<1>5. CopyKept'
  <2> SUFFICES ASSUME Trusted', CopyMade', Moving' PROVE CopyThere'
    BY DEF CopyKept
  <2>1. Trusted
    BY <1>1, TrustBefore DEF DriverMoves, Step
  <2>2. CopyMade /\ Moving
    BY <1>1 DEF CopyMade, Moving
  <2> QED BY <1>1, <2>1, <2>2, CopyStays DEF path, ShellFits, CopyKept
<1> QED BY <1>2, <1>3, <1>4, <1>5 DEF ShellFits

-----------------------------------------------------------------------------
(* What the shell keeps *)

LEMMA ShellStep ==
  ASSUME ShellInv, [User \/ Running]_svars PROVE ShellInv'
<1>1. DriverMoves
  BY ShellMoves DEF ShellInv
<1>2. TypeOK' /\ FatCoherent' /\ (Trusted' => DiskKept')
  BY <1>1, MovesType, MovesCoherent, TrustBefore, MovesDisk DEF ShellInv
<1>3. CASE UNCHANGED svars \/ PutsForever
  <2>0. UNCHANGED svars
    BY <1>3 DEF PutsForever
  <2>1. UNCHANGED <<depth, listCluster, listDir, table, cl, at, command, parent, dirname, readAnswer,
                    codeWrite, inserted>>
    BY <2>0 DEF svars, shell, path, line
  <2>2. UNCHANGED <<signature, tables, blocks, pc, request, slot, dir_table_buf, reply, wild>>
    BY <2>0 DEF svars, driver
  <2>3. ShellTypeOK'
    BY <2>1 DEF ShellInv, ShellTypeOK
  <2>4. CallFits' /\ LineFits' /\ PathTaken' /\ ParentFits' /\ TableAnswered'
    BY <2>1, <2>2 DEF ShellInv, ShellFits, CallFits, LineFits, PathTaken, ParentFits, AsksHere,
                      TableAnswered, FolderFound, HasTable
  <2>5. SourceKept' /\ CopyWritten'
    BY <2>1, <2>2 DEF ShellInv, ShellFits, SourceKept, SourceRead, SourceThere, SameFile, CopyWritten,
                      Moving, InFile, CopyNamed, Ask
  <2>6. CopyKept'
    BY <2>1, <2>2, CopyStays DEF ShellInv, ShellFits, CopyKept, CopyMade, Moving, Trusted, OverBoot
  <2> QED BY <1>2, <2>3, <2>4, <2>5, <2>6 DEF ShellInv, ShellFits
<1>4. CASE User \/ (Running /\ ~PutsForever)
  <2>1. ShellTypeOK' /\ ShellFits'
    BY <1>4, FitsDriver, FitsRead, FitsTable, FitsWrite, FitsDelete, FitsType, FitsUp, FitsAstray,
       FitsBoot, FitsCd, FitsDone, FitsCopyRead, FitsCopyTarget, FitsMoveWritten
       DEF ShellInv, User, Running, Calls, Answers
  <2> QED BY <1>2, <2>1 DEF ShellInv
<1> QED BY <1>3, <1>4

(* All of it together, always. *)
LEMMA ShellAlways == ShellSpec => []ShellInv
<1>1. ShellInit => ShellInv
  BY FitsInit
<1>2. ShellInv /\ [User \/ Running]_svars => ShellInv'
  BY ShellStep
<1> QED BY <1>1, <1>2, PTL DEF ShellSpec

(* The shell's variables always have the shapes ShellTypeOK gives them:     *)
(* what cd takes from a table the driver left is a cluster, and the line    *)
(* being carried out is there until it is done.                             *)
THEOREM ShellTypesKept == ShellSpec => []ShellTypeOK
<1>1. ShellInv => ShellTypeOK
  BY DEF ShellInv
<1> QED BY <1>1, ShellAlways, PTL

(* A move whose source was read and whose copy was accepted keeps the file: *)
(* the copy is in another folder, under its name and extension and with     *)
(* what was read, and what delete picks afterwards, from the folder the     *)
(* shell is in or from wherever the request mv ran over leads, is not it.   *)
THEOREM MoveKeepsFile == ShellSpec => []CopySurvivesMove
<1>1. ASSUME ShellInv PROVE CopySurvivesMove
  <2> SUFFICES ASSUME at = "delete", command.op = "mv", readAnswer = 0, codeWrite = 0, ~wild, signature,
                      command.ext = NoExt => listCluster[depth] < 256,
                      command.ext # NoExt /\ NameLength(command.name) = 7 => command.dst # NoName
               PROVE  \E p \in LivePlaces :
                        /\ EntryAt(p).name = command.name /\ EntryAt(p).ext = command.ext
                        /\ Whole(EntryAt(p).cluster) /\ blocks[EntryAt(p).cluster].data = cl
    BY DEF CopySurvivesMove
  <2>1. Trusted
    BY <1>1 DEF ShellInv, ShellFits, CallFits, Trusted, OverBoot, Writing, Deleting
  <2>2. CopyThere
    BY <1>1, <2>1 DEF ShellInv, ShellFits, CopyKept, CopyMade, Moving
  <2>3. PICK c \in DiskCluster, s \in Slot : CopyAt(c, s)
    BY <2>2 DEF CopyThere
  <2>4. Whole(tables[c][s].cluster)
    BY <1>1, <2>1, <2>3, FileWhole DEF ShellInv, DiskKept, CopyAt, CopyNamed
  <2>5. <<c, s>> \in LivePlaces /\ EntryAt(<<c, s>>) = tables[c][s]
    BY <2>3 DEF LivePlaces, EntryAt, CopyAt
  <2> QED BY <2>3, <2>4, <2>5 DEF CopyAt, CopyNamed
<1> QED BY <1>1, ShellAlways, PTL

(* Only cd goes down, to the folder an entry of the table names that        *)
(* read_directory gave it.                                                  *)
LEMMA Entered ==
  ASSUME ShellInv, [User \/ Running]_svars, depth' > depth
  PROVE  /\ CdAnswered /\ DiskKept
         /\ \E x \in Slot, s \in Slot :
              /\ FolderFound(x) /\ reply.code = 0
              /\ TableRead[s].attribute /\ depth' = depth + 1
              /\ listDir'[depth'] = s /\ listCluster'[depth'] = TableRead[s].cluster
              /\ table' = TableRead
<1>1. depth \in 0 .. MaxDepth /\ MaxDepth \in Nat
  BY ShellAssumption DEF ShellInv, ShellTypeOK
<1>2. depth' # depth /\ depth' # depth - 1
  BY <1>1
<1>3. CdAnswered /\ ~UNCHANGED path
  <2>1. ~UNCHANGED path /\ ~UNCHANGED shell /\ ~UNCHANGED svars
    BY <1>2 DEF path, shell, svars
  <2>2. ~Up
    BY <1>1, <1>2 DEF Up
  <2>3. ~(GoAstray \/ Insert \/ InsertAnswered \/ Main \/ PutsForever) /\ \A c \in Commands : ~Type(c)
    BY <1>2, <2>1 DEF GoAstray, Insert, InsertAnswered, Main, PutsForever, Type, path
  <2>4. ~DriverStep /\ ~Calls
    BY <2>1 DEF DriverStep, Calls, ReadCall, TableCall, WriteCall, DeleteCall
  <2>5. ~(LsAnswered \/ FindAnswered \/ CatAnswered \/ CopyRead \/ CopyTarget \/ MoveWritten
          \/ LastAnswered)
    BY <2>1 DEF LsAnswered, FindAnswered, CatAnswered, CopyRead, CopyTarget, MoveWritten, LastAnswered
  <2> QED BY <2>1, <2>2, <2>3, <2>4, <2>5 DEF User, Running, Answers
<1>4. at = "table" /\ pc = "return" /\ command.op = "cd" /\ table' = TableRead
  BY <1>3 DEF CdAnswered, Answered, SyscallReturn
<1>5. PICK s \in Slot : TableRead[s].attribute /\ EnterSlot(s)
  BY <1>3 DEF CdAnswered
<1>6. reply.code = 0
  <2>1. ZeroTable[s].attribute = FALSE
    BY DEF ZeroTable, EmptyEntry
  <2> QED BY <1>5, <2>1 DEF TableRead
<1>7. PICK x \in Slot : FolderFound(x)
  BY <1>4, <1>6 DEF ShellInv, ShellFits, TableAnswered
<1>8. depth < MaxDepth /\ DiskKept
  BY <1>4, TableReadFacts DEF ShellInv, ShellFits, LineFits
<1>9. depth' = depth + 1 /\ depth + 1 \in 0 .. MaxDepth
  BY <1>1, <1>5, <1>8 DEF EnterSlot
<1>10. listDir'[depth + 1] = s /\ listCluster'[depth + 1] = TableRead[s].cluster
  BY <1>5, <1>9 DEF EnterSlot, ShellInv, ShellTypeOK
<1> QED BY <1>3, <1>4, <1>5, <1>6, <1>7, <1>8, <1>9, <1>10

(* Wherever the names of the path lead by then, cd enters nothing but the   *)
(* folder the shell is in or one at most two levels below, or one that was  *)
(* deleted.                                                                 *)
THEOREM CdGoesDown == ShellSpec => CdStaysBelow
<1>1. ASSUME ShellInv, [User \/ Running]_svars
      PROVE  [depth' > depth =>
               \/ \E c \in AtOrIn(listCluster[depth]) : listCluster'[depth'] \in AtOrIn(c)
               \/ ~TableRead[listDir'[depth']].used]_svars
  <2> SUFFICES ASSUME depth' > depth, TableRead[listDir'[depth']].used
               PROVE  \E c \in AtOrIn(listCluster[depth]) : listCluster'[depth'] \in AtOrIn(c)
    OBVIOUS
  <2>1. PICK x \in Slot, s \in Slot :
          /\ CdAnswered /\ DiskKept /\ FolderFound(x) /\ reply.code = 0
          /\ TableRead[s].attribute /\ TableRead[s].used
          /\ listCluster'[depth'] = TableRead[s].cluster
    BY <1>1, Entered
  <2>2. PICK d : d = tables[parent][x].cluster
    OBVIOUS
  <2>3. /\ TableRead = tables[d] /\ d \in DiskCluster /\ tables[d] # NoTable
        /\ parent \in DiskCluster /\ tables[parent][x].attribute
        /\ d = parent \/ Live(parent, x)
    BY <1>1, <2>1, <2>2, FolderRead DEF ShellInv
  <2>4. parent = listCluster[depth]
    BY <1>1, <2>1 DEF CdAnswered, Answered, ShellInv, ShellFits, ParentFits, AsksHere
  <2>5. ASSUME NEW c \in DiskCluster, NEW k \in Slot, Live(c, k), tables[c][k].attribute
        PROVE  tables[c][k].cluster \in AtOrIn(c)
    <3>1. <<c, k>> \in LivePlaces /\ EntryAt(<<c, k>>) = tables[c][k] /\ <<c, k>>[1] = c
      BY <2>5 DEF LivePlaces, EntryAt
    <3> QED BY <2>5, <3>1 DEF AtOrIn, ChildFolders
  <2>6. d \in AtOrIn(parent)
    BY <2>2, <2>3, <2>5 DEF AtOrIn
  <2>7. tables[d][s].cluster \in AtOrIn(d)
    <3>1. CASE Live(d, s)
      BY <2>1, <2>3, <2>5, <3>1
    <3>2. CASE ~Live(d, s)
      BY <2>1, <2>3, <3>2 DEF Live, AtOrIn
    <3> QED BY <3>1, <3>2
  <2> QED BY <2>1, <2>3, <2>4, <2>6, <2>7
<1> QED BY <1>1, ShellAlways, PTL DEF ShellSpec, CdStaysBelow

(* Right after cd the prompt ends in the name of the folder the shell is    *)
(* in, as that folder's own table has it: every folder's table names the    *)
(* folder as its entry does.                                                *)
THEOREM PromptNamesIt == ShellSpec => PromptNamesFolder
<1>1. ASSUME ShellInv, [User \/ Running]_svars
      PROVE  [depth' > depth /\ TableRead[listDir'[depth']].used =>
               /\ tables[listCluster'[depth']] # NoTable
               /\ DirName(depth)' = tables[listCluster'[depth']][0].name]_svars
  <2> SUFFICES ASSUME depth' > depth, TableRead[listDir'[depth']].used
               PROVE  /\ tables[listCluster'[depth']] # NoTable
                      /\ DirName(depth)' = tables[listCluster'[depth']][0].name
    OBVIOUS
  <2>1. PICK x \in Slot, s \in Slot :
          /\ DiskKept /\ FolderFound(x) /\ reply.code = 0
          /\ TableRead[s].attribute /\ TableRead[s].used /\ depth' = depth + 1
          /\ listDir'[depth'] = s /\ listCluster'[depth'] = TableRead[s].cluster
          /\ table' = TableRead
    BY <1>1, Entered
  <2>2. PICK d : d = tables[parent][x].cluster
    OBVIOUS
  <2>3. TableRead = tables[d] /\ d \in DiskCluster /\ tables[d] # NoTable
    BY <1>1, <2>1, <2>2, FolderRead DEF ShellInv
  <2>4. DirName(depth)' = tables[d][s].name
    <3>1. depth' # 0
      BY <1>1, <2>1, ShellAssumption DEF ShellInv, ShellTypeOK
    <3> QED BY <2>1, <2>3, <3>1 DEF DirName
  <2>5. CASE Live(d, s)
    <3>1. Leads(tables[tables[d][s].cluster], tables[d][s])
      BY <2>1, <2>3, <2>5 DEF DiskKept, Folders, FolderNamed, LiveFolder
    <3>2. SelfEntry(tables[d][s].name, tables[d][s].cluster).name = tables[d][s].name
      BY DEF SelfEntry, EmptyEntry
    <3> QED BY <2>1, <2>3, <2>4, <3>1, <3>2 DEF Leads
  <2>6. CASE ~Live(d, s)
    <3>1. s = 0 /\ tables[d][s].cluster = d
      BY <2>1, <2>3, <2>6 DEF Live
    <3> QED BY <2>1, <2>3, <2>4, <3>1
  <2> QED BY <2>5, <2>6
<1> QED BY <1>1, ShellAlways, PTL DEF ShellSpec, PromptNamesFolder
=============================================================================
