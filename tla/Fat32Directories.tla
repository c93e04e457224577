-------------------------- MODULE Fat32Directories --------------------------
(***************************************************************************)
(* What the tables of directories hold, for every size of disk and         *)
(* directory, every sequence of calls and every number of crashes:         *)
(* LookupFindsFile and FoldersNameThemselves; and NoOrphans, on a machine  *)
(* that does not stop.                                                     *)
(***************************************************************************)
EXTENDS Fat32Proofs

USE DEF vars, disk, locals

-----------------------------------------------------------------------------
(* LookupFindsFile *)

(* A file in use that has an extension shares name and extension with no    *)
(* other entry, in use or not: write refuses it otherwise, and the entry of *)
(* a folder has no extension.                                               *)
Unique(t) ==
  \A s, x \in Slot :
    t[s].used /\ ~t[s].attribute /\ t[s].ext # NoExt /\ x # s
    => ~(t[x].name = t[s].name /\ t[x].ext = t[s].ext)
TablesUnique == \A c \in DiskCluster : tables[c] # NoTable => Unique(tables[c])
Distinct == TablesUnique /\ (pc \in Writing => Unique(dir_table_buf))

LEMMA UniqueTables ==
  /\ \A name, c : Unique(NewTable(name, c))
  /\ \A t, s, name, c : Unique(t) => Unique(PutEntry(t, s, SelfEntry(name, c)))
  /\ \A t \in Table, s \in Slot : Unique(t) => Unique(Unused(t, s))
  /\ \A t, s, e, r : /\ Unique(t) /\ SameFile(t, r) = {}
                     /\ e.name = r.name /\ e.ext = r.ext
                     => Unique(PutEntry(t, s, e))
<1>1. \A name, c : Unique(NewTable(name, c))
  BY DEF Unique, NewTable, SelfEntry, EmptyEntry
<1>2. ASSUME NEW t, NEW s, NEW name, NEW c, Unique(t)
      PROVE  Unique(PutEntry(t, s, SelfEntry(name, c)))
  BY <1>2 DEF Unique, PutEntry, SelfEntry, EmptyEntry
<1>3. ASSUME NEW t \in Table, NEW s \in Slot, Unique(t) PROVE Unique(Unused(t, s))
  BY <1>3 DEF Unique, Unused, Table, Entry
<1>4. ASSUME NEW t, NEW s, NEW e, NEW r, Unique(t), SameFile(t, r) = {}, e.name = r.name, e.ext = r.ext
      PROVE  Unique(PutEntry(t, s, e))
  <2>1. \A x \in Slot : ~(t[x].name = r.name /\ t[x].ext = r.ext)
    BY <1>4 DEF SameFile
  <2> QED BY <1>4, <2>1 DEF Unique, PutEntry
<1> QED BY <1>1, <1>2, <1>3, <1>4

LEMMA UniqueWritten ==
  ASSUME TypeOK, TablesUnique, NEW c \in DiskCluster, NEW t, WriteTable(c, t), Unique(t)
  PROVE  TablesUnique'
<1>1. tables \in [DiskCluster -> Table \cup {NoTable}]
  BY DEF TypeOK
<1>2. \A d \in DiskCluster : tables'[d] = IF d = c THEN t ELSE tables[d]
  BY <1>1 DEF WriteTable
<1> QED BY <1>2 DEF TablesUnique, Unique

LEMMA DistinctBoot == ASSUME TypeOK, Distinct, Boot \/ Crash PROVE Distinct'
<1>1. pc' \notin Writing
  BY DEF Boot, Mount, FormatBoot, FormatFat, FormatRoot, Crash, Writing
<1>2. CASE UNCHANGED tables
  BY <1>1, <1>2 DEF Distinct, TablesUnique, Unique
<1>3. CASE FormatRoot
  BY <1>1, <1>3, UniqueWritten, UniqueTables, SmallNumbers DEF FormatRoot, Distinct
<1> QED BY <1>2, <1>3 DEF Boot, Mount, FormatBoot, FormatFat, Crash

LEMMA DistinctStep == ASSUME TypeOK, Distinct, ~wild', Step PROVE Distinct'
<1>1. CASE \/ SyscallReturn \/ ReadBlock \/ ReadReturn \/ DeleteDirFat \/ DeleteWalk \/ DeleteFree
  BY <1>1 DEF SyscallReturn, ReadBlock, ReadReturn, DeleteDirFat, DeleteWalk, DeleteFree, Return,
              Distinct, TablesUnique, Unique, Writing
<1>2. CASE MkdirTable
  <2>1. cluster \in DiskCluster
    BY <1>2 DEF MkdirTable, TypeOK
  <2>2. TablesUnique'
    BY <1>2, <2>1, UniqueWritten, UniqueTables DEF MkdirTable, Distinct
  <2> QED BY <1>2, <2>2 DEF MkdirTable, Distinct, Unique, Writing
<1>3. CASE MkdirEntry
  <2>1. request.parent \in DiskCluster /\ Unique(dir_table_buf)
    BY <1>3, BusyTypes DEF MkdirEntry, Steps, Distinct, Writing
  <2> QED BY <1>3, <2>1, UniqueWritten, UniqueTables DEF MkdirEntry, Return, Distinct, Writing
<1>4. CASE FileEntry
  <2>1. request.parent \in DiskCluster /\ Unique(dir_table_buf)
    BY <1>4, BusyTypes DEF FileEntry, Steps, Distinct, Writing
  <2> QED BY <1>4, <2>1, UniqueWritten DEF FileEntry, Return, Distinct, Writing
<1>5. CASE FileFat
  BY <1>5 DEF FileFat, Distinct, TablesUnique, Unique, Writing
<1>6. CASE FileData
  <2>1. PICK c, grow :
          /\ c \in DiskCluster
          /\ dir_table_buf' \in TablesAfter(
               [s \in Slot |-> IF s = slot THEN [dir_table_buf[s] EXCEPT !.filesize = @ + grow]
                                           ELSE dir_table_buf[s]], c)
          /\ tables' = [tables EXCEPT ![c] = NoTable]
          /\ wild' = (wild \/ c \notin Cluster)
    BY <1>6 DEF FileData, WriteBlock
  <2>2. tables \in [DiskCluster -> Table \cup {NoTable}] /\ dir_table_buf \in Table /\ pc \in Writing
    BY <1>6, BusyTypes DEF FileData, Steps, Writing, TypeOK
  <2>3. \A s \in Slot : /\ dir_table_buf'[s].name = dir_table_buf[s].name
                        /\ dir_table_buf'[s].ext = dir_table_buf[s].ext
                        /\ dir_table_buf'[s].used = dir_table_buf[s].used
                        /\ dir_table_buf'[s].attribute = dir_table_buf[s].attribute
    BY <2>1, <2>2 DEF TablesAfter, Table, Entry
  <2>4. TablesUnique'
    <3>1. \A d \in DiskCluster : tables'[d] # NoTable => tables'[d] = tables[d]
      BY <2>1, <2>2
    <3> QED BY <3>1 DEF Distinct, TablesUnique, Unique
  <2>5. Unique(dir_table_buf)'
    BY <2>2, <2>3 DEF Distinct, Unique
  <2> QED BY <2>4, <2>5 DEF Distinct
<1> QED BY <1>1, <1>2, <1>3, <1>4, <1>5, <1>6 DEF Step

LEMMA DistinctCall == ASSUME TypeOK, FatCoherent, Distinct, ~wild', Call PROVE Distinct'
<1>7. CASE OnlyAnswers
  BY <1>7 DEF OnlyAnswers, Return, Distinct, TablesUnique, Unique, Writing
<1> SUFFICES ASSUME ~OnlyAnswers PROVE Distinct'
  BY <1>7
<1>1. PICK r \in Request : r.parent \in CallerClusters /\ tables[r.parent] # NoTable /\ CallOn(r)
  BY CallKnown
<1> DEFINE t == tables[r.parent]
<1>2. r.parent \in DiskCluster /\ t \in Table /\ Unique(t)
  BY <1>1, ParentTable DEF Request, HasTable, Distinct, TablesUnique
<1>3. CASE ReadRefused(r, tables[r.parent]) \/ ReadFile(r, tables[r.parent]) \/ ReadDirectory(r, tables[r.parent])
             \/ WriteBadParent(r) \/ WriteDuplicate(r, tables[r.parent]) \/ DeleteRefused(r, tables[r.parent])
  <2>1. UNCHANGED tables /\ pc' \notin Writing
    BY <1>3 DEF ReadRefused, ReadFile, ReadDirectory, WriteBadParent, WriteDuplicate, DeleteRefused,
                Return, Enter, Writing
  <2> QED BY <2>1 DEF Distinct, TablesUnique, Unique
<1>4. CASE MkdirFat(r, tables[r.parent])
  <2>1. UNCHANGED tables /\ dir_table_buf' = t
    BY <1>4 DEF MkdirFat, Enter, TablesAfter
  <2> QED BY <1>2, <2>1 DEF Distinct, TablesUnique, Unique
<1>5. CASE StartWriteFile(r, tables[r.parent])
  <2>1. PICK s, e : /\ dir_table_buf' = PutEntry(t, s, e)
                    /\ e.name = r.name /\ e.ext = r.ext
    BY <1>5 DEF StartWriteFile, Enter
  <2>2. UNCHANGED tables /\ SameFile(t, r) = {}
    BY <1>5 DEF StartWriteFile, NameTaken
  <2>3. Unique(PutEntry(t, s, e))
    BY <1>2, <2>1, <2>2, UniqueTables
  <2>4. Unique(dir_table_buf)'
    BY <2>1, <2>3 DEF Unique
  <2> QED BY <2>2, <2>4 DEF Distinct, TablesUnique, Unique
<1>6. CASE DeleteDir(r, tables[r.parent]) \/ DeleteFile(r, tables[r.parent])
  <2>1. PICK s \in Slot : WriteTable(r.parent, Unused(t, s))
    BY <1>6 DEF DeleteDir, DeleteFile, TablesAfter
  <2>2. TablesUnique' /\ pc' \notin Writing
    BY <1>2, <1>6, <2>1, UniqueWritten, UniqueTables
       DEF DeleteDir, DeleteFile, Enter, Distinct, Writing
  <2> QED BY <2>2 DEF Distinct
<1> QED BY <1>1, <1>3, <1>4, <1>5, <1>6 DEF CallOn, CallWith

LEMMA DistinctAlways == Spec => [](~wild => Distinct)
<1>1. Init => Distinct
  BY DEF Init, EmptyEntry, Distinct, TablesUnique, Unique, Writing
<1>2. ASSUME TypeOK, FatCoherent, ~wild => Distinct, [Next]_vars PROVE (~wild => Distinct)'
  <2>1. CASE UNCHANGED vars
    BY <1>2, <2>1 DEF Distinct, TablesUnique, Unique
  <2>2. CASE Next
    BY <1>2, <2>2, WildStays, DistinctBoot, DistinctStep, DistinctCall DEF Next
  <2> QED BY <1>2, <2>1, <2>2
<1> QED BY <1>1, <1>2, TypeCorrect, Coherent, PTL DEF Spec

(* read, which takes the first entry of the name and extension it is given, *)
(* in use or not, finds every file that has an extension.                   *)
THEOREM FilesFound == Spec => []LookupFindsFile
<1>1. ASSUME TypeOK, ~wild => Distinct PROVE LookupFindsFile
  <2> SUFFICES ASSUME Distinct, NEW c \in DiskCluster, NEW s \in Slot, Live(c, s),
                      ~tables[c][s].attribute, tables[c][s].ext # NoExt
               PROVE  IsFirst(s, SameFile(tables[c], tables[c][s]))
    BY <1>1 DEF LookupFindsFile, LivePlaces, EntryAt
  <2>1. \A x \in SameFile(tables[c], tables[c][s]) : x = s
    BY DEF Distinct, TablesUnique, Unique, Live, SameFile
  <2>2. s \in SameFile(tables[c], tables[c][s]) /\ s <= s
    BY SizeAssumption DEF SameFile, Slot
  <2> QED BY <2>1, <2>2 DEF IsFirst
<1> QED BY <1>1, DistinctAlways, TypeCorrect, PTL

-----------------------------------------------------------------------------
(* FoldersNameThemselves *)

(* What entry e, a folder's, leads to. *)
Leads(t, e) == t # NoTable /\ t[0] = SelfEntry(e.name, e.cluster)

LiveFolder(c, s) == Live(c, s) /\ tables[c][s].attribute
FolderNamed ==
  \A c \in DiskCluster, s \in Slot :
    LiveFolder(c, s) => Leads(tables[tables[c][s].cluster], tables[c][s])

(* A table about to be written back is the one on the disk but for one      *)
(* entry that is free there; the folder's own cluster is no new one, and a  *)
(* new folder's table is written before the entry that leads to it.         *)
InMkdir == pc \in {"mkdir_table", "mkdir_entry"}
LoadedFrom ==
  pc \in Writing =>
    /\ tables[request.parent] # NoTable /\ ~tables[request.parent][slot].used
    /\ \A s \in Slot \ {slot} : dir_table_buf[s] = tables[request.parent][s]
    /\ fat_table[request.parent] # 0
    /\ InMkdir => cluster # request.parent
    /\ pc = "mkdir_entry" => Leads(tables[cluster], SelfEntry(request.name, cluster))
    /\ ~InMkdir => ~dir_table_buf[slot].attribute

(* What an entry in use leads to is its own. *)
LEMMA FolderOwns ==
  ASSUME Sound, NEW c \in DiskCluster, NEW s \in Slot, Live(c, s)
  PROVE  /\ tables[c][s].cluster \in Cluster /\ tables[c][s].cluster \in DiskCluster
         /\ owner[tables[c][s].cluster] = <<c, s>> /\ <<c, s>> # Nobody
<1>1. tables[c][s].cluster \in Cluster /\ owner[tables[c][s].cluster] = <<c, s>>
  BY ParentOwns DEF Sound, OnDisk, Live, Owns
<1>2. <<c, s>> # Nobody
  BY SentinelAssumption DEF Place
<1> QED BY <1>1, <1>2, SmallNumbers

(* One cluster is written: what leads to it still finds its name there, and *)
(* the folders named in it are named by what they were, or by themselves.   *)
LEMMA NamedWritten ==
  ASSUME Sound, FolderNamed, NEW c \in DiskCluster, NEW t,
         tables'[c] = t, \A d \in DiskCluster \ {c} : tables'[d] = tables[d],
         \A d \in DiskCluster, s \in Slot :
           LiveFolder(d, s) /\ tables[d][s].cluster = c => t # NoTable /\ t[0] = tables[c][0],
         t # NoTable =>
           \A s \in Slot : NamesOther(t, c, s) /\ t[s].attribute =>
             \/ /\ LiveFolder(c, s)
                /\ t[s].name = tables[c][s].name /\ t[s].cluster = tables[c][s].cluster
             \/ /\ t[s].cluster \in DiskCluster \ {c}
                /\ Leads(tables[t[s].cluster], t[s])
  PROVE  FolderNamed'
<1> SUFFICES ASSUME NEW d \in DiskCluster, NEW s \in Slot, tables'[d] # NoTable,
                    NamesOther(tables'[d], d, s), tables'[d][s].attribute
             PROVE  Leads(tables'[tables'[d][s].cluster], tables'[d][s])
  BY DEF FolderNamed, LiveFolder, Live, NamesOther, Leads
<1> DEFINE e == tables'[d][s]
<1>1. ASSUME LiveFolder(d, s), e.name = tables[d][s].name, e.cluster = tables[d][s].cluster
      PROVE  Leads(tables'[e.cluster], e)
  <2>1. e.cluster \in DiskCluster /\ Leads(tables[e.cluster], e)
    BY <1>1, FolderOwns DEF FolderNamed, LiveFolder, Leads
  <2>2. CASE e.cluster = c
    BY <1>1, <2>1, <2>2 DEF Leads
  <2>3. CASE e.cluster # c
    BY <2>1, <2>3
  <2> QED BY <2>2, <2>3
<1>2. CASE d # c
  <2>1. tables'[d] = tables[d]
    BY <1>2
  <2> QED BY <1>1, <2>1 DEF LiveFolder, Live, NamesOther
<1>3. CASE d = c
  BY <1>1, <1>3
<1> QED BY <1>2, <1>3

(* The case of a directory's own table: one entry of it changed, which was  *)
(* not in use or is not any more.                                           *)
LEMMA NamedOneEntry ==
  ASSUME Sound, FolderNamed, NEW c \in DiskCluster, NEW t, t # NoTable, NEW k \in Slot,
         tables[c] # NoTable, tables'[c] = t, \A d \in DiskCluster \ {c} : tables'[d] = tables[d],
         \A s \in Slot \ {k} : t[s] = tables[c][s],
         k = 0 => ~tables[c][0].used,
         t[k].used /\ t[k].attribute => /\ t[k].cluster \in DiskCluster \ {c}
                                        /\ Leads(tables[t[k].cluster], t[k])
  PROVE  FolderNamed'
<1>1. 0 \in Slot
  BY SizeAssumption DEF Slot
<1>2. ASSUME NEW d \in DiskCluster, NEW s \in Slot, LiveFolder(d, s), tables[d][s].cluster = c
      PROVE  t[0] = tables[c][0]
  <2>1. tables[c][0] = SelfEntry(tables[d][s].name, c)
    BY <1>2 DEF FolderNamed, Leads
  <2>2. SelfEntry(tables[d][s].name, c).used
    BY DEF SelfEntry, EmptyEntry
  <2>3. tables[c][0].used
    BY <2>1, <2>2
  <2> QED BY <1>1, <2>3
<1>3. ASSUME NEW s \in Slot \ {k}, NamesOther(t, c, s), t[s].attribute PROVE LiveFolder(c, s)
  BY <1>3 DEF NamesOther, LiveFolder, Live
<1>4. \A s \in Slot : NamesOther(t, c, s) /\ t[s].attribute =>
        \/ /\ LiveFolder(c, s)
           /\ t[s].name = tables[c][s].name /\ t[s].cluster = tables[c][s].cluster
        \/ /\ t[s].cluster \in DiskCluster \ {c}
           /\ Leads(tables[t[s].cluster], t[s])
  BY <1>3 DEF NamesOther
<1> QED BY <1>2, <1>4, NamedWritten

(* What is written over what no entry owns. *)
LEMMA NamedElsewhere ==
  ASSUME Sound, FolderNamed, NEW c \in Cluster, NEW t,
         tables'[c] = t, \A d \in DiskCluster \ {c} : tables'[d] = tables[d],
         \A d \in DiskCluster, s \in Slot : Live(d, s) => owner[c] # <<d, s>>,
         t # NoTable => \A s \in Slot : ~NamesOther(t, c, s)
  PROVE  FolderNamed'
<1>1. c \in DiskCluster
  BY SmallNumbers
<1>2. \A d \in DiskCluster, s \in Slot : LiveFolder(d, s) => tables[d][s].cluster # c
  BY FolderOwns DEF LiveFolder
<1> QED BY <1>1, <1>2, NamedWritten

Folders == FolderNamed /\ LoadedFrom

LEMMA FoldersQuiet ==
  ASSUME Folders, UNCHANGED tables, pc' \notin Writing PROVE Folders'
  BY DEF Folders, FolderNamed, LiveFolder, Live, Leads, LoadedFrom

LEMMA FoldersBoot == ASSUME TypeOK, Sound, Folders, Boot \/ Crash PROVE Folders'
<1>1. pc' \notin Writing
  BY DEF Boot, Mount, FormatBoot, FormatFat, FormatRoot, Crash, Writing
<1>2. CASE UNCHANGED tables
  BY <1>1, <1>2, FoldersQuiet
<1>3. CASE FormatRoot
  <2> DEFINE two == ROOT_CLUSTER_NUMBER
             t == NewTable(RootName, two)
  <2>1. two \in Cluster \ {0}
    BY SmallNumbers
  <2> HIDE DEF two
  <2>2. tables'[two] = t /\ \A d \in DiskCluster \ {two} : tables'[d] = tables[d]
    BY <1>3, <2>1, Written DEF FormatRoot, two
  <2>3. \A s \in Slot : ~NamesOther(t, two, s)
    BY <2>1, NewTableFacts
  <2>4. \A c \in DiskCluster, s \in Slot : ~Live(c, s)
    BY <1>3 DEF FormatRoot, Sound, OnDisk, NothingYet
  <2> HIDE DEF t
  <2>5. FolderNamed'
    BY <2>1, <2>2, <2>3, <2>4, NamedElsewhere DEF Folders
  <2> QED BY <1>1, <2>5 DEF Folders, LoadedFrom
<1> QED BY <1>2, <1>3 DEF Boot, Mount, FormatBoot, FormatFat, Crash

(* A write in progress. *)
LEMMA WriteFacts ==
  ASSUME TypeOK, Sound, Folders, pc \in Writing
  PROVE  /\ request.parent \in Cluster \ {0} /\ request.parent \in DiskCluster
         /\ slot \in Slot /\ dir_table_buf \in Table
         /\ \A d \in DiskCluster, s \in Slot : Live(d, s) => MyPlace # <<d, s>>
         /\ tables[request.parent] # NoTable /\ ~tables[request.parent][slot].used
         /\ \A s \in Slot \ {slot} : dir_table_buf[s] = tables[request.parent][s]
<1>1. pc \in Steps
  BY DEF Writing, Steps
<1>2. request.parent \in Cluster \ {0} /\ slot \in Slot /\ ~Live(request.parent, slot)
  BY <1>1 DEF Sound, InCall, Loaded, PlaceFree
<1>3. \A d \in DiskCluster, s \in Slot : Live(d, s) => MyPlace # <<d, s>>
  BY <1>2 DEF MyPlace
<1> QED BY <1>1, <1>2, <1>3, BusyTypes DEF Folders, LoadedFrom

LEMMA FoldersMkdirTable == ASSUME TypeOK, Sound, Folders, MkdirTable PROVE Folders'
<1> DEFINE t == NewTable(request.name, cluster)
<1>1. /\ pc = "mkdir_table" /\ pc' = "mkdir_entry"
      /\ UNCHANGED <<fat_table, dir_table_buf, request, cluster, slot>>
  BY DEF MkdirTable
<1>2. cluster \in Cluster /\ owner[cluster] = MyPlace /\ owner[0] = Nobody /\ MyPlace # Nobody
  BY <1>1, BusyTypes, SentinelAssumption
     DEF Sound, InCall, MkdirInFlight, Mine, OnDisk, ChainsOwned, Steps
<1>3. cluster \in Cluster \ {0}
  BY <1>2
<1>4. tables'[cluster] = t /\ \A d \in DiskCluster \ {cluster} : tables'[d] = tables[d]
  BY <1>3, Written DEF MkdirTable
<1>5. /\ \A s \in Slot : ~NamesOther(t, cluster, s)
      /\ t \in Table /\ t[0] = SelfEntry(request.name, cluster)
  <2>1. request.name \in Names /\ cluster \in DiskCluster /\ 0 \in Slot
    BY <1>1, <1>3, BusyTypes, SmallNumbers, SizeAssumption DEF Steps, Request, Slot
  <2> QED BY <1>3, <2>1, NewTableFacts, TableTypes DEF NewTable
<1> HIDE DEF t
<1>6. FolderNamed'
  BY <1>1, <1>2, <1>4, <1>5, NamedElsewhere, WriteFacts DEF Folders, Writing
<1>7. Leads(tables'[cluster], SelfEntry(request.name, cluster))
  <2>1. /\ SelfEntry(request.name, cluster).name = request.name
        /\ SelfEntry(request.name, cluster).cluster = cluster
    BY DEF SelfEntry, EmptyEntry
  <2>2. t # NoTable
    BY <1>5, SentinelAssumption
  <2> QED BY <1>4, <1>5, <2>1, <2>2 DEF Leads
<1>8. LoadedFrom'
  <2>1. request.parent # cluster /\ request.parent \in DiskCluster
    BY <1>1, WriteFacts DEF Folders, LoadedFrom, Writing, InMkdir
  <2>2. tables'[request.parent] = tables[request.parent] /\ fat_table[request.parent] # 0
    BY <1>1, <1>4, <2>1 DEF Folders, LoadedFrom, Writing
  <2>3. Leads(tables[cluster], SelfEntry(request.name, cluster))'
    BY <1>1, <1>7 DEF Leads, SelfEntry, EmptyEntry
  <2> QED BY <1>1, <2>1, <2>2, <2>3, WriteFacts DEF LoadedFrom, InMkdir, Writing
<1> QED BY <1>6, <1>8 DEF Folders

LEMMA FoldersMkdirEntry == ASSUME TypeOK, Sound, Folders, MkdirEntry PROVE Folders'
<1> DEFINE c == request.parent
           e == SelfEntry(request.name, cluster)
           t == PutEntry(dir_table_buf, slot, e)
<1>1. pc = "mkdir_entry" /\ pc' = "return" /\ WriteTable(c, t)
  BY DEF MkdirEntry, Return
<1>2. /\ c \in Cluster \ {0} /\ c \in DiskCluster /\ slot \in Slot /\ dir_table_buf \in Table
      /\ tables[c] # NoTable /\ ~tables[c][slot].used
      /\ \A s \in Slot \ {slot} : dir_table_buf[s] = tables[c][s]
  BY <1>1, WriteFacts DEF Writing
<1>3. cluster \in DiskCluster \ {c} /\ Leads(tables[cluster], e)
  BY <1>1 DEF TypeOK, Folders, LoadedFrom, Writing, InMkdir
<1>4. e.cluster = cluster
  BY DEF SelfEntry, EmptyEntry
<1>5. tables'[c] = t /\ \A d \in DiskCluster \ {c} : tables'[d] = tables[d]
  BY <1>1, <1>2, Written
<1>6. t # NoTable
  <2>1. request.name \in Names
    BY <1>1, BusyTypes DEF Steps, Request
  <2> QED BY <1>2, <1>3, <2>1, TableTypes, SentinelAssumption
<1>7. \A s \in Slot : t[s] = IF s = slot THEN e ELSE dir_table_buf[s]
  BY DEF PutEntry
<1> HIDE DEF c, e, t
<1>8. FolderNamed'
  BY <1>2, <1>3, <1>4, <1>5, <1>6, <1>7, NamedOneEntry DEF Folders
<1> QED BY <1>1, <1>8 DEF Folders, LoadedFrom, Writing

LEMMA FoldersFileEntry == ASSUME TypeOK, Sound, Folders, FileEntry PROVE Folders'
<1> DEFINE c == request.parent
           t == dir_table_buf
<1>1. pc = "file_entry" /\ pc' = "return" /\ WriteTable(c, t)
  BY DEF FileEntry, Return
<1>2. /\ c \in Cluster \ {0} /\ c \in DiskCluster /\ slot \in Slot /\ t \in Table
      /\ tables[c] # NoTable /\ ~tables[c][slot].used
      /\ \A s \in Slot \ {slot} : t[s] = tables[c][s]
  BY <1>1, WriteFacts DEF Writing
<1>3. ~t[slot].attribute
  BY <1>1 DEF Folders, LoadedFrom, Writing, InMkdir
<1>4. tables'[c] = t /\ \A d \in DiskCluster \ {c} : tables'[d] = tables[d]
  BY <1>1, <1>2, Written
<1>5. t # NoTable
  BY <1>2, SentinelAssumption
<1> HIDE DEF c, t
<1>6. FolderNamed'
  BY <1>2, <1>3, <1>4, <1>5, NamedOneEntry DEF Folders
<1> QED BY <1>1, <1>6 DEF Folders, LoadedFrom, Writing

LEMMA FoldersFileFat == ASSUME Folders, FileFat PROVE Folders'
<1>1. /\ pc = "file_fat" /\ pc' \in {"file_data", "file_entry"}
      /\ UNCHANGED <<tables, fat_table, dir_table_buf, request, cluster, slot>>
  BY DEF FileFat
<1> QED BY <1>1 DEF Folders, FolderNamed, LiveFolder, Live, Leads, LoadedFrom, InMkdir, Writing

LEMMA FoldersFileData ==
  ASSUME TypeOK, FatCoherent, Sound, Folders, ~wild', FileData
  PROVE  Folders'
<1>1. PICK c, n, b, grow :
        /\ c \in DiskCluster
        /\ FoundFree(fat_table, 0, c)
        /\ fat_table' = SetWord(fat_table, c, n)
        /\ dir_table_buf' \in TablesAfter(
             [s \in Slot |-> IF s = slot THEN [dir_table_buf[s] EXCEPT !.filesize = @ + grow]
                                         ELSE dir_table_buf[s]], c)
        /\ WriteBlock(c, b)
        /\ wild' = (wild \/ c \notin Cluster)
  BY DEF FileData
<1>2. c \in Cluster /\ fat_table[c] = 0
  BY <1>1, FreeWord
<1>3. pc = "file_data" /\ pc' = "file_fat" /\ UNCHANGED <<request, slot>>
  BY DEF FileData
<1>4. owner[c] = Nobody /\ c # 0
  <2>1. fat_table = diskFat /\ diskFat[0] # 0 /\ ~(OpenEnd /\ c = cluster)
    BY <1>2, <1>3 DEF FatCoherent, Sound, InCall, FileGoesOn
  <2> QED BY <1>2, <2>1 DEF Sound, OnDisk, ChainsOwned
<1>5. tables'[c] = NoTable /\ \A d \in DiskCluster \ {c} : tables'[d] = tables[d]
  BY <1>1, <1>2, <1>4, WrittenBlock
<1>6. \A d \in DiskCluster, s \in Slot : owner[c] # <<d, s>>
  BY <1>4, SentinelAssumption DEF Place
<1>7. FolderNamed'
  BY <1>2, <1>5, <1>6, NamedElsewhere DEF Folders
<1>8. /\ request.parent \in Cluster /\ request.parent \in DiskCluster /\ slot \in Slot
      /\ dir_table_buf \in Table
      /\ tables[request.parent] # NoTable /\ ~tables[request.parent][slot].used
      /\ \A s \in Slot \ {slot} : dir_table_buf[s] = tables[request.parent][s]
      /\ fat_table[request.parent] # 0 /\ ~dir_table_buf[slot].attribute
  BY <1>3, WriteFacts DEF Folders, LoadedFrom, Writing, InMkdir
<1>9. request.parent # c
  BY <1>2, <1>8
<1>10. tables'[request.parent] = tables[request.parent] /\ fat_table'[request.parent] # 0
  BY <1>1, <1>5, <1>8, <1>9 DEF SetWord
<1>11. /\ \A s \in Slot \ {slot} : dir_table_buf'[s] = dir_table_buf[s]
       /\ ~dir_table_buf'[slot].attribute
  BY <1>1, <1>2, <1>8 DEF TablesAfter, Table, Entry
<1>12. LoadedFrom'
  BY <1>3, <1>8, <1>10, <1>11 DEF LoadedFrom, InMkdir
<1> QED BY <1>7, <1>12 DEF Folders

(* The table a call loads. *)
LEMMA FoldersMkdirFat ==
  ASSUME TypeOK, Sound, Folders, ~wild', NEW r \in Request, DirectoryAt(r.parent), MkdirFat(r, tables[r.parent])
  PROVE  Folders'
<1>1. PICK c \in DiskCluster, s \in Slot \cup {ENTRY_COUNT} :
        /\ FoundFree(diskFat, 0, c) /\ FoundSlot(tables[r.parent], s)
        /\ fat_table' = SetWord(diskFat, c, FAT32_FAT_END_OF_FILE)
        /\ \E u \in TablesAfter(tables[r.parent], c) : Enter("mkdir_table", r, u, s, c)
        /\ wild' = (wild \/ c \notin Cluster \/ s = ENTRY_COUNT)
  BY DEF MkdirFat
<1>2. c \in Cluster /\ s \in Slot /\ diskFat[c] = 0
  BY <1>1, FreeWord
<1>3. /\ pc' = "mkdir_table" /\ request' = r /\ dir_table_buf' = tables[r.parent]
      /\ slot' = s /\ cluster' = c /\ UNCHANGED tables
  BY <1>1, <1>2 DEF TablesAfter, Enter, MkdirFat
<1>4. r.parent \in Cluster /\ tables[r.parent] # NoTable
  BY ParentFolder DEF Sound, OnDisk
<1>5. diskFat[r.parent] # 0 /\ ~tables[r.parent][s].used
  BY <1>1, <1>2, <1>4 DEF MkdirFat, GoodParent, WordsAt, FAT32_FAT_EMPTY_ENTRY, FoundSlot
<1>6. c # r.parent /\ fat_table'[r.parent] # 0
  BY <1>1, <1>2, <1>4, <1>5 DEF SetWord
<1>7. LoadedFrom'
  BY <1>3, <1>4, <1>5, <1>6 DEF LoadedFrom, InMkdir
<1>8. FolderNamed'
  BY <1>3 DEF Folders, FolderNamed, LiveFolder, Live, Leads
<1> QED BY <1>7, <1>8 DEF Folders

LEMMA FoldersStartWriteFile ==
  ASSUME TypeOK, Sound, Folders, ~wild', NEW r \in Request, DirectoryAt(r.parent),
         StartWriteFile(r, tables[r.parent])
  PROVE  Folders'
<1> DEFINE t == tables[r.parent]
<1> DEFINE Filled(c, s) == [name |-> r.name, ext |-> r.ext, attribute |-> FALSE, used |-> TRUE,
                            cluster |-> c, filesize |-> t[s].filesize]
<1>0. PICK c \in DiskCluster, s \in Slot \cup {ENTRY_COUNT} :
        /\ FoundSlot(t, s)
        /\ Enter("file_data", r, PutEntry(t, s, Filled(c, s)), s, c)
        /\ wild' = (wild \/ c \notin Cluster \/ s = ENTRY_COUNT)
  BY DEF StartWriteFile
<1> DEFINE e == Filled(c, s)
<1>1. /\ FoundSlot(t, s) /\ ~e.attribute /\ s # ENTRY_COUNT
      /\ pc' = "file_data" /\ request' = r /\ slot' = s
      /\ dir_table_buf' = PutEntry(t, s, e)
  BY <1>0 DEF Enter
<1> HIDE DEF e
<1>2. fat_table' = diskFat /\ UNCHANGED tables
  BY DEF StartWriteFile
<1>3. r.parent \in Cluster /\ t # NoTable
  BY ParentFolder DEF Sound, OnDisk
<1>4. diskFat[r.parent] # 0
  BY <1>3 DEF StartWriteFile, GoodParent, WordsAt, FAT32_FAT_EMPTY_ENTRY
<1>5. s \in Slot /\ ~t[s].used
  BY <1>1 DEF FoundSlot
<1>6. \A x \in Slot : dir_table_buf'[x] = IF x = s THEN e ELSE t[x]
  BY <1>1 DEF PutEntry
<1> HIDE DEF t
<1>7. t = tables[r.parent]
  BY DEF t
<1>8. LoadedFrom'
  BY <1>1, <1>2, <1>3, <1>4, <1>5, <1>6, <1>7 DEF LoadedFrom, InMkdir
<1>9. FolderNamed'
  BY <1>2 DEF Folders, FolderNamed, LiveFolder, Live, Leads
<1> QED BY <1>8, <1>9 DEF Folders

LEMMA FoldersDelete ==
  ASSUME TypeOK, Sound, Folders, ~wild', NEW r \in Request, DirectoryAt(r.parent),
         DeleteDir(r, tables[r.parent]) \/ DeleteFile(r, tables[r.parent])
  PROVE  Folders'
<1> DEFINE c == r.parent
           t == tables[c]
<1>1. PICK s \in Slot : IsFirst(s, Victims(t, r)) /\ WriteTable(c, Unused(t, s))
  BY DEF DeleteDir, DeleteFile, TablesAfter
<1> DEFINE u == Unused(t, s)
<1>2. pc' \notin Writing /\ s # 0
  BY <1>1 DEF DeleteDir, DeleteFile, Enter, Writing, IsFirst, Victims
<1>3. c \in Cluster \ {0} /\ c \in DiskCluster /\ t \in Table /\ t # NoTable
  BY ParentFolder DEF Sound, OnDisk
<1>4. tables'[c] = u /\ \A d \in DiskCluster \ {c} : tables'[d] = tables[d]
  BY <1>1, <1>3, Written
<1>5. u # NoTable /\ ~u[s].used /\ \A x \in Slot \ {s} : u[x] = t[x]
  BY <1>3, UnusedFacts, TableTypes, SentinelAssumption
<1> HIDE DEF c, u
<1>6. FolderNamed'
  BY <1>2, <1>3, <1>4, <1>5, NamedOneEntry DEF Folders
<1> QED BY <1>2, <1>6 DEF Folders, LoadedFrom

LEMMA FoldersStep ==
  ASSUME TypeOK, FatCoherent, Sound, Folders, ~wild', Step PROVE Folders'
<1>1. CASE \/ SyscallReturn \/ ReadBlock \/ ReadReturn \/ DeleteDirFat \/ DeleteWalk \/ DeleteFree
  BY <1>1, FoldersQuiet
     DEF SyscallReturn, ReadBlock, ReadReturn, DeleteDirFat, DeleteWalk, DeleteFree, Return, Writing
<1> QED BY <1>1, FoldersMkdirTable, FoldersMkdirEntry, FoldersFileData, FoldersFileFat,
           FoldersFileEntry DEF Step

LEMMA FoldersCallOn ==
  ASSUME TypeOK, Sound, Folders, ~wild', NEW r \in Request, DirectoryAt(r.parent), CallOn(r)
  PROVE  Folders'
<1>1. CASE ReadRefused(r, tables[r.parent]) \/ ReadFile(r, tables[r.parent]) \/ ReadDirectory(r, tables[r.parent])
             \/ WriteBadParent(r) \/ WriteDuplicate(r, tables[r.parent]) \/ DeleteRefused(r, tables[r.parent])
  BY <1>1, FoldersQuiet DEF ReadRefused, ReadFile, ReadDirectory, WriteBadParent, WriteDuplicate,
                            DeleteRefused, Return, Enter, Writing
<1> QED BY <1>1, FoldersMkdirFat, FoldersStartWriteFile, FoldersDelete DEF CallOn, CallWith

LEMMA FoldersAnswers == ASSUME Folders, OnlyAnswers PROVE Folders'
  BY FoldersQuiet DEF OnlyAnswers, Return, Writing

LEMMA FoldersCall ==
  ASSUME TypeOK, FatCoherent, Sound, Folders, ~wild', Call PROVE Folders'
  BY CallDirectory, FoldersCallOn, FoldersAnswers

(* At first no folder is there, and a step that leaves the driver alone     *)
(* keeps what is.                                                           *)
LEMMA FoldersInit == Init => Folders
  BY DEF Init, EmptyEntry, Folders, FolderNamed, LiveFolder, Live, LoadedFrom, Writing

LEMMA FoldersStutter == ASSUME Folders, UNCHANGED vars PROVE Folders'
  BY DEF Folders, FolderNamed, LiveFolder, Live, Leads, LoadedFrom, InMkdir

(* Until a call goes astray every folder that is there names itself. *)
LEMMA FoldersAlways == Spec => [](~wild => Sound /\ Folders)
<1>1. ASSUME TypeOK, FatCoherent, ~wild => Sound, ~wild => Folders, [Next]_vars
      PROVE  (~wild => Folders)'
  <2>1. CASE UNCHANGED vars
    BY <1>1, <2>1, FoldersStutter
  <2>2. CASE Next
    BY <1>1, <2>2, WildStays, FoldersBoot, FoldersStep, FoldersCall DEF Next
  <2> QED BY <1>1, <2>1, <2>2
<1> QED BY FoldersInit, <1>1, TypeCorrect, Coherent, SoundAlways, PTL DEF Spec

(* A folder in use leads to a table whose first entry names that folder and *)
(* that cluster, whatever was written, freed, taken again or interrupted.   *)
THEOREM FoldersNamed == Spec => []FoldersNameThemselves
<1>1. ASSUME TypeOK, ~wild => Sound /\ Folders PROVE FoldersNameThemselves
  <2> SUFFICES ASSUME Sound, Folders, NEW c \in DiskCluster, NEW s \in Slot, Live(c, s),
                      tables[c][s].attribute
               PROVE  Leads(tables[tables[c][s].cluster], tables[c][s])
    BY <1>1 DEF FoldersNameThemselves, LivePlaces, EntryAt, Leads
  <2> QED BY DEF Folders, FolderNamed, LiveFolder
<1> QED BY <1>1, FoldersAlways, TypeCorrect, PTL

-----------------------------------------------------------------------------
(* NoOrphans *)

(* On a machine that does not stop, although callers keep the number of a   *)
(* deleted folder and pass it, nothing is ever written in one.              *)

Reserved == {1, ROOT_CLUSTER_NUMBER}

FolderAt(h) == \E d \in DiskCluster, s \in Slot : LiveFolder(d, s) /\ tables[d][s].cluster = h

(* An entry is in the root or in a folder that is there. *)
InFolder == \A c \in DiskCluster, s \in Slot : Live(c, s) => c = ROOT_CLUSTER_NUMBER \/ FolderAt(c)

(* So is the table of an allocated cluster, but for the one a call is about *)
(* to name or to free: no other passes the test of write on the parent.     *)
InFlight == pc \in {"mkdir_table", "mkdir_entry", "dir_fat"}
TablesReached ==
  \A c \in Cluster \ {0, 1, ROOT_CLUSTER_NUMBER} :
    diskFat[c] # 0 /\ tables[c] # NoTable => FolderAt(c) \/ (InFlight /\ c = cluster)

(* The words of the FAT's cluster and the root's are taken, by no entry; so *)
(* no entry leads to the FAT.                                               *)
ReservedTaken ==
  /\ pc \notin {"off", "format_fat"} =>
       \A c \in Reserved : c \in Cluster /\ diskFat[c] # 0 /\ owner[c] = Nobody
  /\ InFlight => cluster \notin Reserved
NoneToFat == \A c \in DiskCluster, s \in Slot :
               tables[c] # NoTable /\ tables[c][s].attribute => tables[c][s].cluster # 1

(* Before the FAT is written memory holds zeros, and the disk no signature. *)
Blank == /\ pc = "off" => ~signature
         /\ pc \in {"off", "format_fat"} => \A c \in Cluster : fat_table[c] = 0

WriteReached == /\ pc \in Writing => \/ request.parent = ROOT_CLUSTER_NUMBER
                                     \/ FolderAt(request.parent)
                /\ pc = "file_fat" => tables[cluster] = NoTable

Reached == /\ InFolder /\ TablesReached /\ ReservedTaken /\ NoneToFat /\ Blank /\ WriteReached

-----------------------------------------------------------------------------
(* Steps that write no table *)

LEMMA ReservedClusters == 1 \in Cluster /\ ROOT_CLUSTER_NUMBER \in Cluster
  BY SizeAssumption DEF Cluster, ROOT_CLUSTER_NUMBER

LEMMA FoldersStay ==
  ASSUME UNCHANGED tables
  PROVE  /\ \A h : FolderAt(h)' <=> FolderAt(h)
         /\ \A c, s : Live(c, s)' <=> Live(c, s)
         /\ NoneToFat => NoneToFat'
  BY DEF FolderAt, LiveFolder, Live, NoneToFat

LEMMA ReachedQuiet ==
  ASSUME Reached, UNCHANGED <<signature, diskFat, tables, owner>>, ~InFlight,
         pc \notin {"off", "format_fat"},
         pc' \notin {"off", "format_fat"}, pc' \notin Writing, pc' # "dir_fat"
  PROVE  Reached'
<1>1. ~InFlight'
  BY DEF InFlight, Writing
<1>2. InFolder' /\ NoneToFat'
  BY FoldersStay DEF Reached, InFolder
<1>3. TablesReached'
  BY <1>1, FoldersStay DEF Reached, TablesReached
<1>4. ReservedTaken' /\ Blank' /\ WriteReached'
  BY <1>1 DEF Reached, ReservedTaken, Blank, WriteReached, Writing
<1> QED BY <1>2, <1>3, <1>4 DEF Reached

LEMMA ReachedBoot ==
  ASSUME TypeOK, Sound, Reached, Boot PROVE Reached'
<1>1. \A c \in DiskCluster, s \in Slot : ~signature \/ pc \in {"format_fat", "format_root"} => ~Live(c, s)
  BY DEF Sound, OnDisk, NothingYet
<1>2. ~Mount
  BY DEF Mount, Reached, Blank
<1>3. CASE FormatBoot
  <2>1. InFolder' /\ NoneToFat' /\ TablesReached'
    BY <1>3, FoldersStay DEF FormatBoot, Reached, InFolder, TablesReached, InFlight
  <2> QED BY <1>3, <2>1
       DEF FormatBoot, Reached, ReservedTaken, Blank, WriteReached, InFlight, Writing
<1>4. CASE FormatFat
  <2>1. \A c \in Cluster \ {0, 1, ROOT_CLUSTER_NUMBER} : diskFat'[c] = 0
    <3>1. fat_table \in [Cluster -> Word] /\ \A c \in Cluster : fat_table[c] = 0
      BY <1>4 DEF TypeOK, Reached, Blank, FormatFat
    <3>2. \A c \in Cluster \ {0, 1, 2} : diskFat'[c] = fat_table[c]
      BY <1>4, <3>1 DEF FormatFat
    <3> QED BY <3>1, <3>2 DEF ROOT_CLUSTER_NUMBER
  <2>2. \A c \in Reserved : c \in Cluster /\ diskFat'[c] = FAT32_FAT_END_OF_FILE /\ owner'[c] = Nobody
    <3>1. fat_table \in [Cluster -> Word] /\ 1 \in Cluster /\ 2 \in Cluster
      BY ReservedClusters DEF TypeOK, ROOT_CLUSTER_NUMBER
    <3>2. diskFat'[1] = FAT32_FAT_END_OF_FILE /\ diskFat'[2] = FAT32_FAT_END_OF_FILE
      BY <1>4, <3>1 DEF FormatFat
    <3> QED BY <1>4, <3>1, <3>2 DEF FormatFat, Reserved, ROOT_CLUSTER_NUMBER
  <2>3. InFolder' /\ NoneToFat' /\ TablesReached'
    BY <1>4, <2>1, FoldersStay DEF FormatFat, Reached, InFolder, TablesReached
  <2>4. ReservedTaken'
    BY <1>4, <2>2, SmallNumbers DEF FormatFat, ReservedTaken, InFlight
  <2> QED BY <1>4, <2>3, <2>4 DEF FormatFat, Reached, Blank, WriteReached, Writing
<1>5. CASE FormatRoot
  <2> DEFINE two == ROOT_CLUSTER_NUMBER
             t == NewTable(RootName, two)
  <2>1. two \in Cluster \ {0} /\ two # 1
    BY SmallNumbers DEF ROOT_CLUSTER_NUMBER
  <2> HIDE DEF two
  <2>2. tables'[two] = t /\ \A d \in DiskCluster \ {two} : tables'[d] = tables[d]
    BY <1>5, <2>1, Written DEF FormatRoot, two
  <2>3. \A s \in Slot : ~NamesOther(t, two, s) /\ (t[s].attribute => t[s].cluster # 1)
    <3>1. \A s \in Slot : t[s].attribute => t[s].cluster = two
      BY DEF NewTable, SelfEntry, EmptyEntry
    <3> QED BY <2>1, <3>1, NewTableFacts
  <2> HIDE DEF t
  <2>4. \A c \in DiskCluster, s \in Slot : ~Live(c, s) /\ ~Live(c, s)'
    BY <1>1, <1>5, <2>2, <2>3 DEF FormatRoot, Live, NamesOther
  <2>5. InFolder' /\ NoneToFat'
    BY <2>2, <2>3, <2>4 DEF InFolder, Reached, NoneToFat
  <2>6. TablesReached'
    <3> SUFFICES ASSUME NEW c \in Cluster \ {0, 1, two} PROVE ~(diskFat'[c] # 0 /\ tables'[c] # NoTable)
      BY DEF TablesReached, two
    <3>1. ~FolderAt(c) /\ ~InFlight
      BY <1>5, <2>4 DEF FolderAt, LiveFolder, FormatRoot, InFlight
    <3>2. tables'[c] = tables[c] /\ diskFat'[c] = diskFat[c]
      BY <1>5, <2>2, SmallNumbers DEF FormatRoot
    <3> QED BY <3>1, <3>2 DEF Reached, TablesReached, two
  <2> QED BY <1>5, <2>5, <2>6
       DEF FormatRoot, Reached, ReservedTaken, Blank, WriteReached, InFlight, Writing
<1> QED BY <1>2, <1>3, <1>4, <1>5 DEF Boot

-----------------------------------------------------------------------------
(* Steps that write one *)

(* The folders that are there stay when one table is written that keeps its *)
(* entries in use, ...                                                      *)
LEMMA FoldersKept ==
  ASSUME NEW c \in DiskCluster, NEW t,
         tables'[c] = t, \A d \in DiskCluster \ {c} : tables'[d] = tables[d], NEW h,
         \A s \in Slot : LiveFolder(c, s) /\ tables[c][s].cluster = h =>
           /\ t # NoTable /\ NamesOther(t, c, s) /\ t[s].attribute
           /\ t[s].cluster = tables[c][s].cluster,
         FolderAt(h)
  PROVE  FolderAt(h)'
<1>1. PICK d \in DiskCluster, s \in Slot : LiveFolder(d, s) /\ tables[d][s].cluster = h
  BY DEF FolderAt
<1>2. LiveFolder(d, s)' /\ tables'[d][s].cluster = h
  <2>1. CASE d = c
    BY <1>1, <2>1 DEF LiveFolder, Live, NamesOther
  <2>2. CASE d # c
    BY <1>1, <2>2 DEF LiveFolder, Live
  <2> QED BY <2>1, <2>2
<1> QED BY <1>2 DEF FolderAt, LiveFolder, Live

(* ... so when only one changes that was not in use. *)
LEMMA FoldersKeptByPut ==
  ASSUME NEW c \in DiskCluster, NEW t, t # NoTable, NEW k \in Slot,
         tables'[c] = t, \A d \in DiskCluster \ {c} : tables'[d] = tables[d],
         ~tables[c][k].used, \A s \in Slot \ {k} : t[s] = tables[c][s]
  PROVE  /\ \A h : FolderAt(h) => FolderAt(h)'
         /\ \A d \in DiskCluster, s \in Slot : Live(d, s)' => Live(d, s) \/ (d = c /\ s = k)
            \/ (d = c /\ tables[c] = NoTable)
<1>1. \A s \in Slot : LiveFolder(c, s) =>
           /\ NamesOther(t, c, s) /\ t[s].attribute
           /\ t[s].cluster = tables[c][s].cluster
  BY DEF LiveFolder, Live, NamesOther
<1>2. \A h : FolderAt(h) => FolderAt(h)'
  BY <1>1, FoldersKept
<1>3. ASSUME NEW d \in DiskCluster, NEW s \in Slot, Live(d, s)'
      PROVE  Live(d, s) \/ (d = c /\ s = k) \/ (d = c /\ tables[c] = NoTable)
  BY <1>3 DEF Live
<1> QED BY <1>2, <1>3

(* Nothing is in the table of a cluster that is free, or being taken: it    *)
(* may be overwritten.                                                      *)
LEMMA NothingLost ==
  ASSUME Sound, Reached, NEW c \in Cluster \ Reserved, NEW t,
         \A d \in DiskCluster, s \in Slot : Live(d, s) => owner[c] # <<d, s>>,
         tables'[c] = t, \A d \in DiskCluster \ {c} : tables'[d] = tables[d],
         t # NoTable => \A s \in Slot : ~NamesOther(t, c, s) /\ (t[s].attribute => t[s].cluster # 1)
  PROVE  /\ \A h : FolderAt(h) => FolderAt(h)'
         /\ InFolder' /\ NoneToFat'
<1>1. c \in DiskCluster
  BY SmallNumbers
<1>2. ~FolderAt(c)
  BY FolderOwns DEF FolderAt, LiveFolder
<1>3. \A s \in Slot : ~Live(c, s)
  BY <1>1, <1>2 DEF Reached, InFolder, Reserved
<1>4. \A h : FolderAt(h) => FolderAt(h)'
  BY <1>1, <1>3, FoldersKept DEF LiveFolder
<1>5. \A d \in DiskCluster, s \in Slot : Live(d, s)' => Live(d, s)
  BY <1>1 DEF Live, NamesOther
<1>6. InFolder'
  BY <1>4, <1>5 DEF Reached, InFolder
<1>7. NoneToFat'
  BY <1>1 DEF Reached, NoneToFat
<1> QED BY <1>4, <1>6, <1>7

(* The table of the parent is written back with one entry more. *)
LEMMA PutReached ==
  ASSUME TypeOK, Sound, Folders, Reached, pc \in Writing, NEW t, t # NoTable,
         WriteTable(request.parent, t),
         \A s \in Slot \ {slot} : t[s] = tables[request.parent][s],
         t[slot].attribute => t[slot].cluster # 1
  PROVE  /\ \A h : FolderAt(h) => FolderAt(h)'
         /\ InFolder' /\ NoneToFat'
         /\ tables'[request.parent] = t
         /\ \A d \in DiskCluster \ {request.parent} : tables'[d] = tables[d]
<1> DEFINE c == request.parent
<1>1. /\ c \in Cluster \ {0} /\ c \in DiskCluster /\ slot \in Slot
      /\ tables[c] # NoTable /\ ~tables[c][slot].used
  BY WriteFacts
<1>2. tables'[c] = t /\ \A d \in DiskCluster \ {c} : tables'[d] = tables[d]
  BY <1>1, Written
<1>3. c = ROOT_CLUSTER_NUMBER \/ FolderAt(c)
  BY DEF Reached, WriteReached
<1> HIDE DEF c
<1>4. \A s \in Slot \ {slot} : t[s] = tables[c][s]
  BY DEF c
<1>5. /\ \A h : FolderAt(h) => FolderAt(h)'
      /\ \A d \in DiskCluster, s \in Slot : Live(d, s)' => Live(d, s) \/ (d = c /\ s = slot)
  BY <1>1, <1>2, <1>4, FoldersKeptByPut
<1>6. InFolder'
  BY <1>3, <1>5 DEF Reached, InFolder
<1>7. NoneToFat'
  BY <1>1, <1>2, <1>4 DEF Reached, NoneToFat
<1> QED BY <1>2, <1>5, <1>6, <1>7 DEF c

(* The parent passes write's test, so it is a folder that is there. *)
LEMMA ParentReached ==
  ASSUME TypeOK, Sound, Reached, pc = "idle", NEW r \in Request, r.parent \in CallerClusters, tables[r.parent] # NoTable,
         GoodParent(r)
  PROVE  r.parent = ROOT_CLUSTER_NUMBER \/ FolderAt(r.parent)
<1>1. r.parent \in Cluster \ {0} /\ tables[r.parent] # NoTable
  BY CallerDirectory, ParentFolder DEF Sound, OnDisk
<1>2. diskFat[r.parent] # 0
  BY <1>1 DEF GoodParent, WordsAt, FAT32_FAT_EMPTY_ENTRY
<1>3. r.parent # 1 \/ r.parent = ROOT_CLUSTER_NUMBER
  BY DEF CallerClusters, Reached, NoneToFat
<1> QED BY <1>1, <1>2, <1>3 DEF Reached, TablesReached, InFlight

LEMMA ReachedMkdirFat ==
  ASSUME TypeOK, Sound, Reached, ~wild', NEW r \in Request, r.parent \in CallerClusters, tables[r.parent] # NoTable, MkdirFat(r, tables[r.parent])
  PROVE  Reached'
<1>1. PICK c \in DiskCluster, s \in Slot \cup {ENTRY_COUNT} :
        /\ FoundFree(diskFat, 0, c)
        /\ diskFat' = SetWord(diskFat, c, FAT32_FAT_END_OF_FILE)
        /\ owner' = Own(c, <<r.parent, s>>)
        /\ pc' = "mkdir_table" /\ request' = r /\ cluster' = c
        /\ wild' = (wild \/ c \notin Cluster \/ s = ENTRY_COUNT)
  BY DEF MkdirFat, Enter
<1>2. c \in Cluster /\ diskFat[c] = 0
  BY <1>1, FreeWord
<1>3. pc = "idle" /\ UNCHANGED <<signature, tables>>
  BY DEF MkdirFat
<1>4. \A d \in Cluster \ {c} : diskFat'[d] = diskFat[d] /\ owner'[d] = owner[d]
  BY <1>1 DEF SetWord, Own
<1>5. ReservedTaken'
  <2>1. \A d \in Reserved : d \in Cluster \ {c} /\ diskFat[d] # 0 /\ owner[d] = Nobody
    BY <1>2, <1>3 DEF Reached, ReservedTaken
  <2> QED BY <1>1, <1>4, <2>1 DEF ReservedTaken, InFlight
<1>6. InFolder' /\ NoneToFat'
  BY <1>3, FoldersStay DEF Reached, InFolder
<1>7. TablesReached'
  <2>1. ASSUME NEW d \in Cluster \ {0, 1, ROOT_CLUSTER_NUMBER}, diskFat'[d] # 0, tables[d] # NoTable
        PROVE  d = c \/ FolderAt(d)
    BY <1>3, <1>4, <2>1 DEF Reached, TablesReached, InFlight
  <2> QED BY <1>1, <1>3, <2>1, FoldersStay DEF TablesReached, InFlight
<1>8. Blank' /\ WriteReached'
  <2>1. r.parent = ROOT_CLUSTER_NUMBER \/ FolderAt(r.parent)'
    BY <1>3, ParentReached, FoldersStay DEF MkdirFat
  <2> QED BY <1>1, <2>1 DEF Blank, WriteReached, FolderAt
<1> QED BY <1>5, <1>6, <1>7, <1>8 DEF Reached

LEMMA ReachedMkdirTable == ASSUME TypeOK, Sound, Folders, Reached, MkdirTable PROVE Reached'
<1> DEFINE t == NewTable(request.name, cluster)
<1>1. /\ pc = "mkdir_table" /\ pc' = "mkdir_entry"
      /\ UNCHANGED <<diskFat, fat_table, request, cluster, owner>>
  BY DEF MkdirTable
<1>2. cluster \in Cluster /\ owner[cluster] = MyPlace /\ owner[0] = Nobody /\ MyPlace # Nobody
  BY <1>1, BusyTypes, SentinelAssumption
     DEF Sound, InCall, MkdirInFlight, Mine, OnDisk, ChainsOwned, Steps
<1>3. cluster \in Cluster \ {0} /\ cluster \notin Reserved
  BY <1>1, <1>2 DEF Reached, ReservedTaken, InFlight
<1>4. tables'[cluster] = t /\ \A d \in DiskCluster \ {cluster} : tables'[d] = tables[d]
  BY <1>3, Written DEF MkdirTable
<1>5. \A s \in Slot : ~NamesOther(t, cluster, s) /\ (t[s].attribute => t[s].cluster # 1)
  <2>1. \A s \in Slot : t[s].attribute => t[s].cluster = cluster
    BY DEF NewTable, SelfEntry, EmptyEntry
  <2> QED BY <1>3, <2>1, NewTableFacts DEF Reserved
<1> HIDE DEF t
<1>6. \A d \in DiskCluster, s \in Slot : Live(d, s) => owner[cluster] # <<d, s>>
  BY <1>1, <1>2, WriteFacts DEF Writing
<1>7. (\A h : FolderAt(h) => FolderAt(h)') /\ InFolder' /\ NoneToFat'
  BY <1>3, <1>4, <1>5, <1>6, NothingLost
<1>8. TablesReached'
  <2> SUFFICES ASSUME NEW c \in Cluster \ {0, 1, ROOT_CLUSTER_NUMBER}, c # cluster,
                      diskFat[c] # 0, tables'[c] # NoTable
               PROVE  FolderAt(c)'
    BY <1>1 DEF TablesReached, InFlight
  <2>1. tables'[c] = tables[c]
    BY <1>4, SmallNumbers
  <2> QED BY <1>7, <2>1 DEF Reached, TablesReached
<1>9. ReservedTaken' /\ Blank'
  BY <1>1 DEF Reached, ReservedTaken, InFlight, Blank
<1>10. WriteReached'
  <2>1. request.parent = ROOT_CLUSTER_NUMBER \/ FolderAt(request.parent)
    BY <1>1 DEF Reached, WriteReached, Writing
  <2>2. \A h : h = request.parent /\ FolderAt(h) => FolderAt(h)'
    BY <1>7
  <2> QED BY <1>1, <2>1, <2>2 DEF WriteReached, FolderAt
<1> QED BY <1>7, <1>8, <1>9, <1>10 DEF Reached

LEMMA ReachedEntry ==
  ASSUME TypeOK, Sound, Folders, Reached, MkdirEntry \/ FileEntry
  PROVE  Reached'
<1> DEFINE c == request.parent
           e == SelfEntry(request.name, cluster)
           t == IF pc = "mkdir_entry" THEN PutEntry(dir_table_buf, slot, e) ELSE dir_table_buf
<1>1. /\ pc \in {"mkdir_entry", "file_entry"} /\ pc' = "return" /\ WriteTable(c, t)
      /\ UNCHANGED <<diskFat, fat_table, owner>>
  BY DEF MkdirEntry, FileEntry, Return
<1>2. /\ c \in Cluster \ {0} /\ c \in DiskCluster /\ slot \in Slot /\ dir_table_buf \in Table
      /\ tables[c] # NoTable
      /\ \A s \in Slot \ {slot} : dir_table_buf[s] = tables[c][s]
  BY <1>1, WriteFacts DEF Writing
<1>3. \A s \in Slot : PutEntry(dir_table_buf, slot, e)[s] = IF s = slot THEN e ELSE dir_table_buf[s]
  BY DEF PutEntry
<1>4. e.attribute /\ e.used /\ e.cluster = cluster
  BY DEF SelfEntry, EmptyEntry
<1>5. t # NoTable
  <2>1. CASE pc = "mkdir_entry"
    <3>1. request.name \in Names /\ cluster \in DiskCluster
      BY <1>1, <2>1, BusyTypes DEF Steps, Request, TypeOK
    <3> QED BY <1>2, <2>1, <3>1, TableTypes, SentinelAssumption
  <2>2. CASE pc # "mkdir_entry"
    BY <1>2, <2>2, SentinelAssumption
  <2> QED BY <2>1, <2>2
<1>6. /\ \A s \in Slot \ {slot} : t[s] = tables[c][s]
      /\ t[slot].attribute => pc = "mkdir_entry" /\ t[slot] = e
      /\ pc = "mkdir_entry" => t[slot] = e /\ cluster # 1 /\ cluster # c /\ cluster \in DiskCluster
  <2>1. CASE pc = "mkdir_entry"
    <3>1. cluster # 1 /\ cluster # c /\ cluster \in DiskCluster
      BY <2>1 DEF Reached, ReservedTaken, InFlight, Reserved, Folders, LoadedFrom, Writing, InMkdir,
                  TypeOK
    <3> QED BY <1>2, <1>3, <2>1, <3>1
  <2>2. CASE pc # "mkdir_entry"
    <3>1. ~dir_table_buf[slot].attribute
      BY <1>1, <2>2 DEF Folders, LoadedFrom, Writing, InMkdir
    <3> QED BY <1>2, <2>2, <3>1
  <2> QED BY <2>1, <2>2
<1> HIDE DEF e, t
<1>7. /\ \A h : FolderAt(h) => FolderAt(h)'
      /\ InFolder' /\ NoneToFat'
      /\ tables'[c] = t /\ \A d \in DiskCluster \ {c} : tables'[d] = tables[d]
  BY <1>1, <1>4, <1>5, <1>6, PutReached DEF Writing
<1>8. TablesReached'
  <2> SUFFICES ASSUME NEW d \in Cluster \ {0, 1, ROOT_CLUSTER_NUMBER},
                      diskFat[d] # 0, tables'[d] # NoTable
               PROVE  FolderAt(d)'
    BY <1>1 DEF TablesReached
  <2>1. tables[d] # NoTable
    BY <1>2, <1>7, SmallNumbers
  <2>2. CASE FolderAt(d)
    BY <1>7, <2>2
  <2>3. CASE InFlight /\ d = cluster
    <3>1. pc = "mkdir_entry"
      BY <1>1, <2>3 DEF InFlight
    <3>2. NamesOther(t, c, slot) /\ t[slot].attribute /\ t[slot].cluster = d
      BY <1>4, <1>6, <2>3, <3>1 DEF NamesOther
    <3> QED BY <1>2, <1>5, <1>7, <3>2 DEF FolderAt, LiveFolder, Live, NamesOther
  <2> QED BY <2>1, <2>2, <2>3 DEF Reached, TablesReached
<1>9. ReservedTaken' /\ Blank' /\ WriteReached'
  BY <1>1 DEF Reached, ReservedTaken, InFlight, Blank, WriteReached, Writing
<1> QED BY <1>7, <1>8, <1>9 DEF Reached

LEMMA ReachedStartWriteFile ==
  ASSUME TypeOK, Sound, Reached, NEW r \in Request, r.parent \in CallerClusters, tables[r.parent] # NoTable, StartWriteFile(r, tables[r.parent])
  PROVE  Reached'
<1>1. /\ pc = "idle" /\ pc' = "file_data" /\ request' = r
      /\ UNCHANGED <<signature, diskFat, tables, owner>>
  BY DEF StartWriteFile, Enter
<1>2. r.parent = ROOT_CLUSTER_NUMBER \/ FolderAt(r.parent)'
  BY <1>1, ParentReached, FoldersStay DEF StartWriteFile
<1>3. InFolder' /\ NoneToFat'
  BY <1>1, FoldersStay DEF Reached, InFolder
<1>4. TablesReached'
  BY <1>1, FoldersStay DEF Reached, TablesReached, InFlight
<1>5. ReservedTaken' /\ Blank'
  BY <1>1 DEF Reached, ReservedTaken, InFlight, Blank
<1>6. WriteReached'
  BY <1>1, <1>2 DEF WriteReached, FolderAt
<1> QED BY <1>3, <1>4, <1>5, <1>6 DEF Reached

LEMMA ReachedFileData ==
  ASSUME TypeOK, FatCoherent, Sound, Reached, ~wild', FileData
  PROVE  Reached'
<1>1. PICK c, b :
        /\ c \in DiskCluster
        /\ FoundFree(fat_table, 0, c) /\ WriteBlock(c, b)
        /\ cluster' = c /\ owner' = Own(c, MyPlace)
        /\ wild' = (wild \/ c \notin Cluster)
  BY DEF FileData
<1>2. c \in Cluster /\ fat_table[c] = 0
  BY <1>1, FreeWord
<1>3. pc = "file_data" /\ pc' = "file_fat" /\ UNCHANGED <<diskFat, request>>
  BY DEF FileData
<1>4. owner[c] = Nobody /\ c \notin Reserved /\ c # 0
  <2>1. fat_table = diskFat /\ diskFat[0] # 0 /\ ~(OpenEnd /\ c = cluster)
    BY <1>2, <1>3 DEF FatCoherent, Sound, InCall, FileGoesOn
  <2>2. owner[c] = Nobody /\ c # 0
    BY <1>2, <2>1 DEF Sound, OnDisk, ChainsOwned
  <2> QED BY <1>2, <1>3, <2>1, <2>2 DEF Reached, ReservedTaken
<1>5. tables'[c] = NoTable /\ \A d \in DiskCluster \ {c} : tables'[d] = tables[d]
  BY <1>1, <1>2, <1>4, WrittenBlock
<1>6. \A d \in DiskCluster, s \in Slot : owner[c] # <<d, s>>
  BY <1>4, SentinelAssumption DEF Place
<1>7. (\A h : FolderAt(h) => FolderAt(h)') /\ InFolder' /\ NoneToFat'
  BY <1>2, <1>4, <1>5, <1>6, NothingLost
<1>8. TablesReached'
  <2> SUFFICES ASSUME NEW d \in Cluster \ {0, 1, ROOT_CLUSTER_NUMBER}, diskFat[d] # 0,
                      tables'[d] # NoTable
               PROVE  FolderAt(d)'
    BY <1>3 DEF TablesReached
  <2>1. tables[d] # NoTable
    BY <1>5, SmallNumbers
  <2> QED BY <1>3, <1>7, <2>1 DEF Reached, TablesReached, InFlight
<1>9. ReservedTaken' /\ Blank'
  <2>1. \A d \in Reserved : owner'[d] = owner[d]
    BY <1>1, <1>3, <1>4 DEF Own, Reached, ReservedTaken
  <2> QED BY <1>3, <2>1 DEF Reached, ReservedTaken, InFlight, Blank
<1>10. WriteReached'
  <2>1. request.parent = ROOT_CLUSTER_NUMBER \/ FolderAt(request.parent)
    BY <1>3 DEF Reached, WriteReached, Writing
  <2>2. \A h : h = request.parent /\ FolderAt(h) => FolderAt(h)'
    BY <1>7
  <2> QED BY <1>1, <1>3, <1>5, <2>1, <2>2 DEF WriteReached, FolderAt
<1> QED BY <1>7, <1>8, <1>9, <1>10 DEF Reached

LEMMA ReachedFileFat == ASSUME TypeOK, Sound, Reached, FileFat PROVE Reached'
<1>1. /\ pc = "file_fat" /\ pc' \in {"file_data", "file_entry"} /\ diskFat' = fat_table
      /\ UNCHANGED <<tables, fat_table, request, cluster, owner>>
  BY DEF FileFat
<1>2. /\ \A d \in Cluster \ {cluster} : diskFat'[d] = diskFat[d]
      /\ owner[cluster] = MyPlace /\ MyPlace # Nobody
  BY <1>1, BusyTypes, SentinelAssumption
     DEF Sound, InCall, FileLinks, FileGoesOn, OpenEnd, Mine, Steps
<1>3. ReservedTaken' /\ Blank'
  <2>1. \A d \in Reserved : d \in Cluster \ {cluster} /\ diskFat[d] # 0 /\ owner[d] = Nobody
    BY <1>1, <1>2 DEF Reached, ReservedTaken
  <2> QED BY <1>1, <1>2, <2>1 DEF ReservedTaken, InFlight, Blank
<1>4. InFolder' /\ NoneToFat'
  BY <1>1, FoldersStay DEF Reached, InFolder
<1>5. TablesReached'
  <2> SUFFICES ASSUME NEW d \in Cluster \ {0, 1, ROOT_CLUSTER_NUMBER}, diskFat'[d] # 0,
                      tables[d] # NoTable
               PROVE  FolderAt(d)
    BY <1>1, FoldersStay DEF TablesReached
  <2>1. d # cluster
    BY <1>1 DEF Reached, WriteReached
  <2> QED BY <1>1, <1>2, <2>1 DEF Reached, TablesReached, InFlight
<1>6. WriteReached'
  BY <1>1 DEF Reached, WriteReached, FolderAt, LiveFolder, Live, Writing
<1> QED BY <1>3, <1>4, <1>5, <1>6 DEF Reached

-----------------------------------------------------------------------------
(* Deletes *)

(* An entry is taken away: what is left was there before, and a folder that *)
(* is there stays unless it was that entry's.                               *)
LEMMA TakenAway ==
  ASSUME TypeOK, Sound, NEW r \in Request, r.parent \in CallerClusters, tables[r.parent] # NoTable, NEW s \in Slot, s # 0,
         WriteTable(r.parent, Unused(tables[r.parent], s))
  PROVE  /\ \A d \in DiskCluster, x \in Slot : Live(d, x)' => Live(d, x)
         /\ \A h : FolderAt(h) => \/ FolderAt(h)'
                                  \/ tables[r.parent][s].attribute /\ tables[r.parent][s].cluster = h
         /\ \A d \in DiskCluster : tables'[d] # NoTable => tables[d] # NoTable
         /\ NoneToFat => NoneToFat'
<1> DEFINE c == r.parent
           t == tables[c]
           u == Unused(t, s)
<1>1. c \in Cluster \ {0} /\ c \in DiskCluster /\ t \in Table /\ t # NoTable
  BY CallerDirectory, ParentFolder DEF Sound, OnDisk
<1>2. tables'[c] = u /\ \A d \in DiskCluster \ {c} : tables'[d] = tables[d]
  BY <1>1, Written
<1>3. /\ ~u[s].used /\ \A x \in Slot \ {s} : u[x] = t[x]
      /\ \A x \in Slot : u[x].attribute = t[x].attribute /\ u[x].cluster = t[x].cluster
  BY <1>1, UnusedFacts
<1>4. 0 \in Slot /\ u # NoTable
  BY <1>1, TableTypes, SizeAssumption, SentinelAssumption DEF Slot
<1> HIDE DEF c, u
<1>5. ASSUME NEW d \in DiskCluster, NEW x \in Slot, Live(d, x)' PROVE Live(d, x)
  <2>1. CASE d = c
    <3>1. x # s
      BY <1>2, <1>3, <1>5, <2>1 DEF Live
    <3> QED BY <1>1, <1>2, <1>3, <1>4, <1>5, <2>1, <3>1 DEF Live
  <2>2. CASE d # c
    BY <1>2, <1>5, <2>2 DEF Live
  <2> QED BY <2>1, <2>2
<1>6. ASSUME NEW h, FolderAt(h), ~(t[s].attribute /\ t[s].cluster = h) PROVE FolderAt(h)'
  <2>1. ASSUME NEW x \in Slot, LiveFolder(c, x), tables[c][x].cluster = h
        PROVE  u # NoTable /\ NamesOther(u, c, x) /\ u[x].attribute /\ u[x].cluster = tables[c][x].cluster
    <3>1. x # s
      BY <1>6, <2>1 DEF LiveFolder, c
    <3> QED BY <1>3, <1>4, <2>1, <3>1 DEF LiveFolder, Live, NamesOther, c
  <2> QED BY <1>1, <1>2, <1>6, <2>1, FoldersKept
<1>7. NoneToFat => NoneToFat'
  BY <1>1, <1>2, <1>3 DEF NoneToFat, c
<1>8. \A d \in DiskCluster : tables'[d] # NoTable => tables[d] # NoTable
  BY <1>1, <1>2 DEF c
<1> QED BY <1>5, <1>6, <1>7, <1>8 DEF c

LEMMA ReachedDeleteDir ==
  ASSUME TypeOK, Sound, Folders, Reached, ~wild', NEW r \in Request, r.parent \in CallerClusters, tables[r.parent] # NoTable,
         DeleteDir(r, tables[r.parent])
  PROVE  Reached'
<1> DEFINE t == tables[r.parent]
<1>1. PICK s \in Slot :
        /\ IsFirst(s, Victims(t, r)) /\ t[s].attribute /\ SeesNoChild(t[s].cluster)
        /\ fat_table' = SetWord(fat_table, t[s].cluster, FAT32_FAT_EMPTY_ENTRY)
        /\ WriteTable(r.parent, Unused(t, s))
        /\ pc' = "dir_fat" /\ cluster' = t[s].cluster
        /\ owner' = Disown(<<r.parent, s>>)
  BY DEF DeleteDir, Enter, TablesAfter
<1> DEFINE c == t[s].cluster
<1>2. pc = "idle" /\ UNCHANGED diskFat
  BY DEF DeleteDir
<1>3. c \in Cluster /\ owner[c] = <<r.parent, s>> /\ <<r.parent, s>> # Nobody /\ s # 0 /\ t[s].used
  <2>1. <<r.parent, s>> # Nobody
    BY <1>1, CallerDirectory, ParentFolder, SentinelAssumption DEF Place, Sound, OnDisk
  <2> QED BY <1>1, <2>1, CallerDirectory, VictimOwns DEF Sound, OnDisk, IsFirst, Victims
<1>4. /\ \A d \in DiskCluster, x \in Slot : Live(d, x)' => Live(d, x)
      /\ \A h : FolderAt(h) => FolderAt(h)' \/ h = c
      /\ \A d \in DiskCluster : tables'[d] # NoTable => tables[d] # NoTable
      /\ NoneToFat'
  BY <1>1, <1>3, TakenAway DEF Reached
<1>5. \A x \in Slot : ~Live(c, x)
  <2>1. r.parent \in DiskCluster /\ LiveFolder(r.parent, s) /\ c \in DiskCluster
    BY <1>1, <1>3, CallerDirectory, ParentFolder, SmallNumbers DEF LiveFolder, Live, Sound, OnDisk
  <2>2. tables[c] # NoTable /\ tables[c][0] = SelfEntry(t[s].name, c)
    BY <2>1 DEF Folders, FolderNamed, Leads
  <2>3. SelfEntry(t[s].name, c).attribute /\ SelfEntry(t[s].name, c).cluster = c
    BY DEF SelfEntry, EmptyEntry
  <2>4. \A x \in Slot \ {0} : ~tables[c][x].used
    BY <1>1, <2>1, <2>2 DEF SeesNoChild, HasTable
  <2> HIDE DEF c
  <2> QED BY <2>2, <2>3, <2>4 DEF Live
<1> HIDE DEF c
<1>6. InFolder'
  BY <1>4, <1>5 DEF Reached, InFolder
<1>7. TablesReached'
  <2> SUFFICES ASSUME NEW d \in Cluster \ {0, 1, ROOT_CLUSTER_NUMBER}, diskFat[d] # 0,
                      tables'[d] # NoTable, d # c
               PROVE  FolderAt(d)'
    BY <1>1, <1>2 DEF TablesReached, InFlight, c
  <2>1. FolderAt(d)
    BY <1>2, <1>4, SmallNumbers DEF Reached, TablesReached, InFlight
  <2> QED BY <1>4, <2>1
<1>8. ReservedTaken'
  <2>1. \A d \in Reserved : d \in Cluster /\ diskFat[d] # 0 /\ owner[d] = Nobody
    BY <1>2 DEF Reached, ReservedTaken
  <2>2. c \notin Reserved /\ \A d \in Reserved : owner'[d] = Nobody
    BY <1>1, <1>3, <2>1 DEF Disown
  <2> QED BY <1>1, <1>2, <2>1, <2>2 DEF ReservedTaken, c
<1>9. Blank' /\ WriteReached'
  BY <1>1 DEF Blank, WriteReached, Writing
<1> QED BY <1>4, <1>6, <1>7, <1>8, <1>9 DEF Reached

LEMMA ReachedDeleteFile ==
  ASSUME TypeOK, Sound, Reached, NEW r \in Request, r.parent \in CallerClusters, tables[r.parent] # NoTable, DeleteFile(r, tables[r.parent])
  PROVE  Reached'
<1> DEFINE t == tables[r.parent]
<1>1. PICK s \in Slot : /\ IsFirst(s, Victims(t, r)) /\ ~t[s].attribute
                        /\ WriteTable(r.parent, Unused(t, s))
  BY DEF DeleteFile
<1>2. pc = "idle" /\ pc' = "walk" /\ UNCHANGED <<diskFat, fat_table, owner>>
  BY DEF DeleteFile, Enter
<1>3. s # 0
  BY <1>1 DEF IsFirst, Victims
<1>4. /\ \A d \in DiskCluster, x \in Slot : Live(d, x)' => Live(d, x)
      /\ \A h : FolderAt(h) => FolderAt(h)'
      /\ \A d \in DiskCluster : tables'[d] # NoTable => tables[d] # NoTable
      /\ NoneToFat'
  BY <1>1, <1>3, TakenAway DEF Reached
<1>5. InFolder'
  BY <1>4 DEF Reached, InFolder
<1>6. TablesReached'
  BY <1>2, <1>4, SmallNumbers DEF Reached, TablesReached, InFlight
<1>7. ReservedTaken' /\ Blank' /\ WriteReached'
  BY <1>2 DEF Reached, ReservedTaken, InFlight, Blank, WriteReached, Writing
<1> QED BY <1>4, <1>5, <1>6, <1>7 DEF Reached

(* The FAT is written with words that are zero now. *)
LEMMA ReachedFreed ==
  ASSUME TypeOK, FatCoherent, Sound, Reached, DeleteDirFat \/ DeleteFree
  PROVE  Reached'
<1>1. /\ pc \in {"dir_fat", "walk"} /\ pc' = "return" /\ diskFat' = fat_table'
      /\ UNCHANGED <<tables>>
  BY DEF DeleteDirFat, DeleteFree, Return
<1>2. \A d \in Cluster : diskFat'[d] = 0 \/ diskFat'[d] = diskFat[d]
  <2>1. CASE DeleteDirFat
    BY <2>1 DEF DeleteDirFat, Sound, InCall, DirInFlight
  <2>2. CASE DeleteFree
    BY <2>2 DEF DeleteFree, FatCoherent, FAT32_FAT_EMPTY_ENTRY
  <2> QED BY <2>1, <2>2
<1>3. \A d \in Reserved : d \in Cluster /\ diskFat'[d] # 0 /\ owner'[d] = Nobody
  <2>1. \A d \in Reserved : d \in Cluster /\ diskFat[d] # 0 /\ owner[d] = Nobody
    BY <1>1 DEF Reached, ReservedTaken
  <2>2. CASE DeleteDirFat
    <3>1. cluster \notin Reserved
      BY <2>2 DEF DeleteDirFat, Reached, ReservedTaken, InFlight
    <3> QED BY <2>1, <2>2, <3>1 DEF DeleteDirFat, Sound, InCall, DirInFlight
  <2>3. CASE DeleteFree
    <3>1. MyPlace # Nobody /\ fat_table = diskFat
      BY <2>3, BusyTypes, SentinelAssumption DEF DeleteFree, Steps, FatCoherent
    <3>2. \A d \in Reserved : d \notin to_zeros
      BY <2>1, <2>3, <3>1 DEF DeleteFree, Sound, InCall, WalkInFlight, Mine
    <3> QED BY <2>1, <2>3, <3>1, <3>2 DEF DeleteFree, Disown
  <2> QED BY <2>2, <2>3
<1>4. InFolder' /\ NoneToFat'
  BY <1>1, FoldersStay DEF Reached, InFolder
<1>5. TablesReached'
  <2> SUFFICES ASSUME NEW d \in Cluster \ {0, 1, ROOT_CLUSTER_NUMBER}, diskFat'[d] # 0,
                      tables[d] # NoTable
               PROVE  FolderAt(d)
    BY <1>1, FoldersStay DEF TablesReached
  <2>1. diskFat[d] # 0
    BY <1>2
  <2>2. ~(InFlight /\ d = cluster)
    BY <1>1 DEF DeleteDirFat, DeleteFree, InFlight, Sound, InCall, DirInFlight
  <2> QED BY <2>1, <2>2 DEF Reached, TablesReached
<1>6. ReservedTaken' /\ Blank' /\ WriteReached'
  BY <1>1, <1>3 DEF ReservedTaken, InFlight, Blank, WriteReached, Writing
<1> QED BY <1>4, <1>5, <1>6 DEF Reached

-----------------------------------------------------------------------------
(* The theorem *)

LEMMA ReachedStep ==
  ASSUME TypeOK, FatCoherent, Sound, Folders, Reached, ~wild', Step PROVE Reached'
<1>1. CASE SyscallReturn \/ ReadBlock \/ ReadReturn \/ DeleteWalk
  BY <1>1, ReachedQuiet
     DEF SyscallReturn, ReadBlock, ReadReturn, DeleteWalk, Return, InFlight, Writing
<1> QED BY <1>1, ReachedMkdirTable, ReachedEntry, ReachedFileData, ReachedFileFat, ReachedFreed
        DEF Step

LEMMA ReachedCall ==
  ASSUME TypeOK, FatCoherent, Sound, Folders, Reached, ~wild', Call PROVE Reached'
<1>3. CASE OnlyAnswers
  BY <1>3, ReachedQuiet DEF OnlyAnswers, Return, InFlight, Writing
<1> SUFFICES ASSUME ~OnlyAnswers PROVE Reached'
  BY <1>3
<1>1. PICK r \in Request : r.parent \in CallerClusters /\ tables[r.parent] # NoTable /\ CallOn(r)
  BY CallKnown
<1>2. CASE ReadRefused(r, tables[r.parent]) \/ ReadFile(r, tables[r.parent]) \/ ReadDirectory(r, tables[r.parent])
             \/ WriteBadParent(r) \/ WriteDuplicate(r, tables[r.parent]) \/ DeleteRefused(r, tables[r.parent])
  BY <1>2, ReachedQuiet DEF ReadRefused, ReadFile, ReadDirectory, WriteBadParent, WriteDuplicate,
                            DeleteRefused, Return, Enter, InFlight, Writing
<1> QED BY <1>1, <1>2, ReachedMkdirFat, ReachedStartWriteFile, ReachedDeleteDir, ReachedDeleteFile
        DEF CallOn, CallWith

LEMMA CrashesStay == ASSUME TypeOK, Next, crashes' = 0 PROVE crashes = 0 /\ ~Crash
<1>1. ~Crash
  <2>1. crashes + 1 # 0
    BY SizeAssumption DEF TypeOK
  <2> QED BY <2>1 DEF Crash
<1>2. CASE Boot
  BY <1>1, <1>2 DEF Boot, Mount, FormatBoot, FormatFat, FormatRoot
<1>3. CASE Step
  BY <1>1, <1>3 DEF Step, SyscallReturn, ReadBlock, ReadReturn, MkdirTable, MkdirEntry, FileData,
                    FileFat, FileEntry, DeleteDirFat, DeleteWalk, DeleteFree
<1>4. CASE Call
  <2>1. PICK r : WriteBadParent(r) \/ \E t : CallWith(r, t)
    BY <1>4, CallRequest
  <2>2. crashes' = crashes
    BY <2>1 DEF CallWith, WriteBadParent, WriteDuplicate, MkdirFat, StartWriteFile, ReadRefused,
                ReadFile, ReadDirectory, DeleteRefused, DeleteDir, DeleteFile
  <2> QED BY <1>1, <2>2
<1> QED BY <1>1, <1>2, <1>3, <1>4 DEF Next

(* Every file and folder is in a folder that is there, until the machine    *)
(* stops, a scan leaves its array or write takes for a folder the cluster   *)
(* of a deleted one that a file has by now: this last is no accident of the *)
(* bounds but what fat32.c:268 lets through (ParentIsFolder).  What it says *)
(* is that nothing else does: a free cluster is refused, one another folder *)
(* has taken is that folder's, and a folder that is not empty stays.        *)
THEOREM NoneOrphaned == Spec => []NoOrphans
<1>1. Init => Reached
  BY DEF Init, EmptyEntry, Reached, InFolder, Live, TablesReached, ReservedTaken, InFlight, NoneToFat,
         Blank, WriteReached, Writing
<1>2. ASSUME TypeOK, FatCoherent, ~wild => Sound /\ Folders, ~wild /\ crashes = 0 => Reached,
             [Next]_vars
      PROVE  (~wild /\ crashes = 0 => Reached)'
  <2> SUFFICES ASSUME ~wild', crashes' = 0 PROVE Reached'
    OBVIOUS
  <2>1. CASE UNCHANGED vars
    BY <1>2, <2>1 DEF Reached, InFolder, FolderAt, LiveFolder, Live, TablesReached, ReservedTaken,
                      InFlight, NoneToFat, Blank, WriteReached
  <2>2. CASE Next
    <3>1. ~wild /\ crashes = 0 /\ ~Crash
      BY <1>2, <2>2, WildStays, CrashesStay
    <3> QED BY <1>2, <2>2, <3>1, ReachedBoot, ReachedStep, ReachedCall DEF Next
  <2> QED BY <1>2, <2>1, <2>2
<1>3. (~wild /\ crashes = 0 => Reached) => NoOrphans
  <2> SUFFICES ASSUME Reached, NEW p \in LivePlaces, p[1] # ROOT_CLUSTER_NUMBER
               PROVE  \E q \in LivePlaces : EntryAt(q).attribute /\ EntryAt(q).cluster = p[1]
    BY DEF NoOrphans
  <2>1. p[1] \in DiskCluster /\ p[2] \in Slot /\ Live(p[1], p[2])
    BY DEF LivePlaces
  <2>2. PICK d \in DiskCluster, s \in Slot : LiveFolder(d, s) /\ tables[d][s].cluster = p[1]
    BY <2>1 DEF Reached, InFolder, FolderAt
  <2>3. <<d, s>> \in LivePlaces /\ EntryAt(<<d, s>>) = tables[d][s]
    BY <2>2 DEF LivePlaces, EntryAt, LiveFolder
  <2> QED BY <2>2, <2>3 DEF LiveFolder
<1> QED BY <1>1, <1>2, <1>3, TypeCorrect, Coherent, FoldersAlways, PTL DEF Spec
=============================================================================
