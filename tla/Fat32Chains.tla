---------------------------- MODULE Fat32Chains ----------------------------
(***************************************************************************)
(* The chains of files, for every size of disk and directory, every        *)
(* sequence of calls and every number of crashes: ChainsIntact.  Sound     *)
(* says whose each cluster is; the invariant here, FilesHeld, says what it *)
(* holds: the clusters of one owner are the parts of one file, each linked *)
(* on the disk to the next, and the entry of a file names the first and is *)
(* long enough to reach the last.  What a chain is, a function by          *)
(* recursion, follows by taking the least number at which it would go      *)
(* astray.                                                                 *)
(***************************************************************************)
EXTENDS Fat32Directories, FiniteSetTheorems, WellFoundedInduction

USE DEF vars, disk, locals

-----------------------------------------------------------------------------
(* What the clusters hold, whatever step the machine stops at. *)

(* A cluster holds a table or a block, not both. *)
OneKind == \A c \in DiskCluster : tables[c] = NoTable \/ blocks[c] = NoBlock

(* Nothing is in the table of a free cluster: what is written over it was   *)
(* nobody's.                                                                *)
Vacant(c) == \A s \in Slot : ~Live(c, s)
FreeVacant == \A c \in Cluster : diskFat[c] = 0 => Vacant(c)

(* What is owned belongs to an entry in use, or to the one a call is about  *)
(* to put on the disk or has taken from it.                                 *)
Busy == pc \in Writing \cup {"walk"}
OfLive(p) == \E c \in DiskCluster, s \in Slot : Live(c, s) /\ p = <<c, s>>
OwnedLive == \A c \in Cluster : owner[c] # Nobody => OfLive(owner[c]) \/ (Busy /\ owner[c] = MyPlace)

(* Two clusters of one owner are two parts of one file. *)
PartsOfOne(u, v) == /\ u # NoBlock /\ v # NoBlock
                    /\ u.data = v.data /\ u.of = v.of /\ u.part # v.part
OneFile == \A c, d \in Cluster :
             owner[c] # Nobody /\ owner[d] = owner[c] /\ c # d => PartsOfOne(blocks[c], blocks[d])

(* Each is linked to the next part, the last to the end mark; but for the   *)
(* cluster a call has just taken.                                           *)
Unlinked(c) == (OpenEnd \/ pc = "mkdir_table") /\ c = cluster
NextPart(c) == /\ diskFat[c] \in Cluster /\ owner[diskFat[c]] = owner[c]
               /\ blocks[diskFat[c]] # NoBlock
               /\ blocks[diskFat[c]].part = blocks[c].part + 1
LinkedOn(c) ==
  /\ blocks[c].part < blocks[c].of
  /\ blocks[c].part = blocks[c].of - 1 => diskFat[c] = FAT32_FAT_END_OF_FILE
  /\ blocks[c].part # blocks[c].of - 1 => NextPart(c)
PartsLinked ==
  \A c \in Cluster : owner[c] # Nobody /\ blocks[c] # NoBlock /\ ~Unlinked(c) => LinkedOn(c)

(* A file's entry names its first part, and its size reaches the last.      *)
Covers(size, of) == CLUSTER_SIZE * (of - 1) < size
Starts(bl, e) == /\ bl[e.cluster] # NoBlock /\ bl[e.cluster].part = 0
                 /\ Covers(e.filesize, bl[e.cluster].of)
HeadsStart == \A c \in DiskCluster, s \in Slot :
                Live(c, s) /\ ~tables[c][s].attribute => Starts(blocks, tables[c][s])

Held == OneKind /\ FreeVacant /\ OwnedLive /\ OneFile /\ PartsLinked /\ HeadsStart

-----------------------------------------------------------------------------
(* What holds of the call in progress. *)

(* The cluster of a folder that is being made or deleted is empty, and the  *)
(* only one that its entry has.                                             *)
FolderEmpty == InMkdir \/ pc = "dir_fat" => Vacant(cluster)
FolderOne == InMkdir => \A c \in Cluster : Mine(c) => c = cluster

(* The parts of a file that is being written, how far its entry reaches,    *)
(* and that it has its name for itself.                                     *)
InFile == pc \in {"file_data", "file_fat", "file_entry"}
Turns == IF pc = "file_fat" THEN i + 1 ELSE i
PartsWritten ==
  InFile =>
    /\ \A c \in Cluster : Mine(c) =>
         /\ blocks[c] # NoBlock /\ blocks[c].data = request.data
         /\ blocks[c].of = TotalCluster /\ blocks[c].part < Turns
    /\ OpenEnd => blocks[cluster].part = Turns - 1
    /\ Turns > 0 => Mine(FirstCluster) /\ blocks[FirstCluster].part = 0
SizeReaches ==
  InFile =>
    /\ Turns < TotalCluster => CLUSTER_SIZE * Turns <= dir_table_buf[slot].filesize
    /\ Turns >= TotalCluster => Covers(dir_table_buf[slot].filesize, TotalCluster)
    /\ pc = "file_entry" => Turns = TotalCluster
NameFree ==
  InFile =>
    /\ dir_table_buf[slot].used
    /\ \A s \in Slot \ {slot} : \/ dir_table_buf[s].name # dir_table_buf[slot].name
                                \/ dir_table_buf[s].ext # dir_table_buf[slot].ext

(* The parts a delete has collected. *)
WalkParts ==
  pc = "walk" =>
    /\ Mine(FirstCluster) /\ Starts(blocks, dir_table_buf[slot])
    /\ i <= blocks[FirstCluster].of
    /\ \A c \in Cluster : Mine(c) /\ blocks[c].part < i => c \in to_zeros
    /\ i < blocks[FirstCluster].of => Mine(cluster) /\ blocks[cluster].part = i
    /\ i = blocks[FirstCluster].of => cluster \notin Cluster

InHand == FolderEmpty /\ FolderOne /\ PartsWritten /\ SizeReaches /\ NameFree /\ WalkParts

FilesHeld == Held /\ InHand

-----------------------------------------------------------------------------
(* What the steps have in common. *)

(* The entries in use are the same, and so is what they lead to. *)
EntriesStay ==
  /\ \A c \in DiskCluster, s \in Slot : /\ Live(c, s)' <=> Live(c, s)
                                        /\ Live(c, s) => tables'[c][s] = tables[c][s]
  /\ \A d \in Cluster : OfLive(owner[d]) => blocks'[d] = blocks[d]

(* But for the one at entry k of c. *)
OtherEntriesStay(c, k) ==
  \A d \in DiskCluster, s \in Slot :
    <<d, s>> # <<c, k>> => /\ Live(d, s)' <=> Live(d, s)
                           /\ Live(d, s) => tables'[d][s] = tables[d][s]
Appears(c, k, e) ==
  /\ c \in DiskCluster /\ k \in Slot /\ ~Live(c, k) /\ Live(c, k)' /\ tables'[c][k] = e
  /\ UNCHANGED blocks /\ OtherEntriesStay(c, k)

LEMMA TableWritten ==
  ASSUME TypeOK, NEW c \in DiskCluster, NEW t, WriteTable(c, t)
  PROVE  /\ tables'[c] = t /\ blocks'[c] = NoBlock
         /\ \A d \in DiskCluster \ {c} : tables'[d] = tables[d] /\ blocks'[d] = blocks[d]
         /\ OneKind => OneKind'
<1>1. /\ tables \in [DiskCluster -> Table \cup {NoTable}]
      /\ blocks \in [DiskCluster -> Block \cup {NoBlock}]
  BY DEF TypeOK
<1>2. /\ tables'[c] = t /\ blocks'[c] = NoBlock
      /\ \A d \in DiskCluster \ {c} : tables'[d] = tables[d] /\ blocks'[d] = blocks[d]
  BY <1>1 DEF WriteTable
<1> QED BY <1>2 DEF OneKind

LEMMA BlockWritten ==
  ASSUME TypeOK, NEW c \in DiskCluster, NEW b, WriteBlock(c, b)
  PROVE  /\ tables'[c] = NoTable /\ blocks'[c] = b
         /\ \A d \in DiskCluster \ {c} : tables'[d] = tables[d] /\ blocks'[d] = blocks[d]
         /\ OneKind => OneKind'
<1>1. /\ tables \in [DiskCluster -> Table \cup {NoTable}]
      /\ blocks \in [DiskCluster -> Block \cup {NoBlock}]
  BY DEF TypeOK
<1>2. /\ tables'[c] = NoTable /\ blocks'[c] = b
      /\ \A d \in DiskCluster \ {c} : tables'[d] = tables[d] /\ blocks'[d] = blocks[d]
  BY <1>1 DEF WriteBlock
<1> QED BY <1>2 DEF OneKind

(* A table written over a table destroys no block. *)
LEMMA TableOverTable ==
  ASSUME TypeOK, OneKind, NEW c \in DiskCluster, tables[c] # NoTable, NEW t, WriteTable(c, t)
  PROVE  blocks' = blocks
<1>1. blocks \in [DiskCluster -> Block \cup {NoBlock}] /\ blocks[c] = NoBlock
  BY DEF TypeOK, OneKind
<1> QED BY <1>1 DEF WriteTable

LEMMA BlockTypes ==
  ASSUME TypeOK, NEW c \in DiskCluster, blocks[c] # NoBlock
  PROVE  /\ blocks[c] \in Block /\ blocks[c].part \in Nat /\ blocks[c].of \in Nat
         /\ blocks[c] = [data |-> blocks[c].data, part |-> blocks[c].part, of |-> blocks[c].of]
<1>1. blocks[c] \in Block
  BY DEF TypeOK
<1> QED BY <1>1 DEF Block

(* The entry a call works on is not in use. *)
LEMMA OthersPlace ==
  ASSUME Sound, pc \in Writing \cup Deleting
  PROVE  ~OfLive(MyPlace)
  BY DEF Sound, InCall, PlaceFree, OfLive, MyPlace

LEMMA PlacesOwn == \A c \in DiskCluster, s \in Slot : <<c, s>> # Nobody
  BY SentinelAssumption DEF Place

(* The chains nobody touches. *)
LEMMA ChainsStay ==
  ASSUME OneFile, PartsLinked,
         \A c \in Cluster : owner'[c] # Nobody =>
           /\ owner'[c] = owner[c] /\ blocks'[c] = blocks[c] /\ diskFat'[c] = diskFat[c]
           /\ Unlinked(c) => Unlinked(c)',
         \A c, d \in Cluster : owner'[c] # Nobody /\ owner[d] = owner[c] => owner'[d] = owner[d]
  PROVE  OneFile' /\ PartsLinked'
<1>1. OneFile'
  BY DEF OneFile, PartsOfOne
<1>2. ASSUME NEW c \in Cluster, owner'[c] # Nobody, blocks'[c] # NoBlock, ~Unlinked(c)'
      PROVE  LinkedOn(c)'
  <2>1. LinkedOn(c) /\ owner'[c] = owner[c] /\ blocks'[c] = blocks[c] /\ diskFat'[c] = diskFat[c]
    BY <1>2 DEF PartsLinked
  <2>2. ASSUME NextPart(c) PROVE NextPart(c)'
    <3>1. diskFat[c] \in Cluster /\ owner'[diskFat[c]] = owner[c]
      BY <1>2, <2>1, <2>2 DEF NextPart
    <3>2. blocks'[diskFat[c]] = blocks[diskFat[c]]
      BY <1>2, <2>1, <3>1
    <3> QED BY <2>1, <2>2, <3>1, <3>2 DEF NextPart
  <2> QED BY <2>1, <2>2 DEF LinkedOn
<1> QED BY <1>1, <1>2 DEF PartsLinked

(* An entry goes on naming the first part of its file, unless its cluster   *)
(* is written.                                                              *)
LEMMA HeadsStay ==
  ASSUME Sound, HeadsStart,
         \A c \in DiskCluster, s \in Slot : Live(c, s)' /\ ~tables'[c][s].attribute =>
           \/ Live(c, s) /\ tables'[c][s] = tables[c][s]
           \/ Starts(blocks', tables'[c][s]),
         \A d \in Cluster : OfLive(owner[d]) => blocks'[d] = blocks[d]
  PROVE  HeadsStart'
<1> SUFFICES ASSUME NEW c \in DiskCluster, NEW s \in Slot, Live(c, s),
                    tables'[c][s] = tables[c][s], ~tables[c][s].attribute
             PROVE  Starts(blocks', tables[c][s])
  BY DEF HeadsStart, Starts
<1>1. tables[c][s].cluster \in Cluster /\ OfLive(owner[tables[c][s].cluster])
  BY FolderOwns DEF OfLive
<1>2. Starts(blocks, tables[c][s])
  BY DEF HeadsStart
<1> QED BY <1>1, <1>2 DEF Starts

LEMMA NothingInHand ==
  ASSUME pc' \notin Writing \cup {"walk", "dir_fat"}
  PROVE  InHand' /\ ~Busy' /\ \A c : ~Unlinked(c)'
  BY DEF InHand, FolderEmpty, FolderOne, PartsWritten, SizeReaches, NameFree, WalkParts, InMkdir,
         InFile, Busy, Unlinked, OpenEnd, Writing

(* Outside these calls, a place that holds no entry owns nothing. *)
LEMMA FreePlace ==
  ASSUME OwnedLive, ~Busy, NEW c \in DiskCluster, NEW s \in Slot, ~Live(c, s)
  PROVE  \A d \in Cluster : owner[d] # <<c, s>>
  BY PlacesOwn DEF OwnedLive, OfLive

LEMMA FilesQuiet ==
  ASSUME FilesHeld, pc \notin Writing \cup {"walk"}, pc' \notin Writing \cup {"walk", "dir_fat"},
         UNCHANGED <<diskFat, tables, blocks, owner>>
  PROVE  FilesHeld'
<1>1. InHand'
  BY NothingInHand
<1>2. OneKind' /\ FreeVacant'
  BY DEF FilesHeld, Held, OneKind, FreeVacant, Vacant, Live
<1>3. OwnedLive'
  BY DEF FilesHeld, Held, OwnedLive, OfLive, Live, Busy
<1>4. OneFile' /\ PartsLinked'
  BY ChainsStay DEF FilesHeld, Held, Unlinked, OpenEnd, Writing
<1>5. HeadsStart'
  BY DEF FilesHeld, Held, HeadsStart, Live, Starts, Covers
<1> QED BY <1>1, <1>2, <1>3, <1>4, <1>5 DEF FilesHeld, Held

-----------------------------------------------------------------------------
(* Boot and crash *)

LEMMA FilesInit == Init => FilesHeld
<1> SUFFICES ASSUME Init PROVE FilesHeld
  OBVIOUS
<1>1. \A c \in DiskCluster, s \in Slot : ~Live(c, s)
  BY DEF Init, Live, EmptyEntry
<1>2. /\ pc = "off" /\ \A c \in Cluster : owner[c] = Nobody
      /\ \A c \in DiskCluster : blocks[c] = NoBlock
  BY DEF Init
<1>3. Held
  BY <1>1, <1>2, SmallNumbers
     DEF Held, OneKind, FreeVacant, Vacant, OwnedLive, OneFile, PartsLinked, HeadsStart
<1>4. InHand
  BY <1>2 DEF InHand, FolderEmpty, FolderOne, PartsWritten, SizeReaches, NameFree, WalkParts, InMkdir,
              InFile
<1> QED BY <1>3, <1>4 DEF FilesHeld

LEMMA FilesBoot == ASSUME TypeOK, Sound, FilesHeld, Boot PROVE FilesHeld'
<1>1. CASE Mount \/ FormatBoot
  BY <1>1, FilesQuiet DEF Mount, FormatBoot, Writing
<1>2. CASE FormatFat
  <2>1. /\ pc' = "format_root" /\ UNCHANGED <<tables, blocks>>
        /\ \A c \in Cluster : owner'[c] = Nobody
        /\ \A c \in DiskCluster, s \in Slot : ~Live(c, s)
    BY <1>2 DEF FormatFat, Sound, OnDisk, NothingYet
  <2>2. \A c \in DiskCluster, s \in Slot : ~Live(c, s)'
    BY <2>1 DEF Live
  <2>3. Held'
    BY <2>1, <2>2, SmallNumbers DEF FilesHeld, Held, OneKind, FreeVacant, Vacant, OwnedLive, OneFile,
       PartsLinked, HeadsStart
  <2> QED BY <2>1, <2>3, NothingInHand DEF FilesHeld, Writing
<1>3. CASE FormatRoot
  <2> DEFINE two == ROOT_CLUSTER_NUMBER
             t == NewTable(RootName, two)
  <2>1. two \in Cluster \ {0} /\ two \in DiskCluster
    BY SmallNumbers
  <2>2. WriteTable(two, t) /\ pc = "format_root" /\ pc' = "idle" /\ owner' = owner
    BY <1>3 DEF FormatRoot
  <2> HIDE DEF two
  <2>3. tables'[two] = t /\ OneKind' /\ \A d \in DiskCluster \ {two} : tables'[d] = tables[d]
    BY <2>1, <2>2, TableWritten DEF FilesHeld, Held
  <2>4. \A s \in Slot : ~NamesOther(t, two, s)
    BY <2>1, NewTableFacts
  <2> HIDE DEF t
  <2>5. \A c \in DiskCluster, s \in Slot : ~Live(c, s)
    BY <2>2 DEF Sound, OnDisk, NothingYet
  <2>6. \A c \in DiskCluster, s \in Slot : ~Live(c, s)'
    BY <2>3, <2>4, <2>5 DEF Live, NamesOther
  <2>7. \A c \in Cluster : owner'[c] = Nobody
    BY <2>2, <2>5 DEF FilesHeld, Held, OwnedLive, OfLive, Busy, Writing
  <2>8. Held'
    BY <2>3, <2>6, <2>7, SmallNumbers DEF Held, FreeVacant, Vacant, OwnedLive, OneFile,
       PartsLinked, HeadsStart
  <2> QED BY <2>2, <2>8, NothingInHand DEF FilesHeld, Writing
<1> QED BY <1>1, <1>2, <1>3 DEF Boot

(* What the call had in hand is nobody's. *)
LEMMA FilesCrash == ASSUME TypeOK, Sound, FilesHeld, Crash PROVE FilesHeld'
<1>1. pc' = "off" /\ UNCHANGED <<diskFat, tables, blocks>>
  BY DEF Crash
<1>2. CASE owner' = owner /\ pc \notin Writing \cup {"walk"}
  BY <1>1, <1>2, FilesQuiet DEF Writing
<1>3. CASE owner' = Disown(MyPlace) /\ pc \in Writing \cup Deleting
  <2>1. \A c \in Cluster : owner'[c] = IF owner[c] = MyPlace THEN Nobody ELSE owner[c]
    BY <1>3 DEF Disown
  <2>2. ~OfLive(MyPlace)
    BY <1>3, OthersPlace
  <2>3. OneKind' /\ FreeVacant'
    BY <1>1 DEF FilesHeld, Held, OneKind, FreeVacant, Vacant, Live
  <2>4. OwnedLive'
    <3>1. \A c \in Cluster : owner'[c] # Nobody => OfLive(owner[c]) /\ owner'[c] = owner[c]
      BY <2>1 DEF FilesHeld, Held, OwnedLive
    <3> QED BY <1>1, <3>1 DEF OwnedLive, OfLive, Live
  <2>5. \A c \in Cluster : owner'[c] # Nobody => owner[c] # MyPlace /\ ~Unlinked(c)
    <3>1. OpenEnd \/ pc = "mkdir_table" => owner[cluster] = MyPlace
      BY DEF Sound, InCall, FileGoesOn, MkdirInFlight, Mine
    <3> QED BY <2>1, <3>1 DEF Unlinked
  <2>6. OneFile' /\ PartsLinked'
    BY <1>1, <2>1, <2>5, ChainsStay DEF FilesHeld, Held
  <2>7. HeadsStart'
    BY <1>1 DEF FilesHeld, Held, HeadsStart, Live, Starts, Covers
  <2> QED BY <1>1, <2>3, <2>4, <2>6, <2>7, NothingInHand DEF FilesHeld, Held, Writing
<1> QED BY <1>2, <1>3, SentinelAssumption DEF Crash, TypeOK, Steps, Writing, Deleting

-----------------------------------------------------------------------------
(* The calls that make a folder *)

LEMMA FilesMkdirFat ==
  ASSUME TypeOK, Sound, FilesHeld, ~wild', NEW r \in Request, DirectoryAt(r.parent), MkdirFat(r, tables[r.parent])
  PROVE  FilesHeld'
<1>1. PICK c \in DiskCluster, s \in Slot \cup {ENTRY_COUNT} :
        /\ FoundFree(diskFat, 0, c) /\ FoundSlot(tables[r.parent], s)
        /\ fat_table' = SetWord(diskFat, c, FAT32_FAT_END_OF_FILE)
        /\ \E u \in TablesAfter(tables[r.parent], c) : Enter("mkdir_table", r, u, s, c)
        /\ owner' = Own(c, <<r.parent, s>>)
        /\ wild' = (wild \/ c \notin Cluster \/ s = ENTRY_COUNT)
  BY DEF MkdirFat
<1> DEFINE p == <<r.parent, s>>
<1>2. c \in Cluster /\ s \in Slot /\ diskFat[c] = 0 /\ r.parent \in DiskCluster
  BY <1>1, FreeWord, ParentFolder DEF Sound, OnDisk
<1>3. /\ pc = "idle" /\ pc' = "mkdir_table" /\ request' = r /\ slot' = s /\ cluster' = c
      /\ UNCHANGED <<tables, blocks>> /\ MyPlace' = p
  BY <1>1 DEF MkdirFat, Enter, MyPlace
<1>4. /\ \A d \in Cluster : owner'[d] = IF d = c THEN p ELSE owner[d]
      /\ \A d \in Cluster \ {c} : diskFat'[d] = diskFat[d]
      /\ diskFat'[c] # 0 /\ owner[c] = Nobody
  <2>1. diskFat' = fat_table'
    BY DEF MkdirFat
  <2>2. owner[c] = Nobody
    BY <1>2, <1>3, ZeroIsFree DEF Sound, OnDisk, OpenEnd
  <2> QED BY <1>1, <1>2, <2>1, <2>2, SmallNumbers DEF Own, SetWord
<1>5. ~Live(r.parent, s)
  BY <1>1, <1>2 DEF FoundSlot, Live
<1>6. \A d \in Cluster : owner[d] # p
  BY <1>2, <1>3, <1>5, FreePlace DEF FilesHeld, Held, Busy, Writing
<1> HIDE DEF p
<1>7. Vacant(c) /\ Vacant(c)'
  BY <1>2, <1>3 DEF FilesHeld, Held, FreeVacant, Vacant, Live
<1>8. OneKind' /\ FreeVacant' /\ HeadsStart'
  BY <1>2, <1>3, <1>4 DEF FilesHeld, Held, OneKind, FreeVacant, Vacant, Live, HeadsStart, Starts, Covers
<1>9. OwnedLive'
  BY <1>3, <1>4 DEF FilesHeld, Held, OwnedLive, OfLive, Live, Busy, Writing
<1>10. OneFile'
  BY <1>3, <1>4, <1>6 DEF FilesHeld, Held, OneFile, PartsOfOne
<1>11. PartsLinked'
  <2> SUFFICES ASSUME NEW d \in Cluster, owner'[d] # Nobody, blocks'[d] # NoBlock, ~Unlinked(d)'
               PROVE  LinkedOn(d)'
    BY DEF PartsLinked
  <2>1. d # c
    BY <1>3 DEF Unlinked
  <2>2. owner'[d] = owner[d] /\ diskFat'[d] = diskFat[d] /\ LinkedOn(d) /\ owner[d] # Nobody
    BY <1>3, <1>4, <2>1 DEF FilesHeld, Held, PartsLinked, Unlinked, OpenEnd
  <2>3. NextPart(d) => NextPart(d)'
    BY <1>3, <1>4, <2>2 DEF NextPart
  <2> QED BY <1>3, <2>2, <2>3 DEF LinkedOn
<1>12. FolderEmpty' /\ FolderOne'
  BY <1>3, <1>4, <1>6, <1>7 DEF FolderEmpty, FolderOne, Mine, Vacant
<1>13. PartsWritten' /\ SizeReaches' /\ NameFree' /\ WalkParts'
  BY <1>3 DEF PartsWritten, SizeReaches, NameFree, WalkParts, InFile
<1> QED BY <1>8, <1>9, <1>10, <1>11, <1>12, <1>13 DEF FilesHeld, Held, InHand

LEMMA FilesMkdirTable == ASSUME TypeOK, Sound, FilesHeld, MkdirTable PROVE FilesHeld' /\ EntriesStay
<1> DEFINE t == NewTable(request.name, cluster)
<1>1. /\ pc = "mkdir_table" /\ pc' = "mkdir_entry" /\ WriteTable(cluster, t)
      /\ UNCHANGED <<diskFat, request, cluster, slot, owner>>
  BY DEF MkdirTable
<1>2. /\ cluster \in Cluster \ {0} /\ cluster \in DiskCluster
      /\ owner[cluster] = MyPlace /\ MyPlace # Nobody
  BY <1>1, BusyTypes, SentinelAssumption, SmallNumbers
     DEF Sound, InCall, MkdirInFlight, Mine, OnDisk, ChainsOwned, Steps
<1>3. /\ tables'[cluster] = t /\ blocks'[cluster] = NoBlock /\ OneKind'
      /\ \A d \in DiskCluster \ {cluster} : tables'[d] = tables[d] /\ blocks'[d] = blocks[d]
  BY <1>1, <1>2, TableWritten DEF FilesHeld, Held
<1>4. \A s \in Slot : ~NamesOther(t, cluster, s)
  BY <1>2, NewTableFacts
<1> HIDE DEF t
<1>5. /\ Vacant(cluster) /\ Vacant(cluster)'
      /\ \A d \in DiskCluster, s \in Slot : Live(d, s)' <=> Live(d, s)
      /\ \A d \in DiskCluster, s \in Slot : Live(d, s) => tables'[d] = tables[d]
  <2>1. Vacant(cluster)
    BY <1>1 DEF FilesHeld, InHand, FolderEmpty, InMkdir
  <2>2. \A s \in Slot : ~Live(cluster, s)'
    BY <1>1, <1>2, <1>3, <1>4 DEF Live, NamesOther
  <2>3. \A d \in DiskCluster \ {cluster}, s \in Slot : Live(d, s)' <=> Live(d, s)
    BY <1>3 DEF Live
  <2> QED BY <1>1, <1>3, <2>1, <2>2, <2>3 DEF Vacant
<1>6. ~OfLive(MyPlace) /\ MyPlace' = MyPlace
  BY <1>1, OthersPlace DEF Writing, MyPlace
<1>7. FreeVacant'
  BY <1>1, <1>5, SmallNumbers DEF FilesHeld, Held, FreeVacant, Vacant
<1>8. OwnedLive'
  BY <1>1, <1>5, <1>6 DEF FilesHeld, Held, OwnedLive, OfLive, Busy, Writing
<1>9. \A c \in Cluster : c # cluster => owner[c] # MyPlace /\ blocks'[c] = blocks[c]
  BY <1>1, <1>3, SmallNumbers DEF FilesHeld, InHand, FolderOne, InMkdir, Mine
<1>10. OneFile'
  BY <1>1, <1>2, <1>9 DEF FilesHeld, Held, OneFile, PartsOfOne
<1>11. PartsLinked'
  <2> SUFFICES ASSUME NEW c \in Cluster, owner[c] # Nobody, blocks'[c] # NoBlock
               PROVE  LinkedOn(c)'
    BY <1>1 DEF PartsLinked
  <2>1. c # cluster /\ blocks'[c] = blocks[c] /\ owner[c] # MyPlace /\ LinkedOn(c)
    BY <1>3, <1>9 DEF FilesHeld, Held, PartsLinked, Unlinked
  <2>2. NextPart(c) => NextPart(c)'
    BY <1>1, <1>2, <1>9, <2>1 DEF NextPart
  <2> QED BY <1>1, <2>1, <2>2 DEF LinkedOn
<1>12. HeadsStart' /\ EntriesStay
  <2>1. \A d \in Cluster : OfLive(owner[d]) => blocks'[d] = blocks[d]
    BY <1>2, <1>6, <1>9
  <2> QED BY <1>5, <2>1, HeadsStay DEF FilesHeld, Held, EntriesStay
<1>13. FolderEmpty' /\ FolderOne'
  BY <1>1, <1>5, <1>6 DEF FilesHeld, InHand, FolderEmpty, FolderOne, InMkdir, Mine, Vacant
<1>14. PartsWritten' /\ SizeReaches' /\ NameFree' /\ WalkParts'
  BY <1>1 DEF PartsWritten, SizeReaches, NameFree, WalkParts, InFile
<1> QED BY <1>3, <1>7, <1>8, <1>10, <1>11, <1>12, <1>13, <1>14 DEF FilesHeld, Held, InHand

(* The last step of a write: one entry of the parent's table appears, and   *)
(* what it names is its own.                                                *)
LEMMA FilesEntry ==
  ASSUME TypeOK, FatCoherent, Sound, Folders, FilesHeld, pc \in {"mkdir_entry", "file_entry"},
         NEW c, c = request.parent, NEW k, k = slot,
         NEW t, t # NoTable, WriteTable(c, t),
         \A s \in Slot \ {k} : t[s] = dir_table_buf[s],
         t[k].used, t[k].attribute => t[k].cluster # c,
         ~t[k].attribute => Starts(blocks, t[k]),
         pc' = "return", UNCHANGED <<diskFat, owner>>
  PROVE  FilesHeld' /\ Appears(c, k, t[k])
<1>1. /\ c \in DiskCluster /\ c \in Cluster /\ k \in Slot /\ tables[c] # NoTable
      /\ ~tables[c][k].used
      /\ \A s \in Slot \ {k} : dir_table_buf[s] = tables[c][s]
  BY WriteFacts DEF Writing
<1>2. /\ tables'[c] = t /\ OneKind'
      /\ \A d \in DiskCluster \ {c} : tables'[d] = tables[d]
  BY <1>1, TableWritten DEF FilesHeld, Held
<1>3. blocks' = blocks
  BY <1>1, TableOverTable DEF FilesHeld, Held
<1>4. MyPlace = <<c, k>>
  BY DEF MyPlace
<1>5. diskFat[c] # 0
  BY DEF Folders, LoadedFrom, Writing, FatCoherent
<1>6. Live(c, k)'
  BY <1>1, <1>2 DEF Live
<1>7. ASSUME NEW d \in DiskCluster, NEW s \in Slot, <<d, s>> # <<c, k>>
      PROVE  /\ Live(d, s)' <=> Live(d, s)
             /\ Live(d, s) => tables'[d][s] = tables[d][s]
  <2>1. CASE d # c
    BY <1>2, <2>1 DEF Live
  <2>2. CASE d = c
    <3>1. s # k /\ t[s] = tables[c][s]
      BY <1>1, <1>4, <1>7, <2>2
    <3>2. s = 0 => t[0] = tables[c][0]
      BY <3>1
    <3> QED BY <1>1, <1>2, <2>2, <3>1, <3>2 DEF Live
  <2> QED BY <2>1, <2>2
<1>8. FreeVacant'
  <2> SUFFICES ASSUME NEW d \in Cluster, diskFat[d] = 0, NEW s \in Slot PROVE ~Live(d, s)'
    BY DEF FreeVacant, Vacant
  <2>1. d # c /\ d \in DiskCluster
    BY <1>5, SmallNumbers
  <2> QED BY <1>2, <2>1 DEF FilesHeld, Held, FreeVacant, Vacant, Live
<1>9. OwnedLive'
  <2>1. \A p : OfLive(p) \/ p = MyPlace => OfLive(p)'
    BY <1>1, <1>4, <1>6, <1>7 DEF OfLive
  <2> QED BY <2>1 DEF FilesHeld, Held, OwnedLive
<1>10. OneFile' /\ PartsLinked'
  BY <1>3, ChainsStay DEF FilesHeld, Held, Unlinked, OpenEnd
<1>11. HeadsStart'
  <2>1. Live(c, k)' /\ ~tables'[c][k].attribute => Starts(blocks', tables'[c][k])
    BY <1>2, <1>3
  <2>2. ASSUME NEW d \in DiskCluster, NEW s \in Slot, Live(d, s)', ~tables'[d][s].attribute
        PROVE  \/ Live(d, s) /\ tables'[d][s] = tables[d][s]
               \/ Starts(blocks', tables'[d][s])
    <3>1. CASE <<d, s>> = <<c, k>>
      BY <1>4, <2>1, <2>2, <3>1
    <3>2. CASE <<d, s>> # <<c, k>>
      BY <1>7, <2>2, <3>2
    <3> QED BY <3>1, <3>2
  <2> QED BY <1>3, <2>2, HeadsStay DEF FilesHeld, Held
<1>12. FilesHeld'
  BY <1>2, <1>8, <1>9, <1>10, <1>11, NothingInHand DEF FilesHeld, Held, Writing
<1>13. ~Live(c, k)
  BY <1>1 DEF Live
<1> QED BY <1>1, <1>2, <1>3, <1>6, <1>7, <1>12, <1>13 DEF Appears, OtherEntriesStay

LEMMA FilesMkdirEntry ==
  ASSUME TypeOK, FatCoherent, Sound, Folders, FilesHeld, MkdirEntry
  PROVE  /\ FilesHeld'
         /\ \E c, k, e : /\ c = request.parent /\ k = slot /\ e = SelfEntry(request.name, cluster)
                        /\ Appears(c, k, e)
<1> DEFINE e == SelfEntry(request.name, cluster)
           t == PutEntry(dir_table_buf, slot, e)
<1>1. pc = "mkdir_entry" /\ pc' = "return" /\ WriteTable(request.parent, t) /\ UNCHANGED <<diskFat, owner>>
  BY DEF MkdirEntry, Return
<1>2. /\ slot \in Slot /\ dir_table_buf \in Table /\ request.name \in Names /\ cluster \in DiskCluster
      /\ cluster # request.parent
  BY <1>1, WriteFacts, BusyTypes DEF Writing, Steps, Request, TypeOK, Folders, LoadedFrom, InMkdir
<1>3. e.used /\ e.attribute /\ e.cluster = cluster
  BY DEF SelfEntry, EmptyEntry
<1>4. t # NoTable
  BY <1>2, TableTypes, SentinelAssumption
<1>5. \A s \in Slot : t[s] = IF s = slot THEN e ELSE dir_table_buf[s]
  BY DEF PutEntry
<1> HIDE DEF e, t
<1>6. PICK c, k, u : c = request.parent /\ k = slot /\ u = t
  OBVIOUS
<1>7. FilesHeld' /\ Appears(c, k, u[k])
  BY <1>1, <1>2, <1>3, <1>4, <1>5, <1>6, FilesEntry
<1>8. u[k] = e
  BY <1>2, <1>5, <1>6
<1> QED BY <1>6, <1>7, <1>8 DEF e

-----------------------------------------------------------------------------
(* The calls that write a file *)

LEMMA FilesFileEntry ==
  ASSUME TypeOK, FatCoherent, Sound, Folders, FilesHeld, FileEntry
  PROVE  /\ FilesHeld'
         /\ \E c, k, e : /\ c = request.parent /\ k = slot /\ e = dir_table_buf[slot]
                        /\ Appears(c, k, e)
<1> DEFINE t == dir_table_buf
<1>1. pc = "file_entry" /\ pc' = "return" /\ WriteTable(request.parent, t) /\ UNCHANGED <<diskFat, owner>>
  BY DEF FileEntry, Return
<1>2. /\ slot \in Slot /\ t # NoTable /\ t[slot].used /\ ~t[slot].attribute
      /\ i \in Nat /\ TotalCluster \in Nat
  BY <1>1, WriteFacts, BusyTypes, SentinelAssumption
     DEF Writing, Folders, LoadedFrom, InMkdir, FilesHeld, InHand, NameFree, InFile, Steps, TypeOK
<1>3. Starts(blocks, t[slot])
  <2>1. Turns = TotalCluster /\ Covers(t[slot].filesize, TotalCluster) /\ Mine(FirstCluster)
    BY <1>1, <1>2 DEF FilesHeld, InHand, SizeReaches, InFile, Sound, InCall, FileGoesOn
  <2>2. /\ blocks[FirstCluster] # NoBlock /\ blocks[FirstCluster].of = TotalCluster
        /\ blocks[FirstCluster].part < TotalCluster /\ FirstCluster \in DiskCluster
    BY <1>1, <2>1, SmallNumbers DEF FilesHeld, InHand, PartsWritten, InFile, Mine
  <2>3. TotalCluster > 0
    <3>1. blocks[FirstCluster].part \in Nat
      BY <2>2, BlockTypes
    <3> QED BY <1>2, <2>2, <3>1
  <2> QED BY <1>1, <2>1, <2>2, <2>3 DEF FilesHeld, InHand, PartsWritten, InFile, Starts, FirstCluster
<1> HIDE DEF t
<1>4. PICK c, k, u : c = request.parent /\ k = slot /\ u = t
  OBVIOUS
<1>5. u = dir_table_buf
  BY <1>4 DEF t
<1>6. FilesHeld' /\ Appears(c, k, u[k])
  BY <1>1, <1>2, <1>3, <1>4, <1>5, FilesEntry
<1> QED BY <1>4, <1>5, <1>6

LEMMA FilesStartWriteFile ==
  ASSUME TypeOK, Sound, FilesHeld, ~wild', NEW r \in Request, DirectoryAt(r.parent),
         StartWriteFile(r, tables[r.parent])
  PROVE  FilesHeld'
<1> DEFINE t == tables[r.parent]
<1> DEFINE Filled(c, s) == [name |-> r.name, ext |-> r.ext, attribute |-> FALSE, used |-> TRUE,
                            cluster |-> c, filesize |-> t[s].filesize]
<1>1. PICK c \in DiskCluster, s \in Slot \cup {ENTRY_COUNT} :
        /\ FoundSlot(t, s)
        /\ Enter("file_data", r, PutEntry(t, s, Filled(c, s)), s, c)
        /\ wild' = (wild \/ c \notin Cluster \/ s = ENTRY_COUNT)
  BY DEF StartWriteFile
<1> DEFINE e == Filled(c, s)
<1>2. /\ s \in Slot /\ ~t[s].used /\ t \in Table /\ r.parent \in DiskCluster
      /\ SameFile(t, r) = {} /\ r.size # 0 /\ r.size \in Nat
  BY <1>1, ParentFolder DEF FoundSlot, StartWriteFile, NameTaken, Sound, OnDisk, Request
<1>3. /\ pc = "idle" /\ pc' = "file_data" /\ request' = r /\ slot' = s /\ i' = 0
      /\ dir_table_buf' = PutEntry(t, s, e)
      /\ UNCHANGED <<diskFat, tables, blocks, owner>> /\ MyPlace' = <<r.parent, s>>
  BY <1>1 DEF StartWriteFile, Enter, MyPlace
<1>4. e.name = r.name /\ e.ext = r.ext /\ e.used /\ e.filesize \in Nat
  BY <1>2 DEF Table, Entry
<1> HIDE DEF e
<1>5. \A x \in Slot : dir_table_buf'[x] = IF x = s THEN e ELSE t[x]
  BY <1>3 DEF PutEntry
<1>6. ~Live(r.parent, s)
  BY <1>2 DEF Live
<1>7. \A d \in Cluster : owner[d] # <<r.parent, s>>
  BY <1>2, <1>3, <1>6, FreePlace DEF FilesHeld, Held, Busy, Writing
<1>8. OneKind' /\ FreeVacant' /\ HeadsStart'
  BY <1>3 DEF FilesHeld, Held, OneKind, FreeVacant, Vacant, Live, HeadsStart, Starts, Covers
<1>9. OwnedLive'
  BY <1>3 DEF FilesHeld, Held, OwnedLive, OfLive, Live, Busy, Writing
<1>10. OneFile' /\ PartsLinked'
  BY <1>3, ChainsStay DEF FilesHeld, Held, Unlinked, OpenEnd
<1>11. TotalCluster' > 0 /\ TotalCluster' \in Nat
  <2>1. TotalCluster' = DivCeil(r.size, CLUSTER_SIZE)
    BY <1>3 DEF TotalCluster
  <2>2. DivCeil(r.size, CLUSTER_SIZE) \in Nat
    BY <1>2, SizeAssumption DEF DivCeil
  <2> QED BY <1>2, <2>1, <2>2, AtLeastOne, SizeAssumption
<1>12. PartsWritten'
  BY <1>3, <1>7 DEF PartsWritten, Mine, OpenEnd, Turns
<1>13. SizeReaches'
  <2>1. CLUSTER_SIZE * 0 = 0
    BY SizeAssumption
  <2> QED BY <1>2, <1>3, <1>4, <1>5, <1>11, <2>1 DEF SizeReaches, Turns
<1>14. NameFree'
  <2>1. \A x \in Slot : t[x].name # r.name \/ t[x].ext # r.ext
    BY <1>2 DEF SameFile
  <2> QED BY <1>2, <1>3, <1>4, <1>5, <2>1 DEF NameFree
<1>15. FolderEmpty' /\ FolderOne' /\ WalkParts'
  BY <1>3 DEF FolderEmpty, FolderOne, WalkParts, InMkdir
<1> QED BY <1>8, <1>9, <1>10, <1>12, <1>13, <1>14, <1>15 DEF FilesHeld, Held, InHand

(* The parts of a file of a bytes reach its end, and not before the last.   *)
LEMMA LastPartReaches ==
  ASSUME NEW a \in Nat \ {0}, NEW b \in Nat \ {0}
  PROVE  b * (DivCeil(a, b) - 1) < a
<1> DEFINE q == a \div b
           m == a % b
<1>1. q \in Nat /\ m \in Nat /\ a = b * q + m
  BY SMT
<1>2. DivCeil(a, b) = IF m = 0 THEN q ELSE q + 1
  BY DEF DivCeil
<1> HIDE DEF q, m
<1>3. b * (q - 1) = b * q - b
  BY <1>1
<1>4. CASE m = 0
  BY <1>1, <1>2, <1>3, <1>4
<1>5. CASE m # 0
  <2>1. DivCeil(a, b) - 1 = q
    BY <1>1, <1>2, <1>5
  <2>2. b * q \in Nat
    BY <1>1
  <2> QED BY <1>1, <1>5, <2>1, <2>2
<1> QED BY <1>4, <1>5

(* As many clusters as a size asks for reach every part it covers. *)
LEMMA CoveredParts ==
  ASSUME NEW size \in Nat, NEW of \in Nat, Covers(size, of)
  PROVE  of <= DivCeil(size, CLUSTER_SIZE)
<1> DEFINE b == CLUSTER_SIZE
           q == size \div b
           m == size % b
<1>1. b \in Nat \ {0}
  BY SizeAssumption
<1>2. b * (of - 1) < size
  BY DEF Covers
<1> HIDE DEF b
<1>3. q \in Nat /\ m \in Nat /\ size = b * q + m /\ m < b
  BY <1>1, SMT
<1>4. DivCeil(size, b) = IF m = 0 THEN q ELSE q + 1
  BY DEF DivCeil
<1> HIDE DEF q, m
<1>5. \A x \in Nat : x >= q => b * x >= b * q
  BY <1>1, <1>3
<1>6. b * (q + 1) = b * q + b
  BY <1>1, <1>3
<1>7. \A x \in Nat : x >= q + 1 => b * x >= b * (q + 1)
  BY <1>1, <1>3
<1>8. CASE m = 0 /\ of > q
  <2>1. of - 1 \in Nat /\ of - 1 >= q
    BY <1>3, <1>8
  <2>2. b * (of - 1) >= b * q /\ b * q \in Nat /\ b * (of - 1) \in Nat
    BY <1>1, <1>3, <1>5, <2>1
  <2> QED BY <1>1, <1>2, <1>3, <1>8, <2>2
<1>9. CASE m # 0 /\ of > q + 1
  <2>1. of - 1 \in Nat /\ of - 1 >= q + 1
    BY <1>3, <1>9
  <2>2. b * (of - 1) >= b * q + b /\ b * q \in Nat /\ b * (of - 1) \in Nat
    BY <1>1, <1>3, <1>6, <1>7, <2>1
  <2> QED BY <1>1, <1>2, <1>3, <2>2
<1> QED BY <1>3, <1>4, <1>8, <1>9 DEF b

(* The free cluster that takes a part is the one the part before it is      *)
(* linked to, or the one the entry names; nothing was in it, and it was     *)
(* nobody's.                                                                *)
LEMMA FilesFileData ==
  ASSUME TypeOK, FatCoherent, Sound, Folders, FilesHeld, ~wild', FileData
  PROVE  FilesHeld' /\ EntriesStay
<1> DEFINE t == dir_table_buf
           last == i = TotalCluster - 1
           grow == IF last THEN request.size - CLUSTER_SIZE * i ELSE CLUSTER_SIZE
           grown == [s \in Slot |-> IF s = slot THEN [t[s] EXCEPT !.filesize = @ + grow] ELSE t[s]]
           b == [data |-> request.data, part |-> i, of |-> TotalCluster]
<1>1. PICK c \in DiskCluster, n \in DiskCluster \cup {FAT32_FAT_END_OF_FILE} :
        /\ FoundFree(fat_table, 0, c)
        /\ fat_table' = SetWord(fat_table, c, n)
        /\ dir_table_buf' \in TablesAfter(grown, c)
        /\ WriteBlock(c, b)
        /\ cluster' = c
        /\ owner' = Own(c, MyPlace)
        /\ wild' = (wild \/ c \notin Cluster)
  BY DEF FileData
<1>2. /\ c \in Cluster /\ c \in DiskCluster /\ dir_table_buf' = grown
      /\ fat_table[c] = 0 /\ cluster' = c
  BY <1>1, FreeWord DEF TablesAfter
<1>3. /\ pc = "file_data" /\ pc' = "file_fat" /\ i \in Nat
      /\ UNCHANGED <<diskFat, request, slot, i>>
      /\ MyPlace' = MyPlace /\ TotalCluster' = TotalCluster
  BY DEF FileData, MyPlace, TotalCluster, TypeOK
<1>4. /\ slot \in Slot /\ t \in Table /\ request \in Request /\ TotalCluster \in Nat
      /\ MyPlace # Nobody /\ ~OfLive(MyPlace)
  BY <1>3, WriteFacts, BusyTypes, OthersPlace, SentinelAssumption DEF Writing, Steps
<1>5. /\ grown[slot].filesize = t[slot].filesize + grow /\ grown[slot].cluster = t[slot].cluster
      /\ t[slot].filesize \in Nat
      /\ \A s \in Slot : /\ grown[s].used = t[s].used /\ grown[s].name = t[s].name
                         /\ grown[s].ext = t[s].ext
  BY <1>4 DEF Table, Entry
<1>6. b # NoBlock /\ b.data = request.data /\ b.part = i /\ b.of = TotalCluster
  <2>1. request.data \in Payloads
    BY <1>3 DEF TypeOK
  <2> QED BY <1>3, <1>4, <2>1, SentinelAssumption DEF Block
<1> HIDE DEF grown, b
<1>7. fat_table = diskFat /\ diskFat[c] = 0 /\ diskFat[0] # 0 /\ i < TotalCluster
  BY <1>2, <1>3 DEF FatCoherent, Sound, InCall, FileGoesOn
<1>8. c # 0 /\ owner[c] = Nobody
  <2>1. ~(OpenEnd /\ c = cluster)
    BY <1>2, <1>7 DEF Sound, InCall, FileGoesOn
  <2> QED BY <1>2, <1>7, <2>1 DEF Sound, OnDisk, ChainsOwned
<1>9. /\ tables'[c] = NoTable /\ blocks'[c] = b /\ OneKind'
      /\ \A d \in DiskCluster \ {c} : tables'[d] = tables[d] /\ blocks'[d] = blocks[d]
  BY <1>1, <1>2, BlockWritten DEF FilesHeld, Held
<1>10. /\ \A d \in Cluster : owner'[d] = IF d = c THEN MyPlace ELSE owner[d]
       /\ \A d \in Cluster : owner[d] # Nobody => d # c /\ owner'[d] = owner[d] /\ blocks'[d] = blocks[d]
  BY <1>1, <1>8, <1>9, SmallNumbers DEF Own
<1>11. /\ \A d \in DiskCluster, s \in Slot : Live(d, s)' <=> Live(d, s)
       /\ \A d \in DiskCluster, s \in Slot : Live(d, s) => tables'[d] = tables[d]
  <2>1. Vacant(c)
    BY <1>2, <1>7 DEF FilesHeld, Held, FreeVacant
  <2> QED BY <1>2, <1>9, <2>1 DEF Live, Vacant
<1>12. \A d \in Cluster : owner[d] = MyPlace =>
         /\ blocks[d] # NoBlock /\ blocks[d].data = request.data
         /\ blocks[d].of = TotalCluster /\ blocks[d].part < i /\ blocks[d].part \in Nat
  <2> SUFFICES ASSUME NEW d \in Cluster, Mine(d)
               PROVE  /\ blocks[d] # NoBlock /\ blocks[d].data = request.data
                      /\ blocks[d].of = TotalCluster /\ blocks[d].part < i /\ blocks[d].part \in Nat
    BY DEF Mine
  <2>1. /\ blocks[d] # NoBlock /\ blocks[d].data = request.data
        /\ blocks[d].of = TotalCluster /\ blocks[d].part < i
    BY <1>3 DEF FilesHeld, InHand, PartsWritten, InFile, Turns
  <2> QED BY <2>1, BlockTypes, SmallNumbers
<1>13. \/ i = 0 /\ c = FirstCluster
       \/ i > 0 /\ Mine(FirstCluster) /\ Mine(cluster) /\ c = diskFat[cluster]
  <2>1. CASE i = 0
    BY <1>1, <1>2, <1>3, <2>1, FirstFreeUnique DEF Sound, InCall, FileStarts
  <2>2. CASE i > 0
    <3>1. Mine(FirstCluster) /\ FoundFree(fat_table, 0, fat_table[cluster]) /\ Mine(cluster)
      BY <1>3, <2>2 DEF Sound, InCall, FileGoesOn, OpenEnd
    <3> QED BY <1>1, <1>2, <1>7, <2>2, <3>1, FirstFreeUnique
  <2> QED BY <1>3, <2>1, <2>2
<1>14. FreeVacant' /\ HeadsStart' /\ EntriesStay
  <2>1. FreeVacant'
    BY <1>3, <1>11, SmallNumbers DEF FilesHeld, Held, FreeVacant, Vacant
  <2>2. \A d \in Cluster : OfLive(owner[d]) => blocks'[d] = blocks[d]
    BY <1>10, PlacesOwn DEF OfLive
  <2> QED BY <1>11, <2>1, <2>2, HeadsStay DEF FilesHeld, Held, EntriesStay
<1>15. OwnedLive'
  BY <1>3, <1>10, <1>11 DEF FilesHeld, Held, OwnedLive, OfLive, Busy, Writing
<1>16. OneFile'
  <2> SUFFICES ASSUME NEW d \in Cluster, NEW e \in Cluster, owner'[d] # Nobody, owner'[e] = owner'[d], d # e
               PROVE  PartsOfOne(blocks'[d], blocks'[e])
    BY DEF OneFile, PartsOfOne
  <2>1. CASE d # c /\ e # c
    BY <1>10, <2>1 DEF FilesHeld, Held, OneFile
  <2>2. \A x \in Cluster : x # c /\ owner'[x] = MyPlace =>
          /\ blocks'[x] = blocks[x] /\ blocks[x] # NoBlock /\ blocks[x].data = request.data
          /\ blocks[x].of = TotalCluster /\ blocks[x].part # i
    BY <1>3, <1>9, <1>10, <1>12, SmallNumbers
  <2>3. owner'[c] = MyPlace
    BY <1>2, <1>10
  <2>4. CASE d = c
    BY <1>6, <1>9, <2>2, <2>3, <2>4 DEF PartsOfOne
  <2>5. CASE e = c
    BY <1>6, <1>9, <2>2, <2>3, <2>5 DEF PartsOfOne
  <2> QED BY <2>1, <2>4, <2>5
<1>17. PartsLinked'
  <2> SUFFICES ASSUME NEW d \in Cluster, owner'[d] # Nobody, blocks'[d] # NoBlock, d # c
               PROVE  LinkedOn(d)'
    BY <1>2, <1>3 DEF PartsLinked, Unlinked, OpenEnd
  <2>1. owner'[d] = owner[d] /\ owner[d] # Nobody /\ blocks'[d] = blocks[d] /\ diskFat'[d] = diskFat[d]
    BY <1>3, <1>10
  <2>2. CASE OpenEnd /\ d = cluster
    <3>1. i > 0 /\ owner[d] = MyPlace /\ c = diskFat[d]
      BY <1>3, <1>13, <2>2 DEF OpenEnd, Mine
    <3>2. blocks[d].part = i - 1 /\ blocks[d].of = TotalCluster
      BY <1>3, <1>12, <2>2, <3>1 DEF FilesHeld, InHand, PartsWritten, InFile, Turns
    <3>3. blocks'[c].part = blocks'[d].part + 1 /\ blocks'[d].part < blocks'[d].of - 1
      BY <1>3, <1>4, <1>6, <1>7, <1>9, <2>1, <3>2
    <3>4. NextPart(d)'
      BY <1>2, <1>6, <1>9, <1>10, <2>1, <3>1, <3>3 DEF NextPart
    <3> QED BY <1>3, <1>4, <2>1, <3>2, <3>3, <3>4 DEF LinkedOn
  <2>3. CASE ~(OpenEnd /\ d = cluster)
    <3>1. LinkedOn(d)
      BY <1>3, <2>1, <2>3 DEF FilesHeld, Held, PartsLinked, Unlinked
    <3>2. NextPart(d) => NextPart(d)'
      BY <1>10, <2>1 DEF NextPart
    <3> QED BY <2>1, <3>1, <3>2 DEF LinkedOn
  <2> QED BY <2>2, <2>3
<1>18. PartsWritten'
  <2>1. Turns' = i + 1 /\ InFile'
    BY <1>3 DEF Turns, InFile
  <2>2. \A d \in Cluster : owner'[d] = MyPlace =>
          /\ blocks'[d] # NoBlock /\ blocks'[d].data = request.data
          /\ blocks'[d].of = TotalCluster /\ blocks'[d].part < i + 1
    BY <1>3, <1>6, <1>9, <1>10, <1>12, SmallNumbers
  <2>3. FirstCluster' = FirstCluster
    BY <1>2, <1>3, <1>5 DEF FirstCluster
  <2>4. Mine(FirstCluster)' /\ blocks'[FirstCluster].part = 0
    <3>1. CASE i = 0 /\ c = FirstCluster
      BY <1>2, <1>3, <1>6, <1>9, <1>10, <2>3, <3>1 DEF Mine
    <3>2. CASE i > 0 /\ Mine(FirstCluster)
      <4>1. blocks[FirstCluster].part = 0
        BY <1>3, <3>2 DEF FilesHeld, InHand, PartsWritten, InFile, Turns
      <4> QED BY <1>3, <1>4, <1>10, <2>3, <3>2, <4>1 DEF Mine
    <3> QED BY <1>13, <3>1, <3>2
  <2>5. blocks'[cluster'].part = i
    BY <1>2, <1>6, <1>9
  <2> QED BY <1>3, <2>1, <2>2, <2>3, <2>4, <2>5 DEF PartsWritten, Mine
<1>19. SizeReaches'
  <2> DEFINE size == t[slot].filesize
             N == CLUSTER_SIZE
  <2>1. Turns' = i + 1 /\ dir_table_buf'[slot'].filesize = size + grow /\ pc' # "file_entry"
    BY <1>2, <1>3, <1>5 DEF Turns
  <2>2. N \in Nat \ {0} /\ size \in Nat /\ request.size \in Nat /\ N * i \in Nat /\ N * (i + 1) = N * i + N
    BY <1>3, <1>4, <1>5, SizeAssumption DEF Request
  <2>3. N * i <= size
    BY <1>3, <1>7 DEF FilesHeld, InHand, SizeReaches, InFile, Turns
  <2>4. CASE last
    <3>1. N * (TotalCluster - 1) < request.size
      <4>1. request.size # 0
        <5>1. 0 % N = 0 /\ 0 \div N = 0
          BY <2>2
        <5>2. request.size = 0 => TotalCluster = 0
          BY <5>1 DEF TotalCluster, DivCeil
        <5> QED BY <1>3, <1>7, <5>2
      <4> QED BY <2>2, <4>1, LastPartReaches DEF TotalCluster
    <3>2. grow = request.size - N * i /\ i = TotalCluster - 1
      BY <2>4
    <3>3. N * (TotalCluster - 1) < size + grow
      BY <2>2, <2>3, <3>1, <3>2
    <3> QED BY <1>3, <1>4, <2>1, <2>4, <3>3 DEF SizeReaches, Covers
  <2>5. CASE ~last
    <3>1. grow = N
      BY <2>5
    <3>2. N * (i + 1) <= size + grow
      BY <2>2, <2>3, <3>1
    <3>3. i + 1 < TotalCluster
      BY <1>3, <1>4, <1>7, <2>5
    <3> QED BY <1>3, <1>4, <2>1, <3>2, <3>3 DEF SizeReaches
  <2> QED BY <2>4, <2>5
<1>20. NameFree'
  BY <1>2, <1>3, <1>4, <1>5 DEF FilesHeld, InHand, NameFree, InFile
<1>21. FolderEmpty' /\ FolderOne' /\ WalkParts'
  BY <1>3 DEF FolderEmpty, FolderOne, WalkParts, InMkdir
<1> QED BY <1>9, <1>14, <1>15, <1>16, <1>17, <1>18, <1>19, <1>20, <1>21 DEF FilesHeld, Held, InHand

LEMMA FilesFileFat == ASSUME TypeOK, Sound, Folders, FilesHeld, FileFat PROVE FilesHeld'
<1>1. /\ pc = "file_fat" /\ i' = i + 1 /\ diskFat' = fat_table
      /\ pc' = IF i + 1 < TotalCluster THEN "file_data" ELSE "file_entry"
      /\ UNCHANGED <<tables, blocks, dir_table_buf, request, cluster, slot, owner>>
  BY DEF FileFat
<1>2. i \in Nat /\ TotalCluster \in Nat /\ TotalCluster' = TotalCluster /\ MyPlace' = MyPlace
  BY <1>1, BusyTypes DEF TypeOK, Steps, TotalCluster, MyPlace
<1>3. i < TotalCluster /\ Mine(cluster) /\ fat_table[cluster] # 0
  BY <1>1 DEF Sound, InCall, FileGoesOn, OpenEnd
<1>4. /\ i = TotalCluster - 1 => fat_table[cluster] = FAT32_FAT_END_OF_FILE
      /\ \A d \in Cluster \ {cluster} : fat_table[d] = diskFat[d]
  BY <1>1 DEF Sound, InCall, FileLinks
<1>5. Turns = i + 1 /\ Turns' = i + 1 /\ InFile /\ InFile' /\ (pc' = "file_entry" <=> i = TotalCluster - 1)
  BY <1>1, <1>2, <1>3 DEF Turns, InFile
<1>6. /\ blocks[cluster].part = i /\ blocks[cluster].of = TotalCluster
      /\ blocks[cluster] # NoBlock
  BY <1>1, <1>2, <1>3, <1>5 DEF FilesHeld, InHand, PartsWritten, OpenEnd, Mine
<1>7. OneKind' /\ OwnedLive' /\ OneFile' /\ HeadsStart'
  BY <1>1, <1>2 DEF FilesHeld, Held, OneKind, OwnedLive, OfLive, Live, Busy, Writing, OneFile, PartsOfOne,
                    HeadsStart, Starts, Covers
<1>8. FreeVacant'
  BY <1>1, <1>3, <1>4 DEF FilesHeld, Held, FreeVacant, Vacant, Live
<1>9. PartsLinked'
  <2> SUFFICES ASSUME NEW d \in Cluster, owner[d] # Nobody, blocks[d] # NoBlock, ~Unlinked(d)'
               PROVE  LinkedOn(d)'
    BY <1>1 DEF PartsLinked
  <2>1. CASE d = cluster
    <3>1. i = TotalCluster - 1
      BY <1>1, <1>2, <1>5, <2>1 DEF Unlinked, OpenEnd
    <3>2. blocks[d].part = blocks[d].of - 1 /\ blocks[d].part < blocks[d].of
      BY <1>2, <1>6, <2>1, <3>1
    <3> QED BY <1>1, <1>4, <2>1, <3>1, <3>2 DEF LinkedOn
  <2>2. CASE d # cluster
    <3>1. LinkedOn(d) /\ diskFat'[d] = diskFat[d]
      BY <1>1, <1>4, <2>2 DEF FilesHeld, Held, PartsLinked, Unlinked
    <3>2. NextPart(d) => NextPart(d)'
      BY <1>1, <3>1 DEF NextPart
    <3> QED BY <1>1, <3>1, <3>2 DEF LinkedOn
  <2> QED BY <2>1, <2>2
<1>10. PartsWritten'
  <2>1. FirstCluster' = FirstCluster
    BY <1>1 DEF FirstCluster
  <2> QED BY <1>1, <1>2, <1>5, <1>6, <2>1 DEF FilesHeld, InHand, PartsWritten, Mine
<1>11. SizeReaches' /\ NameFree'
  BY <1>1, <1>2, <1>5 DEF FilesHeld, InHand, SizeReaches, NameFree, Covers
<1>12. FolderEmpty' /\ FolderOne' /\ WalkParts'
  BY <1>1 DEF FolderEmpty, FolderOne, WalkParts, InMkdir
<1> QED BY <1>7, <1>8, <1>9, <1>10, <1>11, <1>12 DEF FilesHeld, Held, InHand

-----------------------------------------------------------------------------
(* The calls that delete *)

(* Of the first step of a delete, all a reader of the disk sees is that one *)
(* entry is gone.                                                           *)
LEMMA EntryRemoved ==
  ASSUME TypeOK, Sound, OneKind, NEW r \in Request, DirectoryAt(r.parent),
         NEW s, IsFirst(s, Victims(tables[r.parent], r)),
         WriteTable(r.parent, Unused(tables[r.parent], s))
  PROVE  /\ r.parent \in DiskCluster /\ s \in Slot \ {0} /\ Live(r.parent, s) /\ ~Live(r.parent, s)'
         /\ UNCHANGED blocks /\ OneKind'
         /\ tables'[r.parent] = Unused(tables[r.parent], s)
         /\ \A d \in DiskCluster \ {r.parent} : tables'[d] = tables[d]
         /\ OtherEntriesStay(r.parent, s)
<1> DEFINE c == r.parent
           t == tables[c]
           u == Unused(t, s)
<1>1. /\ c \in DiskCluster /\ t \in Table /\ t # NoTable
      /\ s \in Slot \ {0} /\ t[s].used
  BY ParentFolder DEF Sound, OnDisk, IsFirst, Victims
<1>2. /\ tables'[c] = u /\ OneKind'
      /\ \A d \in DiskCluster \ {c} : tables'[d] = tables[d]
  BY <1>1, TableWritten
<1>3. blocks' = blocks
  BY <1>1, TableOverTable
<1>4. u \in Table /\ u # NoTable /\ ~u[s].used /\ \A x \in Slot \ {s} : u[x] = t[x]
  BY <1>1, UnusedFacts, TableTypes, SentinelAssumption
<1>5. Live(c, s) /\ ~Live(c, s)'
  BY <1>1, <1>2, <1>4 DEF Live
<1>6. 0 \in Slot
  BY SizeAssumption DEF Slot
<1> HIDE DEF u
<1>7. ASSUME NEW d \in DiskCluster, NEW x \in Slot, <<d, x>> # <<c, s>>
      PROVE  /\ Live(d, x)' <=> Live(d, x)
             /\ Live(d, x) => tables'[d][x] = tables[d][x]
  <2>1. CASE d # c
    BY <1>2, <2>1 DEF Live
  <2>2. CASE d = c
    BY <1>1, <1>2, <1>4, <1>6, <1>7, <2>2 DEF Live
  <2> QED BY <2>1, <2>2
<1> QED BY <1>1, <1>2, <1>3, <1>5, <1>7 DEF u, OtherEntriesStay

(* A folder that is deleted is empty: its table holds nothing but the entry *)
(* that describes it.                                                       *)
LEMMA FolderIsEmpty ==
  ASSUME Sound, Folders, NEW c \in DiskCluster, NEW s \in Slot \ {0}, LiveFolder(c, s),
         SeesNoChild(tables[c][s].cluster)
  PROVE  Vacant(tables[c][s].cluster) /\ tables[c][s].cluster # c
<1> DEFINE d == tables[c][s].cluster
<1>1. d \in DiskCluster /\ Leads(tables[d], tables[c][s])
  BY FolderOwns DEF Folders, FolderNamed, LiveFolder
<1>2. tables[d] # NoTable /\ \A x \in Slot \ {0} : ~tables[d][x].used
  BY <1>1 DEF SeesNoChild, HasTable, Leads
<1>3. ~Live(d, 0)
  <2>1. tables[d][0] = SelfEntry(tables[c][s].name, d)
    BY <1>1 DEF Leads
  <2> QED BY <2>1 DEF Live, SelfEntry, EmptyEntry
<1>4. d # c
  BY <1>2 DEF LiveFolder, Live
<1> HIDE DEF d
<1>5. Vacant(d)
  BY <1>2, <1>3 DEF Vacant, Live
<1> QED BY <1>4, <1>5 DEF d

LEMMA FilesDeleteDir ==
  ASSUME TypeOK, FatCoherent, Sound, Folders, FilesHeld,
         NEW r \in Request, DirectoryAt(r.parent), DeleteDir(r, tables[r.parent])
  PROVE  FilesHeld'
<1> DEFINE t == tables[r.parent]
<1>1. PICK s \in Slot :
        /\ IsFirst(s, Victims(t, r)) /\ t[s].attribute /\ SeesNoChild(t[s].cluster)
        /\ \E u \in TablesAfter(Unused(t, s), t[s].cluster) :
             WriteTable(r.parent, u) /\ Enter("dir_fat", r, u, s, t[s].cluster)
        /\ owner' = Disown(<<r.parent, s>>)
  BY DEF DeleteDir
<1> DEFINE p == <<r.parent, s>>
<1>0. PICK c : c = t[s].cluster
  OBVIOUS
<1>2. c \in Cluster /\ owner[c] = p
  BY <1>0, <1>1, VictimOwns DEF Sound
<1>3. WriteTable(r.parent, Unused(t, s)) /\ Enter("dir_fat", r, Unused(t, s), s, c)
  BY <1>0, <1>1, <1>2 DEF TablesAfter
<1>4. pc = "idle" /\ pc' = "dir_fat" /\ cluster' = c /\ UNCHANGED diskFat
  BY <1>3 DEF DeleteDir, Enter
<1>5. /\ r.parent \in DiskCluster /\ s \in Slot \ {0} /\ Live(r.parent, s) /\ ~Live(r.parent, s)'
      /\ UNCHANGED blocks /\ OneKind'
      /\ \A d \in DiskCluster \ {r.parent} : tables'[d] = tables[d]
      /\ \A d \in DiskCluster, x \in Slot : <<d, x>> # p =>
           /\ Live(d, x)' <=> Live(d, x)
           /\ Live(d, x) => tables'[d][x] = tables[d][x]
  BY <1>1, <1>3, EntryRemoved DEF FilesHeld, Held, OtherEntriesStay
<1>6. Vacant(c) /\ c # r.parent
  BY <1>0, <1>1, <1>5, FolderIsEmpty DEF LiveFolder
<1>7. \A d \in Cluster : owner'[d] = IF owner[d] = p THEN Nobody ELSE owner[d]
  BY <1>1 DEF Disown
<1> HIDE DEF p, t
<1>8. \A d \in DiskCluster, x \in Slot : Live(d, x)' => Live(d, x) /\ tables'[d][x] = tables[d][x]
  BY <1>5 DEF p
<1>9. FreeVacant' /\ Vacant(c)'
  BY <1>2, <1>4, <1>6, <1>8, SmallNumbers DEF FilesHeld, Held, FreeVacant, Vacant
<1>10. OwnedLive'
  BY <1>4, <1>5, <1>7 DEF FilesHeld, Held, OwnedLive, OfLive, Busy, Writing
<1>11. OneFile' /\ PartsLinked'
  BY <1>4, <1>5, <1>7, ChainsStay DEF FilesHeld, Held, Unlinked, OpenEnd
<1>12. HeadsStart'
  BY <1>5, <1>8, HeadsStay DEF FilesHeld, Held
<1>13. InHand'
  <2>1. FolderEmpty'
    BY <1>4, <1>9 DEF FolderEmpty, Vacant
  <2> QED BY <1>4, <2>1 DEF InHand, FolderOne, InMkdir, PartsWritten, SizeReaches, NameFree, InFile, WalkParts
<1> QED BY <1>5, <1>9, <1>10, <1>11, <1>12, <1>13 DEF FilesHeld, Held

LEMMA FilesDeleteDirFat == ASSUME TypeOK, Sound, FilesHeld, DeleteDirFat PROVE FilesHeld'
<1>1. /\ pc = "dir_fat" /\ pc' = "return" /\ diskFat' = fat_table
      /\ UNCHANGED <<tables, blocks, owner>>
  BY DEF DeleteDirFat, Return
<1>2. /\ owner[cluster] = Nobody
      /\ \A d \in Cluster \ {cluster} : fat_table[d] = diskFat[d]
  BY <1>1 DEF Sound, InCall, DirInFlight
<1>3. Vacant(cluster)
  BY <1>1 DEF FilesHeld, InHand, FolderEmpty
<1>4. OneKind' /\ FreeVacant'
  BY <1>1, <1>2, <1>3 DEF FilesHeld, Held, OneKind, FreeVacant, Vacant, Live
<1>5. OwnedLive' /\ HeadsStart'
  BY <1>1 DEF FilesHeld, Held, OwnedLive, OfLive, Busy, Writing, Live, HeadsStart, Starts, Covers
<1>6. OneFile' /\ PartsLinked'
  BY <1>1, <1>2, ChainsStay DEF FilesHeld, Held, Unlinked, OpenEnd
<1> QED BY <1>1, <1>4, <1>5, <1>6, NothingInHand DEF FilesHeld, Held, Writing

LEMMA FilesDeleteFile ==
  ASSUME TypeOK, Sound, FilesHeld, NEW r \in Request, DirectoryAt(r.parent), DeleteFile(r, tables[r.parent])
  PROVE  FilesHeld'
<1> DEFINE t == tables[r.parent]
<1>1. PICK s \in Slot : /\ IsFirst(s, Victims(t, r)) /\ ~t[s].attribute
                        /\ WriteTable(r.parent, Unused(t, s))
                        /\ Enter("walk", r, Unused(t, s), s, t[s].cluster)
  BY DEF DeleteFile
<1>0. PICK c : c = t[s].cluster
  OBVIOUS
<1> DEFINE p == <<r.parent, s>>
           u == Unused(t, s)
<1>2. c \in Cluster /\ c \in DiskCluster /\ owner[c] = p
  BY <1>0, <1>1, VictimOwns, SmallNumbers DEF Sound
<1>3. /\ pc = "idle" /\ pc' = "walk" /\ request' = r /\ slot' = s /\ cluster' = c /\ i' = 0
      /\ to_zeros' = {} /\ dir_table_buf' = u /\ UNCHANGED <<diskFat, owner>> /\ MyPlace' = p
  BY <1>0, <1>1 DEF DeleteFile, Enter, MyPlace
<1>4. /\ r.parent \in DiskCluster /\ s \in Slot \ {0} /\ Live(r.parent, s) /\ ~Live(r.parent, s)'
      /\ UNCHANGED blocks /\ OneKind'
      /\ \A d \in DiskCluster, x \in Slot : <<d, x>> # p =>
           /\ Live(d, x)' <=> Live(d, x)
           /\ Live(d, x) => tables'[d][x] = tables[d][x]
  BY <1>1, EntryRemoved DEF FilesHeld, Held, OtherEntriesStay
<1>5. t \in Table /\ u[s].cluster = c /\ u[s].filesize = t[s].filesize
  <2>1. t \in Table
    BY ParentFolder DEF Sound, OnDisk
  <2> QED BY <1>0, <2>1 DEF Unused, Table, Entry
<1>6. Starts(blocks, t[s]) /\ p # Nobody
  BY <1>1, <1>4, PlacesOwn DEF FilesHeld, Held, HeadsStart
<1> HIDE DEF p, t, u
<1>7. \A d \in DiskCluster, x \in Slot : Live(d, x)' => Live(d, x) /\ tables'[d][x] = tables[d][x]
  BY <1>4 DEF p
<1>8. FreeVacant'
  BY <1>3, <1>7, SmallNumbers DEF FilesHeld, Held, FreeVacant, Vacant
<1>9. OwnedLive'
  BY <1>3, <1>4 DEF FilesHeld, Held, OwnedLive, OfLive, Busy, Writing
<1>10. OneFile' /\ PartsLinked'
  BY <1>3, <1>4, ChainsStay DEF FilesHeld, Held, Unlinked, OpenEnd
<1>11. HeadsStart'
  BY <1>4, <1>7, HeadsStay DEF FilesHeld, Held
<1>12. WalkParts'
  <2>1. /\ blocks[c] # NoBlock /\ blocks[c].part = 0 /\ Covers(u[s].filesize, blocks[c].of)
        /\ t[s].cluster = c
    BY <1>0, <1>5, <1>6 DEF Starts
  <2>2. blocks[c].part \in Nat /\ blocks[c].of \in Nat
    BY <1>2, <2>1, BlockTypes
  <2>3. LinkedOn(c)
    BY <1>2, <1>3, <1>6, <2>1 DEF FilesHeld, Held, PartsLinked, Unlinked, OpenEnd
  <2>4. blocks[c].of > 0
    BY <2>1, <2>2, <2>3 DEF LinkedOn
  <2>5. \A d \in Cluster : blocks[d].part < 0 /\ owner[d] = p => FALSE
    <3> SUFFICES ASSUME NEW d \in Cluster, blocks[d].part < 0, owner[d] = p PROVE FALSE
      OBVIOUS
    <3>1. blocks[d] # NoBlock
      BY <1>2, <1>6, <2>1 DEF FilesHeld, Held, OneFile, PartsOfOne
    <3>2. blocks[d].part \in Nat
      BY <3>1, BlockTypes, SmallNumbers
    <3> QED BY <3>2
  <2>6. FirstCluster' = c /\ Mine(c)' /\ Starts(blocks, dir_table_buf[slot])'
    BY <1>2, <1>3, <1>4, <1>5, <2>1 DEF FirstCluster, Mine, Starts, Covers
  <2> QED BY <1>2, <1>3, <1>4, <2>1, <2>2, <2>4, <2>5, <2>6 DEF WalkParts, Mine
<1>13. InHand'
  BY <1>3, <1>12 DEF InHand, FolderEmpty, FolderOne, InMkdir, PartsWritten, SizeReaches, NameFree, InFile
<1> QED BY <1>4, <1>8, <1>9, <1>10, <1>11, <1>13 DEF FilesHeld, Held

(* What one owner has, all of it parts of the file it has one part of.      *)
LEMMA SameFileParts ==
  ASSUME TypeOK, OneFile, NEW h \in Cluster, NEW c \in Cluster,
         owner[h] # Nobody, owner[c] = owner[h], blocks[h] # NoBlock
  PROVE  /\ blocks[c] # NoBlock /\ blocks[c].data = blocks[h].data /\ blocks[c].of = blocks[h].of
         /\ blocks[c].part \in Nat /\ blocks[c].of \in Nat
<1>1. blocks[c] # NoBlock /\ blocks[c].data = blocks[h].data /\ blocks[c].of = blocks[h].of
  BY DEF OneFile, PartsOfOne
<1> QED BY <1>1, BlockTypes, SmallNumbers

LEMMA FilesDeleteWalk ==
  ASSUME TypeOK, FatCoherent, Sound, FilesHeld, ~wild', DeleteWalk PROVE FilesHeld'
<1> DEFINE h == FirstCluster
<1>1. /\ pc = "walk" /\ pc' = "walk" /\ cluster \in Cluster /\ i' = i + 1 /\ i \in Nat
      /\ to_zeros' = to_zeros \cup {cluster} /\ cluster' = Trunc16(fat_table[cluster])
      /\ UNCHANGED <<diskFat, tables, blocks, dir_table_buf, request, slot, owner>>
      /\ FirstCluster' = FirstCluster /\ MyPlace' = MyPlace
  BY DEF DeleteWalk, WordsAt, FirstCluster, MyPlace, TypeOK
<1>2. fat_table = diskFat /\ MyPlace # Nobody
  BY <1>1, BusyTypes, SentinelAssumption DEF FatCoherent, Steps
<1>3. /\ Mine(h) /\ Starts(blocks, dir_table_buf[slot]) /\ i <= blocks[h].of
      /\ \A c \in Cluster : Mine(c) /\ blocks[c].part < i => c \in to_zeros
      /\ i < blocks[h].of => Mine(cluster) /\ blocks[cluster].part = i
      /\ i # blocks[h].of
  BY <1>1 DEF FilesHeld, InHand, WalkParts
<1>4. /\ blocks[h] # NoBlock /\ blocks[h].of \in Nat /\ h \in DiskCluster
      /\ owner[h] = MyPlace /\ h \in Cluster
  BY <1>3, BlockTypes, SmallNumbers DEF Starts, Mine, FirstCluster
<1>5. i < blocks[h].of /\ owner[cluster] = MyPlace /\ blocks[cluster].part = i
  BY <1>1, <1>3, <1>4 DEF Mine
<1>6. /\ blocks[cluster] # NoBlock /\ blocks[cluster].of = blocks[h].of
      /\ LinkedOn(cluster)
  BY <1>1, <1>2, <1>4, <1>5, SameFileParts DEF FilesHeld, Held, PartsLinked, Unlinked, OpenEnd
<1>7. i + 1 < blocks[h].of => Mine(cluster') /\ blocks[cluster'].part = i + 1
  <2>1. ASSUME i + 1 < blocks[h].of PROVE NextPart(cluster)
    BY <1>1, <1>4, <1>5, <1>6, <2>1 DEF LinkedOn
  <2> QED BY <1>1, <1>2, <1>5, <2>1, SmallNumbers DEF NextPart, Mine
<1>8. i + 1 = blocks[h].of => cluster' \notin Cluster
  <2>1. ASSUME i + 1 = blocks[h].of PROVE diskFat[cluster] = FAT32_FAT_END_OF_FILE
    BY <1>1, <1>4, <1>5, <1>6, <2>1 DEF LinkedOn
  <2> QED BY <1>1, <1>2, <2>1, SmallNumbers
<1>9. \A c \in Cluster : Mine(c) /\ blocks[c].part < i + 1 => c \in to_zeros'
  <2> SUFFICES ASSUME NEW c \in Cluster, Mine(c), blocks[c].part < i + 1, c # cluster
               PROVE  c \in to_zeros
    BY <1>1
  <2>1. owner[c] = MyPlace /\ blocks[c].part \in Nat
    BY <1>2, <1>4, SameFileParts DEF Mine, FilesHeld, Held
  <2>2. blocks[c].part # i
    BY <1>1, <1>2, <1>5, <2>1 DEF FilesHeld, Held, OneFile, PartsOfOne
  <2> QED BY <1>1, <1>3, <2>1, <2>2
<1> HIDE DEF h
<1>10. WalkParts'
  <2>1. FirstCluster = h
    BY DEF h
  <2>2. blocks'[FirstCluster'].of = blocks[h].of /\ i + 1 <= blocks[h].of
    BY <1>1, <1>4, <1>5, <2>1
  <2>3. Starts(blocks, dir_table_buf[slot])'
    BY <1>1, <1>3 DEF Starts, Covers
  <2>4. Mine(FirstCluster)' /\ (\A c \in Cluster : Mine(c)' <=> Mine(c))
    BY <1>1, <1>3, <2>1 DEF Mine
  <2>5. i + 1 < blocks[h].of => Mine(cluster)'
    BY <1>1, <1>7 DEF Mine
  <2> QED BY <1>1, <1>7, <1>8, <1>9, <2>2, <2>3, <2>4, <2>5 DEF WalkParts
<1>11. InHand'
  BY <1>1, <1>10 DEF InHand, FolderEmpty, FolderOne, InMkdir, PartsWritten, SizeReaches, NameFree, InFile
<1>12. OneKind' /\ FreeVacant' /\ OwnedLive' /\ HeadsStart'
  BY <1>1 DEF FilesHeld, Held, OneKind, FreeVacant, Vacant, Live, OwnedLive, OfLive, Busy, HeadsStart,
              Starts, Covers
<1>13. OneFile' /\ PartsLinked'
  BY <1>1, ChainsStay DEF FilesHeld, Held, Unlinked, OpenEnd
<1> QED BY <1>11, <1>12, <1>13 DEF FilesHeld, Held

(* A delete that has counted to the file's size has collected all its       *)
(* parts, because the size reaches the last.                                *)
LEMMA WalkedAll ==
  ASSUME TypeOK, Sound, FilesHeld, pc = "walk", ~MoreToWalk
  PROVE  \A c \in Cluster : owner[c] = MyPlace => c \in to_zeros /\ blocks[c] # NoBlock
<1> DEFINE h == FirstCluster
           size == dir_table_buf[slot].filesize
<1>1. /\ Mine(h) /\ Starts(blocks, dir_table_buf[slot]) /\ i <= blocks[h].of
      /\ \A c \in Cluster : Mine(c) /\ blocks[c].part < i => c \in to_zeros
  BY DEF FilesHeld, InHand, WalkParts
<1>2. /\ blocks[h] # NoBlock /\ Covers(size, blocks[h].of)
      /\ h \in Cluster /\ owner[h] = MyPlace /\ h \in DiskCluster
  BY <1>1, SmallNumbers DEF Starts, Mine, FirstCluster
<1>3. /\ slot \in Slot /\ dir_table_buf \in Table /\ i \in Nat /\ MyPlace # Nobody
  BY BusyTypes, SentinelAssumption DEF TypeOK, Steps
<1>4. size \in Nat /\ DivCeil(size, CLUSTER_SIZE) \in Nat
  <2>1. size \in Nat
    BY <1>3 DEF Table, Entry
  <2> QED BY <2>1, SizeAssumption DEF DivCeil
<1>5. blocks[h].of \in Nat
  BY <1>2, BlockTypes
<1>6. ~(i < DivCeil(size, CLUSTER_SIZE))
  BY DEF MoreToWalk
<1> HIDE DEF h, size
<1>7. i = blocks[h].of
  <2>1. blocks[h].of <= DivCeil(size, CLUSTER_SIZE)
    BY <1>2, <1>4, <1>5, CoveredParts
  <2> QED BY <1>1, <1>3, <1>4, <1>5, <1>6, <2>1
<1> SUFFICES ASSUME NEW c \in Cluster, owner[c] = MyPlace PROVE c \in to_zeros /\ blocks[c] # NoBlock
  OBVIOUS
<1>8. blocks[c] # NoBlock /\ blocks[c].of = blocks[h].of
  BY <1>2, <1>3, SameFileParts DEF FilesHeld, Held
<1>9. LinkedOn(c)
  BY <1>3, <1>8 DEF FilesHeld, Held, PartsLinked, Unlinked, OpenEnd
<1> QED BY <1>1, <1>7, <1>8, <1>9 DEF Mine, LinkedOn

LEMMA FilesDeleteFree == ASSUME TypeOK, FatCoherent, Sound, FilesHeld, DeleteFree PROVE FilesHeld'
<1>1. /\ pc = "walk" /\ pc' = "return" /\ owner' = Disown(MyPlace) /\ fat_table = diskFat
      /\ diskFat' = [c \in Cluster |-> IF c \in to_zeros THEN FAT32_FAT_EMPTY_ENTRY
                                                         ELSE fat_table[c]]
      /\ UNCHANGED <<tables, blocks>> /\ ~MoreToWalk
  BY DEF DeleteFree, Return, FatCoherent
<1>2. /\ \A z \in to_zeros : z \in Cluster /\ owner[z] = MyPlace
      /\ ~OfLive(MyPlace) /\ MyPlace # Nobody
  BY <1>1, BusyTypes, OthersPlace, SentinelAssumption
     DEF Sound, InCall, WalkInFlight, Mine, Deleting, Steps
<1>3. \A c \in Cluster : owner'[c] = IF owner[c] = MyPlace THEN Nobody ELSE owner[c]
  BY <1>1 DEF Disown
<1>4. \A c \in Cluster : owner[c] # MyPlace => diskFat'[c] = diskFat[c]
  BY <1>1, <1>2
<1>5. FreeVacant'
  <2> SUFFICES ASSUME NEW c \in Cluster, diskFat'[c] = 0 PROVE Vacant(c)
    BY <1>1 DEF FreeVacant, Vacant, Live
  <2>1. CASE owner[c] = MyPlace
    <3>1. blocks[c] # NoBlock
      BY <1>1, <2>1, WalkedAll
    <3> QED BY <3>1, SmallNumbers DEF FilesHeld, Held, OneKind, Vacant, Live
  <2>2. CASE owner[c] # MyPlace
    BY <1>4, <2>2 DEF FilesHeld, Held, FreeVacant
  <2> QED BY <2>1, <2>2
<1>6. OneKind' /\ HeadsStart'
  BY <1>1 DEF FilesHeld, Held, OneKind, HeadsStart, Live, Starts, Covers
<1>7. OwnedLive'
  <2>1. \A c \in Cluster : owner'[c] # Nobody => OfLive(owner[c]) /\ owner'[c] = owner[c]
    BY <1>3 DEF FilesHeld, Held, OwnedLive
  <2> QED BY <1>1, <2>1 DEF OwnedLive, OfLive, Live
<1>8. OneFile' /\ PartsLinked'
  BY <1>1, <1>3, <1>4, ChainsStay DEF FilesHeld, Held, Unlinked, OpenEnd
<1> QED BY <1>1, <1>5, <1>6, <1>7, <1>8, NothingInHand DEF FilesHeld, Held, Writing

-----------------------------------------------------------------------------
(* The invariant *)

LEMMA FilesStep ==
  ASSUME TypeOK, FatCoherent, Sound, Folders, FilesHeld, ~wild', Step PROVE FilesHeld'
<1>1. CASE SyscallReturn \/ ReadBlock \/ ReadReturn
  BY <1>1, FilesQuiet DEF SyscallReturn, ReadBlock, ReadReturn, Return, Writing
<1> QED BY <1>1, FilesMkdirTable, FilesMkdirEntry, FilesFileData, FilesFileFat, FilesFileEntry,
           FilesDeleteDirFat, FilesDeleteWalk, FilesDeleteFree DEF Step

LEMMA FilesCallOn ==
  ASSUME TypeOK, FatCoherent, Sound, Folders, FilesHeld, ~wild',
         NEW r \in Request, DirectoryAt(r.parent), CallOn(r)
  PROVE  FilesHeld'
<1>1. CASE ReadRefused(r, tables[r.parent]) \/ ReadFile(r, tables[r.parent]) \/ ReadDirectory(r, tables[r.parent])
             \/ WriteBadParent(r) \/ WriteDuplicate(r, tables[r.parent]) \/ DeleteRefused(r, tables[r.parent])
  BY <1>1, FilesQuiet DEF ReadRefused, ReadFile, ReadDirectory, WriteBadParent, WriteDuplicate,
                          DeleteRefused, Return, Enter, Writing
<1> QED BY <1>1, FilesMkdirFat, FilesStartWriteFile, FilesDeleteDir, FilesDeleteFile DEF CallOn, CallWith

LEMMA FilesAnswers == ASSUME FilesHeld, OnlyAnswers PROVE FilesHeld'
  BY FilesQuiet DEF OnlyAnswers, Return, Writing

LEMMA FilesCall ==
  ASSUME TypeOK, FatCoherent, Sound, Folders, FilesHeld, ~wild', Call PROVE FilesHeld'
  BY CallDirectory, FilesCallOn, FilesAnswers

LEMMA FilesStutter == ASSUME FilesHeld, UNCHANGED vars PROVE FilesHeld'
<1>1. OneKind' /\ FreeVacant' /\ OwnedLive' /\ OneFile' /\ HeadsStart'
  BY DEF FilesHeld, Held, OneKind, FreeVacant, Vacant, Live, OwnedLive, OfLive, Busy, MyPlace, OneFile,
         PartsOfOne, HeadsStart, Starts, Covers
<1>2. PartsLinked'
  BY DEF FilesHeld, Held, PartsLinked, Unlinked, OpenEnd, LinkedOn, NextPart
<1>3. FolderEmpty' /\ FolderOne' /\ NameFree'
  BY DEF FilesHeld, InHand, FolderEmpty, FolderOne, NameFree, InMkdir, InFile, Vacant, Live, Mine, MyPlace
<1>4. PartsWritten'
  BY DEF FilesHeld, InHand, PartsWritten, InFile, Turns, TotalCluster, OpenEnd, Mine, MyPlace, FirstCluster
<1>5. SizeReaches'
  BY DEF FilesHeld, InHand, SizeReaches, InFile, Turns, TotalCluster, Covers
<1>6. WalkParts'
  BY DEF FilesHeld, InHand, WalkParts, Mine, MyPlace, FirstCluster, Starts, Covers
<1> QED BY <1>1, <1>2, <1>3, <1>4, <1>5, <1>6 DEF FilesHeld, Held, InHand

LEMMA FilesAlways == Spec => [](~wild => Sound /\ Folders /\ FilesHeld)
<1>1. ASSUME TypeOK, FatCoherent, ~wild => Sound /\ Folders, ~wild => FilesHeld, [Next]_vars
      PROVE  (~wild => FilesHeld)'
  <2>1. CASE UNCHANGED vars
    BY <1>1, <2>1, FilesStutter
  <2>2. CASE Next
    <3> SUFFICES ASSUME ~wild' PROVE FilesHeld'
      OBVIOUS
    <3>1. Sound /\ Folders /\ FilesHeld
      BY <1>1, <2>2, WildStays
    <3> QED BY <1>1, <2>2, <3>1, FilesBoot, FilesStep, FilesCall, FilesCrash DEF Next
  <2> QED BY <1>1, <2>1, <2>2
<1> QED BY <1>1, FilesInit, TypeCorrect, Coherent, FoldersAlways, PTL DEF Spec

-----------------------------------------------------------------------------
(* Counting along a chain *)

(* Every set of numbers has a least one. *)
LEMMA Least ==
  ASSUME NEW T, T \subseteq Nat, T # {}
  PROVE  \E m \in T : \A n \in T : m <= n
<1> DEFINE R == {ss \in Nat \X Nat : ss[1] < ss[2]}
<1>1. IsWellFoundedOn(R, Nat)
  BY NatLessThanWellFounded DEF OpToRel
<1>2. ASSUME NEW m \in Nat, NEW n \in Nat PROVE <<n, m>> \in R <=> n < m
  OBVIOUS
<1> HIDE DEF R
<1>3. PICK m \in T : \A n \in T : ~(<<n, m>> \in R)
  BY <1>1, WFMin
<1>4. ASSUME NEW n \in T PROVE m <= n
  <2>1. m \in Nat /\ n \in Nat
    OBVIOUS
  <2>2. ~(n < m)
    BY <1>2, <1>3, <2>1
  <2> QED BY <2>1, <2>2
<1> QED BY <1>3, <1>4

(* What holds at 0 and is passed on holds up to N. *)
LEMMA UpTo ==
  ASSUME NEW N \in Nat, NEW T, 0 \in T, \A j \in 0 .. N : j \in T /\ j < N => j + 1 \in T
  PROVE  \A j \in 0 .. N : j \in T
<1> DEFINE Bad == {j \in 0 .. N : j \notin T}
<1> SUFFICES ASSUME Bad # {} PROVE FALSE
  OBVIOUS
<1>1. Bad \subseteq Nat
  OBVIOUS
<1>2. PICK m \in Bad : \A n \in Bad : m <= n
  BY <1>1, Least
<1>3. m \in 0 .. N /\ m \notin T /\ m # 0
  OBVIOUS
<1>4. m - 1 \in 0 .. N /\ m - 1 < N /\ m - 1 + 1 = m
  BY <1>3
<1>5. m - 1 \in T
  <2>1. ~(m <= m - 1)
    BY <1>3
  <2> QED BY <1>2, <1>4, <2>1
<1> QED BY <1>3, <1>4, <1>5

(* A function by recursion over one step exists. *)
LEMMA Recursion ==
  ASSUME NEW N \in Nat, NEW c \in Nat, NEW step \in [Nat -> Nat]
  PROVE  \E g \in [0 .. N -> Nat] : g[0] = c /\ \A j \in 1 .. N : g[j] = step[g[j - 1]]
<1> DEFINE Good(n) == \E g \in [0 .. n -> Nat] : g[0] = c /\ \A j \in 1 .. n : g[j] = step[g[j - 1]]
           T == {n \in 0 .. N : Good(n)}
<1>1. Good(0)
  <2> DEFINE g == [j \in 0 .. 0 |-> c]
  <2>1. g \in [0 .. 0 -> Nat] /\ g[0] = c /\ \A j \in 1 .. 0 : g[j] = step[g[j - 1]]
    OBVIOUS
  <2> QED BY <2>1
<1>2. ASSUME NEW n \in 0 .. N, Good(n) PROVE Good(n + 1)
  <2>1. PICK g \in [0 .. n -> Nat] : g[0] = c /\ \A j \in 1 .. n : g[j] = step[g[j - 1]]
    BY <1>2
  <2> DEFINE h == [j \in 0 .. n + 1 |-> IF j = n + 1 THEN step[g[n]] ELSE g[j]]
  <2>2. n \in Nat /\ g[n] \in Nat
    OBVIOUS
  <2>3. h \in [0 .. n + 1 -> Nat] /\ h[0] = c
    <3>1. step[g[n]] \in Nat
      BY <2>2
    <3>2. ASSUME NEW j \in 0 .. n + 1 PROVE h[j] \in Nat
      <4>1. j # n + 1 => j \in 0 .. n
        BY <2>2
      <4> QED BY <3>1, <4>1
    <3>3. h = [j \in 0 .. n + 1 |-> h[j]]
      OBVIOUS
    <3>4. h[0] = c
      BY <2>1, <2>2
    <3> HIDE DEF h
    <3> QED BY <3>2, <3>3, <3>4
  <2>4. ASSUME NEW j \in 1 .. n + 1 PROVE h[j] = step[h[j - 1]]
    <3>1. j - 1 \in 0 .. n /\ h[j - 1] = g[j - 1]
      BY <2>2
    <3>2. CASE j = n + 1
      BY <2>2, <3>1, <3>2
    <3>3. CASE j # n + 1
      <4>1. j \in 1 .. n /\ h[j] = g[j]
        BY <2>2, <3>3
      <4> QED BY <2>1, <3>1, <4>1
    <3> QED BY <3>2, <3>3
  <2> QED BY <2>3, <2>4
<1> HIDE DEF Good
<1>3. \A n \in 0 .. N : n \in T
  <2>1. 0 \in T /\ \A n \in 0 .. N : n \in T /\ n < N => n + 1 \in T
    BY <1>1, <1>2
  <2> HIDE DEF T
  <2> QED BY <2>1, UpTo
<1>4. Good(N)
  BY <1>3
<1> QED BY <1>4 DEF Good

(* Follow is such a function. *)
LEMMA FollowSteps ==
  ASSUME TypeOK, NEW c \in Nat
  PROVE  /\ Follow(c)[0] = c
         /\ \A j \in 0 .. CLUSTER_MAP_SIZE :
              j < CLUSTER_MAP_SIZE =>
                Follow(c)[j + 1] = IF Follow(c)[j] \in Cluster THEN Trunc16(diskFat[Follow(c)[j]])
                                                               ELSE Follow(c)[j]
<1> DEFINE N == CLUSTER_MAP_SIZE
           Goes(v) == IF v \in Cluster THEN Trunc16(diskFat[v]) ELSE v
           step == [v \in Nat |-> Goes(v)]
           Is(f) == f = [j \in 0 .. N |->
                          IF j = 0 THEN c
                          ELSE IF f[j - 1] \in Cluster THEN Trunc16(diskFat[f[j - 1]]) ELSE f[j - 1]]
<1>1. N \in Nat
  BY SizeAssumption
<1>2. step \in [Nat -> Nat]
  <2>1. diskFat \in [Cluster -> Word]
    BY DEF TypeOK
  <2>2. \A v \in Cluster : Trunc16(diskFat[v]) \in Nat
    BY <2>1, WordCut, SmallNumbers DEF WordsAt, Uint16
  <2> QED BY <2>2
<1>3. \E g \in [0 .. N -> Nat] : g[0] = c /\ \A j \in 1 .. N : g[j] = step[g[j - 1]]
  <2> HIDE DEF step, N
  <2>1. PICK f : f = step
    OBVIOUS
  <2>2. PICK m : m = N
    OBVIOUS
  <2>3. f \in [Nat -> Nat] /\ m \in Nat
    BY <1>1, <1>2, <2>1, <2>2
  <2>4. \E g \in [0 .. m -> Nat] : g[0] = c /\ \A j \in 1 .. m : g[j] = f[g[j - 1]]
    BY <2>3, Recursion
  <2> QED BY <2>1, <2>2, <2>4
<1>4. PICK g \in [0 .. N -> Nat] : g[0] = c /\ \A j \in 1 .. N : g[j] = step[g[j - 1]]
  BY <1>3
<1>5. Is(g)
  <2>1. ASSUME NEW j \in 1 .. N PROVE g[j] = Goes(g[j - 1])
    <3>1. j - 1 \in 0 .. N /\ g[j - 1] \in Nat
      BY <1>1
    <3>2. g[j] = step[g[j - 1]]
      BY <1>4
    <3> HIDE DEF Goes
    <3> QED BY <3>1, <3>2
  <2>2. \A j \in 0 .. N : j = 0 \/ j \in 1 .. N
    BY <1>1
  <2>3. \A j \in 0 .. N : g[j] = IF j = 0 THEN c ELSE Goes(g[j - 1])
    BY <1>1, <1>4, <2>1, <2>2
  <2> QED BY <2>3
<1>6. Follow(c) = CHOOSE f : Is(f)
  BY DEF Follow
<1>7. Is(Follow(c))
  <2> HIDE DEF Is
  <2>1. Is(CHOOSE f : Is(f))
    BY <1>5, Zenon
  <2> QED BY <1>6, <2>1
<1> HIDE DEF N
<1>8. \A j \in 0 .. N : Follow(c)[j] = IF j = 0 THEN c ELSE Goes(Follow(c)[j - 1])
  BY <1>7
<1>9. \A j \in 0 .. N : j < N => j + 1 \in 0 .. N /\ j + 1 # 0 /\ j + 1 - 1 = j
  BY <1>1
<1>10. \A j \in 0 .. N : j < N => Follow(c)[j + 1] = Goes(Follow(c)[j])
  <2> HIDE DEF Goes
  <2> QED BY <1>8, <1>9
<1>11. 0 \in 0 .. N
  BY <1>1
<1> QED BY <1>8, <1>10, <1>11 DEF N

(* What an entry in use owns is linked. *)
LEMMA Settled ==
  ASSUME Sound, NEW p, OfLive(p)
  PROVE  /\ p # Nobody
         /\ \A c \in Cluster : owner[c] = p => ~Unlinked(c) /\ diskFat[c] # 0 /\ Linked(c)
<1>1. p # Nobody
  BY PlacesOwn DEF OfLive
<1>2. ASSUME NEW c \in Cluster, owner[c] = p PROVE ~Unlinked(c)
  <2>1. SUFFICES ASSUME OpenEnd \/ pc = "mkdir_table", c = cluster PROVE FALSE
    BY DEF Unlinked
  <2>2. owner[cluster] = MyPlace /\ pc \in Writing
    BY <2>1 DEF Sound, InCall, FileGoesOn, MkdirInFlight, Mine, OpenEnd, Writing
  <2> QED BY <1>2, <2>1, <2>2, OthersPlace
<1> QED BY <1>1, <1>2 DEF Sound, OnDisk, ChainsOwned, Unlinked

(* A chain stays with its owner ... *)
LEMMA ChainOwned ==
  ASSUME TypeOK, Sound, NEW p, OfLive(p), NEW h \in Cluster, owner[h] = p
  PROVE  \A j \in 0 .. CLUSTER_MAP_SIZE : Follow(h)[j] \in Cluster => owner[Follow(h)[j]] = p
<1> DEFINE N == CLUSTER_MAP_SIZE
           T == {j \in 0 .. N : Follow(h)[j] \in Cluster => owner[Follow(h)[j]] = p}
<1>1. N \in Nat /\ h \in Nat
  BY SizeAssumption, SmallNumbers
<1>2. /\ Follow(h)[0] = h
      /\ \A j \in 0 .. N : j < N =>
           Follow(h)[j + 1] = IF Follow(h)[j] \in Cluster THEN Trunc16(diskFat[Follow(h)[j]])
                                                         ELSE Follow(h)[j]
  BY <1>1, FollowSteps
<1> HIDE DEF N
<1>3. 0 \in T
  BY <1>1, <1>2
<1>4. ASSUME NEW j \in 0 .. N, j \in T, j < N PROVE j + 1 \in T
  <2>1. j + 1 \in 0 .. N
    BY <1>1, <1>4
  <2>2. CASE Follow(h)[j] \in Cluster
    <3>1. /\ Linked(Follow(h)[j]) /\ owner[Follow(h)[j]] = p
          /\ Follow(h)[j + 1] = Trunc16(diskFat[Follow(h)[j]])
      BY <1>2, <1>4, <2>2, Settled
    <3> QED BY <2>1, <3>1, SmallNumbers DEF Linked
  <2>3. CASE Follow(h)[j] \notin Cluster
    BY <1>2, <1>4, <2>1, <2>3
  <2> QED BY <2>2, <2>3
<1> HIDE DEF T
<1>5. \A j \in 0 .. N : j \in T
  BY <1>1, <1>3, <1>4, UpTo
<1> QED BY <1>5 DEF T, N

(* ... and runs through the parts of a file in order. *)
LEMMA ChainParts ==
  ASSUME TypeOK, Sound, FilesHeld, NEW p, OfLive(p), NEW h \in Cluster, owner[h] = p,
         blocks[h] # NoBlock, blocks[h].part = 0
  PROVE  \A j \in 0 .. CLUSTER_MAP_SIZE :
           /\ j < blocks[h].of => /\ Follow(h)[j] \in Cluster /\ owner[Follow(h)[j]] = p
                                  /\ blocks[Follow(h)[j]] = [blocks[h] EXCEPT !.part = j]
           /\ j = blocks[h].of => Follow(h)[j] = Trunc16(FAT32_FAT_END_OF_FILE)
<1> DEFINE N == CLUSTER_MAP_SIZE
           of == blocks[h].of
           At(j) == /\ Follow(h)[j] \in Cluster /\ owner[Follow(h)[j]] = p
                    /\ blocks[Follow(h)[j]] # NoBlock /\ blocks[Follow(h)[j]].part = j
           T == {j \in 0 .. N : /\ j < of => At(j)
                                /\ j = of => Follow(h)[j] = Trunc16(FAT32_FAT_END_OF_FILE)}
<1>1. N \in Nat /\ h \in Nat /\ h \in DiskCluster
  BY SizeAssumption, SmallNumbers
<1>2. /\ Follow(h)[0] = h
      /\ \A j \in 0 .. N : j < N =>
           Follow(h)[j + 1] = IF Follow(h)[j] \in Cluster THEN Trunc16(diskFat[Follow(h)[j]])
                                                         ELSE Follow(h)[j]
  BY <1>1, FollowSteps
<1> HIDE DEF N
<1>3. of \in Nat /\ blocks[h] \in Block /\ p # Nobody /\ OneFile
  BY <1>1, BlockTypes, Settled DEF FilesHeld, Held
<1>4. \A c \in Cluster : owner[c] = p =>
        /\ blocks[c] # NoBlock /\ blocks[c].data = blocks[h].data /\ blocks[c].of = of
        /\ LinkedOn(c)
  BY <1>3, SameFileParts, Settled DEF FilesHeld, Held, PartsLinked
<1>5. 0 < of
  BY <1>4 DEF LinkedOn
<1> HIDE DEF of
<1>6. 0 \in T
  BY <1>1, <1>2, <1>5
<1>7. ASSUME NEW j \in 0 .. N, j \in T, j < N PROVE j + 1 \in T
  <2>1. j + 1 \in 0 .. N
    BY <1>1, <1>7
  <2>2. SUFFICES ASSUME j < of
                 PROVE  /\ j + 1 < of => At(j + 1)
                        /\ j + 1 = of => Follow(h)[j + 1] = Trunc16(FAT32_FAT_END_OF_FILE)
    BY <1>3, <2>1
  <2>3. PICK c : c = Follow(h)[j]
    OBVIOUS
  <2>4. /\ c \in Cluster /\ owner[c] = p /\ blocks[c].part = j /\ blocks[c].of = of
        /\ LinkedOn(c) /\ Follow(h)[j + 1] = Trunc16(diskFat[c])
    BY <1>2, <1>4, <1>7, <2>2, <2>3
  <2>5. CASE j + 1 = of
    BY <1>3, <2>4, <2>5 DEF LinkedOn
  <2>6. CASE j + 1 # of
    <3>1. NextPart(c)
      BY <1>3, <2>4, <2>6 DEF LinkedOn
    <3> QED BY <2>4, <2>6, <3>1, SmallNumbers DEF NextPart
  <2> QED BY <2>5, <2>6
<1> HIDE DEF T
<1>8. \A j \in 0 .. N : j \in T
  BY <1>1, <1>6, <1>7, UpTo
<1>9. ASSUME NEW j \in 0 .. N, At(j)
      PROVE  blocks[Follow(h)[j]] = [blocks[h] EXCEPT !.part = j]
  <2>1. PICK c : c = Follow(h)[j]
    OBVIOUS
  <2>2. c \in Cluster /\ owner[c] = p /\ blocks[c] # NoBlock /\ blocks[c].part = j
    BY <1>9, <2>1
  <2>3. blocks[c] = [data |-> blocks[c].data, part |-> blocks[c].part, of |-> blocks[c].of]
    BY <2>2, BlockTypes, SmallNumbers
  <2>4. blocks[c] = [data |-> blocks[h].data, part |-> j, of |-> of]
    BY <1>4, <2>2, <2>3
  <2>5. [blocks[h] EXCEPT !.part = j] = [data |-> blocks[h].data, part |-> j, of |-> of]
    BY <1>3 DEF Block, of
  <2> QED BY <2>1, <2>4, <2>5
<1> QED BY <1>8, <1>9 DEF T, N, of

(* A file has no more parts than there are clusters. *)
LEMMA PartsFit ==
  ASSUME TypeOK, Sound, FilesHeld, NEW p, OfLive(p), NEW h \in Cluster, owner[h] = p,
         blocks[h] # NoBlock, blocks[h].part = 0
  PROVE  blocks[h].of <= CLUSTER_MAP_SIZE
<1> DEFINE N == CLUSTER_MAP_SIZE
           g == [j \in 0 .. N |-> Follow(h)[j]]
<1>1. N \in Nat /\ blocks[h].of \in Nat /\ blocks[h] \in Block
  BY SizeAssumption, BlockTypes, SmallNumbers
<1>2. SUFFICES ASSUME N < blocks[h].of PROVE FALSE
  BY <1>1
<1>3. \A j \in 0 .. N : Follow(h)[j] \in Cluster /\ blocks[Follow(h)[j]] = [blocks[h] EXCEPT !.part = j]
  BY <1>1, <1>2, ChainParts
<1>4. \A j \in 0 .. N : g[j] \in Cluster /\ blocks[g[j]].part = j
  BY <1>1, <1>3 DEF Block
<1>5. g \in [0 .. N -> 0 .. N - 1]
  BY <1>4 DEF Cluster
<1> HIDE DEF g
<1>6. /\ IsFiniteSet(0 .. N) /\ IsFiniteSet(0 .. N - 1)
      /\ Cardinality(0 .. N) = N + 1 /\ Cardinality(0 .. N - 1) = N
  <2>1. 0 \in Int /\ N \in Int /\ N - 1 \in Int /\ ~(0 > N)
    BY <1>1
  <2>2. /\ IsFiniteSet(0 .. N) /\ IsFiniteSet(0 .. N - 1)
        /\ Cardinality(0 .. N) = N - 0 + 1
        /\ Cardinality(0 .. N - 1) = IF 0 > N - 1 THEN 0 ELSE N - 1 - 0 + 1
    BY <2>1, FS_Interval
  <2> QED BY <1>1, <2>2
<1>7. PICK j, k \in 0 .. N : j # k /\ g[j] = g[k]
  <2> DEFINE S == 0 .. N
             U == 0 .. N - 1
  <2>1. IsFiniteSet(S) /\ IsFiniteSet(U) /\ Cardinality(U) < Cardinality(S)
    BY <1>1, <1>6
  <2>2. g \in [S -> U]
    BY <1>5
  <2> HIDE DEF S, U
  <2>3. \E x, y \in S : x # y /\ g[x] = g[y]
    BY <2>1, <2>2, FS_PigeonHole
  <2> QED BY <2>3 DEF S
<1> QED BY <1>4, <1>7

(* So a file that is there is whole. *)
LEMMA FileWhole ==
  ASSUME TypeOK, Sound, FilesHeld, NEW c \in DiskCluster, NEW s \in Slot, Live(c, s),
         ~tables[c][s].attribute
  PROVE  Whole(tables[c][s].cluster)
<1> DEFINE h == tables[c][s].cluster
           p == <<c, s>>
<1>1. h \in Cluster /\ owner[h] = p /\ OfLive(p)
  BY FolderOwns DEF OfLive
<1>2. blocks[h] # NoBlock /\ blocks[h].part = 0
  BY DEF FilesHeld, Held, HeadsStart, Starts
<1>3. blocks[h].of \in Nat /\ CLUSTER_MAP_SIZE \in Nat
  BY <1>1, <1>2, BlockTypes, SmallNumbers, SizeAssumption
<1> HIDE DEF h, p
<1>4. blocks[h].of <= CLUSTER_MAP_SIZE
  BY <1>1, <1>2, PartsFit
<1>5. \A j \in 0 .. CLUSTER_MAP_SIZE :
        /\ j < blocks[h].of => /\ Follow(h)[j] \in Cluster
                               /\ blocks[Follow(h)[j]] = [blocks[h] EXCEPT !.part = j]
        /\ j = blocks[h].of => Follow(h)[j] = Trunc16(FAT32_FAT_END_OF_FILE)
  BY <1>1, <1>2, ChainParts
<1>6. EndOfChain(Trunc16(FAT32_FAT_END_OF_FILE))
  BY SMT DEF EndOfChain, Trunc16, FAT32_FAT_END_OF_FILE
<1>7. /\ blocks[h].of \in 0 .. CLUSTER_MAP_SIZE
      /\ \A j \in 0 .. blocks[h].of - 1 : j \in 0 .. CLUSTER_MAP_SIZE /\ j < blocks[h].of
  BY <1>3, <1>4
<1>8. EndOfChain(Follow(h)[blocks[h].of])
  BY <1>5, <1>6, <1>7
<1> QED BY <1>1, <1>2, <1>4, <1>5, <1>7, <1>8 DEF Whole, h

(* Every file that is there is whole, and no cluster is in two chains,      *)
(* whatever was deleted, taken again or interrupted.                        *)
THEOREM WholeAndApart == Spec => []ChainsIntact
<1>1. ASSUME TypeOK, ~wild => Sound /\ FilesHeld PROVE ChainsIntact
  <2> SUFFICES ASSUME Sound, FilesHeld
               PROVE  /\ \A c \in DiskCluster, s \in Slot :
                           Live(c, s) => tables[c][s].attribute \/ Whole(tables[c][s].cluster)
                      /\ \A p, q \in LivePlaces :
                           p # q => Chain(EntryAt(p).cluster) \cap Chain(EntryAt(q).cluster) = {}
    BY <1>1 DEF ChainsIntact, LivePlaces, EntryAt
  <2>1. \A c \in DiskCluster, s \in Slot :
          Live(c, s) => tables[c][s].attribute \/ Whole(tables[c][s].cluster)
    BY <1>1, FileWhole
  <2>2. ASSUME NEW p \in LivePlaces PROVE \A d \in Chain(EntryAt(p).cluster) : owner[d] = p
    <3>1. PICK c \in DiskCluster, s \in Slot : Live(c, s) /\ p = <<c, s>>
      BY <2>2 DEF LivePlaces
    <3>2. /\ OfLive(p) /\ EntryAt(p).cluster \in Cluster /\ owner[EntryAt(p).cluster] = p
      BY <3>1, FolderOwns DEF OfLive, EntryAt
    <3> QED BY <1>1, <3>2, ChainOwned DEF Chain
  <2> QED BY <2>1, <2>2
<1> QED BY <1>1, FilesAlways, TypeCorrect, PTL
=============================================================================
