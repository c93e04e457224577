------------------------------- MODULE Shell -------------------------------
(***************************************************************************)
(* The commands of the shell (src/src/user-shell.c) over the driver they   *)
(* call: a command is a few system calls, each one step to make and one    *)
(* to take its answer, with the driver's own steps in between.             *)
(*                                                                         *)
(* Every command declares its struct FAT32DirectoryTable in the same place *)
(* of parseCommand's frame, and nothing else is put there between two      *)
(* commands, so it is one variable, table.  listDir holds pointers into it *)
(* (but listDir[0], a literal), so a name of the path is the name some     *)
(* slot of table has now.                                                  *)
(***************************************************************************)
EXTENDS Fat32

CONSTANTS
  BUFFER_CLUSTERS,  \* clusters a command reads or writes at once (5 in the code)
  NameLength(_),    \* bytes of a name
  GarbledExt,       \* an extension a copy ran over
  Zeros,            \* what cl holds before anything is read into it
  LongTexts,        \* contents with 256 bytes or more before the first zero
  Files,            \* what the disk holds when the shell starts, in order of writing
  Commands,         \* what the user may type
  NoCommand,
  MaxDepth,         \* bound: listCluster and listDir have 100 elements, and nothing looks
  MaxChanges        \* bound: how many commands that may change the disk are typed

VARIABLES
  depth, listCluster, listDir,  \* the path: its clusters, and the slots of table its names are in
  table,                        \* the directory read last
  cl,                           \* the content of the file read last
  at,                           \* the system call the command is at
  command,                      \* the line typed
  parent, dirname,              \* the parent of its next request; listDir[depth] when it began
  readAnswer, codeWrite,        \* what read and write answered to cp or mv
  inserted,                     \* how many of Files are on the disk
  changes                       \* bookkeeping: how many such commands were typed

path == <<depth, listCluster, listDir>>
line == <<command, parent, dirname, readAnswer, codeWrite>>
driver == vars
shell == <<path, table, cl, at, line, inserted, changes>>
svars == <<driver, shell>>

(* A line, taken apart.  cp and mv find the target behind the extension: of *)
(* a line without one all is the name, and the target is in what was erased *)
(* behind it, or empty.                                                     *)
Command ==
  [op : {"cd", "mkdir", "cat", "rm", "cp", "mv", "ls", "find"},
   name : Names \cup {RootName, NoName}, ext : Exts \cup {NoExt},
   dst : Names \cup {RootName, NoName}]

ASSUME ShellAssumption ==
  /\ BUFFER_CLUSTERS \in Nat \ {0} /\ MaxDepth \in Nat /\ MaxChanges \in Nat
  /\ \A n \in Names : NameLength(n) \in 1 .. 8
  /\ GarbledExt \in Exts /\ Zeros \in Payloads /\ LongTexts \subseteq Payloads
  /\ Files \in Seq(Request)
  /\ \A k \in DOMAIN Files : /\ Files[k].parent = ROOT_CLUSTER_NUMBER
                             /\ Files[k].size # 0 /\ Files[k].data \in Payloads
  /\ Commands \subseteq Command /\ NoCommand \notin Command
  /\ \A c \in Commands : c.op \notin {"cd", "ls", "find"} => c.name \in Names
  \* what mv leaves in ext is that extension moved by a byte or two, or erased bytes
  /\ \A c \in Commands : c.ext # GarbledExt

BufferSize == BUFFER_CLUSTERS * CLUSTER_SIZE
ZeroTable == [s \in Slot |-> EmptyEntry]

(* codeWrite before write has answered: what lay on the stack, printed only. *)
NotWritten == 3

-----------------------------------------------------------------------------
(* The path *)

DirName(k) == IF k = 0 THEN RootName ELSE table[listDir[k]].name

(* ls and find ask the folder above for the one they are in. *)
Above == listCluster[IF depth = 0 THEN 0 ELSE depth - 1]

(* Mutant: cd asks the folder above, too. *)
ParentAskedAbove(c) == IF c.op \in {"cd", "ls", "find"} THEN Above ELSE listCluster[depth]

ParentAsked(c) == IF c.op \in {"ls", "find"} THEN Above ELSE listCluster[depth]

Changing == {"mkdir", "rm", "cp", "mv"}

FirstCall(op) == CASE op \in {"cat", "cp", "mv"} -> "read"
                   [] op \in {"cd", "ls", "find"} -> "table"
                   [] op = "mkdir" -> "write"
                   [] op = "rm" -> "delete"

(* A line is typed that needs the driver: the requests are filled in. *)
Type(c) ==
  /\ at = "prompt" /\ pc = "idle"
  /\ c.op = "cd" => depth < MaxDepth
  /\ c.op \in Changing => changes < MaxChanges
  /\ changes' = IF c.op \in Changing THEN changes + 1 ELSE changes
  /\ command' = c /\ at' = FirstCall(c.op)
  /\ parent' = ParentAsked(c) /\ dirname' = DirName(depth)
  /\ UNCHANGED <<driver, path, table, cl, readAnswer, codeWrite, inserted>>

(* Mutant: cd .. does not look where it is. *)
UpUnchecked ==
  /\ at = "prompt" /\ pc = "idle"
  /\ depth' = depth - 1
  /\ listCluster' = [listCluster EXCEPT ![depth] = 0]
  /\ listDir' = [listDir EXCEPT ![depth] = 0]
  /\ UNCHANGED <<driver, table, cl, at, line, inserted, changes>>

(* cd ..  At the root the shell only says so.  What is above depth is dead. *)
Up == /\ at = "prompt" /\ pc = "idle" /\ depth > 0
      /\ depth' = depth - 1
      /\ listCluster' = [listCluster EXCEPT ![depth] = 0]
      /\ listDir' = [listDir EXCEPT ![depth] = 0]
      /\ UNCHANGED <<driver, table, cl, at, line, inserted, changes>>

-----------------------------------------------------------------------------
(* System calls *)

Ask(n, e, p, size, content) ==
  [name |-> n, ext |-> e, parent |-> p, size |-> size, data |-> content]

(* The parent's cluster may hold a file's block by now (cd enters deleted   *)
(* folders, cp and mv write into files): what the driver makes of it as a   *)
(* table is not followed, nor is what is done past the disk, after a call   *)
(* has used a stray index or on a disk without its boot sector.             *)
(* read_directory and write look at the FAT first.                          *)
Readable == /\ pc = "idle" /\ ~wild /\ signature /\ parent \in Cluster
            /\ \/ HasTable(parent)
               \/ at \in {"table", "write"} /\ fat_table[parent] = FAT32_FAT_EMPTY_ENTRY

GoAstray ==
  /\ at \in {"read", "table", "write", "delete"}
  /\ pc = "idle" /\ ~Readable
  /\ at' = "astray"
  /\ UNCHANGED <<driver, path, table, cl, line, inserted, changes>>

ReadCall ==
  /\ at = "read" /\ Readable
  /\ LET r == Ask(command.name, command.ext, parent, BufferSize, NoBlock)
         t == tables[r.parent]
     IN ReadRefused(r, t) \/ ReadFile(r, t)
  /\ UNCHANGED shell

(* struct FAT32DirectoryTable table = {} *)
TableCall ==
  /\ at = "table" /\ Readable
  /\ table' = ZeroTable
  /\ ReadDirectory(Ask(dirname, NoExt, parent, 0, NoBlock), tables[parent])
  /\ UNCHANGED <<path, cl, at, line, inserted, changes>>

(* mkdir, or the copy of cp and mv: all of the buffer, whatever was read. *)
WriteCall ==
  /\ at = "write" /\ Readable
  /\ LET r == IF command.op = "mkdir"
              THEN Ask(command.name, NoExt, parent, 0, Zeros)
              ELSE Ask(command.name, command.ext, parent, BufferSize, cl)
         t == tables[r.parent]
     IN WriteBadParent(r) \/ WriteDuplicate(r, t) \/ MkdirFat(r, t) \/ StartWriteFile(r, t)
  /\ UNCHANGED shell

(* mv runs getExt once more, which goes on counting: of the line, twice the *)
(* name's length is copied into its last request, over ext from the 9th     *)
(* byte on and over the parent's number from the 12th.                      *)
Copied(c) == IF c.op = "mv" THEN 2 * NameLength(c.name) ELSE 8

(* Behind a line without an extension are zeros, or first what was erased.  *)
Zeroed(c) == CASE Copied(c) <= 11 -> parent
               [] Copied(c) = 12 -> parent - (parent % 256)
               [] OTHER -> 0
Overrun(c) == IF Copied(c) <= 11 THEN {parent} ELSE DiskCluster

(* Behind a name of seven bytes the extension is copied where it was, and   *)
(* the parent's number is that of a blank, or zero, and two bytes of the    *)
(* target: past the disk unless there is none.                              *)
BLANK == 32
BehindSeven(c) == StrayClusters \cup IF c.dst = NoName THEN {0, BLANK} \cap DiskCluster ELSE {}

(* The extension and the parent of the request of rm, and of mv's last.     *)
Deleted(c) ==
  IF Copied(c) <= 8 THEN {<<c.ext, parent>>}
  ELSE IF c.ext = NoExt THEN {<<NoExt, Zeroed(c)>>} \cup {GarbledExt} \X Overrun(c)
  ELSE IF Copied(c) = 14 THEN {c.ext} \X BehindSeven(c)
  ELSE {GarbledExt} \X Overrun(c)

DeleteCall ==
  /\ at = "delete" /\ Readable
  /\ \E d \in Deleted(command) :
       LET r == Ask(command.name, d[1], d[2], 0, NoBlock)
           t == tables[r.parent]
       IN /\ HasTable(d[2])
          /\ DeleteRefused(r, t) \/ DeleteDir(r, t) \/ DeleteFile(r, t)
  /\ UNCHANGED shell

Calls == ReadCall \/ TableCall \/ WriteCall \/ DeleteCall

-----------------------------------------------------------------------------
(* Answers *)

(* The line has been carried out, or never will be. *)
Ends(where) == /\ at' = where /\ command' = NoCommand /\ parent' = 0 /\ dirname' = NoName
               /\ readAnswer' = 0 /\ codeWrite' = NotWritten

(* Back to the prompt. *)
Done == Ends("prompt")

Answered(step, ops) == SyscallReturn /\ at = step /\ command.op \in ops

(* What read_directory left in table. *)
TableRead == IF reply.code = 0 THEN tables[tables[reply.place[1]][reply.place[2]].cluster]
             ELSE ZeroTable

(* Mutant: the name is pointed to before the depth changes. *)
EnterSlotLate(s) ==
  /\ depth' = depth + 1
  /\ listCluster' = [listCluster EXCEPT ![depth + 1] = TableRead[s].cluster]
  /\ listDir' = [listDir EXCEPT ![depth] = s]

EnterSlot(s) ==
  /\ depth' = depth + 1
  /\ listCluster' = [listCluster EXCEPT ![depth + 1] = TableRead[s].cluster]
  /\ listDir' = [listDir EXCEPT ![depth + 1] = s]

(* The first entry of that name, in use or not, is entered if it is a       *)
(* folder; entry 0, the folder itself, is one of them.                      *)
CdAnswered ==
  /\ Answered("table", {"cd"})
  /\ LET named == {s \in Slot : TableRead[s].name = command.name}
     IN \/ \E s \in Slot : IsFirst(s, named) /\ TableRead[s].attribute /\ EnterSlot(s)
        \/ /\ \A s \in Slot : IsFirst(s, named) => ~TableRead[s].attribute
           /\ UNCHANGED path
  /\ table' = TableRead
  /\ Done /\ UNCHANGED <<cl, inserted, changes>>

(* ls, if the three bytes of its return code nobody sets are zero, puts the *)
(* folder's name back where the path looks for it, as soon as it comes to   *)
(* an entry without a name.                                                 *)
LsAnswered ==
  /\ Answered("table", {"ls"})
  /\ table' \in {TableRead} \cup
       {[TableRead EXCEPT ![listDir[depth]] = [@ EXCEPT !.name = dirname]] :
          s \in {x \in Slot : /\ reply.code = 0 /\ depth > 0
                              /\ TableRead[x].name = NoName}}
  /\ Done /\ UNCHANGED <<path, cl, inserted, changes>>

FindAnswered ==
  /\ Answered("table", {"find"})
  /\ table' = TableRead
  /\ Done /\ UNCHANGED <<path, cl, inserted, changes>>

(* cl takes what read found; a refused read leaves it as it was.            *)
FillBuffer == cl' = IF reply.code = 0 /\ buf # <<>> /\ buf[1] # NoBlock THEN buf[1].data ELSE cl

(* cl is one cluster and the last of the data: a longer file runs over the  *)
(* literals behind it, the commands' names and the root's among them, and   *)
(* what the shell does then is not followed.  A copy is longer, too, but    *)
(* holds what was there when cp or mv wrote it: only what was on the disk   *)
(* before the shell differs.                                                *)
LongData == {Files[k].data : k \in {n \in DOMAIN Files : Files[n].size > CLUSTER_SIZE}}
RunsOver == reply.code = 0 /\ cl' \in LongData

(* The content is printed in one call, whose counter is a byte: it never    *)
(* comes to the end of a long text.                                         *)
CatAnswered ==
  /\ Answered("read", {"cat"}) /\ FillBuffer
  /\ Ends(IF reply.code = 0 /\ cl' \in LongTexts THEN "printing"
          ELSE IF RunsOver THEN "astray" ELSE "prompt")
  /\ UNCHANGED <<path, table, inserted, changes>>

(* cp and mv go on whatever read says, with the folder they are in. *)
CopyRead ==
  /\ Answered("read", {"cp", "mv"}) /\ FillBuffer
  /\ readAnswer' = reply.code
  /\ at' = IF RunsOver THEN "astray" ELSE "table"
  /\ UNCHANGED <<path, table, command, parent, dirname, codeWrite, inserted, changes>>

(* The target: the first entry whose name begins so, in use or not, a       *)
(* folder or not.  Without one nothing is written, and mv deletes.          *)
Targets(t) == {s \in Slot : command.dst = NoName \/ <<t[s].name, command.dst>> \in NamePrefix}

(* Mutant: the search goes on behind the last entry. *)
NoTargetUnnoticed == FALSE

NoTarget == Targets(TableRead) = {}

CopyTarget ==
  /\ Answered("table", {"cp", "mv"})
  /\ table' = TableRead
  /\ \/ /\ \E s \in Slot : /\ IsFirst(s, Targets(TableRead))
                           /\ parent' = TableRead[s].cluster
        /\ at' = "write"
        /\ UNCHANGED <<command, dirname, readAnswer, codeWrite>>
     \/ /\ NoTarget /\ command.op = "mv"
        /\ at' = "delete" /\ parent' = listCluster[depth]
        /\ UNCHANGED <<command, dirname, readAnswer, codeWrite>>
     \/ NoTarget /\ command.op = "cp" /\ Done
  /\ UNCHANGED <<path, cl, inserted, changes>>

(* Mutant: the request of the copy is used again. *)
MoveWrittenThere ==
  /\ Answered("write", {"mv"})
  /\ codeWrite' = reply.code
  /\ at' = "delete"
  /\ UNCHANGED <<path, table, cl, command, parent, dirname, readAnswer, inserted, changes>>

(* mv goes on whatever write says, too. *)
MoveWritten ==
  /\ Answered("write", {"mv"})
  /\ codeWrite' = reply.code
  /\ at' = "delete" /\ parent' = listCluster[depth]
  /\ UNCHANGED <<path, table, cl, command, dirname, readAnswer, inserted, changes>>

LastAnswered ==
  /\ Answered("write", {"mkdir", "cp"}) \/ Answered("delete", {"rm", "mv"})
  /\ Done /\ UNCHANGED <<path, table, cl, inserted, changes>>

(* puts goes on printing, with interrupts off. *)
PutsForever == at = "printing" /\ UNCHANGED svars

Answers == \/ CdAnswered \/ LsAnswered \/ FindAnswered \/ CatAnswered
           \/ CopyRead \/ CopyTarget \/ MoveWritten \/ LastAnswered

-----------------------------------------------------------------------------
(* Before the shell runs: the disk is formatted, the program's file written *)
(* by the inserter and another by the kernel.                               *)

Insert ==
  /\ at = "boot" /\ inserted < Len(Files)
  /\ ~wild /\ HasTable(ROOT_CLUSTER_NUMBER)
  /\ StartWriteFile(Files[inserted + 1], tables[ROOT_CLUSTER_NUMBER])
  /\ inserted' = inserted + 1
  /\ UNCHANGED <<path, table, cl, at, line, changes>>

InsertAnswered == /\ at = "boot" /\ SyscallReturn
                  /\ UNCHANGED shell

Main == /\ at = "boot" /\ pc = "idle" /\ inserted = Len(Files)
        /\ at' = "prompt"
        /\ listCluster' = [listCluster EXCEPT ![0] = ROOT_CLUSTER_NUMBER]
        /\ UNCHANGED <<driver, depth, listDir, table, cl, line, inserted, changes>>

ShellInit ==
  /\ Init
  /\ depth = 0 /\ listCluster = [k \in 0 .. MaxDepth |-> 0]
  /\ listDir = [k \in 0 .. MaxDepth |-> 0]
  /\ table = ZeroTable /\ cl = Zeros
  /\ at = "boot" /\ command = NoCommand /\ parent = 0 /\ dirname = NoName
  /\ readAnswer = 0 /\ codeWrite = NotWritten /\ inserted = 0 /\ changes = 0

(* The driver goes on with the call it is in. *)
DriverStep == /\ \/ Mount \/ FormatBoot \/ FormatFat \/ FormatRoot
                 \/ ReadBlock \/ ReadReturn \/ MkdirTable \/ MkdirEntry
                 \/ FileData \/ FileFat \/ FileEntry
                 \/ DeleteDirFat \/ DeleteWalk \/ DeleteFree
              /\ UNCHANGED shell

Running == \/ DriverStep \/ Calls \/ Answers \/ GoAstray
           \/ Insert \/ InsertAnswered \/ Main \/ PutsForever

User == Up \/ \E c \in Commands : Type(c)

(* The machine stays on; the user need not type. *)
ShellSpec == ShellInit /\ [][User \/ Running]_svars /\ WF_svars(Running)
=============================================================================
