-------------------------- MODULE ShellProperties --------------------------
(* What the shell's commands promise over the driver, as properties of Shell. *)
EXTENDS Shell, Fat32Properties

(* The shape of the shell's variables; a line being carried out is there    *)
(* whenever the shell is not at the prompt.                                 *)
ShellTypeOK ==
  /\ depth \in 0 .. MaxDepth
  /\ listCluster \in [0 .. MaxDepth -> DiskCluster]
  /\ listDir \in [0 .. MaxDepth -> Slot]
  /\ table \in Table /\ cl \in Payloads
  /\ at \in {"boot", "prompt", "read", "table", "write", "delete", "printing", "astray"}
  /\ command \in Commands \cup {NoCommand}
  /\ at \in {"read", "table", "write", "delete"} => command \in Commands
  /\ parent \in DiskCluster /\ dirname \in Names \cup {NoName, RootName, Garbled}
  /\ readAnswer \in -1 .. 2 /\ codeWrite \in -1 .. NotWritten
  /\ inserted \in 0 .. Len(Files)
  /\ at = "boot" => depth = 0

-----------------------------------------------------------------------------
(* Moving *)

(* A move whose source was read and whose copy was accepted never loses the *)
(* file: whatever delete then picks, by its comparison of prefixes and with *)
(* the request mv ran over, the copy stays, whole and with what was read.   *)
(* But for a copy over the boot sector; for a name of six bytes without an  *)
(* extension in a folder past cluster 255, which mv deletes from another;   *)
(* and for a name of seven bytes with one and no target behind it, which it *)
(* deletes from cluster 0 or 32.                                            *)
CopySurvivesMove ==
  /\ at = "delete" /\ command.op = "mv" /\ readAnswer = 0 /\ codeWrite = 0
  /\ ~wild /\ signature
  /\ command.ext = NoExt => listCluster[depth] < 256
  /\ command.ext # NoExt /\ NameLength(command.name) = 7 => command.dst # NoName
  => \E p \in LivePlaces :
       /\ EntryAt(p).name = command.name /\ EntryAt(p).ext = command.ext
       /\ Whole(EntryAt(p).cluster) /\ blocks[EntryAt(p).cluster].data = cl

-----------------------------------------------------------------------------
(* Walking *)

(* The folders in folder c, by entries in use, and c itself. *)
ChildFolders(c) == {EntryAt(p).cluster : p \in {q \in LivePlaces : q[1] = c /\ EntryAt(q).attribute}}
AtOrIn(c) == {c} \cup ChildFolders(c)

(* cd asks for the folder it is in by a name that may be another's by now.  *)
(* Even so it enters nothing but that folder or one at most two levels      *)
(* below it, or one that was deleted.                                       *)
CdStaysBelow ==
  [][depth' > depth =>
       \/ \E c \in AtOrIn(listCluster[depth]) : listCluster'[depth'] \in AtOrIn(c)
       \/ ~TableRead[listDir'[depth']].used]_svars

(* Right after cd the prompt ends in the name of the folder the shell is    *)
(* in, as that folder's own table has it.                                   *)
PromptNamesFolder ==
  [][depth' > depth /\ TableRead[listDir'[depth']].used =>
       /\ tables[listCluster'[depth']] # NoTable
       /\ DirName(depth)' = tables[listCluster'[depth']][0].name]_svars

(* Every line the user types is carried out, and the shell comes back to    *)
(* its prompt, but for a line that prints a long text, which no call ends;  *)
(* or it comes to where what it does is not followed.                       *)
PromptsAgain == []<>(at \in {"prompt", "printing", "astray"} \/ wild)

-----------------------------------------------------------------------------
(* "FAT reserved value for cluster 0 and 1" (fat32.h:20): cluster 0 is the  *)
(* boot sector's, and once the disk is formatted it keeps the signature.    *)
BootSectorKept == at # "boot" => signature
=============================================================================
