------------------------------ MODULE MCShell ------------------------------
(* Small instances of Shell for TLC. *)
EXTENDS ShellProperties

CONSTANTS file, longer, big, dir, sub, plain, x, y, p0, p1, p2

MCNames == {file, longer, big, dir, sub, plain}
MCNamePrefix == {<<n, n>> : n \in MCNames} \cup {<<plain, file>>, <<RootName, RootName>>}
MCNameLength(n) == IF n = longer THEN 6 ELSE IF n = plain THEN 5 ELSE 3
AtRoot(n, size, content) ==
  [name |-> n, ext |-> x, parent |-> ROOT_CLUSTER_NUMBER, size |-> size, data |-> content]
MCFiles == <<AtRoot(file, 1, p1), AtRoot(big, 2, p2)>>

Cmd(op, n, t, to) == [op |-> op, name |-> n, ext |-> t, dst |-> to]
MCCommands ==
  {Cmd("cd", n, NoExt, NoName) : n \in {dir, sub, RootName}} \cup
  {Cmd("mkdir", n, NoExt, NoName) : n \in {dir, sub}} \cup
  {Cmd("rm", n, NoExt, NoName) : n \in {dir, sub}} \cup
  {Cmd("rm", file, x, NoName), Cmd("cat", file, x, NoName), Cmd("cat", big, x, NoName),
   Cmd("ls", NoName, NoExt, NoName), Cmd("find", NoName, NoExt, NoName)} \cup
  {Cmd("cp", big, x, dir)} \cup
  {Cmd(op, n, x, dir) : op \in {"cp", "mv"}, n \in {file, longer}} \cup
  {Cmd(op, plain, NoExt, n) : op \in {"cp", "mv"}, n \in {NoName, dir}}

InBounds == /\ wild => pc # "idle"
            /\ at # "astray"
            /\ \A c \in DiskCluster : tables[c] # NoTable =>
                 \A s \in Slot : tables[c][s].filesize + BufferSize <= MaxFileSize
=============================================================================
