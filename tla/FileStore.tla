----------------------------- MODULE FileStore -----------------------------
(***************************************************************************)
(* What callers of the FAT32 driver may think of: a store of files and     *)
(* folders, each at a place (a slot of a directory), that appear and       *)
(* disappear whole.  A file that stops half-written was never there, one   *)
(* that is there keeps its content until it is removed, and a folder is    *)
(* removed only when it is empty.  Once damaged, nothing is promised.      *)
(***************************************************************************)
CONSTANTS
  Place,   \* pairs <<directory, slot>>
  Nothing  \* the object at a place where nothing is

VARIABLES
  store,   \* the object at each place: [folder, name, ext, content], where
           \* the content of a folder is the directory it is
  damaged

Children(d) == {p \in Place : p[1] = d /\ store[p] # Nothing}

Init == store = [p \in Place |-> Nothing] /\ damaged = FALSE

(* At p, and only there, the store comes to hold o. *)
Put(p, o) == store' = [store EXCEPT ![p] = o]

CreateFile(p, o) ==
  /\ store[p] = Nothing /\ ~o.folder
  /\ \A q \in Children(p[1]) :
       ~store[q].folder => <<store[q].name, store[q].ext>> # <<o.name, o.ext>>
  /\ Put(p, o) /\ UNCHANGED damaged

(* Of a folder's name nothing is promised: write of a folder answers        *)
(* success for a name that is there, though fat32.h:222 has it answer       *)
(* "1 file/folder already exist", and the shell is ready to print that      *)
(* (user-shell.c:216).  A store that kept to the document would ask for no  *)
(* child of that name here, and the driver would not implement it.          *)
CreateFolder(p, o) ==
  /\ store[p] = Nothing /\ o.folder
  /\ Children(o.content) = {}
  /\ \A q \in Place : store[q] # Nothing /\ store[q].folder => store[q].content # o.content
  /\ Put(p, o) /\ UNCHANGED damaged

Remove(p) ==
  /\ store[p] # Nothing
  /\ store[p].folder => Children(store[p].content) = {}
  /\ Put(p, Nothing) /\ UNCHANGED damaged

Damage == damaged'

Next == \/ \E p \in Place : \/ store'[p] # Nothing /\ CreateFile(p, store'[p])
                            \/ store'[p] # Nothing /\ CreateFolder(p, store'[p])
                            \/ Remove(p)
        \/ Damage

Spec == Init /\ [][Next]_<<store, damaged>>
=============================================================================
