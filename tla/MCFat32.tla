------------------------------ MODULE MCFat32 ------------------------------
(* Small instances of Fat32 for TLC. *)
EXTENDS Fat32Properties, TLC

CONSTANTS a, ab, x, p1, p2

MCNames == {a, ab}
MCNamePrefix == {<<a, a>>, <<ab, ab>>, <<ab, a>>}
MCPayloads == {p1, p2}
(* A block of zeros, and one of a text. *)
MCBlockTables ==
  {[s \in Slot |-> EmptyEntry],
   [s \in Slot |-> [EmptyEntry EXCEPT !.name = a, !.used = (s # ENTRY_COUNT - 1),
                                      !.attribute = (s = 1), !.filesize = 1]]}
PayloadSymmetry == Permutations(MCPayloads)

(* Once a step has left its array nothing is claimed of what follows: the   *)
(* call in progress is followed to its end, and no further.                 *)
Tame == wild => pc # "idle"

(* Every scan finds what it looks for within its array. *)
RoomFound == pc \in {"mkdir_table", "file_data", "file_fat"} => cluster \in Cluster /\ slot \in Slot
=============================================================================
