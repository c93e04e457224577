------------------------------- MODULE Paging -------------------------------
(***************************************************************************)
(* The page manager (src/src/paging.c): a page directory of 4 MiB pages,   *)
(* a map of the frames in use and, packed right behind it, the number of   *)
(* free ones, which also chooses the frame.  The kernel allocates one page *)
(* when it boots (Boot) and never frees one; the operations are public, and *)
(* PagingNext is any caller that allocates a page that is not the user's   *)
(* and frees one that is.                                                  *)
(***************************************************************************)
EXTENDS Integers, FiniteSets

CONSTANTS
  PAGE_FRAME_MAX_COUNT,  \* frames of the machine (32 in the code)
  Pages,                 \* indices of the directory (0 .. 1023 in the code)
  KernelPage             \* the entry of the kernel (768 in the code)

ASSUME PagingAssumption ==
  /\ PAGE_FRAME_MAX_COUNT \in Nat \ {0}
  /\ Pages \subseteq 0 .. 1023 /\ KernelPage \in Pages \ {0} /\ 0 \in Pages

VARIABLES
  page_dir,              \* the kernel's page directory
  page_frame_map,        \* page_manager_state
  free_page_frame_count

pvars == <<page_dir, page_frame_map, free_page_frame_count>>

Frame == 0 .. PAGE_FRAME_MAX_COUNT - 1
PageEntry == [present : BOOLEAN, user : BOOLEAN, frame : 0 .. 1023]
NotPresent == [present |-> FALSE, user |-> FALSE, frame |-> 0]
KernelEntry == [present |-> TRUE, user |-> FALSE, frame |-> 0]

UserPages == {p \in Pages : page_dir[p].user}

PagingInit ==
  /\ page_dir = [p \in Pages |-> IF p \in {0, KernelPage} THEN KernelEntry ELSE NotPresent]
  /\ page_frame_map = [f \in Frame |-> f = 0]
  /\ free_page_frame_count = PAGE_FRAME_MAX_COUNT

(* The address given to the entry is the number of free frames; the entry   *)
(* keeps its upper ten bits.                                                *)
FrameGiven == (free_page_frame_count \div 4194304) % 1024

(* The frame either operation marks. *)
FrameMarked == PAGE_FRAME_MAX_COUNT - free_page_frame_count

(* page_frame_map[FrameMarked] = mark, as the count sees it: the byte behind *)
(* the map is the count's lowest, and it is reached when the count is 0.    *)
CountMarked(mark) ==
  IF FrameMarked = PAGE_FRAME_MAX_COUNT THEN (IF mark THEN 1 ELSE 0)
  ELSE free_page_frame_count

(* ... and as the map sees it; what lies before it is not followed. *)
MapMarked(mark) == [f \in Frame |-> IF f = FrameMarked THEN mark ELSE page_frame_map[f]]

(* paging_allocate_check *)
Available(amount) == amount <= free_page_frame_count

(* It is asked for as many frames as are free, so it never refuses. *)
Allocate(p) ==
  /\ Available(free_page_frame_count)
  /\ page_dir' = [page_dir EXCEPT ![p] = [present |-> TRUE, user |-> TRUE, frame |-> FrameGiven]]
  /\ page_frame_map' = MapMarked(TRUE)
  /\ free_page_frame_count' = CountMarked(TRUE) - 1

(* The mark it clears is that of the frame to be given next, not of the     *)
(* page's: a mark is not "True when the page frame is currently used"       *)
(* (paging.h) once a page was freed.                                        *)
Free(p) ==
  /\ page_dir' = [page_dir EXCEPT ![p] = NotPresent]
  /\ page_frame_map' = MapMarked(FALSE)
  /\ free_page_frame_count' = CountMarked(FALSE) + 1

PagingNext == \E p \in Pages \ {KernelPage} :
                \/ ~page_dir[p].user /\ Allocate(p)
                \/ page_dir[p].user /\ Free(p)

PagingSpec == PagingInit /\ [][PagingNext]_pvars

-----------------------------------------------------------------------------
(* The shape of the directory, the map and the count. *)
PagingTypeOK ==
  /\ page_dir \in [Pages -> PageEntry]
  /\ page_frame_map \in [Frame -> BOOLEAN]
  /\ free_page_frame_count \in Nat

Larger(m, n) == IF m > n THEN m ELSE n

(* However many pages are allocated, past the last frame too, the count     *)
(* never passes below zero, and with the pages it makes up at least the     *)
(* frames there are and at most the pages there are.                        *)
FramesBalance ==
  LET taken == Cardinality(UserPages)
  IN /\ free_page_frame_count >= 0
     /\ free_page_frame_count + taken >= PAGE_FRAME_MAX_COUNT
     /\ free_page_frame_count + taken <= Larger(PAGE_FRAME_MAX_COUNT, Cardinality(Pages))
=============================================================================
