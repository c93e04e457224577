---------------------------- MODULE PagingProofs ----------------------------
(***************************************************************************)
(* Theorems about Paging, for any number of frames and any directory.  The *)
(* two properties are one inductive invariant: that the count lies right   *)
(* behind the map is what keeps it from passing below zero, and the        *)
(* balance is what says that an operation then finds it at zero.           *)
(***************************************************************************)
EXTENDS Paging, FiniteSetTheorems, TLAPS

PagingInductive == PagingTypeOK /\ FramesBalance

LEMMA PagesFinite == IsFiniteSet(Pages) /\ Cardinality(Pages) \in Nat
<1> DEFINE low == 0
           high == 1023
           all == low .. high
<1>1. low \in Int /\ high \in Int
  OBVIOUS
<1>2. Pages \in SUBSET all
  BY PagingAssumption
<1> HIDE DEF low, high
<1>3. IsFiniteSet(all)
  BY <1>1, FS_Interval, Zenon
<1> HIDE DEF all
<1>4. IsFiniteSet(Pages)
  BY <1>2, <1>3, FS_Subset, Zenon
<1> QED BY <1>4, FS_CardinalityType, Zenon

LEMMA PagesCount ==
  ASSUME NEW S \in SUBSET Pages
  PROVE  IsFiniteSet(S) /\ Cardinality(S) \in Nat /\ Cardinality(S) <= Cardinality(Pages)
<1>1. IsFiniteSet(S) /\ Cardinality(S) <= Cardinality(Pages)
  BY PagesFinite, FS_Subset, Zenon
<1> QED BY <1>1, FS_CardinalityType, Zenon

LEMMA FrameGivenType ==
  ASSUME free_page_frame_count \in Nat PROVE FrameGiven \in 0 .. 1023
  BY DEF FrameGiven

(* The pages of the user after an operation. *)
LEMMA Given ==
  ASSUME PagingTypeOK, NEW p \in Pages, ~page_dir[p].user, Allocate(p)
  PROVE  /\ page_dir' \in [Pages -> PageEntry]
         /\ Cardinality(UserPages') = Cardinality(UserPages) + 1
<1>1. FrameGiven \in 0 .. 1023
  BY FrameGivenType DEF PagingTypeOK
<1> DEFINE e == [present |-> TRUE, user |-> TRUE, frame |-> FrameGiven]
<1>2. e \in PageEntry /\ e.user
  BY <1>1 DEF PageEntry
<1>3. page_dir' = [page_dir EXCEPT ![p] = e]
  BY DEF Allocate
<1>4. page_dir \in [Pages -> PageEntry]
  BY DEF PagingTypeOK
<1> HIDE DEF e
<1>5. page_dir' \in [Pages -> PageEntry]
  BY <1>2, <1>3, <1>4
<1>6. UserPages' = UserPages \cup {p} /\ p \notin UserPages
  BY <1>2, <1>3, <1>4 DEF UserPages
<1>7. IsFiniteSet(UserPages)
  BY PagesCount DEF UserPages
<1>8. Cardinality(UserPages \cup {p}) = Cardinality(UserPages) + 1
  BY <1>6, <1>7, FS_AddElement, Zenon
<1> QED BY <1>5, <1>6, <1>8

LEMMA TakenBack ==
  ASSUME PagingTypeOK, NEW p \in Pages, page_dir[p].user, Free(p)
  PROVE  /\ page_dir' \in [Pages -> PageEntry]
         /\ Cardinality(UserPages') = Cardinality(UserPages) - 1
<1>1. NotPresent \in PageEntry /\ ~NotPresent.user
  BY DEF NotPresent, PageEntry
<1>2. page_dir' = [page_dir EXCEPT ![p] = NotPresent]
  BY DEF Free
<1>3. page_dir \in [Pages -> PageEntry]
  BY DEF PagingTypeOK
<1>4. page_dir' \in [Pages -> PageEntry]
  BY <1>1, <1>2, <1>3
<1>5. UserPages' = UserPages \ {p} /\ p \in UserPages
  BY <1>1, <1>2, <1>3 DEF UserPages
<1>6. IsFiniteSet(UserPages)
  BY PagesCount DEF UserPages
<1>7. Cardinality(UserPages \ {p}) = Cardinality(UserPages) - 1
  BY <1>5, <1>6, FS_RemoveElement, Zenon
<1> QED BY <1>4, <1>5, <1>7

LEMMA PagingStart == PagingInit => PagingInductive
<1> SUFFICES ASSUME PagingInit PROVE PagingInductive
  OBVIOUS
<1>1. PagingTypeOK
  BY PagingAssumption DEF PagingInit, PagingTypeOK, KernelEntry, NotPresent, PageEntry, Frame
<1>2. UserPages = {}
  BY DEF PagingInit, UserPages, KernelEntry, NotPresent
<1>3. Cardinality(UserPages) = 0
  BY <1>2, FS_EmptySet
<1>4. FramesBalance
  BY <1>3, PagesFinite, PagingAssumption DEF PagingInit, FramesBalance, Larger
<1> QED BY <1>1, <1>4 DEF PagingInductive

LEMMA PagingStep == PagingInductive /\ [PagingNext]_pvars => PagingInductive'
<1> SUFFICES ASSUME PagingInductive, [PagingNext]_pvars PROVE PagingInductive'
  OBVIOUS
<1> USE DEF PagingInductive
<1> DEFINE taken == Cardinality(UserPages)
           count == free_page_frame_count
           max == PAGE_FRAME_MAX_COUNT
<1>1. /\ count \in Nat /\ taken \in Nat /\ max \in Nat \ {0} /\ Cardinality(Pages) \in Nat
      /\ count + taken >= max
      /\ count + taken <= Larger(max, Cardinality(Pages))
  <2>1. taken \in Nat
    BY PagesCount DEF UserPages
  <2> QED BY <2>1, PagesFinite, PagingAssumption DEF PagingTypeOK, FramesBalance
<1>2. ASSUME NEW p \in Pages, ~page_dir[p].user, Allocate(p)
      PROVE  PagingInductive'
  <2>1. page_dir' \in [Pages -> PageEntry] /\ taken' = taken + 1 /\ taken' <= Cardinality(Pages)
    <3>1. page_dir' \in [Pages -> PageEntry] /\ taken' = taken + 1
      BY <1>2, Given
    <3>2. UserPages' \in SUBSET Pages
      BY DEF UserPages
    <3> QED BY <3>1, <3>2, PagesCount
  <2>2. count' = (IF count = 0 THEN 1 ELSE count) - 1
    BY <1>1, <1>2 DEF Allocate, CountMarked, FrameMarked
  <2>3. page_frame_map' = [f \in Frame |-> IF f = max - count THEN TRUE ELSE page_frame_map[f]]
    BY <1>2 DEF Allocate, MapMarked, FrameMarked
  <2>4. page_frame_map' \in [Frame -> BOOLEAN]
    BY <2>3 DEF PagingTypeOK
  <2>5. PagingTypeOK'
    BY <2>1, <2>2, <2>4, <1>1 DEF PagingTypeOK
  <2>6. FramesBalance'
    BY <2>1, <2>2, <1>1 DEF FramesBalance, Larger
  <2> QED BY <2>5, <2>6
<1>3. ASSUME NEW p \in Pages, page_dir[p].user, Free(p)
      PROVE  PagingInductive'
  <2>1. page_dir' \in [Pages -> PageEntry] /\ taken' = taken - 1
    BY <1>3, TakenBack
  <2>2. count' = count + 1
    BY <1>1, <1>3 DEF Free, CountMarked, FrameMarked
  <2>3. page_frame_map' = [f \in Frame |-> IF f = max - count THEN FALSE ELSE page_frame_map[f]]
    BY <1>3 DEF Free, MapMarked, FrameMarked
  <2>4. page_frame_map' \in [Frame -> BOOLEAN]
    BY <2>3 DEF PagingTypeOK
  <2>5. PagingTypeOK'
    BY <2>1, <2>2, <2>4, <1>1 DEF PagingTypeOK
  <2>6. FramesBalance'
    BY <2>1, <2>2, <1>1 DEF FramesBalance, Larger
  <2> QED BY <2>5, <2>6
<1>4. CASE UNCHANGED pvars
  BY <1>4 DEF pvars, PagingTypeOK, FramesBalance, UserPages
<1> QED BY <1>2, <1>3, <1>4 DEF PagingNext

-----------------------------------------------------------------------------
(* The directory, the map and the count keep their shape (paging.c:30-96).  *)
THEOREM PagingTypeCorrect == PagingSpec => []PagingTypeOK
<1>1. PagingInductive => PagingTypeOK
  BY DEF PagingInductive
<1> QED BY <1>1, PagingStart, PagingStep, PTL DEF PagingSpec

(* Allocating past the last frame does not wrap the count, and no sequence  *)
(* of allocations and frees makes it exceed the pages there are, or fall    *)
(* short of the frames that are free (paging.c:70-73, 91-93).               *)
THEOREM CountHolds == PagingSpec => []FramesBalance
<1>1. PagingInductive => FramesBalance
  BY DEF PagingInductive
<1> QED BY <1>1, PagingStart, PagingStep, PTL DEF PagingSpec
=============================================================================
