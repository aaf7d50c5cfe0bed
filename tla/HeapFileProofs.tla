---------------------------- MODULE HeapFileProofs ----------------------------
(***************************************************************************)
(* Proofs about HeapFile, for any number of slots, pages, tuples and       *)
(* transactions and any capacity of the pool: what holds whatever fails,   *)
(* what pool and file together keep, and that they implement HeapTable.    *)
(***************************************************************************)
EXTENDS HeapFile, FiniteSetTheorems, WellFoundedInduction, TLAPS

-------------------------------------------------------------------------------
(* Pages.                                                                  *)

(* The search for an empty slot of HeapPage::insertTuple finds the least   *)
(* one of a page that has any.                                             *)
LEMMA FirstEmptySlotIsEmpty ==
    ASSUME NEW x, emptySlots(x) # {}
    PROVE  firstEmptySlot(x) \in emptySlots(x)
<1> DEFINE R == { ss \in Nat \X Nat : ss[1] < ss[2] }
<1>1. emptySlots(x) \subseteq Nat
  BY NumSlotsAssumption DEF emptySlots, Slot
<1>2. IsWellFoundedOn(R, Nat)
  BY NatLessThanWellFounded DEF OpToRel
<1>3. PICK s \in emptySlots(x) : \A r \in emptySlots(x) : <<r, s>> \notin R
  <2> HIDE DEF R
  <2> QED BY <1>1, <1>2, WFMin
<1>4. \A r \in emptySlots(x) : s <= r
  <2> TAKE r \in emptySlots(x)
  <2>1. r \in Nat /\ s \in Nat
    BY <1>1
  <2>2. ~ (r < s)
    BY <1>3, <2>1
  <2> QED BY <2>1, <2>2
<1> QED BY <1>3, <1>4 DEF firstEmptySlot

(* Page objects and their bytes have their types, whatever is done to them. *)
LEMMA PageTypes ==
    /\ createEmptyPageData \in Data
    /\ \A x \in Page : getPageData(x) \in Data
    /\ \A d \in Data : HeapPageOf(d) \in Page
    /\ \A x \in Page, s \in Slot : deleteTuple(x, s) \in Page
    /\ \A x \in Page, t \in Row : hasEmptySlot(x) => insertTuple(x, t) \in Page
<1>1. createEmptyPageData \in Data
  BY DEF createEmptyPageData, Data, Row
<1>2. ASSUME NEW x \in Page PROVE getPageData(x) \in Data
  BY DEF getPageData, Page, Data, Row
<1>3. ASSUME NEW d \in Data PROVE HeapPageOf(d) \in Page
  BY DEF HeapPageOf, Page, Data, Row
<1>4. ASSUME NEW x \in Page, NEW s \in Slot PROVE deleteTuple(x, s) \in Page
  BY DEF deleteTuple, Page
<1>5. ASSUME NEW x \in Page, NEW t \in Row, hasEmptySlot(x)
      PROVE  insertTuple(x, t) \in Page
  <2>1. firstEmptySlot(x) \in Slot
    BY <1>5, FirstEmptySlotIsEmpty DEF hasEmptySlot, emptySlots
  <2> QED BY <2>1 DEF insertTuple, Page
<1> QED BY <1>1, <1>2, <1>3, <1>4, <1>5

-------------------------------------------------------------------------------
(* Types.                                                                  *)

(* What the writes of a step leave in the file has the type of the file,   *)
(* and a file never shrinks.                                               *)
LEMMA WriteTypes ==
    ASSUME PoolTypeOK, NEW S, S \subseteq Cached, writePages(S)
    PROVE  /\ disk' \in [PageNo -> Data]
           /\ fileLen' \in 0 .. MaxPages
           /\ fileLen' >= fileLen
<1>1. PICK W \in SUBSET S, n \in 0 .. MaxPages :
        /\ n >= fileLen
        /\ disk' = [p \in PageNo |->
                      IF p \in W THEN getPageData(pages[p].page) ELSE disk[p]]
        /\ fileLen' = n
  BY DEF writePages, Extent
<1>2. ASSUME NEW p \in W PROVE getPageData(pages[p].page) \in Data
  <2>1. pages[p] \in Frame
    BY <1>2 DEF PoolTypeOK, Cached
  <2> QED BY <2>1, PageTypes DEF Frame
<1> QED BY <1>1, <1>2 DEF PoolTypeOK

(* What getPage finds in the pool or reads from the file is a frame. *)
LEMMA FrameTypes ==
    ASSUME PoolTypeOK, disk' \in [PageNo -> Data], NEW p \in PageNo,
           NEW f \in frames(p)
    PROVE  f \in Frame
<1>1. CASE pages[p] # Null
  BY <1>1 DEF frames, PoolTypeOK
<1>2. CASE pages[p] = Null
  <2>1. PICK d \in Data : f = [page |-> HeapPageOf(d), dirty |-> Null]
    BY <1>2 DEF frames, readPage
  <2> QED BY <2>1, PageTypes DEF Frame
<1> QED BY <1>1, <1>2

(* A step that writes its victims and installs a frame keeps the types. *)
LEMMA InstallTypes ==
    ASSUME PoolTypeOK, NEW p \in PageNo, NEW V \in victims(p),
           writePages(V \cap Dirty), NEW f \in Frame,
           pages' = install(V, p, f)
    PROVE  PoolTypeOK'
<1>1. V \cap Dirty \subseteq Cached
  BY DEF Dirty
<1>2. pages' \in [PageNo -> Frame \cup {Null}]
  BY DEF install, PoolTypeOK
<1> QED BY <1>1, <1>2, WriteTypes DEF PoolTypeOK

(* flush, which flushPage, flushAllPages and flushPages call, keeps the    *)
(* types of the pool and of the file.                                      *)
LEMMA FlushTypes ==
    ASSUME PoolTypeOK, NEW S, S \subseteq Dirty, flush(S)
    PROVE  PoolTypeOK'
<1>1. S \subseteq Cached
  BY DEF Dirty
<1>2. ASSUME NEW p \in S PROVE Clean(pages[p]) \in Frame
  <2>1. pages[p] \in Frame
    BY <1>1, <1>2 DEF PoolTypeOK, Cached
  <2> QED BY <2>1 DEF Clean, Frame
<1>3. pages' \in [PageNo -> Frame \cup {Null}]
  BY <1>2 DEF flush, PoolTypeOK
<1> QED BY <1>1, <1>3, WriteTypes DEF flush, PoolTypeOK

(* Storing a tuple, in BufferPool::insertTuple, keeps the types of the     *)
(* pool and of the record ids.                                             *)
LEMMA StoreTypes ==
    ASSUME TypeOK, NEW p \in PageNo, NEW V \in victims(p),
           writePages(V \cap Dirty),
           NEW x \in Page, hasEmptySlot(x), StoreTuple(V, p, x)
    PROVE  PoolTypeOK' /\ rid' \in [Tuples -> RecordId \cup {Null}]
<1> DEFINE f == [page |-> insertTuple(x, op.tup), dirty |-> op.tid]
<1>1. op.tup \in Row /\ op.tid \in Tids \cup {Null}
  BY DEF TypeOK, Op, Row
<1>2. f \in Frame
  BY <1>1, PageTypes DEF Frame
<1>3. pages' = install(V, p, f)
  BY DEF StoreTuple
<1>4. PoolTypeOK'
  <2> HIDE DEF f
  <2> QED BY <1>2, <1>3, InstallTypes DEF TypeOK
<1>5. firstEmptySlot(x) \in Slot
  BY FirstEmptySlotIsEmpty DEF hasEmptySlot, emptySlots
<1>6. [page |-> p, slot |-> firstEmptySlot(x)] \in RecordId
  BY <1>5 DEF RecordId
<1>7. rid' \in [Tuples -> RecordId \cup {Null}]
  BY <1>6 DEF StoreTuple, TypeOK
<1> QED BY <1>4, <1>7

(* A page made by HeapFile::insertTuple from createEmptyPageData has room  *)
(* for a tuple.                                                            *)
LEMMA EmptyPage ==
    /\ HeapPageOf(createEmptyPageData) \in Page
    /\ hasEmptySlot(HeapPageOf(createEmptyPageData))
    /\ HeapPageOf(createEmptyPageData).header = {}
<1>1. HeapPageOf(createEmptyPageData) \in Page
  BY PageTypes
<1>2. HeapPageOf(createEmptyPageData).header = {}
  BY DEF HeapPageOf, createEmptyPageData
<1>3. 0 \in emptySlots(HeapPageOf(createEmptyPageData))
  BY <1>2, NumSlotsAssumption DEF emptySlots, isSlotUsed, Slot
<1> QED BY <1>1, <1>2, <1>3 DEF hasEmptySlot

(* The record that stands for no call in progress is a call record. *)
LEMMA idleType == idle \in Op
  BY MaxPagesAssumption DEF idle, Op

(* One iteration of the loop of HeapFile::insertTuple keeps the types. *)
LEMMA ProbeTypes ==
    ASSUME TypeOK, Probe PROVE TypeOK'
<1>1. op.next \in PageNo
  BY MaxPagesAssumption DEF Probe, TypeOK, Op, PageNo
<1>2. PICK V \in victims(op.next) :
        /\ writePages(V \cap Dirty)
        /\ \E f \in frames(op.next) :
            \/ /\ ~ hasEmptySlot(f.page)
               /\ op' = nextPage
               /\ pages' = install(V, op.next, f)
               /\ UNCHANGED rid
            \/ /\ hasEmptySlot(f.page)
               /\ op.tup \notin BadTuples
               /\ StoreTuple(V, op.next, f.page)
               /\ op' = idle
            \/ /\ hasEmptySlot(f.page)
               /\ op.tup \in BadTuples
               /\ pages' = install(V, op.next, f)
               /\ op' = idle
               /\ UNCHANGED rid
  BY DEF Probe
<1>3. disk' \in [PageNo -> Data]
  BY <1>2, WriteTypes DEF TypeOK, Dirty
<1>4. PICK f \in frames(op.next) :
            \/ /\ ~ hasEmptySlot(f.page)
               /\ op' = nextPage
               /\ pages' = install(V, op.next, f)
               /\ UNCHANGED rid
            \/ /\ hasEmptySlot(f.page)
               /\ op.tup \notin BadTuples
               /\ StoreTuple(V, op.next, f.page)
               /\ op' = idle
            \/ /\ hasEmptySlot(f.page)
               /\ op.tup \in BadTuples
               /\ pages' = install(V, op.next, f)
               /\ op' = idle
               /\ UNCHANGED rid
  BY <1>2
<1>5. f \in Frame /\ f.page \in Page
  BY <1>1, <1>3, FrameTypes DEF TypeOK, Frame
<1>6. numPages' \in 0 .. MaxPages
  BY DEF Probe, TypeOK
<1>7. op' \in Op
  <2>1. CASE op' = nextPage
    BY <2>1, MaxPagesAssumption DEF nextPage, Probe, TypeOK, Op
  <2> QED BY <1>4, <2>1, idleType
<1>8. CASE pages' = install(V, op.next, f) /\ UNCHANGED rid
  <2>1. PoolTypeOK'
    BY <1>1, <1>2, <1>5, <1>8, InstallTypes DEF TypeOK
  <2> QED BY <1>6, <1>7, <1>8, <2>1 DEF TypeOK
<1>9. CASE hasEmptySlot(f.page) /\ StoreTuple(V, op.next, f.page)
  <2>1. PoolTypeOK' /\ rid' \in [Tuples -> RecordId \cup {Null}]
    BY <1>1, <1>2, <1>5, <1>9, StoreTypes
  <2> QED BY <1>6, <1>7, <2>1 DEF TypeOK
<1> QED BY <1>4, <1>8, <1>9

(* Adding a page to the table keeps the types. *)
LEMMA NewPageTypes ==
    ASSUME TypeOK, NewPage PROVE TypeOK'
<1>1. numPages \in PageNo /\ numPages' \in 0 .. MaxPages /\ op' \in Op
  BY idleType, MaxPagesAssumption DEF NewPage, counted, TypeOK, PageNo
<1>2. CASE UNCHANGED <<pages, disk, fileLen, rid>>
  BY <1>1, <1>2 DEF TypeOK, PoolTypeOK
<1>3. ASSUME NEW V \in victims(numPages), writePages(V \cap Dirty),
             StoreTuple(V, numPages, HeapPageOf(createEmptyPageData))
      PROVE  TypeOK'
  <2>1. PoolTypeOK' /\ rid' \in [Tuples -> RecordId \cup {Null}]
    BY <1>1, <1>3, EmptyPage, StoreTypes
  <2> QED BY <1>1, <2>1 DEF TypeOK
<1> QED BY <1>2, <1>3 DEF NewPage

(* HeapFile::deleteTuple keeps the types, whether it clears a slot or      *)
(* throws.                                                                 *)
LEMMA FileDeleteTypes ==
    ASSUME TypeOK, NEW tid \in Tids, NEW t \in Tuples, FileDeleteTuple(tid, t)
    PROVE  TypeOK'
<1> DEFINE p == rid[t].page
           s == rid[t].slot
<1>1. p \in PageNo /\ s \in Slot
  BY DEF FileDeleteTuple, TypeOK, RecordId
<1>2. PICK V \in victims(p) :
        /\ writePages(V \cap Dirty)
        /\ \E f \in frames(p) :
             \/ \E mark \in {tid, f.dirty} :
                  pages' = install(V, p, [page  |-> deleteTuple(f.page, s),
                                          dirty |-> mark])
             \/ pages' = install(V, p, f)
  BY DEF FileDeleteTuple
<1>3. disk' \in [PageNo -> Data]
  BY <1>2, WriteTypes DEF TypeOK, Dirty
<1>4. PICK f \in frames(p) :
             \/ \E mark \in {tid, f.dirty} :
                  pages' = install(V, p, [page  |-> deleteTuple(f.page, s),
                                          dirty |-> mark])
             \/ pages' = install(V, p, f)
  BY <1>2
<1>5. f \in Frame
  BY <1>1, <1>3, FrameTypes DEF TypeOK
<1>6. ASSUME NEW mark \in {tid, f.dirty}
      PROVE  [page |-> deleteTuple(f.page, s), dirty |-> mark] \in Frame
  BY <1>1, <1>5, PageTypes DEF Frame
<1>7. PICK g \in Frame : pages' = install(V, p, g)
  BY <1>4, <1>5, <1>6
<1>8. PoolTypeOK'
  BY <1>1, <1>2, <1>7, InstallTypes DEF TypeOK
<1> QED BY <1>8 DEF FileDeleteTuple, TypeOK

(* The pool's own operations, from getPage to discardPage, keep the types. *)
LEMMA PoolCallTypes ==
    ASSUME TypeOK, PoolCall PROVE TypeOK'
<1>1. SUFFICES PoolTypeOK'
  BY DEF PoolCall, FileUnchanged, TypeOK
<1>2. ASSUME NEW p \in PageNo, getPage(p) PROVE PoolTypeOK'
  <2>1. PICK V \in victims(p) :
          /\ writePages(V \cap Dirty)
          /\ \E f \in frames(p) : pages' = install(V, p, f)
    BY <1>2 DEF getPage
  <2>2. disk' \in [PageNo -> Data]
    BY <2>1, WriteTypes DEF TypeOK, Dirty
  <2>3. \A f \in frames(p) : f \in Frame
    BY <2>2, FrameTypes DEF TypeOK
  <2> QED BY <2>1, <2>3, InstallTypes DEF TypeOK
<1>3. ASSUME evictPage PROVE PoolTypeOK'
  <2>1. disk' \in [PageNo -> Data] /\ fileLen' \in 0 .. MaxPages
    BY <1>3, WriteTypes DEF evictPage, TypeOK, Dirty
  <2> QED BY <1>3, <2>1 DEF evictPage, TypeOK, PoolTypeOK
<1>4. ASSUME NEW S, S \subseteq Dirty, flush(S) PROVE PoolTypeOK'
  BY <1>4, FlushTypes DEF TypeOK
<1>5. ASSUME NEW p \in PageNo, discardPage(p) PROVE PoolTypeOK'
  BY <1>5 DEF discardPage, TypeOK, PoolTypeOK
<1>6. ASSUME NEW p \in PageNo, flushPage(p) PROVE PoolTypeOK'
  BY <1>4, <1>6 DEF flushPage
<1>7. ASSUME flushAllPages PROVE PoolTypeOK'
  BY <1>4, <1>7 DEF flushAllPages
<1>8. ASSUME NEW tid \in Tids, flushPages(tid) PROVE PoolTypeOK'
  BY <1>4, <1>8 DEF flushPages
<1> QED BY <1>2, <1>3, <1>5, <1>6, <1>7, <1>8 DEF PoolCall

(* Every step of the program keeps the types. *)
LEMMA TypeStep ==
    ASSUME TypeOK, [Next]_vars PROVE TypeOK'
<1>1. CASE Probe
  BY <1>1, ProbeTypes
<1>2. CASE NewPage
  BY <1>2, NewPageTypes
<1>3. ASSUME NEW tid \in Tids, NEW t \in Tuples, NEW kind \in {"insert", "delete"},
             Begin(kind, tid, t)
      PROVE  TypeOK'
  BY <1>3, MaxPagesAssumption DEF Begin, TypeOK, PoolTypeOK, Op
<1>4. ASSUME NEW tid \in Tids, NEW t \in Tuples,
             InsertTuple(tid, t) \/ DeleteTuple(tid, t)
      PROVE  TypeOK'
  BY <1>3, <1>4 DEF InsertTuple, DeleteTuple
<1>5. ASSUME NEW tid \in Tids, NEW t \in Tuples, FileDeleteTuple(tid, t)
      PROVE  TypeOK'
  BY <1>5, FileDeleteTypes
<1>6. CASE PoolCall
  BY <1>6, PoolCallTypes
<1>7. CASE ResetBufferPool
  BY <1>7 DEF ResetBufferPool, FileUnchanged, TypeOK, PoolTypeOK
<1>8. CASE Restart
  BY <1>8, idleType DEF Restart, Reopen, TypeOK, PoolTypeOK
<1>9. CASE UNCHANGED vars
  BY <1>9 DEF vars, TypeOK, PoolTypeOK
<1> QED BY <1>1, <1>2, <1>4, <1>5, <1>6, <1>7, <1>8, <1>9 DEF Next, Client

(* The variables keep their types, whatever the callers do and whichever   *)
(* writes fail: in particular a page read past the end of the file is      *)
(* still a page object, and the loop of insertTuple stays within the file. *)
THEOREM TypeCorrect == Spec => []TypeOK
<1>1. Init => TypeOK
  BY PageTypes, idleType, MaxPagesAssumption
  DEF Init, PoolInit, TypeOK, PoolTypeOK
<1>2. TypeOK /\ [Next]_vars => TypeOK'
  BY TypeStep
<1> QED BY <1>1, <1>2, PTL DEF Spec

-------------------------------------------------------------------------------
(* The capacity of the pool.                                               *)

(* The pages in the pool can be counted (pages.size()). *)
LEMMA CachedIsFinite == IsFiniteSet(Cached) /\ Cardinality(Cached) \in Nat
<1>1. IsFiniteSet(PageNo)
  BY FS_Interval, MaxPagesAssumption DEF PageNo
<1>2. Cached \in SUBSET PageNo
  BY DEF Cached
<1> QED BY <1>1, <1>2, FS_Subset, FS_CardinalityType

(* Erasing frames, or replacing them, adds nothing to the pool. *)
LEMMA FewerFrames ==
    ASSUME WithinCapacity, Cached' \subseteq Cached PROVE WithinCapacity'
<1>1. Cached' \in SUBSET Cached
  OBVIOUS
<1>2. IsFiniteSet(Cached') /\ Cardinality(Cached') <= Cardinality(Cached)
  BY <1>1, CachedIsFinite, FS_Subset
<1>3. Cardinality(Cached') \in Nat
  BY <1>2, FS_CardinalityType
<1> QED BY <1>2, <1>3, CachedIsFinite, NumPagesAssumption DEF WithinCapacity

(* A page is added only after room was made for it. *)
LEMMA InstallCapacity ==
    ASSUME WithinCapacity, NEW p \in PageNo, NEW V \in victims(p), NEW f,
           pages' = install(V, p, f)
    PROVE  WithinCapacity'
<1>1. Cached' \subseteq (Cached \ V) \cup {p}
  BY DEF Cached, install
<1>2. CASE pages[p] # Null
  <2>1. V = {} /\ p \in Cached
    BY <1>2 DEF victims, Cached
  <2> QED BY <1>1, <2>1, FewerFrames
<1>3. ASSUME NEW T, IsFiniteSet(T), Cardinality(T) < NumPages,
             Cached' \subseteq T \cup {p}
      PROVE  WithinCapacity'
  <2>1. IsFiniteSet(T \cup {p}) /\ Cardinality(T \cup {p}) <= NumPages
    <3>1. Cardinality(T) \in Nat
      BY <1>3, FS_CardinalityType
    <3>2. IsFiniteSet(T \cup {p})
          /\ \/ Cardinality(T \cup {p}) = Cardinality(T)
             \/ Cardinality(T \cup {p}) = Cardinality(T) + 1
      BY <1>3, FS_AddElement
    <3> QED BY <1>3, <3>1, <3>2, NumPagesAssumption
  <2>2. Cached' \in SUBSET (T \cup {p})
    BY <1>3
  <2>3. IsFiniteSet(Cached') /\ Cardinality(Cached') <= Cardinality(T \cup {p})
    BY <2>1, <2>2, FS_Subset
  <2>4. Cardinality(Cached') \in Nat /\ Cardinality(T \cup {p}) \in Nat
    BY <2>1, <2>3, FS_CardinalityType
  <2> QED BY <2>1, <2>3, <2>4, NumPagesAssumption DEF WithinCapacity
<1>4. CASE pages[p] = Null /\ Cardinality(Cached) < NumPages
  <2>1. V = {}
    BY <1>4 DEF victims
  <2> QED BY <1>1, <1>3, <1>4, <2>1, CachedIsFinite
<1>5. CASE pages[p] = Null /\ ~ (Cardinality(Cached) < NumPages)
  <2>1. PICK v \in Cached : V = {v}
    BY <1>5 DEF victims
  <2>2. IsFiniteSet(Cached \ {v})
        /\ Cardinality(Cached \ {v}) = Cardinality(Cached) - 1
    BY CachedIsFinite, FS_RemoveElement
  <2>3. Cardinality(Cached \ {v}) < NumPages
    BY <2>2, CachedIsFinite, NumPagesAssumption DEF WithinCapacity
  <2> QED BY <1>1, <1>3, <2>1, <2>2, <2>3
<1> QED BY <1>2, <1>4, <1>5

(* Every step keeps the pool within numPages: where a page is added, the   *)
(* size test has been made and one page was evicted.                       *)
LEMMA CapacityStep ==
    ASSUME TypeOK, WithinCapacity, [Next]_vars PROVE WithinCapacity'
<1>1. ASSUME UNCHANGED pages PROVE WithinCapacity'
  BY <1>1, FewerFrames DEF Cached
<1>2. ASSUME NEW S, S \subseteq Dirty, flush(S) PROVE WithinCapacity'
  <2>1. Cached' \subseteq Cached
    BY <1>2 DEF flush, Cached, Dirty
  <2> QED BY <2>1, FewerFrames
<1>3. CASE Probe
  <2>1. op.next \in PageNo
    BY <1>3, MaxPagesAssumption DEF Probe, TypeOK, Op, PageNo
  <2>2. PICK V \in victims(op.next) : \E f : pages' = install(V, op.next, f)
    BY <1>3 DEF Probe, StoreTuple
  <2> QED BY <2>1, <2>2, InstallCapacity
<1>4. CASE NewPage
  <2>1. numPages \in PageNo
    BY <1>4, MaxPagesAssumption DEF NewPage, TypeOK, PageNo
  <2>2. CASE UNCHANGED pages
    BY <1>1, <2>2
  <2>3. CASE \E V \in victims(numPages) : \E f : pages' = install(V, numPages, f)
    BY <2>1, <2>3, InstallCapacity
  <2> QED BY <1>4, <2>2, <2>3 DEF NewPage, StoreTuple
<1>5. ASSUME NEW tid \in Tids, NEW t \in Tuples,
             InsertTuple(tid, t) \/ DeleteTuple(tid, t)
      PROVE  WithinCapacity'
  BY <1>1, <1>5 DEF InsertTuple, DeleteTuple, Begin
<1>6. ASSUME NEW tid \in Tids, NEW t \in Tuples, FileDeleteTuple(tid, t)
      PROVE  WithinCapacity'
  <2>1. rid[t].page \in PageNo
    BY <1>6 DEF FileDeleteTuple, TypeOK, RecordId
  <2>2. PICK V \in victims(rid[t].page) :
          \E f : pages' = install(V, rid[t].page, f)
    BY <1>6 DEF FileDeleteTuple
  <2> QED BY <2>1, <2>2, InstallCapacity
<1>7. CASE PoolCall
  <2>1. ASSUME NEW p \in PageNo, getPage(p) PROVE WithinCapacity'
    BY <2>1, InstallCapacity DEF getPage
  <2>2. ASSUME evictPage PROVE WithinCapacity'
    <3>1. Cached' \subseteq Cached
      BY <2>2 DEF evictPage, Cached, TypeOK, PoolTypeOK
    <3> QED BY <3>1, FewerFrames
  <2>3. ASSUME NEW p \in PageNo, discardPage(p) PROVE WithinCapacity'
    <3>1. Cached' \subseteq Cached
      BY <2>3 DEF discardPage, Cached, TypeOK, PoolTypeOK
    <3> QED BY <3>1, FewerFrames
  <2>4. ASSUME NEW p \in PageNo, flushPage(p) PROVE WithinCapacity'
    BY <1>2, <2>4 DEF flushPage
  <2>5. ASSUME flushAllPages PROVE WithinCapacity'
    BY <1>2, <2>5 DEF flushAllPages
  <2>6. ASSUME NEW tid \in Tids, flushPages(tid) PROVE WithinCapacity'
    BY <1>2, <2>6 DEF flushPages
  <2> QED BY <1>7, <2>1, <2>2, <2>3, <2>4, <2>5, <2>6 DEF PoolCall
<1>8. CASE ResetBufferPool \/ Restart
  <2>1. Cached' \subseteq Cached
    BY <1>8 DEF ResetBufferPool, Restart, Cached
  <2> QED BY <2>1, FewerFrames
<1>9. CASE UNCHANGED vars
  BY <1>1, <1>9 DEF vars
<1> QED BY <1>3, <1>4, <1>5, <1>6, <1>7, <1>8, <1>9 DEF Next, Client

(* The pool never holds more than NumPages pages, for every capacity and   *)
(* every choice of victims, with failing writes and misuse included.       *)
THEOREM CapacityRespected == Spec => []WithinCapacity
<1>1. Init => WithinCapacity
  <2>1. Init => Cached = {}
    BY DEF Init, PoolInit, Cached
  <2> QED BY <2>1, FS_EmptySet, NumPagesAssumption DEF WithinCapacity
<1>2. TypeOK /\ WithinCapacity /\ [Next]_vars => WithinCapacity'
  BY CapacityStep
<1> QED BY <1>1, <1>2, TypeCorrect, PTL DEF Spec

-------------------------------------------------------------------------------
(* Pool and file together never lose a page of the table, as long as       *)
(* writes succeed and callers use the interface as intended (Faults = {})  *)
(* and all tuples have the table's layout (BadTuples = {}).                *)

(* Every used slot of a page holds a tuple. *)
RowsPresent(x) == \A s \in x.header : x.tuples[s] # Null

(* Bytes as getPageData writes them. *)
Canonical(d) == \A s \in Slot : s \in d.bits <=> d.body[s] # Null

FramesAreFilled == \A p \in Cached : RowsPresent(pages[p].page)

(* The part of the inductive invariant that is about pool and file. *)
Coherent ==
    /\ CleanMatchesDisk
    /\ PagesExist
    /\ DiskIsCanonical
    /\ FramesAreFilled

(* The part about the call in progress and the clients' RecordIds. *)
CallsInTable ==
    /\ op.kind # "idle" => op.tup \in Tuples /\ op.tid \in Tids
    /\ \A t \in Tuples : rid[t] # Null => rid[t].page < numPages

(* The inductive invariant. *)
Inv == TypeOK /\ Coherent /\ CallsInTable /\ ProbedPagesAreFull

-------------------------------------------------------------------------------
(* Pages and bytes.                                                        *)

(* Reading back what was written gives the page that was written. *)
LEMMA ReadBack ==
    ASSUME NEW d \in Data, Canonical(d)
    PROVE  getPageData(HeapPageOf(d)) = d /\ RowsPresent(HeapPageOf(d))
<1>1. HeapPageOf(d) = [header |-> d.bits, tuples |-> d.body]
  BY DEF HeapPageOf, Data, Canonical
<1>2. getPageData(HeapPageOf(d)).bits = d.bits
  BY <1>1 DEF getPageData
<1>3. getPageData(HeapPageOf(d)).body = d.body
  BY <1>1 DEF getPageData, Data, Canonical
<1>4. getPageData(HeapPageOf(d)) = [bits |-> d.bits, body |-> d.body]
  BY <1>2, <1>3 DEF getPageData
<1>5. d = [bits |-> d.bits, body |-> d.body]
  BY DEF Data
<1>6. RowsPresent(HeapPageOf(d))
  BY <1>1 DEF RowsPresent, Canonical, Data
<1> QED BY <1>4, <1>5, <1>6

(* What HeapFile::writePage stores for a page whose used slots are filled  *)
(* has a tuple exactly in its used slots.                                  *)
LEMMA WrittenIsCanonical ==
    ASSUME NEW x \in Page, RowsPresent(x)
    PROVE  Canonical(getPageData(x))
  BY DEF Page, RowsPresent, Canonical, getPageData

(* insertTuple and deleteTuple of a page leave its used slots filled. *)
LEMMA RowsStay ==
    ASSUME NEW x \in Page, RowsPresent(x)
    PROVE  /\ \A s \in Slot : RowsPresent(deleteTuple(x, s))
           /\ \A t \in Tuples :
                hasEmptySlot(x) => RowsPresent(insertTuple(x, t))
<1>1. ASSUME NEW s \in Slot PROVE RowsPresent(deleteTuple(x, s))
  BY DEF RowsPresent, deleteTuple
<1>2. ASSUME NEW t \in Tuples, hasEmptySlot(x)
      PROVE  RowsPresent(insertTuple(x, t))
  <2>1. firstEmptySlot(x) \in Slot
    BY <1>2, FirstEmptySlotIsEmpty DEF hasEmptySlot, emptySlots
  <2> QED BY <2>1, NullAssumption DEF RowsPresent, insertTuple, Page
<1> QED BY <1>1, <1>2

-------------------------------------------------------------------------------
(* Steps of the pool, when no write fails.                                 *)

(* What a write of dirty pages does to the file: exactly their bytes       *)
(* change, and the file never grows past the table.                        *)
LEMMA Written ==
    ASSUME Faults = {}, TypeOK, Coherent, NEW S, S \subseteq Dirty,
           writePages(S)
    PROVE  /\ disk' = [p \in PageNo |->
                         IF p \in S THEN getPageData(pages[p].page) ELSE disk[p]]
           /\ disk' \in [PageNo -> Data]
           /\ fileLen' \in 0 .. MaxPages
           /\ fileLen <= fileLen'
           /\ fileLen' <= numPages
           /\ fileLen' # fileLen => fileLen' - 1 \in S
           /\ \A p \in S : p < fileLen'
           /\ DiskIsCanonical'
<1>1. /\ disk' = [p \in PageNo |->
                    IF p \in S THEN getPageData(pages[p].page) ELSE disk[p]]
      /\ fileLen' >= fileLen
      /\ \A p \in S : p < fileLen'
      /\ fileLen' # fileLen => fileLen' - 1 \in S
  BY DEF writePages, Extent
<1>2. S \subseteq Cached
  BY DEF Dirty
<1>3. /\ disk' \in [PageNo -> Data]
      /\ fileLen' \in 0 .. MaxPages
  BY <1>2, WriteTypes DEF TypeOK
<1>4. fileLen' <= numPages
  BY <1>1, <1>2, <1>3, MaxPagesAssumption
  DEF Coherent, PagesExist, TypeOK, PoolTypeOK, Cached, PageNo
<1>5. ASSUME NEW p \in PageNo PROVE Canonical(disk'[p])
  <2>1. CASE p \in S
    <3>1. pages[p] \in Frame /\ RowsPresent(pages[p].page)
      BY <1>2, <2>1 DEF TypeOK, PoolTypeOK, Cached, Coherent, FramesAreFilled
    <3> QED BY <1>1, <2>1, <3>1, WrittenIsCanonical DEF Frame
  <2>2. CASE p \notin S
    BY <1>1, <2>2 DEF Coherent, DiskIsCanonical, Canonical
  <2> QED BY <2>1, <2>2
<1>6. ASSUME NEW p \in PageNo, p >= fileLen' PROVE disk'[p] = createEmptyPageData
  <2>1. p \notin S
    BY <1>1, <1>3, <1>6, MaxPagesAssumption DEF PageNo
  <2>2. p >= fileLen
    BY <1>1, <1>3, <1>6, MaxPagesAssumption DEF PageNo, TypeOK, PoolTypeOK
  <2> QED BY <1>1, <2>1, <2>2 DEF Coherent, DiskIsCanonical
<1>7. DiskIsCanonical'
  BY <1>5, <1>6 DEF DiskIsCanonical, Canonical
<1> QED BY <1>1, <1>3, <1>4, <1>7

(* evictPage, called to make room for page p, takes a cached page other    *)
(* than p.                                                                 *)
LEMMA VictimsOthers ==
    ASSUME NEW p \in PageNo, NEW V \in victims(p)
    PROVE  V \subseteq Cached /\ p \notin V
  BY DEF victims, Cached

(* A frame that may sit in the pool as page p after this step. *)
GoodFrame(f, p) ==
    /\ f \in Frame
    /\ RowsPresent(f.page)
    /\ f.dirty = Null => p < fileLen' /\ getPageData(f.page) = disk'[p]

(* getPage of a page of the table finds what the table holds. *)
LEMMA FrameIsPage ==
    ASSUME Faults = {}, TypeOK, Coherent, NEW p \in PageNo, p < numPages,
           NEW V \in victims(p), writePages(V \cap Dirty), NEW f \in frames(p)
    PROVE  GoodFrame(f, p) /\ getPageData(f.page) = Contents(p)
<1> DEFINE S == V \cap Dirty
<1>1. /\ disk' = [q \in PageNo |->
                    IF q \in S THEN getPageData(pages[q].page) ELSE disk[q]]
      /\ disk' \in [PageNo -> Data]
      /\ fileLen <= fileLen'
      /\ fileLen' \in 0 .. MaxPages
  BY Written
<1>2. disk'[p] = disk[p]
  BY <1>1, VictimsOthers
<1>3. f \in Frame
  BY <1>1, FrameTypes DEF TypeOK
<1>4. CASE pages[p] # Null
  <2>1. f = pages[p] /\ p \in Cached
    BY <1>4 DEF frames, Cached
  <2>2. f.dirty = Null => p < fileLen /\ getPageData(f.page) = disk[p]
    BY <2>1 DEF Coherent, CleanMatchesDisk, Dirty
  <2>3. f.dirty = Null => p < fileLen'
    BY <1>1, <2>2, MaxPagesAssumption DEF PageNo, TypeOK, PoolTypeOK
  <2> QED BY <1>2, <1>3, <1>4, <2>1, <2>2, <2>3
          DEF GoodFrame, Coherent, FramesAreFilled, Contents
<1>5. CASE pages[p] = Null
  <2>1. p < fileLen
    BY <1>5 DEF Coherent, PagesExist, Exists
  <2>2. p < fileLen'
    BY <1>1, <2>1, MaxPagesAssumption DEF PageNo, TypeOK, PoolTypeOK
  <2>3. f = [page |-> HeapPageOf(disk[p]), dirty |-> Null]
    BY <1>2, <1>5, <2>2 DEF frames, readPage
  <2>4. disk[p] \in Data /\ Canonical(disk[p])
    BY DEF TypeOK, PoolTypeOK, Coherent, DiskIsCanonical, Canonical
  <2>5. getPageData(f.page) = disk[p] /\ RowsPresent(f.page)
    BY <2>3, <2>4, ReadBack
  <2> QED BY <1>2, <1>3, <1>5, <2>2, <2>5 DEF GoodFrame, Contents
<1> QED BY <1>4, <1>5

(* Erasing pages after writing the dirty ones changes no other page of the *)
(* table.                                                                  *)
LEMMA ErasedIsKept ==
    ASSUME Faults = {}, TypeOK, Coherent, NEW V, V \subseteq Cached,
           writePages(V \cap Dirty), NEW q \in V
    PROVE  q < fileLen' /\ disk'[q] = Contents(q)
<1>1. q \in PageNo /\ pages[q] # Null
  BY DEF Cached
<1>2. /\ disk' = [r \in PageNo |->
                    IF r \in V \cap Dirty THEN getPageData(pages[r].page)
                                          ELSE disk[r]]
      /\ fileLen <= fileLen'
      /\ fileLen' \in 0 .. MaxPages
      /\ \A r \in V \cap Dirty : r < fileLen'
  BY Written
<1>3. CASE q \in Dirty
  BY <1>1, <1>2, <1>3 DEF Contents
<1>4. CASE q \notin Dirty
  <2>1. q < fileLen /\ getPageData(pages[q].page) = disk[q]
    BY <1>4 DEF Coherent, CleanMatchesDisk
  <2> QED BY <1>1, <1>2, <1>4, <2>1, MaxPagesAssumption
          DEF Contents, PageNo, TypeOK, PoolTypeOK
<1> QED BY <1>3, <1>4

(* Putting a good frame in the pool, after an eviction, keeps pool and     *)
(* file coherent and changes no other page that a reader sees.             *)
LEMMA InstallCoherent ==
    ASSUME Faults = {}, TypeOK, Coherent, NEW p \in PageNo,
           NEW V \in victims(p), writePages(V \cap Dirty),
           NEW f, GoodFrame(f, p), pages' = install(V, p, f),
           \/ p < numPages /\ numPages' = numPages
           \/ p = numPages /\ numPages' = numPages + 1
    PROVE  /\ Coherent'
           /\ Contents(p)' = getPageData(f.page)
           /\ \A q \in PageNo \ {p} : Contents(q)' = Contents(q)
<1>1. /\ disk' = [q \in PageNo |->
                    IF q \in V \cap Dirty THEN getPageData(pages[q].page)
                                          ELSE disk[q]]
      /\ fileLen <= fileLen'
      /\ fileLen' <= numPages
      /\ fileLen' \in 0 .. MaxPages
      /\ DiskIsCanonical'
  BY Written
<1>2. V \subseteq Cached /\ p \notin V
  BY VictimsOthers
<1>3. f # Null
  BY NullFrameAssumption DEF GoodFrame
<1>4. pages'[p] = f /\ Contents(p)' = getPageData(f.page)
  BY <1>3 DEF install, Contents
<1>5. ASSUME NEW q \in V
      PROVE  pages'[q] = Null /\ q < fileLen' /\ Contents(q)' = Contents(q)
  <2>1. pages'[q] = Null
    BY <1>2 DEF install, Cached
  <2>2. q < fileLen' /\ disk'[q] = Contents(q)
    BY <1>2, ErasedIsKept
  <2> QED BY <2>1, <2>2 DEF Contents
<1>6. ASSUME NEW q \in PageNo, q # p, q \notin V
      PROVE  pages'[q] = pages[q] /\ disk'[q] = disk[q]
             /\ Contents(q)' = Contents(q)
  BY <1>1, <1>6 DEF install, Contents
<1>7. CleanMatchesDisk'
  <2> SUFFICES ASSUME NEW q \in PageNo, pages'[q] # Null, pages'[q].dirty = Null
               PROVE  q < fileLen' /\ getPageData(pages'[q].page) = disk'[q]
    BY DEF CleanMatchesDisk, Cached, Dirty
  <2>1. CASE q = p
    BY <1>4, <2>1 DEF GoodFrame
  <2>2. CASE q # p
    <3>1. q \notin V
      BY <1>5
    <3>2. q < fileLen /\ getPageData(pages[q].page) = disk[q]
      BY <1>6, <2>2, <3>1 DEF Coherent, CleanMatchesDisk, Cached, Dirty
    <3> QED BY <1>1, <1>6, <2>2, <3>1, <3>2, MaxPagesAssumption
            DEF PageNo, TypeOK, PoolTypeOK
  <2> QED BY <2>1, <2>2
<1>8. PagesExist'
  <2>1. fileLen' <= numPages'
    BY <1>1 DEF TypeOK
  <2>2. ASSUME NEW q \in PageNo, q < numPages' PROVE Exists(q)'
    <3>1. CASE q = p
      BY <1>3, <1>4, <3>1 DEF Exists
    <3>2. CASE q \in V
      BY <1>5, <3>2 DEF Exists
    <3>3. CASE q # p /\ q \notin V
      <4>1. q < numPages
        BY <2>2, <3>3 DEF PageNo, TypeOK
      <4>2. pages[q] # Null \/ q < fileLen
        BY <4>1 DEF Coherent, PagesExist, Exists
      <4> QED BY <1>1, <1>6, <3>3, <4>2, MaxPagesAssumption
              DEF Exists, PageNo, TypeOK, PoolTypeOK
    <3> QED BY <3>1, <3>2, <3>3
  <2>3. ASSUME NEW q \in PageNo, pages'[q] # Null PROVE q < numPages'
    <3>1. CASE q = p
      BY <3>1 DEF TypeOK, PageNo
    <3>2. CASE q # p
      <4>1. q < numPages
        BY <1>5, <1>6, <2>3, <3>2 DEF Coherent, PagesExist, Cached
      <4> QED BY <4>1 DEF TypeOK, PageNo
    <3> QED BY <3>1, <3>2
  <2> QED BY <2>1, <2>2, <2>3 DEF PagesExist, Cached
<1>9. FramesAreFilled'
  <2> SUFFICES ASSUME NEW q \in PageNo, pages'[q] # Null
               PROVE  RowsPresent(pages'[q].page)
    BY DEF FramesAreFilled, Cached, RowsPresent
  <2>1. CASE q = p
    BY <1>4, <2>1 DEF GoodFrame
  <2>2. CASE q # p
    BY <1>5, <1>6, <2>2 DEF Coherent, FramesAreFilled, Cached
  <2> QED BY <2>1, <2>2
<1> QED BY <1>1, <1>4, <1>5, <1>6, <1>7, <1>8, <1>9 DEF Coherent

(* Flushing keeps pool and file coherent, and readers see no change. *)
LEMMA FlushCoherent ==
    ASSUME Faults = {}, TypeOK, Coherent, NEW S, S \subseteq Dirty, flush(S),
           UNCHANGED numPages
    PROVE  /\ Coherent'
           /\ \A q \in PageNo : Contents(q)' = Contents(q)
<1>1. /\ disk' = [q \in PageNo |->
                    IF q \in S THEN getPageData(pages[q].page) ELSE disk[q]]
      /\ fileLen <= fileLen'
      /\ fileLen' <= numPages
      /\ fileLen' \in 0 .. MaxPages
      /\ \A p \in S : p < fileLen'
      /\ DiskIsCanonical'
  BY Written DEF flush
<1>2. ASSUME NEW q \in S
      PROVE  /\ q \in PageNo
             /\ pages[q] \in Frame
             /\ pages'[q] \in Frame
             /\ pages'[q].page = pages[q].page
  <2>1. q \in PageNo /\ pages[q] \in Frame
    BY DEF Dirty, Cached, TypeOK, PoolTypeOK
  <2>2. pages'[q] = Clean(pages[q])
    BY <2>1 DEF flush
  <2> QED BY <2>1, <2>2 DEF Clean, Frame
<1>3. ASSUME NEW q \in PageNo, q \notin S
      PROVE  pages'[q] = pages[q] /\ disk'[q] = disk[q]
  BY <1>1, <1>3 DEF flush
<1>4. ASSUME NEW q \in S
      PROVE  /\ pages[q] # Null /\ pages'[q] # Null
             /\ disk'[q] = getPageData(pages'[q].page)
  BY <1>1, <1>2, NullFrameAssumption
<1>5. \A q \in PageNo : (pages'[q] # Null <=> pages[q] # Null)
                        /\ (pages[q] # Null => pages'[q].page = pages[q].page)
  BY <1>2, <1>3, <1>4
<1>6. \A q \in PageNo : Contents(q)' = Contents(q)
  BY <1>3, <1>4, <1>5 DEF Contents
<1>7. CleanMatchesDisk'
  <2> SUFFICES ASSUME NEW q \in PageNo, pages'[q] # Null, pages'[q].dirty = Null
               PROVE  q < fileLen' /\ getPageData(pages'[q].page) = disk'[q]
    BY DEF CleanMatchesDisk, Cached, Dirty
  <2>1. CASE q \in S
    BY <1>1, <1>4, <2>1
  <2>2. CASE q \notin S
    <3>1. q < fileLen /\ getPageData(pages[q].page) = disk[q]
      BY <1>3, <2>2 DEF Coherent, CleanMatchesDisk, Cached, Dirty
    <3> QED BY <1>1, <1>3, <2>2, <3>1, MaxPagesAssumption
            DEF PageNo, TypeOK, PoolTypeOK
  <2> QED BY <2>1, <2>2
<1>8. PagesExist'
  <2>1. \A q \in PageNo : q < fileLen => q < fileLen'
    BY <1>1, MaxPagesAssumption DEF PageNo, TypeOK, PoolTypeOK
  <2> QED BY <1>1, <1>5, <2>1 DEF Coherent, PagesExist, Exists, Cached
<1>9. FramesAreFilled'
  BY <1>5 DEF Coherent, FramesAreFilled, Cached, RowsPresent
<1> QED BY <1>1, <1>6, <1>7, <1>8, <1>9 DEF Coherent

(* evictPage keeps pool and file coherent, and readers see no change. *)
LEMMA EvictCoherent ==
    ASSUME Faults = {}, TypeOK, Coherent, NEW v \in Cached,
           writePages({v} \cap Dirty), pages' = [pages EXCEPT ![v] = Null],
           UNCHANGED numPages
    PROVE  /\ Coherent'
           /\ \A q \in PageNo : Contents(q)' = Contents(q)
<1>1. /\ disk' = [q \in PageNo |->
                    IF q \in {v} \cap Dirty THEN getPageData(pages[q].page)
                                            ELSE disk[q]]
      /\ fileLen <= fileLen'
      /\ fileLen' <= numPages
      /\ fileLen' \in 0 .. MaxPages
      /\ DiskIsCanonical'
  BY Written
<1>2. v \in PageNo /\ pages'[v] = Null
  BY DEF Cached, TypeOK, PoolTypeOK
<1>3. v < fileLen' /\ disk'[v] = Contents(v)
  BY ErasedIsKept
<1>4. ASSUME NEW q \in PageNo, q # v
      PROVE  pages'[q] = pages[q] /\ disk'[q] = disk[q]
  BY <1>1, <1>4 DEF TypeOK, PoolTypeOK
<1>5. \A q \in PageNo : Contents(q)' = Contents(q)
  BY <1>2, <1>3, <1>4 DEF Contents
<1>6. \A q \in PageNo : q < fileLen => q < fileLen'
  BY <1>1, MaxPagesAssumption DEF PageNo, TypeOK, PoolTypeOK
<1>7. CleanMatchesDisk'
  BY <1>2, <1>4, <1>6 DEF Coherent, CleanMatchesDisk, Cached, Dirty
<1>8. PagesExist'
  BY <1>1, <1>2, <1>3, <1>4, <1>6 DEF Coherent, PagesExist, Exists, Cached
<1>9. FramesAreFilled'
  BY <1>2, <1>4 DEF Coherent, FramesAreFilled, Cached, RowsPresent
<1> QED BY <1>1, <1>5, <1>7, <1>8, <1>9 DEF Coherent

(* The pages of P are dropped unwritten: safe if the file has them all. *)
LEMMA DropCoherent ==
    ASSUME TypeOK, Coherent, NEW p \in PageNo, p < fileLen,
           pages' = [pages EXCEPT ![p] = Null], UNCHANGED <<disk, fileLen, numPages>>
    PROVE  /\ Coherent'
           /\ Contents(p)' = disk[p]
           /\ \A q \in PageNo \ {p} : Contents(q)' = Contents(q)
<1>1. pages'[p] = Null /\ \A q \in PageNo \ {p} : pages'[q] = pages[q]
  BY DEF TypeOK, PoolTypeOK
<1>2. CleanMatchesDisk'
  BY <1>1 DEF Coherent, CleanMatchesDisk, Cached, Dirty
<1>3. PagesExist'
  BY <1>1 DEF Coherent, PagesExist, Exists, Cached
<1>4. FramesAreFilled' /\ DiskIsCanonical'
  BY <1>1 DEF Coherent, FramesAreFilled, DiskIsCanonical, Cached, RowsPresent
<1> QED BY <1>1, <1>2, <1>3, <1>4 DEF Coherent, Contents

(* A new process finds pool and file coherent, and reads what is in the    *)
(* file.                                                                   *)
LEMMA RestartCoherent ==
    ASSUME TypeOK, Coherent, Restart
    PROVE  Coherent' /\ \A q \in PageNo : Contents(q)' = disk[q]
<1>1. \A q \in PageNo : pages'[q] = Null
  BY DEF Restart
<1>2. UNCHANGED <<disk, fileLen>> /\ numPages' = fileLen
  BY DEF Restart, Reopen
<1>3. PagesExist'
  BY <1>1, <1>2 DEF PagesExist, Exists, Cached, TypeOK, PoolTypeOK
<1>4. DiskIsCanonical'
  BY <1>2 DEF Coherent, DiskIsCanonical
<1> QED BY <1>1, <1>2, <1>3, <1>4
        DEF Coherent, CleanMatchesDisk, FramesAreFilled, Cached, Contents

-------------------------------------------------------------------------------
(* What insertTuple and deleteTuple do to the bytes of a page.             *)

(* The bytes of a page after HeapPage::insertTuple: one empty slot is      *)
(* marked and filled, the others are the same.                             *)
LEMMA InsertBytes ==
    ASSUME NEW x \in Page, hasEmptySlot(x), NEW t \in Tuples
    PROVE  LET d == getPageData(x)
               s == firstEmptySlot(x)
           IN  /\ s \in Slot
               /\ s \notin d.bits
               /\ d.body[s] = Null
               /\ getPageData(insertTuple(x, t)) =
                    [bits |-> d.bits \cup {s}, body |-> [d.body EXCEPT ![s] = t]]
<1> DEFINE s == firstEmptySlot(x)
<1>1. s \in Slot /\ s \notin x.header
  BY FirstEmptySlotIsEmpty DEF hasEmptySlot, emptySlots, isSlotUsed
<1> HIDE DEF s
<1>2. insertTuple(x, t) = [header |-> x.header \cup {s},
                           tuples |-> [x.tuples EXCEPT ![s] = t]]
  BY DEF insertTuple, s
<1> DEFINE d == getPageData(x)
           e == getPageData(insertTuple(x, t))
<1>3. /\ d = [bits |-> x.header,
              body |-> [r \in Slot |-> IF r \in x.header THEN x.tuples[r] ELSE Null]]
      /\ e = [bits |-> x.header \cup {s},
              body |-> [r \in Slot |-> IF r \in x.header \cup {s}
                                       THEN [x.tuples EXCEPT ![s] = t][r]
                                       ELSE Null]]
  BY <1>2 DEF getPageData
<1>4. x.tuples \in [Slot -> Row]
  BY DEF Page
<1> HIDE DEF d, e
<1>5. ASSUME NEW r \in Slot
      PROVE  e.body[r] = IF r = s THEN t ELSE d.body[r]
  BY <1>1, <1>3, <1>4
<1>6. e.body = [d.body EXCEPT ![s] = t]
  BY <1>1, <1>3, <1>5
<1>7. /\ s \in Slot
      /\ s \notin d.bits
      /\ d.body[s] = Null
      /\ e = [bits |-> d.bits \cup {s}, body |-> [d.body EXCEPT ![s] = t]]
  BY <1>1, <1>3, <1>6
<1> QED BY <1>7 DEF d, e, s

(* The bytes of a page after HeapPage::deleteTuple: the slot is unmarked   *)
(* and zeroed, the others are the same.                                    *)
LEMMA DeleteBytes ==
    ASSUME NEW x \in Page, NEW s \in Slot, isSlotUsed(x, s)
    PROVE  LET d == getPageData(x)
           IN  /\ s \in d.bits
               /\ getPageData(deleteTuple(x, s)) =
                    [bits |-> d.bits \ {s}, body |-> [d.body EXCEPT ![s] = Null]]
<1>1. getPageData(deleteTuple(x, s)).body =
        [getPageData(x).body EXCEPT ![s] = Null]
  BY DEF deleteTuple, getPageData, Page
<1> QED BY <1>1 DEF deleteTuple, getPageData, isSlotUsed

(* The bytes of a page of the table are always canonical. *)
LEMMA ContentsCanonical ==
    ASSUME TypeOK, Coherent, NEW p \in PageNo
    PROVE  Contents(p) \in Data /\ Canonical(Contents(p))
<1>1. CASE pages[p] = Null
  BY <1>1 DEF Contents, TypeOK, PoolTypeOK, Coherent, DiskIsCanonical, Canonical
<1>2. CASE pages[p] # Null
  <2>1. pages[p].page \in Page /\ RowsPresent(pages[p].page)
    BY <1>2 DEF TypeOK, PoolTypeOK, Frame, Coherent, FramesAreFilled, Cached
  <2> QED BY <1>2, <2>1, PageTypes, WrittenIsCanonical DEF Contents
<1> QED BY <1>1, <1>2

-------------------------------------------------------------------------------
(* What each action does to the table.                                     *)

(* Page p of the table becomes d, all others stay. *)
OnlyPage(p, d) ==
    /\ Contents(p)' = d
    /\ \A q \in PageNo \ {p} : Contents(q)' = Contents(q)

SameTable == \A q \in PageNo : Contents(q)' = Contents(q)

(* The tuple of the call is stored in an empty slot of page p. *)
Stored(p) ==
    \E s \in Slot :
        /\ s \notin Contents(p).bits
        /\ OnlyPage(p, [bits |-> Contents(p).bits \cup {s},
                        body |-> [Contents(p).body EXCEPT ![s] = op.tup]])
        /\ rid' = [rid EXCEPT ![op.tup] = [page |-> p, slot |-> s]]

(* When insertTuple stores its tuple in page p, pool and file stay         *)
(* coherent and one empty slot of p is filled.                             *)
LEMMA StoreEffect ==
    ASSUME Faults = {}, TypeOK, Coherent, CallsInTable, op.kind # "idle",
           NEW p \in PageNo,
           NEW V \in victims(p), writePages(V \cap Dirty),
           NEW x \in Page, RowsPresent(x), hasEmptySlot(x),
           getPageData(x) = Contents(p), StoreTuple(V, p, x),
           \/ p < numPages /\ numPages' = numPages
           \/ p = numPages /\ numPages' = numPages + 1
    PROVE  Coherent' /\ Stored(p)
<1> DEFINE f == [page |-> insertTuple(x, op.tup), dirty |-> op.tid]
           s == firstEmptySlot(x)
<1>1. op.tup \in Tuples /\ op.tid \in Tids /\ op.tup \in Row
  BY DEF CallsInTable, Row
<1>2. GoodFrame(f, p)
  <2>1. insertTuple(x, op.tup) \in Page /\ RowsPresent(insertTuple(x, op.tup))
    BY <1>1, PageTypes, RowsStay
  <2> QED BY <1>1, <2>1, TidsAssumption DEF GoodFrame, Frame
<1>3. pages' = install(V, p, f)
  BY DEF StoreTuple
<1>4. f.page = insertTuple(x, op.tup)
  OBVIOUS
<1>5. /\ Coherent'
      /\ OnlyPage(p, getPageData(insertTuple(x, op.tup)))
  <2> HIDE DEF f
  <2> QED BY <1>2, <1>3, <1>4, InstallCoherent DEF OnlyPage
<1>6. /\ s \in Slot
      /\ s \notin Contents(p).bits
      /\ getPageData(insertTuple(x, op.tup)) =
           [bits |-> Contents(p).bits \cup {s},
            body |-> [Contents(p).body EXCEPT ![s] = op.tup]]
  BY <1>1, InsertBytes
<1>7. rid' = [rid EXCEPT ![op.tup] = [page |-> p, slot |-> s]]
  BY DEF StoreTuple
<1> QED BY <1>5, <1>6, <1>7 DEF Stored

(* One iteration of the loop of HeapFile::insertTuple: a full page is      *)
(* passed and the table is the same, or the tuple is stored.               *)
LEMMA ProbeEffect ==
    ASSUME Faults = {}, BadTuples = {}, Inv, Probe, NEW p, p = op.next
    PROVE  /\ Coherent'
           /\ p \in PageNo
           /\ \/ /\ Contents(p).bits = Slot
                 /\ op' = nextPage
                 /\ SameTable
                 /\ UNCHANGED rid
              \/ /\ op' = idle
                 /\ Stored(p)
<1>1. p \in PageNo /\ p < numPages /\ numPages' = numPages
  BY MaxPagesAssumption DEF Probe, Inv, TypeOK, Op, PageNo
<1>2. PICK V \in victims(p) :
        /\ writePages(V \cap Dirty)
        /\ \E f \in frames(p) :
            \/ /\ ~ hasEmptySlot(f.page)
               /\ op' = nextPage
               /\ pages' = install(V, p, f)
               /\ UNCHANGED rid
            \/ /\ hasEmptySlot(f.page)
               /\ StoreTuple(V, p, f.page)
               /\ op' = idle
  BY DEF Probe
<1>3. PICK f \in frames(p) :
            \/ /\ ~ hasEmptySlot(f.page)
               /\ op' = nextPage
               /\ pages' = install(V, p, f)
               /\ UNCHANGED rid
            \/ /\ hasEmptySlot(f.page)
               /\ StoreTuple(V, p, f.page)
               /\ op' = idle
  BY <1>2
<1>4. GoodFrame(f, p) /\ getPageData(f.page) = Contents(p)
  BY <1>1, <1>2, FrameIsPage DEF Inv
<1>5. CASE /\ ~ hasEmptySlot(f.page)
           /\ op' = nextPage
           /\ pages' = install(V, p, f)
           /\ UNCHANGED rid
  <2>1. Coherent' /\ SameTable
    BY <1>1, <1>2, <1>4, <1>5, InstallCoherent DEF Inv, SameTable
  <2>2. f.page.header = Slot
    BY <1>4, <1>5 DEF hasEmptySlot, emptySlots, isSlotUsed, GoodFrame, Frame, Page
  <2>3. Contents(p).bits = Slot
    BY <1>4, <2>2 DEF getPageData
  <2> QED BY <1>1, <1>5, <2>1, <2>3
<1>6. CASE hasEmptySlot(f.page) /\ StoreTuple(V, p, f.page) /\ op' = idle
  <2>1. f.page \in Page /\ RowsPresent(f.page)
    BY <1>4 DEF GoodFrame, Frame
  <2>2. Coherent' /\ Stored(p)
    BY <1>1, <1>2, <1>4, <1>6, <2>1, StoreEffect DEF Inv, Probe
  <2> QED BY <1>1, <1>6, <2>2
<1> QED BY <1>3, <1>5, <1>6

(* When every page is full, the tuple is stored in the page after the      *)
(* last.                                                                   *)
LEMMA NewPageEffect ==
    ASSUME Faults = {}, BadTuples = {}, Inv, NewPage, NEW p, p = numPages
    PROVE  Coherent' /\ p \in PageNo /\ Stored(p)
<1> DEFINE x == HeapPageOf(createEmptyPageData)
<1>1. p \in PageNo /\ p = numPages /\ numPages' = numPages + 1
  BY MaxPagesAssumption DEF NewPage, counted, Inv, TypeOK, PageNo
<1>2. PICK V \in victims(p) :
        writePages(V \cap Dirty) /\ StoreTuple(V, p, x)
  BY DEF NewPage
<1>3. x \in Page /\ hasEmptySlot(x) /\ RowsPresent(x)
  BY EmptyPage DEF RowsPresent
<1>4. getPageData(x) = Contents(p)
  <2>1. pages[p] = Null
    BY <1>1 DEF Inv, Coherent, PagesExist, Cached, PageNo
  <2>2. disk[p] = createEmptyPageData
    BY <1>1 DEF Inv, Coherent, PagesExist, DiskIsCanonical, PageNo, TypeOK, PoolTypeOK
  <2>3. Canonical(createEmptyPageData)
    BY DEF Canonical, createEmptyPageData
  <2> QED BY <2>1, <2>2, <2>3, PageTypes, ReadBack DEF Contents
<1>5. op.kind # "idle" /\ TypeOK /\ Coherent /\ CallsInTable
  BY DEF NewPage, Inv
<1> HIDE DEF x
<1> QED BY <1>1, <1>2, <1>3, <1>4, <1>5, StoreEffect

(* HeapFile::deleteTuple clears one used slot, or throws and leaves the    *)
(* table as it was.                                                        *)
LEMMA FileDeleteEffect ==
    ASSUME Faults = {}, Inv, NEW tid \in Tids, NEW t \in Tuples,
           FileDeleteTuple(tid, t)
    PROVE  /\ Coherent'
           /\ \/ SameTable
              \/ \E p \in PageNo, s \in Slot :
                    /\ s \in Contents(p).bits
                    /\ OnlyPage(p, [bits |-> Contents(p).bits \ {s},
                                    body |-> [Contents(p).body EXCEPT ![s] = Null]])
<1>1. PICK p \in PageNo, s \in Slot :
        p = rid[t].page /\ s = rid[t].slot /\ p < numPages /\ numPages' = numPages
  BY DEF FileDeleteTuple, Inv, TypeOK, RecordId, CallsInTable
<1>2. PICK V \in victims(p), f \in frames(p) :
        /\ writePages(V \cap Dirty)
        /\ \/ /\ isSlotUsed(f.page, s)
              /\ pages' = install(V, p, [page  |-> deleteTuple(f.page, s),
                                         dirty |-> tid])
           \/ pages' = install(V, p, f)
  BY <1>1 DEF FileDeleteTuple
<1>3. GoodFrame(f, p) /\ getPageData(f.page) = Contents(p)
  BY <1>1, <1>2, FrameIsPage DEF Inv
<1>4. CASE pages' = install(V, p, f)
  <2>1. Coherent' /\ SameTable
    BY <1>1, <1>2, <1>3, <1>4, InstallCoherent DEF Inv, SameTable
  <2> QED BY <2>1
<1>5. CASE /\ isSlotUsed(f.page, s)
           /\ pages' = install(V, p, [page  |-> deleteTuple(f.page, s),
                                      dirty |-> tid])
  <2> DEFINE g == [page |-> deleteTuple(f.page, s), dirty |-> tid]
  <2>1. f.page \in Page /\ RowsPresent(f.page)
    BY <1>3 DEF GoodFrame, Frame
  <2>2. GoodFrame(g, p) /\ g.page = deleteTuple(f.page, s)
    BY <1>1, <2>1, PageTypes, RowsStay, TidsAssumption DEF GoodFrame, Frame
  <2>3. pages' = install(V, p, g)
    BY <1>5
  <2> HIDE DEF g
  <2>4. /\ Coherent'
        /\ Contents(p)' = getPageData(g.page)
        /\ \A q \in PageNo \ {p} : Contents(q)' = Contents(q)
    BY <1>1, <1>2, <2>2, <2>3, InstallCoherent DEF Inv
  <2>5. /\ s \in Contents(p).bits
        /\ getPageData(deleteTuple(f.page, s)) =
             [bits |-> Contents(p).bits \ {s},
              body |-> [Contents(p).body EXCEPT ![s] = Null]]
    BY <1>1, <1>3, <1>5, <2>1, DeleteBytes
  <2> QED BY <1>1, <2>2, <2>4, <2>5 DEF OnlyPage
<1> QED BY <1>2, <1>4, <1>5

-------------------------------------------------------------------------------
(* The calls that do not change the table.                                 *)

(* A call of the pool leaves the table as it was, or puts a page back to   *)
(* what is in the file (discardPage).                                      *)
LEMMA PoolCallEffect ==
    ASSUME Faults = {}, Inv, PoolCall
    PROVE  /\ Coherent'
           /\ \/ SameTable
              \/ \E p \in PageNo : /\ p < fileLen
                                   /\ UNCHANGED <<disk, fileLen>>
                                   /\ OnlyPage(p, disk[p])
<1>1. UNCHANGED numPages
  BY DEF PoolCall, FileUnchanged
<1>2. ASSUME NEW p \in PageNo, p < numPages, getPage(p)
      PROVE  Coherent' /\ SameTable
  <2>1. PICK V \in victims(p), f \in frames(p) :
          writePages(V \cap Dirty) /\ pages' = install(V, p, f)
    BY <1>2 DEF getPage
  <2>2. GoodFrame(f, p) /\ getPageData(f.page) = Contents(p)
    BY <1>2, <2>1, FrameIsPage DEF Inv
  <2> QED BY <1>1, <1>2, <2>1, <2>2, InstallCoherent DEF Inv, SameTable
<1>3. ASSUME evictPage PROVE Coherent' /\ SameTable
  BY <1>1, <1>3, EvictCoherent DEF evictPage, Inv, SameTable
<1>4. ASSUME NEW S, S \subseteq Dirty, flush(S) PROVE Coherent' /\ SameTable
  BY <1>1, <1>4, FlushCoherent DEF Inv, SameTable
<1>5. ASSUME NEW p \in PageNo, flushPage(p) PROVE Coherent' /\ SameTable
  BY <1>4, <1>5 DEF flushPage
<1>6. ASSUME flushAllPages PROVE Coherent' /\ SameTable
  BY <1>4, <1>6 DEF flushAllPages
<1>7. ASSUME NEW tid \in Tids, flushPages(tid) PROVE Coherent' /\ SameTable
  BY <1>4, <1>7 DEF flushPages
<1>8. ASSUME NEW p \in PageNo, discardPage(p)
      PROVE  /\ Coherent'
             /\ p < fileLen
             /\ UNCHANGED <<disk, fileLen>>
             /\ OnlyPage(p, disk[p])
  BY <1>1, <1>8, DropCoherent DEF discardPage, Inv, OnlyPage
<1> QED BY <1>2, <1>3, <1>5, <1>6, <1>7, <1>8 DEF PoolCall

(* A step that leaves pool and file alone. *)
LEMMA QuietStep ==
    ASSUME Coherent, UNCHANGED <<pages, disk, fileLen, numPages>>
    PROVE  Coherent' /\ SameTable
<1>1. \A q \in PageNo : Contents(q)' = Contents(q)
  BY DEF Contents
<1>2. CleanMatchesDisk' /\ DiskIsCanonical' /\ FramesAreFilled'
  BY DEF Coherent, CleanMatchesDisk, DiskIsCanonical, FramesAreFilled, Cached,
         Dirty, RowsPresent
<1>3. PagesExist'
  BY DEF Coherent, PagesExist, Exists, Cached
<1> QED BY <1>1, <1>2, <1>3 DEF Coherent, SameTable

-------------------------------------------------------------------------------
(* The inductive invariant.                                                *)

(* One iteration of the loop of insertTuple keeps the invariant. *)
LEMMA ProbeInv ==
    ASSUME Faults = {}, BadTuples = {}, Inv, Probe
    PROVE  Coherent' /\ CallsInTable' /\ ProbedPagesAreFull'
<1>1. PICK p : p = op.next
  OBVIOUS
<1>2. /\ Coherent'
      /\ p \in PageNo
      /\ \/ /\ Contents(p).bits = Slot
            /\ op' = nextPage
            /\ SameTable
            /\ UNCHANGED rid
         \/ /\ op' = idle
            /\ Stored(p)
  BY <1>1, ProbeEffect
<1>3. numPages' = numPages /\ p < numPages /\ op \in Op /\ op.kind # "idle"
  BY <1>1 DEF Probe, Inv, TypeOK
<1>4. CASE /\ Contents(p).bits = Slot
           /\ op' = nextPage
           /\ SameTable
           /\ UNCHANGED rid
  <2>1. /\ op'.tup = op.tup /\ op'.tid = op.tid /\ op'.kind = op.kind
        /\ op'.next = p + 1
    BY <1>1, <1>3, <1>4 DEF nextPage, Op
  <2>2. CallsInTable'
    BY <1>3, <1>4, <2>1 DEF Inv, CallsInTable
  <2>3. ASSUME NEW q \in PageNo, q < p + 1 PROVE Contents(q)'.bits = Slot
    <3>1. q < p \/ q = p
      BY <1>2, <2>3 DEF PageNo
    <3>2. Contents(q).bits = Slot
      BY <1>1, <1>3, <1>4, <3>1 DEF Inv, ProbedPagesAreFull
    <3> QED BY <1>4, <3>2 DEF SameTable
  <2>4. ProbedPagesAreFull'
    BY <2>1, <2>3 DEF ProbedPagesAreFull
  <2> QED BY <1>2, <2>2, <2>4
<1>5. CASE op' = idle /\ Stored(p)
  <2>1. op'.kind = "idle"
    BY <1>5 DEF idle
  <2>2. CallsInTable'
    BY <1>3, <1>5, <2>1 DEF Inv, CallsInTable, Stored, TypeOK
  <2> QED BY <1>2, <2>1, <2>2 DEF ProbedPagesAreFull
<1> QED BY <1>2, <1>4, <1>5

(* Adding a page keeps the invariant. *)
LEMMA NewPageInv ==
    ASSUME Faults = {}, BadTuples = {}, Inv, NewPage
    PROVE  Coherent' /\ CallsInTable' /\ ProbedPagesAreFull'
<1>1. PICK p : p = numPages
  OBVIOUS
<1>2. Coherent' /\ p \in PageNo /\ Stored(p)
  BY <1>1, NewPageEffect
<1>3. op'.kind = "idle" /\ numPages' = numPages + 1
  BY DEF NewPage, counted, idle
<1>4. CallsInTable'
  <2> SUFFICES ASSUME NEW t \in Tuples, rid'[t] # Null
               PROVE  rid'[t].page < numPages'
    BY <1>3 DEF CallsInTable
  <2>1. CASE rid'[t].page = p
    BY <1>1, <1>3, <2>1 DEF Inv, TypeOK
  <2>2. CASE rid'[t] = rid[t]
    <3>1. rid[t].page < numPages /\ rid[t].page \in PageNo
      BY <2>2 DEF Inv, CallsInTable, TypeOK, RecordId
    <3> QED BY <1>3, <2>2, <3>1 DEF Inv, TypeOK, PageNo
  <2> QED BY <1>2, <2>1, <2>2 DEF Stored, Inv, TypeOK
<1> QED BY <1>2, <1>3, <1>4 DEF ProbedPagesAreFull

(* Every step of the program keeps the invariant. *)
LEMMA InvStep ==
    ASSUME Faults = {}, BadTuples = {}, Inv, [Next]_vars
    PROVE  Inv'
<1>1. TypeOK'
  BY TypeStep DEF Inv
<1>2. SUFFICES Coherent' /\ CallsInTable' /\ ProbedPagesAreFull'
  BY <1>1 DEF Inv
<1>3. ASSUME op.kind = "idle", UNCHANGED <<numPages, op, rid>>
      PROVE  CallsInTable' /\ ProbedPagesAreFull'
  BY <1>3 DEF Inv, CallsInTable, ProbedPagesAreFull
<1>4. CASE Probe
  BY <1>4, ProbeInv
<1>5. CASE NewPage
  BY <1>5, NewPageInv
<1>6. ASSUME NEW tid \in Tids, NEW t \in Tuples,
             InsertTuple(tid, t) \/ DeleteTuple(tid, t)
      PROVE  Coherent' /\ CallsInTable' /\ ProbedPagesAreFull'
  <2>1. /\ op'.tup = t /\ op'.tid = tid /\ op'.next = 0
        /\ UNCHANGED <<pages, disk, fileLen, numPages, rid>>
    BY <1>6 DEF InsertTuple, DeleteTuple, Begin
  <2>2. Coherent'
    BY <2>1, QuietStep DEF Inv
  <2>3. CallsInTable'
    BY <2>1 DEF Inv, CallsInTable
  <2>4. ProbedPagesAreFull'
    BY <2>1 DEF ProbedPagesAreFull, PageNo
  <2> QED BY <2>2, <2>3, <2>4
<1>7. ASSUME NEW tid \in Tids, NEW t \in Tuples, FileDeleteTuple(tid, t)
      PROVE  Coherent' /\ CallsInTable' /\ ProbedPagesAreFull'
  BY <1>3, <1>7, FileDeleteEffect DEF FileDeleteTuple
<1>8. CASE PoolCall
  BY <1>3, <1>8, PoolCallEffect DEF PoolCall, FileUnchanged
<1>9. CASE ResetBufferPool
  BY <1>9 DEF ResetBufferPool
<1>10. CASE Restart
  <2>1. Coherent'
    BY <1>10, RestartCoherent DEF Inv
  <2>2. op'.kind = "idle" /\ \A t \in Tuples : rid'[t] = Null
    BY <1>10 DEF Restart, idle
  <2> QED BY <2>1, <2>2 DEF CallsInTable, ProbedPagesAreFull
<1>11. CASE UNCHANGED vars
  <2>1. Coherent' /\ SameTable
    BY <1>11, QuietStep DEF vars, Inv
  <2> QED BY <1>11, <2>1
          DEF vars, Inv, CallsInTable, ProbedPagesAreFull, SameTable
<1> QED BY <1>4, <1>5, <1>6, <1>7, <1>8, <1>9, <1>10, <1>11 DEF Next, Client

(* The invariant holds of an empty file and an empty pool. *)
LEMMA InitInv == Init => Inv
<1> SUFFICES ASSUME Init PROVE Inv
  OBVIOUS
<1>1. TypeOK
  BY PageTypes, idleType, MaxPagesAssumption
  DEF Init, PoolInit, TypeOK, PoolTypeOK
<1>2. \A p \in PageNo : pages[p] = Null /\ disk[p] = createEmptyPageData
  BY DEF Init, PoolInit
<1>3. fileLen = 0 /\ numPages = 0 /\ op.kind = "idle"
      /\ \A t \in Tuples : rid[t] = Null
  BY DEF Init, PoolInit, idle
<1>4. PagesExist
  BY <1>2, <1>3 DEF PagesExist, Cached, PageNo
<1>5. DiskIsCanonical
  <2>1. Canonical(createEmptyPageData)
    BY DEF Canonical, createEmptyPageData
  <2> QED BY <1>2, <2>1 DEF DiskIsCanonical, Canonical
<1>6. Coherent
  BY <1>2, <1>4, <1>5 DEF Coherent, CleanMatchesDisk, FramesAreFilled, Cached
<1> QED BY <1>1, <1>3, <1>6 DEF Inv, CallsInTable, ProbedPagesAreFull

(* The inductive invariant holds in every reachable state. *)
THEOREM Invariance ==
    ASSUME Faults = {}, BadTuples = {} PROVE Spec => []Inv
<1>1. Init => Inv
  BY InitInv
<1>2. Inv /\ [Next]_vars => Inv'
  BY InvStep
<1> QED BY <1>1, <1>2, PTL DEF Spec

(* A cached page that is not marked dirty equals the page in the file, so  *)
(* BufferPool::evictPage may erase it without writing.                     *)
THEOREM CleanFramesMatchFile ==
    ASSUME Faults = {}, BadTuples = {} PROVE Spec => []CleanMatchesDisk
<1>1. Inv => CleanMatchesDisk
  BY DEF Inv, Coherent
<1> QED BY <1>1, Invariance, PTL

(* Every page that HeapFile::getNumPages counts is in the pool or in the   *)
(* file: HeapFile::readPage never reads past the end of the file.          *)
THEOREM CountedPagesExist ==
    ASSUME Faults = {}, BadTuples = {} PROVE Spec => []PagesExist
<1>1. Inv => PagesExist
  BY DEF Inv, Coherent
<1> QED BY <1>1, Invariance, PTL

(* What the file holds is what HeapPage::getPageData writes, so reading a  *)
(* page back gives the page that was written.                              *)
THEOREM FileIsCanonical ==
    ASSUME Faults = {}, BadTuples = {} PROVE Spec => []DiskIsCanonical
<1>1. Inv => DiskIsCanonical
  BY DEF Inv, Coherent
<1> QED BY <1>1, Invariance, PTL

(* The pages that the loop of HeapFile::insertTuple has passed stay full   *)
(* while the call runs, whatever its own evictions do to them.             *)
THEOREM PassedPagesStayFull ==
    ASSUME Faults = {}, BadTuples = {} PROVE Spec => []ProbedPagesAreFull
<1>1. Inv => ProbedPagesAreFull
  BY DEF Inv
<1> QED BY <1>1, Invariance, PTL

-------------------------------------------------------------------------------
(* The heap file behind the pool implements HeapTable, and insertTuple     *)
(* changes exactly one row.                                                *)

(* The two modules number pages and slots alike. *)
LEMMA SameNumbers == Table!TablePage = PageNo /\ Table!TableSlot = Slot
  BY DEF Table!TablePage, Table!TableSlot, PageNo, Slot

(* Every step writes dirty pages to the file, or leaves the file alone. *)
LEMMA StepWrites ==
    ASSUME [Next]_vars
    PROVE  (\E S \in SUBSET Dirty : writePages(S)) \/ UNCHANGED <<disk, fileLen>>
<1>1. CASE Probe
  BY <1>1 DEF Probe
<1>2. CASE NewPage
  BY <1>2 DEF NewPage
<1>3. ASSUME NEW tid \in Tids, NEW t \in Tuples,
             InsertTuple(tid, t) \/ DeleteTuple(tid, t)
      PROVE  UNCHANGED <<disk, fileLen>>
  BY <1>3 DEF InsertTuple, DeleteTuple, Begin
<1>4. ASSUME NEW tid \in Tids, NEW t \in Tuples, FileDeleteTuple(tid, t)
      PROVE  \E S \in SUBSET Dirty : writePages(S)
  BY <1>4 DEF FileDeleteTuple
<1>5. CASE PoolCall
  BY <1>5 DEF PoolCall, getPage, evictPage, flushPage, flushAllPages, flushPages,
              flush, discardPage
<1>6. CASE ResetBufferPool \/ Restart \/ UNCHANGED vars
  BY <1>6 DEF ResetBufferPool, Restart, vars
<1> QED BY <1>1, <1>2, <1>3, <1>4, <1>5, <1>6 DEF Next, Client

(* What is written are rows of the table. *)
LEMMA StepPersists ==
    ASSUME Faults = {}, Inv, [Next]_vars
    PROVE  \E S \in SUBSET PageNo : Table!Persist(S)
<1>1. CASE UNCHANGED <<disk, fileLen>>
  <2>1. Table!Persist({})
    BY <1>1, SameNumbers DEF Table!Persist, Inv, TypeOK, PoolTypeOK
  <2> QED BY <2>1
<1>2. ASSUME NEW S \in SUBSET Dirty, writePages(S)
      PROVE  S \in SUBSET PageNo /\ Table!Persist(S)
  <2>1. /\ disk' = [p \in PageNo |->
                      IF p \in S THEN getPageData(pages[p].page) ELSE disk[p]]
        /\ fileLen' \in 0 .. MaxPages
        /\ fileLen <= fileLen'
        /\ fileLen' # fileLen => fileLen' - 1 \in S
        /\ \A p \in S : p < fileLen'
    BY <1>2, Written DEF Inv
  <2>2. ASSUME NEW p \in PageNo
        PROVE  disk'[p].body = IF p \in S THEN Contents(p).body ELSE disk[p].body
    BY <1>2, <2>1 DEF Contents, Dirty, Cached
  <2>3. [p \in PageNo |-> disk'[p].body] =
          [p \in PageNo |-> IF p \in S THEN Contents(p).body ELSE disk[p].body]
    BY <2>2
  <2>4. fileLen' \in fileLen .. MaxPages
    BY <2>1 DEF Inv, TypeOK, PoolTypeOK
  <2>5. S \in SUBSET PageNo
    BY <1>2 DEF Dirty, Cached
  <2> QED BY <2>1, <2>3, <2>4, <2>5, SameNumbers DEF Table!Persist
<1> QED BY <1>1, <1>2, StepWrites

(* A page that is full has a row in every slot. *)
LEMMA FullPage ==
    ASSUME Inv, NEW p \in PageNo, Contents(p).bits = Slot
    PROVE  Table!Full(p)
<1>1. \A s \in Slot : Contents(p).body[s] # Null
  BY ContentsCanonical DEF Inv, Canonical
<1> QED BY <1>1, SameNumbers DEF Table!Full

(* The step of insertTuple that stores the tuple is an Insert of the       *)
(* table: all pages before it are full.                                    *)
LEMMA StoredIsInsert ==
    ASSUME Inv, op.kind # "idle", NEW p \in PageNo, Stored(p),
           p = op.next,
           \/ p < numPages /\ numPages' = numPages
           \/ p = numPages /\ numPages' = numPages + 1
    PROVE  Table!Change
<1>1. PICK s \in Slot :
        /\ s \notin Contents(p).bits
        /\ OnlyPage(p, [bits |-> Contents(p).bits \cup {s},
                        body |-> [Contents(p).body EXCEPT ![s] = op.tup]])
  BY DEF Stored
<1>2. PICK t \in Tuples : t = op.tup
  BY DEF Inv, CallsInTable
<1>3. Contents(p).body[s] = Null
  BY <1>1, ContentsCanonical DEF Inv, Canonical
<1>4. \A q \in PageNo : q < p => Table!Full(q)
  BY FullPage DEF Inv, ProbedPagesAreFull
<1>5. [q \in PageNo |-> Contents(q)'.body] =
        [[q \in PageNo |-> Contents(q).body] EXCEPT
           ![p] = [Contents(p).body EXCEPT ![s] = t]]
  <2>1. Contents(p)'.body = [Contents(p).body EXCEPT ![s] = t]
    BY <1>1, <1>2 DEF OnlyPage
  <2>2. \A q \in PageNo \ {p} : Contents(q)'.body = Contents(q).body
    BY <1>1 DEF OnlyPage
  <2> QED BY <2>1, <2>2
<1>6. p <= numPages /\ numPages' = IF p = numPages THEN numPages + 1 ELSE numPages
  BY DEF Inv, TypeOK, PageNo
<1>7. Table!Insert(t, p, s)
  BY <1>3, <1>4, <1>5, <1>6, SameNumbers DEF Table!Insert, Table!Set
<1> QED BY <1>2, <1>7, SameNumbers DEF Table!Change

(* A step that changes neither a row nor the number of pages is allowed by *)
(* the table.                                                              *)
LEMMA SameIsChange ==
    ASSUME SameTable, UNCHANGED numPages PROVE Table!Change
<1>1. [q \in PageNo |-> Contents(q)'.body] = [q \in PageNo |-> Contents(q).body]
  BY DEF SameTable
<1> QED BY <1>1 DEF Table!Change

(* Every step of the program is a step of the table, or leaves it as it    *)
(* was.                                                                    *)
LEMMA TableStep ==
    ASSUME Faults = {}, BadTuples = {}, Inv, [Next]_vars
    PROVE  [Table!TableNext]_(Table!tableVars)
<1>1. PICK S \in SUBSET PageNo : Table!Persist(S)
  BY StepPersists
<1>2. ASSUME Table!Change PROVE Table!TableNext
  BY <1>1, <1>2, SameNumbers DEF Table!TableNext
<1>3. CASE Probe
  <2>1. PICK p : p = op.next
    OBVIOUS
  <2>2. p \in PageNo /\ (SameTable \/ Stored(p))
    BY <1>3, <2>1, ProbeEffect
  <2>3. op.kind # "idle" /\ p < numPages /\ numPages' = numPages
    BY <1>3, <2>1 DEF Probe
  <2>4. Table!Change
    BY <2>1, <2>2, <2>3, StoredIsInsert, SameIsChange
  <2> QED BY <1>2, <2>4
<1>4. CASE NewPage
  <2>1. PICK p : p = numPages
    OBVIOUS
  <2>2. p \in PageNo /\ Stored(p)
    BY <1>4, <2>1, NewPageEffect
  <2>3. op.kind # "idle" /\ p = op.next /\ numPages' = numPages + 1
    BY <1>4, <2>1 DEF NewPage, counted
  <2>4. Table!Change
    BY <2>1, <2>2, <2>3, StoredIsInsert
  <2> QED BY <1>2, <2>4
<1>5. ASSUME NEW tid \in Tids, NEW t \in Tuples,
             InsertTuple(tid, t) \/ DeleteTuple(tid, t)
      PROVE  Table!TableNext
  <2>1. UNCHANGED <<pages, disk, fileLen, numPages>>
    BY <1>5 DEF InsertTuple, DeleteTuple, Begin
  <2> QED BY <1>2, <2>1, QuietStep, SameIsChange DEF Inv
<1>6. ASSUME NEW tid \in Tids, NEW t \in Tuples, FileDeleteTuple(tid, t)
      PROVE  Table!TableNext
  <2>1. UNCHANGED numPages
    BY <1>6 DEF FileDeleteTuple
  <2>2. CASE SameTable
    BY <1>2, <2>1, <2>2, SameIsChange
  <2>3. ASSUME NEW p \in PageNo, NEW s \in Slot, s \in Contents(p).bits,
               OnlyPage(p, [bits |-> Contents(p).bits \ {s},
                            body |-> [Contents(p).body EXCEPT ![s] = Null]])
        PROVE  Table!TableNext
    <3>1. Contents(p).body[s] # Null
      BY <2>3, ContentsCanonical DEF Inv, Canonical
    <3>2. [q \in PageNo |-> Contents(q)'.body] =
            [[q \in PageNo |-> Contents(q).body] EXCEPT
               ![p] = [Contents(p).body EXCEPT ![s] = Null]]
      <4>1. Contents(p)'.body = [Contents(p).body EXCEPT ![s] = Null]
        BY <2>3 DEF OnlyPage
      <4>2. \A q \in PageNo \ {p} : Contents(q)'.body = Contents(q).body
        BY <2>3 DEF OnlyPage
      <4> QED BY <4>1, <4>2
    <3>3. Table!Delete(p, s)
      BY <2>1, <3>1, <3>2 DEF Table!Delete, Table!Set
    <3> QED BY <1>2, <3>3, SameNumbers DEF Table!Change
  <2> QED BY <1>6, <2>2, <2>3, FileDeleteEffect
<1>7. CASE PoolCall
  <2>1. UNCHANGED numPages
    BY <1>7 DEF PoolCall, FileUnchanged
  <2>2. CASE SameTable
    BY <1>2, <2>1, <2>2, SameIsChange
  <2>3. ASSUME NEW p \in PageNo, p < fileLen, UNCHANGED <<disk, fileLen>>,
               OnlyPage(p, disk[p])
        PROVE  Table!TableNext
    <3>1. [q \in PageNo |-> Contents(q)'.body] =
            [[q \in PageNo |-> Contents(q).body] EXCEPT ![p] = disk[p].body]
      BY <2>3 DEF OnlyPage
    <3>2. Table!Discard(p)
      BY <2>1, <2>3, <3>1 DEF Table!Discard
    <3> QED BY <3>2, SameNumbers DEF Table!TableNext
  <2> QED BY <1>7, <2>2, <2>3, PoolCallEffect
<1>8. CASE Restart
  <2>1. \A q \in PageNo : Contents(q)' = disk[q]
    BY <1>8, RestartCoherent DEF Inv
  <2>2. [q \in PageNo |-> Contents(q)'.body] = [q \in PageNo |-> disk[q].body]
    BY <2>1
  <2>3. Table!Crash
    BY <1>8, <2>2 DEF Table!Crash, Restart, Reopen
  <2> QED BY <2>3 DEF Table!TableNext
<1>9. CASE ResetBufferPool
  BY <1>9 DEF ResetBufferPool
<1>10. CASE UNCHANGED vars
  BY <1>10 DEF vars, Table!tableVars, Contents
<1> QED BY <1>3, <1>4, <1>5, <1>6, <1>7, <1>8, <1>9, <1>10 DEF Next, Client

(* An empty file behind an empty pool is an empty table. *)
LEMMA TableStart == Init => Table!TableInit
<1> SUFFICES ASSUME Init PROVE Table!TableInit
  OBVIOUS
<1>1. \A p \in PageNo : /\ disk[p].body = [s \in Slot |-> Null]
                        /\ Contents(p).body = [s \in Slot |-> Null]
  BY DEF Init, PoolInit, Contents, createEmptyPageData
<1> QED BY <1>1, SameNumbers DEF Init, PoolInit, Table!TableInit, Table!NoRows

(* Pool, page objects and file together implement a table of rows with an  *)
(* older version of it that survives a crash: caching, eviction, flushing, *)
(* re-reading and the loop of HeapFile::insertTuple are invisible.         *)
THEOREM Refinement ==
    ASSUME Faults = {}, BadTuples = {} PROVE Spec => ImplementsTable
<1>1. Init => Table!TableInit
  BY TableStart
<1>2. Inv /\ [Next]_vars => [Table!TableNext]_(Table!tableVars)
  BY TableStep
<1> QED BY <1>1, <1>2, Invariance, PTL DEF Spec, ImplementsTable, Table!TableSpec

(* When insertTuple returns, the tuple can be read back at the RecordId it *)
(* was given, and no other slot of the table has changed.                  *)
THEOREM InsertExactness ==
    ASSUME Faults = {}, BadTuples = {} PROVE Spec => InsertIsExact
<1> DEFINE A == op.kind # "idle" /\ op'.kind = "idle" /\ op.tup \notin BadTuples
                /\ rid'[op.tup] # Null =>
                    LET r == rid'[op.tup]
                    IN  \A p \in PageNo, s \in Slot :
                            Contents(p)'.body[s] =
                                IF p = r.page /\ s = r.slot
                                THEN op.tup ELSE Contents(p).body[s]
<1>1. ASSUME Faults = {}, BadTuples = {}, Inv, [Next]_vars PROVE [A]_vars
  <2> SUFFICES ASSUME op.kind # "idle", op'.kind = "idle", rid'[op.tup] # Null
               PROVE  A
    OBVIOUS
  <2>1. op.tup \in Tuples /\ op \in Op
    BY <1>1 DEF Inv, CallsInTable, TypeOK
  <2>2. PICK q \in PageNo : Stored(q)
    <3>1. CASE Probe
      <4>1. PICK q : q = op.next
        OBVIOUS
      <4>2. q \in PageNo /\ (op' = nextPage \/ Stored(q))
        BY <1>1, <3>1, <4>1, ProbeEffect
      <4>3. nextPage.kind = op.kind
        BY <2>1 DEF nextPage, Op
      <4> QED BY <4>2, <4>3
    <3>2. CASE NewPage
      BY <1>1, <3>2, NewPageEffect
    <3>3. CASE Restart
      BY <2>1, <3>3 DEF Restart
    <3> QED BY <1>1, <3>1, <3>2, <3>3
            DEF Next, Client, InsertTuple, DeleteTuple, Begin, FileDeleteTuple,
                PoolCall, ResetBufferPool, vars
  <2>3. PICK z \in Slot :
          /\ OnlyPage(q, [bits |-> Contents(q).bits \cup {z},
                          body |-> [Contents(q).body EXCEPT ![z] = op.tup]])
          /\ rid' = [rid EXCEPT ![op.tup] = [page |-> q, slot |-> z]]
    BY <2>2 DEF Stored
  <2>4. rid'[op.tup] = [page |-> q, slot |-> z]
    BY <1>1, <2>1, <2>3 DEF Inv, TypeOK
  <2>5. Contents(q).body \in [Slot -> Row]
    BY <1>1, ContentsCanonical DEF Inv, Data
  <2>6. ASSUME NEW p \in PageNo, NEW s \in Slot
        PROVE  Contents(p)'.body[s] = IF p = q /\ s = z
                                      THEN op.tup ELSE Contents(p).body[s]
    BY <2>3, <2>5 DEF OnlyPage
  <2> QED BY <2>4, <2>6
<1> QED BY <1>1, Invariance, PTL DEF Spec, InsertIsExact

===============================================================================
