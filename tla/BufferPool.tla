------------------------------ MODULE BufferPool ------------------------------
(***************************************************************************)
(* The buffer pool (db/BufferPool.cpp) over one table's file: a cache of   *)
(* at most NumPages page objects, each clean or dirtied by a transaction,  *)
(* and the file below it (HeapFile::readPage, HeapFile::writePage).        *)
(*                                                                         *)
(* evictPage takes pages.begin() of an unordered_map: the victim is any    *)
(* cached page.  A pwrite past the end of the file extends it and leaves   *)
(* zeros in between; a pread past the end fills nothing, so the page       *)
(* object is built from an uninitialised buffer: any Data at all.          *)
(***************************************************************************)
EXTENDS HeapPage

CONSTANTS
    MaxPages,   \* bound: pages the table may grow to
    NumPages,   \* capacity of the pool (BufferPool::numPages)
    Tids,       \* transaction identifiers
    Faults      \* the misuses and failures that a run lets happen

FaultKinds ==
    { "writeError",       \* a pwrite fails; HeapFile::writePage ignores it
      "discardUnwritten", \* a page the file does not hold is discarded
      "resetPool",        \* Database::resetBufferPool drops dirty pages
      "bareDelete" }      \* a caller of deleteTuple does not mark the page

ASSUME MaxPagesAssumption == MaxPages \in Nat \ {0}
ASSUME NumPagesAssumption == NumPages \in Nat \ {0}
ASSUME TidsAssumption == Null \notin Tids
ASSUME FaultsAssumption == Faults \subseteq FaultKinds

VARIABLES
    pages,      \* BufferPool::pages: [PageNo -> Frame or Null]
    disk,       \* the bytes of each page of the file (zeros past its end)
    fileLen     \* length of the file in pages

poolVars == <<pages, disk, fileLen>>

PageNo == 0 .. MaxPages - 1

Frame == [page : Page, dirty : Tids \cup {Null}]

ASSUME NullFrameAssumption == Null \notin Frame

Cached == { p \in PageNo : pages[p] # Null }

Dirty == { p \in Cached : pages[p].dirty # Null }

PoolTypeOK ==
    /\ pages \in [PageNo -> Frame \cup {Null}]
    /\ disk \in [PageNo -> Data]
    /\ fileLen \in 0 .. MaxPages

PoolInit ==
    /\ pages = [p \in PageNo |-> Null]
    /\ disk = [p \in PageNo |-> createEmptyPageData]
    /\ fileLen = 0

-------------------------------------------------------------------------------
(* The file.                                                               *)

(* n is the length of the file once the pages of W are written. *)
Extent(W, n) ==
    /\ n >= fileLen
    /\ \A p \in W : p < n
    /\ n # fileLen => n - 1 \in W

(* HeapFile::writePage of each page in S; under writeError some are lost. *)
writePages(S) ==
    \E W \in IF "writeError" \in Faults THEN SUBSET S ELSE {S} :
    \E n \in 0 .. MaxPages :
        /\ Extent(W, n)
        /\ disk' = [p \in PageNo |->
                      IF p \in W THEN getPageData(pages[p].page) ELSE disk[p]]
        /\ fileLen' = n

(* What HeapFile::readPage may build after the writes of this step. *)
readPage(p) ==
    { HeapPageOf(d) : d \in IF p < fileLen' THEN {disk'[p]} ELSE Data }

-------------------------------------------------------------------------------
(* The cache.                                                              *)

Clean(f) == [f EXCEPT !.dirty = Null]

(* Bug variant: flushPage clears the mark and forgets to write. *)
flushNoWrite(S) ==
    /\ pages' = [p \in PageNo |-> IF p \in S THEN Clean(pages[p]) ELSE pages[p]]
    /\ UNCHANGED <<disk, fileLen>>

(* flushPage for each page of S (dirty ones): unmark, then write. *)
flush(S) ==
    /\ pages' = [p \in PageNo |-> IF p \in S THEN Clean(pages[p]) ELSE pages[p]]
    /\ writePages(S)

(* Bug variant: the pool is full only when it holds one page too many. *)
victimsLate(p) ==
    IF pages[p] # Null \/ Cardinality(Cached) <= NumPages
    THEN {{}}
    ELSE { {v} : v \in Cached }

(* What evictPage may have to throw out before page p can be added. *)
victims(p) ==
    IF pages[p] # Null \/ Cardinality(Cached) < NumPages
    THEN {{}}
    ELSE { {v} : v \in Cached }

(* The pool after the pages of V are erased and page p is frame f. *)
install(V, p, f) ==
    [q \in PageNo |-> IF q = p THEN f ELSE IF q \in V THEN Null ELSE pages[q]]

(* The frames BufferPool::getPage may find or read for page p. *)
frames(p) ==
    IF pages[p] # Null
    THEN {pages[p]}
    ELSE { [page |-> x, dirty |-> Null] : x \in readPage(p) }

-------------------------------------------------------------------------------
(* The operations of the pool.                                             *)

getPage(p) ==
    \E V \in victims(p) :
        /\ writePages(V \cap Dirty)
        /\ \E f \in frames(p) : pages' = install(V, p, f)

(* Bug variant: the victim is erased without being written. *)
evictPageUnwritten ==
    /\ \E v \in Cached : pages' = [pages EXCEPT ![v] = Null]
    /\ UNCHANGED <<disk, fileLen>>

evictPage ==
    \E v \in Cached :
        /\ writePages({v} \cap Dirty)
        /\ pages' = [pages EXCEPT ![v] = Null]

flushPage(p) == flush({p} \cap Dirty)

flushAllPages == flush(Dirty)

flushPages(tid) == flush({ p \in Dirty : pages[p].dirty = tid })

(* discardPage erases without writing.  Discarding a page that was never   *)
(* written leaves the table with a page that exists nowhere: a misuse.     *)
discardPage(p) ==
    /\ p < fileLen \/ "discardUnwritten" \in Faults
    /\ pages' = [pages EXCEPT ![p] = Null]
    /\ UNCHANGED <<disk, fileLen>>

===============================================================================
