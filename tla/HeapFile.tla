------------------------------- MODULE HeapFile -------------------------------
(***************************************************************************)
(* A heap file used through the buffer pool: BufferPool::insertTuple and   *)
(* BufferPool::deleteTuple (db/BufferPool.cpp:43-68), HeapFile's insert    *)
(* and delete (db/HeapFile.cpp), and the reopening of the file after the   *)
(* process ends (HeapFile::HeapFile).                                      *)
(*                                                                         *)
(* The program has one thread.  A call of insertTuple is a loop over the   *)
(* pages of the file, each iteration of which may evict and write a page;  *)
(* it is modelled one iteration per step, because the process may end      *)
(* between two of them.  No other call starts while one is in progress.    *)
(***************************************************************************)
EXTENDS BufferPool

CONSTANT BadTuples   \* tuples whose TupleDesc is not the table's

ASSUME BadTuplesAssumption == BadTuples \subseteq Tuples

VARIABLES
    numPages,   \* HeapFile::numPages
    op,         \* the insert (or pool delete) in progress
    rid         \* the RecordId of each tuple object that clients hold

vars == <<pages, disk, fileLen, numPages, op, rid>>

RecordId == [page : PageNo, slot : Slot]

Op == [kind : {"idle", "insert", "delete"},
       tid  : Tids \cup {Null},
       tup  : Tuples \cup {Null},
       next : 0 .. MaxPages]

idle == [kind |-> "idle", tid |-> Null, tup |-> Null, next |-> 0]

ASSUME NullRecordIdAssumption == Null \notin RecordId

(* What the table holds: the cached page, else the page in the file. *)
Contents(p) ==
    IF pages[p] # Null THEN getPageData(pages[p].page) ELSE disk[p]

(* Page p of the table is in the pool or in the file. *)
Exists(p) == pages[p] # Null \/ p < fileLen

Init ==
    /\ PoolInit
    /\ numPages = 0
    /\ op = idle
    /\ rid = [t \in Tuples |-> Null]

-------------------------------------------------------------------------------
(* insertTuple, through the pool.                                          *)

(* The table stays within MaxPages pages (bound of the model). *)
RoomLeft ==
    \/ numPages < MaxPages
    \/ \E p \in PageNo : p < numPages /\ Contents(p).bits # Slot

Begin(kind, tid, t) ==
    /\ op.kind = "idle"
    /\ RoomLeft
    /\ op' = [kind |-> kind, tid |-> tid, tup |-> t, next |-> 0]
    /\ UNCHANGED <<pages, disk, fileLen, numPages, rid>>

InsertTuple(tid, t) == Begin("insert", tid, t)

(* BufferPool::deleteTuple needs a tuple that has a RecordId; from there   *)
(* on its body is that of insertTuple: it calls f->insertTuple.            *)
DeleteTuple(tid, t) == rid[t] # Null /\ Begin("delete", tid, t)

(* The effect on page object x, number p, of HeapPage::insertTuple and the *)
(* loop of BufferPool::insertTuple that marks the page and adds it.        *)
StoreTuple(V, p, x) ==
    /\ pages' = install(V, p, [page  |-> insertTuple(x, op.tup),
                               dirty |-> op.tid])
    /\ rid' = [rid EXCEPT ![op.tup] = [page |-> p, slot |-> firstEmptySlot(x)]]

(* Bug variant: the loop does not go on to the next page. *)
nextPageStuck == op

(* i++ *)
nextPage == [op EXCEPT !.next = op.next + 1]

(* One iteration of the loop of HeapFile::insertTuple and, if the page has *)
(* room, the rest of the call.  A tuple of another layout makes            *)
(* HeapPage::insertTuple throw.                                            *)
Probe ==
    /\ op.kind # "idle"
    /\ op.next < numPages
    /\ \E V \in victims(op.next) :
        /\ writePages(V \cap Dirty)
        /\ \E f \in frames(op.next) :
            \/ /\ ~ hasEmptySlot(f.page)
               /\ op' = nextPage
               /\ pages' = install(V, op.next, f)
               /\ UNCHANGED rid
            \/ /\ hasEmptySlot(f.page)
               /\ op.tup \notin BadTuples
               /\ StoreTuple(V, op.next, f.page)
               /\ op' = idle
            \/ /\ hasEmptySlot(f.page)
               /\ op.tup \in BadTuples
               /\ pages' = install(V, op.next, f)
               /\ op' = idle
               /\ UNCHANGED rid
    /\ UNCHANGED numPages

(* Bug variant: the new page is not counted. *)
uncounted == numPages

(* numPages++ *)
counted == numPages + 1

(* Every page is full: a new page is made and counted, then the tuple is   *)
(* stored in it, or HeapPage::insertTuple throws and the page is dropped.  *)
NewPage ==
    /\ op.kind # "idle"
    /\ op.next = numPages
    /\ numPages < MaxPages
    /\ numPages' = counted
    /\ op' = idle
    /\ \/ /\ op.tup \notin BadTuples
          /\ \E V \in victims(numPages) :
                /\ writePages(V \cap Dirty)
                /\ StoreTuple(V, numPages, HeapPageOf(createEmptyPageData))
       \/ /\ op.tup \in BadTuples
          /\ UNCHANGED <<pages, disk, fileLen, rid>>

-------------------------------------------------------------------------------
(* The other calls.                                                        *)

(* HeapFile::deleteTuple, and the caller's marking of the page it returns  *)
(* (the loop the pool's deleteTuple runs).  The tuple keeps its RecordId.  *)
FileDeleteTuple(tid, t) ==
    /\ op.kind = "idle"
    /\ rid[t] # Null
    /\ LET p == rid[t].page
           s == rid[t].slot
       IN  \E V \in victims(p) :
            /\ writePages(V \cap Dirty)
            /\ \E f \in frames(p) :
                \/ /\ isSlotUsed(f.page, s)
                   /\ \E mark \in {tid} \cup
                          (IF "bareDelete" \in Faults THEN {f.dirty} ELSE {}) :
                        pages' = install(V, p, [page  |-> deleteTuple(f.page, s),
                                                dirty |-> mark])
                \/ /\ ~ isSlotUsed(f.page, s)       \* throw "Empty slot"
                   /\ pages' = install(V, p, f)
    /\ UNCHANGED <<numPages, op, rid>>

FileUnchanged == UNCHANGED <<numPages, op, rid>>

(* A client's calls of the pool, between two calls that change tuples. *)
PoolCall ==
    /\ op.kind = "idle"
    /\ \/ \E p \in PageNo : p < numPages /\ getPage(p)
       \/ evictPage
       \/ \E p \in PageNo : flushPage(p)
       \/ flushAllPages
       \/ \E tid \in Tids : flushPages(tid)
       \/ \E p \in PageNo : discardPage(p)
    /\ FileUnchanged

(* Database::resetBufferPool: the pool is replaced, nothing is written. *)
ResetBufferPool ==
    /\ "resetPool" \in Faults
    /\ op.kind = "idle"
    /\ pages' = [p \in PageNo |-> Null]
    /\ UNCHANGED <<disk, fileLen>>
    /\ FileUnchanged

(* Bug variant: the size of the file is rounded up. *)
ReopenRoundedUp == numPages' = fileLen + 1

(* HeapFile::HeapFile on a file of fileLen pages. *)
Reopen == numPages' = fileLen

(* The process ends at any moment and a new one opens the file. *)
Restart ==
    /\ pages' = [p \in PageNo |-> Null]
    /\ Reopen
    /\ op' = idle
    /\ rid' = [t \in Tuples |-> Null]
    /\ UNCHANGED <<disk, fileLen>>

-------------------------------------------------------------------------------
Client ==
    \/ \E tid \in Tids, t \in Tuples :
          \/ InsertTuple(tid, t)
          \/ DeleteTuple(tid, t)
          \/ FileDeleteTuple(tid, t)
    \/ PoolCall
    \/ ResetBufferPool

Next == Probe \/ NewPage \/ Client \/ Restart

(* A call that has begun runs on: the program is one thread. *)
Spec == Init /\ [][Next]_vars /\ WF_vars(Probe \/ NewPage)

-------------------------------------------------------------------------------
(* Properties.                                                             *)

(* The variables have their types. *)
TypeOK ==
    /\ PoolTypeOK
    /\ numPages \in 0 .. MaxPages
    /\ op \in Op
    /\ rid \in [Tuples -> RecordId \cup {Null}]

(* The pool never holds more than NumPages pages, although getPage and     *)
(* insertTuple add pages at two places that test the size separately.      *)
WithinCapacity == Cardinality(Cached) <= NumPages

(* A cached page that is not marked dirty is, byte for byte, the page in   *)
(* the file, so evictPage may erase it without writing.                    *)
CleanMatchesDisk ==
    \A p \in Cached \ Dirty :
        p < fileLen /\ getPageData(pages[p].page) = disk[p]

(* Every page that getNumPages() counts is in the pool or in the file, and *)
(* no others are: a probe of insertTuple never reads past the end.         *)
PagesExist ==
    /\ fileLen <= numPages
    /\ \A p \in PageNo : p < numPages => Exists(p)
    /\ \A p \in Cached : p < numPages

(* A page that the loop of insertTuple has passed is still full, wherever  *)
(* the evictions of later iterations have left it; so a new page is only   *)
(* made when the table has no empty slot.                                  *)
ProbedPagesAreFull ==
    op.kind # "idle" =>
        \A p \in PageNo : p < op.next => Contents(p).bits = Slot

(* The bytes in the file are what getPageData writes: zeros in the clear   *)
(* slots, a tuple in the others, nothing but zeros past the end.           *)
DiskIsCanonical ==
    \A p \in PageNo :
        /\ \A s \in Slot : s \in disk[p].bits <=> disk[p].body[s] # Null
        /\ p >= fileLen => disk[p] = createEmptyPageData

(* When insertTuple returns, the tuple can be read back at the RecordId it *)
(* was given, and no other slot of the table has changed.                  *)
InsertIsExact ==
    [][ op.kind # "idle" /\ op'.kind = "idle" /\ op.tup \notin BadTuples
        /\ rid'[op.tup] # Null =>
            LET r == rid'[op.tup]
            IN  \A p \in PageNo, s \in Slot :
                    Contents(p)'.body[s] =
                        IF p = r.page /\ s = r.slot
                        THEN op.tup ELSE Contents(p).body[s] ]_vars

(* A call of insertTuple returns: the loop over the pages ends. *)
InsertReturns == op.kind # "idle" ~> op.kind = "idle"

(* The table that a client sees, and the one that a restart would find. *)
Table == INSTANCE HeapTable WITH
            mem <- [p \in PageNo |-> Contents(p).body],
            size <- numPages,
            stable <- [p \in PageNo |-> disk[p].body],
            stableSize <- fileLen

(* Pool, pages and file together behave as a table of rows: eviction,      *)
(* flushing and re-reading are invisible, and a restart finds exactly the  *)
(* pages that were saved.                                                  *)
ImplementsTable == Table!TableSpec

-------------------------------------------------------------------------------
(* What the headers say, and the code does not do.                         *)

(* BufferPool.h:92: deleteTuple is to "Remove the specified tuple from the *)
(* buffer pool": when it returns, no slot that was empty holds a tuple.    *)
PoolDeleteAddsNothing ==
    [][ op.kind = "delete" /\ op'.kind = "idle" /\ rid'[op.tup] # Null =>
            \A p \in PageNo, s \in Slot :
                Contents(p).body[s] = Null => Contents(p)'.body[s] = Null ]_vars

===============================================================================
