-------------------------------- MODULE SeqScan --------------------------------
(***************************************************************************)
(* SeqScan (db/SeqScan.cpp) over a heap file that its clients change       *)
(* between two calls: the optional HeapFileIterator that a scan keeps, and *)
(* what insertTuple, deleteTuple and the buffer pool do under it.          *)
(*                                                                         *)
(* The iterator copies the number of pages when it is made, but hasNext()  *)
(* compares it with an end() made from the file as it is now.              *)
(*                                                                         *)
(* A table is the used slots of its pages, as HeapFile shows them: pages   *)
(* are looked up by page id here, what happens when the key of a page is a *)
(* pointer to an id that changes is the subject of HeapScan.  The pool may *)
(* drop a page at any time; the object the iterator holds then no longer   *)
(* changes with the table.                                                 *)
(***************************************************************************)
EXTENDS Naturals, Sequences, FiniteSets

CONSTANTS
    NumSlots,   \* slots per page
    MaxPages,   \* bound on the pages of the file
    Null

ASSUME SeqScanConstants ==
    /\ NumSlots \in Nat \ {0}
    /\ MaxPages \in Nat \ {0}

PageNo == 0 .. MaxPages - 1
Slot == 0 .. NumSlots - 1
Rows == PageNo \X Slot

ASSUME NullIsNoRow == Null \notin Rows

VARIABLES
    used,      \* the used slots of each page
    numPages,  \* HeapFile::numPages
    itopt,     \* SeqScan::itopt: an iterator, or Null
    status     \* "running", or "undefined" once undefined behaviour was met

scanVars == <<used, numPages, itopt, status>>

(* HeapFileIterator: its copy of numPages, hpid's page number, the slot of *)
(* its page iterator (NumSlots: end of the page), `end`, and its page      *)
(* object: Null while that is the pool's, else the slots used in it.       *)
Iterator == [numPages : 0 .. MaxPages, hpid : 0 .. MaxPages, slot : 0 .. NumSlots,
             end : BOOLEAN, page : (SUBSET Slot) \cup {Null}]

lowest(S) == CHOOSE x \in S : \A y \in S : x <= y

(* Bug variant: the end of a page is one slot too far. *)
nextUsedPastEnd(slots, s) ==
    LET from == { r \in slots : r >= s }
    IN  IF from = {} THEN NumSlots + 1 ELSE lowest(from)

(* HeapPageIterator: the first used slot of a page from slot s on. *)
nextUsed(slots, s) ==
    LET from == { r \in slots : r >= s }
    IN  IF from = {} THEN NumSlots ELSE lowest(from)

-------------------------------------------------------------------------------
(* The iterator.                                                           *)

(* The slots that its page object says are used. *)
view(it) == IF it.page = Null THEN used[it.hpid] ELSE it.page

pageBegin(n, p) == [numPages |-> n, hpid |-> p, slot |-> nextUsed(used[p], 0),
                    end |-> FALSE, page |-> Null]

(* HeapFile::begin() reads page 0 even if the file has no pages: pread     *)
(* leaves the new buffer as it is, and the header may hold anything.       *)
begin ==
    IF numPages > 0 THEN { pageBegin(numPages, 0) }
    ELSE { [numPages |-> 0, hpid |-> 0, slot |-> nextUsed(U, 0), end |-> FALSE,
            page |-> U] : U \in SUBSET Slot }

(* it != file->end(), and end() is at the file's present last page. *)
atEnd(it) == it.hpid = numPages /\ it.end

(* Bug variant: the page after the last one is read too. *)
operatorPlusPlusLate(it) ==
    LET s == nextUsed(view(it), it.slot + 1)
    IN  IF s # NumSlots THEN [it EXCEPT !.slot = s]
        ELSE IF it.hpid + 1 >= it.numPages - 1
             THEN [it EXCEPT !.hpid = @ + 1, !.slot = NumSlots, !.end = TRUE]
             ELSE pageBegin(it.numPages, it.hpid + 1)

(* HeapFileIterator::operator++.  At the end of a page its page iterator   *)
(* is deleted, and at the end of the last page it stays so.                *)
operatorPlusPlus(it) ==
    LET s == nextUsed(view(it), it.slot + 1)
    IN  IF s # NumSlots THEN [it EXCEPT !.slot = s]
        ELSE IF it.hpid + 1 >= it.numPages
             THEN [it EXCEPT !.hpid = @ + 1, !.slot = NumSlots, !.end = TRUE]
             ELSE pageBegin(it.numPages, it.hpid + 1)

(* *it is a tuple object of the iterator's page: the page iterator exists, *)
(* its slot is one of the page's, and the page one of the file's.          *)
dereferenceable(it) == ~ it.end /\ it.slot < NumSlots /\ it.numPages > 0

current(it) == <<it.hpid, it.slot>>

-------------------------------------------------------------------------------
(* SeqScan's operations, as operators on itopt.                            *)

hasNext(it) == ~ atEnd(it)

close == Null

TableInit ==
    /\ numPages \in 0 .. MaxPages
    /\ used \in [PageNo -> SUBSET Slot]
    /\ \A p \in PageNo : used[p] # {} <=> p < numPages
    /\ itopt = Null
    /\ status = "running"

-------------------------------------------------------------------------------
(* What clients do to the table.                                           *)

pagesWithRoom == { p \in 0 .. numPages - 1 : used[p] # Slot }

(* HeapFile::insertTuple: the first page with an empty slot, else a new    *)
(* page.                                                                   *)
InsertTuple ==
    /\ LET p == IF pagesWithRoom = {} THEN numPages ELSE lowest(pagesWithRoom)
       IN  /\ p < MaxPages
           /\ used' = [used EXCEPT ![p] = @ \cup {lowest(Slot \ @)}]
           /\ numPages' = IF p = numPages THEN numPages + 1 ELSE numPages
    /\ UNCHANGED <<itopt, status>>

(* HeapFile::deleteTuple of the row r. *)
DeleteTuple(r) ==
    /\ r[2] \in used[r[1]]
    /\ used' = [used EXCEPT ![r[1]] = @ \ {r[2]}]
    /\ UNCHANGED <<numPages, itopt, status>>

(* evictPage takes the iterator's page.  Whoever looks for the page next   *)
(* gets a new object; the iterator keeps the one it has.                   *)
DropPage ==
    /\ itopt # Null
    /\ ~ itopt.end
    /\ itopt.page = Null
    /\ itopt' = [itopt EXCEPT !.page = used[itopt.hpid]]
    /\ UNCHANGED <<used, numPages, status>>

(* SeqScan::reset to the same table, under whoever uses the scan. *)
Reset ==
    /\ itopt' = close
    /\ UNCHANGED <<used, numPages, status>>

===============================================================================
