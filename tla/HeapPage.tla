------------------------------- MODULE HeapPage -------------------------------
(***************************************************************************)
(* One page of a heap file (db/HeapPage.cpp, db/HeapPage_internal.cpp): a  *)
(* bitmap of used slots, an array of tuples, and the conversion between    *)
(* the page object and the bytes that are stored in the file.              *)
(*                                                                         *)
(* A page object and its bytes are different things.  deleteTuple clears   *)
(* the bit and leaves the Tuple object where it was; getPageData writes    *)
(* zeros for every slot whose bit is clear, and the constructor builds a   *)
(* Tuple only for slots whose bit is set.                                  *)
(***************************************************************************)
EXTENDS Naturals, FiniteSets

CONSTANTS
    NumSlots,   \* slots per page (HeapPage::numSlots)
    Tuples,     \* the tuples clients hold
    Null        \* no tuple, no transaction, no frame, or zero bytes

ASSUME NumSlotsAssumption == NumSlots \in Nat \ {0}
ASSUME NullAssumption == Null \notin Tuples

Slot == 0 .. NumSlots - 1

Row == Tuples \cup {Null}

(* The page object: `header` (the slots marked used) and `tuples`. *)
Page == [header : SUBSET Slot, tuples : [Slot -> Row]]

(* The bytes of one page in the file; Null stands for zero bytes. *)
Data == [bits : SUBSET Slot, body : [Slot -> Row]]

createEmptyPageData == [bits |-> {}, body |-> [s \in Slot |-> Null]]

(* Bug variant: the slots are written whether they are used or not. *)
getPageDataStale(page) == [bits |-> page.header, body |-> page.tuples]

(* HeapPage::getPageData: the bitmap, then each used tuple or zeros. *)
getPageData(page) ==
    [bits |-> page.header,
     body |-> [s \in Slot |->
                 IF s \in page.header THEN page.tuples[s] ELSE Null]]

(* HeapPage::HeapPage(id, data): tuples of clear slots are not read. *)
HeapPageOf(data) ==
    [header |-> data.bits,
     tuples |-> [s \in Slot |->
                   IF s \in data.bits THEN data.body[s] ELSE Null]]

isSlotUsed(page, s) == s \in page.header

emptySlots(page) == { s \in Slot : ~ isSlotUsed(page, s) }

(* Bug variant: the last empty slot of a page is never used. *)
hasTwoEmptySlots(page) == Cardinality(emptySlots(page)) > 1

(* getNumEmptySlots() > 0 *)
hasEmptySlot(page) == emptySlots(page) # {}

(* The slot the `while (isSlotUsed(slotIndex))` loop stops at. *)
firstEmptySlot(page) ==
    CHOOSE s \in emptySlots(page) : \A r \in emptySlots(page) : s <= r

(* Bug variant: the tuple is stored, its slot is not marked used. *)
insertUnmarked(page, t) ==
    [header |-> page.header,
     tuples |-> [page.tuples EXCEPT ![firstEmptySlot(page)] = t]]

(* HeapPage::insertTuple on a page that has room and the tuple's layout. *)
insertTuple(page, t) ==
    LET s == firstEmptySlot(page)
    IN  [header |-> page.header \cup {s},
         tuples |-> [page.tuples EXCEPT ![s] = t]]

(* HeapPage::deleteTuple on a used slot: only the bit changes. *)
deleteTuple(page, s) ==
    [header |-> page.header \ {s}, tuples |-> page.tuples]

===============================================================================
