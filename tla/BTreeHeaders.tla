------------------------------ MODULE BTreeHeaders ------------------------------
(***************************************************************************)
(* The header pages of a B+ tree file (db/BTreeHeaderPage.cpp), which say  *)
(* which pages of the file are free: slot s of the i-th page of the list   *)
(* (from 1) is for page (i - 1) * HeaderSlots + s of the file.             *)
(*                                                                         *)
(* The doubly linked list that starts at the root pointer page is a        *)
(* sequence; a header page is its page number and its clear bits.          *)
(***************************************************************************)
EXTENDS Integers, Sequences

CONSTANT HeaderSlots    \* BTreeHeaderPage::getNumSlots()

ASSUME HeaderConstants == HeaderSlots \in Nat \ {0}

HeaderSlot == 0 .. HeaderSlots - 1

(* Bug variant: the header of a new page, zeros, stays as it is. *)
initFree(p) == [page |-> p, free |-> HeaderSlot]

(* BTreeHeaderPage::init: all slots are used. *)
init(p) == [page |-> p, free |-> {}]

first(S) == CHOOSE x \in S : \A y \in S : x <= y

(* The header pages whose getEmptySlot() is not -1. *)
withEmptySlot(hs) == { i \in DOMAIN hs : hs[i].free # {} }

getEmptySlot(h) == first(h.free)

(* headerPageCount * getNumSlots() + emptySlot *)
pageOfSlot(i, s) == (i - 1) * HeaderSlots + s

(* getEmptyPageNo, when a header page has an empty slot. *)
freePage(hs) ==
    LET i == first(withEmptySlot(hs)) IN pageOfSlot(i, getEmptySlot(hs[i]))

(* Bug variant: the slot stays free. *)
markTakenNot(hs) == hs

markTaken(hs) ==
    LET i == first(withEmptySlot(hs))
    IN  [hs EXCEPT ![i].free = @ \ {getEmptySlot(hs[i])}]

(* setEmptyPage looks for the first header page of the list, by position,  *)
(* with (headerPageCount + 1) * getNumSlots() >= p.                        *)
headerOf(p) == first({ i \in 1 .. p + 1 : i * HeaderSlots >= p })

(* Bug variant: the slot is looked for in the first header page. *)
markFreeFirst(hs, p) ==
    IF p \in HeaderSlot THEN [hs EXCEPT ![1].free = @ \cup {p}] ELSE hs

(* markSlotUsed(p - headerPageCount * getNumSlots(), false).  For a page p *)
(* that is a multiple of HeaderSlots the slot is one past the last: the    *)
(* bit that is cleared is not the header's.                                *)
markFree(hs, p) ==
    LET i == headerOf(p)
        s == p - (i - 1) * HeaderSlots
    IN  IF s \in HeaderSlot THEN [hs EXCEPT ![i].free = @ \cup {s}] ELSE hs

headerPages(hs) == { hs[i].page : i \in DOMAIN hs }

(* The pages that are marked free. *)
freePages(hs) == UNION { { pageOfSlot(i, s) : s \in hs[i].free } : i \in DOMAIN hs }

===============================================================================
