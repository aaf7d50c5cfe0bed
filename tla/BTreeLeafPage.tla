---------------------------- MODULE BTreeLeafPage ----------------------------
(***************************************************************************)
(* One leaf page of the B+ tree, under any sequence of insertTuple and     *)
(* deleteTuple: deletions leave holes, so every pattern of used and empty  *)
(* slots can meet every insertion.                                         *)
(***************************************************************************)
EXTENDS BTreePages

CONSTANT Pid   \* the page's number

VARIABLE slots

EmptyLeaf == [s \in Slot |-> Null]

Record == [key : Keys, page : {Pid}, slot : Slot]

ASSUME NullIsNoRecord == Null \notin Record

Init == slots = EmptyLeaf

InsertTuple(k) ==
    /\ emptySlots(slots) # {}
    /\ slots' = insertTuple(Pid, slots, k)

(* A client deletes a tuple it reached through the page: its RecordId says *)
(* which slot is cleared, and the slot has to be in use.                   *)
DeleteTuple(s) ==
    /\ slots[s] # Null
    /\ slots[slots[s].slot] # Null
    /\ slots' = deleteTuple(slots, slots[s].slot)

Next ==
    \/ \E k \in Keys : InsertTuple(k)
    \/ \E s \in Slot : DeleteTuple(s)

Spec == Init /\ [][Next]_slots

-------------------------------------------------------------------------------
(* Each slot is unused or holds a tuple with a RecordId of this page. *)
TypeOK == slots \in [Slot -> Record \cup {Null}]

(* The tuples of a leaf are in key order, holes or not: the iterators,     *)
(* findLeafPage and splitLeafPage rely on it.                              *)
Sorted ==
    \A r, s \in used(slots) : r < s => slots[r].key <= slots[s].key

(* The RecordId in a tuple object names the slot that holds it, so that    *)
(* deleteTuple clears the slot of the tuple it is given and no other.      *)
RecordIdsMatch == \A s \in used(slots) : slots[s].slot = s

===============================================================================
