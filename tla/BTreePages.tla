------------------------------ MODULE BTreePages ------------------------------
(***************************************************************************)
(* The slot arrays of the B+ tree's pages, as operators: the sorted        *)
(* tuples of a leaf (db/BTreeLeafPage.cpp) and the keys and child pointers *)
(* of an internal page (db/BTreeInternalPage.cpp).                         *)
(*                                                                         *)
(* A tuple is its key.  The Tuple object in a slot also holds the RecordId *)
(* it was given when it was put there: deleteTuple finds the slot to clear *)
(* through that RecordId.  A slot whose header bit is clear is Null.       *)
(*                                                                         *)
(* Both pages insert in the same way: find the first empty slot, find the  *)
(* slot the new element has to follow, and shift the elements between the  *)
(* two by one (moveRecord, moveEntry).  The loops are written here as the  *)
(* array they leave behind.                                                *)
(***************************************************************************)
EXTENDS Integers, FiniteSets, Sequences

CONSTANTS
    NumSlots,    \* BTreeLeafPage::getMaxTuples()
    MaxEntries,  \* BTreeInternalPage::getMaxEntries()
    Keys,        \* key values
    Null         \* an unused slot

ASSUME BTreeConstants ==
    /\ NumSlots \in Nat /\ NumSlots >= 2
    /\ MaxEntries \in Nat \ {0}
    /\ Keys \subseteq Int

Slot == 0 .. NumSlots - 1

(* Slot 0 of an internal page has a child and no key. *)
Entry == 0 .. MaxEntries

used(a) == { s \in DOMAIN a : a[s] # Null }

lowest(S) == CHOOSE x \in S : \A y \in S : x <= y

highest(S) == CHOOSE x \in S : \A y \in S : y <= x

-------------------------------------------------------------------------------
(* Shifting.                                                               *)

(* Bug variant: the shift towards lower slots stops one short. *)
sourceShort(empty, after, s) ==
    CASE s \in empty .. after - 2 -> s + 1
      [] s \in after + 2 .. empty -> s - 1
      [] OTHER -> s

(* The slot whose element is in slot s after the move loop: the elements   *)
(* between the first empty slot and slot `after` move by one.              *)
source(empty, after, s) ==
    CASE s \in empty .. after - 1 -> s + 1
      [] s \in after + 2 .. empty -> s - 1
      [] OTHER -> s

(* The slot that the moves leave for the new element. *)
goodSlot(empty, after) == IF empty < after THEN after ELSE after + 1

-------------------------------------------------------------------------------
(* Leaf pages.                                                             *)

emptySlots(a) == { s \in DOMAIN a : a[s] = Null }

getNumEmptySlots(a) == Cardinality(emptySlots(a))

getNumTuples(a) == Cardinality(used(a))

keySlots(a, k) == { s \in used(a) : a[s].key = k }

(* Bug variant: lessOrEqKey is initialised to the first slot. *)
lessOrEqKeyFromZero(a, k) ==
    LET before == { s \in used(a) :
                      \A r \in used(a) : r <= s => a[r].key <= k }
    IN  IF before = {} THEN 0 ELSE highest(before)

(* The last key less than or equal to k, or -1: the loop stops at the      *)
(* first tuple whose key is greater.                                       *)
lessOrEqKey(a, k) ==
    LET before == { s \in used(a) :
                      \A r \in used(a) : r <= s => a[r].key <= k }
    IN  IF before = {} THEN -1 ELSE highest(before)

(* Bug variant: slots of RecordIds count from one. *)
recordFromOne(pid, k, s) == [key |-> k, page |-> pid, slot |-> s + 1]

(* A tuple in slot s of page pid, with the RecordId that says so. *)
record(pid, k, s) == [key |-> k, page |-> pid, slot |-> s]

(* Bug variant: moveRecord copies the tuple with its old RecordId. *)
moveRecordsStale(pid, a, empty, after) ==
    [s \in DOMAIN a |-> a[source(empty, after, s)]]

(* moveRecord gives the tuple it moves a RecordId for its new slot. *)
moveRecords(pid, a, empty, after) ==
    [s \in DOMAIN a |->
        LET r == source(empty, after, s)
        IN  IF r = s \/ a[r] = Null THEN a[r] ELSE record(pid, a[r].key, s)]

(* BTreeLeafPage::insertTuple on a page with an empty slot. *)
insertTuple(pid, a, k) ==
    LET empty == lowest(emptySlots(a))
        after == lessOrEqKey(a, k)
        good  == goodSlot(empty, after)
    IN  [moveRecords(pid, a, empty, after) EXCEPT ![good] = record(pid, k, good)]

(* insertTuple with each of the keys, one after the other. *)
insertTuples(pid, a, keys) ==
    LET upTo[n \in Nat] == IF n = 0 THEN a ELSE insertTuple(pid, upTo[n - 1], keys[n])
    IN  upTo[Len(keys)]

(* BTreeLeafPage::deleteTuple of a tuple whose RecordId has slot s. *)
deleteTuple(a, s) == [a EXCEPT ![s] = Null]

-------------------------------------------------------------------------------
(* Internal pages: a[s] is the key and the child of slot s.                *)

link(k, child) == [key |-> k, child |-> child]

(* BTreeInternalPage::getNumEmptySlots does not count slot 0. *)
getNumEmptyEntries(a) == Cardinality(emptySlots(a) \ {0})

noEntries == [s \in Entry |-> Null]

(* The slot of the child that the new entry's left or right child matches; *)
(* the last one, if both match.                                            *)
matches(a, left, right) == { s \in used(a) : a[s].child \in {left, right} }

(* The used slot after (before) slot s, if there is one. *)
following(a, s) == { r \in used(a) : r > s /\ \A q \in used(a) : q > s => r <= q }

preceding(a, s) == { r \in used(a) : r < s /\ \A q \in used(a) : q < s => q <= r }

(* The assertions of insertEntry: one child matches, and the key lies      *)
(* between the keys around the matching child.                             *)
insertEntryAllowed(a, k, left, right) ==
    \/ used(a) = {}
    \/ /\ getNumEmptyEntries(a) > 0
       /\ matches(a, left, right) # {}
       /\ LET m == highest(matches(a, left, right))
          IN  /\ m # 0 => a[m].key <= k
              /\ \A r \in following(a, m) : a[r].key >= k

(* BTreeInternalPage::insertEntry.  A child that equals the right child is *)
(* replaced by the left one; the right one goes into the new slot.         *)
insertEntry(a, k, left, right) ==
    IF used(a) = {}
    THEN [a EXCEPT ![0] = link(Null, left), ![1] = link(k, right)]
    ELSE LET empty == lowest(emptySlots(a) \ {0})
             after == highest(matches(a, left, right))
             good  == goodSlot(empty, after)
             b == [s \in Entry |->
                     IF s \in matches(a, left, right)
                     THEN link(a[s].key, left) ELSE a[s]]
         IN  [[s \in Entry |-> b[source(empty, after, s)]]
                 EXCEPT ![good] = link(k, right)]

===============================================================================
