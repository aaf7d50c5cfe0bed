----------------------------- MODULE OrderedIndex -----------------------------
(* What the B+ tree file promises: a multiset of keys. *)
EXTENDS Naturals

CONSTANT Keys

VARIABLE bag   \* how many tuples with each key the index holds

empty == [k \in Keys |-> 0]

IndexInit == bag = empty

(* The multisets with one tuple more, or one less, than b. *)
added(b) == { [b EXCEPT ![k] = @ + 1] : k \in Keys }
removed(b) == { [b EXCEPT ![k] = @ - 1] : k \in { k \in Keys : b[k] > 0 } }

(* A tuple is inserted or deleted, or BTreeFile::BTreeFile opens its file  *)
(* with O_TRUNC.                                                           *)
IndexNext == bag' \in added(bag) \cup removed(bag) \cup {empty}

IndexSpec == IndexInit /\ [][IndexNext]_bag

===============================================================================
