----------------------------- MODULE MCBTreeFile -----------------------------
(* BTreeFile with small sets, for TLC. *)
EXTENDS BTreeFile

CONSTANT MaxTuples   \* bound on the tuples of the tree

(* Trees that are larger are checked, and not changed any further. *)
FewTuples ==
    Cardinality({ x \in Leaves \X Slot : leaf[x[1]].slots[x[2]] # Null }) <= MaxTuples

===============================================================================
