------------------------------ MODULE MCHeapFile ------------------------------
(* HeapFile with small sets, for TLC. *)
EXTENDS HeapFile, TLC

Symmetry == Permutations(Tuples) \cup Permutations(Tids)

===============================================================================
