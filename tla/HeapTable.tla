------------------------------- MODULE HeapTable -------------------------------
(***************************************************************************)
(* What a heap file behind the buffer pool promises, without pool, page    *)
(* objects or bytes: a table of rows, and the older version of it that     *)
(* would be found if the process ended now.                                *)
(***************************************************************************)
EXTENDS Naturals

CONSTANTS NumSlots, Tuples, Null, MaxPages

VARIABLES
    mem,        \* the rows that a reader of the table sees
    size,       \* pages of the table
    stable,     \* the rows that are in the file
    stableSize  \* pages of the file

tableVars == <<mem, size, stable, stableSize>>

TablePage == 0 .. MaxPages - 1
TableSlot == 0 .. NumSlots - 1

NoRows == [p \in TablePage |-> [s \in TableSlot |-> Null]]

Full(p) == \A s \in TableSlot : mem[p][s] # Null

TableInit ==
    /\ mem = NoRows
    /\ size = 0
    /\ stable = NoRows
    /\ stableSize = 0

(* The rows of the pages in S, as they were before this step, are saved. *)
Persist(S) ==
    /\ stable' = [p \in TablePage |-> IF p \in S THEN mem[p] ELSE stable[p]]
    /\ stableSize' \in stableSize .. MaxPages
    /\ \A p \in S : p < stableSize'
    /\ stableSize' # stableSize => stableSize' - 1 \in S

Set(p, s, v) == [mem EXCEPT ![p] = [mem[p] EXCEPT ![s] = v]]

(* A row is added to the first page that has room: a page is added to the  *)
(* table only when all others are full, and no row is overwritten.         *)
Insert(t, p, s) ==
    /\ mem[p][s] = Null
    /\ \A q \in TablePage : q < p => Full(q)
    /\ p <= size
    /\ mem' = Set(p, s, t)
    /\ size' = IF p = size THEN size + 1 ELSE size

Delete(p, s) ==
    /\ mem[p][s] # Null
    /\ mem' = Set(p, s, Null)
    /\ UNCHANGED size

(* A client gives up the changes made to page p since it was last saved. *)
Discard(p) ==
    /\ p < stableSize
    /\ mem' = [mem EXCEPT ![p] = stable[p]]
    /\ UNCHANGED <<size, stable, stableSize>>

Crash ==
    /\ mem' = stable
    /\ size' = stableSize
    /\ UNCHANGED <<stable, stableSize>>

Change ==
    \/ \E t \in Tuples, p \in TablePage, s \in TableSlot : Insert(t, p, s)
    \/ \E p \in TablePage, s \in TableSlot : Delete(p, s)
    \/ UNCHANGED <<mem, size>>

TableNext ==
    \/ \E S \in SUBSET TablePage : Persist(S) /\ Change
    \/ \E p \in TablePage : Discard(p)
    \/ Crash

TableSpec == TableInit /\ [][TableNext]_tableVars

===============================================================================
