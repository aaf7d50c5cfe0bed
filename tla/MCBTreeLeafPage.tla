--------------------------- MODULE MCBTreeLeafPage ---------------------------
(***************************************************************************)
(* BTreeLeafPage with small sets, and the move loops of insertTuple        *)
(* written out iteration by iteration, as a reference for BTreePages.  TLC *)
(* also evaluates the layouts of the pages for small sizes.                *)
(***************************************************************************)
EXTENDS BTreeLeafPage

Layout == INSTANCE PageLayout

ASSUME LayoutsForSmallSizes ==
    \A ps \in 12 .. 160, size \in 1 .. 24 :
        /\ Layout!HeapPageFits(ps, size)
        /\ Layout!LeafPageOverruns(ps, size)
        /\ Layout!InternalPageFitsToAByte(ps, size)
        /\ Layout!OneHeaderPageIsEnough(ps, size)

(* The one byte is needed, and not for pages of 4096 bytes and int keys. *)
ASSUME InternalPageMayOverrun ==
    /\ \E ps \in 12 .. 160, ks \in 1 .. 24 : Layout!internalEnd(ps, ks) > ps
    /\ Layout!internalEnd(4096, 4) <= 4096

(* BTreeLeafPage::moveRecord. *)
MoveRecord(a, from, to) ==
    IF a[to] = Null /\ a[from] # Null
    THEN [a EXCEPT ![to] = record(Pid, a[from].key, to), ![from] = Null]
    ELSE a

(* The page after the first n iterations of the loop that applies. *)
MoveLoop(a, empty, after) ==
    LET down[n \in 0 .. after - empty] ==
            IF n = 0 THEN a ELSE MoveRecord(down[n-1], empty + n, empty + n - 1)
        up[n \in 0 .. empty - after - 1] ==
            IF n = 0 THEN a ELSE MoveRecord(up[n-1], empty - n, empty - n + 1)
    IN  IF empty < after THEN down[after - empty] ELSE up[empty - after - 1]

(* `for (i = 0; i < numSlots; i++)` that computes lessOrEqKey. *)
LessOrEqLoop(a, k) ==
    LET at[n \in 0 .. NumSlots] ==
            IF n = 0 THEN [le |-> -1, stop |-> FALSE]
            ELSE LET l == at[n-1] IN
                 IF l.stop \/ a[n-1] = Null THEN l
                 ELSE IF a[n-1].key <= k THEN [le |-> n - 1, stop |-> FALSE]
                 ELSE [le |-> l.le, stop |-> TRUE]
    IN  at[NumSlots].le

(* insertTuple as BTreePages defines it leaves the page as the loops of    *)
(* BTreeLeafPage.cpp:121-168 do, for every page that can arise.            *)
InsertIsTheLoops ==
    \A k \in Keys :
        emptySlots(slots) # {} =>
            LET empty == lowest(emptySlots(slots))
                after == LessOrEqLoop(slots, k)
                good  == IF empty < after THEN after ELSE after + 1
            IN  insertTuple(Pid, slots, k) =
                    [MoveLoop(slots, empty, after) EXCEPT
                        ![good] = record(Pid, k, good)]

===============================================================================
