------------------------------ MODULE PageLayout ------------------------------
(***************************************************************************)
(* How pages are laid out: the number of slots that each kind of page      *)
(* computes from the page size (ps), the size of a tuple (ts) or of a key  *)
(* (ks), and where its parts end.  All sizes are in bytes.                 *)
(***************************************************************************)
EXTENDS Integers

IntSize == 4             \* sizeof(int)
PageTypeSize == 4        \* sizeof(BTreePageType)

(* Header bits for n slots: what isSlotUsed(n - 1) needs. *)
holdsBits(bytes, n) == n <= 8 * bytes

(* HeapPage: a header, then the tuples. *)
heapTuples(ps, ts) == (ps * 8) \div (ts * 8 + 1)
heapHeaderSize(ps, ts) == ps - ts * heapTuples(ps, ts)
heapEnd(ps, ts) == heapHeaderSize(ps, ts) + ts * heapTuples(ps, ts)

(* BTreeLeafPage: three page numbers, a header, then the tuples.  The      *)
(* header size does not take the page numbers off.                         *)
leafTuples(ps, ts) == ((ps - 3 * IntSize) * 8) \div (ts * 8 + 1)
leafHeaderSize(ps, ts) == ps - ts * leafTuples(ps, ts)
leafEnd(ps, ts) == 3 * IntSize + leafHeaderSize(ps, ts) + ts * leafTuples(ps, ts)

(* BTreeInternalPage: the parent, the category of the children, a header,  *)
(* then the keys (but the first), then the children.                       *)
maxEntries(ps, ks) ==
    ((ps - 2 * IntSize - PageTypeSize) * 8 + 1) \div ((ks + IntSize) * 8 + 1)
internalHeaderSize(ps, ks) == (maxEntries(ps, ks) + 1 + 7) \div 8
internalEnd(ps, ks) ==
    IntSize + PageTypeSize + internalHeaderSize(ps, ks)
        + ks * maxEntries(ps, ks) + IntSize * (maxEntries(ps, ks) + 1)

(* BTreeHeaderPage: two page numbers, then a bit for each page. *)
headerSlots(ps) == (ps - 2 * IntSize) * 8

-------------------------------------------------------------------------------
(* Statements about the layouts.                                           *)

(* The header of a heap page has a bit for each slot, and header and       *)
(* tuples fill the page exactly.                                           *)
HeapPageFits(ps, ts) ==
    /\ holdsBits(heapHeaderSize(ps, ts), heapTuples(ps, ts))
    /\ heapEnd(ps, ts) = ps

(* The header of a leaf has a bit for each slot, but the last tuple ends   *)
(* three page numbers beyond the page.                                     *)
LeafPageOverruns(ps, ts) ==
    /\ holdsBits(leafHeaderSize(ps, ts), leafTuples(ps, ts))
    /\ leafEnd(ps, ts) = ps + 3 * IntSize

(* The header of an internal page has a bit for each slot, and the last    *)
(* child ends in the page or one byte beyond it.                           *)
InternalPageFitsToAByte(ps, ks) ==
    /\ holdsBits(internalHeaderSize(ps, ks), maxEntries(ps, ks) + 1)
    /\ internalEnd(ps, ks) <= ps + 1

(* One header page has a slot for each page of a tree of height two: the   *)
(* children of one internal page, that page and the header page itself.    *)
OneHeaderPageIsEnough(ps, ks) == headerSlots(ps) > maxEntries(ps, ks) + 3

===============================================================================
