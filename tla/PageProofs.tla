------------------------------- MODULE PageProofs -------------------------------
(***************************************************************************)
(* Proofs about pages.                                                     *)
(*                                                                         *)
(* The layouts, for every page, tuple and key size.  The products of two   *)
(* sizes are named, so that what is left is linear arithmetic.             *)
(*                                                                         *)
(* BTreeLeafPage, for any number of slots and any set of integer keys: the *)
(* shifts of BTreeLeafPage::insertTuple keep the tuples in order and their *)
(* RecordIds right, whatever holes the page has.                           *)
(***************************************************************************)
EXTENDS MCBTreeLeafPage, PageLayout, BTreePageLemmas

-------------------------------------------------------------------------------
(* Layouts.                                                                *)

(* A quotient times its divisor is at most the dividend. *)
LEMMA QuotientBound ==
    ASSUME NEW a \in Nat, NEW b \in Nat \ {0}
    PROVE  /\ a \div b \in Nat
           /\ b * (a \div b) <= a
OBVIOUS

(* A heap page's bitmap has room for its slots, and the page is filled     *)
(* exactly (HeapPage::getNumTuples, HeapPage::getHeaderSize), although the *)
(* header size is what the tuples leave over and not a rounded quotient.   *)
THEOREM HeapLayout ==
    ASSUME NEW ps \in Nat, NEW ts \in Nat \ {0}
    PROVE  HeapPageFits(ps, ts)
<1> DEFINE n == heapTuples(ps, ts)
           t == ts * n
<1>1. n \in Nat /\ (ts * 8 + 1) * n <= ps * 8
  <2>1. ps * 8 \in Nat /\ ts * 8 + 1 \in Nat \ {0}
    OBVIOUS
  <2>2. n = (ps * 8) \div (ts * 8 + 1)
    BY DEF heapTuples
  <2> QED  BY <2>1, <2>2, QuotientBound
<1>2. t \in Nat /\ (ts * 8 + 1) * n = 8 * t + n
  BY <1>1
<1>3. 8 * t + n <= 8 * ps
  BY <1>1, <1>2
<1>4. n <= 8 * (ps - t) /\ (ps - t) + t = ps
  BY <1>1, <1>2, <1>3
<1> QED  BY <1>4 DEF HeapPageFits, heapEnd, heapHeaderSize, holdsBits

(* A leaf's bitmap has room for its slots, but its tuples end twelve bytes *)
(* beyond the page (BTreeLeafPage::getMaxTuples, ::getHeaderSize), for     *)
(* every page and tuple size.                                              *)
THEOREM LeafLayout ==
    ASSUME NEW ps \in Nat, NEW ts \in Nat \ {0}, ps >= 3 * IntSize
    PROVE  LeafPageOverruns(ps, ts)
<1> DEFINE n == leafTuples(ps, ts)
           t == ts * n
<1>1. n \in Nat /\ (ts * 8 + 1) * n <= (ps - 12) * 8
  <2>1. (ps - 12) * 8 \in Nat /\ ts * 8 + 1 \in Nat \ {0}
    BY DEF IntSize
  <2>2. n = ((ps - 12) * 8) \div (ts * 8 + 1)
    BY DEF leafTuples, IntSize
  <2> QED  BY <2>1, <2>2, QuotientBound
<1>2. t \in Nat /\ (ts * 8 + 1) * n = 8 * t + n
  BY <1>1
<1>3. 8 * t + n <= 8 * ps - 96
  BY <1>1, <1>2
<1>4. n <= 8 * (ps - t) /\ 12 + (ps - t) + t = ps + 12
  BY <1>1, <1>2, <1>3
<1> QED  BY <1>4 DEF LeafPageOverruns, leafEnd, leafHeaderSize, holdsBits, IntSize

(* The entries of an internal page, as getMaxEntries counts them. *)
LEMMA EntriesBound ==
    ASSUME NEW ps \in Nat, NEW ks \in Nat, ps >= 12
    PROVE  /\ maxEntries(ps, ks) \in Nat
           /\ ks * maxEntries(ps, ks) \in Nat
           /\ 8 * (ks * maxEntries(ps, ks)) + 33 * maxEntries(ps, ks) <= 8 * ps - 95
<1> DEFINE m == maxEntries(ps, ks)
<1>1. m \in Nat /\ ((ks + 4) * 8 + 1) * m <= (ps - 12) * 8 + 1
  <2>1. (ps - 12) * 8 + 1 \in Nat /\ (ks + 4) * 8 + 1 \in Nat \ {0}
    OBVIOUS
  <2>2. m = ((ps - 12) * 8 + 1) \div ((ks + 4) * 8 + 1)
    BY DEF maxEntries, IntSize, PageTypeSize
  <2> QED  BY <2>1, <2>2, QuotientBound
<1>2. ks * m \in Nat /\ ((ks + 4) * 8 + 1) * m = 8 * (ks * m) + 33 * m
  BY <1>1
<1> QED  BY <1>1, <1>2

(* An internal page's bitmap has room for its slots, and its children end  *)
(* at most one byte beyond the page (BTreeInternalPage::getMaxEntries and  *)
(* ::getHeaderSize), for every page and key size.                          *)
THEOREM InternalLayout ==
    ASSUME NEW ps \in Nat, NEW ks \in Nat, ps >= 12
    PROVE  InternalPageFitsToAByte(ps, ks)
<1> DEFINE m == maxEntries(ps, ks)
           k == ks * m
           h == internalHeaderSize(ps, ks)
<1>1. m \in Nat /\ k \in Nat /\ 8 * k + 33 * m <= 8 * ps - 95
  BY EntriesBound
<1>2. h \in Nat /\ m + 1 <= 8 * h /\ 8 * h <= m + 8
  <2>1. h = (m + 8) \div 8
    BY <1>1 DEF internalHeaderSize
  <2> QED  BY <1>1, <2>1
<1>3. 8 + h + k + 4 * (m + 1) <= ps + 1
  BY <1>1, <1>2
<1>4. internalEnd(ps, ks) = 8 + h + k + 4 * (m + 1)
  BY <1>1, <1>2 DEF internalEnd, IntSize, PageTypeSize
<1> QED  BY <1>2, <1>3, <1>4 DEF InternalPageFitsToAByte, holdsBits

(* A tree of height two whose page numbers are not skipped never needs a   *)
(* second header page                                                      *)
(* (BTreeHeaderPage::getNumSlots against BTreeInternalPage::getMaxEntries).*)
THEOREM HeaderLayout ==
    ASSUME NEW ps \in Nat, NEW ks \in Nat, ps >= 12
    PROVE  OneHeaderPageIsEnough(ps, ks)
<1> DEFINE m == maxEntries(ps, ks)
<1>1. m \in Nat /\ 33 * m <= 8 * ps - 95
  BY EntriesBound
<1> QED  BY <1>1 DEF OneHeaderPageIsEnough, headerSlots, IntSize

-------------------------------------------------------------------------------
(* Leaves.                                                                 *)

(* The inductive invariant: each part needs the others.  lessOrEqKey is    *)
(* only a boundary if the page is sorted, and deleteTuple only clears the  *)
(* slot of its tuple if the RecordIds are right.                           *)
LeafInv == TypeOK /\ Sorted /\ RecordIdsMatch

(* It says of slots what the lemmas about leaf pages say of any page. *)
LEMMA LeafInvIsLeafOK ==
    /\ LeafInv <=> LeafOK(Pid, slots)
    /\ LeafInv' <=> LeafOK(Pid, slots')
    /\ Null \notin tuplesOf(Pid)
<1>1. Record = tuplesOf(Pid)
  BY DEF Record, tuplesOf
<1>2. LeafInv <=> LeafOK(Pid, slots)
  BY <1>1 DEF LeafInv, LeafOK, TypeOK, Sorted, RecordIdsMatch
<1>3. LeafInv' <=> LeafOK(Pid, slots')
  BY <1>1 DEF LeafInv, LeafOK, TypeOK, Sorted, RecordIdsMatch
<1> QED BY <1>1, <1>2, <1>3, NullIsNoRecord

(* BTreeLeafPage::insertTuple keeps the leaf sorted and its record ids     *)
(* right.                                                                  *)
LEMMA InsertKeepsInv ==
    ASSUME LeafInv, NEW k \in Keys, InsertTuple(k)
    PROVE  LeafInv'
<1>1. emptySlots(slots) # {} /\ slots' = insertTuple(Pid, slots, k)
  BY DEF InsertTuple
<1>2. LeafOK(Pid, insertTuple(Pid, slots, k))
  BY <1>1, LeafInvIsLeafOK, InsertTupleOK
<1> QED BY <1>1, <1>2, LeafInvIsLeafOK

(* BTreeLeafPage::deleteTuple keeps the leaf sorted and its record ids     *)
(* right.                                                                  *)
LEMMA DeleteKeepsInv ==
    ASSUME LeafInv, NEW s \in Slot, DeleteTuple(s)
    PROVE  LeafInv'
<1>1. slots' = [slots EXCEPT ![s] = Null]
  BY DEF DeleteTuple, deleteTuple, LeafInv, RecordIdsMatch, used, TypeOK
<1>2. TypeOK'
  BY <1>1 DEF LeafInv, TypeOK
<1>3. \A r \in used(slots') : r \in used(slots) /\ slots'[r] = slots[r]
  BY <1>1 DEF used, LeafInv, TypeOK
<1>4. Sorted' /\ RecordIdsMatch'
  BY <1>3 DEF LeafInv, Sorted, RecordIdsMatch
<1> QED BY <1>2, <1>4 DEF LeafInv

(* Insertions and deletions keep the invariant. *)
THEOREM LeafInvariance == Spec => []LeafInv
<1>1. Init => LeafInv
  BY DEF Init, EmptyLeaf, LeafInv, TypeOK, Sorted, RecordIdsMatch, used
<1>2. LeafInv /\ [Next]_slots => LeafInv'
  <2> SUFFICES ASSUME LeafInv, [Next]_slots PROVE LeafInv'
    OBVIOUS
  <2>1. ASSUME NEW k \in Keys, InsertTuple(k) PROVE LeafInv'
    BY <2>1, InsertKeepsInv
  <2>2. ASSUME NEW s \in Slot, DeleteTuple(s) PROVE LeafInv'
    BY <2>2, DeleteKeepsInv
  <2>3. CASE UNCHANGED slots
    BY <2>3 DEF LeafInv, TypeOK, Sorted, RecordIdsMatch, used
  <2> QED BY <2>1, <2>2, <2>3 DEF Next
<1> QED BY <1>1, <1>2, PTL DEF Spec

(* The tuples of a leaf stay in key order through any insertions and       *)
(* deletions (BTreeLeafPage::insertTuple, deleteTuple).                    *)
THEOREM LeafStaysSorted == Spec => []Sorted
<1>1. LeafInv => Sorted
  BY DEF LeafInv
<1> QED BY <1>1, LeafInvariance, PTL

(* Every tuple object's RecordId names the slot that holds it, so that     *)
(* BTreeLeafPage::deleteTuple clears the slot of the tuple it is given.    *)
THEOREM LeafRecordIdsMatch == Spec => []RecordIdsMatch
<1>1. LeafInv => RecordIdsMatch
  BY DEF LeafInv
<1> QED BY <1>1, LeafInvariance, PTL

(* The slots of a leaf keep their type: no shift writes outside the page. *)
THEOREM LeafTypeCorrect == Spec => []TypeOK
<1>1. LeafInv => TypeOK
  BY DEF LeafInv
<1> QED BY <1>1, LeafInvariance, PTL

-------------------------------------------------------------------------------
(* The loops of insertTuple.                                               *)

(* What lessOrEqKey and the loop's flag are after n iterations. *)
upTo(a, k, n) == { s \in used(a) : s < n /\ \A r \in used(a) : r <= s => a[r].key <= k }

found(a, k, n) ==
    [le   |-> IF upTo(a, k, n) = {} THEN -1 ELSE highest(upTo(a, k, n)),
     stop |-> \E s \in used(a) : s < n /\ ~ (a[s].key <= k)]

(* One iteration. *)
look(a, k, n, l) ==
    IF l.stop \/ a[n-1] = Null THEN l
    ELSE IF a[n-1].key <= k THEN [le |-> n - 1, stop |-> FALSE]
    ELSE [le |-> l.le, stop |-> TRUE]

LEMMA LookStep ==
    ASSUME NEW a, LeafOK(Pid, a), NEW k \in Keys, NEW n \in 1 .. NumSlots
    PROVE  look(a, k, n, found(a, k, n - 1)) = found(a, k, n)
<1>1. /\ n \in Nat /\ n - 1 \in Slot /\ n - 1 \in Nat /\ used(a) \subseteq Nat
      /\ DOMAIN a = Slot
  <2>1. Slot \subseteq Nat /\ used(a) \subseteq Slot /\ DOMAIN a = Slot /\ NumSlots \in Nat
    BY LeafSlots
  <2>2. n \in Nat /\ n - 1 \in 0 .. NumSlots - 1
    BY <2>1
  <2> QED BY <2>1, <2>2 DEF Slot
<1>2. ASSUME NEW s \in used(a) PROVE s < n <=> s < n - 1 \/ s = n - 1
  <2>1. s \in Nat
    BY <1>1
  <2> QED BY <1>1, <2>1
<1>3. n - 1 \in used(a) <=> a[n - 1] # Null
  BY <1>1 DEF used
<1>4. ASSUME NEW s \in used(a) PROVE ~ (s < n - 1) => n - 1 <= s
  <2>1. s \in Nat
    BY <1>1
  <2> QED BY <1>1, <2>1
<1>5. ~ (n - 1 < n - 1) /\ n - 1 < n
  BY <1>1
<1>6. PICK x, y : /\ x = (IF upTo(a, k, n - 1) = {} THEN -1 ELSE highest(upTo(a, k, n - 1)))
                  /\ y = (\E s \in used(a) : s < n - 1 /\ ~ (a[s].key <= k))
  OBVIOUS
<1>7. PICK l : l = [le |-> x, stop |-> y]
  OBVIOUS
<1>8. found(a, k, n - 1) = l
  BY <1>6, <1>7, Zenon DEF found
<1>9. l.stop = y /\ l.le = x
  BY <1>7
<1>10. CASE y
  <2>1. PICK s \in used(a) : s < n - 1 /\ ~ (a[s].key <= k)
    BY <1>6, <1>10
  <2>2. s <= n - 1
    BY <1>1, <2>1
  <2>3. upTo(a, k, n) = upTo(a, k, n - 1)
    <3>1. ASSUME NEW t \in upTo(a, k, n) PROVE t # n - 1
      BY <2>1, <2>2, <3>1 DEF upTo
    <3> QED BY <1>2, <3>1 DEF upTo
  <2>4. (\E t \in used(a) : t < n /\ ~ (a[t].key <= k)) <=> y
    BY <1>2, <1>6, <1>10, <2>1
  <2>5. found(a, k, n) = l
    BY <1>6, <1>7, <1>10, <2>3, <2>4 DEF found
  <2> QED BY <1>8, <1>9, <1>10, <2>5 DEF look
<1>11. CASE ~ y /\ a[n - 1] = Null
  <2>1. n - 1 \notin used(a)
    BY <1>3, <1>11
  <2>2. \A s \in used(a) : s < n <=> s < n - 1
    BY <1>2, <2>1
  <2>3. upTo(a, k, n) = upTo(a, k, n - 1)
    BY <2>2 DEF upTo
  <2>4. (\E t \in used(a) : t < n /\ ~ (a[t].key <= k)) <=> y
    BY <1>6, <2>2
  <2>5. found(a, k, n) = l
    BY <1>6, <1>7, <1>11, <2>3, <2>4 DEF found
  <2> QED BY <1>8, <1>9, <1>11, <2>5 DEF look
<1>12. CASE ~ y /\ a[n - 1] # Null /\ a[n - 1].key <= k
  <2>1. \A t \in used(a) : t < n - 1 => a[t].key <= k
    BY <1>6, <1>12
  <2>2. \A t \in used(a) : t < n => a[t].key <= k
    BY <1>2, <1>12, <2>1
  <2>3. n - 1 \in upTo(a, k, n)
    <3>1. ASSUME NEW r \in used(a), r <= n - 1 PROVE r < n
      <4>1. r \in Nat
        BY <1>1
      <4> QED BY <1>1, <3>1, <4>1
    <3> QED BY <1>3, <1>5, <1>12, <2>2, <3>1 DEF upTo
  <2>4. ASSUME NEW t \in upTo(a, k, n) PROVE t <= n - 1 /\ t \in Nat
    <3>1. t \in Nat /\ t < n
      BY <1>1 DEF upTo
    <3> QED BY <1>1, <3>1
  <2>5. highest(upTo(a, k, n)) = n - 1
    <3>1. \A t \in upTo(a, k, n) : (\A z \in upTo(a, k, n) : z <= t) => t = n - 1
      BY <1>1, <2>3, <2>4
    <3> QED BY <2>3, <2>4, <3>1 DEF highest
  <2>6. found(a, k, n) = [le |-> n - 1, stop |-> FALSE]
    BY <2>2, <2>3, <2>5 DEF found
  <2>7. look(a, k, n, l) = [le |-> n - 1, stop |-> FALSE]
    BY <1>9, <1>12 DEF look
  <2> QED BY <1>8, <2>6, <2>7
<1>13. CASE ~ y /\ a[n - 1] # Null /\ ~ (a[n - 1].key <= k)
  <2>1. ASSUME NEW t \in upTo(a, k, n) PROVE t # n - 1
    <3>1. n - 1 \in used(a) /\ n - 1 <= n - 1
      BY <1>1, <1>3, <1>13
    <3> QED BY <1>13, <3>1 DEF upTo
  <2>2. upTo(a, k, n) = upTo(a, k, n - 1)
    BY <1>2, <2>1 DEF upTo
  <2>3. \E t \in used(a) : t < n /\ ~ (a[t].key <= k)
    BY <1>3, <1>5, <1>13
  <2>4. found(a, k, n) = [le |-> x, stop |-> TRUE]
    BY <1>6, <2>2, <2>3 DEF found
  <2>5. look(a, k, n, l) = [le |-> x, stop |-> TRUE]
    BY <1>9, <1>13 DEF look
  <2> QED BY <1>8, <2>4, <2>5
<1> QED BY <1>10, <1>11, <1>12, <1>13

LEMMA LessOrEqLoopIs ==
    ASSUME NEW a, LeafOK(Pid, a), NEW k \in Keys
    PROVE  LessOrEqLoop(a, k) = lessOrEqKey(a, k)
<1> DEFINE Is(F) == F = [n \in 0 .. NumSlots |->
                            IF n = 0 THEN [le |-> -1, stop |-> FALSE]
                            ELSE look(a, k, n, F[n - 1])]
           G == [n \in 0 .. NumSlots |-> found(a, k, n)]
<1>0. NumSlots \in Nat /\ used(a) \subseteq Slot /\ Slot \subseteq Nat
      /\ \A s \in Slot : s < NumSlots
  BY LeafSlots, BTreeConstants DEF Slot
<1>1. found(a, k, 0) = [le |-> -1, stop |-> FALSE]
  <2>1. ASSUME NEW s \in used(a) PROVE ~ (s < 0)
    <3>1. s \in Nat
      BY <1>0
    <3> QED BY <3>1
  <2>2. upTo(a, k, 0) = {}
    BY <2>1 DEF upTo
  <2> QED BY <2>1, <2>2 DEF found
<1>2. Is(G)
  <2>1. ASSUME NEW n \in 0 .. NumSlots
        PROVE  G[n] = IF n = 0 THEN [le |-> -1, stop |-> FALSE]
                      ELSE look(a, k, n, G[n - 1])
    <3>1. CASE n = 0
      BY <1>1, <3>1
    <3>2. CASE n # 0
      <4>1. n \in 1 .. NumSlots /\ n - 1 \in 0 .. NumSlots
        BY <1>0, <3>2
      <4>2. G[n] = found(a, k, n) /\ G[n - 1] = found(a, k, n - 1)
        BY <4>1
      <4> QED BY <3>2, <4>1, <4>2, LookStep
    <3> QED BY <3>1, <3>2
  <2> QED BY <2>1, Zenon
<1>3. ASSUME NEW F, Is(F) PROVE F[NumSlots] = found(a, k, NumSlots)
  <2>1. F[0] = G[0]
    BY <1>0, <1>1, <1>3
  <2>2. ASSUME NEW i \in 1 .. NumSlots, F[i - 1] = G[i - 1] PROVE F[i] = G[i]
    <3>0. i \in 0 .. NumSlots /\ i - 1 \in 0 .. NumSlots /\ i # 0
      BY <1>0
    <3>1. F[i] = look(a, k, i, F[i - 1])
      BY <1>3, <3>0
    <3>2. G[i - 1] = found(a, k, i - 1) /\ G[i] = found(a, k, i)
      BY <3>0
    <3> QED BY <2>2, <3>1, <3>2, LookStep
  <2> HIDE DEF G, Is
  <2>3. \A i \in 0 .. NumSlots : F[i] = G[i]
    BY <1>0, <2>1, <2>2, Iteration
  <2> QED BY <1>0, <2>3 DEF G
<1>4. \E F : Is(F) /\ LessOrEqLoop(a, k) = F[NumSlots].le
  <2>1. LessOrEqLoop(a, k) = (CHOOSE F : Is(F))[NumSlots].le
    BY DEF LessOrEqLoop, look
  <2>2. Is(CHOOSE F : Is(F))
    <3> HIDE DEF Is
    <3> QED BY <1>2
  <2> HIDE DEF Is
  <2> QED BY <2>1, <2>2
<1>5. LessOrEqLoop(a, k) = found(a, k, NumSlots).le
  <2> HIDE DEF Is
  <2> QED BY <1>3, <1>4
<1>6. upTo(a, k, NumSlots) = { s \in used(a) : \A r \in used(a) : r <= s => a[r].key <= k }
  BY <1>0 DEF upTo
<1> QED BY <1>5, <1>6 DEF found, lessOrEqKey

(* What slot s holds when the tuple of slot r has been moved there. *)
moved(a, r, s) == IF a[r] = Null THEN Null ELSE record(Pid, a[r].key, s)

(* The page after n iterations of the loop to lower slots... *)
afterDown(a, empty, n) ==
    [s \in Slot |-> IF s \in empty .. empty + n - 1 THEN moved(a, s + 1, s)
                    ELSE IF s = empty + n THEN Null ELSE a[s]]

(* ...and of the loop to higher ones. *)
afterUp(a, empty, n) ==
    [s \in Slot |-> IF s \in empty - n + 1 .. empty THEN moved(a, s - 1, s)
                    ELSE IF s = empty - n THEN Null ELSE a[s]]

(* moveRecord to an empty slot. *)
LEMMA MoveRecordIs ==
    ASSUME NEW a, a = [s \in Slot |-> a[s]], NEW from \in Slot, NEW to \in Slot,
           from # to, a[to] = Null
    PROVE  MoveRecord(a, from, to) =
               [s \in Slot |-> IF s = to THEN moved(a, from, to)
                               ELSE IF s = from THEN Null ELSE a[s]]
<1>1. CASE a[from] = Null
  <2>1. MoveRecord(a, from, to) = a
    BY <1>1 DEF MoveRecord
  <2>2. \A s \in Slot : a[s] = IF s = to THEN moved(a, from, to)
                              ELSE IF s = from THEN Null ELSE a[s]
    BY <1>1 DEF moved
  <2> QED BY <2>1, <2>2
<1>2. CASE a[from] # Null
  <2>1. PICK r : r = record(Pid, a[from].key, to)
    OBVIOUS
  <2>2. MoveRecord(a, from, to) = [a EXCEPT ![to] = r, ![from] = Null]
    BY <1>2, <2>1 DEF MoveRecord
  <2>3. moved(a, from, to) = r
    BY <1>2, <2>1 DEF moved
  <2>4. DOMAIN a = Slot
    OBVIOUS
  <2>5. [a EXCEPT ![to] = r, ![from] = Null] =
          [s \in Slot |-> IF s = to THEN r ELSE IF s = from THEN Null ELSE a[s]]
    BY <2>4
  <2> QED BY <2>2, <2>3, <2>5
<1> QED BY <1>1, <1>2

(* An iteration of the loop to lower slots. *)
LEMMA DownStep ==
    ASSUME NEW a, a = [s \in Slot |-> a[s]], NEW empty \in Slot, NEW after \in Slot,
           empty < after, a[empty] = Null, NEW n \in 1 .. after - empty
    PROVE  MoveRecord(afterDown(a, empty, n - 1), empty + n, empty + n - 1) =
             afterDown(a, empty, n)
<1>1. /\ empty \in Nat /\ after \in Nat /\ n \in Nat /\ NumSlots \in Nat
      /\ \A s \in Slot : s \in Nat
      /\ empty + n \in Slot /\ empty + n - 1 \in Slot
  BY BTreeConstants DEF Slot
<1>2. PICK b : b = afterDown(a, empty, n - 1)
  OBVIOUS
<1>3. b = [s \in Slot |-> b[s]]
  BY <1>2 DEF afterDown
<1>4. PICK from, to : from = empty + n /\ to = empty + n - 1
  OBVIOUS
<1>5. from \in Slot /\ to \in Slot /\ from # to
  BY <1>1, <1>4
<1>6. /\ b[to] = Null
      /\ b[from] = a[from]
      /\ \A s \in Slot : s \in empty .. empty + n - 2 => b[s] = moved(a, s + 1, s)
      /\ \A s \in Slot : s < empty \/ s > empty + n - 1 => b[s] = a[s]
  BY <1>1, <1>2, <1>4 DEF afterDown
<1>7. moved(b, from, to) = moved(a, to + 1, to)
  <2>1. to + 1 = from
    BY <1>1, <1>4
  <2> QED BY <1>6, <2>1 DEF moved
<1>8. MoveRecord(b, from, to) =
        [s \in Slot |-> IF s = to THEN moved(a, to + 1, to)
                        ELSE IF s = from THEN Null ELSE b[s]]
  BY <1>3, <1>5, <1>6, <1>7, MoveRecordIs
<1>9. ASSUME NEW s \in Slot
      PROVE  (IF s = to THEN moved(a, to + 1, to) ELSE IF s = from THEN Null ELSE b[s])
             = (IF s \in empty .. empty + n - 1 THEN moved(a, s + 1, s)
                ELSE IF s = empty + n THEN Null ELSE a[s])
  <2>1. CASE s = to
    BY <1>1, <1>4, <2>1
  <2>2. CASE s = from
    BY <1>1, <1>4, <2>2
  <2>3. CASE s \in empty .. empty + n - 2
    BY <1>1, <1>4, <1>6, <2>3
  <2>4. CASE s < empty \/ s > empty + n
    BY <1>1, <1>4, <1>6, <2>4
  <2>5. s = to \/ s = from \/ s \in empty .. empty + n - 2 \/ s < empty \/ s > empty + n
    <3>1. s \in Nat
      BY <1>1
    <3>2. s < empty \/ s \in empty .. empty + n - 2 \/ s = empty + n - 1 \/ s = empty + n
          \/ s > empty + n
      BY <1>1, <3>1
    <3> QED BY <1>4, <3>2
  <2> QED BY <2>1, <2>2, <2>3, <2>4, <2>5
<1> QED BY <1>2, <1>4, <1>8, <1>9 DEF afterDown

(* An iteration of the loop to higher slots. *)
LEMMA UpStep ==
    ASSUME NEW a, a = [s \in Slot |-> a[s]], NEW empty \in Slot, NEW after \in Int,
           -1 <= after, after < empty, a[empty] = Null, NEW n \in 1 .. empty - after - 1
    PROVE  MoveRecord(afterUp(a, empty, n - 1), empty - n, empty - n + 1) =
             afterUp(a, empty, n)
<1>1. /\ empty \in Nat /\ n \in Nat /\ NumSlots \in Nat
      /\ \A s \in Slot : s \in Nat
      /\ empty - n \in Slot /\ empty - n + 1 \in Slot
  BY BTreeConstants DEF Slot
<1>2. PICK b : b = afterUp(a, empty, n - 1)
  OBVIOUS
<1>3. b = [s \in Slot |-> b[s]]
  BY <1>2 DEF afterUp
<1>4. PICK from, to : from = empty - n /\ to = empty - n + 1
  OBVIOUS
<1>5. from \in Slot /\ to \in Slot /\ from # to
  BY <1>1, <1>4
<1>6. /\ b[to] = Null
      /\ b[from] = a[from]
      /\ \A s \in Slot : s \in empty - n + 2 .. empty => b[s] = moved(a, s - 1, s)
      /\ \A s \in Slot : s > empty \/ s < empty - n + 1 => b[s] = a[s]
  BY <1>1, <1>2, <1>4 DEF afterUp
<1>7. moved(b, from, to) = moved(a, to - 1, to)
  <2>1. to - 1 = from
    BY <1>1, <1>4
  <2> QED BY <1>6, <2>1 DEF moved
<1>8. MoveRecord(b, from, to) =
        [s \in Slot |-> IF s = to THEN moved(a, to - 1, to)
                        ELSE IF s = from THEN Null ELSE b[s]]
  BY <1>3, <1>5, <1>6, <1>7, MoveRecordIs
<1>9. ASSUME NEW s \in Slot
      PROVE  (IF s = to THEN moved(a, to - 1, to) ELSE IF s = from THEN Null ELSE b[s])
             = (IF s \in empty - n + 1 .. empty THEN moved(a, s - 1, s)
                ELSE IF s = empty - n THEN Null ELSE a[s])
  <2>1. CASE s = to
    BY <1>1, <1>4, <2>1
  <2>2. CASE s = from
    BY <1>1, <1>4, <2>2
  <2>3. CASE s \in empty - n + 2 .. empty
    BY <1>1, <1>4, <1>6, <2>3
  <2>4. CASE s > empty \/ s < empty - n
    BY <1>1, <1>4, <1>6, <2>4
  <2>5. s = to \/ s = from \/ s \in empty - n + 2 .. empty \/ s > empty \/ s < empty - n
    <3>1. s \in Nat
      BY <1>1
    <3>2. s > empty \/ s \in empty - n + 2 .. empty \/ s = empty - n + 1 \/ s = empty - n
          \/ s < empty - n
      BY <1>1, <3>1
    <3> QED BY <1>4, <3>2
  <2> QED BY <2>1, <2>2, <2>3, <2>4, <2>5
<1> QED BY <1>2, <1>4, <1>8, <1>9 DEF afterUp

(* The loops leave what their iterations leave. *)
LEMMA MoveLoopDown ==
    ASSUME NEW a, a = [s \in Slot |-> a[s]], NEW empty \in Slot, NEW after \in Slot,
           empty < after, a[empty] = Null
    PROVE  MoveLoop(a, empty, after) = afterDown(a, empty, after - empty)
<1> DEFINE m == after - empty
           Is(F) == F = [n \in 0 .. m |->
                           IF n = 0 THEN a
                           ELSE MoveRecord(F[n - 1], empty + n, empty + n - 1)]
           G == [n \in 0 .. m |-> afterDown(a, empty, n)]
<1>1. m \in Nat /\ empty \in Nat /\ \A s \in Slot : s \in Nat
  BY BTreeConstants DEF Slot
<1>2. afterDown(a, empty, 0) = a
  <2>1. \A s \in Slot : ~ (s \in empty .. empty + 0 - 1) /\ (s = empty + 0 => a[s] = Null)
    BY <1>1
  <2> QED BY <2>1 DEF afterDown
<1>3. \A n \in 1 .. m : MoveRecord(afterDown(a, empty, n - 1), empty + n, empty + n - 1)
                         = afterDown(a, empty, n)
  BY DownStep
<1>4. \A n \in 0 .. m : n # 0 => n \in 1 .. m /\ n - 1 \in 0 .. m
  BY <1>1
<1>5. \A n \in 1 .. m : n \in 0 .. m /\ n - 1 \in 0 .. m /\ n # 0
  BY <1>1
<1> HIDE DEF m
<1>6. Is(G)
  <2>1. ASSUME NEW n \in 0 .. m
        PROVE  G[n] = IF n = 0 THEN a
                      ELSE MoveRecord(G[n - 1], empty + n, empty + n - 1)
    BY <1>2, <1>3, <1>4
  <2> QED BY <2>1, Zenon
<1>7. ASSUME NEW F, Is(F) PROVE F[m] = afterDown(a, empty, m)
  <2>1. F[0] = G[0]
    BY <1>1, <1>2, <1>7
  <2>2. ASSUME NEW i \in 1 .. m, F[i - 1] = G[i - 1] PROVE F[i] = G[i]
    BY <1>3, <1>5, <1>7, <2>2
  <2> HIDE DEF G, Is
  <2>3. \A i \in 0 .. m : F[i] = G[i]
    BY <1>1, <2>1, <2>2, Iteration
  <2> QED BY <1>1, <2>3 DEF G
<1>8. MoveLoop(a, empty, after) = (CHOOSE F : Is(F))[m]
  BY DEF MoveLoop, m
<1>9. Is(CHOOSE F : Is(F))
  <2> HIDE DEF Is
  <2> QED BY <1>6
<1> HIDE DEF Is
<1>10. (CHOOSE F : Is(F))[m] = afterDown(a, empty, m)
  BY <1>7, <1>9
<1> QED BY <1>8, <1>10 DEF m

LEMMA MoveLoopUp ==
    ASSUME NEW a, a = [s \in Slot |-> a[s]], NEW empty \in Slot, NEW after \in Int,
           -1 <= after, after < empty, a[empty] = Null
    PROVE  MoveLoop(a, empty, after) = afterUp(a, empty, empty - after - 1)
<1> DEFINE m == empty - after - 1
           Is(F) == F = [n \in 0 .. m |->
                           IF n = 0 THEN a
                           ELSE MoveRecord(F[n - 1], empty - n, empty - n + 1)]
           G == [n \in 0 .. m |-> afterUp(a, empty, n)]
<1>1. m \in Nat /\ empty \in Nat /\ ~ (empty < after) /\ \A s \in Slot : s \in Nat
  BY BTreeConstants DEF Slot
<1>2. afterUp(a, empty, 0) = a
  <2>1. \A s \in Slot : ~ (s \in empty - 0 + 1 .. empty) /\ (s = empty - 0 => a[s] = Null)
    BY <1>1
  <2> QED BY <2>1 DEF afterUp
<1>3. \A n \in 1 .. m : MoveRecord(afterUp(a, empty, n - 1), empty - n, empty - n + 1)
                         = afterUp(a, empty, n)
  BY UpStep
<1>4. \A n \in 0 .. m : n # 0 => n \in 1 .. m /\ n - 1 \in 0 .. m
  BY <1>1
<1>5. \A n \in 1 .. m : n \in 0 .. m /\ n - 1 \in 0 .. m /\ n # 0
  BY <1>1
<1> HIDE DEF m
<1>6. Is(G)
  <2>1. ASSUME NEW n \in 0 .. m
        PROVE  G[n] = IF n = 0 THEN a
                      ELSE MoveRecord(G[n - 1], empty - n, empty - n + 1)
    BY <1>2, <1>3, <1>4
  <2> QED BY <2>1, Zenon
<1>7. ASSUME NEW F, Is(F) PROVE F[m] = afterUp(a, empty, m)
  <2>1. F[0] = G[0]
    BY <1>1, <1>2, <1>7
  <2>2. ASSUME NEW i \in 1 .. m, F[i - 1] = G[i - 1] PROVE F[i] = G[i]
    BY <1>3, <1>5, <1>7, <2>2
  <2> HIDE DEF G, Is
  <2>3. \A i \in 0 .. m : F[i] = G[i]
    BY <1>1, <2>1, <2>2, Iteration
  <2> QED BY <1>1, <2>3 DEF G
<1>8. MoveLoop(a, empty, after) = (CHOOSE F : Is(F))[m]
  BY <1>1 DEF MoveLoop, m
<1>9. Is(CHOOSE F : Is(F))
  <2> HIDE DEF Is
  <2> QED BY <1>6
<1> HIDE DEF Is
<1>10. (CHOOSE F : Is(F))[m] = afterUp(a, empty, m)
  BY <1>7, <1>9
<1> QED BY <1>8, <1>10 DEF m

(* The array that moveRecords describes is the one the loop leaves, up to  *)
(* the slot that gets the new tuple.                                       *)
LEMMA LoopsMoveRecords ==
    ASSUME NEW a, a = [s \in Slot |-> a[s]], NEW empty \in Slot, NEW after \in Int,
           -1 <= after, after < NumSlots, after # empty, a[empty] = Null,
           NEW good, good = goodSlot(empty, after), NEW r
    PROVE  [moveRecords(Pid, a, empty, after) EXCEPT ![good] = r] =
           [MoveLoop(a, empty, after) EXCEPT ![good] = r]
<1>1. DOMAIN a = Slot /\ empty \in Nat /\ NumSlots \in Nat /\ \A s \in Slot : s \in Nat
  BY BTreeConstants DEF Slot
<1>2. PICK b : b = moveRecords(Pid, a, empty, after)
  OBVIOUS
<1>3. PICK c : c = MoveLoop(a, empty, after)
  OBVIOUS
<1>4. /\ b = [s \in Slot |-> b[s]]
      /\ \A s \in Slot : source(empty, after, s) = s => b[s] = a[s]
      /\ \A s \in Slot : source(empty, after, s) # s =>
                        b[s] = moved(a, source(empty, after, s), s)
  BY <1>1, <1>2 DEF moveRecords, moved
<1>5. DOMAIN c = Slot /\ c = [s \in Slot |-> c[s]] /\ \A s \in Slot : s # good => b[s] = c[s]
  <2>1. CASE empty < after
    <3>1. after \in Slot
      BY <1>1, <2>1 DEF Slot
    <3>2. c = afterDown(a, empty, after - empty)
      BY <1>3, <2>1, <3>1, MoveLoopDown
    <3>3. good = after
      BY <2>1 DEF goodSlot
    <3>4. DOMAIN c = Slot /\ c = [s \in Slot |-> c[s]]
      BY <3>2 DEF afterDown
    <3>5. ASSUME NEW s \in Slot, s # good PROVE b[s] = c[s]
      <4>1. CASE s \in empty .. after - 1
        <5>1. source(empty, after, s) = s + 1 /\ s + 1 # s /\ s \in empty .. empty + (after - empty) - 1
          BY <1>1, <3>1, <4>1 DEF source
        <5>2. c[s] = moved(a, s + 1, s)
          BY <3>2, <5>1 DEF afterDown
        <5> QED BY <1>4, <5>1, <5>2
      <4>2. CASE s \notin empty .. after - 1
        <5>1. source(empty, after, s) = s
          BY <1>1, <2>1, <4>2 DEF source
        <5>2. s \notin empty .. empty + (after - empty) - 1 /\ s # empty + (after - empty)
          BY <1>1, <3>1, <3>3, <3>5, <4>2
        <5>3. c[s] = a[s]
          BY <3>2, <5>2 DEF afterDown
        <5> QED BY <1>4, <5>1, <5>3
      <4> QED BY <4>1, <4>2
    <3> QED BY <3>4, <3>5
  <2>2. CASE after < empty
    <3>2. c = afterUp(a, empty, empty - after - 1)
      BY <1>3, <2>2, MoveLoopUp
    <3>3. good = after + 1
      BY <1>1, <2>2 DEF goodSlot
    <3>4. DOMAIN c = Slot /\ c = [s \in Slot |-> c[s]]
      BY <3>2 DEF afterUp
    <3>5. ASSUME NEW s \in Slot, s # good PROVE b[s] = c[s]
      <4>1. CASE s \in after + 2 .. empty
        <5>1. source(empty, after, s) = s - 1 /\ s - 1 # s /\ s \in empty - (empty - after - 1) + 1 .. empty
          BY <1>1, <2>2, <4>1 DEF source
        <5>2. c[s] = moved(a, s - 1, s)
          BY <3>2, <5>1 DEF afterUp
        <5> QED BY <1>4, <5>1, <5>2
      <4>2. CASE s \notin after + 2 .. empty
        <5>1. source(empty, after, s) = s
          BY <1>1, <2>2, <4>2 DEF source
        <5>2. s \notin empty - (empty - after - 1) + 1 .. empty /\ s # empty - (empty - after - 1)
          BY <1>1, <3>3, <3>5, <4>2
        <5>3. c[s] = a[s]
          BY <3>2, <5>2 DEF afterUp
        <5> QED BY <1>4, <5>1, <5>3
      <4> QED BY <4>1, <4>2
    <3> QED BY <3>4, <3>5
  <2> QED BY <1>1, <2>1, <2>2
<1>6. DOMAIN b = Slot
  BY <1>4
<1>7. [b EXCEPT ![good] = r] = [c EXCEPT ![good] = r]
  BY <1>5, <1>6
<1> QED BY <1>2, <1>3, <1>7

(* BTreeLeafPage::insertTuple, as BTreePages states it, leaves every page  *)
(* that can arise as the loops of the source do: the one that looks for    *)
(* the last key that is not greater, and the two that move the tuples.     *)
THEOREM ClosedFormIsTheLoops == Spec => []InsertIsTheLoops
<1>1. LeafInv => InsertIsTheLoops
  <2> SUFFICES ASSUME LeafInv, NEW k \in Keys, emptySlots(slots) # {}
               PROVE  LET empty == lowest(emptySlots(slots))
                          after == LessOrEqLoop(slots, k)
                          good  == IF empty < after THEN after ELSE after + 1
                      IN  insertTuple(Pid, slots, k) =
                            [MoveLoop(slots, empty, after) EXCEPT
                               ![good] = record(Pid, k, good)]
    BY DEF InsertIsTheLoops
  <2>1. LeafOK(Pid, slots)
    BY LeafInvIsLeafOK
  <2>2. PICK empty, after : empty = lowest(emptySlots(slots)) /\ after = lessOrEqKey(slots, k)
    OBVIOUS
  <2>3. after = LessOrEqLoop(slots, k)
    BY <2>1, <2>2, LessOrEqLoopIs
  <2>4. empty \in Slot /\ slots[empty] = Null
    BY <2>1, <2>2, FirstEmptySlot
  <2>5. /\ after \in Int /\ -1 <= after /\ after < NumSlots
        /\ after # -1 => slots[after] # Null
    BY <2>1, <2>2, LastLessOrEqual
  <2>6. after # empty
    BY <2>4, <2>5, BTreeConstants DEF Slot
  <2>7. slots = [s \in Slot |-> slots[s]]
    BY <2>1 DEF LeafOK
  <2>8. PICK good, r : good = goodSlot(empty, after) /\ r = record(Pid, k, good)
    OBVIOUS
  <2>9. [moveRecords(Pid, slots, empty, after) EXCEPT ![good] = r] =
        [MoveLoop(slots, empty, after) EXCEPT ![good] = r]
    BY <2>4, <2>5, <2>6, <2>7, <2>8, LoopsMoveRecords
  <2>10. insertTuple(Pid, slots, k) = [moveRecords(Pid, slots, empty, after) EXCEPT ![good] = r]
    BY <2>2, <2>8 DEF insertTuple
  <2> QED BY <2>2, <2>3, <2>8, <2>9, <2>10, Zenon DEF goodSlot
<1> QED BY <1>1, LeafInvariance, PTL

===============================================================================
