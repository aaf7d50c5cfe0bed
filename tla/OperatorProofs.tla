---------------------------- MODULE OperatorProofs ----------------------------
(***************************************************************************)
(* Proofs about Operator above SeqScan, for any number of slots and pages: *)
(* each row comes out once and in order, none is missed, none comes out of *)
(* a closed operator, and where undefined behaviour can be met.            *)
(***************************************************************************)
EXTENDS Operator, WellFoundedInduction, TLAPS

-------------------------------------------------------------------------------
(* The inductive invariant.                                                *)

returned == { out[i] : i \in DOMAIN out }

(* An iterator points into the pages it counted, or is at their end; the   *)
(* file has grown since at most.                                           *)
IteratorInPlace(it) ==
    /\ it \in Iterator
    /\ it.numPages <= numPages
    /\ ~ it.end => it.hpid < MaxPages /\ (it.numPages > 0 => it.hpid < it.numPages)
    /\ it.end => it.numPages = 0 \/ it.hpid = it.numPages

(* The rows D lie in the pages that the iterator counted, and those of its *)
(* page are in the page object it holds.                                   *)
IteratorSees(it, D) ==
    /\ \A r \in D : r[1] < it.numPages
    /\ it.page # Null => \A r \in D : r[1] = it.hpid => r[2] \in it.page
    /\ ~ it.end /\ it.slot = NumSlots => \A r \in D : r[1] # it.hpid

(* Rows are in pages of the file only, and due rows are there. *)
TableInv ==
    /\ \A p \in PageNo : p >= numPages => used[p] = {}
    /\ due \subseteq tableRows

(* A closed operator holds neither a row nor an iterator. *)
ClosedInv == ~ isOpen => tup = Null /\ itopt = Null /\ result # "row"

(* The returned rows, the row fetched ahead and the iterator are in the    *)
(* order of the file.                                                      *)
OrderInv ==
    /\ RowsComeOnceInOrder
    /\ tup # Null => \A i \in DOMAIN out : before(out[i], tup)
    /\ itopt # Null => \A i \in DOMAIN out : before(out[i], current(itopt))
    /\ itopt # Null /\ tup # Null => before(tup, current(itopt))

(* A due row that the iterator has passed was returned or is fetched.      *)
ScanInv ==
    itopt # Null =>
        /\ IteratorInPlace(itopt)
        /\ IteratorSees(itopt, due)
        /\ \A r \in due : before(r, current(itopt)) => r \in returned \cup {tup}

Inv == /\ TypeOK /\ TableInv /\ ClosedInv /\ OrderInv /\ ScanInv
       /\ NoRowIsMissed /\ UndefinedOnlyIf

-------------------------------------------------------------------------------
(* The operators of SeqScan.                                               *)

(* lowest is a least element. *)
LEMMA Lowest ==
    ASSUME NEW S, S \subseteq Nat, S # {}
    PROVE  lowest(S) \in S /\ \A y \in S : lowest(S) <= y
<1> DEFINE R == { ss \in Nat \X Nat : ss[1] < ss[2] }
<1>1. IsWellFoundedOn(R, Nat)
  BY NatLessThanWellFounded DEF OpToRel
<1>2. PICK x \in S : \A y \in S : <<y, x>> \notin R
  <2> HIDE DEF R
  <2> QED BY <1>1, WFMin
<1>3. ASSUME NEW y \in S PROVE x <= y
  <2>1. x \in Nat /\ y \in Nat
    OBVIOUS
  <2>2. ~ (y < x)
    BY <1>2, <2>1
  <2> QED BY <2>1, <2>2
<1> QED BY <1>3 DEF lowest

(* What HeapPageIterator's loop finds: a used slot from s on, and no used  *)
(* slot is left out between the two.                                       *)
LEMMA NextUsed ==
    ASSUME NEW U \in SUBSET Slot, NEW s \in Nat
    PROVE  /\ nextUsed(U, s) \in 0 .. NumSlots
           /\ nextUsed(U, s) # NumSlots => nextUsed(U, s) \in U /\ nextUsed(U, s) >= s
           /\ \A r \in U : r >= s => nextUsed(U, s) <= r
<1> DEFINE from == { r \in U : r >= s }
<1>0. \A r \in U : r \in Nat /\ r < NumSlots
  <2>1. \A r \in U : r \in 0 .. NumSlots - 1
    BY DEF Slot
  <2> QED BY <2>1, SeqScanConstants
<1>1. CASE from = {}
  <2>1. nextUsed(U, s) = NumSlots
    BY <1>1 DEF nextUsed
  <2>2. \A r \in U : ~ (r >= s)
    BY <1>1
  <2> QED BY <2>1, <2>2, SeqScanConstants
<1>2. CASE from # {}
  <2>1. nextUsed(U, s) = lowest(from)
    BY <1>2 DEF nextUsed
  <2>2. from \subseteq Nat
    BY <1>0
  <2>3. lowest(from) \in from /\ \A y \in from : lowest(from) <= y
    <3> HIDE DEF from
    <3> QED BY <1>2, <2>2, Lowest
  <2>4. lowest(from) \in U /\ lowest(from) >= s
    BY <2>3
  <2>5. \A r \in U : r >= s => lowest(from) <= r
    BY <2>3
  <2>6. lowest(from) \in 0 .. NumSlots
    <3> HIDE DEF from
    <3> QED BY <1>0, <2>4, SeqScanConstants
  <2> HIDE DEF from
  <2> QED BY <2>1, <2>4, <2>5, <2>6
<1> QED BY <1>1, <1>2

(* The iterator at the start of the page p of a file of numPages pages. *)
LEMMA PageBegun ==
    ASSUME TypeOK, TableInv,
           NEW n \in 0 .. numPages, NEW p \in 0 .. n - 1,
           NEW D \in SUBSET tableRows, \A r \in D : r[1] < n
    PROVE  /\ IteratorInPlace(pageBegin(n, p))
           /\ IteratorSees(pageBegin(n, p), D)
           /\ \A r \in D : r[1] = p => ~ before(r, current(pageBegin(n, p)))
<1> DEFINE j == pageBegin(n, p)
           s == nextUsed(used[p], 0)
<1>1. p \in PageNo /\ used[p] \in SUBSET Slot /\ n \in Nat /\ n <= MaxPages
      /\ n <= numPages /\ p \in Nat /\ p < n
  BY SeqScanConstants DEF TypeOK, PageNo
<1>2. /\ s \in 0 .. NumSlots
      /\ \A r \in used[p] : r >= 0 => s <= r
  BY <1>1, NextUsed
<1>3. /\ j.numPages = n /\ j.hpid = p /\ j.slot = s /\ ~ j.end /\ j.page = Null
      /\ j \in Iterator
  <2>1. j = [numPages |-> n, hpid |-> p, slot |-> s, end |-> FALSE, page |-> Null]
    BY DEF pageBegin
  <2>2. n \in 0 .. MaxPages /\ p \in 0 .. MaxPages
    BY <1>1, SeqScanConstants
  <2> HIDE DEF j, s
  <2>3. j.numPages = n /\ j.hpid = p /\ j.slot = s /\ j.page = Null
    BY <2>1
  <2>4. ~ j.end
    BY <2>1
  <2>5. j \in Iterator
    BY <1>2, <2>1, <2>2 DEF Iterator
  <2> QED BY <2>3, <2>4, <2>5
<1>4. \A r \in D : r[1] = p => r[2] \in used[p] /\ r[2] \in 0 .. NumSlots - 1 /\ s <= r[2]
  BY <1>1, <1>2, SeqScanConstants DEF tableRows, Rows, Slot, PageNo
<1> HIDE DEF j, s
<1>5. IteratorInPlace(j)
  BY <1>1, <1>3, SeqScanConstants DEF IteratorInPlace
<1>6. IteratorSees(j, D)
  BY <1>1, <1>2, <1>3, <1>4, SeqScanConstants DEF IteratorSees
<1>7. \A r \in D : r[1] = p => ~ before(r, current(j))
  BY <1>1, <1>2, <1>3, <1>4, SeqScanConstants DEF before, current
<1> QED BY <1>5, <1>6, <1>7 DEF j

(* What HeapFile::begin() gives is before every row of the table. *)
LEMMA Begun ==
    ASSUME TypeOK, TableInv, NEW j \in begin
    PROVE  /\ IteratorInPlace(j)
           /\ IteratorSees(j, tableRows)
           /\ \A r \in tableRows : ~ before(r, current(j))
<1>1. \A r \in tableRows : r[1] \in Nat /\ r[2] \in Nat /\ r[1] < numPages
  <2> SUFFICES ASSUME NEW r \in tableRows PROVE r[1] \in Nat /\ r[2] \in Nat /\ r[1] < numPages
    OBVIOUS
  <2>1. r[1] \in PageNo /\ r[2] \in Slot /\ r[2] \in used[r[1]]
    BY DEF tableRows, Rows
  <2>2. ~ (r[1] >= numPages)
    BY <2>1 DEF TableInv
  <2> QED BY <2>1, <2>2, SeqScanConstants DEF TypeOK, PageNo, Slot
<1>2. CASE numPages > 0
  <2>1. j = pageBegin(numPages, 0)
    BY <1>2 DEF begin
  <2>2. numPages \in 0 .. numPages /\ 0 \in 0 .. numPages - 1
    BY <1>2, SeqScanConstants DEF TypeOK
  <2>3. /\ IteratorInPlace(j)
        /\ IteratorSees(j, tableRows)
        /\ \A r \in tableRows : r[1] = 0 => ~ before(r, current(j))
    BY <1>1, <2>1, <2>2, PageBegun
  <2>4. j.hpid = 0
    BY <2>1 DEF pageBegin
  <2> QED BY <1>1, <2>3, <2>4 DEF before, current
<1>3. CASE ~ (numPages > 0)
  <2>1. numPages = 0
    BY <1>3 DEF TypeOK
  <2>2. tableRows = {}
    BY <1>1, <2>1
  <2>3. PICK U \in SUBSET Slot :
            j = [numPages |-> 0, hpid |-> 0, slot |-> nextUsed(U, 0), end |-> FALSE,
                 page |-> U]
    BY <1>3 DEF begin
  <2>4. nextUsed(U, 0) \in 0 .. NumSlots
    BY NextUsed
  <2>5. IteratorInPlace(j)
    BY <2>1, <2>3, <2>4, SeqScanConstants DEF IteratorInPlace, Iterator
  <2> QED BY <2>2, <2>5 DEF IteratorSees
<1> QED BY <1>2, <1>3

(* HeapFileIterator::operator++ goes past the row it was at and past no    *)
(* other row that is due.                                                  *)
LEMMA Advanced ==
    ASSUME Inv, itopt # Null, dereferenceable(itopt),
           NEW j, j = operatorPlusPlus(itopt)
    PROVE  /\ IteratorInPlace(j)
           /\ IteratorSees(j, due)
           /\ current(itopt) \in Rows
           /\ before(current(itopt), current(j))
           /\ \A r \in due :
                 before(r, current(j)) => r = current(itopt) \/ before(r, current(itopt))
<1> DEFINE it == itopt
           U == view(it)
           s == nextUsed(U, it.slot + 1)
<1>1. /\ it \in Iterator /\ ~ it.end
      /\ it.numPages \in Nat /\ it.numPages <= numPages
      /\ it.hpid \in Nat /\ it.hpid < it.numPages
      /\ it.slot \in Nat /\ it.slot < NumSlots
      /\ numPages \in Nat /\ numPages <= MaxPages /\ NumSlots \in Nat
  BY SeqScanConstants DEF Inv, ScanInv, TypeOK, IteratorInPlace, dereferenceable, Iterator
<1>2. it.hpid \in PageNo
  BY <1>1, SeqScanConstants DEF PageNo
<1>3. U \in SUBSET Slot
  BY <1>1, <1>2 DEF view, Iterator, Inv, TypeOK
<1>4. IteratorSees(it, due)
  BY DEF Inv, ScanInv
<1>5. \A r \in due : r \in Rows /\ r = <<r[1], r[2]>> /\ r[1] \in Nat /\ r[2] \in Nat
                     /\ r[2] < NumSlots /\ r[1] < it.numPages
                     /\ r[2] \in used[r[1]]
  <2> SUFFICES ASSUME NEW r \in due
               PROVE  r \in Rows /\ r = <<r[1], r[2]>> /\ r[1] \in Nat /\ r[2] \in Nat
                      /\ r[2] < NumSlots /\ r[1] < it.numPages /\ r[2] \in used[r[1]]
    OBVIOUS
  <2>1. r \in Rows /\ r[2] \in used[r[1]]
    BY DEF Inv, TableInv, tableRows
  <2>2. r = <<r[1], r[2]>> /\ r[1] \in PageNo /\ r[2] \in Slot
    BY <2>1 DEF Rows
  <2>3. r[1] < it.numPages
    BY <1>4 DEF IteratorSees
  <2> QED BY <2>1, <2>2, <2>3, SeqScanConstants DEF PageNo, Slot
<1>6. \A r \in due : r[1] = it.hpid => r[2] \in U
  BY <1>4, <1>5 DEF IteratorSees, view
<1>7. /\ s \in 0 .. NumSlots
      /\ s # NumSlots => s \in U /\ s >= it.slot + 1
      /\ \A x \in U : x >= it.slot + 1 => s <= x
  <2>1. it.slot + 1 \in Nat
    BY <1>1
  <2> HIDE DEF U
  <2> QED BY <1>3, <2>1, NextUsed
<1>8. current(it) \in Rows
  BY <1>1, <1>2, SeqScanConstants DEF current, Rows, Slot
<1>9. \A r \in due : r[1] = it.hpid /\ r[2] < s => r[2] <= it.slot
  <2> HIDE DEF U, s
  <2> QED BY <1>1, <1>5, <1>6, <1>7
<1>10. CASE s # NumSlots
  <2>1. j = [it EXCEPT !.slot = s]
    BY <1>10 DEF operatorPlusPlus
  <2>2. s \in Nat /\ s < NumSlots /\ s > it.slot
    <3> HIDE DEF s
    <3> QED BY <1>1, <1>7, <1>10
  <2>3. /\ j.numPages = it.numPages /\ j.hpid = it.hpid /\ j.slot = s
        /\ j.page = it.page /\ j \in Iterator
    <3> HIDE DEF s
    <3> QED BY <1>1, <1>7, <2>1 DEF Iterator
  <2>4. j.end = it.end
    <3> HIDE DEF s
    <3> QED BY <1>1, <2>1 DEF Iterator
  <2> HIDE DEF s, U
  <2>5. IteratorInPlace(j)
    BY <1>1, <1>2, <2>3, <2>4, SeqScanConstants DEF IteratorInPlace, PageNo
  <2>6. IteratorSees(j, due)
    BY <1>1, <1>4, <2>2, <2>3, <2>4 DEF IteratorSees
  <2>7. before(current(it), current(j))
    BY <1>1, <2>2, <2>3 DEF before, current
  <2>8. ASSUME NEW r \in due, before(r, current(j))
        PROVE  r = current(it) \/ before(r, current(it))
    BY <1>1, <1>5, <1>9, <2>2, <2>3, <2>8 DEF before, current
  <2> QED BY <1>8, <2>5, <2>6, <2>7, <2>8
<1>11. CASE s = NumSlots /\ it.hpid + 1 >= it.numPages
  <2>1. j = [it EXCEPT !.hpid = it.hpid + 1, !.slot = NumSlots, !.end = TRUE]
    BY <1>11 DEF operatorPlusPlus
  <2>2. it.hpid + 1 = it.numPages
    BY <1>1, <1>11
  <2>3. /\ j.numPages = it.numPages /\ j.hpid = it.hpid + 1 /\ j.slot = NumSlots
        /\ j.page = it.page
    BY <1>1, <2>1 DEF Iterator
  <2>4. j.end
    BY <1>1, <2>1 DEF Iterator
  <2>5. it.hpid + 1 \in 0 .. MaxPages /\ NumSlots \in 0 .. NumSlots
    BY <1>1, <2>2, SeqScanConstants
  <2>6. j \in Iterator
    BY <1>1, <2>1, <2>5 DEF Iterator
  <2> HIDE DEF s, U
  <2>7. IteratorInPlace(j)
    BY <1>1, <2>2, <2>3, <2>4, <2>6 DEF IteratorInPlace
  <2>8. IteratorSees(j, due)
    BY <1>1, <1>5, <2>2, <2>3, <2>4 DEF IteratorSees
  <2>9. before(current(it), current(j))
    BY <1>1, <2>3 DEF before, current
  <2>10. ASSUME NEW r \in due, before(r, current(j))
         PROVE  r = current(it) \/ before(r, current(it))
    BY <1>1, <1>5, <1>9, <1>11, <2>2, <2>3, <2>10 DEF before, current
  <2> QED BY <1>8, <2>7, <2>8, <2>9, <2>10
<1>12. CASE s = NumSlots /\ ~ (it.hpid + 1 >= it.numPages)
  <2>1. j = pageBegin(it.numPages, it.hpid + 1)
    BY <1>12 DEF operatorPlusPlus
  <2>2. it.numPages \in 0 .. numPages /\ it.hpid + 1 \in 0 .. it.numPages - 1
    BY <1>1, <1>12
  <2>3. due \in SUBSET tableRows
    BY DEF Inv, TableInv
  <2>4. /\ IteratorInPlace(j)
        /\ IteratorSees(j, due)
        /\ \A r \in due : r[1] = it.hpid + 1 => ~ before(r, current(j))
    <3>1. TypeOK /\ TableInv
      BY DEF Inv
    <3>2. \A r \in due : r[1] < it.numPages
      BY <1>5
    <3> HIDE DEF it
    <3> QED BY <2>1, <2>2, <2>3, <3>1, <3>2, PageBegun
  <2>5. j.hpid = it.hpid + 1
    BY <2>1 DEF pageBegin
  <2> HIDE DEF s, U
  <2>6. before(current(it), current(j))
    BY <1>1, <2>5 DEF before, current
  <2>7. ASSUME NEW r \in due, before(r, current(j))
        PROVE  r = current(it) \/ before(r, current(it))
    <3>1. r[1] # it.hpid + 1
      BY <2>4, <2>7
    <3> QED BY <1>1, <1>5, <1>9, <1>12, <2>5, <2>7, <3>1 DEF before, current
  <2> QED BY <1>8, <2>4, <2>6, <2>7
<1> QED BY <1>10, <1>11, <1>12

(* before is an order of the positions in the file. *)
LEMMA BeforeIsTransitive ==
    ASSUME NEW a, NEW b, NEW c,
           a[1] \in Nat, a[2] \in Nat, b[1] \in Nat, b[2] \in Nat, c[1] \in Nat, c[2] \in Nat,
           before(a, b), before(b, c)
    PROVE  before(a, c)
BY DEF before

(* A row is a page and a slot. *)
LEMMA RowIsPosition ==
    ASSUME NEW r \in Rows
    PROVE  r[1] \in Nat /\ r[2] \in Nat /\ r # Null
BY NullIsNoRow, SeqScanConstants DEF Rows, PageNo, Slot

(* next() gives out the row r, which comes after all returned so far. *)
LEMMA Appended ==
    ASSUME out \in Seq(Rows), RowsComeOnceInOrder, NEW r \in Rows,
           \A i \in DOMAIN out : before(out[i], r),
           out' = Append(out, r)
    PROVE  /\ out' \in Seq(Rows)
           /\ RowsComeOnceInOrder'
           /\ \A i \in DOMAIN out' : out'[i] = r \/ \E k \in DOMAIN out : out'[i] = out[k]
           /\ returned \cup {r} \subseteq returned'
<1>1. /\ DOMAIN out = 1 .. Len(out) /\ DOMAIN out' = 1 .. Len(out) + 1 /\ Len(out) \in Nat
      /\ out'[Len(out) + 1] = r
      /\ \A i \in 1 .. Len(out) : out'[i] = out[i]
      /\ out' \in Seq(Rows)
  OBVIOUS
<1>2. \A i \in DOMAIN out' : i = Len(out) + 1 \/ i \in DOMAIN out
  BY <1>1
<1>3. ASSUME NEW i \in DOMAIN out', NEW k \in DOMAIN out', i < k
      PROVE  before(out'[i], out'[k])
  <2>1. i \in DOMAIN out
    BY <1>1, <1>3
  <2>2. CASE k = Len(out) + 1
    BY <1>1, <2>1, <2>2
  <2>3. CASE k \in DOMAIN out
    BY <1>1, <1>3, <2>1, <2>3 DEF RowsComeOnceInOrder
  <2> QED BY <1>2, <2>2, <2>3
<1>4. RowsComeOnceInOrder'
  BY <1>3 DEF RowsComeOnceInOrder
<1>5. \A i \in DOMAIN out' : out'[i] = r \/ \E k \in DOMAIN out : out'[i] = out[k]
  BY <1>1, <1>2
<1>6. ASSUME NEW x \in returned \cup {r} PROVE x \in returned'
  <2>1. CASE x = r
    <3>1. Len(out) + 1 \in DOMAIN out'
      BY <1>1
    <3> QED BY <1>1, <2>1, <3>1 DEF returned
  <2>2. CASE x \in returned
    <3>1. PICK i \in DOMAIN out : x = out[i]
      BY <2>2 DEF returned
    <3>2. i \in DOMAIN out'
      BY <1>1
    <3> QED BY <1>1, <3>1, <3>2 DEF returned
  <2> QED BY <2>1, <2>2
<1> QED BY <1>1, <1>4, <1>5, <1>6

-------------------------------------------------------------------------------
(* Every step keeps the invariant.                                         *)

(* Before the operator is opened. *)
LEMMA InitInv == Init => Inv
<1> SUFFICES ASSUME Init PROVE Inv
  OBVIOUS
<1>1. TypeOK
  <2>1. out \in Seq(Rows)
    BY DEF Init
  <2>2. isOpen \in BOOLEAN /\ due \subseteq Rows
    BY DEF Init
  <2> QED BY <2>1, <2>2 DEF Init, TableInit, TypeOK
<1>2. TableInv
  <2>1. ASSUME NEW p \in PageNo, p >= numPages PROVE used[p] = {}
    <3>1. ~ (p < numPages)
      BY <2>1, SeqScanConstants DEF Init, TableInit, PageNo
    <3> QED BY <3>1 DEF Init, TableInit
  <2> QED BY <2>1 DEF Init, TableInv
<1>3. out = <<>> /\ itopt = Null /\ tup = Null /\ ~ isOpen /\ status = "running"
      /\ result = "false"
  BY DEF Init, TableInit
<1>4. ClosedInv /\ OrderInv /\ ScanInv /\ NoRowIsMissed /\ UndefinedOnlyIf
  BY <1>3 DEF ClosedInv, OrderInv, RowsComeOnceInOrder, ScanInv, NoRowIsMissed,
              UndefinedOnlyIf
<1> QED BY <1>1, <1>2, <1>4 DEF Inv

(* open() and rewind(): a new iterator, and no row fetched ahead. *)
LEMMA Opened ==
    ASSUME Inv, status = "running", itopt' \in begin, tup' = Null, isOpen' = TRUE,
           result' = "true", out' = <<>>, due' = tableRows,
           UNCHANGED <<used, numPages, status>>
    PROVE  Inv'
<1>1. /\ IteratorInPlace(itopt')
      /\ IteratorSees(itopt', due')
      /\ \A r \in due' : ~ before(r, current(itopt'))
  BY Begun DEF Inv
<1>2. tableRows' = tableRows
  BY DEF tableRows
<1>3. TypeOK'
  <2>1. due' \subseteq Rows
    BY DEF tableRows
  <2>2. itopt' \in Iterator
    BY <1>1 DEF IteratorInPlace
  <2> QED BY <2>1, <2>2 DEF Inv, TypeOK
<1>4. TableInv'
  BY <1>2 DEF Inv, TableInv
<1>5. OrderInv' /\ ClosedInv' /\ NoRowIsMissed' /\ UndefinedOnlyIf'
  BY DEF OrderInv, RowsComeOnceInOrder, ClosedInv, NoRowIsMissed, UndefinedOnlyIf
<1>6. ScanInv'
  BY <1>1 DEF ScanInv, IteratorInPlace, IteratorSees, before, current
<1> QED BY <1>3, <1>4, <1>5, <1>6 DEF Inv

(* close(), SeqScan::reset and the calls that throw: the iterator stays or *)
(* goes, the row fetched ahead goes with it or stays, no row comes out.    *)
LEMMA Stopped ==
    ASSUME Inv, status = "running", itopt' \in {itopt, Null},
           \/ isOpen' = isOpen /\ tup' = tup /\ result' \in {result, "threw", "true"}
           \/ isOpen' = FALSE /\ tup' = Null /\ itopt' = Null /\ result' = "true",
           UNCHANGED <<used, numPages, status, out, due>>
    PROVE  Inv'
<1>1. tup' \in {tup, Null} /\ result' \in {result, "threw", "true"}
      /\ isOpen' \in {isOpen, FALSE}
  OBVIOUS
<1>2. TypeOK'
  BY <1>1 DEF Inv, TypeOK
<1>3. TableInv'
  BY DEF Inv, TableInv, tableRows
<1>4. ClosedInv'
  BY DEF Inv, ClosedInv
<1>5. OrderInv'
  BY <1>1 DEF Inv, OrderInv, RowsComeOnceInOrder, current, before
<1>6. ScanInv'
  <2>1. CASE itopt' = Null
    BY <2>1 DEF ScanInv
  <2>2. CASE itopt' # Null
    <3>1. itopt' = itopt /\ tup' = tup
      BY <2>2
    <3> QED BY <3>1 DEF Inv, ScanInv, IteratorInPlace, IteratorSees, returned, current, before
  <2> QED BY <2>1, <2>2
<1>7. NoRowIsMissed'
  BY DEF Inv, NoRowIsMissed
<1>8. UndefinedOnlyIf'
  BY DEF UndefinedOnlyIf
<1> QED BY <1>2, <1>3, <1>4, <1>5, <1>6, <1>7, <1>8 DEF Inv

(* The child has no more rows, and the iterator is at the end of the file  *)
(* as it is now: every row that is due has been passed.                    *)
LEMMA AllPassed ==
    ASSUME Inv, itopt # Null, atEnd(itopt), tup = Null
    PROVE  due \subseteq returned
<1> SUFFICES ASSUME NEW r \in due PROVE r \in returned
  OBVIOUS
<1>1. itopt \in Iterator /\ itopt.end /\ itopt.hpid = numPages /\ itopt.numPages <= numPages
  BY DEF Inv, ScanInv, IteratorInPlace, atEnd
<1>2. r \in Rows /\ r[1] < itopt.numPages
  BY DEF Inv, TypeOK, ScanInv, IteratorSees
<1>3. before(r, current(itopt))
  BY <1>1, <1>2, RowIsPosition DEF before, current, Inv, TypeOK, Iterator
<1>4. r \in returned \cup {tup}
  BY <1>3 DEF Inv, ScanInv
<1> QED BY <1>2, <1>4, RowIsPosition

(* hasNext() answers "false", or next() throws, at the end of the file. *)
LEMMA NothingLeft ==
    ASSUME Inv, status = "running", itopt # Null, atEnd(itopt), tup = Null,
           NEW answer \in {"false", "threw"},
           UNCHANGED <<itopt, status, isOpen>>, nothingLeft(answer)
    PROVE  Inv'
<1>1. /\ result' = answer
      /\ UNCHANGED <<used, numPages, itopt, status, tup, isOpen, out, due>>
  BY DEF nothingLeft
<1>2. TypeOK'
  BY <1>1 DEF Inv, TypeOK
<1>3. TableInv' /\ ClosedInv' /\ OrderInv'
  BY <1>1 DEF Inv, TableInv, tableRows, ClosedInv, OrderInv, RowsComeOnceInOrder, current,
              before
<1>4. ScanInv'
  BY <1>1 DEF Inv, ScanInv, IteratorInPlace, IteratorSees, returned, current, before
<1>5. NoRowIsMissed'
  BY <1>1, AllPassed DEF NoRowIsMissed, returned
<1>6. UndefinedOnlyIf'
  BY <1>1 DEF UndefinedOnlyIf
<1> QED BY <1>2, <1>3, <1>4, <1>5, <1>6 DEF Inv

(* hasNext() fetches a row from the child and keeps it. *)
LEMMA LookedAhead ==
    ASSUME Inv, status = "running", itopt # Null, dereferenceable(itopt), tup = Null,
           itopt' = operatorPlusPlus(itopt),
           UNCHANGED <<status, isOpen>>, lookAhead(current(itopt))
    PROVE  Inv'
<1> DEFINE c == current(itopt)
<1>1. /\ tup' = c /\ result' = "true"
      /\ UNCHANGED <<used, numPages, status, isOpen, out, due>>
  BY DEF lookAhead
<1>2. /\ IteratorInPlace(itopt')
      /\ IteratorSees(itopt', due)
      /\ c \in Rows
      /\ before(c, current(itopt'))
      /\ \A r \in due : before(r, current(itopt')) => r = c \/ before(r, c)
  BY Advanced
<1> HIDE DEF c
<1>3. TypeOK'
  <2>1. itopt' \in Iterator
    BY <1>2 DEF IteratorInPlace
  <2> QED BY <1>1, <1>2, <2>1 DEF Inv, TypeOK
<1>4. TableInv' /\ NoRowIsMissed' /\ UndefinedOnlyIf'
  BY <1>1 DEF Inv, TableInv, tableRows, NoRowIsMissed, UndefinedOnlyIf
<1>5. ClosedInv'
  BY <1>1 DEF Inv, ClosedInv
<1>6. c[1] \in Nat /\ c[2] \in Nat /\ current(itopt')[1] \in Nat /\ current(itopt')[2] \in Nat
  BY <1>2, RowIsPosition DEF IteratorInPlace, Iterator, current
<1>7. ASSUME NEW i \in DOMAIN out
      PROVE  before(out[i], c) /\ before(out[i], current(itopt'))
  <2>1. out[i] \in Rows
    BY DEF Inv, TypeOK
  <2>2. out[i][1] \in Nat /\ out[i][2] \in Nat
    BY <2>1, RowIsPosition
  <2>3. before(out[i], c)
    BY DEF Inv, OrderInv, c
  <2> QED BY <1>2, <1>6, <2>2, <2>3, BeforeIsTransitive
<1>8. OrderInv'
  <2>1. RowsComeOnceInOrder'
    BY <1>1 DEF Inv, OrderInv, RowsComeOnceInOrder, before
  <2> QED BY <1>1, <1>2, <1>7, <2>1 DEF OrderInv, before, current
<1>9. ScanInv'
  <2>1. ASSUME NEW r \in due, before(r, current(itopt')) PROVE r \in returned \cup {c}
    <3>1. CASE r = c
      BY <3>1
    <3>2. CASE before(r, c)
      <4>1. r \in returned \cup {tup}
        BY <3>2 DEF Inv, ScanInv, c
      <4>2. r # tup
        BY RowIsPosition DEF Inv, TypeOK
      <4> QED BY <4>1, <4>2
    <3> QED BY <1>2, <2>1, <3>1, <3>2
  <2>2. returned' = returned
    BY <1>1 DEF returned
  <2> QED BY <1>1, <1>2, <2>1, <2>2 DEF ScanInv, IteratorInPlace, IteratorSees, current, before
<1> QED BY <1>3, <1>4, <1>5, <1>8, <1>9 DEF Inv

(* next() gives out the row fetched ahead. *)
LEMMA DeliveredAhead ==
    ASSUME Inv, status = "running", tup # Null, deliver(tup),
           UNCHANGED <<itopt, status, isOpen>>
    PROVE  Inv'
<1>1. /\ out' = Append(out, tup) /\ tup' = Null /\ result' = "row"
      /\ UNCHANGED <<used, numPages, itopt, status, isOpen, due>>
  BY DEF deliver
<1>2. tup \in Rows /\ isOpen
  BY DEF Inv, TypeOK, ClosedInv
<1>3. /\ out' \in Seq(Rows)
      /\ RowsComeOnceInOrder'
      /\ \A i \in DOMAIN out' : out'[i] = tup \/ \E k \in DOMAIN out : out'[i] = out[k]
      /\ returned \cup {tup} \subseteq returned'
  BY <1>1, <1>2, Appended DEF Inv, TypeOK, OrderInv
<1>4. TypeOK'
  BY <1>1, <1>3 DEF Inv, TypeOK
<1>5. TableInv' /\ ClosedInv' /\ NoRowIsMissed' /\ UndefinedOnlyIf'
  BY <1>1, <1>2 DEF Inv, TableInv, tableRows, ClosedInv, NoRowIsMissed, UndefinedOnlyIf
<1>6. OrderInv'
  <2>1. itopt' # Null => \A i \in DOMAIN out' : before(out'[i], current(itopt'))
    BY <1>1, <1>3 DEF Inv, OrderInv
  <2> QED BY <1>1, <1>3, <2>1 DEF OrderInv
<1>7. ScanInv'
  BY <1>1, <1>3 DEF Inv, ScanInv, IteratorInPlace, IteratorSees, current, before
<1> QED BY <1>4, <1>5, <1>6, <1>7 DEF Inv

(* next() fetches a row from the child and gives it out. *)
LEMMA DeliveredFetched ==
    ASSUME Inv, status = "running", itopt # Null, dereferenceable(itopt), tup = Null,
           itopt' = operatorPlusPlus(itopt),
           UNCHANGED <<status, isOpen>>, deliver(current(itopt))
    PROVE  Inv'
<1> DEFINE c == current(itopt)
<1>1. /\ out' = Append(out, c) /\ tup' = Null /\ result' = "row"
      /\ UNCHANGED <<used, numPages, status, isOpen, due>>
  BY DEF deliver
<1>2. /\ IteratorInPlace(itopt')
      /\ IteratorSees(itopt', due)
      /\ c \in Rows
      /\ before(c, current(itopt'))
      /\ \A r \in due : before(r, current(itopt')) => r = c \/ before(r, c)
  BY Advanced
<1>3. isOpen /\ \A i \in DOMAIN out : before(out[i], c)
  BY DEF Inv, ClosedInv, OrderInv
<1> HIDE DEF c
<1>4. /\ out' \in Seq(Rows)
      /\ RowsComeOnceInOrder'
      /\ \A i \in DOMAIN out' : out'[i] = c \/ \E k \in DOMAIN out : out'[i] = out[k]
      /\ returned \cup {c} \subseteq returned'
  BY <1>1, <1>2, <1>3, Appended DEF Inv, TypeOK, OrderInv
<1>5. TypeOK'
  <2>1. itopt' \in Iterator
    BY <1>2 DEF IteratorInPlace
  <2> QED BY <1>1, <1>4, <2>1 DEF Inv, TypeOK
<1>6. TableInv' /\ ClosedInv' /\ NoRowIsMissed' /\ UndefinedOnlyIf'
  BY <1>1, <1>3 DEF Inv, TableInv, tableRows, ClosedInv, NoRowIsMissed, UndefinedOnlyIf
<1>7. c[1] \in Nat /\ c[2] \in Nat /\ current(itopt')[1] \in Nat /\ current(itopt')[2] \in Nat
  BY <1>2, RowIsPosition DEF IteratorInPlace, Iterator, current
<1>8. OrderInv'
  <2>1. ASSUME NEW k \in DOMAIN out PROVE before(out[k], current(itopt'))
    <3>1. out[k] \in Rows
      BY DEF Inv, TypeOK
    <3>2. out[k][1] \in Nat /\ out[k][2] \in Nat
      BY <3>1, RowIsPosition
    <3> QED BY <1>2, <1>3, <1>7, <3>2, BeforeIsTransitive
  <2>2. \A i \in DOMAIN out' : before(out'[i], current(itopt'))
    BY <1>2, <1>4, <2>1
  <2> QED BY <1>1, <1>4, <2>2 DEF OrderInv
<1>9. ScanInv'
  <2>1. ASSUME NEW r \in due, before(r, current(itopt')) PROVE r \in returned'
    <3>1. CASE r = c
      BY <1>4, <3>1
    <3>2. CASE before(r, c)
      <4>1. r \in returned \cup {tup}
        BY <3>2 DEF Inv, ScanInv, c
      <4>2. r # tup
        BY RowIsPosition DEF Inv, TypeOK
      <4> QED BY <1>4, <4>1, <4>2
    <3> QED BY <1>2, <2>1, <3>1, <3>2
  <2> QED BY <1>1, <1>2, <2>1 DEF ScanInv, IteratorInPlace, IteratorSees, current, before
<1> QED BY <1>5, <1>6, <1>8, <1>9 DEF Inv

(* The iterator is dereferenced where it has no tuple. *)
LEMMA Undefined ==
    ASSUME Inv, status = "running", itopt # Null, hasNext(itopt), ~ dereferenceable(itopt),
           status' = "undefined",
           UNCHANGED <<used, numPages, itopt, tup, isOpen, result, out, due>>
    PROVE  Inv'
<1>1. TypeOK' /\ TableInv' /\ ClosedInv' /\ OrderInv' /\ NoRowIsMissed'
  BY DEF Inv, TypeOK, TableInv, tableRows, ClosedInv, OrderInv, RowsComeOnceInOrder,
         NoRowIsMissed, current, before
<1>2. ScanInv'
  BY DEF Inv, ScanInv, IteratorInPlace, IteratorSees, returned, current, before
<1>3. /\ IteratorInPlace(itopt) /\ IteratorSees(itopt, due)
      /\ numPages \in Nat /\ itopt.numPages \in Nat /\ itopt.slot \in 0 .. NumSlots
  BY DEF Inv, ScanInv, TypeOK, IteratorInPlace, Iterator
<1>4. UndefinedOnlyIf'
  <2>1. CASE itopt.numPages = 0
    BY <2>1 DEF UndefinedOnlyIf
  <2>2. CASE itopt.numPages # 0 /\ itopt.end
    <3>1. itopt.hpid = itopt.numPages /\ itopt.hpid # numPages
      BY <1>3, <2>2 DEF IteratorInPlace, hasNext, atEnd
    <3>2. itopt.numPages < numPages
      BY <1>3, <3>1 DEF IteratorInPlace
    <3> QED BY <2>2, <3>2 DEF UndefinedOnlyIf
  <2>3. CASE itopt.numPages # 0 /\ ~ itopt.end
    <3>1. itopt.slot = NumSlots
      BY <1>3, <2>3, SeqScanConstants DEF dereferenceable
    <3>2. \A r \in due : r[1] # itopt.hpid
      BY <1>3, <2>3, <3>1 DEF IteratorSees
    <3> QED BY <2>3, <3>2 DEF UndefinedOnlyIf
  <2> QED BY <2>1, <2>2, <2>3
<1> QED BY <1>1, <1>2, <1>4 DEF Inv

(* HeapFile::insertTuple under the scan: the file may grow, and the rows   *)
(* that were there stay.                                                   *)
LEMMA Inserted ==
    ASSUME Inv, status = "running", InsertTuple, operatorUnchanged, UNCHANGED due
    PROVE  Inv'
<1> DEFINE p == IF pagesWithRoom = {} THEN numPages ELSE lowest(pagesWithRoom)
           x == lowest(Slot \ used[p])
<1>1. /\ p < MaxPages
      /\ used' = [used EXCEPT ![p] = used[p] \cup {x}]
      /\ numPages' = IF p = numPages THEN numPages + 1 ELSE numPages
      /\ UNCHANGED <<itopt, status, tup, isOpen, result, out, due>>
  BY DEF InsertTuple, operatorUnchanged
<1>2. numPages \in Nat /\ numPages <= MaxPages /\ used \in [PageNo -> SUBSET Slot]
      /\ MaxPages \in Nat
  BY SeqScanConstants DEF Inv, TypeOK
<1>3. p \in Nat /\ p <= numPages /\ used[p] # Slot
  <2>1. CASE pagesWithRoom = {}
    <3>1. numPages \in PageNo
      BY <1>1, <1>2, <2>1 DEF PageNo
    <3>2. used[numPages] = {}
      BY <1>2, <3>1 DEF Inv, TableInv
    <3>3. 0 \in Slot
      BY SeqScanConstants DEF Slot
    <3> QED BY <1>2, <2>1, <3>2, <3>3
  <2>2. CASE pagesWithRoom # {}
    <3>1. pagesWithRoom \subseteq Nat
      BY <1>2 DEF pagesWithRoom
    <3>2. p \in pagesWithRoom
      BY <2>2, <3>1, Lowest
    <3> HIDE DEF p
    <3> QED BY <1>2, <3>2 DEF pagesWithRoom
  <2> QED BY <2>1, <2>2
<1>4. p \in PageNo
  <2> HIDE DEF p
  <2> QED BY <1>1, <1>2, <1>3 DEF PageNo
<1>5. x \in Slot
  <2>1. Slot \ used[p] \subseteq Nat
    BY DEF Slot
  <2>2. Slot \ used[p] # {}
    <3> HIDE DEF p
    <3> QED BY <1>2, <1>3, <1>4
  <2> HIDE DEF p
  <2> QED BY <2>1, <2>2, Lowest
<1> HIDE DEF p, x
<1>6. numPages' \in Nat /\ numPages <= numPages' /\ numPages' <= MaxPages
  BY <1>1, <1>2, <1>3
<1>7. TypeOK'
  <2>1. used' \in [PageNo -> SUBSET Slot] /\ numPages' \in 0 .. MaxPages
    BY <1>1, <1>2, <1>4, <1>5, <1>6
  <2> QED BY <1>1, <2>1 DEF Inv, TypeOK
<1>8. \A q \in PageNo : used[q] \subseteq used'[q]
  BY <1>1, <1>2, <1>4
<1>9. TableInv'
  <2>1. ASSUME NEW q \in PageNo, q >= numPages' PROVE used'[q] = {}
    <3>1. q # p /\ q >= numPages
      BY <1>1, <1>2, <1>3, <1>6, <2>1 DEF PageNo
    <3> QED BY <1>1, <1>2, <3>1 DEF Inv, TableInv
  <2>2. due' \subseteq tableRows'
    BY <1>1, <1>8 DEF Inv, TableInv, tableRows, Rows
  <2> QED BY <2>1, <2>2 DEF TableInv
<1>10. ClosedInv' /\ OrderInv' /\ NoRowIsMissed' /\ UndefinedOnlyIf'
  BY <1>1 DEF Inv, ClosedInv, OrderInv, RowsComeOnceInOrder, NoRowIsMissed, UndefinedOnlyIf,
              current, before
<1>11. ScanInv'
  <2>1. ASSUME itopt # Null PROVE IteratorInPlace(itopt)'
    <3>1. IteratorInPlace(itopt)
      BY <2>1 DEF Inv, ScanInv
    <3> QED BY <1>1, <1>2, <1>6, <3>1 DEF IteratorInPlace, Iterator
  <2>2. ASSUME itopt # Null PROVE IteratorSees(itopt, due)'
    BY <1>1, <2>2 DEF Inv, ScanInv, IteratorSees
  <2> QED BY <1>1, <2>1, <2>2 DEF Inv, ScanInv, returned, current, before
<1> QED BY <1>7, <1>9, <1>10, <1>11 DEF Inv

(* HeapFile::deleteTuple under the scan: the row is not due any more, and  *)
(* the page object that the iterator holds may still have it.              *)
LEMMA Deleted ==
    ASSUME Inv, status = "running", NEW r \in Rows, DeleteTuple(r), operatorUnchanged,
           due' = due \ {r}
    PROVE  Inv'
<1>1. /\ used' = [used EXCEPT ![r[1]] = used[r[1]] \ {r[2]}]
      /\ UNCHANGED <<numPages, itopt, status, tup, isOpen, result, out>>
      /\ due' = due \ {r}
  BY DEF DeleteTuple, operatorUnchanged
<1>2. r[1] \in PageNo /\ r[2] \in Slot /\ r = <<r[1], r[2]>>
  BY DEF Rows
<1>3. used \in [PageNo -> SUBSET Slot]
  BY DEF Inv, TypeOK
<1>4. TypeOK'
  <2>1. used' \in [PageNo -> SUBSET Slot]
    BY <1>1, <1>2, <1>3
  <2>2. due' \subseteq Rows
    BY <1>1 DEF Inv, TypeOK
  <2> QED BY <1>1, <2>1, <2>2 DEF Inv, TypeOK
<1>5. TableInv'
  <2>1. ASSUME NEW q \in PageNo, q >= numPages' PROVE used'[q] = {}
    <3>1. used[q] = {}
      BY <1>1, <2>1 DEF Inv, TableInv
    <3> QED BY <1>1, <1>2, <1>3, <3>1
  <2>2. ASSUME NEW x \in due' PROVE x \in tableRows'
    <3>1. x \in Rows /\ x[2] \in used[x[1]] /\ x # r
      BY <1>1 DEF Inv, TableInv, tableRows
    <3>2. x[1] \in PageNo /\ x = <<x[1], x[2]>>
      BY <3>1 DEF Rows
    <3>3. x[1] = r[1] => x[2] # r[2]
      BY <1>2, <3>1, <3>2
    <3>4. x[2] \in used'[x[1]]
      BY <1>1, <1>2, <1>3, <3>1, <3>2, <3>3
    <3> QED BY <3>1, <3>4 DEF tableRows
  <2> QED BY <2>1, <2>2 DEF TableInv
<1>6. ClosedInv' /\ OrderInv' /\ NoRowIsMissed' /\ UndefinedOnlyIf'
  BY <1>1 DEF Inv, ClosedInv, OrderInv, RowsComeOnceInOrder, NoRowIsMissed, UndefinedOnlyIf,
              current, before
<1>7. ScanInv'
  <2>1. ASSUME itopt # Null PROVE IteratorInPlace(itopt)'
    BY <1>1, <2>1 DEF Inv, ScanInv, IteratorInPlace
  <2>2. ASSUME itopt # Null PROVE IteratorSees(itopt, due)'
    BY <1>1, <2>2 DEF Inv, ScanInv, IteratorSees
  <2> QED BY <1>1, <2>1, <2>2 DEF Inv, ScanInv, returned, current, before
<1> QED BY <1>4, <1>5, <1>6, <1>7 DEF Inv

(* The pool drops the iterator's page, which keeps the rows it has now. *)
LEMMA Dropped ==
    ASSUME Inv, status = "running", DropPage, operatorUnchanged, UNCHANGED due
    PROVE  Inv'
<1>1. /\ itopt # Null /\ ~ itopt.end /\ itopt.page = Null
      /\ itopt' = [itopt EXCEPT !.page = used[itopt.hpid]]
      /\ UNCHANGED <<used, numPages, status, tup, isOpen, result, out, due>>
  BY DEF DropPage, operatorUnchanged
<1>2. IteratorInPlace(itopt) /\ IteratorSees(itopt, due) /\ itopt \in Iterator
  BY <1>1 DEF Inv, ScanInv, IteratorInPlace
<1>3. used[itopt.hpid] \in SUBSET Slot
  <2>1. itopt.hpid \in PageNo
    BY <1>1, <1>2, SeqScanConstants DEF IteratorInPlace, Iterator, PageNo
  <2> QED BY <2>1 DEF Inv, TypeOK
<1>4. /\ itopt' \in Iterator
      /\ itopt'.numPages = itopt.numPages /\ itopt'.hpid = itopt.hpid
      /\ itopt'.slot = itopt.slot /\ itopt'.page = used[itopt.hpid]
  BY <1>1, <1>2, <1>3 DEF Iterator
<1>5. itopt'.end = itopt.end
  BY <1>1, <1>2 DEF Iterator
<1>6. TypeOK'
  BY <1>1, <1>4 DEF Inv, TypeOK
<1>7. TableInv' /\ ClosedInv' /\ NoRowIsMissed' /\ UndefinedOnlyIf'
  BY <1>1 DEF Inv, TableInv, tableRows, ClosedInv, NoRowIsMissed, UndefinedOnlyIf
<1>8. current(itopt') = current(itopt)
  BY <1>4 DEF current
<1>9. OrderInv'
  BY <1>1, <1>8 DEF Inv, OrderInv, RowsComeOnceInOrder
<1>10. ScanInv'
  <2>1. IteratorInPlace(itopt)'
    BY <1>1, <1>2, <1>4, <1>5 DEF IteratorInPlace
  <2>2. \A r \in due : r[1] = itopt.hpid => r[2] \in used[itopt.hpid]
    BY DEF Inv, TableInv, tableRows
  <2>3. IteratorSees(itopt, due)'
    BY <1>1, <1>2, <1>4, <1>5, <2>2 DEF IteratorSees
  <2> QED BY <1>1, <1>8, <2>1, <2>3 DEF Inv, ScanInv, returned
<1> QED BY <1>6, <1>7, <1>9, <1>10 DEF Inv

(* Operator::hasNext. *)
LEMMA HasNextStep ==
    ASSUME Inv, status = "running", HasNext
    PROVE  Inv'
<1>1. CASE ~ isOpen /\ threw
  <2>1. UNCHANGED <<used, numPages, itopt, status, tup, isOpen, out, due>> /\ result' = "threw"
    BY <1>1 DEF HasNext, threw
  <2> QED BY <2>1, Stopped
<1>2. CASE isOpen /\ tup # Null /\ result' = "true"
           /\ UNCHANGED <<used, numPages, itopt, status, tup, out, due>>
  BY <1>2, Stopped DEF HasNext
<1>3. CASE isOpen /\ tup = Null /\ fetchNext(lookAhead(current(itopt)), nothingLeft("false"))
  <2>1. UNCHANGED isOpen
    BY DEF HasNext
  <2>2. CASE itopt = Null /\ threw
    <3>1. UNCHANGED <<used, numPages, itopt, status, tup, out, due>> /\ result' = "threw"
      BY <2>2 DEF threw
    <3> QED BY <2>1, <3>1, Stopped
  <2>3. CASE itopt # Null /\ ~ hasNext(itopt) /\ UNCHANGED <<itopt, status>>
             /\ nothingLeft("false")
    BY <1>3, <2>1, <2>3, NothingLeft DEF hasNext
  <2>4. CASE itopt # Null /\ dereferenceable(itopt) /\ itopt' = operatorPlusPlus(itopt)
             /\ UNCHANGED status /\ lookAhead(current(itopt))
    BY <1>3, <2>1, <2>4, LookedAhead
  <2>5. CASE itopt # Null /\ hasNext(itopt) /\ ~ dereferenceable(itopt)
             /\ status' = "undefined"
             /\ UNCHANGED <<used, numPages, itopt, tup, result, out, due>>
    BY <2>1, <2>5, Undefined
  <2> QED BY <1>3, <2>2, <2>3, <2>4, <2>5 DEF fetchNext
<1> QED BY <1>1, <1>2, <1>3 DEF HasNext

(* Operator::next. *)
LEMMA OperatorNextStep ==
    ASSUME Inv, status = "running", OperatorNext
    PROVE  Inv'
<1>1. UNCHANGED isOpen
  BY DEF OperatorNext
<1>2. CASE tup # Null /\ deliver(tup) /\ UNCHANGED <<itopt, status>>
  BY <1>1, <1>2, DeliveredAhead
<1>3. CASE tup = Null /\ fetchNext(deliver(current(itopt)), nothingLeft("threw"))
  <2>1. CASE itopt = Null /\ threw
    <3>1. UNCHANGED <<used, numPages, itopt, status, tup, out, due>> /\ result' = "threw"
      BY <2>1 DEF threw
    <3> QED BY <1>1, <3>1, Stopped
  <2>2. CASE itopt # Null /\ ~ hasNext(itopt) /\ UNCHANGED <<itopt, status>>
             /\ nothingLeft("threw")
    BY <1>1, <1>3, <2>2, NothingLeft DEF hasNext
  <2>3. CASE itopt # Null /\ dereferenceable(itopt) /\ itopt' = operatorPlusPlus(itopt)
             /\ UNCHANGED status /\ deliver(current(itopt))
    BY <1>1, <1>3, <2>3, DeliveredFetched
  <2>4. CASE itopt # Null /\ hasNext(itopt) /\ ~ dereferenceable(itopt)
             /\ status' = "undefined"
             /\ UNCHANGED <<used, numPages, itopt, tup, result, out, due>>
    BY <1>1, <2>4, Undefined
  <2> QED BY <1>3, <2>1, <2>2, <2>3, <2>4 DEF fetchNext
<1> QED BY <1>2, <1>3 DEF OperatorNext

(* Every step keeps the invariant: one lemma for each operation. *)
LEMMA NextInv == Inv /\ [Next]_vars => Inv'
<1> SUFFICES ASSUME Inv, [Next]_vars PROVE Inv'
  OBVIOUS
<1>1. CASE UNCHANGED vars
  BY <1>1 DEF vars, Inv, TypeOK, TableInv, tableRows, ClosedInv, OrderInv,
              RowsComeOnceInOrder, ScanInv, IteratorInPlace, IteratorSees, returned,
              NoRowIsMissed, UndefinedOnlyIf, current, before
<1>2. CASE Next
  <2>1. status = "running"
    BY <1>2 DEF Next
  <2>2. CASE Open
    <3>1. tup = Null
      BY <2>2 DEF Open, Inv, ClosedInv
    <3> QED BY <2>1, <2>2, <3>1, Opened DEF Open
  <2>3. CASE Rewind
    BY <2>1, <2>3, Opened DEF Rewind
  <2>4. CASE Close
    BY <2>1, <2>4, Stopped DEF Close, close
  <2>5. CASE HasNext
    BY <2>1, <2>5, HasNextStep
  <2>6. CASE OperatorNext
    BY <2>1, <2>6, OperatorNextStep
  <2>7. CASE InsertTuple /\ operatorUnchanged /\ UNCHANGED due
    BY <2>1, <2>7, Inserted
  <2>8. CASE \E r \in Rows : DeleteTuple(r) /\ operatorUnchanged /\ due' = due \ {r}
    BY <2>1, <2>8, Deleted
  <2>9. CASE DropPage /\ operatorUnchanged /\ UNCHANGED due
    BY <2>1, <2>9, Dropped
  <2>10. CASE Reset /\ operatorUnchanged /\ UNCHANGED due
    BY <2>1, <2>10, Stopped DEF Reset, close, operatorUnchanged
  <2> QED BY <1>2, <2>2, <2>3, <2>4, <2>5, <2>6, <2>7, <2>8, <2>9, <2>10
          DEF Next, Call, Change
<1> QED BY <1>1, <1>2

-------------------------------------------------------------------------------
(* The theorems.                                                           *)

(* Inv holds however Operator's calls and the changes of the table mix. *)
THEOREM OperatorInvariant == Spec => []Inv
BY InitInv, NextInv, PTL DEF Spec

(* Operator's and SeqScan's fields, and with them the iterator's positions *)
(* in the file, keep their types.                                          *)
THEOREM OperatorTypes == Spec => []TypeOK
<1>1. Inv => TypeOK
  BY DEF Inv
<1> QED BY <1>1, OperatorInvariant, PTL

(* Operator::hasNext and Operator::next give out a row of the table once   *)
(* and in the order of the file, however they are mixed and whatever       *)
(* happens to the table in between.                                        *)
THEOREM OperatorOrder == Spec => []RowsComeOnceInOrder
<1>1. Inv => RowsComeOnceInOrder
  BY DEF Inv, OrderInv
<1> QED BY <1>1, OperatorInvariant, PTL

(* When Operator::hasNext is false, every row that was there since open()  *)
(* has come out: neither a page that the pool drops nor one that is added  *)
(* makes HeapFileIterator pass a row.                                      *)
THEOREM OperatorCompleteness == Spec => []NoRowIsMissed
<1>1. Inv => NoRowIsMissed
  BY DEF Inv
<1> QED BY <1>1, OperatorInvariant, PTL

(* SeqScan::next dereferences an iterator that has no tuple in the three   *)
(* cases that UndefinedOnlyIf names, and in no other.                      *)
THEOREM OperatorUndefined == Spec => []UndefinedOnlyIf
<1>1. Inv => UndefinedOnlyIf
  BY DEF Inv
<1> QED BY <1>1, OperatorInvariant, PTL

(* Operator::close empties both the row fetched ahead and the child, so    *)
(* that Operator::next, which does not look at isOpen, has nothing to give *)
(* out afterwards.                                                         *)
THEOREM OperatorClosed == Spec => NothingAfterClose
<1>1. Inv /\ [Next]_vars => [~ isOpen => result' # "row"]_vars
  <2> SUFFICES ASSUME Inv, Next, ~ isOpen PROVE result' # "row"
    BY DEF vars
  <2>1. tup = Null /\ itopt = Null /\ result # "row"
    BY DEF Inv, ClosedInv
  <2> QED BY <2>1 DEF Next, Call, Change, Open, Rewind, Close, HasNext, OperatorNext,
             fetchNext, threw, operatorUnchanged
<1> QED BY <1>1, OperatorInvariant, PTL DEF Spec, NothingAfterClose

===============================================================================
