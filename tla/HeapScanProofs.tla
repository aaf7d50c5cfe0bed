---------------------------- MODULE HeapScanProofs ----------------------------
(***************************************************************************)
(* Proofs about HeapScan, for any number of pages and slots and any        *)
(* capacity of the pool: wherever the borrowed keys of the pool point to,  *)
(* a scan returns every row that nobody deleted, the pool keeps within its *)
(* capacity, and pages that only own keys lead to are written back.        *)
(***************************************************************************)
EXTENDS HeapScan, FiniteSetTheorems, WellFoundedInduction, TLAPS

-------------------------------------------------------------------------------
(* The inductive invariant.                                                *)

(* A pool m and a file d that have lost no live row: each copy of a page,  *)
(* in the file or in any node of the pool, has the page's live rows.       *)
Keeps(m, d) ==
    /\ m \in [Node -> Object \cup {Null}]
    /\ d \in [PageNo -> SUBSET Slot]
    /\ Cardinality(cached(m)) <= NumPages
    /\ \A r \in live :
        /\ r[2] \in d[r[1]]
        /\ \A x \in cached(m) : x[1] = r[1] => r[2] \in m[x].used

(* The iterator is in a page of the file or at the end of the file, and    *)
(* its page object is the pool's object of that page, or one dropped.      *)
IteratorInPlace ==
    /\ it.end => it.hpid = FilePages
    /\ ~ it.end => it.hpid < FilePages
    /\ it.page # Null => it.page \in cached(pool) /\ (~ it.end => it.page[1] = it.hpid)

(* The page object that the iterator reads has the page's live rows, also  *)
(* when the pool has dropped it and has another object of the page by now. *)
ViewIsComplete == ~ it.end => \A r \in live : r[1] = it.hpid => r[2] \in view

(* The iterator has passed the position of row r. *)
passed(r) == r[1] < it.hpid \/ (r[1] = it.hpid /\ r[2] < it.slot)

(* The live rows that the iterator has passed were returned. *)
PassedRowsAreSeen == \A r \in live : passed(r) => r \in seen

Inv == /\ TypeOK /\ Keeps(pool, disk) /\ IteratorInPlace /\ ViewIsComplete
       /\ PassedRowsAreSeen

-------------------------------------------------------------------------------
(* Least slots and sizes of sets.                                          *)

(* A nonempty set of slots has a least element. *)
LEMMA LeastSlot ==
    ASSUME NEW S, S \subseteq Nat, S # {}
    PROVE  \E x \in S : \A y \in S : x <= y
<1> DEFINE R == { ss \in Nat \X Nat : ss[1] < ss[2] }
<1>1. IsWellFoundedOn(R, Nat)
  BY NatLessThanWellFounded DEF OpToRel
<1>2. PICK x \in S : \A y \in S : <<y, x>> \notin R
  <2> HIDE DEF R
  <2> QED BY <1>1, WFMin
<1>3. ASSUME NEW y \in S PROVE x <= y
  <2>1. x \in Nat /\ y \in Nat
    OBVIOUS
  <2>2. ~ (y < x)
    BY <1>2, <2>1
  <2> QED BY <2>1, <2>2
<1> QED BY <1>3

(* What HeapPageIterator's loop finds: no used slot is between s and it. *)
LEMMA NextUsed ==
    ASSUME NEW U \in SUBSET Slot, NEW s \in Nat
    PROVE  /\ nextUsed(U, s) \in 0 .. NumSlots
           /\ \A r \in U : r >= s => nextUsed(U, s) <= r
<1> DEFINE from == { r \in U : r >= s }
<1>0. \A r \in U : r \in Nat /\ r < NumSlots
  <2>1. \A r \in U : r \in 0 .. NumSlots - 1
    BY DEF Slot
  <2> QED BY <2>1, ScanConstants
<1>1. CASE from = {}
  <2>1. nextUsed(U, s) = NumSlots
    BY <1>1 DEF nextUsed
  <2>2. \A r \in U : ~ (r >= s)
    BY <1>1
  <2> QED BY <2>1, <2>2, ScanConstants
<1>2. CASE from # {}
  <2> DEFINE n == nextUsed(U, s)
  <2>1. n = CHOOSE r \in from : \A q \in from : r <= q
    BY <1>2 DEF nextUsed
  <2>2. from \subseteq Nat
    BY <1>0
  <2>3. n \in from /\ \A y \in from : n <= y
    <3> HIDE DEF from, n
    <3> QED BY <1>2, <2>1, <2>2, LeastSlot
  <2>4. n \in U /\ \A r \in U : r >= s => n <= r
    <3> HIDE DEF n
    <3> QED BY <2>3
  <2>5. n \in 0 .. NumSlots
    <3> HIDE DEF n
    <3> QED BY <1>0, <2>4, ScanConstants
  <2> QED BY <2>4, <2>5
<1> QED BY <1>1, <1>2

(* The pool has finitely many possible nodes. *)
LEMMA NodesAreFinite == IsFiniteSet(Node)
<1>1. IsFiniteSet(PageNo)
  BY FS_Interval, ScanConstants DEF PageNo
<1>2. IsFiniteSet({0} \cup Borrowed)
  <2>1. IsFiniteSet(Borrowed)
    BY FS_Interval, ScanConstants DEF Borrowed
  <2>2. IsFiniteSet(Borrowed \cup {0})
    BY <2>1, FS_AddElement
  <2>3. {0} \cup Borrowed = Borrowed \cup {0}
    OBVIOUS
  <2> QED BY <2>2, <2>3
<1> QED BY <1>1, <1>2, FS_Product DEF Node

(* A smaller pool is within the capacity too... *)
LEMMA FewerNodes ==
    ASSUME NEW A, NEW B \in SUBSET Node, A \subseteq B, Cardinality(B) <= NumPages
    PROVE  Cardinality(A) <= NumPages
<1>1. IsFiniteSet(B)
  BY NodesAreFinite, FS_Subset
<1>2. IsFiniteSet(A) /\ Cardinality(A) <= Cardinality(B)
  BY <1>1, FS_Subset
<1>3. Cardinality(A) \in Nat /\ Cardinality(B) \in Nat
  BY <1>1, <1>2, FS_CardinalityType
<1> QED BY <1>2, <1>3, ScanConstants

(* ... and so is one with one more node where there was room for it. *)
LEMMA OneMoreNode ==
    ASSUME NEW A \in SUBSET Node, Cardinality(A) < NumPages, NEW x
    PROVE  Cardinality(A \cup {x}) <= NumPages
<1>1. IsFiniteSet(A) /\ Cardinality(A) \in Nat
  BY NodesAreFinite, FS_Subset, FS_CardinalityType
<1>2. Cardinality(A \cup {x}) = Cardinality(A) \/ Cardinality(A \cup {x}) = Cardinality(A) + 1
  BY <1>1, FS_AddElement
<1> QED BY <1>1, <1>2, ScanConstants

(* A node out, a node in. *)
LEMMA NodeForNode ==
    ASSUME NEW B \in SUBSET Node, Cardinality(B) <= NumPages, NEW v \in B
    PROVE  Cardinality(B \ {v}) < NumPages
<1>1. IsFiniteSet(B) /\ Cardinality(B) \in Nat
  BY NodesAreFinite, FS_Subset, FS_CardinalityType
<1>2. Cardinality(B \ {v}) = Cardinality(B) - 1
  BY <1>1, FS_RemoveElement
<1> QED BY <1>1, <1>2, ScanConstants

(* A pool with room has a number left for one more borrowed key. *)
LEMMA FreeNumber ==
    ASSUME NEW m, Cardinality(cached(m)) < NumPages, NEW n \in PageNo
    PROVE  \E i \in Borrowed : m[<<n, i>>] = Null
<1> SUFFICES ASSUME \A i \in Borrowed : m[<<n, i>>] # Null
             PROVE  FALSE
  OBVIOUS
<1> DEFINE S == {n} \X Borrowed
<1>1. S \in SUBSET cached(m)
  BY DEF cached, Node
<1>2. IsFiniteSet(cached(m)) /\ Cardinality(cached(m)) \in Nat
  <2>1. cached(m) \in SUBSET Node
    BY DEF cached
  <2> QED BY <2>1, NodesAreFinite, FS_Subset, FS_CardinalityType
<1>3. Cardinality(S) = NumPages
  <2>1. IsFiniteSet({n}) /\ Cardinality({n}) = 1
    BY FS_Singleton
  <2>2. IsFiniteSet(Borrowed) /\ Cardinality(Borrowed) = NumPages
    BY FS_Interval, ScanConstants DEF Borrowed
  <2>3. Cardinality(S) = 1 * NumPages
    BY <2>1, <2>2, FS_Product
  <2> QED BY <2>3, ScanConstants
<1>4. Cardinality(S) <= Cardinality(cached(m))
  <2> HIDE DEF S
  <2> QED BY <1>1, <1>2, FS_Subset
<1> QED BY <1>2, <1>3, <1>4, ScanConstants

(* pages[pid] = page adds a node to a pool that has room and in which the  *)
(* page has no node of its own key.                                        *)
LEMMA NewNode ==
    ASSUME NEW m, Cardinality(cached(m)) < NumPages, NEW n \in PageNo,
           NEW kind \in {"own", "borrowed"}, kind = "own" => m[<<n, 0>>] = Null
    PROVE  /\ newNode(m, n, kind) \in Node
           /\ newNode(m, n, kind)[1] = n
           /\ m[newNode(m, n, kind)] = Null
<1>1. CASE kind = "own"
  <2>1. newNode(m, n, kind) = <<n, 0>>
    BY <1>1 DEF newNode
  <2> QED BY <1>1, <2>1 DEF Node
<1>2. CASE kind # "own"
  <2> DEFINE i == CHOOSE i \in Borrowed : m[<<n, i>>] = Null
  <2>1. i \in Borrowed /\ m[<<n, i>>] = Null
    BY FreeNumber
  <2>2. newNode(m, n, kind) = <<n, i>>
    BY <1>2 DEF newNode
  <2> HIDE DEF i
  <2> QED BY <2>1, <2>2 DEF Node
<1> QED BY <1>1, <1>2

-------------------------------------------------------------------------------
(* The pool.                                                               *)

(* A node of the pool and its page object. *)
LEMMA CachedObject ==
    ASSUME NEW m \in [Node -> Object \cup {Null}], NEW x \in cached(m)
    PROVE  x \in Node /\ x[1] \in PageNo /\ m[x] \in Object /\ m[x].used \in SUBSET Slot
BY DEF cached, Node, Object

(* A flush finds nodes of the pool. *)
LEMMA FoundNodes ==
    ASSUME NEW X, NEW t, NEW W \in flushPages(X, t)
    PROVE  W \subseteq cached(pool)
BY DEF flushPages, find

(* flushPage of any of the pool's nodes: a copy of a page in the file is   *)
(* replaced by another copy.                                               *)
LEMMA Flushed ==
    ASSUME TypeOK, Keeps(pool, disk), NEW W \in SUBSET cached(pool)
    PROVE  /\ Keeps(unmarked(W), written(W))
           /\ cached(unmarked(W)) = cached(pool)
           /\ \A x \in cached(pool) : unmarked(W)[x].used = pool[x].used
<1> DEFINE m == unmarked(W)
           d == written(W)
<1>1. ASSUME NEW x \in cached(pool)
      PROVE  m[x] \in Object /\ m[x] # Null /\ m[x].used = pool[x].used
  <2>1. x \in Node /\ pool[x] \in Object
    BY CachedObject DEF TypeOK
  <2>2. m[x] = IF x \in W THEN [pool[x] EXCEPT !.dirty = FALSE] ELSE pool[x]
    BY <2>1 DEF unmarked
  <2>3. [pool[x] EXCEPT !.dirty = FALSE] \in Object
        /\ [pool[x] EXCEPT !.dirty = FALSE].used = pool[x].used
    BY <2>1 DEF Object
  <2> HIDE DEF m
  <2> QED BY <2>1, <2>2, <2>3, NullIsNoObject
<1>2. ASSUME NEW x \in Node, x \notin cached(pool) PROVE m[x] = Null
  BY <1>2 DEF unmarked, cached
<1>3. m \in [Node -> Object \cup {Null}]
  <2>1. \A x \in Node : m[x] \in Object \cup {Null}
    <3> HIDE DEF m
    <3> QED BY <1>1, <1>2
  <2>2. m = [x \in Node |-> m[x]]
    BY DEF unmarked
  <2> HIDE DEF m
  <2> QED BY <2>1, <2>2
<1>4. cached(m) = cached(pool)
  <2> HIDE DEF m
  <2> QED BY <1>1, <1>2 DEF cached
<1>5. ASSUME NEW p \in PageNo
      PROVE  d[p] = disk[p] \/ \E x \in cached(pool) : x[1] = p /\ d[p] = pool[x].used
  <2>1. CASE \E x \in W : x[1] = p /\ pool[x].dirty
    <3> DEFINE x == CHOOSE x \in W : x[1] = p /\ pool[x].dirty
    <3>1. x \in W /\ x[1] = p
      BY <2>1
    <3>2. d[p] = pool[x].used
      BY <2>1 DEF written
    <3> HIDE DEF x
    <3> QED BY <3>1, <3>2
  <2>2. CASE ~ \E x \in W : x[1] = p /\ pool[x].dirty
    BY <2>2 DEF written
  <2> QED BY <2>1, <2>2
<1>6. d \in [PageNo -> SUBSET Slot]
  <2>1. \A p \in PageNo : d[p] \in SUBSET Slot
    <3> HIDE DEF d
    <3> QED BY <1>5, CachedObject DEF TypeOK
  <2>2. d = [p \in PageNo |-> d[p]]
    BY DEF written
  <2> HIDE DEF d
  <2> QED BY <2>1, <2>2
<1>7. ASSUME NEW r \in live
      PROVE  /\ r[2] \in d[r[1]]
             /\ \A x \in cached(m) : x[1] = r[1] => r[2] \in m[x].used
  <2>1. r[1] \in PageNo
    BY DEF TypeOK, Rows
  <2> HIDE DEF d, m
  <2> QED BY <1>1, <1>4, <1>5, <2>1 DEF Keeps
<1> HIDE DEF m, d
<1>8. Keeps(m, d)
  BY <1>3, <1>4, <1>6, <1>7 DEF Keeps
<1> QED BY <1>1, <1>4, <1>8 DEF m, d

(* BufferPool::evictPage: whatever the victim's key finds, only the victim *)
(* leaves the pool.                                                        *)
LEMMA Evicted ==
    ASSUME TypeOK, Keeps(pool, disk), NEW v \in cached(pool), NEW t, NEW e \in evictPage(v, t)
    PROVE  /\ Keeps(e.pool, e.disk)
           /\ cached(e.pool) = cached(pool) \ {v}
<1>1. PICK W \in flushPages({v}, t) :
          e = [pool |-> [unmarked(W) EXCEPT ![v] = Null], disk |-> written(W)]
  BY DEF evictPage
<1>2. W \in SUBSET cached(pool)
  BY FoundNodes
<1> DEFINE u == unmarked(W)
<1>3. Keeps(u, written(W)) /\ cached(u) = cached(pool)
  BY <1>2, Flushed
<1>4. e.pool = [u EXCEPT ![v] = Null] /\ e.disk = written(W)
  BY <1>1
<1> HIDE DEF u
<1>5. u \in [Node -> Object \cup {Null}] /\ v \in Node
  BY <1>3 DEF Keeps, cached
<1>6. e.pool \in [Node -> Object \cup {Null}]
  BY <1>4, <1>5
<1>7. cached(e.pool) = cached(u) \ {v}
  BY <1>4, <1>5 DEF cached
<1>8. Cardinality(cached(e.pool)) <= NumPages
  <2>1. cached(u) \in SUBSET Node /\ Cardinality(cached(u)) <= NumPages
    BY <1>3 DEF Keeps, cached
  <2> QED BY <1>7, <2>1, FewerNodes
<1>9. \A x \in cached(e.pool) : x \in cached(u) /\ e.pool[x] = u[x]
  BY <1>4, <1>5, <1>7 DEF cached
<1>10. Keeps(e.pool, e.disk)
  BY <1>3, <1>4, <1>6, <1>8, <1>9 DEF Keeps
<1> QED BY <1>3, <1>7, <1>10

(* A page that find() does not find has no node of its own key. *)
LEMMA OwnKeyIsFound ==
    ASSUME NEW n \in PageNo, NEW t, find(n, t) = {}, NEW m, cached(m) \subseteq cached(pool)
    PROVE  m[<<n, 0>>] = Null
<1> DEFINE x == <<n, 0>>
<1>1. x \in Node /\ x[1] = n /\ owned(x)
  BY DEF Node, owned
<1>2. x \in cached(pool) => x \in find(n, t)
  BY <1>1 DEF find, keyOf
<1> QED BY <1>1, <1>2 DEF cached

(* BufferPool::getPage: the page is one of the pool's nodes, or it comes   *)
(* in from the file once there is room.                                    *)
LEMMA Got ==
    ASSUME TypeOK, Keeps(pool, disk), NEW n \in PageNo, NEW kind \in {"own", "borrowed"},
           NEW g \in getPage(n, kind)
    PROVE  /\ Keeps(g.pool, g.disk)
           /\ g.node \in cached(g.pool) /\ g.node[1] = n
<1>1. PICK t \in Targets : g \in getPageOn(n, kind, t)
  BY DEF getPage
<1>2. CASE find(n, t) # {}
  <2>1. PICK x \in find(n, t) : g = [pool |-> pool, disk |-> disk, node |-> x]
    BY <1>1, <1>2 DEF getPageOn
  <2>2. g.pool = pool /\ g.disk = disk /\ g.node = x
    BY <2>1
  <2> QED BY <2>1, <2>2 DEF find
<1>3. CASE find(n, t) = {}
  <2>1. PICK e \in room(t) :
            LET x == newNode(e.pool, n, kind)
            IN  g = [pool |-> [e.pool EXCEPT ![x] = [used |-> e.disk[n], dirty |-> FALSE]],
                     disk |-> e.disk, node |-> x]
    BY <1>1, <1>3 DEF getPageOn
  <2> DEFINE y == newNode(e.pool, n, kind)
             o == [used |-> e.disk[n], dirty |-> FALSE]
  <2>2. g.pool = [e.pool EXCEPT ![y] = o] /\ g.disk = e.disk /\ g.node = y
    BY <2>1
  <2>3. /\ Keeps(e.pool, e.disk) /\ Cardinality(cached(e.pool)) < NumPages
        /\ cached(e.pool) \subseteq cached(pool)
    <3>1. CASE Cardinality(cached(pool)) < NumPages
      <4>1. e = [pool |-> pool, disk |-> disk]
        BY <3>1 DEF room
      <4> QED BY <3>1, <4>1
    <3>2. CASE ~ (Cardinality(cached(pool)) < NumPages)
      <4>1. PICK v \in cached(pool) : e \in evictPage(v, t)
        BY <3>2 DEF room
      <4>2. Keeps(e.pool, e.disk) /\ cached(e.pool) = cached(pool) \ {v}
        BY <4>1, Evicted
      <4>3. cached(pool) \in SUBSET Node /\ Cardinality(cached(pool)) <= NumPages
        BY DEF Keeps, cached
      <4> QED BY <4>2, <4>3, NodeForNode
    <3> QED BY <3>1, <3>2
  <2>4. y \in Node /\ y[1] = n
    <3>1. e.pool[<<n, 0>>] = Null
      BY <1>3, <2>3, OwnKeyIsFound
    <3> QED BY <2>3, <3>1, NewNode
  <2>5. o \in Object /\ o # Null /\ o.used = e.disk[n]
    <3>1. e.disk[n] \in SUBSET Slot
      BY <2>3 DEF Keeps
    <3>2. o \in Object
      BY <3>1 DEF Object
    <3> QED BY <3>2, NullIsNoObject
  <2> HIDE DEF y, o
  <2>6. e.pool \in [Node -> Object \cup {Null}]
    BY <2>3 DEF Keeps
  <2>7. g.pool \in [Node -> Object \cup {Null}] /\ g.pool[y] = o
    BY <2>2, <2>4, <2>5, <2>6
  <2>8. cached(g.pool) = cached(e.pool) \cup {y}
    BY <2>2, <2>4, <2>5, <2>6, <2>7 DEF cached
  <2>9. Cardinality(cached(g.pool)) <= NumPages
    <3>1. cached(e.pool) \in SUBSET Node
      BY DEF cached
    <3> QED BY <2>3, <2>8, <3>1, OneMoreNode
  <2>10. \A x \in cached(g.pool) : x = y \/ (x \in cached(e.pool) /\ g.pool[x] = e.pool[x])
    BY <2>2, <2>6, <2>8 DEF cached
  <2>11. Keeps(g.pool, g.disk)
    <3>1. ASSUME NEW r \in live
          PROVE  /\ r[2] \in g.disk[r[1]]
                 /\ \A x \in cached(g.pool) : x[1] = r[1] => r[2] \in g.pool[x].used
      BY <2>2, <2>3, <2>4, <2>5, <2>7, <2>10 DEF Keeps
    <3> QED BY <2>2, <2>3, <2>7, <2>9, <3>1 DEF Keeps
  <2> QED BY <2>2, <2>4, <2>8, <2>11
<1> QED BY <1>2, <1>3

-------------------------------------------------------------------------------
(* Every step keeps the invariant.                                         *)

(* A live row is a position of the file. *)
LEMMA LiveRow ==
    ASSUME TypeOK, NEW r \in live
    PROVE  r \in Rows /\ r = <<r[1], r[2]>> /\ r[1] \in PageNo /\ r[2] \in Slot
           /\ r[1] \in Nat /\ r[2] \in Nat /\ r[1] < FilePages /\ r[2] < NumSlots
BY ScanConstants DEF TypeOK, Rows, PageNo, Slot

(* Before the scan begins. *)
LEMMA InitInv == Init => Inv
<1> SUFFICES ASSUME Init PROVE Inv
  OBVIOUS
<1>1. /\ pool = [x \in Node |-> Null] /\ disk \in [PageNo -> SUBSET Slot]
      /\ live = { r \in Rows : r[2] \in disk[r[1]] } /\ seen = live
      /\ it = [hpid |-> FilePages, slot |-> NumSlots, end |-> TRUE,
               page |-> Null, dropped |-> {}]
  BY DEF Init
<1>2. it \in Iterator
  <2>1. FilePages \in 0 .. FilePages /\ NumSlots \in 0 .. NumSlots + 1
    BY ScanConstants
  <2> QED BY <1>1, <2>1 DEF Iterator
<1>3. it.hpid = FilePages /\ it.page = Null
  BY <1>1
<1>4. it.end
  BY <1>1
<1>5. TypeOK
  BY <1>1, <1>2 DEF TypeOK
<1>6. cached(pool) = {}
  BY <1>1 DEF cached
<1>7. Keeps(pool, disk)
  <2>1. Cardinality(cached(pool)) <= NumPages
    BY <1>6, FS_EmptySet, ScanConstants
  <2> QED BY <1>1, <1>5, <1>6, <2>1 DEF Keeps, TypeOK
<1>8. IteratorInPlace /\ ViewIsComplete /\ PassedRowsAreSeen
  BY <1>1, <1>3, <1>4 DEF IteratorInPlace, ViewIsComplete, PassedRowsAreSeen
<1> QED BY <1>5, <1>7, <1>8 DEF Inv

(* The iterator goes to the start of page n, whose object is in the pool:  *)
(* begin(), and operator++ at the end of a page.                           *)
LEMMA PageBegun ==
    ASSUME TypeOK, NEW n \in PageNo, Keeps(pool', disk'), NEW x \in cached(pool'), x[1] = n,
           it' = pageBegin(n, x, pool'), live' = live, seen' \in SUBSET Rows,
           \A r \in live : r[1] < n => r \in seen'
    PROVE  Inv'
<1> DEFINE s == nextUsed(pool'[x].used, 0)
<1>1. pool' \in [Node -> Object \cup {Null}]
  BY DEF Keeps
<1>2. x \in Node /\ pool'[x].used \in SUBSET Slot /\ x # Null
  BY <1>1, CachedObject, NullIsNoNode
<1>3. s \in 0 .. NumSlots /\ \A y \in pool'[x].used : y >= 0 => s <= y
  BY <1>2, NextUsed
<1>4. it' = [hpid |-> n, slot |-> s, end |-> FALSE, page |-> x, dropped |-> {}]
  BY DEF pageBegin
<1> HIDE DEF s
<1>5. n \in 0 .. FilePages /\ n < FilePages /\ s \in 0 .. NumSlots + 1
  BY <1>3, ScanConstants DEF PageNo
<1>6. it' \in Iterator
  BY <1>2, <1>4, <1>5 DEF Iterator
<1>7. it'.hpid = n /\ it'.slot = s /\ it'.page = x
  BY <1>4
<1>8. ~ it'.end
  BY <1>4
<1>9. TypeOK'
  BY <1>6 DEF TypeOK, Keeps
<1>10. Keeps(pool, disk)'
  BY DEF Keeps, cached
<1>11. IteratorInPlace'
  BY <1>5, <1>7, <1>8 DEF IteratorInPlace, cached
<1>12. view' = pool'[x].used
  BY <1>2, <1>7 DEF view
<1>13. \A r \in live : r[1] = n => r[2] \in pool'[x].used
  BY DEF Keeps
<1>14. ViewIsComplete'
  BY <1>7, <1>12, <1>13 DEF ViewIsComplete
<1>15. ASSUME NEW r \in live, passed(r)' PROVE r \in seen'
  <2>1. r[1] \in Nat /\ r[2] \in Nat
    BY LiveRow
  <2>2. CASE r[1] < n
    BY <2>2
  <2>3. CASE r[1] = n /\ r[2] < s
    BY <1>3, <1>13, <2>1, <2>3
  <2> QED BY <1>7, <1>15, <2>2, <2>3 DEF passed
<1>16. PassedRowsAreSeen'
  BY <1>15 DEF PassedRowsAreSeen
<1> QED BY <1>9, <1>10, <1>11, <1>14, <1>16 DEF Inv

(* HeapFile::begin. *)
LEMMA BeginStep ==
    ASSUME Inv, Begin
    PROVE  Inv'
<1>1. 0 \in PageNo
  BY ScanConstants DEF PageNo
<1>2. PICK g \in getPage(0, "own") :
          pool' = g.pool /\ disk' = g.disk /\ it' = pageBegin(0, g.node, g.pool)
  BY DEF Begin
<1>3. Keeps(g.pool, g.disk) /\ g.node \in cached(g.pool) /\ g.node[1] = 0
  BY <1>1, Got DEF Inv
<1>4. \A r \in live : ~ (r[1] < 0)
  BY LiveRow DEF Inv
<1>5. TypeOK /\ seen' \in SUBSET Rows /\ live' = live
  BY DEF Begin, Inv
<1> QED BY <1>1, <1>2, <1>3, <1>4, <1>5, PageBegun

(* HeapFileIterator::operator++. *)
LEMMA AdvanceStep ==
    ASSUME Inv, Advance
    PROVE  Inv'
<1>1. TypeOK /\ it \in Iterator /\ ~ it.end /\ live' = live /\ seen' = seen \cup current
  BY DEF Inv, TypeOK, Advance
<1>2. /\ it.hpid \in Nat /\ it.hpid < FilePages /\ it.slot \in Nat /\ it.slot <= NumSlots + 1
      /\ FilePages \in Nat /\ NumSlots \in Nat
  BY <1>1, ScanConstants DEF Inv, IteratorInPlace, Iterator
<1>3. seen' \in SUBSET Rows
  BY <1>1 DEF current, TypeOK
<1>4. view \in SUBSET Slot
  BY <1>1, CachedObject DEF view, Inv, TypeOK, IteratorInPlace, Iterator
<1>5. ASSUME NEW r \in live,
             r[1] < it.hpid \/ (r[1] = it.hpid /\ (r[2] < slotAfter \/ slotAfter = NumSlots))
      PROVE  r \in seen'
  <2>1. /\ r \in Rows /\ r = <<r[1], r[2]>> /\ r[1] \in Nat /\ r[2] \in Nat
        /\ r[2] < NumSlots
    BY <1>1, LiveRow
  <2>2. CASE passed(r)
    BY <1>1, <2>2 DEF Inv, PassedRowsAreSeen
  <2>3. CASE r[1] = it.hpid /\ r[2] = it.slot
    BY <1>1, <2>1, <2>3 DEF current
  <2>4. CASE r[1] = it.hpid /\ r[2] > it.slot
    <3>1. r[2] \in view
      BY <1>1, <2>4 DEF Inv, ViewIsComplete
    <3>2. slotAfter = nextUsed(view, it.slot + 1)
      BY <1>2, <2>1, <2>4 DEF slotAfter
    <3>3. it.slot + 1 \in Nat /\ r[2] >= it.slot + 1
      BY <1>2, <2>1, <2>4
    <3>4. slotAfter <= r[2] /\ slotAfter \in 0 .. NumSlots
      BY <1>4, <3>1, <3>2, <3>3, NextUsed
    <3> QED BY <1>2, <1>5, <2>1, <2>4, <3>4
  <2> QED BY <1>2, <1>5, <2>1, <2>2, <2>3, <2>4 DEF passed
<1>6. slotAfter \in 0 .. NumSlots + 1
  <2>1. CASE it.slot >= NumSlots
    BY <1>2, <2>1 DEF slotAfter
  <2>2. CASE ~ (it.slot >= NumSlots)
    <3>1. nextUsed(view, it.slot + 1) \in 0 .. NumSlots
      BY <1>2, <1>4, NextUsed
    <3> QED BY <1>2, <2>2, <3>1 DEF slotAfter
  <2> QED BY <2>1, <2>2
<1>7. CASE /\ slotAfter # NumSlots
           /\ it' = [it EXCEPT !.slot = slotAfter]
           /\ UNCHANGED <<pool, disk>>
  <2>1. /\ it' \in Iterator /\ it'.hpid = it.hpid /\ it'.slot = slotAfter
        /\ it'.page = it.page /\ it'.dropped = it.dropped
    BY <1>1, <1>6, <1>7 DEF Iterator
  <2>2. it'.end = it.end
    BY <1>1, <1>7 DEF Iterator
  <2>3. TypeOK'
    BY <1>1, <1>3, <1>7, <2>1 DEF TypeOK
  <2>4. Keeps(pool, disk)'
    BY <1>1, <1>7 DEF Inv, Keeps, cached
  <2>5. IteratorInPlace'
    BY <1>7, <2>1, <2>2 DEF Inv, IteratorInPlace, cached
  <2>6. ViewIsComplete'
    BY <1>1, <1>7, <2>1, <2>2 DEF Inv, ViewIsComplete, view
  <2>7. PassedRowsAreSeen'
    BY <1>1, <1>5, <2>1 DEF PassedRowsAreSeen, passed
  <2> QED BY <2>3, <2>4, <2>5, <2>6, <2>7 DEF Inv
<1>8. CASE /\ slotAfter = NumSlots /\ lastPage
           /\ it' = [it EXCEPT !.hpid = FilePages, !.end = TRUE, !.slot = NumSlots]
           /\ UNCHANGED <<pool, disk>>
  <2>1. FilePages \in 0 .. FilePages /\ NumSlots \in 0 .. NumSlots + 1
    BY <1>2
  <2>2. it' \in Iterator /\ it'.hpid = FilePages /\ it'.slot = NumSlots /\ it'.page = it.page
    BY <1>1, <1>8, <2>1 DEF Iterator
  <2>3. it'.end
    BY <1>1, <1>8 DEF Iterator
  <2>4. TypeOK'
    BY <1>1, <1>3, <1>8, <2>2 DEF TypeOK
  <2>5. Keeps(pool, disk)'
    BY <1>1, <1>8 DEF Inv, Keeps, cached
  <2>6. IteratorInPlace' /\ ViewIsComplete'
    BY <1>8, <2>2, <2>3 DEF Inv, IteratorInPlace, ViewIsComplete, cached
  <2>7. ASSUME NEW r \in live PROVE r \in seen'
    <3>1. r[1] \in Nat /\ r[1] < FilePages
      BY <1>1, LiveRow
    <3>2. it.hpid + 1 >= FilePages
      BY <1>8 DEF lastPage
    <3> QED BY <1>2, <1>5, <1>8, <3>1, <3>2
  <2>8. PassedRowsAreSeen'
    BY <1>1, <2>7 DEF PassedRowsAreSeen
  <2> QED BY <2>4, <2>5, <2>6, <2>8 DEF Inv
<1>9. CASE /\ slotAfter = NumSlots /\ ~ lastPage
           /\ \E g \in getPage(it.hpid + 1, "borrowed") :
                pool' = g.pool /\ disk' = g.disk /\ it' = pageBegin(it.hpid + 1, g.node, g.pool)
  <2> DEFINE n == it.hpid + 1
  <2>1. n \in PageNo /\ n \in Nat
    BY <1>2, <1>9 DEF lastPage, PageNo
  <2>2. PICK g \in getPage(n, "borrowed") :
            pool' = g.pool /\ disk' = g.disk /\ it' = pageBegin(n, g.node, g.pool)
    BY <1>9
  <2>3. ASSUME NEW r \in live, r[1] < n PROVE r \in seen'
    <3>1. r[1] \in Nat
      BY <1>1, LiveRow
    <3> QED BY <1>2, <1>5, <1>9, <2>3, <3>1
  <2> HIDE DEF n
  <2>4. Keeps(g.pool, g.disk) /\ g.node \in cached(g.pool) /\ g.node[1] = n
    BY <2>1, Got DEF Inv
  <2> QED BY <1>1, <1>3, <2>1, <2>2, <2>3, <2>4, PageBegun
<1> QED BY <1>7, <1>8, <1>9 DEF Advance

(* The pool changes to m and then, within its nodes, to what it is next:   *)
(* the iterator goes on with its object, in the pool or dropped from it.   *)
LEMMA Held ==
    ASSUME Inv, NEW m, NEW d, Keeps(m, d), it' = holding(m), Keeps(pool, disk)',
           cached(pool') = cached(m), live' \subseteq live, seen' = seen
    PROVE  Inv'
<1>1. it \in Iterator /\ m \in [Node -> Object \cup {Null}]
  BY DEF Inv, TypeOK, Keeps
<1>2. CASE it.page # Null /\ m[it.page] = Null
  <2>1. it' = [it EXCEPT !.page = Null, !.dropped = pool[it.page].used]
    BY <1>2 DEF holding
  <2>2. pool[it.page].used \in SUBSET Slot
    BY <1>2, CachedObject DEF Inv, TypeOK, IteratorInPlace
  <2>3. /\ it' \in Iterator /\ it'.hpid = it.hpid /\ it'.slot = it.slot
        /\ it'.page = Null /\ it'.dropped = pool[it.page].used
    BY <1>1, <2>1, <2>2 DEF Iterator
  <2>4. it'.end = it.end
    BY <1>1, <2>1 DEF Iterator
  <2>5. TypeOK'
    BY <2>3 DEF Inv, TypeOK, Keeps
  <2>6. IteratorInPlace'
    BY <2>3, <2>4 DEF Inv, IteratorInPlace
  <2>7. view' = view
    BY <1>2, <2>3 DEF view
  <2>8. ViewIsComplete'
    BY <2>3, <2>4, <2>7 DEF Inv, ViewIsComplete
  <2>9. PassedRowsAreSeen'
    BY <2>3 DEF Inv, PassedRowsAreSeen, passed
  <2> QED BY <2>5, <2>6, <2>8, <2>9 DEF Inv
<1>3. CASE ~ (it.page # Null /\ m[it.page] = Null)
  <2>1. it' = it
    BY <1>3 DEF holding
  <2>2. TypeOK'
    BY <2>1 DEF Inv, TypeOK, Keeps
  <2>3. IteratorInPlace'
    <3>1. it.page # Null => it.page \in cached(pool')
      BY <1>1, <1>3 DEF cached, Inv, IteratorInPlace
    <3> QED BY <2>1, <3>1 DEF Inv, IteratorInPlace, cached
  <2>4. ViewIsComplete'
    <3>1. CASE it.page = Null
      BY <2>1, <3>1 DEF Inv, ViewIsComplete, view
    <3>2. CASE it.page # Null
      <4>1. ASSUME NEW r \in live', ~ it.end, r[1] = it.hpid PROVE r[2] \in pool'[it.page].used
        BY <2>1, <2>3, <3>2, <4>1 DEF Keeps, IteratorInPlace
      <4> QED BY <2>1, <3>2, <4>1 DEF ViewIsComplete, view
    <3> QED BY <3>1, <3>2
  <2>5. PassedRowsAreSeen'
    BY <2>1 DEF Inv, PassedRowsAreSeen, passed
  <2> QED BY <2>2, <2>3, <2>4, <2>5 DEF Inv
<1> QED BY <1>2, <1>3

(* HeapFile::deleteTuple: the row goes from one copy of its page, and      *)
(* others may still have it.                                               *)
LEMMA DeleteTupleStep ==
    ASSUME Inv, NEW r \in Rows, DeleteTuple(r)
    PROVE  Inv'
<1>1. PICK g \in getPage(r[1], "own") :
        /\ disk' = g.disk
        /\ it' = holding(g.pool)
        /\ \/ /\ r[2] \in g.pool[g.node].used
              /\ pool' = [g.pool EXCEPT ![g.node] =
                             [used |-> g.pool[g.node].used \ {r[2]}, dirty |-> TRUE]]
              /\ live' = live \ {r}
           \/ pool' = g.pool /\ live' = live
  BY DEF DeleteTuple
<1>2. r[1] \in PageNo /\ r = <<r[1], r[2]>>
  BY DEF Rows
<1>3. Keeps(g.pool, g.disk) /\ g.node \in cached(g.pool) /\ g.node[1] = r[1]
  BY <1>2, Got DEF Inv
<1>4. seen' = seen
  BY DEF DeleteTuple
<1>5. CASE pool' = g.pool /\ live' = live
  <2>1. Keeps(pool, disk)' /\ cached(pool') = cached(g.pool)
    BY <1>1, <1>3, <1>5 DEF Keeps, cached
  <2> QED BY <1>1, <1>3, <1>4, <1>5, <2>1, Held
<1>6. CASE /\ pool' = [g.pool EXCEPT ![g.node] =
                             [used |-> g.pool[g.node].used \ {r[2]}, dirty |-> TRUE]]
           /\ live' = live \ {r}
  <2> DEFINE o == [used |-> g.pool[g.node].used \ {r[2]}, dirty |-> TRUE]
  <2>1. g.pool \in [Node -> Object \cup {Null}] /\ g.node \in Node
        /\ g.pool[g.node].used \in SUBSET Slot
    BY <1>3, CachedObject DEF Keeps
  <2>2. o \in Object /\ o # Null /\ o.used = g.pool[g.node].used \ {r[2]}
    <3>1. o \in Object
      BY <2>1 DEF Object
    <3> QED BY <3>1, NullIsNoObject
  <2> HIDE DEF o
  <2>3. pool' = [g.pool EXCEPT ![g.node] = o]
    BY <1>6 DEF o
  <2>4. pool' \in [Node -> Object \cup {Null}] /\ pool'[g.node] = o
    BY <2>1, <2>2, <2>3
  <2>5. cached(pool') = cached(g.pool)
    BY <1>3, <2>1, <2>2, <2>3, <2>4 DEF cached
  <2>6. ASSUME NEW q \in live'
        PROVE  /\ q[2] \in disk'[q[1]]
               /\ \A x \in cached(pool') : x[1] = q[1] => q[2] \in pool'[x].used
    <3>1. q \in live /\ q # r
      BY <1>6
    <3>2. q = <<q[1], q[2]>>
      BY <3>1, LiveRow DEF Inv
    <3>3. q[1] = r[1] => q[2] # r[2]
      BY <1>2, <3>1, <3>2
    <3>4. q[2] \in disk'[q[1]]
      BY <1>1, <1>3, <3>1 DEF Keeps
    <3>5. ASSUME NEW x \in cached(pool'), x[1] = q[1] PROVE q[2] \in pool'[x].used
      <4>1. q[2] \in g.pool[x].used /\ x \in Node
        BY <1>3, <2>5, <3>1, <3>5 DEF Keeps, cached
      <4>2. CASE x = g.node
        BY <1>3, <2>2, <2>4, <3>3, <3>5, <4>1, <4>2
      <4>3. CASE x # g.node
        BY <2>1, <2>3, <4>1, <4>3
      <4> QED BY <4>2, <4>3
    <3> QED BY <3>4, <3>5
  <2>7. Keeps(pool, disk)'
    BY <1>1, <1>3, <2>4, <2>5, <2>6 DEF Keeps, cached
  <2>8. live' \subseteq live
    BY <1>6
  <2> QED BY <1>1, <1>3, <1>4, <2>5, <2>7, <2>8, Held
<1> QED BY <1>1, <1>5, <1>6

(* BufferPool::getPage for another client. *)
LEMMA GetPageStep ==
    ASSUME Inv, NEW p \in PageNo, GetPage(p)
    PROVE  Inv'
<1>1. PICK g \in getPage(p, "own") :
          pool' = g.pool /\ disk' = g.disk /\ it' = holding(g.pool)
  BY DEF GetPage
<1>2. live' = live /\ seen' = seen
  BY DEF GetPage
<1>3. Keeps(g.pool, g.disk)
  BY Got DEF Inv
<1>4. Keeps(pool, disk)' /\ cached(pool') = cached(g.pool)
  BY <1>1, <1>2, <1>3 DEF Keeps, cached
<1> QED BY <1>1, <1>2, <1>3, <1>4, Held

(* BufferPool::evictPage. *)
LEMMA EvictPageStep ==
    ASSUME Inv, EvictPage
    PROVE  Inv'
<1>1. PICK t \in Targets, v \in cached(pool) : \E e \in evictPage(v, t) :
          pool' = e.pool /\ disk' = e.disk /\ it' = holding(e.pool)
  BY DEF EvictPage
<1>2. PICK e \in evictPage(v, t) : pool' = e.pool /\ disk' = e.disk /\ it' = holding(e.pool)
  BY <1>1
<1>3. live' = live /\ seen' = seen
  BY DEF EvictPage
<1>4. Keeps(e.pool, e.disk)
  BY Evicted DEF Inv
<1>5. Keeps(pool, disk)' /\ cached(pool') = cached(e.pool)
  BY <1>2, <1>3, <1>4 DEF Keeps, cached
<1> QED BY <1>2, <1>3, <1>4, <1>5, Held

(* BufferPool::flushAllPages. *)
LEMMA FlushAllPagesStep ==
    ASSUME Inv, FlushAllPages
    PROVE  Inv'
<1>1. PICK t \in Targets : \E W \in flushPages(cached(pool), t) :
          pool' = unmarked(W) /\ disk' = written(W)
  BY DEF FlushAllPages
<1>2. PICK W \in flushPages(cached(pool), t) : pool' = unmarked(W) /\ disk' = written(W)
  BY <1>1
<1>3. it' = it /\ live' = live /\ seen' = seen
  BY DEF FlushAllPages
<1>4. /\ Keeps(unmarked(W), written(W))
      /\ cached(unmarked(W)) = cached(pool)
  <2>1. W \in SUBSET cached(pool)
    BY FoundNodes
  <2> QED BY <2>1, Flushed DEF Inv
<1>5. Keeps(pool, disk)' /\ cached(pool') = cached(pool)
  BY <1>2, <1>3, <1>4 DEF Keeps, cached
<1>6. it' = holding(pool)
  BY <1>3 DEF holding, Inv, IteratorInPlace, cached
<1> QED BY <1>3, <1>5, <1>6, Held DEF Inv

(* Every step keeps the invariant: one lemma for each operation. *)
LEMMA NextInv == Inv /\ [Next]_vars => Inv'
<1> SUFFICES ASSUME Inv, [Next]_vars PROVE Inv'
  OBVIOUS
<1>1. CASE UNCHANGED vars
  BY <1>1 DEF vars, Inv, TypeOK, Keeps, cached, IteratorInPlace, ViewIsComplete, view,
              PassedRowsAreSeen, passed
<1>2. CASE Next
  BY <1>2, BeginStep, AdvanceStep, DeleteTupleStep, GetPageStep, EvictPageStep,
     FlushAllPagesStep DEF Next
<1> QED BY <1>1, <1>2

-------------------------------------------------------------------------------
(* The theorems.                                                           *)

(* Inv holds however the scan, deletions, evictions and flushes mix. *)
THEOREM ScanInvariant == Spec => []Inv
BY InitInv, NextInv, PTL DEF Spec

(* The iterator's fields, and the pool and the file under it, keep their   *)
(* types.                                                                  *)
THEOREM ScanTypes == Spec => []TypeOK
<1>1. Inv => TypeOK
  BY DEF Inv
<1> QED BY <1>1, ScanInvariant, PTL

(* BufferPool::getPage evicts before it inserts, so that the nodes of the  *)
(* map, also the ones that no page id finds, are at most numPages.         *)
THEOREM ScanCapacity == Spec => []WithinCapacity
<1>1. Inv => WithinCapacity
  BY DEF Inv, Keeps, WithinCapacity
<1> QED BY <1>1, ScanInvariant, PTL

(* A HeapFileIterator that has come to end() has returned every row that   *)
(* nobody deleted, although its page may be in the pool many times, or not *)
(* at all, and the file may hold deleted rows again.                       *)
THEOREM ScanCompleteness == Spec => []ScanReturnsEveryRow
<1>1. Inv => ScanReturnsEveryRow
  <2> SUFFICES ASSUME Inv, it.end, NEW r \in live PROVE r \in seen
    BY DEF ScanReturnsEveryRow
  <2>1. r[1] < FilePages
    BY LiveRow DEF Inv
  <2>2. passed(r)
    BY <2>1 DEF passed, Inv, IteratorInPlace
  <2> QED BY <2>2 DEF Inv, PassedRowsAreSeen
<1> QED BY <1>1, ScanInvariant, PTL

-------------------------------------------------------------------------------
(* Pages that only own keys lead to.                                       *)

(* Node x holds a changed page that no borrowed key leads to. *)
Owned(x) == /\ x \in cached(pool) /\ pool[x].dirty
            /\ \A i \in Borrowed : pool[<<x[1], i>>] = Null

(* evictPage finds the victim by its own key, and writes it. *)
LEMMA OwnedVictim ==
    ASSUME Inv, NEW x, Owned(x), NEW t, NEW v \in cached(pool), NEW e \in evictPage(v, t),
           e.pool[x] = Null
    PROVE  e.disk[x[1]] = pool[x].used
<1>1. x \in cached(pool) /\ x \in Node /\ x[1] \in PageNo /\ pool[x].dirty
  BY CachedObject DEF Owned, Inv, TypeOK
<1>2. x = v
  <2>1. cached(e.pool) = cached(pool) \ {v}
    BY Evicted DEF Inv
  <2> QED BY <1>1, <2>1 DEF cached
<1>3. owned(x) /\ x = <<x[1], 0>>
  <2>1. x = <<x[1], x[2]>> /\ x[2] \in {0} \cup Borrowed
    BY <1>1 DEF Node
  <2>2. x[2] \notin Borrowed
    BY <1>1, <2>1 DEF Owned, cached
  <2>3. x[2] = 0
    BY <2>1, <2>2
  <2> QED BY <2>1, <2>3 DEF owned
<1>4. find(x[1], t) = {x}
  <2>1. x \in find(x[1], t)
    BY <1>1, <1>3 DEF find, keyOf
  <2>2. ASSUME NEW y \in find(x[1], t) PROVE y = x
    <3>1. y \in Node /\ y[1] = x[1] /\ pool[y] # Null
      BY DEF find, cached
    <3>2. y[2] \notin Borrowed
      BY <3>1 DEF Owned, Node
    <3> QED BY <1>3, <3>1, <3>2 DEF Node
  <2> QED BY <2>1, <2>2
<1>5. PICK W \in flushPages({x}, t) :
          e = [pool |-> [unmarked(W) EXCEPT ![v] = Null], disk |-> written(W)]
  BY <1>2 DEF evictPage
<1>6. W = {x}
  <2> DEFINE pn == { keyOf(y, t) : y \in {x} }
  <2>1. pn = {x[1]}
    BY <1>3 DEF keyOf
  <2>2. W \subseteq UNION { find(n, t) : n \in pn }
        /\ \A n \in pn : find(n, t) # {} => Cardinality(W \cap find(n, t)) = 1
    BY DEF flushPages
  <2>3. W \subseteq {x} /\ Cardinality(W \cap {x}) = 1
    <3> HIDE DEF pn
    <3> QED BY <1>4, <2>1, <2>2
  <2>4. CASE W = {}
    <3>1. W \cap {x} = {}
      BY <2>4
    <3>2. Cardinality({}) = 0
      BY FS_EmptySet
    <3> QED BY <2>3, <3>1, <3>2
  <2> QED BY <2>3, <2>4
<1>7. written(W)[x[1]] = pool[x].used
  <2>1. \E y \in W : y[1] = x[1] /\ pool[y].dirty
    BY <1>1, <1>6
  <2>2. (CHOOSE y \in W : y[1] = x[1] /\ pool[y].dirty) = x
    BY <1>6, <2>1
  <2> QED BY <1>1, <2>1, <2>2 DEF written
<1> QED BY <1>5, <1>7

(* The same for the eviction in getPage. *)
LEMMA OwnedEvictee ==
    ASSUME Inv, NEW x, Owned(x), NEW n \in PageNo, NEW kind \in {"own", "borrowed"},
           NEW g \in getPage(n, kind), g.pool[x] = Null
    PROVE  g.disk[x[1]] = pool[x].used
<1>1. x \in Node /\ pool[x] # Null
  BY DEF Owned, cached
<1>2. PICK t \in Targets : g \in getPageOn(n, kind, t)
  BY DEF getPage
<1>3. find(n, t) = {}
  <2> SUFFICES ASSUME find(n, t) # {} PROVE FALSE
    OBVIOUS
  <2>1. PICK y \in find(n, t) : g = [pool |-> pool, disk |-> disk, node |-> y]
    BY <1>2 DEF getPageOn
  <2> QED BY <1>1, <2>1
<1>4. PICK e \in room(t) :
          LET z == newNode(e.pool, n, kind)
          IN  g = [pool |-> [e.pool EXCEPT ![z] = [used |-> e.disk[n], dirty |-> FALSE]],
                   disk |-> e.disk, node |-> z]
  BY <1>2, <1>3 DEF getPageOn
<1> DEFINE y == newNode(e.pool, n, kind)
           o == [used |-> e.disk[n], dirty |-> FALSE]
<1>5. g.pool = [e.pool EXCEPT ![y] = o] /\ g.disk = e.disk /\ g.node = y
  BY <1>4
<1>6. g.node \in cached(g.pool)
  BY Got DEF Inv
<1> HIDE DEF y, o
<1>7. x # y
  BY <1>5, <1>6 DEF cached
<1>8. CASE Cardinality(cached(pool)) < NumPages
  <2>1. e = [pool |-> pool, disk |-> disk]
    BY <1>8 DEF room
  <2>2. g.pool[x] = pool[x]
    BY <1>1, <1>5, <1>7, <2>1 DEF Inv, TypeOK
  <2> QED BY <1>1, <2>2
<1>9. CASE ~ (Cardinality(cached(pool)) < NumPages)
  <2>1. PICK v \in cached(pool) : e \in evictPage(v, t)
    BY <1>9 DEF room
  <2>2. e.pool \in [Node -> Object \cup {Null}]
    BY <2>1, Evicted DEF Inv, Keeps
  <2>3. e.pool[x] = Null
    BY <1>1, <1>5, <1>7, <2>2
  <2> QED BY <1>5, <2>1, <2>3, OwnedVictim
<1> QED BY <1>8, <1>9

(* No step takes a changed page out of the pool without writing it, if     *)
(* only own keys lead to it.                                               *)
LEMMA OwnedStep ==
    ASSUME Inv, Next, NEW x, Owned(x), pool'[x] = Null
    PROVE  disk'[x[1]] = pool[x].used
<1>1. x \in Node /\ pool[x] # Null
  BY DEF Owned, cached
<1>2. CASE Begin
  <2>1. 0 \in PageNo
    BY ScanConstants DEF PageNo
  <2> QED BY <1>2, <2>1, OwnedEvictee DEF Begin
<1>3. CASE Advance
  <2>1. PICK g \in getPage(it.hpid + 1, "borrowed") : pool' = g.pool /\ disk' = g.disk
    BY <1>1, <1>3 DEF Advance
  <2>2. it.hpid + 1 \in PageNo
    <3>1. ~ lastPage
      BY <1>1, <1>3 DEF Advance
    <3> QED BY <3>1, ScanConstants DEF lastPage, PageNo, Inv, TypeOK, Iterator
  <2> QED BY <2>1, <2>2, OwnedEvictee
<1>4. CASE \E r \in Rows : DeleteTuple(r)
  <2>1. PICK r \in Rows : DeleteTuple(r)
    BY <1>4
  <2>2. r[1] \in PageNo
    BY DEF Rows
  <2>3. PICK g \in getPage(r[1], "own") :
            /\ disk' = g.disk
            /\ \/ pool' = [g.pool EXCEPT ![g.node] =
                              [used |-> g.pool[g.node].used \ {r[2]}, dirty |-> TRUE]]
               \/ pool' = g.pool
    BY <2>1 DEF DeleteTuple
  <2>4. Keeps(g.pool, g.disk) /\ g.node \in cached(g.pool)
    BY <2>2, Got DEF Inv
  <2> DEFINE o == [used |-> g.pool[g.node].used \ {r[2]}, dirty |-> TRUE]
  <2>5. g.pool \in [Node -> Object \cup {Null}] /\ g.node \in Node
        /\ g.pool[g.node].used \in SUBSET Slot
    BY <2>4, CachedObject DEF Keeps
  <2>6. o # Null
    <3>1. o \in Object
      BY <2>5 DEF Object
    <3> QED BY <3>1, NullIsNoObject
  <2> HIDE DEF o
  <2>7. pool' = [g.pool EXCEPT ![g.node] = o] \/ pool' = g.pool
    BY <2>3 DEF o
  <2>8. g.pool[x] = Null
    BY <1>1, <2>5, <2>6, <2>7
  <2> QED BY <2>2, <2>3, <2>8, OwnedEvictee
<1>5. CASE \E p \in PageNo : GetPage(p)
  BY <1>5, OwnedEvictee DEF GetPage
<1>6. CASE EvictPage
  BY <1>6, OwnedVictim DEF EvictPage
<1>7. CASE FlushAllPages
  <2>1. PICK t \in Targets : \E W \in flushPages(cached(pool), t) : pool' = unmarked(W)
    BY <1>7 DEF FlushAllPages
  <2>2. PICK W \in flushPages(cached(pool), t) : pool' = unmarked(W)
    BY <2>1
  <2>3. W \in SUBSET cached(pool)
    BY FoundNodes
  <2>4. cached(pool') = cached(pool)
    BY <2>2, <2>3, Flushed DEF Inv
  <2> QED BY <2>4 DEF cached, Owned
<1> QED BY <1>2, <1>3, <1>4, <1>5, <1>6, <1>7 DEF Next

(* BufferPool::evictPage flushes what the victim's key finds and erases    *)
(* the victim itself: a change is lost only where a borrowed key leads to  *)
(* the page, whatever the other borrowed keys point to by then.            *)
THEOREM ScanWriteBack == Spec => OwnedPagesAreWrittenBack
<1> DEFINE A == \A x \in cached(pool) :
                    /\ pool[x].dirty /\ pool'[x] = Null
                    /\ \A i \in Borrowed : pool[<<x[1], i>>] = Null
                    => disk'[x[1]] = pool[x].used
<1>1. Inv /\ [Next]_vars => [A]_vars
  <2> SUFFICES ASSUME Inv, Next, NEW x \in cached(pool), pool[x].dirty, pool'[x] = Null,
                      \A i \in Borrowed : pool[<<x[1], i>>] = Null
               PROVE  disk'[x[1]] = pool[x].used
    OBVIOUS
  <2> QED BY OwnedStep DEF Owned
<1> HIDE DEF A
<1>2. Spec => [][A]_vars
  BY <1>1, ScanInvariant, PTL DEF Spec
<1> QED BY <1>2 DEF OwnedPagesAreWrittenBack, A

===============================================================================
