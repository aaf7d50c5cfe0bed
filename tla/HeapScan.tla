------------------------------- MODULE HeapScan -------------------------------
(***************************************************************************)
(* A scan of a heap file (HeapFileIterator, HeapPageIterator) while its    *)
(* client calls the buffer pool and deletes tuples between two steps.      *)
(*                                                                         *)
(* The pool's map is keyed by POINTERS to page ids (PagesMap.h), and       *)
(* operator++ passes it the address of the iterator's own hpid.  The next  *)
(* operator++ overwrites it; and SeqScan::next advances a copy of its      *)
(* iterator on the stack, so that the key dangles once next() returns.  A  *)
(* node of the map is therefore known by the page number it was hashed     *)
(* under, and by its key: an own page id that never changes, or a borrowed *)
(* one, which by now may be any page's or none's.  find(pid) compares the  *)
(* hash, kept in the node, and then what the key points to: a page whose   *)
(* borrowed keys point elsewhere by now is read again, into one more node. *)
(*                                                                         *)
(* The pages exist when the scan begins and their number does not change.  *)
(* A page is the set of its used slots; a page object outlives its node    *)
(* (erase does not delete it), so that the iterator may go on reading an   *)
(* object that the pool has dropped.                                       *)
(***************************************************************************)
EXTENDS Naturals, FiniteSets

CONSTANTS
    NumSlots,    \* slots per page
    FilePages,   \* HeapFile::numPages
    NumPages,    \* capacity of the pool
    Deletable,   \* the slots whose rows clients delete
    Null

ASSUME ScanConstants ==
    /\ NumSlots \in Nat \ {0}
    /\ FilePages \in Nat \ {0}
    /\ NumPages \in Nat \ {0}
    /\ Deletable \subseteq 0 .. NumSlots - 1

PageNo == 0 .. FilePages - 1
Slot == 0 .. NumSlots - 1
Rows == PageNo \X Slot

(* A node: the page number it was hashed under, and 0 for its own key or   *)
(* the number of a borrowed one.  The pool never has more than NumPages.   *)
Borrowed == 1 .. NumPages
Node == PageNo \X ({0} \cup Borrowed)
owned(x) == x[2] = 0

VARIABLES
    pool,   \* BufferPool::pages: [Node -> page object or Null]
    disk,   \* the used slots of each page in the file
    it,     \* the client's HeapFileIterator
    live,   \* history: the rows that no client has deleted
    seen    \* history: the rows that this scan has returned

vars == <<pool, disk, it, live, seen>>

(* The page object in a node. *)
Object == [used : SUBSET Slot, dirty : BOOLEAN]

ASSUME NullIsNoNode == Null \notin Node
ASSUME NullIsNoObject == Null \notin Object

(* hpid's page number, the slot of the page iterator, `end`, and `page`:   *)
(* the node that holds the object, or its slots if the pool dropped it.    *)
(* Slot NumSlots is the end of a page; NumSlots + 1 is beyond it (bound).  *)
Iterator == [hpid : 0 .. FilePages, slot : 0 .. NumSlots + 1,
             end : BOOLEAN, page : Node \cup {Null}, dropped : SUBSET Slot]

cached(m) == { x \in Node : m[x] # Null }

(* The slots that the iterator's page object says are used. *)
view == IF it.page = Null THEN it.dropped ELSE pool[it.page].used

(* No page of the file is empty and, unless clients may delete every row,  *)
(* each has a row that stays.  No scan has begun.                          *)
Init ==
    /\ pool = [x \in Node |-> Null]
    /\ disk \in [PageNo -> (SUBSET Slot) \ {{}}]
    /\ Deletable # Slot => \A p \in PageNo : ~ disk[p] \subseteq Deletable
    /\ live = { r \in Rows : r[2] \in disk[r[1]] }
    /\ it = [hpid |-> FilePages, slot |-> NumSlots, end |-> TRUE,
             page |-> Null, dropped |-> {}]
    /\ seen = live

-------------------------------------------------------------------------------
(* The pool.  The parameter t says where the borrowed keys point to when a *)
(* call looks at them; FilePages is an id that is no page's of this file.  *)

Targets == [{ x \in cached(pool) : ~ owned(x) } -> 0 .. FilePages]

(* The page number that a node's key points to now. *)
keyOf(x, t) == IF owned(x) THEN x[1] ELSE t[x]

(* pages.find(pid) for page n: the node, if there is one.  Several match   *)
(* when the page is cached under more than one key that points to it;      *)
(* which of them is found depends on their order in the bucket.            *)
find(n, t) == { x \in cached(pool) : x[1] = n /\ keyOf(x, t) = n }

(* flushPage of the nodes in W: write the dirty ones, clear their marks. *)
written(W) ==
    [p \in PageNo |->
        IF \E x \in W : x[1] = p /\ pool[x].dirty
        THEN pool[CHOOSE x \in W : x[1] = p /\ pool[x].dirty].used
        ELSE disk[p]]

unmarked(W) ==
    [x \in Node |-> IF x \in W THEN [pool[x] EXCEPT !.dirty = FALSE] ELSE pool[x]]

(* The sets of nodes that flushPage of the keys of X may flush: for each   *)
(* page number they point to, one of the nodes that find() may return.     *)
flushPages(X, t) ==
    LET pageNumbers == { keyOf(x, t) : x \in X }
        found == UNION { find(n, t) : n \in pageNumbers }
    IN  { W \in SUBSET found :
            \A n \in pageNumbers :
                find(n, t) # {} => Cardinality(W \cap find(n, t)) = 1 }

(* Bug variant: the victim is not flushed. *)
evictPageUnflushed(v, t) == { [pool |-> [pool EXCEPT ![v] = Null], disk |-> disk] }

(* evictPage with victim v: flush what its KEY finds, erase v itself. *)
evictPage(v, t) ==
    { [pool |-> [unmarked(W) EXCEPT ![v] = Null], disk |-> written(W)] :
        W \in flushPages({v}, t) }

(* Bug variant: a page too many is let in. *)
roomLate(t) ==
    IF Cardinality(cached(pool)) <= NumPages
    THEN { [pool |-> pool, disk |-> disk] }
    ELSE UNION { evictPage(v, t) : v \in cached(pool) }

(* if (pages.size() >= numPages) evictPage(); *)
room(t) ==
    IF Cardinality(cached(pool)) < NumPages
    THEN { [pool |-> pool, disk |-> disk] }
    ELSE UNION { evictPage(v, t) : v \in cached(pool) }

(* The node that pages[pid] = page adds to pool m.  A borrowed key finds   *)
(* none of the nodes that are there, whatever page they were hashed under. *)
newNode(m, n, kind) ==
    IF kind = "own" THEN <<n, 0>>
    ELSE <<n, CHOOSE i \in Borrowed : m[<<n, i>>] = Null>>

(* getPage of page n with an own key or a borrowed one: the pool and file  *)
(* that may result, and the node of the page.                              *)
getPageOn(n, kind, t) ==
    IF find(n, t) # {}
    THEN { [pool |-> pool, disk |-> disk, node |-> x] : x \in find(n, t) }
    ELSE { LET x == newNode(e.pool, n, kind)
           IN  [pool |-> [e.pool EXCEPT ![x] = [used |-> e.disk[n], dirty |-> FALSE]],
                disk |-> e.disk,
                node |-> x] : e \in room(t) }

getPage(n, kind) == UNION { getPageOn(n, kind, t) : t \in Targets }

(* The iterator once the pool is m: its page object may have been dropped. *)
holding(m) ==
    IF it.page # Null /\ m[it.page] = Null
    THEN [it EXCEPT !.page = Null, !.dropped = pool[it.page].used]
    ELSE it

-------------------------------------------------------------------------------
(* The iterator.                                                           *)

(* Bug variant: the first slot of a page is skipped. *)
nextUsedLate(used, s) ==
    LET after == { r \in used : r > s }
    IN  IF after = {} THEN NumSlots ELSE CHOOSE r \in after : \A q \in after : r <= q

(* The first used slot from slot s on, or NumSlots. *)
nextUsed(used, s) ==
    LET from == { r \in used : r >= s }
    IN  IF from = {} THEN NumSlots ELSE CHOOSE r \in from : \A q \in from : r <= q

(* Bug variant: the number of the page is not kept. *)
pageBeginStuck(n, x, m) ==
    [hpid |-> 0, slot |-> nextUsed(m[x].used, 0), end |-> FALSE,
     page |-> x, dropped |-> {}]

(* The iterator at the start of page n, whose object is in node x of m. *)
pageBegin(n, x, m) ==
    [hpid |-> n, slot |-> nextUsed(m[x].used, 0), end |-> FALSE,
     page |-> x, dropped |-> {}]

(* it = file.begin().  Page 0 is looked up with the page id of a temporary *)
(* iterator that is never freed: an own key.                               *)
Begin ==
    /\ it.end
    /\ \E g \in getPage(0, "own") :
        /\ pool' = g.pool
        /\ disk' = g.disk
        /\ it' = pageBegin(0, g.node, g.pool)
    /\ seen' = {}
    /\ UNCHANGED live

(* Bug variant: slots are counted from one. *)
currentFromOne == {<<it.hpid, it.slot + 1>>}

(* The row that *it returns, if the iterator is at one. *)
current == { r \in Rows : r = <<it.hpid, it.slot>> }

(* slot++ until a used slot; past the end of the page it only grows. *)
slotAfter == IF it.slot >= NumSlots THEN NumSlots + 1 ELSE nextUsed(view, it.slot + 1)

lastPage == it.hpid + 1 >= FilePages

(* *it, then ++it, while it != file.end().  hpid is overwritten before the *)
(* next page is looked up, so that an eviction already sees the new one.   *)
Advance ==
    /\ ~ it.end
    /\ seen' = seen \cup current
    /\ \/ /\ slotAfter # NumSlots
          /\ it' = [it EXCEPT !.slot = slotAfter]
          /\ UNCHANGED <<pool, disk>>
       \/ /\ slotAfter = NumSlots
          /\ lastPage
          /\ it' = [it EXCEPT !.hpid = FilePages, !.end = TRUE, !.slot = NumSlots]
          /\ UNCHANGED <<pool, disk>>
       \/ /\ slotAfter = NumSlots
          /\ ~ lastPage
          /\ \E g \in getPage(it.hpid + 1, "borrowed") :
                /\ pool' = g.pool
                /\ disk' = g.disk
                /\ it' = pageBegin(it.hpid + 1, g.node, g.pool)
    /\ UNCHANGED live

-------------------------------------------------------------------------------
(* What clients do between two steps of the scan.                          *)

(* HeapFile::deleteTuple of a row, whose handle the client has from this   *)
(* or an earlier scan, and the caller's marking of the page.  A slot that  *)
(* is not used makes HeapPage::deleteTuple throw.                          *)
DeleteTuple(r) ==
    /\ r \in live \cup seen /\ r[2] \in Deletable
    /\ \E g \in getPage(r[1], "own") :
        /\ disk' = g.disk
        /\ it' = holding(g.pool)
        /\ IF r[2] \in g.pool[g.node].used
           THEN /\ pool' = [g.pool EXCEPT ![g.node] =
                               [used |-> @.used \ {r[2]}, dirty |-> TRUE]]
                /\ live' = live \ {r}
           ELSE pool' = g.pool /\ UNCHANGED live
    /\ UNCHANGED seen

(* getPage by anyone else, such as the probes of HeapFile::insertTuple. *)
GetPage(p) ==
    /\ \E g \in getPage(p, "own") :
        pool' = g.pool /\ disk' = g.disk /\ it' = holding(g.pool)
    /\ UNCHANGED <<live, seen>>

EvictPage ==
    /\ \E t \in Targets, v \in cached(pool) : \E e \in evictPage(v, t) :
        pool' = e.pool /\ disk' = e.disk /\ it' = holding(e.pool)
    /\ UNCHANGED <<live, seen>>

(* flushAllPages: flushPage of every key. *)
FlushAllPages ==
    /\ \E t \in Targets : \E W \in flushPages(cached(pool), t) :
        pool' = unmarked(W) /\ disk' = written(W)
    /\ UNCHANGED <<it, live, seen>>

Next ==
    \/ Begin
    \/ Advance
    \/ \E r \in Rows : DeleteTuple(r)
    \/ \E p \in PageNo : GetPage(p)
    \/ EvictPage
    \/ FlushAllPages

(* A client that has begun a scan goes on calling ++. *)
Spec == Init /\ [][Next]_vars /\ WF_vars(Advance)

-------------------------------------------------------------------------------
(* Properties.                                                             *)

(* The variables have their types. *)
TypeOK ==
    /\ pool \in [Node -> Object \cup {Null}]
    /\ disk \in [PageNo -> SUBSET Slot]
    /\ it \in Iterator
    /\ live \subseteq Rows
    /\ seen \subseteq Rows

(* Nodes that no page id finds any more still count: the pool keeps within *)
(* its capacity although a page may be in it many times, under keys that   *)
(* point elsewhere.                                                        *)
WithinCapacity == Cardinality(cached(pool)) <= NumPages

(* A finished scan has returned every row that was not deleted, whatever   *)
(* the evictions and deletions under it did to its page objects.           *)
ScanReturnsEveryRow == it.end => live \subseteq seen

(* A scan ends: ++ reaches end() after finitely many steps. *)
ScanEnds == ~ it.end ~> it.end

(* A dirty page leaves the pool without being in the file only if the page *)
(* is cached under a borrowed key: pages that are cached under own keys    *)
(* alone are written back, whatever the other keys point to.               *)
OwnedPagesAreWrittenBack ==
    [][ \A x \in cached(pool) :
            /\ pool[x].dirty /\ pool'[x] = Null
            /\ \A i \in Borrowed : pool[<<x[1], i>>] = Null
            => disk'[x[1]] = pool[x].used ]_vars

===============================================================================
