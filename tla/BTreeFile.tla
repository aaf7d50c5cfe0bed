------------------------------- MODULE BTreeFile -------------------------------
(***************************************************************************)
(* The B+ tree of db/BTreeFile.cpp in memory: BTreeFile::insertTuple and   *)
(* BTreeFile::deleteTuple with everything they call, on a tree whose pages *)
(* all fit in the buffer pool: nothing is evicted or written back, so that *)
(* what getEmptyPage reads from the file is always an empty page.          *)
(*                                                                         *)
(* The tree is a leaf, or an internal page above leaves.  It never gets    *)
(* higher: splitInternalPage begins with BTreeInternalPage::deleteEntry,   *)
(* whose assertion requires the entry's table to differ from the page's    *)
(* (BTreeInternalPage.cpp:99-100) and so always fails; in a build without  *)
(* assertions it goes on to read the null right child of the first entry   *)
(* that rbegin() gives.  deleteParentEntry, at the end of every merge,     *)
(* fails in the same way, but completes in a build without assertions.     *)
(* handleMinOccupancyPage never advances its iterator                      *)
(* (BTreeFile.cpp:256-264), so it loops for ever unless the page is the    *)
(* left child of the first entry.  `outcome` records what ended the run.   *)
(*                                                                         *)
(* getEmptyPage writes RootSize zeros with pwrite.  Where pwrite appends   *)
(* (Linux, as the file is opened with O_APPEND) they make the file larger, *)
(* and page numbers, which come from its size, are skipped.                *)
(***************************************************************************)
EXTENDS BTreePages, BTreeHeaders, SequencesExt

CONSTANTS
    RootSize,   \* BTreeRootPtrPage::getPageSize()
    PageSize,   \* BufferPool::getPageSize()
    MaxPages    \* bound on the pages of the file, where pwrite appends

ASSUME FileConstants ==
    /\ RootSize \in Nat \ {0}
    /\ PageSize \in Nat \ {0}
    /\ MaxPages \in Nat

(* The children of one internal page, that page and a header page. *)
ASSUME TreeFits == MaxPages >= MaxEntries + 3

(* A page that holds n pointers has room for more than 8 * n header slots: *)
(* one header page is enough for every page of the tree.                   *)
ASSUME OneHeaderPage == HeaderSlots > MaxPages

(* A page of the code has hundreds of entries.  With three or more,        *)
(* splitInternalPage moves at least one, and does not complete.            *)
ASSUME ThreeEntries == MaxEntries >= 3

VARIABLES
    leaf,      \* the leaf pages: [PageNo -> Leaf or Null]
    inner,     \* the internal root: entries by slot, or Null if there is none
    innerId,   \* its page number
    root,      \* BTreeRootPtrPage::root (0 before the first insertion)
    filePages, \* pages of the file: BTreeFile::getNumPages()
    tail,      \* bytes of the file behind its last page
    headers,   \* the header pages, from BTreeRootPtrPage::header on
    asserts,   \* the build keeps assert()
    appends,   \* pwrite appends
    outcome    \* "running", or what went wrong

vars == <<leaf, inner, innerId, root, filePages, tail, headers, asserts, appends, outcome>>

PageNo == 1 .. MaxPages

Record == [key : Keys, page : PageNo, slot : Slot]

(* Sibling and parent pointers are page numbers, 0 for none or root. *)
PagePointer == PageNo \cup {0}

Leaf == [slots  : [Slot -> Record \cup {Null}],
         parent : PagePointer, left : PagePointer, right : PagePointer]

InnerEntry == [key : Keys \cup {Null}, child : PageNo]

(* Null is none of the things that a slot or a page can hold. *)
ASSUME NullIsNone ==
    /\ Null \notin Record /\ Null \notin Leaf /\ Null \notin InnerEntry
    /\ Null \notin [Entry -> InnerEntry \cup {Null}]

emptyLeaf == [slots |-> [s \in Slot |-> Null], parent |-> 0, left |-> 0, right |-> 0]

Leaves == { p \in PageNo : leaf[p] # Null }

Init ==
    /\ leaf = [p \in PageNo |-> Null]
    /\ inner = Null
    /\ innerId = 0
    /\ root = 0
    /\ filePages = 0
    /\ tail = 0
    /\ headers = <<>>
    /\ asserts \in BOOLEAN
    /\ appends \in BOOLEAN
    /\ outcome = "running"

(* getRootId() is not null: the root pointer page names a root. *)
hasRoot == root # 0

-------------------------------------------------------------------------------
(* Finding a leaf.                                                         *)

(* Bug variant: a key equal to an entry's key is looked for on the right. *)
findLeafPageStrict(k) ==
    IF inner = Null THEN root
    ELSE LET keyed == used(inner) \ {0}
             over  == { s \in keyed : k < inner[s].key }
         IN  IF over # {}
             THEN inner[highest(preceding(inner, lowest(over)))].child
             ELSE inner[highest(keyed)].child

(* findLeafPage: the left child of the first entry whose key is not below  *)
(* k, else the rightmost child.                                            *)
findLeafPage(k) ==
    IF inner = Null THEN root
    ELSE LET keyed == used(inner) \ {0}
             over  == { s \in keyed : k <= inner[s].key }
         IN  IF over # {}
             THEN inner[highest(preceding(inner, lowest(over)))].child
             ELSE inner[highest(keyed)].child

(* findLeafPage with a null field. *)
leftmostLeaf == IF inner = Null THEN root ELSE inner[0].child

-------------------------------------------------------------------------------
(* The pages of the file.                                                  *)

(* What getEmptyPage and setEmptyPage change. *)
space == [pages |-> filePages, tail |-> tail, headers |-> headers]

reuses(sp) == withEmptySlot(sp.headers) # {}

(* getEmptyPageNo: a page that is marked free, else an empty page is       *)
(* appended, and the file has one page more.                               *)
getEmptyPageNo(sp) == IF reuses(sp) THEN freePage(sp.headers) ELSE sp.pages + 1

(* The pwrite of RootSize zeros in getEmptyPage: they go to the page, or   *)
(* behind the tail.                                                        *)
zerosWritten(sp) ==
    LET behind == sp.tail + RootSize
    IN  IF appends
        THEN [sp EXCEPT !.pages = @ + behind \div PageSize, !.tail = behind % PageSize]
        ELSE sp

getEmptyPage(sp) ==
    zerosWritten(IF reuses(sp) THEN [sp EXCEPT !.headers = markTaken(@)]
                 ELSE [sp EXCEPT !.pages = @ + 1])

(* The bound.  Where pwrite does not append, MaxEntries + 3 pages suffice. *)
fits(sp) == appends => sp.pages <= MaxPages

spaceBecomes(sp) == filePages' = sp.pages /\ tail' = sp.tail /\ headers' = sp.headers

(* setEmptyPage makes the first header page when it is needed. *)
setEmptyPage(sp, p) ==
    LET withHeader ==
            IF sp.headers # <<>> THEN sp
            ELSE [getEmptyPage(sp) EXCEPT
                     !.headers = Append(@, init(getEmptyPageNo(sp)))]
    IN  [withHeader EXCEPT !.headers = markFree(@, p)]

-------------------------------------------------------------------------------
(* Splitting.                                                              *)

(* Bug variant: the page that followed keeps its old left sibling. *)
linkRightNoBack(f, p, q) ==
    [f EXCEPT ![p].right = q, ![q].left = p, ![q].right = f[p].right]

(* splitLeafPage, lines 39-46: q is put between p and its right sibling. *)
linkRight(f, p, q) ==
    LET n == f[p].right
        g == [f EXCEPT ![p].right = q, ![q].left = p, ![q].right = n]
    IN  IF n = 0 THEN g ELSE [g EXCEPT ![n].left = q]

(* The slots of S from low to high, or from high to low. *)
upwards(S) == [i \in 1 .. Cardinality(S) |->
                  CHOOSE s \in S : Cardinality({ r \in S : r < s }) = i - 1]
downwards(S) == Reverse(upwards(S))

(* The tuples in the slots `order` of page p are moved to page q, one by   *)
(* one: deleteTuple from p, insertTuple into q.                            *)
moveTuples(f, p, q, order) ==
    [f EXCEPT
        ![p].slots = [s \in Slot |-> IF s \in Range(order) THEN Null ELSE @[s]],
        ![q].slots = insertTuples(q, @, [i \in DOMAIN order |-> f[p].slots[order[i]].key])]

(* The n used slots that rbegin() (begin()) visits first. *)
topSlots(a, n) == { s \in used(a) : Cardinality({ r \in used(a) : r > s }) < n }
bottomSlots(a, n) == { s \in used(a) : Cardinality({ r \in used(a) : r < s }) < n }

(* (getNumTuples() + 1) / 2 - 1 tuples, and one more, move right. *)
splitCount(n) == (n + 1) \div 2

(* updateParentPointers: every child of the internal page points to it. *)
adopt(f, entries, id) ==
    LET children == { entries[s].child : s \in used(entries) }
    IN  [p \in PageNo |->
            IF p \in children THEN [f[p] EXCEPT !.parent = id] ELSE f[p]]

(* getParentId() is the root pointer page: the leaf is the root. *)
isRoot(p) == leaf[p].parent = 0

(* getParentWithEmptySlots: the internal page above a leaf that splits,    *)
(* its number, and the space left.  A root leaf gets a new root, made      *)
(* after the page for its right half.                                      *)
parentEntries(p) == IF isRoot(p) THEN noEntries ELSE inner
parentId(p) ==
    IF isRoot(p) THEN getEmptyPageNo(getEmptyPage(space)) ELSE leaf[p].parent
spaceAfterSplit(p) ==
    IF isRoot(p) THEN getEmptyPage(getEmptyPage(space)) ELSE getEmptyPage(space)

(* splitLeafPage of page p (before its parent is looked for). *)
splitTuples(p, q) ==
    LET f == linkRight([leaf EXCEPT ![q] = emptyLeaf], p, q)
        S == topSlots(leaf[p].slots, splitCount(getNumTuples(leaf[p].slots)))
    IN  moveTuples(f, p, q, downwards(S))

(* Bug variant: the first tuple that was moved gives the key. *)
splitKeyFirst(p) == leaf[p].slots[highest(used(leaf[p].slots))].key

(* The key that splitLeafPage copies up: the last one it moved. *)
splitKey(p) ==
    LET S == topSlots(leaf[p].slots, splitCount(getNumTuples(leaf[p].slots)))
    IN  leaf[p].slots[lowest(S)].key

(* The half that splitLeafPage returns for key k. *)
splitHome(k, sep, p, q) == IF k < sep THEN p ELSE q

-------------------------------------------------------------------------------
(* insertTuple.                                                            *)

stop(why) ==
    /\ outcome' = why
    /\ UNCHANGED <<leaf, inner, innerId, root, filePages, tail, headers, asserts, appends>>

(* splitInternalPage takes the upper entries off the page one by one: the  *)
(* process ends, at an assertion or at a null pointer.                     *)
splitInternalPage == stop("internal page full")

(* The first insertion makes the root pointer page and the root leaf. *)
InsertFirst(k) ==
    /\ ~ hasRoot
    /\ leaf' = [leaf EXCEPT ![1] =
                   [emptyLeaf EXCEPT !.slots = insertTuple(1, @, k)]]
    /\ root' = 1
    /\ filePages' = 1
    /\ UNCHANGED <<inner, innerId, tail, headers, asserts, appends, outcome>>

InsertInLeaf(k) ==
    /\ hasRoot
    /\ LET p == findLeafPage(k)
       IN  /\ getNumEmptySlots(leaf[p].slots) > 0
           /\ leaf' = [leaf EXCEPT ![p].slots = insertTuple(p, @, k)]
    /\ UNCHANGED <<inner, innerId, root, filePages, tail, headers, asserts, appends, outcome>>

(* The rest of insertTuple, when page p is split and q is its new half. *)
addRightPage(k, p, q, sep) ==
    LET entries == insertEntry(parentEntries(p), sep, p, q)
        f == adopt(splitTuples(p, q), entries, parentId(p))
        home == splitHome(k, sep, p, q)
    IN  /\ leaf' = [f EXCEPT ![home].slots = insertTuple(home, @, k)]
        /\ inner' = entries
        /\ innerId' = parentId(p)
        /\ root' = parentId(p)
        /\ spaceBecomes(spaceAfterSplit(p))
        /\ UNCHANGED <<asserts, appends, outcome>>

(* The leaf is full: it is split, an entry for the new page goes into the  *)
(* parent, and the tuple goes to the half its key belongs to.              *)
InsertSplit(k) ==
    /\ hasRoot
    /\ LET p == findLeafPage(k)
           q == getEmptyPageNo(space)
           sep == splitKey(p)
       IN  /\ getNumEmptySlots(leaf[p].slots) = 0
           /\ \/ /\ getNumEmptyEntries(parentEntries(p)) = 0
                 /\ splitInternalPage
              \/ /\ getNumEmptyEntries(parentEntries(p)) > 0
                 /\ fits(spaceAfterSplit(p))
                 /\ IF insertEntryAllowed(parentEntries(p), sep, p, q)
                    THEN addRightPage(k, p, q, sep)
                    ELSE stop("invalid entry")

-------------------------------------------------------------------------------
(* deleteTuple.                                                            *)

(* Less than half full: getNumEmptySlots() > getMaxTuples() - half of it.  *)
maxEmptySlots == NumSlots - NumSlots \div 2

(* Bug variant: one tuple too few is stolen. *)
stealCountLow(f, p, q) ==
    (getNumTuples(f[q].slots) - getNumTuples(f[p].slots)) \div 2 - 1

(* stealFromLeafPage from the right sibling: half of the difference moves. *)
stealCount(f, p, q) ==
    (getNumTuples(f[q].slots) - getNumTuples(f[p].slots)) \div 2

(* The entry's key becomes that of the first tuple that stays in page q. *)
stealKey(f, q, n) ==
    f[q].slots[lowest(used(f[q].slots) \ bottomSlots(f[q].slots, n))].key

(* BTreeInternalPage::updateEntry allows keys between the neighbours'. *)
updateEntryAllowed(a, s, k) ==
    /\ \A r \in following(a, s) : a[r].key >= k
    /\ \A r \in preceding(a, s) : r # 0 => a[r].key <= k

(* stealFromLeafPage moves the tuples and updates the entry of page q, if  *)
(* its assertions allow that.                                              *)
stealFromLeafPage(f, p, q) ==
    LET n == stealCount(f, p, q)
        sep == stealKey(f, q, n)
    IN  IF n > 0 /\ updateEntryAllowed(inner, 1, sep)
        THEN /\ leaf' = moveTuples(f, q, p, upwards(bottomSlots(f[q].slots, n)))
             /\ inner' = [inner EXCEPT ![1] = link(sep, q)]
             /\ UNCHANGED <<innerId, root, filePages, tail, headers, asserts, appends, outcome>>
        ELSE stop("invalid entry")

(* Page q, between p and n, leaves the chain of siblings. *)
unlink(f, p, q, n) ==
    LET g == [f EXCEPT ![p].right = n, ![q] = Null]
    IN  IF n = 0 THEN g ELSE [g EXCEPT ![n].left = p]

(* mergeLeafPages, lines 186-196: the tuples of q move to p, its left      *)
(* neighbour, and q is unlinked.                                           *)
joinLeaves(f, p, q) ==
    unlink(moveTuples(f, q, p, upwards(used(f[q].slots))), p, q, f[q].right)

(* BTreeInternalPage::deleteKeyAndRightChild of the entry in slot s. *)
deleteKeyAndRightChild(a, s) == [a EXCEPT ![s] = Null]

(* The space left: deleteParentEntry frees an internal page that lost its  *)
(* last entry, then mergeLeafPages frees page q.                           *)
spaceAfterMerge(q, last) ==
    IF last THEN setEmptyPage(setEmptyPage(space, innerId), q)
    ELSE setEmptyPage(space, q)

(* mergeLeafPages of the first child p and its right sibling q.  The       *)
(* assertion in deleteEntry fails.  Without it the last entry goes with    *)
(* the root, and p becomes the root; if entries are left, the first slot   *)
(* is a hole at which begin() already is end(), and findLeafPage throws    *)
(* "Empty page" from then on: no tuple is inserted any more, but           *)
(* deleteTuple, which does not look for a leaf, goes on.                   *)
mergeLeafPages(f, p, q) ==
    LET entries == deleteKeyAndRightChild(inner, 1)
        tree == joinLeaves(f, p, q)
        last == getNumEmptyEntries(entries) = MaxEntries
        left == spaceAfterMerge(q, last)
    IN  \/ asserts /\ stop("merge")
        \/ /\ ~ asserts /\ last /\ fits(left)
           /\ leaf' = [tree EXCEPT ![p].parent = 0]
           /\ inner' = Null
           /\ innerId' = 0
           /\ root' = p
           /\ spaceBecomes(left)
           /\ UNCHANGED <<asserts, appends, outcome>>
        \/ /\ ~ asserts /\ ~ last /\ fits(left)
           /\ leaf' = tree
           /\ inner' = entries
           /\ spaceBecomes(left)
           /\ outcome' = "empty page"
           /\ UNCHANGED <<innerId, root, asserts, appends>>

(* The leaf pages become f, and nothing else changes. *)
leavesBecome(f) ==
    /\ leaf' = f
    /\ UNCHANGED <<inner, innerId, root, filePages, tail, headers, asserts, appends, outcome>>

(* handleMinOccupancyPage for leaf p of tree f, which is not the root.     *)
(* Where begin() is end() there is no sibling, and nothing is done.        *)
HandleMinOccupancy(f, p) ==
    LET q == inner[1].child     \* right sibling, if p is the first child
    IN  \/ /\ inner[1] = Null
           /\ leavesBecome(f)
        \/ /\ inner[1] # Null /\ inner[0].child # p
           /\ stop("looping")
        \/ /\ inner[1] # Null /\ inner[0].child = p
           /\ getNumEmptySlots(f[q].slots) >= maxEmptySlots
           /\ mergeLeafPages(f, p, q)
        \/ /\ inner[1] # Null /\ inner[0].child = p
           /\ getNumEmptySlots(f[q].slots) < maxEmptySlots
           /\ stealFromLeafPage(f, p, q)

(* A client deletes the tuple object it found in slot s of page p; the     *)
(* page and the slot to clear are those of the object's RecordId.          *)
DeleteTuple(p, s) ==
    /\ leaf[p] # Null /\ leaf[p].slots[s] # Null
    /\ LET rid == leaf[p].slots[s]
           f == [leaf EXCEPT ![rid.page].slots = deleteTuple(@, rid.slot)]
       IN  IF leaf[rid.page].slots[rid.slot] = Null
           THEN stop("invalid tuple")
           ELSE \/ /\ ~ isRoot(rid.page)
                   /\ getNumEmptySlots(f[rid.page].slots) > maxEmptySlots
                   /\ HandleMinOccupancy(f, rid.page)
                \/ /\ isRoot(rid.page)
                      \/ getNumEmptySlots(f[rid.page].slots) <= maxEmptySlots
                   /\ leavesBecome(f)

(* A new process opens the file with O_TRUNC: the tree is gone. *)
Reopen ==
    /\ leaf' = [p \in PageNo |-> Null]
    /\ inner' = Null
    /\ innerId' = 0
    /\ root' = 0
    /\ filePages' = 0
    /\ tail' = 0
    /\ headers' = <<>>
    /\ outcome' = "running"
    /\ UNCHANGED <<asserts, appends>>

InsertTuple(k) == InsertFirst(k) \/ InsertInLeaf(k) \/ InsertSplit(k)

Next ==
    \/ /\ outcome = "running"
       /\ \E k \in Keys : InsertTuple(k)
    \/ /\ outcome \in {"running", "empty page"}
       /\ \E p \in PageNo, s \in Slot : DeleteTuple(p, s)
    \/ Reopen

Spec == Init /\ [][Next]_vars

-------------------------------------------------------------------------------
(* Scanning (BTreeFileIterator).                                           *)

(* Null (0) for the last leaf. *)
getRightSiblingId(p) == leaf[p].right

(* The n-th leaf that an iterator visits from leaf p on (0: it is done). *)
nthLeaf(p) ==
    LET at[n \in 1 .. MaxEntries + 1] ==
            IF n = 1 THEN p
            ELSE LET q == at[n - 1] IN IF q = 0 THEN 0 ELSE getRightSiblingId(q)
    IN  at

visited(p) == Range(nthLeaf(p)) \ {0}

(* The keys in the used slots of a leaf, from begin() to end(). *)
keysOf(a) == LET order == upwards(used(a))
             IN  [i \in DOMAIN order |-> a[order[i]].key]

(* The keys that an iterator returns, leaf after leaf. *)
scan(p) ==
    LET at == nthLeaf(p)
        upTo[n \in 0 .. MaxEntries + 1] ==
            IF n = 0 THEN <<>>
            ELSE IF at[n] = 0 THEN upTo[n - 1]
            ELSE upTo[n - 1] \o keysOf(leaf[at[n]].slots)
    IN  upTo[MaxEntries + 1]

-------------------------------------------------------------------------------
(* Properties.  The file docs/pa2.md lists what makes a B+ tree legal.     *)

(* The variables have their types. *)
TypeOK ==
    /\ leaf \in [PageNo -> Leaf \cup {Null}]
    /\ inner = Null \/ inner \in [Entry -> InnerEntry \cup {Null}]
    /\ innerId \in PagePointer
    /\ root \in PagePointer
    /\ filePages \in PagePointer
    /\ tail \in 0 .. PageSize - 1
    /\ headers \in Seq([page : PageNo, free : SUBSET HeaderSlot])
    /\ asserts \in BOOLEAN
    /\ appends \in BOOLEAN
    /\ outcome \in {"running", "internal page full", "invalid entry",
                    "merge", "empty page", "looping", "invalid tuple"}

(* The children of the internal page, from left to right. *)
childrenInOrder ==
    IF inner = Null THEN IF hasRoot THEN <<root>> ELSE <<>>
    ELSE LET order == upwards(used(inner))
         IN  [i \in DOMAIN order |-> inner[order[i]].child]

(* The chain of right siblings that a scan follows visits the children of  *)
(* the internal page in its order, each once; left siblings are the mirror *)
(* image, the ends are null, and every leaf points to its parent.          *)
LinksAgree ==
    LET c == childrenInOrder
    IN  /\ Range(c) = Leaves
        /\ Len(c) = Cardinality(Leaves)
        /\ \A i \in 1 .. Len(c) :
             /\ leaf[c[i]].right = IF i = Len(c) THEN 0 ELSE c[i + 1]
             /\ leaf[c[i]].left = IF i = 1 THEN 0 ELSE c[i - 1]
             /\ leaf[c[i]].parent = IF inner = Null THEN 0 ELSE innerId

(* Every key of a leaf lies between the keys around its pointer in the     *)
(* internal page, through splits, steals and equal keys: findLeafPage is   *)
(* only right if this holds.                                               *)
KeysInRange ==
    inner # Null =>
        \A e \in used(inner) : \A s \in used(leaf[inner[e].child].slots) :
            LET k == leaf[inner[e].child].slots[s].key
            IN  /\ e # 0 => inner[e].key <= k
                /\ \A n \in following(inner, e) : k <= inner[n].key

(* A scan that starts at the leaf found for k (EQUALS, GREATER_THAN,       *)
(* GREATER_THAN_OR_EQ) returns keys in order and meets every tuple with    *)
(* key k or more, although equal keys may straddle leaves.  Without a      *)
(* predicate the same goes for the whole tree, from the leftmost leaf.     *)
ScanFromKeyMissesNothing ==
    hasRoot =>
        /\ LET q == scan(leftmostLeaf)
           IN  \A i \in 1 .. Len(q) - 1 : q[i] <= q[i + 1]
        /\ visited(leftmostLeaf) = Leaves
        /\ \A k \in Keys :
              \A p \in Leaves \ visited(findLeafPage(k)) :
                \A s \in used(leaf[p].slots) : leaf[p].slots[s].key < k

(* The RecordId in a tuple object names its page and slot, also after it   *)
(* was shifted, split off or stolen: deleteTuple clears the right slot.    *)
RecordIdsMatch ==
    \A p \in Leaves : \A s \in used(leaf[p].slots) :
        leaf[p].slots[s].page = p /\ leaf[p].slots[s].slot = s

(* No page of the file is two of: a leaf, the internal page, a header      *)
(* page, marked free; so none is handed out that is still in use, when     *)
(* merges free pages and splits take them again, also where pwrite appends *)
(* and numbers are skipped.  Where it does not, no page is lost either:    *)
(* each is one of the four.                                                *)
PagesAccounted ==
    LET uses(p) == << p \in Leaves, inner # Null /\ p = innerId,
                      p \in headerPages(headers), p \in freePages(headers) >>
        count(p) == Cardinality({ i \in 1 .. 4 : uses(p)[i] })
    IN  \A p \in PageNo :
            IF p > filePages THEN count(p) = 0
            ELSE IF appends THEN count(p) <= 1
            ELSE count(p) = 1

(* Splits and steals make legal changes only: the assertions of            *)
(* BTreeInternalPage::insertEntry and updateEntry never fail, there is     *)
(* always something to steal, and deleteTuple finds its tuple in the slot. *)
(* (The assertion of deleteEntry does fail: outcomes "merge" and "internal *)
(* page full".)                                                            *)
EntriesAndTuplesValid == outcome \notin {"invalid entry", "invalid tuple"}

(* The multiset of keys that a scan of the whole tree returns: those of    *)
(* the leaves on the chain, which LinksAgree shows to be visited once.     *)
scanned ==
    [k \in Keys |->
        Cardinality(UNION { { <<p, s>> : s \in keySlots(leaf[p].slots, k) } :
                             p \in visited(leftmostLeaf) })]

Index == INSTANCE OrderedIndex WITH bag <- scanned

(* Seen through a scan, insertTuple adds one tuple with the key, and       *)
(* deleteTuple removes one; splits and steals lose and duplicate nothing.  *)
ImplementsIndex == Index!IndexSpec

-------------------------------------------------------------------------------
(* What the headers say, and the code does not do.                         *)

(* BTreeFile.h:124-127: a page that "becomes less than half full" gets     *)
(* tuples from a sibling or is merged, whichever child it is.              *)
UnderflowIsHandled == outcome # "looping"

===============================================================================
