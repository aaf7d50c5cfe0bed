# A verification development for the storage layer

The repository is a small relational storage engine in C++: pages of tuples in
files, a buffer pool in front of them, a catalog, a B+ tree index, the base
classes of a query executor, and the skeleton of its operators and of an
optimizer, which are not written yet. This directory holds TLA+ models of the
parts that have logic, the TLC configurations that check them on small
instances, and TLAPS proofs of what matters most for every size.

Paths are relative to `src/`. Headers are in `include/db/`, code in `db/`.

## 1. The system

The program has **one thread**. What is hard in it is not concurrency but state
that is kept in several places: page objects in the pool, their bytes in the
file, counters in the file object, record ids in tuple objects, iterators that
copied a page count, and keys of a hash map that are pointers. A process may
also end between any two writes.

| Component | State | Operations | Used by | What makes it correct |
|---|---|---|---|---|
| `HeapPage` | bitmap of used slots, array of tuples | `insertTuple`, `deleteTuple`, `getPageData`, constructor | `HeapFile` | the bytes and the object say the same; the parts fit in the page |
| `BufferPool` | `pages`: page id pointer to page object, dirty marks | `getPage`, `evictPage`, `flushPage(s)`, `flushAllPages`, `discardPage`, `insertTuple`, `deleteTuple` | everyone | capacity is kept; a clean page equals the file; an evicted page is not lost |
| `HeapFile` | `numPages`, the file | `insertTuple` (a loop of probes), `deleteTuple`, `readPage`, `writePage` | pool, scans | the pages it counts exist; a page is added only to a full table; a restart finds what was written |
| `HeapFileIterator`, `HeapPageIterator` | page id, slot, page object, a copy of `numPages` | `begin`, `operator++`, `operator*` | `SeqScan` | every row is returned, the scan ends |
| `SeqScan`, `Operator` | optional iterator; look-ahead tuple, open flag | `open`, `hasNext`, `next`, `rewind`, `close`, `reset` | operators | each row once, in order, none after `close()` |
| `BTreeLeafPage`, `BTreeInternalPage` | slot arrays | `insertTuple`, `deleteTuple`, `insertEntry`, `updateEntry`, `deleteEntry` | `BTreeFile` | order, record ids |
| `BTreeHeaderPage`, `BTreeRootPtrPage` | bitmaps of free pages in a linked list; root and header pointers | `init`, `getEmptySlot`, `markSlotUsed` | `BTreeFile` | no page is two things at once, none is lost |
| `BTreeFile` | root pointer, pages | `insertTuple`, `deleteTuple`, splits, steals, merges, `getEmptyPage`, `setEmptyPage`, `readPage`, `writePage`, `iterable` | clients | the tree is legal and holds what was put in |
| `Catalog` | map by id, map by name | `addTable`, `clear`, look-ups | everyone | a registered file is found under its name |
| `Filter`, `Join`, `Aggregate`, ..., `JoinOptimizer`, `IntHistogram`, `TableStats` | - | - | - | bodies are empty |

Interactions are calls: `BufferPool::insertTuple` calls `HeapFile::insertTuple`,
which calls `BufferPool::getPage`, which calls `evictPage` and, through the
catalog, `readPage`/`writePage`. `Operator` calls its child's `hasNext` and
`next`, `SeqScan` those of the iterator. `PROJECT.json` lists the hazards line
by line.

## 2. Plan

1. *(done)* heap page, buffer pool, heap file; the abstract table; proofs.
2. *(done)* heap file iterator over a pool with pointer keys.
3. *(done)* B+ tree pages, leaf page with proofs, B+ tree file in memory.
4. *(done)* catalog, with proofs.
5. *(done)* `SeqScan` and `Operator`; keys that dangle; scans of empty files and
   of tables that change.
6. *(done)* merges, header pages, the pages of the B+ tree file and `O_APPEND`.
7. *(done)* page layouts, with proofs.
8. What `getPageData` writes and the constructors read back, field by field.
9. *(done)* proofs about `Operator`, `HeapScan` and `BTreeSpace`.
10. *(done)* proofs about `BTreeFile`: the safety invariants.
11. *(done)* proofs about `BTreeFile`: `ScanFromKeyMissesNothing` and the
    refinement `ImplementsIndex`; the closed form of the shift loops.

## 3. Modules

### 3.1 `HeapPage`, `BufferPool`, `HeapFile`

`HeapPage` defines the page object (`header`, `tuples`) and its bytes (`bits`,
`body`) as different things, with `getPageData` and `HeapPageOf` (the
constructor) between them: a deleted tuple stays in the object and is zeros in
the bytes. `BufferPool` has `pages`, `disk` and `fileLen`, and one operator for
each operation. A victim is any cached page (the code takes `begin()` of an
`unordered_map`). A read past the end of the file yields any page at all, since
`readPage` leaves its buffer uninitialised; a write past the end leaves zeros.

`HeapFile` adds `numPages`, the call in progress (`op`) and the record ids of
the tuple objects that clients hold (`rid`). One iteration of the probe loop is
one step (`Probe`), since each may evict and write a page and the process may
end between two; `NewPage` is the rest of a call that found no room. `Restart`
may happen at any time. A tuple object is identified with its content, so a
later insertion of the same tuple moves its record id, as in the code.

Two constants let trouble in. `Faults` is a set of failures and misuses: a
`pwrite` that fails, a discard of a page that was never written,
`resetBufferPool` with dirty pages, a caller of `HeapFile::deleteTuple` that
does not mark the page. `BadTuples` are tuples of another layout, for which
`HeapPage::insertTuple` throws.

`HeapTable` is what all this promises: rows, the older rows that are in the
file, and a crash that falls back to them. `ImplementsTable` maps the table's
rows to `Contents(p)` (the cached page, else the page in the file).

### 3.2 `HeapScan`

The pool once more, for a scan: `PagesMap` is keyed by pointers, and `operator++`
passes the address of the iterator's own `hpid`, which it overwrites at the next
page; `SeqScan::next` even advances a copy on its stack. A node of the map is
known by the page number it was hashed under (the standard library keeps the
hash in the node) and by its key: an *own* page id, or a *borrowed* one, which
may by now be any page's or none's (`Targets`). So a page that was scanned may
no longer be found and is read again, into one more node of the same hash
(`newNode`), as often as its borrowed keys have moved on; several nodes of one
page are told apart by a number. An eviction of such a node flushes whatever
page its key names now. The iterator holds a page object, which lives
on when the pool drops its node. The number of pages is fixed.

### 3.3 `SeqScan`, `Operator`

The scan seen from above, over a table that its clients change between two
calls: insertions (also of new pages), deletions (also of whole pages),
evictions of the page the iterator holds, and files without pages. Here pages
are looked up by page id; what pointer keys do is left to `HeapScan`. `Operator`
keeps one row fetched ahead. Its subclasses are stubs in this repository, so
that `fetchNext` is the plainest one: it passes on the tuples of its child. A
call that would dereference an iterator that is at no tuple sets `status` to
`"undefined"` and ends the behaviour. `DbIterator.h:41-43` has `rewind()` throw
on a closed iterator; `Operator` and `SeqScan` reopen silently, in the model as
in the code. `open()` is called on closed operators: an
operator that is opened twice keeps the row it had fetched.

### 3.4 `BTreePages`, `BTreeLeafPage`

Pure operators on slot arrays; the shift loops appear as the array they leave
behind, and `MCBTreeLeafPage` states the loops iteration by iteration, against
which that closed form is checked and proved. `BTreeLeafPage` is one leaf under any sequence of
insertions and deletions.

### 3.5 `BTreeFile`, `OrderedIndex`

`insertTuple` and `deleteTuple` of the whole file with everything they call, on
a tree whose pages stay in the pool: nothing is evicted or written back, so that
what `getEmptyPage` reads from the file is an empty page wherever it is read. A
tuple is its key and its record id. `OrderedIndex` (a multiset of keys) is what a
scan of the tree implements.

`getEmptyPage` writes the nine zeros of a root pointer page with `pwrite`
(`BTreeFile.cpp:363`). Where `pwrite` honours its offset they go to the page just
taken. Where it appends (3.6) they make the file nine bytes longer, each time a
page is taken or reused; page numbers come from the size of the file (line 516),
so that after some 456 of them a number is skipped, and that page is nobody's
for ever. Both are modelled (`appends`, `tail`, `zerosWritten`). So the file may
grow without bound: `MaxPages` is its bound where `pwrite` appends, and no bound
where it does not, as no more than `MaxEntries + 3` pages are ever in use.

`BTreeInternalPage::deleteEntry` asserts that the entry's table *differs* from
the page's, so it always fails, in `splitInternalPage` as well as at the end of
each merge. The default build keeps `assert` (`CMakeLists.txt` sets no build
type); `asserts` says whether the build does. With assertions the tree is a
leaf, or an internal page above leaves. Without them a merge completes: if the
parent loses its last entry, the leaf becomes the root and two pages are freed;
otherwise slot 1 of the parent is left empty, at which `begin()` is already
`end()`: every later insertion throws, while `deleteTuple`, which takes the page
from the record id, goes on and finds no siblings (outcome `"empty page"`).
`splitInternalPage` does not complete, as it reads the null right child that
`rbegin()` gives, once there are three entries and so at least one to move
(`ThreeEntries`; a page of the code has hundreds). The variable `outcome` says
what went wrong. The failures of `deleteEntry`'s assertion are its values
`"merge"` and `"internal page full"`: no property forbids them, since they are
what the code does. `EntriesAndTuplesValid` is about the other assertions, those
of `insertEntry` and `updateEntry`, and about `deleteTuple` and steals.

### 3.6 `BTreeHeaders`, `BTreeSpace`

`BTreeHeaders` has the list of header pages as a sequence of bitmaps, with the
arithmetic from page numbers to slots. `BTreeFile` uses it for the tree; there
one header page is always enough (theorem `HeaderLayout`, and `OneHeaderPage`).
`BTreeSpace` uses it for any client that takes pages and gives them back, so that the list grows,
while the pool writes pages back, evicts header pages and the root pointer page,
and reads them again. It models the file as cells: the root pointer page is
shorter than the others, `getEmptyPage` clears only that many cells,
`getNumPages` divides the size of the file. The file is opened with `O_APPEND`;
POSIX has `pwrite` write at its offset all the same, Linux appends. Both are modelled (`appends`).

Where `pwrite` honours its offset, a page that is read again is the one that was
written, and `headers` stays as it is. Where it appends, the bytes at the offset
of a header page are others (`reread`): the zeros of the page when it was new,
which say that every slot is free, or those of pages written back, which may say
anything (`misreadSlots`); the root pointer page reads as zeros, and names no
header page. From then on pages in use are handed out: without the condition
`~ last.misread` in `NeverTakenTwice`, TLC finds in seven steps that a page in
use is taken once more. `PagesAreSeparate` and `NeverTakenTwice` are therefore
claimed, where `pwrite` appends, only until the first header or root pointer
page is read again; `PagesLieInFile` and `TypeOK` are claimed after it too. The
model goes on with one more page taken and ends there, or stops at the
assertions of `readPage` (`mayTake`). An eviction and the next read are one step,
as nothing changes the bytes at that offset in between.

### 3.7 `Catalog`

Both maps, and `addTable` with its reads of erased map nodes: the node still
holds the old pointer, or the process ends.

### 3.8 `PageLayout`

The slot counts and header sizes that the four kinds of page compute from the
sizes of page, tuple and key, and where the last part ends. No steps: these are
theorems, and `MCBTreeLeafPage` has TLC evaluate them for small sizes.

## 4. Runs

Every passing run is exhaustive for its constants and bounds.

| Run | Bounds | Shows |
|---|---|---|
| `HeapFileCore` | 1 tuple, 2 transactions, 2 slots, 3 pages, pool of 2 | coherence of pool and file (`CleanMatchesDisk`, `PagesExist`, `ProbedPagesAreFull`, `DiskIsCanonical`, `WithinCapacity`), refinement of `HeapTable`, `InsertIsExact`, `InsertReturns` |
| `HeapFileFaults` | every fault, a bad tuple | capacity holds even then |
| `HeapScan` | 3 pages of 2 slots, pool of 2 with up to 2 borrowed nodes of a page, slot 0 deletable | `ScanReturnsEveryRow`, `ScanEnds`, `WithinCapacity`; a dirty page is lost only under a borrowed key (`OwnedPagesAreWrittenBack`) |
| `Operator` | 2 slots, up to 3 pages | `RowsComeOnceInOrder`, `NoRowIsMissed`, `NothingAfterClose`; where undefined behaviour is met (`UndefinedOnlyIf`) |
| `BTreeLeafPage` | 5 slots, 4 keys | order, record ids, shifts against loops |
| `BTreeFile` | 3 slots, 3 entries, 2 keys, trees of up to 7 tuples; both builds; both kinds of `pwrite`, root pointer page half a page, up to 6 pages | legality of the tree (`LinksAgree`, `KeysInRange`, `RecordIdsMatch`, `EntriesAndTuplesValid`), `PagesAccounted`, scans, `ImplementsIndex` |
| `BTreeSpace` | 2 slots per header page, 13 cells in pages of 2, both kinds of `pwrite` | under write-backs and evictions of header pages: `PagesAreSeparate`, `NeverTakenTwice`, `PagesLieInFile`, `LostPagesAreBoundaries`, `FreshPageIsBlank` |
| `Catalog` | 3 ids, 3 names | `RegisteredNamesResolve` |

The bounds are the smallest at which the cases differ: a pool smaller than the
table (evictions during an insertion and a scan, holes in the file), a page with
a used and an empty slot, a file that is empty and one that grows under a scan,
a leaf with a sibling on each side, equal keys on both sides of a split, a leaf
from which tuples can be stolen, a root that collapses and splits again into
freed pages, page numbers that are skipped, a list of several header pages that
are evicted. The largest are `BTreeSpace` with 719,192 states and `BTreeFile`
with 225,616. Trees with more than 7 tuples (`MaxTuples`) are checked and not
changed any further; 6 are enough for four leaves, one of them full, whose split
finds the internal page full. Three slots are the least at which a split moves
more than one tuple.

The runs that expect a violation each check one sentence of a header:

| Run | The code |
|---|---|
| `HeapFileDeleteInserts` | the pool's `deleteTuple` calls the file's `insertTuple` |
| `BTreeFileUnderflow` | the loop over the parent's entries never advances |
| `OperatorHasNext` | `hasNext()` is true where there is no tuple: in an empty file, on an emptied page, at the end of a file that has grown |
| `BTreeSpaceWrite` | a page written back is not read back where `pwrite` appends |

Other behaviours the models contain, and that bound what the passing runs can
claim, are these. A page is counted before the insertion into it throws, and a
failed write leaves the page marked clean: `PagesExist` and `CleanMatchesDisk`
hold only with `BadTuples = {}` and `Faults = {}`. A deleted tuple object keeps
its record id. A deletion during a scan is lost when its page is evicted under a
key that has moved on. A scan is trapped beyond the slots of a page that has
lost its last tuple, so `Deletable` in `HeapScan` leaves each page one; and a B+
tree iterator on an empty leaf is neither at a tuple nor at the end, where the
scan of the model counts no tuples. A predicate
selects the first leaf of an index scan and filters no tuple. A page whose
number is a multiple of the slots of a header page is lost when it is freed, as
its bit is looked for one past the end of the header page before. A page that is
reused keeps what was written to it behind its first nine bytes. `addTable` of a
registered file erases the map entry named by the old primary key field: the old
name stays in the map, whoever takes that name then drops the file, and a
primary key field that is the name of a table takes that table out of the name
map, so that `Catalog` keeps `PkeyFields` apart from `Names`. That leaves out the
empty name, which `Catalog.h:44` allows, together with the default primary key
field, which is empty too (line 50).

### Fairness

`HeapFile`: `WF(Probe \/ NewPage)`. A call that has begun is run by the only
thread, and nothing else starts meanwhile; only the end of the process cuts it
short. `HeapScan`: `WF(Advance)`. A client that scans calls `++` again after
finitely many other calls. The other modules have no liveness property: each of
their operations is one step, and whether a client calls again is its own
choice. `Operator` and `BTreeSpace` do not check deadlock: the one ends after
undefined behaviour, the other when its bound on the file is reached.

## 5. Proofs

TLAPS checks them for every value of the constants that satisfies the named
assumptions (sizes are positive, `Null` is none of the other values).

* `HeapFileProofs`: `TypeCorrect` and `CapacityRespected`, for **every** set of
  faults and bad tuples. The capacity needs that a victim is a cached page other
  than the one being added, so that the pool grows by one and shrinks by one.
* `HeapFileProofs`, pool and file, for `Faults = {}` and `BadTuples = {}`: the invariant
  `Inv`. None of `CleanMatchesDisk`, `PagesExist`, `DiskIsCanonical` and
  `ProbedPagesAreFull` is inductive alone. A clean page stays equal to the file
  only if reading it back gives what was written, which needs the used slots of
  every page object to be filled (`FramesAreFilled`) and the bytes to be
  canonical; that a probe reads no page past the end needs `PagesExist`, which
  in turn needs that only pages of the table are cached or written; and record
  ids and the loop index must lie within the table (`CallsInTable`). Each
  action's effect on the table is a lemma (`StoreEffect`, `ProbeEffect`, ...)
  that the refinement uses again.
* `HeapFileProofs`, the table: `Refinement`, that every step is a step of `HeapTable`
  or changes nothing that it sees, and `InsertExactness`. An insertion maps to
  `Insert` because the pages before it are full, which is `ProbedPagesAreFull`.
* `BTreePageLemmas` has the lemmas about slot arrays that `PageProofs` and
  `BTreeFileProofs` share. `InsertTupleOK`: an insertion keeps a leaf sorted and
  its record ids right and adds one tuple. The argument is that `source` is
  monotone and leaves out only the empty slot, and that `goodSlot` has the
  smaller keys below and the greater ones above it. `InsertTuplesOK` is the same
  for a sequence of tuples, by a least counterexample. `PageProofs` concludes
  `Sorted` and `RecordIdsMatch` for leaves of any size.
* `PageProofs`, loops: `ClosedFormIsTheLoops`, that `insertTuple` leaves what the
  loops of the source leave. The loops are recursive functions of the number of
  iterations. Those that move tuples have copied, after n iterations, the n
  slots next to the empty one. The loop that looks for the last key not greater
  than the new one stops at the first greater key, and since the leaf is sorted
  no later key could have been the last. `Iteration` gives a recursive function
  its equations, and `UpToN` carries what one step keeps from 0 to the last.
* `BTreeFileProofs`: the type invariant, `LinksAgree`, `KeysInRange`,
  `RecordIdsMatch`, `PagesAccounted` and `EntriesAndTuplesValid`, for any number
  of slots, three entries or more, any set of integer keys, both builds and both
  kinds of `pwrite`. They hold each
  other up, so that one invariant (`Inv`) has them all: the leaves are in order
  (`LeavesOK`); leaves, internal page, header pages and free pages are disjoint
  parts of the pages of the file, and all of them unless `pwrite` appends
  (`PagesOK`); and there is no tree, a leaf, an internal page above leaves, or
  the tree that a merge with entries left behind. In a tree, slots 0 to m of the
  internal page are used and have different children (`EntriesOK`), the children are the leaves and
  chained in this order (`LinkedOK`), keys are between those of the entries
  (`RangesOK`), and each leaf is at least half full (`FilledOK`). A split
  (`SplitTuples`, `SplitChildren`) needs that its new page is nobody's, which is
  `PagesOK`, and that exactly one entry has the split page as its child, so that
  the new one goes right behind it. `FilledOK` is what shows that a steal has
  something to move (`StealFacts`), and that what two leaves hold fits into one
  when they merge. One header page has room for every page of the file
  (`OneHeaderPage`), so that header pages never become a list here: `HeaderLayout`
  shows it for the pages of the tree, and where `pwrite` appends it is part of
  the bound `MaxPages`, as skipped numbers get ever larger. The orders in which a split, a steal or a merge goes through the
  slots, `upwards` and `downwards`, exist for every finite set of numbers
  (`Ranks`, `Upwards`, `Downwards`). A merge that leaves entries stops the
  process; links and keys still agree then (`ChainAfterMerge`,
  `RangesAfterMerge`). Only deletions go on there, and they disturb none of it.
* `BTreeFileProofs`, scans: `ScansMissNothing`. The leaves are a `Chain`, and an
  iterator that starts at its i-th leaf visits that leaf and those behind it.
  The entries up to the one whose child is found for a key are less than the
  key (`FindsOrdered`), since the search goes left of equal keys, and the leaves
  before that child have no keys above those entries, so that a scan leaves out
  only smaller keys (`OnlyLeftOut`). Each leaf's keys ascend,
  and the keys of the entries separate those of one leaf from those of the next
  (`SeparatedAscend`), so a scan of the whole tree ascends.
* `BTreeFileProofs`, the index: `Refinement`, that every step is a step of
  `OrderedIndex` or leaves its multiset of keys alone. How often a key occurs is
  the size of a set of pairs of a leaf and a slot. One lemma per step of the
  code says how these sizes change: an insertion `Adds` one, a deletion `Loses`
  one, and splits, steals and merges, which move tuples between two leaves, keep
  what the two hold together (`TwoLeavesCounts`). Since a scan visits every leaf
  (`InvScansAll`), the counts are those that a scan returns. That also holds of
  the tree that a merge with entries left behind.
* `CatalogProofs`: `NamesResolve`, from `PkeyFields \cap Names = {}`.
  `RegisteredNamesResolve` is inductive with the types: if another file has the
  name that is added, the invariant says that the name map names that very file,
  so `addTable` erases its id.
* `PageProofs`, layouts: for every size of page, tuple and key, a heap page is
  filled exactly and its bitmap is large enough (`HeapLayout`; the header is
  what the tuples leave over, 64 bytes for pages of 4096 and tuples of 8 where
  `HeapPage.h` speaks of `ceiling(slots / 8)`, which is 63); a leaf is twelve
  bytes too long, since its header size does not take off the three page numbers
  (`LeafLayout`); an internal page is at most one byte too long, which pages of
  4096 bytes with integer keys are not (`InternalLayout`). Each follows from
  `b * (a \div b) <= a` once the products of two sizes have names.
* `OperatorProofs`: all properties of `Operator`, for any numbers of slots and
  pages. `RowsComeOnceInOrder` is about rows that came out; to keep it, the row
  fetched ahead must come after them and the iterator after both (`OrderInv`).
  `NoRowIsMissed` needs that a due row which the iterator has passed is out or is
  the row fetched ahead (`ScanInv`), and for that the page object the iterator
  holds has to hold the due rows of its page (`IteratorSees`), also after the
  page was evicted and changed. Rows are never due beyond the pages the iterator
  counted. `UndefinedOnlyIf` follows from the same: an iterator with a due row in
  its page is at a tuple.
* `HeapScanProofs`: `WithinCapacity`, `ScanReturnsEveryRow` and
  `OwnedPagesAreWrittenBack`, wherever borrowed keys point by now. A flush may
  write the wrong page object, and a page may have two objects in the pool; what
  saves the scan is that every copy of a page, in the file and in each node, has
  all the rows that nobody deleted (`Keeps`), and so has the object that the
  iterator reads, in the pool or dropped from it (`ViewIsComplete`). The
  capacity counts every node, also several of one page. It needs that a node is
  evicted before one is added, that a victim is a node of the pool, and that the
  node added is a new one: a page with all its borrowed numbers taken would fill
  the pool by itself (`FreeNumber`).
* `BTreeSpaceProofs`: all properties of `BTreeSpace`, for any page size and any
  number of slots of a header page, whichever `pwrite` does and whatever is
  evicted; `SpaceSeparation` and `SpaceNoReuse`, where `pwrite` appends, until a
  header or root pointer page is read again. The invariant
  (`SpaceOK`) adds to `PagesAreSeparate` that all pages are within
  `getNumPages()`, so that a page beyond it is nobody's, and, where `pwrite`
  writes at its offset, that the file is whole pages, so that the new page is the
  one just appended. That marking a slot touches one page only is `SlotOfPage`:
  a number determines its header page and slot. The zeros of new pages come from
  `UnwrittenIsZero`. `setEmptyPage` adds header pages in a loop; the states after
  n iterations are the function `headersAdded`, whose existence (`Iterations`)
  and invariant (`HeadersAdded`) are proved by a least counterexample, as the
  library's induction theorems cannot be instantiated.

The assumptions are needed: with `"writeError"` or with bad tuples in
`HeapFileCore.cfg`, TLC refutes `CleanMatchesDisk` and `PagesExist`; with a
primary key field among the names it refutes `RegisteredNamesResolve`.
`NullIsNoRow`, `NullIsNoNode`, `NullIsNoObject` and `NullIsNone` say that a null
pointer is no row, node, page object or B+ tree page, `RootFitsPage` that the nine bytes of a root pointer
page are no more than a page: without it, clearing a page that was taken could
reach the next one.

Only model-checked: `InsertReturns` and `ScanEnds`, as liveness is out of the
prover's reach. The properties of the runs that expect a violation are refuted
by TLC and not proved.

## 6. Not modelled

* The operators above `Operator` and the optimizer: their bodies are empty.
* Trees of height three: no run of the program reaches one (3.5), so that
  `mergeInternalPages`, `stealFromLeftInternalPage` and
  `stealFromRightInternalPage` are left out.
* Bytes: integers and strings are values. The constructors of B+ tree pages do
  not invert `getPageData`: an internal page reads all its children from its
  first four bytes (`BTreeInternalPage.cpp:190`) and a leaf writes all fields of
  a tuple at one place (`BTreeLeafPage.cpp:287`). `BTreeFile` keeps its pages in
  the pool, and `BTreeSpace` tells only blank cells from others.
* Several tables in one pool: keys of two tables never compare equal, and a
  second table would only take room in the pool, as `PoolCall` does.
  `SeqScan::reset` keeps its table.
* Values: `Tuple`, `TupleDesc`, fields and predicates have no state.
* Memory: pages, page ids and tuples are never freed by the code.
