------------------------------- MODULE BTreeSpace -------------------------------
(***************************************************************************)
(* The pages of a B+ tree file: getEmptyPage, setEmptyPage, readPage and   *)
(* writePage of db/BTreeFile.cpp, for a client (the tree) that takes pages *)
(* and gives them back, while the buffer pool writes pages back, evicts    *)
(* header pages and the root pointer page, and reads them again.           *)
(*                                                                         *)
(* The file is a sequence of cells: the root pointer page, RootSize cells, *)
(* and then pages of PageSize cells.  A cell is 0, or 1 if it comes from a *)
(* page that was written back and may be anything.                         *)
(*                                                                         *)
(* The file is opened with O_APPEND.  By POSIX pwrite still writes at its  *)
(* offset; on Linux it appends.  `appends` is which of the two the system  *)
(* does.  getEmptyPage also writes RootSize zeros with pwrite: where that  *)
(* appends, the pages are no longer where their numbers say, and a header  *)
(* page that was evicted is read from a place where something else is.     *)
(***************************************************************************)
EXTENDS BTreeHeaders, FiniteSets

CONSTANTS
    RootSize,   \* BTreeRootPtrPage::getPageSize()
    PageSize,   \* BufferPool::getPageSize()
    MaxSize     \* bound on the cells of the file

ASSUME SpaceConstants ==
    /\ RootSize \in Nat \ {0}
    /\ PageSize \in Nat \ {0}
    /\ MaxSize \in Nat

(* BTreeRootPtrPage::PAGE_SIZE is 9; the pages of a tree hold at least     *)
(* three page numbers, 12 bytes.                                           *)
ASSUME RootFitsPage == RootSize <= PageSize

VARIABLES
    file,      \* the cells of the file
    headers,   \* the header pages, from BTreeRootPtrPage::header on
    inUse,     \* the pages the tree has taken
    appends,   \* pwrite appends
    last       \* history: the last operation on a page; whether a page was
               \* written back, and one read again where pwrite appends

vars == <<file, headers, inUse, appends, last>>

cells(n, c) == [i \in 1 .. n |-> c]

blank == cells(PageSize, 0)

(* Bug variant: the root pointer page counts as a page. *)
getNumPagesAndRoot(f) == (Len(f) - RootSize) \div PageSize + 1

(* getNumPages: from the size of the file. *)
getNumPages(f) == (Len(f) - RootSize) \div PageSize

(* The offset of a page; the root pointer page is page 0. *)
offset(p) == IF p = 0 THEN 0 ELSE RootSize + (p - 1) * PageSize

(* readPage: what is at the offset of page p.  *)
readPage(f, p) == SubSeq(f, offset(p) + 1, offset(p) + PageSize)

larger(m, n) == IF m > n THEN m ELSE n

(* pwrite of the cells d at offset o. *)
pwrite(f, d, o) ==
    IF appends THEN f \o d
    ELSE [i \in 1 .. larger(Len(f), o + Len(d)) |->
            CASE i \in o + 1 .. o + Len(d) -> d[i - o]
              [] i \in DOMAIN f \ (o + 1 .. o + Len(d)) -> f[i]
              [] OTHER -> 0]

Init ==
    /\ file = <<>>
    /\ headers = <<>>
    /\ inUse = {}
    /\ appends \in BOOLEAN
    /\ last = [op |-> "none", page |-> 0, wrote |-> FALSE, misread |-> FALSE]

did(op, p) == last' = [last EXCEPT !.op = op, !.page = p]

fits == Len(file') <= MaxSize

-------------------------------------------------------------------------------
(* The first access to the tree: getRootPtrPage writes the root pointer    *)
(* page and an empty leaf, which is the tree's root.                       *)
Create ==
    /\ file = <<>>
    /\ file' = pwrite(pwrite(<<>>, cells(RootSize, 0), 0), blank, RootSize)
    /\ inUse' = {getNumPages(file')}
    /\ did("take", getNumPages(file'))
    /\ fits
    /\ UNCHANGED <<headers, appends>>

(* The space: the file and its header pages. *)
space == [file |-> file, headers |-> headers]

reuses(sp) == withEmptySlot(sp.headers) # {}

(* Bug variant: the new page's data is not cleared. *)
grownDirty(sp) == sp.file \o cells(PageSize, 1)

(* createEmptyPageData, and write, which appends. *)
grown(sp) == sp.file \o blank

(* Bug variant: the size is taken before the new page is written. *)
getEmptyPageNoEarly(sp) ==
    IF reuses(sp) THEN freePage(sp.headers) ELSE getNumPages(sp.file)

(* getEmptyPageNo: a free page, else the last page of the file once an     *)
(* empty page was appended to it.                                          *)
getEmptyPageNo(sp) ==
    IF reuses(sp) THEN freePage(sp.headers) ELSE getNumPages(grown(sp))

(* getEmptyPage, with the zeros it writes to the page: RootSize of them.   *)
getEmptyPage(sp) ==
    [file |-> pwrite(IF reuses(sp) THEN sp.file ELSE grown(sp),
                     cells(RootSize, 0), offset(getEmptyPageNo(sp))),
     headers |-> IF reuses(sp) THEN markTaken(sp.headers) ELSE sp.headers]

(* Once header pages were misread the number may be 0, or that of a page   *)
(* beyond the file, at which readPage's assertions stop the process; after *)
(* one more page the model ends (bound).                                   *)
mayTake ==
    last.misread =>
        last.op = "evict" /\ getEmptyPageNo(space) \in 1 .. getNumPages(file')

(* The tree takes a page. *)
GetEmptyPage ==
    /\ file # <<>>
    /\ file' = getEmptyPage(space).file
    /\ headers' = getEmptyPage(space).headers
    /\ inUse' = inUse \cup {getEmptyPageNo(space)}
    /\ did(IF reuses(space) THEN "reuse" ELSE "take", getEmptyPageNo(space))
    /\ mayTake
    /\ fits
    /\ UNCHANGED appends

(* One more header page, which is itself a page that getEmptyPage gives. *)
addHeader(sp) ==
    [getEmptyPage(sp) EXCEPT !.headers = Append(@, init(getEmptyPageNo(sp)))]

(* The space once n header pages were added. *)
headersAdded[n \in Nat] == IF n = 0 THEN space ELSE addHeader(headersAdded[n - 1])

(* The first header page, and others until one is for page p. *)
withHeaderFor(p) == headersAdded[larger(headerOf(p) - Len(headers), 0)]

(* setEmptyPage: the tree gives page p back. *)
SetEmptyPage(p) ==
    /\ ~ last.misread
    /\ p \in inUse
    /\ file' = withHeaderFor(p).file
    /\ headers' = markFree(withHeaderFor(p).headers, p)
    /\ inUse' = inUse \ {p}
    /\ did("free", p)
    /\ fits
    /\ UNCHANGED appends

(* The file once page p (0: the root pointer page) is written back. *)
writePage(p) == pwrite(file, cells(IF p = 0 THEN RootSize ELSE PageSize, 1), offset(p))

(* The pool flushes page p, which stays in the pool or is of the tree. *)
WritePage(p) ==
    /\ file # <<>>
    /\ ~ last.misread
    /\ p \in inUse \cup headerPages(headers) \cup {0}
    /\ file' = writePage(p)
    /\ last' = [op |-> "write", page |-> p, wrote |-> TRUE, misread |-> FALSE]
    /\ fits
    /\ UNCHANGED <<headers, inUse, appends>>

(* What the slots of header page p may say once it is read from file f     *)
(* where pwrite appends: zeros are free slots, other cells are anything.   *)
misreadSlots(f, p) == IF readPage(f, p) = blank THEN {HeaderSlot} ELSE SUBSET HeaderSlot

(* Where header page p is in the list. *)
position(p) == CHOOSE i \in DOMAIN headers : headers[i].page = p

(* The header pages once p is read again.  A pwrite at its offset has left *)
(* there what was written.  Where it appends the root pointer page is      *)
(* still the zeros of Create, and names no header page; another page names *)
(* no next one if it is zeros, and what it names otherwise is not followed *)
(* (bound).                                                                *)
reread(f, p) ==
    IF ~ appends THEN {headers}
    ELSE IF p = 0 THEN {<<>>}
    ELSE { Append(SubSeq(headers, 1, position(p) - 1), [page |-> p, free |-> S]) :
             S \in misreadSlots(f, p) }

(* The pool evicts header page p, or the root pointer page, and reads it   *)
(* again.  Its callers have marked what they changed (as insertTuple of    *)
(* the pool does); a page that is clean is not written, and the model does *)
(* not follow which are.                                                   *)
EvictPage(p) ==
    /\ file # <<>>
    /\ ~ last.misread
    /\ p \in headerPages(headers) \cup {0}
    /\ \E dirty \in BOOLEAN :
        /\ file' = IF dirty THEN writePage(p) ELSE file
        /\ last' = [op |-> "evict", page |-> p, wrote |-> last.wrote \/ dirty,
                    misread |-> appends]
    /\ headers' \in reread(file', p)
    /\ fits
    /\ UNCHANGED <<inUse, appends>>

Next ==
    \/ Create
    \/ GetEmptyPage
    \/ \E p \in inUse : SetEmptyPage(p)
    \/ \E p \in inUse \cup headerPages(headers) \cup {0} : WritePage(p)
    \/ \E p \in headerPages(headers) \cup {0} : EvictPage(p)

Spec == Init /\ [][Next]_vars

-------------------------------------------------------------------------------
(* Properties.                                                             *)

(* The variables have their types. *)
TypeOK ==
    /\ file \in Seq({0, 1}) /\ Len(file) <= MaxSize
    /\ headers \in Seq([page : Nat \ {0}, free : SUBSET HeaderSlot])
    /\ inUse \subseteq 1 .. MaxSize
    /\ appends \in BOOLEAN
    /\ last \in [op : {"none", "take", "reuse", "free", "write", "evict"},
                 page : 0 .. MaxSize, wrote : BOOLEAN, misread : BOOLEAN]

(* A page is never two things at once: taken, a header page, free; and no  *)
(* page is two header pages, through any order of takes, frees, new header *)
(* pages, and header pages evicted and read again.  Where pwrite appends   *)
(* this ends with the first header or root pointer page that is read       *)
(* again: its slots are not the ones that were written.                    *)
PagesAreSeparate == ~ last.misread =>
    /\ inUse \cap freePages(headers) = {}
    /\ headerPages(headers) \cap (inUse \cup freePages(headers)) = {}
    /\ Cardinality(headerPages(headers)) = Len(headers)
    /\ 0 \notin inUse \cup headerPages(headers) \cup freePages(headers)

(* The page that getEmptyPage gives the tree is nobody's, as long as no    *)
(* header page was read from where another page was appended.              *)
NeverTakenTwice ==
    [][ ~ last.misread /\ last'.op \in {"take", "reuse"} =>
            last'.page \notin inUse \cup headerPages(headers) ]_vars

(* Every page that is taken or a header lies in the file: readPage's       *)
(* assertion that it got a whole page holds.                               *)
PagesLieInFile ==
    \A p \in inUse \cup headerPages(headers) : offset(p) + PageSize <= Len(file)

(* Where pwrite writes at its offset, the pages that are lost (neither     *)
(* taken, nor free, nor headers) are at most those whose bit is missed in  *)
(* markSlotUsed, the multiples of HeaderSlots.                             *)
LostPagesAreBoundaries ==
    ~ appends =>
        \A p \in 1 .. getNumPages(file) :
            p \notin inUse \cup headerPages(headers) \cup freePages(headers)
                => p % HeaderSlots = 0

(* A page that was just taken reads as an empty one, unless something was  *)
(* written back: getEmptyPage clears only RootSize cells of a page that is *)
(* reused, and where pwrite appends the page may begin in an older one.    *)
FreshPageIsBlank ==
    \/ last.op = "take" /\ ~ (appends /\ last.wrote)
    \/ last.op = "reuse" /\ ~ last.wrote
    => readPage(file, last.page) = blank

-------------------------------------------------------------------------------
(* What the headers say, and the code does not do.                         *)

(* DbFile.h:29: the page number "specifies the offset into the file where  *)
(* the page should be written": a page that was written is read back.      *)
WrittenPageIsReadBack ==
    last.op = "write" /\ last.page # 0 =>
        readPage(file, last.page) = cells(PageSize, 1)

===============================================================================
