--------------------------- MODULE BTreeSpaceProofs ---------------------------
(***************************************************************************)
(* Proofs about BTreeSpace, for any size of page and any number of slots   *)
(* of a header page: no page of a B+ tree file is two things at once, the  *)
(* pages lie in the file, few are lost and the new ones are blank.         *)
(***************************************************************************)
EXTENDS BTreeSpace, FiniteSetTheorems, SequenceTheorems, WellFoundedInduction, TLAPS

-------------------------------------------------------------------------------
(* The inductive invariant.                                                *)

Header == [page : Nat \ {0}, free : SUBSET HeaderSlot]

zeros(f) == \A i \in DOMAIN f : f[i] = 0

(* A file f, its header pages hs and the pages U that the tree has taken:  *)
(* all pages are in the file and each is one thing.  Where pwrite does not *)
(* append, the file is whole pages and only boundary pages are lost.       *)
SpaceOK(f, hs, U) ==
    /\ f \in Seq({0, 1}) /\ Len(f) >= RootSize
    /\ hs \in Seq(Header)
    /\ U \cup headerPages(hs) \cup freePages(hs) \subseteq 1 .. getNumPages(f)
    /\ U \cap freePages(hs) = {}
    /\ headerPages(hs) \cap (U \cup freePages(hs)) = {}
    /\ IsFiniteSet(headerPages(hs)) /\ Cardinality(headerPages(hs)) = Len(hs)
    /\ ~ appends =>
        /\ Len(f) = RootSize + PageSize * getNumPages(f)
        /\ \A p \in 1 .. getNumPages(f) :
              p \notin U \cup headerPages(hs) \cup freePages(hs) => p % HeaderSlots = 0

(* What is left of it once a header page was misread. *)
MisreadOK ==
    /\ appends
    /\ file \in Seq({0, 1}) /\ Len(file) >= RootSize
    /\ inUse \cup headerPages(headers) \subseteq 1 .. getNumPages(file)

(* Nothing before the first access; then SpaceOK until a page is misread. *)
StartedOK ==
    \/ file = <<>> /\ headers = <<>> /\ inUse = {} /\ ~ last.misread
    \/ file # <<>> /\ ~ last.misread /\ SpaceOK(file, headers, inUse)
    \/ file # <<>> /\ last.misread /\ MisreadOK

(* Only pages that are written back bring other cells than zeros. *)
UnwrittenIsZero == ~ last.wrote => zeros(file)

Inv == TypeOK /\ StartedOK /\ UnwrittenIsZero /\ FreshPageIsBlank

-------------------------------------------------------------------------------
(* Page numbers and sizes.                                                 *)

(* A set of naturals has a least element. *)
LEMMA LeastNumber ==
    ASSUME NEW S, S \subseteq Nat, S # {}
    PROVE  first(S) \in S /\ \A y \in S : first(S) <= y
<1> DEFINE R == { ss \in Nat \X Nat : ss[1] < ss[2] }
<1>1. IsWellFoundedOn(R, Nat)
  BY NatLessThanWellFounded DEF OpToRel
<1>2. PICK x \in S : \A y \in S : <<y, x>> \notin R
  <2> HIDE DEF R
  <2> QED BY <1>1, WFMin
<1>3. ASSUME NEW y \in S PROVE x <= y
  <2>1. x \in Nat /\ y \in Nat
    OBVIOUS
  <2>2. ~ (y < x)
    BY <1>2, <2>1
  <2> QED BY <2>1, <2>2
<1> QED BY <1>3 DEF first

(* A product of naturals is monotone and at least its factors. *)
LEMMA Products ==
    ASSUME NEW c \in Nat \ {0}, NEW a \in Nat, NEW b \in Nat
    PROVE  /\ c * a \in Nat
           /\ a <= b => c * a <= c * b
           /\ a < b => c * a + c <= c * b
           /\ a <= c * a
<1>1. c * a \in Nat /\ a <= c * a
  OBVIOUS
<1>2. ASSUME a <= b PROVE c * a <= c * b
  <2>1. PICK k \in Nat : b = a + k
    <3>1. b - a \in Nat /\ b = a + (b - a)
      BY <1>2
    <3> QED BY <3>1
  <2>2. c * b = c * a + c * k /\ c * k \in Nat
    BY <2>1
  <2> QED BY <1>1, <2>2
<1>3. ASSUME a < b PROVE c * a + c <= c * b
  <2>1. PICK k \in Nat : b = a + 1 + k
    <3>1. b - a - 1 \in Nat /\ b = a + 1 + (b - a - 1)
      BY <1>3
    <3> QED BY <3>1
  <2>2. c * b = c * a + c + c * k /\ c * k \in Nat
    BY <2>1
  <2> QED BY <1>1, <2>2
<1> QED BY <1>1, <1>2, <1>3

(* getNumPages rounds down. *)
LEMMA NumPages ==
    ASSUME NEW f, Len(f) \in Nat, Len(f) >= RootSize
    PROVE  /\ getNumPages(f) \in Nat
           /\ PageSize * getNumPages(f) <= Len(f) - RootSize
           /\ Len(f) - RootSize < PageSize * getNumPages(f) + PageSize
<1> DEFINE a == Len(f) - RootSize
           q == a \div PageSize
<1>1. a \in Nat /\ PageSize \in Nat \ {0}
  BY SpaceConstants
<1>2. getNumPages(f) = q
  BY DEF getNumPages
<1> HIDE DEF a
<1>3. q \in Nat /\ PageSize * q <= a /\ a < PageSize * q + PageSize
  BY <1>1
<1> HIDE DEF q
<1> QED BY <1>2, <1>3 DEF a

(* A file of n whole pages, and less than one more, has n pages. *)
LEMMA NumPagesIs ==
    ASSUME NEW f, Len(f) \in Nat, NEW n \in Nat,
           Len(f) >= RootSize + PageSize * n, Len(f) < RootSize + PageSize * n + PageSize
    PROVE  getNumPages(f) = n
<1> DEFINE m == getNumPages(f)
<1>1. PageSize \in Nat \ {0} /\ RootSize \in Nat /\ PageSize * n \in Nat
  BY SpaceConstants
<1>2. /\ m \in Nat /\ PageSize * m <= Len(f) - RootSize
      /\ Len(f) - RootSize < PageSize * m + PageSize
  BY <1>1, NumPages
<1> HIDE DEF m
<1>3. PageSize * m \in Nat
  BY <1>1, <1>2
<1>4. ~ (m < n)
  BY <1>1, <1>2, <1>3, Products
<1>5. ~ (n < m)
  BY <1>1, <1>2, <1>3, Products
<1> QED BY <1>2, <1>4, <1>5 DEF m

(* A longer file has no fewer pages, and one that is a page longer has one *)
(* more at least.                                                          *)
LEMMA MorePages ==
    ASSUME NEW f, Len(f) \in Nat, Len(f) >= RootSize, NEW g, Len(g) \in Nat
    PROVE  /\ Len(f) <= Len(g) => getNumPages(f) <= getNumPages(g)
           /\ Len(g) = Len(f) + PageSize => getNumPages(g) = getNumPages(f) + 1
<1> DEFINE m == getNumPages(f)
           n == getNumPages(g)
<1>1. PageSize \in Nat \ {0} /\ RootSize \in Nat
  BY SpaceConstants
<1>2. /\ m \in Nat /\ PageSize * m <= Len(f) - RootSize
      /\ Len(f) - RootSize < PageSize * m + PageSize
  BY <1>1, NumPages
<1>3. ASSUME Len(f) <= Len(g) PROVE m <= n
  <2>1. /\ n \in Nat /\ PageSize * n <= Len(g) - RootSize
        /\ Len(g) - RootSize < PageSize * n + PageSize
    BY <1>1, <1>3, NumPages
  <2> HIDE DEF m, n
  <2>2. PageSize * m \in Nat /\ PageSize * n \in Nat
    BY <1>1, <1>2, <2>1
  <2>3. ~ (n < m)
    BY <1>1, <1>2, <1>3, <2>1, <2>2, Products
  <2> QED BY <1>2, <2>1, <2>3
<1>4. ASSUME Len(g) = Len(f) + PageSize PROVE n = m + 1
  <2> HIDE DEF m
  <2>1. PageSize * (m + 1) = PageSize * m + PageSize /\ PageSize * m \in Nat
    BY <1>1, <1>2
  <2>2. Len(g) >= RootSize + PageSize * (m + 1)
        /\ Len(g) < RootSize + PageSize * (m + 1) + PageSize
    BY <1>1, <1>2, <1>4, <2>1
  <2> QED BY <1>2, <2>2, NumPagesIs
<1> QED BY <1>3, <1>4

(* A page of the file lies in it. *)
LEMMA PageInFile ==
    ASSUME NEW f, Len(f) \in Nat, Len(f) >= RootSize, NEW p \in 1 .. getNumPages(f)
    PROVE  /\ offset(p) \in Nat /\ offset(p) = RootSize + PageSize * (p - 1)
           /\ offset(p) + PageSize <= Len(f)
<1> DEFINE n == getNumPages(f)
<1>1. PageSize \in Nat \ {0} /\ RootSize \in Nat
  BY SpaceConstants
<1>2. n \in Nat /\ PageSize * n <= Len(f) - RootSize
  BY <1>1, NumPages
<1> HIDE DEF n
<1>3. p \in Nat /\ p - 1 \in Nat /\ p - 1 < n /\ p # 0
  BY <1>2 DEF n
<1>4. PageSize * (p - 1) + PageSize <= PageSize * n /\ PageSize * (p - 1) \in Nat
      /\ PageSize * n \in Nat
  BY <1>1, <1>2, <1>3, Products
<1>5. offset(p) = RootSize + PageSize * (p - 1)
  BY <1>1, <1>3 DEF offset
<1> QED BY <1>1, <1>2, <1>4, <1>5

-------------------------------------------------------------------------------
(* Header pages.                                                           *)

(* A page number names one slot of one header page. *)
LEMMA SlotOfPage ==
    ASSUME NEW i \in Nat \ {0}, NEW k \in Nat \ {0}, NEW s \in HeaderSlot, NEW t \in HeaderSlot,
           pageOfSlot(i, s) = pageOfSlot(k, t)
    PROVE  i = k /\ s = t
<1>1. /\ HeaderSlots \in Nat \ {0} /\ i - 1 \in Nat /\ k - 1 \in Nat
      /\ s \in Nat /\ s < HeaderSlots /\ t \in Nat /\ t < HeaderSlots
  BY HeaderConstants DEF HeaderSlot
<1> DEFINE a == HeaderSlots * (i - 1)
           b == HeaderSlots * (k - 1)
<1>2. a + s = b + t
  BY <1>1 DEF pageOfSlot
<1>3. /\ a \in Nat /\ b \in Nat
      /\ i - 1 < k - 1 => a + HeaderSlots <= b
      /\ k - 1 < i - 1 => b + HeaderSlots <= a
  BY <1>1, Products
<1>4. i - 1 = k - 1 => a = b
  OBVIOUS
<1> HIDE DEF a, b
<1>5. i - 1 = k - 1
  BY <1>1, <1>2, <1>3
<1> QED BY <1>1, <1>2, <1>3, <1>4, <1>5

(* The header page and the slot that setEmptyPage looks for; only for the  *)
(* multiples of HeaderSlots is the slot not in the header page.            *)
LEMMA HeaderOf ==
    ASSUME NEW p \in Nat \ {0}
    PROVE  /\ headerOf(p) \in Nat \ {0}
           /\ pageOfSlot(headerOf(p), p - (headerOf(p) - 1) * HeaderSlots) = p
           /\ p - (headerOf(p) - 1) * HeaderSlots \in HeaderSlot \/ p % HeaderSlots = 0
<1> DEFINE S == { i \in 1 .. p + 1 : i * HeaderSlots >= p }
           h == headerOf(p)
<1>1. HeaderSlots \in Nat \ {0}
  BY HeaderConstants
<1>2. S \subseteq Nat /\ S # {}
  <2>1. p <= HeaderSlots * p /\ p * HeaderSlots = HeaderSlots * p
    BY <1>1, Products
  <2>2. p \in S
    BY <1>1, <2>1
  <2> QED BY <2>2
<1>3. h \in S /\ \A y \in S : h <= y
  <2>1. h = first(S)
    BY DEF headerOf
  <2> HIDE DEF S, h
  <2> QED BY <1>2, <2>1, LeastNumber
<1>4. h \in Nat \ {0} /\ h * HeaderSlots >= p /\ h <= p + 1
  <2> HIDE DEF h
  <2> QED BY <1>3
<1>5. (h - 1) * HeaderSlots < p
  <2>1. CASE h = 1
    BY <1>1, <2>1
  <2>2. CASE h # 1
    <3>1. h - 1 \in 1 .. p + 1 /\ h - 1 \notin S
      <4> HIDE DEF h
      <4>1. h - 1 \in 1 .. p + 1
        BY <1>4, <2>2
      <4>2. ~ (h <= h - 1)
        BY <1>4
      <4> QED BY <1>3, <4>1, <4>2
    <3> HIDE DEF h
    <3>2. ~ ((h - 1) * HeaderSlots >= p)
      BY <3>1
    <3> QED BY <1>1, <1>4, <3>2
  <2> QED BY <2>1, <2>2
<1> DEFINE b == (h - 1) * HeaderSlots
<1>6. h * HeaderSlots = b + HeaderSlots /\ b \in Nat
  <2> HIDE DEF h
  <2> QED BY <1>1, <1>4
<1>7. p - b \in HeaderSlot \/ p - b = HeaderSlots
  <2> HIDE DEF b, h
  <2> QED BY <1>1, <1>4, <1>5, <1>6 DEF HeaderSlot, b
<1>8. ASSUME p - b = HeaderSlots PROVE p % HeaderSlots = 0
  <2>1. p = HeaderSlots * h
    <3> HIDE DEF h, b
    <3> QED BY <1>1, <1>4, <1>6, <1>8
  <2> HIDE DEF h, b
  <2> QED BY <1>1, <1>4, <2>1
<1>9. pageOfSlot(h, p - b) = p
  <2>1. pageOfSlot(h, p - b) = b + (p - b)
    BY DEF pageOfSlot
  <2> HIDE DEF b, h
  <2> QED BY <1>6, <2>1
<1> QED BY <1>4, <1>7, <1>8, <1>9

(* What it is to be marked free. *)
LEMMA FreePages ==
    ASSUME NEW hs, NEW q
    PROVE  q \in freePages(hs) <=>
               \E i \in DOMAIN hs : \E s \in hs[i].free : q = pageOfSlot(i, s)
BY DEF freePages

(* Header i is replaced by e, of the same page. *)
LEMMA ReplacedHeader ==
    ASSUME NEW hs \in Seq(Header), NEW i \in DOMAIN hs, NEW e \in Header, e.page = hs[i].page
    PROVE  /\ [hs EXCEPT ![i] = e] \in Seq(Header)
           /\ Len([hs EXCEPT ![i] = e]) = Len(hs)
           /\ headerPages([hs EXCEPT ![i] = e]) = headerPages(hs)
<1> DEFINE gs == [hs EXCEPT ![i] = e]
<1>1. DOMAIN hs = 1 .. Len(hs) /\ Len(hs) \in Nat
  OBVIOUS
<1>2. gs \in Seq(Header) /\ Len(gs) = Len(hs)
  BY <1>1, ExceptSeq
<1>3. DOMAIN gs = DOMAIN hs /\ \A k \in DOMAIN hs : gs[k].page = hs[k].page
  OBVIOUS
<1> HIDE DEF gs
<1>4. headerPages(gs) = headerPages(hs)
  BY <1>3 DEF headerPages
<1> QED BY <1>2, <1>4 DEF gs

(* getEmptyPageNo takes a free page, and marks that page and no other. *)
LEMMA MarkTaken ==
    ASSUME NEW hs \in Seq(Header), withEmptySlot(hs) # {}
    PROVE  /\ freePage(hs) \in freePages(hs)
           /\ markTaken(hs) \in Seq(Header) /\ Len(markTaken(hs)) = Len(hs)
           /\ headerPages(markTaken(hs)) = headerPages(hs)
           /\ freePages(markTaken(hs)) = freePages(hs) \ {freePage(hs)}
<1> DEFINE i == first(withEmptySlot(hs))
           s == getEmptySlot(hs[i])
           gs == markTaken(hs)
<1>1. DOMAIN hs = 1 .. Len(hs) /\ Len(hs) \in Nat /\ \A k \in DOMAIN hs : hs[k] \in Header
  OBVIOUS
<1>2. i \in DOMAIN hs /\ hs[i].free # {}
  <2>1. withEmptySlot(hs) \subseteq Nat
    BY <1>1 DEF withEmptySlot
  <2>2. i \in withEmptySlot(hs)
    BY <2>1, LeastNumber
  <2> HIDE DEF i
  <2> QED BY <2>2 DEF withEmptySlot
<1>3. \A k \in DOMAIN hs : k \in Nat \ {0} /\ hs[k].free \in SUBSET HeaderSlot
  BY <1>1 DEF Header
<1>4. s \in hs[i].free
  <2>1. hs[i].free \subseteq Nat
    <3> HIDE DEF i
    <3>1. hs[i].free \subseteq 0 .. HeaderSlots - 1
      BY <1>2, <1>3 DEF HeaderSlot
    <3> QED BY <3>1, HeaderConstants
  <2> HIDE DEF i
  <2> QED BY <1>2, <2>1, LeastNumber DEF getEmptySlot
<1>5. freePage(hs) = pageOfSlot(i, s)
  BY DEF freePage
<1>6. gs = [hs EXCEPT ![i].free = hs[i].free \ {s}]
  BY DEF markTaken
<1> HIDE DEF i, s, gs
<1>7. hs[i].free \ {s} \in SUBSET HeaderSlot
  BY <1>2, <1>3
<1>8. /\ gs \in Seq(Header) /\ Len(gs) = Len(hs) /\ DOMAIN gs = DOMAIN hs
      /\ headerPages(gs) = headerPages(hs)
      /\ gs[i].free = hs[i].free \ {s}
      /\ \A k \in DOMAIN hs : k # i => gs[k].free = hs[k].free
  <2> DEFINE e == [hs[i] EXCEPT !.free = hs[i].free \ {s}]
  <2>1. gs = [hs EXCEPT ![i] = e]
    BY <1>6
  <2>2. e \in Header /\ e.page = hs[i].page /\ e.free = hs[i].free \ {s}
    BY <1>1, <1>2, <1>7 DEF Header
  <2> HIDE DEF e
  <2>3. gs \in Seq(Header) /\ Len(gs) = Len(hs) /\ headerPages(gs) = headerPages(hs)
    BY <1>2, <2>1, <2>2, ReplacedHeader
  <2>4. DOMAIN gs = DOMAIN hs /\ gs[i] = e /\ \A k \in DOMAIN hs : k # i => gs[k] = hs[k]
    BY <1>1, <1>2, <2>1
  <2> QED BY <2>2, <2>3, <2>4
<1>9. freePage(hs) \in freePages(hs)
  BY <1>2, <1>4, <1>5, FreePages
<1>10. ASSUME NEW q \in freePages(gs) PROVE q \in freePages(hs) \ {freePage(hs)}
  <2>1. PICK k \in DOMAIN gs : \E u \in gs[k].free : q = pageOfSlot(k, u)
    BY FreePages
  <2>2. PICK u \in gs[k].free : q = pageOfSlot(k, u)
    BY <2>1
  <2>3. u \in hs[k].free /\ (k = i => u # s) /\ k \in DOMAIN hs
    BY <1>8
  <2>4. q \in freePages(hs)
    BY <2>2, <2>3, FreePages
  <2>5. q # pageOfSlot(i, s)
    BY <1>2, <1>3, <1>4, <2>2, <2>3, SlotOfPage
  <2> QED BY <1>5, <2>4, <2>5
<1>11. ASSUME NEW q \in freePages(hs), q # freePage(hs) PROVE q \in freePages(gs)
  <2>1. PICK k \in DOMAIN hs : \E u \in hs[k].free : q = pageOfSlot(k, u)
    BY FreePages
  <2>2. PICK u \in hs[k].free : q = pageOfSlot(k, u)
    BY <2>1
  <2>3. k = i => u # s
    BY <1>5, <1>11, <2>2
  <2>4. u \in gs[k].free
    BY <1>8, <2>3
  <2> QED BY <1>8, <2>2, <2>4, FreePages
<1>12. freePages(gs) = freePages(hs) \ {freePage(hs)}
  BY <1>10, <1>11
<1> QED BY <1>8, <1>9, <1>12 DEF gs

(* setEmptyPage marks page p free, if it is not a multiple of HeaderSlots, *)
(* and no other page.                                                      *)
LEMMA MarkFree ==
    ASSUME NEW hs \in Seq(Header), NEW p \in Nat \ {0}, headerOf(p) <= Len(hs)
    PROVE  /\ markFree(hs, p) \in Seq(Header) /\ Len(markFree(hs, p)) = Len(hs)
           /\ headerPages(markFree(hs, p)) = headerPages(hs)
           /\ freePages(hs) \subseteq freePages(markFree(hs, p))
           /\ freePages(markFree(hs, p)) \subseteq freePages(hs) \cup {p}
           /\ p \in freePages(markFree(hs, p)) \/ p % HeaderSlots = 0
<1> DEFINE i == headerOf(p)
           s == p - (i - 1) * HeaderSlots
           gs == markFree(hs, p)
<1>1. /\ i \in Nat \ {0} /\ pageOfSlot(i, s) = p
      /\ s \in HeaderSlot \/ p % HeaderSlots = 0
  BY HeaderOf
<1>2. DOMAIN hs = 1 .. Len(hs) /\ Len(hs) \in Nat /\ \A k \in DOMAIN hs : hs[k] \in Header
  OBVIOUS
<1>3. i \in DOMAIN hs
  BY <1>1, <1>2
<1>4. CASE s \notin HeaderSlot
  <2>1. gs = hs
    BY <1>4 DEF markFree
  <2> HIDE DEF gs, s, i
  <2> QED BY <1>1, <1>4, <2>1 DEF gs
<1>5. CASE s \in HeaderSlot
  <2>1. gs = [hs EXCEPT ![i].free = hs[i].free \cup {s}]
    BY <1>5 DEF markFree
  <2>2. hs[i].free \in SUBSET HeaderSlot
    BY <1>2, <1>3 DEF Header
  <2> HIDE DEF gs, s, i
  <2>3. hs[i].free \cup {s} \in SUBSET HeaderSlot
    BY <1>5, <2>2
  <2>4. /\ gs \in Seq(Header) /\ Len(gs) = Len(hs) /\ DOMAIN gs = DOMAIN hs
        /\ headerPages(gs) = headerPages(hs)
        /\ gs[i].free = hs[i].free \cup {s}
        /\ \A k \in DOMAIN hs : k # i => gs[k].free = hs[k].free
    <3> DEFINE e == [hs[i] EXCEPT !.free = hs[i].free \cup {s}]
    <3>1. gs = [hs EXCEPT ![i] = e]
      BY <2>1
    <3>2. e \in Header /\ e.page = hs[i].page /\ e.free = hs[i].free \cup {s}
      BY <1>2, <1>3, <2>3 DEF Header
    <3> HIDE DEF e
    <3>3. gs \in Seq(Header) /\ Len(gs) = Len(hs) /\ headerPages(gs) = headerPages(hs)
      BY <1>3, <3>1, <3>2, ReplacedHeader
    <3>4. DOMAIN gs = DOMAIN hs /\ gs[i] = e /\ \A k \in DOMAIN hs : k # i => gs[k] = hs[k]
      BY <1>2, <1>3, <3>1
    <3> QED BY <3>2, <3>3, <3>4
  <2>5. p \in freePages(gs)
    <3>1. s \in gs[i].free
      BY <2>4
    <3> QED BY <1>1, <1>3, <2>4, <3>1, FreePages
  <2>6. ASSUME NEW q \in freePages(hs) PROVE q \in freePages(gs)
    <3>1. PICK k \in DOMAIN hs : \E u \in hs[k].free : q = pageOfSlot(k, u)
      BY FreePages
    <3>2. PICK u \in hs[k].free : q = pageOfSlot(k, u)
      BY <3>1
    <3>3. u \in gs[k].free
      BY <2>4
    <3> QED BY <2>4, <3>2, <3>3, FreePages
  <2>7. ASSUME NEW q \in freePages(gs) PROVE q \in freePages(hs) \cup {p}
    <3>1. PICK k \in DOMAIN gs : \E u \in gs[k].free : q = pageOfSlot(k, u)
      BY FreePages
    <3>2. PICK u \in gs[k].free : q = pageOfSlot(k, u)
      BY <3>1
    <3>3. CASE k = i /\ u = s
      BY <1>1, <3>2, <3>3
    <3>4. CASE ~ (k = i /\ u = s)
      <4>1. u \in hs[k].free /\ k \in DOMAIN hs
        BY <2>4, <3>4
      <4> QED BY <3>2, <4>1, FreePages
    <3> QED BY <3>3, <3>4
  <2> QED BY <2>4, <2>5, <2>6, <2>7 DEF gs
<1> QED BY <1>4, <1>5

(* A header page that was just added has no free page. *)
LEMMA AddedHeader ==
    ASSUME NEW hs \in Seq(Header), NEW n \in Nat \ {0}
    PROVE  /\ Append(hs, init(n)) \in Seq(Header) /\ Len(Append(hs, init(n))) = Len(hs) + 1
           /\ headerPages(Append(hs, init(n))) = headerPages(hs) \cup {n}
           /\ freePages(Append(hs, init(n))) = freePages(hs)
<1> DEFINE gs == Append(hs, init(n))
           L == Len(hs)
<1>1. init(n) \in Header /\ init(n).page = n /\ init(n).free = {}
  BY DEF init, Header
<1>2. /\ gs \in Seq(Header) /\ Len(gs) = L + 1 /\ L \in Nat
      /\ DOMAIN hs = 1 .. L /\ DOMAIN gs = 1 .. L + 1
      /\ gs[L + 1] = init(n) /\ \A k \in 1 .. L : gs[k] = hs[k]
  BY <1>1
<1> HIDE DEF gs, L
<1>3. \A k \in DOMAIN gs : k \in DOMAIN hs \/ k = L + 1
  BY <1>2
<1>4. L + 1 \in DOMAIN gs /\ \A k \in DOMAIN hs : k \in DOMAIN gs
  BY <1>2
<1>5. headerPages(gs) = headerPages(hs) \cup {n}
  BY <1>1, <1>2, <1>3, <1>4 DEF headerPages
<1>6. ASSUME NEW q PROVE q \in freePages(gs) <=> q \in freePages(hs)
  BY <1>1, <1>2, <1>3, <1>4, FreePages
<1>7. freePages(gs) = freePages(hs)
  BY <1>6
<1> QED BY <1>2, <1>5, <1>7 DEF gs, L

-------------------------------------------------------------------------------
(* The cells of the file.                                                  *)

(* A function on 1 .. n is a sequence of length n. *)
LEMMA SeqOfFunction ==
    ASSUME NEW S, NEW n \in Nat, NEW f \in [1 .. n -> S]
    PROVE  f \in Seq(S) /\ Len(f) = n /\ DOMAIN f = 1 .. n
<1>1. f \in Seq(S)
  BY SeqDef
<1>2. DOMAIN f = 1 .. n /\ DOMAIN f = 1 .. Len(f) /\ Len(f) \in Nat
  BY <1>1, LenProperties
<1>3. Len(f) = n
  <2>1. ~ (Len(f) < n)
    <3> SUFFICES ASSUME Len(f) < n PROVE FALSE
      OBVIOUS
    <3>1. n \in 1 .. n /\ n \notin 1 .. Len(f)
      BY <1>2
    <3> QED BY <1>2, <3>1
  <2>2. ~ (n < Len(f))
    <3> SUFFICES ASSUME n < Len(f) PROVE FALSE
      OBVIOUS
    <3>1. Len(f) \in 1 .. Len(f) /\ Len(f) \notin 1 .. n
      BY <1>2
    <3> QED BY <1>2, <3>1
  <2> QED BY <1>2, <2>1, <2>2
<1> QED BY <1>1, <1>2, <1>3

(* What cells gives. *)
LEMMA Cells ==
    ASSUME NEW n \in Nat, NEW c \in {0, 1}
    PROVE  /\ cells(n, c) \in Seq({0, 1}) /\ Len(cells(n, c)) = n
           /\ DOMAIN cells(n, c) = 1 .. n
           /\ \A i \in 1 .. n : cells(n, c)[i] = c
<1>1. cells(n, c) \in [1 .. n -> {0, 1}] /\ \A i \in 1 .. n : cells(n, c)[i] = c
  BY DEF cells
<1> HIDE DEF cells
<1> QED BY <1>1, SeqOfFunction

(* Cells appended to cells. *)
LEMMA AppendedCells ==
    ASSUME NEW f \in Seq({0, 1}), NEW d \in Seq({0, 1})
    PROVE  /\ f \o d \in Seq({0, 1}) /\ Len(f \o d) = Len(f) + Len(d)
           /\ zeros(f) /\ zeros(d) => zeros(f \o d)
           /\ \A i \in 1 .. Len(f) + Len(d) : i > Len(f) => (f \o d)[i] = d[i - Len(f)]
<1> DEFINE g == f \o d
<1>1. /\ g \in Seq({0, 1}) /\ Len(g) = Len(f) + Len(d)
      /\ \A i \in 1 .. Len(f) + Len(d) :
            g[i] = IF i <= Len(f) THEN f[i] ELSE d[i - Len(f)]
  BY ConcatProperties
<1>2. DOMAIN g = 1 .. Len(f) + Len(d) /\ DOMAIN f = 1 .. Len(f) /\ DOMAIN d = 1 .. Len(d)
      /\ Len(f) \in Nat /\ Len(d) \in Nat
  BY <1>1, LenProperties
<1> HIDE DEF g
<1>3. ASSUME zeros(f), zeros(d), NEW i \in DOMAIN g PROVE g[i] = 0
  <2>1. CASE i <= Len(f)
    BY <1>1, <1>2, <1>3, <2>1 DEF zeros
  <2>2. CASE ~ (i <= Len(f))
    <3>1. i - Len(f) \in DOMAIN d
      BY <1>2, <2>2
    <3> QED BY <1>1, <1>2, <1>3, <2>2, <3>1 DEF zeros
  <2> QED BY <2>1, <2>2
<1>4. zeros(f) /\ zeros(d) => zeros(g)
  BY <1>3 DEF zeros
<1>5. \A i \in 1 .. Len(f) + Len(d) : i > Len(f) => g[i] = d[i - Len(f)]
  BY <1>1, <1>2
<1> QED BY <1>1, <1>4, <1>5 DEF g

(* pwrite at an offset or, where it appends, at the end: the file does not *)
(* get shorter, and zeros bring nothing but zeros.                         *)
LEMMA Pwritten ==
    ASSUME NEW f \in Seq({0, 1}), NEW d \in Seq({0, 1}), NEW o \in Nat
    PROVE  /\ pwrite(f, d, o) \in Seq({0, 1})
           /\ appends => Len(pwrite(f, d, o)) = Len(f) + Len(d)
           /\ ~ appends => Len(pwrite(f, d, o)) = larger(Len(f), o + Len(d))
           /\ zeros(f) /\ zeros(d) => zeros(pwrite(f, d, o))
           /\ ~ appends => \A i \in 1 .. Len(pwrite(f, d, o)) :
                               \/ i - o \in DOMAIN d /\ pwrite(f, d, o)[i] = d[i - o]
                               \/ i \in DOMAIN f /\ pwrite(f, d, o)[i] = f[i]
                               \/ pwrite(f, d, o)[i] = 0
<1> DEFINE g == pwrite(f, d, o)
<1>1. CASE appends
  <2>1. g = f \o d
    BY <1>1 DEF pwrite
  <2> HIDE DEF g
  <2> QED BY <1>1, <2>1, AppendedCells DEF g
<1>2. CASE ~ appends
  <2> DEFINE n == larger(Len(f), o + Len(d))
  <2>1. /\ Len(f) \in Nat /\ Len(d) \in Nat
        /\ DOMAIN f = 1 .. Len(f) /\ DOMAIN d = 1 .. Len(d)
    BY LenProperties
  <2>2. n \in Nat
    BY <2>1 DEF larger
  <2>3. g = [i \in 1 .. n |->
              CASE i \in o + 1 .. o + Len(d) -> d[i - o]
                [] i \in DOMAIN f \ (o + 1 .. o + Len(d)) -> f[i]
                [] OTHER -> 0]
    BY <1>2 DEF pwrite
  <2> HIDE DEF g, n
  <2>4. ASSUME NEW i \in 1 .. n
        PROVE  /\ g[i] \in {0, 1}
               /\ \/ i - o \in DOMAIN d /\ g[i] = d[i - o]
                  \/ i \in DOMAIN f /\ g[i] = f[i]
                  \/ g[i] = 0
    <3>1. CASE i \in o + 1 .. o + Len(d)
      <4>1. i - o \in DOMAIN d
        BY <2>1, <3>1
      <4>2. g[i] = d[i - o]
        BY <2>3, <3>1
      <4>3. d[i - o] \in {0, 1}
        BY <4>1
      <4> QED BY <4>1, <4>2, <4>3
    <3>2. CASE i \notin o + 1 .. o + Len(d) /\ i \in DOMAIN f
      <4>1. g[i] = f[i]
        BY <2>3, <3>2
      <4>2. f[i] \in {0, 1}
        BY <3>2
      <4> QED BY <3>2, <4>1, <4>2
    <3>3. CASE i \notin o + 1 .. o + Len(d) /\ i \notin DOMAIN f
      BY <2>3, <3>3
    <3> QED BY <3>1, <3>2, <3>3
  <2>5. g \in [1 .. n -> {0, 1}]
    BY <2>3, <2>4
  <2>6. g \in Seq({0, 1}) /\ Len(g) = n /\ DOMAIN g = 1 .. n
    BY <2>2, <2>5, SeqOfFunction
  <2>7. zeros(f) /\ zeros(d) => zeros(g)
    BY <2>4, <2>6 DEF zeros
  <2> QED BY <1>2, <2>4, <2>6, <2>7 DEF g, n
<1> QED BY <1>1, <1>2

(* readPage of a page that is all zeros. *)
LEMMA ReadBlank ==
    ASSUME NEW f \in Seq({0, 1}), NEW o \in Nat, NEW p, offset(p) = o,
           o + PageSize <= Len(f), \A i \in o + 1 .. o + PageSize : f[i] = 0
    PROVE  readPage(f, p) = blank
<1>1. PageSize \in Nat \ {0} /\ Len(f) \in Nat
  BY SpaceConstants
<1>2. /\ readPage(f, p) \in Seq({0, 1}) /\ Len(readPage(f, p)) = PageSize
      /\ \A i \in 1 .. PageSize : readPage(f, p)[i] = f[o + i]
  <2>1. readPage(f, p) = SubSeq(f, o + 1, o + PageSize)
    BY DEF readPage
  <2>2. o + 1 \in 1 .. Len(f) + 1 /\ o + PageSize \in o + 1 - 1 .. Len(f)
    BY <1>1
  <2>3. (o + PageSize) - (o + 1) + 1 = PageSize
    BY <1>1
  <2>4. \A i \in 1 .. PageSize : (o + 1) + i - 1 = o + i
    BY <1>1
  <2> QED BY <1>1, <2>1, <2>2, <2>3, <2>4, SubSeqProperties
<1>3. \A i \in 1 .. PageSize : o + i \in o + 1 .. o + PageSize
  BY <1>1
<1>4. /\ blank \in Seq({0, 1}) /\ Len(blank) = PageSize
      /\ \A i \in 1 .. PageSize : blank[i] = 0
  BY <1>1, Cells DEF blank
<1> HIDE DEF readPage
<1> QED BY <1>2, <1>3, <1>4, SeqEqual

-------------------------------------------------------------------------------
(* getEmptyPage and setEmptyPage.                                          *)

(* The pages of a longer file g with header pages gs, once page n is       *)
(* taken: what is left to show of SpaceOK.                                 *)
LEMMA TakenSpace ==
    ASSUME NEW f, NEW hs, NEW U, SpaceOK(f, hs, U),
           NEW g \in Seq({0, 1}), Len(f) <= Len(g),
           NEW gs \in Seq(Header), Len(gs) = Len(hs), headerPages(gs) = headerPages(hs),
           NEW n \in 1 .. getNumPages(g), n \notin U \cup headerPages(hs),
           freePages(gs) = freePages(hs) \ {n},
           ~ appends => /\ Len(g) = RootSize + PageSize * getNumPages(g)
                        /\ \A p \in 1 .. getNumPages(g) : p <= getNumPages(f) \/ p = n
    PROVE  SpaceOK(g, gs, U \cup {n})
<1>1. /\ f \in Seq({0, 1}) /\ Len(f) >= RootSize /\ hs \in Seq(Header)
      /\ U \cup headerPages(hs) \cup freePages(hs) \subseteq 1 .. getNumPages(f)
      /\ U \cap freePages(hs) = {}
      /\ headerPages(hs) \cap (U \cup freePages(hs)) = {}
      /\ IsFiniteSet(headerPages(hs)) /\ Cardinality(headerPages(hs)) = Len(hs)
      /\ ~ appends => \A p \in 1 .. getNumPages(f) :
                p \notin U \cup headerPages(hs) \cup freePages(hs) => p % HeaderSlots = 0
  BY DEF SpaceOK
<1>2. Len(f) \in Nat /\ Len(g) \in Nat /\ RootSize \in Nat
  BY <1>1, SpaceConstants
<1>3. Len(g) >= RootSize /\ getNumPages(f) <= getNumPages(g)
      /\ getNumPages(f) \in Nat /\ getNumPages(g) \in Nat
  <2>1. Len(g) >= RootSize
    BY <1>1, <1>2
  <2> QED BY <1>1, <1>2, <2>1, MorePages, NumPages
<1>4. U \cup {n} \cup headerPages(gs) \cup freePages(gs) \subseteq 1 .. getNumPages(g)
  BY <1>1, <1>3
<1>5. (U \cup {n}) \cap freePages(gs) = {}
      /\ headerPages(gs) \cap (U \cup {n} \cup freePages(gs)) = {}
  BY <1>1
<1>6. ASSUME ~ appends, NEW p \in 1 .. getNumPages(g),
             p \notin U \cup {n} \cup headerPages(gs) \cup freePages(gs)
      PROVE  p % HeaderSlots = 0
  <2>1. p # n /\ p \in 1 .. getNumPages(f)
    BY <1>3, <1>6
  <2> QED BY <1>1, <1>6, <2>1
<1> QED BY <1>1, <1>3, <1>4, <1>5, <1>6 DEF SpaceOK

(* BTreeFile::getEmptyPage gives a page that is neither taken nor a header *)
(* page, and the pages stay separate.                                      *)
LEMMA Taken ==
    ASSUME NEW sp, NEW U, SpaceOK(sp.file, sp.headers, U)
    PROVE  /\ getEmptyPageNo(sp) \notin U \cup headerPages(sp.headers)
           /\ getEmptyPageNo(sp) \in 1 .. getNumPages(getEmptyPage(sp).file)
           /\ SpaceOK(getEmptyPage(sp).file, getEmptyPage(sp).headers,
                      U \cup {getEmptyPageNo(sp)})
           /\ headerPages(getEmptyPage(sp).headers) = headerPages(sp.headers)
           /\ Len(getEmptyPage(sp).headers) = Len(sp.headers)
           /\ zeros(sp.file) => zeros(getEmptyPage(sp).file)
           /\ ~ reuses(sp) /\ ~ appends =>
                  readPage(getEmptyPage(sp).file, getEmptyPageNo(sp)) = blank
<1> DEFINE f == sp.file
           hs == sp.headers
           n == getEmptyPageNo(sp)
           g == getEmptyPage(sp).file
           gs == getEmptyPage(sp).headers
<1>0. /\ sp.file = f /\ sp.headers = hs /\ SpaceOK(f, hs, U)
      /\ n = getEmptyPageNo(sp) /\ g = getEmptyPage(sp).file
      /\ gs = getEmptyPage(sp).headers
  OBVIOUS
<1> SUFFICES /\ n \notin U \cup headerPages(hs)
             /\ n \in 1 .. getNumPages(g)
             /\ SpaceOK(g, gs, U \cup {n})
             /\ headerPages(gs) = headerPages(hs) /\ Len(gs) = Len(hs)
             /\ zeros(f) => zeros(g)
             /\ ~ reuses(sp) /\ ~ appends => readPage(g, n) = blank
  OBVIOUS
<1> HIDE DEF f, hs, n, g, gs
<1> DEFINE N == getNumPages(f)
           L == Len(f)
           z == cells(RootSize, 0)
<1>1. /\ f \in Seq({0, 1}) /\ L >= RootSize /\ hs \in Seq(Header) /\ L \in Nat
      /\ U \cup headerPages(hs) \cup freePages(hs) \subseteq 1 .. N
      /\ headerPages(hs) \cap (U \cup freePages(hs)) = {} /\ U \cap freePages(hs) = {}
      /\ ~ appends => L = RootSize + PageSize * N
  BY <1>0 DEF SpaceOK
<1>2. /\ PageSize \in Nat \ {0} /\ RootSize \in Nat \ {0} /\ RootSize <= PageSize
      /\ N \in Nat
  BY <1>1, SpaceConstants, RootFitsPage, NumPages
<1>3. /\ z \in Seq({0, 1}) /\ Len(z) = RootSize /\ zeros(z) /\ DOMAIN z = 1 .. RootSize
      /\ \A i \in 1 .. RootSize : z[i] = 0
  BY <1>2, Cells DEF zeros
<1>4. /\ blank \in Seq({0, 1}) /\ Len(blank) = PageSize /\ zeros(blank)
      /\ DOMAIN blank = 1 .. PageSize
  BY <1>2, Cells DEF zeros, blank
<1>5. CASE reuses(sp)
  <2>1. withEmptySlot(hs) # {} /\ n = freePage(hs) /\ gs = markTaken(hs)
        /\ g = pwrite(f, z, offset(n))
    BY <1>0, <1>5 DEF reuses, getEmptyPageNo, getEmptyPage
  <2>2. /\ n \in freePages(hs) /\ gs \in Seq(Header) /\ Len(gs) = Len(hs)
        /\ headerPages(gs) = headerPages(hs) /\ freePages(gs) = freePages(hs) \ {n}
    BY <1>1, <2>1, MarkTaken
  <2>3. n \in 1 .. N /\ n \notin U \cup headerPages(hs)
    BY <1>1, <2>2
  <2> HIDE DEF L, z
  <2>4. offset(n) \in Nat /\ offset(n) + PageSize <= L
    BY <1>1, <2>3, PageInFile DEF L
  <2>5. /\ g \in Seq({0, 1})
        /\ appends => Len(g) = L + RootSize
        /\ ~ appends => Len(g) = larger(L, offset(n) + RootSize)
        /\ zeros(f) => zeros(g)
    <3> DEFINE o == offset(n)
    <3>1. o \in Nat /\ g = pwrite(f, z, o)
      BY <2>1, <2>4
    <3> HIDE DEF o
    <3>2. /\ pwrite(f, z, o) \in Seq({0, 1})
          /\ appends => Len(pwrite(f, z, o)) = Len(f) + Len(z)
          /\ ~ appends => Len(pwrite(f, z, o)) = larger(Len(f), o + Len(z))
          /\ zeros(f) /\ zeros(z) => zeros(pwrite(f, z, o))
      BY <1>1, <1>3, <3>1, Pwritten
    <3> QED BY <1>3, <3>1, <3>2 DEF L, o
  <2>6. Len(g) \in Nat /\ L <= Len(g) /\ (~ appends => Len(g) = L)
    BY <1>1, <1>2, <2>4, <2>5 DEF larger
  <2>7. N <= getNumPages(g) /\ (~ appends => getNumPages(g) = N) /\ getNumPages(g) \in Nat
    <3>1. N <= getNumPages(g)
      BY <1>1, <2>6, MorePages DEF L
    <3>2. ~ appends => getNumPages(g) = N
      BY <2>6 DEF getNumPages, L
    <3>3. Len(g) >= RootSize
      BY <1>1, <1>2, <2>6
    <3> QED BY <2>6, <3>1, <3>2, <3>3, NumPages
  <2> HIDE DEF N
  <2>8. n \in 1 .. getNumPages(g)
    BY <1>2, <2>3, <2>7
  <2>9. ~ appends => /\ Len(g) = RootSize + PageSize * getNumPages(g)
                     /\ \A p \in 1 .. getNumPages(g) : p <= N \/ p = n
    <3>1. ASSUME ~ appends, NEW p \in 1 .. N PROVE p <= N
      OBVIOUS
    <3> QED BY <1>1, <2>6, <2>7, <3>1
  <2>10. SpaceOK(g, gs, U \cup {n})
    BY <1>0, <2>2, <2>3, <2>5, <2>6, <2>8, <2>9, TakenSpace DEF N, L
  <2> QED BY <1>5, <2>2, <2>3, <2>5, <2>8, <2>10
<1>6. CASE ~ reuses(sp)
  <2> DEFINE h == f \o blank
  <2>1. withEmptySlot(hs) = {} /\ n = getNumPages(h) /\ gs = hs
        /\ g = pwrite(h, z, offset(n))
    BY <1>0, <1>6 DEF reuses, getEmptyPageNo, getEmptyPage, grown
  <2>2. /\ h \in Seq({0, 1}) /\ Len(h) = L + PageSize
        /\ zeros(f) /\ zeros(blank) => zeros(h)
        /\ \A i \in 1 .. L + PageSize : i > L => h[i] = blank[i - L]
    BY <1>1, <1>4, AppendedCells
  <2> HIDE DEF h, z, L
  <2>3. n = N + 1
    BY <1>1, <1>2, <2>1, <2>2, MorePages DEF L
  <2>4. n \in 1 .. getNumPages(h) /\ Len(h) \in Nat /\ Len(h) >= RootSize
    BY <1>1, <1>2, <2>1, <2>2, <2>3
  <2>5. /\ offset(n) \in Nat /\ offset(n) = RootSize + PageSize * (n - 1)
        /\ offset(n) + PageSize <= Len(h)
    BY <2>4, PageInFile
  <2> HIDE DEF N
  <2>6. ~ appends => offset(n) = L
    BY <1>1, <1>2, <2>3, <2>5
  <2>7. /\ g \in Seq({0, 1})
        /\ appends => Len(g) = Len(h) + RootSize
        /\ ~ appends => Len(g) = larger(Len(h), offset(n) + RootSize)
        /\ zeros(h) => zeros(g)
        /\ ~ appends => \A i \in 1 .. Len(g) :
                            \/ i - offset(n) \in DOMAIN z /\ g[i] = z[i - offset(n)]
                            \/ i \in DOMAIN h /\ g[i] = h[i]
                            \/ g[i] = 0
    <3> DEFINE o == offset(n)
    <3>1. o \in Nat /\ g = pwrite(h, z, o)
      BY <2>1, <2>5
    <3> HIDE DEF o
    <3>2. /\ pwrite(h, z, o) \in Seq({0, 1})
          /\ appends => Len(pwrite(h, z, o)) = Len(h) + Len(z)
          /\ ~ appends => Len(pwrite(h, z, o)) = larger(Len(h), o + Len(z))
          /\ zeros(h) /\ zeros(z) => zeros(pwrite(h, z, o))
          /\ ~ appends => \A i \in 1 .. Len(pwrite(h, z, o)) :
                              \/ i - o \in DOMAIN z /\ pwrite(h, z, o)[i] = z[i - o]
                              \/ i \in DOMAIN h /\ pwrite(h, z, o)[i] = h[i]
                              \/ pwrite(h, z, o)[i] = 0
      BY <1>3, <2>2, <3>1, Pwritten
    <3> QED BY <1>3, <3>1, <3>2 DEF o
  <2>8. Len(g) \in Nat /\ Len(h) <= Len(g) /\ L <= Len(g) /\ (~ appends => Len(g) = Len(h))
    <3>1. Len(h) \in Nat /\ L <= Len(h) /\ offset(n) + RootSize <= Len(h)
          /\ offset(n) + RootSize \in Nat
      BY <1>1, <1>2, <2>2, <2>5
    <3>2. larger(Len(h), offset(n) + RootSize) = Len(h)
      BY <3>1 DEF larger
    <3>3. CASE appends
      BY <1>1, <1>2, <2>7, <3>1, <3>3
    <3>4. CASE ~ appends
      BY <1>1, <2>7, <3>1, <3>2, <3>4
    <3> QED BY <3>3, <3>4
  <2>9. /\ getNumPages(h) <= getNumPages(g) /\ getNumPages(g) \in Nat
        /\ ~ appends => getNumPages(g) = getNumPages(h)
    <3>1. getNumPages(h) <= getNumPages(g)
      BY <2>4, <2>8, MorePages
    <3>2. ~ appends => getNumPages(g) = getNumPages(h)
      BY <2>8 DEF getNumPages
    <3>3. Len(g) >= RootSize
      BY <1>2, <2>4, <2>8
    <3> QED BY <2>8, <3>1, <3>2, <3>3, NumPages
  <2>10. n \in 1 .. getNumPages(g) /\ n \notin 1 .. N
    BY <1>2, <2>1, <2>3, <2>9
  <2>11. n \notin U \cup headerPages(hs) \cup freePages(hs)
    BY <1>1, <2>10
  <2>12. ASSUME ~ appends
         PROVE  /\ Len(g) = RootSize + PageSize * getNumPages(g)
                /\ \A p \in 1 .. getNumPages(g) : p <= N \/ p = n
    <3>1. getNumPages(g) = N + 1
      BY <2>1, <2>3, <2>9, <2>12
    <3>2. PageSize * (N + 1) = PageSize * N + PageSize /\ PageSize * N \in Nat
      BY <1>2
    <3>3. Len(g) = RootSize + PageSize * getNumPages(g)
      BY <1>1, <1>2, <2>2, <2>8, <2>12, <3>1, <3>2
    <3> QED BY <1>2, <2>3, <3>1, <3>3
  <2>13. SpaceOK(g, gs, U \cup {n})
    <3>1. freePages(gs) = freePages(hs) \ {n}
      BY <2>1, <2>11
    <3>2. /\ gs \in Seq(Header) /\ Len(gs) = Len(hs) /\ headerPages(gs) = headerPages(hs)
          /\ n \notin U \cup headerPages(hs)
      BY <1>1, <2>1, <2>11
    <3>3. ~ appends => /\ Len(g) = RootSize + PageSize * getNumPages(g)
                       /\ \A p \in 1 .. getNumPages(g) : p <= N \/ p = n
      BY <2>12
    <3> QED BY <1>0, <2>7, <2>8, <2>10, <3>1, <3>2, <3>3, TakenSpace DEF N, L
  <2>14. ASSUME ~ appends PROVE readPage(g, n) = blank
    <3>1. \A i \in offset(n) + 1 .. offset(n) + PageSize : g[i] = 0
      <4> SUFFICES ASSUME NEW i \in offset(n) + 1 .. offset(n) + PageSize PROVE g[i] = 0
        OBVIOUS
      <4>1. i \in 1 .. Len(g) /\ i \in 1 .. L + PageSize /\ i > L /\ i - L \in 1 .. PageSize
        BY <1>1, <1>2, <2>2, <2>5, <2>6, <2>8, <2>14
      <4>2. h[i] = 0
        BY <1>4, <2>2, <4>1 DEF zeros
      <4> QED BY <1>3, <2>7, <2>14, <4>1, <4>2 DEF zeros
    <3>2. offset(n) + PageSize <= Len(g)
      BY <1>2, <2>4, <2>5, <2>8
    <3> HIDE DEF offset
    <3> QED BY <2>5, <2>7, <3>1, <3>2, ReadBlank
  <2> QED BY <1>4, <1>6, <2>1, <2>2, <2>7, <2>10, <2>11, <2>13, <2>14
<1> QED BY <1>5, <1>6

(* One iteration of setEmptyPage's loop: the page becomes a header page. *)
LEMMA HeaderAdded ==
    ASSUME NEW U, NEW sp, SpaceOK(sp.file, sp.headers, U)
    PROVE  /\ SpaceOK(addHeader(sp).file, addHeader(sp).headers, U)
           /\ Len(addHeader(sp).headers) = Len(sp.headers) + 1
           /\ zeros(sp.file) => zeros(addHeader(sp).file)
<1> DEFINE n == getEmptyPageNo(sp)
           f == sp.file
           g == getEmptyPage(sp).file
           gs == getEmptyPage(sp).headers
           hs == sp.headers
           as == Append(gs, init(n))
<1>1. addHeader(sp).file = g /\ addHeader(sp).headers = as
  BY DEF addHeader, getEmptyPage
<1>2. /\ n \notin U \cup headerPages(hs)
      /\ n \in 1 .. getNumPages(g)
      /\ SpaceOK(g, gs, U \cup {n})
      /\ headerPages(gs) = headerPages(hs) /\ Len(gs) = Len(hs)
      /\ zeros(f) => zeros(g)
      /\ ~ reuses(sp) /\ ~ appends => readPage(g, n) = blank
  BY Taken
<1> HIDE DEF n, f, g, gs, hs
<1>3. gs \in Seq(Header) /\ n \in Nat \ {0} /\ Len(gs) \in Nat
  BY <1>2 DEF SpaceOK
<1>4. /\ as \in Seq(Header) /\ Len(as) = Len(gs) + 1
      /\ headerPages(as) = headerPages(gs) \cup {n}
      /\ freePages(as) = freePages(gs)
  BY <1>3, AddedHeader
<1> HIDE DEF as
<1>5. n \notin headerPages(gs) /\ n \notin freePages(gs) /\ n \notin U
  BY <1>2 DEF SpaceOK
<1>6. IsFiniteSet(headerPages(as)) /\ Cardinality(headerPages(as)) = Len(as)
  <2>1. IsFiniteSet(headerPages(gs)) /\ Cardinality(headerPages(gs)) = Len(gs)
    BY <1>2 DEF SpaceOK
  <2>2. IsFiniteSet(headerPages(gs) \cup {n})
        /\ Cardinality(headerPages(gs) \cup {n}) = Cardinality(headerPages(gs)) + 1
    BY <1>5, <2>1, FS_AddElement
  <2> QED BY <1>4, <2>1, <2>2
<1>7. U \cup headerPages(as) \cup freePages(as)
          = U \cup {n} \cup headerPages(gs) \cup freePages(gs)
  BY <1>4
<1>8. U \cap freePages(as) = {} /\ headerPages(as) \cap (U \cup freePages(as)) = {}
  BY <1>2, <1>4, <1>5 DEF SpaceOK
<1>9. SpaceOK(g, as, U)
  BY <1>2, <1>4, <1>6, <1>7, <1>8 DEF SpaceOK
<1> QED BY <1>1, <1>2, <1>4, <1>9 DEF hs, f

(* The spaces after 0, 1, 2, ... iterations exist, one after each number   *)
(* of iterations: the recursion of headersAdded is a definition.           *)
LEMMA Iterations ==
    /\ headersAdded[0] = space
    /\ \A n \in Nat : headersAdded[n + 1] = addHeader(headersAdded[n])
<1> DEFINE Upto(g, n) == g = [i \in 0 .. n |-> IF i = 0 THEN space ELSE addHeader(g[i - 1])]
           Bad == { n \in Nat : ~ \E g : Upto(g, n) }
<1>1. ASSUME NEW g, NEW h, NEW n \in Nat, NEW m \in Nat, Upto(g, n), Upto(h, m), n <= m
      PROVE  \A i \in 0 .. n : g[i] = h[i]
  <2> DEFINE D == { i \in 0 .. n : g[i] # h[i] }
  <2> SUFFICES ASSUME D # {} PROVE FALSE
    OBVIOUS
  <2>1. D \subseteq Nat
    OBVIOUS
  <2>2. first(D) \in D /\ \A y \in D : first(D) <= y
    <3> HIDE DEF D
    <3> QED BY <2>1, LeastNumber
  <2> DEFINE k == first(D)
  <2>3. k \in 0 .. n /\ g[k] # h[k] /\ \A y \in D : k <= y
    BY <2>2
  <2> HIDE DEF k
  <2>4. CASE k = 0
    <3>1. g[0] = space /\ h[0] = space
      BY <1>1
    <3> QED BY <2>3, <2>4, <3>1
  <2>5. CASE k # 0
    <3>1. k - 1 \in 0 .. n /\ ~ (k <= k - 1) /\ k \in 0 .. m
      BY <1>1, <2>3, <2>5
    <3>2. g[k - 1] = h[k - 1]
      BY <2>3, <3>1
    <3>3. g[k] = addHeader(g[k - 1]) /\ h[k] = addHeader(h[k - 1])
      <4> HIDE DEF D
      <4> QED BY <1>1, <2>3, <2>5, <3>1
    <3> QED BY <2>3, <3>2, <3>3
  <2> QED BY <2>4, <2>5
<1>2. \A n \in Nat : \E g : Upto(g, n)
  <2> SUFFICES ASSUME Bad # {} PROVE FALSE
    OBVIOUS
  <2>1. Bad \subseteq Nat
    OBVIOUS
  <2>2. first(Bad) \in Bad /\ \A y \in Bad : first(Bad) <= y
    <3> HIDE DEF Bad
    <3> QED BY <2>1, LeastNumber
  <2> DEFINE k == first(Bad)
  <2>3. k \in Nat /\ (~ \E g : Upto(g, k)) /\ \A y \in Bad : k <= y
    BY <2>2
  <2> HIDE DEF k
  <2>4. CASE k = 0
    <3> DEFINE g == [i \in 0 .. 0 |-> space]
    <3>1. g = [i \in 0 .. 0 |-> IF i = 0 THEN space ELSE addHeader(g[i - 1])]
      OBVIOUS
    <3> QED BY <2>3, <2>4, <3>1
  <2>5. CASE k # 0
    <3>1. k - 1 \in Nat /\ ~ (k <= k - 1)
      BY <2>3, <2>5
    <3>2. PICK g : Upto(g, k - 1)
      BY <2>3, <3>1
    <3> DEFINE h == [i \in 0 .. k |-> IF i = k THEN addHeader(g[k - 1]) ELSE g[i]]
    <3>3. ASSUME NEW i \in 0 .. k
          PROVE  h[i] = IF i = 0 THEN space ELSE addHeader(h[i - 1])
      <4>1. CASE i = k
        <5>1. h[k] = addHeader(g[k - 1]) /\ h[k - 1] = g[k - 1]
          BY <2>3, <2>5
        <5> QED BY <2>5, <4>1, <5>1
      <4>2. CASE i # k
        <5>1. i \in 0 .. k - 1
          BY <2>3, <4>2
        <5>2. g[i] = IF i = 0 THEN space ELSE addHeader(g[i - 1])
          BY <3>2, <5>1
        <5>3. h[i] = g[i]
          BY <4>2
        <5>4. i # 0 => h[i - 1] = g[i - 1]
          BY <2>3, <5>1
        <5> QED BY <5>2, <5>3, <5>4
      <4> QED BY <4>1, <4>2
    <3>4. h = [i \in 0 .. k |-> IF i = 0 THEN space ELSE addHeader(h[i - 1])]
      BY <3>3
    <3> HIDE DEF h
    <3> QED BY <2>3, <3>4
  <2> QED BY <2>4, <2>5
<1> DEFINE F == [n \in Nat |-> (CHOOSE g : Upto(g, n))[n]]
<1>3. ASSUME NEW n \in Nat
      PROVE  F[n] = IF n = 0 THEN space ELSE addHeader(F[n - 1])
  <2>1. PICK g : Upto(g, n) /\ g = CHOOSE x : Upto(x, n)
    <3> HIDE DEF Upto
    <3> QED BY <1>2
  <2>2. F[n] = g[n]
    BY <2>1
  <2>3. CASE n = 0
    BY <2>1, <2>2, <2>3
  <2>4. CASE n # 0
    <3>1. n - 1 \in Nat /\ n - 1 <= n /\ n - 1 \in 0 .. n - 1
      BY <2>4
    <3>2. PICK h : Upto(h, n - 1) /\ h = CHOOSE x : Upto(x, n - 1)
      <4> HIDE DEF Upto
      <4> QED BY <1>2, <3>1
    <3>3. F[n - 1] = h[n - 1]
      BY <3>1, <3>2
    <3>4. h[n - 1] = g[n - 1]
      <4> HIDE DEF Upto, F
      <4> QED BY <1>1, <2>1, <3>1, <3>2
    <3>5. g[n] = addHeader(g[n - 1])
      BY <2>1, <2>4
    <3> HIDE DEF F, Upto
    <3> QED BY <2>2, <2>4, <3>3, <3>4, <3>5
  <2> QED BY <2>3, <2>4
<1>4. F = [n \in Nat |-> IF n = 0 THEN space ELSE addHeader(F[n - 1])]
  BY <1>3
<1> HIDE DEF F
<1>5. headersAdded = [n \in Nat |-> IF n = 0 THEN space ELSE addHeader(headersAdded[n - 1])]
  BY <1>4 DEF headersAdded
<1>6. \A n \in Nat : n + 1 \in Nat /\ n + 1 # 0 /\ n + 1 - 1 = n
  OBVIOUS
<1> QED BY <1>5, <1>6

(* setEmptyPage's loop keeps the pages separate, however often it runs. *)
LEMMA HeadersAdded ==
    ASSUME SpaceOK(file, headers, inUse), NEW n \in Nat
    PROVE  /\ SpaceOK(headersAdded[n].file, headersAdded[n].headers, inUse)
           /\ Len(headersAdded[n].headers) = Len(headers) + n
           /\ zeros(file) => zeros(headersAdded[n].file)
<1> DEFINE Good(k) == /\ SpaceOK(headersAdded[k].file, headersAdded[k].headers, inUse)
                      /\ Len(headersAdded[k].headers) = Len(headers) + k
                      /\ zeros(file) => zeros(headersAdded[k].file)
           Bad == { k \in Nat : ~ Good(k) }
<1> SUFFICES ASSUME Bad # {} PROVE FALSE
  OBVIOUS
<1> DEFINE k == first(Bad)
<1>1. k \in Bad /\ \A y \in Bad : k <= y
  <2>1. Bad \subseteq Nat
    OBVIOUS
  <2> HIDE DEF Bad
  <2> QED BY <2>1, LeastNumber
<1>2. k \in Nat /\ ~ Good(k) /\ \A y \in Nat : ~ Good(y) => k <= y
  <2> HIDE DEF k, Good
  <2> QED BY <1>1
<1> HIDE DEF k
<1>3. Len(headers) \in Nat
  BY DEF SpaceOK
<1>4. CASE k = 0
  <2>1. headersAdded[k].file = file /\ headersAdded[k].headers = headers
    BY <1>4, Iterations DEF space
  <2>2. Good(k)
    BY <1>3, <1>4, <2>1
  <2> QED BY <1>2, <2>2
<1>5. CASE k # 0
  <2> DEFINE j == k - 1
             sp == headersAdded[j]
  <2>1. j \in Nat /\ k = j + 1 /\ ~ (k <= j)
    BY <1>2, <1>5
  <2> HIDE DEF j
  <2>2. Good(j)
    <3> HIDE DEF Good
    <3> QED BY <1>2, <2>1
  <2>3. headersAdded[k] = addHeader(sp)
    BY <2>1, Iterations
  <2>4. /\ SpaceOK(sp.file, sp.headers, inUse) /\ Len(sp.headers) = Len(headers) + j
        /\ zeros(file) => zeros(sp.file)
    BY <2>2
  <2> HIDE DEF sp
  <2>5. /\ SpaceOK(addHeader(sp).file, addHeader(sp).headers, inUse)
        /\ Len(addHeader(sp).headers) = Len(sp.headers) + 1
        /\ zeros(sp.file) => zeros(addHeader(sp).file)
    BY <2>4, HeaderAdded
  <2>6. Len(addHeader(sp).headers) = Len(headers) + k
    BY <1>3, <2>1, <2>4, <2>5
  <2>7. Good(k)
    BY <2>3, <2>4, <2>5, <2>6
  <2> QED BY <1>2, <2>7
<1> QED BY <1>4, <1>5

(* The page that setEmptyPage frees has a header page by then. *)
LEMMA HeaderFor ==
    ASSUME SpaceOK(file, headers, inUse), NEW p \in inUse
    PROVE  /\ SpaceOK(withHeaderFor(p).file, withHeaderFor(p).headers, inUse)
           /\ p \in Nat \ {0}
           /\ headerOf(p) <= Len(withHeaderFor(p).headers)
           /\ zeros(file) => zeros(withHeaderFor(p).file)
<1> DEFINE n == larger(headerOf(p) - Len(headers), 0)
           sp == headersAdded[n]
<1>1. p \in Nat \ {0} /\ Len(headers) \in Nat
  BY DEF SpaceOK
<1>2. headerOf(p) \in Nat
  BY <1>1, HeaderOf
<1>3. n \in Nat /\ headerOf(p) <= Len(headers) + n
  BY <1>1, <1>2 DEF larger
<1>4. withHeaderFor(p) = sp
  BY DEF withHeaderFor
<1> HIDE DEF n
<1>5. /\ SpaceOK(sp.file, sp.headers, inUse)
      /\ Len(sp.headers) = Len(headers) + n
      /\ zeros(file) => zeros(sp.file)
  BY <1>3, HeadersAdded
<1> QED BY <1>1, <1>3, <1>4, <1>5

-------------------------------------------------------------------------------
(* The steps.                                                              *)

(* Page numbers are within the size of the file. *)
LEMMA PageNumbers ==
    ASSUME NEW f, Len(f) \in Nat, Len(f) >= RootSize, Len(f) <= MaxSize
    PROVE  1 .. getNumPages(f) \subseteq 1 .. MaxSize
<1> DEFINE n == getNumPages(f)
<1>1. PageSize \in Nat \ {0} /\ RootSize \in Nat /\ MaxSize \in Nat
  BY SpaceConstants
<1>2. n \in Nat /\ PageSize * n <= Len(f) - RootSize
  BY <1>1, NumPages
<1> HIDE DEF n
<1>3. n <= PageSize * n /\ PageSize * n \in Nat
  BY <1>1, <1>2, Products
<1>4. n <= MaxSize
  BY <1>1, <1>2, <1>3
<1> QED BY <1>1, <1>2, <1>4 DEF n

(* A file of zeros reads as blank pages. *)
LEMMA ZeroPage ==
    ASSUME NEW f \in Seq({0, 1}), Len(f) >= RootSize, zeros(f), NEW p \in 1 .. getNumPages(f)
    PROVE  readPage(f, p) = blank
<1>1. Len(f) \in Nat /\ DOMAIN f = 1 .. Len(f) /\ PageSize \in Nat
  BY SpaceConstants
<1>2. offset(p) \in Nat /\ offset(p) + PageSize <= Len(f)
  BY <1>1, PageInFile
<1> DEFINE o == offset(p)
<1> HIDE DEF o
<1>3. o \in Nat /\ offset(p) = o /\ o + PageSize <= Len(f)
  BY <1>2 DEF o
<1>4. \A i \in o + 1 .. o + PageSize : f[i] = 0
  BY <1>1, <1>3 DEF zeros
<1> QED BY <1>3, <1>4, ReadBlank

(* Before the first access to the file. *)
LEMMA InitInv == Init => Inv
<1> SUFFICES ASSUME Init PROVE Inv
  OBVIOUS
<1>1. file = <<>> /\ headers = <<>> /\ inUse = {} /\ appends \in BOOLEAN
      /\ last = [op |-> "none", page |-> 0, wrote |-> FALSE, misread |-> FALSE]
  BY DEF Init
<1>2. TypeOK
  BY <1>1, SpaceConstants DEF TypeOK
<1>3. StartedOK
  BY <1>1 DEF StartedOK
<1>4. UnwrittenIsZero
  BY <1>1 DEF UnwrittenIsZero, zeros
<1>5. FreshPageIsBlank
  BY <1>1 DEF FreshPageIsBlank
<1> QED BY <1>2, <1>3, <1>4, <1>5 DEF Inv

(* What the steps have in common: the file is in order, within the bound. *)
LEMMA SpaceStep ==
    ASSUME TypeOK, SpaceOK(file', headers', inUse'), fits, appends' = appends,
           NEW p \in {0} \cup 1 .. getNumPages(file'),
           NEW op \in {"none", "take", "reuse", "free", "write", "evict"}, NEW w \in BOOLEAN,
           last' = [op |-> op, page |-> p, wrote |-> w, misread |-> FALSE]
    PROVE  TypeOK' /\ StartedOK'
<1>1. /\ file' \in Seq({0, 1}) /\ Len(file') >= RootSize /\ Len(file') \in Nat
      /\ headers' \in Seq(Header) /\ inUse' \subseteq 1 .. getNumPages(file')
  BY DEF SpaceOK
<1>2. Len(file') <= MaxSize /\ RootSize \in Nat \ {0} /\ MaxSize \in Nat
  BY SpaceConstants DEF fits
<1>3. 1 .. getNumPages(file') \subseteq 1 .. MaxSize
  BY <1>1, <1>2, PageNumbers
<1>4. p \in 0 .. MaxSize
  BY <1>2, <1>3
<1>5. inUse' \subseteq 1 .. MaxSize
  BY <1>1, <1>3
<1>6. TypeOK'
  BY <1>1, <1>2, <1>4, <1>5 DEF TypeOK, Header
<1>7. file' # <<>>
  BY <1>1, <1>2
<1>8. ~ last'.misread
  OBVIOUS
<1>9. StartedOK'
  BY <1>7, <1>8 DEF StartedOK, SpaceOK
<1> QED BY <1>6, <1>9

(* The same once a header page was misread. *)
LEMMA MisreadStep ==
    ASSUME TypeOK, appends, file' \in Seq({0, 1}), Len(file') >= RootSize,
           headers' \in Seq(Header),
           inUse' \cup headerPages(headers') \subseteq 1 .. getNumPages(file'),
           fits, appends' = appends,
           NEW p \in {0} \cup 1 .. getNumPages(file'),
           NEW op \in {"none", "take", "reuse", "free", "write", "evict"}, NEW w \in BOOLEAN,
           last' = [op |-> op, page |-> p, wrote |-> w, misread |-> TRUE]
    PROVE  TypeOK' /\ StartedOK'
<1>1. Len(file') \in Nat
  OBVIOUS
<1>2. Len(file') <= MaxSize /\ RootSize \in Nat \ {0} /\ MaxSize \in Nat
  BY SpaceConstants DEF fits
<1>3. 1 .. getNumPages(file') \subseteq 1 .. MaxSize
  BY <1>1, <1>2, PageNumbers
<1>4. p \in 0 .. MaxSize
  BY <1>2, <1>3
<1>5. inUse' \subseteq 1 .. MaxSize
  BY <1>3
<1>6. TypeOK'
  BY <1>1, <1>2, <1>4, <1>5 DEF TypeOK, Header
<1>7. file' # <<>>
  BY <1>1, <1>2
<1>8. last'.misread
  OBVIOUS
<1>9. StartedOK'
  BY <1>7, <1>8 DEF StartedOK, MisreadOK, headerPages
<1> QED BY <1>6, <1>9

(* The tree's file is created: one page, all zeros. *)
LEMMA CreateInv ==
    ASSUME Inv, Create
    PROVE  Inv'
<1> DEFINE r == cells(RootSize, 0)
           f == pwrite(<<>>, r, 0)
           g == pwrite(f, blank, RootSize)
<1>1. /\ PageSize \in Nat \ {0} /\ RootSize \in Nat \ {0} /\ appends \in BOOLEAN
      /\ last \in [op : {"none", "take", "reuse", "free", "write", "evict"},
                   page : 0 .. MaxSize, wrote : BOOLEAN, misread : BOOLEAN]
  BY SpaceConstants DEF Inv, TypeOK
<1>2. /\ file = <<>> /\ headers = <<>> /\ inUse = {} /\ ~ last.misread /\ zeros(<<>>)
      /\ <<>> \in Seq({0, 1}) /\ Len(<<>>) = 0
  <2>1. file = <<>> /\ zeros(<<>>)
    BY DEF Create, zeros
  <2> QED BY <2>1 DEF Inv, StartedOK
<1>3. /\ file' = g /\ inUse' = {getNumPages(g)} /\ headers' = headers /\ appends' = appends
      /\ last' = [last EXCEPT !.op = "take", !.page = getNumPages(g)] /\ fits
  BY DEF Create, did
<1>4. /\ r \in Seq({0, 1}) /\ Len(r) = RootSize /\ zeros(r)
      /\ blank \in Seq({0, 1}) /\ Len(blank) = PageSize /\ zeros(blank)
  BY <1>1, Cells DEF zeros, blank
<1> HIDE DEF r
<1>5. f \in Seq({0, 1}) /\ Len(f) = RootSize /\ zeros(f)
  <2>1. /\ f \in Seq({0, 1}) /\ zeros(f)
        /\ appends => Len(f) = 0 + Len(r)
        /\ ~ appends => Len(f) = larger(0, 0 + Len(r))
    <3> DEFINE e == <<>>
    <3>1. e \in Seq({0, 1}) /\ Len(e) = 0 /\ zeros(e)
      BY <1>2
    <3>2. f = pwrite(e, r, 0)
      OBVIOUS
    <3> HIDE DEF e, f
    <3>3. PICK o \in Nat : o = 0
      OBVIOUS
    <3>4. /\ pwrite(e, r, o) \in Seq({0, 1})
          /\ appends => Len(pwrite(e, r, o)) = Len(e) + Len(r)
          /\ ~ appends => Len(pwrite(e, r, o)) = larger(Len(e), o + Len(r))
          /\ zeros(e) /\ zeros(r) => zeros(pwrite(e, r, o))
      BY <1>4, <3>1, Pwritten
    <3> QED BY <1>4, <3>1, <3>2, <3>3, <3>4
  <2>2. 0 + Len(r) = RootSize /\ larger(0, 0 + Len(r)) = RootSize
    BY <1>1, <1>4 DEF larger
  <2> HIDE DEF f
  <2> QED BY <2>1, <2>2
<1> HIDE DEF f
<1>6. g \in Seq({0, 1}) /\ Len(g) = RootSize + PageSize /\ zeros(g)
  <2>1. /\ g \in Seq({0, 1}) /\ zeros(g)
        /\ appends => Len(g) = Len(f) + Len(blank)
        /\ ~ appends => Len(g) = larger(Len(f), RootSize + Len(blank))
    BY <1>1, <1>4, <1>5, Pwritten
  <2>2. Len(f) + Len(blank) = RootSize + PageSize
        /\ larger(Len(f), RootSize + Len(blank)) = RootSize + PageSize
    BY <1>1, <1>4, <1>5 DEF larger
  <2> HIDE DEF g
  <2> QED BY <2>1, <2>2
<1> HIDE DEF g
<1>7. getNumPages(g) = 1
  BY <1>1, <1>6, NumPagesIs
<1>8. headers' = <<>> /\ headerPages(headers') = {} /\ freePages(headers') = {}
      /\ Len(headers') = 0 /\ headers' \in Seq(Header)
  BY <1>2, <1>3 DEF headerPages, freePages
<1>9. IsFiniteSet({}) /\ Cardinality({}) = 0
  BY FS_EmptySet
<1>10. SpaceOK(file', headers', inUse')
  <2>1. inUse' = {1} /\ 1 .. getNumPages(file') = {1} /\ getNumPages(file') = 1
    BY <1>3, <1>7
  <2>2. Len(file') = RootSize + PageSize * getNumPages(file') /\ Len(file') >= RootSize
    BY <1>1, <1>3, <1>6, <2>1
  <2>3. file' \in Seq({0, 1})
    BY <1>3, <1>6
  <2> QED BY <1>8, <1>9, <2>1, <2>2, <2>3 DEF SpaceOK
<1>11. last' = [op |-> "take", page |-> 1, wrote |-> last.wrote, misread |-> FALSE]
       /\ last.wrote \in BOOLEAN
  <2>1. last.misread = FALSE
    BY <1>1, <1>2
  <2> QED BY <1>1, <1>3, <1>7, <2>1
<1>12. TypeOK' /\ StartedOK'
  <2>1. TypeOK /\ 1 \in {0} \cup 1 .. getNumPages(file')
    BY <1>3, <1>7 DEF Inv
  <2> QED BY <1>3, <1>10, <1>11, <2>1, SpaceStep
<1>13. UnwrittenIsZero'
  BY <1>3, <1>6 DEF UnwrittenIsZero, zeros
<1>14. readPage(file', 1) = blank
  <2>1. 1 \in 1 .. getNumPages(g) /\ Len(g) >= RootSize
    BY <1>1, <1>6, <1>7
  <2> QED BY <1>3, <1>6, <2>1, ZeroPage
<1>15. FreshPageIsBlank'
  BY <1>11, <1>14 DEF FreshPageIsBlank
<1> QED BY <1>12, <1>13, <1>15 DEF Inv

(* getEmptyPage. *)
LEMMA GetEmptyPageInv ==
    ASSUME Inv, GetEmptyPage, ~ last.misread
    PROVE  /\ Inv'
           /\ last'.page \notin inUse \cup headerPages(headers)
<1> DEFINE n == getEmptyPageNo(space)
           op == IF reuses(space) THEN "reuse" ELSE "take"
<1>1. SpaceOK(file, headers, inUse) /\ TypeOK /\ (~ last.wrote => zeros(file))
  BY DEF Inv, StartedOK, UnwrittenIsZero, GetEmptyPage
<1>2. space.file = file /\ space.headers = headers
  BY DEF space
<1>3. /\ file' = getEmptyPage(space).file /\ headers' = getEmptyPage(space).headers
      /\ inUse' = inUse \cup {n} /\ last' = [last EXCEPT !.op = op, !.page = n]
      /\ fits /\ appends' = appends
  BY DEF GetEmptyPage, did
<1>4. /\ n \notin inUse \cup headerPages(headers)
      /\ n \in 1 .. getNumPages(file')
      /\ SpaceOK(file', headers', inUse')
      /\ zeros(file) => zeros(file')
      /\ ~ reuses(space) /\ ~ appends => readPage(file', n) = blank
  <2>1. SpaceOK(space.file, space.headers, inUse)
    BY <1>1, <1>2
  <2> HIDE DEF n, op
  <2> QED BY <1>2, <1>3, <2>1, Taken DEF n
<1>5. op \in {"none", "take", "reuse", "free", "write", "evict"}
      /\ (op = "take" => ~ reuses(space)) /\ op # "none" /\ op # "free" /\ op # "write"
  OBVIOUS
<1> HIDE DEF n, op
<1>6. last' = [op |-> op, page |-> n, wrote |-> last.wrote, misread |-> FALSE]
      /\ last.wrote \in BOOLEAN
  <2>1. last.misread = FALSE
    BY <1>1 DEF TypeOK
  <2> QED BY <1>1, <1>3, <2>1 DEF TypeOK
<1>7. TypeOK' /\ StartedOK'
  <2>1. n \in {0} \cup 1 .. getNumPages(file')
    BY <1>4
  <2> QED BY <1>1, <1>3, <1>4, <1>5, <1>6, <2>1, SpaceStep
<1>8. UnwrittenIsZero'
  BY <1>1, <1>4, <1>6 DEF UnwrittenIsZero, zeros
<1>9. ~ last.wrote => readPage(file', n) = blank
  <2> SUFFICES ASSUME ~ last.wrote PROVE readPage(file', n) = blank
    OBVIOUS
  <2>1. zeros(file') /\ file' \in Seq({0, 1}) /\ Len(file') >= RootSize
    BY <1>1, <1>4 DEF SpaceOK
  <2> QED BY <1>4, <2>1, ZeroPage
<1>10. FreshPageIsBlank'
  BY <1>3, <1>4, <1>5, <1>6, <1>9 DEF FreshPageIsBlank
<1> QED BY <1>4, <1>6, <1>7, <1>8, <1>10 DEF Inv

(* getEmptyPage after header pages were misread. *)
LEMMA GetMisreadPageInv ==
    ASSUME Inv, GetEmptyPage, last.misread
    PROVE  Inv'
<1> DEFINE n == getEmptyPageNo(space)
           op == IF reuses(space) THEN "reuse" ELSE "take"
           h == IF reuses(space) THEN file ELSE file \o blank
           z == cells(RootSize, 0)
<1>1. /\ TypeOK /\ (~ last.wrote => zeros(file)) /\ appends
      /\ file \in Seq({0, 1}) /\ Len(file) >= RootSize
      /\ inUse \cup headerPages(headers) \subseteq 1 .. getNumPages(file)
  BY DEF Inv, StartedOK, UnwrittenIsZero, MisreadOK, GetEmptyPage
<1>2. space.file = file /\ space.headers = headers
  BY DEF space
<1>3. /\ file' = h \o z
      /\ headers' = IF reuses(space) THEN markTaken(headers) ELSE headers
      /\ inUse' = inUse \cup {n} /\ last' = [last EXCEPT !.op = op, !.page = n]
      /\ fits /\ appends' = appends
      /\ n \in 1 .. getNumPages(file')
  BY <1>1, <1>2 DEF GetEmptyPage, getEmptyPage, grown, pwrite, did, mayTake
<1>4. /\ PageSize \in Nat \ {0} /\ RootSize \in Nat \ {0} /\ headers \in Seq(Header)
  BY <1>1, SpaceConstants DEF TypeOK, Header
<1>5. /\ z \in Seq({0, 1}) /\ Len(z) = RootSize /\ zeros(z)
      /\ blank \in Seq({0, 1}) /\ Len(blank) = PageSize /\ zeros(blank)
  BY <1>4, Cells DEF zeros, blank
<1> HIDE DEF z
<1>6. /\ h \in Seq({0, 1}) /\ Len(h) \in Nat /\ Len(h) >= Len(file)
      /\ (zeros(file) => zeros(h))
  <2>1. CASE reuses(space)
    BY <1>1, <2>1
  <2>2. CASE ~ reuses(space)
    <3>1. h = file \o blank
      BY <2>2
    <3>2. /\ file \o blank \in Seq({0, 1}) /\ Len(file \o blank) = Len(file) + PageSize
          /\ (zeros(file) => zeros(file \o blank))
      BY <1>1, <1>5, AppendedCells
    <3> QED BY <1>1, <1>4, <3>1, <3>2
  <2> QED BY <2>1, <2>2
<1> HIDE DEF h
<1>7. /\ file' \in Seq({0, 1}) /\ Len(file') = Len(h) + RootSize
      /\ (zeros(file) => zeros(file'))
  BY <1>3, <1>5, <1>6, AppendedCells
<1>8. Len(file') \in Nat /\ Len(file') >= Len(file) /\ Len(file') >= RootSize
  BY <1>1, <1>4, <1>6, <1>7
<1>9. headers' \in Seq(Header) /\ headerPages(headers') = headerPages(headers)
  <2>1. CASE reuses(space)
    <3>1. withEmptySlot(headers) # {}
      BY <1>2, <2>1 DEF reuses
    <3> QED BY <1>3, <1>4, <2>1, <3>1, MarkTaken
  <2>2. CASE ~ reuses(space)
    BY <1>3, <1>4, <2>2
  <2> QED BY <2>1, <2>2
<1>10. 1 .. getNumPages(file) \subseteq 1 .. getNumPages(file')
  <2>1. getNumPages(file) \in Nat /\ getNumPages(file') \in Nat
    BY <1>1, <1>8, NumPages
  <2>2. getNumPages(file) <= getNumPages(file')
    BY <1>1, <1>8, MorePages
  <2> QED BY <2>1, <2>2
<1>11. op \in {"none", "take", "reuse", "free", "write", "evict"}
       /\ (op = "take" => ~ reuses(space)) /\ op # "none" /\ op # "free" /\ op # "write"
  OBVIOUS
<1> HIDE DEF n, op
<1>12. last' = [op |-> op, page |-> n, wrote |-> last.wrote, misread |-> TRUE]
       /\ last.wrote \in BOOLEAN
  <2>1. last.misread = TRUE
    BY <1>1 DEF TypeOK
  <2> QED BY <1>1, <1>3, <2>1 DEF TypeOK
<1>13. TypeOK' /\ StartedOK'
  <2>1. n \in {0} \cup 1 .. getNumPages(file')
    BY <1>3
  <2>2. inUse' \cup headerPages(headers') \subseteq 1 .. getNumPages(file')
    BY <1>1, <1>3, <1>9, <1>10
  <2> QED BY <1>1, <1>3, <1>7, <1>8, <1>9, <1>11, <1>12, <2>1, <2>2, MisreadStep
<1>14. UnwrittenIsZero'
  BY <1>1, <1>7, <1>12 DEF UnwrittenIsZero, zeros
<1>15. ~ last.wrote => readPage(file', n) = blank
  BY <1>1, <1>3, <1>7, <1>8, ZeroPage
<1>16. FreshPageIsBlank'
  BY <1>1, <1>3, <1>12, <1>15 DEF FreshPageIsBlank
<1> QED BY <1>13, <1>14, <1>16 DEF Inv

(* setEmptyPage. *)
LEMMA SetEmptyPageInv ==
    ASSUME Inv, NEW p \in inUse, SetEmptyPage(p)
    PROVE  Inv'
<1> DEFINE f == withHeaderFor(p).file
           hs == withHeaderFor(p).headers
<1>1. file # <<>> /\ ~ last.misread
  BY DEF Inv, StartedOK, SetEmptyPage
<1>2. SpaceOK(file, headers, inUse) /\ TypeOK /\ (~ last.wrote => zeros(file))
  BY <1>1 DEF Inv, StartedOK, UnwrittenIsZero
<1>3. /\ SpaceOK(f, hs, inUse) /\ p \in Nat \ {0} /\ headerOf(p) <= Len(hs)
      /\ zeros(file) => zeros(f)
  BY <1>2, HeaderFor
<1>4. /\ file' = f /\ headers' = markFree(hs, p) /\ inUse' = inUse \ {p}
      /\ last' = [last EXCEPT !.op = "free", !.page = p] /\ fits /\ appends' = appends
  BY DEF SetEmptyPage, did
<1> HIDE DEF f, hs
<1>5. /\ f \in Seq({0, 1}) /\ Len(f) >= RootSize /\ hs \in Seq(Header)
      /\ inUse \cup headerPages(hs) \cup freePages(hs) \subseteq 1 .. getNumPages(f)
      /\ inUse \cap freePages(hs) = {}
      /\ headerPages(hs) \cap (inUse \cup freePages(hs)) = {}
      /\ IsFiniteSet(headerPages(hs)) /\ Cardinality(headerPages(hs)) = Len(hs)
      /\ ~ appends =>
          /\ Len(f) = RootSize + PageSize * getNumPages(f)
          /\ \A q \in 1 .. getNumPages(f) :
                q \notin inUse \cup headerPages(hs) \cup freePages(hs) => q % HeaderSlots = 0
  BY <1>3 DEF SpaceOK
<1> DEFINE gs == markFree(hs, p)
<1>6. /\ gs \in Seq(Header) /\ Len(gs) = Len(hs)
      /\ headerPages(gs) = headerPages(hs)
      /\ freePages(hs) \subseteq freePages(gs)
      /\ freePages(gs) \subseteq freePages(hs) \cup {p}
      /\ p \in freePages(gs) \/ p % HeaderSlots = 0
  BY <1>3, <1>5, MarkFree
<1> HIDE DEF gs
<1>7. p \in 1 .. getNumPages(f) /\ p \notin headerPages(hs)
  BY <1>5
<1>8. SpaceOK(f, gs, inUse \ {p})
  <2>1. (inUse \ {p}) \cup headerPages(gs) \cup freePages(gs) \subseteq 1 .. getNumPages(f)
    BY <1>5, <1>6, <1>7
  <2>2. (inUse \ {p}) \cap freePages(gs) = {}
    BY <1>5, <1>6
  <2>3. headerPages(gs) \cap ((inUse \ {p}) \cup freePages(gs)) = {}
    BY <1>5, <1>6, <1>7
  <2>4. ASSUME ~ appends, NEW q \in 1 .. getNumPages(f),
               q \notin (inUse \ {p}) \cup headerPages(gs) \cup freePages(gs)
        PROVE  q % HeaderSlots = 0
    <3>1. CASE q = p
      BY <1>6, <2>4, <3>1
    <3>2. CASE q # p
      BY <1>5, <1>6, <2>4, <3>2
    <3> QED BY <3>1, <3>2
  <2> QED BY <1>5, <1>6, <2>1, <2>2, <2>3, <2>4 DEF SpaceOK
<1>9. SpaceOK(file', headers', inUse')
  BY <1>4, <1>8 DEF gs
<1>10. last' = [op |-> "free", page |-> p, wrote |-> last.wrote, misread |-> FALSE]
       /\ last.wrote \in BOOLEAN
  <2>1. last.misread = FALSE
    BY <1>1, <1>2 DEF TypeOK
  <2> QED BY <1>2, <1>4, <2>1 DEF TypeOK
<1>11. TypeOK' /\ StartedOK'
  <2>1. p \in {0} \cup 1 .. getNumPages(file')
    BY <1>4, <1>7
  <2> QED BY <1>2, <1>4, <1>9, <1>10, <2>1, SpaceStep
<1>12. UnwrittenIsZero'
  BY <1>2, <1>3, <1>4, <1>10 DEF UnwrittenIsZero, zeros
<1>13. FreshPageIsBlank'
  BY <1>10 DEF FreshPageIsBlank
<1> QED BY <1>11, <1>12, <1>13 DEF Inv

(* writePage: the file only grows, and not where pwrite does not append. *)
LEMMA Written ==
    ASSUME SpaceOK(file, headers, inUse), NEW p \in inUse \cup headerPages(headers) \cup {0}
    PROVE  /\ SpaceOK(writePage(p), headers, inUse)
           /\ p \in {0} \cup 1 .. getNumPages(writePage(p))
<1> DEFINE m == IF p = 0 THEN RootSize ELSE PageSize
           d == cells(m, 1)
           o == offset(p)
           g == writePage(p)
<1>1. g = pwrite(file, d, o)
  BY DEF writePage
<1>2. /\ file \in Seq({0, 1}) /\ Len(file) \in Nat /\ Len(file) >= RootSize
      /\ inUse \cup headerPages(headers) \subseteq 1 .. getNumPages(file)
      /\ PageSize \in Nat /\ RootSize \in Nat
  BY SpaceConstants DEF SpaceOK
<1>3. m \in Nat /\ o \in Nat /\ o + m <= Len(file)
  <2>1. CASE p = 0
    BY <1>2, <2>1 DEF offset
  <2>2. CASE p # 0
    <3>1. p \in 1 .. getNumPages(file)
      BY <1>2, <2>2
    <3>2. m = PageSize
      BY <2>2
    <3> QED BY <1>2, <3>1, <3>2, PageInFile
  <2> QED BY <2>1, <2>2
<1> HIDE DEF m, o
<1>4. d \in Seq({0, 1}) /\ Len(d) = m
  BY <1>3, Cells
<1> HIDE DEF d, g
<1>5. /\ g \in Seq({0, 1})
      /\ appends => Len(g) = Len(file) + m
      /\ ~ appends => Len(g) = larger(Len(file), o + m)
  BY <1>1, <1>2, <1>3, <1>4, Pwritten
<1>6. /\ Len(g) \in Nat /\ Len(g) >= Len(file) /\ Len(g) >= RootSize
      /\ ~ appends => Len(g) = Len(file)
  <2>1. larger(Len(file), o + m) = Len(file)
    BY <1>2, <1>3 DEF larger
  <2>2. CASE appends
    BY <1>2, <1>3, <1>5, <2>2
  <2>3. CASE ~ appends
    BY <1>2, <1>5, <2>1, <2>3
  <2> QED BY <2>2, <2>3
<1>7. /\ 1 .. getNumPages(file) \subseteq 1 .. getNumPages(g)
      /\ ~ appends => getNumPages(g) = getNumPages(file)
  <2>1. getNumPages(file) \in Nat /\ getNumPages(g) \in Nat
    BY <1>2, <1>6, NumPages
  <2>2. getNumPages(file) <= getNumPages(g)
    BY <1>2, <1>6, MorePages
  <2>3. ~ appends => getNumPages(g) = getNumPages(file)
    BY <1>6 DEF getNumPages
  <2> QED BY <2>1, <2>2, <2>3
<1>8. SpaceOK(g, headers, inUse)
  <2>1. /\ inUse \cup headerPages(headers) \cup freePages(headers) \subseteq 1 .. getNumPages(g)
        /\ headers \in Seq(Header)
        /\ inUse \cap freePages(headers) = {}
        /\ headerPages(headers) \cap (inUse \cup freePages(headers)) = {}
        /\ IsFiniteSet(headerPages(headers)) /\ Cardinality(headerPages(headers)) = Len(headers)
    BY <1>7 DEF SpaceOK
  <2>2. ASSUME ~ appends
        PROVE  /\ Len(g) = RootSize + PageSize * getNumPages(g)
               /\ \A q \in 1 .. getNumPages(g) :
                    q \notin inUse \cup headerPages(headers) \cup freePages(headers)
                        => q % HeaderSlots = 0
    BY <1>6, <1>7, <2>2 DEF SpaceOK
  <2> QED BY <1>5, <1>6, <2>1, <2>2 DEF SpaceOK
<1>9. p \in {0} \cup 1 .. getNumPages(g)
  BY <1>2, <1>7
<1> QED BY <1>8, <1>9 DEF g

(* A flush. *)
LEMMA WritePageInv ==
    ASSUME Inv, NEW p \in inUse \cup headerPages(headers) \cup {0}, WritePage(p)
    PROVE  Inv'
<1>1. SpaceOK(file, headers, inUse) /\ TypeOK
  BY DEF Inv, StartedOK, WritePage
<1>2. /\ file' = writePage(p) /\ fits
      /\ last' = [op |-> "write", page |-> p, wrote |-> TRUE, misread |-> FALSE]
      /\ headers' = headers /\ inUse' = inUse /\ appends' = appends
  BY DEF WritePage
<1>3. SpaceOK(writePage(p), headers, inUse) /\ p \in {0} \cup 1 .. getNumPages(writePage(p))
  BY <1>1, Written
<1>4. SpaceOK(file', headers', inUse') /\ p \in {0} \cup 1 .. getNumPages(file')
  BY <1>2, <1>3 DEF SpaceOK
<1>5. TypeOK' /\ StartedOK'
  BY <1>1, <1>2, <1>4, SpaceStep
<1>6. UnwrittenIsZero' /\ FreshPageIsBlank'
  BY <1>2 DEF UnwrittenIsZero, FreshPageIsBlank
<1> QED BY <1>5, <1>6 DEF Inv

(* What is read in the place of a header page is a header page of the same *)
(* number, and the list ends there.                                        *)
LEMMA Misread ==
    ASSUME headers \in Seq(Header), appends, NEW f,
           NEW p \in headerPages(headers) \cup {0}, NEW hs \in reread(f, p)
    PROVE  hs \in Seq(Header) /\ headerPages(hs) \subseteq headerPages(headers)
<1>1. CASE p = 0
  <2>1. hs = <<>>
    BY <1>1 DEF reread
  <2> QED BY <2>1 DEF headerPages
<1>2. CASE p # 0
  <2> DEFINE i == position(p)
  <2>1. PICK S \in misreadSlots(f, p) :
            hs = Append(SubSeq(headers, 1, i - 1), [page |-> p, free |-> S])
    BY <1>2 DEF reread
  <2> DEFINE t == SubSeq(headers, 1, i - 1)
             e == [page |-> p, free |-> S]
  <2>2. /\ i \in 1 .. Len(headers) /\ Len(headers) \in Nat /\ headers[i].page = p
        /\ \A k \in 1 .. Len(headers) : headers[k] \in Header
    <3>1. \E k \in DOMAIN headers : headers[k].page = p
      BY <1>2 DEF headerPages
    <3>2. i \in DOMAIN headers /\ headers[i].page = p
      BY <3>1 DEF position
    <3> HIDE DEF i
    <3> QED BY <3>2
  <2>3. t \in Seq(Header) /\ Len(t) = i - 1 /\ \A k \in 1 .. i - 1 : t[k] = headers[k]
    <3>1. 1 \in 1 .. Len(headers) + 1 /\ i - 1 \in 1 - 1 .. Len(headers)
      BY <2>2
    <3>2. (i - 1) - 1 + 1 = i - 1 /\ \A k \in 1 .. i - 1 : 1 + k - 1 = k
      BY <2>2
    <3> QED BY <2>2, <3>1, <3>2, SubSeqProperties
  <2>4. e \in Header
    <3>1. p \in Nat \ {0}
      BY <2>2 DEF Header
    <3>2. S \in SUBSET HeaderSlot
      BY DEF misreadSlots
    <3> QED BY <3>1, <3>2 DEF Header
  <2>5. hs = Append(t, e) /\ e.page = p
    BY <2>1
  <2> HIDE DEF i, t, e
  <2>6. /\ hs \in Seq(Header) /\ Len(hs) = i /\ hs[i] = e
        /\ \A k \in 1 .. i - 1 : hs[k] = t[k]
    BY <2>2, <2>3, <2>4, <2>5, AppendProperties
  <2>7. ASSUME NEW k \in DOMAIN hs PROVE hs[k].page \in headerPages(headers)
    <3>1. k \in 1 .. i
      BY <2>6
    <3>2. CASE k = i
      BY <2>2, <2>5, <2>6, <3>2 DEF headerPages
    <3>3. CASE k # i
      <4>1. k \in 1 .. i - 1 /\ k \in DOMAIN headers
        BY <2>2, <3>1, <3>3
      <4>2. hs[k] = headers[k]
        BY <2>3, <2>6, <4>1
      <4> QED BY <4>1, <4>2 DEF headerPages
    <3> QED BY <3>2, <3>3
  <2> QED BY <2>6, <2>7 DEF headerPages
<1> QED BY <1>1, <1>2

(* A header page or the root pointer page is evicted and read again. *)
LEMMA EvictPageInv ==
    ASSUME Inv, NEW p \in headerPages(headers) \cup {0}, EvictPage(p)
    PROVE  Inv'
<1>1. /\ SpaceOK(file, headers, inUse) /\ TypeOK /\ last.wrote \in BOOLEAN
      /\ appends \in BOOLEAN /\ (~ last.wrote => zeros(file))
  BY DEF Inv, StartedOK, EvictPage, TypeOK, UnwrittenIsZero
<1>2. PICK dirty \in BOOLEAN :
        /\ file' = IF dirty THEN writePage(p) ELSE file
        /\ last' = [op |-> "evict", page |-> p, wrote |-> last.wrote \/ dirty,
                    misread |-> appends]
  BY DEF EvictPage
<1>3. headers' \in reread(file', p) /\ fits /\ inUse' = inUse /\ appends' = appends
  BY DEF EvictPage
<1>4. SpaceOK(file', headers, inUse) /\ p \in {0} \cup 1 .. getNumPages(file')
  <2>1. CASE dirty
    <3>1. file' = writePage(p)
      BY <1>2, <2>1
    <3> QED BY <1>1, <3>1, Written
  <2>2. CASE ~ dirty
    <3>1. file' = file
      BY <1>2, <2>2
    <3>2. headerPages(headers) \subseteq 1 .. getNumPages(file)
      BY <1>1 DEF SpaceOK
    <3> QED BY <1>1, <3>1, <3>2
  <2> QED BY <2>1, <2>2
<1> DEFINE w == last.wrote \/ dirty
<1>5. w \in BOOLEAN /\ last'.wrote = w /\ last'.op = "evict"
  BY <1>1, <1>2
<1>6. TypeOK' /\ StartedOK'
  <2>1. CASE ~ appends
    <3>1. headers' = headers
      BY <1>3, <2>1 DEF reread
    <3>2. SpaceOK(file', headers', inUse')
      BY <1>3, <1>4, <3>1 DEF SpaceOK
    <3>3. last' = [op |-> "evict", page |-> p, wrote |-> w, misread |-> FALSE]
      <4>1. appends = FALSE
        BY <1>1, <2>1
      <4> QED BY <1>2, <4>1
    <3> HIDE DEF w
    <3> QED BY <1>1, <1>3, <1>4, <1>5, <3>2, <3>3, SpaceStep
  <2>2. CASE appends
    <3>1. /\ headers \in Seq(Header)
          /\ inUse \cup headerPages(headers) \subseteq 1 .. getNumPages(file')
          /\ file' \in Seq({0, 1}) /\ Len(file') >= RootSize
      BY <1>4 DEF SpaceOK
    <3>2. headers' \in Seq(Header) /\ headerPages(headers') \subseteq headerPages(headers)
      BY <1>3, <2>2, <3>1, Misread
    <3>3. last' = [op |-> "evict", page |-> p, wrote |-> w, misread |-> TRUE]
      <4>1. appends = TRUE
        BY <1>1, <2>2
      <4> QED BY <1>2, <4>1
    <3>4. inUse' \cup headerPages(headers') \subseteq 1 .. getNumPages(file')
      BY <1>3, <3>1, <3>2
    <3> HIDE DEF w
    <3> QED BY <1>1, <1>3, <1>4, <1>5, <2>2, <3>1, <3>2, <3>3, <3>4, MisreadStep
  <2> QED BY <2>1, <2>2
<1>7. UnwrittenIsZero'
  <2> SUFFICES ASSUME ~ last'.wrote PROVE zeros(file')
    BY DEF UnwrittenIsZero, zeros
  <2>1. ~ last.wrote /\ ~ dirty
    BY <1>5
  <2>2. file' = file
    BY <1>2, <2>1
  <2> QED BY <1>1, <2>1, <2>2
<1>8. FreshPageIsBlank'
  BY <1>5 DEF FreshPageIsBlank
<1> QED BY <1>6, <1>7, <1>8 DEF Inv

-------------------------------------------------------------------------------
(* The theorems.                                                           *)

(* A step that changes nothing. *)
LEMMA StutterInv == Inv /\ UNCHANGED vars => Inv'
BY DEF Inv, TypeOK, StartedOK, SpaceOK, MisreadOK, UnwrittenIsZero, zeros, FreshPageIsBlank,
       vars

(* Every step keeps the invariant: one lemma for each operation. *)
LEMMA NextInv == Inv /\ [Next]_vars => Inv'
<1> SUFFICES ASSUME Inv, [Next]_vars PROVE Inv'
  OBVIOUS
<1>1. CASE Create
  BY <1>1, CreateInv
<1>2. CASE GetEmptyPage
  BY <1>2, GetEmptyPageInv, GetMisreadPageInv
<1>3. ASSUME NEW p \in inUse, SetEmptyPage(p) PROVE Inv'
  BY <1>3, SetEmptyPageInv
<1>4. ASSUME NEW p \in inUse \cup headerPages(headers) \cup {0}, WritePage(p) PROVE Inv'
  BY <1>4, WritePageInv
<1>5. ASSUME NEW p \in headerPages(headers) \cup {0}, EvictPage(p) PROVE Inv'
  BY <1>5, EvictPageInv
<1>6. CASE UNCHANGED vars
  BY <1>6, StutterInv
<1> QED BY <1>1, <1>2, <1>3, <1>4, <1>5, <1>6 DEF Next

(* The inductive invariant holds in every state of a B+ tree file. *)
THEOREM SpaceInvariant == Spec => []Inv
BY InitInv, NextInv, PTL DEF Spec

(* The file stays within its bound and its header pages mark slots of      *)
(* their own: getEmptyPage and setEmptyPage keep the types.                *)
THEOREM SpaceTypes == Spec => []TypeOK
<1>1. Inv => TypeOK
  BY DEF Inv
<1> QED BY <1>1, SpaceInvariant, PTL

(* Through any order of getEmptyPage, setEmptyPage and writePage, and with *)
(* header pages evicted and read again, a page is one thing: taken, a      *)
(* header page or free.  Where pwrite appends this is so until a header    *)
(* page or the root pointer page is read again.                            *)
THEOREM SpaceSeparation == Spec => []PagesAreSeparate
<1>1. ASSUME Inv, ~ last.misread PROVE PagesAreSeparate
  <2>1. CASE file = <<>>
    <3>1. headers = <<>> /\ inUse = {}
      BY <1>1, <2>1 DEF Inv, StartedOK
    <3>2. headerPages(headers) = {} /\ freePages(headers) = {} /\ Len(headers) = 0
      BY <3>1 DEF headerPages, freePages
    <3>3. Cardinality({}) = 0
      BY FS_EmptySet
    <3> QED BY <3>1, <3>2, <3>3 DEF PagesAreSeparate
  <2>2. CASE file # <<>>
    <3>1. SpaceOK(file, headers, inUse)
      BY <1>1, <2>2 DEF Inv, StartedOK
    <3>2. 0 \notin 1 .. getNumPages(file)
      OBVIOUS
    <3> QED BY <3>1, <3>2 DEF SpaceOK, PagesAreSeparate
  <2> QED BY <2>1, <2>2
<1>2. Inv => PagesAreSeparate
  BY <1>1 DEF PagesAreSeparate
<1> QED BY <1>2, SpaceInvariant, PTL

(* readPage's assertion that it read a whole page holds for every page     *)
(* that is taken or a header page.                                         *)
THEOREM SpaceInFile == Spec => []PagesLieInFile
<1>1. ASSUME Inv PROVE PagesLieInFile
  <2> SUFFICES ASSUME NEW p \in inUse \cup headerPages(headers)
               PROVE  offset(p) + PageSize <= Len(file)
    BY DEF PagesLieInFile
  <2>1. file # <<>>
    BY <1>1 DEF Inv, StartedOK, headerPages
  <2>2. /\ file \in Seq({0, 1}) /\ Len(file) >= RootSize
        /\ inUse \cup headerPages(headers) \subseteq 1 .. getNumPages(file)
    BY <1>1, <2>1 DEF Inv, StartedOK, SpaceOK, MisreadOK
  <2>3. Len(file) \in Nat /\ Len(file) >= RootSize /\ p \in 1 .. getNumPages(file)
    BY <2>2
  <2> QED BY <2>3, PageInFile
<1> QED BY <1>1, SpaceInvariant, PTL

(* Where pwrite writes at its offset, setEmptyPage loses no pages but the  *)
(* multiples of getNumSlots(), and getEmptyPage none.                      *)
THEOREM SpaceLosses == Spec => []LostPagesAreBoundaries
<1>1. ASSUME Inv PROVE LostPagesAreBoundaries
  <2>1. CASE file = <<>>
    <3>1. Len(file) = 0
      BY <2>1
    <3>2. 1 .. getNumPages(file) = {}
      <4> DEFINE q == (0 - RootSize) \div PageSize
      <4>1. PageSize \in Nat \ {0} /\ RootSize \in Nat \ {0}
        BY SpaceConstants
      <4>2. q \in Int /\ PageSize * q <= 0 - RootSize
        BY <4>1
      <4>3. getNumPages(file) = q
        BY <3>1 DEF getNumPages
      <4> HIDE DEF q
      <4>4. ~ (q >= 1)
        <5> SUFFICES ASSUME q >= 1 PROVE FALSE
          OBVIOUS
        <5>1. q \in Nat
          BY <4>2
        <5>2. PageSize * q \in Nat
          BY <4>1, <5>1, Products
        <5> QED BY <4>1, <4>2, <5>2
      <4> QED BY <4>2, <4>3, <4>4
    <3> QED BY <3>2 DEF LostPagesAreBoundaries
  <2>2. CASE file # <<>>
    <3>1. appends \/ SpaceOK(file, headers, inUse)
      BY <1>1, <2>2 DEF Inv, StartedOK, MisreadOK
    <3> QED BY <3>1 DEF SpaceOK, LostPagesAreBoundaries
  <2> QED BY <2>1, <2>2
<1> QED BY <1>1, SpaceInvariant, PTL

(* A page that getEmptyPage just gave reads as an empty page, while        *)
(* nothing was written back; one at the end of the file reads so anyway    *)
(* where pwrite writes at its offset.                                      *)
THEOREM SpaceFresh == Spec => []FreshPageIsBlank
<1>1. Inv => FreshPageIsBlank
  BY DEF Inv
<1> QED BY <1>1, SpaceInvariant, PTL

(* getEmptyPage never gives a page that is taken or a header page, as long *)
(* as header pages were read from where they were written.                 *)
THEOREM SpaceNoReuse == Spec => NeverTakenTwice
<1> DEFINE A == ~ last.misread /\ last'.op \in {"take", "reuse"} =>
                    last'.page \notin inUse \cup headerPages(headers)
<1>1. ASSUME Inv, [Next]_vars PROVE [A]_vars
  <2>1. CASE Create
    <3>1. file = <<>> /\ headers = <<>> /\ inUse = {}
      <4>1. file = <<>>
        BY <2>1 DEF Create
      <4> QED BY <1>1, <4>1 DEF Inv, StartedOK
    <3> QED BY <3>1 DEF headerPages
  <2>2. CASE GetEmptyPage
    BY <1>1, <2>2, GetEmptyPageInv
  <2>3. ASSUME NEW p \in inUse, SetEmptyPage(p) PROVE A
    <3>1. last' = [last EXCEPT !.op = "free", !.page = p]
      BY <2>3 DEF SetEmptyPage, did
    <3> QED BY <1>1, <3>1 DEF Inv, TypeOK
  <2>4. ASSUME NEW p \in inUse \cup headerPages(headers) \cup {0}, WritePage(p) PROVE A
    BY <2>4 DEF WritePage
  <2>5. ASSUME NEW p \in headerPages(headers) \cup {0}, EvictPage(p) PROVE A
    BY <2>5 DEF EvictPage
  <2> QED BY <1>1, <2>1, <2>2, <2>3, <2>4, <2>5 DEF Next
<1> QED BY <1>1, SpaceInvariant, PTL DEF Spec, NeverTakenTwice

===============================================================================
