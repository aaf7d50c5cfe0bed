---------------------------- MODULE BTreeFileProofs ----------------------------
(***************************************************************************)
(* Proofs about BTreeFile, for any number of slots and entries and any set *)
(* of integer keys: the links and the keys of the tree agree, record ids   *)
(* name their tuples, no page of the file is two things, entries are put   *)
(* in and updated legally, and deleteTuple finds its tuple, through        *)
(* insertions, splits, deletions, steals and merges.                       *)
(***************************************************************************)
EXTENDS BTreeFile, BTreePageLemmas, SequenceTheorems

-------------------------------------------------------------------------------
(* The inductive invariant.                                                *)

(* The pages of f that hold a leaf. *)
leavesOf(f) == { p \in PageNo : f[p] # Null }

(* Every leaf page is in order. *)
LeavesOK(f) ==
    /\ f \in [PageNo -> Leaf \cup {Null}]
    /\ \A p \in leavesOf(f) : LeafOK(p, f[p].slots)

(* The entries E of the internal page: slots 0 to m, different children. *)
EntriesOK(E, m) ==
    /\ m \in 1 .. MaxEntries
    /\ E \in [Entry -> InnerEntry \cup {Null}]
    /\ used(E) = 0 .. m
    /\ \A e \in 1 .. m : E[e].key \in Keys
    /\ \A d, e \in 0 .. m : E[d].child = E[e].child => d = e

(* The children are the leaves, chained in the order of the entries. *)
LinkedOK(f, E, m, id) ==
    /\ leavesOf(f) = { E[e].child : e \in 0 .. m }
    /\ \A e \in 0 .. m :
        /\ f[E[e].child].parent = id
        /\ f[E[e].child].left = IF e = 0 THEN 0 ELSE E[e - 1].child
        /\ f[E[e].child].right = IF e = m THEN 0 ELSE E[e + 1].child

(* The keys of a leaf are between those of the entries around it. *)
RangesOK(f, E, m) ==
    \A e \in 0 .. m : \A k \in keysIn(f[E[e].child].slots) :
        (e # 0 => E[e].key <= k) /\ (e # m => k <= E[e + 1].key)

(* A leaf that is not the root is at least half full. *)
FilledOK(f, E, m) ==
    \A e \in 0 .. m : getNumTuples(f[E[e].child].slots) >= NumSlots \div 2

(* L, I, H and F are disjoint parts of P, and all of P unless pwrite       *)
(* appends.                                                                *)
Parts(L, I, H, F, P) ==
    /\ L \cup I \cup H \cup F \subseteq P
    /\ ~ appends => P = L \cup I \cup H \cup F
    /\ L \cap I = {} /\ (L \cup I) \cap (H \cup F) = {} /\ H \cap F = {}

(* One header page: it says of every page of the file whether it is free. *)
oneHeader(h, F) == <<[page |-> h, free |-> F]>>

(* The pages 1 to n of the file are leaves L, internal pages I, header     *)
(* pages and free pages, and others if numbers were skipped; there is one  *)
(* header page at most.                                                    *)
PagesOK(L, I, n, hs) ==
    /\ n \in PagePointer
    /\ hs = <<>> \/ \E h \in PageNo, F \in SUBSET PageNo : hs = oneHeader(h, F)
    /\ Parts(L, I, headerPages(hs), freePages(hs), 1 .. n)

(* The tree of internal page E above the leaves f. *)
TreeOK(f, E, m, id) == LinkedOK(f, E, m, id) /\ RangesOK(f, E, m) /\ FilledOK(f, E, m)

(* The internal pages. *)
innerPages(E, id) == IF E = Null THEN {} ELSE {id}

(* The file is new... *)
NoTree(f, E, id, r, n, hs) ==
    /\ f = [p \in PageNo |-> Null] /\ E = Null /\ id = 0 /\ r = 0
    /\ n = 0 /\ hs = <<>>

(* The root is a leaf... *)
LeafTree(f, E, id, r) ==
    /\ E = Null /\ id = 0
    /\ r \in PageNo /\ leavesOf(f) = {r}
    /\ f[r].parent = 0 /\ f[r].left = 0 /\ f[r].right = 0

(* ... or an internal page. *)
InnerTree(f, E, id, r) ==
    /\ r = id /\ id \in PageNo
    /\ \E m \in 1 .. MaxEntries : EntriesOK(E, m) /\ TreeOK(f, E, m, id)

(* The entries in slots g[1], g[2], ... g[n], and the leaves below them. *)
Below(f, E, id, n, g) ==
    /\ n \in Nat /\ g \in [1 .. n -> Int]
    /\ \A i, j \in 1 .. n : i < j => g[i] < g[j]
    /\ used(E) = { g[i] : i \in 1 .. n }
    /\ leavesOf(f) = { E[g[i]].child : i \in 1 .. n }
    /\ \A i, j \in 1 .. n : E[g[i]].child = E[g[j]].child => i = j
    /\ \A i \in 1 .. n :
        /\ f[E[g[i]].child].right = IF i = n THEN 0 ELSE E[g[i + 1]].child
        /\ f[E[g[i]].child].left = IF i = 1 THEN 0 ELSE E[g[i - 1]].child
        /\ f[E[g[i]].child].parent = id

(* At least two entries, in the order of their keys; slot 0 has no key. *)
Ordered(f, E, id, n, g) ==
    /\ Below(f, E, id, n, g)
    /\ n \in 2 .. MaxEntries + 1 /\ g[1] = 0
    /\ \A i \in 2 .. n : E[g[i]].key \in Keys
    /\ \A i \in 2 .. n - 1 : E[g[i]].key <= E[g[i + 1]].key

(* KeysInRange, of leaves f and entries E. *)
RangesAgree(f, E) ==
    E # Null =>
        \A e \in used(E) : \A s \in used(f[E[e].child].slots) :
            LET k == f[E[e].child].slots[s].key
            IN  /\ e # 0 => E[e].key <= k
                /\ \A n \in following(E, e) : k <= E[n].key

(* The slots that a merge leaves: 0, 2, 3, ... m. *)
withoutFirst(m) == [i \in 1 .. m |-> IF i = 1 THEN 0 ELSE i]

(* After a merge that leaves entries nothing is inserted any more. *)
StoppedTree ==
    /\ outcome = "empty page"
    /\ root = innerId /\ innerId \in PageNo /\ inner \in [Entry -> InnerEntry \cup {Null}]
    /\ \E m \in 2 .. MaxEntries : Ordered(leaf, inner, innerId, m, withoutFirst(m))
    /\ RangesAgree(leaf, inner)

(* The inductive invariant: the leaf pages and the entries are in order,   *)
(* the pages of the file are told apart, and there is no tree, a leaf, a   *)
(* complete tree, or the tree of a stopped process.                        *)
Inv ==
    /\ asserts \in BOOLEAN
    /\ appends \in BOOLEAN
    /\ tail \in 0 .. PageSize - 1
    /\ outcome \in {"running", "internal page full", "merge", "empty page", "looping"}
    /\ LeavesOK(leaf)
    /\ PagesOK(leavesOf(leaf), innerPages(inner, innerId), filePages, headers)
    /\ \/ NoTree(leaf, inner, innerId, root, filePages, headers)
       \/ LeafTree(leaf, inner, innerId, root)
       \/ InnerTree(leaf, inner, innerId, root)
       \/ StoppedTree

-------------------------------------------------------------------------------
(* Finite sets of numbers, from low to high.                               *)

(* How many elements of S are below s. *)
rank(S, s) == Cardinality({ r \in S : r < s })

(* Ranks number the elements of a finite set, from 0 on. *)
LEMMA Ranks ==
    ASSUME NEW S, S \subseteq Int, IsFiniteSet(S)
    PROVE  /\ Cardinality(S) \in Nat
           /\ \A s \in S : rank(S, s) \in 0 .. Cardinality(S) - 1
           /\ \A s, t \in S : s < t => rank(S, s) < rank(S, t)
           /\ \A i \in 0 .. Cardinality(S) - 1 : \E s \in S : rank(S, s) = i
<1> DEFINE B(s) == { r \in S : r < s }
           n == Cardinality(S)
<1>1. n \in Nat
  BY FS_CardinalityType
<1>2. ASSUME NEW s \in S
      PROVE  IsFiniteSet(B(s)) /\ Cardinality(B(s)) \in Nat /\ rank(S, s) = Cardinality(B(s))
  <2>1. B(s) \in SUBSET S
    OBVIOUS
  <2>2. IsFiniteSet(B(s))
    BY <2>1, FS_Subset
  <2> QED BY <2>2, FS_CardinalityType DEF rank
<1>3. ASSUME NEW s \in S PROVE rank(S, s) \in 0 .. n - 1
  <2>1. B(s) \cup {s} \in SUBSET S /\ s \notin B(s)
    OBVIOUS
  <2>2. Cardinality(B(s) \cup {s}) = Cardinality(B(s)) + 1
    BY <1>2, <2>1, FS_AddElement
  <2>3. Cardinality(B(s) \cup {s}) <= n
    BY <2>1, FS_Subset
  <2> QED BY <1>1, <1>2, <2>2, <2>3
<1>4. ASSUME NEW s \in S, NEW t \in S, s < t PROVE rank(S, s) < rank(S, t)
  <2>0. s \in Int /\ t \in Int /\ \A r \in S : r \in Int
    OBVIOUS
  <2>1. B(s) \cup {s} \in SUBSET B(t) /\ s \notin B(s)
    <3>1. ASSUME NEW r \in B(s) \cup {s} PROVE r \in S /\ r < t
      BY <2>0, <1>4
    <3>2. B(s) \cup {s} \subseteq B(t)
      BY <3>1
    <3>3. s \notin B(s)
      BY <2>0
    <3> QED BY <3>2, <3>3
  <2>2. Cardinality(B(s) \cup {s}) = Cardinality(B(s)) + 1
    BY <1>2, <2>1, FS_AddElement
  <2>3. Cardinality(B(s) \cup {s}) <= Cardinality(B(t))
    BY <1>2, <2>1, FS_Subset
  <2> QED BY <1>2, <2>2, <2>3
<1>5. \A i \in 0 .. n - 1 : \E s \in S : rank(S, s) = i
  <2> DEFINE f == [s \in S |-> rank(S, s)]
  <2>1. f \in [S -> 0 .. n - 1]
    BY <1>3
  <2>2. \A s, t \in S : f[s] = f[t] => s = t
    <3> SUFFICES ASSUME NEW s \in S, NEW t \in S, f[s] = f[t] PROVE s = t
      OBVIOUS
    <3>1. rank(S, s) = rank(S, t) /\ rank(S, s) \in Int /\ rank(S, t) \in Int
      BY <1>1, <1>3
    <3>2. ~ (s < t) /\ ~ (t < s)
      BY <1>4, <3>1
    <3> QED BY <3>2
  <2>3. f \in Injection(S, 0 .. n - 1)
    BY <2>1, <2>2 DEF Injection, IsInjective
  <2>4. IsFiniteSet(0 .. n - 1) /\ Cardinality(0 .. n - 1) = n
    BY <1>1, FS_Interval
  <2>5. f \in Surjection(S, 0 .. n - 1)
    BY <2>3, <2>4, FS_Injection
  <2> QED BY <2>5 DEF Surjection
<1> QED BY <1>1, <1>3, <1>4, <1>5

(* upwards(S) enumerates S. *)
LEMMA Upwards ==
    ASSUME NEW S, S \subseteq Int, IsFiniteSet(S)
    PROVE  /\ Cardinality(S) \in Nat
           /\ upwards(S) \in [1 .. Cardinality(S) -> S]
           /\ upwards(S) \in Seq(S) /\ Len(upwards(S)) = Cardinality(S)
           /\ Range(upwards(S)) = S
           /\ \A i \in 1 .. Cardinality(S) : rank(S, upwards(S)[i]) = i - 1
<1> DEFINE n == Cardinality(S)
           u == upwards(S)
<1>1. /\ n \in Nat /\ \A s \in S : rank(S, s) \in 0 .. n - 1
      /\ \A s, t \in S : s < t => rank(S, s) < rank(S, t)
      /\ \A i \in 0 .. n - 1 : \E s \in S : rank(S, s) = i
  BY Ranks
<1>2. u = [i \in 1 .. n |-> CHOOSE s \in S : rank(S, s) = i - 1]
  BY DEF upwards, rank
<1>3. ASSUME NEW i \in 1 .. n PROVE u[i] \in S /\ rank(S, u[i]) = i - 1
  <2>1. i - 1 \in 0 .. n - 1
    BY <1>1
  <2>2. \E s \in S : rank(S, s) = i - 1
    BY <1>1, <2>1
  <2> QED BY <1>2, <2>2
<1> HIDE DEF u
<1>4. u \in [1 .. n -> S]
  BY <1>2, <1>3
<1>5. u \in Seq(S) /\ Len(u) = n /\ DOMAIN u = 1 .. n
  BY <1>1, <1>4
<1>6. ASSUME NEW s \in S PROVE s \in Range(u)
  <2>1. rank(S, s) + 1 \in 1 .. n /\ rank(S, s) \in Int
    BY <1>1
  <2>2. u[rank(S, s) + 1] \in S /\ rank(S, u[rank(S, s) + 1]) = rank(S, s)
    BY <1>3, <2>1
  <2>3. u[rank(S, s) + 1] = s
    <3>1. PICK t \in S : t = u[rank(S, s) + 1]
      BY <2>2
    <3>2. s \in Int /\ t \in Int /\ rank(S, t) = rank(S, s)
      BY <2>2, <3>1
    <3>3. ~ (s < t) /\ ~ (t < s)
      BY <1>1, <2>1, <3>2
    <3> QED BY <3>1, <3>2, <3>3
  <2> QED BY <1>5, <2>1, <2>3 DEF Range
<1>7. Range(u) \subseteq S
  BY <1>4, <1>5 DEF Range
<1> QED BY <1>1, <1>3, <1>4, <1>5, <1>6, <1>7 DEF u

(* A sequence that goes up through S is upwards(S). *)
LEMMA UpwardsIs ==
    ASSUME NEW n \in Nat, NEW g, g \in [1 .. n -> Int],
           \A i, j \in 1 .. n : i < j => g[i] < g[j],
           NEW S, S = { g[i] : i \in 1 .. n }
    PROVE  IsFiniteSet(S) /\ S \subseteq Int /\ Cardinality(S) = n /\ upwards(S) = g
<1>1. S \subseteq Int
  OBVIOUS
<1>2. g \in [1 .. n -> S] /\ \A i, j \in 1 .. n : g[i] = g[j] => i = j
  OBVIOUS
<1>3. ASSUME NEW i \in 1 .. n PROVE rank(S, g[i]) = i - 1
  <2> DEFINE T == { r \in S : r < g[i] }
             h == [j \in 1 .. i - 1 |-> g[j]]
  <2>1. h \in [1 .. i - 1 -> T]
    OBVIOUS
  <2>2. \A t \in T : \E j \in 1 .. i - 1 : h[j] = t
    <3> SUFFICES ASSUME NEW t \in T PROVE \E j \in 1 .. i - 1 : h[j] = t
      OBVIOUS
    <3>1. PICK j \in 1 .. n : t = g[j]
      OBVIOUS
    <3>2. j < i
      BY <3>1
    <3> QED BY <3>1, <3>2
  <2>3. h \in Bijection(1 .. i - 1, T)
    BY <1>2, <2>1, <2>2 DEF Bijection, Injection, Surjection, IsInjective
  <2>4. IsFiniteSet(1 .. i - 1) /\ Cardinality(1 .. i - 1) = i - 1
    BY FS_Interval
  <2>5. ExistsBijection(1 .. i - 1, T)
    BY <2>3 DEF ExistsBijection
  <2>6. Cardinality(T) = i - 1
    BY <2>4, <2>5, FS_Bijection
  <2> QED BY <2>6 DEF rank
<1>4. IsFiniteSet(S) /\ Cardinality(S) = n
  <2>1. g \in Bijection(1 .. n, S)
    BY <1>2 DEF Bijection, Injection, Surjection, IsInjective
  <2>2. IsFiniteSet(1 .. n) /\ Cardinality(1 .. n) = n
    BY FS_Interval
  <2>3. ExistsBijection(1 .. n, S)
    BY <2>1 DEF ExistsBijection
  <2> QED BY <2>2, <2>3, FS_Bijection
<1>5. ASSUME NEW i \in 1 .. n PROVE upwards(S)[i] = g[i]
  <2>1. upwards(S)[i] \in S /\ rank(S, upwards(S)[i]) = i - 1
    <3>1. upwards(S) \in [1 .. n -> S] /\ rank(S, upwards(S)[i]) = i - 1
      BY <1>1, <1>4, Upwards
    <3> QED BY <3>1
  <2>2. PICK j \in 1 .. n : upwards(S)[i] = g[j]
    BY <2>1
  <2>3. j - 1 = i - 1
    BY <1>3, <2>1, <2>2
  <2> QED BY <2>2, <2>3
<1>6. upwards(S) \in [1 .. n -> S]
  BY <1>1, <1>4, Upwards
<1>7. upwards(S) = g
  <2>1. upwards(S) = [i \in 1 .. n |-> upwards(S)[i]]
    BY <1>6
  <2>2. g = [i \in 1 .. n |-> g[i]]
    OBVIOUS
  <2> QED BY <1>5, <2>1, <2>2
<1> QED BY <1>1, <1>4, <1>7

(* The n lowest tuples of a leaf. *)
LEMMA BottomSlots ==
    ASSUME NEW pid, NEW a, LeafOK(pid, a), NEW n \in 0 .. getNumTuples(a)
    PROVE  /\ bottomSlots(a, n) \subseteq used(a) /\ Cardinality(bottomSlots(a, n)) = n
           /\ \A s \in bottomSlots(a, n), t \in used(a) \ bottomSlots(a, n) : s < t
<1> DEFINE U == used(a)
           B == bottomSlots(a, n)
           f == [s \in B |-> rank(U, s)]
<1>1. U \subseteq Int /\ IsFiniteSet(U) /\ Cardinality(U) \in Nat /\ n \in 0 .. Cardinality(U)
  <2>1. U \subseteq Slot /\ Slot \subseteq Nat
    BY LeafSlots
  <2>2. IsFiniteSet(U) /\ getNumTuples(a) \in Nat /\ getNumTuples(a) = Cardinality(U)
    BY LeafCounts
  <2> HIDE DEF U
  <2> QED BY <2>1, <2>2
<1>2. B = { s \in U : rank(U, s) < n }
  BY DEF bottomSlots, rank
<1> HIDE DEF U, B
<1>3. /\ \A s \in U : rank(U, s) \in 0 .. Cardinality(U) - 1
      /\ \A s, t \in U : s < t => rank(U, s) < rank(U, t)
      /\ \A i \in 0 .. Cardinality(U) - 1 : \E s \in U : rank(U, s) = i
  BY <1>1, Ranks
<1>4. \A s, t \in U : rank(U, s) < rank(U, t) => s < t
  <2> SUFFICES ASSUME NEW s \in U, NEW t \in U, rank(U, s) < rank(U, t) PROVE s < t
    OBVIOUS
  <2>1. s \in Int /\ t \in Int /\ rank(U, s) \in Int /\ rank(U, t) \in Int
    BY <1>1, <1>3
  <2>2. ~ (t < s) /\ s # t
    BY <1>3, <2>1
  <2> QED BY <2>1, <2>2
<1>5. f \in [B -> 0 .. n - 1]
  <2>1. ASSUME NEW s \in B PROVE rank(U, s) \in 0 .. n - 1
    BY <1>1, <1>2, <1>3
  <2> QED BY <2>1
<1>6. \A s, t \in B : f[s] = f[t] => s = t
  <2> SUFFICES ASSUME NEW s \in B, NEW t \in B, rank(U, s) = rank(U, t) PROVE s = t
    OBVIOUS
  <2>1. s \in U /\ t \in U /\ s \in Int /\ t \in Int /\ rank(U, s) \in Int
    BY <1>1, <1>2, <1>3
  <2>2. ~ (t < s) /\ ~ (s < t)
    BY <1>3, <2>1
  <2> QED BY <2>1, <2>2
<1>7. \A i \in 0 .. n - 1 : \E s \in B : f[s] = i
  <2> SUFFICES ASSUME NEW i \in 0 .. n - 1 PROVE \E s \in B : rank(U, s) = i
    OBVIOUS
  <2>1. i \in 0 .. Cardinality(U) - 1 /\ i < n
    BY <1>1
  <2> QED BY <1>2, <1>3, <2>1
<1>8. Cardinality(B) = n
  <2>1. f \in Bijection(B, 0 .. n - 1)
    BY <1>5, <1>6, <1>7 DEF Bijection, Injection, Surjection, IsInjective
  <2>2. ExistsBijection(B, 0 .. n - 1)
    BY <2>1 DEF ExistsBijection
  <2>3. IsFiniteSet(B)
    <3>1. B \in SUBSET U
      BY <1>2
    <3> QED BY <1>1, <3>1, FS_Subset
  <2>4. Cardinality(0 .. n - 1) = n
    BY <1>1, FS_Interval
  <2> QED BY <2>2, <2>3, <2>4, FS_Bijection
<1>9. \A s \in B, t \in U \ B : s < t
  <2> SUFFICES ASSUME NEW s \in B, NEW t \in U \ B PROVE s < t
    OBVIOUS
  <2>1. s \in U /\ rank(U, s) < n /\ ~ (rank(U, t) < n) /\ rank(U, s) \in Int /\ rank(U, t) \in Int
    BY <1>2, <1>3
  <2>2. rank(U, s) < rank(U, t)
    BY <1>1, <2>1
  <2> QED BY <1>4, <2>1, <2>2
<1>10. B \subseteq U
  BY <1>2
<1> QED BY <1>8, <1>9, <1>10 DEF U, B

(* The n highest tuples of a leaf are the others. *)
LEMMA TopSlots ==
    ASSUME NEW pid, NEW a, LeafOK(pid, a), NEW n \in 0 .. getNumTuples(a)
    PROVE  /\ topSlots(a, n) = used(a) \ bottomSlots(a, getNumTuples(a) - n)
           /\ Cardinality(topSlots(a, n)) = n
<1> DEFINE U == used(a)
           m == getNumTuples(a) - n
           B == bottomSlots(a, m)
           above(s) == { r \in U : r > s }
<1>1. U \subseteq Int /\ IsFiniteSet(U) /\ Cardinality(U) \in Nat /\ n \in 0 .. Cardinality(U)
      /\ Cardinality(U) = getNumTuples(a)
  <2>1. U \subseteq Slot /\ Slot \subseteq Nat
    BY LeafSlots
  <2>2. IsFiniteSet(U) /\ getNumTuples(a) \in Nat /\ getNumTuples(a) = Cardinality(U)
    BY LeafCounts
  <2> HIDE DEF U
  <2> QED BY <2>1, <2>2
<1>2. m \in 0 .. getNumTuples(a)
  BY <1>1
<1>3. B \subseteq U /\ Cardinality(B) = m
  BY <1>2, BottomSlots
<1>4. B = { s \in U : rank(U, s) < m }
  BY DEF bottomSlots, rank
<1>5. topSlots(a, n) = { s \in U : Cardinality(above(s)) < n }
  BY DEF topSlots
<1>6. ASSUME NEW s \in U PROVE Cardinality(above(s)) = Cardinality(U) - 1 - rank(U, s)
  <2> DEFINE C == { r \in U : r < s }
  <2>1. s \in Int /\ \A r \in U : r \in Int
    BY <1>1
  <2>2. above(s) = U \ (C \cup {s})
    <3>1. ASSUME NEW r \in U PROVE r > s <=> ~ (r < s) /\ r # s
      BY <2>1
    <3> QED BY <3>1
  <2>3. C \cup {s} \in SUBSET U /\ s \notin C /\ U \cap (C \cup {s}) = C \cup {s}
    BY <2>1
  <2>4. IsFiniteSet(C) /\ rank(U, s) = Cardinality(C) /\ Cardinality(C) \in Nat
    <3>1. C \in SUBSET U
      OBVIOUS
    <3>2. IsFiniteSet(C)
      BY <1>1, <3>1, FS_Subset
    <3> QED BY <3>2, FS_CardinalityType DEF rank
  <2>5. Cardinality(C \cup {s}) = Cardinality(C) + 1
    BY <2>3, <2>4, FS_AddElement
  <2>6. Cardinality(above(s)) = Cardinality(U) - Cardinality(C \cup {s})
    <3> HIDE DEF C, above, U
    <3> QED BY <1>1, <2>2, <2>3, FS_Difference
  <2> QED BY <1>1, <2>4, <2>5, <2>6
<1>7. \A s \in U : rank(U, s) \in 0 .. Cardinality(U) - 1
  BY <1>1, Ranks
<1>8. topSlots(a, n) = U \ B
  <2>1. ASSUME NEW s \in U PROVE Cardinality(above(s)) < n <=> ~ (rank(U, s) < m)
    <3>1. rank(U, s) \in Int /\ Cardinality(U) \in Int
      BY <1>1, <1>7
    <3> HIDE DEF above, U
    <3> QED BY <1>1, <1>6, <3>1
  <2> HIDE DEF above, U, B
  <2> QED BY <1>4, <1>5, <2>1
<1>9. Cardinality(U \ B) = n
  <2>1. U \cap B = B
    BY <1>3
  <2> HIDE DEF U, B
  <2>2. Cardinality(U \ B) = Cardinality(U) - Cardinality(B)
    BY <1>1, <2>1, FS_Difference
  <2> QED BY <1>1, <1>3, <2>2
<1> QED BY <1>8, <1>9

(* downwards(S) enumerates S as well. *)
LEMMA Downwards ==
    ASSUME NEW S, S \subseteq Int, IsFiniteSet(S)
    PROVE  /\ downwards(S) \in Seq(S) /\ Len(downwards(S)) = Cardinality(S)
           /\ Range(downwards(S)) = S
<1> DEFINE u == upwards(S)
           d == downwards(S)
           n == Cardinality(S)
<1>1. n \in Nat /\ u \in [1 .. n -> S] /\ Len(u) = n /\ Range(u) = S
  BY Upwards
<1>2. d = [i \in 1 .. n |-> u[(n - i) + 1]]
  BY <1>1 DEF downwards, Reverse
<1> HIDE DEF u, d, n
<1>3. \A i \in 1 .. n : (n - i) + 1 \in 1 .. n
  BY <1>1
<1>4. d \in [1 .. n -> S]
  BY <1>1, <1>2, <1>3
<1>5. d \in Seq(S) /\ Len(d) = n
  BY <1>1, <1>4
<1>6. ASSUME NEW s \in S PROVE s \in Range(d)
  <2>1. PICK j \in 1 .. n : s = u[j]
    BY <1>1 DEF Range
  <2>2. (n - j) + 1 \in 1 .. n /\ (n - ((n - j) + 1)) + 1 = j
    BY <1>1
  <2>3. d[(n - j) + 1] = s
    BY <1>2, <2>1, <2>2
  <2> QED BY <1>4, <2>2, <2>3 DEF Range
<1>7. Range(d) \subseteq S
  BY <1>4 DEF Range
<1> QED BY <1>5, <1>6, <1>7 DEF u, d, n

-------------------------------------------------------------------------------
(* Leaves.                                                                 *)

(* What the slots of a leaf can hold. *)
LEMMA TuplesAreRecords ==
    ASSUME NEW p \in PageNo
    PROVE  /\ Null \notin tuplesOf(p) /\ tuplesOf(p) \subseteq Record
           /\ \A a : LeafOK(p, a) => a \in [Slot -> Record \cup {Null}]
<1>1. tuplesOf(p) \subseteq Record
  BY DEF tuplesOf, Record
<1>2. Null \notin Record
  BY NullIsNone
<1>3. ASSUME NEW a, LeafOK(p, a) PROVE a \in [Slot -> Record \cup {Null}]
  <2>1. a \in [Slot -> tuplesOf(p) \cup {Null}]
    BY <1>3 DEF LeafOK
  <2> QED BY <1>1, <2>1
<1> QED BY <1>1, <1>2, <1>3

(* A leaf page is a record with its slots and pointers. *)
LEMMA LeafFields ==
    ASSUME NEW f, LeavesOK(f), NEW p \in leavesOf(f)
    PROVE  /\ p \in PageNo /\ f[p] \in Leaf /\ f[p] # Null /\ LeafOK(p, f[p].slots)
           /\ f[p].slots \in [Slot -> Record \cup {Null}]
           /\ f[p].parent \in PagePointer /\ f[p].left \in PagePointer /\ f[p].right \in PagePointer
<1>1. p \in PageNo /\ f[p] \in Leaf /\ f[p] # Null /\ LeafOK(p, f[p].slots)
  BY DEF LeavesOK, leavesOf
<1> QED BY <1>1 DEF Leaf

(* A leaf page with other slots or pointers. *)
LEMMA NewLeaf ==
    ASSUME NEW x \in Leaf, NEW p \in PageNo, NEW a, LeafOK(p, a), NEW q \in PagePointer
    PROVE  /\ [x EXCEPT !.slots = a] \in Leaf /\ [x EXCEPT !.slots = a].slots = a
           /\ [x EXCEPT !.slots = a].parent = x.parent
           /\ [x EXCEPT !.slots = a].left = x.left /\ [x EXCEPT !.slots = a].right = x.right
<1>1. a \in [Slot -> Record \cup {Null}]
  BY TuplesAreRecords
<1> QED BY <1>1 DEF Leaf

(* Leaf p is given the slots a. *)
withSlots(f, p, a) == [f EXCEPT ![p].slots = a]

(* The slots of a leaf change. *)
LEMMA ChangedSlots ==
    ASSUME NEW f, LeavesOK(f), NEW p \in leavesOf(f), NEW a, LeafOK(p, a),
           NEW g, g = withSlots(f, p, a)
    PROVE  /\ LeavesOK(g) /\ leavesOf(g) = leavesOf(f) /\ g[p].slots = a
           /\ g[p].parent = f[p].parent /\ g[p].left = f[p].left /\ g[p].right = f[p].right
           /\ \A r \in PageNo \ {p} : g[r] = f[r]
<1>1. p \in PageNo /\ f[p] \in Leaf /\ f[p] # Null /\ f \in [PageNo -> Leaf \cup {Null}]
  BY LeafFields DEF LeavesOK
<1> DEFINE x == [f[p] EXCEPT !.slots = a]
<1>2. /\ x \in Leaf /\ x.slots = a
      /\ x.parent = f[p].parent /\ x.left = f[p].left /\ x.right = f[p].right
  <2>1. 0 \in PagePointer
    BY DEF PagePointer
  <2> QED BY <1>1, <2>1, NewLeaf
<1>3. g = [f EXCEPT ![p] = x]
  BY <1>1 DEF withSlots
<1>4. x # Null
  BY <1>2, NullIsNone
<1> HIDE DEF x
<1>5. g \in [PageNo -> Leaf \cup {Null}] /\ g[p] = x /\ \A r \in PageNo \ {p} : g[r] = f[r]
  BY <1>1, <1>2, <1>3
<1>6. leavesOf(g) = leavesOf(f)
  BY <1>1, <1>4, <1>5 DEF leavesOf
<1>7. ASSUME NEW r \in leavesOf(g) PROVE LeafOK(r, g[r].slots)
  <2>1. CASE r = p
    BY <1>2, <1>5, <2>1
  <2>2. CASE r # p
    <3>1. r \in PageNo /\ g[r] = f[r] /\ LeafOK(r, f[r].slots)
      BY <1>5, <1>6, <2>2 DEF LeavesOK, leavesOf
    <3> QED BY <3>1
  <2> QED BY <2>1, <2>2
<1> QED BY <1>2, <1>5, <1>6, <1>7 DEF LeavesOK

(* Pages change, the tuples on them do not. *)
LEMMA SameTuples ==
    ASSUME NEW f, LeavesOK(f), NEW g, g \in [PageNo -> Leaf \cup {Null}],
           \A p \in leavesOf(g) : p \in leavesOf(f) /\ g[p].slots = f[p].slots
    PROVE  LeavesOK(g)
BY DEF LeavesOK

-------------------------------------------------------------------------------
(* Counting the tuples of a tree.                                          *)

(* The tuples with key k in the slots a, and on the leaves R of f. *)
keyCount(a, k) == Cardinality(keySlots(a, k))
tuplesOn(f, R, k) == UNION { { <<p, s>> : s \in keySlots(f[p].slots, k) } : p \in R }

(* The number of tuples with key k. *)
count(f, k) == Cardinality(tuplesOn(f, leavesOf(f), k))

(* Each key as often... *)
SameCounts(f, g) == \A k \in Keys : count(g, k) = count(f, k)

(* ... or one tuple with key k more... *)
Adds(f, g, k) ==
    \A j \in Keys : count(g, j) = IF j = k THEN count(f, j) + 1 ELSE count(f, j)

(* ... or less. *)
Loses(f, g, k) ==
    /\ count(f, k) > 0
    /\ \A j \in Keys : count(g, j) = IF j = k THEN count(f, j) - 1 ELSE count(f, j)

(* Pairs of a page and its slots are as many as the slots. *)
LEMMA PairedWith ==
    ASSUME NEW x, NEW T, IsFiniteSet(T), NEW P, P = { <<x, s>> : s \in T }
    PROVE  IsFiniteSet(P) /\ Cardinality(P) = Cardinality(T)
<1>1. PICK F : F = [s \in T |-> <<x, s>>]
  OBVIOUS
<1>2. F \in [T -> P] /\ (\A s, t \in T : F[s] = F[t] => s = t) /\ \A y \in P : \E s \in T : F[s] = y
  BY <1>1
<1>3. F \in Bijection(T, P)
  BY <1>2 DEF Bijection, Injection, Surjection, IsInjective
<1>4. ExistsBijection(T, P)
  BY <1>3 DEF ExistsBijection
<1> QED BY <1>4, FS_Bijection

(* The keys of a leaf can be counted. *)
LEMMA KeyCounts ==
    ASSUME NEW pid, NEW a, LeafOK(pid, a), NEW k
    PROVE  IsFiniteSet(keySlots(a, k)) /\ keyCount(a, k) \in Nat /\ keySlots(a, k) \subseteq Slot
<1>1. IsFiniteSet(used(a)) /\ used(a) \subseteq Slot
  BY LeafCounts, LeafSlots
<1>2. keySlots(a, k) \subseteq used(a)
  BY DEF keySlots
<1> QED BY <1>1, <1>2, FS_Subset, FS_CardinalityType DEF keyCount

(* The tuples on leaf p are counted apart. *)
LEMMA TuplesApart ==
    ASSUME NEW f, LeavesOK(f), NEW R, R \subseteq leavesOf(f), NEW p \in R, NEW k
    PROVE  /\ keyCount(f[p].slots, k) \in Nat /\ Cardinality(tuplesOn(f, R \ {p}, k)) \in Nat
           /\ Cardinality(tuplesOn(f, R, k)) =
                Cardinality(tuplesOn(f, R \ {p}, k)) + keyCount(f[p].slots, k)
<1>1. \A r \in R : r \in PageNo /\ LeafOK(r, f[r].slots)
  BY LeafFields
<1>2. PICK A : A = tuplesOn(f, R \ {p}, k)
  OBVIOUS
<1>3. PICK B : B = { <<p, s>> : s \in keySlots(f[p].slots, k) }
  OBVIOUS
<1>4. tuplesOn(f, R, k) = A \cup B
  <2>1. R = (R \ {p}) \cup {p}
    OBVIOUS
  <2> QED BY <1>2, <1>3, <2>1 DEF tuplesOn
<1>5. A \cap B = {}
  <2> SUFFICES ASSUME NEW y \in A, y \in B PROVE FALSE
    OBVIOUS
  <2>1. PICK r \in R \ {p} : y \in { <<r, s>> : s \in keySlots(f[r].slots, k) }
    BY <1>2 DEF tuplesOn
  <2> QED BY <1>3, <2>1
<1>6. IsFiniteSet(B) /\ Cardinality(B) = keyCount(f[p].slots, k) /\ keyCount(f[p].slots, k) \in Nat
  <2>1. IsFiniteSet(keySlots(f[p].slots, k)) /\ keyCount(f[p].slots, k) \in Nat
    BY <1>1, KeyCounts
  <2> QED BY <1>3, <2>1, PairedWith DEF keyCount
<1>7. IsFiniteSet(A)
  <2>1. IsFiniteSet(PageNo) /\ IsFiniteSet(Slot)
    BY FileConstants, BTreeConstants, FS_Interval DEF PageNo, Slot
  <2>2. IsFiniteSet(PageNo \X Slot)
    BY <2>1, FS_Product
  <2>3. A \subseteq PageNo \X Slot
    <3> SUFFICES ASSUME NEW y \in A PROVE y \in PageNo \X Slot
      OBVIOUS
    <3>1. PICK r \in R : y \in { <<r, s>> : s \in keySlots(f[r].slots, k) }
      BY <1>2 DEF tuplesOn
    <3>2. r \in PageNo /\ keySlots(f[r].slots, k) \subseteq Slot
      BY <1>1, KeyCounts
    <3> QED BY <3>1, <3>2
  <2> QED BY <2>2, <2>3, FS_Subset
<1>8. Cardinality(A) \in Nat /\ Cardinality(A \cup B) = Cardinality(A) + Cardinality(B) - Cardinality({})
  BY <1>5, <1>6, <1>7, FS_Union, FS_CardinalityType
<1> QED BY <1>2, <1>4, <1>6, <1>8, FS_EmptySet

(* What is counted is in the slots. *)
LEMMA SameTuplesOn ==
    ASSUME NEW f, NEW g, NEW R, \A r \in R : g[r].slots = f[r].slots, NEW k
    PROVE  tuplesOn(g, R, k) = tuplesOn(f, R, k)
BY DEF tuplesOn

(* The tuples of a tree that is one leaf. *)
LEMMA SoleLeafCounts ==
    ASSUME NEW f, LeavesOK(f), NEW p, leavesOf(f) = {p}, NEW k
    PROVE  count(f, k) = keyCount(f[p].slots, k)
<1>1. PICK R : R = leavesOf(f)
  OBVIOUS
<1>2. p \in R /\ R \subseteq leavesOf(f) /\ R \ {p} = {}
  BY <1>1
<1>3. /\ keyCount(f[p].slots, k) \in Nat
      /\ Cardinality(tuplesOn(f, R, k)) =
           Cardinality(tuplesOn(f, R \ {p}, k)) + keyCount(f[p].slots, k)
  BY <1>2, TuplesApart
<1>4. tuplesOn(f, R \ {p}, k) = {}
  BY <1>2 DEF tuplesOn
<1> QED BY <1>1, <1>3, <1>4, FS_EmptySet DEF count

(* What one leaf has, and the others the rest. *)
CountsAlone(f, p, k, c) == count(f, k) = c + keyCount(f[p].slots, k)

(* The tuples on one leaf change. *)
LEMMA OneLeafCounts ==
    ASSUME NEW f, LeavesOK(f), NEW g, LeavesOK(g), leavesOf(g) = leavesOf(f),
           NEW p \in leavesOf(f), \A r \in leavesOf(f) \ {p} : g[r].slots = f[r].slots, NEW k
    PROVE  \E c \in Nat : CountsAlone(f, p, k, c) /\ CountsAlone(g, p, k, c)
<1>1. PICK R : R = leavesOf(f)
  OBVIOUS
<1>2. tuplesOn(g, R \ {p}, k) = tuplesOn(f, R \ {p}, k)
  BY <1>1, SameTuplesOn
<1>3. PICK c : c = Cardinality(tuplesOn(f, R \ {p}, k))
  OBVIOUS
<1>4. /\ keyCount(f[p].slots, k) \in Nat /\ c \in Nat
      /\ Cardinality(tuplesOn(f, R, k)) = c + keyCount(f[p].slots, k)
  BY <1>1, <1>3, TuplesApart
<1>5. /\ keyCount(g[p].slots, k) \in Nat
      /\ Cardinality(tuplesOn(g, R, k)) = c + keyCount(g[p].slots, k)
  BY <1>1, <1>2, <1>3, TuplesApart
<1> QED BY <1>1, <1>4, <1>5 DEF count, CountsAlone

(* What two leaves have, and the others the rest. *)
countOnBoth(f, p, q, k) == keyCount(f[p].slots, k) + keyCount(f[q].slots, k)
CountsWith(f, p, q, k, c) == count(f, k) = c + countOnBoth(f, p, q, k)

(* The tuples on two leaves change. *)
LEMMA TwoLeavesCounts ==
    ASSUME NEW f, LeavesOK(f), NEW g, LeavesOK(g), leavesOf(g) = leavesOf(f),
           NEW p \in leavesOf(f), NEW q \in leavesOf(f), p # q,
           \A r \in leavesOf(f) \ {p, q} : g[r].slots = f[r].slots, NEW k
    PROVE  \E c \in Nat : CountsWith(f, p, q, k, c) /\ CountsWith(g, p, q, k, c)
<1>1. PICK R, T : R = leavesOf(f) /\ T = leavesOf(f) \ {p}
  OBVIOUS
<1>2. T \ {q} = leavesOf(f) \ {p, q} /\ R \ {p} = T /\ q \in T /\ T \subseteq leavesOf(f)
  BY <1>1
<1>3. tuplesOn(g, T \ {q}, k) = tuplesOn(f, T \ {q}, k)
  BY <1>2, SameTuplesOn
<1>4. PICK c : c = Cardinality(tuplesOn(f, T \ {q}, k))
  OBVIOUS
<1>5. /\ keyCount(f[p].slots, k) \in Nat /\ keyCount(f[q].slots, k) \in Nat /\ c \in Nat
      /\ Cardinality(tuplesOn(f, R, k)) = Cardinality(tuplesOn(f, T, k)) + keyCount(f[p].slots, k)
      /\ Cardinality(tuplesOn(f, T, k)) = c + keyCount(f[q].slots, k)
  BY <1>1, <1>2, <1>4, TuplesApart
<1>6. /\ keyCount(g[p].slots, k) \in Nat /\ keyCount(g[q].slots, k) \in Nat
      /\ Cardinality(tuplesOn(g, R, k)) = Cardinality(tuplesOn(g, T, k)) + keyCount(g[p].slots, k)
      /\ Cardinality(tuplesOn(g, T, k)) = c + keyCount(g[q].slots, k)
  BY <1>1, <1>2, <1>3, <1>4, TuplesApart
<1> QED BY <1>1, <1>5, <1>6 DEF count, countOnBoth, CountsWith

(* A leaf without tuples does not count. *)
LEMMA EmptyLeafCounts ==
    ASSUME NEW f, NEW g, NEW q, leavesOf(g) \ {q} = leavesOf(f) \ {q},
           \A r \in leavesOf(f) \ {q} : g[r].slots = f[r].slots,
           q \in leavesOf(f) => used(f[q].slots) = {},
           q \in leavesOf(g) => used(g[q].slots) = {}
    PROVE  SameCounts(f, g)
<1> SUFFICES ASSUME NEW k \in Keys PROVE count(g, k) = count(f, k)
  BY DEF SameCounts
<1>1. \A h, R : (q \in R => used(h[q].slots) = {}) => tuplesOn(h, R, k) = tuplesOn(h, R \ {q}, k)
  <2> SUFFICES ASSUME NEW h, NEW R, q \in R => used(h[q].slots) = {}
               PROVE  tuplesOn(h, R, k) = tuplesOn(h, R \ {q}, k)
    OBVIOUS
  <2>1. q \in R => keySlots(h[q].slots, k) = {}
    BY DEF keySlots
  <2>2. ASSUME NEW y \in tuplesOn(h, R, k) PROVE y \in tuplesOn(h, R \ {q}, k)
    <3>1. PICK r \in R : y \in { <<r, s>> : s \in keySlots(h[r].slots, k) }
      BY DEF tuplesOn
    <3>2. r # q
      BY <2>1, <3>1
    <3> QED BY <3>1, <3>2 DEF tuplesOn
  <2>3. tuplesOn(h, R \ {q}, k) \subseteq tuplesOn(h, R, k)
    BY DEF tuplesOn
  <2> QED BY <2>2, <2>3
<1>2. PICK T : T = leavesOf(f) \ {q}
  OBVIOUS
<1>3. tuplesOn(f, leavesOf(f), k) = tuplesOn(f, T, k)
  BY <1>1, <1>2
<1>4. tuplesOn(g, leavesOf(g), k) = tuplesOn(g, T, k)
  BY <1>1, <1>2
<1>5. tuplesOn(g, T, k) = tuplesOn(f, T, k)
  BY <1>2, SameTuplesOn
<1> QED BY <1>3, <1>4, <1>5 DEF count

(* Pages change, the tuples on them do not. *)
LEMMA SameSlotsCount ==
    ASSUME NEW f, NEW g, leavesOf(g) = leavesOf(f),
           \A r \in leavesOf(f) : g[r].slots = f[r].slots
    PROVE  SameCounts(f, g)
BY SameTuplesOn DEF SameCounts, count

-------------------------------------------------------------------------------
(* Moving tuples.                                                          *)

(* The tuples in the slots S of leaf p are moved to leaf q. *)
Moved(f, p, q, S, g) ==
    /\ LeavesOK(g) /\ leavesOf(g) = leavesOf(f)
    /\ \A r \in PageNo \ {p, q} : g[r] = f[r]
    /\ \A r \in {p, q} : /\ g[r].parent = f[r].parent
                         /\ g[r].left = f[r].left /\ g[r].right = f[r].right
    /\ used(g[p].slots) = used(f[p].slots) \ S
    /\ \A s \in used(g[p].slots) : g[p].slots[s] = f[p].slots[s]
    /\ keysIn(g[q].slots) = keysIn(f[q].slots) \cup { f[p].slots[s].key : s \in S }
    /\ getNumTuples(g[p].slots) = getNumTuples(f[p].slots) - Cardinality(S)
    /\ getNumTuples(g[q].slots) = getNumTuples(f[q].slots) + Cardinality(S)
    /\ SameCounts(f, g)

(* moveTuples moves what it is told to, and each tuple once. *)
LEMMA MovedTuples ==
    ASSUME NEW f, LeavesOK(f), NEW p \in leavesOf(f), NEW q \in leavesOf(f), p # q,
           NEW S, S \subseteq used(f[p].slots),
           NEW order \in Seq(S), Range(order) = S, Len(order) = Cardinality(S),
           getNumTuples(f[q].slots) + Cardinality(S) <= NumSlots,
           NEW g, g = moveTuples(f, p, q, order)
    PROVE  Moved(f, p, q, S, g)
<1>a. PICK a : a = f[p].slots
  OBVIOUS
<1>b. PICK b : b = f[q].slots
  OBVIOUS
<1>k. PICK keys : keys = [i \in DOMAIN order |-> a[order[i]].key]
  OBVIOUS
<1>c. PICK c : c = cleared(a, S)
  OBVIOUS
<1>d. PICK d : d = insertTuples(q, b, keys)
  OBVIOUS
<1>e. PICK e : e = withSlots(f, p, c)
  OBVIOUS
<1>1. /\ p \in PageNo /\ f[p] \in Leaf /\ LeafOK(p, a) /\ q \in PageNo /\ f[q] \in Leaf /\ LeafOK(q, b)
      /\ f \in [PageNo -> Leaf \cup {Null}]
  BY <1>a, <1>b, LeafFields DEF LeavesOK
<1>2. LeafOK(p, c) /\ used(c) = used(a) \ S /\ \A s \in used(c) : c[s] = a[s]
  BY <1>1, <1>c, ClearedOK
<1>3. order \in [1 .. Len(order) -> S] /\ DOMAIN order = 1 .. Len(order) /\ Len(order) \in Nat
  OBVIOUS
<1>4. \A s \in S : a[s].key \in Keys
  BY <1>1, <1>a, LeafSlots
<1>5. keys \in Seq(Keys) /\ Len(keys) = Len(order)
  <2>1. keys \in [1 .. Len(order) -> Keys]
    BY <1>3, <1>4, <1>k
  <2> QED BY <1>3, <2>1
<1>6. { keys[i] : i \in 1 .. Len(keys) } = { a[s].key : s \in S }
  <2>1. \A i \in 1 .. Len(order) : keys[i] = a[order[i]].key /\ order[i] \in S
    BY <1>3, <1>k
  <2>2. \A s \in S : \E i \in 1 .. Len(order) : s = order[i]
    BY <1>3 DEF Range
  <2> QED BY <1>5, <2>1, <2>2
<1>7. /\ LeafOK(q, d) /\ keysIn(d) = keysIn(b) \cup { a[s].key : s \in S }
      /\ getNumTuples(d) = getNumTuples(b) + Cardinality(S)
      /\ \A j : keyCount(d, j) =
               keyCount(b, j) + Cardinality({ i \in 1 .. Len(keys) : keys[i] = j })
  <2>1. Null \notin tuplesOf(q)
    BY <1>1, TuplesAreRecords
  <2>2. getNumTuples(b) + Len(keys) <= NumSlots /\ Len(keys) = Cardinality(S)
    BY <1>5, <1>b
  <2>3. /\ LeafOK(q, d) /\ keysIn(d) = keysIn(b) \cup { keys[i] : i \in 1 .. Len(keys) }
        /\ getNumTuples(d) = getNumTuples(b) + Len(keys)
        /\ \A j : Cardinality(keySlots(d, j)) =
              Cardinality(keySlots(b, j)) + Cardinality({ i \in 1 .. Len(keys) : keys[i] = j })
    BY <1>1, <1>5, <1>d, <2>1, <2>2, InsertTuplesOK
  <2> QED BY <1>6, <2>2, <2>3 DEF keyCount
<1>8. g = withSlots(e, q, d)
  <2>1. g = [f EXCEPT ![p].slots = c, ![q].slots = d]
    BY <1>1, <1>a, <1>b, <1>c, <1>d, <1>k DEF moveTuples, cleared
  <2> QED BY <1>1, <1>e, <2>1 DEF withSlots
<1>9. /\ LeavesOK(e) /\ leavesOf(e) = leavesOf(f) /\ e[p].slots = c
      /\ e[p].parent = f[p].parent /\ e[p].left = f[p].left /\ e[p].right = f[p].right
      /\ \A r \in PageNo \ {p} : e[r] = f[r]
  BY <1>2, <1>e, ChangedSlots
<1>10. /\ LeavesOK(g) /\ leavesOf(g) = leavesOf(e) /\ g[q].slots = d
       /\ g[q].parent = e[q].parent /\ g[q].left = e[q].left /\ g[q].right = e[q].right
       /\ \A r \in PageNo \ {q} : g[r] = e[r]
  <2>1. q \in leavesOf(e)
    BY <1>9
  <2> QED BY <1>7, <1>8, <1>9, <2>1, ChangedSlots
<1>11. getNumTuples(c) = getNumTuples(a) - Cardinality(S)
  <2>1. IsFiniteSet(used(a)) /\ used(a) \cap S = S
    BY <1>1, <1>a, LeafCounts
  <2>2. Cardinality(used(a) \ S) = Cardinality(used(a)) - Cardinality(used(a) \cap S)
    BY <2>1, FS_Difference
  <2> QED BY <1>2, <2>1, <2>2 DEF getNumTuples
<1>12. g[p] = e[p] /\ e[q] = f[q] /\ \A r \in PageNo \ {p, q} : g[r] = f[r]
  BY <1>1, <1>9, <1>10
<1>13. \A i, l \in 1 .. Len(order) : order[i] = order[l] => i = l
  <2>1. order \in Surjection(1 .. Len(order), S)
    BY <1>3 DEF Surjection, Range
  <2>2. IsFiniteSet(1 .. Len(order)) /\ Cardinality(1 .. Len(order)) = Cardinality(S)
    BY <1>3, FS_Interval
  <2>3. order \in Injection(1 .. Len(order), S)
    BY <2>1, <2>2, FS_SurjSameCardinalityImpliesInj
  <2> QED BY <2>3 DEF Injection, IsInjective
<1>14. ASSUME NEW j
       PROVE  keyCount(c, j) + keyCount(d, j) = keyCount(a, j) + keyCount(b, j)
  <2>1. PICK T, I : T = keySlots(a, j) \cap S /\ I = { i \in 1 .. Len(keys) : keys[i] = j }
    OBVIOUS
  <2>2. IsFiniteSet(keySlots(a, j)) /\ keyCount(a, j) \in Nat /\ keyCount(b, j) \in Nat
    BY <1>1, KeyCounts
  <2>3. keyCount(c, j) = keyCount(a, j) - Cardinality(T)
    <3>1. keySlots(c, j) = keySlots(a, j) \ S
      BY <1>2 DEF keySlots
    <3> QED BY <2>1, <2>2, <3>1, FS_Difference DEF keyCount
  <2>4. Cardinality(I) = Cardinality(T) /\ Cardinality(I) \in Nat
    <3>1. IsFiniteSet(I) /\ I \subseteq 1 .. Len(order)
      <4>1. IsFiniteSet(1 .. Len(keys)) /\ I \subseteq 1 .. Len(keys)
        BY <1>3, <1>5, <2>1, FS_Interval
      <4> QED BY <1>5, <4>1, FS_Subset
    <3>2. PICK F : F = [i \in I |-> order[i]]
      OBVIOUS
    <3>3. \A i \in 1 .. Len(order) : order[i] \in S /\ keys[i] = a[order[i]].key
      BY <1>3, <1>k
    <3>4. F \in [I -> T]
      <4> SUFFICES ASSUME NEW i \in I PROVE order[i] \in T
        BY <3>2
      <4>1. i \in 1 .. Len(order) /\ keys[i] = j
        BY <2>1, <3>1
      <4> QED BY <1>a, <2>1, <3>3, <4>1 DEF keySlots
    <3>5. \A i, l \in I : F[i] = F[l] => i = l
      BY <1>13, <3>1, <3>2
    <3>6. \A t \in T : \E i \in I : F[i] = t
      <4> SUFFICES ASSUME NEW t \in T PROVE \E i \in I : F[i] = t
        OBVIOUS
      <4>1. t \in S /\ a[t].key = j
        BY <2>1 DEF keySlots
      <4>2. PICK i \in 1 .. Len(order) : order[i] = t
        BY <1>3, <4>1 DEF Range
      <4>3. i \in I
        BY <1>5, <2>1, <3>3, <4>1, <4>2
      <4> QED BY <3>2, <4>2, <4>3
    <3>7. F \in Bijection(I, T)
      BY <3>4, <3>5, <3>6 DEF Bijection, Injection, Surjection, IsInjective
    <3>8. ExistsBijection(I, T)
      BY <3>7 DEF ExistsBijection
    <3> QED BY <3>1, <3>8, FS_Bijection, FS_CardinalityType
  <2>5. keyCount(d, j) = keyCount(b, j) + Cardinality(I)
    BY <1>7, <2>1
  <2> QED BY <2>2, <2>3, <2>4, <2>5
<1>15. SameCounts(f, g)
  <2> SUFFICES ASSUME NEW j \in Keys PROVE count(g, j) = count(f, j)
    BY DEF SameCounts
  <2>1. LeavesOK(g) /\ leavesOf(g) = leavesOf(f) /\ \A r \in leavesOf(f) \ {p, q} : g[r].slots = f[r].slots
    BY <1>9, <1>10, <1>12 DEF leavesOf
  <2>2. PICK n \in Nat : CountsWith(f, p, q, j, n) /\ CountsWith(g, p, q, j, n)
    BY <2>1, TwoLeavesCounts
  <2>3. g[p].slots = c /\ g[q].slots = d
    BY <1>9, <1>10, <1>12
  <2> QED BY <1>14, <1>a, <1>b, <2>2, <2>3 DEF CountsWith, countOnBoth
<1> QED BY <1>2, <1>7, <1>9, <1>10, <1>11, <1>12, <1>15, <1>a, <1>b DEF Moved

-------------------------------------------------------------------------------
(* The pages of the file.                                                  *)

(* A file without header pages has no free page. *)
LEMMA NoHeader ==
    headerPages(<<>>) = {} /\ freePages(<<>>) = {} /\ withEmptySlot(<<>>) = {}
BY DEF headerPages, freePages, withEmptySlot

(* Pages are numbered from 1 on; 0 is no page. *)
LEMMA PageNumbers ==
    /\ PageNo \subseteq Nat \ {0} /\ PageNo \subseteq HeaderSlot /\ MaxEntries \in Nat \ {0}
    /\ PagePointer = 0 .. MaxPages /\ PageNo \subseteq PagePointer
    /\ MaxPages \in Nat /\ MaxEntries + 3 <= MaxPages
    /\ \A p \in PageNo : p <= MaxPages
    /\ 1 \in PageNo /\ 0 \notin PageNo /\ 0 \in PagePointer
BY BTreeConstants, FileConstants, TreeFits, OneHeaderPage, HeaderConstants DEF PageNo, PagePointer, HeaderSlot

(* What the operations on header pages do to a single one. *)
LEMMA OneHeader ==
    ASSUME NEW h, NEW F, F \subseteq PageNo, NEW hs, hs = oneHeader(h, F)
    PROVE  /\ hs # <<>> /\ headerPages(hs) = {h} /\ freePages(hs) = F
           /\ withEmptySlot(hs) # {} <=> F # {}
           /\ F # {} => /\ freePage(hs) \in F
                        /\ \A G : G = F \ {freePage(hs)} => markTaken(hs) = oneHeader(h, G)
           /\ \A p \in PageNo : \A G : G = F \cup {p} => markFree(hs, p) = oneHeader(h, G)
<1>1. DOMAIN hs = {1} /\ hs[1] = [page |-> h, free |-> F] /\ hs # <<>>
  BY DEF oneHeader
<1>2. headerPages(hs) = {h}
  BY <1>1 DEF headerPages
<1>3. \A s \in Int : pageOfSlot(1, s) = s
  BY HeaderConstants DEF pageOfSlot
<1>4. freePages(hs) = F
  <2>1. \A s \in F : pageOfSlot(1, s) = s
    BY <1>3, PageNumbers
  <2>2. { pageOfSlot(1, s) : s \in F } = F
    BY <2>1
  <2>3. freePages(hs) = UNION { { pageOfSlot(i, s) : s \in hs[i].free } : i \in {1} }
    BY <1>1 DEF freePages
  <2> QED BY <1>1, <2>2, <2>3
<1>5. withEmptySlot(hs) = IF F = {} THEN {} ELSE {1}
  BY <1>1 DEF withEmptySlot
<1>6. ASSUME F # {}
      PROVE  /\ freePage(hs) \in F
             /\ \A G : G = F \ {freePage(hs)} => markTaken(hs) = oneHeader(h, G)
  <2>1. first(withEmptySlot(hs)) = 1
    BY <1>5, <1>6 DEF first
  <2>2. getEmptySlot(hs[1]) = lowest(F)
    BY <1>1 DEF getEmptySlot, first, lowest
  <2>3. F \subseteq Nat /\ \A s \in F : s \in Int
    BY PageNumbers
  <2>4. lowest(F) \in F
    BY <1>6, <2>3, LeastElement
  <2>5. freePage(hs) = lowest(F)
    <3>1. freePage(hs) = pageOfSlot(1, getEmptySlot(hs[1]))
      BY <2>1 DEF freePage
    <3>2. lowest(F) \in Int
      BY <2>3, <2>4
    <3> QED BY <1>3, <2>2, <3>1, <3>2
  <2>6. markTaken(hs) = [hs EXCEPT ![1].free = @ \ {lowest(F)}]
    BY <2>1, <2>2 DEF markTaken
  <2> QED BY <1>1, <2>4, <2>5, <2>6 DEF oneHeader
<1>7. ASSUME NEW p \in PageNo, NEW G, G = F \cup {p} PROVE markFree(hs, p) = oneHeader(h, G)
  <2> DEFINE S == { i \in 1 .. p + 1 : i * HeaderSlots >= p }
  <2>1. p \in Nat \ {0} /\ HeaderSlots \in Nat /\ p \in HeaderSlot /\ p < HeaderSlots
    BY PageNumbers, HeaderConstants DEF HeaderSlot
  <2>2. 1 \in S /\ S \subseteq Nat \ {0}
    BY <2>1
  <2>3. lowest(S) \in S /\ lowest(S) <= 1
    <3>1. S \subseteq Nat /\ S # {}
      BY <2>2
    <3> HIDE DEF S
    <3> QED BY <2>2, <3>1, LeastElement
  <2>4. headerOf(p) = 1
    <3>1. headerOf(p) = lowest(S)
      BY DEF headerOf, first, lowest
    <3> HIDE DEF S
    <3>2. lowest(S) \in Nat \ {0} /\ lowest(S) <= 1
      BY <2>2, <2>3
    <3> QED BY <3>1, <3>2
  <2>5. p - (1 - 1) * HeaderSlots = p
    BY <2>1
  <2>6. markFree(hs, p) = [hs EXCEPT ![1].free = @ \cup {p}]
    BY <2>1, <2>4, <2>5 DEF markFree
  <2> QED BY <1>1, <1>7, <2>6 DEF oneHeader
<1> QED BY <1>1, <1>2, <1>4, <1>5, <1>6, <1>7

(* The two forms of the header list. *)
LEMMA Headers ==
    ASSUME NEW L, NEW I, NEW n, NEW hs, PagesOK(L, I, n, hs)
    PROVE  hs = <<>> \/ \E h \in PageNo, F \in SUBSET PageNo : hs = oneHeader(h, F)
BY DEF PagesOK

(* If no number is skipped and no page is free, the file has no more pages *)
(* than are in use.                                                        *)
LEMMA PagesInUse ==
    ASSUME NEW L, NEW I, NEW n, NEW hs, PagesOK(L, I, n, hs), ~ appends, freePages(hs) = {}
    PROVE  /\ IsFiniteSet(L) /\ IsFiniteSet(I) /\ Cardinality(L) \in Nat /\ Cardinality(I) \in Nat
           /\ n <= Cardinality(L) + Cardinality(I) + IF hs = <<>> THEN 0 ELSE 1
<1> DEFINE H == headerPages(hs)
<1>1. n \in Nat /\ L \cup I \cup H = 1 .. n /\ L \cap I = {}
  BY PageNumbers DEF PagesOK, Parts
<1>2. IsFiniteSet(H) /\ Cardinality(H) = IF hs = <<>> THEN 0 ELSE 1
  <2>1. CASE hs = <<>>
    BY <2>1, NoHeader, FS_EmptySet
  <2>2. CASE \E h \in PageNo, F \in SUBSET PageNo : hs = oneHeader(h, F)
    <3>1. PICK h \in PageNo, F \in SUBSET PageNo : hs = oneHeader(h, F)
      BY <2>2
    <3>2. H = {h} /\ hs # <<>>
      BY <3>1, OneHeader
    <3> QED BY <3>2, FS_Singleton
  <2> QED BY <2>1, <2>2, Headers
<1>3. IsFiniteSet(1 .. n) /\ Cardinality(1 .. n) = n
  BY <1>1, FS_Interval
<1>4. IsFiniteSet(L) /\ IsFiniteSet(I) /\ Cardinality(L) \in Nat /\ Cardinality(I) \in Nat
  <2>1. L \in SUBSET (1 .. n) /\ I \in SUBSET (1 .. n)
    BY <1>1
  <2>2. IsFiniteSet(L) /\ IsFiniteSet(I)
    BY <1>3, <2>1, FS_Subset
  <2> QED BY <2>2, FS_CardinalityType
<1>5. /\ IsFiniteSet(L \cup I)
      /\ Cardinality(L \cup I) = Cardinality(L) + Cardinality(I) - Cardinality(L \cap I)
  BY <1>4, FS_Union
<1>6. Cardinality(L \cap I) = 0
  BY <1>1, FS_EmptySet
<1> HIDE DEF H
<1>7. Cardinality((L \cup I) \cup H) =
        Cardinality(L \cup I) + Cardinality(H) - Cardinality((L \cup I) \cap H)
  BY <1>2, <1>5, FS_Union
<1>8. Cardinality((L \cup I) \cap H) \in Nat
  <2>1. IsFiniteSet((L \cup I) \cap H)
    BY <1>5, FS_Intersection
  <2> QED BY <2>1, FS_CardinalityType
<1>9. Cardinality((L \cup I) \cup H) = n
  BY <1>1, <1>3
<1> QED BY <1>1, <1>2, <1>4, <1>5, <1>6, <1>7, <1>8, <1>9

(* The size of the file and the headers, as getEmptyPage takes and returns *)
(* them.                                                                   *)
IsSpace(sp) ==
    /\ sp = [pages |-> sp.pages, tail |-> sp.tail, headers |-> sp.headers]
    /\ sp.tail \in 0 .. PageSize - 1

(* The file is tp.pages pages long instead of n, more if pwrite appends. *)
Longer(n, tp) == tp.pages \in Nat /\ tp.pages >= n /\ (~ appends => tp.pages = n)

(* A number of bytes is pages and a tail. *)
LEMMA PagesAndTail ==
    ASSUME NEW n \in Nat
    PROVE  n \div PageSize \in Nat /\ n % PageSize \in 0 .. PageSize - 1
BY FileConstants

(* Zeros behind the tail make the file longer. *)
LEMMA ZerosWritten ==
    ASSUME NEW sp, IsSpace(sp), sp.pages \in Nat, NEW tp, tp = zerosWritten(sp)
    PROVE  IsSpace(tp) /\ tp.headers = sp.headers /\ Longer(sp.pages, tp)
<1>1. CASE appends
  <2>1. PICK n : n = sp.tail + RootSize
    OBVIOUS
  <2>2. n \in Nat
    BY <2>1, FileConstants DEF IsSpace
  <2>3. PICK d, r : d = n \div PageSize /\ r = n % PageSize
    OBVIOUS
  <2>4. d \in Nat /\ r \in 0 .. PageSize - 1
    BY <2>2, <2>3, PagesAndTail
  <2>5. tp = [sp EXCEPT !.pages = @ + d, !.tail = r]
    BY <1>1, <2>1, <2>3 DEF zerosWritten
  <2>6. tp.pages = sp.pages + d /\ tp.tail = r /\ tp.headers = sp.headers
        /\ tp = [pages |-> tp.pages, tail |-> tp.tail, headers |-> tp.headers]
    BY <2>5 DEF IsSpace
  <2> QED BY <1>1, <2>4, <2>6 DEF IsSpace, Longer
<1>2. CASE ~ appends
  BY <1>2 DEF zerosWritten, Longer
<1> QED BY <1>1, <1>2

(* What getEmptyPage does to the size of the file. *)
LEMMA EmptyPageGrows ==
    ASSUME NEW sp, IsSpace(sp), sp.pages \in Nat, NEW tp, tp = getEmptyPage(sp)
    PROVE  /\ IsSpace(tp)
           /\ reuses(sp) => Longer(sp.pages, tp) /\ tp.headers = markTaken(sp.headers)
           /\ ~ reuses(sp) => Longer(sp.pages + 1, tp) /\ tp.headers = sp.headers
           /\ tp.pages \in Nat /\ tp.pages >= sp.pages
<1>1. CASE reuses(sp)
  <2>1. PICK b : b = [sp EXCEPT !.headers = markTaken(@)]
    OBVIOUS
  <2>2. IsSpace(b) /\ b.pages = sp.pages /\ b.headers = markTaken(sp.headers)
    BY <2>1 DEF IsSpace
  <2>3. tp = zerosWritten(b)
    BY <1>1, <2>1 DEF getEmptyPage
  <2>4. IsSpace(tp) /\ tp.headers = b.headers /\ Longer(b.pages, tp)
    BY <2>2, <2>3, ZerosWritten
  <2> QED BY <1>1, <2>2, <2>4 DEF Longer
<1>2. CASE ~ reuses(sp)
  <2>1. PICK b : b = [sp EXCEPT !.pages = @ + 1]
    OBVIOUS
  <2>2. IsSpace(b) /\ b.pages = sp.pages + 1 /\ b.headers = sp.headers
    BY <2>1 DEF IsSpace
  <2>3. tp = zerosWritten(b)
    BY <1>2, <2>1 DEF getEmptyPage
  <2>4. IsSpace(tp) /\ tp.headers = b.headers /\ Longer(b.pages, tp)
    BY <2>2, <2>3, ZerosWritten
  <2> QED BY <1>2, <2>2, <2>4 DEF Longer
<1> QED BY <1>1, <1>2

(* setEmptyPage does not make the file smaller. *)
LEMMA FreeingGrows ==
    ASSUME NEW sp, IsSpace(sp), sp.pages \in Nat, NEW q, NEW tp, tp = setEmptyPage(sp, q)
    PROVE  IsSpace(tp) /\ tp.pages \in Nat /\ tp.pages >= sp.pages
<1>1. PICK ep : ep = getEmptyPage(sp)
  OBVIOUS
<1>2. PICK wp : wp = IF sp.headers # <<>> THEN sp
                     ELSE [ep EXCEPT !.headers = Append(@, init(getEmptyPageNo(sp)))]
  OBVIOUS
<1>3. tp = [wp EXCEPT !.headers = markFree(@, q)]
  BY <1>1, <1>2 DEF setEmptyPage
<1>4. IsSpace(ep) /\ ep.pages \in Nat /\ ep.pages >= sp.pages
  BY <1>1, EmptyPageGrows
<1>5. IsSpace(wp) /\ wp.pages \in Nat /\ wp.pages >= sp.pages
  <2>1. CASE sp.headers # <<>>
    BY <1>2, <2>1
  <2>2. CASE sp.headers = <<>>
    <3>1. PICK hs : hs = Append(ep.headers, init(getEmptyPageNo(sp)))
      OBVIOUS
    <3>2. wp = [ep EXCEPT !.headers = hs]
      BY <1>2, <2>2, <3>1
    <3> QED BY <1>4, <3>2 DEF IsSpace
  <2> QED BY <2>1, <2>2
<1> QED BY <1>3, <1>5 DEF IsSpace

(* A longer file has the same parts. *)
LEMMA MoreParts ==
    ASSUME NEW L, NEW I, NEW H, NEW F, NEW n \in Nat, NEW tp, Longer(n, tp),
           Parts(L, I, H, F, 1 .. n)
    PROVE  Parts(L, I, H, F, 1 .. tp.pages)
<1>1. 1 .. n \subseteq 1 .. tp.pages
  BY DEF Longer
<1>2. ~ appends => 1 .. tp.pages = 1 .. n
  BY DEF Longer
<1> QED BY <1>1, <1>2 DEF Parts

(* Page q is taken: it was nothing before, and can become a leaf or an     *)
(* internal page.                                                          *)
Taken(L, I, sp, q, tp) ==
    /\ q \in PageNo /\ q \notin L /\ q \notin I /\ q \notin headerPages(sp.headers)
    /\ IsSpace(tp)
    /\ sp.headers = <<>> => tp.headers = <<>>
    /\ freePages(sp.headers) = {} => freePages(tp.headers) = {}
    /\ \A K : K = L \cup {q} => PagesOK(K, I, tp.pages, tp.headers)
    /\ \A J : J = I \cup {q} => PagesOK(L, J, tp.pages, tp.headers)

(* getEmptyPage gives a page that is nothing yet. *)
LEMMA EmptyPage ==
    ASSUME NEW L, NEW I, NEW sp, IsSpace(sp), PagesOK(L, I, sp.pages, sp.headers),
           fits(getEmptyPage(sp)),
           ~ appends /\ freePages(sp.headers) = {} => sp.pages < MaxEntries + 3
    PROVE  Taken(L, I, sp, getEmptyPageNo(sp), getEmptyPage(sp))
<1>q. PICK q : q = getEmptyPageNo(sp)
  OBVIOUS
<1>t. PICK tp : tp = getEmptyPage(sp)
  OBVIOUS
<1> SUFFICES Taken(L, I, sp, q, tp)
  BY <1>q, <1>t
<1>n. PICK n : n = sp.pages
  OBVIOUS
<1>h. PICK hs : hs = sp.headers
  OBVIOUS
<1>0. PagesOK(L, I, n, hs)
  BY <1>n, <1>h
<1>1. n \in Nat /\ n \in 0 .. MaxPages /\ MaxPages \in Nat /\ MaxEntries \in Nat
  BY <1>0, PageNumbers DEF PagesOK
<1>f. fits(tp)
  BY <1>t
<1>g. /\ IsSpace(tp) /\ tp.pages \in Nat
      /\ reuses(sp) => Longer(n, tp) /\ tp.headers = markTaken(hs)
      /\ ~ reuses(sp) => Longer(n + 1, tp) /\ tp.headers = hs
  BY <1>t, <1>n, <1>h, <1>1, EmptyPageGrows
<1>2. CASE freePages(hs) # {}
  <2>1. PICK h \in PageNo, F \in SUBSET PageNo : hs = oneHeader(h, F)
    BY <1>0, <1>2, Headers, NoHeader
  <2>2. PICK G \in SUBSET PageNo : G = F \ {freePage(hs)}
    OBVIOUS
  <2>3. F \subseteq PageNo /\ G \subseteq PageNo
    OBVIOUS
  <2>4. /\ headerPages(hs) = {h} /\ freePages(hs) = F /\ withEmptySlot(hs) # {}
        /\ hs # <<>> /\ freePage(hs) \in F /\ markTaken(hs) = oneHeader(h, G)
    BY <1>2, <2>1, <2>2, <2>3, OneHeader
  <2>5. reuses(sp) /\ q = freePage(hs)
    BY <1>h, <1>q, <2>4 DEF getEmptyPageNo, reuses
  <2>6. q \in F /\ G = F \ {q} /\ tp.headers = oneHeader(h, G) /\ Longer(n, tp)
    BY <1>g, <2>2, <2>4, <2>5
  <2>7. tp.headers # <<>> /\ headerPages(tp.headers) = {h} /\ freePages(tp.headers) = G
    <3>1. PICK gs : gs = tp.headers
      OBVIOUS
    <3> QED BY <2>3, <2>6, <3>1, OneHeader
  <2>8. Parts(L, I, {h}, F, 1 .. n)
    BY <1>0, <2>4 DEF PagesOK
  <2>9. q \in PageNo /\ q \notin L /\ q \notin I /\ q \notin headerPages(hs)
    BY <2>4, <2>6, <2>8 DEF Parts
  <2>10. Parts(L \cup {q}, I, {h}, G, 1 .. n) /\ Parts(L, I \cup {q}, {h}, G, 1 .. n)
    BY <2>6, <2>8, <2>9 DEF Parts
  <2>11. /\ Parts(L \cup {q}, I, {h}, G, 1 .. tp.pages)
         /\ Parts(L, I \cup {q}, {h}, G, 1 .. tp.pages)
    BY <1>1, <2>6, <2>10, MoreParts
  <2>12. /\ tp.pages \in PagePointer
         /\ \E i \in PageNo, H \in SUBSET PageNo : tp.headers = oneHeader(i, H)
    <3>1. tp.pages \in 0 .. MaxPages
      BY <1>1, <1>f, <1>g, <2>6 DEF Longer, fits
    <3> QED BY <2>6, <3>1, PageNumbers
  <2>13. /\ \A K : K = L \cup {q} => PagesOK(K, I, tp.pages, tp.headers)
         /\ \A J : J = I \cup {q} => PagesOK(L, J, tp.pages, tp.headers)
    BY <2>6, <2>7, <2>11, <2>12 DEF PagesOK
  <2> QED BY <1>2, <1>g, <1>h, <2>4, <2>7, <2>9, <2>13 DEF Taken
<1>3. CASE freePages(hs) = {}
  <2>1. withEmptySlot(hs) = {}
    <3>1. CASE hs = <<>>
      BY <3>1, NoHeader
    <3>2. CASE \E h \in PageNo, F \in SUBSET PageNo : hs = oneHeader(h, F)
      <4>1. PICK h \in PageNo, F \in SUBSET PageNo : hs = oneHeader(h, F)
        BY <3>2
      <4>2. F \subseteq PageNo
        OBVIOUS
      <4> QED BY <1>3, <4>1, <4>2, OneHeader
    <3> QED BY <1>0, <3>1, <3>2, Headers
  <2>2. ~ reuses(sp) /\ q = n + 1
    BY <1>h, <1>n, <1>q, <2>1 DEF getEmptyPageNo, reuses
  <2>3. tp.headers = hs /\ Longer(n + 1, tp)
    BY <1>g, <2>2
  <2>4. /\ n + 1 \in 1 .. MaxPages /\ tp.pages \in 0 .. MaxPages
        /\ q \in PageNo /\ tp.pages \in PagePointer
    <3>1. CASE appends
      <4>1. tp.pages <= MaxPages /\ n + 1 <= tp.pages
        BY <1>f, <2>3, <3>1 DEF fits, Longer
      <4>2. n + 1 \in 1 .. MaxPages /\ tp.pages \in 0 .. MaxPages
        BY <1>1, <1>g, <4>1
      <4> QED BY <2>2, <4>2, PageNumbers DEF PageNo
    <3>2. CASE ~ appends
      <4>1. n < MaxEntries + 3 /\ tp.pages = n + 1
        BY <1>3, <1>h, <1>n, <2>3, <3>2 DEF Longer
      <4>2. n + 1 \in 1 .. MaxPages /\ tp.pages \in 0 .. MaxPages
        BY <1>1, <4>1, TreeFits
      <4> QED BY <2>2, <4>2, PageNumbers DEF PageNo
    <3> QED BY <3>1, <3>2
  <2>5. 1 .. n + 1 = (1 .. n) \cup {q} /\ q \notin 1 .. n
    <3>1. \A i \in Int : i \in 1 .. n + 1 <=> i \in 1 .. n \/ i = n + 1
      BY <1>1
    <3>2. 1 .. n + 1 \subseteq Int /\ 1 .. n \subseteq Int /\ n + 1 \in Int /\ n + 1 \notin 1 .. n
      BY <1>1
    <3>3. 1 .. n + 1 = (1 .. n) \cup {n + 1}
      BY <3>1, <3>2
    <3> QED BY <2>2, <3>2, <3>3
  <2>6. Parts(L, I, headerPages(hs), {}, 1 .. n)
    BY <1>0, <1>3 DEF PagesOK
  <2>7. q \notin L /\ q \notin I /\ q \notin headerPages(hs)
    BY <2>5, <2>6 DEF Parts
  <2>8. /\ Parts(L \cup {q}, I, headerPages(hs), {}, 1 .. n + 1)
        /\ Parts(L, I \cup {q}, headerPages(hs), {}, 1 .. n + 1)
    BY <2>5, <2>6, <2>7 DEF Parts
  <2>9. /\ Parts(L \cup {q}, I, headerPages(hs), {}, 1 .. tp.pages)
        /\ Parts(L, I \cup {q}, headerPages(hs), {}, 1 .. tp.pages)
    <3>1. n + 1 \in Nat
      BY <1>1
    <3> QED BY <2>3, <2>8, <3>1, MoreParts
  <2>10. /\ \A K : K = L \cup {q} => PagesOK(K, I, tp.pages, tp.headers)
         /\ \A J : J = I \cup {q} => PagesOK(L, J, tp.pages, tp.headers)
    BY <1>0, <1>3, <2>3, <2>4, <2>9 DEF PagesOK
  <2> QED BY <1>3, <1>g, <1>h, <2>3, <2>4, <2>7, <2>10 DEF Taken
<1> QED BY <1>2, <1>3

(* Page q is free now. *)
Freed(L, I, q, tp) ==
    /\ IsSpace(tp) /\ tp.headers # <<>>
    /\ \A K, J : K = L \ {q} /\ J = I \ {q} => PagesOK(K, J, tp.pages, tp.headers)

(* setEmptyPage of a page in use makes it a free page, and the first       *)
(* header page if there was none.                                          *)
LEMMA FreedPage ==
    ASSUME NEW L, NEW I, NEW sp, IsSpace(sp), PagesOK(L, I, sp.pages, sp.headers),
           ~ appends /\ sp.headers = <<>> => sp.pages < MaxEntries + 3,
           NEW q \in PageNo, q \in L \cup I, NEW tp, tp = setEmptyPage(sp, q), fits(tp)
    PROVE  Freed(L, I, q, tp)
<1>n. PICK n : n = sp.pages
  OBVIOUS
<1>h. PICK hs : hs = sp.headers
  OBVIOUS
<1>0. sp = [pages |-> n, tail |-> sp.tail, headers |-> hs] /\ PagesOK(L, I, n, hs)
  BY <1>n, <1>h DEF IsSpace
<1>1. CASE hs = <<>>
  <2>1. PICK x : x = getEmptyPageNo(sp)
    OBVIOUS
  <2>2. PICK ep : ep = getEmptyPage(sp)
    OBVIOUS
  <2>3. PICK wp : wp = [ep EXCEPT !.headers = Append(@, init(x))]
    OBVIOUS
  <2>4. tp = [wp EXCEPT !.headers = markFree(@, q)]
    BY <1>1, <1>h, <2>1, <2>2, <2>3 DEF setEmptyPage
  <2>5. IsSpace(ep)
    <3>1. sp.pages \in Nat
      BY PageNumbers DEF PagesOK
    <3> QED BY <2>2, <3>1, EmptyPageGrows
  <2>6. /\ wp = [pages |-> ep.pages, tail |-> ep.tail, headers |-> wp.headers]
        /\ wp.headers = Append(ep.headers, init(x))
    BY <2>3, <2>5 DEF IsSpace
  <2>7. tp.pages = ep.pages /\ tp.tail = ep.tail /\ tp.headers = markFree(wp.headers, q) /\ IsSpace(tp)
    BY <2>4, <2>5, <2>6 DEF IsSpace
  <2>8. Taken(L, I, sp, x, ep)
    <3>1. fits(ep)
      BY <2>7 DEF fits
    <3> QED BY <1>1, <1>h, <2>1, <2>2, <3>1, EmptyPage
  <2>9. /\ x \in PageNo /\ x \notin L /\ x \notin I /\ ep.headers = <<>>
        /\ \A J : J = I \cup {x} => PagesOK(L, J, ep.pages, ep.headers)
    BY <1>1, <1>h, <2>8 DEF Taken
  <2>10. PICK gs : gs = oneHeader(x, {})
    OBVIOUS
  <2>11. wp.headers = gs
    BY <2>6, <2>9, <2>10 DEF init, oneHeader
  <2>12. PICK Q \in SUBSET PageNo : Q = {q}
    OBVIOUS
  <2>13. markFree(gs, q) = oneHeader(x, Q) /\ Q \subseteq PageNo
    BY <2>9, <2>10, <2>12, OneHeader
  <2>14. tp.headers = oneHeader(x, Q)
    BY <2>7, <2>11, <2>13
  <2>15. tp.headers # <<>> /\ headerPages(tp.headers) = {x} /\ freePages(tp.headers) = Q
    BY <2>9, <2>13, <2>14, OneHeader
  <2>16. Parts(L, I \cup {x}, {}, {}, 1 .. tp.pages) /\ tp.pages \in PagePointer
    BY <2>7, <2>9, NoHeader DEF PagesOK
  <2>17. Parts(L \ {q}, I \ {q}, {x}, Q, 1 .. tp.pages)
    BY <2>9, <2>12, <2>16 DEF Parts
  <2>18. \E h \in PageNo, F \in SUBSET PageNo : tp.headers = oneHeader(h, F)
    BY <2>9, <2>14
  <2>19. \A K, J : K = L \ {q} /\ J = I \ {q} => PagesOK(K, J, tp.pages, tp.headers)
    BY <2>15, <2>16, <2>17, <2>18 DEF PagesOK
  <2> QED BY <2>7, <2>15, <2>19 DEF Freed
<1>2. CASE \E h \in PageNo, F \in SUBSET PageNo : hs = oneHeader(h, F)
  <2>1. PICK h \in PageNo, F \in SUBSET PageNo : hs = oneHeader(h, F)
    BY <1>2
  <2>2. PICK G \in SUBSET PageNo : G = F \cup {q}
    OBVIOUS
  <2>3. F \subseteq PageNo /\ G \subseteq PageNo
    OBVIOUS
  <2>4. /\ hs # <<>> /\ headerPages(hs) = {h} /\ freePages(hs) = F
        /\ markFree(hs, q) = oneHeader(h, G)
    BY <2>1, <2>2, <2>3, OneHeader
  <2>5. tp = [pages |-> n, tail |-> sp.tail, headers |-> oneHeader(h, G)]
    BY <1>0, <2>4 DEF setEmptyPage
  <2>6. tp.pages = n /\ tp.headers = oneHeader(h, G) /\ IsSpace(tp)
    BY <2>5 DEF IsSpace
  <2>7. tp.headers # <<>> /\ headerPages(tp.headers) = {h} /\ freePages(tp.headers) = G
    BY <2>3, <2>6, OneHeader
  <2>8. Parts(L, I, {h}, F, 1 .. n) /\ n \in PagePointer
    BY <1>0, <2>4 DEF PagesOK
  <2>9. Parts(L \ {q}, I \ {q}, {h}, G, 1 .. n)
    BY <2>2, <2>8 DEF Parts
  <2>10. \E i \in PageNo, H \in SUBSET PageNo : tp.headers = oneHeader(i, H)
    BY <2>6
  <2>11. \A K, J : K = L \ {q} /\ J = I \ {q} => PagesOK(K, J, tp.pages, tp.headers)
    BY <2>6, <2>7, <2>8, <2>9, <2>10 DEF PagesOK
  <2> QED BY <2>6, <2>7, <2>11 DEF Freed
<1> QED BY <1>0, <1>1, <1>2, Headers

-------------------------------------------------------------------------------
(* Entries of the internal page.                                           *)

(* What the entries are. *)
LEMMA EntryFields ==
    ASSUME NEW E, NEW m, EntriesOK(E, m)
    PROVE  /\ m \in Nat /\ m >= 1 /\ m <= MaxEntries /\ MaxEntries \in Nat
           /\ E # Null /\ DOMAIN E = Entry /\ Entry = 0 .. MaxEntries
           /\ 0 .. m \subseteq Entry /\ emptySlots(E) = m + 1 .. MaxEntries
           /\ \A e \in 0 .. m : E[e] \in InnerEntry /\ E[e] # Null /\ E[e].child \in PageNo
           /\ \A e \in Entry : e \notin 0 .. m => E[e] = Null
           /\ \A e \in 1 .. m : E[e].key \in Keys /\ E[e].key \in Int
<1>1. m \in Nat /\ m >= 1 /\ m <= MaxEntries /\ MaxEntries \in Nat
  BY BTreeConstants DEF EntriesOK
<1>2. E \in [Entry -> InnerEntry \cup {Null}] /\ DOMAIN E = Entry /\ Entry = 0 .. MaxEntries
  BY DEF EntriesOK, Entry
<1>3. E # Null
  BY <1>2, NullIsNone
<1>4. 0 .. m \subseteq Entry
  BY <1>1, <1>2
<1>5. used(E) = 0 .. m
  BY DEF EntriesOK
<1>6. \A e \in Entry : e \in 0 .. m <=> E[e] # Null
  BY <1>2, <1>5 DEF used
<1>7. \A e \in 0 .. m : E[e] \in InnerEntry /\ E[e] # Null /\ E[e].child \in PageNo
  BY <1>2, <1>4, <1>6 DEF InnerEntry
<1>8. emptySlots(E) = m + 1 .. MaxEntries
  <2>1. emptySlots(E) = { e \in 0 .. MaxEntries : e \notin 0 .. m }
    BY <1>2, <1>6 DEF emptySlots
  <2>2. \A e \in 0 .. MaxEntries : e \notin 0 .. m <=> e \in m + 1 .. MaxEntries
    BY <1>1
  <2>3. m + 1 .. MaxEntries \subseteq 0 .. MaxEntries
    BY <1>1
  <2> QED BY <2>1, <2>2, <2>3
<1>9. \A e \in 1 .. m : E[e].key \in Keys /\ E[e].key \in Int
  BY BTreeConstants DEF EntriesOK
<1> QED BY <1>1, <1>2, <1>3, <1>4, <1>6, <1>7, <1>8, <1>9

(* The entries around an entry. *)
LEMMA Neighbours ==
    ASSUME NEW E, NEW m, EntriesOK(E, m), NEW e \in 0 .. m
    PROVE  /\ following(E, e) = IF e = m THEN {} ELSE {e + 1}
           /\ preceding(E, e) = IF e = 0 THEN {} ELSE {e - 1}
<1>1. m \in Nat /\ used(E) = 0 .. m
  BY EntryFields DEF EntriesOK
<1>2. ASSUME NEW r \in 0 .. m PROVE r \in following(E, e) <=> e # m /\ r = e + 1
  <2>1. r \in following(E, e) <=> r > e /\ \A q \in 0 .. m : q > e => r <= q
    BY <1>1 DEF following
  <2>2. CASE e = m
    BY <1>1, <2>1, <2>2
  <2>3. CASE e # m
    <3>1. e + 1 \in 0 .. m /\ e + 1 > e
      BY <1>1, <2>3
    <3>2. \A q \in 0 .. m : q > e => e + 1 <= q
      BY <1>1
    <3> QED BY <1>1, <2>1, <2>3, <3>1, <3>2
  <2> QED BY <2>2, <2>3
<1>3. ASSUME NEW r \in 0 .. m PROVE r \in preceding(E, e) <=> e # 0 /\ r = e - 1
  <2>1. r \in preceding(E, e) <=> r < e /\ \A q \in 0 .. m : q < e => q <= r
    BY <1>1 DEF preceding
  <2>2. CASE e = 0
    BY <1>1, <2>1, <2>2
  <2>3. CASE e # 0
    <3>1. e - 1 \in 0 .. m /\ e - 1 < e
      BY <1>1, <2>3
    <3>2. \A q \in 0 .. m : q < e => q <= e - 1
      BY <1>1
    <3> QED BY <1>1, <2>1, <2>3, <3>1, <3>2
  <2> QED BY <2>2, <2>3
<1>4. following(E, e) \subseteq 0 .. m /\ preceding(E, e) \subseteq 0 .. m
  BY <1>1 DEF following, preceding
<1>5. (e # m => e + 1 \in 0 .. m) /\ (e # 0 => e - 1 \in 0 .. m)
  BY <1>1
<1>6. following(E, e) = IF e = m THEN {} ELSE {e + 1}
  BY <1>2, <1>4, <1>5
<1>7. preceding(E, e) = IF e = 0 THEN {} ELSE {e - 1}
  BY <1>3, <1>4, <1>5
<1> QED BY <1>6, <1>7

(* The lowest and the highest of one number. *)
LEMMA SingleElement ==
    ASSUME NEW x \in Int
    PROVE  lowest({x}) = x /\ highest({x}) = x
BY DEF lowest, highest

(* The room for more entries. *)
LEMMA EntryRoom ==
    ASSUME NEW E, NEW m, EntriesOK(E, m)
    PROVE  getNumEmptyEntries(E) = MaxEntries - m
<1>1. m \in Nat /\ MaxEntries \in Nat /\ m <= MaxEntries /\ emptySlots(E) = m + 1 .. MaxEntries
  BY EntryFields
<1>2. emptySlots(E) \ {0} = m + 1 .. MaxEntries
  BY <1>1
<1>3. Cardinality(m + 1 .. MaxEntries) = MaxEntries - m
  <2>1. m + 1 \in Int /\ MaxEntries \in Int
    BY <1>1
  <2>2. Cardinality(m + 1 .. MaxEntries) = IF m + 1 > MaxEntries THEN 0 ELSE MaxEntries - (m + 1) + 1
    BY <2>1, FS_Interval
  <2> QED BY <1>1, <2>2
<1> QED BY <1>2, <1>3 DEF getNumEmptyEntries

(* Entry e is where key k is looked for. *)
Guides(E, m, k, e) ==
    /\ e \in 0 .. m
    /\ e # 0 => E[e].key <= k
    /\ e # m => k <= E[e + 1].key

(* findLeafPage finds the child whose range the key is in. *)
LEMMA FindLeaf ==
    ASSUME NEW m, EntriesOK(inner, m), NEW k \in Keys
    PROVE  \E e \in 0 .. m : findLeafPage(k) = inner[e].child /\ Guides(inner, m, k, e)
<1>1. /\ m \in Nat /\ m >= 1 /\ inner # Null /\ used(inner) = 0 .. m /\ k \in Int
      /\ \A e \in 1 .. m : inner[e].key \in Int
  BY EntryFields, BTreeConstants DEF EntriesOK
<1> DEFINE O == { s \in 1 .. m : k <= inner[s].key }
<1>2. used(inner) \ {0} = 1 .. m
  BY <1>1
<1>3. findLeafPage(k) = IF O # {}
                        THEN inner[highest(preceding(inner, lowest(O)))].child
                        ELSE inner[highest(1 .. m)].child
  BY <1>1, <1>2 DEF findLeafPage
<1>4. CASE O # {}
  <2>1. O \subseteq Nat
    BY <1>1
  <2>2. PICK o : o = lowest(O)
    OBVIOUS
  <2>3. o \in O /\ \A y \in O : o <= y
    <3> HIDE DEF O
    <3> QED BY <1>4, <2>1, <2>2, LeastElement
  <2>4. o \in 1 .. m /\ o \in 0 .. m /\ o # 0 /\ o - 1 \in 0 .. m /\ o - 1 \in Int
    BY <1>1, <2>3
  <2>5. preceding(inner, o) = {o - 1}
    BY <2>4, Neighbours
  <2>6. highest(preceding(inner, o)) = o - 1
    BY <2>4, <2>5, SingleElement
  <2>7. findLeafPage(k) = inner[o - 1].child
    BY <1>3, <1>4, <2>2, <2>6
  <2>8. o - 1 # 0 => inner[o - 1].key <= k
    <3> SUFFICES ASSUME o - 1 # 0 PROVE inner[o - 1].key <= k
      OBVIOUS
    <3>1. o - 1 \in 1 .. m /\ o - 1 \notin O
      BY <1>1, <2>3, <2>4
    <3>2. inner[o - 1].key \in Int /\ ~ (k <= inner[o - 1].key)
      BY <1>1, <3>1
    <3> QED BY <1>1, <3>2
  <2>9. k <= inner[(o - 1) + 1].key
    BY <2>3, <2>4
  <2>10. Guides(inner, m, k, o - 1)
    BY <2>4, <2>8, <2>9 DEF Guides
  <2> QED BY <2>4, <2>7, <2>10
<1>5. CASE O = {}
  <2>1. highest(1 .. m) = m
    <3>1. m \in 1 .. m /\ \A y \in 1 .. m : y <= m
      BY <1>1
    <3>2. 1 .. m \subseteq 0 .. m
      BY <1>1
    <3>4. 1 .. m # {}
      BY <3>1
    <3>3. highest(1 .. m) \in 1 .. m /\ m <= highest(1 .. m)
      BY <1>1, <3>1, <3>2, <3>4, GreatestElement
    <3> QED BY <1>1, <3>3
  <2>2. findLeafPage(k) = inner[m].child
    BY <1>3, <1>5, <2>1
  <2>3. inner[m].key <= k
    <3>1. m \in 1 .. m /\ m \notin O
      BY <1>1, <1>5
    <3>2. inner[m].key \in Int /\ ~ (k <= inner[m].key)
      BY <1>1, <3>1
    <3> QED BY <1>1, <3>2
  <2>4. Guides(inner, m, k, m) /\ m \in 0 .. m
    BY <1>1, <2>3 DEF Guides
  <2> QED BY <2>2, <2>4
<1> QED BY <1>4, <1>5

(* The entries B after an entry for key k and child q was added behind     *)
(* entry e.                                                                *)
Added(E, m, e, k, q, B) ==
    /\ EntriesOK(B, m + 1)
    /\ \A d \in 0 .. e : B[d] = E[d]
    /\ B[e + 1] = link(k, q)
    /\ \A d \in e + 2 .. m + 1 : B[d] = E[d - 1]

(* insertEntry of a new right neighbour q of child e. *)
LEMMA AddedEntry ==
    ASSUME NEW E, NEW m, EntriesOK(E, m), m < MaxEntries, NEW e \in 0 .. m, NEW k \in Keys,
           NEW q \in PageNo, \A d \in 0 .. m : E[d].child # q, Guides(E, m, k, e)
    PROVE  /\ insertEntryAllowed(E, k, E[e].child, q)
           /\ Added(E, m, e, k, q, insertEntry(E, k, E[e].child, q))
<1> DEFINE p == E[e].child
<1>1. /\ m \in Nat /\ m >= 1 /\ MaxEntries \in Nat /\ Entry = 0 .. MaxEntries
      /\ used(E) = 0 .. m /\ 0 .. m \subseteq Entry /\ emptySlots(E) = m + 1 .. MaxEntries
      /\ DOMAIN E = Entry
      /\ \A d \in 0 .. m : E[d] \in InnerEntry /\ E[d] # Null /\ E[d].child \in PageNo
      /\ \A d \in Entry : d \notin 0 .. m => E[d] = Null
      /\ \A d \in 1 .. m : E[d].key \in Keys /\ E[d].key \in Int
      /\ \A c, d \in 0 .. m : E[c].child = E[d].child => c = d
  BY EntryFields DEF EntriesOK
<1>2. matches(E, p, q) = {e}
  <2>1. ASSUME NEW d \in 0 .. m PROVE E[d].child \in {p, q} <=> d = e
    BY <1>1
  <2> HIDE DEF p
  <2> QED BY <1>1, <2>1 DEF matches
<1>3. e \in Int /\ highest(matches(E, p, q)) = e
  <2>1. highest(matches(E, p, q)) = highest({e})
    BY <1>2, Zenon
  <2> QED BY <2>1, SingleElement
<1>4. lowest(emptySlots(E) \ {0}) = m + 1
  <2>1. emptySlots(E) \ {0} = m + 1 .. MaxEntries
    BY <1>1
  <2>2. m + 1 \in m + 1 .. MaxEntries /\ m + 1 .. MaxEntries \subseteq Nat
        /\ \A y \in m + 1 .. MaxEntries : m + 1 <= y
    BY <1>1
  <2>3. lowest(m + 1 .. MaxEntries) \in m + 1 .. MaxEntries /\ lowest(m + 1 .. MaxEntries) <= m + 1
    BY <2>2, LeastElement
  <2>4. lowest(m + 1 .. MaxEntries) = m + 1
    BY <1>1, <2>3
  <2> QED BY <2>1, <2>4
<1>5. used(E) # {}
  BY <1>1
<1>6. insertEntryAllowed(E, k, p, q)
  <2>1. getNumEmptyEntries(E) > 0
    BY <1>1, EntryRoom
  <2>2. e # 0 => E[e].key <= k
    BY DEF Guides
  <2>3. ASSUME NEW r \in following(E, e) PROVE E[r].key >= k
    <3>1. e # m /\ r = e + 1
      BY Neighbours
    <3>2. k <= E[e + 1].key /\ e + 1 \in 1 .. m /\ k \in Int
      BY <1>1, <3>1, BTreeConstants DEF Guides
    <3> QED BY <1>1, <3>1, <3>2
  <2> HIDE DEF p
  <2> QED BY <1>2, <1>3, <2>1, <2>2, <2>3 DEF insertEntryAllowed
<1>7. goodSlot(m + 1, e) = e + 1
  BY <1>1 DEF goodSlot
<1> DEFINE b == [s \in Entry |-> IF s \in matches(E, p, q) THEN link(E[s].key, p) ELSE E[s]]
<1>8. b = E
  <2>1. ASSUME NEW s \in Entry PROVE (IF s \in matches(E, p, q) THEN link(E[s].key, p) ELSE E[s]) = E[s]
    BY <1>1, <1>2 DEF link, InnerEntry
  <2>2. E = [s \in Entry |-> E[s]]
    BY DEF EntriesOK
  <2> QED BY <2>1, <2>2
<1>9. PICK B : B = insertEntry(E, k, p, q)
  OBVIOUS
<1>10. B = [[s \in Entry |-> b[source(m + 1, e, s)]] EXCEPT ![e + 1] = link(k, q)]
  <2>1. PICK empty : empty = lowest(emptySlots(E) \ {0})
    OBVIOUS
  <2>2. PICK after : after = highest(matches(E, p, q))
    OBVIOUS
  <2>3. PICK good : good = goodSlot(empty, after)
    OBVIOUS
  <2> HIDE DEF p
  <2>4. B = [[s \in Entry |-> b[source(empty, after, s)]] EXCEPT ![good] = link(k, q)]
    BY <1>5, <1>9, <2>1, <2>2, <2>3 DEF insertEntry
  <2>5. empty = m + 1 /\ after = e /\ good = e + 1
    BY <1>3, <1>4, <1>7, <2>1, <2>2, <2>3, Zenon
  <2> HIDE DEF b
  <2> QED BY <2>4, <2>5
<1>11. B = [[s \in Entry |-> E[source(m + 1, e, s)]] EXCEPT ![e + 1] = link(k, q)]
  BY <1>8, <1>10
<1>12. e + 1 \in Entry
  BY <1>1
<1> HIDE DEF b, p
<1>13. /\ B[e + 1] = link(k, q) /\ DOMAIN B = Entry
       /\ \A s \in Entry \ {e + 1} : B[s] = E[source(m + 1, e, s)]
  BY <1>11, <1>12
<1>14. ASSUME NEW s \in Entry, s # e + 1
       PROVE  source(m + 1, e, s) = IF s \in e + 2 .. m + 1 THEN s - 1 ELSE s
  BY <1>1, <1>14 DEF source
<1>15. \A d \in 0 .. e : B[d] = E[d]
  <2> SUFFICES ASSUME NEW d \in 0 .. e PROVE B[d] = E[d]
    OBVIOUS
  <2>1. d \in Entry /\ d # e + 1 /\ d \notin e + 2 .. m + 1
    BY <1>1
  <2> QED BY <1>13, <1>14, <2>1
<1>16. \A d \in e + 2 .. m + 1 : B[d] = E[d - 1]
  <2> SUFFICES ASSUME NEW d \in e + 2 .. m + 1 PROVE B[d] = E[d - 1]
    OBVIOUS
  <2>1. d \in Entry /\ d # e + 1
    BY <1>1
  <2> QED BY <1>13, <1>14, <2>1
<1>17. \A d \in Entry : d > m + 1 => B[d] = Null
  <2> SUFFICES ASSUME NEW d \in Entry, d > m + 1 PROVE B[d] = Null
    OBVIOUS
  <2>1. d # e + 1 /\ d \notin e + 2 .. m + 1 /\ d \notin 0 .. m
    BY <1>1
  <2> QED BY <1>1, <1>13, <1>14, <2>1
<1>18. link(k, q) \in InnerEntry /\ link(k, q).key = k /\ link(k, q).child = q /\ link(k, q) # Null
  <2>1. link(k, q) \in InnerEntry /\ link(k, q).key = k /\ link(k, q).child = q
    BY DEF link, InnerEntry
  <2> QED BY <2>1, NullIsNone
<1>19. \A d \in 0 .. m + 1 : d \in 0 .. e \/ d = e + 1 \/ d \in e + 2 .. m + 1
  BY <1>1
<1>20. \A d \in e + 2 .. m + 1 : d - 1 \in e + 1 .. m /\ d - 1 \in 1 .. m /\ d - 1 \in 0 .. m
  BY <1>1
<1>21. 0 .. e \subseteq 0 .. m
  BY <1>1
<1>22. \A d \in 0 .. m + 1 : B[d] \in InnerEntry /\ B[d] # Null
  <2> SUFFICES ASSUME NEW d \in 0 .. m + 1 PROVE B[d] \in InnerEntry /\ B[d] # Null
    OBVIOUS
  <2>1. CASE d \in 0 .. e
    BY <1>1, <1>15, <1>21, <2>1
  <2>2. CASE d = e + 1
    BY <1>13, <1>18, <2>2
  <2>3. CASE d \in e + 2 .. m + 1
    BY <1>1, <1>16, <1>20, <2>3
  <2> QED BY <1>19, <2>1, <2>2, <2>3
<1>23. \A d \in Entry : d \in 0 .. m + 1 \/ d > m + 1
  BY <1>1
<1>24. 0 .. m + 1 \subseteq Entry /\ \A d \in 0 .. m + 1 : ~ (d > m + 1)
  BY <1>1
<1>25. B \in [Entry -> InnerEntry \cup {Null}]
  <2>1. \A d \in Entry : B[d] \in InnerEntry \cup {Null}
    BY <1>17, <1>22, <1>23
  <2>2. B = [d \in Entry |-> B[d]]
    BY <1>11, <1>12
  <2> QED BY <2>1, <2>2
<1>26. used(B) = 0 .. m + 1
  BY <1>13, <1>17, <1>22, <1>23, <1>24 DEF used
<1>27. \A d \in 1 .. m + 1 : B[d].key \in Keys
  <2> SUFFICES ASSUME NEW d \in 1 .. m + 1 PROVE B[d].key \in Keys
    OBVIOUS
  <2>1. CASE d \in 0 .. e
    <3>1. d \in 1 .. m
      BY <1>1, <2>1
    <3> QED BY <1>1, <1>15, <2>1, <3>1
  <2>2. CASE d = e + 1
    BY <1>13, <1>18, <2>2
  <2>3. CASE d \in e + 2 .. m + 1
    BY <1>1, <1>16, <1>20, <2>3
  <2> QED BY <1>1, <1>19, <2>1, <2>2, <2>3
<1>28. \A c, d \in 0 .. m + 1 : B[c].child = B[d].child => c = d
  <2> DEFINE g(c) == IF c \in 0 .. e THEN c ELSE c - 1
  <2>1. ASSUME NEW c \in 0 .. m + 1, c # e + 1 PROVE g(c) \in 0 .. m /\ B[c] = E[g(c)]
    BY <1>1, <1>15, <1>16, <1>19, <1>20, <1>21, <2>1
  <2>2. ASSUME NEW c \in 0 .. m + 1, NEW d \in 0 .. m + 1, c # e + 1, d # e + 1, g(c) = g(d)
        PROVE  c = d
    BY <1>1, <2>2
  <2> SUFFICES ASSUME NEW c \in 0 .. m + 1, NEW d \in 0 .. m + 1, B[c].child = B[d].child
               PROVE  c = d
    OBVIOUS
  <2> HIDE DEF g
  <2>3. CASE c # e + 1 /\ d # e + 1
    <3>1. E[g(c)].child = E[g(d)].child /\ g(c) \in 0 .. m /\ g(d) \in 0 .. m
      BY <2>1, <2>3
    <3>2. g(c) = g(d)
      BY <1>1, <3>1
    <3> QED BY <2>2, <2>3, <3>2
  <2>4. CASE c = e + 1 /\ d # e + 1
    <3>1. B[c].child = q /\ B[d].child # q
      BY <1>13, <1>18, <2>1, <2>4
    <3> QED BY <3>1
  <2>5. CASE c # e + 1 /\ d = e + 1
    <3>1. B[d].child = q /\ B[c].child # q
      BY <1>13, <1>18, <2>1, <2>5
    <3> QED BY <3>1
  <2> QED BY <2>3, <2>4, <2>5
<1>29. m + 1 \in 1 .. MaxEntries
  BY <1>1
<1>30. Added(E, m, e, k, q, B)
  BY <1>13, <1>15, <1>16, <1>25, <1>26, <1>27, <1>28, <1>29 DEF Added, EntriesOK
<1> QED BY <1>6, <1>9, <1>30 DEF p

(* The first entries: pages p and q, with key k between them. *)
LEMMA FirstEntries ==
    ASSUME NEW k \in Keys, NEW p \in PageNo, NEW q \in PageNo, p # q
    PROVE  /\ getNumEmptyEntries(noEntries) = MaxEntries /\ MaxEntries > 0
           /\ insertEntryAllowed(noEntries, k, p, q)
           /\ insertEntry(noEntries, k, p, q)[0] = link(Null, p)
           /\ insertEntry(noEntries, k, p, q)[1] = link(k, q)
           /\ EntriesOK(insertEntry(noEntries, k, p, q), 1)
<1>1. MaxEntries \in Nat \ {0} /\ Entry = 0 .. MaxEntries /\ 0 \in Entry /\ 1 \in Entry
  BY BTreeConstants DEF Entry
<1>2. used(noEntries) = {} /\ emptySlots(noEntries) = Entry
  BY DEF used, emptySlots, noEntries
<1>3. getNumEmptyEntries(noEntries) = MaxEntries
  <2>1. emptySlots(noEntries) \ {0} = 1 .. MaxEntries
    BY <1>1, <1>2
  <2>2. Cardinality(1 .. MaxEntries) = MaxEntries
    BY <1>1, FS_Interval
  <2> QED BY <2>1, <2>2 DEF getNumEmptyEntries
<1>4. PICK B : B = insertEntry(noEntries, k, p, q)
  OBVIOUS
<1>5. B = [noEntries EXCEPT ![0] = link(Null, p), ![1] = link(k, q)]
  BY <1>2, <1>4 DEF insertEntry
<1>6. /\ B[0] = link(Null, p) /\ B[1] = link(k, q) /\ DOMAIN B = Entry
      /\ \A d \in Entry : d # 0 /\ d # 1 => B[d] = Null
  BY <1>1, <1>5 DEF noEntries
<1>7. /\ link(k, q) \in InnerEntry /\ link(k, q).key = k /\ link(k, q).child = q
      /\ link(Null, p) \in InnerEntry /\ link(Null, p).child = p
  BY DEF link, InnerEntry
<1>8. link(k, q) # Null /\ link(Null, p) # Null
  BY <1>7, NullIsNone
<1>9. B \in [Entry -> InnerEntry \cup {Null}]
  <2>1. B = [d \in Entry |-> B[d]]
    BY <1>5 DEF noEntries
  <2> QED BY <1>6, <1>7, <2>1
<1>10. used(B) = 0 .. 1
  <2>1. \A d \in Entry : B[d] # Null <=> d \in 0 .. 1
    BY <1>1, <1>6, <1>8
  <2>2. 0 .. 1 \subseteq Entry
    BY <1>1
  <2> QED BY <1>6, <2>1, <2>2 DEF used
<1>11. \A d \in 1 .. 1 : B[d].key \in Keys
  BY <1>6, <1>7
<1>12. \A c, d \in 0 .. 1 : B[c].child = B[d].child => c = d
  <2>1. \A c \in 0 .. 1 : c = 0 \/ c = 1
    OBVIOUS
  <2> QED BY <1>6, <1>7, <2>1
<1>13. EntriesOK(B, 1)
  BY <1>1, <1>9, <1>10, <1>11, <1>12 DEF EntriesOK
<1>14. insertEntryAllowed(noEntries, k, p, q)
  BY <1>2 DEF insertEntryAllowed
<1> QED BY <1>1, <1>3, <1>4, <1>6, <1>13, <1>14

-------------------------------------------------------------------------------
(* Splitting a leaf.                                                       *)

(* A new leaf page is empty. *)
LEMMA EmptyLeaf ==
    ASSUME NEW q
    PROVE  /\ emptyLeaf \in Leaf /\ emptyLeaf # Null
           /\ emptyLeaf.slots = [s \in Slot |-> Null] /\ emptyLeaf.parent = 0
           /\ emptyLeaf.left = 0 /\ emptyLeaf.right = 0
           /\ LeafOK(q, emptyLeaf.slots) /\ keysIn(emptyLeaf.slots) = {}
           /\ getNumTuples(emptyLeaf.slots) = 0 /\ emptySlots(emptyLeaf.slots) # {}
           /\ used(emptyLeaf.slots) = {}
<1>1. /\ emptyLeaf \in Leaf /\ emptyLeaf.slots = [s \in Slot |-> Null] /\ emptyLeaf.parent = 0
      /\ emptyLeaf.left = 0 /\ emptyLeaf.right = 0
  BY DEF emptyLeaf, Leaf, PagePointer
<1>2. emptyLeaf # Null
  BY <1>1, NullIsNone
<1>3. PICK a : a = emptyLeaf.slots
  OBVIOUS
<1>4. used(a) = {} /\ a \in [Slot -> tuplesOf(q) \cup {Null}]
  BY <1>1, <1>3 DEF used
<1>5. LeafOK(q, a) /\ keysIn(a) = {}
  BY <1>4 DEF LeafOK, keysIn
<1>6. getNumTuples(a) = 0
  BY <1>4, FS_EmptySet DEF getNumTuples
<1>7. emptySlots(a) # {}
  <2>1. 0 \in Slot
    BY BTreeConstants DEF Slot
  <2> QED BY <1>1, <1>3, <2>1 DEF emptySlots
<1> QED BY <1>1, <1>2, <1>3, <1>4, <1>5, <1>6, <1>7

(* A new leaf q to the right of p. *)
LinkedRight(f, p, q, g) ==
    /\ LeavesOK(g) /\ leavesOf(g) = leavesOf(f) \cup {q}
    /\ \A r \in leavesOf(f) : g[r].slots = f[r].slots
    /\ g[q].slots = emptyLeaf.slots
    /\ g[q].left = p /\ g[q].right = f[p].right
    /\ \A r \in leavesOf(f) :
        /\ g[r].right = IF r = p THEN q ELSE f[r].right
        /\ g[r].left = IF r = f[p].right THEN q ELSE f[r].left

(* linkRight puts an empty leaf between p and its right sibling. *)
LEMMA NewRightLeaf ==
    ASSUME NEW f, LeavesOK(f), NEW p \in leavesOf(f), NEW q \in PageNo, q \notin leavesOf(f),
           f[p].right \in leavesOf(f) \cup {0}, f[p].right # p,
           NEW g, g = linkRight([f EXCEPT ![q] = emptyLeaf], p, q)
    PROVE  LinkedRight(f, p, q, g)
<1>1. PICK n : n = f[p].right
  OBVIOUS
<1>2. PICK h : h = [f EXCEPT ![q] = emptyLeaf]
  OBVIOUS
<1>3. f \in [PageNo -> Leaf \cup {Null}] /\ emptyLeaf \in Leaf /\ emptyLeaf # Null
  BY EmptyLeaf DEF LeavesOK
<1>4. p \in PageNo /\ p # q /\ 0 \notin PageNo /\ p \in PagePointer /\ q \in PagePointer
  BY PageNumbers DEF leavesOf
<1>5. /\ h \in [PageNo -> Leaf \cup {Null}] /\ h[q] = emptyLeaf
      /\ \A r \in PageNo \ {q} : h[r] = f[r]
  BY <1>2, <1>3
<1>6. \A r \in leavesOf(f) : r \in PageNo /\ r # q /\ f[r] \in Leaf /\ h[r] = f[r] /\ f[r] # Null
  BY <1>3, <1>5 DEF leavesOf
<1>7. n \in PagePointer
  BY <1>1, LeafFields
<1> DEFINE x == [h[p] EXCEPT !.right = q]
           y == [h[q] EXCEPT !.left = p, !.right = n]
           z == [h[n] EXCEPT !.left = q]
           h2 == [h EXCEPT ![p] = x, ![q] = y]
<1>8. /\ x \in Leaf /\ x.slots = f[p].slots /\ x.right = q /\ x.left = f[p].left
  BY <1>4, <1>6 DEF Leaf
<1>9. y \in Leaf /\ y.slots = emptyLeaf.slots /\ y.left = p /\ y.right = n
  BY <1>3, <1>4, <1>5, <1>7 DEF Leaf
<1>10. n # 0 => /\ z \in Leaf /\ z.slots = f[n].slots /\ z.left = q /\ z.right = f[n].right
                /\ n \in leavesOf(f)
  <2> SUFFICES ASSUME n # 0
               PROVE  /\ z \in Leaf /\ z.slots = f[n].slots /\ z.left = q /\ z.right = f[n].right
                      /\ n \in leavesOf(f)
    OBVIOUS
  <2>1. n \in leavesOf(f)
    BY <1>1
  <2>2. h[n] = f[n] /\ f[n] \in Leaf
    BY <1>6, <2>1
  <2> QED BY <1>4, <2>1, <2>2 DEF Leaf
<1>11. x # Null /\ y # Null /\ (n # 0 => z # Null)
  BY <1>8, <1>9, <1>10, NullIsNone
<1>12. g = IF n = 0 THEN h2 ELSE [h2 EXCEPT ![n] = z]
  <2>1. h[p].right = n
    BY <1>1, <1>6
  <2>2. [h EXCEPT ![p].right = q, ![q].left = p, ![q].right = n] = h2
    BY <1>4, <1>5
  <2>3. g = IF n = 0 THEN h2 ELSE [h2 EXCEPT ![n].left = q]
    <3>1. g = linkRight(h, p, q)
      BY <1>2, Zenon
    <3>2. h2 = [h EXCEPT ![p].right = q, ![q].left = p, ![q].right = h[p].right]
      BY <2>1, <2>2, Zenon
    <3> HIDE DEF h2
    <3>3. g = IF h[p].right = 0 THEN h2 ELSE [h2 EXCEPT ![h[p].right].left = q]
      BY <3>1, <3>2, Zenon DEF linkRight
    <3> QED BY <2>1, <3>3, Zenon
  <2>4. n # 0 => h2[n] = h[n]
    <3> SUFFICES ASSUME n # 0 PROVE h2[n] = h[n]
      OBVIOUS
    <3>1. n \in PageNo /\ n # p /\ n # q
      BY <1>1, <1>6, <1>10
    <3> QED BY <1>5, <3>1
  <2>5. n # 0 => [h2 EXCEPT ![n].left = q] = [h2 EXCEPT ![n] = z]
    <3> SUFFICES ASSUME n # 0 PROVE [h2 EXCEPT ![n].left = q] = [h2 EXCEPT ![n] = z]
      OBVIOUS
    <3>1. [h2[n] EXCEPT !.left = q] = z
      BY <2>4
    <3> HIDE DEF h2, z
    <3> QED BY <3>1
  <2> HIDE DEF h2, z
  <2> QED BY <2>3, <2>5
<1> HIDE DEF x, y, z
<1>13. /\ h2 \in [PageNo -> Leaf \cup {Null}] /\ h2[p] = x /\ h2[q] = y
       /\ \A r \in PageNo \ {p, q} : h2[r] = f[r]
  BY <1>4, <1>5, <1>8, <1>9
<1> HIDE DEF h2
<1>14. n # 0 => n \in PageNo /\ n # p /\ n # q
  BY <1>1, <1>6, <1>10
<1>15. /\ g \in [PageNo -> Leaf \cup {Null}] /\ g[p] = x /\ g[q] = y /\ (n # 0 => g[n] = z)
       /\ \A r \in PageNo \ {p, q, n} : g[r] = f[r]
  <2>1. CASE n = 0
    BY <1>12, <1>13, <2>1
  <2>2. CASE n # 0
    <3>1. g = [h2 EXCEPT ![n] = z] /\ z \in Leaf /\ n \in PageNo
      BY <1>10, <1>12, <1>14, <2>2
    <3>2. g \in [PageNo -> Leaf \cup {Null}] /\ g[n] = z /\ \A r \in PageNo \ {n} : g[r] = h2[r]
      BY <1>13, <3>1
    <3> QED BY <1>4, <1>13, <1>14, <2>2, <3>2
  <2> QED BY <2>1, <2>2
<1>16. leavesOf(g) = leavesOf(f) \cup {q}
  <2>1. ASSUME NEW r \in PageNo PROVE g[r] # Null <=> (f[r] # Null \/ r = q)
    <3>1. CASE r = p
      BY <1>6, <1>11, <1>15, <3>1
    <3>2. CASE r = q
      BY <1>11, <1>15, <3>2
    <3>3. CASE r = n
      <4>1. n # 0 /\ f[n] # Null
        BY <1>4, <1>6, <1>10, <3>3
      <4> QED BY <1>11, <1>15, <3>3, <4>1
    <3>4. CASE r \in PageNo \ {p, q, n}
      BY <1>15, <3>4
    <3> QED BY <3>1, <3>2, <3>3, <3>4
  <2> QED BY <2>1 DEF leavesOf
<1>17. ASSUME NEW r \in leavesOf(f)
       PROVE  /\ g[r].slots = f[r].slots
              /\ g[r].right = IF r = p THEN q ELSE f[r].right
              /\ g[r].left = IF r = n THEN q ELSE f[r].left
  <2>0. r \in PageNo /\ r # q /\ r # 0 /\ n # p
    BY <1>1, <1>4, <1>6
  <2>1. CASE r = p
    BY <1>8, <1>15, <2>0, <2>1
  <2>2. CASE r = n
    BY <1>10, <1>15, <2>0, <2>2
  <2>3. CASE r # p /\ r # n
    BY <1>15, <2>0, <2>3
  <2> QED BY <2>1, <2>2, <2>3
<1>18. LeavesOK(g)
  <2>1. ASSUME NEW r \in leavesOf(g) PROVE LeafOK(r, g[r].slots)
    <3>1. CASE r = q
      BY <1>9, <1>15, <3>1, EmptyLeaf
    <3>2. CASE r \in leavesOf(f)
      <4>1. LeafOK(r, f[r].slots) /\ g[r].slots = f[r].slots
        BY <1>17, <3>2 DEF LeavesOK
      <4> QED BY <4>1
    <3> QED BY <1>16, <3>1, <3>2
  <2> QED BY <1>15, <2>1 DEF LeavesOK
<1>19. g[q].slots = emptyLeaf.slots /\ g[q].left = p /\ g[q].right = f[p].right
  BY <1>1, <1>9, <1>15
<1> QED BY <1>1, <1>16, <1>17, <1>18, <1>19 DEF LinkedRight

(* The children of an internal page point to it. *)
Adopted(f, id, g) ==
    /\ LeavesOK(g) /\ leavesOf(g) = leavesOf(f)
    /\ \A r \in leavesOf(f) : /\ g[r].slots = f[r].slots /\ g[r].parent = id
                              /\ g[r].left = f[r].left /\ g[r].right = f[r].right

(* adopt sets the parent of every leaf when all are children. *)
LEMMA AdoptedLeaves ==
    ASSUME NEW f, LeavesOK(f), NEW B, NEW m, EntriesOK(B, m), NEW id \in PagePointer,
           leavesOf(f) = { B[d].child : d \in 0 .. m },
           NEW g, g = adopt(f, B, id)
    PROVE  Adopted(f, id, g)
<1>1. f \in [PageNo -> Leaf \cup {Null}] /\ used(B) = 0 .. m
  BY DEF LeavesOK, EntriesOK
<1>2. g = [p \in PageNo |-> IF p \in leavesOf(f) THEN [f[p] EXCEPT !.parent = id] ELSE f[p]]
  <2>1. { B[s].child : s \in used(B) } = leavesOf(f)
    BY <1>1
  <2> QED BY <2>1, Zenon DEF adopt
<1>3. \A r \in leavesOf(f) : r \in PageNo /\ f[r] \in Leaf
  BY <1>1 DEF leavesOf
<1>4. ASSUME NEW r \in leavesOf(f)
      PROVE  /\ g[r] \in Leaf /\ g[r].slots = f[r].slots /\ g[r].parent = id
             /\ g[r].left = f[r].left /\ g[r].right = f[r].right
  <2>1. g[r] = [f[r] EXCEPT !.parent = id] /\ f[r] \in Leaf
    BY <1>2, <1>3
  <2> QED BY <2>1 DEF Leaf
<1>5. \A r \in PageNo : r \notin leavesOf(f) => g[r] = f[r] /\ f[r] = Null
  BY <1>2 DEF leavesOf
<1>6. g \in [PageNo -> Leaf \cup {Null}]
  <2>1. \A r \in PageNo : g[r] \in Leaf \cup {Null}
    BY <1>4, <1>5
  <2>2. g = [r \in PageNo |-> g[r]]
    BY <1>2
  <2> QED BY <2>1, <2>2
<1>7. leavesOf(g) = leavesOf(f)
  <2>1. \A r \in leavesOf(f) : g[r] # Null
    BY <1>4, NullIsNone
  <2> QED BY <1>3, <1>5, <2>1 DEF leavesOf
<1>8. LeavesOK(g)
  BY <1>4, <1>6, <1>7, SameTuples
<1> QED BY <1>4, <1>7, <1>8 DEF Adopted

(* A tuple with key k is put into leaf p. *)
Inserted(f, p, k, g) ==
    /\ LeavesOK(g) /\ leavesOf(g) = leavesOf(f)
    /\ \A r \in PageNo \ {p} : g[r] = f[r]
    /\ g[p].parent = f[p].parent /\ g[p].left = f[p].left /\ g[p].right = f[p].right
    /\ keysIn(g[p].slots) = keysIn(f[p].slots) \cup {k}
    /\ getNumTuples(g[p].slots) = getNumTuples(f[p].slots) + 1
    /\ Adds(f, g, k)

(* insertTuple into a leaf with an empty slot. *)
LEMMA InsertedTuple ==
    ASSUME NEW f, LeavesOK(f), NEW p \in leavesOf(f), emptySlots(f[p].slots) # {}, NEW k \in Keys,
           NEW g, g = [f EXCEPT ![p].slots = insertTuple(p, @, k)]
    PROVE  Inserted(f, p, k, g)
<1>1. PICK a : a = f[p].slots
  OBVIOUS
<1>2. PICK b : b = insertTuple(p, a, k)
  OBVIOUS
<1>3. p \in PageNo /\ LeafOK(p, a) /\ f \in [PageNo -> Leaf \cup {Null}] /\ Null \notin tuplesOf(p)
  BY <1>1, LeafFields, TuplesAreRecords DEF LeavesOK
<1>4. /\ LeafOK(p, b) /\ keysIn(b) = keysIn(a) \cup {k}
      /\ Cardinality(used(b)) = Cardinality(used(a)) + 1
      /\ \A j : Cardinality(keySlots(b, j)) = Cardinality(keySlots(a, j)) + IF j = k THEN 1 ELSE 0
  BY <1>1, <1>2, <1>3, InsertTupleOK
<1>5. g = withSlots(f, p, b)
  BY <1>1, <1>2 DEF withSlots
<1>8. PICK h : h = withSlots(f, p, b)
  OBVIOUS
<1>9. /\ LeavesOK(h) /\ leavesOf(h) = leavesOf(f) /\ h[p].slots = b
      /\ h[p].parent = f[p].parent /\ h[p].left = f[p].left /\ h[p].right = f[p].right
      /\ \A r \in PageNo \ {p} : h[r] = f[r]
  BY <1>4, <1>8, ChangedSlots
<1>6. /\ LeavesOK(g) /\ leavesOf(g) = leavesOf(f) /\ g[p].slots = b
      /\ g[p].parent = f[p].parent /\ g[p].left = f[p].left /\ g[p].right = f[p].right
      /\ \A r \in PageNo \ {p} : g[r] = f[r]
  BY <1>5, <1>8, <1>9, Zenon
<1>7. getNumTuples(b) = getNumTuples(a) + 1
  BY <1>4 DEF getNumTuples
<1>10. Adds(f, g, k)
  <2> SUFFICES ASSUME NEW j \in Keys PROVE count(g, j) = IF j = k THEN count(f, j) + 1 ELSE count(f, j)
    BY DEF Adds
  <2>1. \A r \in leavesOf(f) \ {p} : g[r].slots = f[r].slots
    BY <1>6 DEF leavesOf
  <2>2. PICK c \in Nat : CountsAlone(f, p, j, c) /\ CountsAlone(g, p, j, c)
    BY <1>6, <2>1, OneLeafCounts
  <2>3. keyCount(b, j) = keyCount(a, j) + IF j = k THEN 1 ELSE 0
    BY <1>4 DEF keyCount
  <2>4. keyCount(a, j) \in Nat
    BY <1>3, KeyCounts
  <2> QED BY <1>1, <1>6, <2>2, <2>3, <2>4 DEF CountsAlone
<1> QED BY <1>1, <1>4, <1>6, <1>7, <1>10 DEF Inserted

(* The upper half of a full leaf, and the key between the halves. *)
LEMMA Halves ==
    ASSUME NEW pid, NEW a, LeafOK(pid, a), getNumTuples(a) = NumSlots,
           NEW S, S = topSlots(a, splitCount(getNumTuples(a)))
    PROVE  /\ S \subseteq used(a) /\ S \subseteq Nat /\ IsFiniteSet(S) /\ S # {}
           /\ Cardinality(S) \in Nat /\ Cardinality(S) >= NumSlots \div 2 /\ Cardinality(S) <= NumSlots
           /\ Cardinality(S) < NumSlots
           /\ NumSlots - Cardinality(S) = NumSlots \div 2
           /\ a[lowest(S)].key \in keysIn(a) /\ a[lowest(S)].key \in Keys
           /\ \A s \in S : a[lowest(S)].key <= a[s].key
           /\ \A s \in used(a) \ S : a[s].key <= a[lowest(S)].key
<1> DEFINE n == splitCount(getNumTuples(a))
           m == getNumTuples(a) - n
           B == bottomSlots(a, m)
<1>1. NumSlots \in Nat /\ NumSlots >= 2
  BY BTreeConstants
<1>2. /\ n \in 0 .. getNumTuples(a) /\ n < NumSlots /\ n >= NumSlots \div 2 /\ n > 0
      /\ NumSlots - n = NumSlots \div 2 /\ m \in 0 .. getNumTuples(a)
  BY <1>1 DEF splitCount
<1> HIDE DEF n
<1>3. S = used(a) \ B /\ Cardinality(S) = n
  BY <1>2, TopSlots DEF n
<1>4. B \subseteq used(a) /\ \A s \in B, t \in used(a) \ B : s < t
  BY <1>2, BottomSlots
<1> HIDE DEF B
<1>5. /\ used(a) \subseteq Nat /\ IsFiniteSet(used(a))
      /\ \A s \in used(a) : a[s].key \in Keys /\ a[s].key \in Int
      /\ \A r, s \in used(a) : r < s => a[r].key <= a[s].key
  BY LeafSlots, LeafCounts DEF LeafOK
<1>6. S \subseteq used(a) /\ S \subseteq Nat /\ IsFiniteSet(S)
  <2>1. S \in SUBSET used(a)
    BY <1>3
  <2> QED BY <1>5, <2>1, FS_Subset
<1>7. S # {}
  BY <1>1, <1>2, <1>3, FS_EmptySet
<1>8. PICK l : l = lowest(S)
  OBVIOUS
<1>9. l \in S /\ \A s \in S : l <= s
  BY <1>6, <1>7, <1>8, LeastElement
<1>10. a[l].key \in keysIn(a) /\ a[l].key \in Keys
  BY <1>5, <1>6, <1>9 DEF keysIn
<1>11. ASSUME NEW s \in S PROVE a[l].key <= a[s].key
  <2>1. l = s \/ l < s
    BY <1>6, <1>9
  <2>2. l \in used(a) /\ s \in used(a) /\ a[l].key \in Int
    BY <1>5, <1>6, <1>9
  <2> QED BY <1>5, <2>1, <2>2
<1>12. ASSUME NEW s \in used(a) \ S PROVE a[s].key <= a[l].key
  <2>1. s \in B /\ l \in used(a) \ B
    BY <1>3, <1>9
  <2>2. s < l
    BY <1>4, <2>1
  <2> QED BY <1>5, <2>1, <2>2
<1>13. Cardinality(S) \in Nat /\ Cardinality(S) <= NumSlots
  BY <1>1, <1>2, <1>3
<1> QED BY <1>2, <1>3, <1>6, <1>7, <1>8, <1>10, <1>11, <1>12, <1>13

(* Leaf p of f is split: q gets the upper half. *)
SplitInto(f, p, q, id, sep, g) ==
    /\ LeavesOK(g) /\ leavesOf(g) = leavesOf(f) \cup {q} /\ SameCounts(f, g)
    /\ \A r \in leavesOf(f) : r # p => g[r].slots = f[r].slots
    /\ keysIn(g[p].slots) \cup keysIn(g[q].slots) = keysIn(f[p].slots)
    /\ \A k \in keysIn(g[p].slots) : k <= sep
    /\ \A k \in keysIn(g[q].slots) : sep <= k
    /\ getNumTuples(g[p].slots) >= NumSlots \div 2 /\ getNumTuples(g[p].slots) < NumSlots
    /\ getNumTuples(g[q].slots) >= NumSlots \div 2 /\ getNumTuples(g[q].slots) < NumSlots
    /\ getNumTuples(g[p].slots) \in Nat /\ getNumTuples(g[q].slots) \in Nat
    /\ \A r \in leavesOf(g) : g[r].parent = id
    /\ g[q].left = p /\ g[q].right = f[p].right
    /\ \A r \in leavesOf(f) :
        /\ g[r].right = IF r = p THEN q ELSE f[r].right
        /\ g[r].left = IF r = f[p].right THEN q ELSE f[r].left

(* S is the upper half of the slots a, and sep its lowest key. *)
UpperHalf(a, S, sep) ==
    /\ S \subseteq used(a) /\ S \subseteq Nat /\ IsFiniteSet(S)
    /\ Cardinality(S) \in Nat /\ Cardinality(S) >= NumSlots \div 2 /\ Cardinality(S) < NumSlots
    /\ NumSlots - Cardinality(S) = NumSlots \div 2
    /\ \A s \in S : sep <= a[s].key
    /\ \A s \in used(a) \ S : a[s].key <= sep

(* The steps of a split, put together. *)
LEMMA SplitResult ==
    ASSUME NEW f, LeavesOK(f), NEW p \in leavesOf(f), NEW q \in PageNo, q \notin leavesOf(f),
           NEW a, a = f[p].slots, getNumTuples(a) = NumSlots,
           NEW S, NEW sep, UpperHalf(a, S, sep), NEW id,
           NEW g1, LinkedRight(f, p, q, g1), NEW h, Moved(g1, p, q, S, h),
           NEW g, Adopted(h, id, g)
    PROVE  SplitInto(f, p, q, id, sep, g)
<1>1. p \in PageNo /\ p # q
  BY LeafFields
<1>2. /\ leavesOf(g1) = leavesOf(f) \cup {q} /\ g1[p].slots = a
      /\ g1[q].slots = emptyLeaf.slots /\ \A r \in leavesOf(f) : g1[r].slots = f[r].slots
  BY DEF LinkedRight
<1>3. keysIn(g1[q].slots) = {} /\ getNumTuples(g1[q].slots) = 0
  BY <1>2, EmptyLeaf
<1>4. /\ LeavesOK(h) /\ leavesOf(h) = leavesOf(g1)
      /\ \A r \in PageNo \ {p, q} : h[r] = g1[r]
      /\ h[p].left = g1[p].left /\ h[p].right = g1[p].right
      /\ h[q].left = g1[q].left /\ h[q].right = g1[q].right
  BY DEF Moved
<1>5. /\ used(h[p].slots) = used(a) \ S
      /\ \A s \in used(h[p].slots) : h[p].slots[s] = a[s]
      /\ keysIn(h[q].slots) = { a[s].key : s \in S }
  BY <1>2, <1>3 DEF Moved
<1>6. /\ getNumTuples(h[p].slots) = NumSlots - Cardinality(S)
      /\ getNumTuples(h[q].slots) = 0 + Cardinality(S)
  BY <1>2, <1>3 DEF Moved
<1>7. /\ LeavesOK(g) /\ leavesOf(g) = leavesOf(h)
      /\ \A r \in leavesOf(h) : /\ g[r].slots = h[r].slots /\ g[r].parent = id
                                /\ g[r].left = h[r].left /\ g[r].right = h[r].right
  BY DEF Adopted
<1>8. leavesOf(h) = leavesOf(f) \cup {q} /\ p \in leavesOf(h) /\ q \in leavesOf(h)
  BY <1>2, <1>4
<1>9. g[p].slots = h[p].slots /\ g[q].slots = h[q].slots
  BY <1>7, <1>8
<1>10. keysIn(h[p].slots) = { a[s].key : s \in used(a) \ S }
  BY <1>5 DEF keysIn
<1>11. keysIn(g[p].slots) \cup keysIn(g[q].slots) = keysIn(f[p].slots)
  <2>1. keysIn(f[p].slots) = { a[s].key : s \in used(a) }
    BY DEF keysIn
  <2>2. { a[s].key : s \in used(a) } = { a[s].key : s \in used(a) \ S } \cup { a[s].key : s \in S }
    BY DEF UpperHalf
  <2> QED BY <1>5, <1>9, <1>10, <2>1, <2>2
<1>12. \A k \in keysIn(g[p].slots) : k <= sep
  <2>1. \A k \in { a[s].key : s \in used(a) \ S } : k <= sep
    BY DEF UpperHalf
  <2> QED BY <1>9, <1>10, <2>1
<1>13. \A k \in keysIn(g[q].slots) : sep <= k
  <2>1. \A k \in { a[s].key : s \in S } : sep <= k
    BY DEF UpperHalf
  <2> QED BY <1>5, <1>9, <2>1
<1>14. /\ getNumTuples(g[p].slots) >= NumSlots \div 2 /\ getNumTuples(g[p].slots) < NumSlots
       /\ getNumTuples(g[q].slots) >= NumSlots \div 2 /\ getNumTuples(g[q].slots) < NumSlots
       /\ getNumTuples(g[p].slots) \in Nat /\ getNumTuples(g[q].slots) \in Nat
  <2>1. NumSlots \in Nat /\ NumSlots \div 2 \in Nat /\ NumSlots \div 2 < NumSlots
    BY BTreeConstants
  <2> QED BY <1>6, <1>9, <2>1 DEF UpperHalf
<1>15. ASSUME NEW r \in leavesOf(h)
       PROVE  g[r].left = g1[r].left /\ g[r].right = g1[r].right
  <2>1. r \in PageNo
    BY DEF leavesOf
  <2>2. h[r].left = g1[r].left /\ h[r].right = g1[r].right
    BY <1>4, <2>1
  <2> QED BY <1>7, <2>2
<1>16. g[q].left = p /\ g[q].right = f[p].right
  BY <1>8, <1>15 DEF LinkedRight
<1>17. ASSUME NEW r \in leavesOf(f)
       PROVE  /\ g[r].right = IF r = p THEN q ELSE f[r].right
              /\ g[r].left = IF r = f[p].right THEN q ELSE f[r].left
  BY <1>8, <1>15 DEF LinkedRight
<1>18. ASSUME NEW r \in leavesOf(f), r # p PROVE g[r].slots = f[r].slots
  <2>1. r \in PageNo \ {p, q} /\ r \in leavesOf(h)
    BY <1>8, <1>18 DEF leavesOf
  <2> QED BY <1>2, <1>4, <1>7, <2>1
<1>19. leavesOf(g) = leavesOf(f) \cup {q} /\ \A r \in leavesOf(g) : g[r].parent = id
  BY <1>7, <1>8
<1>20. SameCounts(f, g)
  <2>1. SameCounts(f, g1)
    <3>1. /\ leavesOf(g1) \ {q} = leavesOf(f) \ {q} /\ q \notin leavesOf(f)
          /\ \A r \in leavesOf(f) \ {q} : g1[r].slots = f[r].slots
      BY <1>2
    <3>2. used(g1[q].slots) = {}
      BY <1>2, EmptyLeaf
    <3> QED BY <3>1, <3>2, EmptyLeafCounts
  <2>2. SameCounts(g1, h)
    BY DEF Moved
  <2>3. SameCounts(h, g)
    BY <1>7, SameSlotsCount
  <2> QED BY <2>1, <2>2, <2>3 DEF SameCounts
<1> QED BY <1>7, <1>11, <1>12, <1>13, <1>14, <1>16, <1>17, <1>18, <1>19, <1>20 DEF SplitInto

(* The leaves after splitLeafPage and updateParentPointers. *)
splitLeaves(f, p, q, S, B, id) ==
    adopt(moveTuples(linkRight([f EXCEPT ![q] = emptyLeaf], p, q), p, q, downwards(S)), B, id)

(* The leaves L and q are the children of the entries B. *)
HasChildren(L, q, B, m) == L \cup {q} = { B[d].child : d \in 0 .. m }

(* splitLeaves splits a full leaf in two. *)
LEMMA SplitTuples ==
    ASSUME NEW f, LeavesOK(f), NEW p \in leavesOf(f), NEW q \in PageNo, q \notin leavesOf(f),
           f[p].right \in leavesOf(f) \cup {0}, f[p].right # p,
           getNumTuples(f[p].slots) = NumSlots,
           NEW S, S = topSlots(f[p].slots, splitCount(getNumTuples(f[p].slots))),
           NEW sep, sep = f[p].slots[lowest(S)].key,
           NEW B, NEW m, EntriesOK(B, m), NEW id \in PagePointer,
           HasChildren(leavesOf(f), q, B, m),
           NEW g, g = splitLeaves(f, p, q, S, B, id)
    PROVE  SplitInto(f, p, q, id, sep, g)
<1> DEFINE g1 == linkRight([f EXCEPT ![q] = emptyLeaf], p, q)
           g2 == moveTuples(g1, p, q, downwards(S))
<1>0. g = adopt(g2, B, id) /\ leavesOf(f) \cup {q} = { B[d].child : d \in 0 .. m }
  BY DEF splitLeaves, HasChildren
<1>1. PICK a : a = f[p].slots
  OBVIOUS
<1>2. p \in PageNo /\ LeafOK(p, a) /\ p # q
  BY <1>1, LeafFields
<1>3. UpperHalf(a, S, sep)
  BY <1>1, <1>2, Halves DEF UpperHalf
<1>4. LinkedRight(f, p, q, g1)
  BY NewRightLeaf
<1> HIDE DEF g1
<1>5. /\ LeavesOK(g1) /\ leavesOf(g1) = leavesOf(f) \cup {q}
      /\ g1[p].slots = a /\ g1[q].slots = emptyLeaf.slots
      /\ p \in leavesOf(g1) /\ q \in leavesOf(g1)
  BY <1>1, <1>4 DEF LinkedRight
<1>6. getNumTuples(g1[q].slots) = 0
  BY <1>5, EmptyLeaf
<1>7. PICK order : order = downwards(S)
  OBVIOUS
<1>8. order \in Seq(S) /\ Len(order) = Cardinality(S) /\ Range(order) = S
  <2>1. S \subseteq Int /\ IsFiniteSet(S)
    BY <1>3 DEF UpperHalf
  <2> QED BY <1>7, <2>1, Downwards
<1>9. PICK h : h = moveTuples(g1, p, q, order)
  OBVIOUS
<1>10. Moved(g1, p, q, S, h)
  <2>1. S \subseteq used(g1[p].slots)
    BY <1>3, <1>5 DEF UpperHalf
  <2>2. getNumTuples(g1[q].slots) + Cardinality(S) <= NumSlots
    BY <1>3, <1>6, BTreeConstants DEF UpperHalf
  <2> QED BY <1>2, <1>5, <1>8, <1>9, <2>1, <2>2, MovedTuples
<1>11. g2 = h
  BY <1>7, <1>9, Zenon
<1>12. LeavesOK(h) /\ leavesOf(h) = leavesOf(g1)
  BY <1>10 DEF Moved
<1>13. Adopted(h, id, g)
  <2>1. leavesOf(h) = { B[d].child : d \in 0 .. m }
    BY <1>0, <1>5, <1>12, Zenon
  <2>2. g = adopt(h, B, id)
    BY <1>0, <1>11, Zenon
  <2> QED BY <1>12, <2>1, <2>2, AdoptedLeaves
<1>14. getNumTuples(a) = NumSlots
  BY <1>1
<1> QED BY <1>1, <1>3, <1>4, <1>10, <1>13, <1>14, SplitResult

(* The entries after entry e was split. *)
SplitEntries(E, m, e, sep, q, B) ==
    /\ { B[d].child : d \in 0 .. m + 1 } = { E[d].child : d \in 0 .. m } \cup {q}
    /\ \A d \in 0 .. e : B[d] = E[d]
    /\ B[e + 1].child = q /\ B[e + 1].key = sep
    /\ \A d \in e + 2 .. m + 1 : B[d] = E[d - 1]
    /\ \A d \in e + 1 .. m : B[d + 1] = E[d]

(* The entry of the new leaf comes right after the entry of the old one. *)
LEMMA SplitChildren ==
    ASSUME NEW m \in Nat, NEW E, NEW e \in 0 .. m, NEW sep, NEW q, NEW B, Added(E, m, e, sep, q, B)
    PROVE  SplitEntries(E, m, e, sep, q, B)
<1>1. /\ \A d \in 0 .. e : B[d] = E[d]
      /\ B[e + 1].child = q /\ B[e + 1].key = sep
      /\ \A d \in e + 2 .. m + 1 : B[d] = E[d - 1]
  BY DEF Added, link
<1>2. ASSUME NEW d \in e + 1 .. m PROVE B[d + 1] = E[d]
  <2>1. d + 1 \in e + 2 .. m + 1 /\ (d + 1) - 1 = d
    OBVIOUS
  <2> QED BY <1>1, <2>1
<1>3. ASSUME NEW d \in 0 .. m + 1
      PROVE  B[d].child \in { E[c].child : c \in 0 .. m } \cup {q}
  <2>1. CASE d \in 0 .. e
    <3>1. d \in 0 .. m
      BY <2>1
    <3> QED BY <1>1, <2>1, <3>1
  <2>2. CASE d = e + 1
    BY <1>1, <2>2
  <2>3. CASE d \in e + 2 .. m + 1
    <3>1. d - 1 \in 0 .. m
      BY <2>3
    <3> QED BY <1>1, <2>3, <3>1
  <2>4. d \in 0 .. e \/ d = e + 1 \/ d \in e + 2 .. m + 1
    OBVIOUS
  <2> QED BY <2>1, <2>2, <2>3, <2>4
<1>4. ASSUME NEW d \in 0 .. m PROVE E[d].child \in { B[c].child : c \in 0 .. m + 1 }
  <2>1. CASE d \in 0 .. e
    <3>1. d \in 0 .. m + 1
      BY <2>1
    <3> QED BY <1>1, <2>1, <3>1
  <2>2. CASE d \in e + 1 .. m
    <3>1. d + 1 \in 0 .. m + 1
      BY <2>2
    <3> QED BY <1>2, <2>2, <3>1
  <2>3. d \in 0 .. e \/ d \in e + 1 .. m
    OBVIOUS
  <2> QED BY <2>1, <2>2, <2>3
<1>5. q \in { B[c].child : c \in 0 .. m + 1 }
  <2>1. e + 1 \in 0 .. m + 1
    OBVIOUS
  <2> QED BY <1>1, <2>1
<1>6. { B[d].child : d \in 0 .. m + 1 } = { E[d].child : d \in 0 .. m } \cup {q}
  BY <1>3, <1>4, <1>5
<1> QED BY <1>1, <1>2, <1>6 DEF SplitEntries

(* A split keeps the tree. *)
LEMMA SplitTree ==
    ASSUME NEW f, NEW m \in Nat, NEW E, NEW id0, TreeOK(f, E, m, id0),
           \A c, d \in 0 .. m : E[c].child = E[d].child => c = d,
           0 \notin { E[d].child : d \in 0 .. m },
           NEW e \in 0 .. m, NEW p, p = E[e].child, NEW q, q \notin leavesOf(f),
           NEW sep, NEW B, Added(E, m, e, sep, q, B),
           NEW id, NEW g, SplitInto(f, p, q, id, sep, g)
    PROVE  TreeOK(g, B, m + 1, id)
<1>1. /\ leavesOf(f) = { E[d].child : d \in 0 .. m }
      /\ \A d \in 0 .. m : /\ f[E[d].child].left = IF d = 0 THEN 0 ELSE E[d - 1].child
                           /\ f[E[d].child].right = IF d = m THEN 0 ELSE E[d + 1].child
  BY DEF TreeOK, LinkedOK
<1>2. /\ { B[d].child : d \in 0 .. m + 1 } = leavesOf(f) \cup {q}
      /\ \A d \in 0 .. e : B[d] = E[d]
      /\ B[e + 1].child = q /\ B[e + 1].key = sep
      /\ \A d \in e + 2 .. m + 1 : B[d] = E[d - 1]
      /\ \A d \in e + 1 .. m : B[d + 1] = E[d]
  <2>1. SplitEntries(E, m, e, sep, q, B)
    BY SplitChildren
  <2> QED BY <1>1, <2>1, Zenon DEF SplitEntries
<1>3. /\ leavesOf(g) = leavesOf(f) \cup {q}
      /\ \A r \in leavesOf(f) : r # p => g[r].slots = f[r].slots
      /\ \A r \in leavesOf(g) : g[r].parent = id
      /\ g[q].left = p /\ g[q].right = f[p].right
      /\ \A r \in leavesOf(f) :
            /\ g[r].right = IF r = p THEN q ELSE f[r].right
            /\ g[r].left = IF r = f[p].right THEN q ELSE f[r].left
  BY DEF SplitInto
<1>4. \A d \in 0 .. m : E[d].child \in leavesOf(f) /\ (E[d].child = p <=> d = e) /\ E[d].child # 0
  BY <1>1
<1>5. f[p].right = IF e = m THEN 0 ELSE E[e + 1].child
  BY <1>1
<1>6. ASSUME NEW d \in 0 .. m PROVE E[d].child = f[p].right <=> d = e + 1
  <2>1. CASE e = m
    <3>1. d # e + 1 /\ f[p].right = 0
      BY <1>5, <2>1
    <3> QED BY <1>4, <3>1
  <2>2. CASE e # m
    <3>1. e + 1 \in 0 .. m /\ f[p].right = E[e + 1].child
      BY <1>5, <2>2
    <3> QED BY <3>1
  <2> QED BY <2>1, <2>2
<1>7. ASSUME NEW d \in 0 .. m
      PROVE  /\ g[E[d].child].right = IF d = e THEN q ELSE IF d = m THEN 0 ELSE E[d + 1].child
             /\ g[E[d].child].left = IF d = e + 1 THEN q ELSE IF d = 0 THEN 0 ELSE E[d - 1].child
  BY <1>1, <1>3, <1>4, <1>6
<1>8. \A d \in 0 .. m + 1 : d \in 0 .. e \/ d = e + 1 \/ d \in e + 2 .. m + 1
  OBVIOUS
<1>9. ASSUME NEW d \in 0 .. m + 1
      PROVE  /\ g[B[d].child].left = IF d = 0 THEN 0 ELSE B[d - 1].child
             /\ g[B[d].child].right = IF d = m + 1 THEN 0 ELSE B[d + 1].child
  <2>1. CASE d \in 0 .. e
    <3>1. d \in 0 .. m /\ d # e + 1 /\ d # m + 1 /\ B[d] = E[d]
      BY <1>2, <2>1
    <3>2. d # 0 => B[d - 1] = E[d - 1]
      <4>1. d # 0 => d - 1 \in 0 .. e
        BY <2>1
      <4> QED BY <1>2, <4>1
    <3>3. d # e => B[d + 1] = E[d + 1] /\ d # m
      <4>1. d # e => d + 1 \in 0 .. e /\ d # m
        BY <2>1
      <4> QED BY <1>2, <4>1
    <3>4. d = e => B[d + 1].child = q
      BY <1>2
    <3> QED BY <1>7, <3>1, <3>2, <3>3, <3>4
  <2>2. CASE d = e + 1
    <3>1. d - 1 = e /\ d # 0 /\ B[d - 1] = E[e] /\ B[d].child = q
      <4>1. d - 1 = e /\ d # 0 /\ e \in 0 .. e
        BY <2>2
      <4> QED BY <1>2, <2>2, <4>1
    <3>2. g[B[d].child].left = IF d = 0 THEN 0 ELSE B[d - 1].child
      BY <1>3, <3>1
    <3>3. CASE e = m
      <4>1. d = m + 1
        BY <2>2, <3>3
      <4> QED BY <1>3, <1>5, <3>1, <3>2, <3>3, <4>1
    <3>4. CASE e # m
      <4>1. d # m + 1 /\ e + 1 \in e + 1 .. m /\ d + 1 = (e + 1) + 1
        BY <2>2, <3>4
      <4>2. B[d + 1] = E[e + 1]
        BY <1>2, <4>1
      <4> QED BY <1>3, <1>5, <3>1, <3>2, <3>4, <4>1, <4>2
    <3> QED BY <3>3, <3>4
  <2>3. CASE d \in e + 2 .. m + 1
    <3>1. PICK c \in 0 .. m : c = d - 1
      BY <2>3
    <3>2. B[d] = E[c] /\ c # 0 /\ c # e /\ d # 0
      BY <1>2, <2>3, <3>1
    <3>3. c = e + 1 => B[d - 1].child = q
      BY <1>2, <3>1
    <3>4. c # e + 1 => B[d - 1] = E[c - 1]
      <4>1. c # e + 1 => c - 1 \in e + 1 .. m /\ d - 1 = (c - 1) + 1
        BY <2>3, <3>1
      <4> QED BY <1>2, <4>1
    <3>5. c = m <=> d = m + 1
      BY <3>1
    <3>6. c # m => B[d + 1] = E[c + 1]
      <4>1. c # m => c + 1 \in e + 1 .. m /\ d + 1 = (c + 1) + 1
        BY <2>3, <3>1
      <4> QED BY <1>2, <4>1
    <3> QED BY <1>7, <3>2, <3>3, <3>4, <3>5, <3>6
  <2> QED BY <1>8, <2>1, <2>2, <2>3
<1>10. LinkedOK(g, B, m + 1, id)
  <2>1. leavesOf(g) = { B[d].child : d \in 0 .. m + 1 }
    BY <1>2, <1>3
  <2>2. \A d \in 0 .. m + 1 : g[B[d].child].parent = id
    BY <1>3, <2>1
  <2> QED BY <1>9, <2>1, <2>2 DEF LinkedOK
<1>11. /\ keysIn(g[p].slots) \cup keysIn(g[q].slots) = keysIn(f[p].slots)
       /\ \A k \in keysIn(g[p].slots) : k <= sep
       /\ \A k \in keysIn(g[q].slots) : sep <= k
  BY DEF SplitInto
<1>12. \A d \in 0 .. m : \A k \in keysIn(f[E[d].child].slots) :
          (d # 0 => E[d].key <= k) /\ (d # m => k <= E[d + 1].key)
  BY DEF TreeOK, RangesOK
<1>13. ASSUME NEW d \in 0 .. m + 1, NEW k \in keysIn(g[B[d].child].slots)
       PROVE  (d # 0 => B[d].key <= k) /\ (d # m + 1 => k <= B[d + 1].key)
  <2>1. CASE d \in 0 .. e /\ d # e
    <3>1. d \in 0 .. m /\ d + 1 \in 0 .. e /\ d # m
      BY <2>1
    <3>2. B[d] = E[d] /\ B[d + 1] = E[d + 1] /\ E[d].child \in leavesOf(f) /\ E[d].child # p
      BY <1>2, <1>4, <2>1, <3>1
    <3> QED BY <1>3, <1>12, <3>1, <3>2
  <2>2. CASE d = e
    <3>1. B[d] = E[e] /\ B[d + 1].key = sep /\ e \in 0 .. e
      BY <1>2, <2>2
    <3>2. k \in keysIn(f[E[e].child].slots) /\ k <= sep
      BY <1>11, <3>1
    <3> QED BY <1>12, <2>2, <3>1, <3>2
  <2>3. CASE d = e + 1
    <3>1. B[d].child = q /\ B[d].key = sep
      BY <1>2, <2>3
    <3>2. k \in keysIn(f[E[e].child].slots) /\ sep <= k
      BY <1>11, <3>1
    <3>3. d # m + 1 => k <= B[d + 1].key
      <4> SUFFICES ASSUME d # m + 1 PROVE k <= B[d + 1].key
        OBVIOUS
      <4>1. e # m /\ e + 1 \in e + 1 .. m /\ d + 1 = (e + 1) + 1
        BY <2>3
      <4>2. B[d + 1] = E[e + 1]
        BY <1>2, <4>1
      <4> QED BY <1>12, <3>2, <4>1, <4>2
    <3> QED BY <3>1, <3>2, <3>3
  <2>4. CASE d \in e + 2 .. m + 1
    <3>1. PICK c \in 0 .. m : c = d - 1
      BY <2>4
    <3>2. B[d] = E[c] /\ c # 0 /\ c # e /\ (d # m + 1 => c # m)
      BY <1>2, <2>4, <3>1
    <3>3. c # m => B[d + 1] = E[c + 1]
      <4>1. c # m => c + 1 \in e + 1 .. m /\ d + 1 = (c + 1) + 1
        BY <2>4, <3>1
      <4> QED BY <1>2, <4>1
    <3>4. E[c].child \in leavesOf(f) /\ E[c].child # p
      BY <1>4, <3>2
    <3>5. k \in keysIn(f[E[c].child].slots)
      BY <1>3, <3>2, <3>4
    <3> QED BY <1>12, <3>2, <3>3, <3>5
  <2>5. (d \in 0 .. e /\ d # e) \/ d = e \/ d = e + 1 \/ d \in e + 2 .. m + 1
    OBVIOUS
  <2> QED BY <2>1, <2>2, <2>3, <2>4, <2>5
<1>14. RangesOK(g, B, m + 1)
  BY <1>13 DEF RangesOK
<1>15. ASSUME NEW r \in leavesOf(g) PROVE getNumTuples(g[r].slots) >= NumSlots \div 2
  <2>1. CASE r = q
    BY <2>1 DEF SplitInto
  <2>2. CASE r = p
    BY <2>2 DEF SplitInto
  <2>3. CASE r # q /\ r # p
    <3>1. r \in leavesOf(f) /\ g[r].slots = f[r].slots
      BY <1>3, <2>3
    <3>2. PICK d \in 0 .. m : r = E[d].child
      BY <1>1, <3>1
    <3> QED BY <3>1, <3>2 DEF TreeOK, FilledOK
  <2> QED BY <2>1, <2>2, <2>3
<1>16. FilledOK(g, B, m + 1)
  <2>1. \A d \in 0 .. m + 1 : B[d].child \in leavesOf(g)
    BY <1>2, <1>3
  <2> QED BY <1>15, <2>1 DEF FilledOK
<1> QED BY <1>10, <1>14, <1>16 DEF TreeOK

(* A tuple that goes where findLeafPage says keeps the tree. *)
LEMMA InsertionKeepsTree ==
    ASSUME NEW f, LeavesOK(f), NEW m \in Nat, NEW E, NEW id, TreeOK(f, E, m, id),
           \A c, d \in 0 .. m : E[c].child = E[d].child => c = d,
           NEW k \in Keys, NEW e \in 0 .. m, Guides(E, m, k, e), NEW p, p = E[e].child,
           NEW g, Inserted(f, p, k, g)
    PROVE  TreeOK(g, E, m, id)
<1>1. /\ leavesOf(g) = leavesOf(f) /\ \A r \in PageNo \ {p} : g[r] = f[r]
      /\ g[p].parent = f[p].parent /\ g[p].left = f[p].left /\ g[p].right = f[p].right
      /\ keysIn(g[p].slots) = keysIn(f[p].slots) \cup {k}
      /\ getNumTuples(g[p].slots) = getNumTuples(f[p].slots) + 1
  BY DEF Inserted
<1>2. \A d \in 0 .. m : E[d].child \in leavesOf(f) /\ E[d].child \in PageNo
  BY DEF TreeOK, LinkedOK, leavesOf
<1>3. \A d \in 0 .. m : d # e => E[d].child # p /\ g[E[d].child] = f[E[d].child]
  BY <1>1, <1>2
<1>4. LinkedOK(g, E, m, id)
  <2>1. ASSUME NEW d \in 0 .. m
        PROVE  /\ g[E[d].child].parent = f[E[d].child].parent
               /\ g[E[d].child].left = f[E[d].child].left
               /\ g[E[d].child].right = f[E[d].child].right
    BY <1>1, <1>3
  <2>2. /\ leavesOf(f) = { E[d].child : d \in 0 .. m }
        /\ \A d \in 0 .. m :
            /\ f[E[d].child].parent = id
            /\ f[E[d].child].left = IF d = 0 THEN 0 ELSE E[d - 1].child
            /\ f[E[d].child].right = IF d = m THEN 0 ELSE E[d + 1].child
    BY DEF TreeOK, LinkedOK
  <2> QED BY <1>1, <2>1, <2>2 DEF LinkedOK
<1>5. RangesOK(g, E, m)
  <2> SUFFICES ASSUME NEW d \in 0 .. m, NEW j \in keysIn(g[E[d].child].slots)
               PROVE  (d # 0 => E[d].key <= j) /\ (d # m => j <= E[d + 1].key)
    BY DEF RangesOK
  <2>1. CASE j \in keysIn(f[E[d].child].slots)
    BY <2>1 DEF TreeOK, RangesOK
  <2>2. CASE j \notin keysIn(f[E[d].child].slots)
    <3>1. d = e /\ j = k
      BY <1>1, <1>3, <2>2
    <3> QED BY <3>1 DEF Guides
  <2> QED BY <2>1, <2>2
<1>6. FilledOK(g, E, m)
  <2> SUFFICES ASSUME NEW d \in 0 .. m
               PROVE  getNumTuples(g[E[d].child].slots) >= NumSlots \div 2
    BY DEF FilledOK
  <2>1. getNumTuples(f[E[d].child].slots) >= NumSlots \div 2
    BY DEF TreeOK, FilledOK
  <2>2. getNumTuples(f[E[d].child].slots) \in Nat
    <3>1. LeafOK(E[d].child, f[E[d].child].slots)
      BY <1>2, LeafFields
    <3> QED BY <3>1, LeafCounts
  <2>3. NumSlots \div 2 \in Nat
    BY BTreeConstants
  <2> QED BY <1>1, <1>3, <2>1, <2>2, <2>3
<1> QED BY <1>4, <1>5, <1>6 DEF TreeOK

-------------------------------------------------------------------------------
(* The steps.                                                              *)

(* What a step has to establish. *)
LEMMA InvPrime ==
    ASSUME asserts' \in BOOLEAN, appends' = appends, appends \in BOOLEAN,
           tail' \in 0 .. PageSize - 1,
           outcome' \in {"running", "internal page full", "merge", "empty page", "looping"},
           LeavesOK(leaf'),
           PagesOK(leavesOf(leaf'), innerPages(inner', innerId'), filePages', headers'),
           \/ NoTree(leaf', inner', innerId', root', filePages', headers')
           \/ LeafTree(leaf', inner', innerId', root')
           \/ InnerTree(leaf', inner', innerId', root')
           \/ StoppedTree'
    PROVE  Inv'
BY DEF Inv, PagesOK, Parts

(* What the tree is unless a merge left entries. *)
LEMMA RunningTree ==
    ASSUME Inv, ~ StoppedTree
    PROVE  /\ ~ hasRoot => NoTree(leaf, inner, innerId, root, filePages, headers)
           /\ hasRoot => \/ LeafTree(leaf, inner, innerId, root)
                         \/ InnerTree(leaf, inner, innerId, root)
BY PageNumbers DEF Inv, NoTree, LeafTree, InnerTree, hasRoot

(* The root leaf, put into a new file. *)
LEMMA InsertFirstStep ==
    ASSUME Inv, ~ StoppedTree, NEW k \in Keys, InsertFirst(k)
    PROVE  Inv' /\ Adds(leaf, leaf', k)
<1>1. NoTree(leaf, inner, innerId, root, filePages, headers) /\ asserts \in BOOLEAN
  BY RunningTree DEF Inv, InsertFirst
<1>2. PICK a : a = insertTuple(1, emptyLeaf.slots, k)
  OBVIOUS
<1>3. PICK x : x = [emptyLeaf EXCEPT !.slots = a]
  OBVIOUS
<1>4. leaf' = [[p \in PageNo |-> Null] EXCEPT ![1] = x]
  BY <1>1, <1>2, <1>3 DEF NoTree, InsertFirst
<1>5. LeafOK(1, a)
  <2>1. Null \notin tuplesOf(1)
    BY PageNumbers, TuplesAreRecords
  <2>2. LeafOK(1, emptyLeaf.slots) /\ emptySlots(emptyLeaf.slots) # {}
    BY EmptyLeaf
  <2> QED BY <1>2, <2>1, <2>2, InsertTupleOK
<1>6. x \in Leaf /\ x # Null /\ x.slots = a /\ x.parent = 0 /\ x.left = 0 /\ x.right = 0
  <2>1. /\ emptyLeaf \in Leaf /\ emptyLeaf.parent = 0 /\ emptyLeaf.left = 0 /\ emptyLeaf.right = 0
    BY EmptyLeaf
  <2>2. /\ x \in Leaf /\ x.slots = a /\ x.parent = emptyLeaf.parent
        /\ x.left = emptyLeaf.left /\ x.right = emptyLeaf.right
    BY <1>3, <1>5, <2>1, NewLeaf, PageNumbers
  <2> QED BY <2>1, <2>2, NullIsNone
<1>7. leavesOf(leaf') = {1} /\ LeavesOK(leaf') /\ leaf'[1] = x
  <2>1. leaf' \in [PageNo -> Leaf \cup {Null}] /\ leaf'[1] = x
        /\ \A p \in PageNo : p # 1 => leaf'[p] = Null
    BY <1>4, <1>6, PageNumbers
  <2>2. leavesOf(leaf') = {1}
    BY <1>6, <2>1, PageNumbers DEF leavesOf
  <2> QED BY <1>5, <1>6, <2>1, <2>2 DEF LeavesOK
<1>8. innerPages(inner', innerId') = {} /\ filePages' = 1 /\ headers' = <<>> /\ inner' = Null
      /\ innerId' = 0 /\ root' = 1 /\ tail' = tail
      /\ asserts' = asserts /\ appends' = appends /\ outcome' = outcome
  BY <1>1 DEF InsertFirst, innerPages, NoTree
<1>9. PagesOK(leavesOf(leaf'), innerPages(inner', innerId'), filePages', headers')
  <2>1. headerPages(<<>>) = {} /\ freePages(<<>>) = {}
    BY NoHeader
  <2>2. Parts({1}, {}, {}, {}, 1 .. 1)
    BY DEF Parts
  <2>3. 1 \in PagePointer
    BY PageNumbers
  <2>4. PagesOK({1}, {}, 1, <<>>)
    BY <2>1, <2>2, <2>3 DEF PagesOK
  <2> QED BY <1>7, <1>8, <2>4
<1>10. LeafTree(leaf', inner', innerId', root')
  BY <1>6, <1>7, <1>8, PageNumbers DEF LeafTree
<1>11. Adds(leaf, leaf', k)
  <2> SUFFICES ASSUME NEW j \in Keys
               PROVE  count(leaf', j) = IF j = k THEN count(leaf, j) + 1 ELSE count(leaf, j)
    BY DEF Adds
  <2>1. \A f : tuplesOn(f, {}, j) = {}
    BY DEF tuplesOn
  <2>2. count(leaf, j) = 0
    <3>1. leavesOf(leaf) = {}
      BY <1>1 DEF NoTree, leavesOf
    <3> QED BY <2>1, <3>1, FS_EmptySet DEF count
  <2>3. keyCount(emptyLeaf.slots, j) = 0
    <3>1. keySlots(emptyLeaf.slots, j) = {}
      BY EmptyLeaf DEF keySlots
    <3> QED BY <3>1, FS_EmptySet DEF keyCount
  <2>4. keyCount(a, j) = keyCount(emptyLeaf.slots, j) + IF j = k THEN 1 ELSE 0
    <3>1. Null \notin tuplesOf(1)
      BY PageNumbers, TuplesAreRecords
    <3>2. LeafOK(1, emptyLeaf.slots) /\ emptySlots(emptyLeaf.slots) # {}
      BY EmptyLeaf
    <3> QED BY <1>2, <3>1, <3>2, InsertTupleOK DEF keyCount
  <2>5. count(leaf', j) = keyCount(a, j)
    <3>1. PICK f : f = leaf'
      OBVIOUS
    <3>2. LeavesOK(f) /\ leavesOf(f) = {1} /\ f[1].slots = a
      BY <1>6, <1>7, <3>1
    <3>3. count(f, j) = keyCount(f[1].slots, j)
      BY <3>2, SoleLeafCounts
    <3> QED BY <3>1, <3>2, <3>3
  <2> QED BY <2>2, <2>3, <2>4, <2>5
<1>12. /\ asserts' \in BOOLEAN /\ appends \in BOOLEAN /\ tail' \in 0 .. PageSize - 1
       /\ outcome' \in {"running", "internal page full", "merge", "empty page", "looping"}
  BY <1>8 DEF Inv
<1> QED BY <1>7, <1>8, <1>9, <1>10, <1>11, <1>12, InvPrime

(* The leaf that findLeafPage finds is a leaf: the root, or a child of the *)
(* internal page.                                                          *)
LEMMA FoundLeaf ==
    ASSUME Inv, ~ StoppedTree, hasRoot, NEW k \in Keys, NEW p, p = findLeafPage(k)
    PROVE  /\ p \in leavesOf(leaf) /\ LeavesOK(leaf) /\ LeafOK(p, leaf[p].slots)
           /\ \/ LeafTree(leaf, inner, innerId, root) /\ p = root
              \/ /\ innerId \in PageNo /\ root = innerId
                 /\ \E m \in 1 .. MaxEntries : \E e \in 0 .. m :
                      /\ EntriesOK(inner, m) /\ TreeOK(leaf, inner, m, innerId)
                      /\ p = inner[e].child /\ Guides(inner, m, k, e)
<1>1. LeavesOK(leaf)
  BY DEF Inv
<1>2. CASE LeafTree(leaf, inner, innerId, root)
  <2>1. p = root
    BY <1>2 DEF LeafTree, findLeafPage
  <2> QED BY <1>1, <1>2, <2>1, LeafFields DEF LeafTree
<1>3. CASE InnerTree(leaf, inner, innerId, root)
  <2>1. PICK m \in 1 .. MaxEntries : EntriesOK(inner, m) /\ TreeOK(leaf, inner, m, innerId)
    BY <1>3 DEF InnerTree
  <2>2. PICK e \in 0 .. m : p = inner[e].child /\ Guides(inner, m, k, e)
    BY <2>1, FindLeaf
  <2>3. p \in leavesOf(leaf)
    BY <2>1, <2>2 DEF TreeOK, LinkedOK
  <2> QED BY <1>1, <1>3, <2>1, <2>2, <2>3, LeafFields DEF InnerTree
<1> QED BY <1>2, <1>3, RunningTree

(* A tuple goes into a leaf with room. *)
LEMMA InsertInLeafStep ==
    ASSUME Inv, ~ StoppedTree, NEW k \in Keys, InsertInLeaf(k)
    PROVE  Inv' /\ Adds(leaf, leaf', k)
<1>1. PICK p : p = findLeafPage(k)
  OBVIOUS
<1>2. hasRoot /\ getNumEmptySlots(leaf[p].slots) > 0
      /\ leaf' = [leaf EXCEPT ![p].slots = insertTuple(p, @, k)]
      /\ UNCHANGED <<inner, innerId, root, filePages, tail, headers, asserts, appends, outcome>>
  BY <1>1 DEF InsertInLeaf
<1>3. p \in leavesOf(leaf) /\ LeavesOK(leaf) /\ LeafOK(p, leaf[p].slots)
  BY <1>1, <1>2, FoundLeaf
<1>4. emptySlots(leaf[p].slots) # {}
  <2>1. getNumEmptySlots(leaf[p].slots) = NumSlots - getNumTuples(leaf[p].slots)
        /\ getNumTuples(leaf[p].slots) \in Nat
        /\ (getNumTuples(leaf[p].slots) < NumSlots => emptySlots(leaf[p].slots) # {})
    BY <1>3, LeafCounts
  <2> QED BY <1>2, <2>1, BTreeConstants
<1>5. Inserted(leaf, p, k, leaf')
  BY <1>2, <1>3, <1>4, InsertedTuple
<1>6. LeavesOK(leaf') /\ leavesOf(leaf') = leavesOf(leaf)
  BY <1>5 DEF Inserted
<1>7. PagesOK(leavesOf(leaf'), innerPages(inner', innerId'), filePages', headers')
  BY <1>2, <1>6 DEF Inv
<1>8. \/ LeafTree(leaf', inner', innerId', root') \/ InnerTree(leaf', inner', innerId', root')
  <2>1. CASE LeafTree(leaf, inner, innerId, root) /\ p = root
    <3>1. leaf'[p].parent = leaf[p].parent /\ leaf'[p].left = leaf[p].left
          /\ leaf'[p].right = leaf[p].right
      BY <1>5 DEF Inserted
    <3> QED BY <1>2, <1>6, <2>1, <3>1 DEF LeafTree
  <2>2. CASE /\ innerId \in PageNo /\ root = innerId
             /\ \E m \in 1 .. MaxEntries : \E e \in 0 .. m :
                  /\ EntriesOK(inner, m) /\ TreeOK(leaf, inner, m, innerId)
                  /\ p = inner[e].child /\ Guides(inner, m, k, e)
    <3>1. PICK m \in 1 .. MaxEntries : \E e \in 0 .. m :
                  /\ EntriesOK(inner, m) /\ TreeOK(leaf, inner, m, innerId)
                  /\ p = inner[e].child /\ Guides(inner, m, k, e)
      BY <2>2
    <3>2. PICK e \in 0 .. m :
                  /\ EntriesOK(inner, m) /\ TreeOK(leaf, inner, m, innerId)
                  /\ p = inner[e].child /\ Guides(inner, m, k, e)
      BY <3>1
    <3>3. m \in Nat /\ \A c, d \in 0 .. m : inner[c].child = inner[d].child => c = d
      BY <3>2, BTreeConstants DEF EntriesOK
    <3>4. TreeOK(leaf', inner, m, innerId)
      BY <1>3, <1>5, <3>2, <3>3, InsertionKeepsTree
    <3> QED BY <1>2, <2>2, <3>2, <3>4 DEF InnerTree
  <2> QED BY <1>1, <1>2, <2>1, <2>2, FoundLeaf
<1>9. Adds(leaf, leaf', k)
  BY <1>5 DEF Inserted
<1> QED BY <1>2, <1>6, <1>7, <1>8, <1>9, InvPrime DEF Inv

(* What getEmptyPage starts from. *)
LEMMA SpaceFields ==
    ASSUME tail \in 0 .. PageSize - 1
    PROVE  IsSpace(space) /\ space.pages = filePages /\ space.headers = headers
BY DEF IsSpace, space

(* The two pages that a root leaf needs when it splits. *)
LEMMA PagesForRoot ==
    ASSUME NEW p \in PageNo, PagesOK({p}, {}, filePages, headers), tail \in 0 .. PageSize - 1,
           NEW q, q = getEmptyPageNo(space), NEW sp, sp = getEmptyPage(space),
           NEW id, id = getEmptyPageNo(sp), NEW tp, tp = getEmptyPage(sp), fits(tp)
    PROVE  /\ q \in PageNo /\ q # p /\ id \in PageNo /\ IsSpace(tp)
           /\ PagesOK({p, q}, {id}, tp.pages, tp.headers)
<1>0. MaxEntries \in Nat /\ MaxEntries >= 1 /\ filePages \in Nat
  BY BTreeConstants, PageNumbers DEF PagesOK
<1>s. IsSpace(space) /\ space.pages = filePages /\ space.headers = headers
  BY SpaceFields
<1>f. fits(sp)
  <2>1. IsSpace(sp) /\ sp.pages \in Nat
    BY <1>0, <1>s, EmptyPageGrows
  <2>2. tp.pages \in Nat /\ tp.pages >= sp.pages
    BY <2>1, EmptyPageGrows
  <2> QED BY <2>1, <2>2, PageNumbers DEF fits
<1>1. Taken({p}, {}, space, q, sp)
  <2>1. ASSUME ~ appends, freePages(headers) = {} PROVE filePages < MaxEntries + 3
    <3>1. filePages <= Cardinality({p}) + Cardinality({}) + IF headers = <<>> THEN 0 ELSE 1
      BY <2>1, PagesInUse
    <3>2. Cardinality({p}) = 1 /\ Cardinality({}) = 0
      BY FS_Singleton, FS_EmptySet
    <3> QED BY <1>0, <3>1, <3>2
  <2> QED BY <2>1, <1>s, <1>f, EmptyPage
<1>2. \A K : K = {p} \cup {q} => PagesOK(K, {}, sp.pages, sp.headers)
  BY <1>1 DEF Taken
<1>3. PICK K : K = {p, q}
  OBVIOUS
<1>4. PagesOK(K, {}, sp.pages, sp.headers) /\ IsSpace(sp) /\ q \in PageNo /\ q # p
  BY <1>1, <1>2, <1>3 DEF Taken
<1>5. Taken(K, {}, sp, id, tp)
  <2>1. ASSUME ~ appends, freePages(sp.headers) = {} PROVE sp.pages < MaxEntries + 3
    <3>1. sp.pages <= Cardinality(K) + Cardinality({}) + IF sp.headers = <<>> THEN 0 ELSE 1
      BY <1>4, <2>1, PagesInUse
    <3>2. Cardinality({p}) = 1 /\ Cardinality({}) = 0 /\ IsFiniteSet({p})
      BY FS_Singleton, FS_EmptySet
    <3>3. K = {p} \cup {q} /\ q \notin {p}
      BY <1>3, <1>4
    <3>4. Cardinality(K) = 2
      BY <3>2, <3>3, FS_AddElement
    <3>5. sp.pages \in Nat
      BY <1>4, PageNumbers, <1>0 DEF PagesOK
    <3> QED BY <1>0, <3>1, <3>2, <3>4, <3>5
  <2> QED BY <1>4, <2>1, EmptyPage
<1>6. PagesOK(K, {id}, tp.pages, tp.headers) /\ id \in PageNo /\ IsSpace(tp)
  BY <1>5 DEF Taken
<1> QED BY <1>3, <1>4, <1>6

(* No more leaves than entries. *)
LEMMA ChildCount ==
    ASSUME NEW E, NEW m \in Nat, NEW L, \A p \in L : \E e \in 0 .. m : p = E[e].child
    PROVE  Cardinality(L) <= m + 1
<1> DEFINE c == [p \in L |-> CHOOSE e \in 0 .. m : p = E[e].child]
<1>1. IsFiniteSet(0 .. m) /\ Cardinality(0 .. m) = m + 1
  BY FS_Interval
<1>2. \A p \in L : c[p] \in 0 .. m /\ E[c[p]].child = p
  OBVIOUS
<1>3. c \in Injection(L, 0 .. m)
  BY <1>2 DEF Injection, IsInjective
<1>4. Cardinality(L) <= Cardinality(0 .. m)
  BY <1>1, <1>3, FS_Injection
<1> QED BY <1>1, <1>4

(* The page that a child needs when it splits. *)
LEMMA PageForChild ==
    ASSUME NEW E, NEW m, EntriesOK(E, m), m < MaxEntries,
           NEW L, \A p \in L : \E e \in 0 .. m : p = E[e].child, NEW id, NEW I, I = {id},
           PagesOK(L, I, filePages, headers), tail \in 0 .. PageSize - 1,
           fits(getEmptyPage(space))
    PROVE  Taken(L, I, space, getEmptyPageNo(space), getEmptyPage(space))
<1>0. MaxEntries \in Nat /\ MaxEntries >= 1 /\ m \in Nat
  BY BTreeConstants DEF EntriesOK
<1>1. Taken(L, I, space, getEmptyPageNo(space), getEmptyPage(space))
  <2>1. ASSUME ~ appends, freePages(headers) = {} PROVE filePages < MaxEntries + 3
    <3>1. /\ filePages <= Cardinality(L) + Cardinality(I) + IF headers = <<>> THEN 0 ELSE 1
          /\ Cardinality(L) \in Nat
      BY <2>1, PagesInUse
    <3>2. Cardinality(I) = 1
      BY FS_Singleton
    <3>3. filePages \in Nat
      BY PageNumbers, <1>0 DEF PagesOK
    <3>4. Cardinality(L) <= m + 1
      BY <1>0, ChildCount
    <3> QED BY <1>0, <3>1, <3>2, <3>3, <3>4
  <2> QED BY <2>1, SpaceFields, EmptyPage
<1> QED BY <1>1

(* A split of leaf p, with the tuple to insert: the entries B of the       *)
(* internal page id afterwards, with p and its new right half q in slots e *)
(* and e + 1.                                                              *)
SplitPlan(p, q, sep, k, B, m, e, id, sp) ==
    /\ m \in Nat /\ e \in 0 .. m /\ EntriesOK(B, m + 1)
    /\ B[e].child = p /\ B[e + 1].child = q /\ B[e + 1].key = sep
    /\ e # 0 => B[e].key <= k
    /\ e # m => k <= B[e + 2].key
    /\ leavesOf(leaf) \cup {q} = { B[d].child : d \in 0 .. m + 1 }
    /\ \A g : SplitInto(leaf, p, q, id, sep, g) => TreeOK(g, B, m + 1, id)
    /\ q \in PageNo /\ q \notin leavesOf(leaf) /\ id \in PageNo
    /\ leaf[p].right \in leavesOf(leaf) \cup {0} /\ leaf[p].right # p
    /\ IsSpace(sp)
    /\ \A K : K = leavesOf(leaf) \cup {q} => PagesOK(K, {id}, sp.pages, sp.headers)

(* The key that splitLeafPage copies up. *)
LEMMA SplitKeyIsKey ==
    ASSUME NEW p, LeafOK(p, leaf[p].slots), getNumEmptySlots(leaf[p].slots) = 0
    PROVE  /\ getNumTuples(leaf[p].slots) = NumSlots
           /\ splitKey(p) \in Keys /\ splitKey(p) \in keysIn(leaf[p].slots)
<1>1. getNumTuples(leaf[p].slots) = NumSlots
  BY LeafCounts, BTreeConstants
<1> QED BY <1>1, Halves DEF splitKey

(* The root is a leaf and splits. *)
LEMMA PlanForRoot ==
    ASSUME Inv, LeafTree(leaf, inner, innerId, root), NEW k \in Keys,
           NEW p, p = root, getNumTuples(leaf[p].slots) = NumSlots, NEW sep \in Keys,
           NEW q, q = getEmptyPageNo(space), fits(spaceAfterSplit(p)),
           NEW B, B = insertEntry(parentEntries(p), sep, p, q)
    PROVE  /\ getNumEmptyEntries(parentEntries(p)) > 0
           /\ insertEntryAllowed(parentEntries(p), sep, p, q)
           /\ SplitPlan(p, q, sep, k, B, 0, 0, parentId(p), spaceAfterSplit(p))
<1>1. /\ p \in PageNo /\ leavesOf(leaf) = {p} /\ inner = Null
      /\ leaf[p].parent = 0 /\ leaf[p].left = 0 /\ leaf[p].right = 0
  BY DEF LeafTree
<1>2. PICK sp : sp = getEmptyPage(space)
  OBVIOUS
<1>3. PICK tp : tp = getEmptyPage(sp)
  OBVIOUS
<1>4. PICK id : id = getEmptyPageNo(sp)
  OBVIOUS
<1>5. parentEntries(p) = noEntries /\ parentId(p) = id /\ spaceAfterSplit(p) = tp
  BY <1>1, <1>2, <1>3, <1>4 DEF parentEntries, parentId, spaceAfterSplit, isRoot
<1>6. PagesOK({p}, {}, filePages, headers) /\ tail \in 0 .. PageSize - 1 /\ fits(tp)
  BY <1>1, <1>5 DEF Inv, innerPages
<1>7. /\ q \in PageNo /\ q # p /\ id \in PageNo /\ IsSpace(tp)
      /\ PagesOK({p, q}, {id}, tp.pages, tp.headers)
  BY <1>1, <1>2, <1>3, <1>4, <1>6, PagesForRoot
<1>8. B = insertEntry(noEntries, sep, p, q)
  BY <1>5
<1>9. /\ getNumEmptyEntries(noEntries) > 0 /\ insertEntryAllowed(noEntries, sep, p, q)
      /\ B[0] = link(Null, p) /\ B[1] = link(sep, q) /\ EntriesOK(B, 1)
  BY <1>1, <1>7, <1>8, FirstEntries
<1>10. B[0].child = p /\ B[1].child = q /\ B[1].key = sep
  BY <1>9 DEF link
<1>11. leavesOf(leaf) \cup {q} = { B[d].child : d \in 0 .. 1 }
  BY <1>1, <1>10
<1>12. ASSUME NEW g, SplitInto(leaf, p, q, id, sep, g) PROVE TreeOK(g, B, 1, id)
  <2>1. PICK E : E = [d \in {0} |-> link(Null, p)]
    OBVIOUS
  <2>2. E[0].child = p /\ 0 .. 0 = {0}
    BY <2>1 DEF link
  <2>3. TreeOK(leaf, E, 0, 0)
    <3>1. LinkedOK(leaf, E, 0, 0)
      BY <1>1, <2>2 DEF LinkedOK
    <3>2. RangesOK(leaf, E, 0)
      BY DEF RangesOK
    <3>3. FilledOK(leaf, E, 0)
      BY <2>2, BTreeConstants DEF FilledOK
    <3> QED BY <3>1, <3>2, <3>3 DEF TreeOK
  <2>4. Added(E, 0, 0, sep, q, B)
    <3>1. B[0] = E[0] /\ B[0 + 1] = link(sep, q) /\ EntriesOK(B, 0 + 1) /\ 0 + 2 .. 0 + 1 = {}
      BY <1>9, <2>1
    <3> QED BY <2>2, <3>1 DEF Added
  <2>5. /\ \A c, d \in 0 .. 0 : E[c].child = E[d].child => c = d
        /\ 0 \notin { E[d].child : d \in 0 .. 0 } /\ 0 \in 0 .. 0 /\ p = E[0].child
    BY <1>1, <2>2, PageNumbers
  <2>6. q \notin leavesOf(leaf) /\ 0 \in Nat
    BY <1>1, <1>7
  <2>7. TreeOK(g, B, 0 + 1, id)
    BY <1>12, <2>3, <2>4, <2>5, <2>6, SplitTree
  <2> QED BY <2>7
<1>13. SplitPlan(p, q, sep, k, B, 0, 0, id, tp)
  <2>1. 0 + 1 = 1 /\ 0 \in Nat /\ 0 \in 0 .. 0
    OBVIOUS
  <2>2. \A K : K = leavesOf(leaf) \cup {q} => PagesOK(K, {id}, tp.pages, tp.headers)
    <3>1. leavesOf(leaf) \cup {q} = {p, q}
      BY <1>1
    <3> QED BY <1>7, <3>1
  <2>3. q \in PageNo /\ q \notin leavesOf(leaf) /\ id \in PageNo
        /\ leaf[p].right \in leavesOf(leaf) \cup {0} /\ leaf[p].right # p
    BY <1>1, <1>7, PageNumbers
  <2> QED BY <1>7, <1>9, <1>10, <1>11, <1>12, <2>1, <2>2, <2>3 DEF SplitPlan
<1> QED BY <1>5, <1>9, <1>13

(* A child of the internal page splits. *)
LEMMA PlanForChild ==
    ASSUME Inv, innerId \in PageNo, NEW m, EntriesOK(inner, m), m < MaxEntries,
           TreeOK(leaf, inner, m, innerId), NEW k \in Keys, NEW e, Guides(inner, m, k, e),
           NEW p, p = inner[e].child, NEW sep \in Keys, sep \in keysIn(leaf[p].slots),
           NEW q, q = getEmptyPageNo(space), fits(spaceAfterSplit(p)),
           NEW B, B = insertEntry(parentEntries(p), sep, p, q)
    PROVE  /\ insertEntryAllowed(parentEntries(p), sep, p, q)
           /\ SplitPlan(p, q, sep, k, B, m, e, parentId(p), spaceAfterSplit(p))
<1>1. /\ m \in Nat /\ inner # Null /\ e \in 0 .. m
      /\ \A d \in 0 .. m : inner[d].child \in PageNo
      /\ \A c, d \in 0 .. m : inner[c].child = inner[d].child => c = d
  BY EntryFields DEF EntriesOK, Guides
<1>2. /\ leavesOf(leaf) = { inner[d].child : d \in 0 .. m }
      /\ leaf[p].parent = innerId
      /\ leaf[p].right = IF e = m THEN 0 ELSE inner[e + 1].child
  BY <1>1 DEF TreeOK, LinkedOK
<1>3. PICK sp : sp = getEmptyPage(space)
  OBVIOUS
<1>4. parentEntries(p) = inner /\ parentId(p) = innerId /\ spaceAfterSplit(p) = sp
  BY <1>2, <1>3, PageNumbers DEF parentEntries, parentId, spaceAfterSplit, isRoot
<1>5. PagesOK(leavesOf(leaf), {innerId}, filePages, headers) /\ tail \in 0 .. PageSize - 1
  BY <1>1 DEF Inv, innerPages
<1>6. /\ q \in PageNo /\ q \notin leavesOf(leaf) /\ IsSpace(sp)
      /\ \A K : K = leavesOf(leaf) \cup {q} => PagesOK(K, {innerId}, sp.pages, sp.headers)
  <2>1. PICK L : L = leavesOf(leaf)
    OBVIOUS
  <2>2. PagesOK(L, {innerId}, filePages, headers) 
        /\ \A r \in L : \E d \in 0 .. m : r = inner[d].child
    BY <1>2, <1>5, <2>1
  <2>3. PICK I : I = {innerId}
    OBVIOUS
  <2>4. Taken(L, I, space, getEmptyPageNo(space), getEmptyPage(space))
    BY <1>3, <1>4, <1>5, <2>2, <2>3, PageForChild
  <2> QED BY <1>3, <2>1, <2>3, <2>4 DEF Taken
<1>7. Guides(inner, m, sep, e)
  BY <1>1 DEF TreeOK, RangesOK, Guides
<1>8. \A d \in 0 .. m : inner[d].child # q
  BY <1>2, <1>6
<1>9. insertEntryAllowed(inner, sep, p, q) /\ Added(inner, m, e, sep, q, B)
  <2>1. B = insertEntry(inner, sep, inner[e].child, q)
    BY <1>4
  <2> QED BY <1>1, <1>6, <1>7, <1>8, <2>1, AddedEntry
<1>10. /\ leavesOf(leaf) \cup {q} = { B[d].child : d \in 0 .. m + 1 }
       /\ B[e] = inner[e] /\ B[e + 1].child = q /\ B[e + 1].key = sep
       /\ e # m => B[e + 2] = inner[e + 1]
  <2>1. SplitEntries(inner, m, e, sep, q, B)
    BY <1>1, <1>9, SplitChildren
  <2>2. leavesOf(leaf) \cup {q} = { B[d].child : d \in 0 .. m + 1 }
    BY <1>2, <2>1, Zenon DEF SplitEntries
  <2>3. e # m => e + 2 \in e + 2 .. m + 1 /\ (e + 2) - 1 = e + 1
    BY <1>1
  <2> QED BY <1>1, <2>1, <2>2, <2>3 DEF SplitEntries
<1>11. ASSUME NEW g, SplitInto(leaf, p, q, innerId, sep, g) PROVE TreeOK(g, B, m + 1, innerId)
  <2>1. 0 \notin { inner[d].child : d \in 0 .. m }
    BY <1>1, PageNumbers
  <2> QED BY <1>1, <1>6, <1>9, <1>11, <2>1, SplitTree
<1>12. leaf[p].right \in leavesOf(leaf) \cup {0} /\ leaf[p].right # p
  <2>1. CASE e = m
    BY <1>1, <1>2, <2>1, PageNumbers
  <2>2. CASE e # m
    <3>1. e + 1 \in 0 .. m /\ e + 1 # e
      BY <1>1, <2>2
    <3> QED BY <1>1, <1>2, <2>2, <3>1
  <2> QED BY <2>1, <2>2
<1>13. SplitPlan(p, q, sep, k, B, m, e, innerId, sp)
  <2>1. EntriesOK(B, m + 1)
    BY <1>9 DEF Added
  <2>2. (e # 0 => B[e].key <= k) /\ (e # m => k <= B[e + 2].key) /\ B[e].child = p
    BY <1>10 DEF Guides
  <2> QED BY <1>1, <1>6, <1>10, <1>11, <1>12, <2>1, <2>2 DEF SplitPlan
<1> QED BY <1>4, <1>9, <1>13

(* The tuple goes to the half that its key belongs to. *)
LEMMA HomeGuides ==
    ASSUME NEW p, NEW q, NEW sep \in Keys, NEW k \in Keys, NEW B, NEW m, NEW e, NEW id, NEW sp,
           SplitPlan(p, q, sep, k, B, m, e, id, sp), NEW home, home = splitHome(k, sep, p, q)
    PROVE  \E d \in 0 .. m + 1 : home = B[d].child /\ Guides(B, m + 1, k, d)
<1>1. /\ m \in Nat /\ e \in 0 .. m /\ B[e].child = p /\ B[e + 1].child = q /\ B[e + 1].key = sep
      /\ (e # 0 => B[e].key <= k) /\ (e # m => k <= B[e + 2].key)
  BY DEF SplitPlan
<1>2. k \in Int /\ sep \in Int
  BY BTreeConstants
<1>3. CASE k < sep
  <2>1. e \in 0 .. m + 1 /\ Guides(B, m + 1, k, e) /\ home = p
    BY <1>1, <1>2, <1>3 DEF Guides, splitHome
  <2> QED BY <1>1, <2>1
<1>4. CASE ~ (k < sep)
  <2>1. e + 1 \in 0 .. m + 1 /\ home = q /\ sep <= k /\ (e + 1) + 1 = e + 2 /\ (e + 1 # m + 1 => e # m)
    BY <1>1, <1>2, <1>4 DEF splitHome
  <2>2. Guides(B, m + 1, k, e + 1)
    BY <1>1, <2>1 DEF Guides
  <2> QED BY <1>1, <2>1, <2>2
<1> QED BY <1>3, <1>4

(* The split is carried out. *)
LEMMA SplitCarriedOut ==
    ASSUME Inv, ~ StoppedTree, NEW k \in Keys, NEW p \in leavesOf(leaf), NEW q,
           NEW sep, sep = splitKey(p), getNumEmptySlots(leaf[p].slots) = 0,
           NEW B, B = insertEntry(parentEntries(p), sep, p, q), NEW m, NEW e,
           SplitPlan(p, q, sep, k, B, m, e, parentId(p), spaceAfterSplit(p)),
           addRightPage(k, p, q, sep)
    PROVE  Inv' /\ Adds(leaf, leaf', k)
<1>1. PICK id : id = parentId(p)
  OBVIOUS
<1>2. PICK sp : sp = spaceAfterSplit(p)
  OBVIOUS
<1>3. SplitPlan(p, q, sep, k, B, m, e, id, sp)
  BY <1>1, <1>2
<1>4. PICK f : f = adopt(splitTuples(p, q), B, id)
  OBVIOUS
<1>5. PICK home : home = splitHome(k, sep, p, q)
  OBVIOUS
<1>6. /\ leaf' = [f EXCEPT ![home].slots = insertTuple(home, @, k)]
      /\ inner' = B /\ innerId' = id /\ root' = id
      /\ filePages' = sp.pages /\ tail' = sp.tail /\ headers' = sp.headers
      /\ asserts' = asserts /\ appends' = appends /\ outcome' = outcome
  BY <1>1, <1>2, <1>4, <1>5 DEF addRightPage, spaceBecomes
<1>7. LeavesOK(leaf) /\ LeafOK(p, leaf[p].slots) /\ getNumTuples(leaf[p].slots) = NumSlots
      /\ sep \in Keys
  <2>1. LeavesOK(leaf)
    BY DEF Inv
  <2>2. LeafOK(p, leaf[p].slots)
    BY <2>1, LeafFields
  <2> QED BY <2>1, <2>2, SplitKeyIsKey
<1>8. SplitInto(leaf, p, q, id, sep, f)
  <2>1. PICK S : S = topSlots(leaf[p].slots, splitCount(getNumTuples(leaf[p].slots)))
    OBVIOUS
  <2>4. sep = leaf[p].slots[lowest(S)].key
    BY <2>1 DEF splitKey
  <2>6. f = splitLeaves(leaf, p, q, S, B, id)
    BY <1>4, <2>1 DEF splitTuples, splitLeaves
  <2>7. /\ q \in PageNo /\ q \notin leavesOf(leaf)
        /\ leaf[p].right \in leavesOf(leaf) \cup {0} /\ leaf[p].right # p
        /\ EntriesOK(B, m + 1) /\ id \in PagePointer
        /\ HasChildren(leavesOf(leaf), q, B, m + 1)
    BY <1>3, PageNumbers DEF SplitPlan, HasChildren
  <2> QED BY <1>7, <2>1, <2>4, <2>6, <2>7, SplitTuples
<1>9. TreeOK(f, B, m + 1, id)
  BY <1>3, <1>8 DEF SplitPlan
<1>10. PICK d \in 0 .. m + 1 : home = B[d].child /\ Guides(B, m + 1, k, d)
  BY <1>3, <1>5, <1>7, HomeGuides
<1>11. /\ LeavesOK(f) /\ leavesOf(f) = leavesOf(leaf) \cup {q} /\ home \in {p, q}
       /\ home \in leavesOf(f) /\ getNumTuples(f[home].slots) < NumSlots
  <2>1. home \in {p, q}
    BY <1>5 DEF splitHome
  <2> QED BY <1>8, <2>1 DEF SplitInto
<1>12. Inserted(f, home, k, leaf')
  <2>1. LeafOK(home, f[home].slots)
    BY <1>11, LeafFields
  <2>2. emptySlots(f[home].slots) # {}
    BY <1>11, <2>1, LeafCounts
  <2> QED BY <1>6, <1>11, <2>2, InsertedTuple
<1>13. /\ m + 1 \in Nat /\ m + 1 \in 1 .. MaxEntries /\ EntriesOK(B, m + 1) /\ B # Null
       /\ \A c, a \in 0 .. m + 1 : B[c].child = B[a].child => c = a
  <2>1. EntriesOK(B, m + 1) /\ m \in Nat
    BY <1>3 DEF SplitPlan
  <2>2. B # Null
    BY <2>1, EntryFields
  <2> QED BY <2>1, <2>2 DEF EntriesOK
<1>14. TreeOK(leaf', B, m + 1, id)
  BY <1>9, <1>10, <1>11, <1>12, <1>13, InsertionKeepsTree
<1>15. InnerTree(leaf', inner', innerId', root')
  <2>1. id \in PageNo
    BY <1>3 DEF SplitPlan
  <2> QED BY <1>6, <1>13, <1>14, <2>1 DEF InnerTree
<1>16. LeavesOK(leaf') /\ leavesOf(leaf') = leavesOf(leaf) \cup {q}
  BY <1>11, <1>12 DEF Inserted
<1>17. PagesOK(leavesOf(leaf'), innerPages(inner', innerId'), filePages', headers')
  <2>1. innerPages(inner', innerId') = {id}
    BY <1>6, <1>13 DEF innerPages
  <2>2. PagesOK(leavesOf(leaf'), {id}, sp.pages, sp.headers)
    BY <1>3, <1>16 DEF SplitPlan
  <2> QED BY <1>6, <2>1, <2>2
<1>18. Adds(leaf, leaf', k)
  <2>1. SameCounts(leaf, f) /\ Adds(f, leaf', k)
    BY <1>8, <1>12 DEF SplitInto, Inserted
  <2> QED BY <2>1 DEF SameCounts, Adds
<1>19. tail' \in 0 .. PageSize - 1
  BY <1>3, <1>6 DEF SplitPlan, IsSpace
<1> QED BY <1>6, <1>15, <1>16, <1>17, <1>18, <1>19, InvPrime DEF Inv

(* The process stops, and the tree is as it was. *)
LEMMA StopStep ==
    ASSUME Inv, ~ StoppedTree, NEW why \in {"internal page full", "merge", "looping"}, stop(why)
    PROVE  Inv' /\ leaf' = leaf
<1>1. UNCHANGED <<leaf, inner, innerId, root, filePages, tail, headers, asserts, appends>> /\ outcome' = why
  BY DEF stop
<1>2. \/ NoTree(leaf', inner', innerId', root', filePages', headers')
      \/ LeafTree(leaf', inner', innerId', root')
      \/ InnerTree(leaf', inner', innerId', root')
  <2>1. \/ NoTree(leaf, inner, innerId, root, filePages, headers)
        \/ LeafTree(leaf, inner, innerId, root)
        \/ InnerTree(leaf, inner, innerId, root)
    BY RunningTree
  <2> QED BY <1>1, <2>1
<1>3. /\ LeavesOK(leaf')
      /\ PagesOK(leavesOf(leaf'), innerPages(inner', innerId'), filePages', headers')
      /\ asserts' \in BOOLEAN /\ appends' = appends /\ appends \in BOOLEAN
      /\ tail' \in 0 .. PageSize - 1
  BY <1>1 DEF Inv
<1> QED BY <1>1, <1>2, <1>3, InvPrime

(* A full leaf is split, unless its parent is full. *)
LEMMA InsertSplitStep ==
    ASSUME Inv, ~ StoppedTree, NEW k \in Keys, InsertSplit(k)
    PROVE  Inv' /\ (leaf' = leaf \/ Adds(leaf, leaf', k))
<1>1. PICK p : p = findLeafPage(k)
  OBVIOUS
<1>2. PICK q : q = getEmptyPageNo(space)
  OBVIOUS
<1>3. PICK sep : sep = splitKey(p)
  OBVIOUS
<1>4. /\ hasRoot /\ getNumEmptySlots(leaf[p].slots) = 0
      /\ \/ getNumEmptyEntries(parentEntries(p)) = 0 /\ stop("internal page full")
         \/ /\ getNumEmptyEntries(parentEntries(p)) > 0 /\ fits(spaceAfterSplit(p))
            /\ IF insertEntryAllowed(parentEntries(p), sep, p, q)
               THEN addRightPage(k, p, q, sep) ELSE stop("invalid entry")
  BY <1>1, <1>2, <1>3 DEF InsertSplit, splitInternalPage
<1>5. p \in leavesOf(leaf) /\ LeavesOK(leaf) /\ LeafOK(p, leaf[p].slots)
  BY <1>1, <1>4, FoundLeaf
<1>6. sep \in Keys /\ sep \in keysIn(leaf[p].slots) /\ getNumTuples(leaf[p].slots) = NumSlots
  BY <1>3, <1>4, <1>5, SplitKeyIsKey
<1>7. CASE getNumEmptyEntries(parentEntries(p)) = 0 /\ stop("internal page full")
  BY <1>7, StopStep
<1>8. CASE /\ getNumEmptyEntries(parentEntries(p)) > 0 /\ fits(spaceAfterSplit(p))
           /\ IF insertEntryAllowed(parentEntries(p), sep, p, q)
              THEN addRightPage(k, p, q, sep) ELSE stop("invalid entry")
  <2>0. getNumEmptyEntries(parentEntries(p)) > 0 /\ fits(spaceAfterSplit(p))
    BY <1>8
  <2>1. PICK B : B = insertEntry(parentEntries(p), sep, p, q)
    OBVIOUS
  <2>2. /\ insertEntryAllowed(parentEntries(p), sep, p, q)
        /\ \E m, e : SplitPlan(p, q, sep, k, B, m, e, parentId(p), spaceAfterSplit(p))
    <3>1. CASE LeafTree(leaf, inner, innerId, root) /\ p = root
      BY <1>2, <1>6, <2>0, <2>1, <3>1, PlanForRoot
    <3>2. CASE /\ innerId \in PageNo /\ root = innerId
               /\ \E m \in 1 .. MaxEntries : \E e \in 0 .. m :
                    /\ EntriesOK(inner, m) /\ TreeOK(leaf, inner, m, innerId)
                    /\ p = inner[e].child /\ Guides(inner, m, k, e)
      <4>1. PICK m \in 1 .. MaxEntries : \E e \in 0 .. m :
                    /\ EntriesOK(inner, m) /\ TreeOK(leaf, inner, m, innerId)
                    /\ p = inner[e].child /\ Guides(inner, m, k, e)
        BY <3>2
      <4>2. PICK e \in 0 .. m :
                    /\ EntriesOK(inner, m) /\ TreeOK(leaf, inner, m, innerId)
                    /\ p = inner[e].child /\ Guides(inner, m, k, e)
        BY <4>1
      <4>3. m < MaxEntries
        <5>1. leaf[p].parent = innerId /\ innerId # 0
          BY <3>2, <4>2, PageNumbers DEF TreeOK, LinkedOK
        <5>2. parentEntries(p) = inner
          BY <5>1 DEF parentEntries, isRoot
        <5>3. getNumEmptyEntries(inner) = MaxEntries - m /\ m \in Nat /\ MaxEntries \in Nat
          BY <4>2, EntryRoom, EntryFields
        <5> QED BY <2>0, <5>2, <5>3
      <4>4. /\ insertEntryAllowed(parentEntries(p), sep, p, q)
            /\ SplitPlan(p, q, sep, k, B, m, e, parentId(p), spaceAfterSplit(p))
        BY <1>2, <1>6, <2>0, <2>1, <3>2, <4>2, <4>3, PlanForChild
      <4> QED BY <4>4
    <3>3. \/ LeafTree(leaf, inner, innerId, root) /\ p = root
          \/ /\ innerId \in PageNo /\ root = innerId
             /\ \E m \in 1 .. MaxEntries : \E e \in 0 .. m :
                  /\ EntriesOK(inner, m) /\ TreeOK(leaf, inner, m, innerId)
                  /\ p = inner[e].child /\ Guides(inner, m, k, e)
      <4>1. hasRoot
        BY <1>4
      <4> HIDE <1>4, <1>8
      <4> QED BY <1>1, <4>1, FoundLeaf
    <3> QED BY <3>1, <3>2, <3>3
  <2>3. PICK m, e : SplitPlan(p, q, sep, k, B, m, e, parentId(p), spaceAfterSplit(p))
    BY <2>2
  <2>4. addRightPage(k, p, q, sep)
    BY <1>8, <2>2
  <2>5. Inv' /\ Adds(leaf, leaf', k)
    BY <1>3, <1>4, <1>5, <2>1, <2>3, <2>4, SplitCarriedOut
  <2> QED BY <2>5
<1> QED BY <1>4, <1>7, <1>8

(* The tuple in slot s of leaf p is deleted. *)
Deleted(f, p, s, g) ==
    /\ LeavesOK(g) /\ leavesOf(g) = leavesOf(f)
    /\ \A r \in PageNo \ {p} : g[r] = f[r]
    /\ g[p].parent = f[p].parent /\ g[p].left = f[p].left /\ g[p].right = f[p].right
    /\ keysIn(g[p].slots) \subseteq keysIn(f[p].slots)
    /\ getNumTuples(g[p].slots) = getNumTuples(f[p].slots) - 1
    /\ \E k \in Keys : Loses(f, g, k)

(* deleteTuple takes the tuple in slot s out of leaf p. *)
LEMMA DeletedTuple ==
    ASSUME NEW f, LeavesOK(f), NEW p \in leavesOf(f), NEW s \in used(f[p].slots),
           NEW g, g = [f EXCEPT ![p].slots = deleteTuple(@, s)]
    PROVE  Deleted(f, p, s, g)
<1>1. PICK a : a = f[p].slots
  OBVIOUS
<1>2. PICK b : b = cleared(a, {s})
  OBVIOUS
<1>3. p \in PageNo /\ LeafOK(p, a) /\ a \in [Slot -> Record \cup {Null}] /\ s \in used(a) /\ s \in Slot
  <2>1. LeafOK(p, a) /\ p \in PageNo /\ a \in [Slot -> Record \cup {Null}]
    BY <1>1, LeafFields
  <2>2. used(a) \subseteq Slot
    BY <2>1, LeafSlots
  <2> QED BY <1>1, <2>1, <2>2
<1>4. deleteTuple(a, s) = b
  BY <1>2, <1>3 DEF deleteTuple, cleared
<1>5. g = withSlots(f, p, b)
  <2>1. g = [f EXCEPT ![p].slots = deleteTuple(a, s)]
    BY <1>1, <1>3, LeafFields DEF LeavesOK
  <2> QED BY <1>4, <2>1 DEF withSlots
<1>6. /\ LeafOK(p, b) /\ used(b) = used(a) \ {s}
      /\ \A t \in used(b) : b[t] = a[t]
  BY <1>2, <1>3, ClearedOK
<1>7. /\ LeavesOK(g) /\ leavesOf(g) = leavesOf(f) /\ g[p].slots = b
      /\ g[p].parent = f[p].parent /\ g[p].left = f[p].left /\ g[p].right = f[p].right
      /\ \A r \in PageNo \ {p} : g[r] = f[r]
  <2>1. LeafOK(p, b)
    BY <1>6
  <2>2. PICK h : h = withSlots(f, p, b)
    OBVIOUS
  <2>3. /\ LeavesOK(h) /\ leavesOf(h) = leavesOf(f) /\ h[p].slots = b
        /\ h[p].parent = f[p].parent /\ h[p].left = f[p].left /\ h[p].right = f[p].right
        /\ \A r \in PageNo \ {p} : h[r] = f[r]
    BY <2>1, <2>2, ChangedSlots
  <2>4. h = g
    BY <1>5, <2>2
  <2> QED BY <2>3, <2>4, Zenon
<1>8. keysIn(b) \subseteq keysIn(a)
  BY <1>6 DEF keysIn
<1>9. getNumTuples(b) = getNumTuples(a) - 1
  <2>1. IsFiniteSet(used(a)) /\ s \in used(a)
    BY <1>3, LeafCounts
  <2>2. Cardinality(used(a) \ {s}) = Cardinality(used(a)) - 1
    BY <2>1, FS_RemoveElement
  <2> QED BY <1>6, <2>2 DEF getNumTuples
<1>10. PICK k : k = a[s].key
  OBVIOUS
<1>11. k \in Keys
  BY <1>3, <1>10, LeafSlots
<1>12. ASSUME NEW j
       PROVE  /\ keyCount(b, j) = keyCount(a, j) - IF j = k THEN 1 ELSE 0
              /\ keyCount(a, k) > 0 /\ keyCount(a, j) \in Nat
  <2>1. keySlots(b, j) = IF j = k THEN keySlots(a, j) \ {s} ELSE keySlots(a, j)
    BY <1>6, <1>10 DEF keySlots
  <2>2. s \in keySlots(a, k)
    BY <1>3, <1>10 DEF keySlots
  <2>3. /\ IsFiniteSet(keySlots(a, k)) /\ keyCount(a, k) \in Nat
        /\ IsFiniteSet(keySlots(b, k)) /\ keyCount(b, k) \in Nat
        /\ keyCount(a, j) \in Nat
    BY <1>3, <1>6, KeyCounts
  <2>4. Cardinality(keySlots(a, k) \ {s}) = Cardinality(keySlots(a, k)) - 1
    BY <2>2, <2>3, FS_RemoveElement
  <2>5. keyCount(a, k) > 0
    <3>1. Cardinality(keySlots(a, k)) = 0 <=> keySlots(a, k) = {}
      BY <2>3, FS_EmptySet
    <3> QED BY <2>2, <2>3, <3>1 DEF keyCount
  <2>6. CASE j = k
    <3>1. keyCount(b, k) = keyCount(a, k) - 1
      BY <2>1, <2>4, <2>6 DEF keyCount
    <3> QED BY <2>3, <2>5, <2>6, <3>1
  <2>7. CASE j # k
    <3>1. keyCount(b, j) = keyCount(a, j)
      BY <2>1, <2>7 DEF keyCount
    <3> QED BY <2>3, <2>5, <2>7, <3>1
  <2> QED BY <2>6, <2>7
<1>13. Loses(f, g, k)
  <2>1. \A r \in leavesOf(f) \ {p} : g[r].slots = f[r].slots
    BY <1>7 DEF leavesOf
  <2>2. ASSUME NEW j
        PROVE  /\ count(g, j) = IF j = k THEN count(f, j) - 1 ELSE count(f, j)
               /\ j = k => count(f, j) > 0
    <3>1. PICK c \in Nat : CountsAlone(f, p, j, c) /\ CountsAlone(g, p, j, c)
      BY <1>7, <2>1, OneLeafCounts
    <3> QED BY <1>1, <1>7, <1>12, <3>1 DEF CountsAlone
  <2> QED BY <2>2 DEF Loses
<1> QED BY <1>1, <1>7, <1>8, <1>9, <1>11, <1>13 DEF Deleted

(* The links and the ranges are right, and only child e can be less than   *)
(* half full, by one tuple.                                                *)
OneShort(f, E, m, id, e) ==
    /\ LinkedOK(f, E, m, id) /\ RangesOK(f, E, m)
    /\ \A d \in 0 .. m : d # e => getNumTuples(f[E[d].child].slots) >= NumSlots \div 2
    /\ getNumTuples(f[E[e].child].slots) >= (NumSlots \div 2) - 1

(* A deletion leaves the tree so. *)
LEMMA DeletionKeepsLinks ==
    ASSUME NEW f, LeavesOK(f), NEW m \in Nat, NEW E, NEW id, TreeOK(f, E, m, id),
           \A c, d \in 0 .. m : E[c].child = E[d].child => c = d,
           NEW e \in 0 .. m, NEW p, p = E[e].child, NEW s, NEW g, Deleted(f, p, s, g)
    PROVE  OneShort(g, E, m, id, e)
<1>1. /\ LinkedOK(f, E, m, id) /\ RangesOK(f, E, m) /\ FilledOK(f, E, m)
  BY DEF TreeOK
<1>2. leavesOf(g) = leavesOf(f) /\ leavesOf(f) = { E[d].child : d \in 0 .. m }
  BY <1>1, Zenon DEF Deleted, LinkedOK
<1>3. \A d \in 0 .. m : E[d].child \in PageNo
  BY <1>2 DEF leavesOf
<1>4. ASSUME NEW d \in 0 .. m
      PROVE  /\ g[E[d].child].parent = f[E[d].child].parent
             /\ g[E[d].child].left = f[E[d].child].left
             /\ g[E[d].child].right = f[E[d].child].right
             /\ keysIn(g[E[d].child].slots) \subseteq keysIn(f[E[d].child].slots)
             /\ d # e => g[E[d].child] = f[E[d].child]
  <2>1. CASE d = e
    BY <2>1 DEF Deleted
  <2>2. CASE d # e
    BY <1>3, <2>2 DEF Deleted
  <2> QED BY <2>1, <2>2
<1>5. LinkedOK(g, E, m, id)
  BY <1>1, <1>2, <1>4 DEF LinkedOK
<1>6. RangesOK(g, E, m)
  BY <1>1, <1>4 DEF RangesOK
<1>7. \A d \in 0 .. m : d # e => getNumTuples(g[E[d].child].slots) >= NumSlots \div 2
  <2> SUFFICES ASSUME NEW d \in 0 .. m, d # e
               PROVE  getNumTuples(g[E[d].child].slots) >= NumSlots \div 2
    OBVIOUS
  <2>1. g[E[d].child] = f[E[d].child]
    BY <1>4
  <2>2. getNumTuples(f[E[d].child].slots) >= NumSlots \div 2
    BY <1>1 DEF FilledOK
  <2> QED BY <2>1, <2>2
<1>8. getNumTuples(g[p].slots) >= (NumSlots \div 2) - 1
  <2>1. getNumTuples(f[p].slots) >= NumSlots \div 2
    BY <1>1 DEF FilledOK
  <2>2. getNumTuples(g[p].slots) = getNumTuples(f[p].slots) - 1
    BY DEF Deleted
  <2>3. LeafOK(p, f[p].slots)
    BY <1>2, LeafFields
  <2>4. getNumTuples(f[p].slots) \in Nat
    BY <2>3, LeafCounts
  <2> QED BY <2>1, <2>2, <2>4, BTreeConstants
<1> QED BY <1>5, <1>6, <1>7, <1>8 DEF OneShort

(* deleteTuple clears the slot the client found the tuple in. *)
LEMMA DeletionSlot ==
    ASSUME Inv, NEW p \in PageNo, NEW s \in Slot, DeleteTuple(p, s)
    PROVE  /\ p \in leavesOf(leaf)
           /\ \E f : /\ Deleted(leaf, p, s, f)
                     /\ \/ /\ ~ isRoot(p)
                           /\ getNumEmptySlots(f[p].slots) > maxEmptySlots
                           /\ HandleMinOccupancy(f, p)
                        \/ /\ isRoot(p) \/ getNumEmptySlots(f[p].slots) <= maxEmptySlots
                           /\ leavesBecome(f)
<1>1. leaf[p] # Null /\ leaf[p].slots[s] # Null
  BY DEF DeleteTuple
<1>2. p \in leavesOf(leaf) /\ LeavesOK(leaf)
  BY <1>1 DEF leavesOf, Inv
<1>3. LeafOK(p, leaf[p].slots) /\ s \in used(leaf[p].slots)
  <2>1. LeafOK(p, leaf[p].slots)
    BY <1>2, LeafFields
  <2>2. DOMAIN leaf[p].slots = Slot
    BY <2>1, LeafSlots
  <2> QED BY <1>1, <2>1, <2>2 DEF used
<1>4. leaf[p].slots[s].page = p /\ leaf[p].slots[s].slot = s
  BY <1>3, LeafSlots
<1>5. PICK f : f = [leaf EXCEPT ![p].slots = deleteTuple(@, s)]
  OBVIOUS
<1>6. Deleted(leaf, p, s, f)
  BY <1>2, <1>3, <1>5, DeletedTuple
<1>7. \/ /\ ~ isRoot(p)
         /\ getNumEmptySlots(f[p].slots) > maxEmptySlots
         /\ HandleMinOccupancy(f, p)
      \/ /\ isRoot(p) \/ getNumEmptySlots(f[p].slots) <= maxEmptySlots
         /\ leavesBecome(f)
  BY <1>1, <1>4, <1>5, Zenon DEF DeleteTuple
<1> QED BY <1>2, <1>6, <1>7

(* A page is less than half full if it has too many empty slots. *)
LEMMA HalfFull ==
    ASSUME NEW p, NEW a, LeafOK(p, a)
    PROVE  /\ getNumEmptySlots(a) > maxEmptySlots <=> getNumTuples(a) < NumSlots \div 2
           /\ getNumEmptySlots(a) <= maxEmptySlots <=> getNumTuples(a) >= NumSlots \div 2
           /\ getNumEmptySlots(a) >= maxEmptySlots <=> getNumTuples(a) <= NumSlots \div 2
           /\ getNumEmptySlots(a) < maxEmptySlots <=> getNumTuples(a) > NumSlots \div 2
<1>1. getNumEmptySlots(a) = NumSlots - getNumTuples(a) /\ getNumTuples(a) \in Nat
  BY LeafCounts
<1> QED BY <1>1, BTreeConstants DEF maxEmptySlots

(* A tuple is deleted from a leaf that stays at least half full, or from   *)
(* the root.                                                               *)
LEMMA DeletionStep ==
    ASSUME Inv, ~ StoppedTree, NEW p \in leavesOf(leaf), NEW s, NEW f, Deleted(leaf, p, s, f),
           isRoot(p) \/ getNumEmptySlots(f[p].slots) <= maxEmptySlots,
           leaf' = f, UNCHANGED <<inner, innerId, root, filePages, tail, headers, asserts, appends, outcome>>
    PROVE  Inv'
<1>1. LeavesOK(leaf') /\ leavesOf(leaf') = leavesOf(leaf) /\ LeavesOK(leaf) /\ p \in PageNo
  BY DEF Deleted, Inv, leavesOf
<1>2. PagesOK(leavesOf(leaf'), innerPages(inner', innerId'), filePages', headers')
  BY <1>1 DEF Inv
<1>3. hasRoot
  <2>1. NoTree(leaf, inner, innerId, root, filePages, headers) => leaf[p] = Null
    BY <1>1 DEF NoTree
  <2>2. leaf[p] # Null
    BY DEF leavesOf
  <2> QED BY <2>1, <2>2, RunningTree
<1>4. \/ LeafTree(leaf', inner', innerId', root') \/ InnerTree(leaf', inner', innerId', root')
  <2>1. CASE LeafTree(leaf, inner, innerId, root)
    <3>1. p = root
      BY <2>1 DEF LeafTree
    <3>2. leaf'[p].parent = leaf[p].parent /\ leaf'[p].left = leaf[p].left
          /\ leaf'[p].right = leaf[p].right
      BY DEF Deleted
    <3> QED BY <1>1, <2>1, <3>1, <3>2 DEF LeafTree
  <2>2. CASE InnerTree(leaf, inner, innerId, root)
    <3>1. PICK m \in 1 .. MaxEntries : EntriesOK(inner, m) /\ TreeOK(leaf, inner, m, innerId)
      BY <2>2 DEF InnerTree
    <3>2. m \in Nat /\ \A c, d \in 0 .. m : inner[c].child = inner[d].child => c = d
      BY <3>1, BTreeConstants DEF EntriesOK
    <3>3. innerId \in PageNo /\ root = innerId
      BY <2>2 DEF InnerTree
    <3>4. PICK e \in 0 .. m : p = inner[e].child
      BY <3>1 DEF TreeOK, LinkedOK
    <3>5. ~ isRoot(p)
      BY <3>1, <3>3, <3>4, PageNumbers DEF TreeOK, LinkedOK, isRoot
    <3>6. getNumTuples(f[p].slots) >= NumSlots \div 2
      <4>1. LeafOK(p, f[p].slots)
        BY <1>1, LeafFields DEF Deleted
      <4>2. getNumEmptySlots(f[p].slots) <= maxEmptySlots
        BY <3>5
      <4> QED BY <4>1, <4>2, HalfFull
    <3>7. /\ LinkedOK(f, inner, m, innerId) /\ RangesOK(f, inner, m)
          /\ \A d \in 0 .. m : d # e => getNumTuples(f[inner[d].child].slots) >= NumSlots \div 2
      <4>1. OneShort(f, inner, m, innerId, e)
        BY <1>1, <3>1, <3>2, <3>4, DeletionKeepsLinks
      <4> QED BY <4>1 DEF OneShort
    <3>8. FilledOK(f, inner, m)
      <4> SUFFICES ASSUME NEW d \in 0 .. m
                   PROVE  getNumTuples(f[inner[d].child].slots) >= NumSlots \div 2
        BY DEF FilledOK
      <4>1. CASE d = e
        BY <3>4, <3>6, <4>1
      <4>2. CASE d # e
        BY <3>7, <4>2
      <4> QED BY <4>1, <4>2
    <3>9. TreeOK(f, inner, m, innerId)
      BY <3>7, <3>8 DEF TreeOK
    <3> QED BY <3>1, <3>3, <3>9 DEF InnerTree
  <2> QED BY <1>3, <2>1, <2>2, RunningTree
<1> QED BY <1>1, <1>2, <1>4, InvPrime DEF Inv

(* The n lowest tuples S of the slots a are stolen; sep is the lowest key  *)
(* that stays.  np tuples are in the page that gets them.                  *)
Stolen(np, a, n, S, sep) ==
    /\ n \in Nat /\ n > 0 /\ n < getNumTuples(a) /\ np \in Nat /\ getNumTuples(a) \in Nat
    /\ np + n >= NumSlots \div 2 /\ getNumTuples(a) - n >= NumSlots \div 2 /\ np + n <= NumSlots
    /\ S \subseteq used(a) /\ S \subseteq Int /\ IsFiniteSet(S) /\ Cardinality(S) = n
    /\ sep \in Keys /\ sep \in keysIn(a)
    /\ \A s \in S : a[s].key <= sep
    /\ \A s \in used(a) \ S : sep <= a[s].key

(* A steal leaves both leaves half full, and the new key separates them. *)
LEMMA StealFacts ==
    ASSUME NEW q, NEW a, LeafOK(q, a), NEW np \in Nat,
           np < NumSlots \div 2, np >= (NumSlots \div 2) - 1,
           getNumTuples(a) > NumSlots \div 2,
           NEW n, n = (getNumTuples(a) - np) \div 2,
           NEW S, S = bottomSlots(a, n),
           NEW sep, sep = a[lowest(used(a) \ S)].key
    PROVE  Stolen(np, a, n, S, sep)
<1>1. getNumTuples(a) \in Nat /\ getNumTuples(a) <= NumSlots /\ IsFiniteSet(used(a))
  BY LeafCounts
<1>2. PICK na \in Nat : na = getNumTuples(a)
  BY <1>1
<1>3. PICK h \in Nat : h = NumSlots \div 2 /\ 2 * h <= NumSlots
  BY BTreeConstants
<1>4. n \in Nat /\ 2 * n <= na - np /\ na - np <= 2 * n + 1
  BY <1>2, <1>3
<1>5. n > 0 /\ n < na /\ np + n >= h /\ na - n >= h /\ np + n <= NumSlots /\ NumSlots \in Nat
  BY <1>1, <1>2, <1>3, <1>4, BTreeConstants
<1>6. /\ S \subseteq used(a) /\ Cardinality(S) = n
      /\ \A s \in S, t \in used(a) \ S : s < t
  <2>1. n \in 0 .. getNumTuples(a)
    BY <1>2, <1>4, <1>5
  <2> QED BY <2>1, BottomSlots
<1>7. used(a) \subseteq Slot /\ Slot \subseteq Nat /\ (\A s \in used(a) : a[s].key \in Keys)
  BY LeafSlots
<1>8. IsFiniteSet(S) /\ S \subseteq Int
  <2>1. S \in SUBSET used(a)
    BY <1>6
  <2>2. IsFiniteSet(S)
    BY <1>1, <2>1, FS_Subset
  <2>3. S \subseteq Nat
    BY <1>7, <2>1
  <2> QED BY <2>2, <2>3
<1>9. PICK R : R = used(a) \ S
  OBVIOUS
<1>10. R # {}
  <2>1. S # used(a)
    BY <1>2, <1>5, <1>6 DEF getNumTuples
  <2> QED BY <1>6, <1>9, <2>1
<1>11. lowest(R) \in R /\ \A y \in R : lowest(R) <= y
  BY <1>7, <1>9, <1>10, LeastElement
<1>12. sep \in Keys /\ sep \in keysIn(a)
  BY <1>7, <1>9, <1>11 DEF keysIn
<1>13. \A r, s \in used(a) : r < s => a[r].key <= a[s].key
  BY DEF LeafOK
<1>14. \A s \in S : a[s].key <= sep
  BY <1>6, <1>9, <1>11, <1>13
<1>15. \A s \in used(a) \ S : sep <= a[s].key
  <2> SUFFICES ASSUME NEW s \in R PROVE sep <= a[s].key
    BY <1>9
  <2>1. s \in used(a) /\ lowest(R) \in used(a) /\ lowest(R) <= s
    BY <1>9, <1>11
  <2>2. PICK r : r = lowest(R)
    OBVIOUS
  <2>3. r \in Int /\ s \in Int /\ a[s].key \in Int /\ r \in used(a) /\ r <= s /\ sep = a[r].key
    <3>1. r \in used(a) /\ r <= s
      BY <2>1, <2>2
    <3>2. sep = a[r].key
      BY <1>9, <2>2, Zenon
    <3>3. \A t \in used(a) : t \in Int /\ a[t].key \in Int
      <4> TAKE t \in used(a)
      <4>1. a[t].key \in Int
        BY LeafSlots
      <4>2. t \in Nat
        BY <1>7
      <4> QED BY <4>1, <4>2
    <3> QED BY <2>1, <3>1, <3>2, <3>3
  <2>4. CASE s = r
    BY <2>3, <2>4
  <2>5. CASE r < s
    BY <1>13, <2>1, <2>3, <2>5
  <2> QED BY <2>3, <2>4, <2>5
<1> QED BY <1>2, <1>3, <1>4, <1>5, <1>6, <1>8, <1>12, <1>14, <1>15 DEF Stolen

(* The key of the first entry changes. *)
Updated(E, m, sep, B) ==
    /\ EntriesOK(B, m) /\ B # Null
    /\ \A d \in 0 .. m : d # 1 => B[d] = E[d]
    /\ B[1].child = E[1].child /\ B[1].key = sep

(* Writing a key to the first entry changes nothing else. *)
LEMMA UpdatedEntry ==
    ASSUME NEW E, NEW m, EntriesOK(E, m), NEW sep \in Keys,
           NEW B, B = [E EXCEPT ![1] = link(sep, E[1].child)]
    PROVE  Updated(E, m, sep, B)
<1>1. /\ m \in Nat /\ m >= 1 /\ DOMAIN E = Entry /\ 0 .. m \subseteq Entry
      /\ \A e \in 0 .. m : E[e] # Null /\ E[e].child \in PageNo
  BY EntryFields
<1>2. PICK x : x = link(sep, E[1].child)
  OBVIOUS
<1>3. x \in InnerEntry /\ x.child = E[1].child /\ x.key = sep
  BY <1>1, <1>2 DEF link, InnerEntry
<1>4. x # Null
  BY <1>3, NullIsNone
<1>5. 1 \in 0 .. m /\ 1 \in Entry
  BY <1>1
<1>6. E \in [Entry -> InnerEntry \cup {Null}] /\ B = [E EXCEPT ![1] = x]
  BY <1>2 DEF EntriesOK
<1>7. B \in [Entry -> InnerEntry \cup {Null}] /\ B[1] = x /\ \A d \in Entry : d # 1 => B[d] = E[d]
  BY <1>3, <1>5, <1>6
<1>8. used(B) = 0 .. m
  <2>1. used(E) = 0 .. m
    BY DEF EntriesOK
  <2> QED BY <1>1, <1>4, <1>5, <1>7, <2>1 DEF used
<1>9. \A d \in 0 .. m : B[d].child = E[d].child /\ (d # 1 => B[d] = E[d])
  BY <1>1, <1>3, <1>7
<1>10. EntriesOK(B, m)
  <2>1. \A e \in 1 .. m : B[e].key \in Keys
    <3>1. \A e \in 1 .. m : e \in 0 .. m /\ E[e].key \in Keys
      BY <1>1 DEF EntriesOK
    <3> QED BY <1>3, <1>7, <1>9, <3>1
  <2>2. \A d, e \in 0 .. m : B[d].child = B[e].child => d = e
    BY <1>9 DEF EntriesOK
  <2> QED BY <1>7, <1>8, <2>1, <2>2 DEF EntriesOK
<1> QED BY <1>3, <1>7, <1>9, <1>10, EntryFields DEF Updated

(* What a steal leaves of the links, the ranges and the counts. *)
LEMMA StolenTree ==
    ASSUME NEW f, LeavesOK(f), NEW E, NEW m, EntriesOK(E, m), NEW id, OneShort(f, E, m, id, 0),
           NEW p, p = E[0].child, NEW q, q = E[1].child, NEW n, NEW S, NEW sep,
           Stolen(getNumTuples(f[p].slots), f[q].slots, n, S, sep),
           NEW g, Moved(f, q, p, S, g), NEW B, Updated(E, m, sep, B)
    PROVE  TreeOK(g, B, m, id)
<1>1. /\ m \in Nat /\ m >= 1 /\ 0 \in 0 .. m /\ 1 \in 0 .. m
      /\ \A c, d \in 0 .. m : E[c].child = E[d].child => c = d
      /\ \A e \in 0 .. m : E[e].child \in PageNo
      /\ \A e \in 1 .. m : E[e].key \in Int
  <2>1. m \in Nat /\ m >= 1 /\ (\A e \in 0 .. m : E[e].child \in PageNo)
        /\ \A e \in 1 .. m : E[e].key \in Int
    BY EntryFields
  <2> QED BY <2>1 DEF EntriesOK
<1>2. /\ LinkedOK(f, E, m, id) /\ RangesOK(f, E, m)
      /\ \A d \in 0 .. m : d # 0 => getNumTuples(f[E[d].child].slots) >= NumSlots \div 2
  BY DEF OneShort
<1>3. \A d \in 0 .. m : B[d].child = E[d].child
  BY DEF Updated
<1>4. \A r \in PageNo : g[r].parent = f[r].parent /\ g[r].left = f[r].left /\ g[r].right = f[r].right
  BY DEF Moved
<1>5. \A d \in 0 .. m : d # 0 /\ d # 1 => g[E[d].child] = f[E[d].child]
  BY <1>1 DEF Moved
<1>6. LinkedOK(g, B, m, id)
  <2>1. leavesOf(g) = { B[d].child : d \in 0 .. m }
    <3>1. leavesOf(g) = { E[d].child : d \in 0 .. m }
      BY <1>2, Zenon DEF Moved, LinkedOK
    <3> QED BY <1>3, <3>1
  <2>2. ASSUME NEW d \in 0 .. m
        PROVE  /\ g[B[d].child].parent = id
               /\ g[B[d].child].left = IF d = 0 THEN 0 ELSE B[d - 1].child
               /\ g[B[d].child].right = IF d = m THEN 0 ELSE B[d + 1].child
    <3>1. /\ f[E[d].child].parent = id
          /\ f[E[d].child].left = IF d = 0 THEN 0 ELSE E[d - 1].child
          /\ f[E[d].child].right = IF d = m THEN 0 ELSE E[d + 1].child
      BY <1>2 DEF LinkedOK
    <3>2. (d # 0 => d - 1 \in 0 .. m) /\ (d # m => d + 1 \in 0 .. m)
      BY <1>1
    <3> QED BY <1>1, <1>3, <1>4, <3>1, <3>2
  <2> QED BY <2>1, <2>2 DEF LinkedOK
<1>7. /\ \A k \in keysIn(f[p].slots) : k <= E[1].key
      /\ \A k \in keysIn(f[q].slots) : E[1].key <= k /\ (1 # m => k <= E[2].key)
  BY <1>1, <1>2 DEF RangesOK
<1>8. /\ sep \in Int /\ E[1].key <= sep /\ (1 # m => sep <= E[2].key)
  BY <1>7, BTreeConstants DEF Stolen
<1>9. LeafOK(p, f[p].slots) /\ LeafOK(q, f[q].slots) /\ p \in leavesOf(f) /\ q \in leavesOf(f)
  <2>1. p \in leavesOf(f) /\ q \in leavesOf(f)
    BY <1>1, <1>2 DEF LinkedOK
  <2> QED BY <2>1, LeafFields
<1>10. \A k \in keysIn(f[p].slots) : k \in Int
  BY <1>9, LeafSlots DEF keysIn
<1>11. \A k \in keysIn(g[p].slots) : k <= sep
  <2>1. keysIn(g[p].slots) = keysIn(f[p].slots) \cup { f[q].slots[s].key : s \in S }
    BY DEF Moved
  <2>2. \A s \in S : f[q].slots[s].key <= sep
    BY DEF Stolen
  <2> QED BY <1>1, <1>7, <1>8, <1>10, <2>1, <2>2
<1>12. \A k \in keysIn(g[q].slots) : sep <= k /\ k \in keysIn(f[q].slots)
  <2>1. used(g[q].slots) = used(f[q].slots) \ S
        /\ \A s \in used(g[q].slots) : g[q].slots[s] = f[q].slots[s]
    BY DEF Moved
  <2>2. \A s \in used(f[q].slots) \ S : sep <= f[q].slots[s].key
    BY DEF Stolen
  <2> QED BY <2>1, <2>2 DEF keysIn
<1>13. RangesOK(g, B, m)
  <2> SUFFICES ASSUME NEW d \in 0 .. m, NEW k \in keysIn(g[B[d].child].slots)
               PROVE  (d # 0 => B[d].key <= k) /\ (d # m => k <= B[d + 1].key)
    BY DEF RangesOK
  <2>1. B[1].key = sep /\ \A c \in 0 .. m : c # 1 => B[c] = E[c]
    BY DEF Updated
  <2>2. CASE d = 0
    BY <1>1, <1>3, <1>11, <2>1, <2>2
  <2>3. CASE d = 1
    <3>1. k \in keysIn(g[q].slots)
      BY <1>3, <2>3
    <3>2. d # m => B[d + 1].key = E[2].key
      BY <1>1, <2>1, <2>3
    <3> QED BY <1>7, <1>12, <2>1, <2>3, <3>1, <3>2
  <2>4. CASE d # 0 /\ d # 1
    <3>1. k \in keysIn(f[E[d].child].slots)
      BY <1>3, <1>5, <2>4
    <3>2. (d # 0 => E[d].key <= k) /\ (d # m => k <= E[d + 1].key)
      BY <1>2, <3>1 DEF RangesOK
    <3>3. B[d] = E[d] /\ (d # m => B[d + 1] = E[d + 1])
      BY <1>1, <2>1, <2>4
    <3> QED BY <3>2, <3>3
  <2> QED BY <2>2, <2>3, <2>4
<1>14. FilledOK(g, B, m)
  <2> SUFFICES ASSUME NEW d \in 0 .. m
               PROVE  getNumTuples(g[B[d].child].slots) >= NumSlots \div 2
    BY DEF FilledOK
  <2>1. /\ getNumTuples(g[q].slots) = getNumTuples(f[q].slots) - n
        /\ getNumTuples(g[p].slots) = getNumTuples(f[p].slots) + n
    BY DEF Moved, Stolen
  <2>2. /\ getNumTuples(f[p].slots) + n >= NumSlots \div 2
        /\ getNumTuples(f[q].slots) - n >= NumSlots \div 2
    BY DEF Stolen
  <2>3. CASE d = 0
    BY <1>3, <2>1, <2>2, <2>3
  <2>4. CASE d = 1
    BY <1>3, <2>1, <2>2, <2>4
  <2>5. CASE d # 0 /\ d # 1
    BY <1>2, <1>3, <1>5, <2>5
  <2> QED BY <2>3, <2>4, <2>5
<1> QED BY <1>6, <1>13, <1>14 DEF TreeOK

(* The first two children, of which the first is one tuple short. *)
FirstShort(f, m, p, q) ==
    /\ innerId \in PageNo /\ root = innerId /\ m \in 1 .. MaxEntries /\ EntriesOK(inner, m)
    /\ LeavesOK(f) /\ leavesOf(f) = leavesOf(leaf) /\ OneShort(f, inner, m, innerId, 0)
    /\ p = inner[0].child /\ q = inner[1].child
    /\ getNumTuples(f[p].slots) < NumSlots \div 2

(* What is known of the first two children. *)
LEMMA FirstTwo ==
    ASSUME NEW f, NEW m, NEW p, NEW q, FirstShort(f, m, p, q)
    PROVE  /\ m \in Nat /\ m >= 1 /\ p \in leavesOf(f) /\ q \in leavesOf(f) /\ p # q
           /\ p \in PageNo /\ q \in PageNo /\ LeafOK(p, f[p].slots) /\ LeafOK(q, f[q].slots)
           /\ getNumTuples(f[p].slots) \in Nat /\ getNumTuples(f[q].slots) \in Nat
           /\ getNumTuples(f[p].slots) >= (NumSlots \div 2) - 1
           /\ getNumTuples(f[q].slots) >= NumSlots \div 2
           /\ f[p].left = 0 /\ f[p].right = q /\ f[q].left = p
           /\ f[q].right = IF m = 1 THEN 0 ELSE inner[2].child
<1>1. /\ m \in Nat /\ m >= 1 /\ EntriesOK(inner, m) /\ LeavesOK(f)
      /\ p = inner[0].child /\ q = inner[1].child
      /\ LinkedOK(f, inner, m, innerId)
      /\ \A d \in 0 .. m : d # 0 => getNumTuples(f[inner[d].child].slots) >= NumSlots \div 2
      /\ getNumTuples(f[p].slots) >= (NumSlots \div 2) - 1
  BY EntryFields DEF FirstShort, OneShort
<1>2. 0 \in 0 .. m /\ 1 \in 0 .. m
  BY <1>1
<1>3. p \in leavesOf(f) /\ q \in leavesOf(f)
  BY <1>1, <1>2 DEF LinkedOK
<1>4. p # q
  BY <1>1, <1>2 DEF EntriesOK
<1>5. p \in PageNo /\ q \in PageNo /\ LeafOK(p, f[p].slots) /\ LeafOK(q, f[q].slots)
  BY <1>1, <1>3, LeafFields
<1>6. getNumTuples(f[p].slots) \in Nat /\ getNumTuples(f[q].slots) \in Nat
  BY <1>5, LeafCounts
<1>7. /\ f[p].left = 0 /\ f[p].right = q /\ f[q].left = p
      /\ f[q].right = IF m = 1 THEN 0 ELSE inner[2].child
  <2>1. /\ f[inner[0].child].left = 0 /\ f[inner[0].child].right = inner[0 + 1].child
        /\ f[inner[1].child].left = inner[1 - 1].child
        /\ f[inner[1].child].right = IF 1 = m THEN 0 ELSE inner[1 + 1].child
    BY <1>1, <1>2 DEF LinkedOK
  <2> QED BY <1>1, <2>1
<1> QED BY <1>1, <1>2, <1>3, <1>4, <1>5, <1>6, <1>7

(* updateEntry accepts the key of the first tuple that stays. *)
LEMMA UpdateAllowed ==
    ASSUME NEW f, NEW m, NEW p, NEW q, FirstShort(f, m, p, q),
           NEW sep, sep \in keysIn(f[q].slots)
    PROVE  updateEntryAllowed(inner, 1, sep)
<1>1. m \in Nat /\ m >= 1 /\ EntriesOK(inner, m) /\ RangesOK(f, inner, m) /\ q = inner[1].child
  BY FirstTwo DEF FirstShort, OneShort
<1>2. 1 \in 0 .. m
  BY <1>1
<1>3. 1 # m => sep <= inner[1 + 1].key
  BY <1>1, <1>2 DEF RangesOK
<1>4. /\ following(inner, 1) = IF 1 = m THEN {} ELSE {1 + 1}
      /\ preceding(inner, 1) = IF 1 = 0 THEN {} ELSE {1 - 1}
  BY <1>1, <1>2, Neighbours
<1>5. \A r \in following(inner, 1) : inner[r].key >= sep
  BY <1>3, <1>4
<1>6. \A r \in preceding(inner, 1) : r = 0
  BY <1>4
<1> QED BY <1>5, <1>6 DEF updateEntryAllowed

(* The right sibling has tuples to give. *)
LEMMA StealStep ==
    ASSUME Inv, ~ StoppedTree, NEW f, NEW m, NEW p, NEW q, FirstShort(f, m, p, q),
           getNumTuples(f[q].slots) > NumSlots \div 2, stealFromLeafPage(f, p, q)
    PROVE  Inv' /\ SameCounts(f, leaf')
<1>0. PICK n, sep : n = stealCount(f, p, q) /\ sep = stealKey(f, q, n)
  OBVIOUS
<1>1. /\ m \in Nat /\ m >= 1 /\ p \in leavesOf(f) /\ q \in leavesOf(f) /\ p # q
      /\ LeafOK(p, f[p].slots) /\ LeafOK(q, f[q].slots)
      /\ getNumTuples(f[p].slots) \in Nat /\ getNumTuples(f[p].slots) >= (NumSlots \div 2) - 1
  BY FirstTwo
<1>2. PICK S : S = bottomSlots(f[q].slots, n)
  OBVIOUS
<1>3. Stolen(getNumTuples(f[p].slots), f[q].slots, n, S, sep)
  <2>1. n = (getNumTuples(f[q].slots) - getNumTuples(f[p].slots)) \div 2
    BY <1>0 DEF stealCount
  <2>2. sep = f[q].slots[lowest(used(f[q].slots) \ S)].key
    BY <1>0, <1>2 DEF stealKey
  <2>3. getNumTuples(f[p].slots) < NumSlots \div 2
    BY DEF FirstShort
  <2> QED BY <1>1, <1>2, <2>1, <2>2, <2>3, StealFacts
<1>4. n > 0 /\ updateEntryAllowed(inner, 1, sep)
  BY <1>3, UpdateAllowed DEF Stolen
<1>5. /\ leaf' = moveTuples(f, q, p, upwards(S))
      /\ inner' = [inner EXCEPT ![1] = link(sep, q)]
      /\ UNCHANGED <<innerId, root, filePages, tail, headers, asserts, appends, outcome>>
  BY <1>0, <1>2, <1>4 DEF stealFromLeafPage
<1>6. PICK order : order = upwards(S)
  OBVIOUS
<1>7. order \in Seq(S) /\ Range(order) = S /\ Len(order) = Cardinality(S)
  <2>1. S \subseteq Int /\ IsFiniteSet(S)
    BY <1>3 DEF Stolen
  <2> QED BY <1>6, <2>1, Upwards
<1>8. /\ LeavesOK(f) /\ leavesOf(f) = leavesOf(leaf) /\ OneShort(f, inner, m, innerId, 0)
      /\ EntriesOK(inner, m) /\ p = inner[0].child /\ q = inner[1].child
      /\ innerId \in PageNo /\ root = innerId /\ m \in 1 .. MaxEntries
  BY DEF FirstShort
<1>9. Moved(f, q, p, S, leaf')
  <2>1. S \subseteq used(f[q].slots)
    BY <1>3 DEF Stolen
  <2>2. getNumTuples(f[p].slots) + Cardinality(S) <= NumSlots
    BY <1>3 DEF Stolen
  <2>3. leaf' = moveTuples(f, q, p, order)
    BY <1>5, <1>6
  <2> QED BY <1>1, <1>7, <1>8, <2>1, <2>2, <2>3, MovedTuples
<1>10. Updated(inner, m, sep, inner')
  <2>1. inner' = [inner EXCEPT ![1] = link(sep, inner[1].child)] /\ sep \in Keys
    BY <1>3, <1>5, <1>8 DEF Stolen
  <2> QED BY <1>8, <2>1, UpdatedEntry
<1>11. TreeOK(leaf', inner', m, innerId)
  BY <1>3, <1>8, <1>9, <1>10, StolenTree
<1>12. EntriesOK(inner', m) /\ inner' # Null /\ LeavesOK(leaf') /\ leavesOf(leaf') = leavesOf(leaf)
  BY <1>8, <1>9, <1>10 DEF Updated, Moved
<1>13. InnerTree(leaf', inner', innerId', root')
  BY <1>5, <1>8, <1>11, <1>12 DEF InnerTree
<1>14. PagesOK(leavesOf(leaf'), innerPages(inner', innerId'), filePages', headers')
  <2>1. inner # Null
    BY <1>8, EntryFields
  <2>2. innerPages(inner', innerId') = innerPages(inner, innerId)
    BY <1>5, <1>12, <2>1 DEF innerPages
  <2> QED BY <1>5, <1>12, <2>2 DEF Inv
<1>15. SameCounts(f, leaf')
  BY <1>9 DEF Moved
<1> QED BY <1>5, <1>12, <1>13, <1>14, <1>15, InvPrime DEF Inv

(* Leaf q, between p and n, is taken out of the chain. *)
Unlinked(g, p, q, n, h) ==
    /\ LeavesOK(h) /\ leavesOf(h) = leavesOf(g) \ {q}
    /\ \A r \in leavesOf(h) :
        /\ h[r].slots = g[r].slots /\ h[r].parent = g[r].parent
        /\ h[r].right = IF r = p THEN n ELSE g[r].right
        /\ h[r].left = IF r = n THEN p ELSE g[r].left

(* unlink takes leaf q out of the chain. *)
LEMMA UnlinkedLeaf ==
    ASSUME NEW g, LeavesOK(g), NEW p \in leavesOf(g), NEW q \in leavesOf(g), p # q,
           NEW n, n \in leavesOf(g) \cup {0}, n # p, n # q,
           NEW h, h = unlink(g, p, q, n)
    PROVE  Unlinked(g, p, q, n, h)
<1>1. g \in [PageNo -> Leaf \cup {Null}] /\ \A r \in leavesOf(g) : r \in PageNo /\ g[r] \in Leaf
  BY DEF LeavesOK, leavesOf
<1>2. 0 \notin PageNo /\ p \in PagePointer /\ n \in PagePointer /\ p \in PageNo /\ q \in PageNo
  BY <1>1, PageNumbers
<1> DEFINE x == [g[p] EXCEPT !.right = n]
           z == [g[n] EXCEPT !.left = p]
           h1 == [g EXCEPT ![p] = x, ![q] = Null]
<1>3. x \in Leaf /\ x.slots = g[p].slots /\ x.parent = g[p].parent /\ x.right = n /\ x.left = g[p].left
  BY <1>1, <1>2 DEF Leaf
<1>4. n # 0 => /\ z \in Leaf /\ z.slots = g[n].slots /\ z.parent = g[n].parent /\ z.left = p
               /\ z.right = g[n].right /\ n \in PageNo
  <2> SUFFICES ASSUME n # 0
               PROVE  /\ z \in Leaf /\ z.slots = g[n].slots /\ z.parent = g[n].parent /\ z.left = p
                      /\ z.right = g[n].right /\ n \in PageNo
    OBVIOUS
  <2>1. n \in PageNo /\ g[n] \in Leaf
    BY <1>1
  <2> QED BY <1>2, <2>1 DEF Leaf
<1>5. x # Null /\ (n # 0 => z # Null)
  BY <1>3, <1>4, NullIsNone
<1>6. h = IF n = 0 THEN h1 ELSE [h1 EXCEPT ![n] = z]
  <2>1. [g EXCEPT ![p].right = n, ![q] = Null] = h1
    OBVIOUS
  <2>2. n # 0 => h1[n] = g[n]
    BY <1>1, <1>2, <1>4
  <2>3. n # 0 => [h1 EXCEPT ![n].left = p] = [h1 EXCEPT ![n] = z]
    <3> SUFFICES ASSUME n # 0 PROVE [h1 EXCEPT ![n].left = p] = [h1 EXCEPT ![n] = z]
      OBVIOUS
    <3>1. [h1[n] EXCEPT !.left = p] = z
      BY <2>2
    <3> HIDE DEF h1, z
    <3> QED BY <3>1
  <2>4. h = IF n = 0 THEN h1 ELSE [h1 EXCEPT ![n].left = p]
    <3> HIDE DEF h1
    <3> QED BY <2>1, Zenon DEF unlink
  <2> HIDE DEF h1, z
  <2> QED BY <2>3, <2>4
<1> HIDE DEF x, z
<1>7. /\ h1 \in [PageNo -> Leaf \cup {Null}] /\ h1[p] = x /\ h1[q] = Null
      /\ \A r \in PageNo \ {p, q} : h1[r] = g[r]
  BY <1>1, <1>2, <1>3
<1> HIDE DEF h1
<1>8. /\ h \in [PageNo -> Leaf \cup {Null}] /\ h[p] = x /\ h[q] = Null
      /\ n # 0 => h[n] = z
      /\ \A r \in PageNo \ {p, q} : r # n => h[r] = g[r]
  <2>1. CASE n = 0
    BY <1>2, <1>6, <1>7, <2>1
  <2>2. CASE n # 0
    <3>1. h = [h1 EXCEPT ![n] = z] /\ n \in PageNo /\ z \in Leaf
      BY <1>4, <1>6, <2>2
    <3> QED BY <1>2, <1>7, <2>2, <3>1
  <2> QED BY <2>1, <2>2
<1>9. leavesOf(h) = leavesOf(g) \ {q}
  <2> SUFFICES ASSUME NEW r \in PageNo PROVE h[r] # Null <=> g[r] # Null /\ r # q
    BY DEF leavesOf
  <2>1. CASE r = q
    BY <1>8, <2>1
  <2>2. CASE r = p
    BY <1>5, <1>8, <2>2 DEF leavesOf
  <2>3. CASE r # q /\ r # p /\ r = n
    <3>1. n # 0 /\ n \in leavesOf(g)
      BY <1>2, <2>3
    <3> QED BY <1>5, <1>8, <2>3, <3>1 DEF leavesOf
  <2>4. CASE r # q /\ r # p /\ r # n
    BY <1>8, <2>4
  <2> QED BY <2>1, <2>2, <2>3, <2>4
<1>10. ASSUME NEW r \in leavesOf(h)
       PROVE  /\ h[r].slots = g[r].slots /\ h[r].parent = g[r].parent
              /\ h[r].right = IF r = p THEN n ELSE g[r].right
              /\ h[r].left = IF r = n THEN p ELSE g[r].left
  <2>0. r \in PageNo /\ r # q /\ r # 0
    BY <1>1, <1>2, <1>9
  <2>1. CASE r = p
    BY <1>3, <1>8, <2>1
  <2>2. CASE r # p /\ r = n
    BY <1>4, <1>8, <2>0, <2>2
  <2>3. CASE r # p /\ r # n
    BY <1>8, <2>0, <2>3
  <2> QED BY <2>1, <2>2, <2>3
<1>11. LeavesOK(h)
  BY <1>8, <1>9, <1>10, SameTuples
<1> QED BY <1>9, <1>10, <1>11 DEF Unlinked

(* The tuples of leaf q are joined to those of p, and q is no leaf any     *)
(* more.                                                                   *)
Joined(f, p, q, h) ==
    /\ LeavesOK(h) /\ leavesOf(h) = leavesOf(f) \ {q}
    /\ \A r \in leavesOf(h) :
        /\ h[r].parent = f[r].parent
        /\ h[r].right = IF r = p THEN f[q].right ELSE f[r].right
        /\ h[r].left = IF r = f[q].right THEN p ELSE f[r].left
        /\ r # p => h[r].slots = f[r].slots
    /\ keysIn(h[p].slots) = keysIn(f[p].slots) \cup keysIn(f[q].slots)
    /\ SameCounts(f, h)

(* joinLeaves moves the tuples of q to p and unlinks q. *)
LEMMA JoinedLeaves ==
    ASSUME NEW f, LeavesOK(f), NEW p \in leavesOf(f), NEW q \in leavesOf(f), p # q,
           getNumTuples(f[p].slots) + getNumTuples(f[q].slots) <= NumSlots,
           f[q].right \in leavesOf(f) \cup {0}, f[q].right # p, f[q].right # q,
           NEW h, h = joinLeaves(f, p, q)
    PROVE  Joined(f, p, q, h)
<1>1. PICK S : S = used(f[q].slots)
  OBVIOUS
<1>2. PICK order : order = upwards(S)
  OBVIOUS
<1>3. PICK n : n = f[q].right
  OBVIOUS
<1>4. PICK g : g = moveTuples(f, q, p, order)
  OBVIOUS
<1>5. h = unlink(g, p, q, n)
  BY <1>1, <1>2, <1>3, <1>4, Zenon DEF joinLeaves
<1>6. LeafOK(q, f[q].slots) /\ p \in PageNo /\ q \in PageNo
  BY LeafFields
<1>7. S \subseteq Int /\ IsFiniteSet(S) /\ Cardinality(S) = getNumTuples(f[q].slots)
  <2>1. used(f[q].slots) \subseteq Slot /\ Slot \subseteq Nat
    BY <1>6, LeafSlots
  <2>2. S \subseteq Nat
    BY <1>1, <2>1
  <2>3. IsFiniteSet(S) /\ Cardinality(S) = getNumTuples(f[q].slots)
    BY <1>1, <1>6, LeafCounts
  <2> QED BY <2>2, <2>3
<1>8. order \in Seq(S) /\ Range(order) = S /\ Len(order) = Cardinality(S)
  BY <1>2, <1>7, Upwards
<1>9. Moved(f, q, p, S, g)
  <2>1. S \subseteq used(f[q].slots) /\ getNumTuples(f[p].slots) + Cardinality(S) <= NumSlots
    BY <1>1, <1>7
  <2> QED BY <1>4, <1>8, <2>1, MovedTuples
<1>10. /\ LeavesOK(g) /\ leavesOf(g) = leavesOf(f)
       /\ \A r \in PageNo : /\ g[r].parent = f[r].parent /\ g[r].left = f[r].left
                            /\ g[r].right = f[r].right
                            /\ r # p /\ r # q => g[r].slots = f[r].slots
       /\ keysIn(g[p].slots) = keysIn(f[p].slots) \cup { f[q].slots[s].key : s \in S }
  BY <1>9 DEF Moved
<1>11. Unlinked(g, p, q, n, h)
  <2>1. p \in leavesOf(g) /\ q \in leavesOf(g) /\ n \in leavesOf(g) \cup {0} /\ n # p /\ n # q
    BY <1>3, <1>10
  <2> QED BY <1>5, <1>10, <2>1, UnlinkedLeaf
<1>12. /\ LeavesOK(h) /\ leavesOf(h) = leavesOf(f) \ {q}
       /\ \A r \in leavesOf(h) :
            /\ h[r].slots = g[r].slots /\ h[r].parent = g[r].parent
            /\ h[r].right = IF r = p THEN n ELSE g[r].right
            /\ h[r].left = IF r = n THEN p ELSE g[r].left
  BY <1>10, <1>11 DEF Unlinked
<1>13. ASSUME NEW r \in leavesOf(h)
       PROVE  /\ h[r].parent = f[r].parent
              /\ h[r].right = IF r = p THEN n ELSE f[r].right
              /\ h[r].left = IF r = n THEN p ELSE f[r].left
              /\ r # p => h[r].slots = f[r].slots
  <2>1. r \in PageNo /\ r # q
    BY <1>12 DEF leavesOf
  <2> QED BY <1>10, <1>12, <2>1
<1>14. keysIn(h[p].slots) = keysIn(f[p].slots) \cup keysIn(f[q].slots)
  <2>1. p \in leavesOf(h)
    BY <1>12
  <2>2. h[p].slots = g[p].slots
    BY <1>12, <2>1
  <2>3. keysIn(f[q].slots) = { f[q].slots[s].key : s \in S }
    BY <1>1 DEF keysIn
  <2> QED BY <1>10, <2>2, <2>3
<1>15. SameCounts(f, h)
  <2>1. SameCounts(f, g) /\ used(g[q].slots) = {}
    BY <1>1, <1>9 DEF Moved
  <2>2. /\ leavesOf(h) \ {q} = leavesOf(g) \ {q} /\ q \notin leavesOf(h)
        /\ \A r \in leavesOf(g) \ {q} : h[r].slots = g[r].slots
    BY <1>10, <1>12
  <2>3. SameCounts(g, h)
    BY <2>1, <2>2, EmptyLeafCounts
  <2> QED BY <2>1, <2>3 DEF SameCounts
<1> QED BY <1>3, <1>12, <1>13, <1>14, <1>15 DEF Joined

(* The entry in slot 1 is deleted. *)
EntryGone(E, m, C) ==
    /\ C \in [Entry -> InnerEntry \cup {Null}] /\ C # Null
    /\ used(C) = (0 .. m) \ {1}
    /\ \A d \in (0 .. m) \ {1} : C[d] = E[d]
    /\ getNumEmptyEntries(C) = MaxEntries <=> m = 1

(* deleteKeyAndRightChild leaves the other entries where they are. *)
LEMMA DeletedEntry ==
    ASSUME NEW E, NEW m, EntriesOK(E, m), NEW C, C = deleteKeyAndRightChild(E, 1)
    PROVE  EntryGone(E, m, C)
<1>1. /\ m \in Nat /\ m >= 1 /\ m <= MaxEntries /\ MaxEntries \in Nat
      /\ DOMAIN E = Entry /\ Entry = 0 .. MaxEntries /\ emptySlots(E) = m + 1 .. MaxEntries
      /\ E \in [Entry -> InnerEntry \cup {Null}] /\ used(E) = 0 .. m
  BY EntryFields DEF EntriesOK
<1>2. C \in [Entry -> InnerEntry \cup {Null}] /\ C[1] = Null /\ \A d \in Entry \ {1} : C[d] = E[d]
  BY <1>1 DEF deleteKeyAndRightChild
<1>3. C # Null
  BY <1>2, NullIsNone
<1>4. used(C) = (0 .. m) \ {1} /\ \A d \in (0 .. m) \ {1} : C[d] = E[d]
  BY <1>1, <1>2 DEF used
<1>5. emptySlots(C) \ {0} = (m + 1 .. MaxEntries) \cup {1}
  BY <1>1, <1>2 DEF emptySlots
<1>6. IsFiniteSet(m + 1 .. MaxEntries) /\ Cardinality(m + 1 .. MaxEntries) = MaxEntries - m
  <2>1. Cardinality(m + 1 .. MaxEntries) = IF m + 1 > MaxEntries THEN 0 ELSE MaxEntries - (m + 1) + 1
    BY <1>1, FS_Interval
  <2> QED BY <1>1, <2>1, FS_Interval
<1>7. Cardinality((m + 1 .. MaxEntries) \cup {1}) = MaxEntries - m + 1
  <2>1. 1 \notin m + 1 .. MaxEntries
    BY <1>1
  <2> QED BY <1>6, <2>1, FS_AddElement
<1>8. getNumEmptyEntries(C) = MaxEntries - m + 1
  BY <1>5, <1>7 DEF getNumEmptyEntries
<1> QED BY <1>1, <1>2, <1>3, <1>4, <1>8 DEF EntryGone

(* The file has room for a header page if it has none, and no number was   *)
(* skipped.                                                                *)
LEMMA RoomForHeader ==
    ASSUME NEW E, NEW m, EntriesOK(E, m),
           NEW L, \A p \in L : \E e \in 0 .. m : p = E[e].child, NEW I, Cardinality(I) = 1,
           PagesOK(L, I, filePages, headers)
    PROVE  ~ appends /\ headers = <<>> => filePages < MaxEntries + 3
<1> SUFFICES ASSUME ~ appends, headers = <<>> PROVE filePages < MaxEntries + 3
  OBVIOUS
<1>0. MaxEntries \in Nat /\ m \in Nat /\ m <= MaxEntries
  BY EntryFields
<1>1. freePages(headers) = {}
  BY NoHeader
<1>2. filePages <= Cardinality(L) + Cardinality(I) + (IF headers = <<>> THEN 0 ELSE 1)
      /\ Cardinality(L) \in Nat
  BY <1>1, PagesInUse
<1>4. Cardinality(L) <= m + 1
  BY <1>0, ChildCount
<1>5. filePages \in Nat
  BY PageNumbers, <1>0 DEF PagesOK
<1> QED BY <1>0, <1>2, <1>4, <1>5

(* The pages after a merge: page q is free... *)
LEMMA FreedLeaf ==
    ASSUME NEW E, NEW m, EntriesOK(E, m),
           NEW L, \A p \in L : \E e \in 0 .. m : p = E[e].child, NEW id, NEW I, I = {id},
           PagesOK(L, I, filePages, headers), tail \in 0 .. PageSize - 1,
           NEW q \in PageNo, q \in L, NEW tp, tp = setEmptyPage(space, q), fits(tp)
    PROVE  Freed(L, I, q, tp)
<1>0. IsSpace(space) /\ space.pages = filePages /\ space.headers = headers
  BY SpaceFields
<1>1. ~ appends /\ space.headers = <<>> => space.pages < MaxEntries + 3
  <2>1. Cardinality(I) = 1
    BY FS_Singleton
  <2>2. ~ appends /\ headers = <<>> => filePages < MaxEntries + 3
    BY <2>1, RoomForHeader
  <2> QED BY <1>0, <2>2
<1> QED BY <1>0, <1>1, FreedPage

(* ... and the internal page as well, if it lost its last entry. *)
LEMMA FreedPages ==
    ASSUME NEW E, NEW m, EntriesOK(E, m),
           NEW L, \A p \in L : \E e \in 0 .. m : p = E[e].child, NEW id \in PageNo, NEW I, I = {id},
           PagesOK(L, I, filePages, headers), tail \in 0 .. PageSize - 1,
           NEW q \in PageNo, q \in L,
           NEW tp, tp = setEmptyPage(setEmptyPage(space, id), q), fits(tp)
    PROVE  Freed(L, {}, q, tp)
<1>0. PICK sp : sp = setEmptyPage(space, id)
  OBVIOUS
<1>1. IsSpace(space) /\ space.pages = filePages /\ space.headers = headers
  BY SpaceFields
<1>2. ~ appends /\ space.headers = <<>> => space.pages < MaxEntries + 3
  <2>1. Cardinality(I) = 1
    BY FS_Singleton
  <2>2. ~ appends /\ headers = <<>> => filePages < MaxEntries + 3
    BY <2>1, RoomForHeader
  <2> QED BY <1>1, <2>2
<1>3. tp = setEmptyPage(sp, q)
  BY <1>0
<1>4. fits(sp)
  <2>1. space.pages \in Nat
    BY <1>1, PageNumbers DEF PagesOK
  <2>2. IsSpace(sp) /\ sp.pages \in Nat
    BY <1>0, <1>1, <2>1, FreeingGrows
  <2>3. tp.pages \in Nat /\ sp.pages <= tp.pages
    BY <1>3, <2>2, FreeingGrows
  <2> QED BY <2>2, <2>3, PageNumbers DEF fits
<1>5. Freed(L, I, id, sp)
  BY <1>0, <1>1, <1>2, <1>4, FreedPage
<1>6. L \ {id} = L /\ I \ {id} = {}
  BY DEF PagesOK, Parts
<1>7. PagesOK(L, {}, sp.pages, sp.headers) /\ IsSpace(sp) /\ sp.headers # <<>>
  BY <1>5, <1>6 DEF Freed
<1> QED BY <1>3, <1>7, FreedPage

-------------------------------------------------------------------------------
(* LinksAgree and KeysInRange, of any leaves and entries.                  *)

(* The children of entries E, or the root leaf, from left to right. *)
childrenOf(E, r) ==
    IF E = Null THEN IF r # 0 THEN <<r>> ELSE <<>>
    ELSE LET order == upwards(used(E))
         IN  [i \in DOMAIN order |-> E[order[i]].child]

(* LinksAgree, of leaves f. *)
ChainAgrees(f, E, id, r) ==
    LET c == childrenOf(E, r)
    IN  /\ Range(c) = leavesOf(f)
        /\ Len(c) = Cardinality(leavesOf(f))
        /\ \A i \in 1 .. Len(c) :
             /\ f[c[i]].right = IF i = Len(c) THEN 0 ELSE c[i + 1]
             /\ f[c[i]].left = IF i = 1 THEN 0 ELSE c[i - 1]
             /\ f[c[i]].parent = IF E = Null THEN 0 ELSE id

(* The two properties, of the leaves and entries of a state. *)
LEMMA AgreeDefs ==
    /\ LinksAgree <=> ChainAgrees(leaf, inner, innerId, root)
    /\ LinksAgree' <=> ChainAgrees(leaf', inner', innerId', root')
    /\ KeysInRange <=> RangesAgree(leaf, inner)
    /\ KeysInRange' <=> RangesAgree(leaf', inner')
<1>1. LinksAgree <=> ChainAgrees(leaf, inner, innerId, root)
  BY Zenon DEF LinksAgree, ChainAgrees, childrenOf, childrenInOrder, hasRoot, Leaves, leavesOf
<1>2. LinksAgree' <=> ChainAgrees(leaf', inner', innerId', root')
  BY Zenon DEF LinksAgree, ChainAgrees, childrenOf, childrenInOrder, hasRoot, Leaves, leavesOf
<1>3. KeysInRange <=> RangesAgree(leaf, inner)
  BY Zenon DEF KeysInRange, RangesAgree
<1>4. KeysInRange' <=> RangesAgree(leaf', inner')
  BY Zenon DEF KeysInRange, RangesAgree
<1> QED BY <1>1, <1>2, <1>3, <1>4

(* Leaves chained in the order g of the entries are the chain of           *)
(* LinksAgree.                                                             *)
LEMMA ChainIs ==
    ASSUME NEW f, NEW E, E # Null, NEW id, NEW r, NEW n, NEW g, Below(f, E, id, n, g)
    PROVE  ChainAgrees(f, E, id, r)
<1> DEFINE c == [i \in 1 .. n |-> E[g[i]].child]
<1>1. n \in Nat /\ g \in [1 .. n -> Int] /\ \A i, j \in 1 .. n : i < j => g[i] < g[j]
  BY DEF Below
<1>2. used(E) = { g[i] : i \in 1 .. n }
  BY DEF Below
<1>3. upwards(used(E)) = g
  <2>1. PICK S : S = used(E)
    OBVIOUS
  <2>2. S = { g[i] : i \in 1 .. n }
    BY <1>2, <2>1
  <2>3. upwards(S) = g
    BY <1>1, <2>2, UpwardsIs
  <2> QED BY <2>1, <2>3, Zenon
<1>4. childrenOf(E, r) = c
  <2>1. DOMAIN g = 1 .. n
    BY <1>1
  <2>2. childrenOf(E, r) = LET order == upwards(used(E)) IN [i \in DOMAIN order |-> E[order[i]].child]
    BY Zenon DEF childrenOf
  <2>3. childrenOf(E, r) = [i \in DOMAIN g |-> E[g[i]].child]
    BY <1>3, <2>2, Zenon
  <2> QED BY <2>1, <2>3
<1>5. DOMAIN c = 1 .. n /\ Len(c) = n /\ \A i \in 1 .. n : c[i] = E[g[i]].child
  BY <1>1
<1>6. Range(c) = leavesOf(f)
  <2>1. leavesOf(f) = { E[g[i]].child : i \in 1 .. n }
    BY DEF Below
  <2> HIDE DEF c
  <2> QED BY <1>5, <2>1 DEF Range
<1>7. Cardinality(leavesOf(f)) = n
  <2>1. \A i, j \in 1 .. n : c[i] = c[j] => i = j
    BY DEF Below
  <2>2. c \in Bijection(1 .. n, leavesOf(f))
    <3>1. c \in [1 .. n -> leavesOf(f)]
      BY DEF Below
    <3>2. \A x \in leavesOf(f) : \E i \in 1 .. n : c[i] = x
      BY DEF Below
    <3> HIDE DEF c
    <3> QED BY <2>1, <3>1, <3>2 DEF Bijection, Injection, Surjection, IsInjective
  <2>3. ExistsBijection(1 .. n, leavesOf(f))
    BY <2>2 DEF ExistsBijection
  <2>4. IsFiniteSet(1 .. n) /\ Cardinality(1 .. n) = n
    BY <1>1, FS_Interval
  <2> QED BY <2>3, <2>4, FS_Bijection
<1>8. ASSUME NEW i \in 1 .. n
      PROVE  /\ f[c[i]].right = IF i = n THEN 0 ELSE c[i + 1]
             /\ f[c[i]].left = IF i = 1 THEN 0 ELSE c[i - 1]
             /\ f[c[i]].parent = id
  <2>1. (i # n => i + 1 \in 1 .. n) /\ (i # 1 => i - 1 \in 1 .. n)
    BY <1>1
  <2>2. /\ f[E[g[i]].child].right = IF i = n THEN 0 ELSE E[g[i + 1]].child
        /\ f[E[g[i]].child].left = IF i = 1 THEN 0 ELSE E[g[i - 1]].child
        /\ f[E[g[i]].child].parent = id
    BY DEF Below
  <2> QED BY <2>1, <2>2
<1> HIDE DEF c
<1> QED BY <1>4, <1>5, <1>6, <1>7, <1>8 DEF ChainAgrees

(* Around a leaf that is at least half full the keys of the entries ascend. *)
LEMMA EntriesAscend ==
    ASSUME NEW f, LeavesOK(f), NEW E, NEW m, EntriesOK(E, m), NEW id,
           LinkedOK(f, E, m, id), RangesOK(f, E, m), NEW e, e \in 1 .. m - 1,
           getNumTuples(f[E[e].child].slots) >= NumSlots \div 2
    PROVE  E[e].key <= E[e + 1].key
<1>1. /\ m \in Nat /\ e \in 0 .. m /\ e # 0 /\ e # m /\ e + 1 \in 1 .. m /\ e \in 1 .. m
      /\ \A d \in 1 .. m : E[d].key \in Int
  BY EntryFields
<1>2. PICK p : p = E[e].child
  OBVIOUS
<1>3. p \in leavesOf(f)
  BY <1>1, <1>2 DEF LinkedOK
<1>4. LeafOK(p, f[p].slots)
  BY <1>3 DEF LeavesOK
<1>5. used(f[p].slots) # {}
  BY <1>2, <1>4, LeafCounts, BTreeConstants
<1>6. PICK k \in keysIn(f[p].slots) : k \in Int
  BY <1>4, <1>5, LeafSlots DEF keysIn
<1>7. E[e].key <= k /\ k <= E[e + 1].key
  BY <1>1, <1>2, <1>6 DEF RangesOK
<1> QED BY <1>1, <1>6, <1>7

(* The leaves and the entries that a merge leaves are linked... *)
LEMMA ChainAfterMerge ==
    ASSUME NEW f, NEW m, NEW p, NEW q, FirstShort(f, m, p, q), m # 1,
           NEW C, EntryGone(inner, m, C), NEW h, Joined(f, p, q, h)
    PROVE  m \in 2 .. MaxEntries /\ Ordered(h, C, innerId, m, withoutFirst(m))
<1> DEFINE g == withoutFirst(m)
<1>1. /\ m \in Nat /\ m >= 2 /\ EntriesOK(inner, m) /\ p = inner[0].child /\ q = inner[1].child
      /\ LinkedOK(f, inner, m, innerId)
      /\ f[p].left = 0 /\ f[p].right = q /\ f[q].left = p /\ f[q].right = inner[2].child
  BY FirstTwo DEF FirstShort, OneShort
<1>2. \A d, e \in 0 .. m : inner[d].child = inner[e].child => d = e
  BY <1>1 DEF EntriesOK
<1>3. used(C) = (0 .. m) \ {1} /\ C # Null /\ \A d \in (0 .. m) \ {1} : C[d] = inner[d]
  BY DEF EntryGone
<1>4. used(C) = { g[i] : i \in 1 .. m }
  <2>1. \A i \in 1 .. m : g[i] \in (0 .. m) \ {1}
    BY <1>1 DEF withoutFirst
  <2>2. \A d \in (0 .. m) \ {1} : \E i \in 1 .. m : d = g[i]
    <3> SUFFICES ASSUME NEW d \in (0 .. m) \ {1} PROVE \E i \in 1 .. m : d = g[i]
      OBVIOUS
    <3>1. CASE d = 0
      <4>1. 1 \in 1 .. m /\ g[1] = d
        BY <1>1, <3>1 DEF withoutFirst
      <4> QED BY <4>1
    <3>2. CASE d # 0
      <4>1. d \in 1 .. m /\ g[d] = d
        BY <1>1, <3>2 DEF withoutFirst
      <4> QED BY <4>1
    <3> QED BY <3>1, <3>2
  <2> HIDE DEF g
  <2> QED BY <1>3, <2>1, <2>2
<1>5. \A i \in 1 .. m : g[i] \in (0 .. m) \ {1} /\ (i = 1 => g[i] = 0) /\ (i # 1 => g[i] = i)
  BY <1>1 DEF withoutFirst
<1>6. g \in [1 .. m -> Int] /\ \A i, j \in 1 .. m : i < j => g[i] < g[j]
  BY <1>1 DEF withoutFirst
<1> HIDE DEF g
<1>7. \A i \in 1 .. m : C[g[i]] = inner[g[i]]
  BY <1>3, <1>5
<1>8. leavesOf(h) = { C[g[i]].child : i \in 1 .. m }
  <2>1. leavesOf(h) = { inner[d].child : d \in 0 .. m } \ {inner[1].child}
    BY <1>1, Zenon DEF Joined, LinkedOK
  <2>2. 1 \in 0 .. m
    BY <1>1
  <2>3. leavesOf(h) = { inner[d].child : d \in (0 .. m) \ {1} }
    BY <1>2, <2>1, <2>2
  <2>4. \A x \in leavesOf(h) : \E i \in 1 .. m : x = C[g[i]].child
    <3> SUFFICES ASSUME NEW x \in leavesOf(h) PROVE \E i \in 1 .. m : x = C[g[i]].child
      OBVIOUS
    <3>1. PICK d \in (0 .. m) \ {1} : x = inner[d].child
      BY <2>3
    <3>2. PICK i \in 1 .. m : d = g[i]
      BY <1>3, <1>4, <3>1
    <3> QED BY <1>7, <3>1, <3>2
  <2>5. \A i \in 1 .. m : C[g[i]].child \in leavesOf(h)
    BY <1>5, <1>7, <2>3
  <2> QED BY <2>4, <2>5
<1>9. \A i, j \in 1 .. m : C[g[i]].child = C[g[j]].child => i = j
  BY <1>2, <1>5, <1>7
<1>10. ASSUME NEW i \in 1 .. m
       PROVE  /\ h[C[g[i]].child].right = IF i = m THEN 0 ELSE C[g[i + 1]].child
              /\ h[C[g[i]].child].left = IF i = 1 THEN 0 ELSE C[g[i - 1]].child
              /\ h[C[g[i]].child].parent = innerId
  <2>1. PICK d : d = g[i]
    OBVIOUS
  <2>2. d \in (0 .. m) \ {1} /\ C[d] = inner[d] /\ C[d].child \in leavesOf(h)
    BY <1>5, <1>7, <1>8, <2>1
  <2>3. /\ f[inner[d].child].parent = innerId
        /\ f[inner[d].child].left = IF d = 0 THEN 0 ELSE inner[d - 1].child
        /\ f[inner[d].child].right = IF d = m THEN 0 ELSE inner[d + 1].child
    BY <1>1, <2>2 DEF LinkedOK
  <2>4. /\ h[C[d].child].parent = f[inner[d].child].parent
        /\ h[C[d].child].right = IF inner[d].child = p THEN f[q].right ELSE f[inner[d].child].right
        /\ h[C[d].child].left = IF inner[d].child = f[q].right THEN p ELSE f[inner[d].child].left
    BY <2>2 DEF Joined
  <2>5. (inner[d].child = p <=> d = 0) /\ (inner[d].child = f[q].right <=> d = 2)
    <3>1. 0 \in 0 .. m /\ 2 \in 0 .. m
      BY <1>1
    <3> QED BY <1>1, <1>2, <2>2, <3>1
  <2>6. CASE i = 1
    <3>1. d = 0 /\ i # m /\ i + 1 = 2 /\ 2 \in 1 .. m /\ d # m /\ d # 2
      BY <1>1, <1>5, <2>1, <2>6
    <3>2. g[i + 1] = 2 /\ C[2] = inner[2]
      BY <1>5, <1>7, <3>1
    <3> QED BY <1>1, <2>1, <2>3, <2>4, <2>5, <2>6, <3>1, <3>2
  <2>7. CASE i = 2
    <3>1. d = 2 /\ i - 1 = 1 /\ 1 \in 1 .. m /\ d # 0 /\ g[1] = 0
      BY <1>1, <1>5, <2>1, <2>7
    <3>2. g[i - 1] = 0 /\ C[0] = inner[0]
      BY <1>7, <3>1
    <3>3. i # m => g[i + 1] = d + 1 /\ C[d + 1] = inner[d + 1]
      <4>1. i # m => i + 1 \in 1 .. m /\ i + 1 # 1
        BY <1>1, <2>7
      <4>2. i # m => g[i + 1] = i + 1 /\ C[g[i + 1]] = inner[g[i + 1]]
        BY <1>5, <1>7, <4>1
      <4> QED BY <2>7, <3>1, <4>2
    <3> QED BY <1>1, <2>1, <2>3, <2>4, <2>5, <2>7, <3>1, <3>2, <3>3
  <2>8. CASE i # 1 /\ i # 2
    <3>1. d = i /\ i - 1 \in 1 .. m /\ i - 1 # 1 /\ d # 0 /\ d # 2
      BY <1>1, <1>5, <2>1, <2>8
    <3>2. g[i - 1] = d - 1 /\ C[d - 1] = inner[d - 1]
      <4>1. g[i - 1] = i - 1
        BY <1>5, <3>1
      <4> QED BY <1>7, <3>1, <4>1
    <3>3. i # m => g[i + 1] = d + 1 /\ C[d + 1] = inner[d + 1]
      <4>1. i # m => i + 1 \in 1 .. m /\ i + 1 # 1
        BY <1>1
      <4>2. i # m => g[i + 1] = i + 1 /\ C[g[i + 1]] = inner[g[i + 1]]
        BY <1>5, <1>7, <4>1
      <4> QED BY <3>1, <4>2
    <3> QED BY <1>1, <2>1, <2>3, <2>4, <2>5, <2>8, <3>1, <3>2, <3>3
  <2> QED BY <2>6, <2>7, <2>8
<1>11. Below(h, C, innerId, m, g)
  BY <1>1, <1>4, <1>6, <1>8, <1>9, <1>10 DEF Below
<1>12. m \in 2 .. MaxEntries + 1 /\ g[1] = 0 /\ m \in 2 .. MaxEntries
  <2>1. m <= MaxEntries /\ MaxEntries \in Nat /\ 1 \in 1 .. m
    BY <1>1, EntryFields
  <2> QED BY <1>1, <1>5, <2>1
<1>13. ASSUME NEW i \in 2 .. m PROVE C[g[i]] = inner[i] /\ inner[i].key \in Keys
  <2>1. i \in 1 .. m /\ i # 1
    BY <1>1
  <2> QED BY <1>1, <1>5, <1>7, <2>1, EntryFields
<1>14. ASSUME NEW i \in 2 .. m - 1 PROVE C[g[i]].key <= C[g[i + 1]].key
  <2>1. i \in 2 .. m /\ i + 1 \in 2 .. m /\ i \in 1 .. m - 1 /\ i \in 0 .. m /\ i # 0
    BY <1>1
  <2>2. getNumTuples(f[inner[i].child].slots) >= NumSlots \div 2
    BY <2>1 DEF FirstShort, OneShort
  <2>3. LeavesOK(f) /\ RangesOK(f, inner, m)
    BY DEF FirstShort, OneShort
  <2>4. inner[i].key <= inner[i + 1].key
    BY <1>1, <2>1, <2>2, <2>3, EntriesAscend
  <2> QED BY <1>13, <2>1, <2>4
<1>15. \A i \in 2 .. m : C[g[i]].key \in Keys
  BY <1>13
<1>16. Ordered(h, C, innerId, m, g)
  BY <1>11, <1>12, <1>14, <1>15 DEF Ordered
<1> QED BY <1>12, <1>16 DEF g

(* ... and their keys are in range. *)
LEMMA RangesAfterMerge ==
    ASSUME NEW f, NEW m, NEW p, NEW q, FirstShort(f, m, p, q), m # 1,
           NEW C, EntryGone(inner, m, C), NEW h, Joined(f, p, q, h)
    PROVE  RangesAgree(h, C)
<1>1. /\ m \in Nat /\ m >= 2 /\ EntriesOK(inner, m) /\ p = inner[0].child /\ q = inner[1].child
      /\ LinkedOK(f, inner, m, innerId) /\ RangesOK(f, inner, m)
      /\ LeafOK(p, f[p].slots) /\ LeafOK(q, f[q].slots)
      /\ getNumTuples(f[q].slots) \in Nat /\ getNumTuples(f[q].slots) >= NumSlots \div 2
  BY FirstTwo DEF FirstShort, OneShort
<1>2. \A e \in 1 .. m : inner[e].key \in Int
  BY <1>1, EntryFields
<1>3. used(C) = (0 .. m) \ {1} /\ \A d \in (0 .. m) \ {1} : C[d] = inner[d]
  BY DEF EntryGone
<1>4. 0 \in 0 .. m /\ 1 \in 0 .. m /\ 2 \in 0 .. m
  BY <1>1
<1>5. /\ \A k \in keysIn(f[p].slots) : k <= inner[1].key /\ k \in Int
      /\ \A k \in keysIn(f[q].slots) : inner[1].key <= k /\ k <= inner[2].key /\ k \in Int
  <2>1. /\ \A k \in keysIn(f[p].slots) : k <= inner[0 + 1].key
        /\ \A k \in keysIn(f[q].slots) : inner[1].key <= k /\ k <= inner[1 + 1].key
    BY <1>1, <1>4 DEF RangesOK
  <2>2. \A k \in keysIn(f[p].slots) : k \in Int
    BY <1>1, LeafSlots DEF keysIn
  <2>3. \A k \in keysIn(f[q].slots) : k \in Int
    BY <1>1, LeafSlots DEF keysIn
  <2> QED BY <2>1, <2>2, <2>3
<1>6. inner[1].key <= inner[2].key
  <2>1. used(f[q].slots) # {}
    BY <1>1, LeafCounts, BTreeConstants
  <2>2. PICK k \in keysIn(f[q].slots) : TRUE
    BY <2>1 DEF keysIn
  <2>3. inner[1].key \in Int /\ inner[2].key \in Int
    BY <1>1, <1>2
  <2> QED BY <1>5, <2>2, <2>3
<1>7. \A k \in keysIn(h[p].slots) : k <= inner[2].key
  <2>1. inner[1].key \in Int /\ inner[2].key \in Int
    BY <1>1, <1>2
  <2>2. keysIn(h[p].slots) = keysIn(f[p].slots) \cup keysIn(f[q].slots)
    BY DEF Joined
  <2> QED BY <1>5, <1>6, <2>1, <2>2
<1>8. \A e \in (0 .. m) \ {1} : \A n \in following(C, e) : n = IF e = 0 THEN 2 ELSE e + 1
  <2> SUFFICES ASSUME NEW e \in (0 .. m) \ {1}, NEW n \in following(C, e)
               PROVE  n = IF e = 0 THEN 2 ELSE e + 1
    OBVIOUS
  <2>1. n \in (0 .. m) \ {1} /\ n > e /\ \A d \in (0 .. m) \ {1} : d > e => n <= d
    BY <1>3 DEF following
  <2>2. CASE e = 0
    <3>1. 2 \in (0 .. m) \ {1} /\ 2 > e
      BY <1>4, <2>2
    <3> QED BY <2>1, <2>2, <3>1
  <2>3. CASE e # 0
    <3>1. e + 1 \in (0 .. m) \ {1} /\ e + 1 > e
      BY <1>1, <2>1, <2>3
    <3> QED BY <1>1, <2>1, <2>3, <3>1
  <2> QED BY <2>2, <2>3
<1>9. ASSUME NEW e \in (0 .. m) \ {1}, NEW k \in keysIn(h[C[e].child].slots)
      PROVE  (e # 0 => C[e].key <= k) /\ \A n \in following(C, e) : k <= C[n].key
  <2>1. C[e] = inner[e] /\ \A n \in following(C, e) : n \in (0 .. m) \ {1} /\ C[n] = inner[n]
    BY <1>3 DEF following
  <2>2. CASE e = 0
    <3>1. k <= inner[2].key
      BY <1>1, <1>7, <2>1, <2>2
    <3> QED BY <1>8, <2>1, <2>2, <3>1
  <2>3. CASE e # 0
    <3>1. C[e].child # p /\ C[e].child # q
      BY <1>1, <1>4, <2>1, <2>3 DEF EntriesOK
    <3>2. C[e].child \in leavesOf(h)
      BY <1>1, <2>1, <3>1 DEF Joined, LinkedOK
    <3>3. h[C[e].child].slots = f[C[e].child].slots
      BY <3>1, <3>2 DEF Joined
    <3>4. k \in keysIn(f[inner[e].child].slots)
      BY <2>1, <3>3
    <3>5. (e # 0 => inner[e].key <= k) /\ (e # m => k <= inner[e + 1].key)
      BY <1>1, <3>4 DEF RangesOK
    <3>6. \A n \in following(C, e) : n = e + 1 /\ e # m
      BY <1>1, <1>8, <2>1, <2>3
    <3> QED BY <2>1, <2>3, <3>5, <3>6
  <2> QED BY <2>2, <2>3
<1> QED BY <1>3, <1>9 DEF RangesAgree, keysIn

(* setEmptyPage leaves a tail of less than a page. *)
LEMMA SpaceAfterFreeing ==
    ASSUME Inv
    PROVE  /\ \A q : setEmptyPage(space, q).tail \in 0 .. PageSize - 1
           /\ \A p, q : setEmptyPage(setEmptyPage(space, p), q).tail \in 0 .. PageSize - 1
<1>1. IsSpace(space) /\ space.pages \in Nat
  <2>1. tail \in 0 .. PageSize - 1 /\ filePages \in PagePointer
    BY DEF Inv, PagesOK
  <2>2. IsSpace(space) /\ space.pages = filePages
    BY <2>1, SpaceFields
  <2> QED BY <2>1, <2>2, PageNumbers
<1>2. ASSUME NEW q PROVE IsSpace(setEmptyPage(space, q)) /\ setEmptyPage(space, q).pages \in Nat
  BY <1>1, FreeingGrows
<1>3. ASSUME NEW p, NEW q PROVE IsSpace(setEmptyPage(setEmptyPage(space, p), q))
  <2>1. PICK sp : sp = setEmptyPage(space, p)
    OBVIOUS
  <2>2. IsSpace(sp) /\ sp.pages \in Nat
    BY <1>2, <2>1
  <2>3. IsSpace(setEmptyPage(sp, q))
    BY <2>2, FreeingGrows
  <2> QED BY <2>1, <2>3
<1> QED BY <1>2, <1>3 DEF IsSpace

(* The process, which did not notice, goes on with a page it cannot use. *)
LEMMA MergeStop ==
    ASSUME Inv, NEW f, NEW m, NEW p, NEW q, FirstShort(f, m, p, q), m # 1,
           NEW C, EntryGone(inner, m, C), NEW h, Joined(f, p, q, h),
           NEW tp, tp = setEmptyPage(space, q),
           leaf' = h, inner' = C, spaceBecomes(tp), fits(tp),
           outcome' = "empty page", UNCHANGED <<innerId, root, asserts, appends>>
    PROVE  Inv' /\ SameCounts(f, leaf')
<1>1. Ordered(h, C, innerId, m, withoutFirst(m)) /\ RangesAgree(h, C)
  BY ChainAfterMerge, RangesAfterMerge
<1>2. m \in 2 .. MaxEntries
  BY ChainAfterMerge
<1>3. StoppedTree'
  <2>1. \E j \in 2 .. MaxEntries : Ordered(leaf', inner', innerId', j, withoutFirst(j))
    BY <1>1, <1>2
  <2>2. RangesAgree(leaf', inner')
    BY <1>1
  <2> QED BY <2>1, <2>2 DEF StoppedTree, FirstShort, EntryGone
<1>4. /\ LeavesOK(leaf') /\ leavesOf(leaf') = leavesOf(leaf) \ {q} /\ inner' # Null
      /\ EntriesOK(inner, m) /\ q \in PageNo /\ q \in leavesOf(leaf)
      /\ leavesOf(leaf) = { inner[e].child : e \in 0 .. m }
  <2>1. q \in PageNo /\ q \in leavesOf(f)
    BY FirstTwo
  <2>2. leavesOf(f) = leavesOf(leaf) /\ EntriesOK(inner, m) /\ LinkedOK(f, inner, m, innerId)
    BY DEF FirstShort, OneShort
  <2>3. leavesOf(leaf) = { inner[e].child : e \in 0 .. m }
    BY <2>2, Zenon DEF LinkedOK
  <2> QED BY <2>1, <2>2, <2>3 DEF Joined, EntryGone
<1>5. PagesOK(leavesOf(leaf'), innerPages(inner', innerId'), filePages', headers')
  <2>1. PICK I : I = {innerId}
    OBVIOUS
  <2>2. PICK L : L = leavesOf(leaf)
    OBVIOUS
  <2>3. PICK K : K = L \ {q}
    OBVIOUS
  <2>4. inner # Null
    BY <1>4, EntryFields
  <2>5. PagesOK(L, I, filePages, headers)
    BY <2>1, <2>2, <2>4 DEF Inv, innerPages
  <2>6. \A x \in L : \E e \in 0 .. m : x = inner[e].child
    BY <1>4, <2>2
  <2>7. PagesOK(K, I, tp.pages, tp.headers)
    <3>1. Freed(L, I, q, tp)
      BY <1>4, <2>1, <2>2, <2>5, <2>6, FreedLeaf DEF Inv
    <3>2. I \ {q} = I
      BY <1>4, <2>2, <2>5 DEF PagesOK, Parts
    <3> QED BY <2>3, <3>1, <3>2 DEF Freed
  <2>8. innerPages(inner', innerId') = I /\ leavesOf(leaf') = K
    BY <1>4, <2>1, <2>2, <2>3 DEF innerPages
  <2> QED BY <2>7, <2>8 DEF spaceBecomes
<1>6. SameCounts(f, leaf')
  BY DEF Joined
<1>7. tail' \in 0 .. PageSize - 1
  BY SpaceAfterFreeing DEF Inv, spaceBecomes
<1> QED BY <1>3, <1>4, <1>5, <1>6, <1>7, InvPrime DEF Inv

(* The last entry goes with the internal page, and p is the root. *)
LEMMA MergeLast ==
    ASSUME Inv, NEW f, NEW p, NEW q, FirstShort(f, 1, p, q),
           NEW h, Joined(f, p, q, h),
           NEW tp, tp = setEmptyPage(setEmptyPage(space, innerId), q),
           leaf' = [h EXCEPT ![p].parent = 0], inner' = Null, innerId' = 0, root' = p,
           spaceBecomes(tp), fits(tp), UNCHANGED <<asserts, appends, outcome>>
    PROVE  Inv' /\ SameCounts(f, leaf')
<1>1. /\ p \in PageNo /\ q \in PageNo /\ p # q /\ p \in leavesOf(f) /\ q \in leavesOf(f)
      /\ f[p].left = 0 /\ f[q].right = 0
  BY FirstTwo
<1>2. /\ EntriesOK(inner, 1) /\ LinkedOK(f, inner, 1, innerId) /\ innerId \in PageNo
      /\ p = inner[0].child /\ q = inner[1].child /\ leavesOf(f) = leavesOf(leaf)
  BY DEF FirstShort, OneShort
<1>3. leavesOf(f) = {p, q}
  <2>1. 0 .. 1 = {0, 1}
    OBVIOUS
  <2>2. leavesOf(f) = { inner[e].child : e \in 0 .. 1 }
    BY <1>2, Zenon DEF LinkedOK
  <2> QED BY <1>2, <2>1, <2>2
<1>4. LeavesOK(h) /\ leavesOf(h) = {p} /\ h[p].right = 0 /\ h[p].left = 0
  <2>1. LeavesOK(h) /\ leavesOf(h) = leavesOf(f) \ {q}
    BY DEF Joined
  <2>2. leavesOf(h) = {p}
    BY <1>1, <1>3, <2>1
  <2>3. /\ h[p].right = f[q].right
        /\ h[p].left = IF p = f[q].right THEN p ELSE f[p].left
    BY <2>2 DEF Joined
  <2> QED BY <1>1, <2>1, <2>2, <2>3, PageNumbers
<1>5. PICK x : x = [h[p] EXCEPT !.parent = 0]
  OBVIOUS
<1>6. h \in [PageNo -> Leaf \cup {Null}] /\ h[p] \in Leaf
  BY <1>4 DEF LeavesOK, leavesOf
<1>7. /\ x \in Leaf /\ x.slots = h[p].slots /\ x.parent = 0
      /\ x.left = h[p].left /\ x.right = h[p].right
  BY <1>5, <1>6, PageNumbers DEF Leaf
<1>8. x # Null /\ leaf' = [h EXCEPT ![p] = x]
  BY <1>5, <1>7, NullIsNone
<1>9. /\ leaf' \in [PageNo -> Leaf \cup {Null}] /\ leaf'[p] = x
      /\ \A r \in PageNo : r # p => leaf'[r] = h[r]
  BY <1>1, <1>6, <1>7, <1>8
<1>10. leavesOf(leaf') = {p}
  <2>1. \A r \in PageNo : h[r] # Null <=> r = p
    BY <1>4 DEF leavesOf
  <2> QED BY <1>1, <1>8, <1>9, <2>1 DEF leavesOf
<1>11. LeavesOK(leaf')
  <2>1. \A r \in leavesOf(leaf') : r \in leavesOf(h) /\ leaf'[r].slots = h[r].slots
    BY <1>4, <1>7, <1>9, <1>10
  <2>2. PICK g : g = leaf'
    OBVIOUS
  <2>3. /\ g \in [PageNo -> Leaf \cup {Null}]
        /\ \A r \in leavesOf(g) : r \in leavesOf(h) /\ g[r].slots = h[r].slots
    BY <1>9, <2>1, <2>2
  <2>4. LeavesOK(g)
    BY <1>4, <2>3, SameTuples
  <2> QED BY <2>2, <2>4
<1>12. LeafTree(leaf', inner', innerId', root')
  BY <1>1, <1>4, <1>7, <1>9, <1>10 DEF LeafTree
<1>13. PagesOK(leavesOf(leaf'), innerPages(inner', innerId'), filePages', headers')
  <2>1. PICK I : I = {innerId}
    OBVIOUS
  <2>2. PICK L : L = leavesOf(leaf)
    OBVIOUS
  <2>3. inner # Null
    BY <1>2, EntryFields
  <2>4. PagesOK(L, I, filePages, headers)
    BY <2>1, <2>2, <2>3 DEF Inv, innerPages
  <2>5. \A y \in L : \E e \in 0 .. 1 : y = inner[e].child
    BY <1>2, <2>2 DEF LinkedOK
  <2>6. Freed(L, {}, q, tp)
    <3>1. q \in L
      BY <1>1, <1>2, <2>2
    <3>2. PICK m : m = 1
      OBVIOUS
    <3>3. EntriesOK(inner, m) /\ \A y \in L : \E e \in 0 .. m : y = inner[e].child
      BY <1>2, <2>5, <3>2
    <3>4. tail \in 0 .. PageSize - 1
      BY DEF Inv
    <3>5. tp = setEmptyPage(setEmptyPage(space, innerId), q) /\ fits(tp)
          /\ q \in PageNo /\ innerId \in PageNo
      BY <1>1, <1>2
    <3> QED BY <2>1, <2>4, <3>1, <3>3, <3>4, <3>5, FreedPages
  <2>7. L \ {q} = {p}
    BY <1>1, <1>2, <1>3, <2>2
  <2>8. innerPages(inner', innerId') = {}
    BY DEF innerPages
  <2>9. PagesOK({p}, {}, tp.pages, tp.headers)
    BY <2>6, <2>7 DEF Freed
  <2> QED BY <1>10, <2>8, <2>9 DEF spaceBecomes
<1>14. SameCounts(f, leaf')
  <2>1. PICK g : g = leaf'
    OBVIOUS
  <2>2. SameCounts(h, leaf')
    <3>1. leavesOf(g) = leavesOf(h) /\ \A r \in leavesOf(h) : g[r].slots = h[r].slots
      BY <1>4, <1>7, <1>9, <1>10, <2>1
    <3>2. SameCounts(h, g)
      BY <3>1, SameSlotsCount
    <3> QED BY <2>1, <3>2
  <2>3. SameCounts(f, h)
    BY DEF Joined
  <2> QED BY <2>2, <2>3 DEF SameCounts
<1>15. tail' \in 0 .. PageSize - 1
  BY SpaceAfterFreeing DEF Inv, spaceBecomes
<1> QED BY <1>11, <1>12, <1>13, <1>14, <1>15, InvPrime DEF Inv

(* mergeLeafPages, in either build. *)
LEMMA MergeStep ==
    ASSUME Inv, ~ StoppedTree, NEW f, NEW m, NEW p, NEW q, FirstShort(f, m, p, q),
           getNumTuples(f[q].slots) <= NumSlots \div 2, mergeLeafPages(f, p, q)
    PROVE  Inv' /\ (leaf' = leaf \/ SameCounts(f, leaf'))
<1>1. PICK C : C = deleteKeyAndRightChild(inner, 1)
  OBVIOUS
<1>2. PICK h : h = joinLeaves(f, p, q)
  OBVIOUS
<1>3. PICK last \in BOOLEAN : last = (getNumEmptyEntries(C) = MaxEntries)
  OBVIOUS
<1>4. PICK tp : tp = spaceAfterMerge(q, last)
  OBVIOUS
<1>5. \/ asserts /\ stop("merge")
      \/ /\ ~ asserts /\ last /\ fits(tp)
         /\ leaf' = [h EXCEPT ![p].parent = 0] /\ inner' = Null /\ innerId' = 0 /\ root' = p
         /\ spaceBecomes(tp) /\ UNCHANGED <<asserts, appends, outcome>>
      \/ /\ ~ asserts /\ ~ last /\ fits(tp)
         /\ leaf' = h /\ inner' = C /\ spaceBecomes(tp)
         /\ outcome' = "empty page" /\ UNCHANGED <<innerId, root, asserts, appends>>
  BY <1>1, <1>2, <1>3, <1>4, Zenon DEF mergeLeafPages
<1>6. EntryGone(inner, m, C)
  BY <1>1, DeletedEntry DEF FirstShort
<1>7. last <=> m = 1
  BY <1>3, <1>6 DEF EntryGone
<1>8. Joined(f, p, q, h)
  <2>1. /\ p \in leavesOf(f) /\ q \in leavesOf(f) /\ p # q
        /\ getNumTuples(f[p].slots) \in Nat /\ getNumTuples(f[q].slots) \in Nat
        /\ f[q].right = (IF m = 1 THEN 0 ELSE inner[2].child) /\ m \in Nat /\ m >= 1
        /\ p \in PageNo /\ q \in PageNo
    BY FirstTwo
  <2>2. LeavesOK(f) /\ getNumTuples(f[p].slots) < NumSlots \div 2
    BY DEF FirstShort
  <2>3. getNumTuples(f[p].slots) + getNumTuples(f[q].slots) <= NumSlots
    BY <2>1, <2>2, BTreeConstants
  <2>4. f[q].right \in leavesOf(f) \cup {0} /\ f[q].right # p /\ f[q].right # q
    <3>1. CASE m = 1
      BY <2>1, <3>1, PageNumbers
    <3>2. CASE m # 1
      <4>1. 0 \in 0 .. m /\ 1 \in 0 .. m /\ 2 \in 0 .. m
        BY <2>1, <3>2
      <4>2. /\ \A d, e \in 0 .. m : inner[d].child = inner[e].child => d = e
            /\ p = inner[0].child /\ q = inner[1].child
            /\ leavesOf(f) = { inner[e].child : e \in 0 .. m }
        BY Zenon DEF FirstShort, EntriesOK, OneShort, LinkedOK
      <4>3. inner[2].child \in leavesOf(f) /\ inner[2].child # p /\ inner[2].child # q
        BY <4>1, <4>2
      <4> QED BY <2>1, <3>2, <4>3
    <3> QED BY <3>1, <3>2
  <2> QED BY <1>2, <2>1, <2>2, <2>3, <2>4, JoinedLeaves
<1>9. CASE asserts /\ stop("merge")
  BY <1>9, StopStep
<1>10. CASE /\ ~ asserts /\ last /\ fits(tp)
            /\ leaf' = [h EXCEPT ![p].parent = 0] /\ inner' = Null /\ innerId' = 0 /\ root' = p
            /\ spaceBecomes(tp) /\ UNCHANGED <<asserts, appends, outcome>>
  <2>1. m = 1 /\ last = TRUE
    BY <1>7, <1>10
  <2>2. tp = setEmptyPage(setEmptyPage(space, innerId), q)
    BY <1>4, <2>1 DEF spaceAfterMerge
  <2>3. FirstShort(f, 1, p, q)
    BY <2>1
  <2> QED BY <1>8, <1>10, <2>2, <2>3, MergeLast
<1>11. CASE /\ ~ asserts /\ ~ last /\ fits(tp)
            /\ leaf' = h /\ inner' = C /\ spaceBecomes(tp)
            /\ outcome' = "empty page" /\ UNCHANGED <<innerId, root, asserts, appends>>
  <2>1. m # 1 /\ last = FALSE
    BY <1>3, <1>7, <1>11
  <2>2. tp = setEmptyPage(space, q)
    BY <1>4, <2>1 DEF spaceAfterMerge
  <2> QED BY <1>6, <1>8, <1>11, <2>1, <2>2, MergeStop
<1> QED BY <1>5, <1>9, <1>10, <1>11

(* A leaf that is not the root gets less than half full. *)
LEMMA UnderflowStep ==
    ASSUME Inv, ~ StoppedTree, NEW p \in leavesOf(leaf), NEW s, NEW f, Deleted(leaf, p, s, f),
           ~ isRoot(p), getNumEmptySlots(f[p].slots) > maxEmptySlots, HandleMinOccupancy(f, p)
    PROVE  Inv' /\ (leaf' = leaf \/ SameCounts(f, leaf'))
<1>1. PICK q : q = inner[1].child
  OBVIOUS
<1>2. \/ inner[1] = Null
      \/ stop("looping")
      \/ inner[0].child = p /\ getNumEmptySlots(f[q].slots) >= maxEmptySlots /\ mergeLeafPages(f, p, q)
      \/ inner[0].child = p /\ getNumEmptySlots(f[q].slots) < maxEmptySlots /\ stealFromLeafPage(f, p, q)
  BY <1>1, Zenon DEF HandleMinOccupancy
<1>3. CASE stop("looping")
  BY <1>3, StopStep
<1>a. p \in PageNo /\ LeavesOK(f) /\ leavesOf(f) = leavesOf(leaf) /\ LeavesOK(leaf)
  BY DEF Deleted, Inv, leavesOf
<1>b. InnerTree(leaf, inner, innerId, root)
  <2>1. hasRoot
    <3>1. NoTree(leaf, inner, innerId, root, filePages, headers) => leaf[p] = Null
      BY <1>a DEF NoTree
    <3>2. leaf[p] # Null
      BY DEF leavesOf
    <3> QED BY <3>1, <3>2, RunningTree
  <2>2. ~ LeafTree(leaf, inner, innerId, root)
    BY DEF LeafTree, isRoot
  <2> QED BY <2>1, <2>2, RunningTree
<1>c. PICK m \in 1 .. MaxEntries : EntriesOK(inner, m) /\ TreeOK(leaf, inner, m, innerId)
  BY <1>b DEF InnerTree
<1>d. inner[1] # Null
  <2>1. m \in Nat /\ 1 \in 0 .. m /\ used(inner) = 0 .. m
    BY <1>c, EntryFields DEF EntriesOK
  <2> QED BY <2>1 DEF used
<1>4. ASSUME inner[0].child = p PROVE \E n : FirstShort(f, n, p, q)
  <2>1. /\ m \in Nat /\ 0 \in 0 .. m
        /\ \A c, d \in 0 .. m : inner[c].child = inner[d].child => c = d
    BY <1>c, EntryFields DEF EntriesOK
  <2>2. OneShort(f, inner, m, innerId, 0)
    BY <1>4, <1>a, <1>c, <2>1, DeletionKeepsLinks
  <2>3. getNumTuples(f[p].slots) < NumSlots \div 2
    <3>1. LeafOK(p, f[p].slots)
      BY <1>a, LeafFields
    <3> QED BY <3>1, HalfFull
  <2>4. FirstShort(f, m, p, q)
    BY <1>1, <1>4, <1>a, <1>b, <1>c, <2>2, <2>3 DEF FirstShort, InnerTree
  <2> QED BY <2>4
<1>5. CASE inner[0].child = p /\ getNumEmptySlots(f[q].slots) >= maxEmptySlots /\ mergeLeafPages(f, p, q)
  <2>1. PICK n : FirstShort(f, n, p, q)
    BY <1>4, <1>5
  <2>2. LeafOK(q, f[q].slots)
    BY <2>1, FirstTwo
  <2>3. getNumTuples(f[q].slots) <= NumSlots \div 2
    BY <1>5, <2>2, HalfFull
  <2>4. mergeLeafPages(f, p, q)
    BY <1>5
  <2> QED BY <2>1, <2>3, <2>4, MergeStep
<1>6. CASE inner[0].child = p /\ getNumEmptySlots(f[q].slots) < maxEmptySlots /\ stealFromLeafPage(f, p, q)
  <2>1. PICK n : FirstShort(f, n, p, q)
    BY <1>4, <1>6
  <2>2. LeafOK(q, f[q].slots)
    BY <2>1, FirstTwo
  <2>3. getNumTuples(f[q].slots) > NumSlots \div 2
    BY <1>6, <2>2, HalfFull
  <2>4. stealFromLeafPage(f, p, q)
    BY <1>6
  <2> QED BY <2>1, <2>3, <2>4, StealStep
<1> QED BY <1>2, <1>3, <1>5, <1>6, <1>d

(* Where a merge left no entry in the first slot, a deletion only takes    *)
(* the tuple.                                                              *)
LEMMA StoppedDeletion ==
    ASSUME Inv, StoppedTree, NEW p \in leavesOf(leaf), NEW s, NEW f, Deleted(leaf, p, s, f),
           HandleMinOccupancy(f, p) \/ leavesBecome(f)
    PROVE  Inv' /\ leaf' = f
<1>1. PICK m \in 2 .. MaxEntries : Ordered(leaf, inner, innerId, m, withoutFirst(m))
  BY DEF StoppedTree
<1>2. PICK g : g = withoutFirst(m)
  OBVIOUS
<1>3. Ordered(leaf, inner, innerId, m, g) /\ RangesAgree(leaf, inner)
  BY <1>1, <1>2 DEF StoppedTree
<1>4. leavesBecome(f)
  <2>1. used(inner) = { g[i] : i \in 1 .. m }
    BY <1>3 DEF Ordered, Below
  <2>2. \A i \in 1 .. m : g[i] # 1
    BY <1>2 DEF withoutFirst
  <2>3. 1 \in Entry /\ DOMAIN inner = Entry
    <3>1. inner \in [Entry -> InnerEntry \cup {Null}]
      BY DEF StoppedTree
    <3>2. MaxEntries \in Nat \ {0}
      BY BTreeConstants
    <3> QED BY <3>1, <3>2 DEF Entry
  <2>4. inner[1] = Null
    BY <2>1, <2>2, <2>3 DEF used
  <2> QED BY <2>4, Zenon DEF HandleMinOccupancy
<1>5. /\ leaf' = f
      /\ UNCHANGED <<inner, innerId, root, filePages, tail, headers, asserts, appends, outcome>>
  BY <1>4 DEF leavesBecome
<1>6. /\ LeavesOK(f) /\ leavesOf(f) = leavesOf(leaf)
      /\ \A r \in leavesOf(leaf) :
          /\ f[r].parent = leaf[r].parent /\ f[r].left = leaf[r].left /\ f[r].right = leaf[r].right
          /\ keysIn(f[r].slots) \subseteq keysIn(leaf[r].slots)
  <2>1. \A r \in leavesOf(leaf) : r \in PageNo
    BY DEF leavesOf
  <2> QED BY <2>1 DEF Deleted
<1>7. leavesOf(leaf) = { inner[g[i]].child : i \in 1 .. m }
  BY <1>3 DEF Ordered, Below
<1>8. Ordered(f, inner, innerId, m, g)
  <2>1. Below(f, inner, innerId, m, g)
    <3>1. \A i \in 1 .. m : inner[g[i]].child \in leavesOf(leaf)
      BY <1>7
    <3>2. Below(leaf, inner, innerId, m, g)
      BY <1>3 DEF Ordered
    <3>3. \A i \in 1 .. m :
             /\ f[inner[g[i]].child].right = leaf[inner[g[i]].child].right
             /\ f[inner[g[i]].child].left = leaf[inner[g[i]].child].left
             /\ f[inner[g[i]].child].parent = leaf[inner[g[i]].child].parent
      BY <1>6, <3>1
    <3>4. \A i \in 1 .. m :
             /\ f[inner[g[i]].child].right = IF i = m THEN 0 ELSE inner[g[i + 1]].child
             /\ f[inner[g[i]].child].left = IF i = 1 THEN 0 ELSE inner[g[i - 1]].child
             /\ f[inner[g[i]].child].parent = innerId
      <4> SUFFICES ASSUME NEW i \in 1 .. m
                   PROVE  /\ f[inner[g[i]].child].right = IF i = m THEN 0 ELSE inner[g[i + 1]].child
                          /\ f[inner[g[i]].child].left = IF i = 1 THEN 0 ELSE inner[g[i - 1]].child
                          /\ f[inner[g[i]].child].parent = innerId
        OBVIOUS
      <4>1. /\ leaf[inner[g[i]].child].right = IF i = m THEN 0 ELSE inner[g[i + 1]].child
            /\ leaf[inner[g[i]].child].left = IF i = 1 THEN 0 ELSE inner[g[i - 1]].child
            /\ leaf[inner[g[i]].child].parent = innerId
        BY <3>2 DEF Below
      <4> QED BY <3>3, <4>1
    <3>5. leavesOf(f) = { inner[g[i]].child : i \in 1 .. m }
      BY <1>6, <1>7
    <3> QED BY <3>2, <3>4, <3>5, Zenon DEF Below
  <2> QED BY <1>3, <2>1 DEF Ordered
<1>9. RangesAgree(f, inner)
  <2> SUFFICES ASSUME inner # Null, NEW e \in used(inner), NEW t \in used(f[inner[e].child].slots)
               PROVE  LET k == f[inner[e].child].slots[t].key
                      IN  /\ e # 0 => inner[e].key <= k
                          /\ \A n \in following(inner, e) : k <= inner[n].key
    BY DEF RangesAgree
  <2>1. PICK c : c = inner[e].child
    OBVIOUS
  <2>2. c \in leavesOf(leaf)
    BY <1>3, <1>7, <2>1 DEF Ordered, Below
  <2>3. f[c].slots[t].key \in keysIn(leaf[c].slots)
    BY <1>6, <2>1, <2>2 DEF keysIn
  <2>4. PICK u \in used(leaf[c].slots) : leaf[c].slots[u].key = f[c].slots[t].key
    BY <2>3 DEF keysIn
  <2> QED BY <1>3, <2>1, <2>4 DEF RangesAgree
<1>10. StoppedTree'
  <2>1. \E j \in 2 .. MaxEntries : Ordered(leaf', inner', innerId', j, withoutFirst(j))
    BY <1>2, <1>5, <1>8
  <2>2. RangesAgree(leaf', inner')
    BY <1>5, <1>9
  <2> QED BY <1>5, <2>1, <2>2 DEF StoppedTree
<1>11. /\ LeavesOK(leaf')
       /\ PagesOK(leavesOf(leaf'), innerPages(inner', innerId'), filePages', headers')
  BY <1>5, <1>6 DEF Inv
<1> QED BY <1>5, <1>10, <1>11, InvPrime DEF Inv

(* deleteTuple. *)
LEMMA DeleteTupleStep ==
    ASSUME Inv, NEW p \in PageNo, NEW s \in Slot, DeleteTuple(p, s)
    PROVE  Inv' /\ (leaf' = leaf \/ \E k \in Keys : Loses(leaf, leaf', k))
<1>1. p \in leavesOf(leaf)
  BY DeletionSlot
<1>2. PICK f : /\ Deleted(leaf, p, s, f)
               /\ \/ /\ ~ isRoot(p)
                     /\ getNumEmptySlots(f[p].slots) > maxEmptySlots
                     /\ HandleMinOccupancy(f, p)
                  \/ /\ isRoot(p) \/ getNumEmptySlots(f[p].slots) <= maxEmptySlots
                     /\ leavesBecome(f)
  BY DeletionSlot
<1>3. PICK k \in Keys : Loses(leaf, f, k)
  BY <1>2 DEF Deleted
<1>4. SameCounts(f, leaf') => Loses(leaf, leaf', k)
  BY <1>3 DEF SameCounts, Loses
<1>5. CASE StoppedTree
  <2>1. Inv' /\ leaf' = f
    BY <1>1, <1>2, <1>5, StoppedDeletion
  <2> QED BY <1>3, <2>1
<1>6. CASE ~ StoppedTree
  <2>1. CASE ~ isRoot(p) /\ getNumEmptySlots(f[p].slots) > maxEmptySlots /\ HandleMinOccupancy(f, p)
    <3>1. Inv' /\ (leaf' = leaf \/ SameCounts(f, leaf'))
      BY <1>1, <1>2, <1>6, <2>1, UnderflowStep
    <3> QED BY <1>4, <3>1
  <2>2. CASE /\ isRoot(p) \/ getNumEmptySlots(f[p].slots) <= maxEmptySlots
             /\ leavesBecome(f)
    <3>1. /\ leaf' = f
          /\ UNCHANGED <<inner, innerId, root, filePages, tail, headers, asserts, appends, outcome>>
      BY <2>2 DEF leavesBecome
    <3>2. Inv'
      BY <1>1, <1>2, <1>6, <2>2, <3>1, DeletionStep
    <3> QED BY <1>3, <3>1, <3>2
  <2> QED BY <1>2, <2>1, <2>2
<1> QED BY <1>5, <1>6

(* A new file. *)
LEMMA NewFile ==
    ASSUME NEW f, f = [p \in PageNo |-> Null]
    PROVE  /\ LeavesOK(f) /\ leavesOf(f) = {}
           /\ PagesOK(leavesOf(f), innerPages(Null, 0), 0, <<>>)
           /\ NoTree(f, Null, 0, 0, 0, <<>>)
<1>1. leavesOf(f) = {} /\ LeavesOK(f)
  BY DEF leavesOf, LeavesOK
<1>2. headerPages(<<>>) = {} /\ freePages(<<>>) = {} /\ 0 \in PagePointer
  BY NoHeader, PageNumbers
<1>3. Parts({}, {}, {}, {}, 1 .. 0)
  BY DEF Parts
<1>4. PagesOK({}, {}, 0, <<>>)
  BY <1>2, <1>3 DEF PagesOK
<1> QED BY <1>1, <1>4 DEF innerPages, NoTree

(* A new file, after the process stopped. *)
LEMMA ReopenStep ==
    ASSUME Inv, Reopen
    PROVE  Inv'
<1>1. /\ leaf' = [p \in PageNo |-> Null] /\ inner' = Null /\ innerId' = 0 /\ root' = 0
      /\ filePages' = 0 /\ headers' = <<>> /\ outcome' = "running" /\ asserts' = asserts
      /\ appends' = appends /\ tail' \in 0 .. PageSize - 1
  BY FileConstants DEF Reopen
<1>2. /\ LeavesOK(leaf')
      /\ PagesOK(leavesOf(leaf'), innerPages(inner', innerId'), filePages', headers')
      /\ NoTree(leaf', inner', innerId', root', filePages', headers')
  <2>1. PICK f : f = [p \in PageNo |-> Null]
    OBVIOUS
  <2>2. /\ LeavesOK(f) /\ PagesOK(leavesOf(f), innerPages(Null, 0), 0, <<>>)
        /\ NoTree(f, Null, 0, 0, 0, <<>>)
    BY <2>1, NewFile
  <2>3. leaf' = f
    BY <1>1, <2>1
  <2> QED BY <1>1, <2>2, <2>3
<1> QED BY <1>1, <1>2, InvPrime DEF Inv

(* Initially there is no tree. *)
LEMMA InitInv == Init => Inv
<1> SUFFICES ASSUME Init PROVE Inv
  OBVIOUS
<1>1. /\ leaf = [p \in PageNo |-> Null] /\ inner = Null /\ innerId = 0 /\ root = 0
      /\ filePages = 0 /\ headers = <<>> /\ outcome = "running" /\ asserts \in BOOLEAN
      /\ appends \in BOOLEAN /\ tail \in 0 .. PageSize - 1
  BY FileConstants DEF Init
<1>2. /\ LeavesOK(leaf) /\ PagesOK(leavesOf(leaf), innerPages(Null, 0), 0, <<>>)
      /\ NoTree(leaf, Null, 0, 0, 0, <<>>)
  BY <1>1, NewFile
<1> QED BY <1>1, <1>2 DEF Inv

(* Every operation keeps the invariant. *)
LEMMA StepInv == Inv /\ [Next]_vars => Inv'
<1> SUFFICES ASSUME Inv, [Next]_vars PROVE Inv'
  OBVIOUS
<1>1. ASSUME outcome = "running", NEW k \in Keys, InsertTuple(k) PROVE Inv'
  <2>1. ~ StoppedTree
    BY <1>1 DEF StoppedTree
  <2> QED BY <1>1, <2>1, InsertFirstStep, InsertInLeafStep, InsertSplitStep DEF InsertTuple
<1>2. ASSUME NEW p \in PageNo, NEW s \in Slot, DeleteTuple(p, s) PROVE Inv'
  BY <1>2, DeleteTupleStep
<1>3. CASE Reopen
  BY <1>3, ReopenStep
<1>4. CASE UNCHANGED vars
  <2>1. /\ leaf' = leaf /\ inner' = inner /\ innerId' = innerId /\ root' = root
        /\ filePages' = filePages /\ headers' = headers /\ asserts' = asserts /\ outcome' = outcome
        /\ tail' = tail /\ appends' = appends
    BY <1>4 DEF vars
  <2>2. StoppedTree => StoppedTree'
    <3>1. RangesAgree(leaf, inner) => RangesAgree(leaf', inner')
      BY <2>1
    <3>2. ASSUME NEW j, Ordered(leaf, inner, innerId, j, withoutFirst(j))
          PROVE  Ordered(leaf', inner', innerId', j, withoutFirst(j))
      BY <2>1, <3>2
    <3> QED BY <2>1, <3>1, <3>2 DEF StoppedTree
  <2>3. /\ asserts \in BOOLEAN /\ appends \in BOOLEAN /\ tail \in 0 .. PageSize - 1
        /\ outcome \in {"running", "internal page full", "merge", "empty page", "looping"}
        /\ LeavesOK(leaf)
        /\ PagesOK(leavesOf(leaf), innerPages(inner, innerId), filePages, headers)
        /\ \/ NoTree(leaf, inner, innerId, root, filePages, headers)
           \/ LeafTree(leaf, inner, innerId, root)
           \/ InnerTree(leaf, inner, innerId, root)
           \/ StoppedTree
    BY DEF Inv
  <2> QED BY <2>1, <2>2, <2>3, InvPrime
<1> QED BY <1>1, <1>2, <1>3, <1>4 DEF Next

-------------------------------------------------------------------------------
(* What the invariant says.                                                *)

(* g counts the slots of m + 1 entries. *)
InTurn(m, n, g) == n = m + 1 /\ g = [i \in 1 .. n |-> i - 1]

(* The entries and the leaves of a complete tree, in order. *)
LEMMA TreeOrder ==
    ASSUME NEW m \in 1 .. MaxEntries, EntriesOK(inner, m), TreeOK(leaf, inner, m, innerId),
           LeavesOK(leaf), NEW n, NEW g, InTurn(m, n, g)
    PROVE  Ordered(leaf, inner, innerId, n, g) /\ RangesAgree(leaf, inner)
<1>2. /\ m \in Nat /\ inner # Null /\ used(inner) = 0 .. m
      /\ inner \in [Entry -> InnerEntry \cup {Null}]
      /\ \A d, e \in 0 .. m : inner[d].child = inner[e].child => d = e
  BY EntryFields DEF EntriesOK
<1>3. LinkedOK(leaf, inner, m, innerId) /\ RangesOK(leaf, inner, m)
  BY DEF TreeOK
<1>4. n \in Nat /\ n \in 2 .. MaxEntries + 1 /\ n = m + 1 /\ g = [i \in 1 .. n |-> i - 1]
  BY <1>2, PageNumbers DEF InTurn
<1>6. /\ g \in [1 .. n -> Int] /\ \A i, j \in 1 .. n : i < j => g[i] < g[j]
      /\ \A i \in 1 .. n : g[i] \in 0 .. m /\ g[i] = i - 1
      /\ \A d \in 0 .. m : d + 1 \in 1 .. n /\ g[d + 1] = d
  BY <1>2, <1>4
<1>7. Below(leaf, inner, innerId, n, g)
  <2>1. used(inner) = { g[i] : i \in 1 .. n }
    <3>1. \A d \in 0 .. m : \E i \in 1 .. n : d = g[i]
      BY <1>6
    <3>2. \A i \in 1 .. n : g[i] \in 0 .. m
      BY <1>6
    <3>3. 0 .. m = { g[i] : i \in 1 .. n }
      BY <3>1, <3>2
    <3> QED BY <1>2, <3>3, Zenon
  <2>2. leavesOf(leaf) = { inner[g[i]].child : i \in 1 .. n }
    <3>1. leavesOf(leaf) = { inner[d].child : d \in 0 .. m }
      BY <1>3, Zenon DEF LinkedOK
    <3>2. \A x \in leavesOf(leaf) : \E i \in 1 .. n : x = inner[g[i]].child
      BY <1>6, <3>1
    <3>3. \A i \in 1 .. n : inner[g[i]].child \in leavesOf(leaf)
      BY <1>6, <3>1
    <3> QED BY <3>2, <3>3
  <2>3. \A i, j \in 1 .. n : inner[g[i]].child = inner[g[j]].child => i = j
    <3> SUFFICES ASSUME NEW i \in 1 .. n, NEW j \in 1 .. n,
                        inner[g[i]].child = inner[g[j]].child
                 PROVE  i = j
      OBVIOUS
    <3>1. g[i] \in 0 .. m /\ g[j] \in 0 .. m /\ g[i] = i - 1 /\ g[j] = j - 1
      BY <1>6
    <3>2. g[i] = g[j]
      BY <1>2, <3>1
    <3> QED BY <1>4, <3>1, <3>2
  <2>4. ASSUME NEW i \in 1 .. n
        PROVE  /\ leaf[inner[g[i]].child].right = IF i = n THEN 0 ELSE inner[g[i + 1]].child
               /\ leaf[inner[g[i]].child].left = IF i = 1 THEN 0 ELSE inner[g[i - 1]].child
               /\ leaf[inner[g[i]].child].parent = innerId
    <3>1. PICK d \in 0 .. m : d = g[i] /\ i = d + 1
      BY <1>4, <1>6
    <3>2. /\ leaf[inner[d].child].parent = innerId
          /\ leaf[inner[d].child].left = IF d = 0 THEN 0 ELSE inner[d - 1].child
          /\ leaf[inner[d].child].right = IF d = m THEN 0 ELSE inner[d + 1].child
      BY <1>3 DEF LinkedOK
    <3>3. (i # n => i + 1 \in 1 .. n /\ g[i + 1] = d + 1) /\ (i = n <=> d = m)
      BY <1>4, <1>6, <3>1
    <3>4. (i # 1 => i - 1 \in 1 .. n /\ g[i - 1] = d - 1) /\ (i = 1 <=> d = 0)
      BY <1>4, <1>6, <3>1
    <3> QED BY <3>1, <3>2, <3>3, <3>4
  <2> QED BY <1>4, <1>6, <2>1, <2>2, <2>3, <2>4 DEF Below
<1>9. RangesAgree(leaf, inner)
  <2>1. \A e \in 0 .. m : following(inner, e) = IF e = m THEN {} ELSE {e + 1}
    BY Neighbours
  <2>2. \A e \in 0 .. m : \A n1 \in following(inner, e) : n1 = e + 1 /\ e # m
    BY <2>1
  <2>3. \A e \in 0 .. m : \A k \in keysIn(leaf[inner[e].child].slots) :
          (e # 0 => inner[e].key <= k) /\ (e # m => k <= inner[e + 1].key)
    BY <1>3 DEF RangesOK
  <2> QED BY <1>2, <2>2, <2>3 DEF RangesAgree, keysIn
<1>10. \A i \in 2 .. n : i \in 1 .. n /\ g[i] = i - 1 /\ i - 1 \in 1 .. m
  BY <1>2, <1>4, <1>6
<1>11. g[1] = 0
  <2>1. 1 \in 1 .. n
    BY <1>4
  <2> QED BY <1>6, <2>1
<1>12. \A i \in 2 .. n : inner[g[i]].key \in Keys
  BY <1>10, EntryFields
<1>13. ASSUME NEW i \in 2 .. n - 1 PROVE inner[g[i]].key <= inner[g[i + 1]].key
  <2>1. i \in 2 .. n /\ i + 1 \in 2 .. n /\ i - 1 \in 1 .. m - 1 /\ i - 1 \in 0 .. m
        /\ (i - 1) + 1 = i /\ (i + 1) - 1 = i
    BY <1>4
  <2>2. PICK e : e = i - 1
    OBVIOUS
  <2>3. getNumTuples(leaf[inner[e].child].slots) >= NumSlots \div 2
    BY <2>1, <2>2 DEF TreeOK, FilledOK
  <2>4. e \in 1 .. m - 1
    BY <2>1, <2>2
  <2>5. inner[e].key <= inner[e + 1].key
    BY <1>3, <2>3, <2>4, EntriesAscend
  <2>6. g[i] = e /\ g[i + 1] = e + 1
    BY <1>10, <2>1, <2>2
  <2> QED BY <2>5, <2>6
<1> QED BY <1>4, <1>7, <1>9, <1>11, <1>12, <1>13 DEF Ordered

(* The pages on which a tree consists. *)
LEMMA InvAgrees ==
    ASSUME Inv
    PROVE  /\ ChainAgrees(leaf, inner, innerId, root) /\ RangesAgree(leaf, inner)
           /\ inner = Null \/ inner \in [Entry -> InnerEntry \cup {Null}]
           /\ innerId \in PagePointer /\ root \in PagePointer
           /\ inner # Null => innerId \in PageNo
<1>1. CASE NoTree(leaf, inner, innerId, root, filePages, headers)
  <2>1. inner = Null /\ innerId = 0 /\ root = 0 /\ leaf = [p \in PageNo |-> Null]
    BY <1>1 DEF NoTree
  <2>2. leavesOf(leaf) = {}
    BY <2>1, NewFile
  <2>3. childrenOf(inner, root) = <<>>
    BY <2>1 DEF childrenOf
  <2>4. Range(<<>>) = {} /\ Len(<<>>) = 0 /\ Cardinality({}) = 0 /\ 1 .. 0 = {}
    BY FS_EmptySet DEF Range
  <2>5. ChainAgrees(leaf, inner, innerId, root)
    BY <2>2, <2>3, <2>4 DEF ChainAgrees
  <2> QED BY <2>1, <2>5, PageNumbers DEF RangesAgree
<1>2. CASE LeafTree(leaf, inner, innerId, root)
  <2>1. /\ inner = Null /\ innerId = 0 /\ root \in PageNo /\ leavesOf(leaf) = {root}
        /\ leaf[root].parent = 0 /\ leaf[root].left = 0 /\ leaf[root].right = 0
    BY <1>2 DEF LeafTree
  <2>2. PICK c : c = <<root>>
    OBVIOUS
  <2>3. childrenOf(inner, root) = c
    BY <2>1, <2>2, PageNumbers DEF childrenOf
  <2>4. Range(c) = {root} /\ Len(c) = 1 /\ c[1] = root /\ Cardinality({root}) = 1
    BY <2>2, FS_Singleton DEF Range
  <2>5. \A i \in 1 .. 1 : i = 1
    OBVIOUS
  <2>6. ChainAgrees(leaf, inner, innerId, root)
    BY <2>1, <2>3, <2>4, <2>5 DEF ChainAgrees
  <2> QED BY <2>1, <2>6, PageNumbers DEF RangesAgree
<1>3. CASE InnerTree(leaf, inner, innerId, root)
  <2>1. PICK m \in 1 .. MaxEntries : EntriesOK(inner, m) /\ TreeOK(leaf, inner, m, innerId)
    BY <1>3 DEF InnerTree
  <2>2. inner # Null /\ inner \in [Entry -> InnerEntry \cup {Null}]
    BY <2>1, EntryFields DEF EntriesOK
  <2>3. PICK n, g : n = m + 1 /\ g = [i \in 1 .. n |-> i - 1]
    OBVIOUS
  <2>4. LeavesOK(leaf)
    BY DEF Inv
  <2>5. Ordered(leaf, inner, innerId, n, g) /\ RangesAgree(leaf, inner)
    BY <2>1, <2>3, <2>4, TreeOrder DEF InTurn
  <2>6. ChainAgrees(leaf, inner, innerId, root)
    BY <2>2, <2>5, ChainIs DEF Ordered
  <2> QED BY <1>3, <2>2, <2>5, <2>6, PageNumbers DEF InnerTree
<1>4. CASE StoppedTree
  <2>1. PICK m \in 2 .. MaxEntries : Ordered(leaf, inner, innerId, m, withoutFirst(m))
    BY <1>4 DEF StoppedTree
  <2>2. inner # Null
    BY <1>4, NullIsNone DEF StoppedTree
  <2>3. ChainAgrees(leaf, inner, innerId, root)
    BY <2>1, <2>2, ChainIs DEF Ordered
  <2> QED BY <1>4, <2>3, PageNumbers DEF StoppedTree
<1> QED BY <1>1, <1>2, <1>3, <1>4 DEF Inv

(* The invariant gives the types, *)
LEMMA InvType == Inv => TypeOK
<1> SUFFICES ASSUME Inv PROVE TypeOK
  OBVIOUS
<1>1. leaf \in [PageNo -> Leaf \cup {Null}]
  BY DEF Inv, LeavesOK
<1>2. /\ inner = Null \/ inner \in [Entry -> InnerEntry \cup {Null}]
      /\ innerId \in PagePointer /\ root \in PagePointer
  BY InvAgrees
<1>3. /\ filePages \in PagePointer
      /\ headers = <<>> \/ \E h \in PageNo, F \in SUBSET PageNo : headers = oneHeader(h, F)
  BY DEF Inv, PagesOK
<1>4. headers \in Seq([page : PageNo, free : SUBSET HeaderSlot])
  <2>1. CASE headers = <<>>
    BY <2>1
  <2>2. ASSUME NEW h \in PageNo, NEW F \in SUBSET PageNo, headers = oneHeader(h, F)
        PROVE  headers \in Seq([page : PageNo, free : SUBSET HeaderSlot])
    <3>1. F \in SUBSET HeaderSlot
      BY PageNumbers
    <3>2. [page |-> h, free |-> F] \in [page : PageNo, free : SUBSET HeaderSlot]
      BY <3>1
    <3>3. PICK x \in [page : PageNo, free : SUBSET HeaderSlot] : x = [page |-> h, free |-> F]
      BY <3>2
    <3>4. headers = <<x>>
      BY <2>2, <3>3 DEF oneHeader
    <3> QED BY <3>4
  <2> QED BY <1>3, <2>1, <2>2
<1>5. /\ asserts \in BOOLEAN /\ appends \in BOOLEAN /\ tail \in 0 .. PageSize - 1
      /\ outcome \in {"running", "internal page full", "invalid entry",
                      "merge", "empty page", "looping", "invalid tuple"}
  BY DEF Inv
<1> QED BY <1>1, <1>2, <1>3, <1>4, <1>5 DEF TypeOK

(* ... the record ids, *)
LEMMA InvRecordIds == Inv => RecordIdsMatch
<1> SUFFICES ASSUME Inv, NEW p \in Leaves, NEW s \in used(leaf[p].slots)
             PROVE  leaf[p].slots[s].page = p /\ leaf[p].slots[s].slot = s
  BY DEF RecordIdsMatch
<1>1. LeafOK(p, leaf[p].slots)
  BY DEF Inv, LeavesOK, Leaves, leavesOf
<1> QED BY <1>1, LeafSlots

(* How many of four facts hold. *)
LEMMA OneOfFour ==
    ASSUME NEW a \in BOOLEAN, NEW b \in BOOLEAN, NEW c \in BOOLEAN, NEW d \in BOOLEAN,
           ~ (a /\ b), ~ (a /\ c), ~ (a /\ d), ~ (b /\ c), ~ (b /\ d), ~ (c /\ d)
    PROVE  Cardinality({ i \in 1 .. 4 : <<a, b, c, d>>[i] }) = IF a \/ b \/ c \/ d THEN 1 ELSE 0
<1> DEFINE u == <<a, b, c, d>>
           S == { i \in 1 .. 4 : u[i] }
<1>1. u[1] = a /\ u[2] = b /\ u[3] = c /\ u[4] = d
  OBVIOUS
<1>2. 1 .. 4 = {1, 2, 3, 4}
  OBVIOUS
<1> HIDE DEF u
<1>3. CASE a
  <2>1. S = {1}
    BY <1>1, <1>2, <1>3
  <2> QED BY <1>3, <2>1, FS_Singleton DEF u
<1>4. CASE b
  <2>1. S = {2}
    BY <1>1, <1>2, <1>4
  <2> QED BY <1>4, <2>1, FS_Singleton DEF u
<1>5. CASE c
  <2>1. S = {3}
    BY <1>1, <1>2, <1>5
  <2> QED BY <1>5, <2>1, FS_Singleton DEF u
<1>6. CASE d
  <2>1. S = {4}
    BY <1>1, <1>2, <1>6
  <2> QED BY <1>6, <2>1, FS_Singleton DEF u
<1>7. CASE ~ (a \/ b \/ c \/ d)
  <2>1. S = {}
    BY <1>1, <1>2, <1>7
  <2> QED BY <1>7, <2>1, FS_EmptySet DEF u
<1> QED BY <1>3, <1>4, <1>5, <1>6, <1>7

(* Membership is a truth value. *)
LEMMA InIsBoolean == \A x, S : (x \in S) \in BOOLEAN
OBVIOUS

(* ... and the pages: at most one of the four facts holds of a page, none  *)
(* of one behind the file, and one of every page of the file if no number  *)
(* was skipped.                                                            *)
LEMMA InvPages == Inv => PagesAccounted
<1> DEFINE uses(p) == << p \in Leaves, inner # Null /\ p = innerId,
                         p \in headerPages(headers), p \in freePages(headers) >>
           counted(p) == Cardinality({ i \in 1 .. 4 : uses(p)[i] })
<1> SUFFICES ASSUME Inv, NEW p \in PageNo
             PROVE  IF p > filePages THEN counted(p) = 0
                    ELSE IF appends THEN counted(p) <= 1 ELSE counted(p) = 1
  BY DEF PagesAccounted
<1>b. PICK n : n = counted(p)
  OBVIOUS
<1>1. PICK a \in BOOLEAN : a = (p \in Leaves)
  BY InIsBoolean, Zenon
<1>2. PICK b \in BOOLEAN : b = (inner # Null /\ p = innerId)
  OBVIOUS
<1>3. PICK c \in BOOLEAN : c = (p \in headerPages(headers))
  BY InIsBoolean, Zenon
<1>4. PICK d \in BOOLEAN : d = (p \in freePages(headers))
  BY InIsBoolean, Zenon
<1>5. Parts(leavesOf(leaf), innerPages(inner, innerId), headerPages(headers), freePages(headers),
            1 .. filePages)
  BY DEF Inv, PagesOK
<1>6. (a <=> p \in leavesOf(leaf)) /\ (b <=> p \in innerPages(inner, innerId))
      /\ (c <=> p \in headerPages(headers)) /\ (d <=> p \in freePages(headers))
  BY <1>1, <1>2, <1>3, <1>4 DEF leavesOf, Leaves, innerPages
<1>7. ~ (a /\ b) /\ ~ (a /\ c) /\ ~ (a /\ d) /\ ~ (b /\ c) /\ ~ (b /\ d) /\ ~ (c /\ d)
  BY <1>5, <1>6 DEF Parts
<1>8. /\ a \/ b \/ c \/ d => p \in 1 .. filePages
      /\ ~ appends /\ p \in 1 .. filePages => a \/ b \/ c \/ d
  BY <1>5, <1>6 DEF Parts
<1>9. p \in 1 .. filePages <=> ~ (p > filePages)
  <2>1. filePages \in PagePointer
    BY DEF Inv, PagesOK
  <2>2. filePages \in Int /\ p \in Int /\ p >= 1
    BY <2>1, PageNumbers, BTreeConstants
  <2> QED BY <2>2
<1>10. Cardinality({ i \in 1 .. 4 : <<a, b, c, d>>[i] }) = IF a \/ b \/ c \/ d THEN 1 ELSE 0
  BY <1>7, OneOfFour
<1>11. n = Cardinality({ i \in 1 .. 4 : <<a, b, c, d>>[i] })
  BY <1>1, <1>2, <1>3, <1>4, <1>b, Zenon
<1>12. n = IF a \/ b \/ c \/ d THEN 1 ELSE 0
  BY <1>10, <1>11
<1>13. IF p > filePages THEN n = 0 ELSE IF appends THEN n <= 1 ELSE n = 1
  BY <1>8, <1>9, <1>12
<1> QED BY <1>b, <1>13

-------------------------------------------------------------------------------
(* The leaves that an iterator visits.                                     *)

(* The leaves c[1], c[2], ... c[n], linked from left to right. *)
Chain(f, c, n) ==
    /\ n \in 1 .. MaxEntries + 1
    /\ c \in [1 .. n -> PageNo]
    /\ leavesOf(f) = { c[i] : i \in 1 .. n }
    /\ \A i \in 1 .. n : f[c[i]].right = IF i = n THEN 0 ELSE c[i + 1]

(* From leaf c[i] on, right siblings are those that follow in the chain. *)
fromLeaf(c, n, i) ==
    [j \in 1 .. MaxEntries + 1 |-> IF i + j - 1 <= n THEN c[i + j - 1] ELSE 0]

(* nthLeaf steps once to the right. *)
step(q) == IF q = 0 THEN 0 ELSE getRightSiblingId(q)

(* A function that steps to the right is nthLeaf. *)
LEMMA NthLeafIs ==
    ASSUME NEW p, NEW G, G = [j \in 1 .. MaxEntries + 1 |-> G[j]], G[1] = p,
           \A j \in 2 .. MaxEntries + 1 : G[j] = step(G[j - 1])
    PROVE  nthLeaf(p) = G
<1> DEFINE M == MaxEntries + 1
           Is(F) == F = [n \in 1 .. M |-> IF n = 1 THEN p ELSE step(F[n - 1])]
<1>1. M \in Nat /\ M >= 1 /\ MaxEntries \in Nat
  BY BTreeConstants
<1>2. Is(G)
  <2>1. ASSUME NEW j \in 1 .. M PROVE G[j] = IF j = 1 THEN p ELSE step(G[j - 1])
    <3>1. j # 1 => j \in 2 .. MaxEntries + 1
      BY <1>1
    <3> QED BY <3>1
  <2> QED BY <2>1, Zenon
<1>3. ASSUME NEW F, Is(F) PROVE F = G
  <2>1. ASSUME NEW i \in 1 .. MaxEntries, F[i] = G[i] PROVE F[i + 1] = G[i + 1]
    <3>1. i + 1 \in 2 .. MaxEntries + 1 /\ i + 1 \in 1 .. M /\ i + 1 # 1 /\ (i + 1) - 1 = i
      BY <1>1
    <3>2. F[i + 1] = step(F[(i + 1) - 1]) /\ G[i + 1] = step(G[(i + 1) - 1])
      BY <1>3, <3>1
    <3> QED BY <2>1, <3>1, <3>2
  <2>2. F[1] = G[1]
    BY <1>1, <1>3
  <2> DEFINE S == { i \in 0 .. MaxEntries : F[i + 1] = G[i + 1] }
  <2>3. 0 \in S
    BY <1>1, <2>2
  <2>4. \A i \in 1 .. MaxEntries : i - 1 \in S => i \in S
    <3> SUFFICES ASSUME NEW i \in 1 .. MaxEntries, i - 1 \in S PROVE i \in S
      OBVIOUS
    <3>1. F[(i - 1) + 1] = G[(i - 1) + 1] /\ (i - 1) + 1 = i /\ i \in 0 .. MaxEntries
      BY <1>1
    <3>2. F[i] = G[i]
      BY <3>1
    <3>3. F[i + 1] = G[i + 1]
      BY <2>1, <3>2
    <3> QED BY <3>1, <3>3
  <2>5. \A i \in 0 .. MaxEntries : i \in S
    <3> HIDE DEF S
    <3> QED BY <1>1, <2>3, <2>4, UpToN
  <2>6. ASSUME NEW j \in 1 .. M PROVE F[j] = G[j]
    <3>1. j - 1 \in 0 .. MaxEntries /\ (j - 1) + 1 = j
      BY <1>1
    <3>2. F[(j - 1) + 1] = G[(j - 1) + 1]
      BY <2>5, <3>1
    <3> QED BY <3>1, <3>2
  <2>7. F = [j \in 1 .. M |-> F[j]]
    BY <1>3
  <2> QED BY <2>6, <2>7
<1>4. nthLeaf(p) = CHOOSE F : Is(F)
  BY DEF nthLeaf, step
<1>5. Is(CHOOSE F : Is(F))
  <2> HIDE DEF Is
  <2> QED BY <1>2
<1> HIDE DEF Is
<1> QED BY <1>3, <1>4, <1>5

(* From a leaf of the chain an iterator visits it and those on its right. *)
LEMMA VisitedFrom ==
    ASSUME NEW c, NEW n, Chain(leaf, c, n), NEW i \in 1 .. n
    PROVE  /\ nthLeaf(c[i]) = fromLeaf(c, n, i)
           /\ visited(c[i]) = { c[j] : j \in i .. n }
<1>1. /\ n \in Nat /\ n >= 1 /\ n <= MaxEntries + 1 /\ MaxEntries \in Nat
      /\ \A j \in 1 .. n : c[j] \in PageNo /\ c[j] # 0
      /\ \A j \in 1 .. n : leaf[c[j]].right = IF j = n THEN 0 ELSE c[j + 1]
  BY PageNumbers DEF Chain
<1>2. PICK G : G = fromLeaf(c, n, i)
  OBVIOUS
<1>3. /\ G = [j \in 1 .. MaxEntries + 1 |-> G[j]]
      /\ \A j \in 1 .. MaxEntries + 1 : G[j] = IF i + j - 1 <= n THEN c[i + j - 1] ELSE 0
  BY <1>2 DEF fromLeaf
<1>4. G[1] = c[i]
  <2>1. 1 \in 1 .. MaxEntries + 1 /\ i + 1 - 1 = i /\ i <= n
    BY <1>1
  <2> QED BY <1>3, <2>1
<1>5. ASSUME NEW j \in 2 .. MaxEntries + 1 PROVE G[j] = step(G[j - 1])
  <2>1. j \in 1 .. MaxEntries + 1 /\ j - 1 \in 1 .. MaxEntries + 1
    BY <1>1
  <2>2. PICK d : d = i + (j - 1) - 1
    OBVIOUS
  <2>3. d \in Nat /\ d >= 1 /\ i + j - 1 = d + 1
    BY <1>1, <2>2
  <2>4. G[j] = (IF d + 1 <= n THEN c[d + 1] ELSE 0) /\ G[j - 1] = IF d <= n THEN c[d] ELSE 0
    BY <1>3, <2>1, <2>2, <2>3
  <2>5. CASE d <= n
    <3>1. d \in 1 .. n /\ (d + 1 <= n <=> d # n)
      BY <1>1, <2>3, <2>5
    <3> QED BY <1>1, <2>4, <2>5, <3>1 DEF step, getRightSiblingId
  <2>6. CASE ~ (d <= n)
    <3>1. ~ (d + 1 <= n)
      BY <1>1, <2>3, <2>6
    <3> QED BY <2>4, <2>6, <3>1 DEF step
  <2> QED BY <2>5, <2>6
<1>6. nthLeaf(c[i]) = G
  BY <1>3, <1>4, <1>5, NthLeafIs
<1>7. Range(G) \ {0} = { c[j] : j \in i .. n }
  <2>1. ASSUME NEW x \in Range(G) \ {0} PROVE x \in { c[j] : j \in i .. n }
    <3>1. PICK j \in 1 .. MaxEntries + 1 : x = G[j]
      BY <1>3 DEF Range
    <3>2. i + j - 1 <= n /\ x = c[i + j - 1]
      BY <1>3, <3>1
    <3>3. i + j - 1 \in i .. n
      BY <1>1, <3>2
    <3> QED BY <3>2, <3>3
  <2>2. ASSUME NEW j \in i .. n PROVE c[j] \in Range(G) \ {0}
    <3>1. j - i + 1 \in 1 .. MaxEntries + 1 /\ i + (j - i + 1) - 1 = j /\ j <= n /\ j \in 1 .. n
      BY <1>1
    <3>2. G[j - i + 1] = c[j]
      BY <1>3, <3>1
    <3> QED BY <1>1, <1>3, <3>1, <3>2 DEF Range
  <2> QED BY <2>1, <2>2
<1>8. visited(c[i]) = Range(nthLeaf(c[i])) \ {0}
  BY DEF visited
<1> QED BY <1>2, <1>6, <1>7, <1>8

(* The leaves below entries are chained in the order of the entries. *)
LEMMA OrderedChain ==
    ASSUME NEW f, LeavesOK(f), NEW E, NEW id, NEW n, NEW g, Ordered(f, E, id, n, g),
           NEW c, c = [i \in 1 .. n |-> E[g[i]].child]
    PROVE  Chain(f, c, n)
<1>1. /\ n \in Nat /\ n \in 2 .. MaxEntries + 1 /\ leavesOf(f) = { E[g[i]].child : i \in 1 .. n }
      /\ \A i \in 1 .. n : f[E[g[i]].child].right = IF i = n THEN 0 ELSE E[g[i + 1]].child
  BY DEF Ordered, Below
<1>2. \A i \in 1 .. n : c[i] = E[g[i]].child
  OBVIOUS
<1>3. c \in [1 .. n -> PageNo]
  <2>1. leavesOf(f) \subseteq PageNo
    BY DEF leavesOf
  <2> QED BY <1>1, <2>1
<1>4. leavesOf(f) = { c[i] : i \in 1 .. n }
  BY <1>1, <1>2
<1>5. n \in 1 .. MaxEntries + 1
  BY <1>1, PageNumbers
<1>6. \A i \in 1 .. n : f[c[i]].right = IF i = n THEN 0 ELSE c[i + 1]
  <2> SUFFICES ASSUME NEW i \in 1 .. n PROVE f[c[i]].right = IF i = n THEN 0 ELSE c[i + 1]
    OBVIOUS
  <2>1. i # n => i + 1 \in 1 .. n
    BY <1>1
  <2> QED BY <1>1, <1>2, <2>1
<1> QED BY <1>3, <1>4, <1>5, <1>6 DEF Chain

(* The tree of every state that has an internal page, in order. *)
LEMMA InvOrdered ==
    ASSUME Inv, inner # Null
    PROVE  /\ hasRoot /\ RangesAgree(leaf, inner)
           /\ \E n, g : Ordered(leaf, inner, innerId, n, g)
<1>1. CASE InnerTree(leaf, inner, innerId, root)
  <2>1. PICK m \in 1 .. MaxEntries : EntriesOK(inner, m) /\ TreeOK(leaf, inner, m, innerId)
    BY <1>1 DEF InnerTree
  <2>2. PICK n, g : InTurn(m, n, g)
    BY DEF InTurn
  <2>3. LeavesOK(leaf)
    BY DEF Inv
  <2>4. Ordered(leaf, inner, innerId, n, g)
    BY <2>1, <2>2, <2>3, TreeOrder
  <2> QED BY <1>1, <2>4, InvAgrees, PageNumbers DEF InnerTree, hasRoot
<1>2. CASE StoppedTree
  <2>1. \E n, g : Ordered(leaf, inner, innerId, n, g)
    BY <1>2 DEF StoppedTree
  <2> QED BY <1>2, <2>1, InvAgrees, PageNumbers DEF StoppedTree, hasRoot
<1> QED BY <1>1, <1>2 DEF Inv, NoTree, LeafTree

(* The leaves of a state are chained from its leftmost leaf on. *)
LEMMA InvChain ==
    ASSUME Inv, hasRoot
    PROVE  \E n, c : Chain(leaf, c, n) /\ leftmostLeaf = c[1]
<1>1. CASE inner = Null
  <2>1. LeafTree(leaf, inner, innerId, root)
    BY <1>1, EntryFields, NullIsNone DEF Inv, NoTree, InnerTree, StoppedTree, hasRoot
  <2>2. root \in PageNo /\ leavesOf(leaf) = {root} /\ leaf[root].right = 0 /\ leftmostLeaf = root
    BY <1>1, <2>1 DEF LeafTree, leftmostLeaf
  <2>3. PICK c, n : c = [i \in 1 .. 1 |-> root] /\ n = 1
    OBVIOUS
  <2>4. n \in 1 .. MaxEntries + 1 /\ 1 .. n = {1}
    BY <2>3, PageNumbers
  <2>5. c \in [1 .. n -> PageNo] /\ c[1] = root
    BY <2>2, <2>3
  <2>6. leavesOf(leaf) = { c[i] : i \in 1 .. n }
    BY <2>2, <2>4, <2>5
  <2>7. \A i \in 1 .. n : leaf[c[i]].right = IF i = n THEN 0 ELSE c[i + 1]
    BY <2>2, <2>3, <2>4, <2>5
  <2>8. Chain(leaf, c, n)
    BY <2>4, <2>5, <2>6, <2>7 DEF Chain
  <2> QED BY <2>2, <2>5, <2>8
<1>2. CASE inner # Null
  <2>1. PICK n, g : Ordered(leaf, inner, innerId, n, g)
    BY <1>2, InvOrdered
  <2>2. PICK c : c = [i \in 1 .. n |-> inner[g[i]].child]
    OBVIOUS
  <2>3. LeavesOK(leaf)
    BY DEF Inv
  <2>4. Chain(leaf, c, n)
    BY <2>1, <2>2, <2>3, OrderedChain
  <2>5. n \in Nat /\ 1 \in 1 .. n /\ g[1] = 0
    BY <2>1, PageNumbers DEF Ordered
  <2>6. leftmostLeaf = c[1]
    BY <1>2, <2>2, <2>5 DEF leftmostLeaf
  <2> QED BY <2>4, <2>6
<1> QED BY <1>1, <1>2

(* An iterator without a predicate visits all leaves. *)
LEMMA VisitsAll ==
    ASSUME Inv
    PROVE  visited(leftmostLeaf) = leavesOf(leaf)
<1>1. CASE hasRoot
  <2>1. PICK n, c : Chain(leaf, c, n) /\ leftmostLeaf = c[1]
    BY <1>1, InvChain
  <2>2. 1 \in 1 .. n
    BY <2>1, PageNumbers DEF Chain
  <2>3. visited(c[1]) = { c[j] : j \in 1 .. n }
    BY <2>1, <2>2, VisitedFrom
  <2> QED BY <2>1, <2>3, Zenon DEF Chain
<1>2. CASE ~ hasRoot
  <2>1. inner = Null /\ root = 0 /\ leaf = [p \in PageNo |-> Null]
    BY <1>2, PageNumbers DEF Inv, NoTree, LeafTree, InnerTree, StoppedTree, hasRoot
  <2>2. leftmostLeaf = 0 /\ leavesOf(leaf) = {}
    BY <2>1, NewFile DEF leftmostLeaf
  <2>3. PICK G : G = [j \in 1 .. MaxEntries + 1 |-> 0]
    OBVIOUS
  <2>4. /\ G = [j \in 1 .. MaxEntries + 1 |-> G[j]] /\ G[1] = 0
        /\ \A j \in 2 .. MaxEntries + 1 : G[j] = step(G[j - 1])
    BY <2>3, PageNumbers DEF step
  <2>5. nthLeaf(0) = G
    BY <2>4, NthLeafIs
  <2>6. visited(0) = {}
    BY <2>3, <2>5 DEF visited, Range
  <2> QED BY <2>2, <2>6
<1> QED BY <1>1, <1>2

-------------------------------------------------------------------------------
(* The keys that an iterator returns.                                      *)

(* H says what the value at n is if the one at n - 1 is d... *)
Steps(m, D) == [(1 .. m) \X D -> D]

(* ... and F is the function that begins with x and follows it. *)
Follows(F, m, D, x, H) ==
    F \in [0 .. m -> D] /\ F[0] = x /\ \A n \in 1 .. m : F[n] = H[<<n, F[n - 1]>>]

(* There is such a function. *)
LEMMA RecursionOver ==
    ASSUME NEW m \in Nat, NEW D, NEW x \in D, NEW H, H \in Steps(m, D)
    PROVE  \E F : Follows(F, m, D, x, H)
<1>0. H \in [(1 .. m) \X D -> D]
  BY DEF Steps
<1> DEFINE Upto(i, F) == F \in [0 .. i -> D] /\ F[0] = x
                          /\ \A n \in 1 .. i : F[n] = H[<<n, F[n - 1]>>]
           S == { i \in 0 .. m : \E F : Upto(i, F) }
<1>1. 0 \in S
  <2>1. PICK F : F = [i \in 0 .. 0 |-> x]
    OBVIOUS
  <2>2. Upto(0, F)
    BY <2>1
  <2> QED BY <2>2
<1>2. ASSUME NEW i \in 1 .. m, i - 1 \in S PROVE i \in S
  <2>1. PICK F : Upto(i - 1, F)
    BY <1>2
  <2>2. /\ F \in [0 .. i - 1 -> D] /\ F[0] = x
        /\ \A n \in 1 .. i - 1 : F[n] = H[<<n, F[n - 1]>>]
    BY <2>1
  <2>3. i \in Nat /\ i - 1 \in 0 .. i - 1 /\ i # 0 /\ 0 \in 0 .. i /\ i \in 0 .. m
    OBVIOUS
  <2>4. PICK v : v = H[<<i, F[i - 1]>>]
    OBVIOUS
  <2>5. v \in D
    <3>1. F[i - 1] \in D
      BY <2>2, <2>3
    <3>2. <<i, F[i - 1]>> \in (1 .. m) \X D
      BY <3>1
    <3> QED BY <1>0, <2>4, <3>2
  <2>6. PICK G : G = [n \in 0 .. i |-> IF n = i THEN v ELSE F[n]]
    OBVIOUS
  <2>7. G \in [0 .. i -> D]
    <3>1. \A n \in 0 .. i : n # i => n \in 0 .. i - 1
      BY <2>3
    <3> QED BY <2>2, <2>5, <2>6, <3>1
  <2>8. G[0] = x
    BY <2>2, <2>3, <2>6
  <2>9. ASSUME NEW n \in 1 .. i PROVE G[n] = H[<<n, G[n - 1]>>]
    <3>1. n \in 0 .. i /\ n - 1 \in 0 .. i /\ n - 1 # i
      BY <2>3
    <3>2. G[n - 1] = F[n - 1]
      BY <2>6, <3>1
    <3>3. CASE n = i
      BY <2>4, <2>6, <3>1, <3>2, <3>3
    <3>4. CASE n # i
      <4>1. n \in 1 .. i - 1
        BY <2>3, <3>4
      <4> QED BY <2>2, <2>6, <3>1, <3>2, <3>4, <4>1
    <3> QED BY <3>3, <3>4
  <2>10. Upto(i, G)
    BY <2>7, <2>8, <2>9
  <2> HIDE DEF Upto
  <2> QED BY <2>3, <2>10
<1>3. \A i \in 1 .. m : i - 1 \in S => i \in S
  BY <1>2
<1>4. m \in S
  <2> HIDE DEF S
  <2>1. m \in 0 .. m
    OBVIOUS
  <2> QED BY <1>1, <1>3, <2>1, UpToN
<1> QED BY <1>4 DEF Follows

(* Keys in order. *)
Ascending(q) == q \in Seq(Int) /\ \A i, j \in 1 .. Len(q) : i < j => q[i] <= q[j]

(* No key of q is greater than one of r. *)
NotAbove(q, r) == \A i \in 1 .. Len(q) : \A j \in 1 .. Len(r) : q[i] <= r[j]

(* The keys of t are keys of q or r. *)
FromEither(t, q, r) ==
    \A i \in 1 .. Len(t) : \/ \E j \in 1 .. Len(q) : t[i] = q[j]
                           \/ \E j \in 1 .. Len(r) : t[i] = r[j]

(* Keys in order, followed by keys that are not less, are in order. *)
LEMMA AscendingTogether ==
    ASSUME NEW q, Ascending(q), NEW r, Ascending(r), NotAbove(q, r), NEW t, t = q \o r
    PROVE  Ascending(t) /\ FromEither(t, q, r)
<1>1. /\ q \in Seq(Int) /\ r \in Seq(Int) /\ Len(q) \in Nat /\ Len(r) \in Nat
      /\ \A i, j \in 1 .. Len(q) : i < j => q[i] <= q[j]
      /\ \A i, j \in 1 .. Len(r) : i < j => r[i] <= r[j]
  BY DEF Ascending
<1>2. t \in Seq(Int) /\ Len(t) = Len(q) + Len(r)
      /\ \A i \in 1 .. Len(t) : t[i] = IF i <= Len(q) THEN q[i] ELSE r[i - Len(q)]
  BY <1>1
<1>3. ASSUME NEW i \in 1 .. Len(t)
      PROVE  /\ i <= Len(q) => i \in 1 .. Len(q) /\ t[i] = q[i]
             /\ ~ (i <= Len(q)) => i - Len(q) \in 1 .. Len(r) /\ t[i] = r[i - Len(q)]
  BY <1>1, <1>2
<1>4. ASSUME NEW i \in 1 .. Len(t), NEW j \in 1 .. Len(t), i < j PROVE t[i] <= t[j]
  <2>1. CASE j <= Len(q)
    <3>1. i <= Len(q)
      BY <1>1, <1>2, <1>4, <2>1
    <3> QED BY <1>1, <1>3, <1>4, <2>1, <3>1
  <2>2. CASE ~ (j <= Len(q)) /\ i <= Len(q)
    BY <1>3, <2>2 DEF NotAbove
  <2>3. CASE ~ (j <= Len(q)) /\ ~ (i <= Len(q))
    <3>1. i - Len(q) < j - Len(q)
      BY <1>1, <1>2, <1>4
    <3> QED BY <1>1, <1>3, <2>3, <3>1
  <2> QED BY <2>1, <2>2, <2>3
<1>5. ASSUME NEW i \in 1 .. Len(t)
      PROVE  \/ \E j \in 1 .. Len(q) : t[i] = q[j]
             \/ \E j \in 1 .. Len(r) : t[i] = r[j]
  BY <1>3
<1> QED BY <1>2, <1>4, <1>5 DEF Ascending, FromEither

(* b[2], b[3], ... b[n] separate the n sequences Q. *)
Separated(Q, b, n) ==
    /\ n \in Nat \ {0}
    /\ \A i \in 1 .. n : Ascending(Q[i])
    /\ \A i \in 2 .. n : b[i] \in Int /\ \A j \in 1 .. Len(Q[i]) : b[i] <= Q[i][j]
    /\ \A i \in 1 .. n - 1 : \A j \in 1 .. Len(Q[i]) : Q[i][j] <= b[i + 1]
    /\ \A i \in 2 .. n - 1 : b[i] <= b[i + 1]

(* All of them together are in order. *)
LEMMA SeparatedAscend ==
    ASSUME NEW Q, NEW b, NEW n, Separated(Q, b, n), NEW m \in Nat, n <= m, NEW U, U[0] = <<>>,
           \A i \in 1 .. m : U[i] = IF i <= n THEN U[i - 1] \o Q[i] ELSE U[i - 1]
    PROVE  Ascending(U[m])
<1>1. /\ n \in Nat /\ n >= 1
      /\ \A i \in 1 .. n : Ascending(Q[i])
      /\ \A i \in 2 .. n : b[i] \in Int /\ \A j \in 1 .. Len(Q[i]) : b[i] <= Q[i][j]
      /\ \A i \in 1 .. n - 1 : \A j \in 1 .. Len(Q[i]) : Q[i][j] <= b[i + 1]
      /\ \A i \in 2 .. n - 1 : b[i] <= b[i + 1]
  BY DEF Separated
<1> DEFINE S == { i \in 0 .. m : /\ Ascending(U[i])
                                 /\ i < n => \A j \in 1 .. Len(U[i]) : i >= 1 /\ U[i][j] <= b[i + 1] }
<1>2. 0 \in S
  <2>1. Ascending(<<>>) /\ Len(<<>>) = 0 /\ \A j \in 1 .. 0 : FALSE
    BY DEF Ascending
  <2> QED BY <2>1
<1>3. ASSUME NEW i \in 1 .. m, i - 1 \in S PROVE i \in S
  <2>1. /\ Ascending(U[i - 1]) /\ i \in Nat /\ i \in 0 .. m
        /\ i - 1 < n => \A j \in 1 .. Len(U[i - 1]) : i - 1 >= 1 /\ U[i - 1][j] <= b[(i - 1) + 1]
    BY <1>3
  <2>2. CASE ~ (i <= n)
    <3>1. U[i] = U[i - 1] /\ ~ (i < n)
      BY <1>1, <2>1, <2>2
    <3> QED BY <2>1, <3>1
  <2>3. CASE i <= n
    <3>1. i \in 1 .. n /\ i - 1 < n /\ (i - 1) + 1 = i
      BY <1>1, <2>1, <2>3
    <3>2. PICK q, r, t : q = U[i - 1] /\ r = Q[i] /\ t = U[i]
      OBVIOUS
    <3>3. Ascending(q) /\ Ascending(r) /\ t = q \o r
      BY <1>1, <2>1, <2>3, <3>1, <3>2
    <3>4. \A j \in 1 .. Len(q) : i \in 2 .. n /\ q[j] <= b[i]
      BY <1>1, <2>1, <3>1, <3>2
    <3>5. i \in 2 .. n => b[i] \in Int /\ \A j \in 1 .. Len(r) : b[i] <= r[j]
      BY <1>1, <3>2
    <3>6. /\ \A j \in 1 .. Len(q) : q[j] \in Int
          /\ \A j \in 1 .. Len(r) : r[j] \in Int
      BY <3>3 DEF Ascending
    <3>7. \A j \in 1 .. Len(q) : \A l \in 1 .. Len(r) : q[j] <= r[l]
      <4> SUFFICES ASSUME NEW j \in 1 .. Len(q), NEW l \in 1 .. Len(r) PROVE q[j] <= r[l]
        OBVIOUS
      <4>1. q[j] <= b[i] /\ b[i] <= r[l] /\ b[i] \in Int /\ q[j] \in Int /\ r[l] \in Int
        BY <3>4, <3>5, <3>6
      <4> QED BY <4>1
    <3>8. Ascending(t) /\ FromEither(t, q, r)
      <4>1. NotAbove(q, r)
        BY <3>7 DEF NotAbove
      <4> QED BY <3>3, <4>1, AscendingTogether
    <3>9. ASSUME i < n, NEW j \in 1 .. Len(t) PROVE i >= 1 /\ t[j] <= b[i + 1]
      <4>1. i \in 1 .. n - 1 /\ i + 1 \in 2 .. n
        BY <1>1, <3>1, <3>9
      <4>2. b[i + 1] \in Int /\ \A l \in 1 .. Len(r) : r[l] <= b[i + 1]
        BY <1>1, <3>2, <4>1
      <4>3. \A l \in 1 .. Len(q) : q[l] <= b[i + 1]
        <5> SUFFICES ASSUME NEW l \in 1 .. Len(q) PROVE q[l] <= b[i + 1]
          OBVIOUS
        <5>1. i \in 2 .. n /\ q[l] <= b[i] /\ b[i] \in Int /\ q[l] \in Int
          BY <3>4, <3>5, <3>6
        <5>2. i \in 2 .. n - 1
          BY <4>1, <5>1
        <5>3. b[i] <= b[i + 1]
          BY <1>1, <5>2
        <5> QED BY <4>2, <5>1, <5>3
      <4>4. t[j] <= b[i + 1]
        BY <3>8, <4>2, <4>3 DEF FromEither
      <4> QED BY <4>1, <4>4
    <3> QED BY <2>1, <3>2, <3>8, <3>9
  <2> QED BY <2>2, <2>3
<1>4. m \in S
  <2>1. \A i \in 1 .. m : i - 1 \in S => i \in S
    BY <1>3
  <2> HIDE DEF S
  <2>2. m \in 0 .. m
    OBVIOUS
  <2> QED BY <1>2, <2>1, <2>2, UpToN
<1> QED BY <1>4

(* The keys of a leaf, from begin() to end(), are in order. *)
LEMMA KeysOfLeaf ==
    ASSUME NEW pid, NEW a, LeafOK(pid, a), NEW q, q = keysOf(a)
    PROVE  /\ Ascending(q)
           /\ \A i \in 1 .. Len(q) : \E s \in used(a) : q[i] = a[s].key
<1>1. /\ used(a) \subseteq Int /\ IsFiniteSet(used(a))
      /\ \A s \in used(a) : a[s].key \in Int
      /\ \A r, s \in used(a) : r < s => a[r].key <= a[s].key
  BY LeafSlots, LeafCounts DEF LeafOK
<1>2. PICK S : S = used(a)
  OBVIOUS
<1>3. PICK n, u : n = Cardinality(S) /\ u = upwards(S)
  OBVIOUS
<1>4. /\ n \in Nat /\ u \in [1 .. n -> S]
      /\ \A i \in 1 .. n : rank(S, u[i]) = i - 1
  BY <1>1, <1>2, <1>3, Upwards
<1>5. \A s, t \in S : s < t => rank(S, s) < rank(S, t)
  BY <1>1, <1>2, Ranks
<1>6. q = [i \in 1 .. n |-> a[u[i]].key]
  <2>1. keysOf(a) = [i \in DOMAIN u |-> a[u[i]].key]
    BY <1>2, <1>3, Zenon DEF keysOf
  <2> QED BY <1>4, <2>1
<1>7. \A i \in 1 .. n : u[i] \in used(a) /\ q[i] = a[u[i]].key /\ q[i] \in Int /\ u[i] \in Int
  BY <1>1, <1>2, <1>4, <1>6
<1>8. q \in Seq(Int) /\ Len(q) = n
  BY <1>4, <1>6, <1>7
<1>9. ASSUME NEW i \in 1 .. n, NEW j \in 1 .. n, i < j PROVE q[i] <= q[j]
  <2>1. ~ (u[j] < u[i]) /\ u[i] # u[j]
    <3>1. rank(S, u[i]) = i - 1 /\ rank(S, u[j]) = j - 1 /\ ~ (j - 1 < i - 1) /\ i - 1 # j - 1
      BY <1>4, <1>9
    <3> QED BY <1>2, <1>5, <1>7, <3>1
  <2>2. u[i] < u[j]
    BY <1>7, <2>1
  <2> QED BY <1>1, <1>7, <2>2
<1> QED BY <1>7, <1>8, <1>9 DEF Ascending

(* A scan of a chain of leaves returns the keys of one after the other. *)
LEMMA ScanIs ==
    ASSUME NEW c, NEW n, LeavesOK(leaf), Chain(leaf, c, n)
    PROVE  \E U : /\ scan(c[1]) = U[MaxEntries + 1] /\ U[0] = <<>>
                  /\ \A i \in 1 .. MaxEntries + 1 :
                       U[i] = IF i <= n THEN U[i - 1] \o keysOf(leaf[c[i]].slots) ELSE U[i - 1]
<1>1. /\ n \in Nat /\ n >= 1 /\ n <= MaxEntries + 1 /\ MaxEntries \in Nat
      /\ \A j \in 1 .. n : c[j] \in leavesOf(leaf) /\ c[j] # 0
      /\ 1 \in 1 .. n
  BY PageNumbers DEF Chain
<1>2. PICK m, at, D : m = MaxEntries + 1 /\ at = nthLeaf(c[1]) /\ D = Seq(Int)
  OBVIOUS
<1>3. m \in Nat /\ m \in 0 .. m /\ 0 \in 0 .. m
  BY <1>1, <1>2
<1>4. ASSUME NEW i \in 1 .. m
      PROVE  at[i] = IF i <= n THEN c[i] ELSE 0
  <2>1. at = fromLeaf(c, n, 1)
    BY <1>1, <1>2, VisitedFrom
  <2>2. i \in 1 .. MaxEntries + 1 /\ 1 + i - 1 = i
    BY <1>1, <1>2
  <2> QED BY <2>1, <2>2 DEF fromLeaf
<1>5. ASSUME NEW i \in 1 .. m
      PROVE  /\ at[i] = 0 <=> ~ (i <= n)
             /\ i <= n => at[i] = c[i] /\ keysOf(leaf[at[i]].slots) \in D
  <2>1. CASE i <= n
    <3>1. i \in 1 .. n /\ at[i] = c[i]
      BY <1>1, <1>3, <1>4, <2>1
    <3>2. LeafOK(c[i], leaf[c[i]].slots)
      BY <1>1, <3>1 DEF LeavesOK
    <3>3. keysOf(leaf[c[i]].slots) \in Seq(Int)
      BY <3>2, KeysOfLeaf DEF Ascending
    <3> QED BY <1>1, <1>2, <2>1, <3>1, <3>3
  <2>2. CASE ~ (i <= n)
    BY <1>4, <2>2
  <2> QED BY <2>1, <2>2
<1> DEFINE next(i, d) == IF at[i] = 0 THEN d ELSE d \o keysOf(leaf[at[i]].slots)
           Is(F) == F = [i \in 0 .. m |-> IF i = 0 THEN <<>> ELSE next(i, F[i - 1])]
<1>6. ASSUME NEW i \in 1 .. m, NEW d \in D PROVE next(i, d) \in D
  <2>1. PICK k : k = keysOf(leaf[at[i]].slots)
    OBVIOUS
  <2>2. at[i] # 0 => k \in D
    BY <1>5, <2>1
  <2>3. at[i] # 0 => d \o k \in D
    BY <1>2, <2>2
  <2> QED BY <2>1, <2>3
<1>7. \E F : Is(F)
  <2>1. PICK H : H = [z \in (1 .. m) \X D |-> next(z[1], z[2])]
    OBVIOUS
  <2>2. \A i \in 1 .. m, d \in D : H[<<i, d>>] = next(i, d)
    <3> HIDE DEF next
    <3> QED BY <2>1
  <2>3. H \in [(1 .. m) \X D -> D]
    <3>1. \A z \in (1 .. m) \X D : next(z[1], z[2]) \in D
      <4> HIDE DEF next
      <4> QED BY <1>6
    <3> HIDE DEF next
    <3> QED BY <2>1, <3>1
  <2>4. PICK x : x = <<>>
    OBVIOUS
  <2>5. x \in D
    BY <1>2, <2>4
  <2>6. PICK F : Follows(F, m, D, x, H)
    <3>1. H \in Steps(m, D)
      BY <2>3 DEF Steps
    <3> QED BY <1>3, <2>5, <3>1, RecursionOver
  <2>7. ASSUME NEW i \in 0 .. m PROVE F[i] = IF i = 0 THEN <<>> ELSE next(i, F[i - 1])
    <3> HIDE DEF next
    <3>1. i # 0 => i \in 1 .. m /\ i - 1 \in 0 .. m
      BY <1>3
    <3>2. F[i] \in D /\ (i # 0 => F[i - 1] \in D)
      BY <2>6, <3>1 DEF Follows
    <3>3. (i = 0 => F[i] = x) /\ (i # 0 => F[i] = H[<<i, F[i - 1]>>])
      BY <2>6, <3>1 DEF Follows
    <3> QED BY <2>2, <2>4, <3>1, <3>2, <3>3
  <2>8. F = [i \in 0 .. m |-> F[i]]
    BY <2>6 DEF Follows
  <2>9. Is(F)
    <3> HIDE DEF next
    <3> QED BY <2>7, <2>8, Zenon
  <2> QED BY <2>9
<1>8. PICK U : Is(U) /\ scan(c[1]) = U[m]
  <2>1. scan(c[1]) = (CHOOSE F : Is(F))[m]
    BY <1>2 DEF scan
  <2> HIDE DEF Is
  <2> QED BY <1>7, <2>1
<1>9. U[0] = <<>>
  BY <1>3, <1>8
<1>10. ASSUME NEW i \in 1 .. m
       PROVE  U[i] = IF i <= n THEN U[i - 1] \o keysOf(leaf[c[i]].slots) ELSE U[i - 1]
  <2>1. U[i] = next(i, U[i - 1])
    <3> HIDE DEF next
    <3>1. i \in 0 .. m /\ i # 0
      BY <1>3
    <3> QED BY <1>8, <3>1
  <2> QED BY <1>5, <2>1
<1> HIDE DEF Is
<1> QED BY <1>2, <1>8, <1>9, <1>10

(* Where keys of a leaf lie between the keys of two entries. *)
LEMMA OrderedRanges ==
    ASSUME NEW f, LeavesOK(f), NEW E, E # Null, NEW id, NEW n, NEW g, Ordered(f, E, id, n, g),
           RangesAgree(f, E), NEW i \in 1 .. n, NEW s, s \in used(f[E[g[i]].child].slots)
    PROVE  /\ i # 1 => E[g[i]].key <= f[E[g[i]].child].slots[s].key
           /\ i # n => f[E[g[i]].child].slots[s].key <= E[g[i + 1]].key
<1>1. /\ n \in Nat /\ g \in [1 .. n -> Int] /\ g[1] = 0
      /\ \A j, l \in 1 .. n : j < l => g[j] < g[l]
      /\ used(E) = { g[j] : j \in 1 .. n }
  BY DEF Ordered, Below
<1>2. PICK e, k : e = g[i] /\ k = f[E[g[i]].child].slots[s].key
  OBVIOUS
<1>3. e \in used(E) /\ s \in used(f[E[e].child].slots) /\ k = f[E[e].child].slots[s].key
  BY <1>1, <1>2
<1>4. (e # 0 => E[e].key <= k) /\ \A r \in following(E, e) : k <= E[r].key
  BY <1>3 DEF RangesAgree
<1>5. i # 1 => e # 0
  <2>1. i # 1 => 1 \in 1 .. n /\ 1 < i
    BY <1>1
  <2>2. i # 1 => g[1] < g[i] /\ g[1] \in Int /\ g[i] \in Int
    BY <1>1, <2>1
  <2> QED BY <1>1, <1>2, <2>2
<1>6. i # n => g[i + 1] \in following(E, e)
  <2> SUFFICES ASSUME i # n PROVE g[i + 1] \in following(E, e)
    OBVIOUS
  <2>1. i + 1 \in 1 .. n /\ i < i + 1
    BY <1>1
  <2>2. g[i + 1] \in used(E) /\ g[i + 1] > e
    BY <1>1, <1>2, <2>1
  <2>3. ASSUME NEW r \in used(E), r > e PROVE g[i + 1] <= r
    <3>1. PICK j \in 1 .. n : r = g[j]
      BY <1>1
    <3>2. i < j
      <4>1. CASE j < i
        BY <1>1, <1>2, <2>3, <3>1, <4>1
      <4>2. CASE j = i
        BY <1>1, <1>2, <2>3, <3>1, <4>2
      <4> QED BY <1>1, <4>1, <4>2
    <3>3. j = i + 1 \/ i + 1 < j
      BY <1>1, <3>2
    <3> QED BY <1>1, <2>1, <3>1, <3>3
  <2> QED BY <2>2, <2>3 DEF following
<1> QED BY <1>2, <1>4, <1>5, <1>6

(* A scan without a predicate returns all keys in order. *)
LEMMA ScanAscends ==
    ASSUME Inv, hasRoot
    PROVE  Ascending(scan(leftmostLeaf))
<1>1. PICK n, c, b :
        /\ Chain(leaf, c, n) /\ leftmostLeaf = c[1]
        /\ \A i \in 2 .. n : b[i] \in Int
        /\ \A i \in 2 .. n - 1 : b[i] <= b[i + 1]
        /\ \A i \in 1 .. n : \A s \in used(leaf[c[i]].slots) :
             /\ i # 1 => b[i] <= leaf[c[i]].slots[s].key
             /\ i # n => leaf[c[i]].slots[s].key <= b[i + 1]
  <2>1. CASE inner = Null
    <3>1. PICK n, c : Chain(leaf, c, n) /\ leftmostLeaf = c[1]
      BY InvChain
    <3>2. leavesOf(leaf) = {root} /\ leaf[root].right = 0
      BY <2>1, EntryFields, NullIsNone
        DEF Inv, NoTree, LeafTree, InnerTree, StoppedTree, hasRoot
    <3>3. n = 1
      <4>1. /\ n \in 1 .. MaxEntries + 1 /\ \A i \in 1 .. n : c[i] = root
            /\ \A i \in 1 .. n : leaf[c[i]].right = IF i = n THEN 0 ELSE c[i + 1]
        BY <3>1, <3>2 DEF Chain
      <4>2. SUFFICES ASSUME n # 1 PROVE FALSE
        OBVIOUS
      <4>3. 1 \in 1 .. n /\ 1 + 1 \in 1 .. n
        BY <4>1, <4>2, PageNumbers
      <4>4. leaf[root].right = root
        BY <4>1, <4>2, <4>3
      <4>5. root # 0
        BY DEF hasRoot
      <4> QED BY <3>2, <4>4, <4>5
    <3>4. /\ \A i \in 2 .. n : FALSE
          /\ \A i \in 2 .. n - 1 : FALSE
          /\ \A i \in 1 .. n : i = 1 /\ i = n
      BY <3>3
    <3> QED BY <3>1, <3>4
  <2>2. CASE inner # Null
    <3>1. PICK n, g : Ordered(leaf, inner, innerId, n, g)
      BY <2>2, InvOrdered
    <3>2. PICK c, b : c = [i \in 1 .. n |-> inner[g[i]].child]
                      /\ b = [i \in 1 .. n |-> inner[g[i]].key]
      OBVIOUS
    <3>3. LeavesOK(leaf) /\ RangesAgree(leaf, inner)
      BY <2>2, InvOrdered DEF Inv
    <3>4. Chain(leaf, c, n)
      BY <3>1, <3>2, <3>3, OrderedChain
    <3>5. /\ n \in Nat /\ n >= 2 /\ 1 \in 1 .. n /\ g[1] = 0
          /\ \A i \in 2 .. n : inner[g[i]].key \in Keys
          /\ \A i \in 2 .. n - 1 : inner[g[i]].key <= inner[g[i + 1]].key
      BY <3>1, PageNumbers DEF Ordered
    <3>6. leftmostLeaf = c[1]
      BY <2>2, <3>2, <3>5 DEF leftmostLeaf
    <3>7. \A i \in 1 .. n : c[i] = inner[g[i]].child /\ b[i] = inner[g[i]].key
      BY <3>2
    <3>8. \A i \in 2 .. n : b[i] \in Int
      <4>1. \A i \in 2 .. n : i \in 1 .. n
        BY <3>5
      <4> QED BY <3>5, <3>7, <4>1, BTreeConstants
    <3>9. \A i \in 2 .. n - 1 : b[i] <= b[i + 1]
      <4>1. \A i \in 2 .. n - 1 : i \in 1 .. n /\ i + 1 \in 1 .. n
        BY <3>5
      <4> QED BY <3>5, <3>7, <4>1
    <3>10. ASSUME NEW i \in 1 .. n, NEW s \in used(leaf[c[i]].slots)
           PROVE  /\ i # 1 => b[i] <= leaf[c[i]].slots[s].key
                  /\ i # n => leaf[c[i]].slots[s].key <= b[i + 1]
      <4>1. i # n => i + 1 \in 1 .. n
        BY <3>5
      <4>2. s \in used(leaf[inner[g[i]].child].slots)
        BY <3>7
      <4>3. /\ i # 1 => inner[g[i]].key <= leaf[inner[g[i]].child].slots[s].key
            /\ i # n => leaf[inner[g[i]].child].slots[s].key <= inner[g[i + 1]].key
        BY <2>2, <3>1, <3>3, <4>2, OrderedRanges
      <4> QED BY <3>7, <4>1, <4>3
    <3> QED BY <3>4, <3>6, <3>8, <3>9, <3>10
  <2> QED BY <2>1, <2>2
<1>2. LeavesOK(leaf)
  BY DEF Inv
<1>3. PICK U : /\ scan(c[1]) = U[MaxEntries + 1] /\ U[0] = <<>>
               /\ \A i \in 1 .. MaxEntries + 1 :
                    U[i] = IF i <= n THEN U[i - 1] \o keysOf(leaf[c[i]].slots) ELSE U[i - 1]
  BY <1>1, <1>2, ScanIs
<1>4. PICK Q : Q = [i \in 1 .. n |-> keysOf(leaf[c[i]].slots)]
  OBVIOUS
<1>5. n \in Nat \ {0} /\ MaxEntries + 1 \in Nat /\ n <= MaxEntries + 1
      /\ \A i \in 1 .. n : c[i] \in leavesOf(leaf)
  BY <1>1, PageNumbers DEF Chain
<1>6. ASSUME NEW i \in 1 .. n
      PROVE  /\ Ascending(Q[i])
             /\ \A j \in 1 .. Len(Q[i]) : /\ i # 1 => b[i] <= Q[i][j]
                                          /\ i # n => Q[i][j] <= b[i + 1]
  <2>1. LeafOK(c[i], leaf[c[i]].slots) /\ Q[i] = keysOf(leaf[c[i]].slots)
    BY <1>2, <1>4, <1>5 DEF LeavesOK
  <2>2. /\ Ascending(Q[i])
        /\ \A j \in 1 .. Len(Q[i]) : \E s \in used(leaf[c[i]].slots) :
             Q[i][j] = leaf[c[i]].slots[s].key
    BY <2>1, KeysOfLeaf
  <2> QED BY <1>1, <2>2
<1>7. Separated(Q, b, n)
  <2>1. \A i \in 2 .. n : i \in 1 .. n /\ i # 1
    BY <1>5
  <2>2. \A i \in 1 .. n - 1 : i \in 1 .. n /\ i # n
    BY <1>5
  <2> QED BY <1>1, <1>5, <1>6, <2>1, <2>2 DEF Separated
<1>8. \A i \in 1 .. MaxEntries + 1 : U[i] = IF i <= n THEN U[i - 1] \o Q[i] ELSE U[i - 1]
  <2>1. \A i \in 1 .. MaxEntries + 1 : i <= n => i \in 1 .. n
    BY <1>5
  <2> QED BY <1>3, <1>4, <2>1
<1>9. Ascending(U[MaxEntries + 1])
  <2>1. PICK m : m = MaxEntries + 1
    OBVIOUS
  <2> QED BY <1>3, <1>5, <1>7, <1>8, <2>1, SeparatedAscend
<1> QED BY <1>1, <1>3, <1>9

(* The slot just below g[j]. *)
LEMMA PrecedingInOrder ==
    ASSUME NEW f, NEW E, NEW id, NEW n, NEW g, Ordered(f, E, id, n, g), NEW j \in 2 .. n
    PROVE  preceding(E, g[j]) = { g[j - 1] }
<1>1. /\ n \in Nat /\ g \in [1 .. n -> Int]
      /\ \A i, l \in 1 .. n : i < l => g[i] < g[l]
      /\ used(E) = { g[i] : i \in 1 .. n }
  BY DEF Ordered, Below
<1>2. j \in 1 .. n /\ j - 1 \in 1 .. n /\ j - 1 < j /\ j \in Nat
  BY <1>1
<1>3. g[j - 1] \in used(E) /\ g[j - 1] < g[j] /\ g[j - 1] \in Int /\ g[j] \in Int
  BY <1>1, <1>2
<1>4. ASSUME NEW q \in used(E), q < g[j] PROVE q <= g[j - 1]
  <2>1. PICK l \in 1 .. n : q = g[l]
    BY <1>1
  <2>2. l < j
    <3>1. CASE j < l
      BY <1>1, <1>2, <1>3, <1>4, <2>1, <3>1
    <3>2. CASE j = l
      BY <1>3, <1>4, <2>1, <3>2
    <3> QED BY <1>2, <3>1, <3>2
  <2>3. l = j - 1 \/ l < j - 1
    BY <1>2, <2>2
  <2> QED BY <1>1, <1>2, <1>3, <2>1, <2>3
<1>5. ASSUME NEW r \in used(E), r < g[j], \A q \in used(E) : q < g[j] => q <= r
      PROVE  r = g[j - 1]
  <2>1. g[j - 1] <= r /\ r <= g[j - 1]
    BY <1>3, <1>4, <1>5
  <2>2. r \in Int
    BY <1>1
  <2> QED BY <1>3, <2>1, <2>2
<1> QED BY <1>3, <1>4, <1>5 DEF preceding

(* findLeafPage goes to a leaf with only smaller keys on its left. *)
LEMMA FindsOrdered ==
    ASSUME inner # Null, NEW n, NEW g, Ordered(leaf, inner, innerId, n, g), NEW k \in Keys
    PROVE  \E i \in 1 .. n : /\ findLeafPage(k) = inner[g[i]].child
                             /\ \A j \in 2 .. i : inner[g[j]].key < k
<1>1. /\ n \in Nat /\ n >= 2 /\ g \in [1 .. n -> Int] /\ g[1] = 0
      /\ \A i, l \in 1 .. n : i < l => g[i] < g[l]
      /\ used(inner) = { g[i] : i \in 1 .. n }
      /\ \A i \in 2 .. n : inner[g[i]].key \in Keys
  BY PageNumbers DEF Ordered, Below
<1>2. k \in Int /\ \A i \in 2 .. n : i \in 1 .. n /\ inner[g[i]].key \in Int /\ g[i] \in Int /\ g[i] > 0
  <2>1. \A i \in 2 .. n : i \in 1 .. n /\ 1 < i /\ 1 \in 1 .. n
    BY <1>1
  <2> QED BY <1>1, <2>1, BTreeConstants
<1>3. PICK keyed : keyed = used(inner) \ {0}
  OBVIOUS
<1>4. keyed = { g[i] : i \in 2 .. n }
  <2>1. \A i \in 1 .. n : i = 1 \/ i \in 2 .. n
    BY <1>1
  <2> QED BY <1>1, <1>2, <1>3, <2>1
<1>5. PICK over : over = { s \in keyed : k <= inner[s].key }
  OBVIOUS
<1>6. findLeafPage(k) = IF over # {}
                        THEN inner[highest(preceding(inner, lowest(over)))].child
                        ELSE inner[highest(keyed)].child
  BY <1>3, <1>5 DEF findLeafPage
<1>7. CASE over # {}
  <2>1. over \subseteq Nat
    BY <1>2, <1>4, <1>5
  <2>2. lowest(over) \in over /\ \A y \in over : lowest(over) <= y
    BY <1>7, <2>1, LeastElement
  <2>3. PICK j \in 2 .. n : lowest(over) = g[j]
    BY <1>4, <1>5, <2>2
  <2>4. j - 1 \in 1 .. n /\ j \in Nat
    BY <1>1
  <2>5. highest(preceding(inner, lowest(over))) = g[j - 1]
    <3>1. preceding(inner, g[j]) = { g[j - 1] }
      BY PrecedingInOrder
    <3>2. g[j - 1] \in Int
      BY <1>1, <2>4
    <3>3. highest({ g[j - 1] }) = g[j - 1]
      BY <3>2, SingleElement
    <3> QED BY <2>3, <3>1, <3>3, Zenon
  <2>6. ASSUME NEW l \in 2 .. j - 1 PROVE inner[g[l]].key < k
    <3>1. l \in 2 .. n /\ l < j /\ l \in 1 .. n /\ j \in 1 .. n
      BY <1>1, <2>4
    <3>2. g[l] < g[j] /\ g[l] \in Int /\ g[j] \in Int
      BY <1>1, <3>1
    <3>3. g[l] \notin over
      BY <2>2, <2>3, <3>2
    <3>4. g[l] \in keyed
      BY <1>4, <3>1
    <3> QED BY <1>2, <1>5, <3>1, <3>3, <3>4
  <2> QED BY <1>6, <1>7, <2>4, <2>5, <2>6
<1>8. CASE over = {}
  <2>1. highest(keyed) = g[n]
    <3>1. n \in 2 .. n /\ n \in 1 .. n /\ g[n] \in Nat
      BY <1>1, <1>2
    <3>2. \A i \in 2 .. n : i = n \/ i < n
      BY <1>1
    <3>3. keyed \subseteq 0 .. g[n] /\ g[n] \in keyed
      <4>1. \A i \in 2 .. n : g[i] <= g[n] /\ g[i] \in Int /\ g[i] >= 0
        BY <1>1, <1>2, <3>1, <3>2
      <4> QED BY <1>4, <3>1, <4>1
    <3>4. highest(keyed) \in keyed /\ \A y \in keyed : y <= highest(keyed)
      BY <3>1, <3>3, GreatestElement
    <3>5. PICK h : h = highest(keyed)
      OBVIOUS
    <3>6. h \in 0 .. g[n] /\ g[n] <= h
      BY <3>3, <3>4, <3>5
    <3>7. h = g[n]
      BY <3>1, <3>6
    <3> QED BY <3>5, <3>7
  <2>2. ASSUME NEW l \in 2 .. n PROVE inner[g[l]].key < k
    BY <1>2, <1>4, <1>5, <1>8
  <2>3. n \in 1 .. n
    BY <1>1
  <2> QED BY <1>6, <1>8, <2>1, <2>2, <2>3
<1> QED BY <1>7, <1>8

(* The leaves that a scan from the leaf found for k leaves out have only   *)
(* keys below k.                                                           *)
LEMMA OnlyLeftOut ==
    ASSUME Inv, hasRoot, NEW k \in Keys, NEW p \in leavesOf(leaf) \ visited(findLeafPage(k)),
           NEW s \in used(leaf[p].slots)
    PROVE  leaf[p].slots[s].key < k
<1>1. CASE inner = Null
  <2>1. findLeafPage(k) = leftmostLeaf
    BY <1>1 DEF findLeafPage, leftmostLeaf
  <2>2. visited(leftmostLeaf) = leavesOf(leaf)
    BY VisitsAll
  <2> QED BY <2>1, <2>2
<1>2. CASE inner # Null
  <2>1. PICK n, g : Ordered(leaf, inner, innerId, n, g)
    BY <1>2, InvOrdered
  <2>2. PICK i \in 1 .. n : /\ findLeafPage(k) = inner[g[i]].child
                            /\ \A j \in 2 .. i : inner[g[j]].key < k
    BY <1>2, <2>1, FindsOrdered
  <2>3. LeavesOK(leaf) /\ RangesAgree(leaf, inner)
    BY <1>2, InvOrdered DEF Inv
  <2>4. PICK c : c = [j \in 1 .. n |-> inner[g[j]].child]
    OBVIOUS
  <2>5. Chain(leaf, c, n)
    BY <2>1, <2>3, <2>4, OrderedChain
  <2>6. visited(c[i]) = { c[j] : j \in i .. n } /\ c[i] = findLeafPage(k)
    <3>1. c[i] = inner[g[i]].child
      BY <2>4
    <3> QED BY <2>2, <2>5, <3>1, VisitedFrom
  <2>7. n \in Nat /\ \A j \in 2 .. n : inner[g[j]].key \in Int
    BY <2>1, BTreeConstants DEF Ordered, Below
  <2>8. PICK d \in 1 .. n : p = c[d]
    BY <2>5 DEF Chain
  <2>9. d < i
    <3>1. d \notin i .. n
      BY <2>6, <2>8
    <3> QED BY <2>7, <3>1
  <2>10. d + 1 \in 2 .. i /\ d # n /\ d + 1 \in 2 .. n
    BY <2>7, <2>9
  <2>11. p = inner[g[d]].child
    BY <2>4, <2>8
  <2>12. leaf[p].slots[s].key <= inner[g[d + 1]].key
    BY <1>2, <2>1, <2>3, <2>10, <2>11, OrderedRanges
  <2>13. inner[g[d + 1]].key < k /\ inner[g[d + 1]].key \in Int
    BY <2>2, <2>7, <2>10
  <2>14. leaf[p].slots[s].key \in Int
    <3>1. LeafOK(p, leaf[p].slots)
      BY <2>3 DEF LeavesOK
    <3> QED BY <3>1, LeafSlots
  <2> QED BY <2>12, <2>13, <2>14, BTreeConstants
<1> QED BY <1>1, <1>2

(* Scans miss nothing. *)
LEMMA InvScan == Inv => ScanFromKeyMissesNothing
<1> SUFFICES ASSUME Inv, hasRoot PROVE ScanFromKeyMissesNothing
  BY DEF ScanFromKeyMissesNothing
<1>1. PICK q : q = scan(leftmostLeaf)
  OBVIOUS
<1>2. ASSUME NEW i \in 1 .. Len(q) - 1 PROVE q[i] <= q[i + 1]
  <2>1. q \in Seq(Int) /\ \A a, b \in 1 .. Len(q) : a < b => q[a] <= q[b]
    BY <1>1, ScanAscends DEF Ascending
  <2>2. i \in 1 .. Len(q) /\ i + 1 \in 1 .. Len(q) /\ i < i + 1
    BY <2>1
  <2> QED BY <2>1, <2>2
<1>3. Leaves = leavesOf(leaf)
  BY DEF Leaves, leavesOf
<1>4. visited(leftmostLeaf) = Leaves
  BY <1>3, VisitsAll
<1>5. ASSUME NEW k \in Keys, NEW p \in Leaves \ visited(findLeafPage(k)),
             NEW s \in used(leaf[p].slots)
      PROVE  leaf[p].slots[s].key < k
  BY <1>3, OnlyLeftOut
<1> QED BY <1>1, <1>2, <1>4, <1>5 DEF ScanFromKeyMissesNothing

-------------------------------------------------------------------------------
(* The multiset of keys.                                                   *)

(* How often a scan returns each key. *)
countsOf(f) == [k \in Keys |-> count(f, k)]

(* A scan of the whole tree meets each tuple once. *)
ScansAll == scanned = countsOf(leaf)

(* This holds in every state. *)
LEMMA InvScansAll == Inv => ScansAll
<1> SUFFICES ASSUME Inv PROVE scanned = countsOf(leaf)
  BY DEF ScansAll
<1>1. visited(leftmostLeaf) = leavesOf(leaf)
  BY VisitsAll
<1>2. ASSUME NEW k \in Keys PROVE scanned[k] = count(leaf, k)
  <2>1. scanned[k] = Cardinality(tuplesOn(leaf, visited(leftmostLeaf), k))
    BY DEF scanned, tuplesOn
  <2> QED BY <1>1, <2>1 DEF count
<1>3. scanned = [k \in Keys |-> scanned[k]]
  BY DEF scanned
<1> QED BY <1>2, <1>3 DEF countsOf

(* No leaves, no tuples. *)
LEMMA NothingCounted ==
    ASSUME NEW f, f = [p \in PageNo |-> Null]
    PROVE  countsOf(f) = [k \in Keys |-> 0]
<1>1. leavesOf(f) = {}
  BY NewFile
<1>2. ASSUME NEW k PROVE count(f, k) = 0
  <2>1. tuplesOn(f, {}, k) = {}
    BY DEF tuplesOn
  <2> QED BY <1>1, <2>1, FS_EmptySet DEF count
<1> QED BY <1>2 DEF countsOf

(* What an operation does to the leaves. *)
Changes ==
    \/ leaf' = leaf
    \/ \E k \in Keys : Adds(leaf, leaf', k) \/ Loses(leaf, leaf', k)
    \/ leaf' = [p \in PageNo |-> Null]

(* An operation adds a tuple, takes one off, or drops the tree. *)
LEMMA StepChanges == Inv /\ [Next]_vars => Changes
<1> SUFFICES ASSUME Inv, [Next]_vars PROVE Changes
  OBVIOUS
<1>1. ASSUME outcome = "running", NEW k \in Keys, InsertTuple(k) PROVE Changes
  <2>0. ~ StoppedTree
    BY <1>1 DEF StoppedTree
  <2>1. leaf' = leaf \/ Adds(leaf, leaf', k)
    BY <1>1, <2>0, InsertFirstStep, InsertInLeafStep, InsertSplitStep DEF InsertTuple
  <2> QED BY <2>1 DEF Changes
<1>2. ASSUME NEW p \in PageNo, NEW s \in Slot, DeleteTuple(p, s) PROVE Changes
  <2>1. leaf' = leaf \/ \E k \in Keys : Loses(leaf, leaf', k)
    BY <1>2, DeleteTupleStep
  <2> QED BY <2>1 DEF Changes
<1>3. CASE Reopen
  BY <1>3 DEF Reopen, Changes
<1>4. CASE UNCHANGED vars
  BY <1>4 DEF vars, Changes
<1> QED BY <1>1, <1>2, <1>3, <1>4 DEF Next

(* A step of the tree is a step of the index, or none. *)
LEMMA IndexStep ==
    ScansAll /\ ScansAll' /\ Changes => [Index!IndexNext]_scanned
<1> SUFFICES ASSUME ScansAll, ScansAll', Changes PROVE Index!IndexNext \/ scanned' = scanned
  OBVIOUS
<1>1. scanned = countsOf(leaf) /\ scanned' = countsOf(leaf')
  BY DEF ScansAll
<1>2. CASE leaf' = leaf
  BY <1>1, <1>2
<1>3. ASSUME NEW k \in Keys, Adds(leaf, leaf', k) PROVE scanned' \in Index!added(scanned)
  <2>1. countsOf(leaf') = [countsOf(leaf) EXCEPT ![k] = countsOf(leaf)[k] + 1]
    <3>1. ASSUME NEW j \in Keys
          PROVE  countsOf(leaf')[j] = IF j = k THEN countsOf(leaf)[k] + 1 ELSE countsOf(leaf)[j]
      BY <1>3, <3>1 DEF Adds, countsOf
    <3> QED BY <3>1 DEF countsOf
  <2> QED BY <1>1, <2>1 DEF Index!added
<1>4. ASSUME NEW k \in Keys, Loses(leaf, leaf', k) PROVE scanned' \in Index!removed(scanned)
  <2>1. countsOf(leaf') = [countsOf(leaf) EXCEPT ![k] = countsOf(leaf)[k] - 1]
    <3>1. ASSUME NEW j \in Keys
          PROVE  countsOf(leaf')[j] = IF j = k THEN countsOf(leaf)[k] - 1 ELSE countsOf(leaf)[j]
      BY <1>4, <3>1 DEF Loses, countsOf
    <3> QED BY <3>1 DEF countsOf
  <2>2. countsOf(leaf)[k] > 0
    BY <1>4 DEF Loses, countsOf
  <2>3. k \in { j \in Keys : countsOf(leaf)[j] > 0 }
    BY <2>2
  <2> QED BY <1>1, <2>1, <2>3 DEF Index!removed
<1>5. CASE leaf' = [p \in PageNo |-> Null]
  <2>1. PICK f : f = leaf'
    OBVIOUS
  <2>2. countsOf(f) = [k \in Keys |-> 0]
    BY <1>5, <2>1, NothingCounted
  <2> QED BY <1>1, <2>1, <2>2 DEF Index!IndexNext, Index!empty
<1> QED BY <1>2, <1>3, <1>4, <1>5 DEF Changes, Index!IndexNext

(* A new file is an empty index. *)
LEMMA IndexStart == Init => Index!IndexInit
<1> SUFFICES ASSUME Init PROVE Index!IndexInit
  OBVIOUS
<1>1. scanned = countsOf(leaf)
  BY InitInv, InvScansAll DEF ScansAll
<1>2. leaf = [p \in PageNo |-> Null]
  BY DEF Init
<1> QED BY <1>1, <1>2, NothingCounted DEF Index!IndexInit, Index!empty

-------------------------------------------------------------------------------
(* Theorems.                                                               *)

(* The inductive invariant: the file holds no tree, a leaf, or a complete  *)
(* tree of at least half full leaves; a merge that leaves entries ends     *)
(* insertions, and deletions go on.                                        *)
THEOREM TreeInvariant == Spec => []Inv
BY InitInv, StepInv, PTL DEF Spec

(* The variables of BTreeFile have their types. *)
THEOREM TreeTypeCorrect == Spec => []TypeOK
BY TreeInvariant, InvType, PTL

(* Splits, steals and merges keep the chain of siblings, the parent        *)
(* pointers and the children of the internal page in agreement             *)
(* (BTreeFile.cpp:37-67, 184-201, 652-662).                                *)
THEOREM LinksAlwaysAgree == Spec => []LinksAgree
<1>1. Inv => LinksAgree
  BY InvAgrees, AgreeDefs
<1> QED BY <1>1, TreeInvariant, PTL

(* Every leaf's keys are between the keys around its pointer, equal keys   *)
(* included: findLeafPage (BTreeFile.cpp:12-35) goes to the right leaf.    *)
THEOREM KeysAlwaysInRange == Spec => []KeysInRange
<1>1. Inv => KeysInRange
  BY InvAgrees, AgreeDefs
<1> QED BY <1>1, TreeInvariant, PTL

(* The RecordId of a tuple names the slot that it is in, wherever it was   *)
(* shifted, split off or stolen to: BTreeFile::deleteTuple                 *)
(* (BTreeFile.cpp:574-593) clears the slot the client means.               *)
THEOREM RecordIdsAlwaysMatch == Spec => []RecordIdsMatch
BY TreeInvariant, InvRecordIds, PTL

(* No page of the file is two of a leaf, the internal page, a header page  *)
(* and free: getEmptyPage and setEmptyPage (BTreeFile.cpp:354-468) do not  *)
(* give one out twice, also where the pwrite of getEmptyPage appends and   *)
(* page numbers are skipped.  Where it honours its offset they lose none   *)
(* either.                                                                 *)
THEOREM PagesAlwaysAccounted == Spec => []PagesAccounted
BY TreeInvariant, InvPages, PTL

(* The assertions of insertEntry and updateEntry                           *)
(* (BTreeInternalPage.cpp:117-190, 239-266) never fail,                    *)
(* stealFromLeafPage always finds something to steal, and                  *)
(* BTreeLeafPage::deleteTuple finds its tuple.  (The assertion of          *)
(* deleteEntry, BTreeInternalPage.cpp:99-100, fails in every merge and     *)
(* every internal split: that is not part of this.)                        *)
THEOREM EntriesAndTuplesAlwaysValid == Spec => []EntriesAndTuplesValid
<1>1. Inv => EntriesAndTuplesValid
  BY DEF Inv, EntriesAndTuplesValid
<1> QED BY <1>1, TreeInvariant, PTL

(* A scan that starts at the leaf found for a key meets every tuple with   *)
(* that key or a greater one, equal keys that straddle leaves included,    *)
(* and a scan from the leftmost leaf returns all keys in order             *)
(* (BTreeFile.cpp:12-35, 665-712).                                         *)
THEOREM ScansMissNothing == Spec => []ScanFromKeyMissesNothing
BY TreeInvariant, InvScan, PTL

(* Seen through scans, the B+ tree file implements a multiset of keys:     *)
(* insertTuple adds one tuple and deleteTuple removes one                  *)
(* (BTreeFile.cpp:541-593), and splits, steals and merges lose and         *)
(* duplicate nothing.                                                      *)
THEOREM Refinement == Spec => ImplementsIndex
<1>1. Init => Index!IndexInit
  BY IndexStart
<1>2. Inv /\ [Next]_vars => Changes
  BY StepChanges
<1>3. Inv => ScansAll
  BY InvScansAll
<1>4. ScansAll /\ ScansAll' /\ Changes => [Index!IndexNext]_scanned
  BY IndexStep
<1> QED BY <1>1, <1>2, <1>3, <1>4, TreeInvariant, PTL DEF Spec, ImplementsIndex, Index!IndexSpec

===============================================================================
