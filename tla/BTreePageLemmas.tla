--------------------------- MODULE BTreePageLemmas ---------------------------
(***************************************************************************)
(* Lemmas about BTreePages, for any number of slots and entries and any    *)
(* set of integer keys: the shifts of BTreeLeafPage::insertTuple keep the  *)
(* tuples in order and their RecordIds right, whatever holes the page has, *)
(* and lose or double no tuple.                                            *)
(***************************************************************************)
EXTENDS BTreePages, FiniteSetTheorems, FunctionTheorems, WellFoundedInduction, TLAPS

(* A tuple of page pid. *)
tuplesOf(pid) == [key : Keys, page : {pid}, slot : Slot]

(* The slots a of page pid: sorted, with RecordIds that name their slots. *)
LeafOK(pid, a) ==
    /\ a \in [Slot -> tuplesOf(pid) \cup {Null}]
    /\ \A r, s \in used(a) : r < s => a[r].key <= a[s].key
    /\ \A s \in used(a) : a[s].slot = s

(* The slots in R are emptied. *)
cleared(a, R) == [s \in Slot |-> IF s \in R THEN Null ELSE a[s]]

(* The keys of the tuples. *)
keysIn(a) == { a[s].key : s \in used(a) }

-------------------------------------------------------------------------------
(* Least and greatest elements.                                            *)

(* A nonempty set of natural numbers has a least element... *)
LEMMA LeastElement ==
    ASSUME NEW S, S \subseteq Nat, S # {}
    PROVE  lowest(S) \in S /\ \A y \in S : lowest(S) <= y
<1> DEFINE R == { ss \in Nat \X Nat : ss[1] < ss[2] }
<1>1. IsWellFoundedOn(R, Nat)
  BY NatLessThanWellFounded DEF OpToRel
<1>2. PICK x \in S : \A y \in S : <<y, x>> \notin R
  <2> HIDE DEF R
  <2> QED BY <1>1, WFMin
<1>3. ASSUME NEW y \in S PROVE x <= y
  <2>1. x \in Nat /\ y \in Nat
    OBVIOUS
  <2>2. ~ (y < x)
    BY <1>2, <2>1
  <2> QED BY <2>1, <2>2
<1> QED BY <1>3 DEF lowest

(* ... and, if it is bounded, a greatest one. *)
LEMMA GreatestElement ==
    ASSUME NEW n \in Nat, NEW S, S \subseteq 0 .. n, S # {}
    PROVE  highest(S) \in S /\ \A y \in S : y <= highest(S)
<1> DEFINE T == { m \in Nat : \A y \in S : y <= m }
<1>1. n \in T
  OBVIOUS
<1>2. PICK m \in T : \A j \in T : m <= j
  <2>1. T \subseteq Nat /\ T # {}
    BY <1>1
  <2> HIDE DEF T
  <2> QED BY <2>1, LeastElement
<1>3. m \in S
  <2> SUFFICES ASSUME m \notin S PROVE FALSE
    OBVIOUS
  <2>1. m # 0
    <3>1. PICK y \in S : TRUE
      OBVIOUS
    <3>2. y \in Nat /\ y <= m /\ y # m
      BY <1>2
    <3> QED BY <3>2
  <2>2. m - 1 \in T
    BY <1>2, <2>1
  <2> QED BY <1>2, <2>2
<1>4. \E x \in S : \A y \in S : y <= x
  BY <1>2, <1>3
<1> QED BY <1>4 DEF highest

(* A set that has 0, and i if it has i - 1, has all numbers up to n. *)
LEMMA UpToN ==
    ASSUME NEW n \in Nat, NEW S, 0 \in S, \A i \in 1 .. n : i - 1 \in S => i \in S
    PROVE  \A i \in 0 .. n : i \in S
<1> DEFINE D == (0 .. n) \ S
<1> SUFFICES ASSUME D # {} PROVE FALSE
  OBVIOUS
<1>1. D \subseteq Nat
  OBVIOUS
<1>2. lowest(D) \in D /\ \A y \in D : lowest(D) <= y
  <2> HIDE DEF D
  <2> QED BY <1>1, LeastElement
<1> DEFINE k == lowest(D)
<1>3. k \in 0 .. n /\ k \notin S /\ \A y \in 0 .. n : y \notin S => k <= y
  BY <1>2
<1> HIDE DEF k
<1>4. k # 0
  BY <1>3
<1>5. k \in 1 .. n /\ k - 1 \in 0 .. n /\ ~ (k <= k - 1)
  BY <1>3, <1>4
<1> QED BY <1>3, <1>5

(* A function of 0 to n that is right at 0, and right at i if it is right  *)
(* at i - 1, is right.                                                     *)
LEMMA Iteration ==
    ASSUME NEW n \in Nat, NEW F, NEW G, F[0] = G[0],
           \A i \in 1 .. n : F[i - 1] = G[i - 1] => F[i] = G[i]
    PROVE  \A i \in 0 .. n : F[i] = G[i]
<1> DEFINE S == { i \in 0 .. n : F[i] = G[i] }
<1>1. 0 \in S /\ \A i \in 1 .. n : i - 1 \in S => i \in S
  OBVIOUS
<1>2. \A i \in 0 .. n : i \in S
  <2> HIDE DEF S
  <2> QED BY <1>1, UpToN
<1> QED BY <1>2

-------------------------------------------------------------------------------
(* The slots that insertTuple computes.                                    *)

(* What the slots of a leaf are. *)
LEMMA LeafSlots ==
    ASSUME NEW pid, NEW a, LeafOK(pid, a)
    PROVE  /\ DOMAIN a = Slot /\ used(a) \subseteq Slot /\ emptySlots(a) = Slot \ used(a)
           /\ Slot \subseteq Nat /\ NumSlots \in Nat /\ NumSlots - 1 \in Nat
           /\ \A s \in used(a) : /\ a[s] \in tuplesOf(pid) /\ a[s] # Null
                                 /\ a[s].key \in Keys /\ a[s].key \in Int
                                 /\ a[s].page = pid /\ a[s].slot = s
<1>1. DOMAIN a = Slot /\ used(a) \subseteq Slot /\ emptySlots(a) = Slot \ used(a)
  BY DEF LeafOK, used, emptySlots
<1>2. Slot \subseteq Nat /\ NumSlots \in Nat /\ NumSlots - 1 \in Nat
  BY BTreeConstants DEF Slot
<1>3. ASSUME NEW s \in used(a)
      PROVE  /\ a[s] \in tuplesOf(pid) /\ a[s] # Null
             /\ a[s].key \in Keys /\ a[s].page = pid /\ a[s].slot = s
  <2>1. s \in Slot /\ a[s] # Null /\ a[s].slot = s
    BY <1>1 DEF LeafOK, used
  <2>2. a[s] \in tuplesOf(pid)
    BY <2>1 DEF LeafOK
  <2> QED BY <2>1, <2>2 DEF tuplesOf
<1>4. Keys \subseteq Int
  BY BTreeConstants
<1> QED BY <1>1, <1>2, <1>3, <1>4

(* The search of BTreeLeafPage::insertTuple for an empty slot finds one. *)
LEMMA FirstEmptySlot ==
    ASSUME NEW pid, NEW a, LeafOK(pid, a), emptySlots(a) # {}
    PROVE  lowest(emptySlots(a)) \in Slot /\ a[lowest(emptySlots(a))] = Null
<1>1. emptySlots(a) \subseteq Nat /\ emptySlots(a) \subseteq Slot
  BY LeafSlots
<1>2. lowest(emptySlots(a)) \in emptySlots(a)
  BY <1>1, LeastElement
<1> QED BY <1>1, <1>2 DEF emptySlots

(* Up to lessOrEqKey all keys are at most k, after it they are greater. *)
LEMMA LastLessOrEqual ==
    ASSUME NEW pid, NEW a, LeafOK(pid, a), NEW k \in Keys,
           NEW after, after = lessOrEqKey(a, k)
    PROVE  /\ after \in Int /\ -1 <= after /\ after < NumSlots
           /\ after # -1 => after \in Slot /\ a[after] # Null
           /\ \A s \in used(a) : s <= after => a[s].key <= k
           /\ \A s \in used(a) : after < s => k <= a[s].key
<1> DEFINE B == { s \in used(a) :
                    \A r \in used(a) : r <= s => a[r].key <= k }
<1>1. used(a) \subseteq Slot /\ NumSlots - 1 \in Nat /\ Slot \subseteq Nat
  BY LeafSlots
<1>2. \A s \in used(a) : a[s].key \in Int
  BY LeafSlots
<1>3. k \in Int
  BY BTreeConstants
<1>4. \A r, s \in used(a) : r <= s => a[r].key <= a[s].key
  <2> SUFFICES ASSUME NEW r \in used(a), NEW s \in used(a), r <= s
               PROVE  a[r].key <= a[s].key
    OBVIOUS
  <2>1. r \in Nat /\ s \in Nat
    BY <1>1
  <2>2. CASE r = s
    BY <1>2, <2>2
  <2>3. CASE r # s
    BY <2>1, <2>3 DEF LeafOK
  <2> QED BY <2>2, <2>3
<1>5. CASE B = {}
  <2>1. after = -1
    BY <1>5 DEF lessOrEqKey
  <2>2. ASSUME NEW s \in used(a) PROVE k <= a[s].key
    <3>1. PICK r \in used(a) : r <= s /\ ~ (a[r].key <= k)
      BY <1>5
    <3>2. a[r].key <= a[s].key
      BY <1>4, <3>1
    <3> QED BY <1>2, <1>3, <3>1, <3>2
  <2>3. ASSUME NEW s \in used(a) PROVE ~ (s <= -1)
    <3>1. s \in Nat
      BY <1>1
    <3> QED BY <3>1
  <2> QED BY <2>1, <2>2, <2>3, BTreeConstants
<1>6. CASE B # {}
  <2>1. B \subseteq 0 .. NumSlots - 1
    BY <1>1 DEF Slot
  <2>2. after = highest(B)
    BY <1>6 DEF lessOrEqKey
  <2>3. after \in B /\ \A y \in B : y <= after
    <3> HIDE DEF B
    <3> QED BY <1>1, <1>6, <2>1, <2>2, GreatestElement
  <2>4. after \in used(a) /\ after \in Slot /\ after \in Int /\ 0 <= after /\ after < NumSlots
    BY <1>1, <2>1, <2>3, BTreeConstants DEF Slot
  <2>5. ASSUME NEW s \in used(a), after < s PROVE k <= a[s].key
    <3>1. s \notin B
      BY <1>1, <2>3, <2>4, <2>5 DEF Slot
    <3>2. PICK r \in used(a) : r <= s /\ ~ (a[r].key <= k)
      BY <3>1
    <3>3. a[r].key <= a[s].key
      BY <1>4, <3>2
    <3> QED BY <1>2, <1>3, <3>2, <3>3
  <2>6. \A s \in used(a) : s <= after => a[s].key <= k
    BY <2>3
  <2>7. a[after] # Null
    BY <2>4 DEF used
  <2> HIDE DEF B
  <2> QED BY <2>4, <2>5, <2>6, <2>7
<1> QED BY <1>5, <1>6

(* The move loop keeps the order of the slots, leaves room between the     *)
(* tuples up to `after` and those behind it, and drops the empty slot.     *)
LEMMA SourceKeepsOrder ==
    ASSUME NEW empty \in Slot, NEW after \in Int, -1 <= after, after < NumSlots,
           after # empty,
           NEW good, good = goodSlot(empty, after)
    PROVE  /\ good \in Slot
           /\ \A s \in Slot \ {good} : source(empty, after, s) \in Slot \ {empty}
           /\ \A s \in Slot : s < good => source(empty, after, s) <= after
           /\ \A s \in Slot : good < s => after < source(empty, after, s)
           /\ \A r, s \in Slot \ {good} :
                r < s => source(empty, after, r) < source(empty, after, s)
           /\ \A t \in Slot \ {empty} : \E s \in Slot \ {good} : source(empty, after, s) = t
<1>1. /\ good \in Slot
      /\ \A s \in Slot \ {good} : source(empty, after, s) \in Slot \ {empty}
      /\ \A s \in Slot : s < good => source(empty, after, s) <= after
      /\ \A s \in Slot : good < s => after < source(empty, after, s)
      /\ \A r, s \in Slot \ {good} :
           r < s => source(empty, after, r) < source(empty, after, s)
  BY BTreeConstants DEF Slot, goodSlot, source
<1>2. ASSUME NEW t \in Slot \ {empty}
      PROVE  \E s \in Slot \ {good} : source(empty, after, s) = t
  <2> DEFINE u == CASE t \in empty + 1 .. after -> t - 1
                    [] t \in after + 1 .. empty - 1 -> t + 1
                    [] OTHER -> t
  <2>1. u \in Slot \ {good} /\ source(empty, after, u) = t
    BY BTreeConstants DEF Slot, goodSlot, source
  <2> QED BY <2>1
<1> QED BY <1>1, <1>2

-------------------------------------------------------------------------------
(* Inserting tuples.                                                       *)

(* What slot s holds after insertTuple, in terms of the page before it. *)
LEMMA InsertedSlots ==
    ASSUME NEW pid, Null \notin tuplesOf(pid), NEW a, LeafOK(pid, a), NEW k \in Keys,
           NEW empty \in Slot, NEW after \in Int,
           -1 <= after, after < NumSlots, after # empty,
           NEW good, good = goodSlot(empty, after),
           empty = lowest(emptySlots(a)), after = lessOrEqKey(a, k),
           NEW b, b = insertTuple(pid, a, k)
    PROVE  /\ b \in [Slot -> tuplesOf(pid) \cup {Null}]
           /\ b[good] = record(pid, k, good)
           /\ \A s \in Slot \ {good} :
                /\ b[s] = Null <=> a[source(empty, after, s)] = Null
                /\ a[source(empty, after, s)] # Null =>
                     b[s].key = a[source(empty, after, s)].key /\ b[s].slot = s
<1>1. /\ good \in Slot
      /\ \A s \in Slot \ {good} : source(empty, after, s) \in Slot
  BY SourceKeepsOrder
<1>2. a \in [Slot -> tuplesOf(pid) \cup {Null}]
  BY DEF LeafOK
<1>3. b = [[s \in Slot |->
                   IF source(empty, after, s) = s \/ a[source(empty, after, s)] = Null
                   THEN a[source(empty, after, s)]
                   ELSE record(pid, a[source(empty, after, s)].key, s)]
                 EXCEPT ![good] = record(pid, k, good)]
  BY <1>2 DEF insertTuple, moveRecords
<1>4. \A j \in Keys, s \in Slot :
        record(pid, j, s) \in tuplesOf(pid) /\ record(pid, j, s) # Null
        /\ record(pid, j, s).key = j /\ record(pid, j, s).slot = s
  BY DEF record, tuplesOf
<1>5. b[good] = record(pid, k, good)
  BY <1>1, <1>3
<1>6. ASSUME NEW s \in Slot \ {good}
      PROVE  LET r == source(empty, after, s)
             IN  /\ b[s] \in tuplesOf(pid) \cup {Null}
                 /\ b[s] = Null <=> a[r] = Null
                 /\ a[r] # Null => b[s].key = a[r].key /\ b[s].slot = s
  <2> DEFINE r == source(empty, after, s)
  <2>1. r \in Slot
    BY <1>1
  <2>2. b[s] = IF r = s \/ a[r] = Null THEN a[r]
                    ELSE record(pid, a[r].key, s)
    BY <1>1, <1>3
  <2> HIDE DEF r
  <2>3. a[r] # Null => a[r] \in tuplesOf(pid) /\ a[r].key \in Keys
                       /\ a[r].slot = r
    BY <1>2, <2>1 DEF tuplesOf, LeafOK, used
  <2>4. /\ b[s] \in tuplesOf(pid) \cup {Null}
        /\ b[s] = Null <=> a[r] = Null
        /\ a[r] # Null => b[s].key = a[r].key /\ b[s].slot = s
    BY <1>2, <1>4, <2>1, <2>2, <2>3
  <2> QED BY <2>4 DEF r
<1>7. b \in [Slot -> tuplesOf(pid) \cup {Null}]
  <2>1. b = [s \in Slot |-> b[s]]
    BY <1>3
  <2>2. \A s \in Slot : b[s] \in tuplesOf(pid) \cup {Null}
    BY <1>1, <1>4, <1>5, <1>6
  <2> QED BY <2>1, <2>2
<1> QED BY <1>5, <1>6, <1>7

(* BTreeLeafPage::insertTuple keeps the leaf sorted and its record ids     *)
(* right, and adds one tuple to those that were there.                     *)
LEMMA InsertTupleOK ==
    ASSUME NEW pid, Null \notin tuplesOf(pid), NEW a, LeafOK(pid, a),
           emptySlots(a) # {}, NEW k \in Keys
    PROVE  /\ LeafOK(pid, insertTuple(pid, a, k))
           /\ keysIn(insertTuple(pid, a, k)) = keysIn(a) \cup {k}
           /\ Cardinality(used(insertTuple(pid, a, k))) = Cardinality(used(a)) + 1
           /\ \A j : Cardinality(keySlots(insertTuple(pid, a, k), j)) =
                       Cardinality(keySlots(a, j)) + IF j = k THEN 1 ELSE 0
<1>1. PICK empty : empty = lowest(emptySlots(a))
  OBVIOUS
<1>2. PICK after : after = lessOrEqKey(a, k)
  OBVIOUS
<1>3. empty \in Slot /\ a[empty] = Null
  BY <1>1, FirstEmptySlot
<1>4. /\ after \in Int /\ -1 <= after /\ after < NumSlots
      /\ after # -1 => after \in Slot /\ a[after] # Null
      /\ \A s \in used(a) : s <= after => a[s].key <= k
      /\ \A s \in used(a) : after < s => k <= a[s].key
  BY <1>2, LastLessOrEqual
<1>5. after # empty
  BY <1>3, <1>4, BTreeConstants DEF Slot
<1>6. PICK good : good = goodSlot(empty, after)
  OBVIOUS
<1>7. PICK b : b = insertTuple(pid, a, k)
  OBVIOUS
<1> DEFINE src(s) == source(empty, after, s)
<1>8. /\ good \in Slot
      /\ \A s \in Slot \ {good} : src(s) \in Slot \ {empty}
      /\ \A s \in Slot : s < good => src(s) <= after
      /\ \A s \in Slot : good < s => after < src(s)
      /\ \A r, s \in Slot \ {good} : r < s => src(r) < src(s)
      /\ \A t \in Slot \ {empty} : \E s \in Slot \ {good} : src(s) = t
  BY <1>3, <1>4, <1>5, <1>6, SourceKeepsOrder
<1>9. /\ b \in [Slot -> tuplesOf(pid) \cup {Null}]
      /\ b[good] = record(pid, k, good)
      /\ \A s \in Slot \ {good} :
            /\ b[s] = Null <=> a[src(s)] = Null
            /\ a[src(s)] # Null => b[s].key = a[src(s)].key /\ b[s].slot = s
  BY <1>1, <1>2, <1>3, <1>4, <1>5, <1>6, <1>7, InsertedSlots
<1> HIDE DEF src
<1>10. b[good].key = k /\ b[good].slot = good /\ b[good] # Null
  <2>1. record(pid, k, good) \in tuplesOf(pid)
    BY <1>8 DEF record, tuplesOf
  <2> QED BY <1>9, <2>1 DEF record
<1>11. /\ used(b) \subseteq Slot /\ good \in used(b)
       /\ \A s \in Slot \ {good} : s \in used(b) <=> src(s) \in used(a)
       /\ used(a) \subseteq Slot \ {empty}
  BY <1>3, <1>8, <1>9, <1>10 DEF used, LeafOK
<1>12. \A s \in used(b) : b[s].slot = s
  BY <1>9, <1>10, <1>11 DEF used
<1>13. ASSUME NEW r \in used(b), NEW s \in used(b), r < s
       PROVE  b[r].key <= b[s].key
  <2>1. CASE r = good
    <3>1. s \in Slot \ {good} /\ src(s) \in used(a) /\ after < src(s)
      BY <1>8, <1>11, <1>13, <2>1, BTreeConstants DEF Slot
    <3>2. b[s].key = a[src(s)].key
      BY <1>9, <3>1 DEF used
    <3> QED BY <1>4, <1>10, <2>1, <3>1, <3>2
  <2>2. CASE s = good
    <3>1. r \in Slot \ {good} /\ src(r) \in used(a) /\ src(r) <= after
      BY <1>8, <1>11, <1>13, <2>2, BTreeConstants DEF Slot
    <3>2. b[r].key = a[src(r)].key
      BY <1>9, <3>1 DEF used
    <3> QED BY <1>4, <1>10, <2>2, <3>1, <3>2
  <2>3. CASE r # good /\ s # good
    <3>1. /\ r \in Slot \ {good} /\ src(r) \in used(a)
          /\ s \in Slot \ {good} /\ src(s) \in used(a)
          /\ src(r) < src(s)
      BY <1>8, <1>11, <1>13, <2>3
    <3>2. a[src(r)].key <= a[src(s)].key
      BY <3>1 DEF LeafOK
    <3> QED BY <1>9, <3>1, <3>2 DEF used
  <2> QED BY <2>1, <2>2, <2>3
<1>14. LeafOK(pid, b)
  BY <1>9, <1>12, <1>13 DEF LeafOK
<1>15. keysIn(b) = keysIn(a) \cup {k}
  <2>1. ASSUME NEW s \in used(b) PROVE b[s].key \in keysIn(a) \cup {k}
    <3>1. CASE s = good
      BY <1>10, <3>1
    <3>2. CASE s # good
      <4>1. src(s) \in used(a) /\ b[s].key = a[src(s)].key
        BY <1>9, <1>11, <3>2 DEF used
      <4> QED BY <4>1 DEF keysIn
    <3> QED BY <3>1, <3>2
  <2>2. ASSUME NEW t \in used(a) PROVE a[t].key \in keysIn(b)
    <3>1. PICK s \in Slot \ {good} : src(s) = t
      BY <1>8, <1>11
    <3>2. s \in used(b) /\ b[s].key = a[t].key
      BY <1>9, <1>11, <3>1 DEF used
    <3> QED BY <3>2 DEF keysIn
  <2>3. k \in keysIn(b)
    BY <1>10, <1>11 DEF keysIn
  <2> QED BY <2>1, <2>2, <2>3 DEF keysIn
<1>16. IsFiniteSet(used(a)) /\ IsFiniteSet(used(b))
  <2>1. IsFiniteSet(Slot)
    BY BTreeConstants, FS_Interval DEF Slot
  <2> QED BY <1>11, <2>1, FS_Subset
<1>17. ASSUME NEW A \in SUBSET used(a), NEW B \in SUBSET (used(b) \ {good}),
              \A s \in Slot \ {good} : s \in B <=> src(s) \in A
       PROVE  Cardinality(B) = Cardinality(A)
  <2> DEFINE h == [s \in B |-> src(s)]
  <2>1. h \in Bijection(B, A)
    <3>1. h \in [B -> A]
      BY <1>11, <1>17
    <3>2. ASSUME NEW r \in B, NEW s \in B, h[r] = h[s] PROVE r = s
      <4>1. src(r) = src(s) /\ r \in Slot \ {good} /\ s \in Slot \ {good}
        BY <1>11, <3>2
      <4>2. r \in Nat /\ s \in Nat /\ src(r) \in Nat
        BY <1>8, <4>1, BTreeConstants DEF Slot
      <4>3. ~ (src(r) < src(r))
        BY <4>2
      <4> QED BY <1>8, <4>1, <4>2, <4>3
    <3>3. ASSUME NEW t \in A PROVE \E s \in B : h[s] = t
      <4>1. PICK s \in Slot \ {good} : src(s) = t
        BY <1>8, <1>11
      <4>2. s \in B
        BY <1>17, <4>1
      <4> QED BY <4>1, <4>2
    <3> HIDE DEF h
    <3> QED BY <3>1, <3>2, <3>3, Fun_IsBij
  <2>2. IsFiniteSet(B)
    BY <1>16, FS_Subset
  <2> HIDE DEF h
  <2> QED BY <2>1, <2>2, FS_Bijection DEF ExistsBijection
<1>18. Cardinality(used(b)) = Cardinality(used(a)) + 1
  <2>1. Cardinality(used(b) \ {good}) = Cardinality(used(a))
    BY <1>11, <1>17
  <2>2. Cardinality(used(b) \ {good}) = Cardinality(used(b)) - 1
        /\ Cardinality(used(b)) \in Nat
    BY <1>11, <1>16, FS_RemoveElement, FS_CardinalityType
  <2> QED BY <2>1, <2>2
<1>19. ASSUME NEW j
       PROVE  Cardinality(keySlots(b, j)) =
                  Cardinality(keySlots(a, j)) + IF j = k THEN 1 ELSE 0
  <2> DEFINE A == keySlots(a, j)
             B == keySlots(b, j)
  <2>1. A \in SUBSET used(a) /\ B \in SUBSET used(b) /\ (good \in B <=> j = k)
    BY <1>10, <1>11 DEF keySlots
  <2>2. \A s \in Slot \ {good} : s \in B \ {good} <=> src(s) \in A
    BY <1>9, <1>11 DEF keySlots, used
  <2>3. IsFiniteSet(A) /\ IsFiniteSet(B) /\ Cardinality(A) \in Nat /\ Cardinality(B) \in Nat
    BY <1>16, <2>1, FS_Subset, FS_CardinalityType
  <2> HIDE DEF A, B
  <2>4. Cardinality(B \ {good}) = Cardinality(A)
    BY <1>17, <2>1, <2>2
  <2>5. CASE j = k
    <3>1. Cardinality(B \ {good}) = Cardinality(B) - 1
      BY <2>1, <2>3, <2>5, FS_RemoveElement
    <3> QED BY <2>3, <2>4, <2>5, <3>1 DEF A, B
  <2>6. CASE j # k
    <3>1. B \ {good} = B
      BY <2>1, <2>6
    <3> QED BY <2>3, <2>4, <2>6, <3>1 DEF A, B
  <2> QED BY <2>5, <2>6
<1> QED BY <1>7, <1>14, <1>15, <1>18, <1>19

(* F[n] is the page after n insertions. *)
Inserting(pid, a, keys, F) ==
    /\ insertTuples(pid, a, keys) = F[Len(keys)]
    /\ F[0] = a
    /\ \A n \in Nat : F[n + 1] = insertTuple(pid, F[n], keys[n + 1])

(* The pages after 0, 1, 2, ... insertions exist: the recursion of         *)
(* insertTuples is a definition.                                           *)
LEMMA Insertions ==
    ASSUME NEW pid, NEW a, NEW keys
    PROVE  \E F : Inserting(pid, a, keys, F)
<1> DEFINE Upto(g, n) == g = [i \in 0 .. n |-> IF i = 0 THEN a
                                              ELSE insertTuple(pid, g[i - 1], keys[i])]
           Bad == { n \in Nat : ~ \E g : Upto(g, n) }
<1>1. ASSUME NEW g, NEW h, NEW n \in Nat, NEW m \in Nat, Upto(g, n), Upto(h, m), n <= m
      PROVE  \A i \in 0 .. n : g[i] = h[i]
  <2> DEFINE D == { i \in 0 .. n : g[i] # h[i] }
  <2> SUFFICES ASSUME D # {} PROVE FALSE
    OBVIOUS
  <2>1. D \subseteq Nat
    OBVIOUS
  <2>2. lowest(D) \in D /\ \A y \in D : lowest(D) <= y
    <3> HIDE DEF D
    <3> QED BY <2>1, LeastElement
  <2> DEFINE k == lowest(D)
  <2>3. k \in 0 .. n /\ g[k] # h[k] /\ \A y \in D : k <= y
    BY <2>2
  <2> HIDE DEF k
  <2>4. CASE k = 0
    <3>1. g[0] = a /\ h[0] = a
      BY <1>1
    <3> QED BY <2>3, <2>4, <3>1
  <2>5. CASE k # 0
    <3>1. k - 1 \in 0 .. n /\ ~ (k <= k - 1) /\ k \in 0 .. m
      BY <1>1, <2>3, <2>5
    <3>2. g[k - 1] = h[k - 1]
      BY <2>3, <3>1
    <3>3. g[k] = insertTuple(pid, g[k - 1], keys[k]) /\ h[k] = insertTuple(pid, h[k - 1], keys[k])
      <4> HIDE DEF D
      <4> QED BY <1>1, <2>3, <2>5, <3>1
    <3> QED BY <2>3, <3>2, <3>3
  <2> QED BY <2>4, <2>5
<1>2. \A n \in Nat : \E g : Upto(g, n)
  <2> SUFFICES ASSUME Bad # {} PROVE FALSE
    OBVIOUS
  <2>1. Bad \subseteq Nat
    OBVIOUS
  <2>2. lowest(Bad) \in Bad /\ \A y \in Bad : lowest(Bad) <= y
    <3> HIDE DEF Bad
    <3> QED BY <2>1, LeastElement
  <2> DEFINE k == lowest(Bad)
  <2>3. k \in Nat /\ (~ \E g : Upto(g, k)) /\ \A y \in Bad : k <= y
    BY <2>2
  <2> HIDE DEF k
  <2>4. CASE k = 0
    <3> DEFINE g == [i \in 0 .. 0 |-> a]
    <3>1. g = [i \in 0 .. 0 |-> IF i = 0 THEN a ELSE insertTuple(pid, g[i - 1], keys[i])]
      OBVIOUS
    <3> QED BY <2>3, <2>4, <3>1
  <2>5. CASE k # 0
    <3>1. k - 1 \in Nat /\ ~ (k <= k - 1)
      BY <2>3, <2>5
    <3>2. PICK g : Upto(g, k - 1)
      BY <2>3, <3>1
    <3> DEFINE h == [i \in 0 .. k |-> IF i = k THEN insertTuple(pid, g[k - 1], keys[k]) ELSE g[i]]
    <3>3. ASSUME NEW i \in 0 .. k
          PROVE  h[i] = IF i = 0 THEN a ELSE insertTuple(pid, h[i - 1], keys[i])
      <4>1. CASE i = k
        <5>1. h[k] = insertTuple(pid, g[k - 1], keys[k]) /\ h[k - 1] = g[k - 1]
          BY <2>3, <2>5
        <5> QED BY <2>5, <4>1, <5>1
      <4>2. CASE i # k
        <5>1. i \in 0 .. k - 1
          BY <2>3, <4>2
        <5>2. g[i] = IF i = 0 THEN a ELSE insertTuple(pid, g[i - 1], keys[i])
          BY <3>2, <5>1
        <5>3. h[i] = g[i]
          BY <4>2
        <5>4. i # 0 => h[i - 1] = g[i - 1]
          BY <2>3, <5>1
        <5> QED BY <5>2, <5>3, <5>4
      <4> QED BY <4>1, <4>2
    <3>4. h = [i \in 0 .. k |-> IF i = 0 THEN a ELSE insertTuple(pid, h[i - 1], keys[i])]
      BY <3>3
    <3> HIDE DEF h
    <3> QED BY <2>3, <3>4
  <2> QED BY <2>4, <2>5
<1> DEFINE F == [n \in Nat |-> (CHOOSE g : Upto(g, n))[n]]
<1>3. ASSUME NEW n \in Nat
      PROVE  F[n] = IF n = 0 THEN a ELSE insertTuple(pid, F[n - 1], keys[n])
  <2>1. PICK g : Upto(g, n) /\ g = CHOOSE x : Upto(x, n)
    <3> HIDE DEF Upto
    <3> QED BY <1>2
  <2>2. F[n] = g[n]
    BY <2>1
  <2>3. CASE n = 0
    BY <2>1, <2>2, <2>3
  <2>4. CASE n # 0
    <3>1. n - 1 \in Nat /\ n - 1 <= n /\ n - 1 \in 0 .. n - 1
      BY <2>4
    <3>2. PICK h : Upto(h, n - 1) /\ h = CHOOSE x : Upto(x, n - 1)
      <4> HIDE DEF Upto
      <4> QED BY <1>2, <3>1
    <3>3. F[n - 1] = h[n - 1]
      BY <3>1, <3>2
    <3>4. h[n - 1] = g[n - 1]
      <4> HIDE DEF Upto, F
      <4> QED BY <1>1, <2>1, <3>1, <3>2
    <3>5. g[n] = insertTuple(pid, g[n - 1], keys[n])
      BY <2>1, <2>4
    <3> HIDE DEF F, Upto
    <3> QED BY <2>2, <2>4, <3>3, <3>4, <3>5
  <2> QED BY <2>3, <2>4
<1>4. F = [n \in Nat |-> IF n = 0 THEN a ELSE insertTuple(pid, F[n - 1], keys[n])]
  BY <1>3
<1> HIDE DEF F
<1>5. \E G : /\ G = [n \in Nat |-> IF n = 0 THEN a ELSE insertTuple(pid, G[n - 1], keys[n])]
            /\ insertTuples(pid, a, keys) = G[Len(keys)]
  BY <1>4 DEF insertTuples
<1>6. PICK G : /\ G = [n \in Nat |-> IF n = 0 THEN a ELSE insertTuple(pid, G[n - 1], keys[n])]
               /\ insertTuples(pid, a, keys) = G[Len(keys)]
  BY <1>5
<1>7. \A n \in Nat : n + 1 \in Nat /\ n + 1 # 0 /\ n + 1 - 1 = n
  OBVIOUS
<1>8. G[0] = a /\ \A n \in Nat : G[n + 1] = insertTuple(pid, G[n], keys[n + 1])
  BY <1>6, <1>7
<1> QED BY <1>6, <1>8 DEF Inserting

(* The counts of a leaf page. *)
LEMMA LeafCounts ==
    ASSUME NEW pid, NEW a, LeafOK(pid, a)
    PROVE  /\ IsFiniteSet(used(a)) /\ getNumTuples(a) \in Nat
           /\ getNumTuples(a) = Cardinality(used(a))
           /\ getNumEmptySlots(a) = NumSlots - getNumTuples(a)
           /\ getNumTuples(a) <= NumSlots
           /\ getNumTuples(a) < NumSlots => emptySlots(a) # {}
           /\ getNumTuples(a) > 0 => used(a) # {}
<1>1. used(a) \subseteq Slot /\ emptySlots(a) = Slot \ used(a) /\ NumSlots \in Nat
  BY LeafSlots
<1>2. IsFiniteSet(Slot) /\ Cardinality(Slot) = NumSlots
  BY BTreeConstants, FS_Interval DEF Slot
<1>3. IsFiniteSet(used(a)) /\ Cardinality(used(a)) \in Nat
      /\ Cardinality(used(a)) <= NumSlots
  BY <1>1, <1>2, FS_Subset, FS_CardinalityType
<1>4. Cardinality(Slot \ used(a)) = NumSlots - Cardinality(used(a))
  <2>1. Cardinality(Slot \ used(a)) = Cardinality(Slot) - Cardinality(Slot \cap used(a))
    BY <1>2, FS_Difference
  <2>2. Slot \cap used(a) = used(a)
    BY <1>1
  <2> QED BY <1>2, <2>1, <2>2
<1>5. Cardinality({}) = 0
  BY FS_EmptySet
<1>6. getNumTuples(a) = Cardinality(used(a)) /\ getNumEmptySlots(a) = Cardinality(Slot \ used(a))
  BY <1>1 DEF getNumTuples, getNumEmptySlots
<1> DEFINE u == Cardinality(used(a))
<1>7. u < NumSlots => emptySlots(a) # {}
  <2> SUFFICES ASSUME emptySlots(a) = {}, u < NumSlots PROVE FALSE
    OBVIOUS
  <2>1. NumSlots - u = 0
    BY <1>1, <1>4, <1>5
  <2> HIDE DEF u
  <2> QED BY <1>1, <1>3, <2>1 DEF u
<1>8. u > 0 => used(a) # {}
  BY <1>5
<1> HIDE DEF u
<1> QED BY <1>3, <1>4, <1>6, <1>7, <1>8 DEF u

(* Moving tuples into a leaf that has room keeps it a leaf, and brings     *)
(* exactly the tuples that are moved.                                      *)
LEMMA InsertTuplesOK ==
    ASSUME NEW pid, Null \notin tuplesOf(pid), NEW a, LeafOK(pid, a),
           NEW keys \in Seq(Keys), getNumTuples(a) + Len(keys) <= NumSlots,
           NEW b, b = insertTuples(pid, a, keys)
    PROVE  /\ LeafOK(pid, b)
           /\ keysIn(b) = keysIn(a) \cup { keys[i] : i \in 1 .. Len(keys) }
           /\ getNumTuples(b) = getNumTuples(a) + Len(keys)
           /\ \A j : Cardinality(keySlots(b, j)) =
                  Cardinality(keySlots(a, j)) + Cardinality({ i \in 1 .. Len(keys) : keys[i] = j })
<1> DEFINE L == Len(keys)
           with(n, j) == { i \in 1 .. n : keys[i] = j }
<1>0. PICK F : Inserting(pid, a, keys, F)
  BY Insertions
<1>1. /\ b = F[L] /\ F[0] = a
      /\ \A n \in Nat : F[n + 1] = insertTuple(pid, F[n], keys[n + 1])
  BY <1>0 DEF Inserting
<1>2. L \in Nat /\ \A i \in 1 .. L : keys[i] \in Keys
  OBVIOUS
<1>3. getNumTuples(a) \in Nat /\ NumSlots \in Nat
  BY LeafCounts, BTreeConstants
<1> DEFINE Good(n) == /\ LeafOK(pid, F[n])
                      /\ keysIn(F[n]) = keysIn(a) \cup { keys[i] : i \in 1 .. n }
                      /\ getNumTuples(F[n]) = getNumTuples(a) + n
                      /\ \A j : Cardinality(keySlots(F[n], j)) =
                                 Cardinality(keySlots(a, j)) + Cardinality(with(n, j))
           Bad == { n \in 0 .. L : ~ Good(n) }
<1> SUFFICES ASSUME Bad # {} PROVE FALSE
  <2>1. L \in 0 .. L
    BY <1>2
  <2>2. SUFFICES Good(L)
    BY <1>1, <2>2
  <2> HIDE DEF Good
  <2> QED BY <2>1
<1> DEFINE k == lowest(Bad)
<1>4. k \in 0 .. L /\ ~ Good(k) /\ \A y \in 0 .. L : ~ Good(y) => k <= y
  <2>1. Bad \subseteq Nat
    OBVIOUS
  <2>2. k \in Bad /\ \A y \in Bad : k <= y
    <3> HIDE DEF Bad
    <3> QED BY <2>1, LeastElement
  <2> HIDE DEF Good, k
  <2> QED BY <2>2
<1> HIDE DEF k
<1>5. \A j : IsFiniteSet(keySlots(a, j)) /\ Cardinality(keySlots(a, j)) \in Nat
  <2>1. IsFiniteSet(used(a))
    BY LeafCounts
  <2> QED BY <2>1, FS_Subset, FS_CardinalityType DEF keySlots
<1>6. CASE k = 0
  <2>1. 1 .. 0 = {} /\ { keys[i] : i \in 1 .. 0 } = {} /\ \A j : with(0, j) = {}
    OBVIOUS
  <2>2. Cardinality({}) = 0
    BY FS_EmptySet
  <2>3. \A j : Cardinality(keySlots(a, j)) + 0 = Cardinality(keySlots(a, j))
    BY <1>5
  <2>4. \A j : Cardinality(keySlots(F[0], j)) = Cardinality(keySlots(a, j)) + Cardinality(with(0, j))
    BY <1>1, <2>1, <2>2, <2>3
  <2> HIDE DEF with
  <2>5. Good(0)
    BY <1>1, <1>3, <2>1, <2>4
  <2> QED BY <1>4, <1>6, <2>5
<1>7. CASE k # 0
  <2> DEFINE m == k - 1
             c == F[m]
             d == F[k]
             e == keys[k]
  <2>1. m \in Nat /\ m \in 0 .. L /\ k = m + 1 /\ ~ (k <= m) /\ k \in 1 .. L /\ m < L
    BY <1>2, <1>4, <1>7
  <2>2. Good(m)
    <3> HIDE DEF Good
    <3> QED BY <1>4, <2>1
  <2> HIDE DEF m
  <2>3. d = insertTuple(pid, c, e) /\ e \in Keys
    BY <1>1, <1>2, <2>1
  <2>4. /\ LeafOK(pid, c) /\ keysIn(c) = keysIn(a) \cup { keys[i] : i \in 1 .. m }
        /\ getNumTuples(c) = getNumTuples(a) + m
        /\ \A j : Cardinality(keySlots(c, j)) =
                   Cardinality(keySlots(a, j)) + Cardinality(with(m, j))
    BY <2>2
  <2> HIDE DEF c, d, e, with
  <2>5. emptySlots(c) # {}
    <3>1. getNumTuples(c) < NumSlots
      BY <1>2, <1>3, <2>1, <2>4
    <3> QED BY <2>4, <3>1, LeafCounts
  <2>6. /\ LeafOK(pid, d) /\ keysIn(d) = keysIn(c) \cup {e}
        /\ Cardinality(used(d)) = Cardinality(used(c)) + 1
        /\ \A j : Cardinality(keySlots(d, j)) =
                   Cardinality(keySlots(c, j)) + IF j = e THEN 1 ELSE 0
    BY <2>3, <2>4, <2>5, InsertTupleOK
  <2>7. keysIn(d) = keysIn(a) \cup { keys[i] : i \in 1 .. k }
    <3>1. 1 .. k = 1 .. m \cup {k}
      BY <2>1
    <3>2. { keys[i] : i \in 1 .. k } = { keys[i] : i \in 1 .. m } \cup {keys[k]}
      BY <3>1
    <3> QED BY <2>4, <2>6, <3>2 DEF e
  <2>8. getNumTuples(d) = getNumTuples(a) + k
    BY <1>3, <2>1, <2>4, <2>6 DEF getNumTuples
  <2>9. ASSUME NEW j
        PROVE  Cardinality(keySlots(d, j)) = Cardinality(keySlots(a, j)) + Cardinality(with(k, j))
    <3>1. with(k, j) = IF j = e THEN with(m, j) \cup {k} ELSE with(m, j)
      BY <2>1 DEF with, e
    <3>2. k \notin with(m, j)
      BY <2>1 DEF with
    <3>3. IsFiniteSet(with(m, j)) /\ Cardinality(with(m, j)) \in Nat
      <4>1. IsFiniteSet(1 .. m)
        BY <2>1, FS_Interval
      <4> QED BY <4>1, FS_Subset, FS_CardinalityType DEF with
    <3>4. Cardinality(with(m, j) \cup {k}) = Cardinality(with(m, j)) + 1
      BY <3>2, <3>3, FS_AddElement
    <3> QED BY <1>5, <2>4, <2>6, <3>1, <3>3, <3>4
  <2>10. Good(k)
    BY <2>6, <2>7, <2>8, <2>9 DEF d
  <2> QED BY <1>4, <2>10
<1> QED BY <1>6, <1>7

(* Clearing slots keeps a leaf a leaf. *)
LEMMA ClearedOK ==
    ASSUME NEW pid, NEW a, LeafOK(pid, a), NEW R,
           NEW b, b = cleared(a, R)
    PROVE  /\ LeafOK(pid, b) /\ used(b) = used(a) \ R
           /\ \A s \in used(b) : b[s] = a[s]
<1>1. used(a) \subseteq Slot /\ a \in [Slot -> tuplesOf(pid) \cup {Null}]
  BY LeafSlots DEF LeafOK
<1>2. b \in [Slot -> tuplesOf(pid) \cup {Null}]
  BY <1>1 DEF cleared
<1>3. used(b) = used(a) \ R /\ \A s \in used(b) : b[s] = a[s]
  BY <1>1 DEF used, cleared
<1> QED BY <1>2, <1>3 DEF LeafOK

===============================================================================
