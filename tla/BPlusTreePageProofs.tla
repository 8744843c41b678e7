------------------------ MODULE BPlusTreePageProofs ------------------------
(***************************************************************************)
(* What the operations of one B+ tree page compute, for pages of any size: *)
(* the binary searches find the place of a key, leaf pages stay in order   *)
(* and lose or invent no entry when entries are inserted, removed, split   *)
(* off, merged or moved, and internal pages keep their children in order   *)
(* around the keys that separate them.                                     *)
(***************************************************************************)
EXTENDS BPlusTreePage, WellFoundedInduction, TLAPS

-----------------------------------------------------------------------------
(* The binary search. *)

\* Induction, for sets instead of predicates.
LEMMA Inductive ==
    ASSUME NEW P \in SUBSET Nat, 0 \in P, \A n \in P : n + 1 \in P
    PROVE  P = Nat
  <1> SUFFICES ASSUME Nat \ P # {} PROVE FALSE
    OBVIOUS
  <1> DEFINE R == {ss \in Nat \X Nat : ss[1] < ss[2]}
  <1>1. IsWellFoundedOn(R, Nat)
    BY NatLessThanWellFounded DEF OpToRel
  <1>2. PICK x \in Nat \ P : \A y \in Nat \ P : ~ (<<y, x>> \in R)
    BY <1>1, WFMin
  <1>3. x # 0 /\ x - 1 \in Nat /\ x \in Nat
    BY <1>2
  <1>4. <<x - 1, x>> \in R
    BY <1>3
  <1>5. x - 1 \in P
    BY <1>2, <1>3, <1>4
  <1>6. (x - 1) + 1 = x
    BY <1>3
  <1> QED  BY <1>2, <1>5, <1>6

Bounds == 0 .. MaxSlot + 1
Mid(l, r) == l + (r - l) \div 2

\* One iteration, given what the search answers for the two halves.
Halve(below, f, x) ==
    IF x[1] >= x[2] THEN x[1]
    ELSE IF Mid(x[1], x[2]) \in below THEN f[<<Mid(x[1], x[2]) + 1, x[2]>>]
    ELSE f[<<x[1], Mid(x[1], x[2])>>]

Searches(below, f) == f = [x \in Bounds \X Bounds |-> Halve(below, f, x)]

LEMMA SearchIs ==
    ASSUME NEW below, NEW lo, NEW hi
    PROVE  BinarySearch(below, lo, hi) = (CHOOSE f : Searches(below, f))[<<lo, hi>>]
  BY DEF BinarySearch, Searches, Halve, Mid, Bounds

\* The middle is in the range, and both halves are shorter.
LEMMA MidIs ==
    ASSUME NEW l \in Bounds, NEW r \in Bounds, l < r
    PROVE  /\ Mid(l, r) \in Bounds /\ Mid(l, r) + 1 \in Bounds /\ Mid(l, r) \in Slots
           /\ l <= Mid(l, r) /\ Mid(l, r) < r
           /\ r - (Mid(l, r) + 1) < r - l /\ Mid(l, r) - l < r - l
  <1> DEFINE d == (r - l) \div 2
  <1>1. l \in Nat /\ r \in Nat /\ r <= MaxSlot + 1 /\ MaxSlot \in Nat
    BY MaxSlotAssumption DEF Bounds
  <1>2. d \in Nat /\ d < r - l
    <2>1. r - l \in Nat /\ r - l > 0
      BY <1>1
    <2>2. \A n \in Nat : n > 0 => n \div 2 \in Nat /\ n \div 2 < n
      BY Z3
    <2> QED  BY <2>1, <2>2
  <1> HIDE DEF d
  <1>3. Mid(l, r) = l + d
    BY DEF Mid, d
  <1> QED  BY <1>1, <1>2, <1>3 DEF Bounds, Slots

\* The search is defined: what is right for ranges of length n gives what is right for
\* ranges of length n + 1.
SearchesUpTo(below, f, n) ==
    \A x \in Bounds \X Bounds : x[2] - x[1] <= n => f[x] = Halve(below, f, x)

LEMMA SearchExists ==
    ASSUME NEW below
    PROVE  \E f : Searches(below, f)
  <1> DEFINE D == Bounds \X Bounds
             P == {n \in Nat : \E f : f = [x \in D |-> f[x]] /\ SearchesUpTo(below, f, n)}
  <1>0. ASSUME NEW x \in D
        PROVE  /\ x = <<x[1], x[2]>> /\ x[1] \in Bounds /\ x[2] \in Bounds
               /\ x[1] \in Nat /\ x[2] \in Nat /\ x[2] <= MaxSlot + 1
    BY MaxSlotAssumption DEF Bounds
  <1>1. 0 \in P
    <2> DEFINE f == [x \in D |-> x[1]]
    <2>1. f = [x \in D |-> f[x]]
      OBVIOUS
    <2>2. SearchesUpTo(below, f, 0)
      <3> SUFFICES ASSUME NEW x \in D, x[2] - x[1] <= 0 PROVE f[x] = Halve(below, f, x)
        BY DEF SearchesUpTo
      <3>1. x[1] >= x[2]
        BY <1>0
      <3> QED  BY <3>1 DEF Halve
    <2> HIDE DEF f
    <2> QED  BY <2>1, <2>2
  <1>2. ASSUME NEW n \in P PROVE n + 1 \in P
    <2>1. PICK f : f = [x \in D |-> f[x]] /\ SearchesUpTo(below, f, n)
      OBVIOUS
    <2> DEFINE g == [x \in D |-> Halve(below, f, x)]
    <2>2. g = [x \in D |-> g[x]]
      OBVIOUS
    <2>3. ASSUME NEW x \in D, x[2] - x[1] <= n PROVE g[x] = f[x]
      BY <2>1, <2>3 DEF SearchesUpTo
    <2>4. SearchesUpTo(below, g, n + 1)
      <3> SUFFICES ASSUME NEW x \in D, x[2] - x[1] <= n + 1
                   PROVE  g[x] = Halve(below, g, x)
        BY DEF SearchesUpTo
      <3>1. g[x] = Halve(below, f, x)
        OBVIOUS
      <3>2. CASE x[1] >= x[2]
        BY <3>1, <3>2 DEF Halve
      <3>3. CASE x[1] < x[2]
        <4> DEFINE l == x[1]
                   r == x[2]
                   m == Mid(l, r)
        <4>1. l \in Bounds /\ r \in Bounds /\ l \in Nat /\ r \in Nat /\ n \in Nat
          BY <1>0
        <4>2. /\ m \in Bounds /\ m + 1 \in Bounds
              /\ r - (m + 1) < r - l /\ m - l < r - l
          BY <3>3, <4>1, MidIs
        <4> DEFINE y == <<m + 1, r>>
                   z == <<l, m>>
        <4>3. y \in D /\ z \in D
          BY <4>1, <4>2
        <4>4. y[2] - y[1] <= n /\ z[2] - z[1] <= n
          <5>1. m \in Int
            BY <4>2, MaxSlotAssumption DEF Bounds
          <5> HIDE DEF m, l, r
          <5>2. r - (m + 1) <= n /\ m - l <= n
            BY <4>1, <4>2, <5>1 DEF l, r
          <5> QED  BY <5>2
        <4>5. g[y] = f[y] /\ g[z] = f[z]
          BY <2>3, <4>3, <4>4
        <4> HIDE DEF g
        <4> QED  BY <3>1, <4>5 DEF Halve
      <3> QED  BY <1>0, <3>2, <3>3
    <2> HIDE DEF g
    <2> QED  BY <2>2, <2>4
  <1>3. MaxSlot + 1 \in P
    <2> HIDE DEF P
    <2>1. P \in SUBSET Nat
      BY DEF P
    <2> QED  BY <1>1, <1>2, <2>1, Inductive, MaxSlotAssumption
  <1>4. PICK f : f = [x \in D |-> f[x]] /\ SearchesUpTo(below, f, MaxSlot + 1)
    BY <1>3
  <1>5. ASSUME NEW x \in D PROVE f[x] = Halve(below, f, x)
    <2>1. x[2] - x[1] <= MaxSlot + 1
      BY <1>0, MaxSlotAssumption
    <2> QED  BY <1>4, <2>1 DEF SearchesUpTo
  <1>6. f = [x \in D |-> Halve(below, f, x)]
    BY <1>4, <1>5
  <1> QED  BY <1>6 DEF Searches

\* b splits the range from l to r: exactly the indices below it are in `below`.
Splits(below, l, r, b) == b \in l .. r /\ \A i \in l .. r - 1 : i \in below <=> i < b

LEMMA SplitStep ==
    ASSUME NEW below, NEW l \in Nat, NEW r \in Nat, NEW m \in Nat, l <= m, m < r, NEW b,
           \A i, j \in l .. r - 1 : i < j /\ j \in below => i \in below,
           \/ m \in below /\ Splits(below, m + 1, r, b)
           \/ m \notin below /\ Splits(below, l, m, b)
    PROVE  Splits(below, l, r, b)
  <1>1. CASE m \in below /\ Splits(below, m + 1, r, b)
    <2>1. b \in m + 1 .. r /\ b \in l .. r
      BY <1>1 DEF Splits
    <2>2. ASSUME NEW i \in l .. r - 1 PROVE i \in below <=> i < b
      <3>1. CASE i <= m
        <4>1. m \in l .. r - 1
          OBVIOUS
        <4>2. i < m \/ i = m
          BY <3>1
        <4>3. i \in below
          BY <1>1, <4>1, <4>2
        <4> QED  BY <2>1, <3>1, <4>3
      <3>2. CASE i > m
        <4>1. i \in m + 1 .. r - 1
          BY <3>2
        <4> QED  BY <1>1, <4>1 DEF Splits
      <3> QED  BY <3>1, <3>2
    <2> QED  BY <2>1, <2>2 DEF Splits
  <1>2. CASE m \notin below /\ Splits(below, l, m, b)
    <2>1. b \in l .. m /\ b \in l .. r
      BY <1>2 DEF Splits
    <2>2. ASSUME NEW i \in l .. r - 1 PROVE i \in below <=> i < b
      <3>1. CASE i < m
        <4>1. i \in l .. m - 1
          BY <3>1
        <4> QED  BY <1>2, <4>1 DEF Splits
      <3>2. CASE i >= m
        <4>1. m \in l .. r - 1
          OBVIOUS
        <4>2. m < i \/ i = m
          BY <3>2
        <4>3. i \notin below
          BY <1>2, <4>1, <4>2
        <4> QED  BY <2>1, <3>2, <4>3
      <3> QED  BY <3>1, <3>2
    <2> QED  BY <2>1, <2>2 DEF Splits
  <1> QED  BY <1>1, <1>2

(***************************************************************************)
(* The loop shared by KeyIndex and Lookup: in a range in which the indices *)
(* of `below` come first it ends on the first index that is not in it, and *)
(* on the end of the range when all are.                                   *)
(***************************************************************************)
THEOREM BinarySearchCorrect ==
    ASSUME NEW below, NEW lo \in Bounds, NEW hi \in Bounds, lo <= hi,
           \A i, j \in lo .. hi - 1 : i < j /\ j \in below => i \in below
    PROVE  Splits(below, lo, hi, BinarySearch(below, lo, hi))
  <1> DEFINE f == CHOOSE g : Searches(below, g)
             Within(l, r) == lo <= l /\ l <= r /\ r <= hi
             P == {n \in Nat : \A l, r \in Bounds :
                      Within(l, r) /\ r - l <= n => Splits(below, l, r, f[<<l, r>>])}
  <1>1. \A x \in Bounds \X Bounds : f[x] = Halve(below, f, x)
    <2>1. Searches(below, f)
      BY SearchExists
    <2> HIDE DEF f
    <2> QED  BY <2>1 DEF Searches
  <1> HIDE DEF f
  <1>2. ASSUME NEW l \in Bounds, NEW r \in Bounds
        PROVE  /\ l \in Nat /\ r \in Nat
               /\ l >= r => f[<<l, r>>] = l
               /\ l < r => f[<<l, r>>] = IF Mid(l, r) \in below THEN f[<<Mid(l, r) + 1, r>>]
                                         ELSE f[<<l, Mid(l, r)>>]
    <2>1. l \in Nat /\ r \in Nat
      BY MaxSlotAssumption DEF Bounds
    <2>2. <<l, r>> \in Bounds \X Bounds /\ <<l, r>>[1] = l /\ <<l, r>>[2] = r
      OBVIOUS
    <2>3. f[<<l, r>>] = Halve(below, f, <<l, r>>)
      BY <1>1, <2>2
    <2>4. l < r <=> ~(l >= r)
      BY <2>1
    <2> QED  BY <2>1, <2>2, <2>3, <2>4 DEF Halve
  <1>3. ASSUME NEW l \in Bounds, l <= hi PROVE Splits(below, l, l, f[<<l, l>>])
    <2>1. f[<<l, l>>] = l /\ l \in Nat
      <3>1. l \in Nat /\ l >= l
        BY MaxSlotAssumption DEF Bounds
      <3> QED  BY <1>2, <3>1
    <2> QED  BY <2>1 DEF Splits
  <1>4. 0 \in P
    <2> SUFFICES ASSUME NEW l \in Bounds, NEW r \in Bounds, Within(l, r), r - l <= 0
                 PROVE  Splits(below, l, r, f[<<l, r>>])
      OBVIOUS
    <2>1. l = r
      <3>1. l \in Nat /\ r \in Nat
        BY <1>2
      <3> QED  BY <3>1
    <2> QED  BY <1>3, <2>1
  <1>5. ASSUME NEW n \in P PROVE n + 1 \in P
    <2> SUFFICES ASSUME NEW l \in Bounds, NEW r \in Bounds, Within(l, r), r - l <= n + 1
                 PROVE  Splits(below, l, r, f[<<l, r>>])
      OBVIOUS
    <2>0. l \in Nat /\ r \in Nat /\ n \in Nat /\ lo \in Nat /\ hi \in Nat
      BY <1>2
    <2>1. CASE l = r
      BY <1>3, <2>1
    <2>2. CASE l < r
      <3> SUFFICES ASSUME NEW m, m = Mid(l, r) PROVE Splits(below, l, r, f[<<l, r>>])
        OBVIOUS
      <3>1. /\ m \in Bounds /\ m + 1 \in Bounds /\ l <= m /\ m < r
            /\ m \in Nat
        BY <2>2, MidIs, <1>2
      <3>2. /\ Within(m + 1, r) /\ r - (m + 1) <= n
            /\ Within(l, m) /\ m - l <= n
        BY <2>0, <3>1
      <3>3. \A i, j \in l .. r - 1 : i < j /\ j \in below => i \in below
        <4>1. \A i \in l .. r - 1 : i \in lo .. hi - 1
          BY <2>0
        <4> QED  BY <4>1
      <3>4. Splits(below, m + 1, r, f[<<m + 1, r>>]) /\ Splits(below, l, m, f[<<l, m>>])
        <4> HIDE DEF Within
        <4> QED  BY <3>1, <3>2
      <3>5. CASE m \in below
        <4>1. f[<<l, r>>] = f[<<m + 1, r>>]
          BY <1>2, <2>2, <3>5
        <4> QED  BY <2>0, <3>1, <3>3, <3>4, <3>5, <4>1, SplitStep
      <3>6. CASE m \notin below
        <4>1. f[<<l, r>>] = f[<<l, m>>]
          BY <1>2, <2>2, <3>6
        <4> QED  BY <2>0, <3>1, <3>3, <3>4, <3>6, <4>1, SplitStep
      <3> QED  BY <3>5, <3>6
    <2> QED  BY <2>0, <2>1, <2>2
  <1>6. hi - lo \in Nat /\ hi - lo <= hi - lo /\ lo <= lo /\ hi <= hi
    <2>1. lo \in Nat /\ hi \in Nat
      BY <1>2
    <2> QED  BY <2>1
  <1>7. hi - lo \in P
    <2> HIDE DEF P
    <2>1. P \in SUBSET Nat
      BY DEF P
    <2> QED  BY <1>4, <1>5, <1>6, <2>1, Inductive
  <1>8. Splits(below, lo, hi, f[<<lo, hi>>])
    BY <1>6, <1>7
  <1>9. BinarySearch(below, lo, hi) = f[<<lo, hi>>]
    BY SearchIs DEF f
  <1> QED  BY <1>8, <1>9

-----------------------------------------------------------------------------
(* Leaf pages. *)

\* The pages with values in V.
Entry(V) == [key : Int, val : V \cup {0}]
Page(V) == [leaf : BOOLEAN, size : Bounds, max : Int, parent : Int, next : Int,
            slot : [Slots -> Entry(V)]]

Used(p) == 0 .. p.size - 1
Ordered(p) == \A i, j \in Used(p) : i < j => p.slot[i].key < p.slot[j].key
Entries(p) == {p.slot[i] : i \in Used(p)}

\* Every key of p is below every key of q.
Precedes(p, q) == \A d \in Entries(p), e \in Entries(q) : d.key < e.key

LEMMA PageType ==
    ASSUME NEW V, NEW p \in Page(V)
    PROVE  /\ p.size \in Nat /\ p.size <= MaxSlot + 1 /\ MaxSlot \in Nat
           /\ \A i \in Slots : p.slot[i] \in Entry(V) /\ p.slot[i].key \in Int
           /\ \A i \in Used(p) : i \in Slots /\ i \in Nat /\ i < p.size
           /\ \A i \in Nat : i < p.size => i \in Used(p)
           /\ Entries(p) \subseteq Entry(V)
  <1>1. p.size \in Nat /\ p.size <= MaxSlot + 1 /\ MaxSlot \in Nat
    BY MaxSlotAssumption DEF Page, Bounds
  <1>2. p.slot \in [Slots -> Entry(V)]
    BY DEF Page
  <1>3. \A i \in Slots : p.slot[i] \in Entry(V) /\ p.slot[i].key \in Int
    BY <1>2 DEF Entry
  <1>4. \A i \in Used(p) : i \in Slots /\ i \in Nat /\ i < p.size
    BY <1>1 DEF Used, Slots
  <1>5. \A i \in Nat : i < p.size => i \in Used(p)
    BY <1>1 DEF Used
  <1>6. Entries(p) \subseteq Entry(V)
    BY <1>3, <1>4 DEF Entries
  <1> QED  BY <1>1, <1>3, <1>4, <1>5, <1>6

\* KeyIndex is the number of keys below k.
LEMMA KeyIndexIs ==
    ASSUME NEW V, NEW p \in Page(V), Ordered(p), NEW k \in Int
    PROVE  /\ KeyIndex(p, k) \in 0 .. p.size
           /\ \A i \in Used(p) : p.slot[i].key < k <=> i < KeyIndex(p, k)
  <1> DEFINE below == {i \in Slots : p.slot[i].key < k}
  <1>1. /\ p.size \in Bounds /\ 0 \in Bounds /\ 0 <= p.size
        /\ \A i \in Used(p) : i \in Slots /\ i \in Nat
        /\ \A i \in Slots : p.slot[i].key \in Int
    BY PageType DEF Bounds
  <1>2. \A i, j \in 0 .. p.size - 1 : i < j /\ j \in below => i \in below
    <2> SUFFICES ASSUME NEW i \in Used(p), NEW j \in Used(p), i < j, j \in below
                 PROVE  i \in below
      BY DEF Used
    <2>1. p.slot[i].key < p.slot[j].key /\ p.slot[j].key < k
      BY DEF Ordered
    <2>2. p.slot[i].key < k
      BY <1>1, <2>1
    <2> QED  BY <1>1, <2>2
  <1> HIDE DEF below
  <1>3. Splits(below, 0, p.size, BinarySearch(below, 0, p.size))
    BY <1>1, <1>2, BinarySearchCorrect
  <1>4. KeyIndex(p, k) = BinarySearch(below, 0, p.size)
    BY DEF KeyIndex, below
  <1>5. \A i \in Used(p) : i \in below <=> p.slot[i].key < k
    BY <1>1 DEF below
  <1> QED  BY <1>3, <1>4, <1>5 DEF Splits, Used

(***************************************************************************)
(* Lookup of a leaf: the slot at KeyIndex has the key exactly when some    *)
(* entry of the page has it, and then it is that entry.                    *)
(***************************************************************************)
THEOREM LeafLookupCorrect ==
    ASSUME NEW V, NEW p \in Page(V), Ordered(p), NEW k \in Int
    PROVE  /\ HasKeyAt(p, KeyIndex(p, k), k) <=> \E e \in Entries(p) : e.key = k
           /\ \A e \in Entries(p) : e.key = k => e = p.slot[KeyIndex(p, k)]
  <1> SUFFICES ASSUME NEW b, b = KeyIndex(p, k)
               PROVE  /\ HasKeyAt(p, b, k) <=> \E e \in Entries(p) : e.key = k
                      /\ \A e \in Entries(p) : e.key = k => e = p.slot[b]
    OBVIOUS
  <1>1. b \in 0 .. p.size /\ \A i \in Used(p) : p.slot[i].key < k <=> i < b
    BY KeyIndexIs
  <1>2. b \in Nat /\ p.size \in Nat
    BY <1>1, PageType
  <1>3. HasKeyAt(p, b, k) => \E e \in Entries(p) : e.key = k
    <2>1. b < p.size => b \in Used(p)
      BY <1>2 DEF Used
    <2> QED  BY <2>1 DEF HasKeyAt, Entries
  <1>4. ASSUME NEW e \in Entries(p), e.key = k PROVE HasKeyAt(p, b, k) /\ e = p.slot[b]
    <2>1. PICK i \in Used(p) : e = p.slot[i]
      BY DEF Entries
    <2>2. i \in Nat /\ i < p.size
      BY PageType
    <2>3. ~(p.slot[i].key < k)
      BY <1>4, <2>1
    <2>4. b <= i
      BY <1>1, <1>2, <2>2, <2>3
    <2>5. b = i
      <3> SUFFICES ASSUME b < i PROVE FALSE
        BY <1>2, <2>2, <2>4
      <3>1. b \in Used(p)
        BY <1>2, <2>2 DEF Used
      <3>2. p.slot[b].key < p.slot[i].key
        BY <3>1 DEF Ordered
      <3>3. b < b
        BY <1>1, <1>4, <2>1, <3>1, <3>2
      <3> QED  BY <1>2, <3>3
    <2> QED  BY <1>4, <2>1, <2>2, <2>5 DEF HasKeyAt
  <1> QED  BY <1>3, <1>4

SameHeader(p, q) ==
    q.leaf = p.leaf /\ q.max = p.max /\ q.parent = p.parent /\ q.next = p.next

LEMMA PutAtIs ==
    ASSUME NEW V, NEW p \in Page(V), p.size <= MaxSlot, NEW i \in 0 .. p.size, NEW s \in Entry(V)
    PROVE  /\ PutAt(p, i, s) \in Page(V) /\ SameHeader(p, PutAt(p, i, s))
           /\ PutAt(p, i, s).size = p.size + 1
           /\ \A j \in 0 .. p.size : PutAt(p, i, s).slot[j] =
                 IF j < i THEN p.slot[j] ELSE IF j = i THEN s ELSE p.slot[j - 1]
  <1> DEFINE open == OpenAt(p, i)
             new == [open EXCEPT ![i] = s]
  <1>1. p.size \in Nat /\ MaxSlot \in Nat /\ p.size + 1 \in Bounds
    BY PageType DEF Bounds
  <1>2. i \in Slots /\ \A j \in 0 .. p.size : j \in Slots
    BY <1>1 DEF Slots
  <1>3. open \in [Slots -> Entry(V)]
    <2>1. ASSUME NEW j \in Slots
          PROVE  (IF i < j /\ j <= p.size THEN p.slot[j - 1] ELSE p.slot[j]) \in Entry(V)
      <3>1. i < j => j - 1 \in Slots
        BY <1>1 DEF Slots
      <3> QED  BY <3>1, PageType
    <2> QED  BY <2>1 DEF OpenAt
  <1>4. new \in [Slots -> Entry(V)]
    <2> HIDE DEF open
    <2> QED  BY <1>2, <1>3
  <1>5. \A j \in 0 .. p.size : new[j] =
           IF j < i THEN p.slot[j] ELSE IF j = i THEN s ELSE p.slot[j - 1]
    <2> SUFFICES ASSUME NEW j \in 0 .. p.size
                 PROVE  new[j] = IF j < i THEN p.slot[j] ELSE IF j = i THEN s ELSE p.slot[j - 1]
      OBVIOUS
    <2>1. j \in Slots /\ j \in Nat /\ j <= p.size /\ i \in Nat
      BY <1>1, <1>2
    <2>2. open[j] = IF i < j /\ j <= p.size THEN p.slot[j - 1] ELSE p.slot[j]
      BY <2>1 DEF OpenAt
    <2>3. new[j] = IF j = i THEN s ELSE open[j]
      <3> HIDE DEF open
      <3> QED  BY <1>2, <1>3, <2>1
    <2> HIDE DEF open, new
    <2> QED  BY <2>1, <2>2, <2>3
  <1> HIDE DEF new
  <1>6. PutAt(p, i, s) = [p EXCEPT !.size = p.size + 1, !.slot = new]
    BY DEF PutAt, new, Page
  <1>7. /\ PutAt(p, i, s) \in Page(V) /\ SameHeader(p, PutAt(p, i, s))
        /\ PutAt(p, i, s).size = p.size + 1 /\ PutAt(p, i, s).slot = new
    BY <1>1, <1>4, <1>6 DEF Page, SameHeader
  <1> QED  BY <1>5, <1>7

LEMMA PutAtKeepsOrder ==
    ASSUME NEW V, NEW p \in Page(V), p.size <= MaxSlot, NEW i \in 0 .. p.size, NEW s \in Entry(V),
           Ordered(p),
           \A j \in Used(p) : j < i => p.slot[j].key < s.key,
           \A j \in Used(p) : j >= i => s.key < p.slot[j].key
    PROVE  /\ Ordered(PutAt(p, i, s))
           /\ Entries(PutAt(p, i, s)) = Entries(p) \cup {s}
  <1> SUFFICES ASSUME NEW q, q = PutAt(p, i, s)
               PROVE  Ordered(q) /\ Entries(q) = Entries(p) \cup {s}
    OBVIOUS
  <1>1. p.size \in Nat /\ i \in Nat /\ i <= p.size
    BY PageType
  <1>2. /\ Used(q) = 0 .. p.size
        /\ \A j \in Used(q) : q.slot[j] =
              IF j < i THEN p.slot[j] ELSE IF j = i THEN s ELSE p.slot[j - 1]
    <2>1. q.size = p.size + 1
      BY PutAtIs
    <2>2. Used(q) = 0 .. p.size
      BY <1>1, <2>1 DEF Used
    <2> QED  BY <2>2, PutAtIs
  <1>3. \A j \in Used(q) : /\ j \in Nat /\ (j < i => j \in Used(p))
                           /\ j > i => j - 1 \in Used(p) /\ j - 1 >= i
    <2> SUFFICES ASSUME NEW j \in 0 .. p.size
                 PROVE  /\ j \in Nat /\ (j < i => j \in Used(p))
                        /\ j > i => j - 1 \in Used(p) /\ j - 1 >= i
      BY <1>2
    <2>1. j \in Nat /\ j <= p.size
      BY <1>1
    <2>2. j < i => j \in Used(p)
      BY <1>1, <2>1 DEF Used
    <2>3. j > i => j - 1 \in Used(p) /\ j - 1 >= i
      BY <1>1, <2>1 DEF Used
    <2> QED  BY <2>1, <2>2, <2>3
  <1>4. \A j \in Used(p) : p.slot[j].key \in Int
    BY PageType
  <1>5. s.key \in Int
    BY DEF Entry
  <1>6. ASSUME NEW j \in Used(q), NEW l \in Used(q), j < l PROVE q.slot[j].key < q.slot[l].key
    <2>0. j \in Nat /\ l \in Nat
      BY <1>3
    <2>1. CASE l < i
      <3>1. j \in Used(p) /\ l \in Used(p) /\ j < i
        BY <1>1, <1>3, <1>6, <2>0, <2>1
      <3> QED  BY <1>2, <1>6, <2>1, <3>1 DEF Ordered
    <2>2. CASE l = i
      <3>1. j \in Used(p) /\ j < i /\ ~(l < i)
        BY <1>1, <1>3, <1>6, <2>0, <2>2
      <3> QED  BY <1>2, <2>2, <3>1
    <2>3. CASE l > i
      <3>1. l - 1 \in Used(p) /\ l - 1 >= i /\ ~(l < i) /\ l # i
        BY <1>1, <1>3, <2>0, <2>3
      <3>2. q.slot[l] = p.slot[l - 1]
        BY <1>2, <3>1
      <3>3. CASE j < i
        <4>1. j \in Used(p) /\ j < l - 1
          BY <1>1, <1>3, <2>0, <3>1, <3>3
        <4> QED  BY <1>2, <3>1, <3>2, <3>3, <4>1 DEF Ordered
      <3>4. CASE j = i
        <4>1. q.slot[j] = s
          BY <1>1, <1>2, <3>4
        <4> QED  BY <3>1, <3>2, <4>1
      <3>5. CASE j > i
        <4>1. j - 1 \in Used(p) /\ ~(j < i) /\ j # i /\ j - 1 < l - 1
          BY <1>1, <1>3, <1>6, <2>0, <3>5
        <4>2. q.slot[j] = p.slot[j - 1]
          BY <1>2, <4>1
        <4> QED  BY <3>1, <3>2, <4>1, <4>2 DEF Ordered
      <3> QED  BY <1>1, <2>0, <3>3, <3>4, <3>5
    <2> QED  BY <1>1, <2>0, <2>1, <2>2, <2>3
  <1>7. Entries(q) \subseteq Entries(p) \cup {s}
    <2> SUFFICES ASSUME NEW j \in Used(q) PROVE q.slot[j] \in Entries(p) \cup {s}
      BY DEF Entries
    <2>1. j < i \/ j = i \/ (j > i /\ ~(j < i) /\ j # i)
      BY <1>1, <1>3
    <2> QED  BY <1>2, <1>3, <2>1 DEF Entries
  <1>8. Entries(p) \cup {s} \subseteq Entries(q)
    <2>1. i \in Used(q) /\ ~(i < i)
      BY <1>1, <1>2
    <2>2. s \in Entries(q)
      BY <1>2, <2>1 DEF Entries
    <2>3. ASSUME NEW j \in Used(p) PROVE p.slot[j] \in Entries(q)
      <3>1. j \in Nat /\ j < p.size
        BY PageType
      <3>2. CASE j < i
        <4>1. j \in Used(q)
          BY <1>1, <1>2, <3>1
        <4> QED  BY <1>2, <3>2, <4>1 DEF Entries
      <3>3. CASE j >= i
        <4>1. j + 1 \in Used(q) /\ ~(j + 1 < i) /\ j + 1 # i /\ (j + 1) - 1 = j
          BY <1>1, <1>2, <3>1, <3>3
        <4>2. q.slot[j + 1] = p.slot[j]
          BY <1>2, <4>1
        <4> QED  BY <4>1, <4>2 DEF Entries
      <3> QED  BY <1>1, <3>1, <3>2, <3>3
    <2> QED  BY <2>2, <2>3 DEF Entries
  <1> QED  BY <1>6, <1>7, <1>8 DEF Ordered

(***************************************************************************)
(* Insert of a leaf that has a slot left: a key the page has changes       *)
(* nothing; any other is added with its value, every other entry stays,    *)
(* and the page stays in order.                                            *)
(***************************************************************************)
THEOREM LeafInsertCorrect ==
    ASSUME NEW V, NEW p \in Page(V), Ordered(p), p.size <= MaxSlot, NEW k \in Int, NEW v \in V
    PROVE  /\ LeafInsert(p, k, v) \in Page(V) /\ SameHeader(p, LeafInsert(p, k, v))
           /\ Ordered(LeafInsert(p, k, v))
           /\ IF \E e \in Entries(p) : e.key = k
              THEN LeafInsert(p, k, v) = p
              ELSE /\ Entries(LeafInsert(p, k, v)) = Entries(p) \cup {Slot(k, v)}
                   /\ LeafInsert(p, k, v).size = p.size + 1
  <1> DEFINE b == KeyIndex(p, k)
             s == Slot(k, v)
  <1>1. b \in 0 .. p.size /\ \A i \in Used(p) : p.slot[i].key < k <=> i < b
    BY KeyIndexIs
  <1>2. HasKeyAt(p, b, k) <=> \E e \in Entries(p) : e.key = k
    BY LeafLookupCorrect
  <1>3. CASE HasKeyAt(p, b, k)
    BY <1>2, <1>3 DEF LeafInsert, SameHeader
  <1>4. CASE ~HasKeyAt(p, b, k)
    <2>1. LeafInsert(p, k, v) = PutAt(p, b, s)
      BY <1>4 DEF LeafInsert
    <2>2. s \in Entry(V) /\ s.key = k
      BY DEF Slot, Entry
    <2>3. ASSUME NEW j \in Used(p) PROVE (j < b => p.slot[j].key < k) /\ (j >= b => k < p.slot[j].key)
      <3>1. j \in Nat /\ b \in Nat /\ p.slot[j].key \in Int
        BY <1>1, PageType
      <3>2. p.slot[j].key # k
        BY <1>2, <1>4 DEF Entries
      <3>3. p.slot[j].key < k <=> j < b
        BY <1>1
      <3> QED  BY <3>1, <3>2, <3>3
    <2> HIDE DEF b, s
    <2>4. /\ PutAt(p, b, s) \in Page(V) /\ SameHeader(p, PutAt(p, b, s))
          /\ PutAt(p, b, s).size = p.size + 1
      BY <1>1, <2>2, PutAtIs
    <2>5. /\ \A j \in Used(p) : j < b => p.slot[j].key < s.key
          /\ \A j \in Used(p) : j >= b => s.key < p.slot[j].key
      BY <2>2, <2>3
    <2>6. Ordered(PutAt(p, b, s)) /\ Entries(PutAt(p, b, s)) = Entries(p) \cup {s}
      BY <1>1, <2>2, <2>5, PutAtKeepsOrder
    <2>7. ~(\E e \in Entries(p) : e.key = k)
      BY <1>2, <1>4
    <2> QED  BY <2>1, <2>4, <2>6, <2>7 DEF s
  <1> QED  BY <1>3, <1>4

\* A page whose slots are those of p from index a on.
LEMMA PartKeepsOrder ==
    ASSUME NEW V, NEW p \in Page(V), NEW a \in Nat, NEW q, q.size \in Nat, a + q.size <= p.size,
           \A j \in Used(q) : q.slot[j] = p.slot[a + j]
    PROVE  /\ Ordered(p) => Ordered(q)
           /\ Entries(q) = {p.slot[i] : i \in a .. a + q.size - 1}
  <1>1. p.size \in Nat
    BY PageType
  <1>2. \A j \in Used(q) : j \in Nat /\ j < q.size /\ a + j \in Used(p) /\ a + j \in a .. a + q.size - 1
    BY <1>1 DEF Used
  <1>3. ASSUME Ordered(p), NEW i \in Used(q), NEW j \in Used(q), i < j
        PROVE  q.slot[i].key < q.slot[j].key
    <2>1. a + i \in Used(p) /\ a + j \in Used(p) /\ a + i < a + j
      BY <1>2, <1>3
    <2>2. p.slot[a + i].key < p.slot[a + j].key
      BY <1>3, <2>1 DEF Ordered
    <2> QED  BY <2>2
  <1>4. Entries(q) \subseteq {p.slot[i] : i \in a .. a + q.size - 1}
    BY <1>2 DEF Entries
  <1>5. ASSUME NEW i \in a .. a + q.size - 1 PROVE p.slot[i] \in Entries(q)
    <2>1. i - a \in Used(q) /\ a + (i - a) = i
      BY DEF Used
    <2>2. q.slot[i - a] = p.slot[i]
      BY <2>1
    <2> QED  BY <2>1, <2>2 DEF Entries
  <1> QED  BY <1>3, <1>4, <1>5 DEF Ordered

\* Cutting a leaf short.
Cut(p, n) == Trimmed([p EXCEPT !.size = n])

LEMMA CutIs ==
    ASSUME NEW V, NEW p \in Page(V), NEW n \in 0 .. p.size
    PROVE  LET q == Cut(p, n)
           IN  /\ q \in Page(V) /\ SameHeader(p, q) /\ q.size = n
               /\ \A j \in Used(q) : q.slot[j] = p.slot[j]
               /\ Ordered(p) => Ordered(q)
               /\ Entries(q) = {p.slot[i] : i \in 0 .. n - 1}
  <1> DEFINE new == [i \in Slots |-> IF i < n THEN p.slot[i] ELSE Blank]
             q == [p EXCEPT !.size = n, !.slot = new]
  <1>1. Cut(p, n) = q
    BY DEF Cut, Trimmed, Page
  <1>2. p.size \in Nat /\ MaxSlot \in Nat /\ n \in Bounds /\ n \in Nat /\ n <= MaxSlot + 1
    BY PageType DEF Bounds
  <1>3. new \in [Slots -> Entry(V)]
    <2>1. Blank \in Entry(V)
      BY DEF Blank, Slot, Entry
    <2> QED  BY <2>1, PageType
  <1>4. \A j \in 0 .. n - 1 : j \in Slots /\ new[j] = p.slot[j]
    <2>1. \A j \in 0 .. n - 1 : j \in Slots /\ j < n
      BY <1>2 DEF Slots
    <2> QED  BY <2>1
  <1> HIDE DEF new
  <1>5. q \in Page(V) /\ SameHeader(p, q) /\ q.size = n /\ q.slot = new
    BY <1>2, <1>3 DEF Page, SameHeader
  <1> HIDE DEF q
  <1>6. \A j \in Used(q) : q.slot[j] = p.slot[j] /\ p.slot[0 + j] = p.slot[j]
    BY <1>2, <1>4, <1>5 DEF Used
  <1>7. 0 + q.size <= p.size /\ q.size \in Nat /\ 0 + q.size - 1 = n - 1
    BY <1>2, <1>5
  <1>8. (Ordered(p) => Ordered(q)) /\ Entries(q) = {p.slot[i] : i \in 0 .. 0 + q.size - 1}
    BY <1>6, <1>7, PartKeepsOrder
  <1> QED  BY <1>1, <1>5, <1>6, <1>7, <1>8

LEMMA DropAtIs ==
    ASSUME NEW V, NEW p \in Page(V), NEW i \in Used(p)
    PROVE  LET q == DropAt(p, i)
           IN  /\ q \in Page(V) /\ SameHeader(p, q) /\ q.size = p.size - 1
               /\ \A j \in Used(q) : q.slot[j] = IF j < i THEN p.slot[j] ELSE p.slot[j + 1]
  <1> DEFINE close == CloseAt(p, i)
             q == [p EXCEPT !.size = p.size - 1, !.slot = close]
  <1>1. DropAt(p, i) = q
    BY DEF DropAt, Page
  <1>2. /\ p.size \in Nat /\ MaxSlot \in Nat /\ p.size <= MaxSlot + 1
        /\ i \in Nat /\ i < p.size /\ p.size - 1 \in Bounds
    BY PageType DEF Bounds
  <1>3. close \in [Slots -> Entry(V)]
    <2>1. ASSUME NEW j \in Slots
          PROVE  (IF i <= j /\ j < p.size - 1 THEN p.slot[j + 1] ELSE p.slot[j]) \in Entry(V)
      <3>1. j < p.size - 1 => j + 1 \in Slots
        BY <1>2 DEF Slots
      <3> QED  BY <3>1, PageType
    <2> QED  BY <2>1 DEF CloseAt
  <1>4. ASSUME NEW j \in 0 .. p.size - 2
        PROVE  close[j] = IF j < i THEN p.slot[j] ELSE p.slot[j + 1]
    <2>1. j \in Slots /\ j \in Nat /\ j < p.size - 1
      BY <1>2 DEF Slots
    <2>2. close[j] = IF i <= j /\ j < p.size - 1 THEN p.slot[j + 1] ELSE p.slot[j]
      BY <2>1 DEF CloseAt
    <2> HIDE DEF close
    <2> QED  BY <1>2, <2>1, <2>2
  <1> HIDE DEF close
  <1>5. q \in Page(V) /\ SameHeader(p, q) /\ q.size = p.size - 1 /\ q.slot = close
    BY <1>2, <1>3 DEF Page, SameHeader
  <1>6. Used(q) = 0 .. p.size - 2
    BY <1>2, <1>5 DEF Used
  <1> HIDE DEF q
  <1> QED  BY <1>1, <1>4, <1>5, <1>6

\* Dropping an entry and trimming the page.
LEMMA DropKeepsOrder ==
    ASSUME NEW V, NEW p \in Page(V), NEW i \in Used(p), Ordered(p)
    PROVE  LET q == Trimmed(DropAt(p, i))
           IN  /\ q \in Page(V) /\ SameHeader(p, q) /\ q.size = p.size - 1
               /\ Ordered(q)
               /\ Entries(q) = Entries(p) \ {p.slot[i]}
  <1> DEFINE d == DropAt(p, i)
             q == Trimmed(d)
  <1>1. /\ d \in Page(V) /\ SameHeader(p, d) /\ d.size = p.size - 1
        /\ \A j \in Used(d) : d.slot[j] = IF j < i THEN p.slot[j] ELSE p.slot[j + 1]
    BY DropAtIs
  <1>2. p.size \in Nat /\ i \in Nat /\ i < p.size
    BY PageType
  <1> HIDE DEF d
  <1>3. /\ q \in Page(V) /\ SameHeader(d, q) /\ q.size = d.size
        /\ \A j \in Used(q) : q.slot[j] = d.slot[j]
    <2>1. d = [d EXCEPT !.size = d.size]
      BY <1>1 DEF Page
    <2>2. d.size \in 0 .. d.size
      BY <1>1, <1>2
    <2>3. q = Cut(d, d.size)
      BY <2>1 DEF Cut
    <2> HIDE DEF q
    <2> QED  BY <1>1, <2>2, <2>3, CutIs
  <1> HIDE DEF q
  <1>4. /\ Used(q) = 0 .. p.size - 2
        /\ \A j \in Used(q) : q.slot[j] = IF j < i THEN p.slot[j] ELSE p.slot[j + 1]
    <2>1. Used(q) = 0 .. p.size - 2 /\ Used(d) = Used(q)
      BY <1>1, <1>2, <1>3 DEF Used
    <2> QED  BY <1>1, <1>3, <2>1
  <1>5. ASSUME NEW j \in Used(q)
        PROVE  j \in Nat /\ j \in Used(p) /\ j + 1 \in Used(p)
    <2>1. j \in 0 .. p.size - 2
      BY <1>4
    <2> QED  BY <1>2, <2>1 DEF Used
  <1>6. ASSUME NEW j \in Used(q), NEW l \in Used(q), j < l PROVE q.slot[j].key < q.slot[l].key
    <2>1. /\ j \in Nat /\ l \in Nat /\ j \in Used(p) /\ l \in Used(p)
          /\ j + 1 \in Used(p) /\ l + 1 \in Used(p)
      BY <1>5
    <2>2. j < l + 1 /\ j + 1 < l + 1 /\ (l < i => j < i)
      BY <1>2, <1>6, <2>1
    <2>3. /\ p.slot[j].key < p.slot[l].key /\ p.slot[j].key < p.slot[l + 1].key
          /\ p.slot[j + 1].key < p.slot[l + 1].key
      BY <1>6, <2>1, <2>2 DEF Ordered
    <2> QED  BY <1>4, <2>2, <2>3
  <1>7. ASSUME NEW j \in Used(p), j # i PROVE p.slot[j] # p.slot[i]
    <2>1. j \in Nat /\ p.slot[j].key \in Int /\ p.slot[i].key \in Int
      BY PageType
    <2>2. j < i \/ i < j
      BY <1>2, <1>7, <2>1
    <2>3. p.slot[j].key < p.slot[i].key \/ p.slot[i].key < p.slot[j].key
      BY <2>2 DEF Ordered
    <2>4. p.slot[j].key # p.slot[i].key
      BY <2>1, <2>3
    <2> QED  BY <2>4
  <1>8. Entries(q) \subseteq Entries(p) \ {p.slot[i]}
    <2> SUFFICES ASSUME NEW j \in Used(q) PROVE q.slot[j] \in Entries(p) \ {p.slot[i]}
      BY DEF Entries
    <2>1. CASE j < i
      <3>1. j # i /\ j \in Used(p)
        BY <1>2, <1>5, <2>1
      <3> QED  BY <1>4, <1>7, <2>1, <3>1 DEF Entries
    <2>2. CASE ~(j < i)
      <3>1. j + 1 # i /\ j + 1 \in Used(p)
        BY <1>2, <1>5, <2>2
      <3> QED  BY <1>4, <1>7, <2>2, <3>1 DEF Entries
    <2> QED  BY <2>1, <2>2
  <1>9. ASSUME NEW j \in Used(p), j # i PROVE p.slot[j] \in Entries(q)
    <2>1. j \in Nat /\ j < p.size
      BY PageType
    <2>2. CASE j < i
      <3>1. j \in Used(q)
        BY <1>2, <1>4, <2>1, <2>2
      <3> QED  BY <1>4, <2>2, <3>1 DEF Entries
    <2>3. CASE j > i
      <3>1. j - 1 \in Used(q) /\ ~(j - 1 < i) /\ (j - 1) + 1 = j
        BY <1>2, <1>4, <2>1, <2>3
      <3>2. q.slot[j - 1] = p.slot[j]
        BY <1>4, <3>1
      <3> QED  BY <3>1, <3>2 DEF Entries
    <2> QED  BY <1>2, <1>9, <2>1, <2>2, <2>3
  <1>10. Entries(p) \ {p.slot[i]} \subseteq Entries(q)
    BY <1>9 DEF Entries
  <1>11. SameHeader(p, q) /\ q.size = p.size - 1
    BY <1>1, <1>3 DEF SameHeader
  <1> QED  BY <1>3, <1>6, <1>8, <1>10, <1>11 DEF Ordered, q, d

(***************************************************************************)
(* RemoveAndDeleteRecord removes the entry with the key, if there is one,  *)
(* and nothing else, and the page stays in order.                          *)
(***************************************************************************)
THEOREM LeafRemoveCorrect ==
    ASSUME NEW V, NEW p \in Page(V), Ordered(p), NEW k \in Int
    PROVE  LET q == RemoveAndDeleteRecord(p, k)
           IN  /\ q \in Page(V) /\ SameHeader(p, q) /\ Ordered(q)
               /\ Entries(q) = {e \in Entries(p) : e.key # k}
               /\ q.size = IF \E e \in Entries(p) : e.key = k THEN p.size - 1 ELSE p.size
  <1> DEFINE b == KeyIndex(p, k)
             q == RemoveAndDeleteRecord(p, k)
  <1>1. /\ HasKeyAt(p, b, k) <=> \E e \in Entries(p) : e.key = k
        /\ \A e \in Entries(p) : e.key = k => e = p.slot[b]
    BY LeafLookupCorrect
  <1>2. b \in 0 .. p.size
    BY KeyIndexIs
  <1>3. CASE ~HasKeyAt(p, b, k)
    <2>1. q = p
      BY <1>3 DEF RemoveAndDeleteRecord
    <2>2. Entries(p) = {e \in Entries(p) : e.key # k}
      BY <1>1, <1>3
    <2> HIDE DEF q, b
    <2> QED  BY <1>1, <1>3, <2>1, <2>2 DEF SameHeader, q
  <1>4. CASE HasKeyAt(p, b, k)
    <2>1. q = Trimmed(DropAt(p, b))
      BY <1>4 DEF RemoveAndDeleteRecord
    <2>2. b \in Used(p) /\ p.slot[b].key = k
      <3>1. p.size \in Nat
        BY PageType
      <3> QED  BY <1>2, <1>4, <3>1 DEF HasKeyAt, Used
    <2> HIDE DEF q, b
    <2>3. /\ q \in Page(V) /\ SameHeader(p, q) /\ q.size = p.size - 1 /\ Ordered(q)
          /\ Entries(q) = Entries(p) \ {p.slot[b]}
      BY <2>1, <2>2, DropKeepsOrder
    <2>4. Entries(q) = {e \in Entries(p) : e.key # k}
      BY <1>1, <2>2, <2>3
    <2> QED  BY <1>1, <1>4, <2>3, <2>4 DEF q
  <1> QED  BY <1>3, <1>4

-----------------------------------------------------------------------------
(* Moving entries between leaves. *)

\* c has the slots of `to` up to index at, followed by n slots of `from`.
IsCopy(V, c, to, at, from, i, n) ==
    /\ c \in [Slots -> Entry(V)]
    /\ \A j \in 0 .. at + n - 1 : /\ j < at => c[j] = to.slot[j]
                                  /\ j >= at => c[j] = from.slot[i + j - at]

LEMMA CopiedIs ==
    ASSUME NEW V, NEW to \in Page(V), NEW from \in Page(V), NEW at \in Nat, NEW i \in Nat,
           NEW n \in Nat, at + n <= MaxSlot + 1, i + n <= MaxSlot + 1
    PROVE  IsCopy(V, Copied(to, at, from, i, n), to, at, from, i, n)
  <1> DEFINE c == Copied(to, at, from, i, n)
  <1>1. MaxSlot \in Nat
    BY MaxSlotAssumption
  <1>2. c \in [Slots -> Entry(V)]
    <2>1. ASSUME NEW j \in Slots
          PROVE  (IF at <= j /\ j < at + n THEN from.slot[i + j - at] ELSE to.slot[j]) \in Entry(V)
      <3>1. at <= j /\ j < at + n => i + j - at \in Slots
        BY <1>1 DEF Slots
      <3> QED  BY <3>1, PageType
    <2> QED  BY <2>1 DEF Copied
  <1>3. ASSUME NEW j \in 0 .. at + n - 1
        PROVE  /\ j < at => c[j] = to.slot[j]
               /\ j >= at => c[j] = from.slot[i + j - at]
    <2>1. j \in Slots /\ j \in Nat /\ j < at + n
      BY <1>1 DEF Slots
    <2>2. c[j] = IF at <= j /\ j < at + n THEN from.slot[i + j - at] ELSE to.slot[j]
      BY <2>1 DEF Copied
    <2> HIDE DEF c
    <2> QED  BY <2>1, <2>2
  <1> QED  BY <1>2, <1>3 DEF IsCopy

\* A leaf whose first mid entries stay and whose other n go to a new leaf.
Upper(new, p, mid, n) == [new EXCEPT !.size = n, !.slot = Copied(new, 0, p, mid, n)]

LEMMA SplitAt ==
    ASSUME NEW V, NEW p \in Page(V), NEW new \in Page(V), Ordered(p),
           NEW mid \in Nat, NEW n \in Nat, mid + n = p.size
    PROVE  LET low == Cut(p, mid)
               high == Upper(new, p, mid, n)
           IN  /\ low \in Page(V) /\ SameHeader(p, low) /\ Ordered(low)
               /\ high \in Page(V) /\ SameHeader(new, high) /\ Ordered(high)
               /\ Entries(low) \cup Entries(high) = Entries(p)
               /\ Precedes(low, high)
               /\ low.size = mid /\ high.size = n
  <1> DEFINE low == Cut(p, mid)
             c == Copied(new, 0, p, mid, n)
             high == [new EXCEPT !.size = n, !.slot = c]
  <1>1. p.size \in Nat /\ MaxSlot \in Nat /\ p.size <= MaxSlot + 1
    BY PageType
  <1>3. mid \in 0 .. p.size /\ n \in Bounds /\ n <= MaxSlot + 1 /\ 0 + n <= MaxSlot + 1
    BY <1>1 DEF Bounds
  <1>4. /\ low \in Page(V) /\ SameHeader(p, low) /\ Ordered(low) /\ low.size = mid
        /\ Entries(low) = {p.slot[i] : i \in 0 .. mid - 1}
    BY <1>3, CutIs
  <1>5. IsCopy(V, c, new, 0, p, mid, n)
    BY <1>1, <1>3, CopiedIs
  <1> HIDE DEF c, low
  <1>6. high \in Page(V) /\ SameHeader(new, high) /\ high.size = n /\ high.slot = c
    BY <1>3, <1>5 DEF Page, SameHeader, IsCopy
  <1> HIDE DEF high
  <1>7. \A j \in Used(high) : high.slot[j] = p.slot[mid + j]
    <2> SUFFICES ASSUME NEW j \in Used(high) PROVE high.slot[j] = p.slot[mid + j]
      OBVIOUS
    <2>1. j \in 0 .. 0 + n - 1 /\ j >= 0 /\ mid + j - 0 = mid + j
      BY <1>6 DEF Used
    <2>2. c[j] = p.slot[mid + j - 0]
      BY <1>5, <2>1 DEF IsCopy
    <2> QED  BY <1>6, <2>1, <2>2
  <1>8. Ordered(high) /\ Entries(high) = {p.slot[i] : i \in mid .. p.size - 1}
    <2>1. mid + high.size = p.size /\ high.size \in Nat /\ mid + high.size <= p.size
      BY <1>1, <1>6
    <2>2. Ordered(high) /\ Entries(high) = {p.slot[i] : i \in mid .. mid + high.size - 1}
      BY <1>7, <2>1, PartKeepsOrder
    <2> QED  BY <2>1, <2>2
  <1>9. \A i : i \in Used(p) <=> i \in 0 .. mid - 1 \/ i \in mid .. p.size - 1
    BY <1>1 DEF Used
  <1>10. Entries(low) \cup Entries(high) = Entries(p)
    BY <1>4, <1>8, <1>9 DEF Entries
  <1>11. Precedes(low, high)
    <2> SUFFICES ASSUME NEW i \in 0 .. mid - 1, NEW j \in mid .. p.size - 1
                 PROVE  p.slot[i].key < p.slot[j].key
      BY <1>4, <1>8 DEF Precedes
    <2>1. i \in Used(p) /\ j \in Used(p) /\ i < j
      BY <1>1, <1>9
    <2> QED  BY <2>1 DEF Ordered
  <1> QED  BY <1>4, <1>6, <1>8, <1>10, <1>11 DEF low, high, c, Upper

LEMMA HalfIs == ASSUME NEW n \in Nat PROVE n \div 2 \in Nat /\ n - (n \div 2) \in Nat
  <1>1. n \div 2 \in Int /\ 0 <= n \div 2 /\ n \div 2 <= n
    BY Z3
  <1> DEFINE h == n \div 2
  <1> HIDE DEF h
  <1>2. h \in Int /\ 0 <= h /\ h <= n
    BY <1>1 DEF h
  <1>3. h \in Nat /\ n - h \in Nat
    BY <1>2
  <1> QED  BY <1>3 DEF h

(***************************************************************************)
(* MoveHalfTo, a leaf split: the lower half stays, the upper half goes to  *)
(* the new leaf, no entry is lost or there twice, both are in order, and   *)
(* every key that stayed is below every key that moved, so that the first  *)
(* key of the new leaf separates the two.                                  *)
(***************************************************************************)
THEOREM LeafSplitCorrect ==
    ASSUME NEW V, NEW p \in Page(V), NEW new \in Page(V), Ordered(p)
    PROVE  LET low == LeafMoveHalfTo(p, new)[1]
               high == LeafMoveHalfTo(p, new)[2]
           IN  /\ low \in Page(V) /\ SameHeader(p, low) /\ Ordered(low)
               /\ high \in Page(V) /\ SameHeader(new, high) /\ Ordered(high)
               /\ Entries(low) \cup Entries(high) = Entries(p)
               /\ Precedes(low, high)
               /\ low.size = p.size \div 2 /\ low.size + high.size = p.size
  <1> DEFINE mid == p.size \div 2
             n == p.size - mid
             low == Cut(p, mid)
             high == Upper(new, p, mid, n)
  <1>1. LeafMoveHalfTo(p, new)[1] = low /\ LeafMoveHalfTo(p, new)[2] = high
    BY DEF LeafMoveHalfTo, Cut, Upper
  <1>2. p.size \in Nat /\ mid \in Nat /\ n \in Nat
    BY PageType, HalfIs
  <1>3. mid + n = p.size
    <2> HIDE DEF mid
    <2> QED  BY <1>2
  <1> HIDE DEF mid, n
  <1>4. /\ low \in Page(V) /\ SameHeader(p, low) /\ Ordered(low)
        /\ high \in Page(V) /\ SameHeader(new, high) /\ Ordered(high)
        /\ Entries(low) \cup Entries(high) = Entries(p)
        /\ Precedes(low, high)
        /\ low.size = mid /\ high.size = n
    BY <1>2, <1>3, SplitAt
  <1> HIDE DEF low, high
  <1>5. mid = p.size \div 2
    BY DEF mid
  <1> QED  BY <1>1, <1>3, <1>4, <1>5

(***************************************************************************)
(* MoveAllTo, a leaf merge into the left neighbour: the recipient has the  *)
(* entries of both and is in order, and the giver is empty.                *)
(***************************************************************************)
THEOREM LeafMergeCorrect ==
    ASSUME NEW V, NEW p \in Page(V), NEW to \in Page(V), Ordered(p), Ordered(to),
           Precedes(to, p), to.size + p.size <= MaxSlot + 1
    PROVE  LET left == LeafMoveAllTo(p, to)[2]
           IN  /\ left \in Page(V) /\ SameHeader(to, left) /\ Ordered(left)
               /\ left.size = to.size + p.size
               /\ Entries(left) = Entries(to) \cup Entries(p)
               /\ Entries(LeafMoveAllTo(p, to)[1]) = {}
  <1> DEFINE c == Copied(to, to.size, p, 0, p.size)
             q == [to EXCEPT !.size = to.size + p.size, !.slot = c]
             empty == Cut(p, 0)
  <1>0. LeafMoveAllTo(p, to)[1] = empty /\ LeafMoveAllTo(p, to)[2] = q
    BY DEF LeafMoveAllTo, Page, Cut
  <1>1. /\ p.size \in Nat /\ to.size \in Nat /\ MaxSlot \in Nat /\ p.size <= MaxSlot + 1
        /\ to.size + p.size \in Bounds /\ 0 + p.size <= MaxSlot + 1
    BY PageType DEF Bounds
  <1>2. IsCopy(V, c, to, to.size, p, 0, p.size)
    BY <1>1, CopiedIs
  <1> HIDE DEF c
  <1>3. q \in Page(V) /\ SameHeader(to, q) /\ q.size = to.size + p.size /\ q.slot = c
    BY <1>1, <1>2 DEF Page, SameHeader, IsCopy
  <1> HIDE DEF q
  <1>4. ASSUME NEW j \in Used(q)
        PROVE  /\ j \in Nat
               /\ j < to.size => j \in Used(to) /\ q.slot[j] = to.slot[j]
               /\ j >= to.size => /\ j - to.size \in Used(p)
                                  /\ q.slot[j] = p.slot[j - to.size]
    <2>0. j \in 0 .. q.size - 1
      BY DEF Used
    <2>1. j \in 0 .. to.size + p.size - 1
      <3>1. q.size = to.size + p.size
        BY <1>3
      <3> QED  BY <1>1, <2>0, <3>1
    <2>2. j \in Nat /\ (j < to.size => j \in Used(to)) /\ (j >= to.size => j - to.size \in Used(p))
      BY <1>1, <2>1 DEF Used
    <2>3. 0 + j - to.size = j - to.size
      BY <1>1, <2>2
    <2>4. /\ j < to.size => q.slot[j] = to.slot[j]
          /\ j >= to.size => q.slot[j] = p.slot[0 + j - to.size]
      BY <1>2, <1>3, <2>1 DEF IsCopy
    <2> QED  BY <2>2, <2>3, <2>4
  <1>5. ASSUME NEW i \in Used(q), NEW j \in Used(q), i < j PROVE q.slot[i].key < q.slot[j].key
    <2>1. CASE j < to.size
      <3>1. i < to.size
        BY <1>1, <1>4, <1>5, <2>1
      <3> QED  BY <1>4, <1>5, <2>1, <3>1 DEF Ordered
    <2>2. CASE i < to.size /\ j >= to.size
      BY <1>4, <2>2 DEF Precedes, Entries
    <2>3. CASE i >= to.size /\ j >= to.size
      <3>1. i - to.size < j - to.size
        BY <1>1, <1>4, <1>5
      <3> QED  BY <1>4, <2>3, <3>1 DEF Ordered
    <2> QED  BY <1>1, <1>4, <2>1, <2>2, <2>3
  <1>6. Entries(q) \subseteq Entries(to) \cup Entries(p)
    <2> SUFFICES ASSUME NEW j \in Used(q) PROVE q.slot[j] \in Entries(to) \cup Entries(p)
      BY DEF Entries
    <2>1. j < to.size \/ j >= to.size
      BY <1>1, <1>4
    <2> QED  BY <1>4, <2>1 DEF Entries
  <1>7. Entries(to) \subseteq Entries(q)
    <2> SUFFICES ASSUME NEW j \in Used(to) PROVE to.slot[j] \in Entries(q)
      BY DEF Entries
    <2>1. j \in Used(q) /\ j < to.size
      BY <1>1, <1>3 DEF Used
    <2> QED  BY <1>4, <2>1 DEF Entries
  <1>8. Entries(p) \subseteq Entries(q)
    <2> SUFFICES ASSUME NEW j \in Used(p) PROVE p.slot[j] \in Entries(q)
      BY DEF Entries
    <2>1. j + to.size \in Used(q) /\ j + to.size >= to.size /\ (j + to.size) - to.size = j
      BY <1>1, <1>3 DEF Used
    <2>2. q.slot[j + to.size] = p.slot[j]
      BY <1>4, <2>1
    <2> QED  BY <2>1, <2>2 DEF Entries
  <1>9. Entries(empty) = {}
    <2>1. 0 \in 0 .. p.size /\ 0 .. 0 - 1 = {}
      BY <1>1
    <2>2. Entries(empty) = {p.slot[i] : i \in 0 .. 0 - 1}
      BY <2>1, CutIs
    <2> HIDE DEF empty
    <2> QED  BY <2>1, <2>2
  <1> HIDE DEF empty
  <1> QED  BY <1>0, <1>3, <1>5, <1>6, <1>7, <1>8, <1>9 DEF Ordered

(***************************************************************************)
(* MoveFirstToEndOf, the smallest entry of a leaf to its left neighbour:   *)
(* both stay in order, no entry is lost, and the left one stays below the  *)
(* right one.                                                              *)
(***************************************************************************)
THEOREM LeafMoveFirstCorrect ==
    ASSUME NEW V, NEW p \in Page(V), NEW to \in Page(V), Ordered(p), Ordered(to),
           Precedes(to, p), p.size > 0, to.size <= MaxSlot
    PROVE  LET right == LeafMoveFirstToEndOf(p, to)[1]
               left == LeafMoveFirstToEndOf(p, to)[2]
           IN  /\ right \in Page(V) /\ SameHeader(p, right) /\ Ordered(right)
               /\ left \in Page(V) /\ SameHeader(to, left) /\ Ordered(left)
               /\ Entries(left) = Entries(to) \cup {p.slot[0]}
               /\ Entries(right) = Entries(p) \ {p.slot[0]}
               /\ Precedes(left, right)
  <1> DEFINE right == Trimmed(DropAt(p, 0))
             s == p.slot[0]
             left == PutAt(to, to.size, s)
  <1>1. /\ p.size \in Nat /\ to.size \in Nat /\ 0 \in Used(p) /\ s \in Entry(V)
        /\ to.size \in 0 .. to.size
    <2>1. p.size \in Nat /\ to.size \in Nat
      BY PageType
    <2>2. 0 \in Used(p) /\ to.size \in 0 .. to.size
      BY <2>1, PageType
    <2>3. s \in Entry(V)
      BY <2>2, PageType
    <2> QED  BY <2>1, <2>2, <2>3
  <1>2. [to EXCEPT !.size = to.size + 1, !.slot[to.size] = s] = left
    <2>1. OpenAt(to, to.size) = to.slot
      <3>1. to.slot = [j \in Slots |-> to.slot[j]]
        BY DEF Page
      <3>2. \A j \in Slots : ~(to.size < j /\ j <= to.size)
        BY <1>1 DEF Slots
      <3> QED  BY <3>1, <3>2 DEF OpenAt
    <2> QED  BY <2>1 DEF PutAt, Page
  <1>3. LeafMoveFirstToEndOf(p, to)[1] = right /\ LeafMoveFirstToEndOf(p, to)[2] = left
    <2>1. LeafMoveFirstToEndOf(p, to)[2] = [to EXCEPT !.size = to.size + 1, !.slot[to.size] = s]
      BY DEF LeafMoveFirstToEndOf
    <2>2. LeafMoveFirstToEndOf(p, to)[1] = right
      BY DEF LeafMoveFirstToEndOf
    <2> QED  BY <1>2, <2>1, <2>2
  <1>4. /\ right \in Page(V) /\ SameHeader(p, right) /\ Ordered(right)
        /\ Entries(right) = Entries(p) \ {s}
    BY <1>1, DropKeepsOrder
  <1>5. s \in Entries(p)
    BY <1>1 DEF Entries
  <1> HIDE DEF s
  <1>6. left \in Page(V) /\ SameHeader(to, left)
    BY <1>1, PutAtIs
  <1>7. Ordered(left) /\ Entries(left) = Entries(to) \cup {s}
    <2>1. \A j \in Used(to) : j < to.size => to.slot[j].key < s.key
      BY <1>5 DEF Precedes, Entries
    <2>2. \A j \in Used(to) : ~(j >= to.size)
      BY <1>1 DEF Used
    <2> QED  BY <1>1, <2>1, <2>2, PutAtKeepsOrder
  <1> HIDE DEF left, right
  <1>8. Precedes(left, right)
    <2>1. \A e \in Entries(p) \ {s} : s.key < e.key
      <3> SUFFICES ASSUME NEW j \in Used(p), p.slot[j] # p.slot[0]
                   PROVE  p.slot[0].key < p.slot[j].key
        BY DEF Entries, s
      <3>1. 0 < j
        BY <1>1 DEF Used
      <3> QED  BY <1>1, <3>1 DEF Ordered
    <2> QED  BY <1>4, <1>7, <2>1 DEF Precedes
  <1> QED  BY <1>3, <1>4, <1>6, <1>7, <1>8 DEF s

(***************************************************************************)
(* MoveLastToFrontOf, the largest entry of a leaf to its right neighbour,  *)
(* likewise.                                                               *)
(***************************************************************************)
THEOREM LeafMoveLastCorrect ==
    ASSUME NEW V, NEW p \in Page(V), NEW to \in Page(V), Ordered(p), Ordered(to),
           Precedes(p, to), p.size > 0, to.size <= MaxSlot
    PROVE  LET left == LeafMoveLastToFrontOf(p, to)[1]
               right == LeafMoveLastToFrontOf(p, to)[2]
               s == p.slot[p.size - 1]
           IN  /\ left \in Page(V) /\ SameHeader(p, left) /\ Ordered(left)
               /\ right \in Page(V) /\ SameHeader(to, right) /\ Ordered(right)
               /\ Entries(left) = Entries(p) \ {s}
               /\ Entries(right) = Entries(to) \cup {s}
               /\ Precedes(left, right)
  <1> DEFINE n == p.size - 1
             left == Cut(p, n)
             s == p.slot[n]
             right == PutAt(to, 0, s)
  <1>0. LeafMoveLastToFrontOf(p, to)[1] = left /\ LeafMoveLastToFrontOf(p, to)[2] = right
    BY DEF LeafMoveLastToFrontOf, Cut
  <1>1. p.size \in Nat /\ to.size \in Nat
    BY PageType
  <1>2. /\ n \in Nat /\ n \in Used(p) /\ n \in 0 .. p.size /\ 0 \in 0 .. to.size
        /\ Used(p) = 0 .. n /\ p.size = n + 1
    BY <1>1 DEF Used
  <1> HIDE DEF n
  <1>3. s \in Entry(V) /\ s \in Entries(p)
    BY <1>2, PageType DEF Entries
  <1>4. /\ left \in Page(V) /\ SameHeader(p, left) /\ Ordered(left)
        /\ Entries(left) = {p.slot[i] : i \in 0 .. n - 1}
    BY <1>2, CutIs
  <1>5. \A i \in 0 .. n - 1 : i \in Used(p) /\ p.slot[i].key < s.key
    <2> SUFFICES ASSUME NEW i \in 0 .. n - 1 PROVE i \in Used(p) /\ p.slot[i].key < p.slot[n].key
      OBVIOUS
    <2>1. i \in 0 .. n /\ i < n
      BY <1>2
    <2> QED  BY <1>2, <2>1 DEF Ordered
  <1>6. Entries(left) = Entries(p) \ {s}
    <2>1. ASSUME NEW i \in 0 .. n - 1 PROVE p.slot[i] # s
      <3>1. p.slot[i].key \in Int /\ p.slot[i].key < s.key
        BY <1>5, PageType
      <3> QED  BY <3>1
    <2>2. \A i : i \in Used(p) <=> i \in 0 .. n - 1 \/ i = n
      BY <1>2
    <2> QED  BY <1>4, <2>1, <2>2 DEF Entries
  <1> HIDE DEF s, left
  <1>7. right \in Page(V) /\ SameHeader(to, right)
    BY <1>2, <1>3, PutAtIs
  <1>8. Ordered(right) /\ Entries(right) = Entries(to) \cup {s}
    <2>1. \A j \in Used(to) : ~(j < 0)
      BY <1>1 DEF Used
    <2>2. \A j \in Used(to) : j >= 0 => s.key < to.slot[j].key
      BY <1>3 DEF Precedes, Entries
    <2> QED  BY <1>2, <1>3, <2>1, <2>2, PutAtKeepsOrder
  <1> HIDE DEF right
  <1>9. Precedes(left, right)
    <2>1. \A e \in Entries(left) : e.key < s.key
      BY <1>4, <1>5
    <2> QED  BY <1>6, <1>8, <2>1 DEF Precedes
  <1> QED  BY <1>0, <1>4, <1>6, <1>7, <1>8, <1>9 DEF s, n

-----------------------------------------------------------------------------
(* Internal pages. *)

\* The keys of an internal page are those from slot 1 on.
Separated(p) == \A i, j \in 1 .. p.size - 1 : i < j => p.slot[i].key < p.slot[j].key

\* The child an internal page sends key k to.
Route(p, k) == p.slot[ChildIndex(p, k)].val

\* Child c has the keys from its own up to the next.
Holds(p, c, k) == /\ c \in Used(p)
                  /\ c >= 1 => p.slot[c].key <= k
                  /\ c + 1 < p.size => k < p.slot[c + 1].key

(***************************************************************************)
(* Lookup of an internal page: the child it answers is the only one whose  *)
(* range has the key.                                                      *)
(***************************************************************************)
THEOREM ChildLookupCorrect ==
    ASSUME NEW V, NEW p \in Page(V), Separated(p), p.size > 0, NEW k \in Int
    PROVE  /\ Holds(p, ChildIndex(p, k), k)
           /\ \A c : Holds(p, c, k) => c = ChildIndex(p, k)
  <1> DEFINE below == {i \in Slots : p.slot[i].key <= k}
             b == BinarySearch(below, 1, p.size)
  <1>1. /\ p.size \in Bounds /\ 1 \in Bounds /\ 1 <= p.size /\ p.size \in Nat
        /\ \A i \in 1 .. p.size - 1 : i \in Slots /\ i \in Nat
        /\ \A i \in Slots : p.slot[i].key \in Int
    <2>1. p.size \in Nat /\ p.size <= MaxSlot + 1 /\ MaxSlot \in Nat
      BY PageType
    <2>2. p.size \in Bounds /\ 1 \in Bounds /\ 1 <= p.size
      BY <2>1 DEF Bounds
    <2>3. \A i \in 1 .. p.size - 1 : i \in Slots /\ i \in Nat
      BY <2>1 DEF Slots
    <2> QED  BY <2>1, <2>2, <2>3, PageType
  <1>2. \A i, j \in 1 .. p.size - 1 : i < j /\ j \in below => i \in below
    <2> SUFFICES ASSUME NEW i \in 1 .. p.size - 1, NEW j \in 1 .. p.size - 1, i < j, j \in below
                 PROVE  i \in below
      OBVIOUS
    <2>1. p.slot[i].key < p.slot[j].key /\ p.slot[j].key <= k
      BY DEF Separated
    <2>2. p.slot[i].key <= k
      BY <1>1, <2>1
    <2> QED  BY <1>1, <2>2
  <1>3. \A i \in 1 .. p.size - 1 : i \in below <=> p.slot[i].key <= k
    BY <1>1
  <1> HIDE DEF below
  <1>4. Splits(below, 1, p.size, b)
    BY <1>1, <1>2, BinarySearchCorrect
  <1>5. ChildIndex(p, k) = b - 1
    BY DEF ChildIndex, below
  <1> HIDE DEF b
  <1>6. b \in 1 .. p.size /\ \A i \in 1 .. p.size - 1 : p.slot[i].key <= k <=> i < b
    BY <1>3, <1>4 DEF Splits
  <1>7. Holds(p, b - 1, k)
    <2>1. b - 1 \in Used(p)
      BY <1>1, <1>6 DEF Used
    <2>2. b - 1 >= 1 => p.slot[b - 1].key <= k
      <3> SUFFICES ASSUME b - 1 >= 1 PROVE p.slot[b - 1].key <= k
        OBVIOUS
      <3>1. b - 1 \in 1 .. p.size - 1 /\ b - 1 < b
        BY <1>1, <1>6
      <3> QED  BY <1>6, <3>1
    <2>3. (b - 1) + 1 < p.size => k < p.slot[(b - 1) + 1].key
      <3> SUFFICES ASSUME (b - 1) + 1 < p.size PROVE k < p.slot[(b - 1) + 1].key
        OBVIOUS
      <3>1. (b - 1) + 1 = b /\ b \in 1 .. p.size - 1 /\ ~(b < b)
        BY <1>1, <1>6
      <3>2. ~(p.slot[b].key <= k) /\ p.slot[b].key \in Int
        BY <1>1, <1>6, <3>1
      <3>3. k < p.slot[b].key
        BY <3>2
      <3> QED  BY <3>1, <3>3
    <2> QED  BY <2>1, <2>2, <2>3 DEF Holds
  <1>8. ASSUME NEW c, Holds(p, c, k) PROVE c = b - 1
    <2>1. c \in Nat /\ c < p.size /\ b \in Nat
      BY <1>1, <1>6, <1>8 DEF Holds, Used
    <2>2. CASE c < b - 1
      <3>1. c + 1 \in 1 .. p.size - 1 /\ c + 1 < b /\ c + 1 < p.size
        BY <1>1, <1>6, <2>1, <2>2
      <3>2. p.slot[c + 1].key <= k /\ k < p.slot[c + 1].key /\ p.slot[c + 1].key \in Int
        BY <1>1, <1>6, <1>8, <3>1 DEF Holds
      <3> QED  BY <3>2
    <2>3. CASE c > b - 1
      <3>1. c \in 1 .. p.size - 1 /\ ~(c < b) /\ c >= 1
        BY <1>1, <1>6, <2>1, <2>3
      <3>2. p.slot[c].key <= k
        BY <1>8, <3>1 DEF Holds
      <3> QED  BY <1>6, <3>1, <3>2
    <2> QED  BY <2>1, <2>2, <2>3
  <1> QED  BY <1>5, <1>7, <1>8

\* So a child whose range has the key is where Lookup goes.
LEMMA RouteIs ==
    ASSUME NEW V, NEW p \in Page(V), Separated(p), NEW k \in Int, NEW c, Holds(p, c, k)
    PROVE  ChildIndex(p, k) = c /\ Route(p, k) = p.slot[c].val
  <1>1. p.size \in Nat
    BY PageType
  <1>2. p.size > 0
    BY <1>1 DEF Holds, Used
  <1>3. c = ChildIndex(p, k)
    BY <1>2, ChildLookupCorrect
  <1> QED  BY <1>3 DEF Route

\* The upper half of an internal page in a new one, which keeps its own key 0.
UpperKids(new, p, mid, n) ==
    [new EXCEPT !.size = n,
                !.slot = [Copied(new, 0, p, mid, n) EXCEPT ![0].key = new.slot[0].key]]

LowerKids(p, mid) == [p EXCEPT !.size = mid]

LEMMA UpperIs ==
    ASSUME NEW V, NEW p \in Page(V), NEW new \in Page(V), NEW mid \in Nat, NEW n \in Nat,
           mid + n = p.size, n > 0
    PROVE  LET high == UpperKids(new, p, mid, n)
           IN  /\ high \in Page(V) /\ SameHeader(new, high) /\ high.size = n
               /\ high.slot[0].val = p.slot[mid].val
               /\ \A j \in 1 .. n - 1 : high.slot[j] = p.slot[mid + j]
  <1> DEFINE c == Copied(new, 0, p, mid, n)
             new0 == new.slot[0].key
             d == [c EXCEPT ![0].key = new0]
             high == [new EXCEPT !.size = n, !.slot = d]
  <1>1. p.size \in Nat /\ MaxSlot \in Nat /\ p.size <= MaxSlot + 1
    BY PageType
  <1>2. n \in Bounds /\ 0 + n <= MaxSlot + 1 /\ mid + n <= MaxSlot + 1 /\ 0 \in Slots
    BY <1>1 DEF Bounds, Slots
  <1>3. IsCopy(V, c, new, 0, p, mid, n)
    BY <1>2, CopiedIs
  <1>4. new0 \in Int
    BY <1>2, PageType
  <1> HIDE DEF c, new0
  <1>5. c \in [Slots -> Entry(V)] /\ c[0] \in Entry(V)
    BY <1>2, <1>3 DEF IsCopy
  <1>6. [c[0] EXCEPT !.key = new0] \in Entry(V) /\ [c[0] EXCEPT !.key = new0].val = c[0].val
    BY <1>4, <1>5 DEF Entry
  <1>7. /\ d \in [Slots -> Entry(V)] /\ d[0] = [c[0] EXCEPT !.key = new0]
        /\ \A j \in Slots : j # 0 => d[j] = c[j]
    BY <1>2, <1>5, <1>6
  <1>8. \A j \in 0 .. n - 1 : j \in Slots /\ c[j] = p.slot[mid + j]
    <2> SUFFICES ASSUME NEW j \in 0 .. n - 1 PROVE j \in Slots /\ c[j] = p.slot[mid + j]
      OBVIOUS
    <2>1. j \in 0 .. 0 + n - 1 /\ j >= 0 /\ mid + j - 0 = mid + j /\ j \in Slots
      BY <1>1, <1>2 DEF Slots
    <2>2. c[j] = p.slot[mid + j - 0]
      BY <1>3, <2>1 DEF IsCopy
    <2> QED  BY <2>1, <2>2
  <1>9. d[0].val = p.slot[mid].val
    <2>1. 0 \in 0 .. n - 1 /\ mid + 0 = mid
      OBVIOUS
    <2>2. c[0] = p.slot[mid]
      BY <1>8, <2>1
    <2> QED  BY <1>6, <1>7, <2>2
  <1>10. \A j \in 1 .. n - 1 : d[j] = p.slot[mid + j]
    <2>1. \A j \in 1 .. n - 1 : j \in 0 .. n - 1 /\ j # 0
      OBVIOUS
    <2> HIDE DEF d
    <2> QED  BY <1>7, <1>8, <2>1
  <1> HIDE DEF d
  <1>11. high \in Page(V) /\ SameHeader(new, high) /\ high.size = n /\ high.slot = d
    BY <1>2, <1>7 DEF Page, SameHeader
  <1>12. UpperKids(new, p, mid, n) = high
    BY DEF UpperKids, d, c, new0
  <1> HIDE DEF high
  <1> QED  BY <1>9, <1>10, <1>11, <1>12

LEMMA LowerIs ==
    ASSUME NEW V, NEW p \in Page(V), NEW mid \in 0 .. p.size
    PROVE  LET low == LowerKids(p, mid)
           IN  low \in Page(V) /\ SameHeader(p, low) /\ low.size = mid /\ low.slot = p.slot
  <1>1. p.size \in Nat /\ MaxSlot \in Nat /\ p.size <= MaxSlot + 1
    BY PageType
  <1>2. mid \in Bounds
    BY <1>1 DEF Bounds
  <1> QED  BY <1>2 DEF LowerKids, Page, SameHeader

LEMMA KidsSplitAt ==
    ASSUME NEW V, NEW p \in Page(V), NEW new \in Page(V), Separated(p),
           NEW mid \in Nat, NEW n \in Nat, mid + n = p.size, mid > 0, n > 0
    PROVE  LET low == LowerKids(p, mid)
               high == UpperKids(new, p, mid, n)
           IN  /\ low \in Page(V) /\ SameHeader(p, low) /\ Separated(low)
               /\ high \in Page(V) /\ SameHeader(new, high) /\ Separated(high)
               /\ low.size = mid /\ high.size = n
               /\ \A k \in Int : Route(p, k) = IF k < p.slot[mid].key THEN Route(low, k)
                                               ELSE Route(high, k)
  <1> DEFINE low == LowerKids(p, mid)
             high == UpperKids(new, p, mid, n)
  <1>1. p.size \in Nat /\ p.size > 0 /\ mid \in 0 .. p.size /\ mid \in 1 .. p.size - 1
    BY PageType
  <1>2. low \in Page(V) /\ SameHeader(p, low) /\ low.size = mid /\ low.slot = p.slot
    BY <1>1, LowerIs
  <1>3. /\ high \in Page(V) /\ SameHeader(new, high) /\ high.size = n
        /\ high.slot[0].val = p.slot[mid].val
        /\ \A j \in 1 .. n - 1 : high.slot[j] = p.slot[mid + j]
    BY UpperIs
  <1> HIDE DEF low, high
  <1>4. Separated(low)
    <2>1. \A i \in 1 .. low.size - 1 : i \in 1 .. p.size - 1
      BY <1>1, <1>2
    <2> QED  BY <1>2, <2>1 DEF Separated
  <1>5. Separated(high)
    <2> SUFFICES ASSUME NEW i \in 1 .. n - 1, NEW j \in 1 .. n - 1, i < j
                 PROVE  p.slot[mid + i].key < p.slot[mid + j].key
      BY <1>3 DEF Separated
    <2>1. mid + i \in 1 .. p.size - 1 /\ mid + j \in 1 .. p.size - 1 /\ mid + i < mid + j
      BY <1>1
    <2> QED  BY <2>1 DEF Separated
  <1>6. ASSUME NEW k \in Int
        PROVE  Route(p, k) = IF k < p.slot[mid].key THEN Route(low, k) ELSE Route(high, k)
    <2> SUFFICES ASSUME NEW c, c = ChildIndex(p, k)
                 PROVE  p.slot[c].val = IF k < p.slot[mid].key THEN Route(low, k) ELSE Route(high, k)
      BY DEF Route
    <2>1. /\ c \in Used(p) /\ (c >= 1 => p.slot[c].key <= k)
          /\ c + 1 < p.size => k < p.slot[c + 1].key
      BY <1>1, ChildLookupCorrect DEF Holds
    <2>2. c \in Nat /\ c < p.size /\ \A i \in 1 .. p.size - 1 : p.slot[i].key \in Int
      BY <1>1, <2>1, PageType DEF Used
    <2>3. CASE c < mid
      <3>1. k < p.slot[mid].key
        <4>1. c + 1 \in 1 .. p.size - 1 /\ c + 1 < p.size /\ (c + 1 = mid \/ c + 1 < mid)
          BY <1>1, <2>2, <2>3
        <4>2. c + 1 < mid => p.slot[c + 1].key < p.slot[mid].key
          BY <1>1, <4>1 DEF Separated
        <4>3. k < p.slot[c + 1].key /\ p.slot[c + 1].key \in Int /\ p.slot[mid].key \in Int
          BY <1>1, <2>1, <2>2, <4>1
        <4> QED  BY <4>1, <4>2, <4>3
      <3>2. Holds(low, c, k)
        <4>1. c \in Used(low) /\ (c + 1 < low.size => c + 1 < p.size)
          BY <1>1, <1>2, <2>2, <2>3 DEF Used
        <4> QED  BY <1>2, <2>1, <4>1 DEF Holds
      <3>3. Route(low, k) = p.slot[c].val
        BY <1>2, <1>4, <3>2, RouteIs
      <3> QED  BY <3>1, <3>3
    <2>4. CASE c >= mid
      <3> DEFINE e == c - mid
      <3>1. e \in Nat /\ mid + e = c /\ e < n /\ e \in Used(high) /\ c >= 1 /\ c \in 1 .. p.size - 1
        <4>1. e \in Nat /\ mid + e = c /\ e < n /\ c >= 1 /\ c \in 1 .. p.size - 1
          BY <1>1, <2>2, <2>4
        <4> QED  BY <1>3, <4>1 DEF Used
      <3> HIDE DEF e
      <3>2. ~(k < p.slot[mid].key)
        <4>1. mid < c => p.slot[mid].key < p.slot[c].key
          BY <1>1, <3>1 DEF Separated
        <4>2. p.slot[c].key <= k /\ p.slot[c].key \in Int /\ p.slot[mid].key \in Int
          BY <1>1, <2>1, <2>2, <3>1
        <4>3. mid < c \/ mid = c
          BY <2>2, <2>4
        <4> QED  BY <4>1, <4>2, <4>3
      <3>3. high.slot[e].val = p.slot[c].val
        <4>1. e = 0 \/ e \in 1 .. n - 1
          BY <3>1
        <4>2. e = 0 => c = mid
          BY <3>1
        <4> QED  BY <1>3, <3>1, <4>1, <4>2
      <3>4. e >= 1 => high.slot[e].key <= k
        <4> SUFFICES ASSUME e >= 1 PROVE high.slot[e].key <= k
          OBVIOUS
        <4>1. e \in 1 .. n - 1
          BY <3>1
        <4> QED  BY <1>3, <2>1, <3>1, <4>1
      <3>5. e + 1 < high.size => k < high.slot[e + 1].key
        <4> SUFFICES ASSUME e + 1 < n PROVE k < high.slot[e + 1].key
          BY <1>3
        <4>1. e + 1 \in 1 .. n - 1 /\ mid + (e + 1) = c + 1 /\ c + 1 < p.size
          BY <3>1, <2>2
        <4> QED  BY <1>3, <2>1, <4>1
      <3>6. Holds(high, e, k)
        BY <3>1, <3>4, <3>5 DEF Holds
      <3>7. Route(high, k) = high.slot[e].val
        BY <1>3, <1>5, <3>6, RouteIs
      <3> QED  BY <3>2, <3>3, <3>7
    <2> QED  BY <2>2, <2>3, <2>4
  <1> QED  BY <1>2, <1>3, <1>4, <1>5, <1>6 DEF low, high

(***************************************************************************)
(* MoveHalfTo of an internal page: with the middle key as the separator    *)
(* that goes up, every key is still sent to the child it was sent to.      *)
(***************************************************************************)
THEOREM InternalSplitCorrect ==
    ASSUME NEW V, NEW p \in Page(V), NEW new \in Page(V), Separated(p), p.size >= 2
    PROVE  LET low == InternalMoveHalfTo(p, new)[1]
               high == InternalMoveHalfTo(p, new)[2]
               middle == p.slot[p.size \div 2].key
           IN  /\ low \in Page(V) /\ SameHeader(p, low) /\ Separated(low)
               /\ high \in Page(V) /\ SameHeader(new, high) /\ Separated(high)
               /\ low.size + high.size = p.size /\ low.size > 0 /\ high.size > 0
               /\ \A k \in Int : Route(p, k) = IF k < middle THEN Route(low, k) ELSE Route(high, k)
  <1> DEFINE mid == p.size \div 2
             n == p.size - mid
             low == LowerKids(p, mid)
             high == UpperKids(new, p, mid, n)
  <1>1. InternalMoveHalfTo(p, new)[1] = low /\ InternalMoveHalfTo(p, new)[2] = high
    BY DEF InternalMoveHalfTo, LowerKids, UpperKids
  <1>2. p.size \in Nat /\ mid \in Nat /\ n \in Nat
    BY PageType, HalfIs
  <1>3. mid > 0 /\ mid < p.size
    <2>1. \A i \in Nat : i >= 2 => i \div 2 > 0 /\ i \div 2 < i
      BY Z3
    <2> QED  BY <1>2, <2>1
  <1>4. mid + n = p.size /\ n > 0
    <2> HIDE DEF mid
    <2> QED  BY <1>2, <1>3
  <1> HIDE DEF mid, n
  <1>5. /\ low \in Page(V) /\ SameHeader(p, low) /\ Separated(low)
        /\ high \in Page(V) /\ SameHeader(new, high) /\ Separated(high)
        /\ low.size = mid /\ high.size = n
        /\ \A k \in Int : Route(p, k) = IF k < p.slot[mid].key THEN Route(low, k)
                                        ELSE Route(high, k)
    BY <1>2, <1>3, <1>4, KidsSplitAt, SMTT(30)
  <1> HIDE DEF low, high
  <1>6. p.slot[mid].key = p.slot[p.size \div 2].key
    BY DEF mid
  <1>7. low.size + high.size = p.size /\ low.size > 0 /\ high.size > 0
    BY <1>2, <1>3, <1>4, <1>5
  <1> QED  BY <1>1, <1>5, <1>6, <1>7

\* The recipient of a merge.
Joined(to, p, middle) ==
    [to EXCEPT !.size = to.size + p.size,
               !.slot = [Copied(to, to.size, p, 0, p.size)
                            EXCEPT ![to.size] = Slot(middle, p.slot[0].val)]]

LEMMA JoinedIs ==
    ASSUME NEW V, NEW p \in Page(V), NEW to \in Page(V), NEW middle \in Int,
           p.size > 0, to.size + p.size <= MaxSlot + 1
    PROVE  LET q == Joined(to, p, middle)
           IN  /\ q \in Page(V) /\ SameHeader(to, q) /\ q.size = to.size + p.size
               /\ \A j \in 0 .. to.size - 1 : q.slot[j] = to.slot[j]
               /\ q.slot[to.size].key = middle /\ q.slot[to.size].val = p.slot[0].val
               /\ \A j \in 1 .. p.size - 1 : q.slot[to.size + j] = p.slot[j]
  <1> DEFINE c == Copied(to, to.size, p, 0, p.size)
             s == Slot(middle, p.slot[0].val)
             d == [c EXCEPT ![to.size] = s]
             q == [to EXCEPT !.size = to.size + p.size, !.slot = d]
  <1>1. /\ p.size \in Nat /\ to.size \in Nat /\ MaxSlot \in Nat /\ p.size <= MaxSlot + 1
        /\ to.size + p.size \in Bounds /\ 0 + p.size <= MaxSlot + 1
        /\ to.size \in Slots /\ 0 \in Slots
    <2>1. p.size \in Nat /\ to.size \in Nat /\ MaxSlot \in Nat /\ p.size <= MaxSlot + 1
      BY PageType
    <2> QED  BY <2>1 DEF Bounds, Slots
  <1>2. IsCopy(V, c, to, to.size, p, 0, p.size)
    BY <1>1, CopiedIs
  <1>3. s \in Entry(V) /\ s.key = middle /\ s.val = p.slot[0].val
    <2>1. p.slot[0] \in Entry(V)
      BY <1>1, PageType
    <2> QED  BY <2>1 DEF Slot, Entry
  <1> HIDE DEF c, s
  <1>4. /\ d \in [Slots -> Entry(V)] /\ d[to.size] = s
        /\ \A j \in Slots : j # to.size => d[j] = c[j]
    BY <1>1, <1>2, <1>3 DEF IsCopy
  <1>5. \A j \in 0 .. to.size - 1 : d[j] = to.slot[j]
    <2> SUFFICES ASSUME NEW j \in 0 .. to.size - 1 PROVE d[j] = to.slot[j]
      OBVIOUS
    <2>1. j \in 0 .. to.size + p.size - 1 /\ j < to.size /\ j # to.size /\ j \in Slots
      BY <1>1 DEF Slots
    <2>2. c[j] = to.slot[j]
      BY <1>2, <2>1 DEF IsCopy
    <2> HIDE DEF d
    <2> QED  BY <1>4, <2>1, <2>2
  <1>6. \A j \in 1 .. p.size - 1 : d[to.size + j] = p.slot[j]
    <2> SUFFICES ASSUME NEW j \in 1 .. p.size - 1 PROVE d[to.size + j] = p.slot[j]
      OBVIOUS
    <2> DEFINE i == to.size + j
    <2>1. /\ i \in 0 .. to.size + p.size - 1 /\ i >= to.size /\ i # to.size /\ i \in Slots
          /\ 0 + i - to.size = j
      BY <1>1 DEF Slots
    <2> HIDE DEF d, i
    <2>2. c[i] = p.slot[0 + i - to.size]
      BY <1>2, <2>1 DEF IsCopy
    <2>3. d[i] = p.slot[j]
      BY <1>4, <2>1, <2>2
    <2> QED  BY <2>3 DEF i
  <1> HIDE DEF d
  <1>7. q \in Page(V) /\ SameHeader(to, q) /\ q.size = to.size + p.size /\ q.slot = d
    BY <1>1, <1>4 DEF Page, SameHeader
  <1>8. Joined(to, p, middle) = q
    BY DEF Joined, d, c, s
  <1> HIDE DEF q
  <1> QED  BY <1>3, <1>4, <1>5, <1>6, <1>7, <1>8

(***************************************************************************)
(* MoveAllTo of an internal page, into its left neighbour around the key   *)
(* that separated the two: keys below it are sent where the recipient sent *)
(* them, the others where the giver did.                                   *)
(***************************************************************************)
THEOREM InternalMergeCorrect ==
    ASSUME NEW V, NEW p \in Page(V), NEW to \in Page(V), NEW middle \in Int,
           Separated(p), Separated(to), p.size > 0, to.size > 0,
           to.size + p.size <= MaxSlot + 1,
           \A i \in 1 .. to.size - 1 : to.slot[i].key < middle,
           \A i \in 1 .. p.size - 1 : middle < p.slot[i].key
    PROVE  LET q == InternalMoveAllTo(p, to, middle)[2]
           IN  /\ q \in Page(V) /\ SameHeader(to, q) /\ Separated(q)
               /\ q.size = to.size + p.size
               /\ \A k \in Int : Route(q, k) = IF k < middle THEN Route(to, k) ELSE Route(p, k)
  <1> DEFINE q == Joined(to, p, middle)
  <1>0. InternalMoveAllTo(p, to, middle)[2] = q
    BY DEF InternalMoveAllTo, Joined
  <1>1. /\ q \in Page(V) /\ SameHeader(to, q) /\ q.size = to.size + p.size
        /\ \A j \in 0 .. to.size - 1 : q.slot[j] = to.slot[j]
        /\ q.slot[to.size].key = middle /\ q.slot[to.size].val = p.slot[0].val
        /\ \A j \in 1 .. p.size - 1 : q.slot[to.size + j] = p.slot[j]
    BY JoinedIs
  <1>2. p.size \in Nat /\ to.size \in Nat
    BY PageType
  <1> HIDE DEF q
  \* the slots of q by index
  <1>3. ASSUME NEW j \in Nat
        PROVE  /\ j < to.size => j \in 0 .. to.size - 1
               /\ j > to.size /\ j < q.size =>
                     /\ j - to.size \in 1 .. p.size - 1
                     /\ q.slot[j] = p.slot[j - to.size]
    <2>1. j < to.size => j \in 0 .. to.size - 1
      BY <1>2
    <2>2. ASSUME j > to.size, j < q.size
          PROVE  j - to.size \in 1 .. p.size - 1 /\ q.slot[j] = p.slot[j - to.size]
      <3>1. q.size = to.size + p.size
        BY <1>1
      <3>2. j - to.size \in 1 .. p.size - 1 /\ to.size + (j - to.size) = j
        BY <1>2, <2>2, <3>1
      <3> QED  BY <1>1, <3>2
    <2> QED  BY <2>1, <2>2
  <1>4. Separated(q)
    <2> SUFFICES ASSUME NEW i \in 1 .. q.size - 1, NEW j \in 1 .. q.size - 1, i < j
                 PROVE  q.slot[i].key < q.slot[j].key
      BY DEF Separated
    <2>0. q.size = to.size + p.size
      BY <1>1
    <2>1. i \in Nat /\ j \in Nat /\ i >= 1 /\ j >= 1 /\ i < q.size /\ j < q.size
      BY <1>2, <2>0
    <2>2. CASE j < to.size
      <3>1. i \in 1 .. to.size - 1 /\ j \in 1 .. to.size - 1 /\ i < to.size
        BY <1>2, <2>1, <2>2
      <3>2. q.slot[i] = to.slot[i] /\ q.slot[j] = to.slot[j]
        BY <1>1, <1>3, <2>1, <2>2, <3>1
      <3> QED  BY <3>1, <3>2 DEF Separated
    <2>3. CASE j = to.size
      <3>1. i \in 1 .. to.size - 1 /\ i < to.size
        BY <1>2, <2>1, <2>3
      <3>2. q.slot[i] = to.slot[i] /\ q.slot[j].key = middle
        BY <1>1, <1>3, <2>1, <2>3, <3>1
      <3> QED  BY <3>1, <3>2
    <2>4. CASE j > to.size
      <3>1. j - to.size \in 1 .. p.size - 1 /\ q.slot[j] = p.slot[j - to.size]
        BY <1>3, <2>1, <2>4
      <3>2. middle < p.slot[j - to.size].key /\ p.slot[j - to.size].key \in Int
        <4>1. j - to.size \in Used(p)
          BY <1>2, <3>1 DEF Used
        <4> QED  BY <3>1, <4>1, PageType
      <3>3. CASE i < to.size
        <4>1. i \in 1 .. to.size - 1 /\ i \in Used(to)
          BY <1>2, <2>1, <3>3 DEF Used
        <4>2. q.slot[i] = to.slot[i] /\ to.slot[i].key < middle /\ to.slot[i].key \in Int
          BY <1>1, <1>3, <2>1, <3>3, <4>1, PageType
        <4> QED  BY <3>1, <3>2, <4>2
      <3>4. CASE i = to.size
        BY <1>1, <3>1, <3>2, <3>4
      <3>5. CASE i > to.size
        <4>1. i - to.size \in 1 .. p.size - 1 /\ q.slot[i] = p.slot[i - to.size]
          BY <1>3, <2>1, <3>5
        <4>2. i - to.size < j - to.size
          BY <1>2, <2>1
        <4> QED  BY <3>1, <4>1, <4>2 DEF Separated
      <3> QED  BY <1>2, <2>1, <3>3, <3>4, <3>5
    <2> QED  BY <1>2, <2>1, <2>2, <2>3, <2>4
  <1>5. ASSUME NEW k \in Int, k < middle PROVE Route(q, k) = Route(to, k)
    <2> SUFFICES ASSUME NEW c, c = ChildIndex(to, k) PROVE Route(q, k) = to.slot[c].val
      BY DEF Route
    <2>1. /\ c \in Used(to) /\ (c >= 1 => to.slot[c].key <= k)
          /\ c + 1 < to.size => k < to.slot[c + 1].key
      BY ChildLookupCorrect DEF Holds
    <2>2. c \in Nat /\ c < to.size /\ c \in 0 .. to.size - 1 /\ c + 1 \in Nat
      BY <1>2, <2>1 DEF Used
    <2>3. q.slot[c] = to.slot[c]
      BY <1>1, <2>2
    <2>4. k < q.slot[c + 1].key
      <3>1. CASE c + 1 < to.size
        <4>1. q.slot[c + 1] = to.slot[c + 1]
          BY <1>1, <1>3, <2>2, <3>1
        <4> QED  BY <2>1, <3>1, <4>1
      <3>2. CASE c + 1 = to.size
        BY <1>1, <1>5, <3>2
      <3> QED  BY <1>2, <2>2, <3>1, <3>2
    <2>5. c \in Used(q)
      <3>1. q.size = to.size + p.size
        BY <1>1
      <3> QED  BY <1>2, <2>2, <3>1 DEF Used
    <2>6. Holds(q, c, k)
      BY <2>1, <2>3, <2>4, <2>5 DEF Holds
    <2> QED  BY <1>1, <1>4, <2>3, <2>6, RouteIs
  <1>6. ASSUME NEW k \in Int, ~(k < middle) PROVE Route(q, k) = Route(p, k)
    <2> SUFFICES ASSUME NEW c, c = ChildIndex(p, k) PROVE Route(q, k) = p.slot[c].val
      BY DEF Route
    <2>1. /\ c \in Used(p) /\ (c >= 1 => p.slot[c].key <= k)
          /\ c + 1 < p.size => k < p.slot[c + 1].key
      BY ChildLookupCorrect DEF Holds
    <2>2. c \in Nat /\ c < p.size
      BY <1>2, <2>1 DEF Used
    <2> DEFINE e == to.size + c
    <2>3. /\ e \in Nat /\ e < to.size + p.size /\ e - to.size = c
          /\ (c >= 1 => e > to.size) /\ (c = 0 => e = to.size) /\ e \in 0 .. to.size + p.size - 1
          /\ e + 1 \in Nat /\ e + 1 > to.size /\ (e + 1) - to.size = c + 1
          /\ e + 1 < to.size + p.size => c + 1 < p.size
      BY <1>2, <2>2
    <2> HIDE DEF e
    <2>4. q.size = to.size + p.size
      BY <1>1
    <2>5. q.slot[e].val = p.slot[c].val /\ q.slot[e].key <= k
      <3>1. CASE c = 0
        <4>1. middle <= k
          BY <1>6
        <4> QED  BY <1>1, <2>3, <3>1, <4>1
      <3>2. CASE c >= 1
        <4>1. q.slot[e] = p.slot[c]
          BY <1>3, <2>3, <2>4, <3>2
        <4> QED  BY <2>1, <3>2, <4>1
      <3> QED  BY <2>2, <3>1, <3>2
    <2>6. e + 1 < q.size => k < q.slot[e + 1].key
      <3> SUFFICES ASSUME e + 1 < q.size PROVE k < q.slot[e + 1].key
        OBVIOUS
      <3>1. q.slot[e + 1] = p.slot[c + 1]
        BY <1>3, <2>3
      <3> QED  BY <2>1, <2>3, <2>4, <3>1
    <2>7. e \in Used(q)
      <3>1. e \in 0 .. q.size - 1
        BY <1>2, <2>3, <2>4
      <3> QED  BY <3>1 DEF Used
    <2>8. Holds(q, e, k)
      BY <2>5, <2>6, <2>7 DEF Holds
    <2> QED  BY <1>1, <1>4, <2>5, <2>8, RouteIs
  <1> QED  BY <1>0, <1>1, <1>4, <1>5, <1>6

\* ValueIndex is the first slot with the value.
LEMMA ValueIndexIs ==
    ASSUME NEW V, NEW p \in Page(V), NEW v, \E i \in Used(p) : p.slot[i].val = v
    PROVE  ValueIndex(p, v) \in Used(p) /\ p.slot[ValueIndex(p, v)].val = v
  <1> DEFINE at == {i \in Used(p) : p.slot[i].val = v}
             R == {ss \in Nat \X Nat : ss[1] < ss[2]}
  <1>1. at \subseteq Nat /\ at # {}
    BY PageType
  <1>2. IsWellFoundedOn(R, Nat)
    BY NatLessThanWellFounded DEF OpToRel
  <1>3. PICK x \in at : \A y \in at : ~ (<<y, x>> \in R)
    BY <1>1, <1>2, WFMin
  <1>4. ASSUME NEW y \in at PROVE x <= y
    <2>1. x \in Nat /\ y \in Nat /\ ~ (<<y, x>> \in R)
      BY <1>1, <1>3
    <2>2. ~(y < x)
      BY <2>1
    <2> QED  BY <2>1, <2>2
  <1>5. ValueIndex(p, v) = IF at = {} THEN -1 ELSE CHOOSE i \in at : \A j \in at : i <= j
    BY DEF ValueIndex, Used
  <1>6. ValueIndex(p, v) \in at
    <2> HIDE DEF at
    <2> QED  BY <1>1, <1>4, <1>5
  <1> QED  BY <1>6

(***************************************************************************)
(* InsertNodeAfter: when a child is split around key k, the keys from k on *)
(* that the page sent to it are sent to the new child, and all others      *)
(* where they were sent before.                                            *)
(***************************************************************************)
THEOREM InsertNodeAfterCorrect ==
    ASSUME NEW V, NEW p \in Page(V), Separated(p), p.size <= MaxSlot,
           NEW old, NEW new \in V, NEW k \in Int,
           \E i \in Used(p) : p.slot[i].val = old,
           Holds(p, ValueIndex(p, old), k),
           ValueIndex(p, old) >= 1 => p.slot[ValueIndex(p, old)].key # k
    PROVE  LET q == InsertNodeAfter(p, old, k, new)
           IN  /\ q \in Page(V) /\ SameHeader(p, q) /\ Separated(q) /\ q.size = p.size + 1
               /\ \A x \in Int : Route(q, x) =
                     IF ChildIndex(p, x) = ValueIndex(p, old) /\ x >= k THEN new ELSE Route(p, x)
  <1> DEFINE i == ValueIndex(p, old)
             s == Slot(k, new)
             q == PutAt(p, i + 1, s)
  <1>1. p.size \in Nat /\ i \in Used(p)
    BY PageType, ValueIndexIs
  <1>2. i \in Nat /\ i < p.size /\ i + 1 \in 0 .. p.size /\ i # -1 /\ p.size > 0
    BY <1>1 DEF Used
  <1>3. InsertNodeAfter(p, old, k, new) = q
    BY <1>2 DEF InsertNodeAfter
  <1>4. s \in Entry(V) /\ s.key = k /\ s.val = new
    BY DEF Slot, Entry
  <1>5. /\ i + 1 < p.size => k < p.slot[i + 1].key
        /\ i >= 1 => p.slot[i].key < k
    <2>1. i >= 1 => p.slot[i].key <= k /\ p.slot[i].key # k
      BY DEF Holds
    <2>2. p.slot[i].key \in Int
      BY <1>1, PageType
    <2> HIDE DEF i
    <2>3. i >= 1 => p.slot[i].key < k
      BY <2>1, <2>2
    <2> QED  BY <2>3 DEF Holds, i
  <1> HIDE DEF i, s
  <1>6. /\ q \in Page(V) /\ SameHeader(p, q) /\ q.size = p.size + 1
        /\ \A j \in 0 .. p.size : q.slot[j] =
              IF j < i + 1 THEN p.slot[j] ELSE IF j = i + 1 THEN s ELSE p.slot[j - 1]
    BY <1>2, <1>4, PutAtIs
  <1> HIDE DEF q
  <1>7. ASSUME NEW j \in 0 .. p.size
        PROVE  /\ j \in Nat /\ j <= p.size
               /\ j <= i => q.slot[j] = p.slot[j]
               /\ j = i + 1 => q.slot[j] = s
               /\ j > i + 1 => q.slot[j] = p.slot[j - 1]
    <2>1. j \in Nat /\ j <= p.size
      BY <1>1
    <2>2. (j <= i => j < i + 1) /\ (j = i + 1 => ~(j < i + 1)) /\ (j > i + 1 => ~(j < i + 1) /\ j # i + 1)
      BY <1>2, <2>1
    <2> QED  BY <1>6, <2>1, <2>2
  <1>8. \A j \in 1 .. p.size - 1 : p.slot[j].key \in Int
    <2>1. \A j \in 1 .. p.size - 1 : j \in Used(p) /\ j \in Slots
      BY <1>1, PageType DEF Used
    <2> QED  BY <2>1, PageType
  \* the keys on either side of the new one
  <1>9. ASSUME NEW j \in 1 .. p.size - 1
        PROVE  (j <= i => p.slot[j].key < k) /\ (j > i => k < p.slot[j].key)
    <2>0. j \in Nat /\ j >= 1
      BY <1>1
    <2>1. ASSUME j <= i PROVE p.slot[j].key < k
      <3>1. i \in 1 .. p.size - 1 /\ i >= 1 /\ (j < i \/ j = i)
        BY <1>1, <1>2, <2>0, <2>1
      <3>2. p.slot[i].key < k /\ (j < i => p.slot[j].key < p.slot[i].key)
        BY <1>5, <3>1 DEF Separated
      <3> QED  BY <1>8, <3>1, <3>2
    <2>2. ASSUME j > i PROVE k < p.slot[j].key
      <3>1. i + 1 \in 1 .. p.size - 1 /\ i + 1 < p.size /\ (i + 1 < j \/ j = i + 1)
        BY <1>1, <1>2, <2>0, <2>2
      <3>2. k < p.slot[i + 1].key /\ (i + 1 < j => p.slot[i + 1].key < p.slot[j].key)
        BY <1>5, <3>1 DEF Separated
      <3> QED  BY <1>8, <3>1, <3>2
    <2> QED  BY <2>1, <2>2
  <1>10. Separated(q)
    <2> SUFFICES ASSUME NEW a \in 1 .. p.size, NEW b \in 1 .. p.size, a < b
                 PROVE  q.slot[a].key < q.slot[b].key
      <3>1. q.size - 1 = p.size
        BY <1>1, <1>6
      <3> QED  BY <3>1 DEF Separated
    <2>1. a \in 0 .. p.size /\ b \in 0 .. p.size /\ a \in Nat /\ b \in Nat /\ a >= 1 /\ b >= 1
      BY <1>1
    <2>2. CASE b <= i
      <3>1. a <= i /\ a \in 1 .. p.size - 1 /\ b \in 1 .. p.size - 1
        BY <1>1, <1>2, <2>1, <2>2
      <3> QED  BY <1>7, <2>1, <2>2, <3>1 DEF Separated
    <2>3. CASE b = i + 1
      <3>1. a <= i /\ a \in 1 .. p.size - 1
        BY <1>1, <1>2, <2>1, <2>3
      <3>2. q.slot[a] = p.slot[a] /\ q.slot[b] = s
        BY <1>7, <2>1, <2>3, <3>1
      <3> QED  BY <1>4, <1>9, <3>1, <3>2
    <2>4. CASE b > i + 1
      <3>1. b - 1 \in 1 .. p.size - 1 /\ b - 1 > i
        BY <1>1, <1>2, <2>1, <2>4
      <3>2. q.slot[b] = p.slot[b - 1] /\ k < p.slot[b - 1].key
        BY <1>7, <1>9, <2>1, <2>4, <3>1
      <3>3. CASE a <= i
        <4>1. a \in 1 .. p.size - 1 /\ a < b - 1
          BY <1>1, <1>2, <2>1, <3>1, <3>3
        <4>2. p.slot[a].key < p.slot[b - 1].key
          BY <3>1, <4>1 DEF Separated
        <4> QED  BY <1>7, <2>1, <3>2, <3>3, <4>2
      <3>4. CASE a = i + 1
        <4>1. q.slot[a] = s
          BY <1>7, <2>1, <3>4
        <4> QED  BY <1>4, <3>2, <4>1
      <3>5. CASE a > i + 1
        <4>1. a - 1 \in 1 .. p.size - 1 /\ a - 1 < b - 1
          BY <1>1, <1>2, <2>1, <3>5
        <4>2. q.slot[a] = p.slot[a - 1] /\ p.slot[a - 1].key < p.slot[b - 1].key
          BY <1>7, <2>1, <3>1, <3>5, <4>1 DEF Separated
        <4> QED  BY <3>2, <4>2
      <3> QED  BY <1>2, <2>1, <3>3, <3>4, <3>5
    <2> QED  BY <1>2, <2>1, <2>2, <2>3, <2>4
  <1>11. ASSUME NEW x \in Int
         PROVE  Route(q, x) = IF ChildIndex(p, x) = i /\ x >= k THEN new ELSE Route(p, x)
    <2> SUFFICES ASSUME NEW c, c = ChildIndex(p, x)
                 PROVE  Route(q, x) = IF c = i /\ x >= k THEN new ELSE p.slot[c].val
      BY DEF Route
    <2>1. /\ c \in Used(p) /\ (c >= 1 => p.slot[c].key <= x)
          /\ c + 1 < p.size => x < p.slot[c + 1].key
      BY <1>2, ChildLookupCorrect DEF Holds
    <2>2. /\ c \in Nat /\ c < p.size /\ c \in 0 .. p.size /\ c + 1 \in 0 .. p.size
          /\ (c >= 1 => c \in 1 .. p.size - 1)
      BY <1>1, <2>1 DEF Used
    <2>3. ASSUME NEW e \in 0 .. p.size, e >= 1 => q.slot[e].key <= x,
                 e + 1 <= p.size => x < q.slot[e + 1].key
          PROVE  Route(q, x) = q.slot[e].val
      <3>1. q.size = p.size + 1
        BY <1>6
      <3>2. e \in 0 .. q.size - 1 /\ (e + 1 < q.size => e + 1 <= p.size)
        BY <1>1, <3>1
      <3>3. Holds(q, e, x)
        BY <2>3, <3>2 DEF Holds, Used
      <3> QED  BY <1>6, <1>10, <3>3, RouteIs
    <2>4. CASE c < i
      <3>1. q.slot[c] = p.slot[c] /\ q.slot[c + 1] = p.slot[c + 1] /\ c + 1 < p.size
        <4>1. c <= i /\ c + 1 <= i /\ c + 1 < p.size
          <5>1. c \in Nat /\ i \in Nat /\ i < p.size /\ p.size \in Nat
            BY <1>1, <1>2, <2>2
          <5> QED  BY <2>4, <5>1
        <4> QED  BY <1>7, <2>2, <4>1
      <3>2. Route(q, x) = q.slot[c].val
        BY <2>1, <2>2, <2>3, <3>1
      <3>3. c # i
        BY <1>2, <2>2, <2>4
      <3> QED  BY <3>1, <3>2, <3>3
    <2>5. CASE c = i /\ x < k
      <3>1. q.slot[c] = p.slot[c] /\ q.slot[c + 1] = s
        <4>1. c <= i /\ c + 1 = i + 1
          BY <1>2, <2>5
        <4> QED  BY <1>7, <2>2, <4>1
      <3>2. Route(q, x) = q.slot[c].val
        BY <1>4, <2>1, <2>2, <2>3, <2>5, <3>1
      <3>3. ~(x >= k)
        BY <2>5
      <3> QED  BY <3>1, <3>2, <3>3
    <2>6. CASE c = i /\ x >= k
      <3>1. q.slot[c + 1] = s /\ k <= x
        <4>1. c + 1 = i + 1 /\ k <= x
          BY <1>2, <2>6
        <4> QED  BY <1>7, <2>2, <4>1
      <3>2. (c + 1) + 1 <= p.size => x < q.slot[(c + 1) + 1].key
        <4> SUFFICES ASSUME (c + 1) + 1 <= p.size PROVE x < q.slot[(c + 1) + 1].key
          OBVIOUS
        <4>1. /\ (c + 1) + 1 \in 0 .. p.size /\ (c + 1) + 1 > i + 1
              /\ ((c + 1) + 1) - 1 = c + 1 /\ c + 1 < p.size
          BY <1>1, <1>2, <2>2, <2>6
        <4> QED  BY <1>7, <2>1, <4>1
      <3>3. Route(q, x) = q.slot[c + 1].val
        BY <1>4, <2>2, <2>3, <3>1, <3>2
      <3> QED  BY <1>4, <2>6, <3>1, <3>3
    <2>7. CASE c > i
      <3>1. q.slot[c + 1] = p.slot[c] /\ c >= 1
        <4>1. c + 1 > i + 1 /\ (c + 1) - 1 = c /\ c >= 1
          BY <1>2, <2>2, <2>7
        <4> QED  BY <1>7, <2>2, <4>1
      <3>2. (c + 1) + 1 <= p.size => x < q.slot[(c + 1) + 1].key
        <4> SUFFICES ASSUME (c + 1) + 1 <= p.size PROVE x < q.slot[(c + 1) + 1].key
          OBVIOUS
        <4>1. /\ (c + 1) + 1 \in 0 .. p.size /\ (c + 1) + 1 > i + 1
              /\ ((c + 1) + 1) - 1 = c + 1 /\ c + 1 < p.size
          BY <1>1, <1>2, <2>2, <2>7
        <4> QED  BY <1>7, <2>1, <4>1
      <3>3. Route(q, x) = q.slot[c + 1].val
        BY <2>1, <2>2, <2>3, <3>1, <3>2
      <3>4. c # i
        BY <1>2, <2>2, <2>7
      <3> QED  BY <3>1, <3>3, <3>4
    <2>8. (c < i \/ c = i \/ c > i) /\ (x < k \/ x >= k)
      BY <1>2, <2>2
    <2> QED  BY <2>4, <2>5, <2>6, <2>7, <2>8
  <1> QED  BY <1>3, <1>6, <1>10, <1>11 DEF i

(***************************************************************************)
(* Remove of an internal page, after the child at index i was merged into  *)
(* its left neighbour: the keys of the child are sent to the neighbour,    *)
(* and all others where they were sent before.                             *)
(***************************************************************************)
THEOREM InternalRemoveCorrect ==
    ASSUME NEW V, NEW p \in Page(V), Separated(p), NEW i \in 1 .. p.size - 1
    PROVE  LET q == DropAt(p, i)
           IN  /\ q \in Page(V) /\ SameHeader(p, q) /\ Separated(q) /\ q.size = p.size - 1
               /\ \A x \in Int : Route(q, x) =
                     IF ChildIndex(p, x) = i THEN p.slot[i - 1].val ELSE Route(p, x)
  <1> DEFINE q == DropAt(p, i)
  <1>1. p.size \in Nat /\ i \in Nat /\ i >= 1 /\ i < p.size /\ i \in Used(p) /\ p.size > 0
    <2>1. p.size \in Nat
      BY PageType
    <2> QED  BY <2>1 DEF Used
  <1>2. /\ q \in Page(V) /\ SameHeader(p, q) /\ q.size = p.size - 1
        /\ \A j \in Used(q) : q.slot[j] = IF j < i THEN p.slot[j] ELSE p.slot[j + 1]
    BY <1>1, DropAtIs
  <1> HIDE DEF q
  <1>3. ASSUME NEW j \in Nat, j < p.size - 1
        PROVE  /\ j \in Used(q)
               /\ j < i => q.slot[j] = p.slot[j]
               /\ j >= i => q.slot[j] = p.slot[j + 1]
    <2>1. q.size = p.size - 1
      BY <1>2
    <2>2. j \in 0 .. q.size - 1
      BY <1>1, <1>3, <2>1
    <2>3. j \in Used(q)
      BY <2>2 DEF Used
    <2>4. j >= i => ~(j < i)
      BY <1>1
    <2> QED  BY <1>2, <2>3, <2>4
  <1>4. Separated(q)
    <2> SUFFICES ASSUME NEW a \in 1 .. q.size - 1, NEW b \in 1 .. q.size - 1, a < b
                 PROVE  q.slot[a].key < q.slot[b].key
      BY DEF Separated
    <2>0. q.size = p.size - 1
      BY <1>2
    <2>1. a \in Nat /\ b \in Nat /\ a >= 1 /\ b >= 1 /\ a < p.size - 1 /\ b < p.size - 1
      BY <1>1, <2>0
    <2>2. /\ a \in 1 .. p.size - 1 /\ b \in 1 .. p.size - 1
          /\ a + 1 \in 1 .. p.size - 1 /\ b + 1 \in 1 .. p.size - 1
          /\ a < b + 1 /\ a + 1 < b + 1
      BY <1>1, <2>1
    <2>3. /\ p.slot[a].key < p.slot[b].key /\ p.slot[a].key < p.slot[b + 1].key
          /\ p.slot[a + 1].key < p.slot[b + 1].key
      BY <2>2 DEF Separated
    <2>4. (a < i \/ a >= i) /\ (b < i \/ b >= i) /\ (b < i => a < i)
      BY <1>1, <2>1
    <2> QED  BY <1>3, <2>1, <2>3, <2>4
  <1>5. ASSUME NEW x \in Int
        PROVE  Route(q, x) = IF ChildIndex(p, x) = i THEN p.slot[i - 1].val ELSE Route(p, x)
    <2> SUFFICES ASSUME NEW c, c = ChildIndex(p, x)
                 PROVE  Route(q, x) = IF c = i THEN p.slot[i - 1].val ELSE p.slot[c].val
      BY DEF Route
    <2>1. /\ c \in Used(p) /\ (c >= 1 => p.slot[c].key <= x)
          /\ c + 1 < p.size => x < p.slot[c + 1].key
      BY <1>1, ChildLookupCorrect DEF Holds
    <2>2. c \in Nat /\ c < p.size /\ \A j \in 1 .. p.size - 1 : p.slot[j].key \in Int
      BY <1>1, <2>1, PageType DEF Used
    <2>3. ASSUME NEW e \in Nat, e < p.size - 1, e >= 1 => q.slot[e].key <= x,
                 e + 1 < p.size - 1 => x < q.slot[e + 1].key
          PROVE  Route(q, x) = q.slot[e].val
      <3>1. e \in Used(q) /\ q.size = p.size - 1
        BY <1>2, <1>3, <2>3
      <3>2. Holds(q, e, x)
        BY <2>3, <3>1 DEF Holds
      <3> QED  BY <1>2, <1>4, <3>2, RouteIs
    <2>4. CASE c < i /\ c + 1 < i
      <3>1. c + 1 \in Nat /\ c < p.size - 1 /\ c + 1 < p.size - 1 /\ c + 1 < p.size /\ c # i
        BY <1>1, <2>2, <2>4
      <3>2. q.slot[c] = p.slot[c] /\ q.slot[c + 1] = p.slot[c + 1]
        BY <1>3, <2>2, <2>4, <3>1
      <3>3. Route(q, x) = q.slot[c].val
        BY <2>1, <2>2, <2>3, <3>1, <3>2
      <3> QED  BY <3>1, <3>2, <3>3
    <2>5. CASE c + 1 = i
      <3>1. /\ c + 1 \in Nat /\ c < p.size - 1 /\ c # i /\ c < i /\ c + 1 >= i /\ c + 1 < p.size
            /\ c + 1 < p.size - 1 => (c + 1) + 1 \in 1 .. p.size - 1 /\ c + 1 < (c + 1) + 1
            /\ c + 1 \in 1 .. p.size - 1
        BY <1>1, <2>2, <2>5
      <3>2. q.slot[c] = p.slot[c]
        BY <1>3, <2>2, <3>1
      <3>3. c + 1 < p.size - 1 => x < q.slot[c + 1].key
        <4> SUFFICES ASSUME c + 1 < p.size - 1 PROVE x < q.slot[c + 1].key
          OBVIOUS
        <4>1. q.slot[c + 1] = p.slot[(c + 1) + 1]
          BY <1>3, <3>1
        <4>2. p.slot[c + 1].key < p.slot[(c + 1) + 1].key /\ x < p.slot[c + 1].key
          BY <2>1, <3>1 DEF Separated
        <4>3. p.slot[c + 1].key \in Int /\ p.slot[(c + 1) + 1].key \in Int
          BY <2>2, <3>1
        <4> QED  BY <4>1, <4>2, <4>3
      <3>4. Route(q, x) = q.slot[c].val
        BY <2>1, <2>2, <2>3, <3>1, <3>2, <3>3
      <3> QED  BY <3>1, <3>2, <3>4
    <2>6. CASE c >= i
      <3> DEFINE e == c - 1
      <3>1. /\ e \in Nat /\ e + 1 = c /\ e < p.size - 1 /\ c >= 1 /\ c \in 1 .. p.size - 1
            /\ (e >= i <=> c # i) /\ (c = i => e = i - 1) /\ (c = i => e < i)
            /\ e + 1 < p.size - 1 => c + 1 < p.size /\ c < p.size - 1
        BY <1>1, <2>2, <2>6
      <3> HIDE DEF e
      <3>2. e + 1 < p.size - 1 => x < q.slot[e + 1].key
        <4> SUFFICES ASSUME e + 1 < p.size - 1 PROVE x < q.slot[e + 1].key
          OBVIOUS
        <4>1. q.slot[c] = p.slot[c + 1]
          BY <1>3, <2>2, <2>6, <3>1
        <4> QED  BY <2>1, <3>1, <4>1
      <3>3. CASE c = i
        <4>1. q.slot[e] = p.slot[e]
          BY <1>3, <3>1, <3>3
        <4>2. e >= 1 => p.slot[e].key <= x
          <5> SUFFICES ASSUME e >= 1 PROVE p.slot[e].key <= x
            OBVIOUS
          <5>1. e \in 1 .. p.size - 1 /\ e < c
            BY <1>1, <3>1
          <5>2. p.slot[e].key < p.slot[c].key /\ p.slot[c].key <= x
            BY <2>1, <3>1, <5>1 DEF Separated
          <5>3. p.slot[e].key \in Int /\ p.slot[c].key \in Int
            BY <2>2, <3>1, <5>1
          <5> QED  BY <5>2, <5>3
        <4>3. Route(q, x) = q.slot[e].val
          BY <2>3, <3>1, <3>2, <4>1, <4>2
        <4> QED  BY <3>1, <3>3, <4>1, <4>3
      <3>4. CASE c # i
        <4>1. q.slot[e] = p.slot[c]
          BY <1>3, <3>1, <3>4
        <4>2. Route(q, x) = q.slot[e].val
          BY <2>1, <2>3, <3>1, <3>2, <4>1
        <4> QED  BY <3>4, <4>1, <4>2
      <3> QED  BY <3>3, <3>4
    <2>7. (c < i /\ c + 1 < i) \/ c + 1 = i \/ c >= i
      BY <1>1, <2>2
    <2> QED  BY <2>4, <2>5, <2>6, <2>7
  <1> QED  BY <1>2, <1>4, <1>5 DEF q
=============================================================================
