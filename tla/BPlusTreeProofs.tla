-------------------------- MODULE BPlusTreeProofs ---------------------------
(***************************************************************************)
(* The shape of a tree, and what a descent and an insertion do to it, for  *)
(* any page sizes and any number of keys. A band gives every page the      *)
(* range of keys it is responsible for and its distance from the leaves; a *)
(* tree is whole when every page fits its band. A descent ends in the one  *)
(* leaf whose band holds the key, and an insertion, whatever splits it     *)
(* causes on the way up, leaves a whole tree with that one entry more.     *)
(***************************************************************************)
EXTENDS BPlusTree, BPlusTreePageProofs, FiniteSetTheorems

-----------------------------------------------------------------------------
(* Loops. *)

\* r is a run of n rounds of f from x.
Runs(S, f, x, r, n) ==
    r \in [0 .. n -> S] /\ r[0] = x /\ \A m \in 0 .. n - 1 : r[m + 1] = f[r[m]]

LEMMA RunsAgree ==
    ASSUME NEW S, NEW f, NEW x, NEW a \in Nat, NEW b \in Nat, a <= b,
           NEW r, NEW s, Runs(S, f, x, r, a), Runs(S, f, x, s, b)
    PROVE  r[a] = s[a]
  <1> DEFINE P == {n \in Nat : n <= a => r[n] = s[n]}
  <1>1. 0 \in P
    BY DEF Runs
  <1>2. ASSUME NEW n \in P PROVE n + 1 \in P
    <2> SUFFICES ASSUME n + 1 <= a PROVE r[n + 1] = s[n + 1]
      OBVIOUS
    <2>1. n \in 0 .. a - 1 /\ n \in 0 .. b - 1 /\ n <= a
      OBVIOUS
    <2> QED  BY <2>1 DEF Runs
  <1>3. P = Nat
    <2> HIDE DEF P
    <2>1. P \in SUBSET Nat
      BY DEF P
    <2> QED  BY <1>1, <1>2, <2>1, Inductive
  <1> QED  BY <1>3

\* r is the run of f from x that does not end.
RunsOn(S, f, x, r) == r \in [Nat -> S] /\ r[0] = x /\ \A n \in Nat : r[n + 1] = f[r[n]]

LEMMA Iterates ==
    ASSUME NEW S, NEW f \in [S -> S], NEW x \in S
    PROVE  \E r : RunsOn(S, f, x, r)
  <1> DEFINE P == {n \in Nat : \E r : Runs(S, f, x, r, n)}
  <1>1. 0 \in P
    <2>1. Runs(S, f, x, [m \in 0 .. 0 |-> x], 0)
      BY DEF Runs
    <2> QED  BY <2>1
  <1>2. ASSUME NEW n \in P PROVE n + 1 \in P
    <2>1. PICK r : Runs(S, f, x, r, n)
      OBVIOUS
    <2> DEFINE s == [m \in 0 .. n + 1 |-> IF m = n + 1 THEN f[r[n]] ELSE r[m]]
    <2>2. n \in Nat /\ r \in [0 .. n -> S] /\ r[n] \in S /\ f[r[n]] \in S
      BY <2>1 DEF Runs
    <2>3. s \in [0 .. n + 1 -> S] /\ s[0] = x
      BY <2>1, <2>2 DEF Runs
    <2>4. ASSUME NEW m \in 0 .. (n + 1) - 1 PROVE s[m + 1] = f[s[m]]
      <3>1. CASE m = n
        BY <2>2, <3>1
      <3>2. CASE m # n
        <4>1. m \in 0 .. n - 1 /\ m + 1 \in 0 .. n
          BY <2>2, <3>2
        <4> QED  BY <2>1, <2>2, <4>1 DEF Runs
      <3> QED  BY <3>1, <3>2
    <2> HIDE DEF s
    <2> QED  BY <2>2, <2>3, <2>4 DEF Runs
  <1>3. P = Nat
    <2> HIDE DEF P
    <2>1. P \in SUBSET Nat
      BY DEF P
    <2> QED  BY <1>1, <1>2, <2>1, Inductive
  <1> DEFINE at(n) == CHOOSE r : Runs(S, f, x, r, n)
             r == [n \in Nat |-> at(n)[n]]
  <1>4. ASSUME NEW n \in Nat PROVE Runs(S, f, x, at(n), n)
    BY <1>3
  <1>5. ASSUME NEW n \in Nat PROVE at(n)[n] \in S /\ at(n + 1)[n + 1] = f[at(n)[n]]
    <2>1. Runs(S, f, x, at(n), n) /\ Runs(S, f, x, at(n + 1), n + 1) /\ n + 1 \in Nat
      BY <1>4
    <2> HIDE DEF at
    <2>2. at(n)[n] = at(n + 1)[n]
      BY <2>1, RunsAgree
    <2>3. at(n + 1)[n + 1] = f[at(n + 1)[n]]
      BY <2>1 DEF Runs
    <2>4. at(n)[n] \in S
      BY <2>1 DEF Runs
    <2> QED  BY <2>2, <2>3, <2>4
  <1>6. at(0)[0] = x
    BY <1>4 DEF Runs
  <1> HIDE DEF at
  <1>7. r \in [Nat -> S] /\ r[0] = x /\ \A n \in Nat : r[n + 1] = f[r[n]]
    BY <1>5, <1>6
  <1> QED  BY <1>7 DEF RunsOn

\* The page after n rounds of a descent from `top` by the function `below`.
Descends(below, top, f) == f = [n \in Nat |-> IF n = 0 THEN top ELSE below[f[n - 1]]]

LEMMA DescentExists ==
    ASSUME NEW below, NEW S \in SUBSET DOMAIN below, NEW top \in S,
           \A q \in S : below[q] \in S
    PROVE  \E f : Descends(below, top, f)
  <1>1. PICK h \in [S -> S] : h = [q \in S |-> below[q]]
    <2>1. [q \in S |-> below[q]] \in [S -> S]
      OBVIOUS
    <2> QED  BY <2>1
  <1>2. PICK r : RunsOn(S, h, top, r)
    BY Iterates
  <1>3. ASSUME NEW n \in Nat PROVE r[n] = IF n = 0 THEN top ELSE below[r[n - 1]]
    <2>1. CASE n = 0
      BY <1>2, <2>1 DEF RunsOn
    <2>2. CASE n # 0
      <3>1. n - 1 \in Nat /\ (n - 1) + 1 = n
        BY <2>2
      <3>2. r[n] = h[r[n - 1]] /\ r[n - 1] \in S
        BY <1>2, <3>1 DEF RunsOn
      <3> QED  BY <1>1, <2>2, <3>1, <3>2
    <2> QED  BY <2>1, <2>2
  <1>4. r = [n \in Nat |-> IF n = 0 THEN top ELSE below[r[n - 1]]]
    BY <1>2, <1>3 DEF RunsOn
  <1> QED  BY <1>4 DEF Descends
-----------------------------------------------------------------------------
(* The pages of a tree. *)

\* Leaves hold record ids and internal pages hold page ids.
Vals == Int \cup RIDs
Pages == UNION {[0 .. n - 1 -> Page(Vals)] : n \in Nat}

LEMMA PagesAre ==
    ASSUME NEW t \in Pages
    PROVE  /\ NewId(t) \in Nat /\ DOMAIN t = 0 .. NewId(t) - 1
           /\ NewId(t) \notin DOMAIN t
           /\ \A q \in DOMAIN t : t[q] \in Page(Vals) /\ q \in Int /\ q # Invalid
           /\ t = [q \in DOMAIN t |-> t[q]]
  <1>1. PICK n \in Nat : t \in [0 .. n - 1 -> Page(Vals)]
    BY DEF Pages
  <1>2. Cardinality(0 .. n - 1) = n
    BY FS_Interval
  <1>3. NewId(t) = n /\ DOMAIN t = 0 .. n - 1
    BY <1>1, <1>2 DEF NewId
  <1> QED  BY <1>1, <1>3 DEF Invalid

LEMMA PagesPut ==
    ASSUME NEW t \in Pages, NEW q \in DOMAIN t, NEW p \in Page(Vals)
    PROVE  /\ [t EXCEPT ![q] = p] \in Pages
           /\ DOMAIN [t EXCEPT ![q] = p] = DOMAIN t
           /\ NewId([t EXCEPT ![q] = p]) = NewId(t)
  <1>1. PICK n \in Nat : t \in [0 .. n - 1 -> Page(Vals)]
    BY DEF Pages
  <1>2. [t EXCEPT ![q] = p] \in [0 .. n - 1 -> Page(Vals)]
    BY <1>1
  <1> QED  BY <1>1, <1>2 DEF Pages, NewId

LEMMA PagesAdd ==
    ASSUME NEW t \in Pages, NEW p \in Page(Vals)
    PROVE  LET n == NewId(t)
               s == AddPage(t, p)
           IN  /\ s \in Pages /\ NewId(s) = n + 1
               /\ DOMAIN s = DOMAIN t \cup {n}
               /\ s[n] = p
               /\ \A q \in DOMAIN t : s[q] = t[q]
  <1> DEFINE n == NewId(t)
             s == AddPage(t, p)
  <1>1. /\ n \in Nat /\ DOMAIN t = 0 .. n - 1
        /\ n \notin DOMAIN t
        /\ \A q \in DOMAIN t : t[q] \in Page(Vals)
    BY PagesAre
  <1>2. s = [q \in {n} \cup DOMAIN t |-> IF q \in DOMAIN t THEN t[q] ELSE p]
    BY DEF AddPage
  <1> HIDE DEF n, s
  <1>3. {n} \cup DOMAIN t = 0 .. (n + 1) - 1
    BY <1>1
  <1>4. s \in [0 .. (n + 1) - 1 -> Page(Vals)]
    BY <1>1, <1>2, <1>3
  <1>5. s \in Pages
    BY <1>1, <1>4 DEF Pages
  <1>6. NewId(s) = n + 1
    <2>1. Cardinality(0 .. (n + 1) - 1) = n + 1
      BY <1>1, FS_Interval
    <2> QED  BY <1>4, <2>1 DEF NewId
  <1>7. DOMAIN s = DOMAIN t \cup {n} /\ s[n] = p /\ \A q \in DOMAIN t : s[q] = t[q]
    BY <1>1, <1>2
  <1> QED  BY <1>5, <1>6, <1>7 DEF n, s

LEMMA InitPageIs ==
    ASSUME NEW leaf \in BOOLEAN, NEW max \in Int
    PROVE  LET p == InitPage(leaf, max)
           IN  /\ p \in Page(Vals) /\ p.leaf = leaf /\ p.size = 0 /\ p.max = max
               /\ p.parent = Invalid /\ p.next = Invalid
               /\ Ordered(p) /\ Separated(p) /\ Entries(p) = {}
  <1>1. 0 \in Bounds /\ Invalid \in Int
    BY MaxSlotAssumption DEF Bounds, Invalid
  <1>2. Blank \in Entry(Vals)
    BY DEF Blank, Slot, Entry, Vals
  <1>3. [i \in Slots |-> Blank] \in [Slots -> Entry(Vals)]
    BY <1>2
  <1>4. InitPage(leaf, max) \in Page(Vals)
    BY <1>1, <1>3 DEF InitPage, Page
  <1> QED  BY <1>4 DEF InitPage, Ordered, Separated, Entries, Used
-----------------------------------------------------------------------------
(***************************************************************************)
(* The shape of a tree.  g gives every page of the tree its level and the  *)
(* range of keys lo .. hi - 1 it is for.  While a split is under way, page *)
(* `new` holds the upper part of page `old` and no page points at it: the  *)
(* parent of `old` still takes both for one.  Otherwise both are Invalid.  *)
(***************************************************************************)
Band == [lev : Nat, lo : Nat, hi : Nat]

\* What one page must be like for its band.
FitsBand(p, b) ==
    /\ b.lo < b.hi /\ b.hi <= Supremum
    /\ p.leaf <=> b.lev = 0
    /\ p.leaf => /\ p.max = leaf_max_size /\ Ordered(p)
                 /\ \A e \in Entries(p) : b.lo <= e.key /\ e.key < b.hi
    /\ ~p.leaf => /\ p.max = internal_max_size /\ p.size >= 1 /\ Separated(p)
                  /\ \A i \in 1 .. p.size - 1 : b.lo < p.slot[i].key /\ p.slot[i].key < b.hi

\* The range of the keys below child i.
From(p, b, i) == IF i = 0 THEN b.lo ELSE p.slot[i].key
UpTo(p, b, i) == IF i + 1 < p.size THEN p.slot[i + 1].key ELSE b.hi

\* The upper end of page c for the pages above it.
Seen(g, old, new, c) == IF c = old THEN g[new].hi ELSE g[c].hi

IsChild(t, top, g, old, new, q, i, c) ==
    /\ c \in DOMAIN g /\ c # top /\ c # new
    /\ g[c].lev + 1 = g[q].lev /\ t[c].parent = q
    /\ g[c].lo = From(t[q], g[q], i) /\ Seen(g, old, new, c) = UpTo(t[q], g[q], i)

PointsDown(t, top, g, old, new, q) ==
    ~t[q].leaf => \A i \in Used(t[q]) : IsChild(t, top, g, old, new, q, i, t[q].slot[i].val)

PointsUp(t, top, g, new, q) ==
    q # top /\ q # new =>
        /\ g[q].lev < g[top].lev
        /\ t[q].parent \in DOMAIN g /\ ~t[t[q].parent].leaf
        /\ \E i \in Used(t[t[q].parent]) : t[t[q].parent].slot[i].val = q

PointsRight(t, g, q) ==
    t[q].leaf => IF g[q].hi = Supremum THEN t[q].next = Invalid
                 ELSE /\ t[q].next \in DOMAIN g /\ t[t[q].next].leaf
                      /\ g[t[q].next].lo = g[q].hi

InPlace(t, top, g, old, new, q) ==
    /\ g[q] \in Band /\ FitsBand(t[q], g[q])
    /\ PointsDown(t, top, g, old, new, q)
    /\ PointsUp(t, top, g, new, q)
    /\ PointsRight(t, g, q)

\* The split of page old.
Divided(t, top, g, old, new) ==
    old # Invalid =>
        /\ old \in DOMAIN g /\ new \in DOMAIN g /\ new # old /\ new # top
        /\ g[new].lev = g[old].lev /\ g[new].lo = g[old].hi
        /\ t[new].parent = t[old].parent

Shape(t, top, g, old, new) ==
    /\ t \in Pages /\ DOMAIN g \subseteq DOMAIN t /\ top \in DOMAIN g
    /\ t[top].parent = Invalid /\ g[top].lo = 0 /\ Seen(g, old, new, top) = Supremum
    /\ Divided(t, top, g, old, new)
    /\ \A q \in DOMAIN g : InPlace(t, top, g, old, new, q)

Whole(t, top, g) == Shape(t, top, g, Invalid, Invalid)

\* The entries of the leaves.
Content(t, g) == UNION {Entries(t[q]) : q \in {r \in DOMAIN g : t[r].leaf}}

LEMMA WholeIs ==
    ASSUME NEW t, NEW top, NEW g, Whole(t, top, g)
    PROVE  /\ t \in Pages /\ DOMAIN g \subseteq DOMAIN t /\ top \in DOMAIN g
           /\ t[top].parent = Invalid /\ g[top].lo = 0 /\ g[top].hi = Supremum
           /\ \A q \in DOMAIN g :
                 /\ t[q] \in Page(Vals) /\ g[q] \in Band /\ FitsBand(t[q], g[q])
                 /\ q \in Int /\ q # Invalid
                 /\ PointsDown(t, top, g, Invalid, Invalid, q)
                 /\ PointsUp(t, top, g, Invalid, q)
                 /\ PointsRight(t, g, q)
  <1>1. t \in Pages /\ DOMAIN g \subseteq DOMAIN t /\ top \in DOMAIN g
    BY DEF Whole, Shape
  <1>2. \A q \in DOMAIN g : t[q] \in Page(Vals) /\ q \in Int /\ q # Invalid
    BY <1>1, PagesAre
  <1> QED  BY <1>1, <1>2 DEF Whole, Shape, InPlace, Seen
-----------------------------------------------------------------------------
(* The descent to the leaf of a key. *)

LEMMA SupremumIs == Supremum \in Nat /\ \A k \in Keys : k \in Nat /\ k > 0 /\ k < Supremum
  <1> DEFINE m == CHOOSE m \in Keys : \A k \in Keys : k <= m
  <1>1. m \in Keys /\ \A k \in Keys : k <= m
    BY TreeConstants
  <1>2. \A k \in Keys : k \in Nat /\ k > 0
    BY TreeConstants
  <1> HIDE DEF m
  <1>3. Supremum = 1 + m
    BY DEF Supremum, m
  <1> QED  BY <1>1, <1>2, <1>3

InRange(b, k) == b.lo <= k /\ k < b.hi

\* An internal page sends a key of its range to the one child that has it in
\* its range.
LEMMA RouteInRange ==
    ASSUME NEW t, NEW top, NEW g, Whole(t, top, g), NEW q \in DOMAIN g, ~t[q].leaf,
           NEW k \in Nat, InRange(g[q], k)
    PROVE  /\ Route(t[q], k) \in DOMAIN g
           /\ g[Route(t[q], k)].lev + 1 = g[q].lev
           /\ InRange(g[Route(t[q], k)], k)
  <1> DEFINE p == t[q]
             b == g[q]
             i == ChildIndex(p, k)
             c == Route(p, k)
  <1>1. p \in Page(Vals) /\ b \in Band /\ FitsBand(p, b)
    BY WholeIs
  <1>2. p.size >= 1 /\ Separated(p)
    BY <1>1 DEF FitsBand
  <1>3. Holds(p, i, k)
    <2>1. p.size > 0
      BY <1>1, <1>2, PageType
    <2> HIDE DEF p
    <2> QED  BY <1>1, <1>2, <2>1, ChildLookupCorrect
  <1>4. i \in Used(p) /\ c = p.slot[i].val
    BY <1>3 DEF Holds, Route
  <1>5. IsChild(t, top, g, Invalid, Invalid, q, i, c)
    BY <1>4, WholeIs DEF PointsDown
  <1>6. c \in DOMAIN g /\ g[c].lev + 1 = g[q].lev
    BY <1>5 DEF IsChild
  <1>7. g[c].lo = From(p, b, i) /\ g[c].hi = UpTo(p, b, i)
    <2>1. c # Invalid
      BY <1>6, WholeIs
    <2> QED  BY <1>5, <2>1 DEF IsChild, Seen
  <1>8. i \in Nat /\ p.size \in Nat /\ i < p.size
    BY <1>1, <1>4, PageType
  <1>9. InRange(g[c], k)
    <2> HIDE DEF p, b, i, c
    <2>1. b.lo <= k /\ k < b.hi
      BY DEF b, InRange
    <2>2. From(p, b, i) <= k
      BY <1>3, <1>8, <2>1 DEF From, Holds
    <2>3. k < UpTo(p, b, i)
      BY <1>3, <1>8, <2>1 DEF UpTo, Holds
    <2> QED  BY <1>7, <2>2, <2>3 DEF InRange
  <1> QED  BY <1>6, <1>9

LEMMA ChildOfParent ==
    ASSUME NEW t, NEW top, NEW g, Whole(t, top, g), NEW c \in DOMAIN g, c # top
    PROVE  /\ t[c].parent \in DOMAIN g /\ ~t[t[c].parent].leaf
           /\ g[c].lev + 1 = g[t[c].parent].lev /\ g[c].lev < g[top].lev
           /\ \A k \in Nat : InRange(g[c], k) =>
                 InRange(g[t[c].parent], k) /\ c = Route(t[t[c].parent], k)
  <1> DEFINE q == t[c].parent
             p == t[q]
             b == g[q]
  <1>1. PointsUp(t, top, g, Invalid, c) /\ c # Invalid
    BY WholeIs
  <1>2. q \in DOMAIN g /\ ~p.leaf /\ g[c].lev < g[top].lev
    BY <1>1 DEF PointsUp
  <1>3. PICK i \in Used(p) : p.slot[i].val = c
    BY <1>1 DEF PointsUp
  <1>4. IsChild(t, top, g, Invalid, Invalid, q, i, c)
    BY <1>2, <1>3, WholeIs DEF PointsDown
  <1>5. p \in Page(Vals) /\ b \in Band /\ FitsBand(p, b) /\ g[c] \in Band
    BY <1>2, WholeIs
  <1>6. g[c].lev + 1 = b.lev /\ g[c].lo = From(p, b, i) /\ g[c].hi = UpTo(p, b, i)
    BY <1>1, <1>4 DEF IsChild, Seen
  <1>7. /\ i \in Nat /\ p.size \in Nat /\ i < p.size /\ p.size > 0 /\ Separated(p)
        /\ \A j \in 1 .. p.size - 1 : b.lo < p.slot[j].key /\ p.slot[j].key < b.hi
        /\ \A j \in Slots : p.slot[j].key \in Int
        /\ i \in Slots /\ (i + 1 < p.size => i + 1 \in Slots)
    <2>1. i \in Nat /\ p.size \in Nat /\ i < p.size /\ i \in Slots
          /\ \A j \in Slots : p.slot[j].key \in Int
      BY <1>5, PageType
    <2>2. i + 1 < p.size => i + 1 \in Used(p)
      BY <2>1 DEF Used
    <2>3. i + 1 < p.size => i + 1 \in Slots
      BY <1>5, <2>2, PageType
    <2> QED  BY <1>2, <1>5, <2>1, <2>3 DEF FitsBand
  <1>8. ASSUME NEW k \in Nat, InRange(g[c], k)
        PROVE  InRange(b, k) /\ c = Route(p, k)
    <2> HIDE DEF q, p, b
    <2>1. b.lo \in Nat /\ b.hi \in Nat
      BY <1>5 DEF Band
    <2>2. From(p, b, i) <= k /\ k < UpTo(p, b, i)
      BY <1>6, <1>8 DEF InRange
    <2>3. b.lo <= k
      <3>1. CASE i = 0
        BY <2>2, <3>1 DEF From
      <3>2. CASE i # 0
        <4>0. i \in Nat /\ p.size \in Nat /\ i < p.size /\ p.slot[i].key \in Int
          BY <1>7
        <4>1. i \in 1 .. p.size - 1 /\ p.slot[i].key \in Int
          BY ONLY <3>2, <4>0
        <4>2. b.lo < p.slot[i].key /\ p.slot[i].key <= k
          BY <1>7, <2>2, <3>2, <4>1 DEF From
        <4> QED  BY <2>1, <4>1, <4>2
      <3> QED  BY <3>1, <3>2
    <2>4. k < b.hi
      <3>1. CASE ~(i + 1 < p.size)
        BY <2>2, <3>1 DEF UpTo
      <3>2. CASE i + 1 < p.size
        <4>0. i \in Nat /\ p.size \in Nat /\ i < p.size /\ p.slot[i + 1].key \in Int
          BY <1>7, <3>2
        <4>1. i + 1 \in 1 .. p.size - 1 /\ p.slot[i + 1].key \in Int
          BY ONLY <3>2, <4>0
        <4>2. p.slot[i + 1].key < b.hi /\ k < p.slot[i + 1].key
          BY <1>7, <2>2, <3>2, <4>1 DEF UpTo
        <4> QED  BY <2>1, <4>1, <4>2
      <3> QED  BY <3>1, <3>2
    <2>5. Holds(p, i, k)
      BY <1>3, <1>7, <2>2 DEF Holds, From, UpTo
    <2>6. i = ChildIndex(p, k)
      BY <1>5, <1>7, <2>5, ChildLookupCorrect
    <2> QED  BY <1>3, <2>3, <2>4, <2>6 DEF InRange, Route
  <1> QED  BY <1>2, <1>6, <1>8

Below(t, k) == [q \in DOMAIN t |-> IF t[q].leaf THEN q ELSE Route(t[q], k)]
Path(t, top, k) == CHOOSE f : Descends(Below(t, k), top, f)

LEMMA FindLeafIs ==
    ASSUME NEW t, NEW top, NEW k
    PROVE  FindLeaf(t, top, k) = Path(t, top, k)[NewId(t)]
  BY DEF FindLeaf, Path, Descends, Below, Route

\* The n-th page of the descent is n levels below the top and has k in its range.
LEMMA PathIs ==
    ASSUME NEW t, NEW top, NEW g, Whole(t, top, g), NEW k \in Nat, k < Supremum
    PROVE  LET f == Path(t, top, k)
           IN  /\ f[0] = top
               /\ \A n \in Nat : /\ f[n + 1] = Below(t, k)[f[n]]
                                 /\ f[n] \in DOMAIN g /\ InRange(g[f[n]], k)
                                 /\ n + g[f[n]].lev = g[top].lev \/ t[f[n]].leaf
  <1> DEFINE f == Path(t, top, k)
             S == {q \in DOMAIN g : InRange(g[q], k)}
  <1>1. t \in Pages /\ DOMAIN g \subseteq DOMAIN t /\ top \in DOMAIN g
        /\ g[top].lo = 0 /\ g[top].hi = Supremum
    BY WholeIs
  <1>2. S \in SUBSET DOMAIN Below(t, k) /\ top \in S
    BY <1>1, SupremumIs DEF Below, InRange
  <1>3. ASSUME NEW q \in S PROVE Below(t, k)[q] \in S
    <2>1. CASE t[q].leaf
      BY <1>1, <2>1 DEF Below
    <2>2. CASE ~t[q].leaf
      BY <1>1, <2>2, RouteInRange DEF Below
    <2> QED  BY <2>1, <2>2
  <1>4. Descends(Below(t, k), top, f)
    <2>1. \E h : Descends(Below(t, k), top, h)
      <3> HIDE DEF S
      <3> QED  BY <1>2, <1>3, DescentExists
    <2> QED  BY <2>1 DEF Path
  <1> HIDE DEF f
  <1>5. f[0] = top
    BY <1>4 DEF Descends
  <1>6. ASSUME NEW n \in Nat PROVE f[n + 1] = Below(t, k)[f[n]]
    <2>1. n + 1 \in Nat /\ n + 1 # 0 /\ (n + 1) - 1 = n
      OBVIOUS
    <2>2. f[n + 1] = Below(t, k)[f[(n + 1) - 1]]
      BY <1>4, <2>1 DEF Descends
    <2> QED  BY <2>1, <2>2
  <1> DEFINE P == {n \in Nat : f[n] \in S /\ (n + g[f[n]].lev = g[top].lev \/ t[f[n]].leaf)}
  <1>7. 0 \in P
    <2>1. g[top].lev \in Nat
      BY <1>1, WholeIs DEF Band
    <2> QED  BY <1>2, <1>5, <2>1
  <1>8. ASSUME NEW n \in P PROVE n + 1 \in P
    <2>1. f[n] \in S /\ n \in Nat
      OBVIOUS
    <2>2. CASE t[f[n]].leaf
      <3>1. f[n + 1] = f[n]
        BY <1>1, <1>6, <2>1, <2>2 DEF Below
      <3> QED  BY <2>1, <2>2, <3>1
    <2>3. CASE ~t[f[n]].leaf
      <3>1. f[n + 1] = Route(t[f[n]], k)
        BY <1>1, <1>6, <2>1, <2>3 DEF Below
      <3>2. f[n + 1] \in S /\ g[f[n + 1]].lev + 1 = g[f[n]].lev
        BY <2>1, <2>3, <3>1, RouteInRange
      <3>3. g[f[n + 1]].lev \in Nat
        BY <3>2, WholeIs DEF Band
      <3>4. n + g[f[n]].lev = g[top].lev
        BY <2>3
      <3> QED  BY <2>1, <3>2, <3>3, <3>4
    <2> QED  BY <2>2, <2>3
  <1>9. P = Nat
    <2> HIDE DEF P
    <2>1. P \in SUBSET Nat
      BY DEF P
    <2> QED  BY <1>7, <1>8, <2>1, Inductive
  <1>10. \A n \in Nat : f[n] \in S /\ (n + g[f[n]].lev = g[top].lev \/ t[f[n]].leaf)
    BY <1>9
  <1> QED  BY <1>5, <1>6, <1>10 DEF f

\* A page whose range has k is on the path to k.
LEMMA OnPath ==
    ASSUME NEW t, NEW top, NEW g, Whole(t, top, g), NEW k \in Nat, k < Supremum,
           NEW q \in DOMAIN g, InRange(g[q], k)
    PROVE  g[top].lev - g[q].lev \in Nat /\ Path(t, top, k)[g[top].lev - g[q].lev] = q
  <1> DEFINE f == Path(t, top, k)
             On(n) == \A c \in DOMAIN g : InRange(g[c], k) /\ n + g[c].lev = g[top].lev => f[n] = c
             P == {n \in Nat : On(n)}
  <1>1. \A c \in DOMAIN g : /\ g[c].lev \in Nat /\ g[c].lev <= g[top].lev
                            /\ c # top => g[c].lev < g[top].lev
    <2> SUFFICES ASSUME NEW c \in DOMAIN g
                 PROVE  /\ g[c].lev \in Nat /\ g[c].lev <= g[top].lev
                        /\ c # top => g[c].lev < g[top].lev
      OBVIOUS
    <2>1. g[c].lev \in Nat /\ g[top].lev \in Nat
      BY WholeIs DEF Band
    <2>2. c # top => g[c].lev < g[top].lev
      BY ChildOfParent
    <2> QED  BY <2>1, <2>2
  <1>2. top \in DOMAIN g /\ DOMAIN g \subseteq DOMAIN t
    BY WholeIs
  <1>3. /\ f[0] = top
        /\ \A n \in Nat : f[n + 1] = Below(t, k)[f[n]]
    BY PathIs
  <1> HIDE DEF f
  <1>4. 0 \in P
    BY <1>1, <1>2, <1>3
  <1>5. ASSUME NEW n \in P PROVE n + 1 \in P
    <2> SUFFICES ASSUME NEW c \in DOMAIN g, InRange(g[c], k), (n + 1) + g[c].lev = g[top].lev
                 PROVE  f[n + 1] = c
      OBVIOUS
    <2>1. n \in Nat /\ c # top
      BY <1>1
    <2> DEFINE p == t[c].parent
    <2>2. /\ p \in DOMAIN g /\ ~t[p].leaf /\ g[c].lev + 1 = g[p].lev
          /\ InRange(g[p], k) /\ c = Route(t[p], k)
      BY <2>1, ChildOfParent
    <2>3. n + g[p].lev = g[top].lev
      BY <1>1, <1>2, <2>1, <2>2
    <2>4. f[n] = p
      BY <2>2, <2>3
    <2> QED  BY <1>2, <1>3, <2>1, <2>2, <2>4 DEF Below
  <1>6. P = Nat
    <2> HIDE DEF P
    <2>1. P \in SUBSET Nat
      BY DEF P
    <2> QED  BY <1>4, <1>5, <2>1, Inductive
  <1>7. g[top].lev - g[q].lev \in Nat /\ (g[top].lev - g[q].lev) + g[q].lev = g[top].lev
    BY <1>1, <1>2
  <1>8. g[top].lev - g[q].lev \in P
    BY <1>6, <1>7
  <1> QED  BY <1>7, <1>8 DEF f

(***************************************************************************)
(* The descents of GetValue, Insert, Remove and Begin(key) end at the one  *)
(* leaf whose range has the key.                                           *)
(***************************************************************************)
THEOREM DescentCorrect ==
    ASSUME NEW t, NEW top, NEW g, Whole(t, top, g), g[top].lev < NewId(t),
           NEW k \in Nat, k < Supremum
    PROVE  /\ FindLeaf(t, top, k) \in DOMAIN g /\ t[FindLeaf(t, top, k)].leaf
           /\ InRange(g[FindLeaf(t, top, k)], k)
           /\ \A q \in DOMAIN g : t[q].leaf /\ InRange(g[q], k) => q = FindLeaf(t, top, k)
  <1> DEFINE f == Path(t, top, k)
             L == g[top].lev
             n == NewId(t)
  <1>1. n \in Nat /\ L \in Nat /\ FindLeaf(t, top, k) = f[n]
    <2>1. t \in Pages /\ top \in DOMAIN g
      BY WholeIs
    <2> QED  BY <2>1, WholeIs, PagesAre, FindLeafIs DEF Band
  <1>2. /\ \A m \in Nat : f[m + 1] = Below(t, k)[f[m]]
        /\ \A m \in Nat : f[m] \in DOMAIN g /\ InRange(g[f[m]], k)
        /\ \A m \in Nat : m + g[f[m]].lev = L \/ t[f[m]].leaf
    BY PathIs
  <1> HIDE DEF f
  <1>3. \A m \in Nat : t[f[m]].leaf => f[m + 1] = f[m]
    <2>1. DOMAIN g \subseteq DOMAIN t
      BY WholeIs
    <2> QED  BY <1>2, <2>1 DEF Below
  <1>4. \A c \in DOMAIN g : t[c].leaf <=> g[c].lev = 0
    BY WholeIs DEF FitsBand
  <1>5. t[f[L]].leaf
    <2>0. f[L] \in DOMAIN g
      BY <1>1, <1>2
    <2>1. g[f[L]].lev \in Nat
      BY <2>0, WholeIs DEF Band
    <2>2. f[L] \in DOMAIN g /\ (L + g[f[L]].lev = L \/ t[f[L]].leaf)
      BY <1>1, <1>2
    <2> HIDE DEF L
    <2>3. L + g[f[L]].lev = L => g[f[L]].lev = 0
      BY ONLY <1>1, <2>1
    <2> QED  BY <1>4, <2>2, <2>3
  <1> DEFINE P == {m \in Nat : f[L + m] = f[L]}
  <1>6. P = Nat
    <2>1. 0 \in P
      BY <1>1
    <2>2. ASSUME NEW m \in P PROVE m + 1 \in P
      <3>1. L + m \in Nat /\ L + (m + 1) = (L + m) + 1
        BY <1>1
      <3> QED  BY <1>3, <1>5, <3>1
    <2> HIDE DEF P
    <2>3. P \in SUBSET Nat
      BY DEF P
    <2> QED  BY <2>1, <2>2, <2>3, Inductive
  <1>7. f[n] = f[L]
    <2>1. n - L \in Nat /\ L + (n - L) = n
      BY <1>1
    <2>2. n - L \in P
      BY <1>6, <2>1
    <2> QED  BY <2>1, <2>2
  <1>8. ASSUME NEW q \in DOMAIN g, t[q].leaf, InRange(g[q], k) PROVE q = f[L]
    <2>1. g[q].lev = 0
      BY <1>4, <1>8
    <2>2. f[L - 0] = q
      BY <1>8, <2>1, OnPath DEF f
    <2> QED  BY <1>1, <2>2
  <1> QED  BY <1>1, <1>2, <1>5, <1>7, <1>8

LEMMA ContentIs ==
    ASSUME NEW t, NEW g, NEW e
    PROVE  e \in Content(t, g) <=> \E q \in DOMAIN g : t[q].leaf /\ e \in Entries(t[q])
  BY DEF Content

LEMMA EntryInRange ==
    ASSUME NEW t, NEW top, NEW g, Whole(t, top, g), NEW q \in DOMAIN g, t[q].leaf,
           NEW e \in Entries(t[q])
    PROVE  e \in Entry(Vals) /\ e.key \in Nat /\ e.key < Supremum /\ InRange(g[q], e.key)
  <1>1. t[q] \in Page(Vals) /\ g[q] \in Band /\ FitsBand(t[q], g[q])
    BY WholeIs
  <1>2. e \in Entry(Vals) /\ e.key \in Int
    BY <1>1, PageType DEF Entry
  <1>3. g[q].lo \in Nat /\ g[q].hi \in Nat /\ Supremum \in Nat
    BY <1>1, SupremumIs DEF Band
  <1>4. g[q].lo <= e.key /\ e.key < g[q].hi /\ g[q].hi <= Supremum
    BY <1>1 DEF FitsBand
  <1> QED  BY <1>2, <1>3, <1>4 DEF InRange

\* A leaf holds the entries of the tree that are in its range.
LEMMA LeafHolds ==
    ASSUME NEW t, NEW top, NEW g, Whole(t, top, g), g[top].lev < NewId(t),
           NEW q \in DOMAIN g, t[q].leaf
    PROVE  Entries(t[q]) = {e \in Content(t, g) : InRange(g[q], e.key)}
  <1>1. ASSUME NEW e \in Entries(t[q]) PROVE e \in Content(t, g) /\ InRange(g[q], e.key)
    BY ContentIs, EntryInRange
  <1>2. ASSUME NEW e \in Content(t, g), InRange(g[q], e.key) PROVE e \in Entries(t[q])
    <2>1. PICK r \in DOMAIN g : t[r].leaf /\ e \in Entries(t[r])
      BY ContentIs
    <2>2. e.key \in Nat /\ e.key < Supremum /\ InRange(g[r], e.key)
      BY <2>1, EntryInRange
    <2>3. q = FindLeaf(t, top, e.key) /\ r = FindLeaf(t, top, e.key)
      BY <1>2, <2>1, <2>2, DescentCorrect
    <2> QED  BY <2>1, <2>3
  <1> QED  BY <1>1, <1>2

\* The values of the entries for key k.
ValuesOf(C, k) == {e.val : e \in {d \in C : d.key = k}}

LEMMA LeafLookupIs ==
    ASSUME NEW p \in Page(Vals), Ordered(p), NEW k \in Int
    PROVE  LeafLookup(p, k) = ValuesOf(Entries(p), k)
  <1> DEFINE i == KeyIndex(p, k)
  <1>1. /\ HasKeyAt(p, i, k) <=> \E e \in Entries(p) : e.key = k
        /\ \A e \in Entries(p) : e.key = k => e = p.slot[i]
    BY LeafLookupCorrect
  <1> HIDE DEF i
  <1>2. LeafLookup(p, k) = IF HasKeyAt(p, i, k) THEN {p.slot[i].val} ELSE {}
    BY DEF LeafLookup, i
  <1> QED  BY <1>1, <1>2 DEF ValuesOf

LEMMA LookupIs ==
    ASSUME NEW t, NEW top, NEW g, Whole(t, top, g), g[top].lev < NewId(t), NEW k \in Keys
    PROVE  LeafLookup(t[FindLeaf(t, top, k)], k) = ValuesOf(Content(t, g), k)
  <1> DEFINE q == FindLeaf(t, top, k)
  <1>1. k \in Nat /\ k \in Int /\ k < Supremum
    BY SupremumIs
  <1>2. q \in DOMAIN g /\ t[q].leaf /\ InRange(g[q], k)
    BY <1>1, DescentCorrect
  <1> HIDE DEF q
  <1>3. t[q] \in Page(Vals) /\ Ordered(t[q])
    BY <1>2, WholeIs DEF FitsBand
  <1>4. LeafLookup(t[q], k) = ValuesOf(Entries(t[q]), k)
    BY <1>1, <1>3, LeafLookupIs
  <1>5. Entries(t[q]) = {e \in Content(t, g) : InRange(g[q], e.key)}
    BY <1>2, LeafHolds
  <1>6. ValuesOf(Entries(t[q]), k) = ValuesOf(Content(t, g), k)
    BY <1>2, <1>5 DEF ValuesOf
  <1> QED  BY <1>4, <1>6 DEF q
-----------------------------------------------------------------------------
(* Entries put in or taken out of a leaf. *)

LEMMA LeafReplaced ==
    ASSUME NEW t, NEW top, NEW g, Whole(t, top, g), NEW q \in DOMAIN g, t[q].leaf,
           NEW p \in Page(Vals), SameHeader(t[q], p), FitsBand(p, g[q])
    PROVE  Whole([t EXCEPT ![q] = p], top, g)
  <1> DEFINE s == [t EXCEPT ![q] = p]
  <1>1. t \in Pages /\ DOMAIN g \subseteq DOMAIN t /\ top \in DOMAIN g
        /\ t[top].parent = Invalid /\ g[top].lo = 0 /\ g[top].hi = Supremum
    BY WholeIs
  <1>2. s \in Pages /\ DOMAIN s = DOMAIN t
    BY <1>1, PagesPut
  <1>3. s[q] = p /\ \A r \in DOMAIN g : r # q => s[r] = t[r]
    BY <1>1
  <1>4. \A r \in DOMAIN g : /\ s[r].leaf = t[r].leaf /\ s[r].parent = t[r].parent
                            /\ s[r].next = t[r].next
    BY <1>3 DEF SameHeader
  <1>5. \A r \in DOMAIN g : ~t[r].leaf => s[r] = t[r]
    BY <1>3
  <1> HIDE DEF s
  <1>6. ASSUME NEW r \in DOMAIN g PROVE InPlace(s, top, g, Invalid, Invalid, r)
    <2>1. /\ g[r] \in Band /\ FitsBand(t[r], g[r])
          /\ PointsDown(t, top, g, Invalid, Invalid, r)
          /\ PointsUp(t, top, g, Invalid, r)
          /\ PointsRight(t, g, r)
      BY WholeIs
    <2>2. FitsBand(s[r], g[r])
      BY <1>3, <2>1
    <2>3. PointsDown(s, top, g, Invalid, Invalid, r)
      BY <1>4, <1>5, <2>1 DEF PointsDown, IsChild
    <2>4. PointsUp(s, top, g, Invalid, r)
      BY <1>4, <1>5, <2>1 DEF PointsUp
    <2>5. PointsRight(s, g, r)
      BY <1>4, <2>1 DEF PointsRight
    <2> QED  BY <2>1, <2>2, <2>3, <2>4, <2>5 DEF InPlace
  <1>7. Seen(g, Invalid, Invalid, top) = Supremum
    BY <1>1, WholeIs DEF Seen
  <1>8. Whole(s, top, g)
    BY <1>1, <1>2, <1>4, <1>6, <1>7 DEF Whole, Shape, Divided
  <1> QED  BY <1>8 DEF s

LEMMA LeafReplacedContent ==
    ASSUME NEW t, NEW top, NEW g, Whole(t, top, g), g[top].lev < NewId(t),
           NEW q \in DOMAIN g, t[q].leaf, NEW p, p.leaf
    PROVE  Content([t EXCEPT ![q] = p], g) =
              Entries(p) \cup {e \in Content(t, g) : ~InRange(g[q], e.key)}
  <1> DEFINE s == [t EXCEPT ![q] = p]
  <1>1. DOMAIN g \subseteq DOMAIN t
    BY WholeIs
  <1>2. s[q] = p /\ \A r \in DOMAIN g : r # q => s[r] = t[r]
    BY <1>1
  <1> HIDE DEF s
  <1>3. ASSUME NEW e \in Content(s, g)
        PROVE  e \in Entries(p) \/ (e \in Content(t, g) /\ ~InRange(g[q], e.key))
    <2>1. PICK r \in DOMAIN g : s[r].leaf /\ e \in Entries(s[r])
      BY <1>3, ContentIs
    <2>2. CASE r = q
      BY <1>2, <2>1, <2>2
    <2>3. CASE r # q
      <3>1. t[r].leaf /\ e \in Entries(t[r])
        BY <1>2, <2>1, <2>3
      <3>2. e \in Content(t, g) /\ e.key \in Nat /\ e.key < Supremum /\ InRange(g[r], e.key)
        BY <3>1, ContentIs, EntryInRange
      <3>3. ~InRange(g[q], e.key)
        BY <2>3, <3>1, <3>2, DescentCorrect
      <3> QED  BY <3>2, <3>3
    <2> QED  BY <2>2, <2>3
  <1>4. ASSUME NEW e \in Entries(p) PROVE e \in Content(s, g)
    BY <1>2, ContentIs
  <1>5. ASSUME NEW e \in Content(t, g), ~InRange(g[q], e.key) PROVE e \in Content(s, g)
    <2>1. PICK r \in DOMAIN g : t[r].leaf /\ e \in Entries(t[r])
      BY ContentIs
    <2>2. r # q
      BY <1>5, <2>1, EntryInRange
    <2> QED  BY <1>2, <2>1, <2>2, ContentIs
  <1>6. Content(s, g) = Entries(p) \cup {e \in Content(t, g) : ~InRange(g[q], e.key)}
    BY <1>3, <1>4, <1>5
  <1> QED  BY <1>6 DEF s
-----------------------------------------------------------------------------
(* Splits. *)

\* The bands after page q has been split at key m into q and n.
SplitBand(g, q, n, m) ==
    [r \in DOMAIN g \cup {n} |->
        IF r = n THEN [lev |-> g[q].lev, lo |-> m, hi |-> g[q].hi]
        ELSE IF r = q THEN [lev |-> g[q].lev, lo |-> g[q].lo, hi |-> m]
        ELSE g[r]]

IsSplitBand(h, g, q, n, m) ==
    /\ DOMAIN h = DOMAIN g \cup {n}
    /\ \A r \in DOMAIN h : h[r] \in Band
    /\ \A r \in DOMAIN g : h[r].lev = g[r].lev /\ h[r].lo = g[r].lo
    /\ \A r \in DOMAIN g : r # q => h[r] = g[r]
    /\ h[q].hi = m
    /\ h[n].lev = g[q].lev /\ h[n].lo = m /\ h[n].hi = g[q].hi
    /\ \A r \in DOMAIN g : Seen(h, q, n, r) = g[r].hi

LEMMA SplitBandIs ==
    ASSUME NEW t, NEW top, NEW g, Whole(t, top, g), NEW q \in DOMAIN g,
           NEW n, n \notin DOMAIN g, NEW m \in Nat
    PROVE  IsSplitBand(SplitBand(g, q, n, m), g, q, n, m)
  <1> DEFINE h == SplitBand(g, q, n, m)
  <1>1. \A r \in DOMAIN g : /\ g[r] \in Band /\ g[r].lev \in Nat /\ g[r].lo \in Nat
                            /\ g[r].hi \in Nat
    BY WholeIs DEF Band
  <1>2. /\ DOMAIN h = DOMAIN g \cup {n}
        /\ h[n] = [lev |-> g[q].lev, lo |-> m, hi |-> g[q].hi]
        /\ h[q] = [lev |-> g[q].lev, lo |-> g[q].lo, hi |-> m]
        /\ \A r \in DOMAIN g : r # q => h[r] = g[r]
    BY DEF SplitBand
  <1> HIDE DEF h
  <1>3. h[n] \in Band /\ h[q] \in Band
    BY <1>1, <1>2 DEF Band
  <1>4. \A r \in DOMAIN h : h[r] \in Band
    BY <1>1, <1>2, <1>3
  <1>5. \A r \in DOMAIN g : h[r].lev = g[r].lev /\ h[r].lo = g[r].lo
    BY <1>2
  <1>6. \A r \in DOMAIN g : Seen(h, q, n, r) = g[r].hi
    BY <1>2 DEF Seen
  <1> QED  BY <1>2, <1>4, <1>5, <1>6 DEF h, IsSplitBand

LEMMA LeafDivided ==
    ASSUME NEW t, NEW top, NEW g, Whole(t, top, g), NEW q \in DOMAIN g, t[q].leaf,
           NEW low \in Page(Vals), NEW high \in Page(Vals), NEW m \in Nat,
           low.leaf, low.max = leaf_max_size, Ordered(low),
           high.leaf, high.max = leaf_max_size, Ordered(high),
           g[q].lo < m, m < g[q].hi,
           \A e \in Entries(low) : g[q].lo <= e.key /\ e.key < m,
           \A e \in Entries(high) : m <= e.key /\ e.key < g[q].hi,
           low.parent = t[q].parent, high.parent = t[q].parent,
           low.next = NewId(t), high.next = t[q].next
    PROVE  Shape(AddPage([t EXCEPT ![q] = low], high), top,
                 SplitBand(g, q, NewId(t), m), q, NewId(t))
  <1> DEFINE n == NewId(t)
             t1 == [t EXCEPT ![q] = low]
             s == AddPage(t1, high)
             h == SplitBand(g, q, n, m)
  <1>1. /\ t \in Pages /\ DOMAIN g \subseteq DOMAIN t /\ top \in DOMAIN g
        /\ t[top].parent = Invalid /\ g[top].lo = 0 /\ g[top].hi = Supremum
    BY WholeIs
  <1>2. n \notin DOMAIN t /\ n \notin DOMAIN g /\ n \in Nat
    BY <1>1, PagesAre
  <1>3. t1 \in Pages /\ DOMAIN t1 = DOMAIN t /\ NewId(t1) = n
    BY <1>1, PagesPut
  <1>4. s \in Pages /\ DOMAIN s = DOMAIN t \cup {n} /\ s[n] = high
        /\ \A r \in DOMAIN t : s[r] = t1[r]
    <2> HIDE DEF t1, n
    <2> QED  BY <1>3, PagesAdd, ZenonT(30)
  <1>5. s[q] = low /\ \A r \in DOMAIN g : r # q => s[r] = t[r]
    BY <1>1, <1>4
  <1>6. /\ DOMAIN h = DOMAIN g \cup {n}
        /\ \A r \in DOMAIN h : h[r] \in Band
        /\ \A r \in DOMAIN g : h[r].lev = g[r].lev /\ h[r].lo = g[r].lo
        /\ \A r \in DOMAIN g : r # q => h[r] = g[r]
        /\ h[q].hi = m
        /\ h[n].lev = g[q].lev /\ h[n].lo = m /\ h[n].hi = g[q].hi
        /\ \A r \in DOMAIN g : Seen(h, q, n, r) = g[r].hi
    <2> HIDE DEF n
    <2>1. IsSplitBand(h, g, q, n, m)
      BY <1>2, SplitBandIs
    <2> QED  BY <2>1 DEF IsSplitBand
  <1>7. /\ \A r \in DOMAIN g : s[r].leaf = t[r].leaf /\ s[r].parent = t[r].parent
        /\ \A r \in DOMAIN g : ~t[r].leaf => s[r] = t[r]
    <2> HIDE DEF s
    <2> SUFFICES ASSUME NEW r \in DOMAIN g
                 PROVE  /\ s[r].leaf = t[r].leaf /\ s[r].parent = t[r].parent
                        /\ ~t[r].leaf => s[r] = t[r]
      OBVIOUS
    <2>1. CASE r = q
      BY <1>5, <2>1
    <2>2. CASE r # q
      BY <1>5, <2>2
    <2> QED  BY <2>1, <2>2
  <1> HIDE DEF n, t1, s, h
  <1>8. /\ g[q].lev = 0 /\ g[q].hi <= Supremum /\ Supremum \in Nat /\ g[q].hi \in Nat
        /\ g[q].lo \in Nat
    BY WholeIs, SupremumIs DEF FitsBand, Band
  <1>9. ASSUME NEW r \in DOMAIN h PROVE InPlace(s, top, h, q, n, r)
    <2>1. r \in DOMAIN g => /\ FitsBand(t[r], g[r])
                            /\ PointsDown(t, top, g, Invalid, Invalid, r)
                            /\ PointsUp(t, top, g, Invalid, r)
                            /\ PointsRight(t, g, r)
                            /\ r # Invalid
      BY WholeIs
    <2>2. FitsBand(s[r], h[r])
      <3>1. CASE r = n
        <4>1. h[n].lo < h[n].hi /\ h[n].hi <= Supremum /\ h[n].lev = 0
          BY <1>6, <1>8
        <4> QED  BY <1>4, <1>6, <3>1, <4>1 DEF FitsBand
      <3>2. CASE r = q
        <4>1. h[q].lo < h[q].hi /\ h[q].hi <= Supremum /\ h[q].lev = 0 /\ h[q].lo = g[q].lo
          BY <1>6, <1>8
        <4> QED  BY <1>5, <1>6, <3>2, <4>1 DEF FitsBand
      <3>3. CASE r # n /\ r # q
        BY <1>5, <1>6, <2>1, <3>3
      <3> QED  BY <3>1, <3>2, <3>3
    <2>3. PointsDown(s, top, h, q, n, r)
      <3> SUFFICES ASSUME ~s[r].leaf, NEW i \in Used(s[r])
                   PROVE  IsChild(s, top, h, q, n, r, i, s[r].slot[i].val)
        BY DEF PointsDown
      <3>1. r \in DOMAIN g /\ r # q /\ s[r] = t[r] /\ h[r] = g[r]
        BY <1>4, <1>5, <1>6
      <3> DEFINE c == s[r].slot[i].val
      <3>2. IsChild(t, top, g, Invalid, Invalid, r, i, c)
        BY <2>1, <3>1 DEF PointsDown
      <3> HIDE DEF c
      <3>3. c \in DOMAIN g /\ c # top /\ c # n /\ c # Invalid
        BY <1>2, <3>2, WholeIs DEF IsChild
      <3>4. Seen(g, Invalid, Invalid, c) = g[c].hi
        BY <3>3 DEF Seen
      <3>5. IsChild(s, top, h, q, n, r, i, c)
        BY <1>6, <1>7, <3>1, <3>2, <3>3, <3>4 DEF IsChild
      <3> QED  BY <3>5 DEF c
    <2>4. PointsUp(s, top, h, n, r)
      <3> SUFFICES ASSUME r # top, r # n
                   PROVE  /\ h[r].lev < h[top].lev
                          /\ s[r].parent \in DOMAIN h /\ ~s[s[r].parent].leaf
                          /\ \E i \in Used(s[s[r].parent]) : s[s[r].parent].slot[i].val = r
        BY DEF PointsUp
      <3>1. r \in DOMAIN g
        BY <1>6
      <3> QED  BY <1>1, <1>6, <1>7, <2>1, <3>1 DEF PointsUp
    <2>5. PointsRight(s, h, r)
      <3>1. CASE r = n
        <4>1. PointsRight(t, g, q)
          BY WholeIs
        <4> QED  BY <1>4, <1>6, <1>7, <3>1, <4>1 DEF PointsRight
      <3>2. CASE r = q
        <4>1. h[q].hi # Supremum
          BY <1>6, <1>8
        <4> QED  BY <1>4, <1>5, <1>6, <3>2, <4>1 DEF PointsRight, n
      <3>3. CASE r # n /\ r # q
        BY <1>5, <1>6, <1>7, <2>1, <3>3 DEF PointsRight
      <3> QED  BY <3>1, <3>2, <3>3
    <2> QED  BY <1>6, <2>2, <2>3, <2>4, <2>5 DEF InPlace
  <1>10. Divided(s, top, h, q, n)
    <2>1. n # q /\ n # top
      BY <1>1, <1>2
    <2> QED  BY <1>4, <1>5, <1>6, <2>1 DEF Divided
  <1>11. /\ DOMAIN h \subseteq DOMAIN s /\ top \in DOMAIN h
         /\ s[top].parent = Invalid /\ h[top].lo = 0 /\ Seen(h, q, n, top) = Supremum
    BY <1>1, <1>4, <1>6, <1>7
  <1>12. Shape(s, top, h, q, n)
    BY <1>4, <1>9, <1>10, <1>11 DEF Shape
  <1> QED  BY <1>12 DEF s, t1, h, n
-----------------------------------------------------------------------------
(* The children of an internal page, each with the range of its keys. *)

Kid(p, b, i) == [val |-> p.slot[i].val, lo |-> From(p, b, i), hi |-> UpTo(p, b, i)]
Kids(p, b) == {Kid(p, b, i) : i \in Used(p)}

LEMMA InternalIs ==
    ASSUME NEW p \in Page(Vals), NEW b \in Band, FitsBand(p, b), ~p.leaf
    PROVE  /\ b.lo \in Nat /\ b.hi \in Nat /\ b.lo < b.hi /\ b.hi <= Supremum
           /\ b.lev \in Nat /\ b.lev # 0
           /\ p.size \in Nat /\ p.size >= 1 /\ p.size <= MaxSlot + 1 /\ MaxSlot \in Nat
           /\ Supremum \in Nat
           /\ \A i \in 1 .. p.size - 1 : /\ p.slot[i].key \in Int
                                         /\ b.lo < p.slot[i].key /\ p.slot[i].key < b.hi
           /\ \A i, j \in 1 .. p.size - 1 : i < j => p.slot[i].key < p.slot[j].key
  <1>1. b.lo \in Nat /\ b.hi \in Nat /\ b.lev \in Nat /\ Supremum \in Nat
    BY SupremumIs DEF Band
  <1>2. p.size \in Nat /\ p.size <= MaxSlot + 1 /\ MaxSlot \in Nat
        /\ \A i \in Used(p) : p.slot[i].key \in Int
    BY PageType
  <1>3. \A i \in 1 .. p.size - 1 : i \in Used(p)
    BY <1>2 DEF Used
  <1> QED  BY <1>1, <1>2, <1>3 DEF FitsBand, Separated

LEMMA KidRanges ==
    ASSUME NEW p \in Page(Vals), NEW b \in Band, FitsBand(p, b), ~p.leaf
    PROVE  /\ \A i \in Used(p) : /\ From(p, b, i) \in Nat /\ UpTo(p, b, i) \in Nat
                                 /\ b.lo <= From(p, b, i) /\ From(p, b, i) < UpTo(p, b, i)
                                 /\ UpTo(p, b, i) <= b.hi
           /\ \A i, j \in Used(p) : i < j => UpTo(p, b, i) <= From(p, b, j)
  <1> DEFINE n == p.size
  <1>1. /\ b.lo \in Nat /\ b.hi \in Nat /\ b.lo < b.hi /\ n \in Nat
        /\ \A i \in 1 .. n - 1 : /\ p.slot[i].key \in Int
                                 /\ b.lo < p.slot[i].key /\ p.slot[i].key < b.hi
        /\ \A i, j \in 1 .. n - 1 : i < j => p.slot[i].key < p.slot[j].key
    BY InternalIs
  <1> HIDE DEF n
  <1>2. Used(p) = 0 .. n - 1
    BY DEF Used, n
  <1>3. \A i : From(p, b, i) = IF i = 0 THEN b.lo ELSE p.slot[i].key
    BY DEF From
  <1>4. \A i : UpTo(p, b, i) = IF i + 1 < n THEN p.slot[i + 1].key ELSE b.hi
    BY DEF UpTo, n
  <1>5. ASSUME NEW i \in Used(p)
        PROVE  /\ From(p, b, i) \in Nat /\ UpTo(p, b, i) \in Nat
               /\ b.lo <= From(p, b, i) /\ From(p, b, i) < UpTo(p, b, i)
               /\ UpTo(p, b, i) <= b.hi
    <2>1. i \in Nat /\ i < n /\ (i # 0 => i \in 1 .. n - 1) /\ (i + 1 < n => i + 1 \in 1 .. n - 1)
      BY <1>1, <1>2
    <2>2. i < i + 1
      BY <2>1
    <2> QED  BY <1>1, <1>3, <1>4, <2>1, <2>2
  <1>6. ASSUME NEW i \in Used(p), NEW j \in Used(p), i < j
        PROVE  UpTo(p, b, i) <= From(p, b, j)
    <2>1. i \in Nat /\ j \in 1 .. n - 1 /\ i + 1 \in 1 .. n - 1 /\ j # 0 /\ i + 1 < n
          /\ (i + 1 < j \/ i + 1 = j)
      BY <1>1, <1>2, <1>6
    <2> QED  BY <1>1, <1>3, <1>4, <2>1
  <1> QED  BY <1>5, <1>6

\* Where the children that keep their ranges are told by the range of one.
LEMMA KidsBut ==
    ASSUME NEW p \in Page(Vals), NEW b \in Band, FitsBand(p, b), ~p.leaf, NEW i \in Used(p)
    PROVE  {Kid(p, b, j) : j \in Used(p) \ {i}} = {k \in Kids(p, b) : k.lo # From(p, b, i)}
  <1>1. ASSUME NEW j \in Used(p), j # i PROVE From(p, b, j) # From(p, b, i)
    <2>1. i \in Nat /\ j \in Nat
      BY PageType
    <2>2. i < j \/ j < i
      BY <1>1, <2>1
    <2>3. \A x \in Used(p) : From(p, b, x) \in Nat /\ UpTo(p, b, x) \in Nat /\ From(p, b, x) < UpTo(p, b, x)
      BY KidRanges
    <2>4. \A x, y \in Used(p) : x < y => UpTo(p, b, x) <= From(p, b, y)
      BY KidRanges
    <2> QED  BY <2>2, <2>3, <2>4
  <1>2. \A j : Kid(p, b, j).lo = From(p, b, j)
    BY DEF Kid
  <1> QED  BY <1>1, <1>2 DEF Kids

\* p2 is page p with child c, from key m on, behind child i.
KidPut(p2, p, b, i, m, c) ==
    /\ p2 \in Page(Vals) /\ SameHeader(p, p2) /\ p2.size = p.size + 1 /\ FitsBand(p2, b)
    /\ Kids(p2, b) = {k \in Kids(p, b) : k.lo # From(p, b, i)}
                        \cup {[val |-> p.slot[i].val, lo |-> From(p, b, i), hi |-> m],
                              [val |-> c, lo |-> m, hi |-> UpTo(p, b, i)]}

LEMMA KidPutIs ==
    ASSUME NEW p \in Page(Vals), NEW b \in Band, FitsBand(p, b), ~p.leaf, p.size <= MaxSlot,
           NEW i \in Used(p), NEW m \in Nat, NEW c \in Int,
           From(p, b, i) < m, m < UpTo(p, b, i)
    PROVE  KidPut(PutAt(p, i + 1, Slot(m, c)), p, b, i, m, c)
  <1> DEFINE s == Slot(m, c)
             q == PutAt(p, i + 1, s)
             n == p.size
             Old(j) == From(p, b, j)
             Up(j) == UpTo(p, b, j)
  <1>1. /\ b.lo \in Nat /\ b.hi \in Nat /\ n \in Nat /\ n >= 1
        /\ \A j \in 1 .. n - 1 : /\ p.slot[j].key \in Int
                                 /\ b.lo < p.slot[j].key /\ p.slot[j].key < b.hi
        /\ \A j, l \in 1 .. n - 1 : j < l => p.slot[j].key < p.slot[l].key
    BY InternalIs
  <1>2. i \in Nat /\ i < n /\ i + 1 \in 0 .. n
    BY <1>1 DEF Used
  <1>3. s \in Entry(Vals) /\ s.key = m /\ s.val = c
    BY DEF Slot, Entry, Vals
  <1>4. /\ q \in Page(Vals) /\ SameHeader(p, q) /\ q.size = n + 1
        /\ \A j \in 0 .. n : q.slot[j] = IF j < i + 1 THEN p.slot[j]
                                         ELSE IF j = i + 1 THEN s ELSE p.slot[j - 1]
    <2> HIDE DEF s
    <2> QED  BY <1>2, <1>3, PutAtIs
  <1>5. /\ \A j \in Used(p) : /\ Old(j) \in Nat /\ Up(j) \in Nat
                              /\ b.lo <= Old(j) /\ Old(j) < Up(j) /\ Up(j) <= b.hi
        /\ \A j, l \in Used(p) : j < l => Up(j) <= Old(l)
    BY KidRanges
  <1> HIDE DEF s, q
  <1>6. /\ \A j \in 0 .. i : q.slot[j] = p.slot[j]
        /\ q.slot[i + 1] = s
        /\ \A j \in i + 2 .. n : q.slot[j] = p.slot[j - 1] /\ j - 1 \in i + 1 .. n - 1
    BY <1>1, <1>2, <1>4
  <1>7. /\ \A j \in 1 .. i : p.slot[j].key < m
        /\ \A j \in i + 1 .. n - 1 : m < p.slot[j].key
    <2>1. ASSUME NEW j \in 1 .. i PROVE p.slot[j].key < m
      <3>1. j \in Used(p) /\ Old(j) = p.slot[j].key /\ j <= i
        BY <1>1, <1>2 DEF Used, From
      <3>2. j = i \/ (j < i /\ Old(j) < Up(j) /\ Up(j) <= Old(i))
        BY <1>2, <1>5, <3>1
      <3>3. Old(j) \in Nat /\ Old(i) \in Nat /\ Up(j) \in Nat
        BY <1>5, <3>1
      <3>4. Old(i) < m
        OBVIOUS
      <3> HIDE DEF Old, Up
      <3>5. Old(j) < m
        BY ONLY <3>2, <3>3, <3>4, m \in Nat
      <3> QED  BY <3>1, <3>5
    <2>2. ASSUME NEW j \in i + 1 .. n - 1 PROVE m < p.slot[j].key
      <3>1. j \in Used(p) /\ Old(j) = p.slot[j].key /\ i < j
        BY <1>1, <1>2 DEF Used, From
      <3>2. Up(i) <= Old(j) /\ Up(i) \in Nat /\ Old(j) \in Nat /\ m < Up(i)
        BY <1>5, <3>1
      <3> HIDE DEF Old, Up
      <3>3. m < Old(j)
        BY ONLY <3>2, m \in Nat
      <3> QED  BY <3>1, <3>3
    <2> QED  BY <2>1, <2>2
  <1>8. \A j \in 1 .. n : b.lo < q.slot[j].key /\ q.slot[j].key < b.hi
    <2> SUFFICES ASSUME NEW j \in 1 .. n PROVE b.lo < q.slot[j].key /\ q.slot[j].key < b.hi
      OBVIOUS
    <2>1. CASE j <= i
      <3>1. j \in 0 .. i /\ j \in 1 .. n - 1
        BY <1>1, <1>2, <2>1
      <3> QED  BY <1>1, <1>6, <3>1
    <2>2. CASE j = i + 1
      <3>1. b.lo <= Old(i) /\ Old(i) < m /\ m < Up(i) /\ Up(i) <= b.hi /\ Old(i) \in Nat /\ Up(i) \in Nat
        BY <1>5
      <3>2. b.lo < m /\ m < b.hi
        <4> HIDE DEF Old, Up
        <4> QED  BY <1>1, <3>1
      <3> QED  BY <1>3, <1>6, <2>2, <3>2
    <2>3. CASE j > i + 1
      <3>1. j \in i + 2 .. n /\ j - 1 \in 1 .. n - 1
        BY <1>1, <1>2, <2>3
      <3> QED  BY <1>1, <1>6, <3>1
    <2> QED  BY <1>2, <2>1, <2>2, <2>3
  <1>9. \A j, l \in 1 .. n : j < l => q.slot[j].key < q.slot[l].key
    <2> SUFFICES ASSUME NEW j \in 1 .. n, NEW l \in 1 .. n, j < l
                 PROVE  q.slot[j].key < q.slot[l].key
      OBVIOUS
    <2>1. CASE l <= i
      <3>1. j \in 0 .. i /\ j \in 1 .. n - 1 /\ l \in 0 .. i /\ l \in 1 .. n - 1
        BY <1>1, <1>2, <2>1
      <3> QED  BY <1>1, <1>6, <3>1
    <2>2. CASE l = i + 1
      <3>1. j \in 0 .. i /\ j \in 1 .. i
        BY <1>1, <1>2, <2>2
      <3> QED  BY <1>3, <1>6, <1>7, <2>2, <3>1
    <2>3. CASE l > i + 1 /\ j <= i
      <3>1. j \in 0 .. i /\ j \in 1 .. n - 1 /\ l \in i + 2 .. n /\ l - 1 \in 1 .. n - 1 /\ j < l - 1
        BY <1>1, <1>2, <2>3
      <3> QED  BY <1>1, <1>6, <3>1
    <2>4. CASE l > i + 1 /\ j = i + 1
      <3>1. l \in i + 2 .. n /\ l - 1 \in i + 1 .. n - 1
        BY <1>1, <1>2, <2>4
      <3> QED  BY <1>3, <1>6, <1>7, <2>4, <3>1
    <2>5. CASE l > i + 1 /\ j > i + 1
      <3>1. /\ l \in i + 2 .. n /\ l - 1 \in 1 .. n - 1
            /\ j \in i + 2 .. n /\ j - 1 \in 1 .. n - 1 /\ j - 1 < l - 1
        BY <1>1, <1>2, <2>5
      <3> QED  BY <1>1, <1>6, <3>1
    <2> QED  BY <1>2, <2>1, <2>2, <2>3, <2>4, <2>5
  <1>10. FitsBand(q, b)
    <2>1. (n + 1) - 1 = n /\ n + 1 >= 1
      BY <1>1
    <2>2. Separated(q)
      BY <1>4, <1>9, <2>1 DEF Separated
    <2> QED  BY <1>4, <1>8, <2>1, <2>2 DEF FitsBand, SameHeader
  <1>11. Used(q) = 0 .. n
    BY <1>1, <1>4 DEF Used
  <1> DEFINE A == [val |-> p.slot[i].val, lo |-> Old(i), hi |-> m]
             B == [val |-> c, lo |-> m, hi |-> Up(i)]
  <1>12. \A j \in 0 .. i - 1 : Kid(q, b, j) = Kid(p, b, j)
    <2> SUFFICES ASSUME NEW j \in 0 .. i - 1 PROVE Kid(q, b, j) = Kid(p, b, j)
      OBVIOUS
    <2>1. j \in 0 .. i /\ j + 1 \in 0 .. i /\ j + 1 < n /\ j + 1 < n + 1
      BY <1>2, <1>1
    <2> QED  BY <1>4, <1>6, <2>1 DEF Kid, From, UpTo
  <1>13. Kid(q, b, i) = A
    <2>1. i \in 0 .. i /\ i + 1 < n + 1
      BY <1>1, <1>2
    <2> QED  BY <1>3, <1>4, <1>6, <2>1 DEF Kid, From, UpTo
  <1>14. Kid(q, b, i + 1) = B
    <2>1. i + 1 # 0 /\ ((i + 1) + 1 < n + 1 <=> i + 1 < n)
          /\ ((i + 1) + 1 < n + 1 => (i + 1) + 1 \in i + 2 .. n) /\ ((i + 1) + 1) - 1 = i + 1
      BY <1>1, <1>2
    <2>2. From(q, b, i + 1) = m
      BY <1>3, <1>6, <2>1 DEF From
    <2>3. UpTo(q, b, i + 1) = Up(i)
      BY <1>4, <1>6, <2>1 DEF UpTo
    <2> QED  BY <1>3, <1>6, <2>2, <2>3 DEF Kid
  <1>15. \A j \in i + 2 .. n : j - 1 \in Used(p) \ {i} /\ Kid(q, b, j) = Kid(p, b, j - 1)
    <2> SUFFICES ASSUME NEW j \in i + 2 .. n
                 PROVE  j - 1 \in Used(p) \ {i} /\ Kid(q, b, j) = Kid(p, b, j - 1)
      OBVIOUS
    <2>1. /\ j - 1 \in 0 .. n - 1 /\ j - 1 # i /\ j # 0 /\ j - 1 # 0
          /\ (j + 1 < n + 1 <=> (j - 1) + 1 < n)
          /\ (j + 1 < n + 1 => j + 1 \in i + 2 .. n) /\ (j + 1) - 1 = (j - 1) + 1
      BY <1>1, <1>2
    <2>2. q.slot[j] = p.slot[j - 1]
      BY <1>6
    <2>3. From(q, b, j) = From(p, b, j - 1)
      BY <2>1, <2>2 DEF From
    <2>4. UpTo(q, b, j) = UpTo(p, b, j - 1)
      BY <1>4, <1>6, <2>1 DEF UpTo
    <2> QED  BY <2>1, <2>2, <2>3, <2>4 DEF Kid, Used
  <1>16. Kids(q, b) = {Kid(p, b, j) : j \in Used(p) \ {i}} \cup {A, B}
    <2> HIDE DEF A, B, n
    <2>1. ASSUME NEW j \in Used(q)
          PROVE  Kid(q, b, j) \in {Kid(p, b, l) : l \in Used(p) \ {i}} \cup {A, B}
      <3>1. j \in 0 .. i - 1 \/ j = i \/ j = i + 1 \/ j \in i + 2 .. n
        BY <1>1, <1>2, <1>11
      <3>2. j \in 0 .. i - 1 => j \in Used(p) \ {i}
        BY <1>1, <1>2 DEF Used, n
      <3> QED  BY <1>12, <1>13, <1>14, <1>15, <3>1, <3>2
    <2>2. ASSUME NEW j \in Used(p), j # i PROVE \E l \in Used(q) : Kid(q, b, l) = Kid(p, b, j)
      <3>1. j \in 0 .. i - 1 \/ j + 1 \in i + 2 .. n
        BY <1>1, <1>2, <2>2 DEF Used, n
      <3>2. CASE j \in 0 .. i - 1
        <4>1. j \in Used(q)
          BY <1>1, <1>2, <1>11, <3>2
        <4> QED  BY <1>12, <3>2, <4>1
      <3>3. CASE j + 1 \in i + 2 .. n
        <4>0. j \in Nat
          BY PageType
        <4>1. j + 1 \in Used(q) /\ (j + 1) - 1 = j
          BY <1>1, <1>2, <1>11, <3>3, <4>0
        <4> QED  BY <1>15, <3>3, <4>1
      <3> QED  BY <3>1, <3>2, <3>3
    <2>3. i \in Used(q) /\ i + 1 \in Used(q)
      BY <1>1, <1>2, <1>11
    <2> QED  BY <1>13, <1>14, <2>1, <2>2, <2>3 DEF Kids
  <1>17. Kids(q, b) = {k \in Kids(p, b) : k.lo # From(p, b, i)} \cup {A, B}
    <2> HIDE DEF A, B
    <2> QED  BY <1>16, KidsBut
  <1> QED  BY <1>4, <1>10, <1>17 DEF q, s, KidPut

\* p2 is page p without child i + 1, whose range child i has taken over.
KidDropped(p2, p, b, i) ==
    /\ p2 \in Page(Vals) /\ SameHeader(p, p2) /\ p2.size = p.size - 1 /\ FitsBand(p2, b)
    /\ Kids(p2, b) = {k \in Kids(p, b) : k.lo # From(p, b, i) /\ k.lo # From(p, b, i + 1)}
                        \cup {[val |-> p.slot[i].val, lo |-> From(p, b, i),
                               hi |-> UpTo(p, b, i + 1)]}

LEMMA KidDroppedIs ==
    ASSUME NEW p \in Page(Vals), NEW b \in Band, FitsBand(p, b), ~p.leaf,
           NEW i \in Used(p), i + 1 \in Used(p)
    PROVE  KidDropped(DropAt(p, i + 1), p, b, i)
  <1> DEFINE q == DropAt(p, i + 1)
             n == p.size
  <1>1. /\ b.lo \in Nat /\ b.hi \in Nat /\ n \in Nat /\ n >= 1
        /\ \A j \in 1 .. n - 1 : /\ p.slot[j].key \in Int
                                 /\ b.lo < p.slot[j].key /\ p.slot[j].key < b.hi
        /\ \A j, l \in 1 .. n - 1 : j < l => p.slot[j].key < p.slot[l].key
    BY InternalIs
  <1>2. i \in Nat /\ i + 1 < n /\ n - 1 >= 1 /\ n - 1 \in Nat
    BY <1>1 DEF Used
  <1>3. /\ q \in Page(Vals) /\ SameHeader(p, q) /\ q.size = n - 1
        /\ \A j \in Used(q) : q.slot[j] = IF j < i + 1 THEN p.slot[j] ELSE p.slot[j + 1]
    BY DropAtIs
  <1> HIDE DEF q
  <1>4. Used(q) = 0 .. n - 2 /\ Used(p) = 0 .. n - 1
    BY <1>1, <1>3 DEF Used
  <1>5. /\ \A j \in 0 .. i : q.slot[j] = p.slot[j]
        /\ \A j \in i + 1 .. n - 2 : q.slot[j] = p.slot[j + 1]
    BY <1>1, <1>2, <1>3, <1>4
  <1>6. \A j \in 1 .. n - 2 : b.lo < q.slot[j].key /\ q.slot[j].key < b.hi
    <2> SUFFICES ASSUME NEW j \in 1 .. n - 2 PROVE b.lo < q.slot[j].key /\ q.slot[j].key < b.hi
      OBVIOUS
    <2>1. (j \in 0 .. i \/ j \in i + 1 .. n - 2) /\ j \in 1 .. n - 1 /\ j + 1 \in 1 .. n - 1
      BY <1>1, <1>2
    <2> QED  BY <1>1, <1>5, <2>1
  <1>7. \A j, l \in 1 .. n - 2 : j < l => q.slot[j].key < q.slot[l].key
    <2> SUFFICES ASSUME NEW j \in 1 .. n - 2, NEW l \in 1 .. n - 2, j < l
                 PROVE  q.slot[j].key < q.slot[l].key
      OBVIOUS
    <2>1. /\ j \in 1 .. n - 1 /\ j + 1 \in 1 .. n - 1 /\ l \in 1 .. n - 1 /\ l + 1 \in 1 .. n - 1
          /\ j < l + 1 /\ j + 1 < l + 1
          /\ \/ l \in 0 .. i /\ j \in 0 .. i
             \/ l \in i + 1 .. n - 2 /\ j \in 0 .. i
             \/ l \in i + 1 .. n - 2 /\ j \in i + 1 .. n - 2
      BY <1>1, <1>2
    <2> QED  BY <1>1, <1>5, <2>1
  <1>8. FitsBand(q, b)
    <2>1. (n - 1) - 1 = n - 2
      BY <1>1
    <2>2. Separated(q)
      BY <1>3, <1>7, <2>1 DEF Separated
    <2> QED  BY <1>2, <1>3, <1>6, <2>1, <2>2 DEF FitsBand, SameHeader
  <1> DEFINE A == [val |-> p.slot[i].val, lo |-> From(p, b, i), hi |-> UpTo(p, b, i + 1)]
  <1>9. \A j \in 0 .. i - 1 : Kid(q, b, j) = Kid(p, b, j)
    <2> SUFFICES ASSUME NEW j \in 0 .. i - 1 PROVE Kid(q, b, j) = Kid(p, b, j)
      OBVIOUS
    <2>1. j \in 0 .. i /\ j + 1 \in 0 .. i /\ j + 1 < n /\ j + 1 < n - 1
      BY <1>2, <1>1
    <2> QED  BY <1>3, <1>5, <2>1 DEF Kid, From, UpTo
  <1>10. Kid(q, b, i) = A
    <2>1. i \in 0 .. i /\ (i + 1 < n - 1 <=> (i + 1) + 1 < n) /\ (i + 1 < n - 1 => i + 1 \in i + 1 .. n - 2)
      BY <1>1, <1>2
    <2>2. UpTo(q, b, i) = UpTo(p, b, i + 1)
      BY <1>3, <1>5, <2>1 DEF UpTo
    <2> QED  BY <1>5, <2>1, <2>2 DEF Kid, From
  <1>11. \A j \in i + 1 .. n - 2 : Kid(q, b, j) = Kid(p, b, j + 1)
    <2> SUFFICES ASSUME NEW j \in i + 1 .. n - 2 PROVE Kid(q, b, j) = Kid(p, b, j + 1)
      OBVIOUS
    <2>1. /\ j # 0 /\ j + 1 # 0
          /\ (j + 1 < n - 1 <=> (j + 1) + 1 < n)
          /\ (j + 1 < n - 1 => j + 1 \in i + 1 .. n - 2)
      BY <1>1, <1>2
    <2>2. q.slot[j] = p.slot[j + 1]
      BY <1>5
    <2>3. From(q, b, j) = From(p, b, j + 1)
      BY <2>1, <2>2 DEF From
    <2>4. UpTo(q, b, j) = UpTo(p, b, j + 1)
      BY <1>3, <1>5, <2>1 DEF UpTo
    <2> QED  BY <2>2, <2>3, <2>4 DEF Kid
  <1>12. Kids(q, b) = {Kid(p, b, j) : j \in (Used(p) \ {i}) \ {i + 1}} \cup {A}
    <2> HIDE DEF A
    <2>1. ASSUME NEW j \in Used(q)
          PROVE  Kid(q, b, j) \in {Kid(p, b, l) : l \in (Used(p) \ {i}) \ {i + 1}} \cup {A}
      <3>1. \/ j \in 0 .. i - 1 /\ j \in (Used(p) \ {i}) \ {i + 1}
            \/ j = i
            \/ j \in i + 1 .. n - 2 /\ j + 1 \in (Used(p) \ {i}) \ {i + 1}
        BY <1>1, <1>2, <1>4
      <3> QED  BY <1>9, <1>10, <1>11, <3>1
    <2>2. ASSUME NEW j \in Used(p), j # i, j # i + 1
          PROVE \E l \in Used(q) : Kid(q, b, l) = Kid(p, b, j)
      <3>1. \/ j \in 0 .. i - 1 /\ j \in Used(q)
            \/ j - 1 \in i + 1 .. n - 2 /\ j - 1 \in Used(q) /\ (j - 1) + 1 = j
        BY <1>1, <1>2, <1>4, <2>2
      <3>2. CASE j \in 0 .. i - 1 /\ j \in Used(q)
        BY <1>9, <3>2
      <3>3. CASE j - 1 \in i + 1 .. n - 2 /\ j - 1 \in Used(q) /\ (j - 1) + 1 = j
        BY <1>11, <3>3
      <3> QED  BY <3>1, <3>2, <3>3
    <2>3. i \in Used(q)
      BY <1>1, <1>2, <1>4
    <2> QED  BY <1>10, <2>1, <2>2, <2>3 DEF Kids
  <1>13. Kids(q, b) = {k \in Kids(p, b) : k.lo # From(p, b, i) /\ k.lo # From(p, b, i + 1)} \cup {A}
    <2> HIDE DEF A
    <2> DEFINE ii == i + 1
    <2>1. ii \in Used(p)
      OBVIOUS
    <2> HIDE DEF ii
    <2>2. /\ {Kid(p, b, j) : j \in Used(p) \ {i}} = {k \in Kids(p, b) : k.lo # From(p, b, i)}
          /\ {Kid(p, b, j) : j \in Used(p) \ {ii}} = {k \in Kids(p, b) : k.lo # From(p, b, ii)}
      BY <2>1, KidsBut
    <2>3. {Kid(p, b, j) : j \in (Used(p) \ {i}) \ {ii}} =
             {k \in Kids(p, b) : k.lo # From(p, b, i) /\ k.lo # From(p, b, ii)}
      <3>1. \A j : Kid(p, b, j).lo = From(p, b, j)
        BY DEF Kid
      <3>2. \A j \in Used(p) : j # i => From(p, b, j) # From(p, b, i)
        BY <2>2, <3>1
      <3>3. \A j \in Used(p) : j # ii => From(p, b, j) # From(p, b, ii)
        BY <2>2, <3>1
      <3> QED  BY <3>1, <3>2, <3>3 DEF Kids
    <2> QED  BY <1>12, <2>3 DEF ii
  <1> QED  BY <1>3, <1>8, <1>13 DEF q, KidDropped

\* p2 is page p with key m between its children i and i + 1.
KidRekeyed(p2, p, b, i, m) ==
    /\ p2 \in Page(Vals) /\ SameHeader(p, p2) /\ p2.size = p.size /\ FitsBand(p2, b)
    /\ Kids(p2, b) = {k \in Kids(p, b) : k.lo # From(p, b, i) /\ k.lo # From(p, b, i + 1)}
                        \cup {[val |-> p.slot[i].val, lo |-> From(p, b, i), hi |-> m],
                              [val |-> p.slot[i + 1].val, lo |-> m, hi |-> UpTo(p, b, i + 1)]}

\* p2 has the lower children of p and p3 the others, from key m on.
KidsShared(p2, p3, p, b, m) ==
    /\ p2 \in Page(Vals) /\ p3 \in Page(Vals) /\ m \in Nat /\ b.lo < m /\ m < b.hi
    /\ FitsBand(p2, [lev |-> b.lev, lo |-> b.lo, hi |-> m])
    /\ FitsBand(p3, [lev |-> b.lev, lo |-> m, hi |-> b.hi])
    /\ Kids(p2, [lev |-> b.lev, lo |-> b.lo, hi |-> m]) = {k \in Kids(p, b) : k.lo < m}
    /\ Kids(p3, [lev |-> b.lev, lo |-> m, hi |-> b.hi]) = {k \in Kids(p, b) : ~(k.lo < m)}

LEMMA KidsSharedIs ==
    ASSUME NEW p \in Page(Vals), NEW b \in Band, FitsBand(p, b), ~p.leaf,
           NEW new \in Page(Vals), ~new.leaf, new.max = internal_max_size,
           NEW mid \in Nat, NEW n \in Nat, mid + n = p.size, mid > 0, n > 0
    PROVE  KidsShared(LowerKids(p, mid), UpperKids(new, p, mid, n), p, b, p.slot[mid].key)
  <1> DEFINE low == LowerKids(p, mid)
             high == UpperKids(new, p, mid, n)
             m == p.slot[mid].key
             bl == [lev |-> b.lev, lo |-> b.lo, hi |-> m]
             bh == [lev |-> b.lev, lo |-> m, hi |-> b.hi]
  <1>1. /\ b.lo \in Nat /\ b.hi \in Nat /\ p.size \in Nat /\ b.hi <= Supremum /\ Supremum \in Nat
        /\ \A j \in 1 .. p.size - 1 : /\ p.slot[j].key \in Int
                                      /\ b.lo < p.slot[j].key /\ p.slot[j].key < b.hi
        /\ \A j, l \in 1 .. p.size - 1 : j < l => p.slot[j].key < p.slot[l].key
    BY InternalIs
  <1>2. mid \in 1 .. p.size - 1 /\ mid \in 0 .. p.size
    BY <1>1
  <1>3. m \in Nat /\ b.lo < m /\ m < b.hi
    BY <1>1, <1>2
  <1>4. low \in Page(Vals) /\ SameHeader(p, low) /\ low.size = mid /\ low.slot = p.slot
    BY <1>2, LowerIs
  <1>5. /\ high \in Page(Vals) /\ SameHeader(new, high) /\ high.size = n
        /\ high.slot[0].val = p.slot[mid].val
        /\ \A j \in 1 .. n - 1 : high.slot[j] = p.slot[mid + j]
    BY UpperIs
  <1>6. /\ ~low.leaf /\ low.max = internal_max_size /\ ~high.leaf /\ high.max = internal_max_size
        /\ b.lev # 0
    BY <1>4, <1>5 DEF SameHeader, FitsBand
  <1> HIDE DEF low, high, m
  <1>7. FitsBand(low, bl)
    <2>1. \A i \in 1 .. mid - 1 : i \in 1 .. p.size - 1 /\ i < mid
      BY <1>1, <1>2
    <2>2. Separated(low)
      BY <1>1, <1>4, <2>1 DEF Separated
    <2>3. \A i \in 1 .. mid - 1 : b.lo < p.slot[i].key /\ p.slot[i].key < m
      BY <1>1, <1>2, <2>1 DEF m
    <2>4. m <= Supremum
      BY <1>1, <1>3
    <2> QED  BY <1>3, <1>4, <1>6, <2>2, <2>3, <2>4 DEF FitsBand
  <1>8. FitsBand(high, bh)
    <2>1. \A i \in 1 .. n - 1 : mid + i \in 1 .. p.size - 1 /\ mid < mid + i
      BY <1>1, <1>2
    <2>2. Separated(high)
      <3> SUFFICES ASSUME NEW i \in 1 .. n - 1, NEW j \in 1 .. n - 1, i < j
                   PROVE  high.slot[i].key < high.slot[j].key
        BY <1>5 DEF Separated
      <3>1. mid + i < mid + j
        OBVIOUS
      <3> QED  BY <1>1, <1>5, <2>1, <3>1
    <2>3. \A i \in 1 .. n - 1 : m < high.slot[i].key /\ high.slot[i].key < b.hi
      <3> SUFFICES ASSUME NEW i \in 1 .. n - 1 PROVE m < high.slot[i].key /\ high.slot[i].key < b.hi
        OBVIOUS
      <3>1. high.slot[i] = p.slot[mid + i] /\ mid + i \in 1 .. p.size - 1 /\ mid < mid + i
        BY <1>5, <2>1
      <3> QED  BY <1>1, <1>2, <3>1 DEF m
    <2> QED  BY <1>1, <1>3, <1>5, <1>6, <2>2, <2>3 DEF FitsBand
  <1>9. Used(low) = 0 .. mid - 1 /\ Used(high) = 0 .. n - 1 /\ Used(p) = 0 .. p.size - 1
    BY <1>4, <1>5 DEF Used
  <1>10. \A j \in 0 .. mid - 1 : Kid(low, bl, j) = Kid(p, b, j)
    <2> SUFFICES ASSUME NEW j \in 0 .. mid - 1 PROVE Kid(low, bl, j) = Kid(p, b, j)
      OBVIOUS
    <2>1. j + 1 < p.size /\ (j + 1 < mid \/ j + 1 = mid)
      BY <1>1
    <2>2. From(low, bl, j) = From(p, b, j)
      BY <1>4 DEF From
    <2>3. UpTo(low, bl, j) = UpTo(p, b, j)
      BY <1>4, <2>1 DEF UpTo, m
    <2> QED  BY <1>4, <2>2, <2>3 DEF Kid
  <1>11. \A j \in 0 .. n - 1 : Kid(high, bh, j) = Kid(p, b, mid + j)
    <2> SUFFICES ASSUME NEW j \in 0 .. n - 1 PROVE Kid(high, bh, j) = Kid(p, b, mid + j)
      OBVIOUS
    <2>1. /\ (j + 1 < n <=> (mid + j) + 1 < p.size) /\ mid + (j + 1) = (mid + j) + 1
          /\ (j + 1 < n => j + 1 \in 1 .. n - 1) /\ (j # 0 => j \in 1 .. n - 1)
          /\ mid + j # 0 /\ mid + 0 = mid
      BY <1>1
    <2>2. From(high, bh, j) = From(p, b, mid + j)
      BY <1>5, <2>1 DEF From, m
    <2>3. UpTo(high, bh, j) = UpTo(p, b, mid + j)
      BY <1>5, <2>1 DEF UpTo
    <2>4. high.slot[j].val = p.slot[mid + j].val
      BY <1>5, <2>1
    <2> QED  BY <2>2, <2>3, <2>4 DEF Kid
  <1>12. \A j \in Used(p) : (Kid(p, b, j).lo < m) <=> j < mid
    <2> SUFFICES ASSUME NEW j \in Used(p) PROVE (From(p, b, j) < m) <=> j < mid
      BY DEF Kid
    <2>1. j \in Nat /\ (j # 0 => j \in 1 .. p.size - 1)
      BY <1>1, <1>9
    <2>2. CASE j = 0
      BY <1>3, <2>2 DEF From
    <2>3. CASE j # 0
      <3>1. From(p, b, j) = p.slot[j].key /\ j \in 1 .. p.size - 1
        BY <2>1, <2>3 DEF From
      <3>2. (j < mid => p.slot[j].key < m) /\ (mid < j => m < p.slot[j].key) /\ (j = mid => p.slot[j].key = m)
        BY <1>1, <1>2, <3>1 DEF m
      <3>3. p.slot[j].key \in Int
        BY <1>1, <3>1
      <3>4. (p.slot[j].key < m) <=> j < mid
        BY <1>3, <2>1, <3>2, <3>3
      <3> QED  BY <3>1, <3>4
    <2> QED  BY <2>2, <2>3
  <1> HIDE DEF bl, bh
  <1>13. Kids(low, bl) = {k \in Kids(p, b) : k.lo < m}
    <2>1. \A j \in Used(low) : j \in Used(p) /\ j < mid
      BY <1>1, <1>9
    <2>2. \A j \in Used(p) : j < mid => j \in Used(low)
      BY <1>1, <1>9
    <2> QED  BY <1>9, <1>10, <1>12, <2>1, <2>2 DEF Kids
  <1>14. Kids(high, bh) = {k \in Kids(p, b) : ~(k.lo < m)}
    <2>1. ASSUME NEW j \in Used(high) PROVE Kid(high, bh, j) \in {k \in Kids(p, b) : ~(k.lo < m)}
      <3>1. mid + j \in Used(p) /\ ~(mid + j < mid)
        BY <1>1, <1>9
      <3> QED  BY <1>9, <1>11, <1>12, <3>1 DEF Kids
    <2>2. ASSUME NEW j \in Used(p), ~(Kid(p, b, j).lo < m) PROVE Kid(p, b, j) \in Kids(high, bh)
      <3>1. ~(j < mid)
        BY <1>12, <2>2
      <3>2. j - mid \in 0 .. n - 1 /\ mid + (j - mid) = j
        BY <1>1, <1>9, <3>1
      <3>3. Kid(high, bh, j - mid) = Kid(p, b, j)
        BY <1>11, <3>2
      <3> QED  BY <1>9, <3>2, <3>3 DEF Kids
    <2> QED  BY <2>1, <2>2 DEF Kids
  <1> QED  BY <1>3, <1>4, <1>5, <1>7, <1>8, <1>13, <1>14 DEF KidsShared, low, high, bl, bh, m

LEMMA KidsDiffer ==
    ASSUME NEW p \in Page(Vals), NEW b \in Band, FitsBand(p, b), ~p.leaf,
           NEW k \in Kids(p, b), NEW l \in Kids(p, b), k.lo = l.lo
    PROVE  k = l
  <1>1. PICK i \in Used(p) : k = Kid(p, b, i)
    BY DEF Kids
  <1>2. PICK j \in Used(p) : l = Kid(p, b, j)
    BY DEF Kids
  <1>3. {Kid(p, b, x) : x \in Used(p) \ {i}} = {x \in Kids(p, b) : x.lo # From(p, b, i)}
    BY KidsBut
  <1>4. k.lo = From(p, b, i)
    BY <1>1 DEF Kid
  <1>5. j = i
    BY <1>2, <1>3, <1>4
  <1> QED  BY <1>1, <1>2, <1>5

IsKid(t, top, g, old, new, q, k) ==
    /\ k.val \in DOMAIN g /\ k.val # top /\ k.val # new
    /\ g[k.val].lev + 1 = g[q].lev /\ t[k.val].parent = q
    /\ g[k.val].lo = k.lo /\ Seen(g, old, new, k.val) = k.hi

\* InPlace, said of the set of children instead of their indices.
Placed(t, top, g, old, new, q) ==
    /\ g[q] \in Band /\ FitsBand(t[q], g[q])
    /\ ~t[q].leaf => \A k \in Kids(t[q], g[q]) : IsKid(t, top, g, old, new, q, k)
    /\ q # top /\ q # new => /\ g[q].lev < g[top].lev
                             /\ t[q].parent \in DOMAIN g /\ ~t[t[q].parent].leaf
                             /\ \E k \in Kids(t[t[q].parent], g[t[q].parent]) : k.val = q
    /\ PointsRight(t, g, q)

LEMMA PlacedIs ==
    ASSUME NEW t, NEW top, NEW g, NEW old, NEW new, NEW q
    PROVE  InPlace(t, top, g, old, new, q) <=> Placed(t, top, g, old, new, q)
  <1>2. ASSUME NEW i
        PROVE  IsChild(t, top, g, old, new, q, i, t[q].slot[i].val)
                  <=> IsKid(t, top, g, old, new, q, Kid(t[q], g[q], i))
    <2> DEFINE k == Kid(t[q], g[q], i)
    <2>1. /\ k.val = t[q].slot[i].val /\ k.lo = From(t[q], g[q], i)
          /\ k.hi = UpTo(t[q], g[q], i)
      BY DEF Kid
    <2> HIDE DEF k
    <2>2. IsChild(t, top, g, old, new, q, i, k.val) <=> IsKid(t, top, g, old, new, q, k)
      BY <2>1 DEF IsChild, IsKid
    <2> QED  BY <2>1, <2>2 DEF k
  <1>3. (\A i \in Used(t[q]) : IsChild(t, top, g, old, new, q, i, t[q].slot[i].val))
           <=> \A k \in Kids(t[q], g[q]) : IsKid(t, top, g, old, new, q, k)
    BY <1>2 DEF Kids
  <1>4. PointsDown(t, top, g, old, new, q) <=>
           (~t[q].leaf => \A k \in Kids(t[q], g[q]) : IsKid(t, top, g, old, new, q, k))
    BY <1>3 DEF PointsDown
  <1>5. PointsUp(t, top, g, new, q) <=>
           (q # top /\ q # new => /\ g[q].lev < g[top].lev
                                  /\ t[q].parent \in DOMAIN g /\ ~t[t[q].parent].leaf
                                  /\ \E k \in Kids(t[t[q].parent], g[t[q].parent]) : k.val = q)
    <2> DEFINE P == t[q].parent
    <2>1. (\E i \in Used(t[P]) : t[P].slot[i].val = q) <=> \E k \in Kids(t[P], g[P]) : k.val = q
      <3> HIDE DEF P
      <3>1. \A i : Kid(t[P], g[P], i).val = t[P].slot[i].val
        BY DEF Kid
      <3> QED  BY <3>1 DEF Kids
    <2> QED  BY <2>1 DEF PointsUp
  <1> QED  BY <1>4, <1>5 DEF InPlace, Placed

LEMMA ShapeIs ==
    ASSUME NEW t, NEW top, NEW g, NEW old, NEW new, Shape(t, top, g, old, new)
    PROVE  /\ t \in Pages /\ DOMAIN g \subseteq DOMAIN t /\ top \in DOMAIN g
           /\ t[top].parent = Invalid /\ g[top].lo = 0 /\ Seen(g, old, new, top) = Supremum
           /\ Divided(t, top, g, old, new)
           /\ \A q \in DOMAIN g : /\ t[q] \in Page(Vals) /\ q \in Int /\ q # Invalid /\ q \in DOMAIN t
                                  /\ g[q] \in Band /\ FitsBand(t[q], g[q])
                                  /\ Placed(t, top, g, old, new, q)
  <1>1. /\ t \in Pages /\ DOMAIN g \subseteq DOMAIN t /\ top \in DOMAIN g
        /\ t[top].parent = Invalid /\ g[top].lo = 0 /\ Seen(g, old, new, top) = Supremum
        /\ Divided(t, top, g, old, new)
        /\ \A q \in DOMAIN g : InPlace(t, top, g, old, new, q)
    BY DEF Shape
  <1>2. \A q \in DOMAIN g : /\ t[q] \in Page(Vals) /\ q \in Int /\ q # Invalid /\ q \in DOMAIN t
    BY <1>1, PagesAre
  <1>3. \A q \in DOMAIN g : Placed(t, top, g, old, new, q)
    BY <1>1, PlacedIs
  <1>4. \A q \in DOMAIN g : g[q] \in Band /\ FitsBand(t[q], g[q])
    BY <1>3 DEF Placed
  <1> QED  BY <1>1, <1>2, <1>3, <1>4

LEMMA ShapeFrom ==
    ASSUME NEW t, NEW top, NEW g, NEW old, NEW new,
           t \in Pages, DOMAIN g \subseteq DOMAIN t, top \in DOMAIN g,
           t[top].parent = Invalid, g[top].lo = 0, Seen(g, old, new, top) = Supremum,
           Divided(t, top, g, old, new),
           \A q \in DOMAIN g : Placed(t, top, g, old, new, q)
    PROVE  Shape(t, top, g, old, new)
  BY PlacedIs DEF Shape

\* The parent of a page that has been split learns of the new page.
LEMMA ChildAdded ==
    ASSUME NEW t, NEW top, NEW g, NEW old, NEW new, Shape(t, top, g, old, new),
           old # Invalid, old # top, NEW p \in Page(Vals),
           SameHeader(t[t[old].parent], p), FitsBand(p, g[t[old].parent]),
           Kids(p, g[t[old].parent]) =
              {k \in Kids(t[t[old].parent], g[t[old].parent]) : k.lo # g[old].lo}
                 \cup {[val |-> old, lo |-> g[old].lo, hi |-> g[old].hi],
                       [val |-> new, lo |-> g[new].lo, hi |-> g[new].hi]}
    PROVE  Whole([t EXCEPT ![t[old].parent] = p], top, g)
  <1> DEFINE P == t[old].parent
             s == [t EXCEPT ![P] = p]
             A == [val |-> old, lo |-> g[old].lo, hi |-> g[old].hi]
             B == [val |-> new, lo |-> g[new].lo, hi |-> g[new].hi]
  <1>1. /\ t \in Pages /\ DOMAIN g \subseteq DOMAIN t /\ top \in DOMAIN g
        /\ t[top].parent = Invalid /\ g[top].lo = 0 /\ Seen(g, old, new, top) = Supremum
        /\ Divided(t, top, g, old, new)
    BY ShapeIs
  <1>2. \A q \in DOMAIN g : /\ t[q] \in Page(Vals) /\ q \in Int /\ q # Invalid /\ q \in DOMAIN t
                            /\ g[q] \in Band /\ FitsBand(t[q], g[q])
                            /\ Placed(t, top, g, old, new, q)
    BY ShapeIs
  <1>3. /\ old \in DOMAIN g /\ new \in DOMAIN g /\ new # old /\ new # top
        /\ g[new].lev = g[old].lev /\ g[new].lo = g[old].hi /\ t[new].parent = P
    BY <1>1 DEF Divided
  <1>4. /\ P \in DOMAIN g /\ ~t[P].leaf /\ g[old].lev < g[top].lev
        /\ \E k \in Kids(t[P], g[P]) : k.val = old
    BY <1>2, <1>3 DEF Placed
  <1>5. PICK o \in Kids(t[P], g[P]) : o.val = old
    BY <1>4
  <1>6. \A k \in Kids(t[P], g[P]) : IsKid(t, top, g, old, new, P, k)
    BY <1>2, <1>4 DEF Placed
  <1>7. o.lo = g[old].lo /\ g[old].lev + 1 = g[P].lev
    BY <1>5, <1>6 DEF IsKid
  <1>8. s \in Pages /\ DOMAIN s = DOMAIN t
    BY <1>1, <1>4, PagesPut
  <1>9. s[P] = p /\ \A r \in DOMAIN g : r # P => s[r] = t[r]
    BY <1>1, <1>4
  <1>10. /\ \A r \in DOMAIN g : /\ s[r].leaf = t[r].leaf /\ s[r].parent = t[r].parent
                                /\ s[r].next = t[r].next
         /\ \A r \in DOMAIN g : t[r].leaf => s[r] = t[r]
    BY <1>4, <1>9 DEF SameHeader
  <1>11. Kids(p, g[P]) = {k \in Kids(t[P], g[P]) : k.lo # g[old].lo} \cup {A, B}
    OBVIOUS
  <1>12. A.val = old /\ A.lo = g[old].lo /\ A.hi = g[old].hi
         /\ B.val = new /\ B.lo = g[new].lo /\ B.hi = g[new].hi
    OBVIOUS
  <1> HIDE DEF P, s, A, B
  <1>13. \A c \in DOMAIN g : Seen(g, Invalid, Invalid, c) = g[c].hi
    BY <1>2 DEF Seen
  <1>14. ASSUME NEW q \in DOMAIN g PROVE Placed(s, top, g, Invalid, Invalid, q)
    <2>1. /\ g[q] \in Band /\ FitsBand(t[q], g[q])
          /\ ~t[q].leaf => \A k \in Kids(t[q], g[q]) : IsKid(t, top, g, old, new, q, k)
          /\ q # top /\ q # new => /\ g[q].lev < g[top].lev
                                   /\ t[q].parent \in DOMAIN g /\ ~t[t[q].parent].leaf
                                   /\ \E k \in Kids(t[t[q].parent], g[t[q].parent]) : k.val = q
          /\ PointsRight(t, g, q)
      BY <1>2 DEF Placed
    <2>2. FitsBand(s[q], g[q])
      BY <1>9, <2>1 DEF P
    <2>3. ASSUME ~s[q].leaf, NEW k \in Kids(s[q], g[q])
          PROVE  IsKid(s, top, g, Invalid, Invalid, q, k)
      <3>1. CASE q # P
        <4>1. IsKid(t, top, g, old, new, q, k)
          BY <1>9, <2>1, <2>3, <3>1
        <4>2. k.val # old /\ k.val # Invalid
          BY <1>2, <3>1, <4>1 DEF IsKid, P
        <4> QED  BY <1>10, <1>13, <4>1, <4>2 DEF IsKid, Seen
      <3>2. CASE q = P /\ k = A
        BY <1>2, <1>3, <1>4, <1>7, <1>10, <1>12, <1>13, <3>2 DEF IsKid, P
      <3>3. CASE q = P /\ k = B
        BY <1>2, <1>3, <1>4, <1>7, <1>10, <1>12, <1>13, <3>3 DEF IsKid, P
      <3>4. CASE q = P /\ k # A /\ k # B
        <4>1. k \in Kids(t[P], g[P]) /\ k.lo # g[old].lo
          BY <1>9, <1>11, <3>4
        <4>2. IsKid(t, top, g, old, new, P, k)
          BY <1>6, <4>1
        <4>3. k.val # old /\ k.val # Invalid
          BY <1>2, <4>1, <4>2 DEF IsKid
        <4> QED  BY <1>10, <1>13, <3>4, <4>2, <4>3 DEF IsKid, Seen
      <3> QED  BY <3>1, <3>2, <3>3, <3>4
    <2>4. ASSUME q # top
          PROVE  /\ g[q].lev < g[top].lev
                 /\ s[q].parent \in DOMAIN g /\ ~s[s[q].parent].leaf
                 /\ \E k \in Kids(s[s[q].parent], g[s[q].parent]) : k.val = q
      <3>1. CASE q = old \/ q = new
        <4>1. s[q].parent = P /\ g[q].lev < g[top].lev
          BY <1>3, <1>4, <1>10, <3>1 DEF P
        <4>2. A \in Kids(p, g[P]) /\ B \in Kids(p, g[P])
          BY <1>11
        <4> QED  BY <1>4, <1>9, <1>10, <1>12, <3>1, <4>1, <4>2
      <3>2. CASE q # old /\ q # new
        <4>1. PICK k \in Kids(t[t[q].parent], g[t[q].parent]) : k.val = q
          BY <2>1, <2>4, <3>2
        <4>2. k \in Kids(s[t[q].parent], g[t[q].parent])
          <5>1. CASE t[q].parent = P
            <6>1. k \in Kids(t[P], g[P]) /\ o \in Kids(t[P], g[P])
              BY <1>5, <4>1, <5>1
            <6>2. k # o
              BY <1>5, <3>2, <4>1
            <6>3. t[P] \in Page(Vals) /\ g[P] \in Band /\ FitsBand(t[P], g[P]) /\ ~t[P].leaf
              BY <1>2, <1>4
            <6>4. k.lo # o.lo
              BY <6>1, <6>2, <6>3, KidsDiffer
            <6> QED  BY <1>7, <1>9, <1>11, <5>1, <6>1, <6>4
          <5>2. CASE t[q].parent # P
            BY <1>9, <2>1, <2>4, <3>2, <4>1, <5>2
          <5> QED  BY <5>1, <5>2
        <4> QED  BY <1>10, <2>1, <2>4, <3>2, <4>1, <4>2
      <3> QED  BY <3>1, <3>2
    <2>5. PointsRight(s, g, q)
      BY <1>10, <2>1 DEF PointsRight
    <2> QED  BY <2>1, <2>2, <2>3, <2>4, <2>5 DEF Placed
  <1>15. /\ DOMAIN g \subseteq DOMAIN s /\ s[top].parent = Invalid
         /\ Seen(g, Invalid, Invalid, top) = Supremum /\ Divided(s, top, g, Invalid, Invalid)
    <2>1. Seen(g, old, new, top) = g[top].hi
      BY DEF Seen
    <2> QED  BY <1>1, <1>8, <1>10, <1>13, <2>1 DEF Divided
  <1>16. Shape(s, top, g, Invalid, Invalid)
    BY <1>1, <1>8, <1>14, <1>15, ShapeFrom
  <1> QED  BY <1>16 DEF Whole, s, P

\* The pages differ at most in their parents.
SameBody(p, q) ==
    q.leaf = p.leaf /\ q.size = p.size /\ q.max = p.max /\ q.next = p.next /\ q.slot = p.slot

LEMMA SameBodyIs ==
    ASSUME NEW p, NEW q, SameBody(p, q), NEW b
    PROVE  /\ Used(q) = Used(p) /\ Entries(q) = Entries(p) /\ Kids(q, b) = Kids(p, b)
           /\ FitsBand(q, b) <=> FitsBand(p, b)
  <1>1. q.leaf = p.leaf /\ q.size = p.size /\ q.max = p.max /\ q.slot = p.slot
    BY DEF SameBody
  <1>2. Used(q) = Used(p) /\ Entries(q) = Entries(p)
    BY <1>1 DEF Used, Entries
  <1>3. \A i : Kid(q, b, i) = Kid(p, b, i)
    BY <1>1 DEF Kid, From, UpTo
  <1>4. Kids(q, b) = Kids(p, b)
    BY <1>2, <1>3 DEF Kids
  <1>5. FitsBand(q, b) <=> FitsBand(p, b)
    BY <1>1, <1>2 DEF FitsBand, Ordered, Separated
  <1> QED  BY <1>2, <1>4, <1>5

\* s is t with page q split into low and, on page n, high, whose children name
\* n as their parent.
KidsMoved(s, t, q, n, low, high) ==
    /\ s \in Pages /\ DOMAIN s = DOMAIN t \cup {n} /\ s[q] = low /\ s[n] = high
    /\ \A r \in DOMAIN t : r # q =>
          s[r] = IF \E i \in Used(high) : high.slot[i].val = r
                 THEN [t[r] EXCEPT !.parent = n] ELSE t[r]

LEMMA InternalDivided ==
    ASSUME NEW t, NEW top, NEW g, Whole(t, top, g), NEW q \in DOMAIN g, ~t[q].leaf,
           NEW low, NEW high, NEW m, KidsShared(low, high, t[q], g[q], m),
           ~low.leaf, ~high.leaf, low.parent = t[q].parent, high.parent = t[q].parent,
           NEW s, KidsMoved(s, t, q, NewId(t), low, high)
    PROVE  Shape(s, top, SplitBand(g, q, NewId(t), m), q, NewId(t))
  <1> DEFINE n == NewId(t)
             h == SplitBand(g, q, n, m)
             K == Kids(t[q], g[q])
             moved(r) == \E i \in Used(high) : high.slot[i].val = r
  <1>1. /\ t \in Pages /\ DOMAIN g \subseteq DOMAIN t /\ top \in DOMAIN g
        /\ t[top].parent = Invalid /\ g[top].lo = 0
        /\ Seen(g, Invalid, Invalid, top) = Supremum
    BY ShapeIs DEF Whole
  <1>2. \A r \in DOMAIN g : /\ t[r] \in Page(Vals) /\ r \in Int /\ r # Invalid /\ r \in DOMAIN t
                            /\ g[r] \in Band /\ FitsBand(t[r], g[r])
                            /\ Placed(t, top, g, Invalid, Invalid, r)
    BY ShapeIs DEF Whole
  <1>3. n \notin DOMAIN t /\ n \notin DOMAIN g /\ n \in Nat
    BY <1>1, PagesAre
  <1>4. m \in Nat /\ g[q].lo < m /\ m < g[q].hi
    BY DEF KidsShared
  <1> HIDE DEF n
  <1>5. IsSplitBand(h, g, q, n, m)
    BY <1>3, <1>4, SplitBandIs
  <1>6. /\ h[q] = [lev |-> g[q].lev, lo |-> g[q].lo, hi |-> m]
        /\ h[n] = [lev |-> g[q].lev, lo |-> m, hi |-> g[q].hi]
    BY <1>3 DEF SplitBand
  <1> HIDE DEF h
  <1>7. /\ FitsBand(low, h[q]) /\ FitsBand(high, h[n])
        /\ Kids(low, h[q]) = {k \in K : k.lo < m} /\ Kids(high, h[n]) = {k \in K : ~(k.lo < m)}
    BY <1>6 DEF KidsShared
  <1>8. /\ DOMAIN h = DOMAIN g \cup {n}
        /\ \A r \in DOMAIN h : h[r] \in Band
        /\ \A r \in DOMAIN g : h[r].lev = g[r].lev /\ h[r].lo = g[r].lo
        /\ \A r \in DOMAIN g : r # q => h[r] = g[r]
        /\ h[n].lev = g[q].lev /\ h[n].lo = m /\ h[n].hi = g[q].hi /\ h[q].hi = m
        /\ \A r \in DOMAIN g : Seen(h, q, n, r) = g[r].hi
    BY <1>5 DEF IsSplitBand
  <1>9. /\ s \in Pages /\ DOMAIN s = DOMAIN t \cup {n} /\ s[q] = low /\ s[n] = high
        /\ \A r \in DOMAIN t : r # q =>
              s[r] = IF moved(r) THEN [t[r] EXCEPT !.parent = n] ELSE t[r]
    BY DEF KidsMoved, n
  <1>10. \A r : moved(r) <=> \E k \in Kids(high, h[n]) : k.val = r
    <2>1. \A i : Kid(high, h[n], i).val = high.slot[i].val
      BY DEF Kid
    <2> QED  BY <2>1 DEF Kids
  <1> HIDE DEF moved
  <1>11. \A k \in K : /\ k.val \in DOMAIN g /\ k.val # top /\ k.val # n /\ k.val # q
                      /\ g[k.val].lev + 1 = g[q].lev /\ t[k.val].parent = q
                      /\ g[k.val].lo = k.lo /\ g[k.val].hi = k.hi
    <2> SUFFICES ASSUME NEW k \in K
                 PROVE  /\ k.val \in DOMAIN g /\ k.val # top /\ k.val # n /\ k.val # q
                        /\ g[k.val].lev + 1 = g[q].lev /\ t[k.val].parent = q
                        /\ g[k.val].lo = k.lo /\ g[k.val].hi = k.hi
      OBVIOUS
    <2>1. IsKid(t, top, g, Invalid, Invalid, q, k)
      BY <1>2 DEF Placed
    <2>2. k.val \in DOMAIN g /\ k.val # Invalid /\ g[q].lev \in Nat
      BY <1>2, <2>1 DEF IsKid, Band
    <2>3. g[k.val].lev + 1 = g[q].lev
      BY <2>1 DEF IsKid
    <2>4. k.val # q
      BY <2>2, <2>3
    <2> QED  BY <1>3, <2>1, <2>2, <2>3, <2>4 DEF IsKid, Seen
  <1>12. \A k \in K : moved(k.val) <=> ~(k.lo < m)
    BY <1>7, <1>10, <1>11
  <1>13. \A r : moved(r) => r \in DOMAIN g /\ r # q /\ t[r].parent = q
    BY <1>7, <1>10, <1>11
  <1>14. \A r \in DOMAIN g : r # q => SameBody(t[r], s[r])
    <2> SUFFICES ASSUME NEW r \in DOMAIN g, r # q PROVE SameBody(t[r], s[r])
      OBVIOUS
    <2>1. t[r] \in Page(Vals) /\ r \in DOMAIN t
      BY <1>2
    <2> QED  BY <1>9, <2>1 DEF SameBody, Page
  <1>15. /\ \A r \in DOMAIN g : s[r].leaf = t[r].leaf
         /\ \A r \in DOMAIN g : r # q => s[r].next = t[r].next
         /\ \A r \in DOMAIN g : ~moved(r) => s[r].parent = t[r].parent
         /\ \A r \in DOMAIN g : moved(r) => s[r].parent = n
    <2> SUFFICES ASSUME NEW r \in DOMAIN g
                 PROVE  /\ s[r].leaf = t[r].leaf
                        /\ r # q => s[r].next = t[r].next
                        /\ ~moved(r) => s[r].parent = t[r].parent
                        /\ moved(r) => s[r].parent = n
      OBVIOUS
    <2>1. t[r] \in Page(Vals) /\ r \in DOMAIN t
      BY <1>2
    <2>2. CASE r = q
      <3>1. low.leaf \in BOOLEAN /\ t[q].leaf \in BOOLEAN
        BY <2>1, <2>2 DEF KidsShared, Page
      <3>2. low.leaf = t[q].leaf
        BY <3>1, Zenon
      <3> QED  BY <1>9, <1>13, <2>2, <3>2
    <2>3. CASE r # q
      <3>1. s[r].leaf = t[r].leaf /\ s[r].next = t[r].next
        BY <1>14, <2>3 DEF SameBody
      <3>2. moved(r) => s[r].parent = n
        BY <1>9, <2>1, <2>3 DEF Page
      <3> QED  BY <1>9, <2>1, <2>3, <3>1, <3>2
    <2> QED  BY <2>2, <2>3
  <1>16. ASSUME NEW r \in DOMAIN h PROVE Placed(s, top, h, q, n, r)
    <2>1. r \in DOMAIN g =>
             /\ FitsBand(t[r], g[r])
             /\ ~t[r].leaf => \A k \in Kids(t[r], g[r]) : IsKid(t, top, g, Invalid, Invalid, r, k)
             /\ r # top => /\ g[r].lev < g[top].lev
                           /\ t[r].parent \in DOMAIN g /\ ~t[t[r].parent].leaf
                           /\ \E k \in Kids(t[t[r].parent], g[t[r].parent]) : k.val = r
             /\ PointsRight(t, g, r)
      BY <1>2 DEF Placed
    <2>2. FitsBand(s[r], h[r])
      <3>1. CASE r = n \/ r = q
        BY <1>7, <1>9, <3>1
      <3>2. CASE r # n /\ r # q
        BY <1>8, <1>14, <2>1, <3>2, SameBodyIs
      <3> QED  BY <3>1, <3>2
    <2>3. ASSUME ~s[r].leaf, NEW k \in Kids(s[r], h[r])
          PROVE  IsKid(s, top, h, q, n, r, k)
      <3>1. CASE r = n
        <4>1. k \in K /\ ~(k.lo < m)
          BY <1>7, <1>9, <2>3, <3>1
        <4> QED  BY <1>8, <1>11, <1>12, <1>15, <3>1, <4>1 DEF IsKid
      <3>2. CASE r = q
        <4>1. k \in K /\ k.lo < m
          BY <1>7, <1>9, <2>3, <3>2
        <4> QED  BY <1>8, <1>11, <1>12, <1>15, <3>2, <4>1 DEF IsKid
      <3>3. CASE r # n /\ r # q
        <4>1. r \in DOMAIN g /\ h[r] = g[r] /\ ~t[r].leaf /\ k \in Kids(t[r], g[r])
          BY <1>8, <1>14, <1>15, <2>3, <3>3, SameBodyIs
        <4>2. IsKid(t, top, g, Invalid, Invalid, r, k)
          BY <2>1, <4>1
        <4>3. k.val \in DOMAIN g /\ k.val # Invalid /\ k.val # n /\ ~moved(k.val)
          BY <1>2, <1>3, <1>13, <3>3, <4>2 DEF IsKid
        <4> QED  BY <1>8, <1>15, <4>1, <4>2, <4>3 DEF IsKid, Seen
      <3> QED  BY <3>1, <3>2, <3>3
    <2>4. ASSUME r # top, r # n
          PROVE  /\ h[r].lev < h[top].lev
                 /\ s[r].parent \in DOMAIN h /\ ~s[s[r].parent].leaf
                 /\ \E k \in Kids(s[s[r].parent], h[s[r].parent]) : k.val = r
      <3>1. r \in DOMAIN g /\ h[r].lev < h[top].lev
        BY <1>1, <1>8, <2>1, <2>4
      <3> DEFINE P == t[r].parent
      <3>2. PICK k \in Kids(t[P], g[P]) : k.val = r
        BY <2>1, <2>4, <3>1
      <3>3. P \in DOMAIN g /\ ~t[P].leaf
        BY <2>1, <2>4, <3>1
      <3> HIDE DEF P
      <3>4. CASE P = q /\ k.lo < m
        <4>1. k \in K /\ ~moved(r) /\ s[r].parent = q /\ k \in Kids(low, h[q])
          BY <1>7, <1>12, <1>15, <3>1, <3>2, <3>4 DEF P
        <4> QED  BY <1>8, <1>9, <3>1, <3>2, <4>1
      <3>5. CASE P = q /\ ~(k.lo < m)
        <4>1. k \in K /\ moved(r) /\ s[r].parent = n /\ k \in Kids(high, h[n])
          BY <1>7, <1>12, <1>15, <3>1, <3>2, <3>5 DEF P
        <4> QED  BY <1>8, <1>9, <3>1, <3>2, <4>1
      <3>6. CASE P # q
        <4>1. ~moved(r)
          BY <1>13, <3>6 DEF P
        <4>2. s[r].parent = P
          BY <1>15, <3>1, <4>1 DEF P
        <4>3. h[P] = g[P] /\ SameBody(t[P], s[P]) /\ s[P].leaf = t[P].leaf
          BY <1>8, <1>14, <1>15, <3>3, <3>6
        <4>4. Kids(s[P], h[P]) = Kids(t[P], g[P])
          BY <4>3, SameBodyIs
        <4> QED  BY <1>8, <3>1, <3>2, <3>3, <4>2, <4>3, <4>4
      <3> QED  BY <3>4, <3>5, <3>6
    <2>5. PointsRight(s, h, r)
      <3> SUFFICES ASSUME s[r].leaf
                   PROVE  IF h[r].hi = Supremum THEN s[r].next = Invalid
                          ELSE /\ s[r].next \in DOMAIN h /\ s[s[r].next].leaf
                               /\ h[s[r].next].lo = h[r].hi
        BY DEF PointsRight
      <3>1. r \in DOMAIN g /\ r # q /\ t[r].leaf /\ h[r] = g[r] /\ s[r].next = t[r].next
        BY <1>8, <1>9, <1>15
      <3> QED  BY <1>8, <1>15, <2>1, <3>1 DEF PointsRight
    <2> QED  BY <1>8, <2>2, <2>3, <2>4, <2>5 DEF Placed
  <1>17. Divided(s, top, h, q, n)
    <2>1. n # q /\ n # top /\ q \in DOMAIN h /\ n \in DOMAIN h
      BY <1>1, <1>3, <1>8
    <2>2. s[n].parent = s[q].parent
      BY <1>9
    <2> QED  BY <1>8, <2>1, <2>2 DEF Divided
  <1>18. /\ DOMAIN h \subseteq DOMAIN s /\ top \in DOMAIN h
         /\ s[top].parent = Invalid /\ h[top].lo = 0 /\ Seen(h, q, n, top) = Supremum
    <2>1. ~moved(top)
      BY <1>7, <1>10, <1>11
    <2>2. g[top].hi = Supremum
      BY <1>1, <1>2 DEF Seen
    <2> QED  BY <1>1, <1>8, <1>9, <1>15, <2>1, <2>2
  <1>19. Shape(s, top, h, q, n)
    BY <1>9, <1>16, <1>17, <1>18, ShapeFrom
  <1> QED  BY <1>19 DEF h, n

IsNewRoot(q, b, old, k, new) ==
    /\ q \in Page(Vals) /\ ~q.leaf /\ q.size = 2 /\ q.parent = Invalid
    /\ q.max = internal_max_size
    /\ FitsBand(q, b)
    /\ Kids(q, b) = {[val |-> old, lo |-> b.lo, hi |-> k], [val |-> new, lo |-> k, hi |-> b.hi]}

LEMMA NewRootIs ==
    ASSUME 1 \in Slots, internal_max_size \in Int, NEW b \in Band, b.lev # 0, b.hi <= Supremum,
           NEW k \in Nat, b.lo < k, k < b.hi, NEW old \in Int, NEW new \in Int
    PROVE  IsNewRoot(PopulateNewRoot(InitPage(FALSE, internal_max_size), old, k, new), b, old, k, new)
  <1> DEFINE p == InitPage(FALSE, internal_max_size)
             q == PopulateNewRoot(p, old, k, new)
             d == [p.slot EXCEPT ![0].val = old, ![1] = Slot(k, new)]
  <1>1. p \in Page(Vals) /\ ~p.leaf /\ p.max = internal_max_size /\ p.parent = Invalid
    BY InitPageIs
  <1> HIDE DEF p
  <1>2. p.slot \in [Slots -> Entry(Vals)] /\ 0 \in Slots /\ 2 \in Bounds
    <2>1. p.slot \in [Slots -> Entry(Vals)]
      BY <1>1 DEF Page
    <2> QED  BY <2>1, MaxSlotAssumption DEF Slots, Bounds
  <1>3. Slot(k, new) \in Entry(Vals) /\ old \in Vals
    BY DEF Slot, Entry, Vals
  <1>4. p.slot[0] \in Entry(Vals)
    BY <1>2
  <1>5. [p.slot[0] EXCEPT !.val = old] \in Entry(Vals)
    BY <1>3, <1>4 DEF Entry
  <1>6. /\ d \in [Slots -> Entry(Vals)]
        /\ d[0].val = old /\ d[1] = Slot(k, new)
    <2>1. d = [[p.slot EXCEPT ![0] = [p.slot[0] EXCEPT !.val = old]] EXCEPT ![1] = Slot(k, new)]
      BY <1>2, <1>4 DEF Entry
    <2>2. [p.slot EXCEPT ![0] = [p.slot[0] EXCEPT !.val = old]] \in [Slots -> Entry(Vals)]
      BY <1>2, <1>5
    <2>3. d \in [Slots -> Entry(Vals)] /\ d[1] = Slot(k, new)
          /\ d[0] = [p.slot[0] EXCEPT !.val = old]
      BY <1>2, <1>3, <2>1, <2>2
    <2> QED  BY <1>4, <2>3 DEF Entry
  <1>7. q = [p EXCEPT !.size = 2, !.slot = d]
    BY <1>1 DEF PopulateNewRoot, Page
  <1> HIDE DEF d, q
  <1>8. /\ q \in Page(Vals) /\ ~q.leaf /\ q.size = 2 /\ q.parent = Invalid
        /\ q.max = internal_max_size /\ q.slot = d
    BY <1>1, <1>2, <1>6, <1>7 DEF Page
  <1>9. d[1].key = k /\ d[1].val = new
    BY <1>6 DEF Slot
  <1>10. FitsBand(q, b)
    <2>1. 1 .. q.size - 1 = {1}
      BY <1>8
    <2>2. Separated(q)
      BY <2>1 DEF Separated
    <2>3. b.lo < b.hi
      BY DEF Band
    <2> QED  BY <1>8, <1>9, <2>1, <2>2, <2>3 DEF FitsBand
  <1>11. /\ Kid(q, b, 0) = [val |-> old, lo |-> b.lo, hi |-> k]
         /\ Kid(q, b, 1) = [val |-> new, lo |-> k, hi |-> b.hi]
    BY <1>6, <1>8, <1>9 DEF Kid, From, UpTo
  <1>12. Used(q) = {0, 1}
    BY <1>8 DEF Used
  <1>13. Kids(q, b) = {Kid(q, b, 0), Kid(q, b, 1)}
    BY <1>12 DEF Kids
  <1> QED  BY <1>8, <1>10, <1>11, <1>13 DEF q, p, IsNewRoot

\* The bands after a new root r over page `top`.
RootBand(g, top, r) ==
    [q \in DOMAIN g \cup {r} |->
        IF q = r THEN [lev |-> g[top].lev + 1, lo |-> 0, hi |-> Supremum] ELSE g[q]]

LEMMA RootGrown ==
    ASSUME NEW t, NEW top, NEW g, NEW new, Shape(t, top, g, top, new),
           1 \in Slots, internal_max_size \in Int
    PROVE  LET s == GrowRoot(t, top, g[new].lo, new)
           IN  /\ s.root = NewId(t) /\ s.root \notin DOMAIN t
               /\ Whole(s.pg, s.root, RootBand(g, top, s.root))
               /\ NewId(s.pg) = NewId(t) + 1
               /\ s.pg[s.root].size = 2 /\ ~s.pg[s.root].leaf
               /\ s.pg[s.root].max = internal_max_size
               /\ \A q \in DOMAIN t : SameBody(t[q], s.pg[q])
  <1> DEFINE r == NewId(t)
             h == RootBand(g, top, r)
             k == g[new].lo
             p == PopulateNewRoot(InitPage(FALSE, internal_max_size), top, k, new)
             t1 == [t EXCEPT ![top].parent = r]
             t2 == [t1 EXCEPT ![new].parent = r]
             s == AddPage(t2, p)
             A == [val |-> top, lo |-> 0, hi |-> k]
             B == [val |-> new, lo |-> k, hi |-> Supremum]
  <1>1. /\ t \in Pages /\ DOMAIN g \subseteq DOMAIN t /\ top \in DOMAIN g
        /\ t[top].parent = Invalid /\ g[top].lo = 0 /\ Seen(g, top, new, top) = Supremum
        /\ Divided(t, top, g, top, new)
    BY ShapeIs
  <1>2. \A q \in DOMAIN g : /\ t[q] \in Page(Vals) /\ q \in Int /\ q # Invalid /\ q \in DOMAIN t
                            /\ g[q] \in Band /\ FitsBand(t[q], g[q])
                            /\ Placed(t, top, g, top, new, q)
    BY ShapeIs
  <1>3. /\ new \in DOMAIN g /\ new # top
        /\ g[new].lev = g[top].lev /\ g[new].lo = g[top].hi
        /\ g[new].hi = Supremum
    BY <1>1, <1>2 DEF Divided, Seen
  <1>4. r \in Nat /\ r \notin DOMAIN t /\ r \notin DOMAIN g /\ r # Invalid /\ r \in Int
    BY <1>1, PagesAre DEF Invalid
  <1>5. /\ g[top].lev \in Nat /\ k \in Nat /\ 0 < k /\ k < Supremum /\ Supremum \in Nat
    <2>1. g[top].lo < g[top].hi /\ g[new].lo < g[new].hi
      BY <1>1, <1>2, <1>3 DEF FitsBand
    <2> QED  BY <1>1, <1>2, <1>3, <2>1, SupremumIs DEF Band
  <1>6. /\ DOMAIN h = DOMAIN g \cup {r}
        /\ h[r] = [lev |-> g[top].lev + 1, lo |-> 0, hi |-> Supremum]
        /\ \A q \in DOMAIN g : h[q] = g[q]
    BY <1>4 DEF RootBand
  <1>7. h[r] \in Band /\ h[r].lev = g[top].lev + 1 /\ h[r].lo = 0 /\ h[r].hi = Supremum /\ h[r].lev # 0
    BY <1>5, <1>6 DEF Band
  <1> HIDE DEF h
  <1>8. /\ p \in Page(Vals) /\ ~p.leaf /\ p.size = 2 /\ p.parent = Invalid
        /\ p.max = internal_max_size
        /\ FitsBand(p, h[r])
        /\ Kids(p, h[r]) = {A, B}
    <2>1. /\ h[r].hi <= Supremum /\ h[r].lo < k /\ k < h[r].hi /\ top \in Int /\ new \in Int
      BY <1>1, <1>2, <1>3, <1>5, <1>7
    <2>2. A = [val |-> top, lo |-> h[r].lo, hi |-> k] /\ B = [val |-> new, lo |-> k, hi |-> h[r].hi]
      BY <1>7
    <2> HIDE DEF k, A, B
    <2>3. IsNewRoot(p, h[r], top, k, new)
      BY <1>5, <1>7, <2>1, NewRootIs
    <2> QED  BY <2>2, <2>3 DEF IsNewRoot
  <1>9. A.val = top /\ A.lo = 0 /\ A.hi = k /\ B.val = new /\ B.lo = k /\ B.hi = Supremum
    OBVIOUS
  <1> HIDE DEF p, A, B
  <1>10. t2 = [[t EXCEPT ![top] = [t[top] EXCEPT !.parent = r]]
                  EXCEPT ![new] = [t[new] EXCEPT !.parent = r]]
    BY <1>1, <1>2, <1>3
  <1>11. /\ t2 \in Pages /\ DOMAIN t2 = DOMAIN t /\ NewId(t2) = r
    <2> DEFINE u == [t EXCEPT ![top] = [t[top] EXCEPT !.parent = r]]
    <2>1. [t[top] EXCEPT !.parent = r] \in Page(Vals) /\ [t[new] EXCEPT !.parent = r] \in Page(Vals)
      BY <1>1, <1>2, <1>3, <1>4 DEF Page
    <2>2. u \in Pages /\ DOMAIN u = DOMAIN t /\ NewId(u) = r
      BY <1>1, <2>1, PagesPut
    <2> HIDE DEF u, t2, r
    <2>3. new \in DOMAIN u
      BY <1>1, <1>3, <2>2
    <2>4. t2 = [u EXCEPT ![new] = [t[new] EXCEPT !.parent = r]]
      BY <1>10 DEF u
    <2> QED  BY <2>1, <2>2, <2>3, <2>4, PagesPut
  <1>12. /\ t2[top] = [t[top] EXCEPT !.parent = r] /\ t2[new] = [t[new] EXCEPT !.parent = r]
         /\ \A q \in DOMAIN t : q # top /\ q # new => t2[q] = t[q]
    BY <1>1, <1>3, <1>10
  <1> HIDE DEF t2
  <1>13. /\ s \in Pages /\ NewId(s) = r + 1 /\ DOMAIN s = DOMAIN t \cup {r} /\ s[r] = p
         /\ \A q \in DOMAIN t : s[q] = t2[q]
    <2> HIDE DEF r
    <2> QED  BY <1>8, <1>11, PagesAdd
  <1> HIDE DEF s
  <1>14. \A q \in DOMAIN t : SameBody(t[q], s[q])
    <2> SUFFICES ASSUME NEW q \in DOMAIN t PROVE SameBody(t[q], s[q])
      OBVIOUS
    <2>1. CASE q = top
      BY <1>1, <1>2, <1>12, <1>13, <2>1 DEF SameBody, Page
    <2>2. CASE q = new
      BY <1>2, <1>3, <1>12, <1>13, <2>2 DEF SameBody, Page
    <2>3. CASE q # top /\ q # new
      BY <1>12, <1>13, <2>3 DEF SameBody
    <2> QED  BY <2>1, <2>2, <2>3
  <1>15. /\ s[top].parent = r /\ s[new].parent = r
         /\ \A q \in DOMAIN g : q # top /\ q # new => s[q].parent = t[q].parent
         /\ \A q \in DOMAIN g : s[q].leaf = t[q].leaf /\ s[q].next = t[q].next
    <2>1. s[top].parent = r
      BY <1>1, <1>2, <1>12, <1>13 DEF Page
    <2>2. s[new].parent = r
      BY <1>2, <1>3, <1>12, <1>13 DEF Page
    <2>3. \A q \in DOMAIN g : s[q].leaf = t[q].leaf /\ s[q].next = t[q].next
      BY <1>2, <1>14 DEF SameBody
    <2> QED  BY <1>2, <1>12, <1>13, <2>1, <2>2, <2>3
  <1>16. \A c \in DOMAIN g : Seen(h, Invalid, Invalid, c) = g[c].hi
    BY <1>2, <1>6 DEF Seen
  <1>17. ASSUME NEW q \in DOMAIN h PROVE Placed(s, r, h, Invalid, Invalid, q)
    <2>1. q \in DOMAIN g =>
             /\ g[q] \in Band /\ FitsBand(t[q], g[q])
             /\ ~t[q].leaf => \A x \in Kids(t[q], g[q]) : IsKid(t, top, g, top, new, q, x)
             /\ q # top /\ q # new => /\ g[q].lev < g[top].lev
                           /\ t[q].parent \in DOMAIN g /\ ~t[t[q].parent].leaf
                           /\ \E x \in Kids(t[t[q].parent], g[t[q].parent]) : x.val = q
             /\ PointsRight(t, g, q)
      BY <1>2 DEF Placed
    <2>2. h[q] \in Band /\ FitsBand(s[q], h[q])
      <3>1. CASE q = r
        BY <1>7, <1>8, <1>13, <3>1
      <3>2. CASE q # r
        BY <1>2, <1>6, <1>14, <2>1, <3>2, SameBodyIs
      <3> QED  BY <3>1, <3>2
    <2>3. ASSUME ~s[q].leaf, NEW x \in Kids(s[q], h[q])
          PROVE  IsKid(s, r, h, Invalid, Invalid, q, x)
      <3>1. CASE q = r
        <4>1. x = A \/ x = B
          BY <1>8, <1>13, <2>3, <3>1
        <4>2. Seen(h, Invalid, Invalid, top) = k /\ Seen(h, Invalid, Invalid, new) = Supremum
          BY <1>1, <1>3, <1>16
        <4>3. /\ h[top] = g[top] /\ h[new] = g[new] /\ top # r /\ new # r
              /\ top # Invalid /\ new # Invalid /\ top \in DOMAIN h /\ new \in DOMAIN h
          BY <1>1, <1>2, <1>3, <1>4, <1>6
        <4>4. CASE x = A
          BY <1>1, <1>7, <1>9, <1>15, <3>1, <4>2, <4>3, <4>4 DEF IsKid
        <4>5. CASE x = B
          BY <1>3, <1>7, <1>9, <1>15, <3>1, <4>2, <4>3, <4>5 DEF IsKid
        <4> QED  BY <4>1, <4>4, <4>5
      <3>2. CASE q # r
        <4>1. q \in DOMAIN g /\ h[q] = g[q] /\ ~t[q].leaf
          BY <1>6, <1>15, <2>3, <3>2
        <4>2. x \in Kids(t[q], g[q])
          BY <1>2, <1>14, <2>3, <4>1, SameBodyIs
        <4>3. IsKid(t, top, g, top, new, q, x)
          BY <2>1, <4>1, <4>2
        <4>4. x.val \in DOMAIN g /\ x.val # top /\ x.val # new /\ x.val # r /\ x.val # Invalid
          BY <1>2, <1>4, <4>3 DEF IsKid
        <4> QED  BY <1>6, <1>15, <1>16, <4>1, <4>3, <4>4 DEF IsKid, Seen
      <3> QED  BY <3>1, <3>2
    <2>4. ASSUME q # r
          PROVE  /\ h[q].lev < h[r].lev
                 /\ s[q].parent \in DOMAIN h /\ ~s[s[q].parent].leaf
                 /\ \E x \in Kids(s[s[q].parent], h[s[q].parent]) : x.val = q
      <3>1. q \in DOMAIN g /\ h[q] = g[q] /\ g[q].lev \in Nat
        BY <1>2, <1>6, <2>4 DEF Band
      <3>2. CASE q = top \/ q = new
        <4>1. s[q].parent = r /\ h[q].lev < h[r].lev
          BY <1>3, <1>5, <1>7, <1>15, <3>1, <3>2
        <4> QED  BY <1>6, <1>8, <1>9, <1>13, <3>2, <4>1
      <3>3. CASE q # top /\ q # new
        <4> DEFINE P == t[q].parent
        <4>1. /\ g[q].lev < g[top].lev /\ P \in DOMAIN g /\ ~t[P].leaf
              /\ \E x \in Kids(t[P], g[P]) : x.val = q
          BY <2>1, <3>1, <3>3
        <4>2. s[q].parent = P
          BY <1>15, <3>1, <3>3
        <4> HIDE DEF P
        <4>3. Kids(s[P], h[P]) = Kids(t[P], g[P]) /\ P \in DOMAIN h /\ ~s[P].leaf
          BY <1>2, <1>6, <1>14, <1>15, <4>1, SameBodyIs
        <4>4. h[q].lev < h[r].lev
          BY <1>5, <1>7, <3>1, <4>1
        <4> QED  BY <4>1, <4>2, <4>3, <4>4
      <3> QED  BY <3>2, <3>3
    <2>5. PointsRight(s, h, q)
      <3>1. CASE q = r
        BY <1>8, <1>13, <3>1 DEF PointsRight
      <3>2. CASE q # r
        BY <1>6, <1>15, <2>1, <3>2 DEF PointsRight
      <3> QED  BY <3>1, <3>2
    <2> QED  BY <2>2, <2>3, <2>4, <2>5 DEF Placed
  <1>18. /\ DOMAIN h \subseteq DOMAIN s /\ r \in DOMAIN h
         /\ s[r].parent = Invalid /\ Seen(h, Invalid, Invalid, r) = Supremum
         /\ Divided(s, r, h, Invalid, Invalid)
    BY <1>1, <1>4, <1>6, <1>7, <1>8, <1>13 DEF Seen, Divided
  <1>19. Whole(s, r, h)
    BY <1>7, <1>13, <1>17, <1>18, ShapeFrom DEF Whole
  <1>20. GrowRoot(t, top, k, new).pg = s /\ GrowRoot(t, top, k, new).root = r
    BY DEF GrowRoot, s, t2, p
  <1> HIDE DEF r, k
  <1> QED  BY <1>4, <1>8, <1>13, <1>14, <1>19, <1>20 DEF r, k, h
-----------------------------------------------------------------------------
(* One call of InsertIntoParent. *)

\* The sizes for which the tree works (see the theorems).
GoodSizes ==
    /\ leaf_max_size \in Nat /\ leaf_max_size >= 2 /\ leaf_max_size <= MaxSlot
    /\ internal_max_size \in Nat /\ internal_max_size >= 3 /\ internal_max_size <= MaxSlot

Sized(t, g) == \A q \in DOMAIN g : t[q].size >= 1 /\ t[q].size <= t[q].max
Forked(t, top) == t[top].leaf \/ t[top].size >= 2

\* A tree between two operations.
Tree(t, top, g) ==
    Whole(t, top, g) /\ Sized(t, g) /\ Forked(t, top) /\ g[top].lev < NewId(t)

\* A tree whose page `old` has been split; the parent is still to be told.
Pending(t, top, g, old, new) ==
    /\ Shape(t, top, g, old, new) /\ old # Invalid /\ old # top
    /\ Sized(t, g) /\ Forked(t, top) /\ g[top].lev < NewId(t)

LEMMA ContentSame ==
    ASSUME NEW t, NEW g, NEW s, NEW h,
           \A q \in DOMAIN g : t[q].leaf =>
              q \in DOMAIN h /\ s[q].leaf /\ Entries(s[q]) = Entries(t[q]),
           \A q \in DOMAIN h : s[q].leaf => q \in DOMAIN g /\ t[q].leaf
    PROVE  Content(s, h) = Content(t, g)
  BY DEF Content

\* par is the parent P of old with the new child, before it is split in its turn.
ParentTold(t, top, g, old, P, par) ==
    /\ P \in DOMAIN g /\ P # Invalid /\ ~t[P].leaf /\ g[P].lev = g[old].lev + 1
    /\ par \in Page(Vals) /\ SameHeader(t[P], par) /\ par.size = t[P].size + 1
    /\ FitsBand(par, g[P])
    /\ Whole([t EXCEPT ![P] = par], top, g)

LEMMA ParentIs ==
    ASSUME NEW t, NEW top, NEW g, NEW old, NEW new, Pending(t, top, g, old, new), GoodSizes
    PROVE  ParentTold(t, top, g, old, t[old].parent,
                      InsertNodeAfter(t[t[old].parent], old, g[new].lo, new))
  <1> DEFINE P == t[old].parent
             par == InsertNodeAfter(t[P], old, g[new].lo, new)
             i == ValueIndex(t[P], old)
             k == g[new].lo
  <1>1. Shape(t, top, g, old, new) /\ old # Invalid /\ old # top /\ Sized(t, g)
    BY DEF Pending
  <1>2. \A q \in DOMAIN g : /\ t[q] \in Page(Vals) /\ q \in Int /\ q # Invalid /\ q \in DOMAIN t
                            /\ g[q] \in Band /\ FitsBand(t[q], g[q])
                            /\ Placed(t, top, g, old, new, q)
    BY <1>1, ShapeIs
  <1>3. /\ old \in DOMAIN g /\ new \in DOMAIN g /\ new # old /\ new # top
        /\ g[new].lo = g[old].hi
    <2>1. Divided(t, top, g, old, new)
      BY <1>1, ShapeIs
    <2> QED  BY <1>1, <2>1 DEF Divided
  <1>4. P \in DOMAIN g /\ ~t[P].leaf /\ \E x \in Kids(t[P], g[P]) : x.val = old
    BY <1>1, <1>2, <1>3 DEF Placed
  <1>5. /\ t[P] \in Page(Vals) /\ g[P] \in Band /\ FitsBand(t[P], g[P])
        /\ t[P].size <= internal_max_size /\ t[P].size \in Nat /\ MaxSlot \in Nat
    <2>1. t[P] \in Page(Vals) /\ g[P] \in Band /\ FitsBand(t[P], g[P])
      BY <1>2, <1>4
    <2>2. t[P].size <= t[P].max /\ t[P].max = internal_max_size
      BY <1>1, <1>4, <2>1 DEF Sized, FitsBand
    <2>3. t[P].size \in Nat /\ MaxSlot \in Nat
      BY <2>1, PageType
    <2> QED  BY <2>1, <2>2, <2>3
  <1>6. t[P].size <= MaxSlot
    BY <1>5 DEF GoodSizes
  <1>7. i \in Used(t[P]) /\ t[P].slot[i].val = old
    <2>1. PICK x \in Used(t[P]) : Kid(t[P], g[P], x).val = old
      BY <1>4 DEF Kids
    <2>2. t[P].slot[x].val = old
      BY <2>1 DEF Kid
    <2> HIDE DEF P
    <2> QED  BY <1>5, <2>1, <2>2, ValueIndexIs
  <1> HIDE DEF i
  <1>8. IsKid(t, top, g, old, new, P, Kid(t[P], g[P], i))
    BY <1>2, <1>4, <1>7 DEF Placed, Kids
  <1>9. /\ g[P].lev = g[old].lev + 1 /\ From(t[P], g[P], i) = g[old].lo
        /\ UpTo(t[P], g[P], i) = g[new].hi
    BY <1>7, <1>8 DEF IsKid, Kid, Seen
  <1>10. k \in Nat /\ g[old].lo < k /\ k < g[new].hi /\ new \in Int
    BY <1>2, <1>3 DEF Band, FitsBand
  <1>11. par = PutAt(t[P], i + 1, Slot(k, new))
    <2>1. i # -1
      BY <1>5, <1>7, PageType
    <2> QED  BY <2>1 DEF InsertNodeAfter, i
  <1> HIDE DEF par
  <1>12. KidPut(par, t[P], g[P], i, k, new)
    <2> HIDE DEF P, k
    <2>1. From(t[P], g[P], i) < k /\ k < UpTo(t[P], g[P], i)
      BY <1>9, <1>10
    <2> QED  BY <1>4, <1>5, <1>6, <1>7, <1>10, <1>11, <2>1, KidPutIs
  <1>13. /\ par \in Page(Vals) /\ SameHeader(t[P], par) /\ par.size = t[P].size + 1
         /\ FitsBand(par, g[P])
         /\ Kids(par, g[P]) = {x \in Kids(t[P], g[P]) : x.lo # g[old].lo}
                                 \cup {[val |-> old, lo |-> g[old].lo, hi |-> g[old].hi],
                                       [val |-> new, lo |-> g[new].lo, hi |-> g[new].hi]}
    BY <1>3, <1>7, <1>9, <1>12 DEF KidPut
  <1>14. Whole([t EXCEPT ![P] = par], top, g)
    BY <1>1, <1>13, ChildAdded
  <1> QED  BY <1>2, <1>4, <1>9, <1>13, <1>14 DEF par, ParentTold

LEMMA HalfBounds ==
    ASSUME NEW n \in Nat, n >= 2
    PROVE  /\ n \div 2 \in Nat /\ n - (n \div 2) \in Nat
           /\ n \div 2 > 0 /\ n - (n \div 2) > 0 /\ (n \div 2) + (n - (n \div 2)) = n
           /\ n \div 2 < n /\ n - (n \div 2) < n
  <1> DEFINE h == n \div 2
  <1>1. h \in Int /\ h > 0 /\ h < n
    BY Z3
  <1> HIDE DEF h
  <1>2. h \in Nat /\ n - h \in Nat /\ h > 0 /\ n - h > 0 /\ h + (n - h) = n /\ h < n /\ n - h < n
    BY <1>1
  <1> QED  BY <1>2 DEF h

LEMMA SetParentsIs ==
    ASSUME NEW t \in Pages, NEW node, NEW n \in Int
    PROVE  LET s == SetParents(t, node, n)
           IN  /\ s \in Pages /\ DOMAIN s = DOMAIN t /\ NewId(s) = NewId(t)
               /\ \A q \in DOMAIN t : s[q] = IF \E i \in Used(node) : node.slot[i].val = q
                                             THEN [t[q] EXCEPT !.parent = n] ELSE t[q]
  <1> DEFINE s == SetParents(t, node, n)
  <1>1. /\ DOMAIN s = DOMAIN t
        /\ \A q \in DOMAIN t : s[q] = IF \E i \in Used(node) : node.slot[i].val = q
                                      THEN [t[q] EXCEPT !.parent = n] ELSE t[q]
        /\ s = [q \in DOMAIN t |-> s[q]]
    BY DEF SetParents, Used
  <1>2. PICK m \in Nat : t \in [0 .. m - 1 -> Page(Vals)]
    BY DEF Pages
  <1> HIDE DEF s
  <1>3. \A q \in DOMAIN t : s[q] \in Page(Vals)
    <2> SUFFICES ASSUME NEW q \in DOMAIN t PROVE s[q] \in Page(Vals)
      OBVIOUS
    <2>1. t[q] \in Page(Vals)
      BY <1>2
    <2>2. [t[q] EXCEPT !.parent = n] \in Page(Vals)
      BY <2>1 DEF Page
    <2> QED  BY <1>1, <2>1, <2>2
  <1>4. s \in [0 .. m - 1 -> Page(Vals)]
    BY <1>1, <1>2, <1>3
  <1> QED  BY <1>1, <1>4 DEF Pages, NewId, s

Half(par) == InternalMoveHalfTo(par, InitPage(FALSE, internal_max_size))
Middle(par) == par.slot[par.size \div 2].key

\* The pages after page P, with contents par, has been split.
SplitPages(t, P, par) ==
    AddPage([SetParents(t, Half(par)[2], NewId(t)) EXCEPT ![P] = Half(par)[1]],
            [Half(par)[2] EXCEPT !.parent = par.parent])

IsSplit(t, top, g, P, par, s, h) ==
    /\ Shape(s, top, h, P, NewId(t))
    /\ NewId(s) = NewId(t) + 1 /\ NewId(t) \notin DOMAIN t
    /\ DOMAIN h = DOMAIN g \cup {NewId(t)}
    /\ h[NewId(t)].lo = Middle(par)
    /\ \A q \in DOMAIN g : h[q].lev = g[q].lev
    /\ s[P].size = par.size \div 2 /\ s[P].max = internal_max_size
    /\ s[NewId(t)].size = par.size - (par.size \div 2) /\ s[NewId(t)].max = internal_max_size
    /\ ~s[P].leaf /\ ~s[NewId(t)].leaf
    /\ s[P].parent = par.parent
    /\ \A q \in DOMAIN t : q # P => SameBody(t[q], s[q])

LEMMA ParentDivided ==
    ASSUME NEW t, NEW top, NEW g, NEW P \in DOMAIN g, NEW par \in Page(Vals),
           t \in Pages, P \in DOMAIN t, ~t[P].leaf, SameHeader(t[P], par), FitsBand(par, g[P]),
           par.size >= 2, Whole([t EXCEPT ![P] = par], top, g), GoodSizes
    PROVE  IsSplit(t, top, g, P, par, SplitPages(t, P, par),
                   SplitBand(g, P, NewId(t), Middle(par)))
  <1> DEFINE np == NewId(t)
             mid == par.size \div 2
             n == par.size - mid
             new == InitPage(FALSE, internal_max_size)
             low == LowerKids(par, mid)
             high0 == UpperKids(new, par, mid, n)
             high == [high0 EXCEPT !.parent = par.parent]
             m == par.slot[mid].key
             t1 == [t EXCEPT ![P] = par]
             moved == SetParents(t, high0, np)
             s1 == [moved EXCEPT ![P] = low]
             s == AddPage(s1, high)
             h == SplitBand(g, P, np, m)
  <1>1. /\ Half(par)[1] = low /\ Half(par)[2] = high0 /\ Middle(par) = m
        /\ SplitPages(t, P, par) = s
    BY DEF Half, InternalMoveHalfTo, LowerKids, UpperKids, Middle, SplitPages
  <1>2. /\ mid \in Nat /\ n \in Nat /\ mid > 0 /\ n > 0 /\ mid + n = par.size
        /\ par.size \in Nat /\ mid \in 0 .. par.size
    <2>1. par.size \in Nat
      BY PageType
    <2>2. mid \in Nat /\ n \in Nat /\ mid > 0 /\ n > 0 /\ mid + n = par.size
      BY <2>1, HalfBounds
    <2> HIDE DEF mid, n
    <2> QED  BY <2>1, <2>2
  <1> HIDE DEF mid, n
  <1>3. /\ new \in Page(Vals) /\ ~new.leaf /\ new.max = internal_max_size
    <2>1. internal_max_size \in Int
      BY DEF GoodSizes
    <2> QED  BY <2>1, InitPageIs
  <1> HIDE DEF new
  <1>4. g[P] \in Band /\ ~par.leaf /\ par.parent \in Int /\ par.max = internal_max_size
    <2>1. g[P] \in Band
      BY ShapeIs DEF Whole
    <2> QED  BY <2>1 DEF SameHeader, Page, FitsBand
  <1>5. KidsShared(low, high0, par, g[P], m)
    BY <1>2, <1>3, <1>4, KidsSharedIs
  <1>6. low \in Page(Vals) /\ SameHeader(par, low) /\ low.size = mid
    BY <1>2, LowerIs
  <1>7. high0 \in Page(Vals) /\ SameHeader(new, high0) /\ high0.size = n
    BY <1>2, <1>3, UpperIs
  <1> HIDE DEF low, high0, m
  <1>8. /\ high \in Page(Vals) /\ SameBody(high0, high) /\ high.parent = par.parent
        /\ high.size = n /\ high.max = internal_max_size /\ ~high.leaf
    BY <1>3, <1>4, <1>7 DEF Page, SameBody, SameHeader
  <1> HIDE DEF high
  <1>9. KidsShared(low, high, par, g[P], m)
    <2> DEFINE bh == [lev |-> g[P].lev, lo |-> m, hi |-> g[P].hi]
    <2>1. Kids(high, bh) = Kids(high0, bh) /\ (FitsBand(high, bh) <=> FitsBand(high0, bh))
      <3> HIDE DEF bh
      <3> QED  BY <1>8, SameBodyIs
    <2> QED  BY <1>5, <1>8, <2>1 DEF KidsShared
  <1>10. np \in Nat /\ np \notin DOMAIN t
    BY PagesAre
  <1>11. /\ moved \in Pages /\ DOMAIN moved = DOMAIN t /\ NewId(moved) = np
         /\ \A q \in DOMAIN t : moved[q] = IF \E i \in Used(high0) : high0.slot[i].val = q
                                           THEN [t[q] EXCEPT !.parent = np] ELSE t[q]
    <2>1. np \in Int
      BY <1>10
    <2> HIDE DEF np
    <2> QED  BY <2>1, SetParentsIs DEF np
  <1> HIDE DEF moved
  <1>12. s1 \in Pages /\ DOMAIN s1 = DOMAIN t /\ NewId(s1) = np
         /\ s1[P] = low /\ \A q \in DOMAIN t : q # P => s1[q] = moved[q]
    BY <1>6, <1>11, PagesPut
  <1> HIDE DEF s1
  <1>13. /\ s \in Pages /\ NewId(s) = np + 1 /\ DOMAIN s = DOMAIN t \cup {np} /\ s[np] = high
         /\ \A q \in DOMAIN t : s[q] = s1[q]
    <2>1. /\ s \in Pages /\ NewId(s) = NewId(s1) + 1 /\ DOMAIN s = DOMAIN s1 \cup {NewId(s1)}
          /\ s[NewId(s1)] = high
          /\ \A q \in DOMAIN s1 : s[q] = s1[q]
      BY <1>8, <1>12, PagesAdd
    <2> HIDE DEF np, s
    <2> QED  BY <1>12, <2>1
  <1> HIDE DEF s
  <1>14. t1 \in Pages /\ DOMAIN t1 = DOMAIN t /\ NewId(t1) = np
         /\ t1[P] = par /\ \A q \in DOMAIN t : q # P => t1[q] = t[q]
    BY PagesPut
  <1>15. Whole(t1, top, g)
    OBVIOUS
  <1> HIDE DEF t1
  <1>16. KidsMoved(s, t1, P, np, low, high)
    <2>1. high.slot = high0.slot /\ Used(high) = Used(high0)
      BY <1>8 DEF SameBody, Used
    <2>2. ASSUME NEW r \in DOMAIN t1, r # P
          PROVE  s[r] = IF \E i \in Used(high) : high.slot[i].val = r
                        THEN [t1[r] EXCEPT !.parent = np] ELSE t1[r]
      BY <1>11, <1>12, <1>13, <1>14, <2>1, <2>2
    <2> QED  BY <1>12, <1>13, <1>14, <2>2 DEF KidsMoved
  <1>17. low.parent = par.parent /\ ~low.leaf /\ low.max = internal_max_size
    BY <1>4, <1>6 DEF SameHeader
  <1>18. Shape(s, top, h, P, np)
    <2> HIDE DEF np, h
    <2>1. ~t1[P].leaf /\ low.parent = t1[P].parent /\ high.parent = t1[P].parent
      BY <1>4, <1>8, <1>14, <1>17
    <2>2. KidsShared(low, high, t1[P], g[P], m) /\ KidsMoved(s, t1, P, NewId(t1), low, high)
      BY <1>9, <1>14, <1>16
    <2>3. Shape(s, top, SplitBand(g, P, NewId(t1), m), P, NewId(t1))
      BY <1>8, <1>15, <1>17, <2>1, <2>2, InternalDivided
    <2> QED  BY <1>14, <2>3 DEF h
  <1>19. /\ DOMAIN h = DOMAIN g \cup {np} /\ h[np].lo = m
         /\ \A q \in DOMAIN g : h[q].lev = g[q].lev
    <2>1. np \notin DOMAIN g /\ m \in Nat
      <3>1. DOMAIN g \subseteq DOMAIN t
        BY <1>14, <1>15, ShapeIs DEF Whole
      <3> QED  BY <1>9, <1>10, <3>1 DEF KidsShared
    <2> HIDE DEF np
    <2>2. IsSplitBand(h, g, P, np, m)
      BY <1>15, <2>1, SplitBandIs
    <2> QED  BY <2>2 DEF IsSplitBand
  <1>20. \A q \in DOMAIN t : q # P => SameBody(t[q], s[q])
    <2> SUFFICES ASSUME NEW q \in DOMAIN t, q # P PROVE SameBody(t[q], s[q])
      OBVIOUS
    <2>1. s[q] = moved[q] /\ t[q] \in Page(Vals)
      BY <1>12, <1>13, PagesAre
    <2> QED  BY <1>11, <2>1 DEF SameBody, Page
  <1>21. s[P] = low
    BY <1>12, <1>13
  <1> HIDE DEF h
  <1> QED  BY <1>1, <1>6, <1>8, <1>10, <1>13, <1>17, <1>18, <1>19, <1>20, <1>21 DEF h, mid, n, IsSplit

Calls == [pg : Pages, root : Int, p : Int, old : Int, key : Int, new : Int]

Awaits(u, g) ==
    /\ u.p # Invalid /\ u.p = u.pg[u.old].parent /\ u.key = g[u.new].lo
    /\ Pending(u.pg, u.root, g, u.old, u.new)

Finished(u, g) == u.p = Invalid /\ Tree(u.pg, u.root, g)

\* One level up or done, with the same entries.
Climbs(u, g, w, h) ==
    /\ w \in Calls /\ Content(w.pg, h) = Content(u.pg, g)
    /\ \/ Finished(w, h)
       \/ Awaits(w, h) /\ h[w.root].lev = g[u.root].lev /\ h[w.old].lev = g[u.old].lev + 1

LEMMA InsertCallStep ==
    ASSUME NEW u \in Calls, NEW g, Awaits(u, g), GoodSizes
    PROVE  \E h : Climbs(u, g, InsertCall(u), h)
  <1> DEFINE t == u.pg
             top == u.root
             P == u.p
             par == InsertNodeAfter(t[P], u.old, u.key, u.new)
             np == NewId(t)
             t1 == [t EXCEPT ![P] = par]
             s == SplitPages(t, P, par)
             h == SplitBand(g, P, np, Middle(par))
             grown == GrowRoot(s, P, Middle(par), np)
  <1>1. /\ Pending(t, top, g, u.old, u.new) /\ P # Invalid /\ P = t[u.old].parent
        /\ u.key = g[u.new].lo
    BY DEF Awaits
  <1>2. /\ Shape(t, top, g, u.old, u.new) /\ Sized(t, g) /\ Forked(t, top) /\ g[top].lev < np
    BY <1>1 DEF Pending
  <1>3. /\ P \in DOMAIN g /\ ~t[P].leaf /\ g[P].lev = g[u.old].lev + 1
        /\ par \in Page(Vals) /\ SameHeader(t[P], par) /\ par.size = t[P].size + 1
        /\ FitsBand(par, g[P])
        /\ Whole(t1, top, g)
    <2> HIDE DEF t, top, P
    <2>1. par = InsertNodeAfter(t[P], u.old, g[u.new].lo, u.new)
      BY <1>1
    <2> HIDE DEF par
    <2>2. ParentTold(t, top, g, u.old, t[u.old].parent,
                     InsertNodeAfter(t[t[u.old].parent], u.old, g[u.new].lo, u.new))
      BY <1>1, ParentIs
    <2>3. ParentTold(t, top, g, u.old, P, par)
      BY <1>1, <2>1, <2>2
    <2> QED  BY <2>3 DEF ParentTold
  <1>4. /\ t \in Pages /\ top \in DOMAIN g /\ DOMAIN g \subseteq DOMAIN t
        /\ t \in Pages /\ top \in Int /\ P \in Int /\ P \in DOMAIN t
        /\ \A q \in DOMAIN g : t[q] \in Page(Vals) /\ q \in DOMAIN t /\ q # Invalid
        /\ \A q \in DOMAIN g : g[q] \in Band
    BY <1>2, <1>3, ShapeIs
  <1>5. InsertCall(u) = IF par.size <= par.max THEN [u EXCEPT !.pg[P] = par, !.p = Invalid]
                        ELSE IF IsRootPage(par)
                             THEN [u EXCEPT !.pg = grown.pg, !.root = grown.root, !.p = Invalid]
                        ELSE [u EXCEPT !.pg = s, !.p = par.parent, !.old = P,
                                       !.key = Middle(par), !.new = np]
    BY <1>1 DEF InsertCall, SplitPages, Half, Middle
  <1> HIDE DEF par
  <1>6. /\ par.max = internal_max_size /\ par.size \in Nat /\ ~par.leaf /\ par.parent = t[P].parent
        /\ par.size >= 2 /\ par.size <= internal_max_size + 1 /\ par.parent \in Int
    <2>1. par.max = t[P].max /\ ~par.leaf /\ par.parent = t[P].parent /\ par.parent \in Int
      BY <1>3 DEF SameHeader, Page
    <2>2. par.max = internal_max_size
      BY <1>3, <2>1 DEF FitsBand
    <2>3. t[P].size >= 1 /\ t[P].size <= t[P].max /\ t[P].size \in Nat
      BY <1>2, <1>3, <1>4, PageType DEF Sized
    <2> QED  BY <1>3, <2>1, <2>2, <2>3 DEF GoodSizes
  <1>7. t1 \in Pages /\ NewId(t1) = np /\ t1[P] = par /\ \A q \in DOMAIN t : q # P => t1[q] = t[q]
    BY <1>3, <1>4, PagesPut
  <1>8. CASE par.size <= par.max
    <2> DEFINE w == [u EXCEPT !.pg[P] = par, !.p = Invalid]
    <2>1. w = InsertCall(u) /\ w.pg = t1 /\ w.root = top /\ w.p = Invalid /\ w \in Calls
      <3>1. w = [u EXCEPT !.pg = t1, !.p = Invalid]
        BY DEF Calls
      <3>2. w = InsertCall(u)
        BY <1>5, <1>8
      <3>3. t1 \in Pages /\ Invalid \in Int
        BY <1>7 DEF Invalid
      <3> HIDE DEF w, t1
      <3> QED  BY <3>1, <3>2, <3>3 DEF Calls
    <2> HIDE DEF w, t1
    <2>2. Sized(t1, g)
      BY <1>2, <1>4, <1>6, <1>7, <1>8 DEF Sized
    <2>3. Forked(t1, top)
      <3>1. CASE top = P
        BY <1>6, <1>7, <3>1 DEF Forked
      <3>2. CASE top # P
        BY <1>2, <1>4, <1>7, <3>2 DEF Forked
      <3> QED  BY <3>1, <3>2
    <2>4. Finished(w, g)
      BY <1>2, <1>3, <1>7, <2>1, <2>2, <2>3 DEF Finished, Tree
    <2>5. Content(t1, g) = Content(t, g)
      BY <1>3, <1>4, <1>6, <1>7, ContentSame
    <2> QED  BY <2>1, <2>4, <2>5 DEF Climbs
  <1>9. /\ Shape(s, top, h, P, np)
        /\ NewId(s) = np + 1 /\ np \notin DOMAIN t
        /\ DOMAIN h = DOMAIN g \cup {np}
        /\ h[np].lo = Middle(par)
        /\ \A q \in DOMAIN g : h[q].lev = g[q].lev
        /\ s[P].size = par.size \div 2 /\ s[P].max = internal_max_size
        /\ s[np].size = par.size - (par.size \div 2) /\ s[np].max = internal_max_size
        /\ ~s[P].leaf /\ ~s[np].leaf /\ s[P].parent = par.parent
        /\ \A q \in DOMAIN t : q # P => SameBody(t[q], s[q])
    <2> HIDE DEF t, P, top
    <2>1. IsSplit(t, top, g, P, par, s, h)
      BY <1>3, <1>4, <1>6, ParentDivided
    <2> HIDE DEF s, h
    <2> QED  BY <2>1 DEF IsSplit
  <1> HIDE DEF s, h, t1
  <1>10. /\ s \in Pages /\ np \in Nat /\ Middle(par) \in Int
         /\ np \in DOMAIN h /\ h[np] \in Band
    <2>1. s \in Pages /\ np \in Nat
      BY <1>4, <1>9, ShapeIs, PagesAre
    <2>2. np \in DOMAIN h
      BY <1>9
    <2>3. h[np] \in Band
      BY <1>9, <2>2, ShapeIs
    <2>4. h[np].lo \in Nat
      BY <2>3 DEF Band
    <2> QED  BY <1>9, <2>1, <2>2, <2>3, <2>4
  <1>11. Content(s, h) = Content(t, g)
    <2>1. \A q \in DOMAIN g : t[q].leaf =>
             q \in DOMAIN h /\ s[q].leaf /\ Entries(s[q]) = Entries(t[q])
      <3> SUFFICES ASSUME NEW q \in DOMAIN g, t[q].leaf
                   PROVE  q \in DOMAIN h /\ s[q].leaf /\ Entries(s[q]) = Entries(t[q])
        OBVIOUS
      <3>1. q # P /\ SameBody(t[q], s[q])
        BY <1>3, <1>4, <1>9
      <3> QED  BY <1>9, <3>1, SameBodyIs DEF SameBody
    <2>2. \A q \in DOMAIN h : s[q].leaf => q \in DOMAIN g /\ t[q].leaf
      BY <1>4, <1>9 DEF SameBody
    <2> HIDE DEF np, t
    <2> QED  BY <2>1, <2>2, ContentSame
  <1>12. Sized(s, h) \/ par.size <= par.max
    <2> SUFFICES ASSUME ~(par.size <= par.max), NEW q \in DOMAIN h
                 PROVE  s[q].size >= 1 /\ s[q].size <= s[q].max
      BY DEF Sized
    <2>1. CASE q # P /\ q # np
      <3>1. q \in DOMAIN g /\ SameBody(t[q], s[q])
        BY <1>4, <1>9, <2>1
      <3> QED  BY <1>2, <3>1 DEF Sized, SameBody
    <2>2. CASE q = P \/ q = np
      <3> DEFINE d == par.size \div 2
      <3>1. /\ d > 0 /\ par.size - d > 0 /\ d < par.size /\ par.size - d < par.size /\ d \in Nat
        BY <1>6, HalfBounds
      <3>2. s[P].size = d /\ s[np].size = par.size - d
        BY <1>9
      <3> HIDE DEF d
      <3>3. internal_max_size \in Nat
        BY DEF GoodSizes
      <3> QED  BY <1>6, <1>9, <2>2, <3>1, <3>2, <3>3
    <2> QED  BY <2>1, <2>2
  <1>13. CASE ~(par.size <= par.max) /\ IsRootPage(par)
    <2> DEFINE w == InsertCall(u)
               H == RootBand(h, P, grown.root)
    <2>1. P = top
      <3>1. t[P].parent = Invalid
        BY <1>6, <1>13 DEF IsRootPage
      <3>2. Placed(t1, top, g, Invalid, Invalid, P)
        BY <1>3, ShapeIs DEF Whole
      <3>3. P # top => t1[P].parent \in DOMAIN g
        BY <1>1, <3>2 DEF Placed
      <3> QED  BY <1>4, <1>6, <1>7, <3>1, <3>3
    <2>2. 1 \in Slots /\ internal_max_size \in Int
      BY MaxSlotAssumption DEF GoodSizes, Slots
    <2>3. /\ grown.root = NewId(s) /\ grown.root \notin DOMAIN s
          /\ Whole(grown.pg, grown.root, H)
          /\ NewId(grown.pg) = NewId(s) + 1
          /\ grown.pg[grown.root].size = 2 /\ ~grown.pg[grown.root].leaf
          /\ grown.pg[grown.root].max = internal_max_size
          /\ \A q \in DOMAIN s : SameBody(s[q], grown.pg[q])
      <3>1. Shape(s, P, h, P, np) /\ Middle(par) = h[np].lo
        BY <1>9, <2>1
      <3> HIDE DEF np, P
      <3> QED  BY <2>2, <3>1, RootGrown
    <2>4. w.pg = grown.pg /\ w.root = grown.root /\ w.p = Invalid /\ w \in Calls
      <3>1. w = [u EXCEPT !.pg = grown.pg, !.root = grown.root, !.p = Invalid]
        BY <1>5, <1>13
      <3>2. grown.pg \in Pages /\ grown.root \in Int
        <4>1. grown.pg \in Pages
          BY <2>3, ShapeIs DEF Whole
        <4> QED  BY <1>10, <2>3, <4>1, PagesAre
      <3>3. Invalid \in Int
        BY DEF Invalid
      <3> HIDE DEF grown, w
      <3> QED  BY <3>1, <3>2, <3>3 DEF Calls
    <2> HIDE DEF w, grown
    <2>5. /\ DOMAIN H = DOMAIN h \cup {grown.root}
          /\ DOMAIN h \subseteq DOMAIN s
          /\ H[grown.root].lev = h[P].lev + 1
      BY <1>9, ShapeIs DEF RootBand
    <2> HIDE DEF H
    <2>6. Sized(grown.pg, H)
      <3> SUFFICES ASSUME NEW q \in DOMAIN H
                   PROVE  grown.pg[q].size >= 1 /\ grown.pg[q].size <= grown.pg[q].max
        BY DEF Sized
      <3>1. CASE q = grown.root
        BY <2>3, <3>1 DEF GoodSizes
      <3>2. CASE q # grown.root
        <4>1. q \in DOMAIN h /\ SameBody(s[q], grown.pg[q])
          BY <2>3, <2>5, <3>2
        <4> QED  BY <1>12, <1>13, <4>1 DEF Sized, SameBody
      <3> QED  BY <3>1, <3>2
    <2>7. H[grown.root].lev < NewId(grown.pg)
      <3>1. h[P].lev = g[top].lev /\ g[top].lev < np /\ g[top].lev \in Nat
        BY <1>2, <1>4, <1>9, <2>1 DEF Band
      <3>2. NewId(grown.pg) = (np + 1) + 1
        BY <1>9, <2>3
      <3> HIDE DEF np
      <3> QED  BY <1>10, <2>5, <3>1, <3>2
    <2>8. Finished(w, H)
      BY <2>3, <2>4, <2>6, <2>7 DEF Finished, Tree, Forked
    <2>9. Content(grown.pg, H) = Content(s, h)
      <3>1. \A q \in DOMAIN h : s[q].leaf =>
               q \in DOMAIN H /\ grown.pg[q].leaf /\ Entries(grown.pg[q]) = Entries(s[q])
        BY <2>3, <2>5, SameBodyIs DEF SameBody
      <3>2. \A q \in DOMAIN H : grown.pg[q].leaf => q \in DOMAIN h /\ s[q].leaf
        BY <2>3, <2>5 DEF SameBody
      <3> QED  BY <3>1, <3>2, ContentSame
    <2>10. Climbs(u, g, w, H)
      BY <1>11, <2>4, <2>8, <2>9 DEF Climbs
    <2> QED  BY <2>10 DEF w
  <1>14. CASE ~(par.size <= par.max) /\ ~IsRootPage(par)
    <2> DEFINE w == InsertCall(u)
    <2>1. /\ w.pg = s /\ w.root = top /\ w.p = par.parent /\ w.old = P /\ w.key = Middle(par)
          /\ w.new = np /\ w \in Calls
      <3>1. w = [u EXCEPT !.pg = s, !.p = par.parent, !.old = P, !.key = Middle(par), !.new = np]
        BY <1>5, <1>14
      <3>2. np \in Int
        BY <1>10
      <3> HIDE DEF np
      <3> QED  BY <1>4, <1>6, <1>10, <3>1, <3>2 DEF Calls
    <2> HIDE DEF w
    <2>2. P # top
      <3>1. t1[top].parent = Invalid
        BY <1>3, WholeIs
      <3> QED  BY <1>7, <1>14, <3>1 DEF IsRootPage
    <2>3. Sized(s, h)
      BY <1>12, <1>14
    <2>4. Forked(s, top)
      <3>1. SameBody(t[top], s[top])
        BY <1>4, <1>9, <2>2
      <3> QED  BY <1>2, <3>1 DEF Forked, SameBody
    <2>5. h[top].lev < NewId(s) /\ h[top].lev = g[top].lev
      <3>1. h[top].lev = g[top].lev /\ g[top].lev \in Nat
        BY <1>4, <1>9 DEF Band
      <3>2. NewId(s) = np + 1 /\ np \in Nat /\ g[top].lev < np
        BY <1>2, <1>9, <1>10
      <3> HIDE DEF np
      <3> QED  BY <3>1, <3>2
    <2>6. Pending(s, top, h, P, np)
      BY <1>1, <1>9, <2>2, <2>3, <2>4, <2>5 DEF Pending
    <2>7. w.p # Invalid /\ w.p = s[P].parent
      BY <1>9, <1>14, <2>1 DEF IsRootPage
    <2>8. Awaits(w, h)
      BY <1>9, <2>1, <2>6, <2>7 DEF Awaits
    <2>9. h[w.old].lev = g[u.old].lev + 1 /\ h[w.root].lev = g[u.root].lev
      BY <1>3, <1>9, <2>1, <2>5
    <2>10. Climbs(u, g, w, h)
      BY <1>11, <2>1, <2>8, <2>9 DEF Climbs
    <2> QED  BY <2>10 DEF w
  <1> QED  BY <1>8, <1>13, <1>14

InsertLoop(x, c) ==
    c = [n \in Nat |-> IF n = 0 THEN {x} ELSE {InsertCall(u) : u \in c[n - 1]}]

LEMMA InsertLoopIs ==
    ASSUME NEW S, NEW f, NEW x, NEW r, RunsOn(S, f, x, r), \A u \in S : f[u] = InsertCall(u),
           NEW n \in Nat
    PROVE  (CHOOSE c : InsertLoop(x, c))[n] = {r[n]}
  <1> DEFINE c == CHOOSE c : InsertLoop(x, c)
             d == [m \in Nat |-> {r[m]}]
  <1>1. /\ r \in [Nat -> S] /\ r[0] = x
        /\ \A m \in Nat : r[m + 1] = InsertCall(r[m])
    BY DEF RunsOn
  <1>2. InsertLoop(x, d)
    <2>1. ASSUME NEW m \in Nat
          PROVE  d[m] = IF m = 0 THEN {x} ELSE {InsertCall(u) : u \in d[m - 1]}
      <3>1. CASE m = 0
        BY <1>1, <3>1
      <3>2. CASE m # 0
        <4>1. m - 1 \in Nat /\ (m - 1) + 1 = m
          BY <3>2
        <4>2. d[m - 1] = {r[m - 1]} /\ r[m] = InsertCall(r[m - 1])
          BY <1>1, <4>1
        <4>3. d[m] = {r[m]} /\ {InsertCall(u) : u \in {r[m - 1]}} = {InsertCall(r[m - 1])}
          OBVIOUS
        <4> HIDE DEF d
        <4> QED  BY <3>2, <4>2, <4>3
      <3> QED  BY <3>1, <3>2
    <2>2. d = [m \in Nat |-> d[m]]
      OBVIOUS
    <2> HIDE DEF d
    <2> QED  BY <2>1, <2>2 DEF InsertLoop
  <1>3. InsertLoop(x, c)
    <2> HIDE DEF d
    <2> QED  BY <1>2
  <1> HIDE DEF c
  <1> DEFINE Q == {m \in Nat : c[m] = {r[m]}}
  <1>4. 0 \in Q
    BY <1>1, <1>3 DEF InsertLoop
  <1>5. ASSUME NEW m \in Q PROVE m + 1 \in Q
    <2>1. m \in Nat /\ m + 1 \in Nat /\ m + 1 # 0 /\ (m + 1) - 1 = m
      OBVIOUS
    <2>2. c[m + 1] = {InsertCall(u) : u \in c[(m + 1) - 1]}
      BY <1>3, <2>1 DEF InsertLoop
    <2>3. c[m + 1] = {InsertCall(u) : u \in {r[m]}}
      BY <2>1, <2>2
    <2> QED  BY <1>1, <2>1, <2>3
  <1>6. Q = Nat
    <2> HIDE DEF Q
    <2>1. Q \in SUBSET Nat
      BY DEF Q
    <2> QED  BY <1>4, <1>5, <2>1, Inductive
  <1>7. c[n] = {r[n]}
    BY <1>6
  <1> QED  BY <1>7 DEF c

OnTheWay(u, C) == \E h : Content(u.pg, h) = C /\ (Finished(u, h) \/ Awaits(u, h))

\* After m calls.
Climbed(u, C, m, L) ==
    \E h : /\ Content(u.pg, h) = C
           /\ \/ Finished(u, h)
              \/ Awaits(u, h) /\ h[u.root].lev = L /\ h[u.old].lev >= m

LEMMA InsertIntoParentIs ==
    ASSUME NEW s, NEW p, NEW old, NEW k, NEW new, NEW g, GoodSizes,
           NEW x \in Calls,
           x = [pg |-> s.pg, root |-> s.root, p |-> p, old |-> old, key |-> k, new |-> new],
           Awaits(x, g)
    PROVE  LET w == InsertIntoParent(s, p, old, k, new)
           IN  \E h : Tree(w.pg, w.root, h) /\ Content(w.pg, h) = Content(s.pg, g)
  <1> DEFINE C == Content(s.pg, g)
             S == {u \in Calls : OnTheWay(u, C)}
             f == [u \in S |-> InsertCall(u)]
             N == NewId(s.pg)
             L == g[s.root].lev
  <1>1. x.pg = s.pg /\ x.root = s.root /\ x.old = old
    OBVIOUS
  <1>2. ASSUME NEW u \in Calls, NEW h, Finished(u, h) PROVE InsertCall(u) = u
    BY <1>2 DEF Finished, InsertCall
  <1>3. ASSUME NEW u \in S PROVE InsertCall(u) \in S
    <2>1. PICK h : Content(u.pg, h) = C /\ (Finished(u, h) \/ Awaits(u, h))
      BY DEF OnTheWay
    <2>2. CASE Finished(u, h)
      BY <1>2, <2>2
    <2>3. CASE Awaits(u, h)
      <3>1. PICK h2 : Climbs(u, h, InsertCall(u), h2)
        BY <2>3, InsertCallStep
      <3> HIDE DEF C
      <3> QED  BY <2>1, <3>1 DEF Climbs, OnTheWay
    <2> QED  BY <2>1, <2>2, <2>3
  <1>4. x \in S
    BY <1>1 DEF OnTheWay
  <1>5. f \in [S -> S] /\ \A u \in S : f[u] = InsertCall(u)
    <2> HIDE DEF S
    <2> QED  BY <1>3
  <1> HIDE DEF S, f
  <1>6. PICK r : RunsOn(S, f, x, r)
    BY <1>4, <1>5, Iterates
  <1>7. N \in Nat /\ L \in Nat /\ L < N
    <2>1. Pending(x.pg, x.root, g, x.old, x.new)
      BY DEF Awaits
    <2>2. g[s.root].lev < NewId(s.pg) /\ Shape(s.pg, s.root, g, x.old, x.new)
      BY <1>1, <2>1 DEF Pending
    <2>3. s.pg \in Pages /\ g[s.root] \in Band
      BY <2>2, ShapeIs
    <2> QED  BY <2>2, <2>3, PagesAre DEF Band
  <1>8. InsertIntoParent(s, p, old, k, new) = CHOOSE u \in (CHOOSE c : InsertLoop(x, c))[N] : TRUE
    BY DEF InsertIntoParent, InsertLoop
  <1>9. InsertIntoParent(s, p, old, k, new) = r[N]
    <2>1. (CHOOSE c : InsertLoop(x, c))[N] = {r[N]}
      <3> HIDE DEF N
      <3> QED  BY <1>5, <1>6, <1>7, InsertLoopIs
    <2> QED  BY <1>8, <2>1
  <1> HIDE DEF N, L, C
  <1> DEFINE Q == {m \in Nat : r[m] \in Calls /\ Climbed(r[m], C, m, L)}
  <1>10. 0 \in Q
    <2>1. r[0] = x
      BY <1>6 DEF RunsOn
    <2>2. g[x.old].lev \in Nat /\ g[x.old].lev >= 0
      <3>1. Shape(x.pg, x.root, g, x.old, x.new) /\ x.old # Invalid
        BY DEF Awaits, Pending
      <3>2. Divided(x.pg, x.root, g, x.old, x.new)
        BY <3>1, ShapeIs
      <3>3. g[x.old] \in Band
        BY <3>1, <3>2, ShapeIs DEF Divided
      <3> QED  BY <3>3 DEF Band
    <2>3. Climbed(x, C, 0, L)
      BY <1>1, <2>2 DEF Climbed, C, L
    <2> QED  BY <2>1, <2>3
  <1>11. ASSUME NEW m \in Q PROVE m + 1 \in Q
    <2>1. m \in Nat /\ r[m] \in Calls /\ Climbed(r[m], C, m, L)
      OBVIOUS
    <2>2. r[m + 1] = InsertCall(r[m])
      BY <1>5, <1>6, <2>1 DEF RunsOn
    <2> DEFINE u == r[m]
    <2> HIDE DEF u, Q
    <2>3. PICK h : /\ Content(u.pg, h) = C
                   /\ \/ Finished(u, h)
                      \/ Awaits(u, h) /\ h[u.root].lev = L /\ h[u.old].lev >= m
      BY <2>1 DEF Climbed, u
    <2>4. CASE Finished(u, h)
      <3>1. InsertCall(u) = u
        BY <1>2, <2>1, <2>4 DEF u
      <3>2. Climbed(u, C, m + 1, L)
        BY <2>3, <2>4 DEF Climbed
      <3> QED  BY <2>1, <2>2, <3>1, <3>2 DEF u, Q
    <2>5. CASE Awaits(u, h) /\ h[u.root].lev = L /\ h[u.old].lev >= m
      <3> DEFINE w == InsertCall(u)
      <3>1. PICK h2 : Climbs(u, h, w, h2)
        BY <2>1, <2>5, InsertCallStep DEF u
      <3> HIDE DEF w
      <3>2. h[u.old].lev \in Nat
        <4>1. Shape(u.pg, u.root, h, u.old, u.new) /\ u.old # Invalid
          BY <2>5 DEF Awaits, Pending
        <4>2. Divided(u.pg, u.root, h, u.old, u.new)
          BY <4>1, ShapeIs
        <4>3. h[u.old] \in Band
          BY <4>1, <4>2, ShapeIs DEF Divided
        <4> QED  BY <4>3 DEF Band
      <3>3. h[u.old].lev + 1 >= m + 1
        BY <2>1, <2>5, <3>2
      <3>4. Climbed(w, C, m + 1, L) /\ w \in Calls
        BY <2>3, <2>5, <3>1, <3>3 DEF Climbs, Climbed
      <3> QED  BY <2>1, <2>2, <3>4 DEF u, w, Q
    <2> QED  BY <2>3, <2>4, <2>5
  <1>12. Q = Nat
    <2> HIDE DEF Q
    <2>1. Q \in SUBSET Nat
      BY DEF Q
    <2> QED  BY <1>10, <1>11, <2>1, Inductive
  <1>13. Climbed(r[N], C, N, L)
    BY <1>7, <1>12
  <1> DEFINE w == r[N]
  <1>14. PICK h : /\ Content(w.pg, h) = C
                  /\ \/ Finished(w, h)
                     \/ Awaits(w, h) /\ h[w.root].lev = L /\ h[w.old].lev >= N
    BY <1>13 DEF Climbed
  <1> HIDE DEF w
  <1>15. ~(Awaits(w, h) /\ h[w.root].lev = L /\ h[w.old].lev >= N)
    <2> SUFFICES ASSUME Awaits(w, h), h[w.root].lev = L, h[w.old].lev >= N PROVE FALSE
      OBVIOUS
    <2>1. Shape(w.pg, w.root, h, w.old, w.new) /\ w.old # Invalid /\ w.old # w.root
      BY DEF Awaits, Pending
    <2>2. Divided(w.pg, w.root, h, w.old, w.new)
      BY <2>1, ShapeIs
    <2>3. w.old \in DOMAIN h /\ w.old # w.new
      BY <2>1, <2>2 DEF Divided
    <2>4. h[w.old] \in Band /\ Placed(w.pg, w.root, h, w.old, w.new, w.old)
      BY <2>1, <2>3, ShapeIs
    <2>5. h[w.old].lev < L /\ h[w.old].lev \in Nat
      BY <2>1, <2>3, <2>4 DEF Placed, Band
    <2> QED  BY <1>7, <2>5
  <1> QED  BY <1>9, <1>14, <1>15 DEF Finished, w, C
-----------------------------------------------------------------------------
(* Insert. *)

WithEntry(C, k, v) == IF \E e \in C : e.key = k THEN C ELSE C \cup {Slot(k, v)}

\* Page `leaf` is leaf q with the entry put in.
EntryPut(t, top, g, k, v, q, leaf) ==
    /\ q \in DOMAIN g /\ t[q].leaf /\ InRange(g[q], k)
    /\ leaf \in Page(Vals) /\ SameHeader(t[q], leaf) /\ Ordered(leaf) /\ FitsBand(leaf, g[q])
    /\ leaf.size >= 1 /\ leaf.size <= leaf_max_size + 1
    /\ Whole([t EXCEPT ![q] = leaf], top, g)
    /\ Content([t EXCEPT ![q] = leaf], g) = WithEntry(Content(t, g), k, v)

LEMMA EntryPutIs ==
    ASSUME NEW t, NEW top, NEW g, Tree(t, top, g), GoodSizes, NEW k \in Keys, NEW v \in RIDs
    PROVE  EntryPut(t, top, g, k, v, FindLeaf(t, top, k),
                    LeafInsert(t[FindLeaf(t, top, k)], k, v))
  <1> DEFINE q == FindLeaf(t, top, k)
             leaf == LeafInsert(t[q], k, v)
             C == Content(t, g)
             e0 == Slot(k, v)
  <1>1. Whole(t, top, g) /\ Sized(t, g) /\ g[top].lev < NewId(t)
    BY DEF Tree
  <1>2. k \in Nat /\ k \in Int /\ k < Supremum
    BY SupremumIs
  <1>3. q \in DOMAIN g /\ t[q].leaf /\ InRange(g[q], k)
    BY <1>1, <1>2, DescentCorrect
  <1> HIDE DEF q
  <1>4. t[q] \in Page(Vals) /\ g[q] \in Band /\ FitsBand(t[q], g[q])
    BY <1>1, <1>3, WholeIs
  <1>5. /\ t[q].max = leaf_max_size /\ Ordered(t[q]) /\ t[q].size <= leaf_max_size /\ t[q].size >= 1
        /\ t[q].size \in Nat /\ MaxSlot \in Nat
    BY <1>1, <1>3, <1>4, PageType DEF FitsBand, Sized
  <1>6. t[q].size <= MaxSlot /\ v \in Vals
    BY <1>5 DEF GoodSizes, Vals
  <1>7. /\ leaf \in Page(Vals) /\ SameHeader(t[q], leaf) /\ Ordered(leaf)
        /\ IF \E e \in Entries(t[q]) : e.key = k
           THEN leaf = t[q]
           ELSE Entries(leaf) = Entries(t[q]) \cup {e0} /\ leaf.size = t[q].size + 1
    BY <1>2, <1>4, <1>5, <1>6, LeafInsertCorrect
  <1>8. e0.key = k
    BY DEF Slot
  <1> HIDE DEF leaf, e0
  <1>9. leaf.size >= 1 /\ leaf.size <= leaf_max_size + 1
    BY <1>5, <1>7 DEF GoodSizes
  <1>10. FitsBand(leaf, g[q])
    <2>1. leaf.leaf = t[q].leaf /\ leaf.max = t[q].max
      BY <1>7 DEF SameHeader
    <2>2. \A e \in Entries(leaf) : g[q].lo <= e.key /\ e.key < g[q].hi
      <3>1. \A e \in Entries(t[q]) : g[q].lo <= e.key /\ e.key < g[q].hi
        BY <1>3, <1>4 DEF FitsBand
      <3> QED  BY <1>3, <1>7, <1>8, <3>1 DEF InRange
    <2> QED  BY <1>3, <1>4, <1>7, <2>1, <2>2 DEF FitsBand
  <1>11. Whole([t EXCEPT ![q] = leaf], top, g)
    BY <1>1, <1>3, <1>7, <1>10, LeafReplaced
  <1>12. leaf.leaf
    BY <1>3, <1>7 DEF SameHeader
  <1>13. Content([t EXCEPT ![q] = leaf], g) = Entries(leaf) \cup {e \in C : ~InRange(g[q], e.key)}
    BY <1>1, <1>3, <1>12, LeafReplacedContent
  <1>14. Entries(t[q]) = {e \in C : InRange(g[q], e.key)}
    BY <1>1, <1>3, LeafHolds
  <1>15. (\E e \in Entries(t[q]) : e.key = k) <=> \E e \in C : e.key = k
    BY <1>3, <1>14
  <1> HIDE DEF C
  <1>16. Entries(leaf) \cup {e \in C : ~InRange(g[q], e.key)} = WithEntry(C, k, v)
    BY <1>7, <1>14, <1>15 DEF WithEntry, e0
  <1>17. EntryPut(t, top, g, k, v, q, leaf)
    BY <1>3, <1>7, <1>9, <1>10, <1>11, <1>13, <1>16 DEF EntryPut, C
  <1> QED  BY <1>17 DEF q, leaf

LowLeaf(leaf, n) ==
    [LeafMoveHalfTo(leaf, InitPage(TRUE, leaf_max_size))[1] EXCEPT !.next = n]
HighLeaf(leaf) ==
    [LeafMoveHalfTo(leaf, InitPage(TRUE, leaf_max_size))[2]
        EXCEPT !.next = leaf.next, !.parent = leaf.parent]
FirstKey(leaf) == LeafMoveHalfTo(leaf, InitPage(TRUE, leaf_max_size))[2].slot[0].key

IsLeafSplit(leaf, b, n, low, high, m) ==
    /\ low \in Page(Vals) /\ high \in Page(Vals) /\ m \in Nat
    /\ low.leaf /\ low.max = leaf_max_size /\ Ordered(low)
    /\ high.leaf /\ high.max = leaf_max_size /\ Ordered(high)
    /\ b.lo < m /\ m < b.hi
    /\ \A e \in Entries(low) : b.lo <= e.key /\ e.key < m
    /\ \A e \in Entries(high) : m <= e.key /\ e.key < b.hi
    /\ low.parent = leaf.parent /\ high.parent = leaf.parent
    /\ low.next = n /\ high.next = leaf.next
    /\ low.size >= 1 /\ low.size < leaf.size /\ high.size >= 1 /\ high.size < leaf.size
    /\ Entries(low) \cup Entries(high) = Entries(leaf)

LEMMA LeafSplitIs ==
    ASSUME NEW leaf \in Page(Vals), leaf.leaf, NEW b \in Band, FitsBand(leaf, b), leaf.size >= 2,
           GoodSizes, NEW n \in Int
    PROVE  IsLeafSplit(leaf, b, n, LowLeaf(leaf, n), HighLeaf(leaf), FirstKey(leaf))
  <1> DEFINE init == InitPage(TRUE, leaf_max_size)
             low0 == LeafMoveHalfTo(leaf, init)[1]
             high0 == LeafMoveHalfTo(leaf, init)[2]
             low == [low0 EXCEPT !.next = n]
             high == [high0 EXCEPT !.next = leaf.next, !.parent = leaf.parent]
             m == high0.slot[0].key
  <1>1. init \in Page(Vals) /\ init.leaf /\ init.max = leaf_max_size
    <2>1. leaf_max_size \in Int
      BY DEF GoodSizes
    <2> QED  BY <2>1, InitPageIs
  <1> HIDE DEF init
  <1>2. /\ Ordered(leaf) /\ leaf.max = leaf_max_size
        /\ \A e \in Entries(leaf) : b.lo <= e.key /\ e.key < b.hi
        /\ b.lo \in Nat /\ b.hi \in Nat
    BY DEF FitsBand, Band
  <1>3. /\ low0 \in Page(Vals) /\ SameHeader(leaf, low0) /\ Ordered(low0)
        /\ high0 \in Page(Vals) /\ SameHeader(init, high0) /\ Ordered(high0)
        /\ Entries(low0) \cup Entries(high0) = Entries(leaf)
        /\ Precedes(low0, high0)
        /\ low0.size = leaf.size \div 2 /\ low0.size + high0.size = leaf.size
    BY <1>1, <1>2, LeafSplitCorrect
  <1> HIDE DEF low0, high0
  <1>4. /\ low0.size \in Nat /\ high0.size \in Nat /\ leaf.size \in Nat
        /\ low0.size >= 1 /\ low0.size < leaf.size /\ high0.size >= 1 /\ high0.size < leaf.size
    <2>1. low0.size \in Nat /\ high0.size \in Nat /\ leaf.size \in Nat
      BY <1>3, PageType
    <2>2. low0.size > 0 /\ low0.size < leaf.size
      BY <1>3, <2>1, HalfBounds
    <2>3. low0.size + high0.size = leaf.size
      BY <1>3
    <2> QED  BY ONLY <2>1, <2>2, <2>3
  <1>5. /\ low \in Page(Vals) /\ SameBody(low0, [low EXCEPT !.next = low0.next])
        /\ low.leaf = low0.leaf /\ low.max = low0.max /\ low.size = low0.size
        /\ low.slot = low0.slot /\ low.parent = low0.parent /\ low.next = n
    BY <1>3 DEF Page, SameBody
  <1>6. /\ high \in Page(Vals)
        /\ high.leaf = high0.leaf /\ high.max = high0.max /\ high.size = high0.size
        /\ high.slot = high0.slot /\ high.parent = leaf.parent /\ high.next = leaf.next
    BY <1>3 DEF Page
  <1> HIDE DEF low, high
  <1>7. /\ Entries(low) = Entries(low0) /\ (Ordered(low) <=> Ordered(low0))
        /\ Entries(high) = Entries(high0) /\ (Ordered(high) <=> Ordered(high0))
    BY <1>5, <1>6 DEF Entries, Ordered, Used
  <1>8. high0.slot[0] \in Entries(high0) /\ low0.slot[0] \in Entries(low0)
    <2>1. 0 \in Used(high0) /\ 0 \in Used(low0)
      BY <1>4 DEF Used
    <2> QED  BY <2>1 DEF Entries
  <1>9. \A e \in Entries(high0) : m <= e.key
    <2> SUFFICES ASSUME NEW i \in Used(high0) PROVE m <= high0.slot[i].key
      BY DEF Entries
    <2>1. 0 \in Used(high0)
      BY <1>4 DEF Used
    <2>2. i \in Nat /\ m \in Int /\ high0.slot[i].key \in Int
      BY <1>3, <2>1, PageType
    <2>3. CASE i = 0
      BY <2>2, <2>3
    <2>4. CASE 0 < i
      <3>1. m < high0.slot[i].key
        BY <1>3, <2>1, <2>4 DEF Ordered
      <3> HIDE DEF m
      <3> QED  BY <2>2, <3>1
    <2> QED  BY <2>2, <2>3, <2>4
  <1>10. \A e \in Entries(low0) : e.key < m
    BY <1>3, <1>8 DEF Precedes
  <1>11. b.lo < m /\ m < b.hi /\ m \in Nat
    <2>1. m \in Int /\ low0.slot[0].key \in Int
      <3>1. high0.slot[0] \in Entry(Vals) /\ low0.slot[0] \in Entry(Vals)
        BY <1>3, <1>8, PageType
      <3> QED  BY <3>1 DEF Entry
    <2>2. b.lo <= low0.slot[0].key /\ low0.slot[0].key < m /\ m < b.hi
      BY <1>2, <1>3, <1>8, <1>10
    <2> HIDE DEF m
    <2> QED  BY <1>2, <2>1, <2>2
  <1>12. low0.leaf /\ low0.max = leaf_max_size /\ high0.leaf /\ high0.max = leaf_max_size
         /\ low0.parent = leaf.parent
    BY <1>1, <1>2, <1>3 DEF SameHeader
  <1> HIDE DEF m
  <1>13. IsLeafSplit(leaf, b, n, low, high, m)
    <2>1. \A e \in Entries(low) : b.lo <= e.key /\ e.key < m
      BY <1>2, <1>3, <1>7, <1>10
    <2>2. \A e \in Entries(high) : m <= e.key /\ e.key < b.hi
      BY <1>2, <1>3, <1>7, <1>9
    <2> QED  BY <1>3, <1>4, <1>5, <1>6, <1>7, <1>11, <1>12, <2>1, <2>2 DEF IsLeafSplit
  <1> QED  BY <1>13 DEF low, high, m, low0, high0, init, LowLeaf, HighLeaf, FirstKey

Grown(w, C) == \E h : Tree(w.pg, w.root, h) /\ Content(w.pg, h) = C

(***************************************************************************)
(* Insert into a tree that is not empty: whatever splits it makes, up to a *)
(* new root, it leaves a tree whose leaves hold the new entry besides the  *)
(* old ones, or the old ones only when the key was there.                  *)
(***************************************************************************)
THEOREM InsertCorrect ==
    ASSUME NEW t, NEW top, NEW g, Tree(t, top, g), GoodSizes, NEW k \in Keys, NEW v \in RIDs
    PROVE  Grown(InsertInto([pg |-> t, root |-> top], k, v), WithEntry(Content(t, g), k, v))
  <1> DEFINE s == [pg |-> t, root |-> top]
             q == FindLeaf(t, top, k)
             leaf == LeafInsert(t[q], k, v)
             n == NewId(t)
             low == LowLeaf(leaf, n)
             high == HighLeaf(leaf)
             m == FirstKey(leaf)
             t1 == [t EXCEPT ![q] = leaf]
             split == AddPage([t EXCEPT ![q] = low], high)
             C == WithEntry(Content(t, g), k, v)
             grown == GrowRoot(split, q, m, n)
             up == InsertIntoParent([s EXCEPT !.pg = split], leaf.parent, q, m, n)
             w == InsertInto(s, k, v)
  <1>1. w = IF leaf.size <= leaf.max THEN [s EXCEPT !.pg[q] = leaf]
            ELSE IF IsRootPage(leaf) THEN grown ELSE up
    BY DEF InsertInto, LowLeaf, HighLeaf, FirstKey
  <1> HIDE DEF w
  <1>2. EntryPut(t, top, g, k, v, q, leaf)
    BY EntryPutIs
  <1>3. Whole(t, top, g) /\ Sized(t, g) /\ Forked(t, top) /\ g[top].lev < n
    BY DEF Tree
  <1> HIDE DEF q, leaf
  <1>4. /\ q \in DOMAIN g /\ t[q].leaf
        /\ leaf \in Page(Vals) /\ SameHeader(t[q], leaf) /\ FitsBand(leaf, g[q])
        /\ leaf.size >= 1 /\ leaf.size <= leaf_max_size + 1
        /\ Whole(t1, top, g) /\ Content(t1, g) = C
    BY <1>2 DEF EntryPut
  <1> HIDE DEF C
  <1>5. /\ t \in Pages /\ DOMAIN g \subseteq DOMAIN t /\ top \in DOMAIN g /\ q \in DOMAIN t
        /\ top \in Int /\ q \in Int /\ q # Invalid
        /\ \A r \in DOMAIN g : g[r] \in Band /\ r # Invalid /\ t[r] \in Page(Vals)
    BY <1>3, <1>4, WholeIs
  <1>6. /\ leaf.leaf /\ leaf.max = leaf_max_size /\ leaf.parent = t[q].parent
        /\ leaf.parent \in Int /\ leaf.size \in Nat /\ leaf_max_size \in Nat
    <2>1. leaf.size \in Nat
      BY <1>4, PageType
    <2> QED  BY <1>4, <2>1 DEF SameHeader, FitsBand, Page, GoodSizes
  <1>7. t1 \in Pages /\ DOMAIN t1 = DOMAIN t /\ NewId(t1) = n
        /\ t1[q] = leaf /\ \A r \in DOMAIN t : r # q => t1[r] = t[r]
    BY <1>4, <1>5, PagesPut
  <1>8. CASE leaf.size <= leaf.max
    <2>1. w.pg = t1 /\ w.root = top
      BY <1>1, <1>8
    <2> HIDE DEF t1
    <2>2. Sized(t1, g)
      BY <1>3, <1>4, <1>5, <1>7, <1>8 DEF Sized
    <2>3. Forked(t1, top)
      BY <1>3, <1>5, <1>6, <1>7 DEF Forked
    <2>4. Tree(t1, top, g)
      BY <1>3, <1>4, <1>7, <2>2, <2>3 DEF Tree
    <2> QED  BY <1>4, <2>1, <2>4 DEF Grown, w, C
  <1>9. ASSUME ~(leaf.size <= leaf.max) PROVE Grown(w, C)
    <2> DEFINE h == SplitBand(g, q, n, m)
    <2>1. n \in Int /\ n \in Nat /\ n \notin DOMAIN t /\ n \notin DOMAIN g
      BY <1>5, PagesAre
    <2>2. leaf.size = leaf_max_size + 1 /\ leaf.size >= 2
      BY <1>4, <1>6, <1>9 DEF GoodSizes
    <2>3. IsLeafSplit(leaf, g[q], n, low, high, m)
      <3> HIDE DEF n
      <3> QED  BY <1>4, <1>5, <1>6, <2>1, <2>2, LeafSplitIs
    <2> HIDE DEF low, high, m
    <2>4. /\ low \in Page(Vals) /\ high \in Page(Vals) /\ m \in Nat
          /\ low.leaf /\ high.leaf /\ low.max = leaf_max_size /\ high.max = leaf_max_size
          /\ low.size >= 1 /\ low.size <= leaf_max_size /\ high.size >= 1 /\ high.size <= leaf_max_size
          /\ Entries(low) \cup Entries(high) = Entries(leaf) /\ low.parent = leaf.parent
      <3>1. low.size \in Nat /\ high.size \in Nat
        BY <2>3, PageType DEF IsLeafSplit
      <3> QED  BY <1>6, <2>2, <2>3, <3>1 DEF IsLeafSplit
    <2>5. [t1 EXCEPT ![q] = low] = [t EXCEPT ![q] = low]
      BY <1>5
    <2>6. Shape(split, top, h, q, n)
      <3> HIDE DEF t1, n, h
      <3>1. t1[q].leaf /\ q \in DOMAIN g /\ NewId(t1) = n /\ t1[q] = leaf
        BY <1>4, <1>6, <1>7
      <3>2. /\ low.leaf /\ low.max = leaf_max_size /\ Ordered(low)
            /\ high.leaf /\ high.max = leaf_max_size /\ Ordered(high)
            /\ g[q].lo < m /\ m < g[q].hi
            /\ \A e \in Entries(low) : g[q].lo <= e.key /\ e.key < m
            /\ \A e \in Entries(high) : m <= e.key /\ e.key < g[q].hi
            /\ low.parent = t1[q].parent /\ high.parent = t1[q].parent
            /\ low.next = NewId(t1) /\ high.next = t1[q].next
        BY <2>3, <3>1 DEF IsLeafSplit
      <3>3. Shape(AddPage([t1 EXCEPT ![q] = low], high), top,
                  SplitBand(g, q, NewId(t1), m), q, NewId(t1))
        BY <1>4, <2>4, <3>1, <3>2, LeafDivided
      <3> QED  BY <2>5, <3>1, <3>3 DEF h
    <2>7. /\ split \in Pages /\ NewId(split) = n + 1 /\ DOMAIN split = DOMAIN t \cup {n}
          /\ split[n] = high /\ split[q] = low
          /\ \A r \in DOMAIN t : r # q => split[r] = t[r]
      <3> DEFINE t2 == [t EXCEPT ![q] = low]
      <3>1. t2 \in Pages /\ DOMAIN t2 = DOMAIN t /\ NewId(t2) = n
            /\ t2[q] = low /\ \A r \in DOMAIN t : r # q => t2[r] = t[r]
        BY <1>5, <2>4, PagesPut
      <3> HIDE DEF t2
      <3>2. /\ AddPage(t2, high) \in Pages /\ NewId(AddPage(t2, high)) = NewId(t2) + 1
            /\ DOMAIN AddPage(t2, high) = DOMAIN t2 \cup {NewId(t2)}
            /\ AddPage(t2, high)[NewId(t2)] = high
            /\ \A r \in DOMAIN t2 : AddPage(t2, high)[r] = t2[r]
        BY <2>4, <3>1, PagesAdd
      <3>3. split = AddPage(t2, high)
        BY DEF t2
      <3> HIDE DEF split, n
      <3> QED  BY <1>5, <3>1, <3>2, <3>3
    <2>8. /\ DOMAIN h = DOMAIN g \cup {n} /\ h[n].lo = m
          /\ \A r \in DOMAIN g : h[r].lev = g[r].lev
      <3> HIDE DEF n
      <3>1. IsSplitBand(h, g, q, n, m)
        BY <1>3, <1>4, <2>1, <2>4, SplitBandIs
      <3> HIDE DEF h
      <3> QED  BY <3>1 DEF IsSplitBand
    <2> HIDE DEF split, h, t1
    <2>9. Content(split, h) = C
      <3> HIDE DEF n
      <3>1. \A r \in DOMAIN g : r # q => split[r] = t1[r]
        BY <1>5, <1>7, <2>7
      <3>2. ASSUME NEW e
            PROVE  (\E r \in DOMAIN h : split[r].leaf /\ e \in Entries(split[r])) <=>
                   (\E r \in DOMAIN g : t1[r].leaf /\ e \in Entries(t1[r]))
        <4>1. ASSUME NEW r \in DOMAIN h, split[r].leaf, e \in Entries(split[r])
              PROVE  \E x \in DOMAIN g : t1[x].leaf /\ e \in Entries(t1[x])
          <5>1. CASE r = n \/ r = q
            BY <1>4, <1>6, <1>7, <2>4, <2>7, <4>1, <5>1
          <5>2. CASE r # n /\ r # q
            BY <2>8, <3>1, <4>1, <5>2
          <5> QED  BY <5>1, <5>2
        <4>2. ASSUME NEW r \in DOMAIN g, t1[r].leaf, e \in Entries(t1[r])
              PROVE  \E x \in DOMAIN h : split[x].leaf /\ e \in Entries(split[x])
          <5>1. CASE r = q
            <6>1. e \in Entries(low) \/ e \in Entries(high)
              BY <1>7, <2>4, <4>2, <5>1
            <6> QED  BY <1>4, <2>4, <2>7, <2>8, <6>1
          <5>2. CASE r # q
            BY <2>8, <3>1, <4>2, <5>2
          <5> QED  BY <5>1, <5>2
        <4> QED  BY <4>1, <4>2
      <3>3. \A e : e \in Content(split, h) <=> e \in Content(t1, g)
        BY <3>2, ContentIs
      <3> QED  BY <1>4, <3>3
    <2>10. Sized(split, h)
      <3> SUFFICES ASSUME NEW r \in DOMAIN h PROVE split[r].size >= 1 /\ split[r].size <= split[r].max
        BY DEF Sized
      <3>1. CASE r = n \/ r = q
        BY <2>4, <2>7, <3>1
      <3>2. CASE r # n /\ r # q
        BY <1>3, <1>5, <2>7, <2>8, <3>2 DEF Sized
      <3> QED  BY <3>1, <3>2
    <2>11. CASE IsRootPage(leaf)
      <3> DEFINE H == RootBand(h, top, grown.root)
      <3>1. q = top
        <4>1. Placed(t, top, g, Invalid, Invalid, q)
          BY <1>3, <1>4, ShapeIs DEF Whole
        <4>2. q # top => t[q].parent \in DOMAIN g
          BY <1>5, <4>1 DEF Placed
        <4> QED  BY <1>5, <1>6, <2>11, <4>2 DEF IsRootPage
      <3>2. 1 \in Slots /\ internal_max_size \in Int
        BY MaxSlotAssumption DEF GoodSizes, Slots
      <3>3. /\ grown.root = NewId(split) /\ grown.root \notin DOMAIN split
            /\ Whole(grown.pg, grown.root, H)
            /\ NewId(grown.pg) = NewId(split) + 1
            /\ grown.pg[grown.root].size = 2 /\ ~grown.pg[grown.root].leaf
            /\ grown.pg[grown.root].max = internal_max_size
            /\ \A r \in DOMAIN split : SameBody(split[r], grown.pg[r])
        <4>1. Shape(split, top, h, top, n) /\ grown = GrowRoot(split, top, h[n].lo, n)
          BY <2>6, <2>8, <3>1
        <4> HIDE DEF n, grown
        <4> QED  BY <3>2, <4>1, RootGrown
      <3>4. w = grown
        BY <1>1, <1>9, <2>11
      <3> HIDE DEF grown
      <3>5. /\ DOMAIN H = DOMAIN h \cup {grown.root} /\ DOMAIN h \subseteq DOMAIN split
            /\ H[grown.root].lev = h[top].lev + 1
        BY <2>6, ShapeIs DEF RootBand
      <3> HIDE DEF H
      <3>6. Sized(grown.pg, H)
        <4> SUFFICES ASSUME NEW r \in DOMAIN H
                     PROVE  grown.pg[r].size >= 1 /\ grown.pg[r].size <= grown.pg[r].max
          BY DEF Sized
        <4>1. CASE r = grown.root
          BY <3>3, <4>1 DEF GoodSizes
        <4>2. CASE r # grown.root
          <5>1. r \in DOMAIN h /\ SameBody(split[r], grown.pg[r])
            BY <3>3, <3>5, <4>2
          <5> QED  BY <2>10, <5>1 DEF Sized, SameBody
        <4> QED  BY <4>1, <4>2
      <3>7. H[grown.root].lev < NewId(grown.pg)
        <4>1. h[top].lev = g[top].lev /\ g[top].lev < n /\ g[top].lev \in Nat
          BY <1>3, <1>5, <2>8 DEF Band
        <4>2. NewId(grown.pg) = (n + 1) + 1
          BY <2>7, <3>3
        <4> HIDE DEF n
        <4> QED  BY <2>1, <3>5, <4>1, <4>2
      <3>8. Tree(grown.pg, grown.root, H)
        BY <3>3, <3>6, <3>7 DEF Tree, Forked
      <3>9. Content(grown.pg, H) = Content(split, h)
        <4>1. \A r \in DOMAIN h : split[r].leaf =>
                 r \in DOMAIN H /\ grown.pg[r].leaf /\ Entries(grown.pg[r]) = Entries(split[r])
          BY <3>3, <3>5, SameBodyIs DEF SameBody
        <4>2. \A r \in DOMAIN H : grown.pg[r].leaf => r \in DOMAIN h /\ split[r].leaf
          BY <3>3, <3>5 DEF SameBody
        <4> QED  BY <4>1, <4>2, ContentSame
      <3> QED  BY <2>9, <3>4, <3>8, <3>9 DEF Grown
    <2>12. CASE ~IsRootPage(leaf)
      <3> DEFINE s2 == [s EXCEPT !.pg = split]
                 x == [pg |-> s2.pg, root |-> s2.root, p |-> leaf.parent, old |-> q, key |-> m,
                       new |-> n]
      <3>1. s2.pg = split /\ s2.root = top
        OBVIOUS
      <3> HIDE DEF s2
      <3>2. x \in Calls
        <4>1. n \in Int /\ m \in Int
          BY <2>1, <2>4
        <4> HIDE DEF n
        <4> QED  BY <1>5, <1>6, <2>7, <3>1, <4>1 DEF Calls
      <3>3. q # top
        <4>1. t1[top].parent = Invalid
          BY <1>4, WholeIs
        <4> QED  BY <1>7, <2>12, <4>1 DEF IsRootPage
      <3>4. Forked(split, top)
        BY <1>3, <1>5, <2>7, <3>3 DEF Forked
      <3>5. h[top].lev < NewId(split)
        <4>1. h[top].lev = g[top].lev /\ g[top].lev < n /\ g[top].lev \in Nat
          BY <1>3, <1>5, <2>8 DEF Band
        <4>2. NewId(split) = n + 1
          BY <2>7
        <4> HIDE DEF n
        <4> QED  BY <2>1, <4>1, <4>2
      <3>6. Pending(split, top, h, q, n)
        BY <1>5, <2>6, <2>10, <3>3, <3>4, <3>5 DEF Pending
      <3>7. Awaits(x, h)
        <4>1. /\ x.pg = split /\ x.root = top /\ x.p = leaf.parent /\ x.old = q /\ x.key = m
              /\ x.new = n
          BY <3>1
        <4>2. split[q].parent = leaf.parent
          BY <2>4, <2>7
        <4> HIDE DEF x
        <4> QED  BY <2>8, <2>12, <3>6, <4>1, <4>2 DEF Awaits, IsRootPage
      <3>8. w = InsertIntoParent(s2, leaf.parent, q, m, n)
        BY <1>1, <1>9, <2>12 DEF s2
      <3>9. \E hh : Tree(w.pg, w.root, hh) /\ Content(w.pg, hh) = Content(s2.pg, h)
        <4>1. \E xx \in Calls : /\ Awaits(xx, h)
                 /\ xx = [pg |-> s2.pg, root |-> s2.root, p |-> leaf.parent, old |-> q, key |-> m,
                       new |-> n]
          BY <3>2, <3>7
        <4>2. PICK xx \in Calls : /\ Awaits(xx, h)
                 /\ xx = [pg |-> s2.pg, root |-> s2.root, p |-> leaf.parent, old |-> q, key |-> m,
                       new |-> n]
          BY <4>1
        <4> HIDE DEF n, x
        <4> QED  BY <3>8, <4>2, InsertIntoParentIs
      <3> QED  BY <2>9, <3>1, <3>9 DEF Grown
    <2> QED  BY <2>11, <2>12
  <1> QED  BY <1>8, <1>9 DEF w, C
-----------------------------------------------------------------------------
(* Remove. *)

\* Leaves with the same end are one leaf.
LEMMA SameEnd ==
    ASSUME NEW t, NEW top, NEW g, Whole(t, top, g), g[top].lev < NewId(t),
           NEW q \in DOMAIN g, NEW r \in DOMAIN g, t[q].leaf, t[r].leaf,
           g[q].hi = g[r].hi \/ g[q].lo = g[r].lo
    PROVE  q = r
  <1> DEFINE k == IF g[q].lo = g[r].lo THEN g[q].lo ELSE g[q].hi - 1
  <1>1. /\ g[q].lo \in Nat /\ g[q].hi \in Nat /\ g[q].lo < g[q].hi /\ g[q].hi <= Supremum
        /\ g[r].lo \in Nat /\ g[r].hi \in Nat /\ g[r].lo < g[r].hi
        /\ Supremum \in Nat
    BY WholeIs, SupremumIs DEF Band, FitsBand
  <1>2. /\ k \in Nat /\ k < Supremum
        /\ g[q].lo <= k /\ k < g[q].hi /\ g[r].lo <= k /\ k < g[r].hi
    BY <1>1
  <1>3. InRange(g[q], k) /\ InRange(g[r], k)
    BY <1>2 DEF InRange
  <1> HIDE DEF k
  <1> QED  BY <1>2, <1>3, DescentCorrect

MergedBand(g, left, right) ==
    [q \in DOMAIN g \ {right} |->
        IF q = left THEN [lev |-> g[left].lev, lo |-> g[left].lo, hi |-> g[right].hi] ELSE g[q]]

\* What happens to the pages when leaf `right` moves into leaf `left`.
LeavesJoined(t, s, left, right, p, i) ==
    /\ s \in Pages /\ DOMAIN s = DOMAIN t /\ NewId(s) = NewId(t)
    /\ s[p] = DropAt(t[p], i + 1)
    /\ s[left] \in Page(Vals) /\ s[left].leaf /\ s[left].max = t[left].max
    /\ s[left].parent = t[left].parent /\ s[left].next = t[right].next
    /\ Ordered(s[left]) /\ s[left].size = t[left].size + t[right].size
    /\ Entries(s[left]) = Entries(t[left]) \cup Entries(t[right])
    /\ \A q \in DOMAIN t : q # left /\ q # right /\ q # p => s[q] = t[q]

LEMMA LeavesJoinedIs ==
    ASSUME NEW t \in Pages, NEW left \in DOMAIN t, NEW right \in DOMAIN t, NEW p \in DOMAIN t,
           NEW i \in Nat, i + 1 \in Used(t[p]),
           left # right, p # left, p # right, t[left].leaf, t[right].leaf,
           Ordered(t[left]), Ordered(t[right]), Precedes(t[left], t[right]),
           t[left].size + t[right].size <= MaxSlot + 1
    PROVE  LeavesJoined(t, Coalesce(t, left, right, p, i), left, right, p, i)
  <1> DEFINE both == LeafMoveAllTo(t[right], t[left])
             a == both[1]
             b0 == both[2]
             b == [b0 EXCEPT !.next = t[right].next]
             drop == DropAt(t[p], i + 1)
             s == [t EXCEPT ![right] = a, ![left] = b, ![p] = drop]
  <1>1. t[left] \in Page(Vals) /\ t[right] \in Page(Vals) /\ t[p] \in Page(Vals)
    BY PagesAre
  <1>2. a \in Page(Vals)
    <2>1. a = Cut(t[right], 0)
      BY <1>1 DEF LeafMoveAllTo, Cut, Page
    <2>2. 0 \in 0 .. t[right].size
      <3>1. t[right].size \in Nat
        BY <1>1, PageType
      <3> QED  BY <3>1
    <2> HIDE DEF a
    <2> QED  BY <1>1, <2>1, <2>2, CutIs
  <1>3. /\ b0 \in Page(Vals) /\ SameHeader(t[left], b0) /\ Ordered(b0)
        /\ b0.size = t[left].size + t[right].size
        /\ Entries(b0) = Entries(t[left]) \cup Entries(t[right])
    BY <1>1, LeafMergeCorrect
  <1>4. drop \in Page(Vals)
    <2> DEFINE j == i + 1
    <2>1. j \in Used(t[p])
      OBVIOUS
    <2> HIDE DEF j
    <2>2. DropAt(t[p], j) \in Page(Vals)
      BY <1>1, <2>1, DropAtIs
    <2> QED  BY <2>2 DEF j
  <1>5. Coalesce(t, left, right, p, i) = s
    <2> DEFINE m1 == [t EXCEPT ![right] = a, ![left] = b0]
               m2 == [m1 EXCEPT ![left].next = t[right].next]
    <2>1. m1[left] = b0
      <3> HIDE DEF a, b0
      <3> QED  OBVIOUS
    <2>2. m2 = [t EXCEPT ![right] = a, ![left] = b]
      <3> HIDE DEF a, b0
      <3> QED  BY <2>1
    <2>3. m2[p] = t[p]
      <3> HIDE DEF a, b, m2
      <3> QED  BY <2>2
    <2>4. Coalesce(t, left, right, p, i) = [m2 EXCEPT ![p] = DropAt(m2[p], i + 1)]
      BY DEF Coalesce
    <2> HIDE DEF m2
    <2>5. Coalesce(t, left, right, p, i) = [m2 EXCEPT ![p] = drop]
      BY <2>3, <2>4
    <2> HIDE DEF a, b, drop
    <2> QED  BY <2>2, <2>5
  <1> HIDE DEF a, b0, drop
  <1>6. /\ b \in Page(Vals) /\ b.leaf = t[left].leaf /\ b.max = t[left].max
        /\ b.parent = t[left].parent /\ b.next = t[right].next /\ b.size = b0.size
        /\ b.slot = b0.slot
    BY <1>1, <1>3 DEF Page, SameHeader
  <1> HIDE DEF b
  <1>7. Ordered(b) /\ Entries(b) = Entries(b0)
    BY <1>3, <1>6 DEF Ordered, Entries, Used
  <1>8. /\ DOMAIN s = DOMAIN t /\ s[p] = drop /\ s[left] = b
        /\ \A q \in DOMAIN t : q # left /\ q # right /\ q # p => s[q] = t[q]
    OBVIOUS
  <1>9. s \in Pages /\ NewId(s) = NewId(t)
    <2>1. PICK n \in Nat : t \in [0 .. n - 1 -> Page(Vals)]
      BY DEF Pages
    <2>2. s \in [0 .. n - 1 -> Page(Vals)]
      BY <1>2, <1>4, <1>6, <2>1
    <2> QED  BY <1>8, <2>1, <2>2 DEF Pages, NewId
  <1> HIDE DEF s
  <1> QED  BY <1>3, <1>5, <1>6, <1>7, <1>8, <1>9 DEF LeavesJoined, drop

\* Neighbours below page p.
LEMMA NeighboursAre ==
    ASSUME NEW t, NEW top, NEW g, Whole(t, top, g), NEW p \in DOMAIN g, ~t[p].leaf,
           NEW i \in Used(t[p]), i + 1 \in Used(t[p]),
           NEW left, left = t[p].slot[i].val, NEW right, right = t[p].slot[i + 1].val
    PROVE  /\ left \in DOMAIN g /\ right \in DOMAIN g /\ left # top /\ right # top
           /\ left # right /\ left # p /\ right # p
           /\ t[left].parent = p /\ t[right].parent = p
           /\ g[left].lev = g[right].lev /\ g[left].lev + 1 = g[p].lev
           /\ g[left].lo = From(t[p], g[p], i) /\ g[left].hi = UpTo(t[p], g[p], i)
           /\ g[right].lo = From(t[p], g[p], i + 1) /\ g[right].hi = UpTo(t[p], g[p], i + 1)
           /\ g[left].hi = g[right].lo
  <1>1. \A r \in DOMAIN g : /\ t[r] \in Page(Vals) /\ r # Invalid /\ g[r] \in Band
                            /\ FitsBand(t[r], g[r])
                            /\ Placed(t, top, g, Invalid, Invalid, r)
    BY ShapeIs DEF Whole
  <1>2. \A k \in Kids(t[p], g[p]) : IsKid(t, top, g, Invalid, Invalid, p, k)
    BY <1>1 DEF Placed
  <1>3. ASSUME NEW j \in Used(t[p])
        PROVE  LET c == t[p].slot[j].val
               IN  /\ c \in DOMAIN g /\ c # top /\ t[c].parent = p /\ g[c].lev + 1 = g[p].lev
                   /\ g[c].lo = From(t[p], g[p], j) /\ g[c].hi = UpTo(t[p], g[p], j)
                   /\ c # p /\ g[c].lev \in Nat
    <2> DEFINE k == Kid(t[p], g[p], j)
    <2>1. k \in Kids(t[p], g[p]) /\ k.val = t[p].slot[j].val
          /\ k.lo = From(t[p], g[p], j) /\ k.hi = UpTo(t[p], g[p], j)
      BY DEF Kids, Kid
    <2> HIDE DEF k
    <2>2. IsKid(t, top, g, Invalid, Invalid, p, k)
      BY <1>2, <2>1
    <2>3. k.val \in DOMAIN g /\ k.val # Invalid /\ g[k.val].lev \in Nat
      BY <1>1, <2>2 DEF IsKid, Band
    <2>4. k.val # p
      <3>1. g[k.val].lev + 1 = g[p].lev
        BY <2>2 DEF IsKid
      <3> QED  BY <2>3, <3>1
    <2> QED  BY <2>1, <2>2, <2>3, <2>4 DEF IsKid, Seen
  <1>4. /\ left \in DOMAIN g /\ left # top /\ left # p /\ t[left].parent = p
        /\ g[left].lev + 1 = g[p].lev /\ g[left].lev \in Nat
        /\ g[left].lo = From(t[p], g[p], i) /\ g[left].hi = UpTo(t[p], g[p], i)
    BY <1>3
  <1>5. /\ right \in DOMAIN g /\ right # top /\ right # p /\ t[right].parent = p
        /\ g[right].lev + 1 = g[p].lev /\ g[right].lev \in Nat
        /\ g[right].lo = From(t[p], g[p], i + 1) /\ g[right].hi = UpTo(t[p], g[p], i + 1)
    <2> DEFINE j == i + 1
    <2>1. j \in Used(t[p]) /\ right = t[p].slot[j].val
      OBVIOUS
    <2> HIDE DEF j
    <2>2. /\ right \in DOMAIN g /\ right # top /\ right # p /\ t[right].parent = p
          /\ g[right].lev + 1 = g[p].lev /\ g[right].lev \in Nat
          /\ g[right].lo = From(t[p], g[p], j) /\ g[right].hi = UpTo(t[p], g[p], j)
      BY <1>3, <2>1
    <2> QED  BY <2>2 DEF j
  <1>6. UpTo(t[p], g[p], i) = From(t[p], g[p], i + 1)
    <2>1. i \in Nat /\ i + 1 < t[p].size /\ i + 1 # 0
      BY <1>1, PageType
    <2> QED  BY <2>1 DEF UpTo, From
  <1>7. g[left].lo < g[left].hi /\ g[left].lo \in Nat /\ g[left].hi \in Nat
    BY <1>1, <1>4 DEF FitsBand, Band
  <1>8. left # right
    BY <1>4, <1>5, <1>6, <1>7
  <1>9. g[left].lev = g[right].lev
    BY <1>4, <1>5
  <1> QED  BY <1>4, <1>5, <1>6, <1>8, <1>9

\* left and right are the children i and i + 1 of page p.
NextTo(t, p, i, left, right) ==
    /\ ~t[p].leaf /\ i \in Used(t[p]) /\ i + 1 \in Used(t[p])
    /\ left = t[p].slot[i].val /\ right = t[p].slot[i + 1].val

Beside(t, top, g, p, i, left, right) ==
    /\ left \in DOMAIN g /\ right \in DOMAIN g /\ left # top /\ right # top
    /\ left # right /\ left # p /\ right # p
    /\ t[left].parent = p /\ t[right].parent = p
    /\ g[left].lev = g[right].lev /\ g[left].lev + 1 = g[p].lev
    /\ g[left].lo = From(t[p], g[p], i) /\ g[left].hi = UpTo(t[p], g[p], i)
    /\ g[right].lo = From(t[p], g[p], i + 1) /\ g[right].hi = UpTo(t[p], g[p], i + 1)
    /\ g[left].hi = g[right].lo

LEMMA BesideIs ==
    ASSUME NEW t, NEW top, NEW g, Whole(t, top, g), NEW p \in DOMAIN g, NEW i,
           NEW left, NEW right, NextTo(t, p, i, left, right)
    PROVE  Beside(t, top, g, p, i, left, right)
  <1>1. /\ ~t[p].leaf /\ i \in Used(t[p]) /\ i + 1 \in Used(t[p])
        /\ left = t[p].slot[i].val /\ right = t[p].slot[i + 1].val
    BY DEF NextTo
  <1> QED  BY <1>1, NeighboursAre, SMTT(30) DEF Beside

LEMMA LeavesPrecede ==
    ASSUME NEW p \in Page(Vals), NEW q \in Page(Vals), NEW a \in Band, NEW b \in Band,
           p.leaf, q.leaf, FitsBand(p, a), FitsBand(q, b), a.hi <= b.lo
    PROVE  Precedes(p, q)
  <1> SUFFICES ASSUME NEW d \in Entries(p), NEW e \in Entries(q) PROVE d.key < e.key
    BY DEF Precedes
  <1>1. d.key \in Int /\ e.key \in Int
    BY PageType DEF Entry
  <1>2. d.key < a.hi /\ b.lo <= e.key /\ a.hi \in Nat /\ b.lo \in Nat
    BY DEF FitsBand, Band
  <1> QED  BY <1>1, <1>2

IsMerged(t, top, g, left, right, p, i, s, h) ==
    /\ LeavesJoined(t, s, left, right, p, i)
    /\ KidDropped(s[p], t[p], g[p], i)
    /\ Whole(s, top, h) /\ DOMAIN h = DOMAIN g \ {right}
    /\ h[top].lev = g[top].lev
    /\ Content(s, h) = Content(t, g)

LEMMA LeavesMerged ==
    ASSUME NEW t, NEW top, NEW g, Whole(t, top, g), g[top].lev < NewId(t),
           NEW p \in DOMAIN g, ~t[p].leaf, NEW i \in Used(t[p]), i + 1 \in Used(t[p]),
           NEW left, left = t[p].slot[i].val, NEW right, right = t[p].slot[i + 1].val,
           t[left].leaf, t[left].size + t[right].size <= MaxSlot + 1
    PROVE  IsMerged(t, top, g, left, right, p, i,
                    Coalesce(t, left, right, p, i), MergedBand(g, left, right))
  <1> DEFINE s == Coalesce(t, left, right, p, i)
             h == MergedBand(g, left, right)
  <1>1. /\ t \in Pages /\ DOMAIN g \subseteq DOMAIN t /\ top \in DOMAIN g
        /\ t[top].parent = Invalid /\ g[top].lo = 0
        /\ Seen(g, Invalid, Invalid, top) = Supremum
    BY ShapeIs DEF Whole
  <1>2. \A r \in DOMAIN g : /\ t[r] \in Page(Vals) /\ r # Invalid /\ r \in DOMAIN t
                            /\ g[r] \in Band /\ FitsBand(t[r], g[r])
                            /\ Placed(t, top, g, Invalid, Invalid, r)
    BY ShapeIs DEF Whole
  <1>3. /\ left \in DOMAIN g /\ right \in DOMAIN g /\ left # top /\ right # top
        /\ left # right /\ left # p /\ right # p
        /\ t[left].parent = p /\ t[right].parent = p
        /\ g[left].lev = g[right].lev /\ g[left].lev + 1 = g[p].lev
        /\ g[left].lo = From(t[p], g[p], i) /\ g[left].hi = UpTo(t[p], g[p], i)
        /\ g[right].lo = From(t[p], g[p], i + 1) /\ g[right].hi = UpTo(t[p], g[p], i + 1)
        /\ g[left].hi = g[right].lo
    <2>1. NextTo(t, p, i, left, right)
      BY DEF NextTo
    <2>2. Beside(t, top, g, p, i, left, right)
      BY <2>1, BesideIs
    <2> QED  BY ONLY <2>2 DEF Beside
  <1>4. /\ g[left].lo \in Nat /\ g[left].hi \in Nat /\ g[right].hi \in Nat
        /\ g[left].lo < g[left].hi /\ g[right].lo < g[right].hi /\ g[right].hi <= Supremum
        /\ g[left].lev = 0 /\ g[right].lev = 0 /\ t[right].leaf
        /\ Ordered(t[left]) /\ Ordered(t[right]) /\ t[left].max = leaf_max_size
    <2>1. g[left].lev = 0 /\ g[right].lev = 0 /\ t[right].leaf
      BY <1>2, <1>3 DEF FitsBand
    <2> QED  BY <1>2, <1>3, <2>1 DEF FitsBand, Band
  <1>5. Precedes(t[left], t[right])
    <2>1. g[left].hi <= g[right].lo
      BY ONLY <1>3, <1>4
    <2> QED  BY <1>2, <1>3, <1>4, <2>1, LeavesPrecede
  <1>6. LeavesJoined(t, s, left, right, p, i)
    <2>1. i \in Nat
      BY <1>2, PageType
    <2> QED  BY <1>1, <1>2, <1>3, <1>4, <1>5, <2>1, LeavesJoinedIs
  <1> HIDE DEF s
  <1>7. /\ s \in Pages /\ DOMAIN s = DOMAIN t /\ NewId(s) = NewId(t)
        /\ s[p] = DropAt(t[p], i + 1)
        /\ s[left] \in Page(Vals) /\ s[left].leaf /\ s[left].max = t[left].max
        /\ s[left].parent = t[left].parent /\ s[left].next = t[right].next
        /\ Ordered(s[left]) /\ s[left].size = t[left].size + t[right].size
        /\ Entries(s[left]) = Entries(t[left]) \cup Entries(t[right])
        /\ \A q \in DOMAIN t : q # left /\ q # right /\ q # p => s[q] = t[q]
    BY <1>6 DEF LeavesJoined
  <1>8. KidDropped(s[p], t[p], g[p], i)
    BY <1>2, <1>7, KidDroppedIs
  <1>9. /\ SameHeader(t[p], s[p]) /\ FitsBand(s[p], g[p])
        /\ Kids(s[p], g[p]) = {k \in Kids(t[p], g[p]) : k.lo # g[left].lo /\ k.lo # g[right].lo}
                                 \cup {[val |-> left, lo |-> g[left].lo, hi |-> g[right].hi]}
    <2> DEFINE a == From(t[p], g[p], i)
               c == From(t[p], g[p], i + 1)
               d == UpTo(t[p], g[p], i + 1)
    <2>1. /\ SameHeader(t[p], s[p]) /\ FitsBand(s[p], g[p])
          /\ Kids(s[p], g[p]) = {k \in Kids(t[p], g[p]) : k.lo # a /\ k.lo # c}
                                   \cup {[val |-> left, lo |-> a, hi |-> d]}
      BY ONLY <1>8, left = t[p].slot[i].val, Zenon DEF KidDropped, a, c, d
    <2>2. a = g[left].lo /\ c = g[right].lo /\ d = g[right].hi
      BY ONLY <1>3 DEF a, c, d
    <2> HIDE DEF a, c, d
    <2> QED  BY ONLY <2>1, <2>2, Zenon
  <1>10. /\ DOMAIN h = DOMAIN g \ {right}
         /\ h[left] = [lev |-> g[left].lev, lo |-> g[left].lo, hi |-> g[right].hi]
         /\ \A q \in DOMAIN h : q # left => h[q] = g[q]
    BY <1>3 DEF MergedBand
  <1> DEFINE A == [val |-> left, lo |-> g[left].lo, hi |-> g[right].hi]
  <1>11. A.val = left /\ A.lo = g[left].lo /\ A.hi = g[right].hi
    OBVIOUS
  <1> HIDE DEF h, A
  <1>12. /\ h[left] \in Band /\ h[left].lev = 0 /\ h[left].lo = g[left].lo
         /\ h[left].hi = g[right].hi
         /\ \A q \in DOMAIN h : h[q].lev = g[q].lev /\ h[q].lo = g[q].lo
    <2> DEFINE B == [lev |-> g[left].lev, lo |-> g[left].lo, hi |-> g[right].hi]
    <2>0. B \in Band /\ B.lev = 0 /\ B.lo = g[left].lo /\ B.hi = g[right].hi
      BY ONLY <1>4 DEF B, Band
    <2>1. h[left] = B
      BY <1>10
    <2> HIDE DEF B
    <2>2. h[left] \in Band /\ h[left].lev = 0 /\ h[left].lo = g[left].lo /\ h[left].hi = g[right].hi
      BY <2>0, <2>1
    <2>3. ASSUME NEW q \in DOMAIN h PROVE h[q].lev = g[q].lev /\ h[q].lo = g[q].lo
      <3>1. CASE q = left
        BY <1>4, <2>2, <3>1
      <3>2. CASE q # left
        BY <1>10, <3>2
      <3> QED  BY <3>1, <3>2
    <2> QED  BY <2>2, <2>3
  <1>13. /\ \A q \in DOMAIN h : s[q].leaf = t[q].leaf /\ s[q].parent = t[q].parent
         /\ \A q \in DOMAIN h : q # left => s[q].next = t[q].next
    <2> SUFFICES ASSUME NEW q \in DOMAIN h
                 PROVE  /\ s[q].leaf = t[q].leaf /\ s[q].parent = t[q].parent
                        /\ q # left => s[q].next = t[q].next
      OBVIOUS
    <2>1. CASE q = left
      <3>1. s[left].leaf \in BOOLEAN /\ t[left].leaf \in BOOLEAN
        BY <1>2, <1>3, <1>7 DEF Page
      <3>2. s[left].leaf = t[left].leaf
        BY <1>7, <3>1, Zenon
      <3> QED  BY <1>7, <2>1, <3>2
    <2>2. CASE q = p
      BY <1>3, <1>9, <2>2 DEF SameHeader
    <2>3. CASE q # left /\ q # p
      BY <1>2, <1>7, <1>10, <2>3
    <2> QED  BY <2>1, <2>2, <2>3
  <1>14. \A q \in DOMAIN h : q # left => Seen(h, Invalid, Invalid, q) = g[q].hi
    BY <1>2, <1>10 DEF Seen
  <1>15. Seen(h, Invalid, Invalid, left) = g[right].hi
    BY <1>2, <1>3, <1>12 DEF Seen
  <1>16. ASSUME NEW q \in DOMAIN h PROVE Placed(s, top, h, Invalid, Invalid, q)
    <2>0. q \in DOMAIN g /\ q # right
      BY <1>10
    <2>1. /\ FitsBand(t[q], g[q]) /\ g[q] \in Band
          /\ ~t[q].leaf => \A k \in Kids(t[q], g[q]) : IsKid(t, top, g, Invalid, Invalid, q, k)
          /\ q # top => /\ g[q].lev < g[top].lev
                        /\ t[q].parent \in DOMAIN g /\ ~t[t[q].parent].leaf
                        /\ \E k \in Kids(t[t[q].parent], g[t[q].parent]) : k.val = q
          /\ PointsRight(t, g, q)
      BY <1>2, <2>0 DEF Placed
    <2>2. h[q] \in Band /\ FitsBand(s[q], h[q])
      <3>1. CASE q = left
        <4>1. \A e \in Entries(s[left]) : h[left].lo <= e.key /\ e.key < h[left].hi
          <5> SUFFICES ASSUME NEW e \in Entries(s[left])
                       PROVE  h[left].lo <= e.key /\ e.key < h[left].hi
            OBVIOUS
          <5>1. e.key \in Int
            <6>1. e \in Entry(Vals)
              BY <1>7, PageType
            <6> QED  BY <6>1 DEF Entry
          <5>2. \/ g[left].lo <= e.key /\ e.key < g[left].hi
                \/ g[right].lo <= e.key /\ e.key < g[right].hi
            BY ONLY <1>2, <1>3, <1>4, <1>7, t[left].leaf, e \in Entries(s[left]) DEF FitsBand
          <5> QED  BY ONLY <1>3, <1>4, <1>12, <5>1, <5>2
        <4>2. h[left].lo < h[left].hi /\ h[left].hi <= Supremum
          BY ONLY <1>3, <1>4, <1>12, SupremumIs
        <4> QED  BY <1>4, <1>7, <1>12, <3>1, <4>1, <4>2 DEF FitsBand
      <3>2. CASE q = p
        BY <1>3, <1>9, <1>10, <2>1, <3>2
      <3>3. CASE q # left /\ q # p
        BY <1>2, <1>7, <1>10, <2>0, <2>1, <3>3
      <3> QED  BY <3>1, <3>2, <3>3
    <2>3. ASSUME ~s[q].leaf, NEW k \in Kids(s[q], h[q])
          PROVE  IsKid(s, top, h, Invalid, Invalid, q, k)
      <3>1. q # left /\ h[q] = g[q] /\ ~t[q].leaf
        BY <1>7, <1>10, <1>13, <2>3
      <3>2. CASE q = p /\ k = A
        <4>1. s[left].parent = p /\ left \in DOMAIN h /\ left # Invalid
          BY <1>2, <1>3, <1>7, <1>10
        <4>2. h[left].lev + 1 = h[p].lev
          BY <1>3, <1>4, <1>12, <3>1, <3>2
        <4> QED  BY <1>3, <1>11, <1>12, <1>15, <3>2, <4>1, <4>2 DEF IsKid
      <3>3. CASE q = p /\ k # A
        <4>1. k \in Kids(t[p], g[p]) /\ k.lo # g[left].lo /\ k.lo # g[right].lo
          BY <1>9, <2>3, <3>1, <3>3 DEF A
        <4>2. IsKid(t, top, g, Invalid, Invalid, p, k)
          BY <2>1, <3>1, <3>3, <4>1
        <4>3. k.val # left /\ k.val # right /\ k.val \in DOMAIN h /\ k.val # Invalid
          BY <1>2, <1>10, <4>1, <4>2 DEF IsKid
        <4>4. g[k.val].hi = k.hi
          BY <4>2, <4>3 DEF IsKid, Seen
        <4> QED  BY <1>12, <1>13, <1>14, <3>3, <4>2, <4>3, <4>4 DEF IsKid
      <3>4. CASE q # p
        <4>1. s[q] = t[q]
          BY <1>2, <1>7, <2>0, <3>1, <3>4
        <4>2. IsKid(t, top, g, Invalid, Invalid, q, k)
          BY <2>1, <2>3, <3>1, <4>1
        <4>3. k.val # left /\ k.val # right /\ k.val \in DOMAIN h /\ k.val # Invalid
          BY <1>2, <1>3, <1>10, <3>4, <4>2 DEF IsKid
        <4>4. g[k.val].hi = k.hi
          BY <4>2, <4>3 DEF IsKid, Seen
        <4> QED  BY <1>12, <1>13, <1>14, <4>2, <4>3, <4>4 DEF IsKid
      <3> QED  BY <3>2, <3>3, <3>4
    <2>4. ASSUME q # top
          PROVE  /\ h[q].lev < h[top].lev
                 /\ s[q].parent \in DOMAIN h /\ ~s[s[q].parent].leaf
                 /\ \E k \in Kids(s[s[q].parent], h[s[q].parent]) : k.val = q
      <3> DEFINE P == t[q].parent
      <3>1. P \in DOMAIN g /\ ~t[P].leaf /\ h[q].lev < h[top].lev
        <4>1. top \in DOMAIN h
          BY <1>1, <1>3, <1>10
        <4> QED  BY <1>12, <2>1, <2>4, <4>1
      <3>2. PICK k \in Kids(t[P], g[P]) : k.val = q
        BY <2>1, <2>4
      <3>3. s[q].parent = P
        BY <1>13
      <3> HIDE DEF P
      <3>4. P \in DOMAIN h /\ ~s[P].leaf /\ P # left /\ P # right /\ h[P] = g[P]
        BY <1>4, <1>10, <1>13, <3>1
      <3>5. CASE P = p /\ q = left
        BY <1>9, <1>11, <3>1, <3>3, <3>4, <3>5 DEF A
      <3>6. CASE P = p /\ q # left
        <4>1. IsKid(t, top, g, Invalid, Invalid, p, k)
          BY <1>2, <3>2, <3>6 DEF Placed
        <4>2. g[q].lo = k.lo
          BY <3>2, <4>1 DEF IsKid
        <4>3. g[q].lev + 1 = g[p].lev /\ g[q].lev \in Nat /\ g[p].lev \in Nat
          BY <1>2, <2>0, <3>2, <4>1 DEF IsKid, Band
        <4>4. t[q].leaf
          <5>1. g[q].lev = 0
            BY ONLY <1>3, <1>4, <4>3
          <5> QED  BY <2>1, <5>1 DEF FitsBand
        <4>5. g[q].lo # g[left].lo /\ g[q].lo # g[right].lo
          BY ONLY <1>3, <1>4, <2>0, <3>6, <4>4, SameEnd, Whole(t, top, g), g[top].lev < NewId(t), t[left].leaf
        <4> QED  BY <1>9, <3>1, <3>2, <3>3, <3>4, <3>6, <4>2, <4>5
      <3>7. CASE P # p
        <4>1. s[P] = t[P]
          BY <1>2, <1>7, <3>1, <3>4, <3>7
        <4> QED  BY <3>1, <3>2, <3>3, <3>4, <4>1
      <3> QED  BY <3>5, <3>6, <3>7
    <2>5. PointsRight(s, h, q)
      <3> SUFFICES ASSUME s[q].leaf
                   PROVE  IF h[q].hi = Supremum THEN s[q].next = Invalid
                          ELSE /\ s[q].next \in DOMAIN h /\ s[s[q].next].leaf
                               /\ h[s[q].next].lo = h[q].hi
        BY DEF PointsRight
      <3> DEFINE x == IF q = left THEN right ELSE q
      <3>1. s[q].next = t[x].next /\ h[q].hi = g[x].hi /\ t[x].leaf /\ x \in DOMAIN g /\ x # left
        <4>1. CASE q = left
          BY <1>3, <1>4, <1>7, <1>12, <4>1
        <4>2. CASE q # left
          BY <1>10, <1>13, <2>0, <4>2
        <4> QED  BY <4>1, <4>2
      <3>2. PointsRight(t, g, x)
        BY <1>2, <3>1 DEF Placed
      <3> HIDE DEF x
      <3>3. CASE g[x].hi = Supremum
        BY <3>1, <3>2, <3>3 DEF PointsRight
      <3>4. CASE g[x].hi # Supremum
        <4>1. /\ t[x].next \in DOMAIN g /\ t[t[x].next].leaf /\ g[t[x].next].lo = g[x].hi
          BY <3>1, <3>2, <3>4 DEF PointsRight
        <4>2. t[x].next # right
          <5> SUFFICES ASSUME t[x].next = right PROVE FALSE
            OBVIOUS
          <5>1. g[x].hi = g[left].hi
            BY <1>3, <4>1
          <5> QED  BY <1>3, <3>1, <5>1, SameEnd
        <4>3. t[x].next \in DOMAIN h
          BY <1>10, <4>1, <4>2
        <4>4. s[t[x].next].leaf /\ h[t[x].next].lo = g[x].hi
          BY <1>12, <1>13, <4>1, <4>3
        <4> QED  BY <3>1, <3>4, <4>3, <4>4
      <3> QED  BY <3>3, <3>4
    <2> QED  BY <2>2, <2>3, <2>4, <2>5 DEF Placed
  <1>17. /\ DOMAIN h \subseteq DOMAIN s /\ top \in DOMAIN h
         /\ s[top].parent = Invalid /\ h[top].lo = 0
         /\ Seen(h, Invalid, Invalid, top) = Supremum /\ Divided(s, top, h, Invalid, Invalid)
    <2>1. top \in DOMAIN h
      BY <1>1, <1>3, <1>10
    <2>2. g[top].hi = Supremum
      BY <1>1, <1>2 DEF Seen
    <2> QED  BY <1>1, <1>3, <1>7, <1>10, <1>12, <1>13, <1>14, <2>1, <2>2 DEF Divided
  <1>18. Whole(s, top, h)
    BY <1>7, <1>16, <1>17, ShapeFrom DEF Whole
  <1>19. Content(s, h) = Content(t, g)
    <2>1. ASSUME NEW e
          PROVE  (\E r \in DOMAIN h : s[r].leaf /\ e \in Entries(s[r])) <=>
                 (\E r \in DOMAIN g : t[r].leaf /\ e \in Entries(t[r]))
      <3>0. \A r \in DOMAIN h : t[r].leaf /\ r # left => s[r] = t[r] /\ r \in DOMAIN g
        BY <1>2, <1>7, <1>10
      <3>1. ASSUME NEW r \in DOMAIN h, s[r].leaf, e \in Entries(s[r])
            PROVE  \E x \in DOMAIN g : t[x].leaf /\ e \in Entries(t[x])
        <4>1. CASE r = left
          BY <1>3, <1>4, <1>7, <3>1, <4>1
        <4>2. CASE r # left
          BY <1>13, <3>0, <3>1, <4>2
        <4> QED  BY <4>1, <4>2
      <3>2. ASSUME NEW r \in DOMAIN g, t[r].leaf, e \in Entries(t[r])
            PROVE  \E x \in DOMAIN h : s[x].leaf /\ e \in Entries(s[x])
        <4>1. CASE r = left \/ r = right
          BY <1>3, <1>7, <1>10, <3>2, <4>1
        <4>2. CASE r # left /\ r # right
          BY <1>10, <3>0, <3>2, <4>2
        <4> QED  BY <4>1, <4>2
      <3> QED  BY <3>1, <3>2
    <2>2. \A e : e \in Content(s, h) <=> e \in Content(t, g)
      BY <2>1, ContentIs
    <2> QED  BY <2>2
  <1>20. h[top].lev = g[top].lev
    BY <1>12, <1>17
  <1> QED  BY <1>6, <1>8, <1>10, <1>18, <1>19, <1>20 DEF IsMerged, s, h
=============================================================================
