------------------------ MODULE BPlusTreeIndexProofs ------------------------
(***************************************************************************)
(* The whole tree, for every pair of page sizes that Usable admits, any    *)
(* set of keys and any sequence of insertions, and of removals while the   *)
(* tree has at most two levels: a removal takes out one entry and keeps    *)
(* the tree whole, the tree implements OrderedIndex, parents and           *)
(* separators are right, the leaf chain lists the keys that lookups find,  *)
(* and an entry that moves between two leaves stays where lookups find it. *)
(***************************************************************************)
EXTENDS BPlusTreeProofs

-----------------------------------------------------------------------------
(* Removals. *)

WithoutKey(C, k) == {e \in C : e.key # k}

\* Page `leaf` is leaf q without the entry of key k.
EntryDropped(t, top, g, k, q, leaf) ==
    /\ q \in DOMAIN g /\ t[q].leaf
    /\ leaf \in Page(Vals) /\ SameHeader(t[q], leaf) /\ FitsBand(leaf, g[q])
    /\ leaf.size <= t[q].size /\ leaf.size + 1 >= t[q].size
    /\ Whole([t EXCEPT ![q] = leaf], top, g)
    /\ Content([t EXCEPT ![q] = leaf], g) = WithoutKey(Content(t, g), k)

LEMMA EntryDroppedIs ==
    ASSUME NEW t, NEW top, NEW g, Tree(t, top, g), NEW k \in Keys
    PROVE  EntryDropped(t, top, g, k, FindLeaf(t, top, k),
                        RemoveAndDeleteRecord(t[FindLeaf(t, top, k)], k))
  <1> DEFINE q == FindLeaf(t, top, k)
             leaf == RemoveAndDeleteRecord(t[q], k)
             C == Content(t, g)
  <1>1. Whole(t, top, g) /\ g[top].lev < NewId(t)
    BY DEF Tree
  <1>2. k \in Nat /\ k \in Int /\ k < Supremum
    BY SupremumIs
  <1>3. q \in DOMAIN g /\ t[q].leaf /\ InRange(g[q], k)
    BY <1>1, <1>2, DescentCorrect
  <1> HIDE DEF q
  <1>4. t[q] \in Page(Vals) /\ g[q] \in Band /\ FitsBand(t[q], g[q])
    BY <1>1, <1>3, WholeIs
  <1>5. Ordered(t[q]) /\ t[q].size \in Nat
    BY <1>3, <1>4, PageType DEF FitsBand
  <1>6. /\ leaf \in Page(Vals) /\ SameHeader(t[q], leaf) /\ Ordered(leaf)
        /\ Entries(leaf) = {e \in Entries(t[q]) : e.key # k}
        /\ leaf.size = IF \E e \in Entries(t[q]) : e.key = k THEN t[q].size - 1 ELSE t[q].size
    BY <1>2, <1>4, <1>5, LeafRemoveCorrect
  <1> HIDE DEF leaf
  <1>7. leaf.size <= t[q].size /\ leaf.size + 1 >= t[q].size
    BY <1>5, <1>6
  <1>8. FitsBand(leaf, g[q])
    <2>1. leaf.leaf = t[q].leaf /\ leaf.max = t[q].max
      BY <1>6 DEF SameHeader
    <2>2. \A e \in Entries(leaf) : g[q].lo <= e.key /\ e.key < g[q].hi
      BY <1>3, <1>4, <1>6 DEF FitsBand
    <2> QED  BY <1>3, <1>4, <1>6, <2>1, <2>2 DEF FitsBand
  <1>9. Whole([t EXCEPT ![q] = leaf], top, g)
    BY <1>1, <1>3, <1>6, <1>8, LeafReplaced
  <1>10. leaf.leaf
    BY <1>3, <1>6 DEF SameHeader
  <1>11. Content([t EXCEPT ![q] = leaf], g) = Entries(leaf) \cup {e \in C : ~InRange(g[q], e.key)}
    BY <1>1, <1>3, <1>10, LeafReplacedContent
  <1>12. Entries(t[q]) = {e \in C : InRange(g[q], e.key)}
    BY <1>1, <1>3, LeafHolds
  <1> HIDE DEF C
  <1>13. Entries(leaf) \cup {e \in C : ~InRange(g[q], e.key)} = WithoutKey(C, k)
    BY <1>3, <1>6, <1>12 DEF WithoutKey
  <1>14. EntryDropped(t, top, g, k, q, leaf)
    BY <1>3, <1>6, <1>7, <1>8, <1>9, <1>11, <1>13 DEF EntryDropped, C
  <1> QED  BY <1>14 DEF q, leaf

\* The bands when the only child of page `top` has become the root.
ChildBand(g, top) == [q \in DOMAIN g \ {top} |-> g[q]]

IsShrunk(t, top, g, s, c, h) ==
    /\ Whole(s, c, h) /\ DOMAIN h = DOMAIN g \ {top} /\ c \in DOMAIN h
    /\ h[c].lev + 1 = g[top].lev
    /\ NewId(s) = NewId(t) /\ \A q \in DOMAIN h : SameBody(t[q], s[q])
    /\ Content(s, h) = Content(t, g)

LEMMA RootShrunk ==
    ASSUME NEW t, NEW top, NEW g, Whole(t, top, g), ~t[top].leaf, t[top].size = 1,
           NEW c, c = t[top].slot[0].val,
           NEW s, s = [t EXCEPT ![top].size = 0, ![c].parent = Invalid]
    PROVE  IsShrunk(t, top, g, s, c, ChildBand(g, top))
  <1> DEFINE h == ChildBand(g, top)
  <1>1. /\ t \in Pages /\ DOMAIN g \subseteq DOMAIN t /\ top \in DOMAIN g
        /\ g[top].lo = 0 /\ Seen(g, Invalid, Invalid, top) = Supremum
    BY ShapeIs DEF Whole
  <1>2. \A r \in DOMAIN g : /\ t[r] \in Page(Vals) /\ r # Invalid /\ r \in DOMAIN t
                            /\ g[r] \in Band /\ FitsBand(t[r], g[r])
                            /\ Placed(t, top, g, Invalid, Invalid, r)
    BY ShapeIs DEF Whole
  <1>3. g[top].hi = Supremum /\ t[top] \in Page(Vals)
    BY <1>1, <1>2 DEF Seen
  <1> DEFINE K == [val |-> c, lo |-> 0, hi |-> Supremum]
  <1>4. Kids(t[top], g[top]) = {K}
    <2>1. Used(t[top]) = {0}
      BY DEF Used
    <2>2. Kid(t[top], g[top], 0) = K
      BY <1>1, <1>3 DEF Kid, From, UpTo
    <2> QED  BY <2>1, <2>2 DEF Kids
  <1>5. K.val = c /\ K.lo = 0 /\ K.hi = Supremum
    OBVIOUS
  <1> HIDE DEF K
  <1>6. IsKid(t, top, g, Invalid, Invalid, top, K)
    BY <1>1, <1>2, <1>4 DEF Placed
  <1>7. /\ c \in DOMAIN g /\ c # top /\ c # Invalid /\ g[c].lev + 1 = g[top].lev
        /\ t[c].parent = top /\ g[c].lo = 0 /\ g[c].hi = Supremum /\ c \in DOMAIN t
    BY <1>2, <1>5, <1>6 DEF IsKid, Seen
  <1>8. /\ DOMAIN h = DOMAIN g \ {top}
        /\ \A q \in DOMAIN h : h[q] = g[q] /\ q # top /\ q \in DOMAIN g
    BY DEF ChildBand
  <1> HIDE DEF h
  <1>9. c \in DOMAIN h
    BY <1>7, <1>8
  <1>10. /\ \A q \in DOMAIN t : q # top /\ q # c => s[q] = t[q]
         /\ DOMAIN s = DOMAIN t /\ s[c] = [t[c] EXCEPT !.parent = Invalid]
         /\ s[top] = [t[top] EXCEPT !.size = 0]
    BY <1>1, <1>7
  <1>11. /\ s[c] \in Page(Vals) /\ SameBody(t[c], s[c]) /\ s[c].parent = Invalid
         /\ s[top] \in Page(Vals)
    <2>1. Invalid \in Int /\ 0 \in Bounds
      BY MaxSlotAssumption DEF Invalid, Bounds
    <2>2. ASSUME NEW a \in Page(Vals)
          PROVE  /\ [a EXCEPT !.parent = Invalid] \in Page(Vals)
                 /\ SameBody(a, [a EXCEPT !.parent = Invalid])
                 /\ [a EXCEPT !.parent = Invalid].parent = Invalid
                 /\ [a EXCEPT !.size = 0] \in Page(Vals)
      BY <2>1 DEF Page, SameBody
    <2>3. t[c] \in Page(Vals)
      BY <1>2, <1>7
    <2>4. /\ [t[c] EXCEPT !.parent = Invalid] \in Page(Vals)
          /\ SameBody(t[c], [t[c] EXCEPT !.parent = Invalid])
          /\ [t[c] EXCEPT !.parent = Invalid].parent = Invalid
          /\ [t[top] EXCEPT !.size = 0] \in Page(Vals)
      BY <1>3, <2>2, <2>3
    <2> QED  BY <1>10, <2>4
  <1>12. s \in Pages /\ NewId(s) = NewId(t)
    <2>1. PICK n \in Nat : t \in [0 .. n - 1 -> Page(Vals)]
      BY <1>1 DEF Pages
    <2>2. s = [q \in DOMAIN t |-> s[q]]
      OBVIOUS
    <2>3. \A q \in DOMAIN t : s[q] \in Page(Vals)
      BY <1>1, <1>10, <1>11, PagesAre
    <2>4. s \in [0 .. n - 1 -> Page(Vals)]
      BY <2>1, <2>2, <2>3
    <2> QED  BY <1>10, <2>1, <2>4 DEF Pages, NewId
  <1>13. \A q \in DOMAIN h : SameBody(t[q], s[q])
    <2>1. \A q : SameBody(t[q], t[q])
      BY DEF SameBody
    <2> QED  BY <1>2, <1>8, <1>10, <1>11, <2>1
  <1>14. ASSUME NEW q \in DOMAIN g, t[q].parent = top, q # top PROVE q = c
    <2>1. \E k \in Kids(t[top], g[top]) : k.val = q
      BY <1>2, <1>14 DEF Placed
    <2> QED  BY <1>4, <1>5, <2>1
  <1>15. \A q : Seen(h, Invalid, Invalid, q) = IF q = Invalid THEN h[Invalid].hi ELSE h[q].hi
    BY DEF Seen
  <1>16. ASSUME NEW q \in DOMAIN h PROVE Placed(s, c, h, Invalid, Invalid, q)
    <2>1. /\ q # top /\ q \in DOMAIN g /\ h[q] = g[q] /\ q # Invalid
          /\ g[q] \in Band /\ FitsBand(t[q], g[q]) /\ SameBody(t[q], s[q])
          /\ ~t[q].leaf => \A k \in Kids(t[q], g[q]) : IsKid(t, top, g, Invalid, Invalid, q, k)
          /\ g[q].lev < g[top].lev
          /\ t[q].parent \in DOMAIN g /\ ~t[t[q].parent].leaf
          /\ \E k \in Kids(t[t[q].parent], g[t[q].parent]) : k.val = q
          /\ PointsRight(t, g, q)
      BY <1>2, <1>8, <1>13 DEF Placed
    <2>2. FitsBand(s[q], h[q]) /\ Kids(s[q], h[q]) = Kids(t[q], g[q]) /\ s[q].leaf = t[q].leaf
      <3>1. FitsBand(s[q], g[q]) /\ Kids(s[q], g[q]) = Kids(t[q], g[q])
        BY <2>1, SameBodyIs
      <3>2. s[q].leaf = t[q].leaf
        BY <2>1 DEF SameBody
      <3> QED  BY <2>1, <3>1, <3>2
    <2>3. ASSUME ~s[q].leaf, NEW k \in Kids(s[q], h[q])
          PROVE  IsKid(s, c, h, Invalid, Invalid, q, k)
      <3>1. IsKid(t, top, g, Invalid, Invalid, q, k)
        BY <2>1, <2>2, <2>3
      <3>2. /\ k.val \in DOMAIN g /\ k.val # top /\ k.val # Invalid /\ t[k.val].parent = q
            /\ g[k.val].lev + 1 = g[q].lev /\ g[k.val].lo = k.lo /\ g[k.val].hi = k.hi
        BY <1>2, <3>1 DEF IsKid, Seen
      <3>3. k.val # c /\ k.val \in DOMAIN h /\ h[k.val] = g[k.val]
        BY <1>7, <1>8, <2>1, <3>2
      <3>4. s[k.val] = t[k.val]
        BY <1>2, <1>10, <3>2, <3>3
      <3> QED  BY <2>1, <3>2, <3>3, <3>4 DEF IsKid, Seen
    <2>4. ASSUME q # c
          PROVE  /\ h[q].lev < h[c].lev
                 /\ s[q].parent \in DOMAIN h /\ ~s[s[q].parent].leaf
                 /\ \E k \in Kids(s[s[q].parent], h[s[q].parent]) : k.val = q
      <3> DEFINE P == t[q].parent
      <3>1. s[q] = t[q] /\ P # top
        BY <1>2, <1>10, <1>14, <2>1, <2>4
      <3>2. P \in DOMAIN g /\ ~t[P].leaf /\ \E k \in Kids(t[P], g[P]) : k.val = q
        BY <2>1
      <3> HIDE DEF P
      <3>3. P \in DOMAIN h /\ h[P] = g[P] /\ SameBody(t[P], s[P])
        BY <1>8, <1>13, <3>1, <3>2
      <3>4. Kids(s[P], g[P]) = Kids(t[P], g[P]) /\ s[P].leaf = t[P].leaf
        BY <3>3, SameBodyIs DEF SameBody
      <3>5. h[q].lev < h[c].lev
        <4>1. g[P].lev < g[top].lev
          BY <1>2, <3>1, <3>2 DEF Placed
        <4>2. g[q].lev + 1 = g[P].lev
          <5>1. PICK k \in Kids(t[P], g[P]) : k.val = q
            BY <3>2
          <5>2. IsKid(t, top, g, Invalid, Invalid, P, k)
            BY <1>2, <3>2, <5>1 DEF Placed
          <5> QED  BY <5>1, <5>2 DEF IsKid
        <4>3. g[q].lev \in Nat /\ g[P].lev \in Nat /\ g[top].lev \in Nat /\ g[c].lev \in Nat
          BY <1>1, <1>2, <1>7, <2>1, <3>2 DEF Band
        <4>4. g[q].lev < g[c].lev
          BY <1>7, <4>1, <4>2, <4>3
        <4> QED  BY <1>8, <1>9, <2>1, <4>4
      <3>6. s[q].parent = P
        BY <3>1 DEF P
      <3> QED  BY <3>2, <3>3, <3>4, <3>5, <3>6
    <2>5. PointsRight(s, h, q)
      <3> SUFFICES ASSUME s[q].leaf
                   PROVE  IF h[q].hi = Supremum THEN s[q].next = Invalid
                          ELSE /\ s[q].next \in DOMAIN h /\ s[s[q].next].leaf
                               /\ h[s[q].next].lo = h[q].hi
        BY DEF PointsRight
      <3>1. s[q].next = t[q].next /\ t[q].leaf /\ h[q].hi = g[q].hi
        BY <2>1, <2>2 DEF SameBody
      <3>2. CASE g[q].hi = Supremum
        BY <2>1, <3>1, <3>2 DEF PointsRight
      <3>3. CASE g[q].hi # Supremum
        <4> DEFINE x == t[q].next
        <4>1. x \in DOMAIN g /\ t[x].leaf /\ g[x].lo = g[q].hi
          BY <2>1, <3>1, <3>3 DEF PointsRight
        <4> HIDE DEF x
        <4>2. x \in DOMAIN h /\ h[x] = g[x]
          BY <1>8, <4>1
        <4>3. s[x].leaf
          BY <1>13, <4>1, <4>2 DEF SameBody
        <4>4. s[q].next = x
          BY <3>1 DEF x
        <4> QED  BY <3>1, <3>3, <4>1, <4>2, <4>3, <4>4
      <3> QED  BY <3>2, <3>3
    <2> QED  BY <2>1, <2>2, <2>3, <2>4, <2>5 DEF Placed
  <1>17. h[c] = g[c] /\ Seen(h, Invalid, Invalid, c) = Supremum
    BY <1>7, <1>8, <1>9, <1>15
  <1>18. DOMAIN h \subseteq DOMAIN s /\ Divided(s, c, h, Invalid, Invalid)
    BY <1>1, <1>8, <1>10 DEF Divided
  <1>19. Whole(s, c, h)
    BY <1>7, <1>9, <1>11, <1>12, <1>16, <1>17, <1>18, ShapeFrom DEF Whole
  <1>20. Content(s, h) = Content(t, g)
    <2>1. \A q \in DOMAIN g : t[q].leaf => q \in DOMAIN h
      BY <1>8
    <2>2. \A q \in DOMAIN h : s[q].leaf = t[q].leaf /\ Entries(s[q]) = Entries(t[q])
      <3> SUFFICES ASSUME NEW q \in DOMAIN h
                   PROVE  s[q].leaf = t[q].leaf /\ Entries(s[q]) = Entries(t[q])
        OBVIOUS
      <3>1. SameBody(t[q], s[q])
        BY <1>13
      <3>2. Entries(s[q]) = Entries(t[q]) /\ Kids(s[q], h[q]) = Kids(t[q], h[q])
        BY <3>1, SameBodyIs
      <3> QED  BY <3>1, <3>2 DEF SameBody
    <2>3. \A q \in DOMAIN g : t[q].leaf =>
             q \in DOMAIN h /\ s[q].leaf /\ Entries(s[q]) = Entries(t[q])
      BY <2>1, <2>2
    <2>4. \A q \in DOMAIN h : s[q].leaf => q \in DOMAIN g /\ t[q].leaf
      BY <1>8, <2>2
    <2> QED  BY ONLY <2>3, <2>4, ContentSame
  <1>21. h[c].lev + 1 = g[top].lev
    BY <1>7, <1>17
  <1> QED  BY <1>8, <1>9, <1>12, <1>13, <1>19, <1>20, <1>21 DEF IsShrunk, h
-----------------------------------------------------------------------------
(* The leftmost descent. *)

FirstChild(t) == [q \in DOMAIN t |-> IF t[q].leaf THEN q ELSE t[q].slot[0].val]

\* Page q is what n rounds of the leftmost descent reach.
OnLeft(t, top, g, q, n) ==
    /\ q \in DOMAIN g /\ g[q].lo = 0
    /\ n + g[q].lev = g[top].lev \/ (t[q].leaf /\ g[top].lev <= n)

LEMMA LeftmostIs ==
    ASSUME NEW t, NEW top, NEW g, Whole(t, top, g), NEW n \in Nat
    PROVE  OnLeft(t, top, g, Leftmost(t, top, n), n)
  <1> DEFINE below == FirstChild(t)
             f == CHOOSE f : Descends(below, top, f)
             S == {q \in DOMAIN g : g[q].lo = 0}
             P == {m \in Nat : OnLeft(t, top, g, f[m], m)}
  <1>1. Leftmost(t, top, n) = f[n]
    BY DEF Leftmost, Descends, FirstChild
  <1>2. /\ t \in Pages /\ DOMAIN g \subseteq DOMAIN t /\ top \in DOMAIN g
        /\ g[top].lo = 0
        /\ \A r \in DOMAIN g : /\ t[r] \in Page(Vals) /\ r # Invalid /\ g[r] \in Band
                               /\ FitsBand(t[r], g[r])
                               /\ PointsDown(t, top, g, Invalid, Invalid, r)
    BY WholeIs
  <1>3. ASSUME NEW q \in DOMAIN g, g[q].lo = 0
        PROVE  /\ below[q] \in DOMAIN g /\ g[below[q]].lo = 0
               /\ IF t[q].leaf THEN below[q] = q ELSE g[below[q]].lev + 1 = g[q].lev
    <2>1. CASE t[q].leaf
      BY <1>2, <1>3, <2>1 DEF FirstChild
    <2>2. CASE ~t[q].leaf
      <3>1. below[q] = t[q].slot[0].val
        BY <1>2, <2>2 DEF FirstChild
      <3>2. t[q].size \in Nat /\ t[q].size >= 1
        BY <1>2, <2>2, PageType DEF FitsBand
      <3>3. 0 \in Used(t[q])
        BY <3>2 DEF Used
      <3>4. IsChild(t, top, g, Invalid, Invalid, q, 0, t[q].slot[0].val)
        BY <1>2, <2>2, <3>3 DEF PointsDown
      <3> QED  BY <1>3, <2>2, <3>1, <3>4 DEF IsChild, From
    <2> QED  BY <2>1, <2>2
  <1>4. DOMAIN below = DOMAIN t
    BY DEF FirstChild
  <1> HIDE DEF below
  <1>5. Descends(below, top, f)
    <2>1. S \in SUBSET DOMAIN below /\ top \in S /\ \A q \in S : below[q] \in S
      BY <1>2, <1>3, <1>4
    <2> HIDE DEF S
    <2>2. \E d : Descends(below, top, d)
      BY <2>1, DescentExists
    <2> QED  BY <2>2
  <1> HIDE DEF f
  <1>6. f[0] = top /\ \A m \in Nat : f[m + 1] = below[f[m]]
    <2>1. \A m \in Nat : m + 1 \in Nat /\ m + 1 # 0 /\ (m + 1) - 1 = m
      OBVIOUS
    <2> QED  BY <1>5, <2>1 DEF Descends
  <1>7. \A q \in DOMAIN g : g[q].lev \in Nat /\ (t[q].leaf <=> g[q].lev = 0)
    BY <1>2 DEF Band, FitsBand
  <1>8. 0 \in P
    BY <1>2, <1>6, <1>7 DEF OnLeft
  <1>9. ASSUME NEW m \in P PROVE m + 1 \in P
    <2> DEFINE q == f[m]
               r == f[m + 1]
    <2>1. /\ m \in Nat /\ q \in DOMAIN g /\ g[q].lo = 0
          /\ m + g[q].lev = g[top].lev \/ (t[q].leaf /\ g[top].lev <= m)
      BY DEF OnLeft
    <2>2. r = below[q]
      BY <1>6, <2>1
    <2> HIDE DEF q, r
    <2>3. /\ r \in DOMAIN g /\ g[r].lo = 0
          /\ IF t[q].leaf THEN r = q ELSE g[r].lev + 1 = g[q].lev
      BY <1>3, <2>1, <2>2
    <2>4. (m + 1) + g[r].lev = g[top].lev \/ (t[r].leaf /\ g[top].lev <= m + 1)
      <3>0. g[q].lev \in Nat /\ g[r].lev \in Nat /\ g[top].lev \in Nat
        BY <1>2, <1>7, <2>1, <2>3
      <3>1. CASE t[q].leaf
        <4>1. g[q].lev = 0 /\ r = q
          BY <1>7, <2>1, <2>3, <3>1
        <4> QED  BY <2>1, <3>0, <3>1, <4>1
      <3>2. CASE ~t[q].leaf
        BY <2>1, <2>3, <3>0, <3>2
      <3> QED  BY <3>1, <3>2
    <2> QED  BY <2>1, <2>3, <2>4 DEF OnLeft, r
  <1>10. P = Nat
    <2> HIDE DEF P
    <2>1. P \in SUBSET Nat
      BY DEF P
    <2> QED  BY <1>8, <1>9, <2>1, Inductive
  <1>11. OnLeft(t, top, g, f[n], n)
    BY <1>10
  <1> QED  BY <1>1, <1>11

\* The guard of Remove for the depths the tree can be removed from.
LEMMA ShallowIs ==
    ASSUME NEW t, NEW top, NEW g, Whole(t, top, g), NEW d \in {0, 1},
           t[Leftmost(t, top, d)].leaf
    PROVE  g[top].lev \in {0, 1}
  <1> DEFINE q == Leftmost(t, top, d)
  <1>1. OnLeft(t, top, g, q, d)
    <2>1. d \in Nat
      OBVIOUS
    <2> QED  BY <2>1, LeftmostIs
  <1> HIDE DEF q
  <1>2. q \in DOMAIN g /\ (d + g[q].lev = g[top].lev \/ g[top].lev <= d)
    BY <1>1 DEF OnLeft
  <1>3. g[q].lev = 0 /\ g[top].lev \in Nat
    <2>1. FitsBand(t[q], g[q]) /\ g[top] \in Band
      BY <1>2, WholeIs
    <2> QED  BY <2>1 DEF FitsBand, Band, q
  <1> QED  BY <1>2, <1>3

\* Begin() starts at the leaf of the smallest keys.
LEMMA FirstLeafIs ==
    ASSUME NEW t, NEW top, NEW g, Tree(t, top, g)
    PROVE  /\ FirstLeaf(t, top) \in DOMAIN g /\ t[FirstLeaf(t, top)].leaf
           /\ g[FirstLeaf(t, top)].lo = 0
  <1> DEFINE q == FirstLeaf(t, top)
             n == NewId(t)
  <1>1. Whole(t, top, g) /\ g[top].lev < n
    BY DEF Tree
  <1>2. t \in Pages /\ g[top] \in Band
    BY <1>1, WholeIs
  <1>3. n \in Nat /\ g[top].lev \in Nat
    BY <1>2, PagesAre DEF Band
  <1>4. q = Leftmost(t, top, n)
    BY DEF FirstLeaf
  <1> HIDE DEF q, n
  <1>5. OnLeft(t, top, g, q, n)
    BY <1>1, <1>3, <1>4, LeftmostIs
  <1>6. q \in DOMAIN g /\ g[q].lo = 0 /\ (n + g[q].lev = g[top].lev \/ t[q].leaf)
    BY <1>5 DEF OnLeft
  <1>7. g[q].lev \in Nat
    BY <1>1, <1>6, WholeIs DEF Band
  <1> QED  BY <1>1, <1>3, <1>6, <1>7 DEF q
-----------------------------------------------------------------------------
(* CoalesceOrRedistribute, where the parent of a leaf is the root. *)

CoalesceLoop(x, c) ==
    c = [n \in Nat |-> IF n = 0 THEN {x} ELSE {CoalesceCall(u) : u \in c[n - 1]}]

\* Two calls are enough, and the second changes nothing in a tree of one page.
LEMMA CoalesceEnds ==
    ASSUME NEW s, NEW q, NEW x, NEW y, NEW z,
           x = [pg |-> s.pg, root |-> s.root, q |-> q, relock |-> FALSE],
           y = CoalesceCall(x), z = CoalesceCall(y), CoalesceCall(z) = z,
           NewId(s.pg) \in Nat, NewId(s.pg) >= 1, NewId(s.pg) = 1 => y = z
    PROVE  CoalesceOrRedistribute(s, q) = z
  <1> DEFINE c == CHOOSE c : CoalesceLoop(x, c)
             at(n) == IF n = 0 THEN x ELSE IF n = 1 THEN y ELSE z
             d == [n \in Nat |-> {at(n)}]
             N == NewId(s.pg)
  <1>1. ASSUME NEW n \in Nat PROVE at(n + 1) = CoalesceCall(at(n))
    <2>1. n = 0 \/ n = 1 \/ n > 1
      OBVIOUS
    <2> QED  BY <2>1
  <1> HIDE DEF at
  <1>2. CoalesceLoop(x, d)
    <2>1. ASSUME NEW m \in Nat
          PROVE  d[m] = IF m = 0 THEN {x} ELSE {CoalesceCall(u) : u \in d[m - 1]}
      <3>1. CASE m = 0
        BY <3>1 DEF at
      <3>2. CASE m # 0
        <4>1. m - 1 \in Nat /\ (m - 1) + 1 = m
          BY <3>2
        <4>2. d[m - 1] = {at(m - 1)} /\ at(m) = CoalesceCall(at(m - 1))
          <5> DEFINE l == m - 1
          <5>1. l \in Nat /\ l + 1 = m
            BY <4>1
          <5> HIDE DEF l
          <5>2. d[l] = {at(l)} /\ at(l + 1) = CoalesceCall(at(l))
            BY <1>1, <5>1
          <5> QED  BY <5>1, <5>2 DEF l
        <4> QED  BY <3>2, <4>2
      <3> QED  BY <3>1, <3>2
    <2>2. d = [m \in Nat |-> d[m]]
      OBVIOUS
    <2> HIDE DEF d
    <2> QED  BY <2>1, <2>2 DEF CoalesceLoop
  <1>3. CoalesceLoop(x, c)
    <2> HIDE DEF d
    <2> QED  BY <1>2
  <1>4. CoalesceOrRedistribute(s, q) = CHOOSE u \in c[N] : TRUE
    BY DEF CoalesceOrRedistribute, CoalesceLoop
  <1> HIDE DEF c
  <1> DEFINE Q == {m \in Nat : c[m] = {at(m)}}
  <1>5. 0 \in Q
    BY <1>3 DEF CoalesceLoop, at
  <1>6. ASSUME NEW m \in Q PROVE m + 1 \in Q
    <2>1. m \in Nat /\ m + 1 \in Nat /\ m + 1 # 0 /\ (m + 1) - 1 = m
      OBVIOUS
    <2>2. c[m + 1] = {CoalesceCall(u) : u \in c[(m + 1) - 1]}
      BY <1>3, <2>1 DEF CoalesceLoop
    <2>3. c[m + 1] = {CoalesceCall(u) : u \in {at(m)}}
      BY <2>1, <2>2
    <2> QED  BY <1>1, <2>1, <2>3
  <1>7. Q = Nat
    <2> HIDE DEF Q
    <2>1. Q \in SUBSET Nat
      BY DEF Q
    <2> QED  BY <1>5, <1>6, <2>1, Inductive
  <1>8. c[N] = {at(N)}
    BY <1>7
  <1>9. at(N) = z
    BY DEF at
  <1> QED  BY <1>4, <1>8, <1>9

LEMMA CoalesceStops ==
    ASSUME NEW u, u.q = Invalid
    PROVE  CoalesceCall(u) = u
  BY DEF CoalesceCall

LEMMA SettledIs ==
    ASSUME NEW s
    PROVE  /\ Settled(s).q = Invalid /\ Settled(s).pg = s.pg /\ Settled(s).root = s.root
           /\ Relock(s).q = Invalid /\ Relock(s).pg = s.pg /\ Relock(s).root = s.root
  BY DEF Settled, Relock

\* A tree whose leaf q has lost an entry.
Thin(t, top, g, q) ==
    /\ Whole(t, top, g) /\ g[top].lev < NewId(t) /\ Forked(t, top)
    /\ q \in DOMAIN g /\ t[q].leaf /\ t[q].size <= t[q].max
    /\ \A r \in DOMAIN g : r # q => t[r].size >= 1 /\ t[r].size <= t[r].max

LEMMA ThinIsTree ==
    ASSUME NEW t, NEW top, NEW g, NEW q, Thin(t, top, g, q), t[q].size >= 1
    PROVE  Tree(t, top, g)
  BY DEF Thin, Tree, Sized

\* The result of a removal that leaves the entries C.
Shrunk(w, C) ==
    /\ w.pg \in Pages
    /\ IF w.root = Invalid THEN C = {}
       ELSE \E h : Tree(w.pg, w.root, h) /\ Content(w.pg, h) = C

\* Leaf q is child il or il + 1 of the root: what it would merge with.
Sibling(t, top, q, il, left, right) ==
    /\ il \in Used(t[top]) /\ il + 1 \in Used(t[top])
    /\ left = t[top].slot[il].val /\ right = t[top].slot[il + 1].val
    /\ \/ ValueIndex(t[top], q) > 0 /\ il = ValueIndex(t[top], q) - 1 /\ right = q
       \/ ~(ValueIndex(t[top], q) > 0) /\ il = ValueIndex(t[top], q) /\ left = q

LEMMA SiblingIs ==
    ASSUME NEW t, NEW top, NEW g, Whole(t, top, g), NEW q \in DOMAIN g, q # top,
           t[q].parent = top, t[top].size >= 2
    PROVE  /\ ValueIndex(t[top], q) \in Nat
           /\ \E il, left, right : Sibling(t, top, q, il, left, right)
  <1> DEFINE i == ValueIndex(t[top], q)
             il == IF i > 0 THEN i - 1 ELSE i
  <1>1. PointsUp(t, top, g, Invalid, q) /\ q # Invalid /\ top \in DOMAIN g
    BY WholeIs
  <1>2. \E j \in Used(t[top]) : t[top].slot[j].val = q
    BY <1>1 DEF PointsUp
  <1>3. t[top] \in Page(Vals)
    BY <1>1, WholeIs
  <1>4. i \in Used(t[top]) /\ t[top].slot[i].val = q
    BY <1>2, <1>3, ValueIndexIs
  <1> HIDE DEF i
  <1>5. t[top].size \in Nat
    BY <1>3, PageType
  <1>6. /\ i \in Nat /\ i < t[top].size /\ il \in Used(t[top]) /\ il + 1 \in Used(t[top])
        /\ i > 0 => il + 1 = i
    BY <1>4, <1>5 DEF Used
  <1>7. Sibling(t, top, q, il, t[top].slot[il].val, t[top].slot[il + 1].val)
    <2>1. CASE i > 0
      <3>1. il + 1 = i /\ il = i - 1
        BY <1>6, <2>1
      <3> HIDE DEF il
      <3>2. t[top].slot[il + 1].val = q
        BY <1>4, <3>1
      <3> QED  BY <1>6, <2>1, <3>1, <3>2 DEF Sibling, i
    <2>2. CASE ~(i > 0)
      <3>1. il = i
        BY <2>2
      <3> HIDE DEF il
      <3> QED  BY <1>4, <1>6, <2>2, <3>1 DEF Sibling, i
    <2> QED  BY <2>1, <2>2
  <1> QED  BY <1>6, <1>7 DEF i

\* The leaf and its neighbour fit in one page.
MergeLeaves(t, top, g, T, C) ==
    /\ T \in Pages /\ NewId(T) = NewId(t) /\ T[top].size = t[top].size - 1
    /\ T[top].max = t[top].max /\ ~T[top].leaf /\ T[top].parent = Invalid
    /\ \E h : /\ Whole(T, top, h) /\ Sized(T, h) /\ h[top].lev = g[top].lev
              /\ Content(T, h) = C

LEMMA MergeLeavesIs ==
    ASSUME NEW t, NEW top, NEW g, NEW q, Thin(t, top, g, q), GoodSizes, q # top,
           g[top].lev = 1, NEW il, NEW left, NEW right, Sibling(t, top, q, il, left, right),
           t[left].size + t[right].size <= leaf_max_size
    PROVE  MergeLeaves(t, top, g, Coalesce(t, left, right, top, il), Content(t, g))
  <1> DEFINE T == Coalesce(t, left, right, top, il)
             h == MergedBand(g, left, right)
  <1>1. /\ Whole(t, top, g) /\ g[top].lev < NewId(t) /\ Forked(t, top)
        /\ q \in DOMAIN g /\ t[q].leaf /\ t[q].size <= t[q].max
        /\ \A r \in DOMAIN g : r # q => t[r].size >= 1 /\ t[r].size <= t[r].max
    BY DEF Thin
  <1>2. /\ il \in Used(t[top]) /\ il + 1 \in Used(t[top])
        /\ left = t[top].slot[il].val /\ right = t[top].slot[il + 1].val
        /\ q = left \/ q = right
    BY DEF Sibling
  <1>3. /\ top \in DOMAIN g /\ t \in Pages /\ DOMAIN g \subseteq DOMAIN t
        /\ \A r \in DOMAIN g : t[r] \in Page(Vals) /\ FitsBand(t[r], g[r]) /\ g[r] \in Band
    BY <1>1, WholeIs
  <1>4. ~t[top].leaf /\ t[top].max = internal_max_size
    BY <1>3 DEF FitsBand
  <1>5. /\ left \in DOMAIN g /\ right \in DOMAIN g /\ left # right /\ left # top /\ right # top
        /\ g[left].lev + 1 = g[top].lev /\ g[left].lev = g[right].lev
    <2>1. NextTo(t, top, il, left, right)
      BY <1>2, <1>4 DEF NextTo
    <2>2. Beside(t, top, g, top, il, left, right)
      BY <1>1, <1>3, <2>1, BesideIs
    <2> QED  BY ONLY <2>2 DEF Beside
  <1>6. /\ t[left].leaf /\ t[right].leaf /\ t[left].max = leaf_max_size
        /\ t[left].size \in Nat /\ t[right].size \in Nat /\ t[top].size \in Nat
    <2>1. g[left].lev = 0
      <3>1. g[left].lev \in Nat
        BY <1>3, <1>5 DEF Band
      <3> QED  BY <1>5, <3>1
    <2>2. t[left].leaf /\ t[right].leaf /\ t[left].max = leaf_max_size
      BY <1>3, <1>5, <2>1 DEF FitsBand
    <2>3. t[left].size \in Nat /\ t[right].size \in Nat /\ t[top].size \in Nat
      BY <1>3, <1>5, PageType
    <2> QED  BY <2>2, <2>3
  <1>7. t[left].size + t[right].size <= MaxSlot + 1
    BY <1>6, MaxSlotAssumption DEF GoodSizes
  <1>8. IsMerged(t, top, g, left, right, top, il, T, h)
    BY <1>1, <1>2, <1>3, <1>4, <1>6, <1>7, LeavesMerged
  <1> HIDE DEF T, h
  <1>9. /\ LeavesJoined(t, T, left, right, top, il)
        /\ KidDropped(T[top], t[top], g[top], il)
        /\ Whole(T, top, h) /\ DOMAIN h = DOMAIN g \ {right}
        /\ h[top].lev = g[top].lev
        /\ Content(T, h) = Content(t, g)
    BY <1>8 DEF IsMerged
  <1>10. /\ T \in Pages /\ NewId(T) = NewId(t)
         /\ T[left].max = t[left].max /\ T[left].size = t[left].size + t[right].size
         /\ \A r \in DOMAIN t : r # left /\ r # right /\ r # top => T[r] = t[r]
    BY <1>9 DEF LeavesJoined
  <1>11. /\ T[top].size = t[top].size - 1 /\ T[top].max = t[top].max /\ ~T[top].leaf
         /\ T[top].parent = t[top].parent
    BY <1>4, <1>9 DEF KidDropped, SameHeader
  <1>12. T[top].parent = Invalid
    BY <1>9, WholeIs
  <1>13. Sized(T, h)
    <2> SUFFICES ASSUME NEW r \in DOMAIN h PROVE T[r].size >= 1 /\ T[r].size <= T[r].max
      BY DEF Sized
    <2>1. CASE r = left
      <3>1. t[left].size >= 1 \/ t[right].size >= 1
        BY <1>1, <1>2, <1>5
      <3>2. T[left].size >= 1 /\ T[left].size <= leaf_max_size
        BY <1>6, <1>10, <3>1
      <3> QED  BY <1>6, <1>10, <2>1, <3>2
    <2>2. CASE r = top
      <3>1. t[top].size >= 2 /\ t[top].size <= t[top].max
        BY <1>1, <1>3, <1>4 DEF Forked
      <3>2. t[top].max \in Nat
        BY <1>4 DEF GoodSizes
      <3>3. T[top].size >= 1 /\ T[top].size <= t[top].max
        BY <1>6, <1>11, <3>1, <3>2
      <3> QED  BY <1>11, <2>2, <3>3
    <2>3. CASE r # left /\ r # top
      <3>1. r \in DOMAIN g /\ r # right /\ r # q /\ T[r] = t[r]
        BY <1>2, <1>3, <1>9, <1>10, <2>3
      <3> QED  BY <1>1, <3>1
    <2> QED  BY <2>1, <2>2, <2>3
  <1>14. MergeLeaves(t, top, g, T, Content(t, g))
    BY <1>9, <1>10, <1>11, <1>12, <1>13 DEF MergeLeaves
  <1> QED  BY <1>14 DEF T

\* The root is a leaf, or an internal page that may be down to one child.
LEMMA AdjustRootIs ==
    ASSUME NEW s, NEW g, Whole(s.pg, s.root, g), g[s.root].lev \in {0, 1},
           g[s.root].lev < NewId(s.pg),
           \A r \in DOMAIN g : s.pg[r].size <= s.pg[r].max /\ (s.pg[r].size >= 1 \/ r = s.root),
           s = [pg |-> s.pg, root |-> s.root, q |-> s.q, relock |-> s.relock]
    PROVE  Shrunk(AdjustRoot(s, s.root), Content(s.pg, g))
  <1> DEFINE t == s.pg
             top == s.root
             c == t[top].slot[0].val
             w == AdjustRoot(s, top)
  <1>1. /\ t \in Pages /\ DOMAIN g \subseteq DOMAIN t /\ top \in DOMAIN g /\ top # Invalid
        /\ \A r \in DOMAIN g : t[r] \in Page(Vals) /\ FitsBand(t[r], g[r]) /\ g[r] \in Band
    BY WholeIs
  <1>2. t[top].size \in Nat
    BY <1>1, PageType
  <1>3. CASE t[top].leaf /\ t[top].size = 0
    <2>1. w.root = Invalid /\ w.pg = t
      BY <1>3 DEF AdjustRoot
    <2>2. Content(t, g) = {}
      <3>1. \A r \in DOMAIN g : r = top
        <4> SUFFICES ASSUME NEW r \in DOMAIN g, r # top PROVE FALSE
          OBVIOUS
        <4>1. g[r].lev < g[top].lev
          BY ChildOfParent
        <4>2. g[top].lev = 0 /\ g[r].lev \in Nat
          BY <1>1, <1>3 DEF FitsBand, Band
        <4> QED  BY <4>1, <4>2
      <3>2. Entries(t[top]) = {}
        BY <1>3 DEF Entries, Used
      <3> QED  BY <3>1, <3>2 DEF Content
    <2> QED  BY <1>1, <2>1, <2>2 DEF Shrunk
  <1>4. CASE ~(t[top].leaf /\ t[top].size = 0) /\ (t[top].leaf \/ t[top].size # 1)
    <2>1. w = s
      BY <1>4 DEF AdjustRoot
    <2>2. t[top].size >= 1
      <3>1. CASE t[top].leaf
        BY <1>2, <1>4, <3>1
      <3>2. CASE ~t[top].leaf
        BY <1>1, <3>2 DEF FitsBand
      <3> QED  BY <3>1, <3>2
    <2>3. Sized(t, g)
      BY <2>2 DEF Sized
    <2>4. Forked(t, top)
      BY <1>2, <1>4, <2>2 DEF Forked
    <2>5. Tree(t, top, g)
      BY <2>3, <2>4 DEF Tree
    <2> QED  BY <1>1, <2>1, <2>5 DEF Shrunk
  <1>5. CASE ~t[top].leaf /\ t[top].size = 1
    <2> DEFINE S == [t EXCEPT ![top].size = 0, ![c].parent = Invalid]
               h == ChildBand(g, top)
    <2>1. w.root = c /\ w.pg = S
      BY <1>5 DEF AdjustRoot
    <2>2. IsShrunk(t, top, g, S, c, h)
      <3> HIDE DEF c, S
      <3>1. /\ S = [t EXCEPT ![top].size = 0, ![c].parent = Invalid] /\ c = t[top].slot[0].val
        BY DEF S, c
      <3> QED  BY <1>5, <3>1, RootShrunk
    <2> HIDE DEF w, S, c, h
    <2>3. /\ Whole(S, c, h) /\ DOMAIN h = DOMAIN g \ {top} /\ c \in DOMAIN h
          /\ h[c].lev + 1 = g[top].lev
          /\ NewId(S) = NewId(t) /\ \A r \in DOMAIN h : SameBody(t[r], S[r])
          /\ Content(S, h) = Content(t, g)
      BY <2>2 DEF IsShrunk
    <2>4. S \in Pages /\ c # Invalid /\ h[c] \in Band /\ FitsBand(S[c], h[c])
      BY <2>3, WholeIs
    <2>5. h[c].lev = 0 /\ S[c].leaf
      <3>1. h[c].lev \in Nat
        BY <2>4 DEF Band
      <3>2. h[c].lev = 0
        BY <2>3, <3>1
      <3> QED  BY <2>4, <3>2 DEF FitsBand
    <2>6. Sized(S, h)
      <3> SUFFICES ASSUME NEW r \in DOMAIN h PROVE S[r].size >= 1 /\ S[r].size <= S[r].max
        BY DEF Sized
      <3>1. SameBody(t[r], S[r]) /\ r \in DOMAIN g /\ r # top
        BY <2>3
      <3> QED  BY <3>1 DEF SameBody
    <2>7. Tree(S, c, h)
      <3>1. h[c].lev < NewId(S)
        <4>1. NewId(t) \in Nat /\ g[top].lev \in Nat
          BY <1>1, PagesAre DEF Band
        <4> QED  BY <2>3, <2>5, <4>1
      <3> QED  BY <2>3, <2>5, <2>6, <3>1 DEF Tree, Forked
    <2> QED  BY <2>1, <2>3, <2>4, <2>7 DEF Shrunk, w
  <1> QED  BY <1>3, <1>4, <1>5

LEMMA CoalesceIs ==
    ASSUME NEW s, NEW g, NEW q, Thin(s.pg, s.root, g, q), GoodSizes, g[s.root].lev \in {0, 1},
           s.pg[q].size < MinSize(s.pg[q])
    PROVE  Shrunk(CoalesceOrRedistribute(s, q), Content(s.pg, g))
  <1> DEFINE t == s.pg
             top == s.root
             C == Content(t, g)
             x == [pg |-> t, root |-> top, q |-> q, relock |-> FALSE]
             y == CoalesceCall(x)
             z == CoalesceCall(y)
  <1>1. /\ Whole(t, top, g) /\ g[top].lev < NewId(t) /\ Forked(t, top)
        /\ q \in DOMAIN g /\ t[q].leaf /\ t[q].size <= t[q].max
        /\ \A r \in DOMAIN g : r # q => t[r].size >= 1 /\ t[r].size <= t[r].max
    BY DEF Thin
  <1>2. /\ t \in Pages /\ DOMAIN g \subseteq DOMAIN t /\ top \in DOMAIN g /\ top # Invalid
        /\ t[top].parent = Invalid
        /\ \A r \in DOMAIN g : /\ t[r] \in Page(Vals) /\ FitsBand(t[r], g[r]) /\ g[r] \in Band
                               /\ r # Invalid
    BY <1>1, WholeIs
  <1>3. NewId(t) \in Nat /\ NewId(t) >= 1 /\ (g[top].lev = 1 => NewId(t) # 1)
    <2>1. NewId(t) \in Nat
      BY <1>2, PagesAre
    <2> QED  BY <1>1, <2>1
  <1>4. x.pg = t /\ x.root = top /\ x.q = q /\ x.relock = FALSE
    OBVIOUS
  <1>5. q # top => t[q].parent \in DOMAIN g
    BY <1>1, ChildOfParent
  <1>6. IsRootPage(t[q]) <=> q = top
    BY <1>2, <1>5 DEF IsRootPage
  <1>7. ASSUME y.q = Invalid, Shrunk(y, C)
        PROVE  Shrunk(CoalesceOrRedistribute(s, q), C)
    <2>1. z = y /\ CoalesceCall(z) = z
      <3> HIDE DEF y
      <3> QED  BY <1>7, CoalesceStops
    <2> HIDE DEF C, y, z
    <2>2. CoalesceOrRedistribute(s, q) = z
      <3>1. y = CoalesceCall(x) /\ z = CoalesceCall(y)
        BY DEF y, z
      <3> QED  BY <1>3, <2>1, <3>1, CoalesceEnds
    <2> QED  BY <1>7, <2>1, <2>2
  <1>8. CASE q = top
    <2>1. y = Settled(AdjustRoot(x, top))
      BY <1>2, <1>4, <1>6, <1>8 DEF CoalesceCall
    <2>2. Shrunk(AdjustRoot(x, x.root), Content(x.pg, g))
      <3>1. /\ Whole(x.pg, x.root, g) /\ g[x.root].lev \in {0, 1} /\ g[x.root].lev < NewId(x.pg)
            /\ \A r \in DOMAIN g : x.pg[r].size <= x.pg[r].max /\ (x.pg[r].size >= 1 \/ r = x.root)
            /\ x = [pg |-> x.pg, root |-> x.root, q |-> x.q, relock |-> x.relock]
        BY <1>1, <1>4, <1>8
      <3> HIDE DEF x
      <3> QED  BY <3>1, AdjustRootIs
    <2> HIDE DEF y
    <2>3. y.q = Invalid /\ Shrunk(y, C)
      BY <1>4, <2>1, <2>2, SettledIs DEF Shrunk
    <2> QED  BY <1>7, <2>3
  <1>9. CASE q # top
    <2>1. g[top].lev = 1 /\ t[q].parent = top /\ ~t[top].leaf /\ t[top].max = internal_max_size
      <3>1. /\ g[q].lev + 1 = g[t[q].parent].lev /\ g[q].lev < g[top].lev /\ t[q].parent \in DOMAIN g
        BY <1>1, <1>9, ChildOfParent
      <3>2. g[q].lev \in Nat /\ g[t[q].parent].lev \in Nat
        BY <1>1, <1>2, <3>1 DEF Band
      <3>3. g[top].lev = 1 /\ g[t[q].parent].lev = 1
        BY <3>1, <3>2
      <3>4. t[q].parent # top => g[t[q].parent].lev < g[top].lev
        BY <1>1, <3>1, ChildOfParent
      <3> QED  BY <1>2, <3>3, <3>4 DEF FitsBand
    <2>2. t[top].size >= 2
      BY <1>1, <2>1 DEF Forked
    <2> DEFINE i == ValueIndex(t[top], q)
    <2>3. i \in Nat /\ \E il, left, right : Sibling(t, top, q, il, left, right)
      BY <1>1, <1>9, <2>1, <2>2, SiblingIs
    <2>4. PICK il, left, right : Sibling(t, top, q, il, left, right)
      BY <2>3
    <2> DEFINE sib == IF i > 0 THEN left ELSE right
               T == Coalesce(t, left, right, top, il)
    <2>5. /\ il \in Used(t[top]) /\ il + 1 \in Used(t[top])
          /\ left = t[top].slot[il].val /\ right = t[top].slot[il + 1].val
          /\ i > 0 => il = i - 1 /\ right = q
          /\ ~(i > 0) => il = i /\ left = q
      BY <2>4 DEF Sibling
    <2>6. /\ left \in DOMAIN g /\ right \in DOMAIN g /\ left # right /\ left # top /\ right # top
          /\ g[left].lev + 1 = g[top].lev /\ g[left].lev = g[right].lev
      <3>1. NextTo(t, top, il, left, right)
        BY <1>2, <2>1, <2>5 DEF NextTo
      <3>2. Beside(t, top, g, top, il, left, right)
        BY <1>1, <1>2, <2>1, <3>1, BesideIs
      <3> QED  BY ONLY <3>2 DEF Beside
    <2>7. y = IF t[q].size + t[sib].size > t[q].max THEN Relock(x)
              ELSE IF T[top].size < MinSize(T[top]) THEN [x EXCEPT !.pg = T, !.q = top]
              ELSE Settled([x EXCEPT !.pg = T])
      <3> DEFINE sb == t[top].slot[IF i > 0 THEN i - 1 ELSE i + 1].val
                 TT == IF i > 0 THEN Coalesce(t, sb, q, top, i - 1) ELSE Coalesce(t, q, sb, top, i)
      <3>1. sb = sib /\ TT = T
        <4> HIDE DEF i
        <4> QED  BY <2>5
      <3>2. sib # top /\ sib # q
        BY <2>5, <2>6
      <3>3. ~IsRootPage(t[q]) /\ q # Invalid /\ i # -1
        BY <1>1, <1>2, <1>6, <1>9, <2>3
      <3>4. ~(t[q].size >= MinSize(t[q]))
        <4>1. t[q].size \in Nat /\ t[q].max \in Int
          BY <1>1, <1>2, PageType DEF Page
        <4>2. MinSize(t[q]) \in Int
          BY <1>1, <4>1 DEF MinSize
        <4> QED  BY <4>1, <4>2
      <3>5. y = IF q = Invalid THEN x
                ELSE IF IsRootPage(t[q]) THEN Settled(AdjustRoot(x, q))
                ELSE IF t[q].size >= MinSize(t[q]) \/ i = -1 THEN Settled(x)
                ELSE IF sb \in {top, q} \/ t[q].size + t[sb].size > t[q].max THEN Relock(x)
                ELSE IF TT[top].size < MinSize(TT[top]) THEN [x EXCEPT !.pg = TT, !.q = top]
                ELSE Settled([x EXCEPT !.pg = TT])
        BY <1>4, <2>1 DEF CoalesceCall
      <3> HIDE DEF y, x, i, sib, sb, T, TT
      <3> QED  BY <3>1, <3>2, <3>3, <3>4, <3>5
    <2>8. /\ t[q].max = leaf_max_size /\ t[q].size \in Nat /\ sib \in DOMAIN g /\ sib # q
          /\ t[sib].size \in Nat /\ t[sib].leaf /\ t[sib].max = leaf_max_size
          /\ t[sib].size <= leaf_max_size /\ t[sib].size >= 1
          /\ t[left].size + t[right].size = t[q].size + t[sib].size
      <3>1. sib \in DOMAIN g /\ sib # q
        BY <2>5, <2>6
      <3>2. g[left].lev = 0 /\ g[right].lev = 0
        <4>1. g[left].lev \in Nat
          BY <1>2, <2>6 DEF Band
        <4> QED  BY <2>1, <2>6, <4>1
      <3>3. g[sib].lev = 0
        BY <3>2
      <3>4. t[sib].leaf /\ t[sib].max = leaf_max_size /\ t[q].max = leaf_max_size
        <4> HIDE DEF sib
        <4> QED  BY <1>1, <1>2, <3>1, <3>3 DEF FitsBand
      <3>5. t[q].size \in Nat /\ t[sib].size \in Nat
        <4> HIDE DEF sib
        <4> QED  BY <1>1, <1>2, <3>1, PageType
      <3>6. t[left].size + t[right].size = t[q].size + t[sib].size
        <4>1. (left = q /\ sib = right) \/ (left = sib /\ right = q)
          BY <2>5
        <4> HIDE DEF sib
        <4> QED  BY <3>5, <4>1
      <3> HIDE DEF sib
      <3> QED  BY <1>1, <3>1, <3>4, <3>5, <3>6
    <2> HIDE DEF sib
    <2>9. CASE t[q].size + t[sib].size > t[q].max
      <3>1. y = Relock(x)
        BY <2>7, <2>9
      <3>2. leaf_max_size \in Nat
        BY DEF GoodSizes
      <3>3. t[q].size >= 1
        BY <2>8, <2>9, <3>2
      <3>4. Tree(t, top, g)
        BY <3>3, ThinIsTree
      <3> HIDE DEF y, x
      <3>5. y.q = Invalid /\ Shrunk(y, C)
        BY <1>2, <1>4, <3>1, <3>4, SettledIs DEF Shrunk
      <3> QED  BY <1>7, <3>5
    <2>10. CASE ~(t[q].size + t[sib].size > t[q].max)
      <3>1. t[left].size + t[right].size <= leaf_max_size
        <4>1. leaf_max_size \in Nat
          BY DEF GoodSizes
        <4> QED  BY <2>8, <2>10, <4>1
      <3>2. MergeLeaves(t, top, g, T, C)
        BY <1>9, <2>1, <2>4, <3>1, MergeLeavesIs
      <3> HIDE DEF T, C
      <3>3. /\ T \in Pages /\ NewId(T) = NewId(t) /\ T[top].size = t[top].size - 1
            /\ T[top].max = t[top].max /\ ~T[top].leaf /\ T[top].parent = Invalid
        BY <3>2 DEF MergeLeaves
      <3>4. PICK h : /\ Whole(T, top, h) /\ Sized(T, h) /\ h[top].lev = g[top].lev
                     /\ Content(T, h) = C
        BY <3>2 DEF MergeLeaves
      <3>5. MinSize(T[top]) >= 2 /\ MinSize(T[top]) \in Nat
        <4>1. MinSize(T[top]) = (internal_max_size + 1) \div 2
          BY <2>1, <3>3 DEF MinSize
        <4>2. \E mx \in Nat : mx >= 3 /\ mx = internal_max_size
          BY DEF GoodSizes
        <4>3. \A mx \in Nat : mx >= 3 => (mx + 1) \div 2 >= 2 /\ (mx + 1) \div 2 \in Nat
          OBVIOUS
        <4> QED  BY <4>1, <4>2, <4>3
      <3>6. t[top].size \in Nat /\ T[top].size \in Nat
        <4>1. t[top].size \in Nat
          BY <1>2, PageType
        <4> QED  BY <2>2, <3>3, <4>1
      <3>7. CASE T[top].size < MinSize(T[top])
        <4>1. y = [x EXCEPT !.pg = T, !.q = top]
          BY <2>7, <2>10, <3>7
        <4>2. /\ y.pg = T /\ y.root = top /\ y.q = top
              /\ y = [pg |-> y.pg, root |-> y.root, q |-> y.q, relock |-> y.relock]
          <5> HIDE DEF y
          <5> QED  BY <1>4, <4>1
        <4> HIDE DEF y
        <4>3. z = Settled(AdjustRoot(y, top))
          BY <1>2, <3>3, <4>2 DEF CoalesceCall, IsRootPage
        <4>4. Shrunk(AdjustRoot(y, y.root), Content(y.pg, h))
          <5>1. /\ Whole(y.pg, y.root, h) /\ h[y.root].lev \in {0, 1} /\ h[y.root].lev < NewId(y.pg)
                /\ \A r \in DOMAIN h : y.pg[r].size <= y.pg[r].max /\ (y.pg[r].size >= 1 \/ r = y.root)
            BY <1>1, <3>3, <3>4, <4>2 DEF Sized
          <5> QED  BY <4>2, <5>1, AdjustRootIs
        <4> HIDE DEF z
        <4>5. z.q = Invalid /\ Shrunk(z, C)
          BY <3>4, <4>2, <4>3, <4>4, SettledIs DEF Shrunk
        <4>6. CoalesceOrRedistribute(s, q) = z
          <5>1. y = CoalesceCall(x) /\ z = CoalesceCall(y) /\ CoalesceCall(z) = z
            BY <4>5, CoalesceStops DEF y, z
          <5>2. NewId(t) # 1
            BY <1>3, <2>1
          <5> QED  BY <1>3, <5>1, <5>2, CoalesceEnds
        <4> QED  BY <4>5, <4>6 DEF C
      <3>8. CASE ~(T[top].size < MinSize(T[top]))
        <4>1. y = Settled([x EXCEPT !.pg = T])
          BY <2>7, <2>10, <3>8
        <4> HIDE DEF y
        <4>2. y.q = Invalid /\ y.pg = T /\ y.root = top
          BY <1>4, <4>1, SettledIs
        <4>3. Tree(T, top, h)
          <5>1. T[top].size >= 2
            BY <3>5, <3>6, <3>8
          <5>2. h[top].lev < NewId(T)
            BY <1>1, <3>3, <3>4
          <5> QED  BY <3>4, <5>1, <5>2 DEF Tree, Forked
        <4>4. Shrunk(y, C)
          BY <1>2, <3>3, <3>4, <4>2, <4>3 DEF Shrunk
        <4> QED  BY <1>7, <4>2, <4>4 DEF C
      <3> QED  BY <3>7, <3>8
    <2> QED  BY <2>9, <2>10
  <1> QED  BY <1>8, <1>9

(***************************************************************************)
(* Remove, in a tree whose leaves are at most one level below the root:    *)
(* whether the leaf stays underfull, is merged with a neighbour or the     *)
(* root is dropped, what is left is a tree without the key, or no tree     *)
(* when that was the last one.                                             *)
(***************************************************************************)
THEOREM RemoveCorrect ==
    ASSUME NEW t, NEW top, NEW g, Tree(t, top, g), GoodSizes, g[top].lev \in {0, 1},
           NEW k \in Keys
    PROVE  Shrunk(RemoveFrom([pg |-> t, root |-> top], k), WithoutKey(Content(t, g), k))
  <1> DEFINE s == [pg |-> t, root |-> top]
             q == FindLeaf(t, top, k)
             leaf == RemoveAndDeleteRecord(t[q], k)
             t1 == [t EXCEPT ![q] = leaf]
             s1 == [s EXCEPT !.pg[q] = leaf]
             C == WithoutKey(Content(t, g), k)
             w == RemoveFrom(s, k)
  <1>1. w = IF leaf.size < t[q].size /\ leaf.size < MinSize(leaf)
            THEN CoalesceOrRedistribute(s1, q) ELSE Settled(s1)
    BY DEF RemoveFrom
  <1>2. EntryDropped(t, top, g, k, q, leaf)
    BY EntryDroppedIs
  <1>3. Whole(t, top, g) /\ Sized(t, g) /\ Forked(t, top) /\ g[top].lev < NewId(t)
    BY DEF Tree
  <1> HIDE DEF w, q, leaf
  <1>4. /\ q \in DOMAIN g /\ t[q].leaf
        /\ leaf \in Page(Vals) /\ SameHeader(t[q], leaf) /\ FitsBand(leaf, g[q])
        /\ leaf.size <= t[q].size /\ leaf.size + 1 >= t[q].size
        /\ Whole(t1, top, g) /\ Content(t1, g) = C
    BY <1>2 DEF EntryDropped
  <1> HIDE DEF C
  <1>5. /\ t \in Pages /\ DOMAIN g \subseteq DOMAIN t /\ top \in DOMAIN g /\ top # Invalid
        /\ \A r \in DOMAIN g : t[r] \in Page(Vals)
    BY <1>3, WholeIs
  <1>6. /\ t1 \in Pages /\ NewId(t1) = NewId(t)
        /\ t1[q] = leaf /\ \A r \in DOMAIN g : r # q => t1[r] = t[r]
    BY <1>4, <1>5, PagesPut
  <1>7. s1.pg = t1 /\ s1.root = top
    OBVIOUS
  <1> HIDE DEF s1
  <1>8. /\ leaf.leaf /\ leaf.max = t[q].max /\ leaf.size \in Nat /\ t[q].size \in Nat
        /\ leaf.max = leaf_max_size
    <2>1. leaf.size \in Nat /\ t[q].size \in Nat
      BY <1>4, <1>5, PageType
    <2> QED  BY <1>4, <2>1 DEF SameHeader, FitsBand
  <1> HIDE DEF t1
  <1>9. Forked(t1, top)
    BY <1>3, <1>4, <1>5, <1>6, <1>8 DEF Forked
  <1>10. Thin(t1, top, g, q)
    <2>1. \A r \in DOMAIN g : r # q => t1[r].size >= 1 /\ t1[r].size <= t1[r].max
      BY <1>3, <1>6 DEF Sized
    <2>2. t1[q].size <= t1[q].max
      <3>1. t[q].size <= leaf_max_size /\ leaf_max_size \in Nat
        BY <1>3, <1>4, <1>8 DEF Sized, GoodSizes
      <3> QED  BY <1>4, <1>6, <1>8, <3>1
    <2> QED  BY <1>3, <1>4, <1>6, <1>8, <1>9, <2>1, <2>2 DEF Thin
  <1>11. CASE leaf.size < t[q].size /\ leaf.size < MinSize(leaf)
    BY <1>1, <1>4, <1>6, <1>7, <1>10, <1>11, CoalesceIs DEF w, C
  <1>12. CASE ~(leaf.size < t[q].size /\ leaf.size < MinSize(leaf))
    <2>1. leaf.size >= 1
      <3>1. CASE ~(leaf.size < t[q].size)
        <4>1. t[q].size >= 1
          BY <1>3, <1>4 DEF Sized
        <4> QED  BY <1>8, <3>1, <4>1
      <3>2. CASE ~(leaf.size < MinSize(leaf))
        <4>1. MinSize(leaf) = leaf_max_size \div 2
          BY <1>8 DEF MinSize
        <4>2. \E mx \in Nat : mx >= 2 /\ mx = leaf_max_size
          BY DEF GoodSizes
        <4>3. \A mx \in Nat : mx >= 2 => mx \div 2 >= 1 /\ mx \div 2 \in Nat
          OBVIOUS
        <4>4. leaf_max_size \div 2 >= 1 /\ leaf_max_size \div 2 \in Nat
          BY <4>2, <4>3
        <4> QED  BY <1>8, <3>2, <4>1, <4>4
      <3> QED  BY <1>12, <3>1, <3>2
    <2>2. Tree(t1, top, g)
      BY <1>6, <1>10, <2>1, ThinIsTree
    <2>3. w.pg = t1 /\ w.root = top
      BY <1>1, <1>7, <1>12, SettledIs
    <2> QED  BY <1>4, <1>5, <1>6, <2>2, <2>3 DEF Shrunk, w, C
  <1> QED  BY <1>11, <1>12

-----------------------------------------------------------------------------
(* The invariant. *)

\* The pages t with root `top` store the entries C.
Holding(t, top, C) ==
    /\ t \in Pages
    /\ IF top = Invalid THEN C = {}
       ELSE \E g : Tree(t, top, g) /\ Content(t, g) = C

Stored == [key : Keys, val : RIDs]

(***************************************************************************)
(* The parameters the proofs are for. A leaf holds at least two entries:   *)
(* with one, the minimum is zero, and a removal leaves an empty leaf in    *)
(* the chain. An internal page holds at least three children: with two,    *)
(* the minimum is one, and a removal leaves a root with a single child.    *)
(* One slot is free for the entry that makes a page split. And no two      *)
(* internal pages merge, which loses children.                             *)
(***************************************************************************)
Usable ==
    \A args \in CtorArgs :
        /\ MaxSizes(args)[1] \in 2 .. MaxSlot /\ MaxSizes(args)[2] \in 3 .. MaxSlot
        /\ RemoveDepth[MaxSizes(args)] \in {0, 1}

TreeInv ==
    /\ GoodSizes /\ RemoveDepth[sizes] \in {0, 1}
    /\ \E C \in SUBSET Stored : Holding(pg, root, C)

LEMMA InitTree ==
    ASSUME Usable, Init
    PROVE  TreeInv
  <1>1. PICK args \in CtorArgs : Construct(args)
    BY DEF Init
  <1>2. /\ leaf_max_size = MaxSizes(args)[1] /\ internal_max_size = MaxSizes(args)[2]
        /\ MaxSizes(args) = <<leaf_max_size, internal_max_size>>
    BY <1>1 DEF Construct, MaxSizes
  <1>3. GoodSizes /\ RemoveDepth[sizes] \in {0, 1}
    <2>1. leaf_max_size \in 2 .. MaxSlot /\ internal_max_size \in 3 .. MaxSlot
      BY <1>2 DEF Usable
    <2>2. RemoveDepth[sizes] \in {0, 1}
      BY <1>2 DEF Usable, sizes
    <2> QED  BY <2>1, <2>2, MaxSlotAssumption DEF GoodSizes
  <1>4. pg \in Pages
    <2>1. pg \in [0 .. 0 - 1 -> Page(Vals)]
      BY DEF Init
    <2> QED  BY <2>1 DEF Pages
  <1>5. Holding(pg, root, {})
    BY <1>4 DEF Holding, Init
  <1> QED  BY <1>3, <1>5 DEF TreeInv

\* The tree after the first insertion.
LEMMA FirstInsert ==
    ASSUME NEW t \in Pages, GoodSizes, NEW k \in Keys, NEW v \in RIDs
    PROVE  Holding(AddPage(t, LeafInsert(InitPage(TRUE, leaf_max_size), k, v)), NewId(t),
                   {Slot(k, v)})
  <1> DEFINE init == InitPage(TRUE, leaf_max_size)
             leaf == LeafInsert(init, k, v)
             n == NewId(t)
             s == AddPage(t, leaf)
             b == [lev |-> 0, lo |-> 0, hi |-> Supremum]
             g == [q \in {n} |-> b]
             e0 == Slot(k, v)
  <1>1. /\ init \in Page(Vals) /\ init.leaf = TRUE /\ init.size = 0 /\ init.max = leaf_max_size
        /\ init.parent = Invalid /\ init.next = Invalid /\ Ordered(init) /\ Entries(init) = {}
    <2>1. leaf_max_size \in Int
      BY DEF GoodSizes
    <2> QED  BY <2>1, InitPageIs
  <1>2. k \in Nat /\ k \in Int /\ k < Supremum /\ Supremum \in Nat /\ v \in Vals
    BY SupremumIs DEF Vals
  <1> HIDE DEF init
  <1>3. /\ leaf \in Page(Vals) /\ SameHeader(init, leaf) /\ Ordered(leaf)
        /\ Entries(leaf) = {e0} /\ leaf.size = 1
    <2>1. init.size <= MaxSlot
      BY <1>1, MaxSlotAssumption
    <2>2. /\ leaf \in Page(Vals) /\ SameHeader(init, leaf) /\ Ordered(leaf)
          /\ IF \E e \in Entries(init) : e.key = k
             THEN leaf = init
             ELSE Entries(leaf) = Entries(init) \cup {e0} /\ leaf.size = init.size + 1
      BY <1>1, <1>2, <2>1, LeafInsertCorrect
    <2> HIDE DEF leaf, e0
    <2> QED  BY <1>1, <2>2
  <1>4. e0.key = k
    BY DEF Slot
  <1>5. b \in Band /\ b.lev = 0 /\ b.lo = 0 /\ b.hi = Supremum
    BY <1>2 DEF Band
  <1> HIDE DEF leaf, e0, b
  <1>6. leaf.leaf /\ leaf.max = leaf_max_size /\ leaf.parent = Invalid /\ leaf.next = Invalid
    BY <1>1, <1>3 DEF SameHeader
  <1>7. FitsBand(leaf, b)
    <2>1. b.lo < b.hi /\ b.hi <= Supremum
      BY <1>2, <1>5
    <2>2. \A e \in Entries(leaf) : b.lo <= e.key /\ e.key < b.hi
      BY <1>2, <1>3, <1>4, <1>5
    <2> QED  BY <1>3, <1>5, <1>6, <2>1, <2>2 DEF FitsBand
  <1>8. /\ s \in Pages /\ NewId(s) = n + 1 /\ DOMAIN s = DOMAIN t \cup {n} /\ s[n] = leaf
    BY <1>3, PagesAdd
  <1>9. n \in Nat /\ n # Invalid
    BY PagesAre DEF Invalid
  <1> HIDE DEF s, n
  <1>10. DOMAIN g = {n} /\ g[n] = b
    OBVIOUS
  <1> HIDE DEF g
  <1>11. Placed(s, n, g, Invalid, Invalid, n)
    BY <1>5, <1>6, <1>7, <1>8, <1>10 DEF Placed, PointsRight
  <1>12. Whole(s, n, g)
    <2>1. Seen(g, Invalid, Invalid, n) = Supremum
      BY <1>5, <1>9, <1>10 DEF Seen
    <2>2. /\ DOMAIN g \subseteq DOMAIN s /\ n \in DOMAIN g /\ s[n].parent = Invalid /\ g[n].lo = 0
          /\ Divided(s, n, g, Invalid, Invalid) /\ \A q \in DOMAIN g : Placed(s, n, g, Invalid, Invalid, q)
      BY <1>5, <1>6, <1>8, <1>10, <1>11 DEF Divided
    <2> QED  BY <1>8, <2>1, <2>2, ShapeFrom DEF Whole
  <1>13. Sized(s, g) /\ Forked(s, n)
    BY <1>3, <1>6, <1>8, <1>10 DEF Sized, Forked, GoodSizes
  <1>14. Tree(s, n, g)
    <2>1. g[n].lev < NewId(s)
      BY <1>5, <1>8, <1>9, <1>10
    <2> QED  BY <1>12, <1>13, <2>1 DEF Tree
  <1>15. Content(s, g) = {e0}
    BY <1>3, <1>6, <1>8, <1>10 DEF Content
  <1> QED  BY <1>8, <1>9, <1>14, <1>15 DEF Holding, s, leaf, init, n, e0

\* What a step does to the entries that are stored.
Stores(C, D) ==
    \E k \in Keys : \/ D = WithoutKey(C, k)
                    \/ \E v \in RIDs : D = WithEntry(C, k, v)

LEMMA StepTree ==
    ASSUME TreeInv, Next
    PROVE  /\ UNCHANGED sizes
           /\ \E C, D \in SUBSET Stored :
                 Holding(pg, root, C) /\ Holding(pg', root', D) /\ Stores(C, D)
  <1>1. PICK C \in SUBSET Stored : Holding(pg, root, C)
    BY DEF TreeInv
  <1>2. GoodSizes /\ RemoveDepth[sizes] \in {0, 1} /\ pg \in Pages
    BY <1>1 DEF TreeInv, Holding
  <1>3. ASSUME NEW k \in Keys, NEW v \in RIDs, Insert(k, v)
        PROVE  /\ UNCHANGED sizes /\ WithEntry(C, k, v) \in SUBSET Stored
               /\ Holding(pg', root', WithEntry(C, k, v))
    <2>1. WithEntry(C, k, v) \in SUBSET Stored
      <3>1. Slot(k, v) \in Stored
        BY DEF Slot, Stored
      <3> QED  BY <3>1 DEF WithEntry
    <2>2. CASE root = Invalid
      <3>1. /\ pg' = AddPage(pg, LeafInsert(InitPage(TRUE, leaf_max_size), k, v))
            /\ root' = NewId(pg) /\ UNCHANGED sizes
        BY <1>3, <2>2 DEF Insert, IsEmpty
      <3>2. WithEntry(C, k, v) = {Slot(k, v)}
        BY <1>1, <2>2 DEF Holding, WithEntry
      <3> QED  BY <1>2, <2>1, <3>1, <3>2, FirstInsert
    <2>3. CASE root # Invalid
      <3> DEFINE w == InsertInto([pg |-> pg, root |-> root], k, v)
      <3>1. pg' = w.pg /\ root' = w.root /\ UNCHANGED sizes
        BY <1>3, <2>3 DEF Insert, IsEmpty
      <3>2. PICK g : Tree(pg, root, g) /\ Content(pg, g) = C
        BY <1>1, <2>3 DEF Holding
      <3>3. Grown(w, WithEntry(C, k, v))
        BY <1>2, <3>2, InsertCorrect
      <3> HIDE DEF w
      <3>4. PICK h : Tree(w.pg, w.root, h) /\ Content(w.pg, h) = WithEntry(C, k, v)
        BY <3>3 DEF Grown
      <3>5. w.pg \in Pages /\ w.root # Invalid
        BY <3>4, WholeIs DEF Tree
      <3> QED  BY <2>1, <3>1, <3>4, <3>5 DEF Holding
    <2> QED  BY <2>2, <2>3
  <1>4. ASSUME NEW k \in Keys, Remove(k)
        PROVE  /\ UNCHANGED sizes /\ WithoutKey(C, k) \in SUBSET Stored
               /\ Holding(pg', root', WithoutKey(C, k))
    <2>1. WithoutKey(C, k) \in SUBSET Stored
      BY DEF WithoutKey
    <2>2. CASE root = Invalid
      <3>1. pg' = pg /\ root' = root /\ UNCHANGED sizes
        BY <1>4, <2>2 DEF Remove, IsEmpty, Settled
      <3> QED  BY <1>1, <2>1, <2>2, <3>1 DEF Holding, WithoutKey
    <2>3. CASE root # Invalid
      <3> DEFINE w == RemoveFrom([pg |-> pg, root |-> root], k)
      <3>1. pg' = w.pg /\ root' = w.root /\ UNCHANGED sizes
        BY <1>4, <2>3 DEF Remove, IsEmpty
      <3>2. PICK g : Tree(pg, root, g) /\ Content(pg, g) = C
        BY <1>1, <2>3 DEF Holding
      <3>3. g[root].lev \in {0, 1}
        <4>1. pg[Leftmost(pg, root, RemoveDepth[sizes])].leaf
          BY <1>4, <2>3 DEF Remove, IsEmpty
        <4> QED  BY <1>2, <3>2, <4>1, ShallowIs DEF Tree
      <3>4. Shrunk(w, WithoutKey(C, k))
        BY <1>2, <3>2, <3>3, RemoveCorrect
      <3> HIDE DEF w
      <3> QED  BY <2>1, <3>1, <3>4 DEF Holding, Shrunk
    <2> QED  BY <2>2, <2>3
  <1> QED  BY <1>1, <1>3, <1>4 DEF Next, Stores

\* The sizes stay, so that a tree by the old sizes is one by the new sizes.
LEMMA NextTree ==
    ASSUME TreeInv, [Next]_vars
    PROVE  TreeInv'
  <1>1. UNCHANGED sizes /\ \E D \in SUBSET Stored : Holding(pg', root', D)
    <2>1. CASE UNCHANGED vars
      <3>1. UNCHANGED sizes /\ pg' = pg /\ root' = root
        BY <2>1 DEF vars, sizes
      <3> QED  BY <3>1 DEF TreeInv
    <2>2. CASE Next
      BY <2>2, StepTree
    <2> QED  BY <2>1, <2>2
  <1>2. PICK D \in SUBSET Stored : Holding(pg', root', D)
    BY <1>1
  <1>3. leaf_max_size' = leaf_max_size /\ internal_max_size' = internal_max_size
    BY <1>1 DEF sizes
  <1>4. Holding(pg, root, D)'
    BY <1>2, <1>3 DEF Holding, Tree, Whole, Shape, InPlace, FitsBand
  <1>5. GoodSizes' /\ (RemoveDepth[sizes] \in {0, 1})'
    BY <1>3 DEF TreeInv, GoodSizes, sizes
  <1> QED  BY <1>4, <1>5 DEF TreeInv

(***************************************************************************)
(* Whatever is inserted and removed, the pages form a B+ tree: the         *)
(* invariant the other theorems rest on.                                   *)
(***************************************************************************)
THEOREM TreeInvariance ==
    ASSUME Usable
    PROVE  Spec => []TreeInv
  <1>1. Init => TreeInv
    BY InitTree
  <1>2. TreeInv /\ [Next]_vars => TreeInv'
    BY NextTree
  <1> QED  BY <1>1, <1>2, PTL DEF Spec
-----------------------------------------------------------------------------
(* The index. *)

Pairs(C) == {<<e.key, e.val>> : e \in C}

\* What GetValue(k) answers when the pages are t and the root is `top`.
Answer(t, top, k) ==
    IF top = Invalid THEN {} ELSE UNION {LeafLookup(t[q], k) : q \in {FindLeaf(t, top, k)}}

LEMMA AnswerIs ==
    ASSUME NEW t, NEW top, NEW C \in SUBSET Stored, Holding(t, top, C)
    PROVE  \A k \in Keys : Answer(t, top, k) = ValuesOf(C, k)
  <1> SUFFICES ASSUME NEW k \in Keys PROVE Answer(t, top, k) = ValuesOf(C, k)
    OBVIOUS
  <1>1. CASE top = Invalid
    BY <1>1 DEF Answer, Holding, ValuesOf
  <1>2. CASE top # Invalid
    <2>1. PICK g : Tree(t, top, g) /\ Content(t, g) = C
      BY <1>2 DEF Holding
    <2>2. LeafLookup(t[FindLeaf(t, top, k)], k) = ValuesOf(C, k)
      BY <2>1, LookupIs DEF Tree
    <2> QED  BY <1>2, <2>2 DEF Answer
  <1> QED  BY <1>1, <1>2

LEMMA PairsAre ==
    ASSUME NEW C \in SUBSET Stored
    PROVE  UNION {{<<k, v>> : v \in ValuesOf(C, k)} : k \in Keys} = Pairs(C)
  <1>1. \A e \in C : e.key \in Keys
    BY DEF Stored
  <1> QED  BY <1>1 DEF Pairs, ValuesOf

LEMMA EntriesAre ==
    ASSUME NEW t, NEW top, NEW C \in SUBSET Stored, Holding(t, top, C)
    PROVE  UNION {{<<k, v>> : v \in Answer(t, top, k)} : k \in Keys} = Pairs(C)
  <1>1. \A k \in Keys : Answer(t, top, k) = ValuesOf(C, k)
    BY AnswerIs
  <1>2. UNION {{<<k, v>> : v \in Answer(t, top, k)} : k \in Keys} =
           UNION {{<<k, v>> : v \in ValuesOf(C, k)} : k \in Keys}
    BY <1>1
  <1> QED  BY <1>2, PairsAre

LEMMA StoresIs ==
    ASSUME NEW C \in SUBSET Stored, NEW D \in SUBSET Stored, Stores(C, D)
    PROVE  \/ Pairs(D) = Pairs(C)
           \/ \E k \in Keys : \/ Pairs(D) = {e \in Pairs(C) : e[1] # k}
                              \/ \E v \in RIDs : /\ \A e \in Pairs(C) : e[1] # k
                                                 /\ Pairs(D) = Pairs(C) \cup {<<k, v>>}
  <1>1. PICK k \in Keys : D = WithoutKey(C, k) \/ \E v \in RIDs : D = WithEntry(C, k, v)
    BY DEF Stores
  <1>2. CASE D = WithoutKey(C, k)
    <2>1. Pairs(D) = {e \in Pairs(C) : e[1] # k}
      BY <1>2 DEF WithoutKey, Pairs
    <2> QED  BY <2>1
  <1>3. CASE \E v \in RIDs : D = WithEntry(C, k, v)
    <2>1. PICK v \in RIDs : D = WithEntry(C, k, v)
      BY <1>3
    <2>2. CASE \E e \in C : e.key = k
      BY <2>1, <2>2 DEF WithEntry
    <2>3. CASE ~\E e \in C : e.key = k
      <3>1. D = C \cup {Slot(k, v)}
        BY <2>1, <2>3 DEF WithEntry
      <3>2. Pairs(D) = Pairs(C) \cup {<<k, v>>}
        <4> DEFINE e0 == Slot(k, v)
        <4>1. e0.key = k /\ e0.val = v
          BY DEF Slot
        <4> HIDE DEF e0
        <4>2. D = C \cup {e0}
          BY <3>1 DEF e0
        <4> QED  BY <4>1, <4>2 DEF Pairs
      <3>3. \A e \in Pairs(C) : e[1] # k
        BY <2>3 DEF Pairs
      <3> QED  BY <3>2, <3>3
    <2> QED  BY <2>2, <2>3
  <1> QED  BY <1>1, <1>2, <1>3

LEMMA IndexInit ==
    ASSUME Init
    PROVE  Index!Init
  BY DEF Init, Index!Init, GetValue, GetValueIn, IsEmpty

LEMMA IndexStep ==
    ASSUME TreeInv, [Next]_vars
    PROVE  [Index!Next]_(UNION {{<<k, v>> : v \in GetValue(k)} : k \in Keys})
  <1> DEFINE E == UNION {{<<k, v>> : v \in GetValue(k)} : k \in Keys}
  <1>1. E = UNION {{<<k, v>> : v \in Answer(pg, root, k)} : k \in Keys}
    BY DEF GetValue, GetValueIn, IsEmpty, Answer
  <1>2. E' = UNION {{<<k, v>> : v \in Answer(pg', root', k)} : k \in Keys}
    BY DEF GetValue, GetValueIn, IsEmpty, Answer
  <1>3. CASE UNCHANGED vars
    BY <1>3 DEF vars, GetValue, GetValueIn, IsEmpty
  <1>4. CASE Next
    <2>1. PICK C \in SUBSET Stored, D \in SUBSET Stored :
              Holding(pg, root, C) /\ Holding(pg', root', D) /\ Stores(C, D)
      BY <1>4, StepTree
    <2>2. E = Pairs(C) /\ E' = Pairs(D)
      BY <1>1, <1>2, <2>1, EntriesAre
    <2>3. \/ E' = E
          \/ \E k \in Keys : \/ E' = {e \in E : e[1] # k}
                             \/ \E v \in RIDs : /\ \A e \in E : e[1] # k
                                                /\ E' = E \cup {<<k, v>>}
      BY <2>1, <2>2, StoresIs
    <2>4. Index!Next \/ E' = E
      <3>1. ASSUME NEW k \in Keys, E' = {e \in E : e[1] # k} PROVE Index!Remove(k)
        BY <3>1 DEF Index!Remove
      <3>2. ASSUME NEW k \in Keys, NEW v \in RIDs, \A e \in E : e[1] # k, E' = E \cup {<<k, v>>}
            PROVE  Index!Insert(k, v)
        BY <3>2 DEF Index!Insert
      <3> QED  BY <2>3, <3>1, <3>2 DEF Index!Next
    <2> QED  BY <2>4
  <1> QED  BY <1>3, <1>4

(***************************************************************************)
(* To point lookups the tree is an ordered index: each Insert and Remove,  *)
(* with all its splits, merges and root changes, changes the answer for    *)
(* its own key only, and a key that is present keeps its record id.        *)
(***************************************************************************)
THEOREM IndexRefinement ==
    ASSUME Usable
    PROVE  Spec => RefinesIndex
  <1>1. Init => Index!Init
    BY IndexInit
  <1>2. TreeInv /\ [Next]_vars
           => [Index!Next]_(UNION {{<<k, v>> : v \in GetValue(k)} : k \in Keys})
    BY IndexStep
  <1> QED  BY <1>1, <1>2, TreeInvariance, PTL DEF Spec, RefinesIndex, Index!Spec

-----------------------------------------------------------------------------
(* The pages below a page. *)

SubtreeLoop(t, q, c) ==
    c = [n \in Nat |-> IF n = 0 THEN {q}
                       ELSE UNION {{r} \cup Children(t[r]) : r \in c[n - 1]}]

\* The pages whose range is part of page q's.
Nested(g, q) == {r \in DOMAIN g : g[q].lo <= g[r].lo /\ g[r].hi <= g[q].hi}

LEMMA ChildrenAre ==
    ASSUME NEW t, NEW top, NEW g, Whole(t, top, g), NEW r \in DOMAIN g, NEW c \in Children(t[r])
    PROVE  /\ c \in DOMAIN g /\ t[c].parent = r
           /\ g[r].lo <= g[c].lo /\ g[c].hi <= g[r].hi
  <1>1. PICK i \in 0 .. t[r].size - 1 : ~t[r].leaf /\ c = t[r].slot[i].val
    BY DEF Children
  <1>2. i \in Used(t[r])
    BY DEF Used
  <1>3. /\ t[r] \in Page(Vals) /\ g[r] \in Band /\ FitsBand(t[r], g[r])
        /\ IsChild(t, top, g, Invalid, Invalid, r, i, c)
    BY <1>1, <1>2, WholeIs DEF PointsDown
  <1>4. c \in DOMAIN g /\ t[c].parent = r /\ g[c].lo = From(t[r], g[r], i)
    BY <1>3 DEF IsChild
  <1>5. g[c].hi = UpTo(t[r], g[r], i)
    <2>1. c # Invalid
      BY <1>4, WholeIs
    <2> QED  BY <1>3, <2>1 DEF IsChild, Seen
  <1>6. g[r].lo <= From(t[r], g[r], i) /\ UpTo(t[r], g[r], i) <= g[r].hi
    BY <1>1, <1>2, <1>3, KidRanges
  <1> QED  BY <1>4, <1>5, <1>6

LEMMA SubtreeIs ==
    ASSUME NEW g, Whole(pg, root, g), NEW q \in DOMAIN g
    PROVE  Subtree(q) \subseteq Nested(g, q)
  <1> DEFINE c == CHOOSE c : SubtreeLoop(pg, q, c)
             S == SUBSET DOMAIN g
             f == [X \in S |-> UNION {{r} \cup Children(pg[r]) : r \in X}]
  <1>1. Subtree(q) = c[NewId(pg)]
    BY DEF Subtree, SubtreeLoop
  <1>2. ASSUME NEW X \in S PROVE UNION {{r} \cup Children(pg[r]) : r \in X} \in S
    BY ChildrenAre
  <1>3. f \in [S -> S]
    <2> HIDE DEF S
    <2> QED  BY <1>2
  <1>4. SubtreeLoop(pg, q, c)
    <2>1. {q} \in S
      OBVIOUS
    <2>2. \A X \in S : f[X] = UNION {{r} \cup Children(pg[r]) : r \in X}
      OBVIOUS
    <2> HIDE DEF S, f
    <2>3. PICK d : RunsOn(S, f, {q}, d)
      BY <1>3, <2>1, Iterates
    <2>4. ASSUME NEW m \in Nat
          PROVE  d[m] = IF m = 0 THEN {q} ELSE UNION {{r} \cup Children(pg[r]) : r \in d[m - 1]}
      <3>1. CASE m = 0
        BY <2>3, <3>1 DEF RunsOn
      <3>2. CASE m # 0
        <4>1. m - 1 \in Nat /\ (m - 1) + 1 = m
          BY <3>2
        <4>2. d[m] = f[d[m - 1]] /\ d[m - 1] \in S
          BY <2>3, <4>1 DEF RunsOn
        <4> QED  BY <2>2, <3>2, <4>2
      <3> QED  BY <3>1, <3>2
    <2>5. SubtreeLoop(pg, q, d)
      BY <2>3, <2>4 DEF RunsOn, SubtreeLoop
    <2> QED  BY <2>5
  <1> HIDE DEF c
  <1> DEFINE P == {m \in Nat : c[m] \subseteq Nested(g, q)}
  <1>5. \A r \in DOMAIN g : g[r].lo \in Nat /\ g[r].hi \in Nat
    BY WholeIs DEF Band
  <1>6. 0 \in P
    BY <1>4, <1>5 DEF SubtreeLoop, Nested
  <1>7. ASSUME NEW m \in P PROVE m + 1 \in P
    <2>1. m \in Nat /\ m + 1 \in Nat /\ m + 1 # 0 /\ (m + 1) - 1 = m /\ c[m] \subseteq Nested(g, q)
      OBVIOUS
    <2>2. c[m + 1] = UNION {{r} \cup Children(pg[r]) : r \in c[(m + 1) - 1]}
      BY <1>4, <2>1 DEF SubtreeLoop
    <2>3. c[m + 1] = UNION {{r} \cup Children(pg[r]) : r \in c[m]}
      BY <2>1, <2>2
    <2>4. ASSUME NEW r \in Nested(g, q), NEW x \in Children(pg[r]) PROVE x \in Nested(g, q)
      <3>1. r \in DOMAIN g /\ g[q].lo <= g[r].lo /\ g[r].hi <= g[q].hi
        BY DEF Nested
      <3>2. x \in DOMAIN g /\ g[r].lo <= g[x].lo /\ g[x].hi <= g[r].hi
        BY <2>4, <3>1, ChildrenAre
      <3>3. g[q].lo <= g[x].lo /\ g[x].hi <= g[q].hi
        BY <1>5, <3>1, <3>2
      <3> QED  BY <3>2, <3>3 DEF Nested
    <2>5. c[m + 1] \subseteq Nested(g, q)
      BY <2>1, <2>3, <2>4
    <2> QED  BY <2>1, <2>5
  <1>8. P = Nat
    <2> HIDE DEF P
    <2>1. P \in SUBSET Nat
      BY DEF P
    <2> QED  BY <1>6, <1>7, <2>1, Inductive
  <1>9. NewId(pg) \in Nat
    BY WholeIs, PagesAre
  <1> QED  BY <1>1, <1>8, <1>9

LEMMA ReachableIs ==
    ASSUME NEW g, Whole(pg, root, g), root # Invalid
    PROVE  Reachable \subseteq DOMAIN g
  <1>1. Subtree(root) \subseteq Nested(g, root)
    BY WholeIs, SubtreeIs
  <1> QED  BY <1>1 DEF Reachable, IsEmpty, Nested

LEMMA TreeOf ==
    ASSUME TreeInv, root # Invalid
    PROVE  \E g : /\ Tree(pg, root, g) /\ Whole(pg, root, g)
                  /\ Content(pg, g) \in SUBSET Stored
  BY DEF TreeInv, Holding, Tree

LEMMA ParentsAre ==
    ASSUME TreeInv
    PROVE  ParentsRight
  <1>1. CASE root = Invalid
    BY <1>1 DEF ParentsRight, Reachable, IsEmpty
  <1>2. CASE root # Invalid
    <2>1. PICK g : Whole(pg, root, g)
      BY <1>2, TreeOf
    <2>2. IsRootPage(pg[root])
      BY <2>1, WholeIs DEF IsRootPage
    <2>3. Reachable \subseteq DOMAIN g
      BY <1>2, <2>1, ReachableIs
    <2>4. \A q \in Reachable : \A c \in Children(pg[q]) : pg[c].parent = q
      BY <2>1, <2>3, ChildrenAre
    <2> QED  BY <2>2, <2>4 DEF ParentsRight
  <1> QED  BY <1>1, <1>2

(***************************************************************************)
(* Every page that can be reached from the root names as its parent the    *)
(* page that points at it: the splits and merges, which find their way up  *)
(* by these ids, never go astray.                                          *)
(***************************************************************************)
THEOREM ParentsCorrect ==
    ASSUME Usable
    PROVE  Spec => []ParentsRight
  <1>1. TreeInv => ParentsRight
    BY ParentsAre
  <1> QED  BY <1>1, TreeInvariance, PTL

\* The keys of a page are in its range.
LEMMA KeyedInRange ==
    ASSUME NEW g, Whole(pg, root, g), NEW r \in DOMAIN g, NEW j \in Keyed(pg[r])
    PROVE  /\ pg[r].slot[j].key \in Int /\ g[r].lo <= pg[r].slot[j].key
           /\ pg[r].slot[j].key < g[r].hi
  <1>1. pg[r] \in Page(Vals) /\ FitsBand(pg[r], g[r]) /\ g[r] \in Band
    BY WholeIs
  <1>2. pg[r].size \in Nat
    BY <1>1, PageType
  <1>3. j \in Used(pg[r])
    BY <1>2 DEF Keyed, Used
  <1>4. pg[r].slot[j].key \in Int /\ pg[r].slot[j] \in Entries(pg[r])
    BY <1>1, <1>3, PageType DEF Entries
  <1>5. CASE pg[r].leaf
    BY <1>1, <1>4, <1>5 DEF FitsBand
  <1>6. CASE ~pg[r].leaf
    <2>1. g[r].lo < pg[r].slot[j].key /\ pg[r].slot[j].key < g[r].hi /\ g[r].lo \in Nat
      BY <1>1, <1>6 DEF FitsBand, Keyed, Band
    <2> QED  BY <1>4, <2>1
  <1> QED  BY <1>5, <1>6

LEMMA KeysAre ==
    ASSUME TreeInv
    PROVE  KeysInOrder
  <1>1. CASE root = Invalid
    BY <1>1 DEF KeysInOrder, Reachable, IsEmpty
  <1>2. CASE root # Invalid
    <2>1. PICK g : Whole(pg, root, g)
      BY <1>2, TreeOf
    <2>2. Reachable \subseteq DOMAIN g
      BY <1>2, <2>1, ReachableIs
    <2> SUFFICES ASSUME NEW q \in Reachable
                 PROVE  /\ \A i, j \in Keyed(pg[q]) :
                              i < j => pg[q].slot[i].key < pg[q].slot[j].key
                        /\ ~pg[q].leaf => \A i \in 0 .. pg[q].size - 1 :
                              \A r \in Subtree(pg[q].slot[i].val) : \A j \in Keyed(pg[r]) :
                                 /\ i > 0 => pg[q].slot[i].key <= pg[r].slot[j].key
                                 /\ i + 1 < pg[q].size => pg[r].slot[j].key < pg[q].slot[i + 1].key
      BY DEF KeysInOrder
    <2> DEFINE p == pg[q]
               b == g[q]
    <2>3. /\ q \in DOMAIN g /\ p \in Page(Vals) /\ b \in Band /\ FitsBand(p, b)
          /\ PointsDown(pg, root, g, Invalid, Invalid, q)
      BY <2>1, <2>2, WholeIs
    <2>4. \A i, j \in Keyed(p) : i < j => p.slot[i].key < p.slot[j].key
      <3>1. p.leaf => Ordered(p)
        BY <2>3 DEF FitsBand
      <3>2. ~p.leaf => Separated(p)
        BY <2>3 DEF FitsBand
      <3> HIDE DEF p
      <3>3. CASE p.leaf
        BY <3>1, <3>3 DEF Ordered, Keyed, Used
      <3>4. CASE ~p.leaf
        BY <3>2, <3>4 DEF Separated, Keyed
      <3> QED  BY <3>3, <3>4
    <2>5. ASSUME ~p.leaf, NEW i \in 0 .. p.size - 1, NEW r \in Subtree(p.slot[i].val),
                 NEW j \in Keyed(pg[r])
          PROVE  /\ i > 0 => p.slot[i].key <= pg[r].slot[j].key
                 /\ i + 1 < p.size => pg[r].slot[j].key < p.slot[i + 1].key
      <3> DEFINE c == p.slot[i].val
                 key == pg[r].slot[j].key
      <3>1. i \in Used(p) /\ p.size \in Nat
        BY <2>3, PageType DEF Used
      <3>2. IsChild(pg, root, g, Invalid, Invalid, q, i, c)
        BY <2>3, <2>5, <3>1 DEF PointsDown
      <3>3. c \in DOMAIN g /\ g[c].lo = From(p, b, i)
        BY <3>2 DEF IsChild
      <3>4. g[c].hi = UpTo(p, b, i)
        <4>1. c # Invalid
          BY <2>1, <3>3, WholeIs
        <4> QED  BY <3>2, <4>1 DEF IsChild, Seen
      <3>5. r \in Nested(g, c)
        BY <2>1, <3>3, SubtreeIs
      <3>6. r \in DOMAIN g /\ g[c].lo <= g[r].lo /\ g[r].hi <= g[c].hi
        BY <3>5 DEF Nested
      <3>7. key \in Int /\ g[r].lo <= key /\ key < g[r].hi
        BY <2>1, <3>6, KeyedInRange
      <3>8. g[c].lo \in Nat /\ g[c].hi \in Nat /\ g[r].lo \in Nat /\ g[r].hi \in Nat
        BY <2>1, <3>3, <3>6, WholeIs DEF Band
      <3> HIDE DEF key, c, p, b
      <3>9. g[c].lo <= key /\ key < g[c].hi
        BY <3>6, <3>7, <3>8
      <3>10. i > 0 => p.slot[i].key <= key
        BY <3>3, <3>9 DEF From
      <3>11. i + 1 < p.size => key < p.slot[i + 1].key
        BY <3>4, <3>9 DEF UpTo
      <3> QED  BY <3>10, <3>11 DEF key
    <2> QED  BY <2>4, <2>5
  <1> QED  BY <1>1, <1>2

(***************************************************************************)
(* In every page that can be reached the keys ascend, and every key at or  *)
(* below a child lies between the separators on its two sides.             *)
(***************************************************************************)
THEOREM KeysCorrect ==
    ASSUME Usable
    PROVE  Spec => []KeysInOrder
  <1>1. TreeInv => KeysInOrder
    BY KeysAre
  <1> QED  BY <1>1, TreeInvariance, PTL

-----------------------------------------------------------------------------
(* Scans along the leaf chain. *)

LEMMA ListsAppend ==
    ASSUME NEW s \in Seq(Nat), NEW S \in SUBSET Nat, Lists(s, S), NEW k \in Nat,
           \A j \in S : j < k
    PROVE  Append(s, k) \in Seq(Nat) /\ Lists(Append(s, k), S \cup {k})
  <1> DEFINE a == Append(s, k)
             n == Len(s)
  <1>1. /\ a \in Seq(Nat) /\ Len(a) = n + 1 /\ n \in Nat /\ DOMAIN s = 1 .. n
        /\ DOMAIN a = 1 .. n + 1 /\ a[n + 1] = k /\ \A i \in 1 .. n : a[i] = s[i] /\ s[i] \in Nat
    OBVIOUS
  <1> HIDE DEF a, n
  <1>2. {s[i] : i \in 1 .. n} = S /\ \A i \in 1 .. n - 1 : s[i] < s[i + 1]
    BY <1>1 DEF Lists, n
  <1>3. {a[i] : i \in 1 .. n + 1} = S \cup {k}
    <2>1. \A i \in 1 .. n + 1 : i \in 1 .. n \/ i = n + 1
      BY <1>1
    <2>2. \A i \in 1 .. n : i \in 1 .. n + 1
      BY <1>1
    <2>3. n + 1 \in 1 .. n + 1
      BY <1>1
    <2>4. \A x \in {a[i] : i \in 1 .. n + 1} : x \in S \cup {k}
      BY <1>1, <1>2, <2>1
    <2>5. \A x \in S : x \in {a[i] : i \in 1 .. n + 1}
      <3> SUFFICES ASSUME NEW x \in S PROVE \E i \in 1 .. n + 1 : a[i] = x
        OBVIOUS
      <3>1. PICK i \in 1 .. n : s[i] = x
        BY <1>2
      <3> QED  BY <1>1, <2>2, <3>1
    <2>6. k \in {a[i] : i \in 1 .. n + 1}
      BY <1>1, <2>3
    <2> QED  BY <2>4, <2>5, <2>6
  <1>4. ASSUME NEW i \in 1 .. n PROVE a[i] < a[i + 1]
    <2>1. CASE i = n
      <3>1. a[n] = s[n] /\ s[n] \in S
        BY <1>1, <1>2, <2>1
      <3> QED  BY <1>1, <2>1, <3>1
    <2>2. CASE i # n
      <3>1. i \in 1 .. n - 1 /\ i + 1 \in 1 .. n
        BY <1>1, <2>2
      <3>2. a[i] = s[i] /\ a[i + 1] = s[i + 1] /\ s[i] < s[i + 1]
        BY <1>1, <1>2, <3>1
      <3> QED  BY <3>2
    <2> QED  BY <2>1, <2>2
  <1>5. Lists(a, S \cup {k})
    <2>1. (n + 1) - 1 = n
      BY <1>1
    <2> QED  BY <1>1, <1>3, <1>4, <2>1 DEF Lists
  <1> QED  BY <1>1, <1>5 DEF a

KeysOf(C) == {e.key : e \in C}

\* The iterator points at an entry.
At(g, it) ==
    /\ it = <<it[1], it[2]>>
    /\ it[1] \in DOMAIN g /\ pg[it[1]].leaf /\ it[2] \in Used(pg[it[1]])

LEMMA AtIs ==
    ASSUME NEW g, Tree(pg, root, g), NEW it, At(g, it)
    PROVE  /\ it # End /\ Deref(it) \in Content(pg, g)
           /\ Deref(it).key \in Nat /\ Deref(it).key < Supremum
           /\ InRange(g[it[1]], Deref(it).key)
  <1> DEFINE q == it[1]
  <1>1. Whole(pg, root, g)
    BY DEF Tree
  <1>2. q \in DOMAIN g /\ pg[q].leaf /\ it[2] \in Used(pg[q]) /\ q # Invalid
    BY <1>1, WholeIs DEF At
  <1>3. it # End
    BY <1>2 DEF End
  <1>4. Deref(it) \in Entries(pg[q])
    BY <1>2 DEF Deref, Entries
  <1> QED  BY <1>1, <1>2, <1>3, <1>4, EntryInRange, ContentIs

\* No entry lies between two neighbours of a leaf, or between the last one and
\* the end of its range.
LEMMA NoneBetween ==
    ASSUME NEW g, Tree(pg, root, g), NEW q \in DOMAIN g, pg[q].leaf, NEW i \in Used(pg[q]),
           NEW e \in Content(pg, g), pg[q].slot[i].key < e.key, e.key < g[q].hi
    PROVE  /\ i + 1 < pg[q].size
           /\ pg[q].slot[i + 1].key <= e.key
  <1> DEFINE p == pg[q]
  <1>1. Whole(pg, root, g) /\ g[root].lev < NewId(pg)
    BY DEF Tree
  <1>2. p \in Page(Vals) /\ Ordered(p) /\ p.size \in Nat
    <2>1. p \in Page(Vals) /\ FitsBand(p, g[q])
      BY <1>1, WholeIs
    <2> QED  BY <2>1, PageType DEF FitsBand
  <1>3. p.slot[i] \in Entries(p)
    BY DEF Entries
  <1>4. p.slot[i].key \in Nat /\ g[q].lo <= p.slot[i].key /\ g[q].lo \in Nat
    <2>1. p.slot[i].key \in Nat /\ InRange(g[q], p.slot[i].key)
      BY <1>1, <1>3, EntryInRange
    <2>2. g[q] \in Band
      BY <1>1, WholeIs
    <2> QED  BY <2>1, <2>2 DEF InRange, Band
  <1>5. e.key \in Nat
    <2>1. PICK r \in DOMAIN g : pg[r].leaf /\ e \in Entries(pg[r])
      BY ContentIs
    <2> QED  BY <1>1, <2>1, EntryInRange
  <1>6. InRange(g[q], e.key)
    BY <1>4, <1>5 DEF InRange
  <1>7. e \in Entries(p)
    BY <1>1, <1>6, LeafHolds
  <1>8. PICK j \in Used(p) : e = p.slot[j]
    BY <1>7 DEF Entries
  <1> HIDE DEF p
  <1>9. i \in Nat /\ j \in Nat /\ i < p.size /\ j < p.size
    BY <1>2, PageType DEF p
  <1>10. i < j
    <2> SUFFICES ASSUME ~(i < j) PROVE FALSE
      OBVIOUS
    <2>1. j = i \/ j < i
      BY <1>9
    <2>2. e.key <= p.slot[i].key
      <3>1. CASE j = i
        BY <1>4, <1>8, <3>1 DEF p
      <3>2. CASE j < i
        <4>1. p.slot[j].key < p.slot[i].key
          BY <1>2, <1>8, <3>2 DEF Ordered, p
        <4> QED  BY <1>4, <1>5, <1>8, <4>1 DEF p
      <3> QED  BY <2>1, <3>1, <3>2
    <2> QED  BY <1>4, <1>5, <2>2 DEF p
  <1> DEFINE l == i + 1
  <1>11. l \in Nat /\ l < p.size /\ (l = j \/ l < j)
    BY <1>2, <1>9, <1>10
  <1> HIDE DEF l
  <1>12. l \in Used(p)
    BY <1>2, <1>11, PageType
  <1>13. p.slot[l].key <= e.key
    <2>1. CASE l = j
      BY <1>5, <1>8, <2>1
    <2>2. CASE l < j
      <3>1. p.slot[l].key < p.slot[j].key
        BY <1>2, <1>8, <1>12, <2>2 DEF Ordered
      <3>2. p.slot[l].key \in Int
        BY <1>2, <1>12, PageType
      <3> QED  BY <1>5, <1>8, <3>1, <3>2
    <2> QED  BY <1>11, <2>1, <2>2
  <1> QED  BY <1>11, <1>13 DEF l, p

\* The first entry of a leaf is the first one of its range.
LEMMA FirstOfLeaf ==
    ASSUME NEW g, Tree(pg, root, g), NEW q \in DOMAIN g, pg[q].leaf,
           NEW e \in Content(pg, g), g[q].lo <= e.key, e.key < pg[q].slot[0].key
    PROVE  FALSE
  <1> DEFINE p == pg[q]
  <1>1. Whole(pg, root, g) /\ g[root].lev < NewId(pg) /\ p.size >= 1
    BY DEF Tree, Sized
  <1>2. p \in Page(Vals) /\ Ordered(p) /\ p.size \in Nat /\ g[q] \in Band
    <2>1. p \in Page(Vals) /\ FitsBand(p, g[q]) /\ g[q] \in Band
      BY <1>1, WholeIs
    <2> QED  BY <2>1, PageType DEF FitsBand
  <1>3. 0 \in Used(p)
    BY <1>1, <1>2, PageType
  <1>4. p.slot[0].key \in Nat /\ p.slot[0].key < g[q].hi /\ g[q].hi \in Nat /\ g[q].lo \in Nat
    <2>1. p.slot[0] \in Entries(p)
      BY <1>3 DEF Entries
    <2>2. p.slot[0].key \in Nat /\ InRange(g[q], p.slot[0].key)
      BY <1>1, <2>1, EntryInRange
    <2> QED  BY <1>2, <2>2 DEF InRange, Band
  <1>5. e.key \in Nat
    <2>1. PICK r \in DOMAIN g : pg[r].leaf /\ e \in Entries(pg[r])
      BY ContentIs
    <2> QED  BY <1>1, <2>1, EntryInRange
  <1>6. InRange(g[q], e.key)
    BY <1>4, <1>5 DEF InRange
  <1>7. e \in Entries(p)
    BY <1>1, <1>6, LeafHolds
  <1>8. PICK j \in Used(p) : e = p.slot[j]
    BY <1>7 DEF Entries
  <1>9. j \in Nat
    BY <1>2, PageType
  <1>10. CASE j = 0
    BY <1>4, <1>8, <1>10
  <1>11. CASE 0 < j
    <2>1. p.slot[0].key < p.slot[j].key
      BY <1>2, <1>3, <1>8, <1>11 DEF Ordered
    <2> HIDE DEF p
    <2> QED  BY <1>4, <1>5, <1>8, <2>1 DEF p
  <1> QED  BY <1>9, <1>10, <1>11

\* it2 is where the iterator goes from it: the next larger key, if any.
Follows(g, it, it2) ==
    LET cur == Deref(it).key
    IN  \/ it2 = End /\ \A e \in Content(pg, g) : e.key <= cur
        \/ /\ At(g, it2) /\ cur < Deref(it2).key
           /\ \A e \in Content(pg, g) : e.key <= cur \/ Deref(it2).key <= e.key

LEMMA AdvanceIs ==
    ASSUME NEW g, Tree(pg, root, g), NEW it, At(g, it)
    PROVE  Follows(g, it, Advance(it))
  <1> DEFINE q == it[1]
             i == it[2]
             p == pg[q]
             cur == Deref(it).key
             it2 == Advance(it)
             C == Content(pg, g)
  <1>1. Whole(pg, root, g) /\ g[root].lev < NewId(pg) /\ Sized(pg, g)
    BY DEF Tree
  <1>2. q \in DOMAIN g /\ p.leaf /\ i \in Used(p) /\ cur = p.slot[i].key
    BY DEF At, Deref
  <1>3. cur \in Nat /\ cur < Supremum /\ InRange(g[q], cur)
    BY AtIs
  <1>4. /\ p \in Page(Vals) /\ FitsBand(p, g[q]) /\ PointsRight(pg, g, q)
        /\ g[q].lo \in Nat /\ g[q].hi \in Nat
    BY <1>1, <1>2, WholeIs DEF Band
  <1>5. Ordered(p) /\ p.size \in Nat /\ i \in Nat /\ i < p.size
    BY <1>2, <1>4, PageType DEF FitsBand
  <1>6. \A e \in C : e.key \in Nat /\ e.key < Supremum
    <2> SUFFICES ASSUME NEW e \in C PROVE e.key \in Nat /\ e.key < Supremum
      OBVIOUS
    <2>1. PICK r \in DOMAIN g : pg[r].leaf /\ e \in Entries(pg[r])
      BY ContentIs
    <2> QED  BY <1>1, <2>1, EntryInRange
  <1>7. it2 = IF i + 1 < p.size THEN <<q, i + 1>> ELSE <<p.next, 0>>
    BY DEF Advance
  <1>8. ASSUME NEW e \in C, cur < e.key, e.key < g[q].hi
        PROVE  i + 1 < p.size /\ p.slot[i + 1].key <= e.key
    BY <1>2, <1>8, NoneBetween
  <1> HIDE DEF it2, cur, C, p, q, i
  <1>9. CASE i + 1 < p.size
    <2> DEFINE l == i + 1
    <2>1. l \in Nat /\ l < p.size /\ i < l
      BY <1>5, <1>9
    <2>2. it2 = <<q, l>>
      BY <1>7, <1>9
    <2>3. \A e \in C : cur < e.key /\ e.key < g[q].hi => p.slot[l].key <= e.key
      BY <1>8
    <2> HIDE DEF l
    <2>4. l \in Used(p)
      BY <1>4, <1>5, <2>1, PageType
    <2>5. At(g, it2)
      BY <1>2, <2>2, <2>4 DEF At, p
    <2>6. Deref(it2) = p.slot[l]
      BY <2>2 DEF Deref, p
    <2>7. cur < Deref(it2).key
      BY <1>2, <1>5, <2>1, <2>4, <2>6 DEF Ordered
    <2>8. p.slot[l].key \in Nat /\ p.slot[l].key < g[q].hi
      <3>1. InRange(g[it2[1]], Deref(it2).key) /\ Deref(it2).key \in Nat
        BY <2>5, AtIs
      <3> QED  BY <2>2, <2>6, <3>1 DEF InRange
    <2>9. \A e \in C : e.key <= cur \/ Deref(it2).key <= e.key
      <3> SUFFICES ASSUME NEW e \in C, ~(e.key <= cur) PROVE p.slot[l].key <= e.key
        BY <2>6
      <3>1. e.key \in Nat /\ cur < e.key
        BY <1>3, <1>6
      <3>2. CASE e.key < g[q].hi
        BY <2>3, <3>1, <3>2
      <3>3. CASE ~(e.key < g[q].hi)
        BY <1>4, <2>8, <3>1, <3>3
      <3> QED  BY <3>2, <3>3
    <2> QED  BY <2>5, <2>7, <2>9 DEF Follows, it2, cur, C
  <1>10. CASE ~(i + 1 < p.size)
    <2>1. it2 = <<p.next, 0>>
      BY <1>7, <1>10
    <2>2. \A e \in C : e.key <= cur \/ g[q].hi <= e.key
      BY <1>3, <1>4, <1>6, <1>8, <1>10
    <2>3. CASE g[q].hi = Supremum
      <3>1. p.next = Invalid
        BY <1>2, <1>4, <2>3 DEF PointsRight, p
      <3>2. it2 = End
        BY <2>1, <3>1 DEF End
      <3>3. \A e \in C : e.key <= cur
        BY <1>4, <1>6, <2>2, <2>3
      <3> QED  BY <3>2, <3>3 DEF Follows, it2, cur, C
    <2>4. CASE g[q].hi # Supremum
      <3> DEFINE r == p.next
      <3>1. r \in DOMAIN g /\ pg[r].leaf /\ g[r].lo = g[q].hi
        BY <1>2, <1>4, <2>4 DEF PointsRight, p
      <3>2. it2 = <<r, 0>>
        BY <2>1
      <3> HIDE DEF r
      <3>3. 0 \in Used(pg[r])
        <4>1. pg[r] \in Page(Vals) /\ pg[r].size >= 1
          BY <1>1, <3>1, WholeIs DEF Sized
        <4>2. pg[r].size \in Nat
          BY <4>1, PageType
        <4> QED  BY <4>1, <4>2 DEF Used
      <3>4. At(g, it2)
        BY <3>1, <3>2, <3>3 DEF At
      <3>5. Deref(it2) = pg[r].slot[0]
        BY <3>2 DEF Deref
      <3>6. Deref(it2).key \in Nat /\ g[q].hi <= Deref(it2).key
        <4>1. InRange(g[it2[1]], Deref(it2).key) /\ Deref(it2).key \in Nat
          BY <3>4, AtIs
        <4> QED  BY <3>1, <3>2, <4>1 DEF InRange
      <3>7. cur < Deref(it2).key
        <4>1. cur < g[q].hi
          BY <1>3 DEF InRange
        <4> QED  BY <1>3, <1>4, <3>6, <4>1
      <3>8. \A e \in C : e.key <= cur \/ Deref(it2).key <= e.key
        <4> SUFFICES ASSUME NEW e \in C, ~(e.key <= cur), ~(Deref(it2).key <= e.key) PROVE FALSE
          OBVIOUS
        <4>1. g[r].lo <= e.key /\ e.key < pg[r].slot[0].key
          BY <1>6, <2>2, <3>1, <3>5, <3>6
        <4> QED  BY <3>1, <4>1, FirstOfLeaf DEF C
      <3> QED  BY <3>4, <3>7, <3>8 DEF Follows, it2, cur, C
    <2> QED  BY <2>3, <2>4
  <1> QED  BY <1>9, <1>10

\* What a scan from key k0 has listed after n rounds.
Scanned(g, k0, s, n) ==
    LET K == KeysOf(Content(pg, g))
    IN  /\ s.keys \in Seq(Nat)
        /\ \/ s.it = End /\ Lists(s.keys, {k \in K : k >= k0})
           \/ /\ At(g, s.it) /\ Deref(s.it).key >= n /\ Deref(s.it).key >= k0
              /\ Lists(s.keys, {k \in K : k >= k0 /\ k < Deref(s.it).key})

\* The states of a scan.
Positions(g) == UNION {{<<q, i>> : i \in Used(pg[q])} : q \in DOMAIN g}

Scans(g) == {s \in [it : {End} \cup Positions(g), keys : Seq(Nat)] :
                s.it = End \/ At(g, s.it)}


LEMMA ScanStep ==
    ASSUME NEW g, Tree(pg, root, g), NEW s \in Scans(g)
    PROVE  /\ Collect(s) \in Scans(g)
           /\ \A k0 \in Nat, n \in Nat :
                 Scanned(g, k0, s, n) => Scanned(g, k0, Collect(s), n + 1)
  <1>1. CASE s.it = End
    <2>1. Collect(s) = s
      BY <1>1 DEF Collect
    <2>2. ~At(g, s.it)
      BY <1>1, AtIs
    <2> QED  BY <1>1, <2>1, <2>2 DEF Scanned
  <1>2. CASE s.it # End
    <2> DEFINE cur == Deref(s.it).key
               it2 == Advance(s.it)
               keys2 == Append(s.keys, cur)
               w == Collect(s)
               K == KeysOf(Content(pg, g))
    <2>1. At(g, s.it) /\ s.keys \in Seq(Nat)
      BY <1>2 DEF Scans
    <2>2. w.it = it2 /\ w.keys = keys2 /\ w = [it |-> it2, keys |-> keys2]
      BY <1>2 DEF Collect
    <2>3. cur \in Nat /\ Deref(s.it) \in Content(pg, g)
      BY <2>1, AtIs
    <2>4. Follows(g, s.it, it2)
      BY <2>1, AdvanceIs
    <2>5. K \in SUBSET Nat /\ cur \in K
      <3>1. ASSUME NEW e \in Content(pg, g) PROVE e.key \in Nat
        <4>1. PICK r \in DOMAIN g : pg[r].leaf /\ e \in Entries(pg[r])
          BY ContentIs
        <4> QED  BY <4>1, EntryInRange DEF Tree
      <3> QED  BY <2>3, <3>1 DEF KeysOf
    <2> HIDE DEF w, it2, keys2, cur
    <2>6. \/ it2 = End /\ \A k \in K : k <= cur
          \/ /\ At(g, it2) /\ cur < Deref(it2).key
             /\ \A k \in K : k <= cur \/ Deref(it2).key <= k
      BY <2>4 DEF Follows, KeysOf, cur
    <2> HIDE DEF K
    <2>7. keys2 \in Seq(Nat)
      BY <2>1, <2>3 DEF keys2
    <2>8. w \in Scans(g)
      <3>1. it2 \in {End} \cup Positions(g)
        <4>1. CASE it2 = End
          BY <4>1
        <4>2. CASE At(g, it2)
          <5>1. it2 = <<it2[1], it2[2]>> /\ it2[1] \in DOMAIN g /\ it2[2] \in Used(pg[it2[1]])
            BY <4>2 DEF At
          <5> QED  BY <5>1 DEF Positions
        <4> QED  BY <2>6, <4>1, <4>2
      <3> QED  BY <2>2, <2>6, <2>7, <3>1 DEF Scans
    <2>9. ASSUME NEW k0 \in Nat, NEW n \in Nat, Scanned(g, k0, s, n)
          PROVE  Scanned(g, k0, w, n + 1)
      <3> DEFINE S == {k \in K : k >= k0 /\ k < cur}
      <3>1. cur >= n /\ cur >= k0 /\ Lists(s.keys, S)
        BY <1>2, <2>9 DEF Scanned, cur, K
      <3>2. S \in SUBSET Nat /\ \A j \in S : j < cur
        BY <2>5
      <3>3. Lists(keys2, S \cup {cur})
        <4> HIDE DEF S
        <4> QED  BY <2>1, <2>3, <3>1, <3>2, ListsAppend DEF keys2
      <3>4. CASE it2 = End
        <4>1. S \cup {cur} = {k \in K : k >= k0}
          <5>1. \A k \in K : k <= cur
            <6>1. ~At(g, it2)
              BY <3>4, AtIs
            <6> QED  BY <2>6, <6>1
          <5>2. \A k \in K : k \in Nat
            BY <2>5
          <5>3. ASSUME NEW k \in K PROVE (k >= k0) <=> (k \in S \cup {cur})
            BY ONLY <2>3, <3>1, <5>1, <5>2, <5>3
          <5>4. S \cup {cur} \subseteq K
            BY <2>5
          <5> HIDE DEF S
          <5> QED  BY ONLY <5>3, <5>4
        <4> QED  BY <2>2, <2>7, <3>3, <3>4, <4>1 DEF Scanned, K
      <3>5. CASE it2 # End
        <4>1. /\ At(g, it2) /\ cur < Deref(it2).key
              /\ \A k \in K : k <= cur \/ Deref(it2).key <= k
          BY <2>6, <3>5
        <4>2. Deref(it2).key \in Nat
          BY <4>1, AtIs
        <4> DEFINE c2 == Deref(it2).key
        <4>3. c2 >= n + 1 /\ c2 >= k0
          BY <2>3, <3>1, <4>1, <4>2
        <4> HIDE DEF c2
        <4>4. S \cup {cur} = {k \in K : k >= k0 /\ k < c2}
          <5>1. /\ c2 \in Nat /\ cur < c2 /\ \A k \in K : k <= cur \/ c2 <= k
            BY <4>1, <4>2 DEF c2
          <5>2. \A k \in K : k \in Nat
            BY <2>5
          <5>3. ASSUME NEW k \in K PROVE (k >= k0 /\ k < c2) <=> (k \in S \cup {cur})
            BY ONLY <2>3, <3>1, <5>1, <5>2, <5>3
          <5>4. S \cup {cur} \subseteq K
            BY <2>5
          <5> HIDE DEF S
          <5> QED  BY ONLY <5>3, <5>4
        <4> QED  BY <2>2, <2>7, <3>3, <4>1, <4>3, <4>4 DEF Scanned, K, c2
      <3> QED  BY <3>4, <3>5
    <2> QED  BY <2>8, <2>9 DEF w
  <1> QED  BY <1>1, <1>2

ScanLoop(x, c) == c = [n \in Nat |-> IF n = 0 THEN {x} ELSE {Collect(s) : s \in c[n - 1]}]

LEMMA ScanLoopIs ==
    ASSUME NEW S, NEW f, NEW x, NEW r, RunsOn(S, f, x, r), \A s \in S : f[s] = Collect(s),
           NEW n \in Nat
    PROVE  (CHOOSE c : ScanLoop(x, c))[n] = {r[n]}
  <1> DEFINE c == CHOOSE c : ScanLoop(x, c)
             d == [m \in Nat |-> {r[m]}]
  <1>1. /\ r \in [Nat -> S] /\ r[0] = x
        /\ \A m \in Nat : r[m + 1] = Collect(r[m])
    BY DEF RunsOn
  <1>2. ScanLoop(x, d)
    <2>1. ASSUME NEW m \in Nat
          PROVE  d[m] = IF m = 0 THEN {x} ELSE {Collect(s) : s \in d[m - 1]}
      <3>1. CASE m = 0
        BY <1>1, <3>1
      <3>2. CASE m # 0
        <4>1. m - 1 \in Nat /\ (m - 1) + 1 = m
          BY <3>2
        <4>2. d[m - 1] = {r[m - 1]} /\ r[m] = Collect(r[m - 1])
          BY <1>1, <4>1
        <4>3. d[m] = {r[m]} /\ {Collect(u) : u \in {r[m - 1]}} = {Collect(r[m - 1])}
          OBVIOUS
        <4> HIDE DEF d
        <4> QED  BY <3>2, <4>2, <4>3
      <3> QED  BY <3>1, <3>2
    <2>2. d = [m \in Nat |-> d[m]]
      OBVIOUS
    <2> HIDE DEF d
    <2> QED  BY <2>1, <2>2 DEF ScanLoop
  <1>3. ScanLoop(x, c)
    <2> HIDE DEF d
    <2> QED  BY <1>2
  <1> HIDE DEF c
  <1> DEFINE Q == {m \in Nat : c[m] = {r[m]}}
  <1>4. 0 \in Q
    BY <1>1, <1>3 DEF ScanLoop
  <1>5. ASSUME NEW m \in Q PROVE m + 1 \in Q
    <2>1. m \in Nat /\ m + 1 \in Nat /\ m + 1 # 0 /\ (m + 1) - 1 = m
      OBVIOUS
    <2>2. c[m + 1] = {Collect(s) : s \in c[(m + 1) - 1]}
      BY <1>3, <2>1 DEF ScanLoop
    <2>3. c[m + 1] = {Collect(s) : s \in {r[m]}}
      BY <2>1, <2>2
    <2> QED  BY <1>1, <2>1, <2>3
  <1>6. Q = Nat
    <2> HIDE DEF Q
    <2>1. Q \in SUBSET Nat
      BY DEF Q
    <2> QED  BY <1>4, <1>5, <2>1, Inductive
  <1>7. c[n] = {r[n]}
    BY <1>6
  <1> QED  BY <1>7 DEF c

\* A scan that starts at an entry lists the keys from that entry on.
LEMMA ScanIs ==
    ASSUME NEW g, Tree(pg, root, g), NEW it, At(g, it)
    PROVE  Lists(KeysFrom(it), {k \in KeysOf(Content(pg, g)) : k >= Deref(it).key})
  <1> DEFINE x == [it |-> it, keys |-> <<>>]
             S == Scans(g)
             f == [s \in S |-> Collect(s)]
             k0 == Deref(it).key
             N == Supremum
             K == KeysOf(Content(pg, g))
  <1>1. KeysFrom(it) = (CHOOSE s \in (CHOOSE c : ScanLoop(x, c))[N] : TRUE).keys
    BY DEF KeysFrom, ScanLoop
  <1>2. x.it = it /\ x.keys = <<>> /\ <<>> \in Seq(Nat)
    OBVIOUS
  <1>3. x \in S
    <2>1. it \in Positions(g)
      BY DEF At, Positions
    <2> QED  BY <2>1 DEF Scans
  <1>4. f \in [S -> S] /\ \A s \in S : f[s] = Collect(s)
    <2>1. \A s \in S : Collect(s) \in S
      BY ScanStep
    <2> HIDE DEF S
    <2> QED  BY <2>1
  <1> HIDE DEF S, f, x
  <1>5. PICK r : RunsOn(S, f, x, r)
    BY <1>3, <1>4, Iterates
  <1>6. N \in Nat /\ k0 \in Nat /\ k0 < N
    BY SupremumIs, AtIs
  <1>7. KeysFrom(it) = r[N].keys
    <2>1. (CHOOSE c : ScanLoop(x, c))[N] = {r[N]}
      <3> HIDE DEF N
      <3> QED  BY <1>4, <1>5, <1>6, ScanLoopIs
    <2> QED  BY <1>1, <2>1
  <1> HIDE DEF N
  <1> DEFINE P == {n \in Nat : Scanned(g, k0, r[n], n)}
  <1>8. 0 \in P
    <2>1. r[0] = x
      BY <1>5 DEF RunsOn
    <2>2. {k \in K : k >= k0 /\ k < k0} = {}
      <3>1. \A k \in K : k \in Nat
        <4> SUFFICES ASSUME NEW e \in Content(pg, g) PROVE e.key \in Nat
          BY DEF KeysOf
        <4>1. PICK q \in DOMAIN g : pg[q].leaf /\ e \in Entries(pg[q])
          BY ContentIs
        <4> QED  BY <4>1, EntryInRange DEF Tree
      <3> HIDE DEF K, k0
      <3> QED  BY <1>6, <3>1
    <2>3. Lists(<<>>, {})
      BY DEF Lists
    <2>4. Scanned(g, k0, x, 0)
      <3>1. x.it = it /\ x.keys = <<>> /\ x.keys \in Seq(Nat)
        BY <1>2 DEF x
      <3>2. Deref(x.it).key = k0
        BY <3>1
      <3>3. At(g, x.it)
        BY <3>1
      <3>4. Lists(x.keys, {k \in K : k >= k0 /\ k < Deref(x.it).key})
        BY <2>2, <2>3, <3>1, <3>2
      <3> HIDE DEF k0
      <3>5. Deref(x.it).key >= 0 /\ Deref(x.it).key >= k0
        BY <1>6, <3>2
      <3> QED  BY <3>1, <3>3, <3>4, <3>5 DEF Scanned
    <2> QED  BY <2>1, <2>4
  <1>9. ASSUME NEW n \in P PROVE n + 1 \in P
    <2>1. n \in Nat /\ n + 1 \in Nat /\ Scanned(g, k0, r[n], n)
      OBVIOUS
    <2>2. r[n] \in Scans(g) /\ r[n + 1] = Collect(r[n])
      BY <1>4, <1>5, <2>1 DEF RunsOn, S
    <2> HIDE DEF k0
    <2>3. Scanned(g, k0, Collect(r[n]), n + 1)
      BY <1>6, <2>1, <2>2, ScanStep
    <2> QED  BY <2>1, <2>2, <2>3
  <1>10. P = Nat
    <2> HIDE DEF P
    <2>1. P \in SUBSET Nat
      BY DEF P
    <2> QED  BY <1>8, <1>9, <2>1, Inductive
  <1>11. Scanned(g, k0, r[N], N)
    BY <1>6, <1>10
  <1>12. ~(At(g, r[N].it) /\ Deref(r[N].it).key >= N)
    <2>1. At(g, r[N].it) => Deref(r[N].it).key \in Nat /\ Deref(r[N].it).key < N
      BY AtIs DEF N
    <2> QED  BY <1>6, <2>1
  <1>13. Lists(r[N].keys, {k \in K : k >= k0})
    BY <1>11, <1>12 DEF Scanned
  <1> QED  BY <1>7, <1>13

\* A scan that starts at End() lists nothing.
LEMMA NoScan == KeysFrom(End) = <<>>
  <1> DEFINE x == [it |-> End, keys |-> <<>>]
             S == {x}
             f == [s \in S |-> Collect(s)]
  <1>1. KeysFrom(End) = (CHOOSE s \in (CHOOSE c : ScanLoop(x, c))[Supremum] : TRUE).keys
    BY DEF KeysFrom, ScanLoop
  <1>2. x.it = End /\ x.keys = <<>>
    OBVIOUS
  <1>3. Collect(x) = x
    BY <1>2 DEF Collect
  <1> HIDE DEF x
  <1>4. f \in [S -> S] /\ x \in S /\ \A s \in S : f[s] = Collect(s)
    BY <1>3
  <1>5. \A s \in S : s = x
    OBVIOUS
  <1> HIDE DEF S, f
  <1>6. PICK r : RunsOn(S, f, x, r)
    BY <1>4, Iterates
  <1>7. (CHOOSE c : ScanLoop(x, c))[Supremum] = {r[Supremum]}
    <2> DEFINE n == Supremum
    <2>1. n \in Nat
      BY SupremumIs
    <2> HIDE DEF n
    <2>2. (CHOOSE c : ScanLoop(x, c))[n] = {r[n]}
      BY <1>4, <1>6, <2>1, ScanLoopIs
    <2> QED  BY <2>2 DEF n
  <1>8. r[Supremum] = x
    BY <1>5, <1>6, SupremumIs DEF RunsOn
  <1> QED  BY <1>1, <1>2, <1>7, <1>8

\* Begin() is at the smallest key, and Begin(k) at key k when it is stored.
LEMMA BeginIs ==
    ASSUME NEW g, Tree(pg, root, g), root # Invalid
    PROVE  At(g, Begin) /\ \A e \in Content(pg, g) : Deref(Begin).key <= e.key
  <1> DEFINE q == FirstLeaf(pg, root)
             it == Begin
  <1>1. q \in DOMAIN g /\ pg[q].leaf /\ g[q].lo = 0
    BY FirstLeafIs
  <1>2. it = <<q, 0>>
    BY DEF Begin, IsEmpty
  <1> HIDE DEF q, it
  <1>3. Whole(pg, root, g) /\ pg[q].size >= 1
    BY <1>1 DEF Tree, Sized
  <1>4. 0 \in Used(pg[q])
    <2>1. pg[q].size \in Nat
      BY <1>1, <1>3, WholeIs, PageType
    <2> QED  BY <1>3, <2>1 DEF Used
  <1>5. At(g, it) /\ Deref(it) = pg[q].slot[0]
    BY <1>1, <1>2, <1>4 DEF At, Deref
  <1>6. Deref(it).key \in Nat
    BY <1>5, AtIs
  <1>7. ASSUME NEW e \in Content(pg, g) PROVE Deref(it).key <= e.key
    <2>1. e.key \in Nat
      <3>1. PICK r \in DOMAIN g : pg[r].leaf /\ e \in Entries(pg[r])
        BY ContentIs
      <3> QED  BY <1>3, <3>1, EntryInRange
    <2>2. ~(e.key < pg[q].slot[0].key)
      <3>1. g[q].lo <= e.key
        BY <1>1, <2>1
      <3> QED  BY <1>1, <3>1, FirstOfLeaf
    <2> QED  BY <1>5, <1>6, <2>1, <2>2
  <1> QED  BY <1>5, <1>7 DEF it

LEMMA BeginAtIs ==
    ASSUME NEW g, Tree(pg, root, g), root # Invalid, NEW k \in Keys,
           k \in KeysOf(Content(pg, g))
    PROVE  At(g, BeginAt(k)) /\ Deref(BeginAt(k)).key = k
  <1> DEFINE q == FindLeaf(pg, root, k)
             i == KeyIndex(pg[q], k)
             it == BeginAt(k)
  <1>1. Whole(pg, root, g) /\ g[root].lev < NewId(pg)
    BY DEF Tree
  <1>2. k \in Nat /\ k \in Int /\ k < Supremum
    BY SupremumIs
  <1>3. q \in DOMAIN g /\ pg[q].leaf /\ InRange(g[q], k)
    BY <1>1, <1>2, DescentCorrect
  <1>4. it = IF i >= pg[q].size THEN End ELSE <<q, i>>
    BY DEF BeginAt, IsEmpty
  <1> HIDE DEF q, it
  <1>5. pg[q] \in Page(Vals) /\ Ordered(pg[q]) /\ pg[q].size \in Nat
    <2>1. pg[q] \in Page(Vals) /\ FitsBand(pg[q], g[q])
      BY <1>1, <1>3, WholeIs
    <2>2. pg[q].size \in Nat
      BY <2>1, PageType
    <2> QED  BY ONLY <1>3, <2>1, <2>2 DEF FitsBand
  <1>6. PICK e \in Content(pg, g) : e.key = k
    BY DEF KeysOf
  <1>7. e \in Entries(pg[q])
    BY <1>1, <1>3, <1>6, LeafHolds
  <1>8. HasKeyAt(pg[q], i, k)
    BY <1>2, <1>5, <1>6, <1>7, LeafLookupCorrect
  <1>9. i \in 0 .. pg[q].size
    BY <1>2, <1>5, KeyIndexIs
  <1> HIDE DEF i
  <1>10. i \in Used(pg[q]) /\ ~(i >= pg[q].size) /\ pg[q].slot[i].key = k
    BY <1>5, <1>8, <1>9 DEF HasKeyAt, Used
  <1>11. it = <<q, i>>
    BY <1>4, <1>10
  <1> QED  BY <1>3, <1>10, <1>11 DEF At, Deref, it

LEMMA FoundIs ==
    ASSUME NEW C \in SUBSET Stored, Holding(pg, root, C)
    PROVE  Found = KeysOf(C)
  <1>1. \A k \in Keys : GetValue(k) = ValuesOf(C, k)
    BY AnswerIs DEF GetValue, GetValueIn, IsEmpty, Answer
  <1>2. \A e \in C : e.key \in Keys
    BY DEF Stored
  <1>3. \A k \in Keys : ValuesOf(C, k) # {} <=> k \in KeysOf(C)
    BY DEF ValuesOf, KeysOf
  <1>4. KeysOf(C) \subseteq Keys
    BY <1>2 DEF KeysOf
  <1> QED  BY <1>1, <1>3, <1>4 DEF Found

LEMMA ScansAre ==
    ASSUME TreeInv
    PROVE  ScanMatchesLookups
  <1>1. PICK C \in SUBSET Stored : Holding(pg, root, C)
    BY DEF TreeInv
  <1>2. Found = KeysOf(C) /\ Found \subseteq Keys
    BY <1>1, FoundIs DEF Found
  <1>3. CASE root = Invalid
    <2>1. C = {} /\ Begin = End
      BY <1>1, <1>3 DEF Holding, Begin, IsEmpty
    <2>2. Found = {} /\ KeysFrom(Begin) = <<>>
      BY <1>2, <2>1, NoScan DEF KeysOf
    <2>3. Lists(<<>>, {})
      BY DEF Lists
    <2> QED  BY <2>2, <2>3 DEF ScanMatchesLookups
  <1>4. CASE root # Invalid
    <2>1. PICK g : Tree(pg, root, g) /\ Content(pg, g) = C
      BY <1>1, <1>4 DEF Holding
    <2>2. Lists(KeysFrom(Begin), Found)
      <3>1. At(g, Begin) /\ \A e \in C : Deref(Begin).key <= e.key
        BY <1>4, <2>1, BeginIs
      <3>2. Lists(KeysFrom(Begin), {k \in KeysOf(C) : k >= Deref(Begin).key})
        BY <2>1, <3>1, ScanIs
      <3>3. Deref(Begin).key \in Nat /\ \A k \in KeysOf(C) : k \in Nat
        BY <1>2, <2>1, <3>1, AtIs, SupremumIs
      <3>4. \A k \in KeysOf(C) : k >= Deref(Begin).key
        BY <3>1, <3>3 DEF KeysOf
      <3>5. {k \in KeysOf(C) : k >= Deref(Begin).key} = Found
        BY <1>2, <3>4
      <3> QED  BY <3>2, <3>5
    <2>3. ASSUME NEW k \in Found PROVE Lists(KeysFrom(BeginAt(k)), {j \in Found : j >= k})
      <3>1. k \in Keys /\ k \in KeysOf(Content(pg, g))
        BY <1>2, <2>1
      <3>2. At(g, BeginAt(k)) /\ Deref(BeginAt(k)).key = k
        BY <1>4, <2>1, <3>1, BeginAtIs
      <3>3. Lists(KeysFrom(BeginAt(k)), {j \in KeysOf(C) : j >= Deref(BeginAt(k)).key})
        BY <2>1, <3>2, ScanIs
      <3> QED  BY <1>2, <3>2, <3>3
    <2> QED  BY <2>2, <2>3 DEF ScanMatchesLookups
  <1> QED  BY <1>3, <1>4

(***************************************************************************)
(* Iterating along the leaf chain, from Begin() or from Begin(k) of a key  *)
(* that is present, yields the keys that point lookups find, in ascending  *)
(* order and without gaps.                                                 *)
(***************************************************************************)
THEOREM ScanCorrect ==
    ASSUME Usable
    PROVE  Spec => []ScanMatchesLookups
  <1>1. TreeInv => ScanMatchesLookups
    BY ScansAre
  <1> QED  BY <1>1, TreeInvariance, PTL

-----------------------------------------------------------------------------
(* An entry that moves between two leaves. *)

\* p2 is page p with key m in slot l.
Rekeyed(p2, p, l, m) ==
    /\ p2 \in Page(Vals) /\ SameHeader(p, p2) /\ p2.size = p.size
    /\ p2.slot[l].key = m
    /\ \A j \in Used(p) : p2.slot[j].val = p.slot[j].val /\ (j # l => p2.slot[j] = p.slot[j])

LEMMA RekeyedIs ==
    ASSUME NEW p \in Page(Vals), NEW l \in Used(p), NEW m \in Nat
    PROVE  Rekeyed([p EXCEPT !.slot[l].key = m], p, l, m)
  <1> DEFINE p2 == [p EXCEPT !.slot[l].key = m]
             e == [p.slot[l] EXCEPT !.key = m]
             f == [p.slot EXCEPT ![l] = e]
  <1>1. /\ l \in Slots /\ p.slot \in [Slots -> Entry(Vals)] /\ p.slot[l] \in Entry(Vals)
        /\ \A j \in Used(p) : j \in Slots
    BY PageType DEF Page
  <1>2. e \in Entry(Vals) /\ e.key = m /\ e.val = p.slot[l].val
    BY <1>1 DEF Entry
  <1>3. p2 = [p EXCEPT !.slot = f]
    OBVIOUS
  <1> HIDE DEF e, p2
  <1>4. /\ f \in [Slots -> Entry(Vals)] /\ f[l] = e
        /\ \A j \in Slots : j # l => f[j] = p.slot[j]
    BY <1>1, <1>2
  <1> HIDE DEF f
  <1>5. /\ p2 \in Page(Vals) /\ p2.slot = f /\ p2.size = p.size /\ SameHeader(p, p2)
    BY <1>3, <1>4 DEF Page, SameHeader
  <1>6. \A j \in Used(p) : p2.slot[j].val = p.slot[j].val /\ (j # l => p2.slot[j] = p.slot[j])
    BY <1>1, <1>2, <1>4, <1>5
  <1> QED  BY <1>2, <1>4, <1>5, <1>6 DEF Rekeyed, p2

LEMMA KidRekeyedIs ==
    ASSUME NEW p \in Page(Vals), NEW b \in Band, FitsBand(p, b), ~p.leaf,
           NEW i \in Used(p), NEW l \in Used(p), l = i + 1, NEW m \in Nat,
           From(p, b, i) < m, m < UpTo(p, b, l), NEW q, Rekeyed(q, p, l, m)
    PROVE  KidRekeyed(q, p, b, i, m)
  <1> DEFINE n == p.size
             Old(j) == From(p, b, j)
             Up(j) == UpTo(p, b, j)
  <1>1. /\ b.lo \in Nat /\ b.hi \in Nat /\ n \in Nat /\ n >= 1
        /\ \A j \in 1 .. n - 1 : /\ p.slot[j].key \in Int
                                 /\ b.lo < p.slot[j].key /\ p.slot[j].key < b.hi
        /\ \A j, k \in 1 .. n - 1 : j < k => p.slot[j].key < p.slot[k].key
    BY InternalIs
  <1>2. i \in Nat /\ l \in 1 .. n - 1 /\ Used(p) = 0 .. n - 1
    BY <1>1 DEF Used
  <1>3. /\ q \in Page(Vals) /\ SameHeader(p, q) /\ q.size = n /\ q.slot[l].key = m
        /\ \A j \in Used(p) : q.slot[j].val = p.slot[j].val /\ (j # l => q.slot[j] = p.slot[j])
    BY DEF Rekeyed
  <1>4. /\ \A j \in Used(p) : /\ Old(j) \in Nat /\ Up(j) \in Nat
                              /\ b.lo <= Old(j) /\ Old(j) < Up(j) /\ Up(j) <= b.hi
        /\ \A j, k \in Used(p) : j < k => Up(j) <= Old(k)
    BY KidRanges
  <1>5. /\ \A j \in 1 .. n - 1 : j < l => p.slot[j].key < m
        /\ \A j \in 1 .. n - 1 : l < j => m < p.slot[j].key
    <2>1. ASSUME NEW j \in 1 .. n - 1, j < l PROVE p.slot[j].key < m
      <3>1. j \in Used(p) /\ Old(j) = p.slot[j].key /\ j <= i
        BY <1>1, <1>2, <2>1 DEF From
      <3>2. j = i \/ (Old(j) < Up(j) /\ Up(j) <= Old(i))
        BY <1>2, <1>4, <3>1
      <3>3. Old(j) \in Nat /\ Old(i) \in Nat /\ Up(j) \in Nat /\ Old(i) < m
        BY <1>4, <3>1
      <3> HIDE DEF Old, Up
      <3>4. Old(j) < m
        BY ONLY <3>2, <3>3, m \in Nat
      <3> QED  BY <3>1, <3>4
    <2>2. ASSUME NEW j \in 1 .. n - 1, l < j PROVE m < p.slot[j].key
      <3>1. j \in Used(p) /\ Old(j) = p.slot[j].key
        BY <1>1, <1>2 DEF From
      <3>2. Up(l) <= Old(j) /\ Up(l) \in Nat /\ Old(j) \in Nat /\ m < Up(l)
        BY <1>4, <2>2, <3>1
      <3> HIDE DEF Old, Up
      <3>3. m < Old(j)
        BY ONLY <3>2, m \in Nat
      <3> QED  BY <3>1, <3>3
    <2> QED  BY <2>1, <2>2
  <1>6. b.lo < m /\ m < b.hi
    <2>1. b.lo <= Old(i) /\ Old(i) < m /\ m < Up(l) /\ Up(l) <= b.hi /\ Old(i) \in Nat /\ Up(l) \in Nat
      BY <1>4
    <2> HIDE DEF Old, Up
    <2> QED  BY <1>1, <2>1
  <1>7. \A j \in 1 .. n - 1 : j \in Used(p) /\ q.slot[j].key = IF j = l THEN m ELSE p.slot[j].key
    BY <1>1, <1>2, <1>3
  <1>8. \A j \in 1 .. n - 1 : b.lo < q.slot[j].key /\ q.slot[j].key < b.hi
    BY <1>1, <1>6, <1>7
  <1>9. \A j, k \in 1 .. n - 1 : j < k => q.slot[j].key < q.slot[k].key
    BY <1>1, <1>5, <1>7
  <1>10. FitsBand(q, b)
    <2>1. Separated(q)
      BY <1>3, <1>9 DEF Separated
    <2> QED  BY <1>1, <1>3, <1>8, <2>1 DEF FitsBand, SameHeader
  <1>11. Used(q) = Used(p)
    BY <1>3 DEF Used
  <1> DEFINE A == [val |-> p.slot[i].val, lo |-> From(p, b, i), hi |-> m]
             B == [val |-> p.slot[l].val, lo |-> m, hi |-> UpTo(p, b, l)]
  <1>12. \A j \in Used(p) : j # l => From(q, b, j) = From(p, b, j)
    BY <1>3 DEF From
  <1>13. \A j \in Used(p) : j # i => UpTo(q, b, j) = UpTo(p, b, j)
    <2> SUFFICES ASSUME NEW j \in Used(p), j # i PROVE UpTo(q, b, j) = UpTo(p, b, j)
      OBVIOUS
    <2>1. j \in Nat /\ (j + 1 < n => j + 1 \in Used(p) /\ j + 1 # l)
      BY <1>1, <1>2
    <2> QED  BY <1>3, <2>1 DEF UpTo
  <1>14. From(q, b, l) = m /\ UpTo(q, b, i) = m
    <2>1. l # 0 /\ i + 1 = l /\ l < n
      BY <1>1, <1>2
    <2> QED  BY <1>3, <2>1 DEF From, UpTo
  <1>15. /\ \A j \in (Used(p) \ {i}) \ {l} : Kid(q, b, j) = Kid(p, b, j)
         /\ Kid(q, b, i) = A /\ Kid(q, b, l) = B
    <2>1. i # l
      BY <1>2
    <2> QED  BY <1>3, <1>12, <1>13, <1>14, <2>1 DEF Kid
  <1>16. Kids(q, b) = {Kid(p, b, j) : j \in (Used(p) \ {i}) \ {l}} \cup {A, B}
    <2> HIDE DEF A, B
    <2> QED  BY <1>11, <1>15 DEF Kids
  <1>17. Kids(q, b) = {k \in Kids(p, b) : k.lo # From(p, b, i) /\ k.lo # From(p, b, l)} \cup {A, B}
    <2> HIDE DEF A, B
    <2>2. /\ {Kid(p, b, j) : j \in Used(p) \ {i}} = {k \in Kids(p, b) : k.lo # From(p, b, i)}
          /\ {Kid(p, b, j) : j \in Used(p) \ {l}} = {k \in Kids(p, b) : k.lo # From(p, b, l)}
      BY KidsBut
    <2>3. {Kid(p, b, j) : j \in (Used(p) \ {i}) \ {l}} =
             {k \in Kids(p, b) : k.lo # From(p, b, i) /\ k.lo # From(p, b, l)}
      <3>1. \A j : Kid(p, b, j).lo = From(p, b, j)
        BY DEF Kid
      <3>2. \A j \in Used(p) : j # i => From(p, b, j) # From(p, b, i)
        BY <2>2, <3>1
      <3>3. \A j \in Used(p) : j # l => From(p, b, j) # From(p, b, l)
        BY <2>2, <3>1
      <3> QED  BY <3>1, <3>2, <3>3 DEF Kids
    <2> QED  BY <1>16, <2>3
  <1> QED  BY <1>3, <1>10, <1>17 DEF KidRekeyed

\* The leaves s[left] and s[right] share the entries of both around key m.
Reshared(t, s, g, left, right, p, i, m) ==
    /\ s \in Pages /\ DOMAIN s = DOMAIN t /\ NewId(s) = NewId(t)
    /\ SameHeader(t[left], s[left]) /\ SameHeader(t[right], s[right])
    /\ Ordered(s[left]) /\ Ordered(s[right])
    /\ Entries(s[left]) \cup Entries(s[right]) = Entries(t[left]) \cup Entries(t[right])
    /\ \A e \in Entries(s[left]) : e.key < m
    /\ \A e \in Entries(s[right]) : m <= e.key
    /\ m \in Nat /\ g[left].lo < m /\ m < g[right].hi
    /\ Rekeyed(s[p], t[p], i + 1, m)
    /\ \A q \in DOMAIN t : q # left /\ q # right /\ q # p => s[q] = t[q]

ResharedBand(g, left, right, m) ==
    [q \in DOMAIN g |->
        IF q = left THEN [lev |-> 0, lo |-> g[left].lo, hi |-> m]
        ELSE IF q = right THEN [lev |-> 0, lo |-> m, hi |-> g[right].hi] ELSE g[q]]

IsReshared(t, s, g, left, right, p, i) == \E m : Reshared(t, s, g, left, right, p, i, m)

SameContent(t, g, s, top, h) ==
    Whole(s, top, h) /\ h[top].lev < NewId(s) /\ Content(s, h) = Content(t, g)

\* Such pages are a tree with the same entries.
LEMMA ResharedIs ==
    ASSUME NEW t, NEW top, NEW g, Whole(t, top, g), g[top].lev < NewId(t),
           NEW p \in DOMAIN g, ~t[p].leaf, NEW i \in Used(t[p]), i + 1 \in Used(t[p]),
           NEW left, left = t[p].slot[i].val, NEW right, right = t[p].slot[i + 1].val,
           t[left].leaf, NEW s, NEW m, Reshared(t, s, g, left, right, p, i, m)
    PROVE  SameContent(t, g, s, top, ResharedBand(g, left, right, m))
  <1> DEFINE h == ResharedBand(g, left, right, m)
  <1>1. /\ t \in Pages /\ DOMAIN g \subseteq DOMAIN t /\ top \in DOMAIN g
        /\ t[top].parent = Invalid /\ g[top].lo = 0
        /\ Seen(g, Invalid, Invalid, top) = Supremum
    BY ShapeIs DEF Whole
  <1>2. \A r \in DOMAIN g : /\ t[r] \in Page(Vals) /\ r # Invalid /\ r \in DOMAIN t
                            /\ g[r] \in Band /\ FitsBand(t[r], g[r])
                            /\ Placed(t, top, g, Invalid, Invalid, r)
    BY ShapeIs DEF Whole
  <1>3. /\ left \in DOMAIN g /\ right \in DOMAIN g /\ left # top /\ right # top
        /\ left # right /\ left # p /\ right # p
        /\ t[left].parent = p /\ t[right].parent = p
        /\ g[left].lev = g[right].lev /\ g[left].lev + 1 = g[p].lev
        /\ g[left].lo = From(t[p], g[p], i) /\ g[left].hi = UpTo(t[p], g[p], i)
        /\ g[right].lo = From(t[p], g[p], i + 1) /\ g[right].hi = UpTo(t[p], g[p], i + 1)
        /\ g[left].hi = g[right].lo
    <2>1. NextTo(t, p, i, left, right)
      BY DEF NextTo
    <2>2. Beside(t, top, g, p, i, left, right)
      BY <2>1, BesideIs
    <2> QED  BY ONLY <2>2 DEF Beside
  <1>4. /\ g[left].lo \in Nat /\ g[left].hi \in Nat /\ g[right].hi \in Nat
        /\ g[left].lo < g[left].hi /\ g[right].lo < g[right].hi /\ g[right].hi <= Supremum
        /\ g[left].lev = 0 /\ g[right].lev = 0 /\ t[right].leaf /\ Supremum \in Nat
        /\ t[left].max = leaf_max_size /\ t[right].max = leaf_max_size
    <2>1. g[left].lev = 0 /\ g[right].lev = 0 /\ t[right].leaf
      BY <1>2, <1>3 DEF FitsBand
    <2> QED  BY ONLY <1>2, <1>3, <2>1, t[left].leaf, SupremumIs DEF FitsBand, Band
  <1>5. /\ s \in Pages /\ DOMAIN s = DOMAIN t /\ NewId(s) = NewId(t)
        /\ SameHeader(t[left], s[left]) /\ SameHeader(t[right], s[right])
        /\ Ordered(s[left]) /\ Ordered(s[right])
        /\ Entries(s[left]) \cup Entries(s[right]) = Entries(t[left]) \cup Entries(t[right])
        /\ \A e \in Entries(s[left]) : e.key < m
        /\ \A e \in Entries(s[right]) : m <= e.key
        /\ m \in Nat /\ g[left].lo < m /\ m < g[right].hi
        /\ \A q \in DOMAIN t : q # left /\ q # right /\ q # p => s[q] = t[q]
    BY DEF Reshared
  <1>6. KidRekeyed(s[p], t[p], g[p], i, m)
    <2> DEFINE l == i + 1
    <2>1. l \in Used(t[p]) /\ l = i + 1 /\ Rekeyed(s[p], t[p], l, m)
      BY DEF Reshared
    <2>2. From(t[p], g[p], i) < m /\ m < UpTo(t[p], g[p], l)
      BY <1>3, <1>5
    <2> HIDE DEF l
    <2> QED  BY <1>2, <1>5, <2>1, <2>2, KidRekeyedIs
  <1> DEFINE A == [val |-> left, lo |-> g[left].lo, hi |-> m]
             B == [val |-> right, lo |-> m, hi |-> g[right].hi]
  <1>7. /\ s[p] \in Page(Vals) /\ SameHeader(t[p], s[p]) /\ FitsBand(s[p], g[p])
        /\ Kids(s[p], g[p]) = {k \in Kids(t[p], g[p]) : k.lo # g[left].lo /\ k.lo # g[right].lo}
                                 \cup {A, B}
    <2> DEFINE a == From(t[p], g[p], i)
               c == From(t[p], g[p], i + 1)
               d == UpTo(t[p], g[p], i + 1)
    <2>1. /\ s[p] \in Page(Vals) /\ SameHeader(t[p], s[p]) /\ FitsBand(s[p], g[p])
          /\ Kids(s[p], g[p]) = {k \in Kids(t[p], g[p]) : k.lo # a /\ k.lo # c}
                                   \cup {[val |-> left, lo |-> a, hi |-> m],
                                         [val |-> right, lo |-> m, hi |-> d]}
      BY ONLY <1>6, left = t[p].slot[i].val, right = t[p].slot[i + 1].val, Zenon
         DEF KidRekeyed, a, c, d
    <2>2. a = g[left].lo /\ c = g[right].lo /\ d = g[right].hi
      BY ONLY <1>3 DEF a, c, d
    <2> HIDE DEF a, c, d
    <2> QED  BY ONLY <2>1, <2>2, Zenon DEF A, B
  <1>8. /\ A.val = left /\ A.lo = g[left].lo /\ A.hi = m
        /\ B.val = right /\ B.lo = m /\ B.hi = g[right].hi
    OBVIOUS
  <1>9. /\ DOMAIN h = DOMAIN g
        /\ h[left] = [lev |-> 0, lo |-> g[left].lo, hi |-> m]
        /\ h[right] = [lev |-> 0, lo |-> m, hi |-> g[right].hi]
        /\ \A q \in DOMAIN g : q # left /\ q # right => h[q] = g[q]
    BY <1>3 DEF ResharedBand
  <1> HIDE DEF h, A, B
  <1>10. /\ h[left] \in Band /\ h[left].lev = 0 /\ h[left].lo = g[left].lo /\ h[left].hi = m
         /\ h[right] \in Band /\ h[right].lev = 0 /\ h[right].lo = m
         /\ h[right].hi = g[right].hi
    <2>1. \A x, y \in Nat : /\ [lev |-> 0, lo |-> x, hi |-> y] \in Band
                            /\ [lev |-> 0, lo |-> x, hi |-> y].lev = 0
                            /\ [lev |-> 0, lo |-> x, hi |-> y].lo = x
                            /\ [lev |-> 0, lo |-> x, hi |-> y].hi = y
      BY DEF Band
    <2> QED  BY ONLY <1>4, <1>5, <1>9, <2>1
  <1>11. /\ \A q \in DOMAIN g : h[q].lev = g[q].lev
         /\ \A q \in DOMAIN g : q # right => h[q].lo = g[q].lo
         /\ \A q \in DOMAIN g : q # left => h[q].hi = g[q].hi
    <2> SUFFICES ASSUME NEW q \in DOMAIN g
                 PROVE  /\ h[q].lev = g[q].lev /\ (q # right => h[q].lo = g[q].lo)
                        /\ (q # left => h[q].hi = g[q].hi)
      OBVIOUS
    <2>1. CASE q = left
      BY <1>4, <1>10, <2>1
    <2>2. CASE q = right
      BY <1>4, <1>10, <2>2
    <2>3. CASE q # left /\ q # right
      BY <1>9, <2>3
    <2> QED  BY <2>1, <2>2, <2>3
  <1>12. \A q \in DOMAIN g : /\ s[q] \in Page(Vals) /\ s[q].leaf = t[q].leaf
                             /\ s[q].parent = t[q].parent /\ s[q].next = t[q].next
                             /\ s[q].max = t[q].max
    <2> SUFFICES ASSUME NEW q \in DOMAIN g
                 PROVE  /\ s[q] \in Page(Vals) /\ SameHeader(t[q], s[q])
      BY DEF SameHeader
    <2>1. s[q] \in Page(Vals)
      BY <1>2, <1>5, PagesAre
    <2>2. CASE q \in {left, right, p}
      BY <1>5, <1>7, <2>1, <2>2
    <2>3. CASE q \notin {left, right, p}
      <3>1. s[q] = t[q]
        BY <1>2, <1>5, <2>3
      <3> QED  BY <2>1, <3>1 DEF SameHeader
    <2> QED  BY <2>2, <2>3
  <1>13. \A q \in DOMAIN g : Seen(h, Invalid, Invalid, q) = h[q].hi
    BY <1>2 DEF Seen
  <1>14. m <= Supremum /\ m # Supremum /\ g[right].lo # Supremum
    BY ONLY <1>3, <1>4, <1>5
  <1>15. ASSUME NEW q \in DOMAIN g PROVE Placed(s, top, h, Invalid, Invalid, q)
    <2>1. /\ FitsBand(t[q], g[q]) /\ g[q] \in Band
          /\ ~t[q].leaf => \A k \in Kids(t[q], g[q]) : IsKid(t, top, g, Invalid, Invalid, q, k)
          /\ q # top => /\ g[q].lev < g[top].lev
                        /\ t[q].parent \in DOMAIN g /\ ~t[t[q].parent].leaf
                        /\ \E k \in Kids(t[t[q].parent], g[t[q].parent]) : k.val = q
          /\ PointsRight(t, g, q)
      BY <1>2 DEF Placed
    <2>2. h[q] \in Band /\ FitsBand(s[q], h[q])
      <3>1. \A e \in Entries(s[left]) \cup Entries(s[right]) :
               e.key \in Int /\ g[left].lo <= e.key /\ e.key < g[right].hi
        <4> SUFFICES ASSUME NEW e \in Entries(t[left]) \cup Entries(t[right])
                     PROVE  e.key \in Int /\ g[left].lo <= e.key /\ e.key < g[right].hi
          BY <1>5
        <4>1. e.key \in Int
          <5>1. e \in Entry(Vals)
            BY <1>2, <1>3, PageType
          <5> QED  BY <5>1 DEF Entry
        <4>2. \/ g[left].lo <= e.key /\ e.key < g[left].hi
              \/ g[right].lo <= e.key /\ e.key < g[right].hi
          BY ONLY <1>2, <1>3, <1>4, t[left].leaf, e \in Entries(t[left]) \cup Entries(t[right]) DEF FitsBand
        <4> QED  BY <1>3, <1>4, <4>1, <4>2
      <3>2. CASE q = left
        <4>1. \A e \in Entries(s[left]) : h[left].lo <= e.key /\ e.key < h[left].hi
          BY <1>5, <1>10, <3>1
        <4>2. h[left].lo < h[left].hi /\ h[left].hi <= Supremum
          BY ONLY <1>5, <1>10, <1>14
        <4>3. s[left].leaf /\ s[left].max = leaf_max_size
          BY <1>3, <1>4, <1>12
        <4> QED  BY <1>5, <1>10, <3>2, <4>1, <4>2, <4>3 DEF FitsBand
      <3>3. CASE q = right
        <4>1. \A e \in Entries(s[right]) : h[right].lo <= e.key /\ e.key < h[right].hi
          BY <1>5, <1>10, <3>1
        <4>2. h[right].lo < h[right].hi /\ h[right].hi <= Supremum
          BY <1>4, <1>5, <1>10
        <4>3. s[right].leaf /\ s[right].max = leaf_max_size
          BY <1>3, <1>4, <1>12
        <4> QED  BY <1>5, <1>10, <3>3, <4>1, <4>2, <4>3 DEF FitsBand
      <3>4. CASE q = p
        BY <1>3, <1>7, <1>9, <2>1, <3>4
      <3>5. CASE q # left /\ q # right /\ q # p
        BY <1>2, <1>5, <1>9, <2>1, <3>5
      <3> QED  BY <3>2, <3>3, <3>4, <3>5
    <2>3. ASSUME ~s[q].leaf, NEW k \in Kids(s[q], h[q])
          PROVE  IsKid(s, top, h, Invalid, Invalid, q, k)
      <3>1. q # left /\ q # right /\ h[q] = g[q] /\ ~t[q].leaf
        BY <1>3, <1>4, <1>9, <1>12, <2>3
      <3>2. CASE q = p /\ k \in {A, B}
        <4>1. /\ s[left].parent = p /\ left # Invalid /\ s[right].parent = p /\ right # Invalid
              /\ left \in DOMAIN h /\ right \in DOMAIN h
          BY <1>2, <1>3, <1>9, <1>12
        <4>2. h[left].lev + 1 = h[p].lev /\ h[right].lev + 1 = h[p].lev
          BY ONLY <1>3, <1>4, <1>10, <3>1, <3>2
        <4>3. Seen(h, Invalid, Invalid, left) = m /\ Seen(h, Invalid, Invalid, right) = g[right].hi
          BY <1>3, <1>10, <1>13
        <4> QED  BY ONLY <1>3, <1>8, <1>10, <3>2, <4>1, <4>2, <4>3 DEF IsKid
      <3>3. CASE ~(q = p /\ k \in {A, B})
        <4>1. /\ k \in Kids(t[q], g[q])
              /\ q = p => k.lo # g[left].lo /\ k.lo # g[right].lo
          <5>1. CASE q = p
            BY <1>7, <2>3, <3>1, <3>3, <5>1
          <5>2. CASE q # p
            <6>1. s[q] = t[q]
              BY <1>2, <1>5, <3>1, <5>2
            <6> QED  BY <2>3, <3>1, <5>2, <6>1
          <5> QED  BY <5>1, <5>2
        <4>2. IsKid(t, top, g, Invalid, Invalid, q, k)
          BY <2>1, <3>1, <4>1
        <4>3. k.val # left /\ k.val # right /\ k.val \in DOMAIN g /\ k.val # Invalid
          BY <1>2, <1>3, <4>1, <4>2 DEF IsKid
        <4>4. g[k.val].hi = k.hi
          BY <4>2, <4>3 DEF IsKid, Seen
        <4>5. h[k.val] = g[k.val] /\ s[k.val].parent = t[k.val].parent
          BY <1>9, <1>12, <4>3
        <4> QED  BY <1>9, <1>13, <3>1, <4>2, <4>3, <4>4, <4>5, SMTT(15) DEF IsKid
      <3> QED  BY <3>2, <3>3
    <2>4. ASSUME q # top
          PROVE  /\ h[q].lev < h[top].lev
                 /\ s[q].parent \in DOMAIN h /\ ~s[s[q].parent].leaf
                 /\ \E k \in Kids(s[s[q].parent], h[s[q].parent]) : k.val = q
      <3> DEFINE P == t[q].parent
      <3>1. P \in DOMAIN g /\ ~t[P].leaf /\ h[q].lev < h[top].lev
        BY <1>1, <1>11, <2>1, <2>4
      <3>2. PICK k \in Kids(t[P], g[P]) : k.val = q
        BY <2>1, <2>4
      <3>3. s[q].parent = P
        BY <1>12
      <3> HIDE DEF P
      <3>4. P \in DOMAIN h /\ ~s[P].leaf /\ P # left /\ P # right /\ h[P] = g[P]
        BY <1>4, <1>9, <1>12, <3>1
      <3>5. CASE P = p /\ q \in {left, right}
        BY <1>7, <1>8, <3>1, <3>3, <3>4, <3>5
      <3>6. CASE P = p /\ q \notin {left, right}
        <4>1. IsKid(t, top, g, Invalid, Invalid, p, k)
          BY <1>2, <3>2, <3>6 DEF Placed
        <4>2. g[q].lo = k.lo
          BY <3>2, <4>1 DEF IsKid
        <4>3. g[q].lev + 1 = g[p].lev /\ g[q].lev \in Nat /\ g[p].lev \in Nat
          BY <1>2, <3>2, <4>1 DEF IsKid, Band
        <4>4. t[q].leaf
          <5>1. g[q].lev = 0
            BY <1>3, <1>4, <4>3
          <5> QED  BY <2>1, <5>1 DEF FitsBand
        <4>5. g[q].lo # g[left].lo /\ g[q].lo # g[right].lo
          <5>1. q \in DOMAIN g /\ q # left /\ q # right
            BY <1>9, <3>6
          <5> QED  BY ONLY <1>3, <1>4, <4>4, <5>1, SameEnd, Whole(t, top, g), g[top].lev < NewId(t),
                           t[left].leaf
        <4> QED  BY <1>7, <3>1, <3>2, <3>3, <3>4, <3>6, <4>2, <4>5
      <3>7. CASE P # p
        <4>1. s[P] = t[P]
          BY <1>2, <1>5, <3>1, <3>4, <3>7
        <4> QED  BY <3>1, <3>2, <3>3, <3>4, <4>1
      <3> QED  BY <3>5, <3>6, <3>7
    <2>5. PointsRight(s, h, q)
      <3> SUFFICES ASSUME s[q].leaf
                   PROVE  IF h[q].hi = Supremum THEN s[q].next = Invalid
                          ELSE /\ s[q].next \in DOMAIN h /\ s[s[q].next].leaf
                               /\ h[s[q].next].lo = h[q].hi
        BY DEF PointsRight
      <3> DEFINE x == t[q].next
      <3>1. s[q].next = x /\ t[q].leaf
        BY <1>12
      <3>2. IF g[q].hi = Supremum THEN x = Invalid
            ELSE x \in DOMAIN g /\ t[x].leaf /\ g[x].lo = g[q].hi
        BY <2>1, <3>1 DEF PointsRight
      <3> HIDE DEF x
      <3>3. CASE q = left
        <4>1. g[q].hi # Supremum /\ h[q].hi = m /\ m # Supremum
          BY ONLY <1>3, <1>10, <1>14, <3>3
        <4>2. x \in DOMAIN g /\ t[x].leaf /\ g[x].lo = g[right].lo
          BY <1>3, <3>2, <3>3, <4>1
        <4>3. x = right
          BY ONLY <1>3, <1>4, <4>2, SameEnd, Whole(t, top, g), g[top].lev < NewId(t), t[left].leaf
        <4> QED  BY ONLY <1>3, <1>9, <1>10, <1>12, <3>1, <3>3, <4>1, <4>2, <4>3
      <3>4. CASE q # left
        <4>1. h[q].hi = g[q].hi
          BY <1>11, <3>4
        <4>2. CASE g[q].hi = Supremum
          BY <3>1, <3>2, <4>1, <4>2
        <4>3. CASE g[q].hi # Supremum
          <5>1. x \in DOMAIN g /\ t[x].leaf /\ g[x].lo = g[q].hi
            BY <3>2, <4>3
          <5>2. x # right
            <6> SUFFICES ASSUME x = right PROVE FALSE
              OBVIOUS
            <6>1. g[q].hi = g[left].hi
              BY <1>3, <5>1
            <6> QED  BY <1>3, <3>1, <3>4, <6>1, SameEnd
          <5> QED  BY <1>9, <1>11, <1>12, <3>1, <4>1, <4>3, <5>1, <5>2
        <4> QED  BY <4>2, <4>3
      <3> QED  BY <3>3, <3>4
    <2> QED  BY <2>2, <2>3, <2>4, <2>5 DEF Placed
  <1>16. /\ DOMAIN h \subseteq DOMAIN s /\ top \in DOMAIN h
         /\ s[top].parent = Invalid /\ h[top].lo = 0
         /\ Seen(h, Invalid, Invalid, top) = Supremum /\ Divided(s, top, h, Invalid, Invalid)
    <2>1. g[top].hi = Supremum
      BY <1>1, <1>2 DEF Seen
    <2>2. Divided(s, top, h, Invalid, Invalid)
      BY DEF Divided
    <2>3. DOMAIN h \subseteq DOMAIN s /\ top \in DOMAIN h
      BY <1>1, <1>5, <1>9
    <2>4. s[top].parent = Invalid
      BY <1>1, <1>12
    <2>5. h[top] = g[top]
      BY <1>1, <1>3, <1>9
    <2>6. Seen(h, Invalid, Invalid, top) = h[top].hi
      BY <1>1, <1>13
    <2> QED  BY ONLY <1>1, <2>1, <2>2, <2>3, <2>4, <2>5, <2>6
  <1>17. Whole(s, top, h)
    BY <1>5, <1>9, <1>15, <1>16, ShapeFrom DEF Whole
  <1>18. Content(s, h) = Content(t, g)
    <2>1. ASSUME NEW e
          PROVE  (\E r \in DOMAIN g : s[r].leaf /\ e \in Entries(s[r])) <=>
                 (\E r \in DOMAIN g : t[r].leaf /\ e \in Entries(t[r]))
      <3>0. \A r \in DOMAIN g : t[r].leaf /\ r # left /\ r # right => s[r] = t[r]
        BY <1>2, <1>5
      <3>1. s[left].leaf /\ s[right].leaf
        BY <1>3, <1>4, <1>12
      <3>2. e \in Entries(s[left]) \/ e \in Entries(s[right])
              <=> e \in Entries(t[left]) \/ e \in Entries(t[right])
        BY <1>5
      <3>3. ASSUME NEW r \in DOMAIN g, s[r].leaf, e \in Entries(s[r])
            PROVE  \E x \in DOMAIN g : t[x].leaf /\ e \in Entries(t[x])
        <4>1. CASE r = left \/ r = right
          BY <1>3, <1>4, <3>2, <3>3, <4>1
        <4>2. CASE r # left /\ r # right
          BY <1>12, <3>0, <3>3, <4>2
        <4> QED  BY <4>1, <4>2
      <3>4. ASSUME NEW r \in DOMAIN g, t[r].leaf, e \in Entries(t[r])
            PROVE  \E x \in DOMAIN g : s[x].leaf /\ e \in Entries(s[x])
        <4>1. CASE r = left \/ r = right
          BY <1>3, <3>1, <3>2, <3>4, <4>1
        <4>2. CASE r # left /\ r # right
          BY <1>12, <3>0, <3>4, <4>2
        <4> QED  BY <4>1, <4>2
      <3> QED  BY <3>3, <3>4
    <2>2. \A e : e \in Content(s, h) <=> e \in Content(t, g)
      BY <1>9, <2>1, ContentIs
    <2> QED  BY <2>2
  <1>19. h[top].lev < NewId(s)
    BY <1>1, <1>5, <1>11
  <1> QED  BY <1>17, <1>18, <1>19 DEF SameContent, h

LEMMA FirstIsLeast ==
    ASSUME NEW p \in Page(Vals), Ordered(p), p.size >= 1
    PROVE  /\ p.slot[0] \in Entries(p) /\ p.slot[0].key \in Int
           /\ \A e \in Entries(p) : p.slot[0].key <= e.key
  <1>1. 0 \in Used(p) /\ p.slot[0].key \in Int
    <2>1. 0 \in Used(p)
      BY PageType
    <2> QED  BY <2>1, PageType
  <1>2. ASSUME NEW j \in Used(p) PROVE p.slot[0].key <= p.slot[j].key
    <2>1. p.slot[j].key \in Int /\ j \in Nat
      BY PageType
    <2>2. 0 < j => p.slot[0].key < p.slot[j].key
      BY <1>1 DEF Ordered
    <2> QED  BY <1>1, <2>1, <2>2
  <1> QED  BY <1>1, <1>2 DEF Entries

\* Three pages replaced.
Replaced(t, left, l, right, r, p, p2) ==
    [q \in DOMAIN t |-> IF q = left THEN l ELSE IF q = right THEN r
                        ELSE IF q = p THEN p2 ELSE t[q]]

IsReplaced(s, t, left, l, right, r, p, p2) ==
    /\ s \in Pages /\ DOMAIN s = DOMAIN t /\ NewId(s) = NewId(t)
    /\ s[left] = l /\ s[right] = r /\ s[p] = p2
    /\ \A q \in DOMAIN t : q # left /\ q # right /\ q # p => s[q] = t[q]

LEMMA ReplacedIs ==
    ASSUME NEW t \in Pages, NEW left \in DOMAIN t, NEW right \in DOMAIN t, NEW p \in DOMAIN t,
           left # right, left # p, right # p,
           NEW l \in Page(Vals), NEW r \in Page(Vals), NEW p2 \in Page(Vals)
    PROVE  IsReplaced(Replaced(t, left, l, right, r, p, p2), t, left, l, right, r, p, p2)
  <1> DEFINE s == Replaced(t, left, l, right, r, p, p2)
  <1>1. PICK n \in Nat : t \in [0 .. n - 1 -> Page(Vals)]
    BY DEF Pages
  <1>2. DOMAIN s = DOMAIN t /\ s \in [0 .. n - 1 -> Page(Vals)]
    BY <1>1 DEF Replaced
  <1>3. s \in Pages /\ NewId(s) = NewId(t)
    BY <1>1, <1>2 DEF Pages, NewId
  <1>4. /\ s[left] = l /\ s[right] = r /\ s[p] = p2
        /\ \A q \in DOMAIN t : q # left /\ q # right /\ q # p => s[q] = t[q]
    BY DEF Replaced
  <1> QED  BY <1>2, <1>3, <1>4 DEF IsReplaced

\* The leaves l and r, where r is not empty, take the place of two neighbours.
LEMMA ResharedFrom ==
    ASSUME NEW t, NEW top, NEW g, Whole(t, top, g),
           NEW p \in DOMAIN g, ~t[p].leaf, NEW i \in Used(t[p]), i + 1 \in Used(t[p]),
           NEW left, left = t[p].slot[i].val, NEW right, right = t[p].slot[i + 1].val,
           t[left].leaf, NEW l \in Page(Vals), NEW r \in Page(Vals),
           SameHeader(t[left], l), SameHeader(t[right], r), Ordered(l), Ordered(r),
           Entries(l) \cup Entries(r) = Entries(t[left]) \cup Entries(t[right]),
           Precedes(l, r), r.size >= 1, g[left].lo < r.slot[0].key
    PROVE  LET m == r.slot[0].key
               s == Replaced(t, left, l, right, r, p, [t[p] EXCEPT !.slot[i + 1].key = m])
           IN  Reshared(t, s, g, left, right, p, i, m)
  <1> DEFINE m == r.slot[0].key
             j == i + 1
             p2 == [t[p] EXCEPT !.slot[j].key = m]
             s == Replaced(t, left, l, right, r, p, p2)
  <1>1. /\ t \in Pages /\ DOMAIN g \subseteq DOMAIN t
        /\ \A q \in DOMAIN g : /\ t[q] \in Page(Vals) /\ g[q] \in Band /\ FitsBand(t[q], g[q])
    BY WholeIs
  <1>2. /\ left \in DOMAIN g /\ right \in DOMAIN g /\ left # right /\ left # p /\ right # p
        /\ g[left].lev = g[right].lev /\ g[left].hi = g[right].lo
    <2>1. NextTo(t, p, i, left, right)
      BY DEF NextTo
    <2>2. Beside(t, top, g, p, i, left, right)
      BY <2>1, BesideIs
    <2> QED  BY ONLY <2>2 DEF Beside
  <1>3. /\ g[left].lo \in Nat /\ g[left].hi \in Nat /\ g[right].hi \in Nat
        /\ g[left].hi < g[right].hi /\ t[right].leaf
    BY <1>1, <1>2 DEF FitsBand, Band
  <1>4. /\ r.slot[0] \in Entries(r) /\ m \in Int
        /\ \A e \in Entries(r) : m <= e.key
    BY FirstIsLeast
  <1>5. m < g[right].hi
    <2>1. r.slot[0] \in Entries(t[left]) \/ r.slot[0] \in Entries(t[right])
      BY <1>4
    <2>2. m < g[left].hi \/ m < g[right].hi
      BY <1>1, <1>2, <1>3, <2>1 DEF FitsBand
    <2> HIDE DEF m
    <2> QED  BY ONLY <1>3, <1>4, <2>2
  <1>6. m \in Nat
    <2>1. g[left].lo < m
      OBVIOUS
    <2> HIDE DEF m
    <2> QED  BY ONLY <1>3, <1>4, <2>1
  <1>7. \A e \in Entries(l) : e.key < m
    BY <1>4 DEF Precedes
  <1>8. j \in Used(t[p])
    OBVIOUS
  <1> HIDE DEF m, j
  <1>9. Rekeyed(p2, t[p], j, m)
    BY <1>1, <1>6, <1>8, RekeyedIs
  <1>10. p2 \in Page(Vals)
    BY <1>9 DEF Rekeyed
  <1> HIDE DEF p2
  <1>11. left \in DOMAIN t /\ right \in DOMAIN t /\ p \in DOMAIN t
    BY <1>1, <1>2
  <1>12. /\ s \in Pages /\ DOMAIN s = DOMAIN t /\ NewId(s) = NewId(t)
         /\ s[left] = l /\ s[right] = r /\ s[p] = p2
         /\ \A q \in DOMAIN t : q # left /\ q # right /\ q # p => s[q] = t[q]
    <2>1. IsReplaced(s, t, left, l, right, r, p, p2)
      BY <1>1, <1>2, <1>10, <1>11, ReplacedIs
    <2> QED  BY <2>1 DEF IsReplaced
  <1> HIDE DEF s
  <1>13. g[left].lo < m
    BY DEF m
  <1>14. Reshared(t, s, g, left, right, p, i, m)
    BY <1>4, <1>5, <1>6, <1>7, <1>9, <1>12, <1>13 DEF Reshared, j
  <1> QED  BY <1>14 DEF s, p2, j, m

\* The leaves a and b after an entry moved from one to the other.
Moved(l, r, a, b) ==
    /\ l \in Page(Vals) /\ SameHeader(a, l) /\ Ordered(l)
    /\ r \in Page(Vals) /\ SameHeader(b, r) /\ Ordered(r)
    /\ Entries(l) \cup Entries(r) = Entries(a) \cup Entries(b)
    /\ Precedes(l, r) /\ Entries(l) # {} /\ r.size >= 1

LEMMA FirstMoved ==
    ASSUME NEW a \in Page(Vals), NEW b \in Page(Vals), Ordered(a), Ordered(b), Precedes(a, b),
           a.size <= MaxSlot, b.size > 1
    PROVE  Moved(LeafMoveFirstToEndOf(b, a)[2], LeafMoveFirstToEndOf(b, a)[1], a, b)
  <1> DEFINE r == LeafMoveFirstToEndOf(b, a)[1]
             l == LeafMoveFirstToEndOf(b, a)[2]
             e0 == b.slot[0]
             d == DropAt(b, 0)
  <1>1. b.size \in Nat /\ b.size > 0 /\ 0 \in Used(b)
    <2>1. b.size \in Nat
      BY PageType
    <2> QED  BY <2>1 DEF Used
  <1>2. /\ r \in Page(Vals) /\ SameHeader(b, r) /\ Ordered(r)
        /\ l \in Page(Vals) /\ SameHeader(a, l) /\ Ordered(l)
        /\ Entries(l) = Entries(a) \cup {e0} /\ Entries(r) = Entries(b) \ {e0}
        /\ Precedes(l, r)
    BY <1>1, LeafMoveFirstCorrect
  <1>3. r = Trimmed(d)
    BY DEF LeafMoveFirstToEndOf
  <1>4. d.size = b.size - 1 /\ d \in Page(Vals)
    BY <1>1, DropAtIs
  <1>5. e0 \in Entries(b)
    BY <1>1 DEF Entries
  <1> HIDE DEF d, r, l, e0
  <1>6. Trimmed(d).size = d.size
    BY <1>4 DEF Trimmed, Page
  <1>7. r.size >= 1
    BY <1>1, <1>3, <1>4, <1>6
  <1>8. Entries(l) # {} /\ Entries(l) \cup Entries(r) = Entries(a) \cup Entries(b)
    BY <1>2, <1>5
  <1> QED  BY <1>2, <1>7, <1>8 DEF Moved, l, r

LEMMA LastMoved ==
    ASSUME NEW a \in Page(Vals), NEW b \in Page(Vals), Ordered(a), Ordered(b), Precedes(a, b),
           b.size <= MaxSlot, a.size > 1
    PROVE  Moved(LeafMoveLastToFrontOf(a, b)[1], LeafMoveLastToFrontOf(a, b)[2], a, b)
  <1> DEFINE l == LeafMoveLastToFrontOf(a, b)[1]
             r == LeafMoveLastToFrontOf(a, b)[2]
             n == a.size - 1
             e0 == a.slot[n]
  <1>1. /\ a.size \in Nat /\ b.size \in Nat /\ 0 \in Used(a) /\ n \in Used(a) /\ 0 < n
        /\ a.size > 0 /\ 0 \in 0 .. b.size
    <2>1. a.size \in Nat /\ b.size \in Nat
      BY PageType
    <2> QED  BY <2>1 DEF Used
  <1>2. /\ l \in Page(Vals) /\ SameHeader(a, l) /\ Ordered(l)
        /\ r \in Page(Vals) /\ SameHeader(b, r) /\ Ordered(r)
        /\ Entries(l) = Entries(a) \ {e0} /\ Entries(r) = Entries(b) \cup {e0}
        /\ Precedes(l, r)
    BY <1>1, LeafMoveLastCorrect
  <1>3. r = PutAt(b, 0, e0)
    BY DEF LeafMoveLastToFrontOf
  <1> HIDE DEF n
  <1>4. e0 \in Entry(Vals) /\ e0.key \in Int /\ e0 \in Entries(a) /\ a.slot[0] \in Entries(a)
        /\ a.slot[0].key \in Int
    BY <1>1, PageType DEF Entries
  <1>5. a.slot[0] # e0
    <2>1. a.slot[0].key < e0.key
      BY <1>1 DEF Ordered
    <2> HIDE DEF e0
    <2> QED  BY <1>4, <2>1
  <1> HIDE DEF r, l, e0
  <1>6. PutAt(b, 0, e0).size = b.size + 1
    BY <1>1, <1>4, PutAtIs
  <1>7. r.size >= 1
    BY <1>1, <1>3, <1>6
  <1>8. Entries(l) # {} /\ Entries(l) \cup Entries(r) = Entries(a) \cup Entries(b)
    BY <1>2, <1>4, <1>5
  <1> QED  BY <1>2, <1>7, <1>8 DEF Moved, l, r

\* Two neighbours below page p, both leaves.
LeafPair(t, g, p, left, right) ==
    /\ left \in DOMAIN t /\ right \in DOMAIN t /\ p \in DOMAIN t
    /\ left # right /\ left # p /\ right # p
    /\ t[left] \in Page(Vals) /\ t[right] \in Page(Vals) /\ t[right].leaf
    /\ Ordered(t[left]) /\ Ordered(t[right]) /\ Precedes(t[left], t[right])
    /\ g[left].lo \in Nat /\ g[left].lo < g[right].lo /\ g[right].lo \in Nat
    /\ \A e \in Entries(t[left]) \cup Entries(t[right]) :
          e.key \in Int /\ g[left].lo <= e.key

LEMMA LeafNeighbours ==
    ASSUME NEW t, NEW top, NEW g, Whole(t, top, g), NEW p \in DOMAIN g, NEW i,
           NEW left, NEW right, NextTo(t, p, i, left, right), t[left].leaf
    PROVE  LeafPair(t, g, p, left, right)
  <1>1. /\ DOMAIN g \subseteq DOMAIN t
        /\ \A q \in DOMAIN g : t[q] \in Page(Vals) /\ g[q] \in Band /\ FitsBand(t[q], g[q])
    BY WholeIs
  <1>2. /\ left \in DOMAIN g /\ right \in DOMAIN g /\ left # right /\ left # p /\ right # p
        /\ g[left].lev = g[right].lev /\ g[left].hi = g[right].lo
    <2>1. Beside(t, top, g, p, i, left, right)
      BY BesideIs
    <2> QED  BY ONLY <2>1 DEF Beside
  <1>3. /\ g[left].lo \in Nat /\ g[right].lo \in Nat /\ g[left].lo < g[right].lo
        /\ t[right].leaf /\ Ordered(t[left]) /\ Ordered(t[right])
        /\ \A e \in Entries(t[left]) : g[left].lo <= e.key
        /\ \A e \in Entries(t[right]) : g[right].lo <= e.key
    BY <1>1, <1>2 DEF FitsBand, Band
  <1>4. Precedes(t[left], t[right])
    <2>1. g[left].hi <= g[right].lo
      BY ONLY <1>2, <1>3
    <2> QED  BY <1>1, <1>2, <1>3, <2>1, LeavesPrecede
  <1>5. ASSUME NEW e \in Entries(t[left]) \cup Entries(t[right])
        PROVE  e.key \in Int /\ g[left].lo <= e.key
    <2>1. e \in Entry(Vals)
      BY <1>1, <1>2, PageType
    <2>2. e.key \in Int
      BY <2>1 DEF Entry
    <2>3. g[left].lo <= e.key \/ g[right].lo <= e.key
      BY <1>3
    <2> QED  BY ONLY <1>3, <2>2, <2>3
  <1> QED  BY <1>1, <1>2, <1>3, <1>4, <1>5 DEF LeafPair

\* Such leaves in the place of two neighbours.
LEMMA MovedReshares ==
    ASSUME NEW t, NEW top, NEW g, Whole(t, top, g),
           NEW p \in DOMAIN g, ~t[p].leaf, NEW i \in Used(t[p]), i + 1 \in Used(t[p]),
           NEW left, left = t[p].slot[i].val, NEW right, right = t[p].slot[i + 1].val,
           t[left].leaf, NEW l, NEW r, Moved(l, r, t[left], t[right])
    PROVE  Reshared(t, Replaced(t, left, l, right, r, p,
                                [t[p] EXCEPT !.slot[i + 1].key = r.slot[0].key]),
                    g, left, right, p, i, r.slot[0].key)
  <1>1. /\ l \in Page(Vals) /\ SameHeader(t[left], l) /\ Ordered(l)
        /\ r \in Page(Vals) /\ SameHeader(t[right], r) /\ Ordered(r)
        /\ Entries(l) \cup Entries(r) = Entries(t[left]) \cup Entries(t[right])
        /\ Precedes(l, r) /\ Entries(l) # {} /\ r.size >= 1
    BY DEF Moved
  <1>2. PICK e \in Entries(l) : TRUE
    BY <1>1
  <1>3. e.key \in Int /\ g[left].lo <= e.key /\ g[left].lo \in Nat
    <2>1. NextTo(t, p, i, left, right)
      BY DEF NextTo
    <2>2. LeafPair(t, g, p, left, right)
      BY <2>1, LeafNeighbours
    <2>3. e \in Entries(t[left]) \cup Entries(t[right])
      BY <1>1, <1>2
    <2> QED  BY ONLY <2>2, <2>3 DEF LeafPair
  <1>4. r.slot[0] \in Entries(r) /\ r.slot[0].key \in Int
    BY <1>1, FirstIsLeast
  <1>5. e.key < r.slot[0].key
    BY <1>1, <1>2, <1>4 DEF Precedes
  <1>6. g[left].lo < r.slot[0].key
    BY ONLY <1>3, <1>4, <1>5
  <1> QED  BY <1>1, <1>6, ResharedFrom

\* The first entry of the right neighbour moves to the left leaf.
LEMMA BorrowFirst ==
    ASSUME NEW t, NEW top, NEW g, Whole(t, top, g),
           NEW p \in DOMAIN g, ~t[p].leaf, NEW i \in Used(t[p]), i + 1 \in Used(t[p]),
           NEW left, left = t[p].slot[i].val, NEW right, right = t[p].slot[i + 1].val,
           t[left].leaf, t[left].size <= MaxSlot, t[right].size > 1
    PROVE  IsReshared(t, RedistributeBody(t, right, left, p, i, FALSE), g, left, right, p, i)
  <1> DEFINE r == LeafMoveFirstToEndOf(t[right], t[left])[1]
             l == LeafMoveFirstToEndOf(t[right], t[left])[2]
             p2 == [t[p] EXCEPT !.slot[i + 1].key = r.slot[0].key]
             t2 == [t EXCEPT ![right] = r, ![left] = l]
  <1>1. /\ left \in DOMAIN t /\ right \in DOMAIN t /\ p \in DOMAIN t
        /\ left # right /\ left # p /\ right # p
        /\ t[left] \in Page(Vals) /\ t[right] \in Page(Vals) /\ t[right].leaf
        /\ Ordered(t[left]) /\ Ordered(t[right]) /\ Precedes(t[left], t[right])
    <2>1. NextTo(t, p, i, left, right)
      BY DEF NextTo
    <2>2. LeafPair(t, g, p, left, right)
      BY <2>1, LeafNeighbours
    <2> QED  BY ONLY <2>2 DEF LeafPair
  <1>2. Moved(l, r, t[left], t[right])
    BY <1>1, FirstMoved
  <1>3. RedistributeBody(t, right, left, p, i, FALSE) = [t2 EXCEPT ![p].slot[i + 1].key = r.slot[0].key]
    BY DEF RedistributeBody
  <1> HIDE DEF l, r
  <1>4. t2[p] = t[p] /\ DOMAIN t2 = DOMAIN t
    BY ONLY <1>1
  <1>5. [t2 EXCEPT ![p].slot[i + 1].key = r.slot[0].key] = [t2 EXCEPT ![p] = p2]
    <2> HIDE DEF t2
    <2> QED  BY ONLY <1>4
  <1> HIDE DEF p2
  <1>6. [t2 EXCEPT ![p] = p2] = Replaced(t, left, l, right, r, p, p2)
    BY ONLY <1>1 DEF Replaced
  <1>7. Reshared(t, Replaced(t, left, l, right, r, p, p2), g, left, right, p, i, r.slot[0].key)
    BY <1>2, MovedReshares DEF p2
  <1> DEFINE s == RedistributeBody(t, right, left, p, i, FALSE)
  <1>8. s = Replaced(t, left, l, right, r, p, p2)
    BY ONLY <1>3, <1>5, <1>6
  <1> HIDE DEF s
  <1>9. Reshared(t, s, g, left, right, p, i, r.slot[0].key)
    BY ONLY <1>7, <1>8
  <1> QED  BY ONLY <1>9 DEF s, IsReshared

\* The last entry of the left neighbour moves to the right leaf.
LEMMA BorrowLast ==
    ASSUME NEW t, NEW top, NEW g, Whole(t, top, g),
           NEW p \in DOMAIN g, ~t[p].leaf, NEW i \in Used(t[p]), i + 1 \in Used(t[p]),
           NEW left, left = t[p].slot[i].val, NEW right, right = t[p].slot[i + 1].val,
           t[left].leaf, t[right].size <= MaxSlot, t[left].size > 1
    PROVE  IsReshared(t, RedistributeBody(t, left, right, p, i + 1, TRUE), g, left, right, p, i)
  <1> DEFINE l == LeafMoveLastToFrontOf(t[left], t[right])[1]
             r == LeafMoveLastToFrontOf(t[left], t[right])[2]
             p2 == [t[p] EXCEPT !.slot[i + 1].key = r.slot[0].key]
             t2 == [t EXCEPT ![left] = l, ![right] = r]
  <1>1. /\ left \in DOMAIN t /\ right \in DOMAIN t /\ p \in DOMAIN t
        /\ left # right /\ left # p /\ right # p
        /\ t[left] \in Page(Vals) /\ t[right] \in Page(Vals) /\ t[right].leaf
        /\ Ordered(t[left]) /\ Ordered(t[right]) /\ Precedes(t[left], t[right])
    <2>1. NextTo(t, p, i, left, right)
      BY DEF NextTo
    <2>2. LeafPair(t, g, p, left, right)
      BY <2>1, LeafNeighbours
    <2> QED  BY ONLY <2>2 DEF LeafPair
  <1>2. Moved(l, r, t[left], t[right])
    BY <1>1, LastMoved
  <1>3. RedistributeBody(t, left, right, p, i + 1, TRUE) = [t2 EXCEPT ![p].slot[i + 1].key = r.slot[0].key]
    BY <1>1 DEF RedistributeBody
  <1> HIDE DEF l, r
  <1>4. t2[p] = t[p] /\ DOMAIN t2 = DOMAIN t
    BY ONLY <1>1
  <1>5. [t2 EXCEPT ![p].slot[i + 1].key = r.slot[0].key] = [t2 EXCEPT ![p] = p2]
    <2> HIDE DEF t2
    <2> QED  BY ONLY <1>4
  <1> HIDE DEF p2
  <1>6. [t2 EXCEPT ![p] = p2] = Replaced(t, left, l, right, r, p, p2)
    BY ONLY <1>1 DEF Replaced
  <1>7. Reshared(t, Replaced(t, left, l, right, r, p, p2), g, left, right, p, i, r.slot[0].key)
    BY <1>2, MovedReshares DEF p2
  <1> DEFINE s == RedistributeBody(t, left, right, p, i + 1, TRUE)
  <1>8. s = Replaced(t, left, l, right, r, p, p2)
    BY ONLY <1>3, <1>5, <1>6
  <1> HIDE DEF s
  <1>9. Reshared(t, s, g, left, right, p, i, r.slot[0].key)
    BY ONLY <1>7, <1>8
  <1> QED  BY ONLY <1>9 DEF s, IsReshared

SameLookups(s, t, top, k) ==
    LeafLookup(s[FindLeaf(s, top, k)], k) = LeafLookup(t[FindLeaf(t, top, k)], k)

\* Either move leaves the lookups as they were.
LEMMA LookupsKept ==
    ASSUME NEW t, NEW top, NEW g, Whole(t, top, g), g[top].lev < NewId(t),
           NEW p \in DOMAIN g, ~t[p].leaf, NEW i \in Used(t[p]), i + 1 \in Used(t[p]),
           NEW left, left = t[p].slot[i].val, NEW right, right = t[p].slot[i + 1].val,
           t[left].leaf, NEW s, IsReshared(t, s, g, left, right, p, i), NEW k \in Keys
    PROVE  SameLookups(s, t, top, k)
  <1>1. PICK m : Reshared(t, s, g, left, right, p, i, m)
    BY DEF IsReshared
  <1> DEFINE h == ResharedBand(g, left, right, m)
  <1>2. SameContent(t, g, s, top, h)
    BY <1>1, ResharedIs
  <1> HIDE DEF h
  <1>3. LeafLookup(s[FindLeaf(s, top, k)], k) = ValuesOf(Content(s, h), k)
    BY <1>2, LookupIs DEF SameContent
  <1>4. LeafLookup(t[FindLeaf(t, top, k)], k) = ValuesOf(Content(t, g), k)
    BY LookupIs
  <1> QED  BY <1>2, <1>3, <1>4 DEF SameContent, SameLookups

LEMMA FirstKeeps ==
    ASSUME NEW t, NEW top, NEW g, Whole(t, top, g), g[top].lev < NewId(t),
           NEW p \in DOMAIN g, ~t[p].leaf, NEW i \in Used(t[p]), i + 1 \in Used(t[p]),
           NEW left, left = t[p].slot[i].val, NEW right, right = t[p].slot[i + 1].val,
           t[left].leaf, t[left].size <= MaxSlot, t[right].size > 1, NEW k \in Keys
    PROVE  SameLookups(RedistributeBody(t, right, left, p, i, FALSE), t, top, k)
  <1> DEFINE s == RedistributeBody(t, right, left, p, i, FALSE)
  <1>1. IsReshared(t, s, g, left, right, p, i)
    BY BorrowFirst
  <1> HIDE DEF s
  <1>2. SameLookups(s, t, top, k)
    BY <1>1, LookupsKept
  <1> QED  BY <1>2 DEF s

LEMMA LastKeeps ==
    ASSUME NEW t, NEW top, NEW g, Whole(t, top, g), g[top].lev < NewId(t),
           NEW p \in DOMAIN g, ~t[p].leaf, NEW i \in Used(t[p]), i + 1 \in Used(t[p]),
           NEW left, left = t[p].slot[i].val, NEW right, right = t[p].slot[i + 1].val,
           t[right].leaf, t[right].size <= MaxSlot, t[left].size > 1, NEW k \in Keys
    PROVE  SameLookups(RedistributeBody(t, left, right, p, i + 1, TRUE), t, top, k)
  <1> DEFINE s == RedistributeBody(t, left, right, p, i + 1, TRUE)
  <1>1. t[left].leaf
    <2>1. g[left].lev = g[right].lev /\ left \in DOMAIN g /\ right \in DOMAIN g
      <3>1. NextTo(t, p, i, left, right)
        BY DEF NextTo
      <3>2. Beside(t, top, g, p, i, left, right)
        BY <3>1, BesideIs
      <3> QED  BY ONLY <3>2 DEF Beside
    <2>2. FitsBand(t[left], g[left]) /\ FitsBand(t[right], g[right])
      BY <2>1, WholeIs
    <2> QED  BY <2>1, <2>2 DEF FitsBand
  <1>2. IsReshared(t, s, g, left, right, p, i)
    BY <1>1, BorrowLast
  <1> HIDE DEF s
  <1>3. SameLookups(s, t, top, k)
    BY <1>1, <1>2, LookupsKept
  <1> QED  BY <1>3 DEF s

LEMMA MovesAre ==
    ASSUME TreeInv
    PROVE  LeafMovesKeepLookups
  <1> SUFFICES ASSUME NEW q \in Reachable \ {root}, pg[q].leaf,
                      NEW p, p = pg[q].parent, NEW i, i = ValueIndex(pg[p], q),
                      NEW j \in {i - 1, i + 1} \cap 0 .. pg[p].size - 1,
                      NEW nb, nb = pg[p].slot[j].val, pg[nb].size > 1, NEW k \in Keys
               PROVE  GetValueIn(RedistributeBody(pg, nb, q, p, i, j < i), k) = GetValue(k)
    BY DEF LeafMovesKeepLookups
  <1>1. root # Invalid
    BY DEF Reachable, IsEmpty
  <1>2. PICK g : Tree(pg, root, g)
    BY <1>1, TreeOf
  <1>3. Whole(pg, root, g) /\ g[root].lev < NewId(pg) /\ Sized(pg, g)
    BY <1>2 DEF Tree
  <1>4. q \in DOMAIN g /\ q # root /\ q # Invalid
    BY <1>1, <1>3, ReachableIs, WholeIs
  <1>5. p \in DOMAIN g /\ ~pg[p].leaf /\ \E l \in Used(pg[p]) : pg[p].slot[l].val = q
    <2>1. PointsUp(pg, root, g, Invalid, q)
      BY <1>3, <1>4, WholeIs
    <2> QED  BY <1>4, <2>1 DEF PointsUp
  <1>6. pg[p] \in Page(Vals)
    BY <1>3, <1>5, WholeIs
  <1>7. i \in Used(pg[p]) /\ pg[p].slot[i].val = q
    BY <1>5, <1>6, ValueIndexIs
  <1>8. i \in Nat /\ j \in Used(pg[p]) /\ (j = i - 1 \/ j = i + 1) /\ j \in Nat
    <2>1. j \in Used(pg[p]) /\ (j = i - 1 \/ j = i + 1)
      BY DEF Used
    <2> QED  BY <1>6, <1>7, <2>1, PageType
  <1>9. pg[q].size <= MaxSlot
    <2>1. pg[q].size <= pg[q].max /\ pg[q].max = leaf_max_size
      BY <1>3, <1>4, WholeIs DEF Sized, FitsBand
    <2>2. leaf_max_size \in Int /\ leaf_max_size <= MaxSlot
      BY MaxSlotAssumption DEF TreeInv, GoodSizes
    <2>3. pg[q].size \in Nat
      BY <1>3, <1>4, WholeIs, PageType
    <2> QED  BY <2>1, <2>2, <2>3, MaxSlotAssumption
  <1> DEFINE s == RedistributeBody(pg, nb, q, p, i, j < i)
  <1>10. SameLookups(s, pg, root, k)
    <2>1. CASE j = i + 1
      <3>1. s = RedistributeBody(pg, nb, q, p, i, FALSE)
        <4>1. (j < i) = FALSE
          BY <1>8, <2>1
        <4> QED  BY <4>1
      <3>2. i + 1 \in Used(pg[p]) /\ nb = pg[p].slot[i + 1].val
        BY <1>8, <2>1
      <3>3. pg[q].leaf /\ pg[nb].size > 1 /\ k \in Keys
        OBVIOUS
      <3> HIDE DEF s
      <3> QED  BY ONLY <1>3, <1>5, <1>7, <1>9, <3>1, <3>2, <3>3, FirstKeeps
    <2>2. CASE j = i - 1
      <3>1. j + 1 = i
        BY <1>8, <2>2
      <3>2. s = RedistributeBody(pg, nb, q, p, j + 1, TRUE)
        <4>1. (j < i) = TRUE
          BY <1>8, <2>2
        <4> QED  BY <3>1, <4>1
      <3>3. j + 1 \in Used(pg[p]) /\ q = pg[p].slot[j + 1].val
        BY <1>7, <3>1
      <3>4. pg[q].leaf /\ pg[nb].size > 1 /\ k \in Keys /\ nb = pg[p].slot[j].val
        OBVIOUS
      <3> HIDE DEF s
      <3> QED  BY ONLY <1>3, <1>5, <1>8, <1>9, <3>2, <3>3, <3>4, LastKeeps
    <2> QED  BY <1>8, <2>1, <2>2
  <1> HIDE DEF s
  <1>11. GetValueIn(s, k) = GetValueIn(pg, k)
    BY <1>1, <1>10 DEF GetValueIn, IsEmpty, SameLookups
  <1> QED  BY <1>11 DEF s, GetValue

(***************************************************************************)
(* Where Redistribute gets stuck on a leaf, the move it was about to make  *)
(* from either neighbour, with the separator it would have written, would  *)
(* have left every lookup as it was.                                       *)
(***************************************************************************)
THEOREM LeafMovesCorrect ==
    ASSUME Usable
    PROVE  Spec => []LeafMovesKeepLookups
  <1>1. TreeInv => LeafMovesKeepLookups
    BY MovesAre
  <1> QED  BY <1>1, TreeInvariance, PTL
=============================================================================
