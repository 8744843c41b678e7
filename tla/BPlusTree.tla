----------------------------- MODULE BPlusTree -----------------------------
(***************************************************************************)
(* The B+ tree index.  Operations run one at a time, each a function from  *)
(* the pages and the root id to the pages and the root id.  The descents   *)
(* are loops in the code, and the recursion of the code is always in tail  *)
(* position: each is a function from the number of rounds to the state     *)
(* after them, taken for as many rounds as there are pages, which no path  *)
(* exceeds.  The buffer pool is taken to have a frame for every page an    *)
(* operation holds.  Redistribute asks again for the parent's write latch  *)
(* that its caller holds: the request never succeeds (`Relock`) and the    *)
(* operation ends there, by an exception or by waiting forever.            *)
(* RedistributeBody is what it would do with the latch.                    *)
(***************************************************************************)
EXTENDS BPlusTreePage, Sequences

CONSTANTS
    Keys, RIDs,
    CtorArgs,               \* the <<leaf_max_size, internal_max_size>> tried
    PageSize,               \* ONEBASE_PAGE_SIZE
    MaxPages,               \* bound: pages ever allocated
    RemoveDepth             \* bound: Remove is called when the leaves are at most so
                            \* deep below the root, which depends on the maximum sizes

ASSUME TreeConstants ==
    /\ Keys \subseteq Nat \ {0} /\ \E m \in Keys : \A k \in Keys : k <= m
    /\ CtorArgs \subseteq Nat \X Nat
    /\ {PageSize, MaxPages} \subseteq Nat

VARIABLES
    pg,                     \* pages by id, 0 .. n - 1, never freed
    root,                   \* root_page_id_
    leaf_max_size, internal_max_size,
    outcome                 \* how the last operation ended: "ok", "threw", "hung"

vars == <<pg, root, leaf_max_size, internal_max_size, outcome>>
sizes == <<leaf_max_size, internal_max_size>>

HeaderSize == 16            \* sizeof(BPlusTreePage); a leaf adds next_page_id_

\* The constructor: a size of 0 asks for as many entries as fit in a page.
MaxSizes(args) ==
    << IF args[1] # 0 THEN args[1] ELSE (PageSize - HeaderSize - 4) \div 12,
       IF args[2] # 0 THEN args[2] ELSE (PageSize - HeaderSize) \div 8 >>

Construct(args) ==
    leaf_max_size = MaxSizes(args)[1] /\ internal_max_size = MaxSizes(args)[2]

IsEmpty == root = Invalid
NewId(t) == Cardinality(DOMAIN t)
AddPage(t, p) == [q \in DOMAIN t \cup {NewId(t)} |-> IF q \in DOMAIN t THEN t[q] ELSE p]
-----------------------------------------------------------------------------
\* Descents.  t is the function from page ids to pages.
FindLeaf(t, top, k) ==
    LET below == [q \in DOMAIN t |->
                     IF t[q].leaf THEN q ELSE t[q].slot[ChildIndex(t[q], k)].val]
        page[n \in Nat] == IF n = 0 THEN top ELSE below[page[n - 1]]
    IN  page[NewId(t)]

\* The page reached by going n times to the first child.
Leftmost(t, top, n) ==
    LET below == [q \in DOMAIN t |-> IF t[q].leaf THEN q ELSE t[q].slot[0].val]
        page[m \in Nat] == IF m = 0 THEN top ELSE below[page[m - 1]]
    IN  page[n]

FirstLeaf(t, top) == Leftmost(t, top, NewId(t))

\* The record ids GetValue(k) pushes, none or one, when the pages are t.
GetValueIn(t, k) ==
    IF IsEmpty THEN {} ELSE UNION {LeafLookup(t[q], k) : q \in {FindLeaf(t, root, k)}}

GetValue(k) == GetValueIn(pg, k)

\* An iterator is a page id and an index into that leaf.
End == <<Invalid, 0>>
Begin == IF IsEmpty THEN End ELSE <<FirstLeaf(pg, root), 0>>

BeginAt(k) ==
    IF IsEmpty THEN End
    ELSE LET q == FindLeaf(pg, root, k)
             i == KeyIndex(pg[q], k)
         IN  IF i >= pg[q].size THEN End ELSE <<q, i>>

Deref(it) == pg[it[1]].slot[it[2]]

Advance(it) ==
    LET p == pg[it[1]]
    IN  IF it[2] + 1 < p.size THEN <<it[1], it[2] + 1>>
        ELSE <<p.next, 0>>

\* A round of the loop that collects the keys from an iterator to End().
Collect(s) ==
    IF s.it = End THEN s
    ELSE [it |-> Advance(s.it), keys |-> Append(s.keys, Deref(s.it).key)]

Supremum == 1 + CHOOSE m \in Keys : \A k \in Keys : k <= m

\* A loop over ascending keys ends before the supremum of the keys.
KeysFrom(it) ==
    LET scan[n \in Nat] == IF n = 0 THEN {[it |-> it, keys |-> <<>>]}
                           ELSE {Collect(s) : s \in scan[n - 1]}
    IN  (CHOOSE s \in scan[Supremum] : TRUE).keys
-----------------------------------------------------------------------------
\* Insertion.  s is [pg, root].
\* Mutant: the children that moved keep their old parent.
SetParentsNot(t, node, parent) == t

SetParents(t, node, parent) ==
    [q \in DOMAIN t |->
        IF \E i \in 0 .. node.size - 1 : node.slot[i].val = q
        THEN [t[q] EXCEPT !.parent = parent] ELSE t[q]]

\* The root page `old` has been split into `old` and `new` around key k.
GrowRoot(t, old, k, new) ==
    LET r == NewId(t)
        top == PopulateNewRoot(InitPage(FALSE, internal_max_size), old, k, new)
    IN  [pg |-> AddPage([t EXCEPT ![old].parent = r, ![new].parent = r], top), root |-> r]

\* One call of InsertIntoParent.  u has its arguments and the tree, and p is
\* Invalid when there is no further call to make.
InsertCall(u) ==
    LET par == InsertNodeAfter(u.pg[u.p], u.old, u.key, u.new)
        np == NewId(u.pg)
        middle == par.slot[par.size \div 2].key
        half == InternalMoveHalfTo(par, InitPage(FALSE, internal_max_size))
        moved == SetParents(u.pg, half[2], np)
        split == AddPage([moved EXCEPT ![u.p] = half[1]], [half[2] EXCEPT !.parent = par.parent])
        grown == GrowRoot(split, u.p, middle, np)
    IN  IF u.p = Invalid THEN u
        ELSE IF par.size <= par.max THEN [u EXCEPT !.pg[u.p] = par, !.p = Invalid]
        ELSE IF IsRootPage(par)
             THEN [u EXCEPT !.pg = grown.pg, !.root = grown.root, !.p = Invalid]
        ELSE [u EXCEPT !.pg = split, !.p = par.parent, !.old = u.p, !.key = middle, !.new = np]

InsertIntoParent(s, p, old, k, new) ==
    LET call[n \in Nat] ==
            IF n = 0
            THEN {[pg |-> s.pg, root |-> s.root, p |-> p, old |-> old, key |-> k, new |-> new]}
            ELSE {InsertCall(u) : u \in call[n - 1]}
    IN  CHOOSE u \in call[NewId(s.pg)] : TRUE

InsertInto(s, k, v) ==
    LET q == FindLeaf(s.pg, s.root, k)
        leaf == LeafInsert(s.pg[q], k, v)
        new == NewId(s.pg)
        half == LeafMoveHalfTo(leaf, InitPage(TRUE, leaf_max_size))
        split == AddPage([s.pg EXCEPT ![q] = [half[1] EXCEPT !.next = new]],
                         [half[2] EXCEPT !.next = leaf.next, !.parent = leaf.parent])
        middle == half[2].slot[0].key
    IN  IF leaf.size <= leaf.max THEN [s EXCEPT !.pg[q] = leaf]
        ELSE IF IsRootPage(leaf) THEN GrowRoot(split, q, middle, new)
        ELSE InsertIntoParent([s EXCEPT !.pg = split], leaf.parent, q, middle, new)

Insert(k, v) ==
    /\ outcome # "hung"
    /\ LET n == NewId(pg)
           leaf == LeafInsert(InitPage(TRUE, leaf_max_size), k, v)
           s == IF IsEmpty THEN [pg |-> AddPage(pg, leaf), root |-> n]
                ELSE InsertInto([pg |-> pg, root |-> root], k, v)
       IN  /\ NewId(s.pg) <= MaxPages
           /\ pg' = s.pg /\ root' = s.root
    /\ outcome' = "ok"
    /\ UNCHANGED sizes
-----------------------------------------------------------------------------
\* Removal.
AdjustRoot(s, q) ==
    LET old == s.pg[q]
        child == old.slot[0].val
    IN  IF old.leaf THEN (IF old.size = 0 THEN [s EXCEPT !.root = Invalid] ELSE s)
        ELSE IF old.size # 1 THEN s
        ELSE [s EXCEPT !.root = child, !.pg[q].size = 0, !.pg[child].parent = Invalid]

\* Mutant: the merged leaf keeps its old successor.
CoalesceChainKept(t, left, right, p, i) ==
    LET both == LeafMoveAllTo(t[right], t[left])
    IN  [t EXCEPT ![right] = both[1], ![left] = both[2], ![p] = DropAt(t[p], i + 1)]

\* Page `right` moves into its left neighbour, child i of page p.
Coalesce(t, left, right, p, i) ==
    LET middle == t[p].slot[i + 1].key
        both == IF t[right].leaf THEN LeafMoveAllTo(t[right], t[left])
                ELSE InternalMoveAllTo(t[right], t[left], middle)
        merged == [t EXCEPT ![right] = both[1], ![left] = both[2]]
        linked == IF t[right].leaf THEN [merged EXCEPT ![left].next = t[right].next]
                  ELSE SetParents(merged, both[2], t[left].parent)
    IN  [linked EXCEPT ![p] = DropAt(linked[p], i + 1)]

\* Mutant: a borrowed leaf entry leaves the separator as it was.
RedistributeKeepsKey(t, nb, q, p, i, isPredecessor) ==
    LET moved == IF isPredecessor THEN LeafMoveLastToFrontOf(t[nb], t[q])
                                  ELSE LeafMoveFirstToEndOf(t[nb], t[q])
    IN  [t EXCEPT ![nb] = moved[1], ![q] = moved[2]]

\* What Redistribute would do with the latch it waits for: one entry moves
\* from the neighbour nb to node q, child i of page p.
RedistributeBody(t, nb, q, p, i, isPredecessor) ==
    LET sep == IF isPredecessor THEN i ELSE i + 1
        middle == t[p].slot[sep].key
        moved == IF t[q].leaf
                 THEN IF isPredecessor THEN LeafMoveLastToFrontOf(t[nb], t[q])
                                       ELSE LeafMoveFirstToEndOf(t[nb], t[q])
                 ELSE IF isPredecessor THEN InternalMoveLastToFrontOf(t[nb], t[q], middle)
                                       ELSE InternalMoveFirstToEndOf(t[nb], t[q], middle)
        right == IF isPredecessor THEN moved[2] ELSE moved[1]
        newSep == right.slot[IF t[q].leaf THEN 0 ELSE 1].key
        child == moved[2].slot[IF isPredecessor THEN 0 ELSE moved[2].size - 1].val
        both == [t EXCEPT ![nb] = moved[1], ![q] = moved[2], ![p].slot[sep].key = newSep]
    IN  IF t[q].leaf THEN both ELSE [both EXCEPT ![child].parent = t[q].parent]

\* The end of a removal, and whether it got stuck on its own latch.
Settled(s) == [pg |-> s.pg, root |-> s.root, q |-> Invalid, relock |-> FALSE]
Relock(s) == [pg |-> s.pg, root |-> s.root, q |-> Invalid, relock |-> TRUE]

\* One call of CoalesceOrRedistribute for page u.q, which is Invalid when
\* there is no further call to make.
CoalesceCall(u) ==
    LET q == u.q
        node == u.pg[q]
        p == node.parent
        i == ValueIndex(u.pg[p], q)
        sib == u.pg[p].slot[IF i > 0 THEN i - 1 ELSE i + 1].val
        t == IF i > 0 THEN Coalesce(u.pg, sib, q, p, i - 1)
                      ELSE Coalesce(u.pg, q, sib, p, i)
    IN  IF q = Invalid THEN u
        ELSE IF IsRootPage(node) THEN Settled(AdjustRoot(u, q))
        ELSE IF node.size >= MinSize(node) \/ i = -1 THEN Settled(u)
        ELSE IF sib \in {p, q} \/ node.size + u.pg[sib].size > node.max THEN Relock(u)
        ELSE IF t[p].size < MinSize(t[p]) THEN [u EXCEPT !.pg = t, !.q = p]
        ELSE Settled([u EXCEPT !.pg = t])

CoalesceOrRedistribute(s, q) ==
    LET call[n \in Nat] ==
            IF n = 0 THEN {[pg |-> s.pg, root |-> s.root, q |-> q, relock |-> FALSE]}
            ELSE {CoalesceCall(u) : u \in call[n - 1]}
    IN  CHOOSE u \in call[NewId(s.pg)] : TRUE

RemoveFrom(s, k) ==
    LET q == FindLeaf(s.pg, s.root, k)
        leaf == RemoveAndDeleteRecord(s.pg[q], k)
        t == [s EXCEPT !.pg[q] = leaf]
    IN  IF leaf.size < s.pg[q].size /\ leaf.size < MinSize(leaf)
        THEN CoalesceOrRedistribute(t, q) ELSE Settled(t)

Remove(k) ==
    /\ outcome # "hung"
    /\ ~IsEmpty => pg[Leftmost(pg, root, RemoveDepth[sizes])].leaf
    /\ LET s == IF IsEmpty THEN Settled([pg |-> pg, root |-> root])
                ELSE RemoveFrom([pg |-> pg, root |-> root], k)
       IN  /\ pg' = s.pg /\ root' = s.root
           /\ outcome' \in (IF s.relock THEN {"threw", "hung"} ELSE {"ok"})
    /\ UNCHANGED sizes
-----------------------------------------------------------------------------
Init ==
    /\ \E args \in CtorArgs : Construct(args)
    /\ pg = [q \in {} |-> InitPage(TRUE, 0)]
    /\ root = Invalid
    /\ outcome = "ok"

Next ==
    \E k \in Keys : \/ Remove(k)
                    \/ \E v \in RIDs : Insert(k, v)

Spec == Init /\ [][Next]_vars
-----------------------------------------------------------------------------
Children(p) == IF p.leaf THEN {} ELSE {p.slot[i].val : i \in 0 .. p.size - 1}

\* The pages at and below page q.
Subtree(q) ==
    LET found[n \in Nat] ==
            IF n = 0 THEN {q}
            ELSE UNION {{r} \cup Children(pg[r]) : r \in found[n - 1]}
    IN  found[NewId(pg)]

Reachable == IF IsEmpty THEN {} ELSE Subtree(root)

\* What lookups say the index holds.
Found == {k \in Keys : GetValue(k) # {}}

Index == INSTANCE OrderedIndex
         WITH entries <- UNION {{<<k, v>> : v \in GetValue(k)} : k \in Keys}

\* Every Insert and Remove changes what point lookups find for its own key
\* only, whatever splits, merges and root changes it makes on the way.
RefinesIndex == Index!Spec

\* seq lists the keys of S in ascending order.
Lists(seq, S) ==
    /\ {seq[i] : i \in DOMAIN seq} = S
    /\ \A i \in 1 .. Len(seq) - 1 : seq[i] < seq[i + 1]

\* Iterating from Begin() yields exactly the keys that lookups find, in
\* ascending order, and from Begin(k) of a present key those from k on: the
\* leaf chain and the descent paths never disagree.
ScanMatchesLookups ==
    /\ Lists(KeysFrom(Begin), Found)
    /\ \A k \in Found : Lists(KeysFrom(BeginAt(k)), {j \in Found : j >= k})

\* Each child names the page that points at it as its parent, and the root
\* names none: splits and merges find their way up by these ids.
ParentsRight ==
    /\ ~IsEmpty => IsRootPage(pg[root])
    /\ \A q \in Reachable : \A c \in Children(pg[q]) : pg[c].parent = q

\* The indices of a page that have a key of their own.
Keyed(p) == (IF p.leaf THEN 0 ELSE 1) .. p.size - 1

\* Each page's keys ascend, and every key at or below its child i lies between
\* the separators on both sides of that child: nothing is filed on the wrong
\* side of a key that was pushed up by a split.
KeysInOrder ==
    \A q \in Reachable :
        LET p == pg[q]
        IN  /\ \A i, j \in Keyed(p) : i < j => p.slot[i].key < p.slot[j].key
            /\ ~p.leaf => \A i \in 0 .. p.size - 1 : \A r \in Subtree(p.slot[i].val) :
                  \A j \in Keyed(pg[r]) :
                      /\ i > 0 => p.slot[i].key <= pg[r].slot[j].key
                      /\ i + 1 < p.size => pg[r].slot[j].key < p.slot[i + 1].key

\* Where a leaf is left underfull because Redistribute got stuck, the move it
\* was about to make from either neighbour would not have changed any lookup.
LeafMovesKeepLookups ==
    \A q \in Reachable \ {root} :
        pg[q].leaf /\ pg[q].size < MinSize(pg[q]) =>
            LET p == pg[q].parent
                i == ValueIndex(pg[p], q)
                after(j) == RedistributeBody(pg, pg[p].slot[j].val, q, p, i, j < i)
            IN  \A j \in {i - 1, i + 1} \cap 0 .. pg[p].size - 1 :
                   pg[pg[p].slot[j].val].size > 1 =>
                       \A k \in Keys : GetValueIn(after(j), k) = GetValue(k)
=============================================================================
