--------------------------- MODULE BPlusTreePage ---------------------------
(***************************************************************************)
(* The operations of one B+ tree page, leaf and internal.  A page is a     *)
(* header (size, maximum, parent, next leaf) and an array of key/value     *)
(* slots.  The code does not clear the slots an entry leaves.  An internal *)
(* page keeps them here too, because a merge reads one past the size; in a *)
(* leaf they are blanked, because nothing reads them but an iterator on an *)
(* empty leaf, which here meets the blank instead of an old entry.         *)
(***************************************************************************)
EXTENDS Integers, FiniteSets

CONSTANT MaxSlot            \* slots modelled per page: 0 .. MaxSlot

ASSUME MaxSlotAssumption == MaxSlot \in Nat

Invalid == -1               \* INVALID_PAGE_ID
Slots == 0 .. MaxSlot
Slot(k, v) == [key |-> k, val |-> v]
Blank == Slot(0, 0)

\* A page fresh from NewPage is zeroed; Init writes its header.
InitPage(isLeaf, max) ==
    [leaf |-> isLeaf, size |-> 0, max |-> max, parent |-> Invalid,
     next |-> Invalid, slot |-> [i \in Slots |-> Blank]]

IsRootPage(p) == p.parent = Invalid
MinSize(p) == IF p.leaf THEN p.max \div 2 ELSE (p.max + 1) \div 2

\* The binary search shared by leaf and internal pages, with r = <<left, right>>:
\* the indices in `below` send it to the right half.
BinarySearch(below, lo, hi) ==
    LET search[r \in (0 .. MaxSlot + 1) \X (0 .. MaxSlot + 1)] ==
            LET mid == r[1] + (r[2] - r[1]) \div 2
            IN  IF r[1] >= r[2] THEN r[1]
                ELSE IF mid \in below THEN search[<<mid + 1, r[2]>>]
                ELSE search[<<r[1], mid>>]
    IN  search[<<lo, hi>>]

KeyIndex(p, k) ==
    BinarySearch({i \in Slots : p.slot[i].key < k}, 0, p.size)

\* Mutant: a key equal to a separator goes left of it.
ChildIndexStrict(p, k) ==
    BinarySearch({i \in Slots : p.slot[i].key < k}, 1, p.size) - 1

\* Index of the child an internal page sends key k to.
ChildIndex(p, k) ==
    BinarySearch({i \in Slots : p.slot[i].key <= k}, 1, p.size) - 1

HasKeyAt(p, i, k) == i < p.size /\ p.slot[i].key = k

ValueIndex(p, v) ==
    LET at == {i \in 0 .. p.size - 1 : p.slot[i].val = v}
    IN  IF at = {} THEN -1 ELSE CHOOSE i \in at : \A j \in at : i <= j

\* The two shifting loops: make room at index i, close the gap at index i.
OpenAt(p, i) ==
    [j \in Slots |-> IF i < j /\ j <= p.size THEN p.slot[j - 1] ELSE p.slot[j]]

CloseAt(p, i) ==
    [j \in Slots |-> IF i <= j /\ j < p.size - 1 THEN p.slot[j + 1] ELSE p.slot[j]]

\* n slots of `from`, starting at index i, copied to `to` at index at.
Copied(to, at, from, i, n) ==
    [j \in Slots |-> IF at <= j /\ j < at + n THEN from.slot[i + j - at]
                                              ELSE to.slot[j]]

PutAt(p, i, s) ==
    [p EXCEPT !.size = @ + 1, !.slot = [OpenAt(p, i) EXCEPT ![i] = s]]

DropAt(p, i) == [p EXCEPT !.size = @ - 1, !.slot = CloseAt(p, i)]
-----------------------------------------------------------------------------
\* Leaf pages.
Trimmed(p) ==
    [p EXCEPT !.slot = [i \in Slots |-> IF i < p.size THEN p.slot[i] ELSE Blank]]

\* The values Lookup finds for key k: none or one.
LeafLookup(p, k) == {p.slot[i].val : i \in {j \in {KeyIndex(p, k)} : HasKeyAt(p, j, k)}}

LeafInsert(p, k, v) ==
    LET i == KeyIndex(p, k)
    IN  IF HasKeyAt(p, i, k) THEN p ELSE PutAt(p, i, Slot(k, v))

RemoveAndDeleteRecord(p, k) ==
    LET i == KeyIndex(p, k)
    IN  IF HasKeyAt(p, i, k) THEN Trimmed(DropAt(p, i)) ELSE p

\* The Move operators return the pair <<giver, recipient>>.
\* Mutant: the upper half starts one slot late.
LeafMoveHalfLate(p, new) ==
    LET mid == p.size \div 2
    IN  << Trimmed([p EXCEPT !.size = mid]),
           [new EXCEPT !.size = p.size - mid - 1,
                       !.slot = Copied(new, 0, p, mid + 1, p.size - mid - 1)] >>

LeafMoveHalfTo(p, new) ==
    LET mid == p.size \div 2
    IN  << Trimmed([p EXCEPT !.size = mid]),
           [new EXCEPT !.size = p.size - mid,
                       !.slot = Copied(new, 0, p, mid, p.size - mid)] >>

LeafMoveAllTo(p, to) ==
    << Trimmed([p EXCEPT !.size = 0]),
       [to EXCEPT !.size = @ + p.size,
                  !.slot = Copied(to, to.size, p, 0, p.size)] >>

LeafMoveFirstToEndOf(p, to) ==
    << Trimmed(DropAt(p, 0)),
       [to EXCEPT !.size = @ + 1, !.slot[to.size] = p.slot[0]] >>

LeafMoveLastToFrontOf(p, to) ==
    << Trimmed([p EXCEPT !.size = @ - 1]), PutAt(to, 0, p.slot[p.size - 1]) >>
-----------------------------------------------------------------------------
\* Internal pages: slot 0 has a child and no key of its own.
PopulateNewRoot(p, old, k, new) ==
    [p EXCEPT !.size = 2, !.slot[0].val = old, !.slot[1] = Slot(k, new)]

InsertNodeAfter(p, old, k, new) ==
    LET i == ValueIndex(p, old)
    IN  IF i = -1 THEN p ELSE PutAt(p, i + 1, Slot(k, new))

InternalMoveAllTo(p, to, middle) ==
    << [p EXCEPT !.size = 0],
       [to EXCEPT !.size = @ + p.size,
                  !.slot = [Copied(to, to.size, p, 0, p.size)
                               EXCEPT ![to.size] = Slot(middle, p.slot[0].val)]] >>

InternalMoveHalfTo(p, new) ==
    LET mid == p.size \div 2
    IN  << [p EXCEPT !.size = mid],
           [new EXCEPT !.size = p.size - mid,
                       !.slot = [Copied(new, 0, p, mid, p.size - mid)
                                    EXCEPT ![0].key = new.slot[0].key]] >>

InternalMoveFirstToEndOf(p, to, middle) ==
    << [DropAt(p, 0) EXCEPT !.slot[0].key = p.slot[0].key],
       [to EXCEPT !.size = @ + 1, !.slot[to.size] = Slot(middle, p.slot[0].val)] >>

\* The child that moves is written to slot 1, behind the recipient's first.
InternalMoveLastToFrontOf(p, to, middle) ==
    << [p EXCEPT !.size = @ - 1],
       [to EXCEPT !.size = @ + 1,
                  !.slot = [OpenAt(to, 0) EXCEPT
                               ![1] = Slot(middle, p.slot[p.size - 1].val)]] >>
=============================================================================
