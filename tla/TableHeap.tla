----------------------------- MODULE TableHeap -----------------------------
(***************************************************************************)
(* Slotted table pages and the chain of pages of a table.  A page is its   *)
(* slots, each a row or Deleted (length 0), and its free-space pointer: the*)
(* bytes are accounted for but not kept.  A heap is the sequence of its    *)
(* pages in chain order, and a RID is a pair <<page in the chain, slot>>.  *)
(* The buffer pool never runs out of frames here: no call pins two pages   *)
(* but InsertTuple, when it appends one.                                   *)
(***************************************************************************)
EXTENDS Value, FiniteSets, FiniteSetsExt

CONSTANT PageSize       \* ONEBASE_PAGE_SIZE

HeaderSize == 16
SlotSize == 4
Deleted == <<>>

InitPage == [slots |-> <<>>, fsp |-> PageSize]
SlotEnd(page) == HeaderSize + Len(page.slots) * SlotSize

\* An unsigned difference: below zero it is larger than any tuple.
GetFreeSpaceRemaining(page) ==
    LET d == page.fsp - SlotEnd(page) IN IF d >= 0 THEN d ELSE 2 ^ 30

\* The slot directory, or the header, is overwritten by tuple bytes.  What
\* the page holds after that is not modelled.
Overrun(page) == page.fsp < SlotEnd(page)

HasRoom(page, row) == GetFreeSpaceRemaining(page) >= TupleSize(row) + SlotSize

PageInsertTuple(page, row) ==
    [slots |-> Append(page.slots, row), fsp |-> page.fsp - TupleSize(row)]

PageDeleteTuple(page, slot) == [page EXCEPT !.slots[slot] = Deleted]

\* Whether an update goes through is decided on the growth alone ...
CanUpdate(page, slot, row) ==
    TupleSize(row) - TupleSize(page.slots[slot]) <= GetFreeSpaceRemaining(page)

\* ... but the whole new tuple is written below the free-space pointer.
PageUpdateTuple(page, slot, row) ==
    [slots |-> [page.slots EXCEPT ![slot] = row], fsp |-> page.fsp - TupleSize(row)]
-----------------------------------------------------------------------------
NewHeap == <<InitPage>>
End == <<0, 0>>

\* InsertTuple: the first page of the chain with room, else a page appended
\* for the row, which stays in the chain even when the row does not fit it.
InsertTuple(h, row) ==
    LET fits == {p \in DOMAIN h : HasRoom(h[p], row)}
        grown == IF fits = {} THEN Append(h, InitPage) ELSE h
        p == IF fits = {} THEN Len(grown) ELSE Min(fits)
    IN  IF HasRoom(grown[p], row)
        THEN [heap |-> [grown EXCEPT ![p] = PageInsertTuple(@, row)],
              rid |-> <<p, Len(grown[p].slots) + 1>>]
        ELSE [heap |-> grown, rid |-> End]

GetTuple(h, rid) == h[rid[1]].slots[rid[2]]

\* A failed update leaves the page alone; only the caller may notice.
UpdateTuple(h, rid, row) ==
    IF CanUpdate(h[rid[1]], rid[2], row)
    THEN [h EXCEPT ![rid[1]] = PageUpdateTuple(@, rid[2], row)] ELSE h

DeleteTuple(h, rid) == [h EXCEPT ![rid[1]] = PageDeleteTuple(@, rid[2])]

\* The undeleted slots in chain order, as Begin and operator++ visit them.
Scan(h) ==
    SelectSeq(FlattenSeq([p \in DOMAIN h |-> [s \in DOMAIN h[p].slots |-> <<p, s>>]]),
              LAMBDA rid : GetTuple(h, rid) # Deleted)

Before(r1, r2) == r1[1] < r2[1] \/ (r1[1] = r2[1] /\ r1[2] < r2[2])

\* Mutant: the scan ends with the page it is on.
NextRidOnPage(h, rid) ==
    LET later == SelectSeq(Scan(h), LAMBDA r : Before(rid, r) /\ r[1] <= Max({rid[1], 1}))
    IN  IF later = <<>> THEN End ELSE later[1]

\* Iterator::operator++: the first undeleted slot after rid.
NextRid(h, rid) ==
    LET later == SelectSeq(Scan(h), LAMBDA r : Before(rid, r))
    IN  IF later = <<>> THEN End ELSE later[1]

Begin(h) == NextRid(h, End)
=============================================================================
