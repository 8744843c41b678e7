---------------------- MODULE BufferPoolManagerProofs -----------------------
(***************************************************************************)
(* For any pool size, any number of pages, contents and callers, and       *)
(* whether or not new pages are unpinned clean: the bookkeeping of the     *)
(* buffer pool is consistent, no frame is lost before an I/O error,        *)
(* nothing that is evicted is lost, and the pool implements PageStore.     *)
(***************************************************************************)
EXTENDS BufferPoolManager, FiniteSetTheorems, TLAPS

\* The inductive invariant.  Each part needs the others: a pinned page stays because
\* evictable frames are unpinned, which holds because pin counts are exact, which
\* needs that a frame taken from the free list has no pins, and so on.
Consistent ==
    /\ TypeOK
    /\ TableMatchesFrames
    /\ FreeFramesAreFree
    /\ PinnedPageStays
    /\ PinCountIsExact
    /\ ReplacerMatchesPins
    /\ IdsAreAllocated

-----------------------------------------------------------------------------
\* The markers are outside the sets they mark the absence of.
LEMMA Markers ==
    /\ NoFrame \notin Frames
    /\ INVALID_PAGE_ID \notin PageIds
    /\ PageIds \subseteq Nat
    /\ \A p \in PageIds : p + 1 \in 0 .. MaxPages
    /\ 0 \in 0 .. MaxPages
  BY PoolSizeAssumption, MaxPagesAssumption
  DEF NoFrame, Frames, INVALID_PAGE_ID, PageIds

\* The sizes and counters of a disk are natural numbers.
LEMMA DiskNumbers ==
    ASSUME NEW d \in Disk
    PROVE  d.size \in Nat /\ d.next_page_id \in Nat
  <1>1. d.size \in 0 .. MaxPages /\ d.next_page_id \in 0 .. MaxPages
    BY DEF Disk
  <1> QED  BY <1>1, MaxPagesAssumption

\* Writing pages keeps the disk's type and its allocation counter, and extends the file
\* at most to the pages written.
LEMMA WrittenType ==
    ASSUME NEW d \in Disk, NEW S \in SUBSET PageIds, NEW data,
           \A p \in S : data[p] \in Data,
           NEW e \in Written(d, S, data)
    PROVE  /\ e \in Disk
           /\ e.next_page_id = d.next_page_id
           /\ e.io = "good"
           /\ e.size >= d.size
           /\ \A p \in S : p < e.size
           /\ e.size = d.size \/ \E p \in S : e.size = p + 1
           /\ \A p \in PageIds : e.content[p] = IF p \in S THEN data[p] ELSE d.content[p]
  <1>1. PICK n \in 0 .. MaxPages :
           /\ SizeAfter(d, S, n)
           /\ e = [content |-> [p \in PageIds |-> IF p \in S THEN data[p] ELSE d.content[p]],
                   size |-> n, next_page_id |-> d.next_page_id, io |-> "good"]
    BY DEF Written
  <1>2. [p \in PageIds |-> IF p \in S THEN data[p] ELSE d.content[p]] \in [PageIds -> Data]
    BY DEF Disk
  <1>3. e \in Disk
    BY <1>1, <1>2 DEF Disk, IOStates
  <1>4. \A p \in S : p < n
    BY <1>1, Markers, MaxPagesAssumption DEF SizeAfter
  <1> QED  BY <1>1, <1>3, <1>4 DEF SizeAfter

\* A broken stream is the same file with the same allocation counter.
LEMMA BrokenType ==
    ASSUME NEW d \in Disk
    PROVE  /\ Broken(d) \in Disk
           /\ Broken(d).next_page_id = d.next_page_id
           /\ Broken(d).io = "bad"
           /\ Broken(d).size = d.size
           /\ Broken(d).content = d.content
  BY DEF Broken, Disk, IOStates

\* One WritePage: it took effect, it threw, or the stream was unusable before.
LEMMA WritePageType ==
    ASSUME NEW d \in Disk, NEW p \in PageIds, NEW v \in Data,
           NEW e \in WritePage(d, p, v)
    PROVE  /\ e \in Disk
           /\ e.next_page_id = d.next_page_id
           /\ e.size = d.size \/ e.size = p + 1
           /\ e.size >= d.size
  <1> DEFINE data == [q \in {p} |-> v]
  <1>1. CASE d.io = "good" /\ e \in Written(d, {p}, data)
    <2>1. \A q \in {p} : data[q] \in Data
      OBVIOUS
    <2>2. {p} \in SUBSET PageIds
      OBVIOUS
    <2>3. /\ e \in Disk
          /\ e.next_page_id = d.next_page_id
          /\ e.size >= d.size
          /\ e.size = d.size \/ \E q \in {p} : e.size = q + 1
      BY <1>1, <2>1, <2>2, WrittenType
    <2> QED  BY <2>3
  <1>2. CASE d.io = "good" /\ e = Broken(d)
    BY <1>2, BrokenType DEF Disk
  <1>3. CASE d.io # "good" /\ e = d
    BY <1>3, MaxPagesAssumption DEF Disk
  <1> QED  BY <1>1, <1>2, <1>3 DEF WritePage

\* The pins on a frame can be counted.
LEMMA PinsFinite ==
    ASSUME NEW f
    PROVE  /\ IsFiniteSet(PinsOn(f))
           /\ Cardinality(PinsOn(f)) \in Nat
           /\ Cardinality(PinsOn(f)) = 0 <=> PinsOn(f) = {}
  <1>1. IsFiniteSet(PinsOn(f))
    BY FS_Subset, HandlesAssumption DEF PinsOn
  <1> QED  BY <1>1, FS_CardinalityType, FS_EmptySet

\* One more pin on f, and one fewer.
LEMMA PinAdded ==
    ASSUME NEW f, NEW h, h \notin PinsOn(f)
    PROVE  Cardinality(PinsOn(f) \cup {h}) = Cardinality(PinsOn(f)) + 1
  BY PinsFinite, FS_AddElement

LEMMA PinRemoved ==
    ASSUME NEW f, NEW h, h \in PinsOn(f)
    PROVE  /\ Cardinality(PinsOn(f) \ {h}) = Cardinality(PinsOn(f)) - 1
           /\ Cardinality(PinsOn(f)) - 1 \in Nat
  <1>1. Cardinality(PinsOn(f) \ {h}) = Cardinality(PinsOn(f)) - 1
    BY PinsFinite, FS_RemoveElement
  <1>2. Cardinality(PinsOn(f)) # 0 /\ Cardinality(PinsOn(f)) \in Nat
    BY PinsFinite
  <1> QED  BY <1>1, <1>2

\* What holds of a frame that NewPage or FetchPage obtains, and of the page table, the
\* free list and the replacer without it.
LEMMA FrameTaken ==
    ASSUME Consistent, NEW f \in Frames, FrameFor(f)
    PROVE  /\ pages[f].pin_count = 0
           /\ PinsOn(f) = {}
           /\ TableWithout(f) \in [PageIds -> Frames \cup {NoFrame}]
           /\ \A p \in PageIds :
                 /\ TableWithout(f)[p] # f
                 /\ TableWithout(f)[p] # NoFrame => TableWithout(f)[p] = page_table[p]
                 /\ page_table[p] # f => TableWithout(f)[p] = page_table[p]
           /\ FreeListWithout \in Seq(Frames)
           /\ \A i, j \in 1 .. Len(FreeListWithout) :
                 FreeListWithout[i] = FreeListWithout[j] => i = j
           /\ \A i \in 1 .. Len(FreeListWithout) :
                 /\ FreeListWithout[i] # f
                 /\ OnFreeList(FreeListWithout[i])
           /\ ReplacerWithout(f) = [replacer EXCEPT ![f] = "untracked"]
           /\ free_list = << >> => /\ pages[f].page_id \in PageIds
                                  /\ page_table[pages[f].page_id] = f
  <1> USE DEF Consistent
  <1>1. CASE free_list # << >>
    <2>1. /\ f = Head(free_list) /\ free_list \in Seq(Frames) /\ Len(free_list) > 0
          /\ free_list[1] = f /\ 1 \in 1 .. Len(free_list)
      BY <1>1 DEF FrameFor, TypeOK
    <2>2. replacer[f] = "untracked" /\ \A p \in PageIds : page_table[p] # f
      BY <2>1 DEF FreeFramesAreFree
    <2>3. pages[f].pin_count = 0
      BY <2>2 DEF ReplacerMatchesPins, TypeOK, Page
    <2>4. PinsOn(f) = {}
      BY <2>3, PinsFinite DEF PinCountIsExact
    <2>5. FreeListWithout = Tail(free_list)
      BY <1>1 DEF FreeListWithout
    <2>6. /\ FreeListWithout \in Seq(Frames)
          /\ Len(FreeListWithout) = Len(free_list) - 1
          /\ \A i \in 1 .. Len(FreeListWithout) :
                /\ i + 1 \in 1 .. Len(free_list)
                /\ FreeListWithout[i] = free_list[i + 1]
      BY <2>1, <2>5
    <2>7. \A i, j \in 1 .. Len(FreeListWithout) :
              FreeListWithout[i] = FreeListWithout[j] => i = j
      BY <2>1, <2>6 DEF FreeFramesAreFree
    <2>8. \A i \in 1 .. Len(FreeListWithout) :
              FreeListWithout[i] # f /\ OnFreeList(FreeListWithout[i])
      BY <2>1, <2>6 DEF FreeFramesAreFree, OnFreeList
    <2>9. TableWithout(f) = page_table /\ ReplacerWithout(f) = replacer
      BY <1>1 DEF TableWithout, ReplacerWithout
    <2>10. replacer = [replacer EXCEPT ![f] = "untracked"]
      BY <2>2 DEF TypeOK
    <2>11. page_table \in [PageIds -> Frames \cup {NoFrame}]
      BY DEF TypeOK
    <2> QED  BY <1>1, <2>2, <2>3, <2>4, <2>6, <2>7, <2>8, <2>9, <2>10, <2>11
  <1>2. CASE free_list = << >>
    <2>1. replacer[f] = "evictable"
      BY <1>2 DEF FrameFor, R!EvictableIn
    <2>2. pages[f].pin_count = 0 /\ \E p \in PageIds : page_table[p] = f
      BY <2>1 DEF ReplacerMatchesPins
    <2>3. PinsOn(f) = {}
      BY <2>2, PinsFinite DEF PinCountIsExact
    <2>4. \A p \in PageIds : page_table[p] = f => pages[f].page_id = p
      BY Markers DEF TableMatchesFrames, Resident
    <2>5. pages[f].page_id \in PageIds /\ page_table[pages[f].page_id] = f
      BY <2>2, <2>4
    <2>6. TableWithout(f) = [page_table EXCEPT ![pages[f].page_id] = NoFrame]
      BY <1>2 DEF TableWithout
    <2>7. /\ TableWithout(f) \in [PageIds -> Frames \cup {NoFrame}]
          /\ \A p \in PageIds :
                 /\ TableWithout(f)[p] # f
                 /\ TableWithout(f)[p] # NoFrame => TableWithout(f)[p] = page_table[p]
                 /\ page_table[p] # f => TableWithout(f)[p] = page_table[p]
      BY <2>4, <2>5, <2>6, Markers DEF TypeOK
    <2>8. FreeListWithout = free_list /\ Len(free_list) = 0
      BY <1>2 DEF FreeListWithout
    <2>9. ReplacerWithout(f) = [replacer EXCEPT ![f] = "untracked"]
      BY <1>2 DEF ReplacerWithout, R!AfterErase
    <2> QED  BY <2>2, <2>3, <2>5, <2>7, <2>8, <2>9 DEF TypeOK
  <1> QED  BY <1>1, <1>2

\* Pinning a frame in a replacer that does not track it, or does, protects it.
LEMMA PinnedProtects ==
    ASSUME NEW r \in [Frames -> R!Status], NEW f \in Frames
    PROVE  Pinned(r, f) = [r EXCEPT ![f] = "protected"]
  <1>1. R!AfterRecordAccess(r, f)[f] # "untracked"
    BY DEF R!AfterRecordAccess, R!Status
  <1> QED  BY <1>1 DEF Pinned, R!AfterSetEvictable, R!AfterRecordAccess, R!Status

\* A caller's new pin is a pin.
LEMMA PinType ==
    ASSUME NEW f \in Frames, NEW p \in PageIds, NEW b \in BOOLEAN
    PROVE  /\ [frame |-> f, page_id |-> p, dirty |-> b] \in Pin
           /\ [frame |-> f, page_id |-> p, dirty |-> b] # NoPin
  BY NoPinAssumption DEF Pin

\* Changing some fields of the page in one frame leaves pages.
LEMMA PageUpdated ==
    ASSUME NEW ps \in [Frames -> Page], NEW f \in Frames,
           NEW n \in Nat, NEW d \in BOOLEAN, NEW v \in Data
    PROVE  /\ [ps EXCEPT ![f].pin_count = n] \in [Frames -> Page]
           /\ [ps EXCEPT ![f].is_dirty = d] \in [Frames -> Page]
           /\ [ps EXCEPT ![f].data = v] \in [Frames -> Page]
           /\ [ps EXCEPT ![f].is_dirty = d, ![f].pin_count = n] \in [Frames -> Page]
  <1>1. /\ [ps[f] EXCEPT !.pin_count = n] \in Page
        /\ [ps[f] EXCEPT !.is_dirty = d] \in Page
        /\ [ps[f] EXCEPT !.data = v] \in Page
        /\ [ps[f] EXCEPT !.is_dirty = d, !.pin_count = n] \in Page
    <2>1. ps[f] \in Page
      OBVIOUS
    <2> QED  BY <2>1 DEF Page
  <1> QED  BY <1>1

\* What DeletePage leaves in the frame is a page, with the pin count it had.
LEMMA PageErased ==
    ASSUME NEW q \in Page
    PROVE  /\ [q EXCEPT !.page_id = INVALID_PAGE_ID, !.is_dirty = FALSE, !.data = Zero] \in Page
           /\ [q EXCEPT !.page_id = INVALID_PAGE_ID, !.is_dirty = FALSE,
                        !.data = Zero].pin_count = q.pin_count
  BY ZeroAssumption DEF Page

\* The second half of NewPage and of FetchPage from disk: page p moves into the frame
\* and the caller gets the first pin.
LEMMA InstallConsistent ==
    ASSUME Consistent, NEW f \in Frames, FrameFor(f),
           NEW p \in PageIds, page_table[p] = NoFrame, NEW v \in Data,
           NEW h \in Handles, ~InUse(h), NEW b \in BOOLEAN,
           Install(f, p, v),
           handle' = [handle EXCEPT ![h] = [frame |-> f, page_id |-> p, dirty |-> b]],
           disk' \in Disk, live' \in SUBSET PageIds, live \subseteq live', p \in live',
           \A q \in live' : q < disk'.next_page_id,
           disk'.size <= disk'.next_page_id
    PROVE  Consistent'
  <1> DEFINE T == TableWithout(f)
             FL == FreeListWithout
             pin == [frame |-> f, page_id |-> p, dirty |-> b]
             page == [page_id |-> p, pin_count |-> 1, is_dirty |-> FALSE, data |-> v]
  <1> USE DEF Consistent
  <1>1. /\ pages' = [pages EXCEPT ![f] = page]
        /\ page_table' = [T EXCEPT ![p] = f]
        /\ free_list' = FL
        /\ replacer' = Pinned(ReplacerWithout(f), f)
    BY DEF Install
  <1>2. replacer' = [replacer EXCEPT ![f] = "protected"]
    <2>1. ReplacerWithout(f) = [replacer EXCEPT ![f] = "untracked"]
      BY FrameTaken
    <2>2. ReplacerWithout(f) \in [Frames -> R!Status]
      BY <2>1 DEF TypeOK, R!Status
    <2>3. replacer' = [ReplacerWithout(f) EXCEPT ![f] = "protected"]
      BY <1>1, <2>2, PinnedProtects
    <2> QED  BY <2>1, <2>3 DEF TypeOK
  <1>3. pin \in Pin /\ page \in Page /\ pin # NoPin
    BY NoPinAssumption DEF Pin, Page
  <1>4. /\ T \in [PageIds -> Frames \cup {NoFrame}]
        /\ \A q \in PageIds : /\ T[q] # f
                              /\ T[q] # NoFrame => T[q] = page_table[q]
                              /\ page_table[q] # f => T[q] = page_table[q]
        /\ FL \in Seq(Frames)
        /\ \A i, j \in 1 .. Len(FL) : FL[i] = FL[j] => i = j
        /\ \A i \in 1 .. Len(FL) : FL[i] # f /\ OnFreeList(FL[i])
        /\ PinsOn(f) = {}
    BY FrameTaken
  <1>5. TypeOK'
    BY <1>1, <1>2, <1>3, <1>4 DEF TypeOK, R!Status
  <1>6. TableMatchesFrames'
    <2>1. ASSUME NEW q \in PageIds, page_table'[q] # NoFrame
          PROVE  pages'[page_table'[q]].page_id = q
      <3>1. CASE q = p
        BY <1>1, <1>4, <3>1 DEF TypeOK
      <3>2. CASE q # p
        <4>1. page_table'[q] = page_table[q] /\ page_table'[q] # f
          BY <1>1, <1>4, <2>1, <3>2
        <4>2. pages[page_table[q]].page_id = q
          BY <2>1, <4>1 DEF TableMatchesFrames, Resident
        <4> QED  BY <1>1, <2>1, <4>1, <4>2 DEF TypeOK
      <3> QED  BY <3>1, <3>2
    <2> QED  BY <2>1 DEF TableMatchesFrames, Resident
  <1>7. FreeFramesAreFree'
    <2>1. ASSUME NEW i \in 1 .. Len(FL)
          PROVE  /\ replacer'[FL[i]] = "untracked"
                 /\ \A q \in PageIds : page_table'[q] # FL[i]
      <3>1. FL[i] # f /\ FL[i] \in Frames /\ OnFreeList(FL[i])
        BY <1>4
      <3>2. replacer[FL[i]] = "untracked" /\ \A q \in PageIds : page_table[q] # FL[i]
        BY <3>1 DEF OnFreeList, FreeFramesAreFree
      <3>3. \A q \in PageIds : page_table'[q] # FL[i]
        BY <1>1, <1>4, <3>1, <3>2, Markers
      <3> QED  BY <1>2, <3>1, <3>2, <3>3 DEF TypeOK
    <2> QED  BY <1>1, <1>4, <2>1 DEF FreeFramesAreFree
  <1>8. \A k \in Handles : k # h => handle'[k] = handle[k]
    BY DEF TypeOK
  <1>9. handle'[h] = pin
    BY DEF TypeOK
  <1>10. PinnedPageStays'
    <2>1. ASSUME NEW k \in Handles, handle'[k] # NoPin
          PROVE  page_table'[handle'[k].page_id] = handle'[k].frame
      <3>1. CASE k = h
        BY <1>1, <1>4, <1>9, <3>1
      <3>2. CASE k # h
        <4>1. InUse(k) /\ handle[k] \in Pin /\ handle'[k] = handle[k]
          BY <1>8, <2>1, <3>2 DEF InUse, TypeOK
        <4>2. handle[k].page_id \in PageIds /\ handle[k].frame \in Frames
          BY <4>1 DEF Pin
        <4>3. page_table[handle[k].page_id] = handle[k].frame
          BY <4>1 DEF PinnedPageStays
        <4>4. handle[k].frame # f
          BY <1>4, <4>1 DEF PinsOn
        <4>5. handle[k].page_id # p
          BY <4>2, <4>3, Markers
        <4> QED  BY <1>1, <1>4, <4>1, <4>2, <4>3, <4>4, <4>5
      <3> QED  BY <3>1, <3>2
    <2> QED  BY <2>1 DEF PinnedPageStays, InUse
  <1>11. PinCountIsExact'
    <2>1. ASSUME NEW g \in Frames PROVE pages'[g].pin_count = Cardinality(PinsOn(g)')
      <3>1. CASE g = f
        <4>1. PinsOn(f)' = {h}
          BY <1>3, <1>4, <1>8, <1>9 DEF PinsOn, InUse
        <4>2. Cardinality({h}) = 1
          BY FS_Singleton
        <4> QED  BY <1>1, <3>1, <4>1, <4>2 DEF TypeOK
      <3>2. CASE g # f
        <4>1. PinsOn(g)' = PinsOn(g)
          BY <1>8, <1>9, <3>2 DEF PinsOn, InUse
        <4> QED  BY <1>1, <3>2, <4>1 DEF TypeOK, PinCountIsExact
      <3> QED  BY <3>1, <3>2
    <2> QED  BY <2>1 DEF PinCountIsExact
  <1>12. ReplacerMatchesPins'
    <2>1. ASSUME NEW g \in Frames
          PROVE  /\ replacer'[g] # "untracked" => \E q \in PageIds : page_table'[q] = g
                 /\ replacer'[g] = "evictable" => pages'[g].pin_count = 0
                 /\ replacer'[g] = "protected" => pages'[g].pin_count > 0
                 /\ pages'[g].pin_count > 0 => replacer'[g] = "protected"
      <3>1. CASE g = f
        <4>1. page_table'[p] = f
          BY <1>1, <1>4
        <4> QED  BY <1>1, <1>2, <3>1, <4>1 DEF TypeOK
      <3>2. CASE g # f
        <4>1. replacer'[g] = replacer[g] /\ pages'[g] = pages[g]
          BY <1>1, <1>2, <3>2 DEF TypeOK
        <4>2. ASSUME NEW q \in PageIds, page_table[q] = g PROVE page_table'[q] = g
          BY <1>1, <1>4, <3>2, <4>2, Markers
        <4> QED  BY <4>1, <4>2 DEF ReplacerMatchesPins
      <3> QED  BY <3>1, <3>2
    <2> QED  BY <2>1 DEF ReplacerMatchesPins
  <1>13. IdsAreAllocated'
    <2>1. Resident' \subseteq Resident \cup {p}
      BY <1>1, <1>4 DEF Resident
    <2> QED  BY <2>1 DEF IdsAreAllocated
  <1> QED  BY <1>5, <1>6, <1>7, <1>10, <1>11, <1>12, <1>13

\* Writing back the victim keeps the disk well formed and its ids allocated.
LEMMA DiskAfterWriteBack ==
    ASSUME Consistent, NEW f \in Frames, FrameFor(f), MustWriteBack(f),
           NEW d \in WriteBack(f)
    PROVE  d \in Disk /\ d.next_page_id = disk.next_page_id /\ d.size <= d.next_page_id
  <1>1. pages[f].page_id \in PageIds /\ page_table[pages[f].page_id] = f
    BY FrameTaken DEF MustWriteBack
  <1>2. pages[f].page_id < disk.next_page_id
    BY <1>1, Markers DEF Consistent, IdsAreAllocated, Resident
  <1>3. disk \in Disk /\ pages[f].data \in Data /\ disk.size <= disk.next_page_id
    BY DEF Consistent, TypeOK, Page, IdsAreAllocated
  <1>4. /\ d \in Disk
        /\ d.next_page_id = disk.next_page_id
        /\ d.size = disk.size \/ d.size = pages[f].page_id + 1
    BY <1>1, <1>3, WritePageType DEF WriteBack
  <1>5. disk.next_page_id \in Nat /\ pages[f].page_id \in Nat
    <2>1. pages[f].page_id \in Nat
      BY <1>1, Markers
    <2> QED  BY <1>3, <2>1, DiskNumbers
  <1> QED  BY <1>2, <1>3, <1>4, <1>5

LEMMA DiskForFrameType ==
    ASSUME Consistent, NEW f \in Frames, FrameFor(f), NEW d \in DisksForFrame(f)
    PROVE  d \in Disk /\ d.next_page_id = disk.next_page_id /\ d.size <= d.next_page_id
  <1>1. CASE MustWriteBack(f)
    BY <1>1, DiskAfterWriteBack DEF DisksForFrame
  <1>2. CASE ~MustWriteBack(f)
    BY <1>2 DEF DisksForFrame, Consistent, TypeOK, IdsAreAllocated
  <1> QED  BY <1>1, <1>2

LEMMA NewPageConsistent ==
    ASSUME Consistent, NEW h \in Handles, NEW f \in Frames, NewPage(h, f)
    PROVE  Consistent'
  <1> DEFINE p == disk.next_page_id
  <1>1. disk \in Disk /\ p \in PageIds
    BY MaxPagesAssumption DEF NewPage, Consistent, TypeOK, Disk, PageIds
  <1>2. PICK d \in DisksForFrame(f) : disk' = AfterAllocatePage(d)
    BY DEF NewPage
  <1>3. FrameFor(f) /\ ~InUse(h) /\ Install(f, p, Zero) /\ live' = live \cup {p} /\ p < MaxPages
    BY DEF NewPage
  <1>4. PICK b \in BOOLEAN :
           handle' = [handle EXCEPT ![h] = [frame |-> f, page_id |-> p, dirty |-> b]]
    BY DEF NewPage
  <1>5. d \in Disk /\ d.next_page_id = p /\ d.size <= p
    BY <1>3, DiskForFrameType
  <1>6. /\ disk' \in Disk
        /\ disk'.next_page_id = p + 1
        /\ disk'.size = d.size
    <2>1. p + 1 \in 0 .. MaxPages
      BY <1>1, Markers
    <2> QED  BY <1>2, <1>5, <2>1 DEF AfterAllocatePage, Disk
  <1>7. \A q \in live : q < p /\ q \in Nat
    BY Markers DEF Consistent, IdsAreAllocated, TypeOK
  <1>8. page_table[p] = NoFrame
    BY <1>1, <1>7, Markers DEF Consistent, IdsAreAllocated, Resident
  <1>9. /\ live' \in SUBSET PageIds /\ live \subseteq live' /\ p \in live'
        /\ p \in Nat /\ d.size \in Nat
    <2>1. p \in Nat
      BY <1>1, DiskNumbers
    <2>2. d.size \in Nat
      BY <1>5, DiskNumbers
    <2> QED  BY <1>1, <1>3, <2>1, <2>2 DEF Consistent, TypeOK
  <1>10. \A q \in live' : q < disk'.next_page_id
    BY <1>3, <1>6, <1>7, <1>9
  <1>11. disk'.size <= disk'.next_page_id
    BY <1>5, <1>6, <1>9
  <1> QED  BY <1>1, <1>3, <1>4, <1>6, <1>8, <1>9, <1>10, <1>11, ZeroAssumption,
              InstallConsistent

\* Reading never changes what the file holds.
LEMMA AfterReadType ==
    ASSUME NEW d \in Disk, NEW p \in PageIds
    PROVE  /\ AfterReadPage(d, p) \in Disk
           /\ AfterReadPage(d, p).next_page_id = d.next_page_id
           /\ AfterReadPage(d, p).size = d.size
           /\ ReadPage(d, p) \in Data
  BY ZeroAssumption DEF AfterReadPage, ReadPage, Disk, IOStates

LEMMA FetchFromDiskConsistent ==
    ASSUME Consistent, NEW h \in Handles, NEW p \in PageIds, NEW f \in Frames,
           FetchFromDisk(h, p, f)
    PROVE  Consistent'
  <1>1. PICK d \in DisksForFrame(f) :
           disk' = AfterReadPage(d, p) /\ Install(f, p, ReadPage(d, p))
    BY DEF FetchFromDisk
  <1>2. /\ FrameFor(f) /\ ~InUse(h) /\ p \in live /\ page_table[p] = NoFrame
        /\ handle' = [handle EXCEPT ![h] = [frame |-> f, page_id |-> p, dirty |-> FALSE]]
        /\ live' = live
    BY DEF FetchFromDisk
  <1>3. d \in Disk /\ d.next_page_id = disk.next_page_id /\ d.size <= d.next_page_id
    BY <1>2, DiskForFrameType
  <1>4. /\ disk' \in Disk /\ disk'.next_page_id = disk.next_page_id
        /\ disk'.size <= disk'.next_page_id
        /\ ReadPage(d, p) \in Data
    BY <1>1, <1>3, AfterReadType
  <1>5. live' \in SUBSET PageIds /\ live \subseteq live' /\ p \in live'
    BY <1>2 DEF Consistent, TypeOK
  <1>6. \A q \in live' : q < disk'.next_page_id
    BY <1>2, <1>4 DEF Consistent, IdsAreAllocated
  <1> QED  BY <1>1, <1>2, <1>4, <1>5, <1>6, InstallConsistent

\* FetchPage of a page in the pool: one more pin, and the frame is protected.
LEMMA FetchResidentConsistent ==
    ASSUME Consistent, NEW h \in Handles, NEW p \in PageIds, FetchResident(h, p)
    PROVE  Consistent'
  <1> USE DEF Consistent
  <1>0. PICK f \in Frames : f = page_table[p]
    BY DEF FetchResident, TypeOK
  <1> DEFINE pin == [frame |-> f, page_id |-> p, dirty |-> FALSE]
  <1>1. /\ ~InUse(h) /\ f # NoFrame
        /\ pages' = [pages EXCEPT ![f].pin_count = @ + 1]
        /\ replacer' = Pinned(replacer, f)
        /\ handle' = [handle EXCEPT ![h] = pin]
        /\ page_table' = page_table /\ free_list' = free_list
        /\ disk' = disk /\ live' = live
    BY <1>0 DEF FetchResident
  <1>3. replacer' = [replacer EXCEPT ![f] = "protected"]
    BY <1>1, PinnedProtects DEF TypeOK
  <1>4. pin \in Pin /\ pin # NoPin
    <2>1. FALSE \in BOOLEAN
      OBVIOUS
    <2> QED  BY <2>1, PinType
  <1>5. \A g \in Frames : /\ pages'[g].page_id = pages[g].page_id
                          /\ g # f => pages'[g].pin_count = pages[g].pin_count
    BY <1>1 DEF TypeOK, Page
  <1>6. pages'[f].pin_count = pages[f].pin_count + 1 /\ pages[f].pin_count \in Nat
    BY <1>1 DEF TypeOK, Page
  <1>7. TypeOK'
    <2>1. pages' \in [Frames -> Page]
      <3>1. pages' = [pages EXCEPT ![f].pin_count = pages[f].pin_count + 1]
        BY <1>1
      <3>2. pages[f].pin_count + 1 \in Nat /\ pages \in [Frames -> Page]
        BY <1>6 DEF TypeOK
      <3> QED  BY <3>1, <3>2, ZeroAssumption, PageUpdated
    <2> QED  BY <1>1, <1>3, <1>4, <2>1 DEF TypeOK, R!Status
  <1>8. TableMatchesFrames'
    BY <1>1, <1>5 DEF TableMatchesFrames, Resident, TypeOK
  <1>9. FreeFramesAreFree'
    <2>1. \A i \in 1 .. Len(free_list) : free_list[i] # f
      BY <1>0 DEF FreeFramesAreFree
    <2> QED  BY <1>1, <1>3, <2>1 DEF FreeFramesAreFree, TypeOK
  <1>10. handle'[h] = pin /\ \A k \in Handles : k # h => handle'[k] = handle[k]
    BY <1>1 DEF TypeOK
  <1>11. PinnedPageStays'
    BY <1>0, <1>1, <1>10 DEF PinnedPageStays, InUse
  <1>12. PinCountIsExact'
    <2>1. h \notin PinsOn(f) /\ PinsOn(f)' = PinsOn(f) \cup {h}
      BY <1>1, <1>4, <1>10 DEF PinsOn, InUse
    <2>2. \A g \in Frames : g # f => PinsOn(g)' = PinsOn(g)
      BY <1>1, <1>10 DEF PinsOn, InUse
    <2>3. Cardinality(PinsOn(f)') = Cardinality(PinsOn(f)) + 1
      BY <2>1, PinAdded
    <2>4. pages'[f].pin_count = Cardinality(PinsOn(f)')
      BY <1>6, <2>3 DEF PinCountIsExact
    <2>5. \A g \in Frames : g # f => pages'[g].pin_count = Cardinality(PinsOn(g)')
      BY <1>5, <2>2 DEF PinCountIsExact
    <2> QED  BY <2>4, <2>5 DEF PinCountIsExact
  <1>13. ReplacerMatchesPins'
    <2>1. \A g \in Frames : g # f => replacer'[g] = replacer[g]
      BY <1>3 DEF TypeOK
    <2>2. replacer'[f] = "protected" /\ pages'[f].pin_count > 0
      BY <1>3, <1>6 DEF TypeOK
    <2> QED  BY <1>0, <1>1, <1>5, <2>1, <2>2 DEF ReplacerMatchesPins
  <1>14. IdsAreAllocated'
    BY <1>1 DEF IdsAreAllocated, Resident
  <1> QED  BY <1>7, <1>8, <1>9, <1>11, <1>12, <1>13, <1>14

\* UnpinPage by the holder of a pin: the page is found, and the frame becomes evictable
\* exactly when its last pin goes.
LEMMA UnpinPageConsistent ==
    ASSUME Consistent, NEW h \in Handles, UnpinPage(h)
    PROVE  Consistent'
  <1> USE DEF Consistent
  <1>0. InUse(h) /\ handle[h] \in Pin
    BY DEF UnpinPage, InUse, TypeOK
  <1>1. PICK f \in Frames, p \in PageIds : f = handle[h].frame /\ p = handle[h].page_id
    BY <1>0 DEF Pin
  <1>2. page_table[p] = f /\ f # NoFrame
    BY <1>0, <1>1, Markers DEF PinnedPageStays
  <1>3. h \in PinsOn(f)
    BY <1>0, <1>1 DEF PinsOn
  <1>4. pages[f].pin_count = Cardinality(PinsOn(f)) /\ pages[f].pin_count - 1 \in Nat
    BY <1>1, <1>3, PinRemoved DEF PinCountIsExact
  <1>5. pages[f].pin_count > 0 /\ pages[f].pin_count \in Nat
    BY <1>1, <1>4 DEF TypeOK, Page
  <1>6. replacer[f] = "protected"
    BY <1>1, <1>5 DEF ReplacerMatchesPins
  <1>7. /\ pages' = [pages EXCEPT ![f].is_dirty = @ \/ handle[h].dirty, ![f].pin_count = @ - 1]
        /\ replacer' = IF pages[f].pin_count = 1
                       THEN R!AfterSetEvictable(replacer, f, TRUE) ELSE replacer
        /\ handle' = [handle EXCEPT ![h] = NoPin]
        /\ page_table' = page_table /\ free_list' = free_list
        /\ disk' = disk /\ live' = live
    BY <1>1, <1>2, <1>5 DEF UnpinPage
  <1>8. replacer' = IF pages[f].pin_count = 1 THEN [replacer EXCEPT ![f] = "evictable"]
                    ELSE replacer
    BY <1>6, <1>7 DEF R!AfterSetEvictable
  <1>9. /\ \A g \in Frames : g # f => pages'[g] = pages[g] /\ replacer'[g] = replacer[g]
        /\ pages'[f].page_id = pages[f].page_id
        /\ pages'[f].pin_count = pages[f].pin_count - 1
        /\ replacer'[f] = IF pages[f].pin_count = 1 THEN "evictable" ELSE "protected"
    BY <1>1, <1>6, <1>7, <1>8 DEF TypeOK, Page
  <1>10. TypeOK'
    <2>1. (pages[f].is_dirty \/ handle[h].dirty) \in BOOLEAN
      OBVIOUS
    <2>2. pages' \in [Frames -> Page]
      <3>1. pages' = [pages EXCEPT ![f].is_dirty = pages[f].is_dirty \/ handle[h].dirty,
                                   ![f].pin_count = pages[f].pin_count - 1]
        BY <1>7
      <3>2. pages \in [Frames -> Page]
        BY DEF TypeOK
      <3> QED  BY <1>4, <2>1, <3>1, <3>2, ZeroAssumption, PageUpdated
    <2> QED  BY <1>7, <1>8, <2>2 DEF TypeOK, R!Status
  <1>11. TableMatchesFrames'
    BY <1>7, <1>9 DEF TableMatchesFrames, Resident, TypeOK
  <1>12. FreeFramesAreFree'
    <2>1. \A i \in 1 .. Len(free_list) : free_list[i] # f /\ free_list[i] \in Frames
      BY <1>1, <1>2 DEF FreeFramesAreFree, TypeOK
    <2> QED  BY <1>7, <1>9, <2>1 DEF FreeFramesAreFree
  <1>13. handle'[h] = NoPin /\ \A k \in Handles : k # h => handle'[k] = handle[k]
    BY <1>7 DEF TypeOK
  <1>14. PinnedPageStays'
    BY <1>7, <1>13 DEF PinnedPageStays, InUse
  <1>15. PinCountIsExact'
    <2>1. PinsOn(f)' = PinsOn(f) \ {h}
      BY <1>1, <1>13 DEF PinsOn, InUse
    <2>2. \A g \in Frames : g # f => PinsOn(g)' = PinsOn(g)
      BY <1>1, <1>13 DEF PinsOn, InUse
    <2>3. Cardinality(PinsOn(f)') = Cardinality(PinsOn(f)) - 1
      BY <1>3, <2>1, PinRemoved
    <2>4. pages'[f].pin_count = Cardinality(PinsOn(f)')
      BY <1>4, <1>9, <2>3 DEF PinCountIsExact
    <2>5. \A g \in Frames : g # f => pages'[g].pin_count = Cardinality(PinsOn(g)')
      BY <1>9, <2>2 DEF PinCountIsExact
    <2> QED  BY <2>4, <2>5 DEF PinCountIsExact
  <1>16. ReplacerMatchesPins'
    <2>1. /\ replacer'[f] = "evictable" => pages'[f].pin_count = 0
          /\ replacer'[f] = "protected" => pages'[f].pin_count > 0
          /\ pages'[f].pin_count > 0 => replacer'[f] = "protected"
      BY <1>5, <1>9
    <2>2. \E q \in PageIds : page_table'[q] = f
      BY <1>2, <1>7
    <2>3. ASSUME NEW g \in Frames, g # f
          PROVE  /\ replacer'[g] # "untracked" => \E q \in PageIds : page_table'[q] = g
                 /\ replacer'[g] = "evictable" => pages'[g].pin_count = 0
                 /\ replacer'[g] = "protected" => pages'[g].pin_count > 0
                 /\ pages'[g].pin_count > 0 => replacer'[g] = "protected"
      <3>1. replacer'[g] = replacer[g] /\ pages'[g] = pages[g] /\ page_table' = page_table
        BY <1>7, <1>9, <2>3
      <3> QED  BY <3>1 DEF ReplacerMatchesPins
    <2> QED  BY <2>1, <2>2, <2>3 DEF ReplacerMatchesPins
  <1>17. IdsAreAllocated'
    BY <1>7 DEF IdsAreAllocated, Resident
  <1> QED  BY <1>10, <1>11, <1>12, <1>14, <1>15, <1>16, <1>17

\* A step that only changes the data and the dirty flags of pages, the dirty flags of
\* pins and the contents of the disk disturbs nothing.
LEMMA ContentsOnlyConsistent ==
    ASSUME Consistent, UNCHANGED <<page_table, free_list, replacer, live>>,
           pages' \in [Frames -> Page],
           \A f \in Frames : /\ pages'[f].page_id = pages[f].page_id
                             /\ pages'[f].pin_count = pages[f].pin_count,
           handle' \in [Handles -> Pin \cup {NoPin}],
           \A h \in Handles :
              /\ handle'[h] = NoPin <=> handle[h] = NoPin
              /\ handle[h] # NoPin => /\ handle'[h].frame = handle[h].frame
                                     /\ handle'[h].page_id = handle[h].page_id,
           disk' \in Disk, disk'.next_page_id = disk.next_page_id,
           disk'.size <= disk'.next_page_id
    PROVE  Consistent'
  <1> USE DEF Consistent
  <1>1. TypeOK'
    BY DEF TypeOK
  <1>2. TableMatchesFrames'
    BY DEF TableMatchesFrames, Resident, TypeOK
  <1>3. FreeFramesAreFree'
    BY DEF FreeFramesAreFree
  <1>4. PinnedPageStays'
    BY DEF PinnedPageStays, InUse
  <1>5. PinCountIsExact'
    <2>1. \A f \in Frames : PinsOn(f)' = PinsOn(f)
      BY DEF PinsOn, InUse
    <2> QED  BY <2>1 DEF PinCountIsExact
  <1>6. ReplacerMatchesPins'
    BY DEF ReplacerMatchesPins
  <1>7. IdsAreAllocated'
    BY DEF IdsAreAllocated, Resident
  <1> QED  BY <1>1, <1>2, <1>3, <1>4, <1>5, <1>6, <1>7

\* A pin on which the caller has noted a write is a pin on the same page.
LEMMA PinDirtied ==
    ASSUME NEW q \in Pin
    PROVE  /\ [q EXCEPT !.dirty = TRUE] \in Pin
           /\ [q EXCEPT !.dirty = TRUE].frame = q.frame
           /\ [q EXCEPT !.dirty = TRUE].page_id = q.page_id
  BY DEF Pin

\* A caller writes into its page.
LEMMA WriteConsistent ==
    ASSUME Consistent, NEW h \in Handles, NEW v \in Data, Write(h, v)
    PROVE  Consistent'
  <1> USE DEF Consistent
  <1>1. handle[h] \in Pin /\ handle[h] # NoPin
    BY DEF Write, InUse, TypeOK
  <1>2. PICK f \in Frames : f = handle[h].frame
    BY <1>1 DEF Pin
  <1>3. /\ pages' = [pages EXCEPT ![f].data = v]
        /\ handle' = [handle EXCEPT ![h].dirty = TRUE]
        /\ UNCHANGED <<page_table, free_list, replacer, disk, live>>
    BY <1>2 DEF Write
  <1>4. pages' \in [Frames -> Page]
    <2>1. 0 \in Nat /\ TRUE \in BOOLEAN /\ pages \in [Frames -> Page]
      BY DEF TypeOK
    <2> QED  BY <1>3, <2>1, PageUpdated
  <1>5. \A g \in Frames : /\ pages'[g].page_id = pages[g].page_id
                          /\ pages'[g].pin_count = pages[g].pin_count
    BY <1>3 DEF TypeOK, Page
  <1>6. /\ [handle[h] EXCEPT !.dirty = TRUE] \in Pin
        /\ [handle[h] EXCEPT !.dirty = TRUE].frame = handle[h].frame
        /\ [handle[h] EXCEPT !.dirty = TRUE].page_id = handle[h].page_id
    BY <1>1, PinDirtied
  <1>7. [handle[h] EXCEPT !.dirty = TRUE] # NoPin
    BY <1>6, NoPinAssumption
  <1>8. handle' = [handle EXCEPT ![h] = [handle[h] EXCEPT !.dirty = TRUE]]
    BY <1>3
  <1>9. /\ handle' \in [Handles -> Pin \cup {NoPin}]
        /\ handle'[h] = [handle[h] EXCEPT !.dirty = TRUE]
        /\ \A k \in Handles : k # h => handle'[k] = handle[k]
    BY <1>6, <1>8 DEF TypeOK
  <1>10. \A k \in Handles :
            /\ handle'[k] = NoPin <=> handle[k] = NoPin
            /\ handle[k] # NoPin => /\ handle'[k].frame = handle[k].frame
                                   /\ handle'[k].page_id = handle[k].page_id
    BY <1>1, <1>6, <1>7, <1>9
  <1>11. disk' \in Disk /\ disk'.next_page_id = disk.next_page_id
         /\ disk'.size <= disk'.next_page_id
    BY <1>3 DEF TypeOK, IdsAreAllocated
  <1> QED  BY <1>3, <1>4, <1>5, <1>9, <1>10, <1>11, ContentsOnlyConsistent

\* A page of the pool goes to disk, or the attempt throws.
LEMMA FlushPageConsistent ==
    ASSUME Consistent, NEW p \in PageIds, FlushPage(p)
    PROVE  Consistent'
  <1> USE DEF Consistent
  <1>1. PICK f \in Frames : f = page_table[p]
    BY DEF FlushPage, TypeOK
  <1>2. /\ disk' \in WritePage(disk, p, pages[f].data)
        /\ pages' = IF disk'.io = "bad" THEN pages ELSE [pages EXCEPT ![f].is_dirty = FALSE]
        /\ UNCHANGED <<page_table, free_list, replacer, handle, live>>
    BY <1>1 DEF FlushPage
  <1>3. p < disk.next_page_id
    BY <1>1, Markers DEF IdsAreAllocated, Resident
  <1>4. disk \in Disk /\ pages[f].data \in Data /\ disk.size <= disk.next_page_id
    BY DEF TypeOK, Page, IdsAreAllocated
  <1>5. /\ disk' \in Disk /\ disk'.next_page_id = disk.next_page_id
        /\ disk'.size = disk.size \/ disk'.size = p + 1
    BY <1>2, <1>4, WritePageType
  <1>6. p \in Nat /\ disk.next_page_id \in Nat
    BY <1>4, DiskNumbers, Markers
  <1>7. disk'.size <= disk'.next_page_id
    BY <1>3, <1>4, <1>5, <1>6
  <1>8. pages' \in [Frames -> Page]
    <2>1. 0 \in Nat /\ FALSE \in BOOLEAN /\ pages \in [Frames -> Page]
      BY DEF TypeOK
    <2> QED  BY <1>2, <2>1, ZeroAssumption, PageUpdated
  <1>9. \A g \in Frames : /\ pages'[g].page_id = pages[g].page_id
                          /\ pages'[g].pin_count = pages[g].pin_count
    BY <1>2 DEF TypeOK, Page
  <1>10. handle' = handle /\ handle \in [Handles -> Pin \cup {NoPin}]
    BY <1>2 DEF TypeOK
  <1> QED  BY <1>2, <1>5, <1>7, <1>8, <1>9, <1>10, ContentsOnlyConsistent

\* WritePage throws out of a write-back: the victim is lost to the replacer, and its
\* page stays in the table.
LEMMA WriteBackThrowsConsistent ==
    ASSUME Consistent, NEW f \in Frames, WriteBackThrows(f)
    PROVE  Consistent'
  <1> USE DEF Consistent
  <1>1. /\ FrameFor(f) /\ MustWriteBack(f) /\ free_list = << >>
        /\ disk' \in WriteBack(f)
        /\ replacer' = ReplacerWithout(f)
        /\ UNCHANGED <<pages, page_table, free_list, handle, live>>
    BY DEF WriteBackThrows, MustWriteBack
  <1>2. /\ replacer' = [replacer EXCEPT ![f] = "untracked"]
        /\ pages[f].pin_count = 0
        /\ pages[f].page_id \in PageIds /\ page_table[pages[f].page_id] = f
    BY <1>1, FrameTaken
  <1>3. /\ disk' \in Disk /\ disk'.next_page_id = disk.next_page_id
        /\ disk'.size <= disk'.next_page_id
    BY <1>1, DiskAfterWriteBack
  <1>4. TypeOK'
    BY <1>1, <1>2, <1>3 DEF TypeOK, R!Status
  <1>5. TableMatchesFrames'
    BY <1>1 DEF TableMatchesFrames, Resident
  <1>6. FreeFramesAreFree'
    BY <1>1, <1>2 DEF FreeFramesAreFree, TypeOK
  <1>7. PinnedPageStays'
    BY <1>1 DEF PinnedPageStays, InUse
  <1>8. PinCountIsExact'
    BY <1>1 DEF PinCountIsExact, PinsOn, InUse
  <1>9. ReplacerMatchesPins'
    <2>1. replacer'[f] = "untracked" /\ \A g \in Frames : g # f => replacer'[g] = replacer[g]
      BY <1>2 DEF TypeOK
    <2> QED  BY <1>1, <1>2, <2>1 DEF ReplacerMatchesPins
  <1>10. IdsAreAllocated'
    BY <1>1, <1>3 DEF IdsAreAllocated, Resident
  <1> QED  BY <1>4, <1>5, <1>6, <1>7, <1>8, <1>9, <1>10

\* ReadPage throws out of FetchPage: the frame it obtained belongs to nobody.
LEMMA ReadBackThrowsConsistent ==
    ASSUME Consistent, NEW f \in Frames, ReadBackThrows(f)
    PROVE  Consistent'
  <1> USE DEF Consistent
  <1>1. /\ FrameFor(f)
        /\ pages' = [pages EXCEPT ![f].data = Zero]
        /\ page_table' = TableWithout(f)
        /\ free_list' = FreeListWithout
        /\ replacer' = ReplacerWithout(f)
        /\ UNCHANGED <<disk, handle, live>>
    BY DEF ReadBackThrows
  <1>2. replacer' = [replacer EXCEPT ![f] = "untracked"] /\ pages[f].pin_count = 0
    BY <1>1, FrameTaken
  <1>3. /\ page_table' \in [PageIds -> Frames \cup {NoFrame}]
        /\ \A q \in PageIds : /\ page_table'[q] # f
                              /\ page_table'[q] # NoFrame => page_table'[q] = page_table[q]
                              /\ page_table[q] # f => page_table'[q] = page_table[q]
        /\ free_list' \in Seq(Frames)
        /\ \A i, j \in 1 .. Len(free_list') : free_list'[i] = free_list'[j] => i = j
        /\ \A i \in 1 .. Len(free_list') : free_list'[i] # f /\ OnFreeList(free_list'[i])
        /\ PinsOn(f) = {}
    BY <1>1, FrameTaken
  <1>4. pages' \in [Frames -> Page]
    <2>1. 0 \in Nat /\ TRUE \in BOOLEAN /\ pages \in [Frames -> Page]
      BY DEF TypeOK
    <2> QED  BY <1>1, <2>1, ZeroAssumption, PageUpdated
  <1>5. \A g \in Frames : /\ pages'[g].page_id = pages[g].page_id
                          /\ pages'[g].pin_count = pages[g].pin_count
    BY <1>1 DEF TypeOK, Page
  <1>6. replacer'[f] = "untracked" /\ \A g \in Frames : g # f => replacer'[g] = replacer[g]
    BY <1>2 DEF TypeOK
  <1>7. TypeOK'
    BY <1>1, <1>2, <1>3, <1>4 DEF TypeOK, R!Status
  <1>8. TableMatchesFrames'
    BY <1>3, <1>5 DEF TableMatchesFrames, Resident, TypeOK
  <1>9. FreeFramesAreFree'
    <2>1. ASSUME NEW i \in 1 .. Len(free_list')
          PROVE  /\ replacer'[free_list'[i]] = "untracked"
                 /\ \A q \in PageIds : page_table'[q] # free_list'[i]
      <3>1. free_list'[i] \in Frames /\ free_list'[i] # f /\ OnFreeList(free_list'[i])
        BY <1>3
      <3>2. /\ replacer[free_list'[i]] = "untracked"
            /\ \A q \in PageIds : page_table[q] # free_list'[i]
        BY <3>1 DEF OnFreeList, FreeFramesAreFree
      <3> QED  BY <1>3, <1>6, <3>1, <3>2, Markers
    <2> QED  BY <1>3, <2>1 DEF FreeFramesAreFree
  <1>10. PinnedPageStays'
    <2>1. ASSUME NEW k \in Handles, handle[k] # NoPin
          PROVE  page_table'[handle[k].page_id] = handle[k].frame
      <3>1. handle[k] \in Pin
        BY <2>1 DEF TypeOK
      <3>2. handle[k].page_id \in PageIds
        BY <3>1 DEF Pin
      <3>3. page_table[handle[k].page_id] = handle[k].frame
        BY <2>1 DEF PinnedPageStays, InUse
      <3>4. handle[k].frame # f
        BY <1>3, <2>1 DEF PinsOn, InUse
      <3> QED  BY <1>3, <3>2, <3>3, <3>4
    <2> QED  BY <1>1, <2>1 DEF PinnedPageStays, InUse
  <1>11. PinCountIsExact'
    <2>1. \A g \in Frames : PinsOn(g)' = PinsOn(g)
      BY <1>1 DEF PinsOn, InUse
    <2> QED  BY <1>5, <2>1 DEF PinCountIsExact
  <1>12. ReplacerMatchesPins'
    <2>1. ASSUME NEW g \in Frames, replacer'[g] # "untracked"
          PROVE  \E q \in PageIds : page_table'[q] = g
      <3>1. g # f /\ replacer[g] # "untracked"
        BY <1>6, <2>1
      <3> QED  BY <1>3, <3>1 DEF ReplacerMatchesPins
    <2>2. ASSUME NEW g \in Frames
          PROVE  /\ replacer'[g] = "evictable" => pages'[g].pin_count = 0
                 /\ replacer'[g] = "protected" => pages'[g].pin_count > 0
                 /\ pages'[g].pin_count > 0 => replacer'[g] = "protected"
      <3>1. CASE g = f
        BY <1>2, <1>5, <1>6, <3>1
      <3>2. CASE g # f
        <4>1. replacer'[g] = replacer[g] /\ pages'[g].pin_count = pages[g].pin_count
          BY <1>5, <1>6, <3>2
        <4> QED  BY <4>1 DEF ReplacerMatchesPins
      <3> QED  BY <3>1, <3>2
    <2> QED  BY <2>1, <2>2 DEF ReplacerMatchesPins
  <1>13. IdsAreAllocated'
    BY <1>1, <1>3 DEF IdsAreAllocated, Resident
  <1> QED  BY <1>7, <1>8, <1>9, <1>10, <1>11, <1>12, <1>13

\* DeletePage of a page in the pool: its frame, unpinned, goes to the free list.
LEMMA DeletePageConsistent ==
    ASSUME Consistent, NEW p \in PageIds, DeletePage(p)
    PROVE  Consistent'
  <1> USE DEF Consistent
  <1>1. CASE page_table[p] = NoFrame
    <2>1. /\ page_table' = [page_table EXCEPT ![p] = NoFrame] /\ live' = live \ {p}
          /\ UNCHANGED <<pages, free_list, replacer, disk, handle>>
      BY <1>1 DEF DeletePage, Erase
    <2>2. page_table' = page_table
      BY <1>1, <2>1 DEF TypeOK
    <2>3. TypeOK'
      BY <2>1, <2>2 DEF TypeOK
    <2>4. TableMatchesFrames'
      BY <2>1, <2>2 DEF TableMatchesFrames, Resident
    <2>5. FreeFramesAreFree'
      BY <2>1, <2>2 DEF FreeFramesAreFree
    <2>6. PinnedPageStays'
      BY <2>1, <2>2 DEF PinnedPageStays, InUse
    <2>7. PinCountIsExact'
      BY <2>1 DEF PinCountIsExact, PinsOn, InUse
    <2>8. ReplacerMatchesPins'
      BY <2>1, <2>2 DEF ReplacerMatchesPins
    <2>9. IdsAreAllocated'
      BY <1>1, <2>1, <2>2 DEF IdsAreAllocated, Resident
    <2> QED  BY <2>3, <2>4, <2>5, <2>6, <2>7, <2>8, <2>9
  <1>2. CASE page_table[p] # NoFrame
    <2>1. PICK f \in Frames : f = page_table[p]
      BY <1>2 DEF TypeOK
    <2>2. /\ pages[f].pin_count = 0
          /\ page_table' = [page_table EXCEPT ![p] = NoFrame]
          /\ replacer' = R!AfterErase(replacer, f)
          /\ pages' = [pages EXCEPT ![f].page_id = INVALID_PAGE_ID,
                                    ![f].is_dirty = FALSE, ![f].data = Zero]
          /\ free_list' = Append(free_list, f)
          /\ live' = live \ {p}
          /\ UNCHANGED <<disk, handle>>
      BY <1>2, <2>1 DEF DeletePage, Erase
    <2>3. /\ replacer'[f] = "untracked" /\ replacer' \in [Frames -> R!Status]
          /\ \A g \in Frames : g # f => replacer'[g] = replacer[g]
      BY <2>2 DEF TypeOK, R!AfterErase, R!Status
    <2>4. /\ \A g \in Frames : /\ pages'[g].pin_count = pages[g].pin_count
                               /\ g # f => pages'[g] = pages[g]
          /\ pages' \in [Frames -> Page]
      <3>1. pages \in [Frames -> Page]
        BY DEF TypeOK
      <3>2. /\ [pages[f] EXCEPT !.page_id = INVALID_PAGE_ID, !.is_dirty = FALSE,
                                !.data = Zero] \in Page
            /\ [pages[f] EXCEPT !.page_id = INVALID_PAGE_ID, !.is_dirty = FALSE,
                                !.data = Zero].pin_count = pages[f].pin_count
        BY <3>1, PageErased
      <3> QED  BY <2>2, <3>1, <3>2
    <2>5. \A q \in PageIds : /\ q # p => page_table'[q] = page_table[q]
                             /\ page_table'[p] = NoFrame
                             /\ page_table[q] = f => q = p
      BY <1>2, <2>1, <2>2 DEF TypeOK, TableMatchesFrames, Resident
    <2>6. /\ free_list \in Seq(Frames) /\ free_list' \in Seq(Frames)
          /\ Len(free_list') = Len(free_list) + 1
          /\ Len(free_list) \in Nat
          /\ free_list'[Len(free_list) + 1] = f
          /\ \A i \in 1 .. Len(free_list) : /\ free_list'[i] = free_list[i]
                                            /\ free_list[i] \in Frames
      BY <2>2 DEF TypeOK
    <2>7. \A i \in 1 .. Len(free_list) : free_list[i] # f
      BY <2>1 DEF FreeFramesAreFree
    <2>8. PinsOn(f) = {}
      BY <2>2, PinsFinite DEF PinCountIsExact
    <2>9. TypeOK'
      BY <2>2, <2>3, <2>4, <2>6 DEF TypeOK
    <2>10. TableMatchesFrames'
      BY <1>2, <2>4, <2>5 DEF TableMatchesFrames, Resident, TypeOK
    <2>11. FreeFramesAreFree'
      <3>1. \A i, j \in 1 .. Len(free_list') : free_list'[i] = free_list'[j] => i = j
        BY <2>6, <2>7 DEF FreeFramesAreFree
      <3>2. ASSUME NEW i \in 1 .. Len(free_list')
            PROVE  /\ replacer'[free_list'[i]] = "untracked"
                   /\ \A q \in PageIds : page_table'[q] # free_list'[i]
        <4>1. CASE i = Len(free_list) + 1
          BY <2>3, <2>5, <2>6, <4>1, Markers
        <4>2. CASE i # Len(free_list) + 1
          <5>1. i \in 1 .. Len(free_list)
            BY <2>6, <4>2
          <5>2. /\ free_list'[i] = free_list[i] /\ free_list[i] # f
                /\ free_list[i] \in Frames
            BY <2>6, <2>7, <5>1
          <5>3. /\ replacer[free_list[i]] = "untracked"
                /\ \A q \in PageIds : page_table[q] # free_list[i]
            BY <5>1 DEF FreeFramesAreFree
          <5> QED  BY <2>3, <2>5, <5>2, <5>3, Markers
        <4> QED  BY <4>1, <4>2
      <3> QED  BY <3>1, <3>2 DEF FreeFramesAreFree
    <2>12. PinnedPageStays'
      <3>1. ASSUME NEW k \in Handles, handle[k] # NoPin
            PROVE  page_table'[handle[k].page_id] = handle[k].frame
        <4>1. handle[k] \in Pin
          BY <3>1 DEF TypeOK
        <4>2. handle[k].page_id \in PageIds
          BY <4>1 DEF Pin
        <4>3. page_table[handle[k].page_id] = handle[k].frame /\ handle[k].frame # f
          BY <2>8, <3>1 DEF PinnedPageStays, InUse, PinsOn
        <4> QED  BY <2>1, <2>5, <4>2, <4>3
      <3> QED  BY <2>2, <3>1 DEF PinnedPageStays, InUse
    <2>13. PinCountIsExact'
      <3>1. \A g \in Frames : PinsOn(g)' = PinsOn(g)
        BY <2>2 DEF PinsOn, InUse
      <3> QED  BY <2>4, <3>1 DEF PinCountIsExact
    <2>14. ReplacerMatchesPins'
      <3>1. ASSUME NEW g \in Frames, g # f
            PROVE  /\ replacer'[g] # "untracked" => \E q \in PageIds : page_table'[q] = g
                   /\ replacer'[g] = "evictable" => pages'[g].pin_count = 0
                   /\ replacer'[g] = "protected" => pages'[g].pin_count > 0
                   /\ pages'[g].pin_count > 0 => replacer'[g] = "protected"
        <4>1. replacer'[g] = replacer[g] /\ pages'[g] = pages[g]
          BY <2>3, <2>4, <3>1
        <4>2. \A q \in PageIds : page_table[q] = g => page_table'[q] = g
          BY <2>1, <2>5, <3>1
        <4> QED  BY <4>1, <4>2 DEF ReplacerMatchesPins
      <3>2. replacer'[f] = "untracked" /\ ~(pages'[f].pin_count > 0)
        BY <2>2, <2>3, <2>4
      <3> QED  BY <3>1, <3>2 DEF ReplacerMatchesPins
    <2>15. IdsAreAllocated'
      BY <2>2, <2>5 DEF IdsAreAllocated, Resident
    <2> QED  BY <2>9, <2>10, <2>11, <2>12, <2>13, <2>14, <2>15
  <1> QED  BY <1>1, <1>2

\* FlushAllPages writes some of the resident pages, each to its place.
LEMMA FlushAllPagesConsistent ==
    ASSUME Consistent, NEW S \in SUBSET PageIds, FlushAllPages(S)
    PROVE  Consistent'
  <1> USE DEF Consistent
  <1>1. /\ S \subseteq Resident
        /\ UNCHANGED <<page_table, free_list, replacer, handle, live>>
        /\ pages' = [f \in Frames |->
                        IF \E p \in S : page_table[p] = f
                        THEN [pages[f] EXCEPT !.is_dirty = FALSE] ELSE pages[f]]
    BY DEF FlushAllPages
  <1>2. \A f \in Frames :
           /\ [pages[f] EXCEPT !.is_dirty = FALSE] \in Page
           /\ [pages[f] EXCEPT !.is_dirty = FALSE].page_id = pages[f].page_id
           /\ [pages[f] EXCEPT !.is_dirty = FALSE].pin_count = pages[f].pin_count
    BY DEF TypeOK, Page
  <1>3. /\ pages' \in [Frames -> Page]
        /\ \A f \in Frames : /\ pages'[f].page_id = pages[f].page_id
                             /\ pages'[f].pin_count = pages[f].pin_count
    BY <1>1, <1>2 DEF TypeOK
  <1>4. disk \in Disk /\ disk.size <= disk.next_page_id
    BY DEF TypeOK, IdsAreAllocated
  <1>5. /\ disk' \in Disk /\ disk'.next_page_id = disk.next_page_id
        /\ disk'.size <= disk'.next_page_id
    <2>1. CASE disk.io = "good"
      <3>1. PICK d \in Written(disk, S, ResidentData) : disk' = d \/ disk' = Broken(d)
        BY <2>1 DEF FlushAllPages
      <3>2. \A p \in S : ResidentData[p] \in Data
        BY <1>1 DEF ResidentData, DataOf, Resident, TypeOK, Page
      <3>3. /\ d \in Disk /\ d.next_page_id = disk.next_page_id
            /\ d.size = disk.size \/ \E p \in S : d.size = p + 1
        BY <1>4, <3>1, <3>2, WrittenType
      <3>4. \A p \in S : p < disk.next_page_id /\ p \in Nat
        BY <1>1, Markers DEF IdsAreAllocated, Resident
      <3>5. d.size <= d.next_page_id
        BY <1>4, <3>3, <3>4, DiskNumbers
      <3> QED  BY <3>1, <3>3, <3>5, BrokenType
    <2>2. CASE disk.io # "good"
      BY <1>4, <2>2 DEF FlushAllPages
    <2> QED  BY <2>1, <2>2
  <1>6. handle' = handle /\ handle \in [Handles -> Pin \cup {NoPin}]
    BY <1>1 DEF TypeOK
  <1> QED  BY <1>1, <1>3, <1>5, <1>6, ContentsOnlyConsistent

\* The state the constructors leave, on a file with n pages, is consistent.
LEMMA FreshConsistent ==
    ASSUME pages = [f \in Frames |-> EmptyPage],
           page_table = [p \in PageIds |-> NoFrame],
           free_list = AllFramesFree,
           replacer = R!AllUntracked,
           disk \in Disk, disk.size = disk.next_page_id,
           handle = [h \in Handles |-> NoPin],
           live \in SUBSET PageIds, \A p \in live : p < disk.size
    PROVE  Consistent
  <1>1. TypeOK
    <2>1. EmptyPage \in Page
      BY ZeroAssumption DEF EmptyPage, Page
    <2>2. free_list \in Seq(Frames)
      BY PoolSizeAssumption DEF AllFramesFree, Frames
    <2>3. replacer \in [Frames -> R!Status]
      BY DEF R!AllUntracked, R!Status
    <2> QED  BY <2>1, <2>2, <2>3 DEF TypeOK
  <1>2. Resident = {}
    BY DEF Resident
  <1>3. \A f \in Frames : PinsOn(f) = {} /\ replacer[f] = "untracked" /\ pages[f].pin_count = 0
    BY DEF PinsOn, InUse, R!AllUntracked, EmptyPage
  <1>4. TableMatchesFrames
    BY <1>2 DEF TableMatchesFrames
  <1>5. FreeFramesAreFree
    <2>1. Len(free_list) = PoolSize /\ \A i \in 1 .. PoolSize : free_list[i] = i - 1
      BY PoolSizeAssumption DEF AllFramesFree
    <2>2. \A i \in 1 .. PoolSize : free_list[i] \in Frames
      BY <2>1, PoolSizeAssumption DEF Frames
    <2>3. \A i, j \in 1 .. Len(free_list) : free_list[i] = free_list[j] => i = j
      BY <2>1, PoolSizeAssumption
    <2> QED  BY <1>3, <2>1, <2>2, <2>3, Markers DEF FreeFramesAreFree
  <1>6. PinnedPageStays
    BY DEF PinnedPageStays, InUse
  <1>7. PinCountIsExact
    BY <1>3, FS_EmptySet DEF PinCountIsExact
  <1>8. ReplacerMatchesPins
    BY <1>3 DEF ReplacerMatchesPins
  <1>9. IdsAreAllocated
    BY <1>2, DiskNumbers DEF IdsAreAllocated
  <1> QED  BY <1>1, <1>4, <1>5, <1>6, <1>7, <1>8, <1>9 DEF Consistent

\* The first start, on an empty file.
LEMMA InitConsistent == Init => Consistent
  <1> SUFFICES ASSUME Init PROVE Consistent
    OBVIOUS
  <1>1. EmptyDisk \in Disk
    BY ZeroAssumption, Markers DEF EmptyDisk, Disk, IOStates
  <1>2. disk \in Disk /\ disk.size = disk.next_page_id
    BY <1>1 DEF Init, EmptyDisk
  <1> QED  BY <1>2, FreshConsistent DEF Init

\* A restart, on whatever the file holds.
LEMMA RestartConsistent ==
    ASSUME Consistent, Restart
    PROVE  Consistent'
  <1>1. Reopened(disk) \in Disk /\ Reopened(disk).size = Reopened(disk).next_page_id
        /\ Reopened(disk).size = disk.size
    BY DEF Consistent, TypeOK, Disk, Reopened, IOStates
  <1>2. /\ disk' \in Disk /\ disk'.size = disk'.next_page_id
        /\ live' \in SUBSET PageIds /\ \A p \in live' : p < disk'.size
    BY <1>1 DEF Restart
  <1>3. /\ pages' = [f \in Frames |-> EmptyPage]
        /\ page_table' = [p \in PageIds |-> NoFrame]
        /\ free_list' = AllFramesFree
        /\ replacer' = R!AllUntracked
        /\ handle' = [h \in Handles |-> NoPin]
    BY DEF Restart
  <1>4. R!AllUntracked' = R!AllUntracked
    BY DEF R!AllUntracked
  <1>5. (/\ pages = [f \in Frames |-> EmptyPage]
         /\ page_table = [p \in PageIds |-> NoFrame]
         /\ free_list = AllFramesFree
         /\ replacer = R!AllUntracked
         /\ disk \in Disk /\ disk.size = disk.next_page_id
         /\ handle = [h \in Handles |-> NoPin]
         /\ live \in SUBSET PageIds /\ \A p \in live : p < disk.size)'
    BY <1>2, <1>3, <1>4
  <1> QED  BY <1>5, FreshConsistent, PTL

-----------------------------------------------------------------------------
\* Every step of the pool and of its callers keeps the bookkeeping consistent.
LEMMA NextConsistent == Consistent /\ [Next]_vars => Consistent'
  <1> SUFFICES ASSUME Consistent, [Next]_vars PROVE Consistent'
    OBVIOUS
  <1>1. CASE \E h \in Handles, f \in Frames : NewPage(h, f)
    BY <1>1, NewPageConsistent
  <1>2. CASE \E h \in Handles, p \in PageIds : FetchResident(h, p)
    BY <1>2, FetchResidentConsistent
  <1>3. CASE \E h \in Handles, p \in PageIds, f \in Frames : FetchFromDisk(h, p, f)
    BY <1>3, FetchFromDiskConsistent
  <1>4. CASE \E h \in Handles : UnpinPage(h)
    BY <1>4, UnpinPageConsistent
  <1>5. CASE \E h \in Handles, v \in Data : Write(h, v)
    BY <1>5, WriteConsistent
  <1>6. CASE \E f \in Frames : WriteBackThrows(f)
    BY <1>6, WriteBackThrowsConsistent
  <1>7. CASE \E f \in Frames : ReadBackThrows(f)
    BY <1>7, ReadBackThrowsConsistent
  <1>8. CASE \E p \in PageIds : DeletePage(p)
    BY <1>8, DeletePageConsistent
  <1>9. CASE \E p \in PageIds : FlushPage(p)
    BY <1>9, FlushPageConsistent
  <1>10. CASE \E S \in SUBSET PageIds : FlushAllPages(S)
    BY <1>10, FlushAllPagesConsistent
  <1>11. CASE Restart
    BY <1>11, RestartConsistent
  <1>12. CASE UNCHANGED vars
    <2>1. UNCHANGED <<pages, page_table, free_list, replacer, disk, handle, live, written>>
      BY <1>12 DEF vars
    <2> QED  BY <2>1 DEF Consistent, TypeOK, TableMatchesFrames, FreeFramesAreFree,
                  PinnedPageStays, PinCountIsExact, ReplacerMatchesPins, IdsAreAllocated,
                  Resident, InUse, PinsOn
  <1> QED  BY <1>1, <1>2, <1>3, <1>4, <1>5, <1>6, <1>7, <1>8, <1>9, <1>10, <1>11, <1>12
           DEF Next

\* The bookkeeping of the buffer pool is always consistent.
THEOREM Invariance == Spec => []Consistent
  BY InitConsistent, NextConsistent, PTL DEF Spec

\* A Page* is safe to use until its holder unpins it: eviction, deletion, failed I/O and
\* the other callers never put another page into the frame it points to.
THEOREM PinSafety == Spec => []PinnedPageStays
  BY Invariance, PTL DEF Consistent

\* pin_count_ never drifts from the number of pins callers hold.
THEOREM PinCountCorrect == Spec => []PinCountIsExact
  BY Invariance, PTL DEF Consistent

\* The buffer pool and its replacer agree on which frames may be evicted.
THEOREM EvictionSafety == Spec => []ReplacerMatchesPins
  BY Invariance, PTL DEF Consistent

\* No page id is handed out twice while its page exists, restarts included.
THEOREM IdsCorrect == Spec => []IdsAreAllocated
  BY Invariance, PTL DEF Consistent

\* page_table_ and the frames never disagree: the frame a page is found in holds that page,
\* whatever was evicted, deleted or interrupted by an exception.
THEOREM TableCorrect == Spec => []TableMatchesFrames
  BY Invariance, PTL DEF Consistent

\* A frame on free_list_ is there once, is no page's frame and is unknown to the replacer,
\* so NewPage and FetchPage never take the same frame twice.
THEOREM FreeListCorrect == Spec => []FreeFramesAreFree
  BY Invariance, PTL DEF Consistent

-----------------------------------------------------------------------------
(* Frames. *)

\* Taking frame f from the free list leaves the others on it.
LEMMA StillFree ==
    ASSUME Consistent, NEW f \in Frames, FrameFor(f), NEW g \in Frames, g # f, OnFreeList(g)
    PROVE  \E i \in 1 .. Len(FreeListWithout) : FreeListWithout[i] = g
  <1>1. PICK i \in 1 .. Len(free_list) : free_list[i] = g
    BY DEF OnFreeList
  <1>2. free_list \in Seq(Frames) /\ free_list # << >>
    BY <1>1 DEF Consistent, TypeOK
  <1>3. f = free_list[1] /\ FreeListWithout = Tail(free_list)
    BY <1>2 DEF FrameFor, FreeListWithout
  <1>4. i # 1
    BY <1>1, <1>3
  <1>5. i - 1 \in 1 .. Len(Tail(free_list)) /\ Tail(free_list)[i - 1] = free_list[i]
    BY <1>1, <1>2, <1>4
  <1> QED  BY <1>1, <1>3, <1>5

\* A stream that is bad stays bad until a restart.
LEMMA BadStays ==
    ASSUME NEW f \in Frames, NEW d \in DisksForFrame(f), disk.io = "bad"
    PROVE  d.io = "bad"
  BY DEF DisksForFrame, WriteBack, WritePage

\* No step loses a frame that neither frees one nor takes one.
LEMMA FramesKept ==
    ASSUME NoFrameIsLost, free_list' = free_list,
           \A f \in Frames : replacer[f] # "untracked" => replacer'[f] # "untracked",
           disk.io = "bad" => disk'.io = "bad"
    PROVE  NoFrameIsLost'
  BY DEF NoFrameIsLost, OnFreeList

LEMMA InstallKeepsFrames ==
    ASSUME Consistent, NoFrameIsLost, NEW f \in Frames, FrameFor(f), NEW p, NEW v,
           Install(f, p, v), disk.io = "bad" => disk'.io = "bad"
    PROVE  NoFrameIsLost'
  <1> SUFFICES ASSUME disk'.io # "bad", NEW g \in Frames
               PROVE  OnFreeList(g)' \/ replacer'[g] # "untracked"
    BY DEF NoFrameIsLost
  <1>1. OnFreeList(g) \/ replacer[g] # "untracked"
    BY DEF NoFrameIsLost
  <1>2. replacer' = [replacer EXCEPT ![f] = "protected"]
    <2>1. ReplacerWithout(f) = [replacer EXCEPT ![f] = "untracked"]
      BY FrameTaken
    <2>2. ReplacerWithout(f) \in [Frames -> R!Status]
      BY <2>1 DEF Consistent, TypeOK, R!Status
    <2>3. replacer' = [ReplacerWithout(f) EXCEPT ![f] = "protected"]
      BY <2>2, PinnedProtects DEF Install
    <2> QED  BY <2>1, <2>3 DEF Consistent, TypeOK
  <1>3. CASE g = f
    BY <1>2, <1>3 DEF Consistent, TypeOK
  <1>4. CASE g # f
    <2>1. replacer'[g] = replacer[g]
      BY <1>2, <1>4 DEF Consistent, TypeOK
    <2>2. free_list' = FreeListWithout
      BY DEF Install
    <2>3. OnFreeList(g) => OnFreeList(g)'
      BY <1>4, <2>2, StillFree DEF OnFreeList
    <2> QED  BY <1>1, <2>1, <2>3
  <1> QED  BY <1>3, <1>4

LEMMA DeletePageKeepsFrames ==
    ASSUME Consistent, NoFrameIsLost, NEW p \in PageIds, DeletePage(p)
    PROVE  NoFrameIsLost'
  <1> SUFFICES ASSUME NEW f, f = page_table[p]
               PROVE  NoFrameIsLost'
    OBVIOUS
  <1>1. disk' = disk
    BY DEF DeletePage, Erase
  <1>2. CASE f = NoFrame
    BY <1>1, <1>2, FramesKept DEF DeletePage, Erase
  <1>3. CASE f # NoFrame
    <2>1. /\ f \in Frames /\ free_list \in Seq(Frames)
          /\ replacer' = R!AfterErase(replacer, f) /\ free_list' = Append(free_list, f)
      BY <1>3 DEF DeletePage, Erase, Consistent, TypeOK
    <2>2. /\ Len(free_list') = Len(free_list) + 1 /\ Len(free_list) \in Nat
          /\ free_list'[Len(free_list) + 1] = f
          /\ \A i \in 1 .. Len(free_list) : free_list'[i] = free_list[i]
      BY <2>1
    <2>3. OnFreeList(f)'
      BY <2>2 DEF OnFreeList
    <2>4. ASSUME NEW g \in Frames, g # f
          PROVE  /\ replacer'[g] = replacer[g]
                 /\ OnFreeList(g) => OnFreeList(g)'
      BY <2>1, <2>2, <2>4 DEF OnFreeList, R!AfterErase, Consistent, TypeOK
    <2> QED  BY <1>1, <2>3, <2>4 DEF NoFrameIsLost
  <1> QED  BY <1>2, <1>3

LEMMA RestartKeepsFrames ==
    ASSUME free_list = AllFramesFree
    PROVE  NoFrameIsLost
  <1>1. Len(free_list) = PoolSize /\ \A i \in 1 .. PoolSize : free_list[i] = i - 1
    BY PoolSizeAssumption DEF AllFramesFree
  <1>2. \A f \in Frames : f + 1 \in 1 .. PoolSize /\ free_list[f + 1] = f
    BY <1>1, PoolSizeAssumption DEF Frames
  <1> QED  BY <1>1, <1>2 DEF NoFrameIsLost, OnFreeList

LEMMA NextKeepsFrames ==
    ASSUME Consistent, NoFrameIsLost, [Next]_vars
    PROVE  NoFrameIsLost'
  <1> SUFFICES ASSUME disk'.io # "bad"
               PROVE  NoFrameIsLost'
    BY DEF NoFrameIsLost
  <1>1. ASSUME NEW h \in Handles, NEW f \in Frames, NewPage(h, f)
        PROVE  NoFrameIsLost'
    <2>1. disk.io = "bad" => disk'.io = "bad"
      BY <1>1, BadStays DEF NewPage, AfterAllocatePage
    <2> QED  BY <1>1, <2>1, InstallKeepsFrames DEF NewPage
  <1>2. ASSUME NEW h \in Handles, NEW p \in PageIds, FetchResident(h, p)
        PROVE  NoFrameIsLost'
    <2>1. /\ free_list' = free_list /\ disk' = disk /\ replacer' = Pinned(replacer, page_table[p])
          /\ page_table[p] \in Frames /\ replacer \in [Frames -> R!Status]
      BY <1>2 DEF FetchResident, Consistent, TypeOK
    <2>2. replacer' = [replacer EXCEPT ![page_table[p]] = "protected"]
      BY <2>1, PinnedProtects
    <2>3. \A f \in Frames : replacer[f] # "untracked" => replacer'[f] # "untracked"
      BY <2>1, <2>2
    <2> QED  BY <2>1, <2>3, FramesKept
  <1>3. ASSUME NEW h \in Handles, NEW p \in PageIds, NEW f \in Frames, FetchFromDisk(h, p, f)
        PROVE  NoFrameIsLost'
    <2>1. PICK d \in DisksForFrame(f) :
             ~ReadThrows(d) /\ FrameFor(f) /\ Install(f, p, ReadPage(d, p))
      BY <1>3 DEF FetchFromDisk
    <2>2. disk.io # "bad"
      BY <2>1, BadStays DEF ReadThrows
    <2> QED  BY <2>1, <2>2, InstallKeepsFrames
  <1>4. ASSUME NEW h \in Handles, UnpinPage(h)
        PROVE  NoFrameIsLost'
    <2>1. /\ free_list' = free_list /\ disk' = disk
          /\ \/ replacer' = replacer
             \/ replacer' = R!AfterSetEvictable(replacer, page_table[handle[h].page_id], TRUE)
      BY <1>4 DEF UnpinPage
    <2>2. \A f \in Frames : replacer[f] # "untracked" => replacer'[f] # "untracked"
      BY <2>1 DEF R!AfterSetEvictable, Consistent, TypeOK
    <2> QED  BY <2>1, <2>2, FramesKept
  <1>5. ASSUME NEW h \in Handles, NEW v \in Data, Write(h, v)
        PROVE  NoFrameIsLost'
    BY <1>5, FramesKept DEF Write
  <1>6. ASSUME NEW f \in Frames, WriteBackThrows(f)
        PROVE  NoFrameIsLost'
    BY <1>6 DEF WriteBackThrows
  <1>7. ASSUME NEW f \in Frames, ReadBackThrows(f)
        PROVE  NoFrameIsLost'
    BY <1>7 DEF ReadBackThrows, ReadThrows
  <1>8. ASSUME NEW p \in PageIds, FlushPage(p)
        PROVE  NoFrameIsLost'
    BY <1>8, FramesKept DEF FlushPage, WritePage
  <1>9. ASSUME NEW S \in SUBSET PageIds, FlushAllPages(S)
        PROVE  NoFrameIsLost'
    BY <1>9, FramesKept DEF FlushAllPages
  <1>10. CASE Restart
    <2>1. (free_list = AllFramesFree)'
      BY <1>10 DEF Restart
    <2> QED  BY <2>1, RestartKeepsFrames, PTL
  <1>11. CASE UNCHANGED vars
    BY <1>11, FramesKept DEF vars
  <1> QED  BY <1>1, <1>2, <1>3, <1>4, <1>5, <1>6, <1>7, <1>8, <1>9, <1>10, <1>11,
              DeletePageKeepsFrames DEF Next

(***************************************************************************)
(* Until an I/O error, every frame is on free_list_, pinned or evictable:  *)
(* NewPage and FetchPage find a frame unless all of them are pinned.       *)
(***************************************************************************)
THEOREM FramesCorrect == Spec => []NoFrameIsLost
  <1>1. Init => NoFrameIsLost
    BY RestartKeepsFrames DEF Init
  <1>2. Consistent /\ NoFrameIsLost /\ [Next]_vars => NoFrameIsLost'
    BY NextKeepsFrames
  <1> QED  BY <1>1, <1>2, Invariance, PTL DEF Spec

-----------------------------------------------------------------------------
(* Contents. *)

\* A disk whose stream works or throws, and whose file is zero beyond its end.
Sound(d) ==
    /\ d \in Disk
    /\ d.io # "fail"
    /\ \A p \in PageIds : ~(p < d.size) => d.content[p] = Zero

\* e is d after the pages of S were written as data, and nothing else.
Saves(d, e, S, data) ==
    /\ d.size <= e.size
    /\ \A p \in S : p < e.size
    /\ \A p \in PageIds : e.content[p] = IF p \in S THEN data[p] ELSE d.content[p]

LEMMA WrittenSaves ==
    ASSUME NEW d, Sound(d), NEW S \in SUBSET PageIds, NEW data,
           \A p \in S : data[p] \in Data,
           NEW e \in Written(d, S, data)
    PROVE  Sound(e) /\ Saves(d, e, S, data)
  <1>0. d \in Disk
    BY DEF Sound
  <1>1. /\ e \in Disk
        /\ e.io = "good"
        /\ e.size >= d.size
        /\ \A p \in S : p < e.size
        /\ \A p \in PageIds : e.content[p] = IF p \in S THEN data[p] ELSE d.content[p]
    BY <1>0, WrittenType
  <1>2. d.size <= e.size
    BY <1>0, <1>1, DiskNumbers
  <1>3. \A p \in PageIds : p < d.size => p < e.size
    BY <1>0, <1>1, <1>2, DiskNumbers, Markers
  <1>4. \A p \in PageIds : ~(p < e.size) => e.content[p] = Zero
    BY <1>1, <1>3 DEF Sound
  <1> QED  BY <1>1, <1>2, <1>4 DEF Sound, Saves

\* A broken stream still has the file it had.
LEMMA BrokenSaves ==
    ASSUME NEW d, NEW e, Sound(e), NEW S, NEW data, Saves(d, e, S, data)
    PROVE  Sound(Broken(e)) /\ Saves(d, Broken(e), S, data)
  <1>1. e \in Disk
    BY DEF Sound
  <1> HIDE DEF Broken
  <1> QED  BY <1>1, BrokenType DEF Sound, Saves

LEMMA SavesNothing ==
    ASSUME NEW d, Sound(d), NEW data
    PROVE  Saves(d, d, {}, data)
  <1>1. d.size <= d.size
    BY DiskNumbers DEF Sound
  <1> QED  BY <1>1 DEF Saves

\* WritePage saves its page, or the stream is bad and nothing is written.
LEMMA WritePageSaves ==
    ASSUME NEW d, Sound(d), NEW p \in PageIds, NEW v \in Data,
           NEW e \in WritePage(d, p, v)
    PROVE  /\ Sound(e)
           /\ e.io # "bad" => Saves(d, e, {p}, [q \in {p} |-> v])
           /\ e.io = "bad" => Saves(d, e, {}, [q \in {p} |-> v])
  <1> DEFINE data == [q \in {p} |-> v]
  <1>1. CASE d.io = "good" /\ e \in Written(d, {p}, data)
    <2>1. e.io = "good"
      BY <1>1 DEF Written
    <2>2. {p} \in SUBSET PageIds /\ \A q \in {p} : data[q] \in Data
      OBVIOUS
    <2>3. Sound(e) /\ Saves(d, e, {p}, data)
      <3> HIDE DEF data
      <3> QED  BY <1>1, <2>2, WrittenSaves
    <2> QED  BY <2>1, <2>3
  <1>2. CASE d.io = "good" /\ e = Broken(d)
    <2>1. e.io = "bad"
      BY <1>2 DEF Broken
    <2> QED  BY <1>2, <2>1, SavesNothing, BrokenSaves
  <1>3. CASE d.io # "good" /\ e = d
    <2>1. e.io = "bad"
      BY <1>3 DEF Sound, Disk, IOStates
    <2> QED  BY <1>3, <2>1, SavesNothing
  <1> QED  BY <1>1, <1>2, <1>3 DEF WritePage

\* Page p, in memory, is or will be marked dirty; or the file has it as it is.
Marked(p) == \/ pages[page_table[p]].is_dirty
             \/ \E h \in PinsOn(page_table[p]) : handle[h].dirty

Saved(p) == p < disk.size /\ disk.content[p] = DataOf(p)

(***************************************************************************)
(* The inductive invariant of the contents.  A victim that is not dirty is *)
(* safe to drop because its page is saved; that a page outside the pool is *)
(* in the file follows from it, and keeps the stream out of the "fail"     *)
(* state in which writes would be dropped silently; that the file is zero  *)
(* beyond its end says what a gap holds that a later write leaves.         *)
(***************************************************************************)
DataInv == Sound(disk) /\ CleanPageIsOnDisk /\ NonResidentIsInFile

PageInv(p) ==
    /\ page_table[p] # NoFrame => Marked(p) \/ Saved(p)
    /\ p \in live /\ page_table[p] = NoFrame => p < disk.size

LEMMA DataInvIs ==
    /\ Consistent => (DataInv <=> Sound(disk) /\ \A p \in PageIds : PageInv(p))
    /\ Consistent' => (DataInv' <=> Sound(disk') /\ \A p \in PageIds : PageInv(p)')
  <1>1. ASSUME Consistent PROVE DataInv <=> Sound(disk) /\ \A p \in PageIds : PageInv(p)
    <2>1. live \in SUBSET PageIds
      BY <1>1 DEF Consistent, TypeOK
    <2>2. CleanPageIsOnDisk <=>
             \A p \in PageIds : page_table[p] # NoFrame => Marked(p) \/ Saved(p)
      BY DEF CleanPageIsOnDisk, Resident, Marked, Saved
    <2>3. NonResidentIsInFile <=>
             /\ \A p \in PageIds : p \in live /\ page_table[p] = NoFrame => p < disk.size
             /\ disk.io # "fail"
      BY <2>1 DEF NonResidentIsInFile, Resident
    <2> QED  BY <2>2, <2>3 DEF DataInv, Sound, PageInv
  <1>2. ASSUME Consistent' PROVE DataInv' <=> Sound(disk') /\ \A p \in PageIds : PageInv(p)'
    <2>1. live' \in SUBSET PageIds
      BY <1>2 DEF Consistent, TypeOK
    <2>2. CleanPageIsOnDisk' <=>
             \A p \in PageIds : page_table'[p] # NoFrame => Marked(p)' \/ Saved(p)'
      BY DEF CleanPageIsOnDisk, Resident, Marked, Saved
    <2>3. NonResidentIsInFile' <=>
             /\ \A p \in PageIds : p \in live' /\ page_table'[p] = NoFrame => p < disk'.size
             /\ disk'.io # "fail"
      BY <2>1 DEF NonResidentIsInFile, Resident
    <2> QED  BY <2>2, <2>3 DEF DataInv, Sound, PageInv
  <1> QED  BY <1>1, <1>2

\* What there is to know of the types.
LEMMA PageTypes ==
    ASSUME Consistent
    PROVE  /\ disk \in Disk /\ disk.size \in Nat
           /\ pages \in [Frames -> Page]
           /\ \A f \in Frames : pages[f].data \in Data
           /\ page_table \in [PageIds -> Frames \cup {NoFrame}]
           /\ \A p, q \in PageIds :
                 page_table[p] # NoFrame /\ page_table[p] = page_table[q] => p = q
           /\ live \in SUBSET PageIds
           /\ \A p \in PageIds : page_table[p] # NoFrame => p \in live
  <1>1. disk \in Disk /\ disk.size \in Nat
    BY DiskNumbers DEF Consistent, TypeOK
  <1>2. /\ pages \in [Frames -> Page] /\ page_table \in [PageIds -> Frames \cup {NoFrame}]
        /\ live \in SUBSET PageIds
    BY DEF Consistent, TypeOK
  <1>3. \A f \in Frames : pages[f].data \in Data
    BY <1>2 DEF Page
  <1>4. \A p, q \in PageIds :
           page_table[p] # NoFrame /\ page_table[p] = page_table[q] => p = q
    BY DEF Consistent, TableMatchesFrames, Resident
  <1>5. \A p \in PageIds : page_table[p] # NoFrame => p \in live
    BY DEF Consistent, IdsAreAllocated, Resident
  <1> QED  BY <1>1, <1>2, <1>3, <1>4, <1>5

\* The page whose frame is taken is in the file, as it was in memory; the rest of the
\* file is as before.
LEMMA VictimSaved ==
    ASSUME Consistent, DataInv, NEW f \in Frames, FrameFor(f), NEW d \in DisksForFrame(f)
    PROVE  /\ Sound(d)
           /\ disk.size <= d.size
           /\ \A q \in PageIds :
                 /\ page_table[q] = f => q < d.size /\ d.content[q] = DataOf(q)
                 /\ page_table[q] # f => d.content[q] = disk.content[q]
  <1>1. Sound(disk) /\ disk.size <= disk.size /\ \A q \in PageIds : PageInv(q)
    BY DataInvIs, PageTypes
  <1>2. CASE free_list # << >>
    <2>1. d = disk
      BY <1>2 DEF DisksForFrame, MustWriteBack
    <2>2. \A q \in PageIds : page_table[q] # f
      BY <1>2, FrameTaken DEF TableWithout
    <2> QED  BY <1>1, <2>1, <2>2
  <1>3. CASE free_list = << >>
    <2>1. PICK p \in PageIds : p = pages[f].page_id /\ page_table[p] = f
      BY <1>3, FrameTaken
    <2>2. \A q \in PageIds : page_table[q] = f => q = p
      BY <2>1, PageTypes, Markers
    <2>3. CASE ~MustWriteBack(f)
      <3>1. d = disk
        BY <2>3 DEF DisksForFrame
      <3>2. ~Marked(p)
        BY <1>3, <2>1, <2>3, FrameTaken DEF MustWriteBack, Marked
      <3>3. Saved(p)
        BY <1>1, <2>1, <3>2, Markers DEF PageInv
      <3> QED  BY <1>1, <2>2, <3>1, <3>3 DEF Saved
    <2>4. CASE MustWriteBack(f)
      <3> DEFINE data == [q \in {p} |-> pages[f].data]
      <3>1. d \in WritePage(disk, p, pages[f].data) /\ d.io # "bad"
        BY <2>1, <2>4 DEF DisksForFrame, WriteBack
      <3>2. Sound(d) /\ Saves(disk, d, {p}, data)
        <4>1. pages[f].data \in Data
          BY PageTypes
        <4> QED  BY <1>1, <3>1, <4>1, WritePageSaves
      <3>3. data[p] = DataOf(p)
        BY <2>1 DEF DataOf
      <3> HIDE DEF data
      <3>4. \A q \in PageIds : d.content[q] = IF q = p THEN DataOf(p) ELSE disk.content[q]
        BY <3>2, <3>3 DEF Saves
      <3>5. p < d.size /\ disk.size <= d.size
        BY <3>2 DEF Saves
      <3> QED  BY <2>1, <2>2, <3>2, <3>4, <3>5
    <2> QED  BY <2>3, <2>4
  <1> QED  BY <1>2, <1>3

\* A page that stays in its frame, whose data and marks nobody takes away and whose
\* place in the file is not written, is as safe as it was.
LEMMA StaysSafe ==
    ASSUME Consistent, NEW q \in PageIds, PageInv(q),
           NEW g \in Frames, page_table[q] = g, page_table'[q] = g,
           pages'[g].data = pages[g].data,
           pages[g].is_dirty => pages'[g].is_dirty,
           \A k \in PinsOn(g) : k \in PinsOn(g)' /\ handle'[k].dirty = handle[k].dirty,
           disk'.size \in Nat, disk.size <= disk'.size, disk'.content[q] = disk.content[q]
    PROVE  PageInv(q)'
  <1>1. g # NoFrame
    BY Markers
  <1>2. DataOf(q)' = DataOf(q)
    BY DEF DataOf
  <1>3. Saved(q) => Saved(q)'
    <2>1. disk.size \in Nat /\ q \in Nat
      BY PageTypes, Markers
    <2> QED  BY <1>2, <2>1 DEF Saved
  <1>4. Marked(q) => Marked(q)'
    BY DEF Marked
  <1> QED  BY <1>1, <1>3, <1>4 DEF PageInv

\* The page table without the page of f.
LEMMA TableWithoutIs ==
    ASSUME Consistent, NEW f \in Frames, FrameFor(f)
    PROVE  \A q \in PageIds :
              TableWithout(f)[q] = IF page_table[q] = f THEN NoFrame ELSE page_table[q]
  BY FrameTaken

\* A page outside the pool that the file keeps as it was is safe there.
LEMMA StaysOut ==
    ASSUME Consistent, NEW q \in PageIds, PageInv(q),
           page_table[q] = NoFrame, page_table'[q] = NoFrame, q \in live' => q \in live,
           disk'.size \in Nat, disk.size <= disk'.size
    PROVE  PageInv(q)'
  <1>1. disk.size \in Nat /\ q \in Nat
    BY PageTypes, Markers
  <1> QED  BY <1>1 DEF PageInv

LEMMA InstallData ==
    ASSUME Consistent, DataInv, Consistent', NEW f \in Frames, FrameFor(f),
           NEW p \in PageIds, page_table[p] = NoFrame, NEW v \in Data,
           NEW h \in Handles, ~InUse(h), NEW b \in BOOLEAN,
           Install(f, p, v),
           handle' = [handle EXCEPT ![h] = [frame |-> f, page_id |-> p, dirty |-> b]],
           NEW d \in DisksForFrame(f), Sound(disk'),
           disk'.content = d.content, disk'.size = d.size,
           \A q \in live' : q # p => q \in live,
           b \/ (p < d.size /\ d.content[p] = v)
    PROVE  DataInv'
  <1> DEFINE pin == [frame |-> f, page_id |-> p, dirty |-> b]
  <1> SUFFICES ASSUME NEW q \in PageIds PROVE PageInv(q)'
    BY DataInvIs
  <1>1. /\ disk'.size \in Nat /\ disk.size <= disk'.size
        /\ page_table[q] = f => q < disk'.size
        /\ page_table[q] # f => disk'.content[q] = disk.content[q]
    BY VictimSaved, DiskNumbers DEF Sound
  <1>2. PageInv(q)
    BY DataInvIs
  <1>3. /\ pages'[f].data = v /\ pages'[f].is_dirty = FALSE
        /\ \A g \in Frames : g # f => pages'[g] = pages[g]
    BY PageTypes DEF Install
  <1>4. page_table'[q] = IF q = p THEN f
                         ELSE IF page_table[q] = f THEN NoFrame ELSE page_table[q]
    BY TableWithoutIs, FrameTaken DEF Install
  <1>5. /\ handle'[h] = pin /\ pin # NoPin
        /\ \A k \in Handles : k # h => handle'[k] = handle[k]
    BY PinType DEF Consistent, TypeOK
  <1>6. CASE q = p
    <2>1. page_table'[p] = f /\ DataOf(p)' = v
      BY <1>3, <1>4, <1>6 DEF DataOf
    <2>2. h \in PinsOn(f)' /\ handle'[h].dirty = b
      BY <1>5 DEF PinsOn, InUse
    <2>3. CASE b
      BY <1>6, <2>1, <2>2, <2>3, Markers DEF PageInv, Marked
    <2>4. CASE ~b
      <3>1. Saved(p)'
        BY <2>1, <2>4 DEF Saved
      <3> QED  BY <1>6, <2>1, <3>1, Markers DEF PageInv
    <2> QED  BY <2>3, <2>4
  <1>7. CASE q # p /\ page_table[q] = f
    BY <1>1, <1>4, <1>7 DEF PageInv
  <1>8. CASE q # p /\ page_table[q] = NoFrame
    <2>1. page_table'[q] = NoFrame /\ (q \in live' => q \in live)
      BY <1>4, <1>8, Markers
    <2> QED  BY <1>1, <1>2, <1>8, <2>1, StaysOut
  <1>9. CASE q # p /\ page_table[q] # f /\ page_table[q] # NoFrame
    <2>1. PICK g \in Frames : g = page_table[q]
      BY <1>9, PageTypes
    <2>2. page_table'[q] = g /\ pages'[g] = pages[g]
      BY <1>3, <1>4, <1>9, <2>1
    <2>3. \A k \in PinsOn(g) : k \in PinsOn(g)' /\ handle'[k] = handle[k]
      BY <1>5 DEF PinsOn, InUse
    <2> QED  BY <1>1, <1>2, <1>9, <2>1, <2>2, <2>3, StaysSafe
  <1> QED  BY <1>6, <1>7, <1>8, <1>9

\* A caller that unpins a page it created tells the pool that it is dirty.
LEMMA NewPageData ==
    ASSUME Consistent, DataInv, Consistent', ~CleanNewPages,
           NEW h \in Handles, NEW f \in Frames, NewPage(h, f)
    PROVE  DataInv'
  <1> SUFFICES ASSUME NEW p, p = disk.next_page_id
               PROVE  DataInv'
    OBVIOUS
  <1>1. /\ ~InUse(h) /\ FrameFor(f) /\ Install(f, p, Zero) /\ live' = live \cup {p}
        /\ handle' = [handle EXCEPT ![h] = [frame |-> f, page_id |-> p, dirty |-> TRUE]]
        /\ p < MaxPages
    BY DEF NewPage
  <1>2. PICK d \in DisksForFrame(f) : disk' = AfterAllocatePage(d)
    BY DEF NewPage
  <1>3. p \in PageIds
    BY <1>1, DiskNumbers, PageTypes, MaxPagesAssumption DEF PageIds
  <1>4. page_table[p] = NoFrame
    <2>1. ~(p < p)
      BY <1>3, Markers
    <2>2. p \notin live
      BY <2>1 DEF Consistent, IdsAreAllocated
    <2> QED  BY <1>3, <2>2, PageTypes
  <1>5. disk'.content = d.content /\ disk'.size = d.size /\ disk'.io = d.io
    BY <1>2 DEF AfterAllocatePage
  <1>6. Sound(disk')
    <2>1. disk' \in Disk
      BY DEF Consistent, TypeOK
    <2> QED  BY <1>1, <1>5, <2>1, VictimSaved DEF Sound
  <1> QED  BY <1>1, <1>3, <1>4, <1>5, <1>6, InstallData, ZeroAssumption

LEMMA FetchFromDiskData ==
    ASSUME Consistent, DataInv, Consistent',
           NEW h \in Handles, NEW p \in PageIds, NEW f \in Frames, FetchFromDisk(h, p, f)
    PROVE  DataInv'
  <1>1. PICK d \in DisksForFrame(f) :
           disk' = AfterReadPage(d, p) /\ Install(f, p, ReadPage(d, p))
    BY DEF FetchFromDisk
  <1>2. /\ ~InUse(h) /\ FrameFor(f) /\ p \in live /\ page_table[p] = NoFrame /\ live' = live
        /\ handle' = [handle EXCEPT ![h] = [frame |-> f, page_id |-> p, dirty |-> FALSE]]
    BY DEF FetchFromDisk
  <1>3. Sound(d) /\ disk.size <= d.size
    BY <1>2, VictimSaved
  <1>4. p < disk.size
    BY <1>2, DataInvIs DEF PageInv
  <1>5. p < d.size
    BY <1>3, <1>4, DiskNumbers, PageTypes, Markers DEF Sound
  <1>6. disk' = d /\ ReadPage(d, p) = d.content[p]
    BY <1>1, <1>3, <1>5 DEF AfterReadPage, ReadPage, Sound
  <1>7. d.content[p] \in Data
    BY <1>3 DEF Sound, Disk
  <1> QED  BY <1>1, <1>2, <1>3, <1>5, <1>6, <1>7, InstallData

LEMMA FetchResidentData ==
    ASSUME Consistent, DataInv, Consistent',
           NEW h \in Handles, NEW p \in PageIds, FetchResident(h, p)
    PROVE  DataInv'
  <1> SUFFICES ASSUME NEW q \in PageIds PROVE PageInv(q)'
    BY DataInvIs DEF FetchResident
  <1>1. PageInv(q) /\ disk.size \in Nat /\ disk.size <= disk.size
    BY DataInvIs, PageTypes
  <1>2. PICK f \in Frames : f = page_table[p]
    BY PageTypes DEF FetchResident
  <1>3. /\ pages' = [pages EXCEPT ![f].pin_count = @ + 1]
        /\ UNCHANGED <<page_table, disk, live>>
        /\ \E b : handle' = [handle EXCEPT ![h] = b]
        /\ ~InUse(h)
    BY <1>2 DEF FetchResident
  <1>4. CASE page_table[q] = NoFrame
    BY <1>1, <1>3, <1>4, StaysOut
  <1>5. CASE page_table[q] # NoFrame
    <2>1. PICK g \in Frames : g = page_table[q]
      BY <1>5, PageTypes
    <2>2. pages'[g].data = pages[g].data /\ pages'[g].is_dirty = pages[g].is_dirty
      BY <1>3, PageTypes
    <2>3. \A k \in PinsOn(g) : k \in PinsOn(g)' /\ handle'[k] = handle[k]
      BY <1>3 DEF PinsOn, InUse, Consistent, TypeOK
    <2> QED  BY <1>1, <1>3, <2>1, <2>2, <2>3, StaysSafe
  <1> QED  BY <1>4, <1>5

\* Who unpins a page passes his mark on to the page.
LEMMA UnpinPageData ==
    ASSUME Consistent, DataInv, Consistent', NEW h \in Handles, UnpinPage(h)
    PROVE  DataInv'
  <1> SUFFICES ASSUME NEW q \in PageIds PROVE PageInv(q)'
    BY DataInvIs DEF UnpinPage
  <1>1. PageInv(q) /\ disk.size \in Nat /\ disk.size <= disk.size
    BY DataInvIs, PageTypes
  <1>2. /\ InUse(h) /\ handle[h] \in Pin /\ handle[h].frame \in Frames
        /\ handle[h].dirty \in BOOLEAN
        /\ page_table[handle[h].page_id] = handle[h].frame
    <2>1. InUse(h) /\ handle[h] \in Pin
      BY DEF UnpinPage, InUse, Consistent, TypeOK
    <2> QED  BY <2>1 DEF Pin, Consistent, PinnedPageStays
  <1> SUFFICES ASSUME NEW f \in Frames, f = handle[h].frame, NEW b \in BOOLEAN,
                      b = handle[h].dirty
               PROVE  PageInv(q)'
    BY <1>2
  <1>3. h \in PinsOn(f) /\ f # NoFrame /\ pages[f].pin_count > 0
    <2>1. h \in PinsOn(f)
      BY <1>2 DEF PinsOn
    <2>2. Cardinality(PinsOn(f)) > 0
      BY <2>1, PinsFinite
    <2> QED  BY <2>1, <2>2, Markers DEF Consistent, PinCountIsExact
  <1>4. /\ pages' = [pages EXCEPT ![f].is_dirty = pages[f].is_dirty \/ b,
                                  ![f].pin_count = pages[f].pin_count - 1]
        /\ UNCHANGED <<page_table, disk, live>>
        /\ handle' = [handle EXCEPT ![h] = NoPin]
    BY <1>2, <1>3 DEF UnpinPage
  <1>5. /\ \A g \in Frames : pages'[g].data = pages[g].data
        /\ \A g \in Frames : pages[g].is_dirty => pages'[g].is_dirty
        /\ b => pages'[f].is_dirty
    BY <1>4, PageTypes DEF Page
  <1>6. \A g \in Frames : \A k \in PinsOn(g) :
           k # h => k \in PinsOn(g)' /\ handle'[k].dirty = handle[k].dirty
    BY <1>4 DEF PinsOn, InUse, Consistent, TypeOK
  <1>7. CASE page_table[q] = NoFrame
    BY <1>1, <1>4, <1>7, StaysOut
  <1>8. CASE page_table[q] = f /\ b
    BY <1>3, <1>4, <1>5, <1>8 DEF PageInv, Marked
  <1>9. CASE page_table[q] = f /\ ~b
    <2>1. Marked(q) => Marked(q)'
      BY <1>4, <1>5, <1>6, <1>9 DEF Marked
    <2>2. Saved(q) => Saved(q)'
      BY <1>4, <1>5, <1>9 DEF Saved, DataOf
    <2> QED  BY <1>1, <1>3, <1>4, <1>9, <2>1, <2>2 DEF PageInv
  <1>10. CASE page_table[q] # f /\ page_table[q] # NoFrame
    <2>1. PICK g \in Frames : g = page_table[q] /\ g # f
      BY <1>10, PageTypes
    <2>2. h \notin PinsOn(g)
      BY <2>1 DEF PinsOn
    <2> QED  BY <1>1, <1>4, <1>5, <1>6, <2>1, <2>2, StaysSafe
  <1> QED  BY <1>7, <1>8, <1>9, <1>10

LEMMA WriteData ==
    ASSUME Consistent, DataInv, Consistent', NEW h \in Handles, NEW v \in Data, Write(h, v)
    PROVE  DataInv'
  <1> SUFFICES ASSUME NEW q \in PageIds PROVE PageInv(q)'
    BY DataInvIs DEF Write
  <1>1. PageInv(q) /\ disk.size \in Nat /\ disk.size <= disk.size
    BY DataInvIs, PageTypes
  <1>2. InUse(h) /\ handle[h] \in Pin /\ handle[h].frame \in Frames
    <2>1. InUse(h) /\ handle[h] \in Pin
      BY DEF Write, InUse, Consistent, TypeOK
    <2> QED  BY <2>1 DEF Pin
  <1> SUFFICES ASSUME NEW f \in Frames, f = handle[h].frame
               PROVE  PageInv(q)'
    BY <1>2
  <1>3. /\ pages' = [pages EXCEPT ![f].data = v]
        /\ handle' = [handle EXCEPT ![h].dirty = TRUE]
        /\ UNCHANGED <<page_table, disk, live>>
    BY DEF Write
  <1>4. h \in PinsOn(f)' /\ handle'[h].dirty
    <2>1. [handle[h] EXCEPT !.dirty = TRUE] \in Pin
      BY <1>2 DEF Pin
    <2>2. handle'[h] = [handle[h] EXCEPT !.dirty = TRUE]
      BY <1>3 DEF Consistent, TypeOK
    <2>3. handle'[h].frame = f /\ handle'[h].dirty
      BY <1>2, <2>2 DEF Pin
    <2> QED  BY <2>1, <2>2, <2>3, NoPinAssumption DEF PinsOn, InUse
  <1>5. CASE page_table[q] = NoFrame
    BY <1>1, <1>3, <1>5, StaysOut
  <1>6. CASE page_table[q] = f
    BY <1>3, <1>4, <1>6, Markers DEF PageInv, Marked
  <1>7. CASE page_table[q] # NoFrame /\ page_table[q] # f
    <2>1. PICK g \in Frames : g = page_table[q] /\ g # f
      BY <1>7, PageTypes
    <2>2. pages'[g] = pages[g]
      BY <1>3, <2>1, PageTypes
    <2>3. \A k \in PinsOn(g) : k \in PinsOn(g)' /\ handle'[k] = handle[k]
      BY <1>3, <2>1 DEF PinsOn, InUse, Consistent, TypeOK
    <2> QED  BY <1>1, <1>3, <2>1, <2>2, <2>3, StaysSafe
  <1> QED  BY <1>5, <1>6, <1>7

\* Steps that may only break the stream.
LEMMA WriteBackThrowsData ==
    ASSUME Consistent, DataInv, Consistent', NEW f \in Frames, WriteBackThrows(f)
    PROVE  DataInv'
  <1>1. /\ FrameFor(f) /\ MustWriteBack(f) /\ disk' \in WriteBack(f) /\ disk'.io = "bad"
        /\ UNCHANGED <<pages, page_table, handle, live>>
    BY DEF WriteBackThrows
  <1>2. PICK p \in PageIds : p = pages[f].page_id
    BY <1>1, FrameTaken DEF MustWriteBack
  <1>3. Sound(disk) /\ pages[f].data \in Data
    BY DataInvIs, PageTypes
  <1>4. Sound(disk') /\ Saves(disk, disk', {}, [q \in {p} |-> pages[f].data])
    BY <1>1, <1>2, <1>3, WritePageSaves DEF WriteBack
  <1>5. /\ disk'.size \in Nat /\ disk.size <= disk'.size
        /\ \A q \in PageIds : disk'.content[q] = disk.content[q]
    BY <1>4, DiskNumbers DEF Saves, Sound
  <1> SUFFICES ASSUME NEW q \in PageIds PROVE PageInv(q)'
    BY <1>4, DataInvIs
  <1>6. PageInv(q)
    BY DataInvIs
  <1>7. CASE page_table[q] = NoFrame
    BY <1>1, <1>5, <1>6, <1>7, StaysOut
  <1>8. CASE page_table[q] # NoFrame
    <2>1. PICK g \in Frames : g = page_table[q]
      BY <1>8, PageTypes
    <2>2. PinsOn(g)' = PinsOn(g)
      BY <1>1 DEF PinsOn, InUse
    <2> QED  BY <1>1, <1>5, <1>6, <2>1, <2>2, StaysSafe
  <1> QED  BY <1>7, <1>8

\* The page that was evicted for a read that threw is in the file.
LEMMA ReadBackThrowsData ==
    ASSUME Consistent, DataInv, Consistent', NEW f \in Frames, ReadBackThrows(f)
    PROVE  DataInv'
  <1>1. /\ FrameFor(f) /\ ~MustWriteBack(f)
        /\ pages' = [pages EXCEPT ![f].data = Zero]
        /\ page_table' = TableWithout(f)
        /\ UNCHANGED <<disk, handle, live>>
    BY DEF ReadBackThrows
  <1>2. disk \in DisksForFrame(f)
    BY <1>1 DEF DisksForFrame
  <1> SUFFICES ASSUME NEW q \in PageIds PROVE PageInv(q)'
    BY <1>1, DataInvIs
  <1>3. PageInv(q) /\ disk.size \in Nat /\ disk.size <= disk.size
    BY DataInvIs, PageTypes
  <1>4. page_table'[q] = IF page_table[q] = f THEN NoFrame ELSE page_table[q]
    BY <1>1, TableWithoutIs
  <1>5. CASE page_table[q] = f
    <2>1. q < disk.size
      BY <1>1, <1>2, <1>5, VictimSaved
    <2> QED  BY <1>1, <1>4, <1>5, <2>1 DEF PageInv
  <1>6. CASE page_table[q] = NoFrame
    <2>1. page_table'[q] = NoFrame
      BY <1>4, <1>6
    <2> QED  BY <1>1, <1>3, <1>6, <2>1, StaysOut
  <1>7. CASE page_table[q] # f /\ page_table[q] # NoFrame
    <2>1. PICK g \in Frames : g = page_table[q] /\ g # f
      BY <1>7, PageTypes
    <2>2. page_table'[q] = g /\ pages'[g] = pages[g] /\ PinsOn(g)' = PinsOn(g)
      BY <1>1, <1>4, <2>1, PageTypes DEF PinsOn, InUse
    <2> QED  BY <1>1, <1>3, <2>1, <2>2, StaysSafe
  <1> QED  BY <1>5, <1>6, <1>7

LEMMA DeletePageData ==
    ASSUME Consistent, DataInv, Consistent', NEW p \in PageIds, DeletePage(p)
    PROVE  DataInv'
  <1> SUFFICES ASSUME NEW f, f = page_table[p], NEW q \in PageIds PROVE PageInv(q)'
    BY DataInvIs DEF DeletePage, Erase
  <1>1. /\ page_table' = [page_table EXCEPT ![p] = NoFrame]
        /\ live' = live \ {p} /\ UNCHANGED <<disk, handle>>
    BY DEF DeletePage, Erase
  <1>2. PageInv(q) /\ disk.size \in Nat /\ disk.size <= disk.size
    BY DataInvIs, PageTypes
  <1>3. page_table'[q] = IF q = p THEN NoFrame ELSE page_table[q]
    BY <1>1, PageTypes
  <1>4. CASE q = p
    BY <1>1, <1>3, <1>4 DEF PageInv
  <1>5. CASE q # p /\ page_table[q] = NoFrame
    <2>1. page_table'[q] = NoFrame
      BY <1>3, <1>5
    <2> QED  BY <1>1, <1>2, <1>5, <2>1, StaysOut
  <1>6. CASE q # p /\ page_table[q] # NoFrame
    <2>1. PICK g \in Frames : g = page_table[q] /\ g # f
      BY <1>6, PageTypes
    <2>2. pages'[g] = pages[g]
      <3>1. CASE f = NoFrame
        BY <3>1 DEF DeletePage, Erase
      <3>2. CASE f # NoFrame
        BY <2>1, <3>2, PageTypes DEF DeletePage, Erase
      <3> QED  BY <3>1, <3>2
    <2>3. page_table'[q] = g /\ PinsOn(g)' = PinsOn(g)
      BY <1>1, <1>3, <1>6, <2>1 DEF PinsOn, InUse
    <2> QED  BY <1>1, <1>2, <2>1, <2>2, <2>3, StaysSafe
  <1> QED  BY <1>4, <1>5, <1>6

\* A flush: the pages of S are written and no longer dirty.
Flushed(S, data) ==
    /\ \A p \in S : page_table[p] # NoFrame /\ data[p] = DataOf(p)
    /\ Sound(disk') /\ Saves(disk, disk', S, data)
    /\ \A g \in Frames : /\ pages'[g].data = pages[g].data
                         /\ \/ pages'[g] = pages[g]
                            \/ \E p \in S : page_table[p] = g
    /\ UNCHANGED <<page_table, handle, live, written>>

LEMMA FlushPageIs ==
    ASSUME Consistent, DataInv, NEW p \in PageIds, FlushPage(p)
    PROVE  \E S \in SUBSET PageIds : \E data : Flushed(S, data)
  <1>1. PICK f \in Frames : f = page_table[p]
    BY PageTypes DEF FlushPage
  <1> DEFINE data == [q \in {p} |-> pages[f].data]
  <1>2. /\ disk' \in WritePage(disk, p, pages[f].data)
        /\ pages' = IF disk'.io = "bad" THEN pages ELSE [pages EXCEPT ![f].is_dirty = FALSE]
        /\ UNCHANGED <<page_table, handle, live, written>>
    BY <1>1 DEF FlushPage
  <1>3. Sound(disk) /\ pages[f].data \in Data
    BY DataInvIs, PageTypes
  <1>4. /\ Sound(disk')
        /\ disk'.io # "bad" => Saves(disk, disk', {p}, data)
        /\ disk'.io = "bad" => Saves(disk, disk', {}, data)
    BY <1>2, <1>3, WritePageSaves
  <1>5. data[p] = DataOf(p) /\ page_table[p] # NoFrame
    BY <1>1, Markers DEF DataOf
  <1> HIDE DEF data
  <1>6. CASE disk'.io = "bad"
    <2>1. Flushed({}, data)
      BY <1>2, <1>4, <1>6 DEF Flushed
    <2> QED  BY <2>1
  <1>7. CASE disk'.io # "bad"
    <2>1. \A g \in Frames : /\ pages'[g].data = pages[g].data
                            /\ pages'[g] = pages[g] \/ g = f
      BY <1>2, <1>7, PageTypes
    <2>2. Flushed({p}, data)
      BY <1>1, <1>2, <1>4, <1>5, <1>7, <2>1 DEF Flushed
    <2> QED  BY <2>2
  <1> QED  BY <1>6, <1>7

LEMMA FlushAllPagesIs ==
    ASSUME Consistent, DataInv, NEW S \in SUBSET PageIds, FlushAllPages(S)
    PROVE  Flushed(S, ResidentData)
  <1>1. /\ S \subseteq Resident
        /\ UNCHANGED <<page_table, handle, live, written>>
        /\ pages' = [g \in Frames |->
                        IF \E p \in S : page_table[p] = g
                        THEN [pages[g] EXCEPT !.is_dirty = FALSE] ELSE pages[g]]
    BY DEF FlushAllPages
  <1>2. \A p \in S : /\ page_table[p] # NoFrame /\ page_table[p] \in Frames
                     /\ ResidentData[p] = DataOf(p)
    BY <1>1, PageTypes DEF Resident, ResidentData
  <1>3. \A p \in S : ResidentData[p] \in Data
    BY <1>2, PageTypes DEF DataOf
  <1>4. \A g \in Frames : /\ pages'[g].data = pages[g].data
                          /\ \/ pages'[g] = pages[g]
                             \/ \E p \in S : page_table[p] = g
    BY <1>1, PageTypes DEF Page
  <1>5. Sound(disk)
    BY DataInvIs
  <1>6. Sound(disk') /\ Saves(disk, disk', S, ResidentData)
    <2>1. CASE disk.io = "good"
      <3>1. PICK d \in Written(disk, S, ResidentData) : disk' = d \/ disk' = Broken(d)
        BY <2>1 DEF FlushAllPages
      <3>2. Sound(d) /\ Saves(disk, d, S, ResidentData)
        BY <1>3, <1>5, <3>1, WrittenSaves
      <3> QED  BY <3>1, <3>2, BrokenSaves
    <2>2. CASE disk.io = "bad"
      BY <1>5, <2>2, SavesNothing DEF FlushAllPages
    <2> QED  BY <1>5, <2>1, <2>2 DEF Sound, Disk, IOStates
  <1> QED  BY <1>1, <1>2, <1>4, <1>6 DEF Flushed

LEMMA FlushedData ==
    ASSUME Consistent, DataInv, Consistent', NEW S \in SUBSET PageIds, NEW data,
           Flushed(S, data)
    PROVE  DataInv'
  <1> USE DEF Flushed
  <1> SUFFICES ASSUME NEW q \in PageIds PROVE PageInv(q)'
    BY DataInvIs
  <1>1. PageInv(q)
    BY DataInvIs
  <1>2. disk'.size \in Nat /\ disk.size <= disk'.size
    BY DiskNumbers DEF Sound, Saves
  <1>3. CASE page_table[q] = NoFrame
    BY <1>1, <1>2, <1>3, StaysOut
  <1>4. CASE q \in S
    <2>1. page_table[q] \in Frames
      BY <1>4, PageTypes
    <2>2. DataOf(q)' = DataOf(q)
      BY <2>1 DEF DataOf
    <2>3. Saved(q)'
      BY <1>4, <2>2 DEF Saved, Saves
    <2> QED  BY <1>4, <2>3 DEF PageInv
  <1>5. CASE q \notin S /\ page_table[q] # NoFrame
    <2>1. PICK g \in Frames : g = page_table[q]
      BY <1>5, PageTypes
    <2>2. \A p \in S : page_table[p] # g
      BY <1>5, <2>1, PageTypes
    <2>3. pages'[g] = pages[g] /\ PinsOn(g)' = PinsOn(g)
      BY <2>2 DEF PinsOn, InUse
    <2>4. disk'.content[q] = disk.content[q]
      BY <1>5 DEF Saves
    <2> QED  BY <1>1, <1>2, <2>1, <2>3, <2>4, StaysSafe
  <1> QED  BY <1>3, <1>4, <1>5

\* The first start, and a restart: nothing is in memory and the file is what it is.
LEMMA InitData == Init => DataInv
  <1> SUFFICES ASSUME Init PROVE DataInv
    OBVIOUS
  <1>1. Sound(disk)
    <2>1. disk \in Disk
      BY InitConsistent DEF Consistent, TypeOK
    <2> QED  BY <2>1 DEF Init, EmptyDisk, Sound
  <1>2. \A p \in PageIds : PageInv(p)
    BY DEF Init, PageInv
  <1> QED  BY <1>1, <1>2, InitConsistent, DataInvIs

LEMMA RestartData ==
    ASSUME Consistent, DataInv, Consistent', Restart
    PROVE  DataInv'
  <1>1. disk' \in Disk /\ disk'.content = disk.content /\ disk'.size = disk.size
        /\ disk'.io = "good"
    BY DEF Restart, Reopened, Consistent, TypeOK
  <1>2. Sound(disk')
    BY <1>1, DataInvIs DEF Sound
  <1>3. \A p \in PageIds : PageInv(p)'
    BY <1>1 DEF Restart, PageInv
  <1> QED  BY <1>2, <1>3, DataInvIs

LEMMA NextData ==
    ASSUME ~CleanNewPages, Consistent, DataInv, [Next]_vars
    PROVE  DataInv'
  <1>1. Consistent'
    BY NextConsistent
  <1>2. ASSUME NEW p \in PageIds, FlushPage(p) PROVE DataInv'
    BY <1>1, <1>2, FlushPageIs, FlushedData
  <1>3. ASSUME NEW S \in SUBSET PageIds, FlushAllPages(S) PROVE DataInv'
    BY <1>1, <1>3, FlushAllPagesIs, FlushedData
  <1>4. CASE UNCHANGED vars
    BY <1>4 DEF vars, DataInv, Sound, CleanPageIsOnDisk, NonResidentIsInFile, Resident,
                PinsOn, InUse, DataOf
  <1>5. CASE Next
    BY <1>1, <1>2, <1>3, <1>5, NewPageData, FetchResidentData, FetchFromDiskData,
       UnpinPageData, WriteData, WriteBackThrowsData, ReadBackThrowsData, DeletePageData,
       RestartData DEF Next
  <1> QED  BY <1>4, <1>5

LEMMA DataInvariance == ASSUME ~CleanNewPages PROVE Spec => []DataInv
  <1>1. Consistent /\ DataInv /\ [Next]_vars => DataInv'
    BY NextData
  <1> QED  BY <1>1, InitData, Invariance, PTL DEF Spec

(***************************************************************************)
(* When callers unpin the pages they create as dirty, a page that is not   *)
(* marked dirty, and that nobody is going to mark, is on disk as it is in  *)
(* memory: evicting it without a write loses nothing.                      *)
(***************************************************************************)
THEOREM CleanCorrect == ASSUME ~CleanNewPages PROVE Spec => []CleanPageIsOnDisk
  BY DataInvariance, PTL DEF DataInv

(***************************************************************************)
(* Under the same condition a page that left the pool is in the file: no   *)
(* read goes past its end, so the stream never enters the "fail" state.    *)
(***************************************************************************)
THEOREM FileCorrect == ASSUME ~CleanNewPages PROVE Spec => []NonResidentIsInFile
  BY DataInvariance, PTL DEF DataInv

-----------------------------------------------------------------------------
(* The refinement of PageStore. *)

\* What the refinement mapping shows of page p.
ContentsOf(p) ==
    /\ p \notin live => Contents[p] = NoPage
    /\ page_table[p] # NoFrame => Contents[p] = DataOf(p)
    /\ p \in live /\ page_table[p] = NoFrame => Contents[p] = disk.content[p]
    /\ p \in live => Contents[p] \in Data

LEMMA ContentsAre == Consistent /\ DataInv => \A p \in PageIds : ContentsOf(p)
  <1> SUFFICES ASSUME Consistent, DataInv, NEW p \in PageIds PROVE ContentsOf(p)
    OBVIOUS
  <1>1. CASE p \notin live
    <2>1. page_table[p] = NoFrame
      BY <1>1, PageTypes
    <2> QED  BY <1>1, <2>1 DEF ContentsOf, Contents
  <1>2. CASE page_table[p] # NoFrame
    <2>1. p \in live /\ page_table[p] \in Frames
      BY <1>2, PageTypes
    <2>2. Contents[p] = DataOf(p)
      BY <1>2, <2>1 DEF Contents, Resident
    <2>3. DataOf(p) \in Data
      BY <2>1, PageTypes DEF DataOf
    <2> QED  BY <1>2, <2>1, <2>2, <2>3 DEF ContentsOf
  <1>3. CASE p \in live /\ page_table[p] = NoFrame
    <2>1. p < disk.size /\ disk.io # "fail" /\ disk.content[p] \in Data
      BY <1>3, DataInvIs DEF PageInv, Sound, Disk
    <2>2. Contents[p] = disk.content[p]
      BY <1>3, <2>1 DEF Contents, Resident, ReadPage
    <2> QED  BY <1>3, <2>1, <2>2 DEF ContentsOf
  <1> QED  BY <1>1, <1>2, <1>3

AllContents == \A p \in PageIds : ContentsOf(p)

LEMMA AllContentsAre == Consistent /\ DataInv => AllContents
  BY ContentsAre DEF AllContents

LEMMA ContentsAreNext ==
    ASSUME Consistent', DataInv'
    PROVE  \A p \in PageIds : ContentsOf(p)'
  <1>1. AllContents'
    BY AllContentsAre, PTL
  <1> QED  BY <1>1 DEF AllContents

\* The pages some step wrote to the file were written as they read.
LEMMA Persisted ==
    ASSUME Consistent, DataInv, Sound(disk'), disk.size <= disk'.size,
           \A q \in PageIds : \/ disk'.content[q] = disk.content[q]
                              \/ q \in live /\ disk'.content[q] = Contents[q]
    PROVE  Store!Persisting
  <1> SUFFICES ASSUME NEW q \in PageIds
               PROVE  \/ Durable'[q] = Durable[q]
                      \/ Contents[q] # NoPage /\ Durable'[q] = Contents[q]
                      \/ Durable[q] = NoPage /\ Durable'[q] = Zero
    <2>1. Durable' = [p \in PageIds |-> Durable'[p]]
      BY DEF Durable
    <2> QED  BY <2>1 DEF Store!Persisting, Store!Absent
  <1>1. disk.size \in Nat /\ disk'.size \in Nat /\ q \in Nat
    BY PageTypes, DiskNumbers, Markers DEF Sound
  <1>2. /\ q < disk.size => q < disk'.size
        /\ Durable[q] = IF q < disk.size THEN disk.content[q] ELSE NoPage
        /\ Durable'[q] = IF q < disk'.size THEN disk'.content[q] ELSE NoPage
    BY <1>1 DEF Durable
  <1>3. CASE disk'.content[q] = disk.content[q]
    <2>1. ~(q < disk.size) => disk.content[q] = Zero
      BY DataInvIs DEF Sound
    <2> QED  BY <1>2, <1>3, <2>1
  <1>4. CASE q \in live /\ disk'.content[q] = Contents[q]
    <2>1. Contents[q] # NoPage
      BY <1>4, ContentsAre, NoPageAssumption DEF ContentsOf
    <2> QED  BY <1>2, <1>4, <2>1
  <1> QED  BY <1>3, <1>4

\* A page reads as before that stays in its frame, stays out of the pool, or left it
\* and was saved.
LEMMA ReadsAsBefore ==
    ASSUME Consistent, DataInv, Consistent', DataInv', NEW q \in PageIds,
           q \in live' <=> q \in live,
           \/ /\ page_table[q] # NoFrame /\ page_table'[q] = page_table[q]
              /\ pages'[page_table[q]].data = pages[page_table[q]].data
           \/ /\ page_table[q] = NoFrame /\ page_table'[q] = NoFrame
              /\ disk'.content[q] = disk.content[q]
           \/ /\ page_table[q] # NoFrame /\ page_table'[q] = NoFrame
              /\ disk'.content[q] = DataOf(q)
    PROVE  Contents'[q] = Contents[q]
  <1>1. ContentsOf(q) /\ ContentsOf(q)'
    BY ContentsAre, ContentsAreNext
  <1>2. page_table[q] # NoFrame => q \in live
    BY PageTypes
  <1> QED  BY <1>1, <1>2 DEF ContentsOf, DataOf

\* Contents and Durable are functions on the page ids.
LEMMA SameContents ==
    ASSUME \A q \in PageIds : Contents'[q] = Contents[q]
    PROVE  Contents' = Contents
  BY DEF Contents

LEMMA OneChanged ==
    ASSUME NEW p \in PageIds, NEW v, Contents'[p] = v,
           \A q \in PageIds : q # p => Contents'[q] = Contents[q]
    PROVE  Contents' = [Contents EXCEPT ![p] = v]
  <1>1. /\ Contents = [q \in PageIds |-> Contents[q]]
        /\ Contents' = [q \in PageIds |-> Contents'[q]]
    BY DEF Contents
  <1> QED  BY <1>1

\* NewPage and FetchPage from disk: every page but the one installed reads as before.
LEMMA InstallStore ==
    ASSUME Consistent, DataInv, Consistent', DataInv', NEW f \in Frames, FrameFor(f),
           NEW p \in PageIds, page_table[p] = NoFrame, NEW v, Install(f, p, v),
           NEW d \in DisksForFrame(f), disk'.content = d.content, disk'.size = d.size,
           \A q \in PageIds : q # p => (q \in live' <=> q \in live)
    PROVE  /\ Store!Persisting
           /\ Contents'[p] = v
           /\ \A q \in PageIds : q # p => Contents'[q] = Contents[q]
  <1>1. /\ disk.size <= d.size
        /\ \A q \in PageIds : /\ page_table[q] = f => d.content[q] = DataOf(q)
                              /\ page_table[q] # f => d.content[q] = disk.content[q]
    BY VictimSaved
  <1>2. /\ pages'[f].data = v
        /\ \A g \in Frames : g # f => pages'[g] = pages[g]
    BY PageTypes DEF Install
  <1>3. \A q \in PageIds :
           page_table'[q] = IF q = p THEN f
                            ELSE IF page_table[q] = f THEN NoFrame ELSE page_table[q]
    BY TableWithoutIs, FrameTaken DEF Install
  <1>4. Store!Persisting
    <2>1. Sound(disk') /\ disk.size <= disk'.size
      BY <1>1, DataInvIs
    <2>2. \A q \in PageIds : page_table[q] = f => q \in live /\ DataOf(q) = Contents[q]
      BY PageTypes, ContentsAre, Markers DEF ContentsOf
    <2> QED  BY <1>1, <2>1, <2>2, Persisted
  <1>5. Contents'[p] = v
    <2>1. ContentsOf(p)' /\ page_table'[p] = f
      BY <1>3, ContentsAreNext
    <2> QED  BY <1>2, <2>1, Markers DEF ContentsOf, DataOf
  <1>6. ASSUME NEW q \in PageIds, q # p
        PROVE  Contents'[q] = Contents[q]
    <2>1. CASE page_table[q] = f
      <3>1. page_table[q] # NoFrame /\ page_table'[q] = NoFrame /\ disk'.content[q] = DataOf(q)
        BY <1>1, <1>3, <1>6, <2>1, Markers
      <3> QED  BY <1>6, <3>1, ReadsAsBefore
    <2>2. CASE page_table[q] = NoFrame
      <3>1. page_table'[q] = NoFrame /\ disk'.content[q] = disk.content[q]
        BY <1>1, <1>3, <1>6, <2>2, Markers
      <3> QED  BY <1>6, <2>2, <3>1, ReadsAsBefore
    <2>3. CASE page_table[q] # f /\ page_table[q] # NoFrame
      <3>1. page_table'[q] = page_table[q] /\ pages'[page_table[q]] = pages[page_table[q]]
        BY <1>2, <1>3, <1>6, <2>3, PageTypes
      <3> QED  BY <1>6, <2>3, <3>1, ReadsAsBefore
    <2> QED  BY <2>1, <2>2, <2>3
  <1> QED  BY <1>4, <1>5, <1>6

LEMMA NewPageStore ==
    ASSUME Consistent, DataInv, Consistent', DataInv',
           NEW h \in Handles, NEW f \in Frames, NewPage(h, f)
    PROVE  Store!Next
  <1> SUFFICES ASSUME NEW p, p = disk.next_page_id
               PROVE  Store!Next
    OBVIOUS
  <1>1. FrameFor(f) /\ Install(f, p, Zero) /\ live' = live \cup {p} /\ p < MaxPages
    BY DEF NewPage
  <1>2. PICK d \in DisksForFrame(f) : disk' = AfterAllocatePage(d)
    BY DEF NewPage
  <1>3. p \in PageIds
    BY <1>1, DiskNumbers, PageTypes, MaxPagesAssumption DEF PageIds
  <1>4. p \notin live
    <2>1. ~(p < p)
      BY <1>3, Markers
    <2> QED  BY <2>1 DEF Consistent, IdsAreAllocated
  <1>5. page_table[p] = NoFrame /\ Contents[p] = NoPage
    BY <1>3, <1>4, PageTypes, ContentsAre DEF ContentsOf
  <1>6. disk'.content = d.content /\ disk'.size = d.size
    BY <1>2 DEF AfterAllocatePage
  <1>7. /\ Store!Persisting /\ Contents'[p] = Zero
        /\ \A q \in PageIds : q # p => Contents'[q] = Contents[q]
    BY <1>1, <1>3, <1>5, <1>6, InstallStore
  <1>8. Contents' = [Contents EXCEPT ![p] = Zero]
    BY <1>3, <1>7, OneChanged
  <1>9. written' = [written EXCEPT ![p] = Zero]
    BY DEF NewPage
  <1>10. Store!Create(p)
    BY <1>5, <1>7, <1>8, <1>9 DEF Store!Create, Store!Put, Store!Absent
  <1> QED  BY <1>3, <1>10 DEF Store!Next

LEMMA FetchFromDiskStore ==
    ASSUME Consistent, DataInv, Consistent', DataInv',
           NEW h \in Handles, NEW p \in PageIds, NEW f \in Frames, FetchFromDisk(h, p, f)
    PROVE  Store!Next
  <1>1. PICK d \in DisksForFrame(f) :
           disk' = AfterReadPage(d, p) /\ Install(f, p, ReadPage(d, p))
    BY DEF FetchFromDisk
  <1>2. /\ FrameFor(f) /\ p \in live /\ page_table[p] = NoFrame
        /\ live' = live /\ written' = written
    BY DEF FetchFromDisk
  <1>3. /\ Sound(d) /\ disk.size <= d.size
        /\ d.content[p] = disk.content[p]
    BY <1>2, VictimSaved, Markers
  <1>4. p < disk.size
    BY <1>2, DataInvIs DEF PageInv
  <1>5. p < d.size
    BY <1>3, <1>4, DiskNumbers, PageTypes, Markers DEF Sound
  <1>6. disk' = d /\ ReadPage(d, p) = d.content[p]
    BY <1>1, <1>3, <1>5 DEF AfterReadPage, ReadPage, Sound
  <1>7. /\ Store!Persisting /\ Contents'[p] = ReadPage(d, p)
        /\ \A q \in PageIds : q # p => Contents'[q] = Contents[q]
    BY <1>1, <1>2, <1>6, InstallStore
  <1>8. Contents[p] = disk.content[p]
    BY <1>2, ContentsAre DEF ContentsOf
  <1>9. Contents' = Contents
    BY <1>3, <1>6, <1>7, <1>8, SameContents
  <1> QED  BY <1>2, <1>7, <1>9 DEF Store!Next, Store!Persist

\* FetchPage of a page in the pool and UnpinPage show nothing.
LEMMA FetchUnpinStore ==
    ASSUME Consistent, DataInv, Consistent', DataInv', NEW h \in Handles,
           UnpinPage(h) \/ \E p \in PageIds : FetchResident(h, p)
    PROVE  UNCHANGED <<written, Contents, Durable>>
  <1>1. UNCHANGED <<page_table, disk, live, written>>
    BY DEF UnpinPage, FetchResident
  <1>2. \A g \in Frames : pages'[g].data = pages[g].data
    <2>1. CASE \E p \in PageIds : FetchResident(h, p)
      BY <2>1, PageTypes DEF FetchResident
    <2>2. CASE UnpinPage(h)
      <3> DEFINE f == page_table[handle[h].page_id]
                 b == pages[f].is_dirty \/ handle[h].dirty
                 n == pages[f].pin_count - 1
      <3>1. pages' = pages \/ pages' = [pages EXCEPT ![f].is_dirty = b, ![f].pin_count = n]
        BY <2>2 DEF UnpinPage
      <3> HIDE DEF f, b, n
      <3>2. pages \in [Frames -> Page]
        BY PageTypes
      <3>3. ASSUME NEW g \in Frames PROVE pages'[g].data = pages[g].data
        <4>1. [[pages[g] EXCEPT !.is_dirty = b] EXCEPT !.pin_count = n].data = pages[g].data
          <5>1. pages[g] \in Page
            BY <3>2
          <5> QED  BY <5>1 DEF Page
        <4> QED  BY <3>1, <3>2, <4>1
      <3> QED  BY <3>3
    <2> QED  BY <2>1, <2>2
  <1>3. \A q \in PageIds : Contents'[q] = Contents[q]
    <2> TAKE q \in PageIds
    <2>1. CASE page_table[q] = NoFrame
      BY <1>1, <2>1, ReadsAsBefore
    <2>2. CASE page_table[q] # NoFrame
      <3>1. page_table[q] \in Frames
        BY <2>2, PageTypes
      <3> QED  BY <1>1, <1>2, <2>2, <3>1, ReadsAsBefore
    <2> QED  BY <2>1, <2>2
  <1>4. Durable' = Durable
    BY <1>1 DEF Durable
  <1> QED  BY <1>1, <1>3, <1>4, SameContents

\* A caller's write changes the page it asked for and no other.
LEMMA WriteStore ==
    ASSUME Consistent, DataInv, Consistent', DataInv', NEW h \in Handles, NEW v \in Data,
           Write(h, v)
    PROVE  Store!Next
  <1>1. /\ InUse(h) /\ handle[h].frame \in Frames /\ handle[h].page_id \in PageIds
        /\ page_table[handle[h].page_id] = handle[h].frame
    <2>1. InUse(h) /\ handle[h] \in Pin
      BY DEF Write, InUse, Consistent, TypeOK
    <2> QED  BY <2>1 DEF Pin, Consistent, PinnedPageStays
  <1> SUFFICES ASSUME NEW f \in Frames, f = handle[h].frame,
                      NEW p \in PageIds, p = handle[h].page_id
               PROVE  Store!Next
    BY <1>1
  <1>2. page_table[p] = f /\ f # NoFrame /\ p \in live
    BY <1>1, PageTypes, Markers
  <1>3. pages' = [pages EXCEPT ![f].data = v] /\ UNCHANGED <<page_table, disk, live>>
    BY DEF Write
  <1>4. pages'[f].data = v /\ \A g \in Frames : g # f => pages'[g] = pages[g]
    BY <1>3, PageTypes DEF Page
  <1>5. Contents'[p] = v
    BY <1>2, <1>3, <1>4, ContentsAreNext DEF ContentsOf, DataOf
  <1>6. ASSUME NEW q \in PageIds, q # p PROVE Contents'[q] = Contents[q]
    <2>1. CASE page_table[q] = NoFrame
      BY <1>3, <2>1, ReadsAsBefore
    <2>2. CASE page_table[q] # NoFrame
      <3>1. page_table[q] \in Frames /\ page_table[q] # f
        BY <1>2, <1>6, <2>2, PageTypes
      <3> QED  BY <1>3, <1>4, <2>2, <3>1, ReadsAsBefore
    <2> QED  BY <2>1, <2>2
  <1>7. Contents' = [Contents EXCEPT ![p] = v]
    BY <1>5, <1>6, OneChanged
  <1>8. Durable' = Durable
    BY <1>3 DEF Durable
  <1>9. Contents[p] # NoPage
    BY <1>2, ContentsAre, NoPageAssumption DEF ContentsOf
  <1>10. written' = [written EXCEPT ![p] = v]
    BY DEF Write
  <1>11. Store!Write(p, v)
    BY <1>7, <1>8, <1>9, <1>10 DEF Store!Write, Store!Put, Store!Absent
  <1> QED  BY <1>11 DEF Store!Next

\* A write-back that throws leaves the file and the pool as they read.
LEMMA WriteBackThrowsStore ==
    ASSUME Consistent, DataInv, Consistent', DataInv', NEW f \in Frames, WriteBackThrows(f)
    PROVE  UNCHANGED <<written, Contents, Durable>>
  <1>1. /\ FrameFor(f) /\ MustWriteBack(f) /\ disk' \in WriteBack(f) /\ disk'.io = "bad"
        /\ UNCHANGED <<pages, page_table, live, written>>
    BY DEF WriteBackThrows
  <1>2. disk'.content = disk.content /\ disk'.size = disk.size
    BY <1>1 DEF WriteBack, WritePage, Written, Broken
  <1>3. \A q \in PageIds : Contents'[q] = Contents[q]
    BY <1>1, <1>2, ReadsAsBefore
  <1>4. Durable' = Durable
    BY <1>2 DEF Durable
  <1> QED  BY <1>1, <1>3, <1>4, SameContents

\* A read that throws evicted a page that is in the file.
LEMMA ReadBackThrowsStore ==
    ASSUME Consistent, DataInv, Consistent', DataInv', NEW f \in Frames, ReadBackThrows(f)
    PROVE  UNCHANGED <<written, Contents, Durable>>
  <1>1. /\ FrameFor(f) /\ ~MustWriteBack(f)
        /\ pages' = [pages EXCEPT ![f].data = Zero]
        /\ page_table' = TableWithout(f)
        /\ UNCHANGED <<disk, live, written>>
    BY DEF ReadBackThrows
  <1>2. disk \in DisksForFrame(f)
    BY <1>1 DEF DisksForFrame
  <1>3. ASSUME NEW q \in PageIds PROVE Contents'[q] = Contents[q]
    <2>1. page_table'[q] = IF page_table[q] = f THEN NoFrame ELSE page_table[q]
      BY <1>1, TableWithoutIs
    <2>2. CASE page_table[q] = f
      <3>1. page_table[q] # NoFrame /\ page_table'[q] = NoFrame /\ disk'.content[q] = DataOf(q)
        BY <1>1, <1>2, <2>1, <2>2, VictimSaved, Markers
      <3> QED  BY <1>1, <3>1, ReadsAsBefore
    <2>3. CASE page_table[q] = NoFrame
      BY <1>1, <2>1, <2>3, ReadsAsBefore
    <2>4. CASE page_table[q] # f /\ page_table[q] # NoFrame
      <3>1. page_table[q] \in Frames
        BY <2>4, PageTypes
      <3>2. pages'[page_table[q]] = pages[page_table[q]] /\ page_table'[q] = page_table[q]
        BY <1>1, <2>1, <2>4, <3>1, PageTypes
      <3> QED  BY <1>1, <2>4, <3>2, ReadsAsBefore
    <2> QED  BY <2>2, <2>3, <2>4
  <1>4. Durable' = Durable
    BY <1>1 DEF Durable
  <1> QED  BY <1>1, <1>3, <1>4, SameContents

LEMMA DeletePageStore ==
    ASSUME Consistent, DataInv, Consistent', DataInv', NEW p \in PageIds, DeletePage(p)
    PROVE  Store!Next
  <1> SUFFICES ASSUME NEW f, f = page_table[p] PROVE Store!Next
    OBVIOUS
  <1>1. /\ page_table' = [page_table EXCEPT ![p] = NoFrame]
        /\ live' = live \ {p} /\ UNCHANGED disk
        /\ written' = [written EXCEPT ![p] = NoPage]
    BY DEF DeletePage, Erase
  <1>2. Contents'[p] = NoPage
    BY <1>1, ContentsAreNext DEF ContentsOf
  <1>3. ASSUME NEW q \in PageIds, q # p PROVE Contents'[q] = Contents[q]
    <2>1. page_table'[q] = page_table[q] /\ (q \in live' <=> q \in live)
      BY <1>1, <1>3, PageTypes
    <2>2. CASE page_table[q] = NoFrame
      BY <1>1, <2>1, <2>2, ReadsAsBefore
    <2>3. CASE page_table[q] # NoFrame
      <3>1. page_table[q] \in Frames /\ page_table[q] # f
        BY <1>3, <2>3, PageTypes
      <3>2. pages'[page_table[q]] = pages[page_table[q]]
        <4>1. CASE f = NoFrame
          BY <4>1 DEF DeletePage, Erase
        <4>2. CASE f # NoFrame
          BY <3>1, <4>2, PageTypes DEF DeletePage, Erase
        <4> QED  BY <4>1, <4>2
      <3> QED  BY <2>1, <2>3, <3>2, ReadsAsBefore
    <2> QED  BY <2>2, <2>3
  <1>4. Contents' = [Contents EXCEPT ![p] = NoPage]
    BY <1>2, <1>3, OneChanged
  <1>5. Durable' = Durable
    BY <1>1 DEF Durable
  <1>6. Store!Delete(p)
    BY <1>1, <1>4, <1>5 DEF Store!Delete, Store!Put
  <1> QED  BY <1>6 DEF Store!Next

\* A flush persists pages as they read.
LEMMA FlushedStore ==
    ASSUME Consistent, DataInv, Consistent', DataInv', NEW S \in SUBSET PageIds, NEW data,
           Flushed(S, data)
    PROVE  Store!Next
  <1> USE DEF Flushed
  <1>1. Store!Persisting
    <2>1. Sound(disk') /\ disk.size <= disk'.size
      BY DEF Saves
    <2>2. \A q \in PageIds : \/ disk'.content[q] = disk.content[q]
                             \/ q \in S /\ disk'.content[q] = DataOf(q)
      BY DEF Saves
    <2>3. \A q \in S : q \in live /\ DataOf(q) = Contents[q]
      BY PageTypes, ContentsAre DEF ContentsOf
    <2> QED  BY <2>1, <2>2, <2>3, Persisted
  <1>2. ASSUME NEW q \in PageIds PROVE Contents'[q] = Contents[q]
    <2>1. CASE page_table[q] = NoFrame
      <3>1. disk'.content[q] = disk.content[q]
        BY <2>1 DEF Saves
      <3> QED  BY <2>1, <3>1, ReadsAsBefore
    <2>2. CASE page_table[q] # NoFrame
      <3>1. page_table[q] \in Frames
        BY <2>2, PageTypes
      <3> QED  BY <2>2, <3>1, ReadsAsBefore
    <2> QED  BY <2>1, <2>2
  <1> QED  BY <1>1, <1>2, SameContents DEF Store!Next, Store!Persist

\* A restart shows what was persisted.
LEMMA RestartStore ==
    ASSUME Consistent, DataInv, Consistent', DataInv', Restart
    PROVE  Store!Next
  <1>1. /\ disk'.content = disk.content /\ disk'.size = disk.size
        /\ live' = {p \in PageIds : p < disk.size}
        /\ page_table' = [p \in PageIds |-> NoFrame]
        /\ written' = Durable
    BY DEF Restart, Reopened
  <1>2. Durable' = Durable
    BY <1>1 DEF Durable
  <1>3. ASSUME NEW q \in PageIds PROVE Contents'[q] = Durable[q]
    BY <1>1, ContentsAreNext DEF ContentsOf, Durable
  <1>4. Contents' = Durable
    <2>1. /\ Contents' = [q \in PageIds |-> Contents'[q]]
          /\ Durable = [q \in PageIds |-> Durable[q]]
      BY DEF Contents, Durable
    <2> QED  BY <1>3, <2>1
  <1> QED  BY <1>1, <1>2, <1>4 DEF Store!Next, Store!Restart

LEMMA NextStore ==
    ASSUME ~CleanNewPages, Consistent, DataInv, [Next]_vars
    PROVE  [Store!Next]_(Store!storeVars)
  <1>1. Consistent' /\ DataInv'
    BY NextConsistent, NextData
  <1>2. ASSUME UNCHANGED <<written, Contents, Durable>> PROVE [Store!Next]_(Store!storeVars)
    BY <1>2 DEF Store!storeVars
  <1>3. ASSUME NEW p \in PageIds, FlushPage(p) PROVE Store!Next
    BY <1>1, <1>3, FlushPageIs, FlushedStore
  <1>4. ASSUME NEW S \in SUBSET PageIds, FlushAllPages(S) PROVE Store!Next
    BY <1>1, <1>4, FlushAllPagesIs, FlushedStore
  <1>5. CASE UNCHANGED vars
    <2>1. UNCHANGED <<written, Contents, Durable>>
      BY <1>5 DEF vars, Contents, Durable, Resident, DataOf, ReadPage
    <2> QED  BY <1>2, <2>1
  <1>6. CASE Next
    BY <1>1, <1>2, <1>3, <1>4, <1>6, NewPageStore, FetchUnpinStore, FetchFromDiskStore,
       WriteStore, WriteBackThrowsStore, ReadBackThrowsStore, DeletePageStore,
       RestartStore DEF Next
  <1> QED  BY <1>5, <1>6

(***************************************************************************)
(* When callers unpin the pages they create as dirty, no update is lost:   *)
(* FetchPage shows what a caller last wrote to the page, through           *)
(* evictions, write-backs, flushes and failed I/O of any number of frames  *)
(* and callers, and a restart recovers contents the page really had.       *)
(***************************************************************************)
THEOREM StoreRefinement == ASSUME ~CleanNewPages PROVE Spec => ImplementsPageStore
  <1>1. Init => Store!Init
    <2> SUFFICES ASSUME Init PROVE Store!Init
      OBVIOUS
    <2>1. Contents = [p \in PageIds |-> NoPage]
      BY DEF Init, Contents
    <2>2. Durable = [p \in PageIds |-> NoPage]
      <3>1. \A p \in PageIds : ~(p < disk.size)
        BY Markers DEF Init, EmptyDisk
      <3> QED  BY <3>1 DEF Durable
    <2>3. written = [p \in PageIds |-> NoPage]
      BY DEF Init
    <2> QED  BY <2>1, <2>2, <2>3 DEF Store!Init
  <1>2. Consistent /\ DataInv /\ [Next]_vars => [Store!Next]_(Store!storeVars)
    BY NextStore
  <1> QED  BY <1>1, <1>2, Invariance, DataInvariance, PTL
           DEF Spec, Store!Spec, ImplementsPageStore
=============================================================================
