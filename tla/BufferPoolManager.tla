------------------------- MODULE BufferPoolManager -------------------------
(***************************************************************************)
(* buffer/buffer_pool_manager.cpp on top of DiskManager and Replacer.      *)
(* Every method holds latch_ throughout, so a method is one action; what   *)
(* interleaves is the callers, each of which keeps a Page* between its     *)
(* NewPage or FetchPage and its UnpinPage and writes through it without    *)
(* the latch.                                                              *)
(***************************************************************************)
EXTENDS DiskManager, Sequences

CONSTANTS
    PoolSize,       \* pool_size_
    Handles,        \* the Page* callers can hold at one time
    NoPin,          \* a handle not in use
    NoPage,         \* "there is no such page", for the abstract store
    CleanNewPages   \* may a caller unpin a page it created as not dirty?

Frames == 0 .. PoolSize - 1

NoFrame == -1

INVALID_PAGE_ID == -1

\* What a caller keeps with its Page*: the frame it points to, the page it asked
\* for, and what it will tell UnpinPage.
Pin == [frame : Frames, page_id : PageIds, dirty : BOOLEAN]

ASSUME PoolSizeAssumption == PoolSize \in Nat
ASSUME HandlesAssumption == IsFiniteSet(Handles)
ASSUME NoPinAssumption == NoPin \notin Pin
ASSUME NoPageAssumption == NoPage \notin Data
ASSUME CleanNewPagesAssumption == CleanNewPages \in BOOLEAN

VARIABLES
    pages,          \* pages_: the page each frame holds
    page_table,     \* page_table_, NoFrame for a page that is not in the map
    free_list,      \* free_list_
    replacer,       \* replacer_, see Replacer
    disk,           \* disk_manager_, see DiskManager
    handle,         \* the callers: the Page* each handle holds
    live,           \* the callers: the pages that have been created and not deleted
    written         \* the callers (history): what each page was last given, or NoPage

vars == <<pages, page_table, free_list, replacer, disk, handle, live, written>>

R == INSTANCE Replacer

Page == [page_id : PageIds \cup {INVALID_PAGE_ID}, pin_count : Nat,
         is_dirty : BOOLEAN, data : Data]

InUse(h) == handle[h] # NoPin

EmptyPage == [page_id |-> INVALID_PAGE_ID, pin_count |-> 0,
              is_dirty |-> FALSE, data |-> Zero]

PinsOn(f) == {h \in Handles : InUse(h) /\ handle[h].frame = f}

Resident == {p \in PageIds : page_table[p] # NoFrame}

OnFreeList(f) == \E i \in 1 .. Len(free_list) : free_list[i] = f

DataOf(p) == pages[page_table[p]].data

ResidentData == [p \in Resident |-> DataOf(p)]

\* What a restart recovers.
Durable == [p \in PageIds |-> IF p < disk.size THEN disk.content[p] ELSE NoPage]

-----------------------------------------------------------------------------
(***************************************************************************)
(* The part NewPage and FetchPage share: the head of the free list, else   *)
(* an evicted frame, written back if dirty, whose page leaves the table.   *)
(***************************************************************************)
FrameFor(f) == IF free_list # << >> THEN f = Head(free_list)
               ELSE f \in R!EvictableIn(replacer)

\* Mutant: a dirty victim is dropped.
NeverWriteBack(f) == FALSE

MustWriteBack(f) == free_list = << >> /\ pages[f].is_dirty

WriteBack(f) == WritePage(disk, pages[f].page_id, pages[f].data)

\* The disk states in which the frame is the caller's.
DisksForFrame(f) ==
    IF MustWriteBack(f) THEN {d \in WriteBack(f) : d.io # "bad"} ELSE {disk}

FreeListWithout == IF free_list # << >> THEN Tail(free_list) ELSE free_list

\* Mutant: the victim's page stays in the table.
TableWithVictim(f) == page_table

TableWithout(f) == IF free_list # << >> THEN page_table
                   ELSE [page_table EXCEPT ![pages[f].page_id] = NoFrame]

ReplacerWithout(f) == IF free_list # << >> THEN replacer ELSE R!AfterErase(replacer, f)

\* Mutant: a frame that is pinned again stays evictable.
PinnedButEvictable(r, f) == R!AfterRecordAccess(r, f)

Pinned(r, f) == R!AfterSetEvictable(R!AfterRecordAccess(r, f), f, FALSE)

\* f now holds page p with contents v, pinned once.
Install(f, p, v) ==
    /\ pages' = [pages EXCEPT ![f] = [page_id |-> p, pin_count |-> 1,
                                      is_dirty |-> FALSE, data |-> v]]
    /\ page_table' = [TableWithout(f) EXCEPT ![p] = f]
    /\ free_list' = FreeListWithout
    /\ replacer' = Pinned(ReplacerWithout(f), f)

NewPage(h, f) ==
    LET p == disk.next_page_id
    IN  /\ ~InUse(h)
        /\ p < MaxPages
        /\ FrameFor(f)
        /\ \E d \in DisksForFrame(f) : disk' = AfterAllocatePage(d)
        /\ Install(f, p, Zero)
        /\ \E dirty \in IF CleanNewPages THEN BOOLEAN ELSE {TRUE} :
              handle' = [handle EXCEPT ![h] =
                            [frame |-> f, page_id |-> p, dirty |-> dirty]]
        /\ live' = live \cup {p}
        /\ written' = [written EXCEPT ![p] = Zero]

\* Mutant: a second caller does not count.
FetchResidentUncounted(h, p) ==
    LET f == page_table[p]
    IN  /\ ~InUse(h)
        /\ f # NoFrame
        /\ replacer' = Pinned(replacer, f)
        /\ handle' = [handle EXCEPT ![h] = [frame |-> f, page_id |-> p, dirty |-> FALSE]]
        /\ UNCHANGED <<pages, page_table, free_list, disk, live, written>>

FetchResident(h, p) ==
    LET f == page_table[p]
    IN  /\ ~InUse(h)
        /\ f # NoFrame
        /\ pages' = [pages EXCEPT ![f].pin_count = @ + 1]
        /\ replacer' = Pinned(replacer, f)
        /\ handle' = [handle EXCEPT ![h] = [frame |-> f, page_id |-> p, dirty |-> FALSE]]
        /\ UNCHANGED <<page_table, free_list, disk, live, written>>

FetchFromDisk(h, p, f) ==
    /\ ~InUse(h)
    /\ p \in live
    /\ page_table[p] = NoFrame
    /\ FrameFor(f)
    /\ \E d \in DisksForFrame(f) :
          /\ ~ReadThrows(d)
          /\ disk' = AfterReadPage(d, p)
          /\ Install(f, p, ReadPage(d, p))
    /\ handle' = [handle EXCEPT ![h] = [frame |-> f, page_id |-> p, dirty |-> FALSE]]
    /\ UNCHANGED <<live, written>>

\* WritePage throws out of NewPage or FetchPage after the victim left the replacer
\* and before its page left the table.
WriteBackThrows(f) ==
    /\ FrameFor(f)
    /\ MustWriteBack(f)
    /\ \E d \in WriteBack(f) : d.io = "bad" /\ disk' = d
    /\ replacer' = ReplacerWithout(f)
    /\ UNCHANGED <<pages, page_table, free_list, handle, live, written>>

\* ReadPage throws out of FetchPage: the frame was taken and cleared, and belongs
\* to nobody.
ReadBackThrows(f) ==
    /\ live \ Resident # {}
    /\ FrameFor(f)
    /\ ~MustWriteBack(f)
    /\ ReadThrows(disk)
    /\ pages' = [pages EXCEPT ![f].data = Zero]
    /\ page_table' = TableWithout(f)
    /\ free_list' = FreeListWithout
    /\ replacer' = ReplacerWithout(f)
    /\ UNCHANGED <<disk, handle, live, written>>

\* Mutant: the last caller's flag overwrites is_dirty_.
UnpinPageOverwrites(h) ==
    LET p == handle[h].page_id
        f == page_table[p]
    IN  /\ InUse(h)
        /\ pages' = [pages EXCEPT ![f].is_dirty = handle[h].dirty, ![f].pin_count = @ - 1]
        /\ replacer' = IF pages[f].pin_count = 1
                       THEN R!AfterSetEvictable(replacer, f, TRUE) ELSE replacer
        /\ handle' = [handle EXCEPT ![h] = NoPin]
        /\ UNCHANGED <<page_table, free_list, disk, live, written>>

UnpinPage(h) ==
    LET p == handle[h].page_id
        f == page_table[p]
        found == f # NoFrame /\ pages[f].pin_count > 0
    IN  /\ InUse(h)
        /\ pages' = IF found THEN [pages EXCEPT ![f].is_dirty = @ \/ handle[h].dirty,
                                                ![f].pin_count = @ - 1]
                    ELSE pages
        /\ replacer' = IF found /\ pages[f].pin_count = 1
                       THEN R!AfterSetEvictable(replacer, f, TRUE) ELSE replacer
        /\ handle' = [handle EXCEPT ![h] = NoPin]
        /\ UNCHANGED <<page_table, free_list, disk, live, written>>

\* The caller writes through its Page*, into whatever frame it points to.
Write(h, v) ==
    /\ InUse(h)
    /\ pages' = [pages EXCEPT ![handle[h].frame].data = v]
    /\ handle' = [handle EXCEPT ![h].dirty = TRUE]
    /\ written' = [written EXCEPT ![handle[h].page_id] = v]
    /\ UNCHANGED <<page_table, free_list, replacer, disk, live>>

\* Page p leaves frame f, and the table; the replacer and the free list become r and fl.
Erase(p, f, r, fl) ==
    /\ page_table' = [page_table EXCEPT ![p] = NoFrame]
    /\ replacer' = IF f = NoFrame THEN replacer ELSE r
    /\ pages' = IF f = NoFrame THEN pages
                ELSE [pages EXCEPT ![f].page_id = INVALID_PAGE_ID,
                                   ![f].is_dirty = FALSE, ![f].data = Zero]
    /\ free_list' = IF f = NoFrame THEN free_list ELSE fl
    /\ live' = live \ {p}
    /\ written' = [written EXCEPT ![p] = NoPage]
    /\ UNCHANGED <<disk, handle>>

\* Mutants: DeletePage of a pinned page; without replacer_->Remove; without the
\* push_back on the free list.
DeletePinned(p) ==
    LET f == page_table[p]
    IN  p \in live /\ Erase(p, f, R!AfterErase(replacer, f), Append(free_list, f))

DeleteStillTracked(p) ==
    LET f == page_table[p]
    IN  /\ p \in live /\ (f # NoFrame => pages[f].pin_count = 0)
        /\ Erase(p, f, replacer, Append(free_list, f))

DeleteLosesFrame(p) ==
    LET f == page_table[p]
    IN  /\ p \in live /\ (f # NoFrame => pages[f].pin_count = 0)
        /\ Erase(p, f, R!AfterErase(replacer, f), free_list)

\* DeletePage returns false on a pinned page.  replacer_->Remove would throw on a
\* protected frame; ReplacerMatchesPins says that it never meets one.
DeletePage(p) ==
    LET f == page_table[p]
    IN  /\ p \in live
        /\ f # NoFrame => pages[f].pin_count = 0 /\ replacer[f] # "protected"
        /\ Erase(p, f, R!AfterErase(replacer, f), Append(free_list, f))

FlushPage(p) ==
    LET f == page_table[p]
    IN  /\ f # NoFrame
        /\ disk' \in WritePage(disk, p, pages[f].data)
        /\ pages' = IF disk'.io = "bad" THEN pages
                    ELSE [pages EXCEPT ![f].is_dirty = FALSE]
        /\ UNCHANGED <<page_table, free_list, replacer, handle, live, written>>

\* The loop writes the resident pages in an order the hash map decides; S are the
\* ones before the first WritePage that throws.
FlushAllPages(S) ==
    /\ S \subseteq Resident
    /\ disk.io = "fail" => S = Resident
    /\ disk.io = "bad" => S = {} /\ Resident # {}
    /\ IF disk.io = "good"
       THEN \E d \in Written(disk, S, ResidentData) :
               disk' = IF S = Resident THEN d ELSE Broken(d)
       ELSE disk' = disk
    /\ pages' = [f \in Frames |->
                    IF \E p \in S : page_table[p] = f
                    THEN [pages[f] EXCEPT !.is_dirty = FALSE] ELSE pages[f]]
    /\ UNCHANGED <<page_table, free_list, replacer, handle, live, written>>

\* The constructor: every frame is empty and on the free list.
AllFramesFree == [i \in 1 .. PoolSize |-> i - 1]

\* The process stops, with or without destructors (they flush nothing), and starts
\* again: what is in the file is all there is.
Restart ==
    /\ pages' = [f \in Frames |-> EmptyPage]
    /\ page_table' = [p \in PageIds |-> NoFrame]
    /\ free_list' = AllFramesFree
    /\ replacer' = R!AllUntracked
    /\ disk' = Reopened(disk)
    /\ handle' = [h \in Handles |-> NoPin]
    /\ live' = {p \in PageIds : p < disk.size}
    /\ written' = Durable

Init ==
    /\ pages = [f \in Frames |-> EmptyPage]
    /\ page_table = [p \in PageIds |-> NoFrame]
    /\ free_list = AllFramesFree
    /\ replacer = R!AllUntracked
    /\ disk = EmptyDisk
    /\ handle = [h \in Handles |-> NoPin]
    /\ live = {}
    /\ written = [p \in PageIds |-> NoPage]

Next ==
    \/ \E h \in Handles :
          \/ \E f \in Frames : NewPage(h, f)
          \/ \E p \in PageIds : FetchResident(h, p)
          \/ \E p \in PageIds, f \in Frames : FetchFromDisk(h, p, f)
          \/ UnpinPage(h)
          \/ \E v \in Data : Write(h, v)
    \/ \E f \in Frames : WriteBackThrows(f) \/ ReadBackThrows(f)
    \/ \E p \in PageIds : DeletePage(p) \/ FlushPage(p)
    \/ \E S \in SUBSET PageIds : FlushAllPages(S)
    \/ Restart

Spec == Init /\ [][Next]_vars

-----------------------------------------------------------------------------
\* The types of pages_, page_table_, free_list_, the replacer, the disk and the pins.
\* The history `written' is constrained by ImplementsPageStore below.
TypeOK ==
    /\ pages \in [Frames -> Page]
    /\ page_table \in [PageIds -> Frames \cup {NoFrame}]
    /\ free_list \in Seq(Frames)
    /\ replacer \in [Frames -> R!Status]
    /\ disk \in Disk
    /\ handle \in [Handles -> Pin \cup {NoPin}]
    /\ live \in SUBSET PageIds

\* page_table_ and the page_id_ fields agree: a page in the table is the page its
\* frame says it holds, so no two pages share a frame.
TableMatchesFrames ==
    \A p \in Resident : pages[page_table[p]].page_id = p

\* A frame on the free list is there once, holds no page and is unknown to the
\* replacer, so the same frame is never handed out by both.
FreeFramesAreFree ==
    /\ \A i, j \in 1 .. Len(free_list) : free_list[i] = free_list[j] => i = j
    /\ \A i \in 1 .. Len(free_list) :
          /\ replacer[free_list[i]] = "untracked"
          /\ \A p \in PageIds : page_table[p] # free_list[i]

\* While a caller holds a Page* to page p, its frame keeps holding p: no eviction,
\* deletion or fetch by anyone else moves another page under the pointer.
PinnedPageStays ==
    \A h \in Handles : InUse(h) => page_table[handle[h].page_id] = handle[h].frame

\* pin_count_ is the number of Page* outstanding on the frame.
PinCountIsExact ==
    \A f \in Frames : pages[f].pin_count = Cardinality(PinsOn(f))

\* The replacer may evict a frame only if it holds a page nobody has pinned, and
\* protects only frames that are pinned; Evict never drops a page in use and Remove
\* never throws.
ReplacerMatchesPins ==
    \A f \in Frames :
        /\ replacer[f] # "untracked" => \E p \in PageIds : page_table[p] = f
        /\ replacer[f] = "evictable" => pages[f].pin_count = 0
        /\ replacer[f] = "protected" => pages[f].pin_count > 0
        /\ pages[f].pin_count > 0 => replacer[f] = "protected"

\* A page id is used only after it was allocated, and a page in the table has not been
\* deleted: AllocatePage, also after a restart, never hands out the id of a page that
\* exists.
IdsAreAllocated ==
    /\ Resident \subseteq live
    /\ \A p \in live : p < disk.next_page_id
    /\ disk.size <= disk.next_page_id

\* Until the operating system refuses a write, no frame is lost: each is on the free
\* list, pinned or evictable, so NewPage and FetchPage return nullptr only when
\* every frame is pinned.
NoFrameIsLost ==
    disk.io # "bad" =>
        \A f \in Frames : OnFreeList(f) \/ replacer[f] # "untracked"

\* A page that is not marked dirty and that no caller is going to mark dirty is on
\* disk as it is in memory, so evicting it without a write loses nothing.
CleanPageIsOnDisk ==
    \A p \in Resident :
        \/ pages[page_table[p]].is_dirty
        \/ \E h \in PinsOn(page_table[p]) : handle[h].dirty
        \/ p < disk.size /\ disk.content[p] = DataOf(p)

\* A page that is not in memory is in the file, so no read goes past its end and
\* the stream never enters the "fail" state.
NonResidentIsInFile ==
    /\ \A p \in live \ Resident : p < disk.size
    /\ disk.io # "fail"

-----------------------------------------------------------------------------
\* What FetchPage(p) shows.
Contents ==
    [p \in PageIds |-> IF p \notin live THEN NoPage
                       ELSE IF p \in Resident THEN DataOf(p) ELSE ReadPage(disk, p)]

Store == INSTANCE PageStore WITH contents <- Contents, durable <- Durable

\* No update is lost: through evictions, write-backs, flushes, failed writes and
\* concurrent pins FetchPage shows what a caller last wrote to the page, it changes
\* only in the step in which a caller writes, and a restart recovers contents the
\* page really had.
ImplementsPageStore == Store!Spec
=============================================================================
