# OneBase in TLA+

OneBase is a teaching database engine in C++: a page file, a buffer pool with LRU-K
replacement, a B+ tree, table heaps, a lock manager, a Volcano-style executor and a small
TCP server. This directory holds TLA+ modules translated from its source, the TLC
configurations that check them on small instances, and TLAPS proofs of what holds for
every instance. Source paths below are relative to `src/src/`.

## 1. The system and its hard parts

| Component | State it keeps | Operations | Talks to | What makes it correct |
|---|---|---|---|---|
| `storage/disk/disk_manager.cpp` | the file, its length, `next_page_id_`, the stream's error bits | `ReadPage`, `WritePage`, `AllocatePage`, constructor | called by the buffer pool | a page reads as it was last written; ids are not reused |
| `buffer/lru_k_replacer.cpp` | the last k access times and the evictable flag of each frame, `curr_size_`, a clock | `RecordAccess`, `SetEvictable`, `Evict`, `Remove`, `Size` | called by the buffer pool | evicts by LRU-K, never a protected frame; `curr_size_` does not drift |
| `buffer/buffer_pool_manager.cpp` | frames, `page_table_`, `free_list_` | `NewPage`, `FetchPage`, `UnpinPage`, `DeletePage`, `FlushPage`, `FlushAllPages` | replacer, disk manager; called by every storage component | a pinned page stays where it is; no update is lost; no frame is lost |
| `buffer/page_guard.cpp`, `common/rwlatch.h` | a pin and a latch per guard | construct, move, assign, `Drop` | buffer pool | each pin and latch is released exactly once |
| `concurrency/lock_manager.cpp` | a request queue, a condition variable and an upgrading flag per tuple | `LockShared`, `LockExclusive`, `LockUpgrade`, `Unlock` | the transaction's state and lock sets | exclusion, two-phase locking, every waiter is woken |
| `concurrency/transaction_manager.cpp` | transactions, their states and lock sets | `Begin`, `Commit`, `Abort` | `Unlock` | an ended transaction holds nothing |
| `storage/index/b_plus_tree*.cpp`, `storage/page/b_plus_tree_*.cpp` | tree pages, `root_page_id_` | `Insert`, `Remove`, `GetValue`, `Begin`, iterator | page guards | an ordered map; balanced; keys reachable from root and leaf chain |
| `storage/page/table_page.cpp`, `storage/table/table_heap.cpp` | slots and a free space pointer per page, the chain of pages | `InsertTuple`, `UpdateTuple`, `DeleteTuple`, `GetTuple`, iterator | buffer pool | tuples do not overlap; a tuple stays at its RID |
| `catalog/catalog.cpp`, `execution/executors/*` | tables, indexes, executor cursors | create, drop, insert, update, delete, scans, joins, aggregation | table heap, index maps | index and table agree; a statement sees each row once |
| `optimizer/optimizer.cpp` | none | rewrite of a filtered scan to an index scan, of a join to a hash join | catalog | where the plan does not throw, the rewritten one has the same result |
| `binder/binder.cpp` | none | SQL parse trees to plans | catalog | a name means the column it names |
| `onebase_server/*`, `onebase_client/*` | one thread per client, `g_running`, the sockets | accept, query, quit, shutdown | everything above, without a lock | each query gets its answer; descriptors are closed once; shutdown ends |
| `common/*`, `type/*` | none | constants; values, their comparison and layout | | |

Concurrency enters in four places: callers of the buffer pool hold a `Page *` across calls
while others run; transactions wait on condition variables; guards hold page latches; the
server runs one thread per client. Failure enters through the file stream (short reads,
refused writes, exceptions half-way through an operation) and through process restarts,
since nothing flushes on exit. `PROJECT.json` lists each hazard at the line where it bites,
with the properties that would catch it.

## 2. Modules

```
Replacer  <----------- LRUKReplacer <--- LRUKReplacerLog ---> LRUKPolicy
   ^  (refines)             ^  ^--------- LRUKScan        (refines)
   | (used by)              '------ LRUKReplacerProofs (of all three)
BufferPoolManager ---> PageStore (refines)
   |      ^--- BufferPoolManagerProofs
   '--> DiskManager
PageGuard <--- PageGuardProofs   (guards and latches over a small pool)
LockManager ---> TwoPhaseLocking (refines)
   ^--- LockManagerProofs
BPlusTreePage <--- BPlusTree ---> OrderedIndex (refines)
   ^                   ^--- BPlusTreeProofs <--- BPlusTreeIndexProofs
   '--- BPlusTreePageProofs <----'
Value <- TableHeap <- Catalog <- Executors <- ExecutionEngine <- Optimizer <- Binder <- SqlEngine
Server <--- ServerProofs         (threads, messages, signals)
MCLRUK, MCBufferPool, MCLockManager, MCBPlusTree, MCSqlEngine: what TLC runs
```

**Replacer** is what the buffer pool may assume of a replacer: a frame is untracked,
protected or evictable, and `Evict` hands out *some* evictable frame. Its operators map one
replacer state to the next, so that a buffer pool action can chain the calls it makes under
its latch.

**LRUKReplacer** is `lru_k_replacer.cpp`, one action per method, as each method holds
`latch_` throughout. `entries` is `entries_`; a frame that is not in the map has an empty
history, which no frame in the map has, since k >= 1. (With k = 0 `Evict` would read the
front of an empty list; the program always uses `LRUK_REPLACER_K = 2`.) `victim` is the
frame the last call returned. `RejectedCall` stands for the early returns and for the
exception of `Remove`. The clock is a 64-bit counter in the code and does not wrap here.

**LRUKReplacerLog** adds a history variable, the complete access log of each frame, and
shows that the replacer implements **LRUKPolicy**, LRU-K stated on complete logs.
**LRUKScan** is the loop of `Evict` with its four locals, as a fold over the frames in every
order the hash map could yield them.

**DiskManager** has the file as a function from pages to contents, its length in pages, the
allocation counter and the state of the one `fstream`. The state of the stream matters,
because nothing in the code clears it: after a short read ("fail") every later operation is
silently skipped; after a refused write ("bad") every later operation throws. A 4096-byte
`write` goes straight to the operating system in libstdc++ (it is larger than the 1 KB below
which it is buffered), so a refused write is noticed by the check in the same `WritePage`. Page
writes are atomic in the model, and the operating system does not fail reads.

**BufferPoolManager** composes Replacer and DiskManager. One method is one action, and
FetchPage is two (`FetchResident`, `FetchFromDisk`); an exception thrown half-way is an action
of its own (`WriteBackThrows`, `ReadBackThrows`) with exactly the changes made before the throw.
A call that returns nullptr or false without changing anything is a stuttering step.
`handle` and `live` are the callers: each handle is an outstanding `Page *` with what its
holder will tell `UnpinPage`. Callers unpin what they pinned, once, say "dirty" if they wrote,
and fetch and delete only pages that exist, as every caller in the source does; two callers
may hold the same page. `CleanNewPages` says whether a caller may unpin a page it *created* as
not dirty. `Restart` ends the process at any point and opens the file again.

**PageStore** is what pool and disk promise together: a page shows what was last written until
it is deleted, and a restart recovers for each page some contents that had been persisted. What the
callers wrote is a variable of PageStore besides what `FetchPage` shows; in BufferPoolManager it is a history
variable (`written`), set where a caller creates, writes or deletes a page and never by evictions,
write-backs or flushes. The abstract steps change the two together, so a page that falls back to an older
version, or shows another page's bytes, is no step of PageStore.

**LockManager** is `lock_manager.cpp` with `transaction_manager.cpp`. A lock call runs under
`latch_` up to its wait, sleeps (`asleep`), is notified or wakes spuriously (`awake`), takes the
latch and looks again (`Wake`). The part between the last look at the transaction's state and
the update of its lock sets is a step of its own (`Grant`), with the latch held: Commit and
Abort of that transaction write the same fields without the latch. The loops of Commit and Abort
go element by element. `Unlock` erases from the set the element the loop stands on, so the
increment that follows is undefined behaviour; `ReleaseNext` lets the loop go on, end, or take
the process down. (With GCC 12 and glibc 2.36 a Commit with a held lock crashes.) Three
constants select how callers behave: `Relock` (ask for X on what is held in S mode),
`ReleaseFirst` (unlock everything before Commit or Abort), `ExternalAbort` (another thread
aborts a transaction).

**TwoPhaseLocking** is the abstract lock table: no queues, no waiting, a lock is acquired only
in the growing phase and only against no conflicting holder.

**PageGuard** is `page_guard.cpp` with the latch of `page.h`. A guard is a variable of a thread: a
kind (basic, read, write), a frame and a dirty flag. A fetch pins (`FetchPage`) and then waits for the
latch (`Latch`); a drop releases the latch (`DropUnlatch`) and then the pin (`DropUnpin`); other
threads run in between. Move assignment is the same pair of steps followed by the transfer of the
fields. `Relatch` is a thread that asks for a latch it holds exclusively and gets an exception: the
constructor is left and nobody owns the pin (`leaked`). The pool is reduced to frames, pins, dirty
flags and whether a write is unsaved; BufferPoolManager has it in full.

**BPlusTreePage** has the operations of one page: a header and an array of slots, with the slots
of an internal page beyond its size as the code leaves them, since a merge reads one of them. **BPlusTree** is the
tree: `pg` maps page ids to pages, and every operation is a function from pages and root to pages
and root. A descent, and the recursion of `InsertIntoParent` and `CoalesceOrRedistribute`, which the code
has only in tail position, is a function from the number of rounds to the state after them
(`InsertCall` and `CoalesceCall` are one round), taken for as many rounds as there are pages: no path is
longer, which for descents and insertions is proved. `Redistribute` asks for the write latch its caller holds, so
it never gets past its first line; the operation ends there with an exception or hangs (`outcome`).
What it would do with the latch is `RedistributeBody`, whose leaf half is checked on its own.
**OrderedIndex** is the map from keys to record ids that the tree promises.

**Value** holds comparisons, arithmetic and logic, and the two layouts of a row: the sizes it is
written with and the offsets it is read with. A payload is an integer; a VARCHAR is a length.
**TableHeap** has the slotted page with its free-space pointer and the chain of pages; **Catalog**
the tables and the point-lookup indexes; **Executors** the expressions and the executors as
operators on streams of rows that may end in an exception; **ExecutionEngine** builds and runs a plan,
and runs INSERT, UPDATE and DELETE row by row against a scan whose cursor sees the changes.
**Optimizer** returns the *set* of plans the two rewrites can produce, one per index that the order of
the catalog's hash map could put first. **Binder** starts from parse trees (records with the fields
the code reads), resolves names and builds plans. **SqlEngine** is the session: `HandleQuery` binds,
optimizes and executes a statement; one that throws keeps the effects it had, as the code does.
SELECTs do not change the state, so the properties evaluate them in every state against
`Expected`, which works with names and sets of rows and uses none of the executors.

**Server** is `server_main.cpp`, `protocol.h` and the connection of `client_main.cpp`: the accept loop,
one worker per connection, the framed messages, clients that quit, vanish or die in the middle of a
message, and SIGINT and SIGTERM. A signal may come at any time, again, to any thread, and while a thread
is in the handler for the other one. The handler's store of `g_running` goes with its entry, since until then the
thread only stands still; the test of `g_listen_fd`, the close and the assignment are a step each,
between which all other threads run. `g_listen_fd` is a plain int, so a close after another handler cleared it
closes the old number or nothing. A second close of the number is counted (`listenCloses`)
and meets no descriptor: nothing else opens descriptors in the meantime but `accept`, which in Linux
reserves the connection's number before it waits. `crossed` remembers that a delivery met another in the handler or
came after main's own close, which leaves the number in `g_listen_fd`: the two ways to a second close.
A thread inside `accept` keeps the listening socket alive after another thread closed its descriptor (`Alive`,
the behaviour of Linux); one that is interrupted calls it again, as `signal` of glibc arranges. What a statement does
is left to SqlEngine; here it succeeds or throws, and RESULT and ERROR are both an answer. A
length of zero ends the connection as the end of the stream does. `RecvMessage` resizes its buffer
to the length it was told (`protocol.h:95`); an exception there is outside any `try`, and is left out.

Operators marked "Mutant" in the modules are plausible faults of the definition that follows
them. No specification uses them; each is there to show that a property notices the fault.

## 3. What TLC checks

| Run | Instance | Shows |
|---|---|---|
| `lruk` | 3 frames, k = 2, 6 accesses | `SizeCountsEvictable`, `HistoryIsLastK`, `ScanFindsVictim`, `VictimIsUnique`; the replacer implements Replacer and LRUKPolicy |
| `pool` | 2 frames, 3 pages, 2 handles, contents {Zero, a} | all bookkeeping invariants, `NoFrameIsLost`, `CleanPageIsOnDisk`, `NonResidentIsInFile`, and that the pool implements PageStore |
| `pool_clean_new_pages` | the same, `CleanNewPages` | **violated**: see finding 1 |
| `locks_one_resource` | 3 transactions, 1 resource, fairness | `QueuesMatchLockSets`, `SingleUpgrader`, `NoLostWakeup`, no deadlock, and that every lock call returns (`CallsReturn`) |
| `locks_two_resources` | 3 transactions, 2 resources, relocking, Commit and Abort with locks held | `LockExclusion`, and that the lock manager implements TwoPhaseLocking |
| `locks_commit` | 1 transaction, 2 resources, fairness | **violated**: finding 2 |
| `tree` | 6 keys, at most 8 pages, maximum sizes (2, 3) and (4, 4) | the tree implements OrderedIndex; the leaf chain agrees with lookups; parents and separators are right; leaf redistribution keeps lookups |
| `tree_remove` | the same, removals in trees of three levels | **violated**: finding 3 |
| `guards` | 2 threads with 2 guards each, 2 frames, 2 pages in the file and a new one, 4 fetches | `PinsMatchGuards`, `LatchesMatchGuards`, `NoLostWrite`; fetches from a root down return (`FetchReturns`) |
| `sql` | 3 tables and one to create, pages of 64 bytes, any 4 of 20 statements, 13 queries in every state, 3 of which can throw | `IndexMatchesTable`, `PlansAgree`, `AnswersAreRight`, `StatementsActOnce` |
| `sql_join` | one query with a column of the right table | **violated**: finding 4 |
| `server` | 2 clients with 2 messages between them, backlog 1, 2 signals | `AnswersMatchQueries`, `DescriptorsClosedOnce`; `QueriesAnswered`, `ShutdownCompletes` |

*Bounds.* Six accesses over three frames with k = 2 let two frames have complete histories and
one an incomplete one in the same `Evict`, and a frame come back after its eviction. Two frames
for three pages force evictions; two handles allow two pins on one page, pins on two pages, and
a full pool; two contents tell a lost update from a kept one. `MaxPages` bounds how often
`NewPage` succeeds; a restart brings the counter back to the length of the file. Three transactions on one
resource give an upgrader, a holder it waits for, and a waiter in either mode. Two resources are
what crossing waits need; there `CHECK_DEADLOCK` is off, because such waits are real:
the lock manager has no deadlock detection. The lock run with one resource and the pool and
replacer runs check for deadlock. Symmetry is used on handles (pool) and on transactions and
resources (`locks_two_resources`), which the specifications treat alike; not with liveness.

Six keys with maximum sizes (2, 3) grow a tree of three levels, with splits of leaves, of internal pages
and of the root; with (4, 4), the sizes of the repository's tests, removals merge leaves and shrink the
root. `RemoveDepth` keeps removals of the `tree` run to trees of two levels, in which no two internal
pages can merge, the defect of finding 3: beyond it everything else fails too. Two guards per thread are what a move needs, and
two frames for three pages force evictions under other threads' guards. Threads fetch in any order, or, with a
page for `top`, only from that page to others, as the descents of the tree do hand over hand; each page is
`top` in turn, the new one too, since the root's id is usually the largest. Two levels are
all that two guards can hold. The 64-byte pages of `sql`
hold four rows of two integers, or fewer after updates, so scans cross pages and insertions append them; a page that an
update overruns ends the behaviour (`Overran`). Four statements allow an index to be created, the
table to be changed twice around it and the index to be dropped. Rows of integers keep their
size, so an `UpdateTuple` refused for lack of room does not occur. Three queries throw, by a division by zero or by comparing
an INTEGER with a VARCHAR, in a scan that an index may replace and in a join that becomes a hash join:
`PlansAgree` asks for equal answers wherever the bound plan does not throw. Where it does, the optimized plan
may answer, because the index lookup and the hash join do not compare the values the scan and the nested
loop compare (`execution/executors/index_scan_executor.cpp:27`, `hash_join_executor.cpp:27`). Two signals
are what it takes to nest and to cross, and two messages let a client be answered and ask again, or both clients wait. In `server` a second client with a backlog
of one lets a connection wait while another is served and be reset by the shutdown. These four
runs allow the system to stop: the bounds end, threads that fetch pages in any order may deadlock
(`CoalesceOrRedistribute` fetches the parent and a sibling of the page it holds), and a server may wait for clients for ever.

*Fairness.* Locks (`locks_one_resource`, `locks_commit`): weak fairness of the steps of a running
thread (a notified thread gets the latch and runs, a thread inside Commit or Abort goes on) and of
callers that are not blocked to unlock and end. Nothing is assumed of spurious wake-ups or of
callers asking for locks. Without the callers' part no lock manager could promise that a wait ends.
Guards: a thread goes on with the fetch or drop it has begun, and guards, being local variables, are
dropped at the end of their scope (strong fairness, since moves may come in between; the
number of fetches is bounded). Server: threads that can run do, and a waiting client reads its answer;
nobody has to type, leave or send a signal.

### Findings

1. *A page created and unpinned clean poisons the file.* Such a page never reaches the file when
   it is evicted. Fetching it again reads past the end, and the fail bit stays set: later
   write-backs are dropped without an error and other pages read as zeros
   (`storage/disk/disk_manager.cpp:38`). The pattern, new pages unpinned clean, is in the
   repository's own tests (`test/buffer/lab1_test_common.h:219`), which fetch only other pages.
2. *Commit does not release all locks.* Undefined behaviour of the loop at
   `concurrency/transaction_manager.cpp:19`, see LockManager above.
3. *Merging internal pages breaks parent ids.* `Coalesce` gives the moved children the parent id of
   the page they moved to instead of its own id (`storage/index/b_plus_tree.cpp:294`). The next split
   or merge below looks for its page in the wrong parent.
4. *Columns of the right table above a join.* `ColumnValueExpression::Evaluate` ignores the index of
   the tuple, so `SELECT b.val FROM a JOIN b ...` returns a column of `a`
   (`execution/expressions/column_value_expression.h:11`).

Two more are reachable with the switches of LockManager that `locks_one_resource` leaves off. With
`Relock = TRUE` in `MCLockOne.cfg`, LockShared, LockExclusive and one Unlock leave the exclusive request
granted after both lock sets forgot it (`concurrency/lock_manager.cpp:224`); with
`ExternalAbort = TRUE` an Abort, which does not take the latch, misses a lock that is being
granted. TLC refutes `QueuesMatchLockSets` in both cases.

Behaviour the models reproduce, and that a reader should know: `Redistribute` never gets its latch;
`Begin(key)` for an absent key beyond its leaf's last answers End(); `UpdateTuple` may write over the
slots of a full page; a comma join binds only its first table and LEFT JOIN runs as an inner join;
a signal that a worker takes leaves `accept` asleep until another connection arrives; signals that cross
close the listening descriptor twice; an index makes a query answer that throws without it. `PROJECT.json`
has each at its line, where it is a hazard.

## 4. What is proved

TLAPS, for every value of the constants that the named assumptions allow. They ask for finite sets of
frames, handles, threads and guard variables, k >= 1, bounds that are natural numbers, and markers
(`NoFrame`, `NoThread`, `NoCall`) outside the sets they mark the absence of. A theorem that holds only
for some callers says so with the model's own switch as a hypothesis (`~CleanNewPages`, `~ExternalAbort`,
`~Relock`, `ReleaseFirst`); what goes wrong without it is a finding above. The theorems about the whole
B+ tree have `Usable`, explained below.

**LRUKReplacerProofs.** The inductive invariant is `TypeOK /\ SizeCountsEvictable /\
EvictableIsTracked`: `SizeCountsEvictable` alone is not inductive in the natural numbers, since `Evict` and `Remove`
subtract one, which needs an evictable frame to be among those counted; and that an erased frame
comes back as protected needs `EvictableIsTracked`. From it: `TypeCorrect`, `SizeCorrect`, and
`Refinement`, that every step is a step of Replacer or a stutter. The pool is verified against
Replacer, so its results hold with LRU-K in place.

The second half is about the policy. It is over LRUKReplacerLog, which refines LRUKReplacer (`LogRefines`), so that the
results above hold of it too. The inductive invariant `LogInv` adds `HistoryIsLastK` and that no two
frames share a timestamp: the clock moves with every access, and an evicted frame starts a new log.
`HistoryCorrect` is one half of it; `VictimUnique` follows from the other; and the two together
identify the order in which the replacer evicts with the order on complete logs, which is
`PolicyRefinement`. `ScanCorrect` is the loop of `Evict`: `BestOf` says what its locals mean after
some of the frames, `ScanKeepsBest` that an iteration keeps it, and an induction on the number of
frames met carries it to the end of the fold, for every order of the hash map.

**BufferPoolManagerProofs.** The inductive invariant `Consistent` is the conjunction of `TypeOK`,
`TableMatchesFrames`, `FreeFramesAreFree`, `PinnedPageStays`, `PinCountIsExact`,
`ReplacerMatchesPins` and `IdsAreAllocated`. No part is inductive alone: a pinned page stays because evictable frames
are unpinned; that holds because pin counts are exact; the count of a frame taken from the free
list is zero because free frames are in no table; that the new page is in no frame
yet is because its id was never handed out. `FrameTaken` collects what is known of a frame obtained by
NewPage or FetchPage, from the free list or by eviction; `InstallConsistent` is the half those two
share; `ContentsOnlyConsistent` serves the steps that change only data and dirty flags. There is one lemma per action, and
`Invariance`, `PinSafety`, `PinCountCorrect`, `EvictionSafety`, `IdsCorrect`, `TableCorrect` and
`FreeListCorrect` follow. They hold
with failing writes, exceptions and restarts, and with `CleanNewPages` either way.

The second half, on top of `Consistent`, is about frames and contents. `FramesCorrect` needs nothing more. The contents need
`DataInv`: `CleanPageIsOnDisk` and `NonResidentIsInFile` each depend on the other (an eviction that does
not write relies on the first and has to give the second, a fetch the other way round), and both
on the stream never being in the failed state and on the file being zero beyond its end. `CleanCorrect`, `FileCorrect`
and `StoreRefinement` then hold under `~CleanNewPages`, with refused writes, exceptions half-way
and restarts. The refinement is step by step: what moves contents between frames and file leaves what pages show
as it was, and what changes `written` changes what the page shows to the same. In PageStore the two begin
equal and stay so. Without the hypothesis finding 1 refutes the refinement.

**PageGuardProofs.** `PinsCorrect` rests on the types and on `Targets`: the variable a fetch under way will
fill is empty, and those a drop is about are not. `LatchesCorrect` also needs that a thread never has two
write guards on a frame, which the exception of `Relatch` gives, and `ExclusionCorrect` that a write latch
excludes readers. `WritesCorrect` needs `WritesKnown`: a write that is not on disk is known to
the frame or to a guard that will tell it. Every step of a drop or a move is a step of its own, so
these hold with other threads in between.

**LockManagerProofs.** `LockInv` says what a thread that holds the latch has found and may rely on
(`OneGranting`), that locks and calls have their requests in the queue, that the thread of a waiting
transaction is not ending it, that one transaction at most upgrades per queue, and that a sleeper cannot be
granted (`SleepersBlocked`). It is needed as a whole: a sleeper stays blocked
only if every release notifies, and the wanted request can be found only if it is still queued. From
it, `UpgradersCorrect`, `WakeupsCorrect`, `LockRefinement` and `ExclusionCorrect`, for any transactions and resources,
with relocking and with Commit and Abort of transactions that hold locks. The hypothesis is
`~ExternalAbort`. `QueuesCorrect` also needs `~Relock` and `ReleaseFirst`: each is a finding
when it is dropped.

**ServerProofs.** `ServerInv` relates the progress of every delivery of a signal to the flag, the descriptor and the socket
(`Signalled`), says that while none has crossed there is one handler at a time and the one about to close is the
first to do so (`Uncrossed`), relates each
connection to its place in the backlog, its worker and the number of closes, and says that there is
at most one message between a client and its worker. `AnswersCorrect` and `ClosesCorrect` are read off it.

**BPlusTreePageProofs.** What the operations of one page compute, for pages of any size. `BinarySearchCorrect` is
by induction on the length of the range. With it, a leaf that is in order stays so under insertion, removal,
split, merge and the two moves of redistribution, and exactly the entries that should be there are.
For internal pages the statement is about `Route`, the child a key is sent to: a split, a merge and the
removal or addition of a child change it for no key but those that belong to the child
concerned. `MoveLastToFrontOf` of an internal page is left out: it puts the child it moves
behind the recipient's first, and it is never reached.

**BPlusTreeProofs.** The shape of a whole tree. The difficulty is that the pages alone do not say
which keys a page is responsible for, and that a leaf's successor is in another branch. The proofs
therefore quantify over a *band* for each page of the tree: its level above the leaves and the range of
keys it is for. `Shape` says, page by page, that a page fits its band (`FitsBand`), that the ranges
of its children are the pieces its separators cut its own range into (`PointsDown`), that its parent points
back at it (`PointsUp`), and that the next leaf's range begins where this leaf's ends (`PointsRight`);
the root's range is everything. No path is ever mentioned: order, balance, parents and the leaf chain
are all local facts of this kind, so an operation has to restore them only at the pages it touches.
`Shape` has two more arguments for the middle of an insertion, when a page has been split and its
parent has not been told: the two halves then count as one. `Tree` adds that pages are neither
empty nor too large, that an internal root has two children, and that there are fewer levels than
pages, which makes the loops end. `DescentCorrect`: a descent reaches the one leaf for its key. `InsertCorrect`: one round
of `InsertIntoParent` either finishes the tree or leaves one split pending a level higher, with the same
contents (`Climbs`), and induction on the level carries that to the root. What the page operations do to separators comes from
BPlusTreePageProofs.

**BPlusTreeIndexProofs.** `RemoveCorrect`, that a removal leaves a whole tree without the key, by merging
two leaves, dropping the root, or leaving a leaf underfull where `Redistribute` gets stuck.
`TreeInvariance`: `TreeInv`, that some bands make the pages a `Tree`, is inductive. From it
`IndexRefinement` (what lookups find is the set of entries of the leaves, of which an operation changes one),
`ParentsCorrect`, `KeysCorrect` (the pages below a child have ranges within its own), `ScanCorrect` (an iterator at an entry
has still to come exactly the entries from its key on; `Advance` passes one, within the leaf or to the
leaf whose range is next, and the loop ends before as many rounds as there can be keys), and
`LeafMovesCorrect` (the entry that moves shifts the border of the two ranges, and the new separator is that border).
These are for any set of keys that has a largest one, any bound on the pages, and the parameters `Usable` admits, among which those of
the `tree` run are:

- *a leaf holds at least 2 entries.* With a maximum of 1 the minimum is 0: a removal leaves an empty leaf in the chain, and an
  iterator that enters it reads an entry that is not there;
- *an internal page holds at least 3 children.* With 2 the minimum is 1: a removal leaves a root with a single child;
- *every page has one slot more than its maximum*, for the entry that makes it split. The code, too, writes that entry
  before it splits; with the default sizes of the constructor (339 entries, 510 children) it ends 4 bytes past
  a leaf's page and 8 bytes past an internal one, which no model of single pages shows;
- *removals are from trees of at most two levels* (`RemoveDepth`): beyond, finding 3 refutes all of it.

TLC found a counterexample for each of the first two and for the last.

Induction over data is done without the library's schemas, whose predicate parameter no installed prover instantiates:
the set of counterexamples has a least element (`WFMin`), which `Inductive` turns into induction on a *set* of numbers,
and a recursive function is first shown to exist by extending it one length at a time (`SearchExists`,
`FoldExists`). The loops of BPlusTree are runs of a step function, which `RunsOn` and the lemmas about it describe.

Only model-checked: everything about SQL (`IndexMatchesTable`, `PlansAgree`, `AnswersAreRight`,
`StatementsActOnce`), because the executors and the binder follow the recursion of plans and expressions with recursive
operators, with which the prover has no SMT backend; and liveness (`CallsReturn`, `FetchReturns`,
`QueriesAnswered`, `ShutdownCompletes`), which is out of its reach.

## 5. Not modelled, and what is left

- *Concurrent operations on one B+ tree.* `root_page_id_` is read and written without a latch, so two
  threads race from the first insertion on; nothing in the program uses the tree, which is not what the
  catalog's indexes are built on, from two threads.
- *Concurrent statements.* Server threads share one catalog without a lock: every access is a data
  race, so no outcome is excluded. Server has the threads, SqlEngine the statements one at a time.
- *The bytes of values*: FLOAT arithmetic, 32-bit overflow, and what a NULL or an over-long tuple leaves
  on a page.
- *Text*: parsing, error messages, the rows of SHOW, the encoding and printing of results, and the local shell
  (`tools/onebase_shell.cpp`), a terminal over the same engine.
- *Vendored code*: the SQL parser, the test framework, argument parsing.

Proofs that would come next: the slotted page of TableHeap (tuples do not overlap, an update that
fits leaves the others alone), and the agreement of index and table, once the executors are stated without
recursive operators.
