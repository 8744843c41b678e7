----------------------------- MODULE PageGuard -----------------------------
(***************************************************************************)
(* Page guards and page latches over the buffer pool.  A guard is a local  *)
(* variable of a thread: it is filled by NewPageGuarded, FetchPageRead or  *)
(* FetchPageWrite, moved, assigned over and dropped in any order.  A fetch *)
(* pins first and then waits for the latch; a drop releases the latch and  *)
(* then the pin.  Both are two steps here.  The pool itself is reduced to  *)
(* frames, pins and dirty flags: BufferPoolManager has it in full.         *)
(***************************************************************************)
EXTENDS Integers, FiniteSets

CONSTANTS
    Threads, Vars,          \* threads, and the guard variables of each
    Frames, NoFrame, NoThread,
    FirstNewPage,           \* pages 0 .. FirstNewPage - 1 are in the file
    MaxPages,               \* bound: page ids ever allocated
    MaxFetches              \* bound: guards ever acquired

ASSUME GuardAssumption ==
    /\ IsFiniteSet(Threads) /\ IsFiniteSet(Vars)
    /\ NoFrame \notin Frames /\ NoThread \notin Threads
    /\ FirstNewPage \in Nat

VARIABLES
    page,                   \* page id in each frame, -1 if none
    pins, dirty,            \* pin_count_ and is_dirty_ of each frame
    unsaved,                \* whether the frame was written since its last write-back
    lost,                   \* whether an eviction threw a write away
    next,                   \* next page id
    writer, readers,        \* the frame's latch: its writer, its reader count per thread
    guard,                  \* the guards of each thread
    pc,                     \* what each thread is in the middle of
    leaked,                 \* pins whose guard was never built
    fetches,                \* guards acquired so far
    top                     \* the root, if threads only fetch downwards, -1 if in any order

pool == <<page, pins, dirty, unsaved, lost, next>>
latches == <<writer, readers>>
vars == <<pool, latches, guard, pc, leaked, fetches, top>>

\* Kinds: "B" BasicPageGuard, "R" ReadPageGuard, "W" WritePageGuard.
Guard(kind, f, d) == [kind |-> kind, frame |-> f, dirty |-> d]
EmptyGuard == Guard("B", NoFrame, FALSE)
Idle == [at |-> "idle"]
Live(t, v) == guard[t][v].frame # NoFrame

\* A fetch builds the first guard that is empty: their names do not matter.
Fresh(t, v) == ~Live(t, v) /\ \A u \in Vars : u < v => Live(t, u)
-----------------------------------------------------------------------------
\* FetchPage or NewPage takes a frame for page p: p's own, a free one, or one
\* that nobody pins, whose page is written back first if it is dirty.
Holds(p) == {f \in Frames : page[f] = p}

FrameFor(p) ==
    CASE Holds(p) # {}  -> Holds(p)
      [] Holds(-1) # {} -> {CHOOSE f \in Holds(-1) : TRUE}
      [] OTHER          -> {f \in Frames : pins[f] = 0}

Take(f, p) ==
    LET evict == page[f] # p
    IN  /\ page' = [page EXCEPT ![f] = p]
        /\ pins' = [pins EXCEPT ![f] = @ + 1]
        /\ lost' = (lost \/ (evict /\ unsaved[f] /\ ~dirty[f]))
        /\ dirty' = [dirty EXCEPT ![f] = @ /\ ~evict]
        /\ unsaved' = [unsaved EXCEPT ![f] = @ /\ ~evict]

\* UnpinPage, which finds the frame by the page id the guard reads from it.
Unpin(f, d) ==
    /\ pins' = [pins EXCEPT ![f] = IF @ > 0 THEN @ - 1 ELSE @]
    /\ dirty' = [dirty EXCEPT ![f] = @ \/ d]
    /\ UNCHANGED <<page, unsaved, lost, next>>

Fetched == fetches' = fetches + 1

\* NewPageGuarded: no latch.  With every frame pinned the guard stays empty.
NewPageGuarded(t, v) ==
    /\ pc[t] = Idle /\ Fresh(t, v) /\ next < MaxPages /\ fetches < MaxFetches
    /\ Fetched
    /\ IF FrameFor(next) = {} THEN UNCHANGED <<pool, guard>>
       ELSE \E f \in FrameFor(next) :
               /\ Take(f, next)
               /\ next' = next + 1
               /\ guard' = [guard EXCEPT ![t][v] = Guard("B", f, FALSE)]
    /\ UNCHANGED <<latches, pc, leaked, top>>

\* The rule of the descents in Insert, Remove, GetValue and Begin: hand over hand,
\* from the root (whose id is often the largest: a split of the root allocates it
\* after its children) to its children.  The bounds leave room for two levels.
\* CoalesceOrRedistribute fetches the parent and a sibling of the page it holds, and
\* Redistribute a page that is held already: threads that fetch in any order.
Depth(p) == IF p = top THEN 0 ELSE 1

Downwards(t, p) ==
    top # -1 => \A u \in Vars : Live(t, u) => Depth(page[guard[t][u].frame]) < Depth(p)

\* FetchPageRead, FetchPageWrite: the pin.
FetchPage(t, v, kind, p) ==
    /\ pc[t] = Idle /\ Fresh(t, v) /\ p < next /\ fetches < MaxFetches
    /\ Downwards(t, p)
    /\ Fetched
    /\ IF FrameFor(p) = {} THEN UNCHANGED <<pool, pc>>
       ELSE \E f \in FrameFor(p) :
               /\ Take(f, p)
               /\ pc' = [pc EXCEPT ![t] = [at |-> "latch", v |-> v, kind |-> kind, f |-> f]]
               /\ UNCHANGED next
    /\ UNCHANGED <<latches, guard, leaked, top>>

NoReader(f) == \A t \in Threads : readers[f][t] = 0

\* The constructor's latch: shared for a reader, exclusive for a writer.
Latch(t) ==
    LET f == pc[t].f
    IN  /\ pc[t].at = "latch"
        /\ writer[f] = NoThread
        /\ IF pc[t].kind = "W"
           THEN /\ NoReader(f)
                /\ writer' = [writer EXCEPT ![f] = t]
                /\ UNCHANGED readers
           ELSE /\ readers' = [readers EXCEPT ![f][t] = @ + 1]
                /\ UNCHANGED writer
        /\ guard' = [guard EXCEPT ![t][pc[t].v] = Guard(pc[t].kind, f, FALSE)]
        /\ pc' = [pc EXCEPT ![t] = Idle]
        /\ UNCHANGED <<pool, leaked, fetches, top>>

\* Asking for a latch this thread holds exclusively fails on some platforms:
\* the exception leaves the constructor and nobody owns the pin.  On the
\* others, and when it holds the latch shared, the thread waits forever.
Relatch(t) ==
    /\ pc[t].at = "latch" /\ writer[pc[t].f] = t
    /\ leaked' = [leaked EXCEPT ![pc[t].f] = @ + 1]
    /\ pc' = [pc EXCEPT ![t] = Idle]
    /\ UNCHANGED <<pool, latches, guard, fetches, top>>

\* GetDataMut, and the write it is called for.
Write(t, v) ==
    LET g == guard[t][v]
    IN  /\ pc[t] = Idle /\ Live(t, v) /\ g.kind # "R"
        /\ unsaved' = [unsaved EXCEPT ![g.frame] = TRUE]
        /\ guard' = [guard EXCEPT ![t][v].dirty = g.kind = "B"]
        /\ UNCHANGED <<page, pins, dirty, lost, next, latches, pc, leaked, fetches, top>>
-----------------------------------------------------------------------------
\* Mutant: only a writer gives its latch up.
UnlatchWriter(t, g) ==
    /\ writer' = [writer EXCEPT ![g.frame] = IF g.kind = "W" THEN NoThread ELSE @]
    /\ UNCHANGED readers

Unlatch(t, g) ==
    /\ writer' = [writer EXCEPT ![g.frame] = IF g.kind = "W" THEN NoThread ELSE @]
    /\ readers' = [readers EXCEPT ![g.frame][t] = IF g.kind = "R" THEN @ - 1 ELSE @]

\* Drop, or the Drop an assignment from variable `from` begins with (`from`
\* is v itself in a plain Drop).  Dropping an empty guard does nothing, so an
\* assignment to one is MoveConstruct and one from one is Drop.  First the
\* latch ...
DropUnlatch(t, v, from) ==
    /\ pc[t] = Idle /\ Live(t, v) /\ Live(t, from)
    /\ Unlatch(t, guard[t][v])
    /\ pc' = [pc EXCEPT ![t] = [at |-> "unpin", v |-> v, from |-> from]]
    /\ UNCHANGED <<pool, guard, leaked, fetches, top>>

\* Mutant: a BasicPageGuard does not pass its dirty flag on.
DropDirtyNever(g) == g.kind = "W"

\* ... then the pin, with the dirty flag of the guard's kind ...
DropDirty(g) == g.kind = "W" \/ (g.kind = "B" /\ g.dirty)

\* Mutant: the guard moved from keeps its page.
MovedKeeps(g) == g

\* The dirty flag it keeps is not read before an assignment overwrites it.
MovedFrom(g) == EmptyGuard

\* ... and then the fields of the guard that is moved from.
DropUnpin(t) ==
    LET v == pc[t].v
        from == pc[t].from
        g == guard[t][v]
    IN  /\ pc[t].at = "unpin"
        /\ Unpin(g.frame, DropDirty(g))
        /\ guard' = IF v = from THEN [guard EXCEPT ![t][v] = EmptyGuard]
                    ELSE [guard EXCEPT ![t][v] = guard[t][from],
                                       ![t][from] = MovedFrom(guard[t][from])]
        /\ pc' = [pc EXCEPT ![t] = Idle]
        /\ UNCHANGED <<latches, leaked, fetches, top>>

\* The move constructor builds v, which held nothing, from another guard.
MoveConstruct(t, v, from) ==
    /\ pc[t] = Idle /\ v # from /\ ~Live(t, v) /\ Live(t, from)
    /\ guard' = [guard EXCEPT ![t][v] = guard[t][from],
                              ![t][from] = MovedFrom(guard[t][from])]
    /\ UNCHANGED <<pool, latches, pc, leaked, fetches, top>>
-----------------------------------------------------------------------------
Init ==
    /\ page = [f \in Frames |-> -1]
    /\ pins = [f \in Frames |-> 0]
    /\ dirty = [f \in Frames |-> FALSE] /\ unsaved = [f \in Frames |-> FALSE]
    /\ lost = FALSE /\ next = FirstNewPage
    /\ writer = [f \in Frames |-> NoThread]
    /\ readers = [f \in Frames |-> [t \in Threads |-> 0]]
    /\ guard = [t \in Threads |-> [v \in Vars |-> EmptyGuard]]
    /\ pc = [t \in Threads |-> Idle]
    /\ leaked = [f \in Frames |-> 0]
    /\ fetches = 0
    /\ top \in -1 .. MaxPages - 1

Thread(t) ==
    \/ \E v \in Vars : NewPageGuarded(t, v) \/ Write(t, v)
    \/ \E v \in Vars, kind \in {"R", "W"}, p \in 0 .. MaxPages - 1 : FetchPage(t, v, kind, p)
    \/ \E v, from \in Vars : DropUnlatch(t, v, from) \/ MoveConstruct(t, v, from)
    \/ Latch(t) \/ Relatch(t) \/ DropUnpin(t)

Next == \E t \in Threads : Thread(t)

\* A thread goes on with what it has begun.  Guards are local variables: the
\* end of their scope drops them, however they were moved about before it.
Fairness ==
    \A t \in Threads :
        /\ WF_vars(Latch(t)) /\ WF_vars(DropUnpin(t))
        /\ SF_vars(\E v \in Vars : DropUnlatch(t, v, v))

Spec == Init /\ [][Next]_vars /\ Fairness
-----------------------------------------------------------------------------
Guards(f) == {tv \in Threads \X Vars : guard[tv[1]][tv[2]].frame = f}

\* The pin count of a frame is exactly the guards on it, the fetches that
\* wait for its latch and the pins no guard was built for: none is released
\* twice, and none forgotten, by any sequence of moves and drops.
PinsMatchGuards ==
    \A f \in Frames :
        pins[f] = leaked[f] + Cardinality(Guards(f))
                  + Cardinality({t \in Threads : pc[t].at = "latch" /\ pc[t].f = f})

\* A guard that has not begun to drop holds its frame's latch, and nobody
\* holds a latch without such a guard.
Holding(t, v, kind, f) ==
    /\ guard[t][v].kind = kind /\ guard[t][v].frame = f
    /\ ~(pc[t].at = "unpin" /\ pc[t].v = v)

LatchesMatchGuards ==
    \A f \in Frames, t \in Threads :
        /\ (writer[f] = t) <=> \E v \in Vars : Holding(t, v, "W", f)
        /\ readers[f][t] = Cardinality({v \in Vars : Holding(t, v, "R", f)})

\* What was written through a guard reaches the disk before its frame is
\* given to another page.
NoLostWrite == ~lost

\* Threads that fetch from the root down, as the descents of Insert, Remove,
\* GetValue and Begin do, never deadlock on latches, however they move and assign
\* their guards: every fetch gets its latch.  Nothing is claimed of threads that
\* fetch a parent or a sibling while they hold a page, as CoalesceOrRedistribute does.
FetchReturns ==
    top # -1 => \A t \in Threads : pc[t].at = "latch" ~> pc[t].at # "latch"
=============================================================================
