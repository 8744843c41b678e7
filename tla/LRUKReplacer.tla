---------------------------- MODULE LRUKReplacer ----------------------------
(***************************************************************************)
(* buffer/lru_k_replacer.cpp: the frame-replacement policy of the buffer   *)
(* pool.  Every method holds latch_ from its first to its last statement,  *)
(* so one method is one action.                                            *)
(***************************************************************************)
EXTENDS Naturals, Sequences, FiniteSets

CONSTANTS
    Frames,         \* the frames of the pool
    NoFrame,        \* "no frame": what Evict leaves when it returns false
    K,              \* k_
    MaxTime         \* bound: RecordAccess is called at most MaxTime times

ASSUME FramesAssumption == IsFiniteSet(Frames) /\ NoFrame \notin Frames
\* With k_ = 0 a recorded history is empty and Evict reads the front of an
\* empty list; the buffer pool's default is LRUK_REPLACER_K = 2.
ASSUME KAssumption == K \in Nat \ {0}
ASSUME MaxTimeAssumption == MaxTime \in Nat

VARIABLES
    entries,            \* entries_: history_ and is_evictable_ of each frame
    current_timestamp,  \* current_timestamp_
    curr_size,          \* curr_size_
    victim              \* *frame_id of the last call, NoFrame if it was not
                        \* an Evict that returned true

vars == <<entries, current_timestamp, curr_size, victim>>

Entry == [history : Seq(Nat), is_evictable : BOOLEAN]

\* A frame that is not in the map carries the value entries_[f] would create;
\* since K > 0 every frame in the map has a non-empty history.
NoEntry == [history |-> << >>, is_evictable |-> FALSE]

Tracked == {f \in Frames : entries[f].history # << >>}

Evictable == {f \in Frames : entries[f].is_evictable}

-----------------------------------------------------------------------------
InfiniteDistance(f) == Len(entries[f].history) < K

\* Mutant: the distance to the most recent access, which makes LRU-K plain LRU.
LastDistance(f) == current_timestamp - entries[f].history[Len(entries[f].history)]

KDistance(f) == current_timestamp - Head(entries[f].history)

\* The order in which Evict prefers its candidates: a frame with an incomplete
\* history before one with a complete history, the oldest first access among the
\* former, the largest k-distance among the latter.
EvictedBefore(g, f) ==
    \/ InfiniteDistance(g) /\ ~InfiniteDistance(f)
    \/ /\ InfiniteDistance(g) /\ InfiniteDistance(f)
       /\ Head(entries[g].history) < Head(entries[f].history)
    \/ /\ ~InfiniteDistance(g) /\ ~InfiniteDistance(f)
       /\ KDistance(g) > KDistance(f)

\* The candidates no other candidate goes before.  Module LRUKScan shows that the
\* loop of Evict ends on such a frame whatever the iteration order of entries_.
Victims == {f \in Evictable : \A g \in Evictable : ~EvictedBefore(g, f)}

Evict(f) ==
    /\ f \in Victims
    /\ entries' = [entries EXCEPT ![f] = NoEntry]
    /\ curr_size' = curr_size - 1
    /\ victim' = f
    /\ UNCHANGED current_timestamp

EvictNothing ==
    /\ Evictable = {}
    /\ victim' = NoFrame
    /\ UNCHANGED <<entries, current_timestamp, curr_size>>

\* Mutants: the history is never trimmed; it is trimmed one access too early.
PushUntrimmed(history) == Append(history, current_timestamp)

PushShort(history) ==
    LET longer == Append(history, current_timestamp)
    IN  IF Len(longer) >= K THEN Tail(longer) ELSE longer

\* push_back, then pop_front when there are more than k_ timestamps.
PushTimestamp(history) ==
    LET longer == Append(history, current_timestamp)
    IN  IF Len(longer) > K THEN Tail(longer) ELSE longer

\* Mutant: the clock stands still.
RecordAccessNoTick(f) ==
    /\ entries' = [entries EXCEPT ![f].history = PushTimestamp(@)]
    /\ victim' = NoFrame
    /\ UNCHANGED <<current_timestamp, curr_size>>

RecordAccess(f) ==
    /\ current_timestamp < MaxTime
    /\ entries' = [entries EXCEPT ![f].history = PushTimestamp(@)]
    /\ current_timestamp' = current_timestamp + 1
    /\ victim' = NoFrame
    /\ UNCHANGED curr_size

\* Mutant: the counter moves although the flag does not.
SizeMoves(f, set_evictable) == IF set_evictable THEN curr_size + 1 ELSE curr_size - 1

SizeAfterSet(f, set_evictable) ==
    IF entries[f].is_evictable /\ ~set_evictable THEN curr_size - 1
    ELSE IF ~entries[f].is_evictable /\ set_evictable THEN curr_size + 1
    ELSE curr_size

SetEvictable(f, set_evictable) ==
    /\ f \in Tracked
    /\ curr_size' = SizeAfterSet(f, set_evictable)
    /\ entries' = [entries EXCEPT ![f].is_evictable = set_evictable]
    /\ victim' = NoFrame
    /\ UNCHANGED current_timestamp

\* Mutant: Remove drops a protected frame instead of throwing.
RemoveAnyway(f) ==
    /\ f \in Tracked
    /\ curr_size' = IF entries[f].is_evictable THEN curr_size - 1 ELSE curr_size
    /\ entries' = [entries EXCEPT ![f] = NoEntry]
    /\ victim' = NoFrame
    /\ UNCHANGED current_timestamp

Remove(f) ==
    /\ f \in Tracked
    /\ entries[f].is_evictable
    /\ curr_size' = curr_size - 1
    /\ entries' = [entries EXCEPT ![f] = NoEntry]
    /\ victim' = NoFrame
    /\ UNCHANGED current_timestamp

\* SetEvictable or Remove of an untracked frame returns at once; Remove of a frame
\* that may not be evicted throws before it changes anything.
RejectedCall(f) ==
    /\ f \in Tracked => ~entries[f].is_evictable
    /\ victim' = NoFrame
    /\ UNCHANGED <<entries, current_timestamp, curr_size>>

Init ==
    /\ entries = [f \in Frames |-> NoEntry]
    /\ current_timestamp = 0
    /\ curr_size = 0
    /\ victim = NoFrame

Next ==
    \/ EvictNothing
    \/ \E f \in Frames :
          \/ Evict(f)
          \/ RecordAccess(f)
          \/ \E b \in BOOLEAN : SetEvictable(f, b)
          \/ Remove(f)
          \/ RejectedCall(f)

Spec == Init /\ [][Next]_vars

-----------------------------------------------------------------------------
\* The types of entries_, current_timestamp_ and curr_size_, and that a history
\* never holds more than k_ timestamps.
TypeOK ==
    /\ entries \in [Frames -> Entry]
    /\ \A f \in Frames : Len(entries[f].history) <= K
    /\ current_timestamp \in Nat
    /\ curr_size \in Nat
    /\ victim \in Frames \cup {NoFrame}

\* Size() reports the number of evictable frames after any sequence of calls: the
\* counter that SetEvictable, Evict and Remove each adjust on their own never
\* drifts from the flags, and so never wraps below zero.
SizeCountsEvictable == curr_size = Cardinality(Evictable)

\* A frame can be evictable only while it is tracked: erasing an entry forgets the
\* flag, and a later RecordAccess starts the frame as protected.
EvictableIsTracked == Evictable \subseteq Tracked

-----------------------------------------------------------------------------
\* The view of the replacer the buffer pool has.
StatusOf(f) ==
    IF f \notin Tracked THEN "untracked"
    ELSE IF f \in Evictable THEN "evictable" ELSE "protected"

Abstract == INSTANCE Replacer WITH replacer <- [f \in Frames |-> StatusOf(f)]

\* LRUKReplacer keeps the promise the buffer pool uses it under: a protected frame
\* is never handed out or dropped, and a frame becomes evictable only by
\* SetEvictable(f, true).
ImplementsReplacer == Abstract!Spec
=============================================================================
