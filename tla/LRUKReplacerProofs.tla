------------------------- MODULE LRUKReplacerProofs -------------------------
(***************************************************************************)
(* The replacer, for any number of frames, any K > 0 and any number of     *)
(* accesses: Size() is exact, the replacer implements the interface the    *)
(* buffer pool relies on, the last K timestamps of each frame are enough   *)
(* to evict as LRU-K on complete access logs does, no two candidates tie,  *)
(* and the loop of Evict finds the victim in whatever order it meets the   *)
(* frames.                                                                 *)
(***************************************************************************)
EXTENDS LRUKReplacerLog, LRUKScan, FiniteSetTheorems, WellFoundedInduction, TLAPS

\* The inductive invariant: SizeCountsEvictable alone is not inductive, since Remove
\* decrements the counter for a TRACKED frame and erases an EVICTABLE one.
IInv == TypeOK /\ EvictableIsTracked /\ SizeCountsEvictable

\* What push_back and pop_front leave: a non-empty history of at most K timestamps.
LEMMA PushTimestampType ==
    ASSUME NEW s \in Seq(Nat), Len(s) <= K, current_timestamp \in Nat
    PROVE  /\ PushTimestamp(s) \in Seq(Nat)
           /\ Len(PushTimestamp(s)) <= K
           /\ PushTimestamp(s) # << >>
  <1> DEFINE longer == Append(s, current_timestamp)
  <1>1. /\ longer \in Seq(Nat) /\ Len(longer) = Len(s) + 1 /\ Len(s) \in Nat
    OBVIOUS
  <1>2. CASE Len(longer) > K
    <2>1. Tail(longer) \in Seq(Nat) /\ Len(Tail(longer)) = Len(longer) - 1
      BY <1>1, <1>2, KAssumption
    <2>2. Len(Tail(longer)) = K /\ K > 0
      BY <1>1, <1>2, <2>1, KAssumption
    <2> QED  BY <1>2, <2>1, <2>2 DEF PushTimestamp
  <1>3. CASE ~(Len(longer) > K)
    BY <1>1, <1>3, KAssumption DEF PushTimestamp
  <1> QED  BY <1>2, <1>3

\* The evictable frames are finitely many, so adding one adds one to their number and
\* removing one takes one away.
LEMMA EvictableCardinality ==
    ASSUME NEW f \in Frames
    PROVE  /\ IsFiniteSet(Evictable) /\ Cardinality(Evictable) \in Nat
           /\ f \notin Evictable =>
                 Cardinality(Evictable \cup {f}) = Cardinality(Evictable) + 1
           /\ f \in Evictable =>
                 /\ Cardinality(Evictable \ {f}) = Cardinality(Evictable) - 1
                 /\ Cardinality(Evictable) - 1 \in Nat
  <1>1. IsFiniteSet(Evictable)
    BY FS_Subset, FramesAssumption DEF Evictable
  <1>2. Cardinality(Evictable) \in Nat
    BY <1>1, FS_CardinalityType
  <1>3. f \notin Evictable => Cardinality(Evictable \cup {f}) = Cardinality(Evictable) + 1
    BY <1>1, FS_AddElement
  <1>4. ASSUME f \in Evictable
        PROVE  /\ Cardinality(Evictable \ {f}) = Cardinality(Evictable) - 1
               /\ Cardinality(Evictable) - 1 \in Nat
    <2>1. Cardinality(Evictable \ {f}) = Cardinality(Evictable) - 1
      BY <1>1, <1>4, FS_RemoveElement
    <2>2. IsFiniteSet(Evictable \ {f})
      BY <1>1, FS_Subset
    <2> QED  BY <2>1, <2>2, FS_CardinalityType
  <1> QED  BY <1>1, <1>2, <1>3, <1>4

LEMMA InitIInv == Init => IInv
  <1> SUFFICES ASSUME Init PROVE IInv
    OBVIOUS
  <1>1. TypeOK
    BY KAssumption DEF Init, TypeOK, Entry, NoEntry
  <1>2. Evictable = {}
    BY DEF Init, Evictable, NoEntry
  <1>3. SizeCountsEvictable
    BY <1>2, FS_EmptySet DEF Init, SizeCountsEvictable
  <1> QED  BY <1>1, <1>2, <1>3 DEF IInv, EvictableIsTracked

\* Erasing an evictable frame's entry, as Evict and Remove do.
LEMMA EraseIInv ==
    ASSUME IInv, NEW f \in Frames, entries[f].is_evictable,
           entries' = [entries EXCEPT ![f] = NoEntry],
           curr_size' = curr_size - 1, UNCHANGED current_timestamp,
           victim' \in Frames \cup {NoFrame}
    PROVE  IInv'
  <1>1. f \in Evictable
    BY DEF Evictable
  <1>2. Evictable' = Evictable \ {f}
    BY DEF IInv, TypeOK, Evictable, NoEntry
  <1>3. Tracked' = Tracked \ {f}
    BY DEF IInv, TypeOK, Tracked, NoEntry
  <1>4. SizeCountsEvictable' /\ curr_size' \in Nat
    BY <1>1, <1>2, EvictableCardinality DEF IInv, SizeCountsEvictable
  <1>5. TypeOK'
    <2>1. NoEntry \in Entry /\ Len(NoEntry.history) = 0
      BY DEF NoEntry, Entry
    <2> QED  BY <1>4, <2>1, KAssumption DEF IInv, TypeOK
  <1> QED  BY <1>2, <1>3, <1>4, <1>5 DEF IInv, EvictableIsTracked

LEMMA NextIInv == IInv /\ [Next]_vars => IInv'
  <1> SUFFICES ASSUME IInv, [Next]_vars PROVE IInv'
    OBVIOUS
  <1>1. CASE EvictNothing
    BY <1>1 DEF EvictNothing, IInv, TypeOK, EvictableIsTracked, SizeCountsEvictable,
                Evictable, Tracked
  <1>2. ASSUME NEW f \in Frames, Evict(f) PROVE IInv'
    BY <1>2, EraseIInv DEF Evict, Victims, Evictable
  <1>3. ASSUME NEW f \in Frames, RecordAccess(f) PROVE IInv'
    <2> DEFINE h == PushTimestamp(entries[f].history)
    <2>1. h \in Seq(Nat) /\ Len(h) <= K /\ h # << >>
      BY PushTimestampType DEF IInv, TypeOK, Entry
    <2>2. entries' = [entries EXCEPT ![f].history = h]
      BY <1>3 DEF RecordAccess
    <2>3. entries' \in [Frames -> Entry] /\ \A g \in Frames : Len(entries'[g].history) <= K
      BY <2>1, <2>2 DEF IInv, TypeOK, Entry
    <2>4. Evictable' = Evictable
      BY <2>2 DEF IInv, TypeOK, Entry, Evictable
    <2>5. Tracked \subseteq Tracked'
      BY <2>1, <2>2 DEF IInv, TypeOK, Entry, Tracked
    <2>6. current_timestamp' \in Nat /\ curr_size' = curr_size /\ victim' = NoFrame
      BY <1>3 DEF RecordAccess, IInv, TypeOK
    <2> QED  BY <2>3, <2>4, <2>5, <2>6
             DEF IInv, TypeOK, EvictableIsTracked, SizeCountsEvictable
  <1>4. ASSUME NEW f \in Frames, NEW b \in BOOLEAN, SetEvictable(f, b) PROVE IInv'
    <2>1. entries' = [entries EXCEPT ![f].is_evictable = b]
      BY <1>4 DEF SetEvictable
    <2>2. entries' \in [Frames -> Entry] /\ \A g \in Frames : Len(entries'[g].history) <= K
      BY <2>1 DEF IInv, TypeOK, Entry
    <2>3. Tracked' = Tracked /\ f \in Tracked
      BY <1>4, <2>1 DEF IInv, TypeOK, Entry, Tracked, SetEvictable
    <2>4. Evictable' = IF b THEN Evictable \cup {f} ELSE Evictable \ {f}
      BY <2>1 DEF IInv, TypeOK, Entry, Evictable
    <2>5. f \in Evictable <=> entries[f].is_evictable
      BY DEF Evictable
    <2>6. curr_size' = Cardinality(Evictable') /\ curr_size' \in Nat
      <3>1. curr_size = Cardinality(Evictable) /\ curr_size' = SizeAfterSet(f, b)
        BY <1>4 DEF SetEvictable, IInv, SizeCountsEvictable
      <3>2. CASE f \in Evictable /\ ~b
        BY <2>4, <2>5, <3>1, <3>2, EvictableCardinality DEF SizeAfterSet
      <3>3. CASE f \notin Evictable /\ b
        <4>1. Evictable' = Evictable \cup {f}
          BY <2>4, <3>3
        <4>2. curr_size' = curr_size + 1
          BY <2>5, <3>1, <3>3 DEF SizeAfterSet
        <4>3. f \notin Evictable
          BY <3>3
        <4>4. /\ Cardinality(Evictable \cup {f}) = Cardinality(Evictable) + 1
              /\ Cardinality(Evictable) \in Nat
          BY <4>3, EvictableCardinality
        <4> QED  BY <3>1, <4>1, <4>2, <4>4
      <3>4. CASE ~(f \in Evictable /\ ~b) /\ ~(f \notin Evictable /\ b)
        <4>1. Evictable' = Evictable
          BY <2>4, <3>4
        <4>2. curr_size' = curr_size
          BY <2>5, <3>1, <3>4 DEF SizeAfterSet
        <4> QED  BY <3>1, <4>1, <4>2 DEF IInv, TypeOK
      <3> QED  BY <3>2, <3>3, <3>4
    <2>7. current_timestamp' \in Nat /\ victim' = NoFrame
      BY <1>4 DEF SetEvictable, IInv, TypeOK
    <2> QED  BY <2>2, <2>3, <2>4, <2>6, <2>7
             DEF IInv, TypeOK, EvictableIsTracked, SizeCountsEvictable
  <1>5. ASSUME NEW f \in Frames, Remove(f) PROVE IInv'
    BY <1>5, EraseIInv DEF Remove
  <1>6. ASSUME NEW f \in Frames, RejectedCall(f) PROVE IInv'
    BY <1>6 DEF RejectedCall, IInv, TypeOK, EvictableIsTracked, SizeCountsEvictable,
                Evictable, Tracked
  <1>7. CASE UNCHANGED vars
    BY <1>7 DEF vars, IInv, TypeOK, EvictableIsTracked, SizeCountsEvictable,
                Evictable, Tracked
  <1> QED  BY <1>1, <1>2, <1>3, <1>4, <1>5, <1>6, <1>7 DEF Next

\* Any reachable state of the replacer satisfies the inductive invariant.
THEOREM Invariance == Spec => []IInv
  <1> QED  BY InitIInv, NextIInv, PTL DEF Spec

\* The types of the replacer's state, and that a history holds at most K timestamps.
THEOREM TypeCorrect == Spec => []TypeOK
  <1>1. IInv => TypeOK
    BY DEF IInv
  <1> QED  BY Invariance, <1>1, PTL

\* Size() returns the number of evictable frames after any sequence of calls.
THEOREM SizeCorrect == Spec => []SizeCountsEvictable
  <1>1. IInv => SizeCountsEvictable
    BY DEF IInv
  <1> QED  BY Invariance, <1>1, PTL

-----------------------------------------------------------------------------
\* Every call maps to a call of the abstract replacer or to nothing.
LEMMA NextImplements ==
    IInv /\ [Next]_vars => [Abstract!Next]_([f \in Frames |-> StatusOf(f)])
  <1> DEFINE rep == [f \in Frames |-> StatusOf(f)]
  <1> SUFFICES ASSUME IInv, [Next]_vars
               PROVE  Abstract!Next \/ rep' = rep
    OBVIOUS
  <1> USE DEF IInv
  <1>u. ASSUME entries' = entries PROVE rep' = rep
    BY <1>u DEF StatusOf, Tracked, Evictable
  \* Evict and Remove: the frame becomes untracked.
  <1>e. ASSUME NEW f \in Frames, entries[f].is_evictable,
               entries' = [entries EXCEPT ![f] = NoEntry]
        PROVE  Abstract!Next
    <2>1. rep[f] = "evictable"
      BY <1>e DEF StatusOf, Tracked, Evictable, EvictableIsTracked
    <2>2. rep' = [rep EXCEPT ![f] = "untracked"]
      BY <1>e DEF TypeOK, StatusOf, Tracked, Evictable, NoEntry
    <2>3. Abstract!Evict(f)
      BY <2>1, <2>2 DEF Abstract!Evict, Abstract!EvictableIn, Abstract!AfterErase
    <2> QED  BY <2>3 DEF Abstract!Next
  <1>1. CASE EvictNothing
    BY <1>1, <1>u DEF EvictNothing
  <1>2. ASSUME NEW f \in Frames, Evict(f) PROVE Abstract!Next
    BY <1>2, <1>e DEF Evict, Victims, Evictable
  <1>3. ASSUME NEW f \in Frames, RecordAccess(f) PROVE Abstract!Next
    <2> DEFINE h == PushTimestamp(entries[f].history)
    <2>1. h # << >>
      BY PushTimestampType DEF TypeOK, Entry
    <2>2. entries' = [entries EXCEPT ![f].history = h]
      BY <1>3 DEF RecordAccess
    <2>3. \A g \in Frames : /\ entries'[g].is_evictable = entries[g].is_evictable
                            /\ g # f => entries'[g].history = entries[g].history
                            /\ g = f => entries'[g].history # << >>
      BY <2>1, <2>2 DEF TypeOK, Entry
    <2>4. rep' = [rep EXCEPT ![f] = IF rep[f] = "untracked" THEN "protected" ELSE rep[f]]
      BY <2>3 DEF StatusOf, Tracked, Evictable, EvictableIsTracked
    <2>5. Abstract!RecordAccess(f)
      BY <2>4 DEF Abstract!RecordAccess, Abstract!AfterRecordAccess
    <2> QED  BY <2>5 DEF Abstract!Next
  <1>4. ASSUME NEW f \in Frames, NEW b \in BOOLEAN, SetEvictable(f, b)
        PROVE  Abstract!Next
    <2>1. f \in Tracked /\ entries' = [entries EXCEPT ![f].is_evictable = b]
      BY <1>4 DEF SetEvictable
    <2>2. /\ Tracked' = Tracked
          /\ Evictable' = IF b THEN Evictable \cup {f} ELSE Evictable \ {f}
      BY <2>1 DEF TypeOK, Entry, Tracked, Evictable
    <2>3. rep' = [rep EXCEPT ![f] = IF rep[f] = "untracked" THEN "untracked"
                                    ELSE IF b THEN "evictable" ELSE "protected"]
      <3>1. CASE b
        BY <2>1, <2>2, <3>1 DEF StatusOf
      <3>2. CASE ~b
        BY <2>1, <2>2, <3>2 DEF StatusOf
      <3> QED  BY <3>1, <3>2
    <2>4. Abstract!SetEvictable(f, b)
      BY <2>3 DEF Abstract!SetEvictable, Abstract!AfterSetEvictable
    <2> QED  BY <2>4 DEF Abstract!Next
  <1>5. ASSUME NEW f \in Frames, Remove(f) PROVE Abstract!Next
    BY <1>5, <1>e DEF Remove
  <1>6. ASSUME NEW f \in Frames, RejectedCall(f) PROVE rep' = rep
    BY <1>6, <1>u DEF RejectedCall
  <1>7. CASE UNCHANGED vars
    BY <1>7, <1>u DEF vars
  <1> QED  BY <1>1, <1>2, <1>3, <1>4, <1>5, <1>6, <1>7 DEF Next

\* The replacer keeps the interface the buffer pool's model uses it through.
THEOREM Refinement == Spec => ImplementsReplacer
  <1>1. Init => Abstract!Init
    BY DEF Init, NoEntry, Abstract!Init, Abstract!AllUntracked, StatusOf, Tracked
  <1> QED  BY <1>1, Invariance, NextImplements, PTL
           DEF Spec, ImplementsReplacer, Abstract!Spec

-----------------------------------------------------------------------------
(* The replacement policy. *)

\* The history variable does not change what the replacer does.
LEMMA LogRefines == LogSpec => Spec
  <1>1. LogInit => Init
    BY DEF LogInit
  <1>2. [LogNext]_logVars => [Next]_vars
    BY DEF LogNext, Next, logVars, vars
  <1> QED  BY <1>1, <1>2, PTL DEF LogSpec, Spec

-----------------------------------------------------------------------------
(* The history is the end of the log. *)

\* The length of what is remembered of n accesses.
Short(n) == IF n > K THEN K ELSE n

\* What LastK returns.
LEMMA LastKIs ==
    ASSUME NEW s \in Seq(Nat)
    PROVE  /\ LastK(s) \in Seq(Nat)
           /\ Len(LastK(s)) = Short(Len(s))
           /\ \A i \in 1 .. Short(Len(s)) : LastK(s)[i] = s[Len(s) - Short(Len(s)) + i]
           /\ Len(s) \in Nat /\ Short(Len(s)) \in Nat
  <1>1. Len(s) \in Nat
    OBVIOUS
  <1>2. CASE Len(s) > K
    BY <1>1, <1>2, KAssumption DEF LastK, Short
  <1>3. CASE ~(Len(s) > K)
    BY <1>1, <1>3, KAssumption DEF LastK, Short
  <1> QED  BY <1>2, <1>3

LEMMA SameSequence ==
    ASSUME NEW a \in Seq(Nat), NEW b \in Seq(Nat), Len(a) = Len(b),
           \A i \in 1 .. Len(a) : a[i] = b[i]
    PROVE  a = b
  OBVIOUS

\* Pushing a timestamp onto what is remembered is remembering the longer log.
LEMMA PushIsLastK ==
    ASSUME NEW s \in Seq(Nat), current_timestamp \in Nat
    PROVE  PushTimestamp(LastK(s)) = LastK(Append(s, current_timestamp))
  <1> DEFINE n == Len(s)
             t == LastK(s)
             u == Append(s, current_timestamp)
             w == Append(t, current_timestamp)
  <1>1. /\ t \in Seq(Nat) /\ Len(t) = Short(n) /\ n \in Nat /\ Short(n) \in Nat
        /\ \A i \in 1 .. Short(n) : t[i] = s[n - Short(n) + i]
    BY LastKIs
  <1>2. /\ u \in Seq(Nat) /\ Len(u) = n + 1 /\ u[n + 1] = current_timestamp
        /\ \A i \in 1 .. n : u[i] = s[i]
    BY <1>1
  <1>3. /\ LastK(u) \in Seq(Nat) /\ Len(LastK(u)) = Short(Len(u))
        /\ \A i \in 1 .. Short(Len(u)) : LastK(u)[i] = u[Len(u) - Short(Len(u)) + i]
    <2> HIDE DEF u
    <2> QED  BY <1>2, LastKIs
  <1> HIDE DEF t
  <1>4. /\ w \in Seq(Nat) /\ Len(w) = Short(n) + 1 /\ w[Short(n) + 1] = current_timestamp
        /\ \A i \in 1 .. Short(n) : w[i] = t[i]
    BY <1>1
  <1> HIDE DEF u, w, n
  <1>5. PushTimestamp(t) = IF Len(w) > K THEN Tail(w) ELSE w
    BY DEF PushTimestamp, w
  <1> SUFFICES PushTimestamp(t) = LastK(u)
    BY DEF t, u
  <1>6. CASE n >= K
    <2>1. Short(n) = K /\ Short(Len(u)) = K
      BY <1>1, <1>2, <1>6, KAssumption DEF Short
    <2>2. /\ PushTimestamp(t) = Tail(w) /\ Tail(w) \in Seq(Nat) /\ Len(Tail(w)) = K
          /\ \A i \in 1 .. K : Tail(w)[i] = w[i + 1]
      BY <1>4, <1>5, <2>1, KAssumption
    <2>3. ASSUME NEW i \in 1 .. K PROVE w[i + 1] = LastK(u)[i]
      <3>1. LastK(u)[i] = u[n + 1 - K + i]
        <4>1. LastK(u)[i] = u[Len(u) - K + i]
          BY <1>3, <2>1
        <4>2. Len(u) - K + i = n + 1 - K + i
          BY <1>1, <1>2, KAssumption
        <4> QED  BY <4>1, <4>2
      <3>2. CASE i = K
        <4>1. n + 1 - K + i = n + 1
          BY <1>1, <3>2, KAssumption
        <4> QED  BY <1>2, <1>4, <2>1, <3>1, <3>2, <4>1
      <3>3. CASE i # K
        <4>1. i + 1 \in 1 .. K /\ n - K + (i + 1) = n + 1 - K + i /\ n + 1 - K + i \in 1 .. n
          BY <1>1, <1>6, <3>3, KAssumption
        <4>2. w[i + 1] = s[n - K + (i + 1)]
          BY <1>1, <1>4, <2>1, <4>1
        <4> QED  BY <1>2, <3>1, <4>1, <4>2
      <3> QED  BY <3>2, <3>3
    <2> QED  BY <1>3, <2>1, <2>2, <2>3, SameSequence
  <1>7. CASE ~(n >= K)
    <2>1. Short(n) = n /\ Short(Len(u)) = n + 1 /\ n + 1 <= K
      BY <1>1, <1>2, <1>7, KAssumption DEF Short
    <2>2. PushTimestamp(t) = w /\ Len(w) = n + 1
      BY <1>1, <1>4, <1>5, <2>1, KAssumption
    <2>3. ASSUME NEW i \in 1 .. n + 1 PROVE w[i] = LastK(u)[i]
      <3>1. n + 1 - (n + 1) + i = i /\ n - n + i = i
        BY <1>1
      <3>2. LastK(u)[i] = u[i]
        BY <1>2, <1>3, <2>1, <3>1
      <3>3. CASE i = n + 1
        BY <1>2, <1>4, <2>1, <3>2, <3>3
      <3>4. CASE i # n + 1
        <4>1. i \in 1 .. n
          BY <1>1, <3>4
        <4> QED  BY <1>1, <1>2, <1>4, <2>1, <3>1, <3>2, <4>1
      <3> QED  BY <3>3, <3>4
    <2> QED  BY <1>3, <1>4, <2>1, <2>2, <2>3, SameSequence
  <1> QED  BY <1>6, <1>7

-----------------------------------------------------------------------------
(* The invariant. *)

\* No two frames have a timestamp in common: RecordAccess stamps one frame and ticks.
Distinct ==
    \A f, g \in Frames : \A i \in 1 .. Len(log[f]), j \in 1 .. Len(log[g]) :
        log[f][i] = log[g][j] => f = g

LogType == log \in [Frames -> Seq(Nat)]

LogInv == IInv /\ LogType /\ HistoryIsLastK /\ Distinct

\* The parts that are about log, when nothing is accessed.
LEMMA ErasedLog ==
    ASSUME LogInv, NEW f \in Frames, IInv', current_timestamp' = current_timestamp,
           entries' = [entries EXCEPT ![f] = NoEntry], log' = [log EXCEPT ![f] = << >>]
    PROVE  LogInv'
  <1>1. log' \in [Frames -> Seq(Nat)]
    BY DEF LogInv, LogType
  <1>2. log'[f] = << >> /\ \A g \in Frames : g # f => log'[g] = log[g]
    BY DEF LogInv, LogType
  <1>3. entries'[f] = NoEntry /\ \A g \in Frames : g # f => entries'[g] = entries[g]
    BY DEF LogInv, IInv, TypeOK
  <1>4. LastK(<< >>) = << >>
    <2>1. << >> \in Seq(Nat) /\ Len(<< >>) = 0 /\ Short(0) = 0
      BY KAssumption DEF Short
    <2>2. LastK(<< >>) \in Seq(Nat) /\ Len(LastK(<< >>)) = 0
      BY <2>1, LastKIs
    <2> QED  BY <2>2
  <1>5. HistoryIsLastK'
    <2> SUFFICES ASSUME NEW g \in Frames
                 PROVE  /\ entries'[g].history = LastK(log'[g])
                        /\ \A i \in 1 .. Len(log'[g]) : log'[g][i] < current_timestamp'
      BY DEF HistoryIsLastK, LastK
    <2>1. CASE g = f
      BY <1>2, <1>3, <1>4, <2>1 DEF NoEntry
    <2>2. CASE g # f
      BY <1>2, <1>3, <2>2 DEF LogInv, HistoryIsLastK
    <2> QED  BY <2>1, <2>2
  <1>6. Distinct'
    <2> SUFFICES ASSUME NEW g \in Frames, NEW h \in Frames, NEW i \in 1 .. Len(log'[g]),
                        NEW j \in 1 .. Len(log'[h]), log'[g][i] = log'[h][j]
                 PROVE  g = h
      BY DEF Distinct
    <2>1. g # f /\ h # f
      BY <1>2
    <2> QED  BY <1>2, <2>1 DEF LogInv, Distinct
  <1> QED  BY <1>1, <1>5, <1>6 DEF LogInv, LogType

LEMMA QuietLog ==
    ASSUME LogInv, IInv', UNCHANGED <<current_timestamp, log>>,
           \A g \in Frames : entries'[g].history = entries[g].history
    PROVE  LogInv'
  <1>1. HistoryIsLastK'
    BY DEF LogInv, HistoryIsLastK, LastK
  <1> QED  BY <1>1 DEF LogInv, LogType, Distinct

LEMMA AccessedLog ==
    ASSUME LogInv, NEW f \in Frames, IInv', RecordAccess(f),
           log' = [log EXCEPT ![f] = Append(log[f], current_timestamp)]
    PROVE  LogInv'
  <1> DEFINE now == current_timestamp
             s == log[f]
             u == Append(s, now)
  <1>1. now \in Nat /\ log \in [Frames -> Seq(Nat)] /\ s \in Seq(Nat)
    BY DEF LogInv, LogType, IInv, TypeOK
  <1>2. /\ u \in Seq(Nat) /\ Len(u) = Len(s) + 1 /\ Len(s) \in Nat /\ u[Len(s) + 1] = now
        /\ \A i \in 1 .. Len(s) : u[i] = s[i]
    BY <1>1
  <1>3. PushTimestamp(LastK(s)) = LastK(u)
    BY <1>1, PushIsLastK
  <1>4. log' = [log EXCEPT ![f] = u] /\ current_timestamp' = now + 1
    BY DEF RecordAccess
  <1>5. /\ \A g \in Frames : g # f => entries'[g].history = entries[g].history
        /\ entries'[f].history = PushTimestamp(entries[f].history)
    <2>1. entries \in [Frames -> Entry]
      BY DEF LogInv, IInv, TypeOK
    <2>2. entries' = [entries EXCEPT ![f].history = PushTimestamp(entries[f].history)]
      BY DEF RecordAccess
    <2>3. entries[f] \in Entry
      BY <2>1
    <2> QED  BY <2>1, <2>2, <2>3 DEF Entry
  <1>6. \A g \in Frames : /\ entries[g].history = LastK(log[g])
                          /\ \A i \in 1 .. Len(log[g]) : log[g][i] < now
    BY DEF LogInv, HistoryIsLastK
  <1>7. \A g \in Frames : \A i \in 1 .. Len(log[g]) : log[g][i] \in Nat
    BY <1>1
  <1> SUFFICES LogType' /\ HistoryIsLastK' /\ Distinct'
    BY DEF LogInv
  <1>8. \A i \in 1 .. Len(u) : i = Len(s) + 1 \/ i \in 1 .. Len(s)
    BY <1>2
  <1>9. \A i \in 1 .. Len(u) : u[i] < now + 1
    <2> SUFFICES ASSUME NEW i \in 1 .. Len(u) PROVE u[i] < now + 1
      OBVIOUS
    <2>1. CASE i = Len(s) + 1
      BY <1>1, <1>2, <2>1
    <2>2. CASE i \in 1 .. Len(s)
      <3>1. u[i] = s[i] /\ s[i] < now /\ s[i] \in Nat
        BY <1>2, <1>6, <1>7, <2>2
      <3> QED  BY <1>1, <3>1
    <2> QED  BY <1>8, <2>1, <2>2
  <1> HIDE DEF u
  <1>10. LogType'
    BY <1>1, <1>2, <1>4 DEF LogType
  <1>11. log'[f] = u /\ \A g \in Frames : g # f => log'[g] = log[g]
    BY <1>1, <1>4
  <1>12. HistoryIsLastK'
    <2> SUFFICES ASSUME NEW g \in Frames
                 PROVE  /\ entries'[g].history = LastK(log'[g])
                        /\ \A i \in 1 .. Len(log'[g]) : log'[g][i] < current_timestamp'
      BY DEF HistoryIsLastK, LastK
    <2>1. CASE g = f
      BY <1>3, <1>4, <1>5, <1>6, <1>9, <1>11, <2>1
    <2>2. CASE g # f
      <3>1. /\ log'[g] = log[g] /\ entries'[g].history = LastK(log[g])
            /\ \A i \in 1 .. Len(log[g]) : log[g][i] < now /\ log[g][i] \in Nat
        BY <1>5, <1>6, <1>7, <1>11, <2>2
      <3>2. \A i \in 1 .. Len(log[g]) : log[g][i] < now + 1
        BY <1>1, <3>1
      <3> QED  BY <1>4, <3>1, <3>2
    <2> QED  BY <2>1, <2>2
  <1>13. Distinct'
    <2>1. ASSUME NEW g \in Frames, g # f, NEW i \in 1 .. Len(u), NEW j \in 1 .. Len(log[g])
          PROVE  u[i] # log[g][j]
      <3>1. log[g][j] < now /\ log[g][j] \in Nat
        BY <1>6, <1>7
      <3>2. CASE i = Len(s) + 1
        BY <1>1, <1>2, <3>1, <3>2
      <3>3. CASE i \in 1 .. Len(s)
        BY <1>2, <2>1, <3>3 DEF LogInv, Distinct
      <3> QED  BY <1>8, <3>2, <3>3
    <2> SUFFICES ASSUME NEW g \in Frames, NEW h \in Frames, NEW i \in 1 .. Len(log'[g]),
                        NEW j \in 1 .. Len(log'[h]), log'[g][i] = log'[h][j], g # h
                 PROVE  FALSE
      BY DEF Distinct
    <2>2. CASE g = f
      BY <1>11, <2>1, <2>2
    <2>3. CASE h = f
      BY <1>11, <2>1, <2>3
    <2>4. CASE g # f /\ h # f
      BY <1>11, <2>4 DEF LogInv, Distinct
    <2> QED  BY <2>2, <2>3, <2>4
  <1> QED  BY <1>10, <1>12, <1>13

LEMMA NextLog == LogInv /\ [LogNext]_logVars => LogInv'
  <1> SUFFICES ASSUME LogInv, [LogNext]_logVars PROVE LogInv'
    OBVIOUS
  <1>1. IInv'
    <2>1. [Next]_vars
      BY DEF LogNext, Next, logVars, vars
    <2> QED  BY <2>1, NextIInv DEF LogInv
  <1>2. CASE EvictNothing /\ UNCHANGED log
    BY <1>1, <1>2, QuietLog DEF EvictNothing
  <1>3. ASSUME NEW f \in Frames, Evict(f), log' = [log EXCEPT ![f] = << >>]
        PROVE  LogInv'
    BY <1>1, <1>3, ErasedLog DEF Evict
  <1>4. ASSUME NEW f \in Frames, RecordAccess(f),
               log' = [log EXCEPT ![f] = Append(log[f], current_timestamp)]
        PROVE  LogInv'
    BY <1>1, <1>4, AccessedLog
  <1>5. ASSUME NEW f \in Frames, NEW b \in BOOLEAN, SetEvictable(f, b), UNCHANGED log
        PROVE  LogInv'
    <2>1. entries \in [Frames -> Entry] /\ entries[f] \in Entry
      BY DEF LogInv, IInv, TypeOK
    <2>2. entries' = [entries EXCEPT ![f].is_evictable = b]
      BY <1>5 DEF SetEvictable
    <2>3. \A g \in Frames : entries'[g].history = entries[g].history
      BY <2>1, <2>2 DEF Entry
    <2> QED  BY <1>1, <1>5, <2>3, QuietLog DEF SetEvictable
  <1>6. ASSUME NEW f \in Frames, Remove(f), log' = [log EXCEPT ![f] = << >>]
        PROVE  LogInv'
    BY <1>1, <1>6, ErasedLog DEF Remove
  <1>7. ASSUME NEW f \in Frames, RejectedCall(f), UNCHANGED log
        PROVE  LogInv'
    BY <1>1, <1>7, QuietLog DEF RejectedCall
  <1>8. CASE UNCHANGED logVars
    BY <1>1, <1>8, QuietLog DEF logVars
  <1> QED  BY <1>2, <1>3, <1>4, <1>5, <1>6, <1>7, <1>8 DEF LogNext

LEMMA InitLog == LogInit => LogInv
  <1> SUFFICES ASSUME LogInit PROVE LogInv
    OBVIOUS
  <1>1. IInv
    BY InitIInv DEF LogInit
  <1>2. \A f \in Frames : log[f] = << >> /\ entries[f].history = << >>
    BY DEF LogInit, Init, NoEntry
  <1>3. LastK(<< >>) = << >>
    <2>1. << >> \in Seq(Nat) /\ Len(<< >>) = 0 /\ Short(0) = 0
      BY KAssumption DEF Short
    <2>2. LastK(<< >>) \in Seq(Nat) /\ Len(LastK(<< >>)) = 0
      BY <2>1, LastKIs
    <2> QED  BY <2>2
  <1>4. LogType
    BY DEF LogInit, LogType
  <1> QED  BY <1>1, <1>2, <1>3, <1>4 DEF LogInv, HistoryIsLastK, Distinct

LEMMA LogInvariance == LogSpec => []LogInv
  BY InitLog, NextLog, PTL DEF LogSpec

(***************************************************************************)
(* What push_back and pop_front leave in history_ is always the last K     *)
(* entries of the frame's complete access log since it was last erased,    *)
(* and the clock is ahead of every timestamp.                              *)
(***************************************************************************)
THEOREM HistoryCorrect == LogSpec => []HistoryIsLastK
  BY LogInvariance, PTL DEF LogInv

-----------------------------------------------------------------------------
(* The order of eviction. *)

\* Histories and logs put candidates in the same order.
LEMMA FrontIs ==
    ASSUME LogInv, NEW f \in Frames, entries[f].history # << >>
    PROVE  /\ log[f] # << >>
           /\ InfiniteDistance(f) <=> Policy!InfiniteDistance(f)
           /\ InfiniteDistance(f) => Head(entries[f].history) = Head(log[f])
           /\ ~InfiniteDistance(f) => Head(entries[f].history) = Policy!KthMostRecent(f)
           /\ Head(entries[f].history) \in Nat
           /\ \E i \in 1 .. Len(log[f]) : Head(entries[f].history) = log[f][i]
  <1> SUFFICES ASSUME NEW s, s = log[f], NEW t, t = entries[f].history, t # << >>
               PROVE  /\ s # << >>
                      /\ Len(t) < K <=> Len(s) < K
                      /\ Len(t) < K => Head(t) = Head(s)
                      /\ ~(Len(t) < K) => Head(t) = s[Len(s) - K + 1]
                      /\ Head(t) \in Nat
                      /\ \E i \in 1 .. Len(s) : Head(t) = s[i]
    BY DEF InfiniteDistance, Policy!InfiniteDistance, Policy!KthMostRecent
  <1>1. s \in Seq(Nat) /\ t = LastK(s)
    BY DEF LogInv, LogType, HistoryIsLastK
  <1>2. /\ t \in Seq(Nat) /\ Len(t) = Short(Len(s)) /\ Len(s) \in Nat
        /\ \A i \in 1 .. Short(Len(s)) : t[i] = s[Len(s) - Short(Len(s)) + i]
    BY <1>1, LastKIs
  <1>3. Head(t) = t[1] /\ Len(t) > 0 /\ t[1] \in Nat
    BY <1>2
  <1>4. CASE Len(s) >= K
    <2>1. Short(Len(s)) = K /\ Len(t) = K
      BY <1>2, <1>4, KAssumption DEF Short
    <2>2. t[1] = s[Len(s) - K + 1] /\ Len(s) - K + 1 \in 1 .. Len(s)
      BY <1>2, <1>4, <2>1, KAssumption
    <2> QED  BY <1>1, <1>2, <1>3, <1>4, <2>1, <2>2, KAssumption
  <1>5. CASE ~(Len(s) >= K)
    <2>1. Short(Len(s)) = Len(s) /\ Len(t) = Len(s) /\ Len(s) < K
      BY <1>2, <1>5, KAssumption DEF Short
    <2>2. Len(s) - Len(s) + 1 = 1 /\ 1 \in 1 .. Len(s)
      BY <1>2, <1>3, <2>1
    <2>3. t[1] = s[1]
      BY <1>2, <2>1, <2>2
    <2>4. s # << >> /\ Head(s) = s[1]
      BY <1>1, <2>2
    <2> QED  BY <1>1, <1>2, <1>3, <1>5, <2>1, <2>2, <2>3, <2>4
  <1> QED  BY <1>4, <1>5

LEMMA EvictableHasHistory ==
    ASSUME LogInv, NEW f \in Evictable
    PROVE  f \in Frames /\ entries[f].history # << >>
  BY DEF LogInv, IInv, EvictableIsTracked, Evictable, Tracked

LEMMA SameOrder ==
    ASSUME LogInv, NEW f \in Evictable, NEW g \in Evictable
    PROVE  EvictedBefore(g, f) <=> Policy!EvictedBefore(g, f)
  <1>1. f \in Frames /\ g \in Frames /\ entries[f].history # << >> /\ entries[g].history # << >>
    BY EvictableHasHistory
  <1> SUFFICES ASSUME NEW a, a = Head(entries[g].history), NEW b, b = Head(entries[f].history)
               PROVE  EvictedBefore(g, f) <=> Policy!EvictedBefore(g, f)
    OBVIOUS
  <1>2. /\ InfiniteDistance(g) <=> Policy!InfiniteDistance(g)
        /\ InfiniteDistance(g) => a = Head(log[g])
        /\ ~InfiniteDistance(g) => a = Policy!KthMostRecent(g)
        /\ a \in Nat
    BY <1>1, FrontIs
  <1>3. /\ InfiniteDistance(f) <=> Policy!InfiniteDistance(f)
        /\ InfiniteDistance(f) => b = Head(log[f])
        /\ ~InfiniteDistance(f) => b = Policy!KthMostRecent(f)
        /\ b \in Nat
    BY <1>1, FrontIs
  <1>4. KDistance(g) > KDistance(f) <=> a < b
    <2>1. current_timestamp \in Nat
      BY DEF LogInv, IInv, TypeOK
    <2>2. current_timestamp - a > current_timestamp - b <=> a < b
      BY <1>2, <1>3, <2>1
    <2> QED  BY <2>2 DEF KDistance
  <1>5. EvictedBefore(g, f) <=>
           \/ InfiniteDistance(g) /\ ~InfiniteDistance(f)
           \/ InfiniteDistance(g) /\ InfiniteDistance(f) /\ a < b
           \/ ~InfiniteDistance(g) /\ ~InfiniteDistance(f) /\ a < b
    BY <1>4 DEF EvictedBefore
  <1>6. Policy!EvictedBefore(g, f) <=>
           \/ InfiniteDistance(g) /\ ~InfiniteDistance(f)
           \/ InfiniteDistance(g) /\ InfiniteDistance(f) /\ a < b
           \/ ~InfiniteDistance(g) /\ ~InfiniteDistance(f) /\ a < b
    BY <1>2, <1>3 DEF Policy!EvictedBefore
  <1> QED  BY <1>5, <1>6

\* One of two candidates goes before the other.
LEMMA Ordered ==
    ASSUME LogInv, NEW f \in Evictable, NEW g \in Evictable, f # g
    PROVE  EvictedBefore(g, f) \/ EvictedBefore(f, g)
  <1>1. f \in Frames /\ g \in Frames /\ entries[f].history # << >> /\ entries[g].history # << >>
    BY EvictableHasHistory
  <1> SUFFICES ASSUME NEW a, a = Head(entries[g].history), NEW b, b = Head(entries[f].history)
               PROVE  EvictedBefore(g, f) \/ EvictedBefore(f, g)
    OBVIOUS
  <1>2. /\ a \in Nat /\ b \in Nat
        /\ \E i \in 1 .. Len(log[g]) : a = log[g][i]
        /\ \E i \in 1 .. Len(log[f]) : b = log[f][i]
    BY <1>1, FrontIs
  <1>3. a < b \/ b < a
    <2>1. a # b
      BY <1>1, <1>2 DEF LogInv, Distinct
    <2> QED  BY <1>2, <2>1
  <1>4. /\ KDistance(g) > KDistance(f) <=> a < b
        /\ KDistance(f) > KDistance(g) <=> b < a
    <2>1. current_timestamp \in Nat
      BY DEF LogInv, IInv, TypeOK
    <2>2. a \in Nat /\ b \in Nat
      BY <1>2
    <2>3. current_timestamp - a > current_timestamp - b <=> a < b
      BY <2>1, <2>2
    <2>4. current_timestamp - b > current_timestamp - a <=> b < a
      BY <2>1, <2>2
    <2> QED  BY <2>3, <2>4 DEF KDistance
  <1> QED  BY <1>3, <1>4 DEF EvictedBefore

(***************************************************************************)
(* Evict never has a choice: two frames that may be evicted never tie, so  *)
(* the order in which the hash map yields them cannot be observed.         *)
(***************************************************************************)
THEOREM VictimUnique == LogSpec => []VictimIsUnique
  <1>1. LogInv => VictimIsUnique
    <2> SUFFICES ASSUME LogInv PROVE Cardinality(Victims) <= 1
      BY DEF VictimIsUnique
    <2>1. \A f, g \in Victims : f = g
      BY Ordered DEF Victims
    <2>2. CASE Victims = {}
      <3>1. Cardinality(Victims) = 0
        BY <2>2, FS_EmptySet
      <3> QED  BY <3>1
    <2>3. CASE Victims # {}
      <3>1. PICK f \in Victims : Victims = {f}
        BY <2>1, <2>3
      <3>2. Cardinality(Victims) = 1
        BY <3>1, FS_Singleton
      <3> QED  BY <3>2
    <2> QED  BY <2>2, <2>3
  <1> QED  BY <1>1, LogInvariance, PTL

-----------------------------------------------------------------------------
(* The refinement of LRUKPolicy. *)

LEMMA EvictableChange ==
    ASSUME LogInv, NEW f \in Frames, NEW e,
           entries' = [entries EXCEPT ![f] = e]
    PROVE  /\ e.is_evictable = TRUE => Evictable' = Evictable \cup {f}
           /\ e.is_evictable = FALSE => Evictable' = Evictable \ {f}
           /\ e.is_evictable = entries[f].is_evictable => Evictable' = Evictable
  <1>1. entries'[f] = e /\ \A g \in Frames : g # f => entries'[g] = entries[g]
    BY DEF LogInv, IInv, TypeOK
  <1> QED  BY <1>1 DEF Evictable

LEMMA NextPolicy ==
    LogInv /\ [LogNext]_logVars => [Policy!Next]_(Policy!policyVars)
  <1> SUFFICES ASSUME LogInv, [LogNext]_logVars
               PROVE  [Policy!Next]_(Policy!policyVars)
    OBVIOUS
  <1>1. entries \in [Frames -> Entry]
    BY DEF LogInv, IInv, TypeOK
  <1>2. ASSUME victim' = NoFrame, UNCHANGED <<entries, current_timestamp, log>>
        PROVE  Policy!Next
    BY <1>2 DEF Policy!Next, Policy!NoEffect, Evictable
  <1>3. CASE EvictNothing /\ UNCHANGED log
    BY <1>2, <1>3 DEF EvictNothing
  <1>4. ASSUME NEW f \in Frames, RejectedCall(f), UNCHANGED log
        PROVE  Policy!Next
    BY <1>2, <1>4 DEF RejectedCall
  <1>5. ASSUME NEW f \in Frames, f \in Evictable,
               entries' = [entries EXCEPT ![f] = NoEntry],
               log' = [log EXCEPT ![f] = << >>], UNCHANGED current_timestamp
        PROVE  Policy!Erase(f)
    <2>1. Evictable' = Evictable \ {f}
      <3>1. NoEntry.is_evictable = FALSE
        BY DEF NoEntry
      <3> QED  BY <1>5, <3>1, EvictableChange
    <2> QED  BY <1>5, <2>1 DEF Policy!Erase
  <1>6. ASSUME NEW f \in Frames, Evict(f), log' = [log EXCEPT ![f] = << >>]
        PROVE  Policy!Next
    <2>1. f \in Evictable /\ \A g \in Evictable : ~EvictedBefore(g, f)
      BY <1>6 DEF Evict, Victims
    <2>2. \A g \in Evictable : ~Policy!EvictedBefore(g, f)
      BY <2>1, SameOrder
    <2>3. Policy!Erase(f)
      BY <1>5, <1>6, <2>1 DEF Evict
    <2>4. Policy!Evict(f)
      BY <1>6, <2>2, <2>3 DEF Policy!Evict, Evict
    <2> QED  BY <2>4 DEF Policy!Next
  <1>7. ASSUME NEW f \in Frames, Remove(f), log' = [log EXCEPT ![f] = << >>]
        PROVE  Policy!Next
    <2>1. f \in Evictable
      BY <1>7 DEF Remove, Evictable
    <2>2. Policy!Remove(f)
      BY <1>5, <1>7, <2>1 DEF Remove, Policy!Remove
    <2> QED  BY <2>2 DEF Policy!Next
  <1>8. ASSUME NEW f \in Frames, RecordAccess(f),
               log' = [log EXCEPT ![f] = Append(log[f], current_timestamp)]
        PROVE  Policy!Next
    <2> DEFINE e == [entries[f] EXCEPT !.history = PushTimestamp(entries[f].history)]
    <2>1. entries' = [entries EXCEPT ![f] = e]
      BY <1>8 DEF RecordAccess
    <2>2. e.is_evictable = entries[f].is_evictable
      <3>1. entries[f] \in Entry
        BY <1>1
      <3> QED  BY <3>1 DEF Entry
    <2> HIDE DEF e
    <2>3. Evictable' = Evictable
      BY <2>1, <2>2, EvictableChange
    <2>4. Policy!Access(f)
      BY <1>8, <2>3 DEF Policy!Access, RecordAccess
    <2> QED  BY <2>4 DEF Policy!Next
  <1>9. ASSUME NEW f \in Frames, NEW b \in BOOLEAN, SetEvictable(f, b), UNCHANGED log
        PROVE  Policy!Next
    <2> DEFINE e == [entries[f] EXCEPT !.is_evictable = b]
    <2>1. entries' = [entries EXCEPT ![f] = e]
      BY <1>9 DEF SetEvictable
    <2>2. e.is_evictable = b
      <3>1. entries[f] \in Entry
        BY <1>1
      <3> QED  BY <3>1 DEF Entry
    <2>3. log[f] # << >>
      BY <1>9, FrontIs DEF SetEvictable, Tracked
    <2> HIDE DEF e
    <2>4. CASE b = TRUE
      <3>1. Evictable' = Evictable \cup {f}
        BY <2>1, <2>2, <2>4, EvictableChange
      <3>2. Policy!MayEvict(f)
        BY <1>9, <2>3, <3>1 DEF Policy!MayEvict, SetEvictable
      <3> QED  BY <3>2 DEF Policy!Next
    <2>5. CASE b = FALSE
      <3>1. Evictable' = Evictable \ {f}
        BY <2>1, <2>2, <2>5, EvictableChange
      <3>2. Policy!MayNotEvict(f)
        BY <1>9, <3>1 DEF Policy!MayNotEvict, SetEvictable
      <3> QED  BY <3>2 DEF Policy!Next
    <2> QED  BY <2>4, <2>5
  <1>10. CASE UNCHANGED logVars
    <2>1. UNCHANGED <<entries, current_timestamp, victim, log>> /\ Evictable' = Evictable
      BY <1>10 DEF logVars, Evictable
    <2> QED  BY <2>1 DEF Policy!policyVars
  <1>11. CASE LogNext
    BY <1>3, <1>4, <1>6, <1>7, <1>8, <1>9, <1>11 DEF LogNext
  <1> QED  BY <1>10, <1>11

(***************************************************************************)
(* Every frame Evict returns is the one that LRU-K names on the complete   *)
(* access logs, for every K, although the replacer keeps only the last K   *)
(* timestamps of a frame and none of a frame that it has erased.           *)
(***************************************************************************)
THEOREM PolicyRefinement == LogSpec => ImplementsLRUK
  <1>1. LogInit => Policy!Init
    BY DEF LogInit, Init, Policy!Init, Evictable, NoEntry
  <1> QED  BY <1>1, LogInvariance, NextPolicy, PTL DEF LogSpec, ImplementsLRUK, Policy!Spec

-----------------------------------------------------------------------------
(* The loop of Evict. *)

Front(f) == Head(entries[f].history)

LEMMA FrontType ==
    ASSUME IInv, NEW f \in Evictable
    PROVE  f \in Frames /\ Front(f) \in Nat
  <1>1. f \in Frames /\ entries[f].history # << >> /\ entries[f] \in Entry
    BY DEF IInv, TypeOK, EvictableIsTracked, Evictable, Tracked
  <1>2. entries[f].history \in Seq(Nat)
    BY <1>1 DEF Entry
  <1> QED  BY <1>1, <1>2 DEF Front

\* The order of eviction, by the kind of history and its front.
LEMMA BeforeIs ==
    ASSUME IInv, NEW f \in Evictable, NEW g \in Evictable
    PROVE  /\ EvictedBefore(g, f) <=>
                 \/ InfiniteDistance(g) /\ ~InfiniteDistance(f)
                 \/ (InfiniteDistance(g) <=> InfiniteDistance(f)) /\ Front(g) < Front(f)
           /\ KDistance(g) > KDistance(f) <=> Front(g) < Front(f)
  <1>1. Front(f) \in Nat /\ Front(g) \in Nat /\ current_timestamp \in Nat
    BY FrontType DEF IInv, TypeOK
  <1>2. current_timestamp - Front(g) > current_timestamp - Front(f) <=> Front(g) < Front(f)
    BY <1>1
  <1>3. KDistance(g) > KDistance(f) <=> Front(g) < Front(f)
    BY <1>2 DEF KDistance, Front
  <1> QED  BY <1>3 DEF EvictedBefore, Front

\* The type of the locals of Evict.
Locals == [victim_frame : Frames \cup {NoFrame}, max_k_distance : Int,
           earliest_timestamp : Int, found_inf_frame : BOOLEAN]

\* What the locals say after the frames of S were met: the victim so far is the best
\* candidate among them, and the other locals are about it.
BestOf(acc, S) ==
    /\ acc \in Locals
    /\ S \cap Evictable = {} => acc.victim_frame = NoFrame /\ ~acc.found_inf_frame
    /\ S \cap Evictable # {} =>
          /\ acc.victim_frame \in S \cap Evictable
          /\ \A g \in S \cap Evictable : ~EvictedBefore(g, acc.victim_frame)
          /\ acc.found_inf_frame <=> InfiniteDistance(acc.victim_frame)
          /\ acc.found_inf_frame => acc.earliest_timestamp = Front(acc.victim_frame)
          /\ ~acc.found_inf_frame => acc.max_k_distance = KDistance(acc.victim_frame)

\* Which frame one iteration prefers.
LEMMA StepIs ==
    ASSUME IInv, NEW f \in Evictable, NEW acc \in Locals
    PROVE  LET r == ScanStep(acc, f)
               inf == /\ InfiniteDistance(f)
                      /\ ~acc.found_inf_frame \/ Front(f) < acc.earliest_timestamp
               fin == /\ ~InfiniteDistance(f)
                      /\ ~acc.found_inf_frame
                      /\ \/ acc.victim_frame = NoFrame
                         \/ KDistance(f) > acc.max_k_distance
           IN  /\ r \in Locals
               /\ inf => /\ r.victim_frame = f /\ r.earliest_timestamp = Front(f)
                         /\ r.found_inf_frame
               /\ fin => /\ r.victim_frame = f /\ r.max_k_distance = KDistance(f)
                         /\ ~r.found_inf_frame
               /\ ~inf /\ ~fin => r = acc
  <1>1. f \in Frames /\ Front(f) \in Int /\ entries[f].is_evictable
    BY FrontType DEF Evictable
  <1>2. KDistance(f) \in Int
    <2>1. current_timestamp \in Nat
      BY DEF IInv, TypeOK
    <2> QED  BY <1>1, <2>1 DEF KDistance, Front
  <1> DEFINE k == KDistance(f)
             a == Front(f)
             ri == [acc EXCEPT !.victim_frame = f, !.earliest_timestamp = a,
                               !.found_inf_frame = TRUE]
             rf == [acc EXCEPT !.victim_frame = f, !.max_k_distance = k]
  <1>3. ScanStep(acc, f) =
           IF InfiniteDistance(f)
           THEN IF ~acc.found_inf_frame \/ a < acc.earliest_timestamp THEN ri ELSE acc
           ELSE IF ~acc.found_inf_frame /\ (acc.victim_frame = NoFrame \/ k > acc.max_k_distance)
           THEN rf ELSE acc
    BY <1>1 DEF ScanStep, InfiniteDistance, Front
  <1>4. /\ ri \in Locals /\ ri.victim_frame = f /\ ri.earliest_timestamp = a
        /\ ri.found_inf_frame
    <2> HIDE DEF k, a
    <2> QED  BY <1>1, <1>2 DEF Locals, k, a
  <1>5. /\ rf \in Locals /\ rf.victim_frame = f /\ rf.max_k_distance = k
        /\ rf.found_inf_frame = acc.found_inf_frame
    <2> HIDE DEF k, a
    <2> QED  BY <1>1, <1>2 DEF Locals, k, a
  <1> HIDE DEF ri, rf
  <1> QED  BY <1>3, <1>4, <1>5

\* A frame better than the best is better than all.
LEMMA BetterThanBest ==
    ASSUME IInv, NEW S, NEW v \in S \cap Evictable, NEW f \in Evictable,
           \A g \in S \cap Evictable : ~EvictedBefore(g, v)
    PROVE  /\ EvictedBefore(f, v) => \A g \in (S \cup {f}) \cap Evictable : ~EvictedBefore(g, f)
           /\ ~EvictedBefore(f, v) => \A g \in (S \cup {f}) \cap Evictable : ~EvictedBefore(g, v)
  <1>1. ASSUME EvictedBefore(f, v), NEW g \in (S \cup {f}) \cap Evictable
        PROVE  ~EvictedBefore(g, f)
    <2>1. Front(f) \in Nat /\ Front(g) \in Nat /\ Front(v) \in Nat
      BY FrontType
    <2>2. CASE g = f
      BY <2>1, <2>2, BeforeIs
    <2>3. CASE g # f
      <3>1. ~EvictedBefore(g, v)
        BY <2>3
      <3> QED  BY <1>1, <2>1, <3>1, BeforeIs
    <2> QED  BY <2>2, <2>3
  <1> QED  BY <1>1

(***************************************************************************)
(* The loop of Evict, one iteration at a time: it starts with no           *)
(* candidate, an iteration turns the best of the frames met so far into    *)
(* the best of those and one more, whichever comes next, and once every    *)
(* tracked frame was met the victim is one that the policy allows, or      *)
(* there is none to evict.                                                 *)
(***************************************************************************)
LEMMA ScanKeepsBest ==
    ASSUME IInv
    PROVE  /\ BestOf(ScanStart, {})
           /\ \A acc \in Locals, S \in SUBSET Tracked, f \in Tracked :
                 BestOf(acc, S) => BestOf(ScanStep(acc, f), S \cup {f})
           /\ \A acc \in Locals :
                 BestOf(acc, Tracked) =>
                    IF Evictable = {} THEN acc.victim_frame = NoFrame
                                      ELSE acc.victim_frame \in Victims
  <1>1. BestOf(ScanStart, {})
    BY MaxTimeAssumption DEF BestOf, ScanStart, Locals
  <1>2. ASSUME NEW acc \in Locals, NEW S \in SUBSET Tracked, NEW f \in Tracked,
               BestOf(acc, S)
        PROVE  BestOf(ScanStep(acc, f), S \cup {f})
    <2>1. CASE f \notin Evictable
      <3>1. ScanStep(acc, f) = acc
        BY <2>1 DEF ScanStep, Evictable, Tracked
      <3>2. (S \cup {f}) \cap Evictable = S \cap Evictable
        BY <2>1
      <3> QED  BY <1>2, <3>1, <3>2 DEF BestOf
    <2>2. CASE f \in Evictable
      <3> SUFFICES ASSUME NEW r, r = ScanStep(acc, f), NEW v, v = acc.victim_frame
                   PROVE  BestOf(r, S \cup {f})
        OBVIOUS
      <3> DEFINE inf == /\ InfiniteDistance(f)
                        /\ ~acc.found_inf_frame \/ Front(f) < acc.earliest_timestamp
                 fin == /\ ~InfiniteDistance(f)
                        /\ ~acc.found_inf_frame
                        /\ v = NoFrame \/ KDistance(f) > acc.max_k_distance
      <3>1. /\ r \in Locals
            /\ inf => /\ r.victim_frame = f /\ r.earliest_timestamp = Front(f)
                      /\ r.found_inf_frame
            /\ fin => /\ r.victim_frame = f /\ r.max_k_distance = KDistance(f)
                      /\ ~r.found_inf_frame
            /\ ~inf /\ ~fin => r = acc
        BY <2>2, StepIs
      <3>2. (S \cup {f}) \cap Evictable # {} /\ f \in (S \cup {f}) \cap Evictable
        BY <2>2
      <3>3. inf \/ fin =>
               /\ r.victim_frame = f
               /\ r.found_inf_frame <=> InfiniteDistance(f)
               /\ r.found_inf_frame => r.earliest_timestamp = Front(f)
               /\ ~r.found_inf_frame => r.max_k_distance = KDistance(f)
        BY <3>1
      <3>4. CASE S \cap Evictable = {}
        <4>1. v = NoFrame /\ ~acc.found_inf_frame
          BY <1>2, <3>4 DEF BestOf
        <4>2. inf \/ fin
          BY <4>1
        <4>3. \A g \in (S \cup {f}) \cap Evictable : ~EvictedBefore(g, f)
          <5>1. ~EvictedBefore(f, f)
            <6>1. ~(Front(f) < Front(f))
              BY <2>2, FrontType
            <6> QED  BY <2>2, <6>1, BeforeIs
          <5> QED  BY <3>4, <5>1
        <4> HIDE DEF inf, fin
        <4> QED  BY <3>1, <3>2, <3>3, <4>2, <4>3 DEF BestOf
      <3>5. CASE S \cap Evictable # {}
        <4>1. /\ v \in S \cap Evictable /\ v \in Evictable
              /\ \A g \in S \cap Evictable : ~EvictedBefore(g, v)
              /\ acc.found_inf_frame <=> InfiniteDistance(v)
              /\ acc.found_inf_frame => acc.earliest_timestamp = Front(v)
              /\ ~acc.found_inf_frame => acc.max_k_distance = KDistance(v)
          BY <1>2, <3>5 DEF BestOf
        <4>2. v # NoFrame
          BY <4>1, FramesAssumption DEF Evictable
        <4>3. inf \/ fin <=> EvictedBefore(f, v)
          BY <2>2, <4>1, <4>2, BeforeIs
        <4> HIDE DEF inf, fin
        <4>4. CASE EvictedBefore(f, v)
          <5>1. \A g \in (S \cup {f}) \cap Evictable : ~EvictedBefore(g, f)
            BY <2>2, <4>1, <4>4, BetterThanBest
          <5> QED  BY <3>1, <3>2, <3>3, <4>3, <4>4, <5>1 DEF BestOf
        <4>5. CASE ~EvictedBefore(f, v)
          <5>1. \A g \in (S \cup {f}) \cap Evictable : ~EvictedBefore(g, v)
            BY <2>2, <4>1, <4>5, BetterThanBest
          <5>2. r = acc /\ v \in (S \cup {f}) \cap Evictable
            BY <3>1, <4>1, <4>3, <4>5
          <5> QED  BY <3>2, <4>1, <5>1, <5>2 DEF BestOf
        <4> QED  BY <4>4, <4>5
      <3> QED  BY <3>4, <3>5
    <2> QED  BY <2>1, <2>2
  <1>3. ASSUME NEW acc \in Locals, BestOf(acc, Tracked)
        PROVE  IF Evictable = {} THEN acc.victim_frame = NoFrame
                                 ELSE acc.victim_frame \in Victims
    <2>1. Tracked \cap Evictable = Evictable
      BY DEF IInv, EvictableIsTracked
    <2> QED  BY <1>3, <2>1 DEF BestOf, Victims
  <1> QED  BY <1>1, <1>2, <1>3

-----------------------------------------------------------------------------
(* The whole loop, by induction on the number of frames met. *)

\* Induction, for sets instead of predicates.
LEMMA Inductive ==
    ASSUME NEW P \in SUBSET Nat, 0 \in P, \A n \in P : n + 1 \in P
    PROVE  P = Nat
  <1> SUFFICES ASSUME Nat \ P # {} PROVE FALSE
    OBVIOUS
  <1> DEFINE R == {ss \in Nat \X Nat : ss[1] < ss[2]}
  <1>1. IsWellFoundedOn(R, Nat)
    BY NatLessThanWellFounded DEF OpToRel
  <1>2. PICK x \in Nat \ P : \A y \in Nat \ P : ~ (<<y, x>> \in R)
    BY <1>1, WFMin
  <1>3. x # 0 /\ x - 1 \in Nat /\ x \in Nat
    BY <1>2
  <1>4. <<x - 1, x>> \in R
    BY <1>3
  <1>5. x - 1 \in P
    BY <1>2, <1>3, <1>4
  <1>6. (x - 1) + 1 = x
    BY <1>3
  <1> QED  BY <1>2, <1>5, <1>6

MaxOf(s) == CHOOSE x \in s : \A y \in s : x >= y

LEMMA MaxIsTop ==
    ASSUME NEW n \in Nat, NEW s \in SUBSET (1 .. n), s # {}
    PROVE  MaxOf(s) \in s /\ \A y \in s : MaxOf(s) >= y
  <1> DEFINE R == {ss \in Nat \X Nat : ss[1] < ss[2]}
             T == {n - y : y \in s}
  <1>1. IsWellFoundedOn(R, Nat)
    BY NatLessThanWellFounded DEF OpToRel
  <1>2. T \in SUBSET Nat /\ T # {}
    <2>1. \A y \in s : n - y \in Nat
      OBVIOUS
    <2> QED  BY <2>1
  <1>3. PICK d \in T : \A e \in T : ~ (<<e, d>> \in R)
    BY <1>1, <1>2, WFMin
  <1>4. PICK x \in s : d = n - x
    BY <1>3
  <1>5. ASSUME NEW y \in s PROVE x >= y
    <2>1. n - y \in T /\ n - y \in Nat /\ d \in Nat
      BY <1>2, <1>3
    <2>2. ~(n - y < d)
      BY <1>3, <2>1
    <2> QED  BY <1>4, <2>1, <2>2
  <1> QED  BY <1>5 DEF MaxOf

\* What the fold of ScanVictim computes for the frames at the indices of s: the last of
\* them is met last.
FoldBody(f, order, s) ==
    IF s = {} THEN ScanStart ELSE ScanStep(f[s \ {MaxOf(s)}], order[MaxOf(s)])

Folded(f, order) == f = [s \in SUBSET (DOMAIN order) |-> FoldBody(f, order, s)]

LEMMA ScanIsFold ==
    ASSUME NEW order
    PROVE  ScanVictim(order) = (CHOOSE f : Folded(f, order))[DOMAIN order].victim_frame
  BY DEF ScanVictim, Seqs!FoldLeft, Seqs!MapThenFoldSet, Seqs!Max, Folded, FoldBody, MaxOf

\* There is such a function: one that is right for m indices gives one for m + 1.
FoldedUpTo(f, order, m) ==
    \A s \in SUBSET (DOMAIN order) : Cardinality(s) <= m => f[s] = FoldBody(f, order, s)

LEMMA FoldExists ==
    ASSUME NEW n \in Nat, NEW order, DOMAIN order = 1 .. n
    PROVE  \E f : Folded(f, order)
  <1> DEFINE D == SUBSET (DOMAIN order)
             P == {m \in Nat : \E f : f = [s \in D |-> f[s]] /\ FoldedUpTo(f, order, m)}
  <1>0. ASSUME NEW s \in D
        PROVE  /\ IsFiniteSet(s) /\ Cardinality(s) \in Nat /\ Cardinality(s) <= n
               /\ Cardinality(s) = 0 <=> s = {}
               /\ s # {} => /\ s \ {MaxOf(s)} \in D
                            /\ Cardinality(s \ {MaxOf(s)}) = Cardinality(s) - 1
    <2>1. IsFiniteSet(1 .. n) /\ Cardinality(1 .. n) = n
      BY FS_Interval
    <2>2. IsFiniteSet(s) /\ Cardinality(s) <= n
      BY <2>1, FS_Subset
    <2>3. Cardinality(s) \in Nat /\ (Cardinality(s) = 0 <=> s = {})
      BY <2>2, FS_CardinalityType, FS_EmptySet
    <2>4. s # {} => MaxOf(s) \in s
      BY MaxIsTop
    <2>5. s # {} => Cardinality(s \ {MaxOf(s)}) = Cardinality(s) - 1
      BY <2>2, <2>4, FS_RemoveElement
    <2> QED  BY <2>2, <2>3, <2>5
  <1>1. 0 \in P
    <2> DEFINE f == [s \in D |-> ScanStart]
    <2>1. f = [s \in D |-> f[s]]
      OBVIOUS
    <2>2. FoldedUpTo(f, order, 0)
      <3> SUFFICES ASSUME NEW s \in D, Cardinality(s) <= 0 PROVE f[s] = FoldBody(f, order, s)
        BY DEF FoldedUpTo
      <3>1. Cardinality(s) = 0
        <4>1. Cardinality(s) \in Nat
          BY <1>0
        <4> HIDE DEF D
        <4> QED  BY <4>1
      <3>2. s = {}
        BY <1>0, <3>1
      <3> QED  BY <3>2 DEF FoldBody
    <2> QED  BY <2>1, <2>2
  <1>2. ASSUME NEW m \in P PROVE m + 1 \in P
    <2>1. PICK f : f = [s \in D |-> f[s]] /\ FoldedUpTo(f, order, m)
      OBVIOUS
    <2> DEFINE g == [s \in D |-> FoldBody(f, order, s)]
    <2>2. g = [s \in D |-> g[s]]
      OBVIOUS
    <2>3. ASSUME NEW s \in D, Cardinality(s) <= m PROVE g[s] = f[s]
      BY <2>1, <2>3 DEF FoldedUpTo
    <2>4. FoldedUpTo(g, order, m + 1)
      <3> SUFFICES ASSUME NEW s \in D, Cardinality(s) <= m + 1
                   PROVE  g[s] = FoldBody(g, order, s)
        BY DEF FoldedUpTo
      <3>1. g[s] = FoldBody(f, order, s)
        OBVIOUS
      <3>2. CASE s = {}
        BY <3>1, <3>2 DEF FoldBody
      <3>3. CASE s # {}
        <4> DEFINE r == s \ {MaxOf(s)}
        <4>1. r \in D /\ Cardinality(r) = Cardinality(s) - 1 /\ Cardinality(s) \in Nat
          BY <3>3, <1>0
        <4>2. Cardinality(r) <= m
          BY <4>1
        <4>3. g[r] = f[r]
          BY <2>3, <4>1, <4>2
        <4> HIDE DEF g
        <4> QED  BY <3>1, <3>3, <4>3 DEF FoldBody
      <3> QED  BY <3>2, <3>3
    <2> HIDE DEF g
    <2> QED  BY <2>2, <2>4
  <1>3. n \in P
    <2> HIDE DEF P
    <2>1. P \in SUBSET Nat
      BY DEF P
    <2> QED  BY <1>1, <1>2, <2>1, Inductive
  <1>4. PICK f : f = [s \in D |-> f[s]] /\ FoldedUpTo(f, order, n)
    BY <1>3
  <1>5. ASSUME NEW s \in D PROVE f[s] = FoldBody(f, order, s)
    BY <1>0, <1>4 DEF FoldedUpTo
  <1>6. f = [s \in D |-> FoldBody(f, order, s)]
    BY <1>4, <1>5
  <1> QED  BY <1>6 DEF Folded

\* After m iterations the locals describe the best of the first m frames.
LEMMA FoldBest ==
    ASSUME IInv, NEW n \in Nat, NEW order \in [1 .. n -> Tracked], NEW f, Folded(f, order)
    PROVE  BestOf(f[1 .. n], {order[i] : i \in 1 .. n})
  <1> DEFINE Met(m) == {order[i] : i \in 1 .. m}
             P == {m \in Nat : m <= n => BestOf(f[1 .. m], Met(m))}
  <1>0. \A s \in SUBSET (1 .. n) : f[s] = FoldBody(f, order, s)
    <2>1. DOMAIN order = 1 .. n
      OBVIOUS
    <2>2. f = [s \in SUBSET (1 .. n) |-> FoldBody(f, order, s)]
      BY <2>1 DEF Folded
    <2> QED  BY <2>2
  <1>1. 0 \in P
    <2>1. 1 .. 0 = {} /\ Met(0) = {}
      OBVIOUS
    <2>2. f[{}] = ScanStart
      BY <1>0 DEF FoldBody
    <2>3. BestOf(f[1 .. 0], Met(0))
      BY <2>1, <2>2, ScanKeepsBest
    <2> QED  BY <2>3
  <1>2. ASSUME NEW m \in P PROVE m + 1 \in P
    <2> SUFFICES ASSUME m + 1 <= n PROVE BestOf(f[1 .. m + 1], Met(m + 1))
      OBVIOUS
    <2> DEFINE s == 1 .. m + 1
    <2>1. m \in Nat /\ BestOf(f[1 .. m], Met(m))
      OBVIOUS
    <2>2. s \in SUBSET (1 .. n) /\ s # {} /\ m + 1 \in s /\ m + 1 \in 1 .. n
      <3>1. \A i \in 1 .. m + 1 : i \in 1 .. n
        BY <2>1
      <3>2. m + 1 \in 1 .. m + 1
        BY <2>1
      <3> QED  BY <3>1, <3>2
    <2>3. MaxOf(s) = m + 1
      <3>1. MaxOf(s) \in s /\ MaxOf(s) >= m + 1
        BY <2>2, MaxIsTop
      <3> QED  BY <2>1, <3>1
    <2>4. s \ {m + 1} = 1 .. m
      BY <2>1
    <2>5. f[s] = ScanStep(f[1 .. m], order[m + 1])
      <3> HIDE DEF s
      <3> QED  BY <1>0, <2>2, <2>3, <2>4 DEF FoldBody
    <2>6. Met(m + 1) = Met(m) \cup {order[m + 1]}
      <3>1. \A i : i \in 1 .. m + 1 <=> i \in 1 .. m \/ i = m + 1
        BY <2>1
      <3> QED  BY <3>1
    <2>7. Met(m) \in SUBSET Tracked /\ order[m + 1] \in Tracked
      BY <2>1, <2>2
    <2>8. f[1 .. m] \in Locals
      BY <2>1 DEF BestOf
    <2> HIDE DEF Met, s, P
    <2>9. BestOf(ScanStep(f[1 .. m], order[m + 1]), Met(m) \cup {order[m + 1]})
      BY <2>1, <2>7, <2>8, ScanKeepsBest
    <2> QED  BY <2>5, <2>6, <2>9 DEF s
  <1>3. n \in P
    <2> HIDE DEF P
    <2>1. P \in SUBSET Nat
      BY DEF P
    <2> QED  BY <1>1, <1>2, <2>1, Inductive
  <1> QED  BY <1>3

LEMMA ScanRight == ASSUME IInv PROVE ScanFindsVictim
  <1> SUFFICES ASSUME NEW order \in Seqs!SetToSeqs(Tracked)
               PROVE  IF Evictable = {} THEN ScanVictim(order) = NoFrame
                                        ELSE ScanVictim(order) \in Victims
    BY DEF ScanFindsVictim
  <1> DEFINE n == Cardinality(Tracked)
             f == CHOOSE x : Folded(x, order)
  <1>1. Cardinality(Tracked) = Seqs!Cardinality(Tracked)
    BY DEF Cardinality, Seqs!Cardinality
  <1>2. order \in [1 .. n -> Tracked] /\ \A i, j \in 1 .. n : i # j => order[i] # order[j]
    BY <1>1 DEF Seqs!SetToSeqs
  <1>3. IsFiniteSet(Tracked) /\ n \in Nat
    BY FramesAssumption, FS_Subset, FS_CardinalityType DEF Tracked
  <1>4. {order[i] : i \in 1 .. n} = Tracked
    <2>1. IsFiniteSet(1 .. n) /\ Cardinality(1 .. n) = n
      BY <1>3, FS_Interval
    <2>2. order \in Injection(1 .. n, Tracked)
      BY <1>2 DEF Injection, IsInjective
    <2>3. order \in Surjection(1 .. n, Tracked)
      BY <1>3, <2>1, <2>2, FS_Injection
    <2> HIDE DEF n
    <2> QED  BY <1>2, <2>3 DEF Surjection
  <1> HIDE DEF n
  <1>5. DOMAIN order = 1 .. n
    BY <1>2
  <1>6. Folded(f, order)
    BY <1>3, <1>5, FoldExists
  <1>7. ScanVictim(order) = f[1 .. n].victim_frame
    BY <1>5, ScanIsFold
  <1> HIDE DEF f
  <1>8. BestOf(f[1 .. n], Tracked)
    BY <1>2, <1>3, <1>4, <1>6, FoldBest
  <1>9. f[1 .. n] \in Locals
    BY <1>8 DEF BestOf
  <1> QED  BY <1>7, <1>8, <1>9, ScanKeepsBest

(***************************************************************************)
(* The loop of Evict ends on the frame the policy wants, in whatever order *)
(* the hash map yields the frames, and on "return false" exactly when no   *)
(* frame is evictable.                                                     *)
(***************************************************************************)
THEOREM ScanCorrect == LogSpec => []ScanFindsVictim
  <1>1. IInv => ScanFindsVictim
    BY ScanRight
  <1>2. LogInv => IInv
    BY DEF LogInv
  <1> QED  BY <1>1, <1>2, LogInvariance, PTL
=============================================================================
