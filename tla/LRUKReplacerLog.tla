-------------------------- MODULE LRUKReplacerLog --------------------------
(***************************************************************************)
(* LRUKReplacer with a history variable: log[f] is every access to frame f *)
(* since the frame was last erased.  The replacer itself only remembers    *)
(* the last K; that this is enough to implement LRU-K is the refinement    *)
(* ImplementsLRUK.                                                         *)
(***************************************************************************)
EXTENDS LRUKReplacer

VARIABLE log

logVars == <<entries, current_timestamp, curr_size, victim, log>>

LogInit == Init /\ log = [f \in Frames |-> << >>]

LogNext ==
    \/ EvictNothing /\ UNCHANGED log
    \/ \E f \in Frames :
          \/ Evict(f) /\ log' = [log EXCEPT ![f] = << >>]
          \/ RecordAccess(f) /\ log' = [log EXCEPT ![f] = Append(@, current_timestamp)]
          \/ (\E b \in BOOLEAN : SetEvictable(f, b)) /\ UNCHANGED log
          \/ Remove(f) /\ log' = [log EXCEPT ![f] = << >>]
          \/ RejectedCall(f) /\ UNCHANGED log

LogSpec == LogInit /\ [][LogNext]_logVars

-----------------------------------------------------------------------------
Policy == INSTANCE LRUKPolicy WITH evictable <- Evictable, now <- current_timestamp

\* Every frame Evict returns is the one LRU-K names on the complete access logs,
\* although the replacer has kept only the last K timestamps of each frame and
\* forgets a frame's accesses when it is evicted or removed.
ImplementsLRUK == Policy!Spec

\* The part of a log the replacer remembers.
LastK(s) == SubSeq(s, IF Len(s) > K THEN Len(s) - K + 1 ELSE 1, Len(s))

\* What the refinement rests on: each history is the end of the complete log, and
\* the clock is ahead of every recorded timestamp.
HistoryIsLastK ==
    \A f \in Frames :
        /\ entries[f].history = LastK(log[f])
        /\ \A i \in 1..Len(log[f]) : log[f][i] < current_timestamp
=============================================================================
