----------------------------- MODULE LRUKPolicy -----------------------------
(***************************************************************************)
(* The LRU-K replacement policy as the literature and the class comment of *)
(* LRUKReplacer define it, on COMPLETE access logs: the backward           *)
(* K-distance of a frame is the time since its K-th most recent access,    *)
(* infinite with fewer than K accesses; the evictable frame of largest     *)
(* distance goes first, and among infinite ones the one whose first access *)
(* is the oldest.                                                          *)
(***************************************************************************)
EXTENDS Naturals, Sequences

CONSTANTS Frames, K, NoFrame

VARIABLES
    log,            \* log[f]: every access to f since it was last erased
    evictable,      \* the frames that may be evicted
    now,            \* the logical clock
    victim          \* the frame the last call evicted, if it was an Evict

policyVars == <<log, evictable, now, victim>>

InfiniteDistance(f) == Len(log[f]) < K

KthMostRecent(f) == log[f][Len(log[f]) - K + 1]

\* g goes before f.
EvictedBefore(g, f) ==
    \/ InfiniteDistance(g) /\ ~InfiniteDistance(f)
    \/ InfiniteDistance(g) /\ InfiniteDistance(f) /\ Head(log[g]) < Head(log[f])
    \/ ~InfiniteDistance(g) /\ ~InfiniteDistance(f)
       /\ KthMostRecent(g) < KthMostRecent(f)

Access(f) ==
    /\ log' = [log EXCEPT ![f] = Append(@, now)]
    /\ now' = now + 1
    /\ victim' = NoFrame
    /\ UNCHANGED evictable

MayEvict(f) ==
    /\ log[f] # << >>
    /\ evictable' = evictable \cup {f}
    /\ victim' = NoFrame
    /\ UNCHANGED <<log, now>>

MayNotEvict(f) ==
    /\ evictable' = evictable \ {f}
    /\ victim' = NoFrame
    /\ UNCHANGED <<log, now>>

Erase(f) ==
    /\ f \in evictable
    /\ log' = [log EXCEPT ![f] = << >>]
    /\ evictable' = evictable \ {f}
    /\ UNCHANGED now

\* The two ways a frame leaves the replacer; only Evict is bound by the policy.
Evict(f) ==
    /\ Erase(f)
    /\ \A g \in evictable : ~EvictedBefore(g, f)
    /\ victim' = f

Remove(f) == Erase(f) /\ victim' = NoFrame

\* A call that changes nothing: Evict with nothing evictable, Remove of a frame
\* that is not tracked or may not be evicted.
NoEffect == victim' = NoFrame /\ UNCHANGED <<log, evictable, now>>

Init ==
    /\ log = [f \in Frames |-> << >>]
    /\ evictable = {}
    /\ now = 0
    /\ victim = NoFrame

Next ==
    \/ NoEffect
    \/ \E f \in Frames :
          \/ Access(f) \/ MayEvict(f) \/ MayNotEvict(f) \/ Evict(f) \/ Remove(f)

Spec == Init /\ [][Next]_policyVars
=============================================================================
