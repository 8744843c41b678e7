------------------------------ MODULE LRUKScan ------------------------------
(***************************************************************************)
(* The loop of LRUKReplacer::Evict.  entries_ is an unordered_map, so the  *)
(* loop meets the frames in an order nothing in the program fixes; the     *)
(* scan is checked on every order in every reachable replacer state.       *)
(***************************************************************************)
EXTENDS LRUKReplacer

Seqs == INSTANCE SequencesExt

\* The four locals of Evict.  earliest_timestamp starts at SIZE_MAX, beyond
\* every timestamp.
ScanStart ==
    [victim_frame |-> NoFrame, max_k_distance |-> 0,
     earliest_timestamp |-> MaxTime + 1, found_inf_frame |-> FALSE]

\* Mutant: a frame with a complete history displaces one without.
ScanStepAnyOrder(acc, f) ==
    LET front == Head(entries[f].history)
    IN  IF ~entries[f].is_evictable THEN acc
        ELSE IF Len(entries[f].history) < K
        THEN IF ~acc.found_inf_frame \/ front < acc.earliest_timestamp
             THEN [acc EXCEPT !.victim_frame = f, !.earliest_timestamp = front,
                              !.found_inf_frame = TRUE]
             ELSE acc
        ELSE IF acc.victim_frame = NoFrame \/ KDistance(f) > acc.max_k_distance
        THEN [acc EXCEPT !.victim_frame = f, !.max_k_distance = KDistance(f)]
        ELSE acc

\* One iteration.
ScanStep(acc, f) ==
    LET front == Head(entries[f].history)
    IN  IF ~entries[f].is_evictable THEN acc
        ELSE IF Len(entries[f].history) < K
        THEN IF ~acc.found_inf_frame \/ front < acc.earliest_timestamp
             THEN [acc EXCEPT !.victim_frame = f, !.earliest_timestamp = front,
                              !.found_inf_frame = TRUE]
             ELSE acc
        ELSE IF ~acc.found_inf_frame
                /\ (acc.victim_frame = NoFrame \/ KDistance(f) > acc.max_k_distance)
        THEN [acc EXCEPT !.victim_frame = f, !.max_k_distance = KDistance(f)]
        ELSE acc

ScanVictim(order) == Seqs!FoldLeft(ScanStep, ScanStart, order).victim_frame

\* Whatever order the hash map yields, the loop of Evict ends on a frame of
\* Victims, and on "return false" exactly when no frame is evictable.
ScanFindsVictim ==
    \A order \in Seqs!SetToSeqs(Tracked) :
        IF Evictable = {} THEN ScanVictim(order) = NoFrame
                          ELSE ScanVictim(order) \in Victims

\* The policy never leaves Evict a choice, so the iteration order of the hash map
\* is not observable: two candidates are never tied.
VictimIsUnique == Cardinality(Victims) <= 1
=============================================================================
