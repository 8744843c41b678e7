---------------------------- MODULE OrderedIndex ----------------------------
(***************************************************************************)
(* What an index promises: it holds pairs of a key and a record id, one    *)
(* per key.  A key that is present keeps its record id until it is         *)
(* removed, and no operation touches another key.                          *)
(***************************************************************************)
CONSTANTS Keys, RIDs

VARIABLE entries            \* the pairs <<key, record id>> it holds

Insert(k, v) ==
    /\ \A e \in entries : e[1] # k
    /\ entries' = entries \cup {<<k, v>>}

Remove(k) == entries' = {e \in entries : e[1] # k}

Init == entries = {}

Next ==
    \E k \in Keys : \/ Remove(k)
                    \/ \E v \in RIDs : Insert(k, v)

Spec == Init /\ [][Next]_entries
=============================================================================
