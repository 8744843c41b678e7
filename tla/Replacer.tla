------------------------------ MODULE Replacer ------------------------------
(***************************************************************************)
(* What the buffer pool relies on when it calls its replacer: a frame is   *)
(* untracked, tracked and protected, or tracked and evictable, and Evict   *)
(* hands out SOME evictable frame.  Which one is a matter of policy, which *)
(* this module leaves open; LRUKReplacer is shown to implement it.         *)
(*                                                                         *)
(* The operators are functions from a replacer state to the next, so that  *)
(* BufferPoolManager, whose operations make several replacer calls under   *)
(* one latch, can chain them in a single step.                             *)
(***************************************************************************)
CONSTANT Frames

VARIABLE replacer       \* [Frames -> Status]

Status == {"untracked", "protected", "evictable"}

AllUntracked == [f \in Frames |-> "untracked"]

EvictableIn(r) == {f \in Frames : r[f] = "evictable"}

\* The first access to a frame creates its entry, not evictable.
AfterRecordAccess(r, f) ==
    [r EXCEPT ![f] = IF r[f] = "untracked" THEN "protected" ELSE r[f]]

\* A call on a frame that has no entry is ignored.
AfterSetEvictable(r, f, set_evictable) ==
    [r EXCEPT ![f] = IF r[f] = "untracked" THEN "untracked"
                     ELSE IF set_evictable THEN "evictable" ELSE "protected"]

\* Evict and Remove erase the entry.
AfterErase(r, f) == [r EXCEPT ![f] = "untracked"]

-----------------------------------------------------------------------------
RecordAccess(f) == replacer' = AfterRecordAccess(replacer, f)

SetEvictable(f, b) == replacer' = AfterSetEvictable(replacer, f, b)

Evict(f) ==
    /\ f \in EvictableIn(replacer)
    /\ replacer' = AfterErase(replacer, f)

\* Remove on a protected frame throws and changes nothing.
Remove(f) ==
    /\ replacer[f] # "protected"
    /\ replacer' = AfterErase(replacer, f)

Init == replacer = AllUntracked

Next == \E f \in Frames :
            \/ RecordAccess(f)
            \/ \E b \in BOOLEAN : SetEvictable(f, b)
            \/ Evict(f)
            \/ Remove(f)

Spec == Init /\ [][Next]_replacer
=============================================================================
