-------------------------- MODULE TwoPhaseLocking --------------------------
(***************************************************************************)
(* Strict compatibility and two-phase locking, with no queues, latches or  *)
(* waiting: a lock is acquired only in the growing phase and only if no    *)
(* other transaction holds a conflicting one.                              *)
(***************************************************************************)
CONSTANTS Txns, Rids

VARIABLES
    phase,          \* [Txns -> {"none", "growing", "shrinking", "ended"}]
    shared,         \* shared[t]: what t holds in shared mode
    exclusive       \* exclusive[t]: what t holds in exclusive mode

lockVars == <<phase, shared, exclusive>>

Others(t) == Txns \ {t}

Begin(t) ==
    /\ phase[t] = "none"
    /\ phase' = [phase EXCEPT ![t] = "growing"]
    /\ UNCHANGED <<shared, exclusive>>

AcquireShared(t, r) ==
    /\ phase[t] = "growing"
    /\ \A u \in Others(t) : r \notin exclusive[u]
    /\ shared' = [shared EXCEPT ![t] = @ \cup {r}]
    /\ UNCHANGED <<phase, exclusive>>

\* With a shared lock on r already, it may be kept or traded in.
AcquireExclusive(t, r) ==
    /\ phase[t] = "growing"
    /\ \A u \in Others(t) : r \notin shared[u] \cup exclusive[u]
    /\ exclusive' = [exclusive EXCEPT ![t] = @ \cup {r}]
    /\ shared' \in {shared, [shared EXCEPT ![t] = @ \ {r}]}
    /\ UNCHANGED phase

Release(t, r) ==
    /\ shared' = [shared EXCEPT ![t] = @ \ {r}]
    /\ exclusive' = [exclusive EXCEPT ![t] = @ \ {r}]
    /\ phase' = [phase EXCEPT ![t] = IF @ = "growing" THEN "shrinking" ELSE @]

End(t) ==
    /\ phase[t] \in {"growing", "shrinking"}
    /\ phase' = [phase EXCEPT ![t] = "ended"]
    /\ UNCHANGED <<shared, exclusive>>

ForgetAll(t) ==
    /\ phase[t] = "ended"
    /\ shared' = [shared EXCEPT ![t] = {}]
    /\ exclusive' = [exclusive EXCEPT ![t] = {}]
    /\ UNCHANGED phase

Init ==
    /\ phase = [t \in Txns |-> "none"]
    /\ shared = [t \in Txns |-> {}]
    /\ exclusive = [t \in Txns |-> {}]

Next == \E t \in Txns :
            \/ Begin(t) \/ End(t) \/ ForgetAll(t)
            \/ \E r \in Rids : AcquireShared(t, r) \/ AcquireExclusive(t, r) \/ Release(t, r)

Spec == Init /\ [][Next]_lockVars
=============================================================================
