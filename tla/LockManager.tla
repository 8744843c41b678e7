---------------------------- MODULE LockManager ----------------------------
(***************************************************************************)
(* concurrency/lock_manager.cpp and concurrency/transaction_manager.cpp:   *)
(* tuple locks under strict two-phase locking, and the end of a            *)
(* transaction.                                                            *)
(*                                                                         *)
(* latch_ is held from the start of a lock manager call to its return,     *)
(* except while the call waits on the condition variable of its resource.  *)
(* TransactionManager::Commit and Abort touch the transaction's state and  *)
(* lock sets without latch_, so the last part of a lock call, between its  *)
(* check of the transaction's state and its update of the lock sets, is a  *)
(* step of its own.                                                        *)
(***************************************************************************)
EXTENDS Naturals, Sequences, SequencesExt, FiniteSets

CONSTANTS
    Txns,           \* transactions; each is driven by one thread
    Rids,           \* resources
    NoCall,         \* "not inside a lock manager call"
    Relock,         \* may a caller ask for X on what it holds in S mode?
    ReleaseFirst,   \* do callers unlock everything before Commit or Abort?
    ExternalAbort   \* may another thread call Abort on a transaction?

ASSUME SwitchesAssumption ==
    Relock \in BOOLEAN /\ ReleaseFirst \in BOOLEAN /\ ExternalAbort \in BOOLEAN

VARIABLES
    state,              \* state_ of each transaction
    shared_lock_set,    \* shared_lock_set_
    exclusive_lock_set, \* exclusive_lock_set_
    request_queue,      \* lock_table_[rid].request_queue_
    upgrading,          \* lock_table_[rid].upgrading_
    call,               \* the lock call each transaction's thread is inside of
    ending,             \* the progress of Commit or Abort of each transaction
    crashed             \* the process has died of undefined behaviour

sets == <<shared_lock_set, exclusive_lock_set>>
vars == <<state, shared_lock_set, exclusive_lock_set, request_queue, upgrading,
          call, ending, crashed>>

States == {"NONE", "GROWING", "SHRINKING", "COMMITTED", "ABORTED"}
Modes == {"SHARED", "EXCLUSIVE"}
Request == [txn : Txns, mode : Modes, granted : BOOLEAN]

\* asleep: in cv_.wait; awake: notified, about to take latch_ and look again;
\* granting: past the check of the state, with latch_ held.
Call == [op : {"LockShared", "LockExclusive", "LockUpgrade"}, rid : Rids,
         at : {"asleep", "awake", "granting"}]

ASSUME NoCallAssumption == NoCall \notin Call

\* The loop a Commit or Abort is in, and the elements it has still to visit.
Ending == [phase : {"no", "shared", "exclusive", "clear", "done"},
           left : SUBSET Rids]
NotEnding == [phase |-> "no", left |-> {}]

-----------------------------------------------------------------------------
LatchFree == \A t \in Txns : call[t] # NoCall => call[t].at # "granting"

\* A thread calls the lock manager for a transaction that is under way.  A call on
\* an aborted transaction returns false at once.
MayCall(t) ==
    /\ ~crashed
    /\ LatchFree
    /\ call[t] = NoCall
    /\ ending[t].phase = "no"
    /\ state[t] \in {"GROWING", "SHRINKING"}

\* Mutant: a shared request does not look at the exclusive ones.
IgnoresExclusive(r) == TRUE

\* The conditions of the three waits.
NoExclusiveGranted(r) ==
    \A i \in DOMAIN request_queue[r] :
        ~(request_queue[r][i].granted /\ request_queue[r][i].mode = "EXCLUSIVE")

NoOtherGranted(t, r) ==
    \A i \in DOMAIN request_queue[r] :
        ~(request_queue[r][i].granted /\ request_queue[r][i].txn # t)

Compatible(op, t, r) ==
    IF op = "LockShared" THEN NoExclusiveGranted(r) ELSE NoOtherGranted(t, r)

Enqueue(t, r, mode) ==
    request_queue' = [request_queue EXCEPT ![r] =
                        Append(@, [txn |-> t, mode |-> mode, granted |-> FALSE])]

StartCall(t, op, r) ==
    call' = [call EXCEPT ![t] =
                [op |-> op, rid |-> r,
                 at |-> IF Compatible(op, t, r) THEN "granting" ELSE "asleep"]]

\* A lock request in the shrinking phase aborts the transaction.
RejectShrinking(t) ==
    /\ MayCall(t)
    /\ state[t] = "SHRINKING"
    /\ state' = [state EXCEPT ![t] = "ABORTED"]
    /\ UNCHANGED <<sets, request_queue, upgrading, call, ending, crashed>>

LockShared(t, r) ==
    /\ MayCall(t)
    /\ state[t] = "GROWING"
    /\ r \notin shared_lock_set[t] \cup exclusive_lock_set[t]
    /\ Enqueue(t, r, "SHARED")
    /\ StartCall(t, "LockShared", r)
    /\ UNCHANGED <<state, sets, upgrading, ending, crashed>>

LockExclusive(t, r) ==
    /\ MayCall(t)
    /\ state[t] = "GROWING"
    /\ r \notin exclusive_lock_set[t]
    /\ r \in shared_lock_set[t] => Relock
    /\ Enqueue(t, r, "EXCLUSIVE")
    /\ StartCall(t, "LockExclusive", r)
    /\ UNCHANGED <<state, sets, upgrading, ending, crashed>>

SharedRequestOf(q, t) == SelectInSeq(q, LAMBDA e : e.txn = t /\ e.mode = "SHARED")

\* Mutant: the upgrading_ flag is set but not looked at.
LockUpgradeAnyway(t, r) ==
    LET i == SharedRequestOf(request_queue[r], t)
    IN  /\ MayCall(t)
        /\ state[t] = "GROWING"
        /\ i # 0
        /\ upgrading' = [upgrading EXCEPT ![r] = TRUE]
        /\ request_queue' = [request_queue EXCEPT ![r][i].mode = "EXCLUSIVE"]
        /\ StartCall(t, "LockUpgrade", r)
        /\ UNCHANGED <<state, sets, ending, crashed>>

LockUpgrade(t, r) ==
    LET i == SharedRequestOf(request_queue[r], t)
    IN  /\ MayCall(t)
        /\ state[t] = "GROWING"
        /\ ~upgrading[r] /\ i # 0
        /\ upgrading' = [upgrading EXCEPT ![r] = TRUE]
        /\ request_queue' = [request_queue EXCEPT ![r][i].mode = "EXCLUSIVE"]
        /\ StartCall(t, "LockUpgrade", r)
        /\ UNCHANGED <<state, sets, ending, crashed>>

\* A second upgrader, or one without a shared request, is aborted.
RejectUpgrade(t, r) ==
    /\ MayCall(t)
    /\ state[t] = "GROWING"
    /\ upgrading[r] \/ SharedRequestOf(request_queue[r], t) = 0
    /\ state' = [state EXCEPT ![t] = "ABORTED"]
    /\ UNCHANGED <<sets, request_queue, upgrading, call, ending, crashed>>

-----------------------------------------------------------------------------
\* The cleanup of a call that finds its transaction aborted: LockShared and
\* LockExclusive drop the transaction's ungranted requests, LockUpgrade all of them.
WithoutAborted(q, t, op) ==
    SelectSeq(q, LAMBDA e : ~(e.txn = t /\ (op = "LockUpgrade" \/ ~e.granted)))

\* The thread takes latch_ again and evaluates the condition.
Wake(t) ==
    LET op == call[t].op
        r == call[t].rid
    IN  /\ ~crashed
        /\ LatchFree
        /\ call[t] # NoCall /\ call[t].at = "awake"
        /\ IF state[t] = "ABORTED"
           THEN /\ request_queue' = [request_queue EXCEPT ![r] = WithoutAborted(@, t, op)]
                /\ upgrading' = IF op = "LockUpgrade" THEN [upgrading EXCEPT ![r] = FALSE]
                                ELSE upgrading
                /\ call' = [call EXCEPT ![t] = NoCall]
           ELSE /\ call' = [call EXCEPT ![t].at =
                              IF Compatible(op, t, r) THEN "granting" ELSE "asleep"]
                /\ UNCHANGED <<request_queue, upgrading>>
        /\ UNCHANGED <<state, sets, ending, crashed>>

\* cv_.wait may return without a notify.
SpuriousWake(t) ==
    /\ ~crashed
    /\ call[t] # NoCall /\ call[t].at = "asleep"
    /\ call' = [call EXCEPT ![t].at = "awake"]
    /\ UNCHANGED <<state, sets, request_queue, upgrading, ending, crashed>>

\* The request each operation marks as granted.
GrantedIndex(q, t, op) ==
    SelectInSeq(q, LAMBDA e : /\ e.txn = t
                              /\ op = "LockShared" => e.mode = "SHARED"
                              /\ op = "LockExclusive" => e.mode = "EXCLUSIVE")

Grant(t) ==
    LET op == call[t].op
        r == call[t].rid
        i == GrantedIndex(request_queue[r], t, op)
    IN  /\ ~crashed
        /\ call[t] # NoCall /\ call[t].at = "granting"
        /\ request_queue' = IF i = 0 THEN request_queue
                            ELSE [request_queue EXCEPT ![r][i].granted = TRUE]
        /\ upgrading' = IF op = "LockUpgrade" THEN [upgrading EXCEPT ![r] = FALSE]
                        ELSE upgrading
        /\ shared_lock_set' = [shared_lock_set EXCEPT ![t] =
                                 CASE op = "LockShared" -> @ \cup {r}
                                   [] op = "LockExclusive" -> @
                                   [] op = "LockUpgrade" -> @ \ {r}]
        /\ exclusive_lock_set' = IF op = "LockShared" THEN exclusive_lock_set
                                 ELSE [exclusive_lock_set EXCEPT ![t] = @ \cup {r}]
        /\ call' = [call EXCEPT ![t] = NoCall]
        /\ UNCHANGED <<state, ending, crashed>>

\* Mutants: no notification; notify_one.
NotifyNobody(r) == UNCHANGED call

NotifyOne(r) ==
    LET sleepers == {t \in Txns : /\ call[t] # NoCall
                                  /\ call[t].rid = r /\ call[t].at = "asleep"}
    IN  \/ sleepers = {} /\ UNCHANGED call
        \/ \E t \in sleepers : call' = [call EXCEPT ![t].at = "awake"]

\* notify_all on the condition variable of r.
NotifyAll(r) ==
    call' = [t \in Txns |-> IF call[t] # NoCall /\ call[t].rid = r /\ call[t].at = "asleep"
                            THEN [call[t] EXCEPT !.at = "awake"] ELSE call[t]]

\* Mutant: the head of the queue, whosever it is.
HeadRequest(q, t) == IF q = << >> THEN 0 ELSE 1

RequestOf(q, t) == SelectInSeq(q, LAMBDA e : e.txn = t)

\* Mutant: the transaction stays in its growing phase.
UnlockStaysGrowing(t, r) ==
    LET i == RequestOf(request_queue[r], t)
    IN  /\ i # 0
        /\ request_queue' = [request_queue EXCEPT ![r] = RemoveAt(@, i)]
        /\ shared_lock_set' = [shared_lock_set EXCEPT ![t] = @ \ {r}]
        /\ exclusive_lock_set' = [exclusive_lock_set EXCEPT ![t] = @ \ {r}]
        /\ NotifyAll(r)
        /\ UNCHANGED state

\* Unlock when the transaction has a request in the queue.  Without one it returns
\* false and changes nothing.
DoUnlock(t, r) ==
    LET i == RequestOf(request_queue[r], t)
    IN  /\ i # 0
        /\ request_queue' = [request_queue EXCEPT ![r] = RemoveAt(@, i)]
        /\ state' = [state EXCEPT ![t] = IF @ = "GROWING" THEN "SHRINKING" ELSE @]
        /\ shared_lock_set' = [shared_lock_set EXCEPT ![t] = @ \ {r}]
        /\ exclusive_lock_set' = [exclusive_lock_set EXCEPT ![t] = @ \ {r}]
        /\ NotifyAll(r)

\* A thread unlocks what it holds; after the lock manager aborted the transaction
\* it still may.
Unlock(t, r) ==
    /\ ~crashed
    /\ LatchFree
    /\ call[t] = NoCall
    /\ ending[t].phase = "no"
    /\ r \in shared_lock_set[t] \cup exclusive_lock_set[t]
    /\ DoUnlock(t, r)
    /\ UNCHANGED <<upgrading, ending, crashed>>

-----------------------------------------------------------------------------
Begin(t) ==
    /\ ~crashed
    /\ state[t] = "NONE"
    /\ state' = [state EXCEPT ![t] = "GROWING"]
    /\ UNCHANGED <<sets, request_queue, upgrading, call, ending, crashed>>

\* The first statements of Commit and Abort: the state changes, without latch_, and
\* the loop over the shared lock set begins.
StartEnding(t, target) ==
    /\ state' = [state EXCEPT ![t] = target]
    /\ ending' = [ending EXCEPT ![t] = [phase |-> "shared", left |-> shared_lock_set[t]]]
    /\ UNCHANGED <<sets, request_queue, upgrading, call, crashed>>

MayEnd(t) ==
    /\ ~crashed
    /\ state[t] # "NONE"
    /\ ending[t].phase = "no"
    /\ ReleaseFirst => shared_lock_set[t] = {} /\ exclusive_lock_set[t] = {}

Commit(t) ==
    /\ MayEnd(t)
    /\ call[t] = NoCall
    /\ state[t] \in {"GROWING", "SHRINKING"}
    /\ StartEnding(t, "COMMITTED")

Abort(t) ==
    /\ MayEnd(t)
    /\ call[t] = NoCall \/ ExternalAbort
    /\ StartEnding(t, "ABORTED")

NextPhase(t) ==
    IF ending[t].phase = "shared"
    THEN [phase |-> "exclusive", left |-> exclusive_lock_set[t]]
    ELSE [phase |-> "clear", left |-> {}]

\* One iteration of "for (const auto &rid : *set) Unlock(txn, rid)".  Unlock erases
\* from the set the element the loop stands on, so advancing the iterator is
\* undefined: the loop may go on, end, or take the process down.
ReleaseNext(t, r) ==
    /\ ~crashed
    /\ LatchFree
    /\ r \in ending[t].left
    /\ DoUnlock(t, r)
    /\ \/ /\ ending' = [ending EXCEPT ![t].left = @ \ {r}]
          /\ UNCHANGED crashed
       \/ /\ ending' = [ending EXCEPT ![t] = NextPhase(t)]
          /\ UNCHANGED crashed
       \/ /\ crashed' = TRUE
          /\ UNCHANGED ending
    /\ UNCHANGED upgrading

\* The loop meets its end and the next one begins.  An element whose request is
\* gone already is passed over: Unlock returns false and erases nothing.
LoopIsOver(t) ==
    \A r \in ending[t].left : RequestOf(request_queue[r], t) = 0

NextLoop(t) ==
    /\ ~crashed
    /\ ending[t].phase \in {"shared", "exclusive"}
    /\ LoopIsOver(t)
    /\ ending' = [ending EXCEPT ![t] = NextPhase(t)]
    /\ UNCHANGED <<state, sets, request_queue, upgrading, call, crashed>>

ClearSets(t) ==
    /\ ~crashed
    /\ ending[t].phase = "clear"
    /\ shared_lock_set' = [shared_lock_set EXCEPT ![t] = {}]
    /\ exclusive_lock_set' = [exclusive_lock_set EXCEPT ![t] = {}]
    /\ ending' = [ending EXCEPT ![t].phase = "done"]
    /\ UNCHANGED <<state, request_queue, upgrading, call, crashed>>

-----------------------------------------------------------------------------
Init ==
    /\ state = [t \in Txns |-> "NONE"]
    /\ shared_lock_set = [t \in Txns |-> {}]
    /\ exclusive_lock_set = [t \in Txns |-> {}]
    /\ request_queue = [r \in Rids |-> << >>]
    /\ upgrading = [r \in Rids |-> FALSE]
    /\ call = [t \in Txns |-> NoCall]
    /\ ending = [t \in Txns |-> NotEnding]
    /\ crashed = FALSE

\* Every transaction has ended and every thread has returned: nothing is left to do.
AllDone ==
    /\ \A t \in Txns : ending[t].phase = "done" /\ call[t] = NoCall
    /\ UNCHANGED vars

Next ==
    \/ \E t \in Txns :
          \/ Begin(t) \/ RejectShrinking(t)
          \/ Wake(t) \/ SpuriousWake(t) \/ Grant(t)
          \/ Commit(t) \/ Abort(t) \/ NextLoop(t) \/ ClearSets(t)
          \/ \E r \in Rids :
                \/ LockShared(t, r) \/ LockExclusive(t, r)
                \/ LockUpgrade(t, r) \/ RejectUpgrade(t, r)
                \/ Unlock(t, r) \/ ReleaseNext(t, r)
    \/ AllDone

Spec == Init /\ [][Next]_vars

(***************************************************************************)
(* A notified thread gets latch_ and runs, a thread inside Commit or Abort *)
(* runs to the end, and a caller that is not blocked sooner or later       *)
(* unlocks what it holds and ends its transaction.  Nothing is assumed of  *)
(* spurious wakeups or of when a caller asks for locks.                    *)
(***************************************************************************)
Fairness ==
    \A t \in Txns :
        /\ WF_vars(Wake(t))
        /\ WF_vars(Grant(t))
        /\ WF_vars(NextLoop(t))
        /\ WF_vars(ClearSets(t))
        /\ WF_vars(\E r \in Rids : ReleaseNext(t, r))
        /\ WF_vars(\E r \in Rids : Unlock(t, r))
        /\ WF_vars(Commit(t) \/ Abort(t))

FairSpec == Spec /\ Fairness

-----------------------------------------------------------------------------
Upgrading(t, r) == call[t] # NoCall /\ call[t].op = "LockUpgrade" /\ call[t].rid = r

RequestsOf(t, r) == {i \in DOMAIN request_queue[r] : request_queue[r][i].txn = t}

HasGranted(t, r, mode) ==
    \E i \in RequestsOf(t, r) :
        request_queue[r][i].granted /\ request_queue[r][i].mode = mode

\* The types of the lock table, the transactions and the calls under way.
TypeOK ==
    /\ state \in [Txns -> States]
    /\ shared_lock_set \in [Txns -> SUBSET Rids]
    /\ exclusive_lock_set \in [Txns -> SUBSET Rids]
    /\ request_queue \in [Rids -> Seq(Request)]
    /\ upgrading \in [Rids -> BOOLEAN]
    /\ call \in [Txns -> Call \cup {NoCall}]
    /\ ending \in [Txns -> Ending]
    /\ crashed \in BOOLEAN

\* A transaction that was told it has an exclusive lock is alone: no other
\* transaction has been told that it holds the resource in any mode.
LockExclusion ==
    \A t, u \in Txns : \A r \in exclusive_lock_set[t] :
        t # u => r \notin shared_lock_set[u] \cup exclusive_lock_set[u]

\* What a transaction believes it holds and what the lock table says agree, request
\* by request: one request at most per transaction and resource, granted in the mode
\* of the lock set the resource is in (an upgrader's request already says exclusive
\* while its lock is still shared), ungranted only while its call is under way.
QueuesMatchLockSets ==
    \A t \in Txns, r \in Rids :
        /\ Cardinality(RequestsOf(t, r)) <= 1
        /\ r \in shared_lock_set[t] <=>
              \/ HasGranted(t, r, "SHARED")
              \/ HasGranted(t, r, "EXCLUSIVE") /\ Upgrading(t, r)
        /\ r \in exclusive_lock_set[t] <=>
              HasGranted(t, r, "EXCLUSIVE") /\ ~Upgrading(t, r)
        /\ (\E i \in RequestsOf(t, r) : ~request_queue[r][i].granted) <=>
              call[t] # NoCall /\ call[t].rid = r /\ ~Upgrading(t, r)

\* upgrading_ is set exactly while one transaction is upgrading, never more.
SingleUpgrader ==
    \A r \in Rids :
        /\ upgrading[r] <=> \E t \in Txns : Upgrading(t, r)
        /\ \A t, u \in Txns : Upgrading(t, r) /\ Upgrading(u, r) => t = u

\* No wakeup is lost: a thread sleeps on a condition variable only while what it
\* waits for is not there.
NoLostWakeup ==
    \A t \in Txns :
        call[t] # NoCall /\ call[t].at = "asleep" =>
            ~Compatible(call[t].op, t, call[t].rid)

\* Every lock call returns, granted or not: no waiter is forgotten as long as the
\* callers that are not blocked release their locks.
CallsReturn == \A t \in Txns : call[t] # NoCall ~> call[t] = NoCall

\* "Release all locks": when a transaction commits, its requests leave every queue.
CommitReleasesLocks ==
    \A t \in Txns :
        state[t] = "COMMITTED" ~> \A r \in Rids : RequestsOf(t, r) = {}

-----------------------------------------------------------------------------
PhaseOf(s) == CASE s = "NONE" -> "none"
                [] s = "GROWING" -> "growing"
                [] s = "SHRINKING" -> "shrinking"
                [] OTHER -> "ended"

Abstract == INSTANCE TwoPhaseLocking
                WITH phase <- [t \in Txns |-> PhaseOf(state[t])],
                     shared <- shared_lock_set, exclusive <- exclusive_lock_set

\* The lock manager implements two-phase locking: locks are only granted to a growing
\* transaction and never against a lock another transaction holds, whatever waiting,
\* waking and upgrading happens in between.
ImplementsTwoPhaseLocking == Abstract!Spec
=============================================================================
