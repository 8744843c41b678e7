-------------------------- MODULE LockManagerProofs --------------------------
(***************************************************************************)
(* For any transactions and resources, as long as only the thread that     *)
(* drives a transaction aborts it: the locks a transaction was told it has *)
(* exclude each other, the lock manager implements two-phase locking, and  *)
(* no wakeup is lost.                                                      *)
(***************************************************************************)
EXTENDS LockManager, FiniteSetTheorems, WellFoundedInduction, TLAPS

\* A set of natural numbers has a least element, and Min is it.
LEMMA MinIsLeast ==
    ASSUME NEW S \in SUBSET Nat, S # {}
    PROVE  Min(S) \in S /\ \A y \in S : Min(S) <= y
  <1> DEFINE R == {ss \in Nat \X Nat : ss[1] < ss[2]}
  <1>1. IsWellFoundedOn(R, Nat)
    BY NatLessThanWellFounded DEF OpToRel
  <1>2. PICK x \in S : \A y \in S : ~ (<<y, x>> \in R)
    BY <1>1, WFMin
  <1>3. ASSUME NEW y \in S PROVE x <= y
    <2>1. x \in Nat /\ y \in Nat /\ ~ (<<y, x>> \in R)
      BY <1>2
    <2>2. <<y, x>> \in Nat \X Nat /\ <<y, x>>[1] = y /\ <<y, x>>[2] = x
      BY <2>1
    <2>3. ~(y < x)
      BY <2>1, <2>2
    <2> QED  BY <2>1, <2>3
  <1> QED  BY <1>3 DEF Min
-----------------------------------------------------------------------------
(* The operators on request queues. *)

\* What a search for the first index of I answers: 0 if there is none.
LEMMA FirstIndex ==
    ASSUME NEW n \in Nat, NEW I \in SUBSET (1 .. n),
           NEW k, k = IF I # {} THEN Min(I) ELSE 0
    PROVE  /\ k \in 0 .. n
           /\ k = 0 => I = {}
           /\ k # 0 => k \in I /\ \A j \in 1 .. k - 1 : j \in 1 .. n /\ j \notin I
  <1>1. CASE I = {}
    BY <1>1
  <1>2. CASE I # {}
    <2>1. k \in I /\ \A y \in I : k <= y
      BY <1>2, MinIsLeast
    <2>2. k \in 1 .. n /\ \A j \in 1 .. k - 1 : j \in 1 .. n /\ j \notin I
      BY <2>1
    <2> QED  BY <2>1, <2>2
  <1> QED  BY <1>1, <1>2

\* The index a search finds: the first request that passes the test, 0 if none does.
LEMMA RequestOfProperties ==
    ASSUME NEW q \in Seq(Request), NEW t
    PROVE  /\ RequestOf(q, t) \in 0 .. Len(q)
           /\ RequestOf(q, t) = 0 => \A j \in 1 .. Len(q) : q[j].txn # t
           /\ RequestOf(q, t) # 0 => /\ q[RequestOf(q, t)].txn = t
                                    /\ \A j \in 1 .. RequestOf(q, t) - 1 : q[j].txn # t
  <1> DEFINE I == {i \in 1 .. Len(q) : q[i].txn = t}
  <1>1. RequestOf(q, t) = IF I # {} THEN Min(I) ELSE 0
    BY DEF RequestOf, SelectInSeq
  <1>2. I \in SUBSET (1 .. Len(q)) /\ Len(q) \in Nat
    OBVIOUS
  <1>3. /\ RequestOf(q, t) \in 0 .. Len(q)
        /\ RequestOf(q, t) = 0 => I = {}
        /\ RequestOf(q, t) # 0 =>
             /\ RequestOf(q, t) \in I
             /\ \A j \in 1 .. RequestOf(q, t) - 1 : j \in 1 .. Len(q) /\ j \notin I
    <2> HIDE DEF I
    <2> QED  BY <1>1, <1>2, FirstIndex
  <1> QED  BY <1>3

LEMMA SharedRequestOfProperties ==
    ASSUME NEW q \in Seq(Request), NEW t
    PROVE  /\ SharedRequestOf(q, t) \in 0 .. Len(q)
           /\ SharedRequestOf(q, t) = 0 =>
                \A j \in 1 .. Len(q) : ~(q[j].txn = t /\ q[j].mode = "SHARED")
           /\ SharedRequestOf(q, t) # 0 =>
                /\ q[SharedRequestOf(q, t)].txn = t
                /\ q[SharedRequestOf(q, t)].mode = "SHARED"
                /\ \A j \in 1 .. SharedRequestOf(q, t) - 1 :
                     ~(q[j].txn = t /\ q[j].mode = "SHARED")
  <1> DEFINE I == {i \in 1 .. Len(q) : q[i].txn = t /\ q[i].mode = "SHARED"}
  <1>1. SharedRequestOf(q, t) = IF I # {} THEN Min(I) ELSE 0
    BY DEF SharedRequestOf, SelectInSeq
  <1>2. I \in SUBSET (1 .. Len(q)) /\ Len(q) \in Nat
    OBVIOUS
  <1>3. /\ SharedRequestOf(q, t) \in 0 .. Len(q)
        /\ SharedRequestOf(q, t) = 0 => I = {}
        /\ SharedRequestOf(q, t) # 0 =>
             /\ SharedRequestOf(q, t) \in I
             /\ \A j \in 1 .. SharedRequestOf(q, t) - 1 : j \in 1 .. Len(q) /\ j \notin I
    <2> HIDE DEF I
    <2> QED  BY <1>1, <1>2, FirstIndex
  <1> QED  BY <1>3

\* The requests a call of kind op can be about.
Matches(e, t, op) ==
    /\ e.txn = t
    /\ op = "LockShared" => e.mode = "SHARED"
    /\ op = "LockExclusive" => e.mode = "EXCLUSIVE"

LEMMA GrantedIndexProperties ==
    ASSUME NEW q \in Seq(Request), NEW t, NEW op
    PROVE  /\ GrantedIndex(q, t, op) \in 0 .. Len(q)
           /\ GrantedIndex(q, t, op) = 0 => \A j \in 1 .. Len(q) : ~Matches(q[j], t, op)
           /\ GrantedIndex(q, t, op) # 0 =>
                /\ Matches(q[GrantedIndex(q, t, op)], t, op)
                /\ \A j \in 1 .. GrantedIndex(q, t, op) - 1 : ~Matches(q[j], t, op)
  <1> DEFINE I == {i \in 1 .. Len(q) : Matches(q[i], t, op)}
  <1>1. GrantedIndex(q, t, op) = IF I # {} THEN Min(I) ELSE 0
    BY DEF GrantedIndex, SelectInSeq, Matches
  <1>2. I \in SUBSET (1 .. Len(q)) /\ Len(q) \in Nat
    OBVIOUS
  <1>3. /\ GrantedIndex(q, t, op) \in 0 .. Len(q)
        /\ GrantedIndex(q, t, op) = 0 => I = {}
        /\ GrantedIndex(q, t, op) # 0 =>
             /\ GrantedIndex(q, t, op) \in I
             /\ \A j \in 1 .. GrantedIndex(q, t, op) - 1 : j \in 1 .. Len(q) /\ j \notin I
    <2> HIDE DEF I
    <2> QED  BY <1>1, <1>2, FirstIndex
  <1> QED  BY <1>3

LEMMA ConcatAt ==
    ASSUME NEW S, NEW a \in Seq(S), NEW b \in Seq(S)
    PROVE  /\ a \o b \in Seq(S)
           /\ Len(a \o b) = Len(a) + Len(b)
           /\ \A j \in 1 .. Len(a) + Len(b) :
                (a \o b)[j] = IF j <= Len(a) THEN a[j] ELSE b[j - Len(a)]
  OBVIOUS

\* The queue without its i-th request.
LEMMA RemoveAtProperties ==
    ASSUME NEW q \in Seq(Request), NEW i \in 1 .. Len(q)
    PROVE  /\ RemoveAt(q, i) \in Seq(Request)
           /\ Len(RemoveAt(q, i)) = Len(q) - 1
           /\ \A j \in 1 .. Len(q) - 1 :
                RemoveAt(q, i)[j] = IF j < i THEN q[j] ELSE q[j + 1]
  <1>1. Len(q) \in Nat /\ i \in Nat \ {0} /\ i <= Len(q)
    OBVIOUS
  <1> DEFINE a == SubSeq(q, 1, i - 1)
             b == SubSeq(q, i + 1, Len(q))
  <1>2. a \in Seq(Request) /\ Len(a) = i - 1 /\ \A j \in 1 .. i - 1 : a[j] = q[j]
    BY <1>1
  <1>3. b \in Seq(Request) /\ Len(b) = Len(q) - i
        /\ \A j \in 1 .. Len(q) - i : b[j] = q[i + j]
    BY <1>1
  <1>4. RemoveAt(q, i) = a \o b
    BY DEF RemoveAt
  <1> HIDE DEF a, b
  <1>5. /\ a \o b \in Seq(Request)
        /\ Len(a \o b) = Len(q) - 1
        /\ \A j \in 1 .. Len(q) - 1 : (a \o b)[j] = IF j < i THEN q[j] ELSE q[j + 1]
    <2>1. a \o b \in Seq(Request) /\ Len(a \o b) = Len(a) + Len(b)
      BY <1>2, <1>3, ConcatAt
    <2>2. ASSUME NEW j \in 1 .. Len(q) - 1
          PROVE  (a \o b)[j] = IF j < i THEN q[j] ELSE q[j + 1]
      <3>1. (a \o b)[j] = IF j <= Len(a) THEN a[j] ELSE b[j - Len(a)]
        BY <1>1, <1>2, <1>3, ConcatAt
      <3>2. CASE j < i
        <4>1. j <= Len(a) /\ j \in 1 .. i - 1
          BY <1>1, <1>2, <3>2
        <4> QED  BY <1>2, <3>1, <3>2, <4>1
      <3>3. CASE ~(j < i)
        <4>1. j - (i - 1) \in 1 .. Len(q) - i /\ i + (j - (i - 1)) = j + 1
          BY <1>1, <3>3
        <4>2. ~(j <= Len(a)) /\ j - Len(a) = j - (i - 1)
          BY <1>1, <1>2, <3>3
        <4>3. b[j - (i - 1)] = q[j + 1]
          BY <1>3, <4>1
        <4> QED  BY <3>1, <3>3, <4>2, <4>3
      <3> QED  BY <3>2, <3>3
    <2>3. (i - 1) + (Len(q) - i) = Len(q) - 1
      BY <1>1
    <2>4. Len(a) = i - 1 /\ Len(b) = Len(q) - i
      BY <1>2, <1>3
    <2>5. Len(a \o b) = Len(q) - 1
      BY ONLY <2>1, <2>3, <2>4
    <2> QED  BY ONLY <2>1, <2>2, <2>5
  <1> QED  BY <1>4, <1>5
-----------------------------------------------------------------------------
(* The inductive invariant. *)

\* The lock table's side of a lock: t has a granted request of the mode.
Held(q, t, mode) ==
    \E i \in 1 .. Len(q) : q[i].txn = t /\ q[i].granted /\ q[i].mode = mode

HeldAny(q, t) == \E i \in 1 .. Len(q) : q[i].txn = t /\ q[i].granted

\* The request that a call of kind op of t is going to mark as granted: the first
\* that matches.  An upgrader's says exclusive.
Wanted(q, t, op) ==
    \E i \in 1 .. Len(q) :
        /\ Matches(q[i], t, op)
        /\ op = "LockUpgrade" => q[i].mode = "EXCLUSIVE"
        /\ \A j \in 1 .. i - 1 : ~Matches(q[j], t, op)

\* The condition of a wait, in terms of what the others hold.
Free(q, op, t) ==
    IF op = "LockShared" THEN \A u \in Txns : ~Held(q, u, "EXCLUSIVE")
    ELSE \A u \in Txns : u # t => ~HeldAny(q, u)

Granting(t) == call[t] # NoCall /\ call[t].at = "granting"

\* latch_ is held by one call at most, and what its check found still holds.
OneGranting ==
    /\ \A t, u \in Txns : Granting(t) /\ Granting(u) => t = u
    /\ \A t \in Txns : Granting(t) => Free(request_queue[call[t].rid], call[t].op, t)

\* A thread sleeps only while what it waits for is not there.
SleepersBlocked ==
    \A t \in Txns :
        call[t] # NoCall /\ call[t].at = "asleep" =>
            ~Free(request_queue[call[t].rid], call[t].op, t)

\* Every lock in a lock set is backed by a granted request, and every call has the
\* request it is waiting for.
LocksBacked ==
    \A t \in Txns, r \in Rids :
        /\ r \in shared_lock_set[t] => HeldAny(request_queue[r], t)
        /\ r \in exclusive_lock_set[t] => Held(request_queue[r], t, "EXCLUSIVE")

CallsQueued ==
    \A t \in Txns :
        call[t] # NoCall => Wanted(request_queue[call[t].rid], t, call[t].op)

\* A thread inside a lock call drives a growing transaction that is not ending.
CallsRunning ==
    \A t \in Txns :
        /\ call[t] # NoCall => state[t] = "GROWING" /\ ending[t].phase = "no"
        /\ ending[t].phase # "no" => state[t] \in {"COMMITTED", "ABORTED"}
        /\ ending[t].left # {} => ending[t].phase # "no"

LockInv ==
    /\ TypeOK
    /\ OneGranting
    /\ LocksBacked
    /\ CallsQueued
    /\ CallsRunning
    /\ SingleUpgrader
    /\ SleepersBlocked
-----------------------------------------------------------------------------
(* What a change of a queue does to what is held and wanted in it. *)

\* Grant's search finds the wanted request.
LEMMA WantedIsFound ==
    ASSUME NEW q \in Seq(Request), NEW t, NEW op, Wanted(q, t, op)
    PROVE  /\ GrantedIndex(q, t, op) \in 1 .. Len(q)
           /\ q[GrantedIndex(q, t, op)].txn = t
           /\ op = "LockShared" => q[GrantedIndex(q, t, op)].mode = "SHARED"
           /\ op \in {"LockExclusive", "LockUpgrade"} =>
                q[GrantedIndex(q, t, op)].mode = "EXCLUSIVE"
  <1> DEFINE k == GrantedIndex(q, t, op)
  <1>1. PICK i \in 1 .. Len(q) :
           /\ Matches(q[i], t, op)
           /\ op = "LockUpgrade" => q[i].mode = "EXCLUSIVE"
           /\ \A j \in 1 .. i - 1 : ~Matches(q[j], t, op)
    BY DEF Wanted
  <1>2. /\ k \in 0 .. Len(q)
        /\ k = 0 => \A j \in 1 .. Len(q) : ~Matches(q[j], t, op)
        /\ k # 0 => Matches(q[k], t, op) /\ \A j \in 1 .. k - 1 : ~Matches(q[j], t, op)
    BY GrantedIndexProperties
  <1> HIDE DEF k
  <1>3. k # 0 /\ k \in 1 .. Len(q)
    BY <1>1, <1>2
  <1>4. ~(k < i) /\ ~(i < k)
    <2>1. k < i => k \in 1 .. i - 1
      BY <1>3
    <2>2. i < k => i \in 1 .. k - 1
      BY <1>3
    <2> QED  BY <1>1, <1>2, <1>3, <2>1, <2>2
  <1>5. k = i
    BY <1>3, <1>4
  <1> QED  BY <1>1, <1>3, <1>5 DEF Matches, k

\* A new request is not granted: nothing changes for those who hold or want something.
LEMMA AppendKeeps ==
    ASSUME NEW q \in Seq(Request), NEW e \in Request, ~e.granted
    PROVE  /\ Append(q, e) \in Seq(Request)
           /\ \A u : HeldAny(Append(q, e), u) <=> HeldAny(q, u)
           /\ \A u, m : Held(Append(q, e), u, m) <=> Held(q, u, m)
           /\ \A u, op : Wanted(q, u, op) => Wanted(Append(q, e), u, op)
           /\ \A op : Matches(e, e.txn, op) /\ op # "LockUpgrade" =>
                         Wanted(Append(q, e), e.txn, op)
  <1> DEFINE p == Append(q, e)
  <1>1. p \in Seq(Request) /\ Len(p) = Len(q) + 1 /\ Len(q) \in Nat /\ p[Len(q) + 1] = e
        /\ \A i \in 1 .. Len(q) : p[i] = q[i]
    OBVIOUS
  <1> HIDE DEF p
  <1>2. \A i \in 1 .. Len(p) : i \in 1 .. Len(q) \/ i = Len(q) + 1
    BY <1>1
  <1>3. \A i \in 1 .. Len(q) : i \in 1 .. Len(p)
    BY <1>1
  <1>4. \A u : HeldAny(p, u) <=> HeldAny(q, u)
    BY <1>1, <1>2, <1>3 DEF HeldAny
  <1>5. \A u, m : Held(p, u, m) <=> Held(q, u, m)
    BY <1>1, <1>2, <1>3 DEF Held
  <1>6. \A u, op : Wanted(q, u, op) => Wanted(p, u, op)
    <2> SUFFICES ASSUME NEW u, NEW op, Wanted(q, u, op) PROVE Wanted(p, u, op)
      OBVIOUS
    <2>1. PICK i \in 1 .. Len(q) :
             /\ Matches(q[i], u, op)
             /\ op = "LockUpgrade" => q[i].mode = "EXCLUSIVE"
             /\ \A j \in 1 .. i - 1 : ~Matches(q[j], u, op)
      BY DEF Wanted
    <2>2. \A j \in 1 .. i - 1 : j \in 1 .. Len(q)
      BY <1>1
    <2> QED  BY <1>1, <1>3, <2>1, <2>2 DEF Wanted
  <1>7. \A op : Matches(e, e.txn, op) /\ op # "LockUpgrade" => Wanted(p, e.txn, op)
    <2> SUFFICES ASSUME NEW op, Matches(e, e.txn, op), op # "LockUpgrade"
                 PROVE  Wanted(p, e.txn, op)
      OBVIOUS
    <2> DEFINE k == GrantedIndex(p, e.txn, op)
    <2>1. /\ k \in 0 .. Len(p)
          /\ k = 0 => \A j \in 1 .. Len(p) : ~Matches(p[j], e.txn, op)
          /\ k # 0 => Matches(p[k], e.txn, op)
                      /\ \A j \in 1 .. k - 1 : ~Matches(p[j], e.txn, op)
      BY <1>1, GrantedIndexProperties
    <2> HIDE DEF k
    <2>2. Len(q) + 1 \in 1 .. Len(p)
      BY <1>1
    <2>3. k # 0
      BY <1>1, <2>1, <2>2
    <2>4. k \in 1 .. Len(p)
      BY <1>1, <2>1, <2>3
    <2> QED  BY <2>1, <2>3, <2>4 DEF Wanted
  <1> QED  BY <1>1, <1>4, <1>5, <1>6, <1>7 DEF p

\* Without a request of t, everyone else's are as they were.
LEMMA RemoveKeepsOthers ==
    ASSUME NEW q \in Seq(Request), NEW k \in 1 .. Len(q), NEW u, u # q[k].txn
    PROVE  /\ HeldAny(RemoveAt(q, k), u) <=> HeldAny(q, u)
           /\ \A m : Held(RemoveAt(q, k), u, m) <=> Held(q, u, m)
           /\ \A op : Wanted(q, u, op) => Wanted(RemoveAt(q, k), u, op)
  <1> DEFINE p == RemoveAt(q, k)
             From(i) == IF i < k THEN i ELSE i + 1
             To(i) == IF i < k THEN i ELSE i - 1
  <1>1. /\ Len(p) = Len(q) - 1 /\ Len(q) \in Nat
        /\ \A j \in 1 .. Len(q) - 1 : p[j] = IF j < k THEN q[j] ELSE q[j + 1]
    BY RemoveAtProperties
  <1> HIDE DEF p
  <1>2. \A i \in 1 .. Len(p) : From(i) \in 1 .. Len(q) /\ p[i] = q[From(i)]
    BY <1>1
  <1>3. \A i \in 1 .. Len(q) : q[i].txn = u => To(i) \in 1 .. Len(p) /\ p[To(i)] = q[i]
    <2> SUFFICES ASSUME NEW i \in 1 .. Len(q), q[i].txn = u
                 PROVE  To(i) \in 1 .. Len(p) /\ p[To(i)] = q[i]
      OBVIOUS
    <2>1. i # k
      OBVIOUS
    <2>2. CASE i < k
      BY <1>1, <2>2
    <2>3. CASE i > k
      <3>1. i - 1 \in 1 .. Len(q) - 1 /\ ~(i - 1 < k) /\ i - 1 + 1 = i /\ ~(i < k)
        BY <1>1, <2>3
      <3> QED  BY <1>1, <3>1
    <2> QED  BY <2>1, <2>2, <2>3
  <1>4. HeldAny(p, u) <=> HeldAny(q, u)
    <2> HIDE DEF From, To
    <2> QED  BY <1>2, <1>3 DEF HeldAny
  <1>5. \A m : Held(p, u, m) <=> Held(q, u, m)
    <2> HIDE DEF From, To
    <2> QED  BY <1>2, <1>3 DEF Held
  <1>6. \A op : Wanted(q, u, op) => Wanted(p, u, op)
    <2> SUFFICES ASSUME NEW op, Wanted(q, u, op) PROVE Wanted(p, u, op)
      OBVIOUS
    <2>1. PICK i \in 1 .. Len(q) :
             /\ Matches(q[i], u, op)
             /\ op = "LockUpgrade" => q[i].mode = "EXCLUSIVE"
             /\ \A j \in 1 .. i - 1 : ~Matches(q[j], u, op)
      BY DEF Wanted
    <2>2. To(i) \in 1 .. Len(p) /\ p[To(i)] = q[i]
      BY <1>3, <2>1 DEF Matches
    <2>3. ASSUME NEW j \in 1 .. To(i) - 1 PROVE ~Matches(p[j], u, op)
      <3>1. j \in 1 .. Len(p) /\ From(j) \in 1 .. i - 1
        BY <1>1, <2>2
      <3> QED  BY <1>2, <2>1, <3>1
    <2> HIDE DEF To, From
    <2> QED  BY <2>1, <2>2, <2>3 DEF Wanted
  <1> QED  BY <1>4, <1>5, <1>6 DEF p

\* One request of t is changed: everyone else's are as they were.
LEMMA ChangeKeepsOthers ==
    ASSUME NEW q \in Seq(Request), NEW p \in Seq(Request), Len(p) = Len(q),
           NEW k \in 1 .. Len(q), p[k].txn = q[k].txn,
           \A i \in 1 .. Len(q) : i # k => p[i] = q[i],
           NEW u, u # q[k].txn
    PROVE  /\ HeldAny(p, u) <=> HeldAny(q, u)
           /\ \A m : Held(p, u, m) <=> Held(q, u, m)
           /\ \A op : Wanted(q, u, op) => Wanted(p, u, op)
  <1>1. \A i \in 1 .. Len(q) : q[i].txn = u \/ p[i].txn = u => p[i] = q[i]
    OBVIOUS
  <1>2. HeldAny(p, u) <=> HeldAny(q, u)
    BY <1>1 DEF HeldAny
  <1>3. \A m : Held(p, u, m) <=> Held(q, u, m)
    BY <1>1 DEF Held
  <1>4. \A op : Wanted(q, u, op) => Wanted(p, u, op)
    <2> SUFFICES ASSUME NEW op, Wanted(q, u, op) PROVE Wanted(p, u, op)
      OBVIOUS
    <2>1. PICK i \in 1 .. Len(q) :
             /\ Matches(q[i], u, op)
             /\ op = "LockUpgrade" => q[i].mode = "EXCLUSIVE"
             /\ \A j \in 1 .. i - 1 : ~Matches(q[j], u, op)
      BY DEF Wanted
    <2>2. p[i] = q[i]
      BY <1>1, <2>1 DEF Matches
    <2>3. ASSUME NEW j \in 1 .. i - 1 PROVE ~Matches(p[j], u, op)
      <3>1. j \in 1 .. Len(q)
        OBVIOUS
      <3> QED  BY <1>1, <2>1, <3>1 DEF Matches
    <2> QED  BY <2>1, <2>2, <2>3 DEF Wanted
  <1> QED  BY <1>2, <1>3, <1>4

\* The two fields of a request that change.
LEMMA RequestFields ==
    ASSUME NEW e \in Request
    PROVE  /\ [e EXCEPT !.mode = "EXCLUSIVE"] \in Request
           /\ [e EXCEPT !.mode = "EXCLUSIVE"].txn = e.txn
           /\ [e EXCEPT !.mode = "EXCLUSIVE"].granted = e.granted
           /\ [e EXCEPT !.mode = "EXCLUSIVE"].mode = "EXCLUSIVE"
           /\ [e EXCEPT !.granted = TRUE] \in Request
           /\ [e EXCEPT !.granted = TRUE].txn = e.txn
           /\ [e EXCEPT !.granted = TRUE].mode = e.mode
           /\ [e EXCEPT !.granted = TRUE].granted
  BY DEF Request, Modes

\* LockUpgrade's change: t's first shared request says exclusive.
LEMMA UpgradeChange ==
    ASSUME NEW q \in Seq(Request), NEW t, NEW k, k = SharedRequestOf(q, t), k # 0
    PROVE  LET p == [q EXCEPT ![k].mode = "EXCLUSIVE"]
           IN  /\ p \in Seq(Request)
               /\ \A u : HeldAny(p, u) <=> HeldAny(q, u)
               /\ \A u : Held(q, u, "EXCLUSIVE") => Held(p, u, "EXCLUSIVE")
               /\ \A u, m : u # t => (Held(p, u, m) <=> Held(q, u, m))
               /\ \A u, op : u # t /\ Wanted(q, u, op) => Wanted(p, u, op)
               /\ Wanted(p, t, "LockUpgrade")
  <1> DEFINE p == [q EXCEPT ![k].mode = "EXCLUSIVE"]
  <1>1. /\ k \in 1 .. Len(q) /\ q[k].txn = t /\ q[k].mode = "SHARED"
        /\ \A j \in 1 .. k - 1 : ~(q[j].txn = t /\ q[j].mode = "SHARED")
    BY SharedRequestOfProperties
  <1>0. k \in 1 .. Len(q) /\ q[k] \in Request
    BY <1>1
  <1>2. /\ Len(p) = Len(q)
        /\ \A i \in 1 .. Len(q) : p[i] = IF i = k THEN [q[i] EXCEPT !.mode = "EXCLUSIVE"]
                                         ELSE q[i]
    BY <1>1
  <1>3. [q[k] EXCEPT !.mode = "EXCLUSIVE"] \in Request
    BY <1>0, RequestFields
  <1>4. p \in Seq(Request)
    <2>1. \A i \in 1 .. Len(q) : p[i] \in Request
      BY <1>2, <1>3
    <2> QED  BY <1>1, <1>3
  <1> HIDE DEF p
  <1>5. p[k].txn = t /\ p[k].granted = q[k].granted /\ p[k].mode = "EXCLUSIVE"
    <2>1. p[k] = [q[k] EXCEPT !.mode = "EXCLUSIVE"]
      BY <1>0, <1>2
    <2> QED  BY <1>0, <1>1, <2>1, RequestFields
  <1>6. \A i \in 1 .. Len(q) : p[i].txn = q[i].txn /\ p[i].granted = q[i].granted
                               /\ (i # k => p[i] = q[i])
    BY <1>1, <1>2, <1>5
  <1>7. \A u : HeldAny(p, u) <=> HeldAny(q, u)
    BY <1>2, <1>6 DEF HeldAny
  <1>8. \A u : Held(q, u, "EXCLUSIVE") => Held(p, u, "EXCLUSIVE")
    BY <1>1, <1>2, <1>5, <1>6 DEF Held
  <1>9. \A u : u # t => /\ \A m : Held(p, u, m) <=> Held(q, u, m)
                        /\ \A op : Wanted(q, u, op) => Wanted(p, u, op)
    <2> SUFFICES ASSUME NEW u, u # t
                 PROVE  /\ \A m : Held(p, u, m) <=> Held(q, u, m)
                        /\ \A op : Wanted(q, u, op) => Wanted(p, u, op)
      OBVIOUS
    <2>1. u # q[k].txn /\ p[k].txn = q[k].txn
      BY <1>1, <1>5
    <2>2. \A i \in 1 .. Len(q) : i # k => p[i] = q[i]
      BY <1>6
    <2>3. Len(p) = Len(q)
      BY <1>2
    <2> QED  BY <1>0, <1>4, <2>1, <2>2, <2>3, ChangeKeepsOthers
  <1>10. Wanted(p, t, "LockUpgrade")
    <2> DEFINE i == GrantedIndex(p, t, "LockUpgrade")
    <2>1. /\ i \in 0 .. Len(p)
          /\ i = 0 => \A j \in 1 .. Len(p) : ~Matches(p[j], t, "LockUpgrade")
          /\ i # 0 => /\ Matches(p[i], t, "LockUpgrade")
                      /\ \A j \in 1 .. i - 1 : ~Matches(p[j], t, "LockUpgrade")
      BY <1>4, GrantedIndexProperties
    <2> HIDE DEF i
    <2>2. Matches(p[k], t, "LockUpgrade")
      BY <1>5 DEF Matches
    <2>3. i \in 1 .. Len(p) /\ ~(k < i)
      BY <1>1, <1>2, <2>1, <2>2
    <2>4. p[i].txn = t
      BY <2>1, <2>3 DEF Matches
    <2>5. p[i].mode = "EXCLUSIVE"
      <3>1. CASE i = k
        BY <1>5, <3>1
      <3>2. CASE i < k
        <4>1. i \in 1 .. k - 1 /\ i \in 1 .. Len(q) /\ p[i] = q[i]
          BY <1>1, <1>2, <1>6, <2>3, <3>2
        <4>2. p[i] \in Request
          BY <1>4, <2>3
        <4> QED  BY <1>1, <2>4, <4>1, <4>2 DEF Request, Modes
      <3> QED  BY <1>1, <2>3, <3>1, <3>2
    <2> QED  BY <2>1, <2>3, <2>5 DEF Wanted
  <1> QED  BY <1>4, <1>7, <1>8, <1>9, <1>10 DEF p

\* Grant's change: the wanted request of t is granted, in the mode of the call.
LEMMA GrantChange ==
    ASSUME NEW q \in Seq(Request), NEW t,
           NEW op \in {"LockShared", "LockExclusive", "LockUpgrade"}, Wanted(q, t, op),
           NEW p \in Seq(Request), Len(p) = Len(q),
           \A i \in 1 .. Len(q) :
              /\ p[i].txn = q[i].txn /\ p[i].mode = q[i].mode
              /\ p[i].granted <=> (q[i].granted \/ i = GrantedIndex(q, t, op))
              /\ i # GrantedIndex(q, t, op) => p[i] = q[i]
    PROVE  /\ \A u : HeldAny(q, u) => HeldAny(p, u)
           /\ \A u, m : Held(q, u, m) => Held(p, u, m)
           /\ \A u, o : u # t /\ Wanted(q, u, o) => Wanted(p, u, o)
           /\ HeldAny(p, t)
           /\ op # "LockShared" => Held(p, t, "EXCLUSIVE")
  <1> DEFINE k == GrantedIndex(q, t, op)
  <1>1. /\ k \in 1 .. Len(q) /\ q[k].txn = t
        /\ op # "LockShared" => q[k].mode = "EXCLUSIVE"
    BY WantedIsFound
  <1>2. \A i \in 1 .. Len(q) :
          /\ p[i].txn = q[i].txn /\ p[i].mode = q[i].mode
          /\ p[i].granted <=> (q[i].granted \/ i = k)
          /\ i # k => p[i] = q[i]
    OBVIOUS
  <1> HIDE DEF k
  <1>3. \A u : HeldAny(q, u) => HeldAny(p, u)
    BY <1>2 DEF HeldAny
  <1>4. \A u, m : Held(q, u, m) => Held(p, u, m)
    BY <1>2 DEF Held
  <1>5. ASSUME NEW u, u # t, NEW o, Wanted(q, u, o) PROVE Wanted(p, u, o)
    <2>1. p[k].txn = q[k].txn /\ u # q[k].txn /\ k \in 1 .. Len(q)
      BY <1>1, <1>2, <1>5
    <2>2. \A i \in 1 .. Len(q) : i # k => p[i] = q[i]
      BY <1>2
    <2> QED  BY <1>5, <2>1, <2>2, ChangeKeepsOthers
  <1>6. HeldAny(p, t) /\ (op # "LockShared" => Held(p, t, "EXCLUSIVE"))
    <2>1. p[k].txn = t /\ p[k].granted /\ p[k].mode = q[k].mode /\ k \in 1 .. Len(p)
      BY <1>1, <1>2
    <2> QED  BY <1>1, <2>1 DEF HeldAny, Held
  <1> QED  BY <1>3, <1>4, <1>5, <1>6

-----------------------------------------------------------------------------
(* The steps. *)

LEMMA QueueFree ==
    ASSUME NEW q \in Seq(Request), NEW t
    PROVE  /\ (\A i \in DOMAIN q : ~(q[i].granted /\ q[i].mode = "EXCLUSIVE")) <=>
                (\A u \in Txns : ~Held(q, u, "EXCLUSIVE"))
           /\ (\A i \in DOMAIN q : ~(q[i].granted /\ q[i].txn # t)) <=>
                (\A u \in Txns : u # t => ~HeldAny(q, u))
  <1>1. DOMAIN q = 1 .. Len(q) /\ \A i \in 1 .. Len(q) : q[i].txn \in Txns
    <2>1. \A i \in 1 .. Len(q) : q[i] \in Request
      OBVIOUS
    <2> QED  BY <2>1 DEF Request
  <1>2. (\A i \in DOMAIN q : ~(q[i].granted /\ q[i].mode = "EXCLUSIVE")) <=>
          (\A u \in Txns : ~Held(q, u, "EXCLUSIVE"))
    BY <1>1 DEF Held
  <1>3. (\A i \in DOMAIN q : ~(q[i].granted /\ q[i].txn # t)) <=>
          (\A u \in Txns : u # t => ~HeldAny(q, u))
    BY <1>1 DEF HeldAny
  <1> QED  BY <1>2, <1>3

LEMMA CompatibleIsFree ==
    ASSUME TypeOK, NEW r \in Rids, NEW t, NEW op
    PROVE  Compatible(op, t, r) <=> Free(request_queue[r], op, t)
  <1>1. request_queue[r] \in Seq(Request)
    BY DEF TypeOK
  <1> QED  BY <1>1, QueueFree DEF Compatible, NoExclusiveGranted, NoOtherGranted, Free

LEMMA CallFields ==
    ASSUME TypeOK, NEW t \in Txns, call[t] # NoCall
    PROVE  call[t] \in Call /\ call[t].rid \in Rids
           /\ call[t].op \in {"LockShared", "LockExclusive", "LockUpgrade"}
           /\ call[t].at \in {"asleep", "awake", "granting"}
  BY DEF TypeOK, Call

LEMMA InitLockInv == Init => LockInv
  <1> SUFFICES ASSUME Init PROVE LockInv
    OBVIOUS
  <1> USE DEF Init
  <1>1. TypeOK
    <2>1. NotEnding \in Ending
      BY DEF Ending, NotEnding
    <2>2. << >> \in Seq(Request)
      OBVIOUS
    <2> QED  BY <2>1, <2>2 DEF TypeOK, States
  <1>2. OneGranting /\ LocksBacked /\ CallsQueued /\ SleepersBlocked
    BY DEF OneGranting, Granting, LocksBacked, CallsQueued, SleepersBlocked
  <1>3. CallsRunning
    BY DEF CallsRunning, NotEnding
  <1>4. SingleUpgrader
    BY DEF SingleUpgrader, Upgrading
  <1> QED  BY <1>1, <1>2, <1>3, <1>4 DEF LockInv

\* LockShared and LockExclusive from their first line to the wait, or past it.
LEMMA EnqueueInv ==
    ASSUME LockInv, NEW t \in Txns, NEW r \in Rids, MayCall(t), state[t] = "GROWING",
           NEW op \in {"LockShared", "LockExclusive"},
           NEW mode \in Modes, op = "LockShared" <=> mode = "SHARED",
           Enqueue(t, r, mode), StartCall(t, op, r),
           UNCHANGED <<state, sets, upgrading, ending, crashed>>
    PROVE  LockInv'
  <1> DEFINE e == [txn |-> t, mode |-> mode, granted |-> FALSE]
             q == request_queue[r]
             c == [op |-> op, rid |-> r,
                   at |-> IF Compatible(op, t, r) THEN "granting" ELSE "asleep"]
  <1> USE DEF LockInv
  <1>1. e \in Request /\ ~e.granted /\ e.txn = t /\ Matches(e, t, op) /\ op # "LockUpgrade"
    BY DEF Request, Modes, Matches
  <1>2. q \in Seq(Request)
    BY DEF TypeOK
  <1>3. request_queue' = [request_queue EXCEPT ![r] = Append(q, e)]
    BY DEF Enqueue
  <1>4. c \in Call /\ c # NoCall /\ c.op = op /\ c.rid = r /\ c.at # "awake"
        /\ (c.at = "granting" <=> Compatible(op, t, r))
        /\ (c.at = "asleep" <=> ~Compatible(op, t, r))
    BY NoCallAssumption DEF Call
  <1>5. call' = [call EXCEPT ![t] = c]
    BY DEF StartCall
  <1>6. call[t] = NoCall /\ ending[t].phase = "no" /\ \A u \in Txns : ~Granting(u)
    BY DEF MayCall, LatchFree, Granting
  <1> HIDE DEF e, q, c
  <1>7. /\ Append(q, e) \in Seq(Request)
        /\ \A u : HeldAny(Append(q, e), u) <=> HeldAny(q, u)
        /\ \A u, m : Held(Append(q, e), u, m) <=> Held(q, u, m)
        /\ \A u, o : Wanted(q, u, o) => Wanted(Append(q, e), u, o)
        /\ Wanted(Append(q, e), t, op)
    BY <1>1, <1>2, AppendKeeps
  <1>8. /\ \A x \in Rids : \A u : HeldAny(request_queue'[x], u) <=> HeldAny(request_queue[x], u)
        /\ \A x \in Rids : \A u, m : Held(request_queue'[x], u, m) <=> Held(request_queue[x], u, m)
        /\ \A x \in Rids : \A u, o : Wanted(request_queue[x], u, o) => Wanted(request_queue'[x], u, o)
        /\ Wanted(request_queue'[r], t, op)
    BY <1>3, <1>7 DEF TypeOK, q
  <1>9. TypeOK'
    BY <1>3, <1>4, <1>5, <1>7 DEF TypeOK, sets
  <1>10. \A x \in Rids : \A u, o : Free(request_queue'[x], o, u) <=> Free(request_queue[x], o, u)
    BY <1>8 DEF Free
  <1>11. \A u \in Txns : u # t => call'[u] = call[u]
    BY <1>5 DEF TypeOK
  <1>12. call'[t] = c /\ (Compatible(op, t, r) <=> Free(request_queue'[r], op, t))
    BY <1>5, <1>10, CompatibleIsFree DEF TypeOK
  <1>13. OneGranting'
    BY <1>4, <1>6, <1>10, <1>11, <1>12 DEF OneGranting, Granting
  <1>14. SleepersBlocked'
    <2> SUFFICES ASSUME NEW u \in Txns, call'[u] # NoCall, call'[u].at = "asleep"
                 PROVE  ~Free(request_queue'[call'[u].rid], call'[u].op, u)
      BY DEF SleepersBlocked
    <2>1. CASE u = t
      BY <1>4, <1>12, <2>1
    <2>2. CASE u # t
      BY <1>10, <1>11, <2>2, CallFields DEF SleepersBlocked
    <2> QED  BY <2>1, <2>2
  <1>15. LocksBacked'
    BY <1>8 DEF LocksBacked, sets
  <1>16. CallsQueued'
    <2> SUFFICES ASSUME NEW u \in Txns, call'[u] # NoCall
                 PROVE  Wanted(request_queue'[call'[u].rid], u, call'[u].op)
      BY DEF CallsQueued
    <2>1. CASE u = t
      BY <1>4, <1>8, <1>12, <2>1
    <2>2. CASE u # t
      BY <1>8, <1>11, <2>2, CallFields DEF CallsQueued
    <2> QED  BY <2>1, <2>2
  <1>17. CallsRunning'
    BY <1>6, <1>11 DEF CallsRunning
  <1>18. \A u \in Txns, x \in Rids : Upgrading(u, x)' <=> Upgrading(u, x)
    BY <1>1, <1>4, <1>6, <1>11, <1>12 DEF Upgrading
  <1>19. SingleUpgrader'
    BY <1>18 DEF SingleUpgrader
  <1> QED  BY <1>9, <1>13, <1>14, <1>15, <1>16, <1>17, <1>19

\* LockUpgrade likewise: the request it found says exclusive from now on.
LEMMA LockUpgradeInv ==
    ASSUME LockInv, NEW t \in Txns, NEW r \in Rids, LockUpgrade(t, r)
    PROVE  LockInv'
  <1> DEFINE q == request_queue[r]
             k == SharedRequestOf(q, t)
             p == [q EXCEPT ![k].mode = "EXCLUSIVE"]
             c == [op |-> "LockUpgrade", rid |-> r,
                   at |-> IF Compatible("LockUpgrade", t, r) THEN "granting" ELSE "asleep"]
  <1> USE DEF LockInv
  <1>1. /\ MayCall(t) /\ state[t] = "GROWING" /\ ~upgrading[r] /\ k # 0
        /\ upgrading' = [upgrading EXCEPT ![r] = TRUE]
        /\ request_queue' = [request_queue EXCEPT ![r] = p]
        /\ call' = [call EXCEPT ![t] = c]
        /\ UNCHANGED <<state, sets, ending, crashed>>
    BY DEF LockUpgrade, StartCall
  <1>2. q \in Seq(Request)
    BY DEF TypeOK
  <1>3. c \in Call /\ c # NoCall /\ c.op = "LockUpgrade" /\ c.rid = r /\ c.at # "awake"
        /\ (c.at = "granting" <=> Compatible("LockUpgrade", t, r))
        /\ (c.at = "asleep" <=> ~Compatible("LockUpgrade", t, r))
    BY NoCallAssumption DEF Call
  <1>4. call[t] = NoCall /\ ending[t].phase = "no" /\ \A u \in Txns : ~Granting(u)
    BY <1>1 DEF MayCall, LatchFree, Granting
  <1>5. /\ p \in Seq(Request)
        /\ \A u : HeldAny(p, u) <=> HeldAny(q, u)
        /\ \A u : Held(q, u, "EXCLUSIVE") => Held(p, u, "EXCLUSIVE")
        /\ \A u, o : u # t /\ Wanted(q, u, o) => Wanted(p, u, o)
        /\ Wanted(p, t, "LockUpgrade")
    <2>1. k = SharedRequestOf(q, t) /\ k # 0
      BY <1>1
    <2> HIDE DEF q, k
    <2> QED  BY <1>2, <2>1, UpgradeChange
  <1> HIDE DEF q, k, p, c
  <1>6. /\ \A x \in Rids : \A u : HeldAny(request_queue'[x], u) <=> HeldAny(request_queue[x], u)
        /\ \A x \in Rids : \A u : Held(request_queue[x], u, "EXCLUSIVE") =>
                                Held(request_queue'[x], u, "EXCLUSIVE")
        /\ \A x \in Rids : \A u, o : u # t /\ Wanted(request_queue[x], u, o) =>
                                   Wanted(request_queue'[x], u, o)
        /\ Wanted(request_queue'[r], t, "LockUpgrade")
    BY <1>1, <1>5 DEF TypeOK, q
  <1>7. TypeOK'
    BY <1>1, <1>3, <1>5 DEF TypeOK, sets
  <1>8. \A x \in Rids : \A u, o : Free(request_queue'[x], o, u) => Free(request_queue[x], o, u)
    BY <1>6 DEF Free
  <1>9. \A u \in Txns : u # t => call'[u] = call[u]
    BY <1>1 DEF TypeOK
  <1>10. call'[t] = c
         /\ (Compatible("LockUpgrade", t, r) <=> Free(request_queue'[r], "LockUpgrade", t))
    <2>1. Free(request_queue'[r], "LockUpgrade", t) <=> Free(request_queue[r], "LockUpgrade", t)
      BY <1>6 DEF Free
    <2> QED  BY <1>1, <2>1, CompatibleIsFree DEF TypeOK
  <1>11. OneGranting'
    BY <1>3, <1>4, <1>9, <1>10 DEF OneGranting, Granting
  <1>12. SleepersBlocked'
    <2> SUFFICES ASSUME NEW u \in Txns, call'[u] # NoCall, call'[u].at = "asleep"
                 PROVE  ~Free(request_queue'[call'[u].rid], call'[u].op, u)
      BY DEF SleepersBlocked
    <2>1. CASE u = t
      BY <1>3, <1>10, <2>1
    <2>2. CASE u # t
      BY <1>8, <1>9, <2>2, CallFields DEF SleepersBlocked
    <2> QED  BY <2>1, <2>2
  <1>13. LocksBacked'
    BY <1>1, <1>6 DEF LocksBacked, sets
  <1>14. CallsQueued'
    <2> SUFFICES ASSUME NEW u \in Txns, call'[u] # NoCall
                 PROVE  Wanted(request_queue'[call'[u].rid], u, call'[u].op)
      BY DEF CallsQueued
    <2>1. CASE u = t
      BY <1>3, <1>6, <1>10, <2>1
    <2>2. CASE u # t
      BY <1>6, <1>9, <2>2, CallFields DEF CallsQueued
    <2> QED  BY <2>1, <2>2
  <1>15. CallsRunning'
    BY <1>1, <1>4, <1>9 DEF CallsRunning
  <1>16. SingleUpgrader'
    <2>1. \A u \in Txns, x \in Rids : Upgrading(u, x)' <=> Upgrading(u, x) \/ (u = t /\ x = r)
      BY <1>3, <1>4, <1>9, <1>10 DEF Upgrading
    <2>2. \A u \in Txns : ~Upgrading(u, r)
      BY <1>1 DEF SingleUpgrader
    <2>3. \A x \in Rids : upgrading'[x] <=> upgrading[x] \/ x = r
      BY <1>1 DEF TypeOK
    <2> QED  BY <2>1, <2>2, <2>3 DEF SingleUpgrader
  <1> QED  BY <1>7, <1>11, <1>12, <1>13, <1>14, <1>15, <1>16

\* The end of a lock call: the request is marked and the lock sets follow.
LEMMA GrantInv ==
    ASSUME LockInv, NEW t \in Txns, Grant(t)
    PROVE  /\ LockInv'
           /\ \A u \in Txns : u # t =>
                /\ call[t].op = "LockShared" => call[t].rid \notin exclusive_lock_set[u]
                /\ call[t].op # "LockShared" =>
                     call[t].rid \notin shared_lock_set[u] \cup exclusive_lock_set[u]
  <1> DEFINE op == call[t].op
             r == call[t].rid
             q == request_queue[r]
             k == GrantedIndex(q, t, op)
             e == [q[k] EXCEPT !.granted = TRUE]
             p == [q EXCEPT ![k] = e]
  <1> USE DEF LockInv
  <1>1. /\ call[t] # NoCall /\ call[t].at = "granting"
        /\ request_queue' = IF k = 0 THEN request_queue
                            ELSE [request_queue EXCEPT ![r] = p]
        /\ upgrading' = IF op = "LockUpgrade" THEN [upgrading EXCEPT ![r] = FALSE]
                        ELSE upgrading
        /\ shared_lock_set' = [shared_lock_set EXCEPT ![t] =
                                 CASE op = "LockShared" -> @ \cup {r}
                                   [] op = "LockExclusive" -> @
                                   [] op = "LockUpgrade" -> @ \ {r}]
        /\ exclusive_lock_set' = IF op = "LockShared" THEN exclusive_lock_set
                                 ELSE [exclusive_lock_set EXCEPT ![t] = @ \cup {r}]
        /\ call' = [call EXCEPT ![t] = NoCall]
        /\ UNCHANGED <<state, ending, crashed>>
    BY DEF Grant
  <1>2. r \in Rids /\ op \in {"LockShared", "LockExclusive", "LockUpgrade"}
    BY <1>1, CallFields
  <1>3. q \in Seq(Request) /\ Wanted(q, t, op)
    BY <1>1, <1>2 DEF TypeOK, CallsQueued
  <1>4. /\ k # 0
        /\ p \in Seq(Request)
        /\ \A u : HeldAny(q, u) => HeldAny(p, u)
        /\ \A u, m : Held(q, u, m) => Held(p, u, m)
        /\ \A u, o : u # t /\ Wanted(q, u, o) => Wanted(p, u, o)
        /\ HeldAny(p, t)
        /\ op # "LockShared" => Held(p, t, "EXCLUSIVE")
    <2>1. k \in 1 .. Len(q)
      BY <1>2, <1>3, WantedIsFound
    <2>2. q[k] \in Request
      BY <1>3, <2>1
    <2>3. e \in Request /\ e.txn = q[k].txn /\ e.mode = q[k].mode /\ e.granted
      BY <2>2, RequestFields
    <2> HIDE DEF q, k, op, e
    <2>4. p \in Seq(Request) /\ Len(p) = Len(q)
          /\ \A i \in 1 .. Len(q) : p[i] = IF i = k THEN e ELSE q[i]
      BY <1>3, <2>1, <2>3
    <2> HIDE DEF p
    <2>5. \A i \in 1 .. Len(q) :
            /\ p[i].txn = q[i].txn /\ p[i].mode = q[i].mode
            /\ p[i].granted <=> (q[i].granted \/ i = k)
            /\ i # k => p[i] = q[i]
      BY <2>1, <2>3, <2>4
    <2>6. k # 0
      BY <2>1
    <2> QED  BY <1>2, <1>3, <2>4, <2>5, <2>6, GrantChange DEF k
  <1>5. Free(q, op, t)
    BY <1>1 DEF OneGranting, Granting
  <1> HIDE DEF op, r, q, k, p, e
  <1>6. /\ \A x \in Rids : \A u : HeldAny(request_queue[x], u) => HeldAny(request_queue'[x], u)
        /\ \A x \in Rids : \A u, m : Held(request_queue[x], u, m) => Held(request_queue'[x], u, m)
        /\ \A x \in Rids : \A u, o : u # t /\ Wanted(request_queue[x], u, o) =>
                                   Wanted(request_queue'[x], u, o)
        /\ HeldAny(request_queue'[r], t)
        /\ op # "LockShared" => Held(request_queue'[r], t, "EXCLUSIVE")
    BY <1>1, <1>2, <1>4 DEF TypeOK, q
  <1>7. /\ \A u \in Txns : u # t => shared_lock_set'[u] = shared_lock_set[u]
                                    /\ exclusive_lock_set'[u] = exclusive_lock_set[u]
        /\ \A x \in shared_lock_set'[t] : x \in shared_lock_set[t] \/ x = r
        /\ \A x \in exclusive_lock_set'[t] :
              x \in exclusive_lock_set[t] \/ (x = r /\ op # "LockShared")
        /\ shared_lock_set' \in [Txns -> SUBSET Rids]
        /\ exclusive_lock_set' \in [Txns -> SUBSET Rids]
    BY <1>1, <1>2 DEF TypeOK
  <1>8. TypeOK'
    BY <1>1, <1>2, <1>4, <1>7 DEF TypeOK
  <1>9. \A u \in Txns : u # t => call'[u] = call[u]
    BY <1>1 DEF TypeOK
  <1>10. call'[t] = NoCall
    BY <1>1 DEF TypeOK
  <1>11. OneGranting'
    <2>1. \A u \in Txns : u # t => ~Granting(u)
      BY <1>1 DEF OneGranting, Granting
    <2> QED  BY <1>9, <1>10, <2>1 DEF OneGranting, Granting
  <1>12. SleepersBlocked'
    <2>1. \A x \in Rids : \A u, o : Free(request_queue'[x], o, u) => Free(request_queue[x], o, u)
      BY <1>6 DEF Free
    <2> SUFFICES ASSUME NEW u \in Txns, call'[u] # NoCall, call'[u].at = "asleep"
                 PROVE  ~Free(request_queue'[call'[u].rid], call'[u].op, u)
      BY DEF SleepersBlocked
    <2>2. u # t /\ call'[u] = call[u]
      BY <1>9, <1>10
    <2> QED  BY <2>1, <2>2, CallFields DEF SleepersBlocked
  <1>13. LocksBacked'
    <2> SUFFICES ASSUME NEW u \in Txns, NEW x \in Rids
                 PROVE  /\ x \in shared_lock_set'[u] => HeldAny(request_queue'[x], u)
                        /\ x \in exclusive_lock_set'[u] =>
                             Held(request_queue'[x], u, "EXCLUSIVE")
      BY DEF LocksBacked
    <2>1. CASE u # t
      BY <1>6, <1>7, <2>1 DEF LocksBacked
    <2>2. CASE u = t
      BY <1>6, <1>7, <2>2 DEF LocksBacked
    <2> QED  BY <2>1, <2>2
  <1>14. CallsQueued'
    <2> SUFFICES ASSUME NEW u \in Txns, call'[u] # NoCall
                 PROVE  Wanted(request_queue'[call'[u].rid], u, call'[u].op)
      BY DEF CallsQueued
    <2>1. u # t /\ call'[u] = call[u]
      BY <1>9, <1>10
    <2> QED  BY <1>6, <2>1, CallFields DEF CallsQueued
  <1>15. CallsRunning'
    BY <1>1, <1>9, <1>10 DEF CallsRunning
  <1>16. SingleUpgrader'
    <2>1. \A u \in Txns, x \in Rids : Upgrading(u, x)' <=> Upgrading(u, x) /\ u # t
      BY <1>9, <1>10 DEF Upgrading
    <2>2. \A x \in Rids : Upgrading(t, x) <=> op = "LockUpgrade" /\ x = r
      BY <1>1 DEF Upgrading, op, r
    <2>3. \A x \in Rids : upgrading'[x] <=> upgrading[x] /\ ~(op = "LockUpgrade" /\ x = r)
      BY <1>1, <1>2 DEF TypeOK
    <2> QED  BY <2>1, <2>2, <2>3 DEF SingleUpgrader
  <1>17. \A u \in Txns : u # t =>
            /\ op = "LockShared" => r \notin exclusive_lock_set[u]
            /\ op # "LockShared" => r \notin shared_lock_set[u] \cup exclusive_lock_set[u]
    <2>1. \A u : Held(q, u, "EXCLUSIVE") => HeldAny(q, u)
      BY DEF Held, HeldAny
    <2> QED  BY <1>2, <1>5, <2>1 DEF LocksBacked, Free, q
  <1>18. LockInv'
    BY <1>8, <1>11, <1>12, <1>13, <1>14, <1>15, <1>16
  <1> QED  BY <1>17, <1>18 DEF op, r

\* A call that is notified, or that goes on or back to sleep, is the same call.
LEMMA CallMoves ==
    ASSUME NEW c \in Call, NEW at \in {"asleep", "awake", "granting"}
    PROVE  /\ [c EXCEPT !.at = at] \in Call /\ [c EXCEPT !.at = at] # NoCall
           /\ [c EXCEPT !.at = at].op = c.op /\ [c EXCEPT !.at = at].rid = c.rid
           /\ [c EXCEPT !.at = at].at = at
  BY NoCallAssumption DEF Call

\* Unlock, by the caller or by Commit and Abort: t's first request leaves the queue, r
\* leaves t's lock sets, and everyone who slept on r is woken.
LEMMA DoUnlockInv ==
    ASSUME LockInv, NEW t \in Txns, NEW r \in Rids, DoUnlock(t, r), LatchFree,
           call[t] = NoCall, UNCHANGED upgrading, crashed' \in BOOLEAN,
           ending' \in [Txns -> Ending],
           \A u \in Txns : /\ ending'[u].phase # "no" <=> ending[u].phase # "no"
                           /\ ending'[u].left # {} => ending[u].phase # "no"
    PROVE  LockInv'
  <1> DEFINE q == request_queue[r]
             k == RequestOf(q, t)
             p == RemoveAt(q, k)
  <1> USE DEF LockInv
  <1>1. /\ k # 0
        /\ request_queue' = [request_queue EXCEPT ![r] = p]
        /\ state' = [state EXCEPT ![t] = IF @ = "GROWING" THEN "SHRINKING" ELSE @]
        /\ shared_lock_set' = [shared_lock_set EXCEPT ![t] = @ \ {r}]
        /\ exclusive_lock_set' = [exclusive_lock_set EXCEPT ![t] = @ \ {r}]
        /\ call' = [u \in Txns |->
                      IF call[u] # NoCall /\ call[u].rid = r /\ call[u].at = "asleep"
                      THEN [call[u] EXCEPT !.at = "awake"] ELSE call[u]]
    BY DEF DoUnlock, NotifyAll
  <1>2. q \in Seq(Request)
    BY DEF TypeOK
  <1>3. k \in 1 .. Len(q) /\ q[k].txn = t
    BY <1>1, <1>2, RequestOfProperties
  <1> HIDE DEF q, k
  <1>4. p \in Seq(Request)
    BY <1>2, <1>3, RemoveAtProperties
  <1>5. \A u : u # t => /\ HeldAny(p, u) <=> HeldAny(q, u)
                        /\ \A m : Held(p, u, m) <=> Held(q, u, m)
                        /\ \A o : Wanted(q, u, o) => Wanted(p, u, o)
    BY <1>2, <1>3, RemoveKeepsOthers
  <1> HIDE DEF p
  <1>6. /\ request_queue'[r] = p /\ request_queue[r] = q
        /\ \A x \in Rids : x # r => request_queue'[x] = request_queue[x]
    BY <1>1 DEF TypeOK, q
  <1>7. \A x \in Rids : \A u : u # t =>
           /\ HeldAny(request_queue'[x], u) <=> HeldAny(request_queue[x], u)
           /\ \A m : Held(request_queue'[x], u, m) <=> Held(request_queue[x], u, m)
           /\ \A o : Wanted(request_queue[x], u, o) => Wanted(request_queue'[x], u, o)
    BY <1>5, <1>6
  <1>8. \A u \in Txns :
           /\ call'[u] # NoCall <=> call[u] # NoCall
           /\ call[u] # NoCall =>
                /\ call'[u] \in Call /\ call'[u].op = call[u].op /\ call'[u].rid = call[u].rid
                /\ call'[u].at \in {call[u].at, "awake"}
                /\ call[u].rid = r => call'[u].at # "asleep"
    <2> SUFFICES ASSUME NEW u \in Txns
                 PROVE  /\ call'[u] # NoCall <=> call[u] # NoCall
                        /\ call[u] # NoCall =>
                             /\ call'[u] \in Call /\ call'[u].op = call[u].op
                             /\ call'[u].rid = call[u].rid
                             /\ call'[u].at \in {call[u].at, "awake"}
                             /\ call[u].rid = r => call'[u].at # "asleep"
      OBVIOUS
    <2>1. CASE call[u] # NoCall /\ call[u].rid = r /\ call[u].at = "asleep"
      <3>1. call'[u] = [call[u] EXCEPT !.at = "awake"] /\ call[u] \in Call
        BY <1>1, <2>1 DEF TypeOK
      <3> DEFINE d == [call[u] EXCEPT !.at = "awake"]
      <3>2. d \in Call /\ d # NoCall /\ d.op = call[u].op /\ d.rid = call[u].rid
            /\ d.at = "awake"
        BY <3>1, CallMoves
      <3> HIDE DEF d
      <3>3. call'[u] = d
        BY <3>1 DEF d
      <3> QED  BY <2>1, <3>2, <3>3
    <2>2. CASE ~(call[u] # NoCall /\ call[u].rid = r /\ call[u].at = "asleep")
      <3>1. call'[u] = call[u] /\ (call[u] # NoCall => call[u] \in Call)
        BY <1>1, <2>2 DEF TypeOK
      <3> QED  BY <2>2, <3>1
    <2> QED  BY <2>1, <2>2
  <1>9. TypeOK'
    <2>1. call' \in [Txns -> Call \cup {NoCall}]
      BY <1>1, <1>8
    <2>2. request_queue' \in [Rids -> Seq(Request)]
      BY <1>1, <1>4 DEF TypeOK
    <2>3. state' \in [Txns -> States] /\ shared_lock_set' \in [Txns -> SUBSET Rids]
          /\ exclusive_lock_set' \in [Txns -> SUBSET Rids]
      BY <1>1 DEF TypeOK, States
    <2> QED  BY <2>1, <2>2, <2>3 DEF TypeOK
  <1>10. OneGranting'
    BY <1>8 DEF OneGranting, Granting, LatchFree
  <1>11. SleepersBlocked'
    <2> SUFFICES ASSUME NEW u \in Txns, call'[u] # NoCall, call'[u].at = "asleep"
                 PROVE  ~Free(request_queue'[call'[u].rid], call'[u].op, u)
      BY DEF SleepersBlocked
    <2>1. call[u] # NoCall /\ call[u].rid # r /\ call[u].at = "asleep"
          /\ call'[u].op = call[u].op /\ call'[u].rid = call[u].rid
      BY <1>8
    <2> QED  BY <1>6, <2>1, CallFields DEF SleepersBlocked
  <1>12. LocksBacked'
    <2> SUFFICES ASSUME NEW u \in Txns, NEW x \in Rids
                 PROVE  /\ x \in shared_lock_set'[u] => HeldAny(request_queue'[x], u)
                        /\ x \in exclusive_lock_set'[u] =>
                             Held(request_queue'[x], u, "EXCLUSIVE")
      BY DEF LocksBacked
    <2>1. CASE u # t
      BY <1>1, <1>7, <2>1 DEF LocksBacked, TypeOK
    <2>2. CASE u = t
      BY <1>1, <1>6, <2>2 DEF LocksBacked, TypeOK
    <2> QED  BY <2>1, <2>2
  <1>13. CallsQueued'
    <2> SUFFICES ASSUME NEW u \in Txns, call'[u] # NoCall
                 PROVE  Wanted(request_queue'[call'[u].rid], u, call'[u].op)
      BY DEF CallsQueued
    <2>1. u # t /\ call[u] # NoCall
          /\ call'[u].op = call[u].op /\ call'[u].rid = call[u].rid
      BY <1>8
    <2> QED  BY <1>7, <2>1, CallFields DEF CallsQueued
  <1>14. CallsRunning'
    BY <1>1, <1>8 DEF CallsRunning, TypeOK
  <1>15. SingleUpgrader'
    <2>1. \A u \in Txns, x \in Rids : Upgrading(u, x)' <=> Upgrading(u, x)
      BY <1>8 DEF Upgrading
    <2> QED  BY <2>1 DEF SingleUpgrader
  <1> QED  BY <1>9, <1>10, <1>11, <1>12, <1>13, <1>14, <1>15

LEMMA UnlockInv ==
    ASSUME LockInv, NEW t \in Txns, NEW r \in Rids, Unlock(t, r)
    PROVE  LockInv'
  <1>1. ending' = ending /\ crashed' = crashed /\ upgrading' = upgrading
        /\ DoUnlock(t, r) /\ LatchFree /\ call[t] = NoCall
    BY DEF Unlock
  <1>2. \A u \in Txns : /\ ending'[u].phase # "no" <=> ending[u].phase # "no"
                        /\ ending'[u].left # {} => ending[u].phase # "no"
    BY <1>1 DEF LockInv, CallsRunning
  <1>3. ending' \in [Txns -> Ending] /\ crashed' \in BOOLEAN
    BY <1>1 DEF LockInv, TypeOK
  <1> QED  BY <1>1, <1>2, <1>3, DoUnlockInv

LEMMA ReleaseNextInv ==
    ASSUME LockInv, NEW t \in Txns, NEW r \in Rids, ReleaseNext(t, r)
    PROVE  LockInv'
  <1> USE DEF LockInv
  <1>1. /\ LatchFree /\ r \in ending[t].left /\ DoUnlock(t, r) /\ UNCHANGED upgrading
        /\ \/ ending' = [ending EXCEPT ![t].left = @ \ {r}]
           \/ ending' = [ending EXCEPT ![t] = NextPhase(t)]
           \/ ending' = ending
        /\ crashed' \in BOOLEAN
    BY DEF ReleaseNext, TypeOK
  <1>2. ending[t].phase # "no" /\ call[t] = NoCall
    BY <1>1 DEF CallsRunning
  <1>3. NextPhase(t) \in Ending /\ NextPhase(t).phase # "no"
    BY DEF NextPhase, Ending, TypeOK
  <1>4. ending[t] \in Ending
    BY DEF TypeOK
  <1>5. [ending[t] EXCEPT !.left = @ \ {r}] \in Ending
        /\ [ending[t] EXCEPT !.left = @ \ {r}].phase = ending[t].phase
    BY <1>4 DEF Ending
  <1>6. ending'[t] \in Ending /\ ending'[t].phase # "no" /\ ending' \in [Txns -> Ending]
        /\ \A u \in Txns : u # t => ending'[u] = ending[u]
    <2>1. CASE ending' = [ending EXCEPT ![t].left = @ \ {r}]
      BY <1>2, <1>5, <2>1 DEF TypeOK
    <2>2. CASE ending' = [ending EXCEPT ![t] = NextPhase(t)]
      BY <1>3, <2>2 DEF TypeOK
    <2>3. CASE ending' = ending
      BY <1>2, <1>4, <2>3 DEF TypeOK
    <2> QED  BY <1>1, <2>1, <2>2, <2>3
  <1>7. \A u \in Txns : /\ ending'[u].phase # "no" <=> ending[u].phase # "no"
                        /\ ending'[u].left # {} => ending[u].phase # "no"
    BY <1>2, <1>6 DEF CallsRunning
  <1> QED  BY <1>1, <1>2, <1>6, <1>7, DoUnlockInv

\* The thread looks again, and goes on or back to sleep; its transaction cannot have
\* been aborted meanwhile.
LEMMA WakeInv ==
    ASSUME LockInv, NEW t \in Txns, Wake(t)
    PROVE  LockInv' /\ UNCHANGED <<state, sets>>
  <1> DEFINE op == call[t].op
             r == call[t].rid
             at == IF Compatible(op, t, r) THEN "granting" ELSE "asleep"
             c == [call[t] EXCEPT !.at = at]
  <1> USE DEF LockInv
  <1>1. LatchFree /\ call[t] # NoCall /\ state[t] # "ABORTED"
    BY DEF Wake, CallsRunning
  <1>2. call' = [call EXCEPT ![t] = c]
        /\ UNCHANGED <<state, sets, request_queue, upgrading, ending, crashed>>
    BY <1>1 DEF Wake
  <1>3. call[t] \in Call /\ r \in Rids
    BY <1>1, CallFields
  <1>4. c \in Call /\ c # NoCall /\ c.op = op /\ c.rid = r /\ c.at = at
    <2>1. at \in {"asleep", "awake", "granting"}
      OBVIOUS
    <2> HIDE DEF at
    <2> QED  BY <1>3, <2>1, CallMoves
  <1>5. (at = "granting" <=> Free(request_queue[r], op, t))
        /\ (at = "asleep" <=> ~Free(request_queue[r], op, t))
    BY <1>3, CompatibleIsFree
  <1> HIDE DEF op, r, at, c
  <1>6. call'[t] = c /\ \A u \in Txns : u # t => call'[u] = call[u] /\ ~Granting(u)
    BY <1>1, <1>2 DEF TypeOK, LatchFree, Granting
  <1>7. TypeOK'
    BY <1>2, <1>4 DEF TypeOK, sets
  <1>8. OneGranting'
    BY <1>2, <1>4, <1>5, <1>6 DEF OneGranting, Granting
  <1>9. SleepersBlocked'
    BY <1>2, <1>4, <1>5, <1>6 DEF SleepersBlocked
  <1>10. LocksBacked'
    BY <1>2 DEF LocksBacked, sets
  <1>11. CallsQueued'
    BY <1>1, <1>2, <1>4, <1>6 DEF CallsQueued, op, r
  <1>12. CallsRunning'
    BY <1>1, <1>2, <1>6 DEF CallsRunning
  <1>13. SingleUpgrader'
    <2>1. \A u \in Txns, x \in Rids : Upgrading(u, x)' <=> Upgrading(u, x)
      BY <1>1, <1>4, <1>6 DEF Upgrading, op, r
    <2> QED  BY <1>2, <2>1 DEF SingleUpgrader
  <1> QED  BY <1>2, <1>7, <1>8, <1>9, <1>10, <1>11, <1>12, <1>13

LEMMA SpuriousWakeInv ==
    ASSUME LockInv, NEW t \in Txns, SpuriousWake(t)
    PROVE  LockInv'
  <1> DEFINE c == [call[t] EXCEPT !.at = "awake"]
  <1> USE DEF LockInv
  <1>1. call[t] # NoCall /\ call[t].at = "asleep" /\ call' = [call EXCEPT ![t] = c]
        /\ UNCHANGED <<state, sets, request_queue, upgrading, ending, crashed>>
    BY DEF SpuriousWake
  <1>2. c \in Call /\ c # NoCall /\ c.op = call[t].op /\ c.rid = call[t].rid /\ c.at = "awake"
    BY <1>1, CallFields, CallMoves
  <1> HIDE DEF c
  <1>3. call'[t] = c /\ \A u \in Txns : u # t => call'[u] = call[u]
    BY <1>1 DEF TypeOK
  <1>4. TypeOK'
    BY <1>1, <1>2 DEF TypeOK, sets
  <1>5. OneGranting' /\ SleepersBlocked'
    BY <1>1, <1>2, <1>3 DEF OneGranting, Granting, SleepersBlocked
  <1>6. LocksBacked'
    BY <1>1 DEF LocksBacked, sets
  <1>7. CallsQueued'
    BY <1>1, <1>2, <1>3 DEF CallsQueued
  <1>8. CallsRunning'
    BY <1>1, <1>3 DEF CallsRunning
  <1>9. SingleUpgrader'
    <2>1. \A u \in Txns, x \in Rids : Upgrading(u, x)' <=> Upgrading(u, x)
      BY <1>1, <1>2, <1>3 DEF Upgrading
    <2> QED  BY <1>1, <2>1 DEF SingleUpgrader
  <1> QED  BY <1>4, <1>5, <1>6, <1>7, <1>8, <1>9

\* The transaction manager's steps: no queue and no call changes, and a lock set only
\* when it is cleared.
LEMMA OutsideInv ==
    ASSUME LockInv, NEW t \in Txns, call[t] = NoCall,
           state' \in [Txns -> States], ending' \in [Txns -> Ending],
           shared_lock_set' \in [Txns -> SUBSET Rids],
           exclusive_lock_set' \in [Txns -> SUBSET Rids],
           \A u \in Txns : /\ shared_lock_set'[u] \subseteq shared_lock_set[u]
                           /\ exclusive_lock_set'[u] \subseteq exclusive_lock_set[u]
                           /\ u # t => state'[u] = state[u] /\ ending'[u] = ending[u],
           ending'[t].phase # "no" => state'[t] \in {"COMMITTED", "ABORTED"},
           ending'[t].left # {} => ending'[t].phase # "no",
           UNCHANGED <<request_queue, upgrading, call, crashed>>
    PROVE  LockInv'
  <1> USE DEF LockInv
  <1>1. TypeOK'
    BY DEF TypeOK
  <1>2. OneGranting' /\ SleepersBlocked' /\ CallsQueued'
    BY DEF OneGranting, Granting, SleepersBlocked, CallsQueued
  <1>3. LocksBacked'
    BY DEF LocksBacked
  <1>4. CallsRunning'
    BY DEF CallsRunning
  <1>5. SingleUpgrader'
    BY DEF SingleUpgrader, Upgrading
  <1> QED  BY <1>1, <1>2, <1>3, <1>4, <1>5

LEMMA StateStepInv ==
    ASSUME LockInv, NEW t \in Txns, Begin(t) \/ RejectShrinking(t) \/ \E r \in Rids : RejectUpgrade(t, r)
    PROVE  LockInv'
  <1> USE DEF LockInv
  <1>1. call[t] = NoCall /\ ending[t].phase = "no"
        /\ \E s \in {"GROWING", "ABORTED"} : state' = [state EXCEPT ![t] = s]
        /\ UNCHANGED <<sets, request_queue, upgrading, call, ending, crashed>>
    BY DEF Begin, RejectShrinking, RejectUpgrade, MayCall, CallsRunning
  <1>2. state' \in [Txns -> States] /\ \A u \in Txns : u # t => state'[u] = state[u]
    BY <1>1 DEF TypeOK, States
  <1>3. ending'[t].left # {} => ending'[t].phase # "no"
    BY <1>1 DEF CallsRunning
  <1> QED  BY <1>1, <1>2, <1>3, OutsideInv DEF TypeOK, sets

LEMMA StartEndingInv ==
    ASSUME LockInv, ~ExternalAbort, NEW t \in Txns, Commit(t) \/ Abort(t)
    PROVE  LockInv'
  <1> USE DEF LockInv
  <1>1. PICK s \in {"COMMITTED", "ABORTED"} : StartEnding(t, s) /\ call[t] = NoCall
    BY DEF Commit, Abort
  <1> DEFINE e == [phase |-> "shared", left |-> shared_lock_set[t]]
  <1>2. e \in Ending /\ e.phase = "shared"
    BY DEF Ending, TypeOK
  <1>3. ending' = [ending EXCEPT ![t] = e] /\ state' = [state EXCEPT ![t] = s]
        /\ UNCHANGED <<sets, request_queue, upgrading, call, crashed>>
    BY <1>1 DEF StartEnding
  <1> HIDE DEF e
  <1>4. /\ state' \in [Txns -> States] /\ ending' \in [Txns -> Ending]
        /\ \A u \in Txns : u # t => state'[u] = state[u] /\ ending'[u] = ending[u]
        /\ state'[t] = s /\ ending'[t].phase = "shared"
    BY <1>2, <1>3 DEF TypeOK, States
  <1> QED  BY <1>1, <1>3, <1>4, OutsideInv DEF TypeOK, sets

LEMMA EndingInv ==
    ASSUME LockInv, NEW t \in Txns, NextLoop(t) \/ ClearSets(t)
    PROVE  LockInv'
  <1> USE DEF LockInv
  <1>1. ending[t].phase # "no" /\ call[t] = NoCall /\ state[t] \in {"COMMITTED", "ABORTED"}
    BY DEF NextLoop, ClearSets, CallsRunning
  <1>2. NextPhase(t) \in Ending /\ NextPhase(t).phase # "no"
    BY DEF NextPhase, Ending, TypeOK
  <1>3. /\ [ending[t] EXCEPT !.phase = "done"] \in Ending
        /\ [ending[t] EXCEPT !.phase = "done"].phase = "done"
    BY DEF Ending, TypeOK
  <1>4. CASE NextLoop(t)
    <2>1. ending' = [ending EXCEPT ![t] = NextPhase(t)]
          /\ UNCHANGED <<state, sets, request_queue, upgrading, call, crashed>>
      BY <1>4 DEF NextLoop
    <2>2. ending' \in [Txns -> Ending] /\ ending'[t].phase # "no"
          /\ \A u \in Txns : u # t => ending'[u] = ending[u]
      BY <1>2, <2>1 DEF TypeOK
    <2> QED  BY <1>1, <2>1, <2>2, OutsideInv DEF TypeOK, sets
  <1>5. CASE ClearSets(t)
    <2>1. /\ ending' = [ending EXCEPT ![t].phase = "done"]
          /\ shared_lock_set' = [shared_lock_set EXCEPT ![t] = {}]
          /\ exclusive_lock_set' = [exclusive_lock_set EXCEPT ![t] = {}]
          /\ UNCHANGED <<state, request_queue, upgrading, call, crashed>>
      BY <1>5 DEF ClearSets
    <2>2. ending' \in [Txns -> Ending] /\ ending'[t].phase # "no"
          /\ \A u \in Txns : u # t => ending'[u] = ending[u]
      BY <1>3, <2>1 DEF TypeOK
    <2>3. /\ shared_lock_set' \in [Txns -> SUBSET Rids]
          /\ exclusive_lock_set' \in [Txns -> SUBSET Rids]
          /\ \A u \in Txns : /\ shared_lock_set'[u] \subseteq shared_lock_set[u]
                             /\ exclusive_lock_set'[u] \subseteq exclusive_lock_set[u]
      BY <2>1 DEF TypeOK
    <2> QED  BY <1>1, <2>1, <2>2, <2>3, OutsideInv DEF TypeOK
  <1> QED  BY <1>4, <1>5

LEMMA NextLockInv ==
    ASSUME ~ExternalAbort, LockInv, [Next]_vars
    PROVE  LockInv'
  <1>1. CASE UNCHANGED vars
    BY <1>1 DEF vars, LockInv, TypeOK, OneGranting, Granting, LocksBacked, CallsQueued,
                CallsRunning, SingleUpgrader, Upgrading, SleepersBlocked
  <1>2. ASSUME NEW t \in Txns, NEW r \in Rids, LockShared(t, r)
        PROVE  LockInv'
    BY <1>2, EnqueueInv DEF LockShared, Modes
  <1>3. ASSUME NEW t \in Txns, NEW r \in Rids, LockExclusive(t, r)
        PROVE  LockInv'
    BY <1>3, EnqueueInv DEF LockExclusive, Modes
  <1>4. CASE Next
    BY <1>1, <1>2, <1>3, <1>4, LockUpgradeInv, GrantInv, UnlockInv, ReleaseNextInv, WakeInv,
       SpuriousWakeInv, StateStepInv, StartEndingInv, EndingInv DEF Next, AllDone
  <1> QED  BY <1>1, <1>4

(***************************************************************************)
(* The lock table, the calls under way and the lock sets stay consistent,  *)
(* for any number of transactions and resources, whether or not a caller   *)
(* asks again for what it holds or unlocks before it ends, as long as a    *)
(* transaction is aborted by the thread that drives it.                    *)
(***************************************************************************)
THEOREM LockInvariance ==
    ASSUME ~ExternalAbort
    PROVE  Spec => []LockInv
  <1>1. Init => LockInv
    BY InitLockInv
  <1>2. LockInv /\ [Next]_vars => LockInv'
    BY NextLockInv
  <1> QED  BY <1>1, <1>2, PTL DEF Spec

\* upgrading_ is set exactly while one transaction is upgrading, so a second upgrader
\* is always turned away and the flag never stays behind.
THEOREM UpgradersCorrect ==
    ASSUME ~ExternalAbort
    PROVE  Spec => []SingleUpgrader
  <1>1. LockInv => SingleUpgrader
    BY DEF LockInv
  <1> QED  BY <1>1, LockInvariance, PTL

\* Every Unlock that makes a waiter's condition true wakes it: a thread sleeps on a
\* condition variable only while its condition is false.
THEOREM WakeupsCorrect ==
    ASSUME ~ExternalAbort
    PROVE  Spec => []NoLostWakeup
  <1>1. LockInv => NoLostWakeup
    <2> SUFFICES ASSUME LockInv, NEW t \in Txns, call[t] # NoCall, call[t].at = "asleep"
                 PROVE  ~Compatible(call[t].op, t, call[t].rid)
      BY DEF NoLostWakeup
    <2>1. ~Free(request_queue[call[t].rid], call[t].op, t)
      BY DEF LockInv, SleepersBlocked
    <2>2. call[t].rid \in Rids
      BY CallFields DEF LockInv
    <2> QED  BY <2>1, <2>2, CompatibleIsFree DEF LockInv
  <1> QED  BY <1>1, LockInvariance, PTL
-----------------------------------------------------------------------------
(* The refinement of TwoPhaseLocking. *)

\* The abstract phases move with the states.
Phases == [u \in Txns |-> PhaseOf(state[u])]

LEMMA PhaseMoves ==
    ASSUME TypeOK, NEW t \in Txns, NEW s \in States, state' = [state EXCEPT ![t] = s]
    PROVE  Phases' = [Phases EXCEPT ![t] = PhaseOf(s)]
  <1>1. \A u \in Txns : state'[u] = IF u = t THEN s ELSE state[u]
    BY DEF TypeOK
  <1>2. \A u \in Txns : PhaseOf(state'[u]) = IF u = t THEN PhaseOf(s) ELSE PhaseOf(state[u])
    BY <1>1
  <1> QED  BY <1>2 DEF Phases

LEMMA PhaseValues ==
    /\ PhaseOf("NONE") = "none" /\ PhaseOf("GROWING") = "growing"
    /\ PhaseOf("SHRINKING") = "shrinking"
    /\ PhaseOf("COMMITTED") = "ended" /\ PhaseOf("ABORTED") = "ended"
  BY DEF PhaseOf

\* Grant takes a lock in the growing phase that conflicts with nobody's.
LEMMA GrantRefines ==
    ASSUME LockInv, NEW t \in Txns, Grant(t)
    PROVE  Abstract!Next
  <1> DEFINE r == call[t].rid
  <1>1. /\ call[t] # NoCall /\ UNCHANGED state
        /\ shared_lock_set' = [shared_lock_set EXCEPT ![t] =
                                 CASE call[t].op = "LockShared" -> @ \cup {r}
                                   [] call[t].op = "LockExclusive" -> @
                                   [] call[t].op = "LockUpgrade" -> @ \ {r}]
        /\ exclusive_lock_set' = IF call[t].op = "LockShared" THEN exclusive_lock_set
                                 ELSE [exclusive_lock_set EXCEPT ![t] = @ \cup {r}]
    BY DEF Grant
  <1>2. /\ r \in Rids /\ call[t].op \in {"LockShared", "LockExclusive", "LockUpgrade"}
        /\ state[t] = "GROWING"
    BY <1>1, CallFields DEF LockInv, CallsRunning
  <1>3. Phases[t] = "growing" /\ Phases' = Phases
    BY <1>1, <1>2, PhaseValues DEF Phases
  <1>4. \A u \in Txns : u # t =>
           /\ call[t].op = "LockShared" => r \notin exclusive_lock_set[u]
           /\ call[t].op # "LockShared" => r \notin shared_lock_set[u] \cup exclusive_lock_set[u]
    BY GrantInv
  <1>5. shared_lock_set \in [Txns -> SUBSET Rids]
    BY DEF LockInv, TypeOK
  <1> HIDE DEF r
  <1>6. CASE call[t].op = "LockShared"
    <2>1. Abstract!AcquireShared(t, r)
      BY <1>1, <1>3, <1>4, <1>6 DEF Abstract!AcquireShared, Abstract!Others, Phases
    <2> QED  BY <1>2, <2>1 DEF Abstract!Next
  <1>7. CASE call[t].op \in {"LockExclusive", "LockUpgrade"}
    <2>1. shared_lock_set' \in {shared_lock_set, [shared_lock_set EXCEPT ![t] = @ \ {r}]}
      BY <1>1, <1>5, <1>7
    <2>2. exclusive_lock_set' = [exclusive_lock_set EXCEPT ![t] = @ \cup {r}]
      BY <1>1, <1>7
    <2>3. \A u \in Txns \ {t} : r \notin shared_lock_set[u] \cup exclusive_lock_set[u]
      BY <1>4, <1>7
    <2>4. Abstract!AcquireExclusive(t, r)
      BY <1>3, <2>1, <2>2, <2>3 DEF Abstract!AcquireExclusive, Abstract!Others, Phases
    <2> QED  BY <1>2, <2>4 DEF Abstract!Next
  <1> QED  BY <1>2, <1>6, <1>7

\* Unlock and the loops of Commit and Abort release one lock.
LEMMA UnlockRefines ==
    ASSUME LockInv, NEW t \in Txns, NEW r \in Rids, DoUnlock(t, r)
    PROVE  Abstract!Next
  <1> DEFINE s == IF state[t] = "GROWING" THEN "SHRINKING" ELSE state[t]
  <1>1. /\ state' = [state EXCEPT ![t] = s]
        /\ shared_lock_set' = [shared_lock_set EXCEPT ![t] = @ \ {r}]
        /\ exclusive_lock_set' = [exclusive_lock_set EXCEPT ![t] = @ \ {r}]
    BY DEF DoUnlock
  <1>2. s \in States /\ state[t] \in States
    BY DEF States, LockInv, TypeOK
  <1>3. Phases' = [Phases EXCEPT ![t] = PhaseOf(s)]
    BY <1>1, <1>2, PhaseMoves DEF LockInv
  <1>4. PhaseOf(s) = IF PhaseOf(state[t]) = "growing" THEN "shrinking" ELSE PhaseOf(state[t])
    BY <1>2, PhaseValues DEF States
  <1> HIDE DEF s
  <1>5. Phases[t] = PhaseOf(state[t])
    BY DEF Phases
  <1>6. Phases' = [Phases EXCEPT ![t] = IF @ = "growing" THEN "shrinking" ELSE @]
    BY <1>3, <1>4, <1>5
  <1>7. Abstract!Release(t, r)
    BY <1>1, <1>6 DEF Abstract!Release, Phases
  <1> QED  BY <1>7 DEF Abstract!Next

\* Begin, and the steps that end a transaction: a rejected request, Commit and Abort.
LEMMA StateStepRefines ==
    ASSUME LockInv, NEW t \in Txns, NEW s \in States, state' = [state EXCEPT ![t] = s],
           UNCHANGED sets,
           \/ state[t] = "NONE" /\ s = "GROWING"
           \/ state[t] # "NONE" /\ s \in {"COMMITTED", "ABORTED"}
    PROVE  Abstract!Next \/ UNCHANGED Abstract!lockVars
  <1>1. Phases' = [Phases EXCEPT ![t] = PhaseOf(s)] /\ Phases[t] = PhaseOf(state[t])
    BY PhaseMoves DEF LockInv, Phases
  <1>2. UNCHANGED <<shared_lock_set, exclusive_lock_set>>
    BY DEF sets
  <1>3. state[t] \in States
    BY DEF LockInv, TypeOK
  <1>4. CASE state[t] = "NONE" /\ s = "GROWING"
    <2>1. Abstract!Begin(t)
      BY <1>1, <1>2, <1>4, PhaseValues DEF Abstract!Begin, Phases
    <2> QED  BY <2>1 DEF Abstract!Next
  <1>5. CASE state[t] \in {"GROWING", "SHRINKING"} /\ s \in {"COMMITTED", "ABORTED"}
    <2>1. Abstract!End(t)
      BY <1>1, <1>2, <1>5, PhaseValues DEF Abstract!End, Phases
    <2> QED  BY <2>1 DEF Abstract!Next
  <1>6. CASE state[t] \in {"COMMITTED", "ABORTED"} /\ s \in {"COMMITTED", "ABORTED"}
    <2>1. Phases' = Phases
      BY <1>1, <1>6, PhaseValues DEF Phases
    <2> QED  BY <1>2, <2>1 DEF Abstract!lockVars, Phases
  <1> QED  BY <1>3, <1>4, <1>5, <1>6 DEF States

LEMMA ClearSetsRefines ==
    ASSUME LockInv, NEW t \in Txns, ClearSets(t)
    PROVE  Abstract!Next
  <1>1. ending[t].phase # "no" /\ UNCHANGED state
        /\ shared_lock_set' = [shared_lock_set EXCEPT ![t] = {}]
        /\ exclusive_lock_set' = [exclusive_lock_set EXCEPT ![t] = {}]
    BY DEF ClearSets
  <1>2. Phases[t] = "ended" /\ Phases' = Phases
    BY <1>1, PhaseValues DEF Phases, LockInv, CallsRunning
  <1>3. Abstract!ForgetAll(t)
    BY <1>1, <1>2 DEF Abstract!ForgetAll, Phases
  <1> QED  BY <1>3 DEF Abstract!Next

\* Queueing, waiting and waking change nothing a user of two-phase locking can see.
LEMMA HiddenStepRefines ==
    ASSUME UNCHANGED <<state, sets>>
    PROVE  UNCHANGED Abstract!lockVars
  BY DEF sets, Abstract!lockVars

LEMMA StepRefines ==
    ASSUME ~ExternalAbort, LockInv, [Next]_vars
    PROVE  Abstract!Next \/ UNCHANGED Abstract!lockVars
  <1>1. CASE UNCHANGED vars
    BY <1>1, HiddenStepRefines DEF vars, sets
  <1>2. ASSUME NEW t \in Txns,
               \/ Wake(t) \/ SpuriousWake(t) \/ NextLoop(t)
               \/ \E r \in Rids : LockShared(t, r) \/ LockExclusive(t, r) \/ LockUpgrade(t, r)
        PROVE  UNCHANGED <<state, sets>>
    BY <1>2 DEF Wake, SpuriousWake, NextLoop, LockShared, LockExclusive, LockUpgrade
  <1>3. ASSUME NEW t \in Txns,
               \/ Begin(t) \/ RejectShrinking(t) \/ Commit(t) \/ Abort(t)
               \/ \E r \in Rids : RejectUpgrade(t, r)
        PROVE  Abstract!Next \/ UNCHANGED Abstract!lockVars
    <2>1. /\ UNCHANGED sets
          /\ \E s \in States :
                /\ state' = [state EXCEPT ![t] = s]
                /\ \/ state[t] = "NONE" /\ s = "GROWING"
                   \/ state[t] # "NONE" /\ s \in {"COMMITTED", "ABORTED"}
      BY <1>3 DEF Begin, RejectShrinking, RejectUpgrade, MayCall, Commit, Abort, MayEnd,
                  StartEnding, States
    <2> QED  BY <2>1, StateStepRefines
  <1>4. ASSUME NEW t \in Txns, NEW r \in Rids, Unlock(t, r) \/ ReleaseNext(t, r)
        PROVE  Abstract!Next
    BY <1>4, UnlockRefines DEF Unlock, ReleaseNext
  <1>5. CASE Next
    <2>1. CASE AllDone
      BY <1>1, <2>1 DEF AllDone
    <2>2. ASSUME NEW t \in Txns,
                 \/ Wake(t) \/ SpuriousWake(t) \/ NextLoop(t)
                 \/ \E r \in Rids : LockShared(t, r) \/ LockExclusive(t, r) \/ LockUpgrade(t, r)
          PROVE  UNCHANGED Abstract!lockVars
      BY <1>2, <2>2, HiddenStepRefines
    <2> QED  BY <1>3, <1>4, <1>5, <2>1, <2>2, GrantRefines, ClearSetsRefines DEF Next
  <1> QED  BY <1>1, <1>5

(***************************************************************************)
(* The lock manager with its queues, latch, sleeping threads, spurious     *)
(* wakeups and the loops of Commit and Abort implements TwoPhaseLocking:   *)
(* locks are taken in the growing phase only and never against a lock that *)
(* another transaction has been told it holds.                             *)
(***************************************************************************)
THEOREM LockRefinement ==
    ASSUME ~ExternalAbort
    PROVE  Spec => ImplementsTwoPhaseLocking
  <1>1. Init => Abstract!Init
    <2> SUFFICES ASSUME Init PROVE Abstract!Init
      OBVIOUS
    <2>1. [t \in Txns |-> PhaseOf(state[t])] = [t \in Txns |-> "none"]
      BY PhaseValues DEF Init
    <2> QED  BY <2>1 DEF Init, Abstract!Init
  <1>2. LockInv /\ [Next]_vars => [Abstract!Next]_(Abstract!lockVars)
    BY StepRefines
  <1> QED  BY <1>1, <1>2, LockInvariance, PTL DEF Spec, Abstract!Spec, ImplementsTwoPhaseLocking

\* What two-phase locking does keeps exclusive locks exclusive.
LEMMA AbstractExclusion ==
    ASSUME TypeOK, LockExclusion, Abstract!Next
    PROVE  LockExclusion'
  <1> USE DEF LockExclusion
  <1>1. ASSUME NEW t \in Txns, Abstract!Begin(t) \/ Abstract!End(t)
        PROVE  LockExclusion'
    BY <1>1 DEF Abstract!Begin, Abstract!End
  <1>2. ASSUME NEW t \in Txns, Abstract!ForgetAll(t)
        PROVE  LockExclusion'
    BY <1>2 DEF Abstract!ForgetAll, TypeOK
  <1>3. ASSUME NEW t \in Txns, NEW r \in Rids, Abstract!AcquireShared(t, r)
        PROVE  LockExclusion'
    BY <1>3 DEF Abstract!AcquireShared, Abstract!Others, TypeOK
  <1>4. ASSUME NEW t \in Txns, NEW r \in Rids, Abstract!AcquireExclusive(t, r)
        PROVE  LockExclusion'
    <2>1. /\ \A u \in Txns : u # t => r \notin shared_lock_set[u] \cup exclusive_lock_set[u]
          /\ exclusive_lock_set' = [exclusive_lock_set EXCEPT ![t] = @ \cup {r}]
      BY <1>4 DEF Abstract!AcquireExclusive, Abstract!Others
    <2>2. \A u \in Txns : shared_lock_set'[u] \subseteq shared_lock_set[u]
      BY <1>4, ZenonT(30) DEF Abstract!AcquireExclusive, TypeOK
    <2> QED  BY <2>1, <2>2 DEF TypeOK
  <1>5. ASSUME NEW t \in Txns, NEW r \in Rids, Abstract!Release(t, r)
        PROVE  LockExclusion'
    BY <1>5 DEF Abstract!Release, TypeOK
  <1> QED  BY <1>1, <1>2, <1>3, <1>4, <1>5 DEF Abstract!Next

\* A transaction that was told it has an exclusive lock is alone with it.
THEOREM ExclusionCorrect ==
    ASSUME ~ExternalAbort
    PROVE  Spec => []LockExclusion
  <1>1. Init => LockExclusion
    BY DEF Init, LockExclusion
  <1>2. LockInv /\ LockExclusion /\ [Next]_vars => LockExclusion'
    <2> SUFFICES ASSUME LockInv, LockExclusion, [Next]_vars
                 PROVE  LockExclusion'
      OBVIOUS
    <2>1. CASE Abstract!Next
      BY <2>1, AbstractExclusion DEF LockInv
    <2>2. CASE UNCHANGED Abstract!lockVars
      BY <2>2 DEF Abstract!lockVars, LockExclusion
    <2> QED  BY <2>1, <2>2, StepRefines
  <1> QED  BY <1>1, <1>2, LockInvariance, PTL DEF Spec
-----------------------------------------------------------------------------
(* Lock sets and queues agree, request by request. *)

One(q, t) == \A i, j \in 1 .. Len(q) : q[i].txn = t /\ q[j].txn = t => i = j

Pending(q, t) == \E i \in 1 .. Len(q) : q[i].txn = t /\ ~q[i].granted

Waits(t, r) == call[t] # NoCall /\ call[t].rid = r /\ ~Upgrading(t, r)

\* The inductive form of QueuesMatchLockSets.  A caller that unlocks before it ends
\* leaves Commit and Abort nothing to release.
Agree(t, r) ==
    /\ One(request_queue[r], t)
    /\ r \in shared_lock_set[t] <=>
          \/ Held(request_queue[r], t, "SHARED")
          \/ Held(request_queue[r], t, "EXCLUSIVE") /\ Upgrading(t, r)
    /\ r \in exclusive_lock_set[t] <=>
          Held(request_queue[r], t, "EXCLUSIVE") /\ ~Upgrading(t, r)
    /\ Pending(request_queue[r], t) <=> Waits(t, r)

NothingToRelease ==
    \A t \in Txns :
        ending[t].phase # "no" =>
            shared_lock_set[t] = {} /\ exclusive_lock_set[t] = {} /\ ending[t].left = {}

MatchInv ==
    /\ \A t \in Txns, r \in Rids : Agree(t, r)
    /\ NothingToRelease

\* What two queues that treat u alike have in common.
Alike(p, q, u) ==
    /\ One(q, u) => One(p, u)
    /\ Pending(p, u) <=> Pending(q, u)
    /\ \A m : Held(p, u, m) <=> Held(q, u, m)

\* A transaction with exactly one request, and with none.
Only(q, t, k) ==
    k \in 1 .. Len(q) /\ q[k].txn = t /\ \A i \in 1 .. Len(q) : q[i].txn = t => i = k

Gone(q, t) == \A i \in 1 .. Len(q) : q[i].txn # t

LEMMA OnlyMeans ==
    ASSUME NEW q, NEW t, NEW k, Only(q, t, k)
    PROVE  /\ One(q, t)
           /\ \A m : Held(q, t, m) <=> q[k].granted /\ q[k].mode = m
           /\ Pending(q, t) <=> ~q[k].granted
  <1>1. One(q, t)
    BY DEF Only, One
  <1>2. \A m : Held(q, t, m) <=> q[k].granted /\ q[k].mode = m
    BY DEF Only, Held
  <1>3. Pending(q, t) <=> ~q[k].granted
    BY DEF Only, Pending
  <1> QED  BY <1>1, <1>2, <1>3

LEMMA GoneMeans ==
    ASSUME NEW q, NEW t, Gone(q, t)
    PROVE  One(q, t) /\ ~Pending(q, t) /\ \A m : ~Held(q, t, m)
  BY DEF Gone, One, Pending, Held

LEMMA OneIsOnly ==
    ASSUME NEW q, NEW t, One(q, t), NEW k \in 1 .. Len(q), q[k].txn = t
    PROVE  Only(q, t, k)
  BY DEF One, Only

LEMMA AppendAlike ==
    ASSUME NEW q \in Seq(Request), NEW e \in Request
    PROVE  /\ \A u : u # e.txn => Alike(Append(q, e), q, u)
           /\ Gone(q, e.txn) => Only(Append(q, e), e.txn, Len(q) + 1)
  <1> DEFINE p == Append(q, e)
  <1>1. Len(q) \in Nat /\ Len(p) = Len(q) + 1 /\ p[Len(q) + 1] = e
        /\ \A i \in 1 .. Len(q) : p[i] = q[i]
    OBVIOUS
  <1> HIDE DEF p
  <1>2. ASSUME NEW u, u # e.txn PROVE Alike(p, q, u)
    <2>1. \A i \in 1 .. Len(p) : p[i].txn = u => i \in 1 .. Len(q) /\ p[i] = q[i]
      BY <1>1, <1>2
    <2>2. \A i \in 1 .. Len(q) : i \in 1 .. Len(p) /\ p[i] = q[i]
      BY <1>1
    <2>3. One(q, u) => One(p, u)
      BY <2>1 DEF One
    <2>4. Pending(p, u) <=> Pending(q, u)
      BY <2>1, <2>2 DEF Pending
    <2>5. \A m : Held(p, u, m) <=> Held(q, u, m)
      BY <2>1, <2>2 DEF Held
    <2> QED  BY <2>3, <2>4, <2>5 DEF Alike
  <1>3. Gone(q, e.txn) => Only(p, e.txn, Len(q) + 1)
    BY <1>1 DEF Gone, Only
  <1> QED  BY <1>2, <1>3 DEF p

LEMMA RemoveAlike ==
    ASSUME NEW q \in Seq(Request), NEW t, NEW k, Only(q, t, k)
    PROVE  /\ \A u : u # t => Alike(RemoveAt(q, k), q, u)
           /\ Gone(RemoveAt(q, k), t)
  <1> DEFINE p == RemoveAt(q, k)
             From(i) == IF i < k THEN i ELSE i + 1
             To(i) == IF i < k THEN i ELSE i - 1
  <1>1. /\ k \in 1 .. Len(q) /\ q[k].txn = t
        /\ Len(p) = Len(q) - 1 /\ Len(q) \in Nat
        /\ \A j \in 1 .. Len(q) - 1 : p[j] = IF j < k THEN q[j] ELSE q[j + 1]
    BY RemoveAtProperties DEF Only
  <1> HIDE DEF p
  <1>2. \A i \in 1 .. Len(p) : From(i) \in 1 .. Len(q) /\ From(i) # k /\ p[i] = q[From(i)]
                               /\ i = To(From(i))
    BY <1>1
  <1>3. \A i \in 1 .. Len(q) : i # k => To(i) \in 1 .. Len(p) /\ p[To(i)] = q[i]
    <2> SUFFICES ASSUME NEW i \in 1 .. Len(q), i # k
                 PROVE  To(i) \in 1 .. Len(p) /\ p[To(i)] = q[i]
      OBVIOUS
    <2>1. CASE i < k
      BY <1>1, <2>1
    <2>2. CASE i > k
      <3>1. i - 1 \in 1 .. Len(q) - 1 /\ ~(i - 1 < k) /\ i - 1 + 1 = i /\ ~(i < k)
        BY <1>1, <2>2
      <3> QED  BY <1>1, <3>1
    <2> QED  BY <1>1, <2>1, <2>2
  <1> HIDE DEF From, To
  <1>4. ASSUME NEW u, u # t PROVE Alike(p, q, u)
    <2>1. \A i \in 1 .. Len(q) : q[i].txn = u => To(i) \in 1 .. Len(p) /\ p[To(i)] = q[i]
      BY <1>1, <1>3, <1>4
    <2>2. ASSUME One(q, u), NEW i \in 1 .. Len(p), NEW j \in 1 .. Len(p),
                 p[i].txn = u, p[j].txn = u
          PROVE  i = j
      <3>1. From(i) = From(j)
        BY <1>2, <2>2 DEF One
      <3> QED  BY <1>2, <3>1
    <2>3. One(q, u) => One(p, u)
      BY <2>2 DEF One
    <2>4. Pending(p, u) <=> Pending(q, u)
      BY <1>2, <2>1 DEF Pending
    <2>5. \A m : Held(p, u, m) <=> Held(q, u, m)
      BY <1>2, <2>1 DEF Held
    <2> QED  BY <2>3, <2>4, <2>5 DEF Alike
  <1>5. Gone(p, t)
    BY <1>2 DEF Gone, Only
  <1> QED  BY <1>4, <1>5 DEF p

LEMMA ChangeAlike ==
    ASSUME NEW q \in Seq(Request), NEW t, NEW k, Only(q, t, k),
           NEW p \in Seq(Request), Len(p) = Len(q), p[k].txn = t,
           \A i \in 1 .. Len(q) : i # k => p[i] = q[i]
    PROVE  /\ \A u : u # t => Alike(p, q, u)
           /\ Only(p, t, k)
  <1>1. ASSUME NEW u, u # t PROVE Alike(p, q, u)
    <2>1. \A i \in 1 .. Len(q) : q[i].txn = u \/ p[i].txn = u => p[i] = q[i]
      BY <1>1 DEF Only
    <2>2. One(q, u) => One(p, u)
      BY <2>1 DEF One
    <2>3. Pending(p, u) <=> Pending(q, u)
      BY <2>1 DEF Pending
    <2>4. \A m : Held(p, u, m) <=> Held(q, u, m)
      BY <2>1 DEF Held
    <2> QED  BY <2>2, <2>3, <2>4 DEF Alike
  <1>2. Only(p, t, k)
    BY DEF Only
  <1> QED  BY <1>1, <1>2

\* A step that is about t and r leaves every other pair alone.
LEMMA AgreeStep ==
    ASSUME MatchInv, NEW t \in Txns, NEW r \in Rids, Agree(t, r)',
           \A u \in Txns, x \in Rids : u # t \/ x # r =>
              /\ Alike(request_queue'[x], request_queue[x], u)
              /\ x \in shared_lock_set'[u] <=> x \in shared_lock_set[u]
              /\ x \in exclusive_lock_set'[u] <=> x \in exclusive_lock_set[u]
              /\ Upgrading(u, x)' <=> Upgrading(u, x)
              /\ Waits(u, x)' <=> Waits(u, x)
    PROVE  \A u \in Txns, x \in Rids : Agree(u, x)'
  <1> SUFFICES ASSUME NEW u \in Txns, NEW x \in Rids, u # t \/ x # r
               PROVE  Agree(u, x)'
    OBVIOUS
  <1>1. Agree(u, x)
    BY DEF MatchInv
  <1> QED  BY <1>1 DEF Agree, Alike

LEMMA SameQueueAlike ==
    ASSUME NEW q, NEW u
    PROVE  Alike(q, q, u)
  BY DEF Alike

\* A transaction outside every call that believes it holds nothing of r has no request.
LEMMA NothingHeldIsGone ==
    ASSUME TypeOK, NEW t \in Txns, NEW r \in Rids, Agree(t, r), call[t] = NoCall,
           r \notin shared_lock_set[t], r \notin exclusive_lock_set[t]
    PROVE  Gone(request_queue[r], t)
  <1> DEFINE q == request_queue[r]
  <1>1. ~Held(q, t, "SHARED") /\ ~Held(q, t, "EXCLUSIVE") /\ ~Pending(q, t)
    BY DEF Agree, Upgrading, Waits
  <1>2. q \in Seq(Request)
    BY DEF TypeOK
  <1> HIDE DEF q
  <1>3. \A i \in 1 .. Len(q) : q[i] \in Request
    BY <1>2
  <1>4. \A i \in 1 .. Len(q) : q[i].mode \in {"SHARED", "EXCLUSIVE"}
    BY <1>3 DEF Request, Modes
  <1> QED  BY <1>1, <1>4 DEF Held, Pending, Gone, q

LEMMA EnqueueMatch ==
    ASSUME LockInv, MatchInv, NEW t \in Txns, NEW r \in Rids,
           r \notin shared_lock_set[t], r \notin exclusive_lock_set[t],
           MayCall(t), NEW op \in {"LockShared", "LockExclusive"}, NEW mode \in Modes,
           Enqueue(t, r, mode), StartCall(t, op, r),
           UNCHANGED <<state, sets, upgrading, ending, crashed>>
    PROVE  MatchInv'
  <1> DEFINE e == [txn |-> t, mode |-> mode, granted |-> FALSE]
             q == request_queue[r]
             p == Append(q, e)
             c == [op |-> op, rid |-> r,
                   at |-> IF Compatible(op, t, r) THEN "granting" ELSE "asleep"]
  <1>1. e \in Request /\ ~e.granted /\ e.txn = t /\ q \in Seq(Request) /\ Len(q) \in Nat
    <2>1. e \in Request /\ ~e.granted /\ e.txn = t
      BY DEF Request, Modes
    <2>2. q \in Seq(Request)
      BY DEF LockInv, TypeOK
    <2> HIDE DEF e, q
    <2> QED  BY <2>1, <2>2
  <1>2. c \in Call /\ c # NoCall /\ c.op = op /\ c.rid = r
    BY NoCallAssumption DEF Call
  <1>3. /\ request_queue' = [request_queue EXCEPT ![r] = p] /\ call' = [call EXCEPT ![t] = c]
        /\ call[t] = NoCall /\ UNCHANGED <<shared_lock_set, exclusive_lock_set, ending>>
    BY DEF Enqueue, StartCall, MayCall, sets
  <1>4. Gone(q, t)
    BY <1>3, NothingHeldIsGone DEF LockInv, MatchInv
  <1>5. p[Len(q) + 1] = e
    BY <1>1
  <1> HIDE DEF e, q, c, p
  <1>6. (\A u : u # t => Alike(p, q, u)) /\ Only(p, t, Len(q) + 1)
    BY <1>1, <1>4, AppendAlike DEF p
  <1>7. One(p, t) /\ Pending(p, t) /\ \A m : ~Held(p, t, m)
    BY <1>1, <1>5, <1>6, OnlyMeans
  <1>8. request_queue'[r] = p /\ call'[t] = c
        /\ (\A x \in Rids : x # r => request_queue'[x] = request_queue[x])
        /\ \A u \in Txns : u # t => call'[u] = call[u]
    BY <1>3 DEF LockInv, TypeOK
  <1>9. ASSUME NEW u \in Txns, NEW x \in Rids, u # t \/ x # r
        PROVE  /\ Alike(request_queue'[x], request_queue[x], u)
               /\ Upgrading(u, x)' <=> Upgrading(u, x)
               /\ Waits(u, x)' <=> Waits(u, x)
    <2>1. Alike(request_queue'[x], request_queue[x], u)
      BY <1>6, <1>8, <1>9, SameQueueAlike DEF q
    <2>2. Upgrading(u, x)' <=> Upgrading(u, x)
      BY <1>2, <1>3, <1>8, <1>9 DEF Upgrading
    <2>3. Waits(u, x)' <=> Waits(u, x)
      BY <1>2, <1>3, <1>8, <1>9, <2>2 DEF Waits
    <2> QED  BY <2>1, <2>2, <2>3
  <1>10. Agree(t, r)'
    <2>1. Waits(t, r)' /\ ~Upgrading(t, r)'
      BY <1>2, <1>8 DEF Waits, Upgrading
    <2> QED  BY <1>3, <1>7, <1>8, <2>1 DEF Agree
  <1>11. \A u \in Txns, x \in Rids : Agree(u, x)'
    BY <1>3, <1>9, <1>10, AgreeStep
  <1> QED  BY <1>3, <1>11 DEF MatchInv, NothingToRelease

\* The request LockUpgrade finds is the transaction's only one, and granted.
LEMMA LockUpgradeMatch ==
    ASSUME LockInv, MatchInv, NEW t \in Txns, NEW r \in Rids, LockUpgrade(t, r)
    PROVE  MatchInv'
  <1> DEFINE q == request_queue[r]
             k == SharedRequestOf(q, t)
             e == [q[k] EXCEPT !.mode = "EXCLUSIVE"]
             p == [q EXCEPT ![k] = e]
             c == [op |-> "LockUpgrade", rid |-> r,
                   at |-> IF Compatible("LockUpgrade", t, r) THEN "granting" ELSE "asleep"]
  <1>1. /\ k # 0 /\ call[t] = NoCall
        /\ request_queue' = [request_queue EXCEPT ![r] = p]
        /\ call' = [call EXCEPT ![t] = c]
        /\ UNCHANGED <<shared_lock_set, exclusive_lock_set, ending>>
    BY DEF LockUpgrade, StartCall, MayCall, sets
  <1>2. c \in Call /\ c # NoCall /\ c.op = "LockUpgrade" /\ c.rid = r
    BY NoCallAssumption DEF Call
  <1>3. q \in Seq(Request)
    BY DEF LockInv, TypeOK
  <1>4. k \in 1 .. Len(q) /\ q[k].txn = t /\ q[k].mode = "SHARED"
    BY <1>1, <1>3, SharedRequestOfProperties
  <1>5. One(q, t) /\ Agree(t, r)
    BY DEF MatchInv, Agree
  <1>6. q[k] \in Request
    BY <1>3, <1>4
  <1>7. e \in Request /\ e.txn = t /\ e.mode = "EXCLUSIVE" /\ e.granted = q[k].granted
    BY <1>4, <1>6, RequestFields
  <1> HIDE DEF k, e, c
  <1>8. /\ p \in Seq(Request) /\ Len(p) = Len(q) /\ p[k] = e
        /\ \A i \in 1 .. Len(q) : i # k => p[i] = q[i]
    <2> HIDE DEF q
    <2> QED  BY <1>3, <1>4, <1>7
  <1>9. Only(q, t, k)
    BY <1>4, <1>5, OneIsOnly
  <1> HIDE DEF q, p
  <1>10. (\A u : u # t => Alike(p, q, u)) /\ Only(p, t, k)
    BY <1>3, <1>7, <1>8, <1>9, ChangeAlike
  <1>11. q[k].granted /\ r \in shared_lock_set[t] /\ r \notin exclusive_lock_set[t]
    <2>1. ~Upgrading(t, r) /\ ~Waits(t, r)
      BY <1>1 DEF Upgrading, Waits
    <2>2. q[k].granted
      BY <1>5, <1>9, <2>1, OnlyMeans DEF Agree, q
    <2>3. Held(q, t, "SHARED") /\ ~Held(q, t, "EXCLUSIVE")
      BY <1>4, <1>9, <2>2, OnlyMeans
    <2> QED  BY <1>5, <2>1, <2>2, <2>3 DEF Agree, q
  <1>12. One(p, t) /\ ~Pending(p, t) /\ Held(p, t, "EXCLUSIVE")
    BY <1>7, <1>8, <1>10, <1>11, OnlyMeans
  <1>13. request_queue'[r] = p /\ call'[t] = c
         /\ (\A x \in Rids : x # r => request_queue'[x] = request_queue[x])
         /\ \A u \in Txns : u # t => call'[u] = call[u]
    BY <1>1 DEF LockInv, TypeOK
  <1>14. ASSUME NEW u \in Txns, NEW x \in Rids, u # t \/ x # r
         PROVE  /\ Alike(request_queue'[x], request_queue[x], u)
                /\ Upgrading(u, x)' <=> Upgrading(u, x)
                /\ Waits(u, x)' <=> Waits(u, x)
    <2>1. Alike(request_queue'[x], request_queue[x], u)
      BY <1>10, <1>13, <1>14, SameQueueAlike DEF q
    <2>2. Upgrading(u, x)' <=> Upgrading(u, x)
      BY <1>1, <1>2, <1>13, <1>14 DEF Upgrading
    <2>3. Waits(u, x)' <=> Waits(u, x)
      BY <1>1, <1>2, <1>13, <1>14, <2>2 DEF Waits
    <2> QED  BY <2>1, <2>2, <2>3
  <1>15. Agree(t, r)'
    <2>1. ~Waits(t, r)' /\ Upgrading(t, r)'
      BY <1>2, <1>13 DEF Waits, Upgrading
    <2> QED  BY <1>1, <1>11, <1>12, <1>13, <2>1 DEF Agree
  <1>16. \A u \in Txns, x \in Rids : Agree(u, x)'
    BY <1>1, <1>14, <1>15, AgreeStep
  <1> QED  BY <1>1, <1>16 DEF MatchInv, NothingToRelease

LEMMA GrantMatch ==
    ASSUME LockInv, MatchInv, NEW t \in Txns, Grant(t)
    PROVE  MatchInv'
  <1> SUFFICES ASSUME NEW op, op = call[t].op, NEW r, r = call[t].rid
               PROVE  MatchInv'
    OBVIOUS
  <1> DEFINE q == request_queue[r]
             k == GrantedIndex(q, t, op)
             e == [q[k] EXCEPT !.granted = TRUE]
             p == [q EXCEPT ![k] = e]
  <1>1. /\ call[t] # NoCall
        /\ request_queue' = IF k = 0 THEN request_queue ELSE [request_queue EXCEPT ![r] = p]
        /\ shared_lock_set' = [shared_lock_set EXCEPT ![t] =
                                 CASE op = "LockShared" -> @ \cup {r}
                                   [] op = "LockExclusive" -> @
                                   [] op = "LockUpgrade" -> @ \ {r}]
        /\ exclusive_lock_set' = IF op = "LockShared" THEN exclusive_lock_set
                                 ELSE [exclusive_lock_set EXCEPT ![t] = @ \cup {r}]
        /\ call' = [call EXCEPT ![t] = NoCall]
        /\ UNCHANGED ending
    BY DEF Grant
  <1>2. r \in Rids /\ op \in {"LockShared", "LockExclusive", "LockUpgrade"}
    BY <1>1, CallFields DEF LockInv
  <1>3. q \in Seq(Request) /\ Wanted(q, t, op) /\ Agree(t, r)
    BY <1>1, <1>2 DEF LockInv, TypeOK, CallsQueued, MatchInv
  <1>4. /\ k \in 1 .. Len(q) /\ q[k].txn = t /\ Matches(q[k], t, op)
        /\ op # "LockShared" => q[k].mode = "EXCLUSIVE"
    <2>1. k \in 1 .. Len(q) /\ q[k].txn = t /\ (op # "LockShared" => q[k].mode = "EXCLUSIVE")
      BY <1>2, <1>3, WantedIsFound
    <2>2. k # 0
      BY <2>1
    <2>3. Matches(q[k], t, op)
      BY <1>3, <2>2, GrantedIndexProperties
    <2> QED  BY <2>1, <2>3
  <1>5. op = "LockShared" => q[k].mode = "SHARED"
    BY <1>4 DEF Matches
  <1>6. q[k] \in Request /\ k # 0
    BY <1>3, <1>4
  <1>7. e \in Request /\ e.txn = t /\ e.mode = q[k].mode /\ e.granted
    BY <1>4, <1>6, RequestFields
  <1> HIDE DEF k, e
  <1>8. /\ p \in Seq(Request) /\ Len(p) = Len(q) /\ p[k] = e
        /\ \A i \in 1 .. Len(q) : i # k => p[i] = q[i]
    <2> HIDE DEF q
    <2> QED  BY <1>3, <1>4, <1>7
  <1>9. Only(q, t, k)
    BY <1>3, <1>4, OneIsOnly DEF Agree
  <1>10. /\ Upgrading(t, r) <=> op = "LockUpgrade"
         /\ Waits(t, r) <=> op # "LockUpgrade"
         /\ \A x \in Rids : x # r => ~Upgrading(t, x) /\ ~Waits(t, x)
    BY <1>1 DEF Upgrading, Waits
  <1> HIDE DEF q, p
  <1>11. (\A u : u # t => Alike(p, q, u)) /\ Only(p, t, k)
    BY <1>3, <1>7, <1>8, <1>9, ChangeAlike
  <1>12. One(p, t) /\ ~Pending(p, t) /\ \A m : Held(p, t, m) <=> q[k].mode = m
    BY <1>7, <1>8, <1>11, OnlyMeans
  <1>13. op # "LockUpgrade" => r \notin shared_lock_set[t] /\ r \notin exclusive_lock_set[t]
    <2>1. op # "LockUpgrade" => ~q[k].granted
      BY <1>3, <1>9, <1>10, OnlyMeans DEF Agree, q
    <2>2. op # "LockUpgrade" => \A m : ~Held(q, t, m)
      BY <1>9, <2>1, OnlyMeans
    <2> QED  BY <1>3, <2>2 DEF Agree, q
  <1>14. request_queue'[r] = p /\ call'[t] = NoCall
         /\ (\A x \in Rids : x # r => request_queue'[x] = request_queue[x])
         /\ \A u \in Txns : u # t => call'[u] = call[u]
    BY <1>1, <1>2, <1>6 DEF LockInv, TypeOK
  <1>15. ASSUME NEW u \in Txns, NEW x \in Rids, u # t \/ x # r
         PROVE  /\ Alike(request_queue'[x], request_queue[x], u)
                /\ x \in shared_lock_set'[u] <=> x \in shared_lock_set[u]
                /\ x \in exclusive_lock_set'[u] <=> x \in exclusive_lock_set[u]
                /\ Upgrading(u, x)' <=> Upgrading(u, x)
                /\ Waits(u, x)' <=> Waits(u, x)
    <2>1. Alike(request_queue'[x], request_queue[x], u)
      BY <1>11, <1>14, <1>15, SameQueueAlike DEF q
    <2>2. /\ x \in shared_lock_set'[u] <=> x \in shared_lock_set[u]
          /\ x \in exclusive_lock_set'[u] <=> x \in exclusive_lock_set[u]
      BY <1>1, <1>2, <1>15 DEF LockInv, TypeOK
    <2>3. CASE u = t
      <3>1. ~Upgrading(u, x)' /\ ~Waits(u, x)'
        BY <1>14, <2>3 DEF Upgrading, Waits
      <3> QED  BY <1>10, <1>15, <2>1, <2>2, <2>3, <3>1
    <2>4. CASE u # t
      BY <1>14, <2>1, <2>2, <2>4 DEF Upgrading, Waits
    <2> QED  BY <2>3, <2>4
  <1>16. Agree(t, r)'
    <2>1. ~Waits(t, r)' /\ ~Upgrading(t, r)'
      BY <1>14 DEF Waits, Upgrading
    <2>2. r \in shared_lock_set'[t] <=> op = "LockShared"
      BY <1>1, <1>2, <1>13 DEF LockInv, TypeOK
    <2>3. r \in exclusive_lock_set'[t] <=> op # "LockShared"
      BY <1>1, <1>2, <1>13 DEF LockInv, TypeOK
    <2>4. Held(p, t, "SHARED") <=> op = "LockShared"
      BY <1>4, <1>5, <1>12
    <2>5. Held(p, t, "EXCLUSIVE") <=> op # "LockShared"
      BY <1>4, <1>5, <1>12
    <2> QED  BY <1>12, <1>14, <2>1, <2>2, <2>3, <2>4, <2>5 DEF Agree
  <1>17. \A u \in Txns, x \in Rids : Agree(u, x)'
    BY <1>2, <1>15, <1>16, AgreeStep
  <1>18. NothingToRelease'
    <2>1. ending[t].phase = "no"
      BY <1>1 DEF LockInv, CallsRunning
    <2>2. \A u \in Txns : u # t => shared_lock_set'[u] = shared_lock_set[u]
                                   /\ exclusive_lock_set'[u] = exclusive_lock_set[u]
      BY <1>1, <1>2 DEF LockInv, TypeOK
    <2> QED  BY <1>1, <2>1, <2>2 DEF MatchInv, NothingToRelease
  <1> QED  BY <1>17, <1>18 DEF MatchInv

\* Unlock removes the transaction's only request.
LEMMA UnlockMatch ==
    ASSUME LockInv, MatchInv, NEW t \in Txns, NEW r \in Rids, Unlock(t, r)
    PROVE  MatchInv'
  <1> DEFINE q == request_queue[r]
             k == RequestOf(q, t)
             p == RemoveAt(q, k)
  <1>1. /\ k # 0 /\ call[t] = NoCall /\ ending[t].phase = "no" /\ UNCHANGED ending
        /\ request_queue' = [request_queue EXCEPT ![r] = p]
        /\ shared_lock_set' = [shared_lock_set EXCEPT ![t] = @ \ {r}]
        /\ exclusive_lock_set' = [exclusive_lock_set EXCEPT ![t] = @ \ {r}]
        /\ call' = [u \in Txns |->
                      IF call[u] # NoCall /\ call[u].rid = r /\ call[u].at = "asleep"
                      THEN [call[u] EXCEPT !.at = "awake"] ELSE call[u]]
    BY DEF Unlock, DoUnlock, NotifyAll
  <1>2. q \in Seq(Request) /\ One(q, t)
    BY DEF LockInv, TypeOK, MatchInv, Agree
  <1>3. k \in 1 .. Len(q) /\ q[k].txn = t
    BY <1>1, <1>2, RequestOfProperties
  <1>4. Only(q, t, k)
    BY <1>2, <1>3, OneIsOnly
  <1> HIDE DEF q, k
  <1>5. (\A u : u # t => Alike(p, q, u)) /\ Gone(p, t)
    BY <1>2, <1>4, RemoveAlike
  <1> HIDE DEF p
  <1>6. One(p, t) /\ ~Pending(p, t) /\ \A m : ~Held(p, t, m)
    BY <1>5, GoneMeans
  <1>7. \A u \in Txns, x \in Rids : /\ Upgrading(u, x)' <=> Upgrading(u, x)
                                    /\ Waits(u, x)' <=> Waits(u, x)
    <2>1. ASSUME NEW u \in Txns
          PROVE  /\ call'[u] # NoCall <=> call[u] # NoCall
                 /\ call[u] # NoCall => call'[u].op = call[u].op /\ call'[u].rid = call[u].rid
      <3>1. CASE call[u] # NoCall /\ call[u].rid = r /\ call[u].at = "asleep"
        <4>1. call'[u] = [call[u] EXCEPT !.at = "awake"] /\ call[u] \in Call
          BY <1>1, <3>1 DEF LockInv, TypeOK
        <4> DEFINE d == [call[u] EXCEPT !.at = "awake"]
        <4>2. d # NoCall /\ d.op = call[u].op /\ d.rid = call[u].rid
          BY <4>1, CallMoves
        <4> HIDE DEF d
        <4> QED  BY <3>1, <4>1, <4>2 DEF d
      <3>2. CASE ~(call[u] # NoCall /\ call[u].rid = r /\ call[u].at = "asleep")
        BY <1>1, <3>2
      <3> QED  BY <3>1, <3>2
    <2>2. \A u \in Txns, x \in Rids : Upgrading(u, x)' <=> Upgrading(u, x)
      BY <2>1 DEF Upgrading
    <2> QED  BY <2>1, <2>2 DEF Waits
  <1>8. request_queue'[r] = p
        /\ (\A x \in Rids : x # r => request_queue'[x] = request_queue[x])
    BY <1>1 DEF LockInv, TypeOK
  <1>9. ASSUME NEW u \in Txns, NEW x \in Rids, u # t \/ x # r
        PROVE  /\ Alike(request_queue'[x], request_queue[x], u)
               /\ x \in shared_lock_set'[u] <=> x \in shared_lock_set[u]
               /\ x \in exclusive_lock_set'[u] <=> x \in exclusive_lock_set[u]
    <2>1. Alike(request_queue'[x], request_queue[x], u)
      BY <1>5, <1>8, <1>9, SameQueueAlike DEF q
    <2> QED  BY <1>1, <1>9, <2>1 DEF LockInv, TypeOK
  <1>10. Agree(t, r)'
    <2>1. ~Waits(t, r) /\ ~Upgrading(t, r)
      BY <1>1 DEF Waits, Upgrading
    <2>2. r \notin shared_lock_set'[t] /\ r \notin exclusive_lock_set'[t]
      BY <1>1 DEF LockInv, TypeOK
    <2> QED  BY <1>6, <1>7, <1>8, <2>1, <2>2 DEF Agree
  <1>11. \A u \in Txns, x \in Rids : Agree(u, x)'
    BY <1>7, <1>9, <1>10, AgreeStep
  <1>12. NothingToRelease'
    BY <1>1 DEF MatchInv, NothingToRelease, LockInv, TypeOK
  <1> QED  BY <1>11, <1>12 DEF MatchInv

\* A step that leaves the queues and the lock sets alone, and of every call the
\* operation and the resource.
LEMMA QuietMatch ==
    ASSUME MatchInv, UNCHANGED <<shared_lock_set, exclusive_lock_set, request_queue>>,
           \A u \in Txns : /\ call'[u] # NoCall <=> call[u] # NoCall
                           /\ call[u] # NoCall => call'[u].op = call[u].op
                                                  /\ call'[u].rid = call[u].rid,
           NothingToRelease'
    PROVE  MatchInv'
  <1>1. \A u \in Txns, x \in Rids : Upgrading(u, x)' <=> Upgrading(u, x)
    BY DEF Upgrading
  <1>2. \A u \in Txns, x \in Rids : Waits(u, x)' <=> Waits(u, x)
    BY <1>1 DEF Waits
  <1>3. \A u \in Txns, x \in Rids : Agree(u, x)'
    BY <1>1, <1>2 DEF MatchInv, Agree
  <1> QED  BY <1>3 DEF MatchInv

LEMMA CallMovesMatch ==
    ASSUME LockInv, MatchInv, NEW t \in Txns, Wake(t) \/ SpuriousWake(t)
    PROVE  MatchInv'
  <1>1. /\ call[t] # NoCall
        /\ UNCHANGED <<shared_lock_set, exclusive_lock_set, request_queue, ending>>
        /\ \E at \in {"asleep", "awake", "granting"} : call' = [call EXCEPT ![t].at = at]
    BY DEF Wake, SpuriousWake, LockInv, CallsRunning, sets
  <1>2. PICK at \in {"asleep", "awake", "granting"} : call' = [call EXCEPT ![t].at = at]
    BY <1>1
  <1> DEFINE d == [call[t] EXCEPT !.at = at]
  <1>3. d # NoCall /\ d.op = call[t].op /\ d.rid = call[t].rid
    BY <1>1, CallFields, CallMoves, ZenonT(30) DEF LockInv
  <1>4. call'[t] = d /\ \A u \in Txns : u # t => call'[u] = call[u]
    BY <1>2 DEF LockInv, TypeOK
  <1> HIDE DEF d
  <1>5. \A u \in Txns : /\ call'[u] # NoCall <=> call[u] # NoCall
                        /\ call[u] # NoCall => call'[u].op = call[u].op
                                               /\ call'[u].rid = call[u].rid
    BY <1>1, <1>3, <1>4
  <1>6. NothingToRelease'
    BY <1>1 DEF MatchInv, NothingToRelease
  <1> QED  BY <1>1, <1>5, <1>6, QuietMatch

\* Commit and Abort of a caller that has unlocked everything release nothing.
LEMMA EndMatch ==
    ASSUME ReleaseFirst, LockInv, MatchInv, NEW t \in Txns,
           \/ Begin(t) \/ RejectShrinking(t) \/ Commit(t) \/ Abort(t) \/ NextLoop(t)
           \/ ClearSets(t) \/ \E r \in Rids : RejectUpgrade(t, r)
    PROVE  MatchInv'
  <1>1. CASE \/ Begin(t) \/ RejectShrinking(t) \/ \E r \in Rids : RejectUpgrade(t, r)
    <2>1. UNCHANGED <<shared_lock_set, exclusive_lock_set, request_queue, call, ending>>
      BY <1>1 DEF Begin, RejectShrinking, RejectUpgrade, sets
    <2>2. NothingToRelease'
      BY <2>1 DEF MatchInv, NothingToRelease
    <2> QED  BY <2>1, <2>2, QuietMatch
  <1>2. CASE Commit(t) \/ Abort(t)
    <2>1. /\ UNCHANGED <<shared_lock_set, exclusive_lock_set, request_queue, call>>
          /\ shared_lock_set[t] = {} /\ exclusive_lock_set[t] = {}
          /\ ending' = [ending EXCEPT ![t] = [phase |-> "shared", left |-> shared_lock_set[t]]]
      BY <1>2 DEF Commit, Abort, MayEnd, StartEnding, sets
    <2>2. ending'[t].left = {} /\ \A u \in Txns : u # t => ending'[u] = ending[u]
      BY <2>1 DEF LockInv, TypeOK
    <2>3. NothingToRelease'
      BY <2>1, <2>2 DEF MatchInv, NothingToRelease
    <2> QED  BY <2>1, <2>3, QuietMatch
  <1>3. CASE NextLoop(t)
    <2>1. /\ UNCHANGED <<shared_lock_set, exclusive_lock_set, request_queue, call>>
          /\ ending' = [ending EXCEPT ![t] = NextPhase(t)] /\ ending[t].phase # "no"
      BY <1>3 DEF NextLoop, sets
    <2>2. shared_lock_set[t] = {} /\ exclusive_lock_set[t] = {}
      BY <2>1 DEF MatchInv, NothingToRelease
    <2>3. NextPhase(t).left = {}
      BY <2>2 DEF NextPhase
    <2>4. ending'[t].left = {} /\ \A u \in Txns : u # t => ending'[u] = ending[u]
      BY <2>1, <2>3 DEF LockInv, TypeOK
    <2>5. NothingToRelease'
      BY <2>1, <2>2, <2>4 DEF MatchInv, NothingToRelease
    <2> QED  BY <2>1, <2>5, QuietMatch
  <1>4. CASE ClearSets(t)
    <2>1. /\ UNCHANGED <<request_queue, call>> /\ ending[t].phase # "no"
          /\ shared_lock_set' = [shared_lock_set EXCEPT ![t] = {}]
          /\ exclusive_lock_set' = [exclusive_lock_set EXCEPT ![t] = {}]
          /\ ending' = [ending EXCEPT ![t].phase = "done"]
      BY <1>4 DEF ClearSets
    <2>2. shared_lock_set[t] = {} /\ exclusive_lock_set[t] = {} /\ ending[t].left = {}
      BY <2>1 DEF MatchInv, NothingToRelease
    <2>3. UNCHANGED <<shared_lock_set, exclusive_lock_set>>
      BY <2>1, <2>2 DEF LockInv, TypeOK
    <2>4. ending[t] \in Ending
      BY DEF LockInv, TypeOK
    <2>5. ending'[t].left = {} /\ \A u \in Txns : u # t => ending'[u] = ending[u]
      BY <2>1, <2>2, <2>4 DEF LockInv, TypeOK, Ending
    <2>6. NothingToRelease'
      BY <2>2, <2>3, <2>5 DEF MatchInv, NothingToRelease
    <2> QED  BY <2>1, <2>3, <2>6, QuietMatch
  <1> QED  BY <1>1, <1>2, <1>3, <1>4

LEMMA NextMatch ==
    ASSUME ~Relock, ReleaseFirst, LockInv, MatchInv, [Next]_vars
    PROVE  MatchInv'
  <1>1. CASE UNCHANGED vars
    BY <1>1, QuietMatch DEF vars, MatchInv, NothingToRelease
  <1>2. ASSUME NEW t \in Txns, NEW r \in Rids, LockShared(t, r)
        PROVE  MatchInv'
    BY <1>2, EnqueueMatch DEF LockShared, Modes
  <1>3. ASSUME NEW t \in Txns, NEW r \in Rids, LockExclusive(t, r)
        PROVE  MatchInv'
    BY <1>3, EnqueueMatch DEF LockExclusive, Modes
  <1>4. ASSUME NEW t \in Txns, NEW r \in Rids, ReleaseNext(t, r)
        PROVE  FALSE
    BY <1>4 DEF ReleaseNext, LockInv, CallsRunning, MatchInv, NothingToRelease
  <1>5. CASE AllDone
    BY <1>1, <1>5 DEF AllDone
  <1>6. CASE Next
    BY <1>2, <1>3, <1>4, <1>5, <1>6, LockUpgradeMatch, GrantMatch, UnlockMatch,
       CallMovesMatch, EndMatch DEF Next
  <1> QED  BY <1>1, <1>6

LEMMA MatchInvMeans ==
    ASSUME LockInv, MatchInv
    PROVE  QueuesMatchLockSets
  <1> SUFFICES ASSUME NEW t \in Txns, NEW r \in Rids
               PROVE  /\ Cardinality(RequestsOf(t, r)) <= 1
                      /\ r \in shared_lock_set[t] <=>
                            \/ HasGranted(t, r, "SHARED")
                            \/ HasGranted(t, r, "EXCLUSIVE") /\ Upgrading(t, r)
                      /\ r \in exclusive_lock_set[t] <=>
                            HasGranted(t, r, "EXCLUSIVE") /\ ~Upgrading(t, r)
                      /\ (\E i \in RequestsOf(t, r) : ~request_queue[r][i].granted) <=>
                            call[t] # NoCall /\ call[t].rid = r /\ ~Upgrading(t, r)
    BY DEF QueuesMatchLockSets
  <1> DEFINE q == request_queue[r]
             R == RequestsOf(t, r)
  <1>1. Agree(t, r) /\ q \in Seq(Request)
    BY DEF MatchInv, LockInv, TypeOK
  <1>2. DOMAIN q = 1 .. Len(q)
    <2> HIDE DEF q
    <2> QED  BY <1>1
  <1>3. R = {i \in 1 .. Len(q) : q[i].txn = t}
    BY <1>2 DEF RequestsOf
  <1>4. \A m : HasGranted(t, r, m) <=> Held(q, t, m)
    BY <1>3 DEF HasGranted, Held
  <1>5. (\E i \in RequestsOf(t, r) : ~request_queue[r][i].granted) <=> Pending(q, t)
    BY <1>3 DEF Pending
  <1>6. Cardinality(R) <= 1
    <2>1. CASE R = {}
      BY <2>1, FS_EmptySet
    <2>2. ASSUME NEW k \in R
          PROVE  Cardinality(R) <= 1
      <3>1. R = {k}
        BY <1>1, <1>3, <2>2 DEF Agree, One
      <3>2. Cardinality({k}) = 1
        BY FS_Singleton
      <3> QED  BY <3>1, <3>2
    <2> QED  BY <2>1, <2>2
  <1> QED  BY <1>1, <1>4, <1>5, <1>6 DEF Agree, Waits

(***************************************************************************)
(* For callers that ask for each lock once and unlock before they end, the *)
(* lock table and the lock sets tell the same story, request by request.   *)
(* Both hypotheses are needed: asking for X on what is held in S mode      *)
(* leaves two requests behind, and Commit with locks held may stop early.  *)
(***************************************************************************)
THEOREM QueuesCorrect ==
    ASSUME ~ExternalAbort, ~Relock, ReleaseFirst
    PROVE  Spec => []QueuesMatchLockSets
  <1>1. Init => MatchInv
    <2> SUFFICES ASSUME Init PROVE MatchInv
      OBVIOUS
    <2>1. \A r \in Rids : request_queue[r] = << >> /\ Len(request_queue[r]) = 0
      BY DEF Init
    <2>2. \A t \in Txns, r \in Rids : Agree(t, r)
      BY <2>1 DEF Init, Agree, One, Held, Pending, Waits, Upgrading
    <2>3. NothingToRelease
      BY DEF Init, NothingToRelease, NotEnding
    <2> QED  BY <2>2, <2>3 DEF MatchInv
  <1>2. LockInv /\ MatchInv /\ [Next]_vars => MatchInv'
    BY NextMatch
  <1>3. LockInv /\ MatchInv => QueuesMatchLockSets
    BY MatchInvMeans
  <1> QED  BY <1>1, <1>2, <1>3, LockInvariance, PTL DEF Spec
=============================================================================
