-------------------------- MODULE PageGuardProofs --------------------------
(***************************************************************************)
(* Pins, latches and writes of the page guards, for any number of threads, *)
(* guard variables, frames and pages.                                      *)
(***************************************************************************)
EXTENDS PageGuard, FiniteSetTheorems, TLAPS

-----------------------------------------------------------------------------
(* The inductive invariant. *)

Kinds == {"B", "R", "W"}
GuardType == [kind : Kinds, frame : Frames \cup {NoFrame}, dirty : BOOLEAN]
Fetching == [at : {"latch"}, v : Vars, kind : {"R", "W"}, f : Frames]
Dropping == [at : {"unpin"}, v : Vars, from : Vars]

Types ==
    /\ page \in [Frames -> Int]
    /\ pins \in [Frames -> Nat]
    /\ dirty \in [Frames -> BOOLEAN]
    /\ unsaved \in [Frames -> BOOLEAN]
    /\ next \in Nat
    /\ writer \in [Frames -> Threads \cup {NoThread}]
    /\ readers \in [Frames -> [Threads -> Int]]
    /\ guard \in [Threads -> [Vars -> GuardType]]
    /\ pc \in [Threads -> {Idle} \cup Fetching \cup Dropping]
    /\ leaked \in [Frames -> Nat]

\* The variable a fetch will fill is empty, and those a drop is about are not.
Targets ==
    \A t \in Threads :
        /\ pc[t].at = "latch" => ~Live(t, pc[t].v)
        /\ pc[t].at = "unpin" => Live(t, pc[t].v) /\ Live(t, pc[t].from)

\* A frame without a page has nothing to save, and no guard or fetch is about one.
InUse ==
    /\ \A f \in Frames : page[f] = -1 => ~unsaved[f]
    /\ \A t \in Threads, v \in Vars : Live(t, v) => page[guard[t][v].frame] # -1
    /\ \A t \in Threads : pc[t].at = "latch" => page[pc[t].f] # -1

\* Two guards of one thread never hold the same latch exclusively.
OneWriter ==
    \A t \in Threads, f \in Frames, v, u \in Vars :
        Holding(t, v, "W", f) /\ Holding(t, u, "W", f) => v = u

\* A write that is not on disk is known: to the frame, or to a guard that tells the
\* frame when it is dropped.
WritesKnown ==
    \A f \in Frames :
        unsaved[f] => \/ dirty[f]
                      \/ \E t \in Threads, v \in Vars :
                            guard[t][v].frame = f /\ DropDirty(guard[t][v])

PinInv == Types /\ Targets /\ PinsMatchGuards
LatchInv == OneWriter /\ LatchesMatchGuards
WriteInv == InUse /\ WritesKnown /\ NoLostWrite
-----------------------------------------------------------------------------
(* Counting. *)

Num(b) == IF b THEN 1 ELSE 0

\* Two subsets of a finite set that differ in x at most.
LEMMA CountChange ==
    ASSUME NEW D, IsFiniteSet(D), NEW S \in SUBSET D, NEW T \in SUBSET D, NEW x \in D,
           \A y \in D : y # x => (y \in S <=> y \in T)
    PROVE  /\ Cardinality(S) \in Nat /\ Cardinality(T) \in Nat
           /\ Cardinality(T) = Cardinality(S) + Num(x \in T) - Num(x \in S)
           /\ x \in S => Cardinality(S) > 0
  <1>1. IsFiniteSet(S) /\ IsFiniteSet(T)
    BY FS_Subset
  <1>2. Cardinality(S) \in Nat /\ Cardinality(T) \in Nat
    BY <1>1, FS_CardinalityType
  <1>3. CASE (x \in S) <=> (x \in T)
    <2>1. S = T
      BY <1>3
    <2>2. Num(x \in T) = Num(x \in S) /\ Num(x \in T) \in Nat
      BY <1>3 DEF Num
    <2>3. x \in S => Cardinality(S) > 0
      BY <1>1, <1>2, FS_EmptySet
    <2> QED  BY <1>2, <2>1, <2>2, <2>3
  <1>4. CASE x \in T /\ x \notin S
    <2>1. T = S \cup {x}
      BY <1>4
    <2>2. Cardinality(T) = Cardinality(S) + 1
      BY <1>1, <1>4, <2>1, FS_AddElement
    <2> QED  BY <1>2, <1>4, <2>2 DEF Num
  <1>5. CASE x \in S /\ x \notin T
    <2>1. S = T \cup {x}
      BY <1>5
    <2>2. Cardinality(S) = Cardinality(T) + 1
      BY <1>1, <1>5, <2>1, FS_AddElement
    <2> QED  BY <1>2, <1>5, <2>2 DEF Num
  <1> QED  BY <1>3, <1>4, <1>5

GuardMap == [Threads -> [Vars -> GuardType]]
GuardsIn(g, f) == {tv \in Threads \X Vars : g[tv[1]][tv[2]].frame = f}

Guarded(g, f) == Cardinality(GuardsIn(g, f))

\* g and h differ in the guard v of t at most.
Differ(g, h, t, v) == \A s \in Threads, u \in Vars : s # t \/ u # v => h[s][u] = g[s][u]

\* What a guard and a thread's place add to the pins of a frame.
On(x, f) == IF x.frame = f THEN 1 ELSE 0
Waiting(c, f) == IF c.at = "latch" /\ c.f = f THEN 1 ELSE 0

Shifted(new, old, more, less) == new = old + more - less

LEMMA PutCount ==
    ASSUME NEW g, NEW h, NEW t \in Threads, NEW v \in Vars, Differ(g, h, t, v),
           NEW x, x = g[t][v], NEW y, y = h[t][v], NEW f
    PROVE  /\ Guarded(g, f) \in Nat /\ Guarded(h, f) \in Nat
           /\ Shifted(Guarded(h, f), Guarded(g, f), On(y, f), On(x, f))
           /\ x.frame = f => Guarded(g, f) > 0
  <1> DEFINE D == Threads \X Vars
             S == GuardsIn(g, f)
             T == GuardsIn(h, f)
             z == <<t, v>>
  <1>1. IsFiniteSet(D)
    BY GuardAssumption, FS_Product
  <1>2. S \in SUBSET D /\ T \in SUBSET D /\ z \in D
    BY DEF GuardsIn
  <1>3. (z \in S <=> x.frame = f) /\ (z \in T <=> y.frame = f)
    BY DEF GuardsIn
  <1>4. ASSUME NEW w \in D, w # z PROVE w \in S <=> w \in T
    <2>1. PICK s \in Threads, u \in Vars : w = <<s, u>>
      OBVIOUS
    <2>2. h[s][u] = g[s][u]
      BY <1>4, <2>1 DEF Differ
    <2> QED  BY <2>1, <2>2 DEF GuardsIn
  <1> HIDE DEF D, S, T, z
  <1>5. /\ Cardinality(S) \in Nat /\ Cardinality(T) \in Nat
        /\ Cardinality(T) = Cardinality(S) + Num(z \in T) - Num(z \in S)
        /\ z \in S => Cardinality(S) > 0
    BY <1>1, <1>2, <1>4, CountChange
  <1>6. Num(z \in T) = On(y, f) /\ Num(z \in S) = On(x, f)
    BY <1>3 DEF Num, On
  <1> QED  BY <1>3, <1>5, <1>6 DEF S, T, Guarded, Shifted

FetchesOf(c, f) == {t \in Threads : c[t].at = "latch" /\ c[t].f = f}

LEMMA FetchCount ==
    ASSUME NEW c, NEW d, NEW t \in Threads, \A s \in Threads : s # t => d[s] = c[s], NEW f
    PROVE  /\ Cardinality(FetchesOf(c, f)) \in Nat /\ Cardinality(FetchesOf(d, f)) \in Nat
           /\ Cardinality(FetchesOf(d, f)) =
                Cardinality(FetchesOf(c, f)) + Num(t \in FetchesOf(d, f))
                                             - Num(t \in FetchesOf(c, f))
           /\ t \in FetchesOf(c, f) => Cardinality(FetchesOf(c, f)) > 0
  <1>1. FetchesOf(c, f) \in SUBSET Threads /\ FetchesOf(d, f) \in SUBSET Threads
    BY DEF FetchesOf
  <1>2. \A s \in Threads : s # t => (s \in FetchesOf(c, f) <=> s \in FetchesOf(d, f))
    BY DEF FetchesOf
  <1> QED  BY <1>1, <1>2, GuardAssumption, CountChange

\* What the pins of a frame should be.
Owed(f) == leaked[f] + Cardinality(Guards(f)) + Cardinality(FetchesOf(pc, f))

LEMMA PinsAreOwed == PinsMatchGuards <=> \A f \in Frames : pins[f] = Owed(f)
  BY DEF PinsMatchGuards, Owed, FetchesOf

\* The fields of pc in each of a thread's places.
LEMMA Places ==
    ASSUME Types, NEW t \in Threads
    PROVE  /\ pc[t].at \in {"idle", "latch", "unpin"}
           /\ pc[t].at = "idle" => pc[t] = Idle
           /\ pc[t].at = "latch" => /\ pc[t].v \in Vars /\ pc[t].f \in Frames
                                    /\ pc[t].kind \in {"R", "W"}
           /\ pc[t].at = "unpin" => pc[t].v \in Vars /\ pc[t].from \in Vars
           /\ Idle.at = "idle"
  <1>1. Idle.at = "idle"
    BY DEF Idle
  <1>2. CASE pc[t] = Idle
    BY <1>1, <1>2
  <1>3. CASE pc[t] \in Fetching
    BY <1>1, <1>3 DEF Fetching
  <1>4. CASE pc[t] \in Dropping
    BY <1>1, <1>4 DEF Dropping
  <1> QED  BY <1>2, <1>3, <1>4 DEF Types
-----------------------------------------------------------------------------
(* What the steps do to the guards and the frames. *)

LEMMA GuardIs ==
    ASSUME NEW kind \in Kinds, NEW f \in Frames \cup {NoFrame}, NEW d \in BOOLEAN
    PROVE  /\ Guard(kind, f, d) \in GuardType /\ Guard(kind, f, d).frame = f
           /\ Guard(kind, f, d).kind = kind /\ Guard(kind, f, d).dirty = d
  BY DEF Guard, GuardType

LEMMA EmptyGuardIs ==
    EmptyGuard \in GuardType /\ EmptyGuard.frame = NoFrame /\ EmptyGuard.kind = "B"
  BY GuardIs, ZenonT(30) DEF EmptyGuard, Kinds

LEMMA PutGuard ==
    ASSUME NEW g \in GuardMap, NEW t \in Threads, NEW v \in Vars, NEW x \in GuardType,
           NEW h, h = [g EXCEPT ![t][v] = x]
    PROVE  h \in GuardMap /\ h[t][v] = x /\ Differ(g, h, t, v)
  BY DEF GuardMap, Differ

\* Dropping v, or moving from into it.
Moved(g, t, v, from) ==
    IF v = from THEN [g EXCEPT ![t][v] = EmptyGuard]
    ELSE [g EXCEPT ![t][v] = g[t][from], ![t][from] = EmptyGuard]

Less(old, less) == old - less

LEMMA MovedGuards ==
    ASSUME NEW g \in GuardMap, NEW t \in Threads, NEW v \in Vars, NEW from \in Vars,
           NEW h, h = Moved(g, t, v, from), NEW x, x = g[t][v]
    PROVE  /\ h \in GuardMap
           /\ h[t][from] = EmptyGuard
           /\ v # from => h[t][v] = g[t][from]
           /\ \A s \in Threads, u \in Vars :
                 s # t \/ (u # v /\ u # from) => h[s][u] = g[s][u]
           /\ \A f \in Frames :
                 /\ Guarded(g, f) \in Nat
                 /\ Guarded(h, f) = Less(Guarded(g, f), On(x, f))
                 /\ x.frame = f => Guarded(g, f) > 0
  <1>1. EmptyGuard \in GuardType /\ \A f \in Frames : On(EmptyGuard, f) = 0
    BY EmptyGuardIs, GuardAssumption DEF On
  <1>2. CASE v = from
    <2>1. h = [g EXCEPT ![t][v] = EmptyGuard]
      BY <1>2 DEF Moved
    <2>2. h \in GuardMap /\ h[t][v] = EmptyGuard /\ Differ(g, h, t, v)
      BY <1>1, <2>1, PutGuard
    <2>3. ASSUME NEW f \in Frames
          PROVE  /\ Guarded(g, f) \in Nat
                 /\ Guarded(h, f) = Less(Guarded(g, f), On(x, f))
                 /\ x.frame = f => Guarded(g, f) > 0
      <3>1. EmptyGuard = h[t][v]
        BY <2>2
      <3>2. /\ Guarded(g, f) \in Nat /\ (x.frame = f => Guarded(g, f) > 0)
            /\ Shifted(Guarded(h, f), Guarded(g, f), On(EmptyGuard, f), On(x, f))
        BY <2>2, <3>1, PutCount
      <3>3. On(x, f) \in Nat /\ On(EmptyGuard, f) = 0
        BY <1>1 DEF On
      <3> QED  BY <3>2, <3>3 DEF Shifted, Less
    <2> QED  BY <1>2, <2>2, <2>3 DEF Differ
  <1>3. CASE v # from
    <2> DEFINE m == [g EXCEPT ![t][v] = g[t][from]]
    <2>1. g[t][from] \in GuardType
      BY DEF GuardMap
    <2>2. m \in GuardMap /\ m[t][v] = g[t][from] /\ Differ(g, m, t, v)
      BY <2>1, PutGuard
    <2>3. h = [m EXCEPT ![t][from] = EmptyGuard]
      BY <1>3 DEF Moved, GuardMap
    <2> HIDE DEF m
    <2>4. h \in GuardMap /\ h[t][from] = EmptyGuard /\ Differ(m, h, t, from)
      BY <1>1, <2>2, <2>3, PutGuard
    <2>5. ASSUME NEW f \in Frames
          PROVE  /\ Guarded(g, f) \in Nat
                 /\ Guarded(h, f) =
                      Guarded(g, f) - On(g[t][v], f)
                 /\ g[t][v].frame = f => Guarded(g, f) > 0
      <3> DEFINE y == g[t][from]
      <3>1. x = g[t][v] /\ y = m[t][v] /\ y = m[t][from] /\ EmptyGuard = h[t][from]
        BY <1>3, <2>2, <2>4 DEF Differ
      <3> HIDE DEF y
      <3>2. /\ Guarded(g, f) \in Nat /\ Guarded(m, f) \in Nat
            /\ Shifted(Guarded(m, f), Guarded(g, f), On(y, f), On(x, f))
            /\ x.frame = f => Guarded(g, f) > 0
        BY <2>2, <3>1, PutCount
      <3>3. Shifted(Guarded(h, f), Guarded(m, f), On(EmptyGuard, f), On(y, f))
        BY <2>4, <3>1, PutCount
      <3>4. On(x, f) \in Nat /\ On(y, f) \in Nat /\ On(EmptyGuard, f) = 0
        BY <1>1 DEF On
      <3>5. Guarded(h, f) = Guarded(g, f) - On(x, f)
        BY <3>2, <3>3, <3>4 DEF Shifted
      <3> QED  BY <3>1, <3>2, <3>5
    <2>6. h[t][v] = g[t][from]
      BY <1>3, <2>2, <2>4 DEF Differ
    <2>7. \A s \in Threads, u \in Vars : s # t \/ (u # v /\ u # from) => h[s][u] = g[s][u]
      BY <2>2, <2>4 DEF Differ
    <2>8. \A f \in Frames : Guarded(h, f) = Less(Guarded(g, f), On(x, f))
      BY <2>5 DEF Less
    <2> QED  BY <2>4, <2>5, <2>6, <2>7, <2>8
  <1> QED  BY <1>2, <1>3

LEMMA FrameForIs ==
    ASSUME NEW p, NEW f \in FrameFor(p)
    PROVE  f \in Frames /\ (page[f] = p \/ page[f] = -1 \/ pins[f] = 0)
  <1>1. CASE Holds(p) # {}
    BY <1>1 DEF FrameFor, Holds
  <1>2. CASE Holds(p) = {} /\ Holds(-1) # {}
    <2>1. f = CHOOSE x \in Holds(-1) : TRUE
      BY <1>2 DEF FrameFor
    <2>2. f \in Holds(-1)
      BY <1>2, <2>1
    <2> QED  BY <2>2 DEF Holds
  <1>3. CASE Holds(p) = {} /\ Holds(-1) = {}
    BY <1>3 DEF FrameFor
  <1> QED  BY <1>1, <1>2, <1>3

LEMMA TakeIs ==
    ASSUME Types, NEW f \in Frames, NEW p \in Nat, Take(f, p)
    PROVE  /\ page' \in [Frames -> Int] /\ pins' \in [Frames -> Nat]
           /\ dirty' \in [Frames -> BOOLEAN] /\ unsaved' \in [Frames -> BOOLEAN]
           /\ \A x \in Frames : pins'[x] = pins[x] + Num(f = x)
  <1>1. page' \in [Frames -> Int] /\ pins' \in [Frames -> Nat]
    BY DEF Take, Types
  <1>2. dirty' \in [Frames -> BOOLEAN] /\ unsaved' \in [Frames -> BOOLEAN]
    <2> DEFINE dd == dirty[f] /\ ~(page[f] # p)
               uu == unsaved[f] /\ ~(page[f] # p)
    <2>1. dd \in BOOLEAN /\ uu \in BOOLEAN
      OBVIOUS
    <2>2. dirty' = [dirty EXCEPT ![f] = dd] /\ unsaved' = [unsaved EXCEPT ![f] = uu]
      BY DEF Take
    <2> HIDE DEF dd, uu
    <2> QED  BY <2>1, <2>2 DEF Types
  <1>3. \A x \in Frames : pins'[x] = pins[x] + Num(f = x)
    BY DEF Take, Types, Num
  <1> QED  BY <1>1, <1>2, <1>3

LEMMA OwedChange ==
    ASSUME NEW t \in Threads, NEW v \in Vars, Differ(guard, guard', t, v),
           \A s \in Threads : s # t => pc'[s] = pc[s],
           leaked \in [Frames -> Nat], leaked' \in [Frames -> Nat], NEW f \in Frames
    PROVE  /\ Owed(f) \in Nat
           /\ Owed(f)' = Owed(f) + (leaked'[f] - leaked[f])
                         + On(guard'[t][v], f) - On(guard[t][v], f)
                         + Waiting(pc'[t], f)
                         - Waiting(pc[t], f)
  <1> DEFINE G == Guarded(guard, f)
             H == Guarded(guard', f)
             C == Cardinality(FetchesOf(pc, f))
             D == Cardinality(FetchesOf(pc', f))
             a == On(guard'[t][v], f)
             b == On(guard[t][v], f)
             c == Waiting(pc'[t], f)
             d == Waiting(pc[t], f)
  <1>1. G \in Nat /\ H \in Nat /\ H = G + a - b
    <2> DEFINE x == guard[t][v]
               y == guard'[t][v]
    <2>1. x = guard[t][v] /\ y = guard'[t][v]
      OBVIOUS
    <2> HIDE DEF x, y
    <2>2. /\ Guarded(guard, f) \in Nat /\ Guarded(guard', f) \in Nat
          /\ Shifted(Guarded(guard', f), Guarded(guard, f), On(y, f), On(x, f))
      BY <2>1, PutCount
    <2> QED  BY <2>2 DEF x, y, Shifted
  <1>2. C \in Nat /\ D \in Nat /\ D = C + Num(t \in FetchesOf(pc', f)) - Num(t \in FetchesOf(pc, f))
    BY FetchCount
  <1>3. Num(t \in FetchesOf(pc', f)) = c /\ Num(t \in FetchesOf(pc, f)) = d
    BY DEF FetchesOf, Num, Waiting
  <1>4. Owed(f) = leaked[f] + G + C /\ Owed(f)' = leaked'[f] + H + D
    BY DEF Owed, Guards, Guarded, GuardsIn, FetchesOf
  <1>5. a \in Nat /\ b \in Nat /\ c \in Nat /\ d \in Nat /\ leaked[f] \in Nat /\ leaked'[f] \in Nat
    BY DEF On, Waiting
  <1> HIDE DEF G, H, C, D, a, b, c, d
  <1>6. Owed(f) \in Nat /\ Owed(f)' = Owed(f) + (leaked'[f] - leaked[f]) + a - b + c - d
    BY <1>1, <1>2, <1>3, <1>4, <1>5
  <1> QED  BY <1>6 DEF a, b, c, d
-----------------------------------------------------------------------------
(* Pins. *)

LEMMA OwedNext ==
    ASSUME \A f \in Frames : pins'[f] = Owed(f)'
    PROVE  PinsMatchGuards'
  BY DEF PinsMatchGuards, Owed, FetchesOf

\* The pin and the guard, or the fetch, that it is for come together.
LEMMA NewPageGuardedPins ==
    ASSUME PinInv, NEW t \in Threads, NEW v \in Vars, NewPageGuarded(t, v)
    PROVE  PinInv'
  <1> USE DEF PinInv
  <1>1. pc[t] = Idle /\ guard[t][v].frame = NoFrame /\ UNCHANGED <<writer, readers, pc, leaked>>
    BY DEF NewPageGuarded, Fresh, Live, latches
  <1>2. CASE FrameFor(next) = {}
    <2>1. UNCHANGED <<page, pins, dirty, unsaved, lost, next, guard>>
      BY <1>2 DEF NewPageGuarded, pool
    <2> QED  BY <1>1, <2>1 DEF Types, Targets, Live, PinsMatchGuards, Guards
  <1>3. CASE FrameFor(next) # {}
    <2>1. PICK f \in FrameFor(next) :
             /\ Take(f, next) /\ next' = next + 1
             /\ guard' = [guard EXCEPT ![t][v] = Guard("B", f, FALSE)]
      BY <1>3 DEF NewPageGuarded
    <2>2. f \in Frames /\ next \in Nat
      BY FrameForIs DEF Types
    <2> DEFINE x == Guard("B", f, FALSE)
    <2>3. x \in GuardType /\ x.frame = f
      BY <2>2, GuardIs DEF Kinds
    <2>4. guard' \in GuardMap /\ guard'[t][v] = x /\ Differ(guard, guard', t, v)
      <3>1. guard \in GuardMap
        BY DEF Types, GuardMap
      <3> HIDE DEF x
      <3>2. guard' = [guard EXCEPT ![t][v] = x]
        BY <2>1 DEF x
      <3> QED  BY <2>3, <3>1, <3>2 DEF GuardMap, Differ
    <2> HIDE DEF x
    <2>5. Types'
      <3>1. /\ page' \in [Frames -> Int] /\ pins' \in [Frames -> Nat]
            /\ dirty' \in [Frames -> BOOLEAN] /\ unsaved' \in [Frames -> BOOLEAN]
        BY <2>1, <2>2, TakeIs
      <3>2. next' \in Nat
        BY <2>1, <2>2
      <3> QED  BY <1>1, <2>4, <3>1, <3>2 DEF Types, GuardMap
    <2>6. Targets'
      <3>1. \A s \in Threads : pc[s].at \in {"latch", "unpin"} => s # t
        BY <1>1 DEF Idle
      <3> QED  BY <1>1, <2>4, <3>1, Places DEF Targets, Live, Differ
    <2>7. ASSUME NEW y \in Frames PROVE pins'[y] = Owed(y)'
      <3>1. pins'[y] = pins[y] + Num(f = y) /\ pins[y] = Owed(y)
        BY <2>1, <2>2, TakeIs, PinsAreOwed
      <3>2. /\ Owed(y) \in Nat
            /\ Owed(y)' = Owed(y) + (leaked'[y] - leaked[y]) + On(guard'[t][v], y)
                          - On(guard[t][v], y) + Waiting(pc'[t], y) - Waiting(pc[t], y)
        BY <1>1, <2>4, OwedChange DEF Types
      <3>3. On(guard'[t][v], y) = Num(f = y) /\ On(guard[t][v], y) = 0
        BY <1>1, <2>3, <2>4, GuardAssumption DEF On, Num
      <3>4. Waiting(pc'[t], y) = Waiting(pc[t], y) /\ Waiting(pc[t], y) = 0
        BY <1>1 DEF Waiting, Idle
      <3>5. leaked'[y] = leaked[y] /\ leaked[y] \in Nat /\ Num(f = y) \in Nat
        BY <1>1 DEF Types, Num
      <3> QED  BY <3>1, <3>2, <3>3, <3>4, <3>5
    <2> QED  BY <2>5, <2>6, <2>7, OwedNext
  <1> QED  BY <1>2, <1>3

LEMMA FetchPagePins ==
    ASSUME PinInv, NEW t \in Threads, NEW v \in Vars, NEW kind \in {"R", "W"},
           NEW p \in 0 .. MaxPages - 1, FetchPage(t, v, kind, p)
    PROVE  PinInv'
  <1> USE DEF PinInv
  <1>1. /\ pc[t] = Idle /\ guard[t][v].frame = NoFrame
        /\ UNCHANGED <<writer, readers, guard, leaked>>
    BY DEF FetchPage, Fresh, Live, latches
  <1>2. CASE FrameFor(p) = {}
    <2>1. UNCHANGED <<page, pins, dirty, unsaved, lost, next, pc>>
      BY <1>2 DEF FetchPage, pool
    <2> QED  BY <1>1, <2>1 DEF Types, Targets, Live, PinsMatchGuards, Guards
  <1>3. CASE FrameFor(p) # {}
    <2> DEFINE c(f) == [at |-> "latch", v |-> v, kind |-> kind, f |-> f]
    <2>1. PICK f \in FrameFor(p) :
             Take(f, p) /\ UNCHANGED next /\ pc' = [pc EXCEPT ![t] = c(f)]
      BY <1>3 DEF FetchPage
    <2>2. f \in Frames /\ p \in Nat
      BY FrameForIs
    <2>3. c(f) \in Fetching /\ c(f).at = "latch" /\ c(f).f = f /\ c(f).v = v
      BY <2>2 DEF Fetching
    <2> HIDE DEF c
    <2>4. pc'[t] = c(f) /\ \A s \in Threads : s # t => pc'[s] = pc[s]
      BY <2>1 DEF Types
    <2>5. Types'
      <3>1. pc' \in [Threads -> {Idle} \cup Fetching \cup Dropping]
        BY <2>1, <2>3 DEF Types
      <3> QED  BY <1>1, <2>1, <2>2, <3>1, TakeIs DEF Types
    <2>6. Targets'
      BY <1>1, <2>3, <2>4 DEF Targets, Live
    <2>7. ASSUME NEW y \in Frames PROVE pins'[y] = Owed(y)'
      <3>1. pins'[y] = pins[y] + Num(f = y) /\ pins[y] = Owed(y)
        BY <2>1, <2>2, TakeIs, PinsAreOwed
      <3>2. Differ(guard, guard', t, v)
        BY <1>1 DEF Differ
      <3>3. /\ Owed(y) \in Nat
            /\ Owed(y)' = Owed(y) + (leaked'[y] - leaked[y]) + On(guard'[t][v], y)
                          - On(guard[t][v], y) + Waiting(pc'[t], y) - Waiting(pc[t], y)
        BY <1>1, <2>4, <3>2, OwedChange DEF Types
      <3>4. On(guard'[t][v], y) = On(guard[t][v], y) /\ On(guard[t][v], y) = 0
        BY <1>1, GuardAssumption DEF On
      <3>5. Waiting(pc'[t], y) = Num(f = y) /\ Waiting(pc[t], y) = 0
        BY <1>1, <2>3, <2>4 DEF Waiting, Idle, Num
      <3>6. leaked'[y] = leaked[y] /\ leaked[y] \in Nat /\ Num(f = y) \in Nat
        BY <1>1 DEF Types, Num
      <3> QED  BY <3>1, <3>3, <3>4, <3>5, <3>6
    <2> QED  BY <2>5, <2>6, <2>7, OwedNext
  <1> QED  BY <1>2, <1>3

\* The latch is there: the fetch becomes a guard.
LEMMA LatchPins ==
    ASSUME PinInv, NEW t \in Threads, Latch(t)
    PROVE  PinInv'
  <1> USE DEF PinInv
  <1> DEFINE f == pc[t].f
             v == pc[t].v
             x == Guard(pc[t].kind, f, FALSE)
  <1>1. /\ pc[t].at = "latch"
        /\ guard' = [guard EXCEPT ![t][v] = x] /\ pc' = [pc EXCEPT ![t] = Idle]
        /\ UNCHANGED <<page, pins, dirty, unsaved, lost, next, leaked>>
    BY DEF Latch, pool
  <1>2. f \in Frames /\ v \in Vars /\ pc[t].kind \in {"R", "W"}
    BY <1>1, Places
  <1>3. x \in GuardType /\ x.frame = f
    <2>1. pc[t].kind \in Kinds /\ f \in Frames \cup {NoFrame}
      BY <1>2 DEF Kinds
    <2> HIDE DEF f
    <2> QED  BY <2>1, GuardIs
  <1>4. guard[t][v].frame = NoFrame
    BY <1>1 DEF Targets, Live
  <1>5. pc'[t] = Idle /\ \A s \in Threads : s # t => pc'[s] = pc[s]
    BY <1>1 DEF Types
  <1>6. writer' \in [Frames -> Threads \cup {NoThread}] /\ readers' \in [Frames -> [Threads -> Int]]
    <2>1. CASE pc[t].kind = "W"
      BY <1>2, <2>1 DEF Latch, Types
    <2>2. CASE pc[t].kind # "W"
      <3>1. readers' = [readers EXCEPT ![f][t] = readers[f][t] + 1] /\ UNCHANGED writer
        BY <2>2 DEF Latch
      <3> QED  BY <1>2, <3>1 DEF Types
    <2> QED  BY <2>1, <2>2
  <1> HIDE DEF f, v, x
  <1>7. guard' \in GuardMap /\ guard'[t][v] = x /\ Differ(guard, guard', t, v)
    <2>1. guard \in GuardMap
      BY DEF Types, GuardMap
    <2>2. guard' = [guard EXCEPT ![t][v] = x]
      BY <1>1
    <2> QED  BY <1>2, <1>3, <2>1, <2>2 DEF GuardMap, Differ
  <1>8. Types'
    BY <1>1, <1>6, <1>7 DEF Types, GuardMap
  <1>9. Targets'
    <2> SUFFICES ASSUME NEW s \in Threads
                 PROVE  /\ pc'[s].at = "latch" => guard'[s][pc'[s].v].frame = NoFrame
                        /\ pc'[s].at = "unpin" => /\ guard'[s][pc'[s].v].frame # NoFrame
                                                  /\ guard'[s][pc'[s].from].frame # NoFrame
      BY DEF Targets, Live
    <2>1. CASE s = t
      BY <1>5, <2>1 DEF Idle
    <2>2. CASE s # t
      BY <1>5, <1>7, <2>2, Places DEF Targets, Live, Differ
    <2> QED  BY <2>1, <2>2
  <1>10. ASSUME NEW y \in Frames PROVE pins'[y] = Owed(y)'
    <2>1. pins'[y] = Owed(y)
      BY <1>1, PinsAreOwed
    <2>2. /\ Owed(y) \in Nat
          /\ Owed(y)' = Owed(y) + (leaked'[y] - leaked[y]) + On(guard'[t][v], y)
                        - On(guard[t][v], y) + Waiting(pc'[t], y) - Waiting(pc[t], y)
      BY <1>1, <1>2, <1>5, <1>7, OwedChange DEF Types
    <2>3. On(guard'[t][v], y) = Num(f = y) /\ On(guard[t][v], y) = 0
      BY <1>3, <1>4, <1>7, GuardAssumption DEF On, Num
    <2>4. Waiting(pc'[t], y) = 0 /\ Waiting(pc[t], y) = Num(f = y)
      BY <1>1, <1>5 DEF Waiting, Idle, Num, f
    <2>5. leaked'[y] = leaked[y] /\ leaked[y] \in Nat /\ Num(f = y) \in Nat
      BY <1>1 DEF Types, Num
    <2> QED  BY <2>1, <2>2, <2>3, <2>4, <2>5
  <1> QED  BY <1>8, <1>9, <1>10, OwedNext

\* The exception of Relatch leaves the pin to nobody.
LEMMA RelatchPins ==
    ASSUME PinInv, NEW t \in Threads, Relatch(t)
    PROVE  PinInv'
  <1> USE DEF PinInv
  <1> DEFINE f == pc[t].f
             v == pc[t].v
  <1>1. /\ pc[t].at = "latch"
        /\ leaked' = [leaked EXCEPT ![f] = @ + 1] /\ pc' = [pc EXCEPT ![t] = Idle]
        /\ UNCHANGED <<page, pins, dirty, unsaved, lost, next, writer, readers, guard>>
    BY DEF Relatch, pool, latches
  <1>2. f \in Frames /\ v \in Vars
    BY <1>1, Places
  <1>3. pc'[t] = Idle /\ \A s \in Threads : s # t => pc'[s] = pc[s]
    BY <1>1 DEF Types
  <1> HIDE DEF f, v
  <1>4. leaked' \in [Frames -> Nat] /\ \A y \in Frames : leaked'[y] = leaked[y] + Num(f = y)
    BY <1>1, <1>2 DEF Types, Num
  <1>5. Types'
    BY <1>1, <1>4 DEF Types
  <1>6. Targets'
    BY <1>1, <1>3 DEF Targets, Live, Idle
  <1>7. ASSUME NEW y \in Frames PROVE pins'[y] = Owed(y)'
    <2>1. pins'[y] = Owed(y)
      BY <1>1, PinsAreOwed
    <2>2. Differ(guard, guard', t, v)
      BY <1>1 DEF Differ
    <2>3. /\ Owed(y) \in Nat
          /\ Owed(y)' = Owed(y) + (leaked'[y] - leaked[y]) + On(guard'[t][v], y)
                        - On(guard[t][v], y) + Waiting(pc'[t], y) - Waiting(pc[t], y)
      BY <1>2, <1>3, <1>4, <2>2, OwedChange, SMTT(15) DEF Types
    <2>4. On(guard'[t][v], y) = On(guard[t][v], y) /\ On(guard[t][v], y) \in Nat
      BY <1>1 DEF On
    <2>5. Waiting(pc'[t], y) = 0 /\ Waiting(pc[t], y) = Num(f = y)
      BY <1>1, <1>3 DEF Waiting, Idle, Num, f
    <2>6. leaked'[y] - leaked[y] = Num(f = y) /\ Num(f = y) \in Nat
      BY <1>4 DEF Types, Num
    <2> QED  BY <2>1, <2>3, <2>4, <2>5, <2>6
  <1> QED  BY <1>5, <1>6, <1>7, OwedNext

\* A write marks the guard and stays on its frame.
LEMMA WritePins ==
    ASSUME PinInv, NEW t \in Threads, NEW v \in Vars, Write(t, v)
    PROVE  PinInv'
  <1> USE DEF PinInv
  <1> DEFINE g == guard[t][v]
             b == g.kind = "B"
             x == [g EXCEPT !.dirty = b]
  <1>1. /\ unsaved' = [unsaved EXCEPT ![g.frame] = TRUE]
        /\ guard' = [guard EXCEPT ![t][v] = x]
        /\ UNCHANGED <<page, pins, dirty, lost, next, writer, readers, pc, leaked>>
    BY DEF Write, latches
  <1>2. x \in GuardType /\ x.frame = g.frame
    <2>1. b \in BOOLEAN /\ g \in GuardType
      BY DEF Types
    <2> HIDE DEF b, g
    <2> QED  BY <2>1 DEF GuardType
  <1> HIDE DEF g, x
  <1>3. guard' \in GuardMap /\ guard'[t][v] = x /\ Differ(guard, guard', t, v)
    BY <1>1, <1>2 DEF Types, GuardMap, Differ
  <1>4. unsaved' \in [Frames -> BOOLEAN]
    BY <1>1 DEF Types
  <1>5. Types'
    BY <1>1, <1>3, <1>4 DEF Types, GuardMap
  <1>6. \A s \in Threads, u \in Vars : guard'[s][u].frame = guard[s][u].frame
    BY <1>2, <1>3 DEF Differ, g
  <1>7. Targets'
    BY <1>1, <1>6, Places DEF Targets, Live
  <1>8. PinsMatchGuards'
    <2>1. \A f : Guards(f)' = Guards(f)
      BY <1>6 DEF Guards
    <2> QED  BY <1>1, <2>1 DEF PinsMatchGuards
  <1> QED  BY <1>5, <1>7, <1>8

\* The latch is given up first; the pin stays.
LEMMA DropUnlatchPins ==
    ASSUME PinInv, NEW t \in Threads, NEW v \in Vars, NEW from \in Vars,
           DropUnlatch(t, v, from)
    PROVE  PinInv'
  <1> USE DEF PinInv
  <1> DEFINE g == guard[t][v]
             c == [at |-> "unpin", v |-> v, from |-> from]
  <1>1. /\ pc[t] = Idle /\ Live(t, v) /\ Live(t, from)
        /\ writer' = [writer EXCEPT ![g.frame] = IF g.kind = "W" THEN NoThread ELSE @]
        /\ readers' = [readers EXCEPT ![g.frame][t] =
                         IF g.kind = "R" THEN readers[g.frame][t] - 1 ELSE readers[g.frame][t]]
        /\ pc' = [pc EXCEPT ![t] = c]
        /\ UNCHANGED <<page, pins, dirty, unsaved, lost, next, guard, leaked>>
    BY DEF DropUnlatch, Unlatch, pool
  <1>2. g \in GuardType /\ g.frame \in Frames
    BY <1>1 DEF Types, Live, GuardType
  <1>3. c \in Dropping /\ c.at = "unpin" /\ c.v = v /\ c.from = from
    BY DEF Dropping
  <1> HIDE DEF g, c
  <1>4. writer' \in [Frames -> Threads \cup {NoThread}]
    BY <1>1, <1>2 DEF Types
  <1>5. readers' \in [Frames -> [Threads -> Int]]
    BY <1>1, <1>2 DEF Types
  <1>6. pc' \in [Threads -> {Idle} \cup Fetching \cup Dropping]
    BY <1>1, <1>3 DEF Types
  <1>7. pc'[t] = c /\ \A s \in Threads : s # t => pc'[s] = pc[s]
    BY <1>1 DEF Types
  <1>8. Types'
    BY <1>1, <1>4, <1>5, <1>6 DEF Types
  <1>9. Targets'
    BY <1>1, <1>3, <1>7 DEF Targets, Live
  <1>10. PinsMatchGuards'
    <2>1. \A s \in Threads : \A f : (pc'[s].at = "latch" /\ pc'[s].f = f) <=>
                                     (pc[s].at = "latch" /\ pc[s].f = f)
      BY <1>1, <1>3, <1>7 DEF Idle
    <2>2. \A f : {s \in Threads : pc'[s].at = "latch" /\ pc'[s].f = f} =
                 {s \in Threads : pc[s].at = "latch" /\ pc[s].f = f}
      BY <2>1
    <2> QED  BY <1>1, <2>2 DEF PinsMatchGuards, Guards
  <1> QED  BY <1>8, <1>9, <1>10

\* The pin goes with the guard that is emptied or overwritten.
LEMMA DropUnpinPins ==
    ASSUME PinInv, NEW t \in Threads, DropUnpin(t)
    PROVE  PinInv'
  <1> USE DEF PinInv
  <1> SUFFICES ASSUME NEW v, v = pc[t].v, NEW from, from = pc[t].from,
                      NEW g, g = guard[t][v]
               PROVE  PinInv'
    OBVIOUS
  <1>1. /\ pc[t].at = "unpin"
        /\ pins' = [pins EXCEPT ![g.frame] = IF @ > 0 THEN @ - 1 ELSE @]
        /\ dirty' = [dirty EXCEPT ![g.frame] = @ \/ DropDirty(g)]
        /\ guard' = Moved(guard, t, v, from)
        /\ pc' = [pc EXCEPT ![t] = Idle]
        /\ UNCHANGED <<page, unsaved, lost, next, writer, readers, leaked>>
    BY DEF DropUnpin, Unpin, Moved, MovedFrom, latches
  <1>2. v \in Vars /\ from \in Vars
    BY <1>1, Places
  <1>3. g \in GuardType /\ g.frame \in Frames
    BY <1>1, <1>2 DEF Types, Targets, Live, GuardType
  <1>4. guard \in GuardMap
    BY DEF Types, GuardMap
  <1>5. /\ guard' \in GuardMap
        /\ \A s \in Threads, u \in Vars : s # t => guard'[s][u] = guard[s][u]
        /\ \A f \in Frames : /\ Guarded(guard, f) \in Nat
                             /\ Guarded(guard', f) = Less(Guarded(guard, f), On(g, f))
                             /\ g.frame = f => Guarded(guard, f) > 0
    BY <1>1, <1>2, <1>4, MovedGuards
  <1>6. pc'[t] = Idle /\ \A s \in Threads : s # t => pc'[s] = pc[s]
    BY <1>1 DEF Types
  <1>7. Types'
    <2>1. pins' \in [Frames -> Nat]
      BY <1>1, <1>3 DEF Types
    <2>2. dirty' \in [Frames -> BOOLEAN]
      <3> DEFINE d == dirty[g.frame] \/ DropDirty(g)
      <3>1. d \in BOOLEAN
        OBVIOUS
      <3> HIDE DEF d
      <3> QED  BY <1>1, <3>1 DEF Types, d
    <2> QED  BY <1>1, <1>5, <2>1, <2>2 DEF Types, GuardMap
  <1>8. Targets'
    <2> SUFFICES ASSUME NEW s \in Threads
                 PROVE  /\ pc'[s].at = "latch" => guard'[s][pc'[s].v].frame = NoFrame
                        /\ pc'[s].at = "unpin" => /\ guard'[s][pc'[s].v].frame # NoFrame
                                                  /\ guard'[s][pc'[s].from].frame # NoFrame
      BY DEF Targets, Live
    <2>1. CASE s = t
      BY <1>6, <2>1 DEF Idle
    <2>2. CASE s # t
      BY <1>5, <1>6, <2>2, Places DEF Targets, Live
    <2> QED  BY <2>1, <2>2
  <1>9. ASSUME NEW y \in Frames PROVE pins'[y] = Owed(y)'
    <2>1. FetchesOf(pc', y) = FetchesOf(pc, y) /\ Cardinality(FetchesOf(pc, y)) \in Nat
      <3>1. FetchesOf(pc', y) = FetchesOf(pc, y)
        BY <1>1, <1>6 DEF FetchesOf, Idle
      <3>2. Cardinality(FetchesOf(pc, y)) \in Nat
        BY FetchCount
      <3> QED  BY <3>1, <3>2
    <2>2. /\ Owed(y) = leaked[y] + Guarded(guard, y) + Cardinality(FetchesOf(pc, y))
          /\ Owed(y)' = leaked[y] + Guarded(guard', y) + Cardinality(FetchesOf(pc, y))
      BY <1>1, <2>1 DEF Owed, Guards, Guarded, GuardsIn
    <2>3. pins[y] = Owed(y) /\ leaked[y] \in Nat
      BY PinsAreOwed DEF Types
    <2>4. CASE y = g.frame
      <3>1. On(g, y) = 1 /\ Guarded(guard, y) > 0
        BY <1>5, <2>4 DEF On
      <3>2. pins[y] > 0
        BY <1>5, <2>1, <2>2, <2>3, <3>1
      <3>3. pins'[y] = pins[y] - 1
        BY <1>1, <1>3, <2>4, <3>2 DEF Types
      <3> QED  BY <1>5, <2>1, <2>2, <2>3, <3>1, <3>3 DEF Less
    <2>5. CASE y # g.frame
      <3>1. On(g, y) = 0
        BY <2>5 DEF On
      <3>2. pins'[y] = pins[y]
        BY <1>1, <2>5 DEF Types
      <3> QED  BY <1>5, <2>1, <2>2, <2>3, <3>1, <3>2 DEF Less
    <2> QED  BY <2>4, <2>5
  <1> QED  BY <1>7, <1>8, <1>9, OwedNext

\* A move changes the name of the guard.
LEMMA MoveConstructPins ==
    ASSUME PinInv, NEW t \in Threads, NEW v \in Vars, NEW from \in Vars,
           MoveConstruct(t, v, from)
    PROVE  PinInv'
  <1> USE DEF PinInv
  <1>1. /\ pc[t] = Idle /\ v # from /\ guard[t][v].frame = NoFrame
        /\ guard' = Moved(guard, t, v, from)
        /\ UNCHANGED <<page, pins, dirty, unsaved, lost, next, writer, readers, pc, leaked>>
    BY DEF MoveConstruct, Live, Moved, MovedFrom, pool, latches
  <1>2. guard \in GuardMap
    BY DEF Types, GuardMap
  <1> DEFINE g == guard[t][v]
  <1>3. /\ guard' \in GuardMap
        /\ \A s \in Threads, u \in Vars : s # t => guard'[s][u] = guard[s][u]
        /\ \A f \in Frames : /\ Guarded(guard, f) \in Nat
                             /\ Guarded(guard', f) = Less(Guarded(guard, f), On(g, f))
    <2>1. g = guard[t][v]
      OBVIOUS
    <2> HIDE DEF g
    <2> QED  BY <1>1, <1>2, <2>1, MovedGuards
  <1>4. \A f \in Frames : On(g, f) = 0
    BY <1>1, GuardAssumption DEF On
  <1> HIDE DEF g
  <1>5. \A f \in Frames : Guarded(guard', f) = Guarded(guard, f)
    BY <1>3, <1>4 DEF Less
  <1>6. Types'
    BY <1>1, <1>3 DEF Types, GuardMap
  <1>7. Targets'
    <2>1. \A s \in Threads : pc[s].at \in {"latch", "unpin"} => s # t
      BY <1>1 DEF Idle
    <2> QED  BY <1>1, <1>3, <2>1, Places DEF Targets, Live
  <1>8. PinsMatchGuards'
    BY <1>1, <1>5 DEF PinsMatchGuards, Guards, Guarded, GuardsIn
  <1> QED  BY <1>6, <1>7, <1>8

LEMMA InitPins == Init => PinInv
  <1> SUFFICES ASSUME Init PROVE PinInv
    OBVIOUS
  <1>1. Types
    BY GuardAssumption, EmptyGuardIs DEF Init, Types
  <1>2. Targets
    BY DEF Init, Targets, Idle
  <1>3. ASSUME NEW f \in Frames PROVE pins[f] = Owed(f)
    <2>1. Guards(f) = {}
      BY EmptyGuardIs, GuardAssumption DEF Init, Guards
    <2>2. FetchesOf(pc, f) = {}
      BY DEF Init, FetchesOf, Idle
    <2>3. Cardinality(Guards(f)) = 0 /\ Cardinality(FetchesOf(pc, f)) = 0
      BY <2>1, <2>2, FS_EmptySet
    <2>4. pins[f] = 0 /\ leaked[f] = 0
      BY DEF Init
    <2> QED  BY <2>3, <2>4 DEF Owed
  <1> QED  BY <1>1, <1>2, <1>3, PinsAreOwed DEF PinInv

LEMMA NextPins ==
    ASSUME PinInv, [Next]_vars
    PROVE  PinInv'
  <1>1. CASE UNCHANGED vars
    BY <1>1 DEF vars, pool, latches, PinInv, Types, Targets, Live, PinsMatchGuards, Guards
  <1>2. CASE Next
    BY <1>2, NewPageGuardedPins, FetchPagePins, LatchPins, RelatchPins, WritePins,
       DropUnlatchPins, DropUnpinPins, MoveConstructPins DEF Next, Thread
  <1> QED  BY <1>1, <1>2

(***************************************************************************)
(* However guards are built, moved, assigned over and dropped by any       *)
(* number of threads, each pin has one owner: it is neither released twice *)
(* nor forgotten by a guard.                                               *)
(***************************************************************************)
THEOREM PinsCorrect == Spec => []PinsMatchGuards
  <1>1. Init => PinInv
    BY InitPins
  <1>2. PinInv /\ [Next]_vars => PinInv'
    BY NextPins
  <1>3. PinInv => PinsMatchGuards
    BY DEF PinInv
  <1> QED  BY <1>1, <1>2, <1>3, PTL DEF Spec
-----------------------------------------------------------------------------
(* Writes. *)

\* A frame that the pool may give away has no guard on it.
LEMMA UnpinnedIsFree ==
    ASSUME PinInv, NEW f \in Frames, pins[f] = 0, NEW t \in Threads, NEW v \in Vars
    PROVE  guard[t][v].frame # f
  <1> DEFINE x == guard[t][v]
  <1>1. pins[f] = Owed(f) /\ leaked[f] \in Nat
    BY PinsAreOwed DEF PinInv, Types
  <1>2. Owed(f) = leaked[f] + Guarded(guard, f) + Cardinality(FetchesOf(pc, f))
    BY DEF Owed, Guards, Guarded, GuardsIn
  <1>3. Cardinality(FetchesOf(pc, f)) \in Nat
    BY FetchCount
  <1>4. x = guard[t][v] /\ Differ(guard, guard, t, v)
    BY DEF Differ
  <1> HIDE DEF x
  <1>5. Guarded(guard, f) \in Nat /\ (x.frame = f => Guarded(guard, f) > 0)
    BY <1>4, PutCount
  <1>6. ~(Guarded(guard, f) > 0)
    BY <1>1, <1>2, <1>3, <1>5
  <1> QED  BY <1>4, <1>5, <1>6

\* Taking a frame for another page loses nothing: what was written to the old page is
\* known to be dirty and is written back.
LEMMA TakeWrites ==
    ASSUME PinInv, WriteInv, NEW p \in Nat, NEW f \in FrameFor(p), Take(f, p)
    PROVE  /\ ~lost' /\ page'[f] # -1
           /\ \A x \in Frames : page'[x] = -1 => page[x] = -1
           /\ \A x \in Frames : unsaved'[x] => unsaved[x] /\ (dirty[x] => dirty'[x])
  <1>1. f \in Frames /\ (page[f] = p \/ page[f] = -1 \/ pins[f] = 0)
    BY FrameForIs
  <1>2. /\ page' = [page EXCEPT ![f] = p]
        /\ lost' = (lost \/ (page[f] # p /\ unsaved[f] /\ ~dirty[f]))
        /\ dirty' = [dirty EXCEPT ![f] = @ /\ ~(page[f] # p)]
        /\ unsaved' = [unsaved EXCEPT ![f] = @ /\ ~(page[f] # p)]
    BY DEF Take
  <1>3. page[f] # p /\ unsaved[f] => dirty[f]
    <2> SUFFICES ASSUME page[f] # p, unsaved[f] PROVE dirty[f]
      OBVIOUS
    <2>1. pins[f] = 0
      BY <1>1 DEF WriteInv, InUse
    <2>2. \A t \in Threads, v \in Vars : guard[t][v].frame # f
      BY <1>1, <2>1, UnpinnedIsFree
    <2> QED  BY <1>1, <2>2 DEF WriteInv, WritesKnown
  <1>4. ~lost'
    BY <1>2, <1>3 DEF WriteInv, NoLostWrite
  <1>5. page'[f] # -1 /\ \A x \in Frames : page'[x] = -1 => page[x] = -1
    BY <1>1, <1>2 DEF PinInv, Types
  <1>6. ASSUME NEW x \in Frames, unsaved'[x]
        PROVE  unsaved[x] /\ (dirty[x] => dirty'[x])
    <2>1. CASE x = f
      <3>1. unsaved'[f] = (unsaved[f] /\ ~(page[f] # p)) /\ dirty'[f] = (dirty[f] /\ ~(page[f] # p))
        BY <1>1, <1>2 DEF PinInv, Types
      <3> QED  BY <1>6, <2>1, <3>1
    <2>2. CASE x # f
      <3>1. unsaved'[x] = unsaved[x] /\ dirty'[x] = dirty[x]
        BY <1>2, <2>2 DEF PinInv, Types
      <3> QED  BY <1>6, <3>1
    <2> QED  BY <2>1, <2>2
  <1> QED  BY <1>4, <1>5, <1>6

\* Steps that write nothing: every guard that could tell of a write still does, or has
\* told the frame.
LEMMA QuietWrites ==
    ASSUME PinInv, WriteInv, ~lost',
           \A x \in Frames : page'[x] = -1 => page[x] = -1,
           \A x \in Frames : unsaved'[x] => unsaved[x] /\ (dirty[x] => dirty'[x]),
           \A t \in Threads, v \in Vars : \A f \in Frames :
              guard[t][v].frame = f /\ DropDirty(guard[t][v]) =>
                 dirty'[f] \/ \E u \in Vars : /\ guard'[t][u].frame = f
                                              /\ DropDirty(guard'[t][u]),
           \A t \in Threads, v \in Vars :
              guard'[t][v].frame # NoFrame =>
                 guard'[t][v].frame \in Frames /\ page'[guard'[t][v].frame] # -1,
           \A t \in Threads : pc'[t].at = "latch" => page'[pc'[t].f] # -1
    PROVE  WriteInv'
  <1>1. InUse'
    <2>1. \A f \in Frames : page'[f] = -1 => ~unsaved'[f]
      BY DEF WriteInv, InUse
    <2> QED  BY <2>1 DEF InUse, Live
  <1>2. WritesKnown'
    <2> SUFFICES ASSUME NEW f \in Frames, unsaved'[f], ~dirty'[f]
                 PROVE  \E t \in Threads, v \in Vars :
                           guard'[t][v].frame = f /\ DropDirty(guard'[t][v])
      BY DEF WritesKnown, DropDirty
    <2>1. unsaved[f] /\ ~dirty[f]
      OBVIOUS
    <2>2. PICK t \in Threads, v \in Vars : guard[t][v].frame = f /\ DropDirty(guard[t][v])
      BY <2>1 DEF WriteInv, WritesKnown
    <2> QED  BY <2>2
  <1> QED  BY <1>1, <1>2 DEF WriteInv, NoLostWrite

LEMMA GuardFrames ==
    ASSUME PinInv, WriteInv, NEW t \in Threads, NEW v \in Vars, guard[t][v].frame # NoFrame
    PROVE  guard[t][v].frame \in Frames /\ page[guard[t][v].frame] # -1
  BY DEF PinInv, Types, GuardType, WriteInv, InUse, Live

LEMMA NewPageGuardedWrites ==
    ASSUME PinInv, WriteInv, NEW t \in Threads, NEW v \in Vars, NewPageGuarded(t, v)
    PROVE  WriteInv'
  <1>1. guard[t][v].frame = NoFrame /\ UNCHANGED pc
    BY DEF NewPageGuarded, Fresh, Live
  <1>2. CASE FrameFor(next) = {}
    <2>1. UNCHANGED <<page, dirty, unsaved, lost, guard>>
      BY <1>2 DEF NewPageGuarded, pool
    <2> QED  BY <1>1, <2>1 DEF WriteInv, InUse, Live, WritesKnown, NoLostWrite
  <1>3. CASE FrameFor(next) # {}
    <2>1. PICK f \in FrameFor(next) :
             Take(f, next) /\ guard' = [guard EXCEPT ![t][v] = Guard("B", f, FALSE)]
      BY <1>3 DEF NewPageGuarded
    <2>2. f \in Frames /\ next \in Nat
      BY FrameForIs DEF PinInv, Types
    <2> DEFINE x == Guard("B", f, FALSE)
    <2>3. x \in GuardType /\ x.frame = f
      BY <2>2, GuardIs DEF Kinds
    <2>4. guard \in GuardMap
      BY DEF PinInv, Types, GuardMap
    <2> HIDE DEF x
    <2>5. guard'[t][v] = x /\ Differ(guard, guard', t, v)
      <3>1. guard' = [guard EXCEPT ![t][v] = x]
        BY <2>1 DEF x
      <3> QED  BY <2>3, <2>4, <3>1 DEF GuardMap, Differ
    <2>6. /\ ~lost' /\ page'[f] # -1
          /\ \A y \in Frames : page'[y] = -1 => page[y] = -1
          /\ \A y \in Frames : unsaved'[y] => unsaved[y] /\ (dirty[y] => dirty'[y])
      BY <2>1, <2>2, TakeWrites
    <2>7. \A s \in Threads, u \in Vars : \A y \in Frames :
             guard[s][u].frame = y => guard'[s][u] = guard[s][u]
      BY <1>1, <2>5, GuardAssumption DEF Differ
    <2>8. ASSUME NEW s \in Threads, NEW u \in Vars, guard'[s][u].frame # NoFrame
          PROVE  guard'[s][u].frame \in Frames /\ page'[guard'[s][u].frame] # -1
      <3>1. CASE s = t /\ u = v
        BY <2>2, <2>3, <2>5, <2>6, <3>1
      <3>2. CASE ~(s = t /\ u = v)
        <4>1. guard'[s][u] = guard[s][u]
          BY <2>5, <3>2 DEF Differ
        <4> QED  BY <2>6, <2>8, <4>1, GuardFrames
      <3> QED  BY <3>1, <3>2
    <2>9. \A s \in Threads : pc'[s].at = "latch" => page'[pc'[s].f] # -1
      BY <1>1, <2>6, Places DEF PinInv, WriteInv, InUse
    <2> QED  BY <2>6, <2>7, <2>8, <2>9, QuietWrites
  <1> QED  BY <1>2, <1>3

LEMMA FetchPageWrites ==
    ASSUME PinInv, WriteInv, NEW t \in Threads, NEW v \in Vars, NEW kind \in {"R", "W"},
           NEW p \in 0 .. MaxPages - 1, FetchPage(t, v, kind, p)
    PROVE  WriteInv'
  <1>1. UNCHANGED guard
    BY DEF FetchPage
  <1>2. CASE FrameFor(p) = {}
    <2>1. UNCHANGED <<page, dirty, unsaved, lost, pc>>
      BY <1>2 DEF FetchPage, pool
    <2> QED  BY <1>1, <2>1 DEF WriteInv, InUse, Live, WritesKnown, NoLostWrite
  <1>3. CASE FrameFor(p) # {}
    <2> DEFINE c(f) == [at |-> "latch", v |-> v, kind |-> kind, f |-> f]
    <2>1. PICK f \in FrameFor(p) : Take(f, p) /\ pc' = [pc EXCEPT ![t] = c(f)]
      BY <1>3 DEF FetchPage
    <2>2. f \in Frames /\ p \in Nat
      BY FrameForIs
    <2>3. pc'[t] = c(f) /\ c(f).f = f /\ \A s \in Threads : s # t => pc'[s] = pc[s]
      BY <2>1 DEF PinInv, Types
    <2> HIDE DEF c
    <2>4. /\ ~lost' /\ page'[f] # -1
          /\ \A y \in Frames : page'[y] = -1 => page[y] = -1
          /\ \A y \in Frames : unsaved'[y] => unsaved[y] /\ (dirty[y] => dirty'[y])
      BY <2>1, <2>2, TakeWrites
    <2>5. \A s \in Threads, u \in Vars :
             guard'[s][u].frame # NoFrame =>
                guard'[s][u].frame \in Frames /\ page'[guard'[s][u].frame] # -1
      BY <1>1, <2>4, GuardFrames
    <2>6. ASSUME NEW s \in Threads, pc'[s].at = "latch" PROVE page'[pc'[s].f] # -1
      <3>1. CASE s = t
        BY <2>3, <2>4, <3>1
      <3>2. CASE s # t
        <4>1. pc'[s] = pc[s] /\ pc[s].f \in Frames /\ page[pc[s].f] # -1
          BY <2>3, <2>6, <3>2, Places DEF PinInv, WriteInv, InUse
        <4> QED  BY <2>4, <4>1
      <3> QED  BY <3>1, <3>2
    <2> QED  BY <1>1, <2>4, <2>5, <2>6, QuietWrites
  <1> QED  BY <1>2, <1>3

LEMMA LatchWrites ==
    ASSUME PinInv, WriteInv, NEW t \in Threads, Latch(t)
    PROVE  WriteInv'
  <1> SUFFICES ASSUME NEW f, f = pc[t].f, NEW v, v = pc[t].v, NEW kind, kind = pc[t].kind
               PROVE  WriteInv'
    OBVIOUS
  <1> DEFINE x == Guard(kind, f, FALSE)
  <1>1. /\ pc[t].at = "latch"
        /\ guard' = [guard EXCEPT ![t][v] = x] /\ pc' = [pc EXCEPT ![t] = Idle]
        /\ UNCHANGED <<page, dirty, unsaved, lost>>
    BY DEF Latch, pool
  <1>2. f \in Frames /\ v \in Vars /\ kind \in {"R", "W"} /\ page[f] # -1
    BY <1>1, Places DEF PinInv, WriteInv, InUse
  <1>3. x.frame = f
    BY DEF Guard
  <1>4. guard[t][v].frame = NoFrame
    BY <1>1 DEF PinInv, Targets, Live
  <1>5. pc'[t].at = "idle" /\ \A s \in Threads : s # t => pc'[s] = pc[s]
    BY <1>1 DEF PinInv, Types, Idle
  <1> HIDE DEF x
  <1>6. guard'[t][v] = x /\ Differ(guard, guard', t, v)
    BY <1>1, <1>2 DEF PinInv, Types, Differ
  <1>7. \A s \in Threads, u \in Vars : \A y \in Frames :
           guard[s][u].frame = y => guard'[s][u] = guard[s][u]
    BY <1>4, <1>6, GuardAssumption DEF Differ
  <1>8. ASSUME NEW s \in Threads, NEW u \in Vars, guard'[s][u].frame # NoFrame
        PROVE  guard'[s][u].frame \in Frames /\ page'[guard'[s][u].frame] # -1
    <2>1. CASE s = t /\ u = v
      BY <1>1, <1>2, <1>3, <1>6, <2>1
    <2>2. CASE ~(s = t /\ u = v)
      <3>1. guard'[s][u] = guard[s][u]
        BY <1>6, <2>2 DEF Differ
      <3> QED  BY <1>1, <1>8, <3>1, GuardFrames
    <2> QED  BY <2>1, <2>2
  <1>9. \A s \in Threads : pc'[s].at = "latch" => page'[pc'[s].f] # -1
    BY <1>1, <1>5 DEF WriteInv, InUse
  <1> QED  BY <1>1, <1>7, <1>8, <1>9, QuietWrites DEF WriteInv, NoLostWrite

\* A write: the guard knows, whichever kind it is.
LEMMA WriteWrites ==
    ASSUME PinInv, WriteInv, NEW t \in Threads, NEW v \in Vars, Write(t, v)
    PROVE  WriteInv'
  <1> DEFINE g == guard[t][v]
             b == g.kind = "B"
             x == [g EXCEPT !.dirty = b]
  <1>1. /\ g.frame # NoFrame /\ g.kind # "R"
        /\ unsaved' = [unsaved EXCEPT ![g.frame] = TRUE]
        /\ guard' = [guard EXCEPT ![t][v] = x]
        /\ UNCHANGED <<page, dirty, lost, pc>>
    BY DEF Write, Live
  <1>2. g \in GuardType /\ g.kind \in {"B", "W"}
    BY <1>1 DEF PinInv, Types, GuardType, Kinds
  <1>3. x.frame = g.frame /\ DropDirty(x)
    <2> HIDE DEF g
    <2>1. x.kind = g.kind /\ x.frame = g.frame /\ x.dirty = b
      BY <1>2 DEF GuardType
    <2> HIDE DEF x
    <2> QED  BY <1>2, <2>1 DEF DropDirty
  <1>4. g.frame \in Frames /\ page[g.frame] # -1
    BY <1>1, GuardFrames
  <1> HIDE DEF x
  <1>5. guard'[t][v] = x /\ Differ(guard, guard', t, v)
    BY <1>1 DEF PinInv, Types, Differ
  <1>6. \A y \in Frames : y # g.frame => unsaved'[y] = unsaved[y]
    BY <1>1 DEF PinInv, Types
  <1> HIDE DEF g
  <1>7. \A s \in Threads, u \in Vars : guard'[s][u].frame = guard[s][u].frame
    BY <1>3, <1>5 DEF Differ, g
  <1>8. InUse'
    BY <1>1, <1>4, <1>6, <1>7 DEF WriteInv, InUse, Live
  <1>9. \A s \in Threads, u \in Vars : DropDirty(guard[s][u]) => DropDirty(guard'[s][u])
    BY <1>3, <1>5 DEF Differ
  <1>10. WritesKnown'
    <2> SUFFICES ASSUME NEW f \in Frames, unsaved'[f], ~dirty'[f]
                 PROVE  \E s \in Threads, u \in Vars :
                           guard'[s][u].frame = f /\ DropDirty(guard'[s][u])
      BY DEF WritesKnown, DropDirty
    <2>1. CASE f = g.frame
      BY <1>3, <1>5, <2>1
    <2>2. CASE f # g.frame
      <3>1. unsaved[f] /\ ~dirty[f]
        BY <1>1, <1>6, <2>2
      <3>2. PICK s \in Threads, u \in Vars : guard[s][u].frame = f /\ DropDirty(guard[s][u])
        BY <3>1 DEF WriteInv, WritesKnown
      <3> QED  BY <1>7, <1>9, <3>2
    <2> QED  BY <2>1, <2>2
  <1> QED  BY <1>1, <1>8, <1>10 DEF WriteInv, NoLostWrite

\* A drop tells the frame before the guard is emptied; a move carries the flag along.
LEMMA MovedWrites ==
    ASSUME PinInv, WriteInv, NEW t \in Threads, NEW v \in Vars, NEW from \in Vars,
           guard' = Moved(guard, t, v, from), UNCHANGED <<page, unsaved, lost>>,
           \A f \in Frames : dirty[f] => dirty'[f],
           \A f \in Frames :
              guard[t][v].frame = f /\ DropDirty(guard[t][v]) => dirty'[f],
           \A s \in Threads : pc'[s].at = "latch" => pc'[s] = pc[s]
    PROVE  WriteInv'
  <1>1. guard \in GuardMap
    BY DEF PinInv, Types, GuardMap
  <1>2. /\ guard'[t][from] = EmptyGuard
        /\ v # from => guard'[t][v] = guard[t][from]
        /\ \A s \in Threads, u \in Vars :
              s # t \/ (u # v /\ u # from) => guard'[s][u] = guard[s][u]
    BY <1>1, MovedGuards
  <1>3. ASSUME NEW s \in Threads, NEW u \in Vars, NEW f \in Frames,
               guard[s][u].frame = f, DropDirty(guard[s][u]), ~dirty'[f]
        PROVE  \E w \in Vars : guard'[s][w].frame = f /\ DropDirty(guard'[s][w])
    <2>1. ~(s = t /\ u = v)
      BY <1>3
    <2>2. CASE s = t /\ u = from
      <3>1. guard'[t][v] = guard[t][from]
        BY <1>2, <2>1, <2>2
      <3> QED  BY <1>3, <2>2, <3>1
    <2>3. CASE ~(s = t /\ u = from)
      <3>1. guard'[s][u] = guard[s][u]
        BY <1>2, <2>1, <2>3
      <3> QED  BY <1>3, <3>1
    <2> QED  BY <2>2, <2>3
  <1>4. ASSUME NEW s \in Threads, NEW u \in Vars, guard'[s][u].frame # NoFrame
        PROVE  guard'[s][u].frame \in Frames /\ page'[guard'[s][u].frame] # -1
    <2>1. \E w \in Vars : guard'[s][u] = guard[s][w]
      BY <1>2, <1>4, EmptyGuardIs
    <2> QED  BY <1>4, <2>1, GuardFrames
  <1>5. \A s \in Threads : pc'[s].at = "latch" => page'[pc'[s].f] # -1
    BY DEF WriteInv, InUse
  <1>6. ~lost'
    BY DEF WriteInv, NoLostWrite
  <1> QED  BY <1>3, <1>4, <1>5, <1>6, QuietWrites

LEMMA DropUnpinWrites ==
    ASSUME PinInv, WriteInv, NEW t \in Threads, DropUnpin(t)
    PROVE  WriteInv'
  <1> SUFFICES ASSUME NEW v, v = pc[t].v, NEW from, from = pc[t].from,
                      NEW g, g = guard[t][v]
               PROVE  WriteInv'
    OBVIOUS
  <1> DEFINE d == dirty[g.frame] \/ DropDirty(g)
  <1>1. /\ pc[t].at = "unpin"
        /\ dirty' = [dirty EXCEPT ![g.frame] = d]
        /\ guard' = Moved(guard, t, v, from)
        /\ pc' = [pc EXCEPT ![t] = Idle]
        /\ UNCHANGED <<page, unsaved, lost>>
    BY DEF DropUnpin, Unpin, Moved, MovedFrom
  <1>2. v \in Vars /\ from \in Vars
    BY <1>1, Places DEF PinInv
  <1>3. /\ \A f \in Frames : f # g.frame => dirty'[f] = dirty[f]
        /\ g.frame \in Frames => dirty'[g.frame] = d
    <2> HIDE DEF d
    <2> QED  BY <1>1 DEF PinInv, Types
  <1>4. \A f \in Frames : dirty[f] => dirty'[f]
    BY <1>3
  <1>5. \A f \in Frames : g.frame = f /\ DropDirty(g) => dirty'[f]
    BY <1>3
  <1>6. \A s \in Threads : pc'[s].at = "latch" => pc'[s] = pc[s]
    BY <1>1 DEF PinInv, Types, Idle
  <1> QED  BY <1>1, <1>2, <1>4, <1>5, <1>6, MovedWrites

LEMMA MoveConstructWrites ==
    ASSUME PinInv, WriteInv, NEW t \in Threads, NEW v \in Vars, NEW from \in Vars,
           MoveConstruct(t, v, from)
    PROVE  WriteInv'
  <1>1. /\ guard[t][v].frame = NoFrame /\ guard' = Moved(guard, t, v, from)
        /\ UNCHANGED <<page, dirty, unsaved, lost, pc>>
    BY DEF MoveConstruct, Live, Moved, MovedFrom, pool
  <1>2. \A f \in Frames : guard[t][v].frame # f
    BY <1>1, GuardAssumption
  <1> QED  BY <1>1, <1>2, MovedWrites

LEMMA NextWrites ==
    ASSUME PinInv, WriteInv, [Next]_vars
    PROVE  WriteInv'
  <1>1. CASE UNCHANGED vars
    BY <1>1 DEF vars, pool, latches, WriteInv, InUse, Live, WritesKnown, NoLostWrite
  <1>2. ASSUME NEW t \in Threads,
               Relatch(t) \/ \E v, from \in Vars : DropUnlatch(t, v, from)
        PROVE  WriteInv'
    <2>1. /\ UNCHANGED <<page, dirty, unsaved, lost, guard>>
          /\ \E c : pc' = [pc EXCEPT ![t] = c] /\ c.at # "latch"
      BY <1>2 DEF Relatch, DropUnlatch, pool, Idle
    <2>2. \A s \in Threads : pc'[s].at = "latch" => pc'[s] = pc[s]
      BY <2>1 DEF PinInv, Types
    <2> QED  BY <2>1, <2>2 DEF WriteInv, InUse, Live, WritesKnown, NoLostWrite
  <1>3. CASE Next
    BY <1>2, <1>3, NewPageGuardedWrites, FetchPageWrites, LatchWrites, WriteWrites,
       DropUnpinWrites, MoveConstructWrites DEF Next, Thread
  <1> QED  BY <1>1, <1>3

\* What was written through a guard, of whatever kind and however it was moved about,
\* is on disk before its frame is given to another page.
THEOREM WritesCorrect == Spec => []NoLostWrite
  <1>1. Init => PinInv /\ WriteInv
    <2> SUFFICES ASSUME Init PROVE WriteInv
      BY InitPins
    <2>1. InUse /\ WritesKnown
      BY EmptyGuardIs DEF Init, InUse, Live, WritesKnown, Idle
    <2> QED  BY <2>1 DEF Init, WriteInv, NoLostWrite
  <1>2. PinInv /\ WriteInv /\ [Next]_vars => PinInv' /\ WriteInv'
    BY NextPins, NextWrites
  <1>3. WriteInv => NoLostWrite
    BY DEF WriteInv
  <1> QED  BY <1>1, <1>2, <1>3, PTL DEF Spec
-----------------------------------------------------------------------------
(* Latches. *)

\* The latches of f that t holds, kind by kind.
Holders(t, kind, f) == {v \in Vars : Holding(t, v, kind, f)}

\* What is taken over, one guard instead of another, stays as many.
LEMMA SwapCount ==
    ASSUME NEW S \in SUBSET Vars, NEW T \in SUBSET Vars, NEW v \in Vars, NEW from \in Vars,
           v \notin S, from \notin T, v # from => (from \in S <=> v \in T),
           \A u \in Vars : u # v /\ u # from => (u \in S <=> u \in T)
    PROVE  Cardinality(S) = Cardinality(T)
  <1>1. CASE v = from
    <2>1. S = T
      BY <1>1
    <2> QED  BY <2>1
  <1>2. CASE v # from
    <2> DEFINE M == S \ {from}
    <2>1. /\ M \in SUBSET Vars /\ from \notin M /\ v \notin M
          /\ \A u \in Vars : u # from => (u \in S <=> u \in M)
          /\ \A u \in Vars : u # v => (u \in M <=> u \in T)
      BY <1>2
    <2> HIDE DEF M
    <2>2. /\ Cardinality(S) \in Nat /\ Cardinality(M) \in Nat
          /\ Cardinality(M) = Cardinality(S) + Num(from \in M) - Num(from \in S)
      BY <2>1, GuardAssumption, CountChange
    <2>3. /\ Cardinality(T) \in Nat
          /\ Cardinality(T) = Cardinality(M) + Num(v \in T) - Num(v \in M)
      BY <2>1, GuardAssumption, CountChange
    <2>4. /\ Num(from \in M) = 0 /\ Num(v \in M) = 0
          /\ Num(from \in S) = Num(v \in T) /\ Num(v \in T) \in Nat
      BY <1>2, <2>1 DEF Num
    <2> QED  BY <2>2, <2>3, <2>4
  <1> QED  BY <1>1, <1>2

LatchesOf(t, f) ==
    /\ writer[f] = t <=> Holders(t, "W", f) # {}
    /\ readers[f][t] = Cardinality(Holders(t, "R", f))
    /\ \A v, u \in Holders(t, "W", f) : v = u

LEMMA LatchInvIs ==
    /\ LatchInv <=> \A t \in Threads, f \in Frames : LatchesOf(t, f)
    /\ LatchInv' <=> \A t \in Threads, f \in Frames : LatchesOf(t, f)'
  <1>1. LatchInv <=> \A t \in Threads, f \in Frames : LatchesOf(t, f)
    <2>1. \A t \in Threads, f \in Frames :
             LatchesOf(t, f) <=>
                /\ writer[f] = t <=> \E v \in Vars : Holding(t, v, "W", f)
                /\ readers[f][t] = Cardinality({v \in Vars : Holding(t, v, "R", f)})
                /\ \A v, u \in Vars : Holding(t, v, "W", f) /\ Holding(t, u, "W", f) => v = u
      BY DEF LatchesOf, Holders
    <2> QED  BY <2>1 DEF LatchInv, LatchesMatchGuards, OneWriter
  <1>2. LatchInv' <=> \A t \in Threads, f \in Frames : LatchesOf(t, f)'
    <2>1. \A t \in Threads, f \in Frames :
             LatchesOf(t, f)' <=>
                /\ writer'[f] = t <=> \E v \in Vars : Holding(t, v, "W", f)'
                /\ readers'[f][t] = Cardinality({v \in Vars : Holding(t, v, "R", f)'})
                /\ \A v, u \in Vars : Holding(t, v, "W", f)' /\ Holding(t, u, "W", f)' => v = u
      BY DEF LatchesOf, Holders
    <2> QED  BY <2>1 DEF LatchInv, LatchesMatchGuards, OneWriter
  <1> QED  BY <1>1, <1>2

\* Steps after which everyone holds what he held.
LEMMA LatchesKept ==
    ASSUME LatchInv, UNCHANGED <<writer, readers>>,
           \A t \in Threads, v \in Vars, kind \in {"R", "W"}, f \in Frames :
              Holding(t, v, kind, f)' <=> Holding(t, v, kind, f)
    PROVE  LatchInv'
  <1> SUFFICES ASSUME NEW t \in Threads, NEW f \in Frames PROVE LatchesOf(t, f)'
    BY LatchInvIs
  <1>1. LatchesOf(t, f)
    BY LatchInvIs
  <1>2. \A kind \in {"R", "W"} : Holders(t, kind, f)' = Holders(t, kind, f)
    BY DEF Holders
  <1> QED  BY <1>1, <1>2 DEF LatchesOf

\* Steps that rename a guard of t.
LEMMA LatchesMoved ==
    ASSUME PinInv, LatchInv, UNCHANGED <<writer, readers>>, NEW t \in Threads,
           NEW v \in Vars, NEW from \in Vars, guard' = Moved(guard, t, v, from),
           \A s \in Threads : s # t => pc'[s] = pc[s], pc'[t].at # "unpin",
           pc[t].at = "unpin" => pc[t].v = v,
           pc[t].at = "unpin" \/ guard[t][v].frame = NoFrame
    PROVE  LatchInv'
  <1>1. guard \in GuardMap
    BY DEF PinInv, Types, GuardMap
  <1>2. /\ guard'[t][from] = EmptyGuard
        /\ v # from => guard'[t][v] = guard[t][from]
        /\ \A s \in Threads, u \in Vars :
              s # t \/ (u # v /\ u # from) => guard'[s][u] = guard[s][u]
    BY <1>1, MovedGuards
  <1> SUFFICES ASSUME NEW s \in Threads, NEW f \in Frames PROVE LatchesOf(s, f)'
    BY LatchInvIs
  <1>3. LatchesOf(s, f)
    BY LatchInvIs
  <1>4. CASE s # t
    <2>1. \A kind \in {"R", "W"} : Holders(s, kind, f)' = Holders(s, kind, f)
      BY <1>2, <1>4 DEF Holders, Holding
    <2> QED  BY <1>3, <2>1 DEF LatchesOf
  <1>5. CASE s = t
    <2>1. ASSUME NEW kind
          PROVE  LET S == Holders(t, kind, f)
                     T == Holders(t, kind, f)'
                 IN  /\ S \in SUBSET Vars /\ T \in SUBSET Vars
                     /\ v \notin S /\ from \notin T /\ (v # from => (from \in S <=> v \in T))
                     /\ \A u \in Vars : u # v /\ u # from => (u \in S <=> u \in T)
      <3>1. ~Holding(t, v, kind, f)
        BY GuardAssumption DEF Holding
      <3>2. ~Holding(t, from, kind, f)'
        BY <1>2, EmptyGuardIs, GuardAssumption DEF Holding
      <3>3. v # from => (Holding(t, from, kind, f) <=> Holding(t, v, kind, f)')
        BY <1>2 DEF Holding
      <3>4. \A u \in Vars : u # v /\ u # from => (Holding(t, u, kind, f) <=> Holding(t, u, kind, f)')
        BY <1>2 DEF Holding
      <3> QED  BY <3>1, <3>2, <3>3, <3>4 DEF Holders
    <2> DEFINE S == Holders(t, "W", f)
               T == Holders(t, "W", f)'
    <2>2. /\ S \in SUBSET Vars /\ T \in SUBSET Vars
          /\ v \notin S /\ from \notin T /\ (v # from => (from \in S <=> v \in T))
          /\ \A u \in Vars : u # v /\ u # from => (u \in S <=> u \in T)
      BY <2>1
    <2>3. \A x, y \in S : x = y
      BY <1>3, <1>5 DEF LatchesOf
    <2> HIDE DEF S, T
    <2>4. (S # {} <=> T # {}) /\ \A x, y \in T : x = y
      BY <2>2, <2>3
    <2>5. Cardinality(Holders(t, "R", f)) = Cardinality(Holders(t, "R", f)')
      BY <2>1, SwapCount
    <2> QED  BY <1>3, <1>5, <2>4, <2>5 DEF LatchesOf, S, T
  <1> QED  BY <1>4, <1>5

\* A frame's latch has one writer and no reader, or readers only.
WriterAlone == \A f \in Frames : writer[f] # NoThread => NoReader(f)

LEMMA LatchLatches ==
    ASSUME PinInv, LatchInv, WriterAlone, NEW t \in Threads, Latch(t)
    PROVE  LatchInv' /\ WriterAlone'
  <1> SUFFICES ASSUME NEW f, f = pc[t].f, NEW v, v = pc[t].v, NEW k, k = pc[t].kind
               PROVE  LatchInv' /\ WriterAlone'
    OBVIOUS
  <1> DEFINE x == Guard(k, f, FALSE)
  <1>1. /\ pc[t].at = "latch" /\ writer[f] = NoThread
        /\ guard' = [guard EXCEPT ![t][v] = x] /\ pc' = [pc EXCEPT ![t] = Idle]
    BY DEF Latch
  <1>2. /\ k = "W" => NoReader(f) /\ writer' = [writer EXCEPT ![f] = t] /\ readers' = readers
        /\ k # "W" => readers' = [readers EXCEPT ![f][t] = readers[f][t] + 1] /\ writer' = writer
    BY DEF Latch
  <1>3. f \in Frames /\ v \in Vars /\ k \in {"R", "W"}
    BY <1>1, Places DEF PinInv
  <1>4. x.frame = f /\ x.kind = k
    BY DEF Guard
  <1>5. guard[t][v].frame = NoFrame
    BY <1>1 DEF PinInv, Targets, Live
  <1>6. pc'[t].at = "idle" /\ \A s \in Threads : s # t => pc'[s] = pc[s]
    BY <1>1 DEF PinInv, Types, Idle
  <1> HIDE DEF x
  <1>7. guard'[t][v] = x /\ Differ(guard, guard', t, v)
    BY <1>1, <1>3 DEF PinInv, Types, Differ
  <1>8. \A s \in Threads, u \in Vars, kind \in {"R", "W"}, y \in Frames :
           Holding(s, u, kind, y)' <=>
              Holding(s, u, kind, y) \/ (s = t /\ u = v /\ kind = k /\ y = f)
    <2> SUFFICES ASSUME NEW s \in Threads, NEW u \in Vars, NEW kind \in {"R", "W"},
                        NEW y \in Frames
                 PROVE  Holding(s, u, kind, y)' <=>
                           Holding(s, u, kind, y) \/ (s = t /\ u = v /\ kind = k /\ y = f)
      OBVIOUS
    <2>1. CASE s = t /\ u = v
      BY <1>4, <1>5, <1>6, <1>7, <2>1, GuardAssumption DEF Holding
    <2>2. CASE ~(s = t /\ u = v)
      <3>1. guard'[s][u] = guard[s][u]
        BY <1>7, <2>2 DEF Differ
      <3>2. CASE s = t
        BY <1>1, <1>6, <2>2, <3>1, <3>2 DEF Holding
      <3>3. CASE s # t
        BY <1>6, <3>1, <3>3 DEF Holding
      <3> QED  BY <3>2, <3>3
    <2> QED  BY <2>1, <2>2
  <1>9. \A s \in Threads, y \in Frames : LatchesOf(s, y)
    BY LatchInvIs
  <1>10. \A s \in Threads : Holders(s, "W", f) = {}
    BY <1>1, <1>3, <1>9, GuardAssumption DEF LatchesOf
  <1>11. ASSUME NEW s \in Threads, NEW y \in Frames PROVE LatchesOf(s, y)'
    <2>1. CASE s # t \/ y # f
      <3>1. \A kind \in {"R", "W"} : Holders(s, kind, y)' = Holders(s, kind, y)
        BY <1>8, <2>1 DEF Holders
      <3>2. readers'[y][s] = readers[y][s]
        BY <1>2, <1>3, <2>1 DEF PinInv, Types
      <3>3. writer'[y] = s <=> writer[y] = s
        BY <1>1, <1>2, <1>3, <2>1, GuardAssumption DEF PinInv, Types
      <3> QED  BY <1>9, <3>1, <3>2, <3>3 DEF LatchesOf
    <2>2. CASE s = t /\ y = f /\ k = "W"
      <3>1. Holders(s, "W", y)' = {v}
        BY <1>3, <1>8, <1>10, <2>2 DEF Holders
      <3>2. Holders(s, "R", y)' = Holders(s, "R", y)
        BY <1>8, <2>2 DEF Holders
      <3>3. writer'[y] = s /\ readers' = readers
        BY <1>2, <1>3, <2>2 DEF PinInv, Types
      <3> QED  BY <1>9, <3>1, <3>2, <3>3 DEF LatchesOf
    <2>3. CASE s = t /\ y = f /\ k = "R"
      <3>1. Holders(s, "W", y)' = Holders(s, "W", y)
        BY <1>8, <2>3 DEF Holders
      <3> DEFINE S == Holders(t, "R", f)
                 T == Holders(t, "R", f)'
      <3>2. S \in SUBSET Vars /\ T \in SUBSET Vars /\ v \in T /\ v \notin S
            /\ \A u \in Vars : u # v => (u \in S <=> u \in T)
        <4>1. ~Holding(t, v, "R", f)
          BY <1>3, <1>5, GuardAssumption DEF Holding
        <4> QED  BY <1>3, <1>8, <2>3, <4>1 DEF Holders
      <3> HIDE DEF S, T
      <3>3. /\ Cardinality(S) \in Nat /\ Cardinality(T) \in Nat
            /\ Cardinality(T) = Cardinality(S) + Num(v \in T) - Num(v \in S)
        BY <1>3, <3>2, GuardAssumption, CountChange
      <3>4. Num(v \in T) = 1 /\ Num(v \in S) = 0
        BY <3>2 DEF Num
      <3>5. readers'[f][t] = readers[f][t] + 1 /\ writer' = writer
        BY <1>2, <1>3, <2>3 DEF PinInv, Types
      <3>6. readers[f][t] = Cardinality(S)
        BY <1>3, <1>9 DEF LatchesOf, S
      <3>7. readers'[f][t] = Cardinality(T)
        BY <3>3, <3>4, <3>5, <3>6
      <3> QED  BY <1>9, <2>3, <3>1, <3>5, <3>7 DEF LatchesOf, T
    <2> QED  BY <1>3, <2>1, <2>2, <2>3
  <1>12. WriterAlone'
    <2> SUFFICES ASSUME NEW y \in Frames, writer'[y] # NoThread
                 PROVE  \A s \in Threads : readers'[y][s] = 0
      BY DEF WriterAlone, NoReader
    <2>1. CASE k = "W"
      BY <1>2, <1>3, <2>1 DEF WriterAlone, NoReader, PinInv, Types
    <2>2. CASE k # "W"
      <3>1. y # f /\ writer[y] # NoThread
        BY <1>1, <1>2, <2>2
      <3> QED  BY <1>2, <1>3, <2>2, <3>1 DEF WriterAlone, NoReader, PinInv, Types
    <2> QED  BY <2>1, <2>2
  <1> QED  BY <1>11, <1>12, LatchInvIs

LEMMA DropUnlatchLatches ==
    ASSUME PinInv, LatchInv, WriterAlone, NEW t \in Threads, NEW v \in Vars,
           NEW from \in Vars, DropUnlatch(t, v, from)
    PROVE  LatchInv' /\ WriterAlone'
  <1> SUFFICES ASSUME NEW g, g = guard[t][v], NEW f, f = g.frame, NEW k, k = g.kind
               PROVE  LatchInv' /\ WriterAlone'
    OBVIOUS
  <1> DEFINE c == [at |-> "unpin", v |-> v, from |-> from]
  <1>1. /\ pc[t] = Idle /\ f # NoFrame /\ guard' = guard /\ pc' = [pc EXCEPT ![t] = c]
        /\ writer' = [writer EXCEPT ![f] = IF k = "W" THEN NoThread ELSE @]
        /\ readers' = [readers EXCEPT ![f][t] =
                         IF k = "R" THEN readers[f][t] - 1 ELSE readers[f][t]]
    BY DEF DropUnlatch, Unlatch, Live
  <1>2. f \in Frames /\ k \in Kinds
    BY <1>1 DEF PinInv, Types, GuardType
  <1>3. pc'[t] = c /\ c.at = "unpin" /\ c.v = v /\ \A s \in Threads : s # t => pc'[s] = pc[s]
    BY <1>1 DEF PinInv, Types
  <1> HIDE DEF c
  <1>4. Holding(t, v, k, f)
    BY <1>1 DEF Holding, Idle
  <1>5. \A s \in Threads, u \in Vars, kind \in {"R", "W"}, y \in Frames :
           Holding(s, u, kind, y)' <=> Holding(s, u, kind, y) /\ ~(s = t /\ u = v)
    <2> SUFFICES ASSUME NEW s \in Threads, NEW u \in Vars, NEW kind \in {"R", "W"},
                        NEW y \in Frames
                 PROVE  Holding(s, u, kind, y)' <=> Holding(s, u, kind, y) /\ ~(s = t /\ u = v)
      OBVIOUS
    <2>1. CASE s = t
      BY <1>1, <1>3, <2>1 DEF Holding, Idle
    <2>2. CASE s # t
      BY <1>1, <1>3, <2>2 DEF Holding
    <2> QED  BY <2>1, <2>2
  <1>6. \A s \in Threads, y \in Frames : LatchesOf(s, y)
    BY LatchInvIs
  <1>7. \A kind, y : Holding(t, v, kind, y) => kind = k /\ y = f
    BY DEF Holding
  <1>8. ASSUME NEW s \in Threads, NEW y \in Frames, NEW kind \in {"R", "W"},
               s # t \/ y # f \/ kind # k
        PROVE  Holders(s, kind, y)' = Holders(s, kind, y)
    BY <1>5, <1>7, <1>8 DEF Holders
  <1>9. k = "W" => Holders(t, "W", f)' = {} /\ writer[f] = t
    <2> SUFFICES ASSUME k = "W" PROVE Holders(t, "W", f)' = {} /\ writer[f] = t
      OBVIOUS
    <2>1. v \in Holders(t, "W", f)
      BY <1>4 DEF Holders
    <2>2. Holders(t, "W", f) = {v} /\ writer[f] = t
      BY <1>2, <1>6, <2>1 DEF LatchesOf
    <2> QED  BY <1>2, <1>5, <2>2 DEF Holders
  <1>10. k = "R" => /\ readers[f][t] > 0
                    /\ readers[f][t] - 1 = Cardinality(Holders(t, "R", f)')
    <2> SUFFICES ASSUME k = "R"
                 PROVE  /\ readers[f][t] > 0
                        /\ readers[f][t] - 1 = Cardinality(Holders(t, "R", f)')
      OBVIOUS
    <2> DEFINE S == Holders(t, "R", f)
               T == Holders(t, "R", f)'
    <2>1. S \in SUBSET Vars /\ T \in SUBSET Vars /\ v \in S /\ v \notin T
          /\ \A u \in Vars : u # v => (u \in S <=> u \in T)
      BY <1>2, <1>4, <1>5 DEF Holders
    <2>2. readers[f][t] = Cardinality(S)
      BY <1>2, <1>6 DEF LatchesOf
    <2> HIDE DEF S, T
    <2>3. /\ Cardinality(S) \in Nat /\ Cardinality(T) \in Nat
          /\ Cardinality(T) = Cardinality(S) + Num(v \in T) - Num(v \in S)
          /\ v \in S => Cardinality(S) > 0
      BY <2>1, GuardAssumption, CountChange
    <2>4. Num(v \in T) = 0 /\ Num(v \in S) = 1
      BY <2>1 DEF Num
    <2>5. readers[f][t] > 0 /\ readers[f][t] - 1 = Cardinality(T)
      BY <2>1, <2>2, <2>3, <2>4
    <2> QED  BY <2>5 DEF T
  <1>11. /\ \A y \in Frames : y # f => writer'[y] = writer[y]
         /\ writer'[f] = IF k = "W" THEN NoThread ELSE writer[f]
         /\ \A y \in Frames, s \in Threads : y # f \/ s # t => readers'[y][s] = readers[y][s]
         /\ readers'[f][t] = IF k = "R" THEN readers[f][t] - 1 ELSE readers[f][t]
    BY <1>1, <1>2 DEF PinInv, Types
  <1>12. ASSUME NEW s \in Threads, NEW y \in Frames PROVE LatchesOf(s, y)'
    <2>1. readers'[y][s] = Cardinality(Holders(s, "R", y)')
      <3>1. CASE s = t /\ y = f /\ k = "R"
        BY <1>10, <1>11, <3>1
      <3>2. CASE ~(s = t /\ y = f /\ k = "R")
        <4>1. readers'[y][s] = readers[y][s]
          BY <1>11, <3>2
        <4>2. Holders(s, "R", y)' = Holders(s, "R", y)
          BY <1>8, <3>2
        <4> QED  BY <1>6, <4>1, <4>2 DEF LatchesOf
      <3> QED  BY <3>1, <3>2
    <2>2. /\ writer'[y] = s <=> Holders(s, "W", y)' # {}
          /\ \A a, b \in Holders(s, "W", y)' : a = b
      <3>1. CASE s = t /\ y = f /\ k = "W"
        BY <1>9, <1>11, <3>1, GuardAssumption
      <3>2. CASE ~(s = t /\ y = f /\ k = "W")
        <4>1. Holders(s, "W", y)' = Holders(s, "W", y)
          BY <1>8, <3>2
        <4>2. writer'[y] = s <=> writer[y] = s
          BY <1>9, <1>11, <3>2, GuardAssumption
        <4> QED  BY <1>6, <4>1, <4>2 DEF LatchesOf
      <3> QED  BY <3>1, <3>2
    <2> QED  BY <2>1, <2>2 DEF LatchesOf
  <1>13. WriterAlone'
    <2> SUFFICES ASSUME NEW y \in Frames, writer'[y] # NoThread, NEW s \in Threads
                 PROVE  readers'[y][s] = 0
      BY DEF WriterAlone, NoReader
    <2>1. writer[y] # NoThread
      BY <1>11
    <2>2. readers[y][s] = 0
      BY <2>1 DEF WriterAlone, NoReader
    <2>3. ~(y = f /\ s = t /\ k = "R")
      BY <1>10, <2>2
    <2> QED  BY <1>11, <2>2, <2>3
  <1> QED  BY <1>12, <1>13, LatchInvIs

\* NewPageGuarded, FetchPage, Relatch and Write touch no latch, and no guard that holds
\* one.
LEMMA OtherLatches ==
    ASSUME PinInv, LatchInv, NEW t \in Threads,
           \/ Relatch(t)
           \/ \E v \in Vars : NewPageGuarded(t, v) \/ Write(t, v)
           \/ \E v \in Vars, kind \in {"R", "W"}, p \in 0 .. MaxPages - 1 :
                 FetchPage(t, v, kind, p)
    PROVE  LatchInv' /\ UNCHANGED <<writer, readers>>
  <1>1. UNCHANGED <<writer, readers>>
    BY DEF Relatch, NewPageGuarded, Write, FetchPage, latches
  <1>2. /\ \A s \in Threads : s # t => pc'[s] = pc[s]
        /\ pc[t].at # "unpin" /\ pc'[t].at # "unpin"
    <2> DEFINE Kept == pc' = pc \/ \E c : pc' = [pc EXCEPT ![t] = c] /\ c.at # "unpin"
    <2>0. Idle.at = "idle"
      BY DEF Idle
    <2>1. pc[t].at # "unpin"
      <3>1. pc[t].at = "latch" \/ pc[t] = Idle
        BY DEF Relatch, NewPageGuarded, Write, FetchPage
      <3> QED  BY <2>0, <3>1
    <2>2. Kept
      <3>1. CASE Relatch(t)
        <4>1. pc' = [pc EXCEPT ![t] = Idle]
          BY <3>1 DEF Relatch
        <4> QED  BY <2>0, <4>1
      <3>2. CASE \E v \in Vars : NewPageGuarded(t, v) \/ Write(t, v)
        BY <3>2 DEF NewPageGuarded, Write
      <3>3. ASSUME NEW v \in Vars, NEW kind \in {"R", "W"}, NEW p \in 0 .. MaxPages - 1,
                   FetchPage(t, v, kind, p)
            PROVE  Kept
        <4>1. CASE FrameFor(p) = {}
          BY <3>3, <4>1 DEF FetchPage
        <4>2. CASE FrameFor(p) # {}
          <5>1. PICK f : pc' = [pc EXCEPT ![t] = [at |-> "latch", v |-> v, kind |-> kind, f |-> f]]
            BY <3>3, <4>2 DEF FetchPage
          <5>2. [at |-> "latch", v |-> v, kind |-> kind, f |-> f].at # "unpin"
            OBVIOUS
          <5> QED  BY <5>1, <5>2
        <4> QED  BY <4>1, <4>2
      <3> QED  BY <3>1, <3>2, <3>3
    <2> QED  BY <2>1, <2>2 DEF PinInv, Types
  <1>3. \A s \in Threads, u \in Vars, kind \in {"R", "W"}, f \in Frames :
           guard'[s][u].kind = kind /\ guard'[s][u].frame = f <=>
              guard[s][u].kind = kind /\ guard[s][u].frame = f
    <2>1. CASE \/ Relatch(t)
               \/ \E v \in Vars, kind \in {"R", "W"}, p \in 0 .. MaxPages - 1 :
                     FetchPage(t, v, kind, p)
      BY <2>1 DEF Relatch, FetchPage
    <2>2. ASSUME NEW v \in Vars, NewPageGuarded(t, v), guard' # guard
          PROVE  <1>3!:
      <3>1. PICK f : guard' = [guard EXCEPT ![t][v] = Guard("B", f, FALSE)]
        BY <2>2 DEF NewPageGuarded
      <3>2. guard[t][v].frame = NoFrame
        BY <2>2 DEF NewPageGuarded, Fresh, Live
      <3> DEFINE x == Guard("B", f, FALSE)
      <3>3. x.kind = "B"
        BY DEF Guard
      <3> HIDE DEF x
      <3>4. guard'[t][v] = x /\ Differ(guard, guard', t, v)
        <4>1. guard' = [guard EXCEPT ![t][v] = x]
          BY <3>1 DEF x
        <4> QED  BY <4>1 DEF PinInv, Types, Differ
      <3> QED  BY <3>2, <3>3, <3>4, GuardAssumption DEF Differ
    <2>3. ASSUME NEW v \in Vars, Write(t, v)
          PROVE  <1>3!:
      <3> DEFINE g == guard[t][v]
                 b == g.kind = "B"
                 x == [g EXCEPT !.dirty = b]
      <3>1. guard' = [guard EXCEPT ![t][v] = x]
        BY <2>3 DEF Write
      <3>2. x.kind = g.kind /\ x.frame = g.frame
        <4>1. g \in GuardType
          BY DEF PinInv, Types
        <4> HIDE DEF g
        <4> QED  BY <4>1 DEF GuardType
      <3> HIDE DEF x
      <3>3. guard'[t][v] = x /\ Differ(guard, guard', t, v)
        BY <3>1 DEF PinInv, Types, Differ
      <3> QED  BY <3>2, <3>3 DEF Differ
    <2> QED  BY <2>1, <2>2, <2>3
  <1>4. \A s \in Threads, v \in Vars, kind \in {"R", "W"}, f \in Frames :
           Holding(s, v, kind, f)' <=> Holding(s, v, kind, f)
    BY <1>2, <1>3 DEF Holding
  <1> QED  BY <1>1, <1>4, LatchesKept

LEMMA NextLatches ==
    ASSUME PinInv, LatchInv, WriterAlone, [Next]_vars
    PROVE  LatchInv' /\ WriterAlone'
  <1>1. ASSUME UNCHANGED <<writer, readers>> PROVE WriterAlone'
    BY <1>1 DEF WriterAlone, NoReader
  <1>2. CASE UNCHANGED vars
    <2>1. UNCHANGED <<writer, readers, guard, pc>>
      BY <1>2 DEF vars, latches
    <2> QED  BY <1>1, <2>1, LatchesKept DEF Holding
  <1>3. ASSUME NEW t \in Threads, NEW v \in Vars, NEW from \in Vars, MoveConstruct(t, v, from)
        PROVE  LatchInv' /\ WriterAlone'
    <2>1. /\ guard[t][v].frame = NoFrame /\ guard' = Moved(guard, t, v, from)
          /\ UNCHANGED <<writer, readers, pc>> /\ pc[t].at # "unpin"
      BY <1>3 DEF MoveConstruct, Live, Moved, MovedFrom, latches, Idle
    <2> QED  BY <1>1, <2>1, LatchesMoved
  <1>4. ASSUME NEW t \in Threads, DropUnpin(t)
        PROVE  LatchInv' /\ WriterAlone'
    <2> SUFFICES ASSUME NEW v, v = pc[t].v, NEW from, from = pc[t].from
                 PROVE  LatchInv' /\ WriterAlone'
      OBVIOUS
    <2>1. /\ pc[t].at = "unpin" /\ guard' = Moved(guard, t, v, from)
          /\ pc' = [pc EXCEPT ![t] = Idle] /\ UNCHANGED <<writer, readers>>
      BY <1>4 DEF DropUnpin, Moved, MovedFrom, latches
    <2>2. v \in Vars /\ from \in Vars
      BY <2>1, Places DEF PinInv
    <2>3. pc'[t].at # "unpin" /\ \A s \in Threads : s # t => pc'[s] = pc[s]
      BY <2>1 DEF PinInv, Types, Idle
    <2> QED  BY <1>1, <2>1, <2>2, <2>3, LatchesMoved
  <1>5. CASE Next
    BY <1>1, <1>3, <1>4, <1>5, LatchLatches, DropUnlatchLatches, OtherLatches DEF Next, Thread
  <1> QED  BY <1>2, <1>5

LEMMA InitLatches == Init => LatchInv /\ WriterAlone
  <1> SUFFICES ASSUME Init PROVE LatchInv /\ WriterAlone
    OBVIOUS
  <1>1. \A t \in Threads, kind \in {"R", "W"}, f \in Frames : Holders(t, kind, f) = {}
    BY EmptyGuardIs, GuardAssumption DEF Init, Holders, Holding
  <1>2. \A t \in Threads, f \in Frames : writer[f] # t /\ readers[f][t] = 0
    BY GuardAssumption DEF Init
  <1>3. \A t \in Threads, f \in Frames : LatchesOf(t, f)
    <2> TAKE t \in Threads, f \in Frames
    <2>1. Holders(t, "R", f) = {} /\ Holders(t, "W", f) = {}
      BY <1>1
    <2>2. Cardinality(Holders(t, "R", f)) = 0
      BY <2>1, FS_EmptySet
    <2> QED  BY <1>2, <2>1, <2>2 DEF LatchesOf
  <1>4. WriterAlone
    BY DEF Init, WriterAlone
  <1> QED  BY <1>3, <1>4, LatchInvIs

(***************************************************************************)
(* The inductive invariant of the page guards: pins and latches are those  *)
(* of the guards, of the fetches that wait and of the drops half done, and *)
(* a frame with a writer has no readers.                                   *)
(***************************************************************************)
THEOREM GuardInvariance == Spec => [](PinInv /\ LatchInv /\ WriterAlone)
  <1>1. Init => PinInv /\ LatchInv /\ WriterAlone
    BY InitPins, InitLatches
  <1>2. PinInv /\ LatchInv /\ WriterAlone /\ [Next]_vars => (PinInv /\ LatchInv /\ WriterAlone)'
    BY NextPins, NextLatches
  <1> QED  BY <1>1, <1>2, PTL DEF Spec

(***************************************************************************)
(* The latch of a frame is held exactly by the guards on it that have not  *)
(* begun to drop: no drop or move forgets a latch or releases it twice.    *)
(***************************************************************************)
THEOREM LatchesCorrect == Spec => []LatchesMatchGuards
  <1>1. LatchInv => LatchesMatchGuards
    BY DEF LatchInv
  <1> QED  BY <1>1, GuardInvariance, PTL

\* One guard at most holds a frame that some WritePageGuard holds.
GuardExclusion ==
    \A t, s \in Threads, v, u \in Vars, kind \in {"R", "W"}, f \in Frames :
        Holding(t, v, "W", f) /\ Holding(s, u, kind, f) => t = s /\ v = u

(***************************************************************************)
(* A WritePageGuard on a frame excludes every other guard that latches it, *)
(* another guard of the same thread included.                              *)
(***************************************************************************)
THEOREM ExclusionCorrect == Spec => []GuardExclusion
  <1>1. PinInv /\ LatchInv /\ WriterAlone => GuardExclusion
    <2> SUFFICES ASSUME LatchInv, WriterAlone, NEW t \in Threads, NEW s \in Threads,
                        NEW v \in Vars, NEW u \in Vars, NEW kind \in {"R", "W"},
                        NEW f \in Frames, Holding(t, v, "W", f), Holding(s, u, kind, f)
                 PROVE  t = s /\ v = u
      BY DEF GuardExclusion
    <2>1. LatchesOf(t, f) /\ LatchesOf(s, f)
      BY LatchInvIs
    <2>2. v \in Holders(t, "W", f) /\ u \in Holders(s, kind, f)
      BY DEF Holders
    <2>3. writer[f] = t
      BY <2>1, <2>2 DEF LatchesOf
    <2>4. CASE kind = "W"
      <3>1. s = t
        BY <2>1, <2>2, <2>3, <2>4 DEF LatchesOf
      <3> QED  BY <2>1, <2>2, <2>4, <3>1 DEF LatchesOf
    <2>5. CASE kind = "R"
      <3>1. Cardinality(Holders(s, "R", f)) = 0
        BY <2>1, <2>3, GuardAssumption DEF LatchesOf, WriterAlone, NoReader
      <3>2. IsFiniteSet(Holders(s, "R", f))
        <4>1. Holders(s, "R", f) \in SUBSET Vars
          BY DEF Holders
        <4> QED  BY <4>1, GuardAssumption, FS_Subset
      <3>3. Holders(s, "R", f) = {}
        BY <3>1, <3>2, FS_EmptySet
      <3> QED  BY <2>2, <2>5, <3>3
    <2> QED  BY <2>4, <2>5
  <1> QED  BY <1>1, GuardInvariance, PTL
=============================================================================
