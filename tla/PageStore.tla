----------------------------- MODULE PageStore -----------------------------
(***************************************************************************)
(* What the buffer pool and the disk manager promise together, without     *)
(* frames, pins or evictions: a page shows the last contents a caller put  *)
(* into it until it is deleted or the process stops, and after a restart   *)
(* every page reads as the last contents that had been persisted.  What    *)
(* the callers put in is a variable of its own, so that contents that      *)
(* change without a caller's write are no step of this store.              *)
(***************************************************************************)
CONSTANTS
    PageIds, Data, Zero,
    NoPage                  \* "there is no such page"

VARIABLES
    written,                \* what the callers last put into each page
    contents,               \* what FetchPage(p) shows
    durable                 \* what a restart would recover

storeVars == <<written, contents, durable>>

Absent(p) == contents[p] = NoPage

\* A caller changes what page p holds, and with it what the page shows.
Put(p, v) ==
    /\ written' = [written EXCEPT ![p] = v]
    /\ contents' = [contents EXCEPT ![p] = v]

\* Persisting may happen to any page at any time, and only with its current
\* contents.  A page of the file nobody has persisted reads as zeros.
Persisting ==
    /\ durable' = [p \in PageIds |-> durable'[p]]
    /\ \A p \in PageIds :
          \/ durable'[p] = durable[p]
          \/ ~Absent(p) /\ durable'[p] = contents[p]
          \/ durable[p] = NoPage /\ durable'[p] = Zero

Create(p) ==
    /\ Absent(p)
    /\ Put(p, Zero)
    /\ Persisting

Persist == Persisting /\ UNCHANGED <<written, contents>>

Write(p, v) ==
    /\ ~Absent(p)
    /\ Put(p, v)
    /\ UNCHANGED durable

Delete(p) ==
    /\ Put(p, NoPage)
    /\ UNCHANGED durable

Restart ==
    /\ written' = durable
    /\ contents' = durable
    /\ UNCHANGED durable

Init ==
    /\ written = [p \in PageIds |-> NoPage]
    /\ contents = [p \in PageIds |-> NoPage]
    /\ durable = [p \in PageIds |-> NoPage]

Next ==
    \/ Persist
    \/ Restart
    \/ \E p \in PageIds :
          \/ Create(p)
          \/ Delete(p)
          \/ \E v \in Data : Write(p, v)

Spec == Init /\ [][Next]_storeVars
=============================================================================
