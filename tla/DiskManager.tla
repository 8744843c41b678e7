---------------------------- MODULE DiskManager ----------------------------
(***************************************************************************)
(* storage/disk/disk_manager.cpp: the database file behind one fstream.    *)
(* The operators map a disk state to the next; BufferPoolManager, which    *)
(* makes all its disk calls under its own latch, chains them.              *)
(*                                                                         *)
(* The error bits of the stream are part of the state, because nothing     *)
(* ever clears them:                                                       *)
(*   "good"                                                                *)
(*   "fail"  a read came back short.  Every later seek, read and write is  *)
(*           a silent no-op: reads return zeros, writes are dropped.       *)
(*   "bad"   the operating system refused a write.  WritePage and ReadPage *)
(*           throw from then on.                                           *)
(***************************************************************************)
EXTENDS Integers, FiniteSets

CONSTANTS
    MaxPages,       \* bound: pages are numbered 0 .. MaxPages - 1
    Data,           \* the contents a page can have
    Zero            \* the all-zero page

ASSUME MaxPagesAssumption == MaxPages \in Nat
ASSUME ZeroAssumption == Zero \in Data

PageIds == 0 .. MaxPages - 1

IOStates == {"good", "fail", "bad"}

\* content[p]: what the file holds at page p; size: its length in pages;
\* next_page_id: the allocation counter, next_page_id_.
Disk == [content : [PageIds -> Data], size : 0 .. MaxPages,
         next_page_id : 0 .. MaxPages, io : IOStates]

EmptyDisk == [content |-> [p \in PageIds |-> Zero], size |-> 0,
              next_page_id |-> 0, io |-> "good"]

\* Mutant: the counter starts at zero on an existing file.
ReopenedFromZero(d) == [content |-> d.content, size |-> d.size,
                        next_page_id |-> 0, io |-> "good"]

\* The constructor: the counter starts at the length of the file.
Reopened(d) == [content |-> d.content, size |-> d.size,
                next_page_id |-> d.size, io |-> "good"]

-----------------------------------------------------------------------------
\* The file after the pages of S have been written with the contents data.  A page
\* written beyond the end leaves a gap that reads as zeros.
SizeAfter(d, S, n) ==
    /\ n >= d.size
    /\ \A p \in S : n > p
    /\ n = d.size \/ \E p \in S : n = p + 1

Written(d, S, data) ==
    {[content |-> [p \in PageIds |-> IF p \in S THEN data[p] ELSE d.content[p]],
      size |-> n, next_page_id |-> d.next_page_id, io |-> "good"]
        : n \in {m \in 0 .. MaxPages : SizeAfter(d, S, m)}}

Broken(d) == [content |-> d.content, size |-> d.size,
              next_page_id |-> d.next_page_id, io |-> "bad"]

\* WritePage(p, v): the possible states after the call.  It threw exactly if the
\* state after it is "bad".
WritePage(d, p, v) ==
    IF d.io = "good" THEN Written(d, {p}, [q \in {p} |-> v]) \cup {Broken(d)} ELSE {d}

\* ReadPage(p): what the caller's buffer holds after a call that did not throw,
\* and the stream after it.
ReadPage(d, p) == IF d.io # "fail" /\ p < d.size THEN d.content[p] ELSE Zero

AfterReadPage(d, p) == IF p < d.size THEN d
                       ELSE [content |-> d.content, size |-> d.size,
                             next_page_id |-> d.next_page_id, io |-> "fail"]

ReadThrows(d) == d.io = "bad"

\* AllocatePage hands out next_page_id; DeallocatePage does nothing.
AfterAllocatePage(d) ==
    [content |-> d.content, size |-> d.size,
     next_page_id |-> d.next_page_id + 1, io |-> d.io]
=============================================================================
