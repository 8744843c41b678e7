-------------------------- MODULE ExecutionEngine --------------------------
(***************************************************************************)
(* ExecutorFactory and ExecutionEngine::Execute: a plan tree becomes a     *)
(* tree of executors that is run to its end.  The result of a statement is *)
(* the catalog it leaves, its rows and whether it threw; a statement that  *)
(* throws keeps the effects it had.                                        *)
(***************************************************************************)
EXTENDS Executors

Result(c, rows, err) == [cat |-> c, rows |-> rows, err |-> err]

\* SeqScan and IndexScan read the row of each RID they come to.
ReadAll(c, table, rids) == [i \in DOMAIN rids |-> RowAt(c, table, rids[i])]

\* The executors of SELECT, which leave the catalog alone.
RECURSIVE Rows(_, _)
Rows(c, plan) ==
    CASE plan.kind = "seq_scan" ->
            Filter(Stream(ReadAll(c, plan.table, Scan(HeapOf(c, plan.table))), FALSE), plan.pred)
      [] plan.kind = "index_scan" ->
            Filter(Stream(ReadAll(c, plan.table, MatchingRids(c, plan)), FALSE), plan.pred)
      [] plan.kind = "nested_loop_join" ->
            NestedLoopJoin(Rows(c, plan.left), Rows(c, plan.right), plan.pred)
      [] plan.kind = "hash_join" ->
            HashJoin(Rows(c, plan.left), Rows(c, plan.right), plan.lkey, plan.rkey)
      [] plan.kind = "aggregation" -> Aggregation(Rows(c, plan.child), plan.group_bys, plan.aggs)
      [] plan.kind = "sort"        -> Sort(Rows(c, plan.child), plan.order_bys)
      [] plan.kind = "limit"       -> Limit(Rows(c, plan.child), plan.limit)
      [] plan.kind = "projection"  -> Projection(Rows(c, plan.child), plan.exprs)
-----------------------------------------------------------------------------
\* The child of a DML plan is a scan.  Its cursor is the iterator, already
\* moved past the row last given, or the RIDs an index scan has left.
Open(c, scan) ==
    IF scan.kind = "seq_scan" THEN Begin(HeapOf(c, scan.table)) ELSE MatchingRids(c, scan)

Ahead(c, scan, cursor) ==
    IF scan.kind = "index_scan" THEN cursor
    ELSE SelectSeq(Scan(HeapOf(c, scan.table)), LAMBDA r : cursor # End /\ ~Before(r, cursor))

\* Next of the scan: the first row ahead that satisfies the predicate, or for
\* which the predicate throws.
ScanNext(c, scan, cursor) ==
    LET Found(rids, i, row) ==
            IF Satisfied(scan.pred, <<row>>) = Error THEN [at |-> "error"]
            ELSE [at |-> "row", rid |-> rids[i], row |-> row,
                  cursor |-> IF scan.kind = "index_scan" THEN SubSeq(rids, i + 1, Len(rids))
                             ELSE NextRid(HeapOf(c, scan.table), rids[i])]
        Stops(answer) == answer = Error \/ IsTrue(answer)
        First(rids, hits) ==
            IF hits = {} THEN [at |-> "end"]
            ELSE Found(rids, Min(hits), RowAt(c, scan.table, rids[Min(hits)]))
        NextOf(rids) ==
            First(rids, {i \in DOMAIN rids : Stops(Satisfied(scan.pred, <<RowAt(c, scan.table, rids[i])>>))})
    IN  NextOf(Ahead(c, scan, cursor))

Indexable(v) == ~v.null /\ v.type = "INTEGER"
KeyOf(info, row) == row[info.attrs[1]]

AddKey(info, row, rid) ==
    IF Indexable(KeyOf(info, row)) THEN InsertEntry(info, KeyOf(info, row).v, rid) ELSE info
RemoveKey(info, row, rid) ==
    IF Indexable(KeyOf(info, row)) THEN RemoveEntry(info, KeyOf(info, row).v, rid) ELSE info

\* Insert: the row, then the indexes.  A row that fits no page throws.
InsertRow(c, plan, row) ==
    LET Indexed(stored, rid) == EachPointIndex(stored, plan.table, LAMBDA i : AddKey(i, row, rid))
        Insert(ins) ==
            IF ins.rid = End THEN [cat |-> SetHeap(c, plan.table, ins.heap), err |-> TRUE]
            ELSE [cat |-> Indexed(SetHeap(c, plan.table, ins.heap), ins.rid), err |-> FALSE]
    IN  Insert(InsertTuple(HeapOf(c, plan.table), row))

\* Mutant: an update adds the new key and leaves the old one.
UpdateIndexAddsOnly(info, old, new, rid) == AddKey(info, new, rid)

UpdateIndex(info, old, new, rid) == AddKey(RemoveKey(info, old, rid), new, rid)

\* Update: the indexes, then the row, whose update may fail unnoticed.
UpdateRow(c, plan, old, rid) ==
    LET new == [i \in DOMAIN plan.exprs |-> Evaluate(plan.exprs[i], <<old>>)]
        indexed == EachPointIndex(c, plan.table, LAMBDA i : UpdateIndex(i, old, new, rid))
    IN  IF Error \in ToSet(new) THEN [cat |-> c, err |-> TRUE]
        ELSE [cat |-> SetHeap(indexed, plan.table, UpdateTuple(HeapOf(c, plan.table), rid, new)),
              err |-> FALSE]

\* Delete: the indexes, then the row.
DeleteRow(c, plan, row, rid) ==
    LET indexed == EachPointIndex(c, plan.table, LAMBDA i : RemoveKey(i, row, rid))
    IN  [cat |-> SetHeap(indexed, plan.table, DeleteTuple(HeapOf(c, plan.table), rid)), err |-> FALSE]

ChangeRow(c, plan, n) ==
    CASE plan.kind = "insert" -> InsertRow(c, plan, n.row)
      [] plan.kind = "update" -> UpdateRow(c, plan, n.row, n.rid)
      [] plan.kind = "delete" -> DeleteRow(c, plan, n.row, n.rid)

\* The loop of the three: one row of the child at a time, until its end.
RECURSIVE ForEachRow(_, _, _, _)
ForEachRow(c, plan, cursor, count) ==
    LET GoOn(done, next) ==
            IF done.err THEN Result(done.cat, <<>>, TRUE)
            ELSE ForEachRow(done.cat, plan, next, count + 1)
        Step(n) ==
            CASE n.at = "end"   -> Result(c, <<<<Value("INTEGER", count)>>>>, FALSE)
              [] n.at = "error" -> Result(c, <<>>, TRUE)
              [] n.at = "row"   -> GoOn(ChangeRow(c, plan, n), n.cursor)
    IN  Step(ScanNext(c, plan.child, cursor))
-----------------------------------------------------------------------------
\* DROP INDEX of several names in order: the ones before a name that is
\* missing, or that two tables use, are dropped all the same.
DropIndexes(c, plan) ==
    LET Tables(cat, name) == {t \in DOMAIN cat.tables : <<t, name>> \in DOMAIN cat.indexes}
        Drop(r, name) ==
            LET tables == Tables(r.cat, name)
            IN  CASE r.err -> r
                  [] Cardinality(tables) > 1 -> [r EXCEPT !.err = TRUE]
                  [] tables = {} -> [r EXCEPT !.err = ~plan.missing_ok]
                  [] OTHER -> [r EXCEPT !.cat = DropIndex(@, name, CHOOSE t \in tables : TRUE)]
    IN  FoldLeft(Drop, Result(c, <<>>, FALSE), plan.names)

\* The command tags, and the rows of SHOW TABLES, SHOW INDEXES and SHOW
\* <table>, are left out.
Utility(c, plan) ==
    CASE plan.op = "create_index" ->
            LET made == CreateIndex(c, plan.name, plan.table, plan.attrs)
            IN  Result(made.cat, <<>>, ~made.ok)
      [] plan.op = "drop_index" -> DropIndexes(c, plan)
      [] plan.op = "show" -> Result(c, <<>>, FALSE)

Execute(c, plan) ==
    CASE plan.kind = "utility" -> Utility(c, plan)
      [] plan.kind \in {"insert", "update", "delete"} -> ForEachRow(c, plan, Open(c, plan.child), 0)
      [] OTHER -> LET s == Rows(c, plan) IN Result(c, s.rows, s.err)
=============================================================================
