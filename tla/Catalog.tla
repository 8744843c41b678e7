------------------------------ MODULE Catalog ------------------------------
(***************************************************************************)
(* The catalog: tables with their heaps, and indexes.  An index on one     *)
(* INTEGER column keeps a map from keys to the RIDs of their rows; another *)
(* only has a name.  Tables are named by their names and indexes by table  *)
(* and name: oids, which are never reused, add nothing.                    *)
(***************************************************************************)
EXTENDS TableHeap

EmptyCatalog == [tables |-> <<>>, indexes |-> <<>>]

\* A table that exists is left alone.
CreateTable(c, name, schema) ==
    IF name \in DOMAIN c.tables THEN c
    ELSE [c EXCEPT !.tables = @ @@ (name :> [schema |-> schema, heap |-> NewHeap])]

HeapOf(c, table) == c.tables[table].heap
SchemaOf(c, table) == c.tables[table].schema
SetHeap(c, table, h) == [c EXCEPT !.tables[table].heap = h]
RowAt(c, table, rid) == ReadRow(SchemaOf(c, table), GetTuple(HeapOf(c, table), rid))

GetColumnIdx(schema, name) == {i \in DOMAIN schema : schema[i].name = name}
-----------------------------------------------------------------------------
InsertEntry(info, key, rid) ==
    [info EXCEPT !.map = IF key \in DOMAIN @ THEN [@ EXCEPT ![key] = Append(@, rid)]
                                             ELSE @ @@ (key :> <<rid>>)]

RemoveEntry(info, key, rid) ==
    IF key \notin DOMAIN info.map THEN info
    ELSE LET left == SelectSeq(info.map[key], LAMBDA r : r # rid)
         IN  [info EXCEPT !.map = IF left = <<>> THEN Restrict(@, DOMAIN @ \ {key})
                                                 ELSE [@ EXCEPT ![key] = left]]

LookupInteger(info, key) == IF key \in DOMAIN info.map THEN info.map[key] ELSE <<>>

GetTableIndexes(c, table) == {i \in DOMAIN c.indexes : i[1] = table}

\* CreateIndex: no index for a missing table, an empty key or a name in use.
\* A point-lookup index is filled from the rows the table holds.
CreateIndex(c, name, table, attrs) ==
    LET schema == SchemaOf(c, table)
        point == Len(attrs) = 1 /\ schema[attrs[1]].type = "INTEGER"
        none == [attrs |-> attrs, point |-> point, map |-> <<>>]
        filled == FoldLeft(LAMBDA i, rid : InsertEntry(i, RowAt(c, table, rid)[attrs[1]].v, rid),
                           none, Scan(HeapOf(c, table)))
        info == IF point THEN filled ELSE none
    IN  IF table \notin DOMAIN c.tables \/ attrs = <<>> \/ <<table, name>> \in DOMAIN c.indexes
           \/ ~(ToSet(attrs) \subseteq DOMAIN schema)
        THEN [cat |-> c, ok |-> FALSE]
        ELSE [cat |-> [c EXCEPT !.indexes = @ @@ (<<table, name>> :> info)], ok |-> TRUE]

DropIndex(c, name, table) ==
    [c EXCEPT !.indexes = Restrict(@, DOMAIN @ \ {<<table, name>>})]

\* What the DML executors do to every point-lookup index of a table.
EachPointIndex(c, table, Op(_)) ==
    [c EXCEPT !.indexes =
        [i \in DOMAIN @ |-> IF i[1] = table /\ @[i].point THEN Op(@[i]) ELSE @[i]]]
=============================================================================
