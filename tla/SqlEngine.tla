----------------------------- MODULE SqlEngine -----------------------------
(***************************************************************************)
(* A session: statements are bound, optimized and executed one after the   *)
(* other against the catalog, as HandleQuery does.  Queries do not change  *)
(* the catalog, so they are not steps: the properties ask, in every state, *)
(* what each of them would answer.                                         *)
(***************************************************************************)
EXTENDS Binder

CONSTANTS
    InitialTables,      \* name -> [schema, rows]: the tables and rows a session starts from
    NewTables,          \* name -> schema: tables it may create
    Statements,         \* the statements it may execute
    Queries,            \* the SELECTs asked in every state
    MaxStatements       \* bound: statements executed

VARIABLES
    catalog,
    last,               \* the last statement, and whether it threw
    executed            \* statements executed so far

vars == <<catalog, last, executed>>

\* The tables of the client: CreateTable, then InsertTuple for each row.
Seeded(c, name) ==
    LET t == InitialTables[name]
        h == FoldLeft(LAMBDA heap, row : InsertTuple(heap, row).heap, NewHeap, t.rows)
    IN  SetHeap(CreateTable(c, name, t.schema), name, h)

Init ==
    /\ catalog = FoldSet(LAMBDA name, c : Seeded(c, name), EmptyCatalog, DOMAIN InitialTables)
    /\ last = [stmt |-> [stmt |-> "none"], err |-> FALSE]
    /\ executed = 0

Overran(c) == \E t \in DOMAIN c.tables : \E p \in DOMAIN HeapOf(c, t) : Overrun(HeapOf(c, t)[p])

\* A page that was overrun ends the behaviour: what follows is undefined.
Ready == executed < MaxStatements /\ ~Overran(catalog)

\* HandleQuery: a statement that cannot be bound, or that throws while it
\* runs, is answered with an error.
HandleQuery(s) ==
    /\ Ready
    /\ executed' = executed + 1
    /\ \E plan \in {BindQuery(catalog, s)} :
          IF plan = BindError
          THEN catalog' = catalog /\ last' = [stmt |-> s, err |-> TRUE]
          ELSE \E r \in {Execute(catalog, p) : p \in Optimize(catalog, plan)} :
                  catalog' = r.cat /\ last' = [stmt |-> s, err |-> r.err]

MakeTable(name) ==
    /\ Ready
    /\ catalog' = CreateTable(catalog, name, NewTables[name])
    /\ last' = [stmt |-> [stmt |-> "create_table"], err |-> FALSE]
    /\ executed' = executed + 1

Next == (\E s \in Statements : HandleQuery(s)) \/ (\E name \in DOMAIN NewTables : MakeTable(name))

Spec == Init /\ [][Next]_vars
-----------------------------------------------------------------------------
\* What the statements and queries should do, by names and sets of rows.
Live(c, t) == ToSet(Scan(HeapOf(c, t)))
Times(x, s) == Cardinality({i \in DOMAIN s : s[i] = x})
SameRows(s, t) == \A x \in ToSet(s) \cup ToSet(t) : Times(x, s) = Times(x, t)

\* The value of an expression for a combination of rows, one per scope: the
\* column is looked up in the scope that has it, by name.
RECURSIVE Meaning(_, _, _, _)
Meaning(c, e, scopes, combo) ==
    CASE e.ast = "absent"  -> Bool(TRUE)
      [] e.ast = "literal" -> e.value
      [] e.ast = "name" ->
            LET at == CHOOSE i \in DOMAIN scopes :
                         e.q \in {"", scopes[i].alias} /\ GetColumnIdx(SchemaOf(c, scopes[i].table), e.n) # {}
            IN  combo[at][Min(GetColumnIdx(SchemaOf(c, scopes[at].table), e.n))]
      [] e.ast = "apply" ->
            LET x == Meaning(c, e.l, scopes, combo)
                y == Meaning(c, e.r, scopes, combo)
            IN  IF e.op \in {"+", "-", "*", "/", "%"} THEN PerformComputation(e.op, x, y)
                                                      ELSE PerformComparison(e.op, x, y)
      [] e.ast = "junction" ->
            LET Holds(i) == IsTrue(Meaning(c, e.es[i], scopes, combo))
            IN  Bool(IF e.op = "AND" THEN \A i \in DOMAIN e.es : Holds(i)
                                     ELSE \E i \in DOMAIN e.es : Holds(i))

\* The combinations of RIDs a FROM and a WHERE select: a set, in no order.
Flat(items) == FlattenSeq([i \in DOMAIN items |->
                   IF "table" \in DOMAIN items[i] THEN <<items[i]>> ELSE <<items[i].left, items[i].right>>])
Ons(items) == {items[i].on : i \in {j \in DOMAIN items : "on" \in DOMAIN items[j]}}

Chosen(c, q) ==
    LET scopes == Flat(q.from)
        Combo(rids) == [i \in DOMAIN rids |-> RowAt(c, scopes[i].table, rids[i])]
        all == {rids \in [DOMAIN scopes -> UNION {Live(c, scopes[i].table) : i \in DOMAIN scopes}] :
                   \A i \in DOMAIN rids : rids[i] \in Live(c, scopes[i].table)}
        Holds(e, rids) == IsTrue(Meaning(c, e, scopes, Combo(rids)))
    IN  {rids \in all : Holds(q.where, rids) /\ \A on \in Ons(q.from) : Holds(on, rids)}

\* One row per combination, or one per group of combinations.
Expected(c, q) ==
    LET scopes == Flat(q.from)
        Combo(rids) == [i \in DOMAIN rids |-> RowAt(c, scopes[i].table, rids[i])]
        Of(e, rids) == Meaning(c, e, scopes, Combo(rids))
        chosen == Chosen(c, q)
        Group(rids) == [g \in DOMAIN q.group |-> Of(q.group[g], rids)]
        groups == IF q.group = <<>> THEN {<<>>} ELSE {Group(r) : r \in chosen}
        Members(g) == {r \in chosen : q.group = <<>> \/ Group(r) = g}
        Fold(t, ms) ==
            LET nums == {<<r, Of(t.arg, r).v>> : r \in ms}
            IN  CASE t.fn \in {"count*", "count"} -> Value("INTEGER", Cardinality(ms))
                  [] ms = {} -> NullValue("INTEGER")
                  [] t.fn = "sum" -> Value("INTEGER", MapThenSumSet(LAMBDA n : n[2], nums))
                  [] t.fn = "min" -> Value("INTEGER", Min({n[2] : n \in nums}))
                  [] t.fn = "max" -> Value("INTEGER", Max({n[2] : n \in nums}))
        aggs == Pick(q.targets, "fn")
        outs == Pick(q.targets, "expr")
        Line(rids) == IF Pick(q.targets, "star") # <<>> THEN FlattenSeq(Combo(rids))
                      ELSE [i \in DOMAIN outs |-> Of(outs[i].expr, rids)]
        order == Listed(chosen)
    IN  IF aggs # <<>>
        THEN Listed({g \o [i \in DOMAIN aggs |-> Fold(aggs[i], Members(g))] : g \in groups})
        ELSE [i \in DOMAIN order |-> Line(order[i])]

\* An answer against the rows expected: the same rows, or for a LIMIT that
\* many of them, those that come first in the order asked for.
Comes(c, q, x, y) ==
    \E k \in DOMAIN q.order :
        LET Key(i, row) == Meaning(c, q.order[i][2], Flat(q.from), <<row>>).v
        IN  /\ \A j \in 1 .. k - 1 : Key(j, x) = Key(j, y)
            /\ IF q.order[k][1] THEN Key(k, x) < Key(k, y) ELSE Key(k, x) > Key(k, y)

Matches(c, q, rows, expected) ==
    /\ IF q.limit = 0 THEN SameRows(rows, expected)
       ELSE /\ Len(rows) = Min({q.limit, Len(expected)})
            /\ \A x \in ToSet(rows) : Times(x, rows) <= Times(x, expected)
    /\ \A i, j \in DOMAIN rows : i < j => ~Comes(c, q, rows[j], rows[i])
    /\ \A x \in ToSet(expected), y \in ToSet(rows) :
          Times(x, rows) < Times(x, expected) => ~Comes(c, q, x, y)

Answers(c, q, rows) == Matches(c, q, rows, Expected(c, q))
-----------------------------------------------------------------------------
\* Every point-lookup index maps each key to exactly the RIDs of the rows that have
\* it, each once, whatever was inserted, updated and deleted since it was created,
\* also after a statement that threw halfway.  Columns are INTEGERs, so a new row
\* has the size of the old one; an UpdateTuple refused for lack of room, whose
\* result UpdateExecutor ignores, needs one that grows and is not among the cases.
IndexMatchesTable ==
    ~Overran(catalog) =>
        \A i \in DOMAIN catalog.indexes :
            LET info == catalog.indexes[i]
                Key(rid) == RowAt(catalog, i[1], rid)[info.attrs[1]].v
            IN  info.point =>
                  /\ {<<k, r>> : <<k, r>> \in UNION {{k} \X ToSet(info.map[k]) : k \in DOMAIN info.map}}
                        = {<<Key(r), r>> : r \in Live(catalog, i[1])}
                  /\ \A k \in DOMAIN info.map : IsInjective(info.map[k])

\* Whenever the bound plan runs to its end, so does every plan the optimizer may
\* make of it, with any index and with hash joins for nested loops, and returns the
\* same rows.  A bound plan that throws may be optimized into one that answers: an
\* index lookup finds no row for a key of another type, and a hash join compares
\* texts, where the comparison of the scan or of the nested loop throws.
PlansAgree ==
    LET SameAnswer(q, slow, fast) ==
            ~slow.err =>
                /\ ~fast.err
                /\ IF q.limit = 0 THEN SameRows(fast.rows, slow.rows)
                                  ELSE Len(fast.rows) = Len(slow.rows)
        OptimizedAgree(q, plan) ==
            \A p \in Optimize(catalog, plan) : SameAnswer(q, Rows(catalog, plan), Rows(catalog, p))
    IN  \A q \in Queries : OptimizedAgree(q, BindQuery(catalog, q))

\* A query is answered as its names, groups and order say.
AnswersAreRight ==
    LET Right(q, s) == ~s.err => Answers(catalog, q, s.rows)
    IN  \A q \in Queries : Right(q, Rows(catalog, BindQuery(catalog, q)))

\* An UPDATE or DELETE acts on exactly the rows that satisfy its predicate before it
\* starts, each once, though it reads the table while it changes it; one that throws
\* has acted on some of them and on no other row.  An INSERT ... SELECT adds the rows
\* it selects from another table (from the same one it would not end).
After(c, s, rid) ==
    LET scopes == <<Scope(s.table, s.table, 0)>>
        schema == SchemaOf(c, s.table)
        row == RowAt(c, s.table, rid)
    IN  IF s.stmt = "delete" THEN Deleted
        ELSE [i \in DOMAIN schema |->
                 IF schema[i].name \in DOMAIN s.set THEN Meaning(c, s.set[schema[i].name], scopes, <<row>>)
                 ELSE row[i]]

Acted ==
    LET s == last'.stmt
        t == s.table
        from == IF s.stmt = "insert" THEN s.source ELSE t
        hit == {rid \in Live(catalog, from) :
                   IsTrue(Meaning(catalog, s.where, <<Scope(from, from, 0)>>,
                                  <<RowAt(catalog, from, rid)>>))}
        changed == {rid \in Live(catalog, t) : GetTuple(HeapOf(catalog', t), rid)
                                                  # GetTuple(HeapOf(catalog, t), rid)}
        added == Live(catalog', t) \ Live(catalog, t)
        Lines(c, u, rids) == LET o == Listed(rids) IN [i \in DOMAIN o |-> RowAt(c, u, o[i])]
    IN  IF s.stmt = "insert"
        THEN /\ changed = {}
             /\ ~last'.err => SameRows(Lines(catalog', t, added), Lines(catalog, from, hit))
        ELSE /\ added = {} /\ changed \subseteq hit
             /\ \A rid \in IF last'.err THEN changed ELSE hit :
                   GetTuple(HeapOf(catalog', t), rid) = After(catalog, s, rid)

StatementsActOnce ==
    [][/\ last'.stmt.stmt \in {"insert", "update", "delete"} /\ ~Overran(catalog')
       /\ last'.stmt.table \in DOMAIN catalog.tables
       => Acted]_vars
=============================================================================
