------------------------------- MODULE Binder -------------------------------
(***************************************************************************)
(* Binder::BindQuery: from a parsed statement to a plan.  The parser is    *)
(* external; a parse tree is a record, an expression of it one of          *)
(*    Name(q, n)        a column, qualified or with q = ""                 *)
(*    Literal(value)    an integer or a string                             *)
(*    Apply(op, l, r)   a binary operator                                  *)
(*    Junction(op, es)  AND or OR of two or more                           *)
(* and whatever else the parser accepts, which is not supported.           *)
(***************************************************************************)
EXTENDS Optimizer

Name(q, n) == [ast |-> "name", q |-> q, n |-> n]
Literal(value) == [ast |-> "literal", value |-> value]
Apply(op, l, r) == [ast |-> "apply", op |-> op, l |-> l, r |-> r]
Junction(op, es) == [ast |-> "junction", op |-> op, es |-> es]
NoClause == [ast |-> "absent"]

BindError == [kind |-> "error"]

\* A scope is [alias, table, tuple].  The first scope that has the column and
\* whose alias is the qualifier, if there is one, wins.
ResolveColumn(c, n, q, scopes) ==
    LET found == {i \in DOMAIN scopes :
                     /\ q \in {"", scopes[i].alias} /\ scopes[i].table \in DOMAIN c.tables
                     /\ GetColumnIdx(SchemaOf(c, scopes[i].table), n) # {}}
    IN  IF found = {} THEN BindError
        ELSE LET s == scopes[Min(found)]
             IN  Col(s.tuple, Min(GetColumnIdx(SchemaOf(c, s.table), n)))

\* BindAExpr's choice of an expression class by operator.
BindAExpr(op, l, r) ==
    CASE l = BindError \/ r = BindError -> BindError
      [] op \in {"=", "<>", "<", "<=", ">", ">="} -> Node("cmp", op, l, r)
      [] op \in {"+", "-", "*", "/", "%"} -> Node("arith", op, l, r)
      [] OTHER -> BindError

RECURSIVE BindExpression(_, _, _)
BindExpression(c, e, scopes) ==
    CASE e.ast = "absent"   -> NoExpr
      [] e.ast = "name"     -> ResolveColumn(c, e.n, e.q, scopes)
      [] e.ast = "literal"  -> Const(e.value)
      [] e.ast = "apply"    -> BindAExpr(e.op, BindExpression(c, e.l, scopes), BindExpression(c, e.r, scopes))
      [] e.ast = "junction" ->
            LET es == [i \in DOMAIN e.es |-> BindExpression(c, e.es[i], scopes)]
            IN  IF BindError \in ToSet(es) THEN BindError
                ELSE FoldLeft(LAMBDA l, r : Node("logic", e.op, l, r), es[1], Tail(es))
      [] OTHER -> BindError

BindAll(c, es, scopes) == [i \in DOMAIN es |-> BindExpression(c, es[i], scopes)]

Scope(alias, table, tuple) == [alias |-> alias, table |-> table, tuple |-> tuple]
SeqScan(table, pred) == [kind |-> "seq_scan", table |-> table, pred |-> pred]
Join(l, r, pred) == [kind |-> "nested_loop_join", left |-> SeqScan(l, NoExpr), right |-> SeqScan(r, NoExpr),
                     pred |-> pred]
-----------------------------------------------------------------------------
\* FROM: an item is [alias, table] or [left, right, on], left and right being
\* items of the first sort.  Items are taken in order; a join throws away the
\* scans before it, and of several scans only the first is planned.
BindFrom(c, items) ==
    LET Item(f, item) ==
            IF "table" \in DOMAIN item
            THEN [f EXCEPT !.scopes = Append(@, Scope(item.alias, item.table, Len(@))),
                           !.scans = Append(@, SeqScan(item.table, NoExpr))]
            ELSE LET scopes == f.scopes \o <<Scope(item.left.alias, item.left.table, 0),
                                             Scope(item.right.alias, item.right.table, 1)>>
                     on == BindExpression(c, item.on, scopes)
                 IN  [scopes |-> scopes, scans |-> <<>>, ok |-> f.ok /\ on # BindError,
                      base |-> Join(item.left.table, item.right.table, on)]
        f == FoldLeft(Item, [scopes |-> <<>>, scans |-> <<>>, ok |-> items # <<>>, base |-> NoExpr], items)
    IN  [scopes |-> f.scopes, ok |-> f.ok, base |-> IF f.scans = <<>> THEN f.base ELSE f.scans[1]]

\* WHERE: the predicate of the scan, which is always that of the first scope,
\* or a conjunct of the join's.
BindWhere(f, pred) ==
    CASE pred = NoExpr -> f.base
      [] f.base.kind = "seq_scan" -> SeqScan(f.scopes[1].table, pred)
      [] OTHER -> [f.base EXCEPT !.pred = IF @ = NoExpr THEN pred ELSE Node("logic", "AND", @, pred)]

\* The targets: [star], [fn, arg] for an aggregate or [expr].
Star == [star |-> TRUE]
Agg(fn, arg) == [fn |-> fn, arg |-> arg]
Out(e) == [expr |-> e]
Pick(targets, field) == SelectSeq(targets, LAMBDA t : field \in DOMAIN t)

AggregationPlan(child, group_bys, aggs) ==
    IF aggs = <<>> THEN child
    ELSE [kind |-> "aggregation", child |-> child, group_bys |-> group_bys, aggs |-> aggs]
SortPlan(child, order_bys) ==
    IF order_bys = <<>> THEN child ELSE [kind |-> "sort", child |-> child, order_bys |-> order_bys]
LimitPlan(child, n) == IF n = 0 THEN child ELSE [kind |-> "limit", child |-> child, limit |-> n]

\* The targets [expr] are projected last; beside a star or an aggregate they
\* are dropped.
ProjectionPlan(child, targets, exprs) ==
    IF \/ exprs = <<>> \/ Pick(targets, "star") # <<>> \/ Pick(targets, "fn") # <<>> THEN child
    ELSE [kind |-> "projection", child |-> child, exprs |-> exprs]

\* The clauses after FROM, whose result is f.  GROUP BY counts only beside an
\* aggregate.  ORDER BY is bound to the tables' columns, whatever the plan
\* below returns.
BindClauses(c, q, f) ==
    LET Bind(e) == BindExpression(c, e, f.scopes)
        pred == Bind(q.where)
        calls == Pick(q.targets, "fn")
        outs == Pick(q.targets, "expr")
        args == [i \in DOMAIN calls |-> IF calls[i].fn = "count*" THEN Col(0, 1) ELSE Bind(calls[i].arg)]
        group_bys == IF calls = <<>> THEN <<>> ELSE BindAll(c, q.group, f.scopes)
        orders == [i \in DOMAIN q.order |-> Bind(q.order[i][2])]
        exprs == [i \in DOMAIN outs |-> Bind(outs[i].expr)]
    IN  IF BindError \in {pred} \cup ToSet(group_bys \o exprs \o args \o orders) THEN BindError
        ELSE ProjectionPlan(
                LimitPlan(
                    SortPlan(
                        AggregationPlan(BindWhere(f, pred), group_bys,
                                        [i \in DOMAIN calls |-> <<calls[i].fn, args[i]>>]),
                        [i \in DOMAIN q.order |-> <<q.order[i][1], orders[i]>>]),
                    q.limit),
                q.targets, exprs)

\* A table that is missing is an error before anything else is bound.
BindScopes(c, q, f) ==
    IF ~f.ok \/ \E i \in DOMAIN f.scopes : f.scopes[i].table \notin DOMAIN c.tables
    THEN BindError ELSE BindClauses(c, q, f)

BindSelect(c, q) == BindScopes(c, q, BindFrom(c, q.from))
-----------------------------------------------------------------------------
\* INSERT ... SELECT copies whole rows of one table: targets are not looked at.
BindInsert(c, s) ==
    LET pred == BindExpression(c, s.where, <<Scope(s.source, s.source, 0)>>)
    IN  IF {s.table, s.source} \subseteq DOMAIN c.tables /\ pred # BindError
        THEN [kind |-> "insert", table |-> s.table, child |-> SeqScan(s.source, pred)] ELSE BindError

BindDelete(c, s) ==
    LET pred == BindExpression(c, s.where, <<Scope(s.table, s.table, 0)>>)
    IN  IF s.table \in DOMAIN c.tables /\ pred # BindError
        THEN [kind |-> "delete", table |-> s.table, child |-> SeqScan(s.table, pred)] ELSE BindError

\* SET gives a column its new expression; a name that is no column is ignored.
BindUpdate(c, s) ==
    LET scopes == <<Scope(s.table, s.table, 0)>>
        schema == SchemaOf(c, s.table)
        set == [n \in DOMAIN s.set |-> BindExpression(c, s.set[n], scopes)]
        exprs == [i \in DOMAIN schema |->
                     IF schema[i].name \in DOMAIN set THEN set[schema[i].name] ELSE Col(0, i)]
        pred == BindExpression(c, s.where, scopes)
    IN  IF s.table \notin DOMAIN c.tables THEN BindError
        ELSE IF BindError \in {pred} \cup {set[n] : n \in DOMAIN set} THEN BindError
        ELSE [kind |-> "update", table |-> s.table, child |-> SeqScan(s.table, pred), exprs |-> exprs]

\* CREATE INDEX resolves its columns here and checks its name when it runs.
BindCreateIndex(c, s) ==
    LET idx == [i \in DOMAIN s.columns |-> GetColumnIdx(SchemaOf(c, s.table), s.columns[i])]
    IN  IF s.table \notin DOMAIN c.tables THEN BindError
        ELSE IF {} \in ToSet(idx) THEN BindError
        ELSE [kind |-> "utility", op |-> "create_index", name |-> s.name, table |-> s.table,
              attrs |-> [i \in DOMAIN idx |-> Min(idx[i])]]

BindQuery(c, s) ==
    CASE s.stmt = "select" -> BindSelect(c, s)
      [] s.stmt = "insert" -> BindInsert(c, s)
      [] s.stmt = "delete" -> BindDelete(c, s)
      [] s.stmt = "update" -> BindUpdate(c, s)
      [] s.stmt = "create_index" -> BindCreateIndex(c, s)
      [] s.stmt = "drop_index" ->
            [kind |-> "utility", op |-> "drop_index", names |-> s.names, missing_ok |-> s.missing_ok]
      [] s.stmt = "show" -> IF s.table \in DOMAIN c.tables \cup {"tables", "indexes"}
                            THEN [kind |-> "utility", op |-> "show"] ELSE BindError
      [] OTHER -> BindError
=============================================================================
