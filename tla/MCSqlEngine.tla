---------------------------- MODULE MCSqlEngine ----------------------------
EXTENDS SqlEngine

Num(n) == Value("INTEGER", n)
Str(n) == Value("VARCHAR", n)
Ints == <<Column("id", "INTEGER"), Column("val", "INTEGER")>>
Tags == <<Column("id", "INTEGER"), Column("tag", "VARCHAR")>>

MCTables == [a |-> [schema |-> Ints, rows |-> <<<<Num(1), Num(0)>>, <<Num(0), Num(2)>>>>],
             b |-> [schema |-> Ints, rows |-> <<<<Num(1), Num(1)>>, <<Num(2), Num(1)>>>>],
             s |-> [schema |-> Tags, rows |-> <<<<Num(1), Str(2)>>, <<Num(0), Str(1)>>, <<Num(1), Str(1)>>>>]]
MCNewTables == [c |-> Ints]

N(n) == Name("", n)
L(n) == Literal(Num(n))
Eq(l, r) == Apply("=", l, r)
Table(t) == [alias |-> t, table |-> t]
Plus1Mod3 == Apply("%", Apply("+", N("id"), L(1)), L(3))

Wheres == {NoClause, Eq(N("id"), L(1)), Eq(L(2), N("val"))}
Sets == {[id |-> Plus1Mod3], [id |-> N("val"), val |-> N("id")], [val |-> Apply("/", N("val"), N("id"))]}

MCStatements ==
    {[stmt |-> "create_index", name |-> i[1], table |-> "a", columns |-> i[2]] :
        i \in {<<"i", <<"id">>>>, <<"i", <<"id", "val">>>>, <<"j", <<"id">>>>, <<"j", <<"val">>>>}}
    \cup {[stmt |-> "drop_index", names |-> ns, missing_ok |-> ok] :
             ns \in {<<"j", "i">>}, ok \in BOOLEAN}
    \cup {[stmt |-> "insert", table |-> t[1], source |-> t[2], where |-> w] :
             t \in {<<"a", "b">>, <<"c", "a">>}, w \in {NoClause, Eq(N("id"), L(1))}}
    \cup {[stmt |-> "update", table |-> "a", set |-> set, where |-> w] :
             set \in Sets, w \in {NoClause, Eq(N("id"), L(1))}}
    \cup {[stmt |-> "delete", table |-> "a", where |-> w] : w \in Wheres}
    \cup {[stmt |-> "show", table |-> "nothing"]}

Select(from, where, targets) ==
    [stmt |-> "select", from |-> from, where |-> where, targets |-> targets, group |-> <<>>,
     order |-> <<>>, limit |-> 0]
JoinOn(l, r, on) == <<[left |-> Table(l), right |-> Table(r), on |-> on]>>
FromA == <<Table("a")>>

\* Queries that throw in some states: types that differ, and a division by zero.
MCThrowing ==
    {Select(FromA, Eq(N("id"), Literal(Str(1))), <<Star>>),
     Select(FromA, Eq(N("val"), L(2)), <<Out(Apply("/", N("val"), N("id")))>>),
     Select(JoinOn("a", "s", Eq(Name("a", "id"), Name("s", "tag"))), NoClause, <<Star>>)}

MCQueries ==
    {Select(FromA, w, <<Star>>) : w \in Wheres \cup {Junction("OR", <<Eq(N("id"), L(0)), Eq(N("val"), L(2))>>)}}
    \cup {Select(FromA, Eq(L(1), N("val")), <<Out(Apply("+", N("id"), N("val")))>>),
          Select(FromA, Apply("<", N("val"), N("id")),
                 <<Agg("count*", NoClause), Agg("sum", N("val")), Agg("min", N("id"))>>),
          [Select(FromA, NoClause, <<Out(N("id")), Agg("max", N("val")), Agg("count", N("id"))>>)
              EXCEPT !.group = <<N("id")>>],
          [Select(FromA, NoClause, <<Star>>)
              EXCEPT !.order = <<<<FALSE, N("val")>>, <<TRUE, N("id")>>>>, !.limit = 2],
          Select(JoinOn("a", "b", Eq(Name("b", "val"), Name("a", "id"))), NoClause, <<Star>>),
          Select(JoinOn("s", "a", Eq(Name("s", "id"), Name("a", "val"))),
                 Apply(">", Name("a", "id"), L(0)), <<Star>>)}
    \cup MCThrowing

\* Columns of the right table above a join.
MCJoinQueries ==
    {Select(JoinOn("a", "b", Eq(Name("a", "id"), Name("b", "id"))), NoClause, <<Out(Name("b", "val"))>>)}
=============================================================================
