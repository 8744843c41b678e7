----------------------------- MODULE Executors -----------------------------
(***************************************************************************)
(* Plan trees and their executors.  A stream is the rows an executor's     *)
(* Next gives, in order, and whether it then throws: an executor that      *)
(* streams passes on what came before the error, one that materializes in  *)
(* Init passes nothing on.  INSERT, UPDATE and DELETE change the catalog   *)
(* row by row while their child goes on reading it.                        *)
(***************************************************************************)
EXTENDS Catalog

NoExpr == [kind |-> "none"]
Col(tuple, idx) == [kind |-> "col", tuple |-> tuple, idx |-> idx]
Const(value) == [kind |-> "const", value |-> value]
Node(kind, op, l, r) == [kind |-> kind, op |-> op, l |-> l, r |-> r]

\* Evaluate, given one tuple, and EvaluateJoin, given two.  Only the latter
\* looks at the tuple index of a column.  A column that is not there is read
\* beyond the tuple.
RECURSIVE Evaluate(_, _)
Evaluate(e, tuples) ==
    CASE e.kind = "const" -> e.value
      [] e.kind = "col" ->
            LET t == IF Len(tuples) = 2 /\ e.tuple # 0 THEN tuples[2] ELSE tuples[1]
            IN  IF e.idx \in DOMAIN t THEN t[e.idx] ELSE Error
      [] e.kind = "cmp" -> PerformComparison(e.op, Evaluate(e.l, tuples), Evaluate(e.r, tuples))
      [] e.kind = "arith" -> PerformComputation(e.op, Evaluate(e.l, tuples), Evaluate(e.r, tuples))
      [] e.kind = "logic" -> PerformLogic(e.op, Evaluate(e.l, tuples), Evaluate(e.r, tuples))

\* !IsNull() && GetAsBoolean() of a predicate's value: a NULL of any type selects
\* nothing, and GetAsBoolean throws for what is no BOOLEAN.
Satisfied(pred, tuples) ==
    LET v == IF pred = NoExpr THEN Bool(TRUE) ELSE Evaluate(pred, tuples)
    IN  CASE v = Error           -> Error
          [] v.null              -> Bool(FALSE)
          [] v.type = "BOOLEAN"  -> v
          [] OTHER               -> Error

Stream(rows, err) == [rows |-> rows, err |-> err]

\* The elements before the first for which `F' is Error.
UntilError(s, F(_)) ==
    LET bad == {i \in DOMAIN s : F(s[i]) = Error}
    IN  Stream(IF bad = {} THEN s ELSE SubSeq(s, 1, Min(bad) - 1), bad # {})

Filter(s, pred) ==
    LET read == UntilError(s.rows, LAMBDA r : Satisfied(pred, <<r>>))
    IN  Stream(SelectSeq(read.rows, LAMBDA r : IsTrue(Satisfied(pred, <<r>>))), read.err \/ s.err)

\* The RIDs IndexScan's Init copies; a key that is no INTEGER finds nothing.
MatchingRids(c, plan) ==
    LET key == plan.key.value
    IN  IF ~key.null /\ key.type = "INTEGER" THEN LookupInteger(c.indexes[plan.index], key.v) ELSE <<>>

PairedWith(left, right) == [i \in DOMAIN right |-> <<left, right[i]>>]

NestedLoopJoin(left, right, pred) ==
    LET pairs == FlattenSeq([i \in DOMAIN left.rows |-> PairedWith(left.rows[i], right.rows)])
        read == UntilError(pairs, LAMBDA p : Satisfied(pred, p))
        hits == SelectSeq(read.rows, LAMBDA p : IsTrue(Satisfied(pred, p)))
    IN  Stream([i \in DOMAIN hits |-> hits[i][1] \o hits[i][2]],
               read.err \/ left.err \/ (right.err /\ left.rows # <<>>))

\* The hash table of the left rows, keyed by text, is built in Init.
HashJoin(left, right, lkey, rkey) ==
    LET Key(e, row) == Text(Evaluate(e, <<row>>))
        Bucket(r) == SelectSeq(left.rows, LAMBDA l : Key(lkey, l) = Key(rkey, r))
    IN  IF left.err THEN Stream(<<>>, TRUE)
        ELSE Stream(FlattenSeq([i \in DOMAIN right.rows |->
                        LET b == Bucket(right.rows[i])
                        IN  [j \in DOMAIN b |-> b[j] \o right.rows[i]]]), right.err)
-----------------------------------------------------------------------------
\* One aggregate over the values of a group, in order.
Aggregate(fn, vals) ==
    LET given == SelectSeq(vals, LAMBDA v : ~v.null)
        Keep(a, b, less) == IF less.type = "ERROR" THEN Error ELSE IF IsTrue(less) THEN b ELSE a
        Step(a, b) == CASE fn = "sum" -> PerformComputation("+", a, b)
                        [] fn = "min" -> Keep(a, b, CompareLessThan(b, a))
                        [] fn = "max" -> Keep(a, b, CompareLessThan(a, b))
    IN  CASE fn = "count*" -> Value("INTEGER", Len(vals))
          [] fn = "count"  -> Value("INTEGER", Len(given))
          [] OTHER -> IF given = <<>> THEN NullValue("INTEGER") ELSE FoldLeft(Step, given[1], Tail(given))

\* Group keys are joined as text and parsed back: a number if it looks like
\* one, NULL if it says so, else a string.
ParseKey(text) ==
    CASE text[1] = "digits" -> Value("INTEGER", text[2])
      [] text[1] = "NULL" -> NullValue("INTEGER")
      [] OTHER -> Value("VARCHAR", text[2])

\* The elements of a set in some order.
Listed(S) == FoldSet(LAMBDA x, s : Append(s, x), <<>>, S)

\* An aggregate is a pair <<fn, argument>>.  With no GROUP BY every row is in
\* the one group.  The groups come in an order nobody specifies.
Aggregation(s, group_bys, aggs) ==
    LET KeyOf(row) == [g \in DOMAIN group_bys |-> Text(Evaluate(group_bys[g], <<row>>))]
        keys == IF group_bys = <<>> THEN {<<>>} ELSE {KeyOf(s.rows[i]) : i \in DOMAIN s.rows}
        Values(k, a) ==
            LET rows == SelectSeq(s.rows, LAMBDA r : KeyOf(r) = k)
            IN  [i \in DOMAIN rows |-> Evaluate(aggs[a][2], <<rows[i]>>)]
        Result(k) == [g \in DOMAIN k |-> ParseKey(k[g])]
                     \o [a \in DOMAIN aggs |-> Aggregate(aggs[a][1], Values(k, a))]
        results == Listed({Result(k) : k \in keys})
        failed == \/ s.err
                  \/ \E i \in DOMAIN s.rows :
                        \/ \E g \in DOMAIN group_bys : Evaluate(group_bys[g], <<s.rows[i]>>) = Error
                        \/ \E a \in DOMAIN aggs : /\ aggs[a][1] # "count*"
                                                  /\ Evaluate(aggs[a][2], <<s.rows[i]>>) = Error
                  \/ \E r \in ToSet(results) : Error \in ToSet(r)
    IN  IF failed THEN Stream(<<>>, TRUE) ELSE Stream(results, FALSE)

\* Mutant: only the first ORDER BY expression is looked at.
RowLessFirst(order_bys, a, b) ==
    LET e == order_bys[1][2]
        less(x, y) == IsTrue(CompareLessThan(Evaluate(e, <<x>>), Evaluate(e, <<y>>)))
    IN  IF order_bys[1][1] THEN less(a, b) ELSE less(b, a)

\* The comparator of Sort: the first ORDER BY expression that tells two rows
\* apart decides.  order_bys is a sequence of <<is_ascending, expression>>.
RowLess(order_bys, a, b) ==
    LET Less(k, x, y) == CompareLessThan(Evaluate(order_bys[k][2], <<x>>), Evaluate(order_bys[k][2], <<y>>))
        Differ(k) == IsTrue(Less(k, a, b)) \/ IsTrue(Less(k, b, a))
        differ == {k \in DOMAIN order_bys : Differ(k)}
    IN  differ # {} /\ LET k == Min(differ) IN IsTrue(Less(k, a, b)) <=> order_bys[k][1]

Sort(s, order_bys) ==
    LET fails(x) == \E k \in DOMAIN order_bys :
                       LET v == Evaluate(order_bys[k][2], <<x>>) IN CompareLessThan(v, v) = Error
    IN  IF s.err \/ (Len(s.rows) > 1 /\ \E x \in ToSet(s.rows) : fails(x)) THEN Stream(<<>>, TRUE)
        ELSE Stream(SortSeq(s.rows, LAMBDA a, b : RowLess(order_bys, a, b)), FALSE)

\* n is at least 1: LIMIT 0 would also hide an error of a streaming child.
Limit(s, n) == IF Len(s.rows) >= n THEN Stream(SubSeq(s.rows, 1, n), FALSE) ELSE s

Projection(s, exprs) ==
    LET Out(row) == [i \in DOMAIN exprs |-> Evaluate(exprs[i], <<row>>)]
        read == UntilError(s.rows, LAMBDA r : IF Error \in ToSet(Out(r)) THEN Error ELSE Bool(TRUE))
    IN  Stream([i \in DOMAIN read.rows |-> Out(read.rows[i])], read.err \/ s.err)
=============================================================================
