----------------------------- MODULE Optimizer -----------------------------
(***************************************************************************)
(* Optimizer::Optimize.  The rules are applied bottom up: a scan for equal *)
(* keys becomes an index scan, and an equi-join a hash join.  The indexes  *)
(* of a table come in no particular order, so the result is a set of       *)
(* plans, any of which the code may return.                                *)
(***************************************************************************)
EXTENDS ExecutionEngine

\* The column and the constant of a predicate `column = constant', either
\* way round; none for any other predicate.
PointLookup(pred) ==
    IF pred.kind # "cmp" THEN {}
    ELSE {<<x.idx, y>> : <<x, y>> \in {p \in {<<pred.l, pred.r>>, <<pred.r, pred.l>>} :
                                          pred.op = "=" /\ p[1].kind = "col" /\ p[2].kind = "const"}}

\* The predicate stays on the index scan.
OptimizeSeqScanToIndexScan(c, plan) ==
    LET usable == {<<i, k>> \in GetTableIndexes(c, plan.table) \X PointLookup(plan.pred) :
                      c.indexes[i].point /\ c.indexes[i].attrs[1] = k[1]}
    IN  IF usable = {} THEN {plan}
        ELSE {[kind |-> "index_scan", table |-> plan.table, index |-> u[1], key |-> u[2][2],
               pred |-> plan.pred] : u \in usable}

\* Mutant: the sides of `right = left' are not swapped.
JoinSidesAsWritten(pred) == <<Col(0, pred.l.idx), Col(0, pred.r.idx)>>

JoinSides(pred) ==
    IF pred.l.tuple = 0 THEN <<Col(0, pred.l.idx), Col(0, pred.r.idx)>>
                        ELSE <<Col(0, pred.r.idx), Col(0, pred.l.idx)>>

OptimizeNLJToHashJoin(plan) ==
    IF /\ plan.pred.kind = "cmp" /\ plan.pred.op = "="
       /\ plan.pred.l.kind = "col" /\ plan.pred.r.kind = "col"
       /\ {plan.pred.l.tuple, plan.pred.r.tuple} = {0, 1}
    THEN [kind |-> "hash_join", left |-> plan.left, right |-> plan.right,
          lkey |-> JoinSides(plan.pred)[1], rkey |-> JoinSides(plan.pred)[2]]
    ELSE plan

RECURSIVE Optimize(_, _)
Optimize(c, plan) ==
    CASE plan.kind = "seq_scan" -> OptimizeSeqScanToIndexScan(c, plan)
      [] plan.kind = "nested_loop_join" ->
            {OptimizeNLJToHashJoin([plan EXCEPT !.left = p[1], !.right = p[2]]) :
                p \in Optimize(c, plan.left) \X Optimize(c, plan.right)}
      [] plan.kind = "utility" -> {plan}
      [] OTHER -> {[plan EXCEPT !.child = p] : p \in Optimize(c, plan.child)}
=============================================================================
