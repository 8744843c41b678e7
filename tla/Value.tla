------------------------------- MODULE Value -------------------------------
(***************************************************************************)
(* Values, their comparison, arithmetic and logic, tuples and schemas.     *)
(* Every payload is an integer: a BOOLEAN is 0 or 1 and a VARCHAR is the   *)
(* length of a string of one repeated letter, whose order and equality are *)
(* those of its length.  FLOAT only appears in layouts.  ONEBASE_ASSERT    *)
(* and UNREACHABLE throw: the result is then Error.                        *)
(***************************************************************************)
EXTENDS Integers, Sequences, SequencesExt

Value(type, v) == [type |-> type, v |-> v, null |-> FALSE]
NullValue(type) == [type |-> type, v |-> 0, null |-> TRUE]
Error == NullValue("ERROR")
Bool(b) == Value("BOOLEAN", IF b THEN 1 ELSE 0)

\* The comparisons look at types and payloads only, never at is_null_.
CompareEquals(a, b) ==
    IF a.type # b.type \/ a.type = "ERROR" THEN Error ELSE Bool(a.v = b.v)

CompareLessThan(a, b) ==
    IF a.type # b.type \/ a.type \in {"ERROR", "BOOLEAN"} THEN Error ELSE Bool(a.v < b.v)

Not(a) == IF a.type # "BOOLEAN" THEN Error ELSE Bool(a.v = 0)

PerformComparison(op, a, b) ==
    CASE op = "="  -> CompareEquals(a, b)
      [] op = "<>" -> Not(CompareEquals(a, b))
      [] op = "<"  -> CompareLessThan(a, b)
      [] op = ">"  -> CompareLessThan(b, a)
      [] op = "<=" -> Not(CompareLessThan(b, a))
      [] op = ">=" -> Not(CompareLessThan(a, b))

\* C++ division and remainder truncate towards zero.  Overflow is left out:
\* the payloads stay small.
Abs(n) == IF n < 0 THEN -n ELSE n
Quotient(m, n) == IF (m < 0) = (n < 0) THEN Abs(m) \div Abs(n) ELSE -(Abs(m) \div Abs(n))

PerformComputation(op, a, b) ==
    IF a.type # "INTEGER" \/ b.type # "INTEGER" \/ (op \in {"/", "%"} /\ b.v = 0) THEN Error
    ELSE Value("INTEGER", CASE op = "+" -> a.v + b.v
                            [] op = "-" -> a.v - b.v
                            [] op = "*" -> a.v * b.v
                            [] op = "/" -> Quotient(a.v, b.v)
                            [] op = "%" -> a.v - b.v * Quotient(a.v, b.v))

PerformLogic(op, a, b) ==
    IF a.type # "BOOLEAN" \/ b.type # "BOOLEAN" THEN Error
    ELSE Bool(IF op = "AND" THEN a.v = 1 /\ b.v = 1 ELSE a.v = 1 \/ b.v = 1)

\* GetAsBoolean of a result, as the executors ask for it.
IsTrue(a) == ~a.null /\ a.v = 1

\* ToString: text is a pair of its form and its payload: the forms never look alike.
Text(a) ==
    IF a.null THEN <<"NULL", 0>>
    ELSE <<CASE a.type = "INTEGER" -> "digits" [] a.type = "VARCHAR" -> "letters"
             [] a.type = "BOOLEAN" -> "word", a.v>>
-----------------------------------------------------------------------------
GetSerializedSize(a) ==
    CASE a.type = "BOOLEAN" -> 1 [] a.type \in {"INTEGER", "FLOAT"} -> 4
      [] a.type = "VARCHAR" -> 4 + a.v

TupleSize(row) == SumFunction([i \in DOMAIN row |-> GetSerializedSize(row[i])])

\* A schema is a sequence of columns [name, type].  Schema's constructor lays
\* columns out at fixed lengths, whatever length the values serialize to.
Column(name, type) == [name |-> name, type |-> type]
GetFixedLength(c) ==
    CASE c.type = "BOOLEAN" -> 1 [] c.type \in {"INTEGER", "VARCHAR"} -> 4 [] c.type = "FLOAT" -> 8
GetOffset(schema, i) == SumFunction([j \in 1 .. i - 1 |-> GetFixedLength(schema[j])])

\* Tuple::GetValue of a tuple read from a page: whatever bytes stand at the
\* column's offset.  They are the i-th value only if the offsets agree.
Garbage(type) == Value(type, -1)
GetValue(schema, row, i) ==
    IF /\ i \in DOMAIN row /\ row[i].type = schema[i].type
       /\ GetOffset(schema, i) = TupleSize(SubSeq(row, 1, i - 1))
    THEN row[i] ELSE Garbage(schema[i].type)

ReadRow(schema, row) == [i \in DOMAIN schema |-> GetValue(schema, row, i)]
=============================================================================
