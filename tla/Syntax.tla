---------------------------------- MODULE Syntax ----------------------------------
(***************************************************************************)
(* Values and statements: types.rs and ast.rs.                             *)
(*                                                                         *)
(* A value is its variant and its content, a text the ASCII codes of its   *)
(* characters. A name is the sequence of its parts between underscores:    *)
(* user_id is <<"user", "id">>, so that a prefix `<table>_` may make it    *)
(* the name of another column. A statement is a record, a condition or a   *)
(* select expression a tuple, each with its variant first; an Option is a  *)
(* sequence of at most one element.                                        *)
(*                                                                         *)
(* A filter is the sequence of its terms between OR, a term the sequence   *)
(* of its conditions between AND. The parser, which alone makes filters,   *)
(* nests And below Or and both to the left, and makes no other tree.       *)
(***************************************************************************)
EXTENDS Integers, SequencesExt

CONSTANT IntWidth   \* bits of an i64

ASSUME IntWidthAssumption == IntWidth \in Nat \ {0}

None == <<>>
Some(x) == <<x>>

\* The elements of a set of numbers, in order
Ascending(S) == [k \in 1..Cardinality(S) |-> CHOOSE n \in S : Cardinality({m \in S : m < n}) = k - 1]

\* The elements of a sequence at some of its positions
At(s, positions) ==
    LET at == Ascending(positions) IN [k \in DOMAIN at |-> s[at[k]]]

\* The first and the last position of an element, or 0
Position(s, x) == SelectInSeq(s, LAMBDA y : y = x)

LastPosition(s, x) == SelectLastInSeq(s, LAMBDA y : y = x)

---------------------------------------------------------------------------------
(* Values *)

IntValue(n) == <<"Int", n>>
TextValue(text) == <<"Text", text>>
BoolValue(b) == <<"Bool", b>>
Null == <<"Null">>

Types == {"Int", "Text", "Bool"}

\* i64 and its arithmetic, which wraps in a release build
Int64 == -(2 ^ (IntWidth - 1)) .. 2 ^ (IntWidth - 1) - 1

Vals == {Null} \cup {"Int"} \X Int64 \cup {"Text"} \X Seq(Nat) \cup {"Bool"} \X BOOLEAN

Wrapped(n) == ((n + 2 ^ (IntWidth - 1)) % (2 ^ IntWidth)) - 2 ^ (IntWidth - 1)

\* Display for Value, of an i64 and of a bool
DigitsAfter(digits, n) == IF n < 10 THEN <<48 + n>> ELSE digits[n \div 10] \o <<48 + (n % 10)>>

Digits[n \in Nat] == DigitsAfter(Digits, n)

Decimal(n) == IF n < 0 THEN <<45>> \o Digits[-n] ELSE Digits[n]

Spelled(b) == IF b THEN <<116, 114, 117, 101>> ELSE <<102, 97, 108, 115, 101>>

---------------------------------------------------------------------------------
(* Names of columns and of aggregates *)

AggregateFuncs == {"COUNT", "SUM", "MIN", "MAX", "AVG"}

Star == <<"*">>

\* aggregate_label
AggregateLabel(func, target) == <<func, "(">> \o target

IsAggregateLabel(name) == Len(name) > 2 /\ name[1] \in AggregateFuncs /\ name[2] = "("

LabelFunc(label) == label[1]
LabelTarget(label) == SubSeq(label, 3, Len(label))

---------------------------------------------------------------------------------
(* Expressions and filters *)

Column(name) == <<"Column", name>>
AllColumns == <<"AllColumns">>
Aggregate(func, target) == <<"Aggregate", func, target>>

Compare(column, op, value) == <<"Compare", column, op, value>>
IsNull(column) == <<"IsNull", column>>
IsNotNull(column) == <<"IsNotNull", column>>
InList(column, values, negated) == <<"InList", column, values, negated>>
InSubquery(column, subquery, negated) == <<"InSubquery", column, subquery, negated>>

IsCondition(c) ==
    CASE c[1] = "Compare" -> /\ c = Compare(c[2], c[3], c[4])
                             /\ c[3] \in {"=", "!=", "<", "<=", ">", ">=", "LIKE"} /\ c[4] \in Vals
      [] c[1] = "InList" -> c = InList(c[2], c[3], c[4]) /\ c[3] \in Seq(Vals) /\ c[4] \in BOOLEAN
      [] c[1] = "InSubquery" -> c = InSubquery(c[2], c[3], c[4]) /\ c[3].kind = "Select" /\ c[4] \in BOOLEAN
      [] OTHER -> c = IsNull(c[2]) \/ c = IsNotNull(c[2])

\* An optional filter
IsFilter(filter) ==
    filter = None \/ \E f \in {filter[1]} :
        /\ filter = Some(f) /\ f \in Seq(Range(f))
        /\ \A i \in DOMAIN f : f[i] \in Seq(Range(f[i])) /\ \A j \in DOMAIN f[i] : IsCondition(f[i][j])

ConditionsOf(f) == UNION {Range(f[i]) : i \in DOMAIN f}

\* The subqueries in an optional filter, and those nested n deep in them
Subqueries(filter) ==
    IF filter = None THEN {} ELSE {c[3] : c \in {x \in ConditionsOf(filter[1]) : x[1] = "InSubquery"}}

NestedBelow(nested, n, filter) ==
    IF n = 0 THEN Subqueries(filter) ELSE UNION {Subqueries(s.filter) : s \in nested[n - 1]}

Nested(filter) == LET nested[n \in Nat] == NestedBelow(nested, n, filter) IN nested

---------------------------------------------------------------------------------
(* Statements *)

ColumnDef(name, type, constraints) == [name |-> name, type |-> type, constraints |-> constraints]

JoinClause(table, left_table, left_column, right_column) ==
    [table |-> table, left_table |-> left_table,
     left_column |-> left_column, right_column |-> right_column]

\* A SELECT with nothing but its columns and its table; the other clauses are
\* put into it with EXCEPT.
Select(columns, table) ==
    [kind |-> "Select", columns |-> columns, table |-> table, joins |-> <<>>, filter |-> None,
     group_by |-> <<>>, having |-> None, order_by |-> <<>>, limit |-> None, offset |-> None]

Insert(table, columns, values) ==
    [kind |-> "Insert", table |-> table, columns |-> columns, values |-> values]
Update(table, assignments, filter) ==
    [kind |-> "Update", table |-> table, assignments |-> assignments, filter |-> filter]
Delete(table, filter) == [kind |-> "Delete", table |-> table, filter |-> filter]
CreateIndex(name, table, column) ==
    [kind |-> "CreateIndex", name |-> name, table |-> table, column |-> column]
DropIndex(name) == [kind |-> "DropIndex", name |-> name]
CreateTable(name, columns) == [kind |-> "CreateTable", name |-> name, columns |-> columns]
DropTable(name) == [kind |-> "DropTable", name |-> name]
AddColumn(table, column, default) ==
    [kind |-> "AddColumn", table |-> table, column |-> column, default |-> default]
DropColumn(table, column) == [kind |-> "DropColumn", table |-> table, column |-> column]
RenameColumn(table, old_name, new_name) ==
    [kind |-> "RenameColumn", table |-> table, old_name |-> old_name, new_name |-> new_name]
Describe(table) == [kind |-> "Describe", table |-> table]
Plain(kind) == [kind |-> kind]
=================================================================================
