--------------------------------- MODULE Grammar ---------------------------------
(***************************************************************************)
(* How a statement is written, after the SQL reference of README.md: what  *)
(* Parser.tla has to understand. Nothing of it is in the program. The      *)
(* qualified columns of README.md:76, SELECT users.id, are left out: the   *)
(* parser refuses them.                                                    *)
(***************************************************************************)
EXTENDS Parser

Words(phrase) == [k \in DOMAIN phrase |-> Keyword(phrase[k])]

\* Texts with a separator between any two, or in parentheses
Separated(texts, separator) == FoldLeft(LAMBDA done, text : done \o separator \o text, texts[1], Tail(texts))

Listed(texts) == Separated(texts, <<Comma>>)

Grouped(text) == <<Open>> \o text \o <<Close>>

Name(n) == <<Word(n)>>
Names(ns) == [k \in DOMAIN ns |-> Name(ns[k])]

Value(v) ==
    CASE v = Null -> Words(<<"NULL">>)
      [] v[1] = "Bool" -> Words(IF v[2] THEN <<"TRUE">> ELSE <<"FALSE">>)
      [] OTHER -> <<Literal(v)>>

Values(vs) == [k \in DOMAIN vs |-> Value(vs[k])]

Call(func, target) ==
    Words(<<func>>) \o Grouped(IF target = Star THEN <<Asterisk>> ELSE Name(target))

\* The left side of a comparison: HAVING may compare an aggregate
Compared(column) ==
    IF IsAggregateLabel(column) THEN Call(LabelFunc(column), LabelTarget(column)) ELSE Name(column)

InKeyword(negated) == Words(IF negated THEN <<"NOT", "IN">> ELSE <<"IN">>)

\* `inner` are the texts of the subqueries.
WrittenCondition(c, inner) ==
    CASE c[1] = "Compare" ->
            Compared(c[2]) \o (IF c[3] = "LIKE" THEN Words(<<"LIKE">>) ELSE <<Symbol(c[3])>>) \o Value(c[4])
      [] c[1] = "IsNull" -> Name(c[2]) \o Words(<<"IS", "NULL">>)
      [] c[1] = "IsNotNull" -> Name(c[2]) \o Words(<<"IS", "NOT", "NULL">>)
      [] c[1] = "InList" -> Name(c[2]) \o InKeyword(c[4]) \o Grouped(Listed(Values(c[3])))
      [] c[1] = "InSubquery" -> Name(c[2]) \o InKeyword(c[4]) \o Grouped(inner[c[3]])

WrittenTerm(term, inner) ==
    Separated([k \in DOMAIN term |-> WrittenCondition(term[k], inner)], Words(<<"AND">>))

Written(f, inner) == Separated([k \in DOMAIN f |-> WrittenTerm(f[k], inner)], Words(<<"OR">>))

\* An optional clause: its keyword and what it holds
Optionally(phrase, option, text) == IF option = None THEN <<>> ELSE Words(phrase) \o text

Where(filter, inner) == IF filter = None THEN <<>> ELSE Words(<<"WHERE">>) \o Written(filter[1], inner)

WrittenColumn(c) ==
    CASE c[1] = "AllColumns" -> <<Asterisk>>
      [] c[1] = "Column" -> Name(c[2])
      [] c[1] = "Aggregate" -> Call(c[2], c[3])

Qualified(table, column) == IF table = None THEN Name(column) ELSE Name(table[1]) \o <<Dot>> \o Name(column)

WrittenJoin(j) ==
    Words(<<"INNER", "JOIN">>) \o Name(j.table) \o Words(<<"ON">>)
        \o Qualified(j.left_table, j.left_column) \o <<Symbol("=")>>
        \o Qualified(Some(j.table), j.right_column)

WrittenOrder(o) == Name(o[1]) \o Words(IF o[2] THEN <<"ASC">> ELSE <<"DESC">>)

WrittenSelect(s, inner) ==
    Words(<<"SELECT">>) \o Listed([k \in DOMAIN s.columns |-> WrittenColumn(s.columns[k])])
        \o Words(<<"FROM">>) \o Name(s.table)
        \o FlattenSeq([k \in DOMAIN s.joins |-> WrittenJoin(s.joins[k])])
        \o Where(s.filter, inner)
        \o Optionally(<<"GROUP", "BY">>, s.group_by, Listed(Names(s.group_by)))
        \o (IF s.having = None THEN <<>> ELSE Words(<<"HAVING">>) \o Written(s.having[1], inner))
        \o Optionally(<<"ORDER", "BY">>, s.order_by,
               Listed([k \in DOMAIN s.order_by |-> WrittenOrder(s.order_by[k])]))
        \o Optionally(<<"LIMIT">>, s.limit, Value(IntValue(s.limit[1])))
        \o Optionally(<<"OFFSET">>, s.offset, Value(IntValue(s.offset[1])))

\* The texts of the subqueries of a filter
WrittenInside(filter) ==
    LET inner[n \in Nat] == [s \in Nested(filter)[n] |-> WrittenSelect(s, inner[n + 1])] IN inner[0]

WrittenWhere(filter) == Where(filter, WrittenInside(filter))

WrittenConstraint(c) ==
    CASE c[1] = "PrimaryKey" -> Words(<<"PRIMARY", "KEY">>)
      [] c[1] = "NotNull" -> Words(<<"NOT", "NULL">>)
      [] c[1] = "Unique" -> Words(<<"UNIQUE">>)
      [] c[1] = "References" -> Words(<<"REFERENCES">>) \o Name(c[2]) \o Grouped(Name(c[3]))

TypeName(type) == CASE type = "Int" -> "INT" [] type = "Text" -> "TEXT" [] type = "Bool" -> "BOOL"

WrittenColumnDef(d) ==
    Name(d.name) \o Words(<<TypeName(d.type)>>)
        \o FlattenSeq([k \in DOMAIN d.constraints |-> WrittenConstraint(d.constraints[k])])

\* The text of a statement
Text(s) ==
    CASE s.kind = "Select" -> WrittenSelect(s, WrittenInside(s.filter))
      [] s.kind = "Insert" ->
            Words(<<"INSERT", "INTO">>) \o Name(s.table)
                \o (IF s.columns = None THEN <<>> ELSE Grouped(Listed(Names(s.columns[1]))))
                \o Words(<<"VALUES">>) \o Grouped(Listed(Values(s.values)))
      [] s.kind = "Update" ->
            Words(<<"UPDATE">>) \o Name(s.table) \o Words(<<"SET">>)
                \o Listed([k \in DOMAIN s.assignments |->
                        Name(s.assignments[k][1]) \o <<Symbol("=")>> \o Value(s.assignments[k][2])])
                \o WrittenWhere(s.filter)
      [] s.kind = "Delete" -> Words(<<"DELETE", "FROM">>) \o Name(s.table) \o WrittenWhere(s.filter)
      [] s.kind = "CreateIndex" ->
            Words(<<"CREATE", "INDEX">>) \o Name(s.name) \o Words(<<"ON">>)
                \o Name(s.table) \o Grouped(Name(s.column))
      [] s.kind = "DropIndex" -> Words(<<"DROP", "INDEX">>) \o Name(s.name)
      [] s.kind = "CreateTable" ->
            Words(<<"CREATE", "TABLE">>) \o Name(s.name)
                \o Grouped(Listed([k \in DOMAIN s.columns |-> WrittenColumnDef(s.columns[k])]))
      [] s.kind = "DropTable" -> Words(<<"DROP", "TABLE">>) \o Name(s.name)
      [] s.kind = "AddColumn" ->
            Words(<<"ALTER", "TABLE">>) \o Name(s.table) \o Words(<<"ADD", "COLUMN">>)
                \o WrittenColumnDef(s.column)
                \o (IF s.default = None THEN <<>> ELSE Words(<<"DEFAULT">>) \o Value(s.default[1]))
      [] s.kind = "DropColumn" ->
            Words(<<"ALTER", "TABLE">>) \o Name(s.table) \o Words(<<"DROP", "COLUMN">>) \o Name(s.column)
      [] s.kind = "RenameColumn" ->
            Words(<<"ALTER", "TABLE">>) \o Name(s.table) \o Words(<<"RENAME", "COLUMN">>)
                \o Name(s.old_name) \o Words(<<"TO">>) \o Name(s.new_name)
      [] s.kind = "Describe" -> Words(<<"DESCRIBE">>) \o Name(s.table)
      [] s.kind = "ShowTables" -> Words(<<"SHOW", "TABLES">>)
      [] s.kind = "ShowMigrations" -> Words(<<"SHOW", "MIGRATIONS">>)
      [] s.kind = "Begin" -> Words(<<"BEGIN">>)
      [] s.kind = "Commit" -> Words(<<"COMMIT">>)
      [] s.kind = "Rollback" -> Words(<<"ROLLBACK">>)

\* What the reference also allows: bare JOIN, <> for !=, the other names of the
\* types, and ORDER BY without ASC.
OtherWord ==
    (Symbol("!=") :> Symbol("<>")) @@ (Keyword("INT") :> Keyword("INTEGER"))
    @@ (Keyword("TEXT") :> Keyword("STRING")) @@ (Keyword("BOOL") :> Keyword("BOOLEAN"))

Respelled(ts) ==
    LET kept == SelectSeq(ts, LAMBDA token : token \notin {Keyword("INNER"), Keyword("ASC")})
    IN [k \in DOMAIN kept |-> IF kept[k] \in DOMAIN OtherWord THEN OtherWord[kept[k]] ELSE kept[k]]

Spellings(s) == {Text(s), Respelled(Text(s))}
=================================================================================
