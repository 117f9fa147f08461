---------------------------------- MODULE MCQuery ----------------------------------
(***************************************************************************)
(* QueryProperties.tla for TLC: three tables, the rows and the statements  *)
(* that are asked of them.                                                 *)
(***************************************************************************)
EXTENDS QueryProperties

Users == <<"users">>
Orders == <<"orders">>
Items == <<"items">>
Id == <<"id">>
FirstName == <<"name">>
UserId == <<"user", "id">>
Amount == <<"amount">>
OrderId == <<"order", "id">>
Paid == <<"paid">>

\* CREATE TABLE users (id INT, name TEXT), orders (id INT, user_id INT, amount
\* INT), items (order_id INT, paid BOOL)
ThreeTables ==
    (Users :> <<[name |-> Id, type |-> "Int"], [name |-> FirstName, type |-> "Text"]>>)
    @@ (Orders :> <<[name |-> Id, type |-> "Int"], [name |-> UserId, type |-> "Int"],
                    [name |-> Amount, type |-> "Int"]>>)
    @@ (Items :> <<[name |-> OrderId, type |-> "Int"], [name |-> Paid, type |-> "Bool"]>>)

I(n) == IntValue(n)
T(text) == TextValue(text)

\* a = 97, b = 98, 1 = 49, 2 = 50
Rows == {
    Insert(Users, None, <<I(1), T(<<97>>)>>),
    Insert(Users, None, <<T(<<50>>), T(<<97, 98>>)>>),
    Insert(Users, Some(<<FirstName>>), <<I(1)>>),
    Insert(Orders, None, <<I(1), I(1), I(6)>>),
    Insert(Orders, None, <<I(2), I(1), I(-3)>>),
    Insert(Orders, Some(<<Amount, UserId>>), <<Null, I(2)>>),
    Insert(Orders, Some(<<Id, UserId>>), <<I(1), Null>>),
    Insert(Items, None, <<I(1), T(<<84, 82, 85, 69>>)>>),
    Insert(Items, None, <<I(2), BoolValue(FALSE)>>)}

\* WHERE with one condition, or with some between AND
Only(c) == <<<<c>>>>
All(conditions) == <<conditions>>

AllWhere(t, f) == [Select(<<AllColumns>>, t) EXCEPT !.filter = Some(f)]

Equals(c, v) == Compare(c, "=", v)

UsersOf(f) == [Select(<<Column(UserId)>>, Orders) EXCEPT !.filter = Some(f)]

Conditions == {
    AllWhere(Users, Only(Equals(Id, T(<<49>>)))),
    AllWhere(Users, <<<<Equals(Id, I(1))>>, <<Equals(FirstName, I(1))>>>>),
    AllWhere(Users, <<<<Equals(Id, Null), IsNotNull(FirstName)>>, <<Compare(FirstName, "<", T(<<97, 98>>))>>>>),
    AllWhere(Orders, All(<<Equals(UserId, I(1)), Compare(Id, ">=", I(1)), Compare(Amount, "!=", I(6))>>)),
    AllWhere(Orders, All(<<InList(Amount, <<T(<<54>>), Null>>, TRUE), IsNull(Id)>>)),
    AllWhere(Orders, Only(InList(Id, <<I(2), I(3)>>, FALSE))),
    AllWhere(Items, All(<<Equals(Paid, T(<<116, 114, 117, 101>>)), Compare(OrderId, "<=", I(1))>>))}

Likes == {AllWhere(Users, Only(Compare(FirstName, "LIKE", T(p)))) :
            p \in {<<>>, <<37>>, <<37, 97>>, <<97, 95>>, <<37, 98, 37>>, <<95>>}}

AllSubqueries == {
    AllWhere(Users, Only(InSubquery(Id, UsersOf(All(<<IsNotNull(Amount), Compare(Amount, ">", I(0))>>)), FALSE))),
    AllWhere(Users, <<<<InSubquery(Id, UsersOf(Only(IsNotNull(UserId))), TRUE)>>, <<Equals(FirstName, T(<<97>>))>>>>),
    AllWhere(Items, Only(InSubquery(OrderId, [Select(<<Column(Id)>>, Orders) EXCEPT !.filter =
        Some(Only(InSubquery(UserId, Select(<<Column(Id)>>, Users), FALSE)))], FALSE)))}

Joins == {
    [Select(<<AllColumns>>, Users) EXCEPT !.joins = <<JoinClause(Orders, Some(Users), Id, UserId)>>],
    [Select(<<AllColumns>>, Users) EXCEPT !.joins =
        <<JoinClause(Orders, Some(Users), Id, UserId), JoinClause(Items, Some(Orders), Id, OrderId)>>],
    [Select(<<AllColumns>>, Items) EXCEPT !.joins = <<JoinClause(Orders, Some(Items), OrderId, Id)>>],
    [Select(<<Column(FirstName), Column(Orders \o Id)>>, Users) EXCEPT
        !.joins = <<JoinClause(Orders, None, Id, UserId)>>, !.filter = Some(Only(Compare(Amount, ">", I(0))))]}

Aggregates(c) == <<Aggregate("COUNT", c), Aggregate("SUM", c), Aggregate("AVG", c),
                   Aggregate("MIN", c), Aggregate("MAX", c)>>

Groups == {
    [Select(<<Aggregate("COUNT", Star)>> \o Aggregates(Amount), Orders) EXCEPT !.filter = Some(Only(Compare(Id, "!=", I(2))))],
    [Select(<<Column(UserId), Aggregate("COUNT", Star)>> \o Aggregates(Amount), Orders) EXCEPT !.group_by = <<UserId>>],
    [Select(<<Column(UserId), Column(Id), Aggregate("SUM", Amount)>>, Orders) EXCEPT !.group_by = <<UserId, Id>>],
    [Select(<<Column(UserId), Aggregate("MAX", Id)>>, Orders) EXCEPT !.group_by = <<UserId>>,
        !.having = Some(Only(Compare(AggregateLabel("COUNT", Star), ">", I(1))))],
    [Select(<<Column(FirstName), Aggregate("SUM", Amount)>>, Users) EXCEPT
        !.joins = <<JoinClause(Orders, Some(Users), Id, UserId)>>,
        !.filter = Some(All(<<IsNotNull(FirstName), Compare(Amount, "<", I(7))>>)), !.group_by = <<FirstName>>,
        !.having = Some(<<<<Compare(AggregateLabel("AVG", Amount), "<=", I(2))>>, <<Equals(FirstName, T(<<97>>))>>>>),
        !.order_by = <<<<FirstName, FALSE>>>>, !.limit = Some(2), !.offset = Some(0)]}

Pages == {
    [Select(<<AllColumns>>, Orders) EXCEPT !.order_by = <<<<UserId, TRUE>>, <<Amount, FALSE>>>>,
        !.limit = Some(1), !.offset = Some(1)],
    [Select(<<AllColumns>>, Orders) EXCEPT !.order_by = <<<<Id, FALSE>>>>, !.limit = Some(2)],
    [Select(<<AllColumns>>, Orders) EXCEPT !.order_by = <<<<Paid, TRUE>>, <<Amount, TRUE>>>>,
        !.filter = Some(Only(IsNotNull(Amount)))],
    [Select(<<AllColumns>>, Users) EXCEPT !.order_by = <<<<FirstName, TRUE>>>>, !.offset = Some(1)]}

Writes == {
    Update(Users, <<<<Id, T(<<50>>)>>, <<FirstName, I(1)>>>>, Some(Only(Equals(Id, I(1))))),
    Update(Orders, <<<<Amount, I(7)>>>>, Some(Only(InSubquery(UserId, Select(<<Column(Id)>>, Users), TRUE)))),
    Delete(Orders, Some(<<<<IsNull(Amount)>>, <<Equals(Id, I(2))>>>>)),
    CreateIndex(<<"by", "id">>, Users, Id), CreateIndex(<<"by", "user">>, Orders, UserId),
    DropIndex(<<"by", "id">>)}

\* Statements of Engine.tla, which are only read, and statements that fail
Others == {
    CreateTable(Orders, <<ColumnDef(Id, "Int", <<<<"PrimaryKey">>>>),
                          ColumnDef(UserId, "Int", <<<<"References", Users, Id>>, <<"NotNull">>>>),
                          ColumnDef(Paid, "Bool", <<<<"Unique">>>>)>>),
    AddColumn(Users, ColumnDef(Paid, "Bool", <<<<"NotNull">>>>), Some(BoolValue(TRUE))),
    AddColumn(Users, ColumnDef(OrderId, "Int", <<<<"References", Orders, Id>>>>), None),
    DropColumn(Users, FirstName), RenameColumn(Users, FirstName, UserId), DropTable(Users), Describe(Users),
    Plain("ShowTables"), Plain("ShowMigrations"), Plain("Begin"), Plain("Commit"), Plain("Rollback"),
    Insert(Users, None, <<I(1)>>), Update(Users, <<<<Amount, I(1)>>>>, None),
    Select(<<Aggregate("SUM", FirstName)>>, Users), Select(<<Column(Amount)>>, Users)}

Everything == Rows \cup Conditions \cup Likes \cup AllSubqueries \cup Joins \cup Groups \cup Pages \cup Writes \cup Others

AllUsers == Words(<<"SELECT">>) \o <<Asterisk>> \o Words(<<"FROM">>) \o Name(Users)

WrittenOne(c) == WrittenCondition(c, <<>>)

NoStatements == {
    <<>>, Words(<<"SELECT">>) \o <<Asterisk>>, Tail(AllUsers),
    AllUsers \o Words(<<"WHERE">>),
    AllUsers \o Words(<<"WHERE">>) \o WrittenOne(Equals(Id, I(1))) \o Words(<<"AND">>),
    AllUsers \o Words(<<"WHERE">>) \o Name(Id) \o Words(<<"IN">>) \o Grouped(<<>>),
    AllUsers \o Words(<<"HAVING">>) \o WrittenOne(Compare(AggregateLabel("COUNT", Star), ">", I(1))),
    AllUsers \o Words(<<"LIMIT">>) \o Value(I(-1)),
    AllUsers \o Words(<<"JOIN">>) \o Name(Orders),
    Words(<<"INSERT", "INTO">>) \o Name(Users) \o Words(<<"VALUES">>) \o Value(I(1)),
    Words(<<"UPDATE">>) \o Name(Users) \o Words(<<"SET", "WHERE">>) \o WrittenOne(Equals(Id, I(1))),
    Words(<<"ALTER", "TABLE">>) \o Name(Users) \o Words(<<"ADD", "COLUMN">>) \o Name(Paid)
        \o Words(<<"BOOL", "PRIMARY", "KEY">>),
    Words(<<"CREATE", "TABLE">>) \o Name(Users) \o Grouped(<<>>)}
=================================================================================
