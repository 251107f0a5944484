------------------------------ MODULE MCReadRow ------------------------------
(* Queries over two and three tables of two rows each. *)
EXTENDS ReadRow

TwoTables == Queries(2, JoinTypes)
ThreeTables == Queries(3, JoinTypes)
AllQueries == TwoTables \cup ThreeTables

\* tuples of records, and of a field and a record
TupleLists ==
    {<<"record", "record">>, <<"record", "field">>, <<"record", "nothing", "record">>,
     <<"record", "record", "record">>, <<"nothing", "record", "field">>}

\* the same, and a field or a record on its own
SingleLists ==
    {<<"nothing", "field">>, <<"record", "nothing">>, <<"nothing", "record">>,
     <<"nothing", "record", "nothing">>, <<"nothing", "field", "nothing">>}

AllLists == TupleLists \cup SingleLists \cup {<<"field", "nothing", "record">>}
=============================================================================
