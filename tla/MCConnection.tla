---------------------------- MODULE MCConnection ----------------------------
(* One connection over small databases. *)
EXTENDS Connection, TLC

CONSTANTS t1, t2, o1, o2

\* two tables whose refusals and replacements stay within the statement
StatementPolicies == t1 :> "abort" @@ t2 :> "replace"

\* a table whose clause ends a transaction, and one whose clause loses rows
EndingPolicies == t1 :> "rollback" @@ t2 :> "ignore"

OneEach == o1 :> t1 @@ o2 :> t2

\* the statements in the caches
InsertsAndUpdates == {"insert", "update"} \X {t1, t2}
OneForEachTable ==
    {<<"insert", t1>>, <<"update", t1>>, <<"find_record", t1>>,
     <<"insert", t2>>, <<"delete_record", t2>>}
=============================================================================
