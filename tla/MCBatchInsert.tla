---------------------------- MODULE MCBatchInsert ----------------------------
(* insert_many_records into small tables. *)
EXTENDS BatchInsert

\* the auto increment column is the first or the second, or there is none
EarlyAutoTables == {t \in Tables(3) : t.auto <= 2}

\* the auto increment column is the third or a later one
LateAutoTables == {t \in Tables(3) : t.auto > 2}

\* two or more columns and no auto increment column
PlainTables == {t \in Tables(3) : t.auto = 0 /\ t.n > 1}
=============================================================================
