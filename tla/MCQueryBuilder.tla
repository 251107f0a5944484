--------------------------- MODULE MCQueryBuilder ---------------------------
(* Conditions with one container of 0 to 2 values, one of them with its     *)
(* fields in the other order, and with two containers of 1 and 2 values.    *)
EXTENDS QueryBuilder

AllBuilt ==
    <<Value("a"), Value("b"), In("a", 0), In("a", 1), In("a", 2),
      In("b", 1), In("b", 2), In("c", 1), In("c", 2),
      Both(3, 2), Both(4, 2), Both(5, 2), Both(6, 1),
      Both(1, 6), Both(1, 7), Both(14, 9), Both(15, 8)>>

Conditions == {10, 11, 12, 13, 16, 17}
=============================================================================
