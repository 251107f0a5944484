------------------------------ MODULE MCCursor ------------------------------
(* Loops over a query that has three rows under some bindings, and none or  *)
(* one row under others.  One row in the middle and one that is the only    *)
(* one cannot be read.                                                      *)
EXTENDS Cursor, TLC

CONSTANTS w, x, y, z

Counts == w :> 1 @@ x :> 3 @@ y :> 3 @@ z :> 0

ThrowAt == {<<w, 1>>, <<y, 2>>}
=============================================================================
