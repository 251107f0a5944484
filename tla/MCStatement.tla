---------------------------- MODULE MCStatement ----------------------------
(* zxorm::Statement over queries of one and of two parameters. *)
EXTENDS Statement

=============================================================================
