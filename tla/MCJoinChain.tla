----------------------------- MODULE MCJoinChain -----------------------------
(* Join clauses over the tables of a small schema, whatever its foreign keys. *)
EXTENDS JoinChain
=============================================================================
