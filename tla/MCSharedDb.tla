----------------------------- MODULE MCSharedDb -----------------------------
(* Two or three connections, whose threads are interchangeable. *)
EXTENDS SharedDb, TLC

CONSTANTS c1, c2, c3

Interchangeable == Permutations(Connections)
=============================================================================
