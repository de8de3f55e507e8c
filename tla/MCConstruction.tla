---------------------------- MODULE MCConstruction ----------------------------
(* Three threads that call GetInstance, for TLC. *)
EXTENDS Construction

CONSTANTS c1, c2, c3
MCCallers == {c1, c2, c3}
=============================================================================
