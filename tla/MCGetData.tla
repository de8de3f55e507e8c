------------------------------ MODULE MCGetData ------------------------------
(* Two client threads that GET, for TLC. *)
EXTENDS GetData, TLC

CONSTANTS g1, g2
MCGetters == {g1, g2}
Symmetry == Permutations(MCGetters)
=============================================================================
