---------------------------- MODULE MCRestClient ----------------------------
(* Two client threads for TLC. *)
EXTENDS RestClient

CONSTANTS c1, c2
MCClients == {c1, c2}
=============================================================================
