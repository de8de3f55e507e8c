---------------------------- MODULE MCHttpWorker ----------------------------
(* Two client threads for TLC, each with a few calls. *)
EXTENDS HttpWorker

CONSTANTS c1, c2
MCClients == {c1, c2}
=============================================================================
