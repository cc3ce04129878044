---------------------------- MODULE MCKeepAlive ----------------------------
(* Small instances of KeepAlive: two clients. *)
EXTENDS KeepAlive

CONSTANTS c1, c2

TwoClients == {c1, c2}
=============================================================================
