----------------------------- MODULE MCLifecycle ----------------------------
(***************************************************************************)
(* The server with one worker beside main, and two clients.                *)
(***************************************************************************)
EXTENDS Lifecycle

CONSTANTS main, pool, c1, c2

MCWorkers == {pool}
MCClients == {c1, c2}
=============================================================================
