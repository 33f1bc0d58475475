------------------------------ MODULE MCClient ------------------------------
(***************************************************************************)
(* Client with three envelopes, so that one is written while one waits in  *)
(* the queue and one is on its way there, one frame from the server, and   *)
(* the single thread of the chat client.                                   *)
(***************************************************************************)
EXTENDS Client

CONSTANTS m1, m2, m3, main

MCMessages == {m1, m2, m3}
MCThreads == {main}
=============================================================================
