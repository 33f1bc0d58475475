------------------------------ MODULE MCSession -----------------------------
(***************************************************************************)
(* Session with three envelopes to write, enough for one that is written,  *)
(* one that waits in the queue and one on its way there, and two frames to *)
(* read.                                                                   *)
(***************************************************************************)
EXTENDS Session

CONSTANTS m1, m2, m3

MCMessages == {m1, m2, m3}
=============================================================================
