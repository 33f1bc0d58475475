--------------------------- MODULE MCConnectionPool -------------------------
(***************************************************************************)
(* ConnectionPool on two or three threads.  One thread more than there are *)
(* connections makes them wait for each other.                             *)
(***************************************************************************)
EXTENDS ConnectionPool
=============================================================================
