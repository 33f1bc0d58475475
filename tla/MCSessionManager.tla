--------------------------- MODULE MCSessionManager -------------------------
(***************************************************************************)
(* SessionManager with as many names as connections and one to spare.      *)
(***************************************************************************)
EXTENDS SessionManager
=============================================================================
