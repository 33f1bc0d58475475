---------------------------- MODULE MCAuthService ---------------------------
(***************************************************************************)
(* AuthService on two connections.  One user is registered when the server *)
(* starts; another may register, under any name that is free by then.      *)
(***************************************************************************)
EXTENDS AuthService

CONSTANTS u1, a, p

MCInit == Init /\ users = Put(NoEntries, u1, [username |-> a, password |-> p])
MCSpec == MCInit /\ [][Next]_vars
=============================================================================
