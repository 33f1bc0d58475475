------------------------------- MODULE Channel ------------------------------
(***************************************************************************)
(* What Session::send promises its callers (server/src/session/Session):   *)
(* the envelopes they hand over reach the wire one after the other, in the *)
(* order in which they were handed over, until the connection fails; then  *)
(* none does.  Session.tla implements this.                                *)
(***************************************************************************)
EXTENDS Sequences

CONSTANT Messages

VARIABLES pending,  \* handed over and not yet on the wire
          wire,     \* on the wire, whole
          failed    \* a write has failed

vars == <<pending, wire, failed>>

Init == pending = <<>> /\ wire = <<>> /\ failed = FALSE

Accept(m) ==
  /\ pending' = Append(pending, m)
  /\ UNCHANGED <<wire, failed>>

Transmit ==
  /\ ~failed /\ pending # <<>>
  /\ wire' = Append(wire, Head(pending))
  /\ pending' = Tail(pending)
  /\ UNCHANGED failed

Fail == ~failed /\ failed' = TRUE /\ UNCHANGED <<pending, wire>>

Next == (\E m \in Messages : Accept(m)) \/ Transmit \/ Fail

Spec == Init /\ [][Next]_vars
=============================================================================
