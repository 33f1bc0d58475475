--------------------------- MODULE MCConversation ---------------------------
(***************************************************************************)
(* Two users, one patient and one not, and two rooms, one of them called   *)
(* "", besides a name too long for the table.  A frame has room for two    *)
(* short messages and not for three; a text of length 2 fits once and not  *)
(* twice, one of length 9 and the long name fit as typed and not in an     *)
(* answer, and a text of length 10 is refused by the server.  Before that, *)
(* u2 may have made the room r1 and said two things in it.                 *)
(***************************************************************************)
EXTENDS Conversation

CONSTANTS u1, u2, r1, long, none

MCUsers == {u1, u2}
MCPatient == {u1}
MCRoomNames == {r1, long, none}
MCLongNames == {long}
MCNameLength == [r \in RoomNames |-> CASE r = r1 -> 1 [] r = long -> 9 [] r = none -> 0]
MCRoomIds == {1, 2}
MCCollate == [r \in RoomNames |-> r]
MCLengths == {1, 9, 10}
MCWhispers == {<<u2, 1>>, <<Nobody, 9>>}

Two(len, later) == <<[id |-> 1, from |-> u2, len |-> len, at |-> 0],
                     [id |-> 1, from |-> u2, len |-> len, at |-> later]>>
MCEarlier == {<<>>, Two(1, 0), Two(2, 1)}

MCInit ==
  /\ Init
  /\ \A r \in DOMAIN rooms : r = r1 /\ rooms[r].id = 1 /\ rooms[r].creator_id = u2

MCSpec == MCInit /\ [][Next]_vars /\ Fairness
=============================================================================
