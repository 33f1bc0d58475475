---------------------------- MODULE MCRoomService ---------------------------
(***************************************************************************)
(* RoomService on two users, two connections and four names.  Three are    *)
(* spellings of one room, one of which is longer than the column (it has   *)
(* characters the collation ignores): it finds the room and cannot make it.*)
(***************************************************************************)
EXTENDS RoomService, TLC

CONSTANTS Go, go, GOO, ops

MCCollate == Go :> Go @@ go :> Go @@ GOO :> Go @@ ops :> ops

Symmetry == Permutations(Users) \cup Permutations(Sessions)
              \cup Permutations(RoomIds)
=============================================================================
