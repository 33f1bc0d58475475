----------------------------- MODULE RoomService ----------------------------
(***************************************************************************)
(* The room registry of the chat server (server/src/service/RoomService):  *)
(* the rooms table, and the two in-memory maps the service keeps beside    *)
(* it.  userToRoomMap says which room a user is in; activeRooms holds, for *)
(* each room somebody is in, the sessions its broadcasts go to.            *)
(*                                                                         *)
(* Each action is one section of code that runs under the server's mutex,  *)
(* or one statement of the database.  Who calls them, in which order and   *)
(* from which thread is left open here: ChatServer.tla closes it.          *)
(*                                                                         *)
(* Room names compare exactly in the two maps and under the collation      *)
(* utf8mb4_unicode_ci in the table, so "Go" and "go" are two keys of       *)
(* activeRooms and one row.  Collate maps a name to the representative of  *)
(* its collation class.                                                    *)
(*                                                                         *)
(* The operators called variants are slips the code does not make: with a  *)
(* variant in the place of the definition after it, a property fails.      *)
(***************************************************************************)
EXTENDS Maps

CONSTANTS Users,      \* user ids
          Sessions,   \* connections
          RoomNames,  \* the names clients use
          RoomIds,    \* primary keys of table rooms
          Collate,    \* RoomNames -> RoomNames, the table's notion of equality
          LongNames   \* names of more characters than the column holds

ASSUME NamesAssumption ==
  Collate \in [RoomNames -> RoomNames] /\ LongNames \subseteq RoomNames

VARIABLES rooms,          \* table rooms, by collated name
          creating,       \* CREATE handlers between addRoom and their lock
          userToRoomMap,  \* user -> the name of the room the user is in
          activeRooms     \* name -> room with its members' sessions

tables == <<rooms, creating>>
seating == <<userToRoomMap, activeRooms>>
vars == <<rooms, creating, userToRoomMap, activeRooms>>

Row == [id : RoomIds, creator_id : Users, name : RoomNames]
ActiveRoom == [id : RoomIds, creator_id : Users, name : RoomNames,
               members : MapsInto(Users, Sessions)]

TypeOK ==
  /\ IsMap(rooms, RoomNames, Row)
  /\ creating \in SUBSET (Users \X RoomNames)
  /\ IsMap(userToRoomMap, Users, RoomNames)
  /\ IsMap(activeRooms, RoomNames, ActiveRoom)

Init ==
  /\ rooms \in MapsInto(RoomNames, Row)
  /\ \A k \in DOMAIN rooms : /\ Collate[rooms[k].name] = k
                            /\ rooms[k].name \notin LongNames
  /\ \A k, l \in DOMAIN rooms : rooms[k].id = rooms[l].id => k = l
  /\ creating = {}
  /\ userToRoomMap = NoEntries
  /\ activeRooms = NoEntries

-----------------------------------------------------------------------------
(* The table.                                                              *)

\* findByRoomName finds a row, and the row it finds.
Known(r) == Collate[r] \in DOMAIN rooms
RowOf(r) == rooms[Collate[r]]

\* AUTO_INCREMENT gives an id no row has.
FreshIds == RoomIds \ {rooms[k].id : k \in DOMAIN rooms}

\* INSERT INTO rooms, refused by the UNIQUE key when the name is taken, and
\* when it is too long for its column.
Insert(u, r, id) ==
  /\ ~Known(r) /\ r \notin LongNames
  /\ id \in FreshIds
  /\ rooms' = Put(rooms, Collate[r], [id |-> id, creator_id |-> u, name |-> r])

\* addRoom returns true.
AddRoom(u, r, id) ==
  /\ Insert(u, r, id)
  /\ creating' = creating \cup {<<u, r>>}
  /\ UNCHANGED seating

\* The connection breaks while COMMIT is answered: the row is stored and
\* addRoom returns false, so the handler never seats the user.
AddRoomUnacknowledged(u, r, id) ==
  /\ Insert(u, r, id)
  /\ UNCHANGED <<creating, seating>>

-----------------------------------------------------------------------------
(* The sections under the mutex.                                           *)

\* Variants: the last member's room stays, or the room goes with any member.
DropSeatOnly(active, u, r) ==
  IF r \notin DOMAIN active THEN active
  ELSE [active EXCEPT ![r].members = Erase(@, u)]

DropWholeRoom(active, u, r) == Erase(active, r)

\* activeRooms without u's seat in r, and without r once it has no member.
DropMember(active, u, r) ==
  IF r \notin DOMAIN active THEN active
  ELSE LET left == Erase(active[r].members, u)
       IN IF DOMAIN left = {} THEN Erase(active, r)
          ELSE [active EXCEPT ![r].members = left]

\* Variant: JOIN keeps the seat in the old room.
DropNothing(u) == activeRooms

\* u leaves the room the map gives for it, if any.
DropCurrent(u) ==
  IF u \in DOMAIN userToRoomMap
    THEN DropMember(activeRooms, u, userToRoomMap[u])
    ELSE activeRooms

\* Variants: the room is called as the client spells it, or two columns of
\* the row change places.
EntryAsSpelt(row, r, members) ==
  [id |-> row.id, creator_id |-> row.creator_id, name |-> r, members |-> members]

EntryMixedUp(row, r, members) ==
  [id |-> row.creator_id, creator_id |-> row.id, name |-> row.name,
   members |-> members]

\* What JOIN makes of the row when the room r is not active yet.
NewEntry(row, r, members) ==
  [id |-> row.id, creator_id |-> row.creator_id, name |-> row.name,
   members |-> members]

\* JOIN under the lock; row is what findByRoomName returned before it.
JoinRoom(u, s, r, row) ==
  LET active == DropCurrent(u)
      entry == IF r \in DOMAIN active
                 THEN [active[r] EXCEPT !.members = Put(@, u, s)]
                 ELSE NewEntry(row, r, Put(NoEntries, u, s))
  IN /\ userToRoomMap' = Put(userToRoomMap, u, r)
     /\ activeRooms' = Put(active, r, entry)
     /\ UNCHANGED tables

\* Variant: the map still gives the room that was left.
LeaveSeatOnly(u, r) ==
  /\ activeRooms' = DropMember(activeRooms, u, r)
  /\ UNCHANGED <<tables, userToRoomMap>>

\* LEAVE under the lock: nothing happens unless r is the user's room.
LeaveRoom(u, r) ==
  /\ IF u \in DOMAIN userToRoomMap /\ userToRoomMap[u] = r
       THEN /\ userToRoomMap' = Erase(userToRoomMap, u)
            /\ activeRooms' = DropMember(activeRooms, u, r)
       ELSE UNCHANGED seating
  /\ UNCHANGED tables

\* CREATE under the lock, after addRoom gave the row its id.  The user keeps
\* the seat in the room it was in.
CreateRoom(u, s, r, id) ==
  LET members == IF r \in DOMAIN activeRooms
                   THEN activeRooms[r].members ELSE NoEntries
  IN /\ <<u, r>> \in creating
     /\ creating' = creating \ {<<u, r>>}
     /\ userToRoomMap' = Put(userToRoomMap, u, r)
     /\ activeRooms' = Put(activeRooms, r,
                           [id |-> id, creator_id |-> u, name |-> r,
                            members |-> Put(members, u, s)])
     /\ UNCHANGED rooms

\* The part of a disconnect that runs under the lock.
HandleDisconnect(u) ==
  /\ IF u \in DOMAIN userToRoomMap
       THEN /\ userToRoomMap' = Erase(userToRoomMap, u)
            /\ activeRooms' = DropMember(activeRooms, u, userToRoomMap[u])
       ELSE UNCHANGED seating
  /\ UNCHANGED tables

\* What the read-only sections return; absent stands for "" and for 0.
CurrentRoomName(u, absent) ==
  IF u \in DOMAIN userToRoomMap THEN userToRoomMap[u] ELSE absent

CurrentRoomId(u, absent) ==
  IF u \in DOMAIN userToRoomMap /\ userToRoomMap[u] \in DOMAIN activeRooms
    THEN activeRooms[userToRoomMap[u]].id
    ELSE absent

\* The users a broadcast to room r reaches, and the session each is sent on.
Recipients(r, excluded) ==
  IF r \notin DOMAIN activeRooms THEN NoEntries
  ELSE Restrict(activeRooms[r].members,
                DOMAIN activeRooms[r].members \ excluded)

-----------------------------------------------------------------------------
Next ==
  \E u \in Users, r \in RoomNames :
    \/ \E id \in RoomIds : AddRoom(u, r, id)
    \/ \E id \in RoomIds : AddRoomUnacknowledged(u, r, id)
    \/ \E s \in Sessions : Known(r) /\ JoinRoom(u, s, r, RowOf(r))
    \/ \E s \in Sessions : Known(r) /\ CreateRoom(u, s, r, RowOf(r).id)
    \/ LeaveRoom(u, r)
    \/ HandleDisconnect(u)

Spec == Init /\ [][Next]_vars

-----------------------------------------------------------------------------
(* Properties.                                                             *)

Members(r) == IF r \in DOMAIN activeRooms THEN DOMAIN activeRooms[r].members
                                          ELSE {}

\* The room a user is in, according to the map, is active and has a seat for
\* the user: getUserCurrentRoomId never falls through to 0 for a mapped user
\* and broadcasts to that room reach it, whatever JOIN, LEAVE, CREATE and
\* disconnect did before (RoomService.cpp:20-46, 60-73, 96-103, 161-182).
MappedIsSeated ==
  \A u \in DOMAIN userToRoomMap : u \in Members(userToRoomMap[u])

\* A room is active only while somebody has a seat in it: the three places
\* that erase a member erase the room with its last one.
NoEmptyRoom ==
  \A r \in DOMAIN activeRooms : DOMAIN activeRooms[r].members # {}

\* An active room carries the id, the creator and the name of the row its own
\* name denotes, although JOIN copies a row read before it took the lock and
\* CREATE writes fields that an earlier JOIN may have filled already.
RoomMirrorsRow ==
  \A r \in DOMAIN activeRooms :
    /\ Known(r)
    /\ activeRooms[r].id = RowOf(r).id
    /\ activeRooms[r].creator_id = RowOf(r).creator_id
    /\ activeRooms[r].name = RowOf(r).name

\* What u shares with the registry: its entry in the map, and every seat.
Place(u) ==
  [room |-> {userToRoomMap[v] : v \in DOMAIN userToRoomMap \cap {u}},
   seats |-> {<<r, activeRooms[r].members[u]>> :
                r \in {q \in DOMAIN activeRooms : u \in Members(q)}}]

\* No operation moves a user other than the one it is for: dropping the last
\* member erases a room, and no other user's seat may go with it.
OneUserPerStep ==
  [][\A u, v \in Users :
       Place(u)' # Place(u) /\ Place(v)' # Place(v) => u = v]_vars

\* A seat in a room that is not the user's own: broadcasts of the room still
\* reach it, though README.md:12 keeps them within the room, and neither LEAVE
\* nor a disconnect removes it.
Ghost(u, r) ==
  /\ u \in Members(r)
  /\ ~(u \in DOMAIN userToRoomMap /\ userToRoomMap[u] = r)

\* Such seats come from one operation only, a CREATE by a user who is in a
\* room (RoomService.cpp:98 overwrites the map entry and drops no seat).
GhostsOnlyFromCreate ==
  [][\A u \in Users, r \in RoomNames :
       Ghost(u, r)' /\ ~Ghost(u, r) =>
         \E q \in RoomNames : <<u, q>> \in creating \ creating']_vars
=============================================================================
