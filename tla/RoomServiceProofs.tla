-------------------------- MODULE RoomServiceProofs -------------------------
(***************************************************************************)
(* The room registry keeps its invariants, for any set of users, sessions, *)
(* room names and ids and any collation.                                   *)
(*                                                                         *)
(* MappedIsSeated and RoomMirrorsRow are not inductive alone: JOIN copies  *)
(* a row into an entry and CREATE overwrites an entry's fields, so the     *)
(* argument needs what the table and the pending CREATEs look like         *)
(* (RowsKeyed, CreatingIsStored), and an entry can only be dropped whole   *)
(* because its last member left (NoEmptyRoom).                             *)
(***************************************************************************)
EXTENDS RoomService, ContainerTheorems

RowsKeyed ==
  /\ \A k \in DOMAIN rooms : Collate[rooms[k].name] = k
  /\ \A k, l \in DOMAIN rooms : rooms[k].id = rooms[l].id => k = l

CreatingIsStored ==
  \A u \in Users, r \in RoomNames :
    <<u, r>> \in creating =>
      Known(r) /\ RowOf(r).creator_id = u /\ RowOf(r).name = r

IInv == /\ TypeOK
        /\ RowsKeyed
        /\ CreatingIsStored
        /\ MappedIsSeated
        /\ NoEmptyRoom
        /\ RoomMirrorsRow

-----------------------------------------------------------------------------
(* The member maps of the active rooms.                                    *)

\* An active room keeps its type when its members change.
LEMMA MembersType ==
  ASSUME NEW a \in ActiveRoom, NEW m, IsMap(m, Users, Sessions)
  PROVE  /\ [a EXCEPT !.members = m] \in ActiveRoom
         /\ [a EXCEPT !.members = m].members = m
         /\ [a EXCEPT !.members = m].id = a.id
         /\ [a EXCEPT !.members = m].creator_id = a.creator_id
         /\ [a EXCEPT !.members = m].name = a.name
<1>1. m \in MapsInto(Users, Sessions)
  BY MapsIntoIsMap
<1> QED
  BY <1>1 DEF ActiveRoom

\* The members of an active room are a map from users to sessions.
LEMMA MembersIsMap ==
  ASSUME NEW a \in ActiveRoom
  PROVE  IsMap(a.members, Users, Sessions)
BY MapsIntoIsMap DEF ActiveRoom

\* What dropping u from room r does to a registry without empty rooms
\* (RoomService.cpp:24-31, 65-71, 174-180): it stays one, other rooms and
\* other members are not touched, and no room changes its row.
LEMMA DropMemberLemma ==
  ASSUME NEW active, IsMap(active, RoomNames, ActiveRoom),
         \A q \in DOMAIN active : DOMAIN active[q].members # {},
         NEW u \in Users, NEW r \in RoomNames,
         NEW d, d = DropMember(active, u, r)
  PROVE  /\ IsMap(d, RoomNames, ActiveRoom)
         /\ DOMAIN d \subseteq DOMAIN active
         /\ \A q \in DOMAIN d :
              /\ DOMAIN d[q].members # {}
              /\ d[q].id = active[q].id
              /\ d[q].creator_id = active[q].creator_id
              /\ d[q].name = active[q].name
         /\ \A q \in DOMAIN active : \A v \in DOMAIN active[q].members :
              v # u => q \in DOMAIN d /\ v \in DOMAIN d[q].members
<1>1. CASE r \notin DOMAIN active
  BY <1>1 DEF DropMember
<1>2. CASE r \in DOMAIN active
  <2>1. active[r] \in ActiveRoom
    BY <1>2 DEF IsMap
  <2>2. PICK left : left = Erase(active[r].members, u)
    OBVIOUS
  <2>3. IsMap(left, Users, Sessions)
    BY <2>1, <2>2, MembersIsMap, EraseType
  <2>4. DOMAIN left = DOMAIN active[r].members \ {u}
    BY <2>2, EraseValue
  <2>5. CASE DOMAIN left = {}
    <3>1. d = Erase(active, r)
      BY <1>2, <2>2, <2>5 DEF DropMember
    <3>2. DOMAIN d = DOMAIN active \ {r} /\ \A q \in DOMAIN active : q # r => d[q] = active[q]
      BY <3>1 DEF Erase, Restrict
    <3>3. IsMap(d, RoomNames, ActiveRoom)
      BY <3>1, EraseType
    <3> QED
      BY <3>2, <3>3, <2>4, <2>5
  <2>6. CASE DOMAIN left # {}
    <3>1. d = [active EXCEPT ![r] = [active[r] EXCEPT !.members = left]]
      BY <1>2, <2>2, <2>6 DEF DropMember
    <3>2. PICK a : a = [active[r] EXCEPT !.members = left]
      OBVIOUS
    <3>3. /\ a \in ActiveRoom
          /\ a.members = left
          /\ a.id = active[r].id
          /\ a.creator_id = active[r].creator_id
          /\ a.name = active[r].name
      BY <2>1, <2>3, <3>2, MembersType
    <3>4. d = [active EXCEPT ![r] = a]
      BY <3>1, <3>2
    <3> QED
      BY <1>2, <2>4, <2>6, <3>3, <3>4 DEF IsMap
  <2> QED
    BY <2>5, <2>6
<1> QED
  BY <1>1, <1>2

\* Dropping the user from its own room, which is what JOIN does first
\* (RoomService.cpp:22-33).
LEMMA DropCurrentLemma ==
  ASSUME TypeOK, NoEmptyRoom, NEW u \in Users, NEW d, d = DropCurrent(u)
  PROVE  /\ IsMap(d, RoomNames, ActiveRoom)
         /\ DOMAIN d \subseteq DOMAIN activeRooms
         /\ \A q \in DOMAIN d :
              /\ DOMAIN d[q].members # {}
              /\ d[q].id = activeRooms[q].id
              /\ d[q].creator_id = activeRooms[q].creator_id
              /\ d[q].name = activeRooms[q].name
         /\ \A q \in DOMAIN activeRooms : \A v \in DOMAIN activeRooms[q].members :
              v # u => q \in DOMAIN d /\ v \in DOMAIN d[q].members
<1>1. CASE u \in DOMAIN userToRoomMap
  <2>1. d = DropMember(activeRooms, u, userToRoomMap[u])
    BY <1>1 DEF DropCurrent
  <2>2. userToRoomMap[u] \in RoomNames
    BY <1>1 DEF TypeOK, IsMap
  <2> QED
    BY <2>1, <2>2, DropMemberLemma DEF TypeOK, NoEmptyRoom
<1>2. CASE u \notin DOMAIN userToRoomMap
  BY <1>2 DEF DropCurrent, TypeOK, NoEmptyRoom
<1> QED
  BY <1>1, <1>2

\* An entry that mirrors its row, put over a registry d that has lost only
\* seats of u, gives a registry that keeps the invariant: the common part of
\* JOIN (RoomService.cpp:34-44) and CREATE (RoomService.cpp:98-102).
LEMMA SeatKeepsIInv ==
  ASSUME IInv, NEW u \in Users, NEW r \in RoomNames, NEW d, NEW e \in ActiveRoom,
         IsMap(d, RoomNames, ActiveRoom),
         DOMAIN d \subseteq DOMAIN activeRooms,
         \A q \in DOMAIN d :
              /\ DOMAIN d[q].members # {}
              /\ d[q].id = activeRooms[q].id
              /\ d[q].creator_id = activeRooms[q].creator_id
              /\ d[q].name = activeRooms[q].name,
         \A q \in DOMAIN activeRooms : \A v \in DOMAIN activeRooms[q].members :
              v # u => q \in DOMAIN d /\ v \in DOMAIN d[q].members,
         Known(r), u \in DOMAIN e.members,
         e.id = RowOf(r).id, e.creator_id = RowOf(r).creator_id, e.name = RowOf(r).name,
         r \in DOMAIN d => DOMAIN d[r].members \subseteq DOMAIN e.members,
         userToRoomMap' = Put(userToRoomMap, u, r),
         activeRooms' = Put(d, r, e),
         creating' \in SUBSET creating, rooms' = rooms
  PROVE  IInv'
<1>1. TypeOK'
  <2>1. IsMap(userToRoomMap', Users, RoomNames)
    BY PutType DEF IInv, TypeOK
  <2>2. IsMap(activeRooms', RoomNames, ActiveRoom)
    BY PutType
  <2> QED
    BY <2>1, <2>2 DEF IInv, TypeOK
<1>2. RowsKeyed' /\ CreatingIsStored'
  BY DEF IInv, RowsKeyed, CreatingIsStored, Known, RowOf
<1>3. /\ DOMAIN activeRooms' = DOMAIN d \cup {r}
      /\ activeRooms'[r] = e
      /\ \A q \in DOMAIN d : q # r => activeRooms'[q] = d[q]
  BY DEF Put
<1>4. /\ DOMAIN userToRoomMap' = DOMAIN userToRoomMap \cup {u}
      /\ userToRoomMap'[u] = r
      /\ \A v \in DOMAIN userToRoomMap : v # u => userToRoomMap'[v] = userToRoomMap[v]
  BY DEF Put
<1>5. MappedIsSeated'
  <2> SUFFICES ASSUME NEW v \in DOMAIN userToRoomMap'
               PROVE  /\ userToRoomMap'[v] \in DOMAIN activeRooms'
                      /\ v \in DOMAIN activeRooms'[userToRoomMap'[v]].members
    BY DEF MappedIsSeated, Members
  <2>1. CASE v = u
    BY <1>3, <1>4, <2>1
  <2>2. CASE v # u
    <3>1. PICK q : q = userToRoomMap[v]
      OBVIOUS
    <3>2. v \in DOMAIN userToRoomMap /\ userToRoomMap'[v] = q
      BY <1>4, <2>2, <3>1
    <3>3. q \in DOMAIN activeRooms /\ v \in DOMAIN activeRooms[q].members
      BY <3>1, <3>2 DEF IInv, MappedIsSeated, Members
    <3>4. q \in DOMAIN d /\ v \in DOMAIN d[q].members
      BY <2>2, <3>3
    <3>5. q \in DOMAIN activeRooms' /\ v \in DOMAIN activeRooms'[q].members
      BY <1>3, <3>4
    <3> QED
      BY <3>2, <3>5
  <2> QED
    BY <2>1, <2>2
<1>6. NoEmptyRoom'
  <2> SUFFICES ASSUME NEW q \in DOMAIN activeRooms'
               PROVE  DOMAIN activeRooms'[q].members # {}
    BY DEF NoEmptyRoom
  <2> QED
    BY <1>3
<1>7. RoomMirrorsRow'
  <2>1. \A q : (Known(q)' <=> Known(q)) /\ RowOf(q)' = RowOf(q)
    BY DEF Known, RowOf
  <2> SUFFICES ASSUME NEW q \in DOMAIN activeRooms'
               PROVE  /\ Known(q)
                      /\ activeRooms'[q].id = RowOf(q).id
                      /\ activeRooms'[q].creator_id = RowOf(q).creator_id
                      /\ activeRooms'[q].name = RowOf(q).name
    BY <2>1 DEF RoomMirrorsRow
  <2>2. CASE q = r
    BY <1>3, <2>2
  <2>3. CASE q # r
    BY <1>3, <2>3 DEF IInv, RoomMirrorsRow
  <2> QED
    BY <2>2, <2>3
<1> QED
  BY <1>1, <1>2, <1>5, <1>6, <1>7 DEF IInv

\* LEAVE of the user's own room and disconnect (RoomService.cpp:64-71,
\* 174-181) keep the invariant.
LEMMA UnseatKeepsIInv ==
  ASSUME IInv, NEW u \in Users, u \in DOMAIN userToRoomMap,
         userToRoomMap' = Erase(userToRoomMap, u),
         activeRooms' = DropMember(activeRooms, u, userToRoomMap[u]),
         UNCHANGED tables
  PROVE  IInv'
<1>1. userToRoomMap[u] \in RoomNames
  BY DEF IInv, TypeOK, IsMap
<1>2. /\ IsMap(activeRooms', RoomNames, ActiveRoom)
      /\ DOMAIN activeRooms' \subseteq DOMAIN activeRooms
      /\ \A q \in DOMAIN activeRooms' :
           /\ DOMAIN activeRooms'[q].members # {}
           /\ activeRooms'[q].id = activeRooms[q].id
           /\ activeRooms'[q].creator_id = activeRooms[q].creator_id
           /\ activeRooms'[q].name = activeRooms[q].name
      /\ \A q \in DOMAIN activeRooms : \A v \in DOMAIN activeRooms[q].members :
           v # u => q \in DOMAIN activeRooms' /\ v \in DOMAIN activeRooms'[q].members
  BY <1>1, DropMemberLemma DEF IInv, TypeOK, NoEmptyRoom
<1>3. TypeOK'
  BY <1>2, EraseType DEF IInv, TypeOK, tables
<1>4. RowsKeyed' /\ CreatingIsStored'
  BY DEF IInv, RowsKeyed, CreatingIsStored, Known, RowOf, tables
<1>5. MappedIsSeated'
  <2> SUFFICES ASSUME NEW v \in DOMAIN userToRoomMap'
               PROVE  /\ userToRoomMap'[v] \in DOMAIN activeRooms'
                      /\ v \in DOMAIN activeRooms'[userToRoomMap'[v]].members
    BY DEF MappedIsSeated, Members
  <2>1. v # u /\ v \in DOMAIN userToRoomMap /\ userToRoomMap'[v] = userToRoomMap[v]
    BY DEF Erase, Restrict
  <2>2. /\ userToRoomMap[v] \in DOMAIN activeRooms
        /\ v \in DOMAIN activeRooms[userToRoomMap[v]].members
    BY <2>1 DEF IInv, MappedIsSeated, Members
  <2> QED
    BY <1>2, <2>1, <2>2
<1>6. NoEmptyRoom'
  BY <1>2 DEF NoEmptyRoom
<1>7. RoomMirrorsRow'
  BY <1>2 DEF IInv, RoomMirrorsRow, Known, RowOf, tables
<1> QED
  BY <1>3, <1>4, <1>5, <1>6, <1>7 DEF IInv

\* Storing a row under an unused name and id keeps the invariant, whether
\* or not the handler learns of it (RoomService.cpp:95, addRoom).
LEMMA InsertKeepsIInv ==
  ASSUME IInv, NEW u \in Users, NEW r \in RoomNames, NEW id \in RoomIds,
         Insert(u, r, id),
         creating' \in {creating, creating \cup {<<u, r>>}}, UNCHANGED seating
  PROVE  IInv'
<1> DEFINE row == [id |-> id, creator_id |-> u, name |-> r]
<1>1. Collate[r] \in RoomNames /\ row \in Row
  BY NamesAssumption DEF NamesAssumption, Row
<1>2. /\ DOMAIN rooms' = DOMAIN rooms \cup {Collate[r]}
      /\ rooms'[Collate[r]] = row
      /\ \A k \in DOMAIN rooms : k # Collate[r] /\ rooms'[k] = rooms[k]
  BY DEF Insert, Known, Put
<1>3. \A k \in DOMAIN rooms : rooms[k].id # id
  BY DEF Insert, FreshIds
<1>4. TypeOK'
  <2>1. IsMap(rooms', RoomNames, Row)
    BY <1>1, PutType DEF IInv, TypeOK, Insert
  <2> QED
    BY <2>1 DEF IInv, TypeOK, seating
<1>5. RowsKeyed'
  BY <1>2, <1>3 DEF IInv, RowsKeyed
<1>6. \A q : Known(q) => Known(q)' /\ RowOf(q)' = RowOf(q)
  BY <1>2 DEF Known, RowOf
<1>7. Known(r)' /\ RowOf(r)' = row
  BY <1>2 DEF Known, RowOf
<1>8. CreatingIsStored'
  <2> SUFFICES ASSUME NEW v \in Users, NEW q \in RoomNames, <<v, q>> \in creating'
               PROVE  Known(q)' /\ RowOf(q)'.creator_id = v /\ RowOf(q)'.name = q
    BY DEF CreatingIsStored
  <2>1. CASE <<v, q>> \in creating
    BY <1>6, <2>1 DEF IInv, CreatingIsStored
  <2>2. CASE <<v, q>> = <<u, r>>
    BY <1>7, <2>2
  <2> QED
    BY <2>1, <2>2
<1>9. MappedIsSeated' /\ NoEmptyRoom'
  BY DEF IInv, MappedIsSeated, NoEmptyRoom, Members, seating
<1>10. RoomMirrorsRow'
  <2>1. activeRooms' = activeRooms
    BY DEF seating
  <2> QED
    BY <1>6, <2>1 DEF IInv, RoomMirrorsRow
<1> QED
  BY <1>4, <1>5, <1>8, <1>9, <1>10 DEF IInv

\* JOIN keeps the invariant (RoomService.cpp:20-46).
LEMMA JoinKeepsIInv ==
  ASSUME IInv, NEW u \in Users, NEW s \in Sessions, NEW r \in RoomNames,
         Known(r), JoinRoom(u, s, r, RowOf(r))
  PROVE  IInv'
<1>1. PICK d : d = DropCurrent(u)
  OBVIOUS
<1>2. PICK e : e = IF r \in DOMAIN d
                     THEN [d[r] EXCEPT !.members = Put(d[r].members, u, s)]
                     ELSE [id |-> RowOf(r).id, creator_id |-> RowOf(r).creator_id,
                           name |-> RowOf(r).name, members |-> Put(NoEntries, u, s)]
  OBVIOUS
<1>3. /\ userToRoomMap' = Put(userToRoomMap, u, r)
      /\ activeRooms' = Put(d, r, e)
      /\ UNCHANGED tables
  BY <1>1, <1>2 DEF JoinRoom, NewEntry
<1>4. /\ IsMap(d, RoomNames, ActiveRoom)
      /\ DOMAIN d \subseteq DOMAIN activeRooms
      /\ \A q \in DOMAIN d :
           /\ DOMAIN d[q].members # {}
           /\ d[q].id = activeRooms[q].id
           /\ d[q].creator_id = activeRooms[q].creator_id
           /\ d[q].name = activeRooms[q].name
      /\ \A q \in DOMAIN activeRooms : \A v \in DOMAIN activeRooms[q].members :
           v # u => q \in DOMAIN d /\ v \in DOMAIN d[q].members
  BY <1>1, DropCurrentLemma DEF IInv
<1>5. RowOf(r) \in Row
  BY DEF IInv, TypeOK, IsMap, Known, RowOf
<1>6. /\ e \in ActiveRoom
      /\ u \in DOMAIN e.members
      /\ e.id = RowOf(r).id /\ e.creator_id = RowOf(r).creator_id /\ e.name = RowOf(r).name
      /\ r \in DOMAIN d => DOMAIN d[r].members \subseteq DOMAIN e.members
  <2>1. CASE r \in DOMAIN d
    <3>1. PICK m : m = Put(d[r].members, u, s)
      OBVIOUS
    <3>2. d[r] \in ActiveRoom
      BY <1>4, <2>1 DEF IsMap
    <3>3. IsMap(m, Users, Sessions)
      BY <3>1, <3>2, MembersIsMap, PutType
    <3>4. DOMAIN m = DOMAIN d[r].members \cup {u}
      BY <3>1 DEF Put
    <3>5. e = [d[r] EXCEPT !.members = m]
      BY <1>2, <2>1, <3>1
    <3>6. /\ e \in ActiveRoom /\ e.members = m /\ e.id = d[r].id
          /\ e.creator_id = d[r].creator_id /\ e.name = d[r].name
      BY <3>2, <3>3, <3>5, MembersType
    <3>7. /\ d[r].id = RowOf(r).id
          /\ d[r].creator_id = RowOf(r).creator_id
          /\ d[r].name = RowOf(r).name
      BY <1>4, <2>1 DEF IInv, RoomMirrorsRow
    <3> QED
      BY <3>4, <3>6, <3>7
  <2>2. CASE r \notin DOMAIN d
    <3>1. PICK m : m = Put(NoEntries, u, s)
      OBVIOUS
    <3>2. IsMap(m, Users, Sessions) /\ u \in DOMAIN m
      BY <3>1, NoEntriesType, PutType DEF Put
    <3>3. m \in MapsInto(Users, Sessions)
      BY <3>2, MapsIntoIsMap
    <3>4. e = [id |-> RowOf(r).id, creator_id |-> RowOf(r).creator_id,
               name |-> RowOf(r).name, members |-> m]
      BY <1>2, <2>2, <3>1
    <3> QED
      BY <1>5, <2>2, <3>2, <3>3, <3>4 DEF Row, ActiveRoom
  <2> QED
    BY <2>1, <2>2
<1> QED
  BY <1>3, <1>4, <1>6, SeatKeepsIInv DEF tables

\* CREATE keeps the invariant (RoomService.cpp:96-103).
LEMMA CreateKeepsIInv ==
  ASSUME IInv, NEW u \in Users, NEW s \in Sessions, NEW r \in RoomNames,
         Known(r), CreateRoom(u, s, r, RowOf(r).id)
  PROVE  IInv'
<1>1. PICK old : old = IF r \in DOMAIN activeRooms
                         THEN activeRooms[r].members ELSE NoEntries
  OBVIOUS
<1>2. PICK m : m = Put(old, u, s)
  OBVIOUS
<1>3. PICK e : e = [id |-> RowOf(r).id, creator_id |-> u, name |-> r, members |-> m]
  OBVIOUS
<1>4. /\ <<u, r>> \in creating
      /\ creating' = creating \ {<<u, r>>}
      /\ userToRoomMap' = Put(userToRoomMap, u, r)
      /\ activeRooms' = Put(activeRooms, r, e)
      /\ rooms' = rooms
  BY <1>1, <1>2, <1>3 DEF CreateRoom
<1>5. RowOf(r).creator_id = u /\ RowOf(r).name = r
  BY <1>4 DEF IInv, CreatingIsStored
<1>6. IsMap(old, Users, Sessions)
  <2>1. CASE r \in DOMAIN activeRooms
    <3>1. activeRooms[r] \in ActiveRoom
      BY <2>1 DEF IInv, TypeOK, IsMap
    <3> QED
      BY <1>1, <2>1, <3>1, MembersIsMap
  <2>2. CASE r \notin DOMAIN activeRooms
    BY <1>1, <2>2, NoEntriesType
  <2> QED
    BY <2>1, <2>2
<1>7. IsMap(m, Users, Sessions) /\ DOMAIN m = DOMAIN old \cup {u}
  BY <1>2, <1>6, PutType DEF Put
<1>8. m \in MapsInto(Users, Sessions)
  BY <1>7, MapsIntoIsMap
<1>9. RowOf(r).id \in RoomIds
  BY DEF IInv, TypeOK, IsMap, Known, RowOf, Row
<1>10. /\ e \in ActiveRoom
       /\ u \in DOMAIN e.members
       /\ e.id = RowOf(r).id /\ e.creator_id = RowOf(r).creator_id /\ e.name = RowOf(r).name
       /\ r \in DOMAIN activeRooms => DOMAIN activeRooms[r].members \subseteq DOMAIN e.members
  BY <1>1, <1>3, <1>5, <1>7, <1>8, <1>9 DEF ActiveRoom
<1>11. creating' \in SUBSET creating
  BY <1>4
<1>12. IsMap(activeRooms, RoomNames, ActiveRoom) /\ NoEmptyRoom
  BY DEF IInv, TypeOK
<1> QED
  BY <1>4, <1>10, <1>11, <1>12, SeatKeepsIInv DEF NoEmptyRoom

-----------------------------------------------------------------------------
(* Whom a step moves.                                                      *)

\* v has a seat in room q of the registry active.
SeatIn(active, q, v) == q \in DOMAIN active /\ v \in DOMAIN active[q].members

\* Dropping u from room r (RoomService.cpp:24-31) takes away that seat, erased
\* room or not, and leaves each other seat and its session alone.
LEMMA DropMemberSeats ==
  ASSUME NEW active, IsMap(active, RoomNames, ActiveRoom),
         NEW u \in Users, NEW r \in RoomNames,
         NEW d, d = DropMember(active, u, r),
         NEW q, NEW v
  PROVE  /\ SeatIn(d, q, v) <=> SeatIn(active, q, v) /\ ~(q = r /\ v = u)
         /\ SeatIn(d, q, v) => d[q].members[v] = active[q].members[v]
<1>1. CASE r \notin DOMAIN active
  BY <1>1 DEF DropMember, SeatIn
<1>2. CASE r \in DOMAIN active
  <2>1. active[r] \in ActiveRoom
    BY <1>2 DEF IsMap
  <2>2. PICK left : left = Erase(active[r].members, u)
    OBVIOUS
  <2>3. /\ IsMap(left, Users, Sessions)
        /\ DOMAIN left = DOMAIN active[r].members \ {u}
        /\ \A x \in DOMAIN active[r].members : x # u => left[x] = active[r].members[x]
    BY <2>1, <2>2, MembersIsMap, EraseType, EraseValue
  <2>4. CASE DOMAIN left = {}
    <3>1. d = Erase(active, r)
      BY <1>2, <2>2, <2>4 DEF DropMember
    <3>2. DOMAIN d = DOMAIN active \ {r} /\ \A x \in DOMAIN active : x # r => d[x] = active[x]
      BY <3>1 DEF Erase, Restrict
    <3> QED
      BY <2>3, <2>4, <3>2 DEF SeatIn
  <2>5. CASE DOMAIN left # {}
    <3>1. PICK a : a = [active[r] EXCEPT !.members = left]
      OBVIOUS
    <3>2. a.members = left
      BY <2>1, <2>3, <3>1, MembersType
    <3>3. d = [active EXCEPT ![r] = a]
      BY <1>2, <2>2, <2>5, <3>1 DEF DropMember
    <3> QED
      BY <1>2, <2>3, <3>2, <3>3 DEF SeatIn
  <2> QED
    BY <2>4, <2>5
<1> QED
  BY <1>1, <1>2

\* Dropping a user from its own room (RoomService.cpp:22-33), likewise.
LEMMA DropCurrentSeats ==
  ASSUME TypeOK, NEW u \in Users, NEW d, d = DropCurrent(u), NEW q, NEW v
  PROVE  /\ SeatIn(d, q, v) <=>
              /\ SeatIn(activeRooms, q, v)
              /\ ~(u \in DOMAIN userToRoomMap /\ q = userToRoomMap[u] /\ v = u)
         /\ SeatIn(d, q, v) => d[q].members[v] = activeRooms[q].members[v]
<1>1. CASE u \in DOMAIN userToRoomMap
  <2>1. d = DropMember(activeRooms, u, userToRoomMap[u])
    BY <1>1 DEF DropCurrent
  <2>2. userToRoomMap[u] \in RoomNames
    BY <1>1 DEF TypeOK, IsMap
  <2> QED
    BY <1>1, <2>1, <2>2, DropMemberSeats DEF TypeOK
<1>2. CASE u \notin DOMAIN userToRoomMap
  BY <1>2 DEF DropCurrent
<1> QED
  BY <1>1, <1>2

\* Seating u in room r by an entry e over a registry d: e adds u's seat to
\* those d has in r.
LEMMA PutEntrySeats ==
  ASSUME NEW d, NEW r, NEW e, NEW u, NEW s, NEW old,
         e.members = Put(old, u, s),
         old = IF r \in DOMAIN d THEN d[r].members ELSE NoEntries,
         NEW q, NEW v
  PROVE  /\ SeatIn(Put(d, r, e), q, v) <=> SeatIn(d, q, v) \/ (q = r /\ v = u)
         /\ SeatIn(d, q, v) /\ ~(q = r /\ v = u) =>
              Put(d, r, e)[q].members[v] = d[q].members[v]
<1>1. /\ DOMAIN Put(d, r, e) = DOMAIN d \cup {r}
      /\ Put(d, r, e)[r] = e
      /\ \A x \in DOMAIN d : x # r => Put(d, r, e)[x] = d[x]
  BY DEF Put
<1>2. /\ DOMAIN e.members = DOMAIN old \cup {u}
      /\ \A x \in DOMAIN old : x # u => e.members[x] = old[x]
  BY DEF Put
<1>3. r \notin DOMAIN d => DOMAIN old = {}
  BY DEF NoEntries
<1> QED
  BY <1>1, <1>2, <1>3 DEF SeatIn

\* A step for user u leaves the entries and the seats of all others alone.
MovesOnly(u) ==
  /\ \A v \in Users : v # u =>
       /\ v \in DOMAIN userToRoomMap' <=> v \in DOMAIN userToRoomMap
       /\ v \in DOMAIN userToRoomMap => userToRoomMap'[v] = userToRoomMap[v]
  /\ \A q, v : v # u =>
       /\ SeatIn(activeRooms', q, v) <=> SeatIn(activeRooms, q, v)
       /\ SeatIn(activeRooms, q, v) =>
            activeRooms'[q].members[v] = activeRooms[q].members[v]

\* Whatever seat u has after the step and not in its own room was such a
\* seat before.
AddsNoGhost(u) ==
  \A q : SeatIn(activeRooms', q, u) =>
    \/ u \in DOMAIN userToRoomMap' /\ userToRoomMap'[u] = q
    \/ /\ SeatIn(activeRooms, q, u)
       /\ ~(u \in DOMAIN userToRoomMap /\ userToRoomMap[u] = q)

\* Every seat after the step was there before, on the same session, or is the
\* one u took on session s.
SeatsFrom(u, s) ==
  \A q, v : SeatIn(activeRooms', q, v) =>
    \/ /\ SeatIn(activeRooms, q, v)
       /\ activeRooms'[q].members[v] = activeRooms[q].members[v]
    \/ v = u /\ activeRooms'[q].members[v] = s

\* u is in room r after the step, with its seat there on session s.
Settles(u, r, s) ==
  /\ u \in DOMAIN userToRoomMap' /\ userToRoomMap'[u] = r
  /\ SeatIn(activeRooms', r, u) /\ activeRooms'[r].members[u] = s

\* LEAVE of the user's own room and disconnect (RoomService.cpp:64-71, 174-181).
LEMMA UnseatMoves ==
  ASSUME TypeOK, NEW u \in Users, u \in DOMAIN userToRoomMap,
         userToRoomMap' = Erase(userToRoomMap, u),
         activeRooms' = DropMember(activeRooms, u, userToRoomMap[u])
  PROVE  /\ MovesOnly(u) /\ AddsNoGhost(u) /\ \A s : SeatsFrom(u, s)
         /\ u \notin DOMAIN userToRoomMap'
<1>1. userToRoomMap[u] \in RoomNames
  BY DEF TypeOK, IsMap
<1>2. \A q, v :
        /\ SeatIn(activeRooms', q, v) <=>
             SeatIn(activeRooms, q, v) /\ ~(q = userToRoomMap[u] /\ v = u)
        /\ SeatIn(activeRooms', q, v) =>
             activeRooms'[q].members[v] = activeRooms[q].members[v]
  BY <1>1, DropMemberSeats DEF TypeOK
<1>3. /\ DOMAIN userToRoomMap' = DOMAIN userToRoomMap \ {u}
      /\ \A v \in DOMAIN userToRoomMap : v # u => userToRoomMap'[v] = userToRoomMap[v]
  BY DEF Erase, Restrict
<1> QED
  BY <1>2, <1>3 DEF MovesOnly, AddsNoGhost, SeatsFrom

\* JOIN (RoomService.cpp:20-46).
LEMMA JoinMoves ==
  ASSUME TypeOK, NoEmptyRoom, NEW u \in Users, NEW s \in Sessions, NEW r \in RoomNames,
         NEW row, JoinRoom(u, s, r, row)
  PROVE  MovesOnly(u) /\ AddsNoGhost(u) /\ SeatsFrom(u, s) /\ Settles(u, r, s)
<1>1. PICK d : d = DropCurrent(u)
  OBVIOUS
<1>2. PICK old : old = IF r \in DOMAIN d THEN d[r].members ELSE NoEntries
  OBVIOUS
<1>3. PICK e : e = IF r \in DOMAIN d
                     THEN [d[r] EXCEPT !.members = Put(d[r].members, u, s)]
                     ELSE [id |-> row.id, creator_id |-> row.creator_id,
                           name |-> row.name, members |-> Put(NoEntries, u, s)]
  OBVIOUS
<1>4. userToRoomMap' = Put(userToRoomMap, u, r) /\ activeRooms' = Put(d, r, e)
  BY <1>1, <1>3 DEF JoinRoom, NewEntry
<1>5. e.members = Put(old, u, s)
  <2>1. CASE r \in DOMAIN d
    <3>1. PICK m : m = Put(d[r].members, u, s)
      OBVIOUS
    <3>2. d[r] \in ActiveRoom
      BY <1>1, <2>1, DropCurrentLemma DEF IsMap
    <3>3. IsMap(m, Users, Sessions)
      BY <3>1, <3>2, MembersIsMap, PutType
    <3>4. e = [d[r] EXCEPT !.members = m]
      BY <1>3, <2>1, <3>1
    <3> QED
      BY <1>2, <2>1, <3>1, <3>2, <3>3, <3>4, MembersType
  <2>2. CASE r \notin DOMAIN d
    BY <1>2, <1>3, <2>2
  <2> QED
    BY <2>1, <2>2
<1>6. \A q, v :
        /\ SeatIn(d, q, v) <=>
             /\ SeatIn(activeRooms, q, v)
             /\ ~(u \in DOMAIN userToRoomMap /\ q = userToRoomMap[u] /\ v = u)
        /\ SeatIn(d, q, v) => d[q].members[v] = activeRooms[q].members[v]
  BY <1>1, DropCurrentSeats
<1>7. \A q, v :
        /\ SeatIn(activeRooms', q, v) <=> SeatIn(d, q, v) \/ (q = r /\ v = u)
        /\ SeatIn(d, q, v) /\ ~(q = r /\ v = u) =>
             activeRooms'[q].members[v] = d[q].members[v]
  BY <1>2, <1>4, <1>5, PutEntrySeats
<1>8. /\ DOMAIN userToRoomMap' = DOMAIN userToRoomMap \cup {u}
      /\ userToRoomMap'[u] = r
      /\ \A v \in DOMAIN userToRoomMap : v # u => userToRoomMap'[v] = userToRoomMap[v]
  BY <1>4 DEF Put
<1>9. activeRooms'[r].members[u] = s
  BY <1>4, <1>5 DEF Put
<1> QED
  BY <1>6, <1>7, <1>8, <1>9 DEF MovesOnly, AddsNoGhost, SeatsFrom, Settles

\* CREATE (RoomService.cpp:96-103), which leaves the seat in the old room.
LEMMA CreateMoves ==
  ASSUME TypeOK, NEW u \in Users, NEW s \in Sessions, NEW r \in RoomNames,
         NEW id, CreateRoom(u, s, r, id)
  PROVE  MovesOnly(u) /\ SeatsFrom(u, s) /\ Settles(u, r, s)
<1>1. PICK old : old = IF r \in DOMAIN activeRooms
                         THEN activeRooms[r].members ELSE NoEntries
  OBVIOUS
<1>2. PICK e : e = [id |-> id, creator_id |-> u, name |-> r, members |-> Put(old, u, s)]
  OBVIOUS
<1>3. userToRoomMap' = Put(userToRoomMap, u, r) /\ activeRooms' = Put(activeRooms, r, e)
  BY <1>1, <1>2 DEF CreateRoom
<1>4. \A q, v :
        /\ SeatIn(activeRooms', q, v) <=> SeatIn(activeRooms, q, v) \/ (q = r /\ v = u)
        /\ SeatIn(activeRooms, q, v) /\ ~(q = r /\ v = u) =>
             activeRooms'[q].members[v] = activeRooms[q].members[v]
  <2>1. e.members = Put(old, u, s)
    BY <1>2
  <2> QED
    BY <1>1, <1>3, <2>1, PutEntrySeats
<1>5. /\ DOMAIN userToRoomMap' = DOMAIN userToRoomMap \cup {u}
      /\ userToRoomMap'[u] = r
      /\ \A v \in DOMAIN userToRoomMap : v # u => userToRoomMap'[v] = userToRoomMap[v]
  BY <1>3 DEF Put
<1>6. activeRooms'[r].members[u] = s
  BY <1>2, <1>3 DEF Put
<1> QED
  BY <1>4, <1>5, <1>6 DEF MovesOnly, SeatsFrom, Settles

\* Each step is for one user, and adds no ghost unless it takes a CREATE of
\* that user out of creating.
LEMMA StepMoves ==
  ASSUME TypeOK, NoEmptyRoom, Next
  PROVE  \/ UNCHANGED seating
         \/ \E u \in Users :
              /\ MovesOnly(u)
              /\ \/ AddsNoGhost(u)
                 \/ \E q \in RoomNames : <<u, q>> \in creating \ creating'
<1>1. PICK u \in Users, r \in RoomNames :
        \/ \E id \in RoomIds : AddRoom(u, r, id)
        \/ \E id \in RoomIds : AddRoomUnacknowledged(u, r, id)
        \/ \E s \in Sessions : Known(r) /\ JoinRoom(u, s, r, RowOf(r))
        \/ \E s \in Sessions : Known(r) /\ CreateRoom(u, s, r, RowOf(r).id)
        \/ LeaveRoom(u, r)
        \/ HandleDisconnect(u)
  BY DEF Next
<1>2. CASE \E id \in RoomIds : AddRoom(u, r, id) \/ AddRoomUnacknowledged(u, r, id)
  BY <1>2 DEF AddRoom, AddRoomUnacknowledged, seating
<1>3. ASSUME NEW s \in Sessions, JoinRoom(u, s, r, RowOf(r))
      PROVE  MovesOnly(u) /\ AddsNoGhost(u)
  BY <1>3, JoinMoves
<1>4. ASSUME NEW s \in Sessions, CreateRoom(u, s, r, RowOf(r).id)
      PROVE  MovesOnly(u) /\ <<u, r>> \in creating \ creating'
  <2>1. MovesOnly(u)
    BY <1>4, CreateMoves
  <2>2. <<u, r>> \in creating /\ creating' = creating \ {<<u, r>>}
    BY <1>4 DEF CreateRoom
  <2> QED
    BY <2>1, <2>2
<1>5. CASE LeaveRoom(u, r) \/ HandleDisconnect(u)
  BY <1>5, UnseatMoves DEF LeaveRoom, HandleDisconnect
<1> QED
  BY <1>1, <1>2, <1>3, <1>4, <1>5

-----------------------------------------------------------------------------
\* The invariant holds when the server starts: the table may hold rows, both
\* maps are empty.
THEOREM InitIInv == Init => IInv
<1> SUFFICES ASSUME Init PROVE IInv
  OBVIOUS
<1>1. IsMap(rooms, RoomNames, Row)
  BY MapsIntoIsMap DEF Init
<1> QED
  BY <1>1, NoEntriesType
     DEF Init, IInv, TypeOK, RowsKeyed, CreatingIsStored, MappedIsSeated,
         NoEmptyRoom, RoomMirrorsRow

\* Every section under the mutex and every statement of the table keeps it.
THEOREM NextIInv == IInv /\ [Next]_vars => IInv'
<1> SUFFICES ASSUME IInv, [Next]_vars PROVE IInv'
  OBVIOUS
<1>1. CASE UNCHANGED vars
  BY <1>1 DEF vars, IInv, TypeOK, RowsKeyed, CreatingIsStored, MappedIsSeated,
              NoEmptyRoom, RoomMirrorsRow, Members, Known, RowOf
<1>2. ASSUME NEW u \in Users, NEW r \in RoomNames, NEW id \in RoomIds,
             AddRoom(u, r, id)
      PROVE  IInv'
  BY <1>2, InsertKeepsIInv DEF AddRoom
<1>3. ASSUME NEW u \in Users, NEW r \in RoomNames, NEW id \in RoomIds,
             AddRoomUnacknowledged(u, r, id)
      PROVE  IInv'
  BY <1>3, InsertKeepsIInv DEF AddRoomUnacknowledged
<1>4. ASSUME NEW u \in Users, NEW r \in RoomNames, LeaveRoom(u, r)
      PROVE  IInv'
  <2>1. CASE u \in DOMAIN userToRoomMap /\ userToRoomMap[u] = r
    BY <1>4, <2>1, UnseatKeepsIInv DEF LeaveRoom
  <2>2. CASE ~(u \in DOMAIN userToRoomMap /\ userToRoomMap[u] = r)
    BY <1>1, <1>4, <2>2 DEF LeaveRoom, seating, tables, vars
  <2> QED
    BY <2>1, <2>2
<1>5. ASSUME NEW u \in Users, HandleDisconnect(u)
      PROVE  IInv'
  <2>1. CASE u \in DOMAIN userToRoomMap
    BY <1>5, <2>1, UnseatKeepsIInv DEF HandleDisconnect
  <2>2. CASE u \notin DOMAIN userToRoomMap
    BY <1>1, <1>5, <2>2 DEF HandleDisconnect, seating, tables, vars
  <2> QED
    BY <2>1, <2>2
<1> QED
  BY <1>1, <1>2, <1>3, <1>4, <1>5, JoinKeepsIInv, CreateKeepsIInv DEF Next

\* The invariant holds in every reachable state.
THEOREM Invariance == Spec => []IInv
BY InitIInv, NextIInv, PTL DEF Spec

\* The registry is well typed in every reachable state.
THEOREM TypeCorrect == Spec => []TypeOK
<1>1. IInv => TypeOK
  BY DEF IInv
<1> QED
  BY <1>1, Invariance, PTL

\* A user the map places in a room always has a seat in that room, so no
\* message of a mapped user is stored under room id 0.
THEOREM AlwaysSeated == Spec => []MappedIsSeated
<1>1. IInv => MappedIsSeated
  BY DEF IInv
<1> QED
  BY <1>1, Invariance, PTL

\* Rooms stay active only while they have members.
THEOREM NeverEmpty == Spec => []NoEmptyRoom
<1>1. IInv => NoEmptyRoom
  BY DEF IInv
<1> QED
  BY <1>1, Invariance, PTL

\* The in-memory rooms never drift from the table.
THEOREM AlwaysMirrors == Spec => []RoomMirrorsRow
<1>1. IInv => RoomMirrorsRow
  BY DEF IInv
<1> QED
  BY <1>1, Invariance, PTL

\* What a user shares with the registry only depends on its entry and seats.
LEMMA PlaceIsKept ==
  ASSUME NEW u \in Users, MovesOnly(u), NEW v \in Users, v # u
  PROVE  Place(v)' = Place(v)
<1>1. {userToRoomMap'[x] : x \in DOMAIN userToRoomMap' \cap {v}}
        = {userToRoomMap[x] : x \in DOMAIN userToRoomMap \cap {v}}
  BY DEF MovesOnly
<1>2. \A q : (q \in DOMAIN activeRooms' /\ v \in Members(q)')
                <=> (q \in DOMAIN activeRooms /\ v \in Members(q))
  BY DEF MovesOnly, SeatIn, Members
<1>3. {q \in DOMAIN activeRooms' : v \in Members(q)'}
        = {q \in DOMAIN activeRooms : v \in Members(q)}
  BY <1>2
<1>4. \A q \in {x \in DOMAIN activeRooms : v \in Members(x)} :
        activeRooms'[q].members[v] = activeRooms[q].members[v]
  BY DEF MovesOnly, SeatIn, Members
<1>5. {<<q, activeRooms'[q].members[v]>> :
          q \in {x \in DOMAIN activeRooms' : v \in Members(x)'}}
        = {<<q, activeRooms[q].members[v]>> :
            q \in {x \in DOMAIN activeRooms : v \in Members(x)}}
  BY <1>3, <1>4
<1> QED
  BY <1>1, <1>5 DEF Place

\* No operation of the registry, in whatever order they run, moves a user
\* other than the one it is for (RoomService.cpp:20-46, 60-73, 96-103, 161-182).
THEOREM OneUserMoves == Spec => OneUserPerStep
<1>1. IInv /\ [Next]_vars =>
        [\A u, v \in Users :
           Place(u)' # Place(u) /\ Place(v)' # Place(v) => u = v]_vars
  <2> SUFFICES ASSUME IInv, Next, NEW v \in Users, NEW w \in Users,
                      Place(v)' # Place(v), Place(w)' # Place(w)
               PROVE  v = w
    BY DEF vars
  <2>1. CASE UNCHANGED seating
    BY <2>1 DEF seating, Place, Members
  <2>2. ASSUME NEW u \in Users, MovesOnly(u)
        PROVE  v = w
    BY <2>2, PlaceIsKept
  <2> QED
    BY <2>1, <2>2, StepMoves DEF IInv
<1> QED
  BY <1>1, Invariance, PTL DEF Spec, OneUserPerStep

\* A seat in a room that is not the user's own comes from a CREATE and from
\* nothing else (RoomService.cpp:98).
THEOREM GhostsFromCreate == Spec => GhostsOnlyFromCreate
<1>1. IInv /\ [Next]_vars =>
        [\A u \in Users, r \in RoomNames :
           Ghost(u, r)' /\ ~Ghost(u, r) =>
             \E q \in RoomNames : <<u, q>> \in creating \ creating']_vars
  <2> SUFFICES ASSUME IInv, Next, NEW v \in Users, NEW r \in RoomNames,
                      Ghost(v, r)', ~Ghost(v, r)
               PROVE  \E q \in RoomNames : <<v, q>> \in creating \ creating'
    BY DEF vars
  <2>1. CASE UNCHANGED seating
    BY <2>1 DEF seating, Ghost, Members
  <2>2. ASSUME NEW u \in Users, MovesOnly(u), u # v
        PROVE  FALSE
    BY <2>2 DEF MovesOnly, SeatIn, Ghost, Members
  <2>3. CASE AddsNoGhost(v)
    BY <2>3 DEF AddsNoGhost, SeatIn, Ghost, Members
  <2> QED
    BY <2>1, <2>2, <2>3, StepMoves DEF IInv
<1> QED
  BY <1>1, Invariance, PTL DEF Spec, GhostsOnlyFromCreate
=============================================================================
