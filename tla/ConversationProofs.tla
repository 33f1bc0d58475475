------------------------- MODULE ConversationProofs -------------------------
(***************************************************************************)
(* Clients and server talking, for any number of users, rooms, lines and   *)
(* texts.                                                                  *)
(*                                                                         *)
(* The server's requests are steps of the room registry, so what           *)
(* RoomServiceProofs shows of it holds here.  What a client takes its room *)
(* to be follows the answers on their way to it (Agrees); what it has been *)
(* shown, together with the frames on their way, is up to date unless it   *)
(* is about to ask for the history (Caught); no frame has more messages    *)
(* than a client asks for (FramesFit); and the lines a user has sent are   *)
(* those answered, those whose answers are on their way, and those that    *)
(* wait (Accounted).                                                       *)
(***************************************************************************)
EXTENDS Conversation, ContainerTheorems, WellFoundedInduction

RSP == INSTANCE RoomServiceProofs WITH Sessions <- Users

-----------------------------------------------------------------------------
(* Types, and the room registry.                                           *)

Frames == [what : Kinds, room : RoomNames, of : SUBSET DOMAIN messages, text : Nat]

Wired ==
  /\ messages \in Seq(Message)
  /\ toServer \in [Users -> Seq(Request)]
  /\ toClient \in [Users -> Seq(Frames)]
  /\ serving \subseteq Users /\ reading \subseteq Users /\ misled \subseteq Users
  /\ currentRoom \in [Users -> RoomNames]
  /\ lines \in [Users -> 0..MaxLines] /\ answered \in [Users -> Nat]
  /\ longest \in Nat
  /\ seen \in [Users -> SUBSET DOMAIN messages]

Inv == RSP!IInv /\ Wired

\* The room registry is the one RoomServiceProofs is about.
LEMMA SameRooms ==
  /\ RS!Init <=> RSP!Init
  /\ RS!TypeOK <=> RSP!TypeOK
  /\ [RS!Next]_(RS!vars) <=> [RSP!Next]_(RSP!vars)
<1>1. RS!Init <=> RSP!Init
  BY DEF RS!Init, RSP!Init, RS!Row, RSP!Row, RS!MapsInto, RSP!MapsInto, RS!NoEntries,
         RSP!NoEntries
<1>2. RS!TypeOK <=> RSP!TypeOK
  BY DEF RS!TypeOK, RSP!TypeOK, RS!Row, RSP!Row, RS!ActiveRoom, RSP!ActiveRoom,
         RS!MapsInto, RSP!MapsInto, RS!IsMap, RSP!IsMap
<1>3. [RS!Next]_(RS!vars) <=> [RSP!Next]_(RSP!vars)
  BY DEF RS!Next, RSP!Next, RS!vars, RSP!vars, RS!tables, RSP!tables, RS!seating,
         RSP!seating, RS!Known, RSP!Known, RS!RowOf, RSP!RowOf, RS!FreshIds, RSP!FreshIds,
         RS!Insert, RSP!Insert, RS!AddRoom, RSP!AddRoom, RS!AddRoomUnacknowledged,
         RSP!AddRoomUnacknowledged, RS!DropMember, RSP!DropMember, RS!DropCurrent,
         RSP!DropCurrent, RS!NewEntry, RSP!NewEntry, RS!JoinRoom, RSP!JoinRoom,
         RS!LeaveRoom, RSP!LeaveRoom, RS!CreateRoom, RSP!CreateRoom, RS!HandleDisconnect,
         RSP!HandleDisconnect, RS!Put, RSP!Put, RS!Erase, RSP!Erase, RS!Restrict,
         RSP!Restrict, RS!NoEntries, RSP!NoEntries
<1> QED
  BY <1>1, <1>2, <1>3

\* Steps of RoomService keep the invariant of the room registry.
LEMMA RoomsKept ==
  ASSUME RSP!IInv, [RS!Next]_(RS!vars)
  PROVE  RSP!IInv'
<1>1. Collate \in [RoomNames -> RoomNames] /\ LongNames \subseteq RoomNames
  BY ConversationAssumption DEF ConversationAssumption
<1> QED
  BY <1>1, SameRooms, RSP!NextIInv DEF RSP!NamesAssumption

\* A request names a room, or has a text of its own.
Texts == {"public", "private"}

\* The request a user's session reads is one a client sends.
LEMMA Heads ==
  ASSUME Wired, NEW u \in Users, toServer[u] # <<>>
  PROVE  /\ Head(toServer[u]) \in Request
         /\ Head(toServer[u]).op \notin Texts => Asked(u) \in RoomNames
         /\ Tail(toServer[u]) \in Seq(Request)
         /\ \A i \in DOMAIN toServer[u] : toServer[u][i] \in Request
<1>1. toServer[u] \in Seq(Request)
  BY DEF Wired
<1>2. Head(toServer[u]) \in Request /\ Tail(toServer[u]) \in Seq(Request)
  BY <1>1
<1>3. Head(toServer[u]).op \notin Texts => Asked(u) \in RoomNames
  BY <1>2 DEF Request, Asked, Texts
<1> QED
  BY <1>1, <1>2, <1>3

\* What was typed of it has a length.
LEMMA TypedIsLength ==
  ASSUME NEW request \in Request
  PROVE  Typed(request) \in Nat
BY ConversationAssumption DEF ConversationAssumption, Request, Typed

\* The session that reads a request has one.
LEMMA ReadsHead ==
  ASSUME Wired, NEW u \in Users, NEW op, Reads(u, op)
  PROVE  /\ u \in serving /\ creating = {} /\ toServer[u] # <<>> /\ Head(toServer[u]).op = op
         /\ op \notin Texts => Asked(u) \in RoomNames
<1>1. u \in serving /\ creating = {} /\ toServer[u] # <<>> /\ Head(toServer[u]).op = op
  BY DEF Reads, Ready
<1> QED
  BY <1>1, Heads

\* Every request is served by a step of the room registry, or by none.
LEMMA StepsOfRooms ==
  ASSUME Inv, [Next]_vars
  PROVE  [RS!Next]_(RS!vars)
<1>1. CASE UNCHANGED vars
  BY <1>1 DEF vars, registry, RS!vars
<1>2. ASSUME NEW u \in Users, Type(u) \/ Hear(u) \/ GoDeaf(u) \/ Drop(u) PROVE UNCHANGED RS!vars
  BY <1>2 DEF Type, TypeRoom, TypeLeave, TypeText, TypePrivate, SendLine, Hear, GoDeaf, Drop, registry,
              RS!vars
<1>3. ASSUME NEW u \in Users, Serve(u) PROVE [RS!Next]_(RS!vars)
  <2>1. CASE Join(u)
    <3>1. Asked(u) \in RoomNames
      BY <2>1, ReadsHead DEF Join, Texts, Inv
    <3> QED
      BY <2>1, <3>1 DEF Join, RS!Next
  <2>2. CASE Leave(u)
    <3>1. Asked(u) \in RoomNames
      BY <2>2, ReadsHead DEF Leave, Texts, Inv
    <3> QED
      BY <2>2, <3>1 DEF Leave, RS!Next
  <2>3. CASE AddRoom(u)
    <3>1. Asked(u) \in RoomNames
      BY <2>3, ReadsHead DEF AddRoom, Texts, Inv
    <3> QED
      BY <2>3, <3>1 DEF AddRoom, RS!Next
  <2>4. CASE Create(u)
    <3>1. PICK r \in RoomNames : RS!CreateRoom(u, u, r, RS!RowOf(r).id)
      BY <2>4 DEF Create
    <3>2. <<u, r>> \in creating
      BY <3>1 DEF RS!CreateRoom
    <3>3. RS!Known(r)
      BY <3>2 DEF Inv, RSP!IInv, RSP!CreatingIsStored, RSP!Known, RS!Known
    <3> QED
      BY <3>1, <3>3 DEF RS!Next
  <2>5. CASE Refuse(u)
    BY <2>5, ConversationAssumption DEF ConversationAssumption, Refuse, RS!Next
  <2>6. CASE \/ JoinUnknown(u) \/ CreateTaken(u) \/ Say(u) \/ SayNowhere(u) \/ Whisper(u)
             \/ WhisperFails(u) \/ History(u) \/ HistoryDenied(u)
    BY <2>6 DEF JoinUnknown, CreateTaken, Say, SayNowhere, Whisper, WhisperFails, History,
                HistoryDenied, registry, RS!vars
  <2> QED
    BY <1>3, <2>1, <2>2, <2>3, <2>4, <2>5, <2>6 DEF Serve
<1> QED
  BY <1>1, <1>2, <1>3 DEF Next

\* Queues of frames grow by the frames a step sends; the frames on their way
\* stay frames when the table grows.
LEMMA FramesStay ==
  ASSUME Wired, messages' = messages
  PROVE  Frames' = Frames
BY DEF Frames

\* Everybody gets the frame of a broadcast or none, and u gets its answer.
Sent(u, frame, answer) ==
  /\ toClient' \in [Users -> Seq(Frames)]
  /\ toClient'[u] = Append(toClient[u], answer)
  /\ \A v \in Users \ {u} : \/ toClient'[v] = toClient[v]
                            \/ toClient'[v] = Append(toClient[v], frame)

\* What a broadcast and an answer do to the queues.
LEMMA BroadcastSends ==
  ASSUME Wired, NEW u \in Users, NEW members, NEW frame \in Frames, NEW answer \in Frames,
         BroadcastAndAnswer(u, members, frame, answer)
  PROVE  Sent(u, frame, answer)
<1> DEFINE more(v) == IF v \in members \ {u} THEN <<frame>> ELSE <<>>
           mine(v) == IF v = u THEN <<answer>> ELSE <<>>
<1>1. toClient' = [v \in Users |-> toClient[v] \o more(v) \o mine(v)]
  BY DEF BroadcastAndAnswer
<1>2. ASSUME NEW v \in Users
      PROVE  /\ toClient[v] \o more(v) \o mine(v) \in Seq(Frames)
             /\ v = u => toClient[v] \o more(v) \o mine(v) = Append(toClient[v], answer)
             /\ v # u /\ v \in members =>
                  toClient[v] \o more(v) \o mine(v) = Append(toClient[v], frame)
             /\ v # u /\ v \notin members =>
                  toClient[v] \o more(v) \o mine(v) = toClient[v]
  <2>1. PICK q : q = toClient[v]
    OBVIOUS
  <2>2. q \in Seq(Frames)
    BY <2>1 DEF Wired
  <2>3. /\ q \o <<>> = q /\ q \o <<answer>> = Append(q, answer)
        /\ q \o <<frame>> = Append(q, frame)
        /\ Append(q, answer) \in Seq(Frames) /\ Append(q, frame) \in Seq(Frames)
        /\ Append(q, frame) \o <<>> = Append(q, frame)
    BY <2>2
  <2> QED
    BY <2>1, <2>2, <2>3
<1> QED
  BY <1>1, <1>2 DEF Sent

\* A queue that is answered, and a request that is taken.
LEMMA AnswerSends ==
  ASSUME Wired, NEW u \in Users, NEW answer \in Frames, Answer(u, answer)
  PROVE  Sent(u, answer, answer) /\ \A v \in Users \ {u} : toClient'[v] = toClient[v]
<1>1. toClient \in [Users -> Seq(Frames)] /\ toClient' = [toClient EXCEPT ![u] = Append(@, answer)]
  BY DEF Wired, Answer, Add
<1> QED
  BY <1>1 DEF Sent

\* A request that is taken leaves its user's queue, and no other.
LEMMA TakenType ==
  ASSUME Wired, NEW u \in Users, toServer[u] # <<>>, Taken(u)
  PROVE  /\ toServer' \in [Users -> Seq(Request)]
         /\ toServer'[u] = Tail(toServer[u])
         /\ \A v \in Users \ {u} : toServer'[v] = toServer[v]
<1>1. /\ toServer \in [Users -> Seq(Request)] /\ Tail(toServer[u]) \in Seq(Request)
      /\ toServer' = [toServer EXCEPT ![u] = Tail(@)]
  BY Heads DEF Wired, Taken
<1> QED
  BY <1>1

\* A request that is answered leaves the queues queues of frames and requests.
LEMMA ServedWired ==
  ASSUME Wired, NEW u \in Users, toServer[u] # <<>>, Taken(u),
         toClient' \in [Users -> Seq(Frames)], UNCHANGED <<messages, client>>,
         serving' \subseteq serving
  PROVE  Wired'
<1>1. Frames' = Frames
  BY DEF Frames
<1> QED
  BY <1>1, TakenType DEF Wired, client

\* A line a user may type is a request.
LEMMA LineWired ==
  ASSUME Wired, NEW u \in Users, NEW request \in Request, SendLine(u, request)
  PROVE  /\ Wired'
         /\ toServer'[u] = Append(toServer[u], request)
         /\ \A v \in Users \ {u} : toServer'[v] = toServer[v]
<1>1. /\ toServer \in [Users -> Seq(Request)]
      /\ toServer' = [toServer EXCEPT ![u] = Append(@, request)]
      /\ Frames' = Frames
  BY DEF Wired, SendLine, Add, Frames
<1>2. lines' = [lines EXCEPT ![u] = @ + 1] /\ lines[u] + 1 \in 0..MaxLines
  BY ConversationAssumption DEF ConversationAssumption, Wired, SendLine
<1>3. longest' \in Nat
  BY TypedIsLength DEF Wired, SendLine
<1> QED
  BY <1>1, <1>2, <1>3 DEF Wired, SendLine

\* What a user types is a line: a request, which names the room the client takes
\* the user to be in if it is a LEAVE.
LEMMA TypedLine ==
  ASSUME Wired, NEW u \in Users, Type(u)
  PROVE  \E request \in Request :
            /\ SendLine(u, request)
            /\ request.op # "history"
            /\ request.op = "leave" => request.room = currentRoom[u] /\ currentRoom[u] # NoRoom
<1>1. ASSUME NEW op \in {"create", "join"}, NEW r \in RoomNames, TypeRoom(u, op, r)
      PROVE  \E request \in Request :
                /\ SendLine(u, request)
                /\ request.op # "history" /\ request.op # "leave"
  <2>1. PICK request : request = [op |-> op, room |-> r]
    OBVIOUS
  <2>2. SendLine(u, request) /\ request \in Request /\ request.op = op
    BY <1>1, <2>1 DEF TypeRoom, Request
  <2> QED
    BY <2>2
<1>2. CASE TypeLeave(u)
  <2>1. PICK request : request = [op |-> "leave", room |-> currentRoom[u]]
    OBVIOUS
  <2>2. SendLine(u, request) /\ request \in Request /\ request.op = "leave"
    BY <1>2, <2>1 DEF TypeLeave, Request, Wired
  <2> QED
    BY <1>2, <2>1, <2>2 DEF TypeLeave
<1>3. ASSUME NEW len \in Lengths, TypeText(u, len)
      PROVE  \E request \in Request :
                /\ SendLine(u, request)
                /\ request.op # "history" /\ request.op # "leave"
  <2>1. PICK request : request = [op |-> "public", len |-> len]
    OBVIOUS
  <2>2. SendLine(u, request) /\ request \in Request /\ request.op = "public"
    BY <1>3, <2>1 DEF TypeText, Request
  <2> QED
    BY <2>2
<1>4. ASSUME NEW whisper \in Whispers, TypePrivate(u, whisper[1], whisper[2])
      PROVE  \E request \in Request :
                /\ SendLine(u, request)
                /\ request.op # "history" /\ request.op # "leave"
  <2>1. PICK request : request = [op |-> "private", to |-> whisper[1], len |-> whisper[2]]
    OBVIOUS
  <2>2. whisper[1] \in Users \cup {Nobody} /\ whisper[2] \in Lengths
    BY ConversationAssumption DEF ConversationAssumption
  <2>3. SendLine(u, request) /\ request \in Request /\ request.op = "private"
    BY <1>4, <2>1, <2>2 DEF TypePrivate, Request
  <2> QED
    BY <2>3
<1> QED
  BY <1>1, <1>2, <1>3, <1>4 DEF Type

\* Answers that tell of no room, from the requests that got nothing else.
Curt(u) == JoinUnknown(u) \/ SayNowhere(u) \/ WhisperFails(u)

\* They repeat at most what was typed.
LEMMA CurtAnswers ==
  ASSUME Wired, NEW u \in Users, Curt(u)
  PROVE  /\ toServer[u] # <<>> /\ Taken(u) /\ Head(toServer[u]).op \in Texts \cup {"join"}
         /\ UNCHANGED <<registry, messages, serving, client>>
         /\ \E f \in Frames :
              /\ Answer(u, f) /\ f.what \in {"unknown", "error"}
              /\ f.room = NoRoom /\ f.of = {}
              /\ f.text = 0 \/ f.text = Typed(Head(toServer[u]))
<1>1. /\ NoRoom \in RoomNames /\ NameLength \in [RoomNames -> Nat] /\ Lengths \subseteq Nat
      /\ {"unknown", "error"} \subseteq Kinds
  BY ConversationAssumption DEF ConversationAssumption, Kinds
<1>2. ASSUME NEW what \in {"unknown", "error"}, NEW n \in Nat
      PROVE  /\ Echo(what, NoRoom, n) \in Frames /\ Echo(what, NoRoom, n).what = what
             /\ Echo(what, NoRoom, n).room = NoRoom /\ Echo(what, NoRoom, n).of = {}
             /\ Echo(what, NoRoom, n).text = n
  BY <1>1 DEF Echo, Frames
<1>3. toServer[u] # <<>> => Head(toServer[u]) \in Request
  BY Heads
<1>4. CASE JoinUnknown(u)
  <2>1. /\ toServer[u] # <<>> /\ Taken(u) /\ Head(toServer[u]).op = "join"
        /\ UNCHANGED <<registry, messages, serving, client>>
        /\ Asked(u) \in RoomNames
    BY <1>4, ReadsHead DEF JoinUnknown, Texts
  <2>2. NameLength[Asked(u)] \in Nat /\ NameLength[Asked(u)] = Typed(Head(toServer[u]))
    BY <1>1, <2>1 DEF Typed, Asked
  <2>3. Answer(u, Echo("unknown", NoRoom, NameLength[Asked(u)]))
    BY <1>4 DEF JoinUnknown
  <2> QED
    BY <1>2, <2>1, <2>2, <2>3
<1>5. CASE SayNowhere(u)
  <2>1. /\ toServer[u] # <<>> /\ Taken(u) /\ Head(toServer[u]).op \in Texts
        /\ UNCHANGED <<registry, messages, serving, client>>
    BY <1>5, ReadsHead DEF SayNowhere, Texts
  <2>2. Answer(u, Frame("error", NoRoom, {}))
    BY <1>5 DEF SayNowhere
  <2>3. Frame("error", NoRoom, {}) = Echo("error", NoRoom, 0)
    BY DEF Frame, Echo
  <2> QED
    BY <1>2, <2>1, <2>2, <2>3
<1>6. CASE WhisperFails(u)
  <2>1. /\ toServer[u] # <<>> /\ Taken(u) /\ Head(toServer[u]).op = "private"
        /\ UNCHANGED <<registry, messages, serving, client>>
    BY <1>6, ReadsHead DEF WhisperFails
  <2>2. Head(toServer[u]).len \in Nat /\ Head(toServer[u]).len = Typed(Head(toServer[u]))
    BY <1>1, <1>3, <2>1 DEF Request, Typed
  <2>3. PICK n : n = IF Head(toServer[u]).to = Nobody THEN Head(toServer[u]).len ELSE 0
    OBVIOUS
  <2>4. Answer(u, Echo("error", NoRoom, n))
    BY <1>6, <2>3 DEF WhisperFails
  <2>5. n \in Nat /\ (n = 0 \/ n = Typed(Head(toServer[u])))
    BY <2>2, <2>3
  <2> QED
    BY <1>2, <2>1, <2>4, <2>5 DEF Texts
<1> QED
  BY <1>4, <1>5, <1>6 DEF Curt

\* What is sent where a message is said: it goes to the table and to the room.
Spoken(u, m) ==
  /\ m \in Message /\ m.from = u /\ m.id = RS!CurrentRoomId(u, NoRoom)
  /\ messages' = Append(messages, m)
  /\ \A v \in Users : toClient'[v] =
       IF v \in Audience(u)
         THEN Append(toClient[v], Frame("message", RS!CurrentRoomName(u, NoRoom),
                                        {Len(messages) + 1}))
         ELSE toClient[v]

\* A user who is in a room has a seat in it, and the room's id is its row's.
LEMMA InRoom ==
  ASSUME RSP!IInv, NEW u \in Users, u \in DOMAIN userToRoomMap
  PROVE  LET r == userToRoomMap[u]
         IN /\ RS!CurrentRoomName(u, NoRoom) = r /\ r \in RoomNames
            /\ r \in DOMAIN activeRooms /\ u \in DOMAIN activeRooms[r].members
            /\ RS!CurrentRoomId(u, NoRoom) = activeRooms[r].id
            /\ activeRooms[r].id \in RoomIds
            /\ Collate[r] \in DOMAIN rooms /\ rooms[Collate[r]].id = activeRooms[r].id
<1>1. PICK r : r = userToRoomMap[u]
  OBVIOUS
<1>2. r \in RoomNames /\ r \in DOMAIN activeRooms /\ u \in DOMAIN activeRooms[r].members
  BY <1>1 DEF RSP!IInv, RSP!TypeOK, RSP!IsMap, RSP!MappedIsSeated, RSP!Members
<1>3. activeRooms[r].id \in RoomIds
  BY <1>2 DEF RSP!IInv, RSP!TypeOK, RSP!IsMap, RSP!ActiveRoom
<1>4. Collate[r] \in DOMAIN rooms /\ rooms[Collate[r]].id = activeRooms[r].id
  BY <1>2 DEF RSP!IInv, RSP!RoomMirrorsRow, RSP!Known, RSP!RowOf
<1> QED
  BY <1>1, <1>2, <1>3, <1>4 DEF RS!CurrentRoomName, RS!CurrentRoomId

\* A text of a user who is in a room is said there, and to all who have a seat.
LEMMA SayWired ==
  ASSUME Inv, NEW u \in Users, Say(u)
  PROVE  /\ Wired'
         /\ u \in DOMAIN userToRoomMap
         /\ DOMAIN messages' = DOMAIN messages \cup {Len(messages) + 1}
         /\ \E m : Spoken(u, m)
<1>1. /\ u \in DOMAIN userToRoomMap /\ toServer[u] # <<>> /\ Taken(u)
      /\ Head(toServer[u]).op = "public" /\ UNCHANGED <<serving, client>>
  BY ReadsHead DEF Say, Inv, RS!CurrentRoomName
<1>2. PICK r : r = RS!CurrentRoomName(u, NoRoom)
  OBVIOUS
<1>3. r \in RoomNames /\ RS!CurrentRoomId(u, NoRoom) \in RoomIds
  BY <1>1, <1>2, InRoom DEF Inv
<1>4. messages \in Seq(Message) /\ Len(messages) \in Nat
  BY DEF Inv, Wired
<1>5. \A at \in Times : at \in Nat
  <2>1. CASE messages = <<>>
    BY <2>1 DEF Times
  <2>2. CASE messages # <<>>
    <3>1. Last(messages) \in Message
      BY <1>4, <2>2 DEF Last
    <3> QED
      BY <2>2, <3>1 DEF Times, Message
  <2> QED
    BY <2>1, <2>2
<1>6. Head(toServer[u]).len \in Nat
  <2>1. Head(toServer[u]) \in Request
    BY <1>1, Heads DEF Inv
  <2> QED
    BY <1>1, <2>1, ConversationAssumption DEF ConversationAssumption, Request
<1>7. PICK at \in Times :
        messages' = Append(messages, [id |-> RS!CurrentRoomId(u, NoRoom), from |-> u,
                                      len |-> Head(toServer[u]).len, at |-> at])
  BY DEF Say
<1>8. PICK m : m = [id |-> RS!CurrentRoomId(u, NoRoom), from |-> u,
                    len |-> Head(toServer[u]).len, at |-> at]
  OBVIOUS
<1>9. /\ m \in Message /\ m.from = u /\ m.id = RS!CurrentRoomId(u, NoRoom)
      /\ messages' = Append(messages, m)
  BY <1>3, <1>5, <1>6, <1>7, <1>8 DEF Message
<1>10. /\ messages' \in Seq(Message)
       /\ DOMAIN messages' = DOMAIN messages \cup {Len(messages) + 1}
  BY <1>4, <1>9
<1>11. PICK f : f = Frame("message", r, {Len(messages) + 1})
  OBVIOUS
<1>12. f \in Frames' /\ Frames \subseteq Frames'
  BY <1>3, <1>10, <1>11 DEF Frame, Frames, Kinds
<1>13. toClient' = [v \in Users |-> IF v \in Audience(u) THEN Append(toClient[v], f)
                                                         ELSE toClient[v]]
  BY <1>2, <1>11 DEF Say
<1>14. \A v \in Users : toClient[v] \in Seq(Frames')
  <2>1. ASSUME NEW v \in Users PROVE toClient[v] \in Seq(Frames')
    <3>1. toClient[v] \in Seq(Frames)
      BY DEF Inv, Wired
    <3>2. \A i \in DOMAIN toClient[v] : toClient[v][i] \in Frames'
      BY <1>12, <3>1
    <3> QED
      BY <3>1, <3>2
  <2> QED
    BY <2>1
<1>15. toClient' \in [Users -> Seq(Frames')]
  <2>1. \A v \in Users : Append(toClient[v], f) \in Seq(Frames')
    BY <1>12, <1>14
  <2> QED
    BY <1>13, <1>14, <2>1
<1>16. \A v \in Users : seen[v] \subseteq DOMAIN messages'
  BY <1>10 DEF Inv, Wired
<1>17. Wired'
  BY <1>1, <1>10, <1>15, <1>16, TakenType DEF Inv, Wired, client
<1>18. Spoken(u, m)
  BY <1>2, <1>9, <1>11, <1>13 DEF Spoken
<1> QED
  BY <1>1, <1>10, <1>17, <1>18

\* A private message is heard by both, and stored nowhere.
LEMMA WhisperSends ==
  ASSUME Inv, NEW u \in Users, Whisper(u)
  PROVE  /\ toServer[u] # <<>> /\ Taken(u) /\ Head(toServer[u]).op = "private"
         /\ UNCHANGED <<registry, messages, serving, client>>
         /\ u \in DOMAIN userToRoomMap
         /\ \E f, g \in Frames :
              /\ Sent(u, f, g) /\ f.what = "whisper" /\ g.what = "whispered"
              /\ \A h \in {f, g} : /\ h.of = {} /\ h.text = Typed(Head(toServer[u]))
                                   /\ h.room = userToRoomMap[u]
<1> USE DEF Inv
<1>1. /\ toServer[u] # <<>> /\ Taken(u) /\ Head(toServer[u]).op = "private"
      /\ UNCHANGED <<registry, messages, serving, client>>
      /\ u \in DOMAIN userToRoomMap
  BY ReadsHead DEF Whisper, RS!CurrentRoomName
<1>2. PICK r : r = userToRoomMap[u]
  OBVIOUS
<1>3. RS!CurrentRoomName(u, NoRoom) = r /\ r \in RoomNames
  BY <1>1, <1>2, InRoom
<1>4. PICK n : n = Typed(Head(toServer[u]))
  OBVIOUS
<1>5. n \in Nat /\ n = Head(toServer[u]).len
  BY <1>1, <1>4, Heads, TypedIsLength DEF Typed
<1>6. PICK f, g : f = Echo("whisper", r, n) /\ g = Echo("whispered", r, n)
  OBVIOUS
<1>7. /\ f \in Frames /\ g \in Frames /\ f.what = "whisper" /\ g.what = "whispered"
      /\ \A h \in {f, g} : h.of = {} /\ h.text = n /\ h.room = r
  BY <1>3, <1>5, <1>6 DEF Echo, Frames, Kinds
<1>8. \E members : BroadcastAndAnswer(u, members, f, g)
  BY <1>3, <1>5, <1>6 DEF Whisper
<1>9. Sent(u, f, g)
  BY <1>7, <1>8, BroadcastSends
<1> QED
  BY <1>1, <1>2, <1>4, <1>7, <1>9

\* A client that hears a frame knows more; one that has joined asks for more.
LEMMA HearWired ==
  ASSUME Wired, NEW u \in Users, Hear(u)
  PROVE  /\ Wired'
         /\ toClient'[u] = Tail(toClient[u])
         /\ \A v \in Users \ {u} : toClient'[v] = toClient[v]
         /\ Head(toClient[u]) \in Frames
<1>1. PICK f : f = Head(toClient[u])
  OBVIOUS
<1>2. toClient[u] \in Seq(Frames) /\ toClient[u] # <<>>
  BY DEF Wired, Hear, Arrives
<1>3. f \in Frames /\ Tail(toClient[u]) \in Seq(Frames)
  BY <1>1, <1>2
<1>4. /\ f.room \in RoomNames /\ f.of \subseteq DOMAIN messages
      /\ [op |-> "history", room |-> f.room] \in Request
  BY <1>3 DEF Frames, Request
<1>5. RoomAfter(currentRoom[u], f) \in RoomNames
  BY <1>4, ConversationAssumption DEF RoomAfter, Wired, ConversationAssumption
<1>6. /\ currentRoom' = [currentRoom EXCEPT ![u] = RoomAfter(@, f)]
      /\ toServer' = IF f.what = "joined"
                       THEN Add(toServer, u, [op |-> "history", room |-> f.room]) ELSE toServer
      /\ seen' = [seen EXCEPT ![u] = @ \cup f.of]
      /\ answered' = [answered EXCEPT ![u] = IF IsAnswer(u, f) THEN @ + 1 ELSE @]
      /\ misled' \in {misled, misled \cup {u}, misled \ {u}}
      /\ toClient' = [toClient EXCEPT ![u] = Tail(@)]
      /\ UNCHANGED <<messages, serving, reading, lines, longest>>
  BY <1>1 DEF Hear
<1>7. currentRoom' \in [Users -> RoomNames] /\ seen' \in [Users -> SUBSET DOMAIN messages']
  BY <1>4, <1>5, <1>6 DEF Wired
<1>8. toServer' \in [Users -> Seq(Request)]
  <2>1. Append(toServer[u], [op |-> "history", room |-> f.room]) \in Seq(Request)
    BY <1>4 DEF Wired
  <2> QED
    BY <1>6, <2>1 DEF Wired, Add
<1>9. toClient' \in [Users -> Seq(Frames')]
  BY <1>3, <1>6 DEF Wired, Frames
<1>10. answered' \in [Users -> Nat]
  BY <1>6 DEF Wired
<1> QED
  BY <1>1, <1>3, <1>6, <1>7, <1>8, <1>9, <1>10 DEF Wired

\* A frame too long leaves the queue, and that is all.
LEMMA DeafWired ==
  ASSUME Wired, NEW u \in Users, GoDeaf(u)
  PROVE  Wired'
<1>1. toClient[u] \in Seq(Frames) /\ toClient[u] # <<>> /\ Frames' = Frames
  BY DEF Wired, GoDeaf, Arrives, Frames
<1>2. Tail(toClient[u]) \in Seq(Frames)
  BY <1>1
<1> QED
  BY <1>1, <1>2 DEF Wired, GoDeaf

\* The queues hold requests and frames, the table messages.
LEMMA WiredKept ==
  ASSUME Inv, [Next]_vars
  PROVE  Wired'
<1>1. CASE UNCHANGED vars
  BY <1>1 DEF vars, wires, client, Inv, Wired, Frames
<1>2. ASSUME NEW u \in Users, Type(u) PROVE Wired'
  BY <1>2, TypedLine, LineWired DEF Inv
<1>3. ASSUME NEW u \in Users, Hear(u) PROVE Wired'
  BY <1>3, HearWired DEF Inv
<1>4. ASSUME NEW u \in Users, GoDeaf(u) PROVE Wired'
  BY <1>4, DeafWired DEF Inv
<1>6. ASSUME NEW u \in Users, Drop(u) PROVE Wired'
  BY <1>6 DEF Drop, Inv, Wired, Frames, wires
<1>5. ASSUME NEW u \in Users, Serve(u) PROVE Wired'
  <2> USE DEF Inv
  <2>1. ASSUME NEW what \in Kinds, NEW r \in RoomNames
        PROVE  Frame(what, r, {}) \in Frames
    BY DEF Frame, Frames
  <2>2. NoRoom \in RoomNames
    BY ConversationAssumption DEF ConversationAssumption
  <2>3. \A what \in {"joined", "unknown", "left", "created", "taken", "error", "notice"} :
          what \in Kinds
    BY DEF Kinds
  <2>4. \A op \in {"join", "leave", "create", "history"} :
          Reads(u, op) => toServer[u] # <<>> /\ Asked(u) \in RoomNames
    BY ReadsHead DEF Texts
  <2>5. CASE Join(u)
    BY <2>5, <2>1, <2>3, <2>4, BroadcastSends, ServedWired DEF Join, Sent
  <2>6. CASE Leave(u)
    BY <2>6, <2>1, <2>3, <2>4, BroadcastSends, ServedWired DEF Leave, Sent
  <2>7. CASE Curt(u)
    BY <2>7, CurtAnswers, AnswerSends, ServedWired DEF Sent
  <2>8. CASE CreateTaken(u)
    BY <2>8, <2>1, <2>3, <2>4, AnswerSends, ServedWired DEF CreateTaken, Sent
  <2>9. CASE AddRoom(u)
    BY <2>9 DEF AddRoom, Wired, wires, client, Frames
  <2>10. CASE Create(u)
    BY <2>10, <2>1, <2>3, AnswerSends, ServedWired DEF Create, Sent
  <2>11. CASE Say(u)
    BY <2>11, SayWired
  <2>12. CASE Whisper(u)
    BY <2>12, WhisperSends, ServedWired DEF Sent
  <2>13. CASE Refuse(u)
    <3>1. toServer[u] # <<>> /\ Taken(u) /\ serving' \subseteq serving
      BY <2>13 DEF Refuse, Ready
    <3> QED
      BY <2>13, <3>1, ServedWired DEF Refuse, Wired
  <2>14. CASE History(u)
    <3>1. PICK of \in Latest(RS!CurrentRoomId(u, NoRoom)) : Answer(u, Frame("history", Asked(u), of))
      BY <2>14 DEF History
    <3>2. Asked(u) \in RoomNames /\ of \subseteq DOMAIN messages
      BY <2>14, <2>4 DEF History, Latest, In
    <3>3. Frame("history", Asked(u), of) \in Frames
      BY <3>2 DEF Frame, Frames, Kinds
    <3> QED
      BY <2>14, <3>1, <3>3, <2>4, AnswerSends, ServedWired DEF History, Sent
  <2>15. CASE HistoryDenied(u)
    BY <2>15, <2>4, ServedWired DEF HistoryDenied, Wired
  <2> QED
    BY <1>5, <2>5, <2>6, <2>7, <2>8, <2>9, <2>10, <2>11, <2>12, <2>13, <2>14, <2>15
       DEF Serve, Curt
<1> QED
  BY <1>1, <1>2, <1>3, <1>4, <1>5, <1>6 DEF Next

\* Init gives empty queues, and a table of messages.
LEMMA InitInv == Init => Inv
<1> SUFFICES ASSUME Init PROVE Inv
  OBVIOUS
<1>1. RSP!IInv
  <2>1. Collate \in [RoomNames -> RoomNames] /\ LongNames \subseteq RoomNames
    BY ConversationAssumption DEF ConversationAssumption
  <2> QED
    BY <2>1, SameRooms, RSP!InitIInv DEF Init, RSP!NamesAssumption
<1>2. messages \in Seq(Message)
  BY ConversationAssumption DEF ConversationAssumption, Init, Message
<1>3. longest \in Nat
  <2>1. \A i \in DOMAIN messages : messages[i] \in Message
    BY <1>2
  <2> QED
    BY <2>1 DEF Init, Message
<1>4. Wired
  BY <1>2, <1>3, ConversationAssumption DEF ConversationAssumption, Init, Wired
<1> QED
  BY <1>1, <1>4 DEF Inv

\* Every step keeps it.
LEMMA NextInv == Inv /\ [Next]_vars => Inv'
<1> SUFFICES ASSUME Inv, [Next]_vars PROVE Inv'
  OBVIOUS
<1>1. RSP!IInv'
  BY StepsOfRooms, RoomsKept DEF Inv
<1> QED
  BY <1>1, WiredKept DEF Inv

\* The queues hold requests and frames, the room registry is as RoomServiceProofs
\* says.
THEOREM Invariance == Spec => []Inv
BY InitInv, NextInv, PTL DEF Spec

-----------------------------------------------------------------------------
(* What a patient user's client takes the room to be.                      *)

RoomOf(u) == RS!CurrentRoomName(u, NoRoom)

\* The answers that tell a client of a room.
Setters == {"joined", "created", "taken", "left"}
Sets(u, i) == i \in DOMAIN toClient[u] /\ toClient[u][i].what \in Setters

\* At most one such answer is on its way to u, and none while a request is; it
\* gives the room u is in, and while there is none the client knows that room,
\* unless the refusal of a CREATE misled it.
Agrees(u) ==
  /\ Len(toServer[u]) <= 1
  /\ \A i : Sets(u, i) => toServer[u] = <<>>
  /\ \A i, j : Sets(u, i) /\ Sets(u, j) => i = j
  /\ u \notin misled /\ (\A i : ~Sets(u, i)) => currentRoom[u] = RoomOf(u)
  /\ \A i \in DOMAIN toClient[u] :
       /\ toClient[u][i].what \in {"joined", "created"} => toClient[u][i].room = RoomOf(u)
       /\ toClient[u][i].what = "left" /\ u \notin misled => RoomOf(u) = NoRoom
  /\ \A i \in DOMAIN toServer[u] :
       toServer[u][i].op = "leave" /\ u \notin misled =>
         toServer[u][i].room = RoomOf(u) /\ u \in DOMAIN userToRoomMap

AgreeInv == \A u \in Patient : Connected(u) => Agrees(u)

\* The server has u in the room it had it in.
Stays(u) ==
  /\ u \in DOMAIN userToRoomMap' <=> u \in DOMAIN userToRoomMap
  /\ u \in DOMAIN userToRoomMap => userToRoomMap'[u] = userToRoomMap[u]

\* The sections of the room registry move the user they are for.
LEMMA SectionsMove ==
  ASSUME NEW w \in Users, NEW r, NEW row, NEW id,
         \/ RS!JoinRoom(w, w, r, row) \/ RS!CreateRoom(w, w, r, id)
         \/ RS!LeaveRoom(w, r) \/ RS!HandleDisconnect(w)
  PROVE  /\ \A u \in Users \ {w} : Stays(u)
         /\ RS!JoinRoom(w, w, r, row) \/ RS!CreateRoom(w, w, r, id) =>
              w \in DOMAIN userToRoomMap' /\ userToRoomMap'[w] = r /\ RoomOf(w)' = r
         /\ RS!LeaveRoom(w, r) => \/ Stays(w) /\ ~(w \in DOMAIN userToRoomMap /\ userToRoomMap[w] = r)
                                 \/ /\ w \in DOMAIN userToRoomMap /\ userToRoomMap[w] = r
                                    /\ w \notin DOMAIN userToRoomMap' /\ RoomOf(w)' = NoRoom
BY DEF Stays, RoomOf, RS!CurrentRoomName, RS!JoinRoom, RS!CreateRoom, RS!LeaveRoom,
       RS!HandleDisconnect, RS!Put, RS!Erase, RS!Restrict, RS!seating

\* A step of the server for another user.
Overhears(u) ==
  /\ toServer'[u] = toServer[u]
  /\ \/ toClient'[u] = toClient[u]
     \/ \E f \in Frames' :
          /\ f.what \in {"notice", "message", "whisper"}
          /\ toClient'[u] = Append(toClient[u], f)
          /\ f.what = "message" => \A i \in f.of : messages'[i].from # u
  /\ Stays(u)
  /\ UNCHANGED client

\* The request of one user is, for another, a frame to overhear or nothing.
LEMMA OthersOverhear ==
  ASSUME Inv, NEW w \in Users, Serve(w), NEW u \in Users \ {w}
  PROVE  Overhears(u)
<1> USE DEF Inv
<1>1. \A op : Reads(w, op) => toServer[w] # <<>> /\ (op \notin Texts => Asked(w) \in RoomNames)
  BY ReadsHead
<1>2. /\ \A r \in RoomNames, what \in Kinds : Frame(what, r, {}) \in Frames
      /\ Frame("joined", NoRoom, {}).what = "joined" /\ NoRoom \in RoomNames
      /\ \A r : Frame("notice", r, {}).what = "notice"
  BY ConversationAssumption DEF Frame, Frames, ConversationAssumption
<1>3. {"joined", "unknown", "left", "created", "taken", "error", "notice"} \subseteq Kinds
  BY DEF Kinds
<1>4. toServer[w] # <<>> /\ Taken(w) => toServer'[u] = toServer[u]
  BY TakenType
<1>5. CASE Join(w) \/ Leave(w)
  <2>1. PICK r : r = Asked(w)
    OBVIOUS
  <2>2. /\ toServer[w] # <<>> /\ Taken(w) /\ r \in RoomNames
        /\ UNCHANGED <<messages, client>>
    BY <1>1, <1>5, <2>1 DEF Join, Leave, Texts
  <2>3. PICK what \in {"joined", "left"} : \E members :
           BroadcastAndAnswer(w, members, Frame("notice", r, {}), Frame(what, r, {}))
    BY <1>5, <2>1 DEF Join, Leave
  <2>4. Sent(w, Frame("notice", r, {}), Frame(what, r, {}))
    BY <1>2, <1>3, <2>2, <2>3, BroadcastSends
  <2>5. Stays(u)
    BY <1>5, <2>1, SectionsMove DEF Join, Leave
  <2>6. Frame("notice", r, {}) \in Frames'
    BY <1>2, <1>3, <2>2 DEF Frames
  <2> QED
    BY <1>2, <1>4, <2>2, <2>4, <2>5, <2>6 DEF Sent, Overhears
<1>6. CASE Curt(w) \/ CreateTaken(w) \/ History(w)
  <2>1. /\ toServer[w] # <<>> /\ Taken(w)
        /\ UNCHANGED <<registry, client>>
    BY <1>1, <1>6, CurtAnswers DEF CreateTaken, History
  <2>2. PICK f : Answer(w, f)
    BY <1>6, CurtAnswers DEF CreateTaken, History
  <2>3. toClient'[u] = toClient[u]
    BY <2>2 DEF Answer, Add, Wired
  <2> QED
    BY <1>4, <2>1, <2>3 DEF Overhears, Stays, registry
<1>7. CASE AddRoom(w)
  BY <1>7 DEF AddRoom, Overhears, Stays, wires, RS!AddRoom, RS!seating
<1>8. CASE Create(w)
  <2>1. PICK r \in RoomNames : /\ RS!CreateRoom(w, w, r, RS!RowOf(r).id)
                               /\ Answer(w, Frame("created", r, {}))
    BY <1>8 DEF Create
  <2>2. toClient'[u] = toClient[u]
    BY <2>1 DEF Answer, Add, Wired
  <2>3. Stays(u)
    BY <2>1, SectionsMove
  <2> QED
    BY <1>4, <1>8, <2>2, <2>3 DEF Create, Overhears
<1>9. CASE Say(w)
  <2>1. toServer[w] # <<>> /\ Taken(w) /\ UNCHANGED <<registry, client>>
    BY <1>9, ReadsHead DEF Say
  <2>2. PICK m : Spoken(w, m)
    BY <1>9, SayWired
  <2>3. PICK f : f = Frame("message", RS!CurrentRoomName(w, NoRoom), {Len(messages) + 1})
    OBVIOUS
  <2>4. f \in Frames' /\ f.what = "message" /\ f.of = {Len(messages) + 1}
    <3>1. DOMAIN messages' = DOMAIN messages \cup {Len(messages) + 1} /\ w \in DOMAIN userToRoomMap
      BY <1>9, SayWired
    <3> QED
      BY <2>3, <3>1, InRoom DEF Frame, Frames, Kinds
  <2>6. messages'[Len(messages) + 1].from # u
    BY <2>2 DEF Spoken, Wired
  <2>5. toClient'[u] \in {toClient[u], Append(toClient[u], f)}
    BY <2>2, <2>3 DEF Spoken
  <2> QED
    BY <1>4, <2>1, <2>4, <2>5, <2>6 DEF Overhears, Stays, registry
<1>10. CASE Refuse(w)
  <2>1. Stays(u)
    BY <1>10, SectionsMove DEF Refuse
  <2>2. toServer[w] # <<>> /\ Taken(w) /\ UNCHANGED <<toClient, client>>
    BY <1>10 DEF Refuse, Ready
  <2> QED
    BY <1>4, <2>1, <2>2 DEF Overhears
<1>11. CASE HistoryDenied(w)
  BY <1>1, <1>4, <1>11 DEF HistoryDenied, Overhears, Stays, registry
<1>12. CASE Whisper(w)
  <2>1. PICK f, g \in Frames : Sent(w, f, g) /\ f.what = "whisper"
    BY <1>12, WhisperSends
  <2>2. /\ toServer[w] # <<>> /\ Taken(w) /\ UNCHANGED <<registry, messages, client>>
        /\ Frames' = Frames
    BY <1>12, WhisperSends DEF Frames
  <2>3. toClient'[u] = toClient[u] \/ toClient'[u] = Append(toClient[u], f)
    BY <2>1 DEF Sent
  <2> QED
    BY <1>4, <2>1, <2>2, <2>3 DEF Overhears, Stays, registry
<1> QED
  BY <1>5, <1>6, <1>7, <1>8, <1>9, <1>10, <1>11, <1>12 DEF Serve, Curt

\* What a step of the server may do for the user it serves: nothing that tells
\* of a room ...
Quiet(u) ==
  /\ \/ toServer'[u] = toServer[u]
     \/ toServer[u] # <<>> /\ toServer'[u] = Tail(toServer[u])
  /\ \/ toClient'[u] = toClient[u]
     \/ \E f \in Frames' : f.what \notin Setters /\ toClient'[u] = Append(toClient[u], f)
  /\ Stays(u)
  /\ UNCHANGED client

\* ... or a request that is answered by the room the user is in from now on.
Moves(u) ==
  /\ toServer'[u] = Tail(toServer[u])
  /\ \E f \in Frames' :
       /\ f.what \in Setters /\ toClient'[u] = Append(toClient[u], f)
       /\ f.what \in {"joined", "created"} => f.room = RoomOf(u)'
       /\ f.what = "left" =>
            /\ Head(toServer[u]).op = "leave"
            /\ \/ RoomOf(u)' = NoRoom
               \/ ~(u \in DOMAIN userToRoomMap /\ userToRoomMap[u] = Head(toServer[u]).room)
  /\ UNCHANGED client

\* The server answers a request for a room, or leaves the user where it was.
LEMMA ServesUser ==
  ASSUME Inv, NEW u \in Users, Serve(u), u \in serving'
  PROVE  toServer[u] # <<>> /\ (Quiet(u) \/ Moves(u))
<1> USE DEF Inv
<1>1. \A op : Reads(u, op) =>
           /\ toServer[u] # <<>> /\ Head(toServer[u]).op = op
           /\ op \notin Texts => Asked(u) \in RoomNames
  BY ReadsHead
<1>2. /\ \A what, r : Frame(what, r, {}).what = what /\ Frame(what, r, {}).room = r
      /\ \A r \in RoomNames, what \in Kinds : Frame(what, r, {}) \in Frames
      /\ NoRoom \in RoomNames
      /\ {"joined", "unknown", "left", "created", "taken", "error", "notice"} \subseteq Kinds
  BY ConversationAssumption DEF Frame, Frames, Kinds, ConversationAssumption
<1>3. toServer[u] # <<>> /\ Taken(u) => toServer'[u] = Tail(toServer[u])
  BY TakenType
<1>4. messages' = messages => Frames' = Frames
  BY DEF Frames
<1>5. CASE Join(u) \/ Leave(u)
  <2>1. PICK r : r = Asked(u)
    OBVIOUS
  <2>2. /\ toServer[u] # <<>> /\ Taken(u) /\ r \in RoomNames
        /\ UNCHANGED <<messages, client>>
    BY <1>1, <1>5, <2>1 DEF Join, Leave, Texts
  <2>3. PICK what \in {"joined", "left"} :
          /\ \E members :
               BroadcastAndAnswer(u, members, Frame("notice", r, {}), Frame(what, r, {}))
          /\ what = "joined" => Join(u)
          /\ what = "left" => Leave(u)
    BY <1>5, <2>1 DEF Join, Leave
  <2>4. PICK f : f = Frame(what, r, {})
    OBVIOUS
  <2>5. f \in Frames' /\ f.what = what /\ f.room = r
    BY <1>2, <1>4, <2>2, <2>4
  <2>6. toClient'[u] = Append(toClient[u], f)
    <3>1. PICK g : g = Frame("notice", r, {})
      OBVIOUS
    <3>2. PICK members : BroadcastAndAnswer(u, members, g, f)
      BY <2>3, <2>4, <3>1
    <3>3. g \in Frames /\ f \in Frames
      BY <1>2, <2>2, <2>4, <3>1
    <3>4. Sent(u, g, f)
      BY <3>2, <3>3, BroadcastSends
    <3> QED
      BY <3>4 DEF Sent
  <2>7. what = "joined" => RoomOf(u)' = r
    BY <2>1, <2>3, SectionsMove DEF Join
  <2>8. what = "left" => /\ Head(toServer[u]).op = "leave"
                         /\ \/ RoomOf(u)' = NoRoom
                            \/ ~(u \in DOMAIN userToRoomMap /\ userToRoomMap[u] = r)
    BY <1>1, <2>1, <2>3, SectionsMove DEF Leave
  <2> QED
    BY <1>3, <2>1, <2>2, <2>3, <2>5, <2>6, <2>7, <2>8 DEF Moves, Setters, Asked
<1>6. CASE Curt(u) \/ History(u)
  <2>1. /\ toServer[u] # <<>> /\ Taken(u)
        /\ UNCHANGED <<registry, messages, client>>
    BY <1>1, <1>6, CurtAnswers DEF History
  <2>2. PICK f \in Frames : Answer(u, f) /\ f.what \notin Setters
    <3>1. CASE Curt(u)
      BY <3>1, CurtAnswers DEF Setters
    <3>2. CASE History(u)
      <4>1. PICK of \in Latest(RS!CurrentRoomId(u, NoRoom)) :
               Answer(u, Frame("history", Asked(u), of))
        BY <3>2 DEF History
      <4>2. /\ Frame("history", Asked(u), of) \in Frames
            /\ Frame("history", Asked(u), of).what = "history"
        BY <1>1, <3>2 DEF History, Latest, In, Frame, Frames, Kinds, Texts
      <4> QED
        BY <4>1, <4>2 DEF Setters
    <3> QED
      BY <1>6, <3>1, <3>2
  <2>3. toClient'[u] = Append(toClient[u], f) /\ f \in Frames'
    BY <1>4, <2>1, <2>2 DEF Answer, Add, Wired
  <2> QED
    BY <1>3, <2>1, <2>2, <2>3 DEF Quiet, Stays, registry
<1>7. CASE AddRoom(u)
  BY <1>1, <1>7 DEF AddRoom, Quiet, Stays, wires, RS!AddRoom, RS!seating
<1>8. CASE CreateTaken(u)
  <2>1. /\ toServer[u] # <<>> /\ Taken(u) /\ Answer(u, Frame("taken", Asked(u), {}))
        /\ Asked(u) \in RoomNames /\ UNCHANGED <<messages, client>>
    BY <1>1, <1>8 DEF CreateTaken, Texts
  <2>2. PICK f : f = Frame("taken", Asked(u), {})
    OBVIOUS
  <2>3. f \in Frames' /\ f.what = "taken" /\ toClient'[u] = Append(toClient[u], f)
    BY <1>2, <1>4, <2>1, <2>2 DEF Answer, Add, Wired
  <2> QED
    BY <1>3, <2>1, <2>3 DEF Moves, Setters
<1>9. CASE Create(u)
  <2>1. PICK r \in RoomNames : /\ RS!CreateRoom(u, u, r, RS!RowOf(r).id)
                               /\ Answer(u, Frame("created", r, {}))
    BY <1>9 DEF Create
  <2>2. PICK f : f = Frame("created", r, {})
    OBVIOUS
  <2>3. toServer[u] # <<>> /\ Taken(u) /\ UNCHANGED <<messages, client>>
    BY <1>9 DEF Create
  <2>4. /\ f \in Frames' /\ f.what = "created" /\ f.room = r
        /\ toClient'[u] = Append(toClient[u], f)
    BY <1>2, <1>4, <2>1, <2>2, <2>3 DEF Answer, Add, Wired
  <2>5. RoomOf(u)' = r
    BY <2>1, SectionsMove
  <2> QED
    BY <1>3, <2>3, <2>4, <2>5 DEF Moves, Setters
<1>10. CASE Say(u)
  <2>1. toServer[u] # <<>> /\ Taken(u) /\ UNCHANGED <<registry, client>>
    BY <1>1, <1>10 DEF Say
  <2>2. PICK m : Spoken(u, m)
    BY <1>10, SayWired
  <2>3. PICK f : f = Frame("message", RS!CurrentRoomName(u, NoRoom), {Len(messages) + 1})
    OBVIOUS
  <2>4. f \in Frames' /\ f.what = "message"
    <3>1. DOMAIN messages' = DOMAIN messages \cup {Len(messages) + 1} /\ u \in DOMAIN userToRoomMap
      BY <1>10, SayWired
    <3> QED
      BY <2>3, <3>1, InRoom DEF Frame, Frames, Kinds
  <2>5. toClient'[u] \in {toClient[u], Append(toClient[u], f)}
    BY <2>2, <2>3 DEF Spoken
  <2> QED
    BY <1>3, <2>1, <2>4, <2>5 DEF Quiet, Stays, registry, Setters
<1>11. CASE Refuse(u)
  BY <1>11 DEF Refuse
<1>12. CASE HistoryDenied(u)
  BY <1>1, <1>3, <1>12 DEF HistoryDenied, Quiet, Stays, registry
<1>13. CASE Whisper(u)
  <2>1. PICK f, g \in Frames : Sent(u, f, g) /\ g.what = "whispered"
    BY <1>13, WhisperSends
  <2>2. toServer[u] # <<>> /\ Taken(u) /\ UNCHANGED <<registry, messages, client>>
    BY <1>13, WhisperSends
  <2>3. toClient'[u] = Append(toClient[u], g) /\ g \in Frames' /\ g.what \notin Setters
    BY <1>4, <2>1, <2>2 DEF Sent, Setters
  <2> QED
    BY <1>3, <2>2, <2>3 DEF Quiet, Stays, registry
<1> QED
  BY <1>5, <1>6, <1>7, <1>8, <1>9, <1>10, <1>11, <1>12, <1>13 DEF Serve, Curt

-----------------------------------------------------------------------------
\* Where nothing tells u of a room, what its client knows stays right.
LEMMA QuietAgrees ==
  ASSUME Inv, Inv', NEW u \in Users, Agrees(u), Quiet(u)
  PROVE  Agrees(u)'
<1>1. PICK q, p : q = toServer[u] /\ p = toServer'[u]
  OBVIOUS
<1>2. /\ q \in Seq(Request) /\ Len(q) <= 1
      /\ p = q \/ (q # <<>> /\ p = Tail(q))
  BY <1>1 DEF Inv, Wired, Quiet, Agrees
<1>3. /\ Len(p) <= 1 /\ (q = <<>> => p = <<>>)
      /\ \A i \in DOMAIN p : i \in DOMAIN q /\ p[i] = q[i]
  <2>1. CASE p = q
    BY <1>2, <2>1
  <2>2. CASE q # <<>> /\ p = Tail(q)
    <3>1. Len(q) \in Nat /\ Len(q) # 0
      BY <1>2, <2>2, EmptySeq
    <3>2. Len(q) = 1
      <4>1. \A n \in Nat : n <= 1 /\ n # 0 => n = 1
        OBVIOUS
      <4> QED
        BY <1>2, <3>1, <4>1
    <3>3. Len(p) = 0 /\ DOMAIN p = 1..0
      BY <1>2, <2>2, <3>2
    <3> QED
      BY <2>2, <3>3
  <2> QED
    BY <1>2, <2>1, <2>2
<1>4. PICK a, b : a = toClient[u] /\ b = toClient'[u]
  OBVIOUS
<1>5. /\ \A i \in DOMAIN a : i \in DOMAIN b /\ b[i] = a[i]
      /\ \A i \in DOMAIN b : b[i].what \in Setters => i \in DOMAIN a
  <2>1. a \in Seq(Frames)
    BY <1>4 DEF Inv, Wired
  <2>2. CASE b = a
    BY <2>2
  <2>3. CASE \E f \in Frames' : f.what \notin Setters /\ b = Append(a, f)
    <3>1. PICK f : f.what \notin Setters /\ b = Append(a, f)
      BY <2>3
    <3>2. /\ DOMAIN b = DOMAIN a \cup {Len(a) + 1} /\ b[Len(a) + 1] = f
          /\ \A i \in DOMAIN a : b[i] = a[i]
      BY <2>1, <3>1
    <3> QED
      BY <3>1, <3>2
  <2> QED
    BY <1>4, <2>2, <2>3 DEF Quiet
<1>6. \A i : Sets(u, i)' <=> Sets(u, i)
  BY <1>4, <1>5 DEF Sets
<1>7. RoomOf(u)' = RoomOf(u) /\ (u \in DOMAIN userToRoomMap' <=> u \in DOMAIN userToRoomMap)
  BY DEF Quiet, Stays, RoomOf, RS!CurrentRoomName
<1>8. currentRoom'[u] = currentRoom[u] /\ misled' = misled
  BY DEF Quiet, client
<1>9. \A i \in DOMAIN b : b[i].what \in {"joined", "created", "left"} => i \in DOMAIN a /\ b[i] = a[i]
  BY <1>5 DEF Setters
<1> QED
  BY <1>1, <1>3, <1>4, <1>6, <1>7, <1>8, <1>9 DEF Agrees

\* A queue of at most one request is empty once it is taken.
LEMMA OneTaken ==
  ASSUME NEW S, NEW q \in Seq(S), q # <<>>, Len(q) <= 1
  PROVE  Tail(q) = <<>> /\ Len(Tail(q)) = 0 /\ DOMAIN q = {1} /\ Head(q) = q[1]
<1>1. Len(q) \in Nat /\ Len(q) # 0
  BY EmptySeq
<1>2. \A n \in Nat : n <= 1 /\ n # 0 => n = 1
  OBVIOUS
<1>3. Len(q) = 1
  BY <1>1, <1>2
<1>4. DOMAIN q = {1} /\ Head(q) = q[1]
  BY <1>3
<1>5. Tail(q) \in Seq(S) /\ Len(Tail(q)) = 0
  BY <1>3
<1> QED
  BY <1>4, <1>5, EmptySeq

\* The answer to a request for a room is the only one on its way, and true.
LEMMA MovesAgree ==
  ASSUME Inv, Inv', NEW u \in Users, Agrees(u), Moves(u), toServer[u] # <<>>
  PROVE  Agrees(u)'
<1>1. /\ toServer[u] \in Seq(Request) /\ Len(toServer[u]) <= 1
      /\ toServer'[u] = Tail(toServer[u])
  BY DEF Inv, Wired, Moves, Agrees
<1>2. /\ toServer'[u] = <<>> /\ Len(toServer'[u]) = 0 /\ DOMAIN toServer'[u] = {}
      /\ DOMAIN toServer[u] = {1} /\ Head(toServer[u]) = toServer[u][1]
  BY <1>1, OneTaken
<1>3. PICK f \in Frames' :
         /\ f.what \in Setters /\ toClient'[u] = Append(toClient[u], f)
         /\ f.what \in {"joined", "created"} => f.room = RoomOf(u)'
         /\ f.what = "left" =>
              /\ Head(toServer[u]).op = "leave"
              /\ \/ RoomOf(u)' = NoRoom
                 \/ ~(u \in DOMAIN userToRoomMap /\ userToRoomMap[u] = Head(toServer[u]).room)
  BY DEF Moves
<1>4. PICK a, b, n : a = toClient[u] /\ b = toClient'[u] /\ n = Len(a) + 1
  OBVIOUS
<1>5. /\ DOMAIN b = DOMAIN a \cup {n} /\ b[n] = f /\ n \notin DOMAIN a
      /\ \A i \in DOMAIN a : b[i] = a[i]
  <2>1. a \in Seq(Frames)
    BY <1>4 DEF Inv, Wired
  <2>2. b = Append(a, f)
    BY <1>3, <1>4
  <2> QED
    BY <1>4, <2>1, <2>2
<1>6. \A i \in DOMAIN a : a[i].what \notin Setters
  BY <1>4 DEF Agrees, Sets
<1>7. \A i : Sets(u, i)' <=> i = n
  BY <1>3, <1>4, <1>5, <1>6 DEF Sets
<1>8. UNCHANGED <<currentRoom, misled>>
  BY DEF Moves, client
<1>9. f.what = "left" /\ u \notin misled => RoomOf(u)' = NoRoom
  <2>1. f.what = "left" /\ u \notin misled =>
          Head(toServer[u]).room = RoomOf(u) /\ u \in DOMAIN userToRoomMap
    BY <1>2, <1>3 DEF Agrees
  <2> QED
    BY <1>3, <2>1 DEF RoomOf, RS!CurrentRoomName
<1>10. \A i \in DOMAIN b :
         /\ b[i].what \in {"joined", "created"} => b[i].room = RoomOf(u)'
         /\ b[i].what = "left" /\ u \notin misled => RoomOf(u)' = NoRoom
  BY <1>3, <1>5, <1>6, <1>9 DEF Setters
<1>11. Sets(u, n)'
  BY <1>7
<1> QED
  BY <1>2, <1>4, <1>7, <1>8, <1>10, <1>11 DEF Agrees

\* A patient user types when there is nothing on its way.
LEMMA LineAgrees ==
  ASSUME Inv, NEW u \in Patient, u \in Users, Connected(u), Agrees(u), NEW request \in Request,
         SendLine(u, request), request.op = "leave" => request.room = currentRoom[u] /\ currentRoom[u] # NoRoom
  PROVE  Agrees(u)'
<1>1. toServer[u] = <<>> /\ toClient[u] = <<>>
  BY DEF SendLine, Settled, Connected
<1>2. toServer'[u] = Append(toServer[u], request)
  BY LineWired DEF Inv
<1>3. Len(toServer'[u]) = 1 /\ DOMAIN toServer'[u] = {1} /\ toServer'[u][1] = request
  BY <1>1, <1>2
<1>4. UNCHANGED <<toClient, currentRoom, misled, userToRoomMap>>
  BY DEF SendLine, registry
<1>5. DOMAIN toClient[u] = {} /\ (\A i : ~Sets(u, i)) /\ (\A i : ~Sets(u, i)')
  BY <1>1, <1>4 DEF Sets
<1>6. u \notin misled => currentRoom[u] = RoomOf(u)
  BY <1>5 DEF Agrees
<1>7. RoomOf(u)' = RoomOf(u) /\ (RoomOf(u) # NoRoom => u \in DOMAIN userToRoomMap)
  BY <1>4 DEF RoomOf, RS!CurrentRoomName
<1> QED
  BY <1>3, <1>4, <1>5, <1>6, <1>7 DEF Agrees

\* A client that hears such an answer knows the room.
LEMMA HearAgrees ==
  ASSUME Inv, NEW u \in Users, Agrees(u), Hear(u)
  PROVE  Agrees(u)'
<1>1. PICK a, b, f : a = toClient[u] /\ b = toClient'[u] /\ f = Head(toClient[u])
  OBVIOUS
<1>2. a \in Seq(Frames) /\ a # <<>> /\ b = Tail(a) /\ f = a[1]
  BY <1>1, HearWired DEF Inv, Wired, Hear, Arrives
<1>3. /\ \A i : i \in DOMAIN b <=> i \in Nat \ {0} /\ i + 1 \in DOMAIN a
      /\ \A i \in DOMAIN b : b[i] = a[i + 1]
      /\ 1 \in DOMAIN a
  <2>1. DOMAIN a = 1..Len(a) /\ Len(a) \in Nat /\ Len(a) # 0
    BY <1>2, EmptySeq
  <2>2. DOMAIN b = 1..(Len(a) - 1) /\ \A i \in 1..(Len(a) - 1) : b[i] = a[i + 1]
    BY <1>2
  <2> QED
    BY <2>1, <2>2
<1>4. \A i : Sets(u, i)' <=> i \in Nat \ {0} /\ Sets(u, i + 1)
  BY <1>1, <1>3 DEF Sets
<1>5. Sets(u, 1) <=> f.what \in Setters
  BY <1>1, <1>2, <1>3 DEF Sets
<1>6. /\ currentRoom'[u] = RoomAfter(currentRoom[u], f)
      /\ toServer' = IF f.what = "joined"
                       THEN Add(toServer, u, [op |-> "history", room |-> f.room]) ELSE toServer
      /\ misled' = IF f.what = "taken" THEN misled \cup {u}
                   ELSE IF f.what \in {"joined", "created"} THEN misled \ {u} ELSE misled
      /\ UNCHANGED <<userToRoomMap>>
  BY <1>1 DEF Hear, registry, Inv, Wired
<1>7. RoomOf(u)' = RoomOf(u)
  BY <1>6 DEF RoomOf, RS!CurrentRoomName
<1>8. \A i \in DOMAIN b :
         /\ b[i].what \in {"joined", "created"} => b[i].room = RoomOf(u)
         /\ b[i].what = "left" /\ u \notin misled => RoomOf(u) = NoRoom
  BY <1>1, <1>3 DEF Agrees
<1>9. CASE f.what \in Setters
  <2>1. \A i : ~Sets(u, i)'
    <3>1. \A i \in Nat \ {0} : i + 1 # 1
      OBVIOUS
    <3> QED
      BY <1>4, <1>5, <1>9, <3>1 DEF Agrees
  <2>2. toServer[u] = <<>>
    BY <1>5, <1>9 DEF Agrees
  <2>3. Len(toServer'[u]) <= 1 /\ \A i \in DOMAIN toServer'[u] : toServer'[u][i].op # "leave"
    <3>1. CASE f.what = "joined"
      <4>1. toServer'[u] = Append(toServer[u], [op |-> "history", room |-> f.room])
        BY <1>6, <3>1 DEF Add, Inv, Wired
      <4>2. /\ Len(toServer'[u]) = 1 /\ DOMAIN toServer'[u] = {1}
            /\ toServer'[u][1] = [op |-> "history", room |-> f.room]
        BY <2>2, <4>1
      <4> QED
        BY <4>2
    <3>2. CASE f.what # "joined"
      BY <1>6, <2>2, <3>2
    <3> QED
      BY <3>1, <3>2
  <2>4. u \notin misled' => currentRoom'[u] = RoomOf(u)
    <3>1. /\ f.what \in {"joined", "created"} => f.room = RoomOf(u)
          /\ f.what = "left" /\ u \notin misled => RoomOf(u) = NoRoom
      BY <1>1, <1>2, <1>3 DEF Agrees
    <3> QED
      BY <1>6, <1>9, <3>1 DEF RoomAfter, Setters
  <2>5. \A i \in DOMAIN b : b[i].what \notin Setters
    BY <1>1, <2>1 DEF Sets
  <2> QED
    BY <1>1, <1>7, <2>1, <2>3, <2>4, <2>5 DEF Agrees, Setters
<1>10. CASE f.what \notin Setters
  <2>1. toServer' = toServer /\ misled' = misled /\ currentRoom'[u] = currentRoom[u]
    BY <1>6, <1>10 DEF Setters, RoomAfter
  <2>2. (\A i : ~Sets(u, i)') => \A i : ~Sets(u, i)
    <3>1. \A i \in DOMAIN a : i = 1 \/ \E j \in Nat \ {0} : i = j + 1
      <4>1. DOMAIN a = 1..Len(a) /\ Len(a) \in Nat
        BY <1>2
      <4>2. \A i \in 1..Len(a) : i = 1 \/ (i - 1 \in Nat \ {0} /\ i = (i - 1) + 1)
        BY <4>1
      <4> QED
        BY <4>1, <4>2
    <3> QED
      BY <1>1, <1>4, <1>5, <1>10, <3>1 DEF Sets
  <2>3. \A i, j : Sets(u, i)' /\ Sets(u, j)' => i = j
    <3>1. \A i, j \in Nat : i + 1 = j + 1 => i = j
      OBVIOUS
    <3> QED
      BY <1>4, <3>1 DEF Agrees
  <2>4. \A i : Sets(u, i)' => toServer[u] = <<>>
    BY <1>4 DEF Agrees
  <2> QED
    BY <1>1, <1>7, <1>8, <2>1, <2>2, <2>3, <2>4, <1>6 DEF Agrees
<1> QED
  BY <1>9, <1>10

\* Who has stopped reading does not start again.
LEMMA EndsOnly ==
  ASSUME Inv, [Next]_vars
  PROVE  serving' \subseteq serving /\ reading' \subseteq reading
<1>1. CASE UNCHANGED vars
  BY <1>1 DEF vars, client
<1>2. ASSUME NEW w \in Users, Type(w) PROVE serving' \subseteq serving /\ reading' \subseteq reading
  BY <1>2, TypedLine DEF Inv, SendLine
<1>3. ASSUME NEW w \in Users, Hear(w) \/ GoDeaf(w) \/ Drop(w)
      PROVE  serving' \subseteq serving /\ reading' \subseteq reading
  BY <1>3 DEF Hear, GoDeaf, Drop
<1>4. ASSUME NEW w \in Users, Serve(w) PROVE serving' \subseteq serving /\ reading' \subseteq reading
  BY <1>4 DEF Serve, Join, JoinUnknown, Leave, CreateTaken, AddRoom, Create, Say, SayNowhere,
     Whisper, WhisperFails, Refuse, History, HistoryDenied, client
<1> QED
  BY <1>1, <1>2, <1>3, <1>4 DEF Next

\* Every step keeps what patient users' clients know.
LEMMA AgreeKept ==
  ASSUME Inv, AgreeInv, [Next]_vars
  PROVE  AgreeInv'
<1> SUFFICES ASSUME NEW u \in Patient, Connected(u)' PROVE Agrees(u)'
  BY DEF AgreeInv
<1>1. u \in Users
  BY ConversationAssumption DEF ConversationAssumption
<1>2. Inv'
  BY NextInv
<1>3. serving' \subseteq serving /\ reading' \subseteq reading
  BY EndsOnly
<1>4. Connected(u) /\ Agrees(u)
  BY <1>3 DEF Connected, AgreeInv
<1>5. ASSUME UNCHANGED <<toServer[u], toClient[u], currentRoom[u], misled>>, UNCHANGED registry
      PROVE  Agrees(u)'
  BY <1>4, <1>5 DEF Agrees, Sets, RoomOf, RS!CurrentRoomName, registry
<1>6. CASE UNCHANGED vars
  BY <1>5, <1>6 DEF vars, wires, client
<1>7. ASSUME NEW w \in Users, Type(w) PROVE Agrees(u)'
  <2>1. PICK request \in Request :
            /\ SendLine(w, request)
            /\ request.op # "history"
            /\ request.op = "leave" => request.room = currentRoom[w] /\ currentRoom[w] # NoRoom
    BY <1>7, TypedLine DEF Inv
  <2>2. CASE w = u
    BY <1>1, <1>4, <2>1, <2>2, LineAgrees
  <2>3. CASE w # u
    <3>1. toServer'[u] = toServer[u]
      BY <1>1, <2>1, <2>3, LineWired DEF Inv
    <3> QED
      BY <1>5, <2>1, <3>1 DEF SendLine
  <2> QED
    BY <2>2, <2>3
<1>8. ASSUME NEW w \in Users, Hear(w) PROVE Agrees(u)'
  <2>1. CASE w = u
    BY <1>4, <1>8, <2>1, HearAgrees
  <2>2. CASE w # u
    <3>1. /\ toClient'[u] = toClient[u] /\ toServer'[u] = toServer[u]
          /\ currentRoom'[u] = currentRoom[u] /\ (u \in misled' <=> u \in misled)
          /\ UNCHANGED registry
      BY <1>1, <1>8, <2>2 DEF Hear, Add, Inv, Wired
    <3> QED
      BY <1>4, <3>1 DEF Agrees, Sets, RoomOf, RS!CurrentRoomName, registry
  <2> QED
    BY <2>1, <2>2
<1>9. ASSUME NEW w \in Users, GoDeaf(w) PROVE Agrees(u)'
  <2>1. w # u
    BY <1>9 DEF GoDeaf, Connected
  <2>2. toClient'[u] = toClient[u]
    BY <1>1, <1>9, <2>1 DEF GoDeaf, Inv, Wired
  <2> QED
    BY <1>5, <1>9, <2>2 DEF GoDeaf
<1>11. ASSUME NEW w \in Users, Drop(w) PROVE Agrees(u)'
  BY <1>5, <1>11 DEF Drop, wires
<1>10. ASSUME NEW w \in Users, Serve(w) PROVE Agrees(u)'
  <2>1. CASE w = u
    <3>1. toServer[u] # <<>> /\ (Quiet(u) \/ Moves(u))
      BY <1>10, <2>1, ServesUser DEF Connected
    <3> QED
      BY <1>1, <1>2, <1>4, <3>1, QuietAgrees, MovesAgree
  <2>2. CASE w # u
    <3>1. Overhears(u)
      BY <1>1, <1>10, <2>2, OthersOverhear
    <3>2. Quiet(u)
      BY <3>1 DEF Overhears, Quiet, Setters
    <3> QED
      BY <1>1, <1>2, <1>4, <3>2, QuietAgrees
  <2> QED
    BY <2>1, <2>2
<1> QED
  BY <1>6, <1>7, <1>8, <1>9, <1>10, <1>11 DEF Next

\* When all is settled, client and server agree on the room a patient user is in,
\* unless the client took the room from the refusal of a CREATE (client.cpp:190).
THEOREM OnlyRefusalsMislead == Spec => []MisledByRefusalOnly
<1>1. Init => AgreeInv
  <2> SUFFICES ASSUME Init, NEW u \in Patient PROVE Agrees(u)
    BY DEF AgreeInv
  <2>1. u \in Users
    BY ConversationAssumption DEF ConversationAssumption
  <2>2. /\ toServer[u] = <<>> /\ toClient[u] = <<>> /\ currentRoom[u] = NoRoom
        /\ DOMAIN userToRoomMap = {}
    BY <2>1 DEF Init, RS!Init, RS!NoEntries
  <2> QED
    BY <2>2 DEF Agrees, Sets, RoomOf, RS!CurrentRoomName
<1>2. Inv /\ AgreeInv /\ [Next]_vars => AgreeInv'
  BY AgreeKept
<1>3. AgreeInv => MisledByRefusalOnly
  BY DEF AgreeInv, Agrees, MisledByRefusalOnly, Settled, Connected, Sets, RoomOf
<1> QED
  BY <1>1, <1>2, <1>3, Invariance, PTL DEF Spec

-----------------------------------------------------------------------------
(* What a user in a room has been shown.                                   *)

\* Names the table tells apart, as the maps do.
DistinctNames == \A q, r \in RoomNames : Collate[q] = Collate[r] => q = r

\* The messages of a room that nobody may leave out of its history.
AsLate(id, i) == {j \in In(id) : messages[j].at >= messages[i].at}
Recent(id) == {i \in In(id) : Cardinality(AsLate(id, i)) <= Limit}

RoomId(u) == activeRooms[userToRoomMap[u]].id

\* u's client is about to ask for the history of r, or has asked.
Refreshes(u, r) ==
  \/ \E i \in DOMAIN toServer[u] : toServer[u][i] = [op |-> "history", room |-> r]
  \/ \E i \in DOMAIN toClient[u] : toClient[u][i].what = "joined" /\ toClient[u][i].room = r

\* u has been shown message i, or will be.
Shown(u, i) == i \in seen[u] \/ \E k \in DOMAIN toClient[u] : i \in toClient[u][k].of

Caught(u) == \/ Refreshes(u, userToRoomMap[u])
             \/ \A i \in Recent(RoomId(u)) : Shown(u, i)

\* Messages are those of rooms there are, and a room that is being created has
\* none.
KnownIds == \A i \in DOMAIN messages : \E k \in DOMAIN rooms : rooms[k].id = messages[i].id

NewRoomsEmpty == \A v, r : <<v, r>> \in creating => In(RS!RowOf(r).id) = {}

CaughtInv == /\ KnownIds
             /\ NewRoomsEmpty
             /\ \A u \in Users : Connected(u) /\ u \in DOMAIN userToRoomMap => Caught(u)

-----------------------------------------------------------------------------
(* The table messages.                                                     *)

\* The messages of a room are finitely many.
LEMMA InFinite ==
  ASSUME messages \in Seq(Message), NEW id
  PROVE  IsFiniteSet(In(id)) /\ IsFiniteSet(DOMAIN messages) /\ In(id) \subseteq DOMAIN messages
<1>1. DOMAIN messages = 1..Len(messages) /\ Len(messages) \in Int
  OBVIOUS
<1>2. IsFiniteSet(DOMAIN messages)
  BY <1>1, FS_Interval
<1>3. In(id) \subseteq DOMAIN messages
  BY DEF In
<1> QED
  BY <1>2, <1>3, FS_Subset

\* findLatestByRoomId leaves no recent message out.
LEMMA LatestShowsRecent ==
  ASSUME messages \in Seq(Message), NEW id, NEW of \in Latest(id), NEW i \in Recent(id)
  PROVE  i \in of
<1> SUFFICES ASSUME i \notin of PROVE FALSE
  OBVIOUS
<1>1. PICK all : all = In(id)
  OBVIOUS
<1>2. /\ IsFiniteSet(all) /\ of \subseteq all /\ i \in all
      /\ Cardinality(of) = Min({Limit, Cardinality(all)})
      /\ \A j \in of : messages[j].at >= messages[i].at
  BY <1>1, InFinite DEF Latest, Recent
<1>3. /\ Cardinality(all) \in Nat /\ Cardinality(of) \in Nat /\ IsFiniteSet(of)
      /\ Cardinality(of) <= Cardinality(all) /\ Cardinality(of) # Cardinality(all)
  BY <1>2, FS_Subset, FS_CardinalityType
<1>4. Cardinality(of) = Limit
  <2>1. Limit \in Nat
    BY ConversationAssumption DEF ConversationAssumption
  <2>2. \E m \in {Limit, Cardinality(all)} : \A y \in {Limit, Cardinality(all)} : m <= y
    <3>1. CASE Limit <= Cardinality(all)
      BY <1>3, <2>1, <3>1
    <3>2. CASE Cardinality(all) <= Limit
      BY <1>3, <2>1, <3>2
    <3> QED
      BY <1>3, <2>1, <3>1, <3>2
  <2>3. Min({Limit, Cardinality(all)}) \in {Limit, Cardinality(all)}
    BY <2>2 DEF Min
  <2> QED
    BY <1>2, <1>3, <2>3
<1>5. of \cup {i} \subseteq AsLate(id, i)
  <2>1. messages[i].at >= messages[i].at
    <3>1. messages[i] \in Message
      BY <1>1, <1>2 DEF In
    <3>2. messages[i].at \in Nat
      BY <3>1 DEF Message
    <3> QED
      BY <3>2
  <2> QED
    BY <1>1, <1>2, <2>1 DEF AsLate
<1>6. Cardinality(of \cup {i}) = Limit + 1
  BY <1>3, <1>4, FS_AddElement
<1>7. IsFiniteSet(AsLate(id, i))
  <2>1. AsLate(id, i) \subseteq all
    BY <1>1 DEF AsLate
  <2> QED
    BY <1>2, <2>1, FS_Subset
<1>8. Limit + 1 <= Cardinality(AsLate(id, i)) /\ Cardinality(AsLate(id, i)) \in Nat
  BY <1>5, <1>6, <1>7, FS_Subset, FS_CardinalityType
<1>9. Cardinality(AsLate(id, i)) <= Limit
  BY DEF Recent
<1> QED
  BY <1>8, <1>9, ConversationAssumption DEF ConversationAssumption

\* A message that is recent once another was stored was recent before.
LEMMA RecentWas ==
  ASSUME messages \in Seq(Message), NEW m \in Message, messages' = Append(messages, m),
         NEW id, NEW i \in Recent(id)'
  PROVE  i \in Recent(id) \/ (i = Len(messages) + 1 /\ m.id = id)
<1>1. /\ DOMAIN messages' = DOMAIN messages \cup {Len(messages) + 1}
      /\ \A k \in DOMAIN messages : messages'[k] = messages[k]
      /\ messages'[Len(messages) + 1] = m /\ messages' \in Seq(Message)
  OBVIOUS
<1>2. CASE i = Len(messages) + 1
  BY <1>1, <1>2 DEF Recent, In
<1>3. CASE i # Len(messages) + 1
  <2>1. i \in In(id) /\ Cardinality(AsLate(id, i)') <= Limit /\ i \in DOMAIN messages
    BY <1>1, <1>3 DEF Recent, In
  <2>2. AsLate(id, i) \subseteq AsLate(id, i)'
    BY <1>1, <2>1 DEF AsLate, In
  <2>3. IsFiniteSet(AsLate(id, i)')
    <3>1. DOMAIN messages' = 1..Len(messages') /\ Len(messages') \in Int
      BY <1>1
    <3>2. IsFiniteSet(DOMAIN messages') /\ AsLate(id, i)' \subseteq DOMAIN messages'
      BY <3>1, FS_Interval DEF AsLate, In
    <3> QED
      BY <3>2, FS_Subset
  <2>4. /\ Cardinality(AsLate(id, i)) <= Cardinality(AsLate(id, i)')
        /\ Cardinality(AsLate(id, i)) \in Nat /\ Cardinality(AsLate(id, i)') \in Nat
    BY <2>2, <2>3, FS_Subset, FS_CardinalityType
  <2> QED
    BY <2>1, <2>4, ConversationAssumption DEF Recent, ConversationAssumption
<1> QED
  BY <1>2, <1>3

\* Rows stay as they are.
LEMMA RowsStay ==
  ASSUME [RS!Next]_(RS!vars)
  PROVE  \A k \in DOMAIN rooms : k \in DOMAIN rooms' /\ rooms'[k] = rooms[k]
<1>1. \/ rooms' = rooms
      \/ \E u \in Users, r \in RoomNames, id \in RoomIds : RS!Insert(u, r, id)
  BY DEF RS!Next, RS!vars, RS!AddRoom, RS!AddRoomUnacknowledged, RS!JoinRoom, RS!LeaveRoom,
         RS!CreateRoom, RS!HandleDisconnect, RS!tables
<1> QED
  BY <1>1 DEF RS!Insert, RS!Known, RS!Put

\* The id of the room a user stays in does not change.
LEMMA RoomIdStays ==
  ASSUME Inv, Inv', [Next]_vars, NEW u \in Users, u \in DOMAIN userToRoomMap, Stays(u)
  PROVE  /\ u \in DOMAIN userToRoomMap' /\ userToRoomMap'[u] = userToRoomMap[u]
         /\ RoomId(u)' = RoomId(u)
<1>1. PICK r : r = userToRoomMap[u]
  OBVIOUS
<1>2. u \in DOMAIN userToRoomMap' /\ userToRoomMap'[u] = r
  BY <1>1 DEF Stays
<1>3. Collate[r] \in DOMAIN rooms /\ rooms[Collate[r]].id = activeRooms[r].id
  BY <1>1, InRoom DEF Inv
<1>4. r \in DOMAIN activeRooms'
  BY <1>2 DEF Inv, RSP!IInv, RSP!MappedIsSeated, RSP!Members
<1>5. rooms'[Collate[r]].id = activeRooms'[r].id
  BY <1>4 DEF Inv, RSP!IInv, RSP!RoomMirrorsRow, RSP!RowOf
<1>6. rooms'[Collate[r]] = rooms[Collate[r]]
  BY <1>3, StepsOfRooms, RowsStay
<1> QED
  BY <1>1, <1>2, <1>3, <1>5, <1>6 DEF RoomId

\* u stays where it is, and hears of what is new.
LEMMA CaughtStays ==
  ASSUME NEW u, Caught(u), userToRoomMap'[u] = userToRoomMap[u], RoomId(u)' = RoomId(u),
         Refreshes(u, userToRoomMap[u]) => Caught(u)',
         \A i : Shown(u, i) => Shown(u, i)',
         \A i \in Recent(RoomId(u))' : i \in Recent(RoomId(u)) \/ Shown(u, i)'
  PROVE  Caught(u)'
BY DEF Caught

\* More frames are on their way.
LEMMA ShownMore ==
  ASSUME Wired, NEW u \in Users, NEW f, seen'[u] = seen[u],
         toClient'[u] = toClient[u] \/ toClient'[u] = Append(toClient[u], f)
  PROVE  /\ \A i : Shown(u, i) => Shown(u, i)'
         /\ toClient'[u] = Append(toClient[u], f) =>
              /\ \A i \in f.of : Shown(u, i)'
              /\ \A r : f.what = "joined" /\ f.room = r => Refreshes(u, r)'
         /\ \A r : \A i \in DOMAIN toClient[u] :
              toClient[u][i].what = "joined" /\ toClient[u][i].room = r => Refreshes(u, r)'
<1>1. PICK a, b : a = toClient[u] /\ b = toClient'[u]
  OBVIOUS
<1>2. /\ \A i \in DOMAIN a : i \in DOMAIN b /\ b[i] = a[i]
      /\ b = Append(a, f) => Len(a) + 1 \in DOMAIN b /\ b[Len(a) + 1] = f
  <2>1. a \in Seq(Frames)
    BY <1>1 DEF Wired
  <2>2. CASE b = Append(a, f)
    <3>1. DOMAIN b = DOMAIN a \cup {Len(a) + 1} /\ b[Len(a) + 1] = f /\ \A i \in DOMAIN a : b[i] = a[i]
      BY <2>1, <2>2
    <3> QED
      BY <3>1
  <2>3. CASE b # Append(a, f)
    BY <1>1, <2>3
  <2> QED
    BY <2>2, <2>3
<1>3. \A i : Shown(u, i) => Shown(u, i)'
  BY <1>1, <1>2 DEF Shown
<1>4. toClient'[u] = Append(toClient[u], f) => \A i \in f.of : Shown(u, i)'
  BY <1>1, <1>2 DEF Shown
<1>5. toClient'[u] = Append(toClient[u], f) =>
        \A r : f.what = "joined" /\ f.room = r => Refreshes(u, r)'
  BY <1>1, <1>2 DEF Refreshes
<1>6. \A r : \A i \in DOMAIN a : a[i].what = "joined" /\ a[i].room = r => Refreshes(u, r)'
  BY <1>1, <1>2 DEF Refreshes
<1> QED
  BY <1>1, <1>3, <1>4, <1>5, <1>6

\* A request for the history waits until it is taken.
LEMMA RefreshWaits ==
  ASSUME Wired, NEW u \in Users, NEW r,
         \/ toServer'[u] = toServer[u]
         \/ \E e : toServer'[u] = Append(toServer[u], e)
         \/ /\ toServer[u] # <<>> /\ toServer'[u] = Tail(toServer[u])
            /\ Head(toServer[u]) # [op |-> "history", room |-> r],
         NEW i \in DOMAIN toServer[u], toServer[u][i] = [op |-> "history", room |-> r]
  PROVE  Refreshes(u, r)'
<1>1. PICK q, p : q = toServer[u] /\ p = toServer'[u]
  OBVIOUS
<1>2. q \in Seq(Request) /\ DOMAIN q = 1..Len(q) /\ i \in 1..Len(q)
  BY <1>1 DEF Wired
<1>3. CASE \E e : p = Append(q, e)
  <2>1. PICK e : p = Append(q, e)
    BY <1>3
  <2>2. i \in DOMAIN p /\ p[i] = q[i]
    BY <1>2, <2>1
  <2> QED
    BY <1>1, <2>2 DEF Refreshes
<1>4. CASE q # <<>> /\ p = Tail(q) /\ Head(q) # [op |-> "history", room |-> r]
  <2>1. Head(q) = q[1]
    BY <1>2, <1>4
  <2>2. i # 1
    BY <1>1, <1>4, <2>1
  <2>3. i - 1 \in DOMAIN p /\ p[i - 1] = q[i]
    BY <1>2, <1>4, <2>2
  <2> QED
    BY <1>1, <2>3 DEF Refreshes
<1>5. CASE p = q
  BY <1>1, <1>5 DEF Refreshes
<1> QED
  BY <1>1, <1>3, <1>4, <1>5

\* A client that is about to ask goes on to.
LEMMA RefreshStays ==
  ASSUME Wired, NEW u \in Users, NEW r, NEW f, seen'[u] = seen[u],
         toClient'[u] = toClient[u] \/ toClient'[u] = Append(toClient[u], f),
         \/ toServer'[u] = toServer[u]
         \/ \E e : toServer'[u] = Append(toServer[u], e)
         \/ /\ toServer[u] # <<>> /\ toServer'[u] = Tail(toServer[u])
            /\ Head(toServer[u]) # [op |-> "history", room |-> r],
         Refreshes(u, r)
  PROVE  Refreshes(u, r)'
<1>1. CASE \E i \in DOMAIN toServer[u] : toServer[u][i] = [op |-> "history", room |-> r]
  BY <1>1, RefreshWaits
<1>2. CASE \E i \in DOMAIN toClient[u] :
             toClient[u][i].what = "joined" /\ toClient[u][i].room = r
  BY <1>2, ShownMore
<1> QED
  BY <1>1, <1>2 DEF Refreshes

\* The server's step for another user: nothing new is said in u's room, or u
\* hears it.
LEMMA CaughtOverhears ==
  ASSUME DistinctNames, Inv, Inv', NEW w \in Users, Serve(w), NEW u \in Users \ {w},
         u \in DOMAIN userToRoomMap, Caught(u)
  PROVE  Caught(u)'
<1>1. Overhears(u) /\ [Next]_vars
  BY OthersOverhear DEF Next
<1>2. /\ userToRoomMap'[u] = userToRoomMap[u] /\ RoomId(u)' = RoomId(u)
      /\ seen' = seen /\ toServer'[u] = toServer[u] /\ Wired
  BY <1>1, RoomIdStays DEF Overhears, client, Inv
<1>3. PICK f : toClient'[u] = toClient[u] \/ toClient'[u] = Append(toClient[u], f)
  BY <1>1 DEF Overhears
<1>4. /\ \A i : Shown(u, i) => Shown(u, i)'
      /\ Refreshes(u, userToRoomMap[u]) => Refreshes(u, userToRoomMap[u])'
  BY <1>2, <1>3, ShownMore, RefreshStays
<1>5. \A i \in Recent(RoomId(u))' : i \in Recent(RoomId(u)) \/ Shown(u, i)'
  <2>1. CASE messages' = messages
    BY <1>2, <2>1 DEF Recent, AsLate, In
  <2>2. CASE Say(w)
    <3>1. PICK m : Spoken(w, m)
      BY <2>2, SayWired
    <3>2. PICK n : n = Len(messages) + 1
      OBVIOUS
    <3>3. w \in DOMAIN userToRoomMap
      BY <2>2, SayWired
    <3>4. \A i \in Recent(RoomId(u))' :
             i \in Recent(RoomId(u)) \/ (i = n /\ m.id = RoomId(u))
      BY <1>2, <3>1, <3>2, RecentWas DEF Wired, Spoken
    <3>5. ASSUME m.id = RoomId(u) PROVE Shown(u, n)'
      <4>1. PICK q, r : q = userToRoomMap[u] /\ r = userToRoomMap[w]
        OBVIOUS
      <4>2. /\ q \in RoomNames /\ r \in RoomNames /\ r \in DOMAIN activeRooms
            /\ u \in DOMAIN activeRooms[q].members
            /\ Collate[q] \in DOMAIN rooms /\ Collate[r] \in DOMAIN rooms
            /\ rooms[Collate[q]].id = RoomId(u) /\ rooms[Collate[r]].id = m.id
            /\ RS!CurrentRoomName(w, NoRoom) = r
        BY <3>1, <3>3, <4>1, InRoom DEF Inv, Spoken, RoomId
      <4>3. Collate[q] = Collate[r]
        BY <3>5, <4>2 DEF Inv, RSP!IInv, RSP!RowsKeyed
      <4>4. q = r
        BY <4>2, <4>3 DEF DistinctNames
      <4>5. u \in Audience(w)
        BY <4>2, <4>4 DEF Audience, RS!Recipients, RS!Restrict
      <4>6. PICK g : g = Frame("message", RS!CurrentRoomName(w, NoRoom), {n})
        OBVIOUS
      <4>7. toClient'[u] = Append(toClient[u], g) /\ n \in g.of
        BY <3>1, <3>2, <4>5, <4>6 DEF Spoken, Frame
      <4> QED
        BY <1>2, <4>7, ShownMore
    <3> QED
      BY <3>4, <3>5
  <2>3. messages' = messages \/ Say(w)
    BY DEF Serve, Join, JoinUnknown, Leave, CreateTaken, AddRoom, Create, SayNowhere, Whisper,
           WhisperFails, Refuse, History, HistoryDenied
  <2> QED
    BY <2>1, <2>2, <2>3
<1> QED
  BY <1>2, <1>4, <1>5, CaughtStays DEF Caught

\* The server's step for the user: its new room is new, or it has joined it and
\* will ask, or it stays.
LEMMA CaughtServed ==
  ASSUME Inv, Inv', KnownIds, NewRoomsEmpty, NEW u \in Users, Serve(u), u \in serving',
         u \in DOMAIN userToRoomMap', u \in DOMAIN userToRoomMap => Caught(u)
  PROVE  Caught(u)'
<1> USE DEF Inv
<1>1. \A op : Reads(u, op) => toServer[u] # <<>> /\ Head(toServer[u]).op = op
  BY ReadsHead
<1>2. toServer[u] # <<>> /\ Taken(u) => toServer'[u] = Tail(toServer[u])
  BY TakenType
<1>3. [Next]_vars
  BY DEF Next
<1>4. ASSUME UNCHANGED registry
      PROVE  /\ Caught(u) /\ u \in DOMAIN userToRoomMap
             /\ userToRoomMap'[u] = userToRoomMap[u] /\ RoomId(u)' = RoomId(u)
  BY <1>4 DEF registry, RoomId
<1>5. CASE Curt(u) \/ CreateTaken(u) \/ Whisper(u) \/ HistoryDenied(u)
  <2>1. /\ UNCHANGED registry /\ messages' = messages /\ seen' = seen
        /\ toServer[u] # <<>> /\ toServer'[u] = Tail(toServer[u])
    BY <1>1, <1>2, <1>5, CurtAnswers, WhisperSends DEF CreateTaken, HistoryDenied, client
  <2>2. PICK f : toClient'[u] = toClient[u] \/ toClient'[u] = Append(toClient[u], f)
    <3>1. CASE Curt(u) \/ CreateTaken(u) \/ HistoryDenied(u)
      <4>1. toClient' = toClient \/ \E f : Answer(u, f)
        BY <3>1, CurtAnswers DEF CreateTaken, HistoryDenied
      <4> QED
        BY <4>1 DEF Answer, Add, Wired
    <3>2. CASE Whisper(u)
      BY <3>2, WhisperSends DEF Sent
    <3> QED
      BY <1>5, <3>1, <3>2
  <2>3. PICK r : r = userToRoomMap[u]
    OBVIOUS
  <2>4. Head(toServer[u]) # [op |-> "history", room |-> r]
    <3>1. CASE Curt(u) \/ CreateTaken(u) \/ Whisper(u)
      <4>1. Head(toServer[u]).op # "history"
        BY <1>1, <3>1, CurtAnswers, WhisperSends DEF CreateTaken, Texts
      <4> QED
        BY <4>1
    <3>2. CASE HistoryDenied(u)
      BY <1>4, <2>1, <2>3, <3>2 DEF HistoryDenied, Asked
    <3> QED
      BY <1>5, <3>1, <3>2
  <2>5. Refreshes(u, r) => Refreshes(u, r)'
    BY <2>1, <2>2, <2>4, RefreshStays
  <2>6. \A i : Shown(u, i) => Shown(u, i)'
    BY <2>1, <2>2, ShownMore
  <2>7. Recent(RoomId(u))' = Recent(RoomId(u))
    BY <1>4, <2>1 DEF Recent, AsLate, In
  <2> QED
    BY <1>4, <2>1, <2>3, <2>5, <2>6, <2>7, CaughtStays DEF Caught
<1>6. CASE AddRoom(u)
  <2>1. UNCHANGED <<userToRoomMap, activeRooms, messages, seen, toServer, toClient>>
    BY <1>6 DEF AddRoom, RS!AddRoom, RS!seating, wires, client
  <2> QED
    BY <2>1 DEF Caught, RoomId, Refreshes, Recent, AsLate, In, Shown
<1>7. CASE Join(u)
  <2>1. PICK r : r = Asked(u)
    OBVIOUS
  <2>2. r \in RoomNames /\ toServer[u] # <<>> /\ seen' = seen
    BY <1>7, <2>1, ReadsHead DEF Join, Texts, client
  <2>3. PICK f, g : f = Frame("joined", r, {}) /\ g = Frame("notice", r, {})
    OBVIOUS
  <2>4. f \in Frames /\ g \in Frames /\ f.what = "joined" /\ f.room = r
    BY <2>2, <2>3 DEF Frame, Frames, Kinds
  <2>5. PICK members : BroadcastAndAnswer(u, members, g, f)
    BY <1>7, <2>1, <2>3 DEF Join
  <2>6. toClient'[u] = Append(toClient[u], f)
    BY <2>4, <2>5, BroadcastSends DEF Sent
  <2>7. Refreshes(u, r)'
    BY <2>2, <2>4, <2>6, ShownMore
  <2>8. userToRoomMap'[u] = r
    BY <1>7, <2>1, SectionsMove DEF Join
  <2> QED
    BY <2>7, <2>8 DEF Caught
<1>8. CASE Create(u)
  <2>1. PICK r \in RoomNames : RS!CreateRoom(u, u, r, RS!RowOf(r).id)
    BY <1>8 DEF Create
  <2>2. /\ userToRoomMap'[u] = r /\ activeRooms'[r].id = RS!RowOf(r).id
        /\ <<u, r>> \in creating
    BY <2>1, SectionsMove DEF RS!CreateRoom, RS!Put
  <2>3. In(RS!RowOf(r).id) = {} /\ messages' = messages
    BY <1>8, <2>2 DEF NewRoomsEmpty, Create
  <2>4. PICK id : id = RS!RowOf(r).id
    OBVIOUS
  <2>5. RoomId(u)' = id
    BY <2>2, <2>4 DEF RoomId
  <2>6. Recent(RoomId(u))' = {}
    BY <2>3, <2>4, <2>5 DEF Recent, In
  <2> QED
    BY <2>6 DEF Caught
<1>9. CASE Leave(u)
  <2>1. PICK r : r = Asked(u)
    OBVIOUS
  <2>2. /\ r \in RoomNames /\ toServer[u] # <<>> /\ toServer'[u] = Tail(toServer[u])
        /\ seen' = seen /\ messages' = messages
    BY <1>2, <1>9, <2>1, ReadsHead DEF Leave, Texts, client
  <2>3. Stays(u) /\ u \in DOMAIN userToRoomMap
    BY <1>9, SectionsMove DEF Leave, Stays
  <2>4. userToRoomMap'[u] = userToRoomMap[u] /\ RoomId(u)' = RoomId(u)
    BY <1>3, <2>3, RoomIdStays
  <2>5. PICK f, g : f = Frame("left", r, {}) /\ g = Frame("notice", r, {})
    OBVIOUS
  <2>6. f \in Frames /\ g \in Frames
    BY <2>2, <2>5 DEF Frame, Frames, Kinds
  <2>7. PICK members : BroadcastAndAnswer(u, members, g, f)
    BY <1>9, <2>1, <2>5 DEF Leave
  <2>8. toClient'[u] = Append(toClient[u], f)
    BY <2>6, <2>7, BroadcastSends DEF Sent
  <2>9. PICK q : q = userToRoomMap[u]
    OBVIOUS
  <2>10. Head(toServer[u]) # [op |-> "history", room |-> q]
    BY <1>1, <1>9 DEF Leave
  <2>11. Refreshes(u, q) => Refreshes(u, q)'
    BY <2>2, <2>8, <2>10, RefreshStays
  <2>12. \A i : Shown(u, i) => Shown(u, i)'
    BY <2>2, <2>8, ShownMore
  <2>13. Recent(RoomId(u))' = Recent(RoomId(u))
    BY <2>2, <2>4 DEF Recent, AsLate, In
  <2> QED
    BY <2>3, <2>4, <2>9, <2>11, <2>12, <2>13, CaughtStays DEF Caught
<1>10. CASE History(u)
  <2>1. /\ UNCHANGED registry /\ messages' = messages /\ seen' = seen
    BY <1>10 DEF History, client
  <2>2. PICK id : id = RoomId(u)
    OBVIOUS
  <2>3. RS!CurrentRoomId(u, NoRoom) = id /\ RoomId(u)' = id
    BY <1>4, <2>1, <2>2, InRoom DEF RoomId
  <2>4. PICK of \in Latest(id) : Answer(u, Frame("history", Asked(u), of))
    BY <1>10, <2>3 DEF History
  <2>5. PICK f : f = Frame("history", Asked(u), of)
    OBVIOUS
  <2>6. toClient'[u] = Append(toClient[u], f) /\ f.of = of
    BY <2>4, <2>5 DEF Answer, Add, Wired, Frame
  <2>7. \A i \in of : Shown(u, i)'
    BY <2>1, <2>6, ShownMore
  <2>8. \A i \in Recent(id) : i \in of
    BY LatestShowsRecent DEF Wired
  <2>9. Recent(RoomId(u))' = Recent(id)
    BY <2>1, <2>3 DEF Recent, AsLate, In
  <2> QED
    BY <2>7, <2>8, <2>9 DEF Caught
<1>11. CASE Say(u)
  <2>1. /\ UNCHANGED registry /\ seen' = seen
        /\ toServer[u] # <<>> /\ toServer'[u] = Tail(toServer[u])
    BY <1>1, <1>2, <1>11 DEF Say, client
  <2>2. PICK m : Spoken(u, m)
    BY <1>11, SayWired
  <2>3. PICK f : f = Frame("message", RS!CurrentRoomName(u, NoRoom), {Len(messages) + 1})
    OBVIOUS
  <2>4. u \in Audience(u)
    <3>1. PICK r : r = userToRoomMap[u]
      OBVIOUS
    <3>2. /\ r \in DOMAIN activeRooms /\ u \in DOMAIN activeRooms[r].members
          /\ RS!CurrentRoomName(u, NoRoom) = r
      BY <1>4, <2>1, <3>1, InRoom
    <3> QED
      BY <3>2 DEF Audience, RS!Recipients, RS!Restrict
  <2>5. PICK n, r, id : n = Len(messages) + 1 /\ r = userToRoomMap[u] /\ id = RoomId(u)
    OBVIOUS
  <2>6. toClient'[u] = Append(toClient[u], f) /\ f.of = {n}
    BY <2>2, <2>3, <2>4, <2>5 DEF Spoken, Frame
  <2>7. Head(toServer[u]) # [op |-> "history", room |-> r]
    BY <1>1, <1>11 DEF Say
  <2>8. Refreshes(u, r) => Refreshes(u, r)'
    BY <2>1, <2>6, <2>7, RefreshStays
  <2>9. (\A i : Shown(u, i) => Shown(u, i)') /\ Shown(u, n)'
    BY <2>1, <2>6, ShownMore
  <2>10. \A i \in Recent(id)' : i \in Recent(id) \/ i = n
    BY <2>2, <2>5, RecentWas DEF Wired, Spoken
  <2>11. RoomId(u)' = id
    BY <1>4, <2>1, <2>5
  <2>12. \A i \in Recent(RoomId(u))' : i \in Recent(RoomId(u)) \/ Shown(u, i)'
    BY <2>5, <2>9, <2>10, <2>11
  <2> QED
    BY <1>4, <2>1, <2>5, <2>8, <2>9, <2>12, CaughtStays DEF Caught
<1>12. CASE Refuse(u)
  BY <1>12 DEF Refuse
<1> QED
  BY <1>5, <1>6, <1>7, <1>8, <1>9, <1>10, <1>11, <1>12 DEF Serve, Curt

\* A client that hears it has joined asks, and what it hears has been shown.
LEMMA CaughtHears ==
  ASSUME Inv, NEW u \in Users, Hear(u), u \in DOMAIN userToRoomMap, Caught(u)
  PROVE  Caught(u)'
<1>1. PICK a, b, f : a = toClient[u] /\ b = toClient'[u] /\ f = Head(toClient[u])
  OBVIOUS
<1>2. a \in Seq(Frames) /\ a # <<>> /\ b = Tail(a) /\ f = a[1]
  BY <1>1, HearWired DEF Inv, Wired, Hear, Arrives
<1>3. \A i \in DOMAIN a : i = 1 \/ (i - 1 \in DOMAIN b /\ b[i - 1] = a[i])
  <2>1. DOMAIN a = 1..Len(a) /\ Len(a) \in Nat
    BY <1>2
  <2>2. DOMAIN b = 1..(Len(a) - 1) /\ \A i \in 1..(Len(a) - 1) : b[i] = a[i + 1]
    BY <1>2
  <2> QED
    BY <2>1, <2>2
<1>4. /\ seen'[u] = seen[u] \cup f.of
      /\ toServer' = IF f.what = "joined"
                       THEN Add(toServer, u, [op |-> "history", room |-> f.room]) ELSE toServer
      /\ UNCHANGED <<userToRoomMap, activeRooms, messages>>
  BY <1>1 DEF Hear, registry, Inv, Wired
<1>5. \A i : Shown(u, i) => Shown(u, i)'
  BY <1>1, <1>2, <1>3, <1>4 DEF Shown
<1>6. PICK r : r = userToRoomMap[u]
  OBVIOUS
<1>7. Refreshes(u, r) => Refreshes(u, r)'
  <2>1. CASE \E i \in DOMAIN toServer[u] : toServer[u][i] = [op |-> "history", room |-> r]
    <3>1. toServer'[u] = toServer[u] \/ \E e : toServer'[u] = Append(toServer[u], e)
      BY <1>4 DEF Add, Inv, Wired
    <3> QED
      BY <2>1, <3>1, RefreshWaits DEF Inv
  <2>2. CASE \E i \in DOMAIN a : i # 1 /\ a[i].what = "joined" /\ a[i].room = r
    BY <1>1, <1>3, <2>2 DEF Refreshes
  <2>3. CASE f.what = "joined" /\ f.room = r
    <3>1. PICK e : e = [op |-> "history", room |-> r]
      OBVIOUS
    <3>2. toServer'[u] = Append(toServer[u], e) /\ toServer[u] \in Seq(Request)
      BY <1>4, <2>3, <3>1 DEF Add, Inv, Wired
    <3>3. PICK q, p, n : q = toServer[u] /\ p = toServer'[u] /\ n = Len(q) + 1
      OBVIOUS
    <3>4. n \in DOMAIN p /\ p[n] = e
      BY <3>2, <3>3
    <3> QED
      BY <3>1, <3>3, <3>4 DEF Refreshes
  <2> QED
    BY <1>1, <1>2, <2>1, <2>2, <2>3 DEF Refreshes
<1>8. RoomId(u)' = RoomId(u) /\ Recent(RoomId(u))' = Recent(RoomId(u))
  BY <1>4 DEF RoomId, Recent, AsLate, In
<1> QED
  BY <1>4, <1>5, <1>6, <1>7, <1>8, CaughtStays DEF Caught

\* Where nothing changes for u it has been shown what it had.
LEMMA CaughtElsewhere ==
  ASSUME NEW u, Caught(u), userToRoomMap' = userToRoomMap, activeRooms' = activeRooms,
         messages' = messages, seen'[u] = seen[u], toServer'[u] = toServer[u],
         toClient'[u] = toClient[u]
  PROVE  Caught(u)'
BY DEF Caught, RoomId, Refreshes, Recent, AsLate, In, Shown

\* Messages are stored for rooms there are, and not while one is created.
LEMMA IdsKept ==
  ASSUME Inv, Inv', KnownIds, NewRoomsEmpty, [Next]_vars
  PROVE  KnownIds' /\ NewRoomsEmpty'
<1>1. \A k \in DOMAIN rooms : k \in DOMAIN rooms' /\ rooms'[k] = rooms[k]
  BY StepsOfRooms, RowsStay
<1>2. CASE messages' # messages
  <2>1. PICK u \in Users : Say(u)
    BY <1>2, TypedLine DEF Next, Serve, Join, JoinUnknown, Leave, CreateTaken, AddRoom, Create,
       SayNowhere, Whisper, WhisperFails, Refuse, History, HistoryDenied, Hear, GoDeaf, Drop,
       SendLine, vars, Inv
  <2>2. PICK m : Spoken(u, m)
    BY <2>1, SayWired
  <2>3. UNCHANGED registry /\ creating = {}
    BY <2>1, ReadsHead DEF Say, Inv
  <2>4. \E k \in DOMAIN rooms : rooms[k].id = m.id
    <3>1. u \in DOMAIN userToRoomMap
      BY <2>1, SayWired
    <3>2. PICK r : r = userToRoomMap[u]
      OBVIOUS
    <3>3. Collate[r] \in DOMAIN rooms /\ rooms[Collate[r]].id = m.id
      BY <2>2, <3>1, <3>2, InRoom DEF Inv, Spoken
    <3> QED
      BY <3>3
  <2>5. /\ DOMAIN messages' = DOMAIN messages \cup {Len(messages) + 1}
        /\ \A k \in DOMAIN messages : messages'[k] = messages[k]
        /\ messages'[Len(messages) + 1] = m
    BY <2>2 DEF Spoken, Inv, Wired
  <2> QED
    BY <2>3, <2>4, <2>5 DEF KnownIds, NewRoomsEmpty, registry
<1>3. CASE messages' = messages
  <2>1. KnownIds'
    BY <1>1, <1>3 DEF KnownIds
  <2>2. ASSUME NEW v, NEW r, <<v, r>> \in creating' PROVE In(RS!RowOf(r).id)' = {}
    <3>1. CASE <<v, r>> \in creating
      <4>1. Collate[r] \in DOMAIN rooms
        BY <3>1 DEF Inv, RSP!IInv, RSP!TypeOK, RSP!CreatingIsStored, RSP!Known
      <4>2. rooms'[Collate[r]] = rooms[Collate[r]] /\ In(RS!RowOf(r).id) = {}
        BY <1>1, <3>1, <4>1 DEF NewRoomsEmpty
      <4> QED
        BY <1>3, <4>2 DEF In, RS!RowOf
    <3>2. CASE <<v, r>> \notin creating
      <4>1. PICK u \in Users, q \in RoomNames, id \in RoomIds : RS!AddRoom(u, q, id)
        BY <2>2, <3>2, StepsOfRooms
           DEF RS!Next, RS!vars, RS!tables, RS!AddRoomUnacknowledged, RS!JoinRoom, RS!CreateRoom,
               RS!LeaveRoom, RS!HandleDisconnect
      <4>2. r = q /\ rooms'[Collate[r]].id = id /\ id \in RS!FreshIds
        BY <2>2, <3>2, <4>1 DEF RS!AddRoom, RS!Insert, RS!Put
      <4>3. In(id) = {}
        BY <4>2 DEF In, KnownIds, RS!FreshIds
      <4> QED
        BY <1>3, <4>2, <4>3 DEF In, RS!RowOf
    <3> QED
      BY <3>1, <3>2
  <2> QED
    BY <2>1, <2>2 DEF NewRoomsEmpty
<1> QED
  BY <1>2, <1>3

\* Every step keeps users up to date.
LEMMA CaughtKept ==
  ASSUME DistinctNames, Inv, CaughtInv, [Next]_vars
  PROVE  CaughtInv'
<1>1. Inv'
  BY NextInv
<1>2. KnownIds' /\ NewRoomsEmpty'
  BY <1>1, IdsKept DEF CaughtInv
<1> SUFFICES ASSUME NEW u \in Users, Connected(u)', u \in DOMAIN userToRoomMap'
             PROVE  Caught(u)'
  BY <1>2 DEF CaughtInv
<1>3. Connected(u)
  BY EndsOnly DEF Connected
<1>4. u \in DOMAIN userToRoomMap => Caught(u)
  BY <1>3 DEF CaughtInv
<1>5. CASE UNCHANGED vars
  BY <1>4, <1>5, CaughtElsewhere DEF vars, registry, wires, client
<1>6. ASSUME NEW w \in Users, Type(w) PROVE Caught(u)'
  <2>1. PICK request \in Request : SendLine(w, request)
    BY <1>6, TypedLine DEF Inv
  <2>2. /\ UNCHANGED <<userToRoomMap, activeRooms, messages, toClient, seen>>
        /\ toServer'[u] = toServer[u] \/ \E e : toServer'[u] = Append(toServer[u], e)
    BY <2>1, LineWired DEF Inv, SendLine, registry
  <2>3. PICK r : r = userToRoomMap[u]
    OBVIOUS
  <2>4. Refreshes(u, r) => Refreshes(u, r)'
    BY <2>2, RefreshStays DEF Inv
  <2>5. /\ RoomId(u)' = RoomId(u) /\ Recent(RoomId(u))' = Recent(RoomId(u))
        /\ \A i : Shown(u, i) => Shown(u, i)'
    BY <2>2 DEF RoomId, Recent, AsLate, In, Shown
  <2> QED
    BY <1>4, <2>2, <2>3, <2>4, <2>5, CaughtStays DEF Caught
<1>7. ASSUME NEW w \in Users, Hear(w) PROVE Caught(u)'
  <2>1. CASE w = u
    BY <1>4, <1>7, <2>1, CaughtHears DEF Hear, registry
  <2>2. CASE w # u
    <3>1. /\ toClient'[u] = toClient[u] /\ toServer'[u] = toServer[u] /\ seen'[u] = seen[u]
          /\ UNCHANGED <<registry, messages>>
      BY <1>7, <2>2 DEF Hear, Add, Inv, Wired
    <3> QED
      BY <1>4, <3>1, CaughtElsewhere DEF registry
  <2> QED
    BY <2>1, <2>2
<1>8. ASSUME NEW w \in Users, GoDeaf(w) PROVE Caught(u)'
  <2>1. w # u
    BY <1>8 DEF GoDeaf, Connected
  <2>2. /\ toClient'[u] = toClient[u] /\ toServer' = toServer /\ seen' = seen
        /\ UNCHANGED <<registry, messages>>
    BY <1>8, <2>1 DEF GoDeaf, Inv, Wired
  <2> QED
    BY <1>4, <2>2, CaughtElsewhere DEF registry
<1>10. ASSUME NEW w \in Users, Drop(w) PROVE Caught(u)'
  BY <1>4, <1>10, CaughtElsewhere DEF Drop, registry, wires
<1>9. ASSUME NEW w \in Users, Serve(w) PROVE Caught(u)'
  <2>1. CASE w = u
    BY <1>1, <1>4, <1>9, <2>1, CaughtServed DEF CaughtInv, Connected
  <2>2. CASE w # u
    <3>1. u \in DOMAIN userToRoomMap
      BY <1>9, <2>2, OthersOverhear DEF Overhears, Stays
    <3> QED
      BY <1>1, <1>4, <1>9, <2>2, <3>1, CaughtOverhears
  <2> QED
    BY <2>1, <2>2
<1> QED
  BY <1>5, <1>6, <1>7, <1>8, <1>9, <1>10 DEF Next

\* A user in a room has been shown its last messages, once all is settled.
THEOREM AlwaysCaughtUp == DistinctNames => (Spec => []CaughtUp)
<1> SUFFICES ASSUME DistinctNames PROVE Spec => []CaughtUp
  OBVIOUS
<1>1. Init => CaughtInv
  BY DEF Init, RS!Init, RS!NoEntries, CaughtInv, KnownIds, NewRoomsEmpty
<1>2. Inv /\ CaughtInv /\ [Next]_vars => CaughtInv'
  BY CaughtKept
<1>3. Inv /\ CaughtInv => CaughtUp
  <2> SUFFICES ASSUME Inv, CaughtInv, NEW u \in Users, Connected(u), Settled(u),
                      u \in DOMAIN userToRoomMap, NEW i \in In(RoomId(u)),
                      Cardinality(AsLate(RoomId(u), i)) <= Limit
               PROVE  i \in seen[u]
    BY DEF CaughtUp, RoomId, AsLate
  <2>1. toServer[u] = <<>> /\ toClient[u] = <<>> /\ Caught(u)
    BY DEF Settled, Connected, CaughtInv
  <2>2. i \in Recent(RoomId(u))
    BY DEF Recent
  <2>3. DOMAIN toServer[u] = {} /\ DOMAIN toClient[u] = {}
    BY <2>1
  <2> QED
    BY <2>1, <2>2, <2>3 DEF Caught, Refreshes, Shown
<1> QED
  BY <1>1, <1>2, <1>3, Invariance, PTL DEF Spec

-----------------------------------------------------------------------------
(* How long a frame is.  Size folds over the messages of a frame, in an    *)
(* order nobody knows: Sums says what such a fold is.                      *)

\* The bytes message i takes in a frame for a room.
Weight(room, i) == messages[i].len + NameLength[room] + Overhead

Sums(room, S, g) ==
  g = [s \in SUBSET S |->
         IF s = {} THEN 0 ELSE LET x == CHOOSE x \in s : TRUE IN Weight(room, x) + g[s \ {x}]]

\* Of sets of a finite set's subsets, one has no other below it.
LEMMA LeastSubset ==
  ASSUME NEW S, IsFiniteSet(S), NEW bad, bad \subseteq SUBSET S, bad # {}
  PROVE  \E C \in bad : IsFiniteSet(C) /\ \A B \in bad : B \subseteq C => B = C
<1>1. bad \subseteq FiniteSubsetsOf(S)
  BY FS_FiniteSubsetsOfFinite
<1>2. PICK C \in bad : \A B \in bad : ~ (<<B, C>> \in StrictSubsetOrdering(S))
  BY <1>1, FS_StrictSubsetOrderingWellFounded, WFMin
<1>3. \A B \in bad : B \subseteq C => B = C
  BY <1>2 DEF StrictSubsetOrdering
<1>4. IsFiniteSet(C)
  BY FS_Subset
<1> QED
  BY <1>3, <1>4

\* What a sum is of a set.
LEMMA SumOf ==
  ASSUME NEW r, NEW S, NEW g, Sums(r, S, g), NEW C \in SUBSET S
  PROVE  /\ C = {} => g[C] = 0
         /\ C # {} => \E x \in C : /\ x = CHOOSE y \in C : TRUE
                                   /\ g[C] = Weight(r, x) + g[C \ {x}]
<1>1. g[C] = IF C = {} THEN 0 ELSE LET x == CHOOSE x \in C : TRUE IN Weight(r, x) + g[C \ {x}]
  BY DEF Sums
<1>2. C # {} => (CHOOSE y \in C : TRUE) \in C
  OBVIOUS
<1> QED
  BY <1>1, <1>2

\* Two sums agree where both are sums.
LEMMA SumsAgree ==
  ASSUME NEW r, NEW S, IsFiniteSet(S), NEW T, NEW g, NEW h, Sums(r, S, g), Sums(r, T, h),
         NEW C \in SUBSET S, C \subseteq T
  PROVE  g[C] = h[C]
<1>1. PICK bad : bad = {B \in SUBSET S : B \subseteq T /\ g[B] # h[B]}
  OBVIOUS
<1> SUFFICES ASSUME bad # {} PROVE FALSE
  BY <1>1
<1>2. PICK B \in bad : \A A \in bad : A \subseteq B => A = B
  BY <1>1, LeastSubset
<1>3. B \in SUBSET S /\ B \in SUBSET T /\ g[B] # h[B]
  BY <1>1
<1>4. B # {}
  BY <1>3, SumOf
<1>5. PICK x \in B : x = (CHOOSE y \in B : TRUE) /\ g[B] = Weight(r, x) + g[B \ {x}]
  BY <1>3, <1>4, SumOf
<1>6. h[B] = Weight(r, x) + h[B \ {x}]
  <2>1. PICK z \in B : z = (CHOOSE y \in B : TRUE) /\ h[B] = Weight(r, z) + h[B \ {z}]
    BY <1>3, <1>4, SumOf
  <2> QED
    BY <1>5, <2>1
<1>7. B \ {x} \notin bad
  BY <1>2
<1>8. g[B \ {x}] = h[B \ {x}]
  BY <1>1, <1>3, <1>7
<1> QED
  BY <1>3, <1>5, <1>6, <1>8

\* Every finite set has a sum.
LEMMA SumExists ==
  ASSUME NEW r, NEW S, IsFiniteSet(S)
  PROVE  \E g : Sums(r, S, g)
<1>0. PICK bad : bad = {B \in SUBSET S : ~ \E g : Sums(r, B, g)}
  OBVIOUS
<1> SUFFICES ASSUME bad # {} PROVE FALSE
  BY <1>0
<1>1. PICK C \in bad : IsFiniteSet(C) /\ \A A \in bad : A \subseteq C => A = C
  <2>1. bad \subseteq SUBSET S
    BY <1>0
  <2> QED
    BY <2>1, LeastSubset
<1> DEFINE of(B) == CHOOSE g : Sums(r, B, g)
           G == [s \in SUBSET C |->
                  IF s = {} THEN 0
                  ELSE LET x == CHOOSE x \in s : TRUE IN Weight(r, x) + of(s \ {x})[s \ {x}]]
<1>2. \A B \in SUBSET C : B # C => Sums(r, B, of(B)) /\ IsFiniteSet(B)
  <2>1. ASSUME NEW B \in SUBSET C, B # C PROVE \E g : Sums(r, B, g)
    BY <1>0, <1>1, <2>1
  <2> QED
    BY <1>1, <2>1, FS_Subset
<1>3. ASSUME NEW B \in SUBSET C, B # C PROVE G[B] = of(B)[B]
  <2>1. Sums(r, B, of(B)) /\ IsFiniteSet(B)
    BY <1>2, <1>3
  <2>2. CASE B = {}
    <3>1. G[B] = 0
      BY <2>2
    <3>2. of(B)[B] = 0
      BY <2>1, <2>2, SumOf
    <3> QED
      BY <3>1, <3>2
  <2>3. CASE B # {}
    <3>0. PICK h : h = of(B)
      OBVIOUS
    <3>1. PICK x \in B : x = (CHOOSE y \in B : TRUE) /\ h[B] = Weight(r, x) + h[B \ {x}]
      <4>1. Sums(r, B, h) /\ B \in SUBSET B
        BY <2>1, <3>0
      <4> QED
        BY <2>3, <4>1, SumOf
    <3>2. G[B] = Weight(r, x) + of(B \ {x})[B \ {x}]
      BY <2>3, <3>1
    <3>3. Sums(r, B \ {x}, of(B \ {x}))
      BY <1>2
    <3>4. h[B \ {x}] = of(B \ {x})[B \ {x}]
      BY <2>1, <3>0, <3>3, SumsAgree
    <3> QED
      BY <3>0, <3>1, <3>2, <3>4
  <2> QED
    BY <2>2, <2>3
<1>4. Sums(r, C, G)
  <2> DEFINE H == [s \in SUBSET C |->
                    IF s = {} THEN 0
                    ELSE LET x == CHOOSE x \in s : TRUE IN Weight(r, x) + G[s \ {x}]]
  <2>1. ASSUME NEW s \in SUBSET C PROVE G[s] = H[s]
    <3>1. CASE s = {}
      BY <3>1
    <3>2. CASE s # {}
      <4>1. PICK x : x = CHOOSE y \in s : TRUE
        OBVIOUS
      <4>2. x \in s
        BY <3>2, <4>1
      <4>3. G[s] = Weight(r, x) + of(s \ {x})[s \ {x}]
        BY <3>2, <4>1
      <4>4. H[s] = Weight(r, x) + G[s \ {x}]
        BY <3>2, <4>1
      <4>5. of(s \ {x})[s \ {x}] = G[s \ {x}]
        <5>1. s \ {x} \in SUBSET C /\ s \ {x} # C
          BY <4>2
        <5> HIDE DEF G, of
        <5> QED
          BY <1>3, <5>1
      <4> HIDE DEF G, H, of
      <4> QED
        BY <4>3, <4>4, <4>5
    <3> QED
      BY <3>1, <3>2
  <2>2. G = H
    <3>1. G = [s \in SUBSET C |-> G[s]] /\ H = [s \in SUBSET C |-> H[s]]
      OBVIOUS
    <3> HIDE DEF G, H
    <3> QED
      BY <2>1, <3>1
  <2>3. PICK k : k = G
    OBVIOUS
  <2>4. k = [s \in SUBSET C |->
               IF s = {} THEN 0 ELSE LET x == CHOOSE x \in s : TRUE IN Weight(r, x) + k[s \ {x}]]
    <3> HIDE DEF G
    <3> QED
      BY <2>2, <2>3
  <2> QED
    <3> HIDE DEF G
    <3> QED
      BY <2>3, <2>4 DEF Sums
<1> QED
  BY <1>0, <1>1, <1>4

\* The size of a frame is what it says itself and the sum of its messages.
LEMMA SizeIsSum ==
  ASSUME NEW frame, IsFiniteSet(frame.of)
  PROVE  \E g : /\ Sums(frame.room, frame.of, g)
                /\ Size(frame) = Overhead + frame.text
                                   + NamesIn(frame.what) * NameLength[frame.room] + g[frame.of]
<1>1. PICK S, r : S = frame.of /\ r = frame.room
  OBVIOUS
<1>2. PICK g : Sums(r, S, g)
  BY <1>1, SumExists
<1> DEFINE c == CHOOSE h : Sums(r, S, h)
<1>3. Sums(r, S, c)
  BY <1>2
<1>4. Size(frame) = Overhead + frame.text + NamesIn(frame.what) * NameLength[frame.room] + c[S]
  BY <1>1 DEF Size, MapThenSumSet, MapThenFoldSet, Sums, Weight
<1> QED
  BY <1>1, <1>3, <1>4

\* A sum is at most so many times the heaviest.
LEMMA SumBound ==
  ASSUME NEW r, NEW S, IsFiniteSet(S), NEW g, Sums(r, S, g), S # {},
         \A i \in S : Weight(r, i) \in Nat
  PROVE  g[S] \in Nat /\ \E m \in S : g[S] <= Cardinality(S) * Weight(r, m)
<1> DEFINE bounded(C) == g[C] \in Nat /\ \E m \in C : g[C] <= Cardinality(C) * Weight(r, m)
<1>0. PICK bad : bad = {C \in SUBSET S : C # {} /\ ~bounded(C)}
  OBVIOUS
<1> SUFFICES ASSUME bad # {} PROVE FALSE
  <2> HIDE DEF bounded
  <2>1. bad = {} => bounded(S)
    BY <1>0
  <2> QED
    BY <2>1 DEF bounded
<1>1. PICK C \in bad : IsFiniteSet(C) /\ \A A \in bad : A \subseteq C => A = C
  <2>1. bad \subseteq SUBSET S
    BY <1>0
  <2> QED
    BY <2>1, LeastSubset
<1>2. PICK x \in C : g[C] = Weight(r, x) + g[C \ {x}]
  <2>1. C \in SUBSET S /\ C # {}
    BY <1>0
  <2> QED
    BY <2>1, SumOf
<1>3. PICK B : B = C \ {x}
  OBVIOUS
<1>4. /\ IsFiniteSet(B) /\ Cardinality(B) \in Nat /\ Cardinality(C) = Cardinality(B) + 1
      /\ Weight(r, x) \in Nat
  <2>1. /\ IsFiniteSet(B) /\ Cardinality(B) \in Nat /\ Cardinality(B) = Cardinality(C) - 1
        /\ Cardinality(C) \in Nat
    BY <1>1, <1>3, FS_RemoveElement, FS_CardinalityType
  <2>2. x \in S
    BY <1>0
  <2> QED
    BY <2>1, <2>2
<1>5. CASE B = {}
  <2>1. g[B] = 0
    BY <1>5, SumOf
  <2>2. Cardinality(B) = 0
    BY <1>5, FS_EmptySet
  <2>3. g[C] = Weight(r, x) /\ Cardinality(C) * Weight(r, x) = Weight(r, x)
    BY <1>2, <1>3, <1>4, <2>1, <2>2
  <2> QED
    BY <1>0, <1>4, <2>3
<1>6. CASE B # {}
  <2>0. B \subseteq C /\ B # C /\ C \in SUBSET S
    BY <1>0, <1>2, <1>3
  <2>1. bounded(B)
    <3> HIDE DEF bounded
    <3>1. B \notin bad /\ B \in SUBSET S
      BY <1>1, <2>0
    <3> QED
      BY <1>0, <1>6, <3>1
  <2>2. PICK m \in B : g[B] <= Cardinality(B) * Weight(r, m)
    BY <2>1
  <2>3. PICK n, a, b, s : /\ n = Cardinality(B) /\ a = Weight(r, x) /\ b = Weight(r, m) /\ s = g[B]
    OBVIOUS
  <2>4. n \in Nat /\ a \in Nat /\ b \in Nat /\ s \in Nat /\ s <= n * b
    <3>1. m \in S
      BY <1>0, <1>3
    <3> QED
      BY <1>4, <2>1, <2>2, <2>3, <3>1
  <2>5. CASE a <= b
    <3>1. a + s <= (n + 1) * b
      BY <2>4, <2>5
    <3> QED
      BY <1>0, <1>2, <1>3, <1>4, <2>3, <2>4, <3>1
  <2>6. CASE b <= a
    <3>1. n * b <= n * a
      BY <2>4, <2>6
    <3>2. a + s <= (n + 1) * a
      BY <2>4, <3>1
    <3> QED
      BY <1>0, <1>2, <1>3, <1>4, <2>3, <2>4, <3>2
  <2> QED
    BY <2>4, <2>5, <2>6
<1> QED
  BY <1>5, <1>6

-----------------------------------------------------------------------------
(* Whose client stops reading.                                             *)

\* A frame is made of no more messages than a client asks for, and of names and
\* a text no longer than the longest typed.
Fits(f, most) ==
  /\ Cardinality(f.of) <= Limit
  /\ NameLength[f.room] <= most /\ f.text <= most
  /\ f.text = 0 \/ NamesIn(f.what) <= 1

\* No text and no name, stored or on its way, is longer than the longest typed.
Within ==
  /\ \A i \in DOMAIN messages : messages[i].len <= longest
  /\ \A u \in Users : \A i \in DOMAIN toServer[u] : Typed(toServer[u][i]) <= longest
  /\ \A u \in Users : \A i \in DOMAIN toClient[u] : Fits(toClient[u][i], longest)
  /\ \A u \in DOMAIN userToRoomMap : NameLength[userToRoomMap[u]] <= longest
  /\ \A v, r : <<v, r>> \in creating => NameLength[r] <= longest

\* No frame that fits is longer than one of the messages a client asks for, each
\* with a text and a name as long as any.
LEMMA FrameBound ==
  ASSUME messages \in Seq(Message), longest \in Nat, NEW f \in Frames, Fits(f, longest),
         \A i \in DOMAIN messages : messages[i].len <= longest
  PROVE  Size(f) \in Nat /\ Size(f) <= (Limit + 1) * (2 * longest + Overhead)
<1>1. /\ Overhead \in Nat /\ Limit \in Nat
      /\ NameLength \in [RoomNames -> Nat]
  BY ConversationAssumption DEF ConversationAssumption
<1>2. f.of \subseteq DOMAIN messages /\ IsFiniteSet(f.of) /\ f.room \in RoomNames /\ f.text \in Nat
  <2>1. f.of \subseteq DOMAIN messages /\ f.room \in RoomNames /\ f.text \in Nat
    BY DEF Frames
  <2> QED
    BY <2>1, InFinite, FS_Subset
<1>3. PICK g : /\ Sums(f.room, f.of, g)
               /\ Size(f) = Overhead + f.text + NamesIn(f.what) * NameLength[f.room] + g[f.of]
  BY <1>2, SizeIsSum
<1>4. PICK a, t, k, n, s, B : /\ a = NameLength[f.room] /\ t = f.text /\ k = NamesIn(f.what)
                              /\ n = Cardinality(f.of) /\ s = g[f.of]
                              /\ B = 2 * longest + Overhead
  OBVIOUS
<1>5. a \in Nat /\ t \in Nat /\ n \in Nat /\ B \in Nat
  BY <1>1, <1>2, <1>4, FS_CardinalityType
<1>6. Overhead + t + k * a <= B
  <2>1. k \in {0, 1, 2}
    BY <1>4 DEF NamesIn
  <2>2. a <= longest /\ t <= longest /\ (t = 0 \/ k <= 1)
    BY <1>4 DEF Fits
  <2>3. k * a \in Nat /\ t + k * a <= 2 * longest
    BY <1>5, <2>1, <2>2
  <2> QED
    BY <1>1, <1>4, <1>5, <2>3
<1>7. \A i \in DOMAIN messages : Weight(f.room, i) \in Nat /\ Weight(f.room, i) <= B
  <2>1. \A i \in DOMAIN messages : messages[i].len \in Nat
    <3>1. \A i \in DOMAIN messages : messages[i] \in Message
      OBVIOUS
    <3> QED
      BY <3>1 DEF Message
  <2>2. a <= longest
    BY <1>4 DEF Fits
  <2> SUFFICES ASSUME NEW i \in DOMAIN messages
               PROVE  Weight(f.room, i) \in Nat /\ Weight(f.room, i) <= B
    OBVIOUS
  <2>3. PICK n2 \in Nat : n2 = messages[i].len /\ n2 <= longest
    BY <2>1
  <2>4. Weight(f.room, i) = n2 + a + Overhead
    BY <1>4, <2>3 DEF Weight
  <2>5. PICK w, l, o : w = Weight(f.room, i) /\ l = longest /\ o = Overhead
    OBVIOUS
  <2>6. w = n2 + a + o /\ B = 2 * l + o /\ n2 <= l /\ a <= l /\ l \in Nat /\ o \in Nat
    BY <1>1, <1>4, <2>2, <2>3, <2>4, <2>5
  <2>7. w \in Nat /\ w <= B
    BY <1>5, <2>3, <2>6
  <2> QED
    BY <2>5, <2>7
<1>8. s \in Nat /\ s <= n * B
  <2>1. CASE f.of = {}
    <3>1. s = 0 /\ n = 0
      BY <1>3, <1>4, <2>1, SumOf, FS_EmptySet
    <3> QED
      BY <1>5, <3>1
  <2>2. CASE f.of # {}
    <3>1. PICK m \in f.of : g[f.of] \in Nat /\ g[f.of] <= Cardinality(f.of) * Weight(f.room, m)
      BY <1>2, <1>3, <1>7, <2>2, SumBound
    <3>2. PICK w : w = Weight(f.room, m)
      OBVIOUS
    <3>3. w \in Nat /\ w <= B
      BY <1>2, <1>7, <3>2
    <3>4. n * w <= n * B
      BY <1>5, <3>3
    <3>5. s \in Nat /\ s <= n * w
      BY <1>4, <3>1, <3>2
    <3> QED
      BY <1>5, <3>3, <3>4, <3>5
  <2> QED
    BY <2>1, <2>2
<1>9. n <= Limit
  BY <1>4 DEF Fits
<1>10. n * B <= Limit * B
  BY <1>1, <1>5, <1>9
<1>11. (Limit + 1) * B = Limit * B + B /\ n * B \in Nat /\ Limit * B \in Nat
  BY <1>1, <1>5
<1>12. Size(f) = Overhead + t + k * a + s
  BY <1>3, <1>4
<1>13. Size(f) \in Nat /\ Size(f) <= Limit * B + B
  <2>1. PICK x, y, z : x = Overhead + t + k * a /\ y = n * B /\ z = Limit * B
    OBVIOUS
  <2>2. x \in Nat
    <3>1. k \in {0, 1, 2}
      BY <1>4 DEF NamesIn
    <3> QED
      BY <1>1, <1>5, <2>1, <3>1
  <2> QED
    BY <1>5, <1>6, <1>8, <1>10, <1>11, <1>12, <2>1, <2>2
<1> QED
  BY <1>4, <1>11, <1>13

\* What a frame carries: nothing, the message just said, or some history.
Carried(of) ==
  \/ of = {}
  \/ of = {Len(messages) + 1}
  \/ \E id : of \in Latest(id)

\* None of this is more than the client asks for.
LEMMA CarriedFits ==
  ASSUME messages \in Seq(Message), NEW of, Carried(of)
  PROVE  Cardinality(of) <= Limit
<1>1. Limit \in Nat /\ Limit >= 1
  BY ConversationAssumption DEF ConversationAssumption
<1>2. CASE of = {}
  BY <1>1, <1>2, FS_EmptySet
<1>3. CASE of = {Len(messages) + 1}
  BY <1>1, <1>3, FS_Singleton
<1>4. ASSUME NEW id, of \in Latest(id) PROVE Cardinality(of) <= Limit
  <2>1. PICK c : c = Cardinality(In(id))
    OBVIOUS
  <2>2. c \in Nat /\ Cardinality(of) = Min({Limit, c})
    BY <1>4, <2>1, InFinite, FS_CardinalityType DEF Latest
  <2>3. \E m \in {Limit, c} : \A y \in {Limit, c} : m <= y
    <3>1. CASE Limit <= c
      BY <1>1, <2>2, <3>1
    <3>2. CASE c <= Limit
      BY <1>1, <2>2, <3>2
    <3> QED
      BY <1>1, <2>2, <3>1, <3>2
  <2>4. Min({Limit, c}) <= Limit
    BY <2>3 DEF Min
  <2> QED
    BY <2>2, <2>4
<1> QED
  BY <1>2, <1>3, <1>4 DEF Carried

\* The request a session is at names a room, or has a text, that was typed.
LEMMA HeadWithin ==
  ASSUME Inv, Within, NEW u \in Users, toServer[u] # <<>>
  PROVE  /\ Typed(Head(toServer[u])) \in Nat /\ Typed(Head(toServer[u])) <= longest
         /\ Head(toServer[u]).op \notin Texts =>
              Asked(u) \in RoomNames /\ NameLength[Asked(u)] <= longest
         /\ Head(toServer[u]).op \in Texts => Head(toServer[u]).len <= longest
<1>1. toServer[u] \in Seq(Request)
  BY DEF Inv, Wired
<1>2. 1 \in DOMAIN toServer[u] /\ Head(toServer[u]) = toServer[u][1]
  BY <1>1
<1>3. Typed(Head(toServer[u])) \in Nat /\ Typed(Head(toServer[u])) <= longest
  BY <1>2, Heads, TypedIsLength DEF Inv, Within
<1>4. Head(toServer[u]).op \notin Texts => Asked(u) \in RoomNames
  BY Heads DEF Inv
<1> QED
  BY <1>3, <1>4 DEF Typed, Asked, Texts

\* A frame that names a room asked for, or none, fits, if what it carries does.
LEMMA FrameFits ==
  ASSUME Inv, NEW what, NEW r \in RoomNames, NameLength[r] <= longest, NEW of, Carried(of)
  PROVE  Fits(Frame(what, r, of), longest)
<1>1. PICK f : f = Frame(what, r, of)
  OBVIOUS
<1>2. f.of = of /\ f.room = r /\ f.text = 0
  BY <1>1 DEF Frame
<1>3. Cardinality(of) <= Limit /\ 0 <= longest
  BY CarriedFits DEF Inv, Wired
<1> QED
  BY <1>1, <1>2, <1>3 DEF Fits

\* The room called "" has the shortest name.
LEMMA NoRoomFits ==
  ASSUME Inv
  PROVE  NoRoom \in RoomNames /\ NameLength[NoRoom] <= longest
BY ConversationAssumption DEF ConversationAssumption, Inv, Wired

\* What the server puts on its way when it serves a request.
LEMMA ServeCarries ==
  ASSUME Inv, Within, NEW w \in Users, Serve(w), NEW v \in Users
  PROVE  \/ toClient'[v] = toClient[v]
         \/ \E f : toClient'[v] = Append(toClient[v], f) /\ Fits(f, longest)
<1> USE DEF Inv
<1>1. \A op : Reads(w, op) =>
           /\ toServer[w] # <<>> /\ Head(toServer[w]).op = op
           /\ op \notin Texts => Asked(w) \in RoomNames /\ NameLength[Asked(w)] <= longest
  BY ReadsHead, HeadWithin
<1>2. \A f : Answer(w, f) => toClient'[v] = toClient[v] \/ toClient'[v] = Append(toClient[v], f)
  BY DEF Answer, Add, Wired
<1>3. Carried({})
  BY DEF Carried
<1>4. CASE Join(w) \/ Leave(w)
  <2>1. PICK r : r = Asked(w)
    OBVIOUS
  <2>2. r \in RoomNames /\ NameLength[r] <= longest
    BY <1>1, <1>4, <2>1 DEF Join, Leave, Texts
  <2>3. PICK what \in {"joined", "left"} : \E members :
           BroadcastAndAnswer(w, members, Frame("notice", r, {}), Frame(what, r, {}))
    BY <1>4, <2>1 DEF Join, Leave
  <2>4. PICK f, g : f = Frame("notice", r, {}) /\ g = Frame(what, r, {})
    OBVIOUS
  <2>5. f \in Frames /\ g \in Frames
    BY <2>2, <2>4 DEF Frame, Frames, Kinds
  <2>6. Fits(f, longest) /\ Fits(g, longest)
    BY <1>3, <2>2, <2>4, FrameFits
  <2>7. PICK members : BroadcastAndAnswer(w, members, f, g)
    BY <2>3, <2>4
  <2>8. Sent(w, f, g)
    BY <2>5, <2>7, BroadcastSends
  <2> QED
    BY <2>6, <2>8 DEF Sent
<1>5. CASE Curt(w)
  <2>1. PICK f \in Frames :
           /\ Answer(w, f) /\ f.what \in {"unknown", "error"}
           /\ f.room = NoRoom /\ f.of = {}
           /\ f.text = 0 \/ f.text = Typed(Head(toServer[w]))
    BY <1>5, CurtAnswers
  <2>2. f.text <= longest
    <3>1. toServer[w] # <<>> /\ 0 <= longest
      BY <1>5, CurtAnswers DEF Wired
    <3> QED
      BY <2>1, <3>1, HeadWithin
  <2>3. NamesIn(f.what) = 0
    BY <2>1 DEF NamesIn
  <2>4. Cardinality(f.of) <= Limit
    BY <1>3, <2>1, CarriedFits DEF Wired
  <2>5. Fits(f, longest)
    BY <2>1, <2>2, <2>3, <2>4, NoRoomFits DEF Fits
  <2> QED
    BY <1>2, <2>1, <2>5
<1>6. CASE CreateTaken(w)
  <2>1. Asked(w) \in RoomNames /\ NameLength[Asked(w)] <= longest
    BY <1>1, <1>6 DEF CreateTaken, Texts
  <2>2. Answer(w, Frame("taken", Asked(w), {}))
    BY <1>6 DEF CreateTaken
  <2> QED
    BY <1>2, <1>3, <2>1, <2>2, FrameFits
<1>7. CASE Create(w)
  <2>1. PICK r \in RoomNames : /\ RS!CreateRoom(w, w, r, RS!RowOf(r).id)
                               /\ Answer(w, Frame("created", r, {}))
    BY <1>7 DEF Create
  <2>2. NameLength[r] <= longest
    BY <2>1 DEF RS!CreateRoom, Within
  <2> QED
    BY <1>2, <1>3, <2>1, <2>2, FrameFits
<1>8. CASE Say(w)
  <2>1. PICK m : Spoken(w, m)
    BY <1>8, SayWired
  <2>2. w \in DOMAIN userToRoomMap
    BY <1>8, SayWired
  <2>3. PICK r : r = RS!CurrentRoomName(w, NoRoom)
    OBVIOUS
  <2>4. r \in RoomNames /\ NameLength[r] <= longest
    BY <2>2, <2>3, InRoom DEF Within
  <2>5. PICK f : f = Frame("message", r, {Len(messages) + 1})
    OBVIOUS
  <2>6. Fits(f, longest)
    BY <2>4, <2>5, FrameFits DEF Carried
  <2> QED
    BY <2>1, <2>3, <2>5, <2>6 DEF Spoken
<1>9. CASE Whisper(w)
  <2>1. PICK f, g \in Frames :
           /\ Sent(w, f, g) /\ f.what = "whisper" /\ g.what = "whispered"
           /\ \A h \in {f, g} : /\ h.of = {} /\ h.text = Typed(Head(toServer[w]))
                                /\ h.room = userToRoomMap[w]
    BY <1>9, WhisperSends
  <2>2. toServer[w] # <<>> /\ w \in DOMAIN userToRoomMap
    BY <1>9, WhisperSends
  <2>3. ASSUME NEW h \in {f, g} PROVE Fits(h, longest)
    <3>1. NamesIn(h.what) = 1
      BY <2>1 DEF NamesIn
    <3>2. NameLength[h.room] <= longest
      BY <2>1, <2>2 DEF Within
    <3>3. h.text <= longest
      BY <2>1, <2>2, HeadWithin
    <3>4. Cardinality(h.of) <= Limit
      BY <1>3, <2>1, CarriedFits DEF Wired
    <3> QED
      BY <3>1, <3>2, <3>3, <3>4 DEF Fits
  <2> QED
    BY <2>1, <2>3 DEF Sent
<1>10. CASE History(w)
  <2>1. PICK of \in Latest(RS!CurrentRoomId(w, NoRoom)) : Answer(w, Frame("history", Asked(w), of))
    BY <1>10 DEF History
  <2>2. Asked(w) \in RoomNames /\ NameLength[Asked(w)] <= longest
    BY <1>1, <1>10 DEF History, Texts
  <2>3. Carried(of)
    BY DEF Carried
  <2> QED
    BY <1>2, <2>1, <2>2, <2>3, FrameFits
<1>11. CASE AddRoom(w) \/ Refuse(w) \/ HistoryDenied(w)
  BY <1>11 DEF AddRoom, Refuse, HistoryDenied, wires
<1> QED
  BY <1>4, <1>5, <1>6, <1>7, <1>8, <1>9, <1>10, <1>11 DEF Serve, Curt

\* The rooms users are in, and those being created, are rooms they asked for.
LEMMA RoomsWithin ==
  ASSUME Inv, Within, NEW w \in Users, Serve(w)
  PROVE  /\ \A u \in DOMAIN userToRoomMap' : NameLength[userToRoomMap'[u]] <= longest
         /\ \A v, r : <<v, r>> \in creating' => NameLength[r] <= longest
<1> USE DEF Inv
<1>1. \A op \in {"join", "leave", "create"} : Reads(w, op) => NameLength[Asked(w)] <= longest
  <2>1. ASSUME NEW op \in {"join", "leave", "create"}, Reads(w, op)
        PROVE  NameLength[Asked(w)] <= longest
    BY <2>1, ReadsHead, HeadWithin DEF Texts
  <2> QED
    BY <2>1
<1>2. CASE Join(w)
  <2>1. NameLength[Asked(w)] <= longest
    BY <1>1, <1>2 DEF Join
  <2>2. userToRoomMap' = Put(userToRoomMap, w, Asked(w)) /\ creating' = creating
    BY <1>2 DEF Join, RS!JoinRoom, RS!tables, RS!Put, Put
  <2> QED
    BY <2>1, <2>2 DEF Within, Put
<1>3. ASSUME \/ userToRoomMap' = userToRoomMap
             \/ \E S : userToRoomMap' = [u \in S |-> userToRoomMap[u]] /\ S \subseteq DOMAIN userToRoomMap
      PROVE  \A u \in DOMAIN userToRoomMap' : NameLength[userToRoomMap'[u]] <= longest
  BY <1>3 DEF Within
<1>4. CASE Leave(w) \/ Refuse(w)
  <2>1. creating' = creating
    BY <1>4 DEF Leave, Refuse, RS!LeaveRoom, RS!HandleDisconnect, RS!tables
  <2>2. \/ userToRoomMap' = userToRoomMap
        \/ userToRoomMap' = [u \in DOMAIN userToRoomMap \ {w} |-> userToRoomMap[u]]
    BY <1>4 DEF Leave, Refuse, RS!LeaveRoom, RS!HandleDisconnect, RS!Erase, RS!Restrict, RS!seating
  <2> QED
    BY <1>3, <2>1, <2>2 DEF Within
<1>5. CASE AddRoom(w)
  <2>1. creating' = creating \cup {<<w, Asked(w)>>} /\ userToRoomMap' = userToRoomMap
    BY <1>5 DEF AddRoom, RS!AddRoom, RS!seating
  <2>2. NameLength[Asked(w)] <= longest
    BY <1>1, <1>5 DEF AddRoom
  <2> QED
    BY <1>3, <2>1, <2>2 DEF Within
<1>6. CASE Create(w)
  <2>1. PICK r \in RoomNames : RS!CreateRoom(w, w, r, RS!RowOf(r).id)
    BY <1>6 DEF Create
  <2>2. <<w, r>> \in creating /\ creating' \subseteq creating
        /\ userToRoomMap' = Put(userToRoomMap, w, r)
    BY <2>1 DEF RS!CreateRoom, RS!Put, Put
  <2>3. NameLength[r] <= longest
    BY <2>2 DEF Within
  <2> QED
    BY <2>2, <2>3 DEF Within, Put
<1>7. CASE UNCHANGED registry
  BY <1>3, <1>7 DEF Within, registry
<1>8. UNCHANGED registry \/ Join(w) \/ Leave(w) \/ Refuse(w) \/ AddRoom(w) \/ Create(w)
  BY DEF Serve, JoinUnknown, CreateTaken, Say, SayNowhere, Whisper, WhisperFails, History,
         HistoryDenied
<1> QED
  BY <1>2, <1>4, <1>5, <1>6, <1>7, <1>8

\* The table only grows.
LEMMA TableGrows ==
  ASSUME Inv, [Next]_vars
  PROVE  \A i \in DOMAIN messages : i \in DOMAIN messages' /\ messages'[i] = messages[i]
<1>1. messages' = messages \/ \E w \in Users : Say(w)
  BY TypedLine DEF Next, Serve, Join, JoinUnknown, Leave, CreateTaken, AddRoom, Create, SayNowhere,
     Whisper, WhisperFails, Refuse, History, HistoryDenied, Hear, GoDeaf, Drop, SendLine, vars, Inv
<1>2. ASSUME NEW w \in Users, Say(w) PROVE \E m : messages' = Append(messages, m)
  BY <1>2, SayWired DEF Spoken
<1>3. ASSUME NEW m, messages' = Append(messages, m)
      PROVE  \A i \in DOMAIN messages : i \in DOMAIN messages' /\ messages'[i] = messages[i]
  <2>1. messages \in Seq(Message)
    BY DEF Inv, Wired
  <2> QED
    BY <1>3, <2>1
<1> QED
  BY <1>1, <1>2, <1>3

\* The longest line grows as lines are typed.
LEMMA LongestGrows ==
  ASSUME Inv, [Next]_vars
  PROVE  /\ longest' \in Nat /\ longest <= longest'
         /\ (\A w \in Users : ~Type(w)) => longest' = longest
<1>1. ASSUME NEW w \in Users, Type(w) PROVE longest' \in Nat /\ longest <= longest'
  <2>1. PICK request \in Request : SendLine(w, request)
    BY <1>1, TypedLine DEF Inv
  <2> QED
    BY <2>1, TypedIsLength DEF SendLine, Inv, Wired
<1>2. (\A w \in Users : ~Type(w)) => longest' = longest
  BY DEF Next, Serve, Join, JoinUnknown, Leave, CreateTaken, AddRoom, Create, Say, SayNowhere,
     Whisper, WhisperFails, Refuse, History, HistoryDenied, Hear, GoDeaf, Drop, vars, client
<1>3. longest \in Nat
  BY DEF Inv, Wired
<1> QED
  BY <1>1, <1>2, <1>3

\* What fits goes on to fit as the longest line grows.
LEMMA FitsOn ==
  ASSUME Inv, longest' \in Nat, longest <= longest', NEW f \in Frames, Fits(f, longest)
  PROVE  Fits(f, longest')
<1>1. longest \in Nat /\ NameLength[f.room] \in Nat /\ f.text \in Nat
  BY ConversationAssumption DEF ConversationAssumption, Inv, Wired, Frames
<1> QED
  BY <1>1 DEF Fits

\* Names, texts and frames are made of what was typed.
LEMMA WithinKept ==
  ASSUME Inv, Within, [Next]_vars
  PROVE  Within'
<1> USE DEF Inv
<1>1. /\ longest \in Nat /\ longest' \in Nat /\ longest <= longest'
      /\ (\A w \in Users : ~Type(w)) => longest' = longest
  BY LongestGrows DEF Wired
<1>2. Inv'
  BY NextInv
<1>3. \A i \in DOMAIN messages' : messages'[i].len <= longest'
  <2>1. \A i \in DOMAIN messages : messages[i].len \in Nat
    <3>1. \A i \in DOMAIN messages : messages[i] \in Message
      BY DEF Wired
    <3> QED
      BY <3>1 DEF Message
  <2>2. CASE messages' = messages
    BY <1>1, <2>1, <2>2 DEF Within
  <2>3. ASSUME NEW w \in Users, Say(w) PROVE \A i \in DOMAIN messages' : messages'[i].len <= longest'
    <3>1. toServer[w] # <<>> /\ Head(toServer[w]).len <= longest /\ longest' = longest
      BY <2>3, ReadsHead, HeadWithin DEF Say, Texts, client
    <3>2. PICK m : messages' = Append(messages, m) /\ m.len = Head(toServer[w]).len
      BY <2>3 DEF Say
    <3>3. messages \in Seq(Message)
      BY DEF Wired
    <3>4. \A i \in DOMAIN messages' : \/ i \in DOMAIN messages /\ messages'[i] = messages[i]
                                      \/ messages'[i] = m
      BY <3>2, <3>3
    <3> QED
      BY <3>1, <3>2, <3>4 DEF Within
  <2>4. messages' = messages \/ \E w \in Users : Say(w)
    BY TypedLine DEF Next, Serve, Join, JoinUnknown, Leave, CreateTaken, AddRoom, Create, SayNowhere,
       Whisper, WhisperFails, Refuse, History, HistoryDenied, Hear, GoDeaf, Drop, SendLine, vars
  <2> QED
    BY <2>2, <2>3, <2>4
<1>4. ASSUME NEW u \in Users, NEW i \in DOMAIN toServer'[u] PROVE Typed(toServer'[u][i]) <= longest'
  <2>1. PICK q : q = toServer[u]
    OBVIOUS
  <2>2. q \in Seq(Request) /\ \A k \in DOMAIN q : Typed(q[k]) \in Nat /\ Typed(q[k]) <= longest
    BY <2>1, TypedIsLength DEF Wired, Within
  <2>3. \A k \in DOMAIN q : Typed(q[k]) <= longest'
    BY <1>1, <2>2
  <2>4. CASE toServer'[u] = q
    BY <2>3, <2>4
  <2>5. CASE q # <<>> /\ toServer'[u] = Tail(q)
    <3>1. i + 1 \in DOMAIN q /\ toServer'[u][i] = q[i + 1]
      BY <2>2, <2>5
    <3> QED
      BY <2>3, <3>1
  <2>6. ASSUME NEW e \in Request, toServer'[u] = Append(q, e), Typed(e) <= longest'
        PROVE  Typed(toServer'[u][i]) <= longest'
    <3>1. toServer'[u][i] = e \/ (i \in DOMAIN q /\ toServer'[u][i] = q[i])
      BY <2>2, <2>6
    <3> QED
      BY <2>3, <2>6, <3>1
  <2>7. ASSUME NEW w \in Users, Type(w) PROVE Typed(toServer'[u][i]) <= longest'
    <3>1. PICK request \in Request : SendLine(w, request)
      BY <2>7, TypedLine
    <3>2. Typed(request) <= longest'
      BY <1>1, <3>1, TypedIsLength DEF SendLine
    <3>3. toServer'[u] = q \/ toServer'[u] = Append(q, request)
      BY <2>1, <3>1, LineWired
    <3> QED
      BY <2>4, <2>6, <3>2, <3>3
  <2>8. ASSUME NEW w \in Users, Hear(w) PROVE Typed(toServer'[u][i]) <= longest'
    <3>1. PICK f : f = Head(toClient[w])
      OBVIOUS
    <3>2. toClient[w] \in Seq(Frames) /\ toClient[w] # <<>>
      BY <2>8 DEF Hear, Arrives, Wired
    <3>3. f \in Frames /\ 1 \in DOMAIN toClient[w] /\ f = toClient[w][1]
      BY <3>1, <3>2
    <3>4. NameLength[f.room] <= longest' /\ f.room \in RoomNames
      BY <2>8, <3>3 DEF Within, Fits, Frames, Hear
    <3>5. PICK e : e = [op |-> "history", room |-> f.room]
      OBVIOUS
    <3>6. e \in Request /\ Typed(e) <= longest'
      BY <3>4, <3>5 DEF Request, Typed
    <3>7. toServer'[u] = q \/ toServer'[u] = Append(q, e)
      BY <2>1, <2>8, <3>1, <3>5 DEF Hear, Add, Wired
    <3> QED
      BY <2>4, <2>6, <3>6, <3>7
  <2>9. ASSUME NEW w \in Users, Serve(w) PROVE toServer'[u] = q \/ (q # <<>> /\ toServer'[u] = Tail(q))
    <3>1. CASE AddRoom(w)
      BY <2>1, <3>1 DEF AddRoom, wires
    <3>2. CASE ~AddRoom(w)
      <4>1. toServer[w] # <<>> /\ Taken(w)
        BY <2>9, <3>2 DEF Serve, Join, JoinUnknown, Leave, CreateTaken, Create, Say, SayNowhere,
           Whisper, WhisperFails, Refuse, History, HistoryDenied, Reads, Ready
      <4> QED
        BY <2>1, <4>1, TakenType
    <3> QED
      BY <3>1, <3>2
  <2>10. ASSUME NEW w \in Users, GoDeaf(w) \/ Drop(w) PROVE toServer'[u] = q
    BY <2>1, <2>10 DEF GoDeaf, Drop, wires
  <2>11. CASE UNCHANGED vars
    BY <2>1, <2>4, <2>11 DEF vars, wires
  <2> QED
    BY <2>4, <2>5, <2>7, <2>8, <2>9, <2>10, <2>11 DEF Next
<1>5. ASSUME NEW u \in Users, NEW i \in DOMAIN toClient'[u] PROVE Fits(toClient'[u][i], longest')
  <2>1. PICK q : q = toClient[u]
    OBVIOUS
  <2>2. q \in Seq(Frames) /\ \A k \in DOMAIN q : q[k] \in Frames /\ Fits(q[k], longest)
    BY <2>1 DEF Wired, Within
  <2>3. \A k \in DOMAIN q : Fits(q[k], longest')
    BY <1>1, <2>2, FitsOn
  <2>4. CASE toClient'[u] = q
    <3>1. i \in DOMAIN q
      BY <2>4
    <3> QED
      BY <2>3, <2>4, <3>1
  <2>5. CASE q # <<>> /\ toClient'[u] = Tail(q)
    <3>1. i + 1 \in DOMAIN q /\ toClient'[u][i] = q[i + 1]
      BY <2>2, <2>5
    <3> QED
      BY <2>3, <3>1
  <2>6. ASSUME NEW w \in Users, Serve(w) PROVE Fits(toClient'[u][i], longest')
    <3>1. longest' = longest
      BY <2>6 DEF Serve, Join, JoinUnknown, Leave, CreateTaken, AddRoom, Create, Say, SayNowhere,
         Whisper, WhisperFails, Refuse, History, HistoryDenied, client
    <3>2. CASE toClient'[u] = q
      BY <2>4, <3>2
    <3>3. ASSUME NEW f, toClient'[u] = Append(q, f), Fits(f, longest) PROVE Fits(toClient'[u][i], longest')
      <4>1. toClient'[u][i] = f \/ (i \in DOMAIN q /\ toClient'[u][i] = q[i])
        BY <2>2, <3>3
      <4> QED
        BY <2>2, <3>1, <3>3, <4>1
    <3> QED
      BY <2>1, <2>6, <3>2, <3>3, ServeCarries
  <2>7. ASSUME NEW w \in Users, Type(w) PROVE toClient' = toClient
    BY <2>7, TypedLine DEF SendLine
  <2>8. ASSUME NEW w \in Users, Hear(w) \/ GoDeaf(w)
        PROVE  toClient'[u] = q \/ (q # <<>> /\ toClient'[u] = Tail(q))
    BY <2>1, <2>8 DEF Hear, GoDeaf, Arrives, Wired
  <2>9. ASSUME NEW w \in Users, Drop(w) PROVE toClient' = toClient
    BY <2>9 DEF Drop, wires
  <2>10. CASE UNCHANGED vars
    BY <2>1, <2>4, <2>10 DEF vars, wires
  <2> QED
    BY <2>1, <2>4, <2>5, <2>6, <2>7, <2>8, <2>9, <2>10 DEF Next
<1>6. /\ \A u \in DOMAIN userToRoomMap' : NameLength[userToRoomMap'[u]] <= longest'
      /\ \A v, r : <<v, r>> \in creating' => NameLength[r] <= longest'
  <2>1. CASE UNCHANGED registry
    <3>1. \A u \in DOMAIN userToRoomMap : NameLength[userToRoomMap[u]] \in Nat
      BY ConversationAssumption DEF ConversationAssumption, RSP!IInv, RSP!TypeOK, RSP!IsMap
    <3>2. \A v, r : <<v, r>> \in creating => NameLength[r] \in Nat
      BY ConversationAssumption DEF ConversationAssumption, RSP!IInv, RSP!TypeOK
    <3> QED
      BY <1>1, <2>1, <3>1, <3>2 DEF Within, registry
  <2>2. ASSUME NEW w \in Users, Serve(w)
        PROVE  /\ \A u \in DOMAIN userToRoomMap' : NameLength[userToRoomMap'[u]] <= longest'
               /\ \A v, r : <<v, r>> \in creating' => NameLength[r] <= longest'
    <3>1. longest' = longest
      BY <2>2 DEF Serve, Join, JoinUnknown, Leave, CreateTaken, AddRoom, Create, Say, SayNowhere,
         Whisper, WhisperFails, Refuse, History, HistoryDenied, client
    <3> QED
      BY <2>2, <3>1, RoomsWithin
  <2>3. UNCHANGED registry \/ \E w \in Users : Serve(w)
    BY TypedLine DEF Next, Hear, GoDeaf, Drop, SendLine, vars
  <2> QED
    BY <2>1, <2>2, <2>3
<1> QED
  BY <1>3, <1>4, <1>5, <1>6 DEF Within

\* An end of a connection stops reading only where somebody typed a line so long
\* that a frame of the messages a client asks for, each with such a text and such
\* a name, is too long (Session.cpp:73, RoomService.cpp:140).
THEOREM OnlyLongLinesDeafen == Spec => []DeafFromLongLinesOnly
<1> DEFINE Bound == (Limit + 1) * (2 * longest + Overhead)
<1>1. Init => Within /\ DeafFromLongLinesOnly
  BY DEF Init, RS!Init, RS!NoEntries, Within, DeafFromLongLinesOnly
<1>2. Inv /\ Within /\ DeafFromLongLinesOnly /\ [Next]_vars => Within' /\ DeafFromLongLinesOnly'
  <2> SUFFICES ASSUME Inv, Within, DeafFromLongLinesOnly, [Next]_vars
               PROVE  Within' /\ DeafFromLongLinesOnly'
    OBVIOUS
  <2>1. /\ messages \in Seq(Message) /\ longest \in Nat /\ longest' \in Nat /\ longest <= longest'
        /\ Overhead \in Nat /\ Limit \in Nat /\ MaxBody \in Nat
    BY LongestGrows, ConversationAssumption DEF ConversationAssumption, Inv, Wired
  <2>2. Bound \in Nat /\ longest <= Bound /\ (Bound >= MaxBody => Bound' >= MaxBody)
    <3>1. PICK n, b, c : n = Limit /\ b = 2 * longest + Overhead /\ c = 2 * longest' + Overhead
      OBVIOUS
    <3>6. PICK l, k, o : l = longest /\ k = longest' /\ o = Overhead
      OBVIOUS
    <3>7. l \in Nat /\ k \in Nat /\ o \in Nat /\ l <= k /\ b = 2 * l + o /\ c = 2 * k + o
      BY <2>1, <3>1, <3>6
    <3>8. b \in Nat /\ c \in Nat /\ l <= b /\ b <= c
      BY <3>7
    <3>2. n \in Nat /\ b \in Nat /\ c \in Nat /\ longest <= b /\ b <= c
      BY <2>1, <3>1, <3>6, <3>8
    <3>3. /\ (n + 1) * b = n * b + b /\ n * b \in Nat
          /\ (n + 1) * c = n * c + c /\ n * c \in Nat
      BY <3>2
    <3>4. n * b <= n * c
      BY <3>2
    <3>5. Bound = (n + 1) * b /\ Bound' = (n + 1) * c
      BY <3>1
    <3> HIDE DEF Bound
    <3> QED
      BY <2>1, <3>2, <3>3, <3>4, <3>5
  <2>3. DeafFromLongLinesOnly <=> (serving \cap reading # Users => Bound >= MaxBody)
    BY DEF DeafFromLongLinesOnly
  <2>4. DeafFromLongLinesOnly' <=> (serving' \cap reading' # Users => Bound' >= MaxBody)
    BY DEF DeafFromLongLinesOnly
  <2> HIDE DEF Bound
  <2>5. CASE serving' \cap reading' = serving \cap reading
    BY <2>2, <2>3, <2>4, <2>5, WithinKept
  <2>6. CASE serving \cap reading # Users
    BY <2>2, <2>3, <2>4, <2>6, WithinKept
  <2>7. ASSUME NEW u \in Users, GoDeaf(u) PROVE Bound >= MaxBody
    <3>1. PICK f : f = Head(toClient[u])
      OBVIOUS
    <3>2. toClient[u] \in Seq(Frames) /\ toClient[u] # <<>> /\ Size(f) >= MaxBody
      BY <2>7, <3>1 DEF GoDeaf, Arrives, Inv, Wired
    <3>3. f \in Frames /\ 1 \in DOMAIN toClient[u] /\ f = toClient[u][1]
      BY <3>1, <3>2
    <3>4. Fits(f, longest)
      BY <3>3 DEF Within
    <3>5. Size(f) \in Nat /\ Size(f) <= Bound
      BY <2>1, <3>3, <3>4, FrameBound DEF Within, Bound
    <3> QED
      BY <2>1, <2>2, <3>2, <3>5
  <2>8. ASSUME NEW u \in Users, Refuse(u) PROVE Bound >= MaxBody
    <3>1. toServer[u] # <<>> /\ Typed(Head(toServer[u])) >= MaxBody
      BY <2>8 DEF Refuse, Ready, TooLong
    <3>2. Typed(Head(toServer[u])) \in Nat /\ Typed(Head(toServer[u])) <= longest
      BY <3>1, HeadWithin
    <3> QED
      BY <2>1, <2>2, <3>1, <3>2
  <2>9. ASSUME NEW u \in Users, Drop(u) PROVE serving \cap reading # Users
    BY <2>9 DEF Drop
  <2>10. \/ serving' \cap reading' = serving \cap reading
         \/ \E u \in Users : GoDeaf(u) \/ Refuse(u) \/ Drop(u)
    BY TypedLine DEF Next, Serve, Join, JoinUnknown, Leave, CreateTaken, AddRoom, Create, Say,
       SayNowhere, Whisper, WhisperFails, History, HistoryDenied, Hear, SendLine, vars, client, Inv
  <2> QED
    BY <2>2, <2>4, <2>5, <2>6, <2>7, <2>8, <2>9, <2>10, WithinKept
<1> QED
  BY <1>1, <1>2, Invariance, PTL DEF Spec
-----------------------------------------------------------------------------
(* Lines and their answers.                                                *)

IsLine(request) == request.op # "history"

\* The lines of u on their way, and the answers.
LinesIn(u) == [i \in DOMAIN toServer[u] |-> IsLine(toServer[u][i])]
AnswersIn(u) == [i \in DOMAIN toClient[u] |-> IsAnswer(u, toClient[u][i])]

Yes(marks) == Cardinality(Positions(marks, TRUE))
One(b) == IF b THEN 1 ELSE 0

\* The lines of u that were answered, are being answered or wait.
Owed(u) == Yes(LinesIn(u)) + Yes(AnswersIn(u)) + answered[u]

\* They are the lines u has sent, unless some were lost with an end of the
\* connection.
Accounted(u) == Owed(u) <= lines[u] /\ (Connected(u) => Owed(u) = lines[u])

\* A CREATE that has its row is the request its session is at, and the only one.
CreateAsked ==
  \A v, r : <<v, r>> \in creating =>
    /\ toServer[v] # <<>> /\ Head(toServer[v]).op = "create"
    /\ \A c \in creating : c = <<v, r>>

AccountInv == CreateAsked /\ \A u \in Users : Accounted(u)

\* When all is settled every line was answered once, and at no time are there
\* more answers than lines.
AnswersMatchLines ==
  \A u \in Users : /\ answered[u] <= lines[u]
                   /\ Connected(u) /\ Settled(u) => answered[u] = lines[u]

-----------------------------------------------------------------------------
\* Marks are counted as they come and go.
LEMMA MarksMove ==
  ASSUME NEW q \in Seq(BOOLEAN)
  PROVE  /\ Yes(q) \in Nat
         /\ \A b \in BOOLEAN : Yes(Append(q, b)) = Yes(q) + One(b)
         /\ q # <<>> => Yes(Tail(q)) = Yes(q) - One(Head(q))
<1>1. Yes(q) \in Nat
  BY PositionsFinite DEF Yes
<1>2. ASSUME NEW b \in BOOLEAN PROVE Yes(Append(q, b)) = Yes(q) + One(b)
  <2>1. CASE b
    <3>1. b = TRUE
      BY <2>1
    <3> QED
      BY <3>1, AppendCount DEF Yes, One
  <2>2. CASE ~b
    <3>1. PICK x, e : e \in BOOLEAN /\ e = FALSE /\ x = TRUE
      OBVIOUS
    <3>2. Cardinality(Positions(Append(q, e), x)) = Cardinality(Positions(q, x)) + 0
      <4>1. e # x /\ e \in BOOLEAN
        BY <3>1
      <4>2. Cardinality(Positions(Append(q, e), x)) =
              Cardinality(Positions(q, x)) + (IF e = x THEN 1 ELSE 0)
        BY <4>1, AppendCount
      <4> QED
        BY <4>1, <4>2
    <3>3. b = e
      BY <2>2, <3>1
    <3> QED
      BY <1>1, <2>2, <3>1, <3>2, <3>3 DEF Yes, One
  <2> QED
    BY <2>1, <2>2
<1>3. q # <<>> => Yes(Tail(q)) = Yes(q) - One(Head(q))
  <2>1. ASSUME q # <<>> PROVE Head(q) \in BOOLEAN
    BY <2>1
  <2> QED
    BY <2>1, TailCount DEF Yes, One
<1> QED
  BY <1>1, <1>2, <1>3

\* The lines on their way.
LEMMA LinesMove ==
  ASSUME Wired, NEW u \in Users
  PROVE  /\ Yes(LinesIn(u)) \in Nat
         /\ toServer'[u] = toServer[u] => Yes(LinesIn(u))' = Yes(LinesIn(u))
         /\ \A e \in Request : toServer'[u] = Append(toServer[u], e) =>
              Yes(LinesIn(u))' = Yes(LinesIn(u)) + One(IsLine(e))
         /\ toServer[u] # <<>> /\ toServer'[u] = Tail(toServer[u]) =>
              Yes(LinesIn(u))' = Yes(LinesIn(u)) - One(IsLine(Head(toServer[u])))
<1>1. PICK q, p, m, n : /\ q = toServer[u] /\ p = toServer'[u]
                        /\ m = LinesIn(u) /\ n = LinesIn(u)'
  OBVIOUS
<1>2. /\ q \in Seq(Request) /\ m = [i \in DOMAIN q |-> IsLine(q[i])]
      /\ n = [i \in DOMAIN p |-> IsLine(p[i])]
  BY <1>1 DEF Wired, LinesIn
<1>3. \A e : IsLine(e) \in BOOLEAN
  BY DEF IsLine
<1>4. m \in Seq(BOOLEAN)
  BY <1>2, <1>3
<1>5. ASSUME NEW e \in Request, p = Append(q, e) PROVE n = Append(m, IsLine(e))
  BY <1>2, <1>3, <1>4, <1>5
<1>6. ASSUME q # <<>>, p = Tail(q)
      PROVE  m # <<>> /\ n = Tail(m) /\ Head(m) = IsLine(Head(q))
  BY <1>2, <1>3, <1>4, <1>6
<1>7. Yes(LinesIn(u))' = Yes(n) /\ Yes(LinesIn(u)) = Yes(m)
  BY <1>1 DEF Yes, Positions
<1>8. Yes(m) \in Nat /\ (m # <<>> => Yes(Tail(m)) = Yes(m) - One(Head(m)))
  BY <1>4, MarksMove
<1>9. ASSUME NEW e \in Request, p = Append(q, e) PROVE Yes(n) = Yes(m) + One(IsLine(e))
  <2>1. PICK b \in BOOLEAN : b = IsLine(e)
    BY <1>3
  <2>2. n = Append(m, b)
    BY <1>5, <1>9, <2>1
  <2>3. Yes(Append(m, b)) = Yes(m) + One(b)
    BY <1>4, MarksMove
  <2> QED
    BY <2>1, <2>2, <2>3
<1>10. q # <<>> /\ p = Tail(q) => Yes(n) = Yes(m) - One(IsLine(Head(q)))
  BY <1>6, <1>8
<1>11. p = q => n = m
  BY <1>2
<1> QED
  BY <1>1, <1>7, <1>8, <1>9, <1>10, <1>11

\* The answers on their way; what is an answer stays one.
LEMMA AnswersMove ==
  ASSUME Wired, NEW u \in Users,
         \A i \in DOMAIN messages : i \in DOMAIN messages' /\ messages'[i] = messages[i]
  PROVE  /\ Yes(AnswersIn(u)) \in Nat
         /\ toClient'[u] = toClient[u] => Yes(AnswersIn(u))' = Yes(AnswersIn(u))
         /\ \A f : toClient'[u] = Append(toClient[u], f) =>
              Yes(AnswersIn(u))' = Yes(AnswersIn(u)) + One(IsAnswer(u, f)')
         /\ toClient[u] # <<>> /\ toClient'[u] = Tail(toClient[u]) =>
              Yes(AnswersIn(u))' = Yes(AnswersIn(u)) - One(IsAnswer(u, Head(toClient[u])))
<1>1. PICK q, p, m, n : /\ q = toClient[u] /\ p = toClient'[u]
                        /\ m = AnswersIn(u) /\ n = AnswersIn(u)'
  OBVIOUS
<1>2. /\ q \in Seq(Frames) /\ m = [i \in DOMAIN q |-> IsAnswer(u, q[i])]
      /\ n = [i \in DOMAIN p |-> IsAnswer(u, p[i])']
  BY <1>1 DEF Wired, AnswersIn
<1>3. \A f : IsAnswer(u, f) \in BOOLEAN /\ IsAnswer(u, f)' \in BOOLEAN
  BY DEF IsAnswer
<1>4. \A i \in DOMAIN q : IsAnswer(u, q[i])' = IsAnswer(u, q[i])
  <2>1. ASSUME NEW i \in DOMAIN q PROVE q[i].of \subseteq DOMAIN messages
    <3>1. q[i] \in Frames
      BY <1>2
    <3> QED
      BY <3>1 DEF Frames
  <2> QED
    BY <2>1 DEF IsAnswer
<1>5. m \in Seq(BOOLEAN)
  BY <1>2, <1>3
<1>6. ASSUME NEW f, p = Append(q, f) PROVE n = Append(m, IsAnswer(u, f)')
  BY <1>2, <1>3, <1>4, <1>5, <1>6
<1>7. ASSUME q # <<>>, p = Tail(q)
      PROVE  m # <<>> /\ n = Tail(m) /\ Head(m) = IsAnswer(u, Head(q))
  BY <1>2, <1>3, <1>4, <1>5, <1>7
<1>8. p = q => n = m
  BY <1>2, <1>4
<1>9. Yes(AnswersIn(u))' = Yes(n) /\ Yes(AnswersIn(u)) = Yes(m)
  BY <1>1 DEF Yes, Positions
<1>10. Yes(m) \in Nat /\ (m # <<>> => Yes(Tail(m)) = Yes(m) - One(Head(m)))
  BY <1>5, MarksMove
<1>11. \A f : p = Append(q, f) => Yes(n) = Yes(m) + One(IsAnswer(u, f)')
  BY <1>3, <1>5, <1>6, MarksMove
<1>12. q # <<>> /\ p = Tail(q) => Yes(n) = Yes(m) - One(IsAnswer(u, Head(q)))
  BY <1>7, <1>10
<1> QED
  BY <1>1, <1>8, <1>9, <1>10, <1>11, <1>12

-----------------------------------------------------------------------------
\* Whoever is served gets an answer to a line, and none to a client's own
\* request for history.
LEMMA ServeAnswers ==
  ASSUME Inv, CreateAsked, NEW u \in Users, Serve(u), ~Refuse(u)
  PROVE  \/ toServer'[u] = toServer[u] /\ toClient'[u] = toClient[u]
         \/ /\ toServer[u] # <<>> /\ toServer'[u] = Tail(toServer[u])
            /\ \/ toClient'[u] = toClient[u] /\ ~IsLine(Head(toServer[u]))
               \/ \E f : /\ toClient'[u] = Append(toClient[u], f)
                         /\ IsAnswer(u, f)' <=> IsLine(Head(toServer[u]))
<1> USE DEF Inv
<1>1. \A op : Reads(u, op) => toServer[u] # <<>> /\ Head(toServer[u]).op = op
  BY ReadsHead
<1>2. toServer[u] # <<>> /\ Taken(u) => toServer'[u] = Tail(toServer[u])
  BY TakenType
<1>3. /\ \A what, r, of : Frame(what, r, of).what = what /\ Frame(what, r, of).of = of
      /\ \A r \in RoomNames, what \in Kinds : Frame(what, r, {}) \in Frames
  BY DEF Frame, Frames
<1>4. \A f : f.what \in {"joined", "unknown", "left", "created", "taken", "error", "whispered"} =>
             IsAnswer(u, f)'
  BY DEF IsAnswer
<1>5. CASE Join(u) \/ Leave(u)
  <2>1. PICK r : r = Asked(u)
    OBVIOUS
  <2>2. /\ toServer[u] # <<>> /\ Taken(u) /\ r \in RoomNames /\ IsLine(Head(toServer[u]))
    BY <1>1, <1>5, <2>1, Heads DEF Join, Leave, IsLine, Texts
  <2>3. PICK what \in {"joined", "left"} : \E members :
           BroadcastAndAnswer(u, members, Frame("notice", r, {}), Frame(what, r, {}))
    BY <1>5, <2>1 DEF Join, Leave
  <2>4. PICK f, g : f = Frame(what, r, {}) /\ g = Frame("notice", r, {})
    OBVIOUS
  <2>5. f \in Frames /\ g \in Frames /\ f.what = what
    BY <1>3, <2>2, <2>4 DEF Kinds
  <2>6. PICK members : BroadcastAndAnswer(u, members, g, f)
    BY <2>3, <2>4
  <2>7. toClient'[u] = Append(toClient[u], f)
    BY <2>5, <2>6, BroadcastSends DEF Sent
  <2>8. IsAnswer(u, f)'
    BY <1>4, <2>5
  <2> QED
    BY <1>2, <2>2, <2>7, <2>8
<1>6. CASE Curt(u) \/ CreateTaken(u) \/ Create(u)
  <2>1. toServer[u] # <<>> /\ Taken(u) /\ IsLine(Head(toServer[u]))
    <3>1. CASE Curt(u)
      BY <3>1, CurtAnswers DEF Texts, IsLine
    <3>2. CASE CreateTaken(u)
      BY <1>1, <3>2 DEF CreateTaken, IsLine
    <3>3. CASE Create(u)
      BY <3>3 DEF Create, RS!CreateRoom, CreateAsked, IsLine
    <3> QED
      BY <1>6, <3>1, <3>2, <3>3
  <2>2. PICK f : Answer(u, f) /\ f.what \in {"unknown", "taken", "error", "created"}
    <3>1. CASE Curt(u)
      BY <3>1, CurtAnswers
    <3>2. CASE CreateTaken(u) \/ Create(u)
      BY <1>3, <3>2 DEF CreateTaken, Create
    <3> QED
      BY <1>6, <3>1, <3>2
  <2>3. toClient'[u] = Append(toClient[u], f) /\ IsAnswer(u, f)'
    BY <1>4, <2>2 DEF Answer, Add, Wired
  <2> QED
    BY <1>2, <2>1, <2>3
<1>7. CASE AddRoom(u)
  BY <1>7 DEF AddRoom, wires
<1>8. CASE Say(u)
  <2>1. toServer[u] # <<>> /\ Taken(u) /\ IsLine(Head(toServer[u])) /\ UNCHANGED registry
    BY <1>1, <1>8 DEF Say, IsLine
  <2>2. PICK m : Spoken(u, m)
    BY <1>8, SayWired
  <2>3. PICK f : f = Frame("message", RS!CurrentRoomName(u, NoRoom), {Len(messages) + 1})
    OBVIOUS
  <2>4. u \in Audience(u)
    <3>1. u \in DOMAIN userToRoomMap
      BY <1>8, SayWired
    <3>2. PICK r : r = userToRoomMap[u]
      OBVIOUS
    <3>3. /\ r \in DOMAIN activeRooms /\ u \in DOMAIN activeRooms[r].members
          /\ RS!CurrentRoomName(u, NoRoom) = r
      BY <3>1, <3>2, InRoom
    <3> QED
      BY <3>3 DEF Audience, RS!Recipients, RS!Restrict
  <2>5. toClient'[u] = Append(toClient[u], f)
    BY <2>2, <2>3, <2>4 DEF Spoken
  <2>6. f.of = {Len(messages) + 1} /\ f.what = "message"
    BY <2>3 DEF Frame
  <2>7. messages'[Len(messages) + 1].from = u
    BY <2>2 DEF Spoken, Wired
  <2>8. IsAnswer(u, f)'
    BY <2>6, <2>7 DEF IsAnswer
  <2> QED
    BY <1>2, <2>1, <2>5, <2>8
<1>9. CASE History(u)
  <2>1. toServer[u] # <<>> /\ Taken(u) /\ ~IsLine(Head(toServer[u]))
    BY <1>1, <1>9 DEF History, IsLine
  <2>2. PICK f : Answer(u, f) /\ f.what = "history"
    BY <1>3, <1>9 DEF History
  <2>3. toClient'[u] = Append(toClient[u], f)
    BY <2>2 DEF Answer, Add, Wired
  <2>4. ~IsAnswer(u, f)'
    BY <2>2 DEF IsAnswer
  <2> QED
    BY <1>2, <2>1, <2>3, <2>4
<1>10. CASE HistoryDenied(u)
  BY <1>1, <1>2, <1>10 DEF HistoryDenied, IsLine
<1>11. CASE Whisper(u)
  <2>1. PICK f, g \in Frames : Sent(u, f, g) /\ g.what = "whispered"
    BY <1>11, WhisperSends
  <2>2. toServer[u] # <<>> /\ Taken(u) /\ IsLine(Head(toServer[u]))
    BY <1>11, WhisperSends DEF IsLine
  <2>3. toClient'[u] = Append(toClient[u], g) /\ IsAnswer(u, g)'
    BY <1>4, <2>1 DEF Sent
  <2> QED
    BY <1>2, <2>2, <2>3
<1> QED
  BY <1>5, <1>6, <1>7, <1>8, <1>9, <1>10, <1>11 DEF Serve, Curt

\* A CREATE with a row is alone, and its request is not taken before its answer.
LEMMA CreateStays ==
  ASSUME Inv, CreateAsked, [Next]_vars
  PROVE  CreateAsked'
<1>1. ASSUME creating' = creating,
             \A v \in Users : toServer[v] # <<>> =>
                toServer'[v] # <<>> /\ Head(toServer'[v]) = Head(toServer[v])
      PROVE  CreateAsked'
  <2>1. \A v, r : <<v, r>> \in creating => v \in Users
    BY DEF Inv, RSP!IInv, RSP!TypeOK
  <2> QED
    BY <1>1, <2>1 DEF CreateAsked
<1>2. ASSUME NEW v \in Users, NEW e, toServer'[v] = Append(toServer[v], e), toServer[v] # <<>>
      PROVE  toServer'[v] # <<>> /\ Head(toServer'[v]) = Head(toServer[v])
  <2>1. PICK q : q = toServer[v]
    OBVIOUS
  <2>2. q \in Seq(Request) /\ q # <<>>
    BY <1>2, <2>1 DEF Inv, Wired
  <2>3. Append(q, e) # <<>> /\ Head(Append(q, e)) = Head(q)
    BY <2>2
  <2> QED
    BY <1>2, <2>1, <2>3
<1>3. CASE UNCHANGED vars
  BY <1>1, <1>3 DEF vars, registry, wires
<1>4. ASSUME NEW w \in Users, Type(w) PROVE CreateAsked'
  <2>1. PICK request \in Request : SendLine(w, request)
    BY <1>4, TypedLine DEF Inv
  <2>2. /\ toServer'[w] = Append(toServer[w], request)
        /\ \A v \in Users \ {w} : toServer'[v] = toServer[v]
    BY <2>1, LineWired DEF Inv
  <2> QED
    BY <1>1, <1>2, <2>1, <2>2 DEF SendLine, registry
<1>5. ASSUME NEW w \in Users, Hear(w) PROVE CreateAsked'
  <2>1. /\ toServer'[w] = toServer[w] \/ \E e : toServer'[w] = Append(toServer[w], e)
        /\ \A v \in Users \ {w} : toServer'[v] = toServer[v]
    BY <1>5 DEF Hear, Add, Inv, Wired
  <2> QED
    BY <1>1, <1>2, <1>5, <2>1 DEF Hear, registry
<1>6. ASSUME NEW w \in Users, GoDeaf(w) \/ Drop(w) PROVE CreateAsked'
  BY <1>1, <1>6 DEF GoDeaf, Drop, registry, wires
<1>7. ASSUME NEW w \in Users, Serve(w) PROVE CreateAsked'
  <2>1. CASE AddRoom(w)
    <3>1. creating' = {<<w, Asked(w)>>} /\ toServer' = toServer
      BY <2>1 DEF AddRoom, Reads, Ready, RS!AddRoom, wires
    <3> QED
      BY <2>1, <3>1 DEF CreateAsked, AddRoom, Reads, Ready
  <2>2. CASE Create(w)
    <3>1. PICK r \in RoomNames : <<w, r>> \in creating /\ creating' = creating \ {<<w, r>>}
      BY <2>2 DEF Create, RS!CreateRoom
    <3>2. creating' = {}
      BY <3>1 DEF CreateAsked
    <3> QED
      BY <3>2 DEF CreateAsked
  <2>3. CASE ~AddRoom(w) /\ ~Create(w)
    <3>1. creating = {} /\ creating' = creating
      BY <1>7, <2>3 DEF Serve, Join, JoinUnknown, Leave, CreateTaken, Say, SayNowhere, Refuse,
         Whisper, WhisperFails, History, HistoryDenied, Reads, Ready, registry, RS!JoinRoom,
         RS!LeaveRoom, RS!HandleDisconnect, RS!tables
    <3> QED
      BY <3>1 DEF CreateAsked
  <2> QED
    BY <2>1, <2>2, <2>3
<1> QED
  BY <1>3, <1>4, <1>5, <1>6, <1>7 DEF Next

\* Sums of three counts: what comes into one leaves another.
LEMMA Balanced ==
  ASSUME NEW u \in Users, Accounted(u),
         Yes(LinesIn(u)) \in Nat, Yes(AnswersIn(u)) \in Nat, answered[u] \in Nat, lines[u] \in Nat,
         Yes(LinesIn(u))' \in Nat, Yes(AnswersIn(u))' \in Nat, answered'[u] \in Nat, lines'[u] \in Nat,
         Connected(u)' => Connected(u),
         \/ Owed(u)' - lines'[u] = Owed(u) - lines[u]
         \/ Owed(u)' - lines'[u] <= Owed(u) - lines[u] /\ ~Connected(u)'
  PROVE  Accounted(u)'
<1>1. PICK a, b, c, d : a = Owed(u) /\ b = Owed(u)' /\ c = lines[u] /\ d = lines'[u]
  OBVIOUS
<1>2. a \in Nat /\ b \in Nat /\ c \in Nat /\ d \in Nat
  BY <1>1 DEF Owed
<1>3. b - d = a - c \/ (b - d <= a - c /\ ~Connected(u)')
  BY <1>1
<1>4. a <= c /\ (Connected(u) => a = c)
  BY <1>1 DEF Accounted
<1>5. b <= d /\ (Connected(u)' => b = d)
  BY <1>2, <1>3, <1>4
<1> QED
  BY <1>1, <1>5 DEF Accounted

\* No step loses a line or answers it twice.
LEMMA AccountKept ==
  ASSUME Inv, AccountInv, [Next]_vars
  PROVE  AccountInv'
<1>1. Inv' /\ CreateAsked'
  BY NextInv, CreateStays DEF AccountInv
<1> SUFFICES ASSUME NEW u \in Users PROVE Accounted(u)'
  BY <1>1 DEF AccountInv
<1>2. Accounted(u) /\ CreateAsked /\ Wired
  BY DEF AccountInv, Inv
<1>3. \A i \in DOMAIN messages : i \in DOMAIN messages' /\ messages'[i] = messages[i]
  BY TableGrows
<1>4. PICK x, y, n, l, x2, y2, n2, l2 :
        /\ x = Yes(LinesIn(u)) /\ y = Yes(AnswersIn(u)) /\ n = answered[u] /\ l = lines[u]
        /\ x2 = Yes(LinesIn(u))' /\ y2 = Yes(AnswersIn(u))' /\ n2 = answered'[u] /\ l2 = lines'[u]
  OBVIOUS
<1>5. x \in Nat /\ y \in Nat /\ n \in Nat /\ l \in Nat /\ n2 \in Nat /\ l2 \in Nat
  <2>1. x \in Nat /\ y \in Nat
    BY <1>2, <1>3, <1>4, LinesMove, AnswersMove
  <2>2. n \in Nat /\ n2 \in Nat
    BY <1>1, <1>4 DEF Inv, Wired
  <2>3. l \in 0..MaxLines /\ l2 \in 0..MaxLines /\ MaxLines \in Nat
    BY <1>1, <1>4, ConversationAssumption DEF Inv, Wired, ConversationAssumption
  <2> QED
    BY <2>1, <2>2, <2>3
<1>6. x2 \in Nat /\ y2 \in Nat
  <2>1. DOMAIN toServer'[u] = 1..Len(toServer'[u]) /\ Len(toServer'[u]) \in Int
        /\ DOMAIN toClient'[u] = 1..Len(toClient'[u]) /\ Len(toClient'[u]) \in Int
    BY <1>1 DEF Inv, Wired
  <2>2. /\ Positions(LinesIn(u), TRUE)' \subseteq DOMAIN toServer'[u]
        /\ Positions(AnswersIn(u), TRUE)' \subseteq DOMAIN toClient'[u]
    BY DEF Positions, LinesIn, AnswersIn
  <2>3. IsFiniteSet(DOMAIN toServer'[u]) /\ IsFiniteSet(DOMAIN toClient'[u])
    BY <2>1, FS_Interval
  <2>4. IsFiniteSet(Positions(LinesIn(u), TRUE)') /\ IsFiniteSet(Positions(AnswersIn(u), TRUE)')
    BY <2>2, <2>3, FS_Subset
  <2>5. /\ Cardinality(Positions(LinesIn(u), TRUE)') \in Nat
        /\ Cardinality(Positions(AnswersIn(u), TRUE)') \in Nat
    BY <2>4, FS_CardinalityType
  <2> QED
    BY <1>4, <2>5 DEF Yes
<1>7. Connected(u)' => Connected(u)
  BY EndsOnly DEF Connected
<1>8. ASSUME \/ x2 + y2 + n2 - l2 = x + y + n - l
             \/ x2 + y2 + n2 - l2 <= x + y + n - l /\ ~Connected(u)'
      PROVE  Accounted(u)'
  <2>1. Owed(u) = x + y + n /\ Owed(u)' = x2 + y2 + n2
    BY <1>4 DEF Owed
  <2> QED
    BY <1>2, <1>4, <1>5, <1>6, <1>7, <1>8, <2>1, Balanced
<1>9. \A b : One(b) \in {0, 1}
  BY DEF One
<1>10. ASSUME toServer'[u] = toServer[u] PROVE x2 = x
  BY <1>2, <1>4, <1>10, LinesMove
<1>11. ASSUME toClient'[u] = toClient[u] PROVE y2 = y
  BY <1>2, <1>3, <1>4, <1>11, AnswersMove
<1>12. CASE UNCHANGED vars
  BY <1>4, <1>5, <1>8, <1>10, <1>11, <1>12 DEF vars, wires, client
<1>13. ASSUME NEW w \in Users, Type(w) PROVE Accounted(u)'
  <2>1. PICK request \in Request : SendLine(w, request) /\ request.op # "history"
    BY <1>13, TypedLine DEF Inv
  <2>2. toClient' = toClient /\ answered' = answered /\ lines' = [lines EXCEPT ![w] = @ + 1]
    BY <2>1 DEF SendLine
  <2>3. y2 = y /\ n2 = n
    BY <1>4, <1>11, <2>2
  <2>4. CASE w = u
    <3>1. toServer'[u] = Append(toServer[u], request)
      BY <1>2, <2>1, <2>4, LineWired
    <3>2. x2 = x + One(IsLine(request))
      BY <1>2, <1>4, <3>1, LinesMove
    <3>3. x2 = x + 1
      BY <2>1, <3>2 DEF One, IsLine
    <3>4. l2 = l + 1
      BY <1>2, <1>4, <2>2, <2>4 DEF Wired
    <3> QED
      BY <1>5, <1>8, <2>3, <3>3, <3>4
  <2>5. CASE w # u
    <3>1. toServer'[u] = toServer[u] /\ l2 = l
      BY <1>2, <1>4, <2>1, <2>2, <2>5, LineWired DEF Wired
    <3> QED
      BY <1>5, <1>8, <1>10, <2>3, <3>1
  <2> QED
    BY <2>4, <2>5
<1>14. ASSUME NEW w \in Users, Hear(w) PROVE Accounted(u)'
  <2>1. lines' = lines
    BY <1>14 DEF Hear
  <2>2. CASE w = u
    <3>1. PICK f, e : f = Head(toClient[u]) /\ e = [op |-> "history", room |-> f.room]
      OBVIOUS
    <3>2. /\ toClient[u] # <<>> /\ toClient'[u] = Tail(toClient[u]) /\ f \in Frames
      BY <1>2, <1>14, <2>2, <3>1, HearWired DEF Hear, Arrives
    <3>3. y2 = y - One(IsAnswer(u, f))
      BY <1>2, <1>3, <1>4, <3>1, <3>2, AnswersMove
    <3>4. n2 = n + One(IsAnswer(u, f))
      BY <1>2, <1>4, <1>5, <1>14, <2>2, <3>1 DEF Hear, Wired, One
    <3>5. x2 = x
      <4>1. e \in Request /\ ~IsLine(e)
        BY <3>1, <3>2 DEF Request, Frames, IsLine
      <4>2. toServer'[u] = toServer[u] \/ toServer'[u] = Append(toServer[u], e)
        BY <1>2, <1>14, <2>2, <3>1 DEF Hear, Add, Wired
      <4>3. One(IsLine(e)) = 0
        BY <4>1 DEF One
      <4> QED
        BY <1>2, <1>4, <1>5, <1>10, <4>1, <4>2, <4>3, LinesMove
    <3>6. l2 = l
      BY <1>4, <2>1
    <3> QED
      BY <1>5, <1>8, <1>9, <3>3, <3>4, <3>5, <3>6
  <2>3. CASE w # u
    <3>1. toServer'[u] = toServer[u] /\ toClient'[u] = toClient[u] /\ answered'[u] = answered[u]
      BY <1>2, <1>14, <2>3 DEF Hear, Add, Wired
    <3> QED
      BY <1>4, <1>5, <1>8, <1>10, <1>11, <2>1, <3>1
  <2> QED
    BY <2>2, <2>3
<1>15. ASSUME NEW w \in Users, GoDeaf(w) PROVE Accounted(u)'
  <2>1. toServer'[u] = toServer[u] /\ n2 = n /\ l2 = l
    BY <1>4, <1>15 DEF GoDeaf
  <2>2. CASE w = u
    <3>1. toClient[u] # <<>> /\ toClient'[u] = Tail(toClient[u]) /\ ~Connected(u)'
      BY <1>2, <1>15, <2>2 DEF GoDeaf, Arrives, Wired, Connected
    <3>2. y2 = y - One(IsAnswer(u, Head(toClient[u])))
      BY <1>2, <1>3, <1>4, <3>1, AnswersMove
    <3>3. PICK k \in {0, 1} : k = One(IsAnswer(u, Head(toClient[u])))
      BY <1>9
    <3>4. x2 = x
      BY <1>10, <2>1
    <3>5. x2 + y2 + n2 - l2 <= x + y + n - l
      BY <1>4, <1>5, <2>1, <3>2, <3>3, <3>4
    <3> QED
      BY <1>8, <3>1, <3>5
  <2>3. CASE w # u
    <3>1. toClient'[u] = toClient[u]
      BY <1>2, <1>15, <2>3 DEF GoDeaf, Wired
    <3> QED
      BY <1>5, <1>8, <1>10, <1>11, <2>1, <3>1
  <2> QED
    BY <2>2, <2>3
<1>17. ASSUME NEW w \in Users, Drop(w) PROVE Accounted(u)'
  <2>1. toServer'[u] = toServer[u] /\ toClient'[u] = toClient[u] /\ n2 = n /\ l2 = l
    BY <1>4, <1>17 DEF Drop, wires
  <2> QED
    BY <1>5, <1>8, <1>10, <1>11, <2>1
<1>16. ASSUME NEW w \in Users, Serve(w) PROVE Accounted(u)'
  <2>1. n2 = n /\ l2 = l
    BY <1>4, <1>16 DEF Serve, Join, JoinUnknown, Leave, CreateTaken, AddRoom, Create, Say, SayNowhere,
       Whisper, WhisperFails, Refuse, History, HistoryDenied, client
  <2>2. CASE w = u /\ Refuse(u)
    <3>1. /\ toServer[u] # <<>> /\ toServer'[u] = Tail(toServer[u]) /\ toClient' = toClient
          /\ ~Connected(u)'
      BY <1>2, <2>2, TakenType DEF Refuse, Ready, Connected
    <3>2. x2 = x - One(IsLine(Head(toServer[u])))
      BY <1>2, <1>4, <3>1, LinesMove
    <3>3. PICK k \in {0, 1} : k = One(IsLine(Head(toServer[u])))
      BY <1>9
    <3>4. y2 = y
      BY <1>11, <3>1
    <3>5. x2 + y2 + n2 - l2 <= x + y + n - l
      BY <1>4, <1>5, <2>1, <3>2, <3>3, <3>4
    <3> QED
      BY <1>8, <3>1, <3>5
  <2>3. CASE w = u /\ ~Refuse(u)
    <3>1. \/ toServer'[u] = toServer[u] /\ toClient'[u] = toClient[u]
          \/ /\ toServer[u] # <<>> /\ toServer'[u] = Tail(toServer[u])
             /\ \/ toClient'[u] = toClient[u] /\ ~IsLine(Head(toServer[u]))
                \/ \E f : /\ toClient'[u] = Append(toClient[u], f)
                          /\ IsAnswer(u, f)' <=> IsLine(Head(toServer[u]))
      BY <1>2, <1>16, <2>3, ServeAnswers
    <3>2. CASE toServer'[u] = toServer[u] /\ toClient'[u] = toClient[u]
      BY <1>5, <1>8, <1>10, <1>11, <2>1, <3>2
    <3>3. CASE /\ toServer[u] # <<>> /\ toServer'[u] = Tail(toServer[u])
               /\ \/ toClient'[u] = toClient[u] /\ ~IsLine(Head(toServer[u]))
                  \/ \E f : /\ toClient'[u] = Append(toClient[u], f)
                            /\ IsAnswer(u, f)' <=> IsLine(Head(toServer[u]))
      <4>1. x2 = x - One(IsLine(Head(toServer[u])))
        BY <1>2, <1>4, <3>3, LinesMove
      <4>2. CASE toClient'[u] = toClient[u] /\ ~IsLine(Head(toServer[u]))
        <5>1. One(IsLine(Head(toServer[u]))) = 0
          BY <4>2 DEF One
        <5> QED
          BY <1>5, <1>8, <1>11, <2>1, <4>1, <4>2, <5>1
      <4>3. CASE \E f : /\ toClient'[u] = Append(toClient[u], f)
                        /\ IsAnswer(u, f)' <=> IsLine(Head(toServer[u]))
        <5>1. PICK f : /\ toClient'[u] = Append(toClient[u], f)
                       /\ IsAnswer(u, f)' <=> IsLine(Head(toServer[u]))
          BY <4>3
        <5>2. y2 = y + One(IsAnswer(u, f)')
          BY <1>2, <1>3, <1>4, <5>1, AnswersMove
        <5>3. One(IsAnswer(u, f)') = One(IsLine(Head(toServer[u])))
          BY <5>1 DEF One
        <5> QED
          BY <1>5, <1>8, <1>9, <2>1, <4>1, <5>2, <5>3
      <4> QED
        BY <3>3, <4>2, <4>3
    <3> QED
      BY <3>1, <3>2, <3>3
  <2>4. CASE w # u
    <3>1. Overhears(u)
      BY <1>16, <2>4, OthersOverhear
    <3>2. toServer'[u] = toServer[u]
      BY <3>1 DEF Overhears
    <3>3. y2 = y
      <4>1. CASE toClient'[u] = toClient[u]
        BY <1>11, <4>1
      <4>2. CASE toClient'[u] # toClient[u]
        <5>1. PICK f \in Frames' :
                 /\ f.what \in {"notice", "message", "whisper"}
                 /\ toClient'[u] = Append(toClient[u], f)
                 /\ f.what = "message" => \A i \in f.of : messages'[i].from # u
          BY <3>1, <4>2 DEF Overhears
        <5>2. ~IsAnswer(u, f)'
          BY <5>1 DEF IsAnswer
        <5>3. y2 = y + One(IsAnswer(u, f)') /\ One(IsAnswer(u, f)') = 0
          BY <1>2, <1>3, <1>4, <5>1, <5>2, AnswersMove DEF One
        <5> QED
          BY <1>5, <5>3
      <4> QED
        BY <4>1, <4>2
    <3> QED
      BY <1>5, <1>8, <1>10, <2>1, <3>2, <3>3
  <2> QED
    BY <2>2, <2>3, <2>4
<1> QED
  BY <1>12, <1>13, <1>14, <1>15, <1>16, <1>17 DEF Next

\* Every line that is sent is answered once, while both ends of the connection
\* read: at no time are there more answers than lines, and when nothing is on its
\* way there are as many.
THEOREM AnsweredOnceEach == Spec => []AnswersMatchLines
<1>1. Init => AccountInv
  <2> SUFFICES ASSUME Init PROVE CreateAsked /\ \A u \in Users : Accounted(u)
    BY DEF AccountInv
  <2>1. CreateAsked
    BY DEF Init, RS!Init, CreateAsked
  <2> SUFFICES ASSUME NEW u \in Users PROVE Accounted(u)
    BY <2>1
  <2>2. DOMAIN toServer[u] = {} /\ DOMAIN toClient[u] = {} /\ answered[u] = 0 /\ lines[u] = 0
    BY DEF Init
  <2>3. Positions(LinesIn(u), TRUE) = {} /\ Positions(AnswersIn(u), TRUE) = {}
    BY <2>2 DEF LinesIn, AnswersIn, Positions
  <2>4. Yes(LinesIn(u)) = 0 /\ Yes(AnswersIn(u)) = 0
    BY <2>3, FS_EmptySet DEF Yes
  <2>5. Owed(u) = 0
    BY <2>2, <2>4 DEF Owed
  <2> QED
    BY <2>2, <2>5 DEF Accounted
<1>2. Inv /\ AccountInv /\ [Next]_vars => AccountInv'
  BY AccountKept
<1>3. Inv /\ AccountInv => AnswersMatchLines
  <2> SUFFICES ASSUME Inv, AccountInv, NEW u \in Users
               PROVE  /\ answered[u] <= lines[u]
                      /\ Connected(u) /\ Settled(u) => answered[u] = lines[u]
    BY DEF AnswersMatchLines
  <2>1. Yes(LinesIn(u)) \in Nat
    BY LinesMove DEF Inv
  <2>2. AnswersIn(u) \in Seq(BOOLEAN)
    <3>1. PICK q : q = toClient[u]
      OBVIOUS
    <3>2. q \in Seq(Frames) /\ AnswersIn(u) = [i \in DOMAIN q |-> IsAnswer(u, q[i])]
      BY <3>1 DEF Inv, Wired, AnswersIn
    <3>3. \A f : IsAnswer(u, f) \in BOOLEAN
      BY DEF IsAnswer
    <3> QED
      BY <3>2, <3>3
  <2>3. Yes(AnswersIn(u)) \in Nat
    BY <2>2, MarksMove
  <2>4. answered[u] \in Nat /\ lines[u] \in Nat
    BY ConversationAssumption DEF ConversationAssumption, Inv, Wired
  <2>5. Owed(u) <= lines[u] /\ (Connected(u) => Owed(u) = lines[u])
    BY DEF AccountInv, Accounted
  <2>6. answered[u] <= lines[u]
    BY <2>1, <2>3, <2>4, <2>5 DEF Owed
  <2>7. ASSUME Connected(u), Settled(u) PROVE Owed(u) = answered[u]
    <3>1. DOMAIN toServer[u] = {} /\ DOMAIN toClient[u] = {}
      BY <2>7 DEF Settled, Connected
    <3>2. Positions(LinesIn(u), TRUE) = {} /\ Positions(AnswersIn(u), TRUE) = {}
      BY <3>1 DEF LinesIn, AnswersIn, Positions
    <3>3. Yes(LinesIn(u)) = 0 /\ Yes(AnswersIn(u)) = 0
      BY <3>2, FS_EmptySet DEF Yes
    <3> QED
      BY <2>4, <3>3 DEF Owed
  <2> QED
    BY <2>5, <2>6, <2>7
<1> QED
  BY <1>1, <1>2, <1>3, Invariance, PTL DEF Spec

\* The queues, the table, the room registry and the counters are what they are
\* declared to be.
THEOREM TypeCorrect == Spec => []TypeOK
<1>1. Inv /\ AnswersMatchLines => TypeOK
  <2> SUFFICES ASSUME Inv, AnswersMatchLines PROVE TypeOK
    OBVIOUS
  <2>1. RS!TypeOK
    BY SameRooms DEF Inv, RSP!IInv
  <2>2. answered \in [Users -> 0..MaxLines]
    <3>1. ASSUME NEW u \in Users PROVE answered[u] \in 0..MaxLines
      <4>1. answered[u] \in Nat /\ lines[u] \in 0..MaxLines /\ MaxLines \in Nat
        BY ConversationAssumption DEF ConversationAssumption, Inv, Wired
      <4>2. answered[u] <= lines[u]
        BY DEF AnswersMatchLines
      <4> QED
        BY <4>1, <4>2
    <3> QED
      BY <3>1 DEF Inv, Wired
  <2> QED
    BY <2>1, <2>2 DEF Inv, Wired, Frames, TypeOK
<1> QED
  BY <1>1, Invariance, AnsweredOnceEach, PTL
=============================================================================
