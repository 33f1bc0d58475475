---------------------------- MODULE Conversation ----------------------------
(***************************************************************************)
(* Clients and server talking: what a user types (client/src/main), what   *)
(* the server makes of it (RoomService, MessageService) and what the       *)
(* client makes of the answers (client/src/client, handle_server_message). *)
(*                                                                         *)
(* The client keeps a room of its own, currentRoom, which it guesses from  *)
(* the answers, and asks for the history of a room when it hears that it   *)
(* has joined it.  Each direction of a connection is a queue of frames.    *)
(* The server runs one thread, so that a request is handled as a whole,    *)
(* but for CREATE: there the table is written a step before the room is    *)
(* entered.  All users have logged in, and no database call fails.         *)
(*                                                                         *)
(* Of a text or a name that is typed only its length counts, as long as    *)
(* the request it makes; a frame of max_body bytes or more ends the read   *)
(* loop of whoever receives it.  The names of users, of at most 50         *)
(* characters, count as Overhead.  Of a timestamp, which has no fractions, *)
(* counts which messages have the same.                                    *)
(*                                                                         *)
(* The operators called variants are slips the code does not make: with a  *)
(* variant in the place of the definition after it, a property fails.      *)
(***************************************************************************)
EXTENDS Maps, SequencesExt

CONSTANTS Users, RoomNames, RoomIds, Collate,
          LongNames,  \* room names the table cannot hold
          NameLength, \* room name -> its length
          NoRoom,     \* "": a room name one may type, and no room for a client
          Nobody,     \* a name no user has
          Patient,    \* users who type when all they asked for is settled
          MaxLines,   \* lines each user types, at most
          Lengths,    \* lengths of the texts typed
          Whispers,   \* private messages typed: to whom, and how long
          Earlier,    \* what the table messages may hold when the server starts
          Limit,      \* messages the client asks for
          Overhead,   \* bytes of a frame, and of a message in it, besides its texts
          MaxBody     \* max_body_length, in both programs

ASSUME ConversationAssumption ==
  /\ Collate \in [RoomNames -> RoomNames] /\ LongNames \subseteq RoomNames
  /\ NameLength \in [RoomNames -> Nat]
  /\ NoRoom \in RoomNames /\ NameLength[NoRoom] = 0 /\ Nobody \notin Users
  /\ Patient \subseteq Users
  /\ Lengths \subseteq Nat \ {0}
  /\ Whispers \subseteq (Users \cup {Nobody}) \X Lengths
  /\ {MaxLines, Overhead} \subseteq Nat /\ {Limit, MaxBody} \subseteq Nat \ {0}
  /\ Earlier \subseteq Seq([id : RoomIds, from : Users, len : Nat, at : Nat])
  /\ \A table \in Earlier : \A i \in DOMAIN table :
       /\ table[i].len < MaxBody
       /\ \A j \in 1..i : table[j].at <= table[i].at

VARIABLES rooms, creating, userToRoomMap, activeRooms,   \* RoomService
          messages,     \* table messages, by id
          toServer,     \* user -> requests on their way
          toClient,     \* user -> frames on their way
          serving,      \* users whose requests the server still reads
          reading,      \* users whose client still reads
          currentRoom,  \* user -> the room the client takes the user to be in
          lines,        \* user -> lines sent
          longest,      \* history: the longest text or name typed so far
          answered,     \* history: user -> lines answered
          seen,         \* history: user -> the messages shown to it
          misled        \* history: users whose last room came from a refusal

RS == INSTANCE RoomService WITH Sessions <- Users

registry == <<rooms, creating, userToRoomMap, activeRooms>>
wires == <<toServer, toClient>>
client == <<reading, currentRoom, lines, longest, answered, seen, misled>>
vars == <<registry, messages, wires, serving, client>>

Message == [id : RoomIds, from : Users, len : Nat, at : Nat]

\* What a client sends: a room operation or a request for history, a text, or
\* a private message.  One to Nobody is as long as the name it is for.
Request == [op : {"join", "leave", "create", "history"}, room : RoomNames]
             \cup [op : {"public"}, len : Lengths]
             \cup [op : {"private"}, to : Users \cup {Nobody}, len : Lengths]

\* What the server sends: room is the room it names, and of the messages of the
\* table it carries.
Frame(what, room, of) == [what |-> what, room |-> room, of |-> of, text |-> 0]

\* One that repeats a text that is in no table.
Echo(what, room, text) == [what |-> what, room |-> room, of |-> {}, text |-> text]

\* A private message is "whispered" to its sender and a "whisper" to the other.
Kinds == {"joined", "unknown", "left", "created", "taken", "error",
          "message", "history", "notice", "whisper", "whispered"}

TypeOK ==
  /\ RS!TypeOK
  /\ messages \in Seq(Message)
  /\ toServer \in [Users -> Seq(Request)]
  /\ toClient \in [Users -> Seq([what : Kinds, room : RoomNames,
                                of : SUBSET DOMAIN messages, text : Nat])]
  /\ serving \subseteq Users /\ reading \subseteq Users /\ misled \subseteq Users
  /\ currentRoom \in [Users -> RoomNames]
  /\ lines \in [Users -> 0..MaxLines] /\ answered \in [Users -> 0..MaxLines]
  /\ longest \in Nat
  /\ seen \in [Users -> SUBSET DOMAIN messages]

Init ==
  /\ RS!Init
  /\ messages \in Earlier
  /\ \A i \in DOMAIN messages :
       \E r \in DOMAIN rooms : rooms[r].id = messages[i].id /\ rooms[r].name # NoRoom
  /\ toServer = [u \in Users |-> <<>>] /\ toClient = [u \in Users |-> <<>>]
  /\ serving = Users /\ reading = Users
  /\ currentRoom = [u \in Users |-> NoRoom]
  /\ lines = [u \in Users |-> 0] /\ answered = [u \in Users |-> 0]
  /\ seen = [u \in Users |-> {}] /\ misled = {}
  /\ longest \in {0} \cup {messages[i].len : i \in DOMAIN messages}
  /\ \A i \in DOMAIN messages : messages[i].len <= longest

Add(queues, u, item) == [queues EXCEPT ![u] = Append(@, item)]

\* Nothing is on its way between u and the server, and the server is not busy.
Settled(u) ==
  /\ toServer[u] = <<>> \/ u \notin serving
  /\ toClient[u] = <<>> \/ u \notin reading
  /\ creating = {}

-----------------------------------------------------------------------------
(* handle_user_input.                                                      *)

\* How much of a request was typed.
Typed(request) == IF request.op \in {"public", "private"} THEN request.len
                                                         ELSE NameLength[request.room]

SendLine(u, request) ==
  /\ lines[u] < MaxLines
  /\ u \in Patient => Settled(u)
  /\ lines' = [lines EXCEPT ![u] = @ + 1]
  /\ longest' = IF Typed(request) > longest THEN Typed(request) ELSE longest
  /\ toServer' = Add(toServer, u, request)
  /\ UNCHANGED <<registry, messages, toClient, serving,
                 reading, currentRoom, answered, seen, misled>>

\* /create and /join, of a name that may be empty.  A /create of a name the table
\* cannot hold ends the server's thread: that is in ChatServer, and not here.
TypeRoom(u, op, r) ==
  /\ op = "create" => r \notin LongNames
  /\ SendLine(u, [op |-> op, room |-> r])

\* /leave names the room the client takes the user to be in.
TypeLeave(u) ==
  /\ currentRoom[u] # NoRoom
  /\ SendLine(u, [op |-> "leave", room |-> currentRoom[u]])

TypeText(u, len) == SendLine(u, [op |-> "public", len |-> len])

\* @somebody
TypePrivate(u, to, len) == SendLine(u, [op |-> "private", to |-> to, len |-> len])

-----------------------------------------------------------------------------
(* The server.                                                             *)

\* The session of u reads on, and the server is not in the midst of a CREATE.
Ready(u) == u \in serving /\ creating = {} /\ toServer[u] # <<>>

TooLong(request) == Typed(request) >= MaxBody

\* The server reads a request op of u.
Reads(u, op) ==
  /\ Ready(u)
  /\ Head(toServer[u]).op = op /\ ~TooLong(Head(toServer[u]))

\* The request is done with.
Taken(u) == toServer' = [toServer EXCEPT ![u] = Tail(@)]

Asked(u) == Head(toServer[u]).room

\* session->send
Answer(u, frame) == toClient' = Add(toClient, u, frame)

\* broadcastToRoom, and then the answer to u.
BroadcastAndAnswer(u, members, frame, answer) ==
  toClient' = [v \in Users |->
                 toClient[v] \o (IF v \in members \ {u} THEN <<frame>> ELSE <<>>)
                             \o (IF v = u THEN <<answer>> ELSE <<>>)]

MembersThen(r) == IF r \in DOMAIN activeRooms'
                    THEN DOMAIN activeRooms'[r].members ELSE {}

\* JOIN of a room there is.  Others hear of the newcomer.
Join(u) ==
  /\ Reads(u, "join") /\ RS!Known(Asked(u))
  /\ Taken(u)
  /\ RS!JoinRoom(u, u, Asked(u), RS!RowOf(Asked(u)))
  /\ BroadcastAndAnswer(u, MembersThen(Asked(u)), Frame("notice", Asked(u), {}),
                        Frame("joined", Asked(u), {}))
  /\ UNCHANGED <<messages, serving, client>>

\* JOIN of a room there is none of: the answer says neither which operation it
\* is about nor, but for its text, which room.
JoinUnknown(u) ==
  /\ Reads(u, "join") /\ ~RS!Known(Asked(u))
  /\ Taken(u)
  /\ Answer(u, Echo("unknown", NoRoom, NameLength[Asked(u)]))
  /\ UNCHANGED <<registry, messages, serving, client>>

\* LEAVE, a success whether or not the user was in that room.
Leave(u) ==
  /\ Reads(u, "leave")
  /\ Taken(u)
  /\ RS!LeaveRoom(u, Asked(u))
  /\ BroadcastAndAnswer(u, MembersThen(Asked(u)), Frame("notice", Asked(u), {}),
                        Frame("left", Asked(u), {}))
  /\ UNCHANGED <<messages, serving, client>>

\* CREATE of a name that is taken.
CreateTaken(u) ==
  /\ Reads(u, "create") /\ RS!Known(Asked(u))
  /\ Taken(u)
  /\ Answer(u, Frame("taken", Asked(u), {}))
  /\ UNCHANGED <<registry, messages, serving, client>>

\* CREATE of a new name: addRoom ...
AddRoom(u) ==
  /\ Reads(u, "create")
  /\ \E id \in RoomIds : RS!AddRoom(u, Asked(u), id)
  /\ UNCHANGED <<messages, wires, serving, client>>

\* ... and then the section under the lock, and the answer.
Create(u) ==
  /\ toServer[u] # <<>>
  /\ \E r \in RoomNames :
       /\ RS!CreateRoom(u, u, r, RS!RowOf(r).id)
       /\ Answer(u, Frame("created", r, {}))
  /\ Taken(u)
  /\ UNCHANGED <<messages, serving, client>>

\* created_at of a message stored now: in the last one's second, or later.
Times == LET now == IF messages = <<>> THEN 0 ELSE Last(messages).at
         IN {now, now + 1}

\* Variant: the sender is left out.
AudienceButSender(u) == DOMAIN RS!Recipients(RS!CurrentRoomName(u, NoRoom), {u})

\* Everybody in the room hears a message, the sender too.
Audience(u) == DOMAIN RS!Recipients(RS!CurrentRoomName(u, NoRoom), {})

\* A text from a user who is in a room is stored and broadcast.
Say(u) ==
  /\ Reads(u, "public")
  /\ RS!CurrentRoomName(u, NoRoom) # NoRoom
  /\ Taken(u)
  /\ \E at \in Times :
       messages' = Append(messages, [id |-> RS!CurrentRoomId(u, NoRoom), from |-> u,
                                     len |-> Head(toServer[u]).len, at |-> at])
  /\ toClient' = [v \in Users |->
       IF v \in Audience(u)
         THEN Append(toClient[v], Frame("message", RS!CurrentRoomName(u, NoRoom),
                                        {Len(messages) + 1}))
         ELSE toClient[v]]
  /\ UNCHANGED <<registry, serving, client>>

\* A text from a user who is in no room, or in the room called "".
SayNowhere(u) ==
  /\ Reads(u, "public") \/ Reads(u, "private")
  /\ RS!CurrentRoomName(u, NoRoom) = NoRoom
  /\ Taken(u)
  /\ Answer(u, Frame("error", NoRoom, {}))
  /\ UNCHANGED <<registry, messages, serving, client>>

\* A private message, from a user who is in a room: it is stored nowhere.
Whisper(u) ==
  /\ Reads(u, "private") /\ Head(toServer[u]).to \in serving \ {u}
  /\ RS!CurrentRoomName(u, NoRoom) # NoRoom
  /\ Taken(u)
  /\ LET heard(what) == Echo(what, RS!CurrentRoomName(u, NoRoom), Head(toServer[u]).len)
     IN BroadcastAndAnswer(u, {Head(toServer[u]).to}, heard("whisper"), heard("whispered"))
  /\ UNCHANGED <<registry, messages, serving, client>>

\* One for somebody who is not online, or for its sender: the answer to the first
\* repeats the name.
WhisperFails(u) ==
  /\ Reads(u, "private") /\ Head(toServer[u]).to \notin serving \ {u}
  /\ RS!CurrentRoomName(u, NoRoom) # NoRoom
  /\ Taken(u)
  /\ Answer(u, Echo("error", NoRoom, IF Head(toServer[u]).to = Nobody
                                       THEN Head(toServer[u]).len ELSE 0))
  /\ UNCHANGED <<registry, messages, serving, client>>

\* A request too long: the read loop ends and onDisconnect runs.
Refuse(u) ==
  /\ Ready(u) /\ TooLong(Head(toServer[u]))
  /\ serving' = serving \ {u}
  /\ Taken(u)
  /\ RS!HandleDisconnect(u)
  /\ UNCHANGED <<messages, toClient, client>>

\* A room still has a seat of u: handleDisconnect gives up one at most.
Seated(u) == \E r \in DOMAIN activeRooms : u \in DOMAIN activeRooms[r].members

\* With the last reference to the session, which a seat is, goes its socket; the
\* client's read loop ends, and what was on its way may be lost.
Drop(u) ==
  /\ u \in reading \ serving /\ ~Seated(u)
  /\ reading' = reading \ {u}
  /\ UNCHANGED <<registry, messages, wires, serving,
                 currentRoom, lines, longest, answered, seen, misled>>

In(id) == {i \in DOMAIN messages : messages[i].id = id}

\* Variants: no LIMIT, or ORDER BY the other way round.
AllOf(id) == {In(id)}

Oldest(id) ==
  {of \in SUBSET In(id) :
     /\ Cardinality(of) = Min({Limit, Cardinality(In(id))})
     /\ \A i \in of, j \in In(id) \ of : messages[i].at <= messages[j].at}

\* findLatestByRoomId: ORDER BY created_at DESC LIMIT n may choose among
\* messages of one second.
Latest(id) ==
  {of \in SUBSET In(id) :
     /\ Cardinality(of) = Min({Limit, Cardinality(In(id))})
     /\ \A i \in of, j \in In(id) \ of : messages[i].at >= messages[j].at}

\* A request for the history of the room the user is in.
History(u) ==
  /\ Reads(u, "history")
  /\ u \in DOMAIN userToRoomMap /\ userToRoomMap[u] = Asked(u)
  /\ Taken(u)
  /\ \E of \in Latest(RS!CurrentRoomId(u, NoRoom)) :
       Answer(u, Frame("history", Asked(u), of))
  /\ UNCHANGED <<registry, messages, serving, client>>

\* A request for the history of another room is not answered.
HistoryDenied(u) ==
  /\ Reads(u, "history")
  /\ ~ (u \in DOMAIN userToRoomMap /\ userToRoomMap[u] = Asked(u))
  /\ Taken(u)
  /\ UNCHANGED <<registry, messages, toClient, serving, client>>

-----------------------------------------------------------------------------
(* The client's read loop.                                                 *)

\* How often a frame repeats the name of its room, besides in its messages.
NamesIn(what) ==
  CASE what \in {"joined", "left", "created", "taken"} -> 2
    [] what \in {"history", "whisper", "whispered"} -> 1
    [] OTHER -> 0

\* The length of a frame.
Size(frame) ==
  Overhead + frame.text + NamesIn(frame.what) * NameLength[frame.room]
    + MapThenSumSet(LAMBDA i : messages[i].len + NameLength[frame.room] + Overhead, frame.of)

Arrives(u) == u \in reading /\ toClient[u] # <<>>

\* A frame too long: the client tells its user and reads no more.
GoDeaf(u) ==
  /\ Arrives(u) /\ Size(Head(toClient[u])) >= MaxBody
  /\ reading' = reading \ {u}
  /\ toClient' = [toClient EXCEPT ![u] = Tail(@)]
  /\ UNCHANGED <<registry, messages, toServer, serving,
                 currentRoom, lines, longest, answered, seen, misled>>

\* Variant: a refused JOIN sets the room as well.
RoomAfterAny(old, frame) ==
  CASE frame.what \in {"joined", "created", "taken", "unknown"} -> frame.room
    [] frame.what = "left" -> NoRoom
    [] OTHER -> old

\* setCurrentRoom: JOIN and LEAVE when they succeeded, CREATE always.
RoomAfter(old, frame) ==
  CASE frame.what \in {"joined", "created", "taken"} -> frame.room
    [] frame.what = "left" -> NoRoom
    [] OTHER -> old

IsAnswer(u, frame) ==
  \/ frame.what \in {"joined", "unknown", "left", "created", "taken", "error", "whispered"}
  \/ frame.what = "message" /\ \E i \in frame.of : messages[i].from = u

\* handle_server_message.  Having joined, the client asks for the history.
Hear(u) ==
  /\ Arrives(u) /\ Size(Head(toClient[u])) < MaxBody
  /\ LET frame == Head(toClient[u])
     IN /\ currentRoom' = [currentRoom EXCEPT ![u] = RoomAfter(@, frame)]
        /\ toServer' = IF frame.what = "joined"
                         THEN Add(toServer, u, [op |-> "history", room |-> frame.room])
                         ELSE toServer
        /\ seen' = [seen EXCEPT ![u] = @ \cup frame.of]
        /\ answered' = [answered EXCEPT ![u] = IF IsAnswer(u, frame) THEN @ + 1 ELSE @]
        /\ misled' = IF frame.what = "taken" THEN misled \cup {u}
                     ELSE IF frame.what \in {"joined", "created"} THEN misled \ {u}
                     ELSE misled
  /\ toClient' = [toClient EXCEPT ![u] = Tail(@)]
  /\ UNCHANGED <<registry, messages, serving, reading, lines, longest>>

-----------------------------------------------------------------------------
Type(u) ==
  \/ \E op \in {"create", "join"}, r \in RoomNames : TypeRoom(u, op, r)
  \/ TypeLeave(u)
  \/ \E len \in Lengths : TypeText(u, len)
  \/ \E whisper \in Whispers : TypePrivate(u, whisper[1], whisper[2])

Serve(u) ==
  \/ Join(u) \/ JoinUnknown(u) \/ Leave(u)
  \/ CreateTaken(u) \/ AddRoom(u) \/ Create(u)
  \/ Say(u) \/ SayNowhere(u) \/ Whisper(u) \/ WhisperFails(u) \/ Refuse(u)
  \/ History(u) \/ HistoryDenied(u)

Next == \E u \in Users : Type(u) \/ Serve(u) \/ Hear(u) \/ GoDeaf(u) \/ Drop(u)

Spec == Init /\ [][Next]_vars

\* The server's thread comes to every session, and a client reads while it
\* can; nobody is bound to type.
Fairness ==
  \A u \in Users : WF_vars(Serve(u)) /\ WF_vars(Hear(u) \/ GoDeaf(u))

FairSpec == Spec /\ Fairness

-----------------------------------------------------------------------------
(* Properties.                                                             *)

\* Both ends of the connection of u still read.
Connected(u) == u \in serving \cap reading

\* When all is settled, client and server agree on the room a patient user is
\* in, unless the client took the room from the refusal of a CREATE
\* (client.cpp:190 does not look at success()), which only a room that is
\* joined or created later repairs: /leave names the wrong room then.
MisledByRefusalOnly ==
  \A u \in Patient :
    Connected(u) /\ Settled(u) /\ u \notin misled =>
      currentRoom[u] = RS!CurrentRoomName(u, NoRoom)

\* An end of a connection stops reading only where somebody typed a line so long
\* that a frame of the messages a client asks for, each with such a text and such
\* a name of its room, is too long: neither Session::send nor handleHistoryRequest
\* look at the length (Session.cpp:73, RoomService.cpp:140), and a body of
\* max_body_length ends the loop of whoever reads it.
DeafFromLongLinesOnly ==
  serving \cap reading # Users =>
    (Limit + 1) * (2 * longest + Overhead) >= MaxBody

\* A user in a room has been shown its last messages, those of before it came
\* and those said between JOIN and the client's request for history included;
\* of messages that share a second with the oldest the server may leave out
\* any (MySQLMessageRepository.cpp:404, schema.sql:31).
CaughtUp ==
  \A u \in Users :
    Connected(u) /\ Settled(u) /\ u \in DOMAIN userToRoomMap =>
      LET said == In(activeRooms[userToRoomMap[u]].id)
      IN \A i \in said :
           Cardinality({j \in said : messages[j].at >= messages[i].at}) <= Limit
             => i \in seen[u]

\* Every line that is sent is answered, and answered once: by the response to a
\* room operation, by an error, or by one's own message, as long as both ends
\* read.
EveryLineIsAnswered ==
  \A u \in Users : []<>(answered[u] = lines[u] \/ ~Connected(u))
=============================================================================
