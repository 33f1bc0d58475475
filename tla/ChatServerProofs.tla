-------------------------- MODULE ChatServerProofs --------------------------
(***************************************************************************)
(* The server, for any number of threads, users, sessions and rooms, any   *)
(* scripts of the clients and any failure of the database.                 *)
(*                                                                         *)
(* The handlers use the room registry only as RoomService describes, so    *)
(* what RoomServiceProofs shows of it holds in the server, and in turn     *)
(* feeds the argument here: a handler's variables have the types its label *)
(* promises (Shape), and what it read before its section still holds when  *)
(* the section runs (Holds), because rows of the table stay as they are, a *)
(* session stays authenticated, and no two handlers insert the same name   *)
(* (Creators).                                                             *)
(*                                                                         *)
(* The last parts take clients that log in as one user each                *)
(* (OneUserPerClient, what the console client does): then a handler never  *)
(* sends a notice to its own session, and every request is in one place,   *)
(* the queue, a thread or an outbox.  One thread keeps the requests in     *)
(* line, so a session's disconnect is its last task and leaves nothing of  *)
(* it behind, and a notice is true of the registry until the session that  *)
(* heard it is moved or hears another.                                     *)
(*                                                                         *)
(* Leaves that expand WorkerStep or Disconnect name Zenon, which copes     *)
(* with them better than SMT.                                              *)
(***************************************************************************)
EXTENDS ChatServer, ContainerTheorems

RSP == INSTANCE RoomServiceProofs

-----------------------------------------------------------------------------
(* Types.                                                                  *)

Notices == [kind : {"joined", "left"}, re : Sessions \X Nat, user : Users, room : RoomNames]
Messages == [kind : {"message"}, re : Sessions \X Nat,
             label : RoomNames, id : RoomIds \cup {None}, to : RoomNames \cup {None}]

Context == [s : Sessions \cup {None}, n : Nat, arg : Users \cup RoomNames \cup {None},
            user : Users \cup {None}, room : RoomNames \cup {None},
            found : RS!Row \cup RoomIds \cup Sessions \cup {None},
            msg : Messages \cup Notices \cup {None}, todo : MapsInto(Users, Sessions)]

TypedNet ==
  /\ messages \in SUBSET Stored((Sessions \X Nat) \cup {Earlier}, RoomIds)
  /\ queue \in Seq(Task)
  /\ reading \in SUBSET Sessions /\ is_closed \in SUBSET Sessions
  /\ sent \in [Sessions -> Nat]
  /\ outbox \in [Sessions -> Seq(Envelope)]
  /\ up \in BOOLEAN

TypedThreads == pc \in [Workers -> PC] /\ ctx \in [Workers -> Context]

\* The labels of a handler that knows its user, has a room's name to work on,
\* or has read the name of the user's room.
WithUser == PC \ {"idle", "dead", "login", "reply", "remove"}
WithArg == {"join_lookup", "join", "leave", "create_lookup", "insert", "create",
            "history_check", "history_id", "history_read"}
WithRoom == {"id", "store", "target", "private_find", "private_send", "private_echo"}

\* What the variables c of a handler at label p are.
Shape(p, c) ==
  /\ p \notin {"idle", "dead"} => c.s \in Sessions
  /\ p \in WithUser => c.user \in Users
  /\ p = "login" => c.arg \in Users
  /\ p \in WithArg => c.arg \in RoomNames
  /\ p \in WithRoom => c.room \in RoomNames
  /\ p \in {"store", "history_read"} => c.found \in RoomIds \cup {None}
  /\ p = "create" => c.found \in RoomIds
  /\ p = "private_send" => c.found \in Sessions
  /\ p = "target" => c.msg \in Messages
  /\ p \in {"snapshot", "deliver"} => c.msg \in Messages \cup Notices

\* What it has read and relies on.
Holds(p, c) ==
  /\ p = "join" => RS!Known(c.arg) /\ c.found = RS!RowOf(c.arg)
  /\ p = "create" => /\ RS!Known(c.arg) /\ RS!RowOf(c.arg).id = c.found
                     /\ <<c.user, c.arg>> \in creating
  /\ p = "disconnect" => SM!Authenticated(c.s)

Creators ==
  \A v, w \in Workers :
    pc[v] = "create" /\ pc[w] = "create" /\ ctx[v].arg = ctx[w].arg => v = w

Threads == \A w \in Workers : Shape(pc[w], ctx[w]) /\ Holds(pc[w], ctx[w])

IInv == /\ RSP!IInv /\ SM!TypeOK
        /\ TypedNet /\ TypedThreads
        /\ Threads /\ Creators

-----------------------------------------------------------------------------
(* The two registries, as this module and as their proofs see them.        *)

\* The room registry is the one RoomServiceProofs is about.
LEMMA SameRooms ==
  /\ RS!Init <=> RSP!Init
  /\ RS!TypeOK <=> RSP!TypeOK
  /\ [RS!Next]_(RS!vars) <=> [RSP!Next]_(RSP!vars)
<1>1. RS!Init <=> RSP!Init
  BY DEF RS!Init, RSP!Init, RS!Row, RSP!Row, RS!MapsInto, RSP!MapsInto, RS!NoEntries,
         RSP!NoEntries
<1>2. RS!TypeOK <=> RSP!TypeOK
  BY DEF RS!TypeOK, RSP!TypeOK, RS!Row, RSP!Row, RS!ActiveRoom, RSP!ActiveRoom,
         RS!MapsInto, RSP!MapsInto, RS!IsMap, RSP!IsMap
<1>3. [RS!Next]_(RS!vars) <=> [RSP!Next]_(RSP!vars)
  BY DEF RS!Next, RSP!Next, RS!vars, RSP!vars, RS!tables, RSP!tables, RS!seating,
         RSP!seating, RS!Known, RSP!Known, RS!RowOf, RSP!RowOf, RS!FreshIds, RSP!FreshIds,
         RS!Insert, RSP!Insert, RS!AddRoom, RSP!AddRoom, RS!AddRoomUnacknowledged,
         RSP!AddRoomUnacknowledged, RS!DropMember, RSP!DropMember, RS!DropCurrent,
         RSP!DropCurrent, RS!NewEntry, RSP!NewEntry, RS!JoinRoom, RSP!JoinRoom,
         RS!LeaveRoom, RSP!LeaveRoom, RS!CreateRoom, RSP!CreateRoom, RS!HandleDisconnect,
         RSP!HandleDisconnect, RS!Put, RSP!Put, RS!Erase, RSP!Erase, RS!Restrict,
         RSP!Restrict, RS!NoEntries, RSP!NoEntries
<1> QED
  BY <1>1, <1>2, <1>3

\* Steps of RoomService keep the invariant of the room registry.
LEMMA RoomsKept ==
  ASSUME RSP!IInv, [RS!Next]_(RS!vars)
  PROVE  RSP!IInv'
<1>1. RSP!NamesAssumption
  BY ServerAssumption DEF ServerAssumption, RSP!NamesAssumption
<1> QED
  BY <1>1, SameRooms, RSP!NextIInv

\* The session registry's maps are those of module Maps.
LEMMA SameMaps ==
  /\ SM!NoEntries = NoEntries
  /\ \A m, K, V : SM!IsMap(m, K, V) <=> IsMap(m, K, V)
  /\ \A m, k, v : SM!Put(m, k, v) = Put(m, k, v)
  /\ \A m, k : SM!Erase(m, k) = Erase(m, k)
BY DEF SM!NoEntries, NoEntries, SM!IsMap, IsMap, SM!Put, Put, SM!Erase, Erase,
       SM!Restrict, Restrict

\* A session has a user's id and name, or neither.
LEMMA IdentityType ==
  ASSUME SM!TypeOK, NEW s \in Sessions
  PROVE  /\ identity[s].userId \in Users \cup {None}
         /\ SM!Authenticated(s) <=> identity[s].userId \in Users
         /\ SM!Authenticated(s) => identity[s].username \in Users
BY ServerAssumption DEF ServerAssumption, SM!TypeOK, SM!Authenticated, SM!Anonymous

\* Steps of SessionManager keep the session registry well typed.
LEMMA PeopleKept ==
  ASSUME SM!TypeOK, [SM!Next]_(SM!vars)
  PROVE  SM!TypeOK'
<1>1. CASE UNCHANGED SM!vars
  BY <1>1 DEF SM!vars, SM!TypeOK
<1>2. ASSUME NEW s \in Sessions, NEW u \in Users, NEW n \in Users,
             SM!RegisterAuthenticatedSession(s, u, n)
      PROVE  SM!TypeOK'
  <2>1. /\ IsMap(sessionsByUserId', Users, Sessions)
        /\ IsMap(sessionsByUsername', Users, Sessions)
    BY <1>2, PutType, SameMaps DEF SM!TypeOK, SM!RegisterAuthenticatedSession
  <2>2. identity' \in [Sessions -> {SM!Anonymous} \cup [userId : Users, username : Users]]
    BY <1>2 DEF SM!TypeOK, SM!RegisterAuthenticatedSession
  <2> QED
    BY <1>2, <2>1, <2>2, SameMaps DEF SM!TypeOK, SM!RegisterAuthenticatedSession
<1>3. ASSUME NEW s \in Sessions, SM!Remove(s)
      PROVE  SM!TypeOK'
  <2>1. /\ IsMap(sessionsByUserId', Users, Sessions)
        /\ IsMap(sessionsByUsername', Users, Sessions)
    BY <1>3, EraseType, SameMaps DEF SM!TypeOK, SM!Remove
  <2> QED
    BY <1>3, <2>1, SameMaps DEF SM!TypeOK, SM!Remove
<1>4. ASSUME NEW s \in Sessions, NEW n \in Users, SM!Authenticated(s), SM!UpdateUsername(s, n)
      PROVE  SM!TypeOK'
  <2>1. IsMap(sessionsByUsername', Users, Sessions)
    BY <1>4, EraseType, PutType, SameMaps DEF SM!TypeOK, SM!UpdateUsername
  <2>2. identity[s] \in [userId : Users, username : Users]
    BY <1>4, ServerAssumption DEF ServerAssumption, SM!TypeOK, SM!Authenticated, SM!Anonymous
  <2>3. PICK i : i = [identity[s] EXCEPT !.username = n]
    OBVIOUS
  <2>4. i \in [userId : Users, username : Users] /\ identity' = [identity EXCEPT ![s] = i]
    BY <1>4, <2>2, <2>3 DEF SM!UpdateUsername
  <2> QED
    BY <1>4, <2>1, <2>4, SameMaps DEF SM!TypeOK, SM!UpdateUsername
<1> QED
  BY <1>1, <1>2, <1>3, <1>4 DEF SM!Next

-----------------------------------------------------------------------------
(* One thread moves.                                                       *)

\* The thread is where it goes, the others are where they were.
LEMMA Moves ==
  ASSUME TypedThreads, NEW w \in Workers, NEW p \in PC, NEW c \in Context, Goto(w, p, c)
  PROVE  /\ TypedThreads' /\ pc'[w] = p /\ ctx'[w] = c
         /\ \A v \in Workers \ {w} : pc'[v] = pc[v] /\ ctx'[v] = ctx[v]
BY DEF TypedThreads, Goto

\* What the registries no longer hold is what a handler at "create" has used up.
Persists(u, r) ==
  /\ \A q : RS!Known(q) => RS!Known(q)' /\ RS!RowOf(q)' = RS!RowOf(q)
  /\ \A e \in creating \ creating' : e = <<u, r>>
  /\ \A s \in Sessions : SM!Authenticated(s) => SM!Authenticated(s)'

\* A step keeps the invariant if its registry steps are those of the two
\* modules, and its thread relies on nothing that does not hold.
LEMMA ByThread ==
  ASSUME IInv, NEW w \in Workers, NEW p \in PC, NEW c \in Context, Goto(w, p, c),
         [RS!Next]_(RS!vars), [SM!Next]_(SM!vars), TypedNet',
         Shape(p, c), Holds(p, c)',
         NEW u, NEW r, Persists(u, r),
         \A v \in Workers \ {w} : pc[v] = "create" => ctx[v].arg # r,
         p = "create" => \A v \in Workers \ {w} : pc[v] = "create" => ctx[v].arg # c.arg
  PROVE  IInv'
<1>1. /\ TypedThreads' /\ pc'[w] = p /\ ctx'[w] = c
      /\ \A v \in Workers \ {w} : pc'[v] = pc[v] /\ ctx'[v] = ctx[v]
  BY Moves DEF IInv
<1>2. RSP!IInv' /\ SM!TypeOK'
  BY RoomsKept, PeopleKept DEF IInv
<1>3. ASSUME NEW v \in Workers \ {w}, NEW q, NEW d, q = pc[v], d = ctx[v]
      PROVE  Shape(q, d) /\ Holds(q, d)'
  <2>1. Shape(q, d) /\ Holds(q, d)
    BY <1>3 DEF IInv, Threads
  <2>2. q = "create" => d.arg # r
    BY <1>3
  <2>3. q # "idle" /\ q # "dead" => d.s \in Sessions
    BY <2>1 DEF Shape
  <2> QED
    BY <2>1, <2>2, <2>3 DEF Holds, Persists
<1>4. Threads'
  <2> SUFFICES ASSUME NEW v \in Workers
               PROVE  Shape(pc'[v], ctx'[v]) /\ Holds(pc[v], ctx[v])'
    BY DEF Threads
  <2>1. CASE v = w
    BY <1>1, <2>1 DEF Holds
  <2>2. CASE v # w
    BY <1>1, <1>3, <2>2 DEF Holds
  <2> QED
    BY <2>1, <2>2
<1>5. Creators'
  BY <1>1 DEF IInv, Creators
<1> QED
  BY <1>1, <1>2, <1>4, <1>5 DEF IInv

\* The same when the registries are left alone.
LEMMA ByQuiet ==
  ASSUME IInv, NEW w \in Workers, NEW p \in PC \ {"create"}, NEW c \in Context,
         Goto(w, p, c), UNCHANGED <<registry, people>>, TypedNet', Shape(p, c), Holds(p, c)
  PROVE  IInv'
<1>1. [RS!Next]_(RS!vars) /\ [SM!Next]_(SM!vars)
  BY DEF registry, people, RS!vars, SM!vars
<1>2. Holds(p, c)'
  BY DEF Holds, registry, people, RS!Known, RS!RowOf, SM!Authenticated
<1>3. Persists(None, None)
  BY DEF Persists, registry, people, RS!Known, RS!RowOf, SM!Authenticated
<1>4. \A v \in Workers \ {w} : pc[v] = "create" => ctx[v].arg # None
  BY ServerAssumption DEF ServerAssumption, IInv, Threads, Shape, WithArg
<1> QED
  BY <1>1, <1>2, <1>3, <1>4, ByThread

\* A thread that has nothing to do relies on nothing.
LEMMA Idle ==
  /\ NoTask \in Context
  /\ \A p \in {"idle", "dead"} : p \in PC /\ Shape(p, NoTask) /\ Holds(p, NoTask)
<1>1. NoEntries \in MapsInto(Users, Sessions)
  BY NoEntriesType, MapsIntoIsMap
<1>2. NoTask \in Context
  BY <1>1 DEF NoTask, Handler, Context
<1> QED
  BY <1>2 DEF PC, Shape, Holds, WithUser, WithArg, WithRoom

\* Sending an envelope keeps the type of the outbox.
LEMMA SendTyped ==
  ASSUME outbox \in [Sessions -> Seq(Envelope)], NEW s \in Sessions, NEW m \in Envelope,
         outbox' = [outbox EXCEPT ![s] = Append(@, m)]
  PROVE  outbox' \in [Sessions -> Seq(Envelope)]
OBVIOUS

\* What a handler at a label other than "idle" and "dead" can count on.
LEMMA AtLabel ==
  ASSUME IInv, NEW w \in Workers, pc[w] \notin {"idle", "dead"}
  PROVE  /\ ctx[w] \in Context /\ ctx[w].s \in Sessions /\ Re(w) \in Sessions \X Nat
         /\ Shape(pc[w], ctx[w]) /\ Holds(pc[w], ctx[w])
         /\ \A ok \in BOOLEAN : Reply(w, ok) \in Envelope
<1>1. ctx[w] \in Context /\ Shape(pc[w], ctx[w]) /\ Holds(pc[w], ctx[w])
  BY DEF IInv, TypedThreads, Threads
<1>2. ctx[w].s \in Sessions /\ ctx[w].n \in Nat
  BY <1>1 DEF Shape, Context
<1>3. Re(w) \in Sessions \X Nat
  BY <1>2 DEF Re
<1> QED
  BY <1>1, <1>2, <1>3 DEF Reply, Envelope

\* A handler that answers and returns changes nothing else.
LEMMA AnswerKeeps ==
  ASSUME IInv, NEW w \in Workers, pc[w] \notin {"idle", "dead"}, NEW m \in Envelope,
         Answer(w, m), UNCHANGED <<registry, people, messages, queue, net, up>>
  PROVE  IInv'
<1>1. ctx[w].s \in Sessions
  BY AtLabel
<1>2. outbox' \in [Sessions -> Seq(Envelope)]
  BY <1>1, SendTyped DEF Answer, IInv, TypedNet
<1>3. TypedNet'
  BY <1>2 DEF IInv, TypedNet, net
<1>4. Goto(w, "idle", NoTask)
  BY DEF Answer, Finish
<1> QED
  BY <1>3, <1>4, ByQuiet, Idle

\* A handler that goes on to its next step, having read something.
LEMMA GotoKeeps ==
  ASSUME IInv, NEW w \in Workers, NEW p \in PC \ {"create"}, NEW c \in Context,
         Goto(w, p, c), UNCHANGED <<registry, people, messages, queue, net, outbox>>,
         up' \in BOOLEAN, Shape(p, c), Holds(p, c)
  PROVE  IInv'
<1>1. TypedNet'
  BY DEF IInv, TypedNet, net
<1> QED
  BY <1>1, ByQuiet
\* What happens on the network moves no thread and touches no registry.
LEMMA NetKeeps ==
  ASSUME IInv, UNCHANGED <<registry, people, pc, ctx>>, TypedNet'
  PROVE  IInv'
<1>1. [RS!Next]_(RS!vars) /\ [SM!Next]_(SM!vars)
  BY DEF registry, people, RS!vars, SM!vars
<1>2. RSP!IInv' /\ SM!TypeOK'
  BY <1>1, RoomsKept, PeopleKept DEF IInv
<1>3. TypedThreads' /\ Creators'
  BY DEF IInv, TypedThreads, Creators
<1>4. Threads'
  BY DEF IInv, Threads, Holds, registry, people, RS!Known, RS!RowOf, SM!Authenticated
<1> QED
  BY <1>2, <1>3, <1>4 DEF IInv

-----------------------------------------------------------------------------
(* The sessions.                                                           *)

\* What is posted is a task.
LEMMA PostTyped ==
  ASSUME queue \in Seq(Task), NEW s \in Sessions, NEW n \in Nat,
         NEW req \in Request \cup {[op |-> "disconnect", arg |-> None]}, Post(s, n, req)
  PROVE  queue' \in Seq(Task)
<1>1. [s |-> s, n |-> n, req |-> req] \in Task
  BY DEF Task
<1> QED
  BY <1>1 DEF Post

\* onMessage posts the next request of the session's client.
LEMMA ReceiveKeeps ==
  ASSUME IInv, NEW s \in Sessions, Receive(s)
  PROVE  IInv'
<1>1. sent[s] \in Nat /\ sent \in [Sessions -> Nat] /\ queue \in Seq(Task)
  BY DEF IInv, TypedNet
<1>2. PICK req \in Asks[s][sent[s] + 1] : Post(s, sent[s] + 1, req)
  BY DEF Receive
<1>3. req \in Request
  <2>1. Asks[s] \in Seq(SUBSET Request) /\ sent[s] + 1 \in 1..Len(Asks[s])
    BY <1>1, ServerAssumption DEF ServerAssumption, Receive
  <2> QED
    BY <2>1
<1>4. queue' \in Seq(Task) /\ sent' \in [Sessions -> Nat]
  BY <1>1, <1>2, <1>3, PostTyped DEF Receive
<1>5. TypedNet'
  BY <1>4 DEF IInv, TypedNet, Receive
<1> QED
  BY <1>5, NetKeeps DEF Receive

\* handle_error posts onDisconnect at most once.
LEMMA HandleErrorTyped ==
  ASSUME IInv, NEW s \in Sessions, HandleError(s)
  PROVE  queue' \in Seq(Task) /\ is_closed' \in SUBSET Sessions
BY PostTyped DEF IInv, TypedNet, HandleError

\* A read or a write on the connection fails.
LEMMA ErrorKeeps ==
  ASSUME IInv, NEW s \in Sessions, ReadError(s) \/ WriteError(s)
  PROVE  IInv'
<1>1. TypedNet' /\ UNCHANGED <<registry, people, pc, ctx>>
  BY HandleErrorTyped DEF IInv, TypedNet, ReadError, WriteError
<1> QED
  BY <1>1, NetKeeps

-----------------------------------------------------------------------------
(* What the handlers do to the registries, put together.                   *)

\* A JOIN seats the user with the row of the room.
LEMMA JoinStep ==
  ASSUME IInv, NEW w \in Workers, Join(w)
  PROVE  [RS!Next]_(RS!vars)
<1>1. /\ ctx[w].s \in Sessions /\ ctx[w].arg \in RoomNames /\ ctx[w].user \in Users
      /\ RS!Known(ctx[w].arg) /\ ctx[w].found = RS!RowOf(ctx[w].arg)
  BY AtLabel DEF Join, AtStep, Shape, Holds, WithArg, WithUser, PC
<1>2. RS!JoinRoom(ctx[w].user, ctx[w].s, ctx[w].arg, RS!RowOf(ctx[w].arg))
  BY <1>1 DEF Join
<1> QED
  BY <1>1, <1>2 DEF RS!Next

\* A LEAVE is for a user and a room.
LEMMA LeaveStep ==
  ASSUME IInv, NEW w \in Workers, Leave(w)
  PROVE  [RS!Next]_(RS!vars)
<1>1. ctx[w].arg \in RoomNames /\ ctx[w].user \in Users
  BY AtLabel DEF Leave, AtStep, Shape, WithArg, WithUser, PC
<1> QED
  BY <1>1 DEF Leave, RS!Next

\* A row is inserted under the user's id, acknowledged or not.
LEMMA InsertStep ==
  ASSUME IInv, NEW w \in Workers, Insert(w) \/ InsertFails(w)
  PROVE  [RS!Next]_(RS!vars)
<1>1. ctx[w].arg \in RoomNames /\ ctx[w].user \in Users
  BY AtLabel DEF Insert, InsertFails, AtStep, Shape, WithArg, WithUser, PC
<1> QED
  BY <1>1 DEF Insert, InsertFails, registry, RS!Next, RS!vars

\* A CREATE seats the user with the id its row was given.
LEMMA CreateStep ==
  ASSUME IInv, NEW w \in Workers, Create(w)
  PROVE  [RS!Next]_(RS!vars)
<1>1. /\ ctx[w].s \in Sessions /\ ctx[w].arg \in RoomNames /\ ctx[w].user \in Users
      /\ RS!Known(ctx[w].arg) /\ ctx[w].found = RS!RowOf(ctx[w].arg).id
  BY AtLabel DEF Create, AtStep, Shape, Holds, WithArg, WithUser, PC
<1>2. RS!CreateRoom(ctx[w].user, ctx[w].s, ctx[w].arg, RS!RowOf(ctx[w].arg).id)
  BY <1>1 DEF Create
<1> QED
  BY <1>1, <1>2 DEF RS!Next

\* A disconnect is that of a user, since the session is authenticated.
LEMMA DisconnectStep ==
  ASSUME IInv, NEW w \in Workers, Disconnect(w)
  PROVE  [RS!Next]_(RS!vars)
<1>1. PICK u : u = identity[ctx[w].s].userId
  OBVIOUS
<1>2. u \in Users
  BY <1>1, AtLabel, IdentityType, Zenon DEF Disconnect, AtStep, Holds, IInv
<1>3. RS!HandleDisconnect(u)
  BY <1>1, Zenon DEF Disconnect
<1>4. CASE u \in DOMAIN userToRoomMap
  <2>1. userToRoomMap[u] \in RoomNames
    BY <1>4 DEF IInv, RSP!IInv, RSP!TypeOK, RSP!IsMap
  <2> QED
    BY <1>2, <1>3, <2>1 DEF RS!Next
<1>5. CASE u \notin DOMAIN userToRoomMap
  BY <1>3, <1>5 DEF RS!HandleDisconnect, RS!seating, RS!tables, RS!vars
<1> QED
  BY <1>4, <1>5

\* A login registers a user under its name.
LEMMA LoginStep ==
  ASSUME IInv, NEW w \in Workers, Login(w)
  PROVE  [SM!Next]_(SM!vars)
<1>1. ctx[w].s \in Sessions /\ ctx[w].arg \in Users
  BY AtLabel DEF Login, AtStep, Shape
<1> QED
  BY <1>1 DEF Login, SM!Next

\* A session is removed.
LEMMA RemoveStep ==
  ASSUME IInv, NEW w \in Workers, RemoveSession(w)
  PROVE  [SM!Next]_(SM!vars)
<1>1. ctx[w].s \in Sessions
  BY AtLabel DEF RemoveSession, AtStep
<1> QED
  BY <1>1 DEF RemoveSession, SM!Next

-----------------------------------------------------------------------------
(* The handlers, action by action.                                         *)

\* The variables of a task just taken have the shape of its first label, and a
\* disconnect is handled as such only for a session that is authenticated.
LEMMA TakeKeeps ==
  ASSUME IInv, NEW w \in Workers, Take(w)
  PROVE  IInv'
<1> DEFINE t == Head(queue)
           c == Handler(t.s, t.n, t.req.arg, identity[t.s].userId)
<1>1. /\ t \in Task /\ queue' \in Seq(Task)
      /\ outbox \in [Sessions -> Seq(Envelope)]
  BY DEF IInv, TypedNet, Take
<1>2. /\ t.s \in Sessions /\ t.n \in Nat /\ t.req.arg \in Users \cup RoomNames \cup {None}
      /\ t.req.op = "login" => t.req.arg \in Users
      /\ t.req.op \in {"join", "leave", "create", "history"} => t.req.arg \in RoomNames
      /\ t.req.op \in {"login", "join", "leave", "create", "history", "public", "private",
                       "disconnect"}
  BY <1>1 DEF Task, Request
<1>3. /\ identity[t.s].userId \in Users \cup {None}
      /\ SM!Authenticated(t.s) => identity[t.s].userId \in Users
  BY <1>2, IdentityType DEF IInv
<1>4. c \in Context
  <2>1. NoEntries \in MapsInto(Users, Sessions)
    BY NoEntriesType, MapsIntoIsMap
  <2> QED
    BY <1>2, <1>3, <2>1 DEF Context, Handler
<1>5. c.s = t.s /\ c.user = identity[t.s].userId /\ c.arg = t.req.arg
  BY DEF Handler
<1> HIDE DEF t, c
<1>6. UNCHANGED <<registry, people, messages, net, up>>
  BY DEF Take
<1>7. CASE t.req.op = "login" /\ Goto(w, "login", c) /\ UNCHANGED outbox
  <2>1. TypedNet'
    BY <1>1, <1>6, <1>7 DEF IInv, TypedNet, net
  <2>2. Shape("login", c) /\ Holds("login", c) /\ "login" \in PC \ {"create"}
    BY <1>2, <1>5, <1>7 DEF Shape, Holds, PC, WithUser, WithArg, WithRoom
  <2> QED
    BY <1>4, <1>6, <1>7, <2>1, <2>2, ByQuiet
<1>8. CASE /\ t.req.op # "login" /\ Admitted(t)
           /\ Goto(w, FirstStep[t.req.op], c) /\ UNCHANGED outbox
  <2>1. TypedNet'
    BY <1>1, <1>6, <1>8 DEF IInv, TypedNet, net
  <2>2. PICK p : p = FirstStep[t.req.op]
    OBVIOUS
  <2>3. /\ p \in {"join_lookup", "leave", "create_lookup", "name", "private_room",
                  "history_check", "disconnect"}
        /\ p \in WithArg => t.req.op \in {"join", "leave", "create", "history"}
    BY <1>2, <1>8, <2>2 DEF FirstStep, WithArg
  <2>4. Shape(p, c) /\ p \in PC \ {"create"}
    BY <1>2, <1>3, <1>5, <1>8, <2>3 DEF Shape, Admitted, PC, WithUser, WithRoom
  <2>5. Holds(p, c)
    BY <1>5, <1>8, <2>3 DEF Holds, Admitted
  <2> QED
    BY <1>4, <1>6, <1>8, <2>1, <2>2, <2>4, <2>5, ByQuiet
<1>9. CASE /\ outbox' = [outbox EXCEPT ![t.s] =
                           Append(@, [kind |-> "reply", re |-> <<t.s, t.n>>, ok |-> FALSE])]
           /\ UNCHANGED <<pc, ctx>>
  <2>1. [kind |-> "reply", re |-> <<t.s, t.n>>, ok |-> FALSE] \in Envelope
    BY <1>2 DEF Envelope
  <2>2. outbox' \in [Sessions -> Seq(Envelope)]
    BY <1>1, <1>2, <1>9, <2>1
  <2>3. TypedNet'
    BY <1>1, <1>6, <2>2 DEF IInv, TypedNet, net
  <2> QED
    BY <1>6, <1>9, <2>3, NetKeeps
<1>10. CASE t.req.op = "disconnect" /\ Goto(w, "remove", c) /\ UNCHANGED outbox
  <2>1. TypedNet'
    BY <1>1, <1>6, <1>10 DEF IInv, TypedNet, net
  <2>2. Shape("remove", c) /\ Holds("remove", c) /\ "remove" \in PC \ {"create"}
    BY <1>2, <1>5 DEF Shape, Holds, PC, WithUser, WithArg, WithRoom
  <2> QED
    BY <1>4, <1>6, <1>10, <2>1, <2>2, ByQuiet
<1> QED
  BY <1>7, <1>8, <1>9, <1>10 DEF Take, t, c
\* Answers that depend on nothing the registries hold: to a refused login, to
\* a handler that has succeeded, and to a history request.
LEMMA AnswersKeep ==
  ASSUME IInv, NEW w \in Workers, LoginRefused(w) \/ SendReply(w) \/ HistoryRead(w)
  PROVE  IInv'
<1>1. CASE LoginRefused(w)
  BY <1>1, AtLabel, AnswerKeeps DEF LoginRefused, AtStep
<1>2. CASE SendReply(w)
  BY <1>2, AtLabel, AnswerKeeps DEF SendReply, AtStep
<1>3. CASE HistoryRead(w)
  <2>1. [kind |-> "history", re |-> Re(w), label |-> ctx[w].arg, id |-> ctx[w].found] \in Envelope
    BY <1>3, AtLabel DEF HistoryRead, AtStep, Shape, WithArg, Envelope
  <2> QED
    BY <1>3, <2>1, AnswerKeeps DEF HistoryRead, AtStep
<1> QED
  BY <1>1, <1>2, <1>3

\* A login makes the session authenticated, and leaves the others so.
LEMMA LoginKeeps ==
  ASSUME IInv, NEW w \in Workers, Login(w)
  PROVE  IInv'
<1>1. /\ pc[w] = "login" /\ ctx[w] \in Context /\ ctx[w].s \in Sessions /\ ctx[w].arg \in Users
      /\ Shape("login", ctx[w])
  BY AtLabel DEF Login, AtStep, Shape
<1>2. [SM!Next]_(SM!vars)
  BY LoginStep
<1>3. [RS!Next]_(RS!vars)
  BY DEF Login, registry, RS!vars
<1>4. Persists(None, None)
  BY <1>1, ServerAssumption
     DEF Persists, Login, registry, RS!Known, RS!RowOf, SM!Authenticated,
         SM!RegisterAuthenticatedSession, ServerAssumption, IInv
<1>5. \A v \in Workers \ {w} : pc[v] = "create" => ctx[v].arg # None
  BY ServerAssumption DEF ServerAssumption, IInv, Threads, Shape, WithArg
<1>6. TypedNet'
  BY DEF Login, IInv, TypedNet, net
<1>7. PICK c : c = ctx[w]
  OBVIOUS
<1>8. /\ c \in Context /\ Shape("reply", c) /\ Holds("reply", c)'
      /\ "reply" \in PC \ {"create"} /\ Goto(w, "reply", c)
  BY <1>1, <1>7 DEF Login, Shape, Holds, PC, WithUser, WithArg, WithRoom
<1> QED
  BY <1>2, <1>3, <1>4, <1>5, <1>6, <1>8, ByThread

\* The envelope a room operation tells the members of.
LEMMA NoticeTyped ==
  ASSUME IInv, NEW w \in Workers, pc[w] \in {"join", "leave"}, NEW e \in {"joined", "left"}
  PROVE  Notice(w, e) \in Notices /\ ctx[w].arg \in RoomNames /\ ctx[w].user \in Users
<1>1. Shape(pc[w], ctx[w]) /\ Re(w) \in Sessions \X Nat
  BY AtLabel
<1>2. ctx[w].arg \in RoomNames /\ ctx[w].user \in Users
  BY <1>1 DEF Shape, WithArg, WithUser, PC
<1> QED
  BY <1>1, <1>2 DEF Notice, Notices

\* Going on to tell a room.
LEMMA BroadcastShape ==
  ASSUME NEW c \in Context, c.s \in Sessions, c.user \in Users,
         NEW r \in RoomNames \cup {None}, NEW m \in Messages \cup Notices, NEW d,
         d = [c EXCEPT !.room = r, !.msg = m]
  PROVE  d \in Context /\ Shape("snapshot", d) /\ "snapshot" \in PC \ {"create"}
<1>1. d \in Context /\ d.s = c.s /\ d.user = c.user /\ d.msg = m
  BY DEF Context
<1> QED
  BY <1>1 DEF Shape, PC, WithUser, WithArg, WithRoom

\* findByRoomName, before the lock: the row found is the row of the name.
LEMMA JoinLookupKeeps ==
  ASSUME IInv, NEW w \in Workers, JoinLookup(w)
  PROVE  IInv'
<1>1. /\ pc[w] = "join_lookup" /\ ctx[w] \in Context /\ ctx[w].s \in Sessions
      /\ ctx[w].arg \in RoomNames /\ ctx[w].user \in Users
  BY AtLabel DEF JoinLookup, AtStep, Shape, WithArg, WithUser, PC
<1>2. UNCHANGED <<registry, people, messages, queue, net, up>> /\ up = TRUE
  BY DEF JoinLookup, AtStep, IInv, TypedNet
<1>3. CASE /\ RS!Known(ctx[w].arg)
           /\ Goto(w, "join", [ctx[w] EXCEPT !.found = RS!RowOf(ctx[w].arg)])
           /\ UNCHANGED outbox
  <2>1. RS!RowOf(ctx[w].arg) \in RS!Row
    BY <1>3 DEF IInv, RSP!IInv, RSP!TypeOK, RSP!IsMap, RSP!Row, RS!Row, RS!RowOf, RS!Known
  <2>2. PICK c : c = [ctx[w] EXCEPT !.found = RS!RowOf(ctx[w].arg)]
    OBVIOUS
  <2>3. /\ c \in Context /\ c.s = ctx[w].s /\ c.arg = ctx[w].arg /\ c.user = ctx[w].user
        /\ c.found = RS!RowOf(ctx[w].arg)
    BY <1>1, <2>1, <2>2 DEF Context
  <2>4. Shape("join", c) /\ Holds("join", c) /\ "join" \in PC \ {"create"}
    BY <1>1, <1>3, <2>3 DEF Shape, Holds, PC, WithRoom
  <2> QED
    BY <1>2, <1>3, <2>2, <2>3, <2>4, GotoKeeps
<1>4. CASE Answer(w, Reply(w, FALSE))
  BY <1>1, <1>2, <1>4, AtLabel, AnswerKeeps
<1> QED
  BY <1>3, <1>4 DEF JoinLookup

\* JOIN under the lock uses the row it found, which is the room's.
LEMMA JoinKeeps ==
  ASSUME IInv, NEW w \in Workers, Join(w)
  PROVE  IInv'
<1>1. /\ pc[w] = "join" /\ ctx[w] \in Context /\ ctx[w].s \in Sessions
      /\ RS!Known(ctx[w].arg) /\ ctx[w].found = RS!RowOf(ctx[w].arg)
  BY AtLabel DEF Join, AtStep, Holds
<1>2. Notice(w, "joined") \in Notices /\ ctx[w].arg \in RoomNames /\ ctx[w].user \in Users
  BY <1>1, NoticeTyped
<1>3. RS!JoinRoom(ctx[w].user, ctx[w].s, ctx[w].arg, RS!RowOf(ctx[w].arg))
  BY <1>1 DEF Join
<1>4. [RS!Next]_(RS!vars)
  BY JoinStep
<1>5. [SM!Next]_(SM!vars) /\ Persists(None, None)
  BY <1>3 DEF Join, people, SM!vars, Persists, RS!JoinRoom, RS!tables, RS!Known, RS!RowOf,
              SM!Authenticated
<1>6. \A v \in Workers \ {w} : pc[v] = "create" => ctx[v].arg # None
  BY ServerAssumption DEF ServerAssumption, IInv, Threads, Shape, WithArg
<1>7. TypedNet'
  BY DEF Join, IInv, TypedNet, net
<1>8. PICK c : c = [ctx[w] EXCEPT !.room = ctx[w].arg, !.msg = Notice(w, "joined")]
  OBVIOUS
<1>9. c \in Context /\ Shape("snapshot", c) /\ "snapshot" \in PC \ {"create"}
  BY <1>1, <1>2, <1>8, BroadcastShape
<1>10. Goto(w, "snapshot", c)
  BY <1>8 DEF Join, Broadcast
<1>11. Holds("snapshot", c)'
  BY DEF Holds
<1> QED
  BY <1>4, <1>5, <1>6, <1>7, <1>9, <1>10, <1>11, ByThread

\* LEAVE under the lock.
LEMMA LeaveKeeps ==
  ASSUME IInv, NEW w \in Workers, Leave(w)
  PROVE  IInv'
<1>1. pc[w] = "leave" /\ ctx[w] \in Context /\ ctx[w].s \in Sessions
  BY AtLabel DEF Leave, AtStep
<1>2. Notice(w, "left") \in Notices /\ ctx[w].arg \in RoomNames /\ ctx[w].user \in Users
  BY <1>1, NoticeTyped
<1>3. RS!LeaveRoom(ctx[w].user, ctx[w].arg)
  BY DEF Leave
<1>4. [RS!Next]_(RS!vars)
  BY LeaveStep
<1>5. [SM!Next]_(SM!vars) /\ Persists(None, None)
  BY <1>3 DEF Leave, people, SM!vars, Persists, RS!LeaveRoom, RS!tables, RS!Known, RS!RowOf,
              SM!Authenticated
<1>6. \A v \in Workers \ {w} : pc[v] = "create" => ctx[v].arg # None
  BY ServerAssumption DEF ServerAssumption, IInv, Threads, Shape, WithArg
<1>7. TypedNet'
  BY DEF Leave, IInv, TypedNet, net
<1>8. PICK c : c = [ctx[w] EXCEPT !.room = ctx[w].arg, !.msg = Notice(w, "left")]
  OBVIOUS
<1>9. c \in Context /\ Shape("snapshot", c) /\ "snapshot" \in PC \ {"create"}
  BY <1>1, <1>2, <1>8, BroadcastShape
<1>10. Goto(w, "snapshot", c)
  BY <1>8 DEF Leave, Broadcast
<1>11. Holds("snapshot", c)'
  BY DEF Holds
<1> QED
  BY <1>4, <1>5, <1>6, <1>7, <1>9, <1>10, <1>11, ByThread
-----------------------------------------------------------------------------
(* CREATE.                                                                 *)

\* findByRoomName, before the row is inserted.
LEMMA CreateLookupKeeps ==
  ASSUME IInv, NEW w \in Workers, CreateLookup(w)
  PROVE  IInv'
<1>1. /\ pc[w] = "create_lookup" /\ ctx[w] \in Context /\ ctx[w].s \in Sessions
      /\ ctx[w].arg \in RoomNames /\ ctx[w].user \in Users
  BY AtLabel DEF CreateLookup, AtStep, Shape, WithArg, WithUser, PC
<1>2. UNCHANGED <<registry, people, messages, queue, net, up>> /\ up \in BOOLEAN
  BY DEF CreateLookup, IInv, TypedNet
<1>3. CASE Goto(w, "insert", ctx[w]) /\ UNCHANGED outbox
  <2>1. Shape("insert", ctx[w]) /\ Holds("insert", ctx[w]) /\ "insert" \in PC \ {"create"}
    BY <1>1 DEF Shape, Holds, PC, WithRoom
  <2> QED
    BY <1>1, <1>2, <1>3, <2>1, GotoKeeps
<1>4. CASE Answer(w, Reply(w, FALSE))
  BY <1>1, <1>2, <1>4, AtLabel, AnswerKeeps
<1> QED
  BY <1>3, <1>4 DEF CreateLookup

\* The row is new: no handler at "create" inserted the same name, all rows stay.
LEMMA InsertPersists ==
  ASSUME IInv, NEW u \in Users, NEW r \in RoomNames, NEW id \in RoomIds,
         RS!Insert(u, r, id), creating \subseteq creating', UNCHANGED people
  PROVE  /\ Persists(None, None)
         /\ RS!Known(r)' /\ RS!RowOf(r)'.id = id
         /\ \A v \in Workers : pc[v] = "create" => ctx[v].arg # r /\ ctx[v].arg # None
<1>1. ~RS!Known(r) /\ rooms' = RS!Put(rooms, Collate[r], [id |-> id, creator_id |-> u, name |-> r])
  BY DEF RS!Insert
<1>2. RS!Known(r)' /\ RS!RowOf(r)'.id = id
  BY <1>1 DEF RS!Known, RS!RowOf, RS!Put
<1>3. \A q : RS!Known(q) => RS!Known(q)' /\ RS!RowOf(q)' = RS!RowOf(q)
  BY <1>1 DEF RS!Known, RS!RowOf, RS!Put
<1>4. \A v \in Workers : pc[v] = "create" => RS!Known(ctx[v].arg) /\ ctx[v].arg \in RoomNames
  BY DEF IInv, Threads, Shape, Holds, WithArg
<1>5. \A v \in Workers : pc[v] = "create" => ctx[v].arg # r /\ ctx[v].arg # None
  BY <1>1, <1>4, ServerAssumption DEF ServerAssumption
<1>6. Persists(None, None)
  BY <1>3 DEF Persists, people, SM!Authenticated
<1> QED
  BY <1>2, <1>5, <1>6

\* addRoom returns true: the row and its id are the handler's to use.
LEMMA InsertKeeps ==
  ASSUME IInv, NEW w \in Workers, Insert(w)
  PROVE  IInv'
<1>1. /\ pc[w] = "insert" /\ ctx[w] \in Context /\ ctx[w].s \in Sessions
      /\ ctx[w].arg \in RoomNames /\ ctx[w].user \in Users
  BY AtLabel DEF Insert, AtStep, Shape, WithArg, WithUser, PC
<1>2. PICK id \in RoomIds : /\ RS!AddRoom(ctx[w].user, ctx[w].arg, id)
                            /\ Goto(w, "create", [ctx[w] EXCEPT !.found = id])
  BY DEF Insert
<1>3. PICK c : c = [ctx[w] EXCEPT !.found = id]
  OBVIOUS
<1>4. /\ c \in Context /\ c.s = ctx[w].s /\ c.arg = ctx[w].arg /\ c.user = ctx[w].user
      /\ c.found = id
  BY <1>1, <1>3 DEF Context
<1>5. PICK u \in Users, r \in RoomNames : u = ctx[w].user /\ r = ctx[w].arg
  BY <1>1
<1>6. /\ RS!Insert(u, r, id) /\ creating' = creating \cup {<<u, r>>} /\ UNCHANGED people
  BY <1>2, <1>5 DEF RS!AddRoom, Insert
<1>7. /\ Persists(None, None)
      /\ RS!Known(r)' /\ RS!RowOf(r)'.id = id
      /\ \A v \in Workers : pc[v] = "create" => ctx[v].arg # r /\ ctx[v].arg # None
  BY <1>6, InsertPersists
<1>8. c.arg = r /\ c.user = u
  BY <1>4, <1>5
<1>9. Holds("create", c)'
  BY <1>4, <1>6, <1>7, <1>8 DEF Holds
<1>10. Shape("create", c) /\ "create" \in PC
  BY <1>1, <1>4 DEF Shape, PC, WithUser, WithRoom
<1>11. [RS!Next]_(RS!vars) /\ [SM!Next]_(SM!vars)
  BY <1>6, InsertStep DEF people, SM!vars
<1>12. TypedNet'
  BY DEF Insert, IInv, TypedNet, net
<1>13. Goto(w, "create", c)
  BY <1>2, <1>3
<1> QED
  BY <1>4, <1>7, <1>8, <1>9, <1>10, <1>11, <1>12, <1>13, ByThread

\* addRoom returns false, with the row stored or without it.
LEMMA InsertFailsKeeps ==
  ASSUME IInv, NEW w \in Workers, InsertFails(w)
  PROVE  IInv'
<1>1. /\ pc[w] = "insert" /\ ctx[w] \in Context /\ ctx[w].s \in Sessions
      /\ ctx[w].arg \in RoomNames /\ ctx[w].user \in Users
      /\ Reply(w, FALSE) \in Envelope
  BY AtLabel DEF InsertFails, AtStep, Shape, WithArg, WithUser, PC
<1>2. Answer(w, Reply(w, FALSE)) /\ UNCHANGED <<people, messages, queue, net, up>>
  BY DEF InsertFails
<1>3. CASE UNCHANGED registry
  BY <1>1, <1>2, <1>3, AnswerKeeps
<1>4. ASSUME NEW id \in RoomIds, RS!AddRoomUnacknowledged(ctx[w].user, ctx[w].arg, id)
      PROVE  IInv'
  <2>1. PICK u \in Users, r \in RoomNames : u = ctx[w].user /\ r = ctx[w].arg
    BY <1>1
  <2>2. RS!Insert(u, r, id) /\ creating \subseteq creating' /\ UNCHANGED people
    BY <1>2, <1>4, <2>1 DEF RS!AddRoomUnacknowledged
  <2>3. /\ Persists(None, None)
        /\ \A v \in Workers : pc[v] = "create" => ctx[v].arg # None
    BY <2>2, InsertPersists
  <2>4. [RS!Next]_(RS!vars) /\ [SM!Next]_(SM!vars)
    BY <1>2, InsertStep DEF people, SM!vars
  <2>5. outbox' \in [Sessions -> Seq(Envelope)]
    BY <1>1, <1>2, SendTyped DEF Answer, IInv, TypedNet
  <2>6. TypedNet' /\ Goto(w, "idle", NoTask)
    BY <1>2, <2>5 DEF IInv, TypedNet, net, Answer, Finish
  <2>7. NoTask \in Context /\ "idle" \in PC \ {"create"} /\ Shape("idle", NoTask)
    BY Idle
  <2>8. Holds("idle", NoTask)'
    BY DEF Holds
  <2> QED
    BY <2>3, <2>4, <2>6, <2>7, <2>8, ByThread
<1> QED
  BY <1>3, <1>4 DEF InsertFails

\* An exception ends the thread.
LEMMA ThrowsKeep ==
  ASSUME IInv, NEW w \in Workers, InsertThrows(w) \/ StoreThrows(w) \/ HistoryCrash(w)
  PROVE  IInv'
<1>1. /\ Goto(w, "dead", NoTask) /\ UNCHANGED <<registry, people, messages, queue, net, outbox>>
      /\ up' \in BOOLEAN
  BY DEF InsertThrows, StoreThrows, HistoryCrash, Throw, IInv, TypedNet
<1>2. "dead" \in PC \ {"create"}
  BY DEF PC
<1> QED
  BY <1>1, <1>2, Idle, GotoKeeps

\* CREATE under the lock uses up its own row of creating and no other.
LEMMA CreateKeeps ==
  ASSUME IInv, NEW w \in Workers, Create(w)
  PROVE  IInv'
<1>1. /\ pc[w] = "create" /\ ctx[w] \in Context /\ ctx[w].s \in Sessions
      /\ ctx[w].arg \in RoomNames /\ ctx[w].user \in Users
      /\ RS!Known(ctx[w].arg) /\ ctx[w].found = RS!RowOf(ctx[w].arg).id
  BY AtLabel DEF Create, AtStep, Shape, Holds, WithArg, WithUser, PC
<1>2. PICK c, u, r : c = ctx[w] /\ u = ctx[w].user /\ r = ctx[w].arg
  OBVIOUS
<1>3. RS!CreateRoom(u, c.s, r, RS!RowOf(r).id)
  BY <1>1, <1>2 DEF Create
<1>4. [RS!Next]_(RS!vars)
  BY CreateStep
<1>5. [SM!Next]_(SM!vars) /\ Persists(u, r)
  BY <1>3 DEF Create, people, SM!vars, Persists, RS!CreateRoom, RS!Known, RS!RowOf,
              SM!Authenticated
<1>6. \A v \in Workers \ {w} : pc[v] = "create" => ctx[v].arg # r
  BY <1>1, <1>2 DEF IInv, Creators
<1>7. TypedNet'
  BY DEF Create, IInv, TypedNet, net
<1>8. /\ c \in Context /\ Shape("reply", c) /\ Holds("reply", c)'
      /\ "reply" \in PC \ {"create"} /\ Goto(w, "reply", c)
  BY <1>1, <1>2 DEF Create, Shape, Holds, PC, WithUser, WithArg, WithRoom
<1> QED
  BY <1>4, <1>5, <1>6, <1>7, <1>8, ByThread
-----------------------------------------------------------------------------
(* Reading the registry, and telling a room.                               *)

\* What the read-only sections of the room registry return.
LEMMA ReadTyped ==
  ASSUME IInv, NEW u, NEW r, NEW X
  PROVE  /\ RS!CurrentRoomName(u, None) \in RoomNames \cup {None}
         /\ RS!CurrentRoomId(u, None) \in RoomIds \cup {None}
         /\ RS!Recipients(r, X) \in MapsInto(Users, Sessions)
         /\ RS!Recipients(r, X) # NoEntries => r \in RoomNames
<1>1. /\ userToRoomMap \in [DOMAIN userToRoomMap -> RoomNames]
      /\ DOMAIN activeRooms \subseteq RoomNames
      /\ activeRooms \in [DOMAIN activeRooms -> RSP!ActiveRoom]
  BY DEF IInv, RSP!IInv, RSP!TypeOK, RSP!IsMap
<1>2. /\ RS!CurrentRoomName(u, None) \in RoomNames \cup {None}
      /\ RS!CurrentRoomId(u, None) \in RoomIds \cup {None}
  BY <1>1 DEF RS!CurrentRoomName, RS!CurrentRoomId, RSP!ActiveRoom
<1>3. CASE r \in DOMAIN activeRooms
  <2>1. activeRooms[r].members \in MapsInto(Users, Sessions)
    BY <1>1, <1>3 DEF RSP!ActiveRoom, RSP!MapsInto, MapsInto
  <2>2. IsMap(activeRooms[r].members, Users, Sessions)
    BY <2>1, MapsIntoIsMap
  <2>3. IsMap(RS!Recipients(r, X), Users, Sessions)
    BY <1>3, <2>2 DEF RS!Recipients, RS!Restrict, IsMap
  <2> QED
    BY <1>1, <1>2, <1>3, <2>3, MapsIntoIsMap
<1>4. CASE r \notin DOMAIN activeRooms
  <2>1. RS!Recipients(r, X) = NoEntries
    BY <1>4 DEF RS!Recipients, RS!NoEntries, NoEntries
  <2> QED
    BY <1>2, <2>1, NoEntriesType, MapsIntoIsMap
<1> QED
  BY <1>3, <1>4

\* The recipients of a room are copied under the lock.
LEMMA SnapshotKeeps ==
  ASSUME IInv, NEW w \in Workers, Snapshot(w)
  PROVE  IInv'
<1>1. /\ pc[w] = "snapshot" /\ ctx[w] \in Context /\ ctx[w].s \in Sessions /\ ctx[w].user \in Users
      /\ ctx[w].msg \in Messages \cup Notices
  BY AtLabel DEF Snapshot, AtStep, Shape, WithUser, PC
<1>2. UNCHANGED <<registry, people, messages, queue, net, outbox>> /\ up' \in BOOLEAN
  BY DEF Snapshot, IInv, TypedNet
<1>3. PICK todo : todo = RS!Recipients(ctx[w].room, Excluded(w))
  OBVIOUS
<1>4. todo \in MapsInto(Users, Sessions)
  BY <1>3, ReadTyped
<1>5. CASE Goto(w, "deliver", [ctx[w] EXCEPT !.todo = todo])
  <2>1. PICK c : c = [ctx[w] EXCEPT !.todo = todo]
    OBVIOUS
  <2>2. c \in Context /\ c.s = ctx[w].s /\ c.user = ctx[w].user /\ c.msg = ctx[w].msg
    BY <1>1, <1>4, <2>1 DEF Context
  <2>3. Shape("deliver", c) /\ Holds("deliver", c) /\ "deliver" \in PC \ {"create"}
    BY <1>1, <2>2 DEF Shape, Holds, PC, WithArg, WithRoom
  <2> QED
    BY <1>2, <1>5, <2>1, <2>2, <2>3, GotoKeeps
<1>6. CASE Finish(w)
  BY <1>2, <1>6, Idle, GotoKeeps DEF Finish
<1>7. CASE Goto(w, "reply", ctx[w])
  <2>1. Shape("reply", ctx[w]) /\ Holds("reply", ctx[w]) /\ "reply" \in PC \ {"create"}
    BY <1>1 DEF Shape, Holds, PC, WithUser, WithArg, WithRoom
  <2> QED
    BY <1>1, <1>2, <1>7, <2>1, GotoKeeps
<1> QED
  BY <1>3, <1>5, <1>6, <1>7 DEF Snapshot

\* One recipient of the copy is sent the envelope.
LEMMA DeliverKeeps ==
  ASSUME IInv, NEW w \in Workers, Deliver(w)
  PROVE  IInv'
<1>1. /\ pc[w] = "deliver" /\ ctx[w] \in Context /\ ctx[w].s \in Sessions /\ ctx[w].user \in Users
      /\ ctx[w].msg \in Messages \cup Notices
  BY AtLabel DEF Deliver, AtStep, Shape, WithUser, PC
<1>2. UNCHANGED <<registry, people, messages, queue, net, up>>
  BY DEF Deliver
<1>3. PICK u, rest :
        /\ u \in DOMAIN ctx[w].todo /\ rest = Erase(ctx[w].todo, u)
        /\ outbox' = [outbox EXCEPT ![ctx[w].todo[u]] = Append(@, ctx[w].msg)]
        /\ \/ Goto(w, "deliver", [ctx[w] EXCEPT !.todo = rest])
           \/ Finish(w)
           \/ Goto(w, "reply", [ctx[w] EXCEPT !.todo = rest])
  BY DEF Deliver
<1>4. IsMap(ctx[w].todo, Users, Sessions)
  BY <1>1, MapsIntoIsMap DEF Context
<1>5. rest \in MapsInto(Users, Sessions) /\ ctx[w].todo[u] \in Sessions
  BY <1>3, <1>4, EraseType, MapsIntoIsMap DEF IsMap
<1>6. ctx[w].msg \in Envelope
  BY <1>1 DEF Messages, Notices, Envelope
<1>7. outbox' \in [Sessions -> Seq(Envelope)]
  BY <1>3, <1>5, <1>6, SendTyped DEF IInv, TypedNet
<1>8. TypedNet'
  BY <1>2, <1>7 DEF IInv, TypedNet, net
<1>9. PICK c : c = [ctx[w] EXCEPT !.todo = rest]
  OBVIOUS
<1>10. c \in Context /\ c.s = ctx[w].s /\ c.user = ctx[w].user /\ c.msg = ctx[w].msg
  BY <1>1, <1>5, <1>9 DEF Context
<1>11. \A p \in {"deliver", "reply"} : Shape(p, c) /\ Holds(p, c) /\ p \in PC \ {"create"}
  BY <1>1, <1>10 DEF Shape, Holds, PC, WithUser, WithArg, WithRoom
<1>12. CASE Goto(w, "deliver", c)
  BY <1>2, <1>8, <1>10, <1>11, <1>12, ByQuiet
<1>13. CASE Goto(w, "reply", c)
  BY <1>2, <1>8, <1>10, <1>11, <1>13, ByQuiet
<1>14. CASE Finish(w)
  BY <1>2, <1>8, <1>14, Idle, ByQuiet DEF Finish
<1> QED
  BY <1>3, <1>9, <1>12, <1>13, <1>14

-----------------------------------------------------------------------------
(* History and messages.                                                   *)

\* Both lookups of a history request.
LEMMA HistoryKeeps ==
  ASSUME IInv, NEW w \in Workers, HistoryCheck(w) \/ HistoryId(w)
  PROVE  IInv'
<1>1. /\ pc[w] \in {"history_check", "history_id"} /\ ctx[w] \in Context /\ ctx[w].s \in Sessions
      /\ ctx[w].arg \in RoomNames /\ ctx[w].user \in Users
  BY AtLabel DEF HistoryCheck, HistoryId, AtStep, Shape, WithArg, WithUser, PC
<1>2. UNCHANGED <<registry, people, messages, queue, net, outbox>> /\ up' \in BOOLEAN
  BY DEF HistoryCheck, HistoryId, IInv, TypedNet
<1>3. CASE Goto(w, "history_id", ctx[w])
  <2>1. Shape("history_id", ctx[w]) /\ Holds("history_id", ctx[w]) /\ "history_id" \in PC \ {"create"}
    BY <1>1 DEF Shape, Holds, PC, WithRoom
  <2> QED
    BY <1>1, <1>2, <1>3, <2>1, GotoKeeps
<1>4. CASE Finish(w)
  BY <1>2, <1>4, Idle, GotoKeeps DEF Finish
<1>5. CASE HistoryId(w)
  <2>1. PICK id : id = RS!CurrentRoomId(identity[ctx[w].s].userId, None)
    OBVIOUS
  <2>2. PICK c : c = [ctx[w] EXCEPT !.found = id]
    OBVIOUS
  <2>3. id \in RoomIds \cup {None}
    BY <2>1, ReadTyped
  <2>4. /\ c \in Context /\ c.s = ctx[w].s /\ c.user = ctx[w].user /\ c.arg = ctx[w].arg
        /\ c.found = id
    BY <1>1, <2>2, <2>3 DEF Context
  <2>5. /\ Shape("history_read", c) /\ Holds("history_read", c)
        /\ "history_read" \in PC \ {"create"}
    BY <1>1, <2>3, <2>4 DEF Shape, Holds, PC, WithRoom
  <2> QED
    BY <1>2, <1>5, <2>1, <2>2, <2>4, <2>5, GotoKeeps DEF HistoryId
<1> QED
  BY <1>3, <1>4, <1>5 DEF HistoryCheck

\* The name of the sender's room is read first, then its id.
LEMMA RoomReadsKeep ==
  ASSUME IInv, NEW w \in Workers, RoomName(w) \/ RoomId(w)
  PROVE  IInv'
<1>1. /\ pc[w] \in {"name", "private_room", "id"} /\ ctx[w] \in Context /\ ctx[w].s \in Sessions
      /\ ctx[w].user \in Users /\ Shape(pc[w], ctx[w]) /\ Reply(w, FALSE) \in Envelope
  BY AtLabel DEF RoomName, RoomId, AtStep, Shape, WithUser, PC
<1>2. UNCHANGED <<registry, people, messages, queue, net>> /\ up' = up /\ up' \in BOOLEAN
  BY DEF RoomName, RoomId, IInv, TypedNet
<1>3. CASE RoomName(w)
  <2>1. PICK r : r = RS!CurrentRoomName(ctx[w].user, None)
    OBVIOUS
  <2>2. CASE r = None
    BY <1>1, <1>2, <1>3, <2>1, <2>2, AnswerKeeps DEF RoomName
  <2>3. CASE r # None
    <3>1. PICK p \in {"id", "private_find"} : Goto(w, p, [ctx[w] EXCEPT !.room = r]) /\ UNCHANGED outbox
      BY <1>3, <2>1, <2>3 DEF RoomName
    <3>2. PICK c : c = [ctx[w] EXCEPT !.room = r]
      OBVIOUS
    <3>3. r \in RoomNames
      BY <2>1, <2>3, ReadTyped
    <3>4. c \in Context /\ c.s = ctx[w].s /\ c.user = ctx[w].user /\ c.room = r
      BY <1>1, <3>2, <3>3 DEF Context
    <3>5. Shape(p, c) /\ Holds(p, c) /\ p \in PC \ {"create"}
      BY <1>1, <3>3, <3>4 DEF Shape, Holds, PC, WithArg
    <3> QED
      BY <1>2, <3>1, <3>2, <3>4, <3>5, GotoKeeps
  <2> QED
    BY <2>2, <2>3
<1>4. CASE RoomId(w)
  <2>1. PICK id : id = RS!CurrentRoomId(ctx[w].user, None)
    OBVIOUS
  <2>2. PICK c : c = [ctx[w] EXCEPT !.found = id]
    OBVIOUS
  <2>3. id \in RoomIds \cup {None} /\ ctx[w].room \in RoomNames
    BY <1>1, <1>4, <2>1, ReadTyped DEF RoomId, AtStep, Shape, WithRoom
  <2>4. /\ c \in Context /\ c.s = ctx[w].s /\ c.user = ctx[w].user /\ c.room = ctx[w].room
        /\ c.found = id
    BY <1>1, <2>2, <2>3 DEF Context
  <2>5. Shape("store", c) /\ Holds("store", c) /\ "store" \in PC \ {"create"}
    BY <1>1, <2>3, <2>4 DEF Shape, Holds, PC, WithArg
  <2> QED
    BY <1>2, <1>4, <2>1, <2>2, <2>4, <2>5, GotoKeeps DEF RoomId
<1> QED
  BY <1>3, <1>4
\* The message is stored, or not, and made into an envelope.
LEMMA StoreKeeps ==
  ASSUME IInv, NEW w \in Workers, Store(w)
  PROVE  IInv'
<1>1. /\ pc[w] = "store" /\ ctx[w] \in Context /\ ctx[w].s \in Sessions
      /\ ctx[w].user \in Users /\ ctx[w].room \in RoomNames /\ ctx[w].found \in RoomIds \cup {None}
      /\ Re(w) \in Sessions \X Nat
  BY AtLabel DEF Store, AtStep, Shape, WithUser, WithRoom, PC
<1>2. UNCHANGED <<registry, people, queue, net, outbox, up>>
  BY DEF Store
<1>3. ctx[w].found # None =>
        [re |-> Re(w), id |-> ctx[w].found] \in Stored((Sessions \X Nat) \cup {Earlier}, RoomIds)
  BY <1>1 DEF Stored
<1>4. TypedNet'
  BY <1>2, <1>3 DEF IInv, TypedNet, net, Store
<1>5. PICK c : c = [ctx[w] EXCEPT !.msg = MessageOf(w)]
  OBVIOUS
<1>6. MessageOf(w) \in Messages
  BY <1>1 DEF MessageOf, Messages
<1>7. /\ c \in Context /\ c.s = ctx[w].s /\ c.user = ctx[w].user /\ c.room = ctx[w].room
      /\ c.msg = MessageOf(w)
  BY <1>1, <1>5, <1>6 DEF Context
<1>8. Shape("target", c) /\ Holds("target", c) /\ "target" \in PC \ {"create"}
  BY <1>1, <1>6, <1>7 DEF Shape, Holds, PC, WithArg
<1>9. Goto(w, "target", c)
  BY <1>5 DEF Store
<1> QED
  BY <1>2, <1>4, <1>7, <1>8, <1>9, ByQuiet

\* The room to broadcast to is read anew; there may be none.
LEMMA TargetKeeps ==
  ASSUME IInv, NEW w \in Workers, Target(w)
  PROVE  IInv'
<1>1. /\ pc[w] = "target" /\ ctx[w] \in Context /\ ctx[w].s \in Sessions
      /\ ctx[w].user \in Users /\ ctx[w].msg \in Messages
  BY AtLabel DEF Target, AtStep, Shape, WithUser, PC
<1>2. UNCHANGED <<registry, people, messages, queue, net, outbox>> /\ up' \in BOOLEAN
  BY DEF Target, IInv, TypedNet
<1>3. PICK r : r = RS!CurrentRoomName(identity[ctx[w].s].userId, None)
  OBVIOUS
<1>4. PICK m : m = [ctx[w].msg EXCEPT !.to = r]
  OBVIOUS
<1>5. r \in RoomNames \cup {None}
  BY <1>3, ReadTyped
<1>6. m \in Messages
  BY <1>1, <1>4, <1>5 DEF Messages
<1>7. PICK c : c = [ctx[w] EXCEPT !.room = r, !.msg = m]
  OBVIOUS
<1>8. c \in Context /\ Shape("snapshot", c) /\ "snapshot" \in PC \ {"create"}
  BY <1>1, <1>5, <1>6, <1>7, BroadcastShape
<1>9. Goto(w, "snapshot", c) /\ Holds("snapshot", c)
  BY <1>3, <1>4, <1>7 DEF Target, Broadcast, Holds
<1> QED
  BY <1>2, <1>8, <1>9, GotoKeeps

\* A private message is for a session the other registry knows.
LEMMA PrivateFindKeeps ==
  ASSUME IInv, NEW w \in Workers, PrivateFind(w)
  PROVE  IInv'
<1>1. /\ pc[w] = "private_find" /\ ctx[w] \in Context /\ ctx[w].s \in Sessions
      /\ ctx[w].user \in Users /\ ctx[w].room \in RoomNames /\ Reply(w, FALSE) \in Envelope
  BY AtLabel DEF PrivateFind, AtStep, Shape, WithUser, WithRoom, PC
<1>2. UNCHANGED <<registry, people, messages, queue, net, up>> /\ up' \in BOOLEAN
  BY DEF PrivateFind, IInv, TypedNet
<1>3. PICK t : t = SM!FindByUsername(ctx[w].arg, None)
  OBVIOUS
<1>4. CASE Answer(w, Reply(w, FALSE))
  BY <1>1, <1>2, <1>4, AnswerKeeps
<1>5. CASE t # None /\ Goto(w, "private_send", [ctx[w] EXCEPT !.found = t]) /\ UNCHANGED outbox
  <2>1. t \in Sessions
    BY <1>3, <1>5 DEF SM!FindByUsername, IInv, SM!TypeOK, SM!IsMap
  <2>2. PICK c : c = [ctx[w] EXCEPT !.found = t]
    OBVIOUS
  <2>3. /\ c \in Context /\ c.s = ctx[w].s /\ c.user = ctx[w].user /\ c.room = ctx[w].room
        /\ c.found = t
    BY <1>1, <2>1, <2>2 DEF Context
  <2>4. Shape("private_send", c) /\ Holds("private_send", c) /\ "private_send" \in PC \ {"create"}
    BY <1>1, <2>1, <2>3 DEF Shape, Holds, PC, WithArg
  <2> QED
    BY <1>2, <1>5, <2>2, <2>3, <2>4, GotoKeeps
<1> QED
  BY <1>3, <1>4, <1>5 DEF PrivateFind

\* It goes to that session and to the sender.
LEMMA PrivateSendKeeps ==
  ASSUME IInv, NEW w \in Workers, PrivateSend(w)
  PROVE  IInv'
<1>1. /\ pc[w] \in {"private_send", "private_echo"} /\ ctx[w] \in Context /\ ctx[w].s \in Sessions
      /\ ctx[w].user \in Users /\ ctx[w].room \in RoomNames /\ Re(w) \in Sessions \X Nat
      /\ pc[w] = "private_send" => ctx[w].found \in Sessions
  BY AtLabel DEF PrivateSend, AtStep, Shape, WithUser, WithRoom, PC
<1>2. UNCHANGED <<registry, people, messages, queue, net, up>>
  BY DEF PrivateSend
<1>3. PICK m : m = [kind |-> "private", re |-> Re(w), label |-> ctx[w].room]
  OBVIOUS
<1>4. m \in Envelope
  BY <1>1, <1>3 DEF Envelope
<1>5. CASE /\ pc[w] = "private_send" /\ Goto(w, "private_echo", ctx[w])
           /\ outbox' = [outbox EXCEPT ![ctx[w].found] = Append(@, m)]
  <2>1. TypedNet'
    BY <1>1, <1>2, <1>4, <1>5, SendTyped DEF IInv, TypedNet, net
  <2>2. /\ Shape("private_echo", ctx[w]) /\ Holds("private_echo", ctx[w])
        /\ "private_echo" \in PC \ {"create"}
    BY <1>1 DEF Shape, Holds, PC, WithArg
  <2> QED
    BY <1>1, <1>2, <1>5, <2>1, <2>2, ByQuiet
<1>6. CASE Answer(w, m)
  BY <1>1, <1>2, <1>4, <1>6, AnswerKeeps
<1> QED
  BY <1>3, <1>5, <1>6 DEF PrivateSend, AtStep

-----------------------------------------------------------------------------
(* A disconnect.                                                           *)

\* A session is told as often as it has users in the room, which is finitely often.
LEMMA CopiesFinite ==
  ASSUME NEW told, IsMap(told, Users, Sessions), NEW s
  PROVE  /\ IsFiniteSet({v \in DOMAIN told : told[v] = s})
         /\ Cardinality({v \in DOMAIN told : told[v] = s}) \in Nat
<1>1. {v \in DOMAIN told : told[v] = s} \subseteq Users /\ IsFiniteSet(Users)
  BY ServerAssumption DEF IsMap, ServerAssumption
<1> QED
  BY <1>1, FS_Subset, FS_CardinalityType

\* The others in the room are told, and the user gives up the seat.
LEMMA DisconnectKeeps ==
  ASSUME IInv, NEW w \in Workers, Disconnect(w)
  PROVE  IInv'
<1>1. /\ pc[w] = "disconnect" /\ ctx[w] \in Context /\ ctx[w].s \in Sessions
      /\ SM!Authenticated(ctx[w].s) /\ Re(w) \in Sessions \X Nat
  BY AtLabel, Zenon DEF Disconnect, AtStep, Holds
<1>2. PICK u, r, told : /\ u = identity[ctx[w].s].userId /\ r = RS!CurrentRoomName(u, None)
                        /\ told = RS!Recipients(r, {u})
  OBVIOUS
<1>3. u \in Users
  BY <1>1, <1>2, IdentityType DEF IInv
<1>4. PICK m : m = [kind |-> "left", re |-> Re(w), user |-> u, room |-> r]
  OBVIOUS
<1>5. /\ RS!HandleDisconnect(u)
      /\ outbox' = [s \in Sessions |->
             outbox[s] \o [i \in 1..Cardinality({v \in DOMAIN told : told[v] = s}) |-> m]]
  BY <1>2, <1>4, Zenon DEF Disconnect
<1>6. IsMap(told, Users, Sessions) /\ (told # NoEntries => r \in RoomNames)
  BY <1>2, ReadTyped, MapsIntoIsMap
<1>7. ASSUME NEW s \in Sessions
      PROVE  [i \in 1..Cardinality({v \in DOMAIN told : told[v] = s}) |-> m] \in Seq(Envelope)
  <2>1. PICK S : S = {v \in DOMAIN told : told[v] = s}
    OBVIOUS
  <2>3. IsFiniteSet(S) /\ Cardinality(S) \in Nat
    BY <1>6, <2>1, CopiesFinite
  <2>4. CASE S = {}
    <3>1. Cardinality(S) = 0
      BY <2>4, FS_EmptySet
    <3> QED
      BY <2>1, <3>1
  <2>5. CASE S # {}
    <3>1. r \in RoomNames
      BY <1>6, <2>1, <2>5 DEF NoEntries
    <3>2. m \in Envelope
      BY <1>1, <1>3, <1>4, <3>1 DEF Envelope
    <3> QED
      BY <2>1, <2>3, <3>2
  <2> QED
    BY <2>4, <2>5
<1>8. outbox' \in [Sessions -> Seq(Envelope)]
  <2>1. PICK f : f = [s \in Sessions |->
                       [i \in 1..Cardinality({v \in DOMAIN told : told[v] = s}) |-> m]]
    OBVIOUS
  <2>2. \A s \in Sessions : f[s] \in Seq(Envelope) /\ outbox[s] \in Seq(Envelope)
    BY <1>7, <2>1 DEF IInv, TypedNet
  <2>3. outbox' = [s \in Sessions |-> outbox[s] \o f[s]]
    BY <1>5, <2>1, Zenon
  <2>4. \A s \in Sessions : outbox[s] \o f[s] \in Seq(Envelope)
    BY <2>2
  <2> QED
    BY <2>3, <2>4
<1>9. TypedNet'
  BY <1>8, Zenon DEF Disconnect, IInv, TypedNet, net
<1>10. [RS!Next]_(RS!vars)
  BY DisconnectStep
<1>11. [SM!Next]_(SM!vars) /\ Persists(None, None)
  BY <1>5, Zenon DEF Disconnect, people, SM!vars, Persists, RS!HandleDisconnect, RS!tables, RS!Known,
              RS!RowOf, SM!Authenticated
<1>12. \A v \in Workers \ {w} : pc[v] = "create" => ctx[v].arg # None
  BY ServerAssumption DEF ServerAssumption, IInv, Threads, Shape, WithArg
<1>13. PICK c : c = ctx[w]
  OBVIOUS
<1>14. /\ c \in Context /\ Shape("remove", c) /\ Holds("remove", c)'
       /\ "remove" \in PC \ {"create"} /\ Goto(w, "remove", c)
  BY <1>1, <1>13, Zenon DEF Disconnect, Shape, Holds, PC, WithUser, WithArg, WithRoom
<1> QED
  BY <1>9, <1>10, <1>11, <1>12, <1>14, ByThread

\* The session is forgotten; it stays authenticated.
LEMMA RemoveSessionKeeps ==
  ASSUME IInv, NEW w \in Workers, RemoveSession(w)
  PROVE  IInv'
<1>1. pc[w] = "remove" /\ ctx[w].s \in Sessions
  BY AtLabel DEF RemoveSession, AtStep
<1>2. [SM!Next]_(SM!vars)
  BY RemoveStep
<1>3. [RS!Next]_(RS!vars) /\ Persists(None, None)
  BY DEF RemoveSession, registry, RS!vars, Persists, RS!Known, RS!RowOf, SM!Authenticated, SM!Remove
<1>4. \A v \in Workers \ {w} : pc[v] = "create" => ctx[v].arg # None
  BY ServerAssumption DEF ServerAssumption, IInv, Threads, Shape, WithArg
<1>5. TypedNet'
  BY DEF RemoveSession, IInv, TypedNet, net
<1>6. /\ NoTask \in Context /\ "idle" \in PC \ {"create"} /\ Shape("idle", NoTask)
      /\ Holds("idle", NoTask)' /\ Goto(w, "idle", NoTask)
  BY Idle DEF RemoveSession, Finish, Holds
<1> QED
  BY <1>2, <1>3, <1>4, <1>5, <1>6, ByThread
-----------------------------------------------------------------------------
(* What holds of the server.                                               *)

\* When the server starts the registries are empty and all threads are idle.
LEMMA InitIInv == Init => IInv
<1> SUFFICES ASSUME Init PROVE IInv
  OBVIOUS
<1>1. RSP!IInv
  <2>1. RSP!NamesAssumption
    BY ServerAssumption DEF ServerAssumption, RSP!NamesAssumption
  <2> QED
    BY <2>1, SameRooms, RSP!InitIInv DEF Init
<1>2. SM!TypeOK
  BY NoEntriesType, SameMaps DEF Init, SM!Init, SM!TypeOK
<1>3. {rooms[k].id : k \in DOMAIN rooms} \subseteq RoomIds
  BY <1>1 DEF RSP!IInv, RSP!TypeOK, RSP!IsMap, RSP!Row
<1>4. TypedNet
  BY <1>3 DEF Init, TypedNet, Stored
<1>5. TypedThreads /\ Threads
  BY Idle DEF Init, TypedThreads, Threads
<1>6. Creators
  BY DEF Init, Creators
<1> QED
  BY <1>1, <1>2, <1>4, <1>5, <1>6 DEF IInv

\* Every step preserves the invariant, whichever threads take it.
LEMMA NextIInv == IInv /\ [Next]_vars => IInv'
<1> SUFFICES ASSUME IInv, [Next]_vars PROVE IInv'
  OBVIOUS
<1>1. CASE UNCHANGED vars
  <2>1. UNCHANGED <<registry, people, pc, ctx>> /\ TypedNet'
    BY <1>1 DEF vars, IInv, TypedNet, net
  <2> QED
    BY <2>1, NetKeeps
<1>2. ASSUME NEW s \in Sessions, Receive(s) \/ ReadError(s) \/ WriteError(s) PROVE IInv'
  BY <1>2, ReceiveKeeps, ErrorKeeps
<1>3. ASSUME NEW w \in Workers, WorkerStep(w) PROVE IInv'
  BY <1>3, TakeKeeps, AnswersKeep, LoginKeeps, JoinLookupKeeps, JoinKeeps, LeaveKeeps,
     CreateLookupKeeps, InsertKeeps, InsertFailsKeeps, ThrowsKeep, CreateKeeps, SnapshotKeeps,
     DeliverKeeps, HistoryKeeps, RoomReadsKeep, StoreKeeps, TargetKeeps, PrivateFindKeeps,
     PrivateSendKeeps, DisconnectKeeps, RemoveSessionKeeps DEF WorkerStep
<1> QED
  BY <1>1, <1>2, <1>3 DEF Next

\* The invariant holds throughout.
THEOREM Invariance == Spec => []IInv
BY InitIInv, NextIInv, PTL DEF Spec

\* The row a JOIN found, and the row a CREATE inserted, are the room's when the
\* section uses them, whatever other threads did since (RoomService.cpp:6-46,
\* 81-103).
THEOREM LookupsHold == Spec => []LookupStillHolds
<1>1. IInv => LookupStillHolds
  BY DEF IInv, Threads, Holds, LookupStillHolds
<1> QED
  BY <1>1, Invariance, PTL

\* The handlers, the table, the queue and the outboxes keep their types.
THEOREM TypeCorrect == Spec => []TypeOK
<1>1. IInv => TypeOK
  <2> SUFFICES ASSUME IInv PROVE TypeOK
    OBVIOUS
  <2>1. RS!TypeOK /\ SM!TypeOK
    BY SameRooms DEF IInv, RSP!IInv
  <2>2. ASSUME NEW w \in Workers
        PROVE  /\ ctx[w].s \in Sessions \cup {None}
               /\ ctx[w].user \in Users \cup {None}
               /\ ctx[w].msg \in Envelope \cup {None}
               /\ IsMap(ctx[w].todo, Users, Sessions)
    <3>1. ctx[w] \in Context
      BY DEF IInv, TypedThreads
    <3>2. Messages \cup Notices \subseteq Envelope
      BY DEF Messages, Notices, Envelope
    <3> QED
      BY <3>1, <3>2, MapsIntoIsMap DEF Context
  <2> QED
    BY <2>1, <2>2 DEF TypeOK, IInv, TypedNet, TypedThreads
<1> QED
  BY <1>1, Invariance, PTL

\* A step of the server is a step of RoomService, or none.
LEMMA RegistryStep == IInv /\ [Next]_vars => [RS!Next]_(RS!vars)
<1> SUFFICES ASSUME IInv, [Next]_vars PROVE [RS!Next]_(RS!vars)
  OBVIOUS
<1>1. CASE UNCHANGED registry
  BY <1>1 DEF registry, RS!vars
<1>2. ASSUME NEW w \in Workers,
             Join(w) \/ Leave(w) \/ Insert(w) \/ InsertFails(w) \/ Create(w) \/ Disconnect(w)
      PROVE  [RS!Next]_(RS!vars)
  BY <1>2, JoinStep, LeaveStep, InsertStep, CreateStep, DisconnectStep
<1>3. ASSUME NEW s \in Sessions, Receive(s) \/ ReadError(s) \/ WriteError(s)
      PROVE  UNCHANGED registry
  BY <1>3 DEF Receive, ReadError, WriteError
<1>4. ASSUME NEW w \in Workers, WorkerStep(w)
      PROVE  \/ UNCHANGED registry
             \/ Join(w) \/ Leave(w) \/ Insert(w) \/ InsertFails(w) \/ Create(w) \/ Disconnect(w)
  BY <1>4, Zenon DEF WorkerStep, Take, LoginRefused, Login, SendReply, JoinLookup, CreateLookup,
     InsertThrows, Snapshot, Deliver, HistoryCheck, HistoryId, HistoryRead, HistoryCrash,
     RoomName, RoomId, Store, StoreThrows, Target, PrivateFind, PrivateSend, RemoveSession
<1>5. CASE UNCHANGED vars
  BY <1>1, <1>5 DEF vars
<1> QED
  BY <1>1, <1>2, <1>3, <1>4, <1>5 DEF Next

\* The handlers, cut into sections by the mutex and run by any number of
\* threads, use the room registry as RoomService describes: every theorem about
\* RoomService is one about the server.
THEOREM RoomsRefined == Spec => RegistrySpec
<1>1. Init => RS!Init
  BY DEF Init
<1> QED
  BY <1>1, Invariance, RegistryStep, PTL DEF Spec, RegistrySpec, RS!Spec

\* The registry's invariants are the server's: between any two sections a mapped
\* user is seated, no room is empty, and rooms mirror the table
\* (RoomService.cpp:9-103, 161-182).
THEOREM RoomsInStep ==
  Spec => [](RS!MappedIsSeated /\ RS!NoEmptyRoom /\ RS!RoomMirrorsRow)
<1>1. IInv => RS!MappedIsSeated /\ RS!NoEmptyRoom
  BY DEF IInv, RSP!IInv, RSP!MappedIsSeated, RS!MappedIsSeated, RSP!NoEmptyRoom, RS!NoEmptyRoom,
         RSP!Members, RS!Members
<1>2. IInv => RS!RoomMirrorsRow
  BY DEF IInv, RSP!IInv, RSP!RoomMirrorsRow, RS!RoomMirrorsRow, RSP!Known, RS!Known,
         RSP!RowOf, RS!RowOf
<1> QED
  BY <1>1, <1>2, Invariance, PTL

-----------------------------------------------------------------------------
(* What is said is stored.                                                 *)

\* A row of the table stays as it is.
LEMMA RowsStay ==
  ASSUME IInv, [Next]_vars, NEW q, RS!Known(q)
  PROVE  RS!Known(q)' /\ RS!RowOf(q)' = RS!RowOf(q)
<1>1. [RS!Next]_(RS!vars)
  BY RegistryStep
<1>2. \/ UNCHANGED rooms
      \/ \E u \in Users, r \in RoomNames, id \in RoomIds : RS!Insert(u, r, id)
  BY <1>1 DEF RS!Next, RS!vars, RS!AddRoom, RS!AddRoomUnacknowledged, RS!JoinRoom,
     RS!CreateRoom, RS!LeaveRoom, RS!HandleDisconnect, RS!tables
<1>3. CASE UNCHANGED rooms
  BY <1>3 DEF RS!Known, RS!RowOf
<1>4. ASSUME NEW u, NEW r, NEW id, RS!Insert(u, r, id)
      PROVE  RS!Known(q)' /\ RS!RowOf(q)' = RS!RowOf(q)
  BY <1>4 DEF RS!Insert, RS!Known, RS!RowOf, RS!Put
<1> QED
  BY <1>2, <1>3, <1>4

\* An envelope that is sent is an answer or a notice, or the message of a
\* handler that delivers it, or the history a handler has read.
Outgoing(e) ==
  \/ e.kind \notin {"message", "history"}
  \/ \E w \in Workers : pc[w] = "deliver" /\ e = ctx[w].msg
  \/ \E w \in Workers : /\ pc[w] = "history_read" /\ e.kind = "history"
                        /\ e.label = ctx[w].arg /\ e.id = ctx[w].found

Grows ==
  \A s \in Sessions : \A i \in DOMAIN outbox'[s] :
    \/ i \in DOMAIN outbox[s] /\ outbox'[s][i] = outbox[s][i]
    \/ Outgoing(outbox'[s][i])

\* One envelope to one session.
LEMMA SendGrows ==
  ASSUME outbox \in [Sessions -> Seq(Envelope)], NEW s, NEW m, Outgoing(m),
         outbox' = [outbox EXCEPT ![s] = Append(@, m)]
  PROVE  Grows
<1> SUFFICES ASSUME NEW t \in Sessions, NEW i \in DOMAIN outbox'[t]
             PROVE  \/ i \in DOMAIN outbox[t] /\ outbox'[t][i] = outbox[t][i]
                    \/ Outgoing(outbox'[t][i])
  BY DEF Grows
<1>1. PICK q, r : q = outbox[t] /\ r = outbox'[t]
  OBVIOUS
<1>2. q \in Seq(Envelope) /\ (r = q \/ r = Append(q, m)) /\ i \in DOMAIN r
  BY <1>1
<1>3. (i \in DOMAIN q /\ r[i] = q[i]) \/ r[i] = m
  BY <1>2
<1> QED
  BY <1>1, <1>3

\* No handler takes back what it sent.
LEMMA OutboxGrows == IInv /\ [Next]_vars => Grows
<1> SUFFICES ASSUME IInv, [Next]_vars PROVE Grows
  OBVIOUS
<1>1. outbox \in [Sessions -> Seq(Envelope)]
  BY DEF IInv, TypedNet
<1>2. CASE UNCHANGED outbox
  BY <1>2 DEF Grows
<1>3. ASSUME NEW w \in Workers, NEW ok, Answer(w, Reply(w, ok)) PROVE Grows
  <2>1. PICK m, t : m = Reply(w, ok) /\ t = ctx[w].s
    OBVIOUS
  <2>2. Outgoing(m) /\ outbox' = [outbox EXCEPT ![t] = Append(@, m)]
    BY <1>3, <2>1 DEF Answer, Reply, Outgoing
  <2> QED
    BY <1>1, <2>2, SendGrows
<1>4. ASSUME NEW w \in Workers, Take(w) PROVE Grows
  <2>1. PICK t : t = Head(queue)
    OBVIOUS
  <2>2. PICK m : m = [kind |-> "reply", re |-> <<t.s, t.n>>, ok |-> FALSE]
    OBVIOUS
  <2>3. UNCHANGED outbox \/ outbox' = [outbox EXCEPT ![t.s] = Append(@, m)]
    BY <1>4, <2>1, <2>2 DEF Take
  <2>4. Outgoing(m)
    BY <2>2 DEF Outgoing
  <2> QED
    BY <1>1, <1>2, <2>3, <2>4, SendGrows
<1>5. ASSUME NEW w \in Workers, Deliver(w) PROVE Grows
  <2>1. PICK u : outbox' = [outbox EXCEPT ![ctx[w].todo[u]] = Append(@, ctx[w].msg)]
    BY <1>5 DEF Deliver
  <2>2. Outgoing(ctx[w].msg)
    BY <1>5 DEF Deliver, AtStep, Outgoing
  <2> QED
    BY <1>1, <2>1, <2>2, SendGrows
<1>6. ASSUME NEW w \in Workers, HistoryRead(w) PROVE Grows
  <2>1. PICK m : m = [kind |-> "history", re |-> Re(w), label |-> ctx[w].arg, id |-> ctx[w].found]
    OBVIOUS
  <2>2. Outgoing(m) /\ outbox' = [outbox EXCEPT ![ctx[w].s] = Append(@, m)]
    BY <1>6, <2>1 DEF HistoryRead, AtStep, Answer, Outgoing
  <2> QED
    BY <1>1, <2>2, SendGrows
<1>7. ASSUME NEW w \in Workers, PrivateSend(w) PROVE Grows
  <2>1. PICK m : m = [kind |-> "private", re |-> Re(w), label |-> ctx[w].room]
    OBVIOUS
  <2>2. Outgoing(m) /\ \E s : outbox' = [outbox EXCEPT ![s] = Append(@, m)]
    BY <1>7, <2>1 DEF PrivateSend, Answer, Outgoing
  <2> QED
    BY <1>1, <2>2, SendGrows
<1>8. ASSUME NEW w \in Workers, Disconnect(w) PROVE Grows
  <2>1. PICK m, k : /\ m.kind = "left" /\ k \in [Sessions -> Nat]
                    /\ outbox' = [s \in Sessions |-> outbox[s] \o [i \in 1..k[s] |-> m]]
    <3>1. PICK u, r, told : /\ u = identity[ctx[w].s].userId
                            /\ r = RS!CurrentRoomName(u, None) /\ told = RS!Recipients(r, {u})
      OBVIOUS
    <3>2. PICK m : m = [kind |-> "left", re |-> Re(w), user |-> u, room |-> r]
      OBVIOUS
    <3>3. PICK k : k = [s \in Sessions |-> Cardinality({v \in DOMAIN told : told[v] = s})]
      OBVIOUS
    <3>4. outbox' = [s \in Sessions |-> outbox[s] \o [i \in 1..k[s] |-> m]]
      BY <1>8, <3>1, <3>2, <3>3, Zenon DEF Disconnect
    <3>5. IsMap(told, Users, Sessions)
      BY <3>1, ReadTyped, MapsIntoIsMap
    <3>6. k \in [Sessions -> Nat]
      BY <3>3, <3>5, CopiesFinite
    <3> QED
      BY <3>2, <3>4, <3>6
  <2>2. Outgoing(m)
    BY <2>1 DEF Outgoing
  <2> SUFFICES ASSUME NEW t \in Sessions, NEW i \in DOMAIN outbox'[t]
               PROVE  \/ i \in DOMAIN outbox[t] /\ outbox'[t][i] = outbox[t][i]
                      \/ Outgoing(outbox'[t][i])
    BY DEF Grows
  <2>3. PICK q, r, n : q = outbox[t] /\ n = [j \in 1..k[t] |-> m] /\ r = outbox'[t]
    OBVIOUS
  <2>4. q \in Seq(Envelope) /\ r = q \o n /\ i \in DOMAIN r
    BY <1>1, <2>1, <2>3
  <2>5. n \in Seq({m})
    BY <2>1, <2>3
  <2>6. (i \in DOMAIN q /\ r[i] = q[i]) \/ r[i] = m
    BY <2>4, <2>5
  <2> QED
    BY <2>2, <2>3, <2>6
<1>9. ASSUME NEW w \in Workers, WorkerStep(w)
      PROVE  \/ UNCHANGED outbox \/ \E ok \in BOOLEAN : Answer(w, Reply(w, ok))
             \/ Take(w) \/ Deliver(w) \/ HistoryRead(w) \/ PrivateSend(w) \/ Disconnect(w)
  BY <1>9 DEF WorkerStep, LoginRefused, Login, SendReply, JoinLookup, Join, Leave, CreateLookup,
     Insert, InsertFails, InsertThrows, Create, Snapshot, HistoryCheck, HistoryId, HistoryCrash,
     RoomName, RoomId, Store, StoreThrows, Target, PrivateFind, RemoveSession
<1>10. ASSUME NEW t \in Sessions, Receive(t) \/ ReadError(t) \/ WriteError(t)
       PROVE  UNCHANGED outbox
  BY <1>10 DEF Receive, ReadError, WriteError
<1>11. CASE UNCHANGED vars
  BY <1>2, <1>11 DEF vars
<1> QED
  BY <1>2, <1>3, <1>4, <1>5, <1>6, <1>7, <1>8, <1>9, <1>10, <1>11 DEF Next
\* With a database that does not fail, the message of a handler that goes on to
\* broadcast it is in the table.
SaidInv ==
  /\ SaidIsStored
  /\ \A w \in Workers :
       pc[w] \in {"target", "snapshot", "deliver"} /\ ctx[w].msg.kind = "message" =>
         [re |-> ctx[w].msg.re, id |-> ctx[w].msg.id] \in messages

\* Only the thread that steps moves.
LEMMA WorkerMoves ==
  ASSUME NEW w \in Workers, WorkerStep(w)
  PROVE  UNCHANGED <<pc, ctx>> \/ \E p, c : Goto(w, p, c)
BY Zenon DEF WorkerStep, Take, LoginRefused, Login, SendReply, JoinLookup, Join, Leave, CreateLookup,
   Insert, InsertFails, InsertThrows, Create, Snapshot, Deliver, HistoryCheck, HistoryId,
   HistoryRead, HistoryCrash, RoomName, RoomId, Store, StoreThrows, Target, PrivateFind,
   PrivateSend, Disconnect, RemoveSession, Answer, Finish, Throw, Broadcast

\* The steps that lead a handler to a broadcast, or on with it.
LEMMA ToBroadcast ==
  ASSUME IInv, NEW w \in Workers, WorkerStep(w), pc'[w] \in {"target", "snapshot", "deliver"}
  PROVE  \/ UNCHANGED <<pc, ctx>>
         \/ Join(w) \/ Leave(w) \/ Store(w) \/ Target(w) \/ Snapshot(w) \/ Deliver(w)
<1>1. ASSUME NEW p, NEW c, Goto(w, p, c) PROVE pc'[w] = p
  BY <1>1 DEF Goto, IInv, TypedThreads
<1>2. ~\E p, c : Goto(w, p, c) /\ p \notin {"target", "snapshot", "deliver"}
  BY <1>1
<1>3. ~Take(w) \/ UNCHANGED <<pc, ctx>>
  <2>1. ASSUME Take(w), ~UNCHANGED <<pc, ctx>> PROVE FALSE
    <3>1. PICK t : t = Head(queue)
      OBVIOUS
    <3>2. t \in Task
      BY <2>1, <3>1 DEF Take, IInv, TypedNet
    <3>3. t.req.op \in {"login", "join", "leave", "create", "history", "public", "private",
                       "disconnect"}
      BY <3>2 DEF Task, Request
    <3>4. PICK p, c : Goto(w, p, c) /\ (p \in {"login", "remove"} \/
                          (t.req.op # "login" /\ p = FirstStep[t.req.op]))
      BY <2>1, <3>1 DEF Take
    <3>5. p \notin {"target", "snapshot", "deliver"}
      BY <3>3, <3>4 DEF FirstStep
    <3> QED
      BY <1>2, <3>4, <3>5
  <2> QED
    BY <2>1
<1>4. ASSUME NEW p, NEW c, Goto(w, p, c), p \notin {"target", "snapshot", "deliver"}
      PROVE  FALSE
  BY <1>4, <1>2
<1>5. ~LoginRefused(w) /\ ~Login(w) /\ ~SendReply(w)
  BY <1>4 DEF LoginRefused, Login, SendReply, Answer, Finish
<1>6. ~JoinLookup(w) /\ ~CreateLookup(w)
  <2>1. ASSUME JoinLookup(w) \/ CreateLookup(w)
        PROVE  \E p \in {"idle", "join", "insert"},
                  c \in {NoTask, ctx[w], [ctx[w] EXCEPT !.found = RS!RowOf(ctx[w].arg)]} :
                    Goto(w, p, c)
    BY <2>1 DEF JoinLookup, CreateLookup, Answer, Finish
  <2> QED
    BY <1>4, <2>1
<1>7. ~Insert(w) /\ ~InsertFails(w) /\ ~InsertThrows(w) /\ ~Create(w) /\ ~StoreThrows(w)
  <2>1. ~InsertFails(w) /\ ~InsertThrows(w) /\ ~Create(w) /\ ~StoreThrows(w)
    BY <1>4 DEF InsertFails, InsertThrows, Create, StoreThrows, Answer, Finish, Throw
  <2>2. ASSUME Insert(w) PROVE FALSE
    <3>1. PICK id \in RoomIds : Goto(w, "create", [ctx[w] EXCEPT !.found = id])
      BY <2>2 DEF Insert
    <3> QED
      BY <1>4, <3>1
  <2> QED
    BY <2>1, <2>2
<1>8. ~HistoryCheck(w) /\ ~HistoryId(w) /\ ~HistoryRead(w) /\ ~HistoryCrash(w)
  BY <1>4 DEF HistoryCheck, HistoryId, HistoryRead, HistoryCrash, Answer, Finish
<1>9. ~RoomName(w) /\ ~RoomId(w) /\ ~PrivateFind(w) /\ ~PrivateSend(w)
  <2>1. ~RoomId(w) /\ ~PrivateSend(w)
    BY <1>4 DEF RoomId, PrivateSend, Answer, Finish
  <2>2. ASSUME PrivateFind(w) PROVE FALSE
    <3>1. PICK t : t = SM!FindByUsername(ctx[w].arg, None)
      OBVIOUS
    <3>2. PICK c : c = [ctx[w] EXCEPT !.found = t]
      OBVIOUS
    <3>3. Goto(w, "idle", NoTask) \/ Goto(w, "private_send", c)
      BY <2>2, <3>1, <3>2 DEF PrivateFind, Answer, Finish
    <3> QED
      BY <1>4, <3>3
  <2>3. ASSUME RoomName(w) PROVE FALSE
    <3>1. PICK r : r = RS!CurrentRoomName(ctx[w].user, None)
      OBVIOUS
    <3>2. PICK p \in {"id", "private_find"} : \/ Answer(w, Reply(w, FALSE))
                                             \/ Goto(w, p, [ctx[w] EXCEPT !.room = r])
      BY <2>3, <3>1 DEF RoomName
    <3> QED
      BY <1>4, <3>2 DEF Answer, Finish
  <2> QED
    BY <2>1, <2>2, <2>3
<1>10. ~Disconnect(w) /\ ~RemoveSession(w)
  BY <1>4, Zenon DEF Disconnect, RemoveSession, Finish
<1> QED
  BY <1>3, <1>5, <1>6, <1>7, <1>8, <1>9, <1>10 DEF WorkerStep

\* A step keeps what is said stored.
LEMMA SaidKept ==
  ASSUME IInv, SaidInv, ~DbMayFail, [Next]_vars
  PROVE  SaidInv'
<1>1. messages \subseteq messages'
  <2>1. ASSUME NEW w \in Workers, WorkerStep(w) PROVE messages \subseteq messages'
    BY <2>1, Zenon DEF WorkerStep, Take, LoginRefused, Login, SendReply, JoinLookup, Join, Leave,
       CreateLookup, Insert, InsertFails, InsertThrows, Create, Snapshot, Deliver, HistoryCheck,
       HistoryId, HistoryRead, HistoryCrash, RoomName, RoomId, Store, StoreThrows, Target,
       PrivateFind, PrivateSend, Disconnect, RemoveSession
  <2> QED
    BY <2>1 DEF Next, vars, Receive, ReadError, WriteError
<1>2. SaidIsStored'
  <2> SUFFICES ASSUME NEW s \in Sessions, NEW i \in DOMAIN outbox'[s],
                      outbox'[s][i].kind = "message"
               PROVE  [re |-> outbox'[s][i].re, id |-> outbox'[s][i].id] \in messages'
    BY DEF SaidIsStored
  <2>1. CASE i \in DOMAIN outbox[s] /\ outbox'[s][i] = outbox[s][i]
    BY <1>1, <2>1 DEF SaidInv, SaidIsStored
  <2>2. CASE Outgoing(outbox'[s][i])
    BY <1>1, <2>2 DEF Outgoing, SaidInv
  <2> QED
    BY <2>1, <2>2, OutboxGrows DEF Grows
<1>3. ASSUME NEW v \in Workers, pc'[v] \in {"target", "snapshot", "deliver"},
             ctx'[v].msg.kind = "message"
      PROVE  [re |-> ctx'[v].msg.re, id |-> ctx'[v].msg.id] \in messages'
  <2>1. CASE pc'[v] = pc[v] /\ ctx'[v] = ctx[v]
    BY <1>1, <1>3, <2>1 DEF SaidInv
  <2>2. ASSUME NEW w \in Workers, WorkerStep(w), v # w
        PROVE  pc'[v] = pc[v] /\ ctx'[v] = ctx[v]
    BY <2>2, WorkerMoves DEF Goto, IInv, TypedThreads
  <2>3. CASE Join(v) \/ Leave(v)
    <3>1. ctx[v] \in Context /\ ctx \in [Workers -> Context]
      BY DEF IInv, TypedThreads
    <3>2. PICK m : m.kind \in {"joined", "left"} /\ Broadcast(v, ctx[v].arg, m)
      <4>1. \A e : Notice(v, e).kind = e
        BY DEF Notice
      <4> QED
        BY <2>3, <4>1 DEF Join, Leave
    <3>3. ctx'[v].msg = m
      BY <3>1, <3>2 DEF Broadcast, Goto, Context
    <3> QED
      BY <1>3, <3>2, <3>3
  <2>4. CASE Store(v)
    <3>1. ctx'[v].msg = MessageOf(v) /\ messages' = messages \cup {[re |-> Re(v), id |-> ctx[v].found]}
      BY <2>4 DEF Store, Goto, IInv, TypedThreads, Context
    <3> QED
      BY <3>1 DEF MessageOf
  <2>5. CASE Target(v)
    <3>1. pc[v] = "target" /\ ctx[v].msg \in Messages
      BY <2>5, AtLabel DEF Target, AtStep, Shape
    <3>2. PICK r : ctx'[v].msg = [ctx[v].msg EXCEPT !.to = r]
      BY <2>5 DEF Target, Broadcast, Goto, IInv, TypedThreads, Context
    <3>3. /\ ctx'[v].msg.re = ctx[v].msg.re /\ ctx'[v].msg.id = ctx[v].msg.id
          /\ ctx[v].msg.kind = "message"
      BY <3>1, <3>2 DEF Messages
    <3> QED
      BY <1>1, <3>1, <3>3 DEF SaidInv
  <2>6. CASE Snapshot(v) \/ Deliver(v)
    <3>1. pc[v] \in {"snapshot", "deliver"}
      BY <2>6 DEF Snapshot, Deliver, AtStep
    <3>2. ctx'[v].msg = ctx[v].msg
      <4>1. ctx[v] \in Context
        BY DEF IInv, TypedThreads
      <4>2. ctx \in [Workers -> Context]
        BY DEF IInv, TypedThreads
      <4>3. PICK p, todo : \/ Goto(v, p, [ctx[v] EXCEPT !.todo = todo])
                           \/ Goto(v, p, ctx[v]) \/ Finish(v)
        BY <2>6 DEF Snapshot, Deliver
      <4>4. ~Finish(v)
        BY <1>3 DEF Finish, Goto, IInv, TypedThreads
      <4> QED
        BY <4>1, <4>2, <4>3, <4>4 DEF Goto, Context
    <3> QED
      BY <1>1, <1>3, <3>1, <3>2 DEF SaidInv
  <2>7. ASSUME WorkerStep(v) PROVE [re |-> ctx'[v].msg.re, id |-> ctx'[v].msg.id] \in messages'
    BY <1>3, <2>1, <2>3, <2>4, <2>5, <2>6, <2>7, ToBroadcast
  <2>8. ASSUME NEW t \in Sessions, Receive(t) \/ ReadError(t) \/ WriteError(t)
        PROVE  pc'[v] = pc[v] /\ ctx'[v] = ctx[v]
    BY <2>8 DEF Receive, ReadError, WriteError
  <2> QED
    BY <2>1, <2>2, <2>7, <2>8 DEF Next, vars
<1> QED
  BY <1>2, <1>3 DEF SaidInv

\* With a database that does not fail, a message somebody was sent is stored
\* under the room it names, for good, with any number of threads
\* (MessageService.cpp:25-34).
THEOREM SaidStored == ~DbMayFail => (Spec => []SaidIsStored)
<1> SUFFICES ASSUME ~DbMayFail PROVE Spec => []SaidIsStored
  OBVIOUS
<1>1. Init => SaidInv
  BY DEF Init, SaidInv, SaidIsStored
<1>2. IInv /\ SaidInv /\ [Next]_vars => SaidInv'
  BY SaidKept
<1>3. SaidInv => SaidIsStored
  BY DEF SaidInv
<1> QED
  BY <1>1, <1>2, <1>3, Invariance, PTL DEF Spec

-----------------------------------------------------------------------------
(* One thread.                                                             *)

\* With one thread nothing happens between two steps of a handler but arrivals,
\* so what it has read still holds: who the session is, that the name of a room
\* to create is free, and that a room's name and its id belong together.
Reads(p, c) ==
  /\ p \in WithUser => c.user = identity[c.s].userId
  /\ p = "insert" /\ ~DbMayFail => ~RS!Known(c.arg)
  /\ p \in {"id", "store"} => RS!CurrentRoomName(c.user, None) = c.room
  /\ p = "store" => RS!Known(c.room) /\ RS!RowOf(c.room).id = c.found
  /\ p = "history_id" => RS!CurrentRoomName(c.user, None) = c.arg
  /\ p = "history_read" => RS!Known(c.arg) /\ RS!RowOf(c.arg).id = c.found
  /\ p = "target" => /\ RS!CurrentRoomName(c.user, None) = c.msg.label
                     /\ RS!Known(c.msg.label) /\ RS!RowOf(c.msg.label).id = c.msg.id
  /\ p \in {"snapshot", "deliver"} /\ c.msg.kind = "message" =>
       /\ RS!Known(c.msg.label) /\ RS!RowOf(c.msg.label).id = c.msg.id
       /\ c.msg.to = c.msg.label

OneThread == \A v, w \in Workers : v = w

AloneInv == /\ \A w \in Workers : Reads(pc[w], ctx[w])
            /\ OneRoomPerMessage

\* An envelope about a room names one row of the table.
OneRoom(m) ==
  /\ m.kind \in {"message", "history"} => RS!Known(m.label) /\ RS!RowOf(m.label).id = m.id
  /\ m.kind = "message" => m.to = m.label

\* Rows stay, so what was sent under a room's name keeps to its room.
LEMMA OneRoomStays ==
  ASSUME IInv, [Next]_vars, NEW m, OneRoom(m)
  PROVE  OneRoom(m)'
BY RowsStay DEF OneRoom

\* What a handler has read depends on the registries only.
LEMMA ReadsSame ==
  ASSUME NEW p, NEW c, UNCHANGED <<registry, people>>
  PROVE  Reads(p, c)' <=> Reads(p, c)
BY DEF Reads, registry, people, RS!Known, RS!RowOf, RS!CurrentRoomName

\* Nothing is sent but what the thread's handler has made sure of.
LEMMA OneRoomKept ==
  ASSUME IInv, AloneInv, [Next]_vars
  PROVE  OneRoomPerMessage'
<1> SUFFICES ASSUME NEW s \in Sessions, NEW i \in DOMAIN outbox'[s],
                    NEW m, m = outbox'[s][i]
             PROVE  OneRoom(m)'
  BY DEF OneRoomPerMessage, OneRoom
<1>1. OneRoom(m)
  <2>1. CASE i \in DOMAIN outbox[s] /\ outbox'[s][i] = outbox[s][i]
    BY <2>1 DEF AloneInv, OneRoomPerMessage, OneRoom
  <2>2. ASSUME NEW w \in Workers, pc[w] = "deliver", m = ctx[w].msg PROVE OneRoom(m)
    <3>1. m.kind \in {"message", "joined", "left"}
      BY <2>2, AtLabel DEF Shape, Messages, Notices
    <3> QED
      BY <2>2, <3>1 DEF AloneInv, Reads, OneRoom
  <2>3. ASSUME NEW w \in Workers, pc[w] = "history_read", m.kind = "history",
               m.label = ctx[w].arg, m.id = ctx[w].found
        PROVE  OneRoom(m)
    BY <2>3 DEF AloneInv, Reads, OneRoom
  <2>4. CASE Outgoing(m)
    BY <2>2, <2>3, <2>4 DEF Outgoing, OneRoom
  <2> QED
    BY <2>1, <2>4, OutboxGrows DEF Grows
<1> QED
  BY <1>1, OneRoomStays

\* A step of the thread keeps the invariant if what its handler has read holds
\* after it.
LEMMA ByAlone ==
  ASSUME OneThread, IInv, AloneInv, [Next]_vars,
         NEW w \in Workers, NEW p, NEW c, Goto(w, p, c), Reads(p, c)'
  PROVE  AloneInv'
<1>1. pc'[w] = p /\ ctx'[w] = c
  BY DEF IInv, TypedThreads, Goto
<1>2. \A v \in Workers : v = w
  BY DEF OneThread
<1>3. \A v \in Workers : Reads(pc[v], ctx[v])'
  <2> SUFFICES ASSUME NEW v \in Workers PROVE Reads(pc[v], ctx[v])'
    OBVIOUS
  <2>1. v = w
    BY <1>2
  <2> QED
    BY <1>1, <2>1 DEF Reads
<1> QED
  BY <1>3, OneRoomKept DEF AloneInv

\* The same when the registries are left alone.
LEMMA ByReading ==
  ASSUME OneThread, IInv, AloneInv, [Next]_vars, UNCHANGED <<registry, people>>,
         NEW w \in Workers, NEW p, NEW c, Goto(w, p, c), Reads(p, c)
  PROVE  AloneInv'
BY ByAlone, ReadsSame

\* What happens on the network is nothing to the thread.
LEMMA ByStanding ==
  ASSUME IInv, AloneInv, [Next]_vars, UNCHANGED <<registry, people, pc, ctx>>
  PROVE  AloneInv'
<1>1. \A v \in Workers : Reads(pc[v], ctx[v])'
  BY DEF AloneInv, Reads, registry, people, RS!Known, RS!RowOf, RS!CurrentRoomName
<1> QED
  BY <1>1, OneRoomKept DEF AloneInv

\* A handler that returns has read nothing it relies on.
LEMMA ByFinishing ==
  ASSUME OneThread, IInv, AloneInv, [Next]_vars, NEW w \in Workers,
         NEW p \in {"idle", "reply", "remove", "login"}, NEW c, Goto(w, p, c)
  PROVE  AloneInv'
<1>1. Reads(p, c)'
  BY DEF Reads, WithUser
<1> QED
  BY <1>1, ByAlone

\* The room of a user has a row, and the id its active room carries is the row's.
LEMMA RoomAndId ==
  ASSUME IInv, NEW u, NEW r \in RoomNames, RS!CurrentRoomName(u, None) = r
  PROVE  RS!Known(r) /\ RS!RowOf(r).id = RS!CurrentRoomId(u, None) /\ RS!RowOf(r).id \in RoomIds
<1>1. u \in DOMAIN userToRoomMap /\ userToRoomMap[u] = r
  BY ServerAssumption DEF ServerAssumption, RS!CurrentRoomName
<1>2. r \in DOMAIN activeRooms
  BY <1>1 DEF IInv, RSP!IInv, RSP!MappedIsSeated, RSP!Members
<1>3. RS!Known(r) /\ RS!RowOf(r).id = activeRooms[r].id
  BY <1>2 DEF IInv, RSP!IInv, RSP!RoomMirrorsRow, RSP!Known, RSP!RowOf, RS!Known, RS!RowOf
<1>4. RS!RowOf(r).id \in RoomIds
  BY <1>3 DEF IInv, RSP!IInv, RSP!TypeOK, RSP!IsMap, RSP!Row, RS!Known, RS!RowOf
<1> QED
  BY <1>1, <1>2, <1>3, <1>4 DEF RS!CurrentRoomId

\* What the thread's handler knows at a label.
LEMMA AtAlone ==
  ASSUME IInv, AloneInv, NEW w \in Workers
  PROVE  Reads(pc[w], ctx[w]) /\ ctx[w] \in Context
BY DEF IInv, TypedThreads, AloneInv

\* A handler that goes on to a step which relies on no more than its user.
LEMMA ByUser ==
  ASSUME OneThread, IInv, AloneInv, [Next]_vars, UNCHANGED people, NEW w \in Workers,
         NEW p \in {"join_lookup", "join", "leave", "create_lookup", "create", "name",
                    "private_room", "private_find", "private_send", "private_echo",
                    "history_check", "disconnect"},
         NEW c, Goto(w, p, c), c.user = identity[c.s].userId
  PROVE  AloneInv'
<1>1. Reads(p, c)'
  BY DEF Reads, people
<1> QED
  BY <1>1, ByAlone

\* A request's handler starts with the id of its session.
LEMMA TakeAlone ==
  ASSUME OneThread, IInv, AloneInv, [Next]_vars, NEW w \in Workers, Take(w)
  PROVE  AloneInv'
<1>1. PICK t : t = Head(queue)
  OBVIOUS
<1>2. PICK c : c = Handler(t.s, t.n, t.req.arg, identity[t.s].userId)
  OBVIOUS
<1>3. c.user = identity[c.s].userId
  BY <1>2 DEF Handler
<1>4. UNCHANGED <<registry, people>>
  BY DEF Take
<1>5. t.req.op \in {"login", "join", "leave", "create", "history", "public", "private",
                    "disconnect"}
  <2>1. t \in Task
    BY <1>1 DEF Take, IInv, TypedNet
  <2> QED
    BY <2>1 DEF Task, Request
<1>6. PICK p : p = FirstStep[t.req.op]
  OBVIOUS
<1>7. t.req.op # "login" => p \in {"join_lookup", "leave", "create_lookup", "name",
                                   "private_room", "history_check", "disconnect"}
  BY <1>5, <1>6 DEF FirstStep
<1>8. \/ Goto(w, "login", c) \/ Goto(w, "remove", c)
      \/ t.req.op # "login" /\ Goto(w, p, c)
      \/ UNCHANGED <<pc, ctx>>
  BY <1>1, <1>2, <1>6 DEF Take
<1>9. CASE Goto(w, "login", c) \/ Goto(w, "remove", c)
  BY <1>9, ByFinishing
<1>10. CASE t.req.op # "login" /\ Goto(w, p, c)
  BY <1>3, <1>4, <1>7, <1>10, ByUser
<1>11. CASE UNCHANGED <<pc, ctx>>
  BY <1>4, <1>11, ByStanding
<1> QED
  BY <1>8, <1>9, <1>10, <1>11

\* Handlers that come to an end, or to their answer.
LEMMA EndsAlone ==
  ASSUME OneThread, IInv, AloneInv, [Next]_vars, NEW w \in Workers,
         \/ LoginRefused(w) \/ Login(w) \/ SendReply(w) \/ InsertFails(w) \/ Create(w)
         \/ HistoryRead(w) \/ Disconnect(w) \/ RemoveSession(w)
  PROVE  AloneInv'
<1>1. PICK c : c = ctx[w]
  OBVIOUS
<1>2. Goto(w, "idle", NoTask) \/ Goto(w, "reply", c) \/ Goto(w, "remove", c)
  BY <1>1, Zenon DEF LoginRefused, Login, SendReply, InsertFails, Create, HistoryRead, Disconnect,
              RemoveSession, Answer, Finish
<1> QED
  BY <1>2, ByFinishing

\* JOIN and LEAVE touch no session and send no message.
LEMMA SeatsAlone ==
  ASSUME OneThread, IInv, AloneInv, [Next]_vars, NEW w \in Workers,
         JoinLookup(w) \/ Join(w) \/ Leave(w)
  PROVE  AloneInv'
<1>1. /\ ctx[w].user = identity[ctx[w].s].userId /\ ctx[w] \in Context
  BY AtAlone DEF JoinLookup, Join, Leave, AtStep, Reads, WithUser, PC
<1>2. CASE JoinLookup(w)
  <2>1. PICK c : c = [ctx[w] EXCEPT !.found = RS!RowOf(ctx[w].arg)]
    OBVIOUS
  <2>2. c.user = ctx[w].user /\ c.s = ctx[w].s
    BY <1>1, <2>1 DEF Context
  <2>3. Goto(w, "join", c) \/ Goto(w, "idle", NoTask)
    BY <1>2, <2>1 DEF JoinLookup, Answer, Finish
  <2>4. UNCHANGED people
    BY <1>2 DEF JoinLookup
  <2>5. c.user = identity[c.s].userId
    BY <1>1, <2>2
  <2> QED
    BY <2>3, <2>4, <2>5, ByUser, ByFinishing
<1>3. CASE Join(w) \/ Leave(w)
  <2>1. PICK m : m.kind \in {"joined", "left"} /\ Broadcast(w, ctx[w].arg, m)
    <3>1. \A e : Notice(w, e).kind = e
      BY DEF Notice
    <3> QED
      BY <1>3, <3>1 DEF Join, Leave
  <2>2. PICK c : c = [ctx[w] EXCEPT !.room = ctx[w].arg, !.msg = m]
    OBVIOUS
  <2>3. c.user = ctx[w].user /\ c.s = ctx[w].s /\ c.msg = m
    BY <1>1, <2>2 DEF Context
  <2>4. Goto(w, "snapshot", c)
    BY <2>1, <2>2 DEF Broadcast
  <2>5. UNCHANGED people
    BY <1>3 DEF Join, Leave
  <2>6. c.user = identity[c.s].userId /\ c.msg.kind # "message"
    BY <1>1, <2>1, <2>3
  <2>7. Reads("snapshot", c)'
    BY <2>5, <2>6 DEF Reads, people
  <2> QED
    BY <2>4, <2>7, ByAlone
<1> QED
  BY <1>2, <1>3

\* The name a CREATE found free is free when its row is inserted.
LEMMA CreatesAlone ==
  ASSUME OneThread, IInv, AloneInv, [Next]_vars, NEW w \in Workers,
         CreateLookup(w) \/ Insert(w) \/ InsertThrows(w)
  PROVE  AloneInv'
<1>1. /\ ctx[w].user = identity[ctx[w].s].userId /\ ctx[w] \in Context
      /\ pc[w] = "insert" /\ ~DbMayFail => ~RS!Known(ctx[w].arg)
  BY AtAlone DEF CreateLookup, Insert, InsertThrows, AtStep, Reads, WithUser, PC
<1>2. CASE CreateLookup(w)
  <2>1. PICK c : c = ctx[w]
    OBVIOUS
  <2>2. CASE Goto(w, "insert", c) /\ (~RS!Known(c.arg) \/ DbMayFail)
    <3>1. Reads("insert", c) /\ UNCHANGED <<registry, people>>
      BY <1>1, <1>2, <2>1, <2>2 DEF Reads, CreateLookup
    <3> QED
      BY <2>2, <3>1, ByReading
  <2>3. CASE Goto(w, "idle", NoTask)
    BY <2>3, ByFinishing
  <2> QED
    BY <1>2, <2>1, <2>2, <2>3 DEF CreateLookup, Answer, Finish
<1>3. CASE Insert(w)
  <2>1. PICK id \in RoomIds : Goto(w, "create", [ctx[w] EXCEPT !.found = id])
    BY <1>3 DEF Insert
  <2>2. PICK c : c = [ctx[w] EXCEPT !.found = id]
    OBVIOUS
  <2>3. c.user = ctx[w].user /\ c.s = ctx[w].s
    BY <1>1, <2>2 DEF Context
  <2>4. UNCHANGED people /\ c.user = identity[c.s].userId /\ Goto(w, "create", c)
    BY <1>1, <1>3, <2>1, <2>2, <2>3 DEF Insert
  <2> QED
    BY <2>4, ByUser
<1>4. CASE InsertThrows(w)
  <2>1. Goto(w, "dead", NoTask)
    BY <1>4 DEF InsertThrows, Throw
  <2>2. Reads("dead", NoTask)'
    BY DEF Reads, WithUser
  <2> QED
    BY <2>1, <2>2, ByAlone
<1> QED
  BY <1>2, <1>3, <1>4

\* A broadcast keeps its message until everybody has been sent it.
LEMMA BroadcastAlone ==
  ASSUME OneThread, IInv, AloneInv, [Next]_vars, NEW w \in Workers, Snapshot(w) \/ Deliver(w)
  PROVE  AloneInv'
<1>1. pc[w] \in {"snapshot", "deliver"} /\ ctx[w] \in Context /\ Reads(pc[w], ctx[w])
  BY AtAlone DEF Snapshot, Deliver, AtStep
<1>2. UNCHANGED <<registry, people>>
  BY DEF Snapshot, Deliver
<1>3. PICK todo : \/ Goto(w, "deliver", [ctx[w] EXCEPT !.todo = todo])
                  \/ Goto(w, "reply", [ctx[w] EXCEPT !.todo = todo])
                  \/ Goto(w, "reply", ctx[w]) \/ Finish(w)
  BY DEF Snapshot, Deliver
<1>4. PICK c : c = [ctx[w] EXCEPT !.todo = todo]
  OBVIOUS
<1>5. PICK d : d = ctx[w]
  OBVIOUS
<1>6. CASE Goto(w, "deliver", c)
  <2>1. c.user = ctx[w].user /\ c.s = ctx[w].s /\ c.msg = ctx[w].msg
    BY <1>1, <1>4 DEF Context
  <2>2. Reads("deliver", c)
    BY <1>1, <2>1 DEF Reads, WithUser, PC
  <2> QED
    BY <1>2, <1>6, <2>2, ByReading
<1>7. CASE Goto(w, "reply", c) \/ Goto(w, "reply", d) \/ Goto(w, "idle", NoTask)
  BY <1>7, ByFinishing
<1> QED
  BY <1>3, <1>4, <1>5, <1>6, <1>7 DEF Finish

\* A history has the messages of the room the handler made sure the user is in.
LEMMA HistoryAlone ==
  ASSUME OneThread, IInv, AloneInv, [Next]_vars, NEW w \in Workers,
         HistoryCheck(w) \/ HistoryId(w) \/ HistoryCrash(w)
  PROVE  AloneInv'
<1>1. /\ ctx[w] \in Context /\ Reads(pc[w], ctx[w]) /\ ctx[w].arg \in RoomNames
      /\ ctx[w].user = identity[ctx[w].s].userId
  BY AtAlone, AtLabel DEF HistoryCheck, HistoryId, HistoryCrash, AtStep, Shape, WithArg, Reads,
                          WithUser, PC
<1>2. UNCHANGED <<registry, people>>
  BY DEF HistoryCheck, HistoryId, HistoryCrash
<1>3. CASE HistoryCheck(w)
  <2>1. PICK c : c = ctx[w]
    OBVIOUS
  <2>2. CASE Goto(w, "history_id", c) /\ RS!CurrentRoomName(c.user, None) = c.arg
    <3>1. Reads("history_id", c)
      BY <1>1, <2>1, <2>2 DEF Reads
    <3> QED
      BY <1>2, <2>2, <3>1, ByReading
  <2>3. CASE Goto(w, "idle", NoTask)
    BY <2>3, ByFinishing
  <2> QED
    BY <1>1, <1>3, <2>1, <2>2, <2>3 DEF HistoryCheck, Finish
<1>4. CASE HistoryId(w)
  <2>1. PICK id : id = RS!CurrentRoomId(identity[ctx[w].s].userId, None)
    OBVIOUS
  <2>2. PICK c : c = [ctx[w] EXCEPT !.found = id]
    OBVIOUS
  <2>3. c.user = ctx[w].user /\ c.s = ctx[w].s /\ c.arg = ctx[w].arg /\ c.found = id
    BY <1>1, <2>2 DEF Context
  <2>4. RS!CurrentRoomName(ctx[w].user, None) = ctx[w].arg
    BY <1>1, <1>4 DEF HistoryId, AtStep, Reads
  <2>5. PICK u, r : u = ctx[w].user /\ r = ctx[w].arg
    OBVIOUS
  <2>6. RS!Known(r) /\ RS!RowOf(r).id = id
    BY <1>1, <2>1, <2>4, <2>5, RoomAndId
  <2>7. Reads("history_read", c)
    BY <1>1, <2>3, <2>5, <2>6 DEF Reads
  <2> QED
    BY <1>2, <1>4, <2>1, <2>2, <2>7, ByReading DEF HistoryId
<1>5. CASE HistoryCrash(w)
  <2>1. Goto(w, "dead", NoTask)
    BY <1>5 DEF HistoryCrash
  <2>2. Reads("dead", NoTask)
    BY DEF Reads, WithUser
  <2> QED
    BY <1>2, <2>1, <2>2, ByReading
<1> QED
  BY <1>3, <1>4, <1>5

\* The room's name is read first, then its id: one room's.
LEMMA RoomReadsAlone ==
  ASSUME OneThread, IInv, AloneInv, [Next]_vars, NEW w \in Workers, RoomName(w) \/ RoomId(w)
  PROVE  AloneInv'
<1>1. /\ ctx[w] \in Context /\ Reads(pc[w], ctx[w]) /\ (pc[w] = "id" => ctx[w].room \in RoomNames)
      /\ ctx[w].user = identity[ctx[w].s].userId
  BY AtAlone, AtLabel DEF RoomName, RoomId, AtStep, Shape, WithRoom, Reads, WithUser, PC
<1>2. UNCHANGED <<registry, people>>
  BY DEF RoomName, RoomId
<1>3. CASE RoomName(w)
  <2>1. PICK r : r = RS!CurrentRoomName(ctx[w].user, None)
    OBVIOUS
  <2>2. PICK c : c = [ctx[w] EXCEPT !.room = r]
    OBVIOUS
  <2>3. c.user = ctx[w].user /\ c.s = ctx[w].s /\ c.room = r
    BY <1>1, <2>2 DEF Context
  <2>4. Goto(w, "id", c) \/ Goto(w, "private_find", c) \/ Goto(w, "idle", NoTask)
    BY <1>3, <2>1, <2>2 DEF RoomName, Answer, Finish
  <2>5. Reads("id", c) /\ c.user = identity[c.s].userId
    BY <1>1, <2>1, <2>3 DEF Reads
  <2> QED
    BY <1>2, <2>4, <2>5, ByReading, ByUser, ByFinishing
<1>4. CASE RoomId(w)
  <2>1. PICK u, r, id : u = ctx[w].user /\ r = ctx[w].room /\ id = RS!CurrentRoomId(u, None)
    OBVIOUS
  <2>2. PICK c : c = [ctx[w] EXCEPT !.found = id]
    OBVIOUS
  <2>3. c.user = ctx[w].user /\ c.s = ctx[w].s /\ c.room = ctx[w].room /\ c.found = id
    BY <1>1, <2>2 DEF Context
  <2>4. RS!CurrentRoomName(u, None) = r /\ r \in RoomNames
    BY <1>1, <1>4, <2>1 DEF RoomId, AtStep, Reads
  <2>5. RS!Known(r) /\ RS!RowOf(r).id = id
    BY <2>1, <2>4, RoomAndId
  <2>6. Reads("store", c)
    BY <1>1, <2>1, <2>3, <2>4, <2>5 DEF Reads
  <2> QED
    BY <1>2, <1>4, <2>1, <2>2, <2>6, ByReading DEF RoomId
<1> QED
  BY <1>3, <1>4

\* The message is stored under that id, so the foreign key holds.
LEMMA NeverUnroomed ==
  ASSUME IInv, AloneInv, NEW w \in Workers
  PROVE  ~StoreThrows(w)
<1> SUFFICES ASSUME StoreThrows(w) PROVE FALSE
  OBVIOUS
<1>1. pc[w] = "store" /\ ctx[w].found = None /\ Reads("store", ctx[w])
  BY AtAlone DEF StoreThrows, AtStep
<1>2. ctx[w].room \in RoomNames
  BY <1>1, AtLabel DEF Shape, WithRoom
<1>3. PICK u, r : u = ctx[w].user /\ r = ctx[w].room
  OBVIOUS
<1>4. RS!CurrentRoomName(u, None) = r /\ r \in RoomNames /\ RS!RowOf(r).id = None
  BY <1>1, <1>2, <1>3 DEF Reads
<1>5. RS!RowOf(r).id \in RoomIds
  BY <1>4, RoomAndId
<1> QED
  BY <1>4, <1>5, ServerAssumption DEF ServerAssumption

\* It is broadcast to the room of that name.
LEMMA MessageAlone ==
  ASSUME OneThread, IInv, AloneInv, [Next]_vars, NEW w \in Workers,
         Store(w) \/ Target(w)
  PROVE  AloneInv'
<1>1. /\ ctx[w] \in Context /\ Reads(pc[w], ctx[w]) /\ ctx[w].user = identity[ctx[w].s].userId
      /\ pc[w] = "store" => ctx[w].room \in RoomNames
      /\ pc[w] = "target" => ctx[w].msg \in Messages
  BY AtAlone, AtLabel DEF Store, Target, AtStep, Shape, WithRoom, Reads, WithUser, PC
<1>2. UNCHANGED <<registry, people>>
  BY DEF Store, Target
<1>3. CASE Store(w)
  <2>1. PICK m : m = MessageOf(w)
    OBVIOUS
  <2>2. m.label = ctx[w].room /\ m.id = ctx[w].found
    BY <2>1 DEF MessageOf
  <2>3. PICK c : c = [ctx[w] EXCEPT !.msg = m]
    OBVIOUS
  <2>4. c.user = ctx[w].user /\ c.s = ctx[w].s /\ c.msg = m
    BY <1>1, <2>3 DEF Context
  <2>5. /\ RS!CurrentRoomName(ctx[w].user, None) = ctx[w].room
        /\ RS!Known(ctx[w].room) /\ RS!RowOf(ctx[w].room).id = ctx[w].found
    BY <1>1, <1>3 DEF Store, AtStep, Reads
  <2>6. Reads("target", c)
    BY <1>1, <2>2, <2>4, <2>5 DEF Reads
  <2> QED
    BY <1>2, <1>3, <2>1, <2>3, <2>6, ByReading DEF Store
<1>4. CASE Target(w)
  <2>1. PICK r : r = RS!CurrentRoomName(identity[ctx[w].s].userId, None)
    OBVIOUS
  <2>2. PICK m : m = [ctx[w].msg EXCEPT !.to = r]
    OBVIOUS
  <2>3. ctx[w].msg \in Messages /\ pc[w] = "target"
    BY <1>1, <1>4 DEF Target, AtStep
  <2>4. m.label = ctx[w].msg.label /\ m.id = ctx[w].msg.id /\ m.to = r
    BY <2>2, <2>3 DEF Messages
  <2>5. PICK c : c = [ctx[w] EXCEPT !.room = r, !.msg = m]
    OBVIOUS
  <2>6. c.user = ctx[w].user /\ c.s = ctx[w].s /\ c.msg = m
    BY <1>1, <2>5 DEF Context
  <2>7. /\ r = ctx[w].msg.label
        /\ RS!Known(ctx[w].msg.label) /\ RS!RowOf(ctx[w].msg.label).id = ctx[w].msg.id
    BY <1>1, <2>1, <2>3 DEF Reads
  <2>8. Reads("snapshot", c)
    BY <1>1, <2>4, <2>6, <2>7 DEF Reads
  <2> QED
    BY <1>2, <1>4, <2>1, <2>2, <2>5, <2>8, ByReading DEF Target, Broadcast
<1> QED
  BY <1>3, <1>4

\* A private message relies on no room.
LEMMA PrivateAlone ==
  ASSUME OneThread, IInv, AloneInv, [Next]_vars, NEW w \in Workers,
         PrivateFind(w) \/ PrivateSend(w)
  PROVE  AloneInv'
<1>1. /\ ctx[w] \in Context /\ ctx[w].user = identity[ctx[w].s].userId
  BY AtAlone DEF PrivateFind, PrivateSend, AtStep, Reads, WithUser, PC
<1>2. UNCHANGED people
  BY DEF PrivateFind, PrivateSend
<1>3. PICK d : d = ctx[w]
  OBVIOUS
<1>4. PICK t : t = SM!FindByUsername(ctx[w].arg, None)
  OBVIOUS
<1>5. PICK c : c = [ctx[w] EXCEPT !.found = t]
  OBVIOUS
<1>6. c.user = ctx[w].user /\ c.s = ctx[w].s
  BY <1>1, <1>5 DEF Context
<1>7. c.user = identity[c.s].userId /\ d.user = identity[d.s].userId
  BY <1>1, <1>3, <1>6
<1>8. Goto(w, "private_send", c) \/ Goto(w, "private_echo", d) \/ Goto(w, "idle", NoTask)
  <2>1. PrivateFind(w) => Goto(w, "private_send", c) \/ Goto(w, "idle", NoTask)
    BY <1>4, <1>5 DEF PrivateFind, Answer, Finish
  <2>2. PrivateSend(w) => Goto(w, "private_echo", d) \/ Goto(w, "idle", NoTask)
    BY <1>3 DEF PrivateSend, Answer, Finish
  <2> QED
    BY <2>1, <2>2
<1> QED
  BY <1>2, <1>7, <1>8, ByUser, ByFinishing

\* The only thread keeps what its handler has read.
LEMMA AloneKept ==
  ASSUME OneThread, IInv, AloneInv, [Next]_vars
  PROVE  AloneInv'
<1>1. CASE UNCHANGED vars
  BY <1>1, ByStanding DEF vars
<1>2. ASSUME NEW s \in Sessions, Receive(s) \/ ReadError(s) \/ WriteError(s) PROVE AloneInv'
  <2>1. UNCHANGED <<registry, people, pc, ctx>>
    BY <1>2 DEF Receive, ReadError, WriteError
  <2> QED
    BY <2>1, ByStanding
<1>3. ASSUME NEW w \in Workers, WorkerStep(w) PROVE AloneInv'
  BY <1>3, TakeAlone, EndsAlone, SeatsAlone, CreatesAlone, BroadcastAlone, HistoryAlone,
     RoomReadsAlone, MessageAlone, NeverUnroomed, PrivateAlone DEF WorkerStep
<1> QED
  BY <1>1, <1>2, <1>3 DEF Next

\* With one thread in io_context.run() the invariant of the one thread holds.
LEMMA Alone == OneThread => (Spec => []AloneInv)
<1> SUFFICES ASSUME OneThread PROVE Spec => []AloneInv
  OBVIOUS
<1>1. Init => AloneInv
  BY DEF Init, AloneInv, Reads, WithUser, OneRoomPerMessage
<1>2. IInv /\ AloneInv /\ [Next]_vars => AloneInv'
  BY AloneKept
<1> QED
  BY <1>1, <1>2, Invariance, PTL DEF Spec

\* One thread sends every message to the room on its label, stores it under
\* that room's id, and answers with the history of the room that was asked for,
\* although each of these reads the registry anew (MessageService.cpp:9-34,
\* RoomService.cpp:130-136), whether the database fails or not.
THEOREM OneThreadOneRoom == OneThread => (Spec => []OneRoomPerMessage)
<1>1. AloneInv => OneRoomPerMessage
  BY DEF AloneInv
<1> QED
  BY <1>1, Alone, PTL

\* A thread that dies does so of an exception.
LEMMA Dies ==
  ASSUME IInv, NEW w \in Workers, WorkerStep(w), pc[w] # "dead", pc'[w] = "dead"
  PROVE  InsertThrows(w) \/ StoreThrows(w) \/ HistoryCrash(w)
<1>1. ASSUME NEW p, NEW c, Goto(w, p, c) PROVE p = "dead"
  BY <1>1 DEF Goto, IInv, TypedThreads
<1>2. ~UNCHANGED pc
  OBVIOUS
<1>3. ~Take(w)
  <2>1. ASSUME Take(w) PROVE FALSE
    <3>1. PICK t : t = Head(queue)
      OBVIOUS
    <3>2. t \in Task
      BY <2>1, <3>1 DEF Take, IInv, TypedNet
    <3>3. t.req.op \in {"login", "join", "leave", "create", "history", "public", "private",
                       "disconnect"}
      BY <3>2 DEF Task, Request
    <3>4. PICK p, c : Goto(w, p, c) /\ (p \in {"login", "remove"} \/
                          (t.req.op # "login" /\ p = FirstStep[t.req.op]))
      BY <1>2, <2>1, <3>1 DEF Take
    <3>5. p # "dead"
      BY <3>3, <3>4 DEF FirstStep
    <3> QED
      BY <1>1, <3>4, <3>5
  <2> QED
    BY <2>1
<1>4. ~LoginRefused(w) /\ ~Login(w) /\ ~SendReply(w)
  BY <1>1 DEF LoginRefused, Login, SendReply, Answer, Finish
<1>5. ~JoinLookup(w) /\ ~CreateLookup(w)
  <2>1. ASSUME JoinLookup(w) \/ CreateLookup(w)
        PROVE  \E p \in {"idle", "join", "insert"},
                  c \in {NoTask, ctx[w], [ctx[w] EXCEPT !.found = RS!RowOf(ctx[w].arg)]} :
                    Goto(w, p, c)
    BY <2>1 DEF JoinLookup, CreateLookup, Answer, Finish
  <2> QED
    BY <1>1, <2>1
<1>6. ~Join(w) /\ ~Leave(w) /\ ~Target(w)
  BY <1>1 DEF Join, Leave, Target, Broadcast
<1>7. ~Insert(w) /\ ~InsertFails(w) /\ ~Create(w)
  <2>1. ~InsertFails(w) /\ ~Create(w)
    BY <1>1 DEF InsertFails, Create, Answer, Finish
  <2>2. ASSUME Insert(w) PROVE FALSE
    <3>1. PICK id \in RoomIds : Goto(w, "create", [ctx[w] EXCEPT !.found = id])
      BY <2>2 DEF Insert
    <3> QED
      BY <1>1, <3>1
  <2> QED
    BY <2>1, <2>2
<1>8. ~Snapshot(w) /\ ~Deliver(w)
  <2>1. ASSUME Snapshot(w) \/ Deliver(w)
        PROVE  \E p \in {"idle", "deliver", "reply"} : \E c : Goto(w, p, c)
    BY <2>1 DEF Snapshot, Deliver, Finish
  <2> QED
    BY <1>1, <2>1
<1>9. ~HistoryCheck(w) /\ ~HistoryId(w) /\ ~HistoryRead(w) /\ ~Store(w)
  BY <1>1 DEF HistoryCheck, HistoryId, HistoryRead, Store, Answer, Finish
<1>10. ~RoomName(w) /\ ~RoomId(w) /\ ~PrivateFind(w) /\ ~PrivateSend(w)
  <2>1. ~RoomId(w) /\ ~PrivateSend(w)
    BY <1>1 DEF RoomId, PrivateSend, Answer, Finish
  <2>2. ASSUME PrivateFind(w) \/ RoomName(w)
        PROVE  \E p \in {"idle", "private_send", "id", "private_find"} : \E c : Goto(w, p, c)
    BY <2>2 DEF PrivateFind, RoomName, Answer, Finish
  <2> QED
    BY <1>1, <2>1, <2>2
<1>11. ~Disconnect(w) /\ ~RemoveSession(w)
  BY <1>1, Zenon DEF Disconnect, RemoveSession, Finish
<1> QED
  BY <1>3, <1>4, <1>5, <1>6, <1>7, <1>8, <1>9, <1>10, <1>11 DEF WorkerStep

\* One thread on a healthy database meets no exception but that of a CREATE of a
\* name too long for its column: the name that was looked up is still nobody's
\* when it is inserted (RoomService.cpp:87-95) and a room still has its id
\* (MessageService.cpp:9-25).
THEOREM OneThreadLives == OneThread /\ ~DbMayFail => (Spec => OnlyLongNamesKill)
<1> SUFFICES ASSUME OneThread, ~DbMayFail PROVE Spec => OnlyLongNamesKill
  OBVIOUS
<1>1. ASSUME IInv, AloneInv, Next, NEW w \in Workers, pc[w] # "dead", pc'[w] = "dead"
      PROVE  ctx[w].arg \in LongNames
  <2>1. PICK v \in Workers : WorkerStep(v)
    BY <1>1 DEF Next, Receive, ReadError, WriteError
  <2>2. WorkerStep(w)
    BY <2>1 DEF OneThread
  <2>3. InsertThrows(w)
    BY <1>1, <2>2, Dies, NeverUnroomed DEF HistoryCrash
  <2>4. Reads("insert", ctx[w])
    BY <1>1, <2>3, AtAlone DEF InsertThrows, AtStep
  <2> QED
    BY <2>3, <2>4 DEF InsertThrows, Reads
<1>2. IInv /\ AloneInv /\ [Next]_vars =>
        [\A w \in Workers :
           pc[w] # "dead" /\ pc'[w] = "dead" => ctx[w].arg \in LongNames]_vars
  BY <1>1
<1> QED
  BY <1>2, Alone, Invariance, PTL DEF Spec, OnlyLongNamesKill

-----------------------------------------------------------------------------
(* Clients that log in as one user each.                                   *)

\* The users the client of s may log in as.
LoginsOf(s) ==
  {u \in Users : \E i \in DOMAIN Asks[s] : [op |-> "login", arg |-> u] \in Asks[s][i]}

OneUserPerClient == \A s \in Sessions : \A u, v \in LoginsOf(s) : u = v

\* What a task asks for is its session's to ask.
OwnTask(t) == /\ t.req.op = "login" => t.req.arg \in LoginsOf(t.s)
              /\ t.n = 0 <=> t.req.op = "disconnect"

\* A handler at label p with variables c works for the user of its session, and
\* sends nothing to that session but its answer.
Mine(p, c) ==
  /\ p \notin {"idle", "dead"} => (c.n = 0 <=> p \in {"disconnect", "remove"})
  /\ p = "login" => c.arg \in LoginsOf(c.s)
  /\ p \in WithUser => identity[c.s].userId = c.user
  /\ p \in {"target", "snapshot", "deliver"} => c.msg.re = <<c.s, c.n>>
  /\ p \in {"snapshot", "deliver"} /\ c.msg.kind # "message" => c.msg.user = c.user
  /\ p = "deliver" => /\ \A v \in DOMAIN c.todo : identity[c.todo[v]].userId = v
                      /\ c.msg.kind # "message" => c.user \notin DOMAIN c.todo
  /\ p = "private_send" => c.found # c.s

\* A seat is on a session of the user it is for.
SeatsOwn ==
  \A r, v : RSP!SeatIn(activeRooms, r, v) => identity[activeRooms[r].members[v]].userId = v

OwnInv == /\ \A s \in Sessions : identity[s].userId \in LoginsOf(s) \cup {None}
          /\ \A i \in DOMAIN queue : OwnTask(queue[i])
          /\ \A w \in Workers : Mine(pc[w], ctx[w])
          /\ SeatsOwn

\* The user of a session with an identity.
IdentityStays ==
  \A s \in Sessions : identity[s].userId # None => identity'[s].userId = identity[s].userId

\* Only a login changes who a session is, and one client logs in as one user.
LEMMA WhoStays ==
  ASSUME OneUserPerClient, IInv, OwnInv, [Next]_vars
  PROVE  /\ IdentityStays
         /\ \A s \in Sessions : identity'[s].userId \in LoginsOf(s) \cup {None}
<1>1. CASE UNCHANGED identity
  BY <1>1 DEF IdentityStays, OwnInv
<1>2. ASSUME NEW w \in Workers, Login(w)
      PROVE  /\ IdentityStays
             /\ \A s \in Sessions : identity'[s].userId \in LoginsOf(s) \cup {None}
  <2>1. PICK t, u : t = ctx[w].s /\ u = ctx[w].arg
    OBVIOUS
  <2>2. t \in Sessions /\ u \in LoginsOf(t)
    BY <1>2, <2>1, AtLabel DEF Login, AtStep, OwnInv, Mine
  <2>3. identity' = [identity EXCEPT ![t] = [userId |-> u, username |-> u]]
    BY <1>2, <2>1 DEF Login, SM!RegisterAuthenticatedSession
  <2>4. identity'[t].userId = u /\ \A s \in Sessions \ {t} : identity'[s] = identity[s]
    BY <2>2, <2>3 DEF IInv, SM!TypeOK
  <2>5. identity[t].userId \in LoginsOf(t) \cup {None}
    BY <2>2 DEF OwnInv
  <2>6. identity[t].userId # None => identity[t].userId = u
    BY <2>2, <2>5 DEF OneUserPerClient
  <2> QED
    BY <2>2, <2>4, <2>6 DEF IdentityStays, OwnInv
<1>3. ASSUME NEW w \in Workers, WorkerStep(w), ~Login(w)
      PROVE  UNCHANGED identity
  BY <1>3, Zenon DEF WorkerStep, people, Take, LoginRefused, SendReply, JoinLookup, Join, Leave,
     CreateLookup, Insert, InsertFails, InsertThrows, Create, Snapshot, Deliver, HistoryCheck,
     HistoryId, HistoryRead, HistoryCrash, RoomName, RoomId, Store, StoreThrows, Target,
     PrivateFind, PrivateSend, Disconnect, RemoveSession, SM!Remove
<1>4. ASSUME NEW s \in Sessions, Receive(s) \/ ReadError(s) \/ WriteError(s)
      PROVE  UNCHANGED identity
  BY <1>4 DEF Receive, ReadError, WriteError, people
<1> QED
  BY <1>1, <1>2, <1>3, <1>4 DEF Next, vars, people

\* What a handler knows of who is who stays true.
LEMMA MineStays ==
  ASSUME IInv, IdentityStays, NEW p, NEW c, Mine(p, c),
         p \notin {"idle", "dead"} => c.s \in Sessions,
         p \in WithUser => c.user \in Users,
         p = "deliver" => \A v \in DOMAIN c.todo : c.todo[v] \in Sessions /\ v \in Users
  PROVE  Mine(p, c)'
<1>1. None \notin Users
  BY ServerAssumption DEF ServerAssumption
<1>2. p \in WithUser => c.s \in Sessions
  BY DEF WithUser
<1>3. p \in WithUser => identity'[c.s].userId = c.user
  BY <1>1, <1>2 DEF Mine, IdentityStays
<1>4. p = "deliver" => \A v \in DOMAIN c.todo : identity'[c.todo[v]].userId = v
  BY <1>1 DEF Mine, IdentityStays
<1> QED
  BY <1>3, <1>4 DEF Mine

\* The operations of the room registry move one user, to a seat on one session or
\* out of its room.
LEMMA SeatMoves ==
  ASSUME IInv, NEW u \in Users, NEW s \in Sessions, NEW r \in RoomNames
  PROVE  /\ \A row : RS!JoinRoom(u, s, r, row) =>
               RSP!MovesOnly(u) /\ RSP!SeatsFrom(u, s) /\ RSP!Settles(u, r, s)
         /\ \A id : RS!CreateRoom(u, s, r, id) =>
               RSP!MovesOnly(u) /\ RSP!SeatsFrom(u, s) /\ RSP!Settles(u, r, s)
         /\ RS!LeaveRoom(u, r) =>
               /\ RSP!MovesOnly(u) /\ RSP!SeatsFrom(u, s)
               /\ ~(u \in DOMAIN userToRoomMap' /\ userToRoomMap'[u] = r)
               /\ u \notin DOMAIN userToRoomMap' \/ UNCHANGED <<userToRoomMap, activeRooms>>
         /\ RS!HandleDisconnect(u) =>
               RSP!MovesOnly(u) /\ RSP!SeatsFrom(u, s) /\ u \notin DOMAIN userToRoomMap'
<1>1. RSP!TypeOK /\ RSP!NoEmptyRoom
  BY DEF IInv, RSP!IInv
<1>2. RSP!NamesAssumption
  BY ServerAssumption DEF ServerAssumption, RSP!NamesAssumption
<1>3. ASSUME NEW row, RS!JoinRoom(u, s, r, row)
      PROVE  RSP!MovesOnly(u) /\ RSP!SeatsFrom(u, s) /\ RSP!Settles(u, r, s)
  <2>1. RSP!JoinRoom(u, s, r, row)
    BY <1>3 DEF RS!JoinRoom, RSP!JoinRoom, RS!DropCurrent, RSP!DropCurrent, RS!DropMember,
       RSP!DropMember, RS!NewEntry, RSP!NewEntry, RS!Put, RSP!Put, RS!Erase, RSP!Erase,
       RS!Restrict, RSP!Restrict, RS!NoEntries, RSP!NoEntries, RS!tables, RSP!tables
  <2> QED
    BY <1>1, <1>2, <2>1, RSP!JoinMoves
<1>4. ASSUME NEW id, RS!CreateRoom(u, s, r, id)
      PROVE  RSP!MovesOnly(u) /\ RSP!SeatsFrom(u, s) /\ RSP!Settles(u, r, s)
  <2>1. RSP!CreateRoom(u, s, r, id)
    BY <1>4 DEF RS!CreateRoom, RSP!CreateRoom, RS!Put, RSP!Put, RS!NoEntries, RSP!NoEntries
  <2> QED
    BY <1>1, <1>2, <2>1, RSP!CreateMoves
<1>5. ASSUME u \in DOMAIN userToRoomMap,
             userToRoomMap' = RS!Erase(userToRoomMap, u),
             activeRooms' = RS!DropMember(activeRooms, u, userToRoomMap[u])
      PROVE  RSP!MovesOnly(u) /\ RSP!SeatsFrom(u, s) /\ u \notin DOMAIN userToRoomMap'
  <2>1. /\ userToRoomMap' = RSP!Erase(userToRoomMap, u)
        /\ activeRooms' = RSP!DropMember(activeRooms, u, userToRoomMap[u])
    BY <1>5 DEF RS!DropMember, RSP!DropMember, RS!Erase, RSP!Erase, RS!Restrict, RSP!Restrict
  <2> QED
    BY <1>1, <1>2, <1>5, <2>1, RSP!UnseatMoves
<1>6. ASSUME UNCHANGED <<userToRoomMap, activeRooms>>
      PROVE  RSP!MovesOnly(u) /\ RSP!SeatsFrom(u, s)
  BY <1>6 DEF RSP!MovesOnly, RSP!SeatsFrom
<1>7. ASSUME RS!LeaveRoom(u, r)
      PROVE  /\ RSP!MovesOnly(u) /\ RSP!SeatsFrom(u, s)
             /\ ~(u \in DOMAIN userToRoomMap' /\ userToRoomMap'[u] = r)
             /\ u \notin DOMAIN userToRoomMap' \/ UNCHANGED <<userToRoomMap, activeRooms>>
  <2>1. CASE u \in DOMAIN userToRoomMap /\ userToRoomMap[u] = r
    BY <1>5, <1>7, <2>1 DEF RS!LeaveRoom
  <2>2. CASE ~(u \in DOMAIN userToRoomMap /\ userToRoomMap[u] = r)
    BY <1>6, <1>7, <2>2 DEF RS!LeaveRoom, RS!seating
  <2> QED
    BY <2>1, <2>2
<1>8. ASSUME RS!HandleDisconnect(u)
      PROVE  RSP!MovesOnly(u) /\ RSP!SeatsFrom(u, s) /\ u \notin DOMAIN userToRoomMap'
  BY <1>5, <1>6, <1>8 DEF RS!HandleDisconnect, RS!seating
<1> QED
  BY <1>3, <1>4, <1>7, <1>8

\* What happens to the variables of a handler as it goes from step to step.
LEMMA Updates ==
  ASSUME NEW c \in Context, NEW x, NEW y
  PROVE  /\ \A d \in {c, [c EXCEPT !.found = x], [c EXCEPT !.room = x], [c EXCEPT !.msg = x],
                      [c EXCEPT !.todo = x], [c EXCEPT !.room = y, !.msg = x]} :
              d.s = c.s /\ d.n = c.n /\ d.user = c.user /\ d.arg = c.arg
         /\ [c EXCEPT !.found = x].found = x /\ [c EXCEPT !.found = x].msg = c.msg
         /\ [c EXCEPT !.room = x].room = x
         /\ [c EXCEPT !.msg = x].msg = x
         /\ [c EXCEPT !.todo = x].todo = x /\ [c EXCEPT !.todo = x].msg = c.msg
         /\ [c EXCEPT !.todo = x].room = c.room
         /\ [c EXCEPT !.room = y, !.msg = x].room = y /\ [c EXCEPT !.room = y, !.msg = x].msg = x
BY DEF Context

\* The queue holds what clients may ask.
LEMMA TasksOwn ==
  ASSUME IInv, OwnInv, [Next]_vars
  PROVE  \A i \in DOMAIN queue' : OwnTask(queue'[i])
<1>1. queue \in Seq(Task) /\ sent \in [Sessions -> Nat]
  BY DEF IInv, TypedNet
<1>2. CASE UNCHANGED queue
  BY <1>2 DEF OwnInv
<1>3. ASSUME NEW s, NEW n, NEW req, Post(s, n, req), OwnTask([s |-> s, n |-> n, req |-> req])
      PROVE  \A i \in DOMAIN queue' : OwnTask(queue'[i])
  <2>1. PICK t : t = [s |-> s, n |-> n, req |-> req]
    OBVIOUS
  <2>2. queue' = Append(queue, t)
    BY <1>3, <2>1 DEF Post
  <2>3. \A i \in DOMAIN queue' : (i \in DOMAIN queue /\ queue'[i] = queue[i]) \/ queue'[i] = t
    BY <1>1, <2>2
  <2> QED
    BY <1>3, <2>1, <2>3 DEF OwnInv
<1>4. ASSUME NEW s \in Sessions, Receive(s)
      PROVE  \A i \in DOMAIN queue' : OwnTask(queue'[i])
  <2>1. PICK n : n = sent[s] + 1
    OBVIOUS
  <2>2. Asks[s] \in Seq(SUBSET Request) /\ n \in DOMAIN Asks[s] /\ n # 0
    <3>1. Asks[s] \in Seq(SUBSET Request)
      BY ServerAssumption DEF ServerAssumption
    <3>2. sent[s] \in Nat /\ sent[s] < Len(Asks[s])
      BY <1>1, <1>4 DEF Receive
    <3> QED
      BY <2>1, <3>1, <3>2
  <2>3. PICK req \in Asks[s][n] : Post(s, n, req)
    BY <1>4, <2>1 DEF Receive
  <2>4. req \in Request
    BY <2>2, <2>3
  <2>5. req.op # "disconnect" /\ (req.op = "login" => req.arg \in Users
                                                      /\ req = [op |-> "login", arg |-> req.arg])
    BY <2>4 DEF Request
  <2>6. OwnTask([s |-> s, n |-> n, req |-> req])
    BY <2>2, <2>3, <2>5 DEF OwnTask, LoginsOf
  <2> QED
    BY <1>3, <2>3, <2>6
<1>5. ASSUME NEW s \in Sessions, ReadError(s) \/ WriteError(s)
      PROVE  \A i \in DOMAIN queue' : OwnTask(queue'[i])
  <2>1. UNCHANGED queue \/ Post(s, 0, [op |-> "disconnect", arg |-> None])
    BY <1>5 DEF ReadError, WriteError, HandleError
  <2>2. OwnTask([s |-> s, n |-> 0, req |-> [op |-> "disconnect", arg |-> None]])
    BY DEF OwnTask
  <2> QED
    BY <1>2, <1>3, <2>1, <2>2
<1>6. ASSUME NEW w \in Workers, WorkerStep(w), ~Take(w)
      PROVE  UNCHANGED queue
  BY <1>6, Zenon DEF WorkerStep, LoginRefused, Login, SendReply, JoinLookup, Join, Leave,
     CreateLookup, Insert, InsertFails, InsertThrows, Create, Snapshot, Deliver, HistoryCheck,
     HistoryId, HistoryRead, HistoryCrash, RoomName, RoomId, Store, StoreThrows, Target,
     PrivateFind, PrivateSend, Disconnect, RemoveSession
<1>7. ASSUME NEW w \in Workers, Take(w)
      PROVE  \A i \in DOMAIN queue' : OwnTask(queue'[i])
  <2>1. queue' = Tail(queue) /\ queue # <<>>
    BY <1>7 DEF Take
  <2>2. \A i \in DOMAIN queue' : i + 1 \in DOMAIN queue /\ queue'[i] = queue[i + 1]
    BY <1>1, <2>1
  <2> QED
    BY <2>2 DEF OwnInv
<1>8. CASE UNCHANGED vars
  BY <1>2, <1>8 DEF vars
<1> QED
  BY <1>2, <1>4, <1>5, <1>6, <1>7, <1>8 DEF Next

\* A handler seats the user of its session on that session.
LEMMA SeatsStayOwn ==
  ASSUME OneUserPerClient, IInv, OwnInv, [Next]_vars
  PROVE  SeatsOwn'
<1>1. IdentityStays
  BY WhoStays
<1>2. None \notin Users
  BY ServerAssumption DEF ServerAssumption
<1>3. \A q, v : RSP!SeatIn(activeRooms, q, v) =>
        v \in Users /\ activeRooms[q].members[v] \in Sessions
  BY DEF IInv, RSP!IInv, RSP!TypeOK, RSP!IsMap, RSP!ActiveRoom, RSP!MapsInto, RSP!SeatIn
<1>4. CASE UNCHANGED activeRooms
  BY <1>1, <1>2, <1>3, <1>4 DEF SeatsOwn, OwnInv, IdentityStays, RSP!SeatIn
<1>5. ASSUME NEW u \in Users, NEW s \in Sessions, RSP!SeatsFrom(u, s), identity[s].userId = u
      PROVE  SeatsOwn'
  <2>1. identity'[s].userId = u
    BY <1>1, <1>2, <1>5 DEF IdentityStays
  <2> SUFFICES ASSUME NEW q, NEW v, RSP!SeatIn(activeRooms', q, v)
               PROVE  identity'[activeRooms'[q].members[v]].userId = v
    BY DEF SeatsOwn, RSP!SeatIn
  <2>2. CASE v = u /\ activeRooms'[q].members[v] = s
    BY <2>1, <2>2
  <2>3. CASE /\ RSP!SeatIn(activeRooms, q, v)
             /\ activeRooms'[q].members[v] = activeRooms[q].members[v]
    BY <1>1, <1>2, <1>3, <2>3 DEF OwnInv, SeatsOwn, IdentityStays
  <2> QED
    BY <1>5, <2>2, <2>3 DEF RSP!SeatsFrom
<1>6. ASSUME NEW w \in Workers, Join(w) \/ Leave(w) \/ Create(w)
      PROVE  SeatsOwn'
  <2>1. /\ ctx[w].s \in Sessions /\ ctx[w].arg \in RoomNames /\ ctx[w].user \in Users
        /\ identity[ctx[w].s].userId = ctx[w].user
    BY <1>6, AtLabel DEF Join, Leave, Create, AtStep, Shape, WithArg, WithUser, PC, OwnInv, Mine
  <2>2. \/ RS!JoinRoom(ctx[w].user, ctx[w].s, ctx[w].arg, ctx[w].found)
        \/ RS!CreateRoom(ctx[w].user, ctx[w].s, ctx[w].arg, ctx[w].found)
        \/ RS!LeaveRoom(ctx[w].user, ctx[w].arg)
    BY <1>6 DEF Join, Leave, Create
  <2>3. RSP!SeatsFrom(ctx[w].user, ctx[w].s)
    BY <2>1, <2>2, SeatMoves
  <2> QED
    BY <1>5, <2>1, <2>3
<1>7. ASSUME NEW w \in Workers, Disconnect(w)
      PROVE  SeatsOwn'
  <2>1. PICK s, u : s = ctx[w].s /\ u = identity[s].userId
    OBVIOUS
  <2>2. s \in Sessions /\ SM!Authenticated(s)
    BY <1>7, <2>1, AtLabel, Zenon DEF Disconnect, AtStep, Holds
  <2>3. u \in Users
    BY <2>1, <2>2, IdentityType DEF IInv
  <2>4. RS!HandleDisconnect(u)
    BY <1>7, <2>1, Zenon DEF Disconnect
  <2>5. CASE RoomNames = {}
    <3>1. \A q, v : ~RSP!SeatIn(activeRooms', q, v)
      BY <2>5, NextIInv DEF IInv, RSP!IInv, RSP!TypeOK, RSP!IsMap, RSP!SeatIn
    <3> QED
      BY <3>1 DEF SeatsOwn, RSP!SeatIn
  <2>6. ASSUME NEW r \in RoomNames PROVE SeatsOwn'
    <3>1. RSP!SeatsFrom(u, s)
      BY <2>2, <2>3, <2>4, SeatMoves
    <3> QED
      BY <1>5, <2>1, <2>2, <2>3, <3>1
  <2> QED
    BY <2>5, <2>6
<1>8. ASSUME NEW w \in Workers, WorkerStep(w)
      PROVE  UNCHANGED activeRooms \/ Join(w) \/ Leave(w) \/ Create(w) \/ Disconnect(w)
  BY <1>8, Zenon DEF WorkerStep, registry, Take, LoginRefused, Login, SendReply, JoinLookup,
     CreateLookup, Insert, InsertFails, RS!AddRoom, RS!AddRoomUnacknowledged, RS!seating,
     InsertThrows, Snapshot, Deliver, HistoryCheck, HistoryId, HistoryRead, HistoryCrash,
     RoomName, RoomId, Store, StoreThrows, Target, PrivateFind, PrivateSend, RemoveSession
<1>9. ASSUME NEW s \in Sessions, Receive(s) \/ ReadError(s) \/ WriteError(s)
      PROVE  UNCHANGED activeRooms
  BY <1>9 DEF Receive, ReadError, WriteError, registry
<1>10. CASE UNCHANGED vars
  BY <1>4, <1>10 DEF vars, registry
<1> QED
  BY <1>4, <1>6, <1>7, <1>8, <1>9, <1>10 DEF Next

\* A step keeps the invariant if its thread goes on as the session's own.
LEMMA ByOwn ==
  ASSUME OneUserPerClient, IInv, OwnInv, [Next]_vars,
         NEW w \in Workers, NEW p, NEW c, Goto(w, p, c), Mine(p, c)
  PROVE  OwnInv'
<1>1. IdentityStays /\ \A s \in Sessions : identity'[s].userId \in LoginsOf(s) \cup {None}
  BY WhoStays
<1>2. IInv'
  BY NextIInv
<1>3. /\ pc'[w] = p /\ ctx'[w] = c
      /\ \A v \in Workers \ {w} : pc'[v] = pc[v] /\ ctx'[v] = ctx[v]
  BY DEF Goto, IInv, TypedThreads
<1>4. ASSUME NEW v \in Workers PROVE Mine(pc[v], ctx[v])'
  <2>1. PICK q, d : q = pc'[v] /\ d = ctx'[v]
    OBVIOUS
  <2>2. Mine(q, d)
    BY <1>3, <2>1 DEF OwnInv
  <2>3. d \in Context /\ Shape(q, d)
    BY <1>2, <2>1 DEF IInv, TypedThreads, Threads, Shape
  <2>4. \A u \in DOMAIN d.todo : d.todo[u] \in Sessions /\ u \in Users
    BY <2>3, MapsIntoIsMap DEF Context, IsMap
  <2>5. /\ q \notin {"idle", "dead"} => d.s \in Sessions
        /\ q \in WithUser => d.user \in Users
    BY <2>3 DEF Shape
  <2>6. Mine(q, d)'
    BY <1>1, <2>2, <2>4, <2>5, MineStays
  <2> QED
    BY <2>1, <2>6 DEF Mine
<1> QED
  BY <1>1, <1>4, TasksOwn, SeatsStayOwn DEF OwnInv

\* The same when no thread moves.
LEMMA OwnStands ==
  ASSUME OneUserPerClient, IInv, OwnInv, [Next]_vars, UNCHANGED <<pc, ctx, people>>
  PROVE  OwnInv'
<1>1. \A w \in Workers : Mine(pc[w], ctx[w])'
  BY DEF OwnInv, Mine, people
<1> QED
  BY <1>1, WhoStays, TasksOwn, SeatsStayOwn DEF OwnInv

\* A handler goes on for the session and the user it works for.
LEMMA OwnGoes ==
  ASSUME OneUserPerClient, IInv, OwnInv, [Next]_vars, NEW w \in Workers,
         pc[w] \notin {"idle", "dead", "disconnect", "remove"},
         NEW p \in {"join", "insert", "create", "history_id", "history_read", "id", "store",
                    "private_find", "private_echo", "reply"},
         NEW c, Goto(w, p, c), c.s = ctx[w].s, c.n = ctx[w].n, c.user = ctx[w].user,
         p = "reply" \/ pc[w] \in WithUser
  PROVE  OwnInv'
<1>1. Mine(p, c)
  BY DEF OwnInv, Mine, WithUser
<1> QED
  BY <1>1, ByOwn

\* A handler that comes to an end is nobody's.
LEMMA OwnEnds ==
  ASSUME OneUserPerClient, IInv, OwnInv, [Next]_vars, NEW w \in Workers,
         NEW p \in {"idle", "dead"}, Goto(w, p, NoTask)
  PROVE  OwnInv'
<1>1. Mine(p, NoTask)
  BY DEF Mine, WithUser
<1> QED
  BY <1>1, ByOwn

\* A task that is taken is its session's, and starts with the session's user.
LEMMA TakeOwn ==
  ASSUME OneUserPerClient, IInv, OwnInv, [Next]_vars, NEW w \in Workers, Take(w)
  PROVE  OwnInv'
<1>1. PICK t : t = Head(queue)
  OBVIOUS
<1>2. PICK c : c = Handler(t.s, t.n, t.req.arg, identity[t.s].userId)
  OBVIOUS
<1>3. c.s = t.s /\ c.n = t.n /\ c.arg = t.req.arg /\ c.user = identity[c.s].userId
  BY <1>2 DEF Handler
<1>4. UNCHANGED <<registry, people>>
  BY DEF Take
<1>5. /\ OwnTask(t)
      /\ t.req.op \in {"login", "join", "leave", "create", "history", "public", "private",
                       "disconnect"}
  <2>1. queue \in Seq(Task) /\ queue # <<>>
    BY DEF Take, IInv, TypedNet
  <2>2. t \in Task /\ 1 \in DOMAIN queue /\ t = queue[1]
    BY <1>1, <2>1
  <2> QED
    BY <2>2 DEF Task, Request, OwnInv
<1>6. PICK p : p = FirstStep[t.req.op]
  OBVIOUS
<1>7. t.req.op # "login" =>
        /\ p \in {"join_lookup", "leave", "create_lookup", "name", "private_room",
                  "history_check", "disconnect"}
        /\ p = "disconnect" <=> t.req.op = "disconnect"
  BY <1>5, <1>6 DEF FirstStep
<1>8. CASE t.req.op = "login" /\ Goto(w, "login", c)
  <2>1. Mine("login", c)
    BY <1>3, <1>5, <1>8 DEF Mine, OwnTask, WithUser
  <2> QED
    BY <1>8, <2>1, ByOwn
<1>9. CASE t.req.op # "login" /\ Goto(w, p, c)
  <2>1. Mine(p, c)
    BY <1>3, <1>5, <1>7, <1>9 DEF Mine, OwnTask
  <2> QED
    BY <1>9, <2>1, ByOwn
<1>10. CASE t.req.op = "disconnect" /\ Goto(w, "remove", c)
  <2>1. Mine("remove", c)
    BY <1>3, <1>5, <1>10 DEF Mine, OwnTask, WithUser
  <2> QED
    BY <1>10, <2>1, ByOwn
<1>11. CASE UNCHANGED <<pc, ctx>>
  BY <1>4, <1>11, OwnStands
<1> QED
  BY <1>1, <1>2, <1>6, <1>8, <1>9, <1>10, <1>11 DEF Take

\* What a handler of a request knows while it works.
LEMMA AtOwn ==
  ASSUME IInv, OwnInv, NEW w \in Workers
  PROVE  Mine(pc[w], ctx[w]) /\ ctx[w] \in Context
BY DEF IInv, TypedThreads, OwnInv

\* Logins, answers, lookups and inserts.
LEMMA LookupsOwn ==
  ASSUME OneUserPerClient, IInv, OwnInv, [Next]_vars, NEW w \in Workers,
         \/ LoginRefused(w) \/ Login(w) \/ SendReply(w) \/ JoinLookup(w) \/ CreateLookup(w)
         \/ Insert(w) \/ InsertFails(w) \/ InsertThrows(w) \/ Create(w)
  PROVE  OwnInv'
<1>1. pc[w] \in {"login", "reply", "join_lookup", "create_lookup", "insert", "create"}
  BY DEF LoginRefused, Login, SendReply, JoinLookup, CreateLookup, Insert, InsertFails,
         InsertThrows, Create, AtStep
<1>2. ctx[w] \in Context
  BY AtOwn
<1>3. PICK x, p :
        \/ Finish(w) \/ Goto(w, "dead", NoTask)
        \/ /\ p = "reply" \/ (p \in {"join", "insert", "create"} /\ pc[w] \notin {"login", "reply"})
           /\ Goto(w, p, ctx[w]) \/ Goto(w, p, [ctx[w] EXCEPT !.found = x])
  <2>1. CASE Login(w) \/ Create(w)
    <3>1. Goto(w, "reply", ctx[w])
      BY <2>1 DEF Login, Create
    <3> WITNESS None, "reply"
    <3> QED
      BY <3>1
  <2>2. CASE JoinLookup(w)
    BY <2>2 DEF JoinLookup, Answer, AtStep
  <2>3. CASE CreateLookup(w)
    BY <2>3 DEF CreateLookup, Answer, AtStep
  <2>4. CASE Insert(w)
    <3>1. PICK id : Goto(w, "create", [ctx[w] EXCEPT !.found = id])
      BY <2>4 DEF Insert
    <3> QED
      BY <2>4, <3>1 DEF Insert, AtStep
  <2>5. CASE LoginRefused(w) \/ SendReply(w) \/ InsertFails(w) \/ InsertThrows(w)
    BY <2>5 DEF LoginRefused, SendReply, InsertFails, InsertThrows, Answer, Throw
  <2> QED
    BY <2>1, <2>2, <2>3, <2>4, <2>5
<1>4. PICK c, d : c = [ctx[w] EXCEPT !.found = x] /\ d = ctx[w]
  OBVIOUS
<1>5. c.s = ctx[w].s /\ c.n = ctx[w].n /\ c.user = ctx[w].user
  BY <1>2, <1>4, Updates
<1>6. CASE Finish(w) \/ Goto(w, "dead", NoTask)
  BY <1>6, OwnEnds DEF Finish
<1>7. CASE /\ p = "reply" \/ (p \in {"join", "insert", "create"} /\ pc[w] \notin {"login", "reply"})
           /\ Goto(w, p, d) \/ Goto(w, p, c)
  <2>1. p = "reply" \/ pc[w] \in WithUser
    BY <1>1, <1>7 DEF WithUser, PC
  <2> QED
    BY <1>1, <1>4, <1>5, <1>7, <2>1, OwnGoes
<1> QED
  BY <1>3, <1>4, <1>6, <1>7

\* The notice of a JOIN or a LEAVE is about the handler's user.
LEMMA NoticesOwn ==
  ASSUME OneUserPerClient, IInv, OwnInv, [Next]_vars, NEW w \in Workers, Join(w) \/ Leave(w)
  PROVE  OwnInv'
<1>1. pc[w] \in {"join", "leave"} /\ pc[w] \in WithUser
  BY DEF Join, Leave, AtStep, WithUser, PC
<1>2. ctx[w] \in Context /\ Mine(pc[w], ctx[w])
  BY AtOwn
<1>3. PICK m : /\ m.re = <<ctx[w].s, ctx[w].n>> /\ m.user = ctx[w].user
               /\ Goto(w, "snapshot", [ctx[w] EXCEPT !.room = ctx[w].arg, !.msg = m])
  <2>1. \A e : Notice(w, e).re = <<ctx[w].s, ctx[w].n>> /\ Notice(w, e).user = ctx[w].user
    BY DEF Notice, Re
  <2> QED
    BY <2>1 DEF Join, Leave, Broadcast
<1>4. PICK c : c = [ctx[w] EXCEPT !.room = ctx[w].arg, !.msg = m]
  OBVIOUS
<1>5. c.s = ctx[w].s /\ c.n = ctx[w].n /\ c.user = ctx[w].user /\ c.msg = m
  BY <1>2, <1>4, Updates
<1>6. Mine("snapshot", c)
  BY <1>1, <1>2, <1>3, <1>5 DEF Mine
<1> QED
  BY <1>3, <1>4, <1>6, ByOwn

\* The sessions a broadcast is sent to are those of the users it is for.
LEMMA BroadcastOwn ==
  ASSUME OneUserPerClient, IInv, OwnInv, [Next]_vars, NEW w \in Workers, Snapshot(w) \/ Deliver(w)
  PROVE  OwnInv'
<1>1. pc[w] \in {"snapshot", "deliver"} /\ pc[w] \in WithUser
  <2>1. pc[w] \in {"snapshot", "deliver"}
    BY Zenon DEF Snapshot, Deliver, AtStep
  <2> QED
    BY <2>1 DEF WithUser, PC
<1>2. ctx[w] \in Context /\ Mine(pc[w], ctx[w])
  BY AtOwn
<1>3. PICK todo : \/ /\ Goto(w, "deliver", [ctx[w] EXCEPT !.todo = todo])
                     /\ \/ Snapshot(w) /\ todo = RS!Recipients(ctx[w].room, Excluded(w))
                        \/ Deliver(w) /\ \E u : todo = Erase(ctx[w].todo, u)
                  \/ Goto(w, "reply", [ctx[w] EXCEPT !.todo = todo])
                  \/ Goto(w, "reply", ctx[w]) \/ Finish(w)
  BY DEF Snapshot, Deliver
<1>4. PICK c, d : c = [ctx[w] EXCEPT !.todo = todo] /\ d = ctx[w]
  OBVIOUS
<1>5. /\ c.s = ctx[w].s /\ c.n = ctx[w].n /\ c.user = ctx[w].user
      /\ c.msg = ctx[w].msg /\ c.todo = todo
  BY <1>2, <1>4, Updates
<1>6. ASSUME Snapshot(w), todo = RS!Recipients(ctx[w].room, Excluded(w))
      PROVE  /\ \A v \in DOMAIN todo : identity[todo[v]].userId = v
             /\ ctx[w].msg.kind # "message" => ctx[w].user \notin DOMAIN todo
  <2>1. \A v \in DOMAIN todo : /\ RSP!SeatIn(activeRooms, ctx[w].room, v)
                               /\ todo[v] = activeRooms[ctx[w].room].members[v]
                               /\ v \notin Excluded(w)
    BY <1>6 DEF RS!Recipients, RS!Restrict, RS!NoEntries, RSP!SeatIn
  <2> QED
    BY <2>1 DEF OwnInv, SeatsOwn, Excluded
<1>7. ASSUME Deliver(w), NEW u, todo = Erase(ctx[w].todo, u)
      PROVE  /\ \A v \in DOMAIN todo : identity[todo[v]].userId = v
             /\ ctx[w].msg.kind # "message" => ctx[w].user \notin DOMAIN todo
  <2>1. pc[w] = "deliver"
    BY <1>7 DEF Deliver, AtStep
  <2>2. \A v \in DOMAIN todo : v \in DOMAIN ctx[w].todo /\ todo[v] = ctx[w].todo[v]
    BY <1>7 DEF Erase, Restrict
  <2>3. \A v \in DOMAIN todo : identity[todo[v]].userId = v
    BY <1>2, <2>1, <2>2 DEF Mine
  <2>4. ctx[w].msg.kind # "message" => ctx[w].user \notin DOMAIN todo
    BY <1>2, <2>1, <2>2 DEF Mine
  <2> QED
    BY <2>3, <2>4
<1>8. CASE /\ Goto(w, "deliver", c)
           /\ \/ Snapshot(w) /\ todo = RS!Recipients(ctx[w].room, Excluded(w))
              \/ Deliver(w) /\ \E u : todo = Erase(ctx[w].todo, u)
  <2>1. /\ \A v \in DOMAIN todo : identity[todo[v]].userId = v
        /\ ctx[w].msg.kind # "message" => ctx[w].user \notin DOMAIN todo
    BY <1>6, <1>7, <1>8
  <2>2. Mine("deliver", c)
    BY <1>1, <1>2, <1>5, <2>1 DEF Mine
  <2> QED
    BY <1>8, <2>2, ByOwn
<1>9. CASE Goto(w, "reply", c) \/ Goto(w, "reply", d)
  BY <1>1, <1>4, <1>5, <1>9, OwnGoes
<1>10. CASE Finish(w)
  BY <1>10, OwnEnds DEF Finish
<1> QED
  BY <1>3, <1>4, <1>8, <1>9, <1>10

\* History requests and messages to the room.
LEMMA MessagesOwn ==
  ASSUME OneUserPerClient, IInv, OwnInv, [Next]_vars, NEW w \in Workers,
         \/ HistoryCheck(w) \/ HistoryId(w) \/ HistoryRead(w) \/ HistoryCrash(w)
         \/ RoomName(w) \/ RoomId(w) \/ StoreThrows(w)
  PROVE  OwnInv'
<1>1. /\ pc[w] \in {"history_check", "history_id", "history_read", "name", "private_room", "id",
                    "store"}
      /\ pc[w] \in WithUser
  BY DEF HistoryCheck, HistoryId, HistoryRead, HistoryCrash, RoomName, RoomId, StoreThrows,
         AtStep, WithUser, PC
<1>2. ctx[w] \in Context
  BY AtOwn
<1>3. PICK x, p :
        \/ Finish(w) \/ Goto(w, "dead", NoTask)
        \/ Goto(w, "history_id", ctx[w])
        \/ /\ p \in {"history_read", "id", "store", "private_find"}
           /\ \/ Goto(w, p, [ctx[w] EXCEPT !.found = x])
              \/ Goto(w, p, [ctx[w] EXCEPT !.room = x])
  <2>1. HistoryId(w) => \E x : Goto(w, "history_read", [ctx[w] EXCEPT !.found = x])
    BY DEF HistoryId
  <2>2. RoomName(w) => Finish(w) \/ \E x : \E p \in {"id", "private_find"} :
                                       Goto(w, p, [ctx[w] EXCEPT !.room = x])
    <3>1. PICK x : x = RS!CurrentRoomName(ctx[w].user, None)
      OBVIOUS
    <3>2. PICK p \in {"id", "private_find"} : p = IF pc[w] = "name" THEN "id" ELSE "private_find"
      OBVIOUS
    <3>3. RoomName(w) => Finish(w) \/ Goto(w, p, [ctx[w] EXCEPT !.room = x])
      BY <3>1, <3>2 DEF RoomName, Answer
    <3> QED
      BY <3>3
  <2>3. RoomId(w) => \E x : Goto(w, "store", [ctx[w] EXCEPT !.found = x])
    BY DEF RoomId
  <2>4. HistoryCheck(w) \/ HistoryRead(w) \/ HistoryCrash(w) \/ StoreThrows(w) =>
          Finish(w) \/ Goto(w, "dead", NoTask) \/ Goto(w, "history_id", ctx[w])
    BY DEF HistoryCheck, HistoryRead, HistoryCrash, StoreThrows, Answer, Throw
  <2>5. CASE HistoryId(w)
    BY <2>1, <2>5
  <2>6. CASE RoomName(w)
    BY <2>2, <2>6
  <2>7. CASE RoomId(w)
    BY <2>3, <2>7
  <2>8. CASE HistoryCheck(w) \/ HistoryRead(w) \/ HistoryCrash(w) \/ StoreThrows(w)
    BY <2>4, <2>8
  <2> QED
    BY <2>5, <2>6, <2>7, <2>8
<1>4. PICK c, d, e : /\ c = [ctx[w] EXCEPT !.found = x] /\ d = [ctx[w] EXCEPT !.room = x]
                     /\ e = ctx[w]
  OBVIOUS
<1>5. /\ c.s = ctx[w].s /\ c.n = ctx[w].n /\ c.user = ctx[w].user
      /\ d.s = ctx[w].s /\ d.n = ctx[w].n /\ d.user = ctx[w].user
  BY <1>2, <1>4, Updates
<1>6. CASE Finish(w) \/ Goto(w, "dead", NoTask)
  BY <1>6, OwnEnds DEF Finish
<1>7. CASE \/ Goto(w, "history_id", e)
           \/ /\ p \in {"history_read", "id", "store", "private_find"}
              /\ Goto(w, p, c) \/ Goto(w, p, d)
  BY <1>1, <1>4, <1>5, <1>7, OwnGoes
<1> QED
  BY <1>3, <1>4, <1>6, <1>7

\* A message carries the key of its request, when it is stored and when the room
\* to send it to is read.
LEMMA StoresOwn ==
  ASSUME OneUserPerClient, IInv, OwnInv, [Next]_vars, NEW w \in Workers, Store(w) \/ Target(w)
  PROVE  OwnInv'
<1>1. pc[w] \in {"store", "target"} /\ pc[w] \in WithUser
  BY DEF Store, Target, AtStep, WithUser, PC
<1>2. ctx[w] \in Context /\ Mine(pc[w], ctx[w])
  BY AtOwn
<1>3. CASE Store(w)
  <2>1. PICK m : m = MessageOf(w)
    OBVIOUS
  <2>2. m.re = <<ctx[w].s, ctx[w].n>>
    BY <2>1 DEF MessageOf, Re
  <2>3. PICK c : c = [ctx[w] EXCEPT !.msg = m]
    OBVIOUS
  <2>4. c.s = ctx[w].s /\ c.n = ctx[w].n /\ c.user = ctx[w].user /\ c.msg = m
    BY <1>2, <2>3, Updates
  <2>5. Mine("target", c)
    BY <1>1, <1>2, <2>2, <2>4 DEF Mine
  <2>6. Goto(w, "target", c)
    BY <1>3, <2>1, <2>3 DEF Store
  <2> QED
    BY <2>5, <2>6, ByOwn
<1>4. CASE Target(w)
  <2>1. PICK r : r = RS!CurrentRoomName(identity[ctx[w].s].userId, None)
    OBVIOUS
  <2>2. PICK m : m = [ctx[w].msg EXCEPT !.to = r]
    OBVIOUS
  <2>3. ctx[w].msg \in Messages /\ pc[w] = "target"
    BY <1>4, AtLabel DEF Target, AtStep, Shape
  <2>4. m.re = ctx[w].msg.re /\ m.kind = "message"
    BY <2>2, <2>3 DEF Messages
  <2>5. PICK c : c = [ctx[w] EXCEPT !.room = r, !.msg = m]
    OBVIOUS
  <2>6. c.s = ctx[w].s /\ c.n = ctx[w].n /\ c.user = ctx[w].user /\ c.msg = m
    BY <1>2, <2>5, Updates
  <2>7. Mine("snapshot", c)
    BY <1>1, <1>2, <2>3, <2>4, <2>6 DEF Mine
  <2>8. Goto(w, "snapshot", c)
    BY <1>4, <2>1, <2>2, <2>5 DEF Target, Broadcast
  <2> QED
    BY <2>7, <2>8, ByOwn
<1> QED
  BY <1>3, <1>4

\* A private message is for another session, and a disconnect removes its own.
LEMMA OthersOwn ==
  ASSUME OneUserPerClient, IInv, OwnInv, [Next]_vars, NEW w \in Workers,
         PrivateFind(w) \/ PrivateSend(w) \/ Disconnect(w) \/ RemoveSession(w)
  PROVE  OwnInv'
<1>1. ctx[w] \in Context /\ Mine(pc[w], ctx[w])
  BY AtOwn
<1>2. CASE PrivateFind(w)
  <2>1. PICK t : t = SM!FindByUsername(ctx[w].arg, None)
    OBVIOUS
  <2>2. PICK c : c = [ctx[w] EXCEPT !.found = t]
    OBVIOUS
  <2>3. /\ c.s = ctx[w].s /\ c.n = ctx[w].n /\ c.user = ctx[w].user /\ c.found = t
    BY <1>1, <2>2, Updates
  <2>4. pc[w] = "private_find" /\ pc[w] \in WithUser
    BY <1>2 DEF PrivateFind, AtStep, WithUser, PC
  <2>5. Finish(w) \/ (Goto(w, "private_send", c) /\ identity[t].userId # ctx[w].user)
    BY <1>2, <2>1, <2>2 DEF PrivateFind, Answer
  <2>6. CASE Goto(w, "private_send", c) /\ identity[t].userId # ctx[w].user
    <3>1. t # ctx[w].s
      BY <1>1, <2>4, <2>6 DEF Mine
    <3>2. Mine("private_send", c)
      BY <1>1, <2>3, <2>4, <3>1 DEF Mine
    <3> QED
      BY <2>6, <3>2, ByOwn
  <2>7. CASE Finish(w)
    BY <2>7, OwnEnds DEF Finish
  <2> QED
    BY <2>5, <2>6, <2>7
<1>3. CASE PrivateSend(w)
  <2>1. pc[w] \in {"private_send", "private_echo"} /\ pc[w] \in WithUser
    BY <1>3 DEF PrivateSend, AtStep, WithUser, PC
  <2>2. PICK c : c = ctx[w]
    OBVIOUS
  <2>3. Goto(w, "private_echo", c) \/ Finish(w)
    BY <1>3, <2>2 DEF PrivateSend, Answer
  <2>4. CASE Goto(w, "private_echo", c)
    BY <2>1, <2>2, <2>4, OwnGoes
  <2>5. CASE Finish(w)
    BY <2>5, OwnEnds DEF Finish
  <2> QED
    BY <2>3, <2>4, <2>5
<1>4. CASE Disconnect(w)
  <2>1. pc[w] = "disconnect"
    BY <1>4, Zenon DEF Disconnect, AtStep
  <2>2. PICK c : c = ctx[w]
    OBVIOUS
  <2>3. Goto(w, "remove", c)
    BY <1>4, <2>2, Zenon DEF Disconnect
  <2>4. Mine("remove", c)
    BY <1>1, <2>1, <2>2 DEF Mine, WithUser
  <2> QED
    BY <2>3, <2>4, ByOwn
<1>5. CASE RemoveSession(w)
  <2>1. Goto(w, "idle", NoTask)
    BY <1>5 DEF RemoveSession, Finish
  <2> QED
    BY <2>1, OwnEnds
<1> QED
  BY <1>2, <1>3, <1>4, <1>5

\* Clients that log in as one user each keep their seats and their handlers.
LEMMA OwnKept ==
  ASSUME OneUserPerClient, IInv, OwnInv, [Next]_vars
  PROVE  OwnInv'
<1>1. CASE UNCHANGED vars
  BY <1>1, OwnStands DEF vars
<1>2. ASSUME NEW s \in Sessions, Receive(s) \/ ReadError(s) \/ WriteError(s)
      PROVE  OwnInv'
  <2>1. UNCHANGED <<pc, ctx, people>>
    BY <1>2 DEF Receive, ReadError, WriteError
  <2> QED
    BY <2>1, OwnStands
<1>3. ASSUME NEW w \in Workers, WorkerStep(w)
      PROVE  OwnInv'
  BY <1>3, TakeOwn, LookupsOwn, NoticesOwn, BroadcastOwn, MessagesOwn, StoresOwn, OthersOwn
     DEF WorkerStep
<1> QED
  BY <1>1, <1>2, <1>3 DEF Next

\* A task is its session's client's own request, so every seat is on a session of
\* its user and every answer goes where the request came from.
LEMMA Own == OneUserPerClient => (Spec => []OwnInv)
<1> SUFFICES ASSUME OneUserPerClient PROVE Spec => []OwnInv
  OBVIOUS
<1>1. Init => OwnInv
  <2> SUFFICES ASSUME Init PROVE OwnInv
    OBVIOUS
  <2>1. \A s \in Sessions : identity[s].userId = None
    BY DEF Init, SM!Init, SM!Anonymous
  <2>2. SeatsOwn
    BY DEF Init, RS!Init, RS!NoEntries, SeatsOwn, RSP!SeatIn
  <2> QED
    BY <2>1, <2>2 DEF Init, OwnInv, Mine, WithUser
<1>2. IInv /\ OwnInv /\ [Next]_vars => OwnInv'
  BY OwnKept
<1> QED
  BY <1>1, <1>2, Invariance, PTL DEF Spec

-----------------------------------------------------------------------------
(* What a handler does, whichever it is.                                   *)

Idles(p) == p \in {"idle", "dead"}

\* The thread ends its handler, or goes on with it at p.
GoesOn(w, p) ==
  \/ \E q \in {"idle", "dead"} : Goto(w, q, NoTask)
  \/ \E x, y : \E c \in {ctx[w], [ctx[w] EXCEPT !.found = x], [ctx[w] EXCEPT !.room = x],
                         [ctx[w] EXCEPT !.msg = x], [ctx[w] EXCEPT !.todo = x],
                         [ctx[w] EXCEPT !.room = y, !.msg = x]} : Goto(w, p, c)

\* A thread goes on with its task or ends it; the queue and the network have
\* nothing to do with it.
LEMMA Proceeds ==
  ASSUME IInv, NEW w \in Workers, WorkerStep(w), ~Take(w)
  PROVE  /\ UNCHANGED <<queue, net>>
         /\ ~Idles(pc[w])
         /\ \A v \in Workers \ {w} : pc'[v] = pc[v] /\ ctx'[v] = ctx[v]
         /\ \/ Idles(pc'[w])
            \/ /\ ~Idles(pc'[w]) /\ pc'[w] # "login"
               /\ pc'[w] = "remove" => pc[w] = "disconnect"
               /\ ctx'[w].s = ctx[w].s /\ ctx'[w].n = ctx[w].n
<1>1. UNCHANGED <<queue, net>>
  BY Zenon DEF WorkerStep, LoginRefused, Login, SendReply, JoinLookup, Join, Leave,
     CreateLookup, Insert, InsertFails, InsertThrows, Create, Snapshot, Deliver, HistoryCheck,
     HistoryId, HistoryRead, HistoryCrash, RoomName, RoomId, Store, StoreThrows, Target,
     PrivateFind, PrivateSend, Disconnect, RemoveSession
<1>2. ~Idles(pc[w])
  BY Zenon DEF Idles, WorkerStep, AtStep, LoginRefused, Login, SendReply, JoinLookup, Join, Leave,
     CreateLookup, Insert, InsertFails, InsertThrows, Create, Snapshot, Deliver, HistoryCheck,
     HistoryId, HistoryRead, HistoryCrash, RoomName, RoomId, Store, StoreThrows, Target,
     PrivateFind, PrivateSend, Disconnect, RemoveSession
<1>3. pc \in [Workers -> PC] /\ ctx \in [Workers -> Context]
  BY DEF IInv, TypedThreads
<1>4. ASSUME NEW p, NEW c, Goto(w, p, c)
      PROVE  /\ pc'[w] = p /\ ctx'[w] = c
             /\ \A v \in Workers \ {w} : pc'[v] = pc[v] /\ ctx'[v] = ctx[v]
  BY <1>3, <1>4 DEF Goto
<1>5. PICK p : /\ p \notin {"idle", "dead", "login"}
               /\ p = "remove" => pc[w] = "disconnect"
               /\ GoesOn(w, p)
  <2>1. CASE LoginRefused(w) \/ Login(w) \/ SendReply(w)
    <3>1. GoesOn(w, "reply")
      BY <2>1, Zenon DEF LoginRefused, Login, SendReply, Answer, Finish, GoesOn
    <3> QED
      BY <3>1
  <2>2. CASE JoinLookup(w)
    <3>1. GoesOn(w, "join")
      BY <2>2, Zenon DEF JoinLookup, Answer, Finish, GoesOn
    <3> QED
      BY <3>1
  <2>3. CASE Join(w) \/ Leave(w) \/ Target(w)
    <3>1. GoesOn(w, "snapshot")
      BY <2>3, Zenon DEF Join, Leave, Target, Broadcast, GoesOn
    <3> QED
      BY <3>1
  <2>4. CASE CreateLookup(w)
    <3>1. GoesOn(w, "insert")
      BY <2>4, Zenon DEF CreateLookup, Answer, Finish, GoesOn
    <3> QED
      BY <3>1
  <2>5. CASE Insert(w) \/ InsertFails(w) \/ InsertThrows(w)
    <3>1. GoesOn(w, "create")
      BY <2>5, Zenon DEF Insert, InsertFails, InsertThrows, Answer, Finish, Throw, GoesOn
    <3> QED
      BY <3>1
  <2>6. CASE Create(w)
    <3>1. GoesOn(w, "reply")
      BY <2>6, Zenon DEF Create, GoesOn
    <3> QED
      BY <3>1
  <2>7. CASE Snapshot(w) \/ Deliver(w)
    <3>1. GoesOn(w, "deliver") \/ GoesOn(w, "reply")
      BY <2>7, Zenon DEF Snapshot, Deliver, Finish, GoesOn
    <3> QED
      BY <3>1
  <2>8. CASE HistoryCheck(w) \/ HistoryId(w) \/ HistoryRead(w) \/ HistoryCrash(w)
    <3>1. GoesOn(w, "history_id") \/ GoesOn(w, "history_read")
      BY <2>8, Zenon DEF HistoryCheck, HistoryId, HistoryRead, HistoryCrash, Answer, Finish, GoesOn
    <3> QED
      BY <3>1
  <2>9. CASE RoomName(w)
    <3>1. GoesOn(w, "id") \/ GoesOn(w, "private_find")
      <4>1. PICK r, q : /\ r = RS!CurrentRoomName(ctx[w].user, None)
                        /\ q = IF pc[w] = "name" THEN "id" ELSE "private_find"
        OBVIOUS
      <4>2. Finish(w) \/ Goto(w, q, [ctx[w] EXCEPT !.room = r])
        BY <2>9, <4>1 DEF RoomName, Answer
      <4>3. GoesOn(w, q)
        BY <4>2, Zenon DEF Finish, GoesOn
      <4> QED
        BY <4>1, <4>3
    <3> QED
      BY <3>1
  <2>10. CASE RoomId(w) \/ Store(w) \/ StoreThrows(w)
    <3>1. GoesOn(w, "store") \/ GoesOn(w, "target")
      BY <2>10, Zenon DEF RoomId, Store, StoreThrows, Throw, GoesOn
    <3> QED
      BY <3>1
  <2>11. CASE PrivateFind(w) \/ PrivateSend(w)
    <3>1. GoesOn(w, "private_send") \/ GoesOn(w, "private_echo")
      BY <2>11, Zenon DEF PrivateFind, PrivateSend, Answer, Finish, GoesOn
    <3> QED
      BY <3>1
  <2>12. CASE Disconnect(w) \/ RemoveSession(w)
    <3>1. GoesOn(w, "remove") /\ (pc[w] = "disconnect" \/ Finish(w))
      BY <2>12, Zenon DEF Disconnect, RemoveSession, AtStep, Finish, GoesOn
    <3>2. Finish(w) => GoesOn(w, "reply")
      BY DEF Finish, GoesOn
    <3> QED
      BY <3>1, <3>2
  <2> QED
    BY <2>1, <2>2, <2>3, <2>4, <2>5, <2>6, <2>7, <2>8, <2>9, <2>10, <2>11, <2>12 DEF WorkerStep
<1>6. CASE \E q \in {"idle", "dead"} : Goto(w, q, NoTask)
  BY <1>1, <1>2, <1>4, <1>6 DEF Idles
<1>7. CASE \E x, y : \E c \in {ctx[w], [ctx[w] EXCEPT !.found = x], [ctx[w] EXCEPT !.room = x],
                         [ctx[w] EXCEPT !.msg = x], [ctx[w] EXCEPT !.todo = x],
                         [ctx[w] EXCEPT !.room = y, !.msg = x]} : Goto(w, p, c)
  <2>1. PICK x, y : \E c \in {ctx[w], [ctx[w] EXCEPT !.found = x], [ctx[w] EXCEPT !.room = x],
                         [ctx[w] EXCEPT !.msg = x], [ctx[w] EXCEPT !.todo = x],
                         [ctx[w] EXCEPT !.room = y, !.msg = x]} : Goto(w, p, c)
    BY <1>7
  <2>2. \A d \in {ctx[w], [ctx[w] EXCEPT !.found = x], [ctx[w] EXCEPT !.room = x],
                  [ctx[w] EXCEPT !.msg = x], [ctx[w] EXCEPT !.todo = x],
                  [ctx[w] EXCEPT !.room = y, !.msg = x]} : d.s = ctx[w].s /\ d.n = ctx[w].n
    <3>1. PICK c : c = ctx[w]
      OBVIOUS
    <3>2. c \in Context
      BY <1>3, <3>1
    <3>3. \A d \in {c, [c EXCEPT !.found = x], [c EXCEPT !.room = x], [c EXCEPT !.msg = x],
                    [c EXCEPT !.todo = x], [c EXCEPT !.room = y, !.msg = x]} :
            d.s = c.s /\ d.n = c.n
      BY <3>2 DEF Context
    <3> QED
      BY <3>1, <3>3, Zenon
  <2>3. PICK c : Goto(w, p, c) /\ c.s = ctx[w].s /\ c.n = ctx[w].n
    BY <2>1, <2>2, Zenon
  <2> QED
    BY <1>1, <1>2, <1>4, <1>5, <2>3 DEF Idles
<1> QED
  BY <1>5, <1>6, <1>7 DEF GoesOn

-----------------------------------------------------------------------------
(* What a session is sent in answer to its own requests.                   *)

\* One more element.
LEMMA AppendAsConcat ==
  ASSUME NEW S, NEW q \in Seq(S), NEW m
  PROVE  q \o [i \in 1..1 |-> m] = Append(q, m)
<1>1. PICK T : T = S \cup {m}
  OBVIOUS
<1>2. PICK x : x = [i \in 1..1 |-> m]
  OBVIOUS
<1>3. q \in Seq(T) /\ m \in T /\ x \in Seq(T) /\ Len(x) = 1 /\ x[1] = m
  BY <1>1, <1>2
<1>4. q \o x = Append(q, m)
  <2>1. PICK y, z : y = q \o x /\ z = Append(q, m)
    OBVIOUS
  <2>2. /\ z \in Seq(T) /\ Len(z) = Len(q) + 1 /\ z[Len(q) + 1] = m
        /\ \A i \in 1..Len(q) : z[i] = q[i]
    BY <1>3, <2>1
  <2>3. y \in Seq(T) /\ Len(y) = Len(q) + 1
    <3>1. q \o x \in Seq(T) /\ Len(q \o x) = Len(q) + Len(x)
      BY <1>3, ConcatProperties
    <3> QED
      BY <1>3, <2>1, <3>1
  <2>4. \A i \in 1..Len(q) : y[i] = q[i]
    BY <1>3, <2>1, ConcatProperties
  <2>5. y[Len(q) + 1] = m
    <3>1. Len(q) \in Nat
      BY <1>3
    <3>2. (q \o x)[Len(q) + 1] = x[(Len(q) + 1) - Len(q)]
      <4>1. Len(x) = 1 /\ Len(q) + 1 \in 1..(Len(q) + Len(x)) /\ ~(Len(q) + 1 <= Len(q))
        BY <1>3, <3>1
      <4> QED
        BY <1>3, <4>1, ConcatProperties
    <3> QED
      BY <1>3, <2>1, <3>1, <3>2
  <2>6. y = z
    <3>1. Len(q) \in Nat /\ \A i \in 1..(Len(q) + 1) : y[i] = z[i]
      BY <1>3, <2>2, <2>4, <2>5
    <3> QED
      BY <2>2, <2>3, <3>1
  <2> QED
    BY <2>1, <2>6
<1> QED
  BY <1>2, <1>4

\* A disconnect tells each other session in the room once, and its own nothing.
LEMMA DisconnectSends ==
  ASSUME IInv, OwnInv, NEW w \in Workers, Disconnect(w), NEW t \in Sessions,
         NEW u, NEW r, NEW told, NEW m,
         u = identity[ctx[w].s].userId, r = RS!CurrentRoomName(u, None),
         told = RS!Recipients(r, {u}),
         m = [kind |-> "left", re |-> Re(w), user |-> u, room |-> r]
  PROVE  \/ outbox'[t] = outbox[t] /\ t \notin Range(told)
         \/ t # ctx[w].s /\ t \in Range(told) /\ outbox'[t] = Append(outbox[t], m)
<1>1. outbox[t] \in Seq(Envelope)
  BY DEF IInv, TypedNet
<1>2. PICK S : S = {v \in DOMAIN told : told[v] = t}
  OBVIOUS
<1>3. outbox'[t] = outbox[t] \o [i \in 1..Cardinality(S) |-> m]
  BY <1>2, Zenon DEF Disconnect
<1>4. \A v \in DOMAIN told : v # u /\ identity[told[v]].userId = v
  BY Zenon DEF RS!Recipients, RS!Restrict, RS!NoEntries, OwnInv, SeatsOwn, RSP!SeatIn
<1>5. CASE S = {}
  <2>1. Cardinality(S) = 0
    BY <1>5, FS_EmptySet
  <2>2. outbox'[t] = outbox[t]
    BY <1>1, <1>3, <2>1
  <2>3. outbox'[t] = outbox[t] /\ t \notin Range(told)
    BY <1>2, <1>5, <2>2 DEF Range
  <2> QED
    BY <2>3
<1>6. CASE S # {}
  <2>1. PICK v : v \in DOMAIN told /\ told[v] = t
    BY <1>2, <1>6
  <2>2. \A x : x \in S <=> x = v
    <3>1. v \in S
      BY <1>2, <2>1
    <3>2. ASSUME NEW x \in S PROVE x = v
      <4>1. x \in DOMAIN told /\ told[x] = t
        BY <1>2
      <4>2. identity[t].userId = x
        BY <1>4, <4>1
      <4>3. identity[t].userId = v
        BY <1>4, <2>1
      <4> QED
        BY <4>2, <4>3
    <3> QED
      BY <3>1, <3>2
  <2>3. Cardinality(S) = 1
    <3>1. S = {v}
      BY <2>2
    <3> QED
      BY <3>1, FS_Singleton
  <2>4. outbox'[t] = outbox[t] \o [i \in 1..1 |-> m]
    BY <1>3, <2>3
  <2>5. outbox'[t] = Append(outbox[t], m)
    BY <1>1, <2>4, AppendAsConcat
  <2>6. t # ctx[w].s
    BY <1>4, <2>1
  <2>7. t \in Range(told)
    BY <2>1 DEF Range
  <2> QED
    BY <2>5, <2>6, <2>7
<1> QED
  BY <1>5, <1>6

\* A handler that has told its own session all it will be told, and goes on to
\* tell others.
Told(p, c) ==
  p = "deliver" /\ c.msg.kind = "message" /\ \A v \in DOMAIN c.todo : c.todo[v] # c.s

\* What w sends to t.  In answer to a request it is the last thing.
Sends(w, t) ==
  \/ outbox'[t] = outbox[t]
  \/ \E e \in Envelope :
       /\ outbox'[t] = Append(outbox[t], e)
       /\ e.re[1] = t =>
            /\ e.re = Re(w) /\ ctx[w].s = t /\ ctx[w].n # 0
            /\ ~Told(pc[w], ctx[w])
            /\ Idles(pc'[w]) \/ Told(pc'[w], ctx'[w])

\* One envelope is sent, and not in answer to a request of the session it is for.
LEMMA SendsOther ==
  ASSUME IInv, NEW w \in Workers, NEW s, NEW e \in Envelope,
         outbox' = [outbox EXCEPT ![s] = Append(@, e)], e.re[1] # s
  PROVE  \A t \in Sessions : Sends(w, t)
<1> SUFFICES ASSUME NEW t \in Sessions PROVE Sends(w, t)
  OBVIOUS
<1>1. outbox'[t] = outbox[t] \/ (t = s /\ outbox'[t] = Append(outbox[t], e))
  BY DEF IInv, TypedNet
<1> QED
  BY <1>1 DEF Sends

\* A handler of a request answers and returns.
LEMMA SendsAnswer ==
  ASSUME IInv, OwnInv, NEW w \in Workers, pc[w] \notin {"deliver", "disconnect", "remove"},
         ~Idles(pc[w]), NEW m \in Envelope, m.re = Re(w), Answer(w, m)
  PROVE  \A t \in Sessions : Sends(w, t)
<1> SUFFICES ASSUME NEW t \in Sessions PROVE Sends(w, t)
  OBVIOUS
<1>1. \/ outbox'[t] = outbox[t]
      \/ t = ctx[w].s /\ outbox'[t] = Append(outbox[t], m)
  BY DEF IInv, TypedNet, Answer
<1>2. Idles(pc'[w])
  BY DEF Answer, Finish, Goto, IInv, TypedThreads, Idles
<1>3. ctx[w].n # 0 /\ ~Told(pc[w], ctx[w])
  BY DEF OwnInv, Mine, Idles, Told
<1> QED
  BY <1>1, <1>2, <1>3 DEF Sends

\* A session is told by its own handler once.
LEMMA DeliverSends ==
  ASSUME IInv, OwnInv, NEW w \in Workers, Deliver(w)
  PROVE  /\ \A t \in Sessions : Sends(w, t)
         /\ Told(pc[w], ctx[w]) => Idles(pc'[w]) \/ Told(pc'[w], ctx'[w])
<1>1. /\ pc[w] = "deliver" /\ ctx[w] \in Context /\ Mine("deliver", ctx[w])
      /\ ctx[w].msg \in Messages \cup Notices
  BY AtOwn, AtLabel DEF Deliver, AtStep, Shape
<1>2. PICK u, rest :
        /\ u \in DOMAIN ctx[w].todo /\ rest = Erase(ctx[w].todo, u)
        /\ outbox' = [outbox EXCEPT ![ctx[w].todo[u]] = Append(@, ctx[w].msg)]
        /\ \/ Goto(w, "deliver", [ctx[w] EXCEPT !.todo = rest])
           \/ ctx[w].msg.kind = "message" /\ Finish(w)
           \/ ctx[w].msg.kind # "message" /\ Goto(w, "reply", [ctx[w] EXCEPT !.todo = rest])
  BY DEF Deliver
<1>3. PICK c : c = [ctx[w] EXCEPT !.todo = rest]
  OBVIOUS
<1>4. c.s = ctx[w].s /\ c.msg = ctx[w].msg /\ c.todo = rest
  BY <1>1, <1>3, Updates
<1>5. \A v \in DOMAIN rest : v # u /\ v \in DOMAIN ctx[w].todo /\ rest[v] = ctx[w].todo[v]
  BY <1>2 DEF Erase, Restrict
<1>6. \A p, d : Goto(w, p, d) => pc'[w] = p /\ ctx'[w] = d
  BY DEF Goto, IInv, TypedThreads
<1>7. Told(pc[w], ctx[w]) => Idles(pc'[w]) \/ Told(pc'[w], ctx'[w])
  <2> SUFFICES ASSUME Told(pc[w], ctx[w]) PROVE Idles(pc'[w]) \/ Told(pc'[w], ctx'[w])
    OBVIOUS
  <2>1. Told("deliver", c)
    BY <1>4, <1>5 DEF Told
  <2>2. ctx[w].msg.kind = "message"
    BY DEF Told
  <2>3. Goto(w, "deliver", c) \/ Finish(w)
    BY <1>2, <1>3, <2>2
  <2> QED
    BY <1>6, <2>1, <2>3 DEF Finish, Idles
<1>8. ASSUME NEW t \in Sessions PROVE Sends(w, t)
  <2>1. PICK e : e = ctx[w].msg
    OBVIOUS
  <2>2. e \in Envelope /\ e.re = Re(w)
    BY <1>1, <2>1 DEF Mine, Re, Messages, Notices, Envelope
  <2>3. \/ outbox'[t] = outbox[t]
        \/ t = ctx[w].todo[u] /\ outbox'[t] = Append(outbox[t], e)
    BY <1>2, <2>1 DEF IInv, TypedNet
  <2>4. ASSUME t = ctx[w].todo[u], e.re[1] = t
        PROVE  /\ ctx[w].s = t /\ ctx[w].n # 0 /\ ~Told(pc[w], ctx[w])
               /\ Idles(pc'[w]) \/ Told(pc'[w], ctx'[w])
    <3>1. ctx[w].s = t /\ ctx[w].n # 0 /\ ~Told(pc[w], ctx[w])
      BY <1>1, <1>2, <2>2, <2>4 DEF Re, Told, Mine
    <3>2. identity[t].userId = u /\ ctx[w].user = u
      BY <1>1, <1>2, <2>4, <3>1 DEF Mine, WithUser, PC
    <3>3. ctx[w].msg.kind = "message"
      BY <1>1, <1>2, <3>2 DEF Mine
    <3>4. \A v \in DOMAIN rest : rest[v] # t
      BY <1>1, <1>5, <3>2 DEF Mine
    <3>5. Told("deliver", c)
      BY <1>4, <3>1, <3>3, <3>4 DEF Told
    <3>6. Goto(w, "deliver", c) \/ Finish(w)
      BY <1>2, <1>3, <3>3
    <3>7. Idles(pc'[w]) \/ Told(pc'[w], ctx'[w])
      BY <1>6, <3>5, <3>6 DEF Finish, Idles
    <3> QED
      BY <3>1, <3>7
  <2> QED
    BY <2>2, <2>3, <2>4 DEF Sends
<1> QED
  BY <1>7, <1>8

\* Whatever a handler does, it answers its request once.
LEMMA HandlerSends ==
  ASSUME IInv, OwnInv, NEW w \in Workers, WorkerStep(w), ~Take(w)
  PROVE  /\ \A t \in Sessions : Sends(w, t)
         /\ Told(pc[w], ctx[w]) => Idles(pc'[w]) \/ Told(pc'[w], ctx'[w])
<1>1. CASE Deliver(w)
  BY <1>1, DeliverSends
<1>2. ASSUME ~Deliver(w), \A t \in Sessions : Sends(w, t)
      PROVE  /\ \A t \in Sessions : Sends(w, t)
             /\ Told(pc[w], ctx[w]) => Idles(pc'[w]) \/ Told(pc'[w], ctx'[w])
  <2>1. pc[w] # "deliver"
    BY <1>2, Zenon DEF WorkerStep, AtStep, LoginRefused, Login, SendReply, JoinLookup, Join, Leave,
     CreateLookup, Insert, InsertFails, InsertThrows, Create, Snapshot, HistoryCheck,
     HistoryId, HistoryRead, HistoryCrash, RoomName, RoomId, Store, StoreThrows, Target,
     PrivateFind, PrivateSend, Disconnect, RemoveSession
  <2> QED
    BY <1>2, <2>1 DEF Told
<1>3. CASE UNCHANGED outbox
  <2>1. \A t \in Sessions : Sends(w, t)
    BY <1>3 DEF Sends
  <2> QED
    BY <1>1, <1>2, <2>1
<1>4. ASSUME NEW m \in Envelope, m.re = Re(w), Answer(w, m),
             pc[w] \notin {"idle", "dead", "deliver", "disconnect", "remove"}
      PROVE  \A t \in Sessions : Sends(w, t)
  BY <1>4, SendsAnswer DEF Idles
<1>5. CASE \E ok \in BOOLEAN : Answer(w, Reply(w, ok))
  <2>1. PICK ok \in BOOLEAN : Answer(w, Reply(w, ok))
    BY <1>5
  <2>2. pc[w] \notin {"idle", "dead", "disconnect", "remove"}
    <3>1. pc'[w] = "idle" /\ outbox' # outbox
      <4>1. ctx[w].s \in Sessions /\ outbox \in [Sessions -> Seq(Envelope)]
        BY AtLabel, Proceeds DEF Idles, IInv, TypedNet
      <4>2. outbox'[ctx[w].s] = Append(outbox[ctx[w].s], Reply(w, ok))
        BY <2>1, <4>1 DEF Answer
      <4>3. outbox'[ctx[w].s] # outbox[ctx[w].s]
        BY <4>1, <4>2
      <4> QED
        BY <2>1, <4>3 DEF Answer, Finish, Goto, IInv, TypedThreads
    <3>2. ~Disconnect(w) /\ ~RemoveSession(w)
      BY <3>1, Zenon DEF Disconnect, RemoveSession, Goto, IInv, TypedThreads
    <3> QED
      BY <3>2, Proceeds, Zenon DEF Idles, WorkerStep, AtStep, LoginRefused, Login, SendReply, JoinLookup,
     Join, Leave, CreateLookup, Insert, InsertFails, InsertThrows, Create, Snapshot, Deliver,
     HistoryCheck, HistoryId, HistoryRead, HistoryCrash, RoomName, RoomId, Store, StoreThrows,
     Target, PrivateFind, PrivateSend
  <2>3. Reply(w, ok) \in Envelope /\ Reply(w, ok).re = Re(w)
    BY <2>2, AtLabel DEF Reply
  <2>4. CASE pc[w] # "deliver"
    BY <1>2, <1>1, <1>4, <2>1, <2>2, <2>3, <2>4
  <2>5. CASE pc[w] = "deliver"
    BY <1>1, <2>5 DEF WorkerStep, AtStep, LoginRefused, Login, SendReply, JoinLookup, Join, Leave,
     CreateLookup, Insert, InsertFails, InsertThrows, Create, Snapshot, HistoryCheck,
     HistoryId, HistoryRead, HistoryCrash, RoomName, RoomId, Store, StoreThrows, Target,
     PrivateFind, PrivateSend, Disconnect, RemoveSession
  <2> QED
    BY <2>4, <2>5
<1>6. CASE HistoryRead(w)
  <2>1. PICK m : m = [kind |-> "history", re |-> Re(w), label |-> ctx[w].arg, id |-> ctx[w].found]
    OBVIOUS
  <2>2. pc[w] = "history_read" /\ Answer(w, m)
    BY <1>6, <2>1 DEF HistoryRead, AtStep
  <2>3. m \in Envelope
    BY <2>1, <2>2, AtLabel DEF Shape, WithArg, Envelope
  <2>4. m.re = Re(w)
    BY <2>1
  <2> QED
    BY <1>1, <1>2, <1>4, <2>2, <2>3, <2>4
<1>7. CASE PrivateSend(w)
  <2>1. PICK m : m = [kind |-> "private", re |-> Re(w), label |-> ctx[w].room]
    OBVIOUS
  <2>2. pc[w] \in {"private_send", "private_echo"}
    BY <1>7 DEF PrivateSend, AtStep
  <2>3. m \in Envelope /\ m.re = Re(w)
    BY <2>1, <2>2, AtLabel DEF Shape, WithRoom, Envelope
  <2>4. CASE /\ pc[w] = "private_send"
             /\ outbox' = [outbox EXCEPT ![ctx[w].found] = Append(@, m)]
    <3>1. ctx[w].found # ctx[w].s
      BY <2>4, AtOwn DEF Mine
    <3>2. m.re[1] = ctx[w].s
      BY <2>3 DEF Re
    <3> QED
      BY <1>1, <1>2, <2>3, <2>4, <3>1, <3>2, SendsOther
  <2>5. CASE Answer(w, m)
    BY <1>1, <1>2, <1>4, <2>2, <2>3, <2>5
  <2> QED
    BY <1>7, <2>1, <2>4, <2>5 DEF PrivateSend, AtStep
<1>8. CASE Disconnect(w)
  <2>1. PICK u, r, told : /\ u = identity[ctx[w].s].userId /\ r = RS!CurrentRoomName(u, None)
                          /\ told = RS!Recipients(r, {u})
    OBVIOUS
  <2>2. PICK m : m = [kind |-> "left", re |-> Re(w), user |-> u, room |-> r]
    OBVIOUS
  <2>3. /\ pc[w] = "disconnect" /\ SM!Authenticated(ctx[w].s) /\ Re(w) \in Sessions \X Nat
        /\ ctx[w].s \in Sessions
    BY <1>8, AtLabel, Zenon DEF Disconnect, AtStep, Holds
  <2>4. u \in Users
    BY <2>1, <2>3, IdentityType DEF IInv
  <2>5. ASSUME NEW t \in Sessions PROVE Sends(w, t)
    <3>1. CASE outbox'[t] = outbox[t]
      BY <3>1 DEF Sends
    <3>2. CASE t # ctx[w].s /\ t \in Range(told) /\ outbox'[t] = Append(outbox[t], m)
      <4>1. r \in RoomNames
        BY <2>1, <3>2, ReadTyped DEF Range, NoEntries
      <4>2. m \in Envelope /\ m.re[1] = ctx[w].s
        BY <2>2, <2>3, <2>4, <4>1 DEF Envelope, Re
      <4> QED
        BY <3>2, <4>2 DEF Sends
    <3> QED
      BY <1>8, <2>1, <2>2, <3>1, <3>2, DisconnectSends
  <2> QED
    BY <1>1, <1>2, <2>5
<1> QED
  BY <1>1, <1>3, <1>5, <1>6, <1>7, <1>8
     DEF WorkerStep, LoginRefused, Login, SendReply, JoinLookup, Join, Leave, CreateLookup,
     Insert, InsertFails, InsertThrows, Create, Snapshot, HistoryCheck, HistoryId, HistoryCrash,
     RoomName, RoomId, Store, StoreThrows, Target, PrivateFind, RemoveSession

-----------------------------------------------------------------------------
(* How requests move: from the network to the queue, from there to a thread, *)
(* and from a thread to an answer.                                         *)

\* A task is posted: the next request of a session, or a disconnect.
Posts(t) ==
  /\ t \in Task /\ queue' = Append(queue, t)
  /\ UNCHANGED <<pc, ctx, outbox>>
  /\ \/ t.n = 0 /\ UNCHANGED sent
     \/ t.n = sent[t.s] + 1 /\ sent' = [sent EXCEPT ![t.s] = t.n]

\* A thread starts with the first task.
Starts(w) ==
  /\ queue # <<>> /\ queue' = Tail(queue)
  /\ Idles(pc[w]) /\ ~Idles(pc'[w]) /\ pc'[w] # "deliver"
  /\ ctx'[w].s = Head(queue).s /\ ctx'[w].n = Head(queue).n
  /\ \A v \in Workers \ {w} : pc'[v] = pc[v] /\ ctx'[v] = ctx[v]
  /\ UNCHANGED <<outbox, sent>>

Refusal(t) == [kind |-> "reply", re |-> <<t.s, t.n>>, ok |-> FALSE]

\* The first task is refused at once.
Refuses ==
  /\ \E w \in Workers : Idles(pc[w])
  /\ queue # <<>> /\ queue' = Tail(queue) /\ Head(queue).n # 0
  /\ outbox' = [outbox EXCEPT ![Head(queue).s] = Append(@, Refusal(Head(queue)))]
  /\ UNCHANGED <<pc, ctx, sent>>

\* A thread goes on.
Works(w) ==
  /\ UNCHANGED <<queue, sent>>
  /\ ~Idles(pc[w])
  /\ \A v \in Workers \ {w} : pc'[v] = pc[v] /\ ctx'[v] = ctx[v]
  /\ Idles(pc'[w]) \/ (ctx'[w].s = ctx[w].s /\ ctx'[w].n = ctx[w].n)
  /\ \A t \in Sessions : Sends(w, t)
  /\ Told(pc[w], ctx[w]) => Idles(pc'[w]) \/ Told(pc'[w], ctx'[w])

\* A thread that takes a task starts at the first step of its handler, or refuses it.
LEMMA TakeIs ==
  ASSUME IInv, OwnInv, NEW w \in Workers, Take(w)
  PROVE  /\ queue # <<>> /\ queue' = Tail(queue) /\ Idles(pc[w])
         /\ Head(queue) \in Task /\ OwnTask(Head(queue))
         /\ UNCHANGED <<registry, people, net>>
         /\ \/ Refuses
            \/ /\ Starts(w)
               /\ pc'[w] \in {"login", "join_lookup", "leave", "create_lookup", "name",
                              "private_room", "history_check", "disconnect", "remove"}
               /\ pc'[w] = "remove" => identity[Head(queue).s].userId = None
<1>1. PICK t : t = Head(queue)
  OBVIOUS
<1>2. PICK c : c = Handler(t.s, t.n, t.req.arg, identity[t.s].userId)
  OBVIOUS
<1>3. c.s = t.s /\ c.n = t.n
  BY <1>2 DEF Handler
<1>4. /\ queue # <<>> /\ queue' = Tail(queue) /\ pc[w] = "idle" /\ sent' = sent
      /\ UNCHANGED <<registry, people, net>>
  BY DEF Take, AtStep, net
<1>5. /\ t \in Task /\ OwnTask(t)
      /\ t.req.op \in {"login", "join", "leave", "create", "history", "public", "private",
                       "disconnect"}
  <2>1. t \in Task /\ 1 \in DOMAIN queue /\ t = queue[1]
    BY <1>1, <1>4 DEF IInv, TypedNet
  <2> QED
    BY <2>1 DEF Task, Request, OwnInv
<1>6. PICK p : p = FirstStep[t.req.op]
  OBVIOUS
<1>7. t.req.op # "login" =>
        p \in {"join_lookup", "leave", "create_lookup", "name", "private_room", "history_check",
              "disconnect"}
  BY <1>5, <1>6 DEF FirstStep
<1>8. ASSUME NEW q, Goto(w, q, c)
      PROVE  /\ pc'[w] = q /\ ctx'[w] = c
             /\ \A v \in Workers \ {w} : pc'[v] = pc[v] /\ ctx'[v] = ctx[v]
  BY <1>8 DEF Goto, IInv, TypedThreads
<1>9. ASSUME NEW q, Goto(w, q, c), ~Idles(q), q # "deliver", UNCHANGED outbox
      PROVE  Starts(w) /\ pc'[w] = q
  BY <1>1, <1>3, <1>4, <1>8, <1>9 DEF Starts, Idles
<1>10. \/ /\ t.req.op = "login" /\ Goto(w, "login", c) /\ UNCHANGED outbox
       \/ /\ t.req.op # "login" /\ Goto(w, p, c) /\ UNCHANGED outbox
       \/ /\ t.req.op # "disconnect" /\ UNCHANGED <<pc, ctx>>
          /\ outbox' = [outbox EXCEPT ![t.s] = Append(@, Refusal(t))]
       \/ /\ ~Admitted(t) /\ Goto(w, "remove", c) /\ UNCHANGED outbox
  BY <1>1, <1>2, <1>6 DEF Take, Refusal
<1>11. CASE /\ t.req.op # "disconnect" /\ UNCHANGED <<pc, ctx>>
            /\ outbox' = [outbox EXCEPT ![t.s] = Append(@, Refusal(t))]
  <2>1. Refuses
    BY <1>1, <1>4, <1>5, <1>11 DEF Refuses, OwnTask, Idles
  <2> QED
    BY <1>1, <1>4, <1>5, <2>1 DEF Idles
<1>12. CASE t.req.op = "login" /\ Goto(w, "login", c) /\ UNCHANGED outbox
  BY <1>1, <1>4, <1>5, <1>9, <1>12 DEF Idles
<1>13. CASE t.req.op # "login" /\ Goto(w, p, c) /\ UNCHANGED outbox
  <2>1. Starts(w) /\ pc'[w] = p
    BY <1>7, <1>9, <1>13 DEF Idles
  <2> QED
    BY <1>1, <1>4, <1>5, <1>7, <1>13, <2>1 DEF Idles
<1>14. CASE ~Admitted(t) /\ Goto(w, "remove", c) /\ UNCHANGED outbox
  <2>1. Starts(w) /\ pc'[w] = "remove"
    BY <1>9, <1>14 DEF Idles
  <2> QED
    BY <1>1, <1>4, <1>5, <1>14, <2>1 DEF Idles, Admitted, SM!Authenticated
<1> QED
  BY <1>10, <1>11, <1>12, <1>13, <1>14

\* There are no other steps.
LEMMA StepsAre ==
  ASSUME IInv, OwnInv, [Next]_vars
  PROVE  \/ UNCHANGED <<queue, pc, ctx, outbox, sent>>
         \/ \E t : Posts(t)
         \/ Refuses
         \/ \E w \in Workers : Starts(w) \/ Works(w)
<1>1. queue \in Seq(Task) /\ sent \in [Sessions -> Nat]
  BY DEF IInv, TypedNet
<1>2. CASE UNCHANGED vars
  BY <1>2 DEF vars, net
<1>3. ASSUME NEW s \in Sessions, Receive(s) PROVE \E t : Posts(t)
  <2>1. PICK n : n = sent[s] + 1
    OBVIOUS
  <2>2. PICK req \in Asks[s][n] : Post(s, n, req)
    BY <1>3, <2>1 DEF Receive
  <2>3. PICK t : t = [s |-> s, n |-> n, req |-> req]
    OBVIOUS
  <2>4. queue' = Append(queue, t) /\ t.s = s /\ t.n = n
    BY <2>2, <2>3 DEF Post
  <2>5. t \in Task
    <3>1. queue' \in Seq(Task)
      BY <1>3, NextIInv DEF IInv, TypedNet, Next
    <3>2. Len(queue) + 1 \in DOMAIN queue' /\ queue'[Len(queue) + 1] = t
      BY <1>1, <2>4
    <3> QED
      BY <3>1, <3>2
  <2> QED
    BY <1>3, <2>1, <2>4, <2>5 DEF Receive, Posts
<1>4. ASSUME NEW s \in Sessions, ReadError(s) \/ WriteError(s)
      PROVE  UNCHANGED <<queue, pc, ctx, outbox, sent>> \/ \E t : Posts(t)
  <2>1. PICK t : t = [s |-> s, n |-> 0, req |-> [op |-> "disconnect", arg |-> None]]
    OBVIOUS
  <2>2. t \in Task /\ t.n = 0
    BY <2>1 DEF Task
  <2>3. UNCHANGED <<pc, ctx, outbox, sent>> /\ (UNCHANGED queue \/ queue' = Append(queue, t))
    BY <1>4, <2>1 DEF ReadError, WriteError, HandleError, Post
  <2> QED
    BY <2>2, <2>3 DEF Posts
<1>5. ASSUME NEW w \in Workers, Take(w) PROVE Refuses \/ Starts(w)
  BY <1>5, TakeIs
<1>6. ASSUME NEW w \in Workers, WorkerStep(w), ~Take(w) PROVE Works(w)
  BY <1>6, Proceeds, HandlerSends DEF Works, net
<1> QED
  BY <1>2, <1>3, <1>4, <1>5, <1>6 DEF Next

\* Request n of s waits, is at work at w, or has an envelope i in its session's
\* outbox.
Waits(i, s, n) == i \in DOMAIN queue /\ queue[i].s = s /\ queue[i].n = n
AtWork(w, s, n) == ~Idles(pc[w]) /\ ctx[w].s = s /\ ctx[w].n = n
Heard(i, s, n) == i \in DOMAIN outbox[s] /\ outbox[s][i].re = <<s, n>>

\* What is waiting after a step.
LEMMA WaitsAppend ==
  ASSUME queue \in Seq(Task), NEW t \in Task, queue' = Append(queue, t), NEW i, NEW s, NEW n
  PROVE  Waits(i, s, n)' <=> \/ Waits(i, s, n)
                             \/ i = Len(queue) + 1 /\ t.s = s /\ t.n = n
<1>1. /\ DOMAIN queue' = 1..(Len(queue) + 1) /\ DOMAIN queue = 1..Len(queue) /\ Len(queue) \in Nat
      /\ \A k \in DOMAIN queue : queue'[k] = queue[k]
      /\ queue'[Len(queue) + 1] = t
  OBVIOUS
<1> QED
  BY <1>1 DEF Waits

\* What waits once the first task is taken.
LEMMA WaitsTail ==
  ASSUME queue \in Seq(Task), queue # <<>>, queue' = Tail(queue), NEW i, NEW s, NEW n
  PROVE  /\ Waits(i, s, n)' <=> i \in Nat \ {0} /\ Waits(i + 1, s, n)
         /\ Waits(1, s, n) <=> Head(queue).s = s /\ Head(queue).n = n
<1>1. /\ DOMAIN queue' = 1..(Len(queue) - 1) /\ DOMAIN queue = 1..Len(queue)
      /\ Len(queue) \in Nat \ {0} /\ Head(queue) = queue[1]
      /\ \A k \in DOMAIN queue' : queue'[k] = queue[k + 1]
  OBVIOUS
<1> QED
  BY <1>1 DEF Waits

\* What session s has heard after a step.
LEMMA HeardAppend ==
  ASSUME NEW s, outbox[s] \in Seq(Envelope), NEW e, outbox'[s] = Append(outbox[s], e), NEW i, NEW n
  PROVE  Heard(i, s, n)' <=> \/ Heard(i, s, n)
                             \/ i = Len(outbox[s]) + 1 /\ e.re = <<s, n>>
<1>1. PICK q, r : q = outbox[s] /\ r = outbox'[s]
  OBVIOUS
<1>2. /\ DOMAIN r = 1..(Len(q) + 1) /\ DOMAIN q = 1..Len(q) /\ Len(q) \in Nat
      /\ \A k \in DOMAIN q : r[k] = q[k]
      /\ r[Len(q) + 1] = e
  BY <1>1
<1> QED
  BY <1>1, <1>2 DEF Heard

\* What AnsweredOnce says of one request.
Once(s, n) ==
  /\ \A i, j : Waits(i, s, n) /\ Waits(j, s, n) => i = j
  /\ \A v, w \in Workers : AtWork(v, s, n) /\ AtWork(w, s, n) => v = w
  /\ \A i, j : Heard(i, s, n) /\ Heard(j, s, n) => i = j
  /\ \A i : \A w \in Workers : ~(Waits(i, s, n) /\ AtWork(w, s, n))
  /\ \A i, j : ~(Waits(i, s, n) /\ Heard(j, s, n))
  /\ \A w \in Workers : \A j : AtWork(w, s, n) /\ Heard(j, s, n) => Told(pc[w], ctx[w])
  /\ \A i : Waits(i, s, n) \/ Heard(i, s, n) => n <= sent[s]
  /\ \A w \in Workers : AtWork(w, s, n) => n <= sent[s]

\* A posted request is one that has not been seen before.
LEMMA PostsOnce ==
  ASSUME IInv, NEW t, Posts(t), NEW s \in Sessions, NEW n \in Nat \ {0}, Once(s, n)
  PROVE  Once(s, n)'
<1>1. queue \in Seq(Task) /\ t \in Task /\ sent \in [Sessions -> Nat]
  BY DEF IInv, TypedNet, Posts
<1>2. \A i : Waits(i, s, n)' <=> Waits(i, s, n) \/ (i = Len(queue) + 1 /\ t.s = s /\ t.n = n)
  BY <1>1, WaitsAppend DEF Posts
<1>3. /\ \A w : AtWork(w, s, n)' <=> AtWork(w, s, n)
      /\ \A i : Heard(i, s, n)' <=> Heard(i, s, n)
      /\ \A w : Told(pc[w], ctx[w])' <=> Told(pc[w], ctx[w])
  BY DEF Posts, AtWork, Heard, Told
<1>4. /\ sent[s] \in Nat /\ sent'[s] \in Nat /\ sent[s] <= sent'[s]
      /\ t.s = s /\ t.n = n => n > sent[s] /\ n <= sent'[s]
  BY <1>1 DEF Posts, Task
<1>5. CASE t.s = s /\ t.n = n
  <2>1. /\ \A i : ~Waits(i, s, n) /\ ~Heard(i, s, n)
        /\ \A w \in Workers : ~AtWork(w, s, n)
    BY <1>4, <1>5 DEF Once
  <2> QED
    BY <1>2, <1>3, <1>4, <1>5, <2>1 DEF Once
<1>6. CASE ~(t.s = s /\ t.n = n)
  BY <1>2, <1>3, <1>4, <1>6 DEF Once
<1> QED
  BY <1>5, <1>6

\* A refusal turns a waiting request into an answered one.
LEMMA RefusesOnce ==
  ASSUME IInv, Refuses, NEW s \in Sessions, NEW n \in Nat \ {0}, Once(s, n)
  PROVE  Once(s, n)'
<1>1. /\ queue \in Seq(Task) /\ queue # <<>> /\ queue' = Tail(queue)
      /\ outbox \in [Sessions -> Seq(Envelope)]
  BY DEF IInv, TypedNet, Refuses
<1>2. PICK t, e : t = Head(queue) /\ e = Refusal(t)
  OBVIOUS
<1>3. e.re = <<t.s, t.n>>
  BY <1>2 DEF Refusal
<1>4. /\ \A i : Waits(i, s, n)' <=> i \in Nat \ {0} /\ Waits(i + 1, s, n)
      /\ Waits(1, s, n) <=> t.s = s /\ t.n = n
  BY <1>1, <1>2, WaitsTail
<1>5. /\ \A w : AtWork(w, s, n)' <=> AtWork(w, s, n)
      /\ \A w : Told(pc[w], ctx[w])' <=> Told(pc[w], ctx[w])
      /\ sent' = sent
  BY DEF Refuses, AtWork, Told
<1>6. outbox' = [outbox EXCEPT ![t.s] = Append(@, e)]
  BY <1>2 DEF Refuses
<1>7. CASE t.s = s /\ t.n = n
  <2>1. \A i : Heard(i, s, n)' <=> Heard(i, s, n) \/ i = Len(outbox[s]) + 1
    <3>1. outbox'[s] = Append(outbox[s], e)
      BY <1>1, <1>6, <1>7
    <3> QED
      BY <1>1, <1>3, <1>7, <3>1, HeardAppend
  <2>2. \A i : ~Waits(i, s, n)'
    BY <1>4, <1>7 DEF Once
  <2>3. /\ \A i : ~Heard(i, s, n)
        /\ \A w \in Workers : ~AtWork(w, s, n)
        /\ n <= sent[s]
    BY <1>4, <1>7 DEF Once
  <2> QED
    BY <1>5, <2>1, <2>2, <2>3 DEF Once
<1>8. CASE ~(t.s = s /\ t.n = n)
  <2>1. \A i : Heard(i, s, n)' <=> Heard(i, s, n)
    <3>1. CASE t.s = s
      <4>1. outbox'[s] = Append(outbox[s], e)
        BY <1>1, <1>6, <3>1
      <4>2. e.re # <<s, n>>
        BY <1>3, <1>8, <3>1
      <4> QED
        BY <1>1, <4>1, <4>2, HeardAppend
    <3>2. CASE t.s # s
      <4>1. outbox'[s] = outbox[s]
        BY <1>1, <1>6, <3>2
      <4> QED
        BY <4>1 DEF Heard
    <3> QED
      BY <3>1, <3>2
  <2>2. \A i : Waits(i, s, n)' => i \in Nat /\ Waits(i + 1, s, n)
    BY <1>4
  <2>3. \A i, j : Waits(i, s, n)' /\ Waits(j, s, n)' => i = j
    <3> SUFFICES ASSUME NEW i, NEW j, Waits(i, s, n)', Waits(j, s, n)' PROVE i = j
      OBVIOUS
    <3>1. i \in Nat /\ j \in Nat /\ i + 1 = j + 1
      BY <2>2 DEF Once
    <3> QED
      BY <3>1
  <2> QED
    BY <1>5, <2>1, <2>2, <2>3 DEF Once
<1> QED
  BY <1>7, <1>8

\* A thread that takes a request turns a waiting one into one at work.
LEMMA StartsOnce ==
  ASSUME IInv, NEW w \in Workers, Starts(w), NEW s \in Sessions, NEW n \in Nat \ {0}, Once(s, n)
  PROVE  Once(s, n)'
<1>1. queue \in Seq(Task) /\ queue # <<>> /\ queue' = Tail(queue)
  BY DEF IInv, TypedNet, Starts
<1>2. PICK t : t = Head(queue)
  OBVIOUS
<1>3. /\ \A i : Waits(i, s, n)' <=> i \in Nat \ {0} /\ Waits(i + 1, s, n)
      /\ Waits(1, s, n) <=> t.s = s /\ t.n = n
  BY <1>1, <1>2, WaitsTail
<1>4. /\ AtWork(w, s, n)' <=> t.s = s /\ t.n = n
      /\ ~AtWork(w, s, n)
      /\ \A v \in Workers \ {w} : AtWork(v, s, n)' <=> AtWork(v, s, n)
      /\ \A v \in Workers \ {w} : Told(pc[v], ctx[v])' <=> Told(pc[v], ctx[v])
  BY <1>2 DEF Starts, AtWork, Told
<1>5. (\A i : Heard(i, s, n)' <=> Heard(i, s, n)) /\ sent' = sent
  BY DEF Starts, Heard
<1>6. \A i : Waits(i, s, n)' => i \in Nat \ {0} /\ Waits(i + 1, s, n)
  BY <1>3
<1>7. \A i, j : Waits(i, s, n)' /\ Waits(j, s, n)' => i = j
  <2> SUFFICES ASSUME NEW i, NEW j, Waits(i, s, n)', Waits(j, s, n)' PROVE i = j
    OBVIOUS
  <2>1. i \in Nat /\ j \in Nat /\ i + 1 = j + 1
    BY <1>6 DEF Once
  <2> QED
    BY <2>1
<1>8. CASE t.s = s /\ t.n = n
  <2>1. Waits(1, s, n)
    BY <1>3, <1>8
  <2>2. \A i : ~Waits(i, s, n)'
    <3> SUFFICES ASSUME NEW i, Waits(i, s, n)' PROVE FALSE
      OBVIOUS
    <3>1. i \in Nat \ {0} /\ i + 1 = 1
      BY <1>6, <2>1 DEF Once
    <3> QED
      BY <3>1
  <2>3. /\ \A i : ~Heard(i, s, n)
        /\ \A v \in Workers : ~AtWork(v, s, n)
        /\ n <= sent[s]
    BY <2>1 DEF Once
  <2> QED
    BY <1>4, <1>5, <2>2, <2>3 DEF Once
<1>9. CASE ~(t.s = s /\ t.n = n)
  <2>1. \A v \in Workers : AtWork(v, s, n)' => v # w /\ AtWork(v, s, n)
    BY <1>4, <1>9
  <2> QED
    BY <1>4, <1>5, <1>6, <1>7, <2>1 DEF Once
<1> QED
  BY <1>8, <1>9

\* A handler answers the request it works on, and goes on only before it has or
\* to tell the others.
LEMMA WorksOnce ==
  ASSUME IInv, NEW w \in Workers, Works(w), NEW s \in Sessions, NEW n \in Nat \ {0}, Once(s, n)
  PROVE  Once(s, n)'
<1>1. outbox[s] \in Seq(Envelope)
  BY DEF IInv, TypedNet
<1>2. (\A i : Waits(i, s, n)' <=> Waits(i, s, n)) /\ sent' = sent
  BY DEF Works, Waits
<1>3. /\ AtWork(w, s, n)' => AtWork(w, s, n)
      /\ \A v \in Workers \ {w} : AtWork(v, s, n)' <=> AtWork(v, s, n)
      /\ \A v \in Workers \ {w} : Told(pc[v], ctx[v])' <=> Told(pc[v], ctx[v])
      /\ AtWork(w, s, n)' /\ Told(pc[w], ctx[w]) => Told(pc[w], ctx[w])'
  BY DEF Works, AtWork, Told, Idles
<1>4. ASSUME \A i : Heard(i, s, n)' <=> Heard(i, s, n)
      PROVE  Once(s, n)'
  <2>1. \A v \in Workers : AtWork(v, s, n)' => AtWork(v, s, n)
    BY <1>3
  <2>2. \A v \in Workers : \A j : AtWork(v, s, n)' /\ Heard(j, s, n)' => Told(pc[v], ctx[v])'
    BY <1>3, <1>4, <2>1 DEF Once
  <2> QED
    BY <1>2, <1>4, <2>1, <2>2 DEF Once
<1>5. CASE outbox'[s] = outbox[s]
  BY <1>4, <1>5 DEF Heard
<1>6. ASSUME NEW e \in Envelope,
             /\ outbox'[s] = Append(outbox[s], e)
             /\ e.re[1] = s =>
                  /\ e.re = Re(w) /\ ctx[w].s = s /\ ctx[w].n # 0
                  /\ ~Told(pc[w], ctx[w])
                  /\ Idles(pc'[w]) \/ Told(pc'[w], ctx'[w])
      PROVE  Once(s, n)'
  <2>1. \A i : Heard(i, s, n)' <=> Heard(i, s, n) \/ (i = Len(outbox[s]) + 1 /\ e.re = <<s, n>>)
    BY <1>1, <1>6, HeardAppend
  <2>2. CASE e.re # <<s, n>>
    BY <1>4, <2>1, <2>2
  <2>3. CASE e.re = <<s, n>>
    <3>1. /\ AtWork(w, s, n) /\ ~Told(pc[w], ctx[w])
          /\ AtWork(w, s, n)' => Told(pc[w], ctx[w])'
      BY <1>6, <2>3 DEF Works, Re, AtWork, Told, Idles
    <3>2. \A i : ~Heard(i, s, n) /\ ~Waits(i, s, n)
      BY <3>1 DEF Once
    <3>3. n <= sent[s] /\ \A v \in Workers : AtWork(v, s, n)' => v = w
      BY <1>3, <3>1 DEF Once
    <3> QED
      BY <1>2, <2>1, <3>1, <3>2, <3>3 DEF Once
  <2> QED
    BY <2>2, <2>3
<1> QED
  BY <1>5, <1>6 DEF Works, Sends

\* No request is in two places, or answered twice.
OnceForAll == \A s \in Sessions : \A n \in Nat \ {0} : Once(s, n)

\* So no step makes a second place for a request.
LEMMA OnceKept ==
  ASSUME IInv, OwnInv, OnceForAll, [Next]_vars
  PROVE  OnceForAll'
<1> SUFFICES ASSUME NEW s \in Sessions, NEW n \in Nat \ {0} PROVE Once(s, n)'
  BY DEF OnceForAll
<1>1. Once(s, n)
  BY DEF OnceForAll
<1>2. CASE UNCHANGED <<queue, pc, ctx, outbox, sent>>
  <2>1. /\ \A i : (Waits(i, s, n)' <=> Waits(i, s, n)) /\ (Heard(i, s, n)' <=> Heard(i, s, n))
        /\ \A w : /\ AtWork(w, s, n)' <=> AtWork(w, s, n)
                  /\ Told(pc[w], ctx[w])' <=> Told(pc[w], ctx[w])
        /\ sent' = sent
    BY <1>2 DEF Waits, Heard, AtWork, Told
  <2> QED
    BY <1>1, <2>1 DEF Once
<1> QED
  BY <1>1, <1>2, StepsAre, PostsOnce, RefusesOnce, StartsOnce, WorksOnce

\* With clients that log in as one user each, no request is answered twice, on
\* any path through its handler and with any number of threads.
THEOREM AnswersOnce == OneUserPerClient => (Spec => []AnsweredOnce)
<1> SUFFICES ASSUME OneUserPerClient PROVE Spec => []AnsweredOnce
  OBVIOUS
<1>1. Init => OnceForAll
  BY DEF Init, OnceForAll, Once, Waits, AtWork, Heard, Idles
<1>2. IInv /\ OwnInv /\ OnceForAll /\ [Next]_vars => OnceForAll'
  BY OnceKept
<1>3. IInv /\ OnceForAll => AnsweredOnce
  <2> SUFFICES ASSUME IInv, OnceForAll, NEW s \in Sessions, NEW n \in 1..sent[s]
               PROVE  Cardinality(Answers(s, n)) <= 1
    BY DEF AnsweredOnce
  <2>1. n \in Nat \ {0}
    BY DEF IInv, TypedNet
  <2>2. \A i, j \in Answers(s, n) : i = j
    BY <2>1 DEF OnceForAll, Once, Heard, Answers
  <2>3. CASE Answers(s, n) = {}
    <3>1. Cardinality(Answers(s, n)) = 0
      BY <2>3, FS_EmptySet
    <3> QED
      BY <3>1
  <2>4. ASSUME NEW i \in Answers(s, n) PROVE Cardinality(Answers(s, n)) <= 1
    <3>1. Answers(s, n) = {i}
      BY <2>2
    <3>2. Cardinality(Answers(s, n)) = 1
      BY <3>1, FS_Singleton
    <3> QED
      BY <3>2
  <2> QED
    BY <2>3, <2>4
<1> QED
  BY <1>1, <1>2, <1>3, Invariance, Own, PTL DEF Spec

-----------------------------------------------------------------------------
(* One thread forgets the sessions that are gone.                          *)

\* The session is found under no id and no name, and no user is in a room
\* through it.
Unlisted(s) == s \notin Range(sessionsByUserId) \cup Range(sessionsByUsername)
Unseated(s) == \A u \in DOMAIN userToRoomMap : activeRooms[userToRoomMap[u]].members[u] # s

\* The entries of the session registry are under the id of their session, which
\* is its name too.
EntriesOwn ==
  /\ \A s \in Sessions : identity[s].username = identity[s].userId
  /\ \A u \in DOMAIN sessionsByUserId : identity[sessionsByUserId[u]].userId = u
  /\ \A u \in DOMAIN sessionsByUsername : identity[sessionsByUsername[u]].userId = u

\* The last task of a session is its disconnect: none is posted or waits after
\* it, and once it is done the session is forgotten.
Leaving(s) ==
  /\ s \in reading <=> s \notin is_closed
  /\ \A i : Waits(i, s, 0) => s \in is_closed /\ \A k, n : Waits(k, s, n) => k <= i
  /\ \A w \in Workers : AtWork(w, s, 0) => s \in is_closed /\ \A k, n : ~Waits(k, s, n)
  /\ \A w \in Workers : pc[w] = "remove" /\ ctx[w].s = s => Unseated(s)
  /\ s \in is_closed =>
       \/ \E i : Waits(i, s, 0)
       \/ \E w \in Workers : AtWork(w, s, 0)
       \/ /\ Unlisted(s) /\ Unseated(s)
          /\ \A n : (\A i : ~Waits(i, s, n)) /\ \A w \in Workers : ~AtWork(w, s, n)

GoneInv == EntriesOwn /\ \A s \in Sessions : Leaving(s)

\* A login enters the session under its user; a removal erases what is under the
\* session's own user.
LEMMA PeopleMoves ==
  ASSUME IInv, NEW w \in Workers, Login(w) \/ RemoveSession(w)
  PROVE  /\ ctx[w].s \in Sessions
         /\ Login(w) =>
              /\ ctx[w].arg \in Users
              /\ sessionsByUserId' = Put(sessionsByUserId, ctx[w].arg, ctx[w].s)
              /\ sessionsByUsername' = Put(sessionsByUsername, ctx[w].arg, ctx[w].s)
              /\ identity' = [identity EXCEPT ![ctx[w].s] =
                                [userId |-> ctx[w].arg, username |-> ctx[w].arg]]
         /\ RemoveSession(w) =>
              /\ UNCHANGED identity
              /\ IF SM!Authenticated(ctx[w].s)
                   THEN /\ sessionsByUserId' = Erase(sessionsByUserId, identity[ctx[w].s].userId)
                        /\ sessionsByUsername' = Erase(sessionsByUsername, identity[ctx[w].s].username)
                   ELSE UNCHANGED <<sessionsByUserId, sessionsByUsername>>
<1>1. pc[w] \in {"login", "remove"}
  BY DEF Login, RemoveSession, AtStep
<1>2. ctx[w].s \in Sessions /\ (pc[w] = "login" => ctx[w].arg \in Users)
  BY <1>1, AtLabel DEF Shape
<1>3. ASSUME Login(w)
      PROVE  /\ sessionsByUserId' = Put(sessionsByUserId, ctx[w].arg, ctx[w].s)
             /\ sessionsByUsername' = Put(sessionsByUsername, ctx[w].arg, ctx[w].s)
  <2>1. /\ sessionsByUserId' = SM!Put(sessionsByUserId, ctx[w].arg, ctx[w].s)
        /\ sessionsByUsername' = SM!Put(sessionsByUsername, ctx[w].arg, ctx[w].s)
    BY <1>3 DEF Login, SM!RegisterAuthenticatedSession
  <2> QED
    BY <2>1 DEF SM!Put, Put
<1>4. ASSUME RemoveSession(w)
      PROVE  IF SM!Authenticated(ctx[w].s)
               THEN /\ sessionsByUserId' = Erase(sessionsByUserId, identity[ctx[w].s].userId)
                    /\ sessionsByUsername' = Erase(sessionsByUsername, identity[ctx[w].s].username)
               ELSE UNCHANGED <<sessionsByUserId, sessionsByUsername>>
  BY <1>4 DEF RemoveSession, SM!Remove, SM!Erase, Erase, SM!Restrict, Restrict
<1> QED
  BY <1>2, <1>3, <1>4 DEF Login, RemoveSession, AtStep, SM!RegisterAuthenticatedSession, SM!Remove

\* Other steps leave the session registry alone.
LEMMA PeopleStay ==
  ASSUME [Next]_vars
  PROVE  UNCHANGED people \/ \E w \in Workers : Login(w) \/ RemoveSession(w)
<1>1. ASSUME NEW w \in Workers, WorkerStep(w)
      PROVE  UNCHANGED people \/ Login(w) \/ RemoveSession(w)
  BY <1>1, Zenon DEF WorkerStep, people, Take, LoginRefused, SendReply, JoinLookup, Join, Leave,
     CreateLookup, Insert, InsertFails, InsertThrows, Create, Snapshot, Deliver, HistoryCheck,
     HistoryId, HistoryRead, HistoryCrash, RoomName, RoomId, Store, StoreThrows, Target,
     PrivateFind, PrivateSend, Disconnect
<1>2. ASSUME NEW s \in Sessions, Receive(s) \/ ReadError(s) \/ WriteError(s)
      PROVE  UNCHANGED people
  BY <1>2 DEF Receive, ReadError, WriteError
<1> QED
  BY <1>1, <1>2 DEF Next, vars

\* Entries go, and none comes or changes.
OnlyErases ==
  /\ DOMAIN sessionsByUserId' \subseteq DOMAIN sessionsByUserId
  /\ \A v \in DOMAIN sessionsByUserId' : sessionsByUserId'[v] = sessionsByUserId[v]
  /\ DOMAIN sessionsByUsername' \subseteq DOMAIN sessionsByUsername
  /\ \A v \in DOMAIN sessionsByUsername' : sessionsByUsername'[v] = sessionsByUsername[v]

\* That is all a removal does to the maps.
LEMMA RemovalErases ==
  ASSUME IInv, NEW w \in Workers, RemoveSession(w)
  PROVE  OnlyErases
<1>1. CASE SM!Authenticated(ctx[w].s)
  <2>1. PICK u, n : /\ sessionsByUserId' = Erase(sessionsByUserId, u)
                    /\ sessionsByUsername' = Erase(sessionsByUsername, n)
    BY <1>1, PeopleMoves
  <2> QED
    BY <2>1 DEF OnlyErases, Erase, Restrict
<1>2. CASE ~SM!Authenticated(ctx[w].s)
  <2>1. UNCHANGED <<sessionsByUserId, sessionsByUsername>>
    BY <1>2, PeopleMoves
  <2> QED
    BY <2>1 DEF OnlyErases
<1> QED
  BY <1>1, <1>2

\* Every entry is where its session's identity says.
LEMMA EntriesKept ==
  ASSUME OneUserPerClient, IInv, OwnInv, EntriesOwn, [Next]_vars
  PROVE  EntriesOwn'
<1>1. IdentityStays /\ None \notin Users
  BY WhoStays, ServerAssumption DEF ServerAssumption
<1>2. /\ IsMap(sessionsByUserId, Users, Sessions) /\ IsMap(sessionsByUsername, Users, Sessions)
      /\ DOMAIN identity = Sessions
  BY SameMaps DEF IInv, SM!TypeOK
<1>3. CASE UNCHANGED people
  BY <1>3 DEF people, EntriesOwn
<1>4. ASSUME NEW w \in Workers, Login(w) PROVE EntriesOwn'
  <2>1. PICK s, u : s = ctx[w].s /\ u = ctx[w].arg
    OBVIOUS
  <2>2. /\ s \in Sessions /\ u \in Users
        /\ sessionsByUserId' = Put(sessionsByUserId, u, s)
        /\ sessionsByUsername' = Put(sessionsByUsername, u, s)
        /\ identity' = [identity EXCEPT ![s] = [userId |-> u, username |-> u]]
    BY <1>4, <2>1, PeopleMoves
  <2>3. /\ identity'[s].userId = u /\ identity'[s].username = u
        /\ \A t \in Sessions \ {s} : identity'[t] = identity[t]
    BY <1>2, <2>2
  <2>4. ASSUME NEW m, NEW n, IsMap(m, Users, Sessions), n = Put(m, u, s),
               \A v \in DOMAIN m : identity[m[v]].userId = v
        PROVE  \A v \in DOMAIN n : identity'[n[v]].userId = v
    <3> SUFFICES ASSUME NEW v \in DOMAIN n PROVE identity'[n[v]].userId = v
      OBVIOUS
    <3> /\ n[u] = s /\ DOMAIN n = DOMAIN m \cup {u}
        /\ \A x \in DOMAIN m : x # u => n[x] = m[x]
      BY <2>4 DEF Put
    <3>1. CASE v = u
      BY <2>3, <3>1
    <3>2. CASE v # u
      <4>1. v \in DOMAIN m /\ n[v] = m[v] /\ m[v] \in Sessions /\ v \in Users
        BY <2>4, <3>2 DEF IsMap
      <4> QED
        BY <1>1, <2>4, <4>1 DEF IdentityStays
    <3> QED
      BY <3>1, <3>2
  <2>5. /\ \A v \in DOMAIN sessionsByUserId' : identity'[sessionsByUserId'[v]].userId = v
        /\ \A v \in DOMAIN sessionsByUsername' : identity'[sessionsByUsername'[v]].userId = v
    BY <1>2, <2>2, <2>4 DEF EntriesOwn
  <2>6. \A t \in Sessions : identity'[t].username = identity'[t].userId
    BY <2>3 DEF EntriesOwn
  <2> QED
    BY <2>5, <2>6 DEF EntriesOwn
<1>5. ASSUME NEW w \in Workers, RemoveSession(w) PROVE EntriesOwn'
  <2>1. identity' = identity
    BY <1>5, PeopleMoves
  <2>2. OnlyErases
    BY <1>5, RemovalErases
  <2> QED
    BY <2>1, <2>2 DEF EntriesOwn, OnlyErases
<1> QED
  BY <1>3, <1>4, <1>5, PeopleStay

\* A session that is not listed gets listed by a login of its own only.
LEMMA UnlistedStays ==
  ASSUME IInv, [Next]_vars, NEW s \in Sessions, Unlisted(s),
         \A w \in Workers : Login(w) => ctx[w].s # s
  PROVE  Unlisted(s)'
<1>1. CASE UNCHANGED people
  BY <1>1 DEF people, Unlisted
<1>2. ASSUME NEW w \in Workers, Login(w) PROVE Unlisted(s)'
  <2>1. PICK t, u : t = ctx[w].s /\ u = ctx[w].arg
    OBVIOUS
  <2>2. /\ t # s
        /\ sessionsByUserId' = Put(sessionsByUserId, u, t)
        /\ sessionsByUsername' = Put(sessionsByUsername, u, t)
    BY <1>2, <2>1, PeopleMoves
  <2>3. /\ \A v \in DOMAIN sessionsByUserId' :
             \/ sessionsByUserId'[v] = t
             \/ v \in DOMAIN sessionsByUserId /\ sessionsByUserId'[v] = sessionsByUserId[v]
        /\ \A v \in DOMAIN sessionsByUsername' :
             \/ sessionsByUsername'[v] = t
             \/ v \in DOMAIN sessionsByUsername /\ sessionsByUsername'[v] = sessionsByUsername[v]
    BY <2>2 DEF Put
  <2> QED
    BY <2>2, <2>3 DEF Unlisted, Range
<1>3. ASSUME NEW w \in Workers, RemoveSession(w) PROVE Unlisted(s)'
  <2>1. OnlyErases
    BY <1>3, RemovalErases
  <2> QED
    BY <2>1 DEF OnlyErases, Unlisted, Range
<1> QED
  BY <1>1, <1>2, <1>3, PeopleStay

\* A session is not listed once it is removed.
LEMMA Removed ==
  ASSUME IInv, EntriesOwn, NEW w \in Workers, RemoveSession(w), NEW s, s = ctx[w].s
  PROVE  Unlisted(s)'
<1>1. /\ IsMap(sessionsByUserId, Users, Sessions) /\ IsMap(sessionsByUsername, Users, Sessions)
      /\ None \notin Users
  BY SameMaps, ServerAssumption DEF IInv, SM!TypeOK, ServerAssumption
<1>2. PICK u : u = identity[s].userId
  OBVIOUS
<1>3. s \in Sessions /\ identity[s].username = u
  BY <1>2, PeopleMoves DEF EntriesOwn
<1>4. CASE SM!Authenticated(s)
  <2>1. sessionsByUserId' = Erase(sessionsByUserId, u) /\ sessionsByUsername' = Erase(sessionsByUsername, u)
    BY <1>2, <1>3, <1>4, PeopleMoves
  <2>2. /\ \A v \in DOMAIN sessionsByUserId' :
             v # u /\ v \in DOMAIN sessionsByUserId /\ sessionsByUserId'[v] = sessionsByUserId[v]
        /\ \A v \in DOMAIN sessionsByUsername' :
             v # u /\ v \in DOMAIN sessionsByUsername /\ sessionsByUsername'[v] = sessionsByUsername[v]
    BY <2>1, EraseValue, Zenon
  <2>3. \A v \in DOMAIN sessionsByUserId' : sessionsByUserId'[v] # s
    BY <1>2, <2>2 DEF EntriesOwn
  <2>4. \A v \in DOMAIN sessionsByUsername' : sessionsByUsername'[v] # s
    BY <1>2, <2>2 DEF EntriesOwn
  <2> QED
    BY <2>3, <2>4, Zenon DEF Unlisted, Range
<1>5. CASE ~SM!Authenticated(s)
  <2>1. UNCHANGED <<sessionsByUserId, sessionsByUsername>> /\ u = None
    BY <1>2, <1>5, PeopleMoves DEF SM!Authenticated
  <2>2. \A v \in DOMAIN sessionsByUserId \cup DOMAIN sessionsByUsername : v # None
    BY <1>1 DEF IsMap
  <2>3. \A v \in DOMAIN sessionsByUserId : sessionsByUserId[v] # s
    BY <1>2, <2>1, <2>2 DEF EntriesOwn
  <2>4. \A v \in DOMAIN sessionsByUsername : sessionsByUsername[v] # s
    BY <1>2, <2>1, <2>2 DEF EntriesOwn
  <2> QED
    BY <2>1, <2>3, <2>4, Zenon DEF Unlisted, Range
<1> QED
  BY <1>4, <1>5

\* A session nobody is in a room through, because its user is in none.
LEMMA UserUnseated ==
  ASSUME IInv, SeatsOwn, NEW s, identity[s].userId \notin DOMAIN userToRoomMap
  PROVE  Unseated(s)
<1> SUFFICES ASSUME NEW u \in DOMAIN userToRoomMap,
                    activeRooms[userToRoomMap[u]].members[u] = s
             PROVE  FALSE
  BY DEF Unseated
<1>1. RSP!SeatIn(activeRooms, userToRoomMap[u], u)
  BY DEF IInv, RSP!IInv, RSP!MappedIsSeated, RSP!Members, RSP!SeatIn
<1>2. identity[s].userId = u
  BY <1>1 DEF SeatsOwn
<1> QED
  BY <1>2

\* Where a disconnect leaves its user.
LEMMA DisconnectMoves ==
  ASSUME IInv, NEW u \in Users, NEW s \in Sessions, RS!HandleDisconnect(u)
  PROVE  RSP!MovesOnly(u) /\ RSP!SeatsFrom(u, s) /\ u \notin DOMAIN userToRoomMap'
<1>1. CASE u \in DOMAIN userToRoomMap
  <2>1. userToRoomMap[u] \in RoomNames
    BY <1>1 DEF IInv, RSP!IInv, RSP!TypeOK, RSP!IsMap
  <2> QED
    BY <2>1, SeatMoves
<1>2. CASE u \notin DOMAIN userToRoomMap
  BY <1>2 DEF RS!HandleDisconnect, RS!seating, RSP!MovesOnly, RSP!SeatsFrom
<1> QED
  BY <1>1, <1>2

\* A disconnect takes its user out of the room.
LEMMA Vacates ==
  ASSUME OneUserPerClient, IInv, OwnInv, [Next]_vars,
         NEW w \in Workers, Disconnect(w), NEW s, s = ctx[w].s
  PROVE  Unseated(s)'
<1>1. PICK u : u = identity[s].userId
  OBVIOUS
<1>2. s \in Sessions /\ SM!Authenticated(s)
  BY <1>1, AtLabel, Zenon DEF Disconnect, AtStep, Holds
<1>3. u \in Users
  BY <1>1, <1>2, IdentityType DEF IInv
<1>4. RS!HandleDisconnect(u) /\ identity' = identity
  BY <1>1, Zenon DEF Disconnect, people
<1>5. u \notin DOMAIN userToRoomMap'
  BY <1>2, <1>3, <1>4, DisconnectMoves
<1>6. IInv' /\ SeatsOwn'
  BY NextIInv, SeatsStayOwn
<1> SUFFICES ASSUME NEW v \in DOMAIN userToRoomMap',
                    activeRooms'[userToRoomMap'[v]].members[v] = s
             PROVE  FALSE
  BY DEF Unseated
<1>7. RSP!SeatIn(activeRooms', userToRoomMap'[v], v)
  BY <1>6 DEF IInv, RSP!IInv, RSP!MappedIsSeated, RSP!Members, RSP!SeatIn
<1>8. identity'[s].userId = v
  BY <1>6, <1>7 DEF SeatsOwn, RSP!SeatIn
<1> QED
  BY <1>1, <1>4, <1>5, <1>8

\* Steps that move a user move it for their own session.
LEMMA SeatsMove ==
  ASSUME IInv, OwnInv, [Next]_vars
  PROVE  \/ UNCHANGED <<userToRoomMap, activeRooms>>
         \/ \E w \in Workers : \E u \in Users :
              /\ ctx[w].s \in Sessions /\ identity[ctx[w].s].userId = u
              /\ RSP!MovesOnly(u) /\ RSP!SeatsFrom(u, ctx[w].s)
              /\ \/ u \notin DOMAIN userToRoomMap' /\ (Leave(w) \/ Disconnect(w))
                 \/ RSP!Settles(u, ctx[w].arg, ctx[w].s) /\ (Join(w) \/ Create(w))
<1>1. ASSUME NEW w \in Workers, Join(w) \/ Leave(w) \/ Create(w)
      PROVE  \/ UNCHANGED <<userToRoomMap, activeRooms>>
             \/ \E u \in Users :
                  /\ ctx[w].s \in Sessions /\ identity[ctx[w].s].userId = u
                  /\ RSP!MovesOnly(u) /\ RSP!SeatsFrom(u, ctx[w].s)
                  /\ \/ u \notin DOMAIN userToRoomMap' /\ Leave(w)
                     \/ RSP!Settles(u, ctx[w].arg, ctx[w].s) /\ (Join(w) \/ Create(w))
  <2>1. PICK s, u, r : s = ctx[w].s /\ u = ctx[w].user /\ r = ctx[w].arg
    OBVIOUS
  <2>2. s \in Sessions /\ r \in RoomNames /\ u \in Users /\ identity[s].userId = u
    BY <1>1, <2>1, AtLabel DEF Join, Leave, Create, AtStep, Shape, WithArg, WithUser, PC, OwnInv, Mine
  <2>3. \/ Join(w) /\ RS!JoinRoom(u, s, r, ctx[w].found)
        \/ Create(w) /\ RS!CreateRoom(u, s, r, ctx[w].found)
        \/ Leave(w) /\ RS!LeaveRoom(u, r)
    BY <1>1, <2>1 DEF Join, Leave, Create
  <2>4. /\ RSP!MovesOnly(u) /\ RSP!SeatsFrom(u, s)
        /\ \/ UNCHANGED <<userToRoomMap, activeRooms>>
           \/ u \notin DOMAIN userToRoomMap' /\ Leave(w)
           \/ RSP!Settles(u, r, s) /\ (Join(w) \/ Create(w))
    BY <2>2, <2>3, SeatMoves
  <2> QED
    BY <2>1, <2>2, <2>4
<1>2. ASSUME NEW w \in Workers, Disconnect(w)
      PROVE  \E u \in Users :
               /\ ctx[w].s \in Sessions /\ identity[ctx[w].s].userId = u
               /\ RSP!MovesOnly(u) /\ RSP!SeatsFrom(u, ctx[w].s)
               /\ u \notin DOMAIN userToRoomMap'
  <2>1. PICK s, u : s = ctx[w].s /\ u = identity[s].userId
    OBVIOUS
  <2>2. s \in Sessions /\ SM!Authenticated(s)
    BY <1>2, <2>1, AtLabel, Zenon DEF Disconnect, AtStep, Holds
  <2>3. u \in Users
    BY <2>1, <2>2, IdentityType DEF IInv
  <2>4. RS!HandleDisconnect(u)
    BY <1>2, <2>1, Zenon DEF Disconnect
  <2> QED
    BY <2>1, <2>2, <2>3, <2>4, DisconnectMoves
<1>3. ASSUME NEW w \in Workers, WorkerStep(w)
      PROVE  \/ UNCHANGED <<userToRoomMap, activeRooms>>
             \/ Join(w) \/ Leave(w) \/ Create(w) \/ Disconnect(w)
  BY <1>3, Zenon DEF WorkerStep, registry, Take, LoginRefused, Login, SendReply, JoinLookup,
     CreateLookup, Insert, InsertFails, RS!AddRoom, RS!AddRoomUnacknowledged, RS!seating,
     InsertThrows, Snapshot, Deliver, HistoryCheck, HistoryId, HistoryRead, HistoryCrash,
     RoomName, RoomId, Store, StoreThrows, Target, PrivateFind, PrivateSend, RemoveSession
<1>4. ASSUME NEW s \in Sessions, Receive(s) \/ ReadError(s) \/ WriteError(s)
      PROVE  UNCHANGED <<userToRoomMap, activeRooms>>
  BY <1>4 DEF Receive, ReadError, WriteError, registry
<1>5. CASE UNCHANGED vars
  BY <1>5 DEF vars, registry
<1>6. CASE \E w \in Workers : WorkerStep(w)
  <2>1. PICK w \in Workers : WorkerStep(w)
    BY <1>6
  <2>2. CASE Join(w) \/ Leave(w) \/ Create(w)
    BY <1>1, <2>2
  <2>3. CASE Disconnect(w)
    BY <1>2, <2>3
  <2> QED
    BY <1>3, <2>1, <2>2, <2>3
<1> QED
  BY <1>4, <1>5, <1>6 DEF Next

\* Nobody gets into a room through a session but by a step for that session.
LEMMA UnseatedStays ==
  ASSUME IInv, OwnInv, [Next]_vars, NEW s \in Sessions, Unseated(s),
         \A w \in Workers : Join(w) \/ Create(w) => ctx[w].s # s
  PROVE  Unseated(s)'
<1>1. CASE UNCHANGED <<userToRoomMap, activeRooms>>
  BY <1>1 DEF Unseated
<1>2. ASSUME NEW w \in Workers, NEW u \in Users, RSP!MovesOnly(u),
             \/ u \notin DOMAIN userToRoomMap'
             \/ RSP!Settles(u, ctx[w].arg, ctx[w].s) /\ (Join(w) \/ Create(w))
      PROVE  Unseated(s)'
  <2>1. /\ \A v \in DOMAIN userToRoomMap : RSP!SeatIn(activeRooms, userToRoomMap[v], v)
        /\ DOMAIN userToRoomMap' \subseteq Users
    BY NextIInv DEF IInv, RSP!IInv, RSP!MappedIsSeated, RSP!Members, RSP!SeatIn, RSP!TypeOK, RSP!IsMap
  <2> SUFFICES ASSUME NEW v \in DOMAIN userToRoomMap'
               PROVE  activeRooms'[userToRoomMap'[v]].members[v] # s
    BY DEF Unseated
  <2>2. CASE v = u
    <3>1. /\ userToRoomMap'[v] = ctx[w].arg
          /\ activeRooms'[ctx[w].arg].members[v] = ctx[w].s
          /\ ctx[w].s # s
      BY <1>2, <2>2 DEF RSP!Settles
    <3> QED
      BY <3>1
  <2>3. CASE v # u
    <3>1. v \in DOMAIN userToRoomMap /\ userToRoomMap'[v] = userToRoomMap[v]
      BY <1>2, <2>1, <2>3 DEF RSP!MovesOnly
    <3>2. activeRooms'[userToRoomMap[v]].members[v] = activeRooms[userToRoomMap[v]].members[v]
      BY <1>2, <2>1, <2>3, <3>1 DEF RSP!MovesOnly
    <3> QED
      BY <3>1, <3>2 DEF Unseated
  <2> QED
    BY <2>2, <2>3
<1> QED
  BY <1>1, <1>2, SeatsMove

\* What is posted is a request of a session that has not closed, or its disconnect.
LEMMA PostsLeave ==
  ASSUME ~WritesMayFail, IInv, OwnInv, NEW t \in Sessions, ReadError(t) \/ Receive(t),
         \A s \in Sessions : Leaving(s)
  PROVE  \A s \in Sessions : Leaving(s)'
<1>1. /\ queue \in Seq(Task) /\ sent \in [Sessions -> Nat]
      /\ t \in reading /\ t \notin is_closed
      /\ UNCHANGED <<registry, people, pc, ctx>>
  BY DEF IInv, TypedNet, ReadError, Receive, Leaving
<1>2. PICK n, req :
        /\ n \in Nat /\ Post(t, n, req)
        /\ \/ n # 0 /\ UNCHANGED <<reading, is_closed>>
           \/ n = 0 /\ reading' = reading \ {t} /\ is_closed' = is_closed \cup {t}
  <2>1. CASE Receive(t)
    BY <1>1, <2>1 DEF Receive
  <2>2. CASE ReadError(t)
    BY <1>1, <2>2 DEF ReadError, HandleError
  <2> QED
    BY <2>1, <2>2
<1>3. PICK x : x = [s |-> t, n |-> n, req |-> req]
  OBVIOUS
<1>4. x.s = t /\ x.n = n /\ queue' = Append(queue, x)
  BY <1>2, <1>3 DEF Post
<1>5. x \in Task
  <2>1. queue' \in Seq(Task)
    BY NextIInv DEF Next, IInv, TypedNet
  <2>2. Len(queue) + 1 \in DOMAIN queue' /\ queue'[Len(queue) + 1] = x
    BY <1>1, <1>4
  <2> QED
    BY <2>1, <2>2
<1>6. \A i, s, k : Waits(i, s, k)' <=> Waits(i, s, k) \/ (i = Len(queue) + 1 /\ t = s /\ n = k)
  BY <1>1, <1>4, <1>5, WaitsAppend
<1>7. \A s : /\ Unlisted(s)' <=> Unlisted(s)
             /\ Unseated(s)' <=> Unseated(s)
             /\ \A w, k : AtWork(w, s, k)' <=> AtWork(w, s, k)
  BY <1>1 DEF registry, people, Unlisted, Unseated, AtWork
<1> SUFFICES ASSUME NEW s \in Sessions PROVE Leaving(s)'
  OBVIOUS
<1>8. Leaving(s)
  OBVIOUS
<1>9. CASE s # t
  <2>1. \A i, k : Waits(i, s, k)' <=> Waits(i, s, k)
    BY <1>6, <1>9
  <2>2. (s \in reading' <=> s \in reading) /\ (s \in is_closed' <=> s \in is_closed)
    BY <1>2, <1>9
  <2> QED
    BY <1>1, <1>7, <1>8, <2>1, <2>2 DEF Leaving
<1>10. CASE s = t
  <2>1. (\A i : ~Waits(i, s, 0)) /\ \A w \in Workers : ~AtWork(w, s, 0)
    BY <1>1, <1>8, <1>10 DEF Leaving
  <2>2. \A i, k : Waits(i, s, k) => i \in Nat /\ i <= Len(queue)
    BY <1>1 DEF Waits
  <2>3. \A i : Waits(i, s, 0)' =>
          s \in is_closed' /\ \A k, m : Waits(k, s, m)' => k <= i
    BY <1>1, <1>2, <1>6, <2>1, <2>2
  <2>4. s \in is_closed' => \E i : Waits(i, s, 0)'
    <3>1. PICK k : k = Len(queue) + 1
      OBVIOUS
    <3>2. s \in is_closed' => Waits(k, s, 0)'
      BY <1>1, <1>2, <1>6, <1>10, <3>1
    <3> QED
      BY <3>2
  <2>5. s \in reading' <=> s \notin is_closed'
    BY <1>1, <1>2, <1>10
  <2>6. \A w \in Workers : ~AtWork(w, s, 0)'
    BY <1>7, <2>1
  <2>7. \A w \in Workers : pc'[w] = "remove" /\ ctx'[w].s = s => Unseated(s)'
    BY <1>1, <1>7, <1>8 DEF Leaving
  <2> QED
    BY <2>3, <2>4, <2>5, <2>6, <2>7 DEF Leaving
<1> QED
  BY <1>9, <1>10

\* What a thread takes was first in line.
LEMMA TakeLeaves ==
  ASSUME OneThread, IInv, OwnInv, [Next]_vars, NEW w \in Workers, Take(w),
         NEW s \in Sessions, Leaving(s)
  PROVE  Leaving(s)'
<1>1. PICK t : t = Head(queue)
  OBVIOUS
<1>2. /\ queue \in Seq(Task) /\ queue # <<>> /\ queue' = Tail(queue) /\ Idles(pc[w])
      /\ UNCHANGED <<registry, people, net>>
  BY TakeIs DEF IInv, TypedNet
<1>3. /\ \A i, n : Waits(i, s, n)' <=> i \in Nat \ {0} /\ Waits(i + 1, s, n)
      /\ \A n : Waits(1, s, n) <=> t.s = s /\ t.n = n
  BY <1>1, <1>2, WaitsTail
<1>4. (Unlisted(s)' <=> Unlisted(s)) /\ (Unseated(s)' <=> Unseated(s))
  BY <1>2 DEF registry, people, Unlisted, Unseated
<1>5. \A v \in Workers : v = w
  BY DEF OneThread
<1>6. \A n : ~AtWork(w, s, n)
  BY <1>2 DEF AtWork
<1>7. \A n : AtWork(w, s, n)' => t.s = s /\ t.n = n
  BY <1>1, <1>2, <1>6, TakeIs DEF Refuses, Starts, AtWork
<1>8. t.s = s /\ t.n = 0 => AtWork(w, s, 0)'
  BY <1>1, TakeIs DEF Refuses, Starts, AtWork
<1>9. pc'[w] = "remove" /\ ctx'[w].s = s => Unseated(s)'
  <2> SUFFICES ASSUME pc'[w] = "remove", ctx'[w].s = s PROVE Unseated(s)
    BY <1>4
  <2>1. t.s = s /\ identity[t.s].userId = None
    BY <1>1, <1>2, TakeIs DEF Refuses, Starts, Idles
  <2>2. None \notin DOMAIN userToRoomMap
    BY ServerAssumption DEF ServerAssumption, IInv, RSP!IInv, RSP!TypeOK, RSP!IsMap
  <2> QED
    BY <2>1, <2>2, UserUnseated DEF OwnInv
<1>10. \A i, n : Waits(i, s, n) => i \in Nat /\ i # 0 /\ (i = 1 \/ Waits(i - 1, s, n)')
  <2> SUFFICES ASSUME NEW i, NEW n, Waits(i, s, n)
               PROVE  i \in Nat /\ i # 0 /\ (i = 1 \/ Waits(i - 1, s, n)')
    OBVIOUS
  <2>1. i \in Nat /\ i # 0
    BY <1>2 DEF Waits
  <2>2. i # 1 => i - 1 \in Nat \ {0} /\ (i - 1) + 1 = i
    BY <2>1
  <2> QED
    BY <1>3, <2>1, <2>2
<1>11. \A i : Waits(i, s, 0)' => s \in is_closed' /\ \A k, n : Waits(k, s, n)' => k <= i
  <2> SUFFICES ASSUME NEW i, Waits(i, s, 0)', NEW k, NEW n, Waits(k, s, n)'
               PROVE  s \in is_closed' /\ k <= i
    BY <1>2, <1>3 DEF net, Leaving
  <2>1. i \in Nat /\ k \in Nat /\ Waits(i + 1, s, 0) /\ Waits(k + 1, s, n)
    BY <1>3
  <2>2. s \in is_closed /\ k + 1 <= i + 1
    BY <2>1 DEF Leaving
  <2> QED
    BY <1>2, <2>1, <2>2 DEF net
<1>12. AtWork(w, s, 0)' => s \in is_closed' /\ \A k, n : ~Waits(k, s, n)'
  <2> SUFFICES ASSUME AtWork(w, s, 0)', NEW k, NEW n, Waits(k, s, n)' \/ s \notin is_closed'
               PROVE  FALSE
    OBVIOUS
  <2>1. Waits(1, s, 0)
    BY <1>3, <1>7
  <2>2. s \in is_closed /\ \A j, m : Waits(j, s, m) => j <= 1
    BY <2>1 DEF Leaving
  <2>3. Waits(k, s, n)'
    BY <1>2, <2>2 DEF net
  <2>4. k \in Nat \ {0} /\ k + 1 <= 1
    BY <1>3, <2>2, <2>3
  <2> QED
    BY <2>4
<1>13. s \in is_closed' =>
         \/ \E i : Waits(i, s, 0)'
         \/ \E v \in Workers : AtWork(v, s, 0)'
         \/ /\ Unlisted(s)' /\ Unseated(s)'
            /\ \A n : (\A i : ~Waits(i, s, n)') /\ \A v \in Workers : ~AtWork(v, s, n)'
  <2> SUFFICES ASSUME s \in is_closed
               PROVE  \/ \E i : Waits(i, s, 0)'
                      \/ AtWork(w, s, 0)'
                      \/ /\ Unlisted(s) /\ Unseated(s)
                         /\ \A n : (\A i : ~Waits(i, s, n)') /\ ~AtWork(w, s, n)'
    BY <1>2, <1>4, <1>5 DEF net
  <2>1. ASSUME NEW i, Waits(i, s, 0) PROVE AtWork(w, s, 0)' \/ \E j : Waits(j, s, 0)'
    BY <1>3, <1>8, <1>10, <2>1
  <2>2. CASE /\ Unlisted(s) /\ Unseated(s) /\ \A n, i : ~Waits(i, s, n)
    <3>1. \A n : (\A i : ~Waits(i, s, n)') /\ ~AtWork(w, s, n)'
      BY <1>3, <1>7, <2>2
    <3> QED
      BY <2>2, <3>1
  <2> QED
    BY <1>5, <1>6, <2>1, <2>2 DEF Leaving
<1> QED
  BY <1>2, <1>5, <1>9, <1>11, <1>12, <1>13 DEF Leaving, net

\* A handler at work on the disconnect of s ends with s forgotten; other handlers
\* are those of other sessions, or come before the disconnect.
LEMMA WorkLeaves ==
  ASSUME OneThread, OneUserPerClient, IInv, OwnInv, EntriesOwn, [Next]_vars,
         NEW w \in Workers, WorkerStep(w), ~Take(w), NEW s \in Sessions, Leaving(s)
  PROVE  Leaving(s)'
<1>1. /\ UNCHANGED <<queue, net>> /\ ~Idles(pc[w])
      /\ \/ Idles(pc'[w])
         \/ /\ ~Idles(pc'[w])
            /\ pc'[w] = "remove" => pc[w] = "disconnect"
            /\ ctx'[w].s = ctx[w].s /\ ctx'[w].n = ctx[w].n
  BY Proceeds
<1>2. \A v \in Workers : v = w
  BY DEF OneThread
<1>3. \A i, n : Waits(i, s, n)' <=> Waits(i, s, n)
  BY <1>1 DEF Waits
<1>4. \A n : AtWork(w, s, n)' => AtWork(w, s, n)
  BY <1>1 DEF AtWork
<1>5. pc'[w] = "remove" /\ ctx'[w].s = s => Unseated(s)'
  <2> SUFFICES ASSUME pc'[w] = "remove", ctx'[w].s = s PROVE Unseated(s)'
    OBVIOUS
  <2>1. pc[w] = "disconnect" /\ ctx[w].s = s
    BY <1>1 DEF Idles
  <2>2. Disconnect(w)
    BY <2>1, Zenon DEF WorkerStep, AtStep, LoginRefused, Login, SendReply, JoinLookup, Join, Leave,
       CreateLookup, Insert, InsertFails, InsertThrows, Create, Snapshot, Deliver, HistoryCheck,
       HistoryId, HistoryRead, HistoryCrash, RoomName, RoomId, Store, StoreThrows, Target,
       PrivateFind, PrivateSend, RemoveSession
  <2> QED
    BY <2>1, <2>2, Vacates
<1>6. ASSUME AtWork(w, s, 0), ~AtWork(w, s, 0)' PROVE Unlisted(s)' /\ Unseated(s)'
  <2>1. Idles(pc'[w]) /\ ctx[w].s = s /\ ctx[w].n = 0
    BY <1>1, <1>6 DEF AtWork
  <2>2. pc[w] \in {"disconnect", "remove"}
    BY <1>1, <2>1 DEF OwnInv, Mine, Idles
  <2>3. Disconnect(w) \/ RemoveSession(w)
    BY <2>2, Zenon DEF WorkerStep, AtStep, LoginRefused, Login, SendReply, JoinLookup, Join, Leave,
       CreateLookup, Insert, InsertFails, InsertThrows, Create, Snapshot, Deliver, HistoryCheck,
       HistoryId, HistoryRead, HistoryCrash, RoomName, RoomId, Store, StoreThrows, Target,
       PrivateFind, PrivateSend
  <2>4. ~Disconnect(w)
    BY <2>1 DEF Disconnect, Goto, Idles, IInv, TypedThreads
  <2>5. RemoveSession(w) /\ pc[w] = "remove"
    BY <2>3, <2>4 DEF RemoveSession, AtStep
  <2>6. Unseated(s)
    BY <2>1, <2>5 DEF Leaving
  <2>7. UNCHANGED <<userToRoomMap, activeRooms>>
    BY <2>5 DEF RemoveSession, registry
  <2> QED
    BY <2>1, <2>5, <2>6, <2>7, Removed DEF Unseated
<1>7. ASSUME \A n : ~AtWork(w, s, n) PROVE ctx[w].s # s
  BY <1>1, <1>7 DEF AtWork
<1>8. ASSUME \A n : ~AtWork(w, s, n), Unlisted(s), Unseated(s)
      PROVE  Unlisted(s)' /\ Unseated(s)'
  BY <1>2, <1>7, <1>8, UnlistedStays, UnseatedStays
<1>9. s \in is_closed =>
        \/ \E i : Waits(i, s, 0)'
        \/ AtWork(w, s, 0)'
        \/ /\ Unlisted(s)' /\ Unseated(s)'
           /\ \A n : (\A i : ~Waits(i, s, n)') /\ ~AtWork(w, s, n)'
  <2> SUFFICES ASSUME s \in is_closed, ~AtWork(w, s, 0)', \A i : ~Waits(i, s, 0)
               PROVE  /\ Unlisted(s)' /\ Unseated(s)'
                      /\ \A n : (\A i : ~Waits(i, s, n)) /\ ~AtWork(w, s, n)'
    BY <1>3
  <2>1. CASE AtWork(w, s, 0)
    <3>1. \A n, i : ~Waits(i, s, n)
      BY <2>1 DEF Leaving
    <3>2. \A n : AtWork(w, s, n) => n = 0
      BY <2>1 DEF AtWork
    <3>3. \A n : ~AtWork(w, s, n)'
      BY <1>4, <3>2
    <3> QED
      BY <1>6, <2>1, <3>1, <3>3
  <2>2. CASE ~AtWork(w, s, 0)
    <3>1. /\ Unlisted(s) /\ Unseated(s)
          /\ \A n : (\A i : ~Waits(i, s, n)) /\ ~AtWork(w, s, n)
      BY <1>2, <2>2 DEF Leaving
    <3> QED
      BY <1>4, <1>8, <3>1
  <2> QED
    BY <2>1, <2>2
<1>10. \A i : Waits(i, s, 0)' => s \in is_closed' /\ \A k, n : Waits(k, s, n)' => k <= i
  BY <1>1, <1>3 DEF Leaving, net
<1>11. AtWork(w, s, 0)' => s \in is_closed' /\ \A k, n : ~Waits(k, s, n)'
  BY <1>1, <1>3, <1>4 DEF Leaving, net
<1> QED
  BY <1>1, <1>2, <1>5, <1>9, <1>10, <1>11 DEF Leaving, net

\* So every session that goes is forgotten in the end.
LEMMA GoneKept ==
  ASSUME OneThread, OneUserPerClient, ~WritesMayFail, IInv, OwnInv, GoneInv, [Next]_vars
  PROVE  GoneInv'
<1>1. EntriesOwn'
  BY EntriesKept DEF GoneInv
<1>2. CASE UNCHANGED vars
  <2>1. \A s : /\ Unlisted(s)' <=> Unlisted(s)
               /\ Unseated(s)' <=> Unseated(s)
               /\ \A w, n : AtWork(w, s, n)' <=> AtWork(w, s, n)
               /\ \A i, n : Waits(i, s, n)' <=> Waits(i, s, n)
    BY <1>2 DEF vars, registry, people, Unlisted, Unseated, AtWork, Waits
  <2>2. \A s \in Sessions : Leaving(s) => Leaving(s)'
    BY <1>2, <2>1 DEF vars, net, Leaving
  <2> QED
    BY <1>1, <2>2 DEF GoneInv
<1>3. ASSUME NEW t \in Sessions, Receive(t) \/ ReadError(t) \/ WriteError(t) PROVE GoneInv'
  <2>1. Receive(t) \/ ReadError(t)
    BY <1>3 DEF WriteError
  <2> QED
    BY <1>1, <2>1, PostsLeave DEF GoneInv
<1>4. ASSUME NEW w \in Workers, WorkerStep(w) PROVE GoneInv'
  <2>1. \A s \in Sessions : Leaving(s)'
    BY <1>4, TakeLeaves, WorkLeaves DEF GoneInv
  <2> QED
    BY <1>1, <2>1 DEF GoneInv
<1> QED
  BY <1>2, <1>3, <1>4 DEF Next

\* With one thread, clients that log in as one user each, and no failing writes, a
\* session that has been cleaned up is listed nowhere and sits nowhere
\* (Server::onDisconnect, which runs after every request of the session).
THEOREM OneThreadForgets ==
  OneThread /\ OneUserPerClient /\ ~WritesMayFail => (Spec => []GoneIsForgotten)
<1> SUFFICES ASSUME OneThread, OneUserPerClient, ~WritesMayFail PROVE Spec => []GoneIsForgotten
  OBVIOUS
<1>1. Init => GoneInv
  <2> SUFFICES ASSUME Init PROVE GoneInv
    OBVIOUS
  <2>1. EntriesOwn
    BY DEF Init, SM!Init, SM!Anonymous, SM!NoEntries, EntriesOwn
  <2>2. \A s \in Sessions : Leaving(s)
    BY DEF Init, Leaving, Waits, AtWork, Idles
  <2> QED
    BY <2>1, <2>2 DEF GoneInv
<1>2. IInv /\ OwnInv /\ GoneInv /\ [Next]_vars => GoneInv'
  BY GoneKept
<1>3. GoneInv => GoneIsForgotten
  <2> SUFFICES ASSUME GoneInv, NEW s \in Sessions, Gone(s) PROVE Unlisted(s) /\ Unseated(s)
    BY DEF GoneIsForgotten, Unlisted, Unseated
  <2>1. /\ s \in is_closed /\ \A i, n : ~Waits(i, s, n)
        /\ \A w \in Workers : \A n : ~AtWork(w, s, n)
    BY DEF Gone, Waits, AtWork
  <2> QED
    BY <2>1 DEF GoneInv, Leaving
<1> QED
  BY <1>1, <1>2, <1>3, Invariance, Own, PTL DEF Spec

-----------------------------------------------------------------------------
(* One thread tells who leaves, and who comes back.                        *)

\* User v has a seat in room r on session t; user u is in room r.
SeatOn(v, r, t) == RSP!SeatIn(activeRooms, r, v) /\ activeRooms[r].members[v] = t
Inside(u, r) == u \in DOMAIN userToRoomMap /\ userToRoomMap[u] = r

\* A handler at p with variables c is about to tell of its user's coming or going.
Announces(p, c) == p \in {"snapshot", "deliver"} /\ c.msg.kind # "message"

\* What a lone thread knows: its notice is about the room it is for, who is said to
\* have left is not there, the copied recipients still have their seats, a room
\* whose row was just stored is not active, and a disconnect is of a closed session.
Aware(p, c) ==
  /\ Announces(p, c) => c.msg.room = c.room
  /\ Announces(p, c) /\ c.msg.kind = "left" => ~Inside(c.user, c.room)
  /\ p = "deliver" => \A v \in DOMAIN c.todo : SeatOn(v, c.room, c.todo[v])
  /\ p = "create" => c.arg \notin DOMAIN activeRooms
  /\ ~Idles(p) /\ c.n = 0 => c.s \in is_closed

AwareInv == /\ \A w \in Workers : Aware(pc[w], ctx[w])
            /\ \A i \in DOMAIN queue : queue[i].n = 0 => queue[i].s \in is_closed

\* Users have seats.
LEMMA SittersAreUsers ==
  ASSUME IInv, NEW v, NEW r, NEW t, SeatOn(v, r, t)
  PROVE  v \in Users
BY DEF SeatOn, RSP!SeatIn, IInv, RSP!IInv, RSP!TypeOK, RSP!IsMap, RSP!ActiveRoom, RSP!MapsInto

\* The steps that lead to the labels Aware is about.
LEMMA ComesTo ==
  ASSUME IInv, NEW w \in Workers, WorkerStep(w), ~Take(w)
  PROVE  /\ pc'[w] = "snapshot" => Join(w) \/ Leave(w) \/ Target(w)
         /\ pc'[w] = "deliver" => Snapshot(w) \/ Deliver(w)
         /\ pc'[w] = "create" => Insert(w)
<1> DEFINE Elsewhere == pc'[w] \notin {"snapshot", "deliver", "create"}
<1>1. ASSUME NEW p, NEW c, Goto(w, p, c) PROVE pc'[w] = p
  BY <1>1 DEF Goto, IInv, TypedThreads
<1>2. Finish(w) \/ Throw(w) => Elsewhere
  BY <1>1 DEF Finish, Throw
<1>3. ASSUME NEW m, Answer(w, m) PROVE Elsewhere
  BY <1>2, <1>3 DEF Answer
<1>4. CASE LoginRefused(w) \/ Login(w) \/ SendReply(w)
  BY <1>1, <1>3, <1>4 DEF LoginRefused, Login, SendReply
<1>5. CASE JoinLookup(w) \/ CreateLookup(w) \/ Create(w)
  BY <1>1, <1>3, <1>5 DEF JoinLookup, CreateLookup, Create
<1>6. CASE InsertFails(w) \/ InsertThrows(w)
  BY <1>2, <1>3, <1>6 DEF InsertFails, InsertThrows
<1>7. CASE HistoryCheck(w) \/ HistoryId(w) \/ HistoryRead(w) \/ HistoryCrash(w)
  BY <1>1, <1>2, <1>3, <1>7 DEF HistoryCheck, HistoryId, HistoryRead, HistoryCrash
<1>8. CASE RoomName(w)
  <2>1. PICK r, q : /\ r = RS!CurrentRoomName(ctx[w].user, None)
                    /\ q = IF pc[w] = "name" THEN "id" ELSE "private_find"
    OBVIOUS
  <2>2. (\E m : Answer(w, m)) \/ Goto(w, q, [ctx[w] EXCEPT !.room = r])
    BY <1>8, <2>1 DEF RoomName
  <2> QED
    BY <1>1, <1>3, <2>1, <2>2
<1>9. CASE RoomId(w) \/ Store(w) \/ StoreThrows(w)
  BY <1>1, <1>2, <1>9 DEF RoomId, Store, StoreThrows
<1>10. CASE PrivateFind(w) \/ PrivateSend(w)
  BY <1>1, <1>3, <1>10 DEF PrivateFind, PrivateSend
<1>11. CASE Disconnect(w) \/ RemoveSession(w)
  BY <1>1, <1>2, <1>11, Zenon DEF Disconnect, RemoveSession
<1>12. CASE Join(w) \/ Leave(w) \/ Target(w)
  BY <1>1, <1>12 DEF Join, Leave, Target, Broadcast
<1>13. CASE Snapshot(w)
  BY <1>1, <1>2, <1>13 DEF Snapshot
<1>14. CASE Deliver(w)
  BY <1>1, <1>2, <1>14 DEF Deliver
<1>15. CASE Insert(w)
  BY <1>1, <1>15 DEF Insert
<1> QED
  BY <1>4, <1>5, <1>6, <1>7, <1>8, <1>9, <1>10, <1>11, <1>12, <1>13, <1>14, <1>15 DEF WorkerStep

\* A handler that has changed the room of its user tells of it.
LEMMA Announced ==
  ASSUME IInv, NEW w \in Workers, Join(w) \/ Leave(w)
  PROVE  /\ pc'[w] = "snapshot" /\ ctx'[w].msg = Notice(w, IF Join(w) THEN "joined" ELSE "left")
         /\ ctx'[w].room = ctx[w].arg /\ ctx'[w].user = ctx[w].user /\ ctx'[w].s = ctx[w].s
         /\ ctx[w].arg \in RoomNames /\ ctx[w].user \in Users /\ ctx[w].s \in Sessions
         /\ pc[w] = IF Join(w) THEN "join" ELSE "leave"
<1>1. pc[w] = IF Join(w) THEN "join" ELSE "leave"
  BY DEF Join, Leave, AtStep
<1>2. /\ ctx[w] \in Context /\ ctx[w].arg \in RoomNames /\ ctx[w].user \in Users
      /\ ctx[w].s \in Sessions
  BY <1>1, AtLabel DEF Shape, WithArg, WithUser, PC
<1>3. PICK r, m : r = ctx[w].arg /\ m = Notice(w, IF Join(w) THEN "joined" ELSE "left")
  OBVIOUS
<1>4. ~(Join(w) /\ Leave(w))
  BY DEF Join, Leave, AtStep
<1>5. Goto(w, "snapshot", [ctx[w] EXCEPT !.room = r, !.msg = m])
  BY <1>3, <1>4 DEF Join, Leave, Broadcast
<1>6. /\ pc'[w] = "snapshot"
      /\ ctx'[w] = [ctx[w] EXCEPT !.room = r, !.msg = m]
  BY <1>5 DEF Goto, IInv, TypedThreads
<1>7. ctx'[w].room = r /\ ctx'[w].msg = m /\ ctx'[w].user = ctx[w].user /\ ctx'[w].s = ctx[w].s
  BY <1>2, <1>6 DEF Context
<1> QED
  BY <1>1, <1>2, <1>3, <1>6, <1>7

\* What a thread that copies the recipients, or sends to one of them, goes on with.
LEMMA TellsOn ==
  ASSUME IInv, NEW w \in Workers, Snapshot(w) \/ Deliver(w)
  PROVE  /\ UNCHANGED <<userToRoomMap, activeRooms>>
         /\ pc[w] \in {"snapshot", "deliver"} /\ ctx[w].user \in Users
         /\ pc'[w] \in {"idle", "deliver", "reply"}
         /\ ctx[w].msg.kind # "message" => pc'[w] # "idle"
         /\ pc'[w] \in {"deliver", "reply"} =>
              /\ ctx'[w].s = ctx[w].s /\ ctx'[w].user = ctx[w].user
              /\ ctx'[w].room = ctx[w].room /\ ctx'[w].msg = ctx[w].msg
         /\ Snapshot(w) =>
              /\ UNCHANGED outbox
              /\ IF RS!Recipients(ctx[w].room, Excluded(w)) # NoEntries
                   THEN /\ pc'[w] = "deliver"
                        /\ ctx'[w].todo = RS!Recipients(ctx[w].room, Excluded(w))
                   ELSE pc'[w] # "deliver"
         /\ Deliver(w) =>
              \E u \in DOMAIN ctx[w].todo :
                /\ pc[w] = "deliver" /\ ctx[w].todo[u] \in Sessions
                /\ outbox' = [outbox EXCEPT ![ctx[w].todo[u]] = Append(@, ctx[w].msg)]
                /\ IF Erase(ctx[w].todo, u) # NoEntries
                     THEN pc'[w] = "deliver" /\ ctx'[w].todo = Erase(ctx[w].todo, u)
                     ELSE pc'[w] # "deliver"
<1>1. pc[w] \in {"snapshot", "deliver"}
  BY DEF Snapshot, Deliver, AtStep
<1>2. ctx[w] \in Context /\ ctx[w].user \in Users
  BY <1>1, AtLabel DEF Shape, WithUser, PC
<1>3. ASSUME NEW p, NEW c, Goto(w, p, c) PROVE pc'[w] = p /\ ctx'[w] = c
  BY <1>3 DEF Goto, IInv, TypedThreads
<1>4. ASSUME NEW x, NEW c, c = [ctx[w] EXCEPT !.todo = x]
      PROVE  c.s = ctx[w].s /\ c.user = ctx[w].user /\ c.room = ctx[w].room /\ c.msg = ctx[w].msg
             /\ c.todo = x
  BY <1>2, <1>4 DEF Context
<1>5. CASE Snapshot(w)
  <2>1. PICK todo, c : /\ todo = RS!Recipients(ctx[w].room, Excluded(w))
                       /\ c = [ctx[w] EXCEPT !.todo = todo]
    OBVIOUS
  <2>2. /\ UNCHANGED <<registry, outbox>> /\ pc[w] = "snapshot"
        /\ IF todo # NoEntries THEN Goto(w, "deliver", c)
           ELSE IF ctx[w].msg.kind = "message" THEN Finish(w)
           ELSE Goto(w, "reply", ctx[w])
    BY <1>5, <2>1 DEF Snapshot, AtStep
  <2>3. ~Deliver(w)
    BY <2>2 DEF Deliver, AtStep
  <2>4. CASE todo # NoEntries
    <3>1. pc'[w] = "deliver" /\ ctx'[w] = c
      BY <1>3, <2>2, <2>4
    <3> QED
      BY <1>1, <1>2, <1>4, <2>1, <2>2, <2>3, <2>4, <3>1 DEF registry
  <2>5. CASE todo = NoEntries
    <3>1. \/ pc'[w] = "idle" /\ ctx[w].msg.kind = "message"
          \/ pc'[w] = "reply" /\ ctx'[w] = ctx[w]
      BY <1>3, <2>2, <2>5 DEF Finish
    <3> QED
      BY <1>1, <1>2, <2>1, <2>2, <2>3, <2>5, <3>1 DEF registry
  <2> QED
    BY <2>4, <2>5
<1>6. CASE Deliver(w)
  <2>1. PICK u \in DOMAIN ctx[w].todo :
          /\ outbox' = [outbox EXCEPT ![ctx[w].todo[u]] = Append(@, ctx[w].msg)]
          /\ IF Erase(ctx[w].todo, u) # NoEntries
               THEN Goto(w, "deliver", [ctx[w] EXCEPT !.todo = Erase(ctx[w].todo, u)])
             ELSE IF ctx[w].msg.kind = "message" THEN Finish(w)
             ELSE Goto(w, "reply", [ctx[w] EXCEPT !.todo = Erase(ctx[w].todo, u)])
    BY <1>6, Zenon DEF Deliver
  <2>2. PICK rest, c : rest = Erase(ctx[w].todo, u) /\ c = [ctx[w] EXCEPT !.todo = rest]
    OBVIOUS
  <2>3. /\ c.s = ctx[w].s /\ c.user = ctx[w].user /\ c.room = ctx[w].room
        /\ c.msg = ctx[w].msg /\ c.todo = rest
    BY <1>4, <2>2
  <2>4. /\ UNCHANGED registry /\ pc[w] = "deliver" /\ ~Snapshot(w)
    BY <1>6 DEF Deliver, Snapshot, AtStep
  <2>5. ctx[w].todo[u] \in Sessions
    BY <1>2, MapsIntoIsMap DEF Context, IsMap
  <2>6. \/ rest # NoEntries /\ pc'[w] = "deliver" /\ ctx'[w] = c
        \/ rest = NoEntries /\ pc'[w] = "idle" /\ ctx[w].msg.kind = "message"
        \/ rest = NoEntries /\ pc'[w] = "reply" /\ ctx'[w] = c
    BY <1>3, <2>1, <2>2 DEF Finish
  <2>7. \E x \in DOMAIN ctx[w].todo :
          /\ pc[w] = "deliver" /\ ctx[w].todo[x] \in Sessions
          /\ outbox' = [outbox EXCEPT ![ctx[w].todo[x]] = Append(@, ctx[w].msg)]
          /\ IF Erase(ctx[w].todo, x) # NoEntries
               THEN pc'[w] = "deliver" /\ ctx'[w].todo = Erase(ctx[w].todo, x)
               ELSE pc'[w] # "deliver"
    BY <2>1, <2>2, <2>3, <2>4, <2>5, <2>6
  <2> QED
    BY <1>1, <1>2, <2>3, <2>4, <2>6, <2>7 DEF registry
<1> QED
  BY <1>5, <1>6

\* The lone thread goes on knowing what it knew, or knows what it just saw.
LEMMA AwareStays ==
  ASSUME OneThread, IInv, AwareInv, NEW w \in Workers, WorkerStep(w), ~Take(w)
  PROVE  AwareInv'
<1>1. /\ UNCHANGED <<queue, net>> /\ ~Idles(pc[w])
      /\ Idles(pc'[w]) \/ (ctx'[w].s = ctx[w].s /\ ctx'[w].n = ctx[w].n)
  BY Proceeds
<1>2. \A i \in DOMAIN queue' : queue'[i].n = 0 => queue'[i].s \in is_closed'
  BY <1>1 DEF AwareInv, net
<1>3. \A v \in Workers : v = w
  BY DEF OneThread
<1>4. Aware(pc[w], ctx[w])
  BY DEF AwareInv
<1>5. ~Idles(pc'[w]) /\ ctx'[w].n = 0 => ctx'[w].s \in is_closed'
  BY <1>1, <1>4 DEF Aware, net
<1>6. CASE Join(w) \/ Leave(w)
  <2>1. PICK u, r : u = ctx[w].user /\ r = ctx[w].arg
    OBVIOUS
  <2>2. /\ pc'[w] = "snapshot" /\ ctx'[w].room = r /\ ctx'[w].user = u
        /\ ctx'[w].msg = Notice(w, IF Join(w) THEN "joined" ELSE "left")
        /\ u \in Users /\ r \in RoomNames /\ ctx[w].s \in Sessions
    BY <1>6, <2>1, Announced
  <2>3. ctx'[w].msg.room = r /\ ctx'[w].msg.kind = IF Join(w) THEN "joined" ELSE "left"
    BY <2>1, <2>2 DEF Notice
  <2>4. ASSUME ctx'[w].msg.kind = "left" PROVE ~Inside(u, r)'
    <3>1. RS!LeaveRoom(u, r)
      BY <1>6, <2>1, <2>3, <2>4 DEF Leave
    <3> QED
      BY <2>2, <3>1, SeatMoves DEF Inside
  <2>5. PICK d : d = ctx'[w]
    OBVIOUS
  <2>6. d.msg.kind = "left" => ~Inside(d.user, d.room)'
    BY <2>2, <2>4, <2>5
  <2>7. Aware("snapshot", d)'
    BY <1>5, <2>2, <2>3, <2>5, <2>6 DEF Aware, Announces, Idles
  <2>8. Aware(pc[w], ctx[w])'
    BY <2>2, <2>5, <2>7 DEF Aware, Announces, Inside, SeatOn, RSP!SeatIn, Idles
  <2> QED
    BY <1>2, <1>3, <2>8 DEF AwareInv
<1>7. CASE Snapshot(w) \/ Deliver(w)
  <2>1. /\ UNCHANGED <<userToRoomMap, activeRooms>>
        /\ pc[w] \in {"snapshot", "deliver"} /\ pc'[w] \in {"idle", "deliver", "reply"}
        /\ pc'[w] = "deliver" =>
             ctx'[w].user = ctx[w].user /\ ctx'[w].room = ctx[w].room /\ ctx'[w].msg = ctx[w].msg
    BY <1>7, TellsOn
  <2>2. ASSUME pc'[w] = "deliver", NEW v \in DOMAIN ctx'[w].todo
        PROVE  SeatOn(v, ctx[w].room, ctx'[w].todo[v])
    <3>1. CASE Snapshot(w)
      <4>1. ctx'[w].todo = RS!Recipients(ctx[w].room, Excluded(w))
        BY <2>2, <3>1, TellsOn
      <4> QED
        BY <2>2, <4>1 DEF RS!Recipients, RS!Restrict, RS!NoEntries, SeatOn, RSP!SeatIn
    <3>2. CASE Deliver(w)
      <4>1. PICK x : pc[w] = "deliver" /\ ctx'[w].todo = Erase(ctx[w].todo, x)
        BY <2>2, <3>2, TellsOn
      <4>2. v \in DOMAIN ctx[w].todo /\ ctx'[w].todo[v] = ctx[w].todo[v]
        BY <2>2, <4>1 DEF Erase, Restrict
      <4> QED
        BY <1>4, <4>1, <4>2 DEF Aware
    <3> QED
      BY <1>7, <3>1, <3>2
  <2>3. PICK q, d : q = pc'[w] /\ d = ctx'[w]
    OBVIOUS
  <2>4. q = "deliver" => \A v \in DOMAIN d.todo : SeatOn(v, d.room, d.todo[v])'
    BY <2>1, <2>2, <2>3 DEF SeatOn, RSP!SeatIn
  <2>5. Announces(q, d) =>
          /\ d.msg.room = d.room
          /\ d.msg.kind = "left" => ~Inside(d.user, d.room)'
    BY <1>4, <2>1, <2>3 DEF Aware, Announces, Inside
  <2>6. Aware(q, d)'
    BY <1>5, <2>1, <2>3, <2>4, <2>5 DEF Aware, Announces
  <2>7. Aware(pc[w], ctx[w])'
    BY <2>3, <2>6
  <2> QED
    BY <1>2, <1>3, <2>7 DEF AwareInv
<1>8. CASE Insert(w)
  <2>1. PICK r : r = ctx[w].arg
    OBVIOUS
  <2>2. ~RS!Known(r) /\ activeRooms' = activeRooms
    BY <1>8, <2>1 DEF Insert, RS!AddRoom, RS!Insert, RS!seating
  <2>3. r \notin DOMAIN activeRooms
    BY <2>2 DEF IInv, RSP!IInv, RSP!RoomMirrorsRow, RSP!Known, RS!Known
  <2>4. pc'[w] = "create" /\ ctx'[w].arg = r
    <3>1. pc[w] = "insert"
      BY <1>8 DEF Insert, AtStep
    <3>2. ctx[w] \in Context
      BY <3>1, AtLabel
    <3>3. PICK id : Goto(w, "create", [ctx[w] EXCEPT !.found = id])
      BY <1>8 DEF Insert
    <3>4. pc'[w] = "create" /\ ctx'[w] = [ctx[w] EXCEPT !.found = id]
      BY <3>3 DEF Goto, IInv, TypedThreads
    <3> QED
      BY <2>1, <3>2, <3>4 DEF Context
  <2>5. Aware(pc[w], ctx[w])'
    BY <1>5, <2>2, <2>3, <2>4 DEF Aware, Announces
  <2> QED
    BY <1>2, <1>3, <2>5 DEF AwareInv
<1>9. CASE Target(w)
  <2>1. pc[w] = "target" /\ ctx[w] \in Context /\ ctx[w].msg \in Messages
    BY <1>9, AtLabel DEF Target, AtStep, Shape
  <2>2. PICK r, m : /\ m = [ctx[w].msg EXCEPT !.to = r]
                    /\ Goto(w, "snapshot", [ctx[w] EXCEPT !.room = r, !.msg = m])
    BY <1>9 DEF Target, Broadcast
  <2>3. m.kind = "message"
    BY <2>1, <2>2 DEF Messages
  <2>4. pc'[w] = "snapshot" /\ ctx'[w] = [ctx[w] EXCEPT !.room = r, !.msg = m]
    BY <2>2 DEF Goto, IInv, TypedThreads
  <2>5. ctx'[w].msg = m
    BY <2>1, <2>4 DEF Context
  <2>6. Aware(pc[w], ctx[w])'
    BY <1>5, <2>3, <2>4, <2>5 DEF Aware, Announces
  <2> QED
    BY <1>2, <1>3, <2>6 DEF AwareInv
<1>10. CASE pc'[w] \notin {"snapshot", "deliver", "create"}
  <2>1. Aware(pc[w], ctx[w])'
    BY <1>5, <1>10 DEF Aware, Announces
  <2> QED
    BY <1>2, <1>3, <2>1 DEF AwareInv
<1> QED
  BY <1>6, <1>7, <1>8, <1>9, <1>10, ComesTo

\* No step takes that from it.
LEMMA AwareKept ==
  ASSUME OneThread, IInv, OwnInv, AwareInv, [Next]_vars
  PROVE  AwareInv'
<1>1. queue \in Seq(Task)
  BY DEF IInv, TypedNet
<1>2. CASE UNCHANGED vars
  BY <1>2 DEF vars, registry, net, AwareInv, Aware, Announces, Inside, SeatOn, RSP!SeatIn
<1>3. ASSUME NEW t \in Sessions, Receive(t) \/ ReadError(t) \/ WriteError(t) PROVE AwareInv'
  <2>1. UNCHANGED <<registry, pc, ctx>>
    BY <1>3 DEF Receive, ReadError, WriteError
  <2>2. PICK n, req :
          \/ UNCHANGED <<queue, is_closed>>
          \/ /\ Post(t, n, req) /\ is_closed \subseteq is_closed'
             /\ n = 0 => t \in is_closed'
    BY <1>3 DEF Receive, ReadError, WriteError, HandleError, IInv, TypedNet
  <2>3. is_closed \subseteq is_closed'
    BY <2>2
  <2>4. \A v \in Workers : Aware(pc[v], ctx[v])'
    BY <2>1, <2>3 DEF registry, AwareInv, Aware, Announces, Inside, SeatOn, RSP!SeatIn
  <2>5. ASSUME NEW i \in DOMAIN queue', queue'[i].n = 0 PROVE queue'[i].s \in is_closed'
    <3>1. CASE UNCHANGED <<queue, is_closed>>
      BY <2>5, <3>1 DEF AwareInv
    <3>2. CASE Post(t, n, req) /\ (n = 0 => t \in is_closed')
      <4>1. PICK x : x = [s |-> t, n |-> n, req |-> req]
        OBVIOUS
      <4>2. x.s = t /\ x.n = n /\ queue' = Append(queue, x)
        BY <3>2, <4>1 DEF Post
      <4>3. queue'[i] = x \/ (i \in DOMAIN queue /\ queue'[i] = queue[i])
        BY <1>1, <2>5, <4>2
      <4> QED
        BY <2>3, <2>5, <3>2, <4>2, <4>3 DEF AwareInv
    <3> QED
      BY <2>2, <3>1, <3>2
  <2> QED
    BY <2>4, <2>5 DEF AwareInv
<1>4. ASSUME NEW w \in Workers, Take(w) PROVE AwareInv'
  <2>1. PICK t : t = Head(queue)
    OBVIOUS
  <2>2. /\ queue # <<>> /\ queue' = Tail(queue) /\ UNCHANGED <<registry, net>>
        /\ \/ UNCHANGED <<pc, ctx>>
           \/ /\ pc'[w] \notin {"snapshot", "deliver", "create"}
              /\ ctx'[w].s = t.s /\ ctx'[w].n = t.n
    BY <1>4, <2>1, TakeIs DEF Refuses, Starts
  <2>3. t.n = 0 => t.s \in is_closed'
    <3>1. 1 \in DOMAIN queue /\ t = queue[1]
      BY <1>1, <2>1, <2>2
    <3> QED
      BY <2>2, <3>1 DEF AwareInv, net
  <2>4. \A i \in DOMAIN queue' : queue'[i].n = 0 => queue'[i].s \in is_closed'
    <3>1. \A i \in DOMAIN queue' : i + 1 \in DOMAIN queue /\ queue'[i] = queue[i + 1]
      BY <1>1, <2>2
    <3> QED
      BY <2>2, <3>1 DEF AwareInv, net
  <2>5. \A v \in Workers : v = w
    BY DEF OneThread
  <2>6. Aware(pc[w], ctx[w])'
    <3>1. CASE UNCHANGED <<pc, ctx>>
      BY <2>2, <3>1 DEF registry, net, AwareInv, Aware, Announces, Inside, SeatOn, RSP!SeatIn
    <3>2. CASE /\ pc'[w] \notin {"snapshot", "deliver", "create"}
               /\ ctx'[w].s = t.s /\ ctx'[w].n = t.n
      BY <2>3, <3>2 DEF Aware, Announces
    <3> QED
      BY <2>2, <3>1, <3>2
  <2> QED
    BY <2>4, <2>5, <2>6 DEF AwareInv
<1>5. ASSUME NEW w \in Workers, WorkerStep(w), ~Take(w) PROVE AwareInv'
  BY <1>5, AwareStays
<1> QED
  BY <1>2, <1>3, <1>4, <1>5 DEF Next

\* No two clients log in as the same user.
OneClientPerUser ==
  \A s, t \in Sessions : \A u \in LoginsOf(s) \cap LoginsOf(t) : s = t

\* The envelope is about u; or it answers a request that may have moved its session.
About(e, u) == e.kind \in {"joined", "left"} /\ e.user = u
Resets(e) == e.kind = "reply" /\ e.ok

\* The i-th envelope is what t last heard of u, if t has not moved since.
Hears(i, t, u) ==
  /\ i \in DOMAIN outbox[t] /\ About(outbox[t][i], u)
  /\ \A k \in DOMAIN outbox[t] : About(outbox[t][k], u) \/ Resets(outbox[t][k]) => k <= i

\* Why t may have heard that u has left r: somebody else sits there on t and u is
\* out; or t is being moved; or t is going to hear that u is back.
Apart(t, u, r) == (\E v \in Users \ {u} : SeatOn(v, r, t)) /\ ~Inside(u, r)
Moved(t) == \E w \in Workers : ctx[w].s = t /\ (pc[w] = "reply" \/ Announces(pc[w], ctx[w]))
Returns(t, u) ==
  \E w \in Workers :
    /\ Announces(pc[w], ctx[w]) /\ ctx[w].msg.kind = "joined" /\ ctx[w].user = u
    /\ pc[w] = "snapshot" => \E v \in Users \ {u} : SeatOn(v, ctx[w].room, t)
    /\ pc[w] = "deliver" => \E v \in DOMAIN ctx[w].todo : ctx[w].todo[v] = t
Explained(t, u, r) == Apart(t, u, r) \/ Moved(t) \/ Returns(t, u)

LeftInv ==
  \A t \in Sessions \ is_closed, u \in Users : \A i :
    Hears(i, t, u) /\ outbox[t][i].kind = "left" => Explained(t, u, outbox[t][i].room)

\* What t last heard after an envelope more.
LEMMA HearsAppend ==
  ASSUME NEW t, outbox[t] \in Seq(Envelope), NEW e, outbox'[t] = Append(outbox[t], e),
         NEW i, NEW u, Hears(i, t, u)'
  PROVE  \/ outbox'[t][i] = e /\ About(e, u)
         \/ /\ Hears(i, t, u) /\ outbox'[t][i] = outbox[t][i]
            /\ ~About(e, u) /\ ~Resets(e)
<1>1. PICK q, r : q = outbox[t] /\ r = outbox'[t]
  OBVIOUS
<1>2. /\ DOMAIN r = 1..(Len(q) + 1) /\ DOMAIN q = 1..Len(q) /\ Len(q) \in Nat
      /\ \A k \in DOMAIN q : r[k] = q[k]
      /\ r[Len(q) + 1] = e
  BY <1>1
<1>3. /\ i \in DOMAIN r /\ About(r[i], u)
      /\ \A k \in DOMAIN r : About(r[k], u) \/ Resets(r[k]) => k <= i
  BY <1>1 DEF Hears, About, Resets
<1>4. CASE i = Len(q) + 1
  BY <1>1, <1>2, <1>3, <1>4
<1>5. CASE i # Len(q) + 1
  <2>1. i \in DOMAIN q /\ r[i] = q[i]
    BY <1>2, <1>3, <1>5
  <2>2. ~About(e, u) /\ ~Resets(e)
    <3>1. ~(Len(q) + 1 <= i) /\ Len(q) + 1 \in DOMAIN r
      BY <1>2, <2>1
    <3> QED
      BY <1>2, <1>3, <3>1
  <2>3. \A k \in DOMAIN q : About(q[k], u) \/ Resets(q[k]) => k <= i
    BY <1>2, <1>3
  <2> QED
    BY <1>1, <1>3, <2>1, <2>2, <2>3 DEF Hears
<1> QED
  BY <1>4, <1>5

\* A session is sent one envelope at a time, and what it is told of who left is
\* true at that moment.
LEMMA SentLeft ==
  ASSUME IInv, OwnInv, AwareInv, [Next]_vars, NEW t \in Sessions
  PROVE  \/ outbox'[t] = outbox[t]
         \/ \E e : /\ outbox'[t] = Append(outbox[t], e)
                   /\ e.kind = "left" => Apart(t, e.user, e.room)'
<1> DEFINE Fine == \/ outbox'[t] = outbox[t]
                   \/ \E e : /\ outbox'[t] = Append(outbox[t], e)
                             /\ e.kind = "left" => Apart(t, e.user, e.room)'
<1>1. outbox \in [Sessions -> Seq(Envelope)]
  BY DEF IInv, TypedNet
<1>2. ASSUME NEW s, NEW m, m.kind # "left", outbox' = [outbox EXCEPT ![s] = Append(@, m)]
      PROVE  Fine
  BY <1>1, <1>2
<1>3. ASSUME NEW w \in Workers, NEW ok, Answer(w, Reply(w, ok)) PROVE Fine
  <2>1. PICK m : m = Reply(w, ok)
    OBVIOUS
  <2>2. m.kind # "left" /\ outbox' = [outbox EXCEPT ![ctx[w].s] = Append(@, m)]
    BY <1>3, <2>1 DEF Answer, Reply
  <2> QED
    BY <1>2, <2>2
<1>4. ASSUME NEW w \in Workers, Take(w) PROVE Fine
  <2>1. CASE UNCHANGED outbox
    BY <2>1
  <2>2. CASE Refuses
    <3>1. PICK m, s : m = Refusal(Head(queue)) /\ s = Head(queue).s
      OBVIOUS
    <3>2. m.kind # "left" /\ outbox' = [outbox EXCEPT ![s] = Append(@, m)]
      BY <2>2, <3>1 DEF Refuses, Refusal
    <3> QED
      BY <1>2, <3>2
  <2> QED
    BY <1>4, <2>1, <2>2, TakeIs DEF Starts
<1>5. ASSUME NEW w \in Workers, HistoryRead(w) PROVE Fine
  <2>1. PICK m : m = [kind |-> "history", re |-> Re(w), label |-> ctx[w].arg, id |-> ctx[w].found]
    OBVIOUS
  <2>2. m.kind # "left" /\ outbox' = [outbox EXCEPT ![ctx[w].s] = Append(@, m)]
    BY <1>5, <2>1 DEF HistoryRead, Answer
  <2> QED
    BY <1>2, <2>2
<1>6. ASSUME NEW w \in Workers, PrivateSend(w) PROVE Fine
  <2>1. PICK m : m = [kind |-> "private", re |-> Re(w), label |-> ctx[w].room]
    OBVIOUS
  <2>2. m.kind # "left" /\ \E s : outbox' = [outbox EXCEPT ![s] = Append(@, m)]
    BY <1>6, <2>1 DEF PrivateSend, Answer
  <2> QED
    BY <1>2, <2>2
<1>7. ASSUME NEW w \in Workers, Deliver(w) PROVE Fine
  <2>1. PICK x : /\ x \in DOMAIN ctx[w].todo /\ pc[w] = "deliver"
                 /\ outbox' = [outbox EXCEPT ![ctx[w].todo[x]] = Append(@, ctx[w].msg)]
    BY <1>7, TellsOn
  <2>2. PICK e, u, r : e = ctx[w].msg /\ u = ctx[w].user /\ r = ctx[w].room
    OBVIOUS
  <2>3. CASE ctx[w].todo[x] # t
    BY <1>1, <2>1, <2>3
  <2>4. CASE ctx[w].todo[x] = t
    <3>1. outbox'[t] = Append(outbox[t], e)
      BY <1>1, <2>1, <2>2, <2>4
    <3>2. ASSUME e.kind = "left" PROVE Apart(t, e.user, e.room)'
      <4>1. Announces("deliver", ctx[w])
        BY <2>2, <3>2 DEF Announces
      <4>2. Mine("deliver", ctx[w]) /\ Aware("deliver", ctx[w])
        BY <2>1 DEF OwnInv, AwareInv
      <4>3. e.user = u /\ e.room = r /\ ~Inside(u, r) /\ SeatOn(x, r, t) /\ x # u
        BY <2>1, <2>2, <2>4, <3>2, <4>1, <4>2 DEF Mine, Aware
      <4>4. x \in Users
        BY <4>3, SittersAreUsers
      <4>5. Apart(t, u, r)
        BY <4>3, <4>4 DEF Apart
      <4>6. UNCHANGED <<userToRoomMap, activeRooms>>
        BY <1>7, TellsOn
      <4>7. Apart(t, u, r)'
        BY <4>5, <4>6 DEF Apart, SeatOn, RSP!SeatIn, Inside
      <4> QED
        BY <4>3, <4>7
    <3> QED
      BY <3>1, <3>2
  <2> QED
    BY <2>3, <2>4
<1>8. ASSUME NEW w \in Workers, Disconnect(w) PROVE Fine
  <2>1. PICK u, r : u = identity[ctx[w].s].userId /\ r = RS!CurrentRoomName(u, None)
    OBVIOUS
  <2>2. PICK told, m : /\ told = RS!Recipients(r, {u})
                       /\ m = [kind |-> "left", re |-> Re(w), user |-> u, room |-> r]
    OBVIOUS
  <2>3. \/ outbox'[t] = outbox[t]
        \/ t \in Range(told) /\ outbox'[t] = Append(outbox[t], m)
    BY <1>8, <2>1, <2>2, DisconnectSends
  <2>4. ASSUME t \in Range(told) PROVE Apart(t, u, r)'
    <3>1. PICK v : v \in DOMAIN told /\ told[v] = t
      BY <2>4 DEF Range
    <3>2. v # u /\ SeatOn(v, r, t)
      BY <2>2, <3>1 DEF RS!Recipients, RS!Restrict, RS!NoEntries, SeatOn, RSP!SeatIn
    <3>3. v \in Users
      BY <3>2, SittersAreUsers
    <3>4. ctx[w].s \in Sessions /\ SM!Authenticated(ctx[w].s)
      BY <1>8, AtLabel, Zenon DEF Disconnect, AtStep, Holds
    <3>5. u \in Users
      BY <2>1, <3>4, IdentityType DEF IInv
    <3>6. RS!HandleDisconnect(u)
      BY <1>8, <2>1, Zenon DEF Disconnect
    <3>7. RSP!MovesOnly(u) /\ u \notin DOMAIN userToRoomMap'
      BY <3>4, <3>5, <3>6, DisconnectMoves
    <3>8. SeatOn(v, r, t)'
      BY <3>2, <3>7 DEF SeatOn, RSP!MovesOnly
    <3> QED
      BY <3>2, <3>3, <3>7, <3>8 DEF Apart, Inside
  <2>5. m.user = u /\ m.room = r
    BY <2>2
  <2> QED
    BY <2>3, <2>4, <2>5
<1>9. ASSUME NEW w \in Workers, WorkerStep(w)
      PROVE  \/ UNCHANGED outbox \/ \E ok \in BOOLEAN : Answer(w, Reply(w, ok))
             \/ Take(w) \/ Deliver(w) \/ HistoryRead(w) \/ PrivateSend(w) \/ Disconnect(w)
  BY <1>9 DEF WorkerStep, LoginRefused, Login, SendReply, JoinLookup, Join, Leave, CreateLookup,
     Insert, InsertFails, InsertThrows, Create, Snapshot, HistoryCheck, HistoryId, HistoryCrash,
     RoomName, RoomId, Store, StoreThrows, Target, PrivateFind, RemoveSession
<1>10. ASSUME NEW s \in Sessions, Receive(s) \/ ReadError(s) \/ WriteError(s)
       PROVE  UNCHANGED outbox
  BY <1>10 DEF Receive, ReadError, WriteError
<1>11. CASE UNCHANGED outbox
  BY <1>11
<1>12. CASE UNCHANGED vars
  BY <1>11, <1>12 DEF vars
<1>13. Fine
  BY <1>3, <1>4, <1>5, <1>6, <1>7, <1>8, <1>9, <1>10, <1>11, <1>12 DEF Next
<1> QED
  BY <1>13

\* Somebody else goes on sitting on t while u stays out, until t or u is moved.
LEMMA ApartStays ==
  ASSUME OneClientPerUser, IInv, OwnInv, AwareInv, [Next]_vars,
         NEW t \in Sessions \ is_closed, NEW u \in Users, NEW r, Apart(t, u, r)
  PROVE  Explained(t, u, r)'
<1>1. PICK v \in Users \ {u} : SeatOn(v, r, t)
  BY DEF Apart
<1>2. r \in DOMAIN activeRooms /\ ~Inside(u, r) /\ identity[t].userId = v
  BY <1>1 DEF Apart, SeatOn, RSP!SeatIn, OwnInv, SeatsOwn
<1>3. None \notin Users
  BY ServerAssumption DEF ServerAssumption
<1>4. CASE UNCHANGED <<userToRoomMap, activeRooms>>
  <2>1. Apart(t, u, r)'
    BY <1>4 DEF Apart, SeatOn, RSP!SeatIn, Inside
  <2> QED
    BY <2>1 DEF Explained
<1>5. ASSUME NEW w \in Workers, NEW x \in Users,
             ctx[w].s \in Sessions, identity[ctx[w].s].userId = x, RSP!MovesOnly(x),
             \/ x \notin DOMAIN userToRoomMap' /\ (Leave(w) \/ Disconnect(w))
             \/ RSP!Settles(x, ctx[w].arg, ctx[w].s) /\ (Join(w) \/ Create(w))
      PROVE  Explained(t, u, r)'
  <2>1. Create(w) =>
          pc'[w] = "reply" /\ ctx'[w].s = ctx[w].s /\ pc[w] = "create" /\ Aware("create", ctx[w])
    <3>1. CASE Create(w)
      <4>1. pc[w] = "create" /\ Goto(w, "reply", ctx[w])
        BY <3>1 DEF Create, AtStep
      <4>2. pc'[w] = "reply" /\ ctx'[w] = ctx[w]
        BY <4>1 DEF Goto, IInv, TypedThreads
      <4> QED
        BY <4>1, <4>2 DEF AwareInv
    <3> QED
      BY <3>1
  <2>2. CASE x = v
    <3>1. ctx[w].s = t
      <4>1. x \in LoginsOf(ctx[w].s) /\ x \in LoginsOf(t)
        BY <1>2, <1>3, <1>5, <2>2 DEF OwnInv
      <4> QED
        BY <1>5, <4>1 DEF OneClientPerUser
    <3>2. ~Disconnect(w)
      <4>1. SUFFICES ASSUME Disconnect(w) PROVE FALSE
        OBVIOUS
      <4>2. pc[w] = "disconnect" /\ Mine("disconnect", ctx[w]) /\ Aware("disconnect", ctx[w])
        BY <4>1, Zenon DEF Disconnect, AtStep, OwnInv, AwareInv
      <4> QED
        BY <3>1, <4>2 DEF Mine, Aware, Idles
    <3>3. CASE Join(w) \/ Leave(w)
      <4>1. PICK m : m = Notice(w, IF Join(w) THEN "joined" ELSE "left")
        OBVIOUS
      <4>2. pc'[w] = "snapshot" /\ ctx'[w].s = t /\ ctx'[w].msg = m
        BY <3>1, <3>3, <4>1, Announced
      <4>3. m.kind # "message"
        BY <4>1 DEF Notice
      <4>4. Moved(t)'
        BY <4>2, <4>3 DEF Moved, Announces
      <4> QED
        BY <4>4 DEF Explained
    <3>4. CASE Create(w)
      <4>1. Moved(t)'
        BY <2>1, <3>1, <3>4 DEF Moved
      <4> QED
        BY <4>1 DEF Explained
    <3> QED
      BY <1>5, <3>2, <3>3, <3>4
  <2>3. CASE x # v
    <3>1. SeatOn(v, r, t)'
      BY <1>1, <1>5, <2>3 DEF SeatOn, RSP!MovesOnly
    <3>2. CASE ~Inside(u, r)'
      <4>1. Apart(t, u, r)'
        BY <1>1, <3>1, <3>2 DEF Apart
      <4> QED
        BY <4>1 DEF Explained
    <3>3. CASE Inside(u, r)'
      <4>1. x = u
        BY <1>2, <1>5, <3>3 DEF RSP!MovesOnly, Inside
      <4>2. RSP!Settles(u, ctx[w].arg, ctx[w].s) /\ (Join(w) \/ Create(w))
        BY <1>5, <3>3, <4>1 DEF Inside
      <4>3. ctx[w].arg = r
        BY <3>3, <4>2 DEF Inside, RSP!Settles
      <4>4. ~Create(w)
        BY <1>2, <2>1, <4>3 DEF Aware
      <4>5. PICK m : m = Notice(w, "joined")
        OBVIOUS
      <4>6. pc'[w] = "snapshot" /\ ctx'[w].msg = m /\ ctx'[w].room = r /\ ctx'[w].user = ctx[w].user
        BY <4>2, <4>3, <4>4, <4>5, Announced
      <4>7. ctx[w].user = u
        <5>1. pc[w] = "join"
          BY <4>2, <4>4 DEF Join, AtStep
        <5>2. Mine("join", ctx[w])
          BY <5>1 DEF OwnInv
        <5> QED
          BY <1>5, <4>1, <5>2 DEF Mine, WithUser, PC
      <4>8. m.kind = "joined"
        BY <4>5 DEF Notice
      <4>9. PICK d : d = ctx'[w]
        OBVIOUS
      <4>10. Announces("snapshot", d) /\ d.msg.kind = "joined" /\ d.user = u /\ d.room = r
        BY <4>6, <4>7, <4>8, <4>9 DEF Announces
      <4>11. Returns(t, u)'
        BY <1>1, <3>1, <4>6, <4>9, <4>10 DEF Returns
      <4> QED
        BY <4>11 DEF Explained
    <3> QED
      BY <3>2, <3>3
  <2> QED
    BY <2>2, <2>3
<1> QED
  BY <1>4, <1>5, SeatsMove

\* A thread that moves t, or tells it that u is back, goes on until t has heard.
LEMMA TellingStays ==
  ASSUME OneThread, IInv, OwnInv, [Next]_vars,
         NEW t \in Sessions, NEW u \in Users, Moved(t) \/ Returns(t, u)
  PROVE  \/ Moved(t)' \/ Returns(t, u)'
         \/ \E e : outbox'[t] = Append(outbox[t], e) /\ (About(e, u) \/ Resets(e))
<1> DEFINE Heeded == \E e : outbox'[t] = Append(outbox[t], e) /\ (About(e, u) \/ Resets(e))
<1>1. PICK w \in Workers :
        \/ ctx[w].s = t /\ pc[w] = "reply"
        \/ ctx[w].s = t /\ Announces(pc[w], ctx[w])
        \/ /\ Announces(pc[w], ctx[w]) /\ ctx[w].msg.kind = "joined" /\ ctx[w].user = u
           /\ pc[w] = "snapshot" => \E v \in Users \ {u} : SeatOn(v, ctx[w].room, t)
           /\ pc[w] = "deliver" => \E v \in DOMAIN ctx[w].todo : ctx[w].todo[v] = t
  BY DEF Moved, Returns
<1>2. pc[w] \in {"reply", "snapshot", "deliver"} /\ outbox \in [Sessions -> Seq(Envelope)]
  BY <1>1 DEF Announces, IInv, TypedNet
<1>3. CASE UNCHANGED <<pc, ctx, activeRooms>>
  <2>1. Moved(t)' <=> Moved(t)
    BY <1>3 DEF Moved, Announces
  <2>2. Returns(t, u)' <=> Returns(t, u)
    BY <1>3 DEF Returns, Announces, SeatOn, RSP!SeatIn
  <2> QED
    BY <2>1, <2>2
<1>4. CASE SendReply(w)
  <2>1. PICK m : m = Reply(w, TRUE)
    OBVIOUS
  <2>2. outbox' = [outbox EXCEPT ![ctx[w].s] = Append(@, m)] /\ pc[w] = "reply" /\ Resets(m)
    BY <1>4, <2>1 DEF SendReply, AtStep, Answer, Reply, Resets
  <2>3. ctx[w].s = t
    BY <1>1, <2>2 DEF Announces
  <2>4. outbox'[t] = Append(outbox[t], m)
    BY <1>2, <2>2, <2>3
  <2> QED
    BY <2>2, <2>4
<1>5. CASE Snapshot(w) \/ Deliver(w)
  <2>1. /\ pc[w] \in {"snapshot", "deliver"} /\ UNCHANGED <<userToRoomMap, activeRooms>>
        /\ pc'[w] \in {"idle", "deliver", "reply"}
        /\ ctx[w].msg.kind # "message" => pc'[w] # "idle"
        /\ pc'[w] \in {"deliver", "reply"} =>
             /\ ctx'[w].s = ctx[w].s /\ ctx'[w].user = ctx[w].user
             /\ ctx'[w].room = ctx[w].room /\ ctx'[w].msg = ctx[w].msg
    BY <1>5, TellsOn
  <2>2. PICK q, d : q = pc'[w] /\ d = ctx'[w]
    OBVIOUS
  <2>3. /\ ctx[w].msg.kind # "message" /\ q \in {"deliver", "reply"}
        /\ d.s = ctx[w].s /\ d.user = ctx[w].user /\ d.room = ctx[w].room /\ d.msg = ctx[w].msg
    BY <1>1, <2>1, <2>2 DEF Announces
  <2>4. CASE ctx[w].s = t
    <3>1. d.s = t /\ (q = "reply" \/ Announces(q, d))
      BY <2>3, <2>4 DEF Announces
    <3>2. Moved(t)'
      BY <2>2, <3>1 DEF Moved
    <3> QED
      BY <3>2
  <2>5. CASE /\ ctx[w].msg.kind = "joined" /\ ctx[w].user = u
             /\ pc[w] = "snapshot" => \E v \in Users \ {u} : SeatOn(v, ctx[w].room, t)
             /\ pc[w] = "deliver" => \E v \in DOMAIN ctx[w].todo : ctx[w].todo[v] = t
    <3>1. ASSUME q = "deliver", NEW y \in DOMAIN d.todo, d.todo[y] = t
          PROVE  Returns(t, u)'
      <4>1. Announces(q, d) /\ d.msg.kind = "joined" /\ d.user = u
        BY <2>3, <2>5, <3>1 DEF Announces
      <4> QED
        BY <2>2, <3>1, <4>1 DEF Returns
    <3>2. CASE Snapshot(w)
      <4>1. PICK todo : todo = RS!Recipients(ctx[w].room, Excluded(w))
        OBVIOUS
      <4>2. pc[w] = "snapshot"
        BY <3>2 DEF Snapshot, AtStep
      <4>3. PICK v \in Users \ {u} : SeatOn(v, ctx[w].room, t)
        BY <2>5, <4>2
      <4>4. v \in DOMAIN todo /\ todo[v] = t
        BY <2>5, <4>1, <4>3 DEF Excluded, SeatOn, RSP!SeatIn, RS!Recipients, RS!Restrict
      <4>5. todo # NoEntries
        BY <4>4 DEF NoEntries
      <4>6. q = "deliver" /\ d.todo = todo
        BY <2>2, <3>2, <4>1, <4>5, TellsOn
      <4> QED
        BY <3>1, <4>4, <4>6
    <3>3. CASE Deliver(w)
      <4>1. PICK x \in DOMAIN ctx[w].todo :
              /\ pc[w] = "deliver"
              /\ outbox' = [outbox EXCEPT ![ctx[w].todo[x]] = Append(@, ctx[w].msg)]
              /\ IF Erase(ctx[w].todo, x) # NoEntries
                   THEN pc'[w] = "deliver" /\ ctx'[w].todo = Erase(ctx[w].todo, x)
                   ELSE pc'[w] # "deliver"
        BY <3>3, TellsOn
      <4>2. PICK y \in DOMAIN ctx[w].todo : ctx[w].todo[y] = t
        BY <2>5, <4>1
      <4>3. CASE ctx[w].todo[x] = t
        <5>1. outbox'[t] = Append(outbox[t], ctx[w].msg)
          BY <1>2, <4>1, <4>3
        <5>2. About(ctx[w].msg, u)
          <6>1. Mine("deliver", ctx[w])
            BY <4>1 DEF OwnInv
          <6> QED
            BY <2>3, <2>5, <6>1 DEF Mine, About
        <5> QED
          BY <5>1, <5>2
      <4>4. CASE ctx[w].todo[x] # t
        <5>1. PICK rest : rest = Erase(ctx[w].todo, x)
          OBVIOUS
        <5>2. y \in DOMAIN rest /\ rest[y] = t
          BY <4>2, <4>4, <5>1 DEF Erase, Restrict
        <5>3. rest # NoEntries
          BY <5>2 DEF NoEntries
        <5>4. q = "deliver" /\ d.todo = rest
          BY <2>2, <4>1, <5>1, <5>3
        <5> QED
          BY <3>1, <5>2, <5>4
      <4> QED
        BY <4>3, <4>4
    <3> QED
      BY <1>5, <3>2, <3>3
  <2> QED
    BY <1>1, <2>1, <2>4, <2>5
<1>6. ASSUME NEW v \in Workers, WorkerStep(v) PROVE SendReply(w) \/ Snapshot(w) \/ Deliver(w)
  <2>1. v = w
    BY DEF OneThread
  <2> QED
    BY <1>2, <1>6, <2>1, Zenon DEF WorkerStep, AtStep, Take, LoginRefused, Login, JoinLookup, Join, Leave,
       CreateLookup, Insert, InsertFails, InsertThrows, Create, HistoryCheck, HistoryId,
       HistoryRead, HistoryCrash, RoomName, RoomId, Store, StoreThrows, Target, PrivateFind,
       PrivateSend, Disconnect, RemoveSession
<1>7. ASSUME NEW s \in Sessions, Receive(s) \/ ReadError(s) \/ WriteError(s)
      PROVE  UNCHANGED <<pc, ctx, activeRooms>>
  BY <1>7 DEF Receive, ReadError, WriteError, registry
<1>8. CASE UNCHANGED vars
  BY <1>3, <1>8 DEF vars, registry
<1> QED
  BY <1>3, <1>4, <1>5, <1>6, <1>7, <1>8 DEF Next

\* So what a session last heard of a user who left is true, or will be put right.
LEMMA LeftKept ==
  ASSUME OneThread, OneClientPerUser, IInv, OwnInv, AwareInv, LeftInv, [Next]_vars
  PROVE  LeftInv'
<1>1. is_closed \subseteq is_closed'
  BY Zenon DEF Next, vars, net, Receive, ReadError, WriteError, HandleError, WorkerStep, Take,
     LoginRefused, Login, SendReply, JoinLookup, Join, Leave, CreateLookup, Insert, InsertFails,
     InsertThrows, Create, Snapshot, Deliver, HistoryCheck, HistoryId, HistoryRead, HistoryCrash,
     RoomName, RoomId, Store, StoreThrows, Target, PrivateFind, PrivateSend, Disconnect,
     RemoveSession
<1> SUFFICES ASSUME NEW t \in Sessions, t \notin is_closed, NEW u \in Users, NEW i, NEW r,
                    Hears(i, t, u)', outbox'[t][i].kind = "left", r = outbox'[t][i].room
             PROVE  Explained(t, u, r)'
  BY <1>1 DEF LeftInv
<1>2. outbox[t] \in Seq(Envelope)
  BY DEF IInv, TypedNet
<1>3. ASSUME Hears(i, t, u), outbox'[t][i] = outbox[t][i],
             \A e : outbox'[t] = Append(outbox[t], e) => ~About(e, u) /\ ~Resets(e)
      PROVE  Explained(t, u, r)'
  <2>1. Explained(t, u, r)
    BY <1>3 DEF LeftInv
  <2>2. CASE Apart(t, u, r)
    BY <2>2, ApartStays
  <2>3. CASE Moved(t) \/ Returns(t, u)
    BY <1>3, <2>3, TellingStays DEF Explained
  <2> QED
    BY <2>1, <2>2, <2>3 DEF Explained
<1>4. CASE outbox'[t] = outbox[t]
  <2>1. Hears(i, t, u)
    BY <1>4 DEF Hears, About, Resets
  <2>2. \A e : outbox'[t] # Append(outbox[t], e)
    <3> SUFFICES ASSUME NEW e, outbox[t] = Append(outbox[t], e) PROVE FALSE
      BY <1>4
    <3>1. PICK q, x : q = outbox[t] /\ x = Append(q, e)
      OBVIOUS
    <3>2. Len(x) = Len(q) + 1 /\ Len(q) \in Nat
      BY <1>2, <3>1
    <3> QED
      BY <3>1, <3>2
  <2> QED
    BY <1>3, <1>4, <2>1, <2>2
<1>5. ASSUME NEW e, outbox'[t] = Append(outbox[t], e),
             e.kind = "left" => Apart(t, e.user, e.room)'
      PROVE  Explained(t, u, r)'
  <2>1. CASE outbox'[t][i] = e /\ About(e, u)
    BY <1>5, <2>1 DEF About, Explained
  <2>2. CASE /\ Hears(i, t, u) /\ outbox'[t][i] = outbox[t][i]
             /\ ~About(e, u) /\ ~Resets(e)
    <3>1. ASSUME NEW f, outbox'[t] = Append(outbox[t], f) PROVE f = e
      <4>1. PICK q, x : q = outbox[t] /\ x = outbox'[t]
        OBVIOUS
      <4>2. q \in Seq(Envelope) /\ x = Append(q, e) /\ x = Append(q, f)
        BY <1>2, <1>5, <3>1, <4>1
      <4>3. ASSUME NEW g, x = Append(q, g) PROVE x[Len(q) + 1] = g
        <5>1. q \in Seq(Envelope)
          BY <4>2
        <5> QED
          BY ONLY <4>3, <5>1
      <4> QED
        BY <4>2, <4>3
    <3> QED
      BY <1>3, <2>2, <3>1
  <2> QED
    BY <1>2, <1>5, <2>1, <2>2, HearsAppend
<1> QED
  BY <1>4, <1>5, SentLeft

\* With one thread, clients that log in as one user each and no two as the same, a
\* session that stayed where it was and heard that a user left the room is right
\* about it once all is handled (the notices of RoomService.cpp:49-55, 76-82 and
\* 166-172, sent after the lock of their section or under it).
THEOREM OneThreadTellsLeaves ==
  OneThread /\ OneUserPerClient /\ OneClientPerUser => (Spec => []LeftIsOut)
<1> SUFFICES ASSUME OneThread, OneUserPerClient, OneClientPerUser PROVE Spec => []LeftIsOut
  OBVIOUS
<1>1. Init => AwareInv /\ LeftInv
  <2> SUFFICES ASSUME Init PROVE AwareInv /\ LeftInv
    OBVIOUS
  <2>1. AwareInv
    BY DEF Init, AwareInv, Aware, Announces, Idles
  <2>2. \A t \in Sessions : \A i, u : ~Hears(i, t, u)
    BY DEF Init, Hears
  <2> QED
    BY <2>1, <2>2 DEF LeftInv
<1>2. IInv /\ OwnInv /\ AwareInv /\ [Next]_vars => AwareInv'
  BY AwareKept
<1>3. IInv /\ OwnInv /\ AwareInv /\ LeftInv /\ [Next]_vars => LeftInv'
  BY LeftKept
<1>4. IInv /\ LeftInv => LeftIsOut
  <2> SUFFICES ASSUME IInv, LeftInv, Quiet, NEW t \in Sessions \ is_closed, NEW u \in Users,
                      NEW m \in News(t, u), m.kind = "left"
               PROVE  RS!CurrentRoomName(u, None) # m.room
    BY DEF LeftIsOut
  <2>1. PICK i : Hears(i, t, u) /\ outbox[t][i] = m
    BY DEF News, Hears, About, Resets
  <2>2. Explained(t, u, m.room)
    BY <2>1 DEF LeftInv
  <2>3. ~Moved(t) /\ ~Returns(t, u)
    BY DEF Quiet, Moved, Returns, Announces
  <2>4. Apart(t, u, m.room)
    BY <2>2, <2>3 DEF Explained
  <2>5. m.room \in RoomNames /\ ~Inside(u, m.room)
    BY <2>4 DEF Apart, SeatOn, RSP!SeatIn, IInv, RSP!IInv, RSP!TypeOK, RSP!IsMap
  <2>6. None \notin RoomNames
    BY ServerAssumption DEF ServerAssumption
  <2> QED
    BY <2>5, <2>6 DEF Inside, RS!CurrentRoomName
<1> QED
  BY <1>1, <1>2, <1>3, <1>4, Invariance, Own, PTL DEF Spec
=============================================================================
