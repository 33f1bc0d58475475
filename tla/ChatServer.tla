------------------------------ MODULE ChatServer ----------------------------
(***************************************************************************)
(* The server as a whole (server/src/core/Server, the services and the     *)
(* parts of Session that feed them): threads take requests from the        *)
(* io_context and run the handlers, which work on the room registry        *)
(* (RoomService) and on the session registry (SessionManager).             *)
(*                                                                         *)
(* A handler is a sequence of steps: a database statement, a section under *)
(* the server's mutex, or a send.  Between two of them the other threads   *)
(* run.  Sessions post their messages to the io_context and not to their   *)
(* strand, so two requests of one session can be handled at once.          *)
(*                                                                         *)
(* Names of users do not change here, so a user stands for its name too.   *)
(*                                                                         *)
(* The operators called variants are slips the code does not make: with a  *)
(* variant in the place of the definition after it, a property fails.      *)
(***************************************************************************)
EXTENDS Maps, Sequences, FiniteSets

CONSTANTS Users, Sessions, RoomNames, RoomIds, Collate, LongNames,
          Workers,        \* threads in io_context.run()
          Main,           \* the thread of main(), if it is one of them
          Asks,           \* session -> for each request its client sends,
                          \* the choices it has
          QueueBound,     \* messages wait while this many tasks are queued
          Leavers,        \* sessions whose connection may end
          WritesMayFail,  \* a write on a leaver's connection may fail
          DbMayFail,      \* a database call may lose its connection
          None            \* nullopt, nullptr, "" and 0

VARIABLES rooms, creating, userToRoomMap, activeRooms,       \* RoomService
          identity, sessionsByUserId, sessionsByUsername, online, \* SessionManager
          messages,   \* table messages
          queue,      \* tasks posted to the io_context and not started
          pc, ctx,    \* where each worker is, and its handler's variables
          reading,    \* sessions whose read loop still runs
          is_closed,  \* sessions that have reported their disconnect
          sent,       \* session -> number of requests received from it
          outbox,     \* session -> the envelopes its send() was given
          up          \* the process runs

RS == INSTANCE RoomService
SM == INSTANCE SessionManager WITH Names <- Users, Nobody <- None, NoName <- None,
                                Exclusive <- FALSE

registry == <<rooms, creating, userToRoomMap, activeRooms>>
people == <<identity, sessionsByUserId, sessionsByUsername, online>>
net == <<reading, is_closed, sent>>
vars == <<registry, people, messages, queue, pc, ctx, net, outbox, up>>

Request ==
  [op : {"login"}, arg : Users] \cup [op : {"private"}, arg : Users]
    \cup [op : {"join", "leave", "create", "history"}, arg : RoomNames]
    \cup [op : {"public"}, arg : {None}]

ASSUME ServerAssumption ==
  /\ Asks \in [Sessions -> Seq(SUBSET Request)]
  /\ QueueBound \in Nat /\ IsFiniteSet(Users)
  /\ Collate \in [RoomNames -> RoomNames] /\ LongNames \subseteq RoomNames
  /\ None \notin Users \cup RoomNames \cup RoomIds \cup Sessions
  /\ Leavers \subseteq Sessions
  /\ {WritesMayFail, DbMayFail} \subseteq BOOLEAN

\* A task of the io_context: request number n of session s, or its onDisconnect.
Task == [s : Sessions, n : Nat,
         req : Request \cup {[op |-> "disconnect", arg |-> None]}]

\* The variables of a handler: its task; user, the id read when it started;
\* room, a room name read from the registry; found, what a lookup returned; msg,
\* the envelope to broadcast; todo, the sessions it has still to be sent to.
Handler(s, n, arg, user) ==
  [s |-> s, n |-> n, arg |-> arg, user |-> user, room |-> None, found |-> None,
   msg |-> None, todo |-> NoEntries]

NoTask == Handler(None, 0, None, None)

PC == {"idle", "dead", "login", "join_lookup", "join", "leave", "create_lookup",
       "insert", "create", "name", "id", "store", "target", "private_room",
       "private_find", "private_send", "private_echo", "history_check",
       "history_id", "history_read", "snapshot", "deliver", "reply",
       "disconnect", "remove"}

\* The step a request starts with, once the session is authenticated.
FirstStep == [join |-> "join_lookup", leave |-> "leave", create |-> "create_lookup",
              public |-> "name", private |-> "private_room",
              history |-> "history_check", disconnect |-> "disconnect"]

\* A row of the table messages: the request it was stored for, and the room.
Stored(requests, ids) == [re : requests, id : ids]

\* Stands for the requests of earlier runs of the server.
Earlier == <<None, 0>>

Init ==
  /\ RS!Init /\ SM!Init
  /\ messages \in SUBSET Stored({Earlier}, {rooms[k].id : k \in DOMAIN rooms})
  /\ queue = <<>>
  /\ pc = [w \in Workers |-> "idle"]
  /\ ctx = [w \in Workers |-> NoTask]
  /\ reading = Sessions
  /\ is_closed = {}
  /\ sent = [s \in Sessions |-> 0]
  /\ outbox = [s \in Sessions |-> <<>>]
  /\ up = TRUE

-----------------------------------------------------------------------------
(* The sessions: what the network and their strands do.                    *)

\* asio::post
Post(s, n, req) == queue' = Append(queue, [s |-> s, n |-> n, req |-> req])

\* do_read_header and do_read_body read a message: onMessage posts it.
Receive(s) ==
  /\ up /\ s \in reading
  /\ sent[s] < Len(Asks[s]) /\ Len(queue) < QueueBound
  /\ \E req \in Asks[s][sent[s] + 1] : Post(s, sent[s] + 1, req)
  /\ sent' = [sent EXCEPT ![s] = @ + 1]
  /\ UNCHANGED <<registry, people, messages, pc, ctx, reading, is_closed, outbox, up>>

\* handle_error posts onDisconnect once.
HandleError(s) ==
  IF s \in is_closed
    THEN UNCHANGED <<is_closed, queue>>
    ELSE /\ is_closed' = is_closed \cup {s}
         /\ Post(s, 0, [op |-> "disconnect", arg |-> None])

\* A read fails: end of file, reset, a bad length or a body that is no message.
ReadError(s) ==
  /\ up /\ s \in reading \cap Leavers
  /\ reading' = reading \ {s}
  /\ HandleError(s)
  /\ UNCHANGED <<registry, people, messages, pc, ctx, sent, outbox, up>>

\* A write fails.  The read loop is not told.
WriteError(s) ==
  /\ up /\ WritesMayFail
  /\ s \in Leavers \ is_closed /\ outbox[s] # <<>>
  /\ HandleError(s)
  /\ UNCHANGED <<registry, people, messages, pc, ctx, reading, sent, outbox, up>>

-----------------------------------------------------------------------------
(* The threads.                                                            *)

Goto(w, label, c) ==
  /\ pc' = [pc EXCEPT ![w] = label]
  /\ ctx' = [ctx EXCEPT ![w] = c]

Finish(w) == Goto(w, "idle", NoTask)

\* The envelope a handler answers its request with; re names the request.
Re(w) == <<ctx[w].s, ctx[w].n>>
Reply(w, ok) == [kind |-> "reply", re |-> Re(w), ok |-> ok]

\* session->send(response); return;
Answer(w, m) ==
  /\ outbox' = [outbox EXCEPT ![ctx[w].s] = Append(@, m)]
  /\ Finish(w)

\* An exception leaves the handler and io_context.run(): the thread ends, and
\* with the main thread the process.
Throw(w) ==
  /\ Goto(w, "dead", NoTask)
  /\ up' = (up /\ w # Main)

AtStep(w, label) == up /\ pc[w] = label

\* The check dispatchMessage and onDisconnect make of the session.
Admitted(t) == SM!Authenticated(t.s)

\* A thread takes a task and dispatchMessage or onDisconnect runs up to the
\* first step of its handler.
Take(w) ==
  /\ AtStep(w, "idle") /\ queue # <<>>
  /\ queue' = Tail(queue)
  /\ LET t == Head(queue)
         c == Handler(t.s, t.n, t.req.arg, identity[t.s].userId)
     IN \/ /\ t.req.op = "login"
           /\ Goto(w, "login", c)
           /\ UNCHANGED outbox
        \/ /\ t.req.op # "login" /\ Admitted(t)
           /\ Goto(w, FirstStep[t.req.op], c)
           /\ UNCHANGED outbox
        \/ /\ t.req.op \notin {"login", "disconnect"} /\ ~Admitted(t)
           /\ outbox' = [outbox EXCEPT ![t.s] =
                           Append(@, [kind |-> "reply", re |-> <<t.s, t.n>>, ok |-> FALSE])]
           /\ UNCHANGED <<pc, ctx>>
        \/ /\ t.req.op = "disconnect" /\ ~Admitted(t)
           /\ Goto(w, "remove", c)
           /\ UNCHANGED outbox
  /\ UNCHANGED <<registry, people, messages, net, up>>

\* handleLogin finds no such user, or another password.
LoginRefused(w) ==
  /\ AtStep(w, "login")
  /\ Answer(w, Reply(w, FALSE))
  /\ UNCHANGED <<registry, people, messages, queue, net, up>>

\* handleLogin's registration, under the lock.
Login(w) ==
  /\ AtStep(w, "login")
  /\ SM!RegisterAuthenticatedSession(ctx[w].s, ctx[w].arg, ctx[w].arg)
  /\ Goto(w, "reply", ctx[w])
  /\ UNCHANGED <<registry, messages, queue, net, outbox, up>>

\* The answer of a handler that has succeeded.
SendReply(w) ==
  /\ AtStep(w, "reply")
  /\ Answer(w, Reply(w, TRUE))
  /\ UNCHANGED <<registry, people, messages, queue, net, up>>

-----------------------------------------------------------------------------
(* RoomService::broadcastToRoom.                                           *)

\* Go on to send m to the members of r.
Broadcast(w, r, m) ==
  Goto(w, "snapshot", [ctx[w] EXCEPT !.room = r, !.msg = m])

\* Messages go to everybody, notices about a user to everybody else.
Excluded(w) == IF ctx[w].msg.kind = "message" THEN {} ELSE {ctx[w].user}

\* Copy the recipients under the lock.
Snapshot(w) ==
  /\ AtStep(w, "snapshot")
  /\ LET todo == RS!Recipients(ctx[w].room, Excluded(w))
     IN IF todo # NoEntries THEN Goto(w, "deliver", [ctx[w] EXCEPT !.todo = todo])
        ELSE IF ctx[w].msg.kind = "message" THEN Finish(w)
        ELSE Goto(w, "reply", ctx[w])
  /\ UNCHANGED <<registry, people, messages, queue, net, outbox, up>>

\* Send to one of them after the unlock, in the order of the hash table.
Deliver(w) ==
  /\ AtStep(w, "deliver")
  /\ \E u \in DOMAIN ctx[w].todo :
       LET rest == Erase(ctx[w].todo, u)
       IN /\ outbox' = [outbox EXCEPT ![ctx[w].todo[u]] = Append(@, ctx[w].msg)]
          /\ IF rest # NoEntries THEN Goto(w, "deliver", [ctx[w] EXCEPT !.todo = rest])
             ELSE IF ctx[w].msg.kind = "message" THEN Finish(w)
             ELSE Goto(w, "reply", [ctx[w] EXCEPT !.todo = rest])
  /\ UNCHANGED <<registry, people, messages, queue, net, up>>

Notice(w, event) ==
  [kind |-> event, re |-> Re(w), user |-> ctx[w].user, room |-> ctx[w].arg]

-----------------------------------------------------------------------------
(* RoomService::handleRoomOperation.                                       *)

\* Variant: the handler goes on after it has answered that there is no room.
JoinWithoutReturn(w) ==
  /\ AtStep(w, "join_lookup")
  /\ outbox' = [outbox EXCEPT ![ctx[w].s] = Append(@, Reply(w, FALSE))]
  /\ Goto(w, "reply", ctx[w])
  /\ UNCHANGED <<registry, people, messages, queue, net, up>>

\* findByRoomName, before the lock.
JoinLookup(w) ==
  /\ AtStep(w, "join_lookup")
  /\ \/ /\ RS!Known(ctx[w].arg)
        /\ Goto(w, "join", [ctx[w] EXCEPT !.found = RS!RowOf(ctx[w].arg)])
        /\ UNCHANGED outbox
     \/ /\ ~RS!Known(ctx[w].arg) \/ DbMayFail
        /\ Answer(w, Reply(w, FALSE))
  /\ UNCHANGED <<registry, people, messages, queue, net, up>>

\* Variant: the user is given no seat.
JoinMapOnly(w) ==
  /\ AtStep(w, "join")
  /\ userToRoomMap' = Put(userToRoomMap, ctx[w].user, ctx[w].arg)
  /\ Broadcast(w, ctx[w].arg, Notice(w, "joined"))
  /\ UNCHANGED <<rooms, creating, activeRooms, people, messages, queue, net, outbox, up>>

\* The section under the lock.
Join(w) ==
  /\ AtStep(w, "join")
  /\ RS!JoinRoom(ctx[w].user, ctx[w].s, ctx[w].arg, ctx[w].found)
  /\ Broadcast(w, ctx[w].arg, Notice(w, "joined"))
  /\ UNCHANGED <<people, messages, queue, net, outbox, up>>

\* Variant: the section is left out.
LeaveOnlyTold(w) ==
  /\ AtStep(w, "leave")
  /\ Broadcast(w, ctx[w].arg, Notice(w, "left"))
  /\ UNCHANGED <<registry, people, messages, queue, net, outbox, up>>

\* Whatever the section did, success is reported and the notice sent.
Leave(w) ==
  /\ AtStep(w, "leave")
  /\ RS!LeaveRoom(ctx[w].user, ctx[w].arg)
  /\ Broadcast(w, ctx[w].arg, Notice(w, "left"))
  /\ UNCHANGED <<people, messages, queue, net, outbox, up>>

\* Variant: the name is not looked up.
CreateUnchecked(w) ==
  /\ AtStep(w, "create_lookup")
  /\ Goto(w, "insert", ctx[w])
  /\ UNCHANGED <<registry, people, messages, queue, net, outbox, up>>

\* findByRoomName finds the name taken, or does not find it.
CreateLookup(w) ==
  /\ AtStep(w, "create_lookup")
  /\ \/ /\ RS!Known(ctx[w].arg)
        /\ Answer(w, Reply(w, FALSE))
     \/ /\ ~RS!Known(ctx[w].arg) \/ DbMayFail
        /\ Goto(w, "insert", ctx[w])
        /\ UNCHANGED outbox
  /\ UNCHANGED <<registry, people, messages, queue, net, up>>

\* Variant: addRoom leaves the id of the room unset.
InsertWithoutId(w) ==
  /\ AtStep(w, "insert")
  /\ \E id \in RoomIds : RS!AddRoom(ctx[w].user, ctx[w].arg, id)
  /\ Goto(w, "create", ctx[w])
  /\ UNCHANGED <<people, messages, queue, net, outbox, up>>

\* addRoom returns true.
Insert(w) ==
  /\ AtStep(w, "insert")
  /\ \E id \in RoomIds :
       /\ RS!AddRoom(ctx[w].user, ctx[w].arg, id)
       /\ Goto(w, "create", [ctx[w] EXCEPT !.found = id])
  /\ UNCHANGED <<people, messages, queue, net, outbox, up>>

\* addRoom loses its connection before or after the row is stored.
InsertFails(w) ==
  /\ AtStep(w, "insert") /\ DbMayFail
  /\ \/ \E id \in RoomIds : RS!AddRoomUnacknowledged(ctx[w].user, ctx[w].arg, id)
     \/ UNCHANGED registry
  /\ Answer(w, Reply(w, FALSE))
  /\ UNCHANGED <<people, messages, queue, net, up>>

\* The name is taken by now, or does not fit its column: addRoom rethrows.
InsertThrows(w) ==
  /\ AtStep(w, "insert")
  /\ RS!Known(ctx[w].arg) \/ ctx[w].arg \in LongNames
  /\ Throw(w)
  /\ UNCHANGED <<registry, people, messages, queue, net, outbox>>

Create(w) ==
  /\ AtStep(w, "create")
  /\ RS!CreateRoom(ctx[w].user, ctx[w].s, ctx[w].arg, ctx[w].found)
  /\ Goto(w, "reply", ctx[w])
  /\ UNCHANGED <<people, messages, queue, net, outbox, up>>

-----------------------------------------------------------------------------
(* RoomService::handleHistoryRequest.                                      *)

\* Variants: anybody may ask, or a refused request keeps its thread.
HistoryForAll(w) ==
  /\ AtStep(w, "history_check")
  /\ Goto(w, "history_id", ctx[w])
  /\ UNCHANGED <<registry, people, messages, queue, net, outbox, up>>

HistoryHangs(w) ==
  /\ AtStep(w, "history_check")
  /\ RS!CurrentRoomName(identity[ctx[w].s].userId, None) = ctx[w].arg
  /\ Goto(w, "history_id", ctx[w])
  /\ UNCHANGED <<registry, people, messages, queue, net, outbox, up>>

\* Members only; anybody else gets no answer.
HistoryCheck(w) ==
  /\ AtStep(w, "history_check")
  /\ IF RS!CurrentRoomName(identity[ctx[w].s].userId, None) = ctx[w].arg
       THEN Goto(w, "history_id", ctx[w])
       ELSE Finish(w)
  /\ UNCHANGED <<registry, people, messages, queue, net, outbox, up>>

\* The id is looked up again, in a section of its own.
HistoryId(w) ==
  /\ AtStep(w, "history_id")
  /\ Goto(w, "history_read",
          [ctx[w] EXCEPT !.found = RS!CurrentRoomId(identity[ctx[w].s].userId, None)])
  /\ UNCHANGED <<registry, people, messages, queue, net, outbox, up>>

\* The messages stored under the id are sent under the name the client asked
\* for.  Which they are is left out.
HistoryRead(w) ==
  /\ AtStep(w, "history_read")
  /\ Answer(w, [kind |-> "history", re |-> Re(w), label |-> ctx[w].arg,
                id |-> ctx[w].found])
  /\ UNCHANGED <<registry, people, messages, queue, net, up>>

\* findByUserId is called twice for each message.  When only the second call
\* loses its connection a nullopt is dereferenced, which may end the process.
HistoryCrash(w) ==
  /\ AtStep(w, "history_read") /\ DbMayFail
  /\ \E m \in messages : m.id = ctx[w].found
  /\ Goto(w, "dead", NoTask)
  /\ up' = FALSE
  /\ UNCHANGED <<registry, people, messages, queue, net, outbox>>

-----------------------------------------------------------------------------
(* MessageService.                                                         *)

\* getUserCurrentRoomName at the start of both handlers.
RoomName(w) ==
  /\ up /\ pc[w] \in {"name", "private_room"}
  /\ LET r == RS!CurrentRoomName(ctx[w].user, None)
         label == IF pc[w] = "name" THEN "id" ELSE "private_find"
     IN IF r = None THEN Answer(w, Reply(w, FALSE))
        ELSE Goto(w, label, [ctx[w] EXCEPT !.room = r]) /\ UNCHANGED outbox
  /\ UNCHANGED <<registry, people, messages, queue, net, up>>

RoomId(w) ==
  /\ AtStep(w, "id")
  /\ Goto(w, "store", [ctx[w] EXCEPT !.found = RS!CurrentRoomId(ctx[w].user, None)])
  /\ UNCHANGED <<registry, people, messages, queue, net, outbox, up>>

MessageOf(w) == [kind |-> "message", re |-> Re(w), label |-> ctx[w].room,
                 id |-> ctx[w].found, to |-> None]

\* Variant: the room is told and the table is not.
StoreNothing(w) ==
  /\ AtStep(w, "store") /\ ctx[w].found # None
  /\ Goto(w, "target", [ctx[w] EXCEPT !.msg = MessageOf(w)])
  /\ UNCHANGED <<registry, people, messages, queue, net, outbox, up>>

\* addMessage returns true, or false; the handler goes on in either case.
Store(w) ==
  /\ AtStep(w, "store")
  /\ \/ /\ ctx[w].found # None
        /\ messages' = messages \cup {[re |-> Re(w), id |-> ctx[w].found]}
     \/ DbMayFail /\ UNCHANGED messages
  /\ Goto(w, "target", [ctx[w] EXCEPT !.msg = MessageOf(w)])
  /\ UNCHANGED <<registry, people, queue, net, outbox, up>>

\* Room id 0 violates the foreign key, and addMessage rethrows, if the statement
\* gets as far.
StoreThrows(w) ==
  /\ AtStep(w, "store") /\ ctx[w].found = None
  /\ Throw(w)
  /\ UNCHANGED <<registry, people, messages, queue, net, outbox>>

\* The room to broadcast to is read anew; without one nobody is sent anything.
Target(w) ==
  /\ AtStep(w, "target")
  /\ LET r == RS!CurrentRoomName(identity[ctx[w].s].userId, None)
     IN Broadcast(w, r, [ctx[w].msg EXCEPT !.to = r])
  /\ UNCHANGED <<registry, people, messages, queue, net, outbox, up>>

\* The target is looked up by name, whatever room it is in.
PrivateFind(w) ==
  /\ AtStep(w, "private_find")
  /\ LET t == SM!FindByUsername(ctx[w].arg, None)
     IN IF t = None \/ (t # None /\ identity[t].userId = ctx[w].user)
          THEN Answer(w, Reply(w, FALSE))
          ELSE /\ Goto(w, "private_send", [ctx[w] EXCEPT !.found = t])
               /\ UNCHANGED outbox
  /\ UNCHANGED <<registry, people, messages, queue, net, up>>

\* To the target first, then to the sender.
PrivateSend(w) ==
  LET m == [kind |-> "private", re |-> Re(w), label |-> ctx[w].room]
  IN /\ \/ /\ AtStep(w, "private_send")
           /\ outbox' = [outbox EXCEPT ![ctx[w].found] = Append(@, m)]
           /\ Goto(w, "private_echo", ctx[w])
        \/ /\ AtStep(w, "private_echo")
           /\ Answer(w, m)
     /\ UNCHANGED <<registry, people, messages, queue, net, up>>

-----------------------------------------------------------------------------
(* The task posted by onDisconnect.                                        *)

\* Under one lock: the others are told, then the seat and the entry go.
Disconnect(w) ==
  /\ AtStep(w, "disconnect")
  /\ LET u == identity[ctx[w].s].userId
         r == RS!CurrentRoomName(u, None)
         told == RS!Recipients(r, {u})
         m == [kind |-> "left", re |-> Re(w), user |-> u, room |-> r]
     IN /\ RS!HandleDisconnect(u)
        /\ outbox' = [s \in Sessions |->
             outbox[s] \o [i \in 1..Cardinality({v \in DOMAIN told : told[v] = s}) |-> m]]
  /\ Goto(w, "remove", ctx[w])
  /\ UNCHANGED <<people, messages, queue, net, up>>

\* Variant: the session is not removed.
RemoveNothing(w) ==
  /\ AtStep(w, "remove")
  /\ Finish(w)
  /\ UNCHANGED <<registry, people, messages, queue, net, outbox, up>>

\* sessionManager->remove, in a section of its own.
RemoveSession(w) ==
  /\ AtStep(w, "remove")
  /\ SM!Remove(ctx[w].s)
  /\ Finish(w)
  /\ UNCHANGED <<registry, messages, queue, net, outbox, up>>

-----------------------------------------------------------------------------
WorkerStep(w) ==
  \/ Take(w)
  \/ LoginRefused(w) \/ Login(w) \/ SendReply(w)
  \/ JoinLookup(w) \/ Join(w) \/ Leave(w)
  \/ CreateLookup(w) \/ Insert(w) \/ InsertFails(w) \/ InsertThrows(w) \/ Create(w)
  \/ Snapshot(w) \/ Deliver(w)
  \/ HistoryCheck(w) \/ HistoryId(w) \/ HistoryRead(w) \/ HistoryCrash(w)
  \/ RoomName(w) \/ RoomId(w) \/ Store(w) \/ StoreThrows(w) \/ Target(w)
  \/ PrivateFind(w) \/ PrivateSend(w)
  \/ Disconnect(w) \/ RemoveSession(w)

Next ==
  \/ \E s \in Sessions : Receive(s) \/ ReadError(s) \/ WriteError(s)
  \/ \E w \in Workers : WorkerStep(w)

Spec == Init /\ [][Next]_vars

\* A thread that is not blocked goes on; no thread here waits for another, and
\* clients owe the server nothing.
FairSpec == Spec /\ \A w \in Workers : WF_vars(WorkerStep(w))

-----------------------------------------------------------------------------
(* Properties.                                                             *)

Envelope ==
  [kind : {"reply"}, re : Sessions \X Nat, ok : BOOLEAN]
    \cup [kind : {"joined", "left"}, re : Sessions \X Nat,
          user : Users, room : RoomNames]
    \cup [kind : {"message"}, re : Sessions \X Nat,
          label : RoomNames, id : RoomIds \cup {None}, to : RoomNames \cup {None}]
    \cup [kind : {"private"}, re : Sessions \X Nat, label : RoomNames]
    \cup [kind : {"history"}, re : Sessions \X Nat,
          label : RoomNames, id : RoomIds \cup {None}]

TypeOK ==
  /\ RS!TypeOK /\ SM!TypeOK
  /\ messages \in SUBSET Stored((Sessions \X Nat) \cup {Earlier}, RoomIds)
  /\ queue \in Seq(Task)
  /\ pc \in [Workers -> PC]
  /\ \A w \in Workers :
       /\ ctx[w].s \in Sessions \cup {None}
       /\ ctx[w].user \in Users \cup {None}
       /\ ctx[w].msg \in Envelope \cup {None}
       /\ IsMap(ctx[w].todo, Users, Sessions)
  /\ reading \in SUBSET Sessions /\ is_closed \in SUBSET Sessions
  /\ sent \in [Sessions -> Nat]
  /\ outbox \in [Sessions -> Seq(Envelope)]
  /\ up \in BOOLEAN

\* The steps of the handlers, put together, use the room registry only in the
\* ways RoomService describes, whichever threads run them: what is proved of it
\* holds in the server.
RegistrySpec == RS!Spec

\* Nothing is queued and no thread is at work.
Quiet == queue = <<>> /\ \A w \in Workers : pc[w] \in {"idle", "dead"}

\* Every exception a handler can meet on a healthy database comes from a row that
\* appeared, or a room that went away, between two of its steps
\* (RoomService.cpp:87-95, MessageService.cpp:9-25), or from a CREATE of a name that
\* does not fit its column, which nobody looks at before the database does
\* (schema.sql:49): of the first two one thread is safe, of the last it is not.
OnlyLongNamesKill ==
  [][\A w \in Workers :
       pc[w] # "dead" /\ pc'[w] = "dead" => ctx[w].arg \in LongNames]_vars

\* README.md:12: messages are broadcast within the room.  The room a message
\* is labelled with, the room it was sent to and the room it was stored under
\* are one, and a history has the messages of the room on its label, although
\* each of these reads the registry for itself (MessageService.cpp:9, 23, 34,
\* RoomService.cpp:130, 136).
OneRoomPerMessage ==
  \A s \in Sessions : \A i \in DOMAIN outbox[s] :
    LET m == outbox[s][i]
    IN /\ m.kind \in {"message", "history"} =>
            RS!Known(m.label) /\ RS!RowOf(m.label).id = m.id
       /\ m.kind = "message" => m.to = m.label

\* Session s has been cleaned up: it is closed, and nothing of it is pending.
Gone(s) ==
  /\ s \in is_closed
  /\ \A i \in DOMAIN queue : queue[i].s # s
  /\ \A w \in Workers : ctx[w].s # s

\* The server forgets a session that is gone: it is found under no id and no
\* name, and no user is in a room through it.
GoneIsForgotten ==
  \A s \in Sessions : Gone(s) =>
    /\ s \notin Range(sessionsByUserId) \cup Range(sessionsByUsername)
    /\ \A u \in DOMAIN userToRoomMap : activeRooms[userToRoomMap[u]].members[u] # s

\* What t was last told about u, if t has not changed rooms since: every JOIN,
\* LEAVE and CREATE that succeeds is answered so.
News(t, u) ==
  LET q == outbox[t]
      heard == {i \in DOMAIN q : q[i].kind \in {"joined", "left"} /\ q[i].user = u}
      moved == {i \in DOMAIN q : q[i].kind = "reply" /\ q[i].ok}
  IN {q[i] : i \in {k \in heard : \A l \in heard \cup moved : l <= k}}

\* README.md:14 promises notices of who joins and who leaves.  Once all is
\* handled, a user whom a session that stayed where it was heard to have left a
\* room is not in it: had it come back, the session would have heard that too.
LeftIsOut ==
  Quiet => \A t \in Sessions \ is_closed, u \in Users : \A m \in News(t, u) :
             m.kind = "left" => RS!CurrentRoomName(u, None) # m.room

\* README.md:16 promises that what is said is stored: a message somebody was
\* sent is in the table, under the room it names, for good.  It is stored in a
\* statement of its own before the recipients are looked up, and the result of
\* that statement is not looked at (MessageService.cpp:25).
SaidIsStored ==
  \A s \in Sessions : \A i \in DOMAIN outbox[s] :
    outbox[s][i].kind = "message" =>
      [re |-> outbox[s][i].re, id |-> outbox[s][i].id] \in messages

\* The row or the id a JOIN or a CREATE read before it took the lock is the
\* row of the room when the section uses it.
LookupStillHolds ==
  \A w \in Workers :
    /\ pc[w] = "join" => RS!Known(ctx[w].arg) /\ ctx[w].found = RS!RowOf(ctx[w].arg)
    /\ pc[w] = "create" => /\ RS!Known(ctx[w].arg)
                           /\ RS!RowOf(ctx[w].arg).id = ctx[w].found
                           /\ <<ctx[w].user, ctx[w].arg>> \in creating

\* The answers session s was sent to its request n.
Answers(s, n) == {i \in DOMAIN outbox[s] : outbox[s][i].re = <<s, n>>}

\* No request is answered twice, on any path through its handler.
AnsweredOnce ==
  \A s \in Sessions : \A n \in 1..sent[s] : Cardinality(Answers(s, n)) <= 1

\* Everything that was received is handled in the end, unless the process ends.
EverythingIsHandled == <>[](Quiet \/ ~up)
=============================================================================
