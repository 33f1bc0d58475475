# A TLA+ development of CppChatServer

This directory holds a specification of the chat server under `src/server` and
of its clients under `src/client` and `src/tester`: TLA+ modules that model their
components, configurations with which TLC checks them on small instances, and
proofs that TLAPS checks for all instances.

- [The system](#the-system)
- [The modules](#the-modules)
- [How the models follow the code](#how-the-models-follow-the-code)
- [The runs](#the-runs)
- [What the runs find](#what-the-runs-find)
- [The proofs](#the-proofs)
- [What is not modelled](#what-is-not-modelled)
- [Plan](#plan)

## The system

Clients hold a TCP connection each and exchange length-prefixed protobuf
envelopes with the server. One `asio::io_context` is run by the main thread and
the threads of a pool (`main.cpp:29-45`).

| Component | State | Operations | Hard parts | Correct when |
| --- | --- | --- | --- | --- |
| `Session` | strand, `message_queue`, read in flight, `is_closed`, identity | `send` from any thread; read loop, write loop, `handle_error` on the strand | whether a write runs is told by the emptiness of the queue; reads and writes fail independently | frames go out once, in order, one at a time; the end is reported once |
| `Server` | the run queue of the `io_context` | `onMessage`, `dispatchMessage`, `onDisconnect` | tasks of one session run on several threads at once | every request is handled, and answered at most once |
| `SessionManager` | `sessionsByUserId`, `sessionsByUsername` | `registerAuthenticatedSession`, `remove`, `updateUsername`, `findByUsername` | entries are shared by the logins of a user | who is online is found, who is gone is not |
| `RoomService` | `userToRoomMap`, `activeRooms`, table `rooms` | JOIN, LEAVE, CREATE, history, disconnect, broadcast | lookups before the lock, notices after it; names equal in the table and different in memory | the two maps and the table agree; broadcasts reach the members, and only them |
| `MessageService` | table `messages` | public and private messages | reads the room several times | label, recipients and stored row name one room |
| `AuthService` | table `users` | login, register, change password, change name | reads a row, writes the whole row later; results ignored | a change is of one field, of the own row, and as reported |
| `ConnectionPool` | `ConPool`, condition variable | `getConnection`, `returnConnection`, `replenishConnectionAsync` | replacements are tasks of the threads that wait | no connection leaks, no wakeup is lost, not all threads wait |
| Repositories | - | SQL statements | exceptions and lost connections become `nullopt`, `false` or a rethrow | - |
| server `main` | threads, work guard | start, accept, signal, shutdown | an exception ends a thread; what keeps `run` busy | a signal stops the server |
| `Client` and client `main` | socket, `write_queue`, work guard, input thread, `currentRoom` | connect, send, close; typed lines, answers | sends before the connection stands; close against what is in flight; what the client guesses from answers | what is sent is written in order or the connection has failed; it ends when asked to; client and server agree on the room |
| Stress tester | clients with timers, several threads | start, send on a timer, close | handlers of one client on two threads | as `Client` |

Interaction: a session posts a message to the `io_context` (`Server.cpp:65`),
some thread takes it, the dispatcher calls a service, the service calls a
repository (which takes a connection from the pool) and the two registries
(which share one recursive mutex), and gives the answers to `Session::send`,
which posts them to the strand of the receiving session. The end of a
connection is posted in the same way (`Server.cpp:121`).

The complete list of parts, modelled or not, is under `components` in
`PROJECT.json`; what can go wrong, with the line where it does and the
properties that watch it, is under `hazards`.

## The modules

| Module | Models | Uses |
| --- | --- | --- |
| `Maps` | `std::unordered_map` as a function with a finite domain | `Functions` |
| `RoomService` | the room registry: table `rooms`, the two maps, one action per locked section or statement | `Maps` |
| `SessionManager` | the session registry, one action per method | `Maps` |
| `ConnectionPool` | the pool, its condition variable and the run queue | |
| `Session` | one connection with its strand | refines `Channel` |
| `Channel` | what `send` promises: a FIFO that stops when a write fails | |
| `AuthService` | accounts: the handlers step by step, over table `users` | INSTANCE `SessionManager` |
| `ChatServer` | the composition: sessions, run queue, threads, and all room and message handlers step by step | INSTANCE `RoomService`, `SessionManager` |
| `Client` | a client process: threads, handlers, socket, write queue, closing | refines `Channel` |
| `Conversation` | clients and server together: what users type, what the server makes of it, what the clients make of the answers | INSTANCE `RoomService` |
| `Lifecycle` | the server process: accepting, threads that end, the signal, shutdown | |
| `ContainerTheorems` | lemmas on maps, on counting in queues and among threads, and on envelopes that wait in line | `Maps`, for all proofs |
| `RoomServiceProofs`, `ConnectionPoolProofs`, `SessionProofs`, `AuthServiceProofs`, `ClientProofs`, `ChatServerProofs`, `ConversationProofs` | theorems about the module of that name; those of `SessionManager` are in `AuthServiceProofs` | EXTENDS it; those of `ChatServer` and `Conversation` take the theorems of `RoomService` by INSTANCE |
| `MC...` | constants, scripts and a symmetry set for TLC | |

`RoomService` and `SessionManager` are written once and used three ways: on
their own, where any caller may do anything; in a composition, which calls
their actions; and as abstract specifications, which the compositions are shown
to implement: `RegistrySpec` in `ChatServer`, and `PeopleSpec` in `AuthService`.
TLC checks it, and it is proved, so what is proved of a registry alone holds in
the server. `PeopleSpec` is stated for clients who keep to the discipline
`Exclusive`: only then does `SessionManager` restrict what its callers do, a
login to fresh sessions and users not online, a change of name to names no
session online has. The handlers of a change look the name up in the table and
not among those online. Without the discipline the actions of `SessionManager`
have no guards, and implementing it would say nothing.

`Channel` is the abstract specification of both ends of a connection: `Session`
and `Client` implement it, each with code of its own. `Conversation` takes that
for granted: its two directions are queues. Both ends keep the envelopes given
to `send()` in a history, `accepted`; what is pending in `Channel` is the part of
it that is not on the wire yet. The code has no such variable: the envelopes are
in the handlers posted, in the queue, and at the front of it while written.

## How the models follow the code

`PROJECT.json` gives the lines of every definition under `map`. The grain:

- **A section under the server's mutex is one step**, a database statement is
  one step, a call of `Session::send` is one step. Between two of them other
  threads run. A step that only reads is kept apart when something is read
  again later (`name`, `id`, `target` in `ChatServer`).
- **`ctx`** holds the variables of a handler, **`pc`** the statement it is at.
  `Take` is the pop from the run queue and the dispatcher up to the first such
  statement, `Throw` the way an exception takes out of `io_context::run`.
- **The table `rooms`** is a map from collated names to rows; `Collate` is the
  collation's notion of equality. `creating` lists the CREATE handlers that
  have a row and not yet the lock, so that CREATE can be stated without
  handlers.
- **A database call** may lose its connection where `DbMayFail` says so. What
  it then returns is what the repositories return: `nullopt` or `false`, before
  or after the statement took effect. Errors of other kinds are rethrown: a
  UNIQUE key or a name longer than its column (`InsertThrows`, `Throw`) and the
  foreign key of messages (`StoreThrows`). Such a statement may also lose its
  connection before the database gets to refuse it. A connection is never lost for another reason, and the pool
  is a module of its own: in `ChatServer` a call returns in the end.
- **Names too long.** `LongNames` are the names the columns do not hold, of more
  than 100 characters for a room (`schema.sql:49`) and 50 for a user
  (`schema.sql:68`). Nobody looks at a length before the INSERT or UPDATE; a
  lookup just finds no such row. In `Conversation` they can be joined, and a
  `/create` of one is left to `ChatServer`, as it ends the thread that serves.
- **A nullopt dereferenced** in `handleHistoryRequest` is undefined. The model
  lets the process end, or go on with some name.
- **A broadcast** copies the recipients in one step and sends to each in one
  step, in any order, the order of the hash table. A disconnect sends under the
  lock and is one step.
- **`outbox`** is the order in which `send` was given envelopes. `Session`
  shows that the connection keeps it.
- **Identity** (`Authenticated`, `userId`, `username`) is read without the
  mutex in the code. The models write it in one step.
- **In `ChatServer`** names of users do not change and a password is right or
  wrong; `AuthService` models what is left out there.
- **In `AuthService`** `LateRequests` lets requests of a session begin after its
  disconnect was handled, as happens after a write error, when reads go on
  (`Session.cpp:114`), and when another thread overtakes.
- **`Client`**: `ready` holds the handlers that wait for a thread. The closure
  that `send()` posts looks at the queue in one step (`Look`) and adds to it in
  the next (`Push`), which other threads may come between; the chat client has
  one thread. `ticking` tells the tester, whose main thread calls `close()`
  itself and whose timers arm themselves again for as long as it runs. `causes`
  is a history of what has asked the client to close.
- **`Conversation`**: the server has one thread, so a request is one step,
  except that a CREATE writes the table a step before it takes the lock. Of a
  text only the length is kept, of `created_at` the second; `Size` adds up what
  a frame carries: the messages of a history or a broadcast, the text of a
  private message, a name that an answer repeats (`Echo`: the 404 of a JOIN and
  that of a private message), and the name of its room as often as the frame has
  it (`NamesIn`). `NameLength` gives the length of a name of a room; names of
  users, of 50 characters at most, count as `Overhead`. `MaxBody`, `Overhead` and
  `Limit` stand for `max_body_length`, the bytes around a text, and the number of
  messages the client asks for. `Whispers` are the private messages that may be
  typed, some to `Nobody`, who is not there. When the server refuses a line, the
  read loop ends and `onDisconnect` gives up what refers to the session;
  with the last reference the socket is closed and the client reads no more
  (`Drop`), what was on its way to it being lost or not. A seat that a CREATE left
  behind keeps the session and its socket. Notices of others coming and going are frames like others.
  `Patient` are the users who type when nothing of theirs is on its way.
- **`Lifecycle`**: an `io_context` has work while its guard, an accept or a
  read of a session is there. Handlers are steps; which of them throw is open.
- **History variables**: `online` (sessions registered and not removed),
  `reported` (the password a client was last told is set) and `disturbed` (users
  whose row two handlers were about to write at a time, or whose UPDATE was
  lost), `accepted` in `Session` and `Client`, `causes` in `Client`, `answered`,
  `seen`, `misled` and `longest` (of all that was typed) in `Conversation`. No guard of the code's actions reads them, but those of
  `Interrupt`, which happens once, and of `Send`, since an envelope is sent once. `online` occurs in the guards that keep *clients*
  to the discipline `Exclusive` describes: log in once per connection, and not
  as a user who is online elsewhere. Nothing in the server enforces it; runs
  with `Exclusive = FALSE` drop it.
- **Variants**: operators marked so are slips the code does not make. None is
  part of a specification. Put in the place of the definition that follows,
  each makes a property fail (`mutants` in `PROJECT.json`), which shows that the
  property depends on the code.
- **`TypeOK`** is defined in every module; `Rooms` checks it, and it is proved of
  every module with a `...Proofs`.

## The runs

| Run | Instance | Shows |
| --- | --- | --- |
| `Rooms` | 2 users, 2 connections, 3 names of 2 rooms | invariants of the registry; whom a step moves; where seats outside the own room come from |
| `SessionsExclusive` | 3 connections, 3 users, 4 names | the maps list exactly the sessions online |
| `Pool` | 3 threads, 2 connections, at most 1 down, requests of 1 or 2 calls | conservation, no lost wakeup, no stall; somebody gets through |
| `OneThread` | 2 sessions, 7 requests with choices, 2 rooms and a name too long, a connection that ends | one room per message, what is said is stored, sessions forgotten, notices true, no exception but that of a name too long, everything handled |
| `TwoThreads` | 2 threads, 5 requests, failing database and writes | refinement of the room registry; lookups hold; answers once |
| `AccountsOneThread` | 5 requests, disciplined clients, a name too long | accounts are as reported; a change is of one field of the own row; who is online is found under the name in the table; refinement of `SessionManager` with its guards; no exception but that of a name too long |
| `AccountsTwoThreads` | 2 threads, 4 requests, any clients, also late, failing database | a password reported as set is lost in two ways only: two handlers wrote the row at a time, or the connection broke under an UPDATE |
| `Connection` | 3 envelopes, 2 frames | refinement of `Channel`, one write at a time; all is written; a failure is reported once and for good |
| `Client` | 1 thread, 3 envelopes, 1 frame; chat client and tester's client | refinement of `Channel`; what is sent is written or the connection has failed; whoever is asked to close ends; when `main` returns under a thread that still uses its objects |
| `Conversation` | 2 users with 2 lines each, 2 rooms, one called "", a name too long, private messages, up to 2 earlier messages | client and server agree on the room; when an end stops reading; nobody misses the last messages; each line is answered once |
| `MessageStrays` | 2 threads | where the code breaks a promise; see the next section |
| `ShutsDown` | 1 worker, 2 clients | where the code breaks a promise; see the next section |

Bounds. Each hazard needs two actors: two users in a room and one more room
make every case of JOIN (none, same, other; first and last member), two threads
every overtaking. A third name gives two spellings of one room. Three threads
on two connections make one wait while another is told; requests of two calls
let a thread come back for a connection before a waiter has it. Three
envelopes put one on the wire, one in the queue and one on the strand. `Asks`
bounds what clients send (a script with choices for each request), `QueueBound`
the run queue (tasks beyond it wait, except those of a disconnect),
`MaxRequests` the requests of `AuthService`, `MaxDown` the connections broken
at a time, `MaxReceived` the frames a session or a client receives, `MaxLines`
the lines of a user.
In `Client` one frame from the server is enough for a read to complete, to
be answered, and to be followed by one that `close()` aborts. In `Conversation`
a frame has room for two short messages and not for three, `Lengths` has a
text that is short, one that fits as typed and not as broadcast, and one the
server refuses; the name too long for the table fits as typed and not in the
answer that repeats it, and so does the name of the private message to
`Nobody`; with the lengths 0, 1, 9 and 10 the bound of
`DeafFromLongLinesOnly` is between the short lines and the others; `Earlier` are tables in which messages share a second, do not,
or fit in a frame one by one only (`MCInit` says whose they are). Runs of `ChatServer`,
`AuthService`, `Session`, `Client`, `Conversation`, `Lifecycle` and the exclusive
`SessionManager` may stop: scripts end, and so do connections and processes, so
these do not check deadlock. The runs of the
pool and of the room registry do.

Fairness. Only threads and completions are fair: a thread that can take a step
does (`WF(WorkerStep)`; the operating system schedules it), a strand runs its
next handler, and a write ends in success or error. No client is assumed to
send or type, no read to complete on an open socket, no condition variable to
wake without a notify. In `Client` a connect and a write end in success or
error, a read on a socket that was closed ends in an error, and `main` returns
once `run` has. In `Conversation` the server comes to each session and a client
reads what arrives. In `Lifecycle` clients go in the end, which only helps the
server to stop.

Failures. `OneThread` assumes a healthy database and writes that do not fail;
the next section shows what each assumption is worth.

## What the runs find

Two runs check one property each, which TLC violates; the finding in
`PROJECT.json` quotes the promise and names the line.

| Run | Property | The code |
| --- | --- | --- |
| `MessageStrays` | `OneRoomPerMessage` | a public message reads its room three times |
| `ShutsDown` | `ShutsDown` | a signal lets go of the work guard, while each accept starts the next one: `run` does not return, and `main` does not join |

Every passing run states its assumptions as constants. With one of them
changed, in the configuration or the MC module, TLC finds what the assumption keeps away:

| Run | Changed | Then fails | Because |
| --- | --- | --- | --- |
| `OneThread` | `Workers = {main, pool}` | `OnlyLongNamesKill` | CREATE looks a name up and inserts it in two statements; the exception of the second is not caught (`RoomService.cpp:95`) |
| `OneThread` | `Workers = {main, pool}` | `LeftIsOut` | notices are sent after the unlock (`RoomService.cpp:82`) |
| `OneThread` | `Workers = {main, pool}` | `GoneIsForgotten` | a disconnect is handled while an earlier request of the session, say its login, is at work (`Server.cpp:65, 121`) |
| `OneThread` | `Asks` with a client that logs in as `u1`, joins, and logs in as `u2` | `GoneIsForgotten` | nothing stops the second login, and the disconnect takes only the second user out (`RoomService.cpp:160-181`) |
| `OneThread` | `Asks` with a third session, of `u1` too, that joins the room | `LeftIsOut` | a user has one seat, which goes to its last session (`RoomService.cpp:36, 43`): the first is no longer told |
| `OneThread` | `WritesMayFail = TRUE` | `GoneIsForgotten` | reads go on after a write error (`Session.cpp:114`), and what they bring is handled after the disconnect |
| `OneThread` | `DbMayFail = TRUE` | `SaidIsStored` | the result of `addMessage` is ignored (`MessageService.cpp:25`) |
| `AccountsOneThread` | `Workers = {w1, w2}` | `OnlyLongNamesKill` | registration looks a name up and inserts it in two statements (`AuthService.cpp:40-56`) |
| `AccountsOneThread` | `Exclusive = FALSE` | `OwnFieldOnly` | a session finds its row by a name that may have passed to another user (`AuthService.cpp:78`) |
| `AccountsOneThread` | `DbMayFail = TRUE` | `FoundUnderRow`, `PeopleSpec` | the result of `updateUser` is ignored (`AuthService.cpp:148`): the session goes by a name that is not in the table and that another may take |
| `AccountsOneThread` | `LateRequests = TRUE` | `FoundUnderRow`, `OwnFieldOnly`, `PeopleSpec` | a session whose disconnect was handled keeps its identity, and its requests are still served (`SessionManager.cpp:9-16`) |
| `AccountsOneThread` | `Workers = {w1, w2}` | `FoundUnderRow`, `PeopleSpec` | a name is looked up, written and given to the session in three steps (`AuthService.cpp:128-149`) |
| `AccountsOneThread` | `Workers = {w1, w2}` | `OwnFieldOnly` | a change of name writes back the password it read before (`AuthService.cpp:148`) |
| `Pool` | `Workers = {w1}`, `MaxDown = 2` | `NoStall` | replacements wait behind the threads that wait for them (`ConnectionPool.cpp:33`) |
| `Client` | `MCThreads == {main, another}`, two messages | `ChannelSpec` | the tester's threads share a client without a strand (`client.cpp:123-131`): two closures both find the queue empty, or one writes while a completion pops |
| `Conversation` | `MCCollate` with one row for both names | `CaughtUp` | two spellings of a room have one row and one history, and two rooms in memory (`RoomService.cpp:36`) |
| `Conversation` | the property stated of a user who types ahead; two rooms with names, three lines | `MisledByRefusalOnly` | a `/leave` typed ahead names the room that is being left (client `main.cpp:82`) |
| `SessionsExclusive` | `Exclusive = FALSE` | `RegistryIsExact` | two logins of a user share one entry (`SessionManager.cpp:12`) |

Four differences between the code and `src/README.md` are in the models as the
code has them, and no property states them:

- A CREATE by a user who is in a room leaves a seat there (`RoomService.cpp:98`),
  so the room's broadcasts go on to that user. `GhostsOnlyFromCreate` shows that
  no other operation does this.
- A JOIN or CREATE of another room sends the old one no notice
  (`RoomService.cpp:23-33, 98`).
- Private messages reach users in other rooms (`MessageService.cpp:58`).
- Two spellings the table does not tell apart are one row and two rooms in
  memory, whose members do not hear each other (`RoomService.cpp:36`).

## The proofs

Each theorem holds for any users, names, rooms, ids, collation, sessions,
threads, scripts and bounds. The assumptions on constants are those the modules
state next to the constants: `Collate` maps names to names; bounds are natural
numbers; the values that mean "nobody" are no users, names or envelopes; threads
of the pool and users are finite in number, since they are counted.

Where a theorem needs more, its hypothesis says so; the tables under "What the
runs find" show for most of them that it is needed. `OneThread` is what the server does
unless the configuration has `threads` (`main.cpp:27-44`), and what the chat
client always does (client `main.cpp:136`). `~DbMayFail` is a database that
never loses a connection. `~LateRequests` says that nothing comes from a session
after its disconnect. `Exclusive` is the discipline
of the clients described above. `OneUserPerClient` says that no connection logs
in as two users: both clients log in as one (client `main.cpp`, tester
`main.cpp`), and the scripts of the runs do, but nothing in the server enforces
it. `OneClientPerUser` says that no two connections log in as the same user.
`~WritesMayFail` is a network on which only reads fail. `DistinctNames` says that
`Collate` keeps the names apart, the exception being the last difference listed
above.

| Module | Theorems | Hypotheses |
| --- | --- | --- |
| `RoomServiceProofs` | `TypeOK`, `MappedIsSeated`, `NoEmptyRoom`, `RoomMirrorsRow`; `OneUserPerStep`, `GhostsOnlyFromCreate` | |
| `ConnectionPoolProofs` | `TypeOK`, `Conservation`, `NoLostWakeup`; `NoStall` | `MaxDown < PoolSize` for `NoStall` |
| `SessionProofs` | `TypeOK`, `OneWriteAtATime`, `OneReadAtATime`; implements `Channel` | |
| `ClientProofs` | `TypeOK`, `QuitIsClean`; implements `Channel` | `OneThread` |
| `AuthServiceProofs` | of `SessionManager`: `TypeOK`; `RegistryIsExact` | `Exclusive` for the latter |
| | `TypeOK` (with names that are unique and fit), `ReportedHolds` | |
| | `OnlyLongNamesKill`, `disturbed = {}` | `OneThread`, `~DbMayFail` |
| | `FoundUnderRow`, `OwnFieldOnly`; implements `SessionManager` | these, `Exclusive`, `~LateRequests` |
| `ChatServerProofs` | `TypeOK`, `LookupStillHolds`; implements `RoomService`; the registry's invariants, of the server | |
| | `SaidIsStored` | `~DbMayFail` |
| | `OneRoomPerMessage` | `OneThread` |
| | `OnlyLongNamesKill` | `OneThread`, `~DbMayFail` |
| | `AnsweredOnce` | `OneUserPerClient` |
| | `GoneIsForgotten` | `OneThread`, `OneUserPerClient`, `~WritesMayFail` |
| | `LeftIsOut` | `OneThread`, `OneUserPerClient`, `OneClientPerUser` |
| `ConversationProofs` | `TypeOK`, `MisledByRefusalOnly`, `DeafFromLongLinesOnly`, `AnswersMatchLines`; the registry's invariants, of the conversation | |
| | `CaughtUp` | `DistinctNames` |

None of the invariants is inductive as it stands. What each inductive invariant
(`IInv` and those built on it) adds, and why:

- **`RoomService`**: a row is filed under the collated form of its name and ids
  are unique in the table; each pair in
  `creating` has a row whose creator and name are those of the handler, which is
  why CREATE may overwrite the fields of a room that was joined meanwhile and
  `RoomMirrorsRow` still holds. `OneUserPerStep` follows action by action: a
  room that is erased has no seat left but that of the user the step is for.
- **`SessionManager`**: with exclusive clients whoever is online is logged in.
  The proofs use `RegistryIsExact` session by session (`Entries`): each session
  online has its two entries, and each entry is that of one. A change of name is
  the hard case, as it erases the entry of one name and writes another's.
- **`ConnectionPool`**: the argument counts. Threads at each place, tasks in the
  queue and connections are numbers, and each step moves one thread (`OneMoves`,
  `TwoMove`). `NoStall` follows from the other two: were everybody waiting, no
  connection would be pooled (`NoLostWakeup`) nor in use, so all would be down
  (`Conservation`).
- **`Session`**: `InOrder` says where each envelope is: the first are on the
  wire, the next ones in `message_queue`, whose front may be one of the former
  while its completion waits for the strand, and the rest is carried by handlers
  on the strand in the order of the calls (`Lined`). `OneWrite` says that a write
  is in flight, or has just ended, exactly when `message_queue` is not empty and
  none has failed.
- **`Client`**: the same, but there is no strand, and `send()`'s closure looks at
  the queue a step before it adds to it. `Looked` says that what it saw is still
  so, and that it has the envelope that is next: this is where `OneThread` is
  used, and what the tester's threads break. `Asked` and `Over` say why the work
  guard was released and what `run()` returning means.
- **`AuthService`**: `IInv` says that each handler is at a statement of its own
  request, that a user once there stays, and, for `ReportedHolds`, that the
  handler of a row nothing has disturbed is the only one to have read it for
  writing and that its copy has the row's password, or the one asked for (`Undisturbed`). With one thread `AloneInv` adds that
  what a handler has read is still so (`Holds`). With exclusive clients `OwnInv`
  adds that a handler's row is that of its session's user (`Owns`) and that a
  session's name is its user's or is about to be (`InStep`): between the UPDATE
  and the change of the session the two differ.
- **`ChatServer`**: `IInv` contains the registries' invariants, so that the
  theorems of `RoomServiceProofs` do the work there,
  and says what the variables of a handler are at each statement (`Shape`), what
  the row or id it has read is worth (`Holds`) and that two CREATEs of a room are
  never between INSERT and lock at a time (`Creators`). The refinements are step
  by step: each action is a step of the registry or leaves it alone.
  `SaidIsStored` needs that a message in the hands of a handler that is to
  deliver it is in the table, `OneRoomPerMessage` that with one thread the name,
  the id and the recipients it has read so far are those of the room its user is
  still in. `AnsweredOnce` counts, for each request, its answers, its tasks in
  the queue and the handlers that have still to answer it: there is one of these
  at most, at any time. With one user to a connection nobody but that user has
  a seat on it, so what others say reaches it under requests of theirs.
  `GoneIsForgotten` turns on the last task of a session: no task of the
  session is posted or waits after its disconnect, and once that is done the
  session has no entry and no seat (`Leaving`). `LeftIsOut` follows a
  notice after it is sent: as long as the session that heard it neither moves
  nor hears of the user again, either somebody else sits on that session in the
  room and the user is out of it, or the thread is moving the session, or it is
  about to tell it that the user is back (`Explained`). The thread knows, from
  its section to its last send, that the recipients it copied still sit there and
  that who is said to have left is out (`Aware`).
- **`Conversation`**: what the client takes its room to be and what the server
  has differ while answers are on their way. A patient user asks for one thing at
  a time; `Agrees` says that at most one request or answer of such a user that
  moves the room is on its way, that the answer moves the client where the server
  has the user, and that without one the client is there already. `Caught` says that a user in a room has been shown its
  last messages, or is about to be by a frame on its way, or will ask for the
  history: the request is on its way, or the answer to the JOIN that will lead
  to it. A message that comes in later only makes the set of the last ones
  smaller among the old. For `DeafFromLongLinesOnly` the length of a frame is a sum
  over a set of messages (`MapThenSumSet`), and the proof needs that the sum is
  at most so many times the largest (`SumBound`). `Within` says that no text and no
  name in the table, the registry, the queues or a frame is longer than what was
  typed so far, so that a frame of `Limit` messages or one that repeats a name
  stays within the bound (`FrameBound`), and a request, which is no longer than what
  was typed, does too. This is an induction over a
  finite set, and is done without the induction theorems: among the subsets for
  which a claim fails take a minimal one (`LeastSubset`). `Accounted` says that
  the lines answered, those whose answers are on their way and those that wait
  are the lines sent: `AnswersMatchLines`, which is the safe half of
  `EveryLineIsAnswered`, is its consequence when nothing is on its way.

The step of an invariant has one lemma per action; what several need is a lemma
about the operators (`Put`, `Erase`, `Append`, `Tail`, counts), in
`ContainerTheorems` when it is about containers.

Only model-checked:

- All liveness (`EverythingIsHandled`, `SomebodyGetsThrough`,
  `EverythingIsWritten`, `FailureIsReported`, `SendsAreWritten`, `Quits`,
  `EveryLineIsAnswered`): fairness and `ENABLED` are out of the prover's reach.
- `Lifecycle`, of which one thing is asked, `ShutsDown`, which fails.
- `Client` with several threads, where `ChannelSpec` fails.

## What is not modelled

- The bytes of frames and their parsing. Lengths count in `Conversation` alone.
- `Crypto`, `TimeConvert`, `ConfigManager`, `SociTypeConversion` and the
  entities: hashing, conversions of rows and times, reading a file, plain data.
  No state that the properties speak of; entities are the rows of the models.
- Logging (`postLog`) and the tester's counters.
- The data race on the fields of `Session`, and that on `currentRoom` of the
  client, beyond the order of steps: how a torn `std::string` looks.
- That `signal_handler` of the client posts from a signal handler, which is not
  async-signal-safe: the model lets the signal arrive between two steps.
- Repository operations nobody calls (they update, remove and list);
  `SessionManager::add`, `findByUserId`, `broadcast`; `clearAuthentication`.
- Unknown operations (`RoomService.cpp:112-115`), which are answered with a
  refusal.
- In `Conversation`, a `/create` of a name the table cannot hold (the thread ends,
  and the server with it: `ChatServer`); users who log in there or change name.
- In `ChatServer` and `Conversation`, a session that is freed: only what the
  client hears of it is modelled, in `Drop`. A client whose session has been
  refused may send on until then, and nothing comes of it.
- In `ChatServer`, rooms called ""; `Conversation` has one.
- Errors of the read loop other than a failed read: a frame the server refuses
  in `Conversation` is a text too long, and a body that does not parse is, in
  `Client`, one more read that fails.
- The tester never ends by itself, since its timers arm themselves again;
  `Quits` speaks of the chat client only.
- The notice that a JOIN or CREATE of another room does not send: it is absent
  from the code, and a property of it would fail in every run.
- That `message_queue` and the client's `write_queue` have no limit.

## Plan

Done: `RoomService`, `ConnectionPool`, `SessionManager`, `ChatServer`,
`AuthService`, `Session` and `Client` over `Channel`, and `Conversation`, with
proofs; `Lifecycle`.

To prove: what of `QuitIsClean` holds of a client with any number of threads.

To model: the pool inside the composition, a server whose database calls
block.
