----------------------------- MODULE AuthService ----------------------------
(***************************************************************************)
(* Accounts (server/src/service/AuthService): the handlers that log in,    *)
(* register, and change a password or a name, over the table users         *)
(* (data/MySQLUserRepository) and the session registry (SessionManager).   *)
(*                                                                         *)
(* A handler reads a row with one statement, changes its copy, and writes  *)
(* the whole copy back with another.  Between the two, other threads run.  *)
(*                                                                         *)
(* A password stands for its salt and hash.  Names are one spelling of     *)
(* each class of the table's collation; "" is not among them, and a        *)
(* session that has not logged in gets no further than dispatchMessage.    *)
(*                                                                         *)
(* The operators called variants are slips the code does not make: with a  *)
(* variant in the place of the definition after it, a property fails.      *)
(***************************************************************************)
EXTENDS Maps, Naturals

CONSTANTS Users, Sessions, Names, Passwords, Workers,
          LongNames,    \* names of more characters than the column holds
          MaxRequests,  \* requests handled, at most
          DbMayFail,    \* a database call may lose its connection
          LateRequests, \* a session's requests may begin after its disconnect
          Exclusive,    \* the clients' discipline described in SessionManager
          None          \* nullopt, and what a request leaves out

VARIABLES users,      \* table users: id -> row
          identity, sessionsByUserId, sessionsByUsername, online, \* SessionManager
          pc, ctx,    \* where each worker is, its request and the row it read
          closed,     \* sessions whose onDisconnect has run
          handled,    \* number of requests begun
          reported,   \* history: the password a client was last told is set
          disturbed   \* history: users whose row two handlers were about to
                      \* write at a time, or whose UPDATE was lost

SM == INSTANCE SessionManager WITH Nobody <- None, NoName <- None

people == <<identity, sessionsByUserId, sessionsByUsername, online>>
vars == <<users, people, pc, ctx, closed, handled, reported, disturbed>>

ASSUME AccountAssumption ==
  /\ None \notin Users \cup Names \cup Passwords
  /\ LongNames \subseteq Names
  /\ MaxRequests \in Nat /\ {DbMayFail, LateRequests, Exclusive} \subseteq BOOLEAN

Row == [username : Names, password : Passwords]

\* Names are UNIQUE and fit their column.
Legal(table) ==
  /\ \A u, v \in DOMAIN table : table[u].username = table[v].username => u = v
  /\ \A u \in DOMAIN table : table[u].username \notin LongNames

Request ==
  [op : {"login", "register"}, name : Names, old : {None}, new : Passwords]
    \cup [op : {"password"}, name : {None}, old : Passwords, new : Passwords]
    \cup [op : {"rename"}, name : Names, old : {None}, new : {None}]

NoTask == [s |-> None, req |-> None, id |-> None, row |-> None]

PC == {"idle", "dead", "lookup", "login", "insert", "name_taken", "update",
       "rename_session"}

TypeOK ==
  /\ IsMap(users, Users, Row) /\ Legal(users)
  /\ SM!TypeOK
  /\ pc \in [Workers -> PC]
  /\ \A w \in Workers : /\ ctx[w].s \in Sessions \cup {None}
                        /\ ctx[w].req \in Request \cup {None}
                        /\ ctx[w].id \in Users \cup {None}
                        /\ ctx[w].row \in Row \cup {None}
  /\ closed \in SUBSET Sessions
  /\ handled \in 0..MaxRequests
  /\ IsMap(reported, Users, Passwords)
  /\ disturbed \in SUBSET Users

Init ==
  /\ users \in MapsInto(Users, Row) /\ Legal(users)
  /\ SM!Init
  /\ pc = [w \in Workers |-> "idle"]
  /\ ctx = [w \in Workers |-> NoTask]
  /\ closed = {}
  /\ handled = 0
  /\ reported = NoEntries
  /\ disturbed = {}

-----------------------------------------------------------------------------
Req(w) == ctx[w].req

Goto(w, label, c) == pc' = [pc EXCEPT ![w] = label] /\ ctx' = [ctx EXCEPT ![w] = c]
Finish(w) == Goto(w, "idle", NoTask)

\* Clients that keep to the discipline log in on a fresh connection, as a user
\* nobody is online as.
Disciplined(s, req) ==
  Exclusive /\ req.op = "login" =>
    ~SM!Authenticated(s) /\ \A t \in online : identity[t].username # req.name

\* dispatchMessage.  After a write error reads go on and bring requests when
\* the disconnect has been handled, and with several threads an earlier request
\* may be overtaken by it.  Nobody registers when all of Users have: a bound.
Begin(w) ==
  /\ pc[w] = "idle" /\ handled < MaxRequests
  /\ \E s \in Sessions, req \in Request :
       /\ s \in closed => LateRequests
       /\ req.op \in {"password", "rename"} => SM!Authenticated(s)
       /\ req.op = "register" => DOMAIN users # Users
       /\ Disciplined(s, req)
       /\ Goto(w, "lookup", [NoTask EXCEPT !.s = s, !.req = req])
  /\ handled' = handled + 1
  /\ UNCHANGED <<users, people, closed, reported, disturbed>>

\* The task posted by onDisconnect.
Disconnect(w) ==
  /\ pc[w] = "idle"
  /\ \E s \in Sessions \ closed : /\ SM!Remove(s)
                                  /\ closed' = closed \cup {s}
  /\ UNCHANGED <<users, pc, ctx, handled, reported, disturbed>>

-----------------------------------------------------------------------------
(* The table.                                                              *)

\* The ids of the rows findByUsername may return, at most one.
Named(n) == {u \in DOMAIN users : users[u].username = n}

\* Reading a row fills the handler's copy of it.
Copy(w, u) == [ctx[w] EXCEPT !.id = u, !.row = users[u]]

\* INSERT and UPDATE take a name that fits its column and, by the UNIQUE key,
\* is nobody else's.
Free(n, u) == n \notin LongNames /\ Named(n) \subseteq {u}

-----------------------------------------------------------------------------
(* handleLogin.                                                            *)

\* findByUsername, and the comparison of the passwords.
LoginLookup(w) ==
  /\ pc[w] = "lookup" /\ Req(w).op = "login"
  /\ \/ \E u \in Named(Req(w).name) :
          IF users[u].password = Req(w).new THEN Goto(w, "login", Copy(w, u))
                                            ELSE Finish(w)
     \/ (Named(Req(w).name) = {} \/ DbMayFail) /\ Finish(w)
  /\ UNCHANGED <<users, people, closed, handled, reported, disturbed>>

\* Registered under the name in the row that was read.
Login(w) ==
  /\ pc[w] = "login"
  /\ SM!RegisterAuthenticatedSession(ctx[w].s, ctx[w].id, ctx[w].row.username)
  /\ Finish(w)
  /\ UNCHANGED <<users, closed, handled, reported, disturbed>>

-----------------------------------------------------------------------------
(* handleRegister.                                                         *)

RegisterLookup(w) ==
  /\ pc[w] = "lookup" /\ Req(w).op = "register"
  /\ \/ Named(Req(w).name) # {} /\ Finish(w)
     \/ (Named(Req(w).name) = {} \/ DbMayFail) /\ Goto(w, "insert", ctx[w])
  /\ UNCHANGED <<users, people, closed, handled, reported, disturbed>>

\* addUser.  Success is reported, unless the connection breaks before or after
\* the row is stored.
Insert(w) ==
  /\ pc[w] = "insert"
  /\ \/ /\ Free(Req(w).name, None)
        /\ \E u \in Users \ DOMAIN users :
             /\ users' = Put(users, u, [username |-> Req(w).name, password |-> Req(w).new])
             /\ \/ reported' = Put(reported, u, Req(w).new)
                \/ DbMayFail /\ UNCHANGED reported
     \/ DbMayFail /\ UNCHANGED <<users, reported>>
  /\ Finish(w)
  /\ UNCHANGED <<people, closed, handled, disturbed>>

\* addUser or updateUser rethrows, and the thread ends.
Throw(w) ==
  /\ \/ pc[w] = "insert" /\ ~Free(Req(w).name, None)
     \/ pc[w] = "update" /\ ~Free(ctx[w].row.username, ctx[w].id)
  /\ Goto(w, "dead", NoTask)
  /\ UNCHANGED <<users, people, closed, handled, reported, disturbed>>

-----------------------------------------------------------------------------
(* handleChangePassword, handleChangeUsername.                             *)

\* Variant: the fields change places.
OtherField(req, row) ==
  IF req.op = "password" THEN [row EXCEPT !.username = req.new]
                         ELSE [row EXCEPT !.password = req.name]

\* What the handler makes of its copy.
Changed(req, row) ==
  IF req.op = "password" THEN [row EXCEPT !.password = req.new]
                         ELSE [row EXCEPT !.username = req.name]

\* The handlers that have read the row of u to write it back.
Writers(u) == {w \in Workers : pc[w] \in {"name_taken", "update"} /\ ctx[w].id = u}

\* The row is looked up by the name the session had when it last learned it.
ChangeLookup(w) ==
  /\ pc[w] = "lookup" /\ Req(w).op \in {"password", "rename"}
  /\ LET name == identity[ctx[w].s].username
     IN \/ \E u \in Named(name) :
             \/ /\ Req(w).op = "password"
                /\ IF users[u].password = Req(w).old /\ Req(w).old # Req(w).new
                     THEN Goto(w, "update", [Copy(w, u) EXCEPT !.row = Changed(Req(w), @)])
                     ELSE Finish(w)
             \/ /\ Req(w).op = "rename"
                /\ Goto(w, "name_taken", Copy(w, u))
        \/ (Named(name) = {} \/ DbMayFail) /\ Finish(w)
  /\ disturbed' = disturbed \cup
                    {u \in Users : w \in Writers(u)' /\ Writers(u)' # {w}}
  /\ UNCHANGED <<users, people, closed, handled, reported>>

\* Variant: the new name is not looked up.
NameUnchecked(w) ==
  /\ pc[w] = "name_taken"
  /\ Goto(w, "update", [ctx[w] EXCEPT !.row = Changed(Req(w), @)])
  /\ UNCHANGED <<users, people, closed, handled, reported, disturbed>>

\* findByUsername(new_username), and the comparison with the old name.
NameTaken(w) ==
  /\ pc[w] = "name_taken"
  /\ \/ Named(Req(w).name) # {} /\ Finish(w)
     \/ /\ Named(Req(w).name) = {} \/ DbMayFail
        /\ IF Req(w).name = ctx[w].row.username
             THEN Finish(w)
             ELSE Goto(w, "update", [ctx[w] EXCEPT !.row = Changed(Req(w), @)])
  /\ UNCHANGED <<users, people, closed, handled, reported, disturbed>>

\* Success is reported of a password as soon as it is written; a name has to
\* reach the session first.
Updated(w) ==
  IF Req(w).op = "password"
    THEN Finish(w) /\ reported' = Put(reported, ctx[w].id, Req(w).new)
    ELSE Goto(w, "rename_session", ctx[w]) /\ UNCHANGED reported

\* Variants: updateUser is not called, or its WHERE is missing.
UpdateNothing(w) ==
  /\ pc[w] = "update" /\ Updated(w)
  /\ UNCHANGED <<users, people, closed, handled, disturbed>>

UpdateEveryRow(w) ==
  /\ pc[w] = "update" /\ Updated(w)
  /\ users' = [u \in DOMAIN users |-> [users[u] EXCEPT !.password = ctx[w].row.password]]
  /\ UNCHANGED <<people, closed, handled, disturbed>>

\* updateUser writes all fields of the copy.  Its result is not looked at.
Update(w) ==
  /\ pc[w] = "update"
  /\ \/ /\ Free(ctx[w].row.username, ctx[w].id)
        /\ users' = [users EXCEPT ![ctx[w].id] = ctx[w].row]
        /\ UNCHANGED disturbed
     \/ /\ DbMayFail
        /\ disturbed' = disturbed \cup {ctx[w].id}
        /\ UNCHANGED users
  /\ Updated(w)
  /\ UNCHANGED <<people, closed, handled>>

\* Variant: the session keeps its name.
RenameNobody(w) ==
  /\ pc[w] = "rename_session" /\ Finish(w)
  /\ UNCHANGED <<users, people, closed, handled, reported, disturbed>>

\* sessionManager->updateUsername; other sessions of the user are not told.
RenameSession(w) ==
  /\ pc[w] = "rename_session" /\ Finish(w)
  /\ SM!UpdateUsername(ctx[w].s, Req(w).name)
  /\ UNCHANGED <<users, closed, handled, reported, disturbed>>

-----------------------------------------------------------------------------
WorkerStep(w) ==
  \/ Begin(w) \/ Disconnect(w)
  \/ LoginLookup(w) \/ Login(w)
  \/ RegisterLookup(w) \/ Insert(w) \/ Throw(w)
  \/ ChangeLookup(w) \/ NameTaken(w) \/ Update(w) \/ RenameSession(w)

Next == \E w \in Workers : WorkerStep(w)

Spec == Init /\ [][Next]_vars

-----------------------------------------------------------------------------
(* Properties.                                                             *)

\* Disciplined clients make of the session registry what SessionManager says
\* they do, and so its entries stay exact: a session changes its name to one no
\* session online has, although that is looked up in the table, which another
\* request of the session or of another may have changed (AuthService.cpp:128,
\* 148, 149).
PeopleSpec == SM!Spec

Quiet == \A w \in Workers : pc[w] \in {"idle", "dead"}

\* chat.proto:55-59: a name that is taken is answered, as is success.  On one
\* thread looking the name up first makes sure that no exception comes of it
\* (AuthService.cpp:40-56, 128-148): what ends the thread, and with it the
\* server, is a request for a name that does not fit its column, which nobody
\* looks at before the database does (schema.sql:68).
OnlyLongNamesKill ==
  [][\A w \in Workers :
       pc[w] # "dead" /\ pc'[w] = "dead" => Req(w).name \in LongNames]_vars

\* A handler writes a row back, for a session that is logged in as u.
WrittenBack(op, u) ==
  \E w \in Workers : /\ pc[w] = "update" /\ pc'[w] # "update" /\ Req(w).op = op
                     /\ identity[ctx[w].s].userId = u

\* chat.proto:61-73: a change of password changes the user's password and a
\* change of name the user's name.  A row only changes in that field, and only
\* by a handler of a session that is logged in as its user.
OwnFieldOnly ==
  [][\A u \in DOMAIN users :
       /\ users'[u].password # users[u].password => WrittenBack("password", u)
       /\ users'[u].username # users[u].username => WrittenBack("rename", u)]_vars

\* A password reported as set (AuthService.cpp:106-109) is the one the next
\* login is compared with, whatever names its user has gone by since.  It gets
\* lost in two ways only: two handlers were about to write the row at a time, one
\* of them a copy it had read before the other wrote, or the connection broke
\* under an UPDATE, whose result nobody looks at (AuthService.cpp:106, 148).
ReportedHolds ==
  \A u \in DOMAIN reported \ disturbed :
    u \in DOMAIN users /\ users[u].password = reported[u]

\* A user who is online goes by the name in the table and is found under it,
\* for private messages and for the next change, after any changes of name by
\* any users (AuthService.cpp:147-149).
FoundUnderRow ==
  Quiet => \A s \in online :
    LET name == users[identity[s].userId].username
    IN /\ identity[s].username = name
       /\ name \in DOMAIN sessionsByUsername /\ sessionsByUsername[name] = s
=============================================================================
