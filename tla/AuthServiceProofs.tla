-------------------------- MODULE AuthServiceProofs --------------------------
(***************************************************************************)
(* The account handlers, for any sets of users, sessions, names, passwords *)
(* and threads: what they hold between two statements is well typed, and   *)
(* they use the session registry as SessionManager describes.  With one    *)
(* thread and a database that does not fail, what a handler has read is    *)
(* still so when it writes; with exclusive clients too, a session that is  *)
(* online goes by the name in the table.                                   *)
(*                                                                         *)
(* None of the four promises is inductive.  OnlyLongNamesKill needs that   *)
(* the name to be written is still nobody's (Holds); ReportedHolds, that   *)
(* the copy of the only handler about to write a row has the password of   *)
(* the row (Undisturbed); FoundUnderRow and OwnFieldOnly, that the row was *)
(* the one of the session's own user (Owns), which a handler finds by      *)
(* name, so that it takes the session's name and the table's to agree: all *)
(* but while the handler that changes them is between the two.             *)
(***************************************************************************)
EXTENDS AuthService, ContainerTheorems

\* Without "threads" in the configuration only main runs handlers
\* (main.cpp:27-44).
OneThread == \A v, w \in Workers : v = w

-----------------------------------------------------------------------------
(* The session registry on its own (SessionManager).                       *)
(*                                                                         *)
(* RegistryIsExact is not inductive alone: a login of a session that was   *)
(* online under another identity would leave the entries of that one       *)
(* behind.  OnlineIsKnown excludes it: who is online has logged in, and    *)
(* exclusive clients do so once.                                           *)

OnlineIsKnown == \A s \in online : SM!Authenticated(s)

RegistryInv == /\ SM!TypeOK
               /\ Exclusive => OnlineIsKnown /\ SM!RegistryIsExact


\* The registry's assumption is one of this module's.
LEMMA Assumed == SM!IdentityAssumption
BY AccountAssumption DEF AccountAssumption, SM!IdentityAssumption

\* The registry's maps are those of module Maps.
LEMMA SameMaps ==
  /\ SM!NoEntries = NoEntries
  /\ \A m, K, V : SM!IsMap(m, K, V) <=> IsMap(m, K, V)
  /\ \A m, k, v : SM!Put(m, k, v) = Put(m, k, v)
  /\ \A m, k : SM!Erase(m, k) = Erase(m, k)
BY DEF SM!NoEntries, NoEntries, SM!IsMap, IsMap, SM!Put, Put, SM!Erase, Erase,
       SM!Restrict, Restrict

\* Each session online has its two entries, and each entry is that of a
\* session online.
Entries ==
  /\ \A s \in online :
       /\ identity[s].userId \in DOMAIN sessionsByUserId
       /\ sessionsByUserId[identity[s].userId] = s
       /\ identity[s].username \in DOMAIN sessionsByUsername
       /\ sessionsByUsername[identity[s].username] = s
  /\ \A u \in DOMAIN sessionsByUserId : \E s \in online : identity[s].userId = u
  /\ \A n \in DOMAIN sessionsByUsername : \E s \in online : identity[s].username = n

\* That is what SM!RegistryIsExact says, before a step and after it.
LEMMA ExactByEntry == (SM!RegistryIsExact <=> Entries) /\ (SM!RegistryIsExact <=> Entries)'
<1>1. SM!RegistryIsExact <=> Entries
  BY DEF SM!RegistryIsExact, Entries
<1>2. (SM!RegistryIsExact <=> Entries)'
  BY DEF SM!RegistryIsExact, Entries
<1> QED
  BY <1>1, <1>2

\* A session is not authenticated before it logs in, and is so with a user's id
\* and name afterwards.
LEMMA IdentityType ==
  ASSUME SM!TypeOK, NEW s \in Sessions
  PROVE  IF SM!Authenticated(s)
           THEN /\ identity[s] \in [userId : Users, username : Names]
                /\ identity[s].userId \in Users /\ identity[s].username \in Names
           ELSE identity[s] = SM!Anonymous
BY Assumed DEF SM!IdentityAssumption, SM!TypeOK, SM!Authenticated, SM!Anonymous

-----------------------------------------------------------------------------
(* The three methods (SessionManager.cpp:9-29).                            *)

\* They keep the type, exclusive or not.
LEMMA RegisterType ==
  ASSUME SM!TypeOK, NEW s \in Sessions, NEW u \in Users, NEW n \in Names,
         SM!RegisterAuthenticatedSession(s, u, n)
  PROVE  SM!TypeOK'
<1>1. IsMap(sessionsByUserId', Users, Sessions) /\ IsMap(sessionsByUsername', Names, Sessions)
  BY PutType, SameMaps DEF SM!TypeOK, SM!RegisterAuthenticatedSession
<1>2. identity' \in [Sessions -> {SM!Anonymous} \cup [userId : Users, username : Names]]
  BY DEF SM!TypeOK, SM!RegisterAuthenticatedSession
<1> QED
  BY <1>1, <1>2, SameMaps DEF SM!TypeOK, SM!RegisterAuthenticatedSession

\* A session that is removed keeps its identity and may lose its entries.
LEMMA RemoveType ==
  ASSUME SM!TypeOK, NEW s \in Sessions, SM!Remove(s)
  PROVE  SM!TypeOK'
<1>1. IsMap(sessionsByUserId', Users, Sessions) /\ IsMap(sessionsByUsername', Names, Sessions)
  BY EraseType, SameMaps DEF SM!TypeOK, SM!Remove
<1> QED
  BY <1>1, SameMaps DEF SM!TypeOK, SM!Remove

\* A change of name moves the entry of the old name.
LEMMA UpdateType ==
  ASSUME SM!TypeOK, NEW s \in Sessions, NEW n \in Names, SM!Authenticated(s), SM!UpdateUsername(s, n)
  PROVE  SM!TypeOK'
<1>1. IsMap(sessionsByUsername', Names, Sessions)
  BY EraseType, PutType, SameMaps DEF SM!TypeOK, SM!UpdateUsername
<1>2. PICK i : i = [identity[s] EXCEPT !.username = n]
  OBVIOUS
<1>3. identity' = [identity EXCEPT ![s] = i]
  BY <1>2 DEF SM!UpdateUsername
<1>4. i \in [userId : Users, username : Names]
  BY <1>2, IdentityType
<1> QED
  BY <1>1, <1>3, <1>4, SameMaps DEF SM!TypeOK, SM!UpdateUsername

\* A first login, as a user and under a name nobody online has.
LEMMA RegisterExact ==
  ASSUME SM!TypeOK, OnlineIsKnown, SM!RegistryIsExact,
         NEW s \in Sessions, NEW u \in Users, NEW n \in Names,
         ~SM!Authenticated(s), SM!Free(u, n), SM!RegisterAuthenticatedSession(s, u, n)
  PROVE  OnlineIsKnown' /\ SM!RegistryIsExact'
<1>1. SM!TypeOK'
  BY RegisterType
<1>2. s \notin online /\ online' = online \cup {s}
  BY DEF OnlineIsKnown, SM!RegisterAuthenticatedSession
<1>3. /\ identity'[s] = [userId |-> u, username |-> n]
      /\ \A t \in online : identity'[t] = identity[t]
  BY <1>2 DEF SM!TypeOK, SM!RegisterAuthenticatedSession
<1>4. /\ DOMAIN sessionsByUserId' = DOMAIN sessionsByUserId \cup {u}
      /\ sessionsByUserId'[u] = s
      /\ \A x \in DOMAIN sessionsByUserId : x # u => sessionsByUserId'[x] = sessionsByUserId[x]
  BY SameMaps DEF SM!RegisterAuthenticatedSession, Put
<1>5. /\ DOMAIN sessionsByUsername' = DOMAIN sessionsByUsername \cup {n}
      /\ sessionsByUsername'[n] = s
      /\ \A x \in DOMAIN sessionsByUsername :
           x # n => sessionsByUsername'[x] = sessionsByUsername[x]
  BY SameMaps DEF SM!RegisterAuthenticatedSession, Put
<1>6. OnlineIsKnown'
  BY <1>2, <1>3, Assumed DEF SM!IdentityAssumption, OnlineIsKnown, SM!Authenticated
<1>7. \A t \in online : identity[t].userId # u /\ identity[t].username # n
  BY DEF SM!Free
<1>8. Entries'
  BY <1>2, <1>3, <1>4, <1>5, <1>7, ExactByEntry DEF Entries
<1> QED
  BY <1>6, <1>8, ExactByEntry

\* The end of a session that is online, or of one that never was.
LEMMA RemoveExact ==
  ASSUME SM!TypeOK, OnlineIsKnown, SM!RegistryIsExact,
         NEW s \in Sessions, s \in online \/ ~SM!Authenticated(s), SM!Remove(s)
  PROVE  OnlineIsKnown' /\ SM!RegistryIsExact'
<1>1. SM!TypeOK'
  BY RemoveType
<1>2. identity' = identity /\ online' = online \ {s}
  BY DEF SM!Remove
<1>3. OnlineIsKnown'
  BY <1>2 DEF OnlineIsKnown, SM!Authenticated
<1>4. CASE ~SM!Authenticated(s)
  <2>1. online' = online
    BY <1>2, <1>4 DEF OnlineIsKnown
  <2> QED
    BY <1>2, <1>3, <1>4, <2>1 DEF SM!Remove, SM!RegistryIsExact
<1>5. CASE s \in online
  <2>1. SM!Authenticated(s)
    BY <1>5 DEF OnlineIsKnown
  <2>2. /\ DOMAIN sessionsByUserId' = DOMAIN sessionsByUserId \ {identity[s].userId}
        /\ \A x \in DOMAIN sessionsByUserId :
             x # identity[s].userId => sessionsByUserId'[x] = sessionsByUserId[x]
    BY <2>1, SameMaps DEF SM!Remove, Erase, Restrict
  <2>3. /\ DOMAIN sessionsByUsername' = DOMAIN sessionsByUsername \ {identity[s].username}
        /\ \A x \in DOMAIN sessionsByUsername :
             x # identity[s].username => sessionsByUsername'[x] = sessionsByUsername[x]
    BY <2>1, SameMaps DEF SM!Remove, Erase, Restrict
  <2>4. Entries'
    BY <1>2, <1>5, <2>2, <2>3, ExactByEntry DEF Entries
  <2> QED
    BY <1>3, <2>4, ExactByEntry
<1> QED
  BY <1>4, <1>5

\* A session online takes a name nobody online has.
LEMMA UpdateExact ==
  ASSUME SM!TypeOK, OnlineIsKnown, SM!RegistryIsExact,
         NEW s \in online, NEW n \in Names, SM!Free(None, n), SM!UpdateUsername(s, n)
  PROVE  OnlineIsKnown' /\ SM!RegistryIsExact'
<1>1. SM!Authenticated(s) /\ s \in Sessions
  BY DEF OnlineIsKnown, SM!TypeOK
<1>2. SM!TypeOK'
  BY <1>1, UpdateType
<1>3. PICK i : i = [identity[s] EXCEPT !.username = n]
  OBVIOUS
<1>4. i.userId = identity[s].userId /\ i.username = n
  BY <1>1, <1>3, IdentityType
<1>5. /\ online' = online /\ sessionsByUserId' = sessionsByUserId
      /\ identity'[s] = i
      /\ \A t \in online : t # s => identity'[t] = identity[t]
  BY <1>1, <1>3 DEF SM!UpdateUsername, SM!TypeOK
<1>6. OnlineIsKnown'
  BY <1>4, <1>5 DEF OnlineIsKnown, SM!Authenticated
<1>7. PICK m : m = Erase(sessionsByUsername, identity[s].username)
  OBVIOUS
<1>8. /\ DOMAIN m = DOMAIN sessionsByUsername \ {identity[s].username}
      /\ \A x \in DOMAIN sessionsByUsername :
           x # identity[s].username => m[x] = sessionsByUsername[x]
  BY <1>7 DEF Erase, Restrict
<1>9. sessionsByUsername' = Put(m, n, s)
  BY <1>7, SameMaps DEF SM!UpdateUsername
<1>10. /\ DOMAIN sessionsByUsername' = DOMAIN m \cup {n}
       /\ sessionsByUsername'[n] = s
       /\ \A x \in DOMAIN m : x # n => sessionsByUsername'[x] = m[x]
  BY <1>9 DEF Put
<1>11. \A t \in online : identity[t].username # n
  BY DEF SM!Free
<1>12. Entries'
  BY <1>4, <1>5, <1>8, <1>10, <1>11, ExactByEntry DEF Entries
<1> QED
  BY <1>6, <1>12, ExactByEntry

-----------------------------------------------------------------------------
\* The registry starts out empty, with nobody online.
THEOREM InitRegistryInv == SM!Init => RegistryInv
<1> SUFFICES ASSUME SM!Init PROVE RegistryInv
  OBVIOUS
<1>1. SM!TypeOK
  BY NoEntriesType, SameMaps DEF SM!Init, SM!TypeOK
<1>2. OnlineIsKnown /\ SM!RegistryIsExact
  BY NoEntriesType, SameMaps, ExactByEntry DEF SM!Init, OnlineIsKnown, Entries
<1> QED
  BY <1>1, <1>2 DEF RegistryInv

\* Each method keeps the invariant, called as AuthService and Server call it.
THEOREM NextRegistryInv == RegistryInv /\ [SM!Next]_(SM!vars) => RegistryInv'
<1> SUFFICES ASSUME RegistryInv, [SM!Next]_(SM!vars) PROVE RegistryInv'
  OBVIOUS
<1>1. CASE UNCHANGED SM!vars
  BY <1>1 DEF SM!vars, RegistryInv, SM!TypeOK, OnlineIsKnown, SM!RegistryIsExact, SM!Authenticated
<1>2. ASSUME NEW s \in Sessions, NEW u \in Users, NEW n \in Names,
             Exclusive => ~SM!Authenticated(s) /\ SM!Free(u, n),
             SM!RegisterAuthenticatedSession(s, u, n)
      PROVE  RegistryInv'
  BY <1>2, RegisterType, RegisterExact DEF RegistryInv
<1>3. ASSUME NEW s \in Sessions, Exclusive => s \in online \/ ~SM!Authenticated(s), SM!Remove(s)
      PROVE  RegistryInv'
  BY <1>3, RemoveType, RemoveExact DEF RegistryInv
<1>4. ASSUME NEW s \in Sessions, NEW n \in Names, SM!Authenticated(s),
             Exclusive => s \in online /\ SM!Free(None, n), SM!UpdateUsername(s, n)
      PROVE  RegistryInv'
  BY <1>4, UpdateType, UpdateExact DEF RegistryInv
<1> QED
  BY <1>1, <1>2, <1>3, <1>4 DEF SM!Next

\* The invariant holds in every reachable state.
THEOREM RegistryInvariance == SM!Spec => []RegistryInv
BY InitRegistryInv, NextRegistryInv, PTL DEF SM!Spec

\* The two maps and the identities are well typed, whatever clients do.
THEOREM RegistryTyped == SM!Spec => []SM!TypeOK
<1>1. RegistryInv => SM!TypeOK
  BY DEF RegistryInv
<1> QED
  BY <1>1, RegistryInvariance, PTL

\* With clients that log in once, as users and under names that nobody online
\* has, the two maps list the sessions online and no others, each under its own
\* id and name (SessionManager.cpp:9-29).
THEOREM ExclusiveIsExact == SM!Spec => [](Exclusive => SM!RegistryIsExact)
<1>1. RegistryInv => (Exclusive => SM!RegistryIsExact)
  BY DEF RegistryInv
<1> QED
  BY <1>1, RegistryInvariance, PTL

-----------------------------------------------------------------------------
(* The invariants.                                                         *)

Task == [s : Sessions \cup {None}, req : Request \cup {None},
         id : Users \cup {None}, row : Row \cup {None}]

\* A request gets to the statements of its own handler, with what they use.
AtWork(w) ==
  /\ pc[w] \notin {"idle", "dead"} =>
       /\ ctx[w].s \in Sessions /\ Req(w) \in Request
       /\ Req(w).op \in {"password", "rename"} => SM!Authenticated(ctx[w].s)
  /\ pc[w] \in {"login", "name_taken", "update", "rename_session"} =>
       ctx[w].id \in DOMAIN users /\ ctx[w].row \in Row
  /\ pc[w] = "login" => Req(w).op = "login"
  /\ pc[w] = "insert" => Req(w).op = "register"
  /\ pc[w] = "update" => Req(w).op \in {"password", "rename"}
  /\ pc[w] \in {"name_taken", "rename_session"} => Req(w).op = "rename"

\* No user is ever deleted.
KnownUsers ==
  \A s \in Sessions : SM!Authenticated(s) => identity[s].userId \in DOMAIN users

\* Any threads, any clients, any database.
IInv == /\ TypeOK
        /\ ctx \in [Workers -> Task]
        /\ KnownUsers
        /\ \A w \in Workers : AtWork(w)

\* What a handler has read is still so.
Holds(w) ==
  /\ pc[w] = "login" => users[ctx[w].id].username = Req(w).name /\ ctx[w].row = users[ctx[w].id]
  /\ pc[w] = "insert" => Named(Req(w).name) = {}
  /\ pc[w] = "name_taken" => ctx[w].row = users[ctx[w].id]
  /\ pc[w] = "update" => /\ ctx[w].row = Changed(Req(w), users[ctx[w].id])
                         /\ Req(w).op = "rename" => Named(Req(w).name) = {}
  /\ pc[w] = "rename_session" => users[ctx[w].id].username = Req(w).name

\* One thread, no failures.
AloneInv == \A w \in Workers : Holds(w)

\* A row that is written back, by one handler at a time, has the password the
\* table has, or the one the request asks for.
Undisturbed ==
  /\ DOMAIN reported \subseteq DOMAIN users
  /\ ReportedHolds
  /\ \A u \in Users \ disturbed : \A w \in Writers(u) :
       /\ Writers(u) = {w}
       /\ ctx[w].row.password = IF Req(w).op = "password" THEN Req(w).new
                                                         ELSE users[u].password

\* The row a handler has read is that of its session's user, and the session
\* is still open; one that logs in is new and so is its user.
Owns(w) ==
  /\ pc[w] \notin {"idle", "dead"} => ctx[w].s \notin closed
  /\ pc[w] \in {"lookup", "login"} /\ Req(w).op = "login" =>
       /\ ~SM!Authenticated(ctx[w].s)
       /\ \A t \in online : identity[t].username # Req(w).name
  /\ pc[w] \in {"name_taken", "update", "rename_session"} =>
       ctx[w].id = identity[ctx[w].s].userId
  /\ pc[w] = "rename_session" => identity[ctx[w].s].username # Req(w).name

\* The session's name is its user's, or is about to be.
InStep(t) ==
  \/ identity[t].username = users[identity[t].userId].username
  \/ \E w \in Workers : pc[w] = "rename_session" /\ ctx[w].s = t

\* One thread, no failures, exclusive clients.
OwnInv == /\ OnlineIsKnown /\ SM!RegistryIsExact
          /\ \A s \in Sessions \ closed : SM!Authenticated(s) => s \in online
          /\ \A w \in Workers : Owns(w)
          /\ \A t \in online : InStep(t)

-----------------------------------------------------------------------------
(* What the definitions say, a piece at a time.                            *)

\* A request carries the name and the password its handler uses.
LEMMA RequestParts ==
  ASSUME NEW r \in Request
  PROVE  /\ r.op \in {"login", "register", "password", "rename"}
         /\ r.op # "password" => r.name \in Names
         /\ r.op # "rename" => r.new \in Passwords
BY DEF Request

\* One field of the copy changes.
LEMMA ChangedParts ==
  ASSUME NEW r \in Request, r.op \in {"password", "rename"}, NEW row \in Row
  PROVE  /\ Changed(r, row) \in Row
         /\ Changed(r, row).username = IF r.op = "password" THEN row.username ELSE r.name
         /\ Changed(r, row).password = IF r.op = "password" THEN r.new ELSE row.password
BY RequestParts DEF Changed, Row

\* A row of the table is a row, and what is read of it fills the task.
LEMMA CopyParts ==
  ASSUME IInv, NEW w \in Workers, NEW u \in DOMAIN users, NEW c, c = Copy(w, u)
  PROVE  /\ users[u] \in Row /\ u \in Users
         /\ c \in Task /\ c.s = ctx[w].s /\ c.req = ctx[w].req
         /\ c.id = u /\ c.row = users[u]
<1>1. users[u] \in Row /\ u \in Users
  BY DEF IInv, TypeOK, IsMap
<1>2. ctx[w] \in Task
  BY DEF IInv
<1> QED
  BY <1>1, <1>2 DEF Copy, Task

\* A handler that reads a row changes nothing else of what it knows.
LEMMA RowParts ==
  ASSUME NEW c \in Task, NEW row \in Row, NEW d, d = [c EXCEPT !.row = row]
  PROVE  d \in Task /\ d.s = c.s /\ d.req = c.req /\ d.id = c.id /\ d.row = row
BY DEF Task

\* The thread is where it goes, the others are where they were.
LEMMA Moves ==
  ASSUME IInv, NEW w \in Workers, NEW p \in PC, NEW c \in Task, Goto(w, p, c)
  PROVE  /\ pc' \in [Workers -> PC] /\ ctx' \in [Workers -> Task]
         /\ pc'[w] = p /\ ctx'[w] = c
         /\ \A v \in Workers \ {w} : pc'[v] = pc[v] /\ ctx'[v] = ctx[v]
BY DEF IInv, TypeOK, Goto

\* A handler is over.
LEMMA NoTaskType == NoTask \in Task /\ "idle" \in PC /\ "dead" \in PC
BY DEF NoTask, Task, PC

-----------------------------------------------------------------------------
(* What every step keeps.                                                  *)

\* Rows and identities that handlers rely on do not go away.
Lasting ==
  /\ DOMAIN users \subseteq DOMAIN users'
  /\ \A s \in Sessions : SM!Authenticated(s) =>
       identity'[s].userId # None /\ identity'[s].userId \in DOMAIN users'

\* A thread that does not move is still where its request takes it.
LEMMA StaysAtWork ==
  ASSUME IInv, Lasting, NEW v \in Workers, pc'[v] = pc[v], ctx'[v] = ctx[v]
  PROVE  AtWork(v)'
BY DEF IInv, AtWork, Lasting, Req, SM!Authenticated

\* A thread moves; the state it leaves is well typed.
LEMMA StepKeeps ==
  ASSUME IInv, NEW w \in Workers, NEW p \in PC, NEW c \in Task, Goto(w, p, c),
         Lasting, AtWork(w)', KnownUsers', SM!TypeOK',
         IsMap(users', Users, Row), Legal(users'), closed' \in SUBSET Sessions,
         handled' \in 0..MaxRequests, IsMap(reported', Users, Passwords),
         disturbed' \in SUBSET Users
  PROVE  IInv'
<1>1. /\ pc' \in [Workers -> PC] /\ ctx' \in [Workers -> Task]
      /\ \A v \in Workers \ {w} : pc'[v] = pc[v] /\ ctx'[v] = ctx[v]
  BY Moves
<1>2. \A v \in Workers : AtWork(v)'
  BY <1>1, StaysAtWork
<1>3. TypeOK'
  BY <1>1 DEF TypeOK, Task
<1> QED
  BY <1>1, <1>2, <1>3 DEF IInv

\* A thread moves and reads.
LEMMA ReadKeeps ==
  ASSUME IInv, NEW w \in Workers, NEW p \in PC, NEW c \in Task, Goto(w, p, c),
         UNCHANGED <<users, people, closed, reported>>,
         handled' \in 0..MaxRequests, disturbed' \in SUBSET Users, AtWork(w)'
  PROVE  IInv'
<1>1. Lasting /\ KnownUsers'
  BY DEF people, IInv, KnownUsers, Lasting, SM!Authenticated
<1>2. SM!TypeOK'
  BY DEF people, IInv, TypeOK, SM!TypeOK
<1>3. /\ IsMap(users', Users, Row) /\ Legal(users') /\ closed' \in SUBSET Sessions
      /\ IsMap(reported', Users, Passwords)
  BY DEF IInv, TypeOK
<1> QED
  BY <1>1, <1>2, <1>3, StepKeeps

\* A handler gives up.
LEMMA EndKeeps ==
  ASSUME IInv, NEW w \in Workers, NEW p \in {"idle", "dead"}, Goto(w, p, NoTask),
         UNCHANGED <<users, people, closed, handled, reported>>, disturbed' \in SUBSET Users
  PROVE  IInv'
<1>1. NoTask \in Task /\ p \in PC
  BY NoTaskType
<1>2. pc'[w] = p
  BY <1>1, Moves
<1>3. AtWork(w)'
  BY <1>2 DEF AtWork
<1>4. handled' \in 0..MaxRequests
  BY DEF IInv, TypeOK
<1> QED
  BY <1>1, <1>3, <1>4, ReadKeeps

-----------------------------------------------------------------------------
(* Every action keeps the invariant, whatever the other threads do.        *)

\* A request of any client, logged in where the method asks for it.
LEMMA BeginTypes ==
  ASSUME IInv, NEW w \in Workers, Begin(w)
  PROVE  IInv'
<1>1. PICK s \in Sessions, req \in Request :
        /\ req.op \in {"password", "rename"} => SM!Authenticated(s)
        /\ Goto(w, "lookup", [NoTask EXCEPT !.s = s, !.req = req])
  BY DEF Begin
<1>2. PICK c : c = [NoTask EXCEPT !.s = s, !.req = req]
  OBVIOUS
<1>3. c \in Task /\ c.s = s /\ c.req = req
  BY <1>2 DEF NoTask, Task
<1>4. "lookup" \in PC /\ Goto(w, "lookup", c)
  BY <1>1, <1>2 DEF PC
<1>5. pc'[w] = "lookup" /\ ctx'[w] = c
  BY <1>3, <1>4, Moves
<1>6. /\ UNCHANGED <<users, people, closed, reported>>
      /\ handled' \in 0..MaxRequests /\ disturbed' \in SUBSET Users
  BY AccountAssumption DEF Begin, IInv, TypeOK, AccountAssumption
<1>7. SM!Authenticated(s)' <=> SM!Authenticated(s)
  BY <1>6 DEF people, SM!Authenticated
<1>8. AtWork(w)'
  BY <1>1, <1>3, <1>5, <1>7 DEF AtWork, Req
<1> QED
  BY <1>3, <1>4, <1>6, <1>8, ReadKeeps

\* A row that is read is the one the handler goes on with.
LEMMA ReadTypes ==
  ASSUME IInv, NEW w \in Workers, NEW p \in PC, NEW c \in Task, Goto(w, p, c),
         UNCHANGED <<users, people, closed, handled, reported>>, disturbed' \in SUBSET Users,
         pc[w] \notin {"idle", "dead"}, c.s = ctx[w].s, c.req = ctx[w].req,
         c.id \in DOMAIN users, c.row \in Row,
         \/ p = "login" /\ Req(w).op = "login"
         \/ p = "name_taken" /\ Req(w).op = "rename"
         \/ p = "update" /\ Req(w).op \in {"password", "rename"}
  PROVE  IInv'
<1>1. pc'[w] = p /\ ctx'[w] = c
  BY Moves
<1>2. AtWork(w)
  BY DEF IInv
<1>3. SM!Authenticated(c.s)' <=> SM!Authenticated(c.s)
  BY DEF people, SM!Authenticated
<1>4. AtWork(w)'
  BY <1>1, <1>2, <1>3 DEF AtWork, Req
<1>5. handled' \in 0..MaxRequests
  BY DEF IInv, TypeOK
<1> QED
  BY <1>4, <1>5, ReadKeeps

\* LOGIN finds the row of the name, and that row stays in the table.
LEMMA LoginLookupTypes ==
  ASSUME IInv, NEW w \in Workers, LoginLookup(w)
  PROVE  IInv'
<1>1. CASE Finish(w)
  BY <1>1, EndKeeps DEF Finish, LoginLookup, IInv, TypeOK
<1>2. CASE \E u \in Named(Req(w).name) : Goto(w, "login", Copy(w, u))
  <2>1. PICK u \in DOMAIN users : Goto(w, "login", Copy(w, u))
    BY <1>2 DEF Named
  <2>2. PICK c : c = Copy(w, u)
    OBVIOUS
  <2>3. users[u] \in Row /\ c \in Task /\ c.s = ctx[w].s /\ c.req = ctx[w].req
        /\ c.id = u /\ c.row = users[u]
    BY <2>2, CopyParts
  <2>4. "login" \in PC /\ Goto(w, "login", c)
    BY <2>1, <2>2 DEF PC
  <2> QED
    BY <2>3, <2>4, ReadTypes DEF LoginLookup, IInv, TypeOK
<1> QED
  BY <1>1, <1>2 DEF LoginLookup

\* REGISTER goes on to its INSERT, or ends.
LEMMA RegisterLookupTypes ==
  ASSUME IInv, NEW w \in Workers, RegisterLookup(w)
  PROVE  IInv'
<1>1. CASE Finish(w)
  BY <1>1, EndKeeps DEF Finish, RegisterLookup, IInv, TypeOK
<1>2. CASE Goto(w, "insert", ctx[w])
  <2>1. "insert" \in PC /\ ctx[w] \in Task
    BY DEF PC, IInv
  <2>2. pc'[w] = "insert" /\ ctx'[w] = ctx[w]
    BY <1>2, <2>1, Moves
  <2>3. AtWork(w)
    BY DEF IInv
  <2>4. AtWork(w)'
    BY <2>2, <2>3 DEF RegisterLookup, AtWork, Req
  <2>5. /\ handled' \in 0..MaxRequests /\ disturbed' \in SUBSET Users
        /\ UNCHANGED <<users, people, closed, reported>>
    BY DEF RegisterLookup, IInv, TypeOK
  <2> QED
    BY <1>2, <2>1, <2>4, <2>5, ReadKeeps
<1> QED
  BY <1>1, <1>2 DEF RegisterLookup

\* An exception of the database ends the handler.
LEMMA ThrowTypes ==
  ASSUME IInv, NEW w \in Workers, Throw(w)
  PROVE  IInv'
BY EndKeeps DEF Throw, IInv, TypeOK

\* A change of password or name starts from the row of the session's user,
\* which is there because no user is deleted.
LEMMA ChangeLookupTypes ==
  ASSUME IInv, NEW w \in Workers, ChangeLookup(w)
  PROVE  IInv'
<1>0. disturbed' \in SUBSET Users
  BY DEF ChangeLookup, IInv, TypeOK
<1>1. CASE Finish(w)
  BY <1>0, <1>1, EndKeeps DEF Finish, ChangeLookup
<1>2. ASSUME NEW u \in DOMAIN users, Req(w).op = "password",
             Goto(w, "update", [Copy(w, u) EXCEPT !.row = Changed(Req(w), @)])
      PROVE  IInv'
  <2>1. PICK c : c = Copy(w, u)
    OBVIOUS
  <2>2. users[u] \in Row /\ c \in Task /\ c.s = ctx[w].s /\ c.req = ctx[w].req
        /\ c.id = u /\ c.row = users[u]
    BY <2>1, CopyParts
  <2>3. PICK d : d = [c EXCEPT !.row = Changed(Req(w), c.row)]
    OBVIOUS
  <2>4. Req(w) \in Request
    BY DEF ChangeLookup, IInv, AtWork
  <2>5. Changed(Req(w), c.row) \in Row
    BY <1>2, <2>2, <2>4, ChangedParts
  <2>6. d \in Task /\ d.s = c.s /\ d.req = c.req /\ d.id = c.id /\ d.row \in Row
    BY <2>2, <2>3, <2>5, RowParts
  <2>7. "update" \in PC /\ Goto(w, "update", d)
    BY <1>2, <2>1, <2>3 DEF PC
  <2> QED
    BY <1>0, <1>2, <2>2, <2>6, <2>7, ReadTypes DEF ChangeLookup
<1>3. ASSUME NEW u \in DOMAIN users, Req(w).op = "rename", Goto(w, "name_taken", Copy(w, u))
      PROVE  IInv'
  <2>1. PICK c : c = Copy(w, u)
    OBVIOUS
  <2>2. users[u] \in Row /\ c \in Task /\ c.s = ctx[w].s /\ c.req = ctx[w].req
        /\ c.id = u /\ c.row = users[u]
    BY <2>1, CopyParts
  <2>3. "name_taken" \in PC /\ Goto(w, "name_taken", c)
    BY <1>3, <2>1 DEF PC
  <2> QED
    BY <1>0, <1>3, <2>2, <2>3, ReadTypes DEF ChangeLookup
<1> QED
  BY <1>1, <1>2, <1>3 DEF ChangeLookup, Named

\* A change of name goes on to its UPDATE, or ends.
LEMMA NameTakenTypes ==
  ASSUME IInv, NEW w \in Workers, NameTaken(w)
  PROVE  IInv'
<1>1. CASE Finish(w)
  BY <1>1, EndKeeps DEF Finish, NameTaken, IInv, TypeOK
<1>2. CASE Goto(w, "update", [ctx[w] EXCEPT !.row = Changed(Req(w), @)])
  <2>1. AtWork(w) /\ ctx[w] \in Task
    BY DEF IInv
  <2>2. Req(w) \in Request /\ Req(w).op = "rename" /\ ctx[w].row \in Row
        /\ ctx[w].id \in DOMAIN users
    BY <2>1 DEF NameTaken, AtWork
  <2>3. PICK d : d = [ctx[w] EXCEPT !.row = Changed(Req(w), ctx[w].row)]
    OBVIOUS
  <2>4. Changed(Req(w), ctx[w].row) \in Row
    BY <2>2, ChangedParts
  <2>5. d \in Task /\ d.s = ctx[w].s /\ d.req = ctx[w].req /\ d.id = ctx[w].id /\ d.row \in Row
    BY <2>1, <2>3, <2>4, RowParts
  <2>6. "update" \in PC /\ Goto(w, "update", d)
    BY <1>2, <2>3 DEF PC
  <2> QED
    BY <2>2, <2>5, <2>6, ReadTypes DEF NameTaken, IInv, TypeOK
<1> QED
  BY <1>1, <1>2 DEF NameTaken

\* Whatever a session was, it is still when it closes (SessionManager.cpp:9-18).
LEMMA DisconnectTypes ==
  ASSUME IInv, NEW w \in Workers, Disconnect(w)
  PROVE  IInv'
<1>1. PICK s \in Sessions \ closed : SM!Remove(s) /\ closed' = closed \cup {s}
  BY DEF Disconnect
<1>2. SM!TypeOK'
  BY <1>1, Assumed, RemoveType DEF IInv, TypeOK
<1>3. UNCHANGED <<users, identity, pc, ctx, handled, reported, disturbed>>
  BY <1>1 DEF Disconnect, SM!Remove
<1>4. Lasting /\ KnownUsers'
  BY <1>3 DEF IInv, KnownUsers, Lasting, SM!Authenticated
<1>5. \A v \in Workers : AtWork(v)'
  BY <1>3, <1>4, StaysAtWork
<1>6. closed' \in SUBSET Sessions
  BY <1>1 DEF IInv, TypeOK
<1>7. TypeOK'
  BY <1>2, <1>3, <1>6 DEF IInv, TypeOK, Legal
<1> QED
  BY <1>3, <1>4, <1>5, <1>7 DEF IInv

\* What a login leaves of the session, and of the others.
LEMMA LoginParts ==
  ASSUME IInv, NEW w \in Workers, Login(w)
  PROVE  /\ ctx[w].s \in Sessions /\ ctx[w].id \in Users /\ ctx[w].id \in DOMAIN users
         /\ ctx[w].row.username \in Names
         /\ identity'[ctx[w].s] = [userId |-> ctx[w].id, username |-> ctx[w].row.username]
         /\ \A t \in Sessions \ {ctx[w].s} : identity'[t] = identity[t]
<1>1. AtWork(w)
  BY DEF IInv
<1>2. /\ ctx[w].s \in Sessions /\ ctx[w].id \in Users /\ ctx[w].id \in DOMAIN users
      /\ ctx[w].row.username \in Names
  BY <1>1 DEF Login, AtWork, IInv, TypeOK, IsMap, Row
<1>3. identity' = [identity EXCEPT ![ctx[w].s] =
                    [userId |-> ctx[w].id, username |-> ctx[w].row.username]]
  BY DEF Login, SM!RegisterAuthenticatedSession
<1>4. DOMAIN identity = Sessions
  BY DEF IInv, TypeOK, SM!TypeOK
<1> QED
  BY <1>2, <1>3, <1>4

\* The user that logs in is one of the table.
LEMMA LoginTypes ==
  ASSUME IInv, NEW w \in Workers, Login(w)
  PROVE  IInv'
<1>1. SM!TypeOK'
  BY Assumed, LoginParts, RegisterType DEF IInv, TypeOK, Login
<1>2. NoTask \in Task /\ "idle" \in PC /\ Goto(w, "idle", NoTask)
  BY NoTaskType DEF Login, Finish
<1>3. pc'[w] = "idle"
  BY <1>2, Moves
<1>4. AtWork(w)'
  BY <1>3 DEF AtWork
<1>5. UNCHANGED <<users, closed, handled, reported, disturbed>>
  BY DEF Login
<1>6. ctx[w].id # None
  BY LoginParts, AccountAssumption DEF AccountAssumption
<1>7. ASSUME NEW t \in Sessions
      PROVE  /\ SM!Authenticated(t) => identity'[t].userId # None
             /\ identity'[t].userId # None => identity'[t].userId \in DOMAIN users'
  <2>1. CASE t = ctx[w].s
    <3>1. identity'[t] = [userId |-> ctx[w].id, username |-> ctx[w].row.username]
      BY <2>1, LoginParts
    <3>2. identity'[t].userId = ctx[w].id
      BY <3>1
    <3> QED
      BY <1>5, <1>6, <3>2, LoginParts
  <2>2. CASE t # ctx[w].s
    BY <1>5, <2>2, LoginParts DEF IInv, KnownUsers, SM!Authenticated
  <2> QED
    BY <2>1, <2>2
<1>8. Lasting /\ KnownUsers'
  BY <1>5, <1>7 DEF Lasting, KnownUsers, SM!Authenticated
<1>9. /\ IsMap(users', Users, Row) /\ Legal(users') /\ closed' \in SUBSET Sessions
      /\ IsMap(reported', Users, Passwords) /\ handled' \in 0..MaxRequests
      /\ disturbed' \in SUBSET Users
  BY <1>5 DEF IInv, TypeOK
<1> QED
  BY <1>1, <1>2, <1>4, <1>8, <1>9, StepKeeps

\* What a change of name leaves of the session, and of the others.
LEMMA RenameParts ==
  ASSUME IInv, NEW w \in Workers, RenameSession(w)
  PROVE  /\ ctx[w].s \in Sessions /\ Req(w).name \in Names /\ SM!Authenticated(ctx[w].s)
         /\ identity'[ctx[w].s].userId = identity[ctx[w].s].userId
         /\ identity'[ctx[w].s].username = Req(w).name
         /\ \A t \in Sessions \ {ctx[w].s} : identity'[t] = identity[t]
<1>1. AtWork(w)
  BY DEF IInv
<1>2. ctx[w].s \in Sessions /\ SM!Authenticated(ctx[w].s) /\ Req(w).name \in Names
  BY <1>1, RequestParts DEF RenameSession, AtWork
<1>3. PICK i : i = [identity[ctx[w].s] EXCEPT !.username = Req(w).name]
  OBVIOUS
<1>4. identity' = [identity EXCEPT ![ctx[w].s] = i]
  BY <1>3 DEF RenameSession, SM!UpdateUsername
<1>5. SM!TypeOK
  BY DEF IInv, TypeOK
<1>6. identity[ctx[w].s] \in [userId : Users, username : Names]
  BY <1>2, <1>5, Assumed, IdentityType
<1>7. i.userId = identity[ctx[w].s].userId /\ i.username = Req(w).name
  BY <1>3, <1>6
<1>8. DOMAIN identity = Sessions
  BY <1>5 DEF SM!TypeOK
<1> QED
  BY <1>2, <1>4, <1>7, <1>8

\* The session is told the new name of its user.
LEMMA RenameTypes ==
  ASSUME IInv, NEW w \in Workers, RenameSession(w)
  PROVE  IInv'
<1>1. SM!TypeOK'
  BY Assumed, RenameParts, UpdateType DEF IInv, TypeOK, RenameSession
<1>2. NoTask \in Task /\ "idle" \in PC /\ Goto(w, "idle", NoTask)
  BY NoTaskType DEF RenameSession, Finish
<1>3. pc'[w] = "idle"
  BY <1>2, Moves
<1>4. AtWork(w)'
  BY <1>3 DEF AtWork
<1>5. UNCHANGED <<users, closed, handled, reported, disturbed>>
  BY DEF RenameSession
<1>6. \A t \in Sessions : identity'[t].userId = identity[t].userId
  BY RenameParts
<1>7. Lasting /\ KnownUsers'
  BY <1>5, <1>6 DEF Lasting, IInv, KnownUsers, SM!Authenticated
<1>8. /\ IsMap(users', Users, Row) /\ Legal(users') /\ closed' \in SUBSET Sessions
      /\ IsMap(reported', Users, Passwords) /\ handled' \in 0..MaxRequests
      /\ disturbed' \in SUBSET Users
  BY <1>5 DEF IInv, TypeOK
<1> QED
  BY <1>1, <1>2, <1>4, <1>7, <1>8, StepKeeps

-----------------------------------------------------------------------------
(* The two statements that write.                                          *)

\* A row more: the name was nobody's (AuthService.cpp:40-56).
LEMMA InsertParts ==
  ASSUME IInv, NEW w \in Workers, Insert(w)
  PROVE  /\ Req(w).name \in Names /\ Req(w).new \in Passwords
         /\ \/ UNCHANGED <<users, reported>> /\ DbMayFail
            \/ /\ Named(Req(w).name) = {} /\ Req(w).name \notin LongNames
               /\ \E u \in Users \ DOMAIN users :
                    /\ users' = Put(users, u, [username |-> Req(w).name,
                                               password |-> Req(w).new])
                    /\ \/ reported' = Put(reported, u, Req(w).new)
                       \/ DbMayFail /\ UNCHANGED reported
<1>1. AtWork(w)
  BY DEF IInv
<1>2. Req(w) \in Request /\ Req(w).op = "register"
  BY <1>1 DEF AtWork, Insert
<1>3. Named(Req(w).name) \subseteq DOMAIN users /\ DOMAIN users \subseteq Users
  BY DEF Named, IInv, TypeOK, IsMap
<1>4. ASSUME Free(Req(w).name, None)
      PROVE  Named(Req(w).name) = {} /\ Req(w).name \notin LongNames
  BY <1>3, <1>4, AccountAssumption DEF AccountAssumption, Free
<1> QED
  BY <1>2, <1>4, RequestParts DEF Insert

\* The new row has a name that no other row has, whatever the lookup said.
LEMMA InsertTypes ==
  ASSUME IInv, NEW w \in Workers, Insert(w)
  PROVE  IInv'
<1>1. NoTask \in Task /\ "idle" \in PC /\ Goto(w, "idle", NoTask)
  BY NoTaskType DEF Insert, Finish
<1>2. pc'[w] = "idle"
  BY <1>1, Moves
<1>3. AtWork(w)'
  BY <1>2 DEF AtWork
<1>4. UNCHANGED <<people, closed, handled, disturbed>>
  BY DEF Insert
<1>5. IsMap(users, Users, Row) /\ Legal(users) /\ IsMap(reported, Users, Passwords)
  BY DEF IInv, TypeOK
<1>6. /\ IsMap(users', Users, Row) /\ Legal(users') /\ DOMAIN users \subseteq DOMAIN users'
      /\ IsMap(reported', Users, Passwords)
  <2>1. CASE UNCHANGED <<users, reported>>
    BY <1>5, <2>1
  <2>2. ASSUME Named(Req(w).name) = {}, Req(w).name \notin LongNames,
               NEW u \in Users \ DOMAIN users, NEW row,
               row = [username |-> Req(w).name, password |-> Req(w).new],
               users' = Put(users, u, row),
               reported' = Put(reported, u, Req(w).new) \/ UNCHANGED reported
        PROVE  /\ IsMap(users', Users, Row) /\ Legal(users')
               /\ DOMAIN users \subseteq DOMAIN users' /\ IsMap(reported', Users, Passwords)
    <3>1. row \in Row /\ row.username = Req(w).name
      BY <2>2, InsertParts DEF Row
    <3>2. IsMap(users', Users, Row)
      BY <1>5, <2>2, <3>1, PutType
    <3>3. IsMap(reported', Users, Passwords)
      BY <1>5, <2>2, InsertParts, PutType
    <3>4. /\ DOMAIN users' = DOMAIN users \cup {u} /\ users'[u] = row
          /\ \A x \in DOMAIN users : users'[x] = users[x]
      BY <2>2 DEF Put
    <3>5. \A x \in DOMAIN users : users[x].username # Req(w).name
      BY <2>2 DEF Named
    <3>6. Legal(users')
      BY <1>5, <2>2, <3>1, <3>4, <3>5 DEF Legal
    <3> QED
      BY <3>2, <3>3, <3>4, <3>6
  <2> QED
    BY <2>1, <2>2, InsertParts
<1>7. Lasting /\ KnownUsers'
  BY <1>4, <1>6 DEF people, IInv, KnownUsers, Lasting, SM!Authenticated
<1>8. /\ SM!TypeOK' /\ closed' \in SUBSET Sessions /\ handled' \in 0..MaxRequests
      /\ disturbed' \in SUBSET Users
  BY <1>4 DEF people, IInv, TypeOK, SM!TypeOK
<1> QED
  BY <1>1, <1>3, <1>6, <1>7, <1>8, StepKeeps

\* The row that was read is written, and no other.
LEMMA UpdateParts ==
  ASSUME IInv, NEW w \in Workers, Update(w)
  PROVE  /\ Req(w) \in Request /\ Req(w).op \in {"password", "rename"}
         /\ ctx[w].id \in DOMAIN users /\ ctx[w].row \in Row /\ ctx[w].s \in Sessions
         /\ SM!Authenticated(ctx[w].s)
         /\ DOMAIN users' = DOMAIN users
         /\ \A u \in DOMAIN users : u # ctx[w].id => users'[u] = users[u]
         /\ \/ /\ Free(ctx[w].row.username, ctx[w].id)
               /\ users'[ctx[w].id] = ctx[w].row /\ UNCHANGED disturbed
            \/ DbMayFail /\ UNCHANGED users /\ disturbed' = disturbed \cup {ctx[w].id}
<1>1. AtWork(w)
  BY DEF IInv
<1>2. /\ Req(w) \in Request /\ Req(w).op \in {"password", "rename"}
      /\ ctx[w].id \in DOMAIN users /\ ctx[w].row \in Row /\ ctx[w].s \in Sessions
      /\ SM!Authenticated(ctx[w].s)
  BY <1>1 DEF Update, AtWork
<1> QED
  BY <1>2 DEF Update

\* So has a row that is written back, as far as the key lets it.
LEMMA UpdateTypes ==
  ASSUME IInv, NEW w \in Workers, Update(w)
  PROVE  IInv'
<1> DEFINE p == IF Req(w).op = "password" THEN "idle" ELSE "rename_session"
           c == IF Req(w).op = "password" THEN NoTask ELSE ctx[w]
<1>1. p \in PC /\ c \in Task /\ Goto(w, p, c)
  BY NoTaskType DEF PC, IInv, Update, Updated, Finish
<1>2. pc'[w] = p /\ ctx'[w] = c
  BY <1>1, Moves
<1>3. UNCHANGED <<people, closed, handled>>
  BY DEF Update
<1>4. IsMap(users, Users, Row) /\ Legal(users) /\ IsMap(reported, Users, Passwords)
  BY DEF IInv, TypeOK
<1>5. ASSUME Free(ctx[w].row.username, ctx[w].id)
      PROVE  /\ ctx[w].row.username \notin LongNames
             /\ \A u \in DOMAIN users :
                  users[u].username = ctx[w].row.username => u = ctx[w].id
  BY <1>5 DEF Free, Named
<1>6. IsMap(users', Users, Row)
  BY <1>4, UpdateParts DEF IsMap, Update
<1>7. Legal(users')
  BY <1>4, <1>5, UpdateParts DEF Legal
<1>8. IsMap(reported', Users, Passwords)
  <2>1. ctx[w].id \in Users /\ (Req(w).op = "password" => Req(w).new \in Passwords)
    BY <1>4, UpdateParts, RequestParts DEF IsMap
  <2> QED
    BY <1>4, <2>1, PutType DEF Update, Updated
<1>9. Lasting /\ KnownUsers'
  BY <1>3, UpdateParts DEF people, IInv, KnownUsers, Lasting, SM!Authenticated
<1>10. AtWork(w)'
  BY <1>2, <1>9, UpdateParts DEF AtWork, Req, Lasting, SM!Authenticated
<1>11. /\ SM!TypeOK' /\ closed' \in SUBSET Sessions /\ handled' \in 0..MaxRequests
       /\ disturbed' \in SUBSET Users
  BY <1>3, <1>4, UpdateParts DEF people, IInv, TypeOK, SM!TypeOK, IsMap
<1> HIDE DEF p, c
<1> QED
  BY <1>1, <1>6, <1>7, <1>8, <1>9, <1>10, <1>11, StepKeeps

-----------------------------------------------------------------------------
(* For any threads.                                                        *)

\* The server starts with the rows it finds and nobody logged in.
LEMMA InitIInv == Init => IInv
<1> SUFFICES ASSUME Init PROVE IInv
  OBVIOUS
<1>1. SM!TypeOK
  BY Assumed, InitRegistryInv DEF Init, RegistryInv
<1>2. IsMap(users, Users, Row) /\ IsMap(reported, Users, Passwords)
  BY MapsIntoIsMap, NoEntriesType DEF Init
<1>3. pc \in [Workers -> PC] /\ ctx \in [Workers -> Task] /\ \A w \in Workers : AtWork(w)
  BY NoTaskType DEF Init, AtWork
<1>4. TypeOK
  BY <1>1, <1>2, <1>3, AccountAssumption DEF Init, TypeOK, Task, AccountAssumption
<1>5. KnownUsers
  BY DEF Init, KnownUsers, SM!Init, SM!Authenticated, SM!Anonymous
<1> QED
  BY <1>3, <1>4, <1>5 DEF IInv

\* Every handler, and a client that closes, keeps the invariant.
LEMMA NextIInv == IInv /\ [Next]_vars => IInv'
<1> SUFFICES ASSUME IInv, [Next]_vars PROVE IInv'
  OBVIOUS
<1>1. CASE UNCHANGED vars
  BY <1>1 DEF vars, people, IInv, TypeOK, Legal, SM!TypeOK, KnownUsers, AtWork, Req,
     SM!Authenticated
<1>2. ASSUME NEW w \in Workers, WorkerStep(w)
      PROVE  IInv'
  BY <1>2, BeginTypes, DisconnectTypes, LoginLookupTypes, LoginTypes, RegisterLookupTypes,
     InsertTypes, ThrowTypes, ChangeLookupTypes, NameTakenTypes, UpdateTypes, RenameTypes
     DEF WorkerStep
<1> QED
  BY <1>1, <1>2 DEF Next

\* The invariant holds in every reachable state.
THEOREM Invariance == Spec => []IInv
BY InitIInv, NextIInv, PTL DEF Spec

\* Names stay unique, and the rows, requests and identities in the handlers'
\* hands are what they take them for, with any number of threads, a database
\* that fails and clients that do as they like.
THEOREM TypeCorrect == Spec => []TypeOK
<1>1. IInv => TypeOK
  BY DEF IInv
<1> QED
  BY <1>1, Invariance, PTL

-----------------------------------------------------------------------------
(* One thread, and a database that does not fail.                          *)

\* The thread that goes somewhere is there, and the others are where they were.
LEMMA GoesThere ==
  ASSUME IInv, NEW w \in Workers, NEW p, NEW c, Goto(w, p, c)
  PROVE  /\ pc'[w] = p /\ ctx'[w] = c
         /\ \A v \in Workers \ {w} : pc'[v] = pc[v] /\ ctx'[v] = ctx[v]
BY DEF IInv, TypeOK, Goto

\* What the only thread holds, or has read nothing, is all there is to hold.
LEMMA AloneGoes ==
  ASSUME OneThread, NEW w \in Workers, pc'[w] \in {"idle", "dead", "lookup"} \/ Holds(w)'
  PROVE  AloneInv'
<1>1. Holds(w)'
  BY DEF Holds
<1> QED
  BY <1>1 DEF OneThread, AloneInv

\* The rows that the handlers read.
LEMMA LoginLookupAlone ==
  ASSUME OneThread, IInv, AloneInv, NEW w \in Workers, LoginLookup(w)
  PROVE  AloneInv'
<1>1. UNCHANGED users
  BY DEF LoginLookup
<1>2. CASE Finish(w)
  BY <1>2, GoesThere, AloneGoes DEF Finish
<1>3. CASE \E u \in Named(Req(w).name) : Goto(w, "login", Copy(w, u))
  <2>1. PICK u \in DOMAIN users : /\ users[u].username = Req(w).name
                                  /\ Goto(w, "login", Copy(w, u))
    BY <1>3 DEF Named
  <2>2. PICK c : c = Copy(w, u)
    OBVIOUS
  <2>3. c.req = ctx[w].req /\ c.id = u /\ c.row = users[u]
    BY <2>2, CopyParts
  <2>4. pc'[w] = "login" /\ ctx'[w] = c
    BY <2>1, <2>2, GoesThere
  <2>5. Holds(w)'
    BY <1>1, <2>1, <2>3, <2>4 DEF Holds, Req
  <2> QED
    BY <2>5, AloneGoes
<1> QED
  BY <1>2, <1>3 DEF LoginLookup

\* REGISTER goes on when no row has the name.
LEMMA RegisterLookupAlone ==
  ASSUME OneThread, ~DbMayFail, IInv, AloneInv, NEW w \in Workers, RegisterLookup(w)
  PROVE  AloneInv'
<1>1. UNCHANGED users
  BY DEF RegisterLookup
<1>2. CASE Finish(w)
  BY <1>2, GoesThere, AloneGoes DEF Finish
<1>3. CASE Named(Req(w).name) = {} /\ Goto(w, "insert", ctx[w])
  <2>1. pc'[w] = "insert" /\ ctx'[w] = ctx[w]
    BY <1>3, GoesThere
  <2>2. Holds(w)'
    BY <1>1, <1>3, <2>1 DEF Holds, Req, Named
  <2> QED
    BY <2>2, AloneGoes
<1> QED
  BY <1>2, <1>3 DEF RegisterLookup

\* What a change is made to is the row as it is now.
LEMMA ChangeLookupAlone ==
  ASSUME OneThread, IInv, AloneInv, NEW w \in Workers, ChangeLookup(w)
  PROVE  AloneInv'
<1>1. UNCHANGED users
  BY DEF ChangeLookup
<1>2. CASE Finish(w)
  BY <1>2, GoesThere, AloneGoes DEF Finish
<1>3. ASSUME NEW u \in DOMAIN users, Req(w).op = "password",
             Goto(w, "update", [Copy(w, u) EXCEPT !.row = Changed(Req(w), @)])
      PROVE  AloneInv'
  <2>1. PICK c : c = Copy(w, u)
    OBVIOUS
  <2>2. c \in Task /\ c.req = ctx[w].req /\ c.id = u /\ c.row = users[u]
    BY <2>1, CopyParts
  <2>3. PICK d : d = [c EXCEPT !.row = Changed(Req(w), c.row)]
    OBVIOUS
  <2>4. d.req = c.req /\ d.id = c.id /\ d.row = Changed(Req(w), c.row)
    BY <2>2, <2>3 DEF Task
  <2>5. pc'[w] = "update" /\ ctx'[w] = d
    BY <1>3, <2>1, <2>3, GoesThere
  <2>6. Holds(w)'
    BY <1>1, <1>3, <2>2, <2>4, <2>5 DEF Holds, Req, Changed
  <2> QED
    BY <2>6, AloneGoes
<1>4. ASSUME NEW u \in DOMAIN users, Goto(w, "name_taken", Copy(w, u))
      PROVE  AloneInv'
  <2>1. PICK c : c = Copy(w, u)
    OBVIOUS
  <2>2. c.id = u /\ c.row = users[u]
    BY <2>1, CopyParts
  <2>3. pc'[w] = "name_taken" /\ ctx'[w] = c
    BY <1>4, <2>1, GoesThere
  <2>4. Holds(w)'
    BY <1>1, <2>2, <2>3 DEF Holds
  <2> QED
    BY <2>4, AloneGoes
<1> QED
  BY <1>2, <1>3, <1>4 DEF ChangeLookup, Named

\* A change of name goes on when no row has the new one.
LEMMA NameTakenAlone ==
  ASSUME OneThread, ~DbMayFail, IInv, AloneInv, NEW w \in Workers, NameTaken(w)
  PROVE  AloneInv'
<1>1. UNCHANGED users
  BY DEF NameTaken
<1>2. CASE Finish(w)
  BY <1>2, GoesThere, AloneGoes DEF Finish
<1>3. CASE /\ Named(Req(w).name) = {}
           /\ Goto(w, "update", [ctx[w] EXCEPT !.row = Changed(Req(w), @)])
  <2>1. ctx[w] \in Task /\ ctx[w].row = users[ctx[w].id]
    BY DEF IInv, AloneInv, Holds, NameTaken
  <2>2. PICK d : d = [ctx[w] EXCEPT !.row = Changed(Req(w), ctx[w].row)]
    OBVIOUS
  <2>3. d.req = ctx[w].req /\ d.id = ctx[w].id /\ d.row = Changed(Req(w), ctx[w].row)
    BY <2>1, <2>2 DEF Task
  <2>4. pc'[w] = "update" /\ ctx'[w] = d
    BY <1>3, <2>2, GoesThere
  <2>5. Holds(w)'
    BY <1>1, <1>3, <2>1, <2>3, <2>4 DEF Holds, Req, Changed, Named
  <2> QED
    BY <2>5, AloneGoes
<1> QED
  BY <1>2, <1>3 DEF NameTaken

\* The names that were nobody's are nobody's, so what is thrown is thrown at a
\* name that is too long (AuthService.cpp:40-56, AuthService.cpp:128-148).
LEMMA ThrowAlone ==
  ASSUME IInv, AloneInv, NEW w \in Workers, Throw(w)
  PROVE  Req(w).name \in LongNames
<1>1. AtWork(w) /\ Holds(w)
  BY DEF IInv, AloneInv
<1>2. CASE pc[w] = "insert"
  BY <1>1, <1>2 DEF Throw, Holds, Free
<1>3. CASE pc[w] = "update"
  <2>1. /\ Req(w) \in Request /\ Req(w).op \in {"password", "rename"}
        /\ ctx[w].id \in DOMAIN users /\ users[ctx[w].id] \in Row
    BY <1>1, <1>3 DEF AtWork, IInv, TypeOK, IsMap
  <2>2. ctx[w].row = Changed(Req(w), users[ctx[w].id])
    BY <1>1, <1>3 DEF Holds
  <2>3. ~Free(ctx[w].row.username, ctx[w].id)
    BY <1>3 DEF Throw
  <2>4. CASE Req(w).op = "rename"
    <3>1. Named(Req(w).name) = {} /\ ctx[w].row.username = Req(w).name
      BY <1>1, <1>3, <2>1, <2>2, <2>4, ChangedParts DEF Holds
    <3> QED
      BY <2>3, <3>1 DEF Free
  <2>5. CASE Req(w).op = "password"
    <3>1. ctx[w].row.username = users[ctx[w].id].username
      BY <2>1, <2>2, <2>5, ChangedParts
    <3>2. Legal(users)
      BY DEF IInv, TypeOK
    <3>3. Free(ctx[w].row.username, ctx[w].id)
      BY <2>1, <3>1, <3>2 DEF Free, Named, Legal
    <3> QED
      BY <2>3, <3>3
  <2> QED
    BY <2>1, <2>4, <2>5
<1> QED
  BY <1>2, <1>3 DEF Throw

\* One field of the row changes, and of a password that is reported.
LEMMA UpdateAloneParts ==
  ASSUME ~DbMayFail, IInv, AloneInv, NEW w \in Workers, Update(w)
  PROVE  /\ users'[ctx[w].id].username =
              IF Req(w).op = "password" THEN users[ctx[w].id].username ELSE Req(w).name
         /\ users'[ctx[w].id].password =
              IF Req(w).op = "password" THEN Req(w).new ELSE users[ctx[w].id].password
<1>1. users[ctx[w].id] \in Row
  BY UpdateParts DEF IInv, TypeOK, IsMap
<1>2. ctx[w].row = Changed(Req(w), users[ctx[w].id])
  BY DEF AloneInv, Holds, Update
<1> QED
  BY <1>1, <1>2, UpdateParts, ChangedParts

\* A change of name has reached the row when the session is to be told.
LEMMA UpdateAlone ==
  ASSUME OneThread, ~DbMayFail, IInv, AloneInv, NEW w \in Workers, Update(w)
  PROVE  AloneInv'
<1>1. CASE Req(w).op = "password"
  BY <1>1, GoesThere, AloneGoes DEF Update, Updated, Finish
<1>2. CASE Req(w).op # "password"
  <2>1. /\ pc'[w] = "rename_session" /\ ctx'[w] = ctx[w]
    BY <1>2, GoesThere DEF Update, Updated
  <2>2. Holds(w)'
    BY <1>2, <2>1, UpdateAloneParts DEF Holds, Req
  <2> QED
    BY <2>2, AloneGoes
<1> QED
  BY <1>1, <1>2

\* A step of the only thread.
LEMMA AloneStep ==
  ASSUME OneThread, ~DbMayFail, IInv, AloneInv, [Next]_vars
  PROVE  AloneInv'
<1>1. CASE UNCHANGED vars
  BY <1>1 DEF vars, AloneInv, Holds, Named, Req
<1>2. ASSUME NEW w \in Workers, Begin(w) PROVE AloneInv'
  <2>1. pc'[w] = "lookup"
    BY <1>2, GoesThere DEF Begin
  <2> QED
    BY <2>1, AloneGoes
<1>3. ASSUME NEW w \in Workers, Disconnect(w) PROVE AloneInv'
  <2>1. pc'[w] = "idle"
    BY <1>3 DEF Disconnect
  <2> QED
    BY <2>1, AloneGoes
<1>4. ASSUME NEW w \in Workers, Login(w) \/ Insert(w) \/ Throw(w) \/ RenameSession(w)
      PROVE  AloneInv'
  <2>1. pc'[w] \in {"idle", "dead"}
    BY <1>4, GoesThere DEF Login, Insert, Throw, RenameSession, Finish
  <2> QED
    BY <2>1, AloneGoes
<1> QED
  BY <1>1, <1>2, <1>3, <1>4, LoginLookupAlone, RegisterLookupAlone, ChangeLookupAlone,
     NameTakenAlone, UpdateAlone DEF Next, WorkerStep

\* One thread on a healthy database acts on what it has read.
LEMMA Alone ==
  ASSUME OneThread, ~DbMayFail
  PROVE  Spec => []AloneInv
<1>1. Init => AloneInv
  BY DEF Init, AloneInv, Holds
<1>2. IInv /\ AloneInv /\ [Next]_vars => AloneInv'
  BY AloneStep
<1> QED
  BY <1>1, <1>2, Invariance, PTL DEF Spec

\* A thread dies of an exception.
LEMMA DiesByThrow ==
  ASSUME OneThread, IInv, Next, NEW w \in Workers, pc[w] # "dead", pc'[w] = "dead"
  PROVE  Throw(w)
<1>1. PICK v \in Workers : WorkerStep(v)
  BY DEF Next
<1>2. v = w
  BY DEF OneThread
<1>3. ~Begin(w)
  <2> SUFFICES ASSUME Begin(w) PROVE FALSE
    OBVIOUS
  <2>1. PICK s \in Sessions, req \in Request :
          Goto(w, "lookup", [NoTask EXCEPT !.s = s, !.req = req])
    BY Zenon DEF Begin
  <2>2. pc'[w] = "lookup"
    BY <2>1, GoesThere
  <2> QED
    BY <2>2
<1>4. ~Disconnect(w)
  BY DEF Disconnect
<1>5. ~Login(w) /\ ~Insert(w) /\ ~RenameSession(w)
  BY GoesThere DEF Login, Insert, RenameSession, Finish
<1>6. ~LoginLookup(w) /\ ~RegisterLookup(w)
  BY GoesThere DEF LoginLookup, RegisterLookup, Finish
<1>7. ~ChangeLookup(w)
  BY GoesThere DEF ChangeLookup, Finish
<1>8. ~NameTaken(w) /\ ~Update(w)
  BY GoesThere DEF NameTaken, Update, Updated, Finish
<1> QED
  BY <1>1, <1>2, <1>3, <1>4, <1>5, <1>6, <1>7, <1>8 DEF WorkerStep

\* One thread on a healthy database meets no exception but that of a name too
\* long for its column: a name that was looked up and found to be nobody's still
\* is when it is inserted or updated (AuthService.cpp:40-56,
\* AuthService.cpp:128-148), and a change of password writes back a name that
\* came from the table.
THEOREM OneThreadLives == OneThread /\ ~DbMayFail => (Spec => OnlyLongNamesKill)
<1> SUFFICES ASSUME OneThread, ~DbMayFail PROVE Spec => OnlyLongNamesKill
  OBVIOUS
<1>1. IInv /\ AloneInv /\ [Next]_vars =>
        [\A w \in Workers :
           pc[w] # "dead" /\ pc'[w] = "dead" => Req(w).name \in LongNames]_vars
  BY DiesByThrow, ThrowAlone
<1> QED
  BY <1>1, Alone, Invariance, PTL DEF Spec, OnlyLongNamesKill

-----------------------------------------------------------------------------
(* What was reported.                                                      *)

\* The writers of a user's row are the same, or one is less, as far as nothing
\* is read or written.
LEMMA FewerWriters ==
  ASSUME IInv, Undisturbed, NEW w \in Workers, UNCHANGED <<users, reported, disturbed>>,
         \A v \in Workers \ {w} : pc'[v] = pc[v] /\ ctx'[v] = ctx[v],
         \/ pc'[w] \notin {"name_taken", "update"}
         \/ /\ pc[w] = "name_taken" /\ pc'[w] = "update"
            /\ ctx'[w].id = ctx[w].id /\ ctx'[w].req = ctx[w].req
            /\ ctx'[w].row.password = ctx[w].row.password
         \/ pc'[w] = pc[w] /\ ctx'[w] = ctx[w]
  PROVE  Undisturbed'
<1>1. ASSUME NEW u \in Users
      PROVE  /\ Writers(u)' \subseteq Writers(u)
             /\ \A v \in Writers(u)' : /\ ctx'[v].req = ctx[v].req
                                       /\ ctx'[v].row.password = ctx[v].row.password
  BY DEF Writers
<1>2. ASSUME NEW u \in Users \ disturbed, NEW v \in Writers(u)'
      PROVE  /\ Writers(u)' = {v}
             /\ ctx'[v].row.password = IF Req(v)'.op = "password" THEN Req(v)'.new
                                                                 ELSE users[u].password
  BY <1>1, <1>2 DEF Undisturbed, Req
<1> QED
  BY <1>2 DEF Undisturbed, ReportedHolds

\* A handler that reads a row others are about to write is noticed.
LEMMA ReaderUndisturbed ==
  ASSUME IInv, Undisturbed, NEW w \in Workers, ChangeLookup(w),
         NEW p \in {"name_taken", "update"}, NEW d, Goto(w, p, d), d.id \in DOMAIN users,
         d.row.password = IF d.req.op = "password" THEN d.req.new ELSE users[d.id].password
  PROVE  Undisturbed'
<1>1. /\ pc'[w] = p /\ ctx'[w] = d /\ pc[w] = "lookup" /\ UNCHANGED <<users, reported>>
      /\ \A v \in Workers \ {w} : pc'[v] = pc[v] /\ ctx'[v] = ctx[v]
  BY GoesThere DEF ChangeLookup
<1>2. ASSUME NEW x \in Users \ disturbed', NEW v \in Writers(x)'
      PROVE  /\ Writers(x)' = {v}
             /\ ctx'[v].row.password = IF Req(v)'.op = "password" THEN Req(v)'.new
                                                                 ELSE users[x].password
  <2>1. CASE x = d.id
    <3>1. w \in Writers(x)'
      BY <1>1, <2>1 DEF Writers
    <3>2. Writers(x)' = {w} /\ v = w
      BY <1>2, <3>1 DEF ChangeLookup
    <3> QED
      BY <1>1, <2>1, <3>2 DEF Req
  <2>2. CASE x # d.id
    <3>1. Writers(x)' = Writers(x) /\ v \in Workers \ {w}
      BY <1>1, <1>2, <2>2 DEF Writers
    <3>2. x \notin disturbed
      BY <1>2 DEF ChangeLookup
    <3> QED
      BY <1>1, <1>2, <3>1, <3>2 DEF Undisturbed, Req
  <2> QED
    BY <2>1, <2>2
<1>3. disturbed \subseteq disturbed'
  BY DEF ChangeLookup
<1> QED
  BY <1>1, <1>2, <1>3 DEF Undisturbed, ReportedHolds

\* The copy a handler goes on with has the password of the row, but for the one
\* asked for.
LEMMA ChangeLookupUndisturbed ==
  ASSUME IInv, Undisturbed, NEW w \in Workers, ChangeLookup(w)
  PROVE  Undisturbed'
<1>1. CASE Finish(w)
  <2>1. /\ pc'[w] = "idle" /\ UNCHANGED <<users, reported>>
        /\ \A v \in Workers \ {w} : pc'[v] = pc[v] /\ ctx'[v] = ctx[v]
    BY <1>1, GoesThere DEF Finish, ChangeLookup
  <2>2. \A u \in Users : w \notin Writers(u)'
    BY <2>1 DEF Writers
  <2>3. disturbed' = disturbed
    BY <2>2 DEF ChangeLookup
  <2> QED
    BY <2>1, <2>3, FewerWriters
<1>2. ASSUME NEW u \in DOMAIN users, Req(w).op = "password",
             Goto(w, "update", [Copy(w, u) EXCEPT !.row = Changed(Req(w), @)])
      PROVE  Undisturbed'
  <2>1. PICK c : c = Copy(w, u)
    OBVIOUS
  <2>2. users[u] \in Row /\ c \in Task /\ c.req = Req(w) /\ c.id = u /\ c.row = users[u]
    BY <2>1, CopyParts DEF Req
  <2>3. PICK d : d = [c EXCEPT !.row = Changed(Req(w), c.row)]
    OBVIOUS
  <2>4. d.req = c.req /\ d.id = c.id /\ d.row = Changed(Req(w), c.row)
    BY <2>2, <2>3 DEF Task
  <2>5. Req(w) \in Request
    BY DEF ChangeLookup, IInv, AtWork
  <2>6. d.row.password = Req(w).new
    BY <1>2, <2>2, <2>4, <2>5, ChangedParts
  <2>7. Goto(w, "update", d)
    BY <1>2, <2>1, <2>3
  <2> QED
    BY <1>2, <2>2, <2>4, <2>6, <2>7, ReaderUndisturbed
<1>3. ASSUME NEW u \in DOMAIN users, Req(w).op = "rename", Goto(w, "name_taken", Copy(w, u))
      PROVE  Undisturbed'
  <2>1. PICK c : c = Copy(w, u)
    OBVIOUS
  <2>2. c.req = Req(w) /\ c.id = u /\ c.row = users[u]
    BY <2>1, CopyParts DEF Req
  <2>3. Goto(w, "name_taken", c)
    BY <1>3, <2>1
  <2> QED
    BY <1>3, <2>2, <2>3, ReaderUndisturbed
<1> QED
  BY <1>1, <1>2, <1>3 DEF ChangeLookup, Named

\* The new name is looked up, and the password in the copy stays.
LEMMA NameTakenUndisturbed ==
  ASSUME IInv, Undisturbed, NEW w \in Workers, NameTaken(w)
  PROVE  Undisturbed'
<1>1. UNCHANGED <<users, reported, disturbed>> /\ pc[w] = "name_taken"
  BY DEF NameTaken
<1>2. CASE Finish(w)
  BY <1>1, <1>2, GoesThere, FewerWriters DEF Finish
<1>3. CASE Goto(w, "update", [ctx[w] EXCEPT !.row = Changed(Req(w), @)])
  <2>1. AtWork(w) /\ ctx[w] \in Task
    BY DEF IInv
  <2>2. Req(w) \in Request /\ Req(w).op = "rename" /\ ctx[w].row \in Row
    BY <1>1, <2>1 DEF AtWork
  <2>3. PICK d : d = [ctx[w] EXCEPT !.row = Changed(Req(w), ctx[w].row)]
    OBVIOUS
  <2>4. d.id = ctx[w].id /\ d.req = ctx[w].req /\ d.row = Changed(Req(w), ctx[w].row)
    BY <2>1, <2>3 DEF Task
  <2>5. d.row.password = ctx[w].row.password
    BY <2>2, <2>4, ChangedParts
  <2>6. /\ pc'[w] = "update" /\ ctx'[w] = d
        /\ \A v \in Workers \ {w} : pc'[v] = pc[v] /\ ctx'[v] = ctx[v]
    BY <1>3, <2>3, GoesThere
  <2> QED
    BY <1>1, <2>4, <2>5, <2>6, FewerWriters
<1> QED
  BY <1>2, <1>3 DEF NameTaken

\* A new row is nobody's to write, and its password is the one reported.
LEMMA InsertUndisturbed ==
  ASSUME IInv, Undisturbed, NEW w \in Workers, Insert(w)
  PROVE  Undisturbed'
<1>1. /\ pc'[w] = "idle" /\ pc[w] = "insert" /\ disturbed' = disturbed
      /\ \A v \in Workers \ {w} : pc'[v] = pc[v] /\ ctx'[v] = ctx[v]
  BY GoesThere DEF Insert, Finish
<1>2. CASE UNCHANGED <<users, reported>>
  BY <1>1, <1>2, FewerWriters
<1>3. ASSUME NEW u \in Users \ DOMAIN users, NEW row, row.password = Req(w).new,
             users' = Put(users, u, row),
             reported' = Put(reported, u, Req(w).new) \/ UNCHANGED reported
      PROVE  Undisturbed'
  <2>1. /\ DOMAIN users' = DOMAIN users \cup {u} /\ users'[u] = row
        /\ \A x \in DOMAIN users : users'[x] = users[x]
    BY <1>3 DEF Put
  <2>2. u \notin DOMAIN reported
    BY <1>3 DEF Undisturbed
  <2>3. /\ DOMAIN reported \subseteq DOMAIN reported'
        /\ DOMAIN reported' \subseteq DOMAIN reported \cup {u}
        /\ \A x \in DOMAIN reported : reported'[x] = reported[x]
        /\ u \in DOMAIN reported' => reported'[u] = Req(w).new
    BY <1>3, <2>2 DEF Put
  <2>4. DOMAIN reported' \subseteq DOMAIN users' /\ ReportedHolds'
    BY <1>1, <1>3, <2>1, <2>3 DEF Undisturbed, ReportedHolds
  <2>5. \A x \in Users : Writers(x)' = Writers(x)
    BY <1>1 DEF Writers
  <2>6. \A x \in Users : \A v \in Writers(x) : x \in DOMAIN users /\ v # w
    BY <1>1 DEF Writers, IInv, AtWork
  <2>7. \A x \in Users : \A v \in Writers(x) : ctx'[v] = ctx[v]
    BY <1>1, <2>6 DEF Writers
  <2> QED
    BY <1>1, <2>1, <2>4, <2>5, <2>6, <2>7 DEF Undisturbed, Req
<1>4. PICK row : row = [username |-> Req(w).name, password |-> Req(w).new]
  OBVIOUS
<1>5. row.password = Req(w).new
  BY <1>4
<1> QED
  BY <1>2, <1>3, <1>4, <1>5, InsertParts

\* The only writer of a row leaves it the password reported, old or new.
LEMMA UpdateUndisturbed ==
  ASSUME IInv, Undisturbed, NEW w \in Workers, Update(w)
  PROVE  Undisturbed'
<1>1. /\ pc[w] = "update" /\ pc'[w] \notin {"name_taken", "update"}
      /\ \A v \in Workers \ {w} : pc'[v] = pc[v] /\ ctx'[v] = ctx[v]
  BY GoesThere DEF Update, Updated, Finish
<1>2. PICK u : u = ctx[w].id
  OBVIOUS
<1>3. /\ u \in Users /\ u \in DOMAIN users /\ w \in Writers(u)
      /\ Req(w).op \in {"password", "rename"}
  BY <1>1, <1>2, UpdateParts DEF Writers, IInv, TypeOK, IsMap
<1>4. /\ DOMAIN reported \subseteq DOMAIN reported'
      /\ DOMAIN reported' \subseteq DOMAIN reported \cup {u}
      /\ \A x \in DOMAIN reported : x # u => reported'[x] = reported[x]
      /\ reported' = IF Req(w).op = "password" THEN Put(reported, u, Req(w).new) ELSE reported
  BY <1>2 DEF Update, Updated, Put
<1>5. DOMAIN users' = DOMAIN users /\ \A x \in DOMAIN users : x # u => users'[x] = users[x]
  BY <1>2, UpdateParts
<1>6. disturbed \subseteq disturbed'
  BY DEF Update
<1>7. ASSUME u \notin disturbed', u \in DOMAIN reported'
      PROVE  users'[u].password = reported'[u]
  <2>1. users'[u] = ctx[w].row /\ u \notin disturbed
    BY <1>2, <1>6, <1>7, UpdateParts
  <2>2. ctx[w].row.password = IF Req(w).op = "password" THEN Req(w).new ELSE users[u].password
    BY <1>3, <2>1 DEF Undisturbed
  <2>3. CASE Req(w).op = "password"
    <3>1. reported'[u] = Req(w).new
      BY <1>4, <2>3 DEF Put
    <3> QED
      BY <2>1, <2>2, <2>3, <3>1
  <2>4. CASE Req(w).op = "rename"
    <3>1. reported' = reported
      BY <1>4, <2>4
    <3>2. users[u].password = reported[u]
      BY <1>7, <2>1, <3>1 DEF Undisturbed, ReportedHolds
    <3> QED
      BY <2>1, <2>2, <2>4, <3>1, <3>2
  <2> QED
    BY <1>3, <2>3, <2>4
<1>8. DOMAIN reported' \subseteq DOMAIN users' /\ ReportedHolds'
  BY <1>3, <1>4, <1>5, <1>6, <1>7 DEF Undisturbed, ReportedHolds
<1>9. ASSUME NEW x \in Users \ disturbed', NEW v \in Writers(x)'
      PROVE  /\ Writers(x)' = {v}
             /\ ctx'[v].row.password = IF Req(v)'.op = "password" THEN Req(v)'.new
                                                                 ELSE users'[x].password
  <2>1. v # w /\ v \in Workers /\ v \in Writers(x) /\ Writers(x)' \subseteq Writers(x)
    BY <1>1, <1>9 DEF Writers
  <2>2. x \notin disturbed
    BY <1>6, <1>9
  <2>3. Writers(x) = {v}
    BY <2>1, <2>2 DEF Undisturbed
  <2>4. x # u
    BY <1>3, <2>1, <2>3
  <2>5. x \in DOMAIN users
    BY <2>1 DEF Writers, IInv, AtWork
  <2> QED
    BY <1>1, <1>5, <1>9, <2>1, <2>2, <2>3, <2>4, <2>5 DEF Undisturbed, Req
<1> QED
  BY <1>8, <1>9 DEF Undisturbed

\* Every step keeps what was reported.
LEMMA UndisturbedStep ==
  ASSUME IInv, Undisturbed, [Next]_vars
  PROVE  Undisturbed'
<1>1. CASE UNCHANGED vars
  BY <1>1 DEF vars, Undisturbed, ReportedHolds, Writers, Req
<1>2. ASSUME NEW w \in Workers, Begin(w) PROVE Undisturbed'
  <2>1. /\ pc'[w] = "lookup" /\ UNCHANGED <<users, reported, disturbed>>
        /\ \A v \in Workers \ {w} : pc'[v] = pc[v] /\ ctx'[v] = ctx[v]
    BY <1>2, GoesThere DEF Begin
  <2> QED
    BY <2>1, FewerWriters
<1>3. ASSUME NEW w \in Workers, Disconnect(w) PROVE Undisturbed'
  BY <1>3, FewerWriters DEF Disconnect
<1>4. ASSUME NEW w \in Workers, LoginLookup(w) \/ RegisterLookup(w) PROVE Undisturbed'
  <2>1. /\ pc'[w] \in {"idle", "login", "insert"} /\ UNCHANGED <<users, reported, disturbed>>
        /\ \A v \in Workers \ {w} : pc'[v] = pc[v] /\ ctx'[v] = ctx[v]
    BY <1>4, GoesThere DEF LoginLookup, RegisterLookup, Finish
  <2> QED
    BY <2>1, FewerWriters
<1>5. ASSUME NEW w \in Workers, Login(w) \/ Throw(w) \/ RenameSession(w) PROVE Undisturbed'
  <2>1. /\ pc'[w] \in {"idle", "dead"} /\ UNCHANGED <<users, reported, disturbed>>
        /\ \A v \in Workers \ {w} : pc'[v] = pc[v] /\ ctx'[v] = ctx[v]
    BY <1>5, GoesThere DEF Login, Throw, RenameSession, Finish
  <2> QED
    BY <2>1, FewerWriters
<1> QED
  BY <1>1, <1>2, <1>3, <1>4, <1>5, ChangeLookupUndisturbed, NameTakenUndisturbed,
     InsertUndisturbed, UpdateUndisturbed DEF Next, WorkerStep

\* With any number of threads, a database that fails and clients that do as they
\* like, a user keeps the password that was last reported as set, although a
\* change of name writes the password back with the rest of the row
\* (AuthService.cpp:106-109, AuthService.cpp:147-148): all but the users whose row
\* two handlers were about to write at a time, or whose UPDATE was lost.
THEOREM ReportsHold == Spec => []ReportedHolds
<1>1. Init => Undisturbed
  BY NoEntriesType DEF Init, Undisturbed, ReportedHolds, Writers
<1>2. IInv /\ Undisturbed /\ [Next]_vars => Undisturbed'
  BY UndisturbedStep
<1>3. Undisturbed => ReportedHolds
  BY DEF Undisturbed
<1> QED
  BY <1>1, <1>2, <1>3, Invariance, PTL DEF Spec

\* No row has been written by two handlers at a time, and no UPDATE was lost ...
NobodyDisturbed == disturbed = {}

\* ... as it is with one thread on a healthy database: there no password that was
\* reported as set is lost (AuthService.cpp:106, 148).
THEOREM OneThreadDisturbsNobody ==
  OneThread /\ ~DbMayFail => (Spec => []NobodyDisturbed)
<1> SUFFICES ASSUME OneThread, ~DbMayFail PROVE Spec => []NobodyDisturbed
  OBVIOUS
<1>1. Init => NobodyDisturbed
  BY DEF Init, NobodyDisturbed
<1>2. NobodyDisturbed /\ [Next]_vars => NobodyDisturbed'
  <2> SUFFICES ASSUME disturbed = {}, [Next]_vars PROVE disturbed' = {}
    BY DEF NobodyDisturbed
  <2>1. ASSUME NEW w \in Workers, ChangeLookup(w) PROVE disturbed' = {}
    <3>1. \A u \in Users : w \in Writers(u)' => Writers(u)' = {w}
      BY DEF OneThread, Writers
    <3> QED
      BY <2>1, <3>1 DEF ChangeLookup
  <2>2. ASSUME NEW w \in Workers, WorkerStep(w), ~ChangeLookup(w) PROVE disturbed' = {}
    BY <2>2, Zenon DEF WorkerStep, Begin, Disconnect, LoginLookup, Login, RegisterLookup,
       Insert, Throw, NameTaken, Update, RenameSession
  <2> QED
    BY <2>1, <2>2 DEF Next, vars
<1> QED
  BY <1>1, <1>2, PTL DEF Spec

-----------------------------------------------------------------------------
(* Exclusive clients.                                                      *)

\* A user who is online has one session, which is authenticated as a user of the
\* table.
LEMMA OnlineParts ==
  ASSUME IInv, OwnInv, NEW s \in online
  PROVE  /\ s \in Sessions /\ SM!Authenticated(s)
         /\ identity[s].userId \in DOMAIN users /\ identity[s].userId # None
         /\ \A t \in online : identity[t].userId = identity[s].userId => t = s
<1>1. s \in Sessions
  BY DEF IInv, TypeOK, SM!TypeOK
<1>2. SM!Authenticated(s)
  BY DEF OwnInv, OnlineIsKnown
<1>3. \A t \in online : sessionsByUserId[identity[t].userId] = t
  BY DEF OwnInv, SM!RegistryIsExact
<1> QED
  BY <1>1, <1>2, <1>3 DEF IInv, KnownUsers, SM!Authenticated

\* But for a change of name on its way, every name is the table's.
LEMMA AllInStep ==
  ASSUME OneThread, OwnInv, NEW w \in Workers, NEW t \in online,
         pc[w] # "rename_session" \/ ctx[w].s # t
  PROVE  identity[t].username = users[identity[t].userId].username
BY DEF OneThread, OwnInv, InStep

\* The session whose request the thread is at is open, so online if it has
\* logged in.
LEMMA AtWorkOnline ==
  ASSUME IInv, OwnInv, NEW w \in Workers, pc[w] \notin {"idle", "dead"},
         Req(w).op \in {"password", "rename"}
  PROVE  ctx[w].s \in online
BY DEF IInv, AtWork, OwnInv, Owns

\* The users the clients are, and the names they take, are nobody else's.
LEMMA LoginAllowed ==
  ASSUME OneThread, IInv, AloneInv, OwnInv, NEW w \in Workers, pc[w] = "login"
  PROVE  ~SM!Authenticated(ctx[w].s) /\ SM!Free(ctx[w].id, ctx[w].row.username)
<1>1. /\ users[ctx[w].id].username = Req(w).name
      /\ ctx[w].row.username = Req(w).name
  BY DEF AloneInv, Holds
<1>2. ~SM!Authenticated(ctx[w].s) /\ \A t \in online : identity[t].username # Req(w).name
  BY DEF IInv, AtWork, OwnInv, Owns
<1>3. \A t \in online : identity[t].username = users[identity[t].userId].username
  BY AllInStep
<1> QED
  BY <1>1, <1>2, <1>3 DEF SM!Free

\* A session that is to be told its new name is online, and no other has it.
LEMMA RenameAllowed ==
  ASSUME OneThread, IInv, AloneInv, OwnInv, NEW w \in Workers, pc[w] = "rename_session"
  PROVE  ctx[w].s \in online /\ SM!Free(None, Req(w).name)
<1>1. ctx[w].s \in online
  BY AtWorkOnline DEF IInv, AtWork
<1>2. /\ users[ctx[w].id].username = Req(w).name /\ ctx[w].id = identity[ctx[w].s].userId
      /\ identity[ctx[w].s].username # Req(w).name
  BY DEF AloneInv, Holds, OwnInv, Owns
<1>3. ASSUME NEW t \in online
      PROVE  identity[t].userId # None /\ identity[t].username # Req(w).name
  <2>1. CASE t = ctx[w].s
    BY <1>2, <2>1, OnlineParts
  <2>2. CASE t # ctx[w].s
    <3>1. identity[t].username = users[identity[t].userId].username
      BY <2>2, AllInStep
    <3>2. identity[t].userId # ctx[w].id
      BY <1>1, <1>2, <2>2, OnlineParts
    <3>3. identity[t].userId \in DOMAIN users /\ ctx[w].id \in DOMAIN users
      BY <1>1, <1>2, OnlineParts
    <3>4. Legal(users)
      BY DEF IInv, TypeOK
    <3> QED
      BY <1>2, <3>1, <3>2, <3>3, <3>4, OnlineParts DEF Legal
  <2> QED
    BY <2>1, <2>2
<1> QED
  BY <1>1, <1>3 DEF SM!Free

\* So every step uses the registry as SessionManager describes.
LEMMA RegistryStep ==
  ASSUME IInv, [Next]_vars, OneThread, AloneInv, OwnInv
  PROVE  [SM!Next]_(SM!vars)
<1>1. CASE UNCHANGED people
  BY <1>1 DEF people, SM!vars
<1>2. ASSUME NEW w \in Workers, Login(w) PROVE SM!Next
  <2>1. ctx[w].s \in Sessions /\ ctx[w].id \in Users /\ ctx[w].row.username \in Names
    BY <1>2, LoginParts
  <2>2. SM!RegisterAuthenticatedSession(ctx[w].s, ctx[w].id, ctx[w].row.username)
    BY <1>2 DEF Login
  <2>3. Exclusive => ~SM!Authenticated(ctx[w].s) /\ SM!Free(ctx[w].id, ctx[w].row.username)
    BY <1>2, LoginAllowed DEF Login
  <2> QED
    BY <2>1, <2>2, <2>3 DEF SM!Next
<1>3. ASSUME NEW w \in Workers, Disconnect(w) PROVE SM!Next
  <2>1. PICK s \in Sessions \ closed : SM!Remove(s)
    BY <1>3 DEF Disconnect
  <2>2. Exclusive => s \in online \/ ~SM!Authenticated(s)
    BY <2>1 DEF OwnInv
  <2> QED
    BY <2>1, <2>2 DEF SM!Next
<1>4. ASSUME NEW w \in Workers, RenameSession(w) PROVE SM!Next
  <2>1. ctx[w].s \in Sessions /\ Req(w).name \in Names /\ SM!Authenticated(ctx[w].s)
    BY <1>4, RenameParts
  <2>2. SM!UpdateUsername(ctx[w].s, Req(w).name)
    BY <1>4 DEF RenameSession
  <2>3. Exclusive => ctx[w].s \in online /\ SM!Free(None, Req(w).name)
    BY <1>4, RenameAllowed DEF RenameSession
  <2> QED
    BY <2>1, <2>2, <2>3 DEF SM!Next
<1>5. ASSUME NEW w \in Workers, WorkerStep(w), ~Login(w), ~Disconnect(w), ~RenameSession(w)
      PROVE  UNCHANGED people
  BY <1>5 DEF WorkerStep, Begin, LoginLookup, RegisterLookup, Insert, Throw, ChangeLookup,
     NameTaken, Update
<1> QED
  BY <1>1, <1>2, <1>3, <1>4, <1>5 DEF Next, vars

\* And the registry stays exact (SessionManager.cpp:9-29).
LEMMA StaysExact ==
  ASSUME IInv, [Next]_vars, Exclusive, OneThread, AloneInv, OwnInv
  PROVE  OnlineIsKnown' /\ SM!RegistryIsExact'
<1>1. [SM!Next]_(SM!vars)
  BY RegistryStep
<1>2. [SM!Next]_(SM!vars)
  BY <1>1 DEF SM!Next, SM!vars
<1>3. RegistryInv
  BY DEF IInv, TypeOK, OwnInv, RegistryInv
<1>4. RegistryInv'
  BY <1>2, <1>3, Assumed, NextRegistryInv
<1> QED
  BY <1>4 DEF RegistryInv

\* The thread reads, for a session that stays what it is.
LEMMA OwnReads ==
  ASSUME OneThread, OwnInv, NEW w \in Workers, pc[w] # "rename_session",
         UNCHANGED <<users, people, closed>>, Owns(w)'
  PROVE  OwnInv'
<1>1. UNCHANGED <<identity, sessionsByUserId, sessionsByUsername, online>>
  BY DEF people
<1>2. OnlineIsKnown' /\ SM!RegistryIsExact'
  BY <1>1 DEF OwnInv, OnlineIsKnown, SM!Authenticated, SM!RegistryIsExact
<1>3. \A s \in Sessions \ closed' : SM!Authenticated(s)' => s \in online'
  BY <1>1 DEF OwnInv, SM!Authenticated
<1>4. \A t \in online' : InStep(t)'
  BY <1>1, AllInStep DEF InStep
<1>5. \A v \in Workers : Owns(v)'
  BY DEF OneThread
<1> QED
  BY <1>2, <1>3, <1>4, <1>5 DEF OwnInv

\* A handler is over, or goes on for the same session.
LEMMA OwnGoesOn ==
  ASSUME OneThread, IInv, OwnInv, NEW w \in Workers,
         pc[w] \in {"lookup", "login", "insert", "name_taken", "update"},
         UNCHANGED <<users, people, closed>>, ctx'[w].s = ctx[w].s, ctx'[w].req = ctx[w].req,
         \/ pc'[w] = "insert"
         \/ pc[w] = "lookup" /\ pc'[w] = "login"
         \/ pc'[w] \in {"name_taken", "update"} /\ ctx'[w].id = identity[ctx[w].s].userId
  PROVE  OwnInv'
<1>1. Owns(w)'
  BY DEF people, OwnInv, Owns, Req, SM!Authenticated
<1> QED
  BY <1>1, OwnReads

\* A handler that ends owns nothing.
LEMMA OwnEnds ==
  ASSUME OneThread, IInv, OwnInv, NEW w \in Workers, pc[w] # "rename_session",
         UNCHANGED <<users, people, closed>>, pc'[w] \in {"idle", "dead"}
  PROVE  OwnInv'
<1>1. Owns(w)'
  BY DEF Owns
<1> QED
  BY <1>1, OwnReads

\* Exclusive clients log in on a fresh connection (Disciplined).
LEMMA BeginOwn ==
  ASSUME Exclusive, ~LateRequests, OneThread, IInv, OwnInv, NEW w \in Workers, Begin(w)
  PROVE  OwnInv'
<1>1. PICK s \in Sessions \ closed, req \in Request :
        /\ Disciplined(s, req)
        /\ Goto(w, "lookup", [NoTask EXCEPT !.s = s, !.req = req])
  BY DEF Begin
<1>2. PICK c : c = [NoTask EXCEPT !.s = s, !.req = req]
  OBVIOUS
<1>3. c.s = s /\ c.req = req
  BY <1>2 DEF NoTask
<1>4. pc'[w] = "lookup" /\ ctx'[w] = c
  BY <1>1, <1>2, GoesThere
<1>5. UNCHANGED <<users, people, closed>> /\ pc[w] # "rename_session"
  BY DEF Begin
<1>6. Owns(w)'
  BY <1>1, <1>3, <1>4, <1>5 DEF people, Owns, Req, Disciplined, SM!Authenticated
<1> QED
  BY <1>5, <1>6, OwnReads

\* The row found under the session's name is its user's (AuthService.cpp:78,
\* AuthService.cpp:121).
LEMMA FindsOwn ==
  ASSUME OneThread, IInv, OwnInv, NEW w \in Workers, ChangeLookup(w),
         NEW u \in Named(identity[ctx[w].s].username)
  PROVE  u = identity[ctx[w].s].userId
<1>1. ctx[w].s \in online
  BY AtWorkOnline DEF ChangeLookup
<1>2. identity[ctx[w].s].username = users[identity[ctx[w].s].userId].username
  BY <1>1, AllInStep DEF ChangeLookup
<1>3. identity[ctx[w].s].userId \in DOMAIN users
  BY <1>1, OnlineParts
<1>4. Legal(users)
  BY DEF IInv, TypeOK
<1> QED
  BY <1>2, <1>3, <1>4 DEF Named, Legal

\* LOGIN finds a user who is not online yet.
LEMMA LoginLookupOwn ==
  ASSUME OneThread, IInv, OwnInv, NEW w \in Workers, LoginLookup(w)
  PROVE  OwnInv'
<1>1. UNCHANGED <<users, people, closed>> /\ pc[w] = "lookup"
  BY DEF LoginLookup
<1>2. CASE Finish(w)
  BY <1>1, <1>2, GoesThere, OwnEnds DEF Finish
<1>3. CASE \E u \in Named(Req(w).name) : Goto(w, "login", Copy(w, u))
  <2>1. PICK u \in DOMAIN users : Goto(w, "login", Copy(w, u))
    BY <1>3 DEF Named
  <2>2. PICK c : c = Copy(w, u)
    OBVIOUS
  <2>3. c.s = ctx[w].s /\ c.req = ctx[w].req
    BY <2>2, CopyParts
  <2>4. pc'[w] = "login" /\ ctx'[w] = c
    BY <2>1, <2>2, GoesThere
  <2> QED
    BY <1>1, <2>3, <2>4, OwnGoesOn
<1> QED
  BY <1>2, <1>3 DEF LoginLookup

\* REGISTER has nothing to do with who is online.
LEMMA RegisterLookupOwn ==
  ASSUME OneThread, IInv, OwnInv, NEW w \in Workers, RegisterLookup(w)
  PROVE  OwnInv'
<1>1. UNCHANGED <<users, people, closed>> /\ pc[w] = "lookup"
  BY DEF RegisterLookup
<1>2. CASE Finish(w)
  BY <1>1, <1>2, GoesThere, OwnEnds DEF Finish
<1>3. CASE Goto(w, "insert", ctx[w])
  <2>1. pc'[w] = "insert" /\ ctx'[w] = ctx[w]
    BY <1>3, GoesThere
  <2> QED
    BY <1>1, <2>1, OwnGoesOn
<1> QED
  BY <1>2, <1>3 DEF RegisterLookup

\* The row a change starts from is that of the session's user.
LEMMA ChangeLookupOwn ==
  ASSUME OneThread, IInv, OwnInv, NEW w \in Workers, ChangeLookup(w)
  PROVE  OwnInv'
<1>1. UNCHANGED <<users, people, closed>> /\ pc[w] = "lookup"
  BY DEF ChangeLookup
<1>2. CASE Finish(w)
  BY <1>1, <1>2, GoesThere, OwnEnds DEF Finish
<1>3. ASSUME NEW u \in Named(identity[ctx[w].s].username),
             Goto(w, "update", [Copy(w, u) EXCEPT !.row = Changed(Req(w), @)])
      PROVE  OwnInv'
  <2>1. PICK c : c = Copy(w, u)
    OBVIOUS
  <2>2. u \in DOMAIN users
    BY DEF Named
  <2>3. c \in Task /\ c.s = ctx[w].s /\ c.req = ctx[w].req /\ c.id = u
    BY <2>1, <2>2, CopyParts
  <2>4. PICK d : d = [c EXCEPT !.row = Changed(Req(w), c.row)]
    OBVIOUS
  <2>5. d.s = c.s /\ d.req = c.req /\ d.id = c.id
    BY <2>3, <2>4 DEF Task
  <2>6. pc'[w] = "update" /\ ctx'[w] = d
    BY <1>3, <2>1, <2>4, GoesThere
  <2>7. u = identity[ctx[w].s].userId
    BY <1>3, FindsOwn
  <2> QED
    BY <1>1, <2>3, <2>5, <2>6, <2>7, OwnGoesOn
<1>4. ASSUME NEW u \in Named(identity[ctx[w].s].username), Goto(w, "name_taken", Copy(w, u))
      PROVE  OwnInv'
  <2>1. PICK c : c = Copy(w, u)
    OBVIOUS
  <2>2. u \in DOMAIN users
    BY DEF Named
  <2>3. c.s = ctx[w].s /\ c.req = ctx[w].req /\ c.id = u
    BY <2>1, <2>2, CopyParts
  <2>4. pc'[w] = "name_taken" /\ ctx'[w] = c
    BY <1>4, <2>1, GoesThere
  <2>5. u = identity[ctx[w].s].userId
    BY <1>4, FindsOwn
  <2> QED
    BY <1>1, <2>3, <2>4, <2>5, OwnGoesOn
<1> QED
  BY <1>2, <1>3, <1>4 DEF ChangeLookup

\* So is the one that is written back after the new name was looked for.
LEMMA NameTakenOwn ==
  ASSUME OneThread, IInv, OwnInv, NEW w \in Workers, NameTaken(w)
  PROVE  OwnInv'
<1>1. UNCHANGED <<users, people, closed>> /\ pc[w] = "name_taken"
  BY DEF NameTaken
<1>2. CASE Finish(w)
  BY <1>1, <1>2, GoesThere, OwnEnds DEF Finish
<1>3. CASE Goto(w, "update", [ctx[w] EXCEPT !.row = Changed(Req(w), @)])
  <2>1. ctx[w] \in Task /\ ctx[w].id = identity[ctx[w].s].userId
    BY <1>1 DEF IInv, OwnInv, Owns
  <2>2. PICK d : d = [ctx[w] EXCEPT !.row = Changed(Req(w), ctx[w].row)]
    OBVIOUS
  <2>3. d.s = ctx[w].s /\ d.req = ctx[w].req /\ d.id = ctx[w].id
    BY <2>1, <2>2 DEF Task
  <2>4. pc'[w] = "update" /\ ctx'[w] = d
    BY <1>3, <2>2, GoesThere
  <2> QED
    BY <1>1, <2>1, <2>3, <2>4, OwnGoesOn
<1> QED
  BY <1>2, <1>3 DEF NameTaken

\* A thread that dies has read and written nothing.
LEMMA ThrowOwn ==
  ASSUME OneThread, IInv, OwnInv, NEW w \in Workers, Throw(w)
  PROVE  OwnInv'
<1>1. UNCHANGED <<users, people, closed>> /\ pc[w] # "rename_session"
  BY DEF Throw
<1>2. pc'[w] = "dead"
  BY GoesThere DEF Throw
<1> QED
  BY <1>1, <1>2, OwnEnds

\* The rows of users who are online stay.
LEMMA InsertOwn ==
  ASSUME OneThread, IInv, OwnInv, NEW w \in Workers, Insert(w)
  PROVE  OwnInv'
<1>1. pc[w] # "rename_session" /\ pc'[w] = "idle"
  BY GoesThere DEF Insert, Finish
<1>2. UNCHANGED <<identity, sessionsByUserId, sessionsByUsername, online, closed>>
  BY DEF Insert, people
<1>3. \A u \in DOMAIN users : users'[u] = users[u]
  BY InsertParts DEF Put
<1>4. OnlineIsKnown' /\ SM!RegistryIsExact'
  BY <1>2 DEF OwnInv, OnlineIsKnown, SM!Authenticated, SM!RegistryIsExact
<1>5. \A s \in Sessions \ closed' : SM!Authenticated(s)' => s \in online'
  BY <1>2 DEF OwnInv, SM!Authenticated
<1>6. \A t \in online' : InStep(t)'
  BY <1>1, <1>2, <1>3, AllInStep, OnlineParts DEF InStep
<1>7. \A v \in Workers : Owns(v)'
  BY <1>1 DEF OneThread, Owns
<1> QED
  BY <1>4, <1>5, <1>6, <1>7 DEF OwnInv

\* The name the session has is not yet the one in its row, when that changes.
LEMMA UpdateOwn ==
  ASSUME OneThread, ~DbMayFail, IInv, AloneInv, OwnInv, NEW w \in Workers, Update(w)
  PROVE  OwnInv'
<1>1. pc[w] = "update"
  BY DEF Update
<1>2. UNCHANGED <<identity, sessionsByUserId, sessionsByUsername, online, closed>>
  BY DEF Update, people
<1>3. ctx[w].s \in online /\ ctx[w].id = identity[ctx[w].s].userId /\ ctx[w].s \notin closed
  BY <1>1, AtWorkOnline, UpdateParts DEF OwnInv, Owns
<1>4. OnlineIsKnown' /\ SM!RegistryIsExact'
  BY <1>2 DEF OwnInv, OnlineIsKnown, SM!Authenticated, SM!RegistryIsExact
<1>5. \A s \in Sessions \ closed' : SM!Authenticated(s)' => s \in online'
  BY <1>2 DEF OwnInv, SM!Authenticated
<1>6. CASE Req(w).op = "password"
  <2>1. pc'[w] = "idle"
    BY <1>6, GoesThere DEF Update, Updated, Finish
  <2>2. \A u \in DOMAIN users : users'[u].username = users[u].username
    BY <1>6, UpdateParts, UpdateAloneParts
  <2>3. \A t \in online' : InStep(t)'
    BY <1>1, <1>2, <2>2, AllInStep, OnlineParts DEF InStep
  <2>4. \A v \in Workers : Owns(v)'
    BY <2>1 DEF OneThread, Owns
  <2> QED
    BY <1>4, <1>5, <2>3, <2>4 DEF OwnInv
<1>7. CASE Req(w).op # "password"
  <2>1. pc'[w] = "rename_session" /\ ctx'[w] = ctx[w]
    BY <1>7, GoesThere DEF Update, Updated
  <2>2. ASSUME NEW t \in online PROVE InStep(t)'
    <3>1. CASE t = ctx[w].s
      BY <2>1, <3>1 DEF InStep
    <3>2. CASE t # ctx[w].s
      <4>1. identity[t].userId \in DOMAIN users /\ identity[t].userId # ctx[w].id
        BY <1>3, <3>2, OnlineParts
      <4>2. users'[identity[t].userId] = users[identity[t].userId]
        BY <4>1, UpdateParts
      <4> QED
        BY <1>1, <1>2, <4>2, AllInStep DEF InStep
    <3> QED
      BY <3>1, <3>2
  <2>3. identity[ctx[w].s].username # Req(w).name
    <3>1. identity[ctx[w].s].username = users[ctx[w].id].username
      BY <1>1, <1>3, AllInStep
    <3>2. Req(w).op = "rename"
      BY <1>7, UpdateParts
    <3>3. Named(Req(w).name) = {}
      BY <1>1, <3>2 DEF AloneInv, Holds
    <3>4. ctx[w].id \in DOMAIN users
      BY UpdateParts
    <3> QED
      BY <3>1, <3>3, <3>4 DEF Named
  <2>4. Owns(w)'
    BY <1>2, <1>3, <2>1, <2>3 DEF Owns, Req
  <2>5. \A v \in Workers : Owns(v)'
    BY <2>4 DEF OneThread
  <2> QED
    BY <1>2, <1>4, <1>5, <2>2, <2>5 DEF OwnInv
<1> QED
  BY <1>6, <1>7

\* A session takes its name from the row, at login or after the row has changed.
LEMMA SessionOwn ==
  ASSUME Exclusive, OneThread, IInv, AloneInv, OwnInv, [Next]_vars, NEW w \in Workers,
         Login(w) \/ RenameSession(w)
  PROVE  OwnInv'
<1>1. OnlineIsKnown' /\ SM!RegistryIsExact'
  BY StaysExact
<1>2. pc'[w] = "idle" /\ UNCHANGED <<users, closed>>
  BY GoesThere DEF Login, RenameSession, Finish
<1>3. \A v \in Workers : Owns(v)'
  BY <1>2 DEF OneThread, Owns
<1>4. online' = online \cup {ctx[w].s}
  <2>1. CASE Login(w)
    BY <2>1 DEF Login, SM!RegisterAuthenticatedSession
  <2>2. CASE RenameSession(w)
    BY <2>2, RenameAllowed DEF RenameSession, SM!UpdateUsername
  <2> QED
    BY <2>1, <2>2
<1>5. \A t \in Sessions \ {ctx[w].s} : identity'[t] = identity[t]
  BY LoginParts, RenameParts
<1>6. ctx[w].s \in Sessions
  BY LoginParts, RenameParts
<1>7. identity'[ctx[w].s].username = users[identity'[ctx[w].s].userId].username
  <2>1. CASE Login(w)
    <3>1. PICK i : i = [userId |-> ctx[w].id, username |-> ctx[w].row.username]
      OBVIOUS
    <3>2. i.userId = ctx[w].id /\ i.username = ctx[w].row.username
      BY <3>1
    <3>3. identity'[ctx[w].s] = i
      BY <2>1, <3>1, LoginParts
    <3>4. ctx[w].row = users[ctx[w].id]
      BY <2>1 DEF Login, AloneInv, Holds
    <3> QED
      BY <3>2, <3>3, <3>4
  <2>2. CASE RenameSession(w)
    BY <2>2, RenameParts DEF RenameSession, AloneInv, Holds, OwnInv, Owns
  <2> QED
    BY <2>1, <2>2
<1>8. \A s \in Sessions \ closed' : SM!Authenticated(s)' => s \in online'
  BY <1>2, <1>4, <1>5 DEF OwnInv, SM!Authenticated
<1>9. ASSUME NEW t \in online' PROVE InStep(t)'
  <2>1. CASE t = ctx[w].s
    BY <1>2, <1>7, <2>1 DEF InStep
  <2>2. CASE t # ctx[w].s
    <3>1. t \in online /\ t \in Sessions
      BY <1>4, <2>2, OnlineParts
    <3>2. identity[t].username = users[identity[t].userId].username
      BY <2>2, <3>1, AllInStep
    <3> QED
      BY <1>2, <1>5, <2>2, <3>1, <3>2 DEF InStep
  <2> QED
    BY <2>1, <2>2
<1> QED
  BY <1>1, <1>3, <1>8, <1>9 DEF OwnInv

\* A session that closes is online no more.
LEMMA DisconnectOwn ==
  ASSUME Exclusive, OneThread, IInv, AloneInv, OwnInv, [Next]_vars, NEW w \in Workers,
         Disconnect(w)
  PROVE  OwnInv'
<1>1. OnlineIsKnown' /\ SM!RegistryIsExact'
  BY StaysExact
<1>2. PICK s \in Sessions \ closed : SM!Remove(s) /\ closed' = closed \cup {s}
  BY DEF Disconnect
<1>3. online' = online \ {s} /\ UNCHANGED <<users, identity, pc, ctx>> /\ pc[w] = "idle"
  BY <1>2 DEF Disconnect, SM!Remove
<1>4. \A v \in Workers : Owns(v)'
  BY <1>3 DEF OneThread, Owns
<1>5. \A t \in Sessions \ closed' : SM!Authenticated(t)' => t \in online'
  BY <1>2, <1>3 DEF OwnInv, SM!Authenticated
<1>6. \A t \in online' : InStep(t)'
  BY <1>3, AllInStep DEF InStep
<1> QED
  BY <1>1, <1>4, <1>5, <1>6 DEF OwnInv

\* A step of the only thread, for exclusive clients.
LEMMA OwnStep ==
  ASSUME Exclusive, ~LateRequests, OneThread, ~DbMayFail, IInv, AloneInv, OwnInv, [Next]_vars
  PROVE  OwnInv'
<1>1. CASE UNCHANGED vars
  <2>1. UNCHANGED <<users, identity, sessionsByUserId, sessionsByUsername, online, pc, ctx,
                    closed>>
    BY <1>1 DEF vars, people
  <2>2. OnlineIsKnown' /\ SM!RegistryIsExact'
    BY <2>1 DEF OwnInv, OnlineIsKnown, SM!Authenticated, SM!RegistryIsExact
  <2>3. \A s \in Sessions \ closed' : SM!Authenticated(s)' => s \in online'
    BY <2>1 DEF OwnInv, SM!Authenticated
  <2>4. \A v \in Workers : Owns(v)'
    BY <2>1 DEF OwnInv, Owns, Req, SM!Authenticated
  <2>5. \A t \in online' : InStep(t)'
    BY <2>1 DEF OwnInv, InStep
  <2> QED
    BY <2>2, <2>3, <2>4, <2>5 DEF OwnInv
<1>2. ASSUME NEW w \in Workers, WorkerStep(w) PROVE OwnInv'
  BY <1>2, BeginOwn, DisconnectOwn, LoginLookupOwn, SessionOwn, RegisterLookupOwn, InsertOwn,
     ThrowOwn, ChangeLookupOwn, NameTakenOwn, UpdateOwn DEF WorkerStep
<1> QED
  BY <1>1, <1>2 DEF Next

\* With exclusive clients one thread finds each user online under the name of
\* the row.
LEMMA Own ==
  ASSUME Exclusive, ~LateRequests, OneThread, ~DbMayFail
  PROVE  Spec => []OwnInv
<1>1. ASSUME Init PROVE OwnInv
  <2>1. SM!Init
    BY <1>1 DEF Init
  <2>2. OnlineIsKnown /\ SM!RegistryIsExact
    BY <2>1, Assumed, InitRegistryInv DEF RegistryInv
  <2>3. online = {} /\ \A s \in Sessions : ~SM!Authenticated(s)
    BY <2>1 DEF SM!Init, SM!Authenticated, SM!Anonymous
  <2>4. \A w \in Workers : pc[w] = "idle"
    BY <1>1 DEF Init
  <2> QED
    BY <2>2, <2>3, <2>4 DEF OwnInv, Owns
<1>2. IInv /\ AloneInv /\ OwnInv /\ [Next]_vars => OwnInv'
  BY OwnStep
<1> QED
  BY <1>1, <1>2, Alone, Invariance, PTL DEF Spec

\* With one thread, a healthy database and exclusive clients whose requests all
\* come before their disconnect, whoever is online goes by the name in the table
\* and is found under it, whatever names they and others have taken since
\* (AuthService.cpp:147-149).
THEOREM OnlineUnderRow ==
  OneThread /\ ~DbMayFail /\ Exclusive /\ ~LateRequests => (Spec => []FoundUnderRow)
<1> SUFFICES ASSUME OneThread, ~DbMayFail, Exclusive, ~LateRequests PROVE Spec => []FoundUnderRow
  OBVIOUS
<1>1. ASSUME OwnInv PROVE FoundUnderRow
  <2> SUFFICES ASSUME Quiet, NEW s \in online
               PROVE  LET name == users[identity[s].userId].username
                      IN /\ identity[s].username = name
                         /\ name \in DOMAIN sessionsByUsername
                         /\ sessionsByUsername[name] = s
    BY DEF FoundUnderRow
  <2>1. \A w \in Workers : pc[w] # "rename_session"
    BY DEF Quiet
  <2>2. identity[s].username = users[identity[s].userId].username
    BY <1>1, <2>1 DEF OwnInv, InStep
  <2>3. /\ identity[s].username \in DOMAIN sessionsByUsername
        /\ sessionsByUsername[identity[s].username] = s
    BY <1>1 DEF OwnInv, SM!RegistryIsExact
  <2> QED
    BY <2>2, <2>3
<1> QED
  BY <1>1, Own, PTL

\* And a handler that changes a password or a name changes that field of that
\* user's row, although it finds the row by a name and writes all of it back
\* (AuthService.cpp:78-106, AuthService.cpp:121-148).
LEMMA OwnRowStep ==
  ASSUME ~DbMayFail, IInv, AloneInv, OwnInv, Next, NEW u \in DOMAIN users
  PROVE  /\ users'[u].password # users[u].password => WrittenBack("password", u)
         /\ users'[u].username # users[u].username => WrittenBack("rename", u)
<1>1. CASE users'[u] = users[u]
  BY <1>1
<1>2. ASSUME NEW w \in Workers, Insert(w) PROVE users'[u] = users[u]
  BY <1>2, InsertParts DEF Put
<1>3. ASSUME NEW w \in Workers, Update(w), users'[u] # users[u]
      PROVE  /\ users'[u].password # users[u].password => WrittenBack("password", u)
             /\ users'[u].username # users[u].username => WrittenBack("rename", u)
  <2>1. u = ctx[w].id /\ Req(w).op \in {"password", "rename"}
    BY <1>3, UpdateParts
  <2>2. pc[w] = "update" /\ pc'[w] # "update"
    BY <1>3, GoesThere DEF Update, Updated, Finish
  <2>3. identity[ctx[w].s].userId = u
    BY <2>1, <2>2 DEF OwnInv, Owns
  <2>4. WrittenBack(Req(w).op, u)
    BY <2>2, <2>3 DEF WrittenBack
  <2>5. /\ users'[u].password # users[u].password => Req(w).op = "password"
        /\ users'[u].username # users[u].username => Req(w).op = "rename"
    BY <1>3, <2>1, UpdateAloneParts
  <2> QED
    BY <2>4, <2>5
<1> QED
  BY <1>1, <1>2, <1>3 DEF Next, WorkerStep, Begin, Disconnect, LoginLookup, Login,
     RegisterLookup, Throw, ChangeLookup, NameTaken, RenameSession

\* So rows change one field at a time, by their own user.
THEOREM OwnRowOnly ==
  OneThread /\ ~DbMayFail /\ Exclusive /\ ~LateRequests => (Spec => OwnFieldOnly)
<1> SUFFICES ASSUME OneThread, ~DbMayFail, Exclusive, ~LateRequests PROVE Spec => OwnFieldOnly
  OBVIOUS
<1>1. IInv /\ AloneInv /\ OwnInv /\ [Next]_vars =>
        [\A u \in DOMAIN users :
           /\ users'[u].password # users[u].password => WrittenBack("password", u)
           /\ users'[u].username # users[u].username => WrittenBack("rename", u)]_vars
  BY OwnRowStep
<1> QED
  BY <1>1, Own, Alone, Invariance, PTL DEF Spec, OwnFieldOnly

\* With exclusive clients the handlers keep the discipline that SessionManager
\* describes, on which its exactness rests: one thread on a healthy database tells
\* a session a new name that nobody online has, although what it looked at is the
\* table, and a session that ends is online still if it ever was
\* (AuthService.cpp:128-149, SessionManager.cpp:9-29).
THEOREM PeopleRefined ==
  OneThread /\ ~DbMayFail /\ Exclusive /\ ~LateRequests => (Spec => PeopleSpec)
<1> SUFFICES ASSUME OneThread, ~DbMayFail, Exclusive, ~LateRequests PROVE Spec => PeopleSpec
  OBVIOUS
<1>1. Init => SM!Init
  BY DEF Init
<1>2. IInv /\ AloneInv /\ OwnInv /\ [Next]_vars => [SM!Next]_(SM!vars)
  BY RegistryStep
<1> QED
  BY <1>1, <1>2, Alone, Own, Invariance, PTL DEF Spec, PeopleSpec, SM!Spec
=============================================================================
