---------------------------- MODULE SessionManager --------------------------
(***************************************************************************)
(* The registry of authenticated connections (server/src/core/             *)
(* SessionManager) and the identity each session object keeps              *)
(* (Authenticated, userId, username of server/src/session/Session).        *)
(*                                                                         *)
(* Every action is one method, whole, under the mutex.  The callers are    *)
(* AuthService (login, change of name) and Server::onDisconnect.           *)
(*                                                                         *)
(* The operators called variants are slips the code does not make: with a  *)
(* variant in the place of the definition after it, a property fails.      *)
(***************************************************************************)
EXTENDS Maps

CONSTANTS Sessions, Users, Names,
          Nobody,     \* std::nullopt, the userId of a fresh session
          NoName,     \* std::nullopt, its username
          Exclusive   \* clients log in once per connection, and no user is
                      \* online twice; nothing in the server sees to it

ASSUME IdentityAssumption ==
  Nobody \notin Users /\ NoName \notin Names /\ Exclusive \in BOOLEAN

VARIABLES identity,            \* session -> [userId, username]
          sessionsByUserId,    \* user -> session
          sessionsByUsername,  \* name -> session
          online               \* history: sessions that have logged in and
                               \* have not been removed since

vars == <<identity, sessionsByUserId, sessionsByUsername, online>>

Anonymous == [userId |-> Nobody, username |-> NoName]

\* setAuthenticated sets all three fields in one go; a session is
\* authenticated from then on (clearAuthentication has no caller).
Authenticated(s) == identity[s].userId # Nobody

TypeOK ==
  /\ identity \in [Sessions -> {Anonymous} \cup [userId : Users, username : Names]]
  /\ IsMap(sessionsByUserId, Users, Sessions)
  /\ IsMap(sessionsByUsername, Names, Sessions)
  /\ online \in SUBSET Sessions

Init == /\ identity = [s \in Sessions |-> Anonymous]
        /\ sessionsByUserId = NoEntries
        /\ sessionsByUsername = NoEntries
        /\ online = {}

-----------------------------------------------------------------------------
\* The entries another login of the user, or an earlier login of the session,
\* may have left are overwritten or stay; no session is told.
RegisterAuthenticatedSession(s, u, n) ==
  /\ sessionsByUserId' = Put(sessionsByUserId, u, s)
  /\ sessionsByUsername' = Put(sessionsByUsername, n, s)
  /\ identity' = [identity EXCEPT ![s] = [userId |-> u, username |-> n]]
  /\ online' = online \cup {s}

\* Variant: the entry under the name stays.
RemoveById(s) ==
  /\ sessionsByUserId' = Erase(sessionsByUserId, identity[s].userId)
  /\ online' = online \ {s}
  /\ UNCHANGED <<identity, sessionsByUsername>>

\* The entries under the session's identity are erased, whoever they lead to.
\* The session keeps its identity.
Remove(s) ==
  /\ IF Authenticated(s)
       THEN /\ sessionsByUserId' = Erase(sessionsByUserId, identity[s].userId)
            /\ sessionsByUsername' = Erase(sessionsByUsername, identity[s].username)
       ELSE UNCHANGED <<sessionsByUserId, sessionsByUsername>>
  /\ online' = online \ {s}
  /\ UNCHANGED identity

UpdateUsername(s, n) ==
  /\ sessionsByUsername' = Put(Erase(sessionsByUsername, identity[s].username), n, s)
  /\ identity' = [identity EXCEPT ![s].username = n]
  /\ UNCHANGED <<sessionsByUserId, online>>

\* findByUsername: the session found, or none for nullptr.
FindByUsername(n, none) ==
  IF n \in DOMAIN sessionsByUsername THEN sessionsByUsername[n] ELSE none

-----------------------------------------------------------------------------
\* Nobody online is, or is called, as u or n.
Free(u, n) ==
  \A t \in online : identity[t].userId # u /\ identity[t].username # n

\* A session that changes its name is authenticated (AuthService.cpp:115), the
\* table has made sure of the name (AuthService.cpp:128), and a session is
\* removed when it closes, once.
Next ==
  \E s \in Sessions :
    \/ \E u \in Users, n \in Names :
         /\ Exclusive => ~Authenticated(s) /\ Free(u, n)
         /\ RegisterAuthenticatedSession(s, u, n)
    \/ /\ Exclusive => s \in online \/ ~Authenticated(s)
       /\ Remove(s)
    \/ \E n \in Names :
         /\ Authenticated(s)
         /\ Exclusive => s \in online /\ Free(Nobody, n)
         /\ UpdateUsername(s, n)

Spec == Init /\ [][Next]_vars

-----------------------------------------------------------------------------
(* Properties.                                                             *)

\* With exclusive clients the two maps list the sessions online, each under
\* its own id and its own name, through any mixture of logins, changes of
\* name and disconnects: the entries are erased and written one by one, from
\* an identity that the same methods change (SessionManager.cpp:9-29).  With
\* other clients it fails: the second login of a user takes the entries over
\* and its disconnect erases them, and MessageService.cpp:65 answers that a
\* user who is online is not.
RegistryIsExact ==
  /\ DOMAIN sessionsByUserId = {identity[s].userId : s \in online}
  /\ DOMAIN sessionsByUsername = {identity[s].username : s \in online}
  /\ \A s \in online : /\ sessionsByUserId[identity[s].userId] = s
                       /\ sessionsByUsername[identity[s].username] = s
=============================================================================
