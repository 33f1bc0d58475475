----------------------------- MODULE MCChatServer ---------------------------
(***************************************************************************)
(* ChatServer on two connections and two rooms, and a name too long to be  *)
(* one's.  Each script says what the clients may send, request by request; *)
(* the order in which the requests of different clients arrive, the        *)
(* threads that take them and the point at which a connection ends are     *)
(* open.                                                                   *)
(***************************************************************************)
EXTENDS ChatServer, TLC

CONSTANTS u1, u2, s1, s2, Go, ops, long

MCCollate == Go :> Go @@ ops :> ops @@ long :> long

\* The table holds room Go, and a message in it, when the server starts.
MCInit == /\ Init
          /\ DOMAIN rooms = {Go} /\ rooms[Go].creator_id = u1
          /\ messages # {}
MCSpec == MCInit /\ [][Next]_vars
MCFairSpec == MCInit /\ [][Next]_vars /\ \A w \in Workers : WF_vars(WorkerStep(w))

login(u) == [op |-> "login", arg |-> u]
join(r) == [op |-> "join", arg |-> r]
leave(r) == [op |-> "leave", arg |-> r]
create(r) == [op |-> "create", arg |-> r]
history(r) == [op |-> "history", arg |-> r]
private(u) == [op |-> "private", arg |-> u]
public == [op |-> "public", arg |-> None]

\* Two users who talk, change rooms and ask for what was said.
Talk == s1 :> << {login(u1)}, {join(Go), create(ops)},
                 {join(ops), leave(Go), leave(ops), public, create(long)},
                 {public, history(Go), join(Go), private(u2)} >>
     @@ s2 :> << {login(u2), public}, {join(Go), join(ops)},
                 {public, create(ops), join(ops), history(Go)} >>

\* The same with fewer choices, for two threads.
ShortTalk == s1 :> << {login(u1)}, {join(Go), create(ops)},
                      {join(ops), leave(Go), public, private(u2), history(Go)} >>
          @@ s2 :> << {login(u2), public}, {join(Go), create(ops)} >>

\* A user talks in one room and joins another; the other user stays.
Mover == s1 :> << {login(u1)}, {join(Go)}, {public, create(ops)}, {join(Go), public} >>
      @@ s2 :> << {login(u2)}, {join(Go)} >>
=============================================================================
