------------------------ MODULE ConnectionPoolProofs ------------------------
(***************************************************************************)
(* The connection pool loses no connection and no wakeup, and does not     *)
(* stall while fewer connections than it has are down, for any number of   *)
(* threads and connections.                                                *)
(*                                                                         *)
(* The argument counts.  A step moves one thread, or two for a notify, and *)
(* takes a task from the queue or adds one; so each count changes by one.  *)
(* That the threads do not all wait (NoStall) follows from the others: all *)
(* connections would be down, and no more than MaxDown are (FewDown).      *)
(***************************************************************************)
EXTENDS ConnectionPool, ContainerTheorems

Tasks == {"request", "replenish"}

\* TypeOK but for the upper bounds, which follow from Conservation.
Typed == /\ ConPool \in Nat
         /\ queue \in Seq(Tasks)
         /\ pc \in [Workers -> PC]
         /\ calls \in [Workers -> 0..(MaxCalls - 1)]
         /\ lost \in Nat

FewDown == Down <= MaxDown

IInv == Typed /\ Conservation /\ FewDown /\ NoLostWakeup

-----------------------------------------------------------------------------
(* Counting.                                                               *)

Count(x) == Cardinality(At(x))

\* All counts are numbers.
LEMMA Counts ==
  ASSUME Typed
  PROVE  /\ \A x : Count(x) \in Nat
         /\ Pending \in Nat
<1>1. \A x : At(x) = Placed(pc, Workers, x)
  BY DEF At, Placed
<1>2. Pending = Cardinality(Positions(queue, "replenish"))
  BY DEF Pending, Positions
<1> QED
  BY <1>1, <1>2, PlacedFinite, PositionsFinite, PoolAssumption DEF Typed, Count

\* The same after a step.
LEMMA CountsNext ==
  ASSUME Typed'
  PROVE  /\ \A x : Count(x)' \in Nat
         /\ Pending' \in Nat
<1>1. \A x : At(x)' = Placed(pc', Workers, x)
  BY DEF At, Placed
<1>2. Pending' = Cardinality(Positions(queue', "replenish"))
  BY DEF Pending, Positions
<1> QED
  BY <1>1, <1>2, PlacedFinite, PositionsFinite, PoolAssumption DEF Typed, Count

\* A thread that moves is one less where it was and one more where it goes.
LEMMA OneMoves ==
  ASSUME Typed, NEW w \in Workers, NEW v \in PC, pc' = [pc EXCEPT ![w] = v], NEW x
  PROVE  Count(x)' = Count(x) - (IF pc[w] = x THEN 1 ELSE 0) + (IF v = x THEN 1 ELSE 0)
<1>1. PICK q : q = [pc EXCEPT ![w] = v]
  OBVIOUS
<1>2. At(x) = Placed(pc, Workers, x) /\ At(x)' = Placed(q, Workers, x)
  BY <1>1 DEF At, Placed
<1>3. OnlyMoves(pc, q, Workers, w) /\ q[w] = v
  BY <1>1 DEF Typed, OnlyMoves
<1>4. Cardinality(Placed(q, Workers, x)) =
        Cardinality(Placed(pc, Workers, x))
          - (IF pc[w] = x THEN 1 ELSE 0) + (IF q[w] = x THEN 1 ELSE 0)
  BY <1>3, PoolAssumption, MoveCount
<1> QED
  BY <1>2, <1>3, <1>4 DEF Count

\* A thread that wakes another and goes on (ConnectionPool.cpp:42).
LEMMA TwoMove ==
  ASSUME Typed, NEW w, NEW u, NEW p, OnlyMoves(pc, p, Workers, u),
         OnlyMoves(p, pc', Workers, w), NEW x
  PROVE  Count(x)' = Count(x) - (IF p[w] = x THEN 1 ELSE 0) + (IF pc'[w] = x THEN 1 ELSE 0)
                              - (IF pc[u] = x THEN 1 ELSE 0) + (IF p[u] = x THEN 1 ELSE 0)
<1>1. PICK q : q = pc'
  OBVIOUS
<1>2. At(x) = Placed(pc, Workers, x) /\ At(x)' = Placed(q, Workers, x)
  BY <1>1 DEF At, Placed
<1>3. OnlyMoves(p, q, Workers, w)
  BY <1>1
<1>4. Cardinality(Placed(p, Workers, x)) =
        Cardinality(Placed(pc, Workers, x))
          - (IF pc[u] = x THEN 1 ELSE 0) + (IF p[u] = x THEN 1 ELSE 0)
  BY PoolAssumption, MoveCount
<1>5. Cardinality(Placed(q, Workers, x)) =
        Cardinality(Placed(p, Workers, x))
          - (IF p[w] = x THEN 1 ELSE 0) + (IF q[w] = x THEN 1 ELSE 0)
  BY <1>3, PoolAssumption, MoveCount
<1>6. Cardinality(Placed(pc, Workers, x)) \in Nat
  BY PoolAssumption, PlacedFinite
<1> QED
  BY <1>1, <1>2, <1>4, <1>5, <1>6 DEF Count

\* Posting and taking tasks.
LEMMA PostedCount ==
  ASSUME Typed, NEW e \in Tasks, queue' = Append(queue, e)
  PROVE  Pending' = Pending + (IF e = "replenish" THEN 1 ELSE 0) /\ queue' \in Seq(Tasks)
<1>1. /\ Pending = Cardinality(Positions(queue, "replenish"))
      /\ Pending' = Cardinality(Positions(queue', "replenish"))
  BY DEF Pending, Positions
<1>2. queue \in Seq(Tasks)
  BY DEF Typed
<1> QED
  BY <1>1, <1>2, AppendCount

\* A task taken from the front of the queue.
LEMMA TakeCount ==
  ASSUME Typed, queue # <<>>, queue' = Tail(queue)
  PROVE  /\ Pending' = Pending - (IF Head(queue) = "replenish" THEN 1 ELSE 0)
         /\ queue' \in Seq(Tasks)
<1>1. /\ Pending = Cardinality(Positions(queue, "replenish"))
      /\ Pending' = Cardinality(Positions(queue', "replenish"))
  BY DEF Pending, Positions
<1>2. queue \in Seq(Tasks)
  BY DEF Typed
<1> QED
  BY <1>1, <1>2, TailCount

\* What waits after a thread has moved elsewhere, waited before.
LEMMA NoNewWaiter ==
  ASSUME Typed, NEW w \in Workers, NEW v \in PC \ {"waiting"},
         pc' = [pc EXCEPT ![w] = v], At("waiting")' # {}
  PROVE  At("waiting") # {}
BY DEF At, Typed

\* The task of a thread goes on to its next call, or ends.
LEMMA CallDoneMoves ==
  ASSUME Typed, NEW w \in Workers, NEW p \in [Workers -> PC], CallDone(w, p)
  PROVE  /\ \E v \in {"idle", "get"} : pc' = [p EXCEPT ![w] = v]
         /\ pc' \in [Workers -> PC]
         /\ calls' \in [Workers -> 0..(MaxCalls - 1)]
<1>1. calls[w] \in 0..(MaxCalls - 1) /\ MaxCalls \in Nat
  BY PoolAssumption DEF Typed
<1>2. CASE calls[w] = 0
  BY <1>2 DEF CallDone, Typed, PC
<1>3. CASE calls[w] # 0
  BY <1>1, <1>3 DEF CallDone, Typed, PC
<1> QED
  BY <1>2, <1>3

-----------------------------------------------------------------------------
(* The inductive invariant.                                                *)

\* init opens PoolSize connections and nobody waits (ConnectionPool.h:16-27).
LEMMA InitIInv == Init => IInv
<1> SUFFICES ASSUME Init PROVE IInv
  OBVIOUS
<1>1. At("using") = {} /\ At("connect") = {} /\ At("waiting") = {}
  BY DEF Init, At
<1>2. {i \in DOMAIN queue : queue[i] = "replenish"} = {}
  BY DEF Init
<1>3. Pending = 0 /\ Cardinality(At("using")) = 0 /\ Cardinality(At("connect")) = 0
  BY <1>1, <1>2, FS_EmptySet DEF Pending
<1>4. Typed
  BY PoolAssumption DEF Init, Typed, Tasks, PC
<1> QED
  BY <1>1, <1>3, <1>4, PoolAssumption
     DEF IInv, Init, Conservation, FewDown, Down, NoLostWakeup

\* What a step has to keep, once the counts are named.
LEMMA ByCounts ==
  ASSUME IInv, Typed',
         ConPool' + Count("using")' + (Pending' + Count("connect")' + lost')
           = ConPool + Count("using") + (Pending + Count("connect") + lost),
         Pending' + Count("connect")' + lost' <= Pending + Count("connect") + lost
           \/ Pending' + Count("connect")' + lost' <= MaxDown,
         At("waiting")' # {} =>
           \/ At("waiting") # {} /\ ConPool' + Count("notify") + Count("get")
                                      <= ConPool + Count("notify")' + Count("get")'
           \/ ConPool' = 0
  PROVE  IInv'
<1> USE DEF Count
<1>1. /\ ConPool + Count("using") + (Pending + Count("connect") + lost) = PoolSize
      /\ Pending + Count("connect") + lost <= MaxDown
      /\ At("waiting") # {} => ConPool <= Count("notify") + Count("get")
  BY DEF IInv, Conservation, FewDown, NoLostWakeup, Down
<1>2. /\ Pending \in Nat /\ Count("connect") \in Nat /\ lost \in Nat /\ ConPool \in Nat
      /\ Count("notify") \in Nat /\ Count("get") \in Nat
  BY Counts DEF IInv, Typed
<1>3. /\ Pending' \in Nat /\ Count("connect")' \in Nat /\ lost' \in Nat /\ ConPool' \in Nat
      /\ Count("notify")' \in Nat /\ Count("get")' \in Nat
  BY CountsNext DEF Typed
<1>4. Conservation'
  BY <1>1 DEF Conservation, Down
<1>5. FewDown'
  BY <1>1, <1>2, <1>3, PoolAssumption DEF FewDown, Down
<1>6. NoLostWakeup'
  BY <1>1, <1>2, <1>3 DEF NoLostWakeup
<1> QED
  BY <1>4, <1>5, <1>6 DEF IInv

\* The counts of one state, as numbers.
LEMMA Numbers ==
  ASSUME IInv
  PROVE  /\ Pending \in Nat /\ lost \in Nat /\ ConPool \in Nat /\ Count("using") \in Nat
         /\ Count("connect") \in Nat /\ Count("notify") \in Nat /\ Count("get") \in Nat
BY Counts DEF IInv, Typed

\* The same after a step.
LEMMA NumbersNext ==
  ASSUME Typed'
  PROVE  /\ Pending' \in Nat /\ lost' \in Nat /\ ConPool' \in Nat /\ Count("using")' \in Nat
         /\ Count("connect")' \in Nat /\ Count("notify")' \in Nat /\ Count("get")' \in Nat
BY CountsNext DEF Typed

\* A step that posts and takes no task leaves the pending replacements.
LEMMA SamePending ==
  ASSUME UNCHANGED queue
  PROVE  Pending' = Pending
BY DEF Pending

\* onMessage posts a request: no connection and no thread moves.
LEMMA ArriveKeeps ==
  ASSUME IInv, Arrive
  PROVE  IInv'
<1>1. Pending' = Pending /\ queue' \in Seq(Tasks)
  BY PostedCount, Numbers DEF IInv, Arrive, Tasks
<1>2. /\ At("waiting")' = At("waiting")
      /\ Count("using")' = Count("using") /\ Count("connect")' = Count("connect")
      /\ Count("notify")' = Count("notify") /\ Count("get")' = Count("get")
  BY DEF Arrive, At, Count
<1>3. Typed'
  BY <1>1 DEF IInv, Typed, Arrive
<1>4. ConPool' = ConPool /\ lost' = lost
  BY DEF Arrive
<1> QED
  BY <1>1, <1>2, <1>3, <1>4, Numbers, ByCounts

\* A thread takes a request and goes to getConnection.
LEMMA TakeRequestKeeps ==
  ASSUME IInv, NEW w \in Workers, TakeRequest(w)
  PROVE  IInv'
<1>1. Pending' = Pending /\ queue' \in Seq(Tasks)
  BY TakeCount, Numbers DEF IInv, TakeRequest
<1>2. pc' = [pc EXCEPT ![w] = "get"] /\ pc[w] = "idle"
  BY DEF TakeRequest
<1>3. \A x : Count(x)' = Count(x) - (IF "idle" = x THEN 1 ELSE 0) + (IF "get" = x THEN 1 ELSE 0)
  BY <1>2, OneMoves DEF IInv, PC
<1>4. /\ Count("using")' = Count("using") /\ Count("connect")' = Count("connect")
      /\ Count("notify")' = Count("notify") /\ Count("get")' = Count("get") + 1
  BY <1>3, Numbers
<1>5. ConPool' = ConPool /\ lost' = lost
  BY DEF TakeRequest
<1>6. Typed'
  BY <1>1, <1>2 DEF IInv, Typed, TakeRequest, PC
<1>7. At("waiting")' # {} => At("waiting") # {}
  BY <1>2, NoNewWaiter DEF IInv, PC
<1> QED
  BY <1>1, <1>4, <1>5, <1>6, <1>7, Numbers, ByCounts

\* A thread takes a posted replacement (ConnectionPool.cpp:46-55).
LEMMA TakeReplenishKeeps ==
  ASSUME IInv, NEW w \in Workers, TakeReplenish(w)
  PROVE  IInv'
<1>1. Pending' = Pending - 1 /\ queue' \in Seq(Tasks)
  BY TakeCount, Numbers DEF IInv, TakeReplenish
<1>2. pc' = [pc EXCEPT ![w] = "connect"] /\ pc[w] = "idle"
  BY DEF TakeReplenish
<1>3. \A x : Count(x)' = Count(x) - (IF "idle" = x THEN 1 ELSE 0) + (IF "connect" = x THEN 1 ELSE 0)
  BY <1>2, OneMoves DEF IInv, PC
<1>4. /\ Count("using")' = Count("using") /\ Count("connect")' = Count("connect") + 1
      /\ Count("notify")' = Count("notify") /\ Count("get")' = Count("get")
  BY <1>3, Numbers
<1>5. ConPool' = ConPool /\ lost' = lost
  BY DEF TakeReplenish
<1>6. Typed'
  BY <1>1, <1>2 DEF IInv, Typed, TakeReplenish, PC
<1>7. At("waiting")' # {} => At("waiting") # {}
  BY <1>2, NoNewWaiter DEF IInv, PC
<1>8. Pending' + Count("connect")' + lost' = Pending + Count("connect") + lost
  BY <1>1, <1>4, <1>5, Numbers
<1>9. ConPool' + Count("notify") + Count("get") = ConPool + Count("notify")' + Count("get")'
  BY <1>4, <1>5, Numbers
<1> QED
  BY <1>4, <1>5, <1>6, <1>7, <1>8, <1>9, Numbers, NumbersNext, ByCounts

\* A connection is taken: one thread less is on its way to one.
LEMMA GetConnectionKeeps ==
  ASSUME IInv, NEW w \in Workers, GetConnection(w)
  PROVE  IInv'
<1>1. Pending' = Pending /\ queue' = queue
  BY SamePending DEF IInv, GetConnection
<1>2. pc' = [pc EXCEPT ![w] = "using"] /\ pc[w] = "get"
  BY DEF GetConnection
<1>3. \A x : Count(x)' = Count(x) - (IF "get" = x THEN 1 ELSE 0) + (IF "using" = x THEN 1 ELSE 0)
  BY <1>2, OneMoves DEF IInv, PC
<1>4. /\ Count("using")' = Count("using") + 1 /\ Count("connect")' = Count("connect")
      /\ Count("notify")' = Count("notify") /\ Count("get")' = Count("get") - 1
  BY <1>3, Numbers
<1>5. ConPool > 0 /\ ConPool' = ConPool - 1 /\ lost' = lost
  BY DEF GetConnection
<1>6. Typed'
  BY <1>1, <1>2, <1>5, Numbers DEF IInv, Typed, GetConnection, PC
<1>7. At("waiting")' # {} => At("waiting") # {}
  BY <1>2, NoNewWaiter DEF IInv, PC
<1>8. ConPool' + Count("using")' + (Pending' + Count("connect")' + lost')
        = ConPool + Count("using") + (Pending + Count("connect") + lost)
  BY <1>1, <1>4, <1>5, Numbers
<1>9. Pending' + Count("connect")' + lost' <= Pending + Count("connect") + lost
  BY <1>1, <1>4, <1>5, Numbers
<1>10. ConPool' + Count("notify") + Count("get") <= ConPool + Count("notify")' + Count("get")'
  BY <1>4, <1>5, Numbers
<1> QED
  BY <1>6, <1>7, <1>8, <1>9, <1>10, ByCounts

\* A thread waits only when the pool is empty, and then nothing is to announce.
LEMMA WaitKeeps ==
  ASSUME IInv, NEW w \in Workers, WaitForConnection(w)
  PROVE  IInv'
<1>1. Pending' = Pending /\ queue' = queue
  BY SamePending DEF IInv, WaitForConnection
<1>2. pc' = [pc EXCEPT ![w] = "waiting"] /\ pc[w] = "get"
  BY DEF WaitForConnection
<1>3. \A x : Count(x)' = Count(x) - (IF "get" = x THEN 1 ELSE 0) + (IF "waiting" = x THEN 1 ELSE 0)
  BY <1>2, OneMoves DEF IInv, PC
<1>4. /\ Count("using")' = Count("using") /\ Count("connect")' = Count("connect")
      /\ Count("notify")' = Count("notify") /\ Count("get")' = Count("get") - 1
  BY <1>3, Numbers
<1>5. ConPool = 0 /\ ConPool' = ConPool /\ lost' = lost
  BY DEF WaitForConnection
<1>6. Typed'
  BY <1>1, <1>2 DEF IInv, Typed, WaitForConnection, PC
<1> QED
  BY <1>1, <1>4, <1>5, <1>6, Numbers, ByCounts

\* A waiter that wakes for no reason is on its way to the connections again.
LEMMA SpuriousKeeps ==
  ASSUME IInv, NEW w \in Workers, SpuriousWakeup(w)
  PROVE  IInv'
<1>1. Pending' = Pending /\ queue' = queue
  BY SamePending DEF IInv, SpuriousWakeup
<1>2. pc' = [pc EXCEPT ![w] = "get"] /\ pc[w] = "waiting"
  BY DEF SpuriousWakeup
<1>3. \A x : Count(x)' = Count(x) - (IF "waiting" = x THEN 1 ELSE 0) + (IF "get" = x THEN 1 ELSE 0)
  BY <1>2, OneMoves DEF IInv, PC
<1>4. /\ Count("using")' = Count("using") /\ Count("connect")' = Count("connect")
      /\ Count("notify")' = Count("notify") /\ Count("get")' = Count("get") + 1
  BY <1>3, Numbers
<1>5. ConPool' = ConPool /\ lost' = lost
  BY DEF SpuriousWakeup
<1>6. Typed'
  BY <1>1, <1>2 DEF IInv, Typed, SpuriousWakeup, PC
<1>7. At("waiting")' # {} => At("waiting") # {}
  BY <1>2, NoNewWaiter DEF IInv, PC
<1> QED
  BY <1>1, <1>4, <1>5, <1>6, <1>7, Numbers, ByCounts

\* What comes back is announced by the thread that returned it.
LEMMA ReturnKeeps ==
  ASSUME IInv, NEW w \in Workers, ReturnConnection(w)
  PROVE  IInv'
<1>1. Pending' = Pending /\ queue' = queue
  BY SamePending DEF IInv, ReturnConnection
<1>2. pc' = [pc EXCEPT ![w] = "notify"] /\ pc[w] = "using"
  BY DEF ReturnConnection
<1>3. \A x : Count(x)' = Count(x) - (IF "using" = x THEN 1 ELSE 0) + (IF "notify" = x THEN 1 ELSE 0)
  BY <1>2, OneMoves DEF IInv, PC
<1>4. /\ Count("using")' = Count("using") - 1 /\ Count("connect")' = Count("connect")
      /\ Count("notify")' = Count("notify") + 1 /\ Count("get")' = Count("get")
  BY <1>3, Numbers
<1>5. ConPool' = ConPool + 1 /\ lost' = lost
  BY DEF ReturnConnection
<1>6. Typed'
  BY <1>1, <1>2, <1>5, Numbers DEF IInv, Typed, ReturnConnection, PC
<1>7. At("waiting")' # {} => At("waiting") # {}
  BY <1>2, NoNewWaiter DEF IInv, PC
<1> QED
  BY <1>1, <1>4, <1>5, <1>6, <1>7, Numbers, ByCounts

\* A replacement is announced like any connection.
LEMMA ReconnectKeeps ==
  ASSUME IInv, NEW w \in Workers, Reconnect(w)
  PROVE  IInv'
<1>1. Pending' = Pending /\ queue' = queue
  BY SamePending DEF IInv, Reconnect
<1>2. pc' = [pc EXCEPT ![w] = "notify"] /\ pc[w] = "connect"
  BY DEF Reconnect
<1>3. \A x : Count(x)' = Count(x) - (IF "connect" = x THEN 1 ELSE 0) + (IF "notify" = x THEN 1 ELSE 0)
  BY <1>2, OneMoves DEF IInv, PC
<1>4. /\ Count("using")' = Count("using") /\ Count("connect")' = Count("connect") - 1
      /\ Count("notify")' = Count("notify") + 1 /\ Count("get")' = Count("get")
  BY <1>3, Numbers
<1>5. ConPool' = ConPool + 1 /\ lost' = lost
  BY DEF Reconnect
<1>6. Typed'
  BY <1>1, <1>2, <1>5, Numbers, PoolAssumption DEF IInv, Typed, Reconnect, PC
<1>7. At("waiting")' # {} => At("waiting") # {}
  BY <1>2, NoNewWaiter DEF IInv, PC
<1> QED
  BY <1>1, <1>4, <1>5, <1>6, <1>7, Numbers, ByCounts

\* A replacement that fails leaves its connection down for good.
LEMMA ReconnectFailsKeeps ==
  ASSUME IInv, NEW w \in Workers, ReconnectFails(w)
  PROVE  IInv'
<1>1. Pending' = Pending /\ queue' = queue
  BY SamePending DEF IInv, ReconnectFails
<1>2. pc' = [pc EXCEPT ![w] = "idle"] /\ pc[w] = "connect"
  BY DEF ReconnectFails
<1>3. \A x : Count(x)' = Count(x) - (IF "connect" = x THEN 1 ELSE 0) + (IF "idle" = x THEN 1 ELSE 0)
  BY <1>2, OneMoves DEF IInv, PC
<1>4. /\ Count("using")' = Count("using") /\ Count("connect")' = Count("connect") - 1
      /\ Count("notify")' = Count("notify") /\ Count("get")' = Count("get")
  BY <1>3, Numbers
<1>5. ConPool' = ConPool /\ lost' = lost + 1
  BY DEF ReconnectFails
<1>6. Typed'
  BY <1>1, <1>2, <1>5, Numbers DEF IInv, Typed, ReconnectFails, PC
<1>7. At("waiting")' # {} => At("waiting") # {}
  BY <1>2, NoNewWaiter DEF IInv, PC
<1> QED
  BY <1>1, <1>4, <1>5, <1>6, <1>7, Numbers, ByCounts

\* notify_one: with nobody waiting nothing more is to be done; otherwise a
\* waiter is on its way to the connections in the notifier's place.
LEMMA NotifyKeeps ==
  ASSUME IInv, NEW w \in Workers, NotifyOne(w)
  PROVE  IInv'
<1>1. /\ Pending' = Pending /\ queue' = queue /\ ConPool' = ConPool /\ lost' = lost
      /\ pc[w] = "notify"
  BY SamePending DEF NotifyOne
<1>2. pc \in [Workers -> PC]
  BY DEF IInv, Typed
<1>3. CASE At("waiting") = {} /\ CallDone(w, pc)
  <2>1. PICK v \in {"idle", "get"} : pc' = [pc EXCEPT ![w] = v]
    BY <1>2, <1>3, CallDoneMoves DEF IInv
  <2>2. \A x : Count(x)' = Count(x) - (IF "notify" = x THEN 1 ELSE 0) + (IF v = x THEN 1 ELSE 0)
    BY <1>1, <2>1, OneMoves DEF IInv, PC
  <2>3. Count("using")' = Count("using") /\ Count("connect")' = Count("connect")
    BY <2>2, Numbers
  <2>4. Typed'
    BY <1>1, <1>2, <1>3, CallDoneMoves DEF IInv, Typed
  <2>5. At("waiting")' = {}
    BY <1>3, <2>1, NoNewWaiter DEF IInv, PC
  <2> QED
    BY <1>1, <2>3, <2>4, <2>5, Numbers, ByCounts
<1>4. CASE \E u \in At("waiting") : CallDone(w, [pc EXCEPT ![u] = "get"])
  <2>1. PICK u \in At("waiting") : CallDone(w, [pc EXCEPT ![u] = "get"])
    BY <1>4
  <2>2. PICK p : p = [pc EXCEPT ![u] = "get"]
    OBVIOUS
  <2>3. u \in Workers /\ pc[u] = "waiting" /\ u # w /\ p \in [Workers -> PC]
    BY <1>1, <1>2, <2>2 DEF At, PC
  <2>4. PICK v \in {"idle", "get"} : pc' = [p EXCEPT ![w] = v]
    BY <2>1, <2>2, <2>3, CallDoneMoves DEF IInv
  <2>5. \A x : Count(x)' = Count(x)
                 - (IF "notify" = x THEN 1 ELSE 0) + (IF v = x THEN 1 ELSE 0)
                 - (IF "waiting" = x THEN 1 ELSE 0) + (IF "get" = x THEN 1 ELSE 0)
    <3>1. /\ OnlyMoves(pc, p, Workers, u) /\ OnlyMoves(p, pc', Workers, w)
          /\ p[w] = "notify" /\ pc'[w] = v /\ pc[u] = "waiting" /\ p[u] = "get"
      BY <1>1, <1>2, <2>2, <2>3, <2>4 DEF OnlyMoves
    <3>2. Typed
      BY DEF IInv
    <3> QED
      BY <3>1, <3>2, TwoMove
  <2>6. /\ Count("using")' = Count("using") /\ Count("connect")' = Count("connect")
        /\ Count("notify") + Count("get") <= Count("notify")' + Count("get")'
    BY <2>5, Numbers
  <2>7. Typed'
    BY <1>1, <1>2, <2>1, <2>2, <2>3, CallDoneMoves DEF IInv, Typed
  <2>8. At("waiting") # {}
    BY <2>1
  <2>9. ConPool' + Count("notify") + Count("get") <= ConPool + Count("notify")' + Count("get")'
    BY <1>1, <2>6, <2>7, Numbers, NumbersNext
  <2> QED
    BY <1>1, <2>6, <2>7, <2>8, <2>9, Numbers, ByCounts
<1> QED
  BY <1>3, <1>4 DEF NotifyOne

\* A broken connection is replaced by a task posted while fewer than MaxDown
\* are down; its thread was on its way to no connection.
LEMMA ReplenishKeeps ==
  ASSUME IInv, NEW w \in Workers, ReplenishConnectionAsync(w)
  PROVE  IInv'
<1>1. Pending' = Pending + 1 /\ queue' \in Seq(Tasks)
  BY PostedCount DEF IInv, ReplenishConnectionAsync, Tasks
<1>2. ConPool' = ConPool /\ lost' = lost /\ pc[w] = "using" /\ Down < MaxDown
  BY DEF ReplenishConnectionAsync
<1>3. /\ pc' \in [Workers -> PC]
      /\ calls' \in [Workers -> 0..(MaxCalls - 1)]
      /\ \E v \in {"idle", "get"} : pc' = [pc EXCEPT ![w] = v]
  BY CallDoneMoves DEF IInv, Typed, ReplenishConnectionAsync
<1>4. PICK v \in {"idle", "get"} : pc' = [pc EXCEPT ![w] = v]
  BY <1>3
<1>5. \A x : Count(x)' = Count(x) - (IF "using" = x THEN 1 ELSE 0) + (IF v = x THEN 1 ELSE 0)
  BY <1>2, <1>4, OneMoves DEF IInv, PC
<1>6. /\ Count("using")' = Count("using") - 1 /\ Count("connect")' = Count("connect")
      /\ Count("notify")' = Count("notify") /\ Count("get") <= Count("get")'
  BY <1>5, Numbers
<1>7. Typed'
  BY <1>1, <1>2, <1>3 DEF IInv, Typed
<1>8. At("waiting")' # {} => At("waiting") # {}
  BY <1>4, NoNewWaiter DEF IInv, PC
<1>9. Pending' + Count("connect")' + lost' <= MaxDown
  BY <1>1, <1>2, <1>6, Numbers, PoolAssumption DEF Down, Count
<1>10. ConPool' + Count("notify") + Count("get") <= ConPool + Count("notify")' + Count("get")'
  BY <1>2, <1>6, <1>7, Numbers, NumbersNext
<1>11. ConPool' + Count("using")' + (Pending' + Count("connect")' + lost')
         = ConPool + Count("using") + (Pending + Count("connect") + lost)
  <2>1. Count("using")' = Count("using") - 1 /\ Pending' = Pending + 1
    BY <1>1, <1>6
  <2>2. ConPool' = ConPool /\ Count("connect")' = Count("connect") /\ lost' = lost
    BY <1>2, <1>6
  <2> QED
    BY <2>1, <2>2, Numbers
<1> QED
  BY <1>7, <1>8, <1>9, <1>10, <1>11, ByCounts

-----------------------------------------------------------------------------
(* What holds of the pool.                                                 *)

\* Every step of a thread, of a client and of a condition variable preserves
\* the invariant.
LEMMA NextIInv == IInv /\ [Next]_vars => IInv'
<1> SUFFICES ASSUME IInv, [Next]_vars PROVE IInv'
  OBVIOUS
<1>1. CASE UNCHANGED vars
  BY <1>1 DEF vars, IInv, Typed, Conservation, FewDown, NoLostWakeup, Down, Pending, At
<1>2. CASE Arrive
  BY <1>2, ArriveKeeps
<1>3. ASSUME NEW w \in Workers, WorkerStep(w) PROVE IInv'
  BY <1>3, TakeRequestKeeps, TakeReplenishKeeps, GetConnectionKeeps, WaitKeeps, ReturnKeeps,
     NotifyKeeps, ReplenishKeeps, ReconnectKeeps, ReconnectFailsKeeps DEF WorkerStep
<1>4. ASSUME NEW w \in Workers, SpuriousWakeup(w) PROVE IInv'
  BY <1>4, SpuriousKeeps
<1> QED
  BY <1>1, <1>2, <1>3, <1>4 DEF Next

\* The invariant holds throughout.
THEOREM Invariance == Spec => []IInv
BY InitIInv, NextIInv, PTL DEF Spec

\* No connection is leaked and none is counted twice, whatever breaks
\* (ConnectionPool.cpp:31-55).
THEOREM Conserved == Spec => []Conservation
<1>1. IInv => Conservation
  BY DEF IInv
<1> QED
  BY <1>1, Invariance, PTL

\* notify_one after the unlock loses no wakeup (ConnectionPool.cpp:38-43).
THEOREM NoWakeupLost == Spec => []NoLostWakeup
<1>1. IInv => NoLostWakeup
  BY DEF IInv
<1> QED
  BY <1>1, Invariance, PTL

\* The vector never holds more than init opened, nor have more been lost.
THEOREM TypeCorrect == Spec => []TypeOK
<1>1. IInv => TypeOK
  <2> SUFFICES ASSUME IInv PROVE TypeOK
    OBVIOUS
  <2>1. ConPool + Count("using") + (Pending + Count("connect") + lost) = PoolSize
    BY DEF IInv, Conservation, Down, Count
  <2>2. ConPool \in 0..PoolSize /\ lost \in 0..PoolSize
    BY <2>1, Numbers, PoolAssumption
  <2> QED
    BY <2>2 DEF IInv, Typed, TypeOK, Tasks
<1> QED
  BY <1>1, Invariance, PTL

\* With fewer connections down than the pool has, the threads never all wait
\* for one (ConnectionPool.cpp:15-28): else none would be pooled nor in use.
THEOREM NeverStalls == MaxDown < PoolSize => (Spec => []NoStall)
<1> SUFFICES ASSUME MaxDown < PoolSize PROVE Spec => []NoStall
  OBVIOUS
<1>1. IInv => NoStall
  <2> SUFFICES ASSUME IInv, At("waiting") = Workers PROVE FALSE
    BY DEF NoStall
  <2>1. At("using") = {} /\ At("notify") = {} /\ At("get") = {}
    BY DEF At
  <2>2. Cardinality(At("using")) = 0 /\ Cardinality(At("notify")) = 0 /\ Cardinality(At("get")) = 0
    BY <2>1, FS_EmptySet
  <2>3. ConPool <= 0
    BY <2>2, PoolAssumption DEF IInv, NoLostWakeup
  <2>4. ConPool + 0 + Down = PoolSize /\ Down <= MaxDown
    BY <2>2 DEF IInv, Conservation, FewDown
  <2>5. Down \in Nat
    BY Numbers DEF Down, Count
  <2> QED
    BY <2>3, <2>4, <2>5, Numbers, PoolAssumption
<1> QED
  BY <1>1, Invariance, PTL
=============================================================================
