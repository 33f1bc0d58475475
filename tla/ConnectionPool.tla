---------------------------- MODULE ConnectionPool --------------------------
(***************************************************************************)
(* The database connection pool (server/src/data/ConnectionPool), used by  *)
(* every repository call, and the run queue of the io_context it shares    *)
(* with the requests: a broken connection is replaced by a task posted to  *)
(* the very threads that wait for connections.                             *)
(*                                                                         *)
(* A worker is a thread in io_context.run().  It takes tasks in FIFO order *)
(* and never gives one up: getConnection blocks the thread.                *)
(*                                                                         *)
(* The operators called variants are slips the code does not make: with a  *)
(* variant in the place of the definition after it, a property fails.      *)
(***************************************************************************)
EXTENDS Integers, Sequences, FiniteSets

CONSTANTS Workers,     \* threads that run the io_context
          PoolSize,    \* connections opened by init
          MaxDown,     \* how many may be broken and not replaced at a time
          MaxCalls,    \* database calls of one request, at most
          QueueBound   \* requests wait for a place in a queue this long

ASSUME PoolAssumption ==
  /\ IsFiniteSet(Workers) /\ Workers # {}
  /\ PoolSize \in Nat \ {0} /\ MaxDown \in Nat
  /\ MaxCalls \in Nat \ {0} /\ QueueBound \in Nat

VARIABLES ConPool,  \* number of connections in the pool's vector
          queue,    \* tasks posted to the io_context and not started
          pc,       \* where each worker is
          calls,    \* database calls each worker's request makes after this
          lost      \* connections whose replacement failed

vars == <<ConPool, queue, pc, calls, lost>>

\* idle: in io_context.run().    get: in getConnection, about to test the
\* predicate with the lock.      waiting: blocked in cv.wait.
\* using: holds a connection.    notify: has unlocked after push_back, before
\* notify_one.                   connect: opening a replacement.
PC == {"idle", "get", "waiting", "using", "notify", "connect"}

TypeOK == /\ ConPool \in 0..PoolSize
          /\ queue \in Seq({"request", "replenish"})
          /\ pc \in [Workers -> PC]
          /\ calls \in [Workers -> 0..(MaxCalls - 1)]
          /\ lost \in 0..PoolSize

Init == /\ ConPool = PoolSize
        /\ queue = <<>>
        /\ pc = [w \in Workers |-> "idle"]
        /\ calls = [w \in Workers |-> 0]
        /\ lost = 0

At(label) == {w \in Workers : pc[w] = label}
Pending == Cardinality({i \in DOMAIN queue : queue[i] = "replenish"})
Down == Pending + Cardinality(At("connect")) + lost

-----------------------------------------------------------------------------
(* The run queue.                                                          *)

\* A client's message is posted by onMessage.
Arrive ==
  /\ Len(queue) < QueueBound
  /\ queue' = Append(queue, "request")
  /\ UNCHANGED <<ConPool, pc, calls, lost>>

TakeRequest(w) ==
  /\ pc[w] = "idle" /\ queue # <<>> /\ Head(queue) = "request"
  /\ queue' = Tail(queue)
  /\ pc' = [pc EXCEPT ![w] = "get"]
  /\ \E n \in 0..(MaxCalls - 1) : calls' = [calls EXCEPT ![w] = n]
  /\ UNCHANGED <<ConPool, lost>>

TakeReplenish(w) ==
  /\ pc[w] = "idle" /\ queue # <<>> /\ Head(queue) = "replenish"
  /\ queue' = Tail(queue)
  /\ pc' = [pc EXCEPT ![w] = "connect"]
  /\ UNCHANGED <<ConPool, calls, lost>>

\* The worker's task goes on to its next database call, or ends.
CallDone(w, p) ==
  IF calls[w] = 0
    THEN pc' = [p EXCEPT ![w] = "idle"] /\ UNCHANGED calls
    ELSE /\ pc' = [p EXCEPT ![w] = "get"]
         /\ calls' = [calls EXCEPT ![w] = @ - 1]

-----------------------------------------------------------------------------
(* getConnection.                                                          *)

GetConnection(w) ==
  /\ pc[w] = "get"
  /\ ConPool > 0
  /\ ConPool' = ConPool - 1
  /\ pc' = [pc EXCEPT ![w] = "using"]
  /\ UNCHANGED <<queue, calls, lost>>

WaitForConnection(w) ==
  /\ pc[w] = "get"
  /\ ConPool = 0
  /\ pc' = [pc EXCEPT ![w] = "waiting"]
  /\ UNCHANGED <<ConPool, queue, calls, lost>>

\* A condition variable may wake a waiter for no reason; the predicate is
\* tested again.
SpuriousWakeup(w) ==
  /\ pc[w] = "waiting"
  /\ pc' = [pc EXCEPT ![w] = "get"]
  /\ UNCHANGED <<ConPool, queue, calls, lost>>

-----------------------------------------------------------------------------
(* ~ConnectionWrapper, returnConnection, replenishConnectionAsync.         *)

\* Variant: nobody is told of the connection that came back.
ReturnUnannounced(w) ==
  /\ pc[w] = "using"
  /\ ConPool' = ConPool + 1
  /\ CallDone(w, pc)
  /\ UNCHANGED <<queue, lost>>

\* The wrapper is valid: push_back under the lock, then unlock.
ReturnConnection(w) ==
  /\ pc[w] = "using"
  /\ ConPool' = ConPool + 1
  /\ pc' = [pc EXCEPT ![w] = "notify"]
  /\ UNCHANGED <<queue, calls, lost>>

\* notify_one, after the unlock.
NotifyOne(w) ==
  /\ pc[w] = "notify"
  /\ \/ /\ At("waiting") = {}
        /\ CallDone(w, pc)
     \/ \E v \in At("waiting") : CallDone(w, [pc EXCEPT ![v] = "get"])
  /\ UNCHANGED <<ConPool, queue, lost>>

\* Variant: a broken connection is closed and forgotten.
DropBroken(w) ==
  /\ pc[w] = "using"
  /\ CallDone(w, pc)
  /\ UNCHANGED <<ConPool, queue, lost>>

\* The call found the connection broken and marked the wrapper invalid: the
\* connection is closed and its replacement posted.
ReplenishConnectionAsync(w) ==
  /\ pc[w] = "using"
  /\ Down < MaxDown
  /\ queue' = Append(queue, "replenish")
  /\ CallDone(w, pc)
  /\ UNCHANGED <<ConPool, lost>>

\* The posted task opens a new connection and gives it to returnConnection.
Reconnect(w) ==
  /\ pc[w] = "connect"
  /\ ConPool' = ConPool + 1
  /\ pc' = [pc EXCEPT ![w] = "notify"]
  /\ calls' = [calls EXCEPT ![w] = 0]
  /\ UNCHANGED <<queue, lost>>

\* The posted task fails and logs; nothing tries again.
ReconnectFails(w) ==
  /\ pc[w] = "connect"
  /\ lost' = lost + 1
  /\ pc' = [pc EXCEPT ![w] = "idle"]
  /\ UNCHANGED <<ConPool, queue, calls>>

-----------------------------------------------------------------------------
WorkerStep(w) ==
  \/ TakeRequest(w) \/ TakeReplenish(w)
  \/ GetConnection(w) \/ WaitForConnection(w)
  \/ ReturnConnection(w) \/ NotifyOne(w)
  \/ ReplenishConnectionAsync(w)
  \/ Reconnect(w) \/ ReconnectFails(w)

Next == Arrive \/ \E w \in Workers : WorkerStep(w) \/ SpuriousWakeup(w)

Spec == Init /\ [][Next]_vars

\* A thread that can go on does; nothing obliges clients to send, nor a
\* condition variable to wake anybody without a notify.
FairSpec == Spec /\ \A w \in Workers : WF_vars(WorkerStep(w))

-----------------------------------------------------------------------------
(* Properties.                                                             *)

\* No connection leaks and none is counted twice: each of those init opened
\* is pooled, in use, waiting to be replaced, being replaced, or lost to a
\* replacement that failed (ConnectionPool.cpp:31-55, ConnectionPool.h:36-46).
Conservation ==
  ConPool + Cardinality(At("using")) + Down = PoolSize

\* notify_one runs after the unlock, so a newcomer may take the connection it
\* announces.  Nevertheless no wakeup is lost: while somebody waits, each
\* pooled connection has a thread on its way to take it or to announce it.
NoLostWakeup ==
  At("waiting") # {} =>
    ConPool <= Cardinality(At("notify")) + Cardinality(At("get"))

\* README.md:17: the pool exists to avoid bottlenecks.  The worst of them
\* would be all threads waiting for a connection, with none left to return
\* one or to run a posted replacement.  Holds while fewer than PoolSize
\* connections are down at a time, and only then.
NoStall == At("waiting") # Workers

\* When a thread waits, some thread gets a connection later.
SomebodyGetsThrough == At("waiting") # {} ~> At("using") # {}
=============================================================================
