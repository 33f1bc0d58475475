----------------------------- MODULE ClientProofs ----------------------------
(***************************************************************************)
(* With one thread on its io_context, as the chat client has, a client's   *)
(* write queue is a channel too, and main returns with nothing left over,  *)
(* for any envelopes.                                                      *)
(*                                                                         *)
(* There is no strand: the closure of send() looks at write_queue and adds *)
(* to it in two steps (Look, Push), and only because no other thread runs  *)
(* handlers is what it saw still so (Looked).  The rest is as in a         *)
(* session: InOrder says where each envelope is, OneWrite that a write is  *)
(* in flight when write_queue says so.  With two threads OneWrite fails.   *)
(***************************************************************************)
EXTENDS Client, ContainerTheorems

\* The chat client's main runs the io_context, and nobody else
\* (client main.cpp:136).
OneThread == \A t, v \in Threads : t = v

\* A write is in flight, or just completed, exactly when write_queue has a frame.
OneWrite ==
  /\ writes + Waiting(ready, "written") = IF write_queue = <<>> \/ failed THEN 0 ELSE 1
  /\ failed => write_queue # <<>>

\* The number of envelopes that have come to write_queue, and the one that is
\* about to.
Passed == Len(wire) + Len(write_queue) - Waiting(ready, "written")
Held == IF \E t \in Threads : pushing[t] # Idle THEN 1 ELSE 0

\* The closure of a send() has the next envelope, and is right about the queue.
Looked ==
  \A t \in Threads : pushing[t] # Idle =>
    /\ pushing[t].write_in_progress <=> write_queue # <<>>
    /\ Passed < Len(accepted) /\ pushing[t].m = accepted[Passed + 1]

InOrder ==
  /\ Lined(accepted, ready, Passed + Held)
  /\ Waiting(ready, "written") <= Len(wire)
  /\ \A k \in DOMAIN wire : wire[k] = accepted[k]
  /\ \A k \in DOMAIN write_queue :
       write_queue[k] = accepted[Len(wire) - Waiting(ready, "written") + k]

\* The work guard is released for a reason, and /quit ends the input.
Asked ==
  /\ ~work_guard \/ Waiting(ready, "quit") # 0 \/ Waiting(ready, "close") # 0 => causes # {}
  /\ "quit" \in causes => input = "ended"

\* When main has returned there is nothing left to happen.
Over ==
  process = "returned" =>
    /\ ready = <<>> /\ \A t \in Threads : pushing[t] = Idle
    /\ ~work_guard /\ ~ticking /\ conn # "connecting" /\ writes = 0 /\ ~reading

IInv == TypeOK /\ OneWrite /\ Looked /\ InOrder /\ Asked /\ Over

-----------------------------------------------------------------------------
(* What waits for a thread.                                                *)

\* Completions, and calls to close, carry nothing.
LEMMA OfType ==
  ASSUME NEW k \in Kinds
  PROVE  Of(k) \in Handler /\ Of(k).kind = k /\ k # "send"
BY DEF Of, Handler, Kinds

\* The closure of send() carries its envelope.
LEMMA SendOfType ==
  ASSUME NEW m \in Messages
  PROVE  SendOf(m) \in Handler /\ SendOf(m).kind = "send" /\ SendOf(m).m = m
BY DEF SendOf, Handler

\* Handlers are counted in natural numbers.
LEMMA CountNat ==
  ASSUME NEW q \in Seq(Handler)
  PROVE  \A k : Waiting(q, k) \in Nat
<1>1. Of("tick") \in Handler
  BY OfType DEF Kinds
<1> QED
  BY <1>1, PostCount

\* There is a handler of kind k more in r than in q.
OneMore(q, r, k) == \A l : Waiting(r, l) = Waiting(q, l) + (IF k = l THEN 1 ELSE 0)

\* A completion, or a call to close, is counted and carries nothing.
LEMMA PostOf ==
  ASSUME NEW q \in Seq(Handler), accepted \in Seq(Messages), NEW b, Lined(accepted, q, b),
         NEW k \in Kinds, NEW r, r = Append(q, Of(k))
  PROVE  r \in Seq(Handler) /\ Lined(accepted, r, b) /\ OneMore(q, r, k)
<1>1. PICK h : h = Of(k)
  OBVIOUS
<1>2. h \in Handler /\ h.kind = k /\ h.kind # "send" /\ r = Append(q, h)
  BY <1>1, OfType
<1>3. Lined(accepted, Append(q, h), b)
  BY <1>2, LinedOther
<1>4. \A l : Waiting(Append(q, h), l) = Waiting(q, l) + (IF h.kind = l THEN 1 ELSE 0)
  BY <1>2, PostCount
<1> QED
  BY <1>2, <1>3, <1>4 DEF OneMore

\* The numbers in the invariant.
LEMMA Bounds ==
  ASSUME IInv
  PROVE  /\ \A k : Waiting(ready, k) \in Nat
         /\ Waiting(ready, "written") \in {0, 1} /\ writes \in {0, 1}
         /\ Waiting(ready, "written") <= Len(write_queue)
         /\ Len(wire) \in Nat /\ Len(write_queue) \in Nat /\ Len(accepted) \in Nat
         /\ Passed \in Nat /\ Held \in {0, 1} /\ Passed + Held \in 0..Len(accepted)
         /\ Len(wire) <= Passed
<1>1. \A k : Waiting(ready, k) \in Nat
  BY CountNat DEF IInv, TypeOK
<1>2. Len(wire) \in Nat /\ Len(write_queue) \in Nat /\ Len(accepted) \in Nat
  BY DEF IInv, TypeOK
<1>3. /\ Waiting(ready, "written") \in {0, 1} /\ writes \in {0, 1}
      /\ write_queue = <<>> => Waiting(ready, "written") = 0
  BY <1>1 DEF IInv, TypeOK, OneWrite
<1>4. write_queue # <<>> => Len(write_queue) > 0
  BY DEF IInv, TypeOK
<1>5. Waiting(ready, "written") <= Len(write_queue)
  BY <1>2, <1>3, <1>4
<1>6. Passed + Held \in 0..Len(accepted) /\ Held \in {0, 1}
  BY DEF IInv, InOrder, Lined, Held
<1> QED
  BY <1>1, <1>2, <1>3, <1>5, <1>6 DEF Passed

\* A handler gets its turn; a send() has the envelope that is next.
LEMMA Turns ==
  ASSUME IInv, NEW t \in Threads, NEW k, Turn(t, k), NEW q, q = Tail(ready)
  PROVE  /\ q \in Seq(Handler) /\ ready # <<>> /\ process = "running"
         /\ \A l : Waiting(q, l) = Waiting(ready, l) - (IF k = l THEN 1 ELSE 0)
         /\ Waiting(ready, k) >= 1
         /\ k # "send" => Lined(accepted, q, Passed + Held)
         /\ k = "send" => /\ Passed + Held < Len(accepted)
                          /\ Head(ready).m = accepted[Passed + Held + 1]
                          /\ Lined(accepted, q, Passed + Held + 1)
<1>1. /\ ready \in Seq(Handler) /\ accepted \in Seq(Messages)
      /\ Lined(accepted, ready, Passed + Held)
  BY DEF IInv, TypeOK, InOrder
<1>2. ready # <<>> /\ Head(ready).kind = k /\ process = "running"
  BY DEF Turn
<1>3. q \in Seq(Handler)
  BY <1>1, <1>2
<1>4. \A l : /\ Waiting(q, l) = Waiting(ready, l) - (IF k = l THEN 1 ELSE 0)
             /\ Waiting(q, l) \in Nat /\ Waiting(ready, l) \in Nat
  BY <1>1, <1>2, <1>3, TurnCount, CountNat
<1>5. PICK b : b = Passed + Held
  OBVIOUS
<1> QED
  BY <1>1, <1>2, <1>3, <1>4, <1>5, LinedTail

\* What a handler leaves behind.
LEMMA DoneParts ==
  ASSUME IInv, NEW t \in Threads, NEW k, Turn(t, k)
  PROVE  /\ Done(<<>>) => ready' = Tail(ready)
         /\ \A h \in Handler : Done(<<h>>) => ready' = Append(Tail(ready), h)
<1>1. Tail(ready) \in Seq(Handler)
  BY Turns
<1> QED
  BY <1>1 DEF Done

\* A step that has nothing to do with writing leaves it as it is.
LEMMA OutputKept ==
  ASSUME IInv, UNCHANGED <<accepted, pushing, output>>,
         Waiting(ready', "written") = Waiting(ready, "written"),
         Lined(accepted, ready', Passed + Held)
  PROVE  OneWrite' /\ Looked' /\ InOrder'
<1>1. Passed' = Passed /\ Held' = Held
  BY DEF Passed, Held, output
<1>2. OneWrite' /\ Looked'
  BY <1>1 DEF IInv, OneWrite, Looked, output
<1>3. InOrder'
  BY <1>1 DEF IInv, InOrder, output
<1> QED
  BY <1>2, <1>3

\* An envelope that is given to send() is the last in line, after the handlers
\* in q.
LEMMA SentKept ==
  ASSUME IInv, UNCHANGED <<pushing, output>>, NEW q \in Seq(Handler),
         Waiting(q, "written") = Waiting(ready, "written"),
         Lined(accepted, q, Passed + Held),
         NEW m \in Unsent, accepted' = Append(accepted, m), ready' = Append(q, SendOf(m))
  PROVE  /\ ready' \in Seq(Handler) /\ accepted' \in Seq(Messages)
         /\ \A l : l # "send" => Waiting(ready', l) = Waiting(q, l)
         /\ OneWrite' /\ Looked' /\ InOrder'
<1>1. m \in Messages /\ m \notin Range(accepted)
  BY DEF Unsent
<1>2. PICK h : h = [kind |-> "send", m |-> m]
  OBVIOUS
<1>3. h \in Handler /\ h.kind = "send" /\ ready' = Append(q, h)
  BY <1>1, <1>2 DEF SendOf, Handler
<1>4. ready' \in Seq(Handler) /\ accepted \in Seq(Messages) /\ accepted' \in Seq(Messages)
  BY <1>1, <1>3 DEF IInv, TypeOK
<1>5. \A l : l # "send" => Waiting(ready', l) = Waiting(q, l)
  <2>1. \A l : Waiting(Append(q, h), l) = Waiting(q, l) + (IF h.kind = l THEN 1 ELSE 0)
    BY <1>3, PostCount
  <2> QED
    BY <1>3, <2>1, CountNat
<1>6. Passed' = Passed /\ Held' = Held
  BY <1>5 DEF Passed, Held, output
<1>7. Lined(accepted', ready', Passed + Held)
  <2>1. PICK b : b = Passed + Held
    OBVIOUS
  <2>2. Lined(Append(accepted, m), Append(q, [kind |-> "send", m |-> m]), b)
    BY <1>1, <1>2, <1>3, <1>4, <2>1, LinedSend
  <2> QED
    BY <1>2, <1>3, <2>1, <2>2
<1>8. Len(accepted') = Len(accepted) + 1 /\ \A k \in 1..Len(accepted) : accepted'[k] = accepted[k]
  BY <1>4
<1>9. UNCHANGED <<write_queue, writes, wire, failed, pushing>>
  BY DEF output
<1>10. OneWrite'
  BY <1>5, <1>9 DEF IInv, OneWrite
<1>11. Looked'
  <2>1. Passed < Len(accepted) => Passed + 1 \in 1..Len(accepted) /\ Passed < Len(accepted) + 1
    BY Bounds
  <2> QED
    BY <1>6, <1>8, <1>9, <2>1 DEF IInv, Looked
<1>12. \A k \in DOMAIN wire : k \in 1..Len(accepted)
  BY Bounds DEF IInv, TypeOK
<1>13. \A k \in DOMAIN write_queue : Len(wire) - Waiting(ready, "written") + k \in 1..Len(accepted)
  <2>1. \A k \in DOMAIN write_queue : k \in 1..Len(write_queue)
    BY DEF IInv, TypeOK
  <2>2. Waiting(ready, "written") <= Len(wire)
    BY DEF IInv, InOrder
  <2>3. Len(wire) + Len(write_queue) - Waiting(ready, "written") <= Len(accepted)
    BY Bounds DEF Passed
  <2> QED
    BY <2>1, <2>2, <2>3, Bounds
<1>14. InOrder'
  BY <1>5, <1>6, <1>7, <1>8, <1>9, <1>12, <1>13 DEF IInv, InOrder
<1> QED
  BY <1>4, <1>5, <1>10, <1>11, <1>14

-----------------------------------------------------------------------------
(* The input thread, the network and the clock.                            *)

\* After main has returned nothing happens.
LEMMA StillRunning ==
  ASSUME IInv, Next
  PROVE  process # "returned"
<1>1. ASSUME process = "returned" PROVE FALSE
  <2>1. /\ conn # "connecting" /\ writes = 0 /\ ~reading /\ process # "running"
    BY <1>1 DEF IInv, Over
  <2> QED
    BY <2>1 DEF Next, Send, Typing, Quit, EndOfInput, Interrupt, Connects, ConnectFails,
       WriteCompletes, WriteFails, ReadCompletes, ReadFails, Expire, ThreadStep, Look, Push,
       Written, Failed, Connected, PeerGone, Refused, Read, Tick, CallClose, Close, Turn, Return
<1> QED
  BY <1>1

\* The input thread gives an envelope to send().
LEMMA SendKeeps ==
  ASSUME IInv, Next, NEW m \in Messages, Send(m)
  PROVE  IInv'
<1>1. /\ m \in Unsent /\ accepted' = Append(accepted, m) /\ ready' = Append(ready, SendOf(m))
      /\ UNCHANGED <<ticking, pushing, output, socket, life>>
  BY DEF Send
<1>2. ready \in Seq(Handler) /\ Lined(accepted, ready, Passed + Held)
  BY DEF IInv, TypeOK, InOrder
<1>3. /\ ready' \in Seq(Handler) /\ accepted' \in Seq(Messages)
      /\ \A l : l # "send" => Waiting(ready', l) = Waiting(ready, l)
      /\ OneWrite' /\ Looked' /\ InOrder'
  BY <1>1, <1>2, SentKept
<1>4. TypeOK'
  BY <1>1, <1>3 DEF IInv, TypeOK, output, socket, life
<1>5. Asked'
  BY <1>1, <1>3 DEF IInv, Asked, life
<1>6. Over'
  BY <1>1, StillRunning DEF Over, life
<1> QED
  BY <1>3, <1>4, <1>5, <1>6 DEF IInv

\* What other threads and the network post: the completion k of a connect or a
\* read, or a call to close.
LEMMA PostKeeps ==
  ASSUME IInv, Next, NEW k \in Kinds \ {"written"}, ready' = Append(ready, Of(k)),
         UNCHANGED <<ticking, accepted, pushing, output, work_guard, process>>,
         conn' \in {"connecting", "open", "shut"}, reading' \in BOOLEAN,
         received' \in 0..MaxReceived, input' \in {"typing", "ended"},
         causes' \in SUBSET {"quit", "interrupt", "refused"}, causes \subseteq causes',
         k \in {"quit", "close"} => causes' # {}, "quit" \in causes' => input' = "ended"
  PROVE  IInv'
<1>1. /\ ready \in Seq(Handler) /\ accepted \in Seq(Messages)
      /\ Lined(accepted, ready, Passed + Held)
  BY DEF IInv, TypeOK, InOrder
<1>2. PICK b : b = Passed + Held
  OBVIOUS
<1>3. /\ ready' \in Seq(Handler) /\ Lined(accepted, ready', b)
      /\ \A l : l # k => Waiting(ready', l) = Waiting(ready, l)
  <2>1. k \in Kinds
    OBVIOUS
  <2>2. PICK q, r : q = ready /\ r = Append(q, Of(k))
    OBVIOUS
  <2>3. q \in Seq(Handler) /\ Lined(accepted, q, b)
    BY <1>1, <1>2, <2>2
  <2>4. r \in Seq(Handler) /\ Lined(accepted, r, b) /\ OneMore(q, r, k)
    BY <1>1, <2>1, <2>2, <2>3, PostOf
  <2> QED
    BY <1>1, <2>2, <2>4, CountNat DEF OneMore
<1>4. OneWrite' /\ Looked' /\ InOrder'
  BY <1>2, <1>3, OutputKept
<1>5. TypeOK'
  BY <1>3 DEF IInv, TypeOK, output
<1>6. Asked'
  BY <1>3 DEF IInv, Asked
<1>7. Over'
  BY StillRunning DEF Over
<1> QED
  BY <1>4, <1>5, <1>6, <1>7 DEF IInv

\* /quit, a signal, and the end of a connect, of a read or of the timer's wait.
LEMMA EventKeeps ==
  ASSUME IInv, Next,
         Quit \/ Interrupt \/ Connects \/ ConnectFails \/ ReadCompletes \/ ReadFails \/ Expire
  PROVE  IInv'
<1>1. /\ ticking \in BOOLEAN /\ conn \in {"connecting", "open", "shut"} /\ reading \in BOOLEAN
      /\ received \in 0..MaxReceived /\ input \in {"typing", "ended"}
      /\ causes \in SUBSET {"quit", "interrupt", "refused"}
      /\ "quit" \in causes => input = "ended"
  BY DEF IInv, TypeOK, Asked
<1>2. CASE Quit
  <2>1. PICK k \in {"quit", "close"} : ready' = Append(ready, Of(k))
    BY <1>2 DEF Quit
  <2>2. k \in Kinds \ {"written"}
    BY DEF Kinds
  <2>3. /\ causes' = causes \cup {"quit"} /\ input' = "ended"
        /\ UNCHANGED <<ticking, accepted, pushing, output, conn, reading, received, work_guard,
                       process>>
    BY <1>2 DEF Quit, socket
  <2> QED
    BY <1>1, <2>1, <2>2, <2>3, PostKeeps
<1>3. CASE Interrupt
  <2>1. "quit" \in Kinds \ {"written"}
    BY DEF Kinds
  <2>2. /\ ready' = Append(ready, Of("quit")) /\ causes' = causes \cup {"interrupt"}
        /\ UNCHANGED <<ticking, accepted, pushing, output, conn, reading, received, work_guard,
                       input, process>>
    BY <1>3 DEF Interrupt, socket
  <2> QED
    BY <1>1, <2>1, <2>2, PostKeeps
<1>4. CASE Connects \/ ConnectFails \/ ReadCompletes \/ ReadFails \/ Expire
  <2>1. PICK k \in {"connected", "refused", "read", "read_failed", "tick"} :
          ready' = Append(ready, Of(k))
    BY <1>4 DEF Connects, ConnectFails, ReadCompletes, ReadFails, Expire
  <2>2. k \in Kinds \ {"written"}
    BY DEF Kinds
  <2>3. UNCHANGED <<ticking, accepted, pushing, output, work_guard, input, causes, process>>
    BY <1>4 DEF Connects, ConnectFails, ReadCompletes, ReadFails, Expire, life
  <2>4. conn' \in {"connecting", "open", "shut"}
    BY <1>1, <1>4 DEF Connects, ConnectFails, ReadCompletes, ReadFails, Expire, socket
  <2>5. reading' \in BOOLEAN
    BY <1>1, <1>4 DEF Connects, ConnectFails, ReadCompletes, ReadFails, Expire, socket
  <2>6. received' \in 0..MaxReceived
    BY <1>1, <1>4, ClientAssumption
       DEF ClientAssumption, Connects, ConnectFails, ReadCompletes, ReadFails, Expire, socket
  <2> QED
    BY <1>1, <2>1, <2>2, <2>3, <2>4, <2>5, <2>6, PostKeeps
<1> QED
  BY <1>2, <1>3, <1>4

\* The input may end, and main may return when nothing is left to wait for.
LEMMA EndKeeps ==
  ASSUME IInv, EndOfInput \/ Return
  PROVE  IInv'
<1>1. UNCHANGED <<ticking, accepted, ready, pushing, output, socket, work_guard, causes>>
  BY DEF EndOfInput, Return
<1>2. OneWrite' /\ Looked' /\ InOrder'
  BY <1>1, OutputKept DEF IInv, InOrder
<1>3. TypeOK' /\ Asked' /\ Over'
  BY <1>1 DEF IInv, TypeOK, Asked, Over, EndOfInput, Return, Typing, output, socket
<1> QED
  BY <1>2, <1>3 DEF IInv

-----------------------------------------------------------------------------
(* Handlers that do not write.                                             *)

\* A handler that leaves the queue alone, and may have called send() or asked to
\* close.
LEMMA HandlerKeeps ==
  ASSUME IInv, Next, NEW t \in Threads, NEW k \in Kinds \ {"written"}, Turn(t, k),
         UNCHANGED <<ticking, pushing, output, conn, received, work_guard, input>>,
         \/ SendsNone
         \/ SendsOne
         \/ UNCHANGED accepted /\ Done(<<Of("close")>>) /\ causes' # {},
         reading' \in BOOLEAN, causes' \in {causes, causes \cup {"refused"}},
         process' \in {process, "aborted"}
  PROVE  IInv'
<1>1. PICK q : q = Tail(ready)
  OBVIOUS
<1>2. /\ q \in Seq(Handler) /\ Lined(accepted, q, Passed + Held) /\ process = "running"
      /\ Waiting(q, "written") = Waiting(ready, "written")
      /\ \A l : Waiting(q, l) # 0 => Waiting(ready, l) # 0
  <2>1. k # "send"
    BY DEF Kinds
  <2>2. /\ q \in Seq(Handler) /\ Lined(accepted, q, Passed + Held) /\ process = "running"
        /\ \A l : Waiting(q, l) = Waiting(ready, l) - (IF k = l THEN 1 ELSE 0)
        /\ Waiting(ready, k) >= 1
    BY <1>1, <2>1, Turns
  <2>3. \A l : l # k => Waiting(q, l) = Waiting(ready, l)
    BY <2>2, Bounds
  <2> QED
    BY <2>2, <2>3
<1>3. accepted \in Seq(Messages) /\ Of("close") \in Handler /\ "close" \in Kinds
  BY OfType DEF IInv, TypeOK, Kinds
<1>4. /\ ready' \in Seq(Handler) /\ accepted' \in Seq(Messages)
      /\ OneWrite' /\ Looked' /\ InOrder'
      /\ \A l : l # "send" /\ Waiting(ready', l) # 0 =>
                  Waiting(q, l) # 0 \/ (l = "close" /\ causes' # {})
  <2>1. CASE SendsNone
    <3>1. ready' = q /\ accepted' = accepted
      BY <1>1, <2>1, DoneParts DEF SendsNone
    <3> QED
      BY <1>2, <1>3, <3>1, OutputKept
  <2>2. CASE SendsOne
    <3>1. PICK m \in Unsent : accepted' = Append(accepted, m) /\ Done(<<SendOf(m)>>)
      BY <2>2 DEF SendsOne
    <3>2. ready' = Append(q, SendOf(m))
      BY <1>1, <3>1, DoneParts, SendOfType DEF Unsent
    <3> QED
      BY <1>2, <3>1, <3>2, SentKept
  <2>3. CASE UNCHANGED accepted /\ Done(<<Of("close")>>) /\ causes' # {}
    <3>1. PICK b, r : b = Passed + Held /\ r = Append(q, Of("close"))
      OBVIOUS
    <3>2. ready' = r /\ Lined(accepted, q, b)
      BY <1>1, <1>2, <1>3, <2>3, <3>1, DoneParts
    <3>3. r \in Seq(Handler) /\ Lined(accepted, r, b) /\ OneMore(q, r, "close")
      BY <1>2, <1>3, <3>1, <3>2, PostOf
    <3>4. \A l : l # "close" => Waiting(r, l) = Waiting(q, l)
      BY <1>2, <3>3, CountNat DEF OneMore
    <3>5. Waiting(r, "written") = Waiting(ready, "written")
      BY <1>2, <3>4
    <3> QED
      BY <1>3, <2>3, <3>1, <3>2, <3>3, <3>4, <3>5, OutputKept
  <2> QED
    BY <2>1, <2>2, <2>3
<1>5. TypeOK'
  BY <1>4 DEF IInv, TypeOK, output
<1>6. Asked'
  BY <1>2, <1>4 DEF IInv, Asked
<1>7. Over'
  BY <1>2 DEF Over
<1> QED
  BY <1>4, <1>5, <1>6, <1>7 DEF IInv

\* The handlers of the connection, of reads and of the timer, that of a failure,
\* and the one that calls close().
LEMMA QuietKeeps ==
  ASSUME IInv, Next, NEW t \in Threads,
         \/ Failed(t) \/ Connected(t) \/ PeerGone(t) \/ Refused(t)
         \/ Read(t) \/ Tick(t) \/ CallClose(t)
  PROVE  IInv'
<1>1. reading \in BOOLEAN
  BY DEF IInv, TypeOK
<1>2. CASE Failed(t) \/ PeerGone(t)
  <2>1. PICK k \in {"write_failed", "read_failed", "connected"} : Turn(t, k)
    BY <1>2 DEF Failed, PeerGone
  <2>2. k \in Kinds \ {"written"}
    BY DEF Kinds
  <2>3. SendsNone
    BY <1>2 DEF SendsNone, Failed, PeerGone
  <2>4. /\ UNCHANGED <<ticking, pushing, output, conn, reading, received, work_guard, input,
                       causes>>
        /\ process' \in {process, "aborted"}
    BY <1>2 DEF Failed, PeerGone, socket, life
  <2> QED
    BY <1>1, <2>1, <2>2, <2>3, <2>4, HandlerKeeps
<1>3. CASE Connected(t) \/ Read(t) \/ Tick(t)
  <2>1. PICK k \in {"connected", "read", "tick"} : Turn(t, k)
    BY <1>3 DEF Connected, Read, Tick
  <2>2. k \in Kinds \ {"written"}
    BY DEF Kinds
  <2>3. SendsNone \/ SendsOne
    BY <1>3 DEF Connected, Read, Tick
  <2>4. /\ UNCHANGED <<ticking, pushing, output, conn, received, work_guard, input, causes,
                       process>>
        /\ reading' \in BOOLEAN
    BY <1>1, <1>3 DEF Connected, Read, Tick, socket, life
  <2> QED
    BY <2>1, <2>2, <2>3, <2>4, HandlerKeeps
<1>4. CASE Refused(t)
  <2>1. Turn(t, "refused") /\ "refused" \in Kinds \ {"written"}
    BY <1>4 DEF Refused, Kinds
  <2>2. /\ UNCHANGED <<ticking, accepted, pushing, output, conn, reading, received, work_guard,
                       input, process>>
        /\ causes' = causes \cup {"refused"}
    BY <1>4 DEF Refused, socket
  <2>3. SendsNone \/ Done(<<Of("close")>>)
    BY <1>4 DEF Refused, SendsNone
  <2> QED
    BY <1>1, <2>1, <2>2, <2>3, HandlerKeeps
<1>5. CASE CallClose(t)
  <2>1. Turn(t, "quit") /\ "quit" \in Kinds \ {"written"}
    BY <1>5 DEF CallClose, Kinds
  <2>2. /\ UNCHANGED <<ticking, accepted, pushing, output, conn, reading, received, work_guard,
                       input, causes, process>>
        /\ Done(<<Of("close")>>)
    BY <1>5 DEF CallClose, socket, life
  <2>3. Waiting(ready, "quit") >= 1
    BY <2>1, Turns
  <2>4. causes' # {}
    BY <2>2, <2>3 DEF IInv, Asked
  <2> QED
    BY <1>1, <2>1, <2>2, <2>4, HandlerKeeps
<1> QED
  BY <1>2, <1>3, <1>4, <1>5

-----------------------------------------------------------------------------
(* Writing.                                                                *)

\* What is written is the first of the envelopes not on the wire yet.
LEMMA WriteCompletesKeeps ==
  ASSUME IInv, WriteCompletes
  PROVE  IInv'
<1>1. /\ ready \in Seq(Handler) /\ accepted \in Seq(Messages)
      /\ Lined(accepted, ready, Passed + Held) /\ "written" \in Kinds
  BY DEF IInv, TypeOK, InOrder, Kinds
<1>2. PICK b, q, r : b = Passed + Held /\ q = ready /\ r = Append(q, Of("written"))
  OBVIOUS
<1>3. ready' = r /\ q \in Seq(Handler) /\ Lined(accepted, q, b)
  BY <1>1, <1>2 DEF WriteCompletes
<1>4. r \in Seq(Handler) /\ Lined(accepted, r, b) /\ OneMore(q, r, "written")
  BY <1>1, <1>2, <1>3, PostOf
<1>5. \A l : Waiting(ready', l) = Waiting(ready, l) + (IF "written" = l THEN 1 ELSE 0)
  BY <1>2, <1>3, <1>4 DEF OneMore
<1>6. \A l : l # "written" => Waiting(ready', l) = Waiting(ready, l)
  BY <1>5, Bounds
<1>7. /\ writes = 1 /\ ~failed /\ write_queue # <<>> /\ Waiting(ready, "written") = 0
      /\ Waiting(ready', "written") = 1 /\ writes' = 0
  BY <1>5, Bounds DEF IInv, OneWrite, WriteCompletes
<1>8. /\ UNCHANGED <<ticking, accepted, pushing, write_queue, failed, socket, life>>
      /\ wire' = Append(wire, Head(write_queue))
  BY DEF WriteCompletes
<1>9. /\ write_queue \in Seq(Messages) /\ Head(write_queue) \in Messages /\ wire \in Seq(Messages)
      /\ wire' \in Seq(Messages) /\ Len(wire') = Len(wire) + 1
      /\ Head(write_queue) = write_queue[1] /\ 1 \in DOMAIN write_queue
  BY <1>7, <1>8 DEF IInv, TypeOK
<1>10. TypeOK'
  BY <1>3, <1>4, <1>7, <1>8, <1>9 DEF IInv, TypeOK, socket, life
<1>11. OneWrite'
  BY <1>7, <1>8 DEF OneWrite, IInv
<1>12. Passed' = Passed /\ Held' = Held
  <2>1. Passed' = Passed
    BY <1>7, <1>8, <1>9, Bounds DEF Passed
  <2>2. Held' = Held
    BY <1>8 DEF Held
  <2> QED
    BY <2>1, <2>2
<1>13. Looked'
  BY <1>8, <1>12 DEF IInv, Looked
<1>14. InOrder'
  <2>1. \A k \in DOMAIN write_queue : write_queue[k] = accepted[Len(wire) + k]
    BY <1>7, <1>9 DEF IInv, InOrder, TypeOK
  <2>2. \A k \in DOMAIN wire' : wire'[k] = accepted[k]
    BY <1>8, <1>9, <2>1 DEF IInv, InOrder
  <2>3. \A k \in DOMAIN write_queue : Len(wire') - 1 + k = Len(wire) + k
    BY <1>9
  <2>4. Lined(accepted', ready', Passed' + Held')
    BY <1>2, <1>3, <1>4, <1>8, <1>12
  <2>5. \A k \in DOMAIN write_queue :
          write_queue[k] = accepted[Len(wire') - Waiting(ready', "written") + k]
    BY <1>7, <2>1, <2>3
  <2>6. Waiting(ready', "written") <= Len(wire')
    BY <1>7, <1>9, Bounds
  <2> QED
    BY <1>8, <2>2, <2>4, <2>5, <2>6 DEF InOrder
<1>15. Asked'
  BY <1>6, <1>8 DEF IInv, Asked, life
<1>16. Over'
  BY <1>7, <1>8 DEF IInv, Over, life
<1> QED
  BY <1>10, <1>11, <1>13, <1>14, <1>15, <1>16 DEF IInv

\* Nothing is in flight any more, and the frames that are left stay where they are.
LEMMA FailureKeeps ==
  ASSUME IInv, NEW q, q = ready', q \in Seq(Handler), writes > 0, writes' = 0, failed' = TRUE,
         UNCHANGED <<accepted, pushing, write_queue, wire>>,
         Waiting(q, "written") = Waiting(ready, "written"), Lined(accepted, q, Passed + Held)
  PROVE  OneWrite' /\ Looked' /\ InOrder'
<1>1. writes = 1 /\ ~failed /\ write_queue # <<>> /\ Waiting(ready, "written") = 0
  BY Bounds DEF IInv, OneWrite
<1>2. OneWrite'
  BY <1>1 DEF OneWrite
<1>3. Passed' = Passed /\ Held' = Held
  BY DEF Passed, Held
<1>4. Looked'
  BY <1>3 DEF IInv, Looked
<1>5. InOrder'
  BY <1>3 DEF IInv, InOrder
<1> QED
  BY <1>2, <1>4, <1>5

\* After a failure nothing is in flight and write_queue is not empty.
LEMMA WriteFailsKeeps ==
  ASSUME IInv, WriteFails
  PROVE  IInv'
<1>1. /\ ready \in Seq(Handler) /\ accepted \in Seq(Messages)
      /\ Lined(accepted, ready, Passed + Held) /\ "write_failed" \in Kinds
  BY DEF IInv, TypeOK, InOrder, Kinds
<1>2. PICK b, q, r : b = Passed + Held /\ q = ready /\ r = Append(q, Of("write_failed"))
  OBVIOUS
<1>3. ready' = r /\ q \in Seq(Handler) /\ Lined(accepted, q, b)
  BY <1>1, <1>2 DEF WriteFails
<1>4. r \in Seq(Handler) /\ Lined(accepted, r, b) /\ OneMore(q, r, "write_failed")
  BY <1>1, <1>2, <1>3, PostOf
<1>5. \A l : l # "write_failed" => Waiting(r, l) = Waiting(ready, l)
  BY <1>1, <1>2, <1>4, CountNat DEF OneMore
<1>6. /\ writes > 0 /\ writes' = 0 /\ failed' = TRUE
      /\ UNCHANGED <<ticking, accepted, pushing, write_queue, wire, socket, life>>
  BY Bounds DEF WriteFails
<1>7. Waiting(r, "written") = Waiting(ready, "written")
  BY <1>5
<1>8. OneWrite' /\ Looked' /\ InOrder'
  BY <1>2, <1>3, <1>4, <1>6, <1>7, FailureKeeps
<1>9. TypeOK'
  BY <1>3, <1>4, <1>6 DEF IInv, TypeOK, socket, life
<1>10. Asked'
  BY <1>3, <1>5, <1>6 DEF IInv, Asked, life
<1>11. Over'
  BY <1>6 DEF IInv, Over, life
<1> QED
  BY <1>8, <1>9, <1>10, <1>11 DEF IInv

\* A thread with a turn is in the midst of nothing, and no other thread is.
LEMMA OneAtATurn ==
  ASSUME OneThread, NEW t \in Threads, NEW k, Turn(t, k)
  PROVE  /\ \A v \in Threads : v = t /\ pushing[v] = Idle
         /\ Held = 0
<1>1. pushing[t] = Idle
  BY DEF Turn
<1>2. \A v \in Threads : v = t
  BY DEF OneThread
<1>3. \A v \in Threads : v = t /\ pushing[v] = Idle
  BY <1>1, <1>2
<1> QED
  BY <1>3 DEF Held

\* The closure of send() takes the next envelope, and sees the queue as it is.
LEMMA LookKeeps ==
  ASSUME IInv, OneThread, NEW t \in Threads, Look(t)
  PROVE  IInv'
<1>1. Turn(t, "send")
  BY DEF Look
<1>2. PICK q : q = Tail(ready)
  OBVIOUS
<1>3. /\ q \in Seq(Handler) /\ ready # <<>> /\ process = "running"
      /\ \A l : Waiting(q, l) = Waiting(ready, l) - (IF "send" = l THEN 1 ELSE 0)
      /\ Passed + Held < Len(accepted) /\ Head(ready).m = accepted[Passed + Held + 1]
      /\ Lined(accepted, q, Passed + Held + 1)
  BY <1>1, <1>2, Turns
<1>4. \A l : l # "send" => Waiting(q, l) = Waiting(ready, l)
  BY <1>3, Bounds
<1>5. \A v \in Threads : v = t /\ pushing[v] = Idle
  BY <1>1, OneAtATurn
<1>6. Held = 0
  BY <1>1, OneAtATurn
<1>7. PICK m : m = Head(ready).m
  OBVIOUS
<1>8. m \in Messages /\ m # "none" /\ Passed < Len(accepted) /\ m = accepted[Passed + 1]
  <2>1. Passed \in Nat /\ Len(accepted) \in Nat
    BY Bounds
  <2>2. Passed < Len(accepted) /\ m = accepted[Passed + 1]
    BY <1>3, <1>6, <1>7, <2>1
  <2>3. Passed + 1 \in 1..Len(accepted) /\ accepted \in Seq(Messages)
    BY <2>1, <2>2 DEF IInv, TypeOK
  <2>4. m \in Messages
    BY <2>2, <2>3
  <2> QED
    BY <2>2, <2>4, ClientAssumption DEF ClientAssumption
<1>9. PICK p : p = [m |-> m, write_in_progress |-> write_queue # <<>>]
  OBVIOUS
<1>10. /\ pushing' = [pushing EXCEPT ![t] = p]
       /\ UNCHANGED <<ticking, accepted, output, socket, life>>
  BY <1>7, <1>9 DEF Look
<1>11. p.m = m /\ p # Idle
  BY <1>8, <1>9 DEF Idle
<1>12. p.write_in_progress <=> write_queue # <<>>
  BY <1>9
<1>13. p \in [m : Messages, write_in_progress : BOOLEAN]
  BY <1>8, <1>9
<1>14. /\ pushing' \in [Threads -> [m : Messages, write_in_progress : BOOLEAN] \cup {Idle}]
       /\ pushing'[t] = p
  BY <1>10, <1>13 DEF IInv, TypeOK
<1>15. ready' = q
  BY <1>1, <1>2, DoneParts DEF Look
<1>16. TypeOK'
  BY <1>3, <1>10, <1>14, <1>15 DEF IInv, TypeOK, output, socket, life
<1>17. OneWrite'
  BY <1>4, <1>10, <1>15 DEF IInv, OneWrite, output
<1>18. Passed' = Passed /\ Held' = 1
  <2>1. Passed' = Passed
    BY <1>4, <1>10, <1>15 DEF Passed, output
  <2>2. Held' = 1
    BY <1>11, <1>14 DEF Held
  <2> QED
    BY <2>1, <2>2
<1>19. Looked'
  <2>1. \A v \in Threads : pushing'[v] = p
    BY <1>5, <1>14
  <2> QED
    BY <1>8, <1>10, <1>11, <1>12, <1>18, <2>1 DEF Looked, output
<1>20. InOrder'
  <2>1. Lined(accepted', ready', Passed' + Held')
    <3>1. Passed + Held + 1 = Passed' + Held'
      BY <1>6, <1>18, Bounds
    <3> QED
      BY <1>3, <1>10, <1>15, <3>1
  <2> QED
    BY <1>4, <1>10, <1>15, <2>1 DEF IInv, InOrder, output
<1>21. Asked'
  BY <1>4, <1>10, <1>15 DEF IInv, Asked, life
<1>22. Over'
  BY <1>3, <1>10 DEF Over, life
<1> QED
  BY <1>16, <1>17, <1>19, <1>20, <1>21, <1>22 DEF IInv

\* What the closure saw still holds: it starts a write exactly when none is in
\* flight.
LEMMA PushKeeps ==
  ASSUME IInv, OneThread, NEW t \in Threads, Push(t)
  PROVE  IInv'
<1>1. process = "running" /\ pushing[t] # Idle
  BY DEF Push
<1>2. PICK m, w : m = pushing[t].m /\ w = pushing[t].write_in_progress
  OBVIOUS
<1>3. /\ w <=> write_queue # <<>>
      /\ Passed < Len(accepted) /\ m = accepted[Passed + 1]
  BY <1>1, <1>2 DEF IInv, Looked
<1>4. m \in Messages
  <2>1. Passed + 1 \in 1..Len(accepted) /\ accepted \in Seq(Messages)
    BY <1>3, Bounds DEF IInv, TypeOK
  <2> QED
    BY <1>3, <2>1
<1>5. /\ write_queue' = Append(write_queue, m)
      /\ pushing' = [pushing EXCEPT ![t] = Idle]
      /\ UNCHANGED <<ticking, accepted, ready, wire, failed, socket, life>>
  BY <1>2 DEF Push
<1>6. writes' = IF write_queue # <<>> THEN writes ELSE writes + 1
  BY <1>2, <1>3 DEF Push
<1>7. /\ write_queue' \in Seq(Messages) /\ Len(write_queue') = Len(write_queue) + 1
      /\ write_queue'[Len(write_queue) + 1] = m /\ write_queue' # <<>>
      /\ \A k \in DOMAIN write_queue : write_queue'[k] = write_queue[k]
      /\ DOMAIN write_queue' = 1..(Len(write_queue) + 1)
      /\ DOMAIN write_queue = 1..Len(write_queue)
  <2>1. write_queue \in Seq(Messages)
    BY DEF IInv, TypeOK
  <2> QED
    BY <1>4, <1>5, <2>1
<1>8. TypeOK'
  <2>1. writes' \in Nat
    BY <1>6, Bounds
  <2>2. pushing' \in [Threads -> [m : Messages, write_in_progress : BOOLEAN] \cup {Idle}]
    BY <1>5 DEF IInv, TypeOK
  <2> QED
    BY <1>5, <1>7, <2>1, <2>2 DEF IInv, TypeOK, socket, life
<1>9. OneWrite'
  BY <1>5, <1>6, <1>7, Bounds DEF OneWrite, IInv
<1>10. \A v \in Threads : v = t /\ pushing'[v] = Idle
  <2>1. \A v \in Threads : v = t
    BY DEF OneThread
  <2>2. pushing'[t] = Idle
    BY <1>5 DEF IInv, TypeOK
  <2> QED
    BY <2>1, <2>2
<1>11. Held = 1 /\ Held' = 0
  BY <1>1, <1>10 DEF Held
<1>12. Passed' = Passed + 1
  <2>1. Passed' = Len(wire) + (Len(write_queue) + 1) - Waiting(ready, "written")
    BY <1>5, <1>7 DEF Passed
  <2> QED
    BY <2>1, Bounds DEF Passed
<1>13. Looked'
  BY <1>10 DEF Looked
<1>14. InOrder'
  <2>1. \A k \in DOMAIN write_queue' :
          write_queue'[k] = accepted[Len(wire) - Waiting(ready, "written") + k]
    <3>1. Len(wire) - Waiting(ready, "written") + (Len(write_queue) + 1) = Passed + 1
      BY Bounds DEF Passed
    <3>2. \A k \in DOMAIN write_queue :
            write_queue[k] = accepted[Len(wire) - Waiting(ready, "written") + k]
      BY DEF IInv, InOrder
    <3>3. ASSUME NEW k \in DOMAIN write_queue'
          PROVE  write_queue'[k] = accepted[Len(wire) - Waiting(ready, "written") + k]
      <4>1. CASE k = Len(write_queue) + 1
        BY <1>3, <1>7, <3>1, <4>1
      <4>2. CASE k # Len(write_queue) + 1
        <5>1. k \in DOMAIN write_queue
          BY <1>7, <4>2, Bounds
        <5> QED
          BY <1>7, <3>2, <5>1
      <4> QED
        BY <4>1, <4>2
    <3> QED
      BY <3>3
  <2>2. Passed' + Held' = Passed + Held
    BY <1>11, <1>12, Bounds
  <2> QED
    BY <1>5, <2>1, <2>2 DEF IInv, InOrder
<1>15. Asked' /\ Over'
  BY <1>1, <1>5 DEF IInv, Asked, Over, life
<1> QED
  BY <1>8, <1>9, <1>13, <1>14, <1>15 DEF IInv

\* handle_write takes the frame off and starts the next write, if any; the one
\* thread is in the midst of no send().
LEMMA WrittenKeeps ==
  ASSUME IInv, OneThread, NEW t \in Threads, Written(t)
  PROVE  IInv'
<1>1. Turn(t, "written")
  BY DEF Written
<1>2. PICK q : q = Tail(ready)
  OBVIOUS
<1>3. /\ q \in Seq(Handler) /\ process = "running" /\ Waiting(ready, "written") >= 1
      /\ \A l : Waiting(q, l) = Waiting(ready, l) - (IF "written" = l THEN 1 ELSE 0)
      /\ Lined(accepted, q, Passed + Held)
  BY <1>1, <1>2, Turns
<1>4. /\ Waiting(ready, "written") = 1 /\ Waiting(q, "written") = 0
      /\ \A l : l # "written" => Waiting(q, l) = Waiting(ready, l)
  BY <1>3, Bounds
<1>5. ~failed /\ writes = 0 /\ write_queue # <<>>
  BY <1>4, Bounds DEF IInv, OneWrite, TypeOK
<1>6. /\ UNCHANGED <<ticking, accepted, pushing, wire, failed, socket, life>>
      /\ write_queue' = Tail(write_queue)
      /\ writes' = IF Len(write_queue) > 1 THEN writes + 1 ELSE writes
  BY DEF Written
<1>7. ready' = q
  BY <1>1, <1>2, DoneParts DEF Written
<1>8. /\ write_queue' \in Seq(Messages) /\ Len(write_queue') = Len(write_queue) - 1
      /\ \A k \in DOMAIN write_queue' :
           k + 1 \in DOMAIN write_queue /\ write_queue'[k] = write_queue[k + 1]
      /\ write_queue' = <<>> <=> ~(Len(write_queue) > 1)
  <2>1. write_queue \in Seq(Messages)
    BY DEF IInv, TypeOK
  <2>2. /\ write_queue' \in Seq(Messages) /\ Len(write_queue') = Len(write_queue) - 1
        /\ \A k \in DOMAIN write_queue' :
             k + 1 \in DOMAIN write_queue /\ write_queue'[k] = write_queue[k + 1]
    BY <1>5, <1>6, <2>1
  <2>3. write_queue' = <<>> <=> Len(write_queue') = 0
    BY <2>2
  <2> QED
    BY <1>5, <2>1, <2>2, <2>3
<1>9. TypeOK'
  BY <1>3, <1>5, <1>6, <1>7, <1>8 DEF IInv, TypeOK, socket, life
<1>10. OneWrite'
  BY <1>4, <1>5, <1>6, <1>7, <1>8 DEF OneWrite, IInv
<1>11. Passed' = Passed /\ Held' = Held
  <2>1. Passed' = Passed
    BY <1>4, <1>6, <1>7, <1>8, Bounds DEF Passed
  <2>2. Held' = Held
    BY <1>6 DEF Held
  <2> QED
    BY <2>1, <2>2
<1>12. Looked'
  <2>1. \A v \in Threads : v = t /\ pushing[v] = Idle
    BY <1>1, OneAtATurn
  <2> QED
    BY <1>6, <2>1 DEF Looked
<1>13. InOrder'
  <2>1. \A k \in DOMAIN write_queue' : write_queue'[k] = accepted[Len(wire) - 0 + k]
    <3>1. ASSUME NEW k \in DOMAIN write_queue'
          PROVE  write_queue'[k] = accepted[Len(wire) - 1 + (k + 1)] /\ k \in Nat
      BY <1>4, <1>8 DEF IInv, InOrder
    <3> QED
      BY <3>1, Bounds
  <2> QED
    BY <1>3, <1>4, <1>6, <1>7, <1>11, <2>1, Bounds DEF IInv, InOrder
<1>14. Asked'
  BY <1>4, <1>6, <1>7 DEF IInv, Asked, life
<1>15. Over'
  BY <1>3, <1>6 DEF Over, life
<1> QED
  BY <1>9, <1>10, <1>12, <1>13, <1>14, <1>15 DEF IInv

-----------------------------------------------------------------------------
(* close().                                                                *)

Aborts == {"refused", "write_failed", "read_failed"}

\* There is nothing new in r but operations that close() has aborted.
OnlyAborted(q, r) == \A l : l \notin Aborts => Waiting(r, l) = Waiting(q, l)

\* An operation may have been in flight, or not.
LEMMA MayAbort ==
  ASSUME NEW q \in Seq(Handler), accepted \in Seq(Messages), NEW b, Lined(accepted, q, b),
         NEW k \in Aborts, NEW d \in {<<>>, <<Of(k)>>}, NEW r, r = q \o d
  PROVE  r \in Seq(Handler) /\ Lined(accepted, r, b) /\ OnlyAborted(q, r)
<1>1. k \in Kinds /\ Of(k) \in Handler
  BY OfType DEF Aborts, Kinds
<1>2. CASE d = <<>>
  <2>1. r = q
    BY <1>2
  <2> QED
    BY <2>1 DEF OnlyAborted
<1>3. CASE d = <<Of(k)>>
  <2>1. r = Append(q, Of(k))
    BY <1>1, <1>3
  <2>2. r \in Seq(Handler) /\ Lined(accepted, r, b) /\ OneMore(q, r, k)
    BY <1>1, <2>1, PostOf
  <2> QED
    BY <2>2, CountNat DEF OneMore, OnlyAborted
<1> QED
  BY <1>2, <1>3

\* Each of the three operations is aborted once, if at all.
LEMMA AbortedParts ==
  ASSUME writes \in {0, 1}
  PROVE  \E x \in {<<>>, <<Of("refused")>>}, y \in {<<>>, <<Of("write_failed")>>},
            z \in {<<>>, <<Of("read_failed")>>} : Aborted = (x \o y) \o z
<1>1. [i \in 1..writes |-> Of("write_failed")] \in {<<>>, <<Of("write_failed")>>}
  <2>1. CASE writes = 0
    BY <2>1
  <2>2. CASE writes = 1
    BY <2>2
  <2> QED
    BY <2>1, <2>2
<1> QED
  BY <1>1 DEF Aborted

\* One handler, or none.
LEMMA AtMostOne ==
  ASSUME NEW h \in Handler, NEW d \in {<<>>, <<h>>}
  PROVE  d \in Seq(Handler)
<1>1. CASE d = <<>>
  BY <1>1
<1>2. CASE d = <<h>>
  BY <1>2
<1> QED
  BY <1>1, <1>2

\* close() fails the write in flight, and releases the work guard.
LEMMA CloseKeeps ==
  ASSUME IInv, NEW t \in Threads, Close(t)
  PROVE  IInv'
<1>1. Turn(t, "close") /\ CloseSocket
  BY DEF Close
<1>2. /\ UNCHANGED <<ticking, accepted, pushing, write_queue, wire, received, input, causes,
                     process>>
      /\ work_guard' = FALSE
  BY DEF Close
<1>3. PICK b, q : b = Passed + Held /\ q = Tail(ready)
  OBVIOUS
<1>4. /\ q \in Seq(Handler) /\ process = "running" /\ Waiting(ready, "close") >= 1
      /\ \A l : Waiting(q, l) = Waiting(ready, l) - (IF "close" = l THEN 1 ELSE 0)
      /\ Lined(accepted, q, Passed + Held)
  BY <1>1, <1>3, Turns
<1>5. Lined(accepted, q, b) /\ accepted \in Seq(Messages) /\ writes \in {0, 1}
  BY <1>3, <1>4, Bounds DEF IInv, TypeOK
<1>6. PICK x \in {<<>>, <<Of("refused")>>}, y \in {<<>>, <<Of("write_failed")>>},
           z \in {<<>>, <<Of("read_failed")>>} : Aborted = (x \o y) \o z
  BY <1>5, AbortedParts
<1>7. x \in Seq(Handler) /\ y \in Seq(Handler) /\ z \in Seq(Handler)
  <2>1. Of("refused") \in Handler /\ Of("write_failed") \in Handler /\ Of("read_failed") \in Handler
    BY OfType DEF Kinds
  <2> QED
    BY <1>6, <2>1, AtMostOne
<1>8. PICK r, s, u : r = q \o x /\ s = r \o y /\ u = s \o z
  OBVIOUS
<1>9. r \in Seq(Handler) /\ Lined(accepted, r, b) /\ OnlyAborted(q, r)
  BY <1>4, <1>5, <1>8, MayAbort DEF Aborts
<1>10. s \in Seq(Handler) /\ Lined(accepted, s, b) /\ OnlyAborted(r, s)
  BY <1>5, <1>8, <1>9, MayAbort DEF Aborts
<1>11. u \in Seq(Handler) /\ Lined(accepted, u, b) /\ OnlyAborted(s, u)
  BY <1>5, <1>8, <1>10, MayAbort DEF Aborts
<1>12. ready' = u
  <2>1. ready' = q \o ((x \o y) \o z)
    BY <1>1, <1>3, <1>6 DEF CloseSocket, Done
  <2>2. q \o ((x \o y) \o z) = ((q \o x) \o y) \o z
    <3>1. q \in Seq(Handler)
      BY <1>4
    <3> QED
      BY <1>7, <3>1
  <2> QED
    BY <1>8, <2>1, <2>2
<1>13. \A l \in {"written", "quit", "close"} : Waiting(u, l) = Waiting(q, l)
  BY <1>9, <1>10, <1>11 DEF OnlyAborted, Aborts
<1>14. Waiting(u, "written") = Waiting(ready, "written")
  BY <1>4, <1>13, Bounds
<1>15. OneWrite' /\ Looked' /\ InOrder'
  <2>1. CASE writes = 1
    <3>1. writes > 0
      BY <2>1
    <3>2. writes' = 0 /\ failed' = TRUE
      BY <1>1, <3>1 DEF CloseSocket
    <3> QED
      BY <1>2, <1>3, <1>11, <1>12, <1>14, <3>1, <3>2, FailureKeeps
  <2>2. CASE writes = 0
    <3>1. ~(writes > 0) /\ failed \in BOOLEAN
      BY <2>2 DEF IInv, TypeOK
    <3>2. failed' = failed /\ writes' = writes
      BY <1>1, <2>2, <3>1 DEF CloseSocket
    <3>3. UNCHANGED <<accepted, pushing, output>>
      BY <1>2, <3>2 DEF output
    <3> QED
      BY <1>3, <1>11, <1>12, <1>14, <3>3, OutputKept
  <2> QED
    BY <1>5, <2>1, <2>2
<1>16. TypeOK'
  <2>1. /\ conn' = "shut" /\ reading' = FALSE /\ writes' = 0
        /\ failed' = (failed \/ writes > 0)
    BY <1>1 DEF CloseSocket
  <2> QED
    BY <1>2, <1>11, <1>12, <2>1 DEF IInv, TypeOK
<1>17. Asked'
  <2>1. causes # {}
    BY <1>4 DEF IInv, Asked
  <2> QED
    BY <1>2, <2>1 DEF IInv, Asked
<1>18. Over'
  BY <1>2, <1>4 DEF Over
<1> QED
  BY <1>15, <1>16, <1>17, <1>18 DEF IInv

-----------------------------------------------------------------------------
(* What holds of a client with one thread.                                 *)

\* A client starts to connect; nothing waits.
LEMMA InitIInv == Init => IInv
<1> SUFFICES ASSUME Init PROVE IInv
  OBVIOUS
<1>1. \A k : Waiting(ready, k) = 0
  <2>1. \A k : Positions(KindsOf(<<>>), k) = {}
    BY DEF Positions, KindsOf
  <2> QED
    BY <2>1, FS_EmptySet DEF Init, Waiting
<1>2. \A t \in Threads : pushing[t] = Idle
  BY DEF Init
<1>3. Passed = 0 /\ Held = 0
  BY <1>1, <1>2 DEF Init, Passed, Held
<1>4. InOrder
  BY <1>1, <1>3 DEF Init, InOrder, Lined
<1>5. TypeOK
  <2>1. /\ ticking \in BOOLEAN /\ failed \in BOOLEAN /\ reading \in BOOLEAN
        /\ work_guard \in BOOLEAN
    BY DEF Init
  <2>2. pushing \in [Threads -> [m : Messages, write_in_progress : BOOLEAN] \cup {Idle}]
    BY DEF Init
  <2> QED
    BY <2>1, <2>2, ClientAssumption DEF Init, TypeOK, ClientAssumption
<1>6. OneWrite /\ Looked /\ Asked /\ Over
  BY <1>1, <1>2 DEF Init, OneWrite, Looked, Asked, Over
<1> QED
  BY <1>4, <1>5, <1>6 DEF IInv

\* Every handler of the one thread and every event keeps the invariant.
LEMMA NextIInv ==
  ASSUME OneThread
  PROVE  IInv /\ [Next]_vars => IInv'
<1> SUFFICES ASSUME IInv, [Next]_vars PROVE IInv'
  OBVIOUS
<1>1. CASE UNCHANGED vars
  <2>1. Passed' = Passed /\ Held' = Held
    BY <1>1 DEF vars, output, Passed, Held
  <2>2. TypeOK'
    BY <1>1 DEF vars, output, socket, life, IInv, TypeOK
  <2>3. OneWrite' /\ Looked' /\ InOrder' /\ Asked' /\ Over'
    BY <1>1, <2>1
       DEF vars, output, socket, life, IInv, OneWrite, Looked, InOrder, Asked, Over
  <2> QED
    BY <2>2, <2>3 DEF IInv
<1>2. ASSUME Next PROVE IInv'
  <2>1. ASSUME NEW m \in Messages, Send(m) PROVE IInv'
    BY <1>2, <2>1, SendKeeps
  <2>2. CASE Quit \/ Interrupt \/ Connects \/ ConnectFails \/ ReadCompletes \/ ReadFails \/ Expire
    BY <1>2, <2>2, EventKeeps
  <2>3. CASE EndOfInput \/ Return
    BY <2>3, EndKeeps
  <2>4. CASE WriteCompletes \/ WriteFails
    BY <2>4, WriteCompletesKeeps, WriteFailsKeeps
  <2>5. ASSUME NEW t \in Threads, ThreadStep(t) PROVE IInv'
    <3>1. CASE Failed(t) \/ Connected(t) \/ PeerGone(t) \/ Refused(t)
                 \/ Read(t) \/ Tick(t) \/ CallClose(t)
      BY <1>2, <3>1, QuietKeeps
    <3>2. CASE Look(t) \/ Push(t) \/ Written(t) \/ Close(t)
      BY <3>2, LookKeeps, PushKeeps, WrittenKeeps, CloseKeeps
    <3> QED
      BY <2>5, <3>1, <3>2 DEF ThreadStep
  <2> QED
    BY <1>2, <2>1, <2>2, <2>3, <2>4, <2>5 DEF Next
<1> QED
  BY <1>1, <1>2

\* The invariant holds throughout.
THEOREM Invariance == OneThread => (Spec => []IInv)
<1> SUFFICES ASSUME OneThread PROVE Spec => []IInv
  OBVIOUS
<1>1. IInv /\ [Next]_vars => IInv'
  BY NextIInv
<1> QED
  BY InitIInv, <1>1, PTL DEF Spec

\* The variables keep their types: no write is started with nothing in
\* write_queue, whose front is its buffer (client.cpp:118-146).
THEOREM TypeCorrect == OneThread => (Spec => []TypeOK)
<1> SUFFICES ASSUME OneThread PROVE Spec => []TypeOK
  OBVIOUS
<1>1. IInv => TypeOK
  BY DEF IInv
<1> QED
  BY <1>1, Invariance, PTL

\* When the chat client's main returns, everything handed to send() is on the
\* wire or a write has failed, and the input thread is past its use of what main
\* destroys unless a signal or a refused connection ended the client
\* (client main.cpp:130-147).
THEOREM ReturnsClean == OneThread => (Spec => []QuitIsClean)
<1> SUFFICES ASSUME OneThread PROVE Spec => []QuitIsClean
  OBVIOUS
<1>1. IInv => QuitIsClean
  <2> SUFFICES ASSUME IInv, process = "returned"
               PROVE  /\ input = "ended" \/ causes \cap {"interrupt", "refused"} # {}
                      /\ \A m \in Range(accepted) : Settled(m)
    BY DEF QuitIsClean
  <2>1. /\ ready = <<>> /\ \A t \in Threads : pushing[t] = Idle
        /\ ~work_guard /\ writes = 0
    BY DEF IInv, Over
  <2>2. causes # {} /\ causes \in SUBSET {"quit", "interrupt", "refused"}
    BY <2>1 DEF IInv, Asked, TypeOK
  <2>3. input = "ended" \/ causes \cap {"interrupt", "refused"} # {}
    BY <2>2 DEF IInv, Asked
  <2>4. Waiting(ready, "written") = 0
    <3>1. Positions(KindsOf(<<>>), "written") = {}
      BY DEF Positions, KindsOf
    <3> QED
      BY <2>1, <3>1, FS_EmptySet DEF Waiting
  <2>5. CASE ~failed
    <3>1. write_queue = <<>> /\ Held = 0
      BY <2>1, <2>4, <2>5 DEF IInv, OneWrite, Held
    <3>2. Passed = Len(wire) /\ Len(wire) \in Nat
      BY <2>4, <3>1, Bounds DEF Passed
    <3>3. Len(accepted) = Len(wire)
      <4>1. Lined(accepted, <<>>, Passed + Held)
        BY <2>1 DEF IInv, InOrder
      <4>2. Passed + Held = Len(wire)
        BY <3>1, <3>2
      <4>3. Lined(accepted, <<>>, Len(wire)) /\ Len(accepted) \in Nat
        BY <4>1, <4>2, Bounds
      <4> QED
        BY <3>2, <4>3 DEF Lined
    <3>4. ASSUME NEW m \in Range(accepted) PROVE m \in Range(wire)
      <4>1. PICK k \in DOMAIN accepted : m = accepted[k]
        BY DEF Range
      <4>2. k \in DOMAIN wire
        BY <3>3 DEF IInv, TypeOK
      <4> QED
        BY <4>1, <4>2 DEF IInv, InOrder, Range
    <3> QED
      BY <2>3, <3>4 DEF Settled
  <2> QED
    BY <2>3, <2>5 DEF Settled
<1> QED
  BY <1>1, Invariance, PTL

-----------------------------------------------------------------------------
(* A client with one thread is a channel.                                  *)

\* A write that completes transmits the first of the pending envelopes.
LEMMA Transmits ==
  ASSUME IInv, WriteCompletes
  PROVE  C!Transmit
<1>1. /\ ~failed /\ write_queue # <<>> /\ Waiting(ready, "written") = 0
      /\ wire' = Append(wire, Head(write_queue)) /\ UNCHANGED <<accepted, failed>>
  BY Bounds DEF IInv, OneWrite, WriteCompletes
<1>2. /\ accepted \in Seq(Messages) /\ wire \in Seq(Messages) /\ write_queue \in Seq(Messages)
      /\ Head(write_queue) \in Messages /\ Len(wire') = Len(wire) + 1
      /\ 1 \in DOMAIN write_queue /\ Len(write_queue) >= 1
  BY <1>1 DEF IInv, TypeOK
<1>3. Len(wire) + 1 \in 1..Len(accepted)
  BY <1>1, <1>2, Bounds DEF Passed
<1>4. Head(write_queue) = accepted[Len(wire) + 1]
  BY <1>1, <1>2 DEF IInv, InOrder
<1>5. PICK k, n : k = Len(wire) + 1 /\ n = Len(accepted)
  OBVIOUS
<1>6. k \in 1..Len(accepted) /\ n \in k..Len(accepted) /\ k + 1 \in Nat
  BY <1>3, <1>5
<1>7. /\ Head(SubSeq(accepted, k, n)) = accepted[k]
      /\ Tail(SubSeq(accepted, k, n)) = SubSeq(accepted, k + 1, n)
      /\ SubSeq(accepted, k, n) # <<>>
  <2>1. SubSeq(accepted, k, n) \in Seq(Messages) /\ Len(SubSeq(accepted, k, n)) = n - k + 1
    BY <1>2, <1>6, SubSeqProperties
  <2>2. /\ Head(SubSeq(accepted, k, n)) = accepted[k]
        /\ Tail(SubSeq(accepted, k, n)) = SubSeq(accepted, k + 1, n)
    BY <1>2, <1>6, HeadTailOfSubSeq
  <2> QED
    BY <1>6, <2>1, <2>2
<1>8. Pending = SubSeq(accepted, k, n) /\ Pending' = SubSeq(accepted, k + 1, n)
  BY <1>1, <1>2, <1>5 DEF Pending
<1> QED
  BY <1>1, <1>4, <1>5, <1>7, <1>8 DEF C!Transmit

\* A call of send(), by the input thread or by a handler, adds to the pending
\* envelopes.
LEMMA Accepts ==
  ASSUME IInv, NEW m \in Messages, accepted' = Append(accepted, m), UNCHANGED <<wire, failed>>
  PROVE  C!Next
<1>1. PICK k : k = Len(wire) + 1
  OBVIOUS
<1>2. accepted \in Seq(Messages) /\ k \in 1..(Len(accepted) + 1)
  BY <1>1, Bounds DEF IInv, TypeOK
<1>3. SubSeq(Append(accepted, m), k, Len(Append(accepted, m))) =
        Append(SubSeq(accepted, k, Len(accepted)), m)
  BY <1>2, AppendSubSeq
<1>4. Pending' = Append(Pending, m)
  BY <1>1, <1>3 DEF Pending
<1>5. C!Accept(m)
  BY <1>4 DEF C!Accept
<1> QED
  BY <1>5 DEF C!Next

\* A step of a client is a step of a channel, or none; close() fails the channel
\* when a write is in flight.
LEMMA ChannelStep == IInv /\ [Next]_vars => [C!Next]_(C!vars)
<1> SUFFICES ASSUME IInv, [Next]_vars PROVE [C!Next]_(C!vars)
  OBVIOUS
<1>1. CASE UNCHANGED <<accepted, wire, failed>>
  BY <1>1 DEF C!vars, Pending
<1>2. CASE /\ writes > 0 /\ failed' = TRUE /\ UNCHANGED <<accepted, wire>>
  <2>1. ~failed
    BY <1>2, Bounds DEF IInv, OneWrite
  <2> QED
    BY <1>2, <2>1 DEF C!Next, C!Fail, Pending
<1>3. CASE (\E m \in Messages : accepted' = Append(accepted, m)) /\ UNCHANGED <<wire, failed>>
  BY <1>3, Accepts
<1>4. CASE WriteCompletes
  BY <1>4, Transmits DEF C!Next
<1>5. CASE WriteFails
  BY <1>2, <1>5 DEF WriteFails
<1>6. CASE \E m \in Messages : Send(m)
  BY <1>3, <1>6 DEF Send, output
<1>7. CASE Quit \/ EndOfInput \/ Interrupt \/ Connects \/ ConnectFails \/ ReadCompletes
             \/ ReadFails \/ Expire \/ Return
  BY <1>1, <1>7 DEF Quit, EndOfInput, Interrupt, Connects, ConnectFails, ReadCompletes, ReadFails,
     Expire, Return, output
<1>8. ASSUME NEW t \in Threads, ThreadStep(t) PROVE [C!Next]_(C!vars)
  <2>1. CASE Look(t) \/ Push(t) \/ Written(t) \/ Failed(t) \/ PeerGone(t) \/ Refused(t)
               \/ CallClose(t)
    BY <1>1, <2>1 DEF Look, Push, Written, Failed, PeerGone, Refused, CallClose, output
  <2>2. CASE Connected(t) \/ Read(t) \/ Tick(t)
    <3>1. UNCHANGED <<wire, failed>> /\ (SendsNone \/ SendsOne)
      BY <2>2 DEF Connected, Read, Tick, output
    <3>2. CASE SendsNone
      BY <1>1, <3>1, <3>2 DEF SendsNone
    <3>3. CASE SendsOne
      BY <1>3, <3>1, <3>3 DEF SendsOne, Unsent
    <3> QED
      BY <3>1, <3>2, <3>3
  <2>3. CASE Close(t)
    <3>1. UNCHANGED <<accepted, wire>> /\ failed' = (failed \/ writes > 0)
      BY <2>3 DEF Close, CloseSocket
    <3>2. CASE writes > 0
      <4>1. failed' = TRUE
        BY <3>1, <3>2
      <4> QED
        BY <1>2, <3>1, <3>2, <4>1
    <3>3. CASE ~(writes > 0)
      <4>1. failed' = failed
        BY <3>1, <3>3 DEF IInv, TypeOK
      <4> QED
        BY <1>1, <3>1, <4>1
    <3> QED
      BY <3>2, <3>3
  <2> QED
    BY <1>8, <2>1, <2>2, <2>3 DEF ThreadStep
<1>9. CASE UNCHANGED vars
  BY <1>1, <1>9 DEF vars, output
<1> QED
  BY <1>4, <1>5, <1>6, <1>7, <1>8, <1>9 DEF Next

\* A client with one thread promises what Channel does: whole frames, once and in
\* the order of the calls of send(), and none after a failure (client.cpp:114-146).
THEOREM ChannelKept == OneThread => (Spec => ChannelSpec)
<1> SUFFICES ASSUME OneThread PROVE Spec => ChannelSpec
  OBVIOUS
<1>1. Init => C!Init
  BY DEF Init, C!Init, Pending
<1>2. Spec => []IInv
  BY Invariance
<1> QED
  BY <1>1, <1>2, ChannelStep, PTL DEF Spec, ChannelSpec, C!Spec
=============================================================================
