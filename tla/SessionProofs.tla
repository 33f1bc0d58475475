---------------------------- MODULE SessionProofs ---------------------------
(***************************************************************************)
(* A session writes what it is given one frame at a time, once and in      *)
(* order, for any envelopes and any order of completions and failures.     *)
(*                                                                         *)
(* An envelope passes through three queues: the strand, message_queue and  *)
(* the wire.  InOrder says where each of those accepted is: the first are  *)
(* on the wire, those after them in message_queue, whose front may be one  *)
(* of the former, and the rest is carried by handlers on the strand, the   *)
(* earlier ones first (Lined, in ContainerTheorems).  That one write is in *)
(* flight when message_queue says so is a count of the handlers there.     *)
(***************************************************************************)
EXTENDS Session, ContainerTheorems

Typed ==
  /\ accepted \in Seq(Messages)
  /\ strand \in Seq(Handler)
  /\ message_queue \in Seq(Messages)
  /\ writes \in Nat
  /\ wire \in Seq(Messages)
  /\ failed \in BOOLEAN
  /\ reading \in {"header", "body", "none"}
  /\ received \in Nat
  /\ is_closed \in BOOLEAN

\* message_queue is empty when nothing is being written.
OneWrite ==
  /\ writes + Waiting(strand, "written") = IF message_queue = <<>> \/ failed THEN 0 ELSE 1
  /\ failed => message_queue # <<>>

\* header_buf and body_buf belong to one read, or to the handler that uses what
\* it has read: the loop starts a read only when the one before is done with.
OneReadAtATime ==
  (IF reading = "none" THEN 0 ELSE 1)
    + Waiting(strand, "header") + Waiting(strand, "body") + Waiting(strand, "read_failed") <= 1

Bounded ==
  /\ received <= MaxReceived
  /\ Waiting(strand, "body") # 0 => received < MaxReceived

\* onDisconnect is called when is_closed is set, and not again.
Reported == disconnects = IF is_closed THEN 1 ELSE 0

\* The number of envelopes that have passed the strand.
Passed == Len(wire) + Len(message_queue) - Waiting(strand, "written")

InOrder ==
  /\ Lined(accepted, strand, Passed)
  /\ Waiting(strand, "written") <= Len(wire)
  /\ \A k \in DOMAIN wire : wire[k] = accepted[k]
  /\ \A k \in DOMAIN message_queue :
       message_queue[k] = accepted[Len(wire) - Waiting(strand, "written") + k]

IInv == Typed /\ OneWrite /\ OneReadAtATime /\ Bounded /\ Reported /\ InOrder

-----------------------------------------------------------------------------
(* The invariant.                                                          *)

\* The counts in the invariant are small numbers.
LEMMA Bounds ==
  ASSUME IInv
  PROVE  /\ \A k : Waiting(strand, k) \in Nat
         /\ Waiting(strand, "written") \in {0, 1} /\ writes \in {0, 1}
         /\ Waiting(strand, "written") <= Len(message_queue)
         /\ Len(wire) \in Nat /\ Len(message_queue) \in Nat /\ Len(accepted) \in Nat
         /\ Passed \in 0..Len(accepted) /\ Len(wire) <= Passed
<1>1. \A k : Waiting(strand, k) \in Nat
  <2>1. [kind |-> "written", m |-> "none"] \in Handler
    BY DEF Handler
  <2> QED
    BY <2>1, PostCount DEF IInv, Typed
<1>2. Len(wire) \in Nat /\ Len(message_queue) \in Nat /\ Len(accepted) \in Nat
  BY DEF IInv, Typed
<1>3. /\ Waiting(strand, "written") \in {0, 1} /\ writes \in {0, 1}
      /\ message_queue = <<>> => Waiting(strand, "written") = 0
  BY <1>1 DEF IInv, Typed, OneWrite
<1>4. message_queue # <<>> => Len(message_queue) > 0
  BY DEF IInv, Typed
<1>5. Waiting(strand, "written") <= Len(message_queue)
  BY <1>2, <1>3, <1>4
<1>6. Passed \in 0..Len(accepted)
  BY DEF IInv, InOrder, Lined
<1> QED
  BY <1>1, <1>2, <1>3, <1>5, <1>6 DEF Passed

\* A handler is posted: it is counted, and a completion carries nothing.
LEMMA Posts ==
  ASSUME IInv, NEW h \in Handler, strand' = Append(strand, h)
  PROVE  /\ strand' \in Seq(Handler)
         /\ \A k : Waiting(strand', k) = Waiting(strand, k) + (IF h.kind = k THEN 1 ELSE 0)
         /\ h.kind # "send" => Lined(accepted, strand', Passed)
<1>1. strand \in Seq(Handler) /\ accepted \in Seq(Messages) /\ Lined(accepted, strand, Passed)
  BY DEF IInv, Typed, InOrder
<1>2. PICK b : b = Passed
  OBVIOUS
<1> QED
  BY <1>1, <1>2, PostCount, LinedOther

\* A handler gets its turn: a send() brings the next envelope.
LEMMA Turns ==
  ASSUME IInv, NEW k, Turn(k)
  PROVE  /\ strand' \in Seq(Handler) /\ Head(strand) \in Handler /\ Head(strand).kind = k
         /\ \A l : Waiting(strand', l) = Waiting(strand, l) - (IF k = l THEN 1 ELSE 0)
         /\ k # "send" => Lined(accepted, strand', Passed)
         /\ k = "send" => /\ Passed < Len(accepted)
                          /\ Head(strand).m = accepted[Passed + 1]
                          /\ Lined(accepted, strand', Passed + 1)
<1>1. strand \in Seq(Handler) /\ accepted \in Seq(Messages) /\ Lined(accepted, strand, Passed)
  BY DEF IInv, Typed, InOrder
<1>2. strand # <<>> /\ Head(strand).kind = k /\ strand' = Tail(strand)
  BY DEF Turn
<1>3. strand' \in Seq(Handler) /\ Head(strand) \in Handler
  BY <1>1, <1>2
<1>4. PICK b : b = Passed
  OBVIOUS
<1> QED
  BY <1>1, <1>2, <1>3, <1>4, TurnCount, LinedTail

\* A step that moves no envelope keeps them in order.
LEMMA OrderKept ==
  ASSUME IInv, UNCHANGED <<accepted, message_queue, wire>>,
         Waiting(strand', "written") = Waiting(strand, "written"),
         Lined(accepted, strand', Passed)
  PROVE  InOrder'
<1>1. Passed' = Passed
  BY DEF Passed
<1> QED
  BY <1>1 DEF IInv, InOrder

\* A step that has nothing to do with writing leaves it as it is.
LEMMA OutputKept ==
  ASSUME IInv, UNCHANGED <<accepted, output>>,
         Waiting(strand', "written") = Waiting(strand, "written"),
         Lined(accepted, strand', Passed)
  PROVE  OneWrite' /\ InOrder'
<1>1. InOrder'
  BY OrderKept DEF output
<1>2. OneWrite'
  BY DEF IInv, OneWrite, output
<1> QED
  BY <1>1, <1>2

\* A step that has nothing to do with reading leaves it as it is.
LEMMA InputKept ==
  ASSUME IInv, UNCHANGED input,
         \A k \in {"header", "body", "read_failed"} : Waiting(strand', k) = Waiting(strand, k)
  PROVE  OneReadAtATime' /\ Bounded'
BY DEF IInv, OneReadAtATime, Bounded, input

-----------------------------------------------------------------------------
(* Writing.                                                                *)

\* An envelope given to send() is the last in line.
LEMMA SendKeeps ==
  ASSUME IInv, NEW m \in Messages, Send(m)
  PROVE  IInv'
<1>1. PICK h : h = [kind |-> "send", m |-> m]
  OBVIOUS
<1>2. h \in Handler /\ strand' = Append(strand, h) /\ h.kind = "send"
  BY <1>1 DEF Handler, Send
<1>3. /\ strand' \in Seq(Handler)
      /\ \A k : k # "send" => Waiting(strand', k) = Waiting(strand, k)
  <2>1. \A k : Waiting(strand', k) = Waiting(strand, k) + (IF h.kind = k THEN 1 ELSE 0)
    BY <1>2, Posts
  <2> QED
    BY <1>2, <2>1, Posts, Bounds
<1>4. UNCHANGED <<output, input, closing>> /\ accepted' = Append(accepted, m)
  BY DEF Send
<1>5. Typed'
  BY <1>3, <1>4 DEF IInv, Typed, output, input, closing
<1>6. OneReadAtATime' /\ Bounded'
  BY <1>3, <1>4, InputKept
<1>7. OneWrite' /\ Reported'
  BY <1>3, <1>4 DEF IInv, OneWrite, Reported, output, closing
<1>8. Passed' = Passed
  BY <1>3, <1>4 DEF Passed, output
<1>9. Lined(accepted', strand', Passed)
  <2>1. PICK b : b = Passed
    OBVIOUS
  <2>2. Lined(Append(accepted, m), Append(strand, h), b)
    <3>1. /\ accepted \in Seq(Messages) /\ strand \in Seq(Handler) /\ Lined(accepted, strand, b)
          /\ m \notin Range(accepted) /\ [kind |-> "send", m |-> m] \in Handler
      BY <1>1, <1>2, <2>1 DEF IInv, Typed, InOrder, Send
    <3> QED
      BY <1>1, <3>1, LinedSend
  <2> QED
    BY <1>2, <1>4, <2>1, <2>2
<1>10. \A k \in 1..Len(accepted) : accepted'[k] = accepted[k]
  BY <1>4 DEF IInv, Typed
<1>11. InOrder'
  <2>1. UNCHANGED <<message_queue, wire>> /\ Waiting(strand', "written") = Waiting(strand, "written")
    BY <1>3, <1>4 DEF output
  <2>2. \A k \in DOMAIN wire : wire[k] = accepted'[k]
    <3>1. \A k \in DOMAIN wire : k \in 1..Len(accepted)
      BY Bounds DEF IInv, Typed
    <3> QED
      BY <1>10, <3>1 DEF IInv, InOrder
  <2>3. \A k \in DOMAIN message_queue :
          message_queue[k] = accepted'[Len(wire) - Waiting(strand, "written") + k]
    <3>1. \A k \in DOMAIN message_queue :
            Len(wire) - Waiting(strand, "written") + k \in 1..Len(accepted)
      BY Bounds DEF IInv, Typed, InOrder, Passed
    <3> QED
      BY <1>10, <3>1 DEF IInv, InOrder
  <2> QED
    BY <1>8, <1>9, <2>1, <2>2, <2>3 DEF IInv, InOrder
<1> QED
  BY <1>5, <1>6, <1>7, <1>11 DEF IInv

\* What is written is the first of the envelopes not on the wire yet.
LEMMA WriteCompletesKeeps ==
  ASSUME IInv, WriteCompletes
  PROVE  IInv'
<1>1. PICK h : h = [kind |-> "written", m |-> "none"]
  OBVIOUS
<1>2. h \in Handler /\ strand' = Append(strand, h) /\ h.kind = "written"
  BY <1>1 DEF Handler, WriteCompletes, Completion
<1>3. /\ strand' \in Seq(Handler)
      /\ \A k : Waiting(strand', k) = Waiting(strand, k) + (IF h.kind = k THEN 1 ELSE 0)
      /\ Lined(accepted, strand', Passed)
  BY <1>2, Posts
<1>4. /\ writes = 1 /\ ~failed /\ message_queue # <<>> /\ Waiting(strand, "written") = 0
      /\ Waiting(strand', "written") = 1 /\ writes' = 0
  BY <1>2, <1>3, Bounds DEF IInv, OneWrite, WriteCompletes
<1>5. /\ UNCHANGED <<accepted, message_queue, failed, input, closing>>
      /\ wire' = Append(wire, Head(message_queue))
  BY DEF WriteCompletes
<1>6. message_queue \in Seq(Messages) /\ Head(message_queue) \in Messages /\ wire \in Seq(Messages)
      /\ wire' \in Seq(Messages) /\ Len(wire') = Len(wire) + 1
      /\ Head(message_queue) = message_queue[1] /\ 1 \in DOMAIN message_queue
  BY <1>4, <1>5 DEF IInv, Typed
<1>7. Typed'
  BY <1>3, <1>4, <1>5, <1>6 DEF IInv, Typed, input, closing
<1>8. OneReadAtATime' /\ Bounded'
  <2>1. \A k : k # "written" => Waiting(strand', k) = Waiting(strand, k)
    BY <1>2, <1>3, Bounds
  <2> QED
    BY <1>5, <2>1, InputKept
<1>9. OneWrite' /\ Reported'
  BY <1>4, <1>5 DEF OneWrite, IInv, Reported, closing
<1>10. InOrder'
  <2>1. Passed' = Passed
    BY <1>4, <1>5, <1>6, Bounds DEF Passed
  <2>2. \A k \in DOMAIN message_queue : message_queue[k] = accepted[Len(wire) + k]
    BY <1>4, <1>6 DEF IInv, InOrder, Typed
  <2>3. \A k \in DOMAIN wire' : wire'[k] = accepted[k]
    BY <1>5, <1>6, <2>2 DEF IInv, InOrder
  <2>4. \A k \in DOMAIN message_queue : Len(wire') - 1 + k = Len(wire) + k
    BY <1>6
  <2> QED
    BY <1>3, <1>4, <1>5, <1>6, <2>1, <2>2, <2>3, <2>4 DEF InOrder
<1> QED
  BY <1>7, <1>8, <1>9, <1>10 DEF IInv

\* After a failure nothing is in flight and message_queue is not empty.
LEMMA WriteFailsKeeps ==
  ASSUME IInv, WriteFails
  PROVE  IInv'
<1>1. PICK h : h = [kind |-> "write_failed", m |-> "none"]
  OBVIOUS
<1>2. h \in Handler /\ strand' = Append(strand, h) /\ h.kind = "write_failed"
  BY <1>1 DEF Handler, WriteFails, Completion
<1>3. /\ strand' \in Seq(Handler)
      /\ \A k : Waiting(strand', k) = Waiting(strand, k) + (IF h.kind = k THEN 1 ELSE 0)
      /\ Lined(accepted, strand', Passed)
  BY <1>2, Posts
<1>4. \A k : k # "write_failed" => Waiting(strand', k) = Waiting(strand, k)
  BY <1>2, <1>3, Bounds
<1>5. /\ writes = 1 /\ ~failed /\ message_queue # <<>> /\ Waiting(strand, "written") = 0
      /\ writes' = 0 /\ failed' = TRUE
      /\ UNCHANGED <<accepted, message_queue, wire, input, closing>>
  BY Bounds DEF IInv, OneWrite, WriteFails
<1>6. Typed'
  BY <1>3, <1>5 DEF IInv, Typed, input, closing
<1>7. OneReadAtATime' /\ Bounded' /\ InOrder'
  BY <1>3, <1>4, <1>5, InputKept, OrderKept
<1>8. OneWrite' /\ Reported'
  BY <1>4, <1>5 DEF OneWrite, IInv, Reported, closing
<1> QED
  BY <1>6, <1>7, <1>8 DEF IInv

\* The closure of send() starts a write exactly when none is in flight.
LEMMA EnqueueKeeps ==
  ASSUME IInv, Enqueue
  PROVE  IInv'
<1>1. /\ strand' \in Seq(Handler) /\ Head(strand) \in Handler /\ Head(strand).kind = "send"
      /\ \A l : Waiting(strand', l) = Waiting(strand, l) - (IF "send" = l THEN 1 ELSE 0)
      /\ Passed < Len(accepted) /\ Head(strand).m = accepted[Passed + 1]
      /\ Lined(accepted, strand', Passed + 1)
  BY Turns DEF Enqueue
<1>2. \A k : k # "send" => Waiting(strand', k) = Waiting(strand, k)
  BY <1>1, Bounds
<1>3. PICK m : m = Head(strand).m
  OBVIOUS
<1>4. m \in Messages
  BY <1>1, <1>3 DEF Handler
<1>5. /\ UNCHANGED <<accepted, wire, failed, input, closing>>
      /\ message_queue' = Append(message_queue, m)
      /\ writes' = IF message_queue = <<>> THEN writes + 1 ELSE writes
  BY <1>3 DEF Enqueue, WriteIfIdle
<1>6. /\ message_queue' \in Seq(Messages) /\ Len(message_queue') = Len(message_queue) + 1
      /\ message_queue'[Len(message_queue) + 1] = m /\ message_queue' # <<>>
      /\ \A k \in DOMAIN message_queue : message_queue'[k] = message_queue[k]
      /\ DOMAIN message_queue' = 1..(Len(message_queue) + 1)
      /\ DOMAIN message_queue = 1..Len(message_queue)
  BY <1>4, <1>5 DEF IInv, Typed
<1>7. Typed'
  BY <1>1, <1>5, <1>6 DEF IInv, Typed, input, closing
<1>8. OneReadAtATime' /\ Bounded'
  BY <1>2, <1>5, InputKept
<1>9. OneWrite' /\ Reported'
  BY <1>2, <1>5, <1>6, Bounds DEF OneWrite, IInv, Reported, closing
<1>10. InOrder'
  <2>1. Passed' = Passed + 1
    <3>1. Passed' = Len(wire) + (Len(message_queue) + 1) - Waiting(strand, "written")
      BY <1>2, <1>5, <1>6 DEF Passed
    <3> QED
      BY <3>1, Bounds DEF Passed
  <2>2. \A k \in DOMAIN message_queue' :
          message_queue'[k] = accepted[Len(wire) - Waiting(strand, "written") + k]
    <3>1. Len(wire) - Waiting(strand, "written") + (Len(message_queue) + 1) = Passed + 1
      BY Bounds DEF Passed
    <3> QED
      BY <1>1, <1>3, <1>6, <3>1, Bounds DEF IInv, InOrder
  <2> QED
    BY <1>1, <1>2, <1>5, <2>1, <2>2 DEF IInv, InOrder
<1> QED
  BY <1>7, <1>8, <1>9, <1>10 DEF IInv

\* handle_write takes the frame off and starts the next write, if any.
LEMMA WrittenKeeps ==
  ASSUME IInv, Written
  PROVE  IInv'
<1>1. /\ strand' \in Seq(Handler)
      /\ \A l : Waiting(strand', l) = Waiting(strand, l) - (IF "written" = l THEN 1 ELSE 0)
      /\ Lined(accepted, strand', Passed)
  BY Turns DEF Written
<1>2. /\ Waiting(strand, "written") = 1 /\ Waiting(strand', "written") = 0
      /\ \A k : k # "written" => Waiting(strand', k) = Waiting(strand, k)
  <2>1. Waiting(strand', "written") \in Nat
    <3>1. [kind |-> "written", m |-> "none"] \in Handler
      BY DEF Handler
    <3> QED
      BY <1>1, <3>1, PostCount
  <2> QED
    BY <1>1, <2>1, Bounds
<1>3. ~failed /\ writes = 0 /\ message_queue # <<>>
  BY <1>2, Bounds DEF IInv, OneWrite, Typed
<1>4. /\ UNCHANGED <<accepted, wire, failed, input, closing>>
      /\ message_queue' = Tail(message_queue)
      /\ writes' = IF Len(message_queue) > 1 THEN writes + 1 ELSE writes
  BY DEF Written
<1>5. /\ message_queue' \in Seq(Messages) /\ Len(message_queue') = Len(message_queue) - 1
      /\ \A k \in DOMAIN message_queue' :
           k + 1 \in DOMAIN message_queue /\ message_queue'[k] = message_queue[k + 1]
      /\ message_queue' = <<>> <=> ~(Len(message_queue) > 1)
  <2>1. message_queue \in Seq(Messages)
    BY DEF IInv, Typed
  <2>2. /\ message_queue' \in Seq(Messages) /\ Len(message_queue') = Len(message_queue) - 1
        /\ \A k \in DOMAIN message_queue' :
             k + 1 \in DOMAIN message_queue /\ message_queue'[k] = message_queue[k + 1]
    BY <1>3, <1>4, <2>1
  <2>3. message_queue' = <<>> <=> Len(message_queue') = 0
    BY <2>2
  <2> QED
    BY <1>3, <2>1, <2>2, <2>3
<1>6. Typed'
  BY <1>1, <1>3, <1>4, <1>5 DEF IInv, Typed, input, closing
<1>7. OneReadAtATime' /\ Bounded'
  BY <1>2, <1>4, InputKept
<1>8. OneWrite' /\ Reported'
  BY <1>2, <1>3, <1>4, <1>5 DEF OneWrite, IInv, Reported, closing
<1>9. InOrder'
  <2>1. Passed' = Passed
    BY <1>2, <1>4, <1>5, Bounds DEF Passed
  <2>2. \A k \in DOMAIN message_queue' : message_queue'[k] = accepted[Len(wire) - 0 + k]
    <3>1. ASSUME NEW k \in DOMAIN message_queue'
          PROVE  message_queue'[k] = accepted[Len(wire) - 1 + (k + 1)] /\ k \in Nat
      BY <1>2, <1>5 DEF IInv, InOrder
    <3> QED
      BY <3>1, Bounds
  <2> QED
    BY <1>1, <1>2, <1>4, <2>1, <2>2, Bounds DEF IInv, InOrder
<1> QED
  BY <1>6, <1>7, <1>8, <1>9 DEF IInv

-----------------------------------------------------------------------------
(* Reading, and the end of the connection.                                 *)

\* A handler that gets its turn was waiting for it.
LEMMA TurnTaken ==
  ASSUME IInv, NEW k, Turn(k)
  PROVE  /\ Waiting(strand, k) >= 1
         /\ \A l : l # k => Waiting(strand', l) = Waiting(strand, l)
         /\ Waiting(strand', k) = Waiting(strand, k) - 1
<1>1. strand' \in Seq(Handler) /\ Waiting(strand', k) = Waiting(strand, k) - 1
  BY Turns
<1>2. [kind |-> "written", m |-> "none"] \in Handler
  BY DEF Handler
<1>3. Waiting(strand', k) \in Nat
  BY <1>1, <1>2, PostCount
<1> QED
  BY <1>1, <1>3, Turns, Bounds

\* A read that ends hands its buffer to the handler.
LEMMA ReadEndsKeeps ==
  ASSUME IInv, ReadCompletes \/ ReadFails
  PROVE  IInv'
<1>1. reading \in {"header", "body"}
  BY DEF IInv, Typed, ReadCompletes, ReadFails
<1>2. PICK k : /\ (k = reading /\ received < MaxReceived) \/ k = "read_failed"
               /\ strand' = Append(strand, [kind |-> k, m |-> "none"])
  BY DEF ReadCompletes, ReadFails, Completion
<1>3. PICK h : h = [kind |-> k, m |-> "none"]
  OBVIOUS
<1>4. /\ h \in Handler /\ strand' = Append(strand, h) /\ h.kind = k
      /\ k \in {"header", "body", "read_failed"}
  BY <1>1, <1>2, <1>3 DEF Handler
<1>5. /\ strand' \in Seq(Handler) /\ Lined(accepted, strand', Passed)
      /\ \A l : Waiting(strand', l) = Waiting(strand, l) + (IF k = l THEN 1 ELSE 0)
  BY <1>4, Posts
<1>6. UNCHANGED <<accepted, output, received, closing>> /\ reading' = "none"
  BY DEF ReadCompletes, ReadFails
<1>7. Typed' /\ Reported'
  BY <1>5, <1>6 DEF IInv, Typed, Reported, output, closing
<1>8. OneWrite' /\ InOrder'
  BY <1>4, <1>5, <1>6, Bounds, OutputKept
<1>9. OneReadAtATime'
  <2>1. PICK x, y, z : /\ x = Waiting(strand, "header") /\ y = Waiting(strand, "body")
                       /\ z = Waiting(strand, "read_failed")
    OBVIOUS
  <2>2. x \in Nat /\ y \in Nat /\ z \in Nat /\ 1 + x + y + z <= 1
    BY <1>1, <2>1, Bounds DEF IInv, OneReadAtATime
  <2>3. /\ Waiting(strand', "header") = x + (IF k = "header" THEN 1 ELSE 0)
        /\ Waiting(strand', "body") = y + (IF k = "body" THEN 1 ELSE 0)
        /\ Waiting(strand', "read_failed") = z + (IF k = "read_failed" THEN 1 ELSE 0)
    BY <1>5, <2>1
  <2> QED
    BY <1>4, <1>6, <2>2, <2>3 DEF OneReadAtATime
<1>10. Bounded'
  BY <1>2, <1>4, <1>5, <1>6, Bounds DEF IInv, Bounded
<1> QED
  BY <1>7, <1>8, <1>9, <1>10 DEF IInv

\* The loop starts its next read in the handler of the one before.
LEMMA LoopKeeps ==
  ASSUME IInv, HeaderRead \/ BodyRead
  PROVE  IInv'
<1>1. PICK k \in {"header", "body"} : /\ Turn(k)
                                      /\ k = "header" => HeaderRead
                                      /\ k = "body" => BodyRead
  BY DEF HeaderRead, BodyRead
<1>2. /\ strand' \in Seq(Handler) /\ Lined(accepted, strand', Passed)
  BY <1>1, Turns
<1>3. /\ Waiting(strand, k) >= 1 /\ Waiting(strand', k) = Waiting(strand, k) - 1
      /\ \A l : l # k => Waiting(strand', l) = Waiting(strand, l)
  BY <1>1, TurnTaken
<1>4. /\ reading = "none" /\ Waiting(strand, k) = 1
      /\ \A l \in {"header", "body", "read_failed"} : l # k => Waiting(strand, l) = 0
  BY <1>3, Bounds DEF IInv, OneReadAtATime
<1>5. /\ UNCHANGED <<accepted, output, closing>> /\ reading' \in {"header", "body"}
      /\ received' = IF k = "body" THEN received + 1 ELSE received
  BY <1>1 DEF HeaderRead, BodyRead
<1>6. Typed' /\ Reported'
  BY <1>2, <1>5 DEF IInv, Typed, Reported, output, closing
<1>7. OneWrite' /\ InOrder'
  BY <1>2, <1>3, <1>5, OutputKept
<1>8. OneReadAtATime'
  BY <1>3, <1>4, <1>5 DEF OneReadAtATime
<1>9. Bounded'
  BY <1>3, <1>4, <1>5, FramesAssumption DEF IInv, Typed, Bounded, FramesAssumption
<1> QED
  BY <1>6, <1>7, <1>8, <1>9 DEF IInv

\* Whichever side fails, and however often, the end is reported once.
LEMMA FailedKeeps ==
  ASSUME IInv, WriteFailed \/ ReadFailed
  PROVE  IInv'
<1>1. PICK k \in {"write_failed", "read_failed"} : Turn(k)
  BY DEF WriteFailed, ReadFailed
<1>2. /\ strand' \in Seq(Handler) /\ Lined(accepted, strand', Passed)
  BY <1>1, Turns
<1>3. /\ Waiting(strand', k) = Waiting(strand, k) - 1
      /\ \A l : l # k => Waiting(strand', l) = Waiting(strand, l)
  BY <1>1, TurnTaken
<1>4. UNCHANGED <<accepted, output, input>> /\ HandleError
  BY DEF WriteFailed, ReadFailed
<1>5. Typed' /\ Reported'
  <2>1. is_closed' \in BOOLEAN
    BY <1>4 DEF IInv, Typed, closing, HandleError
  <2>2. Reported'
    <3>1. CASE is_closed
      BY <1>4, <3>1 DEF IInv, Reported, closing, HandleError
    <3>2. CASE ~is_closed
      BY <1>4, <3>2 DEF IInv, Reported, closing, HandleError
    <3> QED
      BY <3>1, <3>2
  <2> QED
    BY <1>2, <1>4, <2>1, <2>2 DEF IInv, Typed, output, input
<1>6. OneWrite' /\ InOrder'
  BY <1>2, <1>3, <1>4, OutputKept
<1>7. OneReadAtATime' /\ Bounded'
  BY <1>1, <1>3, <1>4, Bounds DEF IInv, OneReadAtATime, Bounded, input
<1> QED
  BY <1>5, <1>6, <1>7 DEF IInv

-----------------------------------------------------------------------------
(* What holds of a session.                                                *)

\* start() begins to read.
LEMMA InitIInv == Init => IInv
<1> SUFFICES ASSUME Init PROVE IInv
  OBVIOUS
<1>1. \A k : Waiting(strand, k) = 0
  <2>1. \A k : Positions(KindsOf(<<>>), k) = {}
    BY DEF Positions, KindsOf
  <2> QED
    BY <2>1, FS_EmptySet DEF Init, Waiting
<1>2. Passed = 0
  BY <1>1 DEF Init, Passed
<1>3. InOrder
  BY <1>1, <1>2 DEF Init, InOrder, Lined
<1>4. Typed
  <2>1. failed \in BOOLEAN /\ is_closed \in BOOLEAN
    BY DEF Init
  <2> QED
    BY <2>1 DEF Init, Typed
<1> QED
  BY <1>1, <1>3, <1>4, FramesAssumption
     DEF Init, IInv, OneWrite, OneReadAtATime, Bounded, Reported, FramesAssumption

\* Every handler and every event keeps the invariant.
LEMMA NextIInv == IInv /\ [Next]_vars => IInv'
<1> SUFFICES ASSUME IInv, [Next]_vars PROVE IInv'
  OBVIOUS
<1>1. CASE UNCHANGED vars
  BY <1>1 DEF vars, output, input, closing, IInv, Typed, OneWrite, OneReadAtATime, Bounded,
              Reported, InOrder, Passed
<1> QED
  BY <1>1, SendKeeps, WriteCompletesKeeps, WriteFailsKeeps, ReadEndsKeeps, EnqueueKeeps,
     WrittenKeeps, FailedKeeps, LoopKeeps DEF Next, StrandStep

\* The invariant holds throughout.
THEOREM Invariance == Spec => []IInv
BY InitIInv, NextIInv, PTL DEF Spec

\* The emptiness of message_queue tells whether a write is in flight, however
\* sends, completions and failures mix (Session.cpp:84-116).
THEOREM WritesOneByOne == Spec => []OneWriteAtATime
<1>1. IInv => OneWriteAtATime
  <2>1. Waiting(strand, "written") = Cardinality({i \in DOMAIN strand : strand[i].kind = "written"})
    <3>1. Positions(KindsOf(strand), "written") = {i \in DOMAIN strand : strand[i].kind = "written"}
      BY DEF Positions, KindsOf
    <3> QED
      BY <3>1 DEF Waiting
  <2> QED
    BY <2>1 DEF IInv, OneWrite, OneWriteAtATime
<1> QED
  BY <1>1, Invariance, PTL

\* The buffers of the read loop are used by one read at a time, also after the
\* session was closed (Session.cpp:8-72).
THEOREM ReadsOneByOne == Spec => []OneReadAtATime
<1>1. IInv => OneReadAtATime
  BY DEF IInv
<1> QED
  BY <1>1, Invariance, PTL

\* The variables keep their types; onDisconnect is called at most once.
THEOREM TypeCorrect == Spec => []TypeOK
<1>1. IInv => TypeOK
  <2> SUFFICES ASSUME IInv PROVE TypeOK
    OBVIOUS
  <2>1. writes \in {0, 1}
    BY Bounds
  <2> QED
    BY <2>1, FramesAssumption DEF IInv, Typed, Bounded, Reported, TypeOK, FramesAssumption
<1> QED
  BY <1>1, Invariance, PTL

-----------------------------------------------------------------------------
(* A session is a channel.                                                 *)

\* A write that completes transmits the first of the pending envelopes.
LEMMA Transmits ==
  ASSUME IInv, WriteCompletes
  PROVE  C!Transmit
<1>1. /\ ~failed /\ message_queue # <<>> /\ Waiting(strand, "written") = 0
      /\ wire' = Append(wire, Head(message_queue)) /\ UNCHANGED <<accepted, failed>>
  BY Bounds DEF IInv, OneWrite, WriteCompletes
<1>2. /\ accepted \in Seq(Messages) /\ wire \in Seq(Messages) /\ message_queue \in Seq(Messages)
      /\ Head(message_queue) \in Messages /\ Len(wire') = Len(wire) + 1
      /\ 1 \in DOMAIN message_queue /\ Len(message_queue) >= 1
  BY <1>1 DEF IInv, Typed
<1>3. Len(wire) + 1 \in 1..Len(accepted)
  BY <1>1, <1>2, Bounds DEF Passed
<1>4. Head(message_queue) = accepted[Len(wire) + 1]
  BY <1>1, <1>2 DEF IInv, InOrder
<1>5. PICK k, n : k = Len(wire) + 1 /\ n = Len(accepted)
  OBVIOUS
<1>6. k \in 1..Len(accepted) /\ n \in k..Len(accepted) /\ k + 1 \in Nat
  BY <1>3, <1>5
<1>7. /\ Head(SubSeq(accepted, k, n)) = accepted[k]
      /\ Tail(SubSeq(accepted, k, n)) = SubSeq(accepted, k + 1, n)
      /\ SubSeq(accepted, k, n) # <<>>
  <2>1. SubSeq(accepted, k, n) \in Seq(Messages) /\ Len(SubSeq(accepted, k, n)) = n - k + 1
    BY <1>2, <1>6, SubSeqProperties
  <2>2. /\ Head(SubSeq(accepted, k, n)) = accepted[k]
        /\ Tail(SubSeq(accepted, k, n)) = SubSeq(accepted, k + 1, n)
    BY <1>2, <1>6, HeadTailOfSubSeq
  <2> QED
    BY <1>6, <2>1, <2>2
<1>8. Pending = SubSeq(accepted, k, n) /\ Pending' = SubSeq(accepted, k + 1, n)
  BY <1>1, <1>2, <1>5 DEF Pending
<1> QED
  BY <1>1, <1>4, <1>5, <1>7, <1>8 DEF C!Transmit

\* A call of send() adds to the pending envelopes.
LEMMA Accepts ==
  ASSUME IInv, NEW m \in Messages, Send(m)
  PROVE  C!Accept(m)
<1>1. accepted' = Append(accepted, m) /\ UNCHANGED <<wire, failed>>
  BY DEF Send, output
<1>2. PICK k : k = Len(wire) + 1
  OBVIOUS
<1>3. accepted \in Seq(Messages) /\ k \in 1..(Len(accepted) + 1)
  BY <1>2, Bounds DEF IInv, Typed
<1>4. SubSeq(Append(accepted, m), k, Len(Append(accepted, m))) =
        Append(SubSeq(accepted, k, Len(accepted)), m)
  BY <1>3, AppendSubSeq
<1>5. Pending' = Append(Pending, m)
  BY <1>1, <1>2, <1>4 DEF Pending
<1> QED
  BY <1>1, <1>5 DEF C!Accept

\* A step of a session is a step of a channel, or none.
LEMMA ChannelStep == IInv /\ [Next]_vars => [C!Next]_(C!vars)
<1> SUFFICES ASSUME IInv, [Next]_vars PROVE [C!Next]_(C!vars)
  OBVIOUS
<1>1. CASE UNCHANGED <<accepted, wire, failed>>
  BY <1>1 DEF C!vars, Pending
<1>2. CASE WriteFails
  <2>1. ~failed /\ failed' = TRUE /\ UNCHANGED <<accepted, wire>>
    BY <1>2, Bounds DEF IInv, OneWrite, WriteFails
  <2> QED
    BY <2>1 DEF C!Next, C!Fail, Pending
<1>3. ASSUME NEW m \in Messages, Send(m) PROVE C!Next
  BY <1>3, Accepts DEF C!Next
<1>4. CASE WriteCompletes
  BY <1>4, Transmits DEF C!Next
<1>5. CASE ReadCompletes \/ ReadFails \/ StrandStep
  BY <1>1, <1>5 DEF ReadCompletes, ReadFails, StrandStep, Enqueue, Written, WriteFailed,
     ReadFailed, HeaderRead, BodyRead, output
<1> QED
  BY <1>1, <1>2, <1>3, <1>4, <1>5 DEF Next, vars, output

\* Frames go out whole, once and in the order of the calls of send(), and none
\* after a failure (Session.cpp:73-116).
THEOREM ChannelKept == Spec => ChannelSpec
<1>1. Init => C!Init
  BY DEF Init, C!Init, Pending
<1> QED
  BY <1>1, Invariance, ChannelStep, PTL DEF Spec, ChannelSpec, C!Spec
=============================================================================
