------------------------------- MODULE Client -------------------------------
(***************************************************************************)
(* A client process (client/src/client, client/src/main, and the clients   *)
(* of tester/src/main): one connection and the threads around it.          *)
(*                                                                         *)
(* The program starts to connect, and its threads run the io_context: one  *)
(* in the chat client, several in the tester, where a socket has no strand *)
(* and two handlers of one client may run at once.  Handlers wait in       *)
(* ready.  The input thread types, or is the tester's main thread; ticking *)
(* tells the tester, whose clients also send on a timer.  When nothing is  *)
(* left to run, main lets go of the input thread and returns, which        *)
(* destroys what that thread uses.                                         *)
(*                                                                         *)
(* The two reads of a frame are one here, and a send() is a message.       *)
(*                                                                         *)
(* The operators called variants are slips the code does not make: with a  *)
(* variant in the place of the definition after it, a property fails.      *)
(***************************************************************************)
EXTENDS Naturals, Sequences, Functions

CONSTANTS Messages,    \* the envelopes given to send(), each once
          Threads,     \* the threads that run the io_context
          MaxReceived  \* frames the server sends, at most

ASSUME ClientAssumption == MaxReceived \in Nat /\ "none" \notin Messages

VARIABLES ticking,      \* the timer of a tester's client re-arms itself
          accepted,     \* history: the envelopes given to send(), in that order
          ready,        \* handlers waiting for a thread
          pushing,      \* thread -> the send() closure it is in the midst of
          write_queue,
          writes,       \* async_writes in flight
          wire,         \* frames written whole
          failed,       \* a write has failed
          conn,         \* the socket
          reading,      \* a read is in flight
          received,     \* frames the server has sent
          work_guard,
          input,        \* what the input thread is at
          causes,       \* history: what has asked the client to close
          process

output == <<write_queue, writes, wire, failed>>
socket == <<conn, reading, received>>
life == <<work_guard, input, causes, process>>
vars == <<ticking, accepted, ready, pushing, output, socket, life>>

Kinds == {"connected", "refused", "written", "write_failed", "read",
          "read_failed", "tick", "quit", "close"}
Handler == [kind : {"send"}, m : Messages] \cup [kind : Kinds, m : {"none"}]

Idle == [m |-> "none", write_in_progress |-> FALSE]

TypeOK ==
  /\ ticking \in BOOLEAN
  /\ accepted \in Seq(Messages)
  /\ ready \in Seq(Handler)
  /\ pushing \in [Threads -> [m : Messages, write_in_progress : BOOLEAN] \cup {Idle}]
  /\ write_queue \in Seq(Messages)
  /\ writes \in Nat
  /\ wire \in Seq(Messages)
  /\ failed \in BOOLEAN
  /\ conn \in {"connecting", "open", "shut"}
  /\ reading \in BOOLEAN
  /\ received \in 0..MaxReceived
  /\ work_guard \in BOOLEAN
  /\ input \in {"typing", "ended"}
  /\ causes \in SUBSET {"quit", "interrupt", "refused"}
  /\ process \in {"running", "returned", "aborted"}

\* An address that is none is never connected to, and no handler hears of it.
Init ==
  /\ ticking \in BOOLEAN
  /\ accepted = <<>>
  /\ ready = <<>> /\ pushing = [t \in Threads |-> Idle]
  /\ write_queue = <<>> /\ writes = 0 /\ wire = <<>> /\ failed = FALSE
  /\ conn \in {"connecting", "shut"} /\ reading = FALSE /\ received = 0
  /\ work_guard = TRUE /\ input = "typing" /\ causes = {} /\ process = "running"

Of(k) == [kind |-> k, m |-> "none"]
SendOf(m) == [kind |-> "send", m |-> m]

Unsent == Messages \ Range(accepted)

-----------------------------------------------------------------------------
(* The input thread and the signal handler.                                *)

Typing == process = "running" /\ input = "typing"

\* Variant: the newest envelope first.
SendFirst(m) ==
  /\ Typing
  /\ m \in Unsent
  /\ accepted' = Append(accepted, m)
  /\ ready' = <<SendOf(m)>> \o ready
  /\ UNCHANGED <<ticking, pushing, output, socket, life>>

\* A line that is sent.
Send(m) ==
  /\ Typing
  /\ m \in Unsent
  /\ accepted' = Append(accepted, m)
  /\ ready' = Append(ready, SendOf(m))
  /\ UNCHANGED <<ticking, pushing, output, socket, life>>

\* Variant: after /quit the thread waits for the next line.
QuitAndGoOn ==
  /\ Typing
  /\ causes' = causes \cup {"quit"}
  /\ ready' = Append(ready, Of(IF ticking THEN "close" ELSE "quit"))
  /\ UNCHANGED <<ticking, accepted, pushing, output, socket, input, work_guard, process>>

\* /quit: a handler that calls close(), and the thread ends.  The tester's
\* main calls close() itself.
Quit ==
  /\ Typing
  /\ causes' = causes \cup {"quit"}
  /\ input' = "ended"
  /\ ready' = Append(ready, Of(IF ticking THEN "close" ELSE "quit"))
  /\ UNCHANGED <<ticking, accepted, pushing, output, socket, work_guard, process>>

\* The end of the standard input ends the thread and nothing else.
EndOfInput ==
  /\ Typing /\ ~ticking
  /\ input' = "ended"
  /\ UNCHANGED <<ticking, accepted, ready, pushing, output, socket,
                 work_guard, causes, process>>

\* signal_handler, once.
Interrupt ==
  /\ process = "running" /\ ~ticking /\ "interrupt" \notin causes
  /\ causes' = causes \cup {"interrupt"}
  /\ ready' = Append(ready, Of("quit"))
  /\ UNCHANGED <<ticking, accepted, pushing, output, socket,
                 work_guard, input, process>>

-----------------------------------------------------------------------------
(* The network and the clock.                                              *)

Connects ==
  /\ conn = "connecting"
  /\ conn' = "open"
  /\ ready' = Append(ready, Of("connected"))
  /\ UNCHANGED <<ticking, accepted, pushing, output, reading, received, life>>

ConnectFails ==
  /\ conn = "connecting"
  /\ conn' = "shut"
  /\ ready' = Append(ready, Of("refused"))
  /\ UNCHANGED <<ticking, accepted, pushing, output, reading, received, life>>

\* The buffer of an async_write is the front of write_queue.  A write waits
\* for the connection.
WriteCompletes ==
  /\ writes > 0 /\ conn = "open"
  /\ writes' = writes - 1
  /\ wire' = Append(wire, Head(write_queue))
  /\ ready' = Append(ready, Of("written"))
  /\ UNCHANGED <<ticking, accepted, pushing, write_queue, failed, socket, life>>

WriteFails ==
  /\ writes > 0
  /\ writes' = writes - 1
  /\ failed' = TRUE
  /\ ready' = Append(ready, Of("write_failed"))
  /\ UNCHANGED <<ticking, accepted, pushing, write_queue, wire, socket, life>>

ReadCompletes ==
  /\ reading /\ conn = "open" /\ received < MaxReceived
  /\ reading' = FALSE
  /\ received' = received + 1
  /\ ready' = Append(ready, Of("read"))
  /\ UNCHANGED <<ticking, accepted, pushing, output, conn, life>>

\* The end of the connection, a bad length, or a body that is no envelope.
ReadFails ==
  /\ reading
  /\ reading' = FALSE
  /\ ready' = Append(ready, Of("read_failed"))
  /\ UNCHANGED <<ticking, accepted, pushing, output, conn, received, life>>

\* The timer expires; it is armed unless its handler waits for a thread.
Expire ==
  /\ ticking /\ process = "running" /\ Of("tick") \notin Range(ready)
  /\ ready' = Append(ready, Of("tick"))
  /\ UNCHANGED <<ticking, accepted, pushing, output, socket, life>>

-----------------------------------------------------------------------------
(* The handlers, each by some thread t.                                    *)

Turn(t, k) ==
  /\ process = "running" /\ pushing[t] = Idle
  /\ ready # <<>> /\ Head(ready).kind = k

\* The handler is done; it has posted the handlers more.
Done(more) == ready' = Tail(ready) \o more

\* The handler has called send(), or has not.
SendsOne ==
  \E m \in Unsent : accepted' = Append(accepted, m) /\ Done(<<SendOf(m)>>)
SendsNone == UNCHANGED accepted /\ Done(<<>>)

\* The closure posted by send() looks at the queue ...
Look(t) ==
  /\ Turn(t, "send")
  /\ pushing' = [pushing EXCEPT ![t] = [m |-> Head(ready).m,
                                        write_in_progress |-> write_queue # <<>>]]
  /\ Done(<<>>)
  /\ UNCHANGED <<ticking, accepted, output, socket, life>>

\* ... and then adds to it; do_write, if it was empty.
Push(t) ==
  /\ process = "running" /\ pushing[t] # Idle
  /\ write_queue' = Append(write_queue, pushing[t].m)
  /\ writes' = IF pushing[t].write_in_progress THEN writes ELSE writes + 1
  /\ pushing' = [pushing EXCEPT ![t] = Idle]
  /\ UNCHANGED <<ticking, accepted, ready, wire, failed, socket, life>>

\* Variant: the next envelope waits for the next send().
WrittenPaused(t) ==
  /\ Turn(t, "written")
  /\ write_queue' = Tail(write_queue)
  /\ Done(<<>>)
  /\ UNCHANGED <<ticking, accepted, pushing, writes, wire, failed, socket, life>>

\* handle_write without an error.
Written(t) ==
  /\ Turn(t, "written")
  /\ write_queue' = Tail(write_queue)
  /\ writes' = IF Len(write_queue) > 1 THEN writes + 1 ELSE writes
  /\ Done(<<>>)
  /\ UNCHANGED <<ticking, accepted, pushing, wire, failed, socket, life>>

\* handle_write and the read loop with an error: handle_error only tells the
\* user, and the connection is left as it is.
Failed(t) ==
  /\ Turn(t, "write_failed") \/ Turn(t, "read_failed")
  /\ Done(<<>>)
  /\ UNCHANGED <<ticking, accepted, pushing, output, socket, life>>

\* The connection stands: a tester's client registers, and the read loop
\* starts.
Connected(t) ==
  /\ Turn(t, "connected") /\ conn = "open"
  /\ (ticking /\ SendsOne) \/ SendsNone
  /\ reading' = TRUE
  /\ UNCHANGED <<ticking, pushing, output, conn, received, life>>

\* remote_endpoint() throws when the peer, or close(), has ended the connection
\* in the meantime; the exception leaves run(), and the destructor of a thread
\* that was not joined ends the process.
PeerGone(t) ==
  /\ Turn(t, "connected")
  /\ process' = "aborted"
  /\ Done(<<>>)
  /\ UNCHANGED <<ticking, accepted, pushing, output, socket,
                 work_guard, input, causes>>

\* There is no connection: the chat client calls close().
Refused(t) ==
  /\ Turn(t, "refused")
  /\ causes' = causes \cup {"refused"}
  /\ Done(IF ticking THEN <<>> ELSE <<Of("close")>>)
  /\ UNCHANGED <<ticking, accepted, pushing, output, socket,
                 work_guard, input, process>>

\* handle_server_message, which may send, and the next do_read_header; on a
\* closed socket that read fails at once.
Read(t) ==
  /\ Turn(t, "read")
  /\ SendsOne \/ SendsNone
  /\ reading' = TRUE
  /\ UNCHANGED <<ticking, pushing, output, conn, received, life>>

\* The timer's handler sends, and arms the timer again.
Tick(t) ==
  /\ Turn(t, "tick")
  /\ SendsOne \/ (Unsent = {} /\ SendsNone)
  /\ UNCHANGED <<ticking, pushing, output, socket, life>>

\* The handler of /quit and of a signal: close() posts the rest.
CallClose(t) ==
  /\ Turn(t, "quit")
  /\ Done(<<Of("close")>>)
  /\ UNCHANGED <<ticking, accepted, pushing, output, socket, life>>

\* What socket.close() aborts, in the order connect, write, read.
Aborted ==
  (IF conn = "connecting" THEN <<Of("refused")>> ELSE <<>>)
    \o [i \in 1..writes |-> Of("write_failed")]
    \o (IF reading THEN <<Of("read_failed")>> ELSE <<>>)

CloseSocket ==
  /\ conn' = "shut"
  /\ reading' = FALSE
  /\ writes' = 0
  /\ failed' = (failed \/ writes > 0)
  /\ Done(Aborted)

\* Variant: the work guard is kept.
CloseKeepsGuard(t) ==
  /\ Turn(t, "close")
  /\ CloseSocket
  /\ UNCHANGED <<ticking, accepted, pushing, write_queue, wire, received, life>>

\* The handler close() posts.
Close(t) ==
  /\ Turn(t, "close")
  /\ CloseSocket
  /\ work_guard' = FALSE
  /\ UNCHANGED <<ticking, accepted, pushing, write_queue, wire, received,
                 input, causes, process>>

\* run() returns in every thread, for lack of work; main detaches the input
\* thread and returns.
Return ==
  /\ process = "running"
  /\ ready = <<>> /\ \A t \in Threads : pushing[t] = Idle
  /\ ~work_guard /\ ~ticking /\ conn # "connecting" /\ writes = 0 /\ ~reading
  /\ process' = "returned"
  /\ UNCHANGED <<ticking, accepted, ready, pushing, output, socket,
                 work_guard, input, causes>>

-----------------------------------------------------------------------------
ThreadStep(t) ==
  \/ Look(t) \/ Push(t) \/ Written(t) \/ Failed(t)
  \/ Connected(t) \/ PeerGone(t) \/ Refused(t)
  \/ Read(t) \/ Tick(t) \/ CallClose(t) \/ Close(t)

Next ==
  \/ \E m \in Messages : Send(m)
  \/ Quit \/ EndOfInput \/ Interrupt
  \/ Connects \/ ConnectFails \/ WriteCompletes \/ WriteFails
  \/ ReadCompletes \/ ReadFails \/ Expire
  \/ \E t \in Threads : ThreadStep(t)
  \/ Return

Spec == Init /\ [][Next]_vars

\* Threads run while there is a handler; a connect, a write, and a read on a
\* closed socket end in one way or the other; main returns when run() does.
\* Nobody is bound to type, and a read on an open socket may wait for ever.
FairSpec ==
  /\ Spec
  /\ \A t \in Threads : WF_vars(ThreadStep(t))
  /\ WF_vars(Connects \/ ConnectFails)
  /\ WF_vars(WriteCompletes \/ WriteFails)
  /\ WF_vars(conn = "shut" /\ ReadFails)
  /\ WF_vars(Return)

-----------------------------------------------------------------------------
(* Properties.                                                             *)

\* The client's own write queue keeps what Channel promises too: whole frames,
\* once, in the order of the calls of send(), and none after a failure, also
\* when send() is called before the connection stands (client.cpp:114-146).
Pending == SubSeq(accepted, Len(wire) + 1, Len(accepted))
C == INSTANCE Channel WITH pending <- Pending
ChannelSpec == C!Spec

Settled(m) == m \in Range(wire) \/ failed

\* What is handed over is written, or a write has failed: a connect that is
\* refused, an address that is none and a close() in between included.
SendsAreWritten ==
  \A m \in Messages : m \in Range(accepted) ~> Settled(m) \/ process = "aborted"

\* A client asked to close, by /quit, by a signal or because there is no
\* connection, ends, whatever reads, writes and connects are in flight
\* (client.cpp:61-63, client main.cpp:10-19, 38-45, 130).
Quits == causes # {} /\ ~ticking ~> process # "running"

\* When main returns, the input thread is past its use of what main destroys
\* unless a signal or a refused connection ended the client (main.cpp:138-147
\* detaches it); and nothing that was typed is left over in a queue.
QuitIsClean ==
  process = "returned" =>
    /\ input = "ended" \/ causes \cap {"interrupt", "refused"} # {}
    /\ \A m \in Range(accepted) : Settled(m)
=============================================================================
