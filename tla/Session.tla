------------------------------- MODULE Session ------------------------------
(***************************************************************************)
(* One connection (server/src/session/Session): the loop that reads frames *)
(* and the queue of frames to write.  Threads call send() at any time; all *)
(* else runs on the session's strand, one handler after the other.         *)
(*                                                                         *)
(* The strand's queue is explicit: a handler that asio has been given, or  *)
(* whose read or write has completed, waits there for its turn.  Frames    *)
(* are whole, their bytes are left out.                                    *)
(*                                                                         *)
(* The operators called variants are slips the code does not make: with a  *)
(* variant in the place of the definition after it, a property fails.      *)
(***************************************************************************)
EXTENDS Naturals, Sequences, FiniteSets, Functions

CONSTANTS Messages,    \* the envelopes given to send(), each once
          MaxReceived  \* frames the client sends, at most

ASSUME FramesAssumption == MaxReceived \in Nat

VARIABLES accepted,       \* history: the envelopes given to send(), in that order
          strand,         \* handlers waiting for the strand
          message_queue,
          writes,         \* async_writes in flight
          wire,           \* frames written whole
          failed,         \* a write has failed
          reading,        \* the read in flight, or none
          received,       \* envelopes given to onMessage
          is_closed,
          disconnects     \* calls of onDisconnect

output == <<message_queue, writes, wire, failed>>
input == <<reading, received>>
closing == <<is_closed, disconnects>>
vars == <<accepted, strand, output, input, closing>>

\* What waits for the strand: the closure of a send(), or the completion of a
\* write or of a read.
Handler == [kind : {"send"}, m : Messages]
             \cup {[kind |-> k, m |-> "none"] :
                     k \in {"written", "write_failed", "header", "body", "read_failed"}}

TypeOK ==
  /\ accepted \in Seq(Messages)
  /\ strand \in Seq(Handler)
  /\ message_queue \in Seq(Messages)
  /\ writes \in {0, 1}
  /\ wire \in Seq(Messages)
  /\ failed \in BOOLEAN
  /\ reading \in {"header", "body", "none"}
  /\ received \in 0..MaxReceived
  /\ is_closed \in BOOLEAN
  /\ disconnects \in {0, 1}

\* start()
Init ==
  /\ accepted = <<>>
  /\ strand = <<>>
  /\ message_queue = <<>> /\ writes = 0 /\ wire = <<>> /\ failed = FALSE
  /\ reading = "header" /\ received = 0
  /\ is_closed = FALSE /\ disconnects = 0

Completion(k) == Append(strand, [kind |-> k, m |-> "none"])

-----------------------------------------------------------------------------
(* Other threads and the network.                                          *)

\* Variant: the newest envelope first.
SendFirst(m) ==
  /\ m \notin Range(accepted)
  /\ accepted' = Append(accepted, m)
  /\ strand' = <<[kind |-> "send", m |-> m]>> \o strand
  /\ UNCHANGED <<output, input, closing>>

\* Some thread calls send().
Send(m) ==
  /\ m \notin Range(accepted)
  /\ accepted' = Append(accepted, m)
  /\ strand' = Append(strand, [kind |-> "send", m |-> m])
  /\ UNCHANGED <<output, input, closing>>

\* The buffer of an async_write is the front of message_queue, and is read
\* while the write goes on.
WriteCompletes ==
  /\ writes > 0 /\ ~failed
  /\ writes' = writes - 1
  /\ wire' = Append(wire, Head(message_queue))
  /\ strand' = Completion("written")
  /\ UNCHANGED <<accepted, message_queue, failed, input, closing>>

WriteFails ==
  /\ writes > 0
  /\ writes' = writes - 1
  /\ failed' = TRUE
  /\ strand' = Completion("write_failed")
  /\ UNCHANGED <<accepted, message_queue, wire, input, closing>>

\* A header or a body has arrived.
ReadCompletes ==
  /\ reading # "none" /\ received < MaxReceived
  /\ strand' = Completion(reading)
  /\ reading' = "none"
  /\ UNCHANGED <<accepted, output, received, closing>>

\* End of file, a reset, a bad length, or a body that is no envelope.
ReadFails ==
  /\ reading # "none"
  /\ strand' = Completion("read_failed")
  /\ reading' = "none"
  /\ UNCHANGED <<accepted, output, received, closing>>

-----------------------------------------------------------------------------
(* The handlers.                                                           *)

Turn(k) == strand # <<>> /\ Head(strand).kind = k /\ strand' = Tail(strand)

\* Variant: a write is started for every envelope.
AlwaysWrite == writes' = writes + 1

\* do_write, if no write is in progress.
WriteIfIdle == writes' = IF message_queue = <<>> THEN writes + 1 ELSE writes

\* The closure posted by send().
Enqueue ==
  /\ Turn("send")
  /\ WriteIfIdle
  /\ message_queue' = Append(message_queue, Head(strand).m)
  /\ UNCHANGED <<accepted, wire, failed, input, closing>>

\* Variant: the next envelope waits for the next send().
WrittenPaused ==
  /\ Turn("written")
  /\ message_queue' = Tail(message_queue)
  /\ UNCHANGED <<accepted, writes, wire, failed, input, closing>>

\* handle_write without an error.
Written ==
  /\ Turn("written")
  /\ message_queue' = Tail(message_queue)
  /\ writes' = IF Len(message_queue) > 1 THEN writes + 1 ELSE writes
  /\ UNCHANGED <<accepted, wire, failed, input, closing>>

\* Variant: no error is reported.
CloseQuietly == is_closed' = TRUE /\ UNCHANGED disconnects

\* handle_error.
HandleError ==
  IF is_closed THEN UNCHANGED closing
  ELSE is_closed' = TRUE /\ disconnects' = disconnects + 1

\* handle_write with an error: nothing leaves message_queue any more, so no
\* send() starts a write.
WriteFailed ==
  /\ Turn("write_failed")
  /\ HandleError
  /\ UNCHANGED <<accepted, output, input>>

ReadFailed ==
  /\ Turn("read_failed")
  /\ HandleError
  /\ UNCHANGED <<accepted, output, input>>

\* The header was read: do_read_body.
HeaderRead ==
  /\ Turn("header")
  /\ reading' = "body"
  /\ UNCHANGED <<accepted, output, received, closing>>

\* The body was read: onMessage, do_read_header.  Whether the session has been
\* closed makes no difference.
BodyRead ==
  /\ Turn("body")
  /\ received' = received + 1
  /\ reading' = "header"
  /\ UNCHANGED <<accepted, output, closing>>

-----------------------------------------------------------------------------
StrandStep ==
  Enqueue \/ Written \/ WriteFailed \/ ReadFailed \/ HeaderRead \/ BodyRead

Next ==
  \/ \E m \in Messages : Send(m)
  \/ WriteCompletes \/ WriteFails \/ ReadCompletes \/ ReadFails
  \/ StrandStep

Spec == Init /\ [][Next]_vars

\* Handlers get their turn, and a write ends in one way or the other; nobody
\* is bound to send, and a read may wait for ever.
FairSpec == Spec /\ WF_vars(StrandStep) /\ WF_vars(WriteCompletes \/ WriteFails)

-----------------------------------------------------------------------------
(* Properties.                                                             *)

\* The session keeps what Channel promises: frames go out whole, once and in
\* order, and none after a failure, although only the emptiness of
\* message_queue tells whether a write is in progress (Session.cpp:86-89).
Pending == SubSeq(accepted, Len(wire) + 1, Len(accepted))
C == INSTANCE Channel WITH pending <- Pending
ChannelSpec == C!Spec

\* The emptiness of message_queue tells the truth: it holds a frame if and
\* only if one write is in flight, has just been completed, or has failed.
OneWriteAtATime ==
  /\ writes + Cardinality({i \in DOMAIN strand : strand[i].kind = "written"})
       = IF message_queue = <<>> \/ failed THEN 0 ELSE 1
  /\ failed => message_queue # <<>>

\* Every envelope given to send() reaches the wire, unless a write fails.
EverythingIsWritten ==
  \A m \in Messages : m \in Range(accepted) ~> m \in Range(wire) \/ failed

\* The end of a connection is reported, once and for all, whichever side of it
\* notices: the read loop and a write may both run into it.
FailureIsReported ==
  failed \/ (\E i \in DOMAIN strand : strand[i].kind = "read_failed")
    ~> [](disconnects = 1)
=============================================================================
