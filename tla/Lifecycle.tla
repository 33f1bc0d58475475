------------------------------ MODULE Lifecycle -----------------------------
(***************************************************************************)
(* The life of the server process (server/src/main, Server::start_accept   *)
(* and handle_accept): main lets threads run the io_context, runs it too,  *)
(* and waits for a signal, upon which the threads should run out of work,  *)
(* be joined, and main return.                                             *)
(*                                                                         *)
(* What keeps an io_context busy is its work guard and each operation that *)
(* has been started: the accept, and the reads of the sessions.            *)
(***************************************************************************)
EXTENDS FiniteSets

CONSTANTS Workers,  \* the threads main starts
          Main,     \* the thread of main()
          Clients   \* the connections clients may make

VARIABLES accepting,   \* an async_accept is in flight
          sessions,    \* the sessions whose read is in flight
          work_guard,
          signalled,   \* the handler of the signal has run
          thread,      \* what run() has come to in each thread
          process

vars == <<accepting, sessions, work_guard, signalled, thread, process>>

Threads == Workers \cup {Main}

TypeOK ==
  /\ {accepting, work_guard, signalled} \subseteq BOOLEAN
  /\ sessions \subseteq Clients
  /\ thread \in [Threads -> {"running", "returned", "dead"}]
  /\ process \in {"running", "returned", "aborted"}

\* server.run() and the threads have been started.
Init ==
  /\ accepting = TRUE /\ sessions = {}
  /\ work_guard = TRUE /\ signalled = FALSE
  /\ thread = [t \in Threads |-> "running"]
  /\ process = "running"

\* A thread takes a handler.
Runs(t) == process = "running" /\ thread[t] = "running"

\* handle_accept: the session starts, unless the accept failed or the peer has
\* gone; then start_accept again in any case.
HandleAccept(t) ==
  /\ Runs(t) /\ accepting
  /\ \/ \E c \in Clients \ sessions : sessions' = sessions \cup {c}
     \/ UNCHANGED sessions
  /\ accepting' = TRUE
  /\ UNCHANGED <<work_guard, signalled, thread, process>>

\* The read loop of a session ends.
EndSession(t) ==
  /\ Runs(t)
  /\ \E c \in sessions : sessions' = sessions \ {c}
  /\ UNCHANGED <<accepting, work_guard, signalled, thread, process>>

\* A handler throws.  A worker catches it outside run() and ends; main's
\* unwinding destroys the threads it has not joined.
Throw(t) ==
  /\ Runs(t) /\ sessions # {}
  /\ thread' = [thread EXCEPT ![t] = "dead"]
  /\ process' = IF t # Main THEN process
                ELSE IF Workers = {} THEN "returned" ELSE "aborted"
  /\ UNCHANGED <<accepting, sessions, work_guard, signalled>>

\* The handler of the signal: nothing but the guard is let go of.
Signal(t) ==
  /\ Runs(t) /\ ~signalled
  /\ signalled' = TRUE
  /\ work_guard' = FALSE
  /\ UNCHANGED <<accepting, sessions, thread, process>>

\* run() returns for lack of work.
RunReturns(t) ==
  /\ Runs(t)
  /\ ~work_guard /\ ~accepting /\ sessions = {}
  /\ thread' = [thread EXCEPT ![t] = "returned"]
  /\ UNCHANGED <<accepting, sessions, work_guard, signalled, process>>

\* main has joined the workers.
Return ==
  /\ process = "running" /\ thread[Main] = "returned"
  /\ \A w \in Workers : thread[w] # "running"
  /\ process' = "returned"
  /\ UNCHANGED <<accepting, sessions, work_guard, signalled, thread>>

Next ==
  \/ \E t \in Threads : \/ HandleAccept(t) \/ EndSession(t) \/ Throw(t)
                        \/ Signal(t) \/ RunReturns(t)
  \/ Return

Spec == Init /\ [][Next]_vars

\* Clients go in the end, and a thread comes to what there is to do.
FairSpec ==
  /\ Spec
  /\ \A t \in Threads : WF_vars(EndSession(t)) /\ WF_vars(RunReturns(t))
  /\ WF_vars(Return)

-----------------------------------------------------------------------------
\* After "Shutdown signal received. Stopping server..." the server stops, and
\* can report that it "has shut down gracefully" (main.cpp:41-42, 61): each accept
\* starts the next one, so that run() never lacks work.
ShutsDown == signalled ~> process # "running"
=============================================================================
