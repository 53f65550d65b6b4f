------------------------------ MODULE Listener ------------------------------
(***************************************************************************)
(* The listener thread of httpdnsd (src/server/httpserver.c,               *)
(* httpserver_run and what it calls) together with the signals, the        *)
(* clients and the detached worker threads it runs against.                *)
(*                                                                         *)
(* One action is one stretch of code between two points at which another   *)
(* thread, a client or a signal handler can be noticed.  Only what the     *)
(* listener can see of a worker is modelled here: it runs, it may raise    *)
(* SIGPIPE, it ends.  RequestWorker models what it does.                   *)
(***************************************************************************)
EXTENDS Naturals, FiniteSets

CONSTANTS
  Conns,            \* connections the clients may make, each made once
  MaxRetries,       \* attempts of the registration loops (3 in the code)
  MaxFds,           \* descriptors the process may hold for connections
  MaxSignals        \* bound: SIGINT and SIGTERM sent in one behaviour

ASSUME ListenerAssumption ==
  /\ MaxRetries \in Nat \ {0}
  /\ MaxFds \in Nat \ {0}
  /\ MaxSignals \in Nat

VARIABLES
  pc,               \* where the listener thread stands in httpserver_run
  caught_signal,    \* the volatile flag signal_handler sets
  listen_socket,    \* "none", "open", "shut" (after shutdown(2)) or "closed"
  max_retries,      \* loop counter of httpserver_register and _deregister
  conn,             \* what has become of each connection
  signals,          \* history: SIGINT and SIGTERM sent so far
  late,             \* history: connections accepted after caught_signal was set
  result            \* "none" until httpserver_run returns, then "ok" or "error"

vars == <<pc, caught_signal, listen_socket, max_retries, conn,
          signals, late, result>>

\* Program points, in the order the code passes them.  "enter" is the stretch
\* between the test of caught_signal and the kernel's accept(); "accept" is the
\* thread blocked inside it.
Points == {"sigaction", "listen", "register", "loop", "enter", "accept",
           "handle", "deregister", "close", "return", "exited"}

\* "held": returned by accept(), not yet handed to a thread.  "worker": owned
\* by a running worker.  "dropped": its thread could not be created, and the
\* descriptor is left open with nobody to close it.  "cut": its worker was
\* killed by the exit of the process.
ConnStates == {"idle", "queued", "refused", "held", "worker", "closed",
               "dropped", "cut"}

TypeOK ==
  /\ pc \in Points
  /\ caught_signal \in BOOLEAN
  /\ listen_socket \in {"none", "open", "shut", "closed"}
  /\ max_retries \in 0..MaxRetries
  /\ conn \in [Conns -> ConnStates]
  /\ signals \in 0..MaxSignals
  /\ late \subseteq Conns
  /\ result \in {"none", "ok", "error"}

Init ==
  /\ pc = "sigaction"
  /\ caught_signal = FALSE
  /\ listen_socket = "none"
  /\ max_retries = 0
  /\ conn = [c \in Conns |-> "idle"]
  /\ signals = 0
  /\ late = {}
  /\ result = "none"

In(state) == {c \in Conns : conn[c] = state}

\* Descriptors open for connections; one that was dropped is never given back.
OpenFds == In("held") \cup In("worker") \cup In("dropped")

(***************************************************************************)
(* Starting up                                                             *)
(***************************************************************************)

\* Installing the three handlers.  Failure is the one path that returns -1.
InstallHandlers ==
  /\ pc = "sigaction"
  /\ \/ pc' = "listen" /\ UNCHANGED result
     \/ pc' = "exited" /\ result' = "error"
  /\ UNCHANGED <<caught_signal, listen_socket, max_retries, conn, signals, late>>

\* Mutant of OpenListenSocket: a stale flag is cleared once the socket is open.
OpenClearsFlag ==
  /\ pc = "listen"
  /\ listen_socket' = "open"
  /\ max_retries' = MaxRetries
  /\ pc' = "register"
  /\ caught_signal' = FALSE
  /\ UNCHANGED <<conn, signals, late, result>>

\* socket_tcp_listen gives a listening descriptor or a negative number.
OpenListenSocket ==
  /\ pc = "listen"
  /\ \/ /\ listen_socket' = "open"
        /\ max_retries' = MaxRetries
        /\ pc' = "register"
     \/ /\ pc' = "close"
        /\ UNCHANGED <<listen_socket, max_retries>>
  /\ UNCHANGED <<caught_signal, conn, signals, late, result>>

\* One pass of a registration loop at `from', which goes on to `next'.  A
\* failed http_put_buf may have written to a connection the central server had
\* reset, and then raised SIGPIPE in this thread.  The attempt ends with its
\* read of the answer, which has no timeout: nothing says that it ever does.
\* The sleep between attempts changes no state and is left out.
RegistrationAttempt(from, next) ==
  /\ pc = from
  /\ \/ /\ pc' = next
        /\ UNCHANGED <<caught_signal, max_retries>>
     \/ /\ max_retries' = max_retries - 1
        /\ pc' = IF max_retries = 1 THEN next ELSE from
        /\ caught_signal' = TRUE \/ UNCHANGED caught_signal
  /\ UNCHANGED <<listen_socket, conn, signals, late, result>>

Register == RegistrationAttempt("register", "loop")

(***************************************************************************)
(* The accept loop                                                         *)
(***************************************************************************)

\* Mutant of CheckSignal: the flag is not looked at.
NeverCheckSignal ==
  /\ pc = "loop"
  /\ pc' = "enter"
  /\ UNCHANGED <<caught_signal, listen_socket, max_retries, conn, signals,
                 late, result>>

\* The head of the loop: shut down once a signal was caught, else accept.
CheckSignal ==
  /\ pc = "loop"
  /\ IF caught_signal
       THEN /\ listen_socket' = "shut"
            /\ max_retries' = MaxRetries
            /\ pc' = "deregister"
       ELSE /\ pc' = "enter"
            /\ UNCHANGED <<listen_socket, max_retries>>
  /\ UNCHANGED <<caught_signal, conn, signals, late, result>>

\* The call into the kernel: from here on a signal interrupts the accept.
EnterAccept ==
  /\ pc = "enter"
  /\ pc' = "accept"
  /\ UNCHANGED <<caught_signal, listen_socket, max_retries, conn, signals,
                 late, result>>

\* Mutant of Accept: a client accepted after a signal is not handled any more.
AcceptAndStop(c) ==
  /\ pc = "accept"
  /\ conn[c] = "queued"
  /\ Cardinality(OpenFds) < MaxFds
  /\ conn' = [conn EXCEPT ![c] = "held"]
  /\ late' = IF caught_signal THEN late \cup {c} ELSE late
  /\ pc' = IF caught_signal THEN "loop" ELSE "handle"
  /\ UNCHANGED <<caught_signal, listen_socket, max_retries, signals, result>>

Accept(c) ==
  /\ pc = "accept"
  /\ conn[c] = "queued"
  /\ Cardinality(OpenFds) < MaxFds
  /\ conn' = [conn EXCEPT ![c] = "held"]
  /\ late' = IF caught_signal THEN late \cup {c} ELSE late
  /\ pc' = "handle"
  /\ UNCHANGED <<caught_signal, listen_socket, max_retries, signals, result>>

\* accept() fails: at once for want of a descriptor, whether or not a client is
\* queued, or because a queued client gave up.  It is logged and tried again.
AcceptFails ==
  /\ pc = "accept"
  /\ \/ Cardinality(OpenFds) >= MaxFds /\ UNCHANGED conn
     \/ \E c \in In("queued") : conn' = [conn EXCEPT ![c] = "refused"]
  /\ pc' = "loop"
  /\ UNCHANGED <<caught_signal, listen_socket, max_retries, signals, late, result>>

\* Mutant of HandleConnection: a failed spawn is tried again for ever.
SpawnForEver(c) ==
  /\ pc = "handle"
  /\ conn[c] = "held"
  /\ UNCHANGED vars

\* httpserver_handle_connection: spawn a detached worker, which then owns the
\* descriptor.  When the thread cannot be created the descriptor is dropped.
HandleConnection(c) ==
  /\ pc = "handle"
  /\ conn[c] = "held"
  /\ \E fate \in {"worker", "dropped"} : conn' = [conn EXCEPT ![c] = fate]
  /\ pc' = "loop"
  /\ UNCHANGED <<caught_signal, listen_socket, max_retries, signals, late, result>>

(***************************************************************************)
(* Shutting down                                                           *)
(***************************************************************************)

Deregister == RegistrationAttempt("deregister", "close")

\* socket_close does nothing to the -1 of a socket that was never opened.
CloseListenSocket ==
  /\ pc = "close"
  /\ listen_socket' = IF listen_socket = "none" THEN "none" ELSE "closed"
  /\ result' = "ok"
  /\ pc' = "return"
  /\ UNCHANGED <<caught_signal, max_retries, conn, signals, late>>

\* main returns: the process ends, and with it every worker still running.
ExitProcess ==
  /\ pc = "return"
  /\ conn' = [c \in Conns |->
                CASE conn[c] = "worker" -> "cut"
                  [] conn[c] = "queued" -> "refused"
                  [] OTHER -> conn[c]]
  /\ pc' = "exited"
  /\ UNCHANGED <<caught_signal, listen_socket, max_retries, signals, late, result>>

(***************************************************************************)
(* Clients, workers and signals                                            *)
(***************************************************************************)

ClientConnects(c) ==
  /\ conn[c] = "idle"
  /\ listen_socket = "open"
  /\ conn' = [conn EXCEPT ![c] = "queued"]
  /\ UNCHANGED <<pc, caught_signal, listen_socket, max_retries, signals, late, result>>

\* A worker closes its connection and ends; nobody waits for it.
WorkerEnds(c) ==
  /\ conn[c] = "worker"
  /\ conn' = [conn EXCEPT ![c] = "closed"]
  /\ UNCHANGED <<pc, caught_signal, listen_socket, max_retries, signals, late, result>>

\* A worker writes to a connection its client has reset, and gets EPIPE for it.
\* SIGPIPE goes to the writing thread, so that the listener's accept() is not
\* interrupted.
WorkerSigpipe(c) ==
  /\ conn[c] = "worker"
  /\ caught_signal' = TRUE
  /\ UNCHANGED <<pc, listen_socket, max_retries, conn, signals, late, result>>

\* SIGINT or SIGTERM is sent to the process and delivered to one of its
\* threads.  Only delivery to a listener blocked in accept() makes that call
\* fail with EINTR and the loop start over.
Signal ==
  /\ pc \notin {"sigaction", "exited"}
  /\ signals < MaxSignals
  /\ signals' = signals + 1
  /\ caught_signal' = TRUE
  /\ \/ pc' = IF pc = "accept" THEN "loop" ELSE pc
     \/ In("worker") # {} /\ UNCHANGED pc
  /\ UNCHANGED <<listen_socket, max_retries, conn, late, result>>

------------------------------------------------------------------------------

\* What the listener does on its own, without waiting for another host.
ListenerStep ==
  \/ InstallHandlers
  \/ OpenListenSocket
  \/ CheckSignal
  \/ EnterAccept
  \/ AcceptFails
  \/ \E c \in Conns : Accept(c) \/ HandleConnection(c)
  \/ CloseListenSocket
  \/ ExitProcess

\* The steps that wait for an answer of the central server.
CentralStep == Register \/ Deregister

Environment ==
  \/ \E c \in Conns : ClientConnects(c) \/ WorkerEnds(c) \/ WorkerSigpipe(c)
  \/ Signal

Next == ListenerStep \/ CentralStep \/ Environment

Spec == Init /\ [][Next]_vars

\* The listener thread is scheduled.  Nothing is assumed of clients, workers or
\* signals, nor of the central server: an attempt to reach it may never end.
FairSpec == Spec /\ WF_vars(ListenerStep)

(***************************************************************************)
(* Properties                                                              *)
(***************************************************************************)

\* Once a signal has been caught at most one more client is accepted: the one
\* whose accept() was already under way when the handler ran.
OneLateAccept == \A c, d \in late : c = d

\* Between accept() and thread_create_detached nothing else happens to a client:
\* whatever signals come, one that was accepted is handed to a thread before the
\* flag is looked at again, never two at a time.  That the thread may not come
\* about, and the descriptor is dropped then, is not excluded.
OneHeld ==
  /\ pc = "handle" <=> In("held") # {}
  /\ \A c, d \in In("held") : c = d

\* The listening socket is open wherever clients are accepted, shut down while
\* deregistering, and not left open by any way out of httpserver_run.
ListenSocketFollowsPc ==
  /\ pc \in {"register", "loop", "enter", "accept", "handle"} => listen_socket = "open"
  /\ pc = "deregister" => listen_socket = "shut"
  /\ pc \in {"return", "exited"} => listen_socket \in {"none", "closed"}

\* A registration loop is entered with attempts left; before the socket is
\* opened, and once it has failed to, nobody can have connected; shutting it
\* down is always the work of a caught signal; and after the exit no worker is
\* left to raise SIGPIPE, which the refinement of Service rests on.
ControlFollows ==
  /\ pc \in {"register", "deregister"} => max_retries > 0
  /\ pc \in {"sigaction", "listen"} => listen_socket = "none"
  /\ pc = "close" => listen_socket \in {"none", "shut"}
  /\ listen_socket = "none" => \A c \in Conns : conn[c] = "idle"
  /\ listen_socket \in {"shut", "closed"} => caught_signal
  /\ pc = "exited" => In("worker") = {}

\* A late client leaves the listener at a point from which it can reach the
\* head of the loop again, but not accept().
LateIsLast ==
  /\ late # {} => caught_signal /\ pc \notin {"register", "enter", "accept"}
  /\ \A c \in late : conn[c] \notin {"idle", "queued", "refused"}

\* The invariant that is inductive.
ListenerInv ==
  /\ TypeOK
  /\ OneLateAccept
  /\ OneHeld
  /\ ListenSocketFollowsPc
  /\ ControlFollows
  /\ LateIsLast

\* Blocked in accept() with nobody queued, or bound to be: the state in which
\* the flag cannot be looked at.
BlindSpot == pc \in {"enter", "accept"} /\ In("queued") = {}

\* The central server keeps the listener waiting for ever: http_put_buf reads its
\* answer without a timeout.  Registration tells what it waits for.
WaitsForEver == <>[](pc \in {"register", "deregister"})

\* A caught signal ends the process, unless the listener is in its blind spot or
\* the central server keeps it waiting: signals during registration, handling or
\* deregistration are never lost, and a client that connects ends a blind wait.
SignalEndsService ==
  \/ WaitsForEver
  \/ (caught_signal /\ ~BlindSpot) ~> (pc = "exited")

\* A client that has connected is accepted, or refused, unless the process has
\* no descriptor left to accept it with or is kept waiting by the central server.
QueuedIsAccepted ==
  \A c \in Conns :
    \/ WaitsForEver
    \/ (conn[c] = "queued") ~> (conn[c] # "queued" \/ Cardinality(OpenFds) >= MaxFds)

\* The service the listener implements, and the mapping under which it does.
Phase ==
  CASE pc = "exited" -> "stopped"
    [] pc \in {"loop", "enter", "accept", "handle"} -> "serving"
    [] pc \in {"deregister", "close", "return"} /\ listen_socket # "none" -> "stopping"
    [] OTHER -> "starting"

Admitted == {c \in Conns : conn[c] \notin {"idle", "queued", "refused"}}

Promise == INSTANCE Service WITH phase <- Phase, stop <- caught_signal,
                                 admitted <- Admitted, late <- late

\* Every behaviour of the listener is one the service allows.
ImplementsService == Promise!Spec

(***************************************************************************)
(* What comments of the code say, and the code does not do                 *)
(***************************************************************************)

\* "Ignore some common signals" (httpserver.c:519): with SIGPIPE ignored a server
\* that serves would come to its end only by a SIGINT or SIGTERM sent to it.
StopsOnlyOnRequest ==
  [][Phase = "serving" /\ ~caught_signal /\ caught_signal' => signals' > signals]_vars
==============================================================================
