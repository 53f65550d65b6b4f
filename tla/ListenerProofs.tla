--------------------------- MODULE ListenerProofs ---------------------------
(***************************************************************************)
(* Proofs about Listener, for any number of clients, retries, descriptors  *)
(* and signals: the invariant that is inductive, the safety properties it  *)
(* yields, and the refinement of Service.                                  *)
(***************************************************************************)
EXTENDS Listener, TLAPS

\* The invariant holds when the process starts.
LEMMA InitListenerInv == Init => ListenerInv
<1> SUFFICES ASSUME Init
             PROVE  ListenerInv
  OBVIOUS
<1>1. TypeOK
  <2>1. 0 \in 0..MaxRetries /\ 0 \in 0..MaxSignals
    BY ListenerAssumption
  <2> QED
    BY <2>1, Zenon DEF Init, TypeOK, Points, ConnStates
<1>2. OneLateAccept /\ OneHeld /\ ListenSocketFollowsPc
  BY DEF Init, OneLateAccept, OneHeld, ListenSocketFollowsPc, In
<1>3. ControlFollows /\ LateIsLast
  BY DEF Init, ControlFollows, LateIsLast, In
<1> QED
  BY <1>1, <1>2, <1>3 DEF ListenerInv

\* A pass of a registration loop, from either place it is called at.
LEMMA AttemptListenerInv ==
  ASSUME NEW from, NEW next,
         \/ from = "register" /\ next = "loop"
         \/ from = "deregister" /\ next = "close",
         ListenerInv, RegistrationAttempt(from, next)
  PROVE  ListenerInv'
<1>1. /\ pc = from
      /\ pc' \in {from, next}
      /\ UNCHANGED <<listen_socket, conn, signals, late, result>>
  BY DEF RegistrationAttempt
<1>2. caught_signal' \in BOOLEAN /\ (caught_signal => caught_signal')
  BY DEF RegistrationAttempt, ListenerInv, TypeOK
<1>3. max_retries' \in 0..MaxRetries /\ (pc' = from => max_retries' > 0)
  <2>1. max_retries \in 1..MaxRetries /\ from # next
    BY <1>1, ListenerAssumption DEF ListenerInv, TypeOK, ControlFollows
  <2> QED
    BY <2>1, ListenerAssumption DEF RegistrationAttempt
<1>4. TypeOK'
  BY <1>1, <1>2, <1>3 DEF ListenerInv, TypeOK, Points
<1>5. OneLateAccept' /\ OneHeld' /\ ListenSocketFollowsPc'
  BY <1>1 DEF ListenerInv, OneLateAccept, OneHeld, ListenSocketFollowsPc, In
<1>6. ControlFollows'
  BY <1>1, <1>2, <1>3 DEF ListenerInv, ControlFollows, ListenSocketFollowsPc, In
<1>7. LateIsLast'
  BY <1>1, <1>2 DEF ListenerInv, LateIsLast, ListenSocketFollowsPc
<1> QED
  BY <1>4, <1>5, <1>6, <1>7 DEF ListenerInv

\* No step of the listener, of a registration, of a client, of a worker or of a
\* signal breaks the invariant.
LEMMA NextListenerInv == ListenerInv /\ [Next]_vars => ListenerInv'
<1> SUFFICES ASSUME ListenerInv, [Next]_vars
             PROVE  ListenerInv'
  OBVIOUS
<1> USE ListenerAssumption DEF ListenerInv, TypeOK, Points, ConnStates,
      OneLateAccept, OneHeld, ListenSocketFollowsPc, ControlFollows,
      LateIsLast, In
<1>1. CASE InstallHandlers
  BY <1>1 DEF InstallHandlers
<1>2. CASE OpenListenSocket
  BY <1>2 DEF OpenListenSocket
<1>3. CASE Register
  BY <1>3, AttemptListenerInv DEF Register
<1>4. CASE CheckSignal
  BY <1>4 DEF CheckSignal
<1>5. CASE EnterAccept
  BY <1>5 DEF EnterAccept
<1>6. ASSUME NEW c \in Conns, Accept(c)
      PROVE  ListenerInv'
  BY <1>6 DEF Accept
<1>7. CASE AcceptFails
  BY <1>7 DEF AcceptFails
<1>8. ASSUME NEW c \in Conns, HandleConnection(c)
      PROVE  ListenerInv'
  BY <1>8 DEF HandleConnection
<1>9. CASE Deregister
  BY <1>9, AttemptListenerInv DEF Deregister
<1>10. CASE CloseListenSocket
  BY <1>10 DEF CloseListenSocket
<1>11. CASE ExitProcess
  BY <1>11 DEF ExitProcess
<1>12. ASSUME NEW c \in Conns, ClientConnects(c)
       PROVE  ListenerInv'
  BY <1>12 DEF ClientConnects
<1>13. ASSUME NEW c \in Conns, WorkerEnds(c)
       PROVE  ListenerInv'
  BY <1>13 DEF WorkerEnds
<1>14. ASSUME NEW c \in Conns, WorkerSigpipe(c)
       PROVE  ListenerInv'
  BY <1>14 DEF WorkerSigpipe
<1>15. CASE Signal
  BY <1>15 DEF Signal
<1>16. CASE UNCHANGED vars
  BY <1>16 DEF vars
<1> QED
  BY <1>1, <1>2, <1>3, <1>4, <1>5, <1>6, <1>7, <1>8, <1>9, <1>10, <1>11,
     <1>12, <1>13, <1>14, <1>15, <1>16
     DEF Next, ListenerStep, CentralStep, Environment

\* Every reachable state of the listener satisfies the inductive invariant.
THEOREM ListenerInvariant == Spec => []ListenerInv
BY InitListenerInv, NextListenerInv, PTL DEF Spec

\* The type invariant of the listener.
THEOREM ListenerTypeOK == Spec => []TypeOK
BY ListenerInvariant, PTL DEF ListenerInv

\* At most one client is accepted once a signal has been caught, however many
\* are queued and whatever the workers do.
THEOREM AtMostOneLateAccept == Spec => []OneLateAccept
BY ListenerInvariant, PTL DEF ListenerInv

\* Whatever way httpserver_run is left, the listening socket is not left open.
THEOREM ListenSocketIsClosed == Spec => []ListenSocketFollowsPc
BY ListenerInvariant, PTL DEF ListenerInv

(***************************************************************************)
(* The listener implements Service.                                        *)
(***************************************************************************)

\* The initial states of the listener are initial states of the service.
LEMMA InitRefines == Init => Promise!Init
BY DEF Init, Promise!Init, Phase, Admitted

\* A step that changes neither phase, flag, admissions nor late clients is a
\* stutter of the service.
LEMMA QuietStep ==
  ASSUME Phase' = Phase, UNCHANGED <<caught_signal, late>>, Admitted' = Admitted
  PROVE  [Promise!Next]_(Promise!serviceVars)
BY DEF Promise!serviceVars

\* A pass of a registration loop is a stutter, the end of coming up, or a
\* request to stop made by SIGPIPE.
LEMMA AttemptRefines ==
  ASSUME NEW from, NEW next,
         \/ from = "register" /\ next = "loop"
         \/ from = "deregister" /\ next = "close",
         ListenerInv, RegistrationAttempt(from, next)
  PROVE  [Promise!Next]_(Promise!serviceVars)
<1>1. /\ pc = from
      /\ pc' \in {from, next}
      /\ UNCHANGED <<listen_socket, conn, late>>
      /\ caught_signal' = TRUE \/ caught_signal' = caught_signal
  BY DEF RegistrationAttempt
<1>2. Admitted' = Admitted
  BY <1>1 DEF Admitted
<1>3. from = "deregister" => listen_socket = "shut"
  BY <1>1 DEF ListenerInv, ListenSocketFollowsPc
<1>4. CASE from = "register" /\ pc' = "loop"
  <2>1. Phase = "starting" /\ Phase' = "serving"
    BY <1>1, <1>4 DEF Phase
  <2> QED
    BY <2>1, <1>1, <1>2 DEF Promise!Next, Promise!ComeUp
<1>5. CASE ~(from = "register" /\ pc' = "loop")
  <2>1. Phase' = Phase /\ Phase # "stopped"
    BY <1>1, <1>3, <1>5 DEF Phase
  <2> QED
    BY <2>1, <1>1, <1>2
       DEF Promise!Next, Promise!RequestStop, Promise!serviceVars
<1> QED
  BY <1>4, <1>5

\* Every step of the listener is a step of the service, or changes nothing the
\* service speaks of.
LEMMA NextRefines ==
  ASSUME ListenerInv, [Next]_vars
  PROVE  [Promise!Next]_(Promise!serviceVars)
<1> USE DEF Phase, Admitted
<1>1. CASE InstallHandlers
  BY <1>1 DEF InstallHandlers, Promise!Next, Promise!ComeUp, Promise!serviceVars
<1>2. CASE OpenListenSocket
  BY <1>2 DEF OpenListenSocket, Promise!serviceVars, ListenerInv, ControlFollows
<1>3. CASE Register
  BY <1>3, AttemptRefines DEF Register
<1>4. CASE CheckSignal
  BY <1>4 DEF CheckSignal, Promise!Next, Promise!BeginStop, Promise!serviceVars
<1>5. CASE EnterAccept
  BY <1>5, QuietStep DEF EnterAccept
<1>6. ASSUME NEW c \in Conns, Accept(c)
      PROVE  [Promise!Next]_(Promise!serviceVars)
  <2>1. c \notin Admitted /\ Admitted' = Admitted \cup {c}
    BY <1>6 DEF Accept, ListenerInv, TypeOK
  <2>2. Phase = "serving" /\ Phase' = "serving" /\ late = {}
    BY <1>6 DEF Accept, ListenerInv, LateIsLast
  <2>3. Promise!Admit(c)
    BY <1>6, <2>1, <2>2 DEF Accept, Promise!Admit
  <2> QED
    BY <2>3 DEF Promise!Next
<1>7. CASE AcceptFails
  <2>1. Admitted' = Admitted
    BY <1>7 DEF AcceptFails, In, ListenerInv, TypeOK
  <2> QED
    BY <1>7, <2>1, QuietStep DEF AcceptFails
<1>8. ASSUME NEW c \in Conns, HandleConnection(c)
      PROVE  [Promise!Next]_(Promise!serviceVars)
  <2>1. Admitted' = Admitted
    BY <1>8 DEF HandleConnection, ListenerInv, TypeOK
  <2> QED
    BY <1>8, <2>1, QuietStep DEF HandleConnection
<1>9. CASE Deregister
  BY <1>9, AttemptRefines DEF Deregister
<1>10. CASE CloseListenSocket
  BY <1>10, QuietStep DEF CloseListenSocket
<1>11. CASE ExitProcess
  <2>1. Admitted' = Admitted
    BY <1>11 DEF ExitProcess, ListenerInv, TypeOK
  <2>2. Phase \in {"starting", "stopping"} /\ Phase' = "stopped"
    BY <1>11 DEF ExitProcess
  <2> QED
    BY <1>11, <2>1, <2>2
       DEF ExitProcess, Promise!Next, Promise!ComeUp, Promise!EndStop
<1>12. ASSUME NEW c \in Conns, ClientConnects(c)
       PROVE  [Promise!Next]_(Promise!serviceVars)
  <2>1. Admitted' = Admitted
    BY <1>12 DEF ClientConnects, ListenerInv, TypeOK
  <2> QED
    BY <1>12, <2>1, QuietStep DEF ClientConnects
<1>13. ASSUME NEW c \in Conns, WorkerEnds(c)
       PROVE  [Promise!Next]_(Promise!serviceVars)
  <2>1. Admitted' = Admitted
    BY <1>13 DEF WorkerEnds, ListenerInv, TypeOK
  <2> QED
    BY <1>13, <2>1, QuietStep DEF WorkerEnds
<1>14. ASSUME NEW c \in Conns, WorkerSigpipe(c)
       PROVE  [Promise!Next]_(Promise!serviceVars)
  <2>1. pc # "exited"
    BY <1>14 DEF WorkerSigpipe, ListenerInv, ControlFollows, In
  <2> QED
    BY <1>14, <2>1 DEF WorkerSigpipe, Promise!Next, Promise!RequestStop
<1>15. CASE Signal
  BY <1>15 DEF Signal, Promise!Next, Promise!RequestStop
<1>16. CASE UNCHANGED vars
  BY <1>16, QuietStep DEF vars
<1> QED
  BY <1>1, <1>2, <1>3, <1>4, <1>5, <1>6, <1>7, <1>8, <1>9, <1>10, <1>11,
     <1>12, <1>13, <1>14, <1>15, <1>16
     DEF Next, ListenerStep, CentralStep, Environment

\* Every behaviour of the listener is one the service allows: it stops only
\* after a caught signal, and admits at most one client after one.
THEOREM ListenerImplementsService == Spec => ImplementsService
<1>1. ListenerInv /\ [Next]_vars => [Promise!Next]_(Promise!serviceVars)
  BY NextRefines
<1> QED
  BY InitRefines, ListenerInvariant, <1>1, PTL
     DEF Spec, ImplementsService, Promise!Spec
==============================================================================
