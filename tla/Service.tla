------------------------------- MODULE Service -------------------------------
(***************************************************************************)
(* What httpserver_run promises the process that starts it                 *)
(* (src/server/httpserver.h): it comes up or fails to, admits client       *)
(* connections while it is serving, stops only after a signal was caught,  *)
(* and admits at most one more connection once that has happened.          *)
(*                                                                         *)
(* Listener implements this module under the mapping it defines.           *)
(***************************************************************************)

CONSTANT Conns      \* the client connections that may ever be made

VARIABLES
  phase,            \* how far the server has come
  stop,             \* TRUE once a signal handler has run
  admitted,         \* connections accept() has handed to the server
  late              \* those of them admitted when stop was already TRUE

serviceVars == <<phase, stop, admitted, late>>

Phases == {"starting", "serving", "stopping", "stopped"}

ServiceTypeOK ==
  /\ phase \in Phases
  /\ stop \in BOOLEAN
  /\ admitted \subseteq Conns
  /\ late \subseteq admitted

Init ==
  /\ phase = "starting"
  /\ stop = FALSE
  /\ admitted = {}
  /\ late = {}

\* A signal may be caught at any time before the process is gone.
RequestStop ==
  /\ phase # "stopped"
  /\ stop' = TRUE
  /\ UNCHANGED <<phase, admitted, late>>

\* Coming up may fail; registering on the way up may itself raise a signal.
ComeUp ==
  /\ phase = "starting"
  /\ phase' \in {"serving", "stopped"}
  /\ stop' \in {stop, TRUE}
  /\ UNCHANGED <<admitted, late>>

\* After a signal the accept() already under way may still yield one client.
Admit(c) ==
  /\ phase = "serving"
  /\ c \notin admitted
  /\ stop => late = {}
  /\ admitted' = admitted \cup {c}
  /\ late' = IF stop THEN {c} ELSE late
  /\ UNCHANGED <<phase, stop>>

BeginStop ==
  /\ phase = "serving"
  /\ stop
  /\ phase' = "stopping"
  /\ UNCHANGED <<stop, admitted, late>>

EndStop ==
  /\ phase = "stopping"
  /\ phase' = "stopped"
  /\ UNCHANGED <<stop, admitted, late>>

Next ==
  \/ RequestStop
  \/ ComeUp
  \/ \E c \in Conns : Admit(c)
  \/ BeginStop
  \/ EndStop

Spec == Init /\ [][Next]_serviceVars
==============================================================================
