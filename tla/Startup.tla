-------------------------------- MODULE Startup --------------------------------
(***************************************************************************)
(* How httpdnsd comes to serve (src/server/httpdnsd.c, main and            *)
(* daemonize): the process is followed through its forks to the one that   *)
(* calls httpserver_run, which opens sockets and files and logs (VERBOSE)  *)
(* to descriptor number 2, whatever that is by then.                       *)
(***************************************************************************)
EXTENDS Integers

CONSTANT MaxFd            \* bound: the highest descriptor number

ASSUME StartupAssumption == MaxFd \in Nat /\ MaxFd > 2

VARIABLES
  at,               \* where main stands
  options,          \* what the command line asks for
  parent,           \* "shell", or "init" once it has lost its parent
  leader,           \* "shell", "self" or "gone": who leads its session
  status,           \* what the shell is told: "none", "success", "failure"
  table,            \* what each descriptor number is
  stderr,           \* the number of the stream stderr; -1 when it is closed
  failed            \* history: a freopen of /dev/null failed

startupVars == <<at, options, parent, leader, status, table, stderr, failed>>

StartupTypeOK ==
  /\ at \in {"options", "daemonize", "fork", "setsid", "again", "streams", "quiet",
             "serve", "exit"}
  /\ options \in [usage : BOOLEAN, daemonize : BOOLEAN, verbose : BOOLEAN]
  /\ parent \in {"shell", "init"}
  /\ leader \in {"shell", "self", "gone"}
  /\ status \in {"none", "success", "failure"}
  /\ table \in [0..MaxFd -> {"terminal", "null", "server", "free"}]
  /\ stderr \in -1..MaxFd
  /\ failed \in BOOLEAN

\* Started from a shell, or by init.
StartupInit ==
  /\ at = "options"
  /\ options \in [usage : BOOLEAN, daemonize : BOOLEAN, verbose : BOOLEAN]
  /\ parent \in {"shell", "init"}
  /\ leader = "shell"
  /\ status = "none"
  /\ table = [n \in 0..MaxFd |-> IF n <= 2 THEN "terminal" ELSE "free"]
  /\ stderr = 2
  /\ failed = FALSE

Exit(how) == at' = "exit" /\ status' = IF status = "none" THEN how ELSE status

\* A wrong option, or not just one port, is no failure.
ParseOptions ==
  /\ at = "options"
  /\ IF options.usage THEN Exit("success")
     ELSE /\ at' = IF options.daemonize THEN "daemonize" ELSE "quiet"
          /\ UNCHANGED status
  /\ UNCHANGED <<options, parent, leader, table, stderr, failed>>

CheckDaemon ==
  /\ at = "daemonize"
  /\ at' = IF parent = "init" THEN "quiet" ELSE "fork"
  /\ UNCHANGED <<options, parent, leader, status, table, stderr, failed>>

\* The parent's exit is all the shell sees; init adopts the child.
Fork ==
  /\ at = "fork"
  /\ \/ Exit("failure") /\ UNCHANGED parent
     \/ at' = "setsid" /\ parent' = "init" /\ status' = "success"
  /\ UNCHANGED <<options, leader, table, stderr, failed>>

\* Mutant of SetSid: the second fork is left out.
SetSidOnly ==
  /\ at = "setsid"
  /\ at' = "streams" /\ leader' = "self"
  /\ UNCHANGED <<options, parent, status, table, stderr, failed>>

SetSid ==
  /\ at = "setsid"
  /\ \/ Exit("failure") /\ UNCHANGED leader
     \/ at' = "again" /\ leader' = "self" /\ UNCHANGED status
  /\ UNCHANGED <<options, parent, table, stderr, failed>>

ForkAgain ==
  /\ at = "again"
  /\ \/ Exit("failure") /\ UNCHANGED leader
     \/ at' = "streams" /\ leader' = "gone" /\ UNCHANGED status
  /\ UNCHANGED <<options, parent, table, stderr, failed>>

Free(tab) == {n \in 0..MaxFd : tab[n] = "free"}
Lowest(tab) == CHOOSE n \in Free(tab) : \A m \in Free(tab) : n <= m

\* What freopen of the stream at number fd makes of tab: its number is /dev/null's or,
\* when that fails, free; of a stream that is closed, the lowest free one.
Reopen(tab, fd, ok) ==
  IF fd = -1 THEN IF ok THEN [tab EXCEPT ![Lowest(tab)] = "null"] ELSE tab
  ELSE [tab EXCEPT ![fd] = IF ok THEN "null" ELSE "free"]
Number(tab, fd, ok) ==
  IF ~ok THEN -1 ELSE IF fd = -1 THEN Lowest(tab) ELSE fd

\* Mutant of Redirect: standard error is closed, not sent to /dev/null.
CloseStderr ==
  /\ at = "streams"
  /\ at' = "quiet"
  /\ table' = [table EXCEPT ![0] = "null", ![1] = "null", ![2] = "free"]
  /\ stderr' = -1
  /\ UNCHANGED <<options, parent, leader, status, failed>>

\* The three streams, one after the other; the results are not looked at.
Redirect ==
  /\ at = "streams"
  /\ at' = "quiet"
  /\ \E ok \in [0..2 -> BOOLEAN] :
       /\ table' = Reopen(Reopen(Reopen(table, 0, ok[0]), 1, ok[1]), 2, ok[2])
       /\ stderr' = Number(table, 2, ok[2])
       /\ failed' = \E n \in 0..2 : ~ok[n]
  /\ UNCHANGED <<options, parent, leader, status>>

\* Without -v, standard error once more.
Quiet ==
  /\ at = "quiet"
  /\ at' = "serve"
  /\ IF options.verbose THEN UNCHANGED <<table, stderr, failed>>
     ELSE \E ok \in BOOLEAN :
            /\ table' = Reopen(table, stderr, ok)
            /\ stderr' = Number(table, stderr, ok)
            /\ failed' = (failed \/ ~ok)
  /\ UNCHANGED <<options, parent, leader, status>>

\* httpserver_run: a socket, a connection or a file is opened, or closed again.
ServerOpens ==
  /\ at = "serve" /\ Free(table) # {}
  /\ table' = [table EXCEPT ![Lowest(table)] = "server"]
  /\ UNCHANGED <<at, options, parent, leader, status, stderr, failed>>

ServerCloses ==
  /\ at = "serve"
  /\ \E n \in 0..MaxFd : table[n] = "server" /\ table' = [table EXCEPT ![n] = "free"]
  /\ UNCHANGED <<at, options, parent, leader, status, stderr, failed>>

ReturnFromMain ==
  /\ at = "serve"
  /\ Exit("success")
  /\ UNCHANGED <<options, parent, leader, table, stderr, failed>>

StartupNext ==
  \/ ParseOptions \/ CheckDaemon \/ Fork \/ SetSid \/ ForkAgain \/ Redirect \/ Quiet
  \/ ServerOpens \/ ServerCloses \/ ReturnFromMain

StartupSpec == StartupInit /\ [][StartupNext]_startupVars

(***************************************************************************)
(* Properties                                                              *)
(***************************************************************************)

\* The log goes to no client and into no file: number 2, to which VERBOSE writes, is
\* the server's only if /dev/null could not be opened.
LogStaysOut == at = "serve" /\ table[2] \notin {"terminal", "null"} => failed

\* A process asked to be a daemon that serves has been adopted by init, has no
\* terminal and can get none, for it does not lead its session; if it was not
\* started by init, which it takes for a daemon's parent.
DaemonIsDetached ==
  at = "serve" /\ options.daemonize /\ status = "success" =>
    parent = "init" /\ leader = "gone" /\ \A n \in 0..MaxFd : table[n] # "terminal"
==============================================================================
