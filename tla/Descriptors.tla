------------------------------ MODULE Descriptors ------------------------------
(***************************************************************************)
(* Descriptor numbers in httpdnsd: the kernel's table of open files, and   *)
(* the numbers the threads keep in their variables.  The kernel hands out  *)
(* the lowest free number, so a number given back by one worker is soon    *)
(* another's.  socket_close (src/server/socket.c) closes again when        *)
(* close(2) is interrupted.  Two descriptors are in no variable when they  *)
(* should be closed: that of a directory fdopendir(3) refuses, and that of *)
(* a connection no thread could be created for.                            *)
(***************************************************************************)
EXTENDS Integers

CONSTANTS
  Workers,          \* the worker threads
  MaxFds            \* descriptors of the process

ASSUME DescriptorsAssumption == MaxFds \in Nat \ {0}

VARIABLES
  table,            \* the kernel: what each number refers to
  fd,               \* the program: the number of each worker's descriptors
  wpc,              \* where each worker stands
  freed,            \* history: a close(2) freed its number and still failed
  refused           \* history: the open numbers fdopendir(3) refused, or that
                    \* no thread could be created for

vars == <<table, fd, wpc, freed, refused>>

Fds == 0..MaxFds - 1

\* What a worker opens: its client's connection, and one local file, directory
\* or DNS socket.
Kinds == {"client", "local"}
Holders == Workers \X Kinds
Free == <<"free", "free">>

\* "get" and "use": in the handler of a GET, or of a PUT or a query;
\* "retry_local" and "retry_client": inside the loop of socket_close.
TypeOK ==
  /\ table \in [Fds -> Holders \cup {Free}]
  /\ fd \in [Holders -> Fds \cup {-1}]
  /\ wpc \in [Workers -> {"idle", "open", "get", "use", "retry_local",
                          "hangup", "retry_client"}]
  /\ freed \in BOOLEAN
  /\ refused \in SUBSET Fds

Init ==
  /\ table = [f \in Fds |-> Free]
  /\ fd = [h \in Holders |-> -1]
  /\ wpc = [w \in Workers |-> "idle"]
  /\ freed = FALSE
  /\ refused = {}

\* The kernel opens h on the lowest number it has, f.
OpensOn(f, h) ==
  /\ table[f] = Free
  /\ \A lower \in 0..f - 1 : table[lower] # Free
  /\ table' = [table EXCEPT ![f] = h]

\* The number is kept in h's variable.
Allocate(h) == \E f \in Fds : OpensOn(f, h) /\ fd' = [fd EXCEPT ![h] = f]

\* The kernel gives number f back.
Release(f) ==
  /\ table' = [table EXCEPT ![f] = Free]
  /\ refused' = refused \ {f}

Go(w, next) == wpc' = [wpc EXCEPT ![w] = next]

\* The listener accepts a connection and gives it to w.
Accept(w) ==
  /\ wpc[w] = "idle"
  /\ Allocate(<<w, "client">>)
  /\ Go(w, "open")
  /\ UNCHANGED <<freed, refused>>

\* The connection was accepted, and no thread could be created to be w: the
\* number is in nobody's hands, and stays open.
SpawnFails(w) ==
  /\ wpc[w] = "idle"
  /\ \E f \in Fds :
       /\ OpensOn(f, <<w, "client">>)
       /\ refused' = refused \cup {f}
  /\ UNCHANGED <<fd, wpc, freed>>

\* No number is left: accept(2) fails and is called again at once.
AcceptFails ==
  /\ \A f \in Fds : table[f] # Free
  /\ UNCHANGED vars

\* What each handler opens, which may fail: the file or directory of a GET, the
\* file of a PUT, the socket of a query.
OpenLocal(w, handler) ==
  /\ wpc[w] = "open"
  /\ \/ Allocate(<<w, "local">>)
     \/ UNCHANGED <<table, fd>>
  /\ Go(w, handler)
  /\ UNCHANGED <<freed, refused>>

OpenGet(w) == OpenLocal(w, "get")
OpenPut(w) == OpenLocal(w, "use")
OpenDns(w) == OpenLocal(w, "use")

\* A directory is given to fdopendir(3), and its number forgotten.  closedir(3)
\* gives it back; if fdopendir refused it, nothing does.
ListDirectory(w) ==
  LET f == fd[<<w, "local">>]
  IN  /\ wpc[w] = "get" /\ f # -1
      /\ fd' = [fd EXCEPT ![<<w, "local">>] = -1]
      /\ \/ Release(f)
         \/ refused' = refused \cup {f} /\ UNCHANGED table
      /\ UNCHANGED <<wpc, freed>>

\* Mutants of CloseOnce: the number is not forgotten; it is forgotten, and the
\* descriptor not closed.
KeepNumber(w, kind, retry, next) ==
  /\ Release(fd[<<w, kind>>])
  /\ Go(w, next)
  /\ UNCHANGED <<fd, freed>>

ForgetNumber(w, kind, retry, next) ==
  /\ fd' = [fd EXCEPT ![<<w, kind>>] = -1]
  /\ Go(w, next)
  /\ UNCHANGED <<table, freed, refused>>

\* close(2) of a number that may not be w's any more.  It succeeds; it fails
\* with EBADF; or it is interrupted, after the number was freed or before, and
\* is called again.  When it is over the number is forgotten.
CloseOnce(w, kind, retry, next) ==
  LET f == fd[<<w, kind>>]
  IN  \/ /\ Release(f)
         /\ fd' = [fd EXCEPT ![<<w, kind>>] = -1]
         /\ Go(w, next)
         /\ UNCHANGED freed
      \/ /\ table[f] # Free
         /\ \/ UNCHANGED <<table, freed, refused>>
            \/ Release(f) /\ freed' = TRUE
         /\ Go(w, retry)
         /\ UNCHANGED fd

\* The handler's last step.  Nothing is open, or a directory was listed:
\* socket_close leaves a negative number alone.
CloseLocal(w) ==
  /\ wpc[w] \in {"get", "use", "retry_local"}
  /\ IF fd[<<w, "local">>] = -1
       THEN Go(w, "hangup") /\ UNCHANGED <<table, fd, freed, refused>>
       ELSE CloseOnce(w, "local", "retry_local", "hangup")

\* The worker's last descriptor, after a handler or without one; another worker
\* may then be given its place.
CloseClient(w) ==
  /\ wpc[w] \in {"open", "hangup", "retry_client"}
  /\ CloseOnce(w, "client", "retry_client", "idle")

Next ==
  \/ AcceptFails
  \/ \E w \in Workers :
       \/ Accept(w) \/ SpawnFails(w)
       \/ OpenGet(w) \/ OpenPut(w) \/ OpenDns(w)
       \/ ListDirectory(w) \/ CloseLocal(w) \/ CloseClient(w)

Spec == Init /\ [][Next]_vars

(***************************************************************************)
(* Properties                                                              *)
(***************************************************************************)

\* The number a worker has in a variable refers to what that worker opened:
\* neither does it read another's file, nor reply to another's client, nor close
\* what is another's, also when close(2) was interrupted and tried again.  It
\* holds as long as no close(2) has freed its number and failed all the same:
\* from then on the second close may hit a number another worker has been given.
NumbersAreOwn ==
  ~freed => \A h \in Holders : fd[h] # -1 => table[fd[h]] = h

\* Whatever is open is in the variable of the worker that opened it, so nothing
\* is left open by a worker that has gone, whatever signals do to close(2).  Two
\* descriptors only are lost: a directory fdopendir(3) refused, and a connection
\* for which no thread could be created.
LostIsRefused ==
  \A f \in Fds : table[f] # Free /\ f \notin refused => fd[table[f]] = f

\* An idle worker has no descriptor, and only a worker between opening and
\* closing has a local one.
HeldByPc ==
  \A w \in Workers :
    /\ wpc[w] = "idle" <=> fd[<<w, "client">>] = -1
    /\ wpc[w] \in {"idle", "open", "hangup", "retry_client"} => fd[<<w, "local">>] = -1
==============================================================================
