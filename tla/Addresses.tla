------------------------------- MODULE Addresses -------------------------------
(***************************************************************************)
(* The three loops over the addresses of a host: socket_connect and        *)
(* socket_tcp_listen of the server (src/server/socket.c), and the          *)
(* constructor of the client's TcpClientSocket                             *)
(* (src/client/tcpclientsocket.hh).  An address is its place in the list,  *)
(* a socket the address it was made for.                                   *)
(***************************************************************************)
EXTENDS Integers

CONSTANT MaxAddresses   \* bound: addresses of a host

ASSUME AddressesAssumption == MaxAddresses \in Nat \ {0}

VARIABLES
  call,             \* which of the three
  step,             \* where it stands, or how it ended
  count,            \* addresses found
  iter,             \* the one it has come to
  sockets,          \* the sockets that are open
  fd,               \* what it will return: fd, m_fd; -1 is no socket
  tried,            \* history: the addresses connected or bound to, or refused
  joined            \* history: the one that was not refused; 0 is none

addressVars == <<call, step, count, iter, sockets, fd, tried, joined>>

Calls == {"socket_connect", "socket_tcp_listen", "TcpClientSocket"}
Address == 1..MaxAddresses

AddressesTypeOK ==
  /\ call \in Calls
  /\ step \in {"resolve", "socket", "use", "returned", "thrown"}
  /\ count \in 0..MaxAddresses
  /\ iter \in 1..MaxAddresses + 1
  /\ sockets \subseteq Address
  /\ fd \in {-1, 0} \cup Address
  /\ tried \subseteq Address
  /\ joined \in {0} \cup Address

\* m_fd begins as standard input.
AddressesInit ==
  /\ call \in Calls
  /\ step = "resolve"
  /\ count = 0
  /\ iter = 1
  /\ sockets = {}
  /\ fd = IF call = "TcpClientSocket" THEN 0 ELSE -1
  /\ tried = {}
  /\ joined = 0

\* getaddrinfo, which Addrinfo does for the client.
Resolve ==
  /\ step = "resolve"
  /\ \/ count' \in Address /\ step' = "socket"
     \/ /\ step' = IF call = "TcpClientSocket" THEN "thrown" ELSE "returned"
        /\ UNCHANGED count
  /\ UNCHANGED <<call, iter, sockets, fd, tried, joined>>

MakeSocket ==
  /\ step = "socket" /\ iter <= count
  /\ \/ iter' = iter + 1 /\ UNCHANGED <<step, sockets, fd>>
     \/ /\ step' = "use"
        /\ sockets' = sockets \cup {iter}
        /\ fd' = IF call = "TcpClientSocket" THEN fd ELSE iter
        /\ UNCHANGED iter
  /\ UNCHANGED <<call, count, tried, joined>>

EndOfList ==
  /\ step = "socket" /\ iter > count
  /\ step' = "returned"
  /\ UNCHANGED <<call, count, iter, sockets, fd, tried, joined>>

Close == sockets' = sockets \ {fd} /\ fd' = -1

\* Mutant of Connect: a refused socket is returned.
ConnectKeeps ==
  /\ step = "use" /\ call = "socket_connect"
  /\ step' = "returned"
  /\ tried' = tried \cup {1}
  /\ joined' \in {0, 1}
  /\ UNCHANGED <<call, count, iter, sockets, fd>>

\* Whichever address the socket is for, it is connected to the first one; and the
\* loop is left also when that fails.
Connect ==
  /\ step = "use" /\ call = "socket_connect"
  /\ step' = "returned"
  /\ tried' = tried \cup {1}
  /\ \/ joined' = 1 /\ UNCHANGED <<sockets, fd>>
     \/ Close /\ UNCHANGED joined
  /\ UNCHANGED <<call, count, iter>>

\* setsockopt or bind fail, and the next address is tried; listen fails, and none.
Listen ==
  /\ step = "use" /\ call = "socket_tcp_listen"
  /\ \/ joined' = iter /\ step' = "returned" /\ UNCHANGED <<iter, sockets, fd>>
     \/ Close /\ step' = "socket" /\ iter' = iter + 1 /\ UNCHANGED joined
     \/ Close /\ step' = "returned" /\ UNCHANGED <<iter, joined>>
  /\ tried' = tried \cup {iter}
  /\ UNCHANGED <<call, count>>

\* An interrupted connect is called again.  Any other failure throws, past the
\* socket, which is no object yet, and through the destructor that closes m_fd.
ConnectClient ==
  /\ step = "use" /\ call = "TcpClientSocket"
  /\ tried' = tried \cup {iter}
  /\ \/ joined' = iter /\ fd' = iter /\ step' = "returned"
     \/ step' = "thrown" /\ UNCHANGED <<fd, joined>>
  /\ UNCHANGED <<call, count, iter, sockets>>

AddressesNext ==
  Resolve \/ MakeSocket \/ EndOfList \/ Connect \/ Listen \/ ConnectClient

AddressesSpec == AddressesInit /\ [][AddressesNext]_addressVars

(***************************************************************************)
(* Properties                                                              *)
(***************************************************************************)

\* However the loop went on its way, what it leaves open is the one socket it
\* returns, and that was connected or listens; but a client's constructor that throws
\* leaves the socket open whose connection failed, that one and no other.  A client
\* that could make no socket returns standard input.
NothingLeaks ==
  /\ step = "returned" => /\ sockets = {fd} \ {-1, 0}
                          /\ fd > 0 <=> joined > 0
                          /\ fd = 0 => tried = {}
  /\ step = "thrown" => sockets = tried /\ joined = 0 /\ fd = 0

(***************************************************************************)
(* What a document says, and the code does not do                          *)
(***************************************************************************)

\* "If connecting fails, an exception is thrown and the operation aborted. The
\* Addrinfo list is looped through to ensure that all addresses are tried."
\* (document_assignment1.md:70)
AllAreTried ==
  call = "TcpClientSocket" /\ step = "thrown" => tried = 1..count
==============================================================================
