---------------------------- MODULE FunctionsProofs ----------------------------
(***************************************************************************)
(* Proofs about Startup, Addresses, Retries, StringSplit and Url, for any  *)
(* number of descriptors, addresses, bytes and signals, and for URLs of    *)
(* any length.                                                             *)
(***************************************************************************)
EXTENDS Startup, Addresses, Retries, StringSplit, Url, WellFoundedInduction, SequenceTheorems, TLAPS

\* A set of natural numbers has a least one, if it has any.
LEMMA LeastNatural ==
  ASSUME NEW T \in SUBSET Nat, T # {}
  PROVE  \E x \in T : \A y \in T : x <= y
<1> DEFINE R == OpToRel(<, Nat)
<1>1. IsWellFoundedOn(R, Nat)
  BY NatLessThanWellFounded
<1>2. \A p, q \in Nat : <<p, q>> \in R <=> p < q
  BY DEF OpToRel
<1> HIDE DEF R
<1>3. PICK x \in T : \A y \in T : ~(<<y, x>> \in R)
  BY <1>1, WFMin
<1>4. \A y \in T : ~(y < x)
  BY <1>2, <1>3
<1> QED
  BY <1>4

(***************************************************************************)
(* Startup                                                                 *)
(***************************************************************************)

\* What the place of main tells: until the streams are reopened the descriptors are
\* as they were; a process that was told to be a daemon has lost its parent with the
\* first fork, its terminal with the reopening, and its session with the second fork.
DaemonInv ==
  /\ at \in {"options", "daemonize", "fork"} => status = "none"
  /\ at \in {"setsid", "again", "streams"} => parent = "init"
  /\ at = "streams" => leader = "gone"
  /\ at \in {"options", "daemonize", "fork", "setsid", "again", "streams"} =>
       \A n \in 0..MaxFd : table[n] = IF n <= 2 THEN "terminal" ELSE "free"
  /\ at \in {"quiet", "serve"} /\ status = "success" =>
       /\ parent = "init" /\ leader = "gone"
       /\ \A n \in 0..MaxFd : table[n] # "terminal"

\* What a descriptor number can be, and the numbers of a stream.
Kinds == {"terminal", "null", "server", "free"}
Tables == [0..MaxFd -> Kinds]

\* The stream stderr has number 2 until the server runs, or is closed because its
\* reopening failed, and number 2 is free then; while nothing has failed number 2 is
\* the terminal or /dev/null.
LogInv ==
  /\ at \notin {"serve", "exit"} =>
       \/ stderr = 2
       \/ stderr = -1 /\ failed = TRUE /\ table[2] = "free"
  /\ failed = TRUE \/ table[2] \in {"terminal", "null"}

StartupInv == table \in Tables /\ DaemonInv /\ LogInv

\* Reopening a stream makes its number, or another, /dev/null's or free.
LEMMA ReopenTable ==
  ASSUME NEW tab \in Tables, NEW num \in -1..MaxFd, NEW ok \in BOOLEAN
  PROVE  /\ Reopen(tab, num, ok) \in Tables
         /\ \A n \in 0..MaxFd : Reopen(tab, num, ok)[n] \in {tab[n], "null", "free"}
         /\ num \in 0..MaxFd =>
              Reopen(tab, num, ok)[num] = IF ok THEN "null" ELSE "free"
<1> DEFINE low == Lowest(tab)
<1>1. Reopen(tab, num, ok) = IF num = -1 THEN IF ok THEN [tab EXCEPT ![low] = "null"] ELSE tab
                            ELSE [tab EXCEPT ![num] = IF ok THEN "null" ELSE "free"]
  BY DEF Reopen
<1> HIDE DEF low
<1>0. num = -1 => num \notin 0..MaxFd
  OBVIOUS
<1>2. CASE num = -1 /\ ok
  BY <1>0, <1>1, <1>2 DEF Tables, Kinds
<1>3. CASE num = -1 /\ ~ok
  BY <1>0, <1>1, <1>3 DEF Tables, Kinds
<1>4. CASE num # -1 /\ ok
  BY <1>1, <1>4 DEF Tables, Kinds
<1>5. CASE num # -1 /\ ~ok
  BY <1>1, <1>5 DEF Tables, Kinds
<1> QED
  BY <1>2, <1>3, <1>4, <1>5

\* The three streams one after the other: none of their numbers is the terminal's.
LEMMA RedirectTable ==
  ASSUME table \in Tables, NEW ok \in [0..2 -> BOOLEAN]
  PROVE  LET new == Reopen(Reopen(Reopen(table, 0, ok[0]), 1, ok[1]), 2, ok[2])
         IN  /\ new \in Tables
             /\ \A n \in 0..MaxFd : new[n] \in {table[n], "null", "free"}
             /\ \A n \in 0..2 : new[n] # "terminal"
             /\ new[2] = IF ok[2] THEN "null" ELSE "free"
<1> DEFINE one == Reopen(table, 0, ok[0])
           two == Reopen(one, 1, ok[1])
           new == Reopen(two, 2, ok[2])
<1>1. /\ ok[0] \in BOOLEAN /\ ok[1] \in BOOLEAN /\ ok[2] \in BOOLEAN
      /\ 0 \in 0..MaxFd /\ 1 \in 0..MaxFd /\ 2 \in 0..MaxFd
      /\ 0 \in -1..MaxFd /\ 1 \in -1..MaxFd /\ 2 \in -1..MaxFd
  BY StartupAssumption
<1>2. /\ one \in Tables
      /\ \A n \in 0..MaxFd : one[n] \in {table[n], "null", "free"}
      /\ one[0] = IF ok[0] THEN "null" ELSE "free"
  BY <1>1, ReopenTable
<1> HIDE DEF one
<1>3. /\ two \in Tables
      /\ \A n \in 0..MaxFd : two[n] \in {one[n], "null", "free"}
      /\ two[1] = IF ok[1] THEN "null" ELSE "free"
  BY <1>1, <1>2, ReopenTable
<1> HIDE DEF two
<1>4. /\ new \in Tables
      /\ \A n \in 0..MaxFd : new[n] \in {two[n], "null", "free"}
      /\ new[2] = IF ok[2] THEN "null" ELSE "free"
  BY <1>1, <1>3, ReopenTable
<1> HIDE DEF new
<1>5. \A n \in 0..2 : n = 0 \/ n = 1 \/ n = 2
  OBVIOUS
<1>6. new[0] # "terminal" /\ new[1] # "terminal" /\ new[2] # "terminal"
  BY <1>1, <1>2, <1>3, <1>4
<1>7. \A n \in 0..MaxFd : new[n] \in {table[n], "null", "free"}
  BY <1>2, <1>3, <1>4
<1>8. /\ new \in Tables
      /\ \A n \in 0..MaxFd : new[n] \in {table[n], "null", "free"}
      /\ \A n \in 0..2 : new[n] # "terminal"
      /\ new[2] = IF ok[2] THEN "null" ELSE "free"
  BY <1>4, <1>5, <1>6, <1>7
<1> QED
  BY <1>8 DEF one, two, new

\* The lowest free number is one.
LEMMA LowestIsFree ==
  ASSUME NEW tab, Free(tab) # {}
  PROVE  Lowest(tab) \in Free(tab)
<1>1. Free(tab) \in SUBSET Nat
  BY StartupAssumption DEF Free
<1>2. \E n \in Free(tab) : \A m \in Free(tab) : n <= m
  BY <1>1, LeastNatural
<1> QED
  BY <1>2 DEF Lowest

\* No step of main, or of the server it becomes, breaks the invariant.
LEMMA NextStartupInv ==
  StartupInv /\ [StartupNext]_startupVars => StartupInv'
<1> SUFFICES ASSUME table \in Tables, DaemonInv, LogInv, [StartupNext]_startupVars
             PROVE  StartupInv'
  BY DEF StartupInv
<1>0. 2 \in 0..MaxFd /\ 2 \in -1..MaxFd /\ -1 \in -1..MaxFd /\ 2 # -1
  BY StartupAssumption
<1>1. CASE ParseOptions \/ CheckDaemon \/ Fork \/ SetSid \/ ForkAgain \/ ReturnFromMain
  BY <1>1 DEF ParseOptions, CheckDaemon, Fork, SetSid, ForkAgain, ReturnFromMain, Exit,
              StartupInv, DaemonInv, LogInv
<1>2. CASE Redirect
  <2> PICK ok \in [0..2 -> BOOLEAN] :
        /\ table' = Reopen(Reopen(Reopen(table, 0, ok[0]), 1, ok[1]), 2, ok[2])
        /\ stderr' = Number(table, 2, ok[2])
        /\ failed' = \E n \in 0..2 : ~ok[n]
    BY <1>2 DEF Redirect
  <2>1. /\ table' \in Tables
        /\ \A n \in 0..MaxFd : table'[n] \in {table[n], "null", "free"}
        /\ \A n \in 0..2 : table'[n] # "terminal"
        /\ table'[2] = IF ok[2] THEN "null" ELSE "free"
    BY RedirectTable, Zenon
  <2>2. \A n \in 0..MaxFd : n <= 2 => n \in 0..2
    OBVIOUS
  <2>3. \A n \in 0..MaxFd : table'[n] # "terminal"
    BY <1>2, <2>1, <2>2 DEF Redirect, DaemonInv
  <2>4. DaemonInv'
    BY <1>2, <2>3 DEF Redirect, DaemonInv
  <2>5. stderr' = IF ok[2] THEN 2 ELSE -1
    BY <1>0 DEF Number
  <2>6. ok[2] \/ failed' = TRUE
    <3>1. 2 \in 0..2
      OBVIOUS
    <3> QED
      BY <3>1, Zenon
  <2>7. LogInv'
    BY <2>1, <2>5, <2>6, Zenon DEF LogInv
  <2> QED
    BY <2>1, <2>4, <2>7 DEF StartupInv
<1>3. CASE Quiet
  <2>1. stderr \in -1..MaxFd /\ at = "quiet" /\ at' = "serve"
    BY <1>0, <1>3 DEF Quiet, LogInv
  <2>2. CASE options.verbose
    BY <1>3, <2>2 DEF Quiet, StartupInv, DaemonInv, LogInv
  <2>3. CASE ~options.verbose
    <3> PICK ok \in BOOLEAN :
          /\ table' = Reopen(table, stderr, ok)
          /\ failed' = (failed \/ ~ok)
      BY <1>3, <2>3, Zenon DEF Quiet
    <3>1. /\ table' \in Tables
          /\ \A n \in 0..MaxFd : table'[n] \in {table[n], "null", "free"}
          /\ stderr \in 0..MaxFd => table'[stderr] = IF ok THEN "null" ELSE "free"
      BY <2>1, ReopenTable
    <3>2. DaemonInv'
      BY <1>3, <3>1 DEF Quiet, DaemonInv
    <3>3. failed = TRUE => failed' = TRUE
      BY Zenon
    <3>4. ~ok => failed' = TRUE
      BY Zenon
    <3>5. failed' = TRUE \/ table'[2] \in {"terminal", "null"}
      <4>1. CASE stderr = 2
        BY <1>0, <3>1, <3>4, <4>1, Zenon
      <4>2. CASE stderr # 2
        BY <2>1, <3>3, <4>2, Zenon DEF LogInv
      <4> QED
        BY <4>1, <4>2
    <3>6. LogInv'
      BY <2>1, <3>5 DEF LogInv
    <3> QED
      BY <3>1, <3>2, <3>6 DEF StartupInv
  <2> QED
    BY <2>2, <2>3
<1>4. CASE ServerOpens
  <2> DEFINE low == Lowest(table)
  <2>1. low \in Free(table)
    BY <1>4, LowestIsFree DEF ServerOpens
  <2>2. low \in 0..MaxFd /\ table[low] = "free"
    BY <2>1 DEF Free
  <2>3. table' = [table EXCEPT ![low] = "server"]
    BY <1>4 DEF ServerOpens
  <2> HIDE DEF low
  <2>4. /\ table' \in Tables
        /\ \A n \in 0..MaxFd : table'[n] \in {table[n], "server"}
        /\ table[2] # "free" => table'[2] = table[2]
    BY <1>0, <2>2, <2>3 DEF Tables, Kinds
  <2>5. DaemonInv'
    BY <1>4, <2>4 DEF ServerOpens, DaemonInv
  <2>6. LogInv'
    BY <1>4, <2>4 DEF ServerOpens, LogInv
  <2> QED
    BY <2>4, <2>5, <2>6 DEF StartupInv
<1>5. CASE ServerCloses
  <2> PICK m \in 0..MaxFd : table[m] = "server" /\ table' = [table EXCEPT ![m] = "free"]
    BY <1>5 DEF ServerCloses
  <2>1. /\ table' \in Tables
        /\ \A n \in 0..MaxFd : table'[n] \in {table[n], "free"}
        /\ table[2] # "server" => table'[2] = table[2]
    BY <1>0 DEF Tables, Kinds
  <2>2. DaemonInv'
    BY <1>5, <2>1 DEF ServerCloses, DaemonInv
  <2>3. LogInv'
    BY <1>5, <2>1 DEF ServerCloses, LogInv
  <2> QED
    BY <2>1, <2>2, <2>3 DEF StartupInv
<1>6. CASE UNCHANGED startupVars
  BY <1>6 DEF startupVars, StartupInv, DaemonInv, LogInv
<1> QED
  BY <1>1, <1>2, <1>3, <1>4, <1>5, <1>6 DEF StartupNext

LEMMA StartupInvariant == StartupSpec => []StartupInv
<1>1. StartupInit => StartupInv
  <2> SUFFICES ASSUME StartupInit PROVE StartupInv
    OBVIOUS
  <2>1. table \in Tables
    BY DEF StartupInit, Tables, Kinds
  <2>2. 2 \in 0..MaxFd /\ 2 <= 2
    BY StartupAssumption
  <2>3. DaemonInv
    BY DEF StartupInit, DaemonInv
  <2>4. table[2] = "terminal"
    BY <2>2 DEF StartupInit
  <2>5. LogInv
    BY <2>4 DEF StartupInit, LogInv
  <2> QED
    BY <2>1, <2>3, <2>5 DEF StartupInv
<1> QED
  BY <1>1, NextStartupInv, PTL DEF StartupSpec

\* A process that was asked to be a daemon and serves has been adopted by init, has no
\* terminal and can get none, however the forks and the reopening of its streams went.
THEOREM DaemonsAreDetached == StartupSpec => []DaemonIsDetached
<1>1. StartupInv => DaemonIsDetached
  BY Zenon DEF StartupInv, DaemonInv, DaemonIsDetached
<1> QED
  BY <1>1, StartupInvariant, PTL

\* Number 2, to which the log is written, is no socket and no file of the server, unless
\* /dev/null could not be opened.
THEOREM LogStaysApart == StartupSpec => []LogStaysOut
<1>1. StartupInv => LogStaysOut
  BY Zenon DEF StartupInv, LogInv, LogStaysOut
<1> QED
  BY <1>1, StartupInvariant, PTL

(***************************************************************************)
(* Addresses                                                               *)
(***************************************************************************)

\* Between two addresses no socket is open; one that is in use is the only one, and is
\* the number kept for the return, which the client's constructor sets at its end only.
AddressInv ==
  /\ count \in 0..MaxAddresses /\ iter \in Nat \ {0}
  /\ step \in {"resolve", "socket", "use"} => joined = 0
  /\ step \in {"resolve", "socket"} => sockets = {}
  /\ step \in {"resolve", "socket"} /\ call # "TcpClientSocket" => fd = -1
  /\ step = "use" => sockets = {iter}
  /\ step = "use" /\ call # "TcpClientSocket" => fd = iter
  /\ step \in {"resolve", "socket", "use"} /\ call = "TcpClientSocket" => fd = 0 /\ tried = {}
  /\ NothingLeaks

\* No step of the three loops breaks it.
LEMMA NextAddressInv ==
  AddressInv /\ [AddressesNext]_addressVars => AddressInv'
<1> SUFFICES ASSUME AddressInv, [AddressesNext]_addressVars
             PROVE  AddressInv'
  OBVIOUS
<1>1. CASE Resolve
  <2>1. count' \in 0..MaxAddresses
    BY <1>1 DEF Resolve, Address, AddressInv
  <2>2. CASE step' = "socket"
    BY <1>1, <2>1, <2>2 DEF Resolve, AddressInv, NothingLeaks
  <2>3. CASE step' # "socket"
    BY <1>1, <2>1, <2>3 DEF Resolve, AddressInv, NothingLeaks
  <2> QED
    BY <2>2, <2>3
<1>2. CASE MakeSocket
  BY <1>2 DEF MakeSocket, AddressInv, NothingLeaks
<1>3. CASE EndOfList
  BY <1>3 DEF EndOfList, AddressInv, NothingLeaks
<1>4. CASE Connect
  BY <1>4 DEF Connect, Close, AddressInv, NothingLeaks
<1>5. CASE Listen
  BY <1>5 DEF Listen, Close, AddressInv, NothingLeaks
<1>6. CASE ConnectClient
  BY <1>6 DEF ConnectClient, AddressInv, NothingLeaks
<1>7. CASE UNCHANGED addressVars
  BY <1>7 DEF addressVars, AddressInv, NothingLeaks
<1> QED
  BY <1>1, <1>2, <1>3, <1>4, <1>5, <1>6, <1>7 DEF AddressesNext

\* Of any number of addresses, refused or not, a loop that returns leaves open the one
\* socket it returns and no other; a client's constructor that throws leaves open the
\* one whose connection failed and no other.
THEOREM OneSocketIsLeft == AddressesSpec => []NothingLeaks
<1>1. AddressesInit => AddressInv
  BY AddressesAssumption DEF AddressesInit, AddressInv, NothingLeaks
<1>2. AddressInv => NothingLeaks
  BY DEF AddressInv
<1> QED
  BY <1>1, <1>2, NextAddressInv, PTL DEF AddressesSpec

(***************************************************************************)
(* Retries                                                                 *)
(***************************************************************************)

\* The places from a to b, counted on.
LEMMA CountedOn ==
  ASSUME NEW w \in Int, NEW n \in Nat
  PROVE  /\ [i \in 1..n |-> w + i] \in Seq(Int)
         /\ Len([i \in 1..n |-> w + i]) = n
<1> DEFINE s == [i \in 1..n |-> w + i]
<1>1. s \in [1..n -> Int]
  OBVIOUS
<1>2. s \in Seq(Int) /\ Len(s) = n
  <2> HIDE DEF s
  <2> QED
    BY <1>1
<1> QED
  BY <1>2

\* What comes after the first w places makes them the first w + n.
LEMMA BeginningGrowsOn ==
  ASSUME NEW w \in Nat, NEW n \in Nat
  PROVE  [i \in 1..w |-> i] \o [i \in 1..n |-> w + i] = [i \in 1..w + n |-> i]
<1> DEFINE a == [i \in 1..w |-> i]
           b == [i \in 1..n |-> w + i]
           c == [i \in 1..w + n |-> i]
<1>1. a \in Seq(Int) /\ Len(a) = w /\ \A i \in 1..w : a[i] = i
  <2>1. a \in [1..w -> Int] /\ \A i \in 1..w : a[i] = i
    OBVIOUS
  <2> HIDE DEF a
  <2> QED
    BY <2>1
<1>2. b \in Seq(Int) /\ Len(b) = n /\ \A i \in 1..n : b[i] = w + i
  BY CountedOn
<1>3. c \in Seq(Int) /\ Len(c) = w + n /\ \A i \in 1..w + n : c[i] = i
  <2>1. c \in [1..w + n -> Int] /\ (\A i \in 1..w + n : c[i] = i) /\ w + n \in Nat
    OBVIOUS
  <2> HIDE DEF c
  <2> QED
    BY <2>1
<1> HIDE DEF a, b, c
<1>4. /\ a \o b \in Seq(Int) /\ Len(a \o b) = w + n
      /\ \A i \in 1..w + n : (a \o b)[i] = IF i <= w THEN a[i] ELSE b[i - w]
  BY <1>1, <1>2, ConcatProperties
<1>5. \A i \in 1..w + n : (a \o b)[i] = c[i]
  <2> TAKE i \in 1..w + n
  <2>1. CASE i <= w
    BY <1>1, <1>3, <1>4, <2>1
  <2>2. CASE i > w
    <3>1. i - w \in 1..n /\ w + (i - w) = i
      BY <2>2
    <3>2. (a \o b)[i] = b[i - w]
      BY <1>4, <2>2
    <3>3. b[i - w] = i
      BY <1>2, <3>1
    <3> QED
      BY <1>3, <3>2, <3>3
  <2>3. i <= w \/ i > w
    OBVIOUS
  <2> QED
    BY <2>1, <2>2, <2>3, Zenon
<1>6. a \o b = c
  <2>1. /\ a \o b \in Seq(Int) /\ c \in Seq(Int) /\ Len(a \o b) = Len(c)
        /\ \A i \in 1..Len(a \o b) : (a \o b)[i] = c[i]
    BY <1>3, <1>4, <1>5
  <2> QED
    BY <2>1, SeqEqual
<1> QED
  BY <1>6 DEF a, b, c

\* Of all loops but VERBOSE's: what has been moved is the first bytes, as many as are
\* counted, and what is left is the rest.
PrefixInv ==
  /\ total \in Nat
  /\ loop # "VERBOSE" =>
       /\ written \in Nat
       /\ left \in Nat
       /\ left + written = total
       /\ out = [i \in 1..written |-> i]
       /\ ended = "counted" => retval = written
       /\ loop = "send" /\ ended = "no" => written = 0

\* No step of them breaks it.
LEMMA NextPrefixInv ==
  PrefixInv /\ [RetriesNext]_retryVars => PrefixInv'
<1> SUFFICES ASSUME PrefixInv, [RetriesNext]_retryVars
             PROVE  PrefixInv'
  OBVIOUS
<1>1. CASE Pass /\ loop # "VERBOSE"
  <2> PICK n \in 1..left :
        /\ out' = out \o [i \in 1..n |-> written + i]
        /\ written' = written + n
        /\ left' = left - n
        /\ IF loop = "send" THEN Count(n) ELSE UNCHANGED <<ended, retval>>
    BY <1>1 DEF Pass
  <2>1. written \in Nat /\ left \in Nat /\ n \in Nat /\ n <= left
    BY <1>1 DEF PrefixInv
  <2>2. out' = [i \in 1..written' |-> i]
    BY <1>1, <2>1, BeginningGrowsOn DEF PrefixInv
  <2>3. written' \in Nat /\ left' \in Nat /\ left' + written' = total
    BY <1>1, <2>1 DEF PrefixInv
  <2>4. IF loop = "send" THEN ended' = "counted" /\ retval' = written' ELSE ended' = "no"
    BY <1>1, <2>1 DEF Pass, Running, Count, PrefixInv
  <2>5. loop' = loop /\ total' = total /\ total \in Nat
    BY <1>1 DEF Pass, PrefixInv
  <2> QED
    BY <1>1, <2>2, <2>3, <2>4, <2>5 DEF PrefixInv
<1>2. CASE Pass /\ loop = "VERBOSE"
  BY <1>2 DEF Pass, PrefixInv
<1>3. CASE Interrupted
  BY <1>3 DEF Interrupted, Running, PrefixInv
<1>4. CASE WouldBlock \/ Fail \/ EndOfFile \/ Finish
  BY <1>4 DEF WouldBlock, Fail, EndOfFile, Finish, Running, Count, PrefixInv
<1>5. CASE UNCHANGED retryVars
  BY <1>5 DEF retryVars, PrefixInv
<1> QED
  BY <1>1, <1>2, <1>3, <1>4, <1>5 DEF RetriesNext

\* Whatever interrupts, limits or ends it, a loop has moved the beginning of its buffer
\* and returns the length of that; of a buffer of any length.
THEOREM BeginningIsMoved == RetriesSpec => []OutIsPrefix
<1>1. RetriesInit => PrefixInv
  <2>1. [i \in 1..0 |-> i] = <<>>
    OBVIOUS
  <2> QED
    BY <2>1, RetriesAssumption DEF RetriesInit, PrefixInv
<1>2. PrefixInv => OutIsPrefix
  <2> SUFFICES ASSUME PrefixInv, loop # "VERBOSE" PROVE OutIsPrefix
    BY DEF OutIsPrefix
  <2>1. /\ written \in Nat /\ out = [i \in 1..written |-> i]
        /\ ended = "counted" => retval = written
    BY DEF PrefixInv
  <2>2. Len(out) = written
    <3>1. [i \in 1..written |-> 0 + i] = [i \in 1..written |-> i]
      BY <2>1
    <3>2. Len([i \in 1..written |-> 0 + i]) = written
      BY <2>1, CountedOn
    <3> QED
      BY <2>1, <3>1, <3>2, Zenon
  <2> QED
    BY <2>1, <2>2, Zenon DEF OutIsPrefix
<1> QED
  BY <1>1, <1>2, NextPrefixInv, PTL DEF RetriesSpec

\* A line of which the places up to w have come out, in steps of one at most, and the
\* last no earlier than w.
OutUpTo(s, w) ==
  /\ s \in Seq(Int)
  /\ \A p \in 1..w : \E i \in DOMAIN s : s[i] = p
  /\ \A i \in 1..Len(s) - 1 : s[i + 1] <= s[i] + 1
  /\ Len(s) > 0 => s[Len(s)] >= w

\* Another n places, counted on from w, keep it so.
LEMMA LineGrowsOn ==
  ASSUME NEW s, NEW w \in Int, NEW n \in Nat \ {0}, OutUpTo(s, w)
  PROVE  /\ OutUpTo(s \o [i \in 1..n |-> w + i], w + n)
         /\ Len(s \o [i \in 1..n |-> w + i]) = Len(s) + n
<1> DEFINE b == [i \in 1..n |-> w + i]
           c == s \o b
<1>1. s \in Seq(Int) /\ Len(s) \in Nat /\ DOMAIN s = 1..Len(s)
  BY DEF OutUpTo
<1>2. b \in Seq(Int) /\ Len(b) = n /\ \A i \in 1..n : b[i] = w + i
  BY CountedOn
<1> HIDE DEF b
<1>3. /\ c \in Seq(Int) /\ Len(c) = Len(s) + n
      /\ \A i \in 1..Len(s) + n : c[i] = IF i <= Len(s) THEN s[i] ELSE b[i - Len(s)]
  BY <1>1, <1>2, ConcatProperties
<1> HIDE DEF c
<1>4. DOMAIN c = 1..Len(s) + n
  BY <1>3
<1>5. \A i \in 1..Len(s) : i \in 1..Len(s) + n /\ c[i] = s[i]
  BY <1>1, <1>3
<1>6. \A i \in 1..n : Len(s) + i \in 1..Len(s) + n /\ c[Len(s) + i] = w + i
  <2> TAKE i \in 1..n
  <2>1. /\ Len(s) + i \in 1..Len(s) + n /\ ~(Len(s) + i <= Len(s))
        /\ Len(s) + i - Len(s) = i
    BY <1>1
  <2>2. c[Len(s) + i] = b[Len(s) + i - Len(s)]
    BY <1>3, <2>1
  <2> QED
    BY <1>2, <2>1, <2>2
<1>7. \A p \in 1..w + n : \E i \in DOMAIN c : c[i] = p
  <2> TAKE p \in 1..w + n
  <2>1. CASE p <= w
    <3>1. PICK i \in DOMAIN s : s[i] = p
      BY <2>1 DEF OutUpTo
    <3> QED
      BY <1>1, <1>4, <1>5, <3>1
  <2>2. CASE p > w
    <3>1. p - w \in 1..n /\ w + (p - w) = p
      BY <2>2
    <3>2. Len(s) + (p - w) \in DOMAIN c /\ c[Len(s) + (p - w)] = p
      BY <1>4, <1>6, <3>1
    <3> QED
      BY <3>2
  <2>3. p <= w \/ p > w
    OBVIOUS
  <2> QED
    BY <2>1, <2>2, <2>3, Zenon
<1>8. \A i \in 1..Len(c) - 1 : c[i + 1] <= c[i] + 1
  <2> TAKE i \in 1..Len(c) - 1
  <2>0. i \in 1..Len(s) + n - 1 /\ i \in Int
    BY <1>1, <1>3
  <2>1. CASE i < Len(s)
    <3>1. i \in 1..Len(s) - 1 /\ i \in 1..Len(s) /\ i + 1 \in 1..Len(s)
      BY <1>1, <2>0, <2>1
    <3>2. s[i + 1] <= s[i] + 1
      BY <3>1 DEF OutUpTo
    <3> QED
      BY <1>5, <3>1, <3>2
  <2>2. CASE i = Len(s)
    <3>1. i \in 1..Len(s) /\ Len(s) > 0 /\ 1 \in 1..n
      BY <1>1, <2>0, <2>2
    <3>2. c[i] = s[Len(s)] /\ c[i + 1] = w + 1
      BY <1>5, <1>6, <2>2, <3>1
    <3>3. s[Len(s)] >= w /\ s[Len(s)] \in Int
      BY <1>1, <2>2, <3>1 DEF OutUpTo
    <3> QED
      BY <3>2, <3>3
  <2>3. CASE i > Len(s)
    <3> DEFINE k == i - Len(s)
    <3>1. /\ k \in 1..n /\ k + 1 \in 1..n
          /\ Len(s) + k = i /\ Len(s) + (k + 1) = i + 1
      BY <1>1, <2>0, <2>3
    <3> HIDE DEF k
    <3>2. c[i] = w + k /\ c[i + 1] = w + (k + 1)
      BY <1>6, <3>1
    <3> QED
      BY <3>1, <3>2
  <2>4. \A x, y \in Int : x < y \/ x = y \/ x > y
    OBVIOUS
  <2>5. Len(s) \in Int
    BY <1>1
  <2> QED
    BY <2>0, <2>1, <2>2, <2>3, <2>4, <2>5, Zenon
<1>9. c[Len(c)] = w + n
  BY <1>3, <1>6
<1>10. OutUpTo(c, w + n)
  BY <1>3, <1>7, <1>8, <1>9 DEF OutUpTo
<1> QED
  BY <1>3, <1>10 DEF b, c

\* Of a log line: the counters are consistent, though each signal takes them one
\* byte back, and what is out reaches up to where they stand.
LineInv ==
  /\ total \in Nat /\ interrupts \in Nat
  /\ loop = "VERBOSE" =>
       /\ written \in Int /\ left \in Nat /\ left + written = total
       /\ OutUpTo(out, written)
       /\ Len(out) = written + interrupts
       /\ ended = "counted" => left = 0

\* No step of it breaks that.
LEMMA NextLineInv ==
  LineInv /\ [RetriesNext]_retryVars => LineInv'
<1> SUFFICES ASSUME LineInv, [RetriesNext]_retryVars
             PROVE  LineInv'
  OBVIOUS
<1>1. CASE Pass /\ loop = "VERBOSE"
  <2> PICK n \in 1..left :
        /\ out' = out \o [i \in 1..n |-> written + i]
        /\ written' = written + n
        /\ left' = left - n
        /\ IF loop = "send" THEN Count(n) ELSE UNCHANGED <<ended, retval>>
    BY <1>1 DEF Pass
  <2>1. /\ written \in Int /\ left \in Nat /\ n \in Nat \ {0} /\ n <= left
        /\ total \in Nat /\ interrupts \in Nat /\ left + written = total
        /\ Len(out) = written + interrupts /\ OutUpTo(out, written)
    BY <1>1 DEF LineInv
  <2>2. OutUpTo(out', written') /\ Len(out') = Len(out) + n
    BY <2>1, LineGrowsOn
  <2>3. /\ written' \in Int /\ left' \in Nat /\ left' + written' = total
        /\ Len(out') = written' + interrupts
    BY <2>1, <2>2
  <2>4. loop' = loop /\ total' = total /\ interrupts' = interrupts /\ ended' = "no"
    BY <1>1 DEF Pass, Running
  <2> QED
    BY <2>1, <2>2, <2>3, <2>4 DEF LineInv
<1>2. CASE Pass /\ loop # "VERBOSE"
  BY <1>2 DEF Pass, LineInv
<1>3. CASE Interrupted /\ loop = "VERBOSE"
  <2>1. /\ written \in Int /\ left \in Nat
        /\ total \in Nat /\ interrupts \in Nat /\ left + written = total
        /\ Len(out) = written + interrupts /\ OutUpTo(out, written)
    BY <1>3 DEF LineInv
  <2>2. /\ interrupts' = interrupts + 1 /\ written' = written - 1 /\ left' = left + 1
        /\ out' = out /\ total' = total /\ loop' = loop /\ ended' = "no"
    BY <1>3 DEF Interrupted, Running
  <2>3. OutUpTo(out', written')
    <3>1. \A p \in 1..written - 1 : p \in 1..written
      BY <2>1
    <3>2. Len(out) > 0 => out[Len(out)] >= written - 1
      BY <2>1 DEF OutUpTo
    <3> QED
      BY <2>1, <2>2, <3>1, <3>2 DEF OutUpTo
  <2> QED
    BY <2>1, <2>2, <2>3 DEF LineInv
<1>4. CASE Interrupted /\ loop # "VERBOSE"
  BY <1>4 DEF Interrupted, LineInv
<1>5. CASE WouldBlock \/ Fail \/ EndOfFile
  BY <1>5 DEF WouldBlock, Fail, EndOfFile, Count, LineInv
<1>6. CASE Finish
  BY <1>6 DEF Finish, Count, LineInv
<1>7. CASE UNCHANGED retryVars
  BY <1>7 DEF retryVars, LineInv
<1> QED
  BY <1>1, <1>2, <1>3, <1>4, <1>5, <1>6, <1>7 DEF RetriesNext

\* A log line of any length comes out whole and with one byte too many for each of any
\* number of signals.
THEOREM LinesAreWhole == RetriesSpec => []LineIsWhole
<1>1. RetriesInit => LineInv
  BY RetriesAssumption DEF RetriesInit, LineInv, OutUpTo
<1>2. LineInv => LineIsWhole
  <2> SUFFICES ASSUME LineInv, loop = "VERBOSE", ended = "counted" PROVE LineIsWhole
    BY DEF LineIsWhole
  <2>1. written = total
    BY DEF LineInv
  <2> QED
    BY <2>1 DEF LineInv, LineIsWhole, OutUpTo
<1> QED
  BY <1>1, <1>2, NextLineInv, PTL DEF RetriesSpec

(***************************************************************************)
(* StringSplit                                                             *)
(***************************************************************************)

\* The least of a set of natural numbers is one of them.
LEMMA MinIsLeast ==
  ASSUME NEW T \in SUBSET Nat, T # {}
  PROVE  Min(T) \in T /\ \A y \in T : Min(T) <= y
<1>1. \E x \in T : \A y \in T : x <= y
  BY LeastNatural
<1> QED
  BY <1>1 DEF Min

\* Where the field that begins at b ends.
Found(b) == {i \in b..Len(source) : At(Delimiter, source, b, i)}
EndFrom(b) == IF Found(b) = {} THEN Len(source) + 1 ELSE Min(Found(b))

\* A field ends where its delimiter begins, and none began before that.
LEMMA EndIsFirst ==
  ASSUME Len(source) \in Nat, NEW b \in 1..Len(source)
  PROVE  /\ EndFrom(b) \in b..Len(source) + 1
         /\ EndFrom(b) <= Len(source) => EndFrom(b) \in Found(b)
         /\ \A i \in b..Len(source) : i < EndFrom(b) => i \notin Found(b)
         /\ \A i \in Found(b) : EndFrom(b) <= i
<1>1. Found(b) \in SUBSET Nat /\ Found(b) \in SUBSET (b..Len(source))
  BY DEF Found
<1>2. CASE Found(b) = {}
  BY <1>2 DEF EndFrom
<1>3. CASE Found(b) # {}
  <2> DEFINE e == EndFrom(b)
  <2>1. e \in Found(b) /\ \A y \in Found(b) : e <= y
    BY <1>1, <1>3, MinIsLeast DEF EndFrom
  <2> HIDE DEF e
  <2>2. e \in b..Len(source)
    BY <1>1, <2>1
  <2>3. \A i \in b..Len(source) : i < e => i \notin Found(b)
    BY <2>1, <2>2
  <2> QED
    BY <2>1, <2>2, <2>3 DEF e
<1> QED
  BY <1>2, <1>3

\* The fields found so far follow each other: each begins where the one before it and
\* its delimiter end, and the next one begins behind the last.
SplitInv ==
  /\ source \in Seq(Char)
  /\ begins \in Seq(Nat)
  /\ Len(string_array) = Len(begins) /\ string_array \in Seq(Seq(Char) \cup {Null})
  /\ field_begin \in Nat \ {0} /\ chars_remaining \in Int
  /\ field_begin + chars_remaining = Len(source) + 1
  /\ \A k \in 1..Len(begins) :
       /\ begins[k] \in 1..Len(source)
       /\ string_array[k] \in {SubSeq(source, begins[k], EndFrom(begins[k]) - 1), Null}
       /\ begins[k] = IF k = 1 THEN 1 ELSE EndFrom(begins[k - 1]) + Len(Delimiter)
  /\ result # "null" =>
       field_begin = IF Len(begins) = 0 THEN 1
                     ELSE EndFrom(begins[Len(begins)]) + Len(Delimiter)
  /\ result = "array" => chars_remaining <= 0

\* No pass of the loop breaks that.
LEMMA NextSplitInv == SplitInv /\ [Next]_vars => SplitInv'
<1> SUFFICES ASSUME SplitInv, [Next]_vars
             PROVE  SplitInv'
  OBVIOUS
<1>0. Len(source) \in Nat /\ Len(begins) \in Nat /\ Len(Delimiter) \in Nat \ {0}
  BY SplitAssumption DEF SplitInv
<1>1. CASE NextField
  <2> PICK field \in {SubSeq(source, field_begin, FieldEnd - 1), Null} :
        string_array' = Append(string_array, field)
    BY <1>1 DEF NextField
  <2>1. field_begin \in 1..Len(source)
    BY <1>0, <1>1 DEF NextField, SplitInv
  <2>2. FieldEnd = EndFrom(field_begin)
    BY DEF FieldEnd, EndFrom, Found, SplitInv
  <2> DEFINE e == EndFrom(field_begin)
  <2>3. e \in field_begin..Len(source) + 1
    BY <1>0, <2>1, EndIsFirst
  <2>4. /\ chars_remaining' = chars_remaining - (e - field_begin) - Len(Delimiter)
        /\ field_begin' = e + Len(Delimiter)
        /\ begins' = Append(begins, field_begin)
        /\ UNCHANGED <<source, result>> /\ result = "none"
    BY <1>1, <2>2 DEF NextField
  <2>5. field \in Seq(Char) \cup {Null}
    <3>1. \A i \in field_begin..e - 1 : source[i] \in Char
      BY <1>0, <2>1, <2>3 DEF SplitInv
    <3> HIDE DEF e
    <3>2. e - 1 \in Int /\ field_begin \in Int
      BY <1>0, <2>1, <2>3
    <3>3. SubSeq(source, field_begin, e - 1) \in Seq(Char)
      BY <3>1, <3>2, SubSeqProperties
    <3> QED
      BY <2>2, <3>3 DEF e
  <2>6. \A b : EndFrom(b)' = EndFrom(b)
    BY <2>4 DEF EndFrom, Found, At
  <2> HIDE DEF e
  <2>7. /\ begins' \in Seq(Nat) /\ Len(begins') = Len(begins) + 1
        /\ \A k \in 1..Len(begins) : begins'[k] = begins[k]
        /\ begins'[Len(begins) + 1] = field_begin
    BY <1>0, <2>4 DEF SplitInv
  <2>8. /\ string_array' \in Seq(Seq(Char) \cup {Null}) /\ Len(string_array') = Len(begins) + 1
        /\ \A k \in 1..Len(begins) : string_array'[k] = string_array[k]
        /\ string_array'[Len(begins) + 1] = field
    BY <1>0, <2>5 DEF SplitInv
  <2>9. \A k \in 1..Len(begins') :
          /\ begins'[k] \in 1..Len(source)
          /\ string_array'[k] \in {SubSeq(source, begins'[k], EndFrom(begins'[k]) - 1), Null}
          /\ begins'[k] = IF k = 1 THEN 1 ELSE EndFrom(begins'[k - 1]) + Len(Delimiter)
    <3> SUFFICES ASSUME NEW k \in 1..Len(begins) + 1
                 PROVE  /\ begins'[k] \in 1..Len(source)
                        /\ string_array'[k] \in
                             {SubSeq(source, begins'[k], EndFrom(begins'[k]) - 1), Null}
                        /\ begins'[k] = IF k = 1 THEN 1
                                        ELSE EndFrom(begins'[k - 1]) + Len(Delimiter)
      BY <2>7
    <3>1. k # 1 => k - 1 \in 1..Len(begins)
      BY <1>0
    <3>2. CASE k \in 1..Len(begins)
      <4>1. /\ begins[k] \in 1..Len(source)
            /\ string_array[k] \in {SubSeq(source, begins[k], EndFrom(begins[k]) - 1), Null}
            /\ begins[k] = IF k = 1 THEN 1 ELSE EndFrom(begins[k - 1]) + Len(Delimiter)
        BY <3>2 DEF SplitInv
      <4>2. /\ begins'[k] = begins[k] /\ string_array'[k] = string_array[k]
            /\ k # 1 => begins'[k - 1] = begins[k - 1]
        BY <2>7, <2>8, <3>1, <3>2
      <4> QED
        BY <4>1, <4>2, Zenon
    <3>3. CASE k = Len(begins) + 1
      <4>1. begins'[k] = field_begin /\ string_array'[k] = field
        BY <2>7, <2>8, <3>3
      <4>2. field \in {SubSeq(source, field_begin, e - 1), Null}
        BY <2>2 DEF e
      <4>3. field_begin = IF Len(begins) = 0 THEN 1
                          ELSE EndFrom(begins[Len(begins)]) + Len(Delimiter)
        BY <2>4 DEF SplitInv
      <4>4. /\ k = 1 <=> Len(begins) = 0
            /\ k # 1 => k - 1 = Len(begins) /\ begins'[k - 1] = begins[k - 1]
        BY <1>0, <2>7, <3>1, <3>3
      <4>5. begins'[k] = IF k = 1 THEN 1 ELSE EndFrom(begins'[k - 1]) + Len(Delimiter)
        BY <4>1, <4>3, <4>4, Zenon
      <4> QED
        BY <2>1, <4>1, <4>2, <4>5, Zenon DEF e
    <3>4. k \in 1..Len(begins) \/ k = Len(begins) + 1
      BY <1>0
    <3> QED
      BY <3>2, <3>3, <3>4, Zenon
  <2>10. /\ field_begin' \in Nat \ {0} /\ chars_remaining' \in Int
         /\ field_begin' + chars_remaining' = Len(source) + 1
    <3>1. /\ e \in Nat \ {0} /\ field_begin \in Nat /\ chars_remaining \in Int
          /\ field_begin + chars_remaining = Len(source) + 1
      BY <1>0, <2>1, <2>3 DEF SplitInv
    <3>2. /\ field_begin' = e + Len(Delimiter) /\ source' = source
          /\ chars_remaining' = chars_remaining - (e - field_begin) - Len(Delimiter)
      BY <2>4
    <3>3. chars_remaining - (e - field_begin) - Len(Delimiter) \in Int
      BY <1>0, <3>1
    <3>4. e + Len(Delimiter) \in Nat \ {0}
      BY <1>0, <3>1
    <3>5. e + Len(Delimiter) + (chars_remaining - (e - field_begin) - Len(Delimiter))
            = field_begin + chars_remaining
      BY <1>0, <3>1
    <3> QED
      BY <3>1, <3>2, <3>3, <3>4, <3>5, Zenon
  <2>11. field_begin' = IF Len(begins') = 0 THEN 1
                        ELSE EndFrom(begins'[Len(begins')]) + Len(Delimiter)
    <3>1. Len(begins') # 0 /\ begins'[Len(begins')] = field_begin
      BY <1>0, <2>7
    <3> QED
      BY <2>4, <3>1, Zenon DEF e
  <2>12. source' \in Seq(Char) /\ Len(string_array') = Len(begins')
    BY <2>4, <2>7, <2>8 DEF SplitInv
  <2>13. result' = "none" /\ source' = source
    BY <2>4
  <2> QED
    BY <2>6, <2>7, <2>8, <2>9, <2>10, <2>11, <2>12, <2>13, Zenon DEF SplitInv
<1>2. CASE NoMemory
  BY <1>0, <1>2 DEF NoMemory, SplitInv
<1>3. CASE Return \/ UNCHANGED vars
  <2>1. UNCHANGED <<source, string_array, field_begin, chars_remaining, begins>>
    BY <1>3 DEF Return, vars
  <2>2. \A b : EndFrom(b)' = EndFrom(b)
    BY <2>1 DEF EndFrom, Found, At
  <2>3. /\ result' # "null" => result # "null"
        /\ result' = "array" => chars_remaining <= 0
    BY <1>3 DEF Return, vars, SplitInv
  <2> QED
    BY <2>1, <2>2, <2>3, Zenon DEF SplitInv
<1> QED
  BY <1>1, <1>2, <1>3 DEF Next

LEMMA SplitInvariant == Spec => []SplitInv
<1>1. Init => SplitInv
  BY DEF Init, SplitInv, BoundedSeq, SeqOf
<1> QED
  BY <1>1, NextSplitInv, PTL DEF Spec

\* What a reader of the array sees of it: the fields before the first null pointer.
LEMMA FieldsAreFound ==
  ASSUME SplitInv
  PROVE  /\ Len(Fields) \in 0..Len(begins) /\ DOMAIN Fields = 1..Len(Fields)
         /\ Fields \in Seq(Seq(Char) \cup {Null})
         /\ \A k \in 1..Len(Fields) :
              Fields[k] = SubSeq(source, begins[k], EndFrom(begins[k]) - 1)
<1> DEFINE all == Append(string_array, Null)
           nulls == {i \in 1..Len(all) : all[i] = Null}
           m == Min(nulls)
<1>1. /\ Len(string_array) = Len(begins) /\ Len(begins) \in Nat
      /\ string_array \in Seq(Seq(Char) \cup {Null})
  BY DEF SplitInv
<1>2. /\ Len(all) = Len(begins) + 1 /\ all[Len(begins) + 1] = Null
      /\ \A i \in 1..Len(begins) : all[i] = string_array[i]
  BY <1>1
<1> HIDE DEF all
<1>3. m \in nulls /\ \A i \in nulls : m <= i
  <2>1. Len(begins) + 1 \in nulls
    BY <1>1, <1>2
  <2>2. nulls \in SUBSET Nat /\ nulls # {}
    BY <1>1, <1>2, <2>1
  <2> HIDE DEF nulls
  <2> QED
    BY <2>2, MinIsLeast
<1>4. m \in 1..Len(begins) + 1
  BY <1>1, <1>2, <1>3
<1>5. \A i \in 1..m - 1 : i \in 1..Len(begins) /\ string_array[i] # Null
  <2> TAKE i \in 1..m - 1
  <2>1. i \in 1..Len(begins) /\ ~(m <= i) /\ i \in 1..Len(begins) + 1
    BY <1>1, <1>4
  <2>2. i \notin nulls
    BY <1>3, <2>1
  <2> QED
    BY <1>2, <2>1, <2>2
<1>6. Fields = SubSeq(string_array, 1, m - 1)
  <2>1. nulls # {}
    BY <1>3
  <2> QED
    BY <2>1 DEF Fields, SelectInSeq, all
<1> HIDE DEF m, nulls
<1>7. /\ Fields \in Seq(Seq(Char) \cup {Null}) /\ Len(Fields) = m - 1
      /\ \A i \in 1..m - 1 : Fields[i] = string_array[i]
  <2>1. \A i \in 1..m - 1 : string_array[i] \in Seq(Char) \cup {Null}
    BY <1>1, <1>5
  <2>2. m - 1 \in Int /\ 1 \in Int /\ (1 <= m - 1 => m - 1 - 1 + 1 = m - 1) /\ m - 1 >= 0
    BY <1>1, <1>4
  <2>3. /\ SubSeq(string_array, 1, m - 1) \in Seq(Seq(Char) \cup {Null})
        /\ Len(SubSeq(string_array, 1, m - 1)) = IF 1 <= m - 1 THEN m - 1 - 1 + 1 ELSE 0
        /\ \A i \in 1..m - 1 - 1 + 1 : SubSeq(string_array, 1, m - 1)[i] = string_array[1 + i - 1]
    BY <2>1, <2>2, SubSeqProperties
  <2>4. \A i \in 1..m - 1 : i \in 1..m - 1 - 1 + 1 /\ 1 + i - 1 = i
    BY <1>1, <1>4
  <2>5. Len(Fields) = m - 1
    BY <1>6, <2>2, <2>3
  <2> QED
    BY <1>6, <2>3, <2>4, <2>5
<1>8. \A k \in 1..Len(Fields) : Fields[k] = SubSeq(source, begins[k], EndFrom(begins[k]) - 1)
  BY <1>5, <1>7 DEF SplitInv
<1> QED
  BY <1>1, <1>4, <1>7, <1>8

\* A field and the delimiter behind it are what they were in the source, or at its end.
LEMMA FieldAndDelimiter ==
  ASSUME source \in Seq(Char), NEW b \in 1..Len(source)
  PROVE  SubSeq(source \o Delimiter, b, EndFrom(b) + Len(Delimiter) - 1)
           = SubSeq(source, b, EndFrom(b) - 1) \o Delimiter
<1> DEFINE e == EndFrom(b)
           t == source \o Delimiter
           L == Len(Delimiter)
           n == Len(source)
<1>1. n \in Nat /\ L \in Nat \ {0} /\ Delimiter \in Seq(Char)
  BY SplitAssumption
<1>2. e \in b..n + 1 /\ (e <= n => e \in Found(b))
  BY <1>1, EndIsFirst
<1>3. t \in Seq(Char) /\ Len(t) = n + L
  BY <1>1
<1>4. SubSeq(t, e, e + L - 1) = Delimiter
  <2>1. CASE e = n + 1
    <3>1. SubSeq(t, e, e + L - 1) = SubSeq(Delimiter, e - n, e + L - 1 - n)
      <4>1. /\ e \in Len(source) + 1..Len(source) + Len(Delimiter)
            /\ e + L - 1 \in Len(source) + 1..Len(source) + Len(Delimiter)
        BY <1>1, <2>1
      <4> HIDE DEF e
      <4> DEFINE g == e + L - 1
      <4> HIDE DEF g
      <4>2. SubSeq(source \o Delimiter, e, g)
              = SubSeq(Delimiter, e - Len(source), g - Len(source))
        BY <1>1, <4>1, SubSeqOfConcat2 DEF g
      <4>3. e + L - 1 - n = g - Len(source)
        BY <1>1, <4>1 DEF g
      <4> QED
        BY <4>2, <4>3, Zenon DEF g
    <3>2. e - n = 1 /\ e + L - 1 - n = L
      BY <1>1, <2>1
    <3> QED
      BY <1>1, <3>1, <3>2, SubSeqFull
  <2>2. CASE e <= n
    <3>1. SubSeq(source, e, e + L - 1) = Delimiter /\ e + L - 1 <= n
      BY <1>2, <2>2 DEF Found, At
    <3>2. e \in 1..n /\ e + L - 1 \in 1..n
      BY <1>1, <1>2, <2>2, <3>1
    <3> QED
      BY <1>1, <3>1, <3>2, SubSeqOfConcat1
  <2> QED
    BY <1>1, <1>2, <2>1, <2>2
<1>5. SubSeq(t, b, e - 1) = SubSeq(source, b, e - 1)
  <2>1. CASE b <= e - 1
    <3>1. b \in 1..n /\ e - 1 \in 1..n
      BY <1>1, <1>2, <2>1
    <3> QED
      BY <1>1, <3>1, SubSeqOfConcat1
  <2>2. CASE e - 1 < b
    <3>1. e - 1 \in Int /\ b \in Int
      BY <1>1, <1>2
    <3> QED
      BY <2>2, <3>1, SubSeqEmpty
  <2> QED
    BY <1>1, <1>2, <2>1, <2>2
<1>6. SubSeq(t, b, e - 1) \o SubSeq(t, e - 1 + 1, e + L - 1) = SubSeq(t, b, e + L - 1)
  <2>1. b \in 1..Len(t) + 1 /\ e - 1 \in b - 1..Len(t) /\ e + L - 1 \in e - 1..Len(t)
    BY <1>1, <1>2, <1>3
  <2> HIDE DEF t, e
  <2> QED
    BY <1>3, <2>1, ConcatAdjacentSubSeq
<1>7. e - 1 + 1 = e
  BY <1>1, <1>2
<1> QED
  BY <1>4, <1>5, <1>6, <1>7

\* No delimiter that a C string shows is left in a field.
LEMMA NoDelimiterInside ==
  ASSUME source \in Seq(Char), NEW b \in 1..Len(source), NEW i \in 1..Len(source)
  PROVE  ~At(Delimiter, SubSeq(source, b, EndFrom(b) - 1), 1, i)
<1> DEFINE e == EndFrom(b)
           f == SubSeq(source, b, e - 1)
           L == Len(Delimiter)
           n == Len(source)
<1>1. n \in Nat /\ L \in Nat \ {0} /\ Delimiter \in Seq(Char)
  BY SplitAssumption
<1>2. /\ e \in b..n + 1
      /\ \A j \in b..n : j < e => j \notin Found(b)
  BY <1>1, EndIsFirst
<1>3. /\ Len(f) = IF b <= e - 1 THEN e - 1 - b + 1 ELSE 0
      /\ \A j \in 1..e - 1 - b + 1 : f[j] = source[b + j - 1]
  <2>1. \A j \in b..e - 1 : source[j] \in Char
    BY <1>1, <1>2
  <2>2. b \in Int /\ e - 1 \in Int
    BY <1>1, <1>2
  <2> HIDE DEF e
  <2> QED
    BY <2>1, <2>2, SubSeqProperties
<1> SUFFICES ASSUME At(Delimiter, f, 1, i)
             PROVE  FALSE
  OBVIOUS
<1> HIDE DEF f, e
<1>4. /\ i + L - 1 <= Len(f) /\ SubSeq(f, i, i + L - 1) = Delimiter
      /\ \A j \in 1..i : f[j] # Zero
  BY DEF At
<1>5. Len(f) = e - b /\ e - b \in Nat /\ b + i - 1 \in b..n /\ b + i - 1 < e /\ b + i - 1 + L - 1 <= n
  BY <1>1, <1>2, <1>3, <1>4
<1>6. \A j \in 1..Len(f) : f[j] = source[b + j - 1]
  BY <1>1, <1>2, <1>3, <1>5
<1>7. \A j \in b..b + i - 1 : source[j] # Zero
  <2> TAKE j \in b..b + i - 1
  <2>1. j - b + 1 \in 1..i /\ j - b + 1 \in 1..Len(f) /\ b + (j - b + 1) - 1 = j
    BY <1>1, <1>4, <1>5
  <2> QED
    BY <1>4, <1>6, <2>1
<1>8. SubSeq(source, b + i - 1, b + i - 1 + L - 1) = Delimiter
  <2>1. /\ b \in 1..n /\ e - 1 \in 1..n
        /\ i \in 1..e - 1 - b + 1 /\ i + L - 1 \in 1..e - 1 - b + 1
    BY <1>1, <1>2, <1>4, <1>5
  <2>2. SubSeq(f, i, i + L - 1) = SubSeq(source, b + i - 1, b + (i + L - 1) - 1)
    BY <2>1, SubSeqOfSubSeq DEF f
  <2>3. b + (i + L - 1) - 1 = b + i - 1 + L - 1
    BY <1>1
  <2> QED
    BY <1>4, <2>2, <2>3
<1>9. b + i - 1 \in Found(b)
  BY <1>5, <1>7, <1>8 DEF Found, At
<1> QED
  BY <1>2, <1>5, <1>9

\* Joined with its delimiter, what string_split returns is its source, of any bytes and
\* any length, for any delimiter, and whatever could not be allocated.
THEOREM SplitsExactly == Spec => []SplitIsExact
<1>1. SplitInv => SplitIsExact
  <2> SUFFICES ASSUME SplitInv PROVE SplitIsExact
    OBVIOUS
  <2>0. /\ source \in Seq(Char) /\ Len(source) \in Nat /\ Len(Delimiter) \in Nat
        /\ Len(begins) \in Nat
    BY SplitAssumption DEF SplitInv
  <2>1. \A k \in 1..Len(Fields) :
          /\ begins[k] \in 1..Len(source)
          /\ Fields[k] = SubSeq(source, begins[k], EndFrom(begins[k]) - 1)
          /\ Len(Fields[k]) = EndFrom(begins[k]) - begins[k]
          /\ NextBegin(k) = EndFrom(begins[k]) + Len(Delimiter)
    <3> TAKE k \in 1..Len(Fields)
    <3>1. begins[k] \in 1..Len(source)
      BY <2>0, FieldsAreFound DEF SplitInv
    <3>2. Fields[k] = SubSeq(source, begins[k], EndFrom(begins[k]) - 1)
      BY FieldsAreFound
    <3>3. EndFrom(begins[k]) \in begins[k]..Len(source) + 1
      BY <2>0, <3>1, EndIsFirst
    <3> DEFINE b == begins[k]
               e == EndFrom(b)
    <3>4. Len(SubSeq(source, b, e - 1)) = IF b <= e - 1 THEN e - 1 - b + 1 ELSE 0
      <4> HIDE DEF b, e
      <4>1. b \in Int /\ e - 1 \in Int /\ \A j \in b..e - 1 : source[j] \in Char
        BY <2>0, <3>1, <3>3 DEF b, e
      <4> QED
        BY <4>1, SubSeqProperties
    <3>5. Len(Fields[k]) = e - b
      <4>1. b \in Int /\ e \in Int /\ b <= e
        BY <2>0, <3>1, <3>3
      <4> HIDE DEF b, e
      <4>2. (IF b <= e - 1 THEN e - 1 - b + 1 ELSE 0) = e - b
        BY <4>1
      <4> QED
        BY <3>2, <3>4, <4>2 DEF b, e
    <3>6. NextBegin(k) = e + Len(Delimiter)
      BY <2>0, <3>1, <3>3, <3>5 DEF NextBegin
    <3> QED
      BY <3>1, <3>2, <3>5, <3>6
  <2>2. ASSUME NEW k \in DOMAIN Fields
        PROVE  /\ \A i \in 1..Len(source) : ~At(Delimiter, Fields[k], 1, i)
               /\ begins[k] = IF k = 1 THEN 1 ELSE NextBegin(k - 1)
               /\ SubSeq(source \o Delimiter, begins[k], NextBegin(k) - 1)
                    = Fields[k] \o Delimiter
    <3>1. k \in 1..Len(Fields) /\ k \in 1..Len(begins)
      BY <2>0, FieldsAreFound
    <3>2. k # 1 => k - 1 \in 1..Len(Fields)
      BY <2>0, <3>1, FieldsAreFound
    <3>3. begins[k] = IF k = 1 THEN 1 ELSE EndFrom(begins[k - 1]) + Len(Delimiter)
      BY <3>1 DEF SplitInv
    <3>4. \A i \in 1..Len(source) : ~At(Delimiter, Fields[k], 1, i)
      BY <2>0, <2>1, <3>1, NoDelimiterInside
    <3>5. SubSeq(source \o Delimiter, begins[k], NextBegin(k) - 1) = Fields[k] \o Delimiter
      <4>1. SubSeq(source \o Delimiter, begins[k], EndFrom(begins[k]) + Len(Delimiter) - 1)
              = SubSeq(source, begins[k], EndFrom(begins[k]) - 1) \o Delimiter
        BY <2>0, <2>1, <3>1, FieldAndDelimiter
      <4>2. /\ NextBegin(k) = EndFrom(begins[k]) + Len(Delimiter)
            /\ Fields[k] = SubSeq(source, begins[k], EndFrom(begins[k]) - 1)
        BY <2>1, <3>1
      <4>3. EndFrom(begins[k]) \in Int
        BY <2>0, <2>1, <3>1, EndIsFirst
      <4>4. NextBegin(k) - 1 = EndFrom(begins[k]) + Len(Delimiter) - 1
        BY <2>0, <4>2, <4>3
      <4> QED
        BY <4>1, <4>2, <4>4, Zenon
    <3> QED
      BY <2>1, <3>2, <3>3, <3>4, <3>5
  <2>3. ASSUME result # "null", Len(Fields) = Len(string_array)
        PROVE  field_begin = IF Fields = <<>> THEN 1 ELSE NextBegin(Len(Fields))
    <3>1. Len(Fields) = Len(begins)
      BY <2>3 DEF SplitInv
    <3>2. Fields = <<>> <=> Len(Fields) = 0
      BY FieldsAreFound, EmptySeq
    <3>3. Len(Fields) # 0 => Len(Fields) \in 1..Len(Fields)
      BY <2>0, <3>1
    <3>4. field_begin = IF Len(begins) = 0 THEN 1
                        ELSE EndFrom(begins[Len(begins)]) + Len(Delimiter)
      BY <2>3 DEF SplitInv
    <3> QED
      BY <2>1, <3>1, <3>2, <3>3, <3>4
  <2> QED
    BY <2>2, <2>3 DEF SplitInv, SplitIsExact
<1> QED
  BY <1>1, SplitInvariant, PTL

\* The delimiter stands at place i of the source; no zero byte does up to it.
DelimiterAt(i) ==
  /\ i \in 1..Len(source) /\ i + Len(Delimiter) - 1 <= Len(source)
  /\ SubSeq(source, i, i + Len(Delimiter) - 1) = Delimiter
Clear(i) == \A j \in 1..i : source[j] # Zero

\* Two places of the delimiter do not overlap.
LEMMA NoOverlap ==
  ASSUME source \in Seq(Char), NEW i \in Int, NEW j \in Int, i < j, DelimiterAt(i), DelimiterAt(j)
  PROVE  i + Len(Delimiter) <= j
<1> DEFINE L == Len(Delimiter)
           n == Len(source)
           k == i + L - j
<1>1. n \in Nat /\ L \in Nat \ {0} /\ Delimiter \in Seq(Char)
  BY SplitAssumption
<1> SUFFICES ASSUME j < i + L
             PROVE  FALSE
  BY <1>1
<1>2. k \in 1..L - 1
  BY <1>1
<1>3. /\ i \in 1..n /\ i + L - 1 \in 1..n /\ SubSeq(source, i, i + L - 1) = Delimiter
      /\ j \in 1..n /\ j + L - 1 \in 1..n /\ SubSeq(source, j, j + L - 1) = Delimiter
  BY <1>1 DEF DelimiterAt
<1>4. SubSeq(Delimiter, 1, k) = SubSeq(source, j, i + L - 1)
  <2>1. 1 \in 1..(j + L - 1) - j + 1 /\ k \in 1..(j + L - 1) - j + 1
    BY <1>1, <1>2
  <2>2. SubSeq(SubSeq(source, j, j + L - 1), 1, k) = SubSeq(source, j + 1 - 1, j + k - 1)
    <3> DEFINE g == j + L - 1
    <3> HIDE DEF k, g
    <3> QED
      BY <1>3, <2>1, SubSeqOfSubSeq DEF g
  <2>3. j + 1 - 1 = j /\ j + k - 1 = i + L - 1
    BY <1>1
  <2> QED
    BY <1>3, <2>2, <2>3
<1>5. SubSeq(Delimiter, L - k + 1, L) = SubSeq(source, j, i + L - 1)
  <2>1. L - k + 1 \in 1..(i + L - 1) - i + 1 /\ L \in 1..(i + L - 1) - i + 1
    BY <1>1, <1>2
  <2>2. SubSeq(SubSeq(source, i, i + L - 1), L - k + 1, L)
          = SubSeq(source, i + (L - k + 1) - 1, i + L - 1)
    <3> DEFINE g == i + L - 1
               h == L - k + 1
    <3> HIDE DEF g, h
    <3> QED
      BY <1>3, <2>1, SubSeqOfSubSeq DEF g, h
  <2>3. i + (L - k + 1) - 1 = j
    BY <1>1
  <2> QED
    BY <1>3, <2>2, <2>3
<1> QED
  BY <1>2, <1>4, <1>5, SplitAssumption

\* Each field begins behind the ones before it.
LEMMA BeginsGrow ==
  ASSUME SplitInv, NEW j \in 1..Len(begins), NEW k \in 1..Len(begins), j < k
  PROVE  begins[j] < begins[k]
<1> DEFINE bad == {x \in 1..Len(begins) : j < x /\ begins[x] <= begins[j]}
<1>1. /\ Len(begins) \in Nat /\ Len(source) \in Nat /\ Len(Delimiter) \in Nat \ {0}
      /\ \A x \in 1..Len(begins) : begins[x] \in 1..Len(source)
  BY SplitAssumption DEF SplitInv
<1> SUFFICES ASSUME bad # {}
             PROVE  FALSE
  <2>1. begins[j] \in Int /\ begins[k] \in Int
    BY <1>1
  <2> QED
    BY <2>1
<1>2. PICK x \in bad : \A y \in bad : x <= y
  <2>1. bad \in SUBSET Nat
    BY <1>1
  <2> HIDE DEF bad
  <2> QED
    BY <2>1, LeastNatural
<1>3. x \in 1..Len(begins) /\ x # 1 /\ x - 1 \in 1..Len(begins) /\ x - 1 >= j /\ ~(x <= x - 1)
  BY <1>1, <1>2
<1>4. x - 1 \notin bad
  BY <1>2, <1>3
<1>5. begins[j] <= begins[x - 1]
  <2>1. begins[j] \in Int /\ begins[x - 1] \in Int
    BY <1>1, <1>3
  <2>2. CASE x - 1 = j
    BY <2>1, <2>2
  <2>3. CASE x - 1 # j
    <3>1. j < x - 1
      BY <1>1, <1>3, <2>3
    <3>2. ~(begins[x - 1] <= begins[j])
      BY <1>3, <1>4, <3>1, Zenon
    <3> QED
      BY <2>1, <3>2
  <2> QED
    BY <2>2, <2>3
<1>6. begins[x] = EndFrom(begins[x - 1]) + Len(Delimiter)
  <2>1. \A m \in 1..Len(begins) :
          begins[m] = IF m = 1 THEN 1 ELSE EndFrom(begins[m - 1]) + Len(Delimiter)
    BY Zenon DEF SplitInv
  <2> QED
    BY <1>3, <2>1, Zenon
<1>7. EndFrom(begins[x - 1]) \in begins[x - 1]..Len(source) + 1
  BY <1>1, <1>3, EndIsFirst
<1>8. begins[x] <= begins[j]
  BY <1>2
<1>9. begins[j] \in Int /\ begins[x - 1] \in Int
  BY <1>1, <1>3
<1> DEFINE b == begins[x - 1]
           e == EndFrom(b)
<1>10. e \in Int /\ b <= e
  BY <1>1, <1>7, <1>9
<1> HIDE DEF b, e
<1>11. begins[x] = e + Len(Delimiter) /\ begins[j] <= b /\ b \in Int
  BY <1>5, <1>6, <1>9 DEF b, e
<1> QED
  BY <1>1, <1>8, <1>9, <1>10, <1>11

\* Once all of the source is split, each delimiter with no zero byte before it is the
\* end of a field.
LEMMA DelimitersEndFields ==
  ASSUME SplitInv, result = "array", NEW i \in 1..Len(source), DelimiterAt(i), Clear(i)
  PROVE  \E k \in 1..Len(begins) : EndFrom(begins[k]) = i
<1> DEFINE N == Len(begins)
           L == Len(Delimiter)
           n == Len(source)
           reach == {k \in 1..N : k = N \/ begins[k + 1] > i}
<1>1. /\ N \in Nat /\ n \in Nat /\ L \in Nat \ {0} /\ source \in Seq(Char)
      /\ \A k \in 1..N : begins[k] \in 1..n
      /\ \A k \in 1..N : begins[k] = IF k = 1 THEN 1 ELSE EndFrom(begins[k - 1]) + L
      /\ field_begin = IF N = 0 THEN 1 ELSE EndFrom(begins[N]) + L
      /\ field_begin > n
  BY SplitAssumption DEF SplitInv
<1>2. N # 0
  BY <1>1
<1>3. PICK k \in reach : \A y \in reach : k <= y
  <2>1. N \in reach /\ reach \in SUBSET Nat
    BY <1>1, <1>2
  <2> HIDE DEF reach
  <2> QED
    BY <2>1, LeastNatural
<1>4. k \in 1..N /\ (k = N \/ begins[k + 1] > i)
  OBVIOUS
<1>5. begins[k] <= i
  <2>1. CASE k = 1
    BY <1>1, <1>4, <2>1
  <2>2. CASE k # 1
    <3>1. k - 1 \in 1..N /\ ~(k <= k - 1) /\ k - 1 # N /\ k - 1 + 1 = k
      BY <1>1, <1>4, <2>2
    <3>2. k - 1 \notin reach
      BY <1>3, <3>1
    <3>3. ~(begins[k] > i)
      BY <3>1, <3>2
    <3> QED
      BY <1>1, <1>4, <3>3
  <2> QED
    BY <2>1, <2>2
<1> HIDE DEF reach
<1> DEFINE b == begins[k]
           e == EndFrom(b)
<1>6. b \in 1..n /\ b <= i
  BY <1>1, <1>4, <1>5
<1>7. i \in Found(b)
  BY <1>1, <1>6 DEF Found, At, DelimiterAt, Clear
<1>8. e \in b..n + 1 /\ e <= i /\ (e <= n => e \in Found(b))
  BY <1>1, <1>6, <1>7, EndIsFirst
<1>9. ~(e < i)
  <2> SUFFICES ASSUME e < i PROVE FALSE
    OBVIOUS
  <2>1. DelimiterAt(e) /\ e \in Int
    BY <1>1, <1>6, <1>8, SMTT(30) DEF Found, At, DelimiterAt
  <2>2. e + L <= i
    <3> HIDE DEF e
    <3> QED
      BY <1>1, <2>1, NoOverlap
  <2>3. CASE k = N
    BY <1>1, <1>2, <2>2, <2>3
  <2>4. CASE k # N
    <3>1. k + 1 \in 1..N /\ k + 1 # 1 /\ k + 1 - 1 = k
      BY <1>1, <1>4, <2>4
    <3> DEFINE m == k + 1
    <3>2. \A y \in 1..N : y # 1 => begins[y] = EndFrom(begins[y - 1]) + L
      BY <1>1, Zenon
    <3>3. begins[m] = e + L
      <4>1. m \in 1..N /\ m # 1 /\ m - 1 = k
        BY <1>1, <1>4, <3>1
      <4> HIDE DEF m
      <4>2. begins[m] = EndFrom(begins[m - 1]) + L
        BY <3>2, <4>1, Zenon
      <4> QED
        BY <4>1, <4>2, Zenon
    <3>4. begins[k + 1] > i
      BY <1>4, <2>4
    <3> QED
      BY <1>1, <1>8, <2>1, <2>2, <3>3, <3>4
  <2> QED
    BY <2>3, <2>4
<1>10. e = i
  BY <1>1, <1>8, <1>9
<1> QED
  BY <1>4, <1>10

\* The bytes of a delimiter do not end a C string.
LEMMA DelimiterIsClear ==
  ASSUME source \in Seq(Char), NEW i \in Int, DelimiterAt(i)
  PROVE  \A j \in i..i + Len(Delimiter) - 1 : source[j] # Zero
<1> DEFINE L == Len(Delimiter)
           g == i + L - 1
<1>1. L \in Nat \ {0} /\ Delimiter \in Seq(Char \ {Zero}) /\ Len(source) \in Nat
  BY SplitAssumption
<1>2. i \in 1..Len(source) /\ g <= Len(source) /\ g \in Int /\ g >= i /\ g - i + 1 = L
  BY <1>1 DEF DelimiterAt
<1>3. SubSeq(source, i, g) = Delimiter
  BY DEF DelimiterAt
<1> HIDE DEF g
<1>4. \A j \in 1..g - i + 1 : SubSeq(source, i, g)[j] = source[i + j - 1]
  <2>1. \A j \in i..g : source[j] \in Char
    BY <1>1, <1>2
  <2> QED
    BY <1>2, <2>1, SubSeqProperties
<1>5. ASSUME NEW j \in i..g
      PROVE  source[j] # Zero
  <2>1. j - i + 1 \in 1..L /\ i + (j - i + 1) - 1 = j
    BY <1>1, <1>2
  <2>2. Delimiter[j - i + 1] = source[j]
    BY <1>2, <1>3, <1>4, <2>1
  <2> QED
    BY <1>1, <2>1, <2>2
<1> QED
  BY <1>5 DEF g

\* A blank line is two delimiters, one behind the other.
LEMMA BlankLineIsTwo ==
  ASSUME source \in Seq(Char), NEW i \in 1..Len(source)
  PROVE  At(Delimiter \o Delimiter, source, 1, i)
           <=> DelimiterAt(i) /\ DelimiterAt(i + Len(Delimiter)) /\ Clear(i)
<1> DEFINE L == Len(Delimiter)
           n == Len(source)
           two == Delimiter \o Delimiter
           g == i + L - 1
           h == i + Len(two) - 1
<1>1. n \in Nat /\ L \in Nat \ {0} /\ Delimiter \in Seq(Char) /\ two \in Seq(Char)
  BY SplitAssumption
<1>2. Len(two) = L + L
  BY <1>1
<1>3. g \in Int /\ h \in Int /\ g >= i /\ h = g + L /\ i + L = g + 1 /\ i + L + L - 1 = h
  BY <1>1, <1>2
<1>4. SubSeq(two, 1, L) = Delimiter /\ SubSeq(two, L + 1, L + L) = Delimiter
  BY <1>1
<1>5. ASSUME h <= n, SubSeq(source, i, h) = two
      PROVE  SubSeq(source, i, g) = Delimiter /\ SubSeq(source, g + 1, h) = Delimiter
  <2>1. i \in 1..n /\ h \in 1..n /\ h - i + 1 = L + L
    BY <1>1, <1>3, <1>5
  <2>2. /\ 1 \in 1..h - i + 1 /\ L \in 1..h - i + 1 /\ L + 1 \in 1..h - i + 1
        /\ L + L \in 1..h - i + 1
    BY <1>1, <2>1
  <2> HIDE DEF h, g, two
  <2>3. /\ SubSeq(SubSeq(source, i, h), 1, L) = SubSeq(source, i + 1 - 1, i + L - 1)
        /\ SubSeq(SubSeq(source, i, h), L + 1, L + L)
             = SubSeq(source, i + (L + 1) - 1, i + (L + L) - 1)
    BY <1>1, <2>1, <2>2, SubSeqOfSubSeq, SMTT(30)
  <2>4. i + 1 - 1 = i /\ i + (L + 1) - 1 = g + 1 /\ i + (L + L) - 1 = h /\ i + L - 1 = g
    BY <1>1, <1>3 DEF g
  <2> QED
    BY <1>4, <1>5, <2>3, <2>4
<1>6. ASSUME h <= n, SubSeq(source, i, g) = Delimiter, SubSeq(source, g + 1, h) = Delimiter
      PROVE  SubSeq(source, i, h) = two
  <2>1. i \in 1..n + 1 /\ g \in i - 1..n /\ h \in g..n
    BY <1>1, <1>3, <1>6
  <2>2. SubSeq(source, i, g) \o SubSeq(source, g + 1, h) = SubSeq(source, i, h)
    <3> HIDE DEF g, h
    <3> QED
      BY <2>1, ConcatAdjacentSubSeq
  <2> QED
    BY <1>6, <2>2
<1>7. At(two, source, 1, i) <=> h <= n /\ SubSeq(source, i, h) = two /\ Clear(i)
  BY DEF At, Clear
<1>8. DelimiterAt(i) <=> g <= n /\ SubSeq(source, i, g) = Delimiter
  BY DEF DelimiterAt
<1>9. DelimiterAt(i + L) <=> h <= n /\ SubSeq(source, g + 1, h) = Delimiter
  <2>1. h <= n => i + L \in 1..n
    BY <1>1, <1>3
  <2>2. DelimiterAt(i + L)
          <=> i + L \in 1..n /\ i + L + L - 1 <= n /\ SubSeq(source, i + L, i + L + L - 1) = Delimiter
    BY DEF DelimiterAt
  <2> QED
    BY <1>3, <2>1, <2>2
<1>10. h <= n => g <= n
  BY <1>1, <1>3
<1> QED
  BY <1>5, <1>6, <1>7, <1>8, <1>9, <1>10, Zenon

\* The field behind the first blank line is the payload, and the field in front of it the
\* first blank one: neither a zero byte nor an empty field comes before it.
LEMMA PayloadFollowsBlankLine == SplitInv => PayloadIsLead
<1> SUFFICES ASSUME SplitInv, result = "array", Len(Fields) = Len(string_array),
                    BlankLines # {}
             PROVE  PayloadIsLead
  BY DEF PayloadIsLead
<1> DEFINE N == Len(begins)
           L == Len(Delimiter)
           n == Len(source)
           B == Min(BlankLines)
           first == B + 2 * L
           end(k) == EndFrom(begins[k])
<1>1. /\ N \in Nat /\ n \in Nat /\ L \in Nat \ {0} /\ source \in Seq(Char)
      /\ \A k \in 1..N : begins[k] \in 1..n
      /\ \A k \in 1..N : k # 1 => begins[k] = end(k - 1) + L
      /\ N # 0 => field_begin = end(N) + L
      /\ field_begin > n
  BY SplitAssumption DEF SplitInv
<1>2. /\ Len(Fields) = N
      /\ \A k \in 1..N : Fields[k] = SubSeq(source, begins[k], end(k) - 1)
  BY FieldsAreFound DEF SplitInv
<1>3. \A k \in 1..N : /\ end(k) \in begins[k]..n + 1
                      /\ end(k) <= n => DelimiterAt(end(k))
  <2> TAKE k \in 1..N
  <2> DEFINE b == begins[k]
             e == end(k)
  <2>1. b \in 1..n
    BY <1>1
  <2>2. e \in b..n + 1 /\ (e <= n => e \in Found(b))
    <3> HIDE DEF b
    <3> QED
      BY <1>1, <2>1, EndIsFirst DEF b
  <2> HIDE DEF b, e
  <2>3. e <= n => DelimiterAt(e)
    BY <1>1, <2>1, <2>2 DEF Found, At, DelimiterAt
  <2> QED
    BY <2>2, <2>3 DEF b, e
<1>4. B \in BlankLines /\ \A y \in BlankLines : B <= y
  <2>1. BlankLines \in SUBSET Nat
    BY <1>1 DEF BlankLines
  <2> QED
    BY <2>1, MinIsLeast
<1> HIDE DEF B
<1>5. B \in 1..n /\ DelimiterAt(B) /\ DelimiterAt(B + L) /\ Clear(B)
  BY <1>1, <1>4, BlankLineIsTwo DEF BlankLines
<1>6. B + L \in 1..n /\ B + L + L - 1 <= n
  BY <1>5 DEF DelimiterAt
<1>7. PICK k \in 1..N : end(k) = B
  BY <1>5, DelimitersEndFields
<1>8. begins[k] <= B
  BY <1>1, <1>3, <1>7
<1>9. k # N
  <2>1. CASE k = N
    BY <1>1, <1>5, <1>6, <1>7, <2>1
  <2> QED
    BY <2>1
<1>10. k + 1 \in 1..N /\ k + 1 # 1 /\ (k + 1) - 1 = k
  BY <1>1, <1>9
<1>11. begins[k + 1] = B + L
  BY <1>1, <1>7, <1>10, Zenon
<1>12. end(k + 1) = B + L
  <2>1. \A j \in B + L..B + L : source[j] # Zero
    <3>1. B + L \in Int /\ B + L \in B + L..B + L + L - 1
      BY <1>1, <1>5
    <3>2. source[B + L] # Zero
      BY <1>1, <1>5, <3>1, DelimiterIsClear
    <3> QED
      BY <3>1, <3>2
  <2>2. B + L \in Found(B + L)
    BY <1>5, <1>6, <2>1, SMTT(30) DEF Found, At, DelimiterAt
  <2>3. EndFrom(B + L) \in B + L..n + 1 /\ EndFrom(B + L) <= B + L
    BY <1>1, <1>6, <2>2, EndIsFirst
  <2>4. EndFrom(B + L) = B + L
    BY <1>6, <2>3
  <2> QED
    BY <1>11, <2>4
<1>13. Blank(Fields[k + 1])
  <2>1. Fields[k + 1] = SubSeq(source, begins[k + 1], end(k + 1) - 1)
    BY <1>2, <1>10
  <2>2. Fields[k + 1] = SubSeq(source, B + L, (B + L) - 1)
    BY <1>11, <1>12, <2>1
  <2>3. B + L \in Int /\ (B + L) - 1 \in Int /\ (B + L) - 1 < B + L
    BY <1>6
  <2>4. SubSeq(source, B + L, (B + L) - 1) = <<>>
    BY <2>3, SubSeqEmpty
  <2> QED
    BY <2>2, <2>4 DEF Blank
<1>14. ASSUME NEW j \in 2..k
       PROVE  ~Blank(Fields[j])
  <2>1. j \in 1..N /\ j # 1 /\ j - 1 \in 1..N
    BY <1>1
  <2>2. begins[j] \in 1..n /\ begins[j] <= B
    <3>1. CASE j = k
      BY <1>1, <1>8, <2>1, <3>1
    <3>2. CASE j # k
      <4>1. j < k /\ begins[k] \in Int /\ begins[j] \in 1..n
        BY <1>1, <2>1, <3>2
      <4>2. begins[j] < begins[k]
        BY <2>1, <4>1, BeginsGrow
      <4> QED
        BY <1>5, <1>8, <4>1, <4>2
    <3> QED
      BY <3>1, <3>2
  <2> DEFINE b == begins[j]
             e == end(j)
             p == end(j - 1)
  <2>3. b = p + L /\ p \in 1..n /\ p < b
    <3>1. b = p + L
      BY <1>1, <2>1, Zenon
    <3>2. p \in begins[j - 1]..n + 1 /\ begins[j - 1] \in 1..n
      BY <1>1, <1>3, <2>1
    <3> HIDE DEF p, b
    <3>3. b \in 1..n
      BY <2>2 DEF b
    <3> QED
      BY <1>1, <3>1, <3>2, <3>3
  <2>4. DelimiterAt(p)
    BY <1>1, <1>3, <2>1, <2>3
  <2>5. e \in b..n + 1
    BY <1>3, <2>1
  <2>6. e # b
    <3> SUFFICES ASSUME e = b PROVE FALSE
      OBVIOUS
    <3>1. DelimiterAt(p + L)
      BY <1>1, <1>3, <2>1, <2>2, <2>3
    <3> HIDE DEF p
    <3>2. Clear(p) /\ p < B
      BY <1>1, <1>5, <2>2, <2>3 DEF Clear
    <3>3. p \in BlankLines
      BY <1>1, <2>3, <2>4, <3>1, <3>2, BlankLineIsTwo DEF BlankLines
    <3> QED
      BY <1>4, <1>5, <2>3, <3>2, <3>3
  <2>7. Fields[j] = SubSeq(source, b, e - 1)
    BY <1>2, <2>1
  <2> HIDE DEF b, e, p
  <2>8. b \in 1..n /\ b <= B /\ e - 1 \in Int /\ b <= e - 1 /\ e - 1 <= n /\ e - 1 - b + 1 >= 1
    BY <1>1, <2>2, <2>5, <2>6 DEF b
  <2>9. \A x \in b..e - 1 : source[x] \in Char
    BY <1>1, <2>8
  <2>10. /\ Len(SubSeq(source, b, e - 1)) = IF b <= e - 1 THEN e - 1 - b + 1 ELSE 0
         /\ \A x \in 1..e - 1 - b + 1 : SubSeq(source, b, e - 1)[x] = source[b + x - 1]
    <3> DEFINE g == e - 1
    <3>1. b \in Int /\ g \in Int
      BY <2>8
    <3> HIDE DEF g
    <3>2. /\ Len(SubSeq(source, b, g)) = IF b <= g THEN g - b + 1 ELSE 0
          /\ \A x \in 1..g - b + 1 : SubSeq(source, b, g)[x] = source[b + x - 1]
      BY <2>9, <3>1, SubSeqProperties DEF g
    <3> QED
      BY <3>2 DEF g
  <2>11. Len(Fields[j]) >= 1 /\ Fields[j][1] = source[b]
    <3>1. 1 \in 1..e - 1 - b + 1 /\ b + 1 - 1 = b
      BY <2>8
    <3> QED
      BY <2>7, <2>8, <2>10, <3>1
  <2>12. source[b] # Zero
    BY <1>5, <2>8 DEF Clear
  <2> QED
    BY <2>11, <2>12 DEF Blank
<1>15. SelectInSubSeq(Fields, 2, Len(Fields), Blank) = k + 1
  <2> DEFINE I == {x \in 2..Len(Fields) : Blank(Fields[x])}
  <2>1. k + 1 \in I /\ I \in SUBSET Nat
    BY <1>1, <1>2, <1>10, <1>13
  <2>2. Min(I) \in I /\ \A y \in I : Min(I) <= y
    <3> HIDE DEF I
    <3> QED
      BY <2>1, MinIsLeast
  <2>3. \A x \in I : x \notin 2..k /\ x \in 2..N
    BY <1>2, <1>14
  <2> DEFINE m == Min(I)
  <2>4. m \in 2..N /\ m \notin 2..k /\ m <= k + 1
    BY <2>1, <2>2, <2>3
  <2>5. m = k + 1
    <3> HIDE DEF m
    <3> QED
      BY <1>1, <2>4
  <2> QED
    BY <2>1, <2>5 DEF SelectInSubSeq
<1>16. Payload = IF k + 1 \in 1..N - 1 THEN Fields[(k + 1) + 1] ELSE Null
  BY <1>2, <1>15 DEF Payload
<1> DEFINE ends == {i \in first..n : At(Delimiter, source, first, i)}
           last == IF ends = {} THEN n ELSE Min(ends) - 1
<1>17. first = (B + L) + L /\ first \in Nat
  BY <1>1, <1>5
<1>18. Payload = IF first > n THEN Null ELSE SubSeq(source, first, last)
  <2>1. CASE k + 1 = N
    <3>1. first > n
      BY <1>1, <1>12, <1>17, <2>1
    <3>2. k + 1 \notin 1..N - 1
      BY <1>1, <2>1
    <3> QED
      BY <1>16, <3>1, <3>2, Zenon
  <2>2. CASE k + 1 # N
    <3> DEFINE m == (k + 1) + 1
    <3>1. m \in 1..N /\ m # 1 /\ m - 1 = k + 1 /\ k + 1 \in 1..N - 1
      BY <1>1, <1>10, <2>2
    <3> HIDE DEF m
    <3>2. begins[m] = first
      <4>1. begins[m] = end(m - 1) + L
        BY <1>1, <3>1, Zenon
      <4> QED
        BY <1>12, <1>17, <3>1, <4>1
    <3>3. first \in 1..n /\ ~(first > n)
      BY <1>1, <3>1, <3>2
    <3>4. ends = Found(first)
      BY DEF Found
    <3>5. last = EndFrom(first) - 1
      <4>1. (n + 1) - 1 = n
        BY <1>1
      <4> HIDE DEF ends
      <4> QED
        BY <3>4, <4>1 DEF EndFrom
    <3>6. Payload = Fields[m]
      BY <1>16, <3>1, Zenon DEF m
    <3>7. Fields[m] = SubSeq(source, begins[m], EndFrom(begins[m]) - 1)
      BY <1>2, <3>1
    <3> HIDE DEF last, first
    <3> QED
      BY <3>2, <3>3, <3>5, <3>6, <3>7, Zenon
  <2> QED
    BY <2>1, <2>2
<1> HIDE DEF last, ends, first
<1> QED
  BY <1>18 DEF PayloadIsLead, last, ends, first, B

\* What httpserver_handle_put and httpserver_find_payload take for the payload is what lies
\* behind the first blank line, up to the next CRLF, in a request of any bytes and any
\* length: what FileTransfer calls Lead.
THEOREM PayloadsAreLeads == Spec => []PayloadIsLead
  BY SplitInvariant, PayloadFollowsBlankLine, PTL
(***************************************************************************)
(* Url                                                                     *)
(***************************************************************************)

UrlChars == {"x", "1", ":", "/", "?", "#", "@"}

\* Where a scan stops: at the first place of those it looks for, or behind the end.
LEMMA ReachIs ==
  ASSUME NEW s \in Seq(UrlChars), NEW stop \in SUBSET UrlChars,
         NEW p \in 1..Len(s) + 1, NEW q \in p..Len(s) + 1,
         q = Len(s) + 1 \/ s[q] \in stop, \A r \in p..q - 1 : s[r] \notin stop
  PROVE  Reach(s, p, stop) = q
<1> DEFINE Stops(x) == /\ CharAt(s, x) \in stop \cup {"zero"}
                       /\ \A r \in p..x - 1 : s[r] \notin stop
<1>0. Len(s) \in Nat /\ \A r \in 1..Len(s) : s[r] \in UrlChars /\ s[r] # "zero"
  BY DEF UrlChars
<1>1. Stops(q)
  BY <1>0 DEF CharAt
<1>2. ASSUME NEW x \in p..Len(s) + 1, Stops(x)
      PROVE  x = q
  <2>1. CASE x < q
    <3>1. x \in 1..Len(s) /\ x \in p..q - 1
      BY <1>0, <2>1
    <3>2. s[x] \in stop
      BY <1>0, <1>2, <3>1 DEF CharAt
    <3> QED
      BY <3>1, <3>2
  <2>2. CASE q < x
    <3>1. q \in p..x - 1 /\ q # Len(s) + 1
      BY <1>0, <2>2
    <3> QED
      BY <1>2, <3>1
  <2> QED
    BY <1>0, <2>1, <2>2
<1> QED
  BY <1>1, <1>2, Zenon DEF Reach

\* A part of a string is told by its bytes.
LEMMA PartIs ==
  ASSUME NEW s \in Seq(UrlChars), NEW w \in Seq(UrlChars), NEW p \in 1..Len(s) + 1, NEW g \in Int,
         g = p + Len(w) - 1, g <= Len(s), \A i \in 1..Len(w) : s[p + i - 1] = w[i]
  PROVE  SubSeq(s, p, g) = w
<1>1. Len(s) \in Nat /\ Len(w) \in Nat /\ g - p + 1 = Len(w)
  OBVIOUS
<1>2. \A i \in p..g : s[i] \in UrlChars
  BY <1>1
<1>3. /\ SubSeq(s, p, g) \in Seq(UrlChars)
      /\ Len(SubSeq(s, p, g)) = IF p <= g THEN g - p + 1 ELSE 0
      /\ \A i \in 1..g - p + 1 : SubSeq(s, p, g)[i] = s[p + i - 1]
  BY <1>2, SubSeqProperties
<1>4. Len(SubSeq(s, p, g)) = Len(w)
  BY <1>1, <1>3
<1>5. \A i \in 1..Len(w) : SubSeq(s, p, g)[i] = w[i]
  BY <1>1, <1>3
<1> QED
  BY <1>3, <1>4, <1>5, SeqEqual

\* The bytes of two strings put behind each other.
LEMMA TwoJoined ==
  ASSUME NEW s \in Seq(UrlChars), NEW t \in Seq(UrlChars)
  PROVE  /\ s \o t \in Seq(UrlChars) /\ Len(s) \in Nat /\ Len(t) \in Nat
         /\ Len(s \o t) = Len(s) + Len(t)
         /\ \A i \in 1..Len(s) : (s \o t)[i] = s[i]
         /\ \A i \in 1..Len(t) : (s \o t)[Len(s) + i] = t[i]
  OBVIOUS

\* What Composed puts behind each other, and where each of it begins.
UserPart == Optional(<<>>, parts.user, <<"@">>)
PortPart == Optional(<<":">>, parts.port, <<>>)
QueryPart == Optional(<<"?">>, parts.query, <<>>)
FragmentPart == Optional(<<"#">>, parts.fragment, <<>>)

HostAt == 5 + Len(UserPart)
PortAt == HostAt + Len(parts.host)
PathAt == PortAt + Len(PortPart)
QueryAt == PathAt + Len(parts.path)
FragmentAt == QueryAt + Len(QueryPart)
End == FragmentAt + Len(FragmentPart)

\* A part that may be missing, with a delimiter in front of it or behind it.
LEMMA MissingPart ==
  ASSUME NEW char
  PROVE  Optional(<<char>>, NoField, <<>>) = <<>> /\ Optional(<<>>, NoField, <<char>>) = <<>>
  BY DEF Optional

LEMMA GivenPart ==
  ASSUME NEW part \in Seq(UrlChars), part # NoField, NEW char \in UrlChars
  PROVE  /\ Optional(<<char>>, part, <<>>) \in Seq(UrlChars)
         /\ Len(Optional(<<char>>, part, <<>>)) = Len(part) + 1
         /\ Optional(<<char>>, part, <<>>)[1] = char
         /\ \A i \in 1..Len(part) : Optional(<<char>>, part, <<>>)[i + 1] = part[i]
         /\ Optional(<<>>, part, <<char>>) \in Seq(UrlChars)
         /\ Len(Optional(<<>>, part, <<char>>)) = Len(part) + 1
         /\ Optional(<<>>, part, <<char>>)[Len(part) + 1] = char
         /\ \A i \in 1..Len(part) : Optional(<<>>, part, <<char>>)[i] = part[i]
<1> DEFINE one == <<char>>
<1>1. Len(part) \in Nat /\ <<>> \o part = part /\ (one \o part) \o <<>> = one \o part
  OBVIOUS
<1>2. /\ Optional(<<char>>, part, <<>>) = one \o part
      /\ Optional(<<>>, part, <<char>>) = part \o one
  BY <1>1, Zenon DEF Optional
<1>3. one \in Seq(UrlChars) /\ Len(one) = 1 /\ one[1] = char
  OBVIOUS
<1> HIDE DEF one
<1>4. /\ one \o part \in Seq(UrlChars) /\ Len(one \o part) = 1 + Len(part)
      /\ \A i \in 1..1 : (one \o part)[i] = one[i]
      /\ \A i \in 1..Len(part) : (one \o part)[1 + i] = part[i]
  <2>1. /\ one \o part \in Seq(UrlChars) /\ Len(one \o part) = Len(one) + Len(part)
        /\ \A i \in 1..Len(one) : (one \o part)[i] = one[i]
        /\ \A i \in 1..Len(part) : (one \o part)[Len(one) + i] = part[i]
    BY <1>3, TwoJoined
  <2> QED
    BY <1>3, <2>1, Zenon
<1>5. /\ part \o one \in Seq(UrlChars) /\ Len(part \o one) = Len(part) + 1
      /\ \A i \in 1..Len(part) : (part \o one)[i] = part[i]
      /\ \A i \in 1..1 : (part \o one)[Len(part) + i] = one[i]
  <2>1. /\ part \o one \in Seq(UrlChars) /\ Len(part \o one) = Len(part) + Len(one)
        /\ \A i \in 1..Len(part) : (part \o one)[i] = part[i]
        /\ \A i \in 1..Len(one) : (part \o one)[Len(part) + i] = one[i]
    BY <1>3, TwoJoined
  <2> QED
    BY <1>3, <2>1, Zenon
<1>6. 1 \in 1..1 /\ 1 + Len(part) = Len(part) + 1 /\ \A i \in 1..Len(part) : 1 + i = i + 1
  BY <1>1
<1>7. (one \o part)[1] = char /\ (part \o one)[Len(part) + 1] = char
  BY <1>3, <1>4, <1>5, <1>6, Zenon
<1>8. \A i \in 1..Len(part) : (one \o part)[i + 1] = part[i]
  BY <1>4, <1>6
<1> QED
  BY <1>2, <1>4, <1>5, <1>6, <1>7, <1>8, Zenon

\* A part of one string that is another, told by the places of the first.
LEMMA PlacesOfPart ==
  ASSUME NEW s, NEW w, NEW p \in Int, NEW n \in Nat, NEW q, q = p + n,
         \A i \in 1..n : s[p - 1 + i] = w[i]
  PROVE  \A i \in p..q - 1 : i - p + 1 \in 1..n /\ s[i] = w[i - p + 1]
<1> TAKE i \in p..q - 1
<1>1. i - p + 1 \in 1..n /\ p - 1 + (i - p + 1) = i
  OBVIOUS
<1>2. s[p - 1 + (i - p + 1)] = w[i - p + 1]
  BY <1>1
<1> QED
  BY <1>1, <1>2

\* The types of the parts.
LEMMA PartTypes ==
  ASSUME parts \in Parts
  PROVE  /\ parts.user \in Seq(UrlChars) \cup {NoField} /\ parts.host \in Seq(UrlChars)
         /\ parts.port \in Seq(UrlChars) \cup {NoField} /\ parts.path \in Seq(UrlChars)
         /\ parts.query \in Seq(UrlChars) \cup {NoField}
         /\ parts.fragment \in Seq(UrlChars) \cup {NoField}
         /\ Len(parts.host) \in Nat \ {0} /\ \A i \in 1..Len(parts.host) : parts.host[i] \in {"x", "1"}
         /\ parts.user # NoField =>
              /\ Len(parts.user) \in Nat \ {0} /\ \A i \in 1..Len(parts.user) : parts.user[i] \in {"x", "1"}
         /\ parts.port # NoField =>
              /\ Len(parts.port) \in Nat \ {0} /\ \A i \in 1..Len(parts.port) : parts.port[i] \in {"x", "1"}
         /\ \A i \in 1..Len(parts.path) : parts.path[i] \in {"x", "1", "/", ":", "@"}
         /\ parts.path # <<>> => Len(parts.path) # 0 /\ parts.path[1] = "/"
         /\ parts.query # NoField =>
              \A i \in 1..Len(parts.query) : parts.query[i] \in {"x", "1", "/", "?", ":", "@"}
         /\ parts.fragment # NoField =>
              \A i \in 1..Len(parts.fragment) : parts.fragment[i] \in {"x", "1", "/", "?", ":", "@"}
<1>1. ASSUME NEW w \in Words
      PROVE  w \in Seq(UrlChars) /\ Len(w) \in Nat \ {0} /\ \A i \in 1..Len(w) : w[i] \in {"x", "1"}
  <2>1. w \in Seq({"x", "1"}) /\ w # <<>>
    BY <1>1, UrlAssumption
  <2> QED
    BY <2>1, SeqMonotonic DEF UrlChars
<1>2. ASSUME NEW p \in Paths \cup {<<>>}
      PROVE  /\ p \in Seq(UrlChars) /\ \A i \in 1..Len(p) : p[i] \in {"x", "1", "/", ":", "@"}
             /\ p # <<>> => Len(p) # 0 /\ p[1] = "/"
  <2>1. CASE p \in Paths
    <3>1. p \in Seq({"x", "1", "/", ":", "@"}) /\ p # <<>> /\ p[1] = "/"
      BY <2>1, UrlAssumption
    <3> QED
      BY <3>1, SeqMonotonic DEF UrlChars
  <2>2. CASE p = <<>>
    BY <2>2
  <2> QED
    BY <2>1, <2>2
<1>3. ASSUME NEW t \in Tails
      PROVE  /\ t \in Seq(UrlChars) /\ \A i \in 1..Len(t) : t[i] \in {"x", "1", "/", "?", ":", "@"}
  <2>1. t \in Seq({"x", "1", "/", "?", ":", "@"})
    BY <1>3, UrlAssumption
  <2> QED
    BY <2>1, SeqMonotonic DEF UrlChars
<1>4. /\ parts.user \in Words \cup {NoField} /\ parts.host \in Words
      /\ parts.port \in Words \cup {NoField} /\ parts.path \in Paths \cup {<<>>}
      /\ parts.query \in Tails \cup {NoField} /\ parts.fragment \in Tails \cup {NoField}
  BY DEF Parts
<1> QED
  BY <1>1, <1>2, <1>3, <1>4, Zenon

\* Where the parts are in what is put together from them, and which bytes they hold.
UserPlaces ==
  /\ HostAt \in Nat /\ HostAt >= 5
  /\ parts.user = NoField => HostAt = 5
  /\ parts.user # NoField => HostAt > 6 /\ Composed[HostAt - 1] = "@"
  /\ \A i \in 5..HostAt - 2 : Composed[i] \in {"x", "1"}
HostPlaces ==
  /\ PortAt \in Nat /\ HostAt < PortAt
  /\ \A i \in HostAt..PortAt - 1 : Composed[i] \in {"x", "1"}
PortPlaces ==
  /\ PathAt \in Nat /\ PortAt <= PathAt
  /\ parts.port = NoField => PathAt = PortAt
  /\ parts.port # NoField => PathAt > PortAt + 1 /\ Composed[PortAt] = ":"
  /\ \A i \in PortAt + 1..PathAt - 1 : Composed[i] \in {"x", "1"}
PathPlaces ==
  /\ QueryAt \in Nat /\ PathAt <= QueryAt
  /\ parts.path = <<>> => QueryAt = PathAt
  /\ parts.path # <<>> => QueryAt > PathAt /\ Composed[PathAt] = "/"
  /\ \A i \in PathAt..QueryAt - 1 : Composed[i] \notin {"?", "#"}
  /\ \A char : ~Behind(char) => \A i \in PathAt..QueryAt - 1 : Composed[i] # char
QueryPlaces ==
  /\ FragmentAt \in Nat /\ QueryAt <= FragmentAt
  /\ parts.query = NoField => FragmentAt = QueryAt
  /\ parts.query # NoField => FragmentAt > QueryAt /\ Composed[QueryAt] = "?"
  /\ \A i \in QueryAt..FragmentAt - 1 : Composed[i] # "#"
  /\ \A char : ~Behind(char) => \A i \in QueryAt + 1..FragmentAt - 1 : Composed[i] # char
FragmentPlaces ==
  /\ End \in Nat /\ FragmentAt <= End
  /\ parts.fragment = NoField => End = FragmentAt
  /\ parts.fragment # NoField => End > FragmentAt /\ Composed[FragmentAt] = "#"
  /\ \A char : ~Behind(char) => \A i \in FragmentAt + 1..End - 1 : Composed[i] # char

LEMMA ComposedBytes ==
  ASSUME parts \in Parts
  PROVE  /\ Composed \in Seq(UrlChars) /\ Len(Composed) = End - 1
         /\ UserPart \in Seq(UrlChars) /\ PortPart \in Seq(UrlChars)
         /\ QueryPart \in Seq(UrlChars) /\ FragmentPart \in Seq(UrlChars)
         /\ Len(UserPart) \in Nat /\ Len(PortPart) \in Nat /\ Len(QueryPart) \in Nat
         /\ Len(FragmentPart) \in Nat /\ Len(parts.path) \in Nat /\ Len(parts.host) \in Nat \ {0}
         /\ HostAt \in Nat /\ PortAt \in Nat /\ PathAt \in Nat /\ QueryAt \in Nat
         /\ FragmentAt \in Nat /\ End \in Nat
         /\ Composed[1] = "x" /\ Composed[2] = ":" /\ Composed[3] = "/" /\ Composed[4] = "/"
         /\ Authority \in Seq(UrlChars) /\ Len(Authority) = PathAt - 5
         /\ \A i \in 1..Len(Authority) : Composed[4 + i] = Authority[i]
         /\ Absolute \in Seq(UrlChars) /\ Len(Absolute) = FragmentAt - 1
         /\ \A i \in 1..Len(Absolute) : Composed[i] = Absolute[i]
         /\ \A i \in 1..Len(UserPart) : Composed[4 + i] = UserPart[i]
         /\ \A i \in 1..Len(parts.host) : Composed[HostAt - 1 + i] = parts.host[i]
         /\ \A i \in 1..Len(PortPart) : Composed[PortAt - 1 + i] = PortPart[i]
         /\ \A i \in 1..Len(parts.path) : Composed[PathAt - 1 + i] = parts.path[i]
         /\ \A i \in 1..Len(QueryPart) : Composed[QueryAt - 1 + i] = QueryPart[i]
         /\ \A i \in 1..Len(FragmentPart) : Composed[FragmentAt - 1 + i] = FragmentPart[i]
<1> DEFINE a == <<"x", ":", "/", "/">>
           b == UserPart
           c == parts.host
           d == PortPart
           e == parts.path
           f == QueryPart
           g == FragmentPart
           s == Composed
<1>1. /\ a \in Seq(UrlChars) /\ Len(a) = 4 /\ a[1] = "x" /\ a[2] = ":" /\ a[3] = "/" /\ a[4] = "/"
  BY DEF UrlChars
<1>2. /\ b \in Seq(UrlChars) /\ c \in Seq(UrlChars) /\ d \in Seq(UrlChars) /\ e \in Seq(UrlChars)
      /\ f \in Seq(UrlChars) /\ g \in Seq(UrlChars)
  <2>1. "@" \in UrlChars /\ ":" \in UrlChars /\ "?" \in UrlChars /\ "#" \in UrlChars
    BY DEF UrlChars
  <2>2. ASSUME NEW part \in Seq(UrlChars) \cup {NoField}, NEW char \in UrlChars
        PROVE  /\ Optional(<<char>>, part, <<>>) \in Seq(UrlChars)
               /\ Optional(<<>>, part, <<char>>) \in Seq(UrlChars)
    <3>1. CASE part = NoField
      <4>1. <<>> \in Seq(UrlChars)
        OBVIOUS
      <4> QED
        BY <3>1, <4>1, MissingPart, Zenon
    <3>2. CASE part # NoField
      BY <3>2, GivenPart
    <3> QED
      BY <3>1, <3>2
  <2> QED
    BY <2>1, <2>2, PartTypes, Zenon DEF UserPart, PortPart, QueryPart, FragmentPart
<1>3. /\ Len(b) \in Nat /\ Len(c) \in Nat \ {0} /\ Len(d) \in Nat
      /\ Len(e) \in Nat /\ Len(f) \in Nat /\ Len(g) \in Nat
  BY <1>2, LenProperties, PartTypes, Zenon
<1>4. s = ((a \o ((b \o c) \o d)) \o e \o f) \o g
  BY Zenon DEF Composed, Absolute, Authority, UserPart, PortPart, QueryPart, FragmentPart
<1> HIDE DEF a, b, c, d, e, f, g, s
<1>5. /\ s \in Seq(UrlChars)
      /\ Len(s) = Len(a) + Len(b) + Len(c) + Len(d) + Len(e) + Len(f) + Len(g)
      /\ \A i \in 1..Len(a) : s[i] = a[i]
      /\ \A i \in 1..Len(b) : s[Len(a) + i] = b[i]
      /\ \A i \in 1..Len(c) : s[Len(a) + Len(b) + i] = c[i]
      /\ \A i \in 1..Len(d) : s[Len(a) + Len(b) + Len(c) + i] = d[i]
      /\ \A i \in 1..Len(e) : s[Len(a) + Len(b) + Len(c) + Len(d) + i] = e[i]
      /\ \A i \in 1..Len(f) : s[Len(a) + Len(b) + Len(c) + Len(d) + Len(e) + i] = f[i]
      /\ \A i \in 1..Len(g) : s[Len(a) + Len(b) + Len(c) + Len(d) + Len(e) + Len(f) + i] = g[i]
      /\ (b \o c) \o d \in Seq(UrlChars) /\ Len((b \o c) \o d) = Len(b) + Len(c) + Len(d)
      /\ \A i \in 1..Len((b \o c) \o d) : s[Len(a) + i] = ((b \o c) \o d)[i]
      /\ (a \o ((b \o c) \o d)) \o e \o f \in Seq(UrlChars)
      /\ Len((a \o ((b \o c) \o d)) \o e \o f) = Len(a) + Len(b) + Len(c) + Len(d) + Len(e) + Len(f)
      /\ \A i \in 1..Len((a \o ((b \o c) \o d)) \o e \o f) :
           s[i] = ((a \o ((b \o c) \o d)) \o e \o f)[i]
  <2> DEFINE bc == b \o c
             t  == bc \o d
             ad == a \o t
             ae == ad \o e
             af == ae \o f
  <2>1. s = af \o g
    BY <1>4
  <2>2. /\ bc \in Seq(UrlChars) /\ Len(b) \in Nat /\ Len(c) \in Nat
        /\ Len(bc) = Len(b) + Len(c)
        /\ \A i \in 1..Len(b) : bc[i] = b[i]
        /\ \A i \in 1..Len(c) : bc[Len(b) + i] = c[i]
    BY <1>2, TwoJoined, Zenon
  <2> HIDE DEF bc
  <2>3. /\ t \in Seq(UrlChars) /\ Len(d) \in Nat /\ Len(t) = Len(bc) + Len(d)
        /\ \A i \in 1..Len(bc) : t[i] = bc[i]
        /\ \A i \in 1..Len(d) : t[Len(bc) + i] = d[i]
    BY <1>2, <2>2, TwoJoined, Zenon
  <2> HIDE DEF t
  <2>4. /\ ad \in Seq(UrlChars) /\ Len(a) \in Nat /\ Len(ad) = Len(a) + Len(t)
        /\ \A i \in 1..Len(a) : ad[i] = a[i]
        /\ \A i \in 1..Len(t) : ad[Len(a) + i] = t[i]
    BY <1>1, <1>2, <2>3, TwoJoined, Zenon
  <2> HIDE DEF ad
  <2>5. /\ ae \in Seq(UrlChars) /\ Len(e) \in Nat /\ Len(ae) = Len(ad) + Len(e)
        /\ \A i \in 1..Len(ad) : ae[i] = ad[i]
        /\ \A i \in 1..Len(e) : ae[Len(ad) + i] = e[i]
    BY <1>2, <2>4, TwoJoined, Zenon
  <2> HIDE DEF ae
  <2>6. /\ af \in Seq(UrlChars) /\ Len(f) \in Nat /\ Len(af) = Len(ae) + Len(f)
        /\ \A i \in 1..Len(ae) : af[i] = ae[i]
        /\ \A i \in 1..Len(f) : af[Len(ae) + i] = f[i]
    BY <1>2, <2>5, TwoJoined, Zenon
  <2> HIDE DEF af
  <2>7. /\ s \in Seq(UrlChars) /\ Len(g) \in Nat /\ Len(s) = Len(af) + Len(g)
        /\ \A i \in 1..Len(af) : s[i] = af[i]
        /\ \A i \in 1..Len(g) : s[Len(af) + i] = g[i]
    <3>1. /\ af \o g \in Seq(UrlChars) /\ Len(g) \in Nat /\ Len(af \o g) = Len(af) + Len(g)
          /\ \A i \in 1..Len(af) : (af \o g)[i] = af[i]
          /\ \A i \in 1..Len(g) : (af \o g)[Len(af) + i] = g[i]
      BY <1>2, <2>6, TwoJoined, Zenon
    <3> QED
      BY <2>1, <3>1, Zenon
  <2>sizes. /\ Len(a) \in Nat /\ Len(b) \in Nat /\ Len(c) \in Nat /\ Len(d) \in Nat
            /\ Len(e) \in Nat /\ Len(f) \in Nat /\ Len(g) \in Nat
            /\ Len(bc) = Len(b) + Len(c) /\ Len(t) = Len(bc) + Len(d)
            /\ Len(ad) = Len(a) + Len(t) /\ Len(ae) = Len(ad) + Len(e)
            /\ Len(af) = Len(ae) + Len(f) /\ Len(s) = Len(af) + Len(g)
    BY <2>2, <2>3, <2>4, <2>5, <2>6, <2>7, Zenon
  <2>8. ASSUME NEW i \in 1..Len(ad)
        PROVE  s[i] = ad[i]
    <3>1. i \in 1..Len(ae) /\ i \in 1..Len(af)
      BY <2>sizes
    <3> QED
      BY <2>5, <2>6, <2>7, <3>1
  <2>9. Len(s) = Len(a) + Len(b) + Len(c) + Len(d) + Len(e) + Len(f) + Len(g)
    BY <2>sizes
  <2>10. \A i \in 1..Len(a) : s[i] = a[i]
    <3>1. \A i \in 1..Len(a) : i \in 1..Len(ad)
      BY <2>sizes
    <3> QED
      BY <2>4, <2>8, <3>1, Zenon
  <2>11. ASSUME NEW i \in 1..Len(t)
         PROVE  s[Len(a) + i] = t[i]
    <3>1. Len(a) + i \in 1..Len(ad)
      BY <2>sizes
    <3> QED
      BY <2>4, <2>8, <3>1
  <2>12. \A i \in 1..Len(b) : s[Len(a) + i] = b[i]
    BY <2>2, <2>3, <2>11
  <2>13. ASSUME NEW i \in 1..Len(c)
         PROVE  s[Len(a) + Len(b) + i] = c[i]
    <3>1. Len(b) + i \in 1..Len(bc) /\ Len(b) + i \in 1..Len(t)
      BY <2>sizes
    <3>2. Len(a) + (Len(b) + i) = Len(a) + Len(b) + i
      BY <2>sizes
    <3> QED
      BY <2>2, <2>3, <2>11, <3>1, <3>2
  <2>14. ASSUME NEW i \in 1..Len(d)
         PROVE  s[Len(a) + Len(b) + Len(c) + i] = d[i]
    <3>1. Len(bc) + i \in 1..Len(t)
      BY <2>sizes
    <3>2. Len(a) + (Len(bc) + i) = Len(a) + Len(b) + Len(c) + i
      BY <2>sizes
    <3> QED
      BY <2>3, <2>11, <3>1, <3>2
  <2>15. ASSUME NEW i \in 1..Len(e)
         PROVE  s[Len(a) + Len(b) + Len(c) + Len(d) + i] = e[i]
    <3>1. Len(ad) + i \in 1..Len(ae) /\ Len(ad) + i \in 1..Len(af)
      BY <2>sizes
    <3>2. Len(ad) + i = Len(a) + Len(b) + Len(c) + Len(d) + i
      BY <2>sizes
    <3>3. s[Len(ad) + i] = af[Len(ad) + i] /\ af[Len(ad) + i] = ae[Len(ad) + i]
      BY <2>6, <2>7, <3>1, Zenon
    <3> QED
      BY <2>5, <3>2, <3>3, Zenon
  <2>16. ASSUME NEW i \in 1..Len(f)
         PROVE  s[Len(a) + Len(b) + Len(c) + Len(d) + Len(e) + i] = f[i]
    <3>1. Len(ae) + i \in 1..Len(af)
      BY <2>sizes
    <3>2. Len(ae) + i = Len(a) + Len(b) + Len(c) + Len(d) + Len(e) + i
      BY <2>sizes
    <3> QED
      BY <2>6, <2>7, <3>1, <3>2
  <2>17. ASSUME NEW i \in 1..Len(g)
         PROVE  s[Len(a) + Len(b) + Len(c) + Len(d) + Len(e) + Len(f) + i] = g[i]
    <3>1. Len(af) + i = Len(a) + Len(b) + Len(c) + Len(d) + Len(e) + Len(f) + i
      BY <2>sizes
    <3> QED
      BY <2>7, <3>1
  <2>18. /\ Len(t) = Len(b) + Len(c) + Len(d)
         /\ Len(af) = Len(a) + Len(b) + Len(c) + Len(d) + Len(e) + Len(f)
    BY <2>sizes
  <2>19. /\ (b \o c) \o d = t /\ (a \o ((b \o c) \o d)) \o e \o f = af
    BY Zenon DEF bc, t, ad, ae, af
  <2> QED
    BY <2>3, <2>6, <2>7, <2>9, <2>10, <2>11, <2>12, <2>13, <2>14, <2>15, <2>16, <2>17, <2>18,
       <2>19, Zenon
<1>6. /\ HostAt = 5 + Len(b) /\ PortAt = HostAt + Len(c) /\ PathAt = PortAt + Len(d)
      /\ QueryAt = PathAt + Len(e) /\ FragmentAt = QueryAt + Len(f) /\ End = FragmentAt + Len(g)
  BY Zenon DEF HostAt, PortAt, PathAt, QueryAt, FragmentAt, End, b, c, d, e, f, g
<1>7. /\ HostAt \in Nat /\ PortAt \in Nat /\ PathAt \in Nat /\ QueryAt \in Nat
      /\ FragmentAt \in Nat /\ End \in Nat
  <2>1. HostAt \in Nat /\ PortAt \in Nat /\ PathAt \in Nat
    BY <1>3, <1>6, SMTT(30)
  <2>2. QueryAt \in Nat /\ FragmentAt \in Nat /\ End \in Nat
    BY <1>3, <1>6, <2>1, SMTT(30)
  <2> QED
    BY <2>1, <2>2
<1>8. s[1] = "x" /\ s[2] = ":" /\ s[3] = "/" /\ s[4] = "/"
  <2>1. 1 \in 1..4 /\ 2 \in 1..4 /\ 3 \in 1..4 /\ 4 \in 1..4
    OBVIOUS
  <2>2. \A i \in 1..4 : s[i] = a[i]
    BY <1>1, <1>5, Zenon
  <2> QED
    BY <1>1, <2>1, <2>2, Zenon
<1>9. /\ Len(s) = End - 1
      /\ \A i \in 1..Len(b) : s[4 + i] = b[i]
      /\ \A i \in 1..Len(c) : s[HostAt - 1 + i] = c[i]
      /\ \A i \in 1..Len(d) : s[PortAt - 1 + i] = d[i]
      /\ \A i \in 1..Len(e) : s[PathAt - 1 + i] = e[i]
      /\ \A i \in 1..Len(f) : s[QueryAt - 1 + i] = f[i]
      /\ \A i \in 1..Len(g) : s[FragmentAt - 1 + i] = g[i]
  <2>1. /\ Len(a) = 4
        /\ Len(a) + Len(b) = HostAt - 1
        /\ Len(a) + Len(b) + Len(c) = PortAt - 1
        /\ Len(a) + Len(b) + Len(c) + Len(d) = PathAt - 1
        /\ Len(a) + Len(b) + Len(c) + Len(d) + Len(e) = QueryAt - 1
        /\ Len(a) + Len(b) + Len(c) + Len(d) + Len(e) + Len(f) = FragmentAt - 1
        /\ Len(a) + Len(b) + Len(c) + Len(d) + Len(e) + Len(f) + Len(g) = End - 1
    BY <1>1, <1>3, <1>6
  <2>2. Len(s) = End - 1 /\ \A i \in 1..Len(b) : s[4 + i] = b[i]
    BY <1>5, <2>1, ZenonT(30)
  <2>3. /\ \A i \in 1..Len(c) : s[HostAt - 1 + i] = c[i]
        /\ \A i \in 1..Len(d) : s[PortAt - 1 + i] = d[i]
    BY <1>5, <2>1, ZenonT(30)
  <2>4. /\ \A i \in 1..Len(e) : s[PathAt - 1 + i] = e[i]
        /\ \A i \in 1..Len(f) : s[QueryAt - 1 + i] = f[i]
    BY <1>5, <2>1, Zenon
  <2>5. \A i \in 1..Len(g) : s[FragmentAt - 1 + i] = g[i]
    BY <1>5, <2>1, Zenon
  <2> QED
    BY <2>2, <2>3, <2>4, <2>5
<1>10. Authority = (b \o c) \o d /\ Absolute = (a \o ((b \o c) \o d)) \o e \o f
  BY Zenon DEF Absolute, Authority, UserPart, PortPart, QueryPart, a, b, c, d, e, f
<1>11. /\ Authority \in Seq(UrlChars) /\ Len(Authority) = PathAt - 5
       /\ \A i \in 1..Len(Authority) : s[4 + i] = Authority[i]
       /\ Absolute \in Seq(UrlChars) /\ Len(Absolute) = FragmentAt - 1
       /\ \A i \in 1..Len(Absolute) : s[i] = Absolute[i]
  <2>1. /\ Len(a) = 4 /\ Len(b) + Len(c) + Len(d) = PathAt - 5
        /\ Len(a) + Len(b) + Len(c) + Len(d) + Len(e) + Len(f) = FragmentAt - 1
    BY <1>1, <1>3, <1>6
  <2> QED
    BY <1>5, <1>10, <2>1, Zenon
<1> QED
  BY <1>2, <1>3, <1>5, <1>7, <1>8, <1>9, <1>11, Zenon DEF b, c, d, e, f, g, s

LEMMA UserIsPlaced == parts \in Parts => UserPlaces
<1> SUFFICES ASSUME parts \in Parts PROVE UserPlaces
  OBVIOUS
<1> DEFINE s == Composed
           w == parts.user
<1>0. "@" \in UrlChars
  BY DEF UrlChars
<1>1. /\ HostAt \in Nat /\ HostAt = 5 + Len(UserPart)
      /\ \A i \in 1..Len(UserPart) : s[4 + i] = UserPart[i]
  BY ComposedBytes DEF HostAt
<1>2. CASE w = NoField
  <2>1. Len(UserPart) = 0
    BY <1>2, MissingPart, EmptySeq DEF UserPart
  <2> HIDE DEF s, w
  <2>2. HostAt = 5 /\ \A i \in 5..HostAt - 2 : FALSE
    BY <1>1, <2>1
  <2> QED
    BY <1>1, <1>2, <2>2 DEF UserPlaces, w, s
<1>3. CASE w # NoField
  <2>1. w \in Seq(UrlChars) /\ Len(w) \in Nat \ {0} /\ \A i \in 1..Len(w) : w[i] \in {"x", "1"}
    BY <1>3, PartTypes
  <2>2. /\ Len(UserPart) = Len(w) + 1 /\ UserPart[Len(w) + 1] = "@"
        /\ \A i \in 1..Len(w) : UserPart[i] = w[i]
    BY <1>0, <1>3, <2>1, GivenPart, Zenon DEF UserPart
  <2> HIDE DEF s, w
  <2>3. HostAt > 6 /\ 4 + (Len(w) + 1) = HostAt - 1 /\ Len(w) + 1 \in 1..Len(UserPart)
    BY <1>1, <2>1, <2>2
  <2>4. s[HostAt - 1] = "@"
    BY <1>1, <2>2, <2>3
  <2>5. ASSUME NEW i \in 5..HostAt - 2 PROVE s[i] \in {"x", "1"}
    <3>1. i - 4 \in 1..Len(w) /\ i - 4 \in 1..Len(UserPart) /\ 4 + (i - 4) = i
      BY <1>1, <2>1, <2>2
    <3>2. w[i - 4] \in {"x", "1"} /\ UserPart[i - 4] = w[i - 4] /\ s[4 + (i - 4)] = UserPart[i - 4]
      BY <1>1, <2>1, <2>2, <3>1, Zenon
    <3> QED
      BY <3>1, <3>2, Zenon
  <2>6. HostAt \in Nat /\ HostAt >= 5
    BY <1>1, <2>3
  <2> QED
    BY <1>3, <2>3, <2>4, <2>5, <2>6, Zenon DEF UserPlaces, w, s
<1> QED
  BY <1>2, <1>3

LEMMA HostIsPlaced == parts \in Parts => HostPlaces
<1> SUFFICES ASSUME parts \in Parts PROVE HostPlaces
  OBVIOUS
<1> DEFINE s == Composed
           w == parts.host
<1>1. /\ HostAt \in Nat /\ PortAt \in Nat /\ PortAt = HostAt + Len(w) /\ Len(w) \in Nat \ {0}
      /\ \A i \in 1..Len(w) : s[HostAt - 1 + i] = w[i]
  BY ComposedBytes DEF PortAt
<1>2. \A i \in 1..Len(w) : w[i] \in {"x", "1"}
  BY PartTypes
<1> HIDE DEF s, w
<1>3. HostAt < PortAt
  BY <1>1
<1>4. \A i \in HostAt..PortAt - 1 : s[i] \in {"x", "1"}
  <2>1. \A i \in HostAt..PortAt - 1 : i - HostAt + 1 \in 1..Len(w) /\ s[i] = w[i - HostAt + 1]
    BY <1>1, PlacesOfPart
  <2> QED
    BY <1>2, <2>1, Zenon
<1> QED
  BY <1>1, <1>3, <1>4 DEF HostPlaces, s

LEMMA PortIsPlaced == parts \in Parts => PortPlaces
<1> SUFFICES ASSUME parts \in Parts PROVE PortPlaces
  OBVIOUS
<1> DEFINE s == Composed
           w == parts.port
<1>0. ":" \in UrlChars
  BY DEF UrlChars
<1>1. /\ PortAt \in Nat /\ PathAt \in Nat /\ PathAt = PortAt + Len(PortPart)
      /\ \A i \in 1..Len(PortPart) : s[PortAt - 1 + i] = PortPart[i]
  BY ComposedBytes DEF PathAt
<1>2. CASE w = NoField
  <2>1. Len(PortPart) = 0
    BY <1>2, MissingPart, EmptySeq DEF PortPart
  <2> HIDE DEF s, w
  <2>2. PathAt = PortAt /\ \A i \in PortAt + 1..PathAt - 1 : FALSE
    BY <1>1, <2>1
  <2> QED
    BY <1>1, <1>2, <2>2 DEF PortPlaces, w, s
<1>3. CASE w # NoField
  <2>1. w \in Seq(UrlChars) /\ Len(w) \in Nat \ {0} /\ \A i \in 1..Len(w) : w[i] \in {"x", "1"}
    BY <1>3, PartTypes
  <2>2. /\ Len(PortPart) = Len(w) + 1 /\ PortPart[1] = ":"
        /\ \A i \in 1..Len(w) : PortPart[i + 1] = w[i]
    BY <1>0, <1>3, <2>1, GivenPart, Zenon DEF PortPart
  <2> HIDE DEF s, w
  <2>3. PathAt > PortAt + 1 /\ (PortAt - 1) + 1 = PortAt /\ 1 \in 1..Len(PortPart)
    BY <1>1, <2>1, <2>2
  <2>4. s[PortAt] = ":"
    BY <1>1, <2>2, <2>3, Zenon
  <2>5. ASSUME NEW i \in PortAt + 1..PathAt - 1 PROVE s[i] \in {"x", "1"}
    <3>1. /\ i - PortAt \in 1..Len(w) /\ (i - PortAt) + 1 \in 1..Len(PortPart)
          /\ (PortAt - 1) + ((i - PortAt) + 1) = i
      BY <1>1, <2>1, <2>2
    <3>2. s[(PortAt - 1) + ((i - PortAt) + 1)] = PortPart[(i - PortAt) + 1]
      BY <1>1, <3>1
    <3>3. PortPart[(i - PortAt) + 1] \in {"x", "1"}
      BY <2>1, <2>2, <3>1
    <3> QED
      BY <3>1, <3>2, <3>3, Zenon
  <2> QED
    BY <1>1, <1>3, <2>3, <2>4, <2>5 DEF PortPlaces, w, s
<1> QED
  BY <1>2, <1>3

LEMMA PathIsPlaced == parts \in Parts => PathPlaces
<1> SUFFICES ASSUME parts \in Parts PROVE PathPlaces
  OBVIOUS
<1> DEFINE s == Composed
           w == parts.path
<1>1. /\ PathAt \in Nat /\ QueryAt \in Nat /\ QueryAt = PathAt + Len(w) /\ Len(w) \in Nat
      /\ \A i \in 1..Len(w) : s[PathAt - 1 + i] = w[i]
  BY ComposedBytes DEF QueryAt
<1>2. /\ w \in Seq(UrlChars) /\ \A i \in 1..Len(w) : w[i] \notin {"?", "#"}
      /\ w = <<>> => Len(w) = 0
      /\ w # <<>> => Len(w) # 0 /\ w[1] = "/"
  BY PartTypes
<1>3. ASSUME NEW char, ~Behind(char) PROVE \A i \in 1..Len(w) : w[i] # char
  BY <1>2, <1>3 DEF Behind, Has
<1> HIDE DEF s, w
<1>4. \A i \in PathAt..QueryAt - 1 : i - PathAt + 1 \in 1..Len(w) /\ s[i] = w[i - PathAt + 1]
  BY <1>1, PlacesOfPart
<1>5. PathAt <= QueryAt /\ (w = <<>> => QueryAt = PathAt) /\ (w # <<>> => QueryAt > PathAt)
  BY <1>1, <1>2
<1>6. w # <<>> => s[PathAt] = "/"
  <2>1. (PathAt - 1) + 1 = PathAt /\ (Len(w) # 0 => 1 \in 1..Len(w))
    BY <1>1
  <2> QED
    BY <1>1, <1>2, <2>1, Zenon
<1>7. \A i \in PathAt..QueryAt - 1 : s[i] \notin {"?", "#"}
  BY <1>2, <1>4, Zenon
<1>8. ASSUME NEW char, ~Behind(char) PROVE \A i \in PathAt..QueryAt - 1 : s[i] # char
  BY <1>3, <1>4, <1>8, Zenon
<1> QED
  BY <1>1, <1>5, <1>6, <1>7, <1>8, Zenon DEF PathPlaces, s, w

LEMMA QueryIsPlaced == parts \in Parts => QueryPlaces
<1> SUFFICES ASSUME parts \in Parts PROVE QueryPlaces
  OBVIOUS
<1> DEFINE s == Composed
           w == parts.query
<1>0. "?" \in UrlChars
  BY DEF UrlChars
<1>1. /\ QueryAt \in Nat /\ FragmentAt \in Nat /\ FragmentAt = QueryAt + Len(QueryPart)
      /\ \A i \in 1..Len(QueryPart) : s[QueryAt - 1 + i] = QueryPart[i]
  BY ComposedBytes DEF FragmentAt
<1>2. CASE w = NoField
  <2>1. Len(QueryPart) = 0
    BY <1>2, MissingPart, EmptySeq DEF QueryPart
  <2> HIDE DEF s, w
  <2>2. /\ FragmentAt = QueryAt /\ \A i \in QueryAt + 1..FragmentAt - 1 : FALSE
        /\ \A i \in QueryAt..FragmentAt - 1 : FALSE
    BY <1>1, <2>1
  <2> QED
    BY <1>1, <1>2, <2>2 DEF QueryPlaces, w, s
<1>3. CASE w # NoField
  <2>1. w \in Seq(UrlChars) /\ Len(w) \in Nat /\ \A i \in 1..Len(w) : w[i] # "#"
    <3>1. w \in Seq(UrlChars)
      BY <1>3, PartTypes
    <3>2. \A i \in 1..Len(w) : w[i] \in {"x", "1", "/", "?", ":", "@"}
      BY <1>3, PartTypes, Zenon
    <3> HIDE DEF w
    <3> QED
      BY <3>1, <3>2
  <2>2. ASSUME NEW char, ~Behind(char) PROVE \A i \in 1..Len(w) : w[i] # char
    BY <2>1, <2>2 DEF Behind, Has
  <2>3. /\ Len(QueryPart) = Len(w) + 1 /\ QueryPart[1] = "?"
        /\ \A i \in 1..Len(w) : QueryPart[i + 1] = w[i]
    BY <1>0, <1>3, <2>1, GivenPart, Zenon DEF QueryPart
  <2> HIDE DEF s, w
  <2>4. FragmentAt > QueryAt /\ (QueryAt - 1) + 1 = QueryAt /\ 1 \in 1..Len(QueryPart)
    BY <1>1, <2>1, <2>3
  <2>5. s[QueryAt] = "?"
    BY <1>1, <2>3, <2>4, Zenon
  <2>6. ASSUME NEW i \in QueryAt + 1..FragmentAt - 1
        PROVE  i - QueryAt \in 1..Len(w) /\ s[i] = w[i - QueryAt]
    <3>1. /\ i - QueryAt \in 1..Len(w) /\ (i - QueryAt) + 1 \in 1..Len(QueryPart)
          /\ (QueryAt - 1) + ((i - QueryAt) + 1) = i
      BY <1>1, <2>1, <2>3
    <3> QED
      BY <1>1, <2>3, <3>1
  <2>7. ASSUME NEW i \in QueryAt..FragmentAt - 1 PROVE s[i] # "#"
    <3>1. i = QueryAt \/ i \in QueryAt + 1..FragmentAt - 1
      BY <1>1
    <3> QED
      BY <2>1, <2>5, <2>6, <3>1
  <2>8. ASSUME NEW char, ~Behind(char), NEW i \in QueryAt + 1..FragmentAt - 1 PROVE s[i] # char
    BY <2>2, <2>6, <2>8, Zenon
  <2> QED
    BY <1>1, <1>3, <2>4, <2>5, <2>7, <2>8 DEF QueryPlaces, w, s
<1> QED
  BY <1>2, <1>3

LEMMA FragmentIsPlaced == parts \in Parts => FragmentPlaces
<1> SUFFICES ASSUME parts \in Parts PROVE FragmentPlaces
  OBVIOUS
<1> DEFINE s == Composed
           w == parts.fragment
<1>0. "#" \in UrlChars
  BY DEF UrlChars
<1>1. /\ FragmentAt \in Nat /\ End \in Nat /\ End = FragmentAt + Len(FragmentPart)
      /\ \A i \in 1..Len(FragmentPart) : s[FragmentAt - 1 + i] = FragmentPart[i]
  BY ComposedBytes DEF End
<1>2. CASE w = NoField
  <2>1. Len(FragmentPart) = 0
    BY <1>2, MissingPart, EmptySeq DEF FragmentPart
  <2> HIDE DEF s, w
  <2>2. End = FragmentAt /\ \A i \in FragmentAt + 1..End - 1 : FALSE
    BY <1>1, <2>1
  <2> QED
    BY <1>1, <1>2, <2>2 DEF FragmentPlaces, w, s
<1>3. CASE w # NoField
  <2>1. w \in Seq(UrlChars) /\ Len(w) \in Nat
    BY <1>3, PartTypes
  <2>2. ASSUME NEW char, ~Behind(char) PROVE \A i \in 1..Len(w) : w[i] # char
    BY <2>1, <2>2 DEF Behind, Has
  <2>3. /\ Len(FragmentPart) = Len(w) + 1 /\ FragmentPart[1] = "#"
        /\ \A i \in 1..Len(w) : FragmentPart[i + 1] = w[i]
    BY <1>0, <1>3, <2>1, GivenPart, Zenon DEF FragmentPart
  <2> HIDE DEF s, w
  <2>4. End > FragmentAt /\ (FragmentAt - 1) + 1 = FragmentAt /\ 1 \in 1..Len(FragmentPart)
    BY <1>1, <2>1, <2>3
  <2>5. s[FragmentAt] = "#"
    BY <1>1, <2>3, <2>4, Zenon
  <2>6. ASSUME NEW i \in FragmentAt + 1..End - 1
        PROVE  i - FragmentAt \in 1..Len(w) /\ s[i] = w[i - FragmentAt]
    <3>1. /\ i - FragmentAt \in 1..Len(w) /\ (i - FragmentAt) + 1 \in 1..Len(FragmentPart)
          /\ (FragmentAt - 1) + ((i - FragmentAt) + 1) = i
      BY <1>1, <2>1, <2>3
    <3> QED
      BY <1>1, <2>3, <3>1
  <2>7. ASSUME NEW char, ~Behind(char), NEW i \in FragmentAt + 1..End - 1 PROVE s[i] # char
    BY <2>2, <2>6, <2>7, Zenon
  <2> QED
    BY <1>1, <1>3, <2>4, <2>5, <2>7 DEF FragmentPlaces, w, s
<1> QED
  BY <1>2, <1>3

\* A part of a string as the places of its first byte and of the one behind it tell it.
LEMMA SliceIs ==
  ASSUME NEW s \in Seq(UrlChars), NEW w \in Seq(UrlChars), NEW p \in Nat \ {0}, NEW q \in Nat,
         q = p + Len(w), q <= Len(s) + 1, \A i \in 1..Len(w) : s[p - 1 + i] = w[i]
  PROVE  SubSeq(s, p, q - 1) = w
<1>1. Len(s) \in Nat /\ Len(w) \in Nat
  OBVIOUS
<1>2. /\ p \in 1..Len(s) + 1 /\ q - 1 \in Int /\ q - 1 = p + Len(w) - 1 /\ q - 1 <= Len(s)
      /\ \A i \in 1..Len(w) : (p - 1) + i = (p + i) - 1
  BY <1>1
<1>3. \A i \in 1..Len(w) : s[p + i - 1] = w[i]
  <2> TAKE i \in 1..Len(w)
  <2>1. p - 1 + i = p + i - 1
    BY <1>1
  <2> QED
    BY <2>1
<1> DEFINE g == q - 1
<1> HIDE DEF g
<1>4. SubSeq(s, p, g) = w
  BY <1>2, <1>3, PartIs DEF g
<1> QED
  BY <1>4 DEF g

LEMMA PlacesInOrder ==
  ASSUME parts \in Parts
  PROVE  /\ HostAt \in Nat /\ PortAt \in Nat /\ PathAt \in Nat /\ QueryAt \in Nat
         /\ FragmentAt \in Nat /\ End \in Nat
         /\ 5 <= HostAt /\ HostAt < PortAt /\ PortAt <= PathAt /\ PathAt <= QueryAt
         /\ QueryAt <= FragmentAt /\ FragmentAt <= End
         /\ Composed \in Seq(UrlChars) /\ Len(Composed) = End - 1
  BY UserIsPlaced, HostIsPlaced, PortIsPlaced, PathIsPlaced, QueryIsPlaced, FragmentIsPlaced,
     ComposedBytes, Zenon
  DEF UserPlaces, HostPlaces, PortPlaces, PathPlaces, QueryPlaces, FragmentPlaces

\* The parts are what is between those places.
LEMMA PartsAreSlices ==
  ASSUME parts \in Parts
  PROVE  /\ SubSeq(Composed, 1, FragmentAt - 1) = Absolute
         /\ SubSeq(Composed, 5, PathAt - 1) = Authority
         /\ SubSeq(Composed, 3, QueryAt - 1) = <<"/", "/">> \o Authority \o parts.path
         /\ parts.user # NoField => SubSeq(Composed, 5, (HostAt - 1) - 1) = parts.user
         /\ SubSeq(Composed, HostAt, PortAt - 1) = parts.host
         /\ parts.port # NoField => SubSeq(Composed, PortAt + 1, PathAt - 1) = parts.port
         /\ SubSeq(Composed, PathAt, QueryAt - 1) = parts.path
         /\ parts.query # NoField => SubSeq(Composed, QueryAt + 1, FragmentAt - 1) = parts.query
         /\ parts.fragment # NoField => SubSeq(Composed, FragmentAt + 1, End - 1) = parts.fragment
<1> DEFINE s == Composed
<1>0. /\ HostAt \in Nat /\ PortAt \in Nat /\ PathAt \in Nat /\ QueryAt \in Nat
      /\ FragmentAt \in Nat /\ End \in Nat
      /\ 5 <= HostAt /\ HostAt < PortAt /\ PortAt <= PathAt /\ PathAt <= QueryAt
      /\ QueryAt <= FragmentAt /\ FragmentAt <= End
      /\ s \in Seq(UrlChars) /\ Len(s) = End - 1
  BY PlacesInOrder
<1>1. SubSeq(s, 1, FragmentAt - 1) = Absolute
  <2> DEFINE w == Absolute
  <2>1. w \in Seq(UrlChars) /\ Len(w) = FragmentAt - 1 /\ \A i \in 1..Len(w) : s[i] = w[i]
    BY ComposedBytes
  <2> HIDE DEF w, s
  <2>2. FragmentAt = 1 + Len(w) /\ FragmentAt <= Len(s) + 1
    BY <1>0, <2>1
  <2>3. \A i \in 1..Len(w) : s[1 - 1 + i] = w[i]
    BY <1>0, <2>1
  <2>4. SubSeq(s, 1, FragmentAt - 1) = w
    BY <1>0, <2>1, <2>2, <2>3, SliceIs
  <2> QED
    BY <2>4 DEF w
<1>2. SubSeq(s, 5, PathAt - 1) = Authority
  <2> DEFINE w == Authority
  <2>1. w \in Seq(UrlChars) /\ Len(w) = PathAt - 5 /\ \A i \in 1..Len(w) : s[4 + i] = w[i]
    BY ComposedBytes
  <2> HIDE DEF w, s
  <2>2. PathAt = 5 + Len(w) /\ PathAt <= Len(s) + 1
    BY <1>0, <2>1
  <2>3. \A i \in 1..Len(w) : s[5 - 1 + i] = w[i]
    BY <2>1
  <2>4. SubSeq(s, 5, PathAt - 1) = w
    BY <1>0, <2>1, <2>2, <2>3, SliceIs
  <2> QED
    BY <2>4 DEF w
<1>3. SubSeq(s, 3, QueryAt - 1) = <<"/", "/">> \o Authority \o parts.path
  <2> DEFINE a == <<"/", "/">>
             b == Authority
             c == parts.path
             ab == a \o b
             w == ab \o c
  <2>1. a \in Seq(UrlChars) /\ Len(a) = 2 /\ a[1] = "/" /\ a[2] = "/"
    BY DEF UrlChars
  <2>2. b \in Seq(UrlChars) /\ Len(b) = PathAt - 5 /\ \A i \in 1..Len(b) : s[4 + i] = b[i]
    BY ComposedBytes
  <2>3. c \in Seq(UrlChars) /\ Len(c) \in Nat /\ \A i \in 1..Len(c) : s[PathAt - 1 + i] = c[i]
    BY ComposedBytes, PartTypes
  <2>4. QueryAt = PathAt + Len(c)
    BY DEF QueryAt
  <2>5. s[3] = "/" /\ s[4] = "/"
    BY ComposedBytes
  <2> HIDE DEF a, b, c, s
  <2>6. /\ ab \in Seq(UrlChars) /\ Len(ab) = Len(a) + Len(b)
        /\ \A i \in 1..Len(a) : ab[i] = a[i]
        /\ \A i \in 1..Len(b) : ab[Len(a) + i] = b[i]
    BY <2>1, <2>2, TwoJoined
  <2> HIDE DEF ab
  <2>7. /\ w \in Seq(UrlChars) /\ Len(w) = Len(ab) + Len(c)
        /\ \A i \in 1..Len(ab) : w[i] = ab[i]
        /\ \A i \in 1..Len(c) : w[Len(ab) + i] = c[i]
    BY <2>3, <2>6, TwoJoined
  <2> HIDE DEF w
  <2>8. Len(ab) = PathAt - 3 /\ Len(w) = QueryAt - 3
    BY <1>0, <2>1, <2>2, <2>3, <2>4, <2>6, <2>7
  <2>9. ASSUME NEW i \in 1..Len(w) PROVE s[3 - 1 + i] = w[i]
    <3>1. CASE i \in 1..2
      <4>1. i \in 1..Len(a) /\ i \in 1..Len(ab) /\ (i = 1 \/ i = 2)
        BY <1>0, <2>1, <2>8, <3>1
      <4>2. w[i] = a[i]
        BY <2>6, <2>7, <4>1
      <4>3. a[i] = "/" /\ s[3 - 1 + i] = "/"
        BY <2>1, <2>5, <4>1
      <4> QED
        BY <4>2, <4>3
    <3>2. CASE i \in 3..Len(ab)
      <4>1. /\ i - 2 \in 1..Len(b) /\ i \in 1..Len(ab)
            /\ Len(a) + (i - 2) = i /\ 4 + (i - 2) = 3 - 1 + i
        BY <1>0, <2>1, <2>2, <2>6, <3>2
      <4>2. w[i] = ab[i] /\ ab[Len(a) + (i - 2)] = b[i - 2] /\ s[4 + (i - 2)] = b[i - 2]
        BY <2>2, <2>6, <2>7, <4>1
      <4> QED
        BY <4>1, <4>2, Zenon
    <3>3. CASE i \in Len(ab) + 1..Len(w)
      <4> DEFINE j == i - Len(ab)
      <4>1. j \in 1..Len(c) /\ Len(ab) + j = i /\ PathAt - 1 + j = 3 - 1 + i
        BY <1>0, <2>3, <2>4, <2>8, <3>3
      <4> HIDE DEF j
      <4>2. w[Len(ab) + j] = c[j] /\ s[PathAt - 1 + j] = c[j]
        BY <2>3, <2>7, <4>1
      <4> QED
        BY <4>1, <4>2, Zenon
    <3>4. i \in 1..2 \/ i \in 3..Len(ab) \/ i \in Len(ab) + 1..Len(w)
      BY <1>0, <2>8
    <3> QED
      BY <3>1, <3>2, <3>3, <3>4
  <2>10. QueryAt = 3 + Len(w) /\ QueryAt <= Len(s) + 1
    BY <1>0, <2>8
  <2>11. SubSeq(s, 3, QueryAt - 1) = w
    BY <1>0, <2>7, <2>9, <2>10, SliceIs
  <2> QED
    BY <2>11, Zenon DEF a, b, c, ab, w
<1>4. ASSUME parts.user # NoField
      PROVE  SubSeq(s, 5, (HostAt - 1) - 1) = parts.user
  <2> DEFINE w == parts.user
             q == HostAt - 1
  <2>1. w \in Seq(UrlChars)
    BY <1>4, PartTypes
  <2>2. Len(UserPart) = Len(w) + 1 /\ \A i \in 1..Len(w) : UserPart[i] = w[i]
    <3>1. "@" \in UrlChars
      BY DEF UrlChars
    <3> QED
      BY <1>4, <2>1, <3>1, GivenPart, Zenon DEF UserPart
  <2>3. HostAt = 5 + Len(UserPart) /\ \A i \in 1..Len(UserPart) : s[4 + i] = UserPart[i]
    BY ComposedBytes DEF HostAt
  <2> HIDE DEF w, s
  <2>4. q \in Nat /\ q = 5 + Len(w) /\ q <= Len(s) + 1
    BY <1>0, <2>1, <2>2, <2>3
  <2>5. \A i \in 1..Len(w) : s[5 - 1 + i] = w[i]
    <3> TAKE i \in 1..Len(w)
    <3>1. i \in 1..Len(UserPart) /\ 5 - 1 + i = 4 + i
      BY <2>1, <2>2
    <3> QED
      BY <2>2, <2>3, <3>1
  <2> HIDE DEF q
  <2>6. SubSeq(s, 5, q - 1) = w
    BY <1>0, <2>1, <2>4, <2>5, SliceIs
  <2> QED
    BY <2>6 DEF w, q
<1>5. SubSeq(s, HostAt, PortAt - 1) = parts.host
  <2> DEFINE w == parts.host
  <2>1. w \in Seq(UrlChars) /\ \A i \in 1..Len(w) : s[HostAt - 1 + i] = w[i]
    BY ComposedBytes, PartTypes
  <2>2. PortAt = HostAt + Len(w)
    BY DEF PortAt
  <2> HIDE DEF w, s
  <2>3. HostAt \in Nat \ {0} /\ PortAt <= Len(s) + 1
    BY <1>0
  <2>4. SubSeq(s, HostAt, PortAt - 1) = w
    BY <1>0, <2>1, <2>2, <2>3, SliceIs
  <2> QED
    BY <2>4 DEF w
<1>6. ASSUME parts.port # NoField
      PROVE  SubSeq(s, PortAt + 1, PathAt - 1) = parts.port
  <2> DEFINE w == parts.port
             p == PortAt + 1
  <2>1. w \in Seq(UrlChars)
    BY <1>6, PartTypes
  <2>2. Len(PortPart) = Len(w) + 1 /\ \A i \in 1..Len(w) : PortPart[i + 1] = w[i]
    <3>1. ":" \in UrlChars
      BY DEF UrlChars
    <3> QED
      BY <1>6, <2>1, <3>1, GivenPart, Zenon DEF PortPart
  <2>3. /\ PathAt = PortAt + Len(PortPart)
        /\ \A i \in 1..Len(PortPart) : s[PortAt - 1 + i] = PortPart[i]
    BY ComposedBytes DEF PathAt
  <2> HIDE DEF w, s
  <2>4. p \in Nat \ {0} /\ PathAt = p + Len(w) /\ PathAt <= Len(s) + 1
    BY <1>0, <2>1, <2>2, <2>3
  <2>5. \A i \in 1..Len(w) : s[p - 1 + i] = w[i]
    <3> TAKE i \in 1..Len(w)
    <3>1. i + 1 \in 1..Len(PortPart) /\ p - 1 + i = PortAt - 1 + (i + 1)
      BY <1>0, <2>1, <2>2
    <3>2. s[PortAt - 1 + (i + 1)] = PortPart[i + 1]
      BY <2>3, <3>1
    <3> QED
      BY <2>2, <3>1, <3>2, Zenon
  <2> HIDE DEF p
  <2>6. SubSeq(s, p, PathAt - 1) = w
    BY <1>0, <2>1, <2>4, <2>5, SliceIs
  <2> QED
    BY <2>6 DEF w, p
<1>7. SubSeq(s, PathAt, QueryAt - 1) = parts.path
  <2> DEFINE w == parts.path
  <2>1. w \in Seq(UrlChars) /\ \A i \in 1..Len(w) : s[PathAt - 1 + i] = w[i]
    BY ComposedBytes, PartTypes
  <2>2. QueryAt = PathAt + Len(w)
    BY DEF QueryAt
  <2> HIDE DEF w, s
  <2>3. PathAt \in Nat \ {0} /\ QueryAt <= Len(s) + 1
    BY <1>0
  <2>4. SubSeq(s, PathAt, QueryAt - 1) = w
    BY <1>0, <2>1, <2>2, <2>3, SliceIs
  <2> QED
    BY <2>4 DEF w
<1>8. ASSUME parts.query # NoField
      PROVE  SubSeq(s, QueryAt + 1, FragmentAt - 1) = parts.query
  <2> DEFINE w == parts.query
             p == QueryAt + 1
  <2>1. w \in Seq(UrlChars)
    BY <1>8, PartTypes
  <2>2. Len(QueryPart) = Len(w) + 1 /\ \A i \in 1..Len(w) : QueryPart[i + 1] = w[i]
    <3>1. "?" \in UrlChars
      BY DEF UrlChars
    <3> QED
      BY <1>8, <2>1, <3>1, GivenPart, Zenon DEF QueryPart
  <2>3. /\ FragmentAt = QueryAt + Len(QueryPart)
        /\ \A i \in 1..Len(QueryPart) : s[QueryAt - 1 + i] = QueryPart[i]
    BY ComposedBytes DEF FragmentAt
  <2> HIDE DEF w, s
  <2>4. p \in Nat \ {0} /\ FragmentAt = p + Len(w) /\ FragmentAt <= Len(s) + 1
    BY <1>0, <2>1, <2>2, <2>3
  <2>5. \A i \in 1..Len(w) : s[p - 1 + i] = w[i]
    <3> TAKE i \in 1..Len(w)
    <3>1. i + 1 \in 1..Len(QueryPart) /\ p - 1 + i = QueryAt - 1 + (i + 1)
      BY <1>0, <2>1, <2>2
    <3>2. s[QueryAt - 1 + (i + 1)] = QueryPart[i + 1]
      BY <2>3, <3>1
    <3> QED
      BY <2>2, <3>1, <3>2, Zenon
  <2> HIDE DEF p
  <2>6. SubSeq(s, p, FragmentAt - 1) = w
    BY <1>0, <2>1, <2>4, <2>5, SliceIs
  <2> QED
    BY <2>6 DEF w, p
<1>9. ASSUME parts.fragment # NoField
      PROVE  SubSeq(s, FragmentAt + 1, End - 1) = parts.fragment
  <2> DEFINE w == parts.fragment
             p == FragmentAt + 1
  <2>1. w \in Seq(UrlChars)
    BY <1>9, PartTypes
  <2>2. Len(FragmentPart) = Len(w) + 1 /\ \A i \in 1..Len(w) : FragmentPart[i + 1] = w[i]
    <3>1. "#" \in UrlChars
      BY DEF UrlChars
    <3> QED
      BY <1>9, <2>1, <3>1, GivenPart, Zenon DEF FragmentPart
  <2>3. /\ End = FragmentAt + Len(FragmentPart)
        /\ \A i \in 1..Len(FragmentPart) : s[FragmentAt - 1 + i] = FragmentPart[i]
    BY ComposedBytes DEF End
  <2> HIDE DEF w, s
  <2>4. p \in Nat \ {0} /\ End = p + Len(w) /\ End <= Len(s) + 1
    BY <1>0, <2>1, <2>2, <2>3
  <2>5. \A i \in 1..Len(w) : s[p - 1 + i] = w[i]
    <3> TAKE i \in 1..Len(w)
    <3>1. i + 1 \in 1..Len(FragmentPart) /\ p - 1 + i = FragmentAt - 1 + (i + 1)
      BY <1>0, <2>1, <2>2
    <3>2. s[FragmentAt - 1 + (i + 1)] = FragmentPart[i + 1]
      BY <2>3, <3>1
    <3> QED
      BY <2>2, <3>1, <3>2, Zenon
  <2> HIDE DEF p
  <2>6. SubSeq(s, p, End - 1) = w
    BY <1>0, <2>1, <2>4, <2>5, SliceIs
  <2> QED
    BY <2>6 DEF w, p
<1> QED
  BY <1>1, <1>2, <1>3, <1>4, <1>5, <1>6, <1>7, <1>8, <1>9, Zenon

\* What each stretch of a URL holds, and what stands where one ends.
LEMMA BytesOfComposed ==
  ASSUME parts \in Parts
  PROVE  /\ Composed[1] = "x" /\ Composed[2] = ":" /\ Composed[3] = "/" /\ Composed[4] = "/"
         /\ \A i \in 5..HostAt - 1 : Composed[i] \in {"x", "1"} \/ Composed[i] = "@"
         /\ \A i \in 5..HostAt - 2 : Composed[i] \in {"x", "1"}
         /\ \A i \in HostAt..PortAt - 1 : Composed[i] \in {"x", "1"}
         /\ \A i \in PortAt..PathAt - 1 : Composed[i] \in {"x", "1"} \/ Composed[i] = ":"
         /\ \A i \in PathAt..QueryAt - 1 : Composed[i] # "?" /\ Composed[i] # "#"
         /\ \A i \in QueryAt..FragmentAt - 1 : Composed[i] # "#"
         /\ PortAt = PathAt \/ Composed[PortAt] = ":"
         /\ PathAt = QueryAt \/ Composed[PathAt] = "/"
         /\ QueryAt = FragmentAt \/ Composed[QueryAt] = "?"
         /\ FragmentAt = End \/ Composed[FragmentAt] = "#"
<1> DEFINE s == Composed
<1>0. /\ HostAt \in Nat /\ PortAt \in Nat /\ PathAt \in Nat /\ QueryAt \in Nat
      /\ FragmentAt \in Nat /\ End \in Nat
      /\ 5 <= HostAt /\ HostAt < PortAt /\ PortAt <= PathAt
  BY PlacesInOrder
<1>1. s[1] = "x" /\ s[2] = ":" /\ s[3] = "/" /\ s[4] = "/"
  BY ComposedBytes
<1>2. /\ \A i \in 5..HostAt - 2 : s[i] \in {"x", "1"}
      /\ HostAt = 5 \/ s[HostAt - 1] = "@"
      /\ \A i \in HostAt..PortAt - 1 : s[i] \in {"x", "1"}
      /\ PortAt = PathAt \/ s[PortAt] = ":"
      /\ \A i \in PortAt + 1..PathAt - 1 : s[i] \in {"x", "1"}
  BY UserIsPlaced, HostIsPlaced, PortIsPlaced, Zenon DEF UserPlaces, HostPlaces, PortPlaces
<1>3. /\ \A i \in PathAt..QueryAt - 1 : s[i] \notin {"?", "#"}
      /\ PathAt = QueryAt \/ s[PathAt] = "/"
      /\ \A i \in QueryAt..FragmentAt - 1 : s[i] # "#"
      /\ QueryAt = FragmentAt \/ s[QueryAt] = "?"
      /\ FragmentAt = End \/ s[FragmentAt] = "#"
  BY PathIsPlaced, QueryIsPlaced, FragmentIsPlaced, Zenon
  DEF PathPlaces, QueryPlaces, FragmentPlaces
<1> HIDE DEF s
<1>4. \A i \in PathAt..QueryAt - 1 : s[i] # "?" /\ s[i] # "#"
  BY <1>3
<1>5. ASSUME NEW i \in 5..HostAt - 1 PROVE s[i] \in {"x", "1"} \/ s[i] = "@"
  <2>1. i = HostAt - 1 \/ i \in 5..HostAt - 2
    BY <1>0
  <2>2. i = HostAt - 1 => HostAt # 5
    BY <1>0
  <2> QED
    BY <1>2, <2>1, <2>2
<1>6. ASSUME NEW i \in PortAt..PathAt - 1 PROVE s[i] \in {"x", "1"} \/ s[i] = ":"
  <2>1. PortAt # PathAt /\ (i = PortAt \/ i \in PortAt + 1..PathAt - 1)
    BY <1>0
  <2> QED
    BY <1>2, <2>1
<1> QED
  BY <1>1, <1>2, <1>3, <1>4, <1>5, <1>6, Zenon DEF s

\* Where each scan of the server and of the client ends.
LEMMA ScansOfComposed ==
  ASSUME parts \in Parts
  PROVE  /\ Reach(Composed, 1, {":"}) = 2
         /\ Reach(Composed, 1, {":", "/", "?", "#", "@"}) = 2
         /\ Reach(Composed, 3, {"x", "1", ":", "?", "#", "@"}) = 5
         /\ Reach(Composed, 3, {"?", "#"}) = QueryAt
         /\ Reach(Composed, 5, {"/", "?", "#"}) = PathAt
         /\ Reach(Composed, PortAt, {"/", "?", "#"}) = PathAt
         /\ Reach(Composed, HostAt, {":", "/", "?", "#"}) = PortAt
         /\ Reach(Composed, PathAt, {"?", "#"}) = QueryAt
         /\ Reach(Composed, QueryAt, {"#"}) = FragmentAt
         /\ parts.query # NoField => Reach(Composed, QueryAt + 1, {"#"}) = FragmentAt
         /\ parts.path # <<>> => Reach(Composed, 5, {"/"}) = PathAt
         /\ parts.user # NoField => Reach(Composed, 5, {"@"}) = HostAt - 1
<1> DEFINE s == Composed
<1>0. /\ HostAt \in Nat /\ PortAt \in Nat /\ PathAt \in Nat /\ QueryAt \in Nat
      /\ FragmentAt \in Nat /\ End \in Nat
      /\ 5 <= HostAt /\ HostAt < PortAt /\ PortAt <= PathAt /\ PathAt <= QueryAt
      /\ QueryAt <= FragmentAt /\ FragmentAt <= End
      /\ s \in Seq(UrlChars) /\ Len(s) = End - 1
  BY PlacesInOrder
<1>1. /\ s[1] = "x" /\ s[2] = ":" /\ s[3] = "/" /\ s[4] = "/"
      /\ \A i \in 5..HostAt - 1 : s[i] \in {"x", "1"} \/ s[i] = "@"
      /\ \A i \in 5..HostAt - 2 : s[i] \in {"x", "1"}
      /\ \A i \in HostAt..PortAt - 1 : s[i] \in {"x", "1"}
      /\ \A i \in PortAt..PathAt - 1 : s[i] \in {"x", "1"} \/ s[i] = ":"
      /\ \A i \in PathAt..QueryAt - 1 : s[i] # "?" /\ s[i] # "#"
      /\ \A i \in QueryAt..FragmentAt - 1 : s[i] # "#"
      /\ PortAt = PathAt \/ s[PortAt] = ":"
      /\ PathAt = QueryAt \/ s[PathAt] = "/"
      /\ QueryAt = FragmentAt \/ s[QueryAt] = "?"
      /\ FragmentAt = End \/ s[FragmentAt] = "#"
  BY BytesOfComposed
<1>2. s[5] \in {"x", "1"}
  <2>1. HostAt = 5 \/ HostAt > 6
    BY UserIsPlaced, Zenon DEF UserPlaces
  <2>2. 5 \in HostAt..PortAt - 1 \/ 5 \in 5..HostAt - 2
    BY <1>0, <2>1
  <2> QED
    BY <1>1, <2>2
<1>3. /\ parts.query # NoField => QueryAt < FragmentAt
      /\ parts.path # <<>> => PathAt < QueryAt
      /\ parts.user # NoField => HostAt > 6 /\ s[HostAt - 1] = "@"
  BY UserIsPlaced, PathIsPlaced, QueryIsPlaced, Zenon DEF UserPlaces, PathPlaces, QueryPlaces
<1> HIDE DEF s
<1>4. /\ FragmentAt = Len(s) + 1 \/ s[FragmentAt] = "#"
      /\ QueryAt = Len(s) + 1 \/ s[QueryAt] = "?" \/ s[QueryAt] = "#"
      /\ PathAt = Len(s) + 1 \/ s[PathAt] = "/" \/ s[PathAt] = "?" \/ s[PathAt] = "#"
      /\ \/ PortAt = Len(s) + 1
         \/ s[PortAt] = ":" \/ s[PortAt] = "/" \/ s[PortAt] = "?" \/ s[PortAt] = "#"
  BY <1>0, <1>1
<1>5. /\ \A i \in 5..PathAt - 1 : s[i] \in {"x", "1"} \/ s[i] = "@" \/ s[i] = ":"
      /\ \A i \in 3..QueryAt - 1 : s[i] # "?" /\ s[i] # "#"
  <2>1. ASSUME NEW i \in 5..PathAt - 1 PROVE s[i] \in {"x", "1"} \/ s[i] = "@" \/ s[i] = ":"
    <3>1. i \in 5..HostAt - 1 \/ i \in HostAt..PortAt - 1 \/ i \in PortAt..PathAt - 1
      BY <1>0
    <3> QED
      BY <1>1, <3>1, Zenon
  <2>2. ASSUME NEW i \in 3..QueryAt - 1 PROVE s[i] # "?" /\ s[i] # "#"
    <3>1. i = 3 \/ i = 4 \/ i \in 5..PathAt - 1 \/ i \in PathAt..QueryAt - 1
      BY <1>0
    <3> QED
      BY <1>1, <2>1, <3>1
  <2> QED
    BY <2>1, <2>2, Zenon
<1>6. ASSUME NEW stop \in SUBSET UrlChars, NEW p, p \in 1..Len(s) + 1, NEW q, q \in p..Len(s) + 1,
             q = Len(s) + 1 \/ s[q] \in stop, \A r \in p..q - 1 : s[r] \notin stop
      PROVE  Reach(s, p, stop) = q
  BY <1>0, <1>6, ReachIs
<1>7. /\ Reach(s, 1, {":"}) = 2
      /\ Reach(s, 1, {":", "/", "?", "#", "@"}) = 2
  <2>1. 1 \in 1..Len(s) + 1 /\ 2 \in 1..Len(s) + 1 /\ \A r \in 1..2 - 1 : r = 1
    BY <1>0
  <2>2. {":"} \in SUBSET UrlChars /\ {":", "/", "?", "#", "@"} \in SUBSET UrlChars
    BY DEF UrlChars
  <2>3. /\ s[2] \in {":"} /\ \A r \in 1..2 - 1 : s[r] \notin {":"}
        /\ s[2] \in {":", "/", "?", "#", "@"}
        /\ \A r \in 1..2 - 1 : s[r] \notin {":", "/", "?", "#", "@"}
    BY <1>1, <2>1
  <2> QED
    BY <1>6, <2>1, <2>2, <2>3, Zenon
<1>8. Reach(s, 3, {"x", "1", ":", "?", "#", "@"}) = 5
  <2>1. 3 \in 1..Len(s) + 1 /\ 5 \in 3..Len(s) + 1 /\ \A r \in 3..5 - 1 : r = 3 \/ r = 4
    BY <1>0
  <2>2. {"x", "1", ":", "?", "#", "@"} \in SUBSET UrlChars
    BY DEF UrlChars
  <2>3. /\ s[5] \in {"x", "1", ":", "?", "#", "@"}
        /\ \A r \in 3..5 - 1 : s[r] \notin {"x", "1", ":", "?", "#", "@"}
    BY <1>1, <1>2, <2>1
  <2> QED
    BY <1>6, <2>1, <2>2, <2>3, Zenon
<1>9. Reach(s, 3, {"?", "#"}) = QueryAt /\ Reach(s, PathAt, {"?", "#"}) = QueryAt
  <2>1. /\ 3 \in 1..Len(s) + 1 /\ QueryAt \in 3..Len(s) + 1
        /\ PathAt \in 1..Len(s) + 1 /\ QueryAt \in PathAt..Len(s) + 1
    BY <1>0
  <2>2. {"?", "#"} \in SUBSET UrlChars
    BY DEF UrlChars
  <2>3. /\ QueryAt = Len(s) + 1 \/ s[QueryAt] \in {"?", "#"}
        /\ \A r \in 3..QueryAt - 1 : s[r] \notin {"?", "#"}
        /\ \A r \in PathAt..QueryAt - 1 : s[r] \notin {"?", "#"}
    BY <1>1, <1>4, <1>5
  <2> QED
    BY <1>6, <2>1, <2>2, <2>3, Zenon
<1>10. Reach(s, 5, {"/", "?", "#"}) = PathAt /\ Reach(s, PortAt, {"/", "?", "#"}) = PathAt
  <2>1. /\ 5 \in 1..Len(s) + 1 /\ PathAt \in 5..Len(s) + 1
        /\ PortAt \in 1..Len(s) + 1 /\ PathAt \in PortAt..Len(s) + 1
    BY <1>0
  <2>2. {"/", "?", "#"} \in SUBSET UrlChars
    BY DEF UrlChars
  <2>3. /\ PathAt = Len(s) + 1 \/ s[PathAt] \in {"/", "?", "#"}
        /\ \A r \in 5..PathAt - 1 : s[r] \notin {"/", "?", "#"}
        /\ \A r \in PortAt..PathAt - 1 : s[r] \notin {"/", "?", "#"}
    BY <1>1, <1>4, <1>5
  <2> QED
    BY <1>6, <2>1, <2>2, <2>3, Zenon
<1>11. Reach(s, HostAt, {":", "/", "?", "#"}) = PortAt
  <2>1. HostAt \in 1..Len(s) + 1 /\ PortAt \in HostAt..Len(s) + 1
    BY <1>0
  <2>2. {":", "/", "?", "#"} \in SUBSET UrlChars
    BY DEF UrlChars
  <2>3. /\ PortAt = Len(s) + 1 \/ s[PortAt] \in {":", "/", "?", "#"}
        /\ \A r \in HostAt..PortAt - 1 : s[r] \notin {":", "/", "?", "#"}
    BY <1>1, <1>4
  <2> QED
    BY <1>6, <2>1, <2>2, <2>3, Zenon
<1>12. {"#"} \in SUBSET UrlChars /\ {"/"} \in SUBSET UrlChars /\ {"@"} \in SUBSET UrlChars
  BY DEF UrlChars
<1>13. Reach(s, QueryAt, {"#"}) = FragmentAt
  <2>1. QueryAt \in 1..Len(s) + 1 /\ FragmentAt \in QueryAt..Len(s) + 1
    BY <1>0
  <2>2. /\ FragmentAt = Len(s) + 1 \/ s[FragmentAt] \in {"#"}
        /\ \A r \in QueryAt..FragmentAt - 1 : s[r] \notin {"#"}
    BY <1>1, <1>4
  <2> QED
    BY <1>6, <1>12, <2>1, <2>2, Zenon
<1>14. ASSUME parts.query # NoField PROVE Reach(s, QueryAt + 1, {"#"}) = FragmentAt
  <2>1. /\ QueryAt + 1 \in 1..Len(s) + 1 /\ FragmentAt \in QueryAt + 1..Len(s) + 1
        /\ QueryAt + 1..FragmentAt - 1 \subseteq QueryAt..FragmentAt - 1
    BY <1>0, <1>3, <1>14
  <2>2. /\ FragmentAt = Len(s) + 1 \/ s[FragmentAt] \in {"#"}
        /\ \A r \in QueryAt + 1..FragmentAt - 1 : s[r] \notin {"#"}
    BY <1>1, <1>4, <2>1
  <2> QED
    BY <1>6, <1>12, <2>1, <2>2, Zenon
<1>15. ASSUME parts.path # <<>> PROVE Reach(s, 5, {"/"}) = PathAt
  <2>1. 5 \in 1..Len(s) + 1 /\ PathAt \in 5..Len(s) + 1 /\ PathAt # QueryAt
    BY <1>0, <1>3, <1>15
  <2>2. s[PathAt] \in {"/"} /\ \A r \in 5..PathAt - 1 : s[r] \notin {"/"}
    BY <1>1, <1>5, <2>1
  <2> QED
    BY <1>6, <1>12, <2>1, <2>2, Zenon
<1>16. ASSUME parts.user # NoField PROVE Reach(s, 5, {"@"}) = HostAt - 1
  <2>1. /\ 5 \in 1..Len(s) + 1 /\ HostAt - 1 \in 5..Len(s) + 1
        /\ \A r \in 5..HostAt - 1 - 1 : r \in 5..HostAt - 2
    BY <1>0, <1>3, <1>16
  <2>2. s[HostAt - 1] \in {"@"} /\ \A r \in 5..HostAt - 1 - 1 : s[r] \notin {"@"}
    BY <1>1, <1>3, <1>16, <2>1
  <2> QED
    BY <1>6, <1>12, <2>1, <2>2, Zenon
<1> QED
  BY <1>7, <1>8, <1>9, <1>10, <1>11, <1>13, <1>14, <1>15, <1>16, Zenon DEF s

\* A delimiter that is in nothing behind the authority is not found there.
LEMMA NothingBehind ==
  ASSUME parts \in Parts
  PROVE  /\ (parts.user = NoField /\ ~Behind("@")) => Reach(Composed, 5, {"@"}) = End
         /\ (parts.path = <<>> /\ ~Behind("/")) => Reach(Composed, 5, {"/"}) = End
<1> DEFINE s == Composed
<1>0. /\ HostAt \in Nat /\ PortAt \in Nat /\ PathAt \in Nat /\ QueryAt \in Nat
      /\ FragmentAt \in Nat /\ End \in Nat
      /\ 5 <= HostAt /\ HostAt < PortAt /\ PortAt <= PathAt /\ PathAt <= QueryAt
      /\ QueryAt <= FragmentAt /\ FragmentAt <= End
      /\ s \in Seq(UrlChars) /\ Len(s) = End - 1
  BY PlacesInOrder
<1>1. /\ \A i \in 5..HostAt - 1 : s[i] \in {"x", "1"} \/ s[i] = "@"
      /\ \A i \in HostAt..PortAt - 1 : s[i] \in {"x", "1"}
      /\ \A i \in PortAt..PathAt - 1 : s[i] \in {"x", "1"} \/ s[i] = ":"
      /\ QueryAt = FragmentAt \/ s[QueryAt] = "?"
      /\ FragmentAt = End \/ s[FragmentAt] = "#"
  BY BytesOfComposed
<1>2. /\ parts.user = NoField => HostAt = 5
      /\ parts.path = <<>> => QueryAt = PathAt
  BY UserIsPlaced, PathIsPlaced, Zenon DEF UserPlaces, PathPlaces
<1>3. ASSUME NEW char, ~Behind(char)
      PROVE  /\ \A i \in PathAt..QueryAt - 1 : s[i] # char
             /\ \A i \in QueryAt + 1..FragmentAt - 1 : s[i] # char
             /\ \A i \in FragmentAt + 1..End - 1 : s[i] # char
  BY <1>3, PathIsPlaced, QueryIsPlaced, FragmentIsPlaced, Zenon
  DEF PathPlaces, QueryPlaces, FragmentPlaces
<1> HIDE DEF s
<1>4. ASSUME NEW char, ~Behind(char), char # "?", char # "#"
      PROVE  \A i \in PathAt..End - 1 : s[i] # char
  <2> TAKE i \in PathAt..End - 1
  <2>1. \/ i \in PathAt..QueryAt - 1 \/ (i = QueryAt /\ QueryAt # FragmentAt)
        \/ i \in QueryAt + 1..FragmentAt - 1 \/ (i = FragmentAt /\ FragmentAt # End)
        \/ i \in FragmentAt + 1..End - 1
    BY <1>0
  <2> QED
    BY <1>1, <1>3, <1>4, <2>1
<1>5. 5 \in 1..Len(s) + 1 /\ End \in 5..Len(s) + 1 /\ End = Len(s) + 1
  BY <1>0
<1>6. ASSUME parts.user = NoField, ~Behind("@")
      PROVE  Reach(s, 5, {"@"}) = End
  <2>1. ASSUME NEW i \in 5..End - 1 PROVE s[i] \notin {"@"}
    <3>1. i \in HostAt..PortAt - 1 \/ i \in PortAt..PathAt - 1 \/ i \in PathAt..End - 1
      BY <1>0, <1>2, <1>6
    <3> QED
      BY <1>1, <1>4, <1>6, <3>1
  <2>2. {"@"} \in SUBSET UrlChars
    BY DEF UrlChars
  <2> QED
    BY <1>0, <1>5, <2>1, <2>2, ReachIs
<1>7. ASSUME parts.path = <<>>, ~Behind("/")
      PROVE  Reach(s, 5, {"/"}) = End
  <2>1. ASSUME NEW i \in 5..End - 1 PROVE s[i] \notin {"/"}
    <3>1. \/ i \in 5..HostAt - 1 \/ i \in HostAt..PortAt - 1
          \/ i \in PortAt..PathAt - 1 \/ i \in PathAt..End - 1
      BY <1>0
    <3> QED
      BY <1>1, <1>4, <1>7, <3>1
  <2>2. {"/"} \in SUBSET UrlChars
    BY DEF UrlChars
  <2> QED
    BY <1>0, <1>5, <2>1, <2>2, ReachIs
<1> QED
  BY <1>6, <1>7 DEF s

\* The bytes from one place up to another, as they are copied.
LEMMA CopyIs ==
  ASSUME NEW s \in Seq(UrlChars), NEW p \in Nat \ {0}, NEW q \in Nat, p <= q, q <= Len(s) + 1,
         NEW n, n = q - p
  PROVE  Copy(s, p, n) = SubSeq(s, p, q - 1)
<1>1. Len(s) \in Nat /\ n # -1 /\ p + n - 1 = q - 1 /\ ~(p + n - 1 > Len(s))
  OBVIOUS
<1> QED
  BY <1>1, Zenon DEF Copy

LEMMA CopyToEnd ==
  ASSUME NEW s, NEW p
  PROVE  Copy(s, p, -1) = SubSeq(s, p, Len(s))
BY DEF Copy

\* What the places tell the parsers of the parts that may be missing.
LEMMA DelimitersTell ==
  ASSUME parts \in Parts
  PROVE  /\ CharAt(Composed, 2) = ":"
         /\ parts.user # NoField => CharAt(Composed, 5) = parts.user[1]
         /\ CharAt(Composed, PortAt) = ":" <=> parts.port # NoField
         /\ CharAt(Composed, QueryAt) = "?" <=> parts.query # NoField
         /\ CharAt(Composed, FragmentAt) = "#" <=> parts.fragment # NoField
<1> DEFINE s == Composed
<1>0. /\ HostAt \in Nat /\ PortAt \in Nat /\ PathAt \in Nat /\ QueryAt \in Nat
      /\ FragmentAt \in Nat /\ End \in Nat
      /\ 5 <= HostAt /\ HostAt < PortAt /\ PortAt <= PathAt /\ PathAt <= QueryAt
      /\ QueryAt <= FragmentAt /\ FragmentAt <= End /\ Len(s) = End - 1
      /\ s \in Seq(UrlChars)
  BY PlacesInOrder
<1>1. /\ s[2] = ":"
      /\ PathAt = QueryAt \/ s[PathAt] = "/"
      /\ QueryAt = FragmentAt \/ s[QueryAt] = "?"
      /\ FragmentAt = End \/ s[FragmentAt] = "#"
  BY BytesOfComposed
<1>2. /\ parts.user # NoField => HostAt > 6 /\ SubSeq(s, 5, (HostAt - 1) - 1) = parts.user
      /\ parts.port = NoField => PathAt = PortAt
      /\ parts.port # NoField => PathAt > PortAt + 1 /\ s[PortAt] = ":"
      /\ parts.query = NoField => FragmentAt = QueryAt
      /\ parts.query # NoField => FragmentAt > QueryAt
      /\ parts.fragment = NoField => End = FragmentAt
      /\ parts.fragment # NoField => End > FragmentAt
  BY UserIsPlaced, PartsAreSlices, PortIsPlaced, QueryIsPlaced, FragmentIsPlaced, Zenon
  DEF UserPlaces, PortPlaces, QueryPlaces, FragmentPlaces
<1> HIDE DEF s
<1>3. CharAt(s, 2) = ":"
  BY <1>0, <1>1 DEF CharAt
<1>4. ASSUME parts.user # NoField PROVE CharAt(s, 5) = parts.user[1]
  <2> DEFINE e == (HostAt - 1) - 1
  <2>1. e \in Int /\ e >= 5 /\ e <= Len(s) /\ 5 \in 1..Len(s)
    BY <1>0, <1>2, <1>4
  <2>2. SubSeq(s, 5, e) = parts.user
    BY <1>2, <1>4
  <2> HIDE DEF e
  <2>3. SubSeq(s, 5, e)[1] = s[5]
    <3>1. \A i \in 5..e : s[i] \in UrlChars
      BY <1>0, <2>1
    <3>2. 1 \in 1..e - 5 + 1 /\ 5 + 1 - 1 = 5
      BY <2>1
    <3> QED
      BY <2>1, <3>1, <3>2, SubSeqProperties
  <2> QED
    BY <2>1, <2>2, <2>3 DEF CharAt
<1>5. CharAt(s, FragmentAt) = "#" <=> parts.fragment # NoField
  BY <1>0, <1>1, <1>2 DEF CharAt
<1>6. CharAt(s, QueryAt) = "?" <=> parts.query # NoField
  BY <1>0, <1>1, <1>2 DEF CharAt
<1>7. CharAt(s, PortAt) = ":" <=> parts.port # NoField
  BY <1>0, <1>1, <1>2 DEF CharAt
<1> QED
  BY <1>3, <1>4, <1>5, <1>6, <1>7, Zenon DEF s

\* url_get_field as it goes about the fields of a URL put together from parts.
LEMMA FieldsBegin ==
  ASSUME parts \in Parts
  PROVE  /\ GetField(Composed, "scheme") = GetScheme(Composed)
         /\ \A field \in HierFields : GetField(Composed, field) = GetHierPart(Composed, 3, field)
         /\ GetField(Composed, "query") =
              (IF parts.query # NoField THEN GetQuery(Composed, QueryAt + 1) ELSE NoField)
         /\ GetField(Composed, "absolute") = Copy(Composed, 1, FragmentAt - 1)
         /\ GetField(Composed, "fragment") =
              (IF parts.fragment # NoField THEN Copy(Composed, FragmentAt + 1, -1) ELSE NoField)
<1> DEFINE s == Composed
           scheme_end == ScanPast(s, 1, ":")
           hier == IF scheme_end = -1 THEN 1 ELSE 1 + scheme_end
           query == hier + Scan(s, hier, {"?", "#"})
           fragment == IF CharAt(s, query) = "?" THEN query + Scan(s, query, {"#"}) ELSE query
<1>0. /\ QueryAt \in Nat /\ FragmentAt \in Nat /\ End \in Nat
      /\ 5 < QueryAt /\ QueryAt <= FragmentAt /\ FragmentAt <= End /\ Len(s) = End - 1
  <2>1. /\ HostAt \in Nat /\ PortAt \in Nat /\ PathAt \in Nat /\ QueryAt \in Nat
        /\ FragmentAt \in Nat /\ End \in Nat
        /\ 5 <= HostAt /\ HostAt < PortAt /\ PortAt <= PathAt /\ PathAt <= QueryAt
        /\ QueryAt <= FragmentAt /\ FragmentAt <= End /\ Len(s) = End - 1
    BY PlacesInOrder
  <2> QED
    BY <2>1
<1>1. /\ Reach(s, 1, {":"}) = 2 /\ Reach(s, 3, {"?", "#"}) = QueryAt
      /\ Reach(s, QueryAt, {"#"}) = FragmentAt
  BY ScansOfComposed
<1>2. /\ CharAt(s, QueryAt) = "?" <=> parts.query # NoField
      /\ CharAt(s, FragmentAt) = "#" <=> parts.fragment # NoField
  BY DelimitersTell
<1>3. /\ parts.query = NoField => FragmentAt = QueryAt
      /\ parts.query # NoField => FragmentAt > QueryAt
  BY QueryIsPlaced, Zenon DEF QueryPlaces
<1>4. GetField(s, "scheme") = GetScheme(s)
  BY DEF GetField, HierFields, AuthorityFields
<1>5. \A field \in HierFields :
        field # "scheme" /\ field # "query" /\ field # "absolute" /\ field # "fragment"
  BY DEF HierFields, AuthorityFields
<1>6. "query" \notin HierFields /\ "absolute" \notin HierFields /\ "fragment" \notin HierFields
  BY <1>5
<1> HIDE DEF s
<1>7. scheme_end = 2
  BY <1>0, <1>1 DEF ScanPast
<1>8. hier = 3
  BY <1>7
<1>9. query = QueryAt
  <2>1. Scan(s, 3, {"?", "#"}) = QueryAt - 3
    BY <1>0, <1>1 DEF Scan
  <2> HIDE DEF hier
  <2> QED
    BY <1>0, <1>8, <2>1
<1>10. fragment = FragmentAt
  <2> HIDE DEF query
  <2>1. CASE parts.query = NoField
    BY <1>2, <1>3, <1>9, <2>1
  <2>2. CASE parts.query # NoField
    <3>1. Scan(s, QueryAt, {"#"}) = FragmentAt - QueryAt
      BY <1>0, <1>1, <1>3, <2>2 DEF Scan
    <3> QED
      BY <1>0, <1>2, <1>9, <2>2, <3>1
  <2> QED
    BY <2>1, <2>2
<1>11. \A field \in HierFields : GetField(s, field) = GetHierPart(s, hier, field)
  BY <1>5 DEF GetField
<1>12. /\ GetField(s, "query") = IF CharAt(s, query) = "?" THEN GetQuery(s, query + 1) ELSE NoField
       /\ GetField(s, "absolute") = Copy(s, 1, fragment - 1)
       /\ GetField(s, "fragment") =
            IF CharAt(s, fragment) = "#" THEN Copy(s, fragment + 1, -1) ELSE NoField
  BY <1>6 DEF GetField
<1> HIDE DEF scheme_end, hier, query, fragment
<1> QED
  BY <1>2, <1>4, <1>8, <1>9, <1>10, <1>11, <1>12, Zenon DEF s

\* The fields outside the authority and the path.
LEMMA OuterFields ==
  ASSUME parts \in Parts
  PROVE  /\ GetField(Composed, "scheme") = <<"x">>
         /\ GetField(Composed, "hier_part") = <<"/", "/">> \o Authority \o parts.path
         /\ GetField(Composed, "query") = parts.query
         /\ GetField(Composed, "absolute") = Absolute
         /\ GetField(Composed, "fragment") = parts.fragment
<1> DEFINE s == Composed
<1>0. /\ PathAt \in Nat /\ QueryAt \in Nat /\ FragmentAt \in Nat /\ End \in Nat
      /\ 5 < PathAt /\ PathAt <= QueryAt /\ QueryAt <= FragmentAt /\ FragmentAt <= End
      /\ s \in Seq(UrlChars) /\ Len(s) = End - 1
  <2>1. /\ HostAt \in Nat /\ PortAt \in Nat /\ PathAt \in Nat /\ QueryAt \in Nat
        /\ FragmentAt \in Nat /\ End \in Nat
        /\ 5 <= HostAt /\ HostAt < PortAt /\ PortAt <= PathAt /\ PathAt <= QueryAt
        /\ QueryAt <= FragmentAt /\ FragmentAt <= End
        /\ s \in Seq(UrlChars) /\ Len(s) = End - 1
    BY PlacesInOrder
  <2> QED
    BY <2>1
<1>1. /\ Reach(s, 1, {":", "/", "?", "#", "@"}) = 2
      /\ Reach(s, 3, {"x", "1", ":", "?", "#", "@"}) = 5
      /\ Reach(s, 3, {"?", "#"}) = QueryAt
      /\ parts.query # NoField => Reach(s, QueryAt + 1, {"#"}) = FragmentAt
  BY ScansOfComposed
<1>2. CharAt(s, 2) = ":" /\ s[1] = "x"
  BY BytesOfComposed, DelimitersTell
<1>3. parts.query # NoField => FragmentAt > QueryAt
  BY QueryIsPlaced, Zenon DEF QueryPlaces
<1>4. parts.fragment # NoField => End > FragmentAt
  BY FragmentIsPlaced, Zenon DEF FragmentPlaces
<1>5. GetField(s, "scheme") = <<"x">>
  <2>1. GetField(s, "scheme") = Copy(s, 1, 1)
    <3>1. GetField(s, "scheme") = GetScheme(s)
      BY FieldsBegin
    <3> HIDE DEF s
    <3>2. CharAt(s, 1) = "x"
      BY <1>0, <1>2 DEF CharAt
    <3> QED
      BY <1>1, <1>2, <3>1, <3>2 DEF GetScheme
  <2> HIDE DEF s
  <2>2. /\ 1 \in Nat \ {0} /\ 2 \in Nat /\ 1 <= 2 /\ 2 <= Len(s) + 1 /\ 1 = 2 - 1
        /\ <<"x">> \in Seq(UrlChars) /\ 2 = 1 + Len(<<"x">>)
        /\ \A i \in 1..Len(<<"x">>) : s[1 - 1 + i] = <<"x">>[i]
    BY <1>0, <1>2 DEF UrlChars
  <2>3. Copy(s, 1, 1) = SubSeq(s, 1, 2 - 1)
    BY <1>0, <2>2, CopyIs
  <2> DEFINE w == <<"x">>
  <2> HIDE DEF w
  <2>4. SubSeq(s, 1, 2 - 1) = w
    <3>1. /\ w \in Seq(UrlChars) /\ 2 = 1 + Len(w)
          /\ \A i \in 1..Len(w) : s[1 - 1 + i] = w[i]
      BY <2>2, Zenon DEF w
    <3> QED
      BY <1>0, <2>2, <3>1, SliceIs
  <2> QED
    BY <2>1, <2>3, <2>4, Zenon DEF w
<1>6. GetField(s, "hier_part") = <<"/", "/">> \o Authority \o parts.path
  <2>1. GetField(s, "hier_part") = GetHierPart(s, 3, "hier_part")
    BY FieldsBegin DEF HierFields
  <2>2. SubSeq(s, 3, QueryAt - 1) = <<"/", "/">> \o Authority \o parts.path
    BY PartsAreSlices
  <2> HIDE DEF s
  <2>3. GetHierPart(s, 3, "hier_part") = Copy(s, 3, Scan(s, 3, {"?", "#"}))
    BY DEF GetHierPart, AuthorityFields
  <2>4. Scan(s, 3, {"?", "#"}) = QueryAt - 3
    BY <1>0, <1>1 DEF Scan
  <2>5. 3 \in Nat \ {0} /\ 3 <= QueryAt /\ QueryAt <= Len(s) + 1
    BY <1>0
  <2>6. Copy(s, 3, QueryAt - 3) = SubSeq(s, 3, QueryAt - 1)
    BY <1>0, <2>5, CopyIs
  <2> QED
    BY <2>1, <2>2, <2>3, <2>4, <2>6, Zenon
<1>7. GetField(s, "query") = parts.query
  <2>1. GetField(s, "query") =
          (IF parts.query # NoField THEN GetQuery(s, QueryAt + 1) ELSE NoField)
    BY FieldsBegin
  <2>2. CASE parts.query = NoField
    BY <2>1, <2>2, Zenon
  <2>3. CASE parts.query # NoField
    <3>1. SubSeq(s, QueryAt + 1, FragmentAt - 1) = parts.query
      BY <2>3, PartsAreSlices
    <3> DEFINE p == QueryAt + 1
    <3> HIDE DEF s
    <3>2. p \in Nat \ {0} /\ p <= FragmentAt /\ FragmentAt <= Len(s) + 1
      BY <1>0, <1>3, <2>3
    <3>3. Reach(s, p, {"#"}) = FragmentAt
      BY <1>1, <2>3
    <3> HIDE DEF p
    <3>4. CASE p = FragmentAt
      <4>1. GetQuery(s, p) = <<>>
        BY <3>3, <3>4 DEF GetQuery, Scan
      <4>2. \A i \in 1..0 : FALSE
        OBVIOUS
      <4>3. SubSeq(s, p, FragmentAt - 1) = <<>>
        <5>1. <<>> \in Seq(UrlChars) /\ Len(<<>>) = 0 /\ FragmentAt = p + Len(<<>>)
          BY <1>0, <3>4
        <5>2. \A i \in 1..Len(<<>>) : s[p - 1 + i] = <<>>[i]
          BY <4>2, <5>1
        <5> QED
          BY <1>0, <3>2, <5>1, <5>2, SliceIs
      <4> QED
        BY <2>1, <2>3, <3>1, <4>1, <4>3, Zenon DEF p
    <3>5. CASE p # FragmentAt
      <4>1. Scan(s, p, {"#"}) = FragmentAt - p /\ FragmentAt - p > 0
        BY <1>0, <3>2, <3>3, <3>5 DEF Scan
      <4>2. GetQuery(s, p) = Copy(s, p, FragmentAt - p)
        BY <4>1 DEF GetQuery
      <4>3. Copy(s, p, FragmentAt - p) = SubSeq(s, p, FragmentAt - 1)
        BY <1>0, <3>2, CopyIs
      <4> QED
        BY <2>1, <2>3, <3>1, <4>2, <4>3, Zenon DEF p
    <3> QED
      BY <3>4, <3>5
  <2> QED
    BY <2>2, <2>3
<1>8. GetField(s, "absolute") = Absolute
  <2>1. GetField(s, "absolute") = Copy(s, 1, FragmentAt - 1)
    BY FieldsBegin
  <2>2. SubSeq(s, 1, FragmentAt - 1) = Absolute
    BY PartsAreSlices
  <2> HIDE DEF s
  <2>3. 1 \in Nat \ {0} /\ 1 <= FragmentAt /\ FragmentAt <= Len(s) + 1
    BY <1>0
  <2>4. Copy(s, 1, FragmentAt - 1) = SubSeq(s, 1, FragmentAt - 1)
    BY <1>0, <2>3, CopyIs
  <2> QED
    BY <2>1, <2>2, <2>4, Zenon
<1>9. GetField(s, "fragment") = parts.fragment
  <2>1. GetField(s, "fragment") =
          (IF parts.fragment # NoField THEN Copy(s, FragmentAt + 1, -1) ELSE NoField)
    BY FieldsBegin
  <2>2. CASE parts.fragment = NoField
    BY <2>1, <2>2, Zenon
  <2>3. CASE parts.fragment # NoField
    <3>1. SubSeq(s, FragmentAt + 1, End - 1) = parts.fragment
      BY <2>3, PartsAreSlices
    <3>2. Copy(s, FragmentAt + 1, -1) = SubSeq(s, FragmentAt + 1, Len(s))
      BY CopyToEnd, Zenon
    <3> QED
      BY <1>0, <2>1, <2>3, <3>1, <3>2, Zenon
  <2> QED
    BY <2>2, <2>3
<1> QED
  BY <1>5, <1>6, <1>7, <1>8, <1>9, Zenon DEF s

\* The fields of the authority, as they are asked for.
LEMMA AuthorityBegins ==
  ASSUME parts \in Parts, NEW field \in AuthorityFields
  PROVE  GetField(Composed, field) = GetAuthority(Composed, 5, field)
<1> DEFINE s == Composed
<1>1. GetField(s, field) = GetHierPart(s, 3, field)
  BY FieldsBegin DEF HierFields
<1>2. Reach(s, 3, {"x", "1", ":", "?", "#", "@"}) = 5
  BY ScansOfComposed
<1> HIDE DEF s
<1>3. GetHierPart(s, 3, field) = GetAuthority(s, 5, field)
  BY <1>2 DEF GetHierPart, AuthorityFields
<1> QED
  BY <1>1, <1>3 DEF s

LEMMA AuthorityField == parts \in Parts => GetField(Composed, "authority") = Authority
<1> SUFFICES ASSUME parts \in Parts PROVE GetField(Composed, "authority") = Authority
  OBVIOUS
<1> DEFINE s == Composed
<1>0. /\ PathAt \in Nat /\ 5 < PathAt /\ s \in Seq(UrlChars) /\ PathAt <= Len(s) + 1
  <2>1. /\ HostAt \in Nat /\ PortAt \in Nat /\ PathAt \in Nat /\ QueryAt \in Nat
        /\ FragmentAt \in Nat /\ End \in Nat
        /\ 5 <= HostAt /\ HostAt < PortAt /\ PortAt <= PathAt /\ PathAt <= QueryAt
        /\ QueryAt <= FragmentAt /\ FragmentAt <= End
        /\ s \in Seq(UrlChars) /\ Len(s) = End - 1
    BY PlacesInOrder
  <2> QED
    BY <2>1
<1>1. GetField(s, "authority") = GetAuthority(s, 5, "authority")
  BY AuthorityBegins DEF AuthorityFields
<1>2. Reach(s, 5, {"/", "?", "#"}) = PathAt /\ SubSeq(s, 5, PathAt - 1) = Authority
  BY ScansOfComposed, PartsAreSlices
<1> HIDE DEF s
<1>3. GetAuthority(s, 5, "authority") = Copy(s, 5, Scan(s, 5, {"/", "?", "#"}))
  BY DEF GetAuthority
<1>4. Scan(s, 5, {"/", "?", "#"}) = PathAt - 5
  BY <1>0, <1>2 DEF Scan
<1>5. Copy(s, 5, PathAt - 5) = SubSeq(s, 5, PathAt - 1)
  BY <1>0, CopyIs
<1> QED
  BY <1>1, <1>2, <1>3, <1>4, <1>5, Zenon DEF s

\* The others: unless an @ is taken for the end of a user who is not given; a user
\* is found if it begins with a letter.
LEMMA InnerFields ==
  ASSUME parts \in Parts, parts.user # NoField \/ ~Behind("@")
  PROVE  /\ parts.user = NoField \/ parts.user[1] = "x" =>
              GetField(Composed, "userinfo") = parts.user
         /\ GetField(Composed, "host") = parts.host
         /\ GetField(Composed, "port") = parts.port
<1> DEFINE s == Composed
           user_end == ScanPast(s, 5, "@")
           host == IF user_end = -1 THEN 5 ELSE 5 + user_end
           host_end == Scan(s, host, {":", "/", "?", "#"})
           port == host + host_end
<1>0. /\ HostAt \in Nat /\ PortAt \in Nat /\ PathAt \in Nat /\ End \in Nat
      /\ 5 <= HostAt /\ HostAt < PortAt /\ PortAt <= PathAt /\ PathAt <= End
      /\ s \in Seq(UrlChars) /\ Len(s) = End - 1
  <2>1. /\ HostAt \in Nat /\ PortAt \in Nat /\ PathAt \in Nat /\ QueryAt \in Nat
        /\ FragmentAt \in Nat /\ End \in Nat
        /\ 5 <= HostAt /\ HostAt < PortAt /\ PortAt <= PathAt /\ PathAt <= QueryAt
        /\ QueryAt <= FragmentAt /\ FragmentAt <= End
        /\ s \in Seq(UrlChars) /\ Len(s) = End - 1
    BY PlacesInOrder
  <2> QED
    BY <2>1
<1>1. /\ Reach(s, HostAt, {":", "/", "?", "#"}) = PortAt
      /\ Reach(s, PortAt, {"/", "?", "#"}) = PathAt
      /\ parts.user # NoField => Reach(s, 5, {"@"}) = HostAt - 1
      /\ parts.user = NoField => Reach(s, 5, {"@"}) = End
  BY ScansOfComposed, NothingBehind
<1>2. /\ parts.user # NoField => CharAt(s, 5) = parts.user[1]
      /\ CharAt(s, PortAt) = ":" <=> parts.port # NoField
  BY DelimitersTell
<1>3. /\ parts.user = NoField => HostAt = 5
      /\ parts.user # NoField => HostAt > 6
      /\ parts.port # NoField => PathAt > PortAt + 1
  BY UserIsPlaced, PortIsPlaced, Zenon DEF UserPlaces, PortPlaces
<1>4. /\ parts.user # NoField => SubSeq(s, 5, (HostAt - 1) - 1) = parts.user
      /\ SubSeq(s, HostAt, PortAt - 1) = parts.host
      /\ parts.port # NoField => SubSeq(s, PortAt + 1, PathAt - 1) = parts.port
  BY PartsAreSlices
<1>5. /\ GetField(s, "userinfo") = GetAuthority(s, 5, "userinfo")
      /\ GetField(s, "host") = GetAuthority(s, 5, "host")
      /\ GetField(s, "port") = GetAuthority(s, 5, "port")
  BY AuthorityBegins DEF AuthorityFields
<1> HIDE DEF s
<1>6. /\ user_end = (IF parts.user # NoField THEN HostAt - 5 ELSE -1)
  BY <1>0, <1>1, <1>3 DEF ScanPast
<1>7. host = HostAt
  <2> HIDE DEF user_end
  <2> QED
    BY <1>0, <1>3, <1>6
<1>8. host_end = PortAt - HostAt
  <2> HIDE DEF host
  <2> QED
    BY <1>0, <1>1, <1>7 DEF Scan
<1>9. port = PortAt
  <2> HIDE DEF host, host_end
  <2> QED
    BY <1>0, <1>7, <1>8
<1>10. /\ GetAuthority(s, 5, "userinfo") =
            (IF user_end >= 0 /\ CharAt(s, 5) = "x" THEN Copy(s, 5, user_end - 1) ELSE NoField)
       /\ GetAuthority(s, 5, "host") = Copy(s, host, host_end)
       /\ GetAuthority(s, 5, "port") =
            (IF CharAt(s, port) = ":"
               THEN Copy(s, port + 1, Scan(s, port, {"/", "?", "#"}) - 1) ELSE NoField)
  BY DEF GetAuthority
<1> HIDE DEF user_end, host, host_end, port
<1>11. ASSUME parts.user = NoField \/ parts.user[1] = "x"
       PROVE  GetField(s, "userinfo") = parts.user
  <2>1. CASE parts.user = NoField
    <3>1. ~(user_end >= 0)
      BY <1>6, <2>1
    <3> QED
      BY <1>5, <1>10, <2>1, <3>1, Zenon
  <2>2. CASE parts.user # NoField
    <3> DEFINE q == HostAt - 1
    <3>1. /\ user_end >= 0 /\ user_end - 1 = q - 5
          /\ 5 \in Nat \ {0} /\ q \in Nat /\ 5 <= q /\ q <= Len(s) + 1
      BY <1>0, <1>3, <1>6, <2>2
    <3> HIDE DEF q
    <3>2. Copy(s, 5, q - 5) = SubSeq(s, 5, q - 1)
      BY <1>0, <3>1, CopyIs
    <3> QED
      BY <1>2, <1>4, <1>5, <1>10, <1>11, <2>2, <3>1, <3>2, Zenon DEF q
  <2> QED
    BY <2>1, <2>2
<1>12. GetField(s, "host") = parts.host
  <2>1. HostAt \in Nat \ {0} /\ HostAt <= PortAt /\ PortAt <= Len(s) + 1
    BY <1>0
  <2>2. Copy(s, HostAt, PortAt - HostAt) = SubSeq(s, HostAt, PortAt - 1)
    BY <1>0, <2>1, CopyIs
  <2> QED
    BY <1>4, <1>5, <1>7, <1>8, <1>10, <2>2, Zenon
<1>13. GetField(s, "port") = parts.port
  <2>1. CASE parts.port = NoField
    BY <1>2, <1>5, <1>9, <1>10, <2>1, Zenon
  <2>2. CASE parts.port # NoField
    <3> DEFINE p == PortAt + 1
    <3>1. /\ p \in Nat \ {0} /\ p <= PathAt /\ PathAt <= Len(s) + 1
          /\ Scan(s, PortAt, {"/", "?", "#"}) - 1 = PathAt - p
      BY <1>0, <1>1, <1>3, <2>2 DEF Scan
    <3> HIDE DEF p
    <3>2. Copy(s, p, PathAt - p) = SubSeq(s, p, PathAt - 1)
      BY <1>0, <3>1, CopyIs
    <3> QED
      BY <1>2, <1>4, <1>5, <1>9, <1>10, <2>2, <3>1, <3>2, Zenon DEF p
  <2> QED
    BY <2>1, <2>2
<1> QED
  BY <1>11, <1>12, <1>13, Zenon DEF s

\* The path: unless a slash behind is taken for the beginning of one not given.
LEMMA PathField ==
  ASSUME parts \in Parts, parts.path # <<>> \/ ~Behind("/")
  PROVE  GetField(Composed, "path") = PathOrRoot
<1> DEFINE s == Composed
           start == 5 + Scan(s, 5, {"/"})
<1>0. /\ PathAt \in Nat /\ QueryAt \in Nat /\ End \in Nat
      /\ 5 < PathAt /\ PathAt <= QueryAt /\ QueryAt <= End
      /\ s \in Seq(UrlChars) /\ Len(s) = End - 1
  <2>1. /\ HostAt \in Nat /\ PortAt \in Nat /\ PathAt \in Nat /\ QueryAt \in Nat
        /\ FragmentAt \in Nat /\ End \in Nat
        /\ 5 <= HostAt /\ HostAt < PortAt /\ PortAt <= PathAt /\ PathAt <= QueryAt
        /\ QueryAt <= FragmentAt /\ FragmentAt <= End
        /\ s \in Seq(UrlChars) /\ Len(s) = End - 1
    BY PlacesInOrder
  <2> QED
    BY <2>1
<1>1. /\ Reach(s, 3, {"x", "1", ":", "?", "#", "@"}) = 5
      /\ Reach(s, PathAt, {"?", "#"}) = QueryAt
      /\ parts.path # <<>> => Reach(s, 5, {"/"}) = PathAt
      /\ parts.path = <<>> => Reach(s, 5, {"/"}) = End
  BY ScansOfComposed, NothingBehind
<1>2. parts.path # <<>> => PathAt < QueryAt
  BY PathIsPlaced, Zenon DEF PathPlaces
<1>3. SubSeq(s, PathAt, QueryAt - 1) = parts.path
  BY PartsAreSlices
<1>4. GetField(s, "path") = GetHierPart(s, 3, "path")
  BY FieldsBegin DEF HierFields
<1> HIDE DEF s
<1>5. GetHierPart(s, 3, "path") = GetPath(s, start)
  BY <1>1 DEF GetHierPart, AuthorityFields
<1>6. start = IF parts.path # <<>> THEN PathAt ELSE End
  BY <1>0, <1>1 DEF Scan
<1> HIDE DEF start
<1>7. CASE parts.path # <<>>
  <2>1. Scan(s, PathAt, {"?", "#"}) = QueryAt - PathAt /\ QueryAt - PathAt > 0
    BY <1>0, <1>1, <1>2, <1>7 DEF Scan
  <2>2. GetPath(s, PathAt) = Copy(s, PathAt, QueryAt - PathAt)
    BY <2>1 DEF GetPath
  <2>3. Copy(s, PathAt, QueryAt - PathAt) = SubSeq(s, PathAt, QueryAt - 1)
    <3>1. PathAt \in Nat \ {0} /\ PathAt <= QueryAt /\ QueryAt <= Len(s) + 1
      BY <1>0
    <3> QED
      BY <1>0, <3>1, CopyIs
  <2> QED
    BY <1>3, <1>4, <1>5, <1>6, <1>7, <2>2, <2>3, Zenon DEF PathOrRoot, s
<1>8. CASE parts.path = <<>>
  <2>1. Reach(s, End, {"?", "#"}) = End
    <3>1. /\ End \in 1..Len(s) + 1 /\ End \in End..Len(s) + 1 /\ End = Len(s) + 1
          /\ \A r \in End..End - 1 : FALSE
      BY <1>0
    <3>2. {"?", "#"} \in SUBSET UrlChars
      BY DEF UrlChars
    <3> QED
      BY <1>0, <3>1, <3>2, ReachIs
  <2>2. GetPath(s, End) = <<"/">>
    BY <2>1 DEF GetPath, Scan
  <2> QED
    BY <1>4, <1>5, <1>6, <1>8, <2>2, Zenon DEF PathOrRoot, s
<1> QED
  BY <1>7, <1>8

\* Every field of every URL is the part it was put together from, under the same
\* three exceptions, whatever the words, paths and tails are.
THEOREM FieldsAreTheParts == parts \in Parts => FieldsAreParts
<1> SUFFICES ASSUME parts \in Parts, NEW field \in UrlFields
             PROVE  \/ GetField(Composed, field) = Expected(field)
                    \/ /\ field \in AuthorityFields \ {"authority"}
                       /\ parts.user = NoField /\ Behind("@")
                    \/ field = "path" /\ parts.path = <<>> /\ Behind("/")
                    \/ field = "userinfo" /\ parts.user # NoField /\ parts.user[1] # "x"
  BY Zenon DEF FieldsAreParts
<1>1. /\ Expected("scheme") = <<"x">> /\ Expected("authority") = Authority
      /\ Expected("userinfo") = parts.user /\ Expected("host") = parts.host
      /\ Expected("port") = parts.port
      /\ Expected("hier_part") = <<"/", "/">> \o Authority \o parts.path
      /\ Expected("path") = PathOrRoot /\ Expected("query") = parts.query
      /\ Expected("absolute") = Absolute /\ Expected("fragment") = parts.fragment
  BY DEF Expected
<1>2. \/ field \in {"scheme", "hier_part", "query", "absolute", "fragment", "authority"}
      \/ field = "path" \/ field \in {"userinfo", "host", "port"}
  BY DEF UrlFields, HierFields, AuthorityFields
<1>3. CASE field \in {"scheme", "hier_part", "query", "absolute", "fragment", "authority"}
  <2>1. \/ field = "scheme" \/ field = "hier_part" \/ field = "query" \/ field = "absolute"
        \/ field = "fragment" \/ field = "authority"
    BY <1>3
  <2> QED
    BY <1>1, <2>1, OuterFields, AuthorityField, Zenon
<1>4. CASE field = "path"
  BY <1>1, <1>4, PathField, Zenon
<1>5. CASE field \in {"userinfo", "host", "port"}
  <2>1. field = "userinfo" \/ field = "host" \/ field = "port"
    BY <1>5
  <2>2. field \in AuthorityFields \ {"authority"}
    BY <1>5 DEF AuthorityFields
  <2> QED
    BY <1>1, <2>1, <2>2, InnerFields, Zenon
<1> QED
  BY <1>2, <1>3, <1>4, <1>5

\* Where Url::Parse finds the beginning, the end and the colon of an authority.
LEMMA ParserBegins ==
  ASSUME parts \in Parts
  PROVE  2 \in Separators(Composed) /\ \A q \in Separators(Composed) : 2 <= q
<1> DEFINE s == Composed
<1>1. s \in Seq(UrlChars) /\ Len(s) \in Nat /\ Len(s) >= 5
  <2>1. /\ HostAt \in Nat /\ PortAt \in Nat /\ PathAt \in Nat /\ QueryAt \in Nat
        /\ FragmentAt \in Nat /\ End \in Nat
        /\ 5 <= HostAt /\ HostAt < PortAt /\ PortAt <= PathAt /\ PathAt <= QueryAt
        /\ QueryAt <= FragmentAt /\ FragmentAt <= End
        /\ s \in Seq(UrlChars) /\ Len(s) = End - 1
    BY PlacesInOrder
  <2> QED
    BY <2>1
<1>2. s[1] = "x" /\ s[2] = ":" /\ s[3] = "/" /\ s[4] = "/"
  BY BytesOfComposed
<1> HIDE DEF s
<1>3. 2 \in Separators(s)
  <2> DEFINE w == <<":", "/", "/">>
  <2>1. w \in Seq(UrlChars) /\ Len(w) = 3 /\ w[1] = ":" /\ w[2] = "/" /\ w[3] = "/"
    BY DEF UrlChars
  <2>2. \A i \in 1..3 : i = 1 \/ i = 2 \/ i = 3
    OBVIOUS
  <2> HIDE DEF w
  <2>3. /\ 2 \in Nat \ {0} /\ 5 \in Nat /\ 5 = 2 + Len(w) /\ 5 <= Len(s) + 1 /\ 2 \in 1..Len(s) - 2
        /\ \A i \in 1..Len(w) : s[2 - 1 + i] = w[i]
    BY <1>1, <1>2, <2>1, <2>2
  <2>4. SubSeq(s, 2, 5 - 1) = w
    BY <1>1, <2>1, <2>3, SliceIs
  <2>5. 5 - 1 = 2 + 2
    OBVIOUS
  <2> QED
    BY <2>3, <2>4, <2>5 DEF Separators, w
<1>4. ASSUME NEW q \in Separators(s) PROVE 2 <= q
  <2>1. q \in 1..Len(s) - 2 /\ SubSeq(s, q, q + 2) = <<":", "/", "/">>
    BY DEF Separators
  <2>2. q # 1
    <3> SUFFICES ASSUME q = 1 PROVE FALSE
      OBVIOUS
    <3> DEFINE w == <<":", "/", "/">>
    <3>0. w[1] = ":"
      OBVIOUS
    <3> HIDE DEF w
    <3>1. SubSeq(s, 1, 3)[1] = ":"
      <4>1. q + 2 = 3
        OBVIOUS
      <4>2. SubSeq(s, 1, 3) = w
        BY <2>1, <4>1, Zenon DEF w
      <4> QED
        BY <3>0, <4>2, Zenon
    <3>2. \A i \in 1..3 : s[i] \in UrlChars
      BY <1>1
    <3>3. SubSeq(s, 1, 3)[1] = s[1 + 1 - 1]
      BY <3>2, SubSeqProperties
    <3> QED
      BY <1>2, <3>1, <3>3
  <2> QED
    BY <1>1, <2>1, <2>2
<1> QED
  BY <1>3, <1>4 DEF s

\* What Url::Parse makes of a URL without user, query and fragment.
LEMMA ParserMakes ==
  ASSUME parts \in Parts, parts.user = NoField, parts.query = NoField, parts.fragment = NoField
  PROVE  Parse(Composed) = [host |-> parts.host,
                            port |-> IF parts.port = NoField THEN <<>> ELSE parts.port,
                            path |-> PathOrRoot]
<1> DEFINE s == Composed
           begin == 3 + CHOOSE p \in Separators(s) : \A q \in Separators(s) : p <= q
           end == Reach(s, begin, {"/"})
           LastColon(p) == CharAt(s, p) = ":" /\ \A q \in p + 1..end : CharAt(s, q) # ":"
           colon == CHOOSE p \in 1..end : LastColon(p)
           no_port == colon <= begin
           host == SubSeq(s, begin, (IF no_port THEN end ELSE colon) - 1)
           port == IF no_port THEN <<>> ELSE SubSeq(s, colon + 1, end - 1)
           path == IF end > Len(s) THEN <<"/">> ELSE SubSeq(s, end, Len(s))
<1>0. /\ HostAt \in Nat /\ PortAt \in Nat /\ PathAt \in Nat /\ End \in Nat
      /\ 5 = HostAt /\ HostAt < PortAt /\ PortAt <= PathAt /\ PathAt <= End
      /\ QueryAt = End /\ s \in Seq(UrlChars) /\ Len(s) = End - 1
  <2>1. /\ HostAt \in Nat /\ PortAt \in Nat /\ PathAt \in Nat /\ QueryAt \in Nat
        /\ FragmentAt \in Nat /\ End \in Nat
        /\ 5 <= HostAt /\ HostAt < PortAt /\ PortAt <= PathAt /\ PathAt <= QueryAt
        /\ QueryAt <= FragmentAt /\ FragmentAt <= End
        /\ s \in Seq(UrlChars) /\ Len(s) = End - 1
    BY PlacesInOrder
  <2>2. HostAt = 5 /\ FragmentAt = QueryAt /\ End = FragmentAt
    BY UserIsPlaced, QueryIsPlaced, FragmentIsPlaced, Zenon
    DEF UserPlaces, QueryPlaces, FragmentPlaces
  <2> QED
    BY <2>1, <2>2
<1>1. /\ s[1] = "x" /\ s[2] = ":" /\ s[3] = "/" /\ s[4] = "/"
      /\ \A i \in HostAt..PortAt - 1 : s[i] \in {"x", "1"}
      /\ \A i \in PortAt + 1..PathAt - 1 : s[i] \in {"x", "1"}
      /\ PathAt = QueryAt \/ s[PathAt] = "/"
  BY BytesOfComposed, PortIsPlaced DEF PortPlaces
<1>2. /\ parts.port = NoField => PathAt = PortAt
      /\ parts.port # NoField => PathAt > PortAt + 1 /\ s[PortAt] = ":"
      /\ parts.path = <<>> => QueryAt = PathAt
      /\ parts.path # <<>> => QueryAt > PathAt
  BY PortIsPlaced, PathIsPlaced, Zenon DEF PortPlaces, PathPlaces
<1>3. /\ SubSeq(s, HostAt, PortAt - 1) = parts.host
      /\ parts.port # NoField => SubSeq(s, PortAt + 1, PathAt - 1) = parts.port
      /\ SubSeq(s, PathAt, QueryAt - 1) = parts.path
  BY PartsAreSlices
<1>4. parts.host # <<>> /\ (parts.port # NoField => parts.port # <<>>)
  BY UrlAssumption DEF Parts
<1>5. Reach(s, 5, {"/"}) = PathAt
  <2>1. CASE parts.path # <<>>
    BY <2>1, ScansOfComposed
  <2>2. CASE parts.path = <<>>
    <3>1. ~Behind("/")
      <4>1. \A i \in DOMAIN <<>> : FALSE
        OBVIOUS
      <4>2. \A i \in DOMAIN NoField : NoField[i] # "/"
        BY DEF NoField
      <4> QED
        BY <2>2, <4>1, <4>2, Zenon DEF Behind, Has
    <3> QED
      BY <1>0, <1>2, <2>2, <3>1, NothingBehind
  <2> QED
    BY <2>1, <2>2
<1>6. 2 \in Separators(s) /\ \A q \in Separators(s) : 2 <= q
  BY ParserBegins
<1> HIDE DEF s
<1>7. begin = 5 /\ Separators(s) # {}
  <2>1. \A p \in Separators(s) : (\A q \in Separators(s) : p <= q) => p = 2
    <3>1. Separators(s) \subseteq Int
      BY <1>0 DEF Separators
    <3> QED
      BY <1>6, <3>1
  <2> QED
    BY <1>6, <2>1
<1>8. end = PathAt
  BY <1>5, <1>7
<1> HIDE DEF begin, end
<1>9. colon = IF parts.port = NoField THEN 2 ELSE PortAt
  <2>1. CharAt(s, PathAt) # ":"
    BY <1>0, <1>1 DEF CharAt
  <2>2. ASSUME NEW i \in 3..PathAt, i # PortAt \/ parts.port = NoField PROVE CharAt(s, i) # ":"
    <3>1. CASE i = PathAt
      BY <2>1, <3>1
    <3>2. CASE i # PathAt
      <4>1. i = 3 \/ i = 4 \/ i \in HostAt..PortAt - 1 \/ i \in PortAt + 1..PathAt - 1
        BY <1>0, <1>2, <2>2, <3>2
      <4>2. s[i] # ":"
        BY <1>1, <4>1
      <4> QED
        BY <1>0, <3>2, <4>2 DEF CharAt
    <3> QED
      BY <3>1, <3>2
  <2>3. CharAt(s, 2) = ":"
    BY <1>0, <1>1 DEF CharAt
  <2>4. CASE parts.port = NoField
    <3>1. 2 \in 1..end /\ LastColon(2)
      BY <1>0, <1>8, <2>2, <2>3, <2>4
    <3>2. ASSUME NEW p \in 1..end, LastColon(p) PROVE p = 2
      <4>1. p \notin 3..PathAt
        BY <2>2, <2>4, <3>2
      <4>2. p # 1
        <5>1. 2 \in 1 + 1..end
          BY <1>0, <1>8
        <5> QED
          BY <2>3, <3>2, <5>1
      <4> QED
        BY <1>0, <1>8, <4>1, <4>2
    <3> HIDE DEF LastColon
    <3> QED
      BY <2>4, <3>1, <3>2
  <2>5. CASE parts.port # NoField
    <3>0. CharAt(s, PortAt) = ":"
      BY <1>0, <1>2, <2>5 DEF CharAt
    <3>1. PortAt \in 1..end /\ LastColon(PortAt)
      <4>1. PortAt \in 1..end
        BY <1>0, <1>8
      <4>2. \A q \in PortAt + 1..end : q \in 3..PathAt /\ q # PortAt
        BY <1>0, <1>8
      <4> QED
        BY <2>2, <3>0, <4>1, <4>2
    <3>2. ASSUME NEW p \in 1..end, LastColon(p) PROVE p = PortAt
      <4>1. p \notin PortAt + 1..PathAt
        <5> SUFFICES ASSUME p \in PortAt + 1..PathAt PROVE FALSE
          OBVIOUS
        <5>1. p \in 3..PathAt /\ p # PortAt
          BY <1>0
        <5> QED
          BY <2>2, <3>2, <5>1
      <4>2. ~(p < PortAt)
        <5> SUFFICES ASSUME p < PortAt PROVE FALSE
          OBVIOUS
        <5>1. PortAt \in p + 1..end
          BY <1>0, <1>8
        <5> QED
          BY <3>0, <3>2, <5>1
      <4> QED
        BY <1>0, <1>8, <4>1, <4>2
    <3> HIDE DEF LastColon
    <3> QED
      BY <2>5, <3>1, <3>2
  <2> QED
    BY <2>4, <2>5
<1> HIDE DEF colon
<1>10. no_port <=> parts.port = NoField
  BY <1>0, <1>7, <1>9
<1>11. Parse(s) = IF \/ Separators(s) = {}
                     \/ no_port /\ host = <<>>
                     \/ ~no_port /\ port = <<>>
                    THEN Thrown
                    ELSE [host |-> host, port |-> port, path |-> path]
  BY Zenon DEF Parse, begin, end, colon
<1> HIDE DEF no_port
<1>12. host = parts.host
  <2>1. (IF no_port THEN end ELSE colon) = PortAt
    BY <1>2, <1>8, <1>9, <1>10
  <2> QED
    BY <1>0, <1>3, <1>7, <2>1
<1>13. port = IF parts.port = NoField THEN <<>> ELSE parts.port
  BY <1>3, <1>8, <1>9, <1>10
<1>14. path = PathOrRoot
  <2>1. CASE parts.path = <<>>
    BY <1>0, <1>2, <1>8, <2>1 DEF PathOrRoot
  <2>2. CASE parts.path # <<>>
    <3>1. ~(end > Len(s)) /\ Len(s) = QueryAt - 1
      BY <1>0, <1>2, <1>8, <2>2
    <3> QED
      BY <1>3, <1>8, <2>2, <3>1 DEF PathOrRoot
  <2> QED
    BY <2>1, <2>2
<1> HIDE DEF host, port, path
<1> QED
  BY <1>4, <1>7, <1>10, <1>11, <1>12, <1>13, <1>14, Zenon DEF s

\* The client makes the same parts of such a URL as the server, whatever they are.
THEOREM ParsersDoAgree == parts \in Parts => ParsersAgree
<1> SUFFICES ASSUME parts \in Parts, parts.user = NoField, parts.query = NoField,
                    parts.fragment = NoField
             PROVE  LET parsed == Parse(Composed)
                    IN  /\ parsed.host = parts.host
                        /\ parsed.port = (IF parts.port = NoField THEN <<>> ELSE parts.port)
                        /\ parsed.path = PathOrRoot
                        /\ ~Has(parts.path, "@") => \A field \in {"host", "path"} :
                                                      GetField(Composed, field) = parsed[field]
  BY Zenon DEF ParsersAgree
<1> DEFINE parsed == Parse(Composed)
           port == IF parts.port = NoField THEN <<>> ELSE parts.port
<1>1. parsed = [host |-> parts.host, port |-> port, path |-> PathOrRoot]
  BY ParserMakes, Zenon
<1> HIDE DEF parsed, port
<1>2. /\ parsed.host = parts.host /\ parsed.port = port /\ parsed.path = PathOrRoot
      /\ parsed["host"] = parts.host /\ parsed["path"] = PathOrRoot
  BY <1>1
<1>3. \A char \in UrlChars : ~Has(NoField, char)
  BY DEF Has, NoField, UrlChars
<1>4. ~Has(parts.path, "@") => GetField(Composed, "host") = parts.host
  <2>1. ~Has(parts.path, "@") => ~Behind("@")
    BY <1>3, Zenon DEF Behind, UrlChars
  <2> QED
    BY <2>1, InnerFields
<1>5. GetField(Composed, "path") = PathOrRoot
  <2>1. parts.path = <<>> => ~Behind("/")
    <3>1. ~Has(<<>>, "/")
      BY DEF Has
    <3> QED
      BY <1>3, <3>1, Zenon DEF Behind, UrlChars
  <2> QED
    BY <2>1, PathField
<1>6. ~Has(parts.path, "@") =>
        \A field \in {"host", "path"} : GetField(Composed, field) = parsed[field]
  <2>1. \A field \in {"host", "path"} : field = "host" \/ field = "path"
    OBVIOUS
  <2> QED
    BY <1>2, <1>4, <1>5, <2>1, Zenon
<1> QED
  BY <1>2, <1>6, Zenon DEF parsed, port
==============================================================================
