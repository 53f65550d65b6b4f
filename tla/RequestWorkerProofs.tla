------------------------- MODULE RequestWorkerProofs -------------------------
(***************************************************************************)
(* Proofs about RequestWorker, for bodies and files of any length: the     *)
(* exchange it carries out with its client is one Exchange allows; what it *)
(* says, sends and gives back.  At the end, about Query, whose client such *)
(* a worker serves.                                                        *)
(***************************************************************************)
EXTENDS Query, TLAPS

\* Nothing is said before the request is read.
LEMMA InitSayInv == Init => SayInv
BY DEF Init, SayInv

\* No step of the worker, its client or the DNS server breaks the invariant.
LEMMA NextSayInv == SayInv /\ [Next]_vars => SayInv'
<1> SUFFICES ASSUME SayInv, [Next]_vars
             PROVE  SayInv'
  OBVIOUS
<1> USE DEF SayInv, Quiet, descriptors, Afterwards
<1>1. CASE ReadRequest
  BY <1>1 DEF ReadRequest
<1>2. CASE HandleRefused
  BY <1>2 DEF HandleRefused
<1>3. CASE HandleGet
  BY <1>3 DEF HandleGet
<1>4. CASE SendFileHeader
  BY <1>4 DEF SendFileHeader
<1>5. CASE SendContent
  BY <1>5 DEF SendContent
<1>6. CASE SendDirectory
  BY <1>6 DEF SendDirectory
<1>7. CASE HandlePut
  <2>1. replies' \in {<<>>, <<100>>}
    BY <1>7 DEF HandlePut, Write
  <2> QED
    BY <1>7, <2>1 DEF HandlePut
<1>8. CASE CreateFile
  BY <1>8 DEF CreateFile
<1>9. CASE WriteLead
  BY <1>9 DEF WriteLead
<1>10. CASE ReadBody
  BY <1>10 DEF ReadBody
<1>11. CASE ConfirmPut
  BY <1>11 DEF ConfirmPut
<1>12. CASE HandlePost
  BY <1>12 DEF HandlePost
<1>13. CASE SelectAnswer
  BY <1>13 DEF SelectAnswer
<1>14. CASE ReceiveAnswer
  BY <1>14 DEF ReceiveAnswer
<1>15. CASE SendLine \/ CloseFile \/ CloseDns \/ CloseClient
  BY <1>15 DEF SendLine, CloseFile, CloseDns, CloseClient
<1>16. CASE Interrupt
  BY <1>16 DEF Interrupt
<1>17. CASE ClientSends \/ ClientTurns \/ FileShrinks \/ SpinEnds
  BY <1>17 DEF ClientSends, ClientTurns, FileShrinks, SpinEnds, OnlyClient
<1>18. CASE DnsAnswers
  BY <1>18 DEF DnsAnswers
<1>19. CASE UNCHANGED vars
  BY <1>19 DEF vars
<1> QED
  BY <1>1, <1>2, <1>3, <1>4, <1>5, <1>6, <1>7, <1>8, <1>9, <1>10, <1>11,
     <1>12, <1>13, <1>14, <1>15, <1>16, <1>17, <1>18, <1>19
     DEF Next, WorkerStep, Outside

\* What has been said agrees with where the worker stands.
THEOREM SayInvariant == Spec => []SayInv
BY InitSayInv, NextSayInv, PTL DEF Spec

(***************************************************************************)
(* Types                                                                   *)
(***************************************************************************)

\* A write leaves the connection in a state it can be in.
LEMMA SendType ==
  ASSUME TypeOK, Send
  PROVE  peer' \in {"open", "stalled", "closed", "reset"} /\ lost' \in BOOLEAN
<1>1. CASE peer = "reset"
  BY <1>1 DEF TypeOK, Send
<1>2. CASE peer # "reset"
  <2>1. peer' \in {"open", "stalled", "closed", "reset"}
    BY <1>2, Zenon DEF TypeOK, Send
  <2>2. lost' \in BOOLEAN
    BY <1>2, Zenon DEF TypeOK, Send
  <2> QED
    BY <2>1, <2>2
<1> QED
  BY <1>1, <1>2

\* A reply is one of those the server has.
LEMMA WriteType ==
  ASSUME TypeOK, NEW code \in Finals \cup {100}, Write(code)
  PROVE  /\ replies' \in Seq(Finals \cup {100})
         /\ peer' \in {"open", "stalled", "closed", "reset"}
         /\ lost' \in BOOLEAN
<1>1. replies' \in Seq(Finals \cup {100})
  BY DEF TypeOK, Write
<1> QED
  BY <1>1, SendType DEF Write

\* Saying nothing does, too.
LEMMA QuietType ==
  ASSUME TypeOK, Quiet
  PROVE  /\ replies' \in Seq(Finals \cup {100})
         /\ peer' \in {"open", "stalled", "closed", "reset"}
         /\ lost' \in BOOLEAN
BY DEF TypeOK, Quiet

\* What is noted is a fault.
LEMMA NoteType ==
  ASSUME TypeOK, NEW what \in Faults, Note(what)
  PROVE  fault' \in Faults
BY DEF TypeOK, Note

\* No step leaves the types: above all, the counters stay in their bounds.
LEMMA NextTypeOK == TypeOK /\ [Next]_vars => TypeOK'
<1> SUFFICES ASSUME TypeOK, [Next]_vars
             PROVE  TypeOK'
  OBVIOUS
<1> USE SendType, WriteType, QuietType, NoteType, WorkerAssumption DEF descriptors
<1>a. {100, 200, 201, 400, 403, 404, 405, 503} = Finals \cup {100}
  BY DEF Finals
<1>b. {"none", "read", "empty", "body", "notfound", "create", "directory", "disk",
       "memory", "socket", "interrupt", "timeout"} = Faults
  BY DEF Faults
<1>1. CASE ReadRequest
  BY <1>a, <1>b, <1>1 DEF ReadRequest, TypeOK, Points
<1>2. CASE HandleRefused
  BY <1>a, <1>2 DEF HandleRefused, TypeOK, Points
<1>3. CASE HandleGet
  BY <1>a, <1>b, <1>3 DEF HandleGet, TypeOK, Points
<1>4. CASE SendFileHeader
  BY <1>a, <1>4 DEF SendFileHeader, TypeOK, Points
<1>5. CASE SendContent
  <2>1. left' \in 0..MaxChunks /\ wpc' \in Points
    BY <1>5 DEF SendContent, TypeOK, Points
  <2>2. peer' \in {"open", "stalled", "closed", "reset"}
    BY <1>5 DEF SendContent
  <2>3. replies' \in Seq(Finals \cup {100}) /\ lost' \in BOOLEAN
    BY <1>5 DEF SendContent, Quiet, TypeOK
  <2>4. fault' \in Faults
    BY <1>b, <1>5 DEF SendContent, TypeOK
  <2> QED
    BY <1>5, <2>1, <2>2, <2>3, <2>4 DEF SendContent, TypeOK
<1>6. CASE SendDirectory
  BY <1>a, <1>b, <1>6 DEF SendDirectory, TypeOK, Points
<1>7. CASE HandlePut
  BY <1>a, <1>7 DEF HandlePut, TypeOK, Points
<1>8. CASE CreateFile
  BY <1>b, <1>8 DEF CreateFile, TypeOK, Points
<1>9. CASE WriteLead
  BY <1>a, <1>b, <1>9 DEF WriteLead, TypeOK, Points
<1>10. CASE ReadBody
  BY <1>a, <1>b, <1>10 DEF ReadBody, TypeOK, Points
<1>11. CASE ConfirmPut
  BY <1>a, <1>11 DEF ConfirmPut, TypeOK, Points
<1>12. CASE HandlePost
  BY <1>a, <1>b, <1>12 DEF HandlePost, TypeOK, Points
<1>13. CASE SelectAnswer
  BY <1>a, <1>b, <1>13 DEF SelectAnswer, TypeOK, Points
<1>14. CASE ReceiveAnswer
  BY <1>a, <1>14 DEF ReceiveAnswer, TypeOK, Points
<1>15. CASE CloseFile \/ CloseDns \/ CloseClient
  BY <1>15 DEF CloseFile, CloseDns, CloseClient, TypeOK, Points
<1>20. CASE SendLine
  <2>1. left' \in 0..MaxChunks /\ wpc' \in Points
    BY <1>20 DEF SendLine, TypeOK, Points
  <2>2. replies' \in Seq(Finals \cup {100}) /\ lost' \in BOOLEAN
    BY <1>20 DEF SendLine, Quiet, TypeOK
  <2>3. peer' \in {"open", "stalled", "closed", "reset"}
    BY <1>20 DEF SendLine, Quiet, TypeOK
  <2> QED
    BY <1>20, <2>1, <2>2, <2>3 DEF SendLine, TypeOK
<1>16. CASE Interrupt
  BY <1>a, <1>b, <1>16 DEF Interrupt, TypeOK, Points
<1>17. CASE ClientSends \/ ClientTurns
  BY <1>17 DEF ClientSends, ClientTurns, OnlyClient, TypeOK
<1>21. CASE FileShrinks \/ SpinEnds
  BY <1>b, <1>21 DEF FileShrinks, SpinEnds, TypeOK, Points
<1>18. CASE DnsAnswers
  BY <1>18 DEF DnsAnswers, connection, TypeOK
<1>19. CASE UNCHANGED vars
  BY <1>19 DEF vars, connection, TypeOK
<1> QED
  BY <1>1, <1>2, <1>3, <1>4, <1>5, <1>6, <1>7, <1>8, <1>9, <1>10, <1>11,
     <1>12, <1>13, <1>14, <1>15, <1>16, <1>17, <1>18, <1>19, <1>20, <1>21
     DEF Next, WorkerStep, Outside

\* A worker's variables keep their types, its counters their bounds, for bodies and
\* files of any length.
THEOREM WorkerTypeOK == Spec => []TypeOK
<1>1. Init => TypeOK
  <2>1. <<>> \in Seq(Finals \cup {100}) /\ 0 \in 0..MaxChunks /\ 0 \in 0..MaxChunks + 1
    BY WorkerAssumption
  <2> QED
    BY <2>1 DEF Init, TypeOK, Points, Faults
<1> QED
  BY <1>1, NextTypeOK, PTL DEF Spec

(***************************************************************************)
(* The worker implements Exchange.                                         *)
(***************************************************************************)

\* The initial states of a worker are initial states of an exchange.
LEMMA InitRefines == Init => Promise!Init
BY DEF Init, Promise!Init

\* A step that says nothing and leaves the connection open is a stutter.
LEMMA QuietStep ==
  ASSUME UNCHANGED <<request, replies, client_fd>>
  PROVE  [Promise!Next]_(Promise!exchangeVars)
BY DEF Promise!exchangeVars

\* A final reply, written or lost, is a step of the exchange, or a stutter.
LEMMA WriteStep ==
  ASSUME SayInv, NEW code \in Finals, Write(code),
         wpc \notin Afterwards,
         UNCHANGED <<request, client_fd>>
  PROVE  [Promise!Next]_(Promise!exchangeVars)
<1>1. CASE peer = "reset"
  BY <1>1, QuietStep DEF Write
<1>2. CASE peer # "reset"
  <2>1. /\ client_fd = "open"
        /\ replies \in {<<>>, <<100>>}
        /\ replies' = Append(replies, code)
    BY <1>2 DEF Write, SayInv, Afterwards
  <2>2. Promise!Finish(code)
    BY <2>1 DEF Promise!Finish
  <2> QED
    BY <2>2 DEF Promise!Next
<1> QED
  BY <1>1, <1>2

\* Every step of the worker is a step of the exchange, or a stutter.
LEMMA NextRefines ==
  ASSUME SayInv, [Next]_vars
  PROVE  [Promise!Next]_(Promise!exchangeVars)
<1> USE DEF Quiet, descriptors, Afterwards
<1>1. {200, 201, 400, 403, 404, 405, 503} = Finals
  BY DEF Finals
<1>2. CASE ReadRequest
  BY <1>1, <1>2, WriteStep, QuietStep DEF ReadRequest
<1>3. CASE HandleRefused
  BY <1>1, <1>3, WriteStep DEF HandleRefused
<1>4. CASE HandleGet
  BY <1>1, <1>4, WriteStep, QuietStep DEF HandleGet
<1>5. CASE SendFileHeader
  BY <1>1, <1>5, WriteStep DEF SendFileHeader
<1>6. CASE SendContent
  BY <1>6, QuietStep DEF SendContent
<1>7. CASE SendDirectory
  BY <1>1, <1>7, WriteStep DEF SendDirectory
<1>8. CASE HandlePut
  <2>1. CASE request = "put" \/ peer = "reset"
    BY <1>8, <2>1, QuietStep DEF HandlePut, Write
  <2>2. CASE request = "put_expect" /\ peer # "reset"
    <3>1. /\ client_fd = "open"
          /\ replies = <<>>
          /\ replies' = <<100>>
          /\ UNCHANGED <<request, client_fd>>
      BY <1>8, <2>2 DEF HandlePut, Write, SayInv
    <3>2. Promise!Continue
      BY <2>2, <3>1 DEF Promise!Continue
    <3> QED
      BY <3>2 DEF Promise!Next
  <2> QED
    BY <1>8, <2>1, <2>2 DEF HandlePut
<1>9. CASE CreateFile
  BY <1>9, QuietStep DEF CreateFile
<1>10. CASE WriteLead
  BY <1>1, <1>10, WriteStep, QuietStep DEF WriteLead
<1>11. CASE ReadBody
  BY <1>1, <1>11, WriteStep, QuietStep DEF ReadBody
<1>12. CASE ConfirmPut
  BY <1>1, <1>12, WriteStep DEF ConfirmPut
<1>13. CASE HandlePost
  BY <1>1, <1>13, WriteStep, QuietStep DEF HandlePost
<1>14. CASE SelectAnswer
  BY <1>1, <1>14, WriteStep, QuietStep DEF SelectAnswer
<1>15. CASE ReceiveAnswer
  BY <1>1, <1>15, WriteStep DEF ReceiveAnswer
<1>16. CASE CloseClient
  <2>1. client_fd = "open" /\ client_fd' = "closed" /\ UNCHANGED <<request, replies>>
    BY <1>16 DEF CloseClient, SayInv
  <2>2. Promise!HangUp
    BY <2>1 DEF Promise!HangUp
  <2> QED
    BY <2>2 DEF Promise!Next
<1>17. CASE Interrupt
  BY <1>1, <1>17, WriteStep, QuietStep DEF Interrupt
<1>18. CASE ClientSends \/ ClientTurns \/ FileShrinks \/ SpinEnds
  BY <1>18, QuietStep DEF ClientSends, ClientTurns, FileShrinks, SpinEnds, OnlyClient
<1>19. CASE DnsAnswers
  BY <1>19, QuietStep DEF DnsAnswers, connection
<1>21. CASE SendLine \/ CloseFile \/ CloseDns
  BY <1>21, QuietStep DEF SendLine, CloseFile, CloseDns
<1>20. CASE UNCHANGED vars
  BY <1>20, QuietStep DEF vars, connection
<1> QED
  BY <1>2, <1>3, <1>4, <1>5, <1>6, <1>7, <1>8, <1>9, <1>10, <1>11, <1>12,
     <1>13, <1>14, <1>15, <1>16, <1>17, <1>18, <1>19, <1>20, <1>21
     DEF Next, WorkerStep, Outside

\* A worker sends at most one final reply, at most one 100 Continue before it to
\* a client that asked for one, and nothing after it has closed the connection.
THEOREM WorkerImplementsExchange == Spec => ImplementsExchange
<1>1. SayInv /\ [Next]_vars => [Promise!Next]_(Promise!exchangeVars)
  BY NextRefines
<1> QED
  BY InitRefines, SayInvariant, <1>1, PTL
     DEF Spec, ImplementsExchange, Promise!Spec

(***************************************************************************)
(* What a worker says, does and gives back                                 *)
(***************************************************************************)

\* What the place of the worker tells: nothing has gone wrong before the handler is
\* left, but for a select that was interrupted; which request it serves; what it has
\* open; and that nothing is left to move before the length is known.
PlaceInv ==
  /\ wpc \in {"read", "handle", "header", "content", "spin", "list", "create", "lead",
             "body", "select"} => fault = "none"
  /\ wpc \in {"receive", "lines"} => fault \in {"none", "interrupt"}
  /\ wpc \in {"create", "lead", "body"} => request \in {"put", "put_expect"}
  /\ wpc \in {"header", "content", "spin", "list"} => request = "get"
  /\ wpc = "close_file" => request \in {"get", "put", "put_expect"}
  /\ wpc \in {"select", "receive", "lines", "close_dns"} =>
       request = "dns" /\ local_file = "none"
  /\ wpc \in {"read", "handle", "create"} => local_file = "none"
  /\ wpc \in {"header", "content", "spin", "list", "lead", "body"} => local_file = "open"
  /\ wpc \notin {"select", "receive", "lines", "close_dns"} => dns_socket # "open"
  /\ wpc \in {"read", "handle", "header", "list", "create", "select", "receive"} => left = 0

\* No step takes the worker to a place that tells something else.
LEMMA NextPlaceInv == PlaceInv /\ [Next]_vars => PlaceInv'
<1> SUFFICES ASSUME PlaceInv, [Next]_vars
             PROVE  PlaceInv'
  OBVIOUS
<1> USE DEF PlaceInv, descriptors
<1>1. CASE ReadRequest \/ HandleRefused
  BY <1>1 DEF ReadRequest, HandleRefused
<1>2. CASE HandleGet \/ SendFileHeader \/ SendContent \/ SendDirectory
  BY <1>2 DEF HandleGet, SendFileHeader, SendContent, SendDirectory
<1>3. CASE HandlePut \/ CreateFile \/ WriteLead \/ ReadBody \/ ConfirmPut
  BY <1>3 DEF HandlePut, CreateFile, WriteLead, ReadBody, ConfirmPut
<1>4. CASE HandlePost \/ SelectAnswer \/ ReceiveAnswer \/ SendLine
  BY <1>4 DEF HandlePost, SelectAnswer, ReceiveAnswer, SendLine, Note
<1>5. CASE CloseFile \/ CloseDns \/ CloseClient \/ Interrupt
  BY <1>5 DEF CloseFile, CloseDns, CloseClient, Interrupt
<1>6. CASE ClientSends \/ ClientTurns \/ DnsAnswers
  BY <1>6 DEF ClientSends, ClientTurns, DnsAnswers, OnlyClient, connection
<1>7. CASE FileShrinks \/ SpinEnds
  BY <1>7 DEF FileShrinks, SpinEnds
<1>8. CASE UNCHANGED vars
  BY <1>8 DEF vars, connection
<1> QED
  BY <1>1, <1>2, <1>3, <1>4, <1>5, <1>6, <1>7, <1>8 DEF Next, WorkerStep, Outside

\* It holds in every reachable state.
LEMMA PlaceInvariant == Spec => []PlaceInv
<1>1. Init => PlaceInv
  BY DEF Init, PlaceInv
<1> QED
  BY <1>1, NextPlaceInv, PTL DEF Spec

\* A worker that has left its handler has no file open any more, and a directory is
\* lost only when it could not be listed; the DNS socket is PlaceInv's.
GivenBackInv ==
  /\ wpc \in {"close", "done", "close_dns"} => local_file # "open"
  /\ local_file = "leaked" => fault = "directory"

\* No way out of a handler goes past its own close.
LEMMA NextGivenBackInv ==
  ASSUME PlaceInv, GivenBackInv, [Next]_vars
  PROVE  GivenBackInv'
<1> USE DEF descriptors, GivenBackInv
<1>1. CASE SendDirectory
  BY <1>1 DEF SendDirectory, Note, PlaceInv
<1>2. CASE CloseFile \/ CloseDns \/ CloseClient
  BY <1>2 DEF CloseFile, CloseDns, CloseClient
<1>3. CASE ReadRequest \/ HandleRefused \/ HandleGet \/ HandlePut \/ CreateFile \/ HandlePost
  BY <1>3 DEF ReadRequest, HandleRefused, HandleGet, HandlePut, CreateFile, HandlePost, PlaceInv
<1>4. CASE SendFileHeader \/ SendContent \/ WriteLead \/ ReadBody \/ ConfirmPut
  BY <1>4 DEF SendFileHeader, SendContent, WriteLead, ReadBody, ConfirmPut, PlaceInv
<1>5. CASE SelectAnswer \/ ReceiveAnswer \/ SendLine
  BY <1>5 DEF SelectAnswer, ReceiveAnswer, SendLine, PlaceInv
<1>6. CASE Interrupt \/ FileShrinks \/ SpinEnds
  BY <1>6 DEF Interrupt, FileShrinks, SpinEnds, PlaceInv
<1>7. CASE ClientSends \/ ClientTurns \/ DnsAnswers \/ UNCHANGED vars
  BY <1>7 DEF ClientSends, ClientTurns, DnsAnswers, OnlyClient, vars
<1> QED
  BY <1>1, <1>2, <1>3, <1>4, <1>5, <1>6, <1>7 DEF Next, WorkerStep, Outside

\* Every way out of a handler, the early returns among them, leads past the close that
\* handler makes: when the worker closes the connection it has nothing else open, but
\* for a directory it could not list.
THEOREM DescriptorsAreGivenBack == Spec => []AllGivenBack
<1>1. Init => GivenBackInv
  BY DEF Init, GivenBackInv
<1>2. PlaceInv /\ GivenBackInv /\ [Next]_vars => GivenBackInv'
  BY NextGivenBackInv
<1>3. SayInv /\ TypeOK /\ PlaceInv /\ GivenBackInv => AllGivenBack
  BY DEF SayInv, TypeOK, PlaceInv, GivenBackInv, AllGivenBack
<1> QED
  BY <1>1, <1>2, <1>3, PlaceInvariant, SayInvariant, WorkerTypeOK, PTL DEF Spec

\* A reply is heard, or lost.
LEMMA WriteIsHeard ==
  ASSUME SayInv, wpc \notin Afterwards, NEW code \in Finals, Write(code)
  PROVE  lost' = TRUE \/ ~Silent'
<1>1. CASE peer = "reset"
  BY <1>1 DEF Write, Send
<1>2. CASE peer # "reset"
  <2>1. replies' = Append(replies, code) /\ replies \in {<<>>, <<100>>}
    BY <1>2 DEF Write, SayInv
  <2>2. Len(replies) + 1 \in DOMAIN replies' /\ replies'[Len(replies) + 1] = code
    BY <2>1
  <2>3. Said(code)'
    BY <2>2 DEF Said
  <2> QED
    BY <2>3 DEF Silent
<1> QED
  BY <1>1, <1>2

\* Silence needs a reason as soon as the final reply, or the header of a file, should
\* have been sent.
Reasons ==
  \/ lost = TRUE
  \/ fault = "read"
  \/ fault = "create" /\ request \in {"put", "put_expect"}
  \/ fault = "socket" /\ request = "dns"
SilenceInv ==
  /\ wpc \in {"content", "spin", "lines"} /\ Silent => lost = TRUE
  /\ wpc \in {"close_file", "close_dns", "close", "done"} /\ Silent => Reasons

\* Saying no more keeps silence, and its reason.
LEMMA QuietSilence ==
  ASSUME UNCHANGED replies
  PROVE  Silent' = Silent
BY DEF Silent, Said

\* A final reply leaves nothing to be explained.
LEMMA WriteSilence ==
  ASSUME SayInv, wpc \notin Afterwards, NEW code \in Finals, Write(code)
  PROVE  SilenceInv'
BY WriteIsHeard, Zenon DEF SilenceInv, Reasons

\* No step of the worker leaves a silence without its reason.
LEMMA NextSilenceInv ==
  ASSUME SayInv, PlaceInv, SilenceInv, [Next]_vars
  PROVE  SilenceInv'
<1>1. {200, 201, 400, 403, 404, 405, 503} = Finals
  BY DEF Finals
<1> USE DEF descriptors
<1>2. ASSUME wpc' \notin Afterwards
      PROVE  SilenceInv'
  BY <1>2 DEF SilenceInv, Afterwards
<1>3. ASSUME Reasons', wpc' \in {"close", "close_file", "close_dns"}
      PROVE  SilenceInv'
  BY <1>3 DEF SilenceInv
<1>4. CASE ReadRequest
  <2>1. CASE (inbox > 0 /\ wpc' = "handle") \/ Write(400)
    BY <1>1, <1>2, <1>4, <2>1, WriteSilence DEF ReadRequest, Afterwards
  <2>2. CASE Note("read") /\ wpc' = "close"
    BY <1>3, <1>4, <2>2 DEF ReadRequest, Note, PlaceInv, Reasons
  <2> QED
    BY <1>4, <2>1, <2>2 DEF ReadRequest
<1>5. CASE HandleRefused \/ SendFileHeader \/ SendDirectory \/ ConfirmPut \/ ReceiveAnswer
  BY <1>1, <1>5, WriteSilence
     DEF HandleRefused, SendFileHeader, SendDirectory, ConfirmPut, ReceiveAnswer, Afterwards
<1>6. CASE HandleGet \/ SelectAnswer \/ WriteLead \/ ReadBody
  BY <1>1, <1>2, <1>6, WriteSilence DEF HandleGet, SelectAnswer, WriteLead, ReadBody, Afterwards
<1>7. CASE HandlePut
  BY <1>2, <1>7 DEF HandlePut, Afterwards
<1>8. CASE CreateFile
  <2>1. CASE wpc' = "lead"
    BY <1>2, <2>1 DEF Afterwards
  <2>2. CASE wpc' # "lead"
    BY <1>3, <1>8, <2>2 DEF CreateFile, Note, PlaceInv, Reasons
  <2> QED
    BY <2>1, <2>2
<1>9. CASE HandlePost
  <2>1. CASE wpc' # "close_dns"
    BY <1>1, <1>2, <1>9, <2>1, WriteSilence DEF HandlePost, Afterwards
  <2>2. CASE wpc' = "close_dns"
    BY <1>3, <1>9, <2>2 DEF HandlePost, Note, PlaceInv, Reasons
  <2> QED
    BY <2>1, <2>2
<1>10. CASE SendContent \/ SendLine \/ FileShrinks \/ SpinEnds
  <2>1. Silent' = Silent
    BY <1>10, QuietSilence DEF SendContent, SendLine, FileShrinks, SpinEnds, Quiet
  <2>2. lost' = TRUE \/ lost' = lost
    BY <1>10 DEF SendContent, SendLine, FileShrinks, SpinEnds, Quiet, Send
  <2>3. /\ wpc \in {"content", "spin", "lines"}
        /\ wpc' \in {"content", "spin", "lines", "close_file", "close_dns"}
    BY <1>10 DEF SendContent, SendLine, FileShrinks, SpinEnds
  <2> QED
    BY <2>1, <2>2, <2>3 DEF SilenceInv, Reasons
<1>11. CASE CloseFile \/ CloseDns \/ CloseClient
  <2>1. Silent' = Silent
    BY <1>11, QuietSilence DEF CloseFile, CloseDns, CloseClient, Quiet
  <2>2. UNCHANGED <<lost, fault, request>> /\ wpc' \in {"close", "done"}
        /\ wpc \in {"close_file", "close_dns", "close"}
    BY <1>11 DEF CloseFile, CloseDns, CloseClient, Quiet
  <2> QED
    BY <2>1, <2>2 DEF SilenceInv, Reasons
<1>12. CASE Interrupt
  <2>1. CASE wpc = "read"
    BY <1>3, <1>12, <2>1 DEF Interrupt, Note, PlaceInv, Reasons
  <2>2. CASE wpc # "read"
    BY <1>1, <1>12, <2>2, WriteSilence DEF Interrupt, Afterwards
  <2> QED
    BY <2>1, <2>2
<1>13. CASE ClientSends \/ ClientTurns \/ DnsAnswers \/ UNCHANGED vars
  <2>1. UNCHANGED <<wpc, replies, fault, lost, request>>
    BY <1>13 DEF ClientSends, ClientTurns, DnsAnswers, OnlyClient, connection, vars
  <2>2. Silent' = Silent
    BY <2>1, QuietSilence
  <2> QED
    BY <2>1, <2>2 DEF SilenceInv, Reasons
<1> QED
  BY <1>4, <1>5, <1>6, <1>7, <1>8, <1>9, <1>10, <1>11, <1>12, <1>13
     DEF Next, WorkerStep, Outside

\* A client that has not reset its connection gets a final reply to its request, unless
\* reading it failed, a PUT could not create its file or a query had no DNS socket, for
\* bodies of any length; a GET is answered whatever becomes of its file.
THEOREM SilenceHasReasons == Spec => []SilenceIsExplained
<1>1. Init => SilenceInv
  BY DEF Init, SilenceInv
<1>2. SayInv /\ PlaceInv /\ SilenceInv /\ [Next]_vars => SilenceInv'
  BY NextSilenceInv
<1>3. SilenceInv => SilenceIsExplained
  BY Zenon DEF SilenceInv, SilenceIsExplained, Reasons
<1> QED
  BY <1>1, <1>2, <1>3, PlaceInvariant, SayInvariant, PTL DEF Spec

\* Before a handler tries its final reply nothing but 100 Continue has been said.
LEMMA NothingSaidYet ==
  ASSUME SayInv, wpc \notin Afterwards, NEW code \in Finals
  PROVE  ~Said(code)
BY DEF SayInv, Said, Finals

\* A final reply is the only one, but for 100 Continue.
LEMMA WriteSaid ==
  ASSUME SayInv, wpc \notin Afterwards,
         NEW code \in Finals, Write(code), NEW other \in Finals \cup {100}, Said(other)'
  PROVE  other = code \/ (other = 100 /\ Said(100))
<1>1. replies \in {<<>>, <<100>>}
  BY DEF SayInv
<1>2. replies' = replies \/ replies' = Append(replies, code)
  BY DEF Write
<1>3. PICK i \in DOMAIN replies' : replies'[i] = other
  BY DEF Said
<1>4. CASE replies' = replies
  BY <1>1, <1>3, <1>4 DEF Said, Finals
<1>5. CASE replies' = Append(replies, code)
  BY <1>1, <1>3, <1>5 DEF Said
<1> QED
  BY <1>2, <1>4, <1>5

\* Replies are true, and all that has been said while a file or an answer is sent is
\* that it is there.
ReplyInv ==
  /\ RepliesAreTrue
  /\ wpc \in {"content", "spin", "lines"} =>
       \A code \in Finals \cup {100} : Said(code) => code = 200

\* A step that says nothing, and takes the worker to no end of its handler, cannot make
\* a reply untrue.
LEMMA QuietReplies ==
  ASSUME ReplyInv, SayInv, wpc \notin Afterwards,
         wpc' \notin {"content", "spin", "lines"}, UNCHANGED <<replies, request>>
  PROVE  ReplyInv'
<1>1. \A code \in Finals \cup {100} : Said(code)' = Said(code)
  BY DEF Said
<1>2. \A code \in Finals : ~Said(code)'
  BY <1>1, NothingSaidYet
<1>3. Said(100)' => request' = "put_expect"
  BY <1>1 DEF ReplyInv, RepliesAreTrue
<1> QED
  BY <1>2, <1>3 DEF ReplyInv, RepliesAreTrue, Finals

\* A final reply must be true when it is written.
LEMMA WriteReplies ==
  ASSUME ReplyInv, SayInv, wpc \notin Afterwards,
         NEW code \in Finals, Write(code), UNCHANGED request,
         wpc' \notin {"content", "spin", "lines"},
         code = 200 => request \in {"get", "dns"},
         code = 201 => local_file' # "none" /\ left' = 0 /\ fault' = "none",
         code = 400 => \/ request' \in {"short", "put_malformed", "dns_malformed"}
                       \/ fault' = "empty"
                       \/ fault' = "body" /\ left' > 0,
         code = 403 => request' = "get" /\ local_file' # "none",
         code = 404 => \/ request' = "get" /\ fault' = "notfound" /\ local_file' = "none"
                       \/ request' = "dns" /\ fault' = "timeout",
         code = 503 => fault' \in {"directory", "disk", "memory"}
  PROVE  ReplyInv'
<1>1. \A other \in Finals \cup {100} : Said(other)' => other = code \/ (other = 100 /\ Said(100))
  BY WriteSaid
<1>2. Said(100)' => request' = "put_expect"
  BY <1>1 DEF ReplyInv, RepliesAreTrue, Finals
<1> QED
  BY <1>1, <1>2 DEF ReplyInv, RepliesAreTrue, Finals

\* The header of a file or of an answer is true, and all that has been said.
LEMMA HeaderReplies ==
  ASSUME ReplyInv, SayInv, wpc \notin Afterwards, Write(200), UNCHANGED request,
         request \in {"get", "dns"}
  PROVE  ReplyInv'
<1>1. 200 \in Finals
  BY DEF Finals
<1>2. ~Said(100)
  BY DEF ReplyInv, RepliesAreTrue
<1>3. \A other \in Finals \cup {100} : Said(other)' => other = 200
  BY <1>1, <1>2, WriteSaid
<1> QED
  BY <1>3 DEF ReplyInv, RepliesAreTrue, Finals

\* What has been said stays true where nothing is added to it, and what it is about
\* stays as it is.
LEMMA SameReplies ==
  ASSUME ReplyInv, UNCHANGED <<replies, request, left, fault>>,
         local_file' = "none" <=> local_file = "none",
         wpc' \in {"content", "spin", "lines"} => wpc \in {"content", "spin", "lines"}
  PROVE  ReplyInv'
<1>1. \A code \in Finals \cup {100} : Said(code)' = Said(code)
  BY DEF Said
<1> QED
  BY <1>1 DEF ReplyInv, RepliesAreTrue, Finals

\* No step makes a reply untrue.
LEMMA NextReplyInv ==
  ASSUME TypeOK, SayInv, PlaceInv, ReplyInv, [Next]_vars
  PROVE  ReplyInv'
<1> USE DEF descriptors, Afterwards
<1>1. {200, 201, 400, 403, 404, 405, 503} = Finals
  BY DEF Finals
<1>2. CASE ReadRequest
  BY <1>1, <1>2, QuietReplies, WriteReplies DEF ReadRequest, Quiet, Note, PlaceInv
<1>3. CASE HandleRefused
  BY <1>1, <1>3, WriteReplies DEF HandleRefused
<1>4. CASE HandleGet
  BY <1>1, <1>4, QuietReplies, WriteReplies DEF HandleGet, Quiet, Note, PlaceInv
<1>5. CASE SendFileHeader \/ ReceiveAnswer
  BY <1>5, HeaderReplies DEF SendFileHeader, ReceiveAnswer, PlaceInv
<1>6. CASE SendContent \/ SendLine \/ SpinEnds
  <2>1. wpc \in {"content", "spin", "lines"} /\ UNCHANGED <<replies, request>>
    BY <1>6 DEF SendContent, SendLine, SpinEnds, Quiet
  <2>2. \A other \in Finals \cup {100} : Said(other)' => other = 200
    BY <2>1 DEF ReplyInv, Said
  <2>3. Said(200)' => request' \in {"get", "dns"}
    BY <2>1 DEF ReplyInv, RepliesAreTrue, Said
  <2> QED
    BY <2>2, <2>3 DEF ReplyInv, RepliesAreTrue, Finals
<1>7. CASE SendDirectory
  BY <1>1, <1>7, WriteReplies DEF SendDirectory, Note, PlaceInv
<1>8. CASE HandlePut
  <2>1. CASE Quiet
    BY <1>8, <2>1, QuietReplies DEF HandlePut, Quiet
  <2>2. CASE request = "put_expect" /\ Write(100)
    <3>1. replies' \in {<<>>, <<100>>} /\ request' = "put_expect" /\ wpc' = "create"
      BY <1>8, <2>2 DEF HandlePut, Write, SayInv
    <3>2. \A code \in Finals : ~Said(code)'
      BY <3>1 DEF Said, Finals
    <3> QED
      BY <3>1, <3>2 DEF ReplyInv, RepliesAreTrue, Finals
  <2> QED
    BY <1>8, <2>1, <2>2 DEF HandlePut
<1>9. CASE CreateFile
  BY <1>9, QuietReplies DEF CreateFile, Quiet
<1>10. CASE WriteLead
  BY <1>1, <1>10, QuietReplies, WriteReplies DEF WriteLead, Quiet, Note, PlaceInv
<1>11. CASE ReadBody
  BY <1>1, <1>11, QuietReplies, WriteReplies DEF ReadBody, Quiet, Note, PlaceInv
<1>12. CASE ConfirmPut
  BY <1>1, <1>12, WriteReplies DEF ConfirmPut, PlaceInv
<1>13. CASE HandlePost
  BY <1>1, <1>13, QuietReplies, WriteReplies DEF HandlePost, Quiet, Note, PlaceInv
<1>14. CASE SelectAnswer
  BY <1>1, <1>14, QuietReplies, WriteReplies DEF SelectAnswer, Quiet, Note, PlaceInv
<1>15. CASE CloseFile \/ CloseDns \/ CloseClient
  BY <1>15, SameReplies DEF CloseFile, CloseDns, CloseClient, Quiet
<1>16. CASE Interrupt
  BY <1>1, <1>16, QuietReplies, WriteReplies DEF Interrupt, Quiet, Note, PlaceInv
<1>17. CASE ClientSends \/ ClientTurns \/ DnsAnswers \/ FileShrinks \/ UNCHANGED vars
  BY <1>17, SameReplies
     DEF ClientSends, ClientTurns, DnsAnswers, FileShrinks, OnlyClient, connection, vars, Quiet
<1> QED
  BY <1>2, <1>3, <1>4, <1>5, <1>6, <1>7, <1>8, <1>9, <1>10, <1>11, <1>12,
     <1>13, <1>14, <1>15, <1>16, <1>17 DEF Next, WorkerStep, Outside

\* A reply tells what happened, for bodies of any length and in every turn of client,
\* signals and DNS server.
THEOREM RepliesTellTheTruth == Spec => []RepliesAreTrue
<1>1. Init => ReplyInv
  BY DEF Init, ReplyInv, RepliesAreTrue, Said
<1>2. TypeOK /\ SayInv /\ PlaceInv /\ ReplyInv /\ [Next]_vars => ReplyInv'
  BY NextReplyInv
<1>3. ReplyInv => RepliesAreTrue
  BY DEF ReplyInv
<1> QED
  BY <1>1, <1>2, <1>3, PlaceInvariant, SayInvariant, WorkerTypeOK, PTL DEF Spec

\* What is left to move when a GET or a query is over: nothing, unless the client
\* reset the connection or the disk failed.
SentInv ==
  request \in {"get", "dns"} /\ wpc \in {"close_file", "close_dns", "close", "done"} =>
    left = 0 \/ lost = TRUE \/ fault = "disk"

\* No copy loop is left with bytes to move and no reason.
LEMMA NextSentInv ==
  ASSUME PlaceInv, SentInv, [Next]_vars
  PROVE  SentInv'
<1>1. CASE SendContent
  BY <1>1 DEF SendContent, Send, Quiet, Note, PlaceInv, SentInv
<1>2. CASE HandleGet \/ SendDirectory \/ ReadRequest \/ HandleRefused
  BY <1>2 DEF HandleGet, SendDirectory, ReadRequest, HandleRefused, PlaceInv, SentInv
<1>3. CASE SendFileHeader \/ HandlePut
  BY <1>3 DEF SendFileHeader, HandlePut, SentInv
<1>4. CASE CreateFile \/ WriteLead \/ ReadBody \/ ConfirmPut
  BY <1>4 DEF CreateFile, WriteLead, ReadBody, ConfirmPut, PlaceInv, SentInv
<1>5. CASE HandlePost \/ SelectAnswer \/ ReceiveAnswer \/ SendLine
  BY <1>5 DEF HandlePost, SelectAnswer, ReceiveAnswer, SendLine, PlaceInv, SentInv
<1>6. CASE CloseFile \/ CloseDns \/ CloseClient
  BY <1>6 DEF CloseFile, CloseDns, CloseClient, Quiet, SentInv
<1>7. CASE Interrupt
  BY <1>7 DEF Interrupt, PlaceInv, SentInv
<1>8. CASE FileShrinks \/ SpinEnds
  BY <1>8 DEF FileShrinks, SpinEnds, Note, PlaceInv, SentInv
<1>9. CASE ClientSends \/ ClientTurns \/ DnsAnswers \/ UNCHANGED vars
  BY <1>9 DEF ClientSends, ClientTurns, DnsAnswers, OnlyClient, connection, vars, SentInv
<1> QED
  BY <1>1, <1>2, <1>3, <1>4, <1>5, <1>6, <1>7, <1>8, <1>9 DEF Next, WorkerStep, Outside

\* A promised file or answer of any length is sent whole, unless the disk fails or the
\* client resets the connection.
THEOREM PromisedFileIsSent == Spec => []FileIsSentWhole
<1>1. Init => SentInv
  BY DEF Init, SentInv
<1>2. PlaceInv /\ SentInv /\ [Next]_vars => SentInv'
  BY NextSentInv
<1>3. SentInv /\ RepliesAreTrue => FileIsSentWhole
  BY Zenon DEF SentInv, FileIsSentWhole, RepliesAreTrue
<1> QED
  BY <1>1, <1>2, <1>3, PlaceInvariant, RepliesTellTheTruth, PTL DEF Spec

(***************************************************************************)
(* The client's query                                                      *)
(***************************************************************************)

\* What holds of a worker whoever its client is.
AnyClientInv == SayInv /\ PlaceInv /\ SilenceInv

\* The client's steps leave a worker alone, but for a request it has not read.
LEMMA QueryAnyClientInv == AnyClientInv /\ [QueryNext]_queryVars => AnyClientInv'
<1> SUFFICES ASSUME AnyClientInv, [QueryNext]_queryVars
             PROVE  AnyClientInv'
  OBVIOUS
<1>1. CASE [Next]_vars
  BY <1>1, NextSayInv, NextPlaceInv, NextSilenceInv DEF AnyClientInv
<1>2. CASE OnlyClient /\ (request' = request \/ wpc = "read")
  <2>1. Silent' = Silent
    BY <1>2, QuietSilence DEF OnlyClient
  <2>2. SayInv'
    BY <1>2 DEF AnyClientInv, SayInv, OnlyClient, descriptors
  <2>3. PlaceInv'
    BY <1>2 DEF AnyClientInv, PlaceInv, OnlyClient, descriptors
  <2>4. SilenceInv'
    BY <1>2, <2>1 DEF AnyClientInv, SilenceInv, Reasons, OnlyClient
  <2> QED
    BY <2>2, <2>3, <2>4 DEF AnyClientInv
<1>3. CASE ClientStep \/ (BreakOff /\ OnlyClient)
  BY <1>2, <1>3 DEF ClientStep, WriteHeader, WriteQuery, ReadReply, BreakOff
<1>4. CASE ServerStep \/ Interrupt \/ DnsAnswers \/ UNCHANGED queryVars
  BY <1>1, <1>4 DEF ServerStep, Next, Outside, queryVars
<1> QED
  BY <1>3, <1>4 DEF QueryNext, Surroundings

\* As long as the connection does not break: the client leaves only when the worker
\* is done, so that no write of the worker's is lost; a query that joined its header is
\* alone in the connection until the worker reads it; and the three parts of
\* QueryIsServed.
UnbrokenInv ==
  /\ cpc = "ok" \/ peer \in {"closed", "reset"} => wpc = "done"
  /\ lost = FALSE
  /\ cpc = "header" => inbox = 0
  /\ cpc = "data" /\ wpc = "read" => inbox = 1
  /\ request = "dns" => inbox = IF wpc = "read" THEN 1 ELSE 0
  /\ Said(400) => CutOff
  /\ cpc \in {"failed", "killed"} => CutOff
  /\ cpc = "ok" => printed = TRUE \/ fault \in {"read", "socket"}

QueryInv ==
  /\ request \in {"dns", "dns_malformed"}
  /\ cpc \in {"header", "data"} => request = "dns_malformed"
  /\ fault \notin {"notfound", "create"}
  /\ ~broken => UnbrokenInv

\* A client whose worker is done, and has not failed it, has been sent a reply.
LEMMA DoneHasReplied ==
  ASSUME AnyClientInv, QueryInv, ~broken, client_fd = "closed", replies = <<>>
  PROVE  fault \in {"read", "socket"}
<1>1. Silent
  BY DEF Silent, Said
<1>2. wpc = "done" => lost = TRUE \/ fault \in {"read", "create", "socket"}
  BY <1>1 DEF AnyClientInv, SilenceInv, Reasons
<1>3. wpc = "done"
  BY DEF AnyClientInv, SayInv
<1> QED
  BY <1>2, <1>3 DEF QueryInv, UnbrokenInv

\* Each step of the client and its surroundings keeps the invariant.
LEMMA ClientQueryInv ==
  ASSUME AnyClientInv, QueryInv, ClientStep
  PROVE  QueryInv'
<1>1. /\ UNCHANGED <<wpc, replies, lost, fault, client_fd>>
      /\ Said(400)' = Said(400)
  BY DEF ClientStep, OnlyClient, descriptors, Said
<1>2. wpc = "done" <=> client_fd # "open"
  BY DEF AnyClientInv, SayInv
<1>3. CASE WriteHeader
  BY <1>1, <1>3 DEF WriteHeader, QueryInv, UnbrokenInv, CutOff
<1>4. CASE WriteQuery
  BY <1>1, <1>2, <1>4 DEF WriteQuery, QueryInv, UnbrokenInv, CutOff, Doomed
<1>5. CASE ReadReply
  <2>1. UNCHANGED <<request, inbox, broken>> /\ cpc' \in {"ok", "failed"} /\ wpc = "done"
    BY <1>2, <1>5 DEF ReadReply
  <2>2. ASSUME ~broken, cpc' = "failed"
        PROVE  CutOff'
    BY <1>1, <1>5, <2>1, <2>2 DEF ReadReply, Doomed, QueryInv, UnbrokenInv, CutOff
  <2>3. ASSUME ~broken, cpc' = "ok"
        PROVE  printed' = TRUE \/ fault' \in {"read", "socket"}
    <3>1. CASE replies = <<>>
      BY <1>1, <1>5, <2>3, <3>1, DoneHasReplied DEF ReadReply
    <3>2. CASE replies # <<>>
      BY <1>5, <2>3, <3>2 DEF ReadReply
    <3> QED
      BY <3>1, <3>2
  <2> QED
    BY <1>1, <2>1, <2>2, <2>3 DEF QueryInv, UnbrokenInv, CutOff
<1> QED
  BY <1>3, <1>4, <1>5 DEF ClientStep

\* So does each step of the worker, signals and the DNS server.
LEMMA WorkerQueryInv ==
  ASSUME AnyClientInv, QueryInv, WorkerStep \/ Interrupt \/ DnsAnswers, UNCHANGED http_copy
  PROVE  QueryInv'
<1>1. /\ request \in {"dns", "dns_malformed"}
      /\ UNCHANGED <<request, cpc, printed, broken>>
  BY DEF QueryInv, http_copy, ReadRequest, HandleRefused, HandleGet, SendFileHeader,
         SendContent, SendDirectory, HandlePut, CreateFile, WriteLead, ReadBody, ConfirmPut,
         HandlePost, SelectAnswer, ReceiveAnswer, SendLine, CloseFile, CloseDns, CloseClient,
         WorkerStep, Interrupt, DnsAnswers, connection
<1>2. wpc \notin {"header", "content", "list", "create", "lead", "body", "close_file"}
  BY <1>1 DEF AnyClientInv, PlaceInv
<1>3. \/ ReadRequest \/ HandleRefused \/ HandlePost \/ SelectAnswer \/ ReceiveAnswer
      \/ SendLine \/ CloseDns \/ CloseClient \/ Interrupt \/ DnsAnswers
  BY <1>1, <1>2 DEF WorkerStep, HandleGet, SendFileHeader, SendContent, SendDirectory,
                    HandlePut, CreateFile, WriteLead, ReadBody, ConfirmPut, CloseFile
<1>4. (wpc' # "read" /\ wpc # "done") \/ UNCHANGED wpc
  BY <1>3 DEF ReadRequest, HandleRefused, HandlePost, SelectAnswer, ReceiveAnswer,
              SendLine, CloseDns, CloseClient, Interrupt, DnsAnswers
<1>5. fault' \notin {"notfound", "create"}
  BY <1>2, <1>3 DEF QueryInv, Note, ReadRequest, HandleRefused, HandlePost, SelectAnswer,
                    ReceiveAnswer, SendLine, CloseDns, CloseClient, Interrupt, DnsAnswers
<1>6. ASSUME ~broken
      PROVE  UnbrokenInv'
  <2>1. wpc # "done" => peer \notin {"closed", "reset"}
    BY <1>6 DEF QueryInv, UnbrokenInv
  <2>2. wpc = "done" => DnsAnswers
    BY <1>3 DEF ReadRequest, HandleRefused, HandlePost, SelectAnswer, ReceiveAnswer,
                SendLine, CloseDns, CloseClient, Interrupt
  <2>3. UNCHANGED <<peer, lost>>
    BY <1>2, <1>3, <2>1, <2>2 DEF ReadRequest, HandleRefused, HandlePost, SelectAnswer,
         ReceiveAnswer, SendLine, CloseDns, CloseClient, Interrupt, DnsAnswers, Write, Send, Quiet,
         connection
  <2>4. CASE ReadRequest
    <3>1. /\ wpc = "read" /\ wpc' = "handle" /\ inbox > 0 /\ inbox' = inbox - 1
          /\ UNCHANGED <<replies, fault>>
      BY <2>1, <2>4 DEF ReadRequest, Quiet
    <3>2. Said(400)' = Said(400)
      BY <3>1 DEF Said
    <3> QED
      BY <1>1, <1>6, <2>3, <3>1, <3>2 DEF QueryInv, UnbrokenInv, CutOff
  <2>5. CASE ~ReadRequest
    <3>1. UNCHANGED inbox
      BY <1>2, <1>3, <2>5 DEF HandleRefused, HandlePost, SelectAnswer, ReceiveAnswer,
           SendLine, CloseDns, CloseClient, Interrupt, DnsAnswers, connection
    <3>2. Said(400)' => CutOff'
      <4>1. CASE HandleRefused
        BY <1>1, <4>1 DEF HandleRefused, CutOff
      <4>2. CASE HandlePost \/ SelectAnswer \/ ReceiveAnswer
        <5>1. wpc \in {"handle", "select", "receive"} /\ SayInv
          BY <4>2 DEF HandlePost, SelectAnswer, ReceiveAnswer, AnyClientInv
        <5>2. ~Said(400)
          BY <5>1, NothingSaidYet DEF Finals, Afterwards
        <5>3. UNCHANGED replies \/ Write(503) \/ Write(404) \/ Write(200)
          BY <4>2 DEF HandlePost, SelectAnswer, ReceiveAnswer, Quiet
        <5>4. UNCHANGED replies => Said(400)' = Said(400)
          BY DEF Said
        <5> QED
          BY <5>1, <5>2, <5>3, <5>4, WriteSaid DEF Finals, Afterwards
      <4>3. CASE SendLine \/ CloseDns \/ CloseClient \/ Interrupt \/ DnsAnswers
        <5>1. UNCHANGED replies /\ (wpc = "read" \/ wpc' # "read")
          BY <1>2, <4>3 DEF SendLine, CloseDns, CloseClient, Interrupt, DnsAnswers, Quiet
        <5>2. Said(400)' = Said(400)
          BY <5>1 DEF Said
        <5> QED
          BY <1>1, <1>6, <5>1, <5>2 DEF QueryInv, UnbrokenInv, CutOff
      <4> QED
        BY <1>3, <2>5, <4>1, <4>2, <4>3
    <3>3. wpc = "read" => (cpc' # "data" /\ request' # "dns") \/ UNCHANGED wpc
      BY <1>1, <1>3, <1>6, <2>5 DEF HandleRefused, HandlePost, SelectAnswer, ReceiveAnswer,
           SendLine, CloseDns, CloseClient, Interrupt, DnsAnswers, QueryInv, UnbrokenInv
    <3>4. wpc = "done" => UNCHANGED <<wpc, fault>>
      BY <2>2 DEF DnsAnswers
    <3>5. cpc = "ok" => wpc = "done"
      BY <1>6 DEF QueryInv, UnbrokenInv
    <3> QED
      BY <1>1, <1>4, <1>6, <2>1, <2>3, <3>1, <3>2, <3>3, <3>4, <3>5
         DEF QueryInv, UnbrokenInv, CutOff
  <2> QED
    BY <2>4, <2>5
<1> QED
  BY <1>1, <1>5, <1>6 DEF QueryInv

\* So does each step of both ends and their surroundings.
LEMMA NextQueryInv == AnyClientInv /\ QueryInv /\ [QueryNext]_queryVars => QueryInv'
<1> SUFFICES ASSUME AnyClientInv, QueryInv, [QueryNext]_queryVars
             PROVE  QueryInv'
  OBVIOUS
<1>1. CASE BreakOff /\ OnlyClient
  BY <1>1 DEF BreakOff, OnlyClient, QueryInv, Ends
<1>2. CASE UNCHANGED queryVars
  <2>1. UNCHANGED <<wpc, request, inbox, peer, replies, fault, lost, http_copy>>
    BY <1>2 DEF queryVars, vars, connection
  <2>2. Said(400)' = Said(400)
    BY <2>1 DEF Said
  <2> QED
    BY <2>1, <2>2 DEF QueryInv, UnbrokenInv, CutOff, http_copy
<1> QED
  BY <1>1, <1>2, ClientQueryInv, WorkerQueryInv DEF QueryNext, ServerStep, Surroundings

\* On a connection that does not break, a query is refused, kills its client or loses
\* it the reply only if the worker read between the client's two writes; and a client
\* that ends well has printed a reply, unless the worker failed.
THEOREM QueriesAreServed == QuerySpec => []QueryIsServed
<1>1. QueryInit => AnyClientInv /\ QueryInv
  BY DEF QueryInit, Init, AnyClientInv, SayInv, PlaceInv, SilenceInv, QueryInv,
         UnbrokenInv, Said
<1>2. QueryInv => QueryIsServed
  BY DEF QueryInv, UnbrokenInv, QueryIsServed
<1> QED
  BY <1>1, <1>2, QueryAnyClientInv, NextQueryInv, PTL DEF QuerySpec
==============================================================================
