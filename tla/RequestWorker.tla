---------------------------- MODULE RequestWorker ----------------------------
(***************************************************************************)
(* One worker thread of httpdnsd (src/server/httpserver.c,                 *)
(* httpserver_worker_thread and the handlers it calls) with the client     *)
(* whose connection it owns, the file system and the DNS server it asks.   *)
(*                                                                         *)
(* One action is one blocking call, or one stretch of code up to the next. *)
(* Bodies are counted in chunks, one chunk to a read; FileTransfer counts  *)
(* the bytes.  A reply short enough to fit the socket buffer does not block. *)
(***************************************************************************)
EXTENDS Naturals, Sequences

CONSTANT MaxChunks  \* bound: chunks of a request body or of a file

ASSUME WorkerAssumption == MaxChunks \in Nat

VARIABLES
  wpc,              \* where the worker stands
  request,          \* what the first read() of the connection will yield
  inbox,            \* chunks the client has sent and the worker not yet read
  peer,             \* the other end of the connection, as a write will find it
  replies,          \* status codes written to a connection not yet reset
  left,             \* chunks the handler has still to move
  client_fd,        \* the connection's descriptor
  local_file,       \* descriptor of the file or directory
  dns_socket,       \* descriptor of the UDP socket
  answer,           \* TRUE once the DNS server's answer has arrived
  fault,            \* history: the first thing that went wrong
  lost              \* history: a write to the connection has failed

connection == <<request, inbox, peer>>
descriptors == <<client_fd, local_file, dns_socket>>
vars == <<wpc, connection, replies, left, descriptors, answer, fault, lost>>

\* "short": two fields or fewer.  "put_malformed": the end of the header is not
\* in the first read, or the length is negative.  "dns_malformed": a query
\* without payload or without a name.  "other": any other method or path.  Where
\* a field has to have a value, as Content-Length does, it has one.
Requests == {"short", "get", "put", "put_expect", "put_malformed",
             "dns", "dns_malformed", "other"}

\* Codes of the replies that end an exchange.
Finals == {200, 201, 400, 403, 404, 405, 503}

\* "spin": the copy loop at the end of a file that has become too short.  Each
\* handler that opens something closes it at a place of its own, before the
\* worker closes the connection.
Points == {"read", "handle", "header", "content", "spin", "list", "create", "lead",
           "body", "select", "receive", "lines", "close_file", "close_dns",
           "close", "done"}

Faults == {"none", "read", "empty", "body", "notfound", "create", "directory",
           "disk", "memory", "socket", "interrupt", "timeout"}

TypeOK ==
  /\ wpc \in Points
  /\ request \in Requests
  /\ inbox \in 0..MaxChunks + 1
  /\ peer \in {"open", "stalled", "closed", "reset"}
  /\ replies \in Seq(Finals \cup {100})
  /\ left \in 0..MaxChunks
  /\ client_fd \in {"open", "closed"}
  /\ local_file \in {"none", "open", "closed", "leaked"}
  /\ dns_socket \in {"none", "open", "closed"}
  /\ answer \in BOOLEAN
  /\ fault \in Faults
  /\ lost \in BOOLEAN

Init ==
  /\ wpc = "read"
  /\ request \in Requests
  /\ inbox = 0
  /\ peer = "open"
  /\ replies = <<>>
  /\ left = 0
  /\ client_fd = "open"
  /\ local_file = "none"
  /\ dns_socket = "none"
  /\ answer = FALSE
  /\ fault = "none"
  /\ lost = FALSE

\* A write to a connection the client has closed is taken, and may be answered
\* with a reset; a connection that was reset takes none.  The first then fails
\* with ECONNRESET, or with EPIPE and SIGPIPE as the ones behind it do: Listener
\* has what the signal does.  No handler that replies looks at the result.
Send ==
  IF peer = "reset"
    THEN lost' = TRUE /\ UNCHANGED peer
    ELSE /\ peer' \in IF peer = "closed" THEN {"closed", "reset"} ELSE {peer}
         /\ UNCHANGED lost

\* socket_write of a reply, or of the header of one.
Write(code) ==
  /\ Send
  /\ replies' = IF peer = "reset" THEN replies ELSE Append(replies, code)

Quiet == UNCHANGED <<replies, peer, lost>>

\* The first thing that goes wrong is what explains the outcome.
Note(what) == fault' = IF fault = "none" THEN what ELSE fault

(***************************************************************************)
(* Reading the request                                                     *)
(***************************************************************************)

\* The one read of the request.  End of file gives no field at all, which is a
\* bad request; an error gives no header, and no reply.
ReadRequest ==
  /\ wpc = "read"
  /\ \/ /\ inbox > 0
        /\ inbox' = inbox - 1
        /\ wpc' = "handle"
        /\ Quiet
        /\ UNCHANGED fault
     \/ /\ inbox = 0 /\ peer = "closed"
        /\ Write(400)
        /\ Note("empty")
        /\ wpc' = "close"
        /\ UNCHANGED inbox
     \/ /\ peer = "reset"
        /\ Note("read")
        /\ wpc' = "close"
        /\ Quiet
        /\ UNCHANGED inbox
  /\ UNCHANGED <<request, left, descriptors, answer>>

\* Requests answered without looking at anything but the request.
HandleRefused ==
  /\ wpc = "handle"
  /\ \/ request \in {"short", "put_malformed", "dns_malformed"} /\ Write(400)
     \/ request = "other" /\ Write(405)
  /\ wpc' = "close"
  /\ UNCHANGED <<request, inbox, left, descriptors, answer, fault>>

(***************************************************************************)
(* GET                                                                     *)
(***************************************************************************)

\* Mutant of HandleGet: a file that cannot be opened is not answered.
GetUnanswered ==
  /\ wpc = "handle"
  /\ request = "get"
  /\ \/ Note("notfound") /\ wpc' = "close_file" /\ UNCHANGED local_file
     \/ local_file' = "open" /\ wpc' \in {"header", "list"} /\ UNCHANGED fault
  /\ Quiet
  /\ UNCHANGED <<request, inbox, left, client_fd, dns_socket, answer>>

\* Regular files and directories are served, other things are not.
HandleGet ==
  /\ wpc = "handle"
  /\ request = "get"
  /\ \/ /\ Write(404)
        /\ Note("notfound")
        /\ wpc' = "close_file"
        /\ UNCHANGED local_file
     \/ /\ local_file' = "open"
        /\ wpc' \in {"header", "list"}
        /\ Quiet
        /\ UNCHANGED fault
     \/ /\ local_file' = "open"
        /\ Write(403)
        /\ wpc' = "close_file"
        /\ UNCHANGED fault
  /\ UNCHANGED <<request, inbox, left, client_fd, dns_socket, answer>>

\* The header promises the size the file has now.
SendFileHeader ==
  /\ wpc = "header"
  /\ Write(200)
  /\ left' \in 0..MaxChunks
  /\ wpc' = "content"
  /\ UNCHANGED <<request, inbox, descriptors, answer, fault>>

\* Mutant of SendContent: one buffer is taken for the whole file.
SendOneBuffer ==
  /\ wpc = "content"
  /\ left' = IF left = 0 THEN 0 ELSE left - 1
  /\ wpc' = "close_file"
  /\ Quiet
  /\ UNCHANGED <<request, inbox, descriptors, answer, fault>>

\* One pass of the copy loop.  Neither a failed read nor a failed write is
\* answered: the header is on the wire already.
SendContent ==
  /\ wpc = "content"
  /\ \/ left = 0 /\ wpc' = "close_file" /\ Quiet /\ UNCHANGED <<left, fault>>
     \/ /\ left > 0 /\ peer # "stalled"
        /\ Note("disk") /\ wpc' = "close_file" /\ Quiet /\ UNCHANGED left
     \/ /\ left > 0 /\ peer # "stalled"
        /\ Send
        /\ IF peer = "reset"
             THEN wpc' = "close_file" /\ UNCHANGED left
             ELSE left' = left - 1 /\ UNCHANGED wpc
        /\ UNCHANGED <<replies, fault>>
  /\ UNCHANGED <<request, inbox, descriptors, answer>>

\* The descriptor goes to fdopendir, and is forgotten whether or not that took
\* it; closedir gives it back.
SendDirectory ==
  /\ wpc = "list"
  /\ \/ /\ local_file' = "leaked"
        /\ Note("directory")
        /\ Write(503)
     \/ /\ local_file' = "closed"
        /\ \/ Write(200) /\ UNCHANGED fault
           \/ Write(503) /\ Note("memory")
  /\ wpc' = "close_file"
  /\ UNCHANGED <<request, inbox, left, client_fd, dns_socket, answer>>

(***************************************************************************)
(* PUT                                                                     *)
(***************************************************************************)

HandlePut ==
  /\ wpc = "handle"
  /\ \/ request = "put" /\ Quiet
     \/ request = "put_expect" /\ Write(100)
  /\ wpc' = "create"
  /\ UNCHANGED <<request, inbox, left, descriptors, answer, fault>>

\* A file that cannot be created is not answered at all.  What is left is the
\* declared length less the payload that came with the header.
CreateFile ==
  /\ wpc = "create"
  /\ \/ /\ Note("create")
        /\ wpc' = "close_file"
        /\ UNCHANGED <<left, local_file>>
     \/ /\ local_file' = "open"
        /\ left' \in 0..MaxChunks
        /\ wpc' = "lead"
        /\ UNCHANGED fault
  /\ Quiet
  /\ UNCHANGED <<request, inbox, client_fd, dns_socket, answer>>

\* Mutants of WriteLead: no return after the 503; a return past the handler's
\* close.
WriteLeadGoesOn ==
  /\ wpc = "lead"
  /\ wpc' = "body"
  /\ \/ Quiet /\ UNCHANGED fault
     \/ Write(503) /\ Note("disk")
  /\ UNCHANGED <<request, inbox, left, descriptors, answer>>

WriteLeadKeepsFile ==
  /\ wpc = "lead"
  /\ \/ wpc' = "body" /\ Quiet /\ UNCHANGED fault
     \/ wpc' = "close" /\ Write(503) /\ Note("disk")
  /\ UNCHANGED <<request, inbox, left, descriptors, answer>>

\* The payload that came with the header is written first.
WriteLead ==
  /\ wpc = "lead"
  /\ \/ wpc' = "body" /\ Quiet /\ UNCHANGED fault
     \/ wpc' = "close_file" /\ Write(503) /\ Note("disk")
  /\ UNCHANGED <<request, inbox, left, descriptors, answer>>

\* Mutants of ReadBody: end of file is taken for the end of the body; end of
\* file is taken for nothing yet.
EndOfFileEndsBody ==
  /\ wpc = "body"
  /\ left > 0
  /\ peer = "closed" /\ inbox = 0
  /\ Write(201)
  /\ wpc' = "close_file"
  /\ UNCHANGED <<request, inbox, left, descriptors, answer, fault>>

EndOfFileIsNothing ==
  /\ wpc = "body"
  /\ left > 0
  /\ peer = "closed" /\ inbox = 0
  /\ UNCHANGED vars

\* One pass of the copy loop; end of file and an error both count as a body cut
\* short.
ReadBody ==
  /\ wpc = "body"
  /\ left > 0
  /\ \/ /\ inbox > 0
        /\ inbox' = inbox - 1
        /\ left' = left - 1
        /\ \/ Quiet /\ UNCHANGED <<wpc, fault>>
           \/ Write(503) /\ Note("disk") /\ wpc' = "close_file"
     \/ /\ peer = "reset" \/ (peer = "closed" /\ inbox = 0)
        /\ Write(400)
        /\ Note("body")
        /\ wpc' = "close_file"
        /\ UNCHANGED <<inbox, left>>
  /\ UNCHANGED <<request, descriptors, answer>>

ConfirmPut ==
  /\ wpc = "body"
  /\ left = 0
  /\ Write(201)
  /\ wpc' = "close_file"
  /\ UNCHANGED <<request, inbox, left, descriptors, answer, fault>>

(***************************************************************************)
(* POST: a DNS query                                                       *)
(***************************************************************************)

\* Without a socket to ask with the client is not answered at all.
HandlePost ==
  /\ wpc = "handle"
  /\ request = "dns"
  /\ \/ Write(503) /\ Note("memory") /\ wpc' = "close" /\ UNCHANGED dns_socket
     \/ Quiet /\ Note("socket") /\ wpc' = "close_dns" /\ UNCHANGED dns_socket
     \/ Quiet /\ dns_socket' = "open" /\ wpc' = "select" /\ UNCHANGED fault
  /\ UNCHANGED <<request, inbox, left, client_fd, local_file, answer>>

\* Mutants of SelectAnswer: it waits without a timeout; the client is not told of
\* one.
SelectForEver ==
  /\ wpc = "select"
  /\ answer
  /\ wpc' = "receive"
  /\ Quiet
  /\ UNCHANGED <<request, inbox, left, descriptors, answer, fault>>

TimeoutUnanswered ==
  /\ wpc = "select"
  /\ ~answer
  /\ Note("timeout")
  /\ wpc' = "close_dns"
  /\ Quiet
  /\ UNCHANGED <<request, inbox, left, descriptors, answer>>

\* Two seconds for the answer.  A select a signal interrupts leaves the set as
\* it was, so the worker goes on to receive an answer that need not be there.
SelectAnswer ==
  /\ wpc = "select"
  /\ \/ answer /\ Quiet /\ wpc' = "receive" /\ UNCHANGED fault
     \/ ~answer /\ Write(404) /\ Note("timeout") /\ wpc' = "close_dns"
     \/ ~answer /\ Quiet /\ Note("interrupt") /\ wpc' = "receive"
  /\ UNCHANGED <<request, inbox, left, descriptors, answer>>

\* The header of the reply is a write of its own, and so are each line of the
\* answer and the CRLF behind it.
ReceiveAnswer ==
  /\ wpc = "receive"
  /\ answer
  /\ Write(200)
  /\ left' \in 0..MaxChunks
  /\ wpc' = "lines"
  /\ UNCHANGED <<request, inbox, descriptors, answer, fault>>

SendLine ==
  /\ wpc = "lines"
  /\ \/ left > 0 /\ Send /\ left' = left - 1 /\ UNCHANGED <<wpc, replies>>
     \/ left = 0 /\ Quiet /\ wpc' = "close_dns" /\ UNCHANGED left
  /\ UNCHANGED <<request, inbox, descriptors, answer, fault>>

(***************************************************************************)
(* The ends of the handlers, and of the worker                             *)
(***************************************************************************)

\* The end of httpserver_handle_get and of the storing part of
\* httpserver_handle_put.  What was never opened, or was given to fdopendir, is
\* -1, to which socket_close does nothing.
CloseFile ==
  /\ wpc = "close_file"
  /\ local_file' = IF local_file = "open" THEN "closed" ELSE local_file
  /\ wpc' = "close"
  /\ Quiet
  /\ UNCHANGED <<request, inbox, left, client_fd, dns_socket, answer, fault>>

\* The end of httpserver_handle_dns_request.
CloseDns ==
  /\ wpc = "close_dns"
  /\ dns_socket' = IF dns_socket = "open" THEN "closed" ELSE dns_socket
  /\ wpc' = "close"
  /\ Quiet
  /\ UNCHANGED <<request, inbox, left, client_fd, local_file, answer, fault>>

\* The end of the worker, which knows of the connection only.
CloseClient ==
  /\ wpc = "close"
  /\ client_fd' = "closed"
  /\ wpc' = "done"
  /\ Quiet
  /\ UNCHANGED <<request, inbox, left, local_file, dns_socket, answer, fault>>

(***************************************************************************)
(* Signals, the client and the DNS server                                  *)
(***************************************************************************)

\* SIGINT or SIGTERM is delivered to this thread while it waits for its client:
\* the read fails, and is not tried again.
Interrupt ==
  /\ inbox = 0
  /\ peer \in {"open", "stalled"}
  /\ \/ wpc = "read" /\ Note("read") /\ Quiet /\ wpc' = "close"
     \/ wpc = "body" /\ left > 0 /\ Note("body") /\ Write(400) /\ wpc' = "close_file"
  /\ UNCHANGED <<request, inbox, left, descriptors, answer>>

OnlyClient == UNCHANGED <<wpc, replies, left, descriptors, answer, fault, lost>>

\* The request itself, then its body.
ClientSends ==
  /\ peer \in {"open", "stalled"}
  /\ inbox <= MaxChunks
  /\ inbox' = inbox + 1
  /\ UNCHANGED <<request, peer>>
  /\ OnlyClient

\* A client stops reading, so that a long reply blocks, or goes on reading; it
\* closes the connection, or resets it.
ClientTurns ==
  /\ \/ peer = "open" /\ peer' \in {"stalled", "closed", "reset"}
     \/ peer = "stalled" /\ peer' \in {"open", "closed", "reset"}
     \/ peer = "closed" /\ peer' = "reset"
  /\ UNCHANGED <<request, inbox>>
  /\ OnlyClient

\* Another worker makes the file shorter than what has been promised of it.  The
\* copy loop then reads no byte, writes none and counts none: its passes change
\* nothing, not even when the client leaves, and are no steps.
FileShrinks ==
  /\ wpc = "content" /\ left > 0
  /\ wpc' = "spin"
  /\ Quiet
  /\ UNCHANGED <<request, inbox, left, descriptors, answer, fault>>

\* The file is made longer again, or reading it fails.
SpinEnds ==
  /\ wpc = "spin"
  /\ \/ wpc' = "content" /\ UNCHANGED fault
     \/ wpc' = "close_file" /\ Note("disk")
  /\ Quiet
  /\ UNCHANGED <<request, inbox, left, descriptors, answer>>

DnsAnswers ==
  /\ wpc \in {"select", "receive"}
  /\ ~answer
  /\ answer' = TRUE
  /\ UNCHANGED <<wpc, connection, replies, left, descriptors, fault, lost>>

WorkerStep ==
  \/ ReadRequest \/ HandleRefused
  \/ HandleGet \/ SendFileHeader \/ SendContent \/ SendDirectory
  \/ HandlePut \/ CreateFile \/ WriteLead \/ ReadBody \/ ConfirmPut
  \/ HandlePost \/ SelectAnswer \/ ReceiveAnswer \/ SendLine
  \/ CloseFile \/ CloseDns \/ CloseClient

Outside ==
  \/ Interrupt \/ ClientSends \/ ClientTurns
  \/ FileShrinks \/ SpinEnds \/ DnsAnswers

Next == WorkerStep \/ Outside

Spec == Init /\ [][Next]_vars

(***************************************************************************)
(* Properties                                                              *)
(***************************************************************************)

Said(code) == \E i \in DOMAIN replies : replies[i] = code

\* A reply tells what happened: a file is confirmed only when the whole of its
\* body has been stored, and whoever is refused is refused for a reason.
RepliesAreTrue ==
  /\ Said(100) => request = "put_expect"
  /\ Said(200) => request \in {"get", "dns"}
  /\ Said(201) => local_file # "none" /\ left = 0 /\ fault = "none"
  /\ Said(400) => \/ request \in {"short", "put_malformed", "dns_malformed"}
                  \/ fault = "empty"
                  \/ fault = "body" /\ left > 0
  /\ Said(403) => request = "get" /\ local_file # "none"
  /\ Said(404) => \/ request = "get" /\ fault = "notfound" /\ local_file = "none"
                  \/ request = "dns" /\ fault = "timeout"
  /\ Said(503) => fault \in {"directory", "disk", "memory"}

\* A worker that ends has sent a final reply, unless a write of it failed because
\* the client had reset the connection, reading the request failed, a PUT could
\* not create its file, or a query could not get a DNS socket.  A GET, above all,
\* is answered whatever happens to its file.
Silent == \A code \in Finals : ~Said(code)
SilenceIsExplained ==
  wpc = "done" /\ Silent =>
    \/ lost
    \/ fault = "read"
    \/ fault = "create" /\ request \in {"put", "put_expect"}
    \/ fault = "socket" /\ request = "dns"

\* What a 200 has promised is sent whole, a file or an answer, unless the disk
\* fails or the client resets the connection.
FileIsSentWhole ==
  wpc = "done" /\ Said(200) => left = 0 \/ lost \/ fault = "disk"

\* Every way out of a handler leads past its own close of what it opened: when
\* the worker comes to close the connection, which is all it knows of, no file
\* and no DNS socket is open, but for a directory fdopendir has refused.
AllGivenBack ==
  /\ wpc \in {"close", "done"} => local_file # "open" /\ dns_socket # "open"
  /\ wpc = "done" => client_fd = "closed"
  /\ local_file = "leaked" => fault = "directory"

\* The places behind a final reply.
Afterwards == {"content", "spin", "lines", "close_file", "close_dns", "close", "done"}

\* What the refinement of Exchange rests on: until a final reply has been tried at most
\* 100 Continue has been said, nothing at all before a handler has the request,
\* and the connection is open all the way.
SayInv ==
  /\ wpc \notin Afterwards => replies \in {<<>>, <<100>>}
  /\ wpc \in {"read", "handle"} => replies = <<>>
  /\ client_fd = "open" <=> wpc # "done"

\* The exchange the worker carries out, and the mapping under which it does.
Promise == INSTANCE Exchange WITH asks <- (request = "put_expect"),
                                  said <- replies,
                                  over <- (client_fd = "closed")

\* At most one final reply, at most one 100 Continue before it, none after the
\* connection is closed.
ImplementsExchange == Promise!Spec

\* The worker thread is scheduled; nothing is assumed of client or DNS server.
FairSpec == Spec /\ WF_vars(WorkerStep)

\* What a worker may wait for without end.
AwaitsClient ==
  \/ wpc \in {"read", "body"} /\ inbox = 0 /\ peer \in {"open", "stalled"}
  \/ wpc = "content" /\ peer = "stalled"
AwaitsAnswer == wpc = "receive" /\ ~answer /\ fault = "interrupt"

\* The copy loop at the end of a file that another worker has made shorter.
Spins == wpc = "spin"

\* A worker ends, but for a client that neither sends, reads nor leaves, for an
\* answer it was led by a signal to wait for beyond the two seconds, and for a
\* file that has shrunk under it.
WorkerEnds == []<>(wpc = "done" \/ AwaitsClient \/ AwaitsAnswer \/ Spins)
==============================================================================
