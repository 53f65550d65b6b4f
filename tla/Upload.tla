-------------------------------- MODULE Upload --------------------------------
(***************************************************************************)
(* The PUT of the command line client (src/client/httpgetput.hh,           *)
(* http_copy) against the PUT of httpdnsd, byte by byte: the server's steps *)
(* are those of FileTransfer, whose client this module spells out.  The    *)
(* client sends a local file that others may change meanwhile, never reads *)
(* the reply, and may be killed by a connection the server has closed.     *)
(*                                                                         *)
(* body[c] counts the bytes read from the local file, sent[c] those written *)
(* to the connection.                                                      *)
(***************************************************************************)
EXTENDS FileTransfer

CONSTANTS
  c,                \* the client, and the worker that serves it
  Block,            \* bytes of the client's buffer (512 in the code)
  Window            \* bytes a connection holds that nobody has read

ASSUME UploadAssumption ==
  /\ Putters = {c} /\ Getters = {}
  /\ Block \in Nat \ {0} /\ Window \in Nat \ {0}

VARIABLES
  cpc,              \* where http_copy stands, or how it ended
  link,             \* what m_fd is: "none", "server" or "stdin"
  asked,            \* TRUE once the header is written
  length,           \* bytes of the local file
  room,             \* buffer.size()
  sized,            \* FALSE of a pipe or a terminal, which cannot tell its size
  disturbed,        \* history: it was changed after that
  fault             \* history: it could not be opened or read

local == <<length, room, sized, disturbed, fault>>
http_copy == <<cpc, link, asked, local>>
uploadVars == <<vars, http_copy>>

Ends == {"ok", "failed", "killed"}
Moving == {"request", "lead", "body"}

\* More than any file has: what a size of -1 is read as (%zd clamps it).
Clamped == MaxBody

UploadTypeOK ==
  /\ PutTypeOK
  /\ cpc \in {"connect", "open", "size", "header", "read", "write"} \cup Ends
  /\ link \in {"none", "server", "stdin"}
  /\ length \in 0..MaxBody - 1
  /\ room \in 1..Block
  /\ <<asked, sized, disturbed, fault>> \in BOOLEAN \X BOOLEAN \X BOOLEAN \X BOOLEAN

UploadInit ==
  /\ ServerInit
  /\ declared = [p \in Putters |-> 0] /\ body = [p \in Putters |-> 0]
  /\ crlf \in [Putters -> 1..MaxBody + 1]
  /\ sent = [p \in Putters |-> 0]
  /\ open = [p \in Putters |-> TRUE]
  /\ cpc = "connect"
  /\ link = "none"
  /\ asked = FALSE
  /\ length \in 0..MaxBody - 1
  /\ room = Block
  /\ sized \in BOOLEAN
  /\ disturbed = FALSE /\ fault = FALSE

(***************************************************************************)
(* The client                                                              *)
(***************************************************************************)

\* Mutant of Leave: the connection outlives its socket object.
LeaveOpen(how) == cpc' = how /\ UNCHANGED open

\* Returning and throwing both run the destructors, and being killed closes all.
Leave(how) == cpc' = how /\ open' = [open EXCEPT ![c] = FALSE]

\* TcpClientSocket.  If no socket could be made, m_fd is left at 0.
Connect ==
  /\ cpc = "connect"
  /\ \/ Leave("failed") /\ UNCHANGED link
     \/ cpc' = "open" /\ link' \in {"server", "stdin"} /\ UNCHANGED open
  /\ UNCHANGED <<asked, local, declared, body, sent>>

OpenFile ==
  /\ cpc = "open"
  /\ \/ Leave("failed") /\ fault' = TRUE
     \/ cpc' = "size" /\ UNCHANGED <<open, fault>>
  /\ UNCHANGED <<link, asked, length, room, sized, disturbed, declared, body, sent>>

\* Mutant of SizeFile: the place of the last byte is taken for the size.
SizeOneLess ==
  /\ cpc = "size"
  /\ cpc' = "header"
  /\ declared' = [declared EXCEPT ![c] = Larger(0, length - 1)]
  /\ UNCHANGED <<link, asked, local, body, sent, open>>

\* lseek to the end, which a pipe or a terminal refuses.
SizeFile ==
  /\ cpc = "size"
  /\ cpc' = "header"
  /\ declared' = [declared EXCEPT ![c] = IF sized THEN length ELSE Clamped]
  /\ UNCHANGED <<link, asked, local, body, sent, open>>

\* Standard input may not be open for writing.
WriteHeader ==
  /\ cpc = "header"
  /\ \/ cpc' = "read" /\ asked' = (link = "server") /\ UNCHANGED open
     \/ link = "stdin" /\ Leave("failed") /\ UNCHANGED asked
  /\ UNCHANGED <<link, local, declared, body, sent>>

\* Mutants of ReadFile: the buffer is not cut to what was read into it; the end
\* of the file is an error.
WholeBuffer ==
  /\ cpc = "read"
  /\ IF length > body[c]
       THEN /\ cpc' = "write" /\ UNCHANGED open
            /\ body' = [body EXCEPT ![c] = Smaller(MaxBody, @ + room)]
       ELSE Leave("ok") /\ UNCHANGED body
  /\ UNCHANGED <<link, asked, local, declared, sent>>

EndIsAnError ==
  /\ cpc = "read"
  /\ LET n == Smaller(room, Larger(0, length - body[c]))
     IN  IF n > 0 THEN /\ cpc' = "write" /\ body' = [body EXCEPT ![c] = @ + n]
                       /\ room' = n /\ UNCHANGED open
         ELSE Leave("failed") /\ UNCHANGED <<body, room>>
  /\ UNCHANGED <<link, asked, length, sized, disturbed, fault, declared, sent>>

\* FileDescriptor::read falls short of the buffer only at the end of the file; the
\* buffer is then cut, and stays so.
ReadFile ==
  /\ cpc = "read"
  /\ LET n == Smaller(room, Larger(0, length - body[c]))
     IN  \/ /\ n > 0
            /\ body' = [body EXCEPT ![c] = @ + n]
            /\ room' = n
            /\ cpc' = "write"
            /\ UNCHANGED <<open, fault>>
         \/ n = 0 /\ Leave("ok") /\ UNCHANGED <<body, room, fault>>
         \/ Leave("failed") /\ fault' = TRUE /\ UNCHANGED <<body, room>>
  /\ UNCHANGED <<link, asked, length, sized, disturbed, declared, sent>>

\* FileDescriptor::write goes on until the buffer is written, and stays in write(2) as
\* long as the connection is full.  When the server has closed it the bytes are lost,
\* the write fails, or SIGPIPE kills.
WriteBody ==
  /\ cpc = "write"
  /\ LET pending == body[c] - sent[c]
         free == Window - (sent[c] - got[c])
     IN  \/ /\ link = "server" /\ pstat[c] \in Moving
            /\ \E n \in 1..Smaller(pending, free) :
                 /\ sent' = [sent EXCEPT ![c] = @ + n]
                 /\ cpc' = IF n = pending THEN "read" ELSE "write"
            /\ UNCHANGED open
         \/ /\ link = "stdin" \/ pstat[c] \notin Moving
            /\ cpc' = "read"
            /\ sent' = IF link = "server" THEN [sent EXCEPT ![c] = body[c]] ELSE sent
            /\ UNCHANGED open
         \/ link = "server" /\ pstat[c] \notin Moving /\ Leave("killed") /\ UNCHANGED sent
         \/ /\ link = "stdin" \/ pstat[c] \notin Moving
            /\ Leave("failed")
            /\ UNCHANGED sent
  /\ UNCHANGED <<link, asked, local, declared, body>>

ClientStep ==
  /\ Connect \/ OpenFile \/ SizeFile \/ WriteHeader \/ ReadFile \/ WriteBody
  /\ UNCHANGED <<file, crlf, putVars, getVars, history>>

(***************************************************************************)
(* Its surroundings                                                        *)
(***************************************************************************)

\* Another process writes to the local file or truncates it.
ChangeFile ==
  /\ cpc \notin Ends
  /\ length' \in 0..MaxBody - 1 \ {length}
  /\ disturbed' = (disturbed \/ cpc \notin {"connect", "open", "size"})
  /\ UNCHANGED <<vars, cpc, link, asked, room, sized, fault>>

\* The connection breaks under a write of the client's.  The server need not come to
\* know of it.
BreakOff ==
  /\ cpc \in {"header", "write"} /\ link = "server"
  /\ cpc' = "failed"
  /\ \E heard \in BOOLEAN : open' = [open EXCEPT ![c] = ~heard]
  /\ UNCHANGED <<file, declared, body, crlf, sent, putVars, getVars, history>>
  /\ UNCHANGED <<link, asked, local>>

\* A signal comes to the worker that waits for its client.
ServerReadFails == asked /\ ReadFails(c) /\ UNCHANGED http_copy

\* The connection ends before the request.
HangUp ==
  /\ pstat[c] = "request" /\ ~open[c]
  /\ pstat' = [pstat EXCEPT ![c] = "unanswered"]
  /\ UNCHANGED <<file, client, got, kept, remaining, getVars, history>>

ServerStep ==
  /\ link = "server"
  /\ IF asked THEN PutStep(c) ELSE HangUp
  /\ UNCHANGED http_copy

UploadNext == ClientStep \/ ServerStep \/ ChangeFile \/ BreakOff \/ ServerReadFails

UploadSpec == UploadInit /\ [][UploadNext]_uploadVars

\* Calls nothing brings to an end: opening and reading a pipe or a terminal, and
\* writing to what is standard input.
MayWait ==
  \/ cpc \in {"open", "read"} /\ ~sized
  \/ cpc \in {"header", "write"} /\ link = "stdin"

\* Both ends run; nothing is assumed of the network, of signals, of who changes the
\* file, and of those calls.
FairUpload ==
  /\ UploadSpec
  /\ WF_uploadVars(~MayWait /\ ClientStep)
  /\ WF_uploadVars(ServerStep)

(***************************************************************************)
(* Properties                                                              *)
(***************************************************************************)

\* 201 Created is given for the local file, byte for byte, unless it was changed
\* while it was sent.
StoredIsSource ==
  pstat[c] = "created" /\ ~disturbed => file = [i \in 1..length |-> <<c, i>>]

\* A client the server has confirmed succeeds too, unless its file fails it: the
\* server never closes on one that has more to write.
ConfirmedSucceeds ==
  pstat[c] = "created" /\ ~disturbed /\ ~fault => cpc \notin {"failed", "killed"}

\* An upload that is a success to the client, which does not read the reply, and a
\* bad request to the server: the file could not tell its size, it was changed, a
\* CRLF came in the bytes read with the header, or the server failed to read the body.
RefusalIsExplained ==
  pstat[c] = "bad" /\ cpc = "ok" =>
    ~sized \/ disturbed \/ crlf[c] < declared[c] \/ broken[c]

\* The client has gone, and the server was not told.
Unheard == cpc = "failed" /\ open[c]

\* The client comes to an end, unless it stays in one of those calls, and then the
\* server does, unless the connection broke without its knowledge: never because
\* each waits for the other, however full the connection.
UploadEnds ==
  \/ <>[]MayWait
  \/ /\ <>(cpc \in Ends)
     /\ (link = "server" ~> pstat[c] \notin Moving) \/ <>[]Unheard
==============================================================================
