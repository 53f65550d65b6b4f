---------------------------------- MODULE Query ----------------------------------
(***************************************************************************)
(* The POST of the command line client (src/client/httpgetput.hh,          *)
(* http_copy) against a worker of httpdnsd: a DNS query.  The server's     *)
(* steps are those of RequestWorker, whose client this module spells out.  *)
(* The client writes the header and the query with a call each, and the    *)
(* worker reads the request with one.                                      *)
(*                                                                         *)
(* inbox counts what those reads would yield; a reply fits the client's    *)
(* buffer.                                                                 *)
(***************************************************************************)
EXTENDS RequestWorker

VARIABLES
  target,           \* what the command line asks
  cpc,              \* where http_copy stands, or how it ended
  printed,          \* TRUE once it has printed a reply
  broken            \* history: the connection broke by itself

http_copy == <<target, cpc, printed, broken>>
queryVars == <<vars, http_copy>>

Ends == {"ok", "failed", "killed"}

QueryTypeOK ==
  /\ TypeOK
  /\ request \in {"dns", "dns_malformed"}
  /\ target \in {"query", "malformed", "empty"}
  /\ cpc \in {"header", "data", "read"} \cup Ends
  /\ printed \in BOOLEAN
  /\ broken \in BOOLEAN

\* Connected.  A header alone is a query without payload.
QueryInit ==
  /\ Init
  /\ request = "dns_malformed"
  /\ target \in {"query", "malformed", "empty"}
  /\ cpc = "header"
  /\ printed = FALSE
  /\ broken = FALSE

\* A connection closed with bytes nobody has read, or written to after that, is
\* reset; when the client comes to know of it is open.
Doomed == client_fd = "closed" /\ inbox > 0

WriteHeader ==
  /\ cpc = "header"
  /\ cpc' = "data"
  /\ inbox' = inbox + 1
  /\ UNCHANGED <<request, peer, target, printed, broken>>

\* The query joins the header, or comes behind the read that yields it; nothing is
\* no write.
WriteQuery ==
  /\ cpc = "data"
  /\ \/ /\ target = "empty" \/ wpc = "read"
        /\ request' = IF target = "query" THEN "dns" ELSE request
        /\ cpc' = "read"
        /\ UNCHANGED <<inbox, peer>>
     \/ /\ target # "empty"
        /\ inbox' = inbox + 1
        /\ cpc' = "read"
        /\ UNCHANGED <<request, peer>>
     \/ /\ target # "empty" /\ Doomed
        /\ cpc' = "killed" /\ peer' = "closed"
        /\ UNCHANGED <<request, inbox>>
  /\ UNCHANGED <<target, printed, broken>>

\* FileDescriptor::read comes back with a full buffer or the end of the stream.  A
\* reset before that throws, and what has been read is not printed.
ReadReply ==
  /\ cpc = "read" /\ client_fd = "closed"
  /\ \/ cpc' = "ok" /\ printed' = (replies # <<>>) /\ peer' = "closed"
     \/ Doomed /\ cpc' = "failed" /\ peer' = "reset" /\ UNCHANGED printed
  /\ UNCHANGED <<request, inbox, target, broken>>

\* Any of the calls fails.
BreakOff ==
  /\ cpc \notin Ends
  /\ cpc' = "failed" /\ peer' = "reset"
  /\ broken' = TRUE
  /\ UNCHANGED <<request, inbox, target, printed>>

ClientStep == (WriteHeader \/ WriteQuery \/ ReadReply) /\ OnlyClient
ServerStep == WorkerStep /\ UNCHANGED http_copy
Surroundings ==
  \/ BreakOff /\ OnlyClient
  \/ (Interrupt \/ DnsAnswers) /\ UNCHANGED http_copy

QueryNext == ClientStep \/ ServerStep \/ Surroundings

QuerySpec == QueryInit /\ [][QueryNext]_queryVars

\* Both ends run; nothing is assumed of the network, signals or the DNS server.
FairQuery == QuerySpec /\ WF_queryVars(ClientStep) /\ WF_queryVars(ServerStep)

(***************************************************************************)
(* Properties                                                              *)
(***************************************************************************)

\* The worker's one read, if it came to it, did not get the query.
CutOff == request = "dns_malformed" /\ wpc # "read"

\* A query is refused, kills its client or loses it the reply only if the worker
\* read between the two writes; and a client that ends well has printed a reply,
\* unless the worker was interrupted, or had no socket to ask with.
QueryIsServed ==
  target = "query" /\ ~broken =>
    /\ Said(400) \/ cpc \in {"failed", "killed"} => CutOff
    /\ cpc = "ok" => printed \/ fault \in {"read", "socket"}

\* The client ends, unless a signal has led the worker to wait for a DNS answer
\* beyond the two seconds.
QueryEnds == []<>(cpc \in Ends \/ AwaitsAnswer)
==============================================================================
