------------------------------ MODULE UploadProofs ------------------------------
(***************************************************************************)
(* Proofs about Upload, for a file, a buffer and a connection of any size. *)
(* What the server's steps keep is proved in FileTransferProofs.           *)
(***************************************************************************)
EXTENDS Upload, FileTransferProofs

\* How far the client is, what it has declared, read and sent, and how it ended.
ClientInv ==
  /\ UploadTypeOK
  /\ cpc \notin Ends => open[c] = TRUE
  /\ cpc \in {"connect", "open", "size", "header"} => asked = FALSE /\ body[c] = 0
  /\ cpc = "connect" => link = "none"
  /\ asked = TRUE => link = "server"
  /\ asked = FALSE => pstat[c] \in {"request", "unanswered"}
  /\ (asked = TRUE \/ cpc = "header") /\ disturbed = FALSE =>
       declared[c] = IF sized = TRUE THEN length ELSE MaxBody
  /\ disturbed = FALSE => body[c] <= length
  /\ asked = TRUE =>
       /\ cpc \in {"read", "ok"} => sent[c] = body[c]
       /\ cpc \in {"write", "killed"} => sent[c] < body[c]
       /\ cpc = "ok" => body[c] >= length
       /\ cpc = "failed" => fault = TRUE \/ sent[c] < body[c]

\* The worker has the file to itself.  What it has not kept of what it read came behind
\* a CRLF, and it refuses a client it could read to the end only when that has closed
\* and sent less than is wanted.
ServedInv ==
  /\ pstat[c] \in {"lead", "body", "created"} => c \in sole
  /\ pstat[c] \in {"body", "bad", "created"} => kept[c] = got[c] \/ crlf[c] < got[c]
  /\ pstat[c] = "bad" /\ broken[c] = FALSE =>
       got[c] = sent[c] /\ kept[c] # declared[c] /\ open[c] = FALSE

\* There is one client, and it is the worker's.
LEMMA OneClient == c \in Putters /\ \A p \in Putters : p = c
BY UploadAssumption

\* A step of the client leaves the server's counters in step with its file, if it
\* declares only what the server has not read yet and sends only what it has read.
LEMMA ClientPutInv ==
  ASSUME PutInv, UNCHANGED <<crlf, putVars>>,
         declared' \in [Putters -> 0..MaxBody], body' \in [Putters -> 0..MaxBody],
         sent' \in [Putters -> 0..MaxBody], open' \in [Putters -> BOOLEAN],
         declared'[c] = declared[c] \/ pstat[c] \in {"request", "unanswered"},
         sent[c] <= sent'[c], sent'[c] <= body'[c]
  PROVE  PutInv'
<1>1. PutTypeOK'
  BY DEF PutInv, PutTypeOK, putVars
<1>2. UNCHANGED <<pstat, got, kept, remaining>>
  BY DEF putVars
<1>3. /\ got[c] \in Int /\ sent[c] \in Int /\ sent'[c] \in Int
      /\ kept[c] <= got[c] /\ got[c] <= sent[c]
      /\ pstat[c] \in {"request", "lead"} => kept[c] = 0
      /\ pstat[c] = "lead" => remaining[c] = declared[c]
      /\ pstat[c] \in {"body", "created"} => remaining[c] = Minus(declared[c], kept[c])
      /\ pstat[c] = "created" => remaining[c] = 0
  BY OneClient, TransferAssumption DEF PutInv, PutTypeOK, CountersInv
<1>4. /\ kept'[c] <= got'[c] /\ got'[c] <= sent'[c] /\ sent'[c] <= body'[c]
  BY <1>2, <1>3
<1>5. CountersInv'
  BY <1>2, <1>3, <1>4, OneClient DEF CountersInv
<1> QED
  BY <1>1, <1>5 DEF PutInv

\* What a step of the client leaves alone.
Still == UNCHANGED <<file, crlf, putVars, getVars, history>>

\* The steps of the client before the body.
LEMMA OpeningClientInv ==
  ASSUME PutInv, ClientInv, Still, Connect \/ OpenFile
  PROVE  PutInv' /\ ClientInv'
<1>1. UNCHANGED <<declared, body, sent, crlf, putVars>>
  BY DEF Still, Connect, OpenFile
<1>2. open' \in [Putters -> BOOLEAN] /\ open'[c] \in BOOLEAN
  BY OneClient DEF Connect, OpenFile, Leave, ClientInv, UploadTypeOK, PutTypeOK
<1>3. PutInv'
  BY <1>1, <1>2, OneClient, ClientPutInv DEF PutInv, PutTypeOK, CountersInv
<1>4. UploadTypeOK'
  BY <1>3 DEF PutInv, Connect, OpenFile, Leave, ClientInv, UploadTypeOK, Ends, local
<1>5. ClientInv'
  BY <1>1, <1>4, OneClient
     DEF Connect, OpenFile, Leave, ClientInv, UploadTypeOK, PutTypeOK, Ends, local, putVars
<1> QED
  BY <1>3, <1>5

LEMMA SizeFileInv ==
  ASSUME PutInv, ClientInv, Still, SizeFile
  PROVE  PutInv' /\ ClientInv'
<1>1. UNCHANGED <<body, sent, open, crlf, putVars, asked, link, length, room, sized, disturbed, fault>>
  BY DEF Still, SizeFile, local
<1> DEFINE n == IF sized THEN length ELSE MaxBody
<1>2. declared' = [declared EXCEPT ![c] = n]
  BY DEF SizeFile, Clamped
<1>0. n \in 0..MaxBody
  BY TransferAssumption DEF ClientInv, UploadTypeOK
<1>8. n = IF sized = TRUE THEN length ELSE MaxBody
  BY DEF ClientInv, UploadTypeOK
<1> HIDE DEF n
<1>3. declared' \in [Putters -> 0..MaxBody] /\ declared'[c] = n
  BY <1>0, <1>2, OneClient DEF PutInv, PutTypeOK
<1>4. pstat[c] \in {"request", "unanswered"} /\ cpc' = "header" /\ cpc = "size"
  BY DEF SizeFile, ClientInv
<1>5. PutInv'
  BY <1>1, <1>3, <1>4, OneClient, ClientPutInv DEF PutInv, PutTypeOK, CountersInv
<1>6. UploadTypeOK'
  BY <1>1, <1>4, <1>5 DEF PutInv, ClientInv, UploadTypeOK
<1>7. ClientInv'
  BY <1>1, <1>3, <1>4, <1>6, <1>8 DEF ClientInv, Ends, putVars
<1> QED
  BY <1>5, <1>7

LEMMA WriteHeaderInv ==
  ASSUME PutInv, ClientInv, Still, WriteHeader
  PROVE  PutInv' /\ ClientInv'
<1>1. UNCHANGED <<declared, body, sent, crlf, putVars, local, link>>
  BY DEF Still, WriteHeader
<1>2. open' \in [Putters -> BOOLEAN] /\ open'[c] \in BOOLEAN
  BY OneClient DEF WriteHeader, Leave, ClientInv, UploadTypeOK, PutTypeOK
<1>3. PutInv'
  BY <1>1, <1>2, OneClient, ClientPutInv DEF PutInv, PutTypeOK, CountersInv
<1>4. asked' \in BOOLEAN /\ (asked' = TRUE => link = "server") /\ asked = FALSE
  BY DEF WriteHeader, ClientInv
<1>5. UploadTypeOK'
  BY <1>1, <1>3, <1>4 DEF PutInv, WriteHeader, Leave, ClientInv, UploadTypeOK, Ends, local
<1>6. cpc = "header" /\ body[c] = 0 /\ sent[c] = 0
  BY OneClient DEF WriteHeader, ClientInv, PutInv, PutTypeOK, CountersInv
<1>7. UNCHANGED <<length, sized, disturbed, fault, pstat>>
  BY <1>1 DEF local, putVars
<1>8. ClientInv'
  <2>1. CASE cpc' = "read" /\ UNCHANGED open
    BY <1>1, <1>4, <1>5, <1>6, <1>7, <2>1 DEF ClientInv, Ends
  <2>2. CASE Leave("failed") /\ UNCHANGED asked
    <3>1. cpc' = "failed" /\ asked' = FALSE /\ open'[c] = FALSE
      BY <1>4, <2>2, OneClient DEF Leave, ClientInv, UploadTypeOK, PutTypeOK
    <3> QED
      BY <1>1, <1>5, <1>6, <1>7, <3>1 DEF ClientInv, Ends
  <2> QED
    BY <2>1, <2>2 DEF WriteHeader
<1> QED
  BY <1>3, <1>8

\* A piece of the file is read, and no more of it than there is.
LEMMA ReadFileInv ==
  ASSUME PutInv, ClientInv, Still, ReadFile
  PROVE  PutInv' /\ ClientInv'
<1> DEFINE n == Smaller(room, Larger(0, length - body[c]))
<1>1. /\ UNCHANGED <<declared, sent, crlf, putVars, asked, link, length, sized, disturbed>>
      /\ cpc = "read" /\ pstat' = pstat
  BY DEF Still, ReadFile, putVars
<1>2. /\ n \in 0..Block /\ body[c] \in 0..MaxBody /\ length \in 0..MaxBody - 1
      /\ n > 0 => body[c] + n <= length
      /\ n = 0 => body[c] >= length
      /\ n > 0 => n \in 1..Block
  BY OneClient, TransferAssumption, UploadAssumption
     DEF Smaller, Larger, ClientInv, UploadTypeOK, PutTypeOK
<1>3. sent[c] \in 0..MaxBody /\ sent[c] <= body[c]
  BY OneClient DEF PutInv, PutTypeOK, CountersInv
<1>4. \/ /\ n > 0 /\ body' = [body EXCEPT ![c] = @ + n] /\ room' = n /\ cpc' = "write"
         /\ UNCHANGED <<open, fault>>
      \/ n = 0 /\ Leave("ok") /\ UNCHANGED <<body, room, fault>>
      \/ Leave("failed") /\ fault' = TRUE /\ UNCHANGED <<body, room>>
  BY DEF ReadFile
<1> HIDE DEF n
<1>5. CASE /\ n > 0 /\ body' = [body EXCEPT ![c] = @ + n] /\ room' = n /\ cpc' = "write"
           /\ UNCHANGED <<open, fault>>
  <2>1. body[c] + n \in 0..MaxBody
    BY <1>2, <1>5, TransferAssumption
  <2>2. body' \in [Putters -> 0..MaxBody] /\ body'[c] = body[c] + n
    BY <1>5, <2>1, OneClient DEF PutInv, PutTypeOK
  <2>3. sent[c] <= body'[c] /\ sent[c] < body'[c] /\ body'[c] <= length
    BY <1>2, <1>3, <1>5, <2>2
  <2>4. PutInv'
    BY <1>1, <1>3, <1>5, <2>2, <2>3, OneClient, ClientPutInv DEF PutInv, PutTypeOK
  <2>5. UploadTypeOK'
    BY <1>1, <1>2, <1>5, <2>4 DEF PutInv, ClientInv, UploadTypeOK
  <2> QED
    BY <1>1, <1>5, <2>3, <2>4, <2>5 DEF ClientInv, Ends
<1>6. CASE n = 0 /\ Leave("ok") /\ UNCHANGED <<body, room, fault>>
  <2>1. open' \in [Putters -> BOOLEAN] /\ open'[c] = FALSE /\ cpc' = "ok"
    BY <1>6, OneClient DEF Leave, PutInv, PutTypeOK
  <2>2. PutInv'
    BY <1>1, <1>3, <1>6, <2>1, OneClient, ClientPutInv DEF PutInv, PutTypeOK
  <2>3. UploadTypeOK'
    BY <1>1, <1>6, <2>1, <2>2 DEF PutInv, ClientInv, UploadTypeOK, Ends
  <2> QED
    BY <1>1, <1>2, <1>6, <2>1, <2>2, <2>3 DEF ClientInv, Ends
<1>7. CASE Leave("failed") /\ fault' = TRUE /\ UNCHANGED <<body, room>>
  <2>1. open' \in [Putters -> BOOLEAN] /\ open'[c] = FALSE /\ cpc' = "failed"
    BY <1>7, OneClient DEF Leave, PutInv, PutTypeOK
  <2>2. PutInv'
    BY <1>1, <1>3, <1>7, <2>1, OneClient, ClientPutInv DEF PutInv, PutTypeOK
  <2>3. UploadTypeOK'
    BY <1>1, <1>7, <2>1, <2>2 DEF PutInv, ClientInv, UploadTypeOK, Ends
  <2> QED
    BY <1>1, <1>7, <2>1, <2>2, <2>3 DEF ClientInv, Ends
<1> QED
  BY <1>4, <1>5, <1>6, <1>7

\* The buffer is written piece by piece, is lost, or is what the client ends with.
LEMMA WriteBodyInv ==
  ASSUME PutInv, ClientInv, Still, WriteBody
  PROVE  PutInv' /\ ClientInv'
<1>1. /\ UNCHANGED <<declared, body, crlf, putVars, asked, link, length, room, sized,
                     disturbed, fault>>
      /\ cpc = "write" /\ pstat' = pstat
  BY DEF Still, WriteBody, putVars, local
<1>2. /\ sent[c] \in 0..MaxBody /\ body[c] \in 0..MaxBody /\ sent[c] <= body[c]
      /\ asked = TRUE => sent[c] < body[c] /\ link = "server"
  BY <1>1, OneClient DEF PutInv, PutTypeOK, CountersInv, ClientInv
<1>3. CASE /\ \E n \in 1..Smaller(body[c] - sent[c], Window - (sent[c] - got[c])) :
                /\ sent' = [sent EXCEPT ![c] = @ + n]
                /\ cpc' = IF n = body[c] - sent[c] THEN "read" ELSE "write"
           /\ UNCHANGED open
  <2> PICK n \in 1..Smaller(body[c] - sent[c], Window - (sent[c] - got[c])) :
        /\ sent' = [sent EXCEPT ![c] = @ + n]
        /\ cpc' = IF n = body[c] - sent[c] THEN "read" ELSE "write"
    BY <1>3
  <2>1. n \in 1..body[c] - sent[c]
    <3>1. got[c] \in Int /\ Window \in Int
      BY OneClient, UploadAssumption DEF PutInv, PutTypeOK
    <3> QED
      BY <1>2, <3>1 DEF Smaller
  <2>2. sent[c] + n \in 0..MaxBody /\ sent[c] + n <= body[c]
    BY <1>2, <2>1, TransferAssumption
  <2>3. sent' \in [Putters -> 0..MaxBody] /\ sent'[c] = sent[c] + n
    BY <2>2, OneClient DEF PutInv, PutTypeOK
  <2>4. sent[c] <= sent'[c] /\ sent'[c] <= body[c]
    BY <1>2, <2>1, <2>2, <2>3
  <2>5. PutInv'
    BY <1>1, <1>3, <2>3, <2>4, OneClient, ClientPutInv DEF PutInv, PutTypeOK
  <2>6. UploadTypeOK' /\ cpc' \in {"read", "write"}
    BY <1>1, <2>5 DEF PutInv, ClientInv, UploadTypeOK
  <2>7. /\ cpc' = "read" => sent'[c] = body[c]
        /\ cpc' = "write" => sent'[c] < body[c]
    BY <1>2, <2>1, <2>3
  <2> QED
    BY <1>1, <1>3, <2>5, <2>6, <2>7 DEF ClientInv, Ends
<1>4. CASE /\ cpc' = "read"
           /\ sent' = IF link = "server" THEN [sent EXCEPT ![c] = body[c]] ELSE sent
           /\ UNCHANGED open
  <2>1. /\ sent' \in [Putters -> 0..MaxBody]
        /\ sent[c] <= sent'[c] /\ sent'[c] <= body[c]
        /\ asked = TRUE => sent'[c] = body[c]
    BY <1>2, <1>4, OneClient DEF PutInv, PutTypeOK
  <2>2. PutInv'
    BY <1>1, <1>4, <2>1, OneClient, ClientPutInv DEF PutInv, PutTypeOK
  <2>3. UploadTypeOK'
    BY <1>1, <1>4, <2>2 DEF PutInv, ClientInv, UploadTypeOK
  <2> QED
    BY <1>1, <1>4, <2>1, <2>2, <2>3 DEF ClientInv, Ends
<1>5. CASE (Leave("killed") \/ Leave("failed")) /\ UNCHANGED sent
  <2>1. /\ open' \in [Putters -> BOOLEAN] /\ open'[c] = FALSE
        /\ cpc' \in {"killed", "failed"}
    BY <1>5, OneClient DEF Leave, PutInv, PutTypeOK
  <2>2. PutInv'
    BY <1>1, <1>2, <1>5, <2>1, OneClient, ClientPutInv DEF PutInv, PutTypeOK
  <2>3. UploadTypeOK'
    BY <1>1, <2>1, <2>2 DEF PutInv, ClientInv, UploadTypeOK, Ends
  <2> QED
    BY <1>1, <1>2, <1>5, <2>1, <2>2, <2>3 DEF ClientInv, Ends
<1> QED
  BY <1>3, <1>4, <1>5 DEF WriteBody

UploadInv == PutInv /\ FileTypeOK /\ SoleInv /\ ClientInv /\ ServedInv

\* No step of the client breaks the invariant: once it has ended it takes none.
LEMMA ClientStepInv ==
  ASSUME UploadInv, ClientStep
  PROVE  UploadInv'
<1>1. PutInv /\ ClientInv /\ Still
  BY DEF UploadInv, ClientStep, Still
<1>2. PutInv' /\ ClientInv'
  BY <1>1, OpeningClientInv, SizeFileInv, WriteHeaderInv, ReadFileInv, WriteBodyInv
     DEF ClientStep
<1>3. FileTypeOK' /\ SoleInv'
  BY <1>1 DEF Still, UploadInv, FileTypeOK, SoleInv, putVars, getVars, history
<1>4. ServedInv'
  <2>1. UNCHANGED <<crlf, sole, broken, pstat, got, kept>>
    BY <1>1 DEF Still, putVars, history
  <2>2. cpc \notin Ends
    BY DEF ClientStep, Connect, OpenFile, SizeFile, WriteHeader, ReadFile, WriteBody, Ends
  <2>3. open[c] = TRUE
    BY <1>1, <2>2 DEF ClientInv
  <2>4. ~(pstat[c] = "bad" /\ broken[c] = FALSE)
    BY <2>3 DEF UploadInv, ServedInv
  <2> QED
    BY <2>1, <2>4 DEF UploadInv, ServedInv
<1> QED
  BY <1>2, <1>3, <1>4 DEF UploadInv

\* Nor does a connection that breaks, whether or not the server is told.
LEMMA BreakOffInv ==
  ASSUME UploadInv, BreakOff
  PROVE  UploadInv'
<1>1. /\ UNCHANGED <<file, declared, body, crlf, sent, putVars, getVars, history, link, asked, local>>
      /\ cpc' = "failed" /\ cpc \in {"header", "write"}
  BY DEF BreakOff
<1>2. open' \in [Putters -> BOOLEAN]
  BY DEF BreakOff, UploadInv, PutInv, PutTypeOK
<1>3. PutInv'
  BY <1>1, <1>2, OneClient, ClientPutInv DEF UploadInv, PutInv, PutTypeOK, CountersInv
<1>4. FileTypeOK' /\ SoleInv'
  BY <1>1 DEF UploadInv, FileTypeOK, SoleInv, putVars, getVars, history
<1>5. UploadTypeOK'
  BY <1>1, <1>3 DEF UploadInv, PutInv, ClientInv, UploadTypeOK, Ends, local
<1>6. ClientInv'
  BY <1>1, <1>5 DEF UploadInv, ClientInv, Ends, local, putVars
<1>7. ServedInv'
  <2>1. UNCHANGED <<crlf, sole, broken, pstat, got, kept>>
    BY <1>1 DEF putVars, history
  <2>2. open[c] = TRUE
    BY <1>1 DEF UploadInv, ClientInv, Ends
  <2>3. ~(pstat[c] = "bad" /\ broken[c] = FALSE)
    BY <2>2 DEF UploadInv, ServedInv
  <2> QED
    BY <2>1, <2>3 DEF UploadInv, ServedInv
<1> QED
  BY <1>3, <1>4, <1>6, <1>7 DEF UploadInv

\* Nor does a read of the server's that fails.
LEMMA ServerReadFailsInv ==
  ASSUME UploadInv, ServerReadFails
  PROVE  UploadInv'
<1>1. /\ UNCHANGED <<file, client, got, kept, remaining, getVars, touched, sole, http_copy>>
      /\ pstat' = [pstat EXCEPT ![c] = "bad"] /\ pstat'[c] = "bad" /\ pstat[c] = "body"
      /\ broken' = [broken EXCEPT ![c] = TRUE] /\ broken'[c] = TRUE
      /\ asked = TRUE
  BY OneClient DEF ServerReadFails, ReadFails, UploadInv, PutInv, PutTypeOK, FileTypeOK,
                   ClientInv, UploadTypeOK
<1>2. Next
  BY OneClient DEF ServerReadFails, Next
<1>3. PutInv' /\ SoleInv'
  BY <1>2, NextPutInv, NextSoleInv DEF UploadInv
<1>4. FileTypeOK' /\ ServedInv'
  BY <1>1 DEF UploadInv, FileTypeOK, ServedInv, client, getVars
<1>5. UploadTypeOK'
  BY <1>1, <1>3 DEF UploadInv, PutInv, ClientInv, UploadTypeOK, http_copy, local
<1>6. ClientInv'
  BY <1>1, <1>5 DEF UploadInv, ClientInv, client, http_copy, local
<1> QED
  BY <1>3, <1>4, <1>6 DEF UploadInv

\* Nor does another process that changes the file.
LEMMA ChangeFileInv ==
  ASSUME UploadInv, ChangeFile
  PROVE  UploadInv'
<1>1. /\ UNCHANGED <<file, client, putVars, getVars, history, cpc, link, asked, room, sized, fault>>
      /\ length' \in 0..MaxBody - 1 /\ cpc \notin Ends
  BY DEF ChangeFile, vars
<1>2. disturbed' \in BOOLEAN /\ (disturbed' = FALSE => cpc \in {"connect", "open", "size"})
  BY Zenon DEF ChangeFile
<1>3. PutInv' /\ FileTypeOK' /\ SoleInv' /\ ServedInv'
  BY <1>1 DEF UploadInv, PutInv, PutTypeOK, CountersInv, FileTypeOK, SoleInv, ServedInv,
              client, putVars, getVars, history
<1>4. UploadTypeOK'
  BY <1>1, <1>2, <1>3 DEF UploadInv, PutInv, ClientInv, UploadTypeOK
<1>5. ClientInv'
  BY <1>1, <1>2, <1>4 DEF UploadInv, ClientInv, Ends, client, putVars
<1> QED
  BY <1>3, <1>5 DEF UploadInv

\* Nor does a step of the server, which leaves the client's variables alone.
LEMMA PutStepServedInv ==
  ASSUME UploadInv, PutStep(c)
  PROVE  ServedInv'
<1>1. /\ got[c] \in 0..MaxBody /\ kept[c] \in 0..MaxBody /\ declared[c] \in 0..MaxBody
      /\ crlf[c] \in 1..MaxBody + 1 /\ sent[c] \in 0..MaxBody
      /\ got \in [Putters -> 0..MaxBody] /\ kept \in [Putters -> 0..MaxBody]
      /\ DOMAIN pstat = Putters /\ pstat = [p \in Putters |-> pstat[p]]
  BY OneClient DEF UploadInv, PutInv, PutTypeOK
<1>2. CASE TakeRequest(c)
  <2>1. \A q \in Putters \ {c} : FALSE
    BY OneClient
  <2>2. CASE pstat' = [pstat EXCEPT ![c] = "lead"]
    <3>1. sole' = {c}
      BY <1>1, <1>2, <2>1, <2>2, OneClient DEF TakeRequest
    <3> QED
      BY <1>1, <2>2, <3>1, OneClient DEF ServedInv
  <2>3. CASE pstat' = [pstat EXCEPT ![c] = "unanswered"]
    BY <1>1, <2>3, OneClient DEF ServedInv
  <2> QED
    BY <1>2, <2>2, <2>3 DEF TakeRequest
<1>3. CASE WriteLead(c)
  <2> PICK m \in 0..Lead(c) :
        /\ kept' = [kept EXCEPT ![c] = m]
        /\ \/ m = Lead(c) /\ pstat' = [pstat EXCEPT ![c] = "body"]
           \/ pstat' = [pstat EXCEPT ![c] = "failed"]
    BY <1>3 DEF WriteLead
  <2>1. UNCHANGED <<got, crlf, sole>> /\ pstat[c] = "lead"
    BY <1>3 DEF WriteLead, client
  <2>2. kept'[c] = m /\ (pstat'[c] = "body" => m = Lead(c)) /\ pstat'[c] \in {"body", "failed"}
    BY <1>1, OneClient
  <2>3. Lead(c) = got[c] \/ crlf[c] < got[c]
    BY <1>1 DEF Lead
  <2> QED
    BY <2>1, <2>2, <2>3 DEF UploadInv, ServedInv
<1>4. CASE CopyBody(c)
  <2> PICK n \in 1..Smaller(Buf, sent[c] - got[c]) :
        /\ got' = [got EXCEPT ![c] = @ + n]
        /\ \E m \in 0..n :
             /\ kept' = [kept EXCEPT ![c] = @ + m]
             /\ pstat' = IF m = n THEN pstat ELSE [pstat EXCEPT ![c] = "failed"]
    BY <1>4 DEF CopyBody
  <2> PICK m \in 0..n :
        /\ kept' = [kept EXCEPT ![c] = @ + m]
        /\ pstat' = IF m = n THEN pstat ELSE [pstat EXCEPT ![c] = "failed"]
    OBVIOUS
  <2>1. UNCHANGED <<crlf, sole>> /\ pstat[c] = "body"
    BY <1>4 DEF CopyBody, client
  <2>2. /\ got'[c] = got[c] + n /\ kept'[c] = kept[c] + m
        /\ pstat'[c] = "body" => m = n
        /\ pstat'[c] \in {"body", "failed"}
    BY <1>1, <2>1, OneClient
  <2>3. n \in Nat /\ n > 0
    BY <1>1, TransferAssumption DEF Smaller
  <2>4. kept[c] = got[c] => (pstat'[c] = "body" => kept'[c] = got'[c])
    BY <2>2
  <2>5. crlf[c] < got[c] => crlf[c] < got'[c]
    BY <1>1, <2>2, <2>3
  <2> QED
    BY <2>1, <2>2, <2>4, <2>5 DEF UploadInv, ServedInv
<1>5. CASE CutShort(c)
  <2>1. /\ UNCHANGED <<got, kept, crlf, sole, sent, declared, open>>
        /\ pstat[c] = "body" /\ remaining[c] > 0 /\ got[c] = sent[c]
        /\ pstat' = [pstat EXCEPT ![c] = "bad"]
    BY <1>5 DEF CutShort, client, history
  <2>2. open[c] = FALSE
    BY <1>5, OneClient DEF CutShort, UploadInv, PutInv, PutTypeOK
  <2>3. remaining[c] = Minus(declared[c], kept[c])
    BY <2>1, OneClient DEF UploadInv, PutInv, CountersInv
  <2>4. kept[c] # declared[c]
    BY <1>1, <2>1, <2>3 DEF Minus
  <2> QED
    BY <1>1, <2>1, <2>2, <2>4, OneClient DEF UploadInv, ServedInv
<1>6. CASE Confirm(c)
  BY <1>1, <1>6, OneClient DEF Confirm, client, history, UploadInv, ServedInv
<1> QED
  BY <1>2, <1>3, <1>4, <1>5, <1>6 DEF PutStep

LEMMA ServerStepInv ==
  ASSUME UploadInv, ServerStep
  PROVE  UploadInv'
<1>1. CASE PutStep(c) /\ asked = TRUE
  <2>1. Next
    BY <1>1, OneClient DEF Next
  <2>2. PutInv' /\ SoleInv' /\ FileTypeOK'
    BY <1>1, <2>1, OneClient, NextPutInv, NextSoleInv, PutStepFileTypeOK DEF UploadInv
  <2>3. UNCHANGED <<client, http_copy>>
    BY <1>1 DEF ServerStep, PutStep, TakeRequest, WriteLead, CopyBody, CutShort, Confirm
  <2>4. UploadTypeOK'
    BY <2>2, <2>3 DEF UploadInv, PutInv, ClientInv, UploadTypeOK, http_copy, local
  <2>5. ClientInv'
    BY <1>1, <2>3, <2>4 DEF UploadInv, ClientInv, client, http_copy, local
  <2> QED
    BY <1>1, <2>2, <2>5, PutStepServedInv DEF UploadInv
<1>2. CASE HangUp /\ UNCHANGED http_copy
  <2>1. /\ UNCHANGED <<file, client, got, kept, remaining, getVars, history, http_copy>>
        /\ pstat' = [pstat EXCEPT ![c] = "unanswered"]
        /\ pstat'[c] = "unanswered"
    BY <1>2, OneClient DEF HangUp, UploadInv, PutInv, PutTypeOK
  <2>2. PutInv' /\ FileTypeOK' /\ SoleInv' /\ ServedInv'
    BY <2>1, OneClient
       DEF UploadInv, PutInv, PutTypeOK, CountersInv, FileTypeOK, SoleInv, ServedInv,
           client, getVars, history
  <2>3. UploadTypeOK'
    BY <2>1, <2>2 DEF UploadInv, PutInv, ClientInv, UploadTypeOK, http_copy, local
  <2>4. ClientInv'
    BY <2>1, <2>3 DEF UploadInv, ClientInv, client, http_copy, local
  <2> QED
    BY <2>2, <2>4 DEF UploadInv
<1>3. asked \in BOOLEAN
  BY DEF UploadInv, ClientInv, UploadTypeOK
<1> QED
  BY <1>1, <1>2, <1>3 DEF ServerStep

LEMMA UploadInvariant == UploadSpec => []UploadInv
<1>1. UploadInit => UploadInv
  <2> SUFFICES ASSUME UploadInit PROVE UploadInv
    OBVIOUS
  <2>1. PutInv
    BY TransferAssumption DEF UploadInit, ServerInit, PutInv, PutTypeOK, CountersInv
  <2>2. FileTypeOK
    <3>1. file \in [1..OldSize -> Byte]
      BY DEF UploadInit, ServerInit, Byte
    <3>2. file \in Seq(Byte) /\ Len(file) < SizeMod
      BY <3>1, TransferAssumption DEF UploadInit, ServerInit
    <3> QED
      BY <3>2, TransferAssumption DEF UploadInit, ServerInit, FileTypeOK
  <2>3. SoleInv /\ ServedInv
    BY OneClient DEF UploadInit, ServerInit, SoleInv, ServedInv
  <2>4. UploadTypeOK
    <3>1. room \in 1..Block
      BY UploadAssumption DEF UploadInit
    <3>2. asked = FALSE /\ sized \in BOOLEAN /\ disturbed = FALSE /\ fault = FALSE
      BY DEF UploadInit
    <3>3. cpc = "connect" /\ link = "none" /\ length \in 0..MaxBody - 1
      BY DEF UploadInit
    <3> QED
      BY <2>1, <3>1, <3>2, <3>3 DEF PutInv, UploadTypeOK
  <2>5. body[c] = 0 /\ open[c] = TRUE /\ pstat[c] = "request" /\ length \in Nat
    BY OneClient, TransferAssumption DEF UploadInit, ServerInit
  <2>6. ClientInv
    BY <2>4, <2>5 DEF UploadInit, ClientInv, Ends
  <2> QED
    BY <2>1, <2>2, <2>3, <2>6 DEF UploadInv
<1>2. UploadInv /\ [UploadNext]_uploadVars => UploadInv'
  <2> SUFFICES ASSUME UploadInv, [UploadNext]_uploadVars
               PROVE  UploadInv'
    OBVIOUS
  <2>1. CASE UNCHANGED uploadVars
    <3>1. UNCHANGED <<file, client, putVars, getVars, history, cpc, link, asked, local>>
      BY <2>1 DEF uploadVars, vars, http_copy
    <3>2. PutInv' /\ FileTypeOK' /\ SoleInv' /\ ServedInv'
      BY <3>1 DEF UploadInv, PutInv, PutTypeOK, CountersInv, FileTypeOK, SoleInv, ServedInv,
                  client, putVars, getVars, history
    <3>3. ClientInv'
      BY <3>1 DEF UploadInv, PutTypeOK, ClientInv, UploadTypeOK, client, putVars, local
    <3> QED
      BY <3>2, <3>3 DEF UploadInv
  <2> QED
    BY <2>1, ClientStepInv, ChangeFileInv, ServerStepInv, BreakOffInv, ServerReadFailsInv
       DEF UploadNext
<1> QED
  BY <1>1, <1>2, PTL DEF UploadSpec

\* Every variable of client and server keeps its type.
THEOREM UploadTypeInvariant == UploadSpec => []UploadTypeOK
BY UploadInvariant, PTL DEF UploadInv, ClientInv

\* The flags are either true or false.
LEMMA Flags ==
  UploadInv => /\ sized \in BOOLEAN /\ disturbed \in BOOLEAN /\ fault \in BOOLEAN
               /\ broken[c] \in BOOLEAN
BY OneClient DEF UploadInv, ClientInv, UploadTypeOK, FileTypeOK

\* What a confirmation means, if nobody else changed the file: the client has read and
\* sent all of it, and the server kept what it was sent.
LEMMA ConfirmedIsAll ==
  ASSUME UploadInv, pstat[c] = "created", disturbed = FALSE
  PROVE  /\ asked = TRUE
         /\ kept[c] = length /\ got[c] = length /\ sent[c] = length /\ body[c] = length
<1>1. /\ kept[c] \in 0..MaxBody /\ got[c] \in 0..MaxBody /\ sent[c] \in 0..MaxBody
      /\ body[c] \in 0..MaxBody /\ declared[c] \in 0..MaxBody
      /\ kept[c] <= got[c] /\ got[c] <= sent[c] /\ sent[c] <= body[c]
      /\ Minus(declared[c], kept[c]) = 0
  BY OneClient DEF UploadInv, PutInv, PutTypeOK, CountersInv
<1>2. asked = TRUE
  BY DEF UploadInv, ClientInv, UploadTypeOK
<1>3. declared[c] \in {length, MaxBody} /\ body[c] <= length /\ length \in 0..MaxBody - 1
  BY <1>2 DEF UploadInv, ClientInv, UploadTypeOK
<1>4. declared[c] = kept[c]
  BY <1>1, MinusZero
<1> QED
  BY <1>1, <1>2, <1>3, <1>4, TransferAssumption

\* 201 Created is given for the client's file byte for byte, through any buffer and any
\* connection, unless the file was changed meanwhile.
THEOREM ConfirmedFileIsStored == UploadSpec => []StoredIsSource
<1>1. UploadInv => StoredIsSource
  <2> SUFFICES ASSUME UploadInv, pstat[c] = "created", disturbed = FALSE
               PROVE  file = [i \in 1..length |-> <<c, i>>]
    BY Flags DEF StoredIsSource
  <2>1. kept[c] = length /\ got[c] = length
    BY ConfirmedIsAll
  <2>2. file = Beginning(c, length)
    BY <2>1, OneClient DEF UploadInv, ServedInv, SoleInv
  <2> QED
    BY <2>2 DEF Beginning
<1> QED
  BY <1>1, UploadInvariant, PTL

\* A client whose upload the server has confirmed is neither killed nor fails, unless
\* its own file fails it or was changed.
THEOREM ConfirmedClientSucceeds == UploadSpec => []ConfirmedSucceeds
<1>1. UploadInv => ConfirmedSucceeds
  <2> SUFFICES ASSUME UploadInv, pstat[c] = "created", disturbed = FALSE, fault = FALSE
               PROVE  cpc \notin {"failed", "killed"}
    BY Flags DEF ConfirmedSucceeds
  <2>1. asked = TRUE /\ sent[c] = length /\ body[c] = length /\ length \in Int
    <3>1. length \in Int
      BY TransferAssumption DEF UploadInv, ClientInv, UploadTypeOK
    <3> QED
      BY <3>1, ConfirmedIsAll
  <2>2. ~(sent[c] < body[c])
    BY <2>1
  <2> QED
    BY <2>1, <2>2 DEF UploadInv, ClientInv
<1> QED
  BY <1>1, UploadInvariant, PTL

\* Where the client is content and the server is not, the file could not tell its size,
\* was changed, or had a CRLF in what came with the header, or a read of its body failed
\* at the server.
THEOREM RefusalsAreExplained == UploadSpec => []RefusalIsExplained
<1>1. UploadInv => RefusalIsExplained
  <2> SUFFICES ASSUME UploadInv, pstat[c] = "bad", cpc = "ok",
                      sized = TRUE, disturbed = FALSE, broken[c] = FALSE
               PROVE  crlf[c] < declared[c]
    BY Flags DEF RefusalIsExplained
  <2>1. asked = TRUE
    BY DEF UploadInv, ClientInv, UploadTypeOK
  <2>2. /\ declared[c] = length /\ sent[c] = body[c]
        /\ body[c] >= length /\ body[c] <= length
    BY <2>1 DEF UploadInv, ClientInv
  <2>3. body[c] \in Int /\ length \in Int
    BY OneClient, TransferAssumption DEF UploadInv, ClientInv, UploadTypeOK, PutTypeOK
  <2>4. got[c] = declared[c]
    BY <2>2, <2>3 DEF UploadInv, ServedInv
  <2> QED
    BY <2>4 DEF UploadInv, ServedInv
<1> QED
  BY <1>1, UploadInvariant, PTL
==============================================================================
