----------------------------- MODULE FileTransfer -----------------------------
(***************************************************************************)
(* The bytes that PUT and GET workers of httpdnsd move to and from one     *)
(* file (src/server/httpserver.c, httpserver_reply_put and                 *)
(* httpserver_reply_get_file), with no lock between them.  Opening,        *)
(* replying and closing are in RequestWorker.                              *)
(*                                                                         *)
(* A byte of the file is a pair: who wrote it, and its place in his body.  *)
(***************************************************************************)
EXTENDS Integers, Sequences

CONSTANTS
  Putters,          \* workers that serve a PUT of the file
  Getters,          \* workers that serve a GET of the file
  Buf,              \* bytes one read() can yield (8192 in the code)
  MaxBody,          \* bound: bytes declared, and bytes sent, by a client
  SizeMod,          \* 2^w for the w bits of size_t
  OldSize           \* bytes in the file at first

ASSUME TransferAssumption ==
  /\ Buf \in Nat \ {0}
  /\ MaxBody \in Nat
  /\ SizeMod \in Nat /\ SizeMod > MaxBody /\ SizeMod > OldSize
  /\ OldSize \in Nat

VARIABLES
  file,             \* the bytes of the file
  pstat,            \* how far each PUT is, and how it was answered
  declared,         \* the Content-Length its client sent
  body,             \* the bytes its client has to send
  crlf,             \* where the first CRLF string_split sees in them begins
  sent,             \* bytes its client has sent
  open,             \* TRUE until its client closes the connection
  got,              \* bytes the worker has read from the connection
  kept,             \* bytes it has written to the file: its file offset
  remaining,        \* content_length: a size_t
  gstat,            \* how far each GET is
  promised,         \* history: the file when its size was put in the header
  received,         \* bytes the worker has sent after the header
  left,             \* bytes_remaining: a size_t
  stalled,          \* TRUE while the connection has no room for the next bytes
  touched,          \* history: a PUT wrote or truncated the file meanwhile
  sole,             \* history: the PUT with the file to itself, if there is one
  broken            \* history: a read of the PUT's body failed

client == <<declared, body, crlf, sent, open>>
putVars == <<pstat, got, kept, remaining>>
getVars == <<gstat, promised, received, left, stalled>>
history == <<touched, sole, broken>>
vars == <<file, client, putVars, getVars, history>>

Byte == (Putters \X (1..MaxBody)) \cup ({"old"} \X (1..OldSize)) \cup {<<"hole", 0>>}

PutTypeOK ==
  /\ pstat \in [Putters -> {"request", "lead", "body", "created", "bad",
                            "failed", "unanswered"}]
  /\ declared \in [Putters -> 0..MaxBody]
  /\ body \in [Putters -> 0..MaxBody]
  /\ crlf \in [Putters -> 1..MaxBody + 1]
  /\ sent \in [Putters -> 0..MaxBody]
  /\ open \in [Putters -> BOOLEAN]
  /\ got \in [Putters -> 0..MaxBody]
  /\ kept \in [Putters -> 0..MaxBody]
  /\ remaining \in [Putters -> 0..SizeMod - 1]

TypeOK ==
  /\ PutTypeOK
  /\ file \in Seq(Byte)
  /\ gstat \in [Getters -> {"header", "copy", "done", "aborted"}]
  /\ promised \in [Getters -> Seq(Byte)]
  /\ received \in [Getters -> Seq(Byte)]
  /\ left \in [Getters -> 0..SizeMod - 1]
  /\ stalled \in [Getters -> BOOLEAN]
  /\ touched \in [Getters -> BOOLEAN]
  /\ sole \subseteq Putters
  /\ broken \in [Putters -> BOOLEAN]

\* What the workers start with.
ServerInit ==
  /\ file = [i \in 1..OldSize |-> <<"old", i>>]
  /\ pstat = [p \in Putters |-> "request"]
  /\ got = [p \in Putters |-> 0]
  /\ kept = [p \in Putters |-> 0]
  /\ remaining = [p \in Putters |-> 0]
  /\ gstat = [g \in Getters |-> "header"]
  /\ promised = [g \in Getters |-> <<>>]
  /\ received = [g \in Getters |-> <<>>]
  /\ left = [g \in Getters |-> 0]
  /\ stalled = [g \in Getters |-> FALSE]
  /\ touched = [g \in Getters |-> FALSE]
  /\ sole = {}
  /\ broken = [p \in Putters |-> FALSE]

\* A crlf past every body: there is none, or it lies behind a zero byte.
ClientInit ==
  /\ declared \in [Putters -> 0..MaxBody]
  /\ body \in [Putters -> 0..MaxBody]
  /\ crlf \in [Putters -> 1..MaxBody + 1]
  /\ \A p \in Putters : crlf[p] < body[p] \/ crlf[p] = MaxBody + 1
  /\ sent = [p \in Putters |-> 0]
  /\ open = [p \in Putters |-> TRUE]

Init == ServerInit /\ ClientInit

Smaller(a, b) == IF a < b THEN a ELSE b
Larger(a, b) == IF a < b THEN b ELSE a

\* a - b in a size_t.
Minus(a, b) == IF a >= b THEN a - b ELSE a - b + SizeMod

\* n bytes of p from its byte `from + 1' on, written at offset `off'.  Writing
\* behind the end of the file leaves a hole, writing nothing does not.
Written(p, from, n, off) ==
  IF n = 0 THEN file
  ELSE [i \in 1..Larger(Len(file), off + n) |->
          CASE i \in off + 1..off + n -> <<p, from + i - off>>
            [] i <= Len(file) /\ i \notin off + 1..off + n -> file[i]
            [] OTHER -> <<"hole", 0>>]

\* Any change of the file is one under every GET that is copying it.
Touch == touched' = [g \in Getters |-> touched[g] \/ gstat[g] = "copy"]

(***************************************************************************)
(* PUT                                                                     *)
(***************************************************************************)

\* Mutant of TakeRequest: the file is not truncated.
TakeWithoutTruncating(p) ==
  /\ pstat[p] = "request"
  /\ \E k \in 0..Smaller(Buf, sent[p]) : got' = [got EXCEPT ![p] = k]
  /\ pstat' = [pstat EXCEPT ![p] = "lead"]
  /\ remaining' = [remaining EXCEPT ![p] = declared[p]]
  /\ sole' = {p}
  /\ UNCHANGED <<file, client, kept, getVars, touched, broken>>

\* The read that yields the header, with k bytes of the body behind it; the
\* file is created or truncated.
TakeRequest(p) ==
  /\ pstat[p] = "request"
  /\ \E k \in 0..Smaller(Buf, sent[p]) : got' = [got EXCEPT ![p] = k]
  /\ \/ /\ pstat' = [pstat EXCEPT ![p] = "lead"]
        /\ remaining' = [remaining EXCEPT ![p] = declared[p]]
        /\ file' = <<>>
        /\ Touch
        /\ UNCHANGED broken
        /\ sole' = IF \E q \in Putters \ {p} : pstat[q] \in {"lead", "body"}
                     THEN {} ELSE {p}
     \/ /\ pstat' = [pstat EXCEPT ![p] = "unanswered"]
        /\ UNCHANGED <<remaining, file, history>>
  /\ UNCHANGED <<client, kept, getVars>>

\* The header is split at CRLF, and so are the bytes behind it: the one field
\* that is kept ends at the first CRLF wholly in them (StringSplit).
Lead(p) == IF got[p] > crlf[p] THEN crlf[p] - 1 ELSE got[p]

\* Mutant of WriteLead: what came with the header counts as written.
CountAllOfTheLead(p) ==
  /\ pstat[p] = "lead"
  /\ file' = Written(p, 0, Lead(p), 0)
  /\ kept' = [kept EXCEPT ![p] = Lead(p)]
  /\ remaining' = [remaining EXCEPT ![p] = Minus(@, got[p])]
  /\ pstat' = [pstat EXCEPT ![p] = "body"]
  /\ Touch
  /\ UNCHANGED <<client, got, getVars, sole, broken>>

\* The rest of those bytes is in fields nobody looks at.  A write that fails may
\* have stored the first m bytes.
WriteLead(p) ==
  /\ pstat[p] = "lead"
  /\ \E m \in 0..Lead(p) :
       /\ file' = Written(p, 0, m, 0)
       /\ kept' = [kept EXCEPT ![p] = m]
       /\ \/ /\ m = Lead(p)
             /\ remaining' = [remaining EXCEPT ![p] = Minus(@, m)]
             /\ pstat' = [pstat EXCEPT ![p] = "body"]
          \/ /\ m < Lead(p)
             /\ pstat' = [pstat EXCEPT ![p] = "failed"]
             /\ UNCHANGED remaining
  /\ Touch
  /\ UNCHANGED <<client, got, getVars, sole, broken>>

\* One pass of the copy loop.  A read may yield more than is remaining.
CopyBody(p) ==
  /\ pstat[p] = "body"
  /\ remaining[p] > 0
  /\ \E n \in 1..Smaller(Buf, sent[p] - got[p]) :
       /\ got' = [got EXCEPT ![p] = @ + n]
       /\ remaining' = [remaining EXCEPT ![p] = Minus(@, n)]
       /\ \E m \in 0..n :
            /\ file' = Written(p, got[p], m, kept[p])
            /\ kept' = [kept EXCEPT ![p] = @ + m]
            /\ pstat' = IF m = n THEN pstat ELSE [pstat EXCEPT ![p] = "failed"]
  /\ Touch
  /\ UNCHANGED <<client, getVars, sole, broken>>

\* Mutant of CutShort: end of file is read again and again.
ReadEndOfFile(p) ==
  /\ pstat[p] = "body"
  /\ remaining[p] > 0
  /\ got[p] = sent[p] /\ ~open[p]
  /\ UNCHANGED vars

\* End of file with bytes remaining.
CutShort(p) ==
  /\ pstat[p] = "body"
  /\ remaining[p] > 0
  /\ got[p] = sent[p] /\ ~open[p]
  /\ pstat' = [pstat EXCEPT ![p] = "bad"]
  /\ UNCHANGED <<file, client, got, kept, remaining, getVars, history>>

\* The read fails with bytes remaining, and is not tried again: a signal delivered to
\* the thread while it waits, or a connection that was reset.  It is answered as end of
\* file is.
ReadFails(p) ==
  /\ pstat[p] = "body"
  /\ remaining[p] > 0
  /\ pstat' = [pstat EXCEPT ![p] = "bad"]
  /\ broken' = [broken EXCEPT ![p] = TRUE]
  /\ UNCHANGED <<file, client, got, kept, remaining, getVars, touched, sole>>

Confirm(p) ==
  /\ pstat[p] = "body"
  /\ remaining[p] = 0
  /\ pstat' = [pstat EXCEPT ![p] = "created"]
  /\ UNCHANGED <<file, client, got, kept, remaining, getVars, history>>

(***************************************************************************)
(* GET                                                                     *)
(***************************************************************************)

\* Mutant of PromiseSize: the last byte is not counted.
PromiseOneLess(g) ==
  /\ gstat[g] = "header"
  /\ promised' = [promised EXCEPT ![g] = file]
  /\ left' = [left EXCEPT ![g] = Larger(0, Len(file) - 1)]
  /\ gstat' = [gstat EXCEPT ![g] = "copy"]
  /\ UNCHANGED <<file, client, putVars, received, stalled, history>>

\* lseek to the end for the size, which goes into the header.
PromiseSize(g) ==
  /\ gstat[g] = "header"
  /\ promised' = [promised EXCEPT ![g] = file]
  /\ left' = [left EXCEPT ![g] = Len(file)]
  /\ gstat' = [gstat EXCEPT ![g] = "copy"]
  /\ UNCHANGED <<file, client, putVars, received, stalled, history>>

\* Mutant of CopyFile: a whole buffer is counted, however little was read.
CountBuffers(g) ==
  /\ gstat[g] = "copy"
  /\ left[g] > 0
  /\ LET pos == Len(received[g])
         n == Smaller(Buf, Larger(0, Len(file) - pos))
     IN  /\ received' = [received EXCEPT ![g] = @ \o SubSeq(file, pos + 1, pos + n)]
         /\ left' = [left EXCEPT ![g] = Minus(@, Buf)]
  /\ UNCHANGED <<file, client, putVars, gstat, promised, stalled, history>>

\* One pass of the copy loop.  A read at the end of the file yields nothing,
\* and the loop goes round again.  What is written may fill the connection, and the
\* next write then stays in write(2) until the client has read of it.
CopyFile(g) ==
  /\ gstat[g] = "copy"
  /\ left[g] > 0
  /\ ~stalled[g]
  /\ LET pos == Len(received[g])
         n == Smaller(Buf, Larger(0, Len(file) - pos))
     IN  /\ received' = [received EXCEPT ![g] = @ \o SubSeq(file, pos + 1, pos + n)]
         /\ left' = [left EXCEPT ![g] = Minus(@, n)]
         /\ \E full \in BOOLEAN :
              (full => n > 0) /\ stalled' = [stalled EXCEPT ![g] = full]
  /\ UNCHANGED <<file, client, putVars, gstat, promised, history>>

FinishGet(g) ==
  /\ gstat[g] = "copy"
  /\ left[g] = 0
  /\ gstat' = [gstat EXCEPT ![g] = "done"]
  /\ UNCHANGED <<file, client, putVars, promised, received, left, stalled, history>>

\* The disk fails under the read, or the client has reset the connection.
AbortGet(g) ==
  /\ gstat[g] = "copy"
  /\ left[g] > 0
  /\ gstat' = [gstat EXCEPT ![g] = "aborted"]
  /\ UNCHANGED <<file, client, putVars, promised, received, left, stalled, history>>

(***************************************************************************)
(* The clients                                                             *)
(***************************************************************************)

\* A client of a GET reads some of what is in its connection.
MakeRoom(g) ==
  /\ stalled[g]
  /\ stalled' = [stalled EXCEPT ![g] = FALSE]
  /\ UNCHANGED <<file, client, putVars, gstat, promised, received, left, history>>

SendBody(p) ==
  /\ open[p]
  /\ \E s \in sent[p] + 1..body[p] : sent' = [sent EXCEPT ![p] = s]
  /\ UNCHANGED <<file, declared, body, crlf, open, putVars, getVars, history>>

\* A client may close at any time, also before it has sent what it declared.
CloseClient(p) ==
  /\ open[p]
  /\ open' = [open EXCEPT ![p] = FALSE]
  /\ UNCHANGED <<file, declared, body, crlf, sent, putVars, getVars, history>>

PutStep(p) == TakeRequest(p) \/ WriteLead(p) \/ CopyBody(p) \/ CutShort(p) \/ Confirm(p)
GetStep(g) == PromiseSize(g) \/ CopyFile(g) \/ FinishGet(g)

Next ==
  \/ \E p \in Putters : PutStep(p) \/ ReadFails(p) \/ SendBody(p) \/ CloseClient(p)
  \/ \E g \in Getters : GetStep(g) \/ AbortGet(g) \/ MakeRoom(g)

Spec == Init /\ [][Next]_vars

\* Every worker thread is scheduled; nothing is assumed of the clients.
FairSpec ==
  /\ Spec
  /\ \A p \in Putters : WF_vars(PutStep(p))
  /\ \A g \in Getters : WF_vars(GetStep(g))

(***************************************************************************)
(* Properties                                                              *)
(***************************************************************************)

\* A client that sends what it declares is honest.
Honest(p) == body[p] = declared[p]

\* 201 Created is the answer to as many bytes in the file as were declared, and
\* to an honest client to all of its bytes, none dropped on the way.
CreatedIsComplete ==
  \A p \in Putters : pstat[p] = "created" =>
    /\ kept[p] = declared[p]
    /\ Honest(p) => got[p] = kept[p]

\* The invariant that is inductive: content_length is, in a size_t, what is still
\* missing in the file, and no more is kept than read, nor read than sent.
CountersInv ==
  \A p \in Putters :
    /\ kept[p] <= got[p] /\ got[p] <= sent[p] /\ sent[p] <= body[p]
    /\ pstat[p] \in {"request", "lead"} => kept[p] = 0
    /\ pstat[p] = "lead" => remaining[p] = declared[p]
    /\ pstat[p] \in {"body", "created"} => remaining[p] = Minus(declared[p], kept[p])
    /\ pstat[p] = "created" => remaining[p] = 0

\* A PUT that had the file to itself, from its opening to its confirmation,
\* leaves there its client's body, byte for byte, until the next one opens it.
CreatedIsTheBody ==
  \A p \in sole : pstat[p] = "created" /\ Honest(p) =>
    file = [i \in 1..declared[p] |-> <<p, i>>]

\* A GET no PUT touches sends the file as it was, never more, never less.
GetIsFaithful ==
  \A g \in Getters : ~touched[g] =>
    /\ received[g] = SubSeq(promised[g], 1, Len(received[g]))
    /\ gstat[g] = "done" => received[g] = promised[g]

\* The client of a GET has left no room and reads no more: no timeout ends the write.
Blocked(g) == gstat[g] = "copy" /\ stalled[g]

\* A GET comes to its end, unless its client stops reading for ever, or a PUT touches
\* the file under it: a file that shrinks leaves it spinning at the end of file.
GetEnds ==
  \A g \in Getters :
    \/ <>[]Blocked(g)
    \/ (gstat[g] = "copy" ~> gstat[g] \in {"done", "aborted"} \/ touched[g])

\* A PUT comes to its end, unless its client keeps an idle connection open.
PutEnds ==
  \A p \in Putters :
    []<>(pstat[p] \notin {"request", "lead", "body"} \/ (open[p] /\ got[p] = sent[p]))

(***************************************************************************)
(* What a comment of the code says, and the code does not do               *)
(***************************************************************************)

\* "Could not read while content still remaining -- bad request"
\* (httpserver.c:267): a client gets it for sending less than it declared, unless
\* reading from it failed.
BadRequestIsShort ==
  \A p \in Putters : pstat[p] = "bad" /\ ~broken[p] /\ Honest(p) => sent[p] < declared[p]
==============================================================================
