------------------------------ MODULE ClientGet ------------------------------
(***************************************************************************)
(* The GET of the command line client (src/client/httpgetput.hh,           *)
(* http_copy, with FileDescriptor::read and ::write): a response is read   *)
(* in blocks, its Content-Length and the end of its header are looked for, *)
(* and its body is copied into a file.                                     *)
(*                                                                         *)
(* A response is `header' bytes of header, the Content-Length line ending  *)
(* at `length_end', and a body; a byte of the file is its place in that    *)
(* body, or 0 when it was not in what the server sent.                     *)
(***************************************************************************)
EXTENDS Integers, Sequences

CONSTANTS
  Block,            \* bytes of a buffer (512 in the code)
  MaxHeader,        \* bound: bytes of a header
  MaxBody,          \* bound: bytes of a body, and of a declared length
  SizeMod           \* 2^w for the w bits of size_t

ASSUME ClientAssumption ==
  /\ Block \in Nat \ {0} /\ MaxHeader \in Nat \ {0} /\ MaxBody \in Nat
  /\ SizeMod \in Nat /\ SizeMod > Block + MaxBody

VARIABLES
  cpc,              \* where http_copy stands, or how it ended
  header,           \* bytes of the response's header
  length_end,       \* those up to the end of its Content-Length line, if any
  declared,         \* the Content-Length
  body,             \* bytes of the body the server means to send
  sent,             \* bytes of the response sent so far
  closed,           \* TRUE once the server has closed or reset the connection
  reset,            \* TRUE once it has reset it
  taken,            \* bytes of the response read so far
  blocks,           \* blocks appended to header_in
  content_len,      \* a size_t
  size,             \* content_buffer.size()
  target,           \* the bytes of the target file
  fault             \* history: the target file could not be written

response == <<header, length_end, declared, body>>
server == <<response, sent, closed, reset>>
vars == <<cpc, server, taken, blocks, content_len, size, target, fault>>

Ends == {"done", "failed", "undefined"}

\* length_end of a response without a Content-Length.
NoLength == 0

TypeOK ==
  /\ cpc \in {"length", "blank", "payload", "content"} \cup Ends
  /\ header \in 1..MaxHeader
  /\ length_end \in 0..MaxHeader
  /\ declared \in 0..MaxBody
  /\ body \in 0..MaxBody
  /\ sent \in 0..header + body
  /\ closed \in BOOLEAN
  /\ reset \in BOOLEAN
  /\ taken \in 0..sent
  /\ blocks \in 0..MaxHeader + MaxBody
  /\ content_len \in 0..SizeMod - 1
  /\ size \in 1..Block
  /\ target \in Seq(0..MaxBody)
  /\ fault \in BOOLEAN

\* A server may send no Content-Length, or write it in other letters.
Init ==
  /\ cpc = "length"
  /\ header \in 1..MaxHeader
  /\ length_end \in 1..header - 1 \cup {NoLength}
  /\ declared \in 0..MaxBody
  /\ body \in 0..MaxBody
  /\ sent = 0
  /\ closed = FALSE
  /\ reset = FALSE
  /\ taken = 0
  /\ blocks = 0
  /\ content_len = 0
  /\ size = Block
  /\ target = <<>>
  /\ fault = FALSE

Smaller(a, b) == IF a < b THEN a ELSE b

\* a - b in a size_t.
Minus(a, b) == IF a >= b THEN a - b ELSE a - b + SizeMod

\* FileDescriptor::read goes on until it has all it wants or the server has
\* closed the connection; of a connection that was reset it reads nothing.
ReadEnds(want) == sent - taken >= want \/ closed
Got(want) == Smaller(want, sent - taken)

\* Mutant of Fail: an end of file is no error.
IgnoreEndOfFile == UNCHANGED <<cpc, taken, blocks, content_len, size, target, fault>>

\* An exception is thrown.
Fail == cpc' = "failed" /\ UNCHANGED <<taken, blocks, content_len, size, target, fault>>

\* The two loops that look for the Content-Length and for the empty line: the
\* whole buffer is appended to header_in, however little was read.  Without a
\* Content-Length the first goes on through the body to the end of file.
ReadHeader ==
  /\ cpc \in {"length", "blank"}
  /\ ReadEnds(Block)
  /\ \/ (Got(Block) = 0 \/ reset) /\ Fail
     \/ /\ Got(Block) > 0 /\ ~reset
        /\ taken' = taken + Got(Block)
        /\ blocks' = blocks + 1
        /\ cpc' = CASE length_end = NoLength \/ length_end > taken' -> "length"
                    [] length_end \in 1..taken' /\ header > taken' -> "blank"
                    [] OTHER -> "payload"
        /\ UNCHANGED <<content_len, size, target, fault>>
  /\ UNCHANGED server

\* FileDescriptor::write of a buffer: all of it, or less and an exception.
Store(bytes) ==
  \E k \in 0..Len(bytes) :
    /\ target' = target \o SubSeq(bytes, 1, k)
    /\ fault' = (k < Len(bytes))

\* Mutants of CopyPayload: what came with the header is forgotten; it is stored,
\* but not counted.
SkipPayload ==
  /\ cpc = "payload"
  /\ content_len' = Minus(declared, Smaller(declared, taken - header))
  /\ cpc' = "content"
  /\ UNCHANGED <<server, taken, blocks, size, target, fault>>

PayloadNotCounted ==
  /\ cpc = "payload"
  /\ content_len' = declared
  /\ Store([i \in 1..Smaller(declared, taken - header) |-> i])
  /\ cpc' = "content"
  /\ UNCHANGED <<server, taken, blocks, size>>

\* The rest of the buffer goes to the file, also what lies behind the bytes that
\* were read; the place of the payload in header_in is looked up in the last
\* block, behind the end of which it lies if there was more than one.
CopyPayload ==
  /\ cpc = "payload"
  /\ \/ blocks > 1 /\ cpc' = "undefined" /\ UNCHANGED <<content_len, target, fault>>
     \/ /\ blocks = 1
        /\ content_len' = Minus(declared, Block - header)
        /\ Store([i \in 1..Block - header |-> IF header + i <= taken THEN i ELSE 0])
        /\ cpc' = IF fault' THEN "failed" ELSE "content"
  /\ UNCHANGED <<server, taken, blocks, size>>

\* Mutant of CopyContent: what was wanted is counted, not what was read.
CountWanted ==
  /\ cpc = "content"
  /\ content_len > 0
  /\ LET want == Smaller(size, content_len)
         n == Got(want)
     IN  /\ ReadEnds(want)
         /\ taken' = taken + n
         /\ content_len' = Minus(content_len, want)
         /\ size' = want
         /\ target' = target \o [i \in 1..want |-> IF i <= n THEN taken - header + i ELSE 0]
  /\ UNCHANGED <<cpc, server, blocks, fault>>

\* One pass of the copy loop.  The buffer shrinks for the last read, and the
\* whole of it is written.
CopyContent ==
  /\ cpc = "content"
  /\ content_len > 0
  /\ LET want == Smaller(size, content_len)
         n == Got(want)
     IN  /\ ReadEnds(want)
         /\ \/ (n = 0 \/ reset) /\ Fail
            \/ /\ n > 0 /\ ~reset
               /\ taken' = taken + n
               /\ content_len' = Minus(content_len, n)
               /\ size' = want
               /\ Store([i \in 1..want |-> IF i <= n THEN taken - header + i ELSE 0])
               /\ cpc' = IF fault' THEN "failed" ELSE cpc
               /\ UNCHANGED blocks
  /\ UNCHANGED server

Succeed ==
  /\ cpc = "content"
  /\ content_len = 0
  /\ cpc' = "done"
  /\ UNCHANGED <<server, taken, blocks, content_len, size, target, fault>>

ServerSends ==
  /\ ~closed
  /\ \E n \in sent + 1..header + body : sent' = n
  /\ UNCHANGED <<cpc, response, closed, reset, taken, blocks, content_len, size,
                 target, fault>>

\* It may close or reset the connection before it has sent all it meant to, or
\* keep it open.
ServerCloses ==
  /\ ~closed
  /\ closed' = TRUE
  /\ reset' \in BOOLEAN
  /\ UNCHANGED <<cpc, response, sent, taken, blocks, content_len, size, target, fault>>

ClientStep == ReadHeader \/ CopyPayload \/ CopyContent \/ Succeed

Next == ClientStep \/ ServerSends \/ ServerCloses

Spec == Init /\ [][Next]_vars

\* The client runs; nothing is assumed of the server.
FairSpec == Spec /\ WF_vars(ClientStep)

(***************************************************************************)
(* Properties                                                              *)
(***************************************************************************)

\* The server has closed before it had sent as much as it declared.
CutShort == closed /\ sent < header + declared

\* A client that reports success has the declared body in its file, byte for
\* byte, unless the server cut it short.
StoredIsExact ==
  cpc = "done" /\ ~CutShort => target = [i \in 1..declared |-> i]

\* A body cut short is reported as a failure, but for one that would just have
\* filled the first buffer: there the padding is taken for it.
CutShortIsNoticed == cpc = "done" /\ CutShort => header + declared = Block

\* A response with a Content-Length that is not cut short is stored, unless its
\* connection is reset, its file cannot be written, or it is smaller than a
\* buffer: then the padding counts for more than was declared, and content_len
\* wraps round.
WholeIsStored ==
  cpc = "failed" => \/ CutShort \/ reset \/ fault
                    \/ length_end = NoLength
                    \/ header + declared < Block

\* The invariant that is inductive.  Before the payload is copied: how far the
\* header has been read, and that a first block that is not full is all there is.
HeaderFollows ==
  /\ length_end < header
  /\ reset => closed
  /\ blocks <= taken /\ (blocks = 0 => taken = 0)
  /\ cpc = "length" => length_end = NoLength \/ length_end > taken
  /\ cpc = "blank" => header > taken
  /\ cpc \in {"length", "blank", "payload"} => target = <<>>
  /\ cpc = "payload" => header <= taken
  /\ cpc = "payload" /\ blocks = 1 =>
       taken = Block \/ (taken < Block /\ closed /\ sent = taken)

\* Behind it: the first block was not full, and nothing will follow; or
\* content_len is what is missing; or it has wrapped round, and is more than
\* any server will send.
NothingFollows ==
  /\ taken < Block /\ closed /\ sent = taken
  /\ content_len = Minus(declared, Block - header)
CountIsExact ==
  /\ content_len = declared - (taken - header)
  /\ CutShort \/ target = [i \in 1..taken - header |-> i]
CountIsWrapped ==
  /\ header + declared < Block /\ Block <= taken
  /\ content_len = declared - (taken - header) + SizeMod
ContentFollows ==
  cpc \in {"content", "done"} =>
    /\ header <= Block /\ header <= taken
    /\ NothingFollows \/ CountIsExact \/ CountIsWrapped
    /\ cpc = "done" => content_len = 0
ClientInv == TypeOK /\ HeaderFollows /\ ContentFollows /\ WholeIsStored

\* A client ends unless the server keeps a connection open on which it does not
\* send what the client waits for.
Waiting ==
  \/ cpc \in {"length", "blank"} /\ ~ReadEnds(Block)
  \/ cpc = "content" /\ content_len > 0 /\ ~ReadEnds(Smaller(size, content_len))
ClientEnds == []<>(cpc \in Ends \/ Waiting)
==============================================================================
