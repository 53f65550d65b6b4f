-------------------------------- MODULE Retries --------------------------------
(***************************************************************************)
(* The loops around read(2), write(2) and send(2): socket_write            *)
(* (src/server/socket.c), VERBOSE (src/server/util.h), and the client's    *)
(* FileDescriptor::read, ::writeCharBuffer and Socket::send                *)
(* (src/client/filedescriptor.cc, socket.hh).  The kernel takes some of the *)
(* bytes, is interrupted by a signal, would block, or fails.               *)
(*                                                                         *)
(* A byte is its place in the buffer, counted from one.                    *)
(***************************************************************************)
EXTENDS Integers, Sequences

CONSTANTS
  MaxCount,         \* bound: bytes of a buffer
  MaxInterrupts     \* bound: signals that interrupt one loop

ASSUME RetriesAssumption == MaxCount \in Nat /\ MaxInterrupts \in Nat

VARIABLES
  loop,             \* which of them
  total,            \* bytes of the buffer
  written,          \* written_total, bytes_written, bytes_read
  left,             \* count, bytes_remaining
  out,              \* the places the kernel has read or filled, in order
  interrupts,       \* history: signals so far
  ended,            \* "no", "counted", or "error"
  retval            \* the count it returns

retryVars == <<loop, total, written, left, out, interrupts, ended, retval>>

Loops == {"socket_write", "VERBOSE", "read", "writeCharBuffer", "send"}

RetriesTypeOK ==
  /\ loop \in Loops
  /\ total \in 0..MaxCount
  /\ written \in -MaxInterrupts..MaxCount
  /\ left \in 0..MaxCount + MaxInterrupts
  /\ out \in Seq(Int)
  /\ interrupts \in 0..MaxInterrupts
  /\ ended \in {"no", "counted", "error"}
  /\ retval \in Int

RetriesInit ==
  /\ loop \in Loops
  /\ total \in 0..MaxCount
  /\ written = 0
  /\ left = total
  /\ out = <<>>
  /\ interrupts = 0
  /\ ended = "no"
  /\ retval = 0

Running == ended = "no" /\ left > 0

\* The loop ends, and returns so many.
Count(n) == ended' = "counted" /\ retval' = n

\* Mutant of Pass: the buffer is written from its beginning again.
PassFromStart ==
  /\ Running
  /\ \E n \in 1..left :
       /\ out' = out \o [i \in 1..n |-> i]
       /\ written' = written + n
       /\ left' = left - n
  /\ UNCHANGED <<loop, total, interrupts, ended, retval>>

\* The kernel takes n bytes; send leaves the rest to its caller.
Pass ==
  /\ Running
  /\ \E n \in 1..left :
       /\ out' = out \o [i \in 1..n |-> written + i]
       /\ written' = written + n
       /\ left' = left - n
       /\ IF loop = "send" THEN Count(n) ELSE UNCHANGED <<ended, retval>>
  /\ UNCHANGED <<loop, total, interrupts>>

\* Mutant of Interrupted: a log line goes on one byte further, not back.
SkipOne ==
  /\ Running /\ interrupts < MaxInterrupts
  /\ interrupts' = interrupts + 1
  /\ IF loop = "VERBOSE"
       THEN written' = written + 1 /\ left' = left - 1
       ELSE UNCHANGED <<written, left>>
  /\ UNCHANGED <<loop, total, out, ended, retval>>

\* EINTR: called again.  VERBOSE counts the -1 it got, both are a size_t that wrap
\* to one byte before, and one byte more.
Interrupted ==
  /\ Running /\ interrupts < MaxInterrupts
  /\ interrupts' = interrupts + 1
  /\ IF loop = "VERBOSE"
       THEN written' = written - 1 /\ left' = left + 1
       ELSE UNCHANGED <<written, left>>
  /\ UNCHANGED <<loop, total, out, ended, retval>>

\* EAGAIN: socket_write returns what it has; to the others it is an error.
WouldBlock ==
  /\ Running /\ loop = "socket_write"
  /\ Count(written)
  /\ UNCHANGED <<loop, total, written, left, out, interrupts>>

\* -1, an exception, or, of a log line, nothing.
Fail ==
  /\ Running
  /\ ended' = "error"
  /\ UNCHANGED <<loop, total, written, left, out, interrupts, retval>>

EndOfFile ==
  /\ Running /\ loop = "read"
  /\ Count(written)
  /\ UNCHANGED <<loop, total, written, left, out, interrupts>>

Finish ==
  /\ ended = "no" /\ left = 0
  /\ Count(written)
  /\ UNCHANGED <<loop, total, written, left, out, interrupts>>

RetriesNext ==
  Pass \/ Interrupted \/ WouldBlock \/ Fail \/ EndOfFile \/ Finish

RetriesSpec == RetriesInit /\ [][RetriesNext]_retryVars

(***************************************************************************)
(* Properties                                                              *)
(***************************************************************************)

\* What a loop has moved is the beginning of its buffer, no byte twice or left
\* out, whatever interrupted it; and a count it returns is that of those bytes.
OutIsPrefix ==
  loop # "VERBOSE" =>
    /\ out = [i \in 1..written |-> i]
    /\ ended = "counted" => retval = Len(out)

\* A log line that meets no error comes out whole, up to its last byte, with one
\* byte too many for every signal: one again, or one from before its buffer.
LineIsWhole ==
  loop = "VERBOSE" /\ ended = "counted" =>
    /\ Len(out) = total + interrupts
    /\ \A p \in 1..total : \E i \in DOMAIN out : out[i] = p
    /\ \A i \in 1..Len(out) - 1 : out[i + 1] <= out[i] + 1
==============================================================================
