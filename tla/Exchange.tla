------------------------------- MODULE Exchange -------------------------------
(***************************************************************************)
(* What a worker thread of httpdnsd promises a client whose connection it  *)
(* owns: at most one final reply, preceded at most by one 100 Continue     *)
(* when the client asked for it, and nothing once the connection is given  *)
(* up.  A reply may be missing altogether.                                 *)
(*                                                                         *)
(* RequestWorker implements this module under the mapping it defines.      *)
(***************************************************************************)
EXTENDS Naturals, Sequences

CONSTANT Finals     \* status codes that end an exchange

VARIABLES
  asks,             \* TRUE when the request asks for 100 Continue
  said,             \* status codes put on the wire so far
  over              \* TRUE once the connection is closed

exchangeVars == <<asks, said, over>>

Init ==
  /\ asks \in BOOLEAN
  /\ said = <<>>
  /\ over = FALSE

Continue ==
  /\ ~over
  /\ asks
  /\ said = <<>>
  /\ said' = <<100>>
  /\ UNCHANGED <<asks, over>>

Finish(code) ==
  /\ ~over
  /\ said \in {<<>>, <<100>>}
  /\ said' = Append(said, code)
  /\ UNCHANGED <<asks, over>>

HangUp ==
  /\ ~over
  /\ over' = TRUE
  /\ UNCHANGED <<asks, said>>

Next == Continue \/ (\E code \in Finals : Finish(code)) \/ HangUp

Spec == Init /\ [][Next]_exchangeVars
==============================================================================
