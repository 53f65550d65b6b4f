----------------------------- MODULE Registration -----------------------------
(***************************************************************************)
(* Registering with the central bookkeeping server and deregistering       *)
(* (httpserver_register and httpserver_deregister in                       *)
(* src/server/httpserver.c, http_put_buf in src/server/http.c): a PUT of a *)
(* line to a file of the central server, and a PUT of nothing.             *)
(*                                                                         *)
(* Every attempt uses a connection of its own, so that a request whose     *)
(* answer was never read may still be on its way when the next one is      *)
(* made.  Listener counts each attempt as one step.                        *)
(***************************************************************************)
EXTENDS Naturals, Sequences

CONSTANTS
  MaxRetries,       \* attempts of each of the two loops (3 in the code)
  MaxSignals        \* bound: SIGINT and SIGTERM sent in one behaviour

ASSUME RegistrationAssumption ==
  /\ MaxRetries \in Nat \ {0}
  /\ MaxSignals \in Nat

VARIABLES
  phase,            \* which loop the listener thread is in
  step,             \* where in http_put_buf it stands
  max_retries,      \* the loop counter
  caught_signal,    \* the flag of httpserver.c
  signals,          \* history: SIGINT and SIGTERM sent so far
  requests,         \* "up" or "down": the PUTs that have reached the network
  answers,          \* what the central server has made of each of them
  listed,           \* TRUE while the central server lists this server
  heard,            \* TRUE while a 2xx line stands in the memory of response[]
  claims,           \* what each loop has reported, and on what ground
  abandoned         \* history: PUTs whose answer was never read

central == <<requests, answers, listed>>
vars == <<phase, step, max_retries, caught_signal, signals, central, heard,
          claims, abandoned>>

Phases == {"register", "run", "deregister", "done"}
Loops == {"register", "deregister"}

\* "failed": the read of the answer was interrupted.
TypeOK ==
  /\ phase \in Phases
  /\ step \in {"connect", "await", "failed"}
  /\ max_retries \in 0..MaxRetries
  /\ caught_signal \in BOOLEAN
  /\ signals \in 0..MaxSignals
  /\ requests \in Seq({"up", "down"})
  /\ answers \in Seq({"none", "2xx", "other"}) /\ Len(answers) = Len(requests)
  /\ listed \in BOOLEAN
  /\ heard \in BOOLEAN
  /\ claims \in [Loops -> {"none", "told", "stale"}]
  /\ abandoned \subseteq DOMAIN requests

Init ==
  /\ phase = "register"
  /\ step = "connect"
  /\ max_retries = MaxRetries
  /\ caught_signal = FALSE
  /\ signals = 0
  /\ requests = <<>>
  /\ answers = <<>>
  /\ listed = FALSE
  /\ heard = FALSE
  /\ claims = [l \in Loops |-> "none"]
  /\ abandoned = {}

NextPhase == IF phase = "register" THEN "run" ELSE "done"

\* The attempt returned a status in 200..299, and the loop ends.
Succeed(ground) ==
  /\ claims' = [claims EXCEPT ![phase] = ground]
  /\ phase' = NextPhase
  /\ step' = "connect"
  /\ UNCHANGED max_retries

\* Mutant of Fail: one attempt too many.
FailAndRetryOnce ==
  /\ max_retries' = IF max_retries = 0 THEN 0 ELSE max_retries - 1
  /\ phase' = IF max_retries = 0 THEN NextPhase ELSE phase
  /\ step' = "connect"
  /\ UNCHANGED claims

\* It returned another status or -1; the third time the loop gives up.
Fail ==
  /\ max_retries' = max_retries - 1
  /\ phase' = IF max_retries = 1 THEN NextPhase ELSE phase
  /\ step' = "connect"
  /\ UNCHANGED claims

\* Mutant of Request: deregistering repeats the line of the registration.
RequestUp == "up"

\* What the loop PUTs: "host:port", or nothing.
Request == IF phase = "register" THEN "up" ELSE "down"

\* socket_tcp_connect and the two writes.  When a write fails the connection
\* was reset, and this thread gets SIGPIPE.
Put ==
  /\ phase \in Loops /\ step = "connect"
  /\ \/ Fail /\ UNCHANGED <<caught_signal, requests, answers>>
     \/ Fail /\ caught_signal' = TRUE /\ UNCHANGED <<requests, answers>>
     \/ /\ requests' = Append(requests, Request)
        /\ answers' = Append(answers, "none")
        /\ step' = "await"
        /\ UNCHANGED <<phase, max_retries, claims, caught_signal>>
  /\ UNCHANGED <<signals, listed, heard, abandoned>>

Current == Len(requests)

\* Mutant of ReadAnswer: any status will do.
ReadAnyAnswer ==
  /\ phase \in Loops /\ step = "await"
  /\ answers[Current] # "none"
  /\ Succeed("told")
  /\ heard' = TRUE
  /\ UNCHANGED <<caught_signal, signals, central, abandoned>>

\* Mutant of ReadAnswer: the answer is read until it is the one hoped for.
ReadUntilAccepted ==
  /\ phase \in Loops /\ step = "await"
  /\ answers[Current] = "2xx" /\ Succeed("told") /\ heard' = TRUE
  /\ UNCHANGED <<caught_signal, signals, central, abandoned>>

\* The first line of the answer is read, once there is one: the read has no
\* timeout.
ReadAnswer ==
  /\ phase \in Loops /\ step = "await"
  /\ \/ answers[Current] = "2xx" /\ Succeed("told") /\ heard' = TRUE
     \/ answers[Current] = "other" /\ Fail /\ heard' = FALSE
  /\ UNCHANGED <<caught_signal, signals, central, abandoned>>

\* A read that fails leaves response[] as it was on the stack, where the answer
\* to an earlier PUT may still stand: undefined behaviour, of which that is one
\* outcome.
ReadFails ==
  /\ Fail \/ (heard /\ Succeed("stale"))
  /\ UNCHANGED heard

\* The connection ends before an answer came.  End of file empties response[]
\* and leaves the -1 in response_code; a reset is a read that fails.
ConnectionEnds ==
  /\ phase \in Loops /\ step = "await"
  /\ (Fail /\ heard' = FALSE) \/ ReadFails
  /\ abandoned' = abandoned \cup {Current}
  /\ UNCHANGED <<caught_signal, signals, central>>

\* A signal has interrupted the read, which is not tried again.
ReadInterrupted ==
  /\ phase \in Loops /\ step = "failed"
  /\ ReadFails
  /\ abandoned' = abandoned \cup {Current}
  /\ UNCHANGED <<caught_signal, signals, central>>

\* The accept loop in between, which only a caught signal ends.  Whether it does
\* is for Listener to say: the loop may be blind to it for ever.
StopServing ==
  /\ phase = "run"
  /\ caught_signal
  /\ phase' = "deregister"
  /\ max_retries' = MaxRetries
  /\ UNCHANGED <<step, caught_signal, signals, central, heard, claims, abandoned>>

\* A signal makes the read() of an answer fail, which is not tried again.
Signal ==
  /\ phase # "done"
  /\ signals < MaxSignals
  /\ signals' = signals + 1
  /\ caught_signal' = TRUE
  /\ step' \in IF step = "await" THEN {"await", "failed"} ELSE {step}
  /\ UNCHANGED <<phase, max_retries, central, heard, claims, abandoned>>

\* The central server carries out a PUT or refuses to, in no particular order,
\* and whether or not anybody still waits for its answer.
CentralHandles(i) ==
  /\ answers[i] = "none"
  /\ \/ answers' = [answers EXCEPT ![i] = "2xx"] /\ listed' = (requests[i] = "up")
     \/ answers' = [answers EXCEPT ![i] = "other"] /\ UNCHANGED listed
  /\ UNCHANGED <<phase, step, max_retries, caught_signal, signals, requests,
                 heard, claims, abandoned>>

\* What an attempt does without waiting for the central server.
Attempt == Put \/ ReadAnswer \/ ReadInterrupted

Next ==
  \/ Attempt \/ ConnectionEnds \/ StopServing \/ Signal
  \/ \E i \in DOMAIN requests : CentralHandles(i)

Spec == Init /\ [][Next]_vars

\* The listener thread is scheduled: it connects or fails to, and reads what has
\* come.  The central server need not answer, nor close or reset a connection.
FairSpec == Spec /\ WF_vars(Attempt)

(***************************************************************************)
(* Properties                                                              *)
(***************************************************************************)

\* "Registered" and "Deregistered" are logged when the central server has said
\* so, or when what it said to an earlier PUT is taken for its answer: the
\* server never claims to have registered on that ground, and never claims to
\* have deregistered on it unless it was registered or its PUTs were heard.
Accepted(kind) == \E i \in DOMAIN requests : requests[i] = kind /\ answers[i] = "2xx"
ClaimsAreTrue ==
  /\ claims["register"] # "none" => claims["register"] = "told" /\ Accepted("up")
  /\ claims["deregister"] = "told" => Accepted("down")
  /\ claims["deregister"] = "stale" => claims["register"] = "told" /\ abandoned # {}

\* A server that was told of its deregistration is not listed, then or later,
\* unless it has given up waiting for the answer to a registration: that PUT
\* may be carried out after the deregistration.
NoGhost ==
  claims["deregister"] = "told" /\ listed =>
    \E i \in abandoned : requests[i] = "up"

\* The invariant that is inductive: which requests each loop can have made, whose
\* answer is being waited for, who has given up on the others, and that a
\* leftover answer is one to a registration.
RequestsFollow ==
  /\ phase \in Loops => max_retries > 0
  /\ step \in {"await", "failed"} =>
       phase \in Loops /\ requests # <<>> /\ requests[Current] = Request
  /\ \A i \in DOMAIN requests :
       /\ requests[i] = "down" => phase \in {"deregister", "done"}
       /\ answers[i] = "none" =>
            i \in abandoned \/ (step \in {"await", "failed"} /\ i = Current)
AnswersFollow ==
  /\ phase = "register" => ~heard /\ claims["register"] = "none"
  /\ phase # "done" => claims["deregister"] = "none"
  /\ heard /\ phase # "done" => claims["register"] = "told"
  /\ Accepted("down") /\ listed => \E i \in abandoned : requests[i] = "up"
RegistrationInv ==
  /\ TypeOK
  /\ RequestsFollow
  /\ AnswersFollow
  /\ ClaimsAreTrue

\* To the listener each attempt is one step of its registration loops: they make
\* at most MaxRetries attempts each, and only a failed one raises SIGPIPE.
Point == CASE phase = "run" -> "loop" [] phase = "done" -> "close" [] OTHER -> phase
Socket == IF phase \in {"register", "run"} THEN "open" ELSE "shut"
View == INSTANCE Listener WITH
  Conns <- {}, MaxFds <- 1, conn <- [c \in {} |-> "idle"], late <- {},
  pc <- Point, listen_socket <- Socket, result <- "none"
LoopsOfListener == [][View!Next]_(View!vars)

\* The listener waits for an answer that has not come: http.c:58.
AwaitsCentral == step = "await" /\ answers[Current] = "none"

\* Each loop comes to its end, done or given up, unless the central server has
\* accepted a request and stays silent on it for ever: a signal, a refusal or a
\* lost connection never keeps the listener in a loop.
RegistrationEnds ==
  \/ <>[]AwaitsCentral
  \/ \A l \in Loops : (phase = l) ~> (phase # l)
==============================================================================
