-------------------------- MODULE RegistrationProofs --------------------------
(***************************************************************************)
(* Proofs about Registration, for any number of attempts and of signals.   *)
(***************************************************************************)
EXTENDS Registration, TLAPS

Answer == {"none", "2xx", "other"}

\* Before the first attempt nothing has been asked, and nothing answered.
LEMMA InitRegistrationInv == Init => RegistrationInv
<1> SUFFICES ASSUME Init PROVE RegistrationInv
  OBVIOUS
<1>1. requests = <<>> /\ answers = <<>> /\ abandoned = {} /\ ~heard
  BY DEF Init
<1>2. TypeOK
  <2>1. requests \in Seq({"up", "down"}) /\ answers \in Seq(Answer)
    BY <1>1
  <2>2. Len(answers) = Len(requests) /\ abandoned \subseteq DOMAIN requests
    BY <1>1
  <2>3. claims \in [Loops -> {"none", "told", "stale"}]
    BY DEF Init
  <2>4. max_retries \in 0..MaxRetries /\ signals \in 0..MaxSignals
    BY RegistrationAssumption DEF Init
  <2>5. caught_signal \in BOOLEAN /\ listed \in BOOLEAN /\ heard \in BOOLEAN
    BY DEF Init
  <2>6. phase \in Phases /\ step \in {"connect", "await", "failed"}
    BY DEF Init, Phases
  <2> QED
    BY <2>1, <2>2, <2>3, <2>4, <2>5, <2>6 DEF TypeOK, Answer
<1>3. RequestsFollow
  BY RegistrationAssumption DEF Init, RequestsFollow, Loops
<1>4. AnswersFollow /\ ClaimsAreTrue
  BY DEF Init, AnswersFollow, ClaimsAreTrue, Accepted, Loops
<1> QED
  BY <1>2, <1>3, <1>4 DEF RegistrationInv

\* A failed attempt leaves what was claimed alone, and its loop with attempts
\* left or for good.
LEMMA FailFollows ==
  ASSUME RegistrationInv, phase \in Loops, Fail
  PROVE  /\ phase' \in {phase, NextPhase} /\ phase' \in Phases
         /\ max_retries' \in 0..MaxRetries
         /\ phase' \in Loops => max_retries' > 0
         /\ step' = "connect"
         /\ claims' = claims
BY RegistrationAssumption
   DEF RegistrationInv, TypeOK, RequestsFollow, Fail, NextPhase, Loops, Phases

\* A request that is made is one its loop may make, and is being waited for.
LEMMA PutRegistrationInv ==
  ASSUME RegistrationInv, Put
  PROVE  RegistrationInv'
<1>1. phase \in Loops /\ step = "connect" /\ UNCHANGED <<signals, listed, heard, abandoned>>
  BY DEF Put
<1>2. CASE Fail /\ caught_signal' \in BOOLEAN /\ UNCHANGED <<requests, answers>>
  <2>1. /\ phase' \in {phase, NextPhase} /\ phase' \in Phases
        /\ max_retries' \in 0..MaxRetries
        /\ phase' \in Loops => max_retries' > 0
        /\ step' = "connect"
        /\ claims' = claims
    BY <1>1, <1>2, FailFollows
  <2>2. TypeOK'
    BY <1>1, <1>2, <2>1 DEF RegistrationInv, TypeOK
  <2>3. RequestsFollow'
    BY <1>1, <1>2, <2>1 DEF RegistrationInv, RequestsFollow, NextPhase, Loops, Current
  <2>4. AnswersFollow'
    BY <1>1, <1>2, <2>1 DEF RegistrationInv, AnswersFollow, Accepted, NextPhase, Loops
  <2>5. ClaimsAreTrue'
    BY <1>1, <1>2, <2>1 DEF RegistrationInv, ClaimsAreTrue, Accepted
  <2> QED
    BY <2>2, <2>3, <2>4, <2>5 DEF RegistrationInv
<1>3. CASE /\ requests' = Append(requests, Request)
           /\ answers' = Append(answers, "none")
           /\ step' = "await"
           /\ UNCHANGED <<phase, max_retries, claims, caught_signal>>
  <2>1. /\ requests \in Seq({"up", "down"}) /\ answers \in Seq(Answer)
        /\ Len(answers) = Len(requests)
        /\ abandoned \subseteq DOMAIN requests
    BY DEF RegistrationInv, TypeOK, Answer
  <2>2. Request \in {"up", "down"}
    BY DEF Request
  <2>3. /\ requests' \in Seq({"up", "down"}) /\ answers' \in Seq(Answer)
        /\ Len(requests') = Len(requests) + 1 /\ Len(answers') = Len(answers) + 1
        /\ DOMAIN requests' = 1..Len(requests) + 1
        /\ DOMAIN requests = 1..Len(requests)
        /\ requests'[Len(requests) + 1] = Request
        /\ answers'[Len(requests) + 1] = "none"
        /\ \A i \in 1..Len(requests) : requests'[i] = requests[i] /\ answers'[i] = answers[i]
    BY <1>3, <2>1, <2>2 DEF Answer
  <2>4. TypeOK'
    BY <1>1, <1>3, <2>1, <2>3 DEF RegistrationInv, TypeOK, Answer
  <2>5. RequestsFollow'
    <3>1. \A i \in 1..Len(requests) :
            /\ requests[i] = "down" => phase \in {"deregister", "done"}
            /\ answers[i] = "none" => i \in abandoned
      BY <1>1, <2>3 DEF RegistrationInv, RequestsFollow
    <3>2. Request = "down" => phase = "deregister"
      BY <1>1 DEF Request, Loops
    <3>3. Current' = Len(requests) + 1
      BY <2>3 DEF Current
    <3>4. requests' # <<>> /\ Request' = Request
      BY <1>3, <2>3 DEF Request
    <3>5. ASSUME NEW i \in DOMAIN requests'
          PROVE  /\ requests'[i] = "down" => phase' \in {"deregister", "done"}
                 /\ answers'[i] = "none" =>
                      i \in abandoned' \/ (step' = "await" /\ i = Current')
      <4>1. Len(requests) \in Nat
        BY <2>1
      <4>2. CASE i \in 1..Len(requests)
        BY <4>2, <1>1, <1>3, <2>3, <3>1
      <4>3. CASE i = Len(requests) + 1
        BY <4>3, <1>1, <1>3, <2>3, <3>2, <3>3
      <4> QED
        BY <4>1, <4>2, <4>3, <2>3
    <3>6. max_retries' > 0
      BY <1>1, <1>3 DEF RegistrationInv, RequestsFollow
    <3> QED
      BY <1>1, <1>3, <2>3, <3>3, <3>4, <3>5, <3>6 DEF RequestsFollow
  <2>6. \A kind : Accepted(kind)' <=> Accepted(kind)
    BY <2>3 DEF Accepted
  <2>7. AnswersFollow'
    <3>1. Accepted("down") /\ listed => \E i \in abandoned : requests'[i] = "up"
      BY <2>1, <2>3 DEF RegistrationInv, AnswersFollow
    <3> QED
      BY <1>1, <1>3, <2>6, <3>1 DEF RegistrationInv, AnswersFollow
  <2>8. ClaimsAreTrue'
    BY <1>1, <1>3, <2>6 DEF RegistrationInv, ClaimsAreTrue
  <2> QED
    BY <2>4, <2>5, <2>7, <2>8 DEF RegistrationInv
<1>4. caught_signal \in BOOLEAN
  BY DEF RegistrationInv, TypeOK
<1> QED
  BY <1>2, <1>3, <1>4 DEF Put

\* A loop that succeeded has reported it, and only it has.
LEMMA SucceedFollows ==
  ASSUME RegistrationInv, phase \in Loops, NEW ground \in {"told", "stale"},
         Succeed(ground)
  PROVE  /\ phase' = NextPhase /\ phase' \in Phases /\ phase' \notin Loops
         /\ max_retries' = max_retries
         /\ step' = "connect"
         /\ claims' \in [Loops -> {"none", "told", "stale"}]
         /\ claims'[phase] = ground
         /\ \A l \in Loops \ {phase} : claims'[l] = claims[l]
BY DEF RegistrationInv, TypeOK, Succeed, NextPhase, Loops, Phases

\* The answer that is read is the one to the request that waits for it.
LEMMA ReadAnswerRegistrationInv ==
  ASSUME RegistrationInv, ReadAnswer
  PROVE  RegistrationInv'
<1>1. /\ phase \in Loops /\ step = "await"
      /\ UNCHANGED <<caught_signal, signals, requests, answers, listed, abandoned>>
  BY DEF ReadAnswer, central
<1>2. /\ requests # <<>> /\ requests[Current] = Request
      /\ requests \in Seq({"up", "down"}) /\ answers \in Seq(Answer)
      /\ Len(answers) = Len(requests) /\ abandoned \subseteq DOMAIN requests
  BY <1>1 DEF RegistrationInv, TypeOK, RequestsFollow, Answer
<1>3. Current \in DOMAIN requests
  BY <1>2 DEF Current
<1>4. CASE answers[Current] = "2xx" /\ Succeed("told") /\ heard' = TRUE
  <2>1. /\ phase' = NextPhase /\ phase' \in Phases /\ phase' \notin Loops
        /\ max_retries' = max_retries
        /\ step' = "connect"
        /\ claims' \in [Loops -> {"none", "told", "stale"}]
        /\ claims'[phase] = "told"
        /\ \A l \in Loops \ {phase} : claims'[l] = claims[l]
    BY <1>1, <1>4, SucceedFollows
  <2>2. TypeOK'
    BY <1>1, <1>4, <2>1 DEF RegistrationInv, TypeOK
  <2>3. RequestsFollow'
    <3>1. ASSUME NEW i \in DOMAIN requests
          PROVE  /\ requests[i] = "down" => phase' \in {"deregister", "done"}
                 /\ answers[i] = "none" => i \in abandoned
      BY <1>1, <1>4, <2>1 DEF RegistrationInv, RequestsFollow, NextPhase, Loops
    <3> QED
      BY <1>1, <2>1, <3>1 DEF RequestsFollow
  <2>4. Accepted(Request)
    BY <1>2, <1>3, <1>4 DEF Accepted
  <2>5. \A kind : Accepted(kind)' <=> Accepted(kind)
    BY <1>1 DEF Accepted
  <2>6. AnswersFollow'
    BY <1>1, <1>4, <2>1, <2>5 DEF RegistrationInv, AnswersFollow, NextPhase, Loops
  <2>7. ClaimsAreTrue'
    BY <1>1, <2>1, <2>4, <2>5
       DEF RegistrationInv, ClaimsAreTrue, AnswersFollow, Request, Loops
  <2> QED
    BY <2>2, <2>3, <2>6, <2>7 DEF RegistrationInv
<1>5. CASE answers[Current] = "other" /\ Fail /\ heard' = FALSE
  <2>1. /\ phase' \in {phase, NextPhase} /\ phase' \in Phases
        /\ max_retries' \in 0..MaxRetries
        /\ phase' \in Loops => max_retries' > 0
        /\ step' = "connect"
        /\ claims' = claims
    BY <1>1, <1>5, FailFollows
  <2>2. TypeOK'
    BY <1>1, <1>5, <2>1 DEF RegistrationInv, TypeOK
  <2>3. RequestsFollow'
    <3>1. ASSUME NEW i \in DOMAIN requests
          PROVE  /\ requests[i] = "down" => phase' \in {"deregister", "done"}
                 /\ answers[i] = "none" => i \in abandoned
      BY <1>1, <1>5, <2>1 DEF RegistrationInv, RequestsFollow, NextPhase, Loops
    <3> QED
      BY <1>1, <2>1, <3>1 DEF RequestsFollow
  <2>4. AnswersFollow'
    BY <1>1, <1>5, <2>1 DEF RegistrationInv, AnswersFollow, Accepted, NextPhase, Loops
  <2>5. ClaimsAreTrue'
    BY <1>1, <2>1 DEF RegistrationInv, ClaimsAreTrue, Accepted
  <2> QED
    BY <2>2, <2>3, <2>4, <2>5 DEF RegistrationInv
<1> QED
  BY <1>4, <1>5 DEF ReadAnswer

\* A request whose answer was not read is given up, and a loop that takes an
\* older answer for it is the second.
LEMMA UnreadRegistrationInv ==
  ASSUME RegistrationInv, ConnectionEnds \/ ReadInterrupted
  PROVE  RegistrationInv'
<1>1. /\ phase \in Loops /\ step \in {"await", "failed"}
      /\ UNCHANGED <<caught_signal, signals, requests, answers, listed>>
      /\ abandoned' = abandoned \cup {Current}
      /\ heard' = heard \/ heard' = FALSE
  BY DEF ConnectionEnds, ReadInterrupted, ReadFails, central
<1>2. /\ requests # <<>> /\ requests \in Seq({"up", "down"})
      /\ abandoned \subseteq DOMAIN requests /\ heard \in BOOLEAN
  BY <1>1 DEF RegistrationInv, TypeOK, RequestsFollow
<1>3. Current \in DOMAIN requests
  BY <1>2 DEF Current
<1>4. \A i \in DOMAIN requests : answers[i] = "none" => i \in abandoned'
  BY <1>1 DEF RegistrationInv, RequestsFollow
<1>5. abandoned' \subseteq DOMAIN requests /\ abandoned \subseteq abandoned'
      /\ abandoned' # {}
  BY <1>1, <1>2, <1>3
<1>6. \A kind : Accepted(kind)' <=> Accepted(kind)
  BY <1>1 DEF Accepted
<1>7. Accepted("down") /\ listed => \E i \in abandoned' : requests[i] = "up"
  BY <1>5 DEF RegistrationInv, AnswersFollow
<1>8. heard' \in BOOLEAN
  BY <1>1, <1>2
<1>9. CASE Fail
  <2>1. /\ phase' \in {phase, NextPhase} /\ phase' \in Phases
        /\ max_retries' \in 0..MaxRetries
        /\ phase' \in Loops => max_retries' > 0
        /\ step' = "connect"
        /\ claims' = claims
    BY <1>1, <1>9, FailFollows
  <2>2. TypeOK'
    BY <1>1, <1>5, <1>8, <2>1 DEF RegistrationInv, TypeOK
  <2>3. RequestsFollow'
    BY <1>1, <1>4, <2>1 DEF RegistrationInv, RequestsFollow, NextPhase, Loops
  <2>4. AnswersFollow'
    BY <1>1, <1>6, <1>7, <2>1 DEF RegistrationInv, AnswersFollow, NextPhase, Loops
  <2>5. ClaimsAreTrue'
    BY <1>1, <1>5, <1>6, <2>1 DEF RegistrationInv, ClaimsAreTrue
  <2> QED
    BY <2>2, <2>3, <2>4, <2>5 DEF RegistrationInv
<1>10. CASE heard /\ Succeed("stale") /\ UNCHANGED heard
  <2>1. /\ phase' = NextPhase /\ phase' \in Phases /\ phase' \notin Loops
        /\ max_retries' = max_retries
        /\ step' = "connect"
        /\ claims' \in [Loops -> {"none", "told", "stale"}]
        /\ claims'[phase] = "stale"
        /\ \A l \in Loops \ {phase} : claims'[l] = claims[l]
    BY <1>1, <1>10, SucceedFollows
  <2>2. phase = "deregister" /\ claims["register"] = "told"
    BY <1>1, <1>10 DEF RegistrationInv, AnswersFollow, Loops
  <2>3. TypeOK'
    BY <1>1, <1>5, <1>8, <2>1 DEF RegistrationInv, TypeOK
  <2>4. phase' = "done" /\ claims'["register"] = "told" /\ claims'["deregister"] = "stale"
    BY <2>1, <2>2 DEF NextPhase, Loops
  <2>5. RequestsFollow'
    BY <1>1, <1>4, <2>1, <2>4 DEF RequestsFollow
  <2>6. AnswersFollow'
    BY <1>1, <1>6, <1>7, <2>4 DEF AnswersFollow
  <2>7. ClaimsAreTrue'
    BY <1>5, <1>6, <2>2, <2>4 DEF RegistrationInv, ClaimsAreTrue
  <2> QED
    BY <2>3, <2>5, <2>6, <2>7 DEF RegistrationInv
<1> QED
  BY <1>9, <1>10 DEF ConnectionEnds, ReadInterrupted, ReadFails

\* The other loop starts with all its attempts.
LEMMA StopServingRegistrationInv ==
  ASSUME RegistrationInv, StopServing
  PROVE  RegistrationInv'
<1>1. /\ phase = "run" /\ phase' = "deregister" /\ max_retries' = MaxRetries
      /\ UNCHANGED <<step, caught_signal, signals, requests, answers, listed, heard,
                     claims, abandoned>>
  BY DEF StopServing, central
<1>2. MaxRetries \in 0..MaxRetries /\ MaxRetries > 0
  BY RegistrationAssumption
<1>3. TypeOK'
  BY <1>1, <1>2 DEF RegistrationInv, TypeOK, Phases
<1>4. RequestsFollow'
  BY <1>1, <1>2 DEF RegistrationInv, RequestsFollow, Loops, Current
<1>5. AnswersFollow'
  BY <1>1 DEF RegistrationInv, AnswersFollow, Accepted
<1>6. ClaimsAreTrue'
  BY <1>1 DEF RegistrationInv, ClaimsAreTrue, Accepted
<1> QED
  BY <1>3, <1>4, <1>5, <1>6 DEF RegistrationInv

\* A signal changes the flag and may end a wait.
LEMMA SignalRegistrationInv ==
  ASSUME RegistrationInv, Signal
  PROVE  RegistrationInv'
<1>1. /\ signals < MaxSignals /\ signals' = signals + 1 /\ caught_signal' = TRUE
      /\ step' = step \/ (step = "await" /\ step' = "failed")
      /\ UNCHANGED <<phase, max_retries, requests, answers, listed, heard, claims,
                     abandoned>>
  BY DEF Signal, central
<1>2. signals' \in 0..MaxSignals
  BY <1>1, RegistrationAssumption DEF RegistrationInv, TypeOK
<1>3. TypeOK'
  BY <1>1, <1>2 DEF RegistrationInv, TypeOK
<1>4. RequestsFollow'
  BY <1>1 DEF RegistrationInv, RequestsFollow, Current, Request
<1>5. AnswersFollow'
  BY <1>1 DEF RegistrationInv, AnswersFollow, Accepted
<1>6. ClaimsAreTrue'
  BY <1>1 DEF RegistrationInv, ClaimsAreTrue, Accepted
<1> QED
  BY <1>3, <1>4, <1>5, <1>6 DEF RegistrationInv

\* The central server may list this server again after a deregistration only for
\* a registration that nobody waits for.
LEMMA CentralRegistrationInv ==
  ASSUME RegistrationInv, NEW i \in DOMAIN requests, CentralHandles(i)
  PROVE  RegistrationInv'
<1>1. PICK said \in {"2xx", "other"} :
        /\ answers[i] = "none"
        /\ answers' = [answers EXCEPT ![i] = said]
        /\ \/ said = "2xx" /\ listed' = (requests[i] = "up")
           \/ said = "other" /\ UNCHANGED listed
        /\ UNCHANGED <<phase, step, max_retries, caught_signal, signals, requests,
                       heard, claims, abandoned>>
  BY DEF CentralHandles
<1>2. /\ requests \in Seq({"up", "down"}) /\ answers \in Seq(Answer)
      /\ Len(answers) = Len(requests) /\ abandoned \subseteq DOMAIN requests
  BY DEF RegistrationInv, TypeOK, Answer
<1>3. /\ answers' \in Seq(Answer) /\ Len(answers') = Len(answers)
      /\ answers'[i] = said
      /\ \A j \in DOMAIN requests \ {i} : answers'[j] = answers[j]
  BY <1>1, <1>2 DEF Answer
<1>4. listed' \in BOOLEAN
  BY <1>1 DEF RegistrationInv, TypeOK
<1>5. TypeOK'
  BY <1>1, <1>3, <1>4 DEF RegistrationInv, TypeOK, Answer
<1>6. RequestsFollow'
  <2>1. ASSUME NEW j \in DOMAIN requests
        PROVE  /\ requests[j] = "down" => phase \in {"deregister", "done"}
               /\ answers'[j] = "none" =>
                    j \in abandoned \/ (step \in {"await", "failed"} /\ j = Current)
    BY <1>1, <1>3 DEF RegistrationInv, RequestsFollow
  <2> QED
    BY <1>1, <2>1 DEF RegistrationInv, RequestsFollow, Current, Request
<1>7. \A kind : Accepted(kind) => Accepted(kind)'
  BY <1>1, <1>3 DEF Accepted
<1>8. AnswersFollow'
  <2>1. SUFFICES ASSUME Accepted("down")', listed'
                 PROVE  \E j \in abandoned : requests[j] = "up"
    BY <1>1 DEF RegistrationInv, AnswersFollow
  <2>2. CASE requests[i] = "up"
    <3>1. PICK j \in DOMAIN requests : requests[j] = "down"
      BY <1>1, <2>1 DEF Accepted
    <3>2. phase \in {"deregister", "done"}
      BY <3>1 DEF RegistrationInv, RequestsFollow
    <3>3. ~(step \in {"await", "failed"} /\ i = Current)
      BY <2>2, <3>2 DEF RegistrationInv, RequestsFollow, Request
    <3> QED
      BY <1>1, <2>2, <3>3 DEF RegistrationInv, RequestsFollow
  <2>3. CASE requests[i] # "up"
    <3>1. said = "other" /\ listed
      BY <1>1, <2>1, <2>3
    <3>2. Accepted("down")
      BY <1>1, <1>3, <2>1, <3>1 DEF Accepted
    <3> QED
      BY <3>1, <3>2 DEF RegistrationInv, AnswersFollow
  <2> QED
    BY <2>2, <2>3
<1>9. ClaimsAreTrue'
  BY <1>1, <1>7 DEF RegistrationInv, ClaimsAreTrue
<1> QED
  BY <1>5, <1>6, <1>8, <1>9 DEF RegistrationInv

\* Every step of the loops, the signals and the central server preserves it.
LEMMA NextRegistrationInv == RegistrationInv /\ [Next]_vars => RegistrationInv'
<1> SUFFICES ASSUME RegistrationInv, [Next]_vars PROVE RegistrationInv'
  OBVIOUS
<1>1. CASE UNCHANGED vars
  BY <1>1 DEF vars, central, RegistrationInv, TypeOK, RequestsFollow, AnswersFollow,
              ClaimsAreTrue, Accepted, Current, Request
<1> QED
  BY <1>1, PutRegistrationInv, ReadAnswerRegistrationInv, UnreadRegistrationInv,
     StopServingRegistrationInv, SignalRegistrationInv, CentralRegistrationInv
     DEF Next, Attempt

\* Every reachable state satisfies the inductive invariant.
THEOREM RegistrationInvariant == Spec => []RegistrationInv
BY InitRegistrationInv, NextRegistrationInv, PTL DEF Spec

\* The type invariant of Registration.
THEOREM RegistrationTypeOK == Spec => []TypeOK
BY RegistrationInvariant, PTL DEF RegistrationInv

\* What the two loops report is what the central server said to a request of
\* theirs, or rests on a leftover answer as ClaimsAreTrue allows.
THEOREM ReportedIsTrue == Spec => []ClaimsAreTrue
BY RegistrationInvariant, PTL DEF RegistrationInv

\* A server that was told of its deregistration is listed only because of a
\* registration it gave up waiting for.
THEOREM GhostsAreAbandoned == Spec => []NoGhost
<1>1. RegistrationInv => NoGhost
  BY DEF RegistrationInv, ClaimsAreTrue, AnswersFollow, NoGhost
<1> QED
  BY <1>1, RegistrationInvariant, PTL

(***************************************************************************)
(* Every step is one of Listener.                                          *)
(***************************************************************************)

\* The place in the loop is all there is to an attempt that failed or succeeded.
LEMMA AttemptIsListeners ==
  ASSUME RegistrationInv, phase \in Loops, signals' = signals,
         \/ Fail /\ (caught_signal' = TRUE \/ UNCHANGED caught_signal)
         \/ (\E ground : Succeed(ground)) /\ UNCHANGED caught_signal
  PROVE  View!Next
<1>1. /\ phase \in {"register", "deregister"}
      /\ \/ /\ max_retries' = max_retries - 1
            /\ phase' = IF max_retries = 1 THEN NextPhase ELSE phase
            /\ caught_signal' = TRUE \/ UNCHANGED caught_signal
         \/ phase' = NextPhase /\ UNCHANGED <<max_retries, caught_signal>>
  BY DEF Fail, Succeed, Loops
<1>2. CASE phase = "register"
  <2>1. Point = "register" /\ Socket = "open" /\ Socket' = "open"
    BY <1>1, <1>2 DEF Point, Socket, NextPhase
  <2>2. \/ /\ max_retries' = max_retries - 1
           /\ Point' = IF max_retries = 1 THEN "loop" ELSE "register"
           /\ caught_signal' = TRUE \/ UNCHANGED caught_signal
        \/ Point' = "loop" /\ UNCHANGED <<max_retries, caught_signal>>
    BY <1>1, <1>2 DEF Point, NextPhase
  <2> QED
    BY <2>1, <2>2 DEF View!Next, View!CentralStep, View!Register, View!RegistrationAttempt
<1>3. CASE phase = "deregister"
  <2>1. Point = "deregister" /\ Socket = "shut" /\ Socket' = "shut"
    BY <1>1, <1>3 DEF Point, Socket, NextPhase
  <2>2. \/ /\ max_retries' = max_retries - 1
           /\ Point' = IF max_retries = 1 THEN "close" ELSE "deregister"
           /\ caught_signal' = TRUE \/ UNCHANGED caught_signal
        \/ Point' = "close" /\ UNCHANGED <<max_retries, caught_signal>>
    BY <1>1, <1>3 DEF Point, NextPhase
  <2> QED
    BY <2>1, <2>2 DEF View!Next, View!CentralStep, View!Deregister, View!RegistrationAttempt
<1> QED
  BY <1>1, <1>2, <1>3

\* Every step is one of the listener's, or a stutter.
LEMMA NextIsListeners ==
  ASSUME RegistrationInv, [Next]_vars
  PROVE  [View!Next]_(View!vars)
<1>1. CASE Put
  <2>1. CASE UNCHANGED <<phase, max_retries, caught_signal, signals>>
    BY <2>1 DEF View!vars, Point, Socket
  <2>2. CASE Fail /\ (caught_signal' = TRUE \/ UNCHANGED caught_signal)
    BY <1>1, <2>2, AttemptIsListeners DEF Put
  <2> QED
    BY <1>1, <2>1, <2>2 DEF Put
<1>2. CASE ReadAnswer
  BY <1>2, AttemptIsListeners DEF ReadAnswer
<1>3. CASE ConnectionEnds \/ ReadInterrupted
  BY <1>3, AttemptIsListeners DEF ConnectionEnds, ReadInterrupted, ReadFails
<1>4. CASE StopServing
  <2>1. Point = "loop" /\ Point' = "deregister" /\ Socket' = "shut"
    BY <1>4 DEF StopServing, Point, Socket
  <2> QED
    BY <1>4, <2>1 DEF StopServing, View!Next, View!ListenerStep, View!CheckSignal
<1>5. CASE Signal
  <2>1. Point' = Point /\ Socket' = Socket
    BY <1>5 DEF Signal, Point, Socket
  <2>2. Point \notin {"sigaction", "exited", "accept"}
    BY DEF RegistrationInv, TypeOK, Phases, Point
  <2> QED
    BY <1>5, <2>1, <2>2 DEF Signal, View!Next, View!Environment, View!Signal
<1>6. CASE \E i \in DOMAIN requests : CentralHandles(i)
  BY <1>6 DEF CentralHandles, View!vars, Point, Socket
<1>7. CASE UNCHANGED vars
  BY <1>7 DEF vars, View!vars, Point, Socket
<1> QED
  BY <1>1, <1>2, <1>3, <1>4, <1>5, <1>6, <1>7 DEF Next, Attempt

\* To the listener an attempt is one step of its registration loops, whatever the
\* central server and signals do in between.
THEOREM AttemptsAreListeners == Spec => LoopsOfListener
BY RegistrationInvariant, NextIsListeners, PTL DEF Spec, LoopsOfListener
==============================================================================
