---------------------------- MODULE MCFileTransfer ----------------------------
(* FileTransfer with small bodies and buffers, for TLC. *)
EXTENDS FileTransfer

CONSTANTS p1, p2, g1

BothPutters == {p1, p2}
OneGetter == {g1}

\* Of three workers one waits for a request that never comes, to keep the instance
\* small: p2, of p1 with a body of any length and g1; or g1, of two PUTs with bodies
\* of up to two bytes.
Silent(p) == declared[p] = MaxBody /\ body[p] = 0
Short(p) == declared[p] <= 2 /\ body[p] <= 2
Asked(w) == IF w = g1 THEN Silent(p2) ELSE w = p1 \/ ~Silent(w)

MCInit == Init /\ (Silent(p2) \/ (Short(p1) /\ Short(p2)))

MCNext ==
  \/ \E p \in Putters : Asked(p) /\ (PutStep(p) \/ ReadFails(p) \/ SendBody(p) \/ CloseClient(p))
  \/ \E g \in Getters : Asked(g) /\ (GetStep(g) \/ AbortGet(g) \/ MakeRoom(g))

MCSpec ==
  /\ MCInit /\ [][MCNext]_vars
  /\ \A p \in Putters : WF_vars(Asked(p) /\ PutStep(p))
  /\ \A g \in Getters : WF_vars(Asked(g) /\ GetStep(g))
==============================================================================
