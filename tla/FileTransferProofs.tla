-------------------------- MODULE FileTransferProofs --------------------------
(***************************************************************************)
(* Proofs about FileTransfer, for any number of PUTs and GETs, any size of *)
(* body, buffer and file, and any width of size_t that holds them.         *)
(***************************************************************************)
EXTENDS FileTransfer, TLAPS

PutInv == PutTypeOK /\ CountersInv

\* A size_t difference is a size_t.
LEMMA MinusType ==
  ASSUME NEW a \in 0..SizeMod - 1, NEW b \in 0..MaxBody
  PROVE  Minus(a, b) \in 0..SizeMod - 1
BY TransferAssumption DEF Minus

\* Two subtractions in a size_t are one, as long as what is taken away fits.
LEMMA MinusTwice ==
  ASSUME NEW a \in 0..MaxBody, NEW b \in Nat, NEW c \in Nat, b + c <= MaxBody
  PROVE  Minus(Minus(a, b), c) = Minus(a, b + c)
BY TransferAssumption DEF Minus

\* A size_t difference of two lengths is zero only if they are equal.
LEMMA MinusZero ==
  ASSUME NEW a \in 0..MaxBody, NEW b \in 0..MaxBody, Minus(a, b) = 0
  PROVE  a = b
BY TransferAssumption DEF Minus

\* No byte has moved at first.
LEMMA InitPutInv == Init => PutInv
BY TransferAssumption DEF Init, ServerInit, ClientInit, PutInv, PutTypeOK, CountersInv

\* The field that came with the header is no longer than what was read.
LEMMA LeadBound ==
  ASSUME PutInv, NEW p \in Putters
  PROVE  Lead(p) \in 0..got[p]
BY TransferAssumption DEF PutInv, PutTypeOK, Lead

\* Each step of a PUT keeps its counters in step with its file.
LEMMA TakeRequestPutInv ==
  ASSUME PutInv, NEW p \in Putters, TakeRequest(p)
  PROVE  PutInv'
<1>1. PICK k \in 0..Smaller(Buf, sent[p]) : got' = [got EXCEPT ![p] = k]
  BY DEF TakeRequest
<1>2. k \in 0..sent[p] /\ k \in 0..MaxBody
  BY <1>1, TransferAssumption DEF Smaller, PutInv, PutTypeOK
<1>3. PutTypeOK'
  <2>1. declared[p] \in 0..SizeMod - 1
    BY TransferAssumption DEF PutInv, PutTypeOK
  <2> QED
    BY <1>1, <1>2, <2>1 DEF TakeRequest, PutInv, PutTypeOK, client
<1>4. CountersInv'
  BY <1>1, <1>2 DEF TakeRequest, PutInv, PutTypeOK, CountersInv, client
<1> QED
  BY <1>3, <1>4 DEF PutInv

LEMMA WriteLeadPutInv ==
  ASSUME PutInv, NEW p \in Putters, WriteLead(p)
  PROVE  PutInv'
<1> PICK m \in 0..Lead(p) :
      /\ kept' = [kept EXCEPT ![p] = m]
      /\ \/ /\ remaining' = [remaining EXCEPT ![p] = Minus(@, m)]
            /\ pstat' = [pstat EXCEPT ![p] = "body"]
         \/ /\ pstat' = [pstat EXCEPT ![p] = "failed"]
            /\ UNCHANGED remaining
  BY DEF WriteLead
<1>1. m \in 0..got[p] /\ m \in 0..MaxBody
  BY LeadBound, TransferAssumption DEF PutInv, PutTypeOK
<1>2. Minus(remaining[p], m) \in 0..SizeMod - 1
  BY <1>1, MinusType DEF PutInv, PutTypeOK
<1>3. UNCHANGED <<client, got>> /\ pstat[p] = "lead"
  BY DEF WriteLead
<1>4. PutTypeOK'
  BY <1>1, <1>2, <1>3 DEF PutInv, PutTypeOK, client
<1>5. CountersInv'
  BY <1>1, <1>3 DEF PutInv, PutTypeOK, CountersInv, client
<1> QED
  BY <1>4, <1>5 DEF PutInv

LEMMA CopyBodyPutInv ==
  ASSUME PutInv, NEW p \in Putters, CopyBody(p)
  PROVE  PutInv'
<1> PICK n \in 1..Smaller(Buf, sent[p] - got[p]) :
         /\ got' = [got EXCEPT ![p] = @ + n]
         /\ remaining' = [remaining EXCEPT ![p] = Minus(@, n)]
         /\ \E m \in 0..n :
              /\ kept' = [kept EXCEPT ![p] = @ + m]
              /\ pstat' = IF m = n THEN pstat ELSE [pstat EXCEPT ![p] = "failed"]
  BY DEF CopyBody
<1> PICK m \in 0..n :
         /\ kept' = [kept EXCEPT ![p] = @ + m]
         /\ pstat' = IF m = n THEN pstat ELSE [pstat EXCEPT ![p] = "failed"]
  OBVIOUS
<1>1. /\ n \in 1..MaxBody
      /\ got[p] + n <= sent[p]
      /\ kept[p] + m <= got[p] + n
      /\ kept[p] + n <= MaxBody
      /\ got[p] + n \in 0..MaxBody
      /\ kept[p] + m \in 0..MaxBody
  BY TransferAssumption DEF Smaller, PutInv, PutTypeOK, CountersInv
<1>2. Minus(remaining[p], n) \in 0..SizeMod - 1
  <2>1. remaining[p] \in 0..SizeMod - 1 /\ n \in 0..MaxBody
    BY <1>1, TransferAssumption DEF PutInv, PutTypeOK
  <2> QED
    BY <2>1, MinusType
<1>3. remaining[p] = Minus(declared[p], kept[p])
  BY DEF CopyBody, PutInv, CountersInv
<1>4. Minus(remaining[p], n) = Minus(declared[p], kept[p] + n)
  <2>1. declared[p] \in 0..MaxBody /\ kept[p] \in Nat /\ n \in Nat
    BY <1>1, TransferAssumption DEF PutInv, PutTypeOK
  <2>2. kept[p] + n <= MaxBody
    BY <1>1, TransferAssumption
  <2> QED
    BY <1>3, <2>1, <2>2, MinusTwice
<1>5. UNCHANGED client /\ pstat[p] = "body"
  BY DEF CopyBody
<1>6. PutTypeOK'
  BY <1>1, <1>2, <1>5 DEF PutInv, PutTypeOK, client
<1>7. CountersInv'
  BY <1>1, <1>4, <1>5 DEF PutInv, PutTypeOK, CountersInv, client
<1> QED
  BY <1>6, <1>7 DEF PutInv

\* No step breaks the counters.
LEMMA NextPutInv == PutInv /\ [Next]_vars => PutInv'
<1> SUFFICES ASSUME PutInv, [Next]_vars
             PROVE  PutInv'
  OBVIOUS
<1>1. ASSUME NEW p \in Putters, CutShort(p)
      PROVE  PutInv'
  BY <1>1 DEF CutShort, PutInv, PutTypeOK, CountersInv, client
<1>2. ASSUME NEW p \in Putters, Confirm(p)
      PROVE  PutInv'
  BY <1>2 DEF Confirm, PutInv, PutTypeOK, CountersInv, client
<1>8. ASSUME NEW p \in Putters, ReadFails(p)
      PROVE  PutInv'
  BY <1>8 DEF ReadFails, PutInv, PutTypeOK, CountersInv, client
<1>3. ASSUME NEW p \in Putters, SendBody(p)
      PROVE  PutInv'
  <2>1. PICK s \in sent[p] + 1..body[p] : sent' = [sent EXCEPT ![p] = s]
    BY <1>3 DEF SendBody
  <2>2. s \in 0..MaxBody /\ sent[p] <= s /\ s <= body[p]
    BY <2>1, TransferAssumption DEF PutInv, PutTypeOK
  <2>3. UNCHANGED <<declared, body, crlf, open, putVars>>
    BY <1>3 DEF SendBody
  <2>4. PutTypeOK'
    BY <2>1, <2>2, <2>3 DEF PutInv, PutTypeOK, putVars
  <2>5. CountersInv'
    BY <2>1, <2>2, <2>3 DEF PutInv, PutTypeOK, CountersInv, putVars
  <2> QED
    BY <2>4, <2>5 DEF PutInv
<1>4. ASSUME NEW p \in Putters, CloseClient(p)
      PROVE  PutInv'
  BY <1>4 DEF CloseClient, PutInv, PutTypeOK, CountersInv, putVars
<1>5. ASSUME UNCHANGED <<client, putVars>>
      PROVE  PutInv'
  BY <1>5 DEF PutInv, PutTypeOK, CountersInv, client, putVars
<1>6. ASSUME NEW g \in Getters, GetStep(g) \/ AbortGet(g) \/ MakeRoom(g)
      PROVE  PutInv'
  BY <1>5, <1>6 DEF GetStep, PromiseSize, CopyFile, FinishGet, AbortGet, MakeRoom
<1>7. CASE UNCHANGED vars
  BY <1>5, <1>7 DEF vars
<1> QED
  BY TakeRequestPutInv, WriteLeadPutInv, CopyBodyPutInv,
     <1>1, <1>2, <1>3, <1>4, <1>6, <1>7, <1>8 DEF Next, PutStep

\* The counters of every PUT agree with its file in every reachable state.
THEOREM PutInvariant == Spec => []PutInv
BY InitPutInv, NextPutInv, PTL DEF Spec

\* content_length counts down what is missing in the file.
THEOREM CountersAgree == Spec => []CountersInv
BY PutInvariant, PTL DEF PutInv

\* A PUT answered 201 Created has put in the file as many bytes as its client
\* declared, and all the bytes of an honest one, whatever other PUTs and GETs do.
THEOREM CreatedMeansComplete == Spec => []CreatedIsComplete
<1>1. PutInv => CreatedIsComplete
  <2> SUFFICES ASSUME PutInv, NEW p \in Putters, pstat[p] = "created"
               PROVE  /\ kept[p] = declared[p]
                      /\ Honest(p) => got[p] = kept[p]
    BY DEF CreatedIsComplete
  <2>1. declared[p] = kept[p]
    BY MinusZero DEF PutInv, PutTypeOK, CountersInv
  <2> QED
    BY <2>1, TransferAssumption DEF PutInv, PutTypeOK, CountersInv, Honest
<1> QED
  BY <1>1, PutInvariant, PTL

(***************************************************************************)
(* Types of the file and of the GETs                                       *)
(***************************************************************************)

\* The bytes the GETs see, the histories, and a file that a size_t can measure.
FileTypeOK ==
  /\ file \in Seq(Byte)
  /\ gstat \in [Getters -> {"header", "copy", "done", "aborted"}]
  /\ promised \in [Getters -> Seq(Byte)]
  /\ received \in [Getters -> Seq(Byte)]
  /\ left \in [Getters -> 0..SizeMod - 1]
  /\ stalled \in [Getters -> BOOLEAN]
  /\ touched \in [Getters -> BOOLEAN]
  /\ sole \subseteq Putters
  /\ broken \in [Putters -> BOOLEAN]
  /\ Len(file) < SizeMod

\* What a PUT writes makes the file a sequence of bytes again, holes included.
LEMMA WrittenType ==
  ASSUME file \in Seq(Byte), NEW p \in Putters, NEW from \in Nat, NEW n \in Nat,
         NEW off \in Nat, from + n <= MaxBody
  PROVE  Written(p, from, n, off) \in Seq(Byte)
<1>1. CASE n = 0
  BY <1>1 DEF Written
<1>2. CASE n # 0
  <2> DEFINE size == Larger(Len(file), off + n)
             byte(i) == CASE i \in off + 1..off + n -> <<p, from + i - off>>
                          [] i <= Len(file) /\ i \notin off + 1..off + n -> file[i]
                          [] OTHER -> <<"hole", 0>>
  <2>1. size \in Nat
    BY DEF Larger
  <2>2. ASSUME NEW i \in 1..size
        PROVE  byte(i) \in Byte
    <3>1. CASE i \in off + 1..off + n
      <4>1. from + i - off \in 1..MaxBody
        BY <3>1, TransferAssumption
      <4> QED
        BY <3>1, <4>1 DEF Byte
    <3>2. CASE i <= Len(file) /\ i \notin off + 1..off + n
      <4>1. i \in 1..Len(file)
        BY <3>2, <2>1
      <4> QED
        BY <3>2, <4>1
    <3>3. CASE ~(i <= Len(file)) /\ i \notin off + 1..off + n
      BY <3>3 DEF Byte
    <3> QED
      BY <3>1, <3>2, <3>3
  <2>3. Written(p, from, n, off) = [i \in 1..size |-> byte(i)]
    BY <1>2 DEF Written
  <2> HIDE DEF size, byte
  <2>4. [i \in 1..size |-> byte(i)] \in [1..size -> Byte]
    BY <2>2
  <2>5. [i \in 1..size |-> byte(i)] \in Seq(Byte)
    BY <2>1, <2>4
  <2> QED
    BY <2>3, <2>5
<1> QED
  BY <1>1, <1>2

\* It is no longer than the file was, or than a body.
LEMMA WrittenLength ==
  ASSUME file \in Seq(Byte), Len(file) < SizeMod, NEW p \in Putters, NEW from \in Nat,
         NEW n \in Nat, NEW off \in Nat, off + n <= MaxBody
  PROVE  Len(Written(p, from, n, off)) < SizeMod
<1> DEFINE size == Larger(Len(file), off + n)
<1>1. size \in Nat /\ size < SizeMod
  BY TransferAssumption DEF Larger
<1>2. n # 0 => Len(Written(p, from, n, off)) = size
  BY <1>1 DEF Written
<1>3. n = 0 => Written(p, from, n, off) = file
  BY DEF Written
<1> QED
  BY <1>1, <1>2, <1>3

\* A change of the file leaves the histories their type.
LEMMA TouchType ==
  ASSUME touched \in [Getters -> BOOLEAN], Touch
  PROVE  touched' \in [Getters -> BOOLEAN]
BY Zenon DEF Touch

\* Each step of a PUT leaves a file.
LEMMA PutStepFileTypeOK ==
  ASSUME PutInv, FileTypeOK, NEW p \in Putters, PutStep(p)
  PROVE  FileTypeOK'
<1>1. CASE TakeRequest(p)
  <2>1. file' \in Seq(Byte) /\ Len(file') < SizeMod
    <3>1. file' = <<>> \/ file' = file
      BY <1>1, Zenon DEF TakeRequest
    <3>2. CASE file' = <<>>
      BY <3>2, TransferAssumption
    <3>3. CASE file' = file
      BY <3>3 DEF FileTypeOK
    <3> QED
      BY <3>1, <3>2, <3>3
  <2>2. touched' \in [Getters -> BOOLEAN] /\ sole' \subseteq Putters /\ UNCHANGED broken
    BY <1>1, TouchType, Zenon DEF TakeRequest, FileTypeOK, history
  <2> QED
    BY <1>1, <2>1, <2>2 DEF TakeRequest, FileTypeOK, getVars
<1>2. CASE WriteLead(p)
  <2>1. PICK m \in 0..Lead(p) : file' = Written(p, 0, m, 0)
    BY <1>2 DEF WriteLead
  <2>2. m \in Nat /\ m <= MaxBody
    BY <2>1, LeadBound, TransferAssumption DEF PutInv, PutTypeOK
  <2>3. 0 \in Nat /\ 0 + m <= MaxBody
    BY <2>2
  <2>4. Written(p, 0, m, 0) \in Seq(Byte)
    BY <2>2, <2>3, WrittenType DEF FileTypeOK
  <2>5. Len(Written(p, 0, m, 0)) < SizeMod
    BY <2>2, <2>3, WrittenLength DEF FileTypeOK
  <2>6. touched' \in [Getters -> BOOLEAN]
    BY <1>2, TouchType DEF WriteLead, FileTypeOK
  <2> QED
    BY <1>2, <2>1, <2>4, <2>5, <2>6 DEF WriteLead, FileTypeOK, getVars
<1>3. CASE CopyBody(p)
  <2>1. PICK n \in 1..Smaller(Buf, sent[p] - got[p]) : \E m \in 0..n :
           file' = Written(p, got[p], m, kept[p])
    BY <1>3 DEF CopyBody
  <2> PICK m \in 0..n : file' = Written(p, got[p], m, kept[p])
    BY <2>1
  <2>2. m \in Nat /\ got[p] + m <= MaxBody /\ kept[p] + m <= MaxBody
    BY TransferAssumption DEF Smaller, PutInv, PutTypeOK, CountersInv
  <2>3. got[p] \in Nat /\ kept[p] \in Nat
    BY DEF PutInv, PutTypeOK
  <2>4. file' \in Seq(Byte) /\ Len(file') < SizeMod
    BY <2>2, <2>3, WrittenType, WrittenLength DEF FileTypeOK
  <2>5. touched' \in [Getters -> BOOLEAN]
    BY <1>3, TouchType DEF CopyBody, FileTypeOK
  <2> QED
    BY <1>3, <2>4, <2>5 DEF CopyBody, FileTypeOK, getVars
<1>4. CASE CutShort(p) \/ Confirm(p)
  BY <1>4 DEF CutShort, Confirm, FileTypeOK, getVars, history
<1> QED
  BY <1>1, <1>2, <1>3, <1>4 DEF PutStep

\* Each step of a GET keeps its counter in a size_t.
LEMMA GetStepFileTypeOK ==
  ASSUME FileTypeOK, NEW g \in Getters, GetStep(g) \/ AbortGet(g) \/ MakeRoom(g)
  PROVE  FileTypeOK'
<1>1. CASE PromiseSize(g)
  <2>1. Len(file) \in 0..SizeMod - 1
    BY TransferAssumption DEF FileTypeOK
  <2> QED
    BY <1>1, <2>1 DEF PromiseSize, FileTypeOK, history
<1>2. CASE CopyFile(g)
  <2> DEFINE pos == Len(received[g])
             n == Smaller(Buf, Larger(0, Len(file) - pos))
             piece == SubSeq(file, pos + 1, pos + n)
  <2>1. pos \in Nat /\ n \in Nat /\ n <= Len(file) /\ (n > 0 => pos + n <= Len(file))
    BY TransferAssumption DEF FileTypeOK, Smaller, Larger
  <2>2. piece \in Seq(Byte)
    <3>1. CASE n = 0
      BY <2>1, <3>1 DEF FileTypeOK
    <3>2. CASE n > 0
      BY <2>1, <3>2 DEF FileTypeOK
    <3> QED
      BY <2>1, <3>1, <3>2
  <2>3. Minus(left[g], n) \in 0..SizeMod - 1
    BY <2>1, TransferAssumption DEF FileTypeOK, Minus
  <2>4. received' = [received EXCEPT ![g] = @ \o piece]
        /\ left' = [left EXCEPT ![g] = Minus(@, n)]
    BY <1>2 DEF CopyFile
  <2> HIDE DEF piece, n
  <2>5. received[g] \o piece \in Seq(Byte)
    BY <2>2 DEF FileTypeOK
  <2>6. received' \in [Getters -> Seq(Byte)] /\ left' \in [Getters -> 0..SizeMod - 1]
    BY <2>3, <2>4, <2>5 DEF FileTypeOK
  <2>7. stalled' \in [Getters -> BOOLEAN]
    BY <1>2, Zenon DEF CopyFile, FileTypeOK
  <2> QED
    BY <1>2, <2>6, <2>7 DEF CopyFile, FileTypeOK, history
<1>3. CASE FinishGet(g) \/ AbortGet(g) \/ MakeRoom(g)
  BY <1>3 DEF FinishGet, AbortGet, MakeRoom, FileTypeOK, history
<1> QED
  BY <1>1, <1>2, <1>3 DEF GetStep

\* The types hold in every reachable state.
LEMMA FileTypeInvariant == Spec => []FileTypeOK
<1>1. Init => FileTypeOK
  <2>1. ASSUME Init
        PROVE  file \in Seq(Byte) /\ Len(file) < SizeMod
    <3>1. file \in [1..OldSize -> Byte]
      BY <2>1 DEF Init, ServerInit, Byte
    <3> QED
      BY <2>1, <3>1, TransferAssumption DEF Init, ServerInit
  <2> QED
    BY <2>1, TransferAssumption DEF Init, ServerInit, FileTypeOK
<1>2. PutInv /\ FileTypeOK /\ [Next]_vars => FileTypeOK'
  <2> SUFFICES ASSUME PutInv, FileTypeOK, [Next]_vars
               PROVE  FileTypeOK'
    OBVIOUS
  <2>1. ASSUME NEW p \in Putters, SendBody(p) \/ CloseClient(p) \/ ReadFails(p)
        PROVE  FileTypeOK'
    BY <2>1 DEF SendBody, CloseClient, ReadFails, FileTypeOK, getVars, history
  <2>2. CASE UNCHANGED vars
    BY <2>2 DEF vars, FileTypeOK, getVars, history
  <2> QED
    BY <2>1, <2>2, PutStepFileTypeOK, GetStepFileTypeOK DEF Next
<1> QED
  BY <1>1, <1>2, PutInvariant, PTL DEF Spec

\* The file stays one a size_t can measure, and every counter a size_t, however
\* PUTs and GETs interleave.
THEOREM TransferTypeOK == Spec => []TypeOK
<1>1. PutInv /\ FileTypeOK => TypeOK
  BY DEF PutInv, FileTypeOK, TypeOK
<1> QED
  BY <1>1, PutInvariant, FileTypeInvariant, PTL

(***************************************************************************)
(* A GET of a file nobody touches                                          *)
(***************************************************************************)

\* The invariant that is inductive: nothing is sent before the header; as long as
\* no PUT has touched the file it is what was promised, what was sent is its
\* beginning, and the counter is what is missing of it.
GetInv ==
  \A g \in Getters :
    /\ gstat[g] = "header" => received[g] = <<>> /\ promised[g] = <<>>
    /\ ~touched[g] =>
         /\ gstat[g] = "copy" => file = promised[g]
         /\ Len(received[g]) <= Len(promised[g])
         /\ received[g] = SubSeq(promised[g], 1, Len(received[g]))
         /\ gstat[g] \in {"copy", "done"} =>
              left[g] = Len(promised[g]) - Len(received[g])
         /\ gstat[g] = "done" => left[g] = 0

\* The piece behind a beginning makes a longer beginning.
LEMMA BeginningGrows ==
  ASSUME NEW S, NEW s \in Seq(S), NEW k \in Nat, NEW n \in Nat, k + n <= Len(s)
  PROVE  /\ SubSeq(s, 1, k) \o SubSeq(s, k + 1, k + n) = SubSeq(s, 1, k + n)
         /\ Len(SubSeq(s, 1, k + n)) = k + n
OBVIOUS

\* All of a sequence is the sequence.
LEMMA WholeSequence ==
  ASSUME NEW S, NEW s \in Seq(S)
  PROVE  SubSeq(s, 1, Len(s)) = s
OBVIOUS

\* A step that only touches the file, and says so, leaves every GET in its state.
LEMMA TouchGetInv ==
  ASSUME GetInv, FileTypeOK, Touch, UNCHANGED getVars
  PROVE  GetInv'
<1> SUFFICES ASSUME NEW g \in Getters
             PROVE  /\ gstat[g] = "header" => received[g] = <<>> /\ promised[g] = <<>>
                    /\ ~touched'[g] =>
                         /\ gstat[g] = "copy" => file' = promised[g]
                         /\ Len(received[g]) <= Len(promised[g])
                         /\ received[g] = SubSeq(promised[g], 1, Len(received[g]))
                         /\ gstat[g] \in {"copy", "done"} =>
                              left[g] = Len(promised[g]) - Len(received[g])
                         /\ gstat[g] = "done" => left[g] = 0
  BY DEF GetInv, getVars
<1>1. touched'[g] = (touched[g] \/ gstat[g] = "copy")
  BY Zenon DEF Touch
<1>2. ~touched'[g] => ~touched[g] /\ gstat[g] # "copy"
  BY <1>1, Zenon
<1> QED
  BY <1>2 DEF GetInv

\* So does one that leaves file and GETs alone.
LEMMA ApartGetInv ==
  ASSUME GetInv, UNCHANGED <<file, getVars, touched>>
  PROVE  GetInv'
BY DEF GetInv, getVars

\* A pass of the copy loop over an untouched file sends what comes next in it.
LEMMA CopyFileGetInv ==
  ASSUME GetInv, FileTypeOK, NEW g \in Getters, CopyFile(g)
  PROVE  GetInv'
<1> DEFINE pos == Len(received[g])
           n == Smaller(Buf, Larger(0, Len(file) - pos))
           piece == SubSeq(file, pos + 1, pos + n)
<1>1. /\ received' = [received EXCEPT ![g] = @ \o piece]
      /\ left' = [left EXCEPT ![g] = Minus(@, n)]
      /\ UNCHANGED <<file, gstat, promised, touched>>
      /\ gstat[g] = "copy"
  BY DEF CopyFile, history
<1>2. pos \in Nat /\ n \in Nat /\ n <= Len(file) /\ (pos <= Len(file) => pos + n <= Len(file))
  BY TransferAssumption DEF FileTypeOK, Smaller, Larger
<1>3. ASSUME ~touched[g]
      PROVE  /\ file = promised[g]
             /\ received[g] \o piece = SubSeq(promised[g], 1, pos + n)
             /\ Len(received[g] \o piece) = pos + n
             /\ pos + n <= Len(promised[g])
             /\ Minus(left[g], n) = Len(promised[g]) - (pos + n)
  <2>1. /\ file = promised[g]
        /\ pos <= Len(file)
        /\ received[g] = SubSeq(file, 1, pos)
        /\ left[g] = Len(file) - pos
    BY <1>1, <1>3 DEF GetInv
  <2>2. file \in Seq(Byte) /\ pos + n <= Len(file)
    BY <1>2, <2>1 DEF FileTypeOK
  <2> HIDE DEF n
  <2>3. /\ SubSeq(file, 1, pos) \o piece = SubSeq(file, 1, pos + n)
        /\ Len(SubSeq(file, 1, pos + n)) = pos + n
    BY <1>2, <2>2, BeginningGrows
  <2>4. Len(file) \in Nat
    BY <2>2
  <2> HIDE DEF pos
  <2>5. Minus(left[g], n) = Len(file) - (pos + n)
    BY <1>2, <2>1, <2>2, <2>4 DEF Minus
  <2> QED
    BY <2>1, <2>2, <2>3, <2>5 DEF pos
<1> HIDE DEF n, piece
<1>4. received'[g] = received[g] \o piece /\ left'[g] = Minus(left[g], n)
  BY <1>1 DEF FileTypeOK
<1>5. \A h \in Getters \ {g} : received'[h] = received[h] /\ left'[h] = left[h]
  BY <1>1 DEF FileTypeOK
<1> SUFFICES ASSUME NEW h \in Getters
             PROVE  /\ gstat[h] = "header" => received'[h] = <<>> /\ promised[h] = <<>>
                    /\ ~touched[h] =>
                         /\ gstat[h] = "copy" => file = promised[h]
                         /\ Len(received'[h]) <= Len(promised[h])
                         /\ received'[h] = SubSeq(promised[h], 1, Len(received'[h]))
                         /\ gstat[h] \in {"copy", "done"} =>
                              left'[h] = Len(promised[h]) - Len(received'[h])
                         /\ gstat[h] = "done" => left'[h] = 0
  BY <1>1 DEF GetInv
<1>6. CASE h = g
  BY <1>1, <1>3, <1>4, <1>6
<1>7. CASE h # g
  BY <1>5, <1>7 DEF GetInv
<1> QED
  BY <1>6, <1>7

\* No step breaks the invariant.
LEMMA NextGetInv == GetInv /\ FileTypeOK /\ [Next]_vars => GetInv'
<1> SUFFICES ASSUME GetInv, FileTypeOK, [Next]_vars
             PROVE  GetInv'
  OBVIOUS
<1>1. ASSUME NEW p \in Putters, TakeRequest(p)
      PROVE  GetInv'
  <2>1. UNCHANGED getVars /\ (Touch \/ UNCHANGED <<file, touched>>)
    BY <1>1, Zenon DEF TakeRequest, history
  <2> QED
    BY <2>1, TouchGetInv, ApartGetInv
<1>2. ASSUME NEW p \in Putters, WriteLead(p) \/ CopyBody(p)
      PROVE  GetInv'
  BY <1>2, TouchGetInv DEF WriteLead, CopyBody
<1>3. ASSUME NEW p \in Putters,
             \/ CutShort(p) \/ Confirm(p) \/ ReadFails(p) \/ SendBody(p) \/ CloseClient(p)
      PROVE  GetInv'
  BY <1>3, ApartGetInv DEF CutShort, Confirm, ReadFails, SendBody, CloseClient, history
<1>4. ASSUME NEW g \in Getters, PromiseSize(g)
      PROVE  GetInv'
  BY <1>4 DEF PromiseSize, GetInv, FileTypeOK, history
<1>5. ASSUME NEW g \in Getters, FinishGet(g) \/ AbortGet(g) \/ MakeRoom(g)
      PROVE  GetInv'
  BY <1>5 DEF FinishGet, AbortGet, MakeRoom, GetInv, FileTypeOK, history
<1>6. CASE UNCHANGED vars
  BY <1>6, ApartGetInv DEF vars, history
<1> QED
  BY <1>1, <1>2, <1>3, <1>4, <1>5, <1>6, CopyFileGetInv DEF Next, PutStep, GetStep

\* A GET that no PUT touches sends the file as it was when its size was promised,
\* for any size of file and buffer and any number of workers.
THEOREM UntouchedGetIsFaithful == Spec => []GetIsFaithful
<1>1. Init => GetInv
  BY DEF Init, ServerInit, GetInv
<1>2. FileTypeOK /\ GetInv => GetIsFaithful
  <2> SUFFICES ASSUME FileTypeOK, GetInv, NEW g \in Getters, ~touched[g]
               PROVE  /\ received[g] = SubSeq(promised[g], 1, Len(received[g]))
                      /\ gstat[g] = "done" => received[g] = promised[g]
    BY DEF GetIsFaithful
  <2>1. received[g] = SubSeq(promised[g], 1, Len(received[g]))
    BY DEF GetInv
  <2>2. ASSUME gstat[g] = "done"
        PROVE  received[g] = promised[g]
    <3>1. Len(received[g]) = Len(promised[g])
      BY <2>2 DEF GetInv, FileTypeOK
    <3>2. promised[g] \in Seq(Byte)
      BY DEF FileTypeOK
    <3> QED
      BY <2>1, <3>1, <3>2, WholeSequence
  <2> QED
    BY <2>1, <2>2
<1> QED
  BY <1>1, <1>2, NextGetInv, FileTypeInvariant, PTL DEF Spec

(***************************************************************************)
(* A PUT that has the file to itself                                       *)
(***************************************************************************)

\* The first n bytes of p's body.
Beginning(p, n) == [i \in 1..n |-> <<p, i>>]

\* The invariant that is inductive: nobody else writes, or has the file to himself;
\* the file is empty until the PUT first writes, and from then on, as long as no byte
\* was dropped, the beginning of its body.
SoleInv ==
  \A p \in sole :
    /\ \A q \in Putters \ {p} : q \notin sole /\ pstat[q] \notin {"lead", "body"}
    /\ pstat[p] = "lead" => file = <<>>
    /\ pstat[p] \in {"body", "created"} /\ got[p] = kept[p] => file = Beginning(p, kept[p])

\* Writing what comes next in a body behind its beginning makes a longer beginning.
LEMMA WrittenBehind ==
  ASSUME NEW p \in Putters, NEW k \in Nat, NEW n \in Nat, file = Beginning(p, k)
  PROVE  Written(p, k, n, k) = Beginning(p, k + n)
<1>1. CASE n = 0
  BY <1>1 DEF Written
<1>2. CASE n # 0
  <2>1. Len(file) = k /\ Larger(Len(file), k + n) = k + n
    BY <1>2 DEF Beginning, Larger
  <2> DEFINE byte(i) == CASE i \in k + 1..k + n -> <<p, k + i - k>>
                          [] i <= Len(file) /\ i \notin k + 1..k + n -> file[i]
                          [] OTHER -> <<"hole", 0>>
  <2>2. ASSUME NEW i \in 1..k + n
        PROVE  byte(i) = <<p, i>>
    <3>1. CASE i \in k + 1..k + n
      <4>1. k + i - k = i
        OBVIOUS
      <4> QED
        BY <3>1, <4>1
    <3>2. CASE i \notin k + 1..k + n
      <4>1. i \in 1..k
        BY <3>2
      <4>2. file[i] = <<p, i>>
        BY <4>1 DEF Beginning
      <4> QED
        BY <2>1, <3>2, <4>1, <4>2
    <3> QED
      BY <3>1, <3>2
  <2>3. Written(p, k, n, k) = [i \in 1..k + n |-> byte(i)]
    BY <1>2, <2>1 DEF Written
  <2> HIDE DEF byte
  <2> QED
    BY <2>2, <2>3 DEF Beginning
<1> QED
  BY <1>1, <1>2

\* An empty file is the beginning of any body.
LEMMA EmptyBeginning ==
  ASSUME NEW p \in Putters
  PROVE  <<>> = Beginning(p, 0)
BY DEF Beginning

\* Each step of a PUT keeps the file of the one that has it to itself.
LEMMA TakeRequestSoleInv ==
  ASSUME PutInv, FileTypeOK, SoleInv, NEW q \in Putters, TakeRequest(q)
  PROVE  SoleInv'
<1>1. /\ pstat[q] = "request"
      /\ UNCHANGED kept
      /\ \A p \in Putters \ {q} : got'[p] = got[p] /\ pstat'[p] = pstat[p]
  BY DEF TakeRequest, PutInv, PutTypeOK
<1>2. CASE pstat' = [pstat EXCEPT ![q] = "lead"]
  <2>1. /\ file' = <<>>
        /\ sole' = IF \E p \in Putters \ {q} : pstat[p] \in {"lead", "body"} THEN {} ELSE {q}
    BY <1>2 DEF TakeRequest, PutInv, PutTypeOK
  <2>2. pstat'[q] = "lead"
    BY <1>2 DEF PutInv, PutTypeOK
  <2>3. CASE sole' = {}
    BY <2>3 DEF SoleInv
  <2>4. CASE sole' # {}
    <3>1. sole' = {q} /\ \A p \in Putters \ {q} : pstat'[p] \notin {"lead", "body"}
      BY <1>1, <2>1, <2>4
    <3> QED
      BY <2>1, <2>2, <3>1 DEF SoleInv
  <2> QED
    BY <2>3, <2>4
<1>3. CASE pstat' = [pstat EXCEPT ![q] = "unanswered"]
  <2>1. UNCHANGED <<file, sole>>
    BY <1>3 DEF TakeRequest, PutInv, PutTypeOK, history
  <2>2. pstat'[q] = "unanswered"
    BY <1>3 DEF PutInv, PutTypeOK
  <2> QED
    BY <1>1, <2>1, <2>2 DEF SoleInv, FileTypeOK
<1> QED
  BY <1>2, <1>3 DEF TakeRequest

LEMMA WriteLeadSoleInv ==
  ASSUME PutInv, FileTypeOK, SoleInv, NEW q \in Putters, WriteLead(q)
  PROVE  SoleInv'
<1> PICK m \in 0..Lead(q) :
      /\ file' = Written(q, 0, m, 0)
      /\ kept' = [kept EXCEPT ![q] = m]
      /\ pstat' \in {[pstat EXCEPT ![q] = "body"], [pstat EXCEPT ![q] = "failed"]}
  BY DEF WriteLead
<1>1. m \in Nat
  BY LeadBound, TransferAssumption DEF PutInv, PutTypeOK
<1>2. pstat[q] = "lead" /\ UNCHANGED <<got, sole>>
  BY DEF WriteLead
<1>3. \A p \in sole : p = q
  BY <1>2 DEF SoleInv, FileTypeOK
<1>4. \A p \in Putters \ {q} : pstat'[p] = pstat[p]
  BY DEF PutInv, PutTypeOK
<1>5. q \in sole => file' = Beginning(q, m)
  <2>1. q \in sole => file = Beginning(q, 0)
    BY <1>2, EmptyBeginning DEF SoleInv
  <2>2. file = Beginning(q, 0) => Written(q, 0, m, 0) = Beginning(q, 0 + m)
    BY <1>1, WrittenBehind
  <2> QED
    BY <1>1, <2>1, <2>2
<1>6. kept'[q] = m /\ pstat'[q] # "lead"
  BY DEF PutInv, PutTypeOK
<1> QED
  BY <1>2, <1>3, <1>4, <1>5, <1>6 DEF SoleInv

LEMMA CopyBodySoleInv ==
  ASSUME PutInv, FileTypeOK, SoleInv, NEW q \in Putters, CopyBody(q)
  PROVE  SoleInv'
<1> PICK n \in 1..Smaller(Buf, sent[q] - got[q]) :
         /\ got' = [got EXCEPT ![q] = @ + n]
         /\ \E m \in 0..n :
              /\ file' = Written(q, got[q], m, kept[q])
              /\ kept' = [kept EXCEPT ![q] = @ + m]
              /\ pstat' = IF m = n THEN pstat ELSE [pstat EXCEPT ![q] = "failed"]
  BY DEF CopyBody
<1> PICK m \in 0..n :
         /\ file' = Written(q, got[q], m, kept[q])
         /\ kept' = [kept EXCEPT ![q] = @ + m]
         /\ pstat' = IF m = n THEN pstat ELSE [pstat EXCEPT ![q] = "failed"]
  OBVIOUS
<1>1. /\ n \in Nat /\ m \in Nat /\ got[q] \in Nat /\ kept[q] \in Nat
      /\ got'[q] = got[q] + n /\ kept'[q] = kept[q] + m
  BY TransferAssumption DEF Smaller, PutInv, PutTypeOK
<1>2. pstat[q] = "body" /\ UNCHANGED sole
  BY DEF CopyBody
<1>3. \A p \in sole : p = q
  BY <1>2 DEF SoleInv, FileTypeOK
<1>4. \A p \in Putters \ {q} : pstat'[p] = pstat[p]
  BY DEF PutInv, PutTypeOK
<1>5. pstat'[q] \in {"body", "failed"} /\ (pstat'[q] = "body" => m = n)
  BY <1>2 DEF PutInv, PutTypeOK
<1>6. ASSUME q \in sole, m = n, got'[q] = kept'[q]
      PROVE  file' = Beginning(q, kept'[q])
  <2>1. got[q] = kept[q]
    BY <1>1, <1>6
  <2>2. file = Beginning(q, kept[q])
    BY <1>2, <1>6, <2>1 DEF SoleInv
  <2>3. Written(q, kept[q], m, kept[q]) = Beginning(q, kept[q] + m)
    BY <1>1, <2>2, WrittenBehind
  <2> QED
    BY <1>1, <2>1, <2>3
<1> QED
  BY <1>2, <1>3, <1>4, <1>5, <1>6 DEF SoleInv

\* No step breaks the invariant.
LEMMA NextSoleInv == PutInv /\ FileTypeOK /\ SoleInv /\ [Next]_vars => SoleInv'
<1> SUFFICES ASSUME PutInv, FileTypeOK, SoleInv, [Next]_vars
             PROVE  SoleInv'
  OBVIOUS
<1>1. ASSUME NEW q \in Putters, CutShort(q)
      PROVE  SoleInv'
  BY <1>1 DEF CutShort, SoleInv, PutInv, PutTypeOK, FileTypeOK, history
<1>7. ASSUME NEW q \in Putters, ReadFails(q)
      PROVE  SoleInv'
  BY <1>7 DEF ReadFails, SoleInv, PutInv, PutTypeOK, FileTypeOK
<1>2. ASSUME NEW q \in Putters, Confirm(q)
      PROVE  SoleInv'
  BY <1>2 DEF Confirm, SoleInv, PutInv, PutTypeOK, FileTypeOK, history
<1>3. ASSUME UNCHANGED <<file, putVars, sole>>
      PROVE  SoleInv'
  BY <1>3 DEF SoleInv, putVars
<1>4. ASSUME NEW q \in Putters, SendBody(q) \/ CloseClient(q)
      PROVE  SoleInv'
  BY <1>3, <1>4 DEF SendBody, CloseClient, history
<1>5. ASSUME NEW g \in Getters, GetStep(g) \/ AbortGet(g) \/ MakeRoom(g)
      PROVE  SoleInv'
  BY <1>3, <1>5 DEF GetStep, PromiseSize, CopyFile, FinishGet, AbortGet, MakeRoom, history
<1>6. CASE UNCHANGED vars
  BY <1>3, <1>6 DEF vars, history
<1> QED
  BY TakeRequestSoleInv, WriteLeadSoleInv, CopyBodySoleInv,
     <1>1, <1>2, <1>4, <1>5, <1>6, <1>7 DEF Next, PutStep

\* The invariant holds in every reachable state.
LEMMA SoleInvariant == Spec => []SoleInv
<1>1. Init => SoleInv
  BY DEF Init, ServerInit, SoleInv
<1> QED
  BY <1>1, NextSoleInv, PutInvariant, FileTypeInvariant, PTL DEF Spec

\* A PUT that had the file to itself until it was answered 201 Created has left its
\* client's body there, byte for byte, whatever pieces it came and was written in.
THEOREM SolePutLeavesItsBody == Spec => []CreatedIsTheBody
<1>1. PutInv /\ FileTypeOK /\ SoleInv /\ CreatedIsComplete => CreatedIsTheBody
  <2> SUFFICES ASSUME PutInv, FileTypeOK, SoleInv, CreatedIsComplete,
                      NEW p \in sole, pstat[p] = "created", Honest(p)
               PROVE  file = [i \in 1..declared[p] |-> <<p, i>>]
    BY DEF CreatedIsTheBody
  <2>1. p \in Putters
    BY DEF FileTypeOK
  <2>2. kept[p] = declared[p] /\ got[p] = kept[p]
    BY <2>1 DEF CreatedIsComplete
  <2> QED
    BY <2>2 DEF SoleInv, Beginning
<1> QED
  BY <1>1, PutInvariant, FileTypeInvariant, SoleInvariant, CreatedMeansComplete, PTL
==============================================================================
