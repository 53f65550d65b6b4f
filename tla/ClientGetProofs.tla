---------------------------- MODULE ClientGetProofs ----------------------------
(***************************************************************************)
(* Proofs about ClientGet, for buffers, headers and bodies of any size.    *)
(***************************************************************************)
EXTENDS ClientGet, SequenceTheorems, TLAPS

(***************************************************************************)
(* Lemmas about the operators                                              *)
(***************************************************************************)

\* A size_t stays one, and reducing it by no more than it is is subtraction.
LEMMA MinusType ==
  ASSUME NEW a \in 0..SizeMod - 1, NEW b \in 0..SizeMod - 1
  PROVE  /\ Minus(a, b) \in 0..SizeMod - 1
         /\ b <= a => Minus(a, b) = a - b
         /\ a < b => Minus(a, b) = a - b + SizeMod
BY ClientAssumption DEF Minus

\* Numbers 1 to a and the next w behind them are 1 to a + w.
LEMMA NumbersGoOn ==
  ASSUME NEW a \in Nat, NEW w \in Nat, NEW bytes \in Seq(Nat), Len(bytes) = w,
         \A i \in 1..w : bytes[i] = a + i
  PROVE  [i \in 1..a |-> i] \o bytes = [i \in 1..a + w |-> i]
<1> DEFINE s == [i \in 1..a |-> i]
<1>1. s \in Seq(Nat) /\ Len(s) = a /\ \A i \in 1..a : s[i] = i
  OBVIOUS
<1>2. s \o bytes \in Seq(Nat) /\ Len(s \o bytes) = a + w
  BY <1>1
<1>3. \A i \in 1..a + w : (s \o bytes)[i] = i
  BY <1>1
<1> QED
  BY <1>2, <1>3

\* A write that did not fail has appended all of the buffer.
LEMMA StoreAppends ==
  ASSUME TypeOK, NEW bytes \in Seq(0..MaxBody), Store(bytes)
  PROVE  /\ target' \in Seq(0..MaxBody)
         /\ fault' \in BOOLEAN
         /\ ~fault' => target' = target \o bytes
<1>1. PICK k \in 0..Len(bytes) :
        /\ target' = target \o SubSeq(bytes, 1, k)
        /\ fault' = (k < Len(bytes))
  BY DEF Store
<1>2. Len(bytes) \in Nat /\ \A i \in 1..Len(bytes) : bytes[i] \in 0..MaxBody
  BY LenProperties, ElementOfSeq
<1>3. SubSeq(bytes, 1, k) \in Seq(0..MaxBody)
  <2>1. \A i \in 1..k : bytes[i] \in 0..MaxBody
    BY <1>2
  <2>2. 1 \in Int /\ k \in Int
    BY <1>2
  <2> QED
    BY <2>1, <2>2, SubSeqProperties
<1>4. target \in Seq(0..MaxBody)
  BY DEF TypeOK
<1>5. target' \in Seq(0..MaxBody)
  BY <1>1, <1>3, <1>4, ConcatProperties
<1>6. fault' \in BOOLEAN
  <2>1. (k < Len(bytes)) \in BOOLEAN
    BY <1>2
  <2> QED
    BY <1>1, <2>1, Zenon
<1>7. ~(k < Len(bytes)) => k = Len(bytes)
  BY <1>2
<1>8. SubSeq(bytes, 1, Len(bytes)) = bytes
  BY SubSeqFull
<1>9. ~fault' => target' = target \o bytes
  BY <1>1, <1>7, <1>8, Zenon
<1> QED
  BY <1>5, <1>6, <1>9, Zenon

(***************************************************************************)
(* The inductive invariant                                                 *)
(***************************************************************************)

\* A client that has read nothing satisfies the invariant.
LEMMA InitClientInv == Init => ClientInv
<1> SUFFICES ASSUME Init PROVE ClientInv
  OBVIOUS
<1> USE ClientAssumption
<1>1. TypeOK
  <2>1. target \in Seq(0..MaxBody)
    BY DEF Init
  <2>2. length_end \in 0..MaxHeader /\ header \in 1..MaxHeader
    BY DEF Init, NoLength
  <2>3. sent \in 0..header + body /\ taken \in 0..sent /\ blocks \in 0..MaxHeader + MaxBody
    BY DEF Init
  <2>4. content_len \in 0..SizeMod - 1 /\ size \in 1..Block
    BY DEF Init
  <2> QED
    BY <2>1, <2>2, <2>3, <2>4 DEF Init, TypeOK, Ends
<1>2. HeaderFollows
  BY DEF Init, HeaderFollows, NoLength
<1>3. ContentFollows /\ WholeIsStored
  BY DEF Init, ContentFollows, WholeIsStored
<1> QED
  BY <1>1, <1>2, <1>3 DEF ClientInv

\* Reading the header: a read that yields less than a block yields all there is.
LEMMA ReadHeaderClientInv ==
  ASSUME ClientInv, ReadHeader
  PROVE  ClientInv'
<1> USE ClientAssumption
<1> DEFINE n == Got(Block)
<1>1. /\ cpc \in {"length", "blank"} /\ ReadEnds(Block)
      /\ UNCHANGED <<header, length_end, declared, body, sent, closed, reset>>
  BY DEF ReadHeader, server, response
<1>2. /\ header \in 1..MaxHeader /\ length_end \in 0..MaxHeader
      /\ declared \in 0..MaxBody /\ body \in 0..MaxBody
      /\ sent \in 0..header + body /\ taken \in 0..sent
      /\ closed \in BOOLEAN /\ reset \in BOOLEAN
  BY DEF ClientInv, TypeOK
<1>3. /\ n \in 0..Block /\ n <= sent - taken
      /\ n < Block => closed /\ n = sent - taken
  BY <1>1, <1>2 DEF Got, Smaller, ReadEnds
<1>4. CASE (n = 0 \/ reset) /\ Fail
  <2>1. /\ cpc' = "failed"
        /\ UNCHANGED <<taken, blocks, content_len, size, target, fault>>
    BY <1>4 DEF Fail
  <2>2. TypeOK'
    BY <1>1, <2>1 DEF ClientInv, TypeOK, Ends
  <2>3. HeaderFollows' /\ ContentFollows'
    BY <1>1, <2>1 DEF ClientInv, HeaderFollows, ContentFollows
  <2>4. n = 0 => CutShort \/ length_end = NoLength
    <3>1. taken < header \/ length_end = NoLength
      BY <1>1, <1>2 DEF ClientInv, HeaderFollows
    <3> QED
      BY <1>2, <1>3, <3>1 DEF CutShort
  <2>5. WholeIsStored'
    BY <1>1, <1>4, <2>1, <2>4 DEF WholeIsStored, CutShort
  <2> QED
    BY <2>2, <2>3, <2>5 DEF ClientInv
<1>5. CASE /\ n > 0 /\ ~reset
           /\ taken' = taken + n
           /\ blocks' = blocks + 1
           /\ cpc' = CASE length_end = NoLength \/ length_end > taken' -> "length"
                       [] length_end \in 1..taken' /\ header > taken' -> "blank"
                       [] OTHER -> "payload"
           /\ UNCHANGED <<content_len, size, target, fault>>
  <2>0. n > 0 /\ taken' = taken + n /\ blocks' = blocks + 1
    BY <1>5
  <2>1. taken' \in 0..sent /\ taken' \in Nat
    BY <1>2, <1>3, <1>5
  <2>2. cpc' \in {"length", "blank", "payload"}
    BY <1>5
  <2>3. /\ cpc' = "length" => length_end = NoLength \/ length_end > taken'
        /\ cpc' = "blank" => header > taken'
        /\ cpc' = "payload" => header <= taken'
    BY <1>2, <1>5, <2>1 DEF NoLength
  <2>4. blocks \in Nat /\ blocks <= taken /\ (blocks = 0 => taken = 0) /\ target = <<>>
    BY <1>1 DEF ClientInv, TypeOK, HeaderFollows
  <2>5. blocks' \in 0..MaxHeader + MaxBody /\ blocks' <= taken' /\ blocks' # 0
    <3> HIDE DEF n
    <3>1. blocks' <= taken' /\ blocks' # 0 /\ blocks' \in Nat
      BY <1>2, <1>3, <2>0, <2>4
    <3>2. taken' <= MaxHeader + MaxBody
      BY <1>2, <2>1
    <3> QED
      BY <2>1, <3>1, <3>2
  <2>6. TypeOK'
    BY <1>1, <1>5, <2>1, <2>2, <2>5 DEF ClientInv, TypeOK
  <2>7. blocks' = 1 => taken' = Block \/ (taken' < Block /\ closed /\ sent = taken')
    <3> HIDE DEF n
    <3>1. SUFFICES ASSUME blocks' = 1 PROVE taken' = Block \/ (taken' < Block /\ closed /\ sent = taken')
      OBVIOUS
    <3>2. taken = 0
      BY <2>0, <2>4, <3>1
    <3> QED
      BY <1>2, <1>3, <2>0, <3>2
  <2>8. HeaderFollows'
    BY <1>1, <1>5, <2>3, <2>4, <2>5, <2>7 DEF ClientInv, HeaderFollows
  <2>9. ContentFollows' /\ WholeIsStored'
    BY <2>2 DEF ContentFollows, WholeIsStored
  <2> QED
    BY <2>6, <2>8, <2>9 DEF ClientInv
<1> QED
  BY <1>4, <1>5 DEF ReadHeader

\* Copying what came with the header: the three ways the count can go.
LEMMA CopyPayloadClientInv ==
  ASSUME ClientInv, CopyPayload
  PROVE  ClientInv'
<1> USE ClientAssumption
<1>1. /\ cpc = "payload"
      /\ UNCHANGED <<header, length_end, declared, body, sent, closed, reset,
                     taken, blocks, size>>
  BY DEF CopyPayload, server, response
<1>2. /\ header \in 1..MaxHeader /\ length_end \in 0..MaxHeader
      /\ declared \in 0..MaxBody /\ body \in 0..MaxBody
      /\ sent \in 0..header + body /\ taken \in 0..sent
      /\ content_len \in 0..SizeMod - 1
  BY DEF ClientInv, TypeOK
<1>3. /\ target = <<>> /\ header <= taken
      /\ blocks = 1 => taken = Block \/ (taken < Block /\ closed /\ sent = taken)
  BY <1>1 DEF ClientInv, HeaderFollows
<1>4. CASE cpc' = "undefined" /\ UNCHANGED <<content_len, target, fault>>
  <2>1. TypeOK'
    BY <1>1, <1>4 DEF ClientInv, TypeOK, Ends
  <2>2. HeaderFollows' /\ ContentFollows' /\ WholeIsStored'
    BY <1>1, <1>4 DEF ClientInv, HeaderFollows, ContentFollows, WholeIsStored
  <2> QED
    BY <2>1, <2>2 DEF ClientInv
<1>5. CASE blocks = 1 /\ content_len' = Minus(declared, Block - header)
           /\ Store([i \in 1..Block - header |-> IF header + i <= taken THEN i ELSE 0])
           /\ cpc' = IF fault' THEN "failed" ELSE "content"
  <2> DEFINE w == Block - header
             bytes == [i \in 1..w |-> IF header + i <= taken THEN i ELSE 0]
  <2>1. w \in 0..Block /\ w \in 0..SizeMod - 1 /\ declared \in 0..SizeMod - 1
    BY <1>2, <1>3, <1>5
  <2>2. bytes \in Seq(0..MaxBody)
    <3>1. \A i \in 1..w : (IF header + i <= taken THEN i ELSE 0) \in 0..MaxBody
      BY <1>2, <2>1
    <3> QED
      BY <2>1, <3>1
  <2>3. /\ target' \in Seq(0..MaxBody) /\ fault' \in BOOLEAN
        /\ ~fault' => target' = bytes
    <3>1. TypeOK /\ Store(bytes)
      BY <1>5 DEF ClientInv
    <3>2. /\ target' \in Seq(0..MaxBody) /\ fault' \in BOOLEAN
          /\ ~fault' => target' = target \o bytes
      BY <2>2, <3>1, StoreAppends
    <3>3. <<>> \o bytes = bytes
      BY <2>2, ConcatEmptySeq
    <3> QED
      BY <1>3, <3>2, <3>3
  <2>4. /\ content_len' \in 0..SizeMod - 1
        /\ w <= declared => content_len' = declared - w
        /\ declared < w => content_len' = declared - w + SizeMod
    <3>1. content_len' = Minus(declared, w)
      BY <1>5
    <3> QED
      BY <2>1, <3>1, MinusType
  <2>5. cpc' \in {"failed", "content"} /\ (cpc' = "failed" <=> fault')
    BY <1>5, <2>3
  <2>6. TypeOK'
    BY <1>1, <2>3, <2>4, <2>5 DEF ClientInv, TypeOK, Ends
  <2>7. HeaderFollows'
    BY <1>1, <2>5 DEF ClientInv, HeaderFollows
  <2>8. WholeIsStored'
    BY <2>5 DEF WholeIsStored
  <2>9. ASSUME cpc' = "content"
        PROVE  header <= Block /\ (NothingFollows' \/ CountIsExact' \/ CountIsWrapped')
    <3>1. target' = bytes
      BY <2>3, <2>5, <2>9
    <3>2. header <= Block
      BY <1>2, <2>1
    <3>3. CASE taken < Block /\ closed /\ sent = taken
      BY <1>1, <1>5, <3>2, <3>3 DEF NothingFollows
    <3>4. CASE taken = Block /\ w <= declared
      <4>1. taken - header = w
        BY <3>4
      <4>2. bytes = [i \in 1..taken - header |-> i]
        <5>1. \A i \in 1..w : header + i <= taken
          BY <1>2, <2>1, <4>1
        <5> QED
          BY <4>1, <5>1
      <4>3. content_len' = declared - (taken - header)
        BY <2>4, <3>4, <4>1
      <4>4. CountIsExact'
        BY <1>1, <3>1, <4>2, <4>3 DEF CountIsExact
      <4> QED
        BY <3>2, <4>4
    <3>5. CASE taken = Block /\ declared < w
      <4>1. taken - header = w /\ header + declared < Block
        BY <1>2, <3>5
      <4>2. CountIsWrapped'
        BY <1>1, <1>2, <2>4, <3>5, <4>1 DEF CountIsWrapped
      <4> QED
        BY <3>2, <4>2
    <3> QED
      BY <1>2, <1>3, <1>5, <2>1, <3>3, <3>4, <3>5
  <2>10. ContentFollows'
    BY <1>1, <1>3, <2>5, <2>9 DEF ContentFollows
  <2> QED
    BY <2>6, <2>7, <2>8, <2>10 DEF ClientInv
<1> QED
  BY <1>4, <1>5 DEF CopyPayload

\* A pass of the copy loop that reads less than it wants has read the end of a
\* body that was cut short.
LEMMA CopyContentClientInv ==
  ASSUME ClientInv, CopyContent
  PROVE  ClientInv'
<1> USE ClientAssumption
<1> DEFINE want == Smaller(size, content_len)
           n == Got(want)
           bytes == [i \in 1..want |-> IF i <= n THEN taken - header + i ELSE 0]
<1>1. /\ cpc = "content" /\ content_len > 0 /\ ReadEnds(want)
      /\ UNCHANGED <<header, length_end, declared, body, sent, closed, reset>>
  BY DEF CopyContent, server, response
<1>2. /\ header \in 1..MaxHeader /\ length_end \in 0..MaxHeader
      /\ declared \in 0..MaxBody /\ body \in 0..MaxBody
      /\ sent \in 0..header + body /\ taken \in 0..sent
      /\ closed \in BOOLEAN /\ reset \in BOOLEAN
      /\ content_len \in 0..SizeMod - 1 /\ size \in 1..Block
  BY DEF ClientInv, TypeOK
<1>3. /\ header <= Block /\ header <= taken
      /\ NothingFollows \/ CountIsExact \/ CountIsWrapped
  BY <1>1 DEF ClientInv, ContentFollows
<1>4. want \in 1..Block /\ want <= content_len
  BY <1>1, <1>2 DEF Smaller
<1> HIDE DEF want
<1>5. /\ n \in 0..want /\ n <= sent - taken
      /\ n < want => closed /\ n = sent - taken
  BY <1>1, <1>2, <1>4 DEF Got, Smaller, ReadEnds
<1>6. CountIsExact => /\ content_len = declared - (taken - header)
                      /\ CutShort \/ target = [i \in 1..taken - header |-> i]
  BY DEF CountIsExact
<1> HIDE DEF n, bytes
<1>7. CASE (n = 0 \/ reset) /\ Fail
  <2>1. /\ cpc' = "failed"
        /\ UNCHANGED <<taken, blocks, content_len, size, target, fault>>
    BY <1>7 DEF Fail
  <2>2. TypeOK'
    BY <1>1, <2>1 DEF ClientInv, TypeOK, Ends
  <2>3. HeaderFollows' /\ ContentFollows'
    BY <1>1, <2>1 DEF ClientInv, HeaderFollows, ContentFollows
  <2>4. ASSUME n = 0
        PROVE  CutShort \/ header + declared < Block
    <3>1. closed /\ sent = taken
      BY <1>2, <1>4, <1>5, <2>4
    <3>2. CASE NothingFollows
      BY <1>1, <1>2, <1>3, <3>1, <3>2 DEF NothingFollows, Minus, CutShort
    <3>3. CASE CountIsExact
      BY <1>1, <1>2, <1>3, <1>6, <3>1, <3>3 DEF CutShort
    <3>4. CASE CountIsWrapped
      BY <3>4 DEF CountIsWrapped
    <3> QED
      BY <1>3, <3>2, <3>3, <3>4
  <2>5. WholeIsStored'
    BY <1>1, <1>7, <2>1, <2>4 DEF WholeIsStored, CutShort
  <2> QED
    BY <2>2, <2>3, <2>5 DEF ClientInv
<1>8. CASE /\ n > 0 /\ ~reset
           /\ taken' = taken + n
           /\ content_len' = Minus(content_len, n)
           /\ size' = want
           /\ Store(bytes)
           /\ cpc' = IF fault' THEN "failed" ELSE cpc
           /\ UNCHANGED blocks
  <2>1. taken' = taken + n /\ taken' \in 0..sent /\ n \in 1..want
    BY <1>2, <1>5, <1>8
  <2>2. content_len' \in 0..SizeMod - 1 /\ content_len' = content_len - n
    <3>1. n \in 0..SizeMod - 1 /\ n <= content_len
      BY <1>2, <1>4, <1>5
    <3> QED
      BY <1>2, <1>8, <3>1, MinusType
  <2>3. bytes \in Seq(0..MaxBody)
    <3>1. \A i \in 1..want : (IF i <= n THEN taken - header + i ELSE 0) \in 0..MaxBody
      BY <1>2, <1>3, <1>4, <1>5
    <3> QED
      BY <1>4, <3>1 DEF bytes
  <2>4. /\ target' \in Seq(0..MaxBody) /\ fault' \in BOOLEAN
        /\ ~fault' => target' = target \o bytes
    <3>1. TypeOK /\ Store(bytes)
      BY <1>8 DEF ClientInv
    <3> QED
      BY <2>3, <3>1, StoreAppends
  <2>5. cpc' \in {"failed", "content"} /\ (cpc' = "failed" <=> fault')
    BY <1>1, <1>8, <2>4
  <2>6. size' \in 1..Block /\ blocks' = blocks
    BY <1>4, <1>8
  <2>7. TypeOK'
    BY <1>1, <2>1, <2>2, <2>4, <2>5, <2>6 DEF ClientInv, TypeOK, Ends
  <2>8. HeaderFollows'
    <3>1. blocks <= taken /\ blocks \in Nat /\ (blocks = 0 => taken = 0)
      BY DEF ClientInv, HeaderFollows, TypeOK
    <3> QED
      BY <1>1, <1>2, <1>3, <2>1, <2>5, <2>6, <3>1 DEF ClientInv, HeaderFollows
  <2>9. WholeIsStored'
    BY <2>4, <2>5 DEF WholeIsStored
  <2>10. ~NothingFollows
    BY <1>2, <1>5, <2>1 DEF NothingFollows
  <2>11. CountIsExact /\ cpc' = "content" => CountIsExact'
    <3> SUFFICES ASSUME CountIsExact, cpc' = "content" PROVE CountIsExact'
      OBVIOUS
    <3>1. content_len' = declared - (taken' - header)
      BY <1>2, <1>6, <2>1, <2>2
    <3>2. CutShort => CutShort'
      BY <1>1 DEF CutShort
    <3>3. CASE n < want
      <4>1. closed /\ sent = taken'
        BY <1>2, <1>5, <2>1, <3>3
      <4>2. content_len' > 0
        BY <1>2, <1>4, <2>1, <2>2, <3>3
      <4>3. CutShort'
        BY <1>1, <1>2, <2>1, <3>1, <4>1, <4>2 DEF CutShort
      <4> QED
        BY <1>1, <3>1, <4>3 DEF CountIsExact
    <3>4. CASE n = want /\ ~CutShort
      <4>1. target' = [i \in 1..taken - header |-> i] \o bytes
        BY <1>6, <2>4, <2>5, <3>4
      <4>2. bytes \in Seq(Nat) /\ Len(bytes) = want /\ \A i \in 1..want : bytes[i] = taken - header + i
        <5>1. \A i \in 1..want : taken - header + i \in Nat
          BY <1>2, <1>3, <1>4
        <5>2. bytes = [i \in 1..want |-> taken - header + i]
          BY <1>4, <3>4 DEF bytes
        <5> QED
          BY <1>4, <5>1, <5>2
      <4>3. target' = [i \in 1..(taken - header) + want |-> i]
        <5>1. taken - header \in Nat /\ want \in Nat
          BY <1>2, <1>3, <1>4
        <5> QED
          BY <4>1, <4>2, <5>1, NumbersGoOn
      <4>4. (taken - header) + want = taken' - header
        BY <1>2, <1>4, <2>1, <3>4
      <4> QED
        BY <1>1, <3>1, <4>3, <4>4 DEF CountIsExact
    <3> QED
      BY <1>1, <1>4, <1>5, <3>1, <3>2, <3>3, <3>4 DEF CountIsExact
  <2>12. CountIsWrapped => CountIsWrapped'
    BY <1>1, <1>2, <2>1, <2>2 DEF CountIsWrapped
  <2>13. ContentFollows'
    BY <1>1, <1>2, <1>3, <2>1, <2>5, <2>10, <2>11, <2>12 DEF ContentFollows
  <2> QED
    BY <2>7, <2>8, <2>9, <2>13 DEF ClientInv
<1> QED
  BY <1>7, <1>8 DEF CopyContent, want, n, bytes

\* Reporting success changes nothing but where the client stands.
LEMMA SucceedClientInv ==
  ASSUME ClientInv, Succeed
  PROVE  ClientInv'
<1>1. /\ cpc = "content" /\ content_len = 0 /\ cpc' = "done"
      /\ UNCHANGED <<header, length_end, declared, body, sent, closed, reset,
                     taken, blocks, content_len, size, target, fault>>
  BY DEF Succeed, server, response
<1>2. TypeOK'
  BY <1>1 DEF ClientInv, TypeOK, Ends
<1>3. HeaderFollows' /\ WholeIsStored'
  BY <1>1 DEF ClientInv, HeaderFollows, WholeIsStored
<1>4. /\ NothingFollows => NothingFollows'
      /\ CountIsExact => CountIsExact'
      /\ CountIsWrapped => CountIsWrapped'
  BY <1>1 DEF NothingFollows, CountIsExact, CountIsWrapped, CutShort
<1>5. ContentFollows'
  BY <1>1, <1>4 DEF ClientInv, ContentFollows
<1> QED
  BY <1>2, <1>3, <1>5 DEF ClientInv

\* What the server does later spoils nothing: where it matters that no more
\* comes, it has closed the connection.
LEMMA ServerClientInv ==
  ASSUME ClientInv, ServerSends \/ ServerCloses
  PROVE  ClientInv'
<1>1. /\ closed = FALSE
      /\ UNCHANGED <<cpc, header, length_end, declared, body, taken, blocks,
                     content_len, size, target, fault>>
  <2>1. closed \in BOOLEAN
    BY DEF ClientInv, TypeOK
  <2> QED
    BY <2>1 DEF ServerSends, ServerCloses, response
<1>2. reset = FALSE /\ ~CutShort /\ ~NothingFollows
  BY <1>1 DEF ClientInv, TypeOK, HeaderFollows, CutShort, NothingFollows
<1>3. sent \in 0..sent' /\ sent' \in 0..header + body
  <2>1. sent \in 0..header + body /\ header \in 1..MaxHeader /\ body \in 0..MaxBody
    BY DEF ClientInv, TypeOK
  <2>2. CASE ServerSends
    BY <2>1, <2>2, ClientAssumption DEF ServerSends
  <2>3. CASE ServerCloses
    BY <2>1, <2>3, ClientAssumption DEF ServerCloses
  <2> QED
    BY <2>2, <2>3
<1>4. closed' \in BOOLEAN /\ reset' \in BOOLEAN /\ (reset' => closed')
  BY <1>1, <1>2 DEF ServerSends, ServerCloses
<1>5. TypeOK'
  <2>1. taken \in 0..sent /\ sent \in Nat /\ sent' \in Nat
    BY <1>3 DEF ClientInv, TypeOK
  <2>2. taken' \in 0..sent'
    BY <1>1, <1>3, <2>1
  <2> QED
    BY <1>1, <1>3, <1>4, <2>2 DEF ClientInv, TypeOK
<1>6. HeaderFollows'
  BY <1>1, <1>4 DEF ClientInv, HeaderFollows
<1>7. CountIsExact => CountIsExact'
  BY <1>1, <1>2 DEF CountIsExact
<1>8. CountIsWrapped => CountIsWrapped'
  BY <1>1 DEF CountIsWrapped
<1>9. ContentFollows'
  BY <1>1, <1>2, <1>7, <1>8 DEF ClientInv, ContentFollows
<1>10. WholeIsStored'
  BY <1>1, <1>2 DEF ClientInv, WholeIsStored
<1> QED
  BY <1>5, <1>6, <1>9, <1>10 DEF ClientInv

\* Every step of the client and of the server preserves it.
LEMMA NextClientInv == ClientInv /\ [Next]_vars => ClientInv'
<1> SUFFICES ASSUME ClientInv, [Next]_vars PROVE ClientInv'
  OBVIOUS
<1>1. CASE ReadHeader
  BY <1>1, ReadHeaderClientInv
<1>2. CASE CopyPayload
  BY <1>2, CopyPayloadClientInv
<1>3. CASE CopyContent
  BY <1>3, CopyContentClientInv
<1>4. CASE Succeed
  BY <1>4, SucceedClientInv
<1>5. CASE ServerSends \/ ServerCloses
  BY <1>5, ServerClientInv
<1>6. CASE UNCHANGED vars
  BY <1>6 DEF vars, server, response, ClientInv, TypeOK, HeaderFollows, ContentFollows,
              WholeIsStored, NothingFollows, CountIsExact, CountIsWrapped, CutShort
<1> QED
  BY <1>1, <1>2, <1>3, <1>4, <1>5, <1>6 DEF Next, ClientStep

(***************************************************************************)
(* The theorems                                                            *)
(***************************************************************************)

\* The count of what is left is right, or wrapped round behind a response
\* smaller than a buffer, or nothing will follow, in every state of http_copy.
THEOREM ClientInvariant == Spec => []ClientInv
<1>1. Init => ClientInv
  BY InitClientInv
<1>2. ClientInv /\ [Next]_vars => ClientInv'
  BY NextClientInv
<1> QED
  BY <1>1, <1>2, PTL DEF Spec

\* The variables of http_copy have their types; its counters stay in a size_t.
THEOREM ClientTypeOK == Spec => []TypeOK
<1>1. ClientInv => TypeOK
  BY DEF ClientInv
<1> QED
  BY <1>1, ClientInvariant, PTL

\* A GET that reports success has stored the declared body, byte for byte,
\* whatever the blocks it came in, unless the server cut it short.
THEOREM SuccessIsExact == Spec => []StoredIsExact
<1>1. ClientInv => StoredIsExact
  <2> SUFFICES ASSUME ClientInv, cpc = "done", ~CutShort
               PROVE  target = [i \in 1..declared |-> i]
    BY DEF StoredIsExact
  <2>1. /\ header \in 1..MaxHeader /\ declared \in 0..MaxBody /\ body \in 0..MaxBody
        /\ sent \in 0..header + body /\ taken \in 0..sent /\ closed \in BOOLEAN
    BY DEF ClientInv, TypeOK
  <2>2. /\ header <= Block /\ header <= taken /\ content_len = 0
        /\ NothingFollows \/ CountIsExact \/ CountIsWrapped
    BY DEF ClientInv, ContentFollows
  <2>3. ~NothingFollows
    BY <2>1, <2>2, ClientAssumption DEF NothingFollows, Minus, CutShort
  <2>4. ~CountIsWrapped
    BY <2>1, <2>2, ClientAssumption DEF CountIsWrapped
  <2>5. target = [i \in 1..taken - header |-> i] /\ declared = taken - header
    BY <2>1, <2>2, <2>3, <2>4 DEF CountIsExact
  <2> QED
    BY <2>5
<1> QED
  BY <1>1, ClientInvariant, PTL

\* A GET that reports success of a body cut short had one that would just have
\* filled the first buffer.
THEOREM CutsAreNoticed == Spec => []CutShortIsNoticed
<1>1. ClientInv => CutShortIsNoticed
  <2> SUFFICES ASSUME ClientInv, cpc = "done", CutShort
               PROVE  header + declared = Block
    BY DEF CutShortIsNoticed
  <2>1. /\ header \in 1..MaxHeader /\ declared \in 0..MaxBody /\ body \in 0..MaxBody
        /\ sent \in 0..header + body /\ taken \in 0..sent
    BY DEF ClientInv, TypeOK
  <2>2. /\ header <= Block /\ header <= taken /\ content_len = 0
        /\ NothingFollows \/ CountIsExact \/ CountIsWrapped
    BY DEF ClientInv, ContentFollows
  <2>3. ~CountIsExact
    BY <2>1, <2>2 DEF CountIsExact, CutShort
  <2>4. ~CountIsWrapped
    BY <2>1, <2>2, ClientAssumption DEF CountIsWrapped
  <2> QED
    BY <2>1, <2>2, <2>3, <2>4, ClientAssumption DEF NothingFollows, Minus
<1> QED
  BY <1>1, ClientInvariant, PTL

\* A GET fails only of a body cut short, a reset, a file it cannot write, a
\* response without a Content-Length, or one smaller than a buffer.
THEOREM FailuresHaveReasons == Spec => []WholeIsStored
<1>1. ClientInv => WholeIsStored
  BY DEF ClientInv
<1> QED
  BY <1>1, ClientInvariant, PTL
==============================================================================
