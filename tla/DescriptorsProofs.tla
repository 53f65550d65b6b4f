-------------------------- MODULE DescriptorsProofs --------------------------
(***************************************************************************)
(* Proofs about Descriptors, for any number of workers and of descriptors. *)
(***************************************************************************)
EXTENDS Descriptors, TLAPS

\* A free number has no holder, and a holder is no free number.
LEMMA FreeIsNoHolder ==
  /\ Free \notin Holders
  /\ \A w \in Workers, kind \in Kinds : <<w, kind>> \in Holders
  /\ \A h \in Holders : \E w \in Workers, kind \in Kinds : h = <<w, kind>>
BY DEF Free, Holders, Kinds

\* What stays true even where a signal interrupts close(2).
HeldInv == TypeOK /\ LostIsRefused /\ HeldByPc

\* Nothing is open when the process starts.
LEMMA InitHeld == Init => HeldInv
<1> SUFFICES ASSUME Init PROVE HeldInv
  OBVIOUS
<1>1. TypeOK
  BY DEF Init, TypeOK
<1>2. LostIsRefused
  BY DEF Init, LostIsRefused
<1>3. HeldByPc
  BY FreeIsNoHolder DEF Init, HeldByPc, Kinds
<1> QED
  BY <1>1, <1>2, <1>3 DEF HeldInv

\* Opening h on a number of its own loses nothing.
LEMMA AllocateHolds ==
  ASSUME HeldInv, NEW h \in Holders, fd[h] = -1, Allocate(h), UNCHANGED refused
  PROVE  /\ table' \in [Fds -> Holders \cup {Free}]
         /\ fd' \in [Holders -> Fds \cup {-1}]
         /\ LostIsRefused'
         /\ fd'[h] # -1
         /\ \A g \in Holders : g # h => fd'[g] = fd[g]
<1>1. PICK f \in Fds : /\ table[f] = Free
                       /\ table' = [table EXCEPT ![f] = h]
                       /\ fd' = [fd EXCEPT ![h] = f]
  BY DEF Allocate, OpensOn
<1>2. f # -1
  BY <1>1, DescriptorsAssumption DEF Fds
<1>3. /\ table' \in [Fds -> Holders \cup {Free}]
      /\ fd' \in [Holders -> Fds \cup {-1}]
      /\ fd'[h] # -1
      /\ \A g \in Holders : g # h => fd'[g] = fd[g]
  BY <1>1, <1>2 DEF HeldInv, TypeOK
<1>4. ASSUME NEW e \in Fds, table'[e] # Free, e \notin refused'
      PROVE  fd'[table'[e]] = e
  <2>1. CASE e = f
    BY <2>1, <1>1 DEF HeldInv, TypeOK
  <2>2. CASE e # f
    <3>1. table'[e] = table[e] /\ table[e] \in Holders /\ fd[table[e]] = e
      BY <2>2, <1>1, <1>4 DEF HeldInv, TypeOK, LostIsRefused
    <3>2. table[e] # h
      BY <3>1, DescriptorsAssumption DEF Fds
    <3> QED
      BY <3>1, <3>2, <1>3
  <2> QED
    BY <2>1, <2>2
<1> QED
  BY <1>3, <1>4 DEF LostIsRefused

\* Giving a number back keeps the types.
LEMMA ReleaseType ==
  ASSUME HeldInv, NEW f \in Fds, Release(f)
  PROVE  /\ table' \in [Fds -> Holders \cup {Free}]
         /\ refused' \in SUBSET Fds
BY DEF HeldInv, TypeOK, Release

\* Closing, interrupted or not, leaves nothing open that no variable holds.
LEMMA CloseHolds ==
  ASSUME HeldInv, NEW w \in Workers, NEW kind \in Kinds, NEW retry, NEW next,
         fd[<<w, kind>>] # -1, CloseOnce(w, kind, retry, next)
  PROVE  /\ table' \in [Fds -> Holders \cup {Free}]
         /\ LostIsRefused'
         /\ freed' \in BOOLEAN
         /\ refused' \in SUBSET Fds
         /\ \/ fd' = [fd EXCEPT ![<<w, kind>>] = -1] /\ Go(w, next)
            \/ UNCHANGED fd /\ Go(w, retry)
<1>1. PICK h \in Holders : h = <<w, kind>>
  BY FreeIsNoHolder
<1>2. fd[h] \in Fds
  BY <1>1 DEF HeldInv, TypeOK
<1>3. \A e \in Fds : table[e] # Free /\ e \notin refused
                     => table[e] \in Holders /\ fd[table[e]] = e
  BY DEF HeldInv, TypeOK, LostIsRefused
<1>4. freed' \in BOOLEAN
  BY <1>1 DEF CloseOnce, HeldInv, TypeOK
<1>5. CASE /\ Release(fd[h])
           /\ fd' = [fd EXCEPT ![h] = -1]
           /\ Go(w, next)
  <2>1. table' \in [Fds -> Holders \cup {Free}] /\ refused' \in SUBSET Fds
    BY <1>2, <1>5, ReleaseType
  <2>2. ASSUME NEW e \in Fds, table'[e] # Free, e \notin refused'
        PROVE  fd'[table'[e]] = e
    <3>1. e # fd[h] /\ table'[e] = table[e] /\ e \notin refused
      BY <1>2, <1>5, <2>2 DEF HeldInv, TypeOK, Release
    <3>2. table[e] \in Holders /\ fd[table[e]] = e /\ table[e] # h
      BY <1>3, <2>2, <3>1
    <3> QED
      BY <1>5, <3>1, <3>2 DEF HeldInv, TypeOK
  <2> QED
    BY <1>1, <1>5, <1>4, <2>1, <2>2 DEF LostIsRefused
<1>6. CASE /\ UNCHANGED <<table, refused>> \/ Release(fd[h])
           /\ Go(w, retry)
           /\ UNCHANGED fd
  <2>1. table' \in [Fds -> Holders \cup {Free}] /\ refused' \in SUBSET Fds
    BY <1>2, <1>6, ReleaseType DEF HeldInv, TypeOK
  <2>2. ASSUME NEW e \in Fds, table'[e] # Free, e \notin refused'
        PROVE  fd'[table'[e]] = e
    <3>1. table'[e] = table[e] /\ e \notin refused
      BY <1>2, <1>6, <2>2 DEF HeldInv, TypeOK, Release
    <3> QED
      BY <1>3, <1>6, <2>2, <3>1
  <2> QED
    BY <1>6, <1>4, <2>1, <2>2 DEF LostIsRefused
<1> QED
  BY <1>1, <1>5, <1>6 DEF CloseOnce

\* One step: no descriptor is lost, and each is held where the code says.
LEMMA NextHeld == HeldInv /\ [Next]_vars => HeldInv'
<1> SUFFICES ASSUME HeldInv, [Next]_vars PROVE HeldInv'
  OBVIOUS
<1> USE DEF HeldInv
<1>1. CASE UNCHANGED vars
  BY <1>1 DEF vars, TypeOK, LostIsRefused, HeldByPc
<1>6. ASSUME NEW w \in Workers, SpawnFails(w) PROVE HeldInv'
  <2>1. PICK f \in Fds : /\ table' = [table EXCEPT ![f] = <<w, "client">>]
                         /\ refused' = refused \cup {f}
    BY <1>6 DEF SpawnFails, OpensOn
  <2>2. <<w, "client">> \in Holders
    BY FreeIsNoHolder DEF Kinds
  <2>3. TypeOK'
    BY <1>6, <2>1, <2>2 DEF SpawnFails, TypeOK
  <2>4. ASSUME NEW e \in Fds, table'[e] # Free, e \notin refused'
        PROVE  fd'[table'[e]] = e
    <3>1. e # f /\ e \notin refused
      BY <2>1, <2>4
    <3>2. table'[e] = table[e]
      BY <2>1, <3>1 DEF TypeOK
    <3> QED
      BY <1>6, <2>4, <3>1, <3>2 DEF SpawnFails, LostIsRefused
  <2>5. LostIsRefused'
    BY <2>4 DEF LostIsRefused
  <2>6. HeldByPc'
    BY <1>6 DEF SpawnFails, HeldByPc
  <2> QED
    BY <2>3, <2>5, <2>6
<1>7. ASSUME NEW w \in Workers, ListDirectory(w) PROVE HeldInv'
  <2>1. PICK h \in Holders : h = <<w, "local">>
    BY FreeIsNoHolder DEF Kinds
  <2>2. PICK f \in Fds : f = fd[h]
    BY <1>7, <2>1 DEF ListDirectory, TypeOK
  <2>3. /\ wpc[w] = "get"
        /\ fd' = [fd EXCEPT ![h] = -1]
        /\ Release(f) \/ (refused' = refused \cup {f} /\ UNCHANGED table)
        /\ UNCHANGED <<wpc, freed>>
    BY <1>7, <2>1, <2>2 DEF ListDirectory
  <2>4. TypeOK'
    <3>1. table' \in [Fds -> Holders \cup {Free}] /\ refused' \in SUBSET Fds
      BY <2>3, ReleaseType DEF TypeOK
    <3> QED
      BY <2>3, <3>1 DEF TypeOK
  <2>5. ASSUME NEW e \in Fds, table'[e] # Free, e \notin refused'
        PROVE  fd'[table'[e]] = e
    <3>1. e # f /\ table'[e] = table[e] /\ e \notin refused
      BY <2>3, <2>5 DEF Release, TypeOK
    <3>2. table[e] \in Holders /\ fd[table[e]] = e
      BY <2>5, <3>1 DEF TypeOK, LostIsRefused
    <3>3. table[e] # h
      BY <2>2, <3>1, <3>2
    <3> QED
      BY <2>3, <3>1, <3>2, <3>3 DEF TypeOK
  <2>6. LostIsRefused'
    BY <2>5 DEF LostIsRefused
  <2>7. HeldByPc'
    <3> SUFFICES ASSUME NEW v \in Workers
                 PROVE  /\ wpc'[v] = "idle" <=> fd'[<<v, "client">>] = -1
                        /\ wpc'[v] \in {"idle", "open", "hangup", "retry_client"}
                             => fd'[<<v, "local">>] = -1
      BY DEF HeldByPc
    <3>1. <<v, "client">> \in Holders /\ <<v, "local">> \in Holders
      BY FreeIsNoHolder DEF Kinds
    <3>2. fd'[<<v, "client">>] = fd[<<v, "client">>]
      BY <2>1, <2>3, <3>1 DEF TypeOK
    <3>3. fd[<<v, "local">>] = -1 => fd'[<<v, "local">>] = -1
      BY <2>3, <3>1 DEF TypeOK
    <3> QED
      BY <2>3, <3>2, <3>3 DEF HeldByPc
  <2> QED
    BY <2>4, <2>6, <2>7
<1>2. ASSUME NEW w \in Workers, Accept(w) PROVE HeldInv'
  <2>1. <<w, "client">> \in Holders /\ fd[<<w, "client">>] = -1
    BY <1>2, FreeIsNoHolder DEF Accept, HeldByPc, Kinds
  <2>2. Allocate(<<w, "client">>) /\ wpc' = [wpc EXCEPT ![w] = "open"]
    BY <1>2 DEF Accept, Go
  <2>5. UNCHANGED refused
    BY <1>2 DEF Accept
  <2>3. /\ table' \in [Fds -> Holders \cup {Free}]
        /\ fd' \in [Holders -> Fds \cup {-1}]
        /\ LostIsRefused'
        /\ fd'[<<w, "client">>] # -1
        /\ \A g \in Holders : g # <<w, "client">> => fd'[g] = fd[g]
    BY <2>1, <2>2, <2>5, AllocateHolds
  <2>4. HeldByPc'
    <3> SUFFICES ASSUME NEW v \in Workers
                 PROVE  /\ wpc'[v] = "idle" <=> fd'[<<v, "client">>] = -1
                        /\ wpc'[v] \in {"idle", "open", "hangup", "retry_client"}
                             => fd'[<<v, "local">>] = -1
      BY DEF HeldByPc
    <3>1. <<v, "client">> \in Holders /\ <<v, "local">> \in Holders
      BY FreeIsNoHolder DEF Kinds
    <3>2. fd'[<<v, "local">>] = fd[<<v, "local">>]
      BY <2>3, <3>1
    <3>3. CASE v = w
      BY <1>2, <2>2, <2>3, <3>2, <3>3 DEF TypeOK, HeldByPc, Accept
    <3>4. CASE v # w
      <4>1. fd'[<<v, "client">>] = fd[<<v, "client">>]
        BY <2>3, <3>1, <3>4
      <4> QED
        BY <2>2, <3>2, <3>4, <4>1 DEF TypeOK, HeldByPc
    <3> QED
      BY <3>3, <3>4
  <2> QED
    BY <1>2, <2>2, <2>3, <2>4 DEF TypeOK, Accept
<1>3. ASSUME NEW w \in Workers, NEW handler \in {"get", "use"}, OpenLocal(w, handler)
      PROVE  HeldInv'
  <2>1. <<w, "local">> \in Holders /\ fd[<<w, "local">>] = -1
    BY <1>3, FreeIsNoHolder DEF OpenLocal, HeldByPc, Kinds
  <2>2. wpc[w] = "open" /\ wpc' = [wpc EXCEPT ![w] = handler]
    BY <1>3 DEF OpenLocal, Go
  <2>3. /\ table' \in [Fds -> Holders \cup {Free}]
        /\ fd' \in [Holders -> Fds \cup {-1}]
        /\ LostIsRefused'
        /\ \A g \in Holders : g # <<w, "local">> => fd'[g] = fd[g]
    <3>4. UNCHANGED refused
      BY <1>3 DEF OpenLocal
    <3>1. CASE Allocate(<<w, "local">>)
      BY <2>1, <3>1, <3>4, AllocateHolds
    <3>2. CASE UNCHANGED <<table, fd>>
      BY <3>2, <3>4 DEF TypeOK, LostIsRefused
    <3> QED
      BY <1>3, <3>1, <3>2 DEF OpenLocal
  <2>4. HeldByPc'
    <3> SUFFICES ASSUME NEW v \in Workers
                 PROVE  /\ wpc'[v] = "idle" <=> fd'[<<v, "client">>] = -1
                        /\ wpc'[v] \in {"idle", "open", "hangup", "retry_client"}
                             => fd'[<<v, "local">>] = -1
      BY DEF HeldByPc
    <3>1. <<v, "client">> \in Holders /\ <<v, "local">> \in Holders
      BY FreeIsNoHolder DEF Kinds
    <3>2. fd'[<<v, "client">>] = fd[<<v, "client">>]
      BY <2>3, <3>1
    <3>3. CASE v = w
      BY <2>2, <3>2, <3>3 DEF TypeOK, HeldByPc
    <3>4. CASE v # w
      <4>1. fd'[<<v, "local">>] = fd[<<v, "local">>]
        BY <2>3, <3>1, <3>4
      <4> QED
        BY <2>2, <3>2, <3>4, <4>1 DEF TypeOK, HeldByPc
    <3> QED
      BY <3>3, <3>4
  <2> QED
    BY <1>3, <2>2, <2>3, <2>4 DEF TypeOK, OpenLocal
<1>4. ASSUME NEW w \in Workers, CloseLocal(w) PROVE HeldInv'
  <2>1. wpc[w] \in {"get", "use", "retry_local"} /\ <<w, "local">> \in Holders
    BY <1>4, FreeIsNoHolder DEF CloseLocal, Kinds
  <2>2. CASE fd[<<w, "local">>] = -1
    BY <1>4, <2>1, <2>2 DEF CloseLocal, Go, TypeOK, LostIsRefused, HeldByPc
  <2>3. CASE fd[<<w, "local">>] # -1
    <3>1. CloseOnce(w, "local", "retry_local", "hangup")
      BY <1>4, <2>3 DEF CloseLocal
    <3>2. "local" \in Kinds
      BY DEF Kinds
    <3>3. /\ table' \in [Fds -> Holders \cup {Free}]
          /\ LostIsRefused'
          /\ freed' \in BOOLEAN
          /\ refused' \in SUBSET Fds
          /\ \/ /\ fd' = [fd EXCEPT ![<<w, "local">>] = -1]
                /\ wpc' = [wpc EXCEPT ![w] = "hangup"]
             \/ /\ UNCHANGED fd
                /\ wpc' = [wpc EXCEPT ![w] = "retry_local"]
      BY <2>3, <3>1, <3>2, CloseHolds DEF Go
    <3>4. fd' \in [Holders -> Fds \cup {-1}] /\ TypeOK'
      BY <3>3 DEF TypeOK
    <3>5. \A g \in Holders : g # <<w, "local">> => fd'[g] = fd[g]
      BY <3>3 DEF TypeOK
    <3>6. HeldByPc'
      <4> SUFFICES ASSUME NEW v \in Workers
                   PROVE  /\ wpc'[v] = "idle" <=> fd'[<<v, "client">>] = -1
                          /\ wpc'[v] \in {"idle", "open", "hangup", "retry_client"}
                               => fd'[<<v, "local">>] = -1
        BY DEF HeldByPc
      <4>1. <<v, "client">> \in Holders /\ <<v, "local">> \in Holders
        BY FreeIsNoHolder DEF Kinds
      <4>2. fd'[<<v, "client">>] = fd[<<v, "client">>]
        BY <3>5, <4>1
      <4>3. CASE v = w
        BY <2>1, <3>3, <4>2, <4>3 DEF TypeOK, HeldByPc
      <4>4. CASE v # w
        <5>1. fd'[<<v, "local">>] = fd[<<v, "local">>]
          BY <3>5, <4>1, <4>4
        <5>2. wpc'[v] = wpc[v]
          BY <3>3, <4>4 DEF TypeOK
        <5> QED
          BY <4>2, <5>1, <5>2 DEF HeldByPc
      <4> QED
        BY <4>3, <4>4
    <3> QED
      BY <3>3, <3>4, <3>6
  <2> QED
    BY <2>2, <2>3
<1>5. ASSUME NEW w \in Workers, CloseClient(w) PROVE HeldInv'
  <2>1. wpc[w] \in {"open", "hangup", "retry_client"} /\ <<w, "client">> \in Holders
    BY <1>5, FreeIsNoHolder DEF CloseClient, Kinds
  <2>2. fd[<<w, "client">>] # -1 /\ fd[<<w, "local">>] = -1
    BY <2>1 DEF HeldByPc
  <2>3. "client" \in Kinds
    BY DEF Kinds
  <2>4. /\ table' \in [Fds -> Holders \cup {Free}]
        /\ LostIsRefused'
        /\ freed' \in BOOLEAN
        /\ refused' \in SUBSET Fds
        /\ \/ /\ fd' = [fd EXCEPT ![<<w, "client">>] = -1]
              /\ wpc' = [wpc EXCEPT ![w] = "idle"]
           \/ /\ UNCHANGED fd
              /\ wpc' = [wpc EXCEPT ![w] = "retry_client"]
    BY <1>5, <2>2, <2>3, CloseHolds DEF CloseClient, Go
  <2>5. fd' \in [Holders -> Fds \cup {-1}] /\ TypeOK'
    BY <2>4 DEF TypeOK
  <2>6. \A g \in Holders : g # <<w, "client">> => fd'[g] = fd[g]
    BY <2>4 DEF TypeOK
  <2>7. HeldByPc'
    <3> SUFFICES ASSUME NEW v \in Workers
                 PROVE  /\ wpc'[v] = "idle" <=> fd'[<<v, "client">>] = -1
                        /\ wpc'[v] \in {"idle", "open", "hangup", "retry_client"}
                             => fd'[<<v, "local">>] = -1
      BY DEF HeldByPc
    <3>1. <<v, "client">> \in Holders /\ <<v, "local">> \in Holders
      BY FreeIsNoHolder DEF Kinds
    <3>2. fd'[<<v, "local">>] = fd[<<v, "local">>]
      BY <2>6, <3>1
    <3>3. CASE v = w
      BY <2>1, <2>2, <2>4, <3>1, <3>2, <3>3 DEF TypeOK
    <3>4. CASE v # w
      <4>1. fd'[<<v, "client">>] = fd[<<v, "client">>]
        BY <2>6, <3>1, <3>4
      <4>2. wpc'[v] = wpc[v]
        BY <2>4, <3>4 DEF TypeOK
      <4> QED
        BY <3>2, <4>1, <4>2 DEF HeldByPc
    <3> QED
      BY <3>3, <3>4
  <2> QED
    BY <2>4, <2>5, <2>7
<1> QED
  BY <1>1, <1>2, <1>3, <1>4, <1>5, <1>6, <1>7
     DEF Next, AcceptFails, OpenGet, OpenPut, OpenDns

\* Every step of every worker, interrupted or not, keeps the inductive invariant.
THEOREM HeldInvariant == Spec => []HeldInv
BY InitHeld, NextHeld, PTL DEF Spec

\* No descriptor is left open that no variable of its worker holds, but for the
\* directories fdopendir(3) refused and the connections without a thread.
THEOREM OnlyRefusedAreLost == Spec => []LostIsRefused
<1>1. HeldInv => LostIsRefused
  BY DEF HeldInv
<1> QED
  BY <1>1, HeldInvariant, PTL

\* A worker that is idle holds no descriptor.
THEOREM IdleHoldsNothing == Spec => []HeldByPc
<1>1. HeldInv => HeldByPc
  BY DEF HeldInv
<1> QED
  BY <1>1, HeldInvariant, PTL

\* Two holders never keep the same number, as long as each number is its own.
LEMMA OwnersDiffer ==
  ASSUME NumbersAreOwn, ~freed,
         NEW g \in Holders, NEW h \in Holders, g # h, fd[h] # -1
  PROVE  fd[g] # fd[h]
BY DEF NumbersAreOwn

\* Opening a file gives its holder a number nobody keeps.
LEMMA AllocateOwn ==
  ASSUME HeldInv, NumbersAreOwn, ~freed, NEW h \in Holders, Allocate(h)
  PROVE  \A g \in Holders : fd'[g] # -1 => table'[fd'[g]] = g
<1>1. PICK f \in Fds : /\ table[f] = Free
                       /\ table' = [table EXCEPT ![f] = h]
                       /\ fd' = [fd EXCEPT ![h] = f]
  BY DEF Allocate, OpensOn
<1>2. ASSUME NEW g \in Holders, fd'[g] # -1 PROVE table'[fd'[g]] = g
  <2>1. CASE g = h
    BY <1>1, <2>1 DEF HeldInv, TypeOK
  <2>2. CASE g # h
    <3>1. fd'[g] = fd[g] /\ fd[g] \in Fds /\ table[fd[g]] = g
      BY <1>1, <1>2, <2>2 DEF HeldInv, TypeOK, NumbersAreOwn
    <3>2. fd[g] # f
      BY <1>1, <3>1, FreeIsNoHolder
    <3> QED
      BY <1>1, <3>1, <3>2 DEF HeldInv, TypeOK
  <2> QED
    BY <2>1, <2>2
<1> QED
  BY <1>2

\* Closing frees the closer's number and nobody else's; interrupted before it
\* freed anything, it changes no number at all.
LEMMA CloseOwn ==
  ASSUME HeldInv, NumbersAreOwn, ~freed,
         NEW w \in Workers, NEW kind \in Kinds, NEW retry, NEW next,
         fd[<<w, kind>>] # -1, CloseOnce(w, kind, retry, next), ~freed'
  PROVE  \A g \in Holders : fd'[g] # -1 => table'[fd'[g]] = g
<1>1. PICK h \in Holders : h = <<w, kind>>
  BY FreeIsNoHolder
<1>2. CASE UNCHANGED <<table, fd>>
  BY <1>2 DEF NumbersAreOwn
<1>3. CASE Release(fd[h]) /\ fd' = [fd EXCEPT ![h] = -1]
  <2> SUFFICES ASSUME NEW g \in Holders, fd'[g] # -1 PROVE table'[fd'[g]] = g
    OBVIOUS
  <2>1. g # h /\ fd'[g] = fd[g] /\ fd[g] \in Fds /\ table[fd[g]] = g
    BY <1>3 DEF HeldInv, TypeOK, NumbersAreOwn
  <2>2. fd[g] # fd[h]
    BY <1>1, <2>1, OwnersDiffer
  <2> QED
    BY <1>3, <2>1, <2>2 DEF HeldInv, TypeOK, Release
<1> QED
  BY <1>1, <1>2, <1>3 DEF CloseOnce

\* One step keeps every number with its owner, or frees one too early.
LEMMA NextOwn == HeldInv /\ NumbersAreOwn /\ [Next]_vars => NumbersAreOwn'
<1> SUFFICES ASSUME HeldInv, NumbersAreOwn, [Next]_vars, ~freed'
             PROVE  \A g \in Holders : fd'[g] # -1 => table'[fd'[g]] = g
  BY DEF NumbersAreOwn
<1>1. CASE UNCHANGED vars
  BY <1>1 DEF vars, NumbersAreOwn
<1>2. ASSUME NEW w \in Workers, Accept(w)
      PROVE  \A g \in Holders : fd'[g] # -1 => table'[fd'[g]] = g
  <2>1. ~freed /\ <<w, "client">> \in Holders /\ Allocate(<<w, "client">>)
    BY <1>2, FreeIsNoHolder DEF Accept, Kinds
  <2> QED
    BY <2>1, AllocateOwn
<1>3. ASSUME NEW w \in Workers, NEW handler, OpenLocal(w, handler)
      PROVE  \A g \in Holders : fd'[g] # -1 => table'[fd'[g]] = g
  <2>1. /\ ~freed /\ <<w, "local">> \in Holders
        /\ Allocate(<<w, "local">>) \/ UNCHANGED <<table, fd>>
    BY <1>3, FreeIsNoHolder DEF OpenLocal, Kinds
  <2> QED
    BY <2>1, AllocateOwn DEF NumbersAreOwn
<1>4. ASSUME NEW w \in Workers, CloseLocal(w)
      PROVE  \A g \in Holders : fd'[g] # -1 => table'[fd'[g]] = g
  <2>1. CASE fd[<<w, "local">>] = -1
    BY <1>4, <2>1 DEF CloseLocal, NumbersAreOwn
  <2>2. CASE fd[<<w, "local">>] # -1
    <3>1. CloseOnce(w, "local", "retry_local", "hangup") /\ "local" \in Kinds
      BY <1>4, <2>2 DEF CloseLocal, Kinds
    <3>2. ~freed
      BY <3>1 DEF CloseOnce
    <3> QED
      BY <2>2, <3>1, <3>2, CloseOwn
  <2> QED
    BY <2>1, <2>2
<1>5. ASSUME NEW w \in Workers, CloseClient(w)
      PROVE  \A g \in Holders : fd'[g] # -1 => table'[fd'[g]] = g
  <2>1. CloseOnce(w, "client", "retry_client", "idle") /\ "client" \in Kinds
    BY <1>5 DEF CloseClient, Kinds
  <2>2. ~freed
    BY <2>1 DEF CloseOnce
  <2>3. fd[<<w, "client">>] # -1
    BY <1>5 DEF CloseClient, HeldInv, HeldByPc
  <2> QED
    BY <2>1, <2>2, <2>3, CloseOwn
<1>6. ASSUME NEW w \in Workers, SpawnFails(w)
      PROVE  \A g \in Holders : fd'[g] # -1 => table'[fd'[g]] = g
  <2>1. PICK f \in Fds : table[f] = Free /\ table' = [table EXCEPT ![f] = <<w, "client">>]
    BY <1>6 DEF SpawnFails, OpensOn
  <2>2. ASSUME NEW g \in Holders, fd'[g] # -1 PROVE table'[fd'[g]] = g
    <3>1. fd'[g] = fd[g] /\ fd[g] \in Fds /\ table[fd[g]] = g /\ ~freed
      BY <1>6, <2>2 DEF SpawnFails, HeldInv, TypeOK, NumbersAreOwn
    <3>2. fd[g] # f
      BY <2>1, <3>1, FreeIsNoHolder
    <3> QED
      BY <2>1, <3>1, <3>2 DEF HeldInv, TypeOK
  <2> QED
    BY <2>2
<1>7. ASSUME NEW w \in Workers, ListDirectory(w)
      PROVE  \A g \in Holders : fd'[g] # -1 => table'[fd'[g]] = g
  <2>1. PICK h \in Holders : h = <<w, "local">>
    BY FreeIsNoHolder DEF Kinds
  <2>2. /\ fd[h] # -1 /\ ~freed
        /\ fd' = [fd EXCEPT ![h] = -1]
        /\ Release(fd[h]) \/ UNCHANGED table
    BY <1>7, <2>1 DEF ListDirectory
  <2> SUFFICES ASSUME NEW g \in Holders, fd'[g] # -1 PROVE table'[fd'[g]] = g
    OBVIOUS
  <2>3. g # h /\ fd'[g] = fd[g] /\ fd[g] \in Fds /\ table[fd[g]] = g
    BY <2>2 DEF HeldInv, TypeOK, NumbersAreOwn
  <2>4. fd[g] # fd[h]
    BY <2>2, <2>3, OwnersDiffer
  <2> QED
    BY <2>2, <2>3, <2>4 DEF HeldInv, TypeOK, Release
<1> QED
  BY <1>1, <1>2, <1>3, <1>4, <1>5, <1>6, <1>7
     DEF Next, AcceptFails, OpenGet, OpenPut, OpenDns

\* Until a close(2) has freed its number and failed all the same, no worker uses
\* a number that is another's.
THEOREM NumbersStayOwn == Spec => []NumbersAreOwn
<1>1. Init => NumbersAreOwn
  BY DEF Init, NumbersAreOwn
<1> QED
  BY <1>1, NextOwn, HeldInvariant, PTL DEF Spec
==============================================================================
