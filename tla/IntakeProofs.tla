---------------------------- MODULE IntakeProofs ----------------------------
(***************************************************************************)
(* Machine-checked proofs about Intake: the type invariant, that a message  *)
(* lands once, and that the receive lane implements the mailbox, for every  *)
(* set of envelopes, accounts, weights and capacities.                      *)
(***************************************************************************)
EXTENDS Intake, SequenceTheorems, FiniteSetTheorems, TLAPS

(* Zenon proves the leaves that do not name another prover.                *)
USE ZenonT(30)

(* The job queue holds a message once, and before its receipt is sent.      *)
InQueue(m) == \E i \in 1 .. Len(receipts) : receipts[i] = m

JobsAreDistinct ==
    \A i, j \in 1 .. Len(receipts) : receipts[i] = receipts[j] => i = j

(* A landing gives one event and one receipt job, which is queued, sent or  *)
(* lost; before it there is neither.                                        *)
LandingLedger ==
    \A m \in Messages :
        /\ announced[m] <= 1
        /\ announced[m] = 1 => m \in rows
        /\ InQueue(m) => announced[m] = 1 /\ shown[m] = 0
        /\ shown[m] <= announced[m]

IInv ==
    /\ TypeOK
    /\ IsFiniteSet(rows) /\ unread = Cardinality(rows)
    /\ JobsAreDistinct
    /\ LandingLedger

-----------------------------------------------------------------------------
(* Sequences.                                                               *)

(* The envelope in hand stands before the queue: it is the head, the queue  *)
(* is the rest, and admission at the end of the queue is at the end of both.*)
LEMMA InHand ==
    ASSUME NEW S, NEW c \in S, NEW q \in Seq(S), NEW x \in S
    PROVE  /\ <<c>> \o q # <<>>
           /\ Head(<<c>> \o q) = c
           /\ Tail(<<c>> \o q) = q
           /\ <<c>> \o Append(q, x) = Append(<<c>> \o q, x)
<1> DEFINE u == <<c>> \o q
<1>1. <<c>> \in Seq(S) /\ Len(<<c>>) = 1 /\ <<c>>[1] = c
    BY SMTT(30)
<1>2. /\ u \in Seq(S) /\ Len(u) = 1 + Len(q)
      /\ \A i \in 1 .. 1 + Len(q) : u[i] = IF i <= 1 THEN c ELSE q[i - 1]
    BY SMTT(30), <1>1, ConcatProperties
<1>3. Len(q) \in Nat
    BY LenProperties
<1>4. u # <<>> /\ Head(u) = c
    BY SMTT(30), <1>2, <1>3
<1>5. Tail(u) \in Seq(S) /\ Len(Tail(u)) = Len(q)
    BY SMTT(30), <1>2, <1>3, <1>4, HeadTailProperties
<1>6. \A i \in 1 .. Len(q) : Tail(u)[i] = q[i]
    BY SMTT(30), <1>2, <1>3, <1>4, <1>5, HeadTailProperties
<1>7. Tail(u) = q
    BY <1>5, <1>6, SeqEqual
<1>8. <<c>> \o Append(q, x) = Append(u, x)
  <2>1. <<x>> \in Seq(S)
      BY SMTT(30)
  <2>2. Append(q, x) = q \o <<x>> /\ Append(u, x) = u \o <<x>>
      BY <1>2, AppendIsConcat
  <2> QED
      BY SMTT(30), <2>1, <2>2, <1>1, ConcatAssociative
<1> QED
    BY <1>4, <1>7, <1>8

(* Taking the head of the queue in hand leaves the order as it was.         *)
LEMMA TakeInHand ==
    ASSUME NEW S, NEW q \in Seq(S), q # <<>>
    PROVE  <<Head(q)>> \o Tail(q) = q
<1>1. /\ Head(q) \in S /\ Tail(q) \in Seq(S) /\ Len(Tail(q)) = Len(q) - 1
      /\ \A i \in 1 .. Len(Tail(q)) : Tail(q)[i] = q[i + 1]
    BY HeadTailProperties
<1>2. Len(q) \in Nat \ {0}
    BY EmptySeq
<1>3. <<Head(q)>> \in Seq(S) /\ Len(<<Head(q)>>) = 1 /\ <<Head(q)>>[1] = q[1]
    BY SMTT(30), <1>1, <1>2
<1> DEFINE u == <<Head(q)>> \o Tail(q)
<1>4. /\ u \in Seq(S) /\ Len(u) = 1 + Len(Tail(q))
      /\ \A i \in 1 .. 1 + Len(Tail(q)) : u[i] = IF i <= 1 THEN q[1] ELSE Tail(q)[i - 1]
    BY SMTT(30), <1>1, <1>3, ConcatProperties
<1>5. Len(u) = Len(q)
    BY SMTT(30), <1>1, <1>2, <1>4
<1> HIDE DEF u
<1>6. ASSUME NEW i \in 1 .. Len(u) PROVE u[i] = q[i]
  <2>0. i \in Int /\ i \in 1 .. Len(q)
      BY SMTT(30), <1>2, <1>5
  <2>1. CASE i <= 1
      BY SMTT(30), <2>1, <2>0, <1>1, <1>2, <1>4
  <2>2. CASE i > 1
    <3>1. i - 1 \in 1 .. Len(Tail(q)) /\ (i - 1) + 1 = i
        BY SMTT(30), <2>0, <2>2, <1>1, <1>2
    <3>2. u[i] = Tail(q)[i - 1]
        BY SMTT(30), <3>1, <2>0, <2>2, <1>1, <1>2, <1>4
    <3>3. Tail(q)[i - 1] = q[(i - 1) + 1]
        BY <3>1, <1>1
    <3> QED
        BY <3>1, <3>2, <3>3
  <2> QED
      BY SMTT(30), <2>0, <2>1, <2>2
<1>7. u = q
    BY <1>4, <1>5, <1>6, SeqEqual
<1> QED
    BY <1>7 DEF u

-----------------------------------------------------------------------------
(* Types.                                                                   *)

(* The variables keep their types: the retry of a store and the loss of the *)
(* process included.                                                        *)
THEOREM TypeCorrect == Spec => []TypeOK
<1> USE IntakeAssumption
<1>1. Init => TypeOK
  <2> SUFFICES ASSUME Init PROVE TypeOK
      OBVIOUS
  <2>1. announced \in [Messages -> Nat] /\ shown \in [Messages -> Nat]
      BY DEF Init
  <2>2. queue \in Seq(Envelope) /\ receipts \in Seq(Messages)
      BY SMTT(30) DEF Init
  <2> QED
      BY <2>1, <2>2 DEF Init, TypeOK
<1>2. TypeOK /\ [Next]_vars => TypeOK'
  <2> SUFFICES ASSUME TypeOK, [Next]_vars PROVE TypeOK'
      OBVIOUS
  <2> USE DEF TypeOK
  <2>1. ASSUME NEW e \in Envelope, Oversized(e) \/ DropOverflow(e) \/ TakeShare(e)
        PROVE  TypeOK'
      BY <2>1 DEF Oversized, DropOverflow, TakeShare, Dropped, storeVars
  <2>2. ASSUME TakeBytes \/ EnqueueTimeout \/ EngineRestart PROVE TypeOK'
      BY <2>2 DEF TakeBytes, EnqueueTimeout, EngineRestart, Dropped, storeVars
  <2>3. CASE Enqueue
      BY <2>3, AppendProperties DEF Enqueue, storeVars
  <2>4. CASE Receive
      BY <2>4, HeadTailProperties DEF Receive, storeVars
  <2>5. CASE IngestNew
    <3>1. Message[current] \in Messages
        BY <2>5 DEF IngestNew, Messages
    <3>2. Append(receipts, Message[current]) \in Seq(Messages)
        BY <3>1, AppendProperties
    <3>3. announced' \in [Messages -> Nat]
        BY SMTT(30), <2>5, <3>1 DEF IngestNew, Bump
    <3>4. receipts' \in Seq(Messages)
        BY <2>5, <3>2 DEF IngestNew
    <3>5. rows' \subseteq Messages /\ unread' \in Nat /\ current' = None
        BY SMTT(30), <2>5, <3>1 DEF IngestNew, Persisted
    <3>6. failing' \in BOOLEAN /\ told' \in {"unavailable", "recovered"}
        BY <2>5 DEF IngestNew, Persisted
    <3>7. UNCHANGED <<coming, actor, hasBytes, queue, degraded, shown, life>>
        BY <2>5 DEF IngestNew
    <3> QED
        BY <3>3, <3>4, <3>5, <3>6, <3>7
  <2>6. ASSUME IngestReplay \/ IngestNothing PROVE TypeOK'
      BY <2>6 DEF IngestReplay, IngestNothing, Persisted
  <2>7. ASSUME NEW landed \in BOOLEAN, IngestFails(landed) PROVE TypeOK'
    <3>1. CASE landed
      <4>1. Message[current] \in Messages
          BY <2>7, <3>1 DEF IngestFails, StoreError, Messages
      <4> QED
          BY SMTT(30), <2>7, <3>1, <4>1 DEF IngestFails, StoreError
    <3>2. CASE ~landed
        BY <2>7, <3>2 DEF IngestFails, StoreError
    <3> QED
        BY <3>1, <3>2
  <2>8. CASE SendReceipt
    <3>1. Head(receipts) \in Messages /\ Tail(receipts) \in Seq(Messages)
        BY <2>8, HeadTailProperties DEF SendReceipt
    <3>2. shown' \in [Messages -> Nat]
      <4>1. Bump(shown, Head(receipts)) \in [Messages -> Nat]
          BY SMTT(30), <3>1 DEF Bump
      <4> QED
          BY <2>8, <4>1 DEF SendReceipt
    <3> QED
        BY <2>8, <3>1, <3>2 DEF SendReceipt
  <2>9. CASE Crash
    <3>1. queue' \in Seq(Envelope) /\ receipts' \in Seq(Messages)
        BY SMTT(30), <2>9 DEF Crash
    <3>2. life' \in Nat
        BY SMTT(30), <2>9 DEF Crash
    <3> QED
        BY <2>9, <3>1, <3>2 DEF Crash
  <2>10. CASE UNCHANGED vars
      BY <2>10 DEF vars
  <2> QED
      BY <2>1, <2>2, <2>3, <2>4, <2>5, <2>6, <2>7, <2>8, <2>9, <2>10
      DEF Next, Ingress, Ingest
<1> QED
    BY <1>1, <1>2, PTL DEF Spec

-----------------------------------------------------------------------------
(* A message lands once.                                                    *)

(* Each landing is counted, announced and receipted at most once, whatever  *)
(* is delivered again, retried or lost with the process.                    *)
THEOREM LandsOnceAlways == Spec => []LandsOnce
<1> USE IntakeAssumption
<1>1. Init => IsFiniteSet(rows) /\ unread = Cardinality(rows) /\ JobsAreDistinct /\ LandingLedger
    BY SMTT(30), FS_EmptySet DEF Init, JobsAreDistinct, LandingLedger, InQueue
<1>2. ASSUME IInv, TypeOK', [Next]_vars PROVE IInv'
  <2>a. TypeOK /\ IsFiniteSet(rows) /\ unread = Cardinality(rows) /\ JobsAreDistinct
        /\ LandingLedger
      BY <1>2 DEF IInv
  <2>b. Len(receipts) \in Nat /\ \A i \in 1 .. Len(receipts) : receipts[i] \in Messages
      BY <2>a, LenProperties, ElementOfSeq DEF TypeOK
  <2>1. ASSUME UNCHANGED <<rows, unread, announced, receipts, shown>> PROVE IInv'
      BY <2>a, <2>1, <1>2 DEF IInv, JobsAreDistinct, LandingLedger, InQueue
  <2>2. ASSUME NEW e \in Envelope, Oversized(e) \/ DropOverflow(e) \/ TakeShare(e)
        PROVE  IInv'
      BY <2>1, <2>2 DEF Oversized, DropOverflow, TakeShare, storeVars
  <2>3. ASSUME TakeBytes \/ Enqueue \/ EnqueueTimeout \/ EngineRestart \/ Receive PROVE IInv'
      BY <2>1, <2>3 DEF TakeBytes, Enqueue, EnqueueTimeout, EngineRestart, Receive, storeVars
  <2>4. ASSUME IngestReplay \/ IngestNothing PROVE IInv'
      BY <2>1, <2>4 DEF IngestReplay, IngestNothing
  <2>5. CASE IngestNew
    <3> DEFINE m == Message[current]
    <3>1. m \in Messages /\ m \notin rows
        BY <2>5, <2>a DEF IngestNew, Messages, TypeOK
    <3>2. IsFiniteSet(rows') /\ unread' = Cardinality(rows')
        BY <2>5, <2>a, <3>1, FS_AddElement DEF IngestNew
    <3>3. announced[m] = 0 /\ shown[m] = 0 /\ ~InQueue(m)
      <4>1. announced[m] \in Nat /\ shown[m] \in Nat
          BY <2>a, <3>1 DEF TypeOK
      <4>2. /\ announced[m] <= 1 /\ announced[m] # 1 /\ ~InQueue(m)
            /\ shown[m] <= announced[m]
          BY <2>a, <3>1 DEF LandingLedger
      <4> HIDE DEF m
      <4> QED
          BY SMTT(30), <4>1, <4>2
    <3>4. /\ announced'[m] = 1
          /\ \A k \in Messages \ {m} : announced'[k] = announced[k]
        BY SMTT(30), <2>5, <2>a, <3>1, <3>3 DEF IngestNew, Bump, TypeOK
    <3>5. CASE receipts' = receipts
      <4>1. \A k \in Messages : InQueue(k)' <=> InQueue(k)
          BY <3>5 DEF InQueue
      <4>2. rows' = rows \cup {m} /\ shown' = shown
          BY <2>5 DEF IngestNew
      <4>3. LandingLedger'
          BY SMTT(30), <2>a, <3>1, <3>3, <3>4, <4>1, <4>2 DEF LandingLedger
      <4> QED
          BY <1>2, <2>a, <3>2, <3>5, <4>3 DEF IInv, JobsAreDistinct
    <3>6. CASE receipts' = Append(receipts, m)
      <4> DEFINE n == Len(receipts)
      <4>1. /\ Len(receipts') = n + 1 /\ receipts'[n + 1] = m
            /\ \A i \in 1 .. n : receipts'[i] = receipts[i]
          BY SMTT(30), <3>1, <3>6, <2>a, AppendProperties DEF TypeOK
      <4>2. \A i \in 1 .. n : receipts[i] # m
          BY <3>3 DEF InQueue
      <4> HIDE DEF m, n
      <4>3. JobsAreDistinct'
        <5> SUFFICES ASSUME NEW i \in 1 .. n + 1, NEW j \in 1 .. n + 1,
                            receipts'[i] = receipts'[j]
                     PROVE  i = j
            BY <4>1 DEF JobsAreDistinct
        <5>1. n \in Nat
            BY <2>b DEF n
        <5>2. CASE i \in 1 .. n /\ j \in 1 .. n
            BY <5>2, <4>1, <2>a DEF JobsAreDistinct, n
        <5>3. CASE i = n + 1 \/ j = n + 1
            BY SMTT(30), <5>1, <5>3, <4>1, <4>2
        <5> QED
            BY SMTT(30), <5>1, <5>2, <5>3
      <4>4. \A k \in Messages \ {m} : InQueue(k)' => InQueue(k)
          BY SMTT(30), <4>1, <2>b DEF InQueue, n
      <4>5. rows' = rows \cup {m} /\ shown' = shown
          BY <2>5 DEF IngestNew, m
      <4>6. LandingLedger'
          BY SMTT(30), <2>a, <3>1, <3>3, <3>4, <4>4, <4>5 DEF LandingLedger
      <4> QED
          BY <1>2, <3>2, <4>3, <4>6 DEF IInv
    <3> QED
        BY <2>5, <3>5, <3>6 DEF IngestNew
  <2>6. ASSUME NEW landed \in BOOLEAN, IngestFails(landed) PROVE IInv'
    <3>1. CASE ~landed
        BY <2>1, <2>6, <3>1 DEF IngestFails, StoreError
    <3>2. CASE landed
      <4>1. Message[current] \notin rows /\ rows' = rows \cup {Message[current]}
          BY <2>6, <3>2 DEF IngestFails, StoreError
      <4>2. unread' = unread + 1 /\ UNCHANGED <<announced, receipts, shown>>
          BY <2>6, <3>2 DEF IngestFails, StoreError
      <4>3. IsFiniteSet(rows') /\ unread' = Cardinality(rows')
          BY <2>a, <4>1, <4>2, FS_AddElement
      <4>4. LandingLedger' /\ JobsAreDistinct'
          BY <2>a, <4>1, <4>2 DEF LandingLedger, InQueue, JobsAreDistinct
      <4> QED
          BY <1>2, <4>3, <4>4 DEF IInv
    <3> QED
        BY <3>1, <3>2
  <2>7. CASE SendReceipt
    <3> DEFINE h == Head(receipts)
    <3>1. /\ receipts # <<>> /\ receipts' = Tail(receipts)
          /\ shown' \in {shown, Bump(shown, h)} /\ UNCHANGED <<rows, unread, announced>>
        BY <2>7 DEF SendReceipt
    <3>2. h \in Messages /\ h = receipts[1] /\ Len(receipts) \in Nat \ {0}
        BY SMTT(30), <3>1, <2>a, HeadTailProperties, EmptySeq DEF TypeOK
    <3>3. /\ Len(receipts') = Len(receipts) - 1
          /\ \A i \in 1 .. Len(receipts') : receipts'[i] = receipts[i + 1]
        BY <3>1, <2>a, HeadTailProperties DEF TypeOK
    <3>4. InQueue(h)
        BY SMTT(30), <3>2 DEF InQueue
    <3>5. \A k \in Messages : InQueue(k)' => InQueue(k) /\ k # h
      <4> SUFFICES ASSUME NEW k \in Messages, NEW i \in 1 .. Len(receipts'),
                          receipts'[i] = k
                   PROVE  InQueue(k) /\ k # h
          BY DEF InQueue
      <4>1. i + 1 \in 1 .. Len(receipts) /\ i + 1 # 1 /\ receipts[i + 1] = k
          BY SMTT(30), <3>2, <3>3
      <4>2. 1 \in 1 .. Len(receipts)
          BY SMTT(30), <3>2
      <4> QED
          BY <2>a, <3>2, <4>1, <4>2 DEF InQueue, JobsAreDistinct
    <3> HIDE DEF h
    <3>6. /\ shown'[h] \in {shown[h], shown[h] + 1}
          /\ \A k \in Messages \ {h} : shown'[k] = shown[k]
        BY <3>1, <3>2, <2>a DEF Bump, TypeOK
    <3>7. announced[h] = 1 /\ shown[h] = 0
        BY <2>a, <3>2, <3>4 DEF LandingLedger
    <3>8. LandingLedger'
        BY SMTT(30), <2>a, <3>1, <3>2, <3>5, <3>6, <3>7 DEF LandingLedger
    <3>9. JobsAreDistinct'
      <4> SUFFICES ASSUME NEW i \in 1 .. Len(receipts'), NEW j \in 1 .. Len(receipts'),
                          receipts'[i] = receipts'[j]
                   PROVE  i = j
          BY DEF JobsAreDistinct
      <4>1. i + 1 \in 1 .. Len(receipts) /\ j + 1 \in 1 .. Len(receipts)
          BY SMTT(30), <3>2, <3>3
      <4>2. receipts[i + 1] = receipts[j + 1]
          BY <3>3
      <4>3. i + 1 = j + 1
          BY <2>a, <4>1, <4>2 DEF JobsAreDistinct
      <4> QED
          BY SMTT(30), <4>3, <3>2, <3>3
    <3> QED
        BY <1>2, <2>a, <3>1, <3>8, <3>9 DEF IInv
  <2>8. CASE Crash
    <3>1. receipts' = <<>> /\ UNCHANGED <<rows, unread, announced, shown>>
        BY <2>8 DEF Crash
    <3>2. Len(receipts') = 0
        BY <3>1
    <3>3. LandingLedger' /\ JobsAreDistinct'
        BY SMTT(30), <2>a, <3>1, <3>2 DEF LandingLedger, InQueue, JobsAreDistinct
    <3> QED
        BY <1>2, <2>a, <3>1, <3>3 DEF IInv
  <2>9. CASE UNCHANGED vars
      BY <2>1, <2>9 DEF vars
  <2> QED
      BY <1>2, <2>2, <2>3, <2>4, <2>5, <2>6, <2>7, <2>8, <2>9 DEF Next, Ingress, Ingest
<1>3. IInv => LandsOnce
  <2> SUFFICES ASSUME IInv PROVE LandsOnce
      OBVIOUS
  <2>1. \A m \in Messages : announced[m] \in Nat /\ shown[m] \in Nat
      BY DEF IInv, TypeOK
  <2> QED
      BY SMTT(30), <2>1 DEF IInv, LandingLedger, LandsOnce
<1>4. TypeOK /\ IsFiniteSet(rows) /\ unread = Cardinality(rows) /\ JobsAreDistinct /\ LandingLedger => IInv
    BY DEF IInv
<1> QED
    BY <1>1, <1>2, <1>3, <1>4, TypeCorrect, PTL DEF Spec

-----------------------------------------------------------------------------
(* The receive lane implements the mailbox.                                 *)

(* Every step of the lane is a step of the mailbox or none: admission is at *)
(* the end, storage and release at the head, a failing attempt stores its   *)
(* row or nothing, and only the end of the process empties the box.         *)
THEOREM ImplementsMailbox == Spec => MailboxSpec
<1> USE IntakeAssumption
<1>1. Init => Box!Init
  <2> SUFFICES ASSUME Init PROVE Box!Init
      OBVIOUS
  <2>1. Unsettled = <<>>
      BY SMTT(30), ConcatEmptySeq DEF Init, Unsettled
  <2> QED
      BY <2>1 DEF Init, Box!Init
<1>2. ASSUME TypeOK, [Next]_vars PROVE [Box!Next]_(Box!vars)
  <2>0. queue \in Seq(Envelope) /\ current \in Envelope \cup {None}
      BY <1>2 DEF TypeOK
  <2>1. ASSUME UNCHANGED <<queue, current, rows, life>> PROVE UNCHANGED Box!vars
      BY <2>1 DEF Box!vars, Unsettled
  <2>2. ASSUME NEW e \in Envelope, Oversized(e) \/ DropOverflow(e) \/ TakeShare(e)
        PROVE  UNCHANGED Box!vars
      BY <2>1, <2>2 DEF Oversized, DropOverflow, TakeShare, storeVars
  <2>3. ASSUME TakeBytes \/ EnqueueTimeout \/ EngineRestart \/ SendReceipt PROVE UNCHANGED Box!vars
      BY <2>1, <2>3 DEF TakeBytes, EnqueueTimeout, EngineRestart, SendReceipt, storeVars
  <2>4. ASSUME current # None
        PROVE  Unsettled # <<>> /\ Head(Unsettled) = current /\ Tail(Unsettled) = queue
      BY SMTT(30), <2>0, <2>4, InHand DEF Unsettled
  <2>5. CASE Enqueue
    <3>1. actor \in Envelope /\ queue' = Append(queue, actor) /\ UNCHANGED <<current, rows, life>>
        BY <1>2, <2>5 DEF Enqueue, storeVars, TypeOK
    <3>2. Unsettled' = Append(Unsettled, actor)
      <4>1. CASE current = None
        <5>1. Append(queue, actor) \in Seq(Envelope)
            BY <2>0, <3>1, AppendProperties
        <5>2. Unsettled = queue /\ Unsettled' = queue'
            BY <2>0, <3>1, <4>1, <5>1, ConcatEmptySeq DEF Unsettled
        <5> QED
            BY <3>1, <5>2
      <4>2. CASE current # None
          BY SMTT(30), <2>0, <3>1, <4>2, InHand DEF Unsettled
      <4> QED
          BY <4>1, <4>2
    <3> QED
        BY <3>1, <3>2 DEF Box!Next, Box!Admit
  <2>6. CASE Receive
    <3>1. /\ current = None /\ queue # <<>> /\ current' = Head(queue)
          /\ queue' = Tail(queue) /\ UNCHANGED <<rows, life>>
        BY <2>6 DEF Receive, storeVars
    <3>2. current' # None
        BY <2>0, <3>1, HeadTailProperties
    <3>3. Unsettled' = queue
        BY <2>0, <3>1, <3>2, TakeInHand DEF Unsettled
    <3>4. Unsettled = queue
        BY <2>0, <3>1, ConcatEmptySeq DEF Unsettled
    <3> QED
        BY <3>1, <3>3, <3>4 DEF Box!vars
  <2>7. ASSUME IngestNew \/ IngestReplay \/ IngestNothing PROVE Box!Settle
    <3>1. current # None /\ current' = None /\ queue' = queue /\ life' = life
        BY <2>7 DEF IngestNew, IngestReplay, IngestNothing, Persisted
    <3>2. rows' = rows \cup RowsOf(current)
        BY <2>7 DEF IngestNew, IngestReplay, IngestNothing, RowsOf
    <3>3. Unsettled' = queue
        BY <2>0, <3>1, ConcatEmptySeq DEF Unsettled
    <3> QED
        BY <2>4, <3>1, <3>2, <3>3 DEF Box!Settle
  <2>8. ASSUME NEW landed \in BOOLEAN, IngestFails(landed) PROVE Box!Store \/ UNCHANGED Box!vars
    <3>1. current # None /\ UNCHANGED <<queue, current, life>>
        BY <2>8 DEF IngestFails, StoreError
    <3>2. Unsettled' = Unsettled
        BY <3>1 DEF Unsettled
    <3>3. CASE landed
      <4>1. rows' = rows \cup RowsOf(current)
          BY <2>8, <3>3 DEF IngestFails, StoreError, RowsOf
      <4> QED
          BY <2>4, <3>1, <3>2, <4>1 DEF Box!Store
    <3>4. CASE ~landed
        BY <2>1, <2>8, <3>1, <3>4 DEF IngestFails, StoreError
    <3> QED
        BY <3>3, <3>4
  <2>9. CASE Crash
    <3>1. queue' = <<>> /\ current' = None /\ life' = life + 1 /\ rows' = rows
        BY <2>9 DEF Crash
    <3>2. Unsettled' = <<>>
        BY SMTT(30), <3>1, ConcatEmptySeq DEF Unsettled
    <3> QED
        BY <3>1, <3>2 DEF Box!Next, Box!Crash
  <2>10. CASE UNCHANGED vars
      BY <2>1, <2>10 DEF vars
  <2> QED
      BY <1>2, <2>2, <2>3, <2>5, <2>6, <2>7, <2>8, <2>9, <2>10
      DEF Next, Ingress, Ingest, Box!Next
<1> QED
    BY <1>1, <1>2, TypeCorrect, PTL DEF Spec, Box!Spec, MailboxSpec
=============================================================================
