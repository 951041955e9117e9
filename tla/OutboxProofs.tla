---------------------------- MODULE OutboxProofs ----------------------------
(***************************************************************************)
(* Machine-checked proofs about Outbox: the type invariant, the single      *)
(* dispatcher per message, and the send discipline (at most one acceptance  *)
(* per message and per unanswered reopening), for every set of messages,    *)
(* accounts, slots and host tasks and every bound.                          *)
(***************************************************************************)
EXTENDS Outbox, TLAPS

(* Zenon proves the leaves that do not name another prover.                *)
USE ZenonT(30)

(* A dispatcher that can still turn its message into an acceptance or into  *)
(* a 'failed' row: a claim, a call not yet made, awaited, or refused.       *)
Loaded(w) == wk[w].pc = "dispatch" \/ (wk[w].pc = "calling" /\ wk[w].res \notin {"ok", "unknown"})

Charged(m) ==
    \/ \E w \in Worker : Loaded(w) /\ wk[w].msg = m
    \/ \E s \in Slot : m \in batch[s]

(* A held row is still the dispatcher's: nobody else moved it to a state    *)
(* from which it can be dispatched again.                                   *)
HeldIsOwned ==
    \A w \in Worker, m \in Msg : Holds(w, m) =>
        /\ up
        /\ m \in minted
        /\ row[m].st \in {"pending", "none", "delivered", "read"}

(* An outbox worker executes a claim only after taking it off its batch.    *)
ClaimTaken == \A s \in Slot : Busy(s) => wk[s].msg \notin batch[s]

(* A client request id the host has not used has left no trace.             *)
Untouched ==
    \A m \in Msg : m \notin minted =>
        row[m].st = "none" /\ wire[m].n = 0 /\ late[m] = 0 /\ orphan[m] = 0

(* Deliveries made, and deliveries still possible without a caller.         *)
Spent(m) == wire[m].n + late[m] + orphan[m]

(* The message can still be dispatched, or its dispatch can still succeed.  *)
Open(m) == row[m].st = "failed" \/ Charged(m)

(* Every delivery, made or possible, is paid for by the original send or by *)
(* an unanswered reopening; an open message has one payment to spare.       *)
Budget(m) ==
    /\ Spent(m) <= 1 + reopened[m]
    /\ Open(m) => Spent(m) <= reopened[m]

IInv ==
    /\ TypeOK
    /\ OneDispatcher
    /\ HeldIsOwned
    /\ ClaimTaken
    /\ Untouched
    /\ \A m \in Msg : Budget(m)
    /\ UnknownNeverQueued

-----------------------------------------------------------------------------
(* Row writes keep the row's type and move its status only as stated.       *)

(* The queue face is retired without touching status or stamp.              *)
LEMMA RetireRow ==
    ASSUME NEW r \in RowType
    PROVE  /\ RetireSchedule(r) \in RowType
           /\ RetireSchedule(r).st = r.st /\ RetireSchedule(r).sent = r.sent
           /\ RetireSchedule(r).next = NULL
<1>1. 0 \in 0..MaxAttempts
  BY SMTT(30), BoundAssumption
<1> QED BY <1>1 DEF RetireSchedule, RowType

(* A failure settlement leaves a row that is not pending alone and takes a  *)
(* pending row to 'failed'.                                                 *)
LEMMA FailedRow ==
    ASSUME TypeOK, NEW m \in Msg, NEW arm
    PROVE  /\ SettleSendFailed(m, arm) \in RowType
           /\ IF row[m].st = "pending" THEN SettleSendFailed(m, arm).st = "failed"
              ELSE SettleSendFailed(m, arm) = row[m]
<1> DEFINE r == row[m]
<1>1. r \in RowType /\ now \in Nat
  BY DEF TypeOK, RowTypes
<1>2. RetryEligible(m) => RetryDelay(m, arm) \in Nat /\ r.count + 1 \in 0..MaxAttempts
  BY SMTT(30), <1>1, BoundAssumption DEF RetryEligible, RetryDelay, RowType
<1>3. ScheduleFailed(m, arm) \in RowType /\ ScheduleFailed(m, arm).st = "failed"
  <2>1. CASE RetryEligible(m) /\ Cardinality(QueuedOf(AccountOf[m]) \ {m}) < MaxQueued
    <3>1. now + RetryDelay(m, arm) \in Nat
      BY SMTT(30), <1>1, <1>2, <2>1
    <3>2. ScheduleFailed(m, arm) =
            [r EXCEPT !.st = "failed", !.next = now + RetryDelay(m, arm),
                      !.count = r.count + 1, !.first = IF r.first = NULL THEN now ELSE r.first]
      BY <2>1, <1>1 DEF ScheduleFailed, RowType
    <3> QED BY <1>1, <1>2, <2>1, <3>1, <3>2 DEF RowType, Statuses
  <2>2. CASE ~(RetryEligible(m) /\ Cardinality(QueuedOf(AccountOf[m]) \ {m}) < MaxQueued)
    <3>1. ScheduleFailed(m, arm) = [r EXCEPT !.st = "failed", !.next = NULL]
      BY <2>2 DEF ScheduleFailed
    <3> QED BY <1>1, <3>1 DEF RowType, Statuses
  <2> QED BY <2>1, <2>2
<1>4. [RetireSchedule(r) EXCEPT !.st = "failed"] \in RowType
  BY <1>1, RetireRow DEF RowType, Statuses
<1>5. [RetireSchedule(r) EXCEPT !.st = "failed"].st = "failed"
  BY <1>1, RetireRow DEF RowType
<1> QED BY <1>1, <1>3, <1>4, <1>5 DEF SettleSendFailed

(* What the settlement of an engine answer does to the row's status.        *)
LEMMA SettledRow ==
    ASSUME TypeOK, NEW m \in Msg, NEW res, NEW at \in Nat
    PROVE  /\ Settled(m, res, at) \in RowType
           /\ res = "ok" => Settled(m, res, at).st \in {"none", "sent"}
           /\ res = "unknown" => Settled(m, res, at).st \in {"none", "unknown"}
           /\ res = "unknown" => Settled(m, res, at).next = NULL
           /\ res \notin {"ok", "unknown"} =>
                IF row[m].st = "pending" THEN Settled(m, res, at).st = "failed"
                ELSE Settled(m, res, at) = row[m]
<1> DEFINE r == row[m]
<1>1. r \in RowType
  BY DEF TypeOK, RowTypes
<1>2. CompleteOutgoingSend(r, at) \in RowType /\ CompleteOutgoingSend(r, at).st \in {"none", "sent"}
  BY <1>1, RetireRow DEF CompleteOutgoingSend, RowType, Statuses
<1>3. /\ CompleteSendUnknown(r) \in RowType
      /\ CompleteSendUnknown(r).st \in {"none", "unknown"}
      /\ CompleteSendUnknown(r).next = NULL
  BY <1>1, RetireRow DEF CompleteSendUnknown, UpdateStatus, RowType, Statuses
<1>4. CASE res = "ok"
  BY <1>2, <1>4 DEF Settled
<1>5. CASE res = "unknown"
  BY <1>3, <1>5 DEF Settled
<1>6. CASE res \notin {"ok", "unknown"}
  <2>1. Settled(m, res, at) = SettleSendFailed(m, AutoRetrySchedule(res))
    BY <1>6 DEF Settled
  <2> QED BY <2>1, <1>6, FailedRow
<1> QED BY <1>4, <1>5, <1>6

-----------------------------------------------------------------------------
(* Type correctness.                                                        *)

(* The constants, in the form the leaves use.                               *)
LEMMA Constants ==
    /\ NoRow \in RowType /\ StandingRow \in RowType
    /\ Idle \in WorkType /\ RecOff \in RecType
    /\ \A b \in BOOLEAN : [Idle EXCEPT !.live = b] \in WorkType
    /\ \A m \in Msg, b \in BOOLEAN : Begin(m, b) \in WorkType
<1>1. 0 \in 0..MaxAttempts /\ 1 \in 0..MaxAttempts
  BY SMTT(30), BoundAssumption
<1> QED BY <1>1 DEF NoRow, StandingRow, RowType, Statuses, Idle, WorkType, RecOff, RecType,
                    Results, Begin

(* Writing one worker's slot, or one pass's, keeps the type of the whole.   *)
LEMMA WorkUpdate ==
    ASSUME WorkTypes, NEW w \in Worker, NEW x \in WorkType, wk' = [wk EXCEPT ![w] = x],
           batch' \in [Slot -> SUBSET Msg], drain' \subseteq Slot
    PROVE  WorkTypes'
BY DEF WorkTypes

(* Replacing one row by a typed row keeps the table typed.                  *)
LEMMA RowUpdate ==
    ASSUME RowTypes, NEW m \in Msg, NEW r \in RowType, row' = [row EXCEPT ![m] = r],
           minted' \subseteq Msg, reopened' \in [Msg -> Nat]
    PROVE  RowTypes'
BY DEF RowTypes

(* The initial state is well typed.                                         *)
LEMMA InitType == Init => TypeOK
<1> SUFFICES ASSUME Init PROVE TypeOK
  OBVIOUS
<1>1. RowTypes
  BY Constants, ShapeAssumption DEF Init, RowTypes
<1>2. WorkTypes
  BY Constants DEF Init, WorkTypes
<1>3. EngineTypes
  BY DEF Init, EngineTypes
<1>4. RecTypes
  BY Constants DEF Init, RecTypes
<1> QED BY <1>1, <1>2, <1>3, <1>4 DEF Init, TypeOK

(* Every action keeps the types.  The next-state relation is split into its *)
(* actions, and an action into the groups of variables it writes.           *)
LEMMA TypeStep == TypeOK /\ [Next]_vars => TypeOK'
<1> SUFFICES ASSUME TypeOK, [Next]_vars PROVE TypeOK'
  OBVIOUS
<1>0. RowTypes /\ WorkTypes /\ EngineTypes /\ RecTypes /\ now \in Nat /\ up \in BOOLEAN
      /\ used \in [landings : Nat, crashes : Nat, deletes : Nat]
  BY DEF TypeOK
<1> USE <1>0
<1>1. ASSUME NEW h \in HostTask, NEW m \in Msg, SendText(h, m) PROVE TypeOK'
  <2>1. RowTypes'
    <3>1. InsertPending \in RowType
      BY Constants DEF InsertPending, NoRow, RowType, Statuses
    <3> QED BY <3>1, <1>1, RowUpdate DEF SendText, RowTypes
  <2>2. WorkTypes'
    BY <1>1, Constants, WorkUpdate DEF SendText, Worker, WorkTypes
  <2> QED BY <2>1, <2>2, <1>1 DEF SendText, TypeOK, EngineTypes, RecTypes, engineVars, recVars
<1>2. ASSUME NEW h \in HostTask, NEW m \in Msg, RetryText(h, m) PROVE TypeOK'
  <2>1. RowTypes'
    <3>1. RearmFailed(row[m]) \in RowType
      BY SMTT(30), RetireRow DEF RearmFailed, RowType, Statuses, RowTypes
    <3> QED BY <3>1, <1>2, RowUpdate DEF RetryText, RowTypes
  <2>2. WorkTypes'
    BY <1>2, Constants, WorkUpdate DEF RetryText, Worker, WorkTypes
  <2> QED BY <2>1, <2>2, <1>2 DEF RetryText, TypeOK, EngineTypes, RecTypes, engineVars, recVars
<1>3. ASSUME NEW h \in HostTask, Abandon(h) PROVE TypeOK'
  <2>1. WorkTypes'
    BY <1>3, Constants, WorkUpdate DEF Abandon, Worker, WorkTypes
  <2> QED BY <2>1, <1>3 DEF Abandon, TypeOK, RowTypes, EngineTypes, RecTypes, rowVars, engineVars, recVars
<1>4. ASSUME NEW s \in Slot, OutboxClaim(s) PROVE TypeOK'
  <2>1. RowTypes'
    <3>1. \A m \in Msg : ClaimRow(m) \in RowType
      BY DEF ClaimRow, RowType, Statuses, RowTypes
    <3> QED BY SMTT(30), <3>1, <1>4 DEF OutboxClaim, RowTypes
  <2>2. WorkTypes'
    <3>1. s \in Worker /\ wk[s] \in WorkType
      BY DEF Worker, WorkTypes
    <3>2. \A b \in BOOLEAN : [wk[s] EXCEPT !.live = b] \in WorkType
      BY <3>1 DEF WorkType
    <3>3. batch' \in [Slot -> SUBSET Msg]
      BY <1>4 DEF OutboxClaim, Due, WorkTypes
    <3>4. PICK b \in BOOLEAN : wk' = [wk EXCEPT ![s] = [wk[s] EXCEPT !.live = b]]
      BY <1>4 DEF OutboxClaim
    <3> QED BY <3>1, <3>2, <3>3, <3>4, <1>4, WorkUpdate DEF OutboxClaim, WorkTypes
  <2> QED BY <2>1, <2>2, <1>4 DEF OutboxClaim, TypeOK, EngineTypes, RecTypes, engineVars, recVars
<1>5. ASSUME NEW s \in Slot, AbortWorker(s) PROVE TypeOK'
  <2>1. WorkTypes'
    BY <1>5, Constants, WorkUpdate DEF AbortWorker, Worker, WorkTypes
  <2>2. EngineTypes'
    BY SMTT(30), <1>5 DEF AbortWorker, EngineTypes
  <2> QED BY <2>1, <2>2, <1>5 DEF AbortWorker, TypeOK, RowTypes, RecTypes, rowVars, recVars
<1>6. ASSUME NEW s \in Slot, NEW m \in Msg, OutboxPrepare(s, m) PROVE TypeOK'
  <2>1. WorkTypes'
    <3>1. s \in Worker /\ wk[s] \in WorkType /\ wk[s].live \in BOOLEAN
      BY DEF Worker, WorkTypes, WorkType
    <3>2. \A b \in BOOLEAN : [wk[s] EXCEPT !.live = b] \in WorkType
      BY <3>1 DEF WorkType
    <3>3. PICK x \in WorkType : wk' = [wk EXCEPT ![s] = x]
      <4>1. CASE row[m].st = "pending" /\ QuoteResolves(m)
        BY <3>1, <4>1, <1>6, Constants DEF OutboxPrepare
      <4>2. CASE ~(row[m].st = "pending" /\ QuoteResolves(m))
        <5>1. (wk[s].live /\ batch[s] # {m}) \in BOOLEAN
          OBVIOUS
        <5> QED BY <3>2, <4>2, <5>1, <1>6 DEF OutboxPrepare
      <4> QED BY <4>1, <4>2
    <3>4. batch' \in [Slot -> SUBSET Msg]
      BY <1>6 DEF OutboxPrepare, WorkTypes
    <3> QED BY <3>1, <3>3, <3>4, <1>6, WorkUpdate DEF OutboxPrepare, WorkTypes
  <2> QED BY <2>1, <1>6 DEF OutboxPrepare, TypeOK, RowTypes, EngineTypes, RecTypes, rowVars, engineVars, recVars
<1>7. ASSUME NEW w \in Worker, CallEngine(w) PROVE TypeOK'
  <2>1. WorkTypes'
    <3>1. [wk[w] EXCEPT !.pc = "calling"] \in WorkType
      BY SMTT(30), <1>7 DEF CallEngine, WorkTypes, WorkType
    <3>2. wk' = [wk EXCEPT ![w] = [wk[w] EXCEPT !.pc = "calling"]]
      BY <1>7 DEF CallEngine
    <3> QED BY <3>1, <3>2, <1>7, WorkUpdate DEF CallEngine, WorkTypes
  <2> QED BY <2>1, <1>7 DEF CallEngine, TypeOK, RowTypes, EngineTypes, RecTypes, rowVars, engineVars, recVars
<1>8. ASSUME NEW w \in Worker, CallRefused(w) PROVE TypeOK'
  <2>1. RowTypes'
    <3>1. wk[w].msg \in Msg
      BY <1>8 DEF CallRefused, WorkTypes, WorkType
    <3>2. Settled(wk[w].msg, "refused", 0) \in RowType
      BY <3>1, SettledRow
    <3> QED BY <3>1, <3>2, <1>8, RowUpdate DEF CallRefused, RowTypes
  <2>2. WorkTypes'
    <3>1. wk[w].live \in BOOLEAN
      BY DEF WorkTypes, WorkType
    <3>2. (w \in Slot /\ batch[w] # {} /\ wk[w].live) \in BOOLEAN
      OBVIOUS
    <3> QED BY <3>2, <1>8, Constants, WorkUpdate DEF CallRefused, Finished, WorkTypes
  <2> QED BY <2>1, <2>2, <1>8 DEF CallRefused, TypeOK, EngineTypes, RecTypes, engineVars, recVars
<1>9. ASSUME NEW w \in Worker, CallTimeout(w) PROVE TypeOK'
  <2>1. WorkTypes'
    <3>1. [wk[w] EXCEPT !.res = "unknown"] \in WorkType
      BY DEF WorkTypes, WorkType
    <3>2. wk' = [wk EXCEPT ![w] = [wk[w] EXCEPT !.res = "unknown"]]
      BY <1>9 DEF CallTimeout
    <3> QED BY <3>1, <3>2, <1>9, WorkUpdate DEF CallTimeout, WorkTypes
  <2>2. EngineTypes'
    BY SMTT(30), <1>9 DEF CallTimeout, EngineTypes
  <2> QED BY <2>1, <2>2, <1>9 DEF CallTimeout, TypeOK, RowTypes, RecTypes, rowVars, recVars
<1>10. ASSUME NEW w \in Worker, Settle(w) PROVE TypeOK'
  <2>1. RowTypes'
    <3>1. wk[w].msg \in Msg /\ wk[w].at \in Nat
      BY <1>10 DEF Settle, WorkTypes, WorkType
    <3>2. Settled(wk[w].msg, wk[w].res, wk[w].at) \in RowType
      BY <3>1, SettledRow
    <3> QED BY <3>1, <3>2, <1>10, RowUpdate DEF Settle, RowTypes
  <2>2. WorkTypes'
    <3>1. wk[w].live \in BOOLEAN
      BY DEF WorkTypes, WorkType
    <3>2. (w \in Slot /\ batch[w] # {} /\ wk[w].live) \in BOOLEAN
      OBVIOUS
    <3> QED BY <3>2, <1>10, Constants, WorkUpdate DEF Settle, Finished, WorkTypes
  <2> QED BY <2>1, <2>2, <1>10 DEF Settle, TypeOK, EngineTypes, RecTypes, engineVars, recVars
<1>11. ASSUME NEW w \in Worker, NEW res \in Results, EngineAnswer(w, res) PROVE TypeOK'
  <2>1. WorkTypes'
    <3>1. PICK t \in Nat : wk' = [wk EXCEPT ![w] = [wk[w] EXCEPT !.res = res, !.at = t]]
      <4>1. wk[w] \in [pc : {"idle", "dispatch", "calling"}, msg : Msg \cup {NULL},
                       live : BOOLEAN, res : Results \cup {"none", "unknown"}, at : Nat]
        BY DEF WorkTypes, WorkType
      <4>2. (IF res = "ok" THEN now ELSE 0) \in Nat
        OBVIOUS
      <4> QED BY <1>11, <4>1, <4>2 DEF EngineAnswer, WorkTypes
    <3>2. [wk[w] EXCEPT !.res = res, !.at = t] \in WorkType
      BY DEF WorkTypes, WorkType
    <3> QED BY <3>1, <3>2, <1>11, WorkUpdate DEF EngineAnswer, WorkTypes
  <2>2. EngineTypes'
    <3>1. wk[w].msg \in Msg
      BY <1>11 DEF EngineAnswer, Waiting, WorkTypes, WorkType
    <3>2. Accept(wk[w].msg) \in [Msg -> [n : Nat, at : SUBSET Nat]]
      BY SMTT(30), <3>1 DEF Accept, EngineTypes
    <3> QED BY <3>2, <1>11 DEF EngineAnswer, EngineTypes
  <2> QED BY <2>1, <2>2, <1>11 DEF EngineAnswer, TypeOK, RowTypes, RecTypes, rowVars, recVars
<1>12. ASSUME NEW m \in Msg, NEW ok \in BOOLEAN, LateFinish(m, ok) PROVE TypeOK'
  <2>1. EngineTypes'
    <3>1. \A k \in Msg : Accept(k) \in [Msg -> [n : Nat, at : SUBSET Nat]]
      BY SMTT(30) DEF Accept, EngineTypes
    <3> QED BY SMTT(30), <3>1, <1>12 DEF LateFinish, EngineTypes
  <2> QED BY <2>1, <1>12 DEF LateFinish, TypeOK, RowTypes, WorkTypes, RecTypes, rowVars, workVars, recVars
<1>13. ASSUME NEW m \in Msg, NEW ok \in BOOLEAN, OrphanFinish(m, ok) PROVE TypeOK'
  <2>1. EngineTypes'
    <3>1. \A k \in Msg : Accept(k) \in [Msg -> [n : Nat, at : SUBSET Nat]]
      BY SMTT(30) DEF Accept, EngineTypes
    <3> QED BY SMTT(30), <3>1, <1>13 DEF OrphanFinish, EngineTypes
  <2> QED BY <2>1, <1>13 DEF OrphanFinish, TypeOK, RowTypes, WorkTypes, RecTypes, rowVars, workVars, recVars
<1>14. ASSUME NEW s \in Slot, EngineExit(s) PROVE TypeOK'
  <2>1. WorkTypes'
    <3>1. \A w \in Worker : [wk[w] EXCEPT !.live = FALSE,
                 !.res = IF Waiting(w) THEN "unknown" ELSE @] \in WorkType
      <4> SUFFICES ASSUME NEW w \in Worker
                   PROVE  [wk[w] EXCEPT !.live = FALSE,
                             !.res = IF Waiting(w) THEN "unknown" ELSE @] \in WorkType
        OBVIOUS
      <4>1. wk[w] \in WorkType
        BY DEF WorkTypes
      <4>2. CASE Waiting(w)
        <5>1. [wk[w] EXCEPT !.live = FALSE, !.res = "unknown"] \in WorkType
          BY <4>1 DEF WorkType
        <5> QED BY <5>1, <4>2, Zenon
      <4>3. CASE ~Waiting(w)
        <5>1. [wk[w] EXCEPT !.live = FALSE, !.res = @] \in WorkType
          BY <4>1 DEF WorkType
        <5> QED BY <5>1, <4>3, Zenon
      <4> QED BY <4>2, <4>3
    <3> QED BY <3>1, <1>14 DEF EngineExit, WorkTypes
  <2>2. EngineTypes'
    BY <1>14 DEF EngineExit, EngineTypes
  <2>3. RecTypes'
    BY <1>14, Constants DEF EngineExit, RecTypes
  <2> QED BY <2>1, <2>2, <2>3, <1>14 DEF EngineExit, TypeOK, RowTypes, rowVars
<1>15. ASSUME NEW s \in Slot, EngineStart(s) PROVE TypeOK'
  <2>1. EngineTypes'
    BY <1>15 DEF EngineStart, EngineTypes
  <2>2. RecTypes'
    BY <1>15, BoundAssumption DEF EngineStart, RecTypes, RecType
  <2>3. used' \in [landings : Nat, crashes : Nat, deletes : Nat]
    BY SMTT(30), <1>15 DEF EngineStart
  <2> QED BY <2>1, <2>2, <2>3, <1>15 DEF EngineStart, TypeOK, RowTypes, WorkTypes, rowVars, workVars
<1>16. ASSUME NEW s \in Slot, ReconcileQuery(s) PROVE TypeOK'
  <2>1. RecTypes'
    <3>1. PICK x \in SUBSET Unsettled(s) : rec' = [rec EXCEPT ![s] =
                IF x = {} \/ rec[s].rounds = 0 THEN RecOff
                ELSE [pc |-> "probe", todo |-> x, rounds |-> rec[s].rounds - 1,
                      short |-> Cardinality(x) < ProbeBatch]]
      BY <1>16 DEF ReconcileQuery
    <3>2. x \in SUBSET Msg /\ rec[s].rounds \in Nat
      BY DEF Unsettled, RecTypes, RecType
    <3>3. rec[s].rounds # 0 => [pc |-> "probe", todo |-> x, rounds |-> rec[s].rounds - 1,
                      short |-> Cardinality(x) < ProbeBatch] \in RecType
      BY SMTT(30), <3>2 DEF RecType
    <3> QED BY <3>1, <3>3, <1>16, Constants DEF ReconcileQuery, RecTypes
  <2> QED BY <2>1, <1>16 DEF ReconcileQuery, TypeOK, RowTypes, WorkTypes, EngineTypes, rowVars, workVars, engineVars
<1>17. ASSUME NEW s \in Slot, NEW m \in Msg, ReconcileProbe(s, m) PROVE TypeOK'
  <2>1. RecTypes'
    <3>1. LookupDispatch(m) \in BOOLEAN
      BY DEF LookupDispatch
    <3>2. [rec[s] EXCEPT !.pc = "answered"] \in RecType
      BY DEF RecTypes, RecType
    <3> QED BY SMTT(30), <1>17, <3>1, <3>2 DEF ReconcileProbe, RecTypes
  <2> QED BY <2>1, <1>17 DEF ReconcileProbe, TypeOK, RowTypes, WorkTypes, EngineTypes, rowVars, workVars, engineVars
<1>18. ASSUME NEW s \in Slot, NEW m \in Msg, ReconcileSkip(s, m) PROVE TypeOK'
  <2>1. RecTypes'
    <3>1. AfterProbe(s, m) \in RecType
      BY Constants DEF AfterProbe, RecTypes, RecType
    <3> QED BY <1>18, <3>1 DEF ReconcileSkip, RecTypes
  <2> QED BY <2>1, <1>18 DEF ReconcileSkip, TypeOK, RowTypes, WorkTypes, EngineTypes, rowVars, workVars, engineVars
<1>19. ASSUME NEW v \in verdict, ReconcileSettle(v) PROVE TypeOK'
  <2>1. RowTypes'
    <3>1. v.slot \in Slot /\ v.msg \in Msg
      BY DEF RecTypes
    <3>2. SettleUnknownSend(row[v.msg], v.dispatched) \in RowType
      BY SMTT(30), <3>1, RetireRow DEF SettleUnknownSend, RowType, Statuses, RowTypes
    <3>3. reopened' \in [Msg -> Nat]
      BY SMTT(30), <3>1, <1>19 DEF ReconcileSettle, RowTypes
    <3> QED BY <3>1, <3>2, <3>3, <1>19, RowUpdate DEF ReconcileSettle, RowTypes
  <2>2. RecTypes'
    <3>1. v.slot \in Slot /\ v.msg \in Msg
      BY DEF RecTypes
    <3>2. AfterProbe(v.slot, v.msg) \in RecType
      BY Constants, <3>1 DEF AfterProbe, RecTypes, RecType
    <3> QED BY <1>19, <3>1, <3>2 DEF ReconcileSettle, RecTypes
  <2> QED BY <2>1, <2>2, <1>19 DEF ReconcileSettle, TypeOK, WorkTypes, EngineTypes, workVars, engineVars
<1>20. ASSUME NEW m \in Msg, NEW to \in {"delivered", "read"}, PeerReceipt(m, to) PROVE TypeOK'
  <2>1. RowTypes'
    <3>1. ApplyReceipt(row[m], to) \in RowType
      BY DEF ApplyReceipt, RowType, Statuses, RowTypes
    <3> QED BY <3>1, <1>20, RowUpdate DEF PeerReceipt, RowTypes
  <2> QED BY <2>1, <1>20 DEF PeerReceipt, TypeOK, WorkTypes, EngineTypes, RecTypes, workVars, engineVars, recVars
<1>21. ASSUME NEW m \in Msg, DeleteRow(m) PROVE TypeOK'
  <2>1. RowTypes'
    BY <1>21, Constants, RowUpdate DEF DeleteRow, RowTypes
  <2>2. used' \in [landings : Nat, crashes : Nat, deletes : Nat]
    BY SMTT(30), <1>21 DEF DeleteRow
  <2> QED BY <2>1, <2>2, <1>21 DEF DeleteRow, TypeOK, WorkTypes, EngineTypes, RecTypes, workVars, engineVars, recVars
<1>22. ASSUME Crash PROVE TypeOK'
  <2>1. WorkTypes'
    BY <1>22, Constants DEF Crash, WorkTypes
  <2>2. EngineTypes'
    BY SMTT(30), <1>22 DEF Crash, EngineTypes
  <2>3. RecTypes'
    BY <1>22, Constants DEF Crash, RecTypes
  <2>4. used' \in [landings : Nat, crashes : Nat, deletes : Nat]
    BY SMTT(30), <1>22 DEF Crash
  <2> QED BY <2>1, <2>2, <2>3, <2>4, <1>22 DEF Crash, TypeOK, RowTypes, rowVars
<1>23. ASSUME Boot PROVE TypeOK'
  <2>1. RowTypes'
    <3>1. \A m \in Msg : SweepPending(row[m]) \in RowType
      BY SMTT(30), RetireRow DEF SweepPending, RowType, Statuses, RowTypes
    <3> QED BY SMTT(30), <3>1, <1>23 DEF Boot, RowTypes
  <2>2. WorkTypes'
    BY <1>23 DEF Boot, WorkTypes
  <2> QED BY <2>1, <2>2, <1>23 DEF Boot, TypeOK, EngineTypes, RecTypes, engineVars, recVars
<1>24. ASSUME Tick PROVE TypeOK'
  <2> QED BY SMTT(30), <1>24 DEF Tick, TypeOK, RowTypes, WorkTypes, EngineTypes, RecTypes, rowVars, workVars, engineVars, recVars
<1>25. ASSUME UNCHANGED vars PROVE TypeOK'
  BY <1>25 DEF vars, TypeOK, RowTypes, WorkTypes, EngineTypes, RecTypes
<1> QED
  BY <1>1, <1>2, <1>3, <1>4, <1>5, <1>6, <1>7, <1>8, <1>9, <1>10, <1>11, <1>12, <1>13, <1>14, <1>15, <1>16, <1>17, <1>18, <1>19, <1>20, <1>21, <1>22, <1>23, <1>24, <1>25 DEF Next

(* Every reachable state is well typed, and no row is scheduled past its    *)
(* attempt budget (count \in 0..MaxAttempts), for every instance of Outbox. *)
THEOREM TypeCorrect == Spec => []TypeOK
BY InitType, TypeStep, PTL DEF Spec

-----------------------------------------------------------------------------
(* The rest of the invariant.                                               *)

Rest ==
    /\ OneDispatcher /\ HeldIsOwned /\ ClaimTaken /\ Untouched
    /\ \A m \in Msg : Budget(m)
    /\ UnknownNeverQueued

core == <<row, minted, up, wk, batch, late, orphan, wire, reopened>>

(* A step that leaves rows, dispatchers and deliveries alone keeps it.      *)
LEMMA Frame == Rest /\ UNCHANGED core => Rest'
BY SMTT(30) DEF Rest, core, OneDispatcher, HeldIsOwned, ClaimTaken, Untouched, Budget,
       UnknownNeverQueued, Holds, Busy, Charged, Loaded, Open, Spent

(* What the types say, in the form the steps below use.                     *)
LEMMA Facts ==
    ASSUME TypeOK
    PROVE  /\ Slot \subseteq Worker /\ HostTask \subseteq Worker
           /\ \A w \in Worker : Busy(w) => wk[w].msg \in Msg
           /\ \A m \in Msg : row[m] \in RowType
           /\ \A m \in Msg : /\ wire[m].n \in Nat /\ late[m] \in Nat /\ orphan[m] \in Nat
                             /\ reopened[m] \in Nat
           /\ DOMAIN wk = Worker /\ DOMAIN batch = Slot /\ DOMAIN row = Msg
BY DEF TypeOK, RowTypes, WorkTypes, WorkType, EngineTypes, Worker, Busy

(* The ledger is a number.                                                  *)
LEMMA LedgerType ==
    ASSUME TypeOK, NEW m \in Msg
    PROVE  Spent(m) \in Nat /\ reopened[m] \in Nat
BY SMTT(30) DEF TypeOK, EngineTypes, RowTypes, Spent

(* ... in the next state as well.                                           *)
LEMMA LedgerTypeNext ==
    ASSUME TypeOK', NEW m \in Msg
    PROVE  Spent(m)' \in Nat /\ reopened'[m] \in Nat
BY SMTT(30) DEF TypeOK, EngineTypes, RowTypes, Spent

(* A step that leaves the ledger alone.                                     *)
LEMMA LedgerKept ==
    ASSUME TypeOK, UNCHANGED <<wire, late, orphan, reopened>>, NEW m \in Msg
    PROVE  Spent(m)' <= Spent(m) /\ reopened'[m] = reopened[m]
<1>1. Spent(m)' = Spent(m) /\ reopened'[m] = reopened[m]
  BY DEF Spent
<1> QED BY SMTT(30), <1>1, LedgerType

(* The terms of the ledger, now and next.                                   *)
LEMMA LedgerTerms ==
    ASSUME TypeOK, TypeOK', NEW m \in Msg
    PROVE  /\ wire[m].n \in Nat /\ late[m] \in Nat /\ orphan[m] \in Nat
           /\ wire'[m].n \in Nat /\ late'[m] \in Nat /\ orphan'[m] \in Nat
BY DEF TypeOK, EngineTypes

(* No term of the ledger moves.                                             *)
LEMMA LedgerStill ==
    ASSUME TypeOK, TypeOK', NEW m \in Msg,
           wire'[m] = wire[m], late'[m] = late[m], orphan'[m] = orphan[m]
    PROVE  Spent(m)' <= Spent(m)
BY SMTT(30), LedgerTerms DEF Spent

(* A send nobody waits for ends, accepted or not.                           *)
LEMMA LedgerLate ==
    ASSUME TypeOK, TypeOK', NEW m \in Msg,
           wire'[m].n + late'[m] <= wire[m].n + late[m], orphan'[m] = orphan[m]
    PROVE  Spent(m)' <= Spent(m)
BY SMTT(30), LedgerTerms DEF Spent

(* A send of an orphaned engine ends, accepted or not.                      *)
LEMMA LedgerOrphan ==
    ASSUME TypeOK, TypeOK', NEW m \in Msg,
           wire'[m].n + orphan'[m] <= wire[m].n + orphan[m], late'[m] = late[m]
    PROVE  Spent(m)' <= Spent(m)
BY SMTT(30), LedgerTerms DEF Spent

(* The engine exits, and with it the sends nobody waits for.                *)
LEMMA LedgerDropped ==
    ASSUME TypeOK, TypeOK', NEW m \in Msg,
           wire'[m] = wire[m], late'[m] = 0 \/ late'[m] = late[m], orphan'[m] = orphan[m]
    PROVE  Spent(m)' <= Spent(m)
BY SMTT(30), LedgerTerms DEF Spent

(* A caller leaves its send to the engine.                                  *)
LEMMA LedgerLeft ==
    ASSUME TypeOK, TypeOK', NEW m \in Msg,
           wire'[m] = wire[m], late'[m] = late[m] \/ late'[m] = late[m] + 1, orphan'[m] = orphan[m]
    PROVE  Spent(m)' <= Spent(m) + 1
BY SMTT(30), LedgerTerms DEF Spent

(* The server accepts the awaited send.                                     *)
LEMMA LedgerAccepted ==
    ASSUME TypeOK, TypeOK', NEW m \in Msg,
           wire'[m].n = wire[m].n + 1, late'[m] = late[m], orphan'[m] = orphan[m]
    PROVE  Spent(m)' <= Spent(m) + 1
BY SMTT(30), LedgerTerms DEF Spent

(* An engine outlives the connector with the sends nobody waited for ...    *)
LEMMA LedgerOutlived ==
    ASSUME TypeOK, TypeOK', NEW m \in Msg,
           wire'[m] = wire[m], late'[m] = 0, orphan'[m] = orphan[m] + late[m]
    PROVE  Spent(m)' <= Spent(m)
BY SMTT(30), LedgerTerms DEF Spent

(* ... and with an awaited one.                                             *)
LEMMA LedgerOutlivedOne ==
    ASSUME TypeOK, TypeOK', NEW m \in Msg,
           wire'[m] = wire[m], late'[m] = 0, orphan'[m] = orphan[m] + late[m] + 1
    PROVE  Spent(m)' <= Spent(m) + 1
BY SMTT(30), LedgerTerms DEF Spent

(* A ledger without entries.                                                *)
LEMMA LedgerEmpty ==
    ASSUME NEW m \in Msg, wire'[m].n = 0, late'[m] = 0, orphan'[m] = 0
    PROVE  Spent(m)' = 0
BY SMTT(30) DEF Spent

(* What the budget says of a message.                                       *)
LEMMA BudgetBounds ==
    ASSUME TypeOK, NEW m \in Msg, Budget(m)
    PROVE  /\ wire[m].n <= 1 + reopened[m]
           /\ row[m].st = "failed" /\ reopened[m] = 0 =>
                wire[m].n = 0 /\ late[m] = 0 /\ orphan[m] = 0
<1>1. wire[m].n \in Nat /\ late[m] \in Nat /\ orphan[m] \in Nat /\ reopened[m] \in Nat
  BY DEF TypeOK, EngineTypes, RowTypes
<1>2. wire[m].n + late[m] + orphan[m] <= 1 + reopened[m]
  BY DEF Budget, Spent
<1>3. row[m].st = "failed" => wire[m].n + late[m] + orphan[m] <= reopened[m]
  BY DEF Budget, Spent, Open
<1>4. wire[m].n <= 1 + reopened[m]
  BY SMTT(30), <1>1, <1>2
<1>5. row[m].st = "failed" /\ reopened[m] = 0 => wire[m].n = 0 /\ late[m] = 0 /\ orphan[m] = 0
  BY SMTT(30), <1>1, <1>3
<1> QED BY <1>4, <1>5

(* A message without deliveries is within its budget.                       *)
LEMMA BudgetFresh ==
    ASSUME TypeOK', NEW m \in Msg, Spent(m)' = 0
    PROVE  Budget(m)'
BY SMTT(30), LedgerTypeNext DEF Budget

(* A step that delivers nothing and opens nothing keeps the budget.         *)
LEMMA BudgetKept ==
    ASSUME TypeOK, TypeOK', NEW m \in Msg, Budget(m), Spent(m)' <= Spent(m),
           reopened'[m] = reopened[m], Open(m)' => Open(m)
    PROVE  Budget(m)'
<1>1. Spent(m) \in Nat /\ reopened[m] \in Nat /\ Spent(m)' \in Nat
  BY LedgerType, LedgerTypeNext
<1> QED BY SMTT(30), <1>1 DEF Budget

(* A delivery closes the message it is paid from.                           *)
LEMMA BudgetPaid ==
    ASSUME TypeOK, TypeOK', NEW m \in Msg, Budget(m), Spent(m)' <= Spent(m) + 1,
           reopened'[m] = reopened[m], Open(m), ~Open(m)'
    PROVE  Budget(m)'
<1>1. Spent(m) \in Nat /\ reopened[m] \in Nat /\ Spent(m)' \in Nat
  BY LedgerType, LedgerTypeNext
<1> QED BY SMTT(30), <1>1 DEF Budget

(* An unanswered reopening pays for what it opens.                          *)
LEMMA BudgetRaised ==
    ASSUME TypeOK, TypeOK', NEW m \in Msg, Budget(m), Spent(m)' <= Spent(m),
           reopened'[m] = reopened[m] + 1
    PROVE  Budget(m)'
<1>1. Spent(m) \in Nat /\ reopened[m] \in Nat /\ Spent(m)' \in Nat
  BY LedgerType, LedgerTypeNext
<1> QED BY SMTT(30), <1>1 DEF Budget

(* A step in which nobody becomes a dispatcher keeps the single dispatcher. *)
LEMMA NoNewHolder ==
    ASSUME OneDispatcher, \A w \in Worker, m \in Msg : Holds(w, m)' => Holds(w, m)
    PROVE  OneDispatcher'
BY DEF OneDispatcher

(* The acceptance counter after Accept(m).                                  *)
LEMMA AcceptCount ==
    ASSUME TypeOK, NEW m \in Msg, NEW k \in Msg
    PROVE  Accept(m)[k].n = IF k = m THEN wire[k].n + 1 ELSE wire[k].n
BY DEF Accept, TypeOK, EngineTypes

(* A worker executing m is the only one, and m is in no batch.              *)
LEMMA SoleHolder ==
    ASSUME TypeOK, Rest, NEW w \in Worker, Busy(w)
    PROVE  /\ \A v \in Worker : Busy(v) /\ wk[v].msg = wk[w].msg => v = w
           /\ \A s \in Slot : wk[w].msg \notin batch[s]
           /\ up /\ wk[w].msg \in minted
           /\ row[wk[w].msg].st \in {"pending", "none", "delivered", "read"}
<1>1. wk[w].msg \in Msg /\ Slot \subseteq Worker
  BY Facts
<1>2. Holds(w, wk[w].msg)
  BY DEF Holds
<1>3. ASSUME NEW s \in Slot, wk[w].msg \in batch[s] PROVE FALSE
  <2>1. s = w
    BY <1>1, <1>2, <1>3 DEF Rest, OneDispatcher, Holds
  <2> QED BY <1>3, <2>1 DEF Rest, ClaimTaken
<1> QED BY <1>1, <1>2, <1>3 DEF Rest, OneDispatcher, HeldIsOwned, Holds

(* A claimed message is in no other batch and no worker executes it.        *)
LEMMA SoleClaim ==
    ASSUME TypeOK, Rest, NEW s \in Slot, NEW m \in batch[s]
    PROVE  /\ m \in Msg
           /\ \A v \in Worker : ~(Busy(v) /\ wk[v].msg = m)
           /\ \A z \in Slot : m \in batch[z] => z = s
           /\ up /\ m \in minted
           /\ row[m].st \in {"pending", "none", "delivered", "read"}
<1>1. m \in Msg /\ s \in Worker
  BY DEF TypeOK, WorkTypes, Worker
<1>2. Holds(s, m)
  BY DEF Holds
<1>3. ASSUME NEW v \in Worker, Busy(v), wk[v].msg = m PROVE FALSE
  BY <1>3, SoleHolder
<1> QED BY <1>1, <1>2, <1>3, Facts DEF Rest, OneDispatcher, HeldIsOwned, Holds

(* PeerReceipt keeps the rest of the invariant.                             *)
LEMMA RestPeerReceipt ==
    ASSUME TypeOK, TypeOK', Rest, NEW m \in Msg, NEW to \in {"delivered", "read"}, PeerReceipt(m, to)
    PROVE  Rest'
<1> USE Facts
<1>1. \A v \in Worker, k \in Msg : Holds(v, k)' => Holds(v, k)
  BY DEF PeerReceipt, Holds, Busy, rowVars, workVars, engineVars, recVars, ApplyReceipt, RowType
<1>2. OneDispatcher'
  BY <1>1, NoNewHolder DEF Rest
<1>3. HeldIsOwned'
  BY <1>1 DEF PeerReceipt, Rest, HeldIsOwned, rowVars, workVars, engineVars, recVars, ApplyReceipt, RowType
<1>4. ClaimTaken'
  BY DEF PeerReceipt, Rest, ClaimTaken, Busy, rowVars, workVars, engineVars, recVars, ApplyReceipt, RowType
<1>5. Untouched'
  BY DEF PeerReceipt, Rest, Untouched, rowVars, workVars, engineVars, recVars, ApplyReceipt, RowType
<1>6. \A k \in Msg : Budget(k)'
  <2> SUFFICES ASSUME NEW k \in Msg PROVE Budget(k)'
    OBVIOUS
  <2>0. Budget(k)
    BY DEF Rest
  <2>1. Open(k)' => Open(k)
    BY DEF PeerReceipt, Open, Charged, Loaded, ApplyReceipt, RowType, workVars
  <2>2. Spent(k)' <= Spent(k) /\ reopened'[k] = reopened[k]
    BY LedgerKept DEF PeerReceipt, engineVars
  <2> QED BY <2>0, <2>1, <2>2, BudgetKept
<1>7. UnknownNeverQueued'
  BY DEF PeerReceipt, Rest, UnknownNeverQueued, rowVars, workVars, engineVars, recVars, ApplyReceipt, RowType
<1> QED BY <1>2, <1>3, <1>4, <1>5, <1>6, <1>7 DEF Rest

(* DeleteRow keeps the rest of the invariant.                               *)
LEMMA RestDeleteRow ==
    ASSUME TypeOK, TypeOK', Rest, NEW m \in Msg, DeleteRow(m)
    PROVE  Rest'
<1> USE Facts
<1>1. \A v \in Worker, k \in Msg : Holds(v, k)' => Holds(v, k)
  BY DEF DeleteRow, Holds, Busy, rowVars, workVars, engineVars, recVars, NoRow
<1>2. OneDispatcher'
  BY <1>1, NoNewHolder DEF Rest
<1>3. HeldIsOwned'
  BY <1>1 DEF DeleteRow, Rest, HeldIsOwned, rowVars, workVars, engineVars, recVars, NoRow
<1>4. ClaimTaken'
  BY DEF DeleteRow, Rest, ClaimTaken, Busy, rowVars, workVars, engineVars, recVars, NoRow
<1>5. Untouched'
  BY DEF DeleteRow, Rest, Untouched, rowVars, workVars, engineVars, recVars, NoRow
<1>6. \A k \in Msg : Budget(k)'
  <2> SUFFICES ASSUME NEW k \in Msg PROVE Budget(k)'
    OBVIOUS
  <2>0. Budget(k)
    BY DEF Rest
  <2>1. Open(k)' => Open(k)
    BY DEF DeleteRow, Open, Charged, Loaded, NoRow, workVars
  <2>2. Spent(k)' <= Spent(k) /\ reopened'[k] = reopened[k]
    BY LedgerKept DEF DeleteRow, engineVars
  <2> QED BY <2>0, <2>1, <2>2, BudgetKept
<1>7. UnknownNeverQueued'
  BY DEF DeleteRow, Rest, UnknownNeverQueued, rowVars, workVars, engineVars, recVars, NoRow
<1> QED BY <1>2, <1>3, <1>4, <1>5, <1>6, <1>7 DEF Rest

(* CallEngine keeps the rest of the invariant.                              *)
LEMMA RestCallEngine ==
    ASSUME TypeOK, TypeOK', Rest, NEW w \in Worker, CallEngine(w)
    PROVE  Rest'
<1> USE Facts
<1>1. \A v \in Worker, k \in Msg : Holds(v, k)' => Holds(v, k)
  BY SMTT(30) DEF CallEngine, Holds, Busy, rowVars, workVars, engineVars, recVars
<1>2. OneDispatcher'
  BY <1>1, NoNewHolder DEF Rest
<1>3. HeldIsOwned'
  BY <1>1 DEF CallEngine, Rest, HeldIsOwned, rowVars, workVars, engineVars, recVars
<1>4. ClaimTaken'
  BY SMTT(30) DEF CallEngine, Rest, ClaimTaken, Busy, rowVars, workVars, engineVars, recVars
<1>5. Untouched'
  BY DEF CallEngine, Rest, Untouched, rowVars, workVars, engineVars, recVars
<1>6. \A k \in Msg : Budget(k)'
  <2> SUFFICES ASSUME NEW k \in Msg PROVE Budget(k)'
    OBVIOUS
  <2>0. Budget(k)
    BY DEF Rest
  <2>1. Open(k)' => Open(k)
    BY SMTT(30) DEF CallEngine, Open, Charged, Loaded, rowVars
  <2>2. Spent(k)' <= Spent(k) /\ reopened'[k] = reopened[k]
    BY LedgerKept DEF CallEngine, engineVars
  <2> QED BY <2>0, <2>1, <2>2, BudgetKept
<1>7. UnknownNeverQueued'
  BY DEF CallEngine, Rest, UnknownNeverQueued, rowVars, workVars, engineVars, recVars
<1> QED BY <1>2, <1>3, <1>4, <1>5, <1>6, <1>7 DEF Rest

(* Abandon keeps the rest of the invariant.                                 *)
LEMMA RestAbandon ==
    ASSUME TypeOK, TypeOK', Rest, NEW h \in HostTask, Abandon(h)
    PROVE  Rest'
<1> USE Facts
<1>1. \A v \in Worker, k \in Msg : Holds(v, k)' => Holds(v, k)
  BY DEF Abandon, Holds, Busy, rowVars, workVars, engineVars, recVars, Idle
<1>2. OneDispatcher'
  BY <1>1, NoNewHolder DEF Rest
<1>3. HeldIsOwned'
  BY <1>1 DEF Abandon, Rest, HeldIsOwned, rowVars, workVars, engineVars, recVars, Idle
<1>4. ClaimTaken'
  BY DEF Abandon, Rest, ClaimTaken, Busy, rowVars, workVars, engineVars, recVars, Idle
<1>5. Untouched'
  BY DEF Abandon, Rest, Untouched, rowVars, workVars, engineVars, recVars, Idle
<1>6. \A k \in Msg : Budget(k)'
  <2> SUFFICES ASSUME NEW k \in Msg PROVE Budget(k)'
    OBVIOUS
  <2>0. Budget(k)
    BY DEF Rest
  <2>1. Open(k)' => Open(k)
    BY DEF Abandon, Idle, Open, Charged, Loaded, rowVars
  <2>2. Spent(k)' <= Spent(k) /\ reopened'[k] = reopened[k]
    BY LedgerKept DEF Abandon, engineVars
  <2> QED BY <2>0, <2>1, <2>2, BudgetKept
<1>7. UnknownNeverQueued'
  BY DEF Abandon, Rest, UnknownNeverQueued, rowVars, workVars, engineVars, recVars, Idle
<1> QED BY <1>2, <1>3, <1>4, <1>5, <1>6, <1>7 DEF Rest

(* LateFinish keeps the rest of the invariant.                              *)
LEMMA RestLateFinish ==
    ASSUME TypeOK, TypeOK', Rest, NEW m \in Msg, NEW ok \in BOOLEAN, LateFinish(m, ok)
    PROVE  Rest'
<1> USE Facts
<1>1. \A v \in Worker, k \in Msg : Holds(v, k)' => Holds(v, k)
  BY DEF LateFinish, Holds, Busy, rowVars, workVars, engineVars, recVars, Accept
<1>2. OneDispatcher'
  BY <1>1, NoNewHolder DEF Rest
<1>3. HeldIsOwned'
  BY <1>1 DEF LateFinish, Rest, HeldIsOwned, rowVars, workVars, engineVars, recVars, Accept
<1>4. ClaimTaken'
  BY DEF LateFinish, Rest, ClaimTaken, Busy, rowVars, workVars, engineVars, recVars, Accept
<1>5. Untouched'
  BY SMTT(30) DEF LateFinish, Rest, Untouched, rowVars, workVars, engineVars, recVars, Accept
<1>6. \A k \in Msg : Budget(k)'
  <2> SUFFICES ASSUME NEW k \in Msg PROVE Budget(k)'
    OBVIOUS
  <2>0. Budget(k)
    BY DEF Rest
  <2>1. Open(k)' => Open(k)
    BY DEF LateFinish, Open, Charged, Loaded, rowVars, workVars
  <2>2. Spent(k)' <= Spent(k) /\ reopened'[k] = reopened[k]
    <3>1. wire'[k].n + late'[k] <= wire[k].n + late[k]
      BY SMTT(30), AcceptCount DEF LateFinish, TypeOK, EngineTypes
    <3>2. orphan'[k] = orphan[k] /\ reopened'[k] = reopened[k]
      BY DEF LateFinish
    <3> QED BY <3>1, <3>2, LedgerLate
  <2> QED BY <2>0, <2>1, <2>2, BudgetKept
<1>7. UnknownNeverQueued'
  BY DEF LateFinish, Rest, UnknownNeverQueued, rowVars, workVars, engineVars, recVars, Accept
<1> QED BY <1>2, <1>3, <1>4, <1>5, <1>6, <1>7 DEF Rest

(* OrphanFinish keeps the rest of the invariant.                            *)
LEMMA RestOrphanFinish ==
    ASSUME TypeOK, TypeOK', Rest, NEW m \in Msg, NEW ok \in BOOLEAN, OrphanFinish(m, ok)
    PROVE  Rest'
<1> USE Facts
<1>1. \A v \in Worker, k \in Msg : Holds(v, k)' => Holds(v, k)
  BY DEF OrphanFinish, Holds, Busy, rowVars, workVars, engineVars, recVars, Accept
<1>2. OneDispatcher'
  BY <1>1, NoNewHolder DEF Rest
<1>3. HeldIsOwned'
  BY <1>1 DEF OrphanFinish, Rest, HeldIsOwned, rowVars, workVars, engineVars, recVars, Accept
<1>4. ClaimTaken'
  BY DEF OrphanFinish, Rest, ClaimTaken, Busy, rowVars, workVars, engineVars, recVars, Accept
<1>5. Untouched'
  BY SMTT(30) DEF OrphanFinish, Rest, Untouched, rowVars, workVars, engineVars, recVars, Accept
<1>6. \A k \in Msg : Budget(k)'
  <2> SUFFICES ASSUME NEW k \in Msg PROVE Budget(k)'
    OBVIOUS
  <2>0. Budget(k)
    BY DEF Rest
  <2>1. Open(k)' => Open(k)
    BY DEF OrphanFinish, Open, Charged, Loaded, rowVars, workVars
  <2>2. Spent(k)' <= Spent(k) /\ reopened'[k] = reopened[k]
    <3>1. wire'[k].n + orphan'[k] <= wire[k].n + orphan[k]
      BY SMTT(30), AcceptCount DEF OrphanFinish, TypeOK, EngineTypes
    <3>2. late'[k] = late[k] /\ reopened'[k] = reopened[k]
      BY DEF OrphanFinish
    <3> QED BY <3>1, <3>2, LedgerOrphan
  <2> QED BY <2>0, <2>1, <2>2, BudgetKept
<1>7. UnknownNeverQueued'
  BY DEF OrphanFinish, Rest, UnknownNeverQueued, rowVars, workVars, engineVars, recVars, Accept
<1> QED BY <1>2, <1>3, <1>4, <1>5, <1>6, <1>7 DEF Rest

(* EngineAnswer keeps the rest of the invariant.                            *)
LEMMA RestEngineAnswer ==
    ASSUME TypeOK, TypeOK', Rest, NEW w \in Worker, NEW res \in Results, EngineAnswer(w, res)
    PROVE  Rest'
<1> USE Facts
<1> DEFINE m == wk[w].msg
<1>0. Busy(w) /\ Loaded(w) /\ m \in Msg /\ m \in minted
  BY SoleHolder DEF EngineAnswer, Waiting, Busy, Loaded
<1>1. \A v \in Worker, k \in Msg : Holds(v, k)' => Holds(v, k)
  BY SMTT(30) DEF EngineAnswer, Holds, Busy, rowVars, workVars, engineVars, recVars, Accept, Waiting
<1>2. OneDispatcher'
  BY <1>1, NoNewHolder DEF Rest
<1>3. HeldIsOwned'
  BY <1>1 DEF EngineAnswer, Rest, HeldIsOwned, rowVars, workVars, engineVars, recVars, Accept, Waiting
<1>4. ClaimTaken'
  BY SMTT(30) DEF EngineAnswer, Rest, ClaimTaken, Busy, rowVars, workVars, engineVars, recVars, Accept, Waiting
<1>5. Untouched'
  BY <1>0, AcceptCount DEF EngineAnswer, Rest, Untouched, rowVars, workVars, engineVars, recVars
<1>6. \A k \in Msg : Budget(k)'
  <2> SUFFICES ASSUME NEW k \in Msg PROVE Budget(k)'
    OBVIOUS
  <2>0. Budget(k)
    BY DEF Rest
  <2>1. (Open(k)' => Open(k)) /\ reopened'[k] = reopened[k]
    BY SMTT(30), <1>0 DEF EngineAnswer, Waiting, Open, Charged, Loaded, Results, rowVars
  <2>2. CASE k = m /\ res = "ok"
    <3>1. Open(k) /\ row[k].st # "failed"
      BY <1>0, <2>2, SoleHolder DEF Open, Charged
    <3>2. ~Open(k)'
      BY SMTT(30), <1>0, <2>2, <3>1, SoleHolder DEF EngineAnswer, Open, Charged, Loaded, Busy, Waiting, rowVars
    <3>3. Spent(k)' <= Spent(k) + 1
      <4>1. wire'[k].n = wire[k].n + 1 /\ late'[k] = late[k] /\ orphan'[k] = orphan[k]
        BY <1>0, <2>2, AcceptCount DEF EngineAnswer
      <4> QED BY <4>1, LedgerAccepted
    <3> QED BY <2>0, <2>1, <3>1, <3>2, <3>3, BudgetPaid
  <2>3. CASE ~(k = m /\ res = "ok")
    <3>2. Spent(k)' <= Spent(k)
      <4>1. wire'[k] = wire[k] /\ late'[k] = late[k] /\ orphan'[k] = orphan[k]
        BY <1>0, <2>3 DEF EngineAnswer, Accept, TypeOK, EngineTypes
      <4> QED BY <4>1, LedgerStill
    <3> QED BY <2>0, <2>1, <3>2, BudgetKept
  <2> QED BY <2>2, <2>3
<1>7. UnknownNeverQueued'
  BY DEF EngineAnswer, Rest, UnknownNeverQueued, rowVars, workVars, engineVars, recVars, Accept, Waiting
<1> QED BY <1>2, <1>3, <1>4, <1>5, <1>6, <1>7 DEF Rest

(* CallTimeout keeps the rest of the invariant.                             *)
LEMMA RestCallTimeout ==
    ASSUME TypeOK, TypeOK', Rest, NEW w \in Worker, CallTimeout(w)
    PROVE  Rest'
<1> USE Facts
<1> DEFINE m == wk[w].msg
<1>0. Busy(w) /\ Loaded(w) /\ m \in Msg /\ m \in minted
  BY SoleHolder DEF CallTimeout, Waiting, Busy, Loaded
<1>1. \A v \in Worker, k \in Msg : Holds(v, k)' => Holds(v, k)
  BY SMTT(30) DEF CallTimeout, Holds, Busy, rowVars, workVars, engineVars, recVars, Waiting, Orphaned
<1>2. OneDispatcher'
  BY <1>1, NoNewHolder DEF Rest
<1>3. HeldIsOwned'
  BY <1>1 DEF CallTimeout, Rest, HeldIsOwned, rowVars, workVars, engineVars, recVars, Waiting, Orphaned
<1>4. ClaimTaken'
  BY SMTT(30) DEF CallTimeout, Rest, ClaimTaken, Busy, rowVars, workVars, engineVars, recVars, Waiting, Orphaned
<1>5. Untouched'
  BY <1>0 DEF CallTimeout, Orphaned, Rest, Untouched, rowVars, workVars, engineVars, recVars
<1>6. \A k \in Msg : Budget(k)'
  <2> SUFFICES ASSUME NEW k \in Msg PROVE Budget(k)'
    OBVIOUS
  <2>0. Budget(k)
    BY DEF Rest
  <2>1. (Open(k)' => Open(k)) /\ reopened'[k] = reopened[k]
    BY SMTT(30), <1>0 DEF CallTimeout, Waiting, Open, Charged, Loaded, rowVars
  <2>2. CASE k = m
    <3>1. Open(k) /\ row[k].st # "failed"
      BY <1>0, <2>2, SoleHolder DEF Open, Charged
    <3>2. ~Open(k)'
      BY SMTT(30), <1>0, <2>2, <3>1, SoleHolder DEF CallTimeout, Open, Charged, Loaded, Busy, Waiting, rowVars
    <3>3. Spent(k)' <= Spent(k) + 1
      <4>1. /\ wire'[k] = wire[k] /\ orphan'[k] = orphan[k]
            /\ late'[k] = late[k] \/ late'[k] = late[k] + 1
        BY DEF CallTimeout
      <4> QED BY <4>1, LedgerLeft
    <3> QED BY <2>0, <2>1, <3>1, <3>2, <3>3, BudgetPaid
  <2>3. CASE k # m
    <3>1. Spent(k)' <= Spent(k)
      <4>1. late'[k] = late[k] /\ wire'[k] = wire[k] /\ orphan'[k] = orphan[k]
        BY <1>0, <2>3 DEF CallTimeout, Orphaned
      <4> QED BY <4>1, LedgerStill
    <3> QED BY <2>0, <2>1, <3>1, BudgetKept
  <2> QED BY <2>2, <2>3
<1>7. UnknownNeverQueued'
  BY DEF CallTimeout, Rest, UnknownNeverQueued, rowVars, workVars, engineVars, recVars, Waiting, Orphaned
<1> QED BY <1>2, <1>3, <1>4, <1>5, <1>6, <1>7 DEF Rest

(* AbortWorker keeps the rest of the invariant.                             *)
LEMMA RestAbortWorker ==
    ASSUME TypeOK, TypeOK', Rest, NEW s \in Slot, AbortWorker(s)
    PROVE  Rest'
<1> USE Facts
<1> DEFINE m == wk[s].msg
<1>1. \A v \in Worker, k \in Msg : Holds(v, k)' => Holds(v, k)
  BY DEF AbortWorker, Holds, Busy, rowVars, workVars, engineVars, recVars, Idle
<1>2. OneDispatcher'
  BY <1>1, NoNewHolder DEF Rest
<1>3. HeldIsOwned'
  BY <1>1 DEF AbortWorker, Rest, HeldIsOwned, rowVars, workVars, engineVars, recVars, Idle
<1>4. ClaimTaken'
  BY DEF AbortWorker, Rest, ClaimTaken, Busy, rowVars, workVars, engineVars, recVars, Idle
<1>5. Untouched'
  BY SoleHolder DEF AbortWorker, Orphaned, Waiting, Busy, Rest, Untouched, rowVars, workVars, engineVars, recVars
<1>6. \A k \in Msg : Budget(k)'
  <2> SUFFICES ASSUME NEW k \in Msg PROVE Budget(k)'
    OBVIOUS
  <2>0. Budget(k)
    BY DEF Rest
  <2>1. (Open(k)' => Open(k)) /\ reopened'[k] = reopened[k]
    BY DEF AbortWorker, Idle, Open, Charged, Loaded, rowVars
  <2>2. CASE Orphaned(s, k)
    <3>1. Open(k) /\ row[k].st # "failed" /\ Busy(s) /\ wk[s].msg = k
      BY <2>2, SoleHolder DEF Orphaned, Waiting, Busy, Open, Charged, Loaded
    <3>2. ~Open(k)'
      BY <3>1, SoleHolder DEF AbortWorker, Idle, Open, Charged, Loaded, Busy, rowVars
    <3>3. Spent(k)' <= Spent(k) + 1
      <4>1. late'[k] = late[k] + 1 /\ wire'[k] = wire[k] /\ orphan'[k] = orphan[k]
        BY <2>2 DEF AbortWorker
      <4> QED BY <4>1, LedgerLeft
    <3> QED BY <2>0, <2>1, <3>1, <3>2, <3>3, BudgetPaid
  <2>3. CASE ~Orphaned(s, k)
    <3>1. Spent(k)' <= Spent(k)
      <4>1. late'[k] = late[k] /\ wire'[k] = wire[k] /\ orphan'[k] = orphan[k]
        BY <2>3 DEF AbortWorker
      <4> QED BY <4>1, LedgerStill
    <3> QED BY <2>0, <2>1, <3>1, BudgetKept
  <2> QED BY <2>2, <2>3
<1>7. UnknownNeverQueued'
  BY DEF AbortWorker, Rest, UnknownNeverQueued, rowVars, workVars, engineVars, recVars, Idle
<1> QED BY <1>2, <1>3, <1>4, <1>5, <1>6, <1>7 DEF Rest

(* EngineExit keeps the rest of the invariant.                              *)
LEMMA RestEngineExit ==
    ASSUME TypeOK, TypeOK', Rest, NEW s \in Slot, EngineExit(s)
    PROVE  Rest'
<1> USE Facts
<1>0. \A v \in Worker : /\ wk'[v].pc = wk[v].pc /\ wk'[v].msg = wk[v].msg
                        /\ wk'[v].res = wk[v].res \/ (Waiting(v) /\ wk'[v].res = "unknown")
  <2> SUFFICES ASSUME NEW v \in Worker
                PROVE  /\ wk'[v].pc = wk[v].pc /\ wk'[v].msg = wk[v].msg
                       /\ wk'[v].res = wk[v].res \/ (Waiting(v) /\ wk'[v].res = "unknown")
    OBVIOUS
  <2>1. wk'[v] = wk[v] \/ wk'[v] = [wk[v] EXCEPT !.live = FALSE,
                              !.res = IF Waiting(v) THEN "unknown" ELSE wk[v].res]
    BY DEF EngineExit
  <2>2. wk[v] \in [pc : {"idle", "dispatch", "calling"}, msg : Msg \cup {NULL}, live : BOOLEAN,
                  res : Results \cup {"none", "unknown"}, at : Nat]
    BY DEF TypeOK, WorkTypes, WorkType
  <2> QED BY <2>1, <2>2
<1>0a. \A v \in Worker : Loaded(v)' => Loaded(v)
  BY <1>0 DEF Loaded, Waiting
<1>1. \A v \in Worker, k \in Msg : Holds(v, k)' => Holds(v, k)
  BY <1>0 DEF EngineExit, Holds, Busy
<1>2. OneDispatcher'
  BY <1>1, NoNewHolder DEF Rest
<1>3. HeldIsOwned'
  BY <1>1 DEF EngineExit, Rest, HeldIsOwned, rowVars, workVars, engineVars, recVars, Waiting
<1>4. ClaimTaken'
  BY <1>0 DEF EngineExit, Rest, ClaimTaken, Busy
<1>5. Untouched'
  BY DEF EngineExit, Rest, Untouched, rowVars, workVars, engineVars, recVars
<1>6. \A k \in Msg : Budget(k)'
  <2> SUFFICES ASSUME NEW k \in Msg PROVE Budget(k)'
    OBVIOUS
  <2>0. Budget(k)
    BY DEF Rest
  <2>1. Open(k)' => Open(k)
    BY <1>0, <1>0a DEF EngineExit, Open, Charged, rowVars
  <2>2. Spent(k)' <= Spent(k) /\ reopened'[k] = reopened[k]
    <3>1. /\ wire'[k] = wire[k] /\ orphan'[k] = orphan[k] /\ reopened'[k] = reopened[k]
          /\ late'[k] = 0 \/ late'[k] = late[k]
      BY DEF EngineExit
    <3> QED BY <3>1, LedgerDropped
  <2> QED BY <2>0, <2>1, <2>2, BudgetKept
<1>7. UnknownNeverQueued'
  BY DEF EngineExit, Rest, UnknownNeverQueued, rowVars, workVars, engineVars, recVars, Waiting
<1> QED BY <1>2, <1>3, <1>4, <1>5, <1>6, <1>7 DEF Rest

(* OutboxPrepare keeps the rest of the invariant.                           *)
LEMMA RestOutboxPrepare ==
    ASSUME TypeOK, TypeOK', Rest, NEW s \in Slot, NEW m \in Msg, OutboxPrepare(s, m)
    PROVE  Rest'
<1> USE Facts
<1>1. \A v \in Worker, k \in Msg : Holds(v, k)' => Holds(v, k)
  BY SMTT(30) DEF OutboxPrepare, Holds, Busy, rowVars, workVars, engineVars, recVars, Begin
<1>2. OneDispatcher'
  BY <1>1, NoNewHolder DEF Rest
<1>3. HeldIsOwned'
  BY <1>1 DEF OutboxPrepare, Rest, HeldIsOwned, rowVars, workVars, engineVars, recVars, Begin
<1>4. ClaimTaken'
  BY SMTT(30) DEF OutboxPrepare, Rest, ClaimTaken, Busy, rowVars, workVars, engineVars, recVars, Begin
<1>5. Untouched'
  BY DEF OutboxPrepare, Rest, Untouched, rowVars, workVars, engineVars, recVars, Begin
<1>6. \A k \in Msg : Budget(k)'
  <2> SUFFICES ASSUME NEW k \in Msg PROVE Budget(k)'
    OBVIOUS
  <2>0. Budget(k)
    BY DEF Rest
  <2>1. Open(k)' => Open(k)
    BY SMTT(30) DEF OutboxPrepare, Begin, Open, Charged, Loaded, rowVars
  <2>2. Spent(k)' <= Spent(k) /\ reopened'[k] = reopened[k]
    BY LedgerKept DEF OutboxPrepare, engineVars
  <2> QED BY <2>0, <2>1, <2>2, BudgetKept
<1>7. UnknownNeverQueued'
  BY DEF OutboxPrepare, Rest, UnknownNeverQueued, rowVars, workVars, engineVars, recVars, Begin
<1> QED BY <1>2, <1>3, <1>4, <1>5, <1>6, <1>7 DEF Rest

(* CallRefused keeps the rest of the invariant.                             *)
LEMMA RestCallRefused ==
    ASSUME TypeOK, TypeOK', Rest, NEW w \in Worker, CallRefused(w)
    PROVE  Rest'
<1> USE Facts
<1> DEFINE m == wk[w].msg
<1>0. Busy(w) /\ m \in Msg /\ wk[w].at \in Nat
  BY SoleHolder DEF CallRefused, Busy, TypeOK, WorkTypes, WorkType
<1>0a. \A k \in Msg : row'[k] = IF k = m THEN Settled(m, "refused", 0) ELSE row[k]
  BY <1>0 DEF CallRefused
<1>0b. \A v \in Worker : /\ wk'[v].pc = (IF v = w THEN "idle" ELSE wk[v].pc)
                         /\ v # w => wk'[v] = wk[v]
  BY DEF CallRefused, Finished, Idle
<1>0c. row'[m].st = "failed" \/ row'[m] = row[m]
  <2> HIDE Facts
  <2>1. row'[m] = Settled(m, "refused", 0)
    BY <1>0, <1>0a
  <2>2. IF row[m].st = "pending" THEN Settled(m, "refused", 0).st = "failed"
        ELSE Settled(m, "refused", 0) = row[m]
    <3>1. 0 \in Nat /\ "refused" \notin {"ok", "unknown"} /\ m \in Msg
      BY <1>0
    <3> QED BY SMTT(30), <3>1, SettledRow
  <2> QED BY <2>1, <2>2
<1>1. \A v \in Worker, k \in Msg : Holds(v, k)' => Holds(v, k)
  BY <1>0b DEF CallRefused, Holds, Busy
<1>2. OneDispatcher'
  BY <1>1, NoNewHolder DEF Rest
<1>3. HeldIsOwned'
  <2>1. \A v \in Worker, k \in Msg : k = m => ~Holds(v, k)'
    BY <1>0, <1>0b, SoleHolder DEF CallRefused, Holds, Busy
  <2> QED BY <1>1, <1>0a, <2>1 DEF CallRefused, Rest, HeldIsOwned
<1>4. ClaimTaken'
  BY <1>0b DEF CallRefused, Rest, ClaimTaken, Busy
<1>5. Untouched'
  BY <1>0, <1>0a, SoleHolder DEF CallRefused, Rest, Untouched, rowVars, workVars, engineVars, recVars
<1>6. \A k \in Msg : Budget(k)'
  <2> SUFFICES ASSUME NEW k \in Msg PROVE Budget(k)'
    OBVIOUS
  <2>0. Budget(k)
    BY DEF Rest
  <2>1. Open(k)' => Open(k)
    <3>1. CASE k # m
      BY <3>1, <1>0a, <1>0b DEF CallRefused, Open, Charged, Loaded
    <3>2. CASE k = m
      BY <3>2, <1>0 DEF CallRefused, Open, Charged, Loaded
    <3> QED BY <3>1, <3>2
  <2>2. Spent(k)' <= Spent(k) /\ reopened'[k] = reopened[k]
    BY LedgerKept DEF CallRefused, engineVars
  <2> QED BY <2>0, <2>1, <2>2, BudgetKept
<1>7. UnknownNeverQueued'
  <2> SUFFICES ASSUME NEW k \in Msg, row'[k].st = "unknown" PROVE row'[k].next = NULL
    BY DEF UnknownNeverQueued
  <2>1. CASE k # m
    BY <2>1, <1>0a DEF Rest, UnknownNeverQueued
  <2>2. CASE k = m
    <3>1. row[m].st # "unknown"
      BY <1>0, SoleHolder
    <3> QED BY <2>2, <3>1, <1>0c
  <2> QED BY <2>1, <2>2
<1> QED BY <1>2, <1>3, <1>4, <1>5, <1>6, <1>7 DEF Rest

(* Settle keeps the rest of the invariant.                                  *)
LEMMA RestSettle ==
    ASSUME TypeOK, TypeOK', Rest, NEW w \in Worker, Settle(w)
    PROVE  Rest'
<1> USE Facts
<1> DEFINE m == wk[w].msg
<1>0. Busy(w) /\ m \in Msg /\ wk[w].at \in Nat
  BY SoleHolder DEF Settle, Busy, TypeOK, WorkTypes, WorkType
<1>0a. \A k \in Msg : row'[k] = IF k = m THEN Settled(m, wk[w].res, wk[w].at) ELSE row[k]
  BY <1>0 DEF Settle
<1>0b. \A v \in Worker : /\ wk'[v].pc = (IF v = w THEN "idle" ELSE wk[v].pc)
                         /\ v # w => wk'[v] = wk[v]
  BY DEF Settle, Finished, Idle
<1>0c. /\ wk[w].res = "ok" => row'[m].st \in {"none", "sent"}
       /\ wk[w].res = "unknown" => row'[m].st \in {"none", "unknown"} /\ row'[m].next = NULL
       /\ wk[w].res \notin {"ok", "unknown"} => row'[m].st = "failed" \/ row'[m] = row[m]
  <2>1. row'[m] = Settled(m, wk[w].res, wk[w].at)
    BY <1>0, <1>0a
  <2> HIDE Facts
  <2>2. wk[w].res = "ok" => row'[m].st \in {"none", "sent"}
    BY SMTT(30), <1>0, <2>1, SettledRow
  <2>3. wk[w].res = "unknown" => row'[m].st \in {"none", "unknown"} /\ row'[m].next = NULL
    BY SMTT(30), <1>0, <2>1, SettledRow
  <2>4. wk[w].res \notin {"ok", "unknown"} => row'[m].st = "failed" \/ row'[m] = row[m]
    BY SMTT(30), <1>0, <2>1, SettledRow
  <2> QED BY <2>2, <2>3, <2>4
<1>1. \A v \in Worker, k \in Msg : Holds(v, k)' => Holds(v, k)
  BY <1>0b DEF Settle, Holds, Busy
<1>2. OneDispatcher'
  BY <1>1, NoNewHolder DEF Rest
<1>3. HeldIsOwned'
  <2>1. \A v \in Worker, k \in Msg : k = m => ~Holds(v, k)'
    BY <1>0, <1>0b, SoleHolder DEF Settle, Holds, Busy
  <2> QED BY <1>1, <1>0a, <2>1 DEF Settle, Rest, HeldIsOwned
<1>4. ClaimTaken'
  BY <1>0b DEF Settle, Rest, ClaimTaken, Busy
<1>5. Untouched'
  BY <1>0, <1>0a, SoleHolder DEF Settle, Rest, Untouched, rowVars, workVars, engineVars, recVars
<1>6. \A k \in Msg : Budget(k)'
  <2> SUFFICES ASSUME NEW k \in Msg PROVE Budget(k)'
    OBVIOUS
  <2>0. Budget(k)
    BY DEF Rest
  <2>1. Open(k)' => Open(k)
    <3>1. CASE k # m
      BY <3>1, <1>0a, <1>0b DEF Settle, Open, Charged, Loaded
    <3>2. CASE k = m
      <4>1. ~Charged(k)'
        BY <3>2, <1>0, <1>0b, SoleHolder DEF Settle, Charged, Loaded, Busy
      <4>2. CASE wk[w].res \in {"ok", "unknown"}
        BY <3>2, <4>1, <4>2, <1>0c DEF Open
      <4>3. CASE wk[w].res \notin {"ok", "unknown"}
        BY <3>2, <4>3, <1>0 DEF Settle, Open, Charged, Loaded
      <4> QED BY <4>2, <4>3
    <3> QED BY <3>1, <3>2
  <2>2. Spent(k)' <= Spent(k) /\ reopened'[k] = reopened[k]
    BY LedgerKept DEF Settle, engineVars
  <2> QED BY <2>0, <2>1, <2>2, BudgetKept
<1>7. UnknownNeverQueued'
  <2> SUFFICES ASSUME NEW k \in Msg, row'[k].st = "unknown" PROVE row'[k].next = NULL
    BY DEF UnknownNeverQueued
  <2>1. CASE k # m
    BY <2>1, <1>0a DEF Rest, UnknownNeverQueued
  <2>2. CASE k = m
    <3>1. row[m].st # "unknown"
      BY <1>0, SoleHolder
    <3> QED BY <2>2, <3>1, <1>0c
  <2> QED BY <2>1, <2>2
<1> QED BY <1>2, <1>3, <1>4, <1>5, <1>6, <1>7 DEF Rest

(* A step in which one worker becomes the dispatcher of messages nobody     *)
(* held keeps the single dispatcher.                                        *)
LEMMA NewHolder ==
    ASSUME OneDispatcher, NEW w \in Worker, NEW S \in SUBSET Msg,
           \A v \in Worker, k \in S : ~Holds(v, k),
           \A v \in Worker, k \in Msg : Holds(v, k)' => Holds(v, k) \/ (v = w /\ k \in S)
    PROVE  OneDispatcher'
BY DEF OneDispatcher

(* ReconcileSettle keeps the rest of the invariant.                         *)
LEMMA RestReconcileSettle ==
    ASSUME TypeOK, TypeOK', Rest, NEW x \in verdict, ReconcileSettle(x)
    PROVE  Rest'
<1> USE Facts
<1> DEFINE m == x.msg
<1>0. m \in Msg /\ x.dispatched \in BOOLEAN
  BY DEF TypeOK, RecTypes
<1>0a. \A k \in Msg : IF k = m /\ row[k].st = "unknown"
                      THEN /\ row'[k].st = (IF x.dispatched THEN "sent" ELSE "failed")
                           /\ row'[k].next = NULL
                      ELSE row'[k] = row[k]
  BY SMTT(30), <1>0, RetireRow DEF ReconcileSettle, SettleUnknownSend, RowType
<1>0b. UNCHANGED <<minted, up, wk, batch, late, orphan, wire>>
  BY DEF ReconcileSettle, workVars, engineVars
<1>1. \A v \in Worker, k \in Msg : Holds(v, k)' => Holds(v, k)
  BY <1>0b DEF Holds, Busy
<1>2. OneDispatcher'
  BY <1>1, NoNewHolder DEF Rest
<1>3. HeldIsOwned'
  BY <1>1, <1>0a, <1>0b DEF Rest, HeldIsOwned
<1>4. ClaimTaken'
  BY <1>0b DEF Rest, ClaimTaken, Busy
<1>5. Untouched'
  BY <1>0a, <1>0b DEF Rest, Untouched
<1>6. \A k \in Msg : Budget(k)'
  <2> SUFFICES ASSUME NEW k \in Msg PROVE Budget(k)'
    OBVIOUS
  <2>0. Budget(k)
    BY DEF Rest
  <2>1. Spent(k)' <= Spent(k)
    BY SMTT(30), <1>0b, LedgerType DEF Spent
  <2>2. CASE k = m /\ row[k].st = "unknown" /\ ~x.dispatched
    <3>1. reopened'[k] = reopened[k] + 1
      BY <1>0, <2>2 DEF ReconcileSettle, TypeOK, RowTypes
    <3> QED BY <2>0, <2>1, <3>1, BudgetRaised
  <2>3. CASE ~(k = m /\ row[k].st = "unknown" /\ ~x.dispatched)
    <3>1. reopened'[k] = reopened[k]
      BY <1>0, <2>3 DEF ReconcileSettle, TypeOK, RowTypes
    <3>2. Open(k)' => Open(k)
      BY <1>0, <1>0a, <1>0b, <2>3 DEF Open, Charged, Loaded
    <3> QED BY <2>0, <2>1, <3>1, <3>2, BudgetKept
  <2> QED BY <2>2, <2>3
<1>7. UnknownNeverQueued'
  BY <1>0a DEF Rest, UnknownNeverQueued
<1> QED BY <1>2, <1>3, <1>4, <1>5, <1>6, <1>7 DEF Rest

(* SendText keeps the rest of the invariant.                                *)
LEMMA RestSendText ==
    ASSUME TypeOK, TypeOK', Rest, NEW h \in HostTask, NEW m \in Msg, SendText(h, m)
    PROVE  Rest'
<1> USE Facts
<1>0. \A v \in Worker : ~Holds(v, m)
  BY DEF SendText, Rest, HeldIsOwned
<1>0a. \A k \in Msg : IF k = m THEN row'[k].st = "pending" ELSE row'[k] = row[k]
  BY DEF SendText, InsertPending, NoRow
<1>0b. \A v \in Worker : /\ v # h => wk'[v] = wk[v]
                         /\ v = h => wk'[v].msg = m
  BY DEF SendText, Begin
<1>0c. up /\ minted' = minted \cup {m} /\ UNCHANGED <<up, batch, late, orphan, wire, reopened>>
  BY DEF SendText, HostMayDispatch, engineVars
<1>0d. h \notin Slot
  BY ShapeAssumption
<1>1. \A v \in Worker, k \in Msg : Holds(v, k)' => Holds(v, k) \/ (v = h /\ k \in {m})
  <2> SUFFICES ASSUME NEW v \in Worker, NEW k \in Msg, Holds(v, k)', ~(v = h /\ k = m)
               PROVE  Holds(v, k)
    OBVIOUS
  <2> HIDE Facts
  <2>1. CASE v \in Slot /\ k \in batch'[v]
    BY <2>1, <1>0c DEF Holds
  <2>2. CASE Busy(v)' /\ wk'[v].msg = k
    <3>1. wk'[v] = wk[v]
      BY <2>2, <1>0b
    <3> QED BY SMTT(30), <2>2, <3>1 DEF Holds, Busy
  <2> QED BY <2>1, <2>2 DEF Holds
<1>2. OneDispatcher'
  <2>1. h \in Worker /\ {m} \in SUBSET Msg /\ \A v \in Worker, k \in {m} : ~Holds(v, k)
    BY <1>0
  <2> QED BY <2>1, <1>1, NewHolder DEF Rest
<1>3. HeldIsOwned'
  BY <1>0, <1>0a, <1>0c, <1>1 DEF Rest, HeldIsOwned
<1>4. ClaimTaken'
  BY <1>0b, <1>0c, <1>0d DEF Rest, ClaimTaken, Busy
<1>5. Untouched'
  BY <1>0a, <1>0c DEF Rest, Untouched
<1>6. \A k \in Msg : Budget(k)'
  <2> SUFFICES ASSUME NEW k \in Msg PROVE Budget(k)'
    OBVIOUS
  <2>0. Budget(k)
    BY DEF Rest
  <2>2. CASE k = m
    <3>1. wire'[k].n = 0 /\ late'[k] = 0 /\ orphan'[k] = 0
      BY <2>2, <1>0c DEF SendText, Rest, Untouched
    <3>2. Spent(k)' = 0
      BY <3>1, LedgerEmpty
    <3> QED BY <3>2, BudgetFresh
  <2>3. CASE k # m
    <3>1. ASSUME NEW v \in Worker, Loaded(v)', wk'[v].msg = k
          PROVE  Loaded(v) /\ wk[v].msg = k
      BY <3>1, <1>0b, <2>3 DEF Loaded
    <3>2. Open(k)' => Open(k)
      BY <1>0a, <1>0c, <2>3, <3>1 DEF Open, Charged
    <3> QED BY <2>0, <3>2, <1>0c, LedgerKept, BudgetKept
  <2> QED BY <2>2, <2>3
<1>7. UnknownNeverQueued'
  BY <1>0a DEF Rest, UnknownNeverQueued
<1> QED BY <1>2, <1>3, <1>4, <1>5, <1>6, <1>7 DEF Rest

(* RetryText keeps the rest of the invariant.                               *)
LEMMA RestRetryText ==
    ASSUME TypeOK, TypeOK', Rest, NEW h \in HostTask, NEW m \in Msg, RetryText(h, m)
    PROVE  Rest'
<1> USE Facts
<1>0. row[m].st = "failed" /\ \A v \in Worker : ~Holds(v, m)
  BY DEF RetryText, RetryAllowed, Rest, HeldIsOwned
<1>0a. \A k \in Msg : IF k = m THEN row'[k].st = "pending" ELSE row'[k] = row[k]
  BY SMTT(30), RetireRow DEF RetryText, RearmFailed, RowType
<1>0b. \A v \in Worker : /\ v # h => wk'[v] = wk[v]
                         /\ v = h => wk'[v].msg = m \/ wk'[v] = wk[v]
  BY DEF RetryText, Begin
<1>0c. up /\ UNCHANGED <<minted, up, batch, late, orphan, wire, reopened>>
  BY DEF RetryText, HostMayDispatch, engineVars
<1>0d. h \notin Slot /\ m \in minted
  BY <1>0, ShapeAssumption DEF Rest, Untouched
<1>1. \A v \in Worker, k \in Msg : Holds(v, k)' => Holds(v, k) \/ (v = h /\ k \in {m})
  <2> SUFFICES ASSUME NEW v \in Worker, NEW k \in Msg, Holds(v, k)', ~(v = h /\ k = m)
               PROVE  Holds(v, k)
    OBVIOUS
  <2> HIDE Facts
  <2>1. CASE v \in Slot /\ k \in batch'[v]
    BY <2>1, <1>0c DEF Holds
  <2>2. CASE Busy(v)' /\ wk'[v].msg = k
    <3>1. wk'[v] = wk[v]
      BY <2>2, <1>0b
    <3> QED BY SMTT(30), <2>2, <3>1 DEF Holds, Busy
  <2> QED BY <2>1, <2>2 DEF Holds
<1>2. OneDispatcher'
  <2>1. h \in Worker /\ {m} \in SUBSET Msg /\ \A v \in Worker, k \in {m} : ~Holds(v, k)
    BY <1>0
  <2> QED BY <2>1, <1>1, NewHolder DEF Rest
<1>3. HeldIsOwned'
  BY <1>0, <1>0a, <1>0c, <1>0d, <1>1 DEF Rest, HeldIsOwned
<1>4. ClaimTaken'
  BY <1>0b, <1>0c, <1>0d DEF Rest, ClaimTaken, Busy
<1>5. Untouched'
  BY <1>0a, <1>0c, <1>0d DEF Rest, Untouched
<1>6. \A k \in Msg : Budget(k)'
  <2> SUFFICES ASSUME NEW k \in Msg PROVE Budget(k)'
    OBVIOUS
  <2>0. Budget(k)
    BY DEF Rest
  <2>1. Open(k)' => Open(k)
    <3>1. CASE k = m
      BY <3>1, <1>0 DEF Open
    <3>2. CASE k # m
      <4>1. ASSUME NEW v \in Worker, Loaded(v)', wk'[v].msg = k
            PROVE  Loaded(v) /\ wk[v].msg = k
        BY <4>1, <1>0b, <3>2 DEF Loaded
      <4> QED BY <1>0a, <1>0c, <3>2, <4>1 DEF Open, Charged
    <3> QED BY <3>1, <3>2
  <2>2. Spent(k)' <= Spent(k) /\ reopened'[k] = reopened[k]
    BY <1>0c, LedgerKept
  <2> QED BY <2>0, <2>1, <2>2, BudgetKept
<1>7. UnknownNeverQueued'
  BY <1>0a DEF Rest, UnknownNeverQueued
<1> QED BY <1>2, <1>3, <1>4, <1>5, <1>6, <1>7 DEF Rest

(* OutboxClaim keeps the rest of the invariant.                             *)
LEMMA RestOutboxClaim ==
    ASSUME TypeOK, TypeOK', Rest, NEW s \in Slot, OutboxClaim(s)
    PROVE  Rest'
<1> USE Facts
<1> PICK S \in SUBSET Due :
       /\ row' = [m \in Msg |-> IF m \in S THEN ClaimRow(m) ELSE row[m]]
       /\ batch' = [batch EXCEPT ![s] = {m \in S : Claimable(m)}]
  BY DEF OutboxClaim
<1>0. \A k \in S : /\ k \in Msg /\ row[k].st = "failed" /\ k \in minted
                   /\ \A v \in Worker : ~Holds(v, k)
  BY DEF Due, IsDue, Rest, HeldIsOwned, Untouched
<1>0a. \A k \in Msg : IF k \in S THEN row'[k].st = (IF Claimable(k) THEN "pending" ELSE "failed")
                      ELSE row'[k] = row[k]
  BY <1>0 DEF ClaimRow, RowType
<1>0b. \A v \in Worker : /\ wk'[v].pc = wk[v].pc /\ wk'[v].msg = wk[v].msg
                         /\ wk'[v].res = wk[v].res
  BY SMTT(30) DEF OutboxClaim, TypeOK, WorkTypes, WorkType
<1>0c. up /\ ~Busy(s) /\ UNCHANGED <<minted, up, late, orphan, wire, reopened>>
  BY DEF OutboxClaim, engineVars
<1>0d. \A z \in Slot : IF z = s THEN batch'[z] = {m \in S : Claimable(m)} ELSE batch'[z] = batch[z]
  OBVIOUS
<1>1. \A v \in Worker, k \in Msg : Holds(v, k)' => Holds(v, k) \/ (v = s /\ k \in S)
  BY <1>0b, <1>0d DEF Holds, Busy
<1>2. OneDispatcher'
  BY <1>0, <1>1, NewHolder DEF Rest, Due
<1>3. HeldIsOwned'
  <2> SUFFICES ASSUME NEW v \in Worker, NEW k \in Msg, Holds(v, k)'
               PROVE  up' /\ k \in minted' /\ row'[k].st \in {"pending", "none", "delivered", "read"}
    BY DEF HeldIsOwned
  <2>1. CASE k \in S
    <3>1. v = s /\ ~Busy(s)'
      BY <1>0, <1>0b, <1>0c, <1>1, <2>1 DEF Busy
    <3>2. Claimable(k)
      BY <3>1, <1>0d DEF Holds
    <3> QED BY <3>2, <1>0, <1>0a, <1>0c, <2>1
  <2>2. CASE k \notin S
    BY <2>2, <1>0a, <1>0c, <1>1 DEF Rest, HeldIsOwned
  <2> QED BY <2>1, <2>2
<1>4. ClaimTaken'
  BY <1>0b, <1>0c, <1>0d DEF Rest, ClaimTaken, Busy
<1>5. Untouched'
  BY <1>0, <1>0a, <1>0c DEF Rest, Untouched
<1>6. \A k \in Msg : Budget(k)'
  <2> SUFFICES ASSUME NEW k \in Msg PROVE Budget(k)'
    OBVIOUS
  <2>0. Budget(k)
    BY DEF Rest
  <2>1. Open(k)' => Open(k)
    <3>1. CASE k \in S
      BY <3>1, <1>0 DEF Open
    <3>2. CASE k \notin S
      BY <3>2, <1>0a, <1>0b, <1>0d DEF Open, Charged, Loaded
    <3> QED BY <3>1, <3>2
  <2>2. Spent(k)' <= Spent(k) /\ reopened'[k] = reopened[k]
    BY <1>0c, LedgerKept
  <2> QED BY <2>0, <2>1, <2>2, BudgetKept
<1>7. UnknownNeverQueued'
  BY <1>0, <1>0a DEF Rest, UnknownNeverQueued
<1> QED BY <1>2, <1>3, <1>4, <1>5, <1>6, <1>7 DEF Rest

(* Crash keeps the rest of the invariant.                                   *)
LEMMA RestCrash ==
    ASSUME TypeOK, TypeOK', Rest, Crash
    PROVE  Rest'
<1> USE Facts
<1>0. /\ \A v \in Worker : wk'[v].pc = "idle"
      /\ \A z \in Slot : batch'[z] = {}
      /\ UNCHANGED <<row, minted, wire, reopened>>
      /\ \A k \in Msg : late'[k] = 0
  BY DEF Crash, Idle, rowVars
<1>1. \A v \in Worker, k \in Msg : ~Holds(v, k)'
  BY <1>0 DEF Holds, Busy
<1>2. OneDispatcher'
  BY <1>1, NoNewHolder DEF Rest
<1>3. HeldIsOwned'
  BY <1>1 DEF HeldIsOwned
<1>4. ClaimTaken'
  BY <1>0 DEF ClaimTaken
<1>5. \A k \in Msg : \A w \in Worker :
         Orphaned(w, k) => Charged(k) /\ k \in minted /\ row[k].st # "failed"
  BY SoleHolder DEF Orphaned, Waiting, Busy, Charged, Loaded
<1> DEFINE Lingers(k) == \E w \in Worker : Orphaned(w, k)
<1>5a. \A k \in Msg : Lingers(k) => Charged(k) /\ k \in minted /\ row[k].st # "failed"
  BY <1>5
<1>5b. \A k \in Msg : Lingers(k) => orphan'[k] = orphan[k] + late[k] + 1
  BY DEF Crash
<1>5c. \A k \in Msg : ~Lingers(k) => orphan'[k] = orphan[k] + late[k] + 0
  BY DEF Crash
<1>5d. \A k \in Msg : ~Lingers(k) => orphan'[k] = orphan[k] + late[k]
  BY SMTT(30), <1>5c
<1> HIDE DEF Lingers
<1>6. Untouched'
  <2> SUFFICES ASSUME NEW k \in Msg, k \notin minted'
               PROVE  row'[k].st = "none" /\ wire'[k].n = 0 /\ late'[k] = 0 /\ orphan'[k] = 0
    BY DEF Untouched
  <2>1. k \notin minted /\ ~Lingers(k)
    BY <1>0, <1>5a
  <2>2. row[k].st = "none" /\ wire[k].n = 0 /\ late[k] = 0 /\ orphan[k] = 0
    BY <2>1 DEF Rest, Untouched
  <2>3. orphan'[k] = 0
    <3>1. orphan'[k] = orphan[k] + late[k]
      BY <1>5d, <2>1
    <3>2. orphan'[k] = 0 + 0
      BY <2>2, <3>1
    <3>3. 0 + 0 = 0
      BY SMTT(30)
    <3> QED BY <3>2, <3>3
  <2> QED BY <1>0, <2>2, <2>3
<1>7. \A k \in Msg : Budget(k)'
  <2> SUFFICES ASSUME NEW k \in Msg PROVE Budget(k)'
    OBVIOUS
  <2>0. Budget(k)
    BY DEF Rest
  <2>1. ~Charged(k)' /\ (Open(k)' => Open(k)) /\ reopened'[k] = reopened[k]
    BY <1>0 DEF Charged, Loaded, Open
  <2>3. CASE Lingers(k)
    <3>1. Open(k) /\ ~Open(k)'
      BY <2>1, <2>3, <1>0, <1>5a DEF Open
    <3>2. Spent(k)' <= Spent(k) + 1
      <4>1. wire'[k] = wire[k] /\ late'[k] = 0 /\ orphan'[k] = orphan[k] + late[k] + 1
        BY <1>0, <1>5b, <2>3
      <4> QED BY <4>1, LedgerOutlivedOne
    <3> QED BY <2>0, <2>1, <3>1, <3>2, BudgetPaid
  <2>4. CASE ~Lingers(k)
    <3>1. Spent(k)' <= Spent(k)
      <4>1. wire'[k] = wire[k] /\ late'[k] = 0 /\ orphan'[k] = orphan[k] + late[k]
        BY <1>0, <1>5d, <2>4
      <4> QED BY <4>1, LedgerOutlived
    <3> QED BY <2>0, <2>1, <3>1, BudgetKept
  <2> QED BY <2>3, <2>4
<1>8. UnknownNeverQueued'
  BY <1>0 DEF Rest, UnknownNeverQueued
<1> QED BY <1>2, <1>3, <1>4, <1>6, <1>7, <1>8 DEF Rest

(* Boot keeps the rest of the invariant.                                    *)
LEMMA RestBoot ==
    ASSUME TypeOK, TypeOK', Rest, Boot
    PROVE  Rest'
<1> USE Facts
<1>0. UNCHANGED <<minted, wk, batch, late, orphan, wire>>
  BY DEF Boot, engineVars
<1>0a. \A k \in Msg : IF row[k].st = "pending"
                      THEN row'[k].st = "failed" /\ reopened'[k] = reopened[k] + 1
                      ELSE row'[k] = row[k] /\ reopened'[k] = reopened[k]
  BY SMTT(30), RetireRow DEF Boot, SweepPending, RowType
<1>1. \A v \in Worker, k \in Msg : ~Holds(v, k)'
  <2>1. \A v \in Worker, k \in Msg : ~Holds(v, k)
    BY DEF Boot, Rest, HeldIsOwned
  <2> QED BY <1>0, <2>1 DEF Holds, Busy
<1>2. OneDispatcher'
  BY <1>1, NoNewHolder DEF Rest
<1>3. HeldIsOwned'
  BY <1>1 DEF HeldIsOwned
<1>4. ClaimTaken'
  BY <1>0 DEF Rest, ClaimTaken, Busy
<1>5. Untouched'
  BY <1>0, <1>0a DEF Rest, Untouched
<1>6. \A k \in Msg : Budget(k)'
  <2> SUFFICES ASSUME NEW k \in Msg PROVE Budget(k)'
    OBVIOUS
  <2>0. Budget(k)
    BY DEF Rest
  <2>1. Spent(k)' <= Spent(k)
    BY SMTT(30), <1>0, LedgerType DEF Spent
  <2>2. CASE row[k].st = "pending"
    BY <2>0, <2>1, <2>2, <1>0a, BudgetRaised
  <2>3. CASE row[k].st # "pending"
    <3>1. (Open(k)' => Open(k)) /\ reopened'[k] = reopened[k]
      BY <1>0, <1>0a, <2>3 DEF Open, Charged, Loaded
    <3> QED BY <2>0, <2>1, <3>1, BudgetKept
  <2> QED BY <2>2, <2>3
<1>7. UnknownNeverQueued'
  BY <1>0a DEF Rest, UnknownNeverQueued
<1> QED BY <1>2, <1>3, <1>4, <1>5, <1>6, <1>7 DEF Rest

(* The initial state satisfies the rest of the invariant.                   *)
LEMMA InitRest == Init => Rest
<1> SUFFICES ASSUME Init PROVE Rest
  OBVIOUS
<1> USE DEF Init
<1>1. /\ \A w \in Worker : wk[w].pc = "idle" /\ \A s \in Slot : batch[s] = {}
      /\ \A m \in Msg : /\ row[m].st = IF m \in Standing THEN "failed" ELSE "none"
                        /\ wire[m].n = 0 /\ late[m] = 0 /\ orphan[m] = 0 /\ reopened[m] = 0
  BY DEF Idle, StandingRow, NoRow
<1>2. \A w \in Worker, m \in Msg : ~Holds(w, m)
  BY <1>1 DEF Holds, Busy
<1>3. OneDispatcher /\ HeldIsOwned
  BY <1>2 DEF OneDispatcher, HeldIsOwned
<1>4. ClaimTaken /\ Untouched /\ UnknownNeverQueued
  BY <1>1 DEF ClaimTaken, Untouched, UnknownNeverQueued
<1>5. \A m \in Msg : Budget(m)
  <2> SUFFICES ASSUME NEW m \in Msg PROVE Budget(m)
    OBVIOUS
  <2> QED BY SMTT(30), <1>1 DEF Budget, Spent
<1> QED BY <1>3, <1>4, <1>5 DEF Rest

(* Every action keeps the rest of the invariant.                            *)
LEMMA RestStep == TypeOK /\ TypeOK' /\ Rest /\ [Next]_vars => Rest'
<1> SUFFICES ASSUME TypeOK, TypeOK', Rest, [Next]_vars PROVE Rest'
  OBVIOUS
<1>1. CASE \E h \in HostTask, m \in Msg : SendText(h, m) \/ RetryText(h, m)
  BY <1>1, RestSendText, RestRetryText
<1>2. CASE \E h \in HostTask : Abandon(h)
  BY <1>2, RestAbandon
<1>3. CASE \E s \in Slot : OutboxClaim(s) \/ AbortWorker(s)
  BY <1>3, RestOutboxClaim, RestAbortWorker
<1>4. CASE \E s \in Slot, m \in Msg : OutboxPrepare(s, m)
  BY <1>4, RestOutboxPrepare
<1>5. CASE \E w \in Worker : CallEngine(w) \/ CallRefused(w) \/ CallTimeout(w) \/ Settle(w)
  BY <1>5, RestCallEngine, RestCallRefused, RestCallTimeout, RestSettle
<1>6. CASE \E w \in Worker, res \in Results : EngineAnswer(w, res)
  BY <1>6, RestEngineAnswer
<1>7. CASE \E m \in Msg, ok \in BOOLEAN : LateFinish(m, ok) \/ OrphanFinish(m, ok)
  BY <1>7, RestLateFinish, RestOrphanFinish
<1>8. CASE \E s \in Slot : EngineExit(s) \/ EngineStart(s) \/ ReconcileQuery(s)
  <2>1. CASE \E s \in Slot : EngineExit(s)
    BY <2>1, RestEngineExit
  <2>2. CASE \E s \in Slot : EngineStart(s) \/ ReconcileQuery(s)
    BY <2>2, Frame DEF EngineStart, ReconcileQuery, core, rowVars, workVars, engineVars
  <2> QED BY <1>8, <2>1, <2>2
<1>9. CASE \E s \in Slot, m \in Msg : ReconcileProbe(s, m) \/ ReconcileSkip(s, m)
  BY <1>9, Frame DEF ReconcileProbe, ReconcileSkip, core, rowVars, workVars, engineVars
<1>10. CASE \E v \in verdict : ReconcileSettle(v)
  BY <1>10, RestReconcileSettle
<1>11. CASE \E m \in Msg, to \in {"delivered", "read"} : PeerReceipt(m, to)
  BY <1>11, RestPeerReceipt
<1>12. CASE \E m \in Msg : DeleteRow(m)
  BY <1>12, RestDeleteRow
<1>13. CASE Crash
  BY <1>13, RestCrash
<1>14. CASE Boot
  BY <1>14, RestBoot
<1>15. CASE Tick \/ UNCHANGED vars
  BY <1>15, Frame DEF Tick, vars, core, rowVars, workVars, engineVars
<1> QED BY <1>1, <1>2, <1>3, <1>4, <1>5, <1>6, <1>7, <1>8, <1>9, <1>10, <1>11, <1>12,
           <1>13, <1>14, <1>15 DEF Next

(* The invariant itself.                                                    *)
THEOREM Invariance == Spec => []IInv
<1>1. Init => TypeOK /\ Rest
  BY InitType, InitRest
<1>2. TypeOK /\ Rest /\ [Next]_vars => (TypeOK /\ Rest)'
  BY TypeStep, RestStep
<1>3. TypeOK /\ Rest => IInv
  BY DEF Rest, IInv
<1> QED BY <1>1, <1>2, <1>3, PTL DEF Spec

(* A message never has two dispatchers, for any number of slots, drain      *)
(* workers and host tasks: claim_due_retries and rearm_failed_message flip  *)
(* the row in the transaction that reads it.                                *)
THEOREM SingleDispatcher == Spec => []OneDispatcher
<1>1. IInv => OneDispatcher
  BY DEF IInv
<1> QED BY <1>1, Invariance, PTL

(* The server accepts a message at most once per send and per unanswered    *)
(* reopening, through every interleaving of sends, retries, timeouts,       *)
(* engine exits, crashes and restarts.                                      *)
THEOREM SendDiscipline == Spec => []AtMostOnce
<1>1. IInv => AtMostOnce
  <2> SUFFICES ASSUME IInv, NEW m \in Msg PROVE wire[m].n <= 1 + reopened[m]
    BY DEF AtMostOnce
  <2>1. Budget(m) /\ TypeOK
    BY DEF IInv
  <2> QED BY <2>1, BudgetBounds
<1> QED BY <1>1, Invariance, PTL

(* What a retry may rely on: a 'failed' row that was never reopened         *)
(* unanswered was never accepted and no engine still works on it.           *)
THEOREM FailedMeansUnsent == Spec => []FailedIsDefinitive
<1>1. IInv => FailedIsDefinitive
  <2> SUFFICES ASSUME IInv, NEW m \in Msg, row[m].st = "failed", reopened[m] = 0
               PROVE  wire[m].n = 0 /\ late[m] = 0 /\ orphan[m] = 0
    BY DEF FailedIsDefinitive
  <2>1. Budget(m) /\ TypeOK
    BY DEF IInv
  <2> QED BY <2>1, BudgetBounds
<1> QED BY <1>1, Invariance, PTL

(* A row whose outcome is unknown never stands in the automatic queue.      *)
THEOREM UnknownOffQueue == Spec => []UnknownNeverQueued
<1>1. IInv => UnknownNeverQueued
  BY DEF IInv
<1> QED BY <1>1, Invariance, PTL

(* Only a row that is new, 'failed' or 'pending' becomes 'pending' or       *)
(* 'failed', whoever writes it.                                             *)
LEMMA StepKeepsSettled ==
    ASSUME IInv, Next, NEW m \in Msg, row[m].st \in Delivered
    PROVE  row'[m].st \notin {"failed", "pending"}
<1>1. TypeOK /\ Untouched
  BY DEF IInv
<1>2. row \in [Msg -> RowType] /\ row[m].st \notin {"none", "failed", "pending", "unknown"}
  BY <1>1 DEF TypeOK, RowTypes, Delivered
<1>3. ASSUME row' = row PROVE row'[m].st \notin {"failed", "pending"}
  BY <1>2, <1>3
<1>4. ASSUME NEW k \in Msg, NEW r, row' = [row EXCEPT ![k] = r],
             k = m => r.st \notin {"failed", "pending"}
      PROVE  row'[m].st \notin {"failed", "pending"}
  BY <1>2, <1>4
<1>5. ASSUME NEW h \in HostTask, NEW k \in Msg, SendText(h, k)
      PROVE  row'[m].st \notin {"failed", "pending"}
  <2>1. k # m /\ row' = [row EXCEPT ![k] = InsertPending]
    BY <1>1, <1>2, <1>5 DEF SendText, Untouched
  <2> QED BY <1>4, <2>1
<1>6. ASSUME NEW h \in HostTask, NEW k \in Msg, RetryText(h, k)
      PROVE  row'[m].st \notin {"failed", "pending"}
  <2>1. k # m /\ row' = [row EXCEPT ![k] = RearmFailed(row[k])]
    BY <1>2, <1>6 DEF RetryText, RetryAllowed
  <2> QED BY <1>4, <2>1
<1>7. ASSUME NEW s \in Slot, OutboxClaim(s)
      PROVE  row'[m].st \notin {"failed", "pending"}
  <2>1. m \notin Due
    BY <1>2 DEF Due, IsDue
  <2>2. row'[m] = row[m]
    BY <1>7, <2>1 DEF OutboxClaim
  <2> QED BY <1>2, <2>2
<1>8. ASSUME NEW w \in Worker, NEW res, NEW at \in Nat, wk[w].msg \in Msg,
             row' = [row EXCEPT ![wk[w].msg] = Settled(wk[w].msg, res, at)]
      PROVE  row'[m].st \notin {"failed", "pending"}
  <2>1. wk[w].msg = m => Settled(wk[w].msg, res, at).st \notin {"failed", "pending"}
    <3>1. Settled(m, res, at) = row[m] \/ Settled(m, res, at).st \in {"none", "sent", "unknown"}
      BY <1>1, <1>2, SettledRow
    <3> QED BY <1>2, <3>1
  <2> QED BY <1>4, <1>8, <2>1
<1>9. ASSUME NEW w \in Worker, CallRefused(w) \/ Settle(w)
      PROVE  row'[m].st \notin {"failed", "pending"}
  <2>1. wk[w] \in WorkType /\ wk[w].pc # "idle"
    BY <1>1, <1>9 DEF TypeOK, WorkTypes, CallRefused, Settle
  <2>2. wk[w].msg \in Msg /\ wk[w].at \in Nat /\ 0 \in Nat
    BY SMTT(30), <2>1 DEF WorkType
  <2> QED BY <1>8, <1>9, <2>2 DEF CallRefused, Settle
<1>10. ASSUME NEW v \in verdict, ReconcileSettle(v)
       PROVE  row'[m].st \notin {"failed", "pending"}
  <2>1. v.msg \in Msg
    BY <1>1 DEF TypeOK, RecTypes
  <2>2. /\ row' = [row EXCEPT ![v.msg] = SettleUnknownSend(row[v.msg], v.dispatched)]
        /\ v.msg = m => SettleUnknownSend(row[v.msg], v.dispatched) = row[m]
    BY <1>2, <1>10 DEF ReconcileSettle, SettleUnknownSend
  <2> QED BY <1>2, <1>4, <2>1, <2>2
<1>11. ASSUME NEW k \in Msg, NEW to \in {"delivered", "read"}, PeerReceipt(k, to)
       PROVE  row'[m].st \notin {"failed", "pending"}
  <2>1. row' = [row EXCEPT ![k] = ApplyReceipt(row[k], to)]
    BY <1>11 DEF PeerReceipt
  <2>2. row[k] \in RowType
    BY <1>2
  <2>3. ApplyReceipt(row[k], to) = row[k] \/ ApplyReceipt(row[k], to).st = to
    BY <2>2 DEF ApplyReceipt, RowType
  <2> QED BY <1>2, <1>4, <2>1, <2>3
<1>12. ASSUME NEW k \in Msg, DeleteRow(k)
       PROVE  row'[m].st \notin {"failed", "pending"}
  <2>1. row' = [row EXCEPT ![k] = NoRow] /\ NoRow.st = "none"
    BY <1>12 DEF DeleteRow, NoRow
  <2> QED BY <1>4, <2>1
<1>13. CASE Boot
  <2>1. row'[m] = row[m]
    BY <1>2, <1>13 DEF Boot, SweepPending
  <2> QED BY <1>2, <2>1
<1>14. ASSUME NEW s \in Slot,
              \/ AbortWorker(s) \/ EngineExit(s) \/ EngineStart(s) \/ ReconcileQuery(s)
              \/ \E k \in Msg : OutboxPrepare(s, k) \/ ReconcileProbe(s, k) \/ ReconcileSkip(s, k)
       PROVE  row' = row
  BY <1>14 DEF AbortWorker, EngineExit, EngineStart, ReconcileQuery, OutboxPrepare,
     ReconcileProbe, ReconcileSkip, rowVars
<1>15. ASSUME NEW w, \/ Abandon(w) \/ CallEngine(w) \/ CallTimeout(w)
                     \/ \E res \in Results : EngineAnswer(w, res)
       PROVE  row' = row
  BY <1>15 DEF Abandon, CallEngine, CallTimeout, EngineAnswer, rowVars
<1>16. ASSUME \/ \E k \in Msg, ok \in BOOLEAN : LateFinish(k, ok) \/ OrphanFinish(k, ok)
              \/ Crash \/ Tick
       PROVE  row' = row
  BY <1>16 DEF LateFinish, OrphanFinish, Crash, Tick, rowVars
<1> QED BY <1>3, <1>5, <1>6, <1>7, <1>9, <1>10, <1>11, <1>12, <1>13, <1>14, <1>15, <1>16 DEF Next

(* No late answer, timeout, retry, claim, reconciliation or restart takes a *)
(* sent, delivered or read row back to where it could be sent again.        *)
THEOREM SettledForGood == Spec => SettledStays
<1>1. IInv /\ [Next]_vars
        => [\A m \in Msg : row[m].st \in Delivered => row'[m].st \notin {"failed", "pending"}]_vars
  BY StepKeepsSettled
<1> QED BY <1>1, Invariance, PTL DEF Spec, SettledStays

=============================================================================
