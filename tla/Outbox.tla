------------------------------- MODULE Outbox -------------------------------
(***************************************************************************)
(* The life of an outgoing message row: sendText and retryText, the         *)
(* automatic retry queue and its drain workers, the engine call, the        *)
(* settlement of its answer, and the reconciliation of unknown outcomes.    *)
(*                                                                         *)
(* Source: src/store.rs (the row writes), src/service.rs (prepare and       *)
(* complete), src/supervisor.rs (dispatch_prepared, outbox_pass and the     *)
(* reconciliation pass).  One Store is shared by every runtime slot; every  *)
(* store method is one transaction behind one connection mutex, so it is    *)
(* one step here.                                                          *)
(***************************************************************************)
EXTENDS Naturals, FiniteSets

CONSTANTS
    Msg,            \* one clientRequestId, hence one row id, per logical send
    Standing,       \* rows standing in the queue when the connector starts
    Account, Slot,  \* accounts, and runtime slots (one supervisor + engine each)
    HostTask,       \* concurrent host dispatches
    AccountOf,      \* [Msg -> Account]; one conversation per account
    HomeOf,         \* [Account -> Slot]: the engine that holds the account
    GroupOf,        \* [Slot -> proxy group]
    Kind,           \* [Msg -> {"text", "attachment"}]
    QuoteOf,        \* [Msg -> Msg \cup {NULL}]: the quoted row
    NULL,           \* SQL NULL, and "no message"
    Backoff,        \* [attempt number -> delay], the curve of RetrySchedule
    RateDelay,      \* RATE_LIMIT_RETRY_AFTER_MS
    Window,         \* RETRY_WINDOW_MS
    MaxAttempts,    \* MAX_RETRY_ATTEMPTS
    MaxQueued,      \* MAX_RETRY_QUEUED_PER_ACCOUNT
    ClaimBatch,     \* OUTBOX_CLAIM_BATCH
    ProbeBatch,     \* UNKNOWN_RECONCILE_BATCH
    ProbeRounds,    \* UNKNOWN_RECONCILE_MAX_BATCHES
    Tolerance,      \* UNKNOWN_RECONCILE_TOLERANCE_MS
    MaxTime,        \* bound on the clock
    MaxLandings,    \* bound on engine starts
    MaxCrashes,     \* bound on connector crashes
    MaxDeletes      \* bound on local deletions

ASSUME ShapeAssumption ==
    /\ AccountOf \in [Msg -> Account]
    /\ HomeOf \in [Account -> Slot]
    /\ Kind \in [Msg -> {"text", "attachment"}]
    /\ QuoteOf \in [Msg -> Msg \cup {NULL}]
    /\ Standing \subseteq Msg
    /\ NULL \notin Msg /\ NULL \notin Nat
    /\ HostTask \cap Slot = {}

ASSUME BoundAssumption ==
    /\ MaxAttempts \in Nat \ {0} /\ MaxQueued \in Nat /\ Window \in Nat
    /\ RateDelay \in Nat /\ MaxTime \in Nat
    /\ Backoff \in [1..MaxAttempts -> Nat]
    /\ ClaimBatch \in Nat /\ ProbeBatch \in Nat /\ ProbeRounds \in Nat
    /\ Tolerance \in Nat
    /\ MaxLandings \in Nat /\ MaxCrashes \in Nat /\ MaxDeletes \in Nat

VARIABLES
    row,       \* [Msg -> row record]; status "none" when there is no row
    minted,    \* client request ids the host has used
    now,       \* the clock
    up,        \* the connector process is running
    eng,       \* slots whose engine is running
    wk,        \* per worker: the dispatch_prepared call it is executing
    batch,     \* per slot: claims of the current outbox pass not yet prepared
    drain,     \* slots whose outbox worker task is alive
    late,      \* per message: sends the engine still executes, caller gone
    orphan,    \* the same, in the engines of a dead connector process
    wire,      \* per message: how often and when the server accepted it
    rec,       \* per slot: the unknown-outcome reconciliation pass
    verdict,   \* lookup answers not yet applied to their row
    reopened,  \* history: how often a row went back to 'failed' unanswered
    used       \* engine landings, crashes and deletions so far (bounds)

rowVars == <<row, minted>>
workVars == <<wk, batch, drain>>
engineVars == <<eng, late, orphan, wire>>
recVars == <<rec, verdict>>
vars == <<row, minted, now, up, eng, wk, batch, drain, late, orphan, wire, rec,
          verdict, reopened, used>>

Worker == HostTask \cup Slot
Home(m) == HomeOf[AccountOf[m]]
Delivered == {"sent", "delivered", "read"}

NoRow == [st |-> "none", sent |-> 0, first |-> NULL, count |-> 0, next |-> NULL]
Idle == [pc |-> "idle", msg |-> NULL, live |-> FALSE, res |-> "none", at |-> 0]
RecOff == [pc |-> "off", todo |-> {}, rounds |-> 0, short |-> TRUE]

Busy(w) == wk[w].pc # "idle"
Waiting(w) == wk[w].pc = "calling" /\ wk[w].res = "none"

(* The slot whose engine worker w calls: an outbox worker uses its own, a   *)
(* host dispatch is routed to the account's.                                *)
EngineOf(w) == IF w \in Slot THEN w ELSE Home(wk[w].msg)

(* The caller of this send stops waiting while the engine goes on with it.  *)
Orphaned(w, m) == Waiting(w) /\ wk[w].msg = m /\ EngineOf(w) = Home(m)

-----------------------------------------------------------------------------
(* Row writes (store.rs).                                                  *)

RetireSchedule(r) == [r EXCEPT !.first = NULL, !.count = 0, !.next = NULL]

InsertPending == [NoRow EXCEPT !.st = "pending", !.sent = now]

RearmFailed(r) == [RetireSchedule(r) EXCEPT !.st = "pending"]

(* Store::open: whatever was in flight when the process died is 'failed'.  *)
SweepPending(r) ==
    IF r.st = "pending" THEN [RetireSchedule(r) EXCEPT !.st = "failed"] ELSE r

CompleteOutgoingSend(r, at) ==
    IF r.st = "none" THEN r
    ELSE [RetireSchedule(r) EXCEPT !.st = "sent", !.sent = at]

UpdateStatus(r, st) == IF r.st = "none" THEN r ELSE [r EXCEPT !.st = st]

SettleUnknownSend(r, dispatched) ==
    IF r.st # "unknown" THEN r
    ELSE [RetireSchedule(r) EXCEPT !.st = IF dispatched THEN "sent" ELSE "failed"]

(* Rows of account a that stand in the automatic queue.                    *)
QueuedOf(a) ==
    {m \in Msg : AccountOf[m] = a /\ row[m].st = "failed" /\ row[m].next # NULL}

RetryEligible(m) == Kind[m] = "text" /\ row[m].count < MaxAttempts

RetryDelay(m, arm) == IF arm = "rateLimit" THEN RateDelay ELSE Backoff[row[m].count + 1]

ScheduleFailed(m, arm) ==
    IF RetryEligible(m) /\ Cardinality(QueuedOf(AccountOf[m]) \ {m}) < MaxQueued
    THEN [row[m] EXCEPT !.st = "failed", !.next = now + RetryDelay(m, arm),
                        !.count = @ + 1, !.first = IF @ = NULL THEN now ELSE @]
    ELSE [row[m] EXCEPT !.st = "failed", !.next = NULL]

MutSettleSendFailed(m, arm) ==
    IF arm = "none" THEN [RetireSchedule(row[m]) EXCEPT !.st = "failed"]
    ELSE ScheduleFailed(m, arm)

SettleSendFailed(m, arm) ==
    IF row[m].st # "pending" THEN row[m]
    ELSE IF arm = "none" THEN [RetireSchedule(row[m]) EXCEPT !.st = "failed"]
    ELSE ScheduleFailed(m, arm)

(* claim_due_retries judges one scanned row: a dead window or an attachment *)
(* retires the schedule, otherwise the flip to 'pending' is the claim.      *)
WindowDead(r) == (IF r.first = NULL THEN r.sent ELSE r.first) + Window <= now

Claimable(m) == Kind[m] = "text" /\ ~WindowDead(row[m])

MutClaimKeepsFailed(m) ==
    IF Claimable(m) THEN row[m] ELSE [row[m] EXCEPT !.next = NULL]

MutClaimKeepsSchedule(m) ==
    IF Claimable(m) THEN [row[m] EXCEPT !.st = "pending"] ELSE row[m]

ClaimRow(m) ==
    IF Claimable(m) THEN [row[m] EXCEPT !.st = "pending"]
                    ELSE [row[m] EXCEPT !.next = NULL]

IsDue(m) == row[m].st = "failed" /\ row[m].next # NULL /\ row[m].next <= now
Due == {m \in Msg : IsDue(m)}

(* ORDER BY next_attempt_at LIMIT ClaimBatch; equal beats come in any order. *)
ScannedDue(S) ==
    /\ Cardinality(S) <= ClaimBatch
    /\ S = Due \/ Cardinality(S) = ClaimBatch
    /\ \A m \in S, k \in Due \ S : row[m].next <= row[k].next

(* The outgoing row a receipt's timestamp addresses climbs the ladder.      *)
ApplyReceipt(r, to) ==
    IF to = "delivered" /\ r.st \in {"pending", "sent"} THEN [r EXCEPT !.st = to]
    ELSE IF to = "read" /\ r.st \in {"pending", "sent", "delivered"} THEN [r EXCEPT !.st = to]
    ELSE r

-----------------------------------------------------------------------------
(* Preparation and settlement (service.rs).                                *)

(* resolve_quote: the quoted row must still exist and be addressable.      *)
QuoteResolves(m) == QuoteOf[m] # NULL => row[QuoteOf[m]].st \in Delivered

(* prepare_retry_text: every other status is replayed or refused.          *)
RetryAllowed(m) == row[m].st = "failed" /\ Kind[m] = "text"

AutoRetrySchedule(res) ==
    CASE res = "rateLimited" -> "rateLimit"
      [] res = "upstream" -> "backoff"
      [] OTHER -> "none"

CompleteSendUnknown(r) == UpdateStatus(RetireSchedule(r), "unknown")

MutSettled(m, res, at) ==
    IF res = "ok" THEN CompleteOutgoingSend(row[m], at) ELSE SettleSendFailed(m, "backoff")

Settled(m, res, at) ==
    CASE res = "ok" -> CompleteOutgoingSend(row[m], at)
      [] res = "unknown" -> CompleteSendUnknown(row[m])
      [] OTHER -> SettleSendFailed(m, AutoRetrySchedule(res))

-----------------------------------------------------------------------------
(* A row queued by an earlier run of the connector; an attachment row among *)
(* them was enrolled by a revision without the enrollment gate.              *)
StandingRow == [st |-> "failed", sent |-> 0, first |-> 0, count |-> 1, next |-> 0]

Init ==
    /\ row = [m \in Msg |-> IF m \in Standing THEN StandingRow ELSE NoRow]
    /\ minted = Standing
    /\ now = 0
    /\ up = TRUE
    /\ eng = {}
    /\ wk = [w \in Worker |-> Idle]
    /\ batch = [s \in Slot |-> {}]
    /\ drain = Slot
    /\ late = [m \in Msg |-> 0]
    /\ orphan = [m \in Msg |-> 0]
    /\ wire = [m \in Msg |-> [n |-> 0, at |-> {}]]
    /\ rec = [s \in Slot |-> RecOff]
    /\ verdict = {}
    /\ reopened = [m \in Msg |-> 0]
    /\ used = [landings |-> 0, crashes |-> 0, deletes |-> 0]

Begin(m, live) == [pc |-> "dispatch", msg |-> m, live |-> live, res |-> "none", at |-> 0]

(* A worker leaves dispatch_prepared; an outbox worker keeps the engine     *)
(* handle its pass resolved while the pass has claims left.                 *)
Finished(w) ==
    [wk EXCEPT ![w] = [Idle EXCEPT !.live = w \in Slot /\ batch[w] # {} /\ wk[w].live]]

(* Lane and account mutex of HostDispatchLimits::acquire, then              *)
(* running_engine of the account's slot.                                    *)
HostMayDispatch(h, m) ==
    /\ up /\ ~Busy(h)
    /\ \A g \in HostTask : Busy(g) => AccountOf[wk[g].msg] # AccountOf[m]
    /\ Home(m) \in eng

(* messages.sendText: a fresh clientRequestId inserts its pending row; a    *)
(* known one replays the stored row and changes nothing.                    *)
SendText(h, m) ==
    /\ HostMayDispatch(h, m)
    /\ m \notin minted
    /\ QuoteResolves(m)
    /\ minted' = minted \cup {m}
    /\ row' = [row EXCEPT ![m] = InsertPending]
    /\ wk' = [wk EXCEPT ![h] = Begin(m, TRUE)]
    /\ UNCHANGED <<now, up, batch, drain, engineVars, recVars, reopened, used>>

(* messages.retryText: the rearm comes first, the rebuild of the dispatch   *)
(* second, and the rebuild may refuse.                                      *)
RetryText(h, m) ==
    /\ HostMayDispatch(h, m)
    /\ RetryAllowed(m)
    /\ row' = [row EXCEPT ![m] = RearmFailed(row[m])]
    /\ wk' = IF QuoteResolves(m) THEN [wk EXCEPT ![h] = Begin(m, TRUE)] ELSE wk
    /\ UNCHANGED <<minted, now, up, batch, drain, engineVars, recVars, reopened, used>>

(* outbox_pass: resolve the engine, then claim a batch of due rows.  The    *)
(* scan has no account or group filter.                                     *)
OutboxClaim(s) ==
    /\ up /\ s \in drain /\ s \in eng /\ ~Busy(s) /\ batch[s] = {}
    /\ \E S \in SUBSET Due :
          /\ S # {} /\ ScannedDue(S)
          /\ row' = [m \in Msg |-> IF m \in S THEN ClaimRow(m) ELSE row[m]]
          /\ batch' = [batch EXCEPT ![s] = {m \in S : Claimable(m)}]
    /\ wk' = [wk EXCEPT ![s].live = batch'[s] # {}]
    /\ UNCHANGED <<minted, now, up, drain, engineVars, recVars, reopened, used>>

(* prepare_outbox_retry_text for one claim: rebuilt and dispatched with the *)
(* pass's engine handle, or dropped with a warning.                         *)
OutboxPrepare(s, m) ==
    /\ up /\ ~Busy(s) /\ m \in batch[s]
    /\ batch' = [batch EXCEPT ![s] = @ \ {m}]
    /\ wk' = IF row[m].st = "pending" /\ QuoteResolves(m)
             THEN [wk EXCEPT ![s] = Begin(m, wk[s].live)]
             ELSE [wk EXCEPT ![s].live = @ /\ batch[s] # {m}]
    /\ UNCHANGED <<rowVars, now, up, drain, engineVars, recVars, reopened, used>>

(* engine.call("send"): the frame reaches the engine ...                   *)
CallEngine(w) ==
    /\ up /\ wk[w].pc = "dispatch" /\ wk[w].live
    /\ wk' = [wk EXCEPT ![w].pc = "calling"]
    /\ UNCHANGED <<rowVars, now, up, batch, drain, engineVars, recVars, reopened, used>>

(* ... or is refused before that: NotRunning on a dead handle, Backpressure *)
(* on a full queue.  Both settle plain 'failed'.                            *)
CallRefused(w) ==
    /\ up /\ wk[w].pc = "dispatch"
    /\ row' = [row EXCEPT ![wk[w].msg] = Settled(wk[w].msg, "refused", 0)]
    /\ wk' = Finished(w)
    /\ UNCHANGED <<minted, now, up, batch, drain, engineVars, recVars, reopened, used>>

Results == {"ok", "refused", "upstream", "rateLimited"}

Accept(m) == [wire EXCEPT ![m] = [n |-> @.n + 1, at |-> @.at \cup {now}]]

(* The engine answers: accepted by the server, or a definitive error.  An   *)
(* engine that does not hold the account answers its unknown-account error. *)
EngineAnswer(w, res) ==
    /\ up /\ Waiting(w)
    /\ EngineOf(w) # Home(wk[w].msg) => res = "upstream"
    /\ wk' = [wk EXCEPT ![w].res = res, ![w].at = IF res = "ok" THEN now ELSE 0]
    /\ wire' = IF res = "ok" THEN Accept(wk[w].msg) ELSE wire
    /\ UNCHANGED <<rowVars, now, up, batch, drain, eng, late, orphan, recVars, reopened, used>>

(* A send whose caller is gone ends, accepted by the server or not.         *)
LateFinish(m, ok) ==
    /\ late[m] > 0
    /\ late' = [late EXCEPT ![m] = @ - 1]
    /\ wire' = IF ok THEN Accept(m) ELSE wire
    /\ UNCHANGED <<rowVars, now, up, eng, workVars, orphan, recVars, reopened, used>>

OrphanFinish(m, ok) ==
    /\ orphan[m] > 0
    /\ orphan' = [orphan EXCEPT ![m] = @ - 1]
    /\ wire' = IF ok THEN Accept(m) ELSE wire
    /\ UNCHANGED <<rowVars, now, up, eng, workVars, late, recVars, reopened, used>>

MutTimeoutRefused(w) ==
    /\ up /\ Waiting(w) /\ rec[EngineOf(w)].pc # "settling"
    /\ wk' = [wk EXCEPT ![w].res = "refused"]
    /\ late' = [m \in Msg |-> IF Orphaned(w, m) THEN late[m] + 1 ELSE late[m]]
    /\ UNCHANGED <<rowVars, now, up, batch, drain, eng, orphan, wire, recVars, reopened, used>>

MutTimeoutHostOnly(w) ==
    /\ up /\ w \in HostTask /\ Waiting(w) /\ rec[EngineOf(w)].pc # "settling"
    /\ wk' = [wk EXCEPT ![w].res = "unknown"]
    /\ late' = [m \in Msg |-> IF Orphaned(w, m) THEN late[m] + 1 ELSE late[m]]
    /\ UNCHANGED <<rowVars, now, up, batch, drain, eng, orphan, wire, recVars, reopened, used>>

(* The mutating call times out: UnknownOutcome, while the engine goes on.   *)
(* The settle delay before a pass's first backlog query (2 s) is shorter    *)
(* than the request timeout (15 s) of any call made after the landing.      *)
CallTimeout(w) ==
    /\ up /\ Waiting(w) /\ rec[EngineOf(w)].pc # "settling"
    /\ wk' = [wk EXCEPT ![w].res = "unknown"]
    /\ late' = [m \in Msg |-> IF Orphaned(w, m) THEN late[m] + 1 ELSE late[m]]
    /\ UNCHANGED <<rowVars, now, up, batch, drain, eng, orphan, wire, recVars, reopened, used>>

(* The tail of dispatch_prepared: the answer settles the row.               *)
Settle(w) ==
    /\ up /\ wk[w].pc = "calling" /\ wk[w].res # "none"
    /\ row' = [row EXCEPT ![wk[w].msg] = Settled(wk[w].msg, wk[w].res, wk[w].at)]
    /\ wk' = Finished(w)
    /\ UNCHANGED <<minted, now, up, batch, drain, engineVars, recVars, reopened, used>>

(* The 300 s stall budget drops a host dispatch wedged after its call (the  *)
(* call itself is bounded by 15 s).                                         *)
Abandon(h) ==
    /\ up /\ wk[h].pc = "calling" /\ wk[h].res # "none"
    /\ wk' = [wk EXCEPT ![h] = Idle]
    /\ UNCHANGED <<rowVars, now, up, batch, drain, engineVars, recVars, reopened, used>>

(* stop_background_tasks aborts the slot's outbox worker mid-pass.          *)
AbortWorker(s) ==
    /\ up /\ s \in drain
    /\ drain' = drain \ {s}
    /\ wk' = [wk EXCEPT ![s] = Idle]
    /\ batch' = [batch EXCEPT ![s] = {}]
    /\ late' = [m \in Msg |-> IF Orphaned(s, m) THEN late[m] + 1 ELSE late[m]]
    /\ UNCHANGED <<rowVars, now, up, eng, orphan, wire, recVars, reopened, used>>

(* The engine process goes away: run_actor drains its pending map, every    *)
(* mutating call in it with UnknownOutcome.                                 *)
EngineExit(s) ==
    /\ up /\ s \in eng
    /\ eng' = eng \ {s}
    /\ wk' = [w \in Worker |->
                IF w = s \/ (Busy(w) /\ EngineOf(w) = s)
                THEN [wk[w] EXCEPT !.live = FALSE, !.res = IF Waiting(w) THEN "unknown" ELSE @]
                ELSE wk[w]]
    /\ late' = [m \in Msg |-> IF Home(m) = s THEN 0 ELSE late[m]]
    /\ rec' = [rec EXCEPT ![s] = RecOff]
    /\ UNCHANGED <<rowVars, now, up, batch, drain, orphan, wire, verdict, reopened, used>>

(* An engine lands Running and the reconciliation pass is armed.            *)
EngineStart(s) ==
    /\ up /\ s \notin eng /\ used.landings < MaxLandings
    /\ eng' = eng \cup {s}
    /\ rec' = [rec EXCEPT ![s] = [pc |-> "settling", todo |-> {}, rounds |-> ProbeRounds,
                                  short |-> FALSE]]
    /\ used' = [used EXCEPT !.landings = @ + 1]
    /\ UNCHANGED <<rowVars, now, up, workVars, late, orphan, wire, verdict, reopened>>

Unsettled(s) == {m \in Msg : row[m].st = "unknown" /\ GroupOf[Home(m)] = GroupOf[s]}

(* One backlog query: oldest first, at most ProbeBatch rows.                *)
ReconcileQuery(s) ==
    /\ up /\ rec[s].pc \in {"settling", "query"}
    /\ \E S \in SUBSET Unsettled(s) :
          /\ Cardinality(S) <= ProbeBatch
          /\ S = Unsettled(s) \/ Cardinality(S) = ProbeBatch
          /\ \A m \in S, k \in Unsettled(s) \ S : row[m].sent <= row[k].sent
          /\ rec' = [rec EXCEPT ![s] =
                IF S = {} \/ rec[s].rounds = 0 THEN RecOff
                ELSE [pc |-> "probe", todo |-> S, rounds |-> rec[s].rounds - 1,
                      short |-> Cardinality(S) < ProbeBatch]]
    /\ UNCHANGED <<rowVars, now, up, workVars, engineVars, verdict, reopened, used>>

(* lookupOutgoingDispatch: the engine's ledger of accepted sends, matched   *)
(* on the peer and on the row's stamp within the tolerance.                 *)
LookupDispatch(m) ==
    \E k \in Msg : /\ AccountOf[k] = AccountOf[m]
                   /\ \E t \in wire[k].at : /\ t <= row[m].sent + Tolerance
                                            /\ row[m].sent <= t + Tolerance

AfterProbe(s, m) ==
    LET left == rec[s].todo \ {m} IN
    IF left # {} THEN [rec[s] EXCEPT !.pc = "probe", !.todo = left]
    ELSE IF rec[s].short THEN RecOff
    ELSE [rec[s] EXCEPT !.pc = "query", !.todo = {}]

(* The home engine answers the probe of an unknown row ...                 *)
ReconcileProbe(s, m) ==
    /\ up /\ rec[s].pc = "probe" /\ m \in rec[s].todo /\ Home(m) = s
    /\ verdict' = verdict \cup {[slot |-> s, msg |-> m, dispatched |-> LookupDispatch(m)]}
    /\ rec' = [rec EXCEPT ![s].pc = "answered"]
    /\ UNCHANGED <<rowVars, now, up, workVars, engineVars, reopened, used>>

(* ... and the answer is applied later, under the service lock.            *)
ReconcileSettle(v) ==
    /\ up
    /\ verdict' = verdict \ {v}
    /\ row' = [row EXCEPT ![v.msg] = SettleUnknownSend(row[v.msg], v.dispatched)]
    /\ reopened' = IF row[v.msg].st = "unknown" /\ ~v.dispatched
                   THEN [reopened EXCEPT ![v.msg] = @ + 1] ELSE reopened
    /\ rec' = IF rec[v.slot].pc = "answered"
              THEN [rec EXCEPT ![v.slot] = AfterProbe(v.slot, v.msg)] ELSE rec
    /\ UNCHANGED <<minted, now, up, workVars, engineVars, used>>

(* The probe fails (an account the engine does not hold, transport): the    *)
(* row stays unknown.                                                       *)
ReconcileSkip(s, m) ==
    /\ up /\ rec[s].pc = "probe" /\ m \in rec[s].todo
    /\ rec' = [rec EXCEPT ![s] = AfterProbe(s, m)]
    /\ UNCHANGED <<rowVars, now, up, workVars, engineVars, verdict, reopened, used>>

(* A peer's receipt names the wire timestamp of an accepted send.           *)
PeerReceipt(m, to) ==
    /\ up /\ row[m].sent \in wire[m].at
    /\ row' = [row EXCEPT ![m] = ApplyReceipt(row[m], to)]
    /\ UNCHANGED <<minted, now, up, workVars, engineVars, recVars, reopened, used>>

(* Local deletion (delete for me, retention, conversation delete) removes   *)
(* the row whatever its status.                                             *)
DeleteRow(m) ==
    /\ up /\ row[m].st # "none" /\ used.deletes < MaxDeletes
    /\ row' = [row EXCEPT ![m] = NoRow]
    /\ used' = [used EXCEPT !.deletes = @ + 1]
    /\ UNCHANGED <<minted, now, up, workVars, engineVars, recVars, reopened>>

(* The connector process dies; its engine children may linger.              *)
Crash ==
    /\ up /\ used.crashes < MaxCrashes
    /\ up' = FALSE
    /\ used' = [used EXCEPT !.crashes = @ + 1]
    /\ eng' = {} /\ late' = [m \in Msg |-> 0]
    /\ orphan' = [m \in Msg |-> orphan[m] + late[m]
                                 + IF \E w \in Worker : Orphaned(w, m) THEN 1 ELSE 0]
    /\ wk' = [w \in Worker |-> Idle] /\ batch' = [s \in Slot |-> {}]
    /\ rec' = [s \in Slot |-> RecOff] /\ verdict' = {}
    /\ UNCHANGED <<rowVars, now, drain, wire, reopened>>

Boot ==
    /\ ~up
    /\ up' = TRUE
    /\ row' = [m \in Msg |-> SweepPending(row[m])]
    /\ reopened' = [m \in Msg |-> IF row[m].st = "pending" THEN reopened[m] + 1 ELSE reopened[m]]
    /\ drain' = Slot
    /\ UNCHANGED <<minted, now, wk, batch, engineVars, recVars, used>>

Tick ==
    /\ now < MaxTime
    /\ now' = now + 1
    /\ UNCHANGED <<rowVars, up, workVars, engineVars, recVars, reopened, used>>

Next ==
    \/ \E h \in HostTask, m \in Msg : SendText(h, m) \/ RetryText(h, m)
    \/ \E h \in HostTask : Abandon(h)
    \/ \E s \in Slot : OutboxClaim(s) \/ AbortWorker(s)
    \/ \E s \in Slot, m \in Msg : OutboxPrepare(s, m)
    \/ \E w \in Worker : CallEngine(w) \/ CallRefused(w) \/ CallTimeout(w) \/ Settle(w)
    \/ \E w \in Worker, res \in Results : EngineAnswer(w, res)
    \/ \E m \in Msg, ok \in BOOLEAN : LateFinish(m, ok) \/ OrphanFinish(m, ok)
    \/ \E s \in Slot : EngineExit(s) \/ EngineStart(s) \/ ReconcileQuery(s)
    \/ \E s \in Slot, m \in Msg : ReconcileProbe(s, m) \/ ReconcileSkip(s, m)
    \/ \E v \in verdict : ReconcileSettle(v)
    \/ \E m \in Msg, to \in {"delivered", "read"} : PeerReceipt(m, to)
    \/ \E m \in Msg : DeleteRow(m)
    \/ Crash \/ Boot \/ Tick

Spec == Init /\ [][Next]_vars

-----------------------------------------------------------------------------
Statuses == {"none", "pending", "sent", "delivered", "read", "failed", "unknown"}

RowType == [st : Statuses, sent : Nat, first : Nat \cup {NULL}, count : 0..MaxAttempts,
            next : Nat \cup {NULL}]

WorkType ==
    {x \in [pc : {"idle", "dispatch", "calling"}, msg : Msg \cup {NULL}, live : BOOLEAN,
            res : Results \cup {"none", "unknown"}, at : Nat] : x.pc # "idle" => x.msg \in Msg}

RecType == [pc : {"off", "settling", "query", "probe", "answered"}, todo : SUBSET Msg,
            rounds : Nat, short : BOOLEAN]

RowTypes == row \in [Msg -> RowType] /\ minted \subseteq Msg /\ reopened \in [Msg -> Nat]

WorkTypes ==
    wk \in [Worker -> WorkType] /\ batch \in [Slot -> SUBSET Msg] /\ drain \subseteq Slot

EngineTypes ==
    /\ eng \subseteq Slot
    /\ late \in [Msg -> Nat] /\ orphan \in [Msg -> Nat]
    /\ wire \in [Msg -> [n : Nat, at : SUBSET Nat]]

RecTypes ==
    /\ rec \in [Slot -> RecType]
    /\ verdict \subseteq [slot : Slot, msg : Msg, dispatched : BOOLEAN]

(* The type of every variable; a busy worker executes a message, and a row  *)
(* never spends more than its attempt budget.                               *)
TypeOK ==
    /\ RowTypes /\ WorkTypes /\ EngineTypes /\ RecTypes
    /\ now \in Nat /\ up \in BOOLEAN
    /\ used \in [landings : Nat, crashes : Nat, deletes : Nat]

(* Who is entitled to dispatch m: a worker executing it, or an outbox pass  *)
(* that claimed it.                                                         *)
Holds(w, m) ==
    \/ Busy(w) /\ wk[w].msg = m
    \/ w \in Slot /\ m \in batch[w]

(* "The flip is the claim" (claim_due_retries, rearm_failed_message):       *)
(* however sends, manual retries and the drain workers of all slots         *)
(* interleave, a message has at most one dispatcher.                        *)
OneDispatcher ==
    \A m \in Msg, v, w \in Worker : Holds(v, m) /\ Holds(w, m) => v = w

(* The send discipline: the server accepts a message at most once, plus     *)
(* once for each time its row was put back to 'failed' without an answer    *)
(* (the boot sweep of pending rows, a reconciliation that found no          *)
(* dispatch).  Timeouts, late engine work, orphaned engines, manual and     *)
(* automatic retries add no delivery of their own.                          *)
AtMostOnce == \A m \in Msg : wire[m].n <= 1 + reopened[m]

(* The guards of retryText and of the automatic queue rest on this: a row   *)
(* that reads 'failed', and was never put there unanswered, was never       *)
(* accepted, and no engine is still working on it.                          *)
FailedIsDefinitive ==
    \A m \in Msg : row[m].st = "failed" /\ reopened[m] = 0
                   => wire[m].n = 0 /\ late[m] = 0 /\ orphan[m] = 0

(* The red line of complete_send_unknown and retire_retry_schedule: a row   *)
(* whose outcome is unknown carries no live retry schedule.                 *)
UnknownNeverQueued == \A m \in Msg : row[m].st = "unknown" => row[m].next = NULL

(* "A status push that already settled the row wins; the late engine answer *)
(* loses" (settle_send_failed): no step takes a sent, delivered or read row *)
(* back to 'failed' or 'pending', where it could be sent again.             *)
SettledStays ==
    [][\A m \in Msg : row[m].st \in Delivered => row'[m].st \notin {"failed", "pending"}]_vars

-----------------------------------------------------------------------------
(* Scheduling: tokio runs every runnable task, an engine call is bounded by *)
(* its timeout (the engine itself owes no answer), and the outbox loop      *)
(* wakes at the earliest beat or its tick.                                  *)
PassSteps(s) == OutboxClaim(s) \/ \E m \in Msg : OutboxPrepare(s, m)

ReconcileSteps(s) ==
    \/ ReconcileQuery(s)
    \/ \E m \in Msg : ReconcileProbe(s, m) \/ ReconcileSkip(s, m)
    \/ \E v \in verdict : v.slot = s /\ ReconcileSettle(v)

Fairness ==
    /\ \A w \in Worker : /\ WF_vars(CallEngine(w) \/ CallRefused(w))
                         /\ WF_vars(CallTimeout(w)) /\ WF_vars(Settle(w))
    /\ \A s \in Slot : WF_vars(PassSteps(s)) /\ WF_vars(ReconcileSteps(s))
    /\ WF_vars(Boot)

FairSpec == Spec /\ Fairness

(* A dispatch always ends: whoever holds a message lets go of it again.     *)
DispatchEnds == \A w \in Worker, m \in Msg : []<>(~Holds(w, m))

(* The queue drains: when some slot's engine and outbox worker stay up, no  *)
(* row stays due forever.                                                   *)
DueIsServed ==
    \A s \in Slot : <>[](up /\ s \in eng /\ s \in drain)
                    => \A m \in Msg : []<>(~IsDue(m))

=============================================================================
