----------------------------- MODULE PeerReceipts -----------------------------
(* Peer receipts of one account: the ladder of an outgoing row's status, the *)
(* per-recipient ledger behind it, and the table of receipts that arrive     *)
(* before their row (Store::apply_peer_receipt, apply_receipt_batch,         *)
(* drain_early_receipts), with the rows' landing, their mirrored copies and  *)
(* the settlement of local sends.                                            *)
EXTENDS Integers, FiniteSets, Sequences, SequencesExt

CONSTANTS
    NULL,
    Local,        \* rows of sends made here
    Mirror,       \* outgoing rows mirrored from the account's other devices
    Incoming,     \* rows of peers
    Threads,      \* the sets of rows a behaviour may bring
    ById,         \* all rows in the order of their ids
    ConvOf,       \* the conversation of each row
    Prepared,     \* the stamp a local row is inserted with
    Upstream,     \* the stamp the message itself carries
    Recipient,
    Members,      \* who qualifies as a recipient in each conversation
    MaxLedger,    \* MAX_MESSAGE_RECEIPT_RECIPIENTS
    Capacity,     \* EARLY_CONTROL_BUFFER_CAPACITY
    TTL,          \* EARLY_CONTROL_BUFFER_TTL_MS
    MaxTime, MaxReceipts

Msg == Local \cup Mirror \cup Incoming

Outgoing == Local \cup Mirror

Tier == {"delivered", "read", "viewed"}

Stamps == {Upstream[m] : m \in Msg}

IdAssumption == Range(ById) = Msg /\ Len(ById) = Cardinality(Msg)

VARIABLES
    thread,   \* the rows of this behaviour
    row,      \* the rows
    ledger,   \* message_receipts, by row and recipient
    early,    \* early_receipts
    enabled,  \* the account's read_receipts_enabled
    inflight, \* local sends the engine has not answered
    now,
    log,      \* ghost: the receipts taken in, with what became of each
    landed    \* ghost: when each row landed, and after how many receipts

vars == <<thread, row, ledger, early, enabled, inflight, now, log, landed>>

NoRow == [st |-> "none", at |-> NULL, delivered |-> NULL, read |-> NULL, viewed |-> NULL]

NoEntry == [known |-> FALSE, sent |-> NULL, failed |-> NULL,
            delivered |-> NULL, read |-> NULL, viewed |-> NULL]

First(old, new) == IF old = NULL THEN new ELSE old

-----------------------------------------------------------------------------
(* Store::apply_peer_receipt, for one stamp, on a state s of rows and ledger.*)

Has(s, m) == s.row[m].st # "none"

(* The outgoing rows at the stamp, in id order, and those of them whose      *)
(* conversation has the sender as a recipient.                               *)
Candidates(s, ts) == SelectSeq(ById, LAMBDA m : m \in Outgoing /\ Has(s, m) /\ s.row[m].at = ts)

Qualified(s, who, ts) == SelectSeq(Candidates(s, ts), LAMBDA m : who \in Members[ConvOf[m]])

Known(l) == Cardinality({r \in Recipient : l[r].known})

(* ledger_stamp_receipt: the first stamp of a tier stays; a recipient beyond *)
(* the ceiling gets no entry.                                                *)
LedgerStampReceipt(l, who, tier, when) ==
    IF ~l[who].known /\ Known(l) >= MaxLedger THEN l
    ELSE [l EXCEPT ![who][tier] = First(@, when), ![who].known = TRUE]

MutNextStatus(st, tier) == IF tier = "delivered" THEN "delivered" ELSE "read"

NextStatus(st, tier) ==
    CASE tier = "delivered" /\ st \in {"pending", "sent"} -> "delivered"
      [] tier # "delivered" /\ st \in {"pending", "sent", "delivered"} -> "read"
      [] OTHER -> NULL

FirstView(r, tier) ==
    tier = "viewed" /\ r.viewed = NULL /\ r.st \in {"pending", "sent", "delivered", "read"}

(* The UPDATE that row m of the snapshot asks for, on any row y.             *)
Climbed(r, tier, when, y) ==
    LET next == NextStatus(r.st, tier) IN
    [y EXCEPT !.st = IF next = NULL THEN @ ELSE next,
              !.delivered = IF next = "delivered" THEN First(@, when) ELSE @,
              !.read = IF next = "read" THEN First(@, when) ELSE @,
              !.viewed = IF ~FirstView(r, tier) THEN @
                         ELSE IF next = NULL THEN when ELSE First(@, when)]

(* ... whose WHERE names the row's conversation and stamp.                   *)
Climb(rows, m, r, tier, when) ==
    [x \in Msg |->
        IF rows[x].st # "none" /\ ConvOf[x] = ConvOf[m] /\ rows[x].at = r.at
        THEN Climbed(r, tier, when, rows[x]) ELSE rows[x]]

ApplyPeerReceipt(s, who, ts, tier, when) ==
    LET ms == Qualified(s, who, ts) IN
    [row |-> FoldLeft(LAMBDA rows, m : Climb(rows, m, s.row[m], tier, when), s.row, ms),
     ledger |-> [m \in Msg |-> IF m \in Range(ms)
                               THEN LedgerStampReceipt(s.ledger[m], who, tier, when)
                               ELSE s.ledger[m]]]

Here == [row |-> row, ledger |-> ledger]

-----------------------------------------------------------------------------
(* The table of early receipts: the admission of the early controls.         *)

IsFresh(e) == now - e.since < TTL

Oldest(q) == CHOOSE i \in DOMAIN q : /\ \A j \in DOMAIN q : q[i].since <= q[j].since
                                     /\ \A j \in 1..(i - 1) : q[j].since # q[i].since

MakeRoom(q) == IF Len(q) >= Capacity THEN RemoveAt(q, Oldest(q)) ELSE q

BufferEarlyReceipt(e) == Append(MakeRoom(SelectSeq(early, IsFresh)), e)

MutMatching(ts) == SelectSeq(early, LAMBDA e : e.ts = ts)

Matching(ts) == SelectSeq(early, LAMBDA e : IsFresh(e) /\ e.ts = ts)

Remaining(ts) == SelectSeq(early, LAMBDA e : IsFresh(e) /\ e.ts # ts)

DrainEarlyReceipts(s, ts) ==
    FoldLeft(LAMBDA t, e : ApplyPeerReceipt(t, e.who, e.ts, e.tier, e.when), s, Matching(ts))

-----------------------------------------------------------------------------
Init ==
    /\ thread \in Threads
    /\ row = [m \in Msg |-> NoRow]
    /\ ledger = [m \in Msg |-> [r \in Recipient |-> NoEntry]]
    /\ early = <<>> /\ now = 0 /\ log = <<>>
    /\ enabled \in BOOLEAN /\ inflight = {}
    /\ landed = [m \in Msg |-> NULL]

Fate(s, who, ts) ==
    CASE Candidates(s, ts) = <<>> -> "buffered"
      [] Qualified(s, who, ts) = <<>> -> "blocked"
      [] OTHER -> "folded"

(* apply_peer_receipt_event: read and viewed receipts are ignored unless the *)
(* account sends its own; a stamp no outgoing row carries waits, one that    *)
(* only rows of other recipients carry is dropped.                           *)
Receipt(who, ts, tier) ==
    /\ Len(log) < MaxReceipts
    /\ tier # "delivered" => enabled
    /\ LET s == ApplyPeerReceipt(Here, who, ts, tier, now) IN row' = s.row /\ ledger' = s.ledger
    /\ early' = IF Fate(Here, who, ts) # "buffered" THEN early
                ELSE BufferEarlyReceipt([who |-> who, ts |-> ts, tier |-> tier, when |-> now,
                                         since |-> now, no |-> Len(log) + 1])
    /\ log' = Append(log, [who |-> who, ts |-> ts, tier |-> tier, when |-> now,
                           no |-> Len(log) + 1, fate |-> Fate(Here, who, ts),
                           lost |-> {e.no : e \in {x \in Range(early) : IsFresh(x)} \ Range(early')}])
    /\ UNCHANGED <<thread, enabled, inflight, now, landed>>

SetReadReceipts == enabled' = ~enabled /\ UNCHANGED <<thread, row, ledger, early, inflight, now, log, landed>>

Land(m, st, at) == [row EXCEPT ![m] = [NoRow EXCEPT !.st = st, !.at = at]]

Landing(m) ==
    landed' = [landed EXCEPT ![m] = [at |-> now, no |-> Len(log),
                                     nth |-> Cardinality({x \in Msg : landed[x] # NULL})]]

(* ingest_receive of a peer's message.                                       *)
IncomingLands(m) ==
    /\ m \in thread /\ landed[m] = NULL
    /\ row' = Land(m, "delivered", Upstream[m]) /\ Landing(m)
    /\ UNCHANGED <<thread, ledger, early, enabled, inflight, now, log>>

Twin(m, x) == row[x].st # "none" /\ ConvOf[x] = ConvOf[m] /\ row[x].at = Upstream[m]

(* ingest_receive of a mirrored send, unless its identity already has a row. *)
MirrorLands(m) ==
    /\ m \in thread /\ landed[m] = NULL
    /\ ~\E x \in Outgoing : Twin(m, x)
    /\ LET s == DrainEarlyReceipts([Here EXCEPT !.row = Land(m, "sent", Upstream[m])], Upstream[m])
       IN  row' = s.row /\ ledger' = s.ledger
    /\ early' = Remaining(Upstream[m])
    /\ Landing(m)
    /\ UNCHANGED <<thread, enabled, inflight, now, log>>

PrepareSend(m) ==
    /\ m \in thread /\ landed[m] = NULL
    /\ row' = Land(m, "pending", Prepared[m]) /\ Landing(m)
    /\ inflight' = inflight \cup {m}
    /\ UNCHANGED <<thread, ledger, early, enabled, now, log>>

Answered(m) == m \in inflight /\ inflight' = inflight \ {m}

Seeded(l, who, ok) ==
    IF ~l[who].known /\ Known(l) >= MaxLedger THEN l
    ELSE [l EXCEPT ![who].known = TRUE,
                   ![who].sent = IF ok THEN First(@, now) ELSE @,
                   ![who].failed = IF ok THEN @ ELSE First(@, now)]

(* complete_outgoing_send and seed_send_receipts: the one mirrored copy of   *)
(* the message goes with its ledger, the row becomes 'sent' at the upstream  *)
(* stamp, and the answer's recipients are seeded.                            *)
CompleteSend(m, ok) ==
    /\ Answered(m)
    /\ LET copies == {x \in Mirror : Twin(m, x)}
           gone == IF Cardinality(copies) = 1 THEN copies ELSE {}
       IN  /\ row' = [x \in Msg |-> CASE x = m -> [row[m] EXCEPT !.st = "sent", !.at = Upstream[m]]
                                      [] x \in gone -> NoRow
                                      [] OTHER -> row[x]]
           /\ ledger' = [x \in Msg |->
                CASE x = m -> FoldLeft(LAMBDA l, r : Seeded(l, r, r \in ok), ledger[m],
                                       SetToSeq(Members[ConvOf[m]]))
                  [] x \in gone -> [r \in Recipient |-> NoEntry]
                  [] OTHER -> ledger[x]]
    /\ UNCHANGED <<thread, early, enabled, now, log, landed>>

(* settle_send_failed keeps a row that a receipt has moved on.               *)
FailSend(m) ==
    /\ Answered(m)
    /\ row' = [row EXCEPT ![m].st = IF @ = "pending" THEN "failed" ELSE @]
    /\ UNCHANGED <<thread, ledger, early, enabled, now, log, landed>>

CompleteUnknown(m) ==
    /\ Answered(m)
    /\ row' = [row EXCEPT ![m].st = "unknown"]
    /\ UNCHANGED <<thread, ledger, early, enabled, now, log, landed>>

(* mark_remote_deleted of a landed row; its ledger stays.                    *)
RemoteDeleted(m) ==
    /\ row[m].st \notin {"none", "deleted"}
    /\ row' = [row EXCEPT ![m].st = "deleted"]
    /\ UNCHANGED <<thread, ledger, early, enabled, inflight, now, log, landed>>

Tick == now < MaxTime /\ now' = now + 1
        /\ UNCHANGED <<thread, row, ledger, early, enabled, inflight, log, landed>>

Next ==
    \/ \E who \in Recipient, ts \in Stamps, tier \in Tier : Receipt(who, ts, tier)
    \/ \E m \in Incoming : IncomingLands(m)
    \/ \E m \in Mirror : MirrorLands(m)
    \/ \E m \in Local : PrepareSend(m) \/ FailSend(m) \/ CompleteUnknown(m)
    \/ \E m \in Local : \E ok \in SUBSET Members[ConvOf[m]] : ok # {} /\ CompleteSend(m, ok)
    \/ \E m \in Msg : RemoteDeleted(m)
    \/ SetReadReceipts \/ Tick

-----------------------------------------------------------------------------
Time == 0..MaxTime \cup {NULL}

(* The type of every variable; a message's ledger never exceeds              *)
(* MAX_MESSAGE_RECEIPT_RECIPIENTS, nor the table its capacity.               *)
TypeOK ==
    /\ thread \in Threads
    /\ row \in [Msg -> [st : {"none", "pending", "sent", "delivered", "read", "failed", "unknown",
                              "deleted"},
                        at : Stamps \cup Range(Prepared) \cup {NULL}, delivered : Time, read : Time, viewed : Time]]
    /\ \A m \in Msg : Known(ledger[m]) <= MaxLedger
    /\ Len(early) <= Capacity
    /\ enabled \in BOOLEAN /\ inflight \subseteq Local /\ now \in 0..MaxTime

(* Whether a receipt had its turn with a landed row: it came after it, or it *)
(* was waiting and fresh when the row landed, the first row at its stamp.    *)
HadTurn(m, e) ==
    \/ e.no > landed[m].no
    \/ /\ e.fate = "buffered" /\ landed[m].at - e.when < TTL
       /\ ~\E x \in Range(log) : e.no \in x.lost
       /\ \A x \in Mirror : landed[x] # NULL /\ Upstream[x] = e.ts /\ e.no <= landed[x].no
                            => landed[m].nth <= landed[x].nth

Received(m, r, tier) ==
    {e \in Range(log) : e.who = r /\ e.tier = tier /\ e.ts = Upstream[m] /\ HadTurn(m, e)}

(* "A converged row is byte-identical whether its receipt arrived early or   *)
(* late" (apply_peer_receipt_event): the ledger of a mirrored row holds, for *)
(* every recipient and tier, the time of the first receipt, on whichever     *)
(* side of the landing it arrived.                                           *)
LedgerConverges ==
    \A m \in Mirror : row[m].st # "none" /\ Cardinality(Members[ConvOf[m]]) <= MaxLedger =>
        \A r \in Members[ConvOf[m]], tier \in Tier :
            LET es == Received(m, r, tier) IN
            IF es = {} THEN ledger[m][r][tier] = NULL
            ELSE ledger[m][r][tier] = (CHOOSE e \in es : \A x \in es : e.no <= x.no).when

(* The status of a mirrored row is the best tier any recipient reached:      *)
(* receipts climb in any order, and an early tier after a late one changes   *)
(* nothing. (A local send at the same stamp may share its receipts.)         *)
StatusIsBestTier ==
    thread \cap Local = {} => \A m \in Mirror : row[m].st \in {"sent", "delivered", "read"} =>
        LET Got(tiers) == \E r \in Members[ConvOf[m]], t \in tiers : Received(m, r, t) # {} IN
        row[m].st = IF Got({"read", "viewed"}) THEN "read"
                    ELSE IF Got({"delivered"}) THEN "delivered" ELSE "sent"

=============================================================================
