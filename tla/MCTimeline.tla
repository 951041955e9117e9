----------------------------- MODULE MCTimeline -----------------------------
(* What reaches an account's timeline beside the message itself: the       *)
(* history import, and instances of EarlyControls (edits, deletes, polls)  *)
(* and PeerReceipts (receipts). The three share no state: focus picks one  *)
(* of them at the start and the variables of the others stay parked, so a  *)
(* run explores the sum of the three, not their product.                   *)
EXTENDS HistoryImport, TLC

CONSTANTS a1, a2, t1, t2, parked

VARIABLES row, early, now, log, landed,         \* both instances
          notice, conv, known, dropped, slips,  \* EarlyControls
          thread, receipts, enabled, inflight,  \* PeerReceipts
          focus

(* A direct thread: the account's own message, a poll, and a peer's, whose *)
(* sender is known by a protocol identity and by a number.                 *)
Names == ("ann" :> "annNumber") @@ ("annNumber" :> None)
            @@ ("me" :> "selfNumber") @@ ("selfNumber" :> None)
Sends(who) == [conv |-> "direct", ts |-> 1, author |-> who]

C == INSTANCE EarlyControls WITH
        NULL <- None, Conv <- {"direct"}, Author <- DOMAIN Names,
        Self <- "me", Stamp <- {1}, Env <- {1, 2},
        Sent <- {Sends("ann"), Sends("me")},
        Polls <- {Sends("me")}, Alias <- Names, Text <- {"new"},
        Voter <- {"voter"}, Selection <- {{0}}, Bound <- 2, MaxVotes <- 1,
        EditHistory <- 2, Capacity <- 2, TTL <- 1, MaxAge <- 1, MaxTime <- 1,
        MaxControls <- 2, faults <- slips

(* A local send, the mirrored copy of it, a mirrored send in another chat  *)
(* and a peer's message, all at one stamp: two mirrored sends in different *)
(* chats, a mirrored send beside a peer's message, a send with its copy.   *)
Chats == ("copy" :> "group") @@ ("out" :> "group") @@ ("peer" :> "group")
            @@ ("other" :> "direct")

R == INSTANCE PeerReceipts WITH
        NULL <- None, Local <- {"out"}, Mirror <- {"copy", "other"},
        Incoming <- {"peer"},
        Threads <- {{"copy", "other"}, {"copy", "peer"}, {"out", "copy"}},
        ById <- <<"copy", "other", "out", "peer">>, ConvOf <- Chats,
        Prepared <- "out" :> 2, Upstream <- [m \in DOMAIN Chats |-> 2],
        Recipient <- {"ann", "bob"},
        Members <- ("group" :> {"ann", "bob"}) @@ ("direct" :> {"ann"}),
        MaxLedger <- 2, Capacity <- 1, TTL <- 1, MaxTime <- 1,
        MaxReceipts <- 2, ledger <- receipts

ASSUME InstanceAssumption == C!SentAssumption /\ R!IdAssumption

shared == <<row, early, now, log, landed>>
controls == <<notice, conv, known, dropped, slips>>
received == <<thread, receipts, enabled, inflight>>
all == <<vars, shared, controls, received, focus>>

NoControls ==
    notice = parked /\ conv = parked /\ known = parked /\ dropped = parked
        /\ slips = parked
NoReceipts ==
    thread = parked /\ receipts = parked /\ enabled = parked
        /\ inflight = parked
NoImport ==
    /\ accounts = {} /\ gone = {} /\ staged = {} /\ archive = {}
    /\ ledger = [x \in Acct |-> None] /\ msgs = [x \in Acct |-> {}]
    /\ marks = {} /\ holder = None /\ abort = FALSE
    /\ task = [t \in Worker |-> Idle]
    /\ cancel = NoCancel /\ consult = None /\ live = None
    /\ stale = {} /\ calls = 0 /\ faults = 0

MCInit ==
    \/ /\ focus = "import" /\ Init /\ NoControls /\ NoReceipts
       /\ row = parked /\ early = parked /\ now = parked /\ log = parked
       /\ landed = parked
    \/ focus = "controls" /\ C!Init /\ NoImport /\ NoReceipts
    \/ focus = "receipts" /\ R!Init /\ NoImport /\ NoControls

Importing ==
    focus = "import" /\ Next /\ UNCHANGED <<shared, controls, received, focus>>

Controlling ==
    focus = "controls" /\ C!Next /\ UNCHANGED <<vars, received, focus>>

Receiving ==
    focus = "receipts" /\ R!Next /\ UNCHANGED <<vars, controls, focus>>

MCSpec == MCInit /\ [][Importing \/ Controlling \/ Receiving]_all

Alike == Permutations({a1, a2}) \cup Permutations({t1, t2})

(* EarlyControls!ConvergedRow: a row is the same whether its controls came *)
(* before or after it, and a poll that ends has one notice.                *)
ConvergedRow == focus = "controls" => C!ConvergedRow

(* EarlyControls!Buried: a remote-deleted message never comes back: not by *)
(* a replayed envelope, a late edit or a waiting control.                  *)
TombstoneStays == [][focus = "controls" => C!Buried]_all

(* PeerReceipts!LedgerConverges: receipts stamp a mirrored row alike on    *)
(* either side of its landing.                                             *)
LedgerConverges == focus = "receipts" => R!LedgerConverges

(* PeerReceipts!StatusIsBestTier: a mirrored row shows the best tier       *)
(* reached.                                                                *)
StatusIsBestTier == focus = "receipts" => R!StatusIsBestTier
=============================================================================
