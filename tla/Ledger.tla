------------------------------- MODULE Ledger -------------------------------
(***************************************************************************)
(* The message rows of one account and the badges kept beside them: the    *)
(* unread counter and the @ counter of every conversation, the account's   *)
(* total, and the read watermark (store.rs). Rows arrive and leave by many *)
(* hands: the receive lane, the user who opens a chat, read syncs and      *)
(* deletions from the account's other devices, the retention pass, the     *)
(* sweep of disappearing messages, and the fold of a number-keyed          *)
(* conversation into the one keyed by the peer's ACI.                      *)
(*                                                                         *)
(* Every store call is one transaction under the connection lock: it is a  *)
(* function from the database to the database. A row's id is made of the   *)
(* message and the conversation it was born in, and keeps it when moved.   *)
(* Own rows are mirrors of sends of other devices: a row whose send is     *)
(* unresolved, which retention spares, is the subject of Outbox. The       *)
(* notice a fold may leave is a system row no counter counts.              *)
(***************************************************************************)
EXTENDS Naturals, FiniteSets, FiniteSetsExt

CONSTANTS
    Id,          \* <<message, conversation of birth>>
    Conv,        \* conversations by peer key
    Shell,       \* the number-keyed conversation of a peer
    Canon,       \* the ACI-keyed conversation of the same peer
    None,
    Incoming,    \* messages of peers; the others are the account's own
    Mention,     \* incoming messages that mention the account
    Timed,       \* disappearing messages
    Once,        \* the view-once messages among them
    AtOf,        \* the sender's stamp of a message
    MaxAt,
    Named,       \* what a deletion sync may name: conversation and stamp
    Timer,       \* ticks a disappearing message is kept
    Retention,   \* ticks a row is kept
    Safety,      \* ticks the cap spares a row
    Keep,        \* rows the cap leaves a conversation
    Batch,       \* rows one retention batch may delete
    SweepCap,    \* rows one sweep may touch
    MaxTime,
    MaxLandings

VARIABLES
    db,       \* the database
    clock,
    hand,     \* the deletion sync the receive lane is working on
    prune,    \* the time the running retention pass started
    landings  \* messages received so far

vars == <<db, clock, hand, prune, landings>>

Stamp == 1..MaxAt

Database == [place : [Id -> Conv \cup {None}], held : [Id -> 0..MaxTime],
             alive : SUBSET Conv, unread : [Conv -> Nat],
             mentions : [Conv -> Nat], mark : [Conv -> 0..MaxAt],
             total : Nat, read : SUBSET Id, erased : SUBSET Id]

Zero == [c \in Conv |-> 0]

Init ==
    /\ db = [place |-> [i \in Id |-> None], held |-> [i \in Id |-> 0],
             alive |-> {}, unread |-> Zero, mentions |-> Zero, mark |-> Zero,
             total |-> 0, read |-> {}, erased |-> {}]
    /\ clock = 0
    /\ hand = None
    /\ prune = 0
    /\ landings = 0

At(i) == AtOf[i[1]]
Rows(d, c) == {i \in Id : d.place[i] = c}
Inbound(d, c) == {i \in Rows(d, c) : i[1] \in Incoming}
Sum(f, S) == MapThenSumSet(LAMBDA c : f[c], S)

(* Rows that leave take their stamps along.                                *)
Without(d, S) ==
    [d EXCEPT !.place = [i \in Id |-> IF i \in S THEN None ELSE @[i]],
              !.held = [i \in Id |-> IF i \in S THEN 0 ELSE @[i]],
              !.read = @ \ S, !.erased = @ \ S]

-----------------------------------------------------------------------------
(* Store transactions                                                      *)

EnsureConversation(d, c) == [d EXCEPT !.alive = @ \cup {c}]

(* insert_message: INSERT OR IGNORE, and the counters when a row landed.   *)
InsertMessage(d, i, c) ==
    LET new == IF i[1] \in Incoming THEN 1 ELSE 0
        at == IF i[1] \in Mention THEN 1 ELSE 0
    IN  IF d.place[i] # None THEN d
        ELSE [d EXCEPT !.place[i] = c, !.held[i] = clock,
                       !.unread[c] = @ + new, !.mentions[c] = @ + at,
                       !.total = @ + new]

ClearConversationUnread(d, c) ==
    LET prev == d.unread[c]
    IN  IF prev = 0 THEN d
        ELSE [d EXCEPT !.unread[c] = 0, !.mentions[c] = 0,
                       !.total = IF @ > prev THEN @ - prev ELSE 0]

AdvanceWatermark(d, c, t) ==
    [d EXCEPT !.mark[c] = IF t > @ THEN t ELSE @]

MutRepair(d, touched) == [d EXCEPT !.total = Sum(d.unread, d.alive)]

MutRepairTotal(d, touched) ==
    LET clamped == [c \in Conv |->
                      IF c \in touched
                      THEN Min({d.unread[c], Cardinality(Inbound(d, c))})
                      ELSE d.unread[c]]
    IN  [d EXCEPT !.unread = clamped]

(* The repair after rows left: the badge is clamped to the rows that stay, *)
(* the @ badge is not, and the total is computed again.                    *)
Repair(d, touched) ==
    LET clamped == [c \in Conv |->
                      IF c \in touched
                      THEN Min({d.unread[c], Cardinality(Inbound(d, c))})
                      ELSE d.unread[c]]
    IN  [d EXCEPT !.unread = clamped, !.total = Sum(clamped, d.alive)]

(* delete_conversation: the rows up to the bound; with drop, every row and *)
(* the conversation with them.                                             *)
DeleteConversation(d, c, bound, drop) ==
    LET gone == {i \in Rows(d, c) : drop \/ At(i) <= bound}
        left == Without(d, gone)
    IN  IF drop
        THEN Repair([left EXCEPT !.alive = @ \ {c}, !.unread[c] = 0,
                                 !.mentions[c] = 0, !.mark[c] = 0], {})
        ELSE Repair(left, {c})

(* Rows of one conversation are the same message when direction, stamp and *)
(* sender agree. The sender of an incoming direct row is the key it came   *)
(* in under; every own row has the account's.                              *)
SameMessage(i, j) == i[1] = j[1] /\ (i[1] \in Incoming => i[2] = j[2])

(* merge_peer_identity: the rows of the shell move unless the canonical    *)
(* conversation has the same message, the counters are computed again from *)
(* the canonical watermark, and the shell goes. The account is not told.   *)
MergePeerIdentity(d) ==
    LET dropped == {i \in Rows(d, Shell) :
                      \E j \in Rows(d, Canon) : SameMessage(i, j)}
        kept == Without(d, dropped)
        moved == [kept EXCEPT
                    !.place = [i \in Id |->
                                 IF @[i] = Shell THEN Canon ELSE @[i]]]
        above == {i \in Inbound(moved, Canon) : At(i) > d.mark[Canon]}
        named == {i \in above : i[1] \in Mention}
    IN  IF ~({Shell, Canon} \subseteq d.alive) THEN d
        ELSE [moved EXCEPT !.unread[Canon] = Cardinality(above),
                           !.unread[Shell] = 0,
                           !.mentions[Canon] = Cardinality(named),
                           !.mentions[Shell] = 0,
                           !.mark[Shell] = 0,
                           !.alive = @ \ {Shell}]

(* One batch of S, the longest held first.                                 *)
Oldest(d, S, n) ==
    {B \in SUBSET S : /\ Cardinality(B) = Min({n, Cardinality(S)})
                      /\ \A i \in B, j \in S \ B : d.held[i] <= d.held[j]}

(* A batch of S, and one of T with what S leaves of the n rows.            *)
Batches(d, S, T, n) ==
    {p \in (SUBSET S) \X (SUBSET T) :
        /\ p[1] \in Oldest(d, S, n)
        /\ p[2] \in Oldest(d, T, n - Cardinality(p[1]))}

Expired(d, now) ==
    {i \in Id : d.place[i] # None /\ d.held[i] + Retention < now}

(* Rows past the newest Keep of a conversation, out of the safety window.  *)
PastCap(d, now) ==
    {i \in Id : /\ d.place[i] # None
                /\ d.held[i] + Retention >= now /\ d.held[i] + Safety < now
                /\ Cardinality({j \in Rows(d, d.place[i]) :
                                  At(j) > At(i)}) >= Keep}

Touched(d, S) == {d.place[i] : i \in S}

(* prune_history: first the rows held too long, then, with what is left of *)
(* the batch, the rows past the cap.                                       *)
PruneHistory(d, now) ==
    LET out(S) ==
          [db |-> IF S = {} THEN d ELSE Repair(Without(d, S), Touched(d, S)),
           deleted |-> Cardinality(S)]
    IN  {out(p[1] \cup p[2]) :
            p \in Batches(d, Expired(d, now), PastCap(d, now), Batch)}

Due(d, i) ==
    /\ d.place[i] # None /\ i[1] \in Timed /\ i \notin d.erased
    /\ d.held[i] + Timer <= clock

MutSweepExpiredMessages(d) ==
    LET burn == {i \in Id : Due(d, i) /\ i[1] \in Once}
        gone == {i \in Id : Due(d, i) /\ i[1] \notin Once}
    IN  {Repair(Without(d, p[2]), Touched(d, p[1] \cup p[2])) :
            p \in Batches(d, burn, gone, SweepCap)}

(* sweep_expired_messages: due view-once rows are erased in place, and the *)
(* rest of the cap deletes due rows.                                       *)
SweepExpiredMessages(d) ==
    LET burn == {i \in Id : Due(d, i) /\ i[1] \in Once}
        gone == {i \in Id : Due(d, i) /\ i[1] \notin Once}
    IN  {Repair([Without(d, p[2]) EXCEPT !.erased = @ \cup p[1]],
                Touched(d, p[1] \cup p[2])) :
            p \in Batches(d, burn, gone, SweepCap)}

-----------------------------------------------------------------------------
(* Handlers                                                                *)

Lane == hand = None

(* ingest_receive of a message: a replay of a row the conversation has, or *)
(* of one that a fold moved away, is silent. A number-keyed message that   *)
(* names the peer's ACI folds the two conversations, in a transaction of   *)
(* its own that may fail after the row landed.                             *)
Receive(i) ==
    LET c == i[2]
        d == EnsureConversation(db, c)
        in == InsertMessage(d, i, c)
    IN  /\ Lane /\ landings < MaxLandings
        /\ IF \E j \in Rows(d, c) : SameMessage(i, j)
           THEN db' = d
           ELSE \/ db' = in
                \/ /\ c = Shell /\ i[1] \in Incoming /\ in # d
                   /\ db' = MergePeerIdentity(in)
        /\ landings' = landings + 1
        /\ UNCHANGED <<clock, hand, prune>>

(* A contact sync that learns the binding folds too.                       *)
ContactSync ==
    /\ Lane
    /\ db' = MergePeerIdentity(db)
    /\ UNCHANGED <<clock, hand, prune, landings>>

(* messages.list: viewing a chat clears its badge, not its watermark.      *)
OpenChat(c) ==
    /\ c \in db.alive
    /\ db' = ClearConversationUnread(db, c)
    /\ UNCHANGED <<clock, hand, prune, landings>>

(* messages.markRead and messages.syncRead: up to the newest incoming row, *)
(* or up to one named row of the conversation.                             *)
MarkRead(c) ==
    /\ c \in db.alive
    /\ \/ /\ Inbound(db, c) # {}
          /\ db' = AdvanceWatermark(db, c, Max({At(i) : i \in Inbound(db, c)}))
       \/ \E i \in Rows(db, c) : db' = AdvanceWatermark(db, c, At(i))
    /\ UNCHANGED <<clock, hand, prune, landings>>

(* A read sync from another device: the rows it names are stamped, the     *)
(* watermark follows when a stamp is new (a failure to move it is only     *)
(* logged), and the badge clears. Rows named as viewed clear it too.       *)
ReadSync(c, ts) ==
    LET rows == {i \in Inbound(db, c) : At(i) \in ts}
        d == [db EXCEPT !.read = @ \cup rows]
    IN  /\ Lane /\ c \in db.alive /\ rows # {}
        /\ \/ db' = ClearConversationUnread(d, c)
           \/ /\ ~(rows \subseteq db.read)
              /\ db' = ClearConversationUnread(
                         AdvanceWatermark(d, c, Max({At(i) : i \in rows})), c)
        /\ UNCHANGED <<clock, hand, prune, landings>>

ViewedSync(c, t) ==
    /\ Lane /\ c \in db.alive
    /\ \E i \in Inbound(db, c) : At(i) = t
    /\ db' = ClearConversationUnread(db, c)
    /\ UNCHANGED <<clock, hand, prune, landings>>

(* A delete-for-me sync that names a message of a conversation is taken.   *)
TakeDelete(c, t) ==
    /\ Lane /\ c \in db.alive
    /\ hand' = [conv |-> c, at |-> t, failed |-> FALSE]
    /\ UNCHANGED <<db, clock, prune, landings>>

(* delete_messages_by_sent_at prepares "DELETE , delete_failed FROM ...",  *)
(* which is not SQL: the call fails before it touches a row.               *)
DeleteMessagesBySentAt(d, c, t) == [ok |-> FALSE, db |-> d]

(* The lane goes on when the store took the envelope, and tries the same   *)
(* envelope again when it did not.                                         *)
DeleteForMe ==
    LET out == DeleteMessagesBySentAt(db, hand.conv, hand.at)
    IN  /\ ~Lane
        /\ db' = out.db
        /\ hand' = IF out.ok THEN None ELSE [hand EXCEPT !.failed = TRUE]
        /\ UNCHANGED <<clock, prune, landings>>

(* A delete-for-me sync of a whole conversation, bounded by t, the newest  *)
(* anchor it has a row for. Anchors without a row delete nothing.          *)
DeleteConversationSync(c, t, full) ==
    /\ Lane /\ c \in db.alive
    /\ \E i \in Rows(db, c) : At(i) = t
    /\ db' = DeleteConversation(db, c, t, full)
    /\ UNCHANGED <<clock, hand, prune, landings>>

(* The arm for conversations no other device knows takes everything.       *)
DeleteLocalOnly(c) ==
    /\ Lane /\ c \in db.alive
    /\ db' = DeleteConversation(db, c, MaxAt, TRUE)
    /\ UNCHANGED <<clock, hand, prune, landings>>

(* The retention task reads the time once, when the process starts, and    *)
(* ends with the first batch that is not full.                             *)
RetentionBatch ==
    /\ prune # None
    /\ \E out \in PruneHistory(db, prune) :
          /\ db' = out.db
          /\ prune' = IF out.deleted < Batch THEN None ELSE prune
    /\ UNCHANGED <<clock, hand, landings>>

(* The sweeper runs for ever, and computes the account's total every time. *)
Sweep ==
    /\ db' \in SweepExpiredMessages(db)
    /\ UNCHANGED <<clock, hand, prune, landings>>

(* The process stops anywhere and starts again: what the lane had in hand  *)
(* is gone, what the store committed is not.                               *)
Restart ==
    /\ hand' = None
    /\ prune' = clock
    /\ UNCHANGED <<db, clock, landings>>

Tick ==
    /\ clock < MaxTime
    /\ clock' = clock + 1
    /\ UNCHANGED <<db, hand, prune, landings>>

Next ==
    \/ \E i \in Id : Receive(i)
    \/ ContactSync
    \/ \E c \in Conv : OpenChat(c) \/ MarkRead(c) \/ DeleteLocalOnly(c)
    \/ \E c \in Conv, ts \in SUBSET Stamp : ReadSync(c, ts)
    \/ \E c \in Conv, t \in Stamp : ViewedSync(c, t)
    \/ \E e \in Named : TakeDelete(e.conv, e.at)
    \/ DeleteForMe
    \/ \E c \in Conv, t \in Stamp, full \in BOOLEAN :
          DeleteConversationSync(c, t, full)
    \/ RetentionBatch
    \/ Sweep
    \/ Restart
    \/ Tick

Spec == Init /\ [][Next]_vars

-----------------------------------------------------------------------------
TypeOK ==
    /\ db \in Database
    /\ clock \in 0..MaxTime
    /\ hand \in {None} \cup [conv : Conv, at : Stamp, failed : BOOLEAN]
    /\ prune \in {None} \cup 0..MaxTime
    /\ landings \in 0..MaxLandings

(* The unread badge never promises more mail than the conversation holds,  *)
(* whoever removed rows, folded conversations or cleared badges in between *)
(* (the repair of prune_history and its copies).                           *)
BadgeBacked == \A c \in Conv : db.unread[c] <= Cardinality(Inbound(db, c))

(* The account's total is again and again the sum of its conversations'    *)
(* badges: a fold leaves it wrong, the next sweep sets it right.           *)
TotalHeals == []<>(db.total = Sum(db.unread, Conv))

(* A disappearing message whose time has come leaves or is erased, also    *)
(* when view-once rows take the whole of a sweep and when a fold moves it. *)
DueRowLeaves ==
    \A i \in {j \in Id : j[1] \in Timed} : []<>(~Due(db, i))

(* "Remove the rows one delete-for-me sync names in one conversation": the *)
(* rows a taken sync names go, unless the process stopped.                 *)
NamedRowsGo ==
    \A e \in Named :
        (hand # None /\ hand.conv = e.conv /\ hand.at = e.at)
            ~> hand = None \/ \A i \in Rows(db, e.conv) : At(i) # e.at

=============================================================================
