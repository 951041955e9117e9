------------------------------- MODULE Intake -------------------------------
(***************************************************************************)
(* The receive lane of one engine: the actor's bounded admission of an     *)
(* envelope (ReceiveIngress, engine.rs), the queue, and the persistence    *)
(* loop that stores it, retries a failing store and announces the row      *)
(* (receive_persistence_loop, supervisor.rs; ingest_receive, service.rs).  *)
(***************************************************************************)
EXTENDS Integers, Sequences, FiniteSets

CONSTANTS
    None,
    Envelope,
    Account,        \* [Envelope -> the account it is for]
    Message,        \* [Envelope -> the Signal identity of its message, or None
                    \* for one that stores nothing]
    Weight,         \* [Envelope -> estimated_bytes]
    AccountSlots,   \* RECEIVE_QUEUE_PER_ACCOUNT_CAPACITY
    AccountBytes,   \* RECEIVE_QUEUE_PER_ACCOUNT_BYTE_CAPACITY
    QueueSlots,     \* RECEIVE_QUEUE_CAPACITY
    QueueBytes,     \* RECEIVE_QUEUE_BYTE_CAPACITY
    ReceiptSlots,   \* the delivery receipt queue
    MaxLives        \* bound: restarts of the process

ASSUME IntakeAssumption ==
    /\ None \notin Envelope
    /\ Weight \in [Envelope -> Nat]
    /\ AccountSlots \in Nat /\ AccountBytes \in Nat
    /\ QueueSlots \in Nat /\ QueueBytes \in Nat
    /\ ReceiptSlots \in Nat /\ MaxLives \in Nat

VARIABLES
    coming,     \* the envelopes the engine has not delivered yet
    actor,      \* the envelope the actor is parked with, or None
    hasBytes,   \* the actor holds the global byte permit
    queue,      \* the channel
    current,    \* the envelope the persistence loop holds, or None
    degraded,   \* receive_degraded, of the actor
    failing,    \* storage_unavailable, of the loop
    told,       \* the last runtime.storageChanged state the host was told
    rows,       \* the stored messages
    unread,     \* the unread counter of the conversation
    announced,  \* ghost: [message -> MessageUpserted events]
    receipts,   \* the delivery receipt queue
    shown,      \* ghost: the delivery receipts sent, per message
    life        \* process restarts

vars == <<coming, actor, hasBytes, queue, current, degraded, failing, told,
          rows, unread, announced, receipts, shown, life>>

Messages == {Message[e] : e \in Envelope} \ {None}

(* The envelopes whose permits are out: queued, being stored, or with the  *)
(* actor.                                                                  *)
Stored == {queue[i] : i \in 1 .. Len(queue)} \cup ({current} \ {None})
Held == Stored \cup ({actor} \ {None})

WeightOf(S) ==
    LET w[T \in SUBSET S] ==
          IF T = {} THEN 0
          ELSE LET e == CHOOSE e \in T : TRUE IN Weight[e] + w[T \ {e}]
    IN w[S]

Of(S, a) == {e \in S : Account[e] = a}

Init ==
    /\ coming = Envelope
    /\ actor = None /\ hasBytes = FALSE
    /\ queue = <<>> /\ current = None
    /\ degraded = FALSE /\ failing = FALSE /\ told = "recovered"
    /\ rows = {} /\ unread = 0
    /\ announced = [m \in Messages |-> 0]
    /\ receipts = <<>> /\ shown = [m \in Messages |-> 0]
    /\ life = 0

storeVars == <<failing, rows, unread, announced, receipts, shown, life>>

-----------------------------------------------------------------------------
(* ReceiveIngress::enqueue                                                 *)

(* The account's own permits are tried without waiting.                    *)
FitsShare(e) ==
    LET mine == Of(Held, Account[e]) IN
    /\ Cardinality(mine) < AccountSlots
    /\ WeightOf(mine) + Weight[e] <= AccountBytes

(* handle_upstream_line: the envelope is dropped, the first time aloud.    *)
Dropped ==
    /\ degraded' = TRUE
    /\ told' = IF degraded THEN told ELSE "unavailable"

(* An envelope over the whole queue's bytes faults the engine: the next    *)
(* one has a new actor.                                                    *)
Oversized(e) ==
    /\ e \in coming /\ actor = None
    /\ Weight[e] > QueueBytes
    /\ coming' = coming \ {e} /\ degraded' = FALSE
    /\ UNCHANGED <<actor, hasBytes, queue, current, told, storeVars>>

(* An envelope over its account's share is dropped at once.                *)
DropOverflow(e) ==
    /\ e \in coming /\ actor = None
    /\ Weight[e] <= QueueBytes
    /\ ~FitsShare(e)
    /\ coming' = coming \ {e}
    /\ Dropped
    /\ UNCHANGED <<actor, hasBytes, queue, current, storeVars>>

TakeShare(e) ==
    /\ e \in coming /\ actor = None
    /\ Weight[e] <= QueueBytes
    /\ FitsShare(e)
    /\ coming' = coming \ {e}
    /\ actor' = e /\ hasBytes' = FALSE
    /\ UNCHANGED <<queue, current, degraded, told, storeVars>>

BytesFree == WeightOf(Stored) + Weight[actor] <= QueueBytes

TakeBytes ==
    /\ actor # None /\ ~hasBytes
    /\ BytesFree
    /\ hasBytes' = TRUE
    /\ UNCHANGED <<coming, actor, queue, current, degraded, told, storeVars>>

Enqueue ==
    /\ actor # None /\ hasBytes /\ Len(queue) < QueueSlots
    /\ queue' = Append(queue, actor)
    /\ actor' = None /\ hasBytes' = FALSE
    /\ degraded' = FALSE
    /\ told' = IF degraded THEN "recovered" ELSE told
    /\ UNCHANGED <<coming, current, storeVars>>

(* Mutant: the wait for a queue slot has no timeout.                       *)
MutEnqueueTimeout ==
    /\ actor # None
    /\ ~hasBytes /\ ~BytesFree
    /\ actor' = None /\ hasBytes' = FALSE
    /\ Dropped
    /\ UNCHANGED <<coming, queue, current, storeVars>>

(* Either global wait runs into the enqueue timeout: the envelope is       *)
(* dropped and its permits with it. What is free is taken at any deadline. *)
EnqueueTimeout ==
    /\ actor # None
    /\ IF hasBytes THEN Len(queue) >= QueueSlots ELSE ~BytesFree
    /\ actor' = None /\ hasBytes' = FALSE
    /\ Dropped
    /\ UNCHANGED <<coming, queue, current, storeVars>>

(* A new engine has a new actor; the queue is the supervisor's and stays.  *)
EngineRestart ==
    /\ actor' = None /\ hasBytes' = FALSE /\ degraded' = FALSE
    /\ UNCHANGED <<coming, queue, current, told, storeVars>>

-----------------------------------------------------------------------------
(* receive_persistence_loop                                                *)

Receive ==
    /\ current = None /\ queue # <<>>
    /\ current' = Head(queue) /\ queue' = Tail(queue)
    /\ UNCHANGED <<coming, actor, hasBytes, degraded, told, storeVars>>

Bump(f, m) == [f EXCEPT ![m] = @ + 1]

(* The envelope is done with; a store that failed before is back.          *)
Persisted ==
    /\ current' = None
    /\ failing' = FALSE
    /\ told' = IF failing THEN "recovered" ELSE told

(* ingest_receive of a message that is not stored yet: the row and the     *)
(* counter, the event, and a receipt job unless its queue is full.         *)
IngestNew ==
    LET m == Message[current] IN
    /\ current # None /\ m # None /\ m \notin rows
    /\ rows' = rows \cup {m} /\ unread' = unread + 1
    /\ announced' = Bump(announced, m)
    /\ receipts' = IF Len(receipts) < ReceiptSlots THEN Append(receipts, m) ELSE receipts
    /\ Persisted
    /\ UNCHANGED <<coming, actor, hasBytes, queue, degraded, shown, life>>

(* Mutant: a replay is announced and receipted like a landing.             *)
MutIngestReplay ==
    LET m == Message[current] IN
    /\ current # None /\ m \in rows
    /\ announced' = Bump(announced, m)
    /\ receipts' = IF Len(receipts) < ReceiptSlots THEN Append(receipts, m) ELSE receipts
    /\ Persisted
    /\ UNCHANGED <<coming, actor, hasBytes, queue, degraded, rows, unread,
                   shown, life>>

(* A replay, or the retry of an attempt that failed after its insert,      *)
(* converges silently.                                                     *)
IngestReplay ==
    /\ current # None /\ Message[current] \in rows
    /\ Persisted
    /\ UNCHANGED <<coming, actor, hasBytes, queue, degraded, rows, unread,
                   announced, receipts, shown, life>>

(* No direction, timestamp, account or peer to store it under, or a story  *)
(* reply while stories are disabled.                                       *)
IngestNothing ==
    /\ current # None /\ Message[current] = None
    /\ Persisted
    /\ UNCHANGED <<coming, actor, hasBytes, queue, degraded, rows, unread,
                   announced, receipts, shown, life>>

(* A store error; landed says that the row was inserted before a later     *)
(* statement failed.                                                       *)
StoreError(landed) ==
    /\ current # None
    /\ failing' = TRUE
    /\ told' = IF failing THEN told ELSE "unavailable"
    /\ landed => Message[current] \notin rows \cup {None}
    /\ rows' = IF landed THEN rows \cup {Message[current]} ELSE rows
    /\ unread' = IF landed THEN unread + 1 ELSE unread
    /\ UNCHANGED <<coming, actor, hasBytes, queue, degraded, announced,
                   receipts, shown, life>>

(* Mutant: a store error gives the envelope up.                            *)
MutIngestFails(landed) == StoreError(landed) /\ current' = None

(* The loop keeps the envelope and retries it.                             *)
IngestFails(landed) == StoreError(landed) /\ UNCHANGED current

(* The delivery receipt worker; a job met without an engine is dropped.    *)
SendReceipt ==
    /\ receipts # <<>>
    /\ shown' \in {shown, Bump(shown, Head(receipts))}
    /\ receipts' = Tail(receipts)
    /\ UNCHANGED <<coming, actor, hasBytes, queue, current, degraded, failing,
                   told, rows, unread, announced, life>>

(* The process ends: what waits in memory is gone.                         *)
Crash ==
    /\ life < MaxLives /\ life' = life + 1
    /\ actor' = None /\ hasBytes' = FALSE /\ queue' = <<>> /\ current' = None
    /\ receipts' = <<>> /\ degraded' = FALSE /\ failing' = FALSE
    /\ told' = "recovered"
    /\ UNCHANGED <<coming, rows, unread, announced, shown>>

Ingress ==
    \/ \E e \in Envelope : Oversized(e) \/ DropOverflow(e) \/ TakeShare(e)
    \/ TakeBytes \/ Enqueue \/ EnqueueTimeout \/ EngineRestart

Ingest ==
    \/ IngestNew \/ IngestReplay \/ IngestNothing
    \/ \E landed \in BOOLEAN : IngestFails(landed)

Next == Ingress \/ Receive \/ Ingest \/ SendReceipt \/ Crash

Spec == Init /\ [][Next]_vars

(* The actor is polled and its timers run. Nothing is asked of the loop:   *)
(* its store may be down for good.                                         *)
Fairness == WF_vars(TakeBytes) /\ WF_vars(Enqueue) /\ WF_vars(EnqueueTimeout)

FairSpec == Spec /\ Fairness

-----------------------------------------------------------------------------
(* Properties                                                              *)

(* The types of the variables.                                             *)
TypeOK ==
    /\ coming \subseteq Envelope
    /\ actor \in Envelope \cup {None} /\ hasBytes \in BOOLEAN
    /\ queue \in Seq(Envelope) /\ current \in Envelope \cup {None}
    /\ degraded \in BOOLEAN /\ failing \in BOOLEAN
    /\ told \in {"unavailable", "recovered"}
    /\ rows \subseteq Messages /\ unread \in Nat
    /\ announced \in [Messages -> Nat] /\ receipts \in Seq(Messages)
    /\ shown \in [Messages -> Nat] /\ life \in Nat

(* A message is announced, and receipted, at most once, though it may be    *)
(* delivered again and its ingest retried; its counter is bumped by the     *)
(* landing alone.                                                           *)
LandsOnce ==
    /\ unread = Cardinality(rows)
    /\ \A m \in Messages :
         /\ announced[m] <= 1 /\ (announced[m] = 1 => m \in rows)
         /\ shown[m] <= 1

Unsettled == (IF current = None THEN <<>> ELSE <<current>>) \o queue

RowsOf(e) == {Message[e]} \ {None}

Box == INSTANCE Mailbox
    WITH box <- Unsettled

(* The receive lane implements the mailbox: an admitted envelope is stored  *)
(* and released in order, a failing store is retried and never skips one.   *)
MailboxSpec == Box!Spec

(* "An unbounded wait here would park the engine actor and starve its       *)
(* command lane": the actor is always given back, even by a store that is   *)
(* down for good.                                                           *)
ActorReturns == (actor # None) ~> (actor = None)
=============================================================================
