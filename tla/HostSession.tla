---------------------------- MODULE HostSession ----------------------------
(***************************************************************************)
(* The one authenticated host session (run_host_session, host.rs): the     *)
(* admission budget, the account mutex with its delete barrier, the        *)
(* dispatch lanes, the stall budget, the bounded write queue and the       *)
(* teardown. A request is known by the frame that carries it.              *)
(***************************************************************************)
EXTENDS Integers, Sequences, FiniteSets, Functions

CONSTANTS
    None,
    Frame,          \* request frames
    Scenes,         \* the sets of frames that hosts send
    Id,             \* [Frame -> request id]
    Kind,           \* [Frame -> {"send", "delete", "read", "list", "link", "finish"}]
    Account,        \* [Frame -> account or None]
    RecentIds,      \* RECENT_REQUEST_IDS
    MaxPending, MaxPerAccount,
    LaneCapacity,   \* [{"control", "read", "send"} -> per account]
    GlobalCapacity, \* [{"control", "read", "send"} -> connector-wide]
    QueueCapacity,  \* HOST_WRITE_QUEUE_CAPACITY
    MaxEvents       \* bound: events forwarded

Accounts == {Account[f] : f \in Frame} \ {None}

ASSUME HostAssumption ==
    /\ IsFiniteSet(Frame) /\ Scenes \subseteq SUBSET Frame
    /\ Kind \in [Frame -> {"send", "delete", "read", "list", "link", "finish"}]
    /\ \A f \in Frame : Kind[f] \in {"send", "delete"} => Account[f] # None
    /\ RecentIds \in Nat \ {0} /\ QueueCapacity \in Nat \ {0}
    /\ MaxPending \in Nat /\ MaxPerAccount \in Nat /\ MaxEvents \in Nat

VARIABLES
    stage,      \* "challenge", "open", "teardown", "drain", "closed", "exited"
    scene,      \* the frames this host sends
    state,      \* [Frame -> where the dispatch of the frame is]
    deleting,   \* [account -> marks of deleting_accounts]
    total,      \* HostPendingBudget.total
    byAccount,  \* HostPendingBudget.by_account
    recent,     \* RecentRequestIds.order
    queue,      \* the write queue: frames answered, None for an event
    writer,     \* "up", "failed" or "gone"
    events,     \* events forwarded so far
    engine,     \* the runtime is up
    exists,     \* the accounts that have a row
    sent,       \* ghost: sends handed to the engine
    answers     \* ghost: [Frame -> answers put on the queue or dropped]

vars == <<stage, scene, state, deleting, total, byAccount, recent, queue, writer,
          events, engine, exists, sent, answers>>

Idle == {"new", "over", "lost"}
Acquiring == {"admitted", "lock", "lane", "global"}
Running == {"prepare", "engine", "settle"}

InFlight == {f \in Frame : state[f] \notin Idle}

(* methods::METHODS: the lane of a method, and the mutating ones.          *)
Lane(f) ==
    CASE Kind[f] = "send" -> "send"
      [] Kind[f] = "read" -> "read"
      [] OTHER -> "control"

Mutating(f) == Kind[f] \in {"send", "delete"}

StallExempt(f) == Kind[f] \in {"link", "finish"}

Init ==
    /\ stage = "challenge" /\ scene \in Scenes
    /\ state = [f \in Frame |-> "new"]
    /\ deleting = [a \in Accounts |-> 0]
    /\ total = 0 /\ byAccount = [a \in Accounts |-> 0]
    /\ recent = <<>> /\ queue = <<>> /\ writer = "up" /\ events = 0
    /\ engine = TRUE /\ exists = Accounts /\ sent = {}
    /\ answers = [f \in Frame |-> 0]

-----------------------------------------------------------------------------
(* The write queue                                                         *)

(* enqueue_frame: a full queue drops the frame, a closed one says so.      *)
Enqueue(x) ==
    queue' = IF writer = "up" /\ Len(queue) < QueueCapacity
               THEN Append(queue, x) ELSE queue

(* run_host_writer writes the frames in order.                             *)
WriterWrites ==
    /\ writer = "up" /\ queue # <<>>
    /\ queue' = Tail(queue)
    /\ UNCHANGED <<stage, state, deleting, total, byAccount, recent, writer,
                   events, engine, exists, sent, answers>>

(* Its first failure drops the receiving end of the queue.                 *)
WriterFails ==
    /\ stage # "challenge" /\ writer = "up"
    /\ writer' = "failed" /\ queue' = <<>>
    /\ UNCHANGED <<stage, state, deleting, total, byAccount, recent, events,
                   engine, exists, sent, answers>>

-----------------------------------------------------------------------------
(* Admission                                                               *)

(* RecentRequestIds::insert.                                               *)
Remember(id) ==
    Append(IF Len(recent) = RecentIds THEN Tail(recent) ELSE recent, id)

(* HostPendingBudget::try_admit.                                           *)
HasRoom(f) ==
    /\ total < MaxPending
    /\ Account[f] # None => byAccount[Account[f]] < MaxPerAccount

(* Mutant: an answer dropped by a full queue keeps its slot.               *)
MutComplete(f) ==
    LET n == IF Len(queue) = QueueCapacity THEN 0 ELSE 1 IN
    /\ total' = total - n
    /\ byAccount' = IF Account[f] = None THEN byAccount
                    ELSE [byAccount EXCEPT ![Account[f]] = @ - n]

(* HostPendingBudget::complete.                                            *)
Complete(f) ==
    /\ total' = total - 1
    /\ byAccount' = IF Account[f] = None THEN byAccount
                    ELSE [byAccount EXCEPT ![Account[f]] = @ - 1]

(* An answer given before admission; a closed queue ends the session.      *)
Refuse(f) ==
    /\ Enqueue(f)
    /\ answers' = [answers EXCEPT ![f] = @ + 1]
    /\ state' = [state EXCEPT ![f] = "over"]
    /\ stage' = IF writer = "up" THEN stage ELSE "teardown"
    /\ UNCHANGED <<deleting, total, byAccount, writer, events, engine, exists,
                   sent>>

(* handle_connection: the peer authenticates and learns its session.       *)
Handshake ==
    /\ stage = "challenge" /\ stage' = "open"
    /\ UNCHANGED <<state, deleting, total, byAccount, recent, queue, writer,
                   events, engine, exists, sent, answers>>

Replayed(f) ==
    /\ stage = "open" /\ state[f] = "new" /\ Id[f] \in Range(recent)
    /\ Refuse(f)
    /\ UNCHANGED recent

OverCapacity(f) ==
    /\ stage = "open" /\ state[f] = "new" /\ Id[f] \notin Range(recent)
    /\ ~HasRoom(f)
    /\ recent' = Remember(Id[f])
    /\ Refuse(f)

Admit(f) ==
    /\ stage = "open" /\ state[f] = "new" /\ Id[f] \notin Range(recent)
    /\ HasRoom(f)
    /\ recent' = Remember(Id[f])
    /\ state' = [state EXCEPT ![f] = "admitted"]
    /\ total' = total + 1
    /\ byAccount' = IF Account[f] = None THEN byAccount
                    ELSE [byAccount EXCEPT ![Account[f]] = @ + 1]
    /\ UNCHANGED <<stage, deleting, queue, writer, events, engine, exists,
                   sent, answers>>

-----------------------------------------------------------------------------
(* The dispatch of one admitted request. Its future is polled by the       *)
(* session loop and by the drain, not while the runtime shuts down.        *)

Polled == stage \in {"open", "drain"}

Goto(f, s) ==
    /\ state' = [state EXCEPT ![f] = s]
    /\ UNCHANGED <<stage, total, byAccount, recent, queue, writer, events,
                   engine, answers>>

Unmark(f) ==
    IF Kind[f] = "delete" /\ state[f] # "admitted"
      THEN [deleting EXCEPT ![Account[f]] = @ - 1] ELSE deleting

(* The permit is dropped with the dispatch, the answer enters the queue    *)
(* and the completion returns the budget; a closed queue ends the session. *)
Answer(f) ==
    /\ Enqueue(f)
    /\ answers' = [answers EXCEPT ![f] = @ + 1]
    /\ state' = [state EXCEPT ![f] = "over"]
    /\ deleting' = Unmark(f)
    /\ Complete(f)
    /\ stage' = IF stage = "open" /\ writer # "up" THEN "teardown" ELSE stage
    /\ UNCHANGED <<recent, writer, events, engine, sent>>

(* HostDispatchLimits::acquire, up to its first wait: a delete marks the   *)
(* account, other mutating work is refused while the mark stands.          *)
BeginDelete(f) ==
    /\ Polled /\ state[f] = "admitted" /\ Kind[f] = "delete"
    /\ deleting' = [deleting EXCEPT ![Account[f]] = @ + 1]
    /\ Goto(f, "lock") /\ UNCHANGED <<exists, sent>>

BeginSend(f) ==
    /\ Polled /\ state[f] = "admitted" /\ Kind[f] = "send"
    /\ IF deleting[Account[f]] > 0
         THEN Answer(f) /\ UNCHANGED exists
         ELSE Goto(f, "lock") /\ UNCHANGED <<deleting, exists, sent>>

(* link.finish takes the lane of its group, or is refused at once.         *)
BeginFinish(f) ==
    /\ Polled /\ state[f] = "admitted" /\ Kind[f] = "finish"
    /\ IF \E g \in Frame : Kind[g] = "finish" /\ state[g] \in Running
         THEN Answer(f) /\ UNCHANGED exists
         ELSE Goto(f, "engine") /\ UNCHANGED <<deleting, exists, sent>>

BeginOther(f) ==
    /\ Polled /\ state[f] = "admitted" /\ Kind[f] \in {"read", "list", "link"}
    /\ Goto(f, "lane") /\ UNCHANGED <<deleting, exists, sent>>

HoldsLock(f) == Mutating(f) /\ state[f] \in {"lane", "global"} \cup Running

HoldsLane(f) == Kind[f] # "finish" /\ state[f] \in {"global"} \cup Running

HoldsGlobal(f) == Kind[f] # "finish" /\ state[f] \in Running

(* Mutant: the account mutex is not waited for.                            *)
MutTakeLock(f) ==
    /\ Polled /\ state[f] = "lock"
    /\ Goto(f, "lane") /\ UNCHANGED <<deleting, exists, sent>>

(* The account mutex.                                                      *)
TakeLock(f) ==
    /\ Polled /\ state[f] = "lock"
    /\ ~\E g \in Frame : HoldsLock(g) /\ Account[g] = Account[f]
    /\ Goto(f, "lane") /\ UNCHANGED <<deleting, exists, sent>>

(* The lane of the account, or of the requests without one.                *)
TakeLane(f) ==
    /\ Polled /\ state[f] = "lane"
    /\ Cardinality({g \in Frame : HoldsLane(g) /\ Account[g] = Account[f]
                                    /\ Lane(g) = Lane(f)}) < LaneCapacity[Lane(f)]
    /\ Goto(f, "global") /\ UNCHANGED <<deleting, exists, sent>>

(* The connector-wide backstop of the lane; then the dispatch begins.      *)
TakeGlobal(f) ==
    /\ Polled /\ state[f] = "global"
    /\ Cardinality({g \in Frame : HoldsGlobal(g) /\ Lane(g) = Lane(f)})
         < GlobalCapacity[Lane(f)]
    /\ Goto(f, IF Kind[f] = "send" THEN "prepare" ELSE "engine")
    /\ UNCHANGED <<deleting, exists, sent>>

(* A send looks its account up and inserts its pending row.                *)
Prepare(f) ==
    /\ Polled /\ state[f] = "prepare"
    /\ IF Account[f] \in exists
         THEN Goto(f, "engine") /\ UNCHANGED <<deleting, exists, sent>>
         ELSE Answer(f) /\ UNCHANGED exists

(* The engine call of a mutating request, made or refused by a runtime     *)
(* that is down.                                                           *)
Upstream(f) ==
    /\ Polled /\ state[f] = "engine" /\ Mutating(f)
    /\ Goto(f, "settle")
    /\ sent' = IF engine /\ Kind[f] = "send" THEN sent \cup {f} ELSE sent
    /\ UNCHANGED <<deleting, exists>>

(* The result is stored: a send's row is settled, a delete's rows go.      *)
Settle(f) ==
    /\ Polled /\ state[f] = "settle"
    /\ Answer(f)
    /\ exists' = IF Kind[f] = "delete" THEN exists \ {Account[f]} ELSE exists

Read(f) ==
    /\ Polled /\ state[f] = "engine" /\ ~Mutating(f)
    /\ Answer(f) /\ UNCHANGED exists

(* Mutant: only the dispatch is bounded, not the wait for its permit.      *)
MutStall(f) ==
    /\ Polled /\ ~StallExempt(f) /\ state[f] \in Running
    /\ Answer(f) /\ UNCHANGED exists

(* Mutant: the stalled dispatch is answered but not abandoned.             *)
MutStallKeeps(f) ==
    /\ Polled /\ ~StallExempt(f) /\ state[f] \in Running
    /\ Enqueue(f) /\ answers' = [answers EXCEPT ![f] = @ + 1]
    /\ UNCHANGED <<stage, state, deleting, total, byAccount, recent, writer,
                   events, engine, exists, sent>>

(* acquire_within_stall_budget and dispatch_within_stall_budget: the wait  *)
(* for the permit and the dispatch end with the deadline answer.           *)
Stall(f) ==
    /\ Polled /\ ~StallExempt(f) /\ state[f] \in Acquiring \cup Running
    /\ Answer(f) /\ UNCHANGED exists

-----------------------------------------------------------------------------
(* The end of the session                                                  *)

(* The host leaves, breaks the framing, or the process is interrupted.     *)
HostLeaves ==
    /\ stage = "open" /\ stage' = "teardown"
    /\ UNCHANGED <<state, deleting, total, byAccount, recent, queue, writer,
                   events, engine, exists, sent, answers>>

WriterFailureSeen ==
    /\ stage = "open" /\ writer = "failed"
    /\ writer' = "gone" /\ stage' = "teardown"
    /\ UNCHANGED <<state, deleting, total, byAccount, recent, queue, events,
                   engine, exists, sent, answers>>

Drop == [f \in Frame |-> IF f \in InFlight THEN "lost" ELSE state[f]]

(* An event is forwarded; when the queue is closed the session function    *)
(* returns at once, past its own teardown.                                 *)
ForwardEvent ==
    /\ stage = "open" /\ events < MaxEvents
    /\ events' = events + 1
    /\ Enqueue(None)
    /\ IF writer = "up" THEN UNCHANGED <<stage, state>>
       ELSE stage' = "closed" /\ state' = Drop
    /\ UNCHANGED <<deleting, total, byAccount, recent, writer, engine, exists,
                   sent, answers>>

(* runtime.shutdown, or its budget, ends.                                  *)
Teardown ==
    /\ stage = "teardown" /\ stage' = "drain"
    /\ engine' \in {FALSE, engine}
    /\ UNCHANGED <<state, deleting, total, byAccount, recent, queue, writer,
                   events, exists, sent, answers>>

(* Every dispatch is drained, or the drain budget drops the rest.          *)
DrainEnds ==
    /\ stage = "drain" /\ stage' = "closed"
    /\ state' = Drop
    /\ UNCHANGED <<deleting, total, byAccount, recent, queue, writer, events,
                   engine, exists, sent, answers>>

(* serve shuts the runtime down once more and returns.                     *)
ServeReturns ==
    /\ stage = "closed" /\ stage' = "exited"
    /\ engine' \in {FALSE, engine}
    /\ UNCHANGED <<state, deleting, total, byAccount, recent, queue, writer,
                   events, exists, sent, answers>>

-----------------------------------------------------------------------------

Dispatch(f) ==
    \/ BeginDelete(f) \/ BeginSend(f) \/ BeginFinish(f) \/ BeginOther(f)
    \/ TakeLock(f) \/ TakeLane(f) \/ TakeGlobal(f)
    \/ Prepare(f) \/ Upstream(f) \/ Settle(f) \/ Read(f) \/ Stall(f)

Step ==
    \/ Handshake \/ HostLeaves \/ WriterFails \/ WriterFailureSeen \/ ForwardEvent
    \/ Teardown \/ DrainEnds \/ ServeReturns \/ WriterWrites
    \/ \E f \in scene :
         \/ Replayed(f) \/ OverCapacity(f) \/ Admit(f)
         \/ Dispatch(f)

Next == Step /\ UNCHANGED scene

Spec == Init /\ [][Next]_vars

(* The stall timers run, the session loop polls, teardown is bounded. A    *)
(* dispatch itself may wedge for ever.                                     *)
Fairness ==
    /\ WF_vars((Teardown \/ DrainEnds \/ ServeReturns) /\ UNCHANGED scene)
    /\ WF_vars(WriterFailureSeen /\ UNCHANGED scene)
    /\ \A f \in Frame : WF_vars(Stall(f) /\ UNCHANGED scene)

FairSpec == Spec /\ Fairness

-----------------------------------------------------------------------------
(* Properties                                                              *)

(* "A sent upstream but locally rowless message is therefore impossible"    *)
(* (HostDispatchLimits::acquire): no send reaches the engine once a delete  *)
(* has removed its account, whatever raced past the mark, waited behind the *)
(* delete or was abandoned by the stall budget on the way.                  *)
SendSeesItsAccount ==
    [][\A f \in sent' \ sent : Account[f] \in exists]_vars

(* The budget counts exactly the dispatches in flight, also when answers    *)
(* are dropped by a full queue or dispatches abandoned ("a response drop    *)
(* still releases its pending-budget slot"): no capacity leaks for ever.    *)
BudgetIsExact ==
    stage \in {"open", "drain"} =>
        /\ total = Cardinality(InFlight)
        /\ \A a \in Accounts :
             byAccount[a] = Cardinality({f \in InFlight : Account[f] = a})

(* A request is answered at most once: a deadline answer is final.          *)
AnsweredOnce == \A f \in Frame : answers[f] <= 1

(* "An admitted request must be answered within the stall budget": even     *)
(* behind a dispatch that never returns and holds its lane, every admitted  *)
(* request but the link waits is answered, unless the session ends first.   *)
AdmittedIsAnswered ==
    \A f \in Frame :
        ~StallExempt(f) => []<>(state[f] \in {"new", "over"} \/ stage = "exited")
=============================================================================
