----------------------------- MODULE EngineActor -----------------------------
(***************************************************************************)
(* One engine process behind its EngineHandle (src/engine.rs): the callers' *)
(* request/response calls, the actor's command queue and pending map, the   *)
(* stdin writer, the stdout line queue, the terminal drain, and shutdown.   *)
(* The child process itself is external: it reads frames, answers them in   *)
(* any order or not at all, emits notifications, and may die at any time.   *)
(***************************************************************************)
EXTENDS Naturals, Sequences, FiniteSets

CONSTANTS
    Call,          \* call ids ("kt-<n>"), one per call_with_timeout
    Mutating,      \* the calls of CallClass::Mutating; the others are ReadOnly
    CmdCap,        \* COMMAND_QUEUE_CAPACITY
    WriteCap,      \* STDIN_WRITE_QUEUE_CAPACITY
    LineCap,       \* STDOUT_LINE_QUEUE_CAPACITY
    MaxPending,    \* MAX_PENDING_UPSTREAM_REQUESTS
    MaxNotices     \* bound on the notifications and stray lines the child emits

ASSUME CallAssumption == Mutating \subseteq Call
ASSUME CapAssumption == {CmdCap, WriteCap, LineCap, MaxPending, MaxNotices} \subseteq Nat

VARIABLES
    caller,    \* per call: "idle", "waiting", or what the caller was told
    cmdq,      \* the command queue: requests, cancels, the shutdown
    cancels,   \* cancel tasks still waiting for room in the queue
    actor,     \* "select", "parked", "stopping", "reaping", "publish", "drain", "done"
    term,      \* terminal state the actor is heading for
    status,    \* the published EngineState
    pending,   \* calls registered in the pending map
    writeq,    \* encoded frames not yet written
    writer,    \* "run", "failed", "aborted"
    child,     \* "alive", "killed", "dead"
    got,       \* history: calls whose frame the child has read
    inbox,     \* of these, the ones it has not answered
    lines,     \* the stdout line queue
    notices,   \* stray lines emitted so far (bound)
    lock,      \* holder of the child mutex: "none", "actor", "stopper"
    stopper,   \* shutdown(): "idle", "sending", "waiting", "killing", "returned"; "gone"
    overdue    \* the shutdown was not taken within SHUTDOWN_TIMEOUT_MARGIN

queueVars == <<cmdq, cancels>>
actorVars == <<actor, term, status, pending>>
pipeVars == <<writeq, writer>>
childVars == <<child, got, inbox, lines, notices>>
stopVars == <<lock, stopper, overdue>>
vars == <<caller, queueVars, actorVars, pipeVars, childVars, stopVars>>

Request(c) == [t |-> "request", id |-> c]
Cancel(c) == [t |-> "cancel", id |-> c]
Shutdown == [t |-> "shutdown"]
Response(c, kind) == [t |-> "response", id |-> c, kind |-> kind]
Notice(kind) == [t |-> kind]

Terminal == {"Stopped", "Exited", "Faulted"}
Holds(q, x) == \E i \in DOMAIN q : q[i] = x
Queued == {c \in Call : Holds(cmdq, Request(c))}
Cancelled == {c \in Call : Holds(cmdq, Cancel(c))}
Frames == {c \in Call : Holds(writeq, c)}

(* What a call of this class is told when its outcome cannot be known.      *)
ClassFailure(c, failure) == IF c \in Mutating THEN "unknown" ELSE failure

(* The oneshot reaches a caller that still waits; otherwise it is dropped.  *)
Tell(c, answer) == [caller EXCEPT ![c] = IF @ = "waiting" THEN answer ELSE @]

Init ==
    /\ caller = [c \in Call |-> "idle"]
    /\ cmdq = <<>> /\ cancels = {}
    /\ actor = "select" /\ term = "Running" /\ status = "Running" /\ pending = {}
    /\ writeq = <<>> /\ writer = "run"
    /\ child = "alive" /\ got = {} /\ inbox = {} /\ lines = <<>> /\ notices = 0
    /\ lock = "none" /\ stopper = "idle" /\ overdue = FALSE

-----------------------------------------------------------------------------
(* Callers.                                                                *)

(* dispatch_call: terminal or closed is NotRunning, a full queue is         *)
(* Backpressure, otherwise the request is queued and the caller waits.      *)
DispatchCall(c) ==
    /\ caller[c] = "idle"
    /\ LET refusal == IF status \in Terminal \/ actor = "done" THEN "notRunning"
                      ELSE IF Len(cmdq) >= CmdCap THEN "backpressure" ELSE "waiting"
       IN  /\ caller' = [caller EXCEPT ![c] = refusal]
           /\ cmdq' = IF refusal = "waiting" THEN Append(cmdq, Request(c)) ELSE cmdq
    /\ UNCHANGED <<cancels, actorVars, pipeVars, childVars, stopVars>>

(* The request timeout, or call_with_timeout_or_cancel's cancellation: the  *)
(* caller leaves, and a task is spawned to deliver the Cancel.              *)
MutLeave(c, told) ==
    /\ caller[c] = "waiting"
    /\ caller' = [caller EXCEPT ![c] = told]
    /\ cancels' = cancels
    /\ UNCHANGED <<cmdq, actorVars, pipeVars, childVars, stopVars>>

Leave(c, told) ==
    /\ caller[c] = "waiting"
    /\ caller' = [caller EXCEPT ![c] = told]
    /\ cancels' = cancels \cup {c}
    /\ UNCHANGED <<cmdq, actorVars, pipeVars, childVars, stopVars>>

CallTimeout(c) == Leave(c, ClassFailure(c, "timeout"))

CallAbandoned(c) == Leave(c, "abandoned")

MutSendCancel(c) ==
    /\ c \in cancels
    /\ cancels' = cancels \ {c}
    /\ cmdq' = IF actor = "done" \/ Len(cmdq) >= CmdCap THEN cmdq ELSE Append(cmdq, Cancel(c))
    /\ UNCHANGED <<caller, actorVars, pipeVars, childVars, stopVars>>

(* The cancel task waits for room; a closed queue ends it.                  *)
SendCancel(c) ==
    /\ c \in cancels
    /\ actor = "done" \/ Len(cmdq) < CmdCap
    /\ cancels' = cancels \ {c}
    /\ cmdq' = IF actor = "done" THEN cmdq ELSE Append(cmdq, Cancel(c))
    /\ UNCHANGED <<caller, actorVars, pipeVars, childVars, stopVars>>

-----------------------------------------------------------------------------
(* The actor's select loop.                                                *)

HeadIs(t) == actor = "select" /\ cmdq # <<>> /\ Head(cmdq).t = t

(* The loop breaks towards a terminal state; the writer is aborted with     *)
(* whatever it has not written.                                             *)
Break(state) == actor' = "stopping" /\ term' = state /\ writer' = "aborted"

(* A request: refused at the pending cap or at a full writer queue, fatal   *)
(* when the writer is gone, otherwise framed and registered.                *)
TakeRequest ==
    /\ HeadIs("request")
    /\ LET c == Head(cmdq).id
           full == Cardinality(pending) >= MaxPending \/ (writer = "run" /\ Len(writeq) >= WriteCap)
       IN  /\ cmdq' = Tail(cmdq)
           /\ \/ /\ full
                 /\ caller' = Tell(c, "backpressure")
                 /\ UNCHANGED <<actor, term, pending, writeq, writer>>
              \/ /\ ~full /\ writer # "run"
                 /\ caller' = Tell(c, ClassFailure(c, "exited"))
                 /\ Break("Exited")
                 /\ UNCHANGED <<pending, writeq>>
              \/ /\ ~full /\ writer = "run"
                 /\ writeq' = Append(writeq, c)
                 /\ pending' = pending \cup {c}
                 /\ UNCHANGED <<caller, actor, term, writer>>
    /\ UNCHANGED <<cancels, status, childVars, stopVars>>

TakeCancel ==
    /\ HeadIs("cancel")
    /\ pending' = pending \ {Head(cmdq).id}
    /\ cmdq' = Tail(cmdq)
    /\ UNCHANGED <<caller, cancels, actor, term, status, pipeVars, childVars, stopVars>>

TakeShutdown ==
    /\ HeadIs("shutdown")
    /\ cmdq' = Tail(cmdq)
    /\ Break("Stopped")
    /\ UNCHANGED <<caller, cancels, status, pending, writeq, childVars, stopVars>>

(* Every handle is gone: nobody waits and nothing is queued.                *)
HandlesDropped ==
    /\ actor = "select" /\ cmdq = <<>> /\ cancels = {}
    /\ stopper \in {"idle", "returned"}
    /\ \A c \in Call : caller[c] \notin {"idle", "waiting"}
    /\ stopper' = "gone"
    /\ Break("Stopped")
    /\ UNCHANGED <<caller, queueVars, status, pending, writeq, childVars, lock, overdue>>

WriterReport ==
    /\ actor = "select" /\ writer = "failed"
    /\ Break("Exited")
    /\ UNCHANGED <<caller, queueVars, status, pending, writeq, childVars, stopVars>>

(* handle_upstream_line.  An answer reaches its pending call ...           *)
LineIs(t) == actor = "select" /\ lines # <<>> /\ Head(lines).t = t

TakeLine == lines' = Tail(lines) /\ UNCHANGED <<queueVars, status, writeq, child, got, inbox,
                                               notices, stopVars>>

MutTakeAnswer ==
    /\ LineIs("response") /\ Head(lines).kind # "malformed"
    /\ \E c \in pending : /\ caller' = Tell(c, Head(lines).kind)
                          /\ pending' = pending \ {c}
    /\ TakeLine /\ UNCHANGED <<actor, term, writer>>

TakeAnswer ==
    /\ LineIs("response") /\ Head(lines).id \in pending /\ Head(lines).kind # "malformed"
    /\ caller' = Tell(Head(lines).id, Head(lines).kind)
    /\ pending' = pending \ {Head(lines).id}
    /\ TakeLine /\ UNCHANGED <<actor, term, writer>>

(* ... an answer with neither or both of result and error fails its call    *)
(* and faults the engine, as an unframeable line does ...                   *)
TakeMalformed ==
    /\ LineIs("response") /\ Head(lines).id \in pending /\ Head(lines).kind = "malformed"
    /\ caller' = Tell(Head(lines).id, ClassFailure(Head(lines).id, "protocol"))
    /\ pending' = pending \ {Head(lines).id}
    /\ TakeLine /\ Break("Faulted")

TakeUnframed ==
    /\ LineIs("unframed")
    /\ TakeLine /\ Break("Faulted") /\ UNCHANGED <<caller, pending>>

(* ... a response nobody waits for, and a line without an id, are warnings. *)
TakeStray ==
    /\ LineIs("noid") \/ (LineIs("response") /\ Head(lines).id \notin pending)
    /\ TakeLine /\ UNCHANGED <<caller, pending, actor, term, writer>>

(* A receive may park the actor at the ingress queue.                       *)
TakeReceive ==
    /\ LineIs("receive")
    /\ actor' \in {"select", "parked"}
    /\ TakeLine /\ UNCHANGED <<caller, pending, term, writer>>

(* The ingress admits or drops the receive within its timeouts; a closed    *)
(* persistence queue faults the engine.                                     *)
Unpark(ok) ==
    /\ actor = "parked"
    /\ IF ok THEN actor' = "select" /\ UNCHANGED <<term, writer>> ELSE Break("Faulted")
    /\ UNCHANGED <<caller, queueVars, status, pending, writeq, childVars, stopVars>>

EndOfOutput ==
    /\ actor = "select" /\ child = "dead" /\ lines = <<>>
    /\ Break("Exited")
    /\ UNCHANGED <<caller, queueVars, status, pending, writeq, childVars, stopVars>>

-----------------------------------------------------------------------------
(* The terminal path: stop_child, then publish, drain and close.           *)

(* stop_child takes the child mutex and holds it until the child is reaped. *)
StopChild ==
    /\ actor = "stopping" /\ lock = "none"
    /\ lock' = "actor" /\ actor' = "reaping"
    /\ UNCHANGED <<caller, queueVars, term, status, pending, pipeVars, childVars, stopper, overdue>>

MutGraceKill ==
    /\ actor = "reaping" /\ child = "alive" /\ stopper = "returned"
    /\ child' = "killed"
    /\ UNCHANGED <<caller, queueVars, actorVars, pipeVars, got, inbox, lines, notices, stopVars>>

GraceKill ==
    /\ actor = "reaping" /\ child = "alive"
    /\ child' = "killed"
    /\ UNCHANGED <<caller, queueVars, actorVars, pipeVars, got, inbox, lines, notices, stopVars>>

(* The shutdown response is sent before the status is published.            *)
Reaped ==
    /\ actor = "reaping" /\ child = "dead"
    /\ lock' = "none" /\ actor' = "publish"
    /\ stopper' = IF stopper = "waiting" /\ term = "Stopped" THEN "returned" ELSE stopper
    /\ UNCHANGED <<caller, queueVars, term, status, pending, pipeVars, childVars, overdue>>

Publish ==
    /\ actor = "publish"
    /\ status' = term /\ actor' = "drain"
    /\ UNCHANGED <<caller, queueVars, term, pending, pipeVars, childVars, stopVars>>

Drain ==
    /\ actor = "drain"
    /\ caller' = [c \in Call |->
          IF c \in pending /\ caller[c] = "waiting"
          THEN ClassFailure(c, IF term = "Faulted" THEN "protocol" ELSE "exited")
          ELSE caller[c]]
    /\ pending' = {} /\ actor' = "closing"
    /\ UNCHANGED <<queueVars, term, status, pipeVars, childVars, stopVars>>

(* The receiver is dropped with the commands still in it: a request that    *)
(* was never taken fails as Exited, whatever its class.                     *)
Close ==
    /\ actor = "closing"
    /\ caller' = [c \in Call |-> IF c \in Queued /\ caller[c] = "waiting" THEN "exited"
                                ELSE caller[c]]
    /\ cmdq' = <<>> /\ actor' = "done"
    /\ stopper' = IF stopper = "waiting" THEN "returned" ELSE stopper
    /\ UNCHANGED <<cancels, term, status, pending, pipeVars, childVars, lock, overdue>>

-----------------------------------------------------------------------------
(* The stdin writer and the child.                                         *)

WriteFrame ==
    /\ writer = "run" /\ writeq # <<>> /\ child = "alive"
    /\ writeq' = Tail(writeq)
    /\ got' = got \cup {Head(writeq)}
    /\ inbox' = inbox \cup {Head(writeq)}
    /\ UNCHANGED <<caller, queueVars, actorVars, writer, child, lines, notices, stopVars>>

WriteFails ==
    /\ writer = "run" /\ writeq # <<>> /\ child # "alive"
    /\ writer' = "failed"
    /\ UNCHANGED <<caller, queueVars, actorVars, writeq, childVars, stopVars>>

Kinds == {"ok", "upstream", "malformed"}

ChildAnswers(c, kind) ==
    /\ child = "alive" /\ c \in inbox /\ Len(lines) < LineCap
    /\ inbox' = inbox \ {c}
    /\ lines' = Append(lines, Response(c, kind))
    /\ UNCHANGED <<caller, queueVars, actorVars, pipeVars, child, got, notices, stopVars>>

ChildEmits(kind) ==
    /\ child = "alive" /\ notices < MaxNotices /\ Len(lines) < LineCap
    /\ notices' = notices + 1
    /\ lines' = Append(lines, Notice(kind))
    /\ UNCHANGED <<caller, queueVars, actorVars, pipeVars, child, got, inbox, stopVars>>

ChildExits ==
    /\ child # "dead"
    /\ child' = "dead"
    /\ UNCHANGED <<caller, queueVars, actorVars, pipeVars, got, inbox, lines, notices, stopVars>>

-----------------------------------------------------------------------------
(* shutdown() and force_kill().                                            *)

ShutdownStarts ==
    /\ stopper = "idle"
    /\ stopper' = IF status \in Terminal THEN "returned" ELSE "sending"
    /\ UNCHANGED <<caller, queueVars, actorVars, pipeVars, childVars, lock, overdue>>

ShutdownSends ==
    /\ stopper = "sending"
    /\ actor = "done" \/ Len(cmdq) < CmdCap
    /\ cmdq' = IF actor = "done" THEN cmdq ELSE Append(cmdq, Shutdown)
    /\ stopper' = IF actor = "done" THEN "returned" ELSE "waiting"
    /\ UNCHANGED <<caller, cancels, actorVars, pipeVars, childVars, lock, overdue>>

(* The total timeout is the grace plus a margin, so a shutdown taken within *)
(* the margin is answered in time; an actor parked at the ingress (30 s and *)
(* more) takes it later.                                                    *)
ShutdownOverdue ==
    /\ stopper \in {"sending", "waiting"} /\ actor = "parked" /\ ~overdue
    /\ overdue' = TRUE
    /\ UNCHANGED <<caller, queueVars, actorVars, pipeVars, childVars, lock, stopper>>

MutShutdownTimesOut ==
    /\ stopper \in {"sending", "waiting"} /\ overdue
    /\ stopper' = "returned"
    /\ UNCHANGED <<caller, queueVars, actorVars, pipeVars, childVars, lock, overdue>>

ShutdownTimesOut ==
    /\ stopper \in {"sending", "waiting"} /\ overdue
    /\ stopper' = "killing"
    /\ UNCHANGED <<caller, queueVars, actorVars, pipeVars, childVars, lock, overdue>>

(* The unanswered shutdown takes the child mutex to kill the child itself.  *)
ShutdownKills ==
    /\ stopper = "killing" /\ lock = "none"
    /\ child' = IF child = "alive" THEN "killed" ELSE child
    /\ stopper' = "returned"
    /\ UNCHANGED <<caller, queueVars, actorVars, pipeVars, got, inbox, lines, notices, lock, overdue>>

(* A pool deadline signals the pid of the published status, without locks.  *)
ForceKill ==
    /\ stopper # "idle" /\ status = "Running" /\ child = "alive"
    /\ child' = "killed"
    /\ UNCHANGED <<caller, queueVars, actorVars, pipeVars, got, inbox, lines, notices, stopVars>>

Next ==
    \/ \E c \in Call : DispatchCall(c) \/ CallTimeout(c) \/ CallAbandoned(c) \/ SendCancel(c)
    \/ TakeRequest \/ TakeCancel \/ TakeShutdown \/ HandlesDropped \/ WriterReport
    \/ TakeAnswer \/ TakeMalformed \/ TakeUnframed \/ TakeStray \/ TakeReceive
    \/ (\E ok \in BOOLEAN : Unpark(ok)) \/ EndOfOutput
    \/ StopChild \/ GraceKill \/ Reaped \/ Publish \/ Drain \/ Close
    \/ WriteFrame \/ WriteFails \/ ChildExits
    \/ \E c \in Call, kind \in Kinds : ChildAnswers(c, kind)
    \/ \E kind \in {"noid", "receive", "unframed"} : ChildEmits(kind)
    \/ ShutdownStarts \/ ShutdownSends \/ ShutdownOverdue \/ ShutdownTimesOut \/ ShutdownKills \/ ForceKill

Spec == Init /\ [][Next]_vars

-----------------------------------------------------------------------------
Answers == {"ok", "upstream", "timeout", "unknown", "exited", "notRunning", "backpressure",
            "protocol", "abandoned"}

Commands == {Request(c) : c \in Call} \cup {Cancel(c) : c \in Call} \cup {Shutdown}

Lines == {Response(c, k) : c \in Call, k \in Kinds}
         \cup {Notice(k) : k \in {"noid", "receive", "unframed"}}

(* The type of every variable; the queues and the pending map respect their *)
(* capacities.                                                              *)
TypeOK ==
    /\ caller \in [Call -> Answers \cup {"idle", "waiting"}]
    /\ cmdq \in Seq(Commands) /\ Len(cmdq) <= CmdCap /\ cancels \subseteq Call
    /\ actor \in {"select", "parked", "stopping", "reaping", "publish", "drain", "closing", "done"}
    /\ term \in Terminal \cup {"Running"} /\ status \in Terminal \cup {"Running"}
    /\ pending \subseteq Call /\ IsFiniteSet(pending) /\ Cardinality(pending) <= MaxPending
    /\ writeq \in Seq(Call) /\ Len(writeq) <= WriteCap /\ writer \in {"run", "failed", "aborted"}
    /\ child \in {"alive", "killed", "dead"}
    /\ got \subseteq Call /\ inbox \subseteq got
    /\ lines \in Seq(Lines) /\ Len(lines) <= LineCap /\ notices \in Nat
    /\ lock \in {"none", "actor"}
    /\ stopper \in {"idle", "sending", "waiting", "killing", "returned", "gone"}
    /\ overdue \in BOOLEAN

(* The send discipline above the engine rests on this: a mutating call      *)
(* that is told anything definite but an answer (NotRunning, Backpressure,  *)
(* Exited) was not read by the engine and never will be, and whoever is     *)
(* told Ok or an upstream error was read by it.                             *)
ToldTheTruth ==
    /\ \A c \in Mutating : caller[c] \in {"notRunning", "backpressure", "exited", "protocol"}
                           => c \notin got \cup Frames \cup Queued
    /\ \A c \in Call : caller[c] \in {"ok", "upstream"} => c \in got

(* The pending map does not leak: an entry whose caller has left is on its  *)
(* way out, by a Cancel that waits, is queued, or by the terminal drain.    *)
NoPendingLeak ==
    \A c \in pending : \/ caller[c] = "waiting"
                       \/ c \in cancels \cup Cancelled
                       \/ actor \notin {"select", "parked"}

(* shutdown() never returns while the child could still be working.         *)
StoppedChild == stopper = "returned" => child # "alive"

(* What tokio and the timeouts guarantee; the child itself owes nothing,    *)
(* except that a SIGKILL ends it.                                           *)
ActorStep ==
    \/ TakeRequest \/ TakeCancel \/ TakeShutdown \/ WriterReport \/ EndOfOutput
    \/ TakeAnswer \/ TakeMalformed \/ TakeUnframed \/ TakeStray \/ TakeReceive
    \/ (\E ok \in BOOLEAN : Unpark(ok))
    \/ StopChild \/ GraceKill \/ Reaped \/ Publish \/ Drain \/ Close

Fairness ==
    /\ WF_vars(ActorStep)
    /\ WF_vars(ShutdownSends \/ ShutdownTimesOut \/ ShutdownKills)
    /\ WF_vars(child = "killed" /\ ChildExits)
    /\ \A c \in Call : WF_vars(SendCancel(c))

FairSpec == Spec /\ Fairness

(* A shutdown always returns, whatever the child and the ingress do.        *)
ShutdownReturns == stopper = "sending" ~> stopper = "returned"

(* An abandoned call does not occupy the pending map for ever: again and    *)
(* again every registered call has a caller that waits for it.              *)
AbandonedLeaves == []<>(\A c \in pending : caller[c] = "waiting")
=============================================================================
