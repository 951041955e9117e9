-------------------------- MODULE EngineActorProofs --------------------------
(***************************************************************************)
(* Machine-checked proofs about EngineActor: the type invariant with its    *)
(* queue and pending-map bounds, and that what a caller is told about its   *)
(* request is true, for every set of calls and every capacity.              *)
(***************************************************************************)
EXTENDS EngineActor, FiniteSetTheorems, TLAPS

(* Zenon proves the leaves that do not name another prover.                *)
USE ZenonT(30)

-----------------------------------------------------------------------------
(* Type correctness, one group of variables at a time.                      *)

QueueTypes ==
    /\ caller \in [Call -> Answers \cup {"idle", "waiting"}]
    /\ cmdq \in Seq(Commands) /\ Len(cmdq) <= CmdCap /\ cancels \subseteq Call

PipeTypes == writeq \in Seq(Call) /\ Len(writeq) <= WriteCap /\ writer \in {"run", "failed", "aborted"}

PendingTypes == pending \subseteq Call /\ IsFiniteSet(pending) /\ Cardinality(pending) <= MaxPending

ChildTypes ==
    /\ child \in {"alive", "killed", "dead"}
    /\ got \subseteq Call /\ inbox \subseteq got
    /\ lines \in Seq(Lines) /\ Len(lines) <= LineCap /\ notices \in Nat

StateTypes ==
    /\ actor \in {"select", "parked", "stopping", "reaping", "publish", "drain", "closing", "done"}
    /\ term \in Terminal \cup {"Running"} /\ status \in Terminal \cup {"Running"}
    /\ lock \in {"none", "actor"}
    /\ stopper \in {"idle", "sending", "waiting", "killing", "returned", "gone"}
    /\ overdue \in BOOLEAN

(* The groups make up the type invariant.                                   *)
LEMMA Parts == TypeOK <=> QueueTypes /\ PipeTypes /\ PendingTypes /\ ChildTypes /\ StateTypes
BY DEF TypeOK, QueueTypes, PipeTypes, PendingTypes, ChildTypes, StateTypes

(* ... in the next state as well.                                           *)
LEMMA PartsNext == QueueTypes' /\ PipeTypes' /\ PendingTypes' /\ ChildTypes' /\ StateTypes' => TypeOK'
BY DEF TypeOK, QueueTypes, PipeTypes, PendingTypes, ChildTypes, StateTypes

(* What the queues hold is what was put into them.                          *)
LEMMA Elements ==
    ASSUME NEW S, NEW q \in Seq(S)
    PROVE  /\ \A x \in S : Append(q, x) \in Seq(S) /\ Len(Append(q, x)) = Len(q) + 1
           /\ q # <<>> => /\ Head(q) \in S /\ Tail(q) \in Seq(S)
                          /\ Len(Tail(q)) = Len(q) - 1 /\ Len(q) \in Nat \ {0}
           /\ Len(q) \in Nat
BY SMTT(30)

(* A command that carries a call's id carries a call.                       *)
LEMMA CommandIds ==
    ASSUME NEW x \in Commands
    PROVE  /\ x.t = "request" => x.id \in Call /\ x = Request(x.id)
           /\ x.t = "cancel" => x.id \in Call /\ x = Cancel(x.id)
           /\ x.t = "shutdown" => x = Shutdown
BY SMTT(30) DEF Commands, Request, Cancel, Shutdown

(* A response line carries a call and an answer kind.                       *)
LEMMA LineIds ==
    ASSUME NEW x \in Lines, x.t = "response"
    PROVE  x.id \in Call /\ x.kind \in Kinds
BY SMTT(30) DEF Lines, Response, Notice

(* Removing entries keeps the pending map within its cap.                   *)
LEMMA Shrink ==
    ASSUME PendingTypes, NEW S \in SUBSET pending
    PROVE  IsFiniteSet(S) /\ Cardinality(S) <= MaxPending
<1>1. IsFiniteSet(S) /\ Cardinality(S) <= Cardinality(pending)
  BY FS_Subset DEF PendingTypes
<1>2. Cardinality(S) \in Nat /\ Cardinality(pending) \in Nat
  BY <1>1, FS_CardinalityType DEF PendingTypes
<1> QED BY SMTT(30), <1>1, <1>2, CapAssumption DEF PendingTypes

(* The initial state is well typed.                                         *)
LEMMA InitType == Init => TypeOK
<1> SUFFICES ASSUME Init PROVE TypeOK
  OBVIOUS
<1> USE CapAssumption
<1>1. PendingTypes
  BY SMTT(30), FS_EmptySet DEF Init, PendingTypes
<1>2. QueueTypes /\ PipeTypes /\ ChildTypes
  BY SMTT(30) DEF Init, QueueTypes, PipeTypes, ChildTypes
<1>3. StateTypes
  BY DEF Init, StateTypes
<1> QED BY <1>1, <1>2, <1>3, Parts

(* Every action keeps the types.                                            *)
LEMMA TypeStep == TypeOK /\ [Next]_vars => TypeOK'
<1> SUFFICES ASSUME TypeOK, [Next]_vars PROVE TypeOK'
  OBVIOUS
<1> USE CapAssumption, CallAssumption
<1>0. QueueTypes /\ PipeTypes /\ PendingTypes /\ ChildTypes /\ StateTypes
  BY Parts
<1>1. CASE \E c \in Call : DispatchCall(c)
  <2> PICK c \in Call : DispatchCall(c)
    BY <1>1
  <2>1. PipeTypes' /\ PendingTypes' /\ ChildTypes' /\ StateTypes'
    BY SMTT(30), <1>0 DEF DispatchCall, actorVars, pipeVars, childVars, stopVars, PipeTypes, PendingTypes,
       ChildTypes, StateTypes
  <2>2. QueueTypes'
    BY SMTT(30), <1>0, Elements DEF DispatchCall, actorVars, pipeVars, childVars, stopVars, QueueTypes,
       Answers, Commands
  <2> QED BY <2>1, <2>2, PartsNext
<1>2. CASE \E c \in Call : CallTimeout(c)
  <2> PICK c \in Call : CallTimeout(c)
    BY <1>2
  <2>1. PipeTypes' /\ PendingTypes' /\ ChildTypes' /\ StateTypes'
    BY SMTT(30), <1>0 DEF CallTimeout, Leave, actorVars, pipeVars, childVars, stopVars, PipeTypes,
       PendingTypes, ChildTypes, StateTypes
  <2>2. QueueTypes'
    BY <1>0 DEF CallTimeout, Leave, ClassFailure, actorVars, pipeVars, childVars, stopVars,
       QueueTypes, Answers
  <2> QED BY <2>1, <2>2, PartsNext
<1>3. CASE \E c \in Call : CallAbandoned(c)
  <2> PICK c \in Call : CallAbandoned(c)
    BY <1>3
  <2>1. PipeTypes' /\ PendingTypes' /\ ChildTypes' /\ StateTypes'
    BY SMTT(30), <1>0 DEF CallAbandoned, Leave, actorVars, pipeVars, childVars, stopVars, PipeTypes,
       PendingTypes, ChildTypes, StateTypes
  <2>2. QueueTypes'
    BY <1>0 DEF CallAbandoned, Leave, actorVars, pipeVars, childVars, stopVars, QueueTypes,
       Answers
  <2> QED BY <2>1, <2>2, PartsNext
<1>4. CASE \E c \in Call : SendCancel(c)
  <2> PICK c \in Call : SendCancel(c)
    BY <1>4
  <2>1. PipeTypes' /\ PendingTypes' /\ ChildTypes' /\ StateTypes'
    BY SMTT(30), <1>0 DEF SendCancel, actorVars, pipeVars, childVars, stopVars, PipeTypes, PendingTypes,
       ChildTypes, StateTypes
  <2>2. QueueTypes'
    BY SMTT(30), <1>0, Elements DEF SendCancel, actorVars, pipeVars, childVars, stopVars, QueueTypes,
       Commands
  <2> QED BY <2>1, <2>2, PartsNext
<1>5. CASE TakeRequest
  <2>1. ChildTypes'
    BY <1>5, <1>0 DEF TakeRequest, Break, childVars, stopVars, ChildTypes
  <2>2. QueueTypes'
    BY SMTT(30), <1>5, <1>0, Elements, CommandIds DEF TakeRequest, Break, HeadIs, Tell, ClassFailure,
       childVars, stopVars, QueueTypes, Answers, Commands
  <2>3. PipeTypes'
    <3>1. Head(cmdq).id \in Call
      BY <1>5, <1>0, Elements, CommandIds DEF TakeRequest, HeadIs, QueueTypes
    <3>2. CASE UNCHANGED writeq
      BY <1>5, <3>2, <1>0 DEF TakeRequest, Break, PipeTypes
    <3>3. CASE /\ writeq' = Append(writeq, Head(cmdq).id) /\ writer = "run" /\ UNCHANGED writer
              /\ ~(Len(writeq) >= WriteCap)
      BY SMTT(30), <3>1, <3>3, <1>0, Elements DEF PipeTypes
    <3> QED BY <1>5, <3>2, <3>3 DEF TakeRequest
  <2>4. PendingTypes'
    <3>1. CASE UNCHANGED pending
      BY <3>1, <1>0 DEF PendingTypes
    <3>2. CASE pending' # pending
      <4> DEFINE c == Head(cmdq).id
      <4>1. c \in Call
        BY <1>5, <1>0, Elements, CommandIds DEF TakeRequest, HeadIs, QueueTypes
      <4>2. pending' = pending \cup {c} /\ ~(Cardinality(pending) >= MaxPending) /\ c \notin pending
        BY <1>5, <3>2 DEF TakeRequest
      <4>3. IsFiniteSet(pending) /\ Cardinality(pending) \in Nat
        BY <1>0, FS_CardinalityType DEF PendingTypes
      <4>4. IsFiniteSet(pending') /\ Cardinality(pending') = Cardinality(pending) + 1
        BY <4>2, <4>3, FS_AddElement
      <4> QED BY SMTT(30), <4>1, <4>2, <4>3, <4>4, <1>0 DEF PendingTypes
    <3> QED BY <3>1, <3>2
  <2>5. StateTypes'
    BY <1>5, <1>0 DEF TakeRequest, Break, childVars, stopVars, StateTypes, Terminal
  <2> QED BY <2>1, <2>2, <2>3, <2>4, <2>5, PartsNext
<1>6. CASE TakeCancel
  <2>1. PipeTypes' /\ ChildTypes' /\ StateTypes'
    BY SMTT(30), <1>6, <1>0 DEF TakeCancel, pipeVars, childVars, stopVars, PipeTypes, ChildTypes, StateTypes
  <2>2. QueueTypes'
    BY SMTT(30), <1>6, <1>0, Elements DEF TakeCancel, HeadIs, pipeVars, childVars, stopVars, QueueTypes
  <2>3. PendingTypes'
    <3>1. pending' \in SUBSET pending
      BY <1>6, <1>0 DEF TakeCancel
    <3> QED BY <3>1, <1>0, Shrink DEF PendingTypes
  <2> QED BY <2>1, <2>2, <2>3, PartsNext
<1>7. CASE TakeShutdown
  <2>1. PendingTypes' /\ ChildTypes'
    BY <1>7, <1>0 DEF TakeShutdown, Break, childVars, stopVars, PendingTypes, ChildTypes
  <2>2. QueueTypes'
    BY SMTT(30), <1>7, <1>0, Elements DEF TakeShutdown, Break, HeadIs, childVars, stopVars, QueueTypes
  <2>3. PipeTypes'
    BY <1>7, <1>0 DEF TakeShutdown, Break, childVars, stopVars, PipeTypes
  <2>4. StateTypes'
    BY <1>7, <1>0 DEF TakeShutdown, Break, childVars, stopVars, StateTypes, Terminal
  <2> QED BY <2>1, <2>2, <2>3, <2>4, PartsNext
<1>8. CASE HandlesDropped
  <2>1. QueueTypes' /\ PendingTypes' /\ ChildTypes'
    BY <1>8, <1>0 DEF HandlesDropped, Break, queueVars, childVars, QueueTypes, PendingTypes,
       ChildTypes
  <2>2. PipeTypes'
    BY <1>8, <1>0 DEF HandlesDropped, Break, queueVars, childVars, PipeTypes
  <2>3. StateTypes'
    BY <1>8, <1>0 DEF HandlesDropped, Break, queueVars, childVars, StateTypes, Terminal
  <2> QED BY <2>1, <2>2, <2>3, PartsNext
<1>9. CASE WriterReport
  <2>1. QueueTypes' /\ PendingTypes' /\ ChildTypes'
    BY <1>9, <1>0 DEF WriterReport, Break, queueVars, childVars, stopVars, QueueTypes,
       PendingTypes, ChildTypes
  <2>2. PipeTypes'
    BY <1>9, <1>0 DEF WriterReport, Break, queueVars, childVars, stopVars, PipeTypes
  <2>3. StateTypes'
    BY <1>9, <1>0 DEF WriterReport, Break, queueVars, childVars, stopVars, StateTypes, Terminal
  <2> QED BY <2>1, <2>2, <2>3, PartsNext
<1>10. CASE TakeAnswer
  <2>1. PipeTypes' /\ StateTypes'
    BY SMTT(30), <1>10, <1>0 DEF TakeAnswer, TakeLine, queueVars, stopVars, PipeTypes, StateTypes
  <2>2. QueueTypes'
    BY <1>10, <1>0, Elements, LineIds DEF TakeAnswer, TakeLine, LineIs, Tell, queueVars, stopVars,
       QueueTypes, Answers, ChildTypes, Kinds
  <2>3. PendingTypes'
    <3>1. pending' \in SUBSET pending
      BY <1>10, <1>0 DEF TakeAnswer
    <3> QED BY <3>1, <1>0, Shrink DEF PendingTypes
  <2>4. ChildTypes'
    BY SMTT(30), <1>10, <1>0, Elements DEF TakeAnswer, TakeLine, LineIs, queueVars, stopVars, ChildTypes
  <2> QED BY <2>1, <2>2, <2>3, <2>4, PartsNext
<1>11. CASE TakeMalformed
  <2>1. QueueTypes'
    BY <1>11, <1>0 DEF TakeMalformed, TakeLine, Break, LineIs, Tell, ClassFailure, queueVars,
       stopVars, QueueTypes, Answers
  <2>2. PipeTypes'
    BY <1>11, <1>0 DEF TakeMalformed, TakeLine, Break, queueVars, stopVars, PipeTypes
  <2>3. PendingTypes'
    <3>1. pending' \in SUBSET pending
      BY <1>11, <1>0 DEF TakeMalformed
    <3> QED BY <3>1, <1>0, Shrink DEF PendingTypes
  <2>4. ChildTypes'
    BY SMTT(30), <1>11, <1>0, Elements DEF TakeMalformed, TakeLine, Break, LineIs, queueVars, stopVars,
       ChildTypes
  <2>5. StateTypes'
    BY <1>11, <1>0 DEF TakeMalformed, TakeLine, Break, queueVars, stopVars, StateTypes, Terminal
  <2> QED BY <2>1, <2>2, <2>3, <2>4, <2>5, PartsNext
<1>12. CASE TakeUnframed
  <2>1. QueueTypes' /\ PendingTypes'
    BY <1>12, <1>0 DEF TakeUnframed, TakeLine, Break, queueVars, stopVars, QueueTypes,
       PendingTypes
  <2>2. PipeTypes'
    BY <1>12, <1>0 DEF TakeUnframed, TakeLine, Break, queueVars, stopVars, PipeTypes
  <2>3. ChildTypes'
    BY SMTT(30), <1>12, <1>0, Elements DEF TakeUnframed, TakeLine, Break, LineIs, queueVars, stopVars,
       ChildTypes
  <2>4. StateTypes'
    BY <1>12, <1>0 DEF TakeUnframed, TakeLine, Break, queueVars, stopVars, StateTypes, Terminal
  <2> QED BY <2>1, <2>2, <2>3, <2>4, PartsNext
<1>13. CASE TakeStray
  <2>1. QueueTypes' /\ PipeTypes' /\ PendingTypes' /\ StateTypes'
    BY SMTT(30), <1>13, <1>0 DEF TakeStray, TakeLine, queueVars, stopVars, QueueTypes, PipeTypes,
       PendingTypes, StateTypes
  <2>2. ChildTypes'
    BY SMTT(30), <1>13, <1>0, Elements DEF TakeStray, TakeLine, LineIs, queueVars, stopVars, ChildTypes
  <2> QED BY <2>1, <2>2, PartsNext
<1>14. CASE TakeReceive
  <2>1. QueueTypes' /\ PipeTypes' /\ PendingTypes'
    BY <1>14, <1>0 DEF TakeReceive, TakeLine, queueVars, stopVars, QueueTypes, PipeTypes,
       PendingTypes
  <2>2. ChildTypes'
    BY SMTT(30), <1>14, <1>0, Elements DEF TakeReceive, TakeLine, LineIs, queueVars, stopVars, ChildTypes
  <2>3. StateTypes'
    BY <1>14, <1>0 DEF TakeReceive, TakeLine, queueVars, stopVars, StateTypes, Terminal
  <2> QED BY <2>1, <2>2, <2>3, PartsNext
<1>15. CASE \E ok \in BOOLEAN : Unpark(ok)
  <2> PICK ok \in BOOLEAN : Unpark(ok)
    BY <1>15
  <2>1. QueueTypes' /\ PendingTypes' /\ ChildTypes'
    BY <1>0 DEF Unpark, Break, queueVars, childVars, stopVars, QueueTypes, PendingTypes,
       ChildTypes
  <2>2. PipeTypes'
    BY <1>0 DEF Unpark, Break, queueVars, childVars, stopVars, PipeTypes
  <2>3. StateTypes'
    BY <1>0 DEF Unpark, Break, queueVars, childVars, stopVars, StateTypes, Terminal
  <2> QED BY <2>1, <2>2, <2>3, PartsNext
<1>16. CASE EndOfOutput
  <2>1. QueueTypes' /\ PendingTypes' /\ ChildTypes'
    BY <1>16, <1>0 DEF EndOfOutput, Break, queueVars, childVars, stopVars, QueueTypes,
       PendingTypes, ChildTypes
  <2>2. PipeTypes'
    BY <1>16, <1>0 DEF EndOfOutput, Break, queueVars, childVars, stopVars, PipeTypes
  <2>3. StateTypes'
    BY <1>16, <1>0 DEF EndOfOutput, Break, queueVars, childVars, stopVars, StateTypes, Terminal
  <2> QED BY <2>1, <2>2, <2>3, PartsNext
<1>17. CASE StopChild
  <2>1. QueueTypes' /\ PipeTypes' /\ PendingTypes' /\ ChildTypes'
    BY <1>17, <1>0 DEF StopChild, queueVars, pipeVars, childVars, QueueTypes, PipeTypes,
       PendingTypes, ChildTypes
  <2>2. StateTypes'
    BY <1>17, <1>0 DEF StopChild, queueVars, pipeVars, childVars, StateTypes, Terminal
  <2> QED BY <2>1, <2>2, PartsNext
<1>18. CASE GraceKill
  <2>1. QueueTypes' /\ PipeTypes' /\ PendingTypes' /\ StateTypes'
    BY <1>18, <1>0 DEF GraceKill, queueVars, actorVars, pipeVars, stopVars, QueueTypes, PipeTypes,
       PendingTypes, StateTypes
  <2>2. ChildTypes'
    BY <1>18, <1>0 DEF GraceKill, queueVars, actorVars, pipeVars, stopVars, ChildTypes
  <2> QED BY <2>1, <2>2, PartsNext
<1>19. CASE Reaped
  <2>1. QueueTypes' /\ PipeTypes' /\ PendingTypes' /\ ChildTypes'
    BY <1>19, <1>0 DEF Reaped, queueVars, pipeVars, childVars, QueueTypes, PipeTypes,
       PendingTypes, ChildTypes
  <2>2. StateTypes'
    BY <1>19, <1>0 DEF Reaped, queueVars, pipeVars, childVars, StateTypes, Terminal
  <2> QED BY <2>1, <2>2, PartsNext
<1>20. CASE Publish
  <2>1. QueueTypes' /\ PipeTypes' /\ PendingTypes' /\ ChildTypes'
    BY <1>20, <1>0 DEF Publish, queueVars, pipeVars, childVars, stopVars, QueueTypes, PipeTypes,
       PendingTypes, ChildTypes
  <2>2. StateTypes'
    BY <1>20, <1>0 DEF Publish, queueVars, pipeVars, childVars, stopVars, StateTypes, Terminal
  <2> QED BY <2>1, <2>2, PartsNext
<1>21. CASE Drain
  <2>1. PipeTypes' /\ ChildTypes'
    BY <1>21, <1>0 DEF Drain, queueVars, pipeVars, childVars, stopVars, PipeTypes, ChildTypes
  <2>2. QueueTypes'
    BY <1>21, <1>0 DEF Drain, ClassFailure, queueVars, pipeVars, childVars, stopVars, QueueTypes,
       Answers
  <2>3. PendingTypes'
    <3>1. pending' \in SUBSET pending
      BY <1>21, <1>0 DEF Drain
    <3> QED BY <3>1, <1>0, Shrink DEF PendingTypes
  <2>4. StateTypes'
    BY <1>21, <1>0 DEF Drain, queueVars, pipeVars, childVars, stopVars, StateTypes, Terminal
  <2> QED BY <2>1, <2>2, <2>3, <2>4, PartsNext
<1>22. CASE Close
  <2>1. PipeTypes' /\ PendingTypes' /\ ChildTypes'
    BY <1>22, <1>0 DEF Close, pipeVars, childVars, PipeTypes, PendingTypes, ChildTypes
  <2>2. QueueTypes'
    BY SMTT(30), <1>22, <1>0, Elements DEF Close, pipeVars, childVars, QueueTypes, Answers
  <2>3. StateTypes'
    BY <1>22, <1>0 DEF Close, pipeVars, childVars, StateTypes, Terminal
  <2> QED BY <2>1, <2>2, <2>3, PartsNext
<1>23. CASE WriteFrame
  <2>1. QueueTypes' /\ PendingTypes' /\ StateTypes'
    BY <1>23, <1>0 DEF WriteFrame, queueVars, actorVars, stopVars, QueueTypes, PendingTypes,
       StateTypes
  <2>2. PipeTypes'
    BY SMTT(30), <1>23, <1>0, Elements DEF WriteFrame, queueVars, actorVars, stopVars, PipeTypes
  <2>3. ChildTypes'
    BY <1>23, <1>0, Elements DEF WriteFrame, queueVars, actorVars, stopVars, ChildTypes, PipeTypes
  <2> QED BY <2>1, <2>2, <2>3, PartsNext
<1>24. CASE WriteFails
  <2>1. QueueTypes' /\ PendingTypes' /\ ChildTypes' /\ StateTypes'
    BY SMTT(30), <1>24, <1>0 DEF WriteFails, queueVars, actorVars, childVars, stopVars, QueueTypes,
       PendingTypes, ChildTypes, StateTypes
  <2>2. PipeTypes'
    BY <1>24, <1>0 DEF WriteFails, queueVars, actorVars, childVars, stopVars, PipeTypes
  <2> QED BY <2>1, <2>2, PartsNext
<1>25. CASE ChildExits
  <2>1. QueueTypes' /\ PipeTypes' /\ PendingTypes' /\ StateTypes'
    BY SMTT(30), <1>25, <1>0 DEF ChildExits, queueVars, actorVars, pipeVars, stopVars, QueueTypes,
       PipeTypes, PendingTypes, StateTypes
  <2>2. ChildTypes'
    BY <1>25, <1>0 DEF ChildExits, queueVars, actorVars, pipeVars, stopVars, ChildTypes
  <2> QED BY <2>1, <2>2, PartsNext
<1>26. CASE \E c \in Call, kind \in Kinds : ChildAnswers(c, kind)
  <2> PICK c \in Call, kind \in Kinds : ChildAnswers(c, kind)
    BY <1>26
  <2>1. QueueTypes' /\ PipeTypes' /\ PendingTypes' /\ StateTypes'
    BY SMTT(30), <1>0 DEF ChildAnswers, queueVars, actorVars, pipeVars, stopVars, QueueTypes, PipeTypes,
       PendingTypes, StateTypes
  <2>2. ChildTypes'
    BY SMTT(30), <1>0, Elements DEF ChildAnswers, queueVars, actorVars, pipeVars, stopVars, ChildTypes,
       Lines
  <2> QED BY <2>1, <2>2, PartsNext
<1>27. CASE \E kind \in {"noid", "receive", "unframed"} : ChildEmits(kind)
  <2> PICK kind \in {"noid", "receive", "unframed"} : ChildEmits(kind)
    BY <1>27
  <2>1. QueueTypes' /\ PipeTypes' /\ PendingTypes' /\ StateTypes'
    BY SMTT(30), <1>0 DEF ChildEmits, queueVars, actorVars, pipeVars, stopVars, QueueTypes, PipeTypes,
       PendingTypes, StateTypes
  <2>2. ChildTypes'
    BY SMTT(30), <1>0, Elements DEF ChildEmits, queueVars, actorVars, pipeVars, stopVars, ChildTypes, Lines
  <2> QED BY <2>1, <2>2, PartsNext
<1>28. CASE ShutdownStarts
  <2>1. QueueTypes' /\ PipeTypes' /\ PendingTypes' /\ ChildTypes'
    BY <1>28, <1>0 DEF ShutdownStarts, queueVars, actorVars, pipeVars, childVars, QueueTypes,
       PipeTypes, PendingTypes, ChildTypes
  <2>2. StateTypes'
    BY <1>28, <1>0 DEF ShutdownStarts, queueVars, actorVars, pipeVars, childVars, StateTypes,
       Terminal
  <2> QED BY <2>1, <2>2, PartsNext
<1>29. CASE ShutdownSends
  <2>1. PipeTypes' /\ PendingTypes' /\ ChildTypes'
    BY <1>29, <1>0 DEF ShutdownSends, actorVars, pipeVars, childVars, PipeTypes, PendingTypes,
       ChildTypes
  <2>2. QueueTypes'
    BY SMTT(30), <1>29, <1>0, Elements DEF ShutdownSends, actorVars, pipeVars, childVars, QueueTypes,
       Commands
  <2>3. StateTypes'
    BY <1>29, <1>0 DEF ShutdownSends, actorVars, pipeVars, childVars, StateTypes, Terminal
  <2> QED BY <2>1, <2>2, <2>3, PartsNext
<1>30. CASE ShutdownOverdue
  <2>1. QueueTypes' /\ PipeTypes' /\ PendingTypes' /\ ChildTypes'
    BY <1>30, <1>0 DEF ShutdownOverdue, queueVars, actorVars, pipeVars, childVars, QueueTypes,
       PipeTypes, PendingTypes, ChildTypes
  <2>2. StateTypes'
    BY <1>30, <1>0 DEF ShutdownOverdue, queueVars, actorVars, pipeVars, childVars, StateTypes,
       Terminal
  <2> QED BY <2>1, <2>2, PartsNext
<1>31. CASE ShutdownTimesOut
  <2>1. QueueTypes' /\ PipeTypes' /\ PendingTypes' /\ ChildTypes'
    BY <1>31, <1>0 DEF ShutdownTimesOut, queueVars, actorVars, pipeVars, childVars, QueueTypes,
       PipeTypes, PendingTypes, ChildTypes
  <2>2. StateTypes'
    BY <1>31, <1>0 DEF ShutdownTimesOut, queueVars, actorVars, pipeVars, childVars, StateTypes,
       Terminal
  <2> QED BY <2>1, <2>2, PartsNext
<1>32. CASE ShutdownKills
  <2>1. QueueTypes' /\ PipeTypes' /\ PendingTypes'
    BY <1>32, <1>0 DEF ShutdownKills, queueVars, actorVars, pipeVars, QueueTypes, PipeTypes,
       PendingTypes
  <2>2. ChildTypes'
    BY <1>32, <1>0 DEF ShutdownKills, queueVars, actorVars, pipeVars, ChildTypes
  <2>3. StateTypes'
    BY <1>32, <1>0 DEF ShutdownKills, queueVars, actorVars, pipeVars, StateTypes, Terminal
  <2> QED BY <2>1, <2>2, <2>3, PartsNext
<1>33. CASE ForceKill
  <2>1. QueueTypes' /\ PipeTypes' /\ PendingTypes' /\ StateTypes'
    BY SMTT(30), <1>33, <1>0 DEF ForceKill, queueVars, actorVars, pipeVars, stopVars, QueueTypes, PipeTypes,
       PendingTypes, StateTypes
  <2>2. ChildTypes'
    BY <1>33, <1>0 DEF ForceKill, queueVars, actorVars, pipeVars, stopVars, ChildTypes
  <2> QED BY <2>1, <2>2, PartsNext
<1>34. CASE UNCHANGED vars
  BY SMTT(30), <1>34 DEF TypeOK, vars, queueVars, actorVars, pipeVars, childVars, stopVars
<1> QED
  BY <1>1, <1>2, <1>3, <1>4, <1>5, <1>6, <1>7, <1>8, <1>9, <1>10, <1>11, <1>12, <1>13, <1>14,
     <1>15, <1>16, <1>17, <1>18, <1>19, <1>20, <1>21, <1>22, <1>23, <1>24, <1>25, <1>26, <1>27,
     <1>28, <1>29, <1>30, <1>31, <1>32, <1>33, <1>34 DEF Next

(* Every reachable state is well typed, no queue exceeds its capacity and   *)
(* the pending map never exceeds MAX_PENDING_UPSTREAM_REQUESTS.             *)
THEOREM TypeCorrect == Spec => []TypeOK
BY InitType, TypeStep, PTL DEF Spec

-----------------------------------------------------------------------------
(* What callers are told.                                                   *)

(* What appending and taking the head do to a queue's contents.             *)
LEMMA OnAppend ==
    ASSUME NEW S, NEW q \in Seq(S), NEW x \in S, NEW y
    PROVE  Holds(Append(q, x), y) <=> Holds(q, y) \/ y = x
<1>1. Append(q, x) \in Seq(S) /\ Len(Append(q, x)) = Len(q) + 1 /\ Len(q) \in Nat
  BY SMTT(30)
<1>2. Append(q, x)[Len(q) + 1] = x /\ \A i \in 1..Len(q) : Append(q, x)[i] = q[i]
  BY SMTT(30)
<1> QED BY SMTT(30), <1>1, <1>2 DEF Holds

(* ... and taking the head off.                                             *)
LEMMA OnTail ==
    ASSUME NEW S, NEW q \in Seq(S), q # <<>>, NEW y
    PROVE  Holds(q, y) <=> y = Head(q) \/ Holds(Tail(q), y)
<1>1. Len(q) \in Nat \ {0} /\ Len(Tail(q)) = Len(q) - 1 /\ Tail(q) \in Seq(S) /\ Head(q) = q[1]
  BY SMTT(30)
<1>2. \A i \in 1..(Len(q) - 1) : Tail(q)[i] = q[i + 1]
  BY SMTT(30)
<1>3. ASSUME NEW i \in DOMAIN q, i # 1
      PROVE  i - 1 \in DOMAIN Tail(q) /\ Tail(q)[i - 1] = q[i]
  BY SMTT(30), <1>1, <1>2, <1>3
<1>4. ASSUME NEW i \in DOMAIN Tail(q)
      PROVE  i + 1 \in DOMAIN q /\ Tail(q)[i] = q[i + 1]
  BY SMTT(30), <1>1, <1>2
<1>5. 1 \in DOMAIN q
  BY SMTT(30), <1>1
<1>6. ASSUME Holds(q, y) PROVE y = Head(q) \/ Holds(Tail(q), y)
  BY <1>1, <1>3, <1>6 DEF Holds
<1>7. ASSUME y = Head(q) \/ Holds(Tail(q), y) PROVE Holds(q, y)
  BY <1>1, <1>4, <1>5, <1>7 DEF Holds
<1> QED BY <1>6, <1>7

(* No command of a call precedes its request: the request is queued once,   *)
(* and before any cancel.                                                   *)
Ordered(q) ==
    \A c \in Call : \A i, j \in DOMAIN q :
        i < j /\ q[j] = Request(c) => q[i] \notin {Request(c), Cancel(c)}

(* A first request may be appended, and every other command.                *)
LEMMA OrderedAppend ==
    ASSUME NEW q \in Seq(Commands), NEW x \in Commands, Ordered(q),
           \A c \in Call : x = Request(c) => ~Holds(q, Request(c)) /\ ~Holds(q, Cancel(c))
    PROVE  Ordered(Append(q, x))
<1>1. Len(Append(q, x)) = Len(q) + 1 /\ Len(q) \in Nat /\ DOMAIN Append(q, x) = 1..(Len(q) + 1)
      /\ DOMAIN q = 1..Len(q)
  BY SMTT(30)
<1>2. Append(q, x)[Len(q) + 1] = x /\ \A i \in 1..Len(q) : Append(q, x)[i] = q[i]
  BY SMTT(30)
<1> SUFFICES ASSUME NEW c \in Call, NEW i \in 1..(Len(q) + 1), NEW j \in 1..(Len(q) + 1), i < j,
                    Append(q, x)[j] = Request(c)
             PROVE  Append(q, x)[i] \notin {Request(c), Cancel(c)}
  BY <1>1 DEF Ordered
<1>3. i \in DOMAIN q /\ Append(q, x)[i] = q[i]
  BY SMTT(30), <1>1, <1>2
<1>4. CASE j \in DOMAIN q
  BY <1>2, <1>3, <1>4, <1>1 DEF Ordered
<1>5. CASE j = Len(q) + 1
  BY <1>2, <1>3, <1>5 DEF Holds
<1> QED BY SMTT(30), <1>1, <1>4, <1>5

(* Nothing of a call follows its cancel.                                    *)
LEMMA OrderedTail ==
    ASSUME NEW q \in Seq(Commands), q # <<>>, Ordered(q)
    PROVE  /\ Ordered(Tail(q))
           /\ \A c \in Call : Head(q) \in {Request(c), Cancel(c)} => ~Holds(Tail(q), Request(c))
<1>1. Len(q) \in Nat \ {0} /\ Len(Tail(q)) = Len(q) - 1 /\ Tail(q) \in Seq(Commands)
      /\ Head(q) = q[1] /\ DOMAIN q = 1..Len(q) /\ DOMAIN Tail(q) = 1..(Len(q) - 1)
  BY SMTT(30)
<1>2. \A i \in 1..(Len(q) - 1) : Tail(q)[i] = q[i + 1]
  BY SMTT(30)
<1>3. Ordered(Tail(q))
  <2> SUFFICES ASSUME NEW c \in Call, NEW i \in DOMAIN Tail(q), NEW j \in DOMAIN Tail(q), i < j,
                      Tail(q)[j] = Request(c)
               PROVE  Tail(q)[i] \notin {Request(c), Cancel(c)}
    BY DEF Ordered
  <2>1. i + 1 \in DOMAIN q /\ j + 1 \in DOMAIN q /\ i + 1 < j + 1
    BY SMTT(30), <1>1
  <2>2. q[j + 1] = Request(c) /\ q[i + 1] = Tail(q)[i]
    BY <1>1, <1>2
  <2> QED BY <2>1, <2>2 DEF Ordered
<1>4. ASSUME NEW c \in Call, Head(q) \in {Request(c), Cancel(c)}, NEW i \in DOMAIN Tail(q)
      PROVE  Tail(q)[i] # Request(c)
  <2>1. 1 \in DOMAIN q /\ i + 1 \in DOMAIN q /\ 1 < i + 1
    BY SMTT(30), <1>1
  <2>2. Tail(q)[i] = q[i + 1]
    BY <1>1, <1>2
  <2> QED BY <1>1, <1>4, <2>1, <2>2 DEF Ordered
<1> QED BY <1>3, <1>4 DEF Holds

(* A call that was not made yet has left no trace anywhere.                 *)
Fresh ==
    \A c \in Call : caller[c] = "idle" =>
        c \notin Queued \cup Cancelled \cup cancels \cup Frames \cup got \cup pending

(* A queued request has not been registered, framed or read.                *)
Apart == \A c \in Queued : c \notin Frames \cup got \cup pending

(* A response on stdout answers a request the child has read.               *)
Answered == \A i \in DOMAIN lines : lines[i].t = "response" => lines[i].id \in got

(* A queued or registered call whose caller left will still be cancelled.   *)
Leaving ==
    \A c \in pending \cup Queued : \/ caller[c] = "waiting"
                                  \/ c \in cancels \cup Cancelled
                                  \/ actor \notin {"select", "parked"}

(* The actor passes its reaping step only with a dead child.                *)
Reap ==
    /\ actor \in {"publish", "drain", "closing", "done"} => child = "dead"
    /\ status \in Terminal => actor \in {"drain", "closing", "done"}

IInv ==
    /\ TypeOK /\ Ordered(cmdq) /\ Fresh /\ Apart /\ Answered /\ Leaving /\ Reap
    /\ ToldTheTruth /\ StoppedChild

(* The commands of different calls, and of different kinds, are different.  *)
LEMMA Distinct ==
    ASSUME NEW c, NEW d
    PROVE  /\ Request(c) = Request(d) <=> c = d
           /\ Cancel(c) = Cancel(d) <=> c = d
           /\ Request(c) # Cancel(d) /\ Request(c) # Shutdown /\ Cancel(c) # Shutdown
           /\ Request(c).t = "request" /\ Request(c).id = c
           /\ Cancel(c).t = "cancel" /\ Cancel(c).id = c /\ Shutdown.t = "shutdown"
BY DEF Request, Cancel, Shutdown

(* Appending a command adds its call to the set of its kind.                *)
LEMMA QueueGrows ==
    ASSUME TypeOK, NEW x \in Commands, cmdq' = Append(cmdq, x)
    PROVE  /\ \A c \in Call : x = Request(c) => Queued' = Queued \cup {c} /\ Cancelled' = Cancelled
           /\ \A c \in Call : x = Cancel(c) => Queued' = Queued /\ Cancelled' = Cancelled \cup {c}
           /\ x = Shutdown => Queued' = Queued /\ Cancelled' = Cancelled
<1>1. \A y : Holds(cmdq', y) <=> Holds(cmdq, y) \/ y = x
  BY OnAppend DEF TypeOK
<1> QED BY SMTT(30), <1>1, Distinct DEF Queued, Cancelled

(* Taking the head of the queue removes it from the set of its kind; a      *)
(* request it belongs to is not queued behind it.                           *)
LEMMA QueueShrinks ==
    ASSUME TypeOK, Ordered(cmdq), cmdq # <<>>, cmdq' = Tail(cmdq)
    PROVE  /\ Ordered(cmdq)'
           /\ \A c \in Call : Head(cmdq) = Request(c) =>
                 /\ c \in Queued /\ Queued' = Queued \ {c} /\ Cancelled' = Cancelled
           /\ \A c \in Call : Head(cmdq) = Cancel(c) =>
                 /\ Queued' = Queued /\ c \notin Queued /\ c \in Cancelled
                 /\ Cancelled' \subseteq Cancelled /\ Cancelled \subseteq Cancelled' \cup {c}
           /\ Head(cmdq) = Shutdown => Queued' = Queued /\ Cancelled' = Cancelled
<1>1. \A y : Holds(cmdq, y) <=> y = Head(cmdq) \/ Holds(cmdq', y)
  BY OnTail DEF TypeOK
<1>2. Ordered(cmdq')
      /\ \A c \in Call : Head(cmdq) \in {Request(c), Cancel(c)} => ~Holds(cmdq', Request(c))
  BY OrderedTail DEF TypeOK
<1>3. ASSUME NEW c \in Call, Head(cmdq) = Request(c)
      PROVE  c \in Queued /\ Queued' = Queued \ {c} /\ Cancelled' = Cancelled
  BY SMTT(30), <1>1, <1>2, <1>3, Distinct DEF Queued, Cancelled
<1>4. ASSUME NEW c \in Call, Head(cmdq) = Cancel(c)
      PROVE  /\ Queued' = Queued /\ c \notin Queued /\ c \in Cancelled
             /\ Cancelled' \subseteq Cancelled /\ Cancelled \subseteq Cancelled' \cup {c}
  BY SMTT(30), <1>1, <1>2, <1>4, Distinct DEF Queued, Cancelled
<1>5. Head(cmdq) = Shutdown => Queued' = Queued /\ Cancelled' = Cancelled
  BY SMTT(30), <1>1, Distinct DEF Queued, Cancelled
<1> QED BY <1>2, <1>3, <1>4, <1>5

(* Without a change of the queue the sets stay.                             *)
LEMMA QueueStays ==
    ASSUME UNCHANGED cmdq
    PROVE  Queued' = Queued /\ Cancelled' = Cancelled /\ (Ordered(cmdq) => Ordered(cmdq)')
BY DEF Queued, Cancelled

(* The frames only change with the writer queue.                            *)
LEMMA FramesStay ==
    ASSUME UNCHANGED writeq
    PROVE  Frames' = Frames
BY DEF Frames

(* Reading lines off the front keeps the rest answered.                     *)
LEMMA LinesShrink ==
    ASSUME TypeOK, Answered, LineIs("response") \/ lines # <<>>, lines' = Tail(lines), got' = got
    PROVE  Answered' /\ (LineIs("response") => Head(lines).id \in got)
<1>1. lines # <<>> /\ lines \in Seq(Lines)
  BY DEF LineIs, TypeOK
<1>2. /\ Len(lines) \in Nat \ {0} /\ DOMAIN lines = 1..Len(lines) /\ Head(lines) = lines[1]
      /\ DOMAIN Tail(lines) = 1..(Len(lines) - 1)
      /\ \A i \in 1..(Len(lines) - 1) : Tail(lines)[i] = lines[i + 1]
  BY SMTT(30), <1>1
<1>3. ASSUME NEW i \in DOMAIN Tail(lines)
      PROVE  i + 1 \in DOMAIN lines /\ Tail(lines)[i] = lines[i + 1]
  BY SMTT(30), <1>2
<1> QED BY SMTT(30), <1>2, <1>3 DEF Answered, LineIs

(* The initial state satisfies the invariant.                               *)
LEMMA InitInv == Init => IInv
<1> SUFFICES ASSUME Init PROVE IInv
  OBVIOUS
<1>1. TypeOK
  BY InitType
<1>2. Queued = {} /\ Cancelled = {} /\ Frames = {}
  BY SMTT(30) DEF Init, Queued, Cancelled, Frames, Holds
<1>3. Ordered(cmdq) /\ Answered
  BY SMTT(30) DEF Init, Ordered, Answered
<1>4. Fresh /\ Apart /\ Leaving /\ Reap
  BY <1>2 DEF Init, Fresh, Apart, Leaving, Reap, Terminal
<1>5. ToldTheTruth /\ StoppedChild
  BY CallAssumption DEF Init, ToldTheTruth, StoppedChild
<1> QED BY <1>1, <1>3, <1>4, <1>5 DEF IInv

(* The parts of the invariant that talk about calls.                        *)
CallInv == Fresh /\ Apart /\ Leaving /\ ToldTheTruth

(* Every action keeps the invariant.                                        *)
LEMMA InvStep == IInv /\ [Next]_vars => IInv'
<1> SUFFICES ASSUME IInv, [Next]_vars PROVE IInv'
  OBVIOUS
<1> USE CallAssumption DEF CallInv
<1>0. TypeOK' /\ TypeOK /\ Ordered(cmdq) /\ CallInv /\ Answered /\ Reap /\ StoppedChild
  BY TypeStep DEF IInv
<1>a. caller \in [Call -> Answers \cup {"idle", "waiting"}] /\ pending \subseteq Call
      /\ got \subseteq Call /\ cancels \subseteq Call
  BY <1>0 DEF TypeOK
<1>1. CASE \E c \in Call : DispatchCall(c)
  <2> PICK c \in Call : DispatchCall(c)
    BY <1>1
  <2>1. /\ Ordered(cmdq)' /\ Cancelled' = Cancelled
        /\ \/ Queued' = Queued /\ caller'[c] # "waiting"
           \/ Queued' = Queued \cup {c} /\ caller'[c] = "waiting"
    <3>1. CASE caller'[c] = "waiting"
      <4>1. cmdq' = Append(cmdq, Request(c)) /\ Request(c) \in Commands
        BY <3>1, <1>a DEF DispatchCall, Commands
      <4>2. c \notin Queued \cup Cancelled
        BY <1>0 DEF DispatchCall, Fresh
      <4>3. Ordered(cmdq)'
        BY SMTT(30), <4>1, <4>2, <1>0, OrderedAppend, Distinct DEF TypeOK, Queued, Cancelled
      <4> QED BY <3>1, <4>1, <4>3, <1>0, QueueGrows
    <3>2. CASE caller'[c] # "waiting"
      <4>1. UNCHANGED cmdq
        BY <3>2, <1>a DEF DispatchCall
      <4> QED BY <4>1, <3>2, <1>0, QueueStays
    <3> QED BY <3>1, <3>2
  <2>2. Frames' = Frames
    BY FramesStay DEF DispatchCall, pipeVars
  <2>3. Answered'
    BY <1>0 DEF DispatchCall, childVars, Answered
  <2>4. Fresh' /\ Apart'
    BY <1>0, <1>a, <2>1, <2>2 DEF DispatchCall, actorVars, pipeVars, childVars, stopVars, Fresh,
       Apart
  <2>5. Leaving'
    BY SMTT(30), <1>0, <1>a, <2>1, <2>2 DEF DispatchCall, actorVars, pipeVars, childVars, stopVars, Leaving,
       Fresh
  <2>6. ToldTheTruth'
    BY <1>0, <1>a, <2>1, <2>2 DEF DispatchCall, actorVars, pipeVars, childVars, stopVars,
       ToldTheTruth, Fresh, Apart
  <2>7. Reap' /\ StoppedChild'
    BY <1>0 DEF DispatchCall, actorVars, pipeVars, childVars, stopVars, Reap, StoppedChild, TypeOK
  <2> QED BY <1>0, <2>1, <2>3, <2>4, <2>5, <2>6, <2>7 DEF IInv
<1>2. CASE \E c \in Call : CallTimeout(c)
  <2> PICK c \in Call : CallTimeout(c)
    BY <1>2
  <2>1. Queued' = Queued /\ Cancelled' = Cancelled /\ Ordered(cmdq)'
    BY <1>0, QueueStays DEF CallTimeout, Leave, actorVars, pipeVars, childVars, stopVars
  <2>2. Frames' = Frames
    BY FramesStay DEF CallTimeout, Leave, pipeVars
  <2>3. Answered'
    BY <1>0 DEF CallTimeout, Leave, childVars, Answered
  <2>4. Fresh' /\ Apart'
    BY <1>0, <1>a, <2>1, <2>2 DEF CallTimeout, Leave, ClassFailure, actorVars, pipeVars,
       childVars, stopVars, Fresh, Apart
  <2>5. Leaving'
    BY SMTT(30), <1>0, <1>a, <2>1, <2>2 DEF CallTimeout, Leave, ClassFailure, actorVars, pipeVars,
       childVars, stopVars, Leaving
  <2>6. ToldTheTruth'
    BY <1>0, <1>a, <2>1, <2>2 DEF CallTimeout, Leave, ClassFailure, actorVars, pipeVars,
       childVars, stopVars, ToldTheTruth, Fresh, Apart
  <2>7. Reap' /\ StoppedChild'
    BY <1>0 DEF CallTimeout, Leave, actorVars, pipeVars, childVars, stopVars, Reap, StoppedChild,
       TypeOK
  <2> QED BY <1>0, <2>1, <2>3, <2>4, <2>5, <2>6, <2>7 DEF IInv
<1>3. CASE \E c \in Call : CallAbandoned(c)
  <2> PICK c \in Call : CallAbandoned(c)
    BY <1>3
  <2>1. Queued' = Queued /\ Cancelled' = Cancelled /\ Ordered(cmdq)'
    BY <1>0, QueueStays DEF CallAbandoned, Leave, actorVars, pipeVars, childVars, stopVars
  <2>2. Frames' = Frames
    BY FramesStay DEF CallAbandoned, Leave, pipeVars
  <2>3. Answered'
    BY <1>0 DEF CallAbandoned, Leave, childVars, Answered
  <2>4. Fresh' /\ Apart'
    BY <1>0, <1>a, <2>1, <2>2 DEF CallAbandoned, Leave, actorVars, pipeVars, childVars, stopVars,
       Fresh, Apart
  <2>5. Leaving'
    BY SMTT(30), <1>0, <1>a, <2>1, <2>2 DEF CallAbandoned, Leave, actorVars, pipeVars, childVars, stopVars,
       Leaving
  <2>6. ToldTheTruth'
    BY <1>0, <1>a, <2>1, <2>2 DEF CallAbandoned, Leave, actorVars, pipeVars, childVars, stopVars,
       ToldTheTruth, Fresh, Apart
  <2>7. Reap' /\ StoppedChild'
    BY <1>0 DEF CallAbandoned, Leave, actorVars, pipeVars, childVars, stopVars, Reap,
       StoppedChild, TypeOK
  <2> QED BY <1>0, <2>1, <2>3, <2>4, <2>5, <2>6, <2>7 DEF IInv
<1>4. CASE \E c \in Call : SendCancel(c)
  <2> PICK c \in Call : SendCancel(c)
    BY <1>4
  <2>1. Ordered(cmdq)' /\ Queued' = Queued
        /\ (Cancelled' = Cancelled \cup {c} \/ (actor = "done" /\ Cancelled' = Cancelled))
    <3>1. CASE actor = "done"
      BY <3>1, <1>0, QueueStays DEF SendCancel
    <3>2. CASE actor # "done"
      <4>1. cmdq' = Append(cmdq, Cancel(c)) /\ Cancel(c) \in Commands
        BY <3>2 DEF SendCancel, Commands
      <4>2. Ordered(cmdq)'
        BY SMTT(30), <4>1, <1>0, OrderedAppend, Distinct DEF TypeOK
      <4> QED BY <4>1, <4>2, <1>0, <1>a, QueueGrows DEF SendCancel
    <3> QED BY <3>1, <3>2
  <2>2. Frames' = Frames
    BY FramesStay DEF SendCancel, pipeVars
  <2>3. Answered'
    BY <1>0 DEF SendCancel, childVars, Answered
  <2>4. Fresh' /\ Apart'
    BY <1>0, <1>a, <2>1, <2>2 DEF SendCancel, actorVars, pipeVars, childVars, stopVars, Fresh,
       Apart
  <2>5. Leaving'
    BY <1>0, <1>a, <2>1, <2>2 DEF SendCancel, actorVars, pipeVars, childVars, stopVars, Leaving
  <2>6. ToldTheTruth'
    BY <1>0, <1>a, <2>1, <2>2 DEF SendCancel, actorVars, pipeVars, childVars, stopVars,
       ToldTheTruth, Fresh, Apart
  <2>7. Reap' /\ StoppedChild'
    BY <1>0 DEF SendCancel, actorVars, pipeVars, childVars, stopVars, Reap, StoppedChild, TypeOK
  <2> QED BY <1>0, <2>1, <2>3, <2>4, <2>5, <2>6, <2>7 DEF IInv
<1>5. CASE TakeRequest
  <2> DEFINE c == Head(cmdq).id
  <2>0. c \in Call /\ Head(cmdq) = Request(c) /\ cmdq # <<>> /\ cmdq' = Tail(cmdq) /\ actor = "select"
    BY <1>5, <1>0, Elements, CommandIds DEF TakeRequest, HeadIs, TypeOK
  <2>1. Queued' = Queued \ {c} /\ Cancelled' = Cancelled /\ Ordered(cmdq)' /\ c \in Queued
    BY <2>0, <1>0, QueueShrinks
  <2>2. \/ Frames' = Frames /\ pending' = pending
           /\ caller' = Tell(c, "backpressure") /\ actor' = actor
        \/ Frames' = Frames /\ pending' = pending
           /\ caller' = Tell(c, ClassFailure(c, "exited")) /\ actor' = "stopping"
        \/ Frames' = Frames \cup {c} /\ pending' = pending \cup {c}
           /\ caller' = caller /\ actor' = actor
    <3>1. \/ UNCHANGED writeq /\ pending' = pending
             /\ caller' = Tell(c, "backpressure") /\ actor' = actor
          \/ UNCHANGED writeq /\ pending' = pending
             /\ caller' = Tell(c, ClassFailure(c, "exited")) /\ actor' = "stopping"
          \/ writeq' = Append(writeq, c) /\ pending' = pending \cup {c}
             /\ caller' = caller /\ actor' = actor
      BY <1>5 DEF TakeRequest, Break
    <3>2. ASSUME writeq' = Append(writeq, c)
          PROVE  Frames' = Frames \cup {c}
      <4>1. writeq \in Seq(Call)
        BY <1>0 DEF TypeOK
      <4>2. ASSUME NEW d \in Call
            PROVE  Holds(writeq, d)' <=> Holds(writeq, d) \/ d = c
        BY SMTT(30), <2>0, <3>2, <4>1, OnAppend DEF Holds
      <4> QED BY <2>0, <4>2 DEF Frames
    <3> QED BY <3>1, <3>2, FramesStay
  <2>3. Answered'
    BY <1>5, <1>0 DEF TakeRequest, Break, childVars, Answered
  <2>4. Fresh' /\ Apart'
    BY <1>5, <1>0, <1>a, <2>0, <2>1, <2>2 DEF TakeRequest, Break, Tell, ClassFailure, childVars,
       stopVars, Fresh, Apart
  <2>5. Leaving'
    <3> SUFFICES ASSUME NEW d \in pending' \cup Queued', actor' \in {"select", "parked"}
                 PROVE  caller'[d] = "waiting" \/ d \in cancels' \cup Cancelled'
      BY DEF Leaving
    <3>1. d \in pending \cup Queued /\ d \in Call /\ UNCHANGED cancels /\ actor = "select"
      BY <1>5, <1>a, <2>0, <2>1, <2>2 DEF TakeRequest, Queued
    <3>2. caller'[d] = caller[d]
      BY <1>0, <1>a, <2>0, <2>1, <2>2, <3>1 DEF Tell, Apart
    <3> QED BY <1>0, <2>1, <3>1, <3>2 DEF Leaving
  <2>6. ToldTheTruth'
    <3>1. got' = got /\ c \notin got \cup Frames
      BY <1>5, <1>0, <2>1 DEF TakeRequest, childVars, Apart
    <3>2. CASE caller' = caller /\ Frames' = Frames \cup {c}
      BY <1>0, <2>1, <3>1, <3>2 DEF ToldTheTruth
    <3>3. CASE caller' # caller \/ Frames' # Frames \cup {c}
      <4>1. /\ Frames' = Frames
            /\ \A d \in Call \ {c} : caller'[d] = caller[d]
            /\ caller'[c] \in {"ok", "upstream"} => caller[c] \in {"ok", "upstream"}
        BY <2>0, <2>2, <3>3, <1>0 DEF Tell, ClassFailure, TypeOK
      <4>2. QED
        BY <1>0, <2>0, <2>1, <3>1, <4>1 DEF ToldTheTruth
    <3> QED BY <3>2, <3>3
  <2>7. Reap' /\ StoppedChild'
    BY <1>5, <1>0 DEF TakeRequest, Break, childVars, stopVars, HeadIs, Reap, StoppedChild, TypeOK
  <2> QED BY <1>0, <2>1, <2>3, <2>4, <2>5, <2>6, <2>7 DEF IInv
<1>6. CASE TakeCancel
  <2> DEFINE c == Head(cmdq).id
  <2>0. c \in Call /\ Head(cmdq) = Cancel(c) /\ cmdq # <<>> /\ cmdq' = Tail(cmdq) /\ actor = "select"
    BY <1>6, <1>0, Elements, CommandIds DEF TakeCancel, HeadIs, TypeOK
  <2>1. /\ Queued' = Queued /\ c \notin Queued /\ Ordered(cmdq)' /\ c \in Cancelled
        /\ Cancelled' \subseteq Cancelled /\ Cancelled \subseteq Cancelled' \cup {c}
    BY <2>0, <1>0, QueueShrinks
  <2>2. Frames' = Frames
    BY <1>6, FramesStay DEF TakeCancel, pipeVars
  <2>3. Answered'
    BY <1>6, <1>0 DEF TakeCancel, childVars, Answered
  <2>4. Fresh' /\ Apart'
    BY <1>6, <1>0, <1>a, <2>0, <2>1, <2>2 DEF TakeCancel, pipeVars, childVars, stopVars, Fresh,
       Apart
  <2>5. Leaving'
    BY SMTT(30), <1>6, <1>0, <1>a, <2>0, <2>1, <2>2
       DEF TakeCancel, pipeVars, childVars, stopVars, Leaving,
       Apart
  <2>6. ToldTheTruth'
    BY <1>6, <1>0, <1>a, <2>0, <2>1, <2>2 DEF TakeCancel, pipeVars, childVars, stopVars,
       ToldTheTruth, Fresh, Apart
  <2>7. Reap' /\ StoppedChild'
    BY <1>6, <1>0 DEF TakeCancel, pipeVars, childVars, stopVars, HeadIs, Reap, StoppedChild,
       TypeOK
  <2> QED BY <1>0, <2>1, <2>3, <2>4, <2>5, <2>6, <2>7 DEF IInv
<1>7. CASE TakeShutdown
  <2>0. Head(cmdq) = Shutdown /\ cmdq # <<>> /\ cmdq' = Tail(cmdq)
    BY <1>7, <1>0, Elements, CommandIds DEF TakeShutdown, HeadIs, TypeOK
  <2>1. Queued' = Queued /\ Cancelled' = Cancelled /\ Ordered(cmdq)'
    BY <2>0, <1>0, QueueShrinks
  <2>2. Frames' = Frames
    BY <1>7, FramesStay DEF TakeShutdown, Break
  <2>3. Answered'
    BY <1>7, <1>0 DEF TakeShutdown, Break, childVars, Answered
  <2>4. Fresh' /\ Apart'
    BY <1>7, <1>0, <1>a, <2>0, <2>1, <2>2 DEF TakeShutdown, Break, childVars, stopVars, Fresh,
       Apart
  <2>5. Leaving'
    BY <1>7, <1>0, <1>a, <2>0, <2>1, <2>2 DEF TakeShutdown, Break, childVars, stopVars, Leaving,
       Apart
  <2>6. ToldTheTruth'
    BY <1>7, <1>0, <1>a, <2>0, <2>1, <2>2 DEF TakeShutdown, Break, childVars, stopVars,
       ToldTheTruth, Fresh, Apart
  <2>7. Reap' /\ StoppedChild'
    BY <1>7, <1>0 DEF TakeShutdown, Break, childVars, stopVars, HeadIs, Reap, StoppedChild, TypeOK
  <2> QED BY <1>0, <2>1, <2>3, <2>4, <2>5, <2>6, <2>7 DEF IInv
<1>8. CASE HandlesDropped
  <2>1. Queued' = Queued /\ Cancelled' = Cancelled /\ Ordered(cmdq)'
    BY <1>8, <1>0, QueueStays DEF HandlesDropped, Break, queueVars, childVars
  <2>2. Frames' = Frames
    BY <1>8, FramesStay DEF HandlesDropped, Break
  <2>3. Answered'
    BY <1>8, <1>0 DEF HandlesDropped, Break, childVars, Answered
  <2>4. Fresh' /\ Apart'
    BY <1>8, <1>0, <1>a, <2>1, <2>2 DEF HandlesDropped, Break, queueVars, childVars, Fresh, Apart
  <2>5. Leaving'
    BY <1>8, <1>0, <1>a, <2>1, <2>2 DEF HandlesDropped, Break, queueVars, childVars, Leaving
  <2>6. ToldTheTruth'
    BY <1>8, <1>0, <1>a, <2>1, <2>2 DEF HandlesDropped, Break, queueVars, childVars, ToldTheTruth,
       Fresh, Apart
  <2>7. Reap' /\ StoppedChild'
    BY <1>8, <1>0 DEF HandlesDropped, Break, queueVars, childVars, Reap, StoppedChild, TypeOK
  <2> QED BY <1>0, <2>1, <2>3, <2>4, <2>5, <2>6, <2>7 DEF IInv
<1>9. CASE WriterReport
  <2>1. Queued' = Queued /\ Cancelled' = Cancelled /\ Ordered(cmdq)'
    BY <1>9, <1>0, QueueStays DEF WriterReport, Break, queueVars, childVars, stopVars
  <2>2. Frames' = Frames
    BY <1>9, FramesStay DEF WriterReport, Break
  <2>3. Answered'
    BY <1>9, <1>0 DEF WriterReport, Break, childVars, Answered
  <2>4. Fresh' /\ Apart'
    BY <1>9, <1>0, <1>a, <2>1, <2>2 DEF WriterReport, Break, queueVars, childVars, stopVars,
       Fresh, Apart
  <2>5. Leaving'
    BY <1>9, <1>0, <1>a, <2>1, <2>2 DEF WriterReport, Break, queueVars, childVars, stopVars,
       Leaving
  <2>6. ToldTheTruth'
    BY <1>9, <1>0, <1>a, <2>1, <2>2 DEF WriterReport, Break, queueVars, childVars, stopVars,
       ToldTheTruth, Fresh, Apart
  <2>7. Reap' /\ StoppedChild'
    BY <1>9, <1>0 DEF WriterReport, Break, queueVars, childVars, stopVars, Reap, StoppedChild,
       TypeOK
  <2> QED BY <1>0, <2>1, <2>3, <2>4, <2>5, <2>6, <2>7 DEF IInv
<1>10. CASE TakeAnswer
  <2>1. Queued' = Queued /\ Cancelled' = Cancelled /\ Ordered(cmdq)'
    BY <1>10, <1>0, QueueStays DEF TakeAnswer, TakeLine, queueVars, stopVars
  <2>2. Frames' = Frames
    BY <1>10, FramesStay DEF TakeAnswer, TakeLine
  <2>3. Answered' /\ (LineIs("response") => Head(lines).id \in got)
    BY <1>10, <1>0, LinesShrink DEF TakeAnswer, LineIs, TakeLine
  <2> DEFINE c == Head(lines).id
             k == Head(lines).kind
  <2>a. c \in got /\ c \in pending /\ k \in {"ok", "upstream"} /\ actor' = actor
    BY <1>10, <1>0, <2>3, Elements, LineIds DEF TakeAnswer, LineIs, TypeOK, Kinds
  <2>b. /\ pending' = pending \ {c} /\ got' = got /\ cancels' = cancels
        /\ caller' = [caller EXCEPT ![c] = IF @ = "waiting" THEN k ELSE @]
    BY <1>10 DEF TakeAnswer, TakeLine, Tell, queueVars
  <2> HIDE DEF c, k
  <2>4. Fresh' /\ Apart'
    BY <1>0, <1>a, <2>1, <2>2, <2>a, <2>b DEF Fresh, Apart
  <2>5. Leaving'
    BY SMTT(30), <1>0, <1>a, <2>1, <2>2, <2>a, <2>b DEF Leaving, Apart
  <2>6. ToldTheTruth'
    BY <1>0, <1>a, <2>1, <2>2, <2>a, <2>b DEF ToldTheTruth
  <2>7. Reap' /\ StoppedChild'
    BY <1>10, <1>0 DEF TakeAnswer, TakeLine, stopVars, Reap, StoppedChild
  <2> QED BY <1>0, <2>1, <2>3, <2>4, <2>5, <2>6, <2>7 DEF IInv
<1>11. CASE TakeMalformed
  <2>1. Queued' = Queued /\ Cancelled' = Cancelled /\ Ordered(cmdq)'
    BY <1>11, <1>0, QueueStays DEF TakeMalformed, TakeLine, Break, queueVars, stopVars
  <2>2. Frames' = Frames
    BY <1>11, FramesStay DEF TakeMalformed, TakeLine, Break
  <2>3. Answered' /\ (LineIs("response") => Head(lines).id \in got)
    BY <1>11, <1>0, LinesShrink DEF TakeMalformed, LineIs, TakeLine
  <2>4. Fresh' /\ Apart'
    BY <1>11, <1>0, <1>a, <2>1, <2>2, <2>3 DEF TakeMalformed, TakeLine, Break, LineIs, Tell,
       ClassFailure, queueVars, stopVars, Fresh, Apart
  <2>5. Leaving'
    BY <1>11, <1>0, <1>a, <2>1, <2>2 DEF TakeMalformed, TakeLine, Break, LineIs, Tell,
       ClassFailure, queueVars, stopVars, Leaving, Apart
  <2>6. ToldTheTruth'
    BY <1>11, <1>0, <1>a, <2>1, <2>2, <2>3 DEF TakeMalformed, TakeLine, Break, LineIs, Tell,
       ClassFailure, queueVars, stopVars, ToldTheTruth, Fresh, Apart
  <2>7. Reap' /\ StoppedChild'
    BY <1>11, <1>0 DEF TakeMalformed, TakeLine, Break, queueVars, stopVars, LineIs, Reap,
       StoppedChild, TypeOK
  <2> QED BY <1>0, <2>1, <2>3, <2>4, <2>5, <2>6, <2>7 DEF IInv
<1>12. CASE TakeUnframed
  <2>1. Queued' = Queued /\ Cancelled' = Cancelled /\ Ordered(cmdq)'
    BY <1>12, <1>0, QueueStays DEF TakeUnframed, TakeLine, Break, queueVars, stopVars
  <2>2. Frames' = Frames
    BY <1>12, FramesStay DEF TakeUnframed, TakeLine, Break
  <2>3. Answered' /\ (LineIs("response") => Head(lines).id \in got)
    BY <1>12, <1>0, LinesShrink DEF TakeUnframed, LineIs, TakeLine
  <2>4. Fresh' /\ Apart'
    BY <1>12, <1>0, <1>a, <2>1, <2>2, <2>3 DEF TakeUnframed, TakeLine, Break, LineIs, queueVars,
       stopVars, Fresh, Apart
  <2>5. Leaving'
    BY <1>12, <1>0, <1>a, <2>1, <2>2 DEF TakeUnframed, TakeLine, Break, LineIs, queueVars,
       stopVars, Leaving, Apart
  <2>6. ToldTheTruth'
    BY <1>12, <1>0, <1>a, <2>1, <2>2, <2>3 DEF TakeUnframed, TakeLine, Break, LineIs, queueVars,
       stopVars, ToldTheTruth, Fresh, Apart
  <2>7. Reap' /\ StoppedChild'
    BY <1>12, <1>0 DEF TakeUnframed, TakeLine, Break, queueVars, stopVars, LineIs, Reap,
       StoppedChild, TypeOK
  <2> QED BY <1>0, <2>1, <2>3, <2>4, <2>5, <2>6, <2>7 DEF IInv
<1>13. CASE TakeStray
  <2>1. Queued' = Queued /\ Cancelled' = Cancelled /\ Ordered(cmdq)'
    BY <1>13, <1>0, QueueStays DEF TakeStray, TakeLine, queueVars, stopVars
  <2>2. Frames' = Frames
    BY <1>13, FramesStay DEF TakeStray, TakeLine
  <2>3. Answered' /\ (LineIs("response") => Head(lines).id \in got)
    BY <1>13, <1>0, LinesShrink DEF TakeStray, LineIs, TakeLine
  <2>4. Fresh' /\ Apart'
    BY <1>13, <1>0, <1>a, <2>1, <2>2, <2>3 DEF TakeStray, TakeLine, LineIs, queueVars, stopVars,
       Fresh, Apart
  <2>5. Leaving'
    BY <1>13, <1>0, <1>a, <2>1, <2>2 DEF TakeStray, TakeLine, LineIs, queueVars, stopVars,
       Leaving, Apart
  <2>6. ToldTheTruth'
    BY <1>13, <1>0, <1>a, <2>1, <2>2, <2>3 DEF TakeStray, TakeLine, LineIs, queueVars, stopVars,
       ToldTheTruth, Fresh, Apart
  <2>7. Reap' /\ StoppedChild'
    BY <1>13, <1>0 DEF TakeStray, TakeLine, queueVars, stopVars, LineIs, Reap, StoppedChild,
       TypeOK
  <2> QED BY <1>0, <2>1, <2>3, <2>4, <2>5, <2>6, <2>7 DEF IInv
<1>14. CASE TakeReceive
  <2>1. Queued' = Queued /\ Cancelled' = Cancelled /\ Ordered(cmdq)'
    BY <1>14, <1>0, QueueStays DEF TakeReceive, TakeLine, queueVars, stopVars
  <2>2. Frames' = Frames
    BY <1>14, FramesStay DEF TakeReceive, TakeLine
  <2>3. Answered' /\ (LineIs("response") => Head(lines).id \in got)
    BY <1>14, <1>0, LinesShrink DEF TakeReceive, LineIs, TakeLine
  <2>4. Fresh' /\ Apart'
    BY <1>14, <1>0, <1>a, <2>1, <2>2, <2>3 DEF TakeReceive, TakeLine, LineIs, queueVars, stopVars,
       Fresh, Apart
  <2>5. Leaving'
    BY <1>14, <1>0, <1>a, <2>1, <2>2 DEF TakeReceive, TakeLine, LineIs, queueVars, stopVars,
       Leaving, Apart
  <2>6. ToldTheTruth'
    BY <1>14, <1>0, <1>a, <2>1, <2>2, <2>3 DEF TakeReceive, TakeLine, LineIs, queueVars, stopVars,
       ToldTheTruth, Fresh, Apart
  <2>7. Reap' /\ StoppedChild'
    BY <1>14, <1>0 DEF TakeReceive, TakeLine, queueVars, stopVars, LineIs, Reap, StoppedChild,
       TypeOK
  <2> QED BY <1>0, <2>1, <2>3, <2>4, <2>5, <2>6, <2>7 DEF IInv
<1>15. CASE \E ok \in BOOLEAN : Unpark(ok)
  <2> PICK ok \in BOOLEAN : Unpark(ok)
    BY <1>15
  <2>1. Queued' = Queued /\ Cancelled' = Cancelled /\ Ordered(cmdq)'
    BY <1>0, QueueStays DEF Unpark, Break, queueVars, childVars, stopVars
  <2>2. Frames' = Frames
    BY FramesStay DEF Unpark, Break
  <2>3. Answered'
    BY <1>0 DEF Unpark, Break, childVars, Answered
  <2>4. Fresh' /\ Apart'
    BY <1>0, <1>a, <2>1, <2>2 DEF Unpark, Break, queueVars, childVars, stopVars, Fresh, Apart
  <2>5. Leaving'
    BY <1>0, <1>a, <2>1, <2>2 DEF Unpark, Break, queueVars, childVars, stopVars, Leaving
  <2>6. ToldTheTruth'
    BY <1>0, <1>a, <2>1, <2>2 DEF Unpark, Break, queueVars, childVars, stopVars, ToldTheTruth,
       Fresh, Apart
  <2>7. Reap' /\ StoppedChild'
    BY <1>0 DEF Unpark, Break, queueVars, childVars, stopVars, Reap, StoppedChild, TypeOK
  <2> QED BY <1>0, <2>1, <2>3, <2>4, <2>5, <2>6, <2>7 DEF IInv
<1>16. CASE EndOfOutput
  <2>1. Queued' = Queued /\ Cancelled' = Cancelled /\ Ordered(cmdq)'
    BY <1>16, <1>0, QueueStays DEF EndOfOutput, Break, queueVars, childVars, stopVars
  <2>2. Frames' = Frames
    BY <1>16, FramesStay DEF EndOfOutput, Break
  <2>3. Answered'
    BY <1>16, <1>0 DEF EndOfOutput, Break, childVars, Answered
  <2>4. Fresh' /\ Apart'
    BY <1>16, <1>0, <1>a, <2>1, <2>2 DEF EndOfOutput, Break, queueVars, childVars, stopVars,
       Fresh, Apart
  <2>5. Leaving'
    BY <1>16, <1>0, <1>a, <2>1, <2>2 DEF EndOfOutput, Break, queueVars, childVars, stopVars,
       Leaving
  <2>6. ToldTheTruth'
    BY <1>16, <1>0, <1>a, <2>1, <2>2 DEF EndOfOutput, Break, queueVars, childVars, stopVars,
       ToldTheTruth, Fresh, Apart
  <2>7. Reap' /\ StoppedChild'
    BY <1>16, <1>0 DEF EndOfOutput, Break, queueVars, childVars, stopVars, Reap, StoppedChild,
       TypeOK
  <2> QED BY <1>0, <2>1, <2>3, <2>4, <2>5, <2>6, <2>7 DEF IInv
<1>17. CASE StopChild
  <2>1. Queued' = Queued /\ Cancelled' = Cancelled /\ Ordered(cmdq)'
    BY <1>17, <1>0, QueueStays DEF StopChild, queueVars, pipeVars, childVars
  <2>2. Frames' = Frames
    BY <1>17, FramesStay DEF StopChild, pipeVars
  <2>3. Answered'
    BY <1>17, <1>0 DEF StopChild, childVars, Answered
  <2>4. Fresh' /\ Apart'
    BY <1>17, <1>0, <1>a, <2>1, <2>2 DEF StopChild, queueVars, pipeVars, childVars, Fresh, Apart
  <2>5. Leaving'
    BY <1>17, <1>0, <1>a, <2>1, <2>2 DEF StopChild, queueVars, pipeVars, childVars, Leaving
  <2>6. ToldTheTruth'
    BY <1>17, <1>0, <1>a, <2>1, <2>2 DEF StopChild, queueVars, pipeVars, childVars, ToldTheTruth,
       Fresh, Apart
  <2>7. Reap' /\ StoppedChild'
    BY <1>17, <1>0 DEF StopChild, queueVars, pipeVars, childVars, Reap, StoppedChild, TypeOK
  <2> QED BY <1>0, <2>1, <2>3, <2>4, <2>5, <2>6, <2>7 DEF IInv
<1>18. CASE GraceKill
  <2>1. Queued' = Queued /\ Cancelled' = Cancelled /\ Ordered(cmdq)'
    BY <1>18, <1>0, QueueStays DEF GraceKill, queueVars, actorVars, pipeVars, stopVars
  <2>2. Frames' = Frames
    BY <1>18, FramesStay DEF GraceKill, pipeVars
  <2>3. Answered'
    BY <1>18, <1>0 DEF GraceKill, Answered
  <2>4. Fresh' /\ Apart'
    BY <1>18, <1>0, <1>a, <2>1, <2>2 DEF GraceKill, queueVars, actorVars, pipeVars, stopVars,
       Fresh, Apart
  <2>5. Leaving'
    BY <1>18, <1>0, <1>a, <2>1, <2>2 DEF GraceKill, queueVars, actorVars, pipeVars, stopVars,
       Leaving
  <2>6. ToldTheTruth'
    BY <1>18, <1>0, <1>a, <2>1, <2>2 DEF GraceKill, queueVars, actorVars, pipeVars, stopVars,
       ToldTheTruth, Fresh, Apart
  <2>7. Reap' /\ StoppedChild'
    BY <1>18, <1>0 DEF GraceKill, queueVars, actorVars, pipeVars, stopVars, Reap, StoppedChild,
       TypeOK
  <2> QED BY <1>0, <2>1, <2>3, <2>4, <2>5, <2>6, <2>7 DEF IInv
<1>19. CASE Reaped
  <2>1. Queued' = Queued /\ Cancelled' = Cancelled /\ Ordered(cmdq)'
    BY <1>19, <1>0, QueueStays DEF Reaped, queueVars, pipeVars, childVars
  <2>2. Frames' = Frames
    BY <1>19, FramesStay DEF Reaped, pipeVars
  <2>3. Answered'
    BY <1>19, <1>0 DEF Reaped, childVars, Answered
  <2>4. Fresh' /\ Apart'
    BY <1>19, <1>0, <1>a, <2>1, <2>2 DEF Reaped, queueVars, pipeVars, childVars, Fresh, Apart
  <2>5. Leaving'
    BY <1>19, <1>0, <1>a, <2>1, <2>2 DEF Reaped, queueVars, pipeVars, childVars, Leaving
  <2>6. ToldTheTruth'
    BY <1>19, <1>0, <1>a, <2>1, <2>2 DEF Reaped, queueVars, pipeVars, childVars, ToldTheTruth,
       Fresh, Apart
  <2>7. Reap' /\ StoppedChild'
    BY <1>19, <1>0 DEF Reaped, queueVars, pipeVars, childVars, Reap, StoppedChild, TypeOK
  <2> QED BY <1>0, <2>1, <2>3, <2>4, <2>5, <2>6, <2>7 DEF IInv
<1>20. CASE Publish
  <2>1. Queued' = Queued /\ Cancelled' = Cancelled /\ Ordered(cmdq)'
    BY <1>20, <1>0, QueueStays DEF Publish, queueVars, pipeVars, childVars, stopVars
  <2>2. Frames' = Frames
    BY <1>20, FramesStay DEF Publish, pipeVars
  <2>3. Answered'
    BY <1>20, <1>0 DEF Publish, childVars, Answered
  <2>4. Fresh' /\ Apart'
    BY <1>20, <1>0, <1>a, <2>1, <2>2 DEF Publish, queueVars, pipeVars, childVars, stopVars, Fresh,
       Apart
  <2>5. Leaving'
    BY <1>20, <1>0, <1>a, <2>1, <2>2 DEF Publish, queueVars, pipeVars, childVars, stopVars,
       Leaving
  <2>6. ToldTheTruth'
    BY <1>20, <1>0, <1>a, <2>1, <2>2 DEF Publish, queueVars, pipeVars, childVars, stopVars,
       ToldTheTruth, Fresh, Apart
  <2>7. Reap' /\ StoppedChild'
    BY <1>20, <1>0 DEF Publish, queueVars, pipeVars, childVars, stopVars, Reap, StoppedChild,
       TypeOK
  <2> QED BY <1>0, <2>1, <2>3, <2>4, <2>5, <2>6, <2>7 DEF IInv
<1>21. CASE Drain
  <2>1. Queued' = Queued /\ Cancelled' = Cancelled /\ Ordered(cmdq)'
    BY <1>21, <1>0, QueueStays DEF Drain, queueVars, pipeVars, childVars, stopVars
  <2>2. Frames' = Frames
    BY <1>21, FramesStay DEF Drain, pipeVars
  <2>3. Answered'
    BY <1>21, <1>0 DEF Drain, childVars, Answered
  <2>4. Fresh' /\ Apart'
    BY <1>21, <1>0, <1>a, <2>1, <2>2 DEF Drain, ClassFailure, queueVars, pipeVars, childVars,
       stopVars, Fresh, Apart
  <2>5. Leaving'
    BY <1>21, <1>0, <1>a, <2>1, <2>2 DEF Drain, ClassFailure, queueVars, pipeVars, childVars,
       stopVars, Leaving
  <2>6. ToldTheTruth'
    BY <1>21, <1>0, <1>a, <2>1, <2>2 DEF Drain, ClassFailure, queueVars, pipeVars, childVars,
       stopVars, ToldTheTruth, Fresh, Apart
  <2>7. Reap' /\ StoppedChild'
    BY <1>21, <1>0 DEF Drain, queueVars, pipeVars, childVars, stopVars, Reap, StoppedChild, TypeOK
  <2> QED BY <1>0, <2>1, <2>3, <2>4, <2>5, <2>6, <2>7 DEF IInv
<1>22. CASE Close
  <2>1. Queued' = {} /\ Cancelled' = {} /\ Ordered(cmdq)'
    BY SMTT(30), <1>22 DEF Close, Queued, Cancelled, Holds, Ordered
  <2>2. Frames' = Frames
    BY <1>22, FramesStay DEF Close, pipeVars
  <2>3. Answered'
    BY <1>22, <1>0 DEF Close, childVars, Answered
  <2>4. Fresh' /\ Apart'
    BY <1>22, <1>0, <1>a, <2>1, <2>2 DEF Close, pipeVars, childVars, Fresh, Apart
  <2>5. Leaving'
    BY <1>22, <1>0, <1>a, <2>1, <2>2 DEF Close, pipeVars, childVars, Leaving
  <2>6. ToldTheTruth'
    BY <1>22, <1>0, <1>a, <2>1, <2>2 DEF Close, pipeVars, childVars, ToldTheTruth, Fresh, Apart
  <2>7. Reap' /\ StoppedChild'
    BY <1>22, <1>0 DEF Close, pipeVars, childVars, Reap, StoppedChild, TypeOK
  <2> QED BY <1>0, <2>1, <2>3, <2>4, <2>5, <2>6, <2>7 DEF IInv
<1>23. CASE WriteFrame
  <2>1. Queued' = Queued /\ Cancelled' = Cancelled /\ Ordered(cmdq)'
    BY <1>23, <1>0, QueueStays DEF WriteFrame, queueVars, actorVars, stopVars
  <2>2. Head(writeq) \in Frames /\ Frames' \subseteq Frames /\ Frames \subseteq Frames' \cup {Head(writeq)}
    BY <1>23, <1>0, OnTail, Elements DEF WriteFrame, TypeOK, Frames
  <2>3. Answered'
    BY <1>23, <1>0 DEF WriteFrame, Answered
  <2>4. Fresh' /\ Apart'
    BY SMTT(30), <1>23, <1>0, <1>a, <2>1, <2>2
       DEF WriteFrame, queueVars, actorVars, stopVars, Fresh, Apart
  <2>5. Leaving'
    BY <1>23, <1>0, <1>a, <2>1, <2>2 DEF WriteFrame, queueVars, actorVars, stopVars, Leaving
  <2>6. ToldTheTruth'
    BY SMTT(30), <1>23, <1>0, <1>a, <2>1, <2>2
       DEF WriteFrame, queueVars, actorVars, stopVars, ToldTheTruth,
       Fresh, Apart
  <2>7. Reap' /\ StoppedChild'
    BY <1>23, <1>0 DEF WriteFrame, queueVars, actorVars, stopVars, Reap, StoppedChild, TypeOK
  <2> QED BY <1>0, <2>1, <2>3, <2>4, <2>5, <2>6, <2>7 DEF IInv
<1>24. CASE WriteFails
  <2>1. Queued' = Queued /\ Cancelled' = Cancelled /\ Ordered(cmdq)'
    BY <1>24, <1>0, QueueStays DEF WriteFails, queueVars, actorVars, childVars, stopVars
  <2>2. Frames' = Frames
    BY <1>24, FramesStay DEF WriteFails
  <2>3. Answered'
    BY <1>24, <1>0 DEF WriteFails, childVars, Answered
  <2>4. Fresh' /\ Apart'
    BY <1>24, <1>0, <1>a, <2>1, <2>2 DEF WriteFails, queueVars, actorVars, childVars, stopVars,
       Fresh, Apart
  <2>5. Leaving'
    BY <1>24, <1>0, <1>a, <2>1, <2>2 DEF WriteFails, queueVars, actorVars, childVars, stopVars,
       Leaving
  <2>6. ToldTheTruth'
    BY <1>24, <1>0, <1>a, <2>1, <2>2 DEF WriteFails, queueVars, actorVars, childVars, stopVars,
       ToldTheTruth, Fresh, Apart
  <2>7. Reap' /\ StoppedChild'
    BY <1>24, <1>0 DEF WriteFails, queueVars, actorVars, childVars, stopVars, Reap, StoppedChild,
       TypeOK
  <2> QED BY <1>0, <2>1, <2>3, <2>4, <2>5, <2>6, <2>7 DEF IInv
<1>25. CASE ChildExits
  <2>1. Queued' = Queued /\ Cancelled' = Cancelled /\ Ordered(cmdq)'
    BY <1>25, <1>0, QueueStays DEF ChildExits, queueVars, actorVars, pipeVars, stopVars
  <2>2. Frames' = Frames
    BY <1>25, FramesStay DEF ChildExits, pipeVars
  <2>3. Answered'
    BY <1>25, <1>0 DEF ChildExits, Answered
  <2>4. Fresh' /\ Apart'
    BY <1>25, <1>0, <1>a, <2>1, <2>2 DEF ChildExits, queueVars, actorVars, pipeVars, stopVars,
       Fresh, Apart
  <2>5. Leaving'
    BY <1>25, <1>0, <1>a, <2>1, <2>2 DEF ChildExits, queueVars, actorVars, pipeVars, stopVars,
       Leaving
  <2>6. ToldTheTruth'
    BY <1>25, <1>0, <1>a, <2>1, <2>2 DEF ChildExits, queueVars, actorVars, pipeVars, stopVars,
       ToldTheTruth, Fresh, Apart
  <2>7. Reap' /\ StoppedChild'
    BY <1>25, <1>0 DEF ChildExits, queueVars, actorVars, pipeVars, stopVars, Reap, StoppedChild,
       TypeOK
  <2> QED BY <1>0, <2>1, <2>3, <2>4, <2>5, <2>6, <2>7 DEF IInv
<1>26. CASE \E c \in Call, kind \in Kinds : ChildAnswers(c, kind)
  <2> PICK c \in Call, kind \in Kinds : ChildAnswers(c, kind)
    BY <1>26
  <2>1. Queued' = Queued /\ Cancelled' = Cancelled /\ Ordered(cmdq)'
    BY <1>0, QueueStays DEF ChildAnswers, queueVars, actorVars, pipeVars, stopVars
  <2>2. Frames' = Frames
    BY FramesStay DEF ChildAnswers, pipeVars
  <2>3. Answered'
    <3>1. Response(c, kind) \in Lines /\ lines \in Seq(Lines) /\ c \in got /\ got' = got
          /\ lines' = Append(lines, Response(c, kind))
      BY SMTT(30), <1>0 DEF ChildAnswers, Lines, TypeOK
    <3>2. \A i \in DOMAIN lines' : \/ i \in DOMAIN lines /\ lines'[i] = lines[i]
                                   \/ lines'[i] = Response(c, kind)
      BY SMTT(30), <3>1
    <3>3. Answered
      BY <1>0
    <3>4. Response(c, kind).id = c
      BY DEF Response
    <3>5. \A i \in DOMAIN lines' : lines'[i].t = "response" => lines'[i].id \in got
      BY <3>1, <3>2, <3>3, <3>4 DEF Answered
    <3> QED BY <3>1, <3>5 DEF Answered
  <2>4. Fresh' /\ Apart'
    BY <1>0, <1>a, <2>1, <2>2 DEF ChildAnswers, queueVars, actorVars, pipeVars, stopVars, Fresh,
       Apart
  <2>5. Leaving'
    BY <1>0, <1>a, <2>1, <2>2 DEF ChildAnswers, queueVars, actorVars, pipeVars, stopVars, Leaving
  <2>6. ToldTheTruth'
    BY <1>0, <1>a, <2>1, <2>2 DEF ChildAnswers, queueVars, actorVars, pipeVars, stopVars,
       ToldTheTruth, Fresh, Apart
  <2>7. Reap' /\ StoppedChild'
    BY <1>0 DEF ChildAnswers, queueVars, actorVars, pipeVars, stopVars, Reap, StoppedChild, TypeOK
  <2> QED BY <1>0, <2>1, <2>3, <2>4, <2>5, <2>6, <2>7 DEF IInv
<1>27. CASE \E kind \in {"noid", "receive", "unframed"} : ChildEmits(kind)
  <2> PICK kind \in {"noid", "receive", "unframed"} : ChildEmits(kind)
    BY <1>27
  <2>1. Queued' = Queued /\ Cancelled' = Cancelled /\ Ordered(cmdq)'
    BY <1>0, QueueStays DEF ChildEmits, queueVars, actorVars, pipeVars, stopVars
  <2>2. Frames' = Frames
    BY FramesStay DEF ChildEmits, pipeVars
  <2>3. Answered'
    <3>1. Notice(kind) \in Lines /\ lines \in Seq(Lines) /\ got' = got
          /\ lines' = Append(lines, Notice(kind))
      BY SMTT(30), <1>0 DEF ChildEmits, Lines, TypeOK
    <3>2. \A i \in DOMAIN lines' : \/ i \in DOMAIN lines /\ lines'[i] = lines[i]
                                   \/ lines'[i] = Notice(kind)
      BY SMTT(30), <3>1
    <3> QED BY SMTT(30), <3>1, <3>2, <1>0 DEF Answered, Notice
  <2>4. Fresh' /\ Apart'
    BY <1>0, <1>a, <2>1, <2>2 DEF ChildEmits, queueVars, actorVars, pipeVars, stopVars, Fresh,
       Apart
  <2>5. Leaving'
    BY <1>0, <1>a, <2>1, <2>2 DEF ChildEmits, queueVars, actorVars, pipeVars, stopVars, Leaving
  <2>6. ToldTheTruth'
    BY <1>0, <1>a, <2>1, <2>2 DEF ChildEmits, queueVars, actorVars, pipeVars, stopVars,
       ToldTheTruth, Fresh, Apart
  <2>7. Reap' /\ StoppedChild'
    BY <1>0 DEF ChildEmits, queueVars, actorVars, pipeVars, stopVars, Reap, StoppedChild, TypeOK
  <2> QED BY <1>0, <2>1, <2>3, <2>4, <2>5, <2>6, <2>7 DEF IInv
<1>28. CASE ShutdownStarts
  <2>1. Queued' = Queued /\ Cancelled' = Cancelled /\ Ordered(cmdq)'
    BY <1>28, <1>0, QueueStays DEF ShutdownStarts, queueVars, actorVars, pipeVars, childVars
  <2>2. Frames' = Frames
    BY <1>28, FramesStay DEF ShutdownStarts, pipeVars
  <2>3. Answered'
    BY <1>28, <1>0 DEF ShutdownStarts, childVars, Answered
  <2>4. Fresh' /\ Apart'
    BY <1>28, <1>0, <1>a, <2>1, <2>2 DEF ShutdownStarts, queueVars, actorVars, pipeVars,
       childVars, Fresh, Apart
  <2>5. Leaving'
    BY <1>28, <1>0, <1>a, <2>1, <2>2 DEF ShutdownStarts, queueVars, actorVars, pipeVars,
       childVars, Leaving
  <2>6. ToldTheTruth'
    BY <1>28, <1>0, <1>a, <2>1, <2>2 DEF ShutdownStarts, queueVars, actorVars, pipeVars,
       childVars, ToldTheTruth, Fresh, Apart
  <2>7. Reap' /\ StoppedChild'
    BY <1>28, <1>0 DEF ShutdownStarts, queueVars, actorVars, pipeVars, childVars, Reap,
       StoppedChild, TypeOK
  <2> QED BY <1>0, <2>1, <2>3, <2>4, <2>5, <2>6, <2>7 DEF IInv
<1>29. CASE ShutdownSends
  <2>1. Ordered(cmdq)' /\ Queued' = Queued
        /\ Cancelled' = Cancelled
    <3>1. CASE actor = "done"
      BY <1>29, <3>1, <1>0, QueueStays DEF ShutdownSends
    <3>2. CASE actor # "done"
      <4>1. cmdq' = Append(cmdq, Shutdown) /\ Shutdown \in Commands
        BY <1>29, <3>2 DEF ShutdownSends, Commands
      <4>2. Ordered(cmdq)'
        BY <4>1, <1>0, OrderedAppend, Distinct DEF TypeOK
      <4> QED BY <1>29, <4>1, <4>2, <1>0, <1>a, QueueGrows DEF ShutdownSends
    <3> QED BY <3>1, <3>2
  <2>2. Frames' = Frames
    BY <1>29, FramesStay DEF ShutdownSends, pipeVars
  <2>3. Answered'
    BY <1>29, <1>0 DEF ShutdownSends, childVars, Answered
  <2>4. Fresh' /\ Apart'
    BY <1>29, <1>0, <1>a, <2>1, <2>2 DEF ShutdownSends, actorVars, pipeVars, childVars, Fresh,
       Apart
  <2>5. Leaving'
    BY <1>29, <1>0, <1>a, <2>1, <2>2 DEF ShutdownSends, actorVars, pipeVars, childVars, Leaving
  <2>6. ToldTheTruth'
    BY <1>29, <1>0, <1>a, <2>1, <2>2 DEF ShutdownSends, actorVars, pipeVars, childVars,
       ToldTheTruth, Fresh, Apart
  <2>7. Reap' /\ StoppedChild'
    BY <1>29, <1>0 DEF ShutdownSends, actorVars, pipeVars, childVars, Reap, StoppedChild, TypeOK
  <2> QED BY <1>0, <2>1, <2>3, <2>4, <2>5, <2>6, <2>7 DEF IInv
<1>30. CASE ShutdownOverdue
  <2>1. Queued' = Queued /\ Cancelled' = Cancelled /\ Ordered(cmdq)'
    BY <1>30, <1>0, QueueStays DEF ShutdownOverdue, queueVars, actorVars, pipeVars, childVars
  <2>2. Frames' = Frames
    BY <1>30, FramesStay DEF ShutdownOverdue, pipeVars
  <2>3. Answered'
    BY <1>30, <1>0 DEF ShutdownOverdue, childVars, Answered
  <2>4. Fresh' /\ Apart'
    BY <1>30, <1>0, <1>a, <2>1, <2>2 DEF ShutdownOverdue, queueVars, actorVars, pipeVars,
       childVars, Fresh, Apart
  <2>5. Leaving'
    BY <1>30, <1>0, <1>a, <2>1, <2>2 DEF ShutdownOverdue, queueVars, actorVars, pipeVars,
       childVars, Leaving
  <2>6. ToldTheTruth'
    BY <1>30, <1>0, <1>a, <2>1, <2>2 DEF ShutdownOverdue, queueVars, actorVars, pipeVars,
       childVars, ToldTheTruth, Fresh, Apart
  <2>7. Reap' /\ StoppedChild'
    BY <1>30, <1>0 DEF ShutdownOverdue, queueVars, actorVars, pipeVars, childVars, Reap,
       StoppedChild, TypeOK
  <2> QED BY <1>0, <2>1, <2>3, <2>4, <2>5, <2>6, <2>7 DEF IInv
<1>31. CASE ShutdownTimesOut
  <2>1. Queued' = Queued /\ Cancelled' = Cancelled /\ Ordered(cmdq)'
    BY <1>31, <1>0, QueueStays DEF ShutdownTimesOut, queueVars, actorVars, pipeVars, childVars
  <2>2. Frames' = Frames
    BY <1>31, FramesStay DEF ShutdownTimesOut, pipeVars
  <2>3. Answered'
    BY <1>31, <1>0 DEF ShutdownTimesOut, childVars, Answered
  <2>4. Fresh' /\ Apart'
    BY <1>31, <1>0, <1>a, <2>1, <2>2 DEF ShutdownTimesOut, queueVars, actorVars, pipeVars,
       childVars, Fresh, Apart
  <2>5. Leaving'
    BY <1>31, <1>0, <1>a, <2>1, <2>2 DEF ShutdownTimesOut, queueVars, actorVars, pipeVars,
       childVars, Leaving
  <2>6. ToldTheTruth'
    BY <1>31, <1>0, <1>a, <2>1, <2>2 DEF ShutdownTimesOut, queueVars, actorVars, pipeVars,
       childVars, ToldTheTruth, Fresh, Apart
  <2>7. Reap' /\ StoppedChild'
    BY <1>31, <1>0 DEF ShutdownTimesOut, queueVars, actorVars, pipeVars, childVars, Reap,
       StoppedChild, TypeOK
  <2> QED BY <1>0, <2>1, <2>3, <2>4, <2>5, <2>6, <2>7 DEF IInv
<1>32. CASE ShutdownKills
  <2>1. Queued' = Queued /\ Cancelled' = Cancelled /\ Ordered(cmdq)'
    BY <1>32, <1>0, QueueStays DEF ShutdownKills, queueVars, actorVars, pipeVars
  <2>2. Frames' = Frames
    BY <1>32, FramesStay DEF ShutdownKills, pipeVars
  <2>3. Answered'
    BY <1>32, <1>0 DEF ShutdownKills, Answered
  <2>4. Fresh' /\ Apart'
    BY <1>32, <1>0, <1>a, <2>1, <2>2 DEF ShutdownKills, queueVars, actorVars, pipeVars, Fresh,
       Apart
  <2>5. Leaving'
    BY <1>32, <1>0, <1>a, <2>1, <2>2 DEF ShutdownKills, queueVars, actorVars, pipeVars, Leaving
  <2>6. ToldTheTruth'
    BY <1>32, <1>0, <1>a, <2>1, <2>2 DEF ShutdownKills, queueVars, actorVars, pipeVars,
       ToldTheTruth, Fresh, Apart
  <2>7. Reap' /\ StoppedChild'
    BY <1>32, <1>0 DEF ShutdownKills, queueVars, actorVars, pipeVars, Reap, StoppedChild, TypeOK
  <2> QED BY <1>0, <2>1, <2>3, <2>4, <2>5, <2>6, <2>7 DEF IInv
<1>33. CASE ForceKill
  <2>1. Queued' = Queued /\ Cancelled' = Cancelled /\ Ordered(cmdq)'
    BY <1>33, <1>0, QueueStays DEF ForceKill, queueVars, actorVars, pipeVars, stopVars
  <2>2. Frames' = Frames
    BY <1>33, FramesStay DEF ForceKill, pipeVars
  <2>3. Answered'
    BY <1>33, <1>0 DEF ForceKill, Answered
  <2>4. Fresh' /\ Apart'
    BY <1>33, <1>0, <1>a, <2>1, <2>2 DEF ForceKill, queueVars, actorVars, pipeVars, stopVars,
       Fresh, Apart
  <2>5. Leaving'
    BY <1>33, <1>0, <1>a, <2>1, <2>2 DEF ForceKill, queueVars, actorVars, pipeVars, stopVars,
       Leaving
  <2>6. ToldTheTruth'
    BY <1>33, <1>0, <1>a, <2>1, <2>2 DEF ForceKill, queueVars, actorVars, pipeVars, stopVars,
       ToldTheTruth, Fresh, Apart
  <2>7. Reap' /\ StoppedChild'
    BY <1>33, <1>0 DEF ForceKill, queueVars, actorVars, pipeVars, stopVars, Reap, StoppedChild,
       TypeOK
  <2> QED BY <1>0, <2>1, <2>3, <2>4, <2>5, <2>6, <2>7 DEF IInv
<1>34. CASE UNCHANGED vars
  <2>1. Queued' = Queued /\ Cancelled' = Cancelled /\ Ordered(cmdq)' /\ Frames' = Frames
    BY <1>34, <1>0, QueueStays, FramesStay DEF vars, queueVars, pipeVars
  <2> QED BY <1>34, <1>0, <2>1 DEF IInv, Fresh, Apart, Answered, Leaving, Reap, ToldTheTruth, StoppedChild,
             vars, queueVars, actorVars, childVars, stopVars
<1> QED
  BY <1>1, <1>2, <1>3, <1>4, <1>5, <1>6, <1>7, <1>8, <1>9, <1>10, <1>11, <1>12, <1>13, <1>14,
     <1>15, <1>16, <1>17, <1>18, <1>19, <1>20, <1>21, <1>22, <1>23, <1>24, <1>25, <1>26, <1>27,
     <1>28, <1>29, <1>30, <1>31, <1>32, <1>33, <1>34 DEF Next

(* The inductive invariant holds of every behaviour.                        *)
THEOREM Invariance == Spec => []IInv
BY InitInv, InvStep, PTL DEF Spec

(* No mutating call that is told something definite about not having run    *)
(* has reached the engine or ever will, and whoever is told an answer was   *)
(* read by it (dispatch_call, handle_upstream_line, the terminal drain).    *)
THEOREM AnswersAreTrue == Spec => []ToldTheTruth
<1>1. IInv => ToldTheTruth
  BY DEF IInv
<1> QED BY Invariance, <1>1, PTL

(* Every entry of the pending map has a caller that waits, a cancel on its  *)
(* way, or the terminal drain ahead.                                        *)
THEOREM PendingIsOwned == Spec => []NoPendingLeak
<1>1. IInv => NoPendingLeak
  BY DEF IInv, Leaving, NoPendingLeak
<1> QED BY Invariance, <1>1, PTL

(* shutdown() returns only after the child was reaped or killed.            *)
THEOREM ShutdownStopsChild == Spec => []StoppedChild
<1>1. IInv => StoppedChild
  BY DEF IInv
<1> QED BY Invariance, <1>1, PTL
=============================================================================
