-------------------------- MODULE HostSessionProofs --------------------------
(***************************************************************************)
(* Machine-checked proofs about HostSession, for every set of frames, every *)
(* assignment of accounts and every capacity: the admission budget counts   *)
(* the dispatches in flight, a request is answered at most once, and no     *)
(* send reaches the engine for an account that a delete has removed.        *)
(***************************************************************************)
EXTENDS HostSession, FiniteSetTheorems, TLAPS

(* Zenon proves the leaves that do not name another prover.                *)
USE ZenonT(30)

Types ==
    /\ stage \in {"challenge", "open", "teardown", "drain", "closed", "exited"}
    /\ scene \subseteq Frame
    /\ state \in [Frame -> Idle \cup Acquiring \cup Running]
    /\ total \in Int /\ byAccount \in [Accounts -> Int]
    /\ answers \in [Frame -> Nat]

(* A frame has an answer exactly when its dispatch is over; one that was    *)
(* dropped with the session has none.                                       *)
Answered == \A f \in Frame : answers[f] = IF state[f] = "over" THEN 1 ELSE 0

OfAccount(a) == {f \in InFlight : Account[f] = a}

Exact ==
    /\ total = Cardinality(InFlight)
    /\ \A a \in Accounts : byAccount[a] = Cardinality(OfAccount(a))

(* The budget is exact until the session function returns, which drops it   *)
(* with the dispatches it counted.                                          *)
Counted == stage \notin {"closed", "exited"} => Exact

(* The account mutex has one holder.                                        *)
Mutex ==
    \A f, g \in Frame :
        HoldsLock(f) /\ HoldsLock(g) /\ Account[f] = Account[g] => f = g

(* A send between its look-up and the engine call still has its account.    *)
LookedUp ==
    \A f \in Frame : Kind[f] = "send" /\ state[f] = "engine" => Account[f] \in exists

IInv == Types /\ Answered /\ Counted /\ Mutex /\ LookedUp

-----------------------------------------------------------------------------
(* What a change of one frame's state does to the set of dispatches in      *)
(* flight.                                                                  *)

(* The dispatches in flight are finitely many, of every account.            *)
LEMMA InFlightFinite ==
    /\ IsFiniteSet(InFlight)
    /\ \A a \in Accounts : IsFiniteSet(OfAccount(a))
<1>1. InFlight \in SUBSET Frame /\ \A a \in Accounts : OfAccount(a) \in SUBSET Frame
  BY DEF InFlight, OfAccount
<1>2. QED
  BY <1>1, HostAssumption, FS_Subset DEF HostAssumption

(* A step within the dispatch keeps the frame in flight.                    *)
LEMMA Stays ==
    ASSUME Types, NEW f \in Frame, NEW s, state[f] \notin Idle, s \notin Idle,
           state' = [state EXCEPT ![f] = s]
    PROVE  InFlight' = InFlight /\ \A a \in Accounts : OfAccount(a)' = OfAccount(a)
<1>1. InFlight' = InFlight
  BY DEF Types, InFlight
<1>2. QED
  BY <1>1 DEF OfAccount

(* An admission adds the frame, to its account only.                        *)
LEMMA Enters ==
    ASSUME Types, NEW f \in Frame, NEW s, state[f] \in Idle, s \notin Idle,
           state' = [state EXCEPT ![f] = s]
    PROVE  /\ InFlight' = InFlight \cup {f} /\ f \notin InFlight
           /\ \A a \in Accounts :
                OfAccount(a)' = IF Account[f] = a THEN OfAccount(a) \cup {f} ELSE OfAccount(a)
<1>1. InFlight' = InFlight \cup {f} /\ f \notin InFlight
  BY DEF Types, InFlight
<1>2. QED
  BY <1>1 DEF OfAccount

(* An answer removes it.                                                    *)
LEMMA Leaves ==
    ASSUME Types, NEW f \in Frame, NEW s, state[f] \notin Idle, s \in Idle,
           state' = [state EXCEPT ![f] = s]
    PROVE  /\ InFlight' = InFlight \ {f} /\ f \in InFlight
           /\ \A a \in Accounts :
                OfAccount(a)' = IF Account[f] = a THEN OfAccount(a) \ {f} ELSE OfAccount(a)
<1>1. InFlight' = InFlight \ {f} /\ f \in InFlight
  BY DEF Types, InFlight
<1>2. QED
  BY SMTT(30), <1>1 DEF OfAccount

(* A refusal before admission changes nothing.                              *)
LEMMA Refused ==
    ASSUME Types, NEW f \in Frame, NEW s, state[f] \in Idle, s \in Idle,
           state' = [state EXCEPT ![f] = s]
    PROVE  InFlight' = InFlight /\ \A a \in Accounts : OfAccount(a)' = OfAccount(a)
<1>1. InFlight' = InFlight
  BY DEF Types, InFlight
<1>2. QED
  BY <1>1 DEF OfAccount

-----------------------------------------------------------------------------
(* The effect of the building blocks of the actions.                        *)

(* A dispatch that moves on keeps budget and answers.                       *)
LEMMA GotoKeeps ==
    ASSUME IInv, NEW f \in Frame, NEW s \in Acquiring \cup Running,
           state[f] \notin Idle, Goto(f, s), UNCHANGED scene
    PROVE  Types' /\ Answered' /\ Counted'
<1>1. Types'
  BY DEF IInv, Types, Goto, Idle, Acquiring, Running
<1>2. Answered'
  BY DEF IInv, Types, Answered, Goto, Idle, Acquiring, Running
<1>3. s \notin Idle /\ state' = [state EXCEPT ![f] = s]
  BY DEF Goto, Idle, Acquiring, Running
<1>4. InFlight' = InFlight /\ \A a \in Accounts : OfAccount(a)' = OfAccount(a)
  BY <1>3, Stays DEF IInv
<1>5. Counted'
  BY <1>4 DEF IInv, Counted, Exact, Goto
<1>6. QED
  BY <1>1, <1>2, <1>5

(* An answer returns the slot of the dispatch it ends, whatever becomes of  *)
(* the frame in the write queue.                                            *)
LEMMA AnswerKeeps ==
    ASSUME IInv, NEW f \in Frame, state[f] \notin Idle, Answer(f), Polled, UNCHANGED scene
    PROVE  Types' /\ Answered' /\ Counted' /\ state' = [state EXCEPT ![f] = "over"]
<1>0. state' = [state EXCEPT ![f] = "over"]
  BY DEF Answer
<1>a. Account[f] # None => Account[f] \in Accounts
  BY DEF Accounts
<1>1. Types'
  BY SMTT(30), <1>0, <1>a DEF IInv, Types, Answer, Complete, Idle, Acquiring, Running, Polled
<1>2. Answered'
  BY SMTT(30), <1>0 DEF IInv, Types, Answered, Answer, Idle
<1>3. /\ InFlight' = InFlight \ {f} /\ f \in InFlight
      /\ \A a \in Accounts :
           OfAccount(a)' = IF Account[f] = a THEN OfAccount(a) \ {f} ELSE OfAccount(a)
  BY <1>0, Leaves DEF IInv, Idle
<1>4. Exact
  BY DEF IInv, Counted, Polled
<1>5. total' = Cardinality(InFlight')
  BY <1>3, <1>4, InFlightFinite, FS_RemoveElement DEF Exact, Answer, Complete
<1>6. ASSUME NEW a \in Accounts PROVE byAccount'[a] = Cardinality(OfAccount(a)')
  <2>1. CASE Account[f] = a
    <3>1. f \in OfAccount(a) /\ Account[f] # None
      BY <2>1, <1>3 DEF OfAccount, Accounts
    <3>2. Cardinality(OfAccount(a) \ {f}) = Cardinality(OfAccount(a)) - 1
      BY <3>1, InFlightFinite, FS_RemoveElement
    <3>3. byAccount'[a] = byAccount[a] - 1
      BY <2>1, <3>1 DEF IInv, Types, Answer, Complete
    <3>4. QED
      BY <2>1, <1>3, <1>4, <3>2, <3>3 DEF Exact
  <2>2. CASE Account[f] # a
    <3>1. byAccount'[a] = byAccount[a]
      BY <2>2, <1>a DEF IInv, Types, Answer, Complete
    <3>2. QED
      BY <2>2, <1>3, <1>4, <3>1 DEF Exact
  <2>3. QED
    BY <2>1, <2>2
<1>7. QED
  BY <1>0, <1>1, <1>2, <1>5, <1>6 DEF Counted, Exact

(* Nobody gets hold of the mutex, or past the look-up, by leaving.          *)
LEMMA OverKeeps ==
    ASSUME IInv, NEW f \in Frame, state' = [state EXCEPT ![f] = "over"],
           exists' = exists
    PROVE  Mutex' /\ LookedUp'
<1>1. Mutex'
  BY DEF IInv, Types, Mutex, HoldsLock, Running
<1>2. LookedUp'
  BY DEF IInv, Types, LookedUp
<1>3. QED
  BY <1>1, <1>2

(* A step that touches neither frames nor budget keeps everything, unless   *)
(* it reopens the session.                                                  *)
LEMMA QuietKeeps ==
    ASSUME IInv, UNCHANGED <<scene, state, total, byAccount, exists, answers>>,
           stage' \in {"challenge", "open", "teardown", "drain", "closed", "exited"},
           stage \in {"closed", "exited"} => stage' \in {"closed", "exited"}
    PROVE  IInv'
<1>1. InFlight' = InFlight /\ \A a \in Accounts : OfAccount(a)' = OfAccount(a)
  BY DEF InFlight, OfAccount
<1>2. Counted'
  BY <1>1 DEF IInv, Counted, Exact
<1>3. Mutex' /\ LookedUp'
  BY DEF IInv, Mutex, LookedUp, HoldsLock
<1>4. Types' /\ Answered'
  BY DEF IInv, Types, Answered
<1>5. QED
  BY <1>2, <1>3, <1>4 DEF IInv

(* A dispatch that is answered lets go of the mutex; only a delete that is  *)
(* settled takes the account with it, and that one held the mutex.          *)
LEMMA AnsweredKeeps ==
    ASSUME IInv, NEW f \in Frame, state[f] \notin Idle, Answer(f), Polled,
           UNCHANGED <<scene, exists>>
    PROVE  IInv'
BY AnswerKeeps, OverKeeps DEF IInv

(* A refused frame costs nothing and is answered once.                      *)
LEMMA RefuseKeeps ==
    ASSUME IInv, NEW f \in Frame, state[f] = "new", stage = "open", Refuse(f), UNCHANGED scene
    PROVE  IInv'
<1>0. state' = [state EXCEPT ![f] = "over"] /\ exists' = exists
  BY DEF Refuse
<1>1. Types'
  BY SMTT(30), <1>0 DEF IInv, Types, Refuse, Idle
<1>2. Answered'
  BY SMTT(30), <1>0 DEF IInv, Types, Answered, Refuse
<1>3. InFlight' = InFlight /\ \A a \in Accounts : OfAccount(a)' = OfAccount(a)
  BY <1>0, Refused DEF IInv, Idle
<1>4. Counted'
  BY <1>3 DEF IInv, Counted, Exact, Refuse
<1>5. QED
  BY <1>0, <1>1, <1>2, <1>4, OverKeeps DEF IInv

(* An admission takes one slot of the budget and one of its account.        *)
LEMMA AdmitKeeps ==
    ASSUME IInv, NEW f \in Frame, Admit(f), UNCHANGED scene
    PROVE  IInv'
<1>0. state' = [state EXCEPT ![f] = "admitted"] /\ state[f] = "new" /\ stage = "open"
  BY DEF Admit
<1>a. Account[f] # None => Account[f] \in Accounts
  BY DEF Accounts
<1>1. Types'
  BY SMTT(30), <1>0, <1>a DEF IInv, Types, Admit, Idle, Acquiring
<1>2. Answered'
  BY <1>0 DEF IInv, Types, Answered, Admit
<1>3. /\ InFlight' = InFlight \cup {f} /\ f \notin InFlight
      /\ \A a \in Accounts :
           OfAccount(a)' = IF Account[f] = a THEN OfAccount(a) \cup {f} ELSE OfAccount(a)
  <2>1. state[f] \in Idle /\ "admitted" \notin Idle /\ Types
    BY <1>0 DEF Idle, IInv
  <2>2. QED
    BY <1>0, <2>1, Enters
<1>4. Exact
  BY <1>0 DEF IInv, Counted
<1>5. total' = Cardinality(InFlight')
  BY <1>3, <1>4, InFlightFinite, FS_AddElement DEF Exact, Admit
<1>6. ASSUME NEW a \in Accounts PROVE byAccount'[a] = Cardinality(OfAccount(a)')
  <2>1. CASE Account[f] = a
    <3>1. f \notin OfAccount(a) /\ Account[f] # None
      BY <2>1, <1>3 DEF OfAccount, Accounts
    <3>2. Cardinality(OfAccount(a) \cup {f}) = Cardinality(OfAccount(a)) + 1
      BY <3>1, InFlightFinite, FS_AddElement
    <3>3. byAccount'[a] = byAccount[a] + 1
      BY <2>1, <3>1 DEF IInv, Types, Admit
    <3>4. QED
      BY <2>1, <1>3, <1>4, <3>2, <3>3 DEF Exact
  <2>2. CASE Account[f] # a
    <3>1. byAccount'[a] = byAccount[a]
      BY <2>2, <1>a DEF IInv, Types, Admit
    <3>2. QED
      BY <2>2, <1>3, <1>4, <3>1 DEF Exact
  <2>3. QED
    BY <2>1, <2>2
<1>7. Mutex' /\ LookedUp'
  BY SMTT(30), <1>0 DEF IInv, Types, Mutex, LookedUp, HoldsLock, Running, Admit
<1>8. QED
  BY <1>1, <1>2, <1>5, <1>6, <1>7 DEF IInv, Counted, Exact

(* The session function returns: its dispatches are dropped unanswered.     *)
LEMMA DropKeeps ==
    ASSUME IInv, state' = Drop, stage' = "closed",
           UNCHANGED <<scene, total, byAccount, exists, answers>>
    PROVE  IInv'
<1>1. \A f \in Frame : state'[f] = IF state[f] \in Idle THEN state[f] ELSE "lost"
  BY DEF IInv, Types, Drop, InFlight
<1>2. Types'
  BY DEF IInv, Types, Drop, InFlight, Idle
<1>3. Answered'
  BY <1>1 DEF IInv, Answered, Idle
<1>4. Mutex' /\ LookedUp'
  BY <1>1 DEF Mutex, LookedUp, HoldsLock, Running, Idle
<1>5. QED
  BY <1>2, <1>3, <1>4 DEF IInv, Counted

-----------------------------------------------------------------------------
(* One step of a dispatch.                                                  *)

(* Where a frame is while its dispatch is under way.                        *)
LEMMA UnderWay ==
    \A s \in Acquiring \cup Running : s \notin Idle
BY DEF Acquiring, Running, Idle

(* A dispatch that moves on keeps the invariant when it takes no mutex that *)
(* is held and passes the look-up only with an account.                     *)
LEMMA MoveKeeps ==
    ASSUME IInv, NEW f \in Frame, NEW s \in Acquiring \cup Running, Goto(f, s),
           state[f] \notin Idle, UNCHANGED <<scene, exists>>,
           Mutating(f) /\ s \in {"lane", "global"} \cup Running =>
              \/ HoldsLock(f)
              \/ ~\E g \in Frame : HoldsLock(g) /\ Account[g] = Account[f],
           Kind[f] = "send" /\ s = "engine" => Account[f] \in exists
    PROVE  IInv'
<1>0. state' = [state EXCEPT ![f] = s]
  BY DEF Goto
<1>1. Types' /\ Answered' /\ Counted'
  BY GotoKeeps
<1>2. Mutex'
  BY <1>0 DEF IInv, Types, Mutex, HoldsLock
<1>3. LookedUp'
  BY <1>0 DEF IInv, Types, LookedUp
<1>4. QED
  BY <1>1, <1>2, <1>3 DEF IInv

(* Every step of a dispatch keeps the invariant.                            *)
LEMMA DispatchKeeps ==
    ASSUME IInv, NEW f \in Frame, Dispatch(f), UNCHANGED scene
    PROVE  IInv'
<1> USE UnderWay
<1>1. CASE BeginDelete(f)
  <2>1. Goto(f, "lock") /\ state[f] \notin Idle /\ exists' = exists
    BY <1>1 DEF BeginDelete, Acquiring
  <2>2. QED
    BY <2>1, MoveKeeps DEF Acquiring, Running
<1>2. CASE BeginSend(f)
  <2>1. state[f] \notin Idle /\ exists' = exists /\ Polled
    BY <1>2 DEF BeginSend, Acquiring, Answer, Goto
  <2>2. CASE Answer(f)
    BY <2>1, <2>2, AnsweredKeeps
  <2>3. CASE Goto(f, "lock")
    BY <2>1, <2>3, MoveKeeps DEF Acquiring, Running
  <2>4. QED
    BY <1>2, <2>2, <2>3 DEF BeginSend
<1>3. CASE BeginFinish(f)
  <2>1. state[f] \notin Idle /\ exists' = exists /\ Polled
    BY <1>3 DEF BeginFinish, Acquiring
  <2>2. CASE Answer(f)
    BY <2>1, <2>2, AnsweredKeeps
  <2>3. CASE Goto(f, "engine")
    BY <1>3, <2>1, <2>3, MoveKeeps DEF BeginFinish, Mutating, Acquiring, Running
  <2>4. QED
    BY <1>3, <2>2, <2>3 DEF BeginFinish
<1>4. CASE BeginOther(f)
  <2>1. Goto(f, "lane") /\ state[f] \notin Idle /\ exists' = exists /\ ~Mutating(f)
    BY <1>4 DEF BeginOther, Acquiring, Mutating
  <2>2. QED
    BY <2>1, MoveKeeps DEF Acquiring, Running
<1>5. CASE TakeLock(f)
  <2>1. /\ Goto(f, "lane") /\ state[f] \notin Idle /\ exists' = exists
        /\ ~\E g \in Frame : HoldsLock(g) /\ Account[g] = Account[f]
    BY <1>5 DEF TakeLock, Acquiring
  <2>2. QED
    BY <2>1, MoveKeeps DEF Acquiring, Running
<1>6. CASE TakeLane(f)
  <2>1. /\ Goto(f, "global") /\ state[f] \notin Idle /\ exists' = exists
        /\ Mutating(f) => HoldsLock(f)
    BY <1>6 DEF TakeLane, Acquiring, HoldsLock
  <2>2. QED
    BY <2>1, MoveKeeps DEF Acquiring, Running
<1>7. CASE TakeGlobal(f)
  <2>1. state[f] \notin Idle /\ exists' = exists /\ (Mutating(f) => HoldsLock(f))
    BY <1>7 DEF TakeGlobal, Acquiring, HoldsLock
  <2>2. CASE Kind[f] = "send"
    <3>1. Goto(f, "prepare")
      BY <1>7, <2>2 DEF TakeGlobal
    <3>2. QED
      BY <2>1, <3>1, MoveKeeps DEF Running
  <2>3. CASE Kind[f] # "send"
    <3>1. Goto(f, "engine")
      BY <1>7, <2>3 DEF TakeGlobal
    <3>2. QED
      BY <2>1, <2>3, <3>1, MoveKeeps DEF Running
  <2>4. QED
    BY <2>2, <2>3
<1>8. CASE Prepare(f)
  <2>1. state[f] \notin Idle /\ exists' = exists /\ Polled /\ (Mutating(f) => HoldsLock(f))
    BY <1>8 DEF Prepare, Running, HoldsLock
  <2>2. CASE Answer(f)
    BY <2>1, <2>2, AnsweredKeeps
  <2>3. CASE Account[f] \in exists /\ Goto(f, "engine")
    BY <2>1, <2>3, MoveKeeps DEF Running
  <2>4. QED
    BY <1>8, <2>2, <2>3 DEF Prepare
<1>9. CASE Upstream(f)
  <2>1. Goto(f, "settle") /\ state[f] \notin Idle /\ exists' = exists /\ HoldsLock(f)
    BY <1>9 DEF Upstream, Running, HoldsLock
  <2>2. QED
    BY <2>1, MoveKeeps DEF Running
<1>10. CASE Settle(f)
  <2>1. Answer(f) /\ Polled /\ state[f] = "settle" /\ state[f] \notin Idle
    BY <1>10 DEF Settle, Running
  <2>2. Types' /\ Answered' /\ Counted' /\ state' = [state EXCEPT ![f] = "over"]
    BY <2>1, AnswerKeeps
  <2>3. Mutex'
    BY <2>2 DEF IInv, Types, Mutex, HoldsLock, Running
  <2>4. LookedUp'
    <3> SUFFICES ASSUME NEW g \in Frame, Kind[g] = "send", state'[g] = "engine"
                 PROVE  Account[g] \in exists'
      BY DEF LookedUp
    <3>1. g # f /\ state[g] = "engine"
      BY <2>2 DEF IInv, Types
    <3>2. Account[g] \in exists
      BY <3>1 DEF IInv, LookedUp
    <3>3. CASE Kind[f] # "delete"
      BY <1>10, <3>2, <3>3 DEF Settle
    <3>4. CASE Kind[f] = "delete"
      <4>1. HoldsLock(f) /\ HoldsLock(g)
        BY <2>1, <3>1, <3>4 DEF HoldsLock, Mutating, Running
      <4>2. Account[g] # Account[f]
        BY <3>1, <4>1 DEF IInv, Mutex
      <4>3. QED
        BY <1>10, <3>2, <3>4, <4>2 DEF Settle
    <3>5. QED
      BY <3>3, <3>4
  <2>5. QED
    BY <2>2, <2>3, <2>4 DEF IInv
<1>11. CASE Read(f)
  BY <1>11, AnsweredKeeps DEF Read, Running
<1>12. CASE Stall(f)
  BY <1>12, AnsweredKeeps DEF Stall
<1>13. QED
  BY <1>1, <1>2, <1>3, <1>4, <1>5, <1>6, <1>7, <1>8, <1>9, <1>10, <1>11, <1>12 DEF Dispatch

-----------------------------------------------------------------------------
(* The initial state has nothing in flight.                                 *)
LEMMA InitIInv == Init => IInv
<1> SUFFICES ASSUME Init PROVE IInv
  OBVIOUS
<1>1. Types
  BY SMTT(30), HostAssumption DEF Init, Types, Idle, HostAssumption
<1>2. InFlight = {} /\ \A a \in Accounts : OfAccount(a) = {}
  BY DEF Init, InFlight, OfAccount, Idle
<1>3. Counted
  BY <1>2, FS_EmptySet DEF Init, Counted, Exact
<1>4. Answered /\ Mutex /\ LookedUp
  BY DEF Init, Answered, Mutex, LookedUp, HoldsLock, Running
<1>5. QED
  BY <1>1, <1>3, <1>4 DEF IInv

(* Every step of the session keeps the invariant.                           *)
LEMMA NextIInv == IInv /\ [Next]_vars => IInv'
<1> SUFFICES ASSUME IInv, [Next]_vars PROVE IInv'
  OBVIOUS
<1>1. CASE UNCHANGED vars
  BY <1>1, QuietKeeps DEF vars, IInv, Types
<1> SUFFICES ASSUME Step, UNCHANGED scene PROVE IInv'
  BY <1>1 DEF Next
<1>2. CASE Handshake \/ HostLeaves \/ WriterFails \/ WriterFailureSeen \/ WriterWrites
  BY <1>2, QuietKeeps DEF Handshake, HostLeaves, WriterFails, WriterFailureSeen, WriterWrites, IInv, Types
<1>3. CASE Teardown \/ ServeReturns
  BY <1>3, QuietKeeps DEF Teardown, ServeReturns
<1>4. CASE DrainEnds
  BY <1>4, DropKeeps DEF DrainEnds
<1>5. CASE ForwardEvent
  <2>1. CASE writer = "up"
    BY <1>5, <2>1, QuietKeeps DEF ForwardEvent, IInv, Types
  <2>2. CASE writer # "up"
    BY <1>5, <2>2, DropKeeps DEF ForwardEvent
  <2>3. QED
    BY <2>1, <2>2
<1>6. ASSUME NEW f \in scene, Replayed(f) \/ OverCapacity(f) PROVE IInv'
  <2>1. f \in Frame
    BY DEF IInv, Types
  <2>2. QED
    BY <2>1, <1>6, RefuseKeeps DEF Replayed, OverCapacity
<1>7. ASSUME NEW f \in scene, Admit(f) PROVE IInv'
  BY <1>7, AdmitKeeps DEF IInv, Types
<1>8. ASSUME NEW f \in scene, Dispatch(f) PROVE IInv'
  BY <1>8, DispatchKeeps DEF IInv, Types
<1>9. QED
  BY <1>2, <1>3, <1>4, <1>5, <1>6, <1>7, <1>8 DEF Step

(* The invariant holds in every reachable state.                            *)
THEOREM Invariance == Spec => []IInv
<1>1. Init => IInv
  BY InitIInv
<1>2. IInv /\ [Next]_vars => IInv'
  BY NextIInv
<1>3. QED
  BY <1>1, <1>2, PTL DEF Spec

(* HostPendingBudget never leaks a slot: while the session serves or drains *)
(* it counts exactly the dispatches in flight, in all and per account.      *)
THEOREM BudgetNeverLeaks == Spec => []BudgetIsExact
<1>1. IInv => BudgetIsExact
  BY DEF IInv, Counted, Exact, OfAccount, BudgetIsExact
<1>2. QED
  BY <1>1, Invariance, PTL

(* A request is answered at most once, by its dispatch or by its deadline.  *)
THEOREM OneAnswer == Spec => []AnsweredOnce
<1>1. IInv => AnsweredOnce
  BY SMTT(30) DEF IInv, Answered, AnsweredOnce
<1>2. QED
  BY <1>1, Invariance, PTL

(* No send is handed to the engine once a delete has removed its account:   *)
(* between its look-up and the call it holds the account's mutex.           *)
THEOREM SendBeforeDelete == Spec => SendSeesItsAccount
<1>1. IInv /\ [Next]_vars => [\A f \in sent' \ sent : Account[f] \in exists]_vars
  <2> SUFFICES ASSUME IInv, Next, NEW f \in sent' \ sent PROVE Account[f] \in exists
    OBVIOUS
  <2>1. PICK g \in scene : Upstream(g) /\ f = g /\ Kind[g] = "send"
    BY DEF Next, Step, Dispatch, Handshake, HostLeaves, WriterFails, WriterFailureSeen,
           ForwardEvent, Teardown, DrainEnds, ServeReturns, WriterWrites, Replayed,
           OverCapacity, Refuse, Admit, BeginDelete, BeginSend, BeginFinish, BeginOther,
           TakeLock, TakeLane, TakeGlobal, Prepare, Upstream, Settle, Read, Stall, Answer
  <2>2. g \in Frame /\ state[g] = "engine"
    BY <2>1 DEF IInv, Types, Upstream
  <2>3. QED
    BY <2>1, <2>2 DEF IInv, LookedUp
<1>2. QED
  BY <1>1, Invariance, PTL DEF Spec, SendSeesItsAccount
=============================================================================
