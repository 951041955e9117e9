------------------------ MODULE HistoryImportProofs ------------------------
(***************************************************************************)
(* Proofs about the history import, for any number of accounts, tasks,     *)
(* lines, calls and faults: the slot has one owner, a row says running     *)
(* only while somebody will end it, and completed only when the archive is *)
(* stored.                                                                 *)
(***************************************************************************)
EXTENDS HistoryImport, TLAPS

(* Zenon proves the leaves that do not name another prover.                *)
USE ZenonT(30)

Kinds == {"off", "sweep", "watch", "order"}
Early == {"off", "poll", "ready", "land", "begin", "entry", "stage"}
Steps == Early \cup {"line", "end", "release"}
Outs == {None, "completed", "failed", "cancelled", "internal"}
Tasks == [kind : Kinds, pc : Steps, acct : Acct \cup {None},
          todo : SUBSET Acct, from : Nat, next : Nat, out : Outs,
          seen : BOOLEAN]
Rows == [state : {"running", "completed", "failed"},
         why : {None, "engine", "failed", "cancelled", "internal"},
         attempts : Nat]

Types ==
    /\ task \in [Worker -> Tasks]
    /\ DOMAIN ledger = Acct
    /\ \A a \in Acct : ledger[a] = None \/ ledger[a] \in Rows
    /\ msgs \in [Acct -> SUBSET (Line \X Form)]
    /\ accounts \subseteq Acct /\ accounts \cap gone = {}
    /\ live # None => live \in Acct \X Line

(* Accounts come from the table; a row needs its account.                  *)
Known ==
    /\ \A t \in Worker :
          /\ task[t].todo \subseteq accounts \cup gone
          /\ task[t].acct # None => task[t].acct \in (accounts \cup gone) \cap Acct
          /\ task[t].pc \notin {"off", "poll"} => task[t].acct # None
          /\ task[t].kind \in {"watch", "order"} => task[t].acct # None
    /\ \A a \in Acct \ accounts : State(a) = "none"

Slot ==
    /\ \A t \in Worker : InPass(t) => holder = task[t].acct
    /\ SlotIsOwned

Whole(a) == a \in staged /\ \A l \in Line : Stored(a, l)

(* What a pass has done for its account by the step it is at.              *)
Achieved(t) ==
    LET a == task[t].acct IN
    /\ task[t].pc \in Early => task[t].from = 1 /\ task[t].next = 1
    /\ task[t].pc \in {"entry", "stage", "line"}
          => State(a) # "completed" /\ task[t].from <= task[t].next
    /\ task[t].pc = "line" /\ a \in accounts
          => a \in staged /\ \A l \in Line : l < task[t].from => Stored(a, l)
    /\ task[t].pc = "end" /\ task[t].out = "completed" /\ a \in accounts
          => Whole(a)

Progress == \A t \in Worker : Achieved(t)

IInv == Types /\ Known /\ Slot /\ Progress /\ CompletedIsWhole
            /\ RunningIsOwned

(* The states a process may start from.                                    *)
LEMMA InitIInv == Init => IInv
BY SMTT(30), ImportAssumption
   DEF Init, IInv, Types, Known, Slot, Progress, Achieved, CompletedIsWhole,
       RunningIsOwned, SlotIsOwned, InPass, Passing, Idle, Tasks, Kinds,
       Steps, Early, Outs, State

(* A task stays a task when it goes to another step (claim, run_import).   *)
LEMMA PcIsTask == ASSUME NEW r \in Tasks, NEW p \in Steps
                  PROVE  [r EXCEPT !.pc = p] \in Tasks
BY DEF Tasks

(* ... when its order lands (spawn_import_snapshot_watcher).               *)
LEMMA SeenIsTask == ASSUME NEW r \in Tasks
                    PROVE  [r EXCEPT !.pc = "ready", !.seen = TRUE] \in Tasks
BY DEF Tasks, Steps, Early

(* ... when it reads a line or writes its buffer (handle_line, flush).     *)
LEMMA LineIsTask == ASSUME NEW r \in Tasks, NEW n \in Nat
                    PROVE  /\ [r EXCEPT !.next = n] \in Tasks
                           /\ [r EXCEPT !.from = n] \in Tasks
                           /\ r.next \in Nat
BY DEF Tasks

(* ... when the sweep takes the next account (spawn_history_import_pass).  *)
LEMMA TodoIsTask == ASSUME NEW r \in Tasks, NEW a \in Acct
                    PROVE  [r EXCEPT !.todo = @ \ {a}, !.acct = a] \in Tasks
BY DEF Tasks

(* ... when the pass ends with an outcome (run_import).                    *)
LEMMA EndsIsTask == ASSUME NEW t \in Worker, NEW why \in Outs,
                           task[t] \in Tasks
                    PROVE  Ends(t, why) \in Tasks
BY DEF Tasks, Steps, Early, Outs, Ends

(* A task that is not there has the shape of a task.                       *)
LEMMA IdleIsTask == Idle \in Tasks
BY DEF Idle, Tasks, Kinds, Steps, Early, Outs

(* ... when it is through with an account (claim_and_run).                 *)
LEMMA AfterIsTask == ASSUME NEW t \in Worker, task[t] \in Tasks
                     PROVE  After(t) \in Tasks
BY DEF After, Idle, Tasks, Kinds, Steps, Early, Outs

(* insert_history_batch stores messages.                                   *)
LEMMA BatchIsMessages ==
    ASSUME msgs \in [Acct -> SUBSET (Line \X Form)], NEW a,
           NEW batch \in SUBSET Line
    PROVE  InsertHistoryBatch(a, batch) \in [Acct -> SUBSET (Line \X Form)]
<1> DEFINE new == {<<l, "aci">> : l \in {b \in batch : ~Stored(a, b)}}
<1>1. new \subseteq Line \X Form
  BY SMTT(30) DEF Form
<1>2. InsertHistoryBatch(a, batch) = [msgs EXCEPT ![a] = @ \cup new]
  BY DEF InsertHistoryBatch
<1> HIDE DEF new
<1> QED
  BY <1>1, <1>2

(* insert_history_batch drops nothing, and each line is then stored.       *)
LEMMA BatchStores ==
    ASSUME msgs \in [Acct -> SUBSET (Line \X Form)], NEW a \in Acct,
           NEW batch, msgs' = InsertHistoryBatch(a, batch)
    PROVE  /\ \A b \in Acct : \A l \in Line : Stored(b, l) => Stored(b, l)'
           /\ \A l \in batch : Stored(a, l)'
<1> DEFINE new == {<<l, "aci">> : l \in {b \in batch : ~Stored(a, b)}}
<1>1. msgs' = [msgs EXCEPT ![a] = @ \cup new]
  BY DEF InsertHistoryBatch
<1>2. msgs'[a] = msgs[a] \cup new /\ \A b \in Acct : msgs[b] \subseteq msgs'[b]
  <2> HIDE DEF new
  <2> QED BY <1>1
<1>3. ASSUME NEW b \in Acct, NEW l, Stored(b, l) PROVE Stored(b, l)'
  BY <1>2, <1>3, Zenon DEF Stored
<1>4. ASSUME NEW l \in batch PROVE Stored(a, l)'
  <2>1. CASE Stored(a, l)
    BY <1>3, <2>1
  <2>2. CASE ~Stored(a, l)
    <3>1. <<l, "aci">> \in new
      BY <2>2
    <3>2. <<l, "aci">> \in msgs'[a]
      <4> HIDE DEF new
      <4> QED BY <1>2, <3>1
    <3> QED
      BY <3>2, Zenon DEF Stored, Form
  <2> QED
    BY <2>1, <2>2
<1> QED
  BY <1>3, <1>4

(* A ledger row that ends stays a row (complete, cancel_running).          *)
LEMMA LedgerUpdates ==
    ASSUME NEW r \in Rows, NEW s \in {"completed", "failed"},
           NEW w \in {None, "engine", "failed", "cancelled", "internal"}
    PROVE  [r EXCEPT !.state = s, !.why = w] \in Rows
BY DEF Rows

(* No step leaves the types.                                               *)
LEMMA NextTypes == Types /\ [Next]_vars => Types'
<1> SUFFICES ASSUME Types, [Next]_vars PROVE Types'
  OBVIOUS
<1> USE ImportAssumption DEF Types, store, process, host
<1>1. ASSUME NEW t \in Worker, EngineStart(t) PROVE Types'
  BY <1>1
  DEF EngineStart, Idle, Tasks, Kinds, Steps, Early, Outs, Rows, Line, Form,
         Spawn, After
<1>2. ASSUME NEW t \in Worker, Watch(t) PROVE Types'
  <2>1. [task[t] EXCEPT !.pc = "ready"] \in Tasks /\ Idle \in Tasks
    BY PcIsTask, IdleIsTask DEF Steps, Early
  <2> QED
    BY SMTT(30), <1>2, <2>1 DEF Watch
<1>3. ASSUME NEW t \in Worker, WatchExpires(t) PROVE Types'
  BY <1>3
  DEF WatchExpires, Idle, Tasks, Kinds, Steps, Early, Outs, Rows, Line, Form,
         Spawn, After
<1>4. ASSUME NEW t \in Worker, OrderLands(t) PROVE Types'
  <2>1. [task[t] EXCEPT !.pc = "ready", !.seen = TRUE] \in Tasks
    BY SeenIsTask
  <2> QED
    BY <1>4, <2>1 DEF OrderLands
<1>5. ASSUME NEW t \in Worker, OrderFails(t) PROVE Types'
  <2>1. [task[t] EXCEPT !.pc = "land"] \in Tasks
    BY PcIsTask DEF Steps, Early
  <2>2. task' \in [Worker -> Tasks]
    BY <1>5, <2>1 DEF OrderFails
  <2>3. ASSUME NEW a \in Acct
        PROVE  DOMAIN ledger' = Acct /\ (ledger'[a] = None \/ ledger'[a] \in Rows)
    BY <1>5, SMTT(30) DEF OrderFails, BeginHistoryImport, Rows
  <2> QED
    BY <1>5, <2>2, <2>3 DEF OrderFails
<1>6. ASSUME NEW t \in Worker, OrderFailed(t) PROVE Types'
  BY <1>6, IdleIsTask, LedgerUpdates DEF OrderFailed, CompleteHistoryImport
<1>7. ASSUME NEW t \in Worker, OrderLeaves(t) PROVE Types'
  BY <1>7
  DEF OrderLeaves, Idle, Tasks, Kinds, Steps, Early, Outs, Rows, Line, Form,
         Spawn, After
<1>8. ASSUME NEW t \in Worker, Claim(t) PROVE Types'
  BY SMTT(30), <1>8
  DEF Claim, Idle, Tasks, Kinds, Steps, Early, Outs, Rows, Line, Form,
         Spawn, After
<1>9. ASSUME NEW t \in Worker, Busy(t) PROVE Types'
  <2>1. [task[t] EXCEPT !.pc = "poll"] \in Tasks /\ After(t) \in Tasks
    BY PcIsTask, AfterIsTask DEF Steps, Early
  <2> QED
    BY <1>9, <2>1 DEF Busy
<1>10. ASSUME NEW t \in Worker, Begin(t) PROVE Types'
  BY SMTT(30), <1>10
  DEF Begin, BeginHistoryImport, Idle, Tasks, Kinds, Steps, Early, Outs, Rows, Line, Form,
         Spawn, After
<1>11. ASSUME NEW t \in Worker, BeginFails(t) PROVE Types'
  BY SMTT(30), <1>11
  DEF BeginFails, BeginHistoryImport, Idle, Tasks, Kinds, Steps, Early, Outs, Rows, Line, Form,
         Spawn, After
<1>12. ASSUME NEW t \in Worker, EntryAborted(t) PROVE Types'
  <2>1. Ends(t, "cancelled") \in Tasks
    BY EndsIsTask DEF Outs
  <2> QED
    BY <1>12, <2>1 DEF EntryAborted, Form
<1>13. ASSUME NEW t \in Worker, Entry(t) PROVE Types'
  <2>1. [task[t] EXCEPT !.pc = "stage"] \in Tasks
    BY PcIsTask DEF Steps, Early
  <2> QED
    BY <1>13, <2>1 DEF Entry
<1>14. ASSUME NEW t \in Worker, PassOne(t) PROVE Types'
  BY SMTT(30), <1>14
  DEF PassOne, Idle, Tasks, Kinds, Steps, Early, Outs, Rows, Line, Form,
         Spawn, After
<1>15. ASSUME NEW t \in Worker, HandleLine(t) PROVE Types'
  BY SMTT(30), <1>15
  DEF HandleLine, Idle, Tasks, Kinds, Steps, Early, Outs, Rows, Line, Form,
         Spawn, After
<1>16. ASSUME NEW t \in Worker, Flush(t) PROVE Types'
  <2>1. [task[t] EXCEPT !.from = task[t].next] \in Tasks
    BY LineIsTask
  <2>2. Buffered(t) \subseteq Line
    BY DEF Buffered
  <2>3. msgs' \in [Acct -> SUBSET (Line \X Form)]
    BY <1>16, <2>2, BatchIsMessages DEF Flush
  <2> QED
    BY <1>16, <2>1, <2>3 DEF Flush
<1>17. ASSUME NEW t \in Worker, EndOfFile(t) PROVE Types'
  <2>1. Ends(t, "completed") \in Tasks
    BY EndsIsTask DEF Outs
  <2>2. Buffered(t) \subseteq Line
    BY DEF Buffered
  <2>3. msgs' \in [Acct -> SUBSET (Line \X Form)]
    BY <1>17, <2>2, BatchIsMessages DEF EndOfFile
  <2> QED
    BY <1>17, <2>1, <2>3 DEF EndOfFile
<1>18. ASSUME NEW t \in Worker, Aborted(t) PROVE Types'
  <2>1. Ends(t, "cancelled") \in Tasks
    BY EndsIsTask DEF Outs
  <2> QED
    BY <1>18, <2>1 DEF Aborted, Form
<1>19. ASSUME NEW t \in Worker, PassFails(t) PROVE Types'
  <2>1. Ends(t, "failed") \in Tasks
    BY EndsIsTask DEF Outs
  <2> QED
    BY <1>19, <2>1 DEF PassFails, Form
<1>20. ASSUME NEW t \in Worker, PassDies(t) PROVE Types'
  <2>1. Ends(t, "internal") \in Tasks
    BY EndsIsTask DEF Outs
  <2> QED
    BY <1>20, <2>1 DEF PassDies, Form
<1>21. ASSUME NEW t \in Worker, Complete(t) PROVE Types'
  <2>1. [task[t] EXCEPT !.pc = "release"] \in Tasks
    BY PcIsTask DEF Steps
  <2>2. task[t].out \in Outs
    BY DEF Tasks
  <2> QED
    BY <1>21, <2>1, <2>2, LedgerUpdates
    DEF Complete, CompleteHistoryImport, Outs
<1>22. ASSUME NEW t \in Worker, CompleteFails(t) PROVE Types'
  BY SMTT(30), <1>22
  DEF CompleteFails, Idle, Tasks, Kinds, Steps, Early, Outs, Rows, Line, Form,
         Spawn, After
<1>23. ASSUME NEW t \in Worker, Release(t) PROVE Types'
  BY <1>23
  DEF Release, Idle, Tasks, Kinds, Steps, Early, Outs, Rows, Line, Form,
         Spawn, After
<1>24. ASSUME NEW t \in Worker, NEW a \in Acct, Sweep(t, a) PROVE Types'
  <2> DEFINE left == [task[t] EXCEPT !.todo = @ \ {a}, !.acct = a]
  <2>1. left \in Tasks
    BY TodoIsTask
  <2>2. [left EXCEPT !.pc = "ready"] \in Tasks
    BY <2>1, PcIsTask DEF Steps, Early
  <2>3. [left EXCEPT !.acct = None] \in Tasks
    BY <2>1 DEF Tasks
  <2> QED
    BY <1>24, <2>2, <2>3, IdleIsTask DEF Sweep
<1>25. ASSUME NEW t \in Worker, NEW a \in Acct, Link(a, t) PROVE Types'
  <2>1. [Idle EXCEPT !.kind = "watch", !.pc = "poll", !.acct = a, !.todo = {}] \in Tasks
    BY DEF Idle, Tasks, Kinds, Steps, Early, Outs
  <2>2. task' \in [Worker -> Tasks]
    BY <1>25, <2>1 DEF Link, Spawn
  <2>3. accounts' = accounts \cup {a} /\ gone' = gone /\ a \notin gone
        /\ ledger' = ledger /\ msgs' = msgs /\ live' = live
    BY <1>25 DEF Link
  <2> QED
    BY <2>2, <2>3
<1>26. ASSUME NEW t \in Worker, NEW a \in Acct, Order(a, t) PROVE Types'
  BY <1>26
  DEF Order, Idle, Tasks, Kinds, Steps, Early, Outs, Rows, Line, Form,
         Spawn, After
<1>27. ASSUME NEW a \in Acct, Produce(a) PROVE Types'
  BY <1>27
  DEF Produce, Idle, Tasks, Kinds, Steps, Early, Outs, Rows, Line, Form,
         Spawn, After
<1>28. ASSUME NEW a \in Acct, CancelMarks(a) PROVE Types'
  BY <1>28
  DEF CancelMarks, Idle, Tasks, Kinds, Steps, Early, Outs, Rows, Line, Form,
         Spawn, After
<1>29. ASSUME NEW a \in Acct, Retry(a) PROVE Types'
  BY <1>29
  DEF Retry, ClearFailed, Idle, Tasks, Kinds, Steps, Early, Outs, Rows, Line, Form,
         Spawn, After
<1>30. ASSUME NEW a \in Acct, StatusConsults(a) PROVE Types'
  BY <1>30
  DEF StatusConsults, Idle, Tasks, Kinds, Steps, Early, Outs, Rows, Line, Form,
         Spawn, After
<1>31. ASSUME NEW a \in Acct, Delete(a) PROVE Types'
  BY <1>31
  DEF Delete, Idle, Tasks, Kinds, Steps, Early, Outs, Rows, Line, Form,
         Spawn, After
<1>32. ASSUME NEW a \in Acct, NEW l \in Line, LiveLooksUp(a, l) PROVE Types'
  BY <1>32
  DEF LiveLooksUp, Idle, Tasks, Kinds, Steps, Early, Outs, Rows, Line, Form,
         Spawn, After
<1>33. CASE CancelFlags
  BY <1>33
  DEF CancelFlags, Idle, Tasks, Kinds, Steps, Early, Outs, Rows, Line, Form,
         Spawn, After
<1>34. CASE CancelEnds
  <2>1. \A a \in Acct : ledger'[a] = None \/ ledger'[a] \in Rows
    <3> TAKE a \in Acct
    <3>1. ledger'[a] = ledger[a] \/ ledger'[a]
             = [ledger[a] EXCEPT !.state = "failed", !.why = "cancelled"]
      BY <1>34 DEF CancelEnds, CancelRunning
    <3>2. CASE ledger'[a] = ledger[a]
      BY <3>2
    <3>3. CASE ledger'[a] # ledger[a]
      <4>1. ledger[a] # None
        BY <1>34, <3>3 DEF CancelEnds, CancelRunning
      <4>2. [ledger[a] EXCEPT !.state = "failed", !.why = "cancelled"] \in Rows
        BY <4>1, LedgerUpdates
      <4> QED
        BY <3>1, <3>3, <4>2
    <3> QED
      BY <3>2, <3>3
  <2> QED
    BY <1>34, <2>1 DEF CancelEnds, CancelRunning
<1>35. CASE StatusAnswers
  BY <1>35
  DEF StatusAnswers, LandFailure, Idle, Tasks, Kinds, Steps, Early, Outs, Rows, Line, Form,
         Spawn, After
<1>36. CASE LiveInserts
  BY SMTT(30), <1>36 DEF LiveInserts, Form
<1>37. CASE Exit
  BY <1>37
  DEF Exit, Idle, Tasks, Kinds, Steps, Early, Outs, Rows, Line, Form,
         Spawn, After
<1>38. CASE UNCHANGED vars
  BY <1>38
  DEF vars, Idle, Tasks, Kinds, Steps, Early, Outs, Rows, Line, Form,
         Spawn, After
<1> QED
  BY <1>1, <1>2, <1>3, <1>4, <1>5, <1>6, <1>7, <1>8, <1>9, <1>10, <1>11,
     <1>12, <1>13, <1>14, <1>15, <1>16, <1>17, <1>18, <1>19, <1>20, <1>21,
     <1>22, <1>23, <1>24, <1>25, <1>26, <1>27, <1>28, <1>29, <1>30, <1>31,
     <1>32, <1>33, <1>34, <1>35, <1>36, <1>37, <1>38
     DEF Next, PassStep, TaskStep, HostStep

(* Every step of the tasks, the host and the faults keeps the invariant.   *)
LEMMA NextIInv == IInv /\ [Next]_vars => IInv'
<1> SUFFICES ASSUME IInv, [Next]_vars PROVE IInv'
  OBVIOUS
<1>h. Types /\ Known /\ Slot /\ Progress /\ CompletedIsWhole /\ RunningIsOwned
  BY DEF IInv
<1> USE <1>h, ImportAssumption
    DEF Types, Known, Slot, Progress, Achieved, CompletedIsWhole, RunningIsOwned,
        SlotIsOwned, InPass, Passing, Idle, Tasks, Kinds, Steps, Early, Outs,
        Rows, State, Whole, Stored, Line, Form, Spawn, After, Free, Ends,
        Call, Fault, store, process, host, bounds, NoCancel,
        BeginHistoryImport, CompleteHistoryImport
<1>0. Types'
  BY NextTypes DEF IInv
<1>1. ASSUME NEW t \in Worker, EngineStart(t) PROVE IInv'
  <2>2. Known'
    BY SMTT(30), <1>1 DEF EngineStart
  <2>3. Slot'
    BY SMTT(30), <1>1 DEF EngineStart
  <2>4. Progress'
    BY SMTT(30), <1>1 DEF EngineStart
  <2>5. CompletedIsWhole'
    BY <1>1 DEF EngineStart
  <2>6. RunningIsOwned'
    BY SMTT(30), <1>1 DEF EngineStart
  <2> QED
    BY <1>0, <2>2, <2>3, <2>4, <2>5, <2>6 DEF IInv
<1>2. ASSUME NEW t \in Worker, Watch(t) PROVE IInv'
  <2>2. Known'
    BY SMTT(30), <1>2 DEF Watch
  <2>3. Slot'
    BY SMTT(30), <1>2 DEF Watch
  <2>4. Progress'
    BY SMTT(30), <1>2 DEF Watch
  <2>5. CompletedIsWhole'
    BY SMTT(30), <1>2 DEF Watch
  <2>6. RunningIsOwned'
    BY SMTT(30), <1>2 DEF Watch
  <2> QED
    BY <1>0, <2>2, <2>3, <2>4, <2>5, <2>6 DEF IInv
<1>3. ASSUME NEW t \in Worker, WatchExpires(t) PROVE IInv'
  <2>1. Known' /\ Slot' /\ Progress' /\ CompletedIsWhole' /\ RunningIsOwned'
    BY SMTT(30), <1>3 DEF WatchExpires
  <2> QED
    BY <1>0, <2>1 DEF IInv
<1>4. ASSUME NEW t \in Worker, OrderLands(t) PROVE IInv'
  <2>1. /\ \A u \in Worker \ {t} : task'[u] = task[u]
        /\ task'[t].pc = "ready" /\ task[t].pc = "poll"
        /\ task[t].acct \in accounts
    BY SMTT(30), <1>4 DEF OrderLands
  <2>a. /\ task'[t].kind = task[t].kind /\ task'[t].acct = task[t].acct
        /\ task'[t].todo = task[t].todo /\ task'[t].out = task[t].out
        /\ task'[t].from = task[t].from /\ task'[t].next = task[t].next
    BY SMTT(30), <1>4 DEF OrderLands
  <2>b. UNCHANGED <<accounts, gone, ledger, staged, msgs, holder, stale>>
    BY <1>4 DEF OrderLands
  <2>2. Known'
    BY SMTT(30), <2>1, <2>a, <2>b
  <2>3. Slot'
    BY SMTT(30), <2>1, <2>a, <2>b
  <2>4. Progress'
    BY SMTT(30), <2>1, <2>a, <2>b
  <2>5. CompletedIsWhole'
    BY SMTT(30), <2>1, <2>a, <2>b
  <2>6. RunningIsOwned'
    BY SMTT(30), <2>1, <2>a, <2>b
  <2> QED
    BY <1>0, <2>2, <2>3, <2>4, <2>5, <2>6 DEF IInv
<1>5. ASSUME NEW t \in Worker, OrderFails(t) PROVE IInv'
  <2>1. Known' /\ Slot' /\ Progress' /\ CompletedIsWhole' /\ RunningIsOwned'
    BY SMTT(30), <1>5 DEF OrderFails
  <2> QED
    BY <1>0, <2>1 DEF IInv
<1>6. ASSUME NEW t \in Worker, OrderFailed(t) PROVE IInv'
  <2>2. Known'
    BY SMTT(30), <1>6 DEF OrderFailed
  <2>3. Slot'
    BY SMTT(30), <1>6 DEF OrderFailed
  <2>4. Progress'
    BY SMTT(30), <1>6 DEF OrderFailed
  <2>5. CompletedIsWhole'
    BY SMTT(30), <1>6 DEF OrderFailed
  <2>6. RunningIsOwned'
    BY SMTT(30), <1>6 DEF OrderFailed
  <2> QED
    BY <1>0, <2>2, <2>3, <2>4, <2>5, <2>6 DEF IInv
<1>7. ASSUME NEW t \in Worker, OrderLeaves(t) PROVE IInv'
  <2>1. Known' /\ Slot' /\ Progress' /\ CompletedIsWhole' /\ RunningIsOwned'
    BY SMTT(30), <1>7 DEF OrderLeaves
  <2> QED
    BY <1>0, <2>1 DEF IInv
<1>8. ASSUME NEW t \in Worker, Claim(t) PROVE IInv'
  <2>1. Known' /\ Slot' /\ Progress' /\ CompletedIsWhole' /\ RunningIsOwned'
    BY SMTT(30), <1>8 DEF Claim
  <2> QED
    BY <1>0, <2>1 DEF IInv
<1>9. ASSUME NEW t \in Worker, Busy(t) PROVE IInv'
  <2>2. Known'
    BY SMTT(30), <1>9 DEF Busy
  <2>3. Slot'
    BY SMTT(30), <1>9 DEF Busy
  <2>4. Progress'
    BY SMTT(30), <1>9 DEF Busy
  <2>5. CompletedIsWhole'
    BY <1>9 DEF Busy
  <2>6. RunningIsOwned'
    BY SMTT(30), <1>9 DEF Busy
  <2> QED
    BY <1>0, <2>2, <2>3, <2>4, <2>5, <2>6 DEF IInv
<1>10. ASSUME NEW t \in Worker, Begin(t) PROVE IInv'
  <2>1. Known' /\ Slot' /\ Progress' /\ CompletedIsWhole' /\ RunningIsOwned'
    BY SMTT(30), <1>10 DEF Begin
  <2> QED
    BY <1>0, <2>1 DEF IInv
<1>11. ASSUME NEW t \in Worker, BeginFails(t) PROVE IInv'
  <2>2. Known'
    BY SMTT(30), <1>11 DEF BeginFails
  <2>3. Slot'
    BY SMTT(30), <1>11 DEF BeginFails
  <2>4. Progress'
    BY SMTT(30), <1>11 DEF BeginFails
  <2>5. CompletedIsWhole'
    BY SMTT(30), <1>11 DEF BeginFails
  <2>6. RunningIsOwned'
    BY SMTT(30), <1>11 DEF BeginFails
  <2> QED
    BY <1>0, <2>2, <2>3, <2>4, <2>5, <2>6 DEF IInv
<1>12. ASSUME NEW t \in Worker, EntryAborted(t) PROVE IInv'
  <2>2. Known'
    BY SMTT(30), <1>12 DEF EntryAborted
  <2>3. Slot'
    BY SMTT(30), <1>12 DEF EntryAborted
  <2>4. Progress'
    BY SMTT(30), <1>12 DEF EntryAborted
  <2>5. CompletedIsWhole'
    BY <1>12 DEF EntryAborted
  <2>6. RunningIsOwned'
    BY SMTT(30), <1>12 DEF EntryAborted
  <2> QED
    BY <1>0, <2>2, <2>3, <2>4, <2>5, <2>6 DEF IInv
<1>13. ASSUME NEW t \in Worker, Entry(t) PROVE IInv'
  <2>1. Known' /\ Slot' /\ Progress' /\ CompletedIsWhole' /\ RunningIsOwned'
    BY SMTT(30), <1>13 DEF Entry
  <2> QED
    BY <1>0, <2>1 DEF IInv
<1>14. ASSUME NEW t \in Worker, PassOne(t) PROVE IInv'
  <2>1. Known' /\ Slot' /\ Progress' /\ CompletedIsWhole' /\ RunningIsOwned'
    BY SMTT(30), <1>14 DEF PassOne
  <2> QED
    BY <1>0, <2>1 DEF IInv
<1>15. ASSUME NEW t \in Worker, HandleLine(t) PROVE IInv'
  <2>1. Known' /\ Slot' /\ Progress' /\ CompletedIsWhole' /\ RunningIsOwned'
    BY SMTT(30), <1>15 DEF HandleLine
  <2> QED
    BY <1>0, <2>1 DEF IInv
<1>16. ASSUME NEW t \in Worker, Flush(t) PROVE IInv'
  <2>2. Known'
    BY SMTT(30), <1>16 DEF Flush, Buffered, InsertHistoryBatch
  <2>3. Slot'
    BY SMTT(30), <1>16 DEF Flush, Buffered, InsertHistoryBatch
  <2>4. Progress'
    <3> PICK a \in Acct : a = task[t].acct
      BY <1>16 DEF Flush
    <3>1. \A b \in Acct : \A l \in Line : Stored(b, l) => Stored(b, l)'
      BY <1>16 DEF Flush, InsertHistoryBatch
    <3>2. \A l \in Line : l < task[t].next => Stored(a, l)'
      <4> SUFFICES ASSUME NEW l \in Line, l < task[t].next
                   PROVE  Stored(a, l)'
        OBVIOUS
      <4>1. a \in Acct /\ a \in accounts /\ task[t].from \in Nat
        BY SMTT(30), <1>16 DEF Flush
      <4>2. CASE l < task[t].from
        BY <1>16, <3>1, <4>1, <4>2 DEF Flush
      <4>3. CASE ~(l < task[t].from)
        <5>1. l \in Buffered(t)
          BY SMTT(30), <4>1, <4>3 DEF Buffered
        <5>2. msgs' = InsertHistoryBatch(a, Buffered(t))
          BY <1>16 DEF Flush
        <5>3. msgs \in [Acct -> SUBSET (Line \X Form)]
          OBVIOUS
        <5> HIDE DEF Stored, Line, Form
        <5> QED
          BY <4>1, <5>1, <5>2, <5>3, BatchStores
      <4> QED
        BY <4>2, <4>3
    <3>3. /\ task'[t] = [task[t] EXCEPT !.from = task[t].next]
          /\ \A u \in Worker \ {t} : task'[u] = task[u]
          /\ UNCHANGED <<ledger, accounts, staged>> /\ task[t].pc = "line"
      BY SMTT(30), <1>16 DEF Flush
    <3>4. Achieved(t)'
      BY SMTT(30), <3>2, <3>3
    <3>5. ASSUME NEW u \in Worker, u # t PROVE Achieved(u)'
      BY SMTT(30), <3>1, <3>3, <3>5
    <3> QED
      BY SMTT(30), <3>4, <3>5
  <2>5. CompletedIsWhole'
    BY <1>16 DEF Flush, Buffered, InsertHistoryBatch
  <2>6. RunningIsOwned'
    BY SMTT(30), <1>16 DEF Flush, Buffered, InsertHistoryBatch
  <2> QED
    BY <1>0, <2>2, <2>3, <2>4, <2>5, <2>6 DEF IInv
<1>17. ASSUME NEW t \in Worker, EndOfFile(t) PROVE IInv'
  <2>2. Known'
    BY SMTT(30), <1>17 DEF EndOfFile, Buffered, InsertHistoryBatch
  <2>3. Slot'
    BY SMTT(30), <1>17 DEF EndOfFile, Buffered, InsertHistoryBatch
  <2>4. Progress'
    <3> PICK a \in Acct : a = task[t].acct
      BY <1>17 DEF EndOfFile
    <3>1. \A b \in Acct : \A l \in Line : Stored(b, l) => Stored(b, l)'
      BY <1>17 DEF EndOfFile, InsertHistoryBatch
    <3>2. a \in accounts => \A l \in Line : Stored(a, l)'
      <4> SUFFICES ASSUME a \in accounts, NEW l \in Line
                   PROVE  Stored(a, l)'
        OBVIOUS
      <4>1. a \in Acct /\ task[t].from \in Nat /\ l < task[t].next
        BY SMTT(30), <1>17 DEF EndOfFile
      <4>2. CASE l < task[t].from
        BY <1>17, <3>1, <4>1, <4>2 DEF EndOfFile
      <4>3. CASE ~(l < task[t].from)
        <5>1. l \in Buffered(t)
          BY SMTT(30), <4>1, <4>3 DEF Buffered
        <5>2. msgs' = InsertHistoryBatch(a, Buffered(t))
          BY <1>17 DEF EndOfFile
        <5>3. msgs \in [Acct -> SUBSET (Line \X Form)]
          OBVIOUS
        <5> HIDE DEF Stored, Line, Form
        <5> QED
          BY <4>1, <5>1, <5>2, <5>3, BatchStores
      <4> QED
        BY <4>2, <4>3
    <3>3. /\ task'[t] = [task[t] EXCEPT !.pc = "end", !.out = "completed"]
          /\ \A u \in Worker \ {t} : task'[u] = task[u]
          /\ UNCHANGED <<ledger, accounts, staged>> /\ task[t].pc = "line"
      BY SMTT(30), <1>17 DEF EndOfFile
    <3>4. /\ task'[t].acct = a /\ task'[t].pc = "end"
          /\ a \in accounts => a \in staged
      BY SMTT(30), <3>3
    <3>5. ASSUME NEW u \in Worker, u # t,
                 task[u].pc \in {"stage", "line", "entry", "end"}
          PROVE  FALSE
      BY SMTT(30), <3>3, <3>5
    <3>6. ASSUME NEW u \in Worker, u # t
          PROVE  task'[u] = task[u] /\ (task[u].pc \in Early
                    => task[u].from = 1 /\ task[u].next = 1)
      BY <3>3, <3>6
    <3>7. Achieved(t)'
      BY SMTT(30), <3>2, <3>3, <3>4
    <3>8. ASSUME NEW u \in Worker, u # t PROVE Achieved(u)'
      BY SMTT(30), <3>5, <3>6, <3>8
    <3> QED
      BY SMTT(30), <3>7, <3>8
  <2>5. CompletedIsWhole'
    BY <1>17 DEF EndOfFile, Buffered, InsertHistoryBatch
  <2>6. RunningIsOwned'
    BY SMTT(30), <1>17 DEF EndOfFile, Buffered, InsertHistoryBatch
  <2> QED
    BY <1>0, <2>2, <2>3, <2>4, <2>5, <2>6 DEF IInv
<1>18. ASSUME NEW t \in Worker, Aborted(t) PROVE IInv'
  <2>2. Known'
    BY SMTT(30), <1>18 DEF Aborted
  <2>3. Slot'
    BY SMTT(30), <1>18 DEF Aborted
  <2>4. Progress'
    BY SMTT(30), <1>18 DEF Aborted
  <2>5. CompletedIsWhole'
    BY SMTT(30), <1>18 DEF Aborted
  <2>6. RunningIsOwned'
    BY SMTT(30), <1>18 DEF Aborted
  <2> QED
    BY <1>0, <2>2, <2>3, <2>4, <2>5, <2>6 DEF IInv
<1>19. ASSUME NEW t \in Worker, PassFails(t) PROVE IInv'
  <2>2. Known'
    BY SMTT(30), <1>19 DEF PassFails
  <2>3. Slot'
    BY SMTT(30), <1>19 DEF PassFails
  <2>4. Progress'
    BY SMTT(30), <1>19 DEF PassFails
  <2>5. CompletedIsWhole'
    BY SMTT(30), <1>19 DEF PassFails
  <2>6. RunningIsOwned'
    BY SMTT(30), <1>19 DEF PassFails
  <2> QED
    BY <1>0, <2>2, <2>3, <2>4, <2>5, <2>6 DEF IInv
<1>20. ASSUME NEW t \in Worker, PassDies(t) PROVE IInv'
  <2>2. Known'
    BY SMTT(30), <1>20 DEF PassDies
  <2>3. Slot'
    BY SMTT(30), <1>20 DEF PassDies
  <2>4. Progress'
    BY SMTT(30), <1>20 DEF PassDies
  <2>5. CompletedIsWhole'
    BY <1>20 DEF PassDies
  <2>6. RunningIsOwned'
    BY SMTT(30), <1>20 DEF PassDies
  <2> QED
    BY <1>0, <2>2, <2>3, <2>4, <2>5, <2>6 DEF IInv
<1>21. ASSUME NEW t \in Worker, Complete(t) PROVE IInv'
  <2>2. Known'
    BY SMTT(30), <1>21 DEF Complete
  <2>3. Slot'
    BY SMTT(30), <1>21 DEF Complete
  <2>4. Progress'
    BY SMTT(30), <1>21 DEF Complete
  <2>5. CompletedIsWhole'
    BY SMTT(30), <1>21 DEF Complete
  <2>6. RunningIsOwned'
    BY SMTT(30), <1>21 DEF Complete
  <2> QED
    BY <1>0, <2>2, <2>3, <2>4, <2>5, <2>6 DEF IInv
<1>22. ASSUME NEW t \in Worker, CompleteFails(t) PROVE IInv'
  <2>1. Known' /\ Slot' /\ Progress' /\ CompletedIsWhole' /\ RunningIsOwned'
    BY SMTT(30), <1>22 DEF CompleteFails
  <2> QED
    BY <1>0, <2>1 DEF IInv
<1>23. ASSUME NEW t \in Worker, Release(t) PROVE IInv'
  <2>2. Known'
    BY SMTT(30), <1>23 DEF Release
  <2>3. Slot'
    BY SMTT(30), <1>23 DEF Release
  <2>4. Progress'
    BY SMTT(30), <1>23 DEF Release
  <2>5. CompletedIsWhole'
    BY <1>23 DEF Release
  <2>6. RunningIsOwned'
    BY SMTT(30), <1>23 DEF Release
  <2> QED
    BY <1>0, <2>2, <2>3, <2>4, <2>5, <2>6 DEF IInv
<1>24. ASSUME NEW t \in Worker, NEW a \in Acct, Sweep(t, a) PROVE IInv'
  <2>2. Known'
    BY SMTT(30), <1>24 DEF Sweep
  <2>3. Slot'
    BY SMTT(30), <1>24 DEF Sweep
  <2>4. Progress'
    BY SMTT(30), <1>24 DEF Sweep
  <2>5. CompletedIsWhole'
    BY <1>24 DEF Sweep
  <2>6. RunningIsOwned'
    BY SMTT(30), <1>24 DEF Sweep
  <2> QED
    BY <1>0, <2>2, <2>3, <2>4, <2>5, <2>6 DEF IInv
<1>25. ASSUME NEW t \in Worker, NEW a \in Acct, Link(a, t) PROVE IInv'
  <2>2. Known'
    BY SMTT(30), <1>25 DEF Link
  <2>3. Slot'
    BY SMTT(30), <1>25 DEF Link
  <2>4. Progress'
    BY SMTT(30), <1>25 DEF Link
  <2>5. CompletedIsWhole'
    BY <1>25 DEF Link
  <2>6. RunningIsOwned'
    BY SMTT(30), <1>25 DEF Link
  <2> QED
    BY <1>0, <2>2, <2>3, <2>4, <2>5, <2>6 DEF IInv
<1>26. ASSUME NEW t \in Worker, NEW a \in Acct, Order(a, t) PROVE IInv'
  <2>2. Known'
    BY SMTT(30), <1>26 DEF Order
  <2>3. Slot'
    BY SMTT(30), <1>26 DEF Order
  <2>4. Progress'
    BY SMTT(30), <1>26 DEF Order
  <2>5. CompletedIsWhole'
    BY <1>26 DEF Order
  <2>6. RunningIsOwned'
    BY SMTT(30), <1>26 DEF Order
  <2> QED
    BY <1>0, <2>2, <2>3, <2>4, <2>5, <2>6 DEF IInv
<1>27. ASSUME NEW a \in Acct, Produce(a) PROVE IInv'
  <2>1. Known' /\ Slot' /\ Progress' /\ CompletedIsWhole' /\ RunningIsOwned'
    BY SMTT(30), <1>27 DEF Produce
  <2> QED
    BY <1>0, <2>1 DEF IInv
<1>28. ASSUME NEW a \in Acct, CancelMarks(a) PROVE IInv'
  <2>1. Known' /\ Slot' /\ Progress' /\ CompletedIsWhole' /\ RunningIsOwned'
    BY SMTT(30), <1>28 DEF CancelMarks
  <2> QED
    BY <1>0, <2>1 DEF IInv
<1>29. ASSUME NEW a \in Acct, Retry(a) PROVE IInv'
  <2>1. Known' /\ Slot' /\ Progress' /\ CompletedIsWhole' /\ RunningIsOwned'
    BY SMTT(30), <1>29 DEF Retry, ClearFailed
  <2> QED
    BY <1>0, <2>1 DEF IInv
<1>30. ASSUME NEW a \in Acct, StatusConsults(a) PROVE IInv'
  <2>1. Known' /\ Slot' /\ Progress' /\ CompletedIsWhole' /\ RunningIsOwned'
    BY SMTT(30), <1>30 DEF StatusConsults
  <2> QED
    BY <1>0, <2>1 DEF IInv
<1>31. ASSUME NEW a \in Acct, Delete(a) PROVE IInv'
  <2>1. Known' /\ Slot' /\ Progress' /\ CompletedIsWhole' /\ RunningIsOwned'
    BY SMTT(30), <1>31 DEF Delete
  <2> QED
    BY <1>0, <2>1 DEF IInv
<1>32. ASSUME NEW a \in Acct, NEW l \in Line, LiveLooksUp(a, l) PROVE IInv'
  <2>1. Known' /\ Slot' /\ Progress' /\ CompletedIsWhole' /\ RunningIsOwned'
    BY SMTT(30), <1>32 DEF LiveLooksUp
  <2> QED
    BY <1>0, <2>1 DEF IInv
<1>33. CASE CancelFlags
  <2>1. Known' /\ Slot' /\ Progress' /\ CompletedIsWhole' /\ RunningIsOwned'
    BY SMTT(30), <1>33 DEF CancelFlags
  <2> QED
    BY <1>0, <2>1 DEF IInv
<1>34. CASE CancelEnds
  <2>2. Known'
    BY SMTT(30), <1>34 DEF CancelEnds, CancelRunning
  <2>3. Slot'
    BY <1>34 DEF CancelEnds, CancelRunning
  <2>4. Progress'
    BY SMTT(30), <1>34 DEF CancelEnds, CancelRunning
  <2>5. CompletedIsWhole'
    BY SMTT(30), <1>34 DEF CancelEnds, CancelRunning
  <2>6. RunningIsOwned'
    BY SMTT(30), <1>34 DEF CancelEnds, CancelRunning
  <2> QED
    BY <1>0, <2>2, <2>3, <2>4, <2>5, <2>6 DEF IInv
<1>35. CASE StatusAnswers
  <2>2. Known'
    BY SMTT(30), <1>35 DEF StatusAnswers, LandFailure
  <2>3. Slot'
    BY <1>35 DEF StatusAnswers, LandFailure
  <2>4. Progress'
    BY SMTT(30), <1>35 DEF StatusAnswers, LandFailure
  <2>5. CompletedIsWhole'
    BY SMTT(30), <1>35 DEF StatusAnswers, LandFailure
  <2>6. RunningIsOwned'
    BY SMTT(30), <1>35 DEF StatusAnswers, LandFailure
  <2> QED
    BY <1>0, <2>2, <2>3, <2>4, <2>5, <2>6 DEF IInv
<1>36. CASE LiveInserts
  <2>2. Known'
    BY SMTT(30), <1>36 DEF LiveInserts
  <2>3. Slot'
    BY <1>36 DEF LiveInserts
  <2>4. Progress'
    BY SMTT(30), <1>36 DEF LiveInserts
  <2>5. CompletedIsWhole'
    BY <1>36 DEF LiveInserts
  <2>6. RunningIsOwned'
    BY SMTT(30), <1>36 DEF LiveInserts
  <2> QED
    BY <1>0, <2>2, <2>3, <2>4, <2>5, <2>6 DEF IInv
<1>37. CASE Exit
  <2>2. Known'
    BY <1>37 DEF Exit
  <2>3. Slot'
    BY <1>37 DEF Exit
  <2>4. Progress'
    BY <1>37 DEF Exit
  <2>5. CompletedIsWhole'
    BY <1>37 DEF Exit
  <2>6. RunningIsOwned'
    BY <1>37 DEF Exit
  <2> QED
    BY <1>0, <2>2, <2>3, <2>4, <2>5, <2>6 DEF IInv
<1>38. CASE UNCHANGED vars
  <2>1. Known' /\ Slot' /\ Progress' /\ CompletedIsWhole' /\ RunningIsOwned'
    BY SMTT(30), <1>38 DEF vars
  <2> QED
    BY <1>0, <2>1 DEF IInv
<1> HIDE <1>h DEF Types, Known, Slot, Progress, Achieved, CompletedIsWhole, RunningIsOwned,
             SlotIsOwned, InPass, Passing, Idle, Tasks, Kinds, Steps, Early, Outs,
             Rows, State, Whole, Stored, Line, Form, Spawn, After, Free, Ends,
             Call, Fault, store, process, host, bounds, NoCancel,
             BeginHistoryImport, CompleteHistoryImport
<1> QED
  BY <1>1, <1>2, <1>3, <1>4, <1>5, <1>6, <1>7, <1>8, <1>9, <1>10, <1>11,
     <1>12, <1>13, <1>14, <1>15, <1>16, <1>17, <1>18, <1>19, <1>20, <1>21,
     <1>22, <1>23, <1>24, <1>25, <1>26, <1>27, <1>28, <1>29, <1>30, <1>31,
     <1>32, <1>33, <1>34, <1>35, <1>36, <1>37, <1>38
     DEF Next, PassStep, TaskStep, HostStep

(* The invariant holds in every state of every behaviour.                  *)
THEOREM Invariance == Spec => []IInv
<1>1. Init => IInv
  BY InitIInv
<1>2. IInv /\ [Next]_vars => IInv'
  BY NextIInv
<1> QED
  BY <1>1, <1>2, PTL DEF Spec

(* run_import, insert_history_batch: a row that says completed stands for  *)
(* the whole archive, after any failures, cancels, retries and exits.      *)
THEOREM CompletedMeansStored == Spec => []CompletedIsWhole
<1>1. IInv => CompletedIsWhole
  BY DEF IInv
<1> QED
  BY <1>1, Invariance, PTL

(* run_import, land_import_engine_failure: a row says running only while   *)
(* some task will end it, or the store or the process failed.              *)
THEOREM RunningHasAPass == Spec => []RunningIsOwned
<1>1. IInv => RunningIsOwned
  BY DEF IInv
<1> QED
  BY <1>1, Invariance, PTL

(* claim_and_run_history_import: one pass at a time, in the slot's name,   *)
(* and no slot is left taken by nobody.                                    *)
THEOREM OnePassAtATime == Spec => []SlotIsOwned
<1>1. IInv => SlotIsOwned
  BY DEF IInv, Slot
<1> QED
  BY <1>1, Invariance, PTL
=============================================================================
