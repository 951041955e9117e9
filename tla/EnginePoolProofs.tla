-------------------------- MODULE EnginePoolProofs --------------------------
(***************************************************************************)
(* Machine-checked proofs about EnginePool, for every set of ids, numbers   *)
(* and tasks, every ceiling and every mix of operations: no row without its *)
(* slot, and no number in two committed slots; and, where the lanes keep    *)
(* the operations apart, at most one process per slot, and none without its *)
(* directory.                                                               *)
(***************************************************************************)
EXTENDS EnginePool, TLAPS

(* Zenon proves the leaves that do not name another prover.                *)
USE ZenonT(30)

(* The awaits of each operation.                                            *)
JobShape(j) ==
    /\ j.op = "none" => j = NoJob
    /\ j.pc \in {"start", "mint"} => j.op = "link"
    /\ j.pc \in {"wait", "complete", "sync"} => j.op = "finish"
    /\ j.pc \in {"complete", "sync"} => j.number # None
    /\ j.pc = "cancel" => j.op = "cancel"
    /\ j.pc \in {"wake", "launch"} => j.op \in {"request", "delete"}
    /\ j.pc \in {"prepare", "erase", "forget"} => j.op = "delete"
    /\ j.pc \in {"discard", "rmdir"} => j.op \in {"link", "finish", "cancel", "reap", "delete"}
    /\ j.pc = "stop" <=> j.op = "stop"
    /\ j.pc = "window" <=> j.op = "start"

(* Which jobs there are: of the mixed operations, on minted ids, one in the *)
(* control lane and one link.finish at a time.                              *)
JobsOK ==
    /\ \A t \in Jobs :
         /\ JobShape(job[t])
         /\ job[t].op \in ops \cup {"none"}
         /\ job[t].op # "stop" => job[t].id \in minted \cup {None}
         /\ job[t].op \notin {"none", "stop", "start"} => job[t].id # None
    /\ job[Reaper].op \in {"none", "reap"}
    /\ \A t, u \in Task : job[t].op \in Control /\ job[u].op \in Control => t = u
    /\ \A t, u \in Task : job[t].op = "finish" /\ job[u].op = "finish" => t = u

(* An id that was never minted has left no trace.                           *)
Untouched(i) ==
    /\ reg[i] = None /\ ledger[i] = "none" /\ i \notin Committed
    /\ i \notin provisioned /\ sidecar[i] # "done"

(* A slot whose link.start is under way is known to nobody else.            *)
NewSlot(i) ==
    /\ i \in slots \ (sessions \cup asked)
    /\ link[i] = -1 /\ idle[i] = 0
    /\ Untouched(i)

Linking(t) == job[t].pc \in {"start", "mint"}

Fresh(t) == NewSlot(job[t].id) /\ \A u \in Jobs \ {t} : job[u].id # job[t].id

(* One job removes the directory of a slot that has left the table.         *)
Removing(t) ==
    /\ job[t].id \in dir \ slots
    /\ \A u \in Jobs \ {t} : job[u].pc = "rmdir" => job[u].id # job[t].id

Base ==
    /\ TypeOK
    /\ JobsOK
    /\ \A i \in Id \ minted : Untouched(i)
    /\ asked \subseteq slots /\ \A i \in asked : reg[i] = None
    /\ \A t \in Jobs : Linking(t) => Fresh(t)
    /\ \A t \in Jobs : job[t].pc = "rmdir" => Removing(t)

-----------------------------------------------------------------------------
(* What keeps a row's slot.                                                 *)

Rows ==
    /\ Committed \subseteq slots
    /\ \A i \in Id : link[i] # -1 =>
         /\ i \notin Committed /\ ledger[i] = "none"
         /\ \A t \in Jobs : job[t].id = i => job[t].pc \in {"wait", "complete", "stop"}
    /\ \A t \in Jobs :
         job[t].pc = "discard" \/ (job[t].pc = "sync" /\ job[t].found # job[t].id)
           => job[t].id \notin Committed

-----------------------------------------------------------------------------
(* What keeps a number in one slot.                                         *)

Claimed(i) == i \in provisioned \/ sidecar[i] = "done" \/ i \in Committed

Finishing(t) == job[t].pc \in {"complete", "sync"}

(* A link.finish works with the number of its own engine, and commits its   *)
(* slot only where that number's row is.                                    *)
Told(t) ==
    Finishing(t) =>
      /\ reg[job[t].id] \in {job[t].number, None}
      /\ job[t].pc = "sync" /\ job[t].found = job[t].id /\ reg[job[t].id] # None
           => row[job[t].number] = job[t].id

Numbers ==
    /\ \A i \in dir : Claimed(i) /\ reg[i] # None => row[reg[i]] = i
    /\ \A t \in Jobs : Told(t)

(* Without accounts.list, an id with an open link has no past.              *)
Opening(i) == link[i] # -1 \/ i \in asked

NumbersNoList ==
    /\ \A i \in Id : Opening(i) =>
         /\ ~Claimed(i) /\ ledger[i] = "none"
         /\ \A t \in Jobs : job[t].id = i => job[t].op \notin {"request", "delete"}
         /\ \A t \in Jobs : job[t].id = i => job[t].pc # "sync"
    /\ \A i \in asked, t \in Jobs : Finishing(t) => job[t].id # i
    /\ \A t \in Jobs : job[t].pc = "forget" => reg[job[t].id] = None

(* Without a deletion, a committed engine keeps its number.                 *)
NumbersNoDelete ==
    /\ \A i \in dir : Claimed(i) => reg[i] # None
    /\ \A t \in Jobs : Finishing(t) /\ job[t].id \in dir => reg[job[t].id] # None

RowsInv == ops \cap {"cancel", "reap", "list"} = {} => Rows
NumbersInv ==
    /\ ~({"list", "delete"} \subseteq ops) => Numbers
    /\ "list" \notin ops => NumbersNoList
    /\ "delete" \notin ops => NumbersNoDelete

-----------------------------------------------------------------------------
(* How a step changes the jobs.                                             *)

Moves(t) ==
    /\ job' \in [Jobs -> JobType]
    /\ \A u \in Jobs \ {t} : job'[u] = job[u]

Pc == {"none", "start", "mint", "wait", "complete", "sync", "cancel", "discard", "rmdir",
       "wake", "launch", "prepare", "erase", "forget", "stop", "window"}

Op == {"none", "link", "finish", "cancel", "reap", "request", "delete", "stop", "start"}

(* A job goes on, ends, or begins in its lane.                              *)
Legal(t) ==
    /\ Moves(t)
    /\ JobShape(job[t])'
    /\ \/ job'[t].op \in {job[t].op, "none"}
       \/ /\ t \in Task /\ job'[t].op \in ops
          /\ job'[t].op \in Control => ControlFree
          /\ job'[t].op = "finish" => FinishFree
       \/ t = Reaper /\ job'[t].op = "reap" /\ "reap" \in ops
    /\ job'[t].op # "stop" => job'[t].id \in minted' \cup {None}
    /\ job'[t].op \notin {"none", "stop", "start"} => job'[t].id # None

(* No slot under way is entered from elsewhere.                             *)
Apart(t) ==
    /\ job'[t].pc \in {"start", "mint"} => Linking(t) /\ job'[t].id = job[t].id
    /\ job'[t].id \in {job[t].id, None}
         \/ \A u \in Jobs : Linking(u) => job[u].id # job'[t].id

(* Where a job may stand on a slot with an open link, and on one that is to *)
(* be discarded.                                                            *)
Placed(t) ==
    /\ job[t].id \in Id /\ link[job[t].id] # -1 => job[t].pc \in {"wait", "complete", "stop"}
    /\ job[t].pc = "discard" \/ (job[t].pc = "sync" /\ job[t].found # job[t].id)
         => job[t].id \notin Committed

(* What most steps leave of the rows and the links.                         *)
Kept ==
    /\ Committed' \subseteq Committed /\ Committed' \subseteq slots'
    /\ \A i \in Id : link'[i] # -1 => link[i] # -1 /\ ledger'[i] = ledger[i]

(* The same where neither commitments nor open links change.                *)
Settled ==
    /\ UNCHANGED <<ops, reg, row, dir>>
    /\ provisioned' \subseteq provisioned /\ sidecar' = sidecar /\ asked' \subseteq asked
    /\ \A i \in Id : Opening(i)' => Opening(i) /\ ledger'[i] = ledger[i]

-----------------------------------------------------------------------------
(* What the families share.                                                 *)

(* The next await of the same operation.                                    *)
LEMMA GotoMoves ==
    ASSUME TypeOK, NEW t \in Jobs, NEW pc \in Pc, Goto(t, pc)
    PROVE  /\ Moves(t)
           /\ job'[t].op = job[t].op /\ job'[t].id = job[t].id /\ job'[t].pc = pc
           /\ job'[t].child = job[t].child /\ job'[t].number = job[t].number
           /\ job'[t].found = job[t].found /\ job'[t].todo = job[t].todo
BY SMTT(30) DEF TypeOK, Goto, Moves, JobType, Pc

LEMMA NoJobType == NoJob \in JobType
BY DEF NoJob, JobType

LEMMA UpdateMoves ==
    ASSUME TypeOK, NEW t \in Jobs, NEW r \in JobType, job' = [job EXCEPT ![t] = r]
    PROVE  Moves(t) /\ job'[t] = r
BY DEF TypeOK, Moves

(* The end of an operation.                                                 *)
LEMMA EndMoves ==
    ASSUME TypeOK, NEW t \in Jobs, End(t)
    PROVE  Moves(t) /\ job'[t] = NoJob
BY NoJobType DEF TypeOK, End, Moves

(* The begin of one.                                                        *)
LEMMA BeginMoves ==
    ASSUME TypeOK, NEW t \in Jobs, NEW op \in Op, NEW i \in Id, NEW pc \in Pc,
           Begin(t, op, i, pc)
    PROVE  /\ Moves(t) /\ job[t] = NoJob /\ op \in ops
           /\ job'[t].op = op /\ job'[t].id = i /\ job'[t].pc = pc
           /\ ~job'[t].child /\ job'[t].number = None /\ job'[t].found = None
           /\ job'[t].todo = {}
<1> DEFINE r == [NoJob EXCEPT !.op = op, !.id = i, !.pc = pc]
<1>1. job \in [Jobs -> JobType] /\ job[t] = NoJob /\ op \in ops /\ job' = [job EXCEPT ![t] = r]
  BY DEF TypeOK, Begin
<1>2. r \in JobType
  BY DEF JobType, Op, Pc, NoJob
<1>3. /\ r.op = op /\ r.id = i /\ r.pc = pc
      /\ r.child = FALSE /\ r.number = None /\ r.found = None /\ r.todo = {}
  BY DEF NoJob
<1> HIDE DEF r
<1>4. Moves(t) /\ job'[t] = r
  BY <1>1, <1>2 DEF Moves
<1>5. QED
  BY <1>1, <1>3, <1>4

LEMMA EndLegal ==
    ASSUME Base, NEW t \in Jobs, End(t)
    PROVE  Legal(t) /\ Moves(t) /\ job'[t] = NoJob /\ job'[t].pc = "none" /\ job'[t].id = None
           /\ job'[t].op = "none" /\ job'[t].child = FALSE /\ job'[t].todo = {}
<1>1. Moves(t) /\ job'[t] = NoJob
  BY EndMoves DEF Base
<1>2. NoJob.pc = "none" /\ NoJob.id = None /\ NoJob.op = "none" /\ NoJob.child = FALSE
      /\ NoJob.todo = {}
  BY DEF NoJob
<1>3. QED
  BY <1>1, <1>2 DEF Legal, JobShape

LEMMA StillLegal ==
    ASSUME Base, job' = job, minted \subseteq minted'
    PROVE  Reaper \in Jobs /\ Legal(Reaper) /\ Apart(Reaper)
<1>1. Reaper \in Jobs /\ Moves(Reaper)
  BY DEF Jobs, Moves, Base, TypeOK
<1>2. QED
  BY <1>1 DEF Legal, Apart, Linking, Base, JobsOK, JobShape

(* A row is written for this id or not at all.                              *)
LEMMA UpsertCommits ==
    ASSUME TypeOK, NEW n \in Number, NEW i \in Id, Upsert(n, i)
    PROVE  /\ row' \in [Number -> Id \cup {None}]
           /\ Committed \subseteq Committed' /\ Committed' \subseteq Committed \cup {i}
           /\ row'[n] \in Id
           /\ i \in Committed' \ Committed => row'[n] = i
           /\ \A m \in Number : row[m] # None => row'[m] = row[m]
<1>1. row \in [Number -> Id \cup {None}] /\ row' = [row EXCEPT ![n] = IF @ = None THEN i ELSE @]
  BY DEF TypeOK, Upsert
<1>2. QED
  BY <1>1, PoolAssumption DEF Committed, PoolAssumption

(* The window is made of registered slots.                                  *)
LEMMA RecentSlots == \A k \in Nat : Recent(k) \subseteq SUBSET slots
BY DEF Recent, kSubset

(* The control lane, seen from any job.                                     *)
LEMMA OneInControl ==
    ASSUME Base, NEW t \in Jobs, NEW u \in Jobs, job[t].op \in Control, job[u].op \in Control
    PROVE  t = u
BY DEF Base, JobsOK, Jobs, Control

LEMMA EnginesNat == MaxEngines \in Nat /\ MaxResident \in Nat
BY SMTT(30), PoolAssumption DEF PoolAssumption

(* The mix of operations is fixed at the start.                             *)
LEMMA OpsStay == [Next]_vars => ops' = ops
<1>1. ASSUME NEW t \in Task, LinkStep(t) \/ CancelStep(t) PROVE ops' = ops
  BY <1>1 DEF LinkStep, CancelStep, ProvisionSlot, LinkStartEngine, LinkMint, LinkMintFails, CancelWait,
              CancelSession
<1>2. ASSUME NEW t \in Task, FinishStep(t) PROVE ops' = ops
  BY <1>2 DEF FinishStep, FinishLink, FinishAnswered, FinishGivesUp, FinishCommit, FinishMark,
              FinishReadFails
<1>3. ASSUME NEW t \in Task, RequestStep(t) PROVE ops' = ops
  BY <1>3 DEF RequestStep, Request, DeleteAccount, Wake, PrepareDelete, Launch, Erase, Forget
<1>4. ASSUME NEW t \in Task, RuntimeStep(t) PROVE ops' = ops
  BY <1>4 DEF RuntimeStep, StopRuntime, StopWaited, StartRuntime, StartDone, StopSlot, StartSlot
<1>5. ASSUME NEW t \in Jobs, DiscardStep(t) PROVE ops' = ops
  BY <1>5 DEF DiscardStep, Discard, RemoveDirectory
<1>6. ASSUME NEW i \in Id, Reap(i) \/ AccountsList(i) \/ WindowStep(i) \/ EngineExit(i) \/ FinishExpired(i)
                            \/ FinishCeilingFails(i) \/ \E n \in Number : EngineLinks(i, n)
      PROVE ops' = ops
  BY <1>6 DEF Reap, AccountsList, WindowStep, WindowTask, DemoteShutdown, DemotedExits, EngineExit,
              FinishExpired, FinishCeilingFails, EngineLinks
<1>7. QED
  BY <1>1, <1>2, <1>3, <1>4, <1>5, <1>6 DEF Next, Restart, Tick, vars

LEMMA JobId ==
    ASSUME Base, NEW t \in Jobs, job[t].op \notin {"none", "stop", "start"}
    PROVE  job[t].id \in Id
BY DEF Base, JobsOK, TypeOK, JobType

-----------------------------------------------------------------------------
(* Base: the types, the jobs, and the slots a link.start or a discard holds.*)

(* Types hold, and every id is used once: a slot whose link.start is under  *)
(* way is known to that job alone, and a directory is removed by one job,   *)
(* after its slot has left the table (provision_slot, discard).             *)
THEOREM PoolBase == Spec => []Base
<1>JobsKeep.
    ASSUME Base, NEW t \in Jobs, Legal(t), ops' = ops, minted \subseteq minted'
    PROVE  JobsOK'
  <2> USE <1>JobsKeep
  <2>1. ASSUME NEW u \in Jobs
        PROVE  /\ JobShape(job[u])'
               /\ job'[u].op \in ops' \cup {"none"}
               /\ job'[u].op # "stop" => job'[u].id \in minted' \cup {None}
               /\ job'[u].op \notin {"none", "stop", "start"} => job'[u].id # None
    BY SMTT(30) DEF Base, JobsOK, Legal, Moves, JobShape
  <2>2. job'[Reaper].op \in {"none", "reap"}
    BY PoolAssumption DEF Base, JobsOK, Legal, Moves, Jobs, PoolAssumption
  <2>3. ASSUME NEW u \in Task, NEW v \in Task, job'[u].op \in Control, job'[v].op \in Control
        PROVE  u = v
    BY SMTT(30), <2>3 DEF Base, JobsOK, Legal, Moves, Jobs, ControlFree, Control
  <2>4. ASSUME NEW u \in Task, NEW v \in Task, job'[u].op = "finish", job'[v].op = "finish"
        PROVE  u = v
    BY SMTT(30), <2>4 DEF Base, JobsOK, Legal, Moves, Jobs, FinishFree
  <2>5. QED
    BY <2>1, <2>2, <2>3, <2>4 DEF JobsOK
(* The next await of a job that has begun.                                  *)
<1>GotoLegal.
    ASSUME Base, NEW t \in Jobs, NEW pc \in Pc, Goto(t, pc), minted \subseteq minted',
           job[t].op # "none", pc \in {"start", "mint"} => Linking(t),
           JobShape([op |-> job[t].op, pc |-> pc, number |-> job[t].number])
    PROVE  /\ Legal(t) /\ Apart(t) /\ Moves(t) /\ job'[t].pc = pc
           /\ job'[t].op = job[t].op /\ job'[t].id = job[t].id
  <2> USE <1>GotoLegal
  <2>1. /\ Moves(t) /\ job'[t].pc = pc /\ job'[t].number = job[t].number
        /\ job'[t].op = job[t].op /\ job'[t].id = job[t].id
    BY GotoMoves DEF Base
  <2>2. JobShape(job[t])'
    BY <2>1 DEF JobShape
  <2>3. Legal(t)
    BY <2>1, <2>2 DEF Legal, Base, JobsOK
  <2>4. Apart(t)
    BY <2>1 DEF Apart
  <2>5. QED
    BY <2>1, <2>3, <2>4
(* A slot under way stays unknown when nobody takes its id.                 *)
<1>FreshKeep.
    ASSUME Base, NEW t \in Jobs, Moves(t), Apart(t),
           \A u \in Jobs : Linking(u) /\ Linking(u)' => NewSlot(job[u].id)'
    PROVE  \A u \in Jobs : Linking(u)' => Fresh(u)'
  <2> USE <1>FreshKeep
  <2> SUFFICES ASSUME NEW u \in Jobs, Linking(u)' PROVE Fresh(u)'
    OBVIOUS
  <2>1. Linking(u) /\ job'[u].id = job[u].id
    BY DEF Linking, Moves, Apart
  <2>2. job[u].id # None
    BY <2>1 DEF Base, JobsOK, JobShape, Linking
  <2>3. Fresh(u) /\ NewSlot(job[u].id)'
    BY <2>1 DEF Base, Linking
  <2>4. \A v \in Jobs \ {u} : job'[v].id # job'[u].id
    BY <2>1, <2>2, <2>3 DEF Fresh, Moves, Apart
  <2>5. QED
    BY <2>3, <2>4 DEF Fresh
(* A directory being removed stays off the table.                           *)
<1>RemovingKeep.
    ASSUME Base, NEW t \in Jobs, Moves(t),
           job'[t].pc = "rmdir" => job'[t].id = job[t].id
              /\ (job[t].pc = "rmdir" \/ job[t].id \in slots),
           \A u \in Jobs : job'[u].pc = "rmdir" => job[u].id \in dir' \ slots'
    PROVE  \A u \in Jobs : job'[u].pc = "rmdir" => Removing(u)'
  BY SMTT(30), <1>RemovingKeep DEF Base, Removing, Moves
(* A step that leaves the disk, the table and the sessions alone.           *)
<1>QuietBase.
    ASSUME Base, NEW t \in Jobs, Legal(t), Apart(t), job'[t].pc = "rmdir" => job' = job, TypeOK',
           UNCHANGED <<ops, disk, slots, provisioned, sessions, idle, link, asked>>
    PROVE  Base'
  <2> USE <1>QuietBase
  <2>1. JobsOK'
    BY <1>JobsKeep DEF disk
  <2>2. Committed' = Committed
    BY DEF disk, Committed
  <2>3. \A i \in Id : Untouched(i)' = Untouched(i) /\ NewSlot(i)' = NewSlot(i)
    BY <2>2 DEF disk, Untouched, NewSlot
  <2>4. \A u \in Jobs : Linking(u) /\ Linking(u)' => NewSlot(job[u].id)'
    <3> SUFFICES ASSUME NEW u \in Jobs, Linking(u), Linking(u)' PROVE NewSlot(job[u].id)'
      OBVIOUS
    <3>1. job'[u].id = job[u].id /\ NewSlot(job[u].id)
      BY DEF Base, Fresh, Legal, Moves, Apart, Linking
    <3>2. QED
      BY <3>1, <2>2 DEF disk, NewSlot, Untouched
  <2>5. \A u \in Jobs : Linking(u)' => Fresh(u)'
    BY <2>4, <1>FreshKeep DEF Legal
  <2>6. \A u \in Jobs : job'[u].pc = "rmdir" => Removing(u)'
    BY SMTT(30) DEF Base, Removing, Legal, Moves, disk
  <2>7. QED
    BY <2>1, <2>3, <2>5, <2>6 DEF Base, disk
(* A step that only moves a job.                                            *)
<1>JobOnlyBase.
    ASSUME Base, NEW t \in Jobs, Legal(t), Apart(t), job'[t].pc = "rmdir" => job' = job,
           UNCHANGED <<ops, disk, slots, provisioned, resident, idle, sessions, sup, spawned>>,
           running' \in BOOLEAN
    PROVE  Base'
  <2> USE <1>JobOnlyBase
  <2>1. TypeOK'
    BY DEF Base, TypeOK, disk, sup, spawned, Legal, Moves
  <2>2. QED
    BY <2>1, <1>QuietBase DEF sup
(* A step in general: what it owes the invariant.                           *)
<1>StepBase.
    ASSUME Base, NEW t \in Jobs, Legal(t), Apart(t), TypeOK', ops' = ops, minted' = minted,
           dir' \subseteq dir,
           \A i \in Id \ minted : Untouched(i)',
           asked' \subseteq slots', \A i \in asked' : reg'[i] = None,
           \A u \in Jobs : Linking(u) /\ Linking(u)' => NewSlot(job[u].id)',
           job'[t].pc = "rmdir" => job'[t].id = job[t].id
              /\ (job[t].pc = "rmdir" \/ job[t].id \in slots),
           \A u \in Jobs : job'[u].pc = "rmdir" => job[u].id \in dir' \ slots'
    PROVE  Base'
  <2> USE <1>StepBase
  <2>1. JobsOK'
    BY <1>JobsKeep
  <2>3. \A u \in Jobs : Linking(u)' => Fresh(u)'
    BY <1>FreshKeep DEF Legal
  <2>4. \A u \in Jobs : job'[u].pc = "rmdir" => Removing(u)'
    BY <1>RemovingKeep DEF Legal
  <2>5. QED
    BY <2>1, <2>3, <2>4 DEF Base
<1>LinkBase. \A t \in Task : Base /\ LinkStep(t) => Base'
  (* The admission: a fresh id, in every sense.                               *)
  <2>ProvisionSlotBase.
      ASSUME Base, NEW t \in Task, NEW i \in Id, ProvisionSlot(t, i)
      PROVE  Base'
    <3> USE <2>ProvisionSlotBase
    <3>0. t \in Jobs /\ TypeOK /\ i \notin minted /\ Untouched(i)
      BY DEF Jobs, Base, ProvisionSlot
    <3>1. /\ Moves(t) /\ job[t] = NoJob /\ "link" \in ops
          /\ job'[t].op = "link" /\ job'[t].id = i /\ job'[t].pc = "start"
      <4>1. Begin(t, "link", i, "start") /\ "link" \in Op /\ "start" \in Pc
        BY DEF ProvisionSlot, Op, Pc
      <4>2. QED
        BY <3>0, <4>1, BeginMoves
    <3>2. Legal(t)
      BY <3>1, PoolAssumption DEF Legal, ProvisionSlot, JobShape, PoolAssumption, Control
    <3>3. TypeOK'
      BY SMTT(30), <3>0, <3>1, PoolAssumption DEF TypeOK, ProvisionSlot, Moves, spawned, PoolAssumption
    <3>5. JobsOK'
      BY <3>0, <3>2, <1>JobsKeep DEF ProvisionSlot
    <3>6. Committed' = Committed /\ \A k \in Id : Untouched(k)' = Untouched(k)
      BY SMTT(30), <3>0 DEF ProvisionSlot, Committed, Untouched, TypeOK
    <3>7. asked' \subseteq slots' /\ \A k \in asked' : reg'[k] = None
      BY DEF Base, ProvisionSlot
    <3>8. i \notin slots /\ i \notin sessions /\ i \notin asked /\ link[i] = -1
      BY <3>0 DEF TypeOK, Base
    <3>9. ASSUME NEW u \in Jobs, Linking(u)' PROVE Fresh(u)'
      <4>1. CASE u = t
        <5>1. NewSlot(i)'
          BY <3>0, <3>6, <3>8 DEF NewSlot, ProvisionSlot, TypeOK
        <5>2. \A v \in Jobs \ {t} : job'[v].id # i
          <6>1. ASSUME NEW v \in Jobs \ {t} PROVE job[v].op # "stop"
            BY PoolAssumption DEF Base, JobsOK, JobShape, ProvisionSlot, ControlFree, Control, Jobs
          <6>2. QED
            BY SMTT(30), <3>0, <3>1, <6>1, PoolAssumption DEF Moves, Base, JobsOK, PoolAssumption
        <5>3. QED
          BY <4>1, <5>1, <5>2, <3>1 DEF Fresh
      <4>2. CASE u # t
        <5>1. job'[u] = job[u]
          BY <3>1, <4>2 DEF Moves
        <5>2. job[u].op = "link"
          BY <3>9, <5>1 DEF Linking, Base, JobsOK, JobShape
        <5>3. QED
          BY <5>2 DEF ProvisionSlot, ControlFree, Control, Base, JobsOK, Jobs
      <4>3. QED
        BY <4>1, <4>2
    <3>10. ASSUME NEW u \in Jobs, job'[u].pc = "rmdir" PROVE Removing(u)'
      BY SMTT(30), <3>0, <3>1, <3>10 DEF Base, Removing, ProvisionSlot, Moves, TypeOK, JobsOK
    <3>11. QED
      BY <3>3, <3>5, <3>6, <3>7, <3>9, <3>10 DEF Base, ProvisionSlot
  <2>LinkStartEngineBase.
      ASSUME Base, NEW t \in Task, NEW spawns \in BOOLEAN, LinkStartEngine(t, spawns)
      PROVE  Base'
    <3> USE <2>LinkStartEngineBase
    <3>0. t \in Jobs /\ TypeOK
      BY DEF Jobs, Base
    <3>1. PICK pc \in {"mint", "discard"} : Goto(t, pc)
      BY DEF LinkStartEngine
    <3>2. Legal(t) /\ Apart(t) /\ job'[t].pc # "rmdir"
      BY <3>0, <3>1, <1>GotoLegal DEF LinkStartEngine, Linking, At, JobShape, Pc, Base, JobsOK, disk
    <3>3. TypeOK'
      BY <3>2 DEF LinkStartEngine, StartEngine, Base, TypeOK, disk, pool, spawned, Legal, Moves
    <3>4. QED
      BY <3>0, <3>2, <3>3, <1>QuietBase DEF LinkStartEngine, pool, disk
  <2>LinkMintBase.
      ASSUME Base, NEW t \in Task, LinkMint(t)
      PROVE  Base'
    <3> USE <2>LinkMintBase
    <3> DEFINE i == job[t].id
    <3>0. t \in Jobs /\ TypeOK /\ Linking(t) /\ Fresh(t) /\ i \in Id
      BY DEF Jobs, Base, LinkMint, At, Linking, Fresh, NewSlot, TypeOK
    <3>1. Legal(t) /\ Apart(t) /\ job'[t].pc = "none"
      BY <3>0, EndLegal DEF LinkMint, Apart, Base
    <3>2. TypeOK'
      BY SMTT(30), <3>0, <3>1, PoolAssumption DEF LinkMint, NoteActivity, EnforceWindow, TypeOK, disk,
           Legal, Moves, PoolAssumption, Fresh, NewSlot
    <3>3. Committed' = Committed /\ \A k \in Id : Untouched(k)' = Untouched(k)
      BY DEF LinkMint, disk, Committed, Untouched
    <3>4. ASSUME NEW u \in Jobs, Linking(u), Linking(u)' PROVE NewSlot(job[u].id)'
      <4>1. u # t /\ job'[u].id = job[u].id /\ NewSlot(job[u].id) /\ job[u].id # i
        BY <3>0, <3>1, <3>4 DEF Base, Fresh, Legal, Moves, Linking
      <4>2. QED
        BY SMTT(30), <3>0, <3>3, <4>1 DEF NewSlot, LinkMint, NoteActivity, TypeOK, Untouched, disk
    <3>5. asked' = asked /\ reg' = reg /\ dir' = dir /\ slots' = slots /\ minted' = minted /\ ops' = ops
      BY DEF LinkMint, disk
    <3>6. \A u \in Jobs : job'[u].pc = "rmdir" => job[u].id \in dir \ slots
      BY <3>1 DEF Base, Removing, Legal, Moves
    <3>7. QED
      BY <3>0, <3>1, <3>2, <3>3, <3>4, <3>5, <3>6, <1>StepBase DEF Base
  <2>LinkMintFailsBase.
      ASSUME Base, NEW t \in Task, LinkMintFails(t)
      PROVE  Base'
    <3> USE <2>LinkMintFailsBase
    <3>0. t \in Jobs /\ TypeOK
      BY DEF Jobs, Base
    <3>1. Legal(t) /\ Apart(t) /\ job'[t].pc # "rmdir"
      BY <3>0, <1>GotoLegal DEF LinkMintFails, At, JobShape, Pc, Base, JobsOK, disk
    <3>2. QED
      BY <3>0, <3>1, <1>JobOnlyBase DEF LinkMintFails, pool, Base, TypeOK
  <2> QED
    BY <2>ProvisionSlotBase, <2>LinkStartEngineBase, <2>LinkMintBase, <2>LinkMintFailsBase DEF
       LinkStep
<1>FinishBase. \A t \in Task : Base /\ FinishStep(t) => Base'
  <2>FinishLinkBase.
      ASSUME Base, NEW t \in Task, NEW i \in Id, FinishLink(t, i)
      PROVE  Base'
    <3> USE <2>FinishLinkBase
    <3>0. t \in Jobs /\ TypeOK /\ i \in sessions \cap slots
      BY DEF Jobs, Base, FinishLink
    <3>1. /\ Moves(t) /\ job[t] = NoJob /\ "finish" \in ops
          /\ job'[t].op = "finish" /\ job'[t].id = i /\ job'[t].pc = "wait"
      <4>1. Begin(t, "finish", i, "wait") /\ "finish" \in Op /\ "wait" \in Pc
        BY DEF FinishLink, Op, Pc
      <4>2. QED
        BY <3>0, <4>1, BeginMoves
    <3>2. Legal(t)
      BY SMTT(30), <3>0, <3>1, PoolAssumption DEF Legal, FinishLink, JobShape, PoolAssumption, Control, TypeOK, disk
    <3>3. Apart(t)
      BY <3>0, <3>1 DEF Apart, Base, Fresh, NewSlot
    <3>4. TypeOK'
      BY SMTT(30), <3>0, <3>1 DEF TypeOK, FinishLink, Moves, spawned, disk, pool
    <3>5. Committed' = Committed /\ \A k \in Id : Untouched(k)' = Untouched(k)
      BY DEF FinishLink, disk, pool, Committed, Untouched
    <3>6. asked' \subseteq slots' /\ \A k \in asked' : reg'[k] = None
      BY <3>0 DEF Base, FinishLink, disk, pool
    <3>7. ASSUME NEW u \in Jobs, Linking(u), Linking(u)' PROVE NewSlot(job[u].id)'
      <4>1. job'[u].id = job[u].id /\ NewSlot(job[u].id) /\ job[u].id # i
        BY <3>0, <3>1, <3>7 DEF Base, Fresh, NewSlot, Moves, Linking
      <4>2. QED
        BY <3>5, <4>1 DEF NewSlot, FinishLink, Untouched, disk, pool
    <3>8. \A u \in Jobs : job'[u].pc = "rmdir" => job[u].id \in dir \ slots
      BY <3>1 DEF Base, Removing, Moves
    <3>9. QED
      BY <3>0, <3>1, <3>2, <3>3, <3>4, <3>5, <3>6, <3>7, <3>8, <1>StepBase DEF Base, FinishLink, disk, pool
  <2>FinishAnsweredBase.
      ASSUME Base, NEW t \in Task, FinishAnswered(t)
      PROVE  Base'
    <3> USE <2>FinishAnsweredBase
    <3>0. t \in Jobs /\ TypeOK /\ job[t].id \in Id /\ job[t].op = "finish" /\ job[t].pc = "wait"
      BY DEF Jobs, Base, FinishAnswered, JobsOK, JobShape, At, TypeOK
    <3>1. Legal(t) /\ Apart(t) /\ job'[t].pc # "rmdir"
      <4>1. CASE job[t].id \in finishing
        <5> DEFINE r == [job[t] EXCEPT !.pc = "complete", !.number = reg[job[t].id]]
        <5>1. job' = [job EXCEPT ![t] = r]
          BY <4>1 DEF FinishAnswered
        <5>2. /\ r \in JobType /\ r.pc = "complete" /\ r.op = job[t].op /\ r.id = job[t].id
              /\ r.number # None
          <6>1. job[t] \in JobType /\ reg[job[t].id] \in Number
            BY SMTT(30), <3>0 DEF TypeOK, FinishAnswered
          <6>2. QED
            BY <3>0, <6>1, PoolAssumption DEF JobType, PoolAssumption
        <5> HIDE DEF r
        <5>3. Moves(t) /\ job'[t] = r
          BY <3>0, <5>1, <5>2, UpdateMoves
        <5>4. QED
          BY SMTT(30), <3>0, <5>2, <5>3 DEF Legal, Apart, JobShape, Base, JobsOK, FinishAnswered, disk
      <4>2. CASE job[t].id \notin finishing
        BY <3>0, <4>2, EndLegal DEF FinishAnswered, Apart
      <4>3. QED
        BY <4>1, <4>2
    <3>2. TypeOK'
      BY <3>0, <3>1 DEF FinishAnswered, TypeOK, disk, pool, spawned, Legal, Moves
    <3>3. QED
      BY <3>0, <3>1, <3>2, <1>QuietBase DEF FinishAnswered, pool
  <2>FinishGivesUpBase.
      ASSUME Base, NEW t \in Task, FinishGivesUp(t)
      PROVE  Base'
    <3> USE <2>FinishGivesUpBase
    <3>0. t \in Jobs
      BY DEF Jobs
    <3>1. Legal(t) /\ Apart(t) /\ job'[t].pc # "rmdir"
      BY <3>0, EndLegal DEF FinishGivesUp, Apart
    <3>2. TypeOK'
      BY <3>0, <3>1 DEF FinishGivesUp, Base, TypeOK, disk, pool, spawned, Legal, Moves
    <3>3. QED
      BY <3>0, <3>1, <3>2, <1>QuietBase DEF FinishGivesUp, pool
  <2>FinishCommitBase.
      ASSUME Base, NEW t \in Task, FinishCommit(t)
      PROVE  Base'
    <3> USE <2>FinishCommitBase
    <3> DEFINE i == job[t].id
    <3>0. /\ t \in Jobs /\ TypeOK /\ i \in Id /\ i \in minted
          /\ job[t].op = "finish" /\ job[t].pc = "complete"
      BY DEF Jobs, Base, FinishCommit, JobsOK, JobShape, At, TypeOK
    <3>a. job[t].number \in Number
      <4>1. job[t].number # None
        BY <3>0 DEF Base, JobsOK, JobShape
      <4>2. job[t] \in JobType
        BY <3>0 DEF TypeOK
      <4>3. QED
        BY <4>1, <4>2 DEF JobType
    <3>1. /\ row' \in [Number -> Id \cup {None}]
          /\ Committed' \subseteq Committed \cup {i}
      <4>1. CASE Upsert(job[t].number, i)
        BY <3>0, <3>a, <4>1, UpsertCommits
      <4>2. CASE row' = row
        BY SMTT(30), <3>0, <4>2 DEF TypeOK, Committed
      <4>3. QED
        BY <4>1, <4>2 DEF FinishCommit
    <3>2. Legal(t) /\ Apart(t) /\ job'[t].pc # "rmdir"
      <4>1. CASE link[i] > 0 /\ ~UnfinishedDelete(job[t].number)
        <5> DEFINE r == [job[t] EXCEPT !.pc = "sync", !.found = row'[job[t].number]]
        <5>1. job' = [job EXCEPT ![t] = r]
          BY <4>1 DEF FinishCommit
        <5>2. /\ r \in JobType /\ r.pc = "sync" /\ r.op = job[t].op /\ r.id = job[t].id
              /\ r.number # None
          <6>1. job[t] \in JobType /\ row'[job[t].number] \in Id \cup {None} /\ job[t].number # None
            BY SMTT(30), <3>0, <3>1, <3>a, PoolAssumption DEF TypeOK, PoolAssumption
          <6>2. QED
            BY <6>1 DEF JobType
        <5> HIDE DEF r
        <5>3. Moves(t) /\ job'[t] = r
          BY <3>0, <5>1, <5>2, UpdateMoves
        <5>4. QED
          BY SMTT(30), <3>0, <5>2, <5>3 DEF Legal, Apart, JobShape, Base, JobsOK, FinishCommit
      <4>2. CASE ~(link[i] > 0 /\ ~UnfinishedDelete(job[t].number))
        <5>1. End(t)
          BY <4>2 DEF FinishCommit
        <5>2. QED
          BY <3>0, <5>1, EndLegal DEF Apart
      <4>3. QED
        BY <4>1, <4>2
    <3>3. TypeOK'
      BY SMTT(30), <3>0, <3>1, <3>2, PoolAssumption DEF FinishCommit, TypeOK, pool, spawned, Legal, Moves,
           PoolAssumption
    <3>4. \A k \in Id \ {i} : Untouched(k) => Untouched(k)'
      BY <3>0, <3>1 DEF FinishCommit, pool, Untouched
    <3>5. ASSUME NEW u \in Jobs, Linking(u), Linking(u)' PROVE NewSlot(job[u].id)'
      <4>1. u # t /\ job'[u].id = job[u].id /\ NewSlot(job[u].id) /\ job[u].id # i /\ job[u].id \in Id
        BY SMTT(30), <3>0, <3>2, <3>5 DEF Base, Fresh, NewSlot, Legal, Moves, Linking, TypeOK
      <4>2. Untouched(job[u].id)'
        BY <3>4, <4>1 DEF NewSlot
      <4>3. QED
        BY <3>0, <4>1, <4>2 DEF NewSlot, FinishCommit, pool, TypeOK
    <3>6. \A u \in Jobs : job'[u].pc = "rmdir" => job[u].id \in dir \ slots
      BY <3>2 DEF Base, Removing, Legal, Moves
    <3>7. \A k \in Id \ minted : Untouched(k)'
      BY <3>0, <3>4 DEF Base
    <3>8. QED
      BY <3>0, <3>2, <3>3, <3>5, <3>6, <3>7, <1>StepBase DEF Base, FinishCommit, pool
  <2>FinishMarkBase.
      ASSUME Base, NEW t \in Task, FinishMark(t)
      PROVE  Base'
    <3> USE <2>FinishMarkBase
    <3> DEFINE i == job[t].id
    <3>0. /\ t \in Jobs /\ TypeOK /\ i \in Id /\ i \in minted
          /\ job[t].op = "finish" /\ job[t].pc = "sync"
      BY DEF Jobs, Base, FinishMark, JobsOK, JobShape, At, TypeOK
    <3>1. Legal(t) /\ Apart(t) /\ job'[t].pc # "rmdir"
      <4>1. CASE End(t)
        BY <3>0, <4>1, EndLegal DEF Apart
      <4>2. CASE Goto(t, "discard")
        BY <3>0, <4>2, <1>GotoLegal DEF FinishMark, JobShape, Pc
      <4>3. QED
        BY <4>1, <4>2 DEF FinishMark
    <3>2. TypeOK'
      <4>1. /\ provisioned' \subseteq Id /\ resident' \subseteq Id /\ windows' \subseteq Id
            /\ idle' \in [Id -> 0 .. AbandonTtl] /\ sidecar' \in [Id -> {"none", "open", "done"}]
        <5>1. CASE job[t].found = i
          BY SMTT(30), <3>0, <5>1, PoolAssumption DEF FinishMark, NoteActivity, EnforceWindow, TypeOK, PoolAssumption
        <5>2. CASE job[t].found # i
          BY <3>0, <5>2 DEF FinishMark, TypeOK
        <5>3. QED
          BY <5>1, <5>2
      <4>2. QED
        BY <3>0, <3>1, <4>1 DEF FinishMark, TypeOK, sup, Legal, Moves
    <3>3. \A k \in Id \ {i} : Untouched(k) => Untouched(k)'
      <4>1. UNCHANGED <<reg, row, ledger>>
        BY DEF FinishMark
      <4>2. Committed' = Committed
        BY <4>1 DEF Committed
      <4>3. sidecar \in [Id -> {"none", "open", "done"}]
        BY <3>0 DEF TypeOK
      <4>4. \A k \in Id \ {i} : sidecar'[k] = sidecar[k] /\ (k \in provisioned' => k \in provisioned)
        BY <4>3 DEF FinishMark
      <4>5. QED
        BY <4>1, <4>2, <4>4 DEF Untouched
    <3>4. ASSUME NEW u \in Jobs, Linking(u), Linking(u)' PROVE NewSlot(job[u].id)'
      <4>1. u # t /\ job'[u].id = job[u].id /\ NewSlot(job[u].id) /\ job[u].id # i /\ job[u].id \in Id
        BY SMTT(30), <3>0, <3>1, <3>4 DEF Base, Fresh, NewSlot, Legal, Moves, Linking, TypeOK
      <4>2. Untouched(job[u].id)'
        BY <3>3, <4>1 DEF NewSlot
      <4>3. idle \in [Id -> 0 .. AbandonTtl]
        BY <3>0 DEF TypeOK
      <4>4. UNCHANGED <<slots, asked, link>> /\ sessions' \subseteq sessions
            /\ \A k \in Id \ {i} : idle'[k] = idle[k]
        BY <4>3 DEF FinishMark, NoteActivity, sup
      <4>5. QED
        BY <4>1, <4>2, <4>4 DEF NewSlot
    <3>5. \A u \in Jobs : job'[u].pc = "rmdir" => job[u].id \in dir \ slots
      BY <3>1 DEF Base, Removing, Legal, Moves
    <3>6. \A k \in Id \ minted : Untouched(k)'
      BY <3>0, <3>3 DEF Base
    <3>7. QED
      BY <3>0, <3>1, <3>2, <3>4, <3>5, <3>6, <1>StepBase DEF Base, FinishMark, sup
  <2>FinishReadFailsBase.
      ASSUME Base, NEW t \in Task, FinishReadFails(t)
      PROVE  Base'
    <3> USE <2>FinishReadFailsBase
    <3>0. t \in Jobs
      BY DEF Jobs
    <3>1. Legal(t) /\ Apart(t) /\ job'[t].pc # "rmdir"
      BY <3>0, EndLegal DEF FinishReadFails, Apart
    <3>2. QED
      BY <3>0, <3>1, <1>JobOnlyBase DEF FinishReadFails, pool, Base, TypeOK
  <2> QED
    BY <2>FinishLinkBase, <2>FinishAnsweredBase, <2>FinishGivesUpBase, <2>FinishCommitBase,
       <2>FinishMarkBase, <2>FinishReadFailsBase DEF FinishStep
<1>CancelBase. \A t \in Task : Base /\ CancelStep(t) => Base'
  <2>CancelWaitBase.
      ASSUME Base, NEW t \in Task, NEW i \in Id, CancelWait(t, i)
      PROVE  Base'
    <3> USE <2>CancelWaitBase
    <3>0. t \in Jobs /\ TypeOK /\ i \in sessions \cap slots
      BY DEF Jobs, Base, CancelWait
    <3>1. /\ Moves(t) /\ job[t] = NoJob /\ "cancel" \in ops
          /\ job'[t].op = "cancel" /\ job'[t].id = i /\ job'[t].pc = "cancel"
      <4>1. Begin(t, "cancel", i, "cancel") /\ "cancel" \in Op /\ "cancel" \in Pc
        BY DEF CancelWait, Op, Pc
      <4>2. QED
        BY <3>0, <4>1, BeginMoves
    <3>2. Legal(t)
      BY <3>0, <3>1, PoolAssumption DEF Legal, CancelWait, JobShape, PoolAssumption, Control, TypeOK, disk
    <3>3. Apart(t)
      BY <3>0, <3>1 DEF Apart, Base, Fresh, NewSlot
    <3>4. TypeOK'
      BY <3>0, <3>1 DEF TypeOK, CancelWait, Moves, spawned, disk, pool
    <3>5. QED
      BY <3>0, <3>1, <3>2, <3>3, <3>4, <1>QuietBase DEF CancelWait, pool
  <2>CancelSessionBase.
      ASSUME Base, NEW t \in Task, CancelSession(t)
      PROVE  Base'
    <3> USE <2>CancelSessionBase
    <3> DEFINE i == job[t].id
    <3>0. /\ t \in Jobs /\ TypeOK /\ i \in Id /\ i \in minted
          /\ job[t].op = "cancel" /\ job[t].pc = "cancel"
      BY DEF Jobs, Base, CancelSession, JobsOK, JobShape, At, TypeOK
    <3>1. Legal(t) /\ Apart(t) /\ job'[t].pc # "rmdir"
      <4>1. CASE End(t)
        BY <3>0, <4>1, EndLegal DEF Apart
      <4>2. CASE Goto(t, "discard")
        BY <3>0, <4>2, <1>GotoLegal DEF CancelSession, JobShape, Pc, disk
      <4>3. QED
        BY <4>1, <4>2 DEF CancelSession
    <3>2. TypeOK'
      BY SMTT(30), <3>0, <3>1, PoolAssumption DEF CancelSession, TypeOK, disk, spawned, Legal, Moves, PoolAssumption
    <3>3. Committed' = Committed /\ \A k \in Id : Untouched(k)' = Untouched(k)
      BY DEF CancelSession, disk, Committed, Untouched
    <3>4. ASSUME NEW u \in Jobs, Linking(u), Linking(u)' PROVE NewSlot(job[u].id)'
      <4>1. u # t /\ job'[u].id = job[u].id /\ NewSlot(job[u].id) /\ job[u].id \in Id
        BY <3>0, <3>1, <3>4 DEF Base, Fresh, NewSlot, Legal, Moves, Linking, TypeOK
      <4>2. QED
        BY <3>0, <3>3, <4>1 DEF NewSlot, CancelSession, TypeOK
    <3>5. \A u \in Jobs : job'[u].pc = "rmdir" => job[u].id \in dir \ slots
      BY <3>1 DEF Base, Removing, Legal, Moves
    <3>6. QED
      BY <3>0, <3>1, <3>2, <3>3, <3>4, <3>5, <1>StepBase DEF Base, CancelSession, disk
  <2> QED
    BY <2>CancelWaitBase, <2>CancelSessionBase DEF CancelStep
<1>RemovalBase. \A t \in Jobs : Base /\ DiscardStep(t) => Base'
  <2>DiscardBase.
      ASSUME Base, NEW t \in Jobs, Discard(t)
      PROVE  Base'
    <3> USE <2>DiscardBase
    <3> DEFINE i == job[t].id
    <3>0. TypeOK /\ job[t].pc = "discard" /\ i \in Id /\ job[t].op \notin {"none", "stop", "start"}
      BY DEF Base, Discard, JobsOK, JobShape, At, TypeOK
    <3>1. CASE i \notin slots
      <4>1. End(t) /\ UNCHANGED <<ops, disk, pool, sup, spawned>>
        BY <3>1 DEF Discard, pool, sup
      <4>2. Legal(t) /\ Apart(t) /\ job'[t].pc # "rmdir"
        BY <4>1, EndLegal DEF Apart
      <4>3. QED
        BY <4>1, <4>2, <1>JobOnlyBase, <3>0 DEF pool, TypeOK
    <3>2. CASE i \in slots
      <4> DEFINE r == [job[t] EXCEPT !.pc = "rmdir", !.child = engine[i] = "run"]
      <4>1. job' = [job EXCEPT ![t] = r]
        BY <3>2 DEF Discard
      <4>2. r \in JobType /\ r.pc = "rmdir" /\ r.op = job[t].op /\ r.id = i
        <5>1. job[t] \in JobType
          BY <3>0 DEF TypeOK
        <5>2. QED
          BY <3>0, <5>1 DEF JobType
      <4> HIDE DEF r
      <4>3. Moves(t) /\ job'[t] = r
        BY <3>0, <4>1, <4>2, UpdateMoves
      <4>4. Legal(t) /\ Apart(t)
        BY SMTT(30), <3>0, <4>2, <4>3 DEF Legal, Apart, JobShape, Base, JobsOK, Discard, disk, TypeOK
      <4>5. /\ slots' = slots \ {i} /\ sessions' = sessions \ {i} /\ resident' = resident \ {i}
            /\ tasks' = tasks \ {i} /\ TakeEngine(i)
            /\ UNCHANGED <<ops, disk, provisioned, idle, running, spawned>>
        BY <3>2 DEF Discard
      <4>6. TypeOK'
        BY SMTT(30), <3>0, <4>3, <4>5, PoolAssumption DEF TypeOK, TakeEngine, disk, spawned, Moves, PoolAssumption
      <4>7. Committed' = Committed /\ \A k \in Id : Untouched(k)' = Untouched(k)
        BY <4>5 DEF disk, Committed, Untouched
      <4>8. ASSUME NEW u \in Jobs, Linking(u), Linking(u)' PROVE NewSlot(job[u].id)'
        <5>1. u # t /\ job'[u].id = job[u].id /\ NewSlot(job[u].id) /\ job[u].id # i /\ job[u].id \in Id
          BY SMTT(30), <3>0, <4>2, <4>3, <4>8 DEF Base, Fresh, NewSlot, Moves, Linking, TypeOK
        <5>2. QED
          BY <3>0, <4>5, <4>7, <5>1 DEF NewSlot, TakeEngine, TypeOK
      <4>9. \A u \in Jobs : job'[u].pc = "rmdir" => job[u].id \in dir' \ slots'
        BY <3>0, <3>2, <4>2, <4>3, <4>5 DEF Base, Removing, Moves, disk, TypeOK
      <4>10. asked' \subseteq slots' /\ \A k \in asked' : reg'[k] = None
        BY <4>5 DEF Base, TakeEngine, disk
      <4>11. QED
        BY <3>0, <3>2, <4>2, <4>3, <4>4, <4>5, <4>6, <4>7, <4>8, <4>9, <4>10, <1>StepBase DEF Base, disk
    <3>3. QED
      BY <3>1, <3>2
  <2>RemoveDirectoryBase.
      ASSUME Base, NEW t \in Jobs, RemoveDirectory(t)
      PROVE  Base'
    <3> USE <2>RemoveDirectoryBase
    <3> DEFINE i == job[t].id
    <3>0. TypeOK /\ job[t].pc = "rmdir" /\ Removing(t) /\ i \in Id /\ i \notin slots
      BY DEF Base, RemoveDirectory, At, Removing, TypeOK
    <3>1. Legal(t) /\ Apart(t) /\ job'[t].pc = "none"
      BY EndLegal DEF Apart, RemoveDirectory
    <3>2. TypeOK'
      BY <3>0, <3>1 DEF RemoveDirectory, TypeOK, pool, sup, spawned, Legal, Moves
    <3>3. Committed' = Committed /\ \A k \in Id : Untouched(k) => Untouched(k)'
      BY SMTT(30), <3>0 DEF RemoveDirectory, pool, Committed, Untouched, TypeOK
    <3>4. ASSUME NEW u \in Jobs, Linking(u), Linking(u)' PROVE NewSlot(job[u].id)'
      <4>1. u # t /\ job'[u].id = job[u].id /\ NewSlot(job[u].id) /\ job[u].id \in Id
        BY <3>0, <3>1, <3>4 DEF Base, Fresh, NewSlot, Legal, Moves, Linking, TypeOK
      <4>2. Untouched(job[u].id)'
        BY <3>3, <4>1 DEF NewSlot
      <4>3. QED
        BY <4>1, <4>2 DEF NewSlot, RemoveDirectory, pool, sup
    <3>5. \A u \in Jobs : job'[u].pc = "rmdir" => job[u].id \in dir' \ slots'
      BY <3>0, <3>1 DEF Base, Removing, Legal, Moves, RemoveDirectory, pool
    <3>6. asked' \subseteq slots' /\ \A k \in asked' : reg'[k] = None
      BY <3>0 DEF Base, RemoveDirectory, pool, sup, TypeOK
    <3>7. QED
      BY <3>0, <3>1, <3>2, <3>3, <3>4, <3>5, <3>6, <1>StepBase DEF Base, RemoveDirectory
  <2> QED
    BY <2>DiscardBase, <2>RemoveDirectoryBase DEF DiscardStep
<1>RequestBase. \A t \in Task : Base /\ RequestStep(t) => Base'
  <2>AddressedBase.
      ASSUME Base, NEW t \in Task, NEW i \in Id, Request(t, i) \/ DeleteAccount(t, i)
      PROVE  Base'
    <3> USE <2>AddressedBase
    <3>0. t \in Jobs /\ TypeOK /\ i \in slots /\ (i \in Committed \/ ledger[i] # "none")
      BY DEF Jobs, Base, Request, DeleteAccount
    <3>1. PICK op \in {"request", "delete"}, pc \in {"wake", "prepare"} :
            Begin(t, op, i, pc) /\ (pc = "prepare" => op = "delete")
      BY DEF Request, DeleteAccount
    <3>2. /\ Moves(t) /\ job[t] = NoJob /\ op \in ops
          /\ job'[t].op = op /\ job'[t].id = i /\ job'[t].pc = pc
      <4>1. op \in Op /\ pc \in Pc
        BY DEF Op, Pc
      <4>2. QED
        BY <3>0, <3>1, <4>1, BeginMoves
    <3>3. UNCHANGED <<ops, disk, pool, sup, spawned>>
      BY DEF Request, DeleteAccount
    <3>4. Legal(t)
      BY <3>0, <3>1, <3>2, <3>3, PoolAssumption DEF Legal, JobShape, PoolAssumption, Control, TypeOK, disk
    <3>5. Apart(t)
      BY <3>0, <3>2 DEF Apart, Base, Fresh, NewSlot, Untouched
    <3>6. QED
      BY <3>0, <3>2, <3>3, <3>4, <3>5, <1>JobOnlyBase DEF pool, TypeOK
  <2>WakeBase.
      ASSUME Base, NEW t \in Task, Wake(t)
      PROVE  Base'
    <3> USE <2>WakeBase
    <3> DEFINE i == job[t].id
    <3>0. /\ t \in Jobs /\ TypeOK /\ i \in Id /\ i \in minted
          /\ job[t].op \in {"request", "delete"} /\ job[t].pc = "wake"
      BY DEF Jobs, Base, Wake, JobsOK, JobShape, At, TypeOK
    <3>1. /\ End(t) \/ Goto(t, "launch") \/ (Goto(t, "prepare") /\ job[t].op = "delete")
          /\ resident' \subseteq resident \cup {i} /\ idle' = [idle EXCEPT ![i] = 0]
          /\ UNCHANGED <<ops, disk, slots, provisioned, sessions, running, sup, spawned>>
      BY DEF Wake, Woken
    <3>2. Legal(t) /\ Apart(t) /\ job'[t].pc # "rmdir"
      <4>1. CASE End(t)
        BY <3>0, <4>1, EndLegal DEF Apart
      <4>2. CASE Goto(t, "launch")
        BY <3>0, <3>1, <4>2, <1>GotoLegal DEF JobShape, Pc, disk
      <4>3. CASE Goto(t, "prepare") /\ job[t].op = "delete"
        BY <3>0, <3>1, <4>3, <1>GotoLegal DEF JobShape, Pc, disk
      <4>4. QED
        BY <3>1, <4>1, <4>2, <4>3
    <3>3. TypeOK'
      BY SMTT(30), <3>0, <3>1, <3>2, PoolAssumption DEF TypeOK, disk, sup, spawned, Legal, Moves, PoolAssumption
    <3>4. Committed' = Committed /\ \A k \in Id : Untouched(k)' = Untouched(k)
      BY <3>1 DEF disk, Committed, Untouched
    <3>5. ASSUME NEW u \in Jobs, Linking(u), Linking(u)' PROVE NewSlot(job[u].id)'
      <4>1. u # t /\ job'[u].id = job[u].id /\ NewSlot(job[u].id) /\ job[u].id \in Id
        BY <3>0, <3>2, <3>5 DEF Base, Fresh, NewSlot, Legal, Moves, Linking, TypeOK
      <4>2. QED
        BY <3>0, <3>1, <3>4, <4>1 DEF NewSlot, TypeOK, sup
    <3>6. \A u \in Jobs : job'[u].pc = "rmdir" => job[u].id \in dir \ slots
      BY <3>2 DEF Base, Removing, Legal, Moves
    <3>7. QED
      BY <3>0, <3>1, <3>2, <3>3, <3>4, <3>5, <3>6, <1>StepBase DEF Base, disk, sup
  <2>LaunchBase.
      ASSUME Base, NEW t \in Task, NEW spawns \in BOOLEAN, Launch(t, spawns)
      PROVE  Base'
    <3> USE <2>LaunchBase
    <3>0. /\ t \in Jobs /\ TypeOK /\ job[t].id \in Id
          /\ job[t].op \in {"request", "delete"} /\ job[t].pc = "launch"
      BY DEF Jobs, Base, Launch, JobsOK, JobShape, At, TypeOK
    <3>1. End(t) \/ (Goto(t, "prepare") /\ job[t].op = "delete")
      BY DEF Launch, Woken
    <3>2. Legal(t) /\ Apart(t) /\ job'[t].pc # "rmdir"
      <4>1. CASE End(t)
        BY <3>0, <4>1, EndLegal DEF Apart
      <4>2. CASE Goto(t, "prepare") /\ job[t].op = "delete"
        BY <3>0, <4>2, <1>GotoLegal DEF JobShape, Pc, Launch, disk
      <4>3. QED
        BY <3>1, <4>1, <4>2
    <3>3. TypeOK'
      <4>1. engine' \in [Id -> {"none", "run", "dead"}] /\ job' \in [Jobs -> JobType]
        BY <3>0, <3>2 DEF Launch, StartEngine, TypeOK, Legal, Moves
      <4>2. resident' \subseteq Id /\ windows' \subseteq Id
        BY SMTT(30), <3>0 DEF Launch, EnforceWindow, TypeOK
      <4>3. QED
        BY <3>0, <4>1, <4>2 DEF Launch, TypeOK, disk
    <3>4. QED
      BY <3>0, <3>2, <3>3, <1>QuietBase DEF Launch
  <2>PrepareDeleteBase.
      ASSUME Base, NEW t \in Task, PrepareDelete(t)
      PROVE  Base'
    <3> USE <2>PrepareDeleteBase
    <3> DEFINE i == job[t].id
    <3>0. /\ t \in Jobs /\ TypeOK /\ i \in Id /\ i \in minted
          /\ job[t].op = "delete" /\ job[t].pc = "prepare"
      BY DEF Jobs, Base, PrepareDelete, JobsOK, JobShape, At, TypeOK
    <3>1. PICK pc \in {"erase", "discard"} : Goto(t, pc)
      BY DEF PrepareDelete
    <3>2. Legal(t) /\ Apart(t) /\ job'[t].pc # "rmdir"
      BY <3>0, <3>1, <1>GotoLegal DEF JobShape, Pc, PrepareDelete
    <3>3. TypeOK'
      BY <3>0, <3>2 DEF PrepareDelete, TypeOK, pool, sup, spawned, Legal, Moves
    <3>4. \A k \in Id \ {i} : Untouched(k) => Untouched(k)'
      BY SMTT(30), <3>0 DEF PrepareDelete, pool, Untouched, Committed, TypeOK
    <3>5. ASSUME NEW u \in Jobs, Linking(u), Linking(u)' PROVE NewSlot(job[u].id)'
      <4>1. u # t /\ job'[u].id = job[u].id /\ NewSlot(job[u].id) /\ job[u].id # i /\ job[u].id \in Id
        BY <3>0, <3>2, <3>5 DEF Base, Fresh, NewSlot, Legal, Moves, Linking, TypeOK
      <4>2. Untouched(job[u].id)'
        BY <3>4, <4>1 DEF NewSlot
      <4>3. QED
        BY <4>1, <4>2 DEF NewSlot, PrepareDelete, pool, sup
    <3>6. \A u \in Jobs : job'[u].pc = "rmdir" => job[u].id \in dir \ slots
      BY <3>2 DEF Base, Removing, Legal, Moves
    <3>7. \A k \in Id \ minted : Untouched(k)'
      BY <3>0, <3>4 DEF Base
    <3>8. QED
      BY <3>0, <3>2, <3>3, <3>5, <3>6, <3>7, <1>StepBase DEF Base, PrepareDelete, pool, sup
  <2>EraseBase.
      ASSUME Base, NEW t \in Task, NEW answered \in BOOLEAN, Erase(t, answered)
      PROVE  Base'
    <3> USE <2>EraseBase
    <3> DEFINE i == job[t].id
    <3>0. /\ t \in Jobs /\ TypeOK /\ i \in Id /\ i \in minted
          /\ job[t].op = "delete" /\ job[t].pc = "erase"
      BY DEF Jobs, Base, Erase, JobsOK, JobShape, At, TypeOK
    <3>1. End(t) \/ Goto(t, "forget")
      BY DEF Erase
    <3>2. Legal(t) /\ Apart(t) /\ job'[t].pc # "rmdir"
      <4>1. CASE End(t)
        BY <3>0, <4>1, EndLegal DEF Apart
      <4>2. CASE Goto(t, "forget")
        BY <3>0, <4>2, <1>GotoLegal DEF JobShape, Pc, Erase
      <4>3. QED
        BY <3>1, <4>1, <4>2
    <3>3. reg' = reg \/ reg' = [reg EXCEPT ![i] = None]
      BY DEF Erase
    <3>4. TypeOK'
      BY <3>0, <3>2, <3>3 DEF Erase, TypeOK, pool, sup, spawned, Legal, Moves
    <3>5. \A k \in Id : Untouched(k) => Untouched(k)'
      BY SMTT(30), <3>0, <3>3 DEF Erase, pool, Untouched, Committed, TypeOK
    <3>6. ASSUME NEW u \in Jobs, Linking(u), Linking(u)' PROVE NewSlot(job[u].id)'
      <4>1. u # t /\ job'[u].id = job[u].id /\ NewSlot(job[u].id) /\ job[u].id \in Id
        BY <3>0, <3>2, <3>6 DEF Base, Fresh, NewSlot, Legal, Moves, Linking, TypeOK
      <4>2. Untouched(job[u].id)'
        BY <3>5, <4>1 DEF NewSlot
      <4>3. QED
        BY <4>1, <4>2 DEF NewSlot, Erase, pool, sup
    <3>7. \A u \in Jobs : job'[u].pc = "rmdir" => job[u].id \in dir \ slots
      BY <3>2 DEF Base, Removing, Legal, Moves
    <3>8. asked' \subseteq slots' /\ \A k \in asked' : reg'[k] = None
      BY <3>0, <3>3 DEF Base, Erase, pool, sup, TypeOK
    <3>9. QED
      BY <3>0, <3>2, <3>4, <3>5, <3>6, <3>7, <3>8, <1>StepBase DEF Base, Erase, pool, sup
  (* Rows of an id go, and no other.                                          *)
  <2>ForgetRows.
      ASSUME TypeOK, NEW i \in Id, row' = [n \in Number |-> IF row[n] = i THEN None ELSE row[n]]
      PROVE  row' \in [Number -> Id \cup {None}] /\ Committed' = Committed \ {i}
    BY SMTT(30), <2>ForgetRows, PoolAssumption DEF TypeOK, Committed, PoolAssumption
  <2>ForgetBase.
      ASSUME Base, NEW t \in Task, Forget(t)
      PROVE  Base'
    <3> USE <2>ForgetBase
    <3> DEFINE i == job[t].id
    <3>0. /\ t \in Jobs /\ TypeOK /\ i \in Id /\ i \in minted
          /\ job[t].op = "delete" /\ job[t].pc = "forget"
      BY DEF Jobs, Base, Forget, JobsOK, JobShape, At, TypeOK
    <3>1. Legal(t) /\ Apart(t) /\ job'[t].pc # "rmdir"
      BY <3>0, <1>GotoLegal DEF JobShape, Pc, Forget
    <3>2. row' \in [Number -> Id \cup {None}] /\ Committed' = Committed \ {i}
      BY <3>0, <2>ForgetRows DEF Forget
    <3>3. TypeOK'
      BY <3>0, <3>1, <3>2 DEF Forget, TypeOK, pool, sup, spawned, Legal, Moves
    <3>4. \A k \in Id \ {i} : Untouched(k) => Untouched(k)'
      BY <3>0, <3>2 DEF Forget, pool, Untouched, TypeOK
    <3>5. ASSUME NEW u \in Jobs, Linking(u), Linking(u)' PROVE NewSlot(job[u].id)'
      <4>1. u # t /\ job'[u].id = job[u].id /\ NewSlot(job[u].id) /\ job[u].id # i /\ job[u].id \in Id
        BY <3>0, <3>1, <3>5 DEF Base, Fresh, NewSlot, Legal, Moves, Linking, TypeOK
      <4>2. Untouched(job[u].id)'
        BY <3>4, <4>1 DEF NewSlot
      <4>3. QED
        BY <4>1, <4>2 DEF NewSlot, Forget, pool, sup
    <3>6. \A u \in Jobs : job'[u].pc = "rmdir" => job[u].id \in dir \ slots
      BY <3>1 DEF Base, Removing, Legal, Moves
    <3>7. \A k \in Id \ minted : Untouched(k)'
      BY <3>0, <3>4 DEF Base
    <3>8. QED
      BY <3>0, <3>1, <3>3, <3>5, <3>6, <3>7, <1>StepBase DEF Base, Forget, pool, sup
  <2> QED
    BY <2>AddressedBase, <2>WakeBase, <2>LaunchBase, <2>PrepareDeleteBase, <2>EraseBase,
       <2>ForgetBase DEF RequestStep
<1>RuntimeBase. \A t \in Task : Base /\ RuntimeStep(t) => Base'
  <2>StopRuntimeBase.
      ASSUME Base, NEW t \in Task, StopRuntime(t)
      PROVE  Base'
    <3> USE <2>StopRuntimeBase
    <3> DEFINE r == [NoJob EXCEPT !.op = "stop", !.pc = "stop", !.todo = slots]
    <3>0. t \in Jobs /\ TypeOK /\ job[t] = NoJob /\ job' = [job EXCEPT ![t] = r]
      BY DEF Jobs, Base, StopRuntime
    <3>1. r \in JobType /\ r.op = "stop" /\ r.pc = "stop" /\ r.id = None
      BY <3>0 DEF JobType, NoJob, TypeOK
    <3> HIDE DEF r
    <3>2. Moves(t) /\ job'[t] = r
      BY <3>0, <3>1, UpdateMoves
    <3>3. Legal(t) /\ Apart(t)
      BY <3>0, <3>1, <3>2 DEF Legal, Apart, JobShape, StopRuntime
    <3>4. QED
      BY <3>0, <3>1, <3>2, <3>3, <1>JobOnlyBase DEF StopRuntime
  <2>StopSlotBase.
      ASSUME Base, NEW t \in Task, NEW i \in Id, StopSlot(t, i)
      PROVE  Base'
    <3> USE <2>StopSlotBase
    <3> DEFINE r == [job[t] EXCEPT !.id = i, !.todo = job[t].todo \ {i},
                               !.child = (engine[i] = "run")]
    <3>0. t \in Jobs /\ TypeOK /\ job[t].pc = "stop" /\ job[t].op = "stop" /\ job' = [job EXCEPT ![t] = r]
      <4>1. job' = [job EXCEPT ![t] = r] /\ job[t].pc = "stop"
        BY DEF StopSlot, At
      <4>2. t \in Jobs /\ TypeOK /\ job[t].op = "stop"
        BY <4>1 DEF Jobs, Base, JobsOK, JobShape
      <4>3. QED
        BY <4>1, <4>2
    <3>1. r \in JobType /\ r.op = "stop" /\ r.pc = "stop" /\ r.id = i
      <4>1. job[t] \in JobType
        BY <3>0 DEF TypeOK
      <4>2. QED
        BY <3>0, <4>1 DEF JobType
    <3> HIDE DEF r
    <3>2. Moves(t) /\ job'[t] = r
      BY <3>0, <3>1, UpdateMoves
    <3>3. \A u \in Jobs : ~Linking(u)
      BY <3>0, PoolAssumption DEF Linking, Base, JobsOK, JobShape, Control, Jobs, PoolAssumption
    <3>4. Legal(t) /\ Apart(t)
      BY <3>0, <3>1, <3>2, <3>3 DEF Legal, Apart, JobShape, StopSlot, disk
    <3>5. TypeOK'
      <4>1. /\ link' \in [Id -> -1 .. LinkTtl] /\ \A k \in Id \ slots : link'[k] = -1
            /\ finishing' \subseteq slots /\ asked' \subseteq Id /\ tasks' = tasks
            /\ engine' \in [Id -> {"none", "run", "dead"}]
        BY SMTT(30), <3>0, PoolAssumption DEF StopSlot, TakeEngine, sup, TypeOK, PoolAssumption
      <4>2. QED
        BY <3>0, <3>2, <4>1 DEF StopSlot, TypeOK, disk, spawned, Moves
    <3>6. asked' \subseteq slots' /\ \A k \in asked' : reg'[k] = None
      BY DEF Base, StopSlot, TakeEngine, sup, disk
    <3>7. Committed' = Committed /\ \A k \in Id : Untouched(k)' = Untouched(k)
      BY DEF StopSlot, disk, Committed, Untouched
    <3>8. \A u \in Jobs : job'[u].pc = "rmdir" => job[u].id \in dir \ slots
      BY <3>1, <3>2 DEF Base, Removing, Moves
    <3>9. QED
      BY <3>0, <3>1, <3>2, <3>3, <3>4, <3>5, <3>6, <3>7, <3>8, <1>StepBase DEF Base, StopSlot, disk
  <2>StopWaitedBase.
      ASSUME Base, NEW t \in Task, StopWaited(t)
      PROVE  Base'
    <3> USE <2>StopWaitedBase
    <3>0. t \in Jobs /\ TypeOK /\ job[t].pc = "stop" /\ job[t].op = "stop"
      BY DEF Jobs, Base, StopWaited, JobsOK, JobShape, At
    <3>1. Legal(t) /\ Apart(t) /\ job'[t].pc # "rmdir"
      <4>1. CASE job[t].child
        <5> DEFINE r == [job[t] EXCEPT !.child = FALSE]
        <5>1. job' = [job EXCEPT ![t] = r]
          BY <4>1 DEF StopWaited
        <5>2. r \in JobType /\ r.op = "stop" /\ r.pc = "stop" /\ r.id = job[t].id
          <6>1. job[t] \in JobType
            BY <3>0 DEF TypeOK
          <6>2. QED
            BY <3>0, <6>1 DEF JobType
        <5> HIDE DEF r
        <5>3. Moves(t) /\ job'[t] = r
          BY <3>0, <5>1, <5>2, UpdateMoves
        <5>4. QED
          BY <3>0, <5>2, <5>3 DEF Legal, Apart, JobShape, StopWaited, disk, Base, JobsOK
      <4>2. CASE ~job[t].child
        BY <3>0, <4>2, EndLegal DEF StopWaited, Apart
      <4>3. QED
        BY <4>1, <4>2
    <3>2. QED
      BY <3>0, <3>1, <1>JobOnlyBase DEF StopWaited, pool, TypeOK
  <2>StartRuntimeBase.
      ASSUME Base, NEW t \in Task, StartRuntime(t)
      PROVE  Base'
    <3> USE <2>StartRuntimeBase
    <3>1. PICK T \in Recent(MaxResident) :
            job' = [job EXCEPT ![t] = [NoJob EXCEPT !.op = "start", !.pc = "window", !.todo = T]]
      BY DEF StartRuntime
    <3> DEFINE r == [NoJob EXCEPT !.op = "start", !.pc = "window", !.todo = T]
    <3>2. t \in Jobs /\ TypeOK /\ job[t] = NoJob /\ job' = [job EXCEPT ![t] = r]
      BY <3>1 DEF Jobs, Base, StartRuntime
    <3>3. T \subseteq Id
      BY SMTT(30), <3>2, RecentSlots, PoolAssumption DEF PoolAssumption, TypeOK
    <3>4. r \in JobType /\ r.op = "start" /\ r.pc = "window" /\ r.id = None
      BY <3>3 DEF JobType, NoJob
    <3> HIDE DEF r
    <3>5. Moves(t) /\ job'[t] = r
      BY <3>2, <3>4, UpdateMoves
    <3>6. Legal(t) /\ Apart(t)
      BY <3>2, <3>4, <3>5 DEF Legal, Apart, JobShape, StartRuntime
    <3>7. QED
      BY <3>2, <3>4, <3>5, <3>6, <1>JobOnlyBase DEF StartRuntime
  <2>StartSlotBase.
      ASSUME Base, NEW t \in Task, NEW i \in Id, NEW spawns \in BOOLEAN, StartSlot(t, i, spawns)
      PROVE  Base'
    <3> USE <2>StartSlotBase
    <3> DEFINE r == [job[t] EXCEPT !.todo = @ \ {i}]
    <3>0. t \in Jobs /\ TypeOK /\ job[t].pc = "window" /\ job[t].op = "start" /\ job' = [job EXCEPT ![t] = r]
      BY DEF Jobs, Base, StartSlot, JobsOK, JobShape, At
    <3>1. r \in JobType /\ r.op = "start" /\ r.pc = "window" /\ r.id = job[t].id
      BY SMTT(30), <3>0 DEF JobType, TypeOK
    <3> HIDE DEF r
    <3>2. Moves(t) /\ job'[t] = r
      BY <3>0, <3>1, UpdateMoves
    <3>3. Legal(t) /\ Apart(t)
      BY <3>0, <3>1, <3>2 DEF Legal, Apart, JobShape, StartSlot, disk, Base, JobsOK
    <3>4. TypeOK'
      BY <3>0, <3>2 DEF StartSlot, StartEngine, TypeOK, disk, spawned, Moves
    <3>5. QED
      BY <3>0, <3>1, <3>2, <3>3, <3>4, <1>QuietBase DEF StartSlot
  <2>StartDoneBase.
      ASSUME Base, NEW t \in Task, StartDone(t)
      PROVE  Base'
    <3> USE <2>StartDoneBase
    <3>0. t \in Jobs
      BY DEF Jobs
    <3>1. Legal(t) /\ Apart(t) /\ job'[t].pc # "rmdir"
      BY <3>0, EndLegal DEF StartDone, Apart
    <3>2. QED
      BY <3>0, <3>1, <1>JobOnlyBase DEF StartDone, pool, Base, TypeOK
  <2> QED
    BY <2>StopRuntimeBase, <2>StopSlotBase, <2>StopWaitedBase, <2>StartRuntimeBase,
       <2>StartSlotBase, <2>StartDoneBase DEF RuntimeStep
<1>WindowBase. \A i \in Id : Base /\ WindowStep(i) => Base'
  <2>VictimsResident. \A keep \in Id : \A V \in Victims(keep) : V \subseteq resident \cap slots
    BY DEF Victims, kSubset
  <2>WindowTaskBase.
      ASSUME Base, NEW keep \in Id, WindowTask(keep)
      PROVE  Base'
    <3> USE <2>WindowTaskBase
    <3>0. job' = job /\ TypeOK
      BY DEF WindowTask, Base
    <3>1. Reaper \in Jobs /\ Legal(Reaper) /\ Apart(Reaper)
      BY <3>0, StillLegal DEF WindowTask, disk
    <3>2. resident' \subseteq Id /\ tasks' \subseteq Id /\ demoting' \subseteq Id
      BY <3>0, <2>VictimsResident DEF WindowTask, TypeOK
    <3>3. TypeOK'
      BY <3>0, <3>2 DEF TypeOK, WindowTask, disk
    <3>4. QED
      BY <3>0, <3>1, <3>3, <1>QuietBase DEF WindowTask
  (* A shutdown that takes an engine out of its slot.                         *)
  <2>TakenBase.
      ASSUME Base, NEW i \in Id, TakeEngine(i), job' = job, TypeOK',
             UNCHANGED <<ops, disk, slots, provisioned, sessions, idle>>
      PROVE  Base'
    <3> USE <2>TakenBase
    <3>0. TypeOK
      BY DEF Base
    <3>1. Reaper \in Jobs /\ Legal(Reaper) /\ Apart(Reaper)
      BY StillLegal DEF disk
    <3>2. Committed' = Committed /\ \A k \in Id : Untouched(k)' = Untouched(k)
      BY DEF disk, Committed, Untouched
    <3>3. ASSUME NEW u \in Jobs, Linking(u) PROVE NewSlot(job[u].id)'
      <4>1. NewSlot(job[u].id) /\ job[u].id \in Id
        BY <3>0, <3>3 DEF Base, Fresh, NewSlot, TypeOK
      <4>2. QED
        BY <3>0, <3>2, <4>1 DEF NewSlot, TakeEngine, TypeOK
    <3>4. asked' \subseteq slots' /\ \A k \in asked' : reg'[k] = None
      BY DEF Base, TakeEngine, disk
    <3>5. \A u \in Jobs : job'[u].pc = "rmdir" => job[u].id \in dir \ slots
      BY DEF Base, Removing
    <3>6. QED
      BY <3>1, <3>2, <3>3, <3>4, <3>5, <1>StepBase DEF Base, disk
  <2>DemoteShutdownBase.
      ASSUME Base, NEW i \in Id, DemoteShutdown(i)
      PROVE  Base'
    <3> USE <2>DemoteShutdownBase
    <3>1. TypeOK'
      BY SMTT(30), PoolAssumption DEF Base, DemoteShutdown, TypeOK, TakeEngine, disk, pool, PoolAssumption
    <3>2. QED
      BY <3>1, <2>TakenBase DEF DemoteShutdown, pool
  <2>DemotedExitsBase.
      ASSUME Base, NEW i \in Id, DemotedExits(i)
      PROVE  Base'
    <3> USE <2>DemotedExitsBase
    <3>0. job' = job
      BY DEF DemotedExits
    <3>1. Reaper \in Jobs /\ Legal(Reaper) /\ Apart(Reaper)
      BY <3>0, StillLegal DEF DemotedExits, disk
    <3>2. TypeOK'
      <4>1. ebb' \in [Id -> 0 .. MaxEbb]
        BY SMTT(30), PoolAssumption DEF Base, TypeOK, DemotedExits, PoolAssumption
      <4>2. QED
        BY <4>1 DEF Base, TypeOK, DemotedExits, disk, pool, sup
    <3>3. QED
      BY <3>0, <3>1, <3>2, <1>QuietBase DEF DemotedExits, pool, sup
  <2> QED
    BY <2>WindowTaskBase, <2>DemoteShutdownBase, <2>DemotedExitsBase DEF WindowStep
<1>PoolStepBase. \A i \in Id :
    /\ Base
    /\ \/ Reap(i) \/ AccountsList(i) \/ EngineExit(i) \/ FinishExpired(i)
       \/ FinishCeilingFails(i) \/ \E n \in Number : EngineLinks(i, n)
    => Base'
  <2>ReapBase.
      ASSUME Base, NEW i \in Id, Reap(i)
      PROVE  Base'
    <3> USE <2>ReapBase
    <3>0. Reaper \in Jobs /\ TypeOK /\ i \in slots /\ idle[i] = AbandonTtl /\ idle[i] # 0
      BY PoolAssumption DEF Jobs, Base, Reap, Abandoned, PoolAssumption
    <3>1. /\ Moves(Reaper) /\ job[Reaper] = NoJob /\ "reap" \in ops
          /\ job'[Reaper].op = "reap" /\ job'[Reaper].id = i /\ job'[Reaper].pc = "discard"
      <4>1. Begin(Reaper, "reap", i, "discard") /\ "reap" \in Op /\ "discard" \in Pc
        BY DEF Reap, Op, Pc
      <4>2. QED
        BY <3>0, <4>1, BeginMoves
    <3>2. Legal(Reaper)
      BY <3>0, <3>1, PoolAssumption DEF Legal, Reap, JobShape, PoolAssumption, TypeOK, disk
    <3>3. Apart(Reaper)
      BY <3>0, <3>1 DEF Apart, Base, Fresh, NewSlot
    <3>4. QED
      BY <3>0, <3>1, <3>2, <3>3, <1>JobOnlyBase DEF Reap, pool, TypeOK
  <2>AccountsListBase.
      ASSUME Base, NEW i \in Id, AccountsList(i)
      PROVE  Base'
    <3> USE <2>AccountsListBase
    <3>0. TypeOK /\ i \in slots /\ i \in minted /\ job' = job /\ reg[i] \in Number /\ reg[i] # None
      BY DEF Base, AccountsList, TypeOK
    <3>1. Reaper \in Jobs /\ Legal(Reaper) /\ Apart(Reaper)
      BY <3>0, StillLegal DEF AccountsList
    <3>2. row' \in [Number -> Id \cup {None}] /\ Committed' \subseteq Committed \cup {i}
      BY <3>0, UpsertCommits DEF AccountsList
    <3>3. TypeOK'
      BY <3>0, <3>2 DEF TypeOK, AccountsList, pool, sup, spawned
    <3>4. \A k \in Id \ {i} : Untouched(k) => Untouched(k)'
      BY <3>0, <3>2 DEF AccountsList, pool, Untouched, TypeOK
    <3>5. ASSUME NEW u \in Jobs, Linking(u) PROVE NewSlot(job[u].id)'
      <4>1. NewSlot(job[u].id) /\ job[u].id # i /\ job[u].id \in Id
        BY <3>0, <3>5 DEF Base, Fresh, NewSlot, Untouched, TypeOK
      <4>2. Untouched(job[u].id)'
        BY <3>0, <3>4, <4>1 DEF NewSlot
      <4>3. QED
        BY <3>0, <4>1, <4>2 DEF NewSlot, AccountsList, pool, sup
    <3>6. \A u \in Jobs : job'[u].pc = "rmdir" => job[u].id \in dir \ slots
      BY <3>0 DEF Base, Removing
    <3>7. \A k \in Id \ minted : Untouched(k)'
      BY <3>0, <3>4 DEF Base
    <3>8. QED
      BY <3>0, <3>1, <3>3, <3>5, <3>6, <3>7, <1>StepBase DEF Base, AccountsList, pool, sup
  <2>EngineExitBase.
      ASSUME Base, NEW i \in Id, EngineExit(i)
      PROVE  Base'
    <3> USE <2>EngineExitBase
    <3>0. job' = job /\ TypeOK
      BY DEF EngineExit, Base
    <3>1. Reaper \in Jobs /\ Legal(Reaper) /\ Apart(Reaper)
      BY <3>0, StillLegal DEF EngineExit, disk
    <3>2. TypeOK'
      BY <3>0 DEF TypeOK, EngineExit, disk, pool, spawned
    <3>3. Committed' = Committed /\ \A k \in Id : Untouched(k)' = Untouched(k)
      BY DEF EngineExit, disk, pool, Committed, Untouched
    <3>4. ASSUME NEW u \in Jobs, Linking(u) PROVE NewSlot(job[u].id)'
      <4>1. NewSlot(job[u].id) /\ job[u].id \in Id
        BY <3>0, <3>4 DEF Base, Fresh, NewSlot, TypeOK
      <4>2. QED
        BY <3>0, <3>3, <4>1 DEF NewSlot, EngineExit, pool
    <3>5. asked' \subseteq slots' /\ \A k \in asked' : reg'[k] = None
      BY DEF Base, EngineExit, disk, pool
    <3>6. \A u \in Jobs : job'[u].pc = "rmdir" => job[u].id \in dir \ slots
      BY <3>0 DEF Base, Removing
    <3>7. QED
      BY <3>0, <3>1, <3>2, <3>3, <3>4, <3>5, <3>6, <1>StepBase DEF Base, EngineExit, disk, pool
  <2>FinishExpiredBase.
      ASSUME Base, NEW i \in Id, FinishExpired(i)
      PROVE  Base'
    <3> USE <2>FinishExpiredBase
    <3>0. TypeOK /\ i \in sessions /\ job' = job
      BY DEF Base, FinishExpired
    <3>1. Reaper \in Jobs /\ Legal(Reaper) /\ Apart(Reaper)
      BY <3>0, StillLegal DEF FinishExpired, disk
    <3>2. TypeOK'
      BY SMTT(30), <3>0, PoolAssumption DEF TypeOK, FinishExpired, disk, pool, spawned, PoolAssumption
    <3>3. Committed' = Committed /\ \A k \in Id : Untouched(k)' = Untouched(k)
      BY DEF FinishExpired, disk, pool, Committed, Untouched
    <3>4. ASSUME NEW u \in Jobs, Linking(u) PROVE NewSlot(job[u].id)'
      BY SMTT(30), <3>0, <3>3, <3>4 DEF Base, Fresh, NewSlot, FinishExpired, Untouched, disk, pool, TypeOK
    <3>5. \A u \in Jobs : job'[u].pc = "rmdir" => job[u].id \in dir \ slots
      BY <3>0 DEF Base, Removing
    <3>6. QED
      BY <3>0, <3>1, <3>2, <3>3, <3>4, <3>5, <1>StepBase DEF Base, FinishExpired, disk, pool
  <2>FinishCeilingFailsBase.
      ASSUME Base, NEW i \in Id, FinishCeilingFails(i)
      PROVE  Base'
    <3> USE <2>FinishCeilingFailsBase
    <3>0. job' = job
      BY DEF FinishCeilingFails
    <3>1. Reaper \in Jobs /\ Legal(Reaper) /\ Apart(Reaper)
      BY <3>0, StillLegal DEF FinishCeilingFails, disk
    <3>2. TypeOK'
      BY SMTT(30) DEF Base, TypeOK, FinishCeilingFails, disk, pool, spawned
    <3>3. QED
      BY <3>0, <3>1, <3>2, <1>QuietBase DEF FinishCeilingFails, pool
  <2>EngineLinksBase.
      ASSUME Base, NEW i \in Id, NEW n \in Number, EngineLinks(i, n)
      PROVE  Base'
    <3> USE <2>EngineLinksBase
    <3>0. TypeOK /\ i \in asked /\ i \in slots /\ i \in minted /\ job' = job
      BY DEF Base, EngineLinks, TypeOK
    <3>1. Reaper \in Jobs /\ Legal(Reaper) /\ Apart(Reaper)
      BY <3>0, StillLegal DEF EngineLinks
    <3>2. TypeOK'
      BY <3>0 DEF TypeOK, EngineLinks, pool, spawned
    <3>3. Committed' = Committed /\ \A k \in Id \ {i} : Untouched(k)' = Untouched(k)
      BY SMTT(30), <3>0 DEF EngineLinks, pool, Committed, Untouched, TypeOK
    <3>4. ASSUME NEW u \in Jobs, Linking(u) PROVE NewSlot(job[u].id)'
      <4>1. NewSlot(job[u].id) /\ job[u].id # i /\ job[u].id \in Id
        BY <3>0, <3>4 DEF Base, Fresh, NewSlot, TypeOK
      <4>2. Untouched(job[u].id)'
        BY <3>0, <3>3, <4>1 DEF NewSlot
      <4>3. QED
        BY <3>0, <4>1, <4>2 DEF NewSlot, EngineLinks, pool
    <3>5. asked' \subseteq slots' /\ \A k \in asked' : reg'[k] = None
      BY <3>0 DEF Base, TypeOK, EngineLinks, pool
    <3>6. \A u \in Jobs : job'[u].pc = "rmdir" => job[u].id \in dir \ slots
      BY <3>0 DEF Base, Removing
    <3>7. QED
      BY <3>0, <3>1, <3>2, <3>3, <3>4, <3>5, <3>6, <1>StepBase DEF Base, EngineLinks, pool
  <2> QED
    BY <2>ReapBase, <2>AccountsListBase, <2>EngineExitBase, <2>FinishExpiredBase,
       <2>FinishCeilingFailsBase, <2>EngineLinksBase
<1>RestartBase.
    ASSUME Base, Restart
    PROVE  Base'
  <2> USE <1>RestartBase
  <2>0. TypeOK /\ UNCHANGED <<ops, disk>> /\ job' = [t \in Jobs |-> NoJob]
    BY DEF Base, Restart
  <2>1. TypeOK'
    <3>1. idle' \in [Id -> 0 .. AbandonTtl]
      BY SMTT(30), PoolAssumption DEF Restart, Discover, PoolAssumption
    <3>2. job' \in [Jobs -> JobType]
      BY <2>0, NoJobType
    <3>3. slots' = dir /\ provisioned' \subseteq Id
      BY <2>0 DEF Restart, Discover, TypeOK
    <3>4. ebb' \in [Id -> 0 .. MaxEbb] /\ link' \in [Id -> -1 .. LinkTtl]
          /\ \A i \in Id : link'[i] = -1
      BY SMTT(30), PoolAssumption DEF Restart, PoolAssumption
    <3>5. QED
      BY <2>0, <3>1, <3>2, <3>3, <3>4 DEF Restart, TypeOK, disk
  <2>2. \A t \in Jobs : job'[t].pc = "none" /\ job'[t].op = "none" /\ job'[t].id = None
                         /\ job'[t] = NoJob
    BY <2>0 DEF NoJob
  <2>3. JobsOK'
    BY SMTT(30), <2>2 DEF JobsOK, JobShape, Jobs, Control
  <2>4. Committed' = Committed
    BY <2>0 DEF disk, Committed
  <2>5. \A i \in Id \ minted : Untouched(i)'
    BY <2>0, <2>4 DEF Base, Untouched, Restart, Discover, disk, TypeOK
  <2>6. QED
    BY <2>0, <2>1, <2>2, <2>3, <2>5 DEF Base, Restart, disk, Linking
<1>TickBase.
    ASSUME Base, Tick
    PROVE  Base'
  <2> USE <1>TickBase
  <2>0. job' = job /\ TypeOK
    BY DEF Tick, Base
  <2>1. Reaper \in Jobs /\ Legal(Reaper) /\ Apart(Reaper)
    BY <2>0, StillLegal DEF Tick, disk
  <2>2. TypeOK'
    <3>1. idle' \in [Id -> 0 .. AbandonTtl]
      BY SMTT(30), <2>0, PoolAssumption DEF Tick, PoolAssumption, TypeOK
    <3>2. link' \in [Id -> -1 .. LinkTtl] /\ \A i \in Id \ slots : link'[i] = -1
      BY SMTT(30), <2>0, PoolAssumption DEF Tick, PoolAssumption, TypeOK
    <3>3. QED
      BY <2>0, <3>1, <3>2 DEF Tick, TypeOK, disk, spawned
  <2>3. Committed' = Committed /\ \A k \in Id : Untouched(k)' = Untouched(k)
    BY DEF Tick, disk, Committed, Untouched
  <2>4. \A u \in Jobs : ~Linking(u)
    BY DEF Tick, Linking, Base, JobsOK, JobShape
  <2>5. \A u \in Jobs : job'[u].pc = "rmdir" => job[u].id \in dir \ slots
    BY <2>0 DEF Base, Removing
  <2>6. QED
    BY <2>0, <2>1, <2>2, <2>3, <2>4, <2>5, <1>StepBase DEF Base, Tick, disk
<1>InitBase. Init => Base
  <2> SUFFICES ASSUME Init PROVE Base
    OBVIOUS
  <2>1. TypeOK
    BY SMTT(30), NoJobType, PoolAssumption DEF Init, TypeOK, PoolAssumption
  <2>2. \A t \in Jobs : job[t].pc = "none" /\ job[t].op = "none" /\ job[t].id = None
                         /\ job[t] = NoJob
    BY DEF Init, NoJob
  <2>3. JobsOK
    BY SMTT(30), <2>2 DEF JobsOK, JobShape, Jobs, Control
  <2>4. \A i \in Id : Untouched(i)
    BY PoolAssumption DEF Init, Untouched, Committed, PoolAssumption
  <2>6. QED
    BY <2>1, <2>2, <2>3, <2>4 DEF Base, Init, Linking
<1>NextBase.
    ASSUME Base, Next
    PROVE  Base'
  BY <1>NextBase, <1>LinkBase, <1>FinishBase, <1>CancelBase, <1>RequestBase, <1>RuntimeBase, <1>RemovalBase,
     <1>WindowBase, <1>PoolStepBase, <1>RestartBase, <1>TickBase DEF Next
<1>StutterBase.
    ASSUME Base, UNCHANGED vars
    PROVE  Base'
  BY <1>StutterBase, StillLegal, <1>QuietBase DEF Base, vars, pool, sup, spawned, disk, TypeOK
<1>1. Base /\ [Next]_vars => Base'
  BY <1>NextBase, <1>StutterBase
<1>2. QED
  BY <1>InitBase, <1>1, PTL DEF Spec

-----------------------------------------------------------------------------
(* Rows: a row keeps its slot.                                              *)

THEOREM PoolKeepsRows == Spec => []RowsInv
<1>RowsStep.
    ASSUME Base, Rows, NEW t \in Jobs, Moves(t), Placed(t)', Committed' \subseteq slots',
           \A i \in Id : link'[i] # -1 =>
             link[i] # -1 /\ (i \in Committed' => i \in Committed) /\ ledger'[i] = ledger[i],
           \A u \in Jobs \ {t} : job[u].pc \in {"discard", "sync"} =>
             (job[u].id \in Committed' => job[u].id \in Committed)
    PROVE  Rows'
  <2> USE <1>RowsStep
  <2>1. \A u \in Jobs : Placed(u)'
    BY SMTT(30) DEF Placed, Rows, Moves
  <2>2. QED
    BY SMTT(30), <2>1 DEF Rows, Placed
<1>EndRows.
    ASSUME Base, Rows, NEW t \in Jobs, End(t), Kept
    PROVE  Rows'
  <2> USE <1>EndRows
  <2>1. Moves(t) /\ job'[t].pc = "none" /\ job'[t].id = None
    BY EndLegal
  <2>2. Placed(t)'
    BY <2>1, PoolAssumption DEF Placed, PoolAssumption
  <2>3. QED
    BY <2>1, <2>2, <1>RowsStep DEF Kept
<1>GotoRows.
    ASSUME Base, Rows, NEW t \in Jobs, NEW pc \in Pc \ {"sync"}, Goto(t, pc), Kept,
           link'[job[t].id] = -1, pc = "discard" => job[t].id \notin Committed'
    PROVE  Rows'
  <2> USE <1>GotoRows
  <2>1. Moves(t) /\ job'[t].pc = pc /\ job'[t].id = job[t].id
    BY GotoMoves DEF Base
  <2>2. Placed(t)'
    BY <2>1 DEF Placed
  <2>3. QED
    BY <2>1, <2>2, <1>RowsStep DEF Kept
<1>BeginRows.
    ASSUME Base, Rows, NEW t \in Jobs, NEW op \in Op, NEW i \in Id, NEW pc \in Pc \ {"sync", "discard"},
           Begin(t, op, i, pc), Kept, link'[i] # -1 => pc = "wait"
    PROVE  Rows'
  <2> USE <1>BeginRows
  <2>1. Moves(t) /\ job'[t].pc = pc /\ job'[t].id = i
    BY BeginMoves DEF Base
  <2>2. Placed(t)'
    BY <2>1 DEF Placed
  <2>3. QED
    BY <2>1, <2>2, <1>RowsStep DEF Kept
<1>StillRows.
    ASSUME Base, Rows, job' = job, Kept
    PROVE  Rows'
  <2> USE <1>StillRows
  <2>1. Reaper \in Jobs /\ Moves(Reaper)
    BY DEF Jobs, Moves, Base, TypeOK
  <2>2. Placed(Reaper)'
    BY <2>1 DEF Placed, Rows, Kept
  <2>3. QED
    BY <2>1, <2>2, <1>RowsStep DEF Kept
(* Steps that leave the rows, the ledger, the table and the links alone.    *)
<1>QuietKept.
    ASSUME Rows, UNCHANGED <<row, ledger, slots, link>>
    PROVE  Kept /\ Committed' = Committed
  BY SMTT(30), <1>QuietKept DEF Kept, Rows, Committed
(* A job beyond the wait has no open link.                                  *)
<1>LinkClosed.
    ASSUME Base, Rows, NEW t \in Jobs, job[t].id \in Id, job[t].pc \notin {"wait", "complete", "stop"}
    PROVE  link[job[t].id] = -1
  BY <1>LinkClosed DEF Rows
<1>LinkRows.
    ASSUME Base, Rows, NEW t \in Task, LinkStep(t)
    PROVE  Rows'
  <2> USE <1>LinkRows
  <2>0. t \in Jobs /\ TypeOK
    BY DEF Jobs, Base
  <2>1. ASSUME NEW i \in Id, ProvisionSlot(t, i) PROVE Rows'
    <3>1. Committed' = Committed /\ link'[i] = -1 /\ Kept
      BY SMTT(30), <2>0, <2>1 DEF ProvisionSlot, Committed, TypeOK, Kept, Rows
    <3>2. QED
      BY <2>0, <2>1, <3>1, <1>BeginRows DEF ProvisionSlot, Op, Pc
  <2>2. ASSUME NEW spawns \in BOOLEAN, LinkStartEngine(t, spawns) \/ LinkMintFails(t) PROVE Rows'
    <3>1. PICK pc \in {"mint", "discard"} : Goto(t, pc)
      BY <2>2 DEF LinkStartEngine, LinkMintFails
    <3>2. link[job[t].id] = -1 /\ job[t].id \notin Committed
      BY <2>0, <2>2 DEF LinkStartEngine, LinkMintFails, At, Base, Linking, Fresh, NewSlot, Untouched
    <3>3. UNCHANGED <<row, ledger, slots, link>>
      BY <2>2 DEF LinkStartEngine, LinkMintFails, disk, pool, sup
    <3>4. QED
      BY <2>0, <3>1, <3>2, <3>3, <1>QuietKept, <1>GotoRows DEF Pc
  <2>3. ASSUME LinkMint(t) PROVE Rows'
    <3> DEFINE i == job[t].id
    <3>1. Fresh(t) /\ i \in Id
      BY <2>0, <2>3 DEF LinkMint, At, Base, Linking, Fresh, NewSlot, TypeOK
    <3>2. Moves(t) /\ job'[t].pc = "none" /\ job'[t].id = None
      BY <2>0, <2>3, EndLegal DEF LinkMint
    <3>3. Committed' = Committed /\ ledger' = ledger /\ slots' = slots
      BY <2>3 DEF LinkMint, disk, Committed
    <3>4. \A k \in Id \ {i} : link'[k] = link[k]
      <4>1. link \in [Id -> -1 .. LinkTtl]
        BY <2>0 DEF TypeOK
      <4>2. link' = [link EXCEPT ![i] = LinkTtl]
        BY <2>3 DEF LinkMint
      <4>3. QED
        BY <4>1, <4>2
    <3>5. i \notin Committed /\ ledger[i] = "none" /\ \A u \in Jobs : job'[u].id # i
      BY SMTT(30), <3>1, <3>2, PoolAssumption DEF Fresh, NewSlot, Untouched, Moves, PoolAssumption
    <3>6. QED
      <4>1. \A k \in Id : link'[k] # -1 =>
              /\ k \notin Committed' /\ ledger'[k] = "none"
              /\ \A u \in Jobs : job'[u].id = k => job'[u].pc \in {"wait", "complete", "stop"}
        <5> SUFFICES ASSUME NEW k \in Id, link'[k] # -1
                     PROVE  /\ k \notin Committed' /\ ledger'[k] = "none"
                            /\ \A u \in Jobs : job'[u].id = k => job'[u].pc \in {"wait", "complete", "stop"}
          OBVIOUS
        <5>1. CASE k = i
          BY <3>3, <3>5, <5>1
        <5>2. CASE k # i
          <6>1. /\ k \notin Committed' /\ ledger'[k] = "none"
                /\ \A u \in Jobs : job[u].id = k => job[u].pc \in {"wait", "complete", "stop"}
            BY <3>3, <3>4, <5>2 DEF Rows
          <6>2. \A u \in Jobs : job'[u].id = k => job'[u] = job[u]
            BY <3>2, PoolAssumption DEF Moves, PoolAssumption
          <6>3. QED
            BY <6>1, <6>2
        <5>3. QED
          BY <5>1, <5>2
      <4>2. \A u \in Jobs :
              job'[u].pc = "discard" \/ (job'[u].pc = "sync" /\ job'[u].found # job'[u].id)
                => job'[u].id \notin Committed'
        BY SMTT(30), <3>2, <3>3 DEF Rows, Moves
      <4>3. QED
        BY <3>3, <4>1, <4>2 DEF Rows
  <2>4. QED
    BY <2>1, <2>2, <2>3 DEF LinkStep
<1>FinishRows.
    ASSUME Base, Rows, NEW t \in Task, FinishStep(t)
    PROVE  Rows'
  <2> USE <1>FinishRows
  <2> DEFINE i == job[t].id
  <2>0. t \in Jobs /\ TypeOK
    BY DEF Jobs, Base
  <2>1. ASSUME NEW k \in Id, FinishLink(t, k) PROVE Rows'
    <3>1. UNCHANGED <<row, ledger, slots, link>> /\ Begin(t, "finish", k, "wait")
      BY <2>1 DEF FinishLink, disk, pool
    <3>2. QED
      BY <2>0, <3>1, <1>QuietKept, <1>BeginRows DEF Op, Pc
  <2>2. CASE (FinishAnswered(t) \/ FinishGivesUp(t) \/ FinishReadFails(t)) /\ End(t)
    BY <2>0, <2>2, <1>QuietKept, <1>EndRows DEF FinishAnswered, FinishGivesUp, FinishReadFails, disk, pool, sup
  <2>3. CASE FinishAnswered(t) /\ ~End(t)
    <3> DEFINE r == [job[t] EXCEPT !.pc = "complete", !.number = reg[i]]
    <3>1. job' = [job EXCEPT ![t] = r] /\ UNCHANGED <<row, ledger, slots, link>>
      BY <2>3 DEF FinishAnswered, disk, pool
    <3>2. job[t] \in JobType /\ i \in Id
      BY <2>0, <2>3, JobId DEF TypeOK, FinishAnswered, At, Base, JobsOK, JobShape
    <3>3. reg[i] \in Number
      BY <2>0, <2>3, <3>2 DEF TypeOK, FinishAnswered
    <3>4. r \in JobType /\ r.pc = "complete" /\ r.id = i
      BY <3>2, <3>3 DEF JobType
    <3> HIDE DEF r
    <3>5. Moves(t) /\ job'[t] = r
      BY <2>0, <3>1, <3>4, UpdateMoves
    <3>6. Placed(t)'
      BY <3>4, <3>5 DEF Placed
    <3>7. QED
      BY <2>0, <3>1, <3>5, <3>6, <1>QuietKept, <1>RowsStep DEF Kept
  <2>4. CASE FinishCommit(t)
    <3>0. job[t].op = "finish" /\ job[t].pc = "complete" /\ i \in Id /\ job[t] \in JobType
          /\ job[t].number \in Number
      <4>1. job[t].op = "finish" /\ job[t].pc = "complete" /\ job[t].number # None
        BY <2>0, <2>4 DEF FinishCommit, At, Base, JobsOK, JobShape
      <4>2. QED
        BY <2>0, <4>1, JobId DEF TypeOK, JobType
    <3>a. /\ slots' = slots /\ ledger' = ledger /\ link'[i] = -1
          /\ \A k \in Id \ {i} : link'[k] = link[k]
      BY <2>0, <2>4, <3>0 DEF FinishCommit, pool, TypeOK
    <3>1. CASE row' = row /\ End(t)
      <4>1. Kept
        BY SMTT(30), <3>1, <3>a DEF Kept, Rows, Committed
      <4>2. QED
        BY <2>0, <3>1, <4>1, <1>EndRows
    <3>2. CASE link[i] > 0 /\ ~UnfinishedDelete(job[t].number)
      <4> DEFINE r == [job[t] EXCEPT !.pc = "sync", !.found = row'[job[t].number]]
      <4>1. job' = [job EXCEPT ![t] = r] /\ Upsert(job[t].number, i)
        BY <2>4, <3>2 DEF FinishCommit
      <4>2. /\ Committed' \subseteq Committed \cup {i} /\ row'[job[t].number] \in Id
            /\ i \in Committed' \ Committed => row'[job[t].number] = i
        BY SMTT(30), <2>0, <3>0, <4>1, UpsertCommits
      <4>3. r \in JobType /\ r.pc = "sync" /\ r.id = i /\ r.found = row'[job[t].number]
        BY <3>0, <4>2 DEF JobType
      <4> HIDE DEF r
      <4>4. Moves(t) /\ job'[t] = r
        BY <2>0, <4>1, <4>3, UpdateMoves
      <4>5. link[i] # -1
        BY SMTT(30), <3>2
      <4>6. /\ i \in slots /\ i \notin Committed
            /\ \A u \in Jobs : job[u].id = i => job[u].pc \in {"wait", "complete", "stop"}
        BY <2>0, <3>0, <4>5 DEF Rows, TypeOK
      <4>7. Placed(t)'
        BY <3>a, <4>2, <4>3, <4>4, <4>6 DEF Placed
      <4>8. Committed' \subseteq slots'
        BY <3>a, <4>2, <4>6 DEF Rows
      <4>9. QED
        BY <2>0, <3>a, <4>2, <4>4, <4>6, <4>7, <4>8, <1>RowsStep
    <3>3. QED
      BY <2>4, <3>1, <3>2 DEF FinishCommit
  <2>5. CASE FinishMark(t)
    <3>0. job[t].pc = "sync" /\ i \in Id
      BY <2>0, <2>5, JobId DEF FinishMark, At, Base, JobsOK, JobShape
    <3>1. UNCHANGED <<row, ledger, slots, link>>
      BY <2>5 DEF FinishMark, sup
    <3>2. CASE End(t)
      BY <2>0, <3>1, <3>2, <1>QuietKept, <1>EndRows
    <3>3. CASE Goto(t, "discard") /\ job[t].found # i
      <4>1. link'[i] = -1 /\ i \notin Committed
        BY <2>0, <3>0, <3>1, <3>3, <1>LinkClosed DEF Rows
      <4>2. QED
        BY <2>0, <3>1, <3>3, <4>1, <1>QuietKept, <1>GotoRows DEF Pc
    <3>4. QED
      BY <2>5, <3>2, <3>3 DEF FinishMark
  <2>6. QED
    BY <2>1, <2>2, <2>3, <2>4, <2>5 DEF FinishStep, FinishGivesUp, FinishReadFails
<1>DiscardRows.
    ASSUME Base, Rows, NEW t \in Jobs, DiscardStep(t)
    PROVE  Rows'
  <2> USE <1>DiscardRows
  <2> DEFINE i == job[t].id
  <2>0. TypeOK
    BY DEF Base
  <2>1. CASE RemoveDirectory(t)
    <3>1. UNCHANGED <<row, ledger, slots, link>> /\ End(t)
      BY <2>1 DEF RemoveDirectory, pool, sup
    <3>2. QED
      BY <3>1, <1>QuietKept, <1>EndRows
  <2>2. CASE Discard(t) /\ i \notin slots
    <3>1. UNCHANGED <<row, ledger, slots, link>> /\ End(t)
      BY <2>2 DEF Discard, disk, sup
    <3>2. QED
      BY <3>1, <1>QuietKept, <1>EndRows
  <2>3. CASE Discard(t) /\ i \in slots
    <3> DEFINE r == [job[t] EXCEPT !.pc = "rmdir", !.child = engine[i] = "run"]
    <3>1. /\ job' = [job EXCEPT ![t] = r] /\ slots' = slots \ {i}
          /\ row' = row /\ ledger' = ledger /\ link' = [link EXCEPT ![i] = -1]
      BY <2>3 DEF Discard, TakeEngine, disk
    <3>2. job[t] \in JobType /\ i \in Id /\ job[t].pc = "discard" /\ i \notin Committed
      BY <2>0, <2>3 DEF TypeOK, Discard, At, Rows
    <3>3. r \in JobType /\ r.pc = "rmdir" /\ r.id = i
      BY <3>2 DEF JobType
    <3> HIDE DEF r
    <3>4. Moves(t) /\ job'[t] = r
      BY <2>0, <3>1, <3>3, UpdateMoves
    <3>5. Kept
      BY SMTT(30), <2>0, <3>1, <3>2 DEF Kept, Committed, Rows, TypeOK
    <3>6. Placed(t)'
      BY <2>0, <3>1, <3>2, <3>3, <3>4 DEF Placed, TypeOK
    <3>7. QED
      BY <3>4, <3>5, <3>6, <1>RowsStep DEF Kept
  <2>4. QED
    BY <2>1, <2>2, <2>3 DEF DiscardStep
<1>RequestRows.
    ASSUME Base, Rows, NEW t \in Task, RequestStep(t)
    PROVE  Rows'
  <2> USE <1>RequestRows
  <2> DEFINE i == job[t].id
  <2>0. t \in Jobs /\ TypeOK
    BY DEF Jobs, Base
  <2>1. ASSUME NEW k \in Id, Request(t, k) \/ DeleteAccount(t, k) PROVE Rows'
    <3>1. UNCHANGED <<row, ledger, slots, link>>
      BY <2>1 DEF Request, DeleteAccount, disk, pool, sup
    <3>2. link'[k] = -1
      BY <2>1, <3>1 DEF Request, DeleteAccount, Rows
    <3>3. PICK op \in {"request", "delete"}, pc \in {"wake", "prepare"} : Begin(t, op, k, pc)
      BY <2>1 DEF Request, DeleteAccount
    <3>4. op \in Op /\ pc \in Pc \ {"sync", "discard"}
      BY DEF Op, Pc
    <3>5. QED
      BY <2>0, <3>1, <3>2, <3>3, <3>4, <1>QuietKept, <1>BeginRows
  <2>2. ASSUME NEW spawns \in BOOLEAN, Wake(t) \/ Launch(t, spawns) PROVE Rows'
    <3>1. UNCHANGED <<row, ledger, slots, link>> /\ job[t].pc \in {"wake", "launch"}
      BY <2>2 DEF Wake, Launch, disk, sup, At
    <3>2. i \in Id
      BY <2>0, <3>1, JobId DEF Base, JobsOK, JobShape
    <3>3. link'[i] = -1
      BY <2>0, <3>1, <3>2, <1>LinkClosed
    <3>4. End(t) \/ \E pc \in {"launch", "prepare"} : Goto(t, pc)
      BY <2>2 DEF Wake, Launch, Woken
    <3>5. QED
      BY <2>0, <3>1, <3>3, <3>4, <1>QuietKept, <1>EndRows, <1>GotoRows DEF Pc
  <2>3. CASE PrepareDelete(t)
    <3>0. job[t].pc = "prepare" /\ i \in Id
      BY <2>0, <2>3, JobId DEF PrepareDelete, At, Base, JobsOK, JobShape
    <3>1. row' = row /\ slots' = slots /\ link' = link /\ link[i] = -1
          /\ \A k \in Id \ {i} : ledger'[k] = ledger[k]
      BY <2>0, <2>3, <3>0, <1>LinkClosed DEF PrepareDelete, pool, sup, TypeOK
    <3>2. Kept /\ Committed' = Committed
      BY SMTT(30), <3>1 DEF Kept, Committed, Rows
    <3>3. Goto(t, "erase") \/ (Goto(t, "discard") /\ i \notin Committed)
      BY <2>3 DEF PrepareDelete
    <3>4. QED
      BY <2>0, <3>1, <3>2, <3>3, <1>GotoRows DEF Pc
  <2>4. ASSUME NEW answered \in BOOLEAN, Erase(t, answered) PROVE Rows'
    <3>0. job[t].pc = "erase" /\ i \in Id
      BY <2>0, <2>4, JobId DEF Erase, At, Base, JobsOK, JobShape
    <3>1. UNCHANGED <<row, ledger, slots, link>>
      BY <2>4 DEF Erase, pool, sup
    <3>2. link'[i] = -1
      BY <2>0, <3>0, <3>1, <1>LinkClosed
    <3>3. End(t) \/ Goto(t, "forget")
      BY <2>4 DEF Erase
    <3>4. QED
      BY <2>0, <3>1, <3>2, <3>3, <1>QuietKept, <1>EndRows, <1>GotoRows DEF Pc
  <2>5. CASE Forget(t)
    <3>0. job[t].pc = "forget" /\ i \in Id
      BY <2>0, <2>5, JobId DEF Forget, At, Base, JobsOK, JobShape
    <3>1. slots' = slots /\ link' = link /\ link[i] = -1
          /\ \A k \in Id \ {i} : ledger'[k] = ledger[k]
      BY <2>0, <2>5, <3>0, <1>LinkClosed DEF Forget, pool, sup, TypeOK
    <3>2. Committed' \subseteq Committed \ {i}
      BY <2>0, <2>5, <3>0, PoolAssumption DEF Forget, Committed, PoolAssumption
    <3>3. Kept
      BY <3>1, <3>2 DEF Kept, Rows
    <3>4. QED
      BY <2>0, <2>5, <3>1, <3>2, <3>3, <1>GotoRows DEF Pc, Forget
  <2>6. QED
    BY <2>1, <2>2, <2>3, <2>4, <2>5 DEF RequestStep
<1>RuntimeRows.
    ASSUME Base, Rows, NEW t \in Task, RuntimeStep(t)
    PROVE  Rows'
  <2> USE <1>RuntimeRows
  <2>0. t \in Jobs /\ TypeOK /\ job[t] \in JobType
    BY DEF Jobs, Base, TypeOK
  <2>1. CASE (StopWaited(t) /\ End(t)) \/ StartDone(t)
    <3>1. UNCHANGED <<row, ledger, slots, link>> /\ End(t)
      BY <2>1 DEF StopWaited, StartDone, disk, pool, sup
    <3>2. QED
      BY <2>0, <3>1, <1>QuietKept, <1>EndRows
  <2>2. ASSUME NEW r \in JobType, job' = [job EXCEPT ![t] = r], Kept,
               \/ r.pc = "stop"
               \/ r.pc = "window" /\ r.id = None
               \/ r.pc = "window" /\ job[t].pc = "window" /\ r.id = job[t].id
        PROVE  Rows'
    <3>1. Moves(t) /\ job'[t] = r
      BY <2>0, <2>2, UpdateMoves
    <3>2. Placed(t)'
      BY SMTT(30), <2>0, <2>2, <3>1, PoolAssumption DEF Placed, Kept, Rows, PoolAssumption
    <3>3. QED
      BY <2>0, <2>2, <3>1, <3>2, <1>RowsStep DEF Kept
  <2>3. CASE StopRuntime(t)
    <3> DEFINE r == [NoJob EXCEPT !.op = "stop", !.pc = "stop", !.todo = slots]
    <3>1. job' = [job EXCEPT ![t] = r] /\ UNCHANGED <<row, ledger, slots, link>>
      BY <2>3 DEF StopRuntime, sup, disk
    <3>2. r \in JobType /\ r.pc = "stop"
      BY <2>0 DEF JobType, NoJob, TypeOK
    <3> HIDE DEF r
    <3>3. QED
      BY <2>2, <3>1, <3>2, <1>QuietKept
  <2>4. CASE StartRuntime(t)
    <3>1. PICK T \in Recent(MaxResident) :
            job' = [job EXCEPT ![t] = [NoJob EXCEPT !.op = "start", !.pc = "window", !.todo = T]]
      BY <2>4 DEF StartRuntime
    <3> DEFINE r == [NoJob EXCEPT !.op = "start", !.pc = "window", !.todo = T]
    <3>2. T \subseteq Id
      BY <2>0, RecentSlots, EnginesNat DEF TypeOK
    <3>3. r \in JobType /\ r.pc = "window" /\ r.id = None
      BY <3>2 DEF JobType, NoJob
    <3>4. job' = [job EXCEPT ![t] = r] /\ UNCHANGED <<row, ledger, slots, link>>
      BY <2>4, <3>1 DEF StartRuntime, sup, disk
    <3> HIDE DEF r
    <3>5. QED
      BY <2>2, <3>3, <3>4, <1>QuietKept
  <2>5. CASE StopWaited(t) /\ job[t].child
    <3> DEFINE r == [job[t] EXCEPT !.child = FALSE]
    <3>1. job' = [job EXCEPT ![t] = r] /\ UNCHANGED <<row, ledger, slots, link>> /\ job[t].pc = "stop"
      BY <2>5 DEF StopWaited, sup, pool, disk, At
    <3>2. r \in JobType /\ r.pc = job[t].pc
      BY <2>0 DEF JobType
    <3> HIDE DEF r
    <3>3. QED
      BY <2>2, <3>1, <3>2, <1>QuietKept
  <2>6. ASSUME NEW i \in Id, StopSlot(t, i) PROVE Rows'
    <3> DEFINE r == [job[t] EXCEPT !.id = i, !.todo = job[t].todo \ {i}, !.child = (engine[i] = "run")]
    <3>1. job' = [job EXCEPT ![t] = r] /\ job[t].pc = "stop"
      BY <2>6 DEF StopSlot, At
    <3>2. r \in JobType /\ r.pc = job[t].pc
      BY <2>0 DEF JobType
    <3> HIDE DEF r
    <3>3. row' = row /\ ledger' = ledger /\ slots' = slots /\ \A k \in Id : link'[k] \in {link[k], -1}
      BY <2>0, <2>6 DEF StopSlot, TakeEngine, sup, disk, TypeOK
    <3>4. Kept
      BY SMTT(30), <3>3 DEF Kept, Committed, Rows
    <3>5. QED
      BY <2>2, <3>1, <3>2, <3>4
  <2>7. ASSUME NEW i \in Id, NEW spawns \in BOOLEAN, StartSlot(t, i, spawns) PROVE Rows'
    <3> DEFINE r == [job[t] EXCEPT !.todo = @ \ {i}]
    <3>1. job' = [job EXCEPT ![t] = r] /\ UNCHANGED <<row, ledger, slots, link>> /\ job[t].pc = "window"
      BY <2>7 DEF StartSlot, disk, At
    <3>2. r \in JobType /\ r.pc = job[t].pc /\ r.id = job[t].id
      BY <2>0 DEF JobType
    <3> HIDE DEF r
    <3>3. QED
      BY <2>2, <3>1, <3>2, <1>QuietKept
  <2>8. QED
    BY <2>1, <2>3, <2>4, <2>5, <2>6, <2>7 DEF RuntimeStep, StopWaited
<1>PoolRows.
    ASSUME Base, Rows, NEW i \in Id,
           \/ WindowStep(i) \/ EngineExit(i) \/ FinishExpired(i) \/ FinishCeilingFails(i)
           \/ \E n \in Number : EngineLinks(i, n)
    PROVE  Rows'
  <2> USE <1>PoolRows
  <2>0. TypeOK
    BY DEF Base
  <2>1. CASE WindowTask(i) \/ DemotedExits(i) \/ EngineExit(i) \/ FinishCeilingFails(i)
             \/ \E n \in Number : EngineLinks(i, n)
    <3>1. UNCHANGED <<row, ledger, slots, link>> /\ job' = job
      BY <2>1 DEF WindowTask, DemotedExits, EngineExit, FinishCeilingFails, EngineLinks, disk, pool, sup
    <3>2. QED
      BY <3>1, <1>QuietKept, <1>StillRows
  <2>2. CASE DemoteShutdown(i) \/ FinishExpired(i)
    <3>1. row' = row /\ ledger' = ledger /\ slots' = slots /\ job' = job
          /\ \A k \in Id : link'[k] # -1 => link[k] # -1
      <4>0. link \in [Id -> -1 .. LinkTtl]
        BY <2>0 DEF TypeOK
      <4>1. CASE DemoteShutdown(i)
        BY <4>0, <4>1 DEF DemoteShutdown, TakeEngine, disk, pool
      <4>2. CASE FinishExpired(i)
        BY <4>0, <4>2 DEF FinishExpired, disk, pool
      <4>3. QED
        BY <2>2, <4>1, <4>2
    <3>2. Kept
      BY SMTT(30), <3>1 DEF Kept, Committed, Rows
    <3>3. QED
      BY <3>1, <3>2, <1>StillRows
  <2>3. QED
    BY <2>1, <2>2 DEF WindowStep
<1>RestartRows.
    ASSUME Base, Rows, Restart
    PROVE  Rows'
  <2> USE <1>RestartRows
  <2>1. \A t \in Jobs : job'[t].pc = "none"
    BY DEF Restart, NoJob
  <2>2. Committed' \subseteq slots'
    BY SMTT(30) DEF Restart, Discover, disk, Committed, Rows, Base, TypeOK
  <2>3. QED
    BY <2>1, <2>2 DEF Restart, Rows
<1>NextRows.
    ASSUME Base, Rows, Next, ops \cap {"cancel", "reap", "list"} = {}
    PROVE  Rows'
  <2> USE <1>NextRows
  <2>1. ASSUME NEW t \in Task, CancelStep(t) PROVE FALSE
    BY <2>1 DEF CancelStep, CancelWait, CancelSession, Begin, At, Base, JobsOK, JobShape, Jobs
  <2>2. ASSUME NEW i \in Id, Reap(i) \/ AccountsList(i) PROVE FALSE
    BY <2>2 DEF Reap, AccountsList, Begin
  <2>3. ASSUME NEW t \in Task, LinkStep(t) \/ FinishStep(t) \/ RequestStep(t) \/ RuntimeStep(t) PROVE Rows'
    BY <2>3, <1>LinkRows, <1>FinishRows, <1>RequestRows, <1>RuntimeRows
  <2>4. ASSUME NEW i \in Id, \/ WindowStep(i) \/ EngineExit(i) \/ FinishExpired(i) \/ FinishCeilingFails(i)
                             \/ \E n \in Number : EngineLinks(i, n)
        PROVE Rows'
    BY <2>4, <1>PoolRows
  <2>5. CASE Tick
    <3>1. row' = row /\ ledger' = ledger /\ slots' = slots /\ job' = job
          /\ \A k \in Id : link'[k] # -1 => link[k] # -1
      <4>1. \A k \in Id : link[k] \in -1 .. LinkTtl
        BY DEF Base, TypeOK
      <4>2. row' = row /\ ledger' = ledger /\ slots' = slots /\ job' = job
        BY <2>5 DEF Tick, disk
      <4>3. \A k \in Id : link'[k] = IF link[k] > 0 THEN link[k] - 1 ELSE link[k]
        BY <2>5 DEF Tick
      <4>4. QED
        BY SMTT(30), <4>1, <4>2, <4>3, PoolAssumption DEF PoolAssumption
    <3>2. Kept
      BY SMTT(30), <3>1 DEF Kept, Committed, Rows
    <3>3. QED
      BY <3>1, <3>2, <1>StillRows
  <2>6. QED
    BY <2>1, <2>2, <2>3, <2>4, <2>5, <1>DiscardRows, <1>RestartRows DEF Next
<1>InitRows. Init => Rows
  <2> SUFFICES ASSUME Init PROVE Rows
    OBVIOUS
  <2>1. \A t \in Jobs : job[t].pc = "none"
    BY DEF Init, NoJob
  <2>2. QED
    BY <2>1, PoolAssumption DEF Init, Rows, Committed, PoolAssumption
<1>1. Init => RowsInv
  BY <1>InitRows DEF RowsInv
<1>2. Base /\ RowsInv /\ [Next]_vars => RowsInv'
  <2> SUFFICES ASSUME Base, RowsInv, [Next]_vars, ops \cap {"cancel", "reap", "list"} = {} PROVE Rows'
    BY OpsStay DEF RowsInv
  <2>1. CASE UNCHANGED vars
    BY <2>1, <1>QuietKept, <1>StillRows DEF vars, disk, pool, sup, RowsInv
  <2>2. QED
    BY <2>1, <1>NextRows DEF RowsInv
<1>3. QED
  BY <1>1, <1>2, PoolBase, PTL DEF Spec

(* RowHasSlot (slot_for_account): without a cancel, a reap or an adoption,  *)
(* a committed row has its slot whatever else interleaves: duplicate links, *)
(* deletions, runtime stops, engine exits, demotions, crashes.              *)
THEOREM RowKeepsSlot == Spec => []RowHasSlot
<1>1. RowsInv => RowHasSlot
  BY DEF RowsInv, Rows, RowHasSlot
<1>2. QED
  BY <1>1, PoolKeepsRows, PTL

-----------------------------------------------------------------------------
(* Numbers: no number in two committed slots.                               *)

(* What the pool keeps of the numbers: a committed directory whose engine   *)
(* has a number holds that number's row.                                    *)
THEOREM PoolKeepsNumbers == Spec => []NumbersInv
<1>OneFinishes.
    ASSUME Base, NEW t \in Jobs, NEW u \in Jobs, job[t].op = "finish", job[u].op = "finish"
    PROVE  t = u /\ t \in Task
  BY <1>OneFinishes DEF Base, JobsOK, Jobs
<1>FinishingOp.
    ASSUME Base, NEW t \in Jobs, Finishing(t)
    PROVE  job[t].op = "finish" /\ job[t].id \in Id /\ job[t].number \in Number
  <2> USE <1>FinishingOp
  <2>1. job[t].op = "finish" /\ job[t].number # None
    BY DEF Finishing, Base, JobsOK, JobShape
  <2>2. QED
    BY <2>1, JobId DEF Base, TypeOK, JobType
(* The three parts of the invariant, each with what a step owes it.         *)
<1>NumbersStep.
    ASSUME Base, Numbers, NEW t \in Jobs, Moves(t), Told(t)',
           \A i \in dir' : Claimed(i)' /\ reg'[i] # None => row'[reg'[i]] = i,
           \A u \in Jobs \ {t} : Finishing(u) =>
             /\ reg'[job[u].id] \in {reg[job[u].id], None}
             /\ reg'[job[u].id] # None /\ row[job[u].number] = job[u].id
                  => row'[job[u].number] = job[u].id
    PROVE  Numbers'
  <2> USE <1>NumbersStep
  <2>1. ASSUME NEW u \in Jobs \ {t} PROVE Told(u)'
    BY SMTT(30) DEF Told, Finishing, Moves, Numbers
  <2>2. QED
    BY <2>1 DEF Numbers
<1>NoListStep.
    ASSUME Base, NumbersNoList, NEW t \in Jobs, Moves(t),
           \A i \in Id : Opening(i)' =>
             Opening(i) /\ (Claimed(i)' => Claimed(i)) /\ ledger'[i] = ledger[i],
           job'[t].op \in {"request", "delete"} \/ job'[t].pc = "sync" => ~Opening(job[t].id)',
           asked' \subseteq asked \/ \A u \in Jobs : ~Finishing(u)',
           Finishing(t)' => job'[t].id \notin asked',
           \A u \in Jobs : job'[u].pc = "forget" => reg'[job'[u].id] = None
    PROVE  NumbersNoList'
  <2> USE <1>NoListStep
  <2>1. ASSUME NEW i \in Id, Opening(i)'
        PROVE  /\ ~Claimed(i)' /\ ledger'[i] = "none"
               /\ \A u \in Jobs : job'[u].id = i => job'[u].op \notin {"request", "delete"}
               /\ \A u \in Jobs : job'[u].id = i => job'[u].pc # "sync"
    <3>1. Opening(i) /\ ~Claimed(i)' /\ ledger'[i] = "none"
      BY <2>1 DEF NumbersNoList
    <3>2. ASSUME NEW u \in Jobs, job'[u].id = i, job'[u].op \in {"request", "delete"} \/ job'[u].pc = "sync"
          PROVE  FALSE
      <4>1. CASE u = t
        BY <2>1, <3>2, <4>1 DEF Opening
      <4>2. CASE u # t
        <5>1. job'[u] = job[u]
          BY <4>2 DEF Moves
        <5>2. QED
          BY <3>1, <3>2, <5>1 DEF NumbersNoList
      <4>3. QED
        BY <4>1, <4>2
    <3>3. QED
      BY <3>1, <3>2
  <2>2. ASSUME NEW i \in asked', NEW u \in Jobs, Finishing(u)' PROVE job'[u].id # i
    BY SMTT(30), <2>2 DEF NumbersNoList, Moves, Finishing
  <2>3. QED
    BY <2>1, <2>2 DEF NumbersNoList
<1>NoDeleteStep.
    ASSUME Base, NumbersNoDelete, NEW t \in Jobs, Moves(t),
           \A i \in dir' : Claimed(i)' => (i \in dir /\ Claimed(i)) \/ reg'[i] # None,
           \A i \in dir' \cap dir : reg[i] # None => reg'[i] # None,
           \A u \in Jobs : Finishing(u) /\ job[u].id \in dir' => job[u].id \in dir,
           Finishing(t)' /\ job'[t].id \in dir' => reg'[job'[t].id] # None
    PROVE  NumbersNoDelete'
  <2> USE <1>NoDeleteStep
  <2>1. ASSUME NEW u \in Jobs, Finishing(u)', job'[u].id \in dir' PROVE reg'[job'[u].id] # None
    BY <2>1 DEF NumbersNoDelete, Moves, Finishing
  <2>2. QED
    BY <2>1 DEF NumbersNoDelete
(* A step that leaves the directories, their numbers and the rows alone.    *)
<1>QuietNumbers.
    ASSUME Base, NumbersInv, NEW t \in Jobs, Moves(t), UNCHANGED <<ops, reg, row, dir>>,
           asked' \subseteq asked,
           \A i \in Id : Claimed(i)' => Claimed(i),
           \A i \in Id : Opening(i)' => Opening(i) /\ ledger'[i] = ledger[i],
           ~Finishing(t)' /\ job'[t].pc # "forget",
           "list" \notin ops /\ job'[t].op \in {"request", "delete"} => ~Opening(job[t].id)'
    PROVE  NumbersInv'
  <2> USE <1>QuietNumbers
  <2>0. ~Finishing(t)' /\ job'[t].pc # "sync" /\ Told(t)' /\ dir \subseteq Id
    BY DEF Finishing, Told, Base, TypeOK
  <2>1. Numbers => Numbers'
    BY <2>0, <1>NumbersStep DEF Numbers
  <2>2. ASSUME "list" \notin ops, NumbersNoList PROVE NumbersNoList'
    <3>1. \A u \in Jobs : job'[u].pc = "forget" => reg'[job'[u].id] = None
      BY <2>2 DEF Moves, NumbersNoList
    <3>2. QED
      BY <2>0, <2>2, <3>1, <1>NoListStep
  <2>3. NumbersNoDelete => NumbersNoDelete'
    BY <2>0, <1>NoDeleteStep
  <2>4. QED
    BY <2>1, <2>2, <2>3 DEF NumbersInv
<1>SettledClaims. Settled => \A i \in Id : Claimed(i)' => Claimed(i)
  BY DEF Settled, Claimed, Committed
<1>EndNumbers.
    ASSUME Base, NumbersInv, NEW t \in Jobs, End(t), Settled
    PROVE  NumbersInv'
  <2> USE <1>EndNumbers
  <2>1. Moves(t) /\ job'[t].pc = "none" /\ job'[t].op = "none"
    BY EndLegal
  <2>2. ~Finishing(t)'
    BY <2>1 DEF Finishing
  <2>3. QED
    BY <2>1, <2>2, <1>SettledClaims, <1>QuietNumbers DEF Settled
<1>GotoNumbers.
    ASSUME Base, NumbersInv, NEW t \in Jobs, NEW pc \in Pc \ {"complete", "sync", "forget"}, Goto(t, pc), Settled
    PROVE  NumbersInv'
  <2> USE <1>GotoNumbers
  <2>1. Moves(t) /\ job'[t].pc = pc /\ job'[t].op = job[t].op /\ job'[t].id = job[t].id
    BY GotoMoves DEF Base
  <2>2. ~Finishing(t)'
    BY <2>1 DEF Finishing
  <2>3. ASSUME "list" \notin ops, job'[t].op \in {"request", "delete"} PROVE ~Opening(job[t].id)'
    <3>1. job[t].id \in Id
      BY <2>1, <2>3, JobId
    <3>2. ~Opening(job[t].id)
      BY <2>1, <2>3, <3>1 DEF NumbersInv, NumbersNoList
    <3>3. QED
      BY <2>1, <3>1, <3>2 DEF Settled, Opening
  <2>4. QED
    BY <2>1, <2>2, <2>3, <1>SettledClaims, <1>QuietNumbers DEF Settled
<1>BeginNumbers.
    ASSUME Base, NumbersInv, NEW t \in Jobs, NEW op \in Op, NEW i \in Id,
           NEW pc \in Pc \ {"complete", "sync", "forget"}, Begin(t, op, i, pc), Settled,
           "list" \notin ops /\ op \in {"request", "delete"} => ~Opening(i)'
    PROVE  NumbersInv'
  <2> USE <1>BeginNumbers
  <2>1. Moves(t) /\ job'[t].pc = pc /\ job'[t].op = op /\ job'[t].id = i
    BY BeginMoves DEF Base
  <2>2. ~Finishing(t)'
    BY <2>1 DEF Finishing
  <2>3. "list" \notin ops /\ job'[t].op \in {"request", "delete"} => ~Opening(job[t].id)'
    BY <2>1 DEF Opening
  <2>4. QED
    BY <2>1, <2>2, <2>3, <1>SettledClaims, <1>QuietNumbers DEF Settled
(* The jobs of runtime.stop and runtime.start.                              *)
<1>RuntimeJobNumbers.
    ASSUME Base, NumbersInv, NEW t \in Jobs, NEW r \in JobType, job' = [job EXCEPT ![t] = r], Settled,
           r.pc \in {"stop", "window"}, r.op \in {"stop", "start"}
    PROVE  NumbersInv'
  <2> USE <1>RuntimeJobNumbers
  <2>1. Moves(t) /\ job'[t] = r
    BY UpdateMoves DEF Base
  <2>2. ~Finishing(t)' /\ job'[t].pc # "forget" /\ job'[t].op \notin {"request", "delete"}
    BY <2>1 DEF Finishing
  <2>3. QED
    BY <2>1, <2>2, <1>SettledClaims, <1>QuietNumbers DEF Settled
<1>StillNumbers.
    ASSUME Base, NumbersInv, job' = job, Settled
    PROVE  NumbersInv'
  <2> USE <1>StillNumbers
  <2>1. Reaper \in Jobs /\ Moves(Reaper)
    BY DEF Jobs, Moves, Base, TypeOK
  <2>2. job'[Reaper].op \in {"none", "reap"}
    BY DEF Base, JobsOK
  <2>3. ~Finishing(Reaper)' /\ job'[Reaper].pc # "forget" /\ job'[Reaper].op \notin {"request", "delete"}
    BY <2>1, <2>2 DEF Finishing, Base, JobsOK, JobShape
  <2>4. QED
    BY <2>1, <2>3, <1>SettledClaims, <1>QuietNumbers DEF Settled
(* Steps that leave the disk and the commitments alone.                     *)
<1>SettledStep.
    ASSUME UNCHANGED <<ops, disk, provisioned>>, asked' \subseteq asked,
           \A i \in Id : link'[i] # -1 => link[i] # -1
    PROVE  Settled
  BY <1>SettledStep DEF Settled, Opening, disk
<1>LinkNumbers.
    ASSUME Base, NumbersInv, NEW t \in Task, LinkStep(t)
    PROVE  NumbersInv'
  <2> USE <1>LinkNumbers
  <2>0. t \in Jobs /\ TypeOK
    BY DEF Jobs, Base
  <2>1. ASSUME NEW spawns \in BOOLEAN, LinkStartEngine(t, spawns) \/ LinkMintFails(t) PROVE NumbersInv'
    <3>1. PICK pc \in {"mint", "discard"} : Goto(t, pc)
      BY <2>1 DEF LinkStartEngine, LinkMintFails
    <3>2. Settled
      BY <2>1, <1>SettledStep DEF LinkStartEngine, LinkMintFails, pool, sup
    <3>3. QED
      BY <2>0, <3>1, <3>2, <1>GotoNumbers DEF Pc
  <2>2. ASSUME NEW i \in Id, ProvisionSlot(t, i) PROVE NumbersInv'
    <3>0. Begin(t, "link", i, "start") /\ "link" \in Op /\ "start" \in Pc
      BY <2>2 DEF ProvisionSlot, Op, Pc
    <3>1. Moves(t) /\ job'[t].op = "link" /\ job'[t].pc = "start" /\ job'[t].id = i
      BY <2>0, <2>2, <3>0, BeginMoves
    <3>2. ~Finishing(t)' /\ Told(t)'
      BY <3>1 DEF Finishing, Told
    <3>3. Untouched(i) /\ UNCHANGED <<ops, reg, row, ledger, provisioned, link, asked>> /\ dir' = dir \cup {i}
      BY <2>2 DEF Base, ProvisionSlot
    <3>4. \A k \in Id : (Claimed(k)' = Claimed(k)) /\ (Opening(k)' = Opening(k))
      BY SMTT(30), <2>0, <2>2, <3>3 DEF Claimed, Opening, Committed, ProvisionSlot, TypeOK, Untouched
    <3>5. ~Claimed(i) /\ dir \subseteq Id
      BY <2>0, <3>3 DEF Claimed, Untouched, TypeOK
    <3>6. Numbers => Numbers'
      BY <2>0, <3>1, <3>2, <3>3, <3>4, <3>5, <1>NumbersStep DEF Numbers
    <3>7. NumbersNoList => NumbersNoList'
      <4>1. ASSUME NumbersNoList, NEW u \in Jobs, job'[u].pc = "forget" PROVE reg'[job'[u].id] = None
        BY <3>1, <3>3, <4>1 DEF NumbersNoList, Moves
      <4>2. QED
        BY <2>0, <3>1, <3>2, <3>3, <3>4, <4>1, <1>NoListStep
    <3>8. NumbersNoDelete => NumbersNoDelete'
      <4>1. \A u \in Jobs : Finishing(u) => job[u].id # i
        BY <2>2, <1>FinishingOp DEF ProvisionSlot, Base, JobsOK
      <4>2. QED
        BY <2>0, <3>1, <3>2, <3>3, <3>4, <3>5, <4>1, <1>NoDeleteStep
    <3>9. QED
      BY <3>3, <3>6, <3>7, <3>8 DEF NumbersInv
  <2>3. ASSUME LinkMint(t) PROVE NumbersInv'
    <3> DEFINE i == job[t].id
    <3>1. Fresh(t) /\ i \in Id
      BY <2>0, <2>3 DEF LinkMint, At, Base, Linking, Fresh, NewSlot, TypeOK
    <3>2. Moves(t) /\ job'[t].pc = "none" /\ job'[t].id = None
      BY <2>0, <2>3, EndLegal DEF LinkMint
    <3>3. ~Finishing(t)' /\ Told(t)'
      BY <3>2 DEF Finishing, Told
    <3>4. UNCHANGED <<ops, dir, sidecar, reg, row, ledger, provisioned, asked>>
          /\ \A k \in Id \ {i} : link'[k] = link[k]
      BY <2>0, <2>3 DEF LinkMint, disk, TypeOK
    <3>5. \A k \in Id : Claimed(k)' = Claimed(k)
      BY <3>4 DEF Claimed, Committed
    <3>6. \A k \in Id \ {i} : Opening(k)' = Opening(k)
      BY <3>4 DEF Opening
    <3>7. dir \subseteq Id
      BY <2>0 DEF TypeOK
    <3>8. Numbers => Numbers'
      BY <2>0, <3>2, <3>3, <3>4, <3>5, <3>7, <1>NumbersStep DEF Numbers
    <3>9. NumbersNoDelete => NumbersNoDelete'
      BY <2>0, <3>2, <3>3, <3>4, <3>5, <3>7, <1>NoDeleteStep
    <3>10. ASSUME NumbersNoList PROVE NumbersNoList'
      <4>1. ~Claimed(i) /\ ledger[i] = "none"
        BY <3>1 DEF Fresh, NewSlot, Untouched, Claimed
      <4>2. \A u \in Jobs : job'[u].id # i
        BY <3>1, <3>2, PoolAssumption DEF Fresh, Moves, PoolAssumption
      <4> DEFINE NoPast(k) ==
                   /\ ~Claimed(k)' /\ ledger'[k] = "none"
                   /\ \A u \in Jobs : job'[u].id = k => job'[u].op \notin {"request", "delete"}
                   /\ \A u \in Jobs : job'[u].id = k => job'[u].pc # "sync"
      <4>3. ASSUME NEW k \in Id \ {i}, Opening(k)' PROVE NoPast(k)
        <5>1. /\ ~Claimed(k) /\ ledger[k] = "none"
              /\ \A u \in Jobs : job[u].id = k => job[u].op \notin {"request", "delete"}
              /\ \A u \in Jobs : job[u].id = k => job[u].pc # "sync"
          BY <3>6, <3>10, <4>3 DEF NumbersNoList
        <5>2. \A u \in Jobs : job'[u].id = k => job'[u] = job[u]
          BY <3>2, PoolAssumption DEF Moves, PoolAssumption
        <5>3. QED
          BY <3>4, <3>5, <5>1, <5>2
      <4>4. ASSUME NEW k \in asked', NEW u \in Jobs, Finishing(u)' PROVE job'[u].id # k
        BY <3>2, <3>3, <3>4, <3>10, <4>4 DEF NumbersNoList, Moves, Finishing
      <4>5. ASSUME NEW u \in Jobs, job'[u].pc = "forget" PROVE reg'[job'[u].id] = None
        <5>1. job'[u] = job[u]
          BY <3>2, <4>5 DEF Moves
        <5>2. QED
          BY <3>4, <3>10, <4>5, <5>1 DEF NumbersNoList
      <4>6. ASSUME NEW k \in Id, Opening(k)' PROVE NoPast(k)
        <5>1. CASE k = i
          BY <3>4, <3>5, <4>1, <4>2, <5>1
        <5>2. CASE k # i
          BY <4>3, <4>6, <5>2
        <5>3. QED
          BY <5>1, <5>2
      <4>7. QED
        BY <4>4, <4>5, <4>6 DEF NumbersNoList
    <3>11. QED
      BY <3>4, <3>8, <3>9, <3>10 DEF NumbersInv
  <2>4. QED
    BY <2>1, <2>2, <2>3 DEF LinkStep
<1>FinishLinkNumbers.
    ASSUME Base, NumbersInv, NEW t \in Task, NEW i \in Id, FinishLink(t, i)
    PROVE  NumbersInv'
  <2> USE <1>FinishLinkNumbers
  <2>0. t \in Jobs /\ TypeOK /\ dir \subseteq Id /\ link[i] # -1
    BY SMTT(30) DEF Jobs, Base, TypeOK, FinishLink
  <2>a. Begin(t, "finish", i, "wait") /\ "finish" \in Op /\ "wait" \in Pc
    BY DEF FinishLink, Op, Pc
  <2>1. Moves(t) /\ job'[t].op = "finish" /\ job'[t].pc = "wait" /\ job'[t].id = i
    BY <2>0, <2>a, BeginMoves
  <2>2. ~Finishing(t)' /\ Told(t)'
    BY <2>1 DEF Finishing, Told
  <2>3. UNCHANGED <<ops, dir, sidecar, reg, row, ledger, provisioned, link>> /\ asked' \subseteq asked \cup {i}
    BY DEF FinishLink, disk, pool
  <2>4. \A k \in Id : (Claimed(k)' = Claimed(k)) /\ (Opening(k)' => Opening(k))
    BY <2>0, <2>3 DEF Claimed, Committed, Opening
  <2>5. \A u \in Jobs : ~Finishing(u)'
    <3>1. \A u \in Jobs : ~Finishing(u)
      BY <1>FinishingOp, <1>OneFinishes DEF FinishLink, FinishFree, Base, JobsOK, Jobs
    <3>2. QED
      BY <2>1, <2>2, <3>1 DEF Finishing, Moves
  <2>6. Numbers => Numbers'
    BY <2>0, <2>1, <2>2, <2>3, <2>4, <1>NumbersStep DEF Numbers
  <2>7. NumbersNoList => NumbersNoList'
    <3>1. ASSUME NumbersNoList, NEW u \in Jobs, job'[u].pc = "forget" PROVE reg'[job'[u].id] = None
      BY <2>1, <2>3, <3>1 DEF NumbersNoList, Moves
    <3>2. QED
      BY <2>0, <2>1, <2>2, <2>3, <2>4, <2>5, <3>1, <1>NoListStep
  <2>8. NumbersNoDelete => NumbersNoDelete'
    BY <2>0, <2>1, <2>2, <2>3, <2>4, <1>NoDeleteStep
  <2>9. QED
    BY <2>3, <2>6, <2>7, <2>8 DEF NumbersInv
<1>FinishAnsweredNumbers.
    ASSUME Base, NumbersInv, NEW t \in Task, FinishAnswered(t)
    PROVE  NumbersInv'
  <2> USE <1>FinishAnsweredNumbers
  <2> DEFINE i == job[t].id
  <2>0. t \in Jobs /\ TypeOK /\ dir \subseteq Id /\ job[t].op = "finish" /\ i \in Id /\ job[t] \in JobType
        /\ reg[i] \in Number
    <3>1. t \in Jobs /\ TypeOK /\ dir \subseteq Id /\ job[t].op = "finish" /\ job[t] \in JobType
      BY DEF Jobs, Base, TypeOK, FinishAnswered, At, JobsOK, JobShape
    <3>2. i \in Id
      BY <3>1, JobId
    <3>3. QED
      BY <3>1, <3>2 DEF FinishAnswered, TypeOK
  <2>1. UNCHANGED <<ops, disk, provisioned, link, asked>>
    BY DEF FinishAnswered, pool
  <2>2. Settled
    BY <2>1, <1>SettledStep
  <2>3. CASE End(t)
    BY <2>0, <2>2, <2>3, <1>EndNumbers
  <2>4. CASE ~End(t)
    <3> DEFINE r == [job[t] EXCEPT !.pc = "complete", !.number = reg[i]]
    <3>1. job' = [job EXCEPT ![t] = r]
      BY <2>4 DEF FinishAnswered
    <3>2. r \in JobType /\ r.op = "finish" /\ r.pc = "complete" /\ r.id = i /\ r.number = reg[i]
      BY <2>0 DEF JobType
    <3> HIDE DEF r
    <3>3. Moves(t) /\ job'[t] = r
      BY <2>0, <3>1, <3>2, UpdateMoves
    <3>4. Told(t)' /\ Finishing(t)' /\ i \notin asked /\ reg'[i] # None
      BY <2>0, <2>1, <3>2, <3>3, PoolAssumption DEF Told, Finishing, Base, disk, PoolAssumption
    <3>5. \A k \in Id : Claimed(k)' => Claimed(k)
      BY <2>2, <1>SettledClaims
    <3>6. UNCHANGED <<ops, dir, reg, row, ledger, asked>> /\ \A k \in Id : Opening(k)' = Opening(k)
      BY <2>1 DEF disk, Opening
    <3>7. Numbers => Numbers'
      BY <2>0, <3>3, <3>4, <3>5, <3>6, <1>NumbersStep DEF Numbers
    <3>8. NumbersNoList => NumbersNoList'
      <4>1. ASSUME NumbersNoList, NEW u \in Jobs, job'[u].pc = "forget" PROVE reg'[job'[u].id] = None
        BY <3>2, <3>3, <3>6, <4>1 DEF NumbersNoList, Moves
      <4>2. QED
        BY <2>0, <3>2, <3>3, <3>4, <3>5, <3>6, <4>1, <1>NoListStep
    <3>9. NumbersNoDelete => NumbersNoDelete'
      BY <2>0, <3>2, <3>3, <3>4, <3>5, <3>6, <1>NoDeleteStep
    <3>10. QED
      BY <3>6, <3>7, <3>8, <3>9 DEF NumbersInv
  <2>5. QED
    BY <2>3, <2>4
(* The commit: the row a number already has is the one it keeps.            *)
<1>FinishCommitNumbers.
    ASSUME Base, NumbersInv, NEW t \in Task, FinishCommit(t)
    PROVE  NumbersInv'
  <2> USE <1>FinishCommitNumbers
  <2> DEFINE i == job[t].id
             n == job[t].number
  <2>0. /\ t \in Jobs /\ TypeOK /\ dir \subseteq Id /\ Finishing(t) /\ job[t].pc = "complete"
        /\ job[t].op = "finish" /\ i \in Id /\ job[t] \in JobType /\ n \in Number
    <3>1. t \in Jobs /\ TypeOK /\ dir \subseteq Id /\ Finishing(t) /\ job[t].pc = "complete" /\ job[t] \in JobType
      BY DEF Jobs, Base, TypeOK, FinishCommit, At, Finishing
    <3>2. QED
      BY <3>1, <1>FinishingOp
  <2>1. /\ UNCHANGED <<ops, dir, sidecar, reg, ledger, provisioned, asked>>
        /\ link'[i] = -1 /\ \A k \in Id \ {i} : link'[k] = link[k]
    BY <2>0 DEF FinishCommit, pool, TypeOK
  <2>2. CASE row' = row /\ End(t)
    <3>1. Settled
      BY <2>1, <2>2 DEF Settled, Opening
    <3>2. QED
      BY <2>0, <2>2, <3>1, <1>EndNumbers
  <2>3. CASE link[i] > 0 /\ ~UnfinishedDelete(n)
    <3> DEFINE r == [job[t] EXCEPT !.pc = "sync", !.found = row'[n]]
    <3>1. job' = [job EXCEPT ![t] = r] /\ Upsert(n, i)
      BY <2>3 DEF FinishCommit
    <3>2. /\ Committed' \subseteq Committed \cup {i} /\ row'[n] \in Id
          /\ i \in Committed' \ Committed => row'[n] = i
          /\ \A m \in Number : row[m] # None => row'[m] = row[m]
      BY SMTT(30), <2>0, <3>1, UpsertCommits
    <3>3. r \in JobType /\ r.op = "finish" /\ r.pc = "sync" /\ r.id = i /\ r.found = row'[n] /\ r.number = n
      BY <2>0, <3>2 DEF JobType
    <3> HIDE DEF r
    <3>4. Moves(t) /\ job'[t] = r
      BY <2>0, <3>1, <3>3, UpdateMoves
    <3>5. Finishing(t)' /\ \A u \in Jobs \ {t} : ~Finishing(u)
      BY <2>0, <3>3, <3>4, <1>FinishingOp, <1>OneFinishes DEF Finishing
    <3>6. \A k \in Id : Claimed(k)' => Claimed(k) \/ (k = i /\ i \in Committed' \ Committed)
      BY <2>1, <3>2 DEF Claimed
    <3>7. Numbers => Numbers'
      <4> SUFFICES ASSUME Numbers PROVE Numbers'
        OBVIOUS
      <4>1. reg[i] \in {n, None}
        BY <2>0 DEF Numbers, Told
      <4>2. Told(t)'
        BY <2>1, <3>3, <3>4, <4>1 DEF Told
      <4>3. ASSUME NEW k \in dir', Claimed(k)', reg'[k] # None PROVE row'[reg'[k]] = k
        <5>0. k \in dir /\ k \in Id /\ reg'[k] = reg[k] /\ reg[k] \in Number
          <6>1. reg' = reg /\ dir' = dir /\ reg \in [Id -> Number \cup {None}] /\ dir \subseteq Id
            BY <2>0, <2>1 DEF TypeOK
          <6>2. QED
            BY <4>3, <6>1
        <5>1. CASE Claimed(k)
          <6>1. row[reg[k]] = k
            BY <4>3, <5>0, <5>1 DEF Numbers
          <6>2. QED
            BY <3>2, <5>0, <6>1, PoolAssumption DEF PoolAssumption
        <5>2. CASE k = i /\ i \in Committed' \ Committed
          BY <3>2, <4>1, <4>3, <5>0, <5>2
        <5>3. QED
          BY <3>6, <4>3, <5>0, <5>1, <5>2
      <4>4. QED
        BY <2>0, <3>4, <3>5, <4>2, <4>3, <1>NumbersStep
    <3>8. NumbersNoList => NumbersNoList'
      <4> SUFFICES ASSUME NumbersNoList PROVE NumbersNoList'
        OBVIOUS
      <4>1. i \notin asked
        BY <2>0 DEF NumbersNoList
      <4>2. \A k \in Id : Opening(k)' => k # i /\ Opening(k)
        BY <2>1, <4>1 DEF Opening
      <4>3. ~Opening(job[t].id)'
        BY <2>1, <3>3, <3>4, <4>1 DEF Opening
      <4>4. ASSUME NEW u \in Jobs, job'[u].pc = "forget" PROVE reg'[job'[u].id] = None
        <5>1. job'[u] = job[u]
          BY <2>1, <3>3, <3>4, <4>4 DEF Moves
        <5>2. QED
          BY <2>1, <3>3, <3>4, <4>4, <5>1 DEF NumbersNoList
      <4>5. \A k \in Id : Opening(k)' =>
              Opening(k) /\ (Claimed(k)' => Claimed(k)) /\ ledger'[k] = ledger[k]
        BY <2>1, <3>6, <4>2
      <4>6. job'[t].id \notin asked' /\ asked' \subseteq asked
        BY <2>1, <3>3, <3>4, <4>1
      <4>7. QED
        BY <2>0, <3>4, <4>3, <4>4, <4>5, <4>6, <1>NoListStep
    <3>9. NumbersNoDelete => NumbersNoDelete'
      <4> SUFFICES ASSUME NumbersNoDelete PROVE NumbersNoDelete'
        OBVIOUS
      <4>1. i \in dir => reg[i] # None
        BY <2>0 DEF NumbersNoDelete
      <4>2. QED
        BY <2>0, <2>1, <3>3, <3>4, <3>6, <4>1, <1>NoDeleteStep
    <3>10. QED
      BY <2>1, <3>7, <3>8, <3>9 DEF NumbersInv
  <2>4. QED
    BY <2>2, <2>3 DEF FinishCommit
(* The slot is marked committed only when the row is its own.               *)
<1>FinishMarkNumbers.
    ASSUME Base, NumbersInv, NEW t \in Task, FinishMark(t)
    PROVE  NumbersInv'
  <2> USE <1>FinishMarkNumbers
  <2> DEFINE i == job[t].id
  <2>0. /\ t \in Jobs /\ TypeOK /\ dir \subseteq Id /\ Finishing(t) /\ job[t].pc = "sync"
        /\ job[t].op = "finish" /\ i \in Id
    <3>1. t \in Jobs /\ TypeOK /\ dir \subseteq Id /\ Finishing(t) /\ job[t].pc = "sync"
      BY DEF Jobs, Base, TypeOK, FinishMark, At, Finishing
    <3>2. QED
      BY <3>1, <1>FinishingOp
  <2>1. UNCHANGED <<ops, dir, reg, row, ledger, link, asked>>
    BY DEF FinishMark, sup
  <2>a. \A k \in Id : Opening(k)' = Opening(k)
    BY <2>1 DEF Opening
  <2>2. CASE job[t].found # i
    <3>1. Settled /\ Goto(t, "discard")
      BY <2>1, <2>2 DEF Settled, Opening, FinishMark
    <3>2. QED
      BY <2>0, <3>1, <1>GotoNumbers DEF Pc
  <2>3. CASE job[t].found = i
    <3>1. Moves(t) /\ job'[t].pc = "none" /\ job'[t].op = "none"
      BY <2>0, <2>3, EndLegal DEF FinishMark
    <3>2. ~Finishing(t)' /\ Told(t)'
      BY <3>1 DEF Finishing, Told
    <3>3. \A k \in Id : Claimed(k)' => Claimed(k) \/ k = i
      BY SMTT(30), <2>0, <2>1, <2>3 DEF FinishMark, Claimed, Committed, TypeOK
    <3>4. Numbers => Numbers'
      <4>1. ASSUME Numbers, NEW k \in dir', Claimed(k)', reg'[k] # None PROVE row'[reg'[k]] = k
        <5>1. CASE Claimed(k)
          BY <2>1, <4>1, <5>1 DEF Numbers
        <5>2. CASE k = i
          BY <2>0, <2>1, <2>3, <4>1, <5>2 DEF Numbers, Told
        <5>3. QED
          BY <2>0, <2>1, <3>3, <4>1, <5>1, <5>2
      <4>2. QED
        BY <2>0, <2>1, <3>1, <3>2, <4>1, <1>NumbersStep
    <3>5. NumbersNoList => NumbersNoList'
      <4> SUFFICES ASSUME NumbersNoList PROVE NumbersNoList'
        OBVIOUS
      <4>1. ~Opening(i)
        BY <2>0 DEF NumbersNoList
      <4>2. ASSUME NEW u \in Jobs, job'[u].pc = "forget" PROVE reg'[job'[u].id] = None
        BY <2>1, <3>1, <4>2 DEF NumbersNoList, Moves
      <4>3. QED
        BY <2>0, <2>1, <2>a, <3>1, <3>2, <3>3, <4>1, <4>2, <1>NoListStep
    <3>6. NumbersNoDelete => NumbersNoDelete'
      <4>1. ASSUME NumbersNoDelete, i \in dir PROVE reg[i] # None
        BY <2>0, <4>1 DEF NumbersNoDelete
      <4>2. QED
        BY <2>0, <2>1, <3>1, <3>2, <3>3, <4>1, <1>NoDeleteStep
    <3>7. QED
      BY <2>1, <3>4, <3>5, <3>6 DEF NumbersInv
  <2>4. QED
    BY <2>2, <2>3
<1>FinishNumbers.
    ASSUME Base, NumbersInv, NEW t \in Task, FinishStep(t)
    PROVE  NumbersInv'
  <2> USE <1>FinishNumbers
  <2>1. CASE FinishGivesUp(t) \/ FinishReadFails(t)
    <3>1. Settled /\ End(t)
      BY <2>1, <1>SettledStep DEF FinishGivesUp, FinishReadFails, pool, sup
    <3>2. QED
      BY <3>1, <1>EndNumbers DEF Jobs
  <2>2. QED
    BY <2>1, <1>FinishLinkNumbers, <1>FinishAnsweredNumbers, <1>FinishCommitNumbers, <1>FinishMarkNumbers DEF FinishStep
(* The late approval: the engine of a committed slot is asked for nothing.  *)
<1>EngineLinksNumbers.
    ASSUME Base, NumbersInv, NEW i \in Id, NEW n \in Number, EngineLinks(i, n)
    PROVE  NumbersInv'
  <2> USE <1>EngineLinksNumbers
  <2>0. TypeOK /\ dir \subseteq Id /\ job' = job /\ i \in asked /\ i \in dir /\ reg[i] = None
    BY DEF Base, TypeOK, EngineLinks
  <2>1. UNCHANGED <<ops, dir, sidecar, row, ledger, provisioned, link>> /\ asked' = asked \ {i}
        /\ reg' = [reg EXCEPT ![i] = n]
    BY DEF EngineLinks, pool
  <2>2. \A k \in Id : Claimed(k)' = Claimed(k) /\ (Opening(k)' => Opening(k))
    BY <2>1 DEF Claimed, Committed, Opening
  <2>3. Reaper \in Jobs /\ Moves(Reaper) /\ job[Reaper].op \notin {"request", "delete"}
        /\ ~Finishing(Reaper) /\ job[Reaper].pc # "sync"
    BY <2>0 DEF Jobs, Moves, Base, TypeOK, Finishing, JobsOK, JobShape
  <2>4. ~Finishing(Reaper)' /\ Told(Reaper)'
    BY <2>0, <2>3 DEF Finishing, Told
  <2>5. ASSUME NumbersNoList \/ NumbersNoDelete
        PROVE  ~Claimed(i) /\ \A u \in Jobs : Finishing(u) => job[u].id # i
    BY <2>0, <2>5 DEF NumbersNoList, NumbersNoDelete, Opening
  <2>6. ASSUME Numbers, NumbersNoList \/ NumbersNoDelete PROVE Numbers'
    <3>1. ASSUME NEW k \in dir', Claimed(k)', reg'[k] # None PROVE row'[reg'[k]] = k
      BY <2>0, <2>1, <2>2, <2>5, <2>6, <3>1 DEF Numbers, TypeOK
    <3>2. ASSUME NEW u \in Jobs, Finishing(u) PROVE reg'[job[u].id] = reg[job[u].id]
      BY <2>0, <2>1, <2>5, <2>6, <3>2, <1>FinishingOp DEF TypeOK
    <3>3. QED
      BY <2>1, <2>3, <2>4, <2>6, <3>1, <3>2, <1>NumbersStep
  <2>7. ASSUME NumbersNoList PROVE NumbersNoList'
    <3>1. ASSUME NEW u \in Jobs, job'[u].pc = "forget" PROVE reg'[job'[u].id] = None
      <4>1. job[u].op = "delete" /\ job[u].id \in Id /\ reg[job[u].id] = None
        BY <2>0, <2>7, <3>1, JobId DEF NumbersNoList, Base, JobsOK, JobShape
      <4>2. job[u].id # i
        BY <2>0, <2>7, <4>1 DEF NumbersNoList, Opening
      <4>3. QED
        BY <2>0, <2>1, <4>1, <4>2 DEF TypeOK
    <3>2. QED
      BY <2>0, <2>1, <2>2, <2>3, <2>4, <2>7, <3>1, <1>NoListStep
  <2>8. ASSUME NumbersNoDelete PROVE NumbersNoDelete'
    <3>1. \A k \in dir : reg[k] # None => reg'[k] # None
      BY <2>0, <2>1 DEF TypeOK
    <3>2. QED
      BY <2>0, <2>1, <2>2, <2>3, <2>4, <2>8, <3>1, <1>NoDeleteStep
  <2>9. QED
    BY <2>1, <2>6, <2>7, <2>8 DEF NumbersInv
<1>DiscardNumbers.
    ASSUME Base, NumbersInv, NEW t \in Jobs, DiscardStep(t)
    PROVE  NumbersInv'
  <2> USE <1>DiscardNumbers
  <2> DEFINE i == job[t].id
  <2>0. TypeOK /\ dir \subseteq Id
    BY DEF Base, TypeOK
  <2>1. CASE Discard(t) /\ i \notin slots
    <3>1. Settled /\ End(t)
      BY <2>1, <1>SettledStep DEF Discard, sup
    <3>2. QED
      BY <3>1, <1>EndNumbers
  <2>2. CASE Discard(t) /\ i \in slots
    <3> DEFINE r == [job[t] EXCEPT !.pc = "rmdir", !.child = engine[i] = "run"]
    <3>1. /\ job' = [job EXCEPT ![t] = r] /\ UNCHANGED <<ops, disk, provisioned>>
          /\ link' = [link EXCEPT ![i] = -1] /\ asked' = asked \ {i}
      BY <2>2 DEF Discard, TakeEngine
    <3>2. job[t] \in JobType /\ i \in Id
      BY <2>0, <2>2 DEF TypeOK
    <3>3. r \in JobType /\ r.pc = "rmdir" /\ r.op = job[t].op /\ r.id = i
      BY <3>2 DEF JobType
    <3> HIDE DEF r
    <3>4. Moves(t) /\ job'[t] = r
      BY <2>0, <3>1, <3>3, UpdateMoves
    <3>5. Settled
      BY <2>0, <3>1, <3>2, <1>SettledStep DEF TypeOK
    <3>6. ~Finishing(t)' /\ job'[t].pc # "forget" /\ ~Opening(job[t].id)'
      BY <2>0, <3>1, <3>2, <3>3, <3>4 DEF Finishing, Opening, TypeOK
    <3>7. QED
      BY <3>4, <3>5, <3>6, <1>SettledClaims, <1>QuietNumbers DEF Settled
  <2>3. CASE RemoveDirectory(t)
    <3>0. i \in dir /\ i \in Id
      BY <2>0, <2>3 DEF RemoveDirectory, At, Base, Removing
    <3>1. Moves(t) /\ job'[t].pc = "none" /\ job'[t].op = "none"
      BY <2>3, EndLegal DEF RemoveDirectory
    <3>2. ~Finishing(t)' /\ Told(t)'
      BY <3>1 DEF Finishing, Told
    <3>3. /\ UNCHANGED <<ops, row, ledger, provisioned, link, asked>> /\ dir' = dir \ {i}
          /\ reg'[i] = None /\ sidecar'[i] = "none"
          /\ \A k \in Id \ {i} : reg'[k] = reg[k] /\ sidecar'[k] = sidecar[k]
      BY <2>0, <2>3, <3>0 DEF RemoveDirectory, pool, sup, TypeOK
    <3>4. \A k \in Id : (Claimed(k)' => Claimed(k)) /\ Opening(k)' = Opening(k)
      <4>1. Committed' = Committed
        BY <3>3 DEF Committed
      <4>2. \A k \in Id : sidecar'[k] = "done" => sidecar[k] = "done"
        BY <3>3
      <4>3. QED
        BY <3>3, <4>1, <4>2 DEF Claimed, Opening
    <3>5. Numbers => Numbers'
      <4>1. ASSUME Numbers, NEW k \in dir', Claimed(k)', reg'[k] # None PROVE row'[reg'[k]] = k
        BY <2>0, <3>3, <3>4, <4>1 DEF Numbers
      <4>2. \A u \in Jobs : Finishing(u) => reg'[job[u].id] \in {reg[job[u].id], None}
        BY <3>3, <1>FinishingOp
      <4>3. QED
        BY <3>1, <3>2, <3>3, <4>1, <4>2, <1>NumbersStep
    <3>6. NumbersNoList => NumbersNoList'
      <4>1. ASSUME NumbersNoList, NEW u \in Jobs, job'[u].pc = "forget" PROVE reg'[job'[u].id] = None
        <5>1. job'[u] = job[u] /\ reg[job[u].id] = None /\ job[u].id \in Id
          <6>1. job'[u] = job[u]
            BY <3>1, <4>1 DEF Moves
          <6>2. job[u].op = "delete" /\ reg[job[u].id] = None
            BY <3>1, <4>1, <6>1 DEF NumbersNoList, Base, JobsOK, JobShape
          <6>3. QED
            BY <6>1, <6>2, JobId
        <5>2. QED
          BY <3>3, <5>1
      <4>2. QED
        BY <3>1, <3>2, <3>3, <3>4, <4>1, <1>NoListStep
    <3>7. NumbersNoDelete => NumbersNoDelete'
      BY <2>0, <3>1, <3>2, <3>3, <3>4, <1>NoDeleteStep
    <3>8. QED
      BY <3>3, <3>5, <3>6, <3>7 DEF NumbersInv
  <2>4. QED
    BY <2>1, <2>2, <2>3 DEF DiscardStep
(* An account job with a past is never on a slot with an open link.         *)
<1>NotOpening.
    ASSUME Base, NumbersInv, "list" \notin ops, NEW t \in Jobs, job[t].op \in {"request", "delete"}
    PROVE  ~Opening(job[t].id) /\ job[t].id \in Id
  BY <1>NotOpening, JobId DEF NumbersInv, NumbersNoList
<1>EraseNumbers.
    ASSUME Base, NumbersInv, NEW t \in Task, NEW answered \in BOOLEAN, Erase(t, answered)
    PROVE  NumbersInv'
  <2> USE <1>EraseNumbers
  <2> DEFINE i == job[t].id
  <2>0. /\ t \in Jobs /\ TypeOK /\ dir \subseteq Id /\ job[t].pc = "erase" /\ job[t].op = "delete"
        /\ "delete" \in ops /\ i \in Id
    <3>1. t \in Jobs /\ TypeOK /\ dir \subseteq Id /\ job[t].pc = "erase" /\ job[t].op = "delete"
          /\ "delete" \in ops
      BY DEF Jobs, Base, TypeOK, Erase, At, JobsOK, JobShape
    <3>2. QED
      BY <3>1, JobId
  <2>1. /\ UNCHANGED <<ops, dir, sidecar, row, ledger, provisioned, link, asked>>
        /\ reg'[i] \in {reg[i], None} /\ \A k \in Id \ {i} : reg'[k] = reg[k]
        /\ answered => reg'[i] = None
    <3>1. /\ UNCHANGED <<ops, dir, sidecar, row, ledger, provisioned, link, asked>>
          /\ reg' = [reg EXCEPT ![i] = None] \/ (~answered /\ reg' = reg)
      BY DEF Erase, pool, sup
    <3>2. reg \in [Id -> Number \cup {None}]
      BY <2>0 DEF TypeOK
    <3>3. QED
      BY <2>0, <3>1, <3>2
  <2>2. \A k \in Id : Claimed(k)' = Claimed(k) /\ Opening(k)' = Opening(k)
    <3>1. Committed' = Committed
      BY <2>1 DEF Committed
    <3>2. QED
      BY <2>1, <3>1 DEF Claimed, Opening
  <2>3. /\ Moves(t) /\ job'[t].op \in {"none", "delete"} /\ job'[t].pc \in {"none", "forget"}
        /\ job'[t].pc = "forget" => answered /\ job'[t].id = i
        /\ job'[t].op = "delete" => job'[t].id = i
    <3>1. CASE answered
      BY <2>0, <3>1, GotoMoves DEF Erase, Pc
    <3>2. CASE ~answered
      <4>1. End(t)
        BY <3>2 DEF Erase
      <4>2. QED
        BY <2>0, <4>1, EndLegal
    <3>3. QED
      BY <3>1, <3>2
  <2>4. ~Finishing(t)' /\ Told(t)' /\ job'[t].pc # "sync"
    BY <2>3 DEF Finishing, Told
  <2>5. Numbers => Numbers'
    <3>1. ASSUME Numbers, NEW k \in dir', Claimed(k)', reg'[k] # None PROVE row'[reg'[k]] = k
      BY <2>0, <2>1, <2>2, <3>1 DEF Numbers
    <3>2. \A u \in Jobs : Finishing(u) => reg'[job[u].id] \in {reg[job[u].id], None}
      BY <2>1, <1>FinishingOp
    <3>3. QED
      BY <2>0, <2>1, <2>3, <2>4, <3>1, <3>2, <1>NumbersStep
  <2>6. ASSUME "list" \notin ops, NumbersNoList PROVE NumbersNoList'
    <3>1. ASSUME NEW u \in Jobs, job'[u].pc = "forget" PROVE reg'[job'[u].id] = None
      <4>1. CASE u = t
        BY <2>1, <2>3, <3>1, <4>1
      <4>2. CASE u # t
        <5>1. job'[u] = job[u] /\ reg[job[u].id] = None /\ job[u].id \in Id
          <6>1. job'[u] = job[u]
            BY <2>3, <2>6, <3>1, <4>2 DEF Moves
          <6>2. job[u].op = "delete" /\ reg[job[u].id] = None
            BY <2>3, <2>6, <3>1, <4>2, <6>1 DEF NumbersNoList, Base, JobsOK, JobShape
          <6>3. QED
            BY <6>1, <6>2, JobId
        <5>2. QED
          BY <2>1, <5>1
      <4>3. QED
        BY <4>1, <4>2
    <3>2. job'[t].op \in {"request", "delete"} => ~Opening(job[t].id)'
      BY <2>0, <2>1, <2>3, <2>6, <1>NotOpening DEF Opening
    <3>3. QED
      BY <2>0, <2>1, <2>2, <2>3, <2>4, <2>6, <3>1, <3>2, <1>NoListStep
  <2>7. QED
    BY <2>0, <2>1, <2>5, <2>6 DEF NumbersInv
<1>ForgetNumbers.
    ASSUME Base, NumbersInv, NEW t \in Task, Forget(t)
    PROVE  NumbersInv'
  <2> USE <1>ForgetNumbers
  <2> DEFINE i == job[t].id
  <2>0. /\ t \in Jobs /\ TypeOK /\ dir \subseteq Id /\ job[t].pc = "forget" /\ job[t].op = "delete"
        /\ "delete" \in ops /\ i \in Id
    <3>1. t \in Jobs /\ TypeOK /\ dir \subseteq Id /\ job[t].pc = "forget" /\ job[t].op = "delete"
          /\ "delete" \in ops
      BY DEF Jobs, Base, TypeOK, Forget, At, JobsOK, JobShape
    <3>2. QED
      BY <3>1, JobId
  <2>1. /\ UNCHANGED <<ops, dir, sidecar, reg, provisioned, link, asked>>
        /\ \A n \in Number : row[n] # i => row'[n] = row[n]
        /\ \A k \in Id \ {i} : ledger'[k] = ledger[k]
    BY <2>0 DEF Forget, pool, sup, TypeOK
  <2>2. \A k \in Id : (Claimed(k)' => Claimed(k)) /\ Opening(k)' = Opening(k)
    <3>1. Committed' \subseteq Committed
      BY DEF Forget, Committed
    <3>2. QED
      BY <2>1, <3>1 DEF Claimed, Opening
  <2>3. Moves(t) /\ job'[t].op = "delete" /\ job'[t].pc = "discard" /\ job'[t].id = i
    BY <2>0, GotoMoves DEF Forget, Pc
  <2>4. ~Finishing(t)' /\ Told(t)'
    BY <2>3 DEF Finishing, Told
  <2>5. ASSUME "list" \notin ops, Numbers, NumbersNoList PROVE Numbers'
    <3>1. reg[i] = None
      BY <2>0, <2>5 DEF NumbersNoList
    <3>2. ASSUME NEW k \in dir', Claimed(k)', reg'[k] # None PROVE row'[reg'[k]] = k
      <4>0. reg' = reg /\ dir' = dir /\ reg \in [Id -> Number \cup {None}]
        BY <2>0, <2>1 DEF TypeOK
      <4>1. k \in dir /\ Claimed(k) /\ k # i /\ reg'[k] = reg[k] /\ reg[k] \in Number
        BY <2>0, <2>2, <3>1, <3>2, <4>0
      <4>2. row[reg[k]] = k
        BY <3>2, <4>1, <2>5, <2>1 DEF Numbers
      <4>3. QED
        BY <2>1, <4>1, <4>2
    <3>3. ASSUME NEW u \in Jobs \ {t}, Finishing(u), reg'[job[u].id] # None, row[job[u].number] = job[u].id
          PROVE  row'[job[u].number] = job[u].id
      BY <2>1, <3>1, <3>3, <1>FinishingOp
    <3>4. QED
      BY <2>0, <2>1, <2>3, <2>4, <2>5, <3>2, <3>3, <1>NumbersStep
  <2>6. ASSUME "list" \notin ops, NumbersNoList PROVE NumbersNoList'
    <3>1. ~Opening(i) /\ ~Opening(job[t].id)'
      BY <2>0, <2>1, <2>3, <2>6, <1>NotOpening DEF Opening
    <3>2. ASSUME NEW u \in Jobs, job'[u].pc = "forget" PROVE reg'[job'[u].id] = None
      BY <2>1, <2>3, <2>6, <3>2 DEF NumbersNoList, Moves
    <3>3. \A k \in Id : Opening(k)' => Opening(k) /\ (Claimed(k)' => Claimed(k)) /\ ledger'[k] = ledger[k]
      BY <2>1, <2>2, <3>1
    <3>4. QED
      BY <2>0, <2>1, <2>3, <2>4, <2>6, <3>1, <3>2, <3>3, <1>NoListStep
  <2>7. QED
    BY <2>0, <2>1, <2>5, <2>6 DEF NumbersInv
<1>RequestNumbers.
    ASSUME Base, NumbersInv, NEW t \in Task, RequestStep(t)
    PROVE  NumbersInv'
  <2> USE <1>RequestNumbers
  <2> DEFINE i == job[t].id
  <2>0. t \in Jobs /\ TypeOK
    BY DEF Jobs, Base
  <2>1. ASSUME NEW k \in Id, Request(t, k) \/ DeleteAccount(t, k) PROVE NumbersInv'
    <3>1. Settled /\ \A l \in Id : Opening(l)' = Opening(l)
      BY <2>1, <1>SettledStep DEF Request, DeleteAccount, pool, sup, Opening
    <3>2. "list" \notin ops => ~Opening(k)
      BY <2>1 DEF Request, DeleteAccount, NumbersInv, NumbersNoList, Claimed
    <3>3. PICK op \in {"request", "delete"}, pc \in {"wake", "prepare"} : Begin(t, op, k, pc)
      BY <2>1 DEF Request, DeleteAccount
    <3>4. op \in Op /\ pc \in Pc \ {"complete", "sync", "forget"}
      BY DEF Op, Pc
    <3>5. QED
      BY <2>0, <3>1, <3>2, <3>3, <3>4, <1>BeginNumbers
  <2>2. ASSUME NEW spawns \in BOOLEAN, Wake(t) \/ Launch(t, spawns) PROVE NumbersInv'
    <3>1. Settled
      BY <2>2, <1>SettledStep DEF Wake, Launch, sup
    <3>2. End(t) \/ \E pc \in {"launch", "prepare"} : Goto(t, pc)
      BY <2>2 DEF Wake, Launch, Woken
    <3>3. QED
      BY <2>0, <3>1, <3>2, <1>EndNumbers, <1>GotoNumbers DEF Pc
  <2>3. CASE PrepareDelete(t)
    <3>0. job[t].op = "delete" /\ i \in Id
      BY <2>0, <2>3, JobId DEF PrepareDelete, At, Base, JobsOK, JobShape
    <3>1. /\ UNCHANGED <<ops, dir, sidecar, reg, row, provisioned, link, asked>>
          /\ \A k \in Id \ {i} : ledger'[k] = ledger[k]
      BY <2>0, <2>3, <3>0 DEF PrepareDelete, pool, sup, TypeOK
    <3>2. PICK pc \in {"erase", "discard"} : Goto(t, pc)
      BY <2>3 DEF PrepareDelete
    <3>3. CASE "list" \notin ops
      <4>1. Settled
        BY <2>0, <3>0, <3>1, <3>3, <1>NotOpening DEF Settled, Opening
      <4>2. QED
        BY <2>0, <3>2, <4>1, <1>GotoNumbers DEF Pc
    <3>4. CASE "list" \in ops
      BY <2>0, <3>0, <3>1, <3>4 DEF NumbersInv, Base, JobsOK
    <3>5. QED
      BY <3>3, <3>4
  <2>4. QED
    BY <2>1, <2>2, <2>3, <1>EraseNumbers, <1>ForgetNumbers DEF RequestStep
(* The adoption: the number's row is free, or it keeps the one it has.      *)
<1>AccountsListNumbers.
    ASSUME Base, NumbersInv, NEW i \in Id, AccountsList(i)
    PROVE  NumbersInv'
  <2> USE <1>AccountsListNumbers
  <2>0. /\ TypeOK /\ dir \subseteq Id /\ job' = job /\ "list" \in ops /\ reg[i] \in Number
        /\ Upsert(reg[i], i)
    BY DEF Base, TypeOK, AccountsList
  <2>a. None \notin Id
    BY PoolAssumption DEF PoolAssumption
  <2>1. UNCHANGED <<ops, dir, sidecar, reg, ledger, provisioned, link, asked>>
    BY DEF AccountsList, pool, sup
  <2>2. /\ Committed' \subseteq Committed \cup {i}
        /\ i \in Committed' \ Committed => row'[reg[i]] = i
        /\ \A n \in Number : row[n] # None => row'[n] = row[n]
    BY <2>0, UpsertCommits
  <2>3. \A k \in Id : Claimed(k)' => Claimed(k) \/ (k = i /\ i \in Committed' \ Committed)
    BY <2>1, <2>2 DEF Claimed
  <2>4. Reaper \in Jobs /\ Moves(Reaper) /\ ~Finishing(Reaper)
    BY <2>0 DEF Jobs, Moves, Base, TypeOK, Finishing, JobsOK, JobShape
  <2>5. ~Finishing(Reaper)' /\ Told(Reaper)'
    BY <2>0, <2>4 DEF Finishing, Told
  <2>6. Numbers => Numbers'
    <3>1. ASSUME Numbers, NEW k \in dir', Claimed(k)', reg'[k] # None PROVE row'[reg'[k]] = k
      <4>0. k \in dir /\ k \in Id /\ reg'[k] = reg[k] /\ reg[k] \in Number
        BY <2>0, <2>1, <3>1 DEF TypeOK
      <4>1. CASE Claimed(k)
        <5>1. row[reg[k]] = k
          BY <2>1, <3>1, <4>0, <4>1 DEF Numbers
        <5>2. QED
          BY <2>2, <2>a, <4>0, <5>1
      <4>2. CASE k = i /\ i \in Committed' \ Committed
        BY <2>2, <4>0, <4>2
      <4>3. QED
        BY <2>3, <3>1, <4>0, <4>1, <4>2
    <3>2. ASSUME NEW u \in Jobs, Finishing(u), row[job[u].number] = job[u].id
          PROVE  row'[job[u].number] = job[u].id
      BY <2>2, <2>a, <3>2, <1>FinishingOp
    <3>3. QED
      BY <2>1, <2>4, <2>5, <3>1, <3>2, <1>NumbersStep
  <2>7. NumbersNoDelete => NumbersNoDelete'
    <3>1. reg'[i] # None
      BY <2>1 DEF AccountsList
    <3>2. QED
      BY <2>0, <2>1, <2>3, <2>4, <2>5, <3>1, <1>NoDeleteStep
  <2>8. QED
    BY <2>0, <2>1, <2>6, <2>7 DEF NumbersInv
<1>CancelNumbers.
    ASSUME Base, NumbersInv, NEW t \in Task, CancelStep(t)
    PROVE  NumbersInv'
  <2> USE <1>CancelNumbers
  <2>0. t \in Jobs /\ TypeOK
    BY DEF Jobs, Base
  <2>1. ASSUME NEW i \in Id, CancelWait(t, i) PROVE NumbersInv'
    <3>1. Settled /\ Begin(t, "cancel", i, "cancel")
      BY <2>1, <1>SettledStep DEF CancelWait, pool
    <3>2. QED
      BY <2>0, <3>1, <1>BeginNumbers DEF Op, Pc
  <2>2. CASE CancelSession(t)
    <3>1. \A k \in Id : link'[k] \in {link[k], -1}
      BY <2>0, <2>2 DEF CancelSession, TypeOK
    <3>2. Settled /\ (End(t) \/ Goto(t, "discard"))
      BY <2>2, <3>1, <1>SettledStep DEF CancelSession
    <3>3. QED
      BY <2>0, <3>2, <1>EndNumbers, <1>GotoNumbers DEF Pc
  <2>3. QED
    BY <2>1, <2>2 DEF CancelStep
<1>RuntimeNumbers.
    ASSUME Base, NumbersInv, NEW t \in Task, RuntimeStep(t)
    PROVE  NumbersInv'
  <2> USE <1>RuntimeNumbers
  <2>0. t \in Jobs /\ TypeOK /\ job[t] \in JobType
    BY DEF Jobs, Base, TypeOK
  <2>1. Settled
    <3>1. UNCHANGED <<ops, disk, provisioned>> /\ asked' \subseteq asked
      BY DEF RuntimeStep, StopRuntime, StopWaited, StartRuntime, StartDone, StopSlot, StartSlot,
         TakeEngine, pool, sup
    <3>2. \A k \in Id : link'[k] \in {link[k], -1}
      BY <2>0 DEF RuntimeStep, StopRuntime, StopWaited, StartRuntime, StartDone, StopSlot, StartSlot,
         TakeEngine, pool, sup, TypeOK
    <3>3. QED
      BY <3>1, <3>2, <1>SettledStep
  <2>2. job[t].pc = "stop" => job[t].op = "stop"
    BY <2>0 DEF Base, JobsOK, JobShape
  <2>3. job[t].pc = "window" => job[t].op = "start"
    BY <2>0 DEF Base, JobsOK, JobShape
  <2>4. CASE End(t)
    BY <2>0, <2>1, <2>4, <1>EndNumbers
  <2>5. CASE StopRuntime(t)
    <3> DEFINE r == [NoJob EXCEPT !.op = "stop", !.pc = "stop", !.todo = slots]
    <3>1. job' = [job EXCEPT ![t] = r]
      BY <2>5 DEF StopRuntime
    <3>2. r \in JobType /\ r.pc = "stop" /\ r.op = "stop"
      BY <2>0 DEF JobType, NoJob, TypeOK
    <3> HIDE DEF r
    <3>3. QED
      BY <2>0, <2>1, <3>1, <3>2, <1>RuntimeJobNumbers
  <2>6. CASE StartRuntime(t)
    <3>1. PICK T \in Recent(MaxResident) :
            job' = [job EXCEPT ![t] = [NoJob EXCEPT !.op = "start", !.pc = "window", !.todo = T]]
      BY <2>6 DEF StartRuntime
    <3> DEFINE r == [NoJob EXCEPT !.op = "start", !.pc = "window", !.todo = T]
    <3>2. T \subseteq Id
      BY <2>0, RecentSlots, EnginesNat DEF TypeOK
    <3>3. r \in JobType /\ r.pc = "window" /\ r.op = "start"
      BY <3>2 DEF JobType, NoJob
    <3>4. job' = [job EXCEPT ![t] = r]
      BY <3>1
    <3> HIDE DEF r
    <3>5. QED
      BY <2>0, <2>1, <3>3, <3>4, <1>RuntimeJobNumbers
  <2>7. CASE StopWaited(t) /\ job[t].child
    <3> DEFINE r == [job[t] EXCEPT !.child = FALSE]
    <3>1. job' = [job EXCEPT ![t] = r] /\ job[t].pc = "stop"
      BY <2>7 DEF StopWaited, At
    <3>2. r \in JobType /\ r.pc = job[t].pc /\ r.op = job[t].op
      BY <2>0 DEF JobType
    <3> HIDE DEF r
    <3>3. QED
      BY <2>0, <2>1, <2>2, <3>1, <3>2, <1>RuntimeJobNumbers
  <2>8. ASSUME NEW i \in Id, StopSlot(t, i) PROVE NumbersInv'
    <3> DEFINE r == [job[t] EXCEPT !.id = i, !.todo = job[t].todo \ {i}, !.child = (engine[i] = "run")]
    <3>1. job' = [job EXCEPT ![t] = r] /\ job[t].pc = "stop"
      BY <2>8 DEF StopSlot, At
    <3>2. r \in JobType /\ r.pc = job[t].pc /\ r.op = job[t].op
      BY <2>0 DEF JobType
    <3> HIDE DEF r
    <3>3. QED
      BY <2>0, <2>1, <2>2, <3>1, <3>2, <1>RuntimeJobNumbers
  <2>9. ASSUME NEW i \in Id, NEW spawns \in BOOLEAN, StartSlot(t, i, spawns) PROVE NumbersInv'
    <3> DEFINE r == [job[t] EXCEPT !.todo = @ \ {i}]
    <3>1. job' = [job EXCEPT ![t] = r] /\ job[t].pc = "window"
      BY <2>9 DEF StartSlot, At
    <3>2. r \in JobType /\ r.pc = job[t].pc /\ r.op = job[t].op
      BY <2>0 DEF JobType
    <3> HIDE DEF r
    <3>3. QED
      BY <2>0, <2>1, <2>3, <3>1, <3>2, <1>RuntimeJobNumbers
  <2>10. QED
    BY <2>4, <2>5, <2>6, <2>7, <2>8, <2>9 DEF RuntimeStep, StopWaited, StartDone
<1>PoolNumbers.
    ASSUME Base, NumbersInv, NEW i \in Id,
           \/ Reap(i) \/ WindowStep(i) \/ EngineExit(i) \/ FinishExpired(i) \/ FinishCeilingFails(i)
    PROVE  NumbersInv'
  <2> USE <1>PoolNumbers
  <2>0. TypeOK
    BY DEF Base
  <2>1. CASE Reap(i)
    <3>1. Settled /\ Begin(Reaper, "reap", i, "discard")
      BY <2>1, <1>SettledStep DEF Reap, pool, sup
    <3>2. QED
      BY <3>1, <1>BeginNumbers DEF Op, Pc, Jobs
  <2>2. CASE WindowTask(i) \/ DemotedExits(i) \/ EngineExit(i) \/ FinishCeilingFails(i)
    <3>1. UNCHANGED <<ops, disk, provisioned, link>> /\ asked' \subseteq asked /\ job' = job
      BY <2>2 DEF WindowTask, DemotedExits, EngineExit, FinishCeilingFails, pool, sup
    <3>2. QED
      BY <3>1, <1>SettledStep, <1>StillNumbers
  <2>3. CASE DemoteShutdown(i) \/ FinishExpired(i)
    <3>1. UNCHANGED <<ops, disk, provisioned>> /\ asked' \subseteq asked /\ job' = job
      BY <2>3 DEF DemoteShutdown, TakeEngine, FinishExpired, pool
    <3>2. \A k \in Id : link'[k] \in {link[k], -1}
      BY <2>0, <2>3 DEF DemoteShutdown, TakeEngine, FinishExpired, TypeOK
    <3>3. QED
      BY <3>1, <3>2, <1>SettledStep, <1>StillNumbers
  <2>4. QED
    BY <2>1, <2>2, <2>3 DEF WindowStep
<1>RestartNumbers.
    ASSUME Base, NumbersInv, Restart
    PROVE  NumbersInv'
  <2> USE <1>RestartNumbers
  <2>0. TypeOK /\ dir \subseteq Id
    BY DEF Base, TypeOK
  <2>1. \A t \in Jobs : job'[t].pc = "none" /\ ~Finishing(t)' /\ Told(t)'
    BY DEF Restart, NoJob, Finishing, Told
  <2>2. UNCHANGED <<ops, dir, sidecar, reg, row, ledger>>
    BY DEF Restart, disk
  <2>3. \A i \in Id : (Claimed(i)' => Claimed(i)) /\ ~Opening(i)'
    BY <2>2 DEF Restart, Discover, Claimed, Committed, Opening
  <2>4. asked' = {}
    BY DEF Restart
  <2>5. QED
    BY <2>0, <2>1, <2>2, <2>3, <2>4 DEF NumbersInv, Numbers, NumbersNoList, NumbersNoDelete
<1>NextNumbers.
    ASSUME Base, NumbersInv, Next
    PROVE  NumbersInv'
  <2> USE <1>NextNumbers
  <2>1. ASSUME NEW t \in Task,
               LinkStep(t) \/ FinishStep(t) \/ CancelStep(t) \/ RequestStep(t) \/ RuntimeStep(t)
        PROVE  NumbersInv'
    BY <2>1, <1>LinkNumbers, <1>FinishNumbers, <1>CancelNumbers, <1>RequestNumbers, <1>RuntimeNumbers
  <2>2. ASSUME NEW i \in Id,
               \/ Reap(i) \/ AccountsList(i) \/ WindowStep(i) \/ EngineExit(i) \/ FinishExpired(i)
               \/ FinishCeilingFails(i) \/ \E n \in Number : EngineLinks(i, n)
        PROVE  NumbersInv'
    BY <2>2, <1>AccountsListNumbers, <1>PoolNumbers, <1>EngineLinksNumbers
  <2>3. CASE Tick
    <3>1. \A k \in Id : link'[k] # -1 => link[k] # -1
      BY SMTT(30), <2>3 DEF Tick, Base, TypeOK
    <3>2. Settled /\ job' = job
      BY <2>3, <3>1, <1>SettledStep DEF Tick
    <3>3. QED
      BY <3>2, <1>StillNumbers
  <2>4. QED
    BY <2>1, <2>2, <2>3, <1>DiscardNumbers, <1>RestartNumbers DEF Next
<1>InitNumbers. Init => NumbersInv
  <2> SUFFICES ASSUME Init PROVE NumbersInv
    OBVIOUS
  <2>1. \A t \in Jobs : job[t].pc = "none"
    BY DEF Init, NoJob
  <2>2. dir = {} /\ asked = {} /\ \A i \in Id : link[i] = -1
    BY DEF Init
  <2>3. QED
    BY <2>1, <2>2 DEF NumbersInv, Numbers, NumbersNoList, NumbersNoDelete, Finishing, Told, Opening
<1>1. Base /\ NumbersInv /\ [Next]_vars => NumbersInv'
  <2> SUFFICES ASSUME Base, NumbersInv, UNCHANGED vars PROVE NumbersInv'
    BY <1>NextNumbers
  <2>1. UNCHANGED <<ops, disk, provisioned, link, asked>> /\ job' = job
    BY DEF vars, pool, sup
  <2>2. QED
    BY <2>1, <1>SettledStep, <1>StillNumbers
<1>2. QED
  BY <1>InitNumbers, <1>1, PoolBase, PTL DEF Spec

(* OneSlotPerNumber (finish_link, mark_provisioned, accounts.list): no      *)
(* number is served by two committed slots, over crashes, late engine links *)
(* and duplicate link.finish calls.                                         *)
THEOREM NumberServedOnce == Spec => []OneSlotPerNumber
<1>1. Base /\ NumbersInv => OneSlotPerNumber
  BY DEF Base, TypeOK, NumbersInv, Numbers, Claimed, OneSlotPerNumber
<1>2. QED
  BY <1>1, PoolBase, PoolKeepsNumbers, PTL

-----------------------------------------------------------------------------
(* Facts about finite sets, which only what follows needs.                  *)
INSTANCE FiniteSetTheorems

-----------------------------------------------------------------------------
(* What the lanes keep apart.                                               *)

(* A link that is open, or about to commit, was admitted below the ceiling. *)
Admitted ==
    \/ sessions # {}
    \/ \E t \in Jobs : job[t].pc \in {"start", "mint", "wait", "complete", "sync"}

(* A process a job waits for has left its slot.                             *)
Waited(t) ==
    job[t].child =>
      \/ job[t].pc = "rmdir"
      \/ job[t].pc = "stop" /\ job[t].id \in slots /\ engine[job[t].id] # "run"

Lanes ==
    /\ \A i \in Id : ebb[i] = 0
    /\ windows = {} /\ demoting = {}
    /\ Admitted => Cardinality(slots) <= MaxEngines
    /\ \A i \in Id : engine[i] = "run" => i \in slots
    /\ \A t \in Jobs : job[t].op \in {"stop", "start"} => job[t].todo \subseteq slots
    /\ \A t \in Jobs : Waited(t)

LanesInv == LanesApart => Lanes

-----------------------------------------------------------------------------
(* Each step provisions at most one directory.                              *)
LEMMA DirGrowsByOne == [Next]_vars => dir' \subseteq dir \/ \E i \in Id : dir' = dir \cup {i}
<1>1. ASSUME NEW t \in Task, LinkStep(t)
      PROVE  dir' = dir \/ \E i \in Id : dir' = dir \cup {i}
  BY <1>1 DEF LinkStep, ProvisionSlot, LinkStartEngine, LinkMint, LinkMintFails, disk
<1>2. ASSUME NEW t \in Task, FinishStep(t) \/ CancelStep(t) PROVE dir' = dir
  BY <1>2 DEF FinishStep, FinishLink, FinishAnswered, FinishGivesUp, FinishCommit, FinishMark,
              FinishReadFails, CancelStep, CancelWait, CancelSession, disk
<1>3. ASSUME NEW t \in Task, RequestStep(t) PROVE dir' = dir
  BY <1>3 DEF RequestStep, Request, DeleteAccount, Wake, PrepareDelete, Launch, Erase, Forget, disk
<1>4. ASSUME NEW t \in Task, RuntimeStep(t) PROVE dir' = dir
  BY <1>4 DEF RuntimeStep, StopRuntime, StopWaited, StartRuntime, StartDone, StopSlot, StartSlot, disk
<1>5. ASSUME NEW t \in Jobs, DiscardStep(t)
      PROVE  dir' = dir \/ dir' = dir \ {job[t].id}
  BY <1>5 DEF DiscardStep, Discard, RemoveDirectory, disk
<1>6. ASSUME NEW i \in Id, Reap(i) \/ AccountsList(i) \/ WindowStep(i) \/ EngineExit(i) \/ FinishExpired(i)
                            \/ FinishCeilingFails(i) \/ \E n \in Number : EngineLinks(i, n)
      PROVE dir' = dir
  BY <1>6 DEF Reap, AccountsList, WindowStep, WindowTask, DemoteShutdown, DemotedExits, EngineExit,
              FinishExpired, FinishCeilingFails, EngineLinks, disk
<1>7. CASE Restart \/ Tick \/ UNCHANGED vars
  BY <1>7 DEF Restart, Tick, vars, disk
<1>8. QED
  BY <1>1, <1>2, <1>3, <1>4, <1>5, <1>6, <1>7 DEF Next

DirFinite == IsFiniteSet(dir)

(* The pool never has more than finitely many directories.                  *)
LEMMA DirectoriesFinite == Spec => []DirFinite
<1>1. Init => DirFinite
  BY FS_EmptySet DEF Init, DirFinite
<1>2. DirFinite /\ [Next]_vars => DirFinite'
  <2> SUFFICES ASSUME IsFiniteSet(dir), [Next]_vars PROVE IsFiniteSet(dir')
    BY DEF DirFinite
  <2>1. CASE dir' \subseteq dir
    BY <2>1, FS_Subset
  <2>2. CASE \E i \in Id : dir' = dir \cup {i}
    BY <2>2, FS_AddElement
  <2>3. QED
    BY <2>1, <2>2, DirGrowsByOne
<1>3. QED
  BY <1>1, <1>2, PTL DEF Spec

-----------------------------------------------------------------------------
(* Lanes: one engine per slot, and none without its directory.              *)

(* LanesInv: while the host's operations are those the lanes keep apart, no *)
(* slot overflows the window, an engine runs only in a registered slot, and *)
(* a process that is waited for has left its slot.                          *)
THEOREM PoolLanesApart == Spec => []LanesInv
(* No operation on an account takes part.                                   *)
<1>NotAddressed.
    ASSUME Base, LanesApart, NEW t \in Jobs
    PROVE  job[t].pc \notin {"wake", "launch", "prepare", "erase", "forget"}
  BY <1>NotAddressed DEF Base, JobsOK, JobShape, LanesApart
<1>SlotsFinite. Base /\ IsFiniteSet(dir) => IsFiniteSet(slots) /\ Cardinality(slots) \in Nat
  BY FS_Subset, FS_CardinalityType DEF Base, TypeOK
(* The window never overflows while a link is open.                         *)
<1>WindowIdle.
    ASSUME Base, IsFiniteSet(dir), LanesApart, Lanes, Admitted, NEW i \in Id, NoteActivity(i)
    PROVE  windows' = windows
  <2> USE <1>WindowIdle
  <2>1. /\ Cardinality((resident \cup {i}) \cap slots) <= Cardinality(slots)
        /\ Cardinality((resident \cup {i}) \cap slots) \in Nat
    BY <1>SlotsFinite, FS_Subset, FS_CardinalityType
  <2>2. Cardinality(slots) <= MaxResident
    BY DEF Lanes, LanesApart
  <2>3. ~(Cardinality((resident \cup {i}) \cap slots) > MaxResident)
    BY SMTT(30), <2>1, <2>2, <1>SlotsFinite, EnginesNat
  <2>4. QED
    BY <2>3 DEF NoteActivity, EnforceWindow
(* A step in general: what it owes Lanes.                                   *)
<1>LanesStep.
    ASSUME Base, Lanes, NEW t \in Jobs, Moves(t), UNCHANGED spawned,
           Admitted' => Cardinality(slots') <= MaxEngines,
           \A i \in Id : engine'[i] = "run" => i \in slots',
           job'[t].op \in {"stop", "start"} => job'[t].todo \subseteq slots',
           Waited(t)',
           \A u \in Jobs \ {t} : job[u].op \in {"stop", "start"} =>
             job[u].todo \subseteq slots' /\ (job[u].child /\ job[u].pc = "stop" =>
                                        job[u].id \in slots' /\ engine'[job[u].id] # "run")
    PROVE  Lanes'
  <2> USE <1>LanesStep
  <2>1. \A u \in Jobs : Waited(u)'
    BY SMTT(30) DEF Waited, Moves, Lanes, Base, JobsOK, JobShape
  <2>2. \A u \in Jobs : job'[u].op \in {"stop", "start"} => job'[u].todo \subseteq slots'
    BY DEF Moves
  <2>3. QED
    BY <2>1, <2>2 DEF Lanes, spawned
(* A step that leaves the table and the engines alone.                      *)
<1>QuietLanes.
    ASSUME Base, Lanes, NEW t \in Jobs, Moves(t), UNCHANGED <<spawned, slots, engine>>,
           sessions' \subseteq sessions,
           job'[t].pc \in {"start", "mint", "wait", "complete", "sync"} => Admitted,
           job'[t].op \in {"stop", "start"} => job'[t].todo \subseteq slots,
           Waited(t)'
    PROVE  Lanes'
  <2> USE <1>QuietLanes
  <2>1. Admitted' => Admitted
    BY DEF Admitted, Moves
  <2>2. Admitted' => Cardinality(slots') <= MaxEngines
    BY <2>1 DEF Lanes
  <2>3. \A u \in Jobs \ {t} : job[u].op \in {"stop", "start"} =>
               job[u].todo \subseteq slots' /\ (job[u].child /\ job[u].pc = "stop" =>
                                          job[u].id \in slots' /\ engine'[job[u].id] # "run")
    BY DEF Lanes, Waited
  <2>4. QED
    BY <2>2, <2>3, <1>LanesStep DEF Lanes
(* A job that goes on, or ends, without a child.                            *)
<1>GoneLanes.
    ASSUME Base, Lanes, NEW t \in Jobs, UNCHANGED <<spawned, slots, engine>>,
           sessions' \subseteq sessions, End(t)
    PROVE  Lanes'
  <2> USE <1>GoneLanes
  <2>1. /\ Moves(t) /\ job'[t].pc = "none" /\ job'[t].op = "none" /\ job'[t].child = FALSE
    BY EndLegal
  <2>2. QED
    BY <2>1, <1>QuietLanes DEF Waited
<1>DiscardLanes.
    ASSUME Base, Lanes, NEW t \in Jobs, UNCHANGED <<spawned, slots, engine>>,
           sessions' \subseteq sessions, Goto(t, "discard"), job[t].pc \notin {"rmdir", "stop"}
    PROVE  Lanes'
  <2> USE <1>DiscardLanes
  <2>1. Moves(t) /\ job'[t].pc = "discard" /\ job'[t].op = job[t].op /\ job'[t].child = job[t].child
        /\ job'[t].todo = job[t].todo
    BY GotoMoves DEF Base, Pc
  <2>2. job[t].child = FALSE
    BY DEF Lanes, Waited, Base, TypeOK, JobType
  <2>3. QED
    BY <2>1, <2>2, <1>QuietLanes DEF Waited, Lanes
(* A step of no job.                                                        *)
<1>StillLanes.
    ASSUME Base, Lanes, job' = job, UNCHANGED <<spawned, slots, engine>>, sessions' \subseteq sessions
    PROVE  Lanes'
  <2> USE <1>StillLanes
  <2>1. Reaper \in Jobs /\ Moves(Reaper)
    BY StillLegal DEF Jobs, Moves, Base, TypeOK
  <2>2. job'[Reaper].pc \in {"start", "mint", "wait", "complete", "sync"} => Admitted
    BY <2>1 DEF Admitted
  <2>3. job'[Reaper].op \in {"stop", "start"} => job'[Reaper].todo \subseteq slots
    BY <2>1 DEF Lanes
  <2>4. Waited(Reaper)'
    BY <2>1 DEF Lanes, Waited
  <2>5. QED
    BY <2>1, <2>2, <2>3, <2>4, <1>QuietLanes
(* A job that begins.                                                       *)
<1>BeginLanes.
    ASSUME Base, Lanes, NEW t \in Jobs, NEW op \in Op \ {"stop", "start"}, NEW i \in Id, NEW pc \in Pc,
           Begin(t, op, i, pc), UNCHANGED <<spawned, slots, engine, sessions>>,
           pc \in {"start", "mint", "wait", "complete", "sync"} => sessions # {}
    PROVE  Lanes'
  <2> USE <1>BeginLanes
  <2>1. Moves(t) /\ job'[t].op = op /\ job'[t].pc = pc /\ ~job'[t].child
    BY BeginMoves DEF Base
  <2>2. QED
    BY <2>1, <1>QuietLanes DEF Waited, Admitted
<1>ProvisionSlotLanes.
    ASSUME Base, IsFiniteSet(dir), Lanes, NEW t \in Task, NEW i \in Id, ProvisionSlot(t, i)
    PROVE  Lanes'
  <2> USE <1>ProvisionSlotLanes
  <2>0. t \in Jobs /\ TypeOK
    BY DEF Jobs, Base
  <2>a. Begin(t, "link", i, "start") /\ "link" \in Op /\ "start" \in Pc
    BY DEF ProvisionSlot, Op, Pc
  <2>1. Moves(t) /\ job'[t].op = "link" /\ job'[t].pc = "start" /\ ~job'[t].child
    BY <2>0, <2>a, BeginMoves
  <2>2. Cardinality(slots') <= MaxEngines
    <3>1. slots' = slots \cup {i} /\ i \notin slots /\ Cardinality(slots) < MaxEngines
      BY <2>0 DEF ProvisionSlot, Room, TypeOK
    <3>2. Cardinality(slots') = Cardinality(slots) + 1
      BY <3>1, <1>SlotsFinite, FS_AddElement
    <3>3. QED
      BY SMTT(30), <3>1, <3>2, <1>SlotsFinite, EnginesNat
  <2>3. QED
    BY <2>0, <2>1, <2>2, <1>LanesStep DEF ProvisionSlot, Lanes, Waited, spawned
<1>LinkStartEngineLanes.
    ASSUME Base, Lanes, NEW t \in Task, NEW spawns \in BOOLEAN, LinkStartEngine(t, spawns)
    PROVE  Lanes'
  <2> USE <1>LinkStartEngineLanes
  <2>0. t \in Jobs /\ TypeOK /\ Linking(t) /\ job[t].id \in slots /\ job[t].id \in Id
        /\ job[t].child = FALSE /\ job[t].op = "link"
    BY DEF Jobs, Base, LinkStartEngine, At, Linking, Fresh, NewSlot, TypeOK, Lanes, Waited, JobType
  <2>1. PICK pc \in {"mint", "discard"} : Goto(t, pc)
    BY DEF LinkStartEngine
  <2>2. Moves(t) /\ job'[t].pc = pc /\ job'[t].op = "link" /\ job'[t].child = FALSE
    BY <2>0, <2>1, GotoMoves DEF Pc
  <2>3. \A u \in Jobs : job[u].op \notin {"stop", "start"}
    BY <2>0, OneInControl DEF Control
  <2>4. Admitted /\ slots' = slots
    BY <2>0 DEF Admitted, Linking, LinkStartEngine, pool
  <2>5. \A i \in Id : engine'[i] = "run" => i \in slots'
    BY <2>0, <2>4 DEF LinkStartEngine, StartEngine, Lanes, TypeOK
  <2>6. QED
    BY <2>0, <2>2, <2>3, <2>4, <2>5, <1>LanesStep DEF Waited, Lanes, LinkStartEngine
<1>LinkMintLanes.
    ASSUME Base, IsFiniteSet(dir), LanesApart, Lanes, NEW t \in Task, LinkMint(t)
    PROVE  Lanes'
  <2> USE <1>LinkMintLanes
  <2> DEFINE i == job[t].id
  <2>0. t \in Jobs /\ Admitted /\ i \in Id /\ NoteActivity(i) /\ End(t)
    BY DEF Jobs, Base, LinkMint, At, Linking, Fresh, NewSlot, TypeOK, Admitted
  <2>1. UNCHANGED <<spawned, slots, engine>>
    BY <2>0, <1>WindowIdle DEF LinkMint, spawned
  <2>2. Moves(t) /\ job'[t].op = "none" /\ job'[t].child = FALSE
    BY <2>0, EndLegal
  <2>3. \A u \in Jobs : job[u].op \notin {"stop", "start"}
    <3>1. job[t].pc = "mint" /\ t \in Jobs
      BY <2>0 DEF LinkMint, At, Jobs
    <3>2. job[t].op = "link"
      BY <2>0, <3>1 DEF Base, JobsOK, JobShape
    <3> QED BY <2>0, <3>1, <3>2, OneInControl DEF Control
  <2>4. QED
    BY <2>0, <2>1, <2>2, <2>3, <1>LanesStep DEF Waited, Lanes
<1>FinishMarkLanes.
    ASSUME Base, IsFiniteSet(dir), LanesApart, Lanes, NEW t \in Task, FinishMark(t)
    PROVE  Lanes'
  <2> USE <1>FinishMarkLanes
  <2> DEFINE i == job[t].id
  <2>0. t \in Jobs /\ Admitted /\ i \in Id /\ job[t].pc = "sync"
    BY DEF Jobs, Base, FinishMark, At, JobsOK, JobShape, TypeOK, Admitted, JobType
  <2>1. CASE job[t].found = i
    <3>1. NoteActivity(i) /\ End(t)
      BY <2>1 DEF FinishMark
    <3>2. UNCHANGED <<spawned, slots, engine>> /\ sessions' \subseteq sessions
      BY <2>0, <3>1, <1>WindowIdle DEF FinishMark, spawned, sup
    <3>3. QED
      BY <2>0, <3>1, <3>2, <1>GoneLanes
  <2>2. CASE job[t].found # i
    <3>1. Goto(t, "discard") /\ UNCHANGED <<spawned, slots, engine>> /\ sessions' \subseteq sessions
      BY <2>2 DEF FinishMark, spawned, sup
    <3>2. QED
      BY <2>0, <3>1, <1>DiscardLanes
  <2>3. QED
    BY <2>1, <2>2
<1>FinishLanes.
    ASSUME Base, Lanes, NEW t \in Task,
           \/ \E i \in Id : FinishLink(t, i)
           \/ FinishAnswered(t) \/ FinishGivesUp(t) \/ FinishCommit(t) \/ FinishReadFails(t)
    PROVE  Lanes'
  <2> USE <1>FinishLanes
  <2>0. t \in Jobs /\ TypeOK
    BY DEF Jobs, Base
  <2>1. CASE \E i \in Id : FinishLink(t, i)
    <3>1. PICK i \in Id : FinishLink(t, i)
      BY <2>1
    <3>2. QED
      BY <2>0, <3>1, <1>BeginLanes DEF FinishLink, Op, Pc, pool
  <2>2. CASE FinishAnswered(t)
    <3>1. CASE job[t].id \in finishing
      <4> DEFINE r == [job[t] EXCEPT !.pc = "complete", !.number = reg[job[t].id]]
      <4>1. job' = [job EXCEPT ![t] = r]
        BY <2>2, <3>1 DEF FinishAnswered
      <4>2. job[t] \in JobType /\ reg[job[t].id] \in Number
        BY <2>0, <2>2, <3>1 DEF TypeOK, FinishAnswered
      <4>3. r \in JobType /\ r.op = job[t].op /\ r.pc = "complete" /\ r.child = job[t].child
        BY <4>2 DEF JobType
      <4> HIDE DEF r
      <4>4. Moves(t) /\ job'[t] = r
        BY <2>0, <4>1, <4>3, UpdateMoves
      <4>5. job[t].pc = "wait" /\ job[t].op = "finish" /\ job[t].child = FALSE /\ Admitted
        BY <2>0, <2>2, <4>2 DEF FinishAnswered, At, Base, JobsOK, JobShape, Lanes, Waited, Admitted, JobType
      <4>6. UNCHANGED <<spawned, slots, engine, sessions>>
        BY <2>2 DEF FinishAnswered, pool
      <4>7. QED
        BY <2>0, <4>3, <4>4, <4>5, <4>6, <1>QuietLanes DEF Waited
    <3>2. CASE job[t].id \notin finishing
      BY <2>0, <2>2, <3>2, <1>GoneLanes DEF FinishAnswered, pool
    <3>3. QED
      BY <3>1, <3>2
  <2>3. CASE FinishGivesUp(t) \/ FinishReadFails(t)
    BY <2>0, <2>3, <1>GoneLanes DEF FinishGivesUp, FinishReadFails, pool, sup
  <2>4. CASE FinishCommit(t)
    <3>1. CASE End(t)
      BY <2>0, <2>4, <3>1, <1>GoneLanes DEF FinishCommit, pool
    <3>2. CASE ~End(t)
      <4> DEFINE r == [job[t] EXCEPT !.pc = "sync", !.found = row'[job[t].number]]
      <4>1. job' = [job EXCEPT ![t] = r] /\ Upsert(job[t].number, job[t].id)
        BY <2>4, <3>2 DEF FinishCommit
      <4>2. job[t].pc = "complete" /\ job[t].op = "finish" /\ job[t].number \in Number
            /\ job[t].id \in Id /\ job[t] \in JobType
        BY <2>0, <2>4 DEF FinishCommit, At, Base, JobsOK, JobShape, JobType, TypeOK
      <4>3. row'[job[t].number] \in Id \cup {None}
        BY <2>0, <4>1, <4>2 DEF Upsert, TypeOK
      <4>4. r \in JobType /\ r.op = job[t].op /\ r.pc = "sync" /\ r.child = job[t].child
        BY <4>2, <4>3 DEF JobType
      <4> HIDE DEF r
      <4>5. Moves(t) /\ job'[t] = r
        BY <2>0, <4>1, <4>4, UpdateMoves
      <4>6. job[t].child = FALSE /\ Admitted
        BY <2>0, <4>2 DEF Lanes, Waited, Admitted, JobType
      <4>7. UNCHANGED <<spawned, slots, engine, sessions>>
        BY <2>4 DEF FinishCommit, pool
      <4>8. QED
        BY <2>0, <4>2, <4>4, <4>5, <4>6, <4>7, <1>QuietLanes DEF Waited
    <3>3. QED
      BY <3>1, <3>2
  <2>5. QED
    BY <2>1, <2>2, <2>3, <2>4
<1>CancelLanes.
    ASSUME Base, Lanes, NEW t \in Task, CancelStep(t)
    PROVE  Lanes'
  <2> USE <1>CancelLanes
  <2>0. t \in Jobs
    BY DEF Jobs
  <2>1. CASE \E i \in Id : CancelWait(t, i)
    <3>1. PICK i \in Id : CancelWait(t, i)
      BY <2>1
    <3>2. QED
      BY <2>0, <3>1, <1>BeginLanes DEF CancelWait, Op, Pc, pool
  <2>2. CASE CancelSession(t) /\ End(t)
    BY <2>0, <2>2, <1>GoneLanes DEF CancelSession
  <2>3. CASE CancelSession(t) /\ Goto(t, "discard")
    BY <2>0, <2>3, <1>DiscardLanes DEF CancelSession, At
  <2>4. QED
    BY <2>1, <2>2, <2>3 DEF CancelStep, CancelSession
<1>DiscardStepLanes.
    ASSUME Base, IsFiniteSet(dir), LanesApart, Lanes, NEW t \in Jobs, DiscardStep(t)
    PROVE  Lanes'
  <2> USE <1>DiscardStepLanes
  <2> DEFINE i == job[t].id
  <2>1. CASE RemoveDirectory(t)
    BY <2>1, <1>GoneLanes DEF RemoveDirectory, pool, sup
  <2>2. CASE Discard(t) /\ i \notin slots
    BY <2>2, <1>GoneLanes DEF Discard, sup
  <2>3. CASE Discard(t) /\ i \in slots
    <3> DEFINE r == [job[t] EXCEPT !.pc = "rmdir", !.child = engine[i] = "run"]
    <3>1. /\ job' = [job EXCEPT ![t] = r] /\ slots' = slots \ {i} /\ sessions' = sessions \ {i}
          /\ engine' = [engine EXCEPT ![i] = "none"] /\ UNCHANGED spawned
      BY <2>3 DEF Discard, TakeEngine
    <3>2. TypeOK /\ job[t] \in JobType /\ i \in Id /\ job[t].pc = "discard"
      BY <2>3 DEF Base, TypeOK, Discard, At
    <3>3. r \in JobType /\ r.op = job[t].op /\ r.pc = "rmdir"
      BY <3>2 DEF JobType
    <3> HIDE DEF r
    <3>4. Moves(t) /\ job'[t] = r
      BY <3>1, <3>2, <3>3, UpdateMoves
    <3>5. job[t].op \in {"link", "finish", "cancel", "reap"}
      BY <3>2 DEF Base, JobsOK, JobShape, LanesApart
    <3>6. \A u \in Jobs : job[u].op \notin {"stop", "start"}
      BY <3>5, OneInControl DEF Base, JobsOK, LanesApart, Control
    <3>7. Admitted' => Admitted
      BY <3>1, <3>3, <3>4 DEF Admitted, Moves
    <3>8. Cardinality(slots') <= Cardinality(slots) /\ Cardinality(slots') \in Nat
      BY <3>1, <1>SlotsFinite, FS_Subset, FS_CardinalityType
    <3>9. Admitted' => Cardinality(slots') <= MaxEngines
      <4>1. Admitted' => Cardinality(slots) <= MaxEngines
        BY <3>7 DEF Lanes
      <4>2. QED
        BY SMTT(30), <3>8, <4>1, <1>SlotsFinite, EnginesNat
    <3>10. \A k \in Id : engine'[k] = "run" => k \in slots'
      BY <3>1, <3>2 DEF Lanes, TypeOK
    <3>11. QED
      BY <3>1, <3>3, <3>4, <3>5, <3>6, <3>9, <3>10, <1>LanesStep DEF Waited
  <2>4. QED
    BY <2>1, <2>2, <2>3 DEF DiscardStep
<1>StopSlotLanes.
    ASSUME Base, Lanes, NEW t \in Task, NEW i \in Id, StopSlot(t, i)
    PROVE  Lanes'
  <2> USE <1>StopSlotLanes
  <2> DEFINE r == [job[t] EXCEPT !.id = i, !.todo = job[t].todo \ {i},
                             !.child = (engine[i] = "run")]
  <2>0. t \in Jobs /\ TypeOK /\ job[t].pc = "stop" /\ job[t].op = "stop" /\ job[t] \in JobType
    BY DEF Jobs, Base, StopSlot, JobsOK, JobShape, At, TypeOK
  <2>1. r \in JobType /\ r.op = "stop" /\ r.pc = "stop" /\ r.id = i /\ r.todo = job[t].todo \ {i}
    BY <2>0 DEF JobType
  <2>2. job' = [job EXCEPT ![t] = r]
    BY DEF StopSlot
  <2> HIDE DEF r
  <2>3. Moves(t) /\ job'[t] = r
    BY <2>0, <2>1, <2>2, UpdateMoves
  <2>4. \A u \in Jobs \ {t} : job[u].op \notin {"stop", "start"}
    BY <2>0, OneInControl DEF Control
  <2>5. /\ slots' = slots /\ sessions' = sessions /\ UNCHANGED spawned /\ engine'[i] # "run"
        /\ \A k \in Id : engine'[k] = "run" => engine[k] = "run"
    BY SMTT(30), <2>0 DEF StopSlot, TakeEngine, sup, TypeOK
  <2>6. i \in slots /\ job'[t].todo \subseteq slots
    BY <2>0, <2>1, <2>3 DEF Lanes, StopSlot
  <2>7. Admitted' => Admitted
    BY <2>1, <2>3, <2>5 DEF Admitted, Moves
  <2>8. Admitted' => Cardinality(slots') <= MaxEngines
    BY <2>5, <2>7 DEF Lanes
  <2>9. \A k \in Id : engine'[k] = "run" => k \in slots'
    BY <2>5 DEF Lanes
  <2>10. Waited(t)'
    BY <2>1, <2>3, <2>5, <2>6 DEF Waited
  <2>11. QED
    BY <2>0, <2>3, <2>4, <2>5, <2>6, <2>8, <2>9, <2>10, <1>LanesStep
<1>StartSlotLanes.
    ASSUME Base, Lanes, NEW t \in Task, NEW i \in Id, NEW spawns \in BOOLEAN, StartSlot(t, i, spawns)
    PROVE  Lanes'
  <2> USE <1>StartSlotLanes
  <2> DEFINE r == [job[t] EXCEPT !.todo = @ \ {i}]
  <2>0. t \in Jobs /\ TypeOK /\ job[t].pc = "window" /\ job[t].op = "start" /\ job[t] \in JobType
    BY DEF Jobs, Base, StartSlot, JobsOK, JobShape, At, TypeOK
  <2>1. /\ r \in JobType /\ r.op = "start" /\ r.pc = "window" /\ r.todo = job[t].todo \ {i}
        /\ r.child = job[t].child
    BY <2>0 DEF JobType
  <2>2. job' = [job EXCEPT ![t] = r]
    BY DEF StartSlot
  <2> HIDE DEF r
  <2>3. Moves(t) /\ job'[t] = r
    BY <2>0, <2>1, <2>2, UpdateMoves
  <2>4. \A u \in Jobs \ {t} : job[u].op \notin {"stop", "start"}
    BY <2>0, OneInControl DEF Control
  <2>5. /\ slots' = slots /\ sessions' = sessions /\ UNCHANGED spawned
        /\ \A k \in Id \ {i} : engine'[k] = engine[k]
    BY <2>0 DEF StartSlot, StartEngine, TypeOK
  <2>6. i \in slots /\ job'[t].todo \subseteq slots
    BY <2>0, <2>1, <2>3 DEF Lanes, StartSlot
  <2>7. Admitted' => Admitted
    BY <2>1, <2>3, <2>5 DEF Admitted, Moves
  <2>8. Admitted' => Cardinality(slots') <= MaxEngines
    BY <2>5, <2>7 DEF Lanes
  <2>9. \A k \in Id : engine'[k] = "run" => k \in slots'
    BY <2>5, <2>6 DEF Lanes
  <2>10. Waited(t)'
    BY <2>0, <2>1, <2>3 DEF Waited, Lanes
  <2>11. QED
    BY <2>0, <2>3, <2>4, <2>5, <2>6, <2>8, <2>9, <2>10, <1>LanesStep
<1>RuntimeLanes.
    ASSUME Base, Lanes, NEW t \in Task, RuntimeStep(t)
    PROVE  Lanes'
  <2> USE <1>RuntimeLanes
  <2>0. t \in Jobs /\ TypeOK
    BY DEF Jobs, Base
  <2>1. CASE StopRuntime(t)
    <3> DEFINE r == [NoJob EXCEPT !.op = "stop", !.pc = "stop", !.todo = slots]
    <3>1. job' = [job EXCEPT ![t] = r] /\ UNCHANGED <<spawned, slots, engine, sessions>>
      BY <2>1 DEF StopRuntime, sup
    <3>2. r \in JobType /\ r.pc = "stop" /\ r.todo = slots /\ r.child = FALSE
      BY <2>0 DEF JobType, NoJob, TypeOK
    <3> HIDE DEF r
    <3>3. Moves(t) /\ job'[t] = r
      BY <2>0, <3>1, <3>2, UpdateMoves
    <3>4. QED
      BY <2>0, <3>1, <3>2, <3>3, <1>QuietLanes DEF Waited
  <2>2. CASE StartRuntime(t)
    <3>1. PICK T \in Recent(MaxResident) :
            job' = [job EXCEPT ![t] = [NoJob EXCEPT !.op = "start", !.pc = "window", !.todo = T]]
      BY <2>2 DEF StartRuntime
    <3> DEFINE r == [NoJob EXCEPT !.op = "start", !.pc = "window", !.todo = T]
    <3>2. T \subseteq slots /\ T \subseteq Id
      BY <2>0, RecentSlots, EnginesNat DEF TypeOK
    <3>3. r \in JobType /\ r.pc = "window" /\ r.todo = T /\ r.child = FALSE
      BY <3>2 DEF JobType, NoJob
    <3>4. job' = [job EXCEPT ![t] = r] /\ UNCHANGED <<spawned, slots, engine, sessions>>
      BY <2>2, <3>1 DEF StartRuntime, sup
    <3> HIDE DEF r
    <3>5. Moves(t) /\ job'[t] = r
      BY <2>0, <3>3, <3>4, UpdateMoves
    <3>6. QED
      BY <2>0, <3>2, <3>3, <3>4, <3>5, <1>QuietLanes DEF Waited
  <2>3. CASE StopWaited(t) /\ job[t].child
    <3> DEFINE r == [job[t] EXCEPT !.child = FALSE]
    <3>1. job' = [job EXCEPT ![t] = r] /\ UNCHANGED <<spawned, slots, engine, sessions>>
      BY <2>3 DEF StopWaited, sup, pool
    <3>2. r \in JobType /\ r.pc = job[t].pc /\ r.todo = job[t].todo /\ r.op = job[t].op /\ r.child = FALSE
      <4>1. job[t] \in JobType
        BY <2>0 DEF TypeOK
      <4>2. QED
        BY <4>1 DEF JobType
    <3> HIDE DEF r
    <3>3. Moves(t) /\ job'[t] = r
      BY <2>0, <3>1, <3>2, UpdateMoves
    <3>4. QED
      BY SMTT(30), <2>0, <2>3, <3>1, <3>2, <3>3, <1>QuietLanes DEF Waited, Lanes, StopWaited, At
  <2>4. CASE StopWaited(t) /\ ~job[t].child
    BY <2>0, <2>4, <1>GoneLanes DEF StopWaited, pool, sup
  <2>5. CASE StartDone(t)
    BY <2>0, <2>5, <1>GoneLanes DEF StartDone, pool, sup
  <2>6. CASE \E i \in Id : StopSlot(t, i) \/ \E spawns \in BOOLEAN : StartSlot(t, i, spawns)
    BY <2>6, <1>StopSlotLanes, <1>StartSlotLanes
  <2>7. QED
    BY <2>1, <2>2, <2>3, <2>4, <2>5, <2>6 DEF RuntimeStep
(* Steps of no host operation.                                              *)
<1>PoolLanes.
    ASSUME Base, Lanes, NEW i \in Id,
           \/ Reap(i) \/ AccountsList(i) \/ FinishExpired(i) \/ FinishCeilingFails(i)
           \/ \E n \in Number : EngineLinks(i, n)
    PROVE  Lanes'
  <2> USE <1>PoolLanes
  <2>1. CASE Reap(i)
    BY <2>1, <1>BeginLanes DEF Reap, Jobs, Op, Pc, pool, sup
  <2>2. CASE AccountsList(i) \/ FinishExpired(i) \/ FinishCeilingFails(i)
    BY <2>2, <1>StillLanes DEF AccountsList, FinishExpired, FinishCeilingFails, pool, sup
  <2>3. CASE \E n \in Number : EngineLinks(i, n)
    BY <2>3, <1>StillLanes DEF EngineLinks, pool
  <2>4. QED
    BY <2>1, <2>2, <2>3
<1>EngineExitLanes.
    ASSUME Base, Lanes, NEW i \in Id, EngineExit(i)
    PROVE  Lanes'
  <2> USE <1>EngineExitLanes
  <2>0. TypeOK /\ job' = job /\ UNCHANGED <<slots, sessions, spawned>>
        /\ \A k \in Id : engine'[k] = "run" => engine[k] = "run"
    BY DEF Base, EngineExit, pool, TypeOK
  <2>1. Admitted' = Admitted
    BY <2>0 DEF Admitted
  <2>2. \A t \in Jobs : Waited(t)'
    <3> SUFFICES ASSUME NEW t \in Jobs, job[t].child, job[t].pc # "rmdir" PROVE Waited(t)'
      BY <2>0 DEF Waited
    <3>1. job[t].pc = "stop" /\ job[t].id \in slots /\ job[t].id \in Id /\ engine[job[t].id] # "run"
      BY <2>0 DEF Lanes, Waited, TypeOK
    <3>2. QED
      BY <2>0, <3>1 DEF Waited
  <2>3. QED
    BY <2>0, <2>1, <2>2 DEF Lanes, spawned
<1>WindowLanes.
    ASSUME Base, Lanes, NEW i \in Id, WindowStep(i)
    PROVE  Lanes'
  <2>1. windows = {} /\ demoting = {} /\ ebb[i] = 0
    BY <1>WindowLanes DEF Lanes
  <2>2. DemotedExits(i)
    BY <1>WindowLanes, <2>1 DEF WindowStep, WindowTask, DemoteShutdown
  <2>3. 0 > 0
    BY <2>1, <2>2 DEF DemotedExits
  <2>4. QED
    BY SMTT(30), <2>3
<1>RestartLanes.
    ASSUME Base, Restart
    PROVE  Lanes'
  <2> USE <1>RestartLanes
  <2>1. \A t \in Jobs : job'[t].pc = "none" /\ job'[t].op = "none" /\ job'[t].child = FALSE
    BY DEF Restart, NoJob
  <2>2. QED
    BY <2>1 DEF Restart, Lanes, Admitted, Waited
<1>InitLanes. Init => Lanes
  <2> SUFFICES ASSUME Init PROVE Lanes
    OBVIOUS
  <2>1. \A t \in Jobs : job[t].pc = "none" /\ job[t].op = "none" /\ job[t].child = FALSE
    BY DEF Init, NoJob
  <2>2. QED
    BY <2>1 DEF Init, Lanes, Admitted, Waited
<1>NextLanes.
    ASSUME Base, IsFiniteSet(dir), LanesApart, Lanes, Next
    PROVE  Lanes'
  <2> USE <1>NextLanes
  <2>1. ASSUME NEW t \in Task, LinkStep(t) PROVE Lanes'
    <3>1. CASE LinkMintFails(t)
      BY <3>1, <1>DiscardLanes DEF LinkMintFails, pool, sup, At, Jobs
    <3>2. QED
      BY <2>1, <3>1, <1>ProvisionSlotLanes, <1>LinkStartEngineLanes, <1>LinkMintLanes DEF LinkStep
  <2>2. ASSUME NEW t \in Task, FinishStep(t) PROVE Lanes'
    BY <2>2, <1>FinishLanes, <1>FinishMarkLanes DEF FinishStep
  <2>3. ASSUME NEW t \in Task, CancelStep(t) \/ RuntimeStep(t) PROVE Lanes'
    BY <2>3, <1>CancelLanes, <1>RuntimeLanes
  <2>4. ASSUME NEW t \in Task, RequestStep(t) PROVE Lanes'
    <3>1. ~(Wake(t) \/ PrepareDelete(t) \/ Forget(t))
      BY <1>NotAddressed DEF Wake, PrepareDelete, Forget, At, Jobs
    <3>2. \A spawns \in BOOLEAN : ~Launch(t, spawns) /\ ~Erase(t, spawns)
      BY <1>NotAddressed DEF Launch, Erase, At, Jobs
    <3>3. \A i \in Id : ~Request(t, i) /\ ~DeleteAccount(t, i)
      BY DEF Request, DeleteAccount, Begin, LanesApart
    <3>4. QED
      BY <2>4, <3>1, <3>2, <3>3 DEF RequestStep
  <2>5. ASSUME NEW t \in Jobs, DiscardStep(t) PROVE Lanes'
    BY <2>5, <1>DiscardStepLanes
  <2>6. ASSUME NEW i \in Id, WindowStep(i) \/ EngineExit(i) PROVE Lanes'
    BY <2>6, <1>WindowLanes, <1>EngineExitLanes
  <2>7. ASSUME NEW i \in Id, Reap(i) \/ AccountsList(i) \/ FinishExpired(i)
                              \/ FinishCeilingFails(i) \/ \E n \in Number : EngineLinks(i, n)
        PROVE Lanes'
    BY <2>7, <1>PoolLanes
  <2>8. CASE Tick
    BY <2>8, <1>StillLanes DEF Tick
  <2>9. QED
    BY <2>1, <2>2, <2>3, <2>4, <2>5, <2>6, <2>7, <2>8, <1>RestartLanes DEF Next
<1>StutterLanes.
    ASSUME Base, Lanes, UNCHANGED vars
    PROVE  Lanes'
  BY <1>StutterLanes, <1>StillLanes DEF vars, pool, sup
<1>1. Init => LanesInv
  BY <1>InitLanes DEF LanesInv
<1>2. Base /\ DirFinite /\ LanesInv /\ [Next]_vars => LanesInv'
  <2> SUFFICES ASSUME Base, IsFiniteSet(dir), LanesInv, [Next]_vars, LanesApart' PROVE Lanes'
    BY DEF LanesInv, DirFinite
  <2>1. LanesApart
    BY OpsStay DEF LanesApart
  <2>2. QED
    BY <2>1, <1>NextLanes, <1>StutterLanes DEF LanesInv
<1>3. QED
  BY <1>1, <1>2, PoolBase, DirectoriesFinite, PTL DEF Spec

(* OneEngine (pool.rs, I1/I2): where the lanes keep the operations apart,   *)
(* no account ever has two engine processes, counting the one being waited  *)
(* for after it was taken out of its slot.                                  *)
THEOREM AtMostOneEngine == Spec => []OneEngine
(* Two jobs never wait for a process of the same slot.                      *)
<1>OneWaits.
    ASSUME Base, Lanes, NEW t \in Jobs, NEW u \in Jobs,
           job[t].child, job[u].child, job[t].id = job[u].id
    PROVE  t = u
  <2> USE <1>OneWaits
  <2>1. CASE job[t].pc = "rmdir" \/ job[u].pc = "rmdir"
    BY <2>1 DEF Lanes, Waited, Base, Removing
  <2>2. CASE job[t].pc = "stop" /\ job[u].pc = "stop"
    <3>1. job[t].op = "stop" /\ job[u].op = "stop"
      BY <2>2 DEF Base, JobsOK, JobShape
    <3>2. QED
      BY <3>1, OneInControl DEF Control
  <2>3. QED
    BY <2>1, <2>2 DEF Lanes, Waited
<1>1. Base /\ LanesInv => OneEngine
  <2> SUFFICES ASSUME Base, LanesInv, LanesApart, NEW i \in Id PROVE Processes(i) <= 1
    BY DEF OneEngine
  <2> DEFINE W == {t \in Jobs : job[t].child /\ job[t].id = i}
  <2>0. Lanes /\ ebb[i] = 0
    BY DEF LanesInv, Lanes
  <2>1. CASE W = {}
    <3>1. Cardinality(W) = 0
      BY <2>1, FS_EmptySet
    <3>2. QED
      BY SMTT(30), <2>0, <3>1 DEF Processes, Bit
  <2>2. CASE W # {}
    <3>1. PICK t \in Jobs : job[t].child /\ job[t].id = i
      BY <2>2
    <3>2. W = {t}
      BY <2>0, <3>1, <1>OneWaits
    <3>3. Cardinality(W) = 1
      BY <3>2, FS_Singleton
    <3>4. engine[i] # "run"
      BY <2>0, <3>1 DEF Lanes, Waited, Base, Removing
    <3>5. QED
      BY SMTT(30), <2>0, <3>3, <3>4 DEF Processes, Bit
  <2>3. QED
    BY <2>1, <2>2
<1>2. QED
  BY <1>1, PoolBase, PoolLanesApart, PTL

(* EngineHasDirectory (pool.rs, I5): there, a slot's directory goes only    *)
(* after every process on it has.                                           *)
THEOREM EngineNeverWithoutDirectory == Spec => []EngineHasDirectory
<1>1. Base /\ LanesInv => EngineHasDirectory
  <2> SUFFICES ASSUME Base, LanesInv, LanesApart, NEW i \in Id \ dir PROVE Processes(i) = 0
    BY DEF EngineHasDirectory
  <2> DEFINE W == {t \in Jobs : job[t].child /\ job[t].id = i}
  <2>0. Lanes /\ ebb[i] = 0 /\ i \notin slots /\ engine[i] # "run"
    BY DEF LanesInv, Lanes, Base, TypeOK
  <2>1. W = {}
    BY SMTT(30), <2>0 DEF Lanes, Waited, Base, Removing
  <2>2. Cardinality(W) = 0
    BY <2>1, FS_EmptySet
  <2>3. QED
    BY SMTT(30), <2>0, <2>2 DEF Processes, Bit
<1>2. QED
  BY <1>1, PoolBase, PoolLanesApart, PTL

=============================================================================
