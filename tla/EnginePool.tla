----------------------------- MODULE EnginePool -----------------------------
(***************************************************************************)
(* The pool of per-account engines: slots, their data directories and      *)
(* sidecars (pool.rs), the operations of the registry that open, commit,   *)
(* cancel, reap and delete them (registry.rs), the engine slot and the     *)
(* link session of each account's supervisor (supervisor.rs, service.rs).  *)
(*                                                                         *)
(* An operation is a job whose program counter stands at its await points. *)
(* A slot has at most one link session, since link.start always opens a    *)
(* new slot: the account id stands for the session id as well.             *)
(* Every directory lock is taken to be held by this process.               *)
(***************************************************************************)
EXTENDS Integers, FiniteSets, FiniteSetsExt

CONSTANTS
    Id,           \* account ids random_id may mint
    Number,       \* phone numbers
    None,         \* no id, no number
    Task,         \* concurrent host dispatches
    Reaper,       \* the link reaper's own task
    MaxEngines, MaxResident,
    LinkTtl,      \* life of a link session, in clock ticks
    AbandonTtl,   \* idle time after which an uncommitted slot is reclaimed
    DemoteIdle,   \* idle time after which a resident slot may be demoted
    MaxEbb,       \* bound: processes of one account being demoted at once
    OpSets        \* the sets of operations and faults a behaviour may mix

(* The registry operations, and the faults: an engine exits, the connector *)
(* crashes, a store read fails in link.finish.                             *)
Operation == {"link", "finish", "cancel", "reap", "list", "request", "delete",
              "stop", "start", "exit", "crash", "fault"}

ASSUME PoolAssumption ==
    /\ None \notin Id \cup Number
    /\ Reaper \notin Task
    /\ MaxEngines \in Nat \ {0}
    /\ MaxResident \in 1 .. MaxEngines
    /\ DemoteIdle \in 1 .. AbandonTtl
    /\ LinkTtl \in Nat \ {0}
    /\ AbandonTtl \in Nat \ {0}
    /\ MaxEbb \in Nat \ {0}
    /\ OpSets \subseteq SUBSET Operation

VARIABLES
    ops,          \* the operations and faults of this behaviour
    dir,          \* data directories on disk
    sidecar,      \* provisioning sidecar: "none", "open" or "done"
    reg,          \* number in the engine's own registry, in the directory
    row,          \* store rows: number -> account id
    ledger,       \* account_delete_operations: "none", "started", "completed"
    minted,       \* ids already used
    slots,
    provisioned,  \* slots whose account is committed
    resident,     \* slots of the resident window
    idle,         \* time since a slot was last used
    sessions,     \* routing of link sessions to slots
    running,      \* runtime.start was called last, not runtime.stop
    link,         \* service.link: -1 none, 0 expired, else ticks left
    finishing,    \* supervisor.active_link_finish
    asked,        \* engines holding an unanswered finishLink
    engine,       \* supervisor.engine: "none", "run" or "dead"
    tasks,        \* slots whose background tasks are alive
    job,
    windows,      \* spawned window tasks, by the slot each keeps
    demoting,     \* spawned demotion shutdowns that have not run yet
    ebb           \* processes those shutdowns took and wait for

disk == <<dir, sidecar, reg, row, ledger, minted>>
pool == <<slots, provisioned, resident, idle, sessions, running>>
sup == <<link, finishing, asked, engine, tasks>>
spawned == <<windows, demoting, ebb>>
vars == <<ops, disk, pool, sup, job, spawned>>

Jobs == Task \cup {Reaper}

(* Mutant: runtime.stop leaves the control lane.                           *)
MutControl == {"link", "cancel", "start", "list"}

(* The unscoped control lane has one permit: these exclude each other.     *)
Control == {"link", "cancel", "start", "stop", "list"}

NoJob == [op |-> "none", id |-> None, pc |-> "none", child |-> FALSE,
          number |-> None, found |-> None, todo |-> {}]

Init ==
    /\ ops \in OpSets
    /\ dir = {} /\ sidecar = [i \in Id |-> "none"]
    /\ reg = [i \in Id |-> None] /\ row = [n \in Number |-> None]
    /\ ledger = [i \in Id |-> "none"] /\ minted = {}
    /\ slots = {} /\ provisioned = {} /\ resident = {}
    /\ idle = [i \in Id |-> 0] /\ sessions = {} /\ running = TRUE
    /\ link = [i \in Id |-> -1] /\ finishing = {} /\ asked = {}
    /\ engine = [i \in Id |-> "none"] /\ tasks = {}
    /\ job = [t \in Jobs |-> NoJob]
    /\ windows = {} /\ demoting = {} /\ ebb = [i \in Id |-> 0]

ControlFree == \A t \in Task : job[t].op \notin Control

Begin(t, op, i, pc) ==
    /\ op \in ops
    /\ job[t] = NoJob
    /\ job' = [job EXCEPT ![t] = [NoJob EXCEPT !.op = op, !.id = i, !.pc = pc]]

At(t, pc) == job[t].pc = pc
Goto(t, pc) == job' = [job EXCEPT ![t].pc = pc]
End(t) == job' = [job EXCEPT ![t] = NoJob]

Committed == {row[n] : n \in Number} \ {None}

(* unfinished_account_delete_state of the row a number has.               *)
UnfinishedDelete(n) == row[n] # None /\ ledger[row[n]] = "started"

(* RuntimeSupervisor::start: an engine that is not terminal stays, else a  *)
(* process is spawned under the slot's lock. spawns is FALSE on StartFailed.*)
StartEngine(i, spawns) ==
    engine' = [engine EXCEPT ![i] = IF @ = "run" \/ spawns THEN "run" ELSE @]

(* Mutant: the process stays in the slot.                                  *)
MutTakeEngine(i) ==
    /\ link' = [link EXCEPT ![i] = -1]
    /\ finishing' = finishing \ {i}
    /\ UNCHANGED <<engine, asked>>

(* What stop and shutdown_within leave of an account: the engine is taken  *)
(* out of its slot, the link session and the finish lane are cleared.      *)
TakeEngine(i) ==
    /\ engine' = [engine EXCEPT ![i] = "none"]
    /\ link' = [link EXCEPT ![i] = -1]
    /\ finishing' = finishing \ {i}
    /\ asked' = asked \ {i}

(* enforce_window with the slot it must keep.                              *)
EnforceWindow(res, keep) ==
    windows' = IF Cardinality(res \cap slots) > MaxResident
                 THEN windows \cup {keep} ELSE windows

(* touch, set_resident(true), enforce_window.                              *)
NoteActivity(i) ==
    /\ idle' = [idle EXCEPT ![i] = 0]
    /\ resident' = resident \cup {i}
    /\ EnforceWindow(resident \cup {i}, i)

(* Mutant: the preferred id overwrites a known number's row.               *)
MutUpsert(n, i) == row' = [row EXCEPT ![n] = i]

(* upsert_account_from_signal_with_id: a known number keeps its row.       *)
Upsert(n, i) == row' = [row EXCEPT ![n] = IF @ = None THEN i ELSE @]

-----------------------------------------------------------------------------
(* link.start                                                              *)

(* at_capacity, checked under the table's write lock.                      *)
Room == Cardinality(slots) < MaxEngines

(* The admission and provision_slot.                                       *)
ProvisionSlot(t, i) ==
    /\ running
    /\ ControlFree
    /\ Room
    /\ i \notin minted
    /\ Begin(t, "link", i, "start")
    /\ minted' = minted \cup {i}
    /\ dir' = dir \cup {i}
    /\ sidecar' = [sidecar EXCEPT ![i] = "open"]
    /\ slots' = slots \cup {i}
    /\ idle' = [idle EXCEPT ![i] = 0]
    /\ tasks' = tasks \cup {i}
    /\ UNCHANGED <<ops, reg, row, ledger, provisioned, resident, sessions, running,
                   link, finishing, asked, engine, spawned>>

LinkStartEngine(t, spawns) ==
    /\ At(t, "start") /\ job[t].op = "link"
    /\ StartEngine(job[t].id, spawns)
    /\ Goto(t, IF engine'[job[t].id] = "run" THEN "mint" ELSE "discard")
    /\ UNCHANGED <<ops, disk, pool, link, finishing, asked, tasks, spawned>>

(* supervisor.start_link: the engine mints the QR, begin_link opens the    *)
(* session; on any error the slot is rolled back.                          *)
LinkMint(t) ==
    LET i == job[t].id IN
    /\ At(t, "mint")
    /\ engine[i] = "run"
    /\ link' = [link EXCEPT ![i] = LinkTtl]
    /\ sessions' = sessions \cup {i}
    /\ NoteActivity(i)
    /\ End(t)
    /\ UNCHANGED <<ops, disk, slots, provisioned, running, finishing, asked,
                   engine, tasks, demoting, ebb>>

LinkMintFails(t) ==
    /\ At(t, "mint")
    /\ Goto(t, "discard")
    /\ UNCHANGED <<ops, disk, pool, sup, spawned>>

-----------------------------------------------------------------------------
(* link.finish; the host admits one per proxy group                        *)

FinishFree == \A t \in Task : job[t].op # "finish"

FinishLink(t, i) ==
    /\ FinishFree
    /\ i \in sessions \cap slots
    /\ engine[i] = "run"
    /\ i \notin finishing
    /\ link[i] > 0
    /\ Begin(t, "finish", i, "wait")
    /\ finishing' = finishing \cup {i}
    /\ asked' = IF reg[i] = None THEN asked \cup {i} ELSE asked
    /\ UNCHANGED <<ops, disk, pool, link, engine, tasks, spawned>>

(* peek_link_for_finish on an expired session clears it and fails.         *)
FinishExpired(i) ==
    /\ "finish" \in ops
    /\ FinishFree
    /\ i \in sessions \cap slots
    /\ engine[i] = "run"
    /\ i \notin finishing
    /\ link[i] = 0
    /\ link' = [link EXCEPT ![i] = -1]
    /\ UNCHANGED <<ops, disk, pool, finishing, asked, engine, tasks, job, spawned>>

(* The store fails under the ceiling check: the error leaves through `?`   *)
(* and nobody clears the finish lane.                                      *)
FinishCeilingFails(i) ==
    /\ "fault" \in ops
    /\ "finish" \in ops
    /\ FinishFree
    /\ i \in sessions \cap slots
    /\ engine[i] = "run"
    /\ i \notin finishing
    /\ link[i] > 0
    /\ finishing' = finishing \cup {i}
    /\ UNCHANGED <<ops, disk, pool, link, asked, engine, tasks, job, spawned>>

(* External: the phone approves and the engine writes its own registry.    *)
EngineLinks(i, n) ==
    /\ i \in asked
    /\ engine[i] = "run"
    /\ reg[i] = None
    /\ reg' = [reg EXCEPT ![i] = n]
    /\ asked' = asked \ {i}
    /\ UNCHANGED <<ops, dir, sidecar, row, ledger, minted, pool, link, finishing, engine,
                   tasks, job, spawned>>

(* The engine answered; clear_link_finish tells whether the wait is still  *)
(* this session's.                                                         *)
FinishAnswered(t) ==
    LET i == job[t].id IN
    /\ At(t, "wait")
    /\ reg[i] # None
    /\ finishing' = finishing \ {i}
    /\ IF i \in finishing
         THEN job' = [job EXCEPT ![t] = [@ EXCEPT !.pc = "complete", !.number = reg[i]]]
         ELSE End(t)
    /\ UNCHANGED <<ops, disk, pool, link, asked, engine, tasks, spawned>>

(* Timeout, cancellation, or the engine is gone.                           *)
FinishGivesUp(t) ==
    LET i == job[t].id IN
    /\ At(t, "wait")
    /\ finishing' = finishing \ {i}
    /\ End(t)
    /\ UNCHANGED <<ops, disk, pool, link, asked, engine, tasks, spawned>>

(* complete_link_session_with_id.                                          *)
FinishCommit(t) ==
    LET i == job[t].id
        number == job[t].number
    IN
    /\ At(t, "complete")
    /\ link' = [link EXCEPT ![i] = -1]
    /\ IF link[i] > 0 /\ ~UnfinishedDelete(number)
         THEN /\ Upsert(number, i)
              /\ job' = [job EXCEPT ![t] = [@ EXCEPT !.pc = "sync", !.found = row'[number]]]
         ELSE /\ row' = row
              /\ End(t)
    /\ UNCHANGED <<ops, dir, sidecar, reg, ledger, minted, pool, finishing, asked,
                   engine, tasks, spawned>>

(* After the initial contacts sync: the registry marks the slot committed, *)
(* or rolls it back when the number belongs to another account.            *)
FinishMark(t) ==
    LET i == job[t].id IN
    /\ At(t, "sync")
    /\ sessions' = sessions \ {i}
    /\ IF job[t].found = i
         THEN /\ provisioned' = provisioned \cup {i}
              /\ sidecar' = [sidecar EXCEPT ![i] = "done"]
              /\ NoteActivity(i)
              /\ End(t)
         ELSE /\ Goto(t, "discard")
              /\ UNCHANGED <<provisioned, sidecar, idle, resident, windows>>
    /\ UNCHANGED <<ops, dir, reg, row, ledger, minted, slots, running, sup, demoting, ebb>>

(* The store fails when finish_link reads the committed row back.          *)
FinishReadFails(t) ==
    /\ "fault" \in ops
    /\ At(t, "sync")
    /\ End(t)
    /\ UNCHANGED <<ops, disk, pool, sup, spawned>>

-----------------------------------------------------------------------------
(* link.cancel, the reaper, and discard                                    *)

CancelWait(t, i) ==
    /\ ControlFree
    /\ i \in sessions \cap slots
    /\ Begin(t, "cancel", i, "cancel")
    /\ finishing' = finishing \ {i}
    /\ UNCHANGED <<ops, disk, pool, link, asked, engine, tasks, spawned>>

CancelSession(t) ==
    LET i == job[t].id IN
    /\ At(t, "cancel")
    /\ link' = [link EXCEPT ![i] = -1]
    /\ sessions' = sessions \ {i}
    /\ IF i \in provisioned THEN End(t) ELSE Goto(t, "discard")
    /\ UNCHANGED <<ops, disk, slots, provisioned, resident, idle, running,
                   finishing, asked, engine, tasks, spawned>>

(* Mutant: only a session seen to expire makes a slot abandoned.           *)
MutAbandoned(i) == i \in slots \ provisioned /\ idle[i] = AbandonTtl /\ link[i] = 0

Abandoned(i) ==
    /\ i \in slots \ provisioned
    /\ idle[i] = AbandonTtl
    /\ link[i] <= 0

Reap(i) ==
    /\ Abandoned(i)
    /\ Begin(Reaper, "reap", i, "discard")
    /\ UNCHANGED <<ops, disk, pool, sup, spawned>>

(* discard up to the await of the engine's exit.                           *)
Discard(t) ==
    LET i == job[t].id IN
    /\ At(t, "discard")
    /\ IF i \in slots
         THEN /\ slots' = slots \ {i}
              /\ sessions' = sessions \ {i}
              /\ resident' = resident \ {i}
              /\ tasks' = tasks \ {i}
              /\ TakeEngine(i)
              /\ job' = [job EXCEPT ![t] = [@ EXCEPT !.pc = "rmdir",
                                                     !.child = engine[i] = "run"]]
         ELSE /\ End(t)
              /\ UNCHANGED <<slots, sessions, resident, sup>>
    /\ UNCHANGED <<ops, disk, provisioned, idle, running, spawned>>

(* The engine has exited: remove_slot_directory.                           *)
RemoveDirectory(t) ==
    LET i == job[t].id IN
    /\ At(t, "rmdir")
    /\ dir' = dir \ {i}
    /\ sidecar' = [sidecar EXCEPT ![i] = "none"]
    /\ reg' = [reg EXCEPT ![i] = None]
    /\ End(t)
    /\ UNCHANGED <<ops, row, ledger, minted, pool, sup, spawned>>

-----------------------------------------------------------------------------
(* Account-addressed requests and accounts.deleteLocalData                 *)

(* slot_for_account finds the slot; the job keeps it whatever happens to   *)
(* the table meanwhile.                                                    *)
Request(t, i) ==
    /\ i \in slots \cap Committed
    /\ running
    /\ Begin(t, "request", i, "wake")
    /\ UNCHANGED <<ops, disk, pool, sup, spawned>>

DeleteAccount(t, i) ==
    /\ i \in slots
    /\ i \in Committed \/ ledger[i] # "none"
    /\ \A u \in Task : ~(job[u].op = "delete" /\ job[u].id = i)
    /\ Begin(t, "delete", i, IF running THEN "wake" ELSE "prepare")
    /\ UNCHANGED <<ops, disk, pool, sup, spawned>>

Woken(t) == IF job[t].op = "delete" THEN Goto(t, "prepare") ELSE End(t)

(* ensure_resident up to its wake lock.                                    *)
Wake(t) ==
    LET i == job[t].id IN
    /\ At(t, "wake")
    /\ idle' = [idle EXCEPT ![i] = 0]
    /\ IF engine[i] = "run"
         THEN resident' = resident \cup {i} /\ Woken(t)
         ELSE resident' = resident /\ Goto(t, "launch")
    /\ UNCHANGED <<ops, disk, slots, provisioned, sessions, running, sup, spawned>>

Launch(t, spawns) ==
    LET i == job[t].id IN
    /\ At(t, "launch")
    /\ StartEngine(i, spawns)
    /\ IF engine'[i] = "run"
         THEN /\ resident' = resident \cup {i}
              /\ EnforceWindow(resident \cup {i}, i)
              /\ Woken(t)
         ELSE /\ End(t)
              /\ UNCHANGED <<resident, windows>>
    /\ UNCHANGED <<ops, disk, slots, provisioned, idle, sessions, running, link,
                   finishing, asked, tasks, demoting, ebb>>

(* prepare_account_delete: without a row the operation is complete at once *)
(* and the registry discards the slot.                                     *)
PrepareDelete(t) ==
    LET i == job[t].id IN
    /\ At(t, "prepare")
    /\ IF i \in Committed
         THEN ledger' = [ledger EXCEPT ![i] = "started"] /\ Goto(t, "erase")
         ELSE ledger' = [ledger EXCEPT ![i] = "completed"] /\ Goto(t, "discard")
    /\ UNCHANGED <<ops, dir, sidecar, reg, row, minted, pool, sup, spawned>>

(* deleteLocalAccountData; a failure or an unknown outcome keeps the row,  *)
(* whatever the engine did.                                                *)
Erase(t, answered) ==
    LET i == job[t].id IN
    /\ At(t, "erase")
    /\ \/ engine[i] = "run" /\ reg' = [reg EXCEPT ![i] = None]
       \/ ~answered /\ reg' = reg
    /\ IF answered THEN Goto(t, "forget") ELSE End(t)
    /\ UNCHANGED <<ops, dir, sidecar, row, ledger, minted, pool, sup, spawned>>

(* Mutant: the slot is discarded with the row still there.                 *)
MutForget(t) ==
    /\ At(t, "forget")
    /\ Goto(t, "discard")
    /\ UNCHANGED <<ops, disk, pool, sup, spawned>>

(* complete_account_delete, then the registry discards the slot.           *)
Forget(t) ==
    /\ At(t, "forget")
    /\ row' = [n \in Number |-> IF row[n] = job[t].id THEN None ELSE row[n]]
    /\ ledger' = [ledger EXCEPT ![job[t].id] = "completed"]
    /\ Goto(t, "discard")
    /\ UNCHANGED <<ops, dir, sidecar, reg, minted, pool, sup, spawned>>

(* accounts.list (and an ingested message) adopts the number an engine     *)
(* reports, under the slot's own id.                                       *)
AccountsList(i) ==
    /\ "list" \in ops
    /\ ControlFree
    /\ i \in slots
    /\ engine[i] = "run"
    /\ reg[i] # None
    /\ ~UnfinishedDelete(reg[i])
    /\ Upsert(reg[i], i)
    /\ UNCHANGED <<ops, dir, sidecar, reg, ledger, minted, pool, sup, job, spawned>>

-----------------------------------------------------------------------------
(* runtime.stop and runtime.start                                          *)

StopRuntime(t) ==
    /\ ControlFree
    /\ "stop" \in ops /\ job[t] = NoJob
    /\ running' = FALSE
    /\ job' = [job EXCEPT ![t] = [NoJob EXCEPT !.op = "stop", !.pc = "stop",
                                               !.todo = slots]]
    /\ UNCHANGED <<ops, disk, slots, provisioned, resident, idle, sessions, sup,
                   spawned>>

(* One slot leaves the window and its supervisor stops; one without an     *)
(* engine answers NotRunning and keeps its link session.                   *)
StopSlot(t, i) ==
    /\ At(t, "stop")
    /\ ~job[t].child
    /\ i \in job[t].todo
    /\ job' = [job EXCEPT ![t] = [@ EXCEPT !.id = i, !.todo = job[t].todo \ {i},
                                           !.child = (engine[i] = "run")]]
    /\ IF engine[i] = "none" THEN UNCHANGED sup
       ELSE TakeEngine(i) /\ UNCHANGED tasks
    /\ resident' = resident \ {i}
    /\ UNCHANGED <<ops, disk, slots, provisioned, idle, sessions, running, spawned>>

StopWaited(t) ==
    /\ At(t, "stop")
    /\ IF job[t].child THEN job' = [job EXCEPT ![t].child = FALSE]
       ELSE job[t].todo = {} /\ End(t)
    /\ UNCHANGED <<ops, disk, pool, sup, spawned>>

(* The most recently used of the registered slots, k of them.              *)
Recent(k) ==
    {T \in kSubset(IF Cardinality(slots) < k THEN Cardinality(slots) ELSE k,
                   slots) :
        \A i \in T, j \in slots \ T : idle[i] <= idle[j]}

StartRuntime(t) ==
    /\ ControlFree
    /\ "start" \in ops /\ job[t] = NoJob
    /\ running' = TRUE
    /\ \E T \in Recent(MaxResident) :
         job' = [job EXCEPT ![t] = [NoJob EXCEPT !.op = "start", !.pc = "window",
                                                 !.todo = T]]
    /\ UNCHANGED <<ops, disk, slots, provisioned, resident, idle, sessions, sup,
                   spawned>>

StartSlot(t, i, spawns) ==
    /\ At(t, "window")
    /\ i \in job[t].todo
    /\ job' = [job EXCEPT ![t].todo = @ \ {i}]
    /\ StartEngine(i, spawns)
    /\ resident' = IF engine'[i] = "run" THEN resident \cup {i} ELSE resident
    /\ UNCHANGED <<ops, disk, slots, provisioned, idle, sessions, running, link,
                   finishing, asked, tasks, spawned>>

StartDone(t) ==
    /\ At(t, "window")
    /\ job[t].todo = {}
    /\ End(t)
    /\ UNCHANGED <<ops, disk, pool, sup, spawned>>

-----------------------------------------------------------------------------
(* The demotion of idle slots, spawned by enforce_window                   *)

(* The victims a window task picks: idle long enough, least recent first,  *)
(* no more than the excess.                                                *)
Victims(keep) ==
    LET excess == Cardinality(resident \cap slots) - MaxResident
        able == {i \in (resident \cap slots) \ {keep} : idle[i] >= DemoteIdle}
        k == IF excess < 0 THEN 0
             ELSE IF Cardinality(able) < excess THEN Cardinality(able)
             ELSE excess
    IN {V \in kSubset(k, able) :
          \A i \in V, j \in able \ V : idle[i] >= idle[j]}

WindowTask(keep) ==
    /\ keep \in windows
    /\ windows' = windows \ {keep}
    /\ \E V \in Victims(keep) :
         /\ resident' = resident \ V
         /\ tasks' = tasks \ V
         /\ demoting' = demoting \cup V
    /\ UNCHANGED <<ops, disk, slots, provisioned, idle, sessions, running, link,
                   finishing, asked, engine, job, ebb>>

DemoteShutdown(i) ==
    /\ i \in demoting
    /\ ebb[i] < MaxEbb
    /\ demoting' = demoting \ {i}
    /\ ebb' = [ebb EXCEPT ![i] = @ + IF engine[i] = "run" THEN 1 ELSE 0]
    /\ TakeEngine(i)
    /\ UNCHANGED <<ops, disk, pool, tasks, job, windows>>

DemotedExits(i) ==
    /\ ebb[i] > 0
    /\ ebb' = [ebb EXCEPT ![i] = @ - 1]
    /\ UNCHANGED <<ops, disk, pool, sup, job, windows, demoting>>

-----------------------------------------------------------------------------
(* Faults and time                                                         *)

EngineExit(i) ==
    /\ "exit" \in ops
    /\ engine[i] = "run"
    /\ engine' = [engine EXCEPT ![i] = "dead"]
    /\ asked' = asked \ {i}
    /\ UNCHANGED <<ops, disk, pool, link, finishing, tasks, job, spawned>>

(* discover rebuilds the table from the directories, idle from their       *)
(* modification time.                                                      *)
Discover ==
    /\ slots' = dir
    /\ provisioned' = {i \in dir : sidecar[i] = "done" \/ i \in Committed}
    /\ \E fresh \in BOOLEAN :
         idle' = [i \in Id |-> IF fresh \/ i \notin dir THEN 0 ELSE AbandonTtl]

(* The connector dies with its engines and comes back.                     *)
Restart ==
    /\ "crash" \in ops
    /\ Discover
    /\ resident' = {} /\ sessions' = {} /\ running' = FALSE
    /\ link' = [i \in Id |-> -1] /\ finishing' = {} /\ asked' = {}
    /\ engine' = [i \in Id |-> "none"] /\ tasks' = dir
    /\ job' = [t \in Jobs |-> NoJob]
    /\ windows' = {} /\ demoting' = {} /\ ebb' = [i \in Id |-> 0]
    /\ UNCHANGED <<ops, disk>>

(* A tick is minutes: the bounded seconds of a link.start or of an         *)
(* engine's exit do not reach one.                                         *)
Tick ==
    /\ \A t \in Jobs : job[t].op # "link" /\ ~job[t].child
    /\ \A i \in Id : ebb[i] = 0
    /\ idle' = [i \in Id |-> IF i \in slots /\ idle[i] < AbandonTtl
                               THEN idle[i] + 1 ELSE idle[i]]
    /\ link' = [i \in Id |-> IF link[i] > 0 THEN link[i] - 1 ELSE link[i]]
    /\ UNCHANGED <<ops, disk, slots, provisioned, resident, sessions, running,
                   finishing, asked, engine, tasks, job, spawned>>

-----------------------------------------------------------------------------
LinkStep(t) ==
    \/ \E i \in Id : ProvisionSlot(t, i)
    \/ \E spawns \in BOOLEAN : LinkStartEngine(t, spawns)
    \/ LinkMint(t)
    \/ LinkMintFails(t)

FinishStep(t) ==
    \/ \E i \in Id : FinishLink(t, i)
    \/ FinishAnswered(t) \/ FinishGivesUp(t)
    \/ FinishCommit(t) \/ FinishMark(t) \/ FinishReadFails(t)

CancelStep(t) == (\E i \in Id : CancelWait(t, i)) \/ CancelSession(t)

DiscardStep(t) == Discard(t) \/ RemoveDirectory(t)

RequestStep(t) ==
    \/ \E i \in Id : Request(t, i) \/ DeleteAccount(t, i)
    \/ Wake(t) \/ PrepareDelete(t)
    \/ \E spawns \in BOOLEAN : Launch(t, spawns) \/ Erase(t, spawns)
    \/ Forget(t)

RuntimeStep(t) ==
    \/ StopRuntime(t) \/ StopWaited(t) \/ StartRuntime(t) \/ StartDone(t)
    \/ \E i \in Id : StopSlot(t, i) \/ \E spawns \in BOOLEAN : StartSlot(t, i, spawns)

WindowStep(i) == WindowTask(i) \/ DemoteShutdown(i) \/ DemotedExits(i)

Next ==
    \/ \E t \in Task : \/ LinkStep(t) \/ FinishStep(t) \/ CancelStep(t)
                       \/ RequestStep(t) \/ RuntimeStep(t)
    \/ \E t \in Jobs : DiscardStep(t)
    \/ \E i \in Id : \/ Reap(i) \/ AccountsList(i) \/ WindowStep(i)
                     \/ EngineExit(i) \/ FinishExpired(i)
                     \/ FinishCeilingFails(i)
                     \/ \E n \in Number : EngineLinks(i, n)
    \/ Restart
    \/ Tick

Spec == Init /\ [][Next]_vars

-----------------------------------------------------------------------------
(* Properties                                                              *)

JobType ==
    [op : {"none", "link", "finish", "cancel", "reap", "request", "delete",
           "stop", "start"},
     id : Id \cup {None},
     pc : {"none", "start", "mint", "wait", "complete", "sync", "cancel",
           "discard", "rmdir", "wake", "launch", "prepare", "erase", "forget",
           "stop", "window"},
     child : BOOLEAN, number : Number \cup {None}, found : Id \cup {None},
     todo : SUBSET Id]

(* Types; every registered slot stands for a directory on disk, and the    *)
(* memory of a link (session, finish lane, routing entry) never outlives   *)
(* its slot.                                                               *)
TypeOK ==
    /\ ops \in OpSets
    /\ dir \subseteq minted /\ minted \subseteq Id
    /\ sidecar \in [Id -> {"none", "open", "done"}]
    /\ reg \in [Id -> Number \cup {None}]
    /\ row \in [Number -> Id \cup {None}]
    /\ ledger \in [Id -> {"none", "started", "completed"}]
    /\ slots \subseteq dir
    /\ provisioned \subseteq Id /\ resident \subseteq Id
    /\ idle \in [Id -> 0 .. AbandonTtl]
    /\ sessions \subseteq slots
    /\ running \in BOOLEAN
    /\ link \in [Id -> -1 .. LinkTtl]
    /\ \A i \in Id \ slots : link[i] = -1
    /\ finishing \subseteq slots
    /\ asked \subseteq Id
    /\ engine \in [Id -> {"none", "run", "dead"}]
    /\ tasks \subseteq Id
    /\ job \in [Jobs -> JobType]
    /\ windows \subseteq Id /\ demoting \subseteq Id
    /\ ebb \in [Id -> 0 .. MaxEbb]

Bit(b) == IF b THEN 1 ELSE 0

(* Engine processes that run on an account's directory.                    *)
Processes(i) ==
    Bit(engine[i] = "run") + ebb[i]
      + Cardinality({t \in Jobs : job[t].child /\ job[t].id = i})

(* Of the operations that take an engine out of its slot and wait for its  *)
(* exit, and those that start one, the behaviour has only such as the      *)
(* control lane keeps apart; and the window is as large as the ceiling,    *)
(* which is the default and turns the demotion of idle slots off.          *)
LanesApart ==
    /\ MaxResident = MaxEngines
    /\ ops \cap {"request", "delete"} = {}
    /\ ops \cap {"stop", "start"} = {} \/ ops \cap {"finish", "reap"} = {}

(* Invariant I1/I2 of pool.rs: "at most one engine per account slot". A    *)
(* start never meets the predecessor it replaces.                          *)
OneEngine == LanesApart => \A i \in Id : Processes(i) <= 1

(* Invariant I5 of pool.rs: "a slot's directory is removed only after the  *)
(* engine has stopped", so no engine runs without its directory.           *)
EngineHasDirectory == LanesApart => \A i \in Id \ dir : Processes(i) = 0

(* No number is served by two committed slots: link.finish of a number     *)
(* that is already linked rolls its new slot back ("committing it here     *)
(* would produce two engines for one account"), over crashes and late      *)
(* engine links too. With an adoption by accounts.list before link.finish  *)
(* and a deletion, an open link could bring a second number into the slot. *)
OneSlotPerNumber ==
    ~({"list", "delete"} \subseteq ops) =>
        \A i, j \in slots \cap provisioned :
            reg[i] # None /\ reg[i] = reg[j] => i = j

(* An account row always has its slot and its directory: slot_for_account  *)
(* calls a row without a slot "a broken pool (a migration/consistency      *)
(* bug)". A link.cancel, a reap or an adoption by accounts.list that meets *)
(* a commit can break it.                                                  *)
RowHasSlot == ops \cap {"cancel", "reap", "list"} = {} => Committed \subseteq slots

(* A half-finished link is reclaimed without a process restart: "Without   *)
(* this an abandoned link would pin a data directory and one of the eight  *)
(* engine slots".                                                          *)
AbandonedIsReclaimed ==
    \A i \in Id :
        "reap" \in ops /\ i \in slots \ provisioned
            ~> i \notin dir \/ i \in provisioned

(* The clock runs whatever else happens, the reaper's interval fires, and  *)
(* every await of a job ends.                                              *)
Fairness ==
    /\ SF_vars(Tick)
    /\ \A i \in Id : WF_vars(Reap(i))
    /\ \A t \in Jobs : WF_vars(DiscardStep(t))
    /\ \A t \in Task :
         /\ WF_vars((\E spawns \in BOOLEAN : LinkStartEngine(t, spawns))
                      \/ LinkMint(t) \/ LinkMintFails(t))
         /\ WF_vars(FinishAnswered(t) \/ FinishGivesUp(t) \/ FinishCommit(t)
                      \/ FinishMark(t))
         /\ WF_vars(CancelSession(t))
         /\ WF_vars(StopWaited(t) \/ StartDone(t) \/ \E i \in Id :
              StopSlot(t, i) \/ \E spawns \in BOOLEAN : StartSlot(t, i, spawns))

LiveSpec == Spec /\ Fairness
=============================================================================
