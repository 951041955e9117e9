--------------------------- MODULE HistoryImport ---------------------------
(***************************************************************************)
(* The history import of one engine group: the tasks that look for an      *)
(* archive (the sweep of an engine start, the watcher of a link, the       *)
(* watcher of an ordered snapshot or cloud restore), the single slot they  *)
(* share, the pass that reads the archive (history_import.rs), the ledger  *)
(* row, and the host's cancel, retry and status calls (supervisor.rs).     *)
(* Live mail that names a message of the archive is stored beside it.      *)
(***************************************************************************)
EXTENDS Integers, FiniteSets

CONSTANTS
    None,
    Acct,           \* the accounts of the group
    Worker,         \* bound: import tasks alive at a time
    Lines,          \* message lines of an archive
    BatchLines,     \* BATCH_MESSAGES
    MaxAttempts,    \* MAX_ATTEMPTS
    MaxCalls,       \* bound: host calls and live messages
    MaxFaults       \* bound: failed reads and writes, and process exits

ASSUME ImportAssumption ==
    /\ None \notin Acct
    /\ Lines \in Nat /\ BatchLines \in Nat \ {0}
    /\ MaxAttempts \in Nat /\ MaxCalls \in Nat /\ MaxFaults \in Nat

VARIABLES
    accounts,   \* the linked accounts
    gone,       \* the deleted ones: an account id is never used again
    ledger,     \* history_imports: [account -> row or None]
    staged,     \* the accounts whose archive's recipients are staged
    msgs,       \* [account -> stored messages, each with its sender form]
    archive,    \* the accounts whose archive is ready on disk
    marks,      \* history_import_cancels
    holder,     \* history_import_holder, None when the slot is free
    abort,      \* history_import_abort
    task,       \* the import tasks
    cancel,     \* the cancel call under way
    consult,    \* the account whose status call asks the engine, or None
    live,       \* the live message looked up and not stored yet, or None
    stale,      \* ghost: rows left running by an exit or a failed write
    calls, faults

store == <<accounts, gone, ledger, staged, msgs>>
process == <<marks, holder, abort>>
host == <<cancel, consult, live>>
bounds == <<calls, faults>>
vars == <<store, archive, process, task, host, stale, bounds>>

Line == 1 .. Lines
Form == {"aci", "hash"}
Idle == [kind |-> "off", pc |-> "off", acct |-> None, todo |-> {},
         from |-> 1, next |-> 1, out |-> None, seen |-> FALSE]
NoCancel == [acct |-> None, pc |-> "idle", live |-> FALSE]

State(a) == IF ledger[a] = None THEN "none" ELSE ledger[a].state

TypeOK ==
    /\ accounts \subseteq Acct /\ gone \subseteq Acct
    /\ staged \subseteq Acct
    /\ archive \subseteq Acct /\ marks \subseteq Acct
    /\ stale \subseteq Acct
    /\ holder \in Acct \cup {None} /\ abort \in BOOLEAN
    /\ msgs \in [Acct -> SUBSET (Line \X Form)]
    /\ \A a \in Acct :
          State(a) \in {"none", "running", "completed", "failed"}
    /\ \A t \in Worker :
          task[t].kind \in {"off", "sweep", "watch", "order"}

Init ==
    /\ accounts \in SUBSET Acct /\ gone = {}
    /\ ledger = [a \in Acct |-> None] /\ staged = {}
    /\ msgs = [a \in Acct |-> {}] /\ archive = {}
    /\ marks = {} /\ holder = None /\ abort = FALSE
    /\ task = [t \in Worker |-> Idle]
    /\ cancel = NoCancel /\ consult = None /\ live = None
    /\ stale = {} /\ calls = 0 /\ faults = 0

Call == calls < MaxCalls /\ calls' = calls + 1 /\ UNCHANGED faults
Fault == faults < MaxFaults /\ faults' = faults + 1 /\ UNCHANGED calls

-----------------------------------------------------------------------------
(* The ledger row.                                                         *)

BeginHistoryImport(a) ==
    [ledger EXCEPT ![a] =
        [state |-> "running", why |-> None,
         attempts |-> IF @ = None THEN 1 ELSE @.attempts + 1]]

(* An update: without a row there is nothing to end.                       *)
CompleteHistoryImport(a, state, why) ==
    [ledger EXCEPT ![a] =
        IF @ = None THEN None ELSE [@ EXCEPT !.state = state, !.why = why]]

CancelRunning(a) ==
    [ledger EXCEPT ![a] =
        IF @ # None /\ @.state = "running"
        THEN [@ EXCEPT !.state = "failed", !.why = "cancelled"] ELSE @]

ClearFailed(a) ==
    [ledger EXCEPT ![a] =
        IF @ # None /\ @.state = "failed" THEN None ELSE @]

(* land_history_import_failure: insert or ignore.                          *)
LandFailure(a) ==
    [ledger EXCEPT ![a] =
        IF @ = None THEN [state |-> "failed", why |-> "engine", attempts |-> 1]
        ELSE @]

Stored(a, l) == \E f \in Form : <<l, f>> \in msgs[a]

(* insert_history_batch: one transaction; a line some form of which is     *)
(* stored is a duplicate.                                                  *)
InsertHistoryBatch(a, batch) ==
    [msgs EXCEPT ![a] = @ \cup {<<l, "aci">> : l \in {b \in batch :
                                                        ~Stored(a, b)}}]

-----------------------------------------------------------------------------
(* Tasks.                                                                  *)

Free(t) == task[t] = Idle
Spawn(t, kind, a, todo) ==
    task' = [task EXCEPT ![t] = [Idle EXCEPT !.kind = kind, !.pc = "poll",
                                             !.acct = a, !.todo = todo]]

(* The task once it is through with the account: the sweep goes on.        *)
After(t) ==
    IF task[t].kind = "sweep" /\ task[t].todo # {}
    THEN [Idle EXCEPT !.kind = "sweep", !.pc = "poll", !.todo = task[t].todo]
    ELSE Idle

(* link.finish, of a new number or a known one, ends with a watcher.       *)
Link(a, t) ==
    /\ a \notin gone /\ Free(t) /\ Call
    /\ accounts' = accounts \cup {a}
    /\ Spawn(t, "watch", a, {})
    /\ UNCHANGED <<gone, ledger, staged, msgs, archive, process, host,
                   stale>>

EngineStart(t) ==
    /\ Free(t) /\ accounts # {} /\ Call
    /\ Spawn(t, "sweep", None, accounts)
    /\ UNCHANGED <<store, archive, process, host, stale>>

(* backups.importSnapshot and backups.restoreFromCloud, once the engine    *)
(* has started, or may have.                                               *)
Order(a, t) ==
    /\ a \in accounts /\ Free(t) /\ Call
    /\ Spawn(t, "order", a, {})
    /\ UNCHANGED <<store, archive, process, host, stale>>

(* The engine's download lands.                                            *)
Produce(a) ==
    /\ a \in accounts \ archive
    /\ archive' = archive \cup {a}
    /\ UNCHANGED <<store, process, task, host, stale, bounds>>

(* probe_history_import *)
Finished(a) ==
    \/ a \in marks \/ a \notin accounts
    \/ a \in archive /\ State(a) = "completed"
    \/ a \in archive /\ State(a) # "none" /\ ledger[a].attempts >= MaxAttempts

Ready(a) == ~Finished(a) /\ a \in archive

Watch(t) ==
    /\ task[t].kind = "watch" /\ task[t].pc = "poll"
    /\ \/ Ready(task[t].acct) /\ task' = [task EXCEPT ![t].pc = "ready"]
       \/ Finished(task[t].acct) /\ task' = [task EXCEPT ![t] = Idle]
    /\ UNCHANGED <<store, archive, process, host, stale, bounds>>

WatchExpires(t) ==
    /\ task[t].kind = "watch" /\ task[t].pc = "poll"
    /\ task' = [task EXCEPT ![t] = Idle]
    /\ UNCHANGED <<store, archive, process, host, stale, bounds>>

Sweep(t, a) ==
    /\ task[t].kind = "sweep" /\ task[t].pc = "poll" /\ a \in task[t].todo
    /\ LET left == [task[t] EXCEPT !.todo = @ \ {a}, !.acct = a] IN
       task' = [task EXCEPT ![t] =
                  IF Ready(a) THEN [left EXCEPT !.pc = "ready"]
                  ELSE IF left.todo = {} THEN Idle
                  ELSE [left EXCEPT !.acct = None]]
    /\ UNCHANGED <<store, archive, process, host, stale, bounds>>

(* The engine reports the ordered archive, by its task or by the file.     *)
OrderLands(t) ==
    /\ task[t].kind = "order" /\ task[t].pc = "poll"
    /\ task[t].acct \in accounts
    /\ task' = [task EXCEPT ![t].pc = "ready", ![t].seen = TRUE]
    /\ archive' = archive \cup {task[t].acct}
    /\ UNCHANGED <<store, process, host, stale, bounds>>

(* The engine reports a failure, has forgotten the task, or the ceiling    *)
(* passes without an archive seen: land_import_engine_failure.             *)
OrderFails(t) ==
    /\ task[t].kind = "order" /\ task[t].pc = "poll"
    /\ task[t].acct \in accounts
    /\ ledger' = BeginHistoryImport(task[t].acct)
    /\ task' = [task EXCEPT ![t].pc = "land"]
    /\ UNCHANGED <<accounts, gone, staged, msgs, archive, process, host,
                   stale, bounds>>

OrderFailed(t) ==
    /\ task[t].pc = "land"
    /\ ledger' = CompleteHistoryImport(task[t].acct, "failed", "engine")
    /\ task' = [task EXCEPT ![t] = Idle]
    /\ UNCHANGED <<accounts, gone, staged, msgs, archive, process, host,
                   stale, bounds>>

(* The account is gone, or the ceiling passes while the slot is busy.      *)
OrderLeaves(t) ==
    /\ task[t].kind = "order" /\ task[t].pc = "poll"
    /\ task[t].acct \notin accounts \/ task[t].seen
    /\ task' = [task EXCEPT ![t] = Idle]
    /\ UNCHANGED <<store, archive, process, host, stale, bounds>>

-----------------------------------------------------------------------------
(* claim_and_run_history_import *)

(* The exchange, the reset of the flag and the holder's name: no step of a *)
(* cancel tells the moments between them from the ones around them.        *)
Claim(t) ==
    /\ task[t].pc = "ready" /\ holder = None
    /\ holder' = task[t].acct /\ abort' = FALSE
    /\ task' = [task EXCEPT ![t].pc = "begin"]
    /\ UNCHANGED <<store, archive, marks, host, stale, bounds>>

Busy(t) ==
    /\ task[t].pc = "ready" /\ holder # None
    /\ task' = [task EXCEPT ![t] = IF @.kind = "sweep" THEN After(t)
                                   ELSE [@ EXCEPT !.pc = "poll"]]
    /\ UNCHANGED <<store, archive, process, host, stale, bounds>>

(* run_import. *)
Begin(t) ==
    /\ task[t].pc = "begin" /\ task[t].acct \in accounts
    /\ ledger' = BeginHistoryImport(task[t].acct)
    /\ stale' = stale \ {task[t].acct}
    /\ task' = [task EXCEPT ![t].pc = "entry"]
    /\ UNCHANGED <<accounts, gone, staged, msgs, archive, process, host,
                   bounds>>

(* The row is not written (no such account), or not read back: the pass    *)
(* returns with no other write.                                            *)
BeginFails(t) ==
    /\ task[t].pc = "begin"
    /\ \/ /\ task[t].acct \notin accounts
          /\ UNCHANGED <<ledger, stale, bounds>>
       \/ /\ task[t].acct \in accounts /\ Fault
          /\ \/ UNCHANGED <<ledger, stale>>
             \/ /\ ledger' = BeginHistoryImport(task[t].acct)
                /\ stale' = stale \cup {task[t].acct}
    /\ task' = [task EXCEPT ![t].pc = "release"]
    /\ UNCHANGED <<accounts, gone, staged, msgs, archive, process, host>>

Passing == {"begin", "entry", "stage", "line", "end", "release"}
InPass(t) == task[t].pc \in Passing

Ends(t, why) == [task[t] EXCEPT !.pc = "end", !.out = why]

MutEntryAborted(t) ==
    /\ task[t].pc = "entry" /\ abort
    /\ task' = [task EXCEPT ![t].pc = "release"]
    /\ UNCHANGED <<store, archive, process, host, stale, bounds>>

(* The flag is up before the first line: the stage is left alone.          *)
EntryAborted(t) ==
    /\ task[t].pc = "entry" /\ abort
    /\ task' = [task EXCEPT ![t] = Ends(t, "cancelled")]
    /\ UNCHANGED <<store, archive, process, host, stale, bounds>>

Entry(t) ==
    /\ task[t].pc = "entry" /\ ~abort
    /\ staged' = staged \ {task[t].acct}
    /\ task' = [task EXCEPT ![t].pc = "stage"]
    /\ UNCHANGED <<accounts, gone, ledger, msgs, archive, process, host,
                   stale, bounds>>

(* pass_one, to the end of the file.                                       *)
PassOne(t) ==
    /\ task[t].pc = "stage" /\ ~abort /\ task[t].acct \in accounts
    /\ staged' = staged \cup {task[t].acct}
    /\ task' = [task EXCEPT ![t].pc = "line"]
    /\ UNCHANGED <<accounts, gone, ledger, msgs, archive, process, host,
                   stale, bounds>>

(* A line of pass two is buffered, and a full buffer written.              *)
Buffered(t) == {l \in Line : task[t].from <= l /\ l < task[t].next}

HandleLine(t) ==
    /\ task[t].pc = "line" /\ ~abort /\ task[t].next <= Lines
    /\ task[t].next - task[t].from < BatchLines
    /\ task' = [task EXCEPT ![t].next = @ + 1]
    /\ UNCHANGED <<store, archive, process, host, stale, bounds>>

Flush(t) ==
    LET a == task[t].acct IN
    /\ task[t].pc = "line"
    /\ task[t].next - task[t].from = BatchLines /\ a \in accounts
    /\ msgs' = InsertHistoryBatch(a, Buffered(t))
    /\ task' = [task EXCEPT ![t].from = task[t].next]
    /\ UNCHANGED <<accounts, gone, ledger, staged, archive, process, host,
                   stale, bounds>>

(* The end of the file: what is buffered is written.                       *)
EndOfFile(t) ==
    LET a == task[t].acct IN
    /\ task[t].pc = "line" /\ ~abort /\ task[t].next > Lines
    /\ task[t].next - task[t].from < BatchLines
    /\ Buffered(t) = {} \/ a \in accounts
    /\ msgs' = InsertHistoryBatch(a, Buffered(t))
    /\ task' = [task EXCEPT ![t] = Ends(t, "completed")]
    /\ UNCHANGED <<accounts, gone, ledger, staged, archive, process, host,
                   stale, bounds>>

MutAborted(t) ==
    /\ task[t].pc \in {"stage", "line"} /\ abort
    /\ task[t].next - task[t].from < BatchLines
    /\ task' = [task EXCEPT ![t] = Ends(t, "completed")]
    /\ UNCHANGED <<store, archive, process, host, stale, bounds>>

(* The flag between two lines: a failed run clears the stage.              *)
Aborted(t) ==
    /\ task[t].pc \in {"stage", "line"} /\ abort
    /\ task[t].next - task[t].from < BatchLines
    /\ staged' = staged \ {task[t].acct}
    /\ task' = [task EXCEPT ![t] = Ends(t, "cancelled")]
    /\ UNCHANGED <<accounts, gone, ledger, msgs, archive, process, host,
                   stale, bounds>>

(* A read or a write fails, or the account is gone.                        *)
PassFails(t) ==
    /\ task[t].pc \in {"stage", "line"}
    /\ \/ task[t].acct \notin accounts /\ UNCHANGED bounds
       \/ task[t].acct \in accounts /\ Fault
    /\ staged' = staged \ {task[t].acct}
    /\ task' = [task EXCEPT ![t] = Ends(t, "failed")]
    /\ UNCHANGED <<accounts, gone, ledger, msgs, archive, process, host,
                   stale>>

(* The stage cannot be cleared at the entry, or the blocking task dies and *)
(* the row is ended for it: the stage stays.                               *)
PassDies(t) ==
    /\ task[t].pc \in {"entry", "stage", "line"} /\ Fault
    /\ task' = [task EXCEPT ![t] = Ends(t, "internal")]
    /\ UNCHANGED <<store, archive, process, host, stale>>

Complete(t) ==
    LET out == task[t].out IN
    /\ task[t].pc = "end"
    /\ ledger' = CompleteHistoryImport(task[t].acct,
                    IF out = "completed" THEN "completed" ELSE "failed",
                    IF out = "completed" THEN None ELSE out)
    /\ task' = [task EXCEPT ![t].pc = "release"]
    /\ UNCHANGED <<accounts, gone, staged, msgs, archive, process, host,
                   stale, bounds>>

(* The row cannot be ended: it stays running.                              *)
CompleteFails(t) ==
    /\ task[t].pc \in {"end", "land"} /\ Fault
    /\ stale' = stale \cup {task[t].acct}
    /\ task' = [task EXCEPT ![t] =
                  IF @.pc = "land" THEN Idle ELSE [@ EXCEPT !.pc = "release"]]
    /\ UNCHANGED <<store, archive, process, host>>

MutRelease(t) ==
    /\ task[t].pc = "release"
    /\ holder' = IF task[t].out = "cancelled" THEN holder ELSE None
    /\ task' = [task EXCEPT ![t] = After(t)]
    /\ UNCHANGED <<store, archive, marks, abort, host, stale, bounds>>

(* The slot is given up, after the retention pass of a completed run.      *)
Release(t) ==
    /\ task[t].pc = "release"
    /\ holder' = None
    /\ task' = [task EXCEPT ![t] = After(t)]
    /\ UNCHANGED <<store, archive, marks, abort, host, stale, bounds>>

PassStep(t) ==
    \/ Begin(t) \/ BeginFails(t) \/ EntryAborted(t) \/ Entry(t) \/ PassOne(t)
    \/ HandleLine(t) \/ Flush(t) \/ EndOfFile(t) \/ Aborted(t)
    \/ PassFails(t) \/ PassDies(t) \/ Complete(t) \/ CompleteFails(t)
    \/ Release(t)

TaskStep(t) ==
    \/ Watch(t) \/ WatchExpires(t) \/ \E a \in Acct : Sweep(t, a)
    \/ OrderLands(t) \/ OrderFails(t) \/ OrderFailed(t) \/ OrderLeaves(t)
    \/ Claim(t) \/ Busy(t)

-----------------------------------------------------------------------------
(* The host's calls. Those of one account that change something run one at *)
(* a time: they hold its write lane.                                       *)

(* history_import_cancel: the marker, and whether the slot is this         *)
(* account's, under two locks that are both let go again.                  *)
CancelMarks(a) ==
    /\ a \in accounts /\ cancel = NoCancel /\ Call
    /\ marks' = marks \cup {a}
    /\ cancel' = [acct |-> a, pc |-> "flag", live |-> holder = a]
    /\ UNCHANGED <<store, archive, holder, abort, task, consult, live,
                   stale>>

CancelFlags ==
    /\ cancel.pc = "flag"
    /\ abort' = (abort \/ cancel.live)
    /\ cancel' = [cancel EXCEPT !.pc = "row"]
    /\ UNCHANGED <<store, archive, marks, holder, task, consult, live,
                   stale, bounds>>

CancelEnds ==
    /\ cancel.pc = "row"
    /\ ledger' = CancelRunning(cancel.acct)
    /\ cancel' = NoCancel
    /\ UNCHANGED <<accounts, gone, staged, msgs, archive, process, task,
                   consult, live, stale, bounds>>

(* history_import_retry: a failed row is cleared, and the marker with it,  *)
(* when the archive is there.                                              *)
Retry(a) ==
    /\ a \in accounts \cap archive /\ cancel.acct # a /\ Call
    /\ State(a) \in {"none", "failed"}
    /\ ledger' = ClearFailed(a)
    /\ marks' = marks \ {a}
    /\ UNCHANGED <<accounts, gone, staged, msgs, archive, holder, abort,
                   task, host, stale>>

(* history_import_status, inside the wait for an archive: the engine is    *)
(* asked, and a failure it reports is written if there is no row yet.      *)
StatusConsults(a) ==
    /\ a \in accounts \ (archive \cup marks) /\ ledger[a] = None
    /\ consult = None /\ Call
    /\ consult' = a
    /\ UNCHANGED <<store, archive, process, task, cancel, live,
                   stale>>

StatusAnswers ==
    /\ consult # None
    /\ ledger' = IF consult \in accounts THEN LandFailure(consult) ELSE ledger
    /\ consult' = None
    /\ UNCHANGED <<accounts, gone, staged, msgs, archive, process, task,
                   cancel, live, stale, bounds>>

(* The account is deleted, its rows with it.                               *)
Delete(a) ==
    /\ a \in accounts /\ cancel.acct # a /\ Call
    /\ accounts' = accounts \ {a} /\ gone' = gone \cup {a}
    /\ ledger' = [ledger EXCEPT ![a] = None]
    /\ staged' = staged \ {a} /\ msgs' = [msgs EXCEPT ![a] = {}]
    /\ marks' = marks \ {a}
    /\ archive' = archive \ {a}
    /\ UNCHANGED <<holder, abort, task, host, stale>>

(* ingest_receive of a message the archive holds too: it is looked up      *)
(* under every form of its sender, and then inserted under its own.        *)
LiveLooksUp(a, l) ==
    /\ a \in accounts /\ live = None /\ Call
    /\ ~Stored(a, l)
    /\ live' = <<a, l>>
    /\ UNCHANGED <<store, archive, process, task, cancel, consult,
                   stale>>

LiveInserts ==
    /\ live # None
    /\ msgs' = IF live[1] \in accounts
               THEN [msgs EXCEPT ![live[1]] = @ \cup {<<live[2], "hash">>}]
               ELSE msgs
    /\ live' = None
    /\ UNCHANGED <<accounts, gone, ledger, staged, archive, process, task,
                   cancel, consult, stale, bounds>>

(* The process exits: the tasks, the markers and the slot are gone.        *)
Exit ==
    /\ Fault
    /\ marks' = {} /\ holder' = None /\ abort' = FALSE
    /\ task' = [t \in Worker |-> Idle]
    /\ cancel' = NoCancel /\ consult' = None /\ live' = None
    /\ stale' = {a \in Acct : State(a) = "running"}
    /\ UNCHANGED <<store, archive>>

HostStep ==
    \/ \E a \in Acct : CancelMarks(a) \/ Retry(a) \/ StatusConsults(a)
                       \/ Delete(a) \/ \E l \in Line : LiveLooksUp(a, l)
    \/ CancelFlags \/ CancelEnds \/ StatusAnswers \/ LiveInserts

Next ==
    \/ \E a \in Acct : Produce(a)
                       \/ \E t \in Worker : Link(a, t) \/ Order(a, t)
    \/ \E t \in Worker : EngineStart(t) \/ PassStep(t) \/ TaskStep(t)
    \/ HostStep \/ Exit

Spec == Init /\ [][Next]_vars

-----------------------------------------------------------------------------
(* history_import.rs, run_import: "Partially imported rows stay on a       *)
(* failed run — the identity discipline makes the next attempt converge    *)
(* without duplicates", and a completed run keeps the staged recipients.   *)
(* Whatever failed, was cancelled, retried or restarted before it, a row   *)
(* that says completed stands for every line stored and the recipients     *)
(* staged.                                                                 *)
CompletedIsWhole ==
    \A a \in Acct :
        State(a) = "completed"
            => a \in staged /\ \A l \in Line : Stored(a, l)

(* run_import: "the ledger never shows a phantom `running`". A row says    *)
(* running only while a pass of that account, or the writing of an         *)
(* engine's failure, is under way, unless the process exited or the store  *)
(* failed in the middle of it.                                             *)
RunningIsOwned ==
    \A a \in Acct :
        (State(a) = "running" /\ a \notin stale)
            => \E t \in Worker :
                  /\ task[t].acct = a
                  /\ task[t].pc \in {"entry", "stage", "line", "end", "land"}

(* claim_and_run_history_import: the slot is never lost. While it is       *)
(* taken, exactly one task is in a pass, of the account the holder names;  *)
(* the pass gives it back however it ends, so the next account's import is *)
(* delayed and never refused for good.                                     *)
SlotIsOwned ==
    /\ holder # None => \E t \in Worker : InPass(t) /\ task[t].acct = holder
    /\ \A t, u \in Worker : InPass(t) /\ InPass(u) => t = u

(* history_import.rs: "an import run, a re-run, and live envelopes of the  *)
(* same Signal message all collapse onto one row".                         *)
OneRowPerMessage ==
    \A a \in Acct : \A l \in Line :
        Cardinality({f \in Form : <<l, f>> \in msgs[a]}) <= 1

=============================================================================
