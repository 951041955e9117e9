------------------------------ MODULE Watchdog ------------------------------
(***************************************************************************)
(* The watchdog of one supervised engine (watchdog_loop and what it calls, *)
(* supervisor.rs): restart triggers from stderr, from unanswered liveness  *)
(* pings and from a process exit, their pacing, and the deferred restart   *)
(* that only receive evidence may cancel.                                  *)
(*                                                                         *)
(* Time is relative: counters of beats since the last restart and the last *)
(* trigger, and of beats until the deferred restart is due.                *)
(***************************************************************************)
EXTENDS Integers, Sequences, FiniteSets, SequencesExt

CONSTANTS
    None,
    Rows,        \* the group's account rows, in listing order
    Listings,    \* the account sets an engine may list
    Pooled,      \* BOOLEAN: a pooled slot, with an account id of its own
    Base, Cap,   \* watchdog_liveness_backoff_base and its cap, in beats
    Window,      \* watchdog_min_restart_interval, in beats
    Interval,    \* watchdog_interval, in beats
    Steps,       \* the number of restarts after which the backoff is capped
    AttemptLimit,\* WATCHDOG_PING_ATTEMPT_LIMIT
    MaxEvents    \* bound: link flows, failed engine starts and row listings

ASSUME WatchdogAssumption ==
    /\ Pooled \in BOOLEAN /\ Listings \subseteq SUBSET Range(Rows)
    /\ Base \in Nat /\ Cap \in Nat /\ Window \in Nat /\ Interval \in Nat \ {0}
    /\ Cap < Window
    /\ Steps \in Nat \ {0} /\ Base * 2 ^ (Steps - 1) >= Cap
    /\ \A n \in 1 .. Steps : Base * 2 ^ (n - 1) \in Nat
    /\ AttemptLimit \in Nat \ {0}
    /\ MaxEvents \in Nat

VARIABLES
    slot,        \* supervisor.engine: "none", "run" or "dead"
    ws,          \* the engine's receive WebSocket is up
    hung,        \* the engine answers no call
    served,      \* the accounts the engine lists
    link,        \* link_flow_active
    events,      \* link flows, failed starts and failed listings so far
    pc,
    held,        \* the handle cloned at the top of the loop: of whom
    sub,         \* the stderr subscription: of whom
    unread,      \* a receive-fatal line waits in the subscription
    pending,     \* the deferred restart
    fails,       \* ping_failures
    restarts,    \* episode.restarts
    sinceT,      \* beats since episode.last_trigger
    sinceR,      \* beats since last_restart
    absent,      \* verdicts.engine_absent
    refused,     \* verdicts.ping_refused
    targets,     \* the candidates of this tick
    why,         \* the restart being executed
    fault,       \* ghost: something went wrong since the last restart
    spent        \* ghost: the trigger of a fault was spent in vain, or the
                 \* host stopped the engine

env == <<slot, ws, hung, served, link, events>>
timing == <<pending, fails, restarts, sinceT, sinceR>>
probe == <<absent, refused, targets>>
ghosts == <<fault, spent>>
vars == <<env, pc, held, sub, unread, timing, probe, why, ghosts>>

Least(a, b) == IF a < b THEN a ELSE b

(* A count of beats that has reached its top (Far for the triggers, Cap    *)
(* for the restarts) is "longer ago than matters", or "never".             *)
Far == Window + 1

(* Mutant: the backoff does not double.                                    *)
MutBackoff(n) == IF n = 0 THEN 0 ELSE Least(Base, Cap)

(* watchdog_restart_backoff.                                               *)
Backoff(n) == IF n = 0 THEN 0 ELSE Least(Base * 2 ^ (n - 1), Cap)

Terminal == held = "old" \/ (held = "slot" /\ slot = "dead")

Init ==
    /\ slot = "none" /\ ws = FALSE /\ hung = FALSE
    /\ served \in Listings
    /\ link = FALSE /\ events = 0
    /\ pc = "top" /\ held = "none" /\ sub = "none" /\ unread = FALSE
    /\ pending = None /\ fails = 0 /\ restarts = 0
    /\ sinceT = Far /\ sinceR = Cap
    /\ absent = {} /\ refused = {} /\ targets = <<>> /\ why = None
    /\ fault = FALSE /\ spent = FALSE

-----------------------------------------------------------------------------
(* The engine, the host and the receive lane                               *)

(* What a new process means to handles and verdicts of the one before.     *)
Replaced ==
    /\ held' = IF held = "slot" THEN "old" ELSE held
    /\ absent' = {} /\ refused' = {}

(* runtime.start: a live engine stays.                                     *)
StartRuntime ==
    /\ slot # "run"
    /\ slot' = "run" /\ ws' = TRUE /\ hung' = FALSE
    /\ Replaced
    /\ sub' = IF sub = "slot" THEN "old" ELSE sub
    /\ spent' = FALSE
    /\ UNCHANGED <<served, link, events, pc, unread, timing,
                   targets, why, fault>>

(* runtime.stop takes the engine out of the slot and ends the link flow.   *)
StopRuntime ==
    /\ slot # "none"
    /\ slot' = "none" /\ ws' = FALSE /\ hung' = FALSE /\ link' = FALSE
    /\ held' = IF held = "slot" THEN "old" ELSE held
    /\ sub' = IF sub = "slot" THEN "old" ELSE sub
    /\ fault' = TRUE /\ spent' = TRUE
    /\ UNCHANGED <<served, events, pc, unread, timing,
                   probe, why>>

(* External: the process exits.                                            *)
EngineExit ==
    /\ slot = "run"
    /\ slot' = "dead" /\ ws' = FALSE /\ hung' = FALSE
    /\ fault' = TRUE
    /\ UNCHANGED <<served, link, events, pc, held, sub,
                   unread, timing, probe, why, spent>>

(* External: the receive WebSocket dies, or only complains; either way the *)
(* engine logs it once, to whoever listens (classify_engine_stderr,        *)
(* ReceiveFatal).                                                          *)
WebSocketError(dies) ==
    /\ slot = "run" /\ ws
    /\ ws' = ~dies
    /\ unread' = (unread \/ sub = "slot")
    /\ fault' = TRUE
    /\ spent' = (spent \/ (dies /\ sub # "slot"))
    /\ UNCHANGED <<slot, hung, served, link, events, pc,
                   held, sub, timing, probe, why>>

(* External: the engine stops answering calls, or answers again.           *)
Hang ==
    /\ slot = "run" /\ ~hung /\ hung' = TRUE
    /\ fault' = TRUE
    /\ UNCHANGED <<slot, ws, served, link, events, pc, held,
                   sub, unread, timing, probe, why, spent>>

Recover ==
    /\ hung /\ hung' = FALSE
    /\ UNCHANGED <<slot, ws, served, link, events, pc, held,
                   sub, unread, timing, probe, why, ghosts>>

(* receive_persistence_loop takes an envelope and counts it as evidence. It *)
(* may have waited in the ingress since before the receive path died.       *)
Dequeue ==
    /\ pending # None /\ pending' = [pending EXCEPT !.evidence = TRUE]
    /\ UNCHANGED <<env, pc, held, sub, unread, fails, restarts, sinceT, sinceR,
                   probe, why, ghosts>>

LinkBegins ==
    /\ ~link /\ events < MaxEvents
    /\ link' = TRUE /\ events' = events + 1
    /\ UNCHANGED <<slot, ws, hung, served, pc, held, sub,
                   unread, timing, probe, why, ghosts>>

LinkEnds ==
    /\ link /\ link' = FALSE
    /\ UNCHANGED <<slot, ws, hung, served, events, pc, held,
                   sub, unread, timing, probe, why, ghosts>>

RefusalExpires(a) ==
    /\ a \in refused /\ refused' = refused \ {a}
    /\ UNCHANGED <<env, pc, held, sub, unread, timing, absent, targets, why,
                   ghosts>>

(* A beat is longer than a restart, whose stop and start have timeouts.    *)
Beat ==
    /\ pc # "restart"
    /\ sinceT' = Least(sinceT + 1, Far)
    /\ sinceR' = Least(sinceR + 1, Cap)
    /\ pending' = IF pending = None \/ pending.due = 0 THEN pending
                  ELSE [pending EXCEPT !.due = @ - 1]
    /\ UNCHANGED <<env, pc, held, sub, unread, fails, restarts, probe, why,
                   fault, spent>>

-----------------------------------------------------------------------------
(* watchdog_request_restart                                                *)

(* Mutant: a throttled trigger is dropped.                                 *)
MutArmDropped(p, c) == p

(* arm_pending_restart.                                                    *)
ArmPendingRestart(p, c) ==
    IF p = None THEN c
    ELSE IF \/ p.source = "ping" /\ c.source = "stderr"
            \/ /\ ~(p.source = "stderr" /\ c.source = "ping")
               /\ c.due < p.due
      THEN [c EXCEPT !.evidence = p.evidence]
      ELSE p

(* p is the pending restart so far, n the restarts of the episode.         *)
RequestRestart(source, p, n) ==
    LET r == IF sinceT > Window THEN 0 ELSE n IN
    /\ restarts' = r
    /\ sinceT' = 0
    /\ \/ /\ link
          /\ pc' = "top" /\ pending' = p
          /\ spent' = (spent \/ source = "stderr")
          /\ UNCHANGED why
       \/ /\ ~link /\ sinceR < Backoff(r)
          /\ pc' = "top"
          /\ pending' = ArmPendingRestart(p,
                 [source |-> source, due |-> Backoff(r) - sinceR, evidence |-> FALSE])
          /\ UNCHANGED <<why, spent>>
       \/ /\ ~link /\ sinceR >= Backoff(r)
          /\ pc' = "restart" /\ pending' = p
          /\ why' = [source |-> source, deferred |-> FALSE]
          /\ UNCHANGED spent

(* restart_engine takes the engine out of the slot, stops it and starts    *)
(* another one.                                                            *)
RestartEngine ==
    /\ pc = "restart"
    /\ slot' = "run" /\ ws' = TRUE /\ hung' = FALSE
    /\ Replaced
    /\ sinceR' = 0 /\ restarts' = Least(restarts + 1, Steps)
    /\ pending' = None
    /\ IF why.source = "crash" /\ ~why.deferred
         THEN /\ fails' = fails
              /\ sub' = IF sub = "slot" THEN "old" ELSE sub
         ELSE fails' = 0 /\ sub' = "none"
    /\ unread' = (unread /\ sub' # "none")
    /\ pc' = "top" /\ why' = None
    /\ fault' = FALSE /\ spent' = FALSE
    /\ UNCHANGED <<served, link, events, sinceT, targets>>

(* A failed shutdown or start leaves the slot empty; only a deferred       *)
(* restart stays armed.                                                    *)
RestartFails ==
    /\ pc = "restart" /\ events < MaxEvents
    /\ events' = events + 1
    /\ slot' = "none" /\ ws' = FALSE /\ hung' = FALSE
    /\ held' = IF held = "slot" THEN "old" ELSE held
    /\ sub' = IF sub = "slot" THEN "old" ELSE sub
    /\ IF why.deferred
         THEN pending' = [pending EXCEPT !.due = Interval] /\ UNCHANGED spent
         ELSE spent' = TRUE /\ UNCHANGED pending
    /\ pc' = "top" /\ why' = None
    /\ UNCHANGED <<served, link, unread, fails, restarts,
                   sinceT, sinceR, probe, fault>>

-----------------------------------------------------------------------------
(* watchdog_loop                                                           *)

(* The handle is cloned; the subscription follows the live process.        *)
LoopTop ==
    LET live == IF slot = "run" THEN "slot" ELSE "none" IN
    /\ pc = "top" /\ pc' = "select"
    /\ held' = IF slot = "none" THEN "none" ELSE "slot"
    /\ sub' = live
    /\ unread' = (unread /\ sub = live)
    /\ UNCHANGED <<env, timing, probe, why, ghosts>>

(* A receive-fatal line is read.                                           *)
StderrLine ==
    /\ pc = "select" /\ unread
    /\ unread' = FALSE
    /\ RequestRestart("stderr", pending, restarts)
    /\ UNCHANGED <<env, held, sub, fails, sinceR, probe, fault>>

(* An envelope delivered after the restart was armed cancels it.           *)
Evidence == pending # None /\ pending.evidence

Kept == IF Evidence THEN None ELSE pending

(* A trigger-free gap longer than the window starts a fresh episode.       *)
Episode == IF Kept = None /\ sinceT > Window THEN 0 ELSE restarts

(* The tick of a loop whose engine has exited, with nothing armed.         *)
TickCrash ==
    /\ pc = "select" /\ Pooled /\ Terminal /\ Kept = None
    /\ RequestRestart("crash", None, Episode)
    /\ fails' = IF Evidence THEN 0 ELSE fails
    /\ UNCHANGED <<env, held, sub, unread, sinceR, probe, fault>>

IsDue == Kept # None /\ Kept.due = 0 /\ ~link

TickDeferred ==
    /\ pc = "select" /\ IsDue
    /\ pc' = "restart"
    /\ why' = [source |-> pending.source, deferred |-> TRUE]
    /\ UNCHANGED <<env, held, sub, unread, timing, probe, ghosts>>

(* No live engine to probe, or go on to the liveness plan.                 *)
TickOn ==
    /\ pc = "select" /\ ~IsDue
    /\ ~(Pooled /\ Terminal /\ Kept = None)
    /\ pc' = IF held = "none" \/ Terminal THEN "top" ELSE "plan"
    /\ pending' = Kept /\ restarts' = Episode
    /\ fails' = IF Evidence THEN 0 ELSE fails
    /\ spent' = (spent \/ (Evidence /\ slot = "run"))
    /\ UNCHANGED <<env, held, sub, unread, sinceT, sinceR, probe, why, fault>>

-----------------------------------------------------------------------------
(* The liveness probe                                                      *)

Deaf == hung \/ Terminal

(* watchdog_ping_plan: a link flow, or a store that cannot list the rows,  *)
(* ends the tick; else the rows the engine lists, or, when it cannot say,  *)
(* those not known to be absent, without the refused ones.                 *)
PlanLinkFlow ==
    /\ pc = "plan" /\ link /\ pc' = "top"
    /\ UNCHANGED <<env, held, sub, unread, timing, probe, why, ghosts>>

PlanListingFails ==
    /\ pc = "plan" /\ ~link /\ events < MaxEvents
    /\ events' = events + 1
    /\ pc' = "top" /\ fails' = 0
    /\ UNCHANGED <<slot, ws, hung, served, link, held, sub,
                   unread, pending, restarts, sinceT, sinceR, probe, why,
                   ghosts>>

Plan(verified) ==
    /\ pc = "plan" /\ ~link
    /\ verified => ~Deaf
    /\ absent' = IF verified THEN Range(Rows) \ served ELSE absent
    /\ LET able == SelectSeq(Rows, LAMBDA a : a \notin absent' \cup refused) IN
       /\ targets' = SubSeq(able, 1, Least(Len(able), AttemptLimit))
       /\ pc' = IF able = <<>> THEN "top" ELSE "ping"
       /\ fails' = IF able = <<>> THEN 0 ELSE fails
    /\ UNCHANGED <<env, held, sub, unread, pending, restarts, sinceT, sinceR,
                   refused, why, ghosts>>

First(n) == {targets[i] : i \in 1 .. n}

(* The engine refuses the first n candidates, or what it does not serve,   *)
(* and answers the next one.                                               *)
PingAnswered(n, unauthorized) ==
    /\ pc = "ping" /\ ~Deaf /\ n < Len(targets)
    /\ targets[n + 1] \in served
    /\ refused' = IF unauthorized THEN refused ELSE refused \cup First(n)
    /\ fails' = 0 /\ pc' = "top" /\ targets' = <<>>
    /\ UNCHANGED <<env, held, sub, unread, pending, restarts, sinceT, sinceR,
                   absent, why, ghosts>>

(* Mutant: a tick whose every candidate is refused counts as a failure.    *)
MutPingRefused ==
    /\ pc = "ping" /\ ~Deaf
    /\ fails' = Least(fails + 1, 2) /\ targets' = <<>>
    /\ IF fails' < 2
         THEN pc' = "top" /\ UNCHANGED <<pending, restarts, sinceT, why, spent>>
         ELSE RequestRestart("ping", pending, restarts)
    /\ UNCHANGED <<env, held, sub, unread, sinceR, absent, refused, fault>>

(* Every candidate is refused: they are excluded and the tick is skipped.  *)
PingRefused ==
    /\ pc = "ping" /\ ~Deaf
    /\ refused' = refused \cup Range(targets)
    /\ fails' = 0 /\ pc' = "top" /\ targets' = <<>>
    /\ UNCHANGED <<env, held, sub, unread, pending, restarts, sinceT, sinceR,
                   absent, why, ghosts>>

(* An engine-scoped error ends the series: the second in a row asks for a  *)
(* restart.                                                                *)
PingFails ==
    /\ pc = "ping" /\ Deaf
    /\ fails' = Least(fails + 1, 2) /\ targets' = <<>>
    /\ IF fails' < 2
         THEN pc' = "top" /\ UNCHANGED <<pending, restarts, sinceT, why, spent>>
         ELSE RequestRestart("ping", pending, restarts)
    /\ UNCHANGED <<env, held, sub, unread, sinceR, absent, refused, fault>>

Tick == TickCrash \/ TickDeferred \/ TickOn

Probe ==
    \/ PlanLinkFlow \/ PlanListingFails \/ \E verified \in BOOLEAN : Plan(verified)
    \/ \E n \in 0 .. Len(targets), u \in BOOLEAN : PingAnswered(n, u)
    \/ PingRefused \/ PingFails

Environment ==
    \/ StartRuntime \/ StopRuntime \/ EngineExit \/ Hang \/ Recover
    \/ \E dies \in BOOLEAN : WebSocketError(dies)
    \/ Dequeue \/ LinkBegins \/ LinkEnds
    \/ \E a \in Range(Rows) : RefusalExpires(a)

Next ==
    \/ Environment \/ Beat
    \/ LoopTop \/ StderrLine \/ Tick \/ RestartEngine \/ RestartFails \/ Probe

Spec == Init /\ [][Next]_vars

-----------------------------------------------------------------------------
(* Properties                                                              *)

Source == {"stderr", "ping", "crash"}

(* The type of every variable.                                             *)
TypeOK ==
    /\ slot \in {"none", "run", "dead"} /\ ws \in BOOLEAN /\ hung \in BOOLEAN
    /\ served \subseteq Range(Rows) /\ link \in BOOLEAN
    /\ events \in 0 .. MaxEvents
    /\ pc \in {"top", "select", "restart", "plan", "ping"}
    /\ held \in {"none", "slot", "old"} /\ sub \in {"none", "slot", "old"}
    /\ unread \in BOOLEAN
    /\ pending \in {None} \cup
         [source : Source, due : 0 .. Window, evidence : BOOLEAN]
    /\ fails \in 0 .. 2 /\ restarts \in 0 .. Steps
    /\ sinceT \in 0 .. Far /\ sinceR \in 0 .. Cap
    /\ absent \subseteq Range(Rows) /\ refused \subseteq Range(Rows)
    /\ targets \in Seq(Range(Rows))
    /\ why \in {None} \cup [source : Source, deferred : BOOLEAN]
    /\ fault \in BOOLEAN
    /\ spent \in BOOLEAN

(* A restart of the watchdog ends well.                                    *)
Restarted == why # None /\ why' = None /\ slot' = "run"

(* "Only one fresh immediate restart can begin per window"                  *)
(* (WatchdogEpisode): whatever the triggers, evidence, failures and link    *)
(* flows, a restart of an episode under way waits out the doubling, capped  *)
(* backoff after the one before, and only a trigger-free gap longer than    *)
(* the window starts another episode.                                       *)
RestartsArePaced ==
    [][/\ Restarted => \/ restarts = 0 \/ sinceR >= Cap
                       \/ sinceR >= Base * 2 ^ (restarts - 1)
       /\ restarts' < restarts => sinceT > Window]_vars

(* A restart answers a fault: since the restart before, the engine exited,  *)
(* complained, stopped answering or was stopped by the host. An account the *)
(* engine does not serve is never the reason (the stale-row incident).      *)
RestartHasReason == [][Restarted => fault]_vars

Broken == slot = "dead" \/ (slot = "run" /\ (~ws \/ (hung /\ served # {})))

(* A dead receive path, a dead process or a silent engine is repaired, or   *)
(* the trigger it gave was spent: nobody was listening yet, a link flow     *)
(* suppressed it, the restart failed at once, or an envelope arrived.       *)
FaultIsRepaired ==
    Pooled => []<>(~Broken \/ spent)

(* The loop runs, calls are bounded by their timeouts, a restart by its own *)
(* ones, a link flow ends; a line that is ready is not passed over by the   *)
(* tick for ever (select! polls its branches in random order, and the tick  *)
(* is ready once per interval).                                             *)
Fairness ==
    /\ WF_vars(Beat) /\ WF_vars(LoopTop) /\ WF_vars(LinkEnds)
    /\ SF_vars(StderrLine) /\ WF_vars(Tick) /\ WF_vars(RestartEngine \/ RestartFails)
    /\ WF_vars(PlanLinkFlow \/ \E verified \in BOOLEAN : Plan(verified))
    /\ WF_vars(PingFails \/ PingRefused
                 \/ \E n \in 0 .. Len(targets), u \in BOOLEAN : PingAnswered(n, u))
    /\ \A a \in Range(Rows) : WF_vars(RefusalExpires(a))

FairSpec == Spec /\ Fairness
=============================================================================
