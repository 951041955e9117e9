--------------------------- MODULE WatchdogProofs ---------------------------
(***************************************************************************)
(* Proofs about the watchdog of one engine, for every listing, backoff,    *)
(* window and interval and any mix of triggers, link flows, faults and     *)
(* interventions of the host: restarts are paced, and answer a fault.      *)
(***************************************************************************)
EXTENDS Watchdog, TLAPS

(* Zenon proves the leaves that do not name another prover.                *)
USE ZenonT(30)

-----------------------------------------------------------------------------
(* A restart answers a fault.                                              *)
(*                                                                         *)
(* Only a successful restart forgets the fault, and it returns to the top  *)
(* of the loop, where the handle and the subscription are taken anew. So   *)
(* what the loop looks at past the top is evidence of the present engine.  *)

(* What the loop may take for a fault is one.                              *)
Evident ==
    /\ slot \in {"none", "run", "dead"}
    /\ hung => fault
    /\ slot = "dead" => fault
    /\ held = "slot" => slot # "none"
    /\ sub = "slot" => slot # "none"
    /\ pc # "top" /\ held = "old" => fault
    /\ unread => sub # "none"
    /\ unread /\ (pc # "top" \/ sub = "slot") => fault
    /\ pending # None => fault
    /\ why # None => pc = "restart"
    /\ pc = "restart" => fault

LEMMA InitEvident == Init => Evident
BY DEF Init, Evident

LEMMA NextEvident == Evident /\ [Next]_vars => Evident'
<1> SUFFICES ASSUME Evident, [Next]_vars PROVE Evident'
    OBVIOUS
<1> USE DEF Evident
<1>1. CASE StartRuntime
    BY <1>1 DEF StartRuntime, Replaced, timing
<1>2. CASE StopRuntime
    BY <1>2 DEF StopRuntime, timing
<1>3. CASE EngineExit
    BY <1>3 DEF EngineExit, timing
<1>4. CASE Hang
    BY <1>4 DEF Hang, timing
<1>5. CASE Recover
    BY <1>5 DEF Recover, timing, ghosts
<1>6. ASSUME NEW dies \in BOOLEAN, WebSocketError(dies) PROVE Evident'
    BY <1>6 DEF WebSocketError, timing
<1>7. CASE Dequeue
    BY SMTT(30), <1>7 DEF Dequeue, env, ghosts
<1>8. CASE LinkBegins \/ LinkEnds
    <2>1. UNCHANGED <<slot, hung, pc, held, sub, unread, pending, why, fault>>
        BY <1>8 DEF LinkBegins, LinkEnds, timing, ghosts
    <2> QED
        BY <2>1
<1>9. ASSUME NEW a, RefusalExpires(a) PROVE Evident'
    BY <1>9 DEF RefusalExpires, env, timing, ghosts
<1>10. CASE Beat
    BY SMTT(30), <1>10 DEF Beat, env
<1>11. CASE LoopTop
    BY <1>11 DEF LoopTop, env, timing, ghosts
<1>12. CASE StderrLine
    BY <1>12 DEF StderrLine, RequestRestart, env
<1>13. CASE TickCrash
    BY <1>13 DEF TickCrash, RequestRestart, env, Terminal
<1>14. CASE TickDeferred
    BY <1>14 DEF TickDeferred, IsDue, Kept, env, timing, ghosts
<1>15. CASE TickOn
    BY <1>15 DEF TickOn, Kept, env
<1>16. CASE RestartEngine
    BY <1>16 DEF RestartEngine, Replaced
<1>17. CASE RestartFails
    BY <1>17 DEF RestartFails
<1>18. CASE PlanLinkFlow
    BY <1>18 DEF PlanLinkFlow, env, timing, ghosts
<1>19. CASE PlanListingFails
    BY <1>19 DEF PlanListingFails, ghosts
<1>20. ASSUME NEW verified \in BOOLEAN, Plan(verified) PROVE Evident'
    BY <1>20 DEF Plan, env, ghosts
<1>21. ASSUME NEW n, NEW u, PingAnswered(n, u) PROVE Evident'
    BY <1>21 DEF PingAnswered, env, ghosts
<1>22. CASE PingRefused
    BY <1>22 DEF PingRefused, env, ghosts
<1>23. CASE PingFails
    BY <1>23 DEF PingFails, RequestRestart, env, Deaf, Terminal
<1>24. CASE UNCHANGED vars
    BY <1>24 DEF vars, env, timing, ghosts
<1> QED
    BY <1>1, <1>2, <1>3, <1>4, <1>5, <1>6, <1>7, <1>8, <1>9, <1>10, <1>11,
       <1>12, <1>13, <1>14, <1>15, <1>16, <1>17, <1>18, <1>19, <1>20, <1>21,
       <1>22, <1>23, <1>24 DEF Next, Environment, Tick, Probe

(* No restart without an exit, a complaint, a silence or a stop of the     *)
(* engine since the restart before: an account it does not serve, a stale  *)
(* subscription or handle, or a deferred restart that outlived its engine  *)
(* are never the reason.                                                   *)
THEOREM NoRestartWithoutReason == Spec => RestartHasReason
<1>1. Evident /\ [Next]_vars => [Restarted => fault]_vars
    BY DEF Evident, Restarted
<1> QED
    BY <1>1, InitEvident, NextEvident, PTL DEF Spec, RestartHasReason

-----------------------------------------------------------------------------
(* Restarts are paced.                                                     *)
(*                                                                         *)
(* The deferred restart is the hard part: it is armed under one backoff    *)
(* and falls due under whatever the episode has become. Its due time and   *)
(* the time since the last restart add up to the backoff, beat by beat,    *)
(* and the backoff can only be reset meanwhile: a restart that would raise *)
(* it drops the deferred one.                                              *)

(* The backoff is a number of beats, zero for a fresh episode.             *)
LEMMA BackoffRange ==
    /\ Backoff(0) = 0
    /\ \A n \in 0 .. Steps : Backoff(n) \in 0 .. Cap
<1>1. Backoff(0) = 0
    BY DEF Backoff
<1>2. ASSUME NEW n \in 1 .. Steps PROVE Backoff(n) \in 0 .. Cap
    <2> DEFINE X == Base * 2 ^ (n - 1)
    <2>1. X \in Nat /\ Cap \in Nat /\ n # 0
        BY SMTT(30), WatchdogAssumption
    <2>2. Backoff(n) = Least(X, Cap)
        BY <2>1 DEF Backoff
    <2> HIDE DEF X
    <2> QED
        BY SMTT(30), <2>1, <2>2 DEF Least
<1>3. 0 \in 0 .. Cap /\ \A n \in 0 .. Steps : n = 0 \/ n \in 1 .. Steps
    BY SMTT(30), WatchdogAssumption
<1> QED
    BY <1>1, <1>2, <1>3

Deferred == [source : Source, due : Nat, evidence : BOOLEAN]

Clocks ==
    /\ sinceR \in 0 .. Cap /\ restarts \in 0 .. Steps /\ sinceT \in Nat
    /\ pending \in Deferred \cup {None}

(* What is still to be waited for.                                         *)
Waits(p, n) == p # None => sinceR = Cap \/ sinceR + p.due >= Backoff(n)

Paced ==
    /\ Clocks
    /\ Waits(pending, restarts)
    /\ why # None => pc = "restart"
    /\ pc = "restart" => sinceR >= Backoff(restarts)
    /\ pc = "restart" /\ why.deferred => pending \in Deferred

(* The restart drops only when the episode is over.                        *)
Fresh == restarts' < restarts => sinceT > Window

(* No deferred restart waits longer for a fresh episode.                   *)
LEMMA FreshWaits ==
    ASSUME Clocks, NEW p \in Deferred \cup {None}, NEW n \in 0 .. Steps,
           Waits(p, n)
    PROVE  Waits(p, 0)
<1>1. CASE p = None
    BY <1>1 DEF Waits
<1>2. CASE p \in Deferred
    <2>1. sinceR \in Nat /\ p.due \in Nat
        BY SMTT(30), <1>2, WatchdogAssumption DEF Clocks, Deferred
    <2> QED
        BY SMTT(30), <2>1, BackoffRange DEF Waits
<1> QED
    BY <1>1, <1>2

(* A request is suppressed, throttled or granted.                          *)
LEMMA RequestPaced ==
    ASSUME Clocks, NEW source \in Source, NEW p \in Deferred \cup {None},
           NEW n \in 0 .. Steps, Waits(p, n), why = None,
           RequestRestart(source, p, n), UNCHANGED sinceR
    PROVE  /\ Paced'
           /\ restarts' = n \/ (restarts' = 0 /\ sinceT > Window)
<1> DEFINE r == IF sinceT > Window THEN 0 ELSE n
           c == [source |-> source, due |-> Backoff(r) - sinceR,
                 evidence |-> FALSE]
<1>1. r \in 0 .. Steps /\ (r = n \/ (r = 0 /\ sinceT > Window))
    BY SMTT(30), WatchdogAssumption
<1>2. restarts' = r /\ sinceT' = 0
    BY DEF RequestRestart
<1>3. Waits(p, r)
    BY <1>1, FreshWaits
<1>4. Backoff(r) \in 0 .. Cap
    BY <1>1, BackoffRange
<1>5. /\ \/ pending' = p \/ (pending' = c /\ sinceR < Backoff(r))
         \/ (p \in Deferred /\ pending' = [c EXCEPT !.evidence = p.evidence]
               /\ sinceR < Backoff(r))
      /\ \/ pc' = "top" /\ why' = None
         \/ /\ pc' = "restart" /\ sinceR >= Backoff(r)
            /\ why' = [source |-> source, deferred |-> FALSE]
    BY DEF RequestRestart, ArmPendingRestart
<1> HIDE DEF r
<1>6. pending' \in Deferred \cup {None} /\ Waits(pending', r)
    <2>1. CASE pending' = p
        BY <1>3, <2>1
    <2>2. ASSUME sinceR < Backoff(r), NEW e \in BOOLEAN,
                 pending' = [source |-> source, due |-> Backoff(r) - sinceR,
                             evidence |-> e]
          PROVE  pending' \in Deferred \cup {None} /\ Waits(pending', r)
        <3>1. /\ Backoff(r) - sinceR \in Nat
              /\ sinceR + (Backoff(r) - sinceR) >= Backoff(r)
            BY SMTT(30), <1>4, <2>2, WatchdogAssumption DEF Clocks
        <3>2. pending'.due = Backoff(r) - sinceR
            BY <2>2
        <3> QED
            BY <2>2, <3>1, <3>2 DEF Deferred, Waits
    <2>3. CASE pending' = c /\ sinceR < Backoff(r)
        BY <2>2, <2>3
    <2>4. CASE /\ p \in Deferred /\ sinceR < Backoff(r)
               /\ pending' = [c EXCEPT !.evidence = p.evidence]
        <3>1. p.evidence \in BOOLEAN
            BY <2>4 DEF Deferred
        <3>2. pending' = [source |-> source, due |-> Backoff(r) - sinceR,
                          evidence |-> p.evidence]
            BY SMTT(30), <2>4
        <3> QED
            BY <2>2, <2>4, <3>1, <3>2
    <2> QED
        BY <1>5, <2>1, <2>3, <2>4
<1>7. Clocks' /\ Waits(pending, restarts)'
    BY <1>1, <1>2, <1>6 DEF Clocks, Waits
<1>8. [source |-> source, deferred |-> FALSE].deferred = FALSE
    OBVIOUS
<1>9. Paced'
    BY <1>2, <1>5, <1>7, <1>8 DEF Paced
<1> QED
    BY <1>1, <1>2, <1>9

(* The loop goes on without a request and with the pending restart it had. *)
LEMMA QuietPaced ==
    ASSUME Paced, UNCHANGED <<pending, restarts, sinceT, sinceR>>,
           UNCHANGED <<pc, why>> \/ (pc' # "restart" /\ why' = None)
    PROVE  Paced' /\ restarts' = restarts
BY DEF Paced, Clocks, Waits

LEMMA InitPaced == Init => Paced
<1> SUFFICES ASSUME Init PROVE Paced
    OBVIOUS
<1>1. /\ Cap \in 0 .. Cap /\ 0 \in 0 .. Steps /\ Window + 1 \in Nat
    BY SMTT(30), WatchdogAssumption
<1> QED
    BY <1>1 DEF Init, Far, Paced, Clocks, Waits

(* A beat takes as much off the due time as it adds to the time waited.    *)
LEMMA BeatPaced == ASSUME Paced, Beat PROVE Paced' /\ restarts' = restarts
<1>1. /\ Clocks /\ Waits(pending, restarts) /\ pc' = pc /\ pc # "restart"
      /\ why' = why /\ restarts' = restarts /\ (why # None => pc = "restart")
    BY DEF Beat, Paced
<1>2. Backoff(restarts) \in 0 .. Cap
    BY <1>1, BackoffRange DEF Clocks
<1>3. sinceR' \in 0 .. Cap /\ sinceT' \in Nat
    BY SMTT(30), <1>1, WatchdogAssumption DEF Beat, Clocks, Least, Far
<1>4. pending' \in Deferred \cup {None} /\ Waits(pending, restarts)'
    <2>1. CASE pending = None
        BY <1>1, <2>1 DEF Beat, Waits
    <2>2. CASE pending # None /\ pending.due = 0
        <3>1. pending' = pending /\ pending \in Deferred
            BY <1>1, <2>2 DEF Beat, Clocks
        <3>2. sinceR' = Cap \/ sinceR' + 0 >= Backoff(restarts)
            BY SMTT(30), <1>1, <1>2, <2>2, WatchdogAssumption
               DEF Beat, Clocks, Waits, Least
        <3> QED
            BY <1>1, <2>2, <3>1, <3>2 DEF Waits
    <2>3. CASE pending # None /\ pending.due # 0
        <3>1. pending \in Deferred /\ pending.due \in Nat \ {0}
            BY <1>1, <2>3 DEF Clocks, Deferred
        <3>2. pending' = [pending EXCEPT !.due = pending.due - 1]
            BY <2>3 DEF Beat
        <3>3. pending' \in Deferred /\ pending'.due = pending.due - 1
            BY SMTT(30), <3>1, <3>2 DEF Deferred
        <3>4. sinceR' = Cap \/ sinceR' + (pending.due - 1) >= Backoff(restarts)
            BY SMTT(30), <1>1, <1>2, <2>3, <3>1, WatchdogAssumption
               DEF Beat, Clocks, Waits, Least
        <3> QED
            BY <1>1, <3>3, <3>4 DEF Waits
    <2> QED
        BY <2>1, <2>2, <2>3
<1> QED
    BY <1>1, <1>3, <1>4 DEF Paced, Clocks

(* What the tick keeps of the pending restart.                             *)
LEMMA TickPaced ==
    ASSUME Paced, Tick
    PROVE  Paced' /\ (restarts' = restarts \/ (restarts' = 0 /\ sinceT > Window))
<1>1. /\ Clocks /\ Waits(pending, restarts)
      /\ why # None => pc = "restart"
    BY DEF Paced
<1>2. /\ Episode \in 0 .. Steps
      /\ Episode = restarts \/ (Episode = 0 /\ sinceT > Window)
    BY SMTT(30), <1>1, WatchdogAssumption DEF Episode, Clocks
<1>3. CASE TickCrash
    <2>1. why = None /\ Waits(None, Episode) /\ "crash" \in Source
        BY <1>1, <1>3 DEF TickCrash, Waits, Source
    <2>2. RequestRestart("crash", None, Episode) /\ UNCHANGED sinceR
        BY <1>3 DEF TickCrash
    <2>3. Paced' /\ (restarts' = Episode \/ (restarts' = 0 /\ sinceT > Window))
        BY <1>1, <1>2, <2>1, <2>2, RequestPaced
    <2> QED
        BY <1>2, <2>3
<1>4. CASE TickDeferred
    <2>1. /\ pending # None /\ pending.due = 0
          /\ UNCHANGED <<pending, restarts, sinceT, sinceR>>
          /\ pc' = "restart"
        BY <1>4 DEF TickDeferred, IsDue, Kept, timing
    <2>2. sinceR >= Backoff(restarts)
        <3>1. Backoff(restarts) \in 0 .. Cap
            BY <1>1, BackoffRange DEF Clocks
        <3> QED
            BY SMTT(30), <1>1, <2>1, <3>1, WatchdogAssumption DEF Waits, Clocks
    <2> QED
        BY <1>1, <2>1, <2>2 DEF Paced, Clocks, Waits
<1>5. CASE TickOn
    <2>1. /\ pc' # "restart" /\ why' = why /\ why = None
          /\ pending' = Kept /\ restarts' = Episode
          /\ UNCHANGED <<sinceT, sinceR>>
        BY <1>1, <1>5 DEF TickOn
    <2>2. Kept \in Deferred \cup {None} /\ Waits(Kept, Episode)
        <3>1. CASE Kept = None
            BY <3>1 DEF Waits
        <3>2. CASE Kept # None
            BY <1>1, <3>2 DEF Kept, Episode, Clocks
        <3> QED
            BY <3>1, <3>2
    <2>3. Clocks' /\ Waits(pending, restarts)'
        BY <1>1, <1>2, <2>1, <2>2 DEF Clocks, Waits
    <2> QED
        BY <1>2, <2>1, <2>3 DEF Paced
<1> QED
    BY <1>3, <1>4, <1>5 DEF Tick

(* A restart ends: a good one drops the deferred restart, a failed one     *)
(* sets it one interval off.                                               *)
LEMMA RestartPaced ==
    ASSUME Paced, RestartEngine \/ RestartFails
    PROVE  Paced' /\ restarts' >= restarts
<1>1. /\ Clocks /\ Waits(pending, restarts)
      /\ pc = "restart" => sinceR >= Backoff(restarts)
      /\ pc = "restart" /\ why.deferred => pending \in Deferred
    BY DEF Paced
<1>2. CASE RestartEngine
    <2>1. /\ pc' = "top" /\ why' = None /\ pending' = None /\ sinceT' = sinceT
          /\ sinceR' = 0 /\ restarts' = Least(restarts + 1, Steps)
        BY <1>2 DEF RestartEngine
    <2>2. 0 \in 0 .. Cap /\ restarts' \in 0 .. Steps /\ restarts' >= restarts
        BY SMTT(30), <1>1, <2>1, WatchdogAssumption DEF Clocks, Least
    <2>3. sinceT \in Nat
        BY <1>1 DEF Clocks
    <2> QED
        BY <2>1, <2>2, <2>3 DEF Paced, Clocks, Waits
<1>3. CASE RestartFails
    <2>1. /\ pc = "restart" /\ pc' = "top" /\ why' = None
          /\ UNCHANGED <<restarts, sinceT, sinceR>>
          /\ \/ pending' = pending
             \/ why.deferred /\ pending' = [pending EXCEPT !.due = Interval]
        BY <1>3 DEF RestartFails
    <2>2. pending' \in Deferred \cup {None} /\ Waits(pending, restarts)'
        <3>1. CASE pending' = pending
            BY <1>1, <2>1, <3>1 DEF Clocks, Waits
        <3>2. CASE why.deferred /\ pending' = [pending EXCEPT !.due = Interval]
            <4>1. pending \in Deferred /\ Interval \in Nat
                BY <1>1, <2>1, <3>2, WatchdogAssumption DEF Clocks
            <4>2. pending' \in Deferred /\ pending'.due = Interval
                BY <3>2, <4>1 DEF Deferred
            <4>3. Backoff(restarts) \in 0 .. Cap
                BY <1>1, BackoffRange DEF Clocks
            <4>4. sinceR + Interval >= Backoff(restarts)
                BY SMTT(30), <1>1, <2>1, <4>1, <4>3, WatchdogAssumption DEF Clocks
            <4> QED
                BY <2>1, <4>2, <4>4 DEF Waits
        <3> QED
            BY <2>1, <3>1, <3>2
    <2>3. restarts \in 0 .. Steps => restarts >= restarts
        BY SMTT(30), WatchdogAssumption
    <2> QED
        BY <1>1, <2>1, <2>2, <2>3 DEF Paced, Clocks
<1> QED
    BY <1>2, <1>3

(* One step keeps the pace, and a step that lowers the count of the        *)
(* episode's restarts comes after a gap longer than the window.            *)
LEMMA NextPaced == Paced /\ [Next]_vars => Paced' /\ Fresh
<1> SUFFICES ASSUME Paced, [Next]_vars PROVE Paced' /\ Fresh
    OBVIOUS
<1>1. /\ Clocks /\ Waits(pending, restarts)
      /\ why # None => pc = "restart"
    BY DEF Paced
<1>2. ASSUME \/ restarts' = restarts \/ (restarts' = 0 /\ sinceT > Window)
             \/ restarts' >= restarts /\ restarts' \in 0 .. Steps
      PROVE  Fresh
    BY SMTT(30), <1>1, <1>2, WatchdogAssumption DEF Fresh, Clocks
<1>3. CASE Environment
    <2>1. CASE Dequeue
        <3>1. /\ pending \in Deferred
              /\ pending' = [pending EXCEPT !.evidence = TRUE]
              /\ UNCHANGED <<restarts, sinceT, sinceR, pc, why>>
            BY <1>1, <2>1 DEF Dequeue, Clocks
        <3>2. pending' \in Deferred /\ pending'.due = pending.due
            BY <3>1 DEF Deferred
        <3>3. Waits(pending, restarts)'
            BY <1>1, <2>1, <3>1, <3>2 DEF Waits, Dequeue
        <3> QED
            BY <1>1, <1>2, <3>1, <3>2, <3>3 DEF Paced, Clocks
    <2>2. CASE ~Dequeue
        <3>1. UNCHANGED <<pending, restarts, sinceT, sinceR, pc, why>>
            BY <1>3, <2>2 DEF Environment, StartRuntime, StopRuntime,
               EngineExit, Hang, Recover, WebSocketError, LinkBegins, LinkEnds,
               RefusalExpires, timing
        <3> QED
            BY <1>2, <3>1, QuietPaced
    <2> QED
        BY <2>1, <2>2
<1>4. CASE Beat
    BY <1>2, <1>4, BeatPaced
<1>5. CASE LoopTop
    <2>1. /\ UNCHANGED <<pending, restarts, sinceT, sinceR>>
          /\ pc' # "restart" /\ why' = None
        BY <1>1, <1>5 DEF LoopTop, timing
    <2> QED
        BY <1>2, <2>1, QuietPaced
<1>6. CASE StderrLine
    <2>1. /\ why = None /\ "stderr" \in Source /\ UNCHANGED sinceR
          /\ RequestRestart("stderr", pending, restarts)
        BY <1>1, <1>6 DEF StderrLine, Source
    <2>2. pending \in Deferred \cup {None} /\ restarts \in 0 .. Steps
        BY <1>1 DEF Clocks
    <2> QED
        BY <1>1, <1>2, <2>1, <2>2, RequestPaced
<1>7. CASE Tick
    BY <1>2, <1>7, TickPaced
<1>8. CASE RestartEngine \/ RestartFails
    <2>1. Paced' /\ restarts' >= restarts
        BY <1>8, RestartPaced
    <2> QED
        BY <1>2, <2>1 DEF Paced, Clocks
<1>9. CASE Probe
    <2>1. CASE PingFails /\ ~(fails' < 2)
        <3>1. /\ why = None /\ "ping" \in Source /\ UNCHANGED sinceR
              /\ RequestRestart("ping", pending, restarts)
            BY <1>1, <2>1 DEF PingFails, Source
        <3>2. pending \in Deferred \cup {None} /\ restarts \in 0 .. Steps
            BY <1>1 DEF Clocks
        <3> QED
            BY <1>1, <1>2, <3>1, <3>2, RequestPaced
    <2>2. CASE ~(PingFails /\ ~(fails' < 2))
        <3>1. /\ UNCHANGED <<pending, restarts, sinceT, sinceR, why>>
              /\ pc' # "restart" /\ pc # "restart"
            BY <1>9, <2>2 DEF Probe, PlanLinkFlow, PlanListingFails, Plan,
               PingAnswered, PingRefused, PingFails, timing
        <3> QED
            BY <1>1, <1>2, <3>1, QuietPaced
    <2> QED
        BY <2>1, <2>2
<1>10. CASE UNCHANGED vars
    <2>1. UNCHANGED <<pending, restarts, sinceT, sinceR, pc, why>>
        BY <1>10 DEF vars, timing
    <2> QED
        BY <1>2, <2>1, QuietPaced
<1> QED
    BY <1>3, <1>4, <1>5, <1>6, <1>7, <1>8, <1>9, <1>10 DEF Next

(* For every base, cap, window and interval: a restart of an episode under *)
(* way comes no sooner than the doubling, capped backoff after the one     *)
(* before (watchdog_restart_backoff), deferred or not, and the episode     *)
(* ends only with a trigger-free gap longer than the window.               *)
THEOREM RestartsKeepThePace == Spec => RestartsArePaced
<1>1. Paced /\ [Next]_vars
        => [/\ Restarted => \/ restarts = 0 \/ sinceR >= Cap
                            \/ sinceR >= Base * 2 ^ (restarts - 1)
            /\ restarts' < restarts => sinceT > Window]_vars
    <2> SUFFICES ASSUME Paced, [Next]_vars
                 PROVE  /\ Restarted => \/ restarts = 0 \/ sinceR >= Cap
                                        \/ sinceR >= Base * 2 ^ (restarts - 1)
                        /\ restarts' < restarts => sinceT > Window
        OBVIOUS
    <2>1. restarts' < restarts => sinceT > Window
        BY NextPaced DEF Fresh
    <2>2. Restarted => sinceR >= Backoff(restarts)
        BY DEF Restarted, Paced
    <2>3. Restarted => \/ restarts = 0 \/ sinceR >= Cap
                       \/ sinceR >= Base * 2 ^ (restarts - 1)
        BY <2>2 DEF Backoff, Least
    <2> QED
        BY <2>1, <2>3
<1>2. Paced /\ [Next]_vars => Paced'
    BY NextPaced
<1> QED
    BY <1>1, <1>2, InitPaced, PTL DEF Spec, RestartsArePaced
=============================================================================
