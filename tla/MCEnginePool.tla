---------------------------- MODULE MCEnginePool ----------------------------
(***************************************************************************)
(* Instances of EnginePool for TLC.                                        *)
(***************************************************************************)
EXTENDS EnginePool, TLC

CONSTANTS a, b, t1, t2, n, m

(* What may run together. One slot at a time: the lanes of the registry,   *)
(* with and without the reaper. Two slots: commits, deletions, faults, and *)
(* the demotions of a window of one.                                       *)
Lanes == {{"link", "finish", "cancel", "list", "reap", "exit"},
          {"link", "cancel", "stop", "start", "list", "exit", "crash"}}

Commits == {{"link", "finish", "request", "delete", "exit", "crash"},
            {"link", "finish", "cancel", "reap", "request", "exit"},
            {"link", "finish", "request", "delete", "fault"},
            {"link", "finish", "request", "stop", "start"}}

Symmetry == Permutations({a, b}) \cup Permutations({t1, t2})
=============================================================================
