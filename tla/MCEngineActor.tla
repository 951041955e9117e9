---------------------------- MODULE MCEngineActor ----------------------------
(* Instances of EngineActor for TLC.                                        *)
EXTENDS EngineActor
=============================================================================
