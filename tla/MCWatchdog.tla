----------------------------- MODULE MCWatchdog -----------------------------
(* An instance of Watchdog for TLC: one row, which the engine may or may    *)
(* not list, and backoffs 0, 1 and 2.                                       *)
EXTENDS Watchdog

CONSTANT known

MCRows == <<known>>

MCListings == {{}, {known}}
=============================================================================
