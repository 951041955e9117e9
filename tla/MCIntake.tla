------------------------------ MODULE MCIntake ------------------------------
(* An instance of Intake for TLC: a message, its replay and a second one of *)
(* one account; of another a heavy message, an envelope without a row and a *)
(* huge one.                                                                *)
EXTENDS Intake

CONSTANTS e1, again, e2, e3, e4, huge, a, b

MCAccount == [e \in Envelope |-> IF e \in {e1, again, e2} THEN a ELSE b]

MCMessage == [e \in Envelope |-> IF e = again THEN e1 ELSE IF e \in {e4, huge} THEN None ELSE e]

MCWeight == [e \in Envelope |-> IF e = huge THEN 4 ELSE IF e = e3 THEN 2 ELSE 1]
=============================================================================
