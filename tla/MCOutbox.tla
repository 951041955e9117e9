------------------------------ MODULE MCOutbox ------------------------------
(* Small instances of Outbox for TLC.                                       *)
EXTENDS Outbox

(* One account, one slot, two messages; m2 carries an attachment.          *)
OneSlot == {"s1"}
OneHost == {"h1"}
TwoMsgs == {"m1", "m2"}
OnlyM2 == {"m2"}
OneAccount == {"a1"}
OneAccountOf == [m \in Msg |-> "a1"]
OneHomeOf == [a \in Account |-> "s1"]
OneGroupOf == [s \in Slot |-> "g1"]
AttachmentM2 == [m \in Msg |-> IF m = "m2" THEN "attachment" ELSE "text"]
NoQuote == [m \in Msg |-> NULL]
MCBackoff == [n \in 1..MaxAttempts |-> IF n = 1 THEN 0 ELSE 1]

=============================================================================
