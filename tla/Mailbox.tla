------------------------------ MODULE Mailbox ------------------------------
(***************************************************************************)
(* What the receive lane promises of the envelopes it admits: each one is  *)
(* stored and then released, in the order of admission, and an admitted    *)
(* envelope is given up only with the whole process.                       *)
(***************************************************************************)
EXTENDS Naturals, Sequences

CONSTANTS Envelope,
          RowsOf(_)  \* the rows an envelope asks for: one, or none

VARIABLES box,   \* the admitted envelopes that are not settled, in order
          rows,  \* the stored rows
          life   \* the processes that have ended

vars == <<box, rows, life>>

Init == box = <<>> /\ rows = {} /\ life = 0

Admit(e) == box' = Append(box, e) /\ UNCHANGED <<rows, life>>

(* The row of the oldest envelope is stored.                               *)
Store == /\ box # <<>>
         /\ rows' = rows \cup RowsOf(Head(box))
         /\ UNCHANGED <<box, life>>

(* The oldest envelope is released once its row is there, with the store   *)
(* or after it.                                                            *)
Settle == /\ box # <<>>
          /\ rows' = rows \cup RowsOf(Head(box))
          /\ box' = Tail(box) /\ UNCHANGED life

Crash == box' = <<>> /\ life' = life + 1 /\ UNCHANGED rows

Next == (\E e \in Envelope : Admit(e)) \/ Store \/ Settle \/ Crash

Spec == Init /\ [][Next]_vars
=============================================================================
