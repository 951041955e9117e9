------------------------------ MODULE MCAtRest ------------------------------
(* AtRest with the values of a small instance, and what it promises only   *)
(* under fairness.                                                         *)
EXTENDS AtRest, TLC

CONSTANTS a1, a2, stray

MCIncoming == {"m1", "m2"}
MCId == {<<"m1", "number">>, <<"m2", "aci">>, <<"own", "aci">>,
         <<"own", "number">>}
MCAtOf == ("m1" :> 1) @@ ("m2" :> 2) @@ ("own" :> 2)
MCNamed == {[conv |-> "aci", at |-> 2]}

Sweeping ==
    focus = "ledger" /\ L!Sweep /\ UNCHANGED <<vars, attached, runtime, focus>>

Deleting ==
    focus = "ledger" /\ L!DeleteForMe /\ UNCHANGED <<vars, attached, runtime, focus>>

(* The sweeper's timer fires again and again, so its pass is taken.        *)
MCSpec == RestSpec /\ WF_all(Sweeping)

(* With the fairness of the receive lane too.                              *)
LaneSpec == MCSpec /\ WF_all(Deleting)

(* Ledger!TotalHeals: the account's total is again and again the sum of    *)
(* the badges, though a fold of two conversations leaves it wrong.         *)
TotalHeals ==
    []<>(focus = "ledger" => db.total = L!Sum(db.unread, Conv))

(* Ledger!DueRowLeaves: a disappearing message whose time has come leaves  *)
(* or is erased.                                                           *)
DueRowLeaves ==
    \A i \in {<<"m1", "number">>, <<"m2", "aci">>} :
        []<>(focus = "ledger" => ~L!Due(db, i))

(* store.rs, delete_messages_by_sent_at: "Remove the rows one              *)
(* delete-for-me sync names in one conversation".                          *)
NamedRowsGo ==
    (focus = "ledger" /\ hand # None)
        ~> (focus = "ledger" =>
              \/ hand = None
              \/ \A i \in L!Rows(db, "aci") : L!At(i) # 2)
=============================================================================
