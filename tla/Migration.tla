----------------------------- MODULE Migration -----------------------------
(***************************************************************************)
(* The startup pass that moves every account's credential store out of its *)
(* proxy group's directory into the account's own engine slot              *)
(* (migrate.rs), one file operation at a time. The process can die between *)
(* any two of them and an operation can fail; the pass is then run again   *)
(* on what the file system shows.                                          *)
(*                                                                         *)
(* The file system is six sets of accounts:                                *)
(*   made    the slot directory exists                                     *)
(*   litter  it holds something beside a registry and the store: the       *)
(*           accounts directory, or a temporary registry                   *)
(*   named   its registry exists and names the account                     *)
(*   moved   the store is in the slot                                      *)
(*   listed  the registry of the group names the account                   *)
(*   kept    the store is in the group's directory                         *)
(* Rows are the account rows of the connector's database. A stray is a     *)
(* slot directory without a row; keyed strays hold credentials.            *)
(***************************************************************************)
EXTENDS Naturals

CONSTANTS Row, Stray, None, MaxFaults

VARIABLES made, litter, named, moved, listed, kept, strays, keyed,
          step, row, todo, faults

files == <<made, litter, named, moved, listed, kept>>
vars == <<made, litter, named, moved, listed, kept, strays, keyed,
          step, row, todo, faults>>

Working == {"mkdir", "accounts", "temp", "install", "move", "unlist",
            "repair", "verify"}
Ended == {"down", "serving", "refused", "failed"}

(* Accounts still in their group's directory, some with the empty slot     *)
(* directory of a rolled-back provision; accounts that were migrated or    *)
(* linked into a slot; rows without any credentials.                       *)
Init ==
    /\ listed \in SUBSET Row
    /\ kept = listed
    /\ moved \in SUBSET (Row \ listed)
    /\ named = moved
    /\ litter = moved
    /\ \E empty \in SUBSET (Row \ moved) : made = moved \cup empty
    /\ strays \in SUBSET Stray
    /\ keyed \in SUBSET strays
    /\ step = "down"
    /\ row = None
    /\ todo = {}
    /\ faults = 0

(* What migrate_account reads before it writes anything.                   *)
Complete(a) == a \in named /\ a \in moved

Unsafe(a) ==
    /\ ~Complete(a)
    /\ \/ a \in named /\ ~(a \in listed /\ a \in kept)
       \/ a \notin named /\ a \in made /\ a \in litter \cup moved
       \/ a \in listed /\ a \in kept /\ a \in moved
       \/ a \in listed /\ a \notin kept /\ a \notin moved

Unprovisioned(a) == ~Complete(a) /\ ~Unsafe(a) /\ a \notin listed

Start ==
    /\ step = "down"
    /\ step' = "rows"
    /\ todo' = Row
    /\ UNCHANGED <<files, strays, keyed, row, faults>>

(* A row with nothing to do: already in its slot, or without credentials.  *)
PassOver(a) ==
    /\ step = "rows" /\ a \in todo
    /\ \/ Complete(a) /\ a \notin listed
       \/ Unprovisioned(a)
    /\ todo' = todo \ {a}
    /\ UNCHANGED <<files, strays, keyed, step, row, faults>>

(* In its slot, but the group's registry still names it.                   *)
FindStale(a) ==
    /\ step = "rows" /\ a \in todo
    /\ Complete(a) /\ a \in listed
    /\ step' = "repair" /\ row' = a
    /\ UNCHANGED <<files, strays, keyed, todo, faults>>

Refuse(a) ==
    /\ step = "rows" /\ a \in todo
    /\ Unsafe(a)
    /\ step' = "refused"
    /\ UNCHANGED <<files, strays, keyed, row, todo, faults>>

Plan(a) ==
    /\ step = "rows" /\ a \in todo
    /\ ~Complete(a) /\ ~Unsafe(a) /\ a \in listed
    /\ step' = "mkdir" /\ row' = a
    /\ UNCHANGED <<files, strays, keyed, todo, faults>>

MakeSlot ==
    /\ step = "mkdir"
    /\ made' = made \cup {row}
    /\ step' = "accounts"
    /\ UNCHANGED <<litter, named, moved, listed, kept, strays, keyed, row,
                   todo, faults>>

MakeAccounts ==
    /\ step = "accounts"
    /\ litter' = litter \cup {row}
    /\ step' = "temp"
    /\ UNCHANGED <<made, named, moved, listed, kept, strays, keyed, row,
                   todo, faults>>

WriteTemp ==
    /\ step = "temp"
    /\ litter' = litter \cup {row}
    /\ step' = "install"
    /\ UNCHANGED <<made, named, moved, listed, kept, strays, keyed, row,
                   todo, faults>>

MutInstall ==
    /\ step = "install"
    /\ named' = IF row \in moved THEN named \cup {row} ELSE named
    /\ step' = IF row \in moved THEN "unlist" ELSE "move"
    /\ UNCHANGED <<made, litter, moved, listed, kept, strays, keyed, row,
                   todo, faults>>

(* (1) The registry of the slot, before the store.                         *)
Install ==
    /\ step = "install"
    /\ named' = named \cup {row}
    /\ step' = IF row \in moved THEN "unlist" ELSE "move"
    /\ UNCHANGED <<made, litter, moved, listed, kept, strays, keyed, row,
                   todo, faults>>

(* (2) The rename of the store's directory.                                *)
MoveStore ==
    /\ step = "move"
    /\ kept' = kept \ {row}
    /\ moved' = moved \cup {row}
    /\ step' = "unlist"
    /\ UNCHANGED <<made, litter, named, listed, strays, keyed, row, todo,
                   faults>>

(* A failed rename takes the slot's registry back and gives up.            *)
MoveFails ==
    /\ step = "move" /\ faults < MaxFaults
    /\ named' = named \ {row}
    /\ step' = "failed"
    /\ faults' = faults + 1
    /\ UNCHANGED <<made, litter, moved, listed, kept, strays, keyed, row,
                   todo>>

MutUnlist ==
    /\ step = "unlist"
    /\ step' = "verify"
    /\ UNCHANGED <<made, litter, named, moved, listed, kept, strays, keyed,
                   row, todo, faults>>

(* (3) The registry of the group, without the account.                     *)
Unlist ==
    /\ step = "unlist"
    /\ listed' = listed \ {row}
    /\ step' = "verify"
    /\ UNCHANGED <<made, litter, named, moved, kept, strays, keyed, row,
                   todo, faults>>

(* (4) Read back what was written.                                         *)
Verify ==
    /\ step = "verify"
    /\ step' = IF Complete(row) THEN "rows" ELSE "refused"
    /\ todo' = todo \ {row}
    /\ UNCHANGED <<files, strays, keyed, row, faults>>

Repair ==
    /\ step = "repair"
    /\ listed' = listed \ {row}
    /\ step' = "rows"
    /\ todo' = todo \ {row}
    /\ UNCHANGED <<made, litter, named, moved, kept, strays, keyed, row,
                   faults>>

(* Slot directories without a row: credentials stop the start, anything    *)
(* else is the leftover of a rolled-back link.                             *)
RemoveStray(o) ==
    /\ step = "rows" /\ todo = {} /\ o \in strays \ keyed
    /\ strays' = strays \ {o}
    /\ UNCHANGED <<files, keyed, step, row, todo, faults>>

RefuseStray(o) ==
    /\ step = "rows" /\ todo = {} /\ o \in strays \cap keyed
    /\ step' = "refused"
    /\ UNCHANGED <<files, strays, keyed, row, todo, faults>>

Serve ==
    /\ step = "rows" /\ todo = {} /\ strays = {}
    /\ step' = "serving"
    /\ UNCHANGED <<files, strays, keyed, row, todo, faults>>

(* Any other operation that fails leaves the files as they are; a failed   *)
(* install removes its temporary file, and the accounts directory stays.   *)
OperationFails ==
    /\ step \in (Working \cup {"rows"}) \ {"move"} /\ faults < MaxFaults
    /\ step' = "failed"
    /\ faults' = faults + 1
    /\ UNCHANGED <<files, strays, keyed, row, todo>>

Crash ==
    /\ step \notin {"down", "refused", "failed"} /\ faults < MaxFaults
    /\ step' = "down"
    /\ row' = None /\ todo' = {}
    /\ faults' = faults + 1
    /\ UNCHANGED <<files, strays, keyed>>

(* The process that gave up has exited; the host starts it again.          *)
StartAgain ==
    /\ step \in {"refused", "failed"}
    /\ step' = "down"
    /\ row' = None /\ todo' = {}
    /\ UNCHANGED <<files, strays, keyed, faults>>

Next ==
    \/ Start
    \/ \E a \in Row : PassOver(a) \/ FindStale(a) \/ Refuse(a) \/ Plan(a)
    \/ MakeSlot \/ MakeAccounts \/ WriteTemp \/ Install
    \/ MoveStore \/ MoveFails \/ Unlist \/ Verify \/ Repair
    \/ \E o \in Stray : RemoveStray(o) \/ RefuseStray(o)
    \/ Serve \/ OperationFails \/ Crash \/ StartAgain

Spec == Init /\ [][Next]_vars

-----------------------------------------------------------------------------

(* The sets, the steps, and a row in hand exactly while one is worked on.  *)
TypeOK ==
    /\ \A s \in {made, litter, named, moved, listed, kept, todo} :
          s \subseteq Row
    /\ keyed \subseteq Stray /\ strays \subseteq Stray
    /\ step \in Working \cup Ended \cup {"rows"}
    /\ row \in Row \cup {None}
    /\ step \in Working => row \in Row
    /\ faults \in 0..MaxFaults

(* No half-migrated serve: when the pass lets the connector serve, no      *)
(* group directory holds a store or names an account any more, every store *)
(* is in a slot whose registry names its account, and no slot with         *)
(* credentials is without a row.                                           *)
ServedWhole ==
    step = "serving" =>
        kept = {} /\ listed = {} /\ moved \subseteq named /\ strays = {}

(* Whatever fails or dies, no step of the pass loses a store, leaves two   *)
(* copies of one, or leaves a store in a slot whose registry does not name *)
(* it.                                                                     *)
StoresStay ==
    [][/\ kept' \cup moved' = kept \cup moved
       /\ kept' \cap moved' = {}
       /\ moved' \subseteq named']_vars

(* What the module's header says of the first step: a crash can never      *)
(* leave a target directory whose registry is missing, so the next pass    *)
(* resumes. It refuses only a slot with credentials and no row.            *)
ResumedAfterCrash ==
    step = "refused" => \E o \in strays : o \in keyed
=============================================================================
