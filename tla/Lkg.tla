-------------------------------- MODULE Lkg --------------------------------
(* The runtime layout of lkg.rs: immutable version directories and three   *)
(* pointer files, staged.json, active.json and lkg.json, moved by the      *)
(* package commands stage, activate and rollback. Every pointer write is   *)
(* an atomic rename (write_pointer), so a crash or an I/O error falls      *)
(* between two of them and leaves each pointer whole.                      *)
(*                                                                         *)
(* Abstractions. A pointer is the version it names; its time stamp is left *)
(* out. A version verifies until its files are damaged: intact is what     *)
(* verify_version accepts, under whichever trust policy the command has.   *)
(* The hidden copy that stage verifies before it publishes it is not       *)
(* state: it is removed or never looked at again. One command runs at a    *)
(* time, as the installer runs them.                                       *)
EXTENDS Naturals, FiniteSets

CONSTANTS Version, NoVersion, MaxDamage

(* NoVersion stands for a pointer file that is not there.                  *)
LkgAssumption == NoVersion \notin Version

VARIABLES
    published,    \* the directories under versions/
    intact,       \* those that verify
    staged, active, lkg,    \* the three pointers
    cmd,          \* the running command: what it does next, and for which version
    rolledBack    \* whether active was last written by a rollback

vars == <<published, intact, staged, active, lkg, cmd, rolledBack>>

Pointer == Version \cup {NoVersion}

NoCommand == [at |-> "idle", v |-> NoVersion, old |-> NoVersion]

Command ==
    [at : {"idle", "point", "keep", "switch", "unstage", "back"},
     v : Pointer, old : Pointer]

TypeOK ==
    /\ published \subseteq Version /\ intact \subseteq published
    /\ {staged, active, lkg} \subseteq published \cup {NoVersion}
    /\ cmd \in Command
    /\ rolledBack \in BOOLEAN

Init ==
    /\ published = {} /\ intact = {}
    /\ staged = NoVersion /\ active = NoVersion /\ lkg = NoVersion
    /\ cmd = NoCommand
    /\ rolledBack = FALSE

Idle == cmd.at = "idle"

(* stage_bundle: a new name only; the verified copy is published by a      *)
(* rename. A bundle that does not verify changes nothing.                  *)
Stage(v) ==
    /\ Idle
    /\ v \notin published
    /\ published' = published \cup {v}
    /\ intact' = intact \cup {v}
    /\ cmd' = [NoCommand EXCEPT !.at = "point", !.v = v]
    /\ UNCHANGED <<staged, active, lkg, rolledBack>>

WriteStaged ==
    /\ cmd.at = "point"
    /\ staged' = cmd.v
    /\ cmd' = NoCommand
    /\ UNCHANGED <<published, intact, active, lkg, rolledBack>>

(* Mutant: a replay puts the version it has already made active aside.     *)
MutKeepsOld == active # NoVersion /\ active \in intact

(* Whether activate puts the old version aside: only another one, and only *)
(* one that still verifies. A replay finds active at the staged version    *)
(* already, and "the current LKG is still the real last-known-good".       *)
KeepsOld == active # NoVersion /\ active # staged /\ active \in intact

(* activate_staged: without a staged version it answers the active one and *)
(* changes nothing, and a staged version that does not verify is refused.  *)
Activate ==
    /\ Idle
    /\ staged # NoVersion
    /\ staged \in intact
    /\ cmd' = [at |-> IF KeepsOld THEN "keep" ELSE "switch", v |-> staged,
               old |-> active]
    /\ UNCHANGED <<published, intact, staged, active, lkg, rolledBack>>

WriteLkg ==
    /\ cmd.at = "keep"
    /\ lkg' = cmd.old
    /\ cmd' = [cmd EXCEPT !.at = "switch"]
    /\ UNCHANGED <<published, intact, staged, active, rolledBack>>

WriteActive ==
    /\ cmd.at = "switch"
    /\ active' = cmd.v
    /\ rolledBack' = FALSE
    /\ cmd' = [cmd EXCEPT !.at = "unstage"]
    /\ UNCHANGED <<published, intact, staged, lkg>>

(* The removal of staged.json may fail; the command does not look.         *)
Unstage ==
    /\ cmd.at = "unstage"
    /\ staged' \in {NoVersion, staged}
    /\ cmd' = NoCommand
    /\ UNCHANGED <<published, intact, active, lkg, rolledBack>>

(* rollback_to_lkg                                                         *)
Rollback ==
    /\ Idle
    /\ lkg # NoVersion
    /\ lkg \in intact
    /\ cmd' = [NoCommand EXCEPT !.at = "back", !.v = lkg]
    /\ UNCHANGED <<published, intact, staged, active, lkg, rolledBack>>

WriteBack ==
    /\ cmd.at = "back"
    /\ active' = cmd.v
    /\ rolledBack' = TRUE
    /\ cmd' = NoCommand
    /\ UNCHANGED <<published, intact, staged, lkg>>

(* The command dies, or a pointer write fails and it returns the error.    *)
Die ==
    /\ ~Idle
    /\ cmd' = NoCommand
    /\ UNCHANGED <<published, intact, staged, active, lkg, rolledBack>>

(* Files of a published version are lost or altered.                       *)
Damage(v) ==
    /\ v \in intact
    /\ Cardinality(published \ intact) < MaxDamage
    /\ intact' = intact \ {v}
    /\ UNCHANGED <<published, staged, active, lkg, cmd, rolledBack>>

Next ==
    \/ \E v \in Version : Stage(v) \/ Damage(v)
    \/ WriteStaged \/ Activate \/ WriteLkg \/ WriteActive \/ Unstage
    \/ Rollback \/ WriteBack \/ Die

Spec == Init /\ [][Next]_vars

-----------------------------------------------------------------------------
(* "The current LKG is still the real last-known-good and must not be      *)
(* overwritten": over any crashes and replays, last-known-good is a way    *)
(* back from the active version. The two pointers agree only after a       *)
(* rollback, or while the version that is to replace the active one still  *)
(* waits in staged.json.                                                   *)
WayBack ==
    lkg # NoVersion /\ lkg = active =>
        rolledBack \/ (staged # NoVersion /\ staged # active)
=============================================================================
