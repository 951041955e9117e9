------------------------------- MODULE AtRest -------------------------------
(* What is kept on disk: Migration, and beside it instances of Ledger (the *)
(* rows), Media (the attachments) and Lkg (the installed runtime). They    *)
(* share no variable and no step: focus picks one of them at the start and *)
(* the variables of the others stay parked, so a run explores the sum of   *)
(* the four, not their product.                                            *)
EXTENDS Migration, FiniteSets

CONSTANTS
    parked,
    Id, Conv, Shell, Canon, Incoming, Mention, Timed, Once, AtOf, MaxAt,
    Named, Timer, Retention, Safety, Keep, Batch, SweepCap, MaxTime,
    MaxLandings,                                                   \* Ledger
    OnceAtt, PlainAtt, StoryAtt, LegacyAtt, Handle, Chunks, MaxHandles,
    HandleTTL, MediaTTL, Quota, Budget, MaxNow,                    \* Media
    Version, MaxDamage                                             \* Lkg

VARIABLES db, clock, hand, prune, landings,                    \* Ledger
          account, rows, own, old, stream, load, held, pass, now,  \* Media
          published, intact, staged, active, lkg, cmd, rolledBack,  \* Lkg
          focus

L == INSTANCE Ledger

M == INSTANCE Media WITH
        Once <- OnceAtt, Plain <- PlainAtt, Story <- StoryAtt,
        Legacy <- LegacyAtt, MaxTime <- MaxNow, row <- rows

K == INSTANCE Lkg WITH NoVersion <- None

(* Finitely many ids can be stored, each names the conversation it is born *)
(* in, and absence is no conversation, attachment or version.              *)
ASSUME RestAssumption ==
    /\ IsFiniteSet(Id) /\ None \notin Conv
    /\ {Shell, Canon} \subseteq Conv /\ Shell # Canon
    /\ \A i \in Id : i[2] \in Conv
    /\ OnceAtt \cap {"rows", None} = {} /\ {Chunks, HandleTTL} \subseteq Nat
    /\ K!LkgAssumption

inStore == <<db, clock, hand, prune, landings>>
attached == <<account, rows, own, old, stream, load, held, pass, now>>
runtime == <<published, intact, staged, active, lkg, cmd, rolledBack>>
all == <<vars, inStore, attached, runtime, focus>>

NoLedger ==
    db = parked /\ clock = parked /\ hand = parked /\ prune = parked
        /\ landings = parked
NoMedia ==
    /\ account = parked /\ rows = parked /\ own = parked /\ old = parked
    /\ stream = parked /\ load = parked /\ held = parked /\ pass = parked
    /\ now = parked
NoRuntime ==
    /\ published = parked /\ intact = parked /\ staged = parked
    /\ active = parked /\ lkg = parked /\ cmd = parked /\ rolledBack = parked
NoMigration ==
    /\ made = {} /\ litter = {} /\ named = {} /\ moved = {}
    /\ listed = {} /\ kept = {} /\ strays = {} /\ keyed = {}
    /\ step = "down" /\ row = None /\ todo = {} /\ faults = 0

RestInit ==
    \/ focus = "migration" /\ Init /\ NoLedger /\ NoMedia /\ NoRuntime
    \/ focus = "ledger" /\ L!Init /\ NoMigration /\ NoMedia /\ NoRuntime
    \/ focus = "media" /\ M!Init /\ NoMigration /\ NoLedger /\ NoRuntime
    \/ focus = "runtime" /\ K!Init /\ NoMigration /\ NoLedger /\ NoMedia

Migrate ==
    focus = "migration" /\ Next /\ UNCHANGED <<inStore, attached, runtime, focus>>

Keeping ==
    focus = "ledger" /\ L!Next /\ UNCHANGED <<vars, attached, runtime, focus>>

Serving ==
    focus = "media" /\ M!Next /\ UNCHANGED <<vars, inStore, runtime, focus>>

Installing ==
    focus = "runtime" /\ K!Next /\ UNCHANGED <<vars, inStore, attached, focus>>

RestNext == Migrate \/ Keeping \/ Serving \/ Installing

RestSpec == RestInit /\ [][RestNext]_all

(* Ledger!BadgeBacked: the badge never promises more mail than is held.    *)
BadgeBacked == focus = "ledger" => L!BadgeBacked

(* Media!StreamIsAllowed: no stream serves a burned message or a deleted   *)
(* account, though a download lands late or a crash kept the file.         *)
StreamIsAllowed == focus = "media" => M!StreamIsAllowed

(* Lkg!WayBack: over crashes and replays of activate, last-known-good is a *)
(* version other than the one just activated.                              *)
WayBack == focus = "runtime" => K!WayBack
=============================================================================
