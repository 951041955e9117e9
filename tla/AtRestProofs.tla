---------------------------- MODULE AtRestProofs ----------------------------
(***************************************************************************)
(* Proofs about what is kept on disk, for any number of rows, strays,      *)
(* conversations, messages, attachments, streams and versions, and any     *)
(* faults and crashes.                                                     *)
(***************************************************************************)
EXTENDS AtRest, FiniteSetTheorems, TLAPS

(* Zenon proves the leaves that do not name another prover.                *)
USE ZenonT(30)

-----------------------------------------------------------------------------
(* Migration: what the startup pass serves is whole, and no step loses or  *)
(* doubles a store.                                                        *)

Before == {"mkdir", "accounts", "temp", "install", "move"}
After == {"unlist", "verify", "repair"}

Sets ==
    /\ named \subseteq Row /\ moved \subseteq Row
    /\ listed \subseteq Row /\ kept \subseteq Row
    /\ todo \subseteq Row
    /\ step \in Working \cup Ended \cup {"rows"}
    /\ step \in Working => row \in todo

(* Stores: one copy each, in a slot that names it or a group that lists it.*)
Stores ==
    /\ moved \subseteq named
    /\ kept \cap moved = {}
    /\ kept \subseteq listed

(* Where the account in hand is, by what was done for it.                  *)
Hand ==
    /\ step \in Before => row \in kept
    /\ step = "move" => row \in named
    /\ step \in After => row \in moved
    /\ step = "verify" => row \notin listed

(* The accounts that were gone through are no group's any more.            *)
Through ==
    /\ step \in Working \cup {"rows", "serving"} => listed \subseteq todo
    /\ step = "serving" => todo = {} /\ strays = {}

PassInv == Sets /\ Stores /\ Hand /\ Through

(* What StoresStay allows a step.                                          *)
Stay ==
    /\ kept' \cup moved' = kept \cup moved
    /\ kept' \cap moved' = {}
    /\ moved' \subseteq named'

(* The files the pass may find satisfy the invariant.                      *)
LEMMA InitPass == Init => PassInv
BY DEF Init, PassInv, Sets, Stores, Hand, Through, Working, Ended, Before, After

(* Every step of the pass, fault and crash keeps the invariant.            *)
LEMMA NextPass == PassInv /\ [Next]_vars => PassInv'
<1> SUFFICES ASSUME PassInv, [Next]_vars PROVE PassInv'
  OBVIOUS
<1> USE DEF PassInv, Sets, Stores, Hand, Through, Working, Ended, Before, After,
            files
<1>1. CASE Start
  BY <1>1 DEF Start
<1>2. ASSUME NEW a \in Row, PassOver(a) PROVE PassInv'
  BY <1>2 DEF PassOver, Complete, Unprovisioned
<1>3. ASSUME NEW a \in Row, FindStale(a) PROVE PassInv'
  BY <1>3 DEF FindStale, Complete
<1>4. ASSUME NEW a \in Row, Refuse(a) PROVE PassInv'
  BY <1>4 DEF Refuse
<1>5. ASSUME NEW a \in Row, Plan(a) PROVE PassInv'
  BY <1>5 DEF Plan, Complete, Unsafe
<1>6. CASE MakeSlot
  BY <1>6 DEF MakeSlot
<1>7. CASE MakeAccounts
  BY <1>7 DEF MakeAccounts
<1>8. CASE WriteTemp
  BY <1>8 DEF WriteTemp
<1>9. CASE Install
  BY <1>9 DEF Install
<1>10. CASE MoveStore
  BY <1>10 DEF MoveStore
<1>11. CASE MoveFails
  BY <1>11 DEF MoveFails
<1>12. CASE Unlist
  BY <1>12 DEF Unlist
<1>13. CASE Verify
  BY <1>13 DEF Verify, Complete
<1>14. CASE Repair
  BY <1>14 DEF Repair
<1>15. ASSUME NEW o \in Stray, RemoveStray(o) PROVE PassInv'
  BY <1>15 DEF RemoveStray
<1>16. ASSUME NEW o \in Stray, RefuseStray(o) PROVE PassInv'
  BY <1>16 DEF RefuseStray
<1>17. CASE Serve
  BY <1>17 DEF Serve
<1>18. CASE OperationFails
  BY <1>18 DEF OperationFails
<1>19. CASE Crash
  BY <1>19 DEF Crash
<1>20. CASE StartAgain
  BY <1>20 DEF StartAgain
<1>21. CASE UNCHANGED vars
  BY <1>21 DEF vars
<1> QED
  BY <1>1, <1>2, <1>3, <1>4, <1>5, <1>6, <1>7, <1>8, <1>9, <1>10, <1>11,
     <1>12, <1>13, <1>14, <1>15, <1>16, <1>17, <1>18, <1>19, <1>20, <1>21
     DEF Next

(* The invariant holds in every state of every behaviour.                  *)
THEOREM PassInvariance == Spec => []PassInv
BY InitPass, NextPass, PTL DEF Spec

(* A pass that lets the connector serve has moved every store into a slot  *)
(* that names it and left no stray slot, whatever crashed before it.       *)
THEOREM ServesWhole == Spec => []ServedWhole
<1>1. PassInv => ServedWhole
  BY DEF PassInv, Stores, Through, ServedWhole
<1> QED
  BY PassInvariance, <1>1, PTL

(* Only the rename moves a store, and it moves exactly one.                *)
LEMMA StepStays == PassInv /\ PassInv' /\ [Next]_vars => Stay \/ UNCHANGED vars
<1> SUFFICES ASSUME PassInv, PassInv', Next PROVE Stay
  OBVIOUS
<1>1. kept' \cap moved' = {} /\ moved' \subseteq named'
  BY DEF PassInv, Stores
<1>2. CASE MoveStore
  <2>1. row \in kept
    BY <1>2 DEF MoveStore, PassInv, Hand, Before
  <2> QED
    BY <1>1, <1>2, <2>1 DEF MoveStore, Stay
<1>3. CASE ~MoveStore
  <2>1. UNCHANGED <<kept, moved>>
    BY <1>3 DEF Next, Start, PassOver, FindStale, Refuse, Plan, MakeSlot,
       MakeAccounts, WriteTemp, Install, MoveFails, Unlist, Verify, Repair,
       RemoveStray, RefuseStray, Serve, OperationFails, Crash, StartAgain,
       files
  <2> QED
    BY <1>1, <2>1 DEF Stay
<1> QED
  BY <1>2, <1>3

(* No step, fault or crash loses a store, leaves two copies of one, or     *)
(* leaves one in a slot whose registry does not name its account.          *)
THEOREM StoresStaySafe == Spec => StoresStay
<1>1. PassInv /\ PassInv' /\ [Next]_vars
        => [/\ kept' \cup moved' = kept \cup moved
            /\ kept' \cap moved' = {}
            /\ moved' \subseteq named']_vars
  BY StepStays DEF Stay
<1> QED
  BY PassInvariance, <1>1, PTL DEF Spec, StoresStay
-----------------------------------------------------------------------------
(* Lkg: last-known-good stays a way back.                                  *)
(*                                                                         *)
(* WayBack is not inductive: it says nothing of a command under way.       *)
(* LkgInv adds what a command has read and still relies on, and the fact   *)
(* that carries the argument: last-known-good never names the staged       *)
(* version. A version is staged under a fresh name only, and what WriteLkg *)
(* puts aside is another version than the staged one, so the version that  *)
(* WriteActive makes active is not last-known-good.                        *)

(* What the next write of the running command relies on.                   *)
Underway ==
    /\ cmd.at = "point" =>
          cmd.v \in published /\ cmd.v # active /\ cmd.v # lkg
    /\ cmd.at \in {"keep", "switch", "unstage"} =>
          staged = cmd.v /\ staged # None
    /\ cmd.at = "keep" =>
          cmd.old = active /\ active # staged /\ active # None
    /\ cmd.at = "unstage" => active = staged
    /\ cmd.at = "back" => cmd.v = lkg

Pointers ==
    /\ published \subseteq Version
    /\ staged \in published \cup {None}
    /\ active \in published \cup {None}
    /\ lkg \in published \cup {None}
    /\ cmd \in K!Command

StagedIsNew == lkg # None => lkg # staged

LkgInv == Pointers /\ Underway /\ StagedIsNew /\ K!WayBack

(* Nothing is published at first, and no command runs.                     *)
LEMMA InitLkg == K!Init => LkgInv
BY SMTT(30) DEF K!Init, LkgInv, Pointers, Underway, StagedIsNew, K!WayBack,
       K!NoCommand, K!Command, K!Pointer

(* Every write of every command, its death and the loss of files keep the  *)
(* pointers in order.                                                      *)
LEMMA NextLkg == LkgInv /\ K!Next => LkgInv'
<1> SUFFICES ASSUME LkgInv, K!Next PROVE LkgInv'
    OBVIOUS
<1>0. None \notin Version
    BY RestAssumption DEF K!LkgAssumption
<1> USE <1>0 DEF LkgInv, Pointers, Underway, StagedIsNew, K!WayBack,
            K!NoCommand, K!Command, K!Pointer
<1>1. ASSUME NEW v \in Version, K!Stage(v) PROVE LkgInv'
    <2>1. v \notin published /\ v # None
        BY <1>1 DEF K!Stage
    <2>2. v # staged /\ v # active /\ v # lkg
        BY <2>1
    <2> QED
        BY <1>1, <2>1, <2>2 DEF K!Stage
<1>2. ASSUME NEW v \in Version, K!Damage(v) PROVE LkgInv'
    BY <1>2 DEF K!Damage
<1>3. CASE K!WriteStaged
    BY <1>3 DEF K!WriteStaged
<1>4. CASE K!Activate
    BY <1>4 DEF K!Activate, K!Idle, K!KeepsOld
<1>5. CASE K!WriteLkg
    BY <1>5 DEF K!WriteLkg
<1>6. CASE K!WriteActive
    BY <1>6 DEF K!WriteActive
<1>7. CASE K!Unstage
    BY <1>7 DEF K!Unstage
<1>8. CASE K!Rollback
    BY <1>8 DEF K!Rollback, K!Idle
<1>9. CASE K!WriteBack
    BY <1>9 DEF K!WriteBack
<1>10. CASE K!Die
    BY <1>10 DEF K!Die
<1> QED
    BY <1>1, <1>2, <1>3, <1>4, <1>5, <1>6, <1>7, <1>8, <1>9, <1>10
       DEF K!Next

RuntimeInv == focus = "runtime" => LkgInv

(* The other parts leave the layout alone.                                 *)
LEMMA RestRuntime == RuntimeInv /\ [RestNext]_all => RuntimeInv'
<1> SUFFICES ASSUME RuntimeInv, [RestNext]_all, focus' = "runtime"
             PROVE LkgInv'
    BY DEF RuntimeInv
<1>1. CASE Installing
    BY <1>1, NextLkg DEF Installing, RuntimeInv
<1>2. CASE UNCHANGED all
    <2>1. LkgInv /\ UNCHANGED runtime
        BY <1>2 DEF all, RuntimeInv
    <2> QED
        BY <2>1 DEF runtime, LkgInv, Pointers, Underway, StagedIsNew,
           K!WayBack, K!Command, K!Pointer
<1> QED
    BY <1>1, <1>2 DEF RestNext, Migrate, Keeping, Serving

(* WayBack for every set of versions and any number of damaged ones: after *)
(* a completed or a replayed activate, rollback_to_lkg leads away from the *)
(* version just activated.                                                 *)
THEOREM WayBackAlways == RestSpec => []WayBack
<1>1. RestInit => RuntimeInv
    BY InitLkg DEF RestInit, RuntimeInv
<1>2. RuntimeInv => WayBack
    BY DEF RuntimeInv, WayBack, LkgInv
<1> QED
    BY <1>1, <1>2, RestRuntime, PTL DEF RestSpec

-----------------------------------------------------------------------------
(* Media: no stream serves what was burned or deleted. With the types of   *)
(* what it speaks of StreamIsAllowed is inductive: whoever burns a row or  *)
(* deletes the account's holds the service lock until the streams are      *)
(* closed, and an open needs that lock.                                    *)

Table ==
    /\ rows \in [M!Message -> {"absent", "fresh", "burned"}]
    /\ stream \in [Handle -> M!Stream \cup {None}]
    /\ now \in Nat

MediaInv == Table /\ M!StreamIsAllowed

(* A table in which no stream but those of stream's are open.              *)
Closes(t) == \A h \in Handle : t[h] = stream[h] \/ t[h] = None

(* Expiry and the closing of a message's streams only close.               *)
LEMMA SweptCloses ==
    ASSUME Table
    PROVE  M!Swept \in [Handle -> M!Stream \cup {None}] /\ Closes(M!Swept)
BY DEF Table, Closes, M!Swept

LEMMA WithoutCloses ==
    ASSUME Table, NEW X
    PROVE  /\ M!Without(X) \in [Handle -> M!Stream \cup {None}]
           /\ Closes(M!Without(X))
           /\ \A h \in Handle :
                 M!Without(X)[h] # None => M!Without(X)[h].of \notin X
BY DEF Table, Closes, M!Without

(* A step that only closes streams keeps the rest in order.                *)
LEMMA ClosingKeeps ==
    ASSUME MediaInv, Closes(stream'), Table',
           UNCHANGED <<account, rows, held>>
    PROVE  MediaInv'
BY DEF MediaInv, Closes, Table, M!StreamIsAllowed

(* No file, no stream and no row at first, bar legacy files.               *)
LEMMA InitMedia == M!Init => MediaInv
BY SMTT(30) DEF M!Init, MediaInv, Table, M!StreamIsAllowed

(* An open under the lock finds the account's row and a row not burned.    *)
LEMMA OpenKeeps ==
    ASSUME MediaInv, NEW h \in Handle, NEW x \in M!Att, M!Open(h, x)
    PROVE  MediaInv'
<1> DEFINE new == [of |-> x, file |-> M!Locate(x), read |-> 0,
                   till |-> now + HandleTTL]
<1>1. UNCHANGED <<account, rows, held, now>> /\ held = None
    BY DEF M!Open, M!Unlocked
<1>2. account /\ (x \in M!Message => rows[x] # "burned")
    BY DEF M!Open, M!Opens, M!Resolves
<1>3. Table /\ M!StreamIsAllowed
    BY DEF MediaInv
<1>4. M!Locate(x) \in {"own", "old"}
    BY DEF M!Open, M!Opens, M!Locate
<1>5. now + HandleTTL \in Nat /\ 0 \in 0 .. Chunks
    BY SMTT(30), <1>3, RestAssumption DEF Table
<1>6. new \in M!Stream
    BY <1>4, <1>5 DEF M!Stream
<1>7. stream' = M!Swept \/ stream' = [M!Swept EXCEPT ![h] = new]
    BY DEF M!Open
<1>8. CASE stream' = M!Swept
    <2>1. Table' /\ Closes(stream')
        BY <1>1, <1>3, <1>8, SweptCloses DEF Table
    <2> QED
        BY <1>1, <2>1, ClosingKeeps
<1>9. CASE stream' = [M!Swept EXCEPT ![h] = new]
    <2>1. /\ stream' \in [Handle -> M!Stream \cup {None}]
          /\ stream'[h] = new
          /\ \A g \in Handle \ {h} : stream'[g] = stream[g] \/ stream'[g] = None
        BY <1>3, <1>6, <1>9, SweptCloses DEF Closes
    <2>2. Table'
        BY <1>1, <1>3, <2>1 DEF Table
    <2>3. stream'[h].of = x
        BY SMTT(30), <2>1
    <2>4. M!StreamIsAllowed'
        BY <1>1, <1>2, <1>3, <2>1, <2>3 DEF M!StreamIsAllowed, M!Message
    <2> QED
        BY <2>2, <2>4 DEF MediaInv
<1> QED
    BY <1>7, <1>8, <1>9

(* A read changes how far a stream is, never what it is of.                *)
LEMMA ReadKeeps ==
    ASSUME MediaInv, NEW h \in Handle, M!ReadChunk(h)
    PROVE  MediaInv'
<1> DEFINE t == [M!Swept EXCEPT ![h].read = stream[h].read + 1]
<1>1. UNCHANGED <<account, rows, held, now>>
    BY DEF M!ReadChunk
<1>2. Table /\ M!StreamIsAllowed
    BY DEF MediaInv
<1>3. stream' = M!Swept \/ (stream' = t /\ stream[h].read < Chunks)
    BY DEF M!ReadChunk
<1>4. CASE stream' = M!Swept
    <2>1. Table' /\ Closes(stream')
        BY <1>1, <1>2, <1>4, SweptCloses DEF Table
    <2> QED
        BY <1>1, <2>1, ClosingKeeps
<1>5. CASE stream' = t /\ stream[h].read < Chunks
    <2>1. M!Swept[h] = stream[h] /\ stream[h] \in M!Stream
        BY <1>2 DEF M!ReadChunk, M!Swept, Table
    <2>2. stream[h].read + 1 \in 0 .. Chunks
        BY SMTT(30), <1>5, <2>1, RestAssumption DEF M!Stream
    <2>3. /\ [stream[h] EXCEPT !.read = stream[h].read + 1] \in M!Stream
          /\ [stream[h] EXCEPT !.read = stream[h].read + 1].of = stream[h].of
        BY <2>1, <2>2 DEF M!Stream
    <2>4. /\ stream' \in [Handle -> M!Stream \cup {None}]
          /\ stream'[h] = [stream[h] EXCEPT !.read = stream[h].read + 1]
          /\ \A g \in Handle \ {h} : stream'[g] = stream[g] \/ stream'[g] = None
        BY <1>2, <1>5, <2>1, <2>3, SweptCloses DEF Closes
    <2>5. Table'
        BY <1>1, <1>2, <2>4 DEF Table
    <2>6. stream'[h].of = stream[h].of /\ stream[h] # None
        BY <2>1, <2>3, <2>4 DEF M!ReadChunk
    <2>7. M!StreamIsAllowed'
        BY <1>1, <1>2, <2>4, <2>6 DEF M!StreamIsAllowed
    <2> QED
        BY <2>5, <2>7 DEF MediaInv
<1> QED
    BY <1>3, <1>4, <1>5

(* The lock region of a burn, and the end of it.                           *)
LEMMA BurnKeeps ==
    ASSUME MediaInv, M!BurnMedia \/ \E m \in M!Message : M!BurnRow(m)
    PROVE  MediaInv'
<1>1. Table /\ M!StreamIsAllowed
    BY DEF MediaInv
<1>2. ASSUME NEW m \in M!Message, M!BurnRow(m) PROVE MediaInv'
    <2>1. /\ rows' = [rows EXCEPT ![m] = "burned"] /\ held' = m /\ held = None
          /\ account /\ UNCHANGED <<account, stream, now>>
        BY <1>2 DEF M!BurnRow, M!Unlocked
    <2>2. Table'
        BY <1>1, <2>1 DEF Table
    <2>3. \A n \in M!Message : rows'[n] = IF n = m THEN "burned" ELSE rows[n]
        BY <1>1, <2>1 DEF Table
    <2>4. None \notin OnceAtt
        BY RestAssumption
    <2>5. M!StreamIsAllowed'
        BY SMTT(30), <1>1, <2>1, <2>3, <2>4 DEF M!StreamIsAllowed, M!Message
    <2> QED
        BY <2>2, <2>5 DEF MediaInv
<1>3. CASE M!BurnMedia
    <2>1. /\ stream' = M!Without({held}) /\ held \in OnceAtt
          /\ UNCHANGED <<account, rows, now>>
        BY <1>3 DEF M!BurnMedia
    <2>2. Table' /\ Closes(stream')
        BY <1>1, <2>1, WithoutCloses DEF Table
    <2>3. \A h \in Handle : stream'[h] # None => stream'[h].of # held
        BY <1>1, <2>1, WithoutCloses
    <2>4. held # "rows"
        BY <2>1, RestAssumption
    <2>5. M!StreamIsAllowed'
        BY <1>1, <2>1, <2>2, <2>3, <2>4 DEF M!StreamIsAllowed, Closes
    <2> QED
        BY <2>2, <2>5 DEF MediaInv
<1> QED
    BY <1>2, <1>3

(* The lock region of the account's deletion, and the end of it.           *)
LEMMA DeletionKeeps ==
    ASSUME MediaInv, M!DeleteRows \/ M!ClearMedia
    PROVE  MediaInv'
<1>1. Table /\ M!StreamIsAllowed
    BY DEF MediaInv
<1>2. CASE M!DeleteRows
    <2>1. /\ rows' = [m \in M!Message |-> "absent"] /\ held' = "rows"
          /\ UNCHANGED <<stream, now>>
        BY <1>2 DEF M!DeleteRows
    <2>2. Table'
        BY <1>1, <2>1 DEF Table
    <2>3. M!StreamIsAllowed'
        BY <2>1 DEF M!StreamIsAllowed, M!Message
    <2> QED
        BY <2>2, <2>3 DEF MediaInv
<1>3. CASE M!ClearMedia
    <2>1. stream' = M!Without(M!Att) /\ UNCHANGED <<account, rows, now>>
        BY <1>3 DEF M!ClearMedia
    <2>2. Table'
        BY <1>1, <2>1, WithoutCloses DEF Table
    <2>3. \A h \in Handle : stream'[h] = None
        BY SMTT(30), <1>1, <2>1, WithoutCloses DEF Table, M!Stream
    <2>4. M!StreamIsAllowed'
        BY <2>3 DEF M!StreamIsAllowed
    <2> QED
        BY <2>2, <2>4 DEF MediaInv
<1> QED
    BY <1>2, <1>3

(* A message lands in a row that was absent.                               *)
LEMMA LandingKeeps ==
    ASSUME MediaInv, NEW m \in M!Message, M!Arrive(m) \/ M!Send(m)
    PROVE  MediaInv'
<1>1. Table /\ M!StreamIsAllowed
    BY DEF MediaInv
<1>2. /\ rows' = [rows EXCEPT ![m] = "fresh"]
      /\ UNCHANGED <<account, stream, held, now>>
    BY DEF M!Arrive, M!Send
<1>3. Table'
    BY <1>1, <1>2 DEF Table
<1>4. \A n \in M!Message : rows'[n] = IF n = m THEN "fresh" ELSE rows[n]
    BY <1>1, <1>2 DEF Table
<1>5. M!StreamIsAllowed'
    BY SMTT(30), <1>1, <1>2, <1>4 DEF M!StreamIsAllowed, M!Message
<1> QED
    BY <1>3, <1>5 DEF MediaInv

(* Downloads, the governor and the clock do not touch rows or streams; a   *)
(* close and a restart close streams.                                      *)
LEMMA NextMedia == MediaInv /\ M!Next => MediaInv'
<1> SUFFICES ASSUME MediaInv, M!Next PROVE MediaInv'
    OBVIOUS
<1>1. Table /\ M!StreamIsAllowed
    BY DEF MediaInv
<1>2. ASSUME UNCHANGED <<account, rows, held, stream>>, now' \in Nat
      PROVE  MediaInv'
    BY <1>1, <1>2 DEF MediaInv, Table, M!StreamIsAllowed
<1>3. ASSUME NEW x \in M!Att, M!StartDownload(x) PROVE MediaInv'
    BY <1>1, <1>2, <1>3 DEF M!StartDownload, Table
<1>4. CASE M!EndDownload
    BY <1>1, <1>2, <1>4 DEF M!EndDownload, Table
<1>5. CASE M!StartPass
    BY <1>1, <1>2, <1>5 DEF M!StartPass, Table
<1>6. ASSUME NEW e, M!Sweep(e) PROVE MediaInv'
    BY <1>1, <1>2, <1>6 DEF M!Sweep, Table
<1>7. CASE M!EndSweep
    BY <1>1, <1>2, <1>7 DEF M!EndSweep, Table
<1>8. CASE M!Tick
    BY SMTT(30), <1>1, <1>2, <1>8 DEF M!Tick, Table
<1>9. ASSUME NEW h \in Handle, M!Close(h) PROVE MediaInv'
    <2>1. Table' /\ Closes(stream') /\ UNCHANGED <<account, rows, held>>
        BY <1>1, <1>9 DEF M!Close, Table, Closes
    <2> QED
        BY <2>1, ClosingKeeps
<1>10. CASE M!Restart
    <2>1. Table' /\ \A h \in Handle : stream'[h] = None
        BY <1>1, <1>10 DEF M!Restart, Table
    <2> QED
        BY <2>1 DEF MediaInv, M!StreamIsAllowed
<1> QED
    BY <1>3, <1>4, <1>5, <1>6, <1>7, <1>8, <1>9, <1>10, OpenKeeps, ReadKeeps,
       BurnKeeps, DeletionKeeps, LandingKeeps DEF M!Next

ServingInv == focus = "media" => MediaInv

(* The other parts leave the attachments alone.                            *)
LEMMA RestServing == ServingInv /\ [RestNext]_all => ServingInv'
<1> SUFFICES ASSUME ServingInv, [RestNext]_all, focus' = "media"
             PROVE MediaInv'
    BY DEF ServingInv
<1>1. CASE Serving
    BY <1>1, NextMedia DEF Serving, ServingInv
<1>2. CASE UNCHANGED all
    <2>1. MediaInv /\ UNCHANGED attached
        BY <1>2 DEF all, ServingInv
    <2> QED
        BY <2>1 DEF attached, MediaInv, Table, M!StreamIsAllowed
<1> QED
    BY <1>1, <1>2 DEF RestNext, Migrate, Keeping, Installing

(* Whatever burns, deletions, downloads, passes of the governor, reads and *)
(* crashes interleave, no open stream is of a burned message or a deleted  *)
(* account once the lock that ended them is free (close_for_message,       *)
(* clear_account).                                                         *)
THEOREM StreamAlwaysAllowed == RestSpec => []StreamIsAllowed
<1>1. RestInit => ServingInv
    BY InitMedia DEF RestInit, ServingInv
<1>2. ServingInv => StreamIsAllowed
    BY DEF ServingInv, StreamIsAllowed, MediaInv
<1> QED
    BY <1>1, <1>2, RestServing, PTL DEF RestSpec

-----------------------------------------------------------------------------
(* Ledger: the unread badge is backed by rows. Good is what every store    *)
(* transaction keeps, whichever handler runs it: a transaction that takes  *)
(* rows out repairs the badge of every conversation it takes one of.       *)

(* The counting of the instance is the library's.                          *)
LEMMA SameCount == \A S : L!Cardinality(S) = Cardinality(S)
BY DEF L!Cardinality, Cardinality

(* The smaller of two numbers.                                             *)
LEMMA MinOfTwo ==
    ASSUME NEW a \in Nat, NEW b \in Nat
    PROVE  L!Min({a, b}) \in Nat /\ L!Min({a, b}) <= b
<1>1. \E x \in {a, b} : \A y \in {a, b} : x <= y
    BY SMTT(30)
<1> QED
    BY <1>1 DEF L!Min

(* A database with the fields the badge depends on in their types.         *)
Shape(d) ==
    d \in [place : [Id -> Conv \cup {None}], held : {d.held},
           alive : {d.alive}, unread : [Conv -> Nat],
           mentions : {d.mentions}, mark : {d.mark}, total : {d.total},
           read : {d.read}, erased : {d.erased}]

(* The badge of c promises no more than the rows of c.                     *)
Backed(d, c) == d.unread[c] <= L!Cardinality(L!Inbound(d, c))

Good(d) == Shape(d) /\ \A c \in Conv : Backed(d, c)

(* Two databases with the same rows and badges are as good.                *)
LEMMA SameBadges ==
    ASSUME NEW d, NEW e, Good(d), Shape(e), e.place = d.place,
           e.unread = d.unread
    PROVE  Good(e)
BY DEF Good, Backed, L!Inbound, L!Rows

(* Rows are counted by naturals.                                           *)
LEMMA InboundCount ==
    ASSUME NEW d, NEW c
    PROVE  /\ IsFiniteSet(L!Inbound(d, c))
           /\ L!Cardinality(L!Inbound(d, c)) \in Nat
<1>1. L!Inbound(d, c) \subseteq Id
    BY DEF L!Inbound, L!Rows
<1>2. IsFiniteSet(L!Inbound(d, c))
    BY <1>1, FS_Subset, RestAssumption
<1> QED
    BY <1>2, FS_CardinalityType, SameCount

LEMMA EnsureKeeps ==
    ASSUME NEW d, NEW c, Good(d)
    PROVE  Good(L!EnsureConversation(d, c))
<1> DEFINE e == L!EnsureConversation(d, c)
<1>1. Shape(e) /\ e.place = d.place /\ e.unread = d.unread
    BY DEF Good, Shape, L!EnsureConversation
<1> QED
    BY <1>1, SameBadges

LEMMA ReadStampKeeps ==
    ASSUME NEW d, NEW S, Good(d)
    PROVE  Good([d EXCEPT !.read = S])
<1> DEFINE e == [d EXCEPT !.read = S]
<1>1. Shape(e) /\ e.place = d.place /\ e.unread = d.unread
    BY DEF Good, Shape
<1> QED
    BY <1>1, SameBadges

LEMMA WatermarkKeeps ==
    ASSUME NEW d, NEW c, NEW t, Good(d)
    PROVE  Good(L!AdvanceWatermark(d, c, t))
<1> DEFINE e == L!AdvanceWatermark(d, c, t)
<1>1. Shape(e) /\ e.place = d.place /\ e.unread = d.unread
    BY DEF Good, Shape, L!AdvanceWatermark
<1> QED
    BY <1>1, SameBadges

(* A cleared badge promises nothing.                                       *)
LEMMA ClearKeeps ==
    ASSUME NEW d, NEW c \in Conv, Good(d)
    PROVE  Good(L!ClearConversationUnread(d, c))
<1> DEFINE e == L!ClearConversationUnread(d, c)
<1>1. CASE d.unread[c] = 0
    BY <1>1 DEF L!ClearConversationUnread
<1>2. CASE d.unread[c] # 0
    <2>1. /\ Shape(e) /\ e.place = d.place
          /\ e.unread = [d.unread EXCEPT ![c] = 0]
        BY <1>2 DEF Good, Shape, L!ClearConversationUnread
    <2>2. \A b \in Conv : e.unread[b] = IF b = c THEN 0 ELSE d.unread[b]
        BY <2>1 DEF Good, Shape
    <2>3. \A b \in Conv : L!Inbound(e, b) = L!Inbound(d, b)
        BY <2>1 DEF L!Inbound, L!Rows
    <2>4. ASSUME NEW b \in Conv PROVE Backed(e, b)
        <3>1. CASE b = c
            BY SMTT(30), <2>2, <3>1, InboundCount DEF Backed
        <3>2. CASE b # c
            BY <2>2, <2>3, <3>2 DEF Backed, Good
        <3> QED
            BY <3>1, <3>2
    <2> QED
        BY <2>1, <2>4 DEF Good
<1> QED
    BY <1>1, <1>2

(* A row that lands adds at most itself to the badge of its conversation.  *)
LEMMA InsertKeeps ==
    ASSUME NEW d, NEW i \in Id, NEW c \in Conv, Good(d)
    PROVE  Good(L!InsertMessage(d, i, c))
<1> DEFINE e == L!InsertMessage(d, i, c)
<1> DEFINE new == IF i[1] \in Incoming THEN 1 ELSE 0
<1>1. CASE d.place[i] # None
    BY <1>1 DEF L!InsertMessage
<1>2. CASE d.place[i] = None
    <2>1. d.unread \in [Conv -> Nat] /\ d.place \in [Id -> Conv \cup {None}]
        BY DEF Good, Shape
    <2>2. /\ Shape(e) /\ e.place = [d.place EXCEPT ![i] = c]
          /\ e.unread = [d.unread EXCEPT ![c] = d.unread[c] + new]
        <3> DEFINE P == [d.place EXCEPT ![i] = c]
                   H == [d.held EXCEPT ![i] = clock]
                   U == [d.unread EXCEPT ![c] = d.unread[c] + new]
                   N == [d.mentions EXCEPT ![c] =
                           d.mentions[c] + IF i[1] \in Mention THEN 1 ELSE 0]
                   T == d.total + new
        <3>1. P \in [Id -> Conv \cup {None}] /\ U \in [Conv -> Nat]
            BY SMTT(30), <2>1
        <3>2. e = [d EXCEPT !.place = P, !.held = H, !.unread = U,
                            !.mentions = N, !.total = T]
            BY <1>2 DEF Good, Shape, L!InsertMessage
        <3> HIDE DEF P, H, U, N, T
        <3>3. Shape(e) /\ e.place = P /\ e.unread = U
            BY <3>1, <3>2 DEF Good, Shape
        <3> QED
            BY <3>3 DEF P, U
    <2>3. ASSUME NEW b \in Conv \ {c} PROVE Backed(e, b)
        <3>1. L!Inbound(e, b) = L!Inbound(d, b)
            BY <1>2, <2>1, <2>2, RestAssumption DEF L!Inbound, L!Rows
        <3> QED
            BY <2>1, <2>2, <3>1 DEF Backed, Good
    <2>4. CASE i[1] \notin Incoming
        <3>1. L!Inbound(e, c) = L!Inbound(d, c)
            BY <1>2, <2>1, <2>2, <2>4 DEF L!Inbound, L!Rows
        <3>2. e.unread[c] = d.unread[c]
            BY SMTT(30), <2>1, <2>2, <2>4
        <3>3. Backed(e, c)
            BY <3>1, <3>2 DEF Backed, Good
        <3> QED
            BY <2>2, <2>3, <3>3 DEF Good
    <2>5. CASE i[1] \in Incoming
        <3>1. /\ L!Inbound(e, c) = L!Inbound(d, c) \cup {i}
              /\ i \notin L!Inbound(d, c)
            BY SMTT(30), <1>2, <2>1, <2>2, <2>5, RestAssumption DEF L!Inbound, L!Rows
        <3>2. L!Cardinality(L!Inbound(e, c))
                = L!Cardinality(L!Inbound(d, c)) + 1
            BY <3>1, InboundCount, SameCount, FS_AddElement
        <3>3. e.unread[c] = d.unread[c] + 1
            BY <2>1, <2>2, <2>5
        <3>4. /\ d.unread[c] <= L!Cardinality(L!Inbound(d, c))
              /\ d.unread[c] \in Nat /\ L!Cardinality(L!Inbound(d, c)) \in Nat
            BY <2>1, InboundCount DEF Backed, Good
        <3>5. Backed(e, c)
            BY SMTT(30), <3>2, <3>3, <3>4 DEF Backed
        <3> QED
            BY <2>2, <2>3, <3>5 DEF Good
    <2> QED
        BY <2>4, <2>5
<1> QED
    BY <1>1, <1>2

(* The repair clamps the badges it is told of, and leaves the others.      *)
LEMMA RepairKeeps ==
    ASSUME NEW d, NEW T, Shape(d), \A c \in Conv \ T : Backed(d, c)
    PROVE  Good(L!Repair(d, T))
<1> DEFINE e == L!Repair(d, T)
<1> DEFINE clamped ==
        [c \in Conv |-> IF c \in T
           THEN L!Min({d.unread[c], L!Cardinality(L!Inbound(d, c))})
           ELSE d.unread[c]]
<1>1. d.unread \in [Conv -> Nat]
    BY DEF Shape
<1>2. ASSUME NEW c \in Conv
      PROVE  clamped[c] \in Nat /\ clamped[c] <= L!Cardinality(L!Inbound(d, c))
    <2>1. CASE c \in T
        BY <1>1, <2>1, InboundCount, MinOfTwo
    <2>2. CASE c \notin T
        BY <1>1, <2>2 DEF Backed
    <2> QED
        BY <2>1, <2>2
<1>3. clamped \in [Conv -> Nat]
    BY <1>2
<1> HIDE DEF clamped
<1>4. e = [d EXCEPT !.unread = clamped, !.total = L!Sum(clamped, d.alive)]
    BY DEF L!Repair, clamped
<1>5. Shape(e) /\ e.place = d.place /\ e.unread = clamped
    BY <1>3, <1>4 DEF Shape
<1>6. \A c \in Conv : L!Inbound(e, c) = L!Inbound(d, c)
    BY <1>5 DEF L!Inbound, L!Rows
<1> QED
    BY <1>2, <1>5, <1>6 DEF Good, Backed

LEMMA WithoutShape ==
    ASSUME NEW d, NEW S, Shape(d)
    PROVE  LET e == L!Without(d, S) IN
           /\ Shape(e) /\ e.unread = d.unread
           /\ e.place = [i \in Id |-> IF i \in S THEN None ELSE d.place[i]]
<1> DEFINE e == L!Without(d, S)
           P == [i \in Id |-> IF i \in S THEN None ELSE d.place[i]]
           H == [i \in Id |-> IF i \in S THEN 0 ELSE d.held[i]]
<1>1. P \in [Id -> Conv \cup {None}]
    BY DEF Shape
<1>2. e = [d EXCEPT !.place = P, !.held = H, !.read = d.read \ S,
                    !.erased = d.erased \ S]
    BY DEF L!Without, Shape
<1> HIDE DEF P, H, e
<1>3. Shape(e) /\ e.unread = d.unread /\ e.place = P
    BY <1>1, <1>2 DEF Shape
<1> QED
    BY <1>3 DEF P, e

(* Conversations that lose no row stay backed.                             *)
LEMMA OthersBacked ==
    ASSUME NEW d, NEW e, NEW S, NEW T, Good(d), e.unread = d.unread,
           e.place = [i \in Id |-> IF i \in S THEN None ELSE d.place[i]],
           \A i \in S : i \in Id => d.place[i] \in T
    PROVE  \A c \in Conv \ T : Backed(e, c)
<1> SUFFICES ASSUME NEW c \in Conv \ T PROVE Backed(e, c)
    OBVIOUS
<1>1. L!Inbound(e, c) = L!Inbound(d, c)
    BY RestAssumption DEF L!Inbound, L!Rows
<1> QED
    BY <1>1 DEF Backed, Good

(* Rows leave, and every conversation that loses one is repaired.          *)
LEMMA LeavingKeeps ==
    ASSUME NEW d, NEW S, NEW T, Good(d),
           \A i \in S : i \in Id => d.place[i] \in T
    PROVE  Good(L!Repair(L!Without(d, S), T))
<1> DEFINE e == L!Without(d, S)
<1>1. /\ Shape(e) /\ e.unread = d.unread
      /\ e.place = [i \in Id |-> IF i \in S THEN None ELSE d.place[i]]
    BY SMTT(30), WithoutShape DEF Good
<1> HIDE DEF e
<1>2. \A c \in Conv \ T : Backed(e, c)
    BY <1>1, OthersBacked
<1>3. Good(L!Repair(e, T))
    BY <1>1, <1>2, RepairKeeps
<1> QED
    BY <1>3 DEF e

LEMMA ErasingKeeps ==
    ASSUME NEW d, NEW S, NEW T, NEW A, Good(d),
           \A i \in S : i \in Id => d.place[i] \in T
    PROVE  Good(L!Repair([L!Without(d, S) EXCEPT !.erased = @ \cup A], T))
<1> DEFINE f == L!Without(d, S)
           e == [f EXCEPT !.erased = @ \cup A]
<1>1. /\ Shape(f) /\ f.unread = d.unread
      /\ f.place = [i \in Id |-> IF i \in S THEN None ELSE d.place[i]]
    BY SMTT(30), WithoutShape DEF Good
<1> HIDE DEF f
<1>2. /\ Shape(e) /\ e.unread = d.unread
      /\ e.place = [i \in Id |-> IF i \in S THEN None ELSE d.place[i]]
    BY <1>1 DEF Shape
<1> HIDE DEF e
<1>3. \A c \in Conv \ T : Backed(e, c)
    BY <1>2, OthersBacked
<1>4. Good(L!Repair(e, T))
    BY <1>2, <1>3, RepairKeeps
<1> QED
    BY <1>4 DEF e, f

LEMMA DeletionOfRowsKeeps ==
    ASSUME NEW d, NEW c \in Conv, NEW bound, NEW drop \in BOOLEAN, Good(d)
    PROVE  Good(L!DeleteConversation(d, c, bound, drop))
<1> DEFINE gone == {i \in L!Rows(d, c) : drop \/ L!At(i) <= bound}
           left == L!Without(d, gone)
           bare == [left EXCEPT !.alive = @ \ {c}, !.unread[c] = 0,
                                !.mentions[c] = 0, !.mark[c] = 0]
<1>1. \A i \in gone : i \in Id => d.place[i] \in {c}
    BY DEF L!Rows
<1>2. L!DeleteConversation(d, c, bound, drop) =
        IF drop THEN L!Repair(bare, {}) ELSE L!Repair(left, {c})
    BY DEF L!DeleteConversation
<1>3. /\ Shape(left) /\ left.unread = d.unread
      /\ left.place = [i \in Id |-> IF i \in gone THEN None ELSE d.place[i]]
    BY WithoutShape DEF Good
<1>4. Good(L!Repair(left, {c}))
    BY <1>1, LeavingKeeps
<1> HIDE DEF gone, left
<1>5. \A b \in Conv \ {c} : Backed(left, b)
    BY <1>1, <1>3, OthersBacked
<1>6. left.unread \in [Conv -> Nat]
    BY <1>3 DEF Shape
<1>7. /\ Shape(bare) /\ bare.place = left.place
      /\ bare.unread = [left.unread EXCEPT ![c] = 0]
    <2> DEFINE U == [left.unread EXCEPT ![c] = 0]
               N == [left.mentions EXCEPT ![c] = 0]
               W == [left.mark EXCEPT ![c] = 0]
    <2>1. U \in [Conv -> Nat]
        BY <1>6
    <2>2. bare = [left EXCEPT !.alive = left.alive \ {c}, !.unread = U,
                              !.mentions = N, !.mark = W]
        BY <1>3 DEF Shape
    <2> HIDE DEF U, N, W, bare
    <2>3. Shape(bare) /\ bare.place = left.place /\ bare.unread = U
        BY <1>3, <2>1, <2>2 DEF Shape
    <2> QED
        BY <2>3 DEF U
<1> HIDE DEF bare
<1>8. ASSUME NEW b \in Conv PROVE Backed(bare, b)
    <2>1. L!Inbound(bare, b) = L!Inbound(left, b)
        BY <1>7 DEF L!Inbound, L!Rows
    <2>2. CASE b = c
        BY SMTT(30), <1>6, <1>7, <2>2, InboundCount DEF Backed
    <2>3. CASE b # c
        BY <1>5, <1>6, <1>7, <2>1, <2>3 DEF Backed
    <2> QED
        BY <2>2, <2>3
<1>9. Good(L!Repair(bare, {}))
    BY <1>7, <1>8, RepairKeeps
<1> QED
    BY <1>2, <1>4, <1>9

(* A fold counts the badge of the canonical conversation again, from among *)
(* its rows, and leaves the shell without rows and badge.                  *)
LEMMA MergeKeeps ==
    ASSUME NEW d, Good(d)
    PROVE  Good(L!MergePeerIdentity(d))
<1> DEFINE dropped == {i \in L!Rows(d, Shell) :
                         \E j \in L!Rows(d, Canon) : L!SameMessage(i, j)}
           stay == L!Without(d, dropped)
           P == [i \in Id |-> IF stay.place[i] = Shell THEN Canon
                              ELSE stay.place[i]]
           fold == [stay EXCEPT !.place = P]
           above == {i \in L!Inbound(fold, Canon) :
                        L!At(i) > d.mark[Canon]}
           hits == {i \in above : i[1] \in Mention}
           X == L!Cardinality(above)
           Y == L!Cardinality(hits)
           e == [fold EXCEPT !.unread[Canon] = X, !.unread[Shell] = 0,
                               !.mentions[Canon] = Y, !.mentions[Shell] = 0,
                               !.mark[Shell] = 0, !.alive = @ \ {Shell}]
<1>1. L!MergePeerIdentity(d) =
        IF ~({Shell, Canon} \subseteq d.alive) THEN d ELSE e
    BY DEF L!MergePeerIdentity
<1>2. \A i \in dropped : d.place[i] = Shell
    BY DEF L!Rows
<1>3. /\ Shape(stay) /\ stay.unread = d.unread
      /\ stay.place = [i \in Id |-> IF i \in dropped THEN None ELSE d.place[i]]
    BY WithoutShape DEF Good
<1>4. Shell \in Conv /\ Canon \in Conv /\ Shell # Canon /\ None \notin Conv
    BY RestAssumption
<1> HIDE DEF dropped, stay
<1>5. P \in [Id -> Conv \cup {None}]
    BY <1>3, <1>4 DEF Shape
<1>6. ASSUME NEW b \in Conv \ {Shell, Canon}
      PROVE  \A i \in Id : P[i] = b <=> d.place[i] = b
    BY <1>2, <1>3, <1>4, <1>6
<1> HIDE DEF P
<1>7. Shape(fold) /\ fold.unread = d.unread /\ fold.place = P
    BY <1>3, <1>5 DEF Shape
<1> HIDE DEF fold
<1>8. /\ IsFiniteSet(L!Inbound(fold, Canon))
      /\ above \subseteq L!Inbound(fold, Canon)
    BY InboundCount
<1>9. X \in Nat /\ X <= L!Cardinality(L!Inbound(fold, Canon))
    BY <1>8, FS_Subset, FS_CardinalityType, SameCount
<1>10. d.unread \in [Conv -> Nat]
    BY DEF Good, Shape
<1> HIDE DEF above, hits, X, Y
<1>11. /\ Shape(e) /\ e.place = P
       /\ e.unread = [[d.unread EXCEPT ![Canon] = X] EXCEPT ![Shell] = 0]
    <2> DEFINE U == [[d.unread EXCEPT ![Canon] = X] EXCEPT ![Shell] = 0]
               N == [[fold.mentions EXCEPT ![Canon] = Y] EXCEPT ![Shell] = 0]
               W == [fold.mark EXCEPT ![Shell] = 0]
    <2>1. U \in [Conv -> Nat]
        BY <1>4, <1>9, <1>10
    <2>2. e = [fold EXCEPT !.unread = U, !.mentions = N, !.mark = W,
                             !.alive = fold.alive \ {Shell}]
        BY <1>7 DEF Shape
    <2> HIDE DEF U, N, W, e
    <2>3. Shape(e) /\ e.place = P /\ e.unread = U
        BY <1>7, <2>1, <2>2 DEF Shape
    <2> QED
        BY <2>3 DEF U
<1> HIDE DEF e
<1>12. ASSUME NEW b \in Conv PROVE Backed(e, b)
    <2>1. e.unread[b] = IF b = Shell THEN 0 ELSE IF b = Canon THEN X
                        ELSE d.unread[b]
        BY <1>4, <1>10, <1>11
    <2>2. CASE b = Shell
        BY SMTT(30), <2>1, <2>2, InboundCount DEF Backed
    <2>3. CASE b = Canon
        <3>1. L!Inbound(e, b) = L!Inbound(fold, Canon)
            BY <1>7, <1>11, <2>3 DEF L!Inbound, L!Rows
        <3> QED
            BY <1>4, <1>9, <2>1, <2>3, <3>1 DEF Backed
    <2>4. CASE b \notin {Shell, Canon}
        <3>1. L!Inbound(e, b) = L!Inbound(d, b)
            BY <1>6, <1>11, <2>4 DEF L!Inbound, L!Rows
        <3> QED
            BY <2>1, <2>4, <3>1 DEF Backed, Good
    <2> QED
        BY <2>2, <2>3, <2>4
<1>13. Good(e)
    BY <1>11, <1>12 DEF Good
<1> QED
    BY <1>1, <1>13

(* The retention batch repairs every conversation it takes a row of.       *)
LEMMA PruneKeeps ==
    ASSUME NEW d, NEW t, NEW out \in L!PruneHistory(d, t), Good(d)
    PROVE  Good(out.db)
<1>1. PICK S : out = [db |-> IF S = {} THEN d
                             ELSE L!Repair(L!Without(d, S), L!Touched(d, S)),
                      deleted |-> L!Cardinality(S)]
    BY DEF L!PruneHistory
<1>2. out.db = d \/ out.db = L!Repair(L!Without(d, S), L!Touched(d, S))
    BY <1>1
<1>3. \A i \in S : i \in Id => d.place[i] \in L!Touched(d, S)
    BY DEF L!Touched
<1> QED
    BY <1>2, <1>3, LeavingKeeps

(* So does the sweep of the disappearing messages.                         *)
LEMMA SweepKeeps ==
    ASSUME NEW d, NEW e \in L!SweepExpiredMessages(d), Good(d)
    PROVE  Good(e)
<1>1. PICK A, B : e = L!Repair([L!Without(d, B) EXCEPT !.erased = @ \cup A],
                               L!Touched(d, A \cup B))
    BY DEF L!SweepExpiredMessages
<1>2. \A i \in B : i \in Id => d.place[i] \in L!Touched(d, A \cup B)
    BY DEF L!Touched
<1> QED
    BY <1>1, <1>2, ErasingKeeps

(* An empty store promises nothing.                                        *)
LEMMA InitLedger == L!Init => Good(db)
<1> SUFFICES ASSUME L!Init PROVE Good(db)
    OBVIOUS
<1>1. Shape(db) /\ \A c \in Conv : db.unread[c] = 0
    BY DEF L!Init, L!Zero, Shape
<1> QED
    BY SMTT(30), <1>1, InboundCount DEF Good, Backed

(* A message that lands, and the fold it may bring about.                  *)
LEMMA ReceiveKeeps ==
    ASSUME NEW i \in Id, Good(db), L!Receive(i)
    PROVE  Good(db')
<1> DEFINE d == L!EnsureConversation(db, i[2])
           in == L!InsertMessage(d, i, i[2])
<1>1. i[2] \in Conv
    BY RestAssumption
<1>2. Good(d)
    BY EnsureKeeps
<1>3. db' = d \/ db' = in \/ db' = L!MergePeerIdentity(in)
    BY DEF L!Receive
<1> HIDE DEF d
<1>4. Good(in)
    BY <1>1, <1>2, InsertKeeps
<1> HIDE DEF in
<1> QED
    BY <1>2, <1>3, <1>4, MergeKeeps

(* A read sync stamps rows, may move the watermark, and clears the badge.  *)
LEMMA ReadSyncKeeps ==
    ASSUME NEW c \in Conv, NEW ts, Good(db), L!ReadSync(c, ts)
    PROVE  Good(db')
<1>1. PICK S, t :
        \/ db' = L!ClearConversationUnread([db EXCEPT !.read = S], c)
        \/ db' = L!ClearConversationUnread(
                   L!AdvanceWatermark([db EXCEPT !.read = S], c, t), c)
    BY DEF L!ReadSync
<1> DEFINE d == [db EXCEPT !.read = S]
<1>2. Good(d)
    BY ReadStampKeeps
<1> HIDE DEF d
<1>3. Good(L!AdvanceWatermark(d, c, t))
    BY <1>2, WatermarkKeeps
<1> QED
    BY <1>1, <1>2, <1>3, ClearKeeps DEF d

(* Every hand that touches rows or badges keeps them in order.             *)
LEMMA NextLedger == Good(db) /\ L!Next => Good(db')
<1> SUFFICES ASSUME Good(db), L!Next PROVE Good(db')
    OBVIOUS
<1>1. CASE L!ContactSync
    BY <1>1, MergeKeeps DEF L!ContactSync
<1>2. ASSUME NEW c \in Conv, L!OpenChat(c) PROVE Good(db')
    BY <1>2, ClearKeeps DEF L!OpenChat
<1>3. ASSUME NEW c \in Conv, L!MarkRead(c) PROVE Good(db')
    BY <1>3, WatermarkKeeps DEF L!MarkRead
<1>4. ASSUME NEW c \in Conv, L!DeleteLocalOnly(c) PROVE Good(db')
    BY <1>4, DeletionOfRowsKeeps DEF L!DeleteLocalOnly
<1>5. ASSUME NEW c \in Conv, NEW t, L!ViewedSync(c, t) PROVE Good(db')
    BY <1>5, ClearKeeps DEF L!ViewedSync
<1>6. ASSUME NEW c, NEW t, L!TakeDelete(c, t) PROVE Good(db')
    BY <1>6 DEF L!TakeDelete
<1>7. CASE L!DeleteForMe
    BY <1>7 DEF L!DeleteForMe, L!DeleteMessagesBySentAt
<1>8. ASSUME NEW c \in Conv, NEW t, NEW full \in BOOLEAN,
             L!DeleteConversationSync(c, t, full)
      PROVE  Good(db')
    BY <1>8, DeletionOfRowsKeeps DEF L!DeleteConversationSync
<1>9. CASE L!RetentionBatch
    BY <1>9, PruneKeeps DEF L!RetentionBatch
<1>10. CASE L!Sweep
    BY <1>10, SweepKeeps DEF L!Sweep
<1>11. CASE L!Restart \/ L!Tick
    BY <1>11 DEF L!Restart, L!Tick
<1> QED
    BY <1>1, <1>2, <1>3, <1>4, <1>5, <1>6, <1>7, <1>8, <1>9, <1>10, <1>11,
       ReceiveKeeps, ReadSyncKeeps DEF L!Next

KeepingInv == focus = "ledger" => Good(db)

(* The other parts leave the database alone.                               *)
LEMMA RestKeeping == KeepingInv /\ [RestNext]_all => KeepingInv'
<1> SUFFICES ASSUME KeepingInv, [RestNext]_all, focus' = "ledger"
             PROVE Good(db')
    BY DEF KeepingInv, Good, Shape, Backed, L!Inbound, L!Rows
<1>1. CASE Keeping
    BY <1>1, NextLedger DEF Keeping, KeepingInv
<1>2. CASE UNCHANGED all
    BY <1>2 DEF all, inStore, KeepingInv
<1> QED
    BY <1>1, <1>2 DEF RestNext, Migrate, Serving, Installing

(* For any set of conversations and messages, and whichever order rows     *)
(* land, are read, expire, are deleted, pruned or folded in, the unread    *)
(* badge of a conversation never promises more mail than it holds.         *)
THEOREM BadgeAlwaysBacked == RestSpec => []BadgeBacked
<1>1. RestInit => KeepingInv
    BY InitLedger DEF RestInit, KeepingInv
<1>2. KeepingInv => BadgeBacked
    BY DEF KeepingInv, BadgeBacked, L!BadgeBacked, Good, Backed
<1> QED
    BY <1>1, <1>2, RestKeeping, PTL DEF RestSpec
=============================================================================
