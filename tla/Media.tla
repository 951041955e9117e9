------------------------------- MODULE Media -------------------------------
(* The attachments of one account: the files of its bucket and of the      *)
(* legacy directory, the process-wide table of chunk streams (media.rs),   *)
(* the stash of a send, the download chain, the burn of a view-once        *)
(* message, the deletion of the account, and the governor's passes.        *)
(*                                                                         *)
(* Two locks order these. Sends, downloads and the account's deletion hold *)
(* the account's mutex of the host for as long as they run; download is    *)
(* the only one of them that spans steps here. Opening a stream, burning   *)
(* and deleting rows hold the service lock; a burn that an open sync asks  *)
(* for comes from the receive lane and knows only that one. Reads and      *)
(* closes go through the first group's service, the landing of a download  *)
(* and the governor through none.                                          *)
(*                                                                         *)
(* Abstractions. An attachment is its own id; a message has one. A file is *)
(* the time it was written, its size Chunks; files land by a rename and    *)
(* are never short. The preview files of the engine are left out. Of the   *)
(* download only its outcome is kept. Other accounts have other buckets    *)
(* and other streams.                                                      *)
EXTENDS Naturals, FiniteSets

CONSTANTS Once, Plain, Story,    \* attachments of view-once and of other messages, of stories
          Legacy,                \* those the legacy directory may hold
          Handle, Chunks, MaxHandles, HandleTTL,
          MediaTTL, Quota, Budget, MaxTime, None

VARIABLES
    account,    \* whether the account's row is there
    row,        \* of a message: "absent", "fresh" or "burned"
    own, old,   \* the write times of the files in the bucket and the legacy directory
    stream,     \* the handle table
    load,       \* the attachment a download is fetching
    held,       \* what the holder of the service lock has left to do
    pass,       \* the governor's pass
    now

vars == <<account, row, own, old, stream, load, held, pass, now>>

Message == Once \cup Plain
Att == Message \cup Story
Time == 0..MaxTime

Stream == [of : Att, file : {"own", "old"}, read : 0..Chunks, till : Nat]
Entry == Att \X Time
Pass == [dir : {"own", "old"}, todo : SUBSET Entry, since : Time, left : 0..Budget,
         stuck : Nat]

TypeOK ==
    /\ account \in BOOLEAN
    /\ row \in [Message -> {"absent", "fresh", "burned"}]
    /\ own \in [Att -> Time \cup {None}] /\ old \in [Att -> Time \cup {None}]
    /\ stream \in [Handle -> Stream \cup {None}]
    /\ load \in Att \cup {None}
    /\ held \in Once \cup {"rows", None}
    /\ pass \in Pass \cup {None}
    /\ now \in Time

Init ==
    /\ account = TRUE
    /\ row = [m \in Message |-> "absent"]
    /\ own = [x \in Att |-> None]
    /\ \E L \in SUBSET Legacy : old = [x \in Att |-> IF x \in L THEN 0 ELSE None]
    /\ stream = [h \in Handle |-> None]
    /\ load = None /\ held = None /\ pass = None /\ now = 0

Unlocked == held = None

(* resolve_account and resolve_target                                      *)
Resolves(x) == account /\ (x \in Message => row[x] # "absent")

(* locate_attachment: the account's bucket first, then the legacy probe.   *)
Locate(x) ==
    CASE own[x] # None -> "own"
      [] own[x] = None /\ old[x] # None -> "old"
      [] OTHER -> None

(* ingest_receive lands a message; its bytes are not fetched.              *)
Arrive(m) ==
    /\ Unlocked /\ account /\ row[m] = "absent"
    /\ row' = [row EXCEPT ![m] = "fresh"]
    /\ UNCHANGED <<account, own, old, stream, load, held, pass, now>>

(* A send inserts its row and, best-effort, stashes the bytes it carries.  *)
Send(m) ==
    /\ Unlocked /\ load = None /\ account /\ row[m] = "absent"
    /\ row' = [row EXCEPT ![m] = "fresh"]
    /\ \/ own' = [own EXCEPT ![m] = now]
       \/ own' = own
    /\ UNCHANGED <<account, old, stream, load, held, pass, now>>

(* sweep_expired, at the head of every open and read.                      *)
Swept ==
    [h \in Handle |->
        IF stream[h] # None /\ stream[h].till > now THEN stream[h] ELSE None]

(* Mutant: only the missing file refuses an opened view-once message.      *)
MutOpens(x) == Resolves(x) /\ Locate(x) # None

(* An opened view-once message answers what a missing file answers.        *)
Opens(x) == Resolves(x) /\ (x \in Message => row[x] # "burned") /\ Locate(x) # None

(* open_media_handle and open_story_attachment_handle: at the account's    *)
(* ceiling the open is refused, and the expired streams are gone anyway.   *)
Open(h, x) ==
    /\ Unlocked /\ Opens(x)
    /\ Swept[h] = None
    /\ stream' =
         IF Cardinality({g \in Handle : Swept[g] # None}) < MaxHandles
         THEN [Swept EXCEPT ![h] = [of |-> x, file |-> Locate(x), read |-> 0,
                                    till |-> now + HandleTTL]]
         ELSE Swept
    /\ UNCHANGED <<account, row, own, old, load, held, pass, now>>

(* read_chunk: one chunk at the next offset, if the file is still there.   *)
ReadChunk(h) ==
    /\ Swept[h] # None
    /\ LET s == stream[h]
           file == IF s.file = "own" THEN own[s.of] ELSE old[s.of]
       IN stream' = IF file # None /\ s.read < Chunks
                    THEN [Swept EXCEPT ![h].read = s.read + 1] ELSE Swept
    /\ UNCHANGED <<account, row, own, old, load, held, pass, now>>

Close(h) ==
    /\ stream[h] # None
    /\ stream' = [stream EXCEPT ![h] = None]
    /\ UNCHANGED <<account, row, own, old, load, held, pass, now>>

(* The streams without those of the attachments in X.                      *)
Without(X) ==
    [h \in Handle |->
        IF stream[h] # None /\ stream[h].of \in X THEN None ELSE stream[h]]

(* markViewOnceOpened, or an open sync from another device, burns the row; *)
(* a replay finds it burned and does no more.                              *)
BurnRow(m) ==
    /\ Unlocked /\ account /\ m \in Once /\ row[m] = "fresh"
    /\ row' = [row EXCEPT ![m] = "burned"]
    /\ held' = m
    /\ UNCHANGED <<account, own, old, stream, load, pass, now>>

(* burn_view_once_media: erase the file of the bucket, which may fail, and *)
(* close the message's streams. Legacy files are left to the governor.     *)
BurnMedia ==
    /\ held \in Once
    /\ own' \in {own, [own EXCEPT ![held] = None]}
    /\ stream' = Without({held})
    /\ held' = None
    /\ UNCHANGED <<account, row, old, load, pass, now>>

(* prepare_attachment_download and its siblings: bytes that are there are  *)
(* answered at once, a burned row is not asked about.                      *)
StartDownload(x) ==
    /\ Unlocked /\ load = None /\ Resolves(x)
    /\ Locate(x) = None
    /\ load' = x
    /\ UNCHANGED <<account, row, own, old, stream, held, pass, now>>

(* The verified plaintext lands by a rename, or the chain fails.           *)
EndDownload ==
    /\ load # None
    /\ \/ own' = [own EXCEPT ![load] = now]
       \/ own' = own
    /\ load' = None
    /\ UNCHANGED <<account, row, old, stream, held, pass, now>>

(* deleteLocalData removes the account's rows ...                          *)
DeleteRows ==
    /\ Unlocked /\ load = None /\ account
    /\ account' = FALSE
    /\ row' = [m \in Message |-> "absent"]
    /\ held' = "rows"
    /\ UNCHANGED <<own, old, stream, load, pass, now>>

(* ... and, still under the lock, its streams and its bucket, which may    *)
(* fail. A repeated delete finds no row and comes straight here.           *)
ClearMedia ==
    /\ held = "rows" \/ (Unlocked /\ load = None /\ ~account)
    /\ stream' = Without(Att)
    /\ own' \in {own, [x \in Att |-> None]}
    /\ held' = None
    /\ UNCHANGED <<account, row, old, load, pass, now>>

Files(d) == IF d = "own" THEN own ELSE old

(* sweep_dir lists the directory once and works through the list.          *)
Listing(d, left) ==
    [dir |-> d, since |-> now, left |-> left, stuck |-> 0,
     todo |-> {<<x, Files(d)[x]>> : x \in {y \in Att : Files(d)[y] # None}}]

(* A pass starts with the process and after a number of inbound messages.  *)
StartPass ==
    /\ pass = None
    /\ pass' = Listing("own", Budget)
    /\ UNCHANGED <<account, row, own, old, stream, load, held, now>>

Expired(e) == pass.since > e[2] + MediaTTL

(* First the files past their time to live, then, in the bucket, the       *)
(* oldest ones until the rest is within the quota.                         *)
Sweepable(e) ==
    \/ Expired(e)
    \/ /\ \A f \in pass.todo : ~Expired(f) /\ e[2] <= f[2]
       /\ pass.dir = "own"
       /\ Cardinality(pass.todo) + pass.stuck > Quota

(* delete_file takes whatever has that name by now; a failure is logged.   *)
Sweep(e) ==
    /\ pass # None /\ e \in pass.todo /\ pass.left > 0 /\ Sweepable(e)
    /\ \/ /\ pass' = [pass EXCEPT !.todo = @ \ {e}, !.left = @ - 1]
          /\ own' = IF pass.dir = "own" THEN [own EXCEPT ![e[1]] = None] ELSE own
          /\ old' = IF pass.dir = "old" THEN [old EXCEPT ![e[1]] = None] ELSE old
       \/ /\ pass' = [pass EXCEPT !.todo = @ \ {e},
                                  !.stuck = IF Expired(e) THEN @ ELSE @ + 1]
          /\ UNCHANGED <<own, old>>
    /\ UNCHANGED <<account, row, stream, load, held, now>>

(* The legacy directory comes second; an exhausted budget ends the pass.   *)
EndSweep ==
    /\ pass # None
    /\ pass.left = 0 \/ \A e \in pass.todo : ~Sweepable(e)
    /\ pass' = IF pass.dir = "own" /\ pass.left > 0
               THEN Listing("old", pass.left) ELSE None
    /\ UNCHANGED <<account, row, own, old, stream, load, held, now>>

(* The process dies and starts again: rows and files are what is left.     *)
Restart ==
    /\ stream' = [h \in Handle |-> None]
    /\ load' = None /\ held' = None /\ pass' = None
    /\ UNCHANGED <<account, row, own, old, now>>

Tick ==
    /\ now < MaxTime
    /\ now' = now + 1
    /\ UNCHANGED <<account, row, own, old, stream, load, held, pass>>

Next ==
    \/ \E m \in Message : Arrive(m) \/ Send(m) \/ BurnRow(m)
    \/ \E h \in Handle : ReadChunk(h) \/ Close(h) \/ \E x \in Att : Open(h, x)
    \/ \E x \in Att : StartDownload(x)
    \/ \E e \in Entry : Sweep(e)
    \/ BurnMedia \/ EndDownload \/ DeleteRows \/ ClearMedia \/ StartPass
    \/ EndSweep \/ Restart \/ Tick

-----------------------------------------------------------------------------
(* "A burned view-once message must not keep a readable stream open"       *)
(* (close_for_message) and "a chunk-stream handle cannot outlive the       *)
(* account session it was opened from": outside the lock region that ends  *)
(* them, no stream belongs to a burned message or a deleted account, even  *)
(* where a download lands after the burn or a crash kept its file.         *)
StreamIsAllowed ==
    \A h \in Handle :
        stream[h] # None =>
            /\ account \/ held = "rows"
            /\ stream[h].of \in Once =>
                  row[stream[h].of] # "burned" \/ held = stream[h].of
=============================================================================
