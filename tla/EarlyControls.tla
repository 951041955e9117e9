----------------------------- MODULE EarlyControls -----------------------------
(* Receive ingestion of one account (ConnectorService::ingest_receive and    *)
(* ingest_control_receive): messages land as rows, and edits, remote deletes,*)
(* poll votes and poll terminations fold into the row they name.  A control  *)
(* that arrives before its row waits in a bounded in-memory table and is     *)
(* folded in when the row lands.                                             *)
EXTENDS Integers, FiniteSets, Sequences, SequencesExt

CONSTANTS
    NULL,
    Conv,         \* conversations; a conversation exists once a row landed in it
    Author,       \* sender projections (stable_hash_id), Self among them
    Self,         \* the account itself: rows mirrored from its other devices
    Stamp,        \* upstream timestamps, each chosen by its sender's clock
    Env,          \* ... and those of the envelopes that end a poll
    Sent,         \* the messages that were sent, each [conv, ts, author]
    Polls,        \* ... and those of them that carry a poll
    Alias,        \* the number form behind an author's protocol identity, or NULL
    Text, Voter, Selection,
    Bound,        \* the number of options of a poll
    MaxVotes,     \* MAX_POLL_VOTES
    EditHistory,  \* MAX_EDIT_HISTORY_ENTRIES
    Capacity,     \* EARLY_CONTROL_BUFFER_CAPACITY
    TTL,          \* EARLY_CONTROL_BUFFER_TTL_MS
    MaxAge,       \* REMOTE_DELETE_MAX_AGE_MS
    MaxTime, MaxControls, MaxFaults   \* bounds of the exploration

Key == [conv : Conv, ts : Stamp, author : Author]

(* Two forms of one author name one sender: only one of them has the row.    *)
SentAssumption ==
    /\ Sent \subseteq Key /\ Polls \subseteq Sent
    /\ \A k, l \in Sent : k.conv = l.conv /\ k.ts = l.ts => l.author # Alias[k.author]

VARIABLES
    row,      \* the message rows by identity
    notice,   \* the system rows a poll termination leaves in the timeline
    conv,     \* the conversations that exist
    known,    \* the authors whose alias is recorded (peer_identities; Self's always is)
    early,    \* early_controls
    now,
    log,      \* ghost: the controls taken in, in the order they arrived
    landed,   \* ghost: when each row landed
    dropped,  \* ghost: waiting controls that left the table without their turn
    faults

vars == <<row, notice, conv, known, early, now, log, landed, dropped, faults>>

Original == "original"

NoVotes == [v \in Voter |-> {}]

NoRow == [st |-> "none", body |-> NULL, past |-> <<>>, votes |-> NoVotes, ended |-> FALSE]

Landed == [NoRow EXCEPT !.st = "live", !.body = Original]

-----------------------------------------------------------------------------
(* What the store folds into a row (store.rs).                               *)

(* The tombstone keeps the row and its edit history; body and poll go.       *)
MarkRemoteDeleted(r) ==
    IF r.st = "live" THEN [NoRow EXCEPT !.st = "deleted", !.past = r.past] ELSE r

SnapshotPriorBody(past, body) ==
    LET all == Append(past, body) IN
    IF Len(all) > EditHistory THEN Tail(all) ELSE all

MutApplyEdit(r, text) ==
    IF r.st # "none" THEN [r EXCEPT !.body = text] ELSE r

(* apply_inbound_edit and apply_outgoing_edit_by_signal.                     *)
ApplyEdit(r, text) ==
    IF r.st = "live" THEN [r EXCEPT !.body = text, !.past = SnapshotPriorBody(r.past, r.body)]
                     ELSE r

HasPoll(k, r) == k \in Polls /\ r.st = "live"

Valid(sel) == sel \cap 0..(Bound - 1)

(* A known voter's selection is replaced (an empty one clears it); a new     *)
(* voter needs a selection and a free place.                                 *)
VoteCounts(k, r, who, sel) ==
    /\ HasPoll(k, r)
    /\ \/ r.votes[who] # {}
       \/ Valid(sel) # {} /\ Cardinality({v \in Voter : r.votes[v] # {}}) < MaxVotes

FoldPollVote(k, r, who, sel) ==
    IF VoteCounts(k, r, who, sel) THEN [r EXCEPT !.votes[who] = Valid(sel)] ELSE r

EndCounts(k, r) == HasPoll(k, r) /\ ~r.ended

FoldPollTerminate(k, r) == IF EndCounts(k, r) THEN [r EXCEPT !.ended = TRUE] ELSE r

Fold(k, r, p) ==
    CASE p.t = "delete" -> MarkRemoteDeleted(r)
      [] p.t = "edit" -> ApplyEdit(r, p.text)
      [] p.t = "vote" -> FoldPollVote(k, r, p.who, p.sel)
      [] p.t = "end" -> FoldPollTerminate(k, r)

(* The live arm found its row; otherwise it buffers.  A mirrored edit of an  *)
(* own tombstone is answered by the tombstone.                               *)
Answers(k, r, p) ==
    CASE p.t = "delete" -> r.st = "live"
      [] p.t = "edit" -> r.st = "live" \/ (k.author = Self /\ r.st # "none")
      [] p.t = "vote" -> VoteCounts(k, r, p.who, p.sel)
      [] p.t = "end" -> EndCounts(k, r)

(* land_poll_terminate_notice: the first flip mints one row, identified by   *)
(* the termination envelope's own stamp; a stampless one mints none.         *)
WithNotice(ns, k, r, p) ==
    IF /\ p.t = "end" /\ EndCounts(k, r) /\ p.env # NULL
       /\ ~\E n \in ns : n.conv = k.conv /\ n.env = p.env /\ n.author = k.author
    THEN ns \cup {[conv |-> k.conv, env |-> p.env, author |-> k.author, poll |-> k.ts]}
    ELSE ns

-----------------------------------------------------------------------------
(* The table of waiting controls.                                            *)

IsFresh(e) == now - e.at < TTL

Oldest(q) == CHOOSE i \in DOMAIN q : /\ \A j \in DOMAIN q : q[i].at <= q[j].at
                                     /\ \A j \in 1..(i - 1) : q[j].at # q[i].at

MakeRoom(q) == IF Len(q) >= Capacity THEN RemoveAt(q, Oldest(q)) ELSE q

(* buffer_early_control: sweep, evict the oldest at capacity, push.          *)
BufferEarlyControl(q, e) == Append(MakeRoom(SelectSeq(q, IsFresh)), e)

Entry(k, p) == [key |-> k, at |-> now, p |-> p, no |-> Len(log) + 1]

Buffered(ks, p) == FoldLeft(BufferEarlyControl, early, [i \in DOMAIN ks |-> Entry(ks[i], p)])

(* Fresh entries that lost their place to younger ones.                      *)
Evicted(q) == {e \in Range(early) : IsFresh(e) /\ e \notin Range(q)}

Turn(e) == <<e.no, e.key>>

MutStaleMatching(k, q) == SelectSeq(q, LAMBDA e : e.key = k)

(* drain_early_controls: the landed row's fresh entries apply in buffer      *)
(* order, the fresh rest stays.                                              *)
Matching(k, q) == SelectSeq(q, LAMBDA e : IsFresh(e) /\ e.key = k)

Remaining(k, q) == SelectSeq(q, LAMBDA e : IsFresh(e) /\ e.key # k)

DrainEarlyControls(k, es) ==
    FoldLeft(LAMBDA acc, e : [r |-> Fold(k, acc.r, e.p), ns |-> WithNotice(acc.ns, k, acc.r, e.p)],
             [r |-> Landed, ns |-> notice], es)

-----------------------------------------------------------------------------
Init ==
    /\ row = [k \in Sent |-> NoRow]
    /\ notice = {} /\ conv \in SUBSET Conv /\ known = {Self} /\ early = <<>> /\ now = 0
    /\ log = <<>> /\ landed = [k \in Sent |-> NULL] /\ dropped = {}
    /\ faults = 0

(* ingest_receive of a message: a known identity changes no row, a new one   *)
(* is inserted and its waiting controls are applied.  Its envelope may carry *)
(* the protocol identity behind the number, recorded last.                   *)
Receive(k) ==
    /\ row[k].st = "none"
    /\ LET drained == DrainEarlyControls(k, Matching(k, early)) IN
          /\ row' = [row EXCEPT ![k] = drained.r]
          /\ notice' = drained.ns
    /\ early' = Remaining(k, early)
    /\ conv' = conv \cup {k.conv}
    /\ \E as \in SUBSET {a \in Author : Alias[a] = k.author} : known' = known \cup as
    /\ landed' = [landed EXCEPT ![k] = [at |-> now, no |-> Len(log)]]
    /\ UNCHANGED <<now, log, dropped, faults>>

(* ... and a store error while entry i drains, before or after its fold (a   *)
(* delete has nothing to read back) and before or after the notice: what was *)
(* committed stays, the table was taken out and is not put back.             *)
ReceiveFails(k) ==
    /\ row[k].st = "none" /\ faults < MaxFaults
    /\ \E i \in DOMAIN Matching(k, early) : \E folded \in {i - 1, i} : \E noted \in (i - 1)..folded :
          LET es == Matching(k, early)
              Done(n) == SubSeq(es, 1, n)
          IN  /\ es[i].p.t = "delete" => folded = i - 1
              /\ row' = [row EXCEPT ![k] = DrainEarlyControls(k, Done(folded)).r]
              /\ notice' = DrainEarlyControls(k, Done(noted)).ns
              /\ dropped' = dropped \cup {Turn(e) : e \in Range(early) \ Range(Done(folded))}
    /\ early' = <<>>
    /\ conv' = conv \cup {k.conv}
    /\ landed' = [landed EXCEPT ![k] = [at |-> now, no |-> Len(log)]]
    /\ faults' = faults + 1
    /\ UNCHANGED <<known, now, log>>

Keys(c, ts, as) == [i \in DOMAIN as |-> [conv |-> c, ts |-> ts, author |-> as[i]]]

(* The first of the rows ks identifies that answers the control, if any.     *)
Hits(ks, p) == SelectSeq(ks, LAMBDA k : k \in Sent /\ k.conv \in conv /\ Answers(k, row[k], p))

Logged(ks, p) ==
    log' = Append(log, [keys |-> Range(ks), p |-> p, at |-> now, no |-> Len(log) + 1])

(* A control for the row that one of the keys ks identifies: the row that    *)
(* answers takes it, otherwise it waits under every key.                     *)
TakeIn(ks, p) ==
    /\ Len(log) < MaxControls
    /\ Logged(ks, p)
    /\ \/ LET k == Hits(ks, p)[1] IN
          /\ Hits(ks, p) # <<>>
          /\ row' = [row EXCEPT ![k] = Fold(k, @, p)]
          /\ notice' = WithNotice(notice, k, row[k], p)
          /\ UNCHANGED <<early, dropped>>
       \/ /\ Hits(ks, p) = <<>>
          /\ early' = Buffered(ks, p)
          /\ dropped' = dropped \cup {Turn(e) : e \in Evicted(early')}
          /\ UNCHANGED <<row, notice>>
    /\ UNCHANGED <<conv, known, now, landed, faults>>

(* A remote delete older than the window is dropped, when its conversation   *)
(* exists; without one it goes straight to the table.                        *)
RemoteDelete(c, ts, a, age) ==
    /\ c \in conv => age <= MaxAge
    /\ TakeIn(Keys(c, ts, <<a>>), [t |-> "delete", age |-> age])

Edit(c, ts, a, text) == TakeIn(Keys(c, ts, <<a>>), [t |-> "edit", text |-> text])

(* apply_poll_fold: the rows a named poll author may have sent, under the    *)
(* name itself and under its recorded alias.                                 *)
Candidates(a) == IF a \in known /\ Alias[a] # NULL THEN <<a, Alias[a]>> ELSE <<a>>

PollVote(c, ts, a, who, sel) ==
    TakeIn(Keys(c, ts, Candidates(a)), [t |-> "vote", who |-> who, sel |-> sel, of |-> a])

PollTerminate(c, ts, a, env) ==
    TakeIn(Keys(c, ts, Candidates(a)), [t |-> "end", env |-> env, of |-> a])

(* A store error after the termination's fold: the notice is not minted.     *)
PollTerminateFails(c, ts, a, env) ==
    LET ks == Keys(c, ts, Candidates(a))
        p == [t |-> "end", env |-> env, of |-> a]
    IN  /\ Len(log) < MaxControls /\ faults < MaxFaults
        /\ Hits(ks, p) # <<>>
        /\ Logged(ks, p)
        /\ row' = [row EXCEPT ![Hits(ks, p)[1]] = FoldPollTerminate(Hits(ks, p)[1], @)]
        /\ faults' = faults + 1
        /\ UNCHANGED <<notice, conv, known, early, now, landed, dropped>>

(* The table lives in memory.                                                *)
Restart ==
    /\ faults < MaxFaults
    /\ faults' = faults + 1
    /\ early' = <<>>
    /\ dropped' = dropped \cup {Turn(e) : e \in Range(early)}
    /\ UNCHANGED <<row, notice, conv, known, now, log, landed>>

Tick == now < MaxTime /\ now' = now + 1
        /\ UNCHANGED <<row, notice, conv, known, early, log, landed, dropped, faults>>

Control(c, ts, a) ==
    \/ \E age \in {MaxAge, MaxAge + 1} : RemoteDelete(c, ts, a, age)
    \/ \E text \in Text : Edit(c, ts, a, text)
    \/ \E who \in Voter, sel \in Selection : PollVote(c, ts, a, who, sel)
    \/ \E env \in Env \cup {NULL} : PollTerminate(c, ts, a, env) \/ PollTerminateFails(c, ts, a, env)

Next ==
    \/ \E k \in Sent : Receive(k) \/ ReceiveFails(k)
    \/ \E c \in Conv, ts \in Stamp, a \in Author : Control(c, ts, a)
    \/ Restart \/ Tick

-----------------------------------------------------------------------------
RowType == [st : {"none", "live", "deleted"}, body : Text \cup {NULL, Original},
            past : Seq(Text \cup {Original}), votes : [Voter -> SUBSET (0..(Bound - 1))],
            ended : BOOLEAN]

(* The type of every variable; the table of waiting controls never exceeds   *)
(* EARLY_CONTROL_BUFFER_CAPACITY, nor a row its edit history.                 *)
TypeOK ==
    /\ row \in [Sent -> RowType]
    /\ \A k \in Sent : Len(row[k].past) <= EditHistory
    /\ conv \subseteq Conv /\ known \subseteq Author \cup {Self} /\ now \in Nat
    /\ Len(early) <= Capacity
    /\ \A e \in Range(early) : e.key \in Key /\ e.at <= now

(* Which controls a landed row has had its turn with: those that came after  *)
(* it, and those that were still waiting, and not yet stale, when it landed. *)
HadTurn(k, e) ==
    /\ k \in e.keys
    /\ \/ e.no > landed[k].no
       \/ landed[k].at - e.at < TTL /\ <<e.no, k>> \notin dropped

(* "A converged row is byte-identical whether its control envelope arrived   *)
(* early or late" (drain_early_controls): a landed row is its original with  *)
(* its own author's controls folded in, in the order they arrived, wherever  *)
(* among them the row itself arrived. Nor does a replayed or a waiting       *)
(* termination leave the poll a second notice.                               *)
ConvergedRow ==
    /\ \A k \in Sent : landed[k] # NULL =>
          row[k] = FoldLeft(LAMBDA r, e : Fold(k, r, e.p), Landed,
                            SelectSeq(log, LAMBDA e : HadTurn(k, e)))
    /\ \A m, n \in notice :
          m.conv = n.conv /\ m.poll = n.poll /\ m.author = n.author => m = n

(* A remote-deleted message never comes back: not by a replayed envelope,    *)
(* a late edit or a waiting control.                                         *)
Buried ==
    \A k \in Sent : row[k].st = "deleted" => row'[k].st = "deleted" /\ row'[k].body = NULL

=============================================================================
