------------------------------ MODULE WalletWatch ------------------------------
(***************************************************************************)
(* The wallet observation service: how the transactions of one watched     *)
(* address are found, by notifications and by paging back from the head of *)
(* its history to a durable cursor, and pushed through one funnel (dedupe, *)
(* decode, record, commit, announce).                                      *)
(*                                                                         *)
(* One event loop does all of it, so a replayed range and a notification   *)
(* never overlap; what interleaves with the loop are new transactions, a   *)
(* crash between any two writes, and the API that adds, switches and       *)
(* removes targets.  Signatures are numbered in the order of the chain, so *)
(* a range of history is an interval and a page a part of it.              *)
(***************************************************************************)
EXTENDS Naturals

CONSTANTS
    Last,              \* transactions of the address, over the whole run
    Activity,          \* those that succeeded and classify as an activity
    PageSize,          \* signatures per RPC page
    MaxPages,          \* pages per target and tick
    SaturationStreak,  \* overflows in a row that disable a target
    MaxRestarts,       \* bound on crashes
    MaxEdits           \* bound on calls of the watch API

Sig == 1..Last

ASSUME ActivityAssumption == Last \in Nat /\ Activity \subseteq Sig
ASSUME PagingAssumption ==
    /\ PageSize \in Nat \ {0}
    /\ MaxPages \in Nat \ {0}
    /\ SaturationStreak \in Nat \ {0}
ASSUME BoundAssumption == MaxRestarts \in Nat /\ MaxEdits \in Nat

VARIABLES
    own,         \* the address is the bot's own wallet
    head,        \* the newest transaction that has landed
    known,       \* known_signatures: the durable dedupe set
    recorded,    \* processed_transactions rows of activities
    pending,     \* the pending_transactions rows
    cursor,      \* the watch_cursors row: is there one, and its signature (0: NULL)
    row,         \* the watch_targets row
    registered,  \* the loop has a TargetRuntime for the address
    reload,      \* RELOAD_NOTIFY holds a permit
    range,       \* TargetRuntime.catch_up with its flags, and the replay's progress
    streak,      \* TargetRuntime.overflow_streak
    job,         \* the signature in the funnel
    restarts,
    edits,
    sent,        \* history: how often each signature has been announced
    skipped,     \* history: signatures the cursor was moved over on purpose
    unread,      \* history: those it was moved over because it could not be read
    unswept      \* history: pending rows that a failed delete has left behind

chain == <<own, head>>
target == <<row, registered, reload, edits>>
rows == <<pending, unswept>>
passed == <<skipped, unread>>
vars == <<chain, known, recorded, rows, cursor, target, range, streak, job, restarts,
          sent, passed>>

None == [kind |-> "none"]

Min2(a, b) == IF a < b THEN a ELSE b
UpTo(n, bound) == Min2(n, bound)

Init ==
    /\ own \in BOOLEAN
    /\ head = 0
    /\ known = {}
    /\ recorded = {}
    /\ pending = {}
    /\ cursor = [row |-> FALSE, at |-> 0]
    /\ row \in {"absent"} \cup (IF own THEN {} ELSE {"enabled"})
    /\ registered = (own \/ row = "enabled")
    /\ reload = FALSE
    /\ range = None
    /\ streak = 0
    /\ job = None
    /\ restarts = 0
    /\ edits = 0
    /\ sent = [s \in Sig |-> 0]
    /\ skipped = {}
    /\ unread = {}
    /\ unswept = {}

\* The chain: one more transaction of the address.
Lands ==
    /\ head < Last
    /\ head' = head + 1
    /\ UNCHANGED <<own, known, recorded, rows, cursor, target, range, streak, job,
                   restarts, sent, passed>>

-----------------------------------------------------------------------------
(* The funnel: process_signature.  A job is a signature on its way through *)
(* it; Replaying tells a signature of a range from a notified one.         *)

Replaying == range # None /\ range.pos > 0
LoopIsFree == job = None /\ ~Replaying

At(s, stage) == job' = [kind |-> "job", sig |-> s, stage |-> stage]

\* The outcome goes to poll_target, which replays the rest whatever it is; a
\* notification's goes to the retry channel, which only notifies again.
Outcome(terminal) ==
    /\ job' = None
    /\ range' = IF Replaying
                THEN [range EXCEPT !.pos = @ + 1, !.clean = @ /\ terminal]
                ELSE range

Idle == UNCHANGED <<chain, cursor, target, streak, restarts, passed>>

\* mark_pending and clear_pending: an error of the database is logged, no more.
MarkPending(s) == pending' \in {pending, pending \cup {s}} /\ UNCHANGED unswept

ClearRow(s) ==
    \/ pending' = pending \ {s} /\ unswept' = unswept \ {s}
    \/ unswept' = unswept \cup ({s} \cap pending) /\ UNCHANGED pending

\* Variant: a known signature is passed over and nothing else.
AlreadySeenOnly(s) ==
    /\ s \in known
    /\ Outcome(TRUE)
    /\ UNCHANGED <<rows, known, recorded, sent>>

\* has_seen says yes: a crash may have come between its commit and its clearing.
AlreadySeen(s) ==
    /\ s \in known
    /\ ClearRow(s)
    /\ Outcome(TRUE)
    /\ UNCHANGED <<known, recorded, sent>>

\* Variant: admitted to the dedupe set before it is decoded.
NotYetButKnown(s) ==
    /\ known' = known \cup {s}
    /\ MarkPending(s)
    /\ Outcome(FALSE)
    /\ UNCHANGED <<recorded, sent>>

\* The database cannot be asked, or the transaction is not indexed yet, or its
\* record cannot be stored.  Only the first comes before mark_pending.
NotYet(s) ==
    /\ IF s \in known THEN UNCHANGED rows ELSE MarkPending(s)
    /\ Outcome(FALSE)
    /\ UNCHANGED <<known, recorded, sent>>

\* Decoded and recorded, or found not worth it: failed, undecodable, no activity.
Decoded(s) ==
    /\ s \notin known
    /\ MarkPending(s)
    /\ recorded' = recorded \cup ({s} \cap Activity)
    /\ At(s, "commit")
    /\ UNCHANGED <<known, sent, range>>

Process(s) == AlreadySeen(s) \/ NotYet(s) \/ Decoded(s)

\* A notification, or one of its retries (schedule_ws_retry): for any landed
\* signature, at any time, or never.
Notify(s) ==
    /\ LoopIsFree
    /\ registered
    /\ s <= head
    /\ Process(s)
    /\ Idle

\* dedupe::commit, the database before the cache in front of it.
Commit ==
    /\ job # None /\ job.stage = "commit"
    /\ known' = known \cup {job.sig}
    /\ At(job.sig, "clear")
    /\ UNCHANGED <<recorded, rows, range, sent>>
    /\ Idle

CommitFails ==
    /\ job # None /\ job.stage = "commit"
    /\ Outcome(FALSE)
    /\ UNCHANGED <<known, recorded, rows, sent>>
    /\ Idle

ClearPending ==
    /\ job # None /\ job.stage = "clear"
    /\ ClearRow(job.sig)
    /\ IF job.sig \in Activity
       THEN At(job.sig, "publish") /\ UNCHANGED range
       ELSE Outcome(TRUE)
    /\ UNCHANGED <<known, recorded, sent>>
    /\ Idle

\* What the consumers make of it (a lagging one misses it) is theirs.
Publish ==
    /\ job # None /\ job.stage = "publish"
    /\ sent' = [sent EXCEPT ![job.sig] = UpTo(@ + 1, 2)]
    /\ Outcome(TRUE)
    /\ UNCHANGED <<known, recorded, rows>>
    /\ Idle

-----------------------------------------------------------------------------
(* Paging: poll_target and poller.rs.  A range covers lo..newest so far and *)
(* is to reach down to until; a range without a durable cursor to reach     *)
(* (first) ends with its first page.                                        *)

\* The cursor as it is read: an error in reading it counts as no cursor, and one in
\* looking for its row as no row.
CursorRead(readsFail) ==
    {cursor} \cup (IF readsFail THEN [row : {cursor.row, FALSE}, at : {cursor.at, 0}] ELSE {})

\* The address counts as one without a cursor, or as a new target, by error.
Misread(read) == (read.at = 0 /\ cursor.at > 0) \/ (~own /\ ~read.row /\ cursor.row)

\* CatchUpState::new.
OpenRange(read) ==
    [kind |-> "range", until |-> read.at, first |-> read.at = 0,
     baseline |-> ~own /\ ~read.row, misread |-> Misread(read),
     lo |-> 0, newest |-> 0, complete |-> FALSE, pos |-> 0, clean |-> TRUE]

Ranges(readsFail) ==
    IF range # None THEN {range}
    ELSE {OpenRange(read) : read \in CursorRead(readsFail)}

\* Signatures between until and what has been fetched.
Missing(r) == (IF r.lo = 0 THEN head ELSE r.lo - 1) - r.until

\* Variant: every tick pages from the head again.
AdvanceFromHead(r, n) ==
    LET pages == IF r.first THEN Min2(n, 1) ELSE n
        all   == head - r.until
        some  == Min2(pages * PageSize, all) IN
    IF r.complete \/ some = 0 THEN [r EXCEPT !.complete = @ \/ pages > 0]
    ELSE [r EXCEPT
            !.newest = head, !.lo = head + 1 - some,
            !.complete = r.first \/ all < pages * PageSize]

\* advance_catch_up with ingest_page: n more pages, newest first.  A page that is
\* not full ends the range, the first page does if there is no cursor to reach.
Advance(r, n) ==
    LET pages == IF r.first THEN Min2(n, 1) ELSE n
        some  == Min2(pages * PageSize, Missing(r)) IN
    IF r.complete \/ pages = 0 THEN r
    ELSE [r EXCEPT
            !.newest   = IF @ = 0 /\ some > 0 THEN head ELSE @,
            !.lo       = IF some = 0 THEN @
                         ELSE (IF r.lo = 0 THEN head + 1 ELSE r.lo) - some,
            !.complete = r.first \/ Missing(r) < pages * PageSize]

SetCursor(s) == cursor' = [row |-> TRUE, at |-> s]

\* The cursor passes signatures that the poll takes for history of before the watch.
PassOver(r, sigs) ==
    IF r.misread
    THEN unread' = unread \cup {s \in sigs : s > cursor.at} /\ UNCHANGED skipped
    ELSE skipped' = skipped \cup sigs /\ UNCHANGED unread

\* Variant: the gap is skipped every time.
OverflowForEver(r, writes) ==
    /\ range' = None
    /\ streak' = streak + 1
    /\ IF writes
       THEN SetCursor(r.newest) /\ skipped' = skipped \cup (r.until + 1)..r.newest
       ELSE UNCHANGED <<cursor, skipped>>
    /\ UNCHANGED <<row, reload, unread>>

\* handle_overflow: once, the gap is skipped; the second time in a row the target
\* is disabled, unless its row cannot be updated (or is gone).
Overflow(r, writes) ==
    /\ range' = None
    /\ streak' = UpTo(streak + 1, SaturationStreak)
    /\ IF streak + 1 >= SaturationStreak
       THEN /\ IF writes /\ row # "absent"
               THEN row' = "disabled" /\ reload' = TRUE
               ELSE UNCHANGED <<row, reload>>
            /\ UNCHANGED <<cursor, skipped>>
       ELSE /\ IF writes
               THEN SetCursor(r.newest) /\ skipped' = skipped \cup (r.until + 1)..r.newest
               ELSE UNCHANGED <<cursor, skipped>>
            /\ UNCHANGED <<row, reload>>
    /\ UNCHANGED unread

\* A new target: the head of its history becomes the cursor, nothing is replayed.
Baseline(r, writes) ==
    /\ IF writes
       THEN /\ cursor' = IF r.newest > 0 THEN [row |-> TRUE, at |-> r.newest]
                                         ELSE [cursor EXCEPT !.row = TRUE]
            /\ PassOver(r, 1..r.newest)
            /\ range' = None
            /\ streak' = 0
       ELSE /\ range' = r
            /\ UNCHANGED <<cursor, passed, streak>>
    /\ UNCHANGED <<row, reload>>

\* The range is complete: its signatures are processed from the oldest on.
StartReplay(r) ==
    /\ streak' = 0
    /\ range' = IF r.newest = 0 THEN None ELSE [r EXCEPT !.pos = r.lo, !.clean = TRUE]
    /\ UNCHANGED <<cursor, passed, row, reload>>

\* One poll: at start, at a reconnection or at a tick; they differ in nothing else.
\* It gets as far as n pages.
Poll(r, n, writes) ==
    LET next == Advance(r, n) IN
    /\ LoopIsFree
    /\ registered
    /\ \/ /\ next.complete /\ next.baseline
          /\ Baseline(next, writes)
       \/ /\ next.complete /\ ~next.baseline
          /\ StartReplay(next)
       \/ /\ ~next.complete /\ (own \/ n < MaxPages)
          /\ range' = next
          /\ UNCHANGED <<cursor, passed, streak, row, reload>>
       \/ /\ ~next.complete /\ ~own /\ n = MaxPages
          /\ Overflow(next, writes)
    /\ UNCHANGED <<chain, known, recorded, rows, registered, edits, job, restarts, sent>>

\* Every error the databases and the node can give, and none.
PollOnce ==
    \E r \in Ranges(TRUE), n \in 0..MaxPages, writes \in BOOLEAN : Poll(r, n, writes)
PollWell == \E r \in Ranges(FALSE) : Poll(r, MaxPages, TRUE)

Replay ==
    /\ job = None
    /\ Replaying /\ range.pos <= range.newest
    /\ Process(range.pos)
    /\ Idle

\* A first window leaves everything older behind.
PassOlder ==
    IF range.first THEN PassOver(range, 1..(range.lo - 1)) ELSE UNCHANGED passed

\* Variant: signatures that could not be processed are left behind.
EndReplayAnyway ==
    /\ job = None
    /\ Replaying /\ range.pos > range.newest
    /\ range' = None
    /\ SetCursor(range.newest)
    /\ PassOlder
    /\ UNCHANGED <<chain, known, recorded, rows, target, streak, job, restarts, sent>>

\* The replay went through: the cursor moves up to the newest signature.  It did
\* not, or the cursor cannot be written: the same range is replayed next time.
EndReplay ==
    /\ job = None
    /\ Replaying /\ range.pos > range.newest
    /\ \/ /\ range.clean
          /\ range' = None
          /\ SetCursor(range.newest)
          /\ PassOlder
       \/ /\ range' = [range EXCEPT !.pos = 0, !.clean = TRUE]
          /\ UNCHANGED <<cursor, passed>>
    /\ UNCHANGED <<chain, known, recorded, rows, target, streak, job, restarts, sent>>

-----------------------------------------------------------------------------
(* Targets come and go: the API writes the tables and asks for a reload.   *)

Rows(to) ==
    /\ ~own
    /\ edits < MaxEdits
    /\ edits' = edits + 1
    /\ row' = to
    /\ reload' = TRUE
    /\ UNCHANGED <<chain, known, recorded, rows, registered, range, streak, job,
                   restarts, sent, passed>>

AddTarget == row = "absent" /\ Rows("enabled") /\ UNCHANGED cursor

SetEnabled == row # "absent" /\ Rows(IF row = "enabled" THEN "disabled" ELSE "enabled")
                             /\ UNCHANGED cursor

\* The last source goes, and the cursor with it.
RemoveTarget ==
    /\ row # "absent"
    /\ Rows("absent")
    /\ cursor' = [row |-> FALSE, at |-> 0]

\* reload_targets builds the runtimes anew and sweeps the cursor that a poll wrote
\* after its target was removed.  Errors in either are logged.
ReloadTargets(works) ==
    /\ LoopIsFree
    /\ reload
    /\ reload' = FALSE
    /\ registered' = (own \/ (works /\ row = "enabled"))
    /\ cursor' = IF ~own /\ works /\ row = "absent" THEN [row |-> FALSE, at |-> 0]
                                                    ELSE cursor
    /\ range' = None
    /\ streak' = 0
    /\ UNCHANGED <<chain, known, recorded, rows, row, edits, job, restarts, sent,
                   passed>>

Reload == \E works \in BOOLEAN : ReloadTargets(works)

\* Before the watch starts, the transactions service takes every recorded signature
\* into the dedupe set, if it can, and of the own wallet's any that it processes.
AtStart == IF own THEN SUBSET (1..head) ELSE {{}, recorded}

StartWith(dedupe) ==
    /\ restarts < MaxRestarts
    /\ restarts' = restarts + 1
    /\ registered' = (own \/ row = "enabled")
    /\ cursor' = IF ~own /\ row = "absent" THEN [row |-> FALSE, at |-> 0] ELSE cursor
    /\ reload' = FALSE
    /\ range' = None
    /\ streak' = 0
    /\ job' = None
    /\ known' = dedupe
    /\ recorded' = recorded \cup (dedupe \cap Activity)
    /\ UNCHANGED <<chain, rows, row, edits, sent, passed>>

\* Variant: the dedupe set is the one in memory.
RestartForgets == StartWith({})

\* A crash at any point, and the start that follows: the tables are what is left.
Restart == \E marked \in AtStart : StartWith(known \cup marked)

-----------------------------------------------------------------------------

Funnel == Commit \/ CommitFails \/ ClearPending \/ Publish

Next ==
    \/ Lands
    \/ \E s \in Sig : Notify(s)
    \/ Funnel
    \/ PollOnce \/ Replay \/ EndReplay
    \/ AddTarget \/ SetEnabled \/ RemoveTarget
    \/ Reload
    \/ Restart

\* The loop keeps running and ticks every second; what is tried again and again
\* (a page, a decoding, a write) succeeds in the end.  No notification is sure to
\* come and nothing is sure to land.  The database of the dedupe set in the end
\* always answers: one refusal in every pass would keep every pass from counting.
ReplayWell(s) == Replay /\ range.pos = s /\ (AlreadySeen(s) \/ Decoded(s))
EndReplayWell == EndReplay /\ range' = None

Fairness ==
    /\ WF_vars(Funnel) /\ SF_vars(Commit)
    /\ WF_vars(Replay) /\ \A s \in Sig : SF_vars(ReplayWell(s))
    /\ WF_vars(EndReplay) /\ SF_vars(EndReplayWell)
    /\ SF_vars(PollWell)
    /\ WF_vars(Reload)
    /\ <>[][Replay /\ range.pos \in known => range'.clean = range.clean]_vars

Spec == Init /\ [][Next]_vars /\ Fairness

-----------------------------------------------------------------------------
(* Properties.                                                             *)

Range ==
    [kind : {"range"}, until : 0..Last, first : BOOLEAN, baseline : BOOLEAN,
     misread : BOOLEAN, lo : 0..Last, newest : 0..Last, complete : BOOLEAN,
     pos : 0..(Last + 1), clean : BOOLEAN]

Job == [kind : {"job"}, sig : Sig, stage : {"commit", "clear", "publish"}]

\* The types of the variables.
TypeOK ==
    /\ own \in BOOLEAN
    /\ head \in 0..Last
    /\ known \in SUBSET Sig
    /\ recorded \in SUBSET Sig
    /\ pending \in SUBSET Sig
    /\ cursor \in [row : BOOLEAN, at : 0..Last]
    /\ row \in {"absent", "enabled", "disabled"}
    /\ registered \in BOOLEAN
    /\ reload \in BOOLEAN
    /\ range \in Range \cup {None}
    /\ streak \in 0..SaturationStreak
    /\ job \in Job \cup {None}
    /\ restarts \in 0..MaxRestarts
    /\ edits \in 0..MaxEdits
    /\ sent \in [Sig -> 0..2]
    /\ skipped \in SUBSET Sig
    /\ unread \in SUBSET Sig
    /\ unswept \in SUBSET Sig

OnItsWay(s) == job # None /\ job.sig = s /\ s \in Activity

Status(s) ==
    CASE s > head -> "future"
      [] s <= head /\ sent[s] > 1 -> "repeated"
      [] s <= head /\ sent[s] = 1 -> "announced"
      [] s <= head /\ sent[s] = 0 /\ s \in known /\ ~OnItsWay(s) -> "dropped"
      [] s <= head /\ sent[s] = 0 /\ (s \notin known \/ OnItsWay(s)) -> "landed"

Feed == INSTANCE ActivityFeed WITH status <- [s \in Sig |-> Status(s)]

\* Notifications, retries, replays and restarts together announce a transaction
\* at most once, and not after it has been dropped (dedupe.rs: "a restart
\* mid-burst must not re-emit").
FeedSpec == Feed!Spec

\* A replayed range, a first window, a baseline and an overflow move the cursor, and
\* landings, edits, errors and crashes come between their steps: behind the cursor
\* every signature has been through the funnel, or was skipped by name, or was passed
\* over because the cursor could not be read (service.rs:108-121), in no other way.
\* Without the last, which poller.rs does not know of ("cannot skip signatures"), it
\* is false.
CursorCoversHistory == \A s \in 1..cursor.at : s \in known \cup skipped \cup unread

\* Without a crash nothing that is worth an announcement is lost once the dedupe
\* set knows it (process_signature: the commit comes first, then the broadcast).
LostOnlyByCrash ==
    restarts = 0 => \A s \in Activity : Status(s) # "dropped"

\* A crash may leave a signature pending that is decided; the replay that the cursor
\* has to wait for clears it (process_signature: "Reconcile a crash between durable
\* dedupe commit ...").  So behind the cursor a row is there only because deleting it
\* has failed, or the replay never came to it.
PendingIsReconciled ==
    \A s \in pending : s <= cursor.at => s \in unswept \cup skipped \cup unread

\* A transaction of an address that stays watched is decided or passed over,
\* also when no notification of it ever comes, and however often its decoding,
\* the node or a write fails first.
EverySignatureSettles ==
    []<>(registered => \A s \in 1..head : s \in known \cup skipped \cup unread)
=============================================================================
