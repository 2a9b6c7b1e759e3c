------------------------------ MODULE CopyTrading ------------------------------
(***************************************************************************)
(* Copy trading: one task that copies one wallet's trades in one token, on *)
(* paper or live.                                                          *)
(*                                                                         *)
(* One loop takes the wallet's announced trades, the periodic              *)
(* reconciliation and the sweep of the paper book in turn; between any two *)
(* of its database calls the API edits the task, closes a paper holding or *)
(* resets the book, positions are verified and closed, the watcher lets go *)
(* of the wallet, and the process may crash.                               *)
(***************************************************************************)
EXTENDS Naturals, FiniteSets

CONSTANTS
    Trades,      \* the wallet's trades in the token, one unit each, numbered
    Buys,        \* those that are buys
    ExitMode,    \* who closes copies: "buy_only", "mirror" or "hybrid"
    Budget,      \* total_budget_sol, in copies: every copy is one unit of budget
    Lot,         \* tokens a paper copy buys
    MaxEdits     \* bound on what the API and the watcher do

ASSUME TradesAssumption == Trades \subseteq Nat /\ IsFiniteSet(Trades) /\ Buys \subseteq Trades
ASSUME SizesAssumption == Budget \in Nat /\ Lot \in Nat \ {0}
ASSUME ExitModeAssumption == ExitMode \in {"buy_only", "mirror", "hybrid"}
ASSUME BoundAssumption == MaxEdits \in Nat

VARIABLES
    task,        \* the copy_tasks row: enabled, mode, pause_reason
    attached,    \* copy_source_active: the wallet is watched for this task
    edit,        \* the API call in progress
    edits,
    loop,        \* what the loop is doing
    events,      \* copy_target_events: trades received, counted by the inventory
    holding,     \* copy_target_holdings: what the wallet seems to hold
    decision,    \* copy_decisions, per trade
    claim,       \* copy_live_claims, per trade
    spent,       \* copy_spend, per mode
    book,        \* the copy_paper_positions row
    legs,        \* decisions of paper exits, which carry signatures of their own
    entry        \* the position that copied a buy

inventory == <<events, holding>>
ledger == <<decision, claim, spent, book, legs>>
vars == <<task, attached, edit, edits, loop, inventory, ledger, entry>>

None == [kind |-> "none"]
Min2(a, b) == IF a < b THEN a ELSE b

\* The task still holds an open copy, in its paper book or as a real position.
open == {t \in Trades : entry[t] \in {"sent", "verified"}}
HoldsCopies == book.held > 0 \/ open # {}

\* wants_watch: while it copies, and while the wallet's sells still close something.
Wants(enabled) == enabled \/ (ExitMode # "buy_only" /\ HoldsCopies)

Init ==
    /\ task \in [enabled : {TRUE}, mode : {"paper", "live"}, reason : {"none"}]
    /\ attached = TRUE
    /\ edit = None
    /\ edits = 0
    /\ loop = None
    /\ events = {}
    /\ holding = 0
    /\ decision = [t \in Trades |-> "none"]
    /\ claim = [t \in Trades |-> "none"]
    /\ spent = [paper |-> 0, live |-> 0]
    /\ book = [held |-> 0, sold |-> 0, sells |-> 0, epoch |-> 0]
    /\ legs = {}
    /\ entry = [t \in Trades |-> "none"]

-----------------------------------------------------------------------------
(* record_outcome: the decision, its spend, its effect on the paper book and *)
(* the state of its claim, in one transaction.                               *)

\* apply_paper_sell: what is left is all that can be sold.
SellPaper(amount) ==
    LET sold == Min2(amount, book.held) IN
    book' = IF book.held = 0 THEN book
            ELSE [book EXCEPT !.held = @ - sold, !.sold = @ + sold, !.sells = @ + 1]

\* book_outcome.
Book(outcome, amount) ==
    \/ /\ outcome = "paper_filled"
       /\ spent' = [spent EXCEPT !.paper = @ + 1]
       /\ book' = [book EXCEPT !.held = @ + Lot]
    \/ /\ outcome \in {"live_submitted", "live_confirmed"}
       /\ spent' = [spent EXCEPT !.live = @ + 1]
       /\ UNCHANGED book
    \/ /\ outcome = "paper_sell"
       /\ SellPaper(amount)
       /\ UNCHANGED spent
    \/ /\ outcome \in {"skipped", "failed", "live_sell_submitted"}
       /\ UNCHANGED <<spent, book>>

ClaimState(outcome) ==
    CASE outcome \in {"live_submitted", "live_sell_submitted"} -> "submitted"
      [] outcome \in {"live_confirmed", "failed", "skipped"} -> "settled"
      [] outcome \in {"paper_filled", "paper_sell"} -> "unchanged"

\* Variants of record_outcome: one that books a confirmation like a first decision,
\* one that never lets a decision change.
RecordOutcomeTwice(t, outcome, amount) ==
    LET inserted == decision[t] = "none"
        upgrade  == decision[t] = "live_submitted" /\ outcome = "live_confirmed" IN
    /\ decision' = IF inserted \/ upgrade THEN [decision EXCEPT ![t] = outcome] ELSE decision
    /\ IF inserted \/ upgrade THEN Book(outcome, amount) ELSE UNCHANGED <<spent, book>>
    /\ claim' = IF claim[t] = "none" \/ ClaimState(outcome) = "unchanged" THEN claim
                ELSE [claim EXCEPT ![t] = ClaimState(outcome)]
    /\ UNCHANGED legs

RecordOutcomeOnce(t, outcome, amount) ==
    /\ IF decision[t] = "none"
       THEN decision' = [decision EXCEPT ![t] = outcome] /\ Book(outcome, amount)
       ELSE UNCHANGED <<decision, spent, book>>
    /\ claim' = IF claim[t] = "none" \/ ClaimState(outcome) = "unchanged" THEN claim
                ELSE [claim EXCEPT ![t] = ClaimState(outcome)]
    /\ UNCHANGED legs

\* The first decision on a trade stands; all it can become is confirmed.
RecordOutcome(t, outcome, amount) ==
    LET inserted == decision[t] = "none"
        upgrade  == decision[t] = "live_submitted" /\ outcome = "live_confirmed" IN
    /\ decision' = IF inserted \/ upgrade THEN [decision EXCEPT ![t] = outcome] ELSE decision
    /\ IF inserted THEN Book(outcome, amount) ELSE UNCHANGED <<spent, book>>
    /\ claim' = IF claim[t] = "none" \/ ClaimState(outcome) = "unchanged" THEN claim
                ELSE [claim EXCEPT ![t] = ClaimState(outcome)]
    /\ UNCHANGED legs

\* A variant without the decision table's uniqueness.
RecordLegAgain(leg, amount) ==
    /\ legs' = legs \cup {leg}
    /\ SellPaper(amount)
    /\ UNCHANGED <<decision, claim, spent>>

\* An exit of the paper book: one decision for each leg of each round.
RecordLeg(leg, amount) ==
    /\ legs' = legs \cup {leg}
    /\ IF leg \in legs THEN UNCHANGED book ELSE SellPaper(amount)
    /\ UNCHANGED <<decision, claim, spent>>

NextLeg(kind) == [kind |-> kind, round |-> book.epoch, sells |-> book.sells]

-----------------------------------------------------------------------------
(* process_activity: one announced trade.                                    *)

Activity(stage, t) == [kind |-> "activity", at |-> stage, trade |-> t]
Decision(t) == [kind |-> "activity", at |-> "decide", trade |-> t, task |-> task,
                before |-> holding]
Recording(t, outcome, amount) ==
    [kind |-> "activity", at |-> "record", trade |-> t, outcome |-> outcome,
     amount |-> amount]

Handling(stage) == loop.kind = "activity" /\ loop.at = stage
Turn(stage) == loop' = Activity(stage, loop.trade)
Conclude(outcome, amount) == loop' = Recording(loop.trade, outcome, amount)
Buying == loop.trade \in Buys
LoopOnly == UNCHANGED <<attached, edit, edits, inventory, entry>>

\* Whether a trade is a decision of the task: a paused one only closes what it
\* holds.  copy_trading.enabled may have any value.
Acts(t, copyEnabled) ==
    IF t \in Buys THEN copyEnabled /\ task.enabled
    ELSE ExitMode # "buy_only" /\ ((task.enabled /\ copyEnabled) \/ HoldsCopies)

\* observe_target_inventory: the trade is counted, not below nothing.
Observe(t) ==
    /\ events' = events \cup {t}
    /\ holding' = IF t \in Buys THEN holding + 1 ELSE IF holding > 0 THEN holding - 1 ELSE 0

\* A trade is announced once or, after a crash or a lag, not at all; those of one side
\* are alike, and numbered as they arrive.  The inventory counts it whether or not the
\* task acts on it.  A replay may be too old, and the latency switch may stand an
\* enabled task down.
Receive(t) ==
    /\ loop = None
    /\ t \notin events
    /\ \A u \in Trades \ events : (u \in Buys <=> t \in Buys) => t <= u
    /\ Observe(t)
    /\ \E copyEnabled \in BOOLEAN :
        loop' \in IF ~Acts(t, copyEnabled) THEN {None}
                  ELSE {Recording(t, "skipped", 0), Decision(t)} \cup
                       (IF task.enabled THEN {Activity("pause", t)} ELSE {})
    /\ UNCHANGED <<task, attached, edit, edits, ledger, entry>>

\* pause_task, which changes an enabled row only.
StandDown(reason) ==
    task' = IF task.enabled THEN [task EXCEPT !.enabled = FALSE, !.reason = reason] ELSE task

PauseTask ==
    /\ Handling("pause")
    /\ StandDown("paused")
    /\ IF task.enabled THEN Turn("unwatch") ELSE Conclude("skipped", 0)
    /\ UNCHANGED ledger
    /\ LoopOnly

\* sync_task_watch: the wallet is watched from here on, or no longer is.
SyncWatch(enabled) == attached' = Wants(enabled)

Unwatch ==
    /\ Handling("unwatch")
    /\ SyncWatch(FALSE)
    /\ Conclude("skipped", 0)
    /\ UNCHANGED <<task, edit, edits, inventory, ledger, entry>>

Deciding(mode) == Handling("decide") /\ loop.task.mode = mode

\* Paper buys: the pipeline and its fill, within what is left of the budget.
DecidePaperBuy ==
    /\ Deciding("paper") /\ Buying
    /\ \/ Conclude("skipped", 0)
       \/ spent.paper < Budget /\ Conclude("paper_filled", Lot)
    /\ UNCHANGED <<task, ledger>>
    /\ LoopOnly

\* The share of the wallet's holding that it sold, of the tokens held; all of them
\* when the holding is unknown.
Share(held, before) == IF before <= 1 \/ held = 1 THEN {held} ELSE 1..(held - 1)

\* Paper sells, or the emergency stop.
DecidePaperSell ==
    /\ Deciding("paper") /\ ~Buying
    /\ \/ Conclude("skipped", 0)
       \/ book.held > 0 /\ \E amount \in Share(book.held, loop.before) :
            Conclude("paper_sell", amount)
    /\ UNCHANGED <<task, ledger>>
    /\ LoopOnly

\* claim_live_activity: an owned claim ends the matter.
Claim ==
    /\ IF claim[loop.trade] = "none"
       THEN claim' = [claim EXCEPT ![loop.trade] = "claimed"] /\ Turn("submit")
       ELSE loop' = None /\ UNCHANGED claim
    /\ UNCHANGED <<decision, spent, book, legs>>

\* A variant that claims nothing before it submits.
DecideLiveBuyUnclaimed ==
    /\ Deciding("live") /\ Buying
    /\ \/ Conclude("skipped", 0)
       \/ spent.live < Budget /\ Turn("submit")
    /\ UNCHANGED <<task, ledger>>
    /\ LoopOnly

\* Live buys: prepare_live_entry comes before the claim.
DecideLiveBuy ==
    /\ Deciding("live") /\ Buying
    /\ \/ Conclude("skipped", 0) /\ UNCHANGED ledger
       \/ spent.live < Budget /\ Claim
    /\ UNCHANGED task
    /\ LoopOnly

\* Live sells are claimed before anything is looked at.
DecideLiveSell ==
    /\ Deciding("live") /\ ~Buying
    /\ Claim
    /\ UNCHANGED task
    /\ LoopOnly

\* Admission and submission; a position of the token is in the way of another.
\* A swap that is sent but not confirmed counts as submitted.
SubmitBuy ==
    /\ Handling("submit") /\ Buying
    /\ \/ /\ \E outcome \in {"skipped", "failed"} : Conclude(outcome, 0)
          /\ UNCHANGED entry
       \/ /\ open = {}
          /\ \E outcome \in {"live_submitted", "live_confirmed"} : Conclude(outcome, 0)
          /\ entry' = [entry EXCEPT ![loop.trade] = "sent"]
    /\ UNCHANGED <<task, attached, edit, edits, inventory, ledger>>

\* prepare_copy_sell and the exit pipeline; the position closes in its own time.
SubmitSell ==
    /\ Handling("submit") /\ ~Buying
    /\ \E outcome \in {"skipped", "failed"} \cup
                      (IF open # {} THEN {"live_sell_submitted"} ELSE {}) :
            Conclude(outcome, 0)
    /\ UNCHANGED <<task, ledger>>
    /\ LoopOnly

Record ==
    /\ Handling("record")
    /\ RecordOutcome(loop.trade, loop.outcome, loop.amount)
    /\ loop' = None
    /\ UNCHANGED task
    /\ LoopOnly

\* A call that fails ends what the loop is doing, and so does a crash: all that the
\* loop keeps is in the tables.
Fails ==
    /\ loop # None
    /\ loop' = None
    /\ UNCHANGED <<task, ledger>>
    /\ LoopOnly

HandleActivity ==
    \/ PauseTask \/ Unwatch
    \/ DecidePaperBuy \/ DecidePaperSell \/ DecideLiveBuy \/ DecideLiveSell
    \/ SubmitBuy \/ SubmitSell \/ Record

-----------------------------------------------------------------------------
(* reconcile_runtime_state, at start and every minute.                       *)

Reconcile(stage) == [kind |-> "reconcile", at |-> stage]
Reconciling(stage) == loop.kind = "reconcile" /\ loop.at = stage

Upgradable(t) == decision[t] = "live_submitted" /\ entry[t] \in {"verified", "closed"}

\* sync_paused_watches: a paused row whose watch is not as it should be.
SyncPaused ==
    IF ~task.enabled /\ task.reason # "detached" /\ attached # Wants(FALSE)
    THEN Reconcile("watch") ELSE None

\* A variant that trusts the rows.
JudgeDetachedNever(settled) == SyncPaused

\* pause_detached_tasks: an enabled row that is not watched, unless it was written in
\* the last SOURCE_SETTLE_SECS.
JudgeDetached(settled) ==
    IF task.enabled /\ settled /\ ~attached THEN Reconcile("stand down") ELSE SyncPaused

JudgeEntries(settled) ==
    IF \E t \in Trades : Upgradable(t) THEN Reconcile("confirm") ELSE JudgeDetached(settled)

\* A variant that settles the claims with a decision only.
ReconcileClaimsDecided(stale, settled) ==
    /\ loop = None
    /\ claim' = [t \in Trades |-> IF claim[t] = "claimed" /\ decision[t] # "none"
                                  THEN "settled" ELSE claim[t]]
    /\ loop' = JudgeEntries(settled)
    /\ UNCHANGED <<task, decision, spent, book, legs>>
    /\ LoopOnly

\* reconcile_stale_claims: a claim with a decision is settled; of the others those
\* that are old enough (stale) are given up, with a decision that says so.
ReconcileClaims(stale, settled) ==
    LET claimed == {t \in Trades : claim[t] = "claimed"}
        decided == {t \in claimed : decision[t] # "none"} IN
    /\ loop = None
    /\ claim' = [t \in Trades |->
                    IF t \in decided THEN "settled"
                    ELSE IF t \in claimed /\ stale THEN "abandoned" ELSE claim[t]]
    /\ decision' = [t \in Trades |->
                      IF t \in claimed \ decided /\ stale THEN "skipped" ELSE decision[t]]
    /\ loop' = JudgeEntries(settled)
    /\ UNCHANGED <<task, spent, book, legs>>
    /\ LoopOnly

\* A submitted buy whose position has been verified is recorded once more.
ConfirmEntry(t, settled) ==
    /\ Reconciling("confirm")
    /\ Upgradable(t)
    /\ RecordOutcome(t, "live_confirmed", 0)
    /\ loop' = IF \E u \in Trades \ {t} : Upgradable(u) THEN loop ELSE JudgeDetached(settled)
    /\ UNCHANGED task
    /\ LoopOnly

PauseDetached ==
    /\ Reconciling("stand down")
    /\ StandDown("detached")
    /\ loop' = SyncPaused
    /\ UNCHANGED ledger
    /\ LoopOnly

\* The row was listed as paused when its watch is changed.
SyncPausedWatch ==
    /\ Reconciling("watch")
    /\ SyncWatch(FALSE)
    /\ loop' = None
    /\ UNCHANGED <<task, edit, edits, inventory, ledger, entry>>

Reconciles(settled) ==
    \/ \E stale \in BOOLEAN : ReconcileClaims(stale, settled)
    \/ \E t \in Trades : ConfirmEntry(t, settled)
Maintain == \/ \E settled \in BOOLEAN : Reconciles(settled)
            \/ PauseDetached \/ SyncPausedWatch

-----------------------------------------------------------------------------
(* The sweep of the paper book, and the API's way of closing a holding.      *)

\* An exit rule fires on the holding as it was read: part of it or all.
Sweep ==
    /\ loop = None
    /\ task.mode = "paper" /\ ExitMode # "mirror" /\ book.held > 0
    /\ \E amount \in 1..book.held :
        loop' = [kind |-> "sweep", leg |-> NextLeg("exit"), amount |-> amount]
    /\ UNCHANGED <<task, ledger>>
    /\ LoopOnly

SweepRecord ==
    /\ loop.kind = "sweep"
    /\ RecordLeg(loop.leg, loop.amount)
    /\ loop' = None
    /\ UNCHANGED task
    /\ LoopOnly

Starts(call) ==
    /\ edit = None
    /\ edits < MaxEdits
    /\ edits' = edits + 1
    /\ edit' = call

\* close_paper_holding sells all of it, or writes it off under another signature.
CloseHolding ==
    /\ book.held > 0
    /\ \E kind \in {"exit", "writeoff"} :
        Starts([kind |-> "close", leg |-> NextLeg(kind), amount |-> book.held])
    /\ UNCHANGED <<task, attached, loop, inventory, ledger, entry>>

CloseRecord ==
    /\ edit.kind = "close"
    /\ RecordLeg(edit.leg, edit.amount)
    /\ edit' = None
    /\ UNCHANGED <<task, attached, edits, loop, inventory, entry>>

-----------------------------------------------------------------------------
(* The API's edits of the task.                                              *)

\* A variant that leaves the reason as it was.
UpdateTaskKeepsReason ==
    /\ \E enabled \in BOOLEAN :
        Starts([kind |-> "update", at |-> "store", rolling |-> FALSE, orig |-> task,
                new |-> [task EXCEPT !.enabled = enabled]])
    /\ UNCHANGED <<task, attached, loop, inventory, ledger, entry>>

\* update_task reads the row, and writes all of it back with the fields it changes.
UpdateTask ==
    /\ \E enabled \in BOOLEAN :
        LET reason == IF enabled THEN "none"
                      ELSE IF task.enabled THEN "paused" ELSE task.reason IN
        Starts([kind |-> "update", at |-> "store", rolling |-> FALSE, orig |-> task,
                new |-> [task EXCEPT !.enabled = enabled, !.reason = reason]])
    /\ UNCHANGED <<task, attached, loop, inventory, ledger, entry>>

Updating(stage) == edit.kind = "update" /\ edit.at = stage
EditOnly == UNCHANGED <<edits, loop, inventory, ledger, entry>>

\* The mode is compared in one statement and written in the next: a mode that was
\* changed since it was read is refused, or overwritten when the change comes between.
UpdateStore ==
    /\ Updating("store")
    /\ \/ /\ task' = edit.new
          /\ edit' = IF edit.rolling THEN None ELSE [edit EXCEPT !.at = "watch"]
       \/ edit.new.mode # task.mode /\ edit' = None /\ UNCHANGED task
    /\ UNCHANGED attached
    /\ EditOnly

\* The watch follows the row; when it, or the positions' owner after it, cannot be
\* changed, the row as it was read is written again.
UpdateWatch ==
    LET rollback == [edit EXCEPT !.at = "store", !.rolling = TRUE, !.new = edit.orig] IN
    /\ Updating("watch")
    /\ \/ SyncWatch(edit.new.enabled) /\ edit' \in {None, rollback}
       \/ UNCHANGED attached /\ edit' = rollback
    /\ UNCHANGED task
    /\ EditOnly

\* A call ends with an error, its client goes away, or the process crashes.
EditFails ==
    /\ edit # None
    /\ edit' = None
    /\ UNCHANGED <<task, attached, edits, loop, inventory, ledger, entry>>

\* Calls of one statement, which may come in the middle of another call.
Edited ==
    /\ edits < MaxEdits
    /\ edits' = edits + 1
    /\ UNCHANGED <<edit, loop, inventory, entry>>

SetTaskMode ==
    /\ \E mode \in {"paper", "live"} : task' = [task EXCEPT !.mode = mode]
    /\ UNCHANGED <<attached, ledger>>
    /\ Edited

\* Paper decisions, and every skip whichever mode it was made in, are forgotten; the
\* claims are kept.
ResetPaperBook ==
    /\ task.mode = "paper"
    /\ decision' = [t \in Trades |->
                      IF decision[t] \in {"paper_filled", "paper_sell", "skipped"} THEN "none"
                      ELSE decision[t]]
    /\ spent' = [spent EXCEPT !.paper = 0]
    /\ book' = [held |-> 0, sold |-> 0, sells |-> 0, epoch |-> book.epoch + 1]
    /\ legs' = {}
    /\ UNCHANGED <<task, claim, attached>>
    /\ Edited

\* The watcher switches a saturated target off, or the user removes it.
Detach ==
    /\ attached' = FALSE
    /\ UNCHANGED <<task, ledger>>
    /\ Edited

Edits ==
    \/ UpdateTask \/ UpdateStore \/ UpdateWatch
    \/ CloseHolding \/ CloseRecord
    \/ SetTaskMode \/ ResetPaperBook \/ Detach

-----------------------------------------------------------------------------
(* Time, the positions, and the process.                                     *)

\* The verifier finds the swap of a copy; or that it failed, and the position goes.
EntryVerdict(t) ==
    /\ entry[t] = "sent"
    /\ \E verdict \in {"verified", "failed"} : entry' = [entry EXCEPT ![t] = verdict]
    /\ UNCHANGED <<task, attached, edit, edits, loop, inventory, ledger>>

\* Its own exits, or a copied sell, close a position.
PositionCloses(t) ==
    /\ entry[t] = "verified"
    /\ entry' = [entry EXCEPT ![t] = "closed"]
    /\ UNCHANGED <<task, attached, edit, edits, loop, inventory, ledger>>

Next ==
    \/ \E t \in Trades : Receive(t) \/ EntryVerdict(t) \/ PositionCloses(t)
    \/ HandleActivity \/ Maintain \/ Sweep \/ SweepRecord \/ Fails
    \/ Edits \/ EditFails

\* The loop goes on; reconciliation fails at times but not for ever, a claim grows old
\* and a row settles.  The API owes nothing.
Fairness ==
    /\ WF_vars(HandleActivity)
    /\ WF_vars(SweepRecord)
    /\ SF_vars(ReconcileClaims(TRUE, TRUE))
    /\ \A t \in Buys : SF_vars(ConfirmEntry(t, TRUE))
    /\ SF_vars(PauseDetached)
    /\ SF_vars(SyncPausedWatch)

Spec == Init /\ [][Next]_vars /\ Fairness

-----------------------------------------------------------------------------
Tasks == [enabled : BOOLEAN, mode : {"paper", "live"},
          reason : {"none", "paused", "detached"}]

\* Type correctness; a reason goes with a pause and with nothing else.
TypeOK ==
    /\ task \in Tasks
    /\ task.enabled <=> task.reason = "none"
    /\ attached \in BOOLEAN
    /\ edits \in 0..MaxEdits
    /\ events \subseteq Trades
    /\ holding \in 0..Cardinality(events)
    /\ decision \in [Trades -> {"none", "skipped", "paper_filled", "paper_sell",
                      "live_submitted", "live_confirmed", "live_sell_submitted", "failed"}]
    /\ claim \in [Trades -> {"none", "claimed", "submitted", "settled", "abandoned"}]
    /\ spent \in [paper : Nat, live : Nat]
    /\ book \in [held : Nat, sold : Nat, sells : Nat, epoch : Nat]
    /\ entry \in [Trades -> {"none", "sent", "verified", "failed", "closed"}]

Booked(outcomes) == Cardinality({t \in Trades : decision[t] \in outcomes})
OnItsWay(t) == loop.kind = "activity" /\ loop.trade = t /\ loop.at = "record"

\* Every real buy is accounted for, across crashes, failed writes and edits: it is
\* booked as spent, or about to be, or its claim stands and keeps it from being made
\* again; and the live ledger is the buys on record, each of them once.
LiveSpendIsAccounted ==
    /\ \A t \in Trades : entry[t] # "none" =>
          \/ decision[t] \in {"live_submitted", "live_confirmed"}
          \/ OnItsWay(t) /\ loop.outcome \in {"live_submitted", "live_confirmed"}
          \/ claim[t] \in {"claimed", "abandoned"}
    /\ spent.live = Booked({"live_submitted", "live_confirmed"})

\* No order of trades, crashes, resets and changes of mode spends more of either
\* ledger than the task's budget.
BudgetHolds == spent.paper <= Budget /\ spent.live <= Budget

\* The paper book balances: what was bought in this book is held or sold, and every
\* sale of it is a decision on record, however sweeps, closes and resets interleave.
PaperBookBalances ==
    /\ book.held + book.sold = Lot * spent.paper
    /\ book.sells <= Cardinality(legs) + Booked({"paper_sell"})

\* A claim does not stay open: it is settled with its decision or given up.
ClaimsResolve == []<>(\A t \in Trades : claim[t] # "claimed")

\* A submitted buy whose position was verified is recorded as confirmed.
SubmittedIsConfirmed == []<>(\A t \in Trades : ~Upgradable(t))

\* The watch and the task agree in the end, whatever was lost between the row and the
\* watch: an enabled task is watched, a paused one as long as it holds copies its
\* wallet's sells close, unless it is marked as detached.
WatchFollowsTask ==
    []<>(IF task.enabled THEN attached
         ELSE task.reason = "detached" \/ attached = Wants(FALSE))

================================================================================
