-------------------------- MODULE CopyTradingProofs --------------------------
(***************************************************************************)
(* Machine-checked facts about CopyTrading, for any trades, budget, lot,   *)
(* exit mode and number of edits: every real buy stays accounted for, the  *)
(* budget is never overspent, and the paper book balances.                 *)
(***************************************************************************)
EXTENDS CopyTrading, FiniteSetTheorems, TLAPS

USE TradesAssumption, SizesAssumption, ExitModeAssumption, BoundAssumption

-----------------------------------------------------------------------------
(* The inductive invariant *)

Live == {"live_submitted", "live_confirmed"}
Outcomes == {"skipped", "failed", "paper_filled", "paper_sell", "live_sell_submitted"} \cup Live

Activities == [kind : {"activity"}, at : {"pause", "unwatch", "submit"}, trade : Trades]
Decisions == [kind : {"activity"}, at : {"decide"}, trade : Trades, task : Tasks, before : Nat]
Recordings == [kind : {"activity"}, at : {"record"}, trade : Trades, outcome : Outcomes,
               amount : Nat]
Legs == [kind : {"exit", "writeoff"}, round : Nat, sells : Nat]
Sweeps == [kind : {"sweep"}, leg : Legs, amount : Nat]
Reconciliations == [kind : {"reconcile"}, at : {"confirm", "stand down", "watch"}]

Closes == [kind : {"close"}, leg : Legs, amount : Nat]
Updates == [kind : {"update"}, at : {"store", "watch"}, rolling : BOOLEAN, orig : Tasks,
            new : Tasks]

Reasoned(row) == row.enabled <=> row.reason = "none"

LoopTypeOK ==
    loop \in {None} \cup Activities \cup Decisions \cup Recordings \cup Sweeps
             \cup Reconciliations

EditTypeOK ==
    /\ edit \in {None} \cup Closes \cup Updates
    /\ edit.kind = "update" => Reasoned(edit.orig) /\ Reasoned(edit.new)

\* A trade that was never received has left nothing anywhere.
Untouched ==
    \A t \in Trades \ events : decision[t] = "none" /\ claim[t] = "none" /\ entry[t] = "none"

\* What the loop may rely on at each stage of a trade: it is the only one at work on
\* it, so the trade is undecided, and the budget it found is still there.
LoopOK ==
    loop.kind = "activity" =>
        /\ loop.trade \in events
        /\ decision[loop.trade] = "none"
        /\ loop.at \in {"pause", "unwatch", "decide"} => claim[loop.trade] = "none"
        /\ loop.at = "submit" =>
              /\ claim[loop.trade] = "claimed"
              /\ loop.trade \in Buys => spent.live < Budget
        /\ loop.at # "record" => entry[loop.trade] = "none"
        /\ loop.at = "record" =>
              /\ claim[loop.trade] \in {"none", "claimed"}
              /\ loop.outcome \in Live => claim[loop.trade] = "claimed" /\ spent.live < Budget
              /\ loop.outcome \notin Live => entry[loop.trade] = "none"
              /\ loop.outcome = "paper_filled" => spent.paper < Budget
              /\ loop.outcome \in {"paper_filled", "paper_sell"} => claim[loop.trade] = "none"

ClaimedUndecided == \A t \in Trades : claim[t] = "claimed" => decision[t] = "none"

\* A copy that was sent is on record, or its claim keeps it from being sent again.
Accounted ==
    \A t \in Trades : entry[t] # "none" =>
        decision[t] \in Live \/ claim[t] \in {"claimed", "abandoned"}

LiveLedger == spent.live = Booked(Live)

TaskOK == task \in Tasks /\ Reasoned(task) /\ attached \in BOOLEAN /\ edits \in 0..MaxEdits
InventoryOK == events \subseteq Trades /\ holding \in 0..Cardinality(events)
LedgerTypeOK ==
    /\ decision \in [Trades -> {"none", "skipped", "paper_filled", "paper_sell",
                      "live_submitted", "live_confirmed", "live_sell_submitted", "failed"}]
    /\ claim \in [Trades -> {"none", "claimed", "submitted", "settled", "abandoned"}]
    /\ spent \in [paper : Nat, live : Nat]
    /\ book \in [held : Nat, sold : Nat, sells : Nat, epoch : Nat]
    /\ IsFiniteSet(legs)
EntryTypeOK == entry \in [Trades -> {"none", "sent", "verified", "failed", "closed"}]

Types == TaskOK /\ InventoryOK /\ LedgerTypeOK /\ EntryTypeOK /\ LoopTypeOK /\ EditTypeOK

IInv ==
    /\ Types
    /\ Untouched /\ LoopOK /\ ClaimedUndecided
    /\ Accounted /\ LiveLedger /\ BudgetHolds /\ PaperBookBalances

LEMMA IInvImplies ==
  ASSUME IInv
  PROVE  TypeOK /\ LiveSpendIsAccounted /\ BudgetHolds /\ PaperBookBalances
<1>1. TypeOK
  BY DEF IInv, Types, TypeOK, TaskOK, Reasoned, InventoryOK, LedgerTypeOK, EntryTypeOK
<1>2. LiveSpendIsAccounted
  BY DEF IInv, Accounted, LiveLedger, LiveSpendIsAccounted, Live
<1> QED BY <1>1, <1>2 DEF IInv

LEMMA InitIInv ==
  ASSUME Init
  PROVE  IInv
<1>1. Types
  <2>1. TaskOK /\ LoopTypeOK /\ EditTypeOK /\ EntryTypeOK
    <3>1. task \in Tasks /\ Reasoned(task)
      BY DEF Init, Tasks, Reasoned
    <3>2. attached \in BOOLEAN /\ edits \in 0..MaxEdits /\ loop = None /\ edit = None
      BY DEF Init
    <3>3. EntryTypeOK /\ None.kind # "update"
      BY DEF Init, EntryTypeOK, None
    <3> QED BY <3>1, <3>2, <3>3 DEF TaskOK, LoopTypeOK, EditTypeOK
  <2>2. InventoryOK /\ LedgerTypeOK
    BY FS_EmptySet DEF Init, InventoryOK, LedgerTypeOK
  <2> QED BY <2>1, <2>2 DEF Types
<1>2. Untouched /\ LoopOK /\ ClaimedUndecided /\ Accounted /\ BudgetHolds
  BY DEF Init, Untouched, LoopOK, ClaimedUndecided, Accounted, BudgetHolds, None
<1>3. \A outcomes : "none" \notin outcomes => {t \in Trades : decision[t] \in outcomes} = {}
  BY DEF Init
<1>4. LiveLedger
  <2>1. Booked(Live) = 0
    BY <1>3, FS_EmptySet DEF Booked, Live
  <2> QED BY <2>1 DEF Init, LiveLedger
<1>5. PaperBookBalances
  <2>1. Booked({"paper_sell"}) = 0
    BY <1>3, FS_EmptySet DEF Booked
  <2> QED BY <2>1, FS_EmptySet DEF Init, PaperBookBalances
<1> QED BY <1>1, <1>2, <1>4, <1>5 DEF IInv

-----------------------------------------------------------------------------
(* Steps of the loop alone, and of the API alone *)

LEMMA LedgerStays ==
  ASSUME IInv, UNCHANGED <<ledger, entry>>, events \subseteq events'
  PROVE  /\ LedgerTypeOK' /\ EntryTypeOK'
         /\ Untouched' /\ ClaimedUndecided' /\ Accounted' /\ LiveLedger'
         /\ BudgetHolds' /\ PaperBookBalances'
<1>1. LedgerTypeOK' /\ EntryTypeOK'
  BY DEF IInv, Types, LedgerTypeOK, EntryTypeOK, ledger
<1>2. Untouched' /\ ClaimedUndecided' /\ Accounted'
  BY DEF IInv, Untouched, ClaimedUndecided, Accounted, ledger
<1>3. LiveLedger' /\ BudgetHolds' /\ PaperBookBalances'
  BY DEF IInv, LiveLedger, BudgetHolds, PaperBookBalances, Booked, ledger
<1> QED BY <1>1, <1>2, <1>3

LEMMA InventoryStays ==
  ASSUME IInv, UNCHANGED inventory
  PROVE  InventoryOK' /\ events' = events
  BY DEF IInv, Types, InventoryOK, inventory

LEMMA LoopSteps ==
  ASSUME IInv, UNCHANGED <<edit, inventory, ledger, entry>>, TaskOK', LoopTypeOK', LoopOK'
  PROVE  IInv'
<1>1. EditTypeOK'
  BY DEF IInv, Types, EditTypeOK
<1> QED BY <1>1, LedgerStays, InventoryStays DEF IInv, Types

LEMMA EditSteps ==
  ASSUME IInv, UNCHANGED <<loop, inventory, ledger, entry>>, TaskOK', EditTypeOK'
  PROVE  IInv'
<1>1. LoopTypeOK' /\ LoopOK'
  BY DEF IInv, Types, LoopTypeOK, LoopOK, inventory, ledger
<1> QED BY <1>1, LedgerStays, InventoryStays DEF IInv, Types

\* The loop's stages.
LEMMA LoopFields ==
  ASSUME LoopTypeOK
  PROVE  /\ loop.kind = "activity" =>
               /\ loop.trade \in Trades
               /\ loop.at \in {"pause", "unwatch", "decide", "submit", "record"}
         /\ Handling("record") => loop \in Recordings
         /\ Handling("decide") => loop \in Decisions
         /\ loop.kind = "sweep" => loop \in Sweeps
<1>1. CASE loop = None
  BY <1>1 DEF None, Handling
<1>2. CASE loop \in Activities
  BY <1>2 DEF Activities, Handling
<1>3. CASE loop \in Decisions
  BY <1>3 DEF Decisions, Handling
<1>4. CASE loop \in Recordings
  BY <1>4 DEF Recordings, Handling
<1>5. CASE loop \in Sweeps
  BY <1>5 DEF Sweeps, Handling
<1>6. CASE loop \in Reconciliations
  BY <1>6 DEF Reconciliations, Handling
<1> QED BY <1>1, <1>2, <1>3, <1>4, <1>5, <1>6 DEF LoopTypeOK

LEMMA LoopRests ==
  ASSUME loop' \in {None} \cup Sweeps \cup Reconciliations
  PROVE  LoopTypeOK' /\ LoopOK'
<1>1. loop'.kind # "activity"
  <2>1. None.kind # "activity"
    BY DEF None
  <2>2. \A l \in Sweeps : l.kind # "activity"
    BY DEF Sweeps
  <2>3. \A l \in Reconciliations : l.kind # "activity"
    BY DEF Reconciliations
  <2> QED BY <2>1, <2>2, <2>3
<1> QED BY <1>1 DEF LoopTypeOK, LoopOK

LEMMA Concludes ==
  ASSUME IInv, loop.kind = "activity", NEW o \in Outcomes, NEW a \in Nat, Conclude(o, a)
  PROVE  /\ LoopTypeOK'
         /\ loop'.kind = "activity" /\ loop'.at = "record" /\ loop'.trade = loop.trade
         /\ loop'.outcome = o
<1>1. loop.trade \in Trades
  BY LoopFields DEF IInv, Types
<1>2. loop' = [kind |-> "activity", at |-> "record", trade |-> loop.trade, outcome |-> o,
               amount |-> a]
  BY DEF Conclude, Recording
<1>3. loop' \in Recordings
  BY <1>1, <1>2 DEF Recordings
<1> QED BY <1>2, <1>3 DEF LoopTypeOK

\* The loop comes to a decision that sends nothing.
LEMMA ConcludesUnsent ==
  ASSUME IInv, loop.kind = "activity", loop.at # "record",
         NEW o \in Outcomes \ Live, NEW a \in Nat, Conclude(o, a),
         o \in {"paper_filled", "paper_sell"} => loop.at = "decide",
         o = "paper_filled" => spent.paper < Budget,
         UNCHANGED <<inventory, ledger, entry>>
  PROVE  LoopTypeOK' /\ LoopOK'
<1>1. /\ LoopTypeOK'
      /\ loop'.kind = "activity" /\ loop'.at = "record" /\ loop'.trade = loop.trade
      /\ loop'.outcome = o
  BY Concludes
<1>2. loop.at \in {"pause", "unwatch", "decide", "submit"}
  BY LoopFields DEF IInv, Types
<1>3. /\ loop.trade \in events /\ decision[loop.trade] = "none" /\ entry[loop.trade] = "none"
      /\ claim[loop.trade] \in {"none", "claimed"}
      /\ loop.at = "decide" => claim[loop.trade] = "none"
  BY <1>2 DEF IInv, LoopOK
<1> QED BY <1>1, <1>3 DEF LoopOK, inventory, ledger

LEMMA TurnsTo ==
  ASSUME IInv, loop.kind = "activity", NEW stage \in {"pause", "unwatch", "submit"}, Turn(stage)
  PROVE  /\ LoopTypeOK'
         /\ loop'.kind = "activity" /\ loop'.at = stage /\ loop'.trade = loop.trade
<1>1. loop.trade \in Trades
  BY LoopFields DEF IInv, Types
<1>2. loop' = [kind |-> "activity", at |-> stage, trade |-> loop.trade]
  BY DEF Turn, Activity
<1>3. loop' \in Activities
  BY <1>1, <1>2 DEF Activities
<1> QED BY <1>2, <1>3 DEF LoopTypeOK

LEMMA StandDownOK ==
  ASSUME TaskOK, NEW reason \in {"paused", "detached"}, StandDown(reason),
         UNCHANGED <<attached, edits>>
  PROVE  TaskOK'
<1>1. CASE task.enabled
  <2>1. task' = [task EXCEPT !.enabled = FALSE, !.reason = reason]
    BY <1>1 DEF StandDown
  <2>2. task' \in Tasks /\ ~task'.enabled /\ task'.reason = reason
    BY <2>1 DEF TaskOK, Tasks
  <2> QED BY <2>2 DEF TaskOK, Reasoned
<1>2. CASE ~task.enabled
  <2>1. task' = task
    BY <1>2 DEF StandDown
  <2> QED BY <2>1 DEF TaskOK, Reasoned
<1> QED BY <1>1, <1>2

LEMMA TaskStays ==
  ASSUME TaskOK, task' = task, attached' \in BOOLEAN, edits' = edits
  PROVE  TaskOK'
  BY DEF TaskOK, Reasoned

LEMMA JudgedOK ==
  ASSUME NEW settled
  PROVE  /\ SyncPaused \in {None} \cup Reconciliations
         /\ JudgeDetached(settled) \in {None} \cup Reconciliations
         /\ JudgeEntries(settled) \in {None} \cup Reconciliations
<1>1. SyncPaused \in {None} \cup Reconciliations
  BY DEF SyncPaused, Reconcile, Reconciliations
<1>2. JudgeDetached(settled) \in {None} \cup Reconciliations
  BY <1>1 DEF JudgeDetached, Reconcile, Reconciliations
<1>3. JudgeEntries(settled) \in {None} \cup Reconciliations
  BY <1>2 DEF JudgeEntries, Reconcile, Reconciliations
<1> QED BY <1>1, <1>2, <1>3

\* The loop's steps that touch no table but the task's row.
LEMMA LoopOnlyKeeps ==
  ASSUME IInv, PauseTask \/ Unwatch \/ DecidePaperBuy \/ DecidePaperSell \/ SubmitSell
               \/ PauseDetached \/ SyncPausedWatch \/ Sweep \/ Fails
  PROVE  IInv'
<1>0. Types /\ TaskOK /\ LoopTypeOK /\ LedgerTypeOK
  BY DEF IInv, Types
<1>1. UNCHANGED <<edit, inventory, ledger, entry>> /\ edits' = edits
  BY DEF PauseTask, Unwatch, DecidePaperBuy, DecidePaperSell, SubmitSell, PauseDetached,
         SyncPausedWatch, Sweep, Fails, LoopOnly
<1>2. 0 \in Nat /\ Lot \in Nat /\ {"skipped", "failed", "paper_filled", "paper_sell",
                                   "live_sell_submitted"} \subseteq Outcomes \ Live
  BY DEF Outcomes, Live
<1>3. ASSUME TaskOK', LoopTypeOK', LoopOK' PROVE IInv'
  BY <1>1, <1>3, LoopSteps
<1>4. CASE PauseTask
  <2>1. loop.kind = "activity" /\ loop.at = "pause"
    BY <1>4 DEF PauseTask, Handling
  <2>2. TaskOK'
    BY <1>0, <1>1, <1>4, StandDownOK DEF PauseTask, LoopOnly
  <2>3. CASE Turn("unwatch")
    <3>1. /\ LoopTypeOK'
          /\ loop'.kind = "activity" /\ loop'.at = "unwatch" /\ loop'.trade = loop.trade
      BY <2>1, <2>3, TurnsTo
    <3>2. LoopOK'
      BY <1>1, <2>1, <3>1 DEF IInv, LoopOK, inventory, ledger
    <3> QED BY <1>3, <2>2, <3>1, <3>2
  <2>4. CASE Conclude("skipped", 0)
    BY <1>1, <1>2, <1>3, <2>1, <2>2, <2>4, ConcludesUnsent
  <2> QED BY <1>4, <2>3, <2>4 DEF PauseTask
<1>5. CASE Unwatch
  <2>1. loop.kind = "activity" /\ loop.at = "unwatch" /\ Conclude("skipped", 0)
    BY <1>5 DEF Unwatch, Handling
  <2>2. TaskOK'
    BY <1>0, <1>1, <1>5, TaskStays DEF Unwatch, SyncWatch, Wants, HoldsCopies
  <2> QED BY <1>1, <1>2, <1>3, <2>1, <2>2, ConcludesUnsent
<1>6. CASE DecidePaperBuy \/ DecidePaperSell
  <2>1. loop.kind = "activity" /\ loop.at = "decide"
    BY <1>6 DEF DecidePaperBuy, DecidePaperSell, Deciding, Handling
  <2>2. TaskOK'
    BY <1>0, <1>1, <1>6, TaskStays DEF DecidePaperBuy, DecidePaperSell, LoopOnly, TaskOK
  <2>3. CASE Conclude("skipped", 0)
    BY <1>1, <1>2, <1>3, <2>1, <2>2, <2>3, ConcludesUnsent
  <2>4. CASE spent.paper < Budget /\ Conclude("paper_filled", Lot)
    BY <1>1, <1>2, <1>3, <2>1, <2>2, <2>4, ConcludesUnsent
  <2>5. ASSUME book.held > 0, NEW amount \in Share(book.held, loop.before),
               Conclude("paper_sell", amount)
        PROVE  IInv'
    <3>1. amount \in Nat
      BY <1>0, <2>5 DEF Share, LedgerTypeOK
    <3> QED BY <1>1, <1>2, <1>3, <2>1, <2>2, <2>5, <3>1, ConcludesUnsent
  <2> QED BY <1>6, <2>3, <2>4, <2>5 DEF DecidePaperBuy, DecidePaperSell
<1>7. CASE SubmitSell
  <2>1. loop.kind = "activity" /\ loop.at = "submit"
    BY <1>7 DEF SubmitSell, Handling
  <2>2. TaskOK'
    BY <1>0, <1>1, <1>7, TaskStays DEF SubmitSell, LoopOnly, TaskOK
  <2>3. PICK outcome \in {"skipped", "failed", "live_sell_submitted"} : Conclude(outcome, 0)
    BY <1>7 DEF SubmitSell
  <2>4. outcome \in Outcomes \ Live
    BY <1>2
  <2> QED BY <1>1, <1>2, <1>3, <2>1, <2>2, <2>3, <2>4, ConcludesUnsent
<1>8. CASE PauseDetached
  <2>1. TaskOK'
    BY <1>0, <1>1, <1>8, StandDownOK DEF PauseDetached, LoopOnly
  <2>2. loop' \in {None} \cup Reconciliations
    BY <1>8, JudgedOK DEF PauseDetached
  <2> QED BY <1>3, <2>1, <2>2, LoopRests
<1>9. CASE SyncPausedWatch
  <2>1. TaskOK'
    BY <1>0, <1>1, <1>9, TaskStays DEF SyncPausedWatch, SyncWatch, Wants, HoldsCopies
  <2> QED BY <1>3, <1>9, <2>1, LoopRests DEF SyncPausedWatch
<1>10. CASE Sweep
  <2>1. TaskOK'
    BY <1>0, <1>1, <1>10, TaskStays DEF Sweep, LoopOnly, TaskOK
  <2>2. PICK amount \in 1..book.held :
          loop' = [kind |-> "sweep", leg |-> NextLeg("exit"), amount |-> amount]
    BY <1>10 DEF Sweep
  <2>3. NextLeg("exit") \in Legs /\ amount \in Nat
    BY <1>0 DEF NextLeg, Legs, LedgerTypeOK
  <2>4. loop' \in Sweeps
    BY <2>2, <2>3 DEF Sweeps
  <2> QED BY <1>3, <2>1, <2>4, LoopRests
<1>11. CASE Fails
  <2>1. TaskOK'
    BY <1>0, <1>1, <1>11, TaskStays DEF Fails, LoopOnly, TaskOK
  <2> QED BY <1>3, <1>11, <2>1, LoopRests DEF Fails
<1> QED BY <1>4, <1>5, <1>6, <1>7, <1>8, <1>9, <1>10, <1>11

\* The API's steps that touch no table but the task's row.
LEMMA EditOnlyKeeps ==
  ASSUME IInv, UpdateTask \/ UpdateStore \/ UpdateWatch \/ CloseHolding \/ SetTaskMode
               \/ Detach \/ EditFails
  PROVE  IInv'
<1>0. Types /\ TaskOK /\ EditTypeOK /\ LedgerTypeOK
  BY DEF IInv, Types
<1>1. UNCHANGED <<loop, inventory, ledger, entry>>
  BY DEF UpdateTask, UpdateStore, UpdateWatch, CloseHolding, SetTaskMode, Detach, EditFails,
         EditOnly, Edited
<1>2. ASSUME TaskOK', EditTypeOK' PROVE IInv'
  BY <1>1, <1>2, EditSteps
<1>3. None.kind # "update" /\ \A e \in Closes : e.kind # "update"
  BY DEF None, Closes
<1>4. ASSUME NEW call, Starts(call) PROVE edits' \in 0..MaxEdits /\ edit' = call
  BY <1>0, <1>4 DEF Starts, TaskOK
<1>5. edit' = edit => EditTypeOK'
  BY <1>0 DEF EditTypeOK
<1>6. edit' = None => EditTypeOK'
  BY <1>3 DEF EditTypeOK
<1>7. CASE UpdateTask
  <2>1. PICK enabled \in BOOLEAN :
          LET reason == IF enabled THEN "none"
                        ELSE IF task.enabled THEN "paused" ELSE task.reason IN
          Starts([kind |-> "update", at |-> "store", rolling |-> FALSE, orig |-> task,
                  new |-> [task EXCEPT !.enabled = enabled, !.reason = reason]])
    BY <1>7 DEF UpdateTask
  <2> DEFINE reason == IF enabled THEN "none" ELSE IF task.enabled THEN "paused" ELSE task.reason
             new == [task EXCEPT !.enabled = enabled, !.reason = reason]
  <2>2. reason \in {"none", "paused", "detached"} /\ (enabled <=> reason = "none")
    BY <1>0 DEF TaskOK, Tasks, Reasoned
  <2>3. new \in Tasks /\ new.enabled = enabled /\ new.reason = reason
    <3> HIDE DEF reason
    <3> QED BY <1>0, <2>2 DEF TaskOK, Tasks
  <2>4. task \in Tasks /\ Reasoned(task) /\ Reasoned(new)
    BY <1>0, <2>2, <2>3 DEF TaskOK, Reasoned
  <2> HIDE DEF reason, new
  <2>5. /\ edits' \in 0..MaxEdits
        /\ edit' = [kind |-> "update", at |-> "store", rolling |-> FALSE, orig |-> task,
                    new |-> new]
    BY <1>4, <2>1 DEF reason, new
  <2>6. edit' \in Updates /\ edit'.orig = task /\ edit'.new = new
    BY <2>3, <2>4, <2>5 DEF Updates
  <2>7. EditTypeOK'
    BY <2>4, <2>6 DEF EditTypeOK, Reasoned
  <2>8. TaskOK'
    BY <1>0, <1>7, <2>5 DEF UpdateTask, TaskOK, Reasoned
  <2> QED BY <1>2, <2>7, <2>8
<1>8. CASE UpdateStore
  <2>1. edit \in Updates /\ Reasoned(edit.new) /\ Reasoned(edit.orig)
    <3>1. edit.kind = "update"
      BY <1>8 DEF UpdateStore, Updating
    <3> QED BY <1>0, <1>3, <3>1 DEF EditTypeOK
  <2>2. task' \in {task, edit.new} /\ attached' = attached /\ edits' = edits
    BY <1>8 DEF UpdateStore, EditOnly
  <2>3. TaskOK'
    BY <1>0, <2>1, <2>2 DEF TaskOK, Updates, Reasoned
  <2>4. CASE edit' = None
    BY <1>2, <1>6, <2>3, <2>4
  <2>5. CASE edit' = [edit EXCEPT !.at = "watch"]
    <3>1. edit' \in Updates /\ edit'.orig = edit.orig /\ edit'.new = edit.new
      BY <2>1, <2>5 DEF Updates
    <3>2. EditTypeOK'
      BY <2>1, <3>1 DEF EditTypeOK, Reasoned
    <3> QED BY <1>2, <2>3, <3>2
  <2> QED BY <1>8, <2>4, <2>5 DEF UpdateStore
<1>9. CASE UpdateWatch
  <2>1. edit \in Updates /\ Reasoned(edit.orig)
    <3>1. edit.kind = "update"
      BY <1>9 DEF UpdateWatch, Updating
    <3> QED BY <1>0, <1>3, <3>1 DEF EditTypeOK
  <2>2. edit.new.enabled \in BOOLEAN /\ attached \in BOOLEAN
    BY <1>0, <2>1 DEF Updates, Tasks, TaskOK
  <2>3. attached' \in BOOLEAN
    BY <1>9, <2>2 DEF UpdateWatch, SyncWatch, Wants, HoldsCopies
  <2>4. TaskOK'
    BY <1>0, <1>9, <2>3, TaskStays DEF UpdateWatch, EditOnly
  <2>5. CASE edit' = None
    BY <1>2, <1>6, <2>4, <2>5
  <2>6. CASE edit' = [edit EXCEPT !.at = "store", !.rolling = TRUE, !.new = edit.orig]
    <3>1. edit' \in Updates /\ edit'.orig = edit.orig /\ edit'.new = edit.orig
      BY <2>1, <2>6 DEF Updates
    <3>2. EditTypeOK'
      BY <2>1, <3>1 DEF EditTypeOK, Reasoned
    <3> QED BY <1>2, <2>4, <3>2
  <2> QED BY <1>9, <2>5, <2>6 DEF UpdateWatch
<1>10. CASE CloseHolding
  <2>1. PICK kind \in {"exit", "writeoff"} :
          Starts([kind |-> "close", leg |-> NextLeg(kind), amount |-> book.held])
    BY <1>10 DEF CloseHolding
  <2>2. NextLeg(kind) \in Legs /\ book.held \in Nat
    BY <1>0 DEF NextLeg, Legs, LedgerTypeOK
  <2>3. /\ edits' \in 0..MaxEdits
        /\ edit' = [kind |-> "close", leg |-> NextLeg(kind), amount |-> book.held]
    BY <1>4, <2>1
  <2>4. edit' \in Closes
    BY <2>2, <2>3 DEF Closes
  <2>5. edit'.kind # "update"
    BY <1>3, <2>4
  <2>6. TaskOK'
    BY <1>0, <1>10, <2>3 DEF CloseHolding, TaskOK, Reasoned
  <2> QED BY <1>2, <2>4, <2>5, <2>6 DEF EditTypeOK
<1>11. CASE SetTaskMode
  <2>1. PICK mode \in {"paper", "live"} : task' = [task EXCEPT !.mode = mode]
    BY <1>11 DEF SetTaskMode
  <2>2. task' \in Tasks /\ task'.enabled = task.enabled /\ task'.reason = task.reason
    BY <1>0, <2>1 DEF TaskOK, Tasks
  <2>3. edits' \in 0..MaxEdits /\ edit' = edit /\ attached' = attached
    BY <1>0, <1>11 DEF SetTaskMode, Edited, TaskOK
  <2>4. TaskOK'
    BY <1>0, <2>2, <2>3 DEF TaskOK, Reasoned
  <2> QED BY <1>2, <1>5, <2>3, <2>4
<1>12. CASE Detach
  <2>1. edits' \in 0..MaxEdits /\ edit' = edit /\ attached' = FALSE /\ task' = task
    BY <1>0, <1>12 DEF Detach, Edited, TaskOK
  <2>2. TaskOK'
    BY <1>0, <2>1 DEF TaskOK, Reasoned
  <2> QED BY <1>2, <1>5, <2>1, <2>2
<1>13. CASE EditFails
  <2>1. TaskOK'
    BY <1>0, <1>13 DEF EditFails, TaskOK, Reasoned
  <2> QED BY <1>2, <1>6, <1>13, <2>1 DEF EditFails
<1> QED BY <1>7, <1>8, <1>9, <1>10, <1>11, <1>12, <1>13

-----------------------------------------------------------------------------
(* Steps of a trade: received, claimed, sent, verified                     *)

LEMMA ReceiveKeeps ==
  ASSUME IInv, NEW t \in Trades, Receive(t)
  PROVE  IInv'
<1>0. Types /\ TaskOK /\ InventoryOK /\ LoopTypeOK /\ EditTypeOK /\ Untouched
  BY DEF IInv, Types
<1>1. /\ UNCHANGED <<task, attached, edit, edits, ledger, entry>>
      /\ t \notin events /\ events' = events \cup {t}
  BY DEF Receive, Observe
<1>2. TaskOK' /\ EditTypeOK'
  BY <1>0, <1>1 DEF TaskOK, Reasoned, EditTypeOK
<1>3. InventoryOK'
  <2>1. IsFiniteSet(events) /\ Cardinality(events) \in Nat
    BY <1>0, FS_Subset, FS_CardinalityType DEF InventoryOK
  <2>2. Cardinality(events') = Cardinality(events) + 1
    BY <1>1, <2>1, FS_AddElement
  <2>3. holding' \in {holding + 1, holding - 1, 0} /\ (holding' = holding - 1 => holding > 0)
    <3>1. holding' = IF t \in Buys THEN holding + 1 ELSE IF holding > 0 THEN holding - 1 ELSE 0
      BY DEF Receive, Observe
    <3> QED BY <1>0, <2>1, <3>1 DEF InventoryOK
  <2> QED BY <1>0, <1>1, <2>1, <2>2, <2>3 DEF InventoryOK
<1>4. loop' \in {None, Recording(t, "skipped", 0), Decision(t), Activity("pause", t)}
  BY DEF Receive
<1>5. t \in events' /\ decision'[t] = "none" /\ claim'[t] = "none" /\ entry'[t] = "none"
  BY <1>0, <1>1 DEF Untouched, ledger
<1>6. LoopTypeOK' /\ LoopOK'
  <2>1. CASE loop' = None
    BY <2>1, LoopRests
  <2>2. CASE loop' = Recording(t, "skipped", 0)
    <3>1. loop' \in Recordings
      BY <2>2 DEF Recording, Recordings, Outcomes
    <3>2. /\ loop'.trade = t /\ loop'.at = "record" /\ loop'.outcome = "skipped"
      BY <2>2 DEF Recording
    <3> QED BY <1>5, <3>1, <3>2 DEF LoopTypeOK, LoopOK, Live
  <2>3. CASE loop' = Decision(t)
    <3>1. holding \in Nat
      BY <1>0, FS_Subset, FS_CardinalityType DEF InventoryOK
    <3>2. loop' \in Decisions
      BY <1>0, <2>3, <3>1 DEF Decision, Decisions, TaskOK
    <3>3. loop'.trade = t /\ loop'.at = "decide"
      BY <2>3 DEF Decision
    <3> QED BY <1>5, <3>2, <3>3 DEF LoopTypeOK, LoopOK
  <2>4. CASE loop' = Activity("pause", t)
    <3>1. loop' \in Activities /\ loop'.trade = t /\ loop'.at = "pause"
      BY <2>4 DEF Activity, Activities
    <3> QED BY <1>5, <3>1 DEF LoopTypeOK, LoopOK
  <2> QED BY <1>4, <2>1, <2>2, <2>3, <2>4
<1> QED BY <1>1, <1>2, <1>3, <1>6, LedgerStays DEF IInv, Types

LEMMA ClaimKeeps ==
  ASSUME IInv, DecideLiveBuy \/ DecideLiveSell
  PROVE  IInv'
<1>0. Types /\ TaskOK /\ LedgerTypeOK /\ LoopTypeOK /\ EditTypeOK /\ LoopOK
  BY DEF IInv, Types
<1>1. loop.kind = "activity" /\ loop.at = "decide" /\ loop.trade \in Trades
  BY <1>0, LoopFields DEF DecideLiveBuy, DecideLiveSell, Deciding, Handling
<1>2. UNCHANGED <<task, attached, edit, edits, inventory, entry>>
  BY DEF DecideLiveBuy, DecideLiveSell, LoopOnly
<1>3. TaskOK' /\ EditTypeOK'
  BY <1>0, <1>2 DEF TaskOK, Reasoned, EditTypeOK
<1>4. CASE Conclude("skipped", 0) /\ UNCHANGED ledger
  <2>1. "skipped" \in Outcomes \ Live /\ 0 \in Nat
    BY DEF Outcomes, Live
  <2>2. LoopTypeOK' /\ LoopOK'
    BY <1>1, <1>2, <1>4, <2>1, ConcludesUnsent
  <2> QED BY <1>2, <1>3, <1>4, <2>2, LoopSteps
<1>5. CASE Claim /\ (Buying => spent.live < Budget)
  <2>1. /\ loop.trade \in events /\ decision[loop.trade] = "none"
        /\ claim[loop.trade] = "none" /\ entry[loop.trade] = "none"
    BY <1>0, <1>1 DEF LoopOK
  <2>2. /\ claim' = [claim EXCEPT ![loop.trade] = "claimed"]
        /\ Turn("submit") /\ UNCHANGED <<decision, spent, book, legs>>
    BY <1>5, <2>1 DEF Claim
  <2>3. /\ LoopTypeOK'
        /\ loop'.kind = "activity" /\ loop'.at = "submit" /\ loop'.trade = loop.trade
    BY <1>1, <2>2, TurnsTo
  <2>4. claim'[loop.trade] = "claimed"
        /\ \A t \in Trades : t # loop.trade => claim'[t] = claim[t]
    BY <1>0, <1>1, <2>2 DEF LedgerTypeOK
  <2>5. LoopOK'
    BY <1>2, <1>5, <2>1, <2>2, <2>3, <2>4 DEF LoopOK, Buying, inventory
  <2>6. LedgerTypeOK' /\ EntryTypeOK' /\ InventoryOK'
    BY <1>0, <1>1, <1>2, <2>2, InventoryStays DEF Types, LedgerTypeOK, EntryTypeOK
  <2>7. Untouched' /\ ClaimedUndecided' /\ Accounted'
    BY <1>2, <2>1, <2>2, <2>4 DEF IInv, Untouched, ClaimedUndecided, Accounted, inventory
  <2>8. LiveLedger' /\ BudgetHolds' /\ PaperBookBalances'
    BY <2>2 DEF IInv, LiveLedger, BudgetHolds, PaperBookBalances, Booked
  <2> QED BY <1>3, <2>3, <2>5, <2>6, <2>7, <2>8 DEF IInv, Types
<1> QED BY <1>4, <1>5 DEF DecideLiveBuy, DecideLiveSell, Buying

LEMMA SubmitKeeps ==
  ASSUME IInv, SubmitBuy
  PROVE  IInv'
<1>0. Types /\ TaskOK /\ LedgerTypeOK /\ EntryTypeOK /\ LoopTypeOK /\ EditTypeOK /\ LoopOK
  BY DEF IInv, Types
<1>1. loop.kind = "activity" /\ loop.at = "submit" /\ loop.trade \in Trades /\ Buying
  BY <1>0, LoopFields DEF SubmitBuy, Handling
<1>2. UNCHANGED <<task, attached, edit, edits, inventory, ledger>> /\ 0 \in Nat
  BY DEF SubmitBuy
<1>3. TaskOK' /\ EditTypeOK'
  BY <1>0, <1>2 DEF TaskOK, Reasoned, EditTypeOK
<1>4. ASSUME NEW outcome \in {"skipped", "failed"}, Conclude(outcome, 0), UNCHANGED entry
      PROVE  IInv'
  <2>1. outcome \in Outcomes \ Live
    BY DEF Outcomes, Live
  <2>2. LoopTypeOK' /\ LoopOK'
    BY <1>1, <1>2, <1>4, <2>1, ConcludesUnsent
  <2> QED BY <1>2, <1>3, <1>4, <2>2, LoopSteps
<1>5. ASSUME NEW outcome \in Live, Conclude(outcome, 0),
             entry' = [entry EXCEPT ![loop.trade] = "sent"]
      PROVE  IInv'
  <2>1. /\ LoopTypeOK'
        /\ loop'.kind = "activity" /\ loop'.at = "record" /\ loop'.trade = loop.trade
        /\ loop'.outcome = outcome
    BY <1>1, <1>2, <1>5, Concludes DEF Outcomes
  <2>2. /\ loop.trade \in events /\ decision[loop.trade] = "none"
        /\ claim[loop.trade] = "claimed" /\ spent.live < Budget
    BY <1>0, <1>1 DEF LoopOK, Buying
  <2>3. LoopOK'
    BY <1>2, <1>5, <2>1, <2>2 DEF LoopOK, Live, inventory, ledger
  <2>4. EntryTypeOK'
    BY <1>0, <1>5 DEF EntryTypeOK
  <2>5. \A t \in Trades : t # loop.trade => entry'[t] = entry[t]
    BY <1>0, <1>5 DEF EntryTypeOK
  <2>6. Untouched' /\ ClaimedUndecided' /\ Accounted'
    BY <1>2, <2>2, <2>5 DEF IInv, Untouched, ClaimedUndecided, Accounted, inventory, ledger
  <2>7. LedgerTypeOK' /\ InventoryOK'
    BY <1>0, <1>2, InventoryStays DEF LedgerTypeOK, ledger
  <2>8. LiveLedger' /\ BudgetHolds' /\ PaperBookBalances'
    BY <1>2 DEF IInv, LiveLedger, BudgetHolds, PaperBookBalances, Booked, ledger
  <2> QED BY <1>3, <2>1, <2>3, <2>4, <2>6, <2>7, <2>8 DEF IInv, Types
<1> QED BY <1>4, <1>5 DEF SubmitBuy, Live

LEMMA EntryKeeps ==
  ASSUME IInv, NEW t \in Trades, EntryVerdict(t) \/ PositionCloses(t)
  PROVE  IInv'
<1>0. Types /\ TaskOK /\ LedgerTypeOK /\ EntryTypeOK /\ LoopTypeOK /\ EditTypeOK /\ LoopOK
  BY DEF IInv, Types
<1>1. /\ UNCHANGED <<task, attached, edit, edits, loop, inventory, ledger>>
      /\ entry[t] # "none"
  BY DEF EntryVerdict, PositionCloses
<1>2. PICK verdict \in {"verified", "failed", "closed"} : entry' = [entry EXCEPT ![t] = verdict]
  BY DEF EntryVerdict, PositionCloses
<1>3. EntryTypeOK' /\ entry'[t] # "none" /\ \A u \in Trades : u # t => entry'[u] = entry[u]
  BY <1>0, <1>2 DEF EntryTypeOK
<1>4. \A u \in Trades : entry[u] = "none" <=> entry'[u] = "none"
  BY <1>1, <1>3
<1>5. TaskOK' /\ EditTypeOK' /\ LoopTypeOK' /\ LedgerTypeOK' /\ InventoryOK'
  BY <1>0, <1>1, InventoryStays
     DEF TaskOK, Reasoned, EditTypeOK, LoopTypeOK, LedgerTypeOK, ledger
<1>6. LoopOK'
  BY <1>0, <1>1, <1>4, LoopFields DEF LoopOK, inventory, ledger
<1>7. Untouched' /\ ClaimedUndecided' /\ Accounted'
  BY <1>1, <1>4 DEF IInv, Untouched, ClaimedUndecided, Accounted, inventory, ledger
<1>8. LiveLedger' /\ BudgetHolds' /\ PaperBookBalances'
  BY <1>1 DEF IInv, LiveLedger, BudgetHolds, PaperBookBalances, Booked, ledger
<1> QED BY <1>3, <1>5, <1>6, <1>7, <1>8 DEF IInv, Types

-----------------------------------------------------------------------------
(* The ledgers *)

LEMMA BookedFinite ==
  ASSUME NEW S
  PROVE  IsFiniteSet({t \in Trades : decision[t] \in S}) /\ Booked(S) \in Nat
<1>1. {t \in Trades : decision[t] \in S} \subseteq Trades
  OBVIOUS
<1> QED BY <1>1, FS_Subset, FS_CardinalityType DEF Booked

LEMMA BookedStays ==
  ASSUME NEW S, \A t \in Trades : decision'[t] \in S <=> decision[t] \in S
  PROVE  Booked(S)' = Booked(S)
<1>1. {t \in Trades : decision'[t] \in S} = {t \in Trades : decision[t] \in S}
  OBVIOUS
<1> QED BY <1>1 DEF Booked

LEMMA BookedGrows ==
  ASSUME NEW S, NEW t \in Trades, decision[t] \notin S, decision'[t] \in S,
         \A u \in Trades : u # t => decision'[u] = decision[u]
  PROVE  Booked(S)' = Booked(S) + 1
<1>1. {u \in Trades : decision'[u] \in S} = {u \in Trades : decision[u] \in S} \cup {t}
  OBVIOUS
<1>2. t \notin {u \in Trades : decision[u] \in S}
  OBVIOUS
<1> DEFINE now == {u \in Trades : decision[u] \in S}
<1>3. IsFiniteSet(now) /\ t \notin now
  BY <1>2, BookedFinite
<1>4. Booked(S) = Cardinality(now) /\ Booked(S)' = Cardinality(now \cup {t})
  BY <1>1 DEF Booked
<1> HIDE DEF now
<1> QED BY <1>3, <1>4, FS_AddElement

Books == [held : Nat, sold : Nat, sells : Nat, epoch : Nat]

Sold(b, n) == [b EXCEPT !.held = @ - n, !.sold = @ + n, !.sells = @ + 1]

LEMMA SoldFields ==
  ASSUME NEW b \in Books, NEW n \in Nat, n <= b.held
  PROVE  /\ Sold(b, n) \in Books
         /\ Sold(b, n).held + Sold(b, n).sold = b.held + b.sold
         /\ Sold(b, n).sells = b.sells + 1
<1>1. b.held \in Nat /\ b.sold \in Nat /\ b.sells \in Nat /\ b.epoch \in Nat
  BY DEF Books
<1>2. /\ Sold(b, n).held = b.held - n /\ Sold(b, n).sold = b.sold + n
      /\ Sold(b, n).sells = b.sells + 1
  BY <1>1 DEF Sold, Books
<1>3. b.held - n \in Nat
  BY <1>1
<1>4. Sold(b, n) \in Books
  <2> DEFINE b1 == [b EXCEPT !.held = b.held - n]
             b2 == [b1 EXCEPT !.sold = b.sold + n]
             b3 == [b2 EXCEPT !.sells = b.sells + 1]
  <2>1. b1 \in Books
    BY <1>3 DEF Books
  <2>2. b2 \in Books
    <3> HIDE DEF b1
    <3> QED BY <1>1, <2>1 DEF Books
  <2>3. b3 \in Books
    <3> HIDE DEF b2
    <3> QED BY <1>1, <2>2 DEF Books
  <2>4. Sold(b, n) = b3
    BY DEF Sold, Books
  <2> QED BY <2>3, <2>4
<1> QED BY <1>1, <1>2, <1>3, <1>4

LEMMA SellKeeps ==
  ASSUME book \in Books, NEW amount \in Nat, SellPaper(amount)
  PROVE  /\ book' \in Books
         /\ book'.held + book'.sold = book.held + book.sold
         /\ book'.sells \in {book.sells, book.sells + 1}
<1>1. CASE book.held = 0
  BY <1>1 DEF SellPaper
<1>2. CASE book.held # 0
  <2>1. Min2(amount, book.held) \in Nat /\ Min2(amount, book.held) <= book.held
    BY DEF Min2, Books
  <2>2. book' = Sold(book, Min2(amount, book.held))
    BY <1>2 DEF SellPaper, Sold
  <2> QED BY <2>1, <2>2, SoldFields
<1> QED BY <1>1, <1>2

LEMMA BuyKeeps ==
  ASSUME book \in Books, book' = [book EXCEPT !.held = @ + Lot]
  PROVE  /\ book' \in Books
         /\ book'.held = book.held + Lot /\ book'.sold = book.sold /\ book'.sells = book.sells
  BY DEF Books

LEMMA SpendKeeps ==
  ASSUME spent \in [paper : Nat, live : Nat]
  PROVE  /\ spent' = [spent EXCEPT !.paper = @ + 1] =>
              /\ spent' \in [paper : Nat, live : Nat]
              /\ spent'.paper = spent.paper + 1 /\ spent'.live = spent.live
         /\ spent' = [spent EXCEPT !.live = @ + 1] =>
              /\ spent' \in [paper : Nat, live : Nat]
              /\ spent'.live = spent.live + 1 /\ spent'.paper = spent.paper
         /\ spent' = [spent EXCEPT !.paper = 0] =>
              /\ spent' \in [paper : Nat, live : Nat]
              /\ spent'.paper = 0 /\ spent'.live = spent.live
  OBVIOUS

LEMMA OneMoreLot ==
  ASSUME NEW n \in Nat
  PROVE  Lot * (n + 1) = Lot * n + Lot /\ Lot * 0 = 0 /\ Lot * n \in Nat
  OBVIOUS

\* An exit of the paper book, from the sweep or from the API.
LEMMA LegKeeps ==
  ASSUME IInv, NEW leg, NEW amount \in Nat, RecordLeg(leg, amount), UNCHANGED <<inventory, entry>>
  PROVE  /\ InventoryOK' /\ LedgerTypeOK' /\ EntryTypeOK'
         /\ Untouched' /\ ClaimedUndecided' /\ Accounted' /\ LiveLedger'
         /\ BudgetHolds' /\ PaperBookBalances'
<1>0. LedgerTypeOK /\ EntryTypeOK /\ IsFiniteSet(legs) /\ book \in Books
  BY DEF IInv, Types, LedgerTypeOK, Books
<1>1. UNCHANGED <<decision, claim, spent>> /\ legs' = legs \cup {leg}
  BY DEF RecordLeg
<1>2. IsFiniteSet(legs')
  BY <1>0, <1>1, FS_AddElement
<1>3. book' \in Books /\ book'.held + book'.sold = book.held + book.sold
      /\ (book'.sells = book.sells \/ (leg \notin legs /\ book'.sells = book.sells + 1))
  <2>1. CASE leg \in legs
    BY <1>0, <2>1 DEF RecordLeg
  <2>2. CASE leg \notin legs
    BY <1>0, <2>2, SellKeeps DEF RecordLeg
  <2> QED BY <2>1, <2>2
<1>4. LedgerTypeOK' /\ EntryTypeOK' /\ InventoryOK'
  BY <1>0, <1>1, <1>2, <1>3, InventoryStays DEF LedgerTypeOK, EntryTypeOK, Books
<1>5. Untouched' /\ ClaimedUndecided' /\ Accounted' /\ LiveLedger' /\ BudgetHolds'
  BY <1>1 DEF IInv, Untouched, ClaimedUndecided, Accounted, LiveLedger, BudgetHolds, Booked,
              inventory
<1>6. PaperBookBalances'
  <2>1. book.held + book.sold = Lot * spent.paper
        /\ book.sells <= Cardinality(legs) + Booked({"paper_sell"})
    BY DEF IInv, PaperBookBalances
  <2>2. Booked({"paper_sell"})' = Booked({"paper_sell"}) /\ Booked({"paper_sell"}) \in Nat
    BY <1>1, BookedStays, BookedFinite
  <2>3. Cardinality(legs) \in Nat
        /\ Cardinality(legs') = IF leg \in legs THEN Cardinality(legs) ELSE Cardinality(legs) + 1
    BY <1>0, <1>1, FS_AddElement, FS_CardinalityType
  <2>4. book.sells \in Nat
    BY <1>0 DEF Books
  <2>5. book'.sells <= Cardinality(legs') + Booked({"paper_sell"})'
    BY <1>3, <2>1, <2>2, <2>3, <2>4
  <2> QED BY <1>1, <1>3, <2>1, <2>5 DEF PaperBookBalances
<1> QED BY <1>4, <1>5, <1>6

LEMMA ExitsKeep ==
  ASSUME IInv, SweepRecord \/ CloseRecord
  PROVE  IInv'
<1>0. Types /\ TaskOK /\ LoopTypeOK /\ EditTypeOK /\ LedgerTypeOK /\ LoopOK
  BY DEF IInv, Types
<1>1. CASE SweepRecord
  <2>1. loop \in Sweeps
    BY <1>0, <1>1, LoopFields DEF SweepRecord
  <2>2. loop.amount \in Nat
    BY <2>1 DEF Sweeps
  <2>3. /\ RecordLeg(loop.leg, loop.amount) /\ loop' = None
        /\ UNCHANGED <<task, attached, edit, edits, inventory, entry>>
    BY <1>1 DEF SweepRecord, LoopOnly
  <2>4. TaskOK' /\ EditTypeOK' /\ LoopTypeOK' /\ LoopOK'
    BY <1>0, <2>3, LoopRests DEF TaskOK, Reasoned, EditTypeOK
  <2> QED BY <2>2, <2>3, <2>4, LegKeeps DEF IInv, Types
<1>2. CASE CloseRecord
  <2>1. edit \in Closes
    <3>1. edit.kind = "close" /\ None.kind # "close" /\ \A e \in Updates : e.kind # "close"
      BY <1>2 DEF CloseRecord, None, Updates
    <3> QED BY <1>0, <3>1 DEF EditTypeOK
  <2>2. edit.amount \in Nat /\ None.kind # "update"
    BY <2>1 DEF Closes, None
  <2>3. /\ RecordLeg(edit.leg, edit.amount) /\ edit' = None
        /\ UNCHANGED <<task, attached, edits, loop, inventory, entry>>
        /\ UNCHANGED <<decision, claim, spent>>
    BY <1>2 DEF CloseRecord, RecordLeg
  <2>4. TaskOK' /\ EditTypeOK'
    BY <1>0, <2>2, <2>3 DEF TaskOK, Reasoned, EditTypeOK
  <2>5. LoopTypeOK' /\ LoopOK'
    BY <1>0, <2>3 DEF LoopTypeOK, LoopOK, inventory
  <2> QED BY <2>2, <2>3, <2>4, <2>5, LegKeeps DEF IInv, Types
<1> QED BY <1>1, <1>2

LEMMA RecordKeeps ==
  ASSUME IInv, Record
  PROVE  IInv'
<1>0. Types /\ TaskOK /\ LoopTypeOK /\ EditTypeOK /\ LedgerTypeOK /\ EntryTypeOK /\ LoopOK
      /\ book \in Books
  BY DEF IInv, Types, LedgerTypeOK, Books
<1>1. /\ loop.kind = "activity" /\ loop.at = "record" /\ loop \in Recordings
      /\ UNCHANGED <<task, attached, edit, edits, inventory, entry>> /\ loop' = None
  BY <1>0, LoopFields DEF Record, Handling, LoopOnly
<1>2. PICK t \in Trades, o \in Outcomes, a \in Nat :
        t = loop.trade /\ o = loop.outcome /\ a = loop.amount
  BY <1>1 DEF Recordings
<1>3. /\ t \in events /\ decision[t] = "none" /\ claim[t] \in {"none", "claimed"}
      /\ o \in Live => claim[t] = "claimed" /\ spent.live < Budget
      /\ o \notin Live => entry[t] = "none"
      /\ o = "paper_filled" => spent.paper < Budget
      /\ o \in {"paper_filled", "paper_sell"} => claim[t] = "none"
  BY <1>0, <1>1, <1>2 DEF LoopOK
<1>4. /\ decision' = [decision EXCEPT ![t] = o] /\ Book(o, a) /\ legs' = legs
      /\ claim' = IF claim[t] = "none" \/ ClaimState(o) = "unchanged" THEN claim
                  ELSE [claim EXCEPT ![t] = ClaimState(o)]
  BY <1>1, <1>2, <1>3 DEF Record, RecordOutcome
<1>5. /\ decision'[t] = o
      /\ \A u \in Trades : u # t => decision'[u] = decision[u] /\ claim'[u] = claim[u]
      /\ claim'[t] \in {claim[t], "submitted", "settled"}
      /\ claim'[t] # "claimed"
  <2>1. ClaimState(o) \in {"submitted", "settled", "unchanged"}
        /\ (ClaimState(o) = "unchanged" => o \in {"paper_filled", "paper_sell"})
    BY DEF ClaimState, Outcomes, Live
  <2>2. decision'[t] = o /\ \A u \in Trades : u # t => decision'[u] = decision[u]
    BY <1>0, <1>4 DEF LedgerTypeOK
  <2>3. CASE claim[t] = "none" \/ ClaimState(o) = "unchanged"
    BY <1>3, <1>4, <2>1, <2>2, <2>3
  <2>4. CASE ~(claim[t] = "none" \/ ClaimState(o) = "unchanged")
    BY <1>0, <1>4, <2>1, <2>2, <2>4 DEF LedgerTypeOK
  <2> QED BY <2>3, <2>4
<1>6. decision' \in [Trades -> {"none", "skipped", "paper_filled", "paper_sell",
                      "live_submitted", "live_confirmed", "live_sell_submitted", "failed"}]
      /\ claim' \in [Trades -> {"none", "claimed", "submitted", "settled", "abandoned"}]
  <2>1. o \in {"none", "skipped", "paper_filled", "paper_sell",
                      "live_submitted", "live_confirmed", "live_sell_submitted", "failed"}
    BY DEF Outcomes, Live
  <2>2. ClaimState(o) \in {"submitted", "settled", "unchanged"}
    BY DEF ClaimState, Outcomes, Live
  <2> QED BY <1>0, <1>4, <2>1, <2>2 DEF LedgerTypeOK
<1>7. TaskOK' /\ EditTypeOK' /\ LoopTypeOK' /\ LoopOK' /\ InventoryOK' /\ EntryTypeOK'
  BY <1>0, <1>1, LoopRests, InventoryStays DEF TaskOK, Reasoned, EditTypeOK, EntryTypeOK
<1>8. Untouched' /\ ClaimedUndecided'
  BY <1>1, <1>3, <1>5 DEF IInv, Untouched, ClaimedUndecided, inventory
<1>9. Accounted'
  BY <1>1, <1>3, <1>5 DEF IInv, Accounted
<1>10. /\ spent.live = Booked(Live) /\ Booked(Live) \in Nat
       /\ spent.paper <= Budget /\ spent.live <= Budget
       /\ spent \in [paper : Nat, live : Nat] /\ spent.paper \in Nat /\ spent.live \in Nat
       /\ book.held + book.sold = Lot * spent.paper
       /\ book.sells <= Cardinality(legs) + Booked({"paper_sell"})
       /\ Booked({"paper_sell"}) \in Nat /\ Cardinality(legs) \in Nat /\ IsFiniteSet(legs)
       /\ book.held \in Nat /\ book.sold \in Nat /\ book.sells \in Nat
  BY <1>0, BookedFinite, FS_CardinalityType
     DEF IInv, LiveLedger, BudgetHolds, PaperBookBalances, LedgerTypeOK
<1> DEFINE Goal == /\ spent' \in [paper : Nat, live : Nat] /\ book' \in Books
                   /\ LiveLedger' /\ BudgetHolds' /\ PaperBookBalances'
<1>11. ASSUME o = "paper_filled" PROVE Goal
  <2>1. spent' = [spent EXCEPT !.paper = @ + 1] /\ book' = [book EXCEPT !.held = @ + Lot]
    BY <1>4, <1>11 DEF Book
  <2>2. Booked(Live)' = Booked(Live) /\ Booked({"paper_sell"})' = Booked({"paper_sell"})
    BY <1>3, <1>5, <1>11, BookedStays DEF Live
  <2>3. /\ spent' \in [paper : Nat, live : Nat]
        /\ spent'.paper = spent.paper + 1 /\ spent'.live = spent.live
        /\ book' \in Books
        /\ book'.held = book.held + Lot /\ book'.sold = book.sold /\ book'.sells = book.sells
    BY <1>0, <1>10, <2>1, SpendKeeps, BuyKeeps
  <2>4. Lot * (spent.paper + 1) = Lot * spent.paper + Lot /\ Lot * spent.paper \in Nat
    BY <1>10, OneMoreLot
  <2>5. LiveLedger' /\ BudgetHolds'
    BY <1>3, <1>10, <1>11, <2>2, <2>3 DEF LiveLedger, BudgetHolds
  <2>6. book'.held + book'.sold = Lot * spent'.paper
    BY <1>10, <2>3, <2>4
  <2>7. PaperBookBalances'
    BY <1>4, <1>10, <2>2, <2>3, <2>6 DEF PaperBookBalances
  <2> QED BY <2>3, <2>5, <2>7
<1>12. ASSUME o \in Live PROVE Goal
  <2>1. spent' = [spent EXCEPT !.live = @ + 1] /\ book' = book
    BY <1>4, <1>12 DEF Book, Live
  <2>2. Booked(Live)' = Booked(Live) + 1
    BY <1>3, <1>5, <1>12, BookedGrows DEF Live
  <2>3. Booked({"paper_sell"})' = Booked({"paper_sell"})
    BY <1>3, <1>5, <1>12, BookedStays DEF Live
  <2>4. /\ spent' \in [paper : Nat, live : Nat]
        /\ spent'.live = spent.live + 1 /\ spent'.paper = spent.paper
    BY <1>10, <2>1, SpendKeeps
  <2>5. LiveLedger' /\ BudgetHolds'
    BY <1>3, <1>10, <1>12, <2>2, <2>4 DEF LiveLedger, BudgetHolds
  <2>6. PaperBookBalances'
    BY <1>4, <1>10, <2>1, <2>3, <2>4 DEF PaperBookBalances
  <2> QED BY <1>0, <2>1, <2>4, <2>5, <2>6
<1>13. ASSUME o = "paper_sell" PROVE Goal
  <2>1. SellPaper(a) /\ spent' = spent
    BY <1>4, <1>13 DEF Book, Live
  <2>2. Booked(Live)' = Booked(Live)
    BY <1>3, <1>5, <1>13, BookedStays DEF Live
  <2>3. Booked({"paper_sell"})' = Booked({"paper_sell"}) + 1
    BY <1>3, <1>5, <1>13, BookedGrows
  <2>4. /\ book' \in Books /\ book'.held + book'.sold = book.held + book.sold
        /\ book'.sells \in {book.sells, book.sells + 1}
    BY <1>0, <2>1, SellKeeps
  <2>5. LiveLedger' /\ BudgetHolds'
    BY <1>10, <2>1, <2>2 DEF LiveLedger, BudgetHolds
  <2>6. PaperBookBalances'
    BY <1>4, <1>10, <2>1, <2>3, <2>4 DEF PaperBookBalances
  <2> QED BY <1>10, <2>1, <2>4, <2>5, <2>6
<1>14. ASSUME o \in {"skipped", "failed", "live_sell_submitted"} PROVE Goal
  <2>1. UNCHANGED <<spent, book>>
    BY <1>4, <1>14 DEF Book, Live
  <2>2. Booked(Live)' = Booked(Live)
    BY <1>3, <1>5, <1>14, BookedStays DEF Live
  <2>3. Booked({"paper_sell"})' = Booked({"paper_sell"})
    BY <1>3, <1>5, <1>14, BookedStays
  <2> QED BY <1>0, <1>4, <1>10, <2>1, <2>2, <2>3
          DEF LiveLedger, BudgetHolds, PaperBookBalances
<1>15. Goal
  BY <1>11, <1>12, <1>13, <1>14 DEF Outcomes
<1>16. LedgerTypeOK'
  BY <1>4, <1>6, <1>10, <1>15 DEF LedgerTypeOK, Books
<1> QED BY <1>7, <1>8, <1>9, <1>15, <1>16 DEF IInv, Types

\* Spending and the paper book stay as they are while decisions and claims change.
LEMMA ClaimsKeep ==
  ASSUME IInv, UNCHANGED <<spent, book, legs>>,
         \A t \in Trades : decision'[t] \in Live <=> decision[t] \in Live,
         \A t \in Trades : decision'[t] = "paper_sell" <=> decision[t] = "paper_sell"
  PROVE  LiveLedger' /\ BudgetHolds' /\ PaperBookBalances'
<1>1. Booked(Live)' = Booked(Live)
  BY BookedStays
<1>2. Booked({"paper_sell"})' = Booked({"paper_sell"})
  BY BookedStays
<1> QED BY <1>1, <1>2 DEF IInv, LiveLedger, BudgetHolds, PaperBookBalances

LEMMA ReconcileKeeps ==
  ASSUME IInv, NEW stale \in BOOLEAN, NEW settled, ReconcileClaims(stale, settled)
  PROVE  IInv'
<1>0. Types /\ TaskOK /\ EditTypeOK /\ LedgerTypeOK /\ EntryTypeOK /\ ClaimedUndecided
  BY DEF IInv, Types
<1>1. /\ UNCHANGED <<task, attached, edit, edits, inventory, entry, spent, book, legs>>
      /\ loop' = JudgeEntries(settled)
  BY DEF ReconcileClaims, LoopOnly
<1>2. /\ claim' = [t \in Trades |-> IF claim[t] = "claimed" /\ stale THEN "abandoned" ELSE claim[t]]
      /\ decision' = [t \in Trades |-> IF claim[t] = "claimed" /\ stale THEN "skipped"
                                       ELSE decision[t]]
  <2>1. {t \in {u \in Trades : claim[u] = "claimed"} : decision[t] # "none"} = {}
    BY <1>0 DEF ClaimedUndecided
  <2> QED BY <2>1 DEF ReconcileClaims
<1>3. LedgerTypeOK'
  BY <1>0, <1>1, <1>2 DEF LedgerTypeOK
<1>4. TaskOK' /\ EditTypeOK' /\ EntryTypeOK' /\ InventoryOK'
  BY <1>0, <1>1, InventoryStays DEF TaskOK, Reasoned, EditTypeOK, EntryTypeOK
<1>5. LoopTypeOK' /\ LoopOK'
  BY <1>1, JudgedOK, LoopRests
<1>6. \A t \in Trades :
         \/ claim[t] = "claimed" /\ decision[t] = "none" /\ stale
            /\ claim'[t] = "abandoned" /\ decision'[t] = "skipped"
         \/ claim'[t] = claim[t] /\ decision'[t] = decision[t]
  BY <1>0, <1>2 DEF ClaimedUndecided
<1>7. Untouched' /\ ClaimedUndecided' /\ Accounted'
  <2>1. Untouched'
    BY <1>1, <1>6 DEF IInv, Untouched, inventory
  <2>2. ClaimedUndecided'
    BY <1>0, <1>6 DEF ClaimedUndecided
  <2>3. Accounted'
    BY <1>1, <1>6 DEF IInv, Accounted, Live
  <2> QED BY <2>1, <2>2, <2>3
<1>8. LiveLedger' /\ BudgetHolds' /\ PaperBookBalances'
  <2>1. \A t \in Trades : decision'[t] \in Live <=> decision[t] \in Live
    BY <1>6 DEF Live
  <2>2. \A t \in Trades : decision'[t] = "paper_sell" <=> decision[t] = "paper_sell"
    BY <1>6
  <2> QED BY <1>1, <2>1, <2>2, ClaimsKeep
<1> QED BY <1>3, <1>4, <1>5, <1>7, <1>8 DEF IInv, Types

LEMMA ConfirmKeeps ==
  ASSUME IInv, NEW t \in Trades, NEW settled, ConfirmEntry(t, settled)
  PROVE  IInv'
<1>0. Types /\ TaskOK /\ EditTypeOK /\ LedgerTypeOK /\ EntryTypeOK /\ ClaimedUndecided
  BY DEF IInv, Types
<1>1. /\ decision[t] = "live_submitted" /\ loop.kind = "reconcile" /\ loop \notin {None}
      /\ UNCHANGED <<task, attached, edit, edits, inventory, entry>>
      /\ loop' \in {loop, JudgeDetached(settled)}
  BY DEF ConfirmEntry, Upgradable, Reconciling, LoopOnly, None
<1>2. /\ UNCHANGED <<spent, book, legs>>
      /\ decision' = [decision EXCEPT ![t] = "live_confirmed"]
      /\ claim' \in {claim, [claim EXCEPT ![t] = "settled"]}
  BY <1>1 DEF ConfirmEntry, RecordOutcome, ClaimState
<1>3. /\ decision'[t] = "live_confirmed"
      /\ \A u \in Trades : u # t => decision'[u] = decision[u] /\ claim'[u] = claim[u]
      /\ claim'[t] \in {claim[t], "settled"}
  BY <1>0, <1>2 DEF LedgerTypeOK
<1>4. LedgerTypeOK'
  BY <1>0, <1>2 DEF LedgerTypeOK
<1>5. TaskOK' /\ EditTypeOK' /\ EntryTypeOK' /\ InventoryOK'
  BY <1>0, <1>1, InventoryStays DEF TaskOK, Reasoned, EditTypeOK, EntryTypeOK
<1>6. LoopTypeOK' /\ LoopOK'
  <2>1. CASE loop' = loop
    BY <1>1, <2>1 DEF IInv, Types, LoopTypeOK, LoopOK
  <2>2. CASE loop' = JudgeDetached(settled)
    BY <2>2, JudgedOK, LoopRests
  <2> QED BY <1>1, <2>1, <2>2
<1>7. t \in events /\ claim[t] # "claimed"
  BY <1>0, <1>1 DEF IInv, Untouched, ClaimedUndecided
<1>8. Untouched' /\ ClaimedUndecided' /\ Accounted'
  BY <1>1, <1>3, <1>7 DEF IInv, Untouched, ClaimedUndecided, Accounted, Live, inventory
<1>9. LiveLedger' /\ BudgetHolds' /\ PaperBookBalances'
  <2>1. \A u \in Trades : decision'[u] \in Live <=> decision[u] \in Live
    BY <1>1, <1>3 DEF Live
  <2>2. \A u \in Trades : decision'[u] = "paper_sell" <=> decision[u] = "paper_sell"
    BY <1>1, <1>3
  <2> QED BY <1>2, <2>1, <2>2, ClaimsKeep
<1> QED BY <1>4, <1>5, <1>6, <1>8, <1>9 DEF IInv, Types

LEMMA ResetKeeps ==
  ASSUME IInv, ResetPaperBook
  PROVE  IInv'
<1>0. Types /\ TaskOK /\ EditTypeOK /\ LedgerTypeOK /\ EntryTypeOK /\ LoopTypeOK /\ LoopOK
  BY DEF IInv, Types
<1>1. /\ UNCHANGED <<task, claim, attached, edit, loop, inventory, entry>>
      /\ edits' \in 0..MaxEdits
      /\ decision' = [t \in Trades |->
                        IF decision[t] \in {"paper_filled", "paper_sell", "skipped"} THEN "none"
                        ELSE decision[t]]
      /\ spent' = [spent EXCEPT !.paper = 0]
      /\ book' = [held |-> 0, sold |-> 0, sells |-> 0, epoch |-> book.epoch + 1]
      /\ legs' = {}
  BY <1>0 DEF ResetPaperBook, Edited, TaskOK
<1>2. /\ spent' \in [paper : Nat, live : Nat] /\ spent'.paper = 0 /\ spent'.live = spent.live
      /\ spent.paper \in Nat /\ spent.live \in Nat
  BY <1>0, <1>1, SpendKeeps DEF LedgerTypeOK
<1>3. book' \in Books /\ book'.held = 0 /\ book'.sold = 0 /\ book'.sells = 0
  BY <1>0, <1>1 DEF LedgerTypeOK, Books
<1>4. \A t \in Trades :
         \/ decision[t] \in {"paper_filled", "paper_sell", "skipped"} /\ decision'[t] = "none"
         \/ decision[t] \notin {"paper_filled", "paper_sell", "skipped"}
            /\ decision'[t] = decision[t]
  BY <1>1
<1>5. LedgerTypeOK'
  <2>1. decision' \in [Trades -> {"none", "skipped", "paper_filled", "paper_sell",
                      "live_submitted", "live_confirmed", "live_sell_submitted", "failed"}]
    BY <1>0, <1>1 DEF LedgerTypeOK
  <2>2. IsFiniteSet(legs')
    BY <1>1, FS_EmptySet
  <2> QED BY <1>0, <1>1, <1>2, <1>3, <2>1, <2>2 DEF LedgerTypeOK, Books
<1>6. TaskOK' /\ EditTypeOK' /\ EntryTypeOK' /\ InventoryOK' /\ LoopTypeOK'
  BY <1>0, <1>1, InventoryStays
     DEF TaskOK, Reasoned, EditTypeOK, EntryTypeOK, LoopTypeOK
<1>7. LoopOK'
  <2>1. loop.kind = "activity" => loop.trade \in Trades
    BY <1>0, LoopFields
  <2>2. spent.paper < Budget => spent'.paper < Budget
    BY <1>2
  <2> QED BY <1>0, <1>1, <1>2, <1>4, <2>1, <2>2 DEF LoopOK, inventory
<1>8. Untouched' /\ ClaimedUndecided' /\ Accounted'
  <2>1. Untouched'
    BY <1>1, <1>4 DEF IInv, Untouched, inventory
  <2>2. ClaimedUndecided'
    BY <1>1, <1>4 DEF IInv, ClaimedUndecided
  <2>3. Accounted'
    BY <1>1, <1>4 DEF IInv, Accounted, Live
  <2> QED BY <2>1, <2>2, <2>3
<1>9. LiveLedger' /\ BudgetHolds'
  <2>1. Booked(Live)' = Booked(Live)
    BY <1>4, BookedStays DEF Live
  <2> QED BY <1>2, <2>1 DEF IInv, LiveLedger, BudgetHolds
<1>10. PaperBookBalances'
  <2>1. \A t \in Trades : decision'[t] # "paper_sell"
    BY <1>4
  <2>2. {t \in Trades : decision'[t] \in {"paper_sell"}} = {}
    BY <2>1
  <2>3. Booked({"paper_sell"})' = 0 /\ Cardinality(legs') = 0
    BY <1>1, <2>2, FS_EmptySet DEF Booked
  <2>4. Lot * 0 = 0
    BY OneMoreLot
  <2> QED BY <1>2, <1>3, <2>3, <2>4 DEF PaperBookBalances
<1> QED BY <1>5, <1>6, <1>7, <1>8, <1>9, <1>10 DEF IInv, Types

-----------------------------------------------------------------------------
(* The theorems *)

LEMMA StepIInv ==
  ASSUME IInv, [Next]_vars
  PROVE  IInv'
<1>1. CASE UNCHANGED vars
  <2>1. UNCHANGED <<task, attached, edit, edits, loop, inventory, ledger, entry>>
    BY <1>1 DEF vars
  <2>2. TaskOK' /\ EditTypeOK'
    BY <2>1 DEF IInv, Types, TaskOK, Reasoned, EditTypeOK
  <2> QED BY <2>1, <2>2, EditSteps
<1>2. CASE Next
  BY <1>2, ReceiveKeeps, EntryKeeps, LoopOnlyKeeps, ClaimKeeps, SubmitKeeps, RecordKeeps,
     ReconcileKeeps, ConfirmKeeps, ExitsKeep, EditOnlyKeeps, ResetKeeps
     DEF Next, HandleActivity, Maintain, Reconciles, Edits
<1> QED BY <1>1, <1>2

LEMMA Inductive == Spec => []IInv
<1>1. Init => IInv
  BY InitIInv
<1>2. IInv /\ [Next]_vars => IInv'
  BY StepIInv
<1> QED BY <1>1, <1>2, PTL DEF Spec

\* Every reachable state of a copy task is well typed, and a reason goes with a pause.
THEOREM TypeCorrect == Spec => []TypeOK
<1>1. IInv => TypeOK
  BY IInvImplies
<1> QED BY <1>1, Inductive, PTL

\* Every real buy is booked once or held by its claim (record_outcome, live claims).
THEOREM LiveBuysAccounted == Spec => []LiveSpendIsAccounted
<1>1. IInv => LiveSpendIsAccounted
  BY IInvImplies
<1> QED BY <1>1, Inductive, PTL

\* Neither ledger spends more than the budget (prepare_live_entry, the paper pipeline).
THEOREM NeverOverBudget == Spec => []BudgetHolds
<1>1. IInv => BudgetHolds
  BY IInvImplies
<1> QED BY <1>1, Inductive, PTL

\* What was bought in the paper book is held or sold (apply_paper_sell, record_exit).
THEOREM PaperBalances == Spec => []PaperBookBalances
<1>1. IInv => PaperBookBalances
  BY IInvImplies
<1> QED BY <1>1, Inductive, PTL
==============================================================================
