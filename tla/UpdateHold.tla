------------------------------ MODULE UpdateHold ------------------------------
(***************************************************************************)
(* A staged update restarts the process.  Trades and tools are admitted by *)
(* a counter behind a flag; whoever restarts raises the flag, the hold,    *)
(* and the update service then looks whether anything is still running.    *)
(***************************************************************************)
EXTENDS Naturals, FiniteSets

CONSTANTS
    Trades,     \* executions of execute_buy, execute_dca and execute_sell
    Tools       \* executions of a tool for the assistant or an agent

Kinds == {"trade", "tool"}
Work  == Trades \cup Tools
Kind(w) == IF w \in Tools THEN "tool" ELSE "trade"

VARIABLES
    gate,       \* begin_trade or begin_tool, per execution
    active,     \* TRADES_ACTIVE_COUNT and TOOLS_ACTIVE_COUNT
    open,       \* whether get_open_positions_count is above zero
    held,       \* UPDATE_RESTART_PENDING
    auto,       \* run_cycle: where it is, the policy it read, what it saw
    user,       \* apply_now, from the dashboard or Telegram
    phase       \* UpdateState.phase: "ready" is ReadyToApply, "other" is not busy

vars   == <<gate, active, open, held, auto, user, phase>>
work   == <<gate, active, open>>
update == <<held, auto, user, phase>>

AutoAt(at, defer, busy) == [at |-> at, defer |-> defer, busy |-> busy]
IdleAuto == AutoAt("idle", TRUE, FALSE)

Init ==
    /\ gate = [w \in Work |-> "out"]
    /\ active = [k \in Kinds |-> 0]
    /\ open \in BOOLEAN
    /\ held = FALSE
    /\ auto = IdleAuto
    /\ user = "idle"
    /\ phase \in {"ready", "other"}

-----------------------------------------------------------------------------
(* begin_trade and begin_tool test the flag, count, and test it again.     *)

GateGoes(w, to) == gate' = [gate EXCEPT ![w] = to]
CountUp(w)   == active' = [active EXCEPT ![Kind(w)] = @ + 1]
CountDown(w) == active' = [active EXCEPT ![Kind(w)] = @ - 1]

Begin(w) ==
    /\ gate[w] = "out"
    /\ ~held
    /\ GateGoes(w, "tested")
    /\ UNCHANGED <<active, open, update>>

Count(w) ==
    /\ gate[w] = "tested"
    /\ GateGoes(w, "counted")
    /\ CountUp(w)
    /\ UNCHANGED <<open, update>>

Admit(w) ==
    /\ gate[w] = "counted"
    /\ IF held THEN GateGoes(w, "out") /\ CountDown(w)
               ELSE GateGoes(w, "in") /\ UNCHANGED active
    /\ UNCHANGED <<open, update>>

\* What an admitted trade does to the positions: it opens or closes some.
TradeWorks(w) ==
    /\ w \in Trades
    /\ gate[w] = "in"
    /\ open' \in BOOLEAN
    /\ UNCHANGED <<gate, active, update>>

\* The guard is dropped on return, on an error and when the execution is cancelled.
End(w) ==
    /\ gate[w] = "in"
    /\ GateGoes(w, "out")
    /\ CountDown(w)
    /\ UNCHANGED <<open, update>>

\* The verification of a swap, which no counter covers, closes or restores a position.
PositionsChange ==
    /\ open' \in BOOLEAN
    /\ UNCHANGED <<gate, active, update>>

Works(w) == Begin(w) \/ Count(w) \/ Admit(w) \/ TradeWorks(w) \/ End(w)

-----------------------------------------------------------------------------
(* The update service: run_cycle, apply_readiness and decide.              *)

AutoGoes(to) == auto' = AutoAt(to, auto.defer, auto.busy)
AutoReads(at, running, to) ==
    /\ auto.at = at
    /\ auto' = AutoAt(to, auto.defer, auto.busy \/ running)
    /\ UNCHANGED <<work, held, user, phase>>

\* The state is read and a first verdict asked for before the hold is tried.
AutoDue ==
    /\ auto.at = "idle"
    /\ phase = "ready"
    /\ AutoGoes("due")
    /\ UNCHANGED <<work, held, user, phase>>

\* try_hold_activity_for_update_restart: one holder at a time.
AutoHolds ==
    /\ auto.at = "due"
    /\ held' = TRUE
    /\ auto' = IF held THEN IdleAuto ELSE AutoAt("policy", TRUE, FALSE)
    /\ UNCHANGED <<work, user, phase>>

AutoDrops == held' = FALSE /\ auto' = IdleAuto

\* UpdatePolicy::load, at whatever the settings are by now.
ReadPolicy(auto_install, defer_while_trading) ==
    /\ auto.at = "policy"
    /\ IF auto_install
       THEN auto' = AutoAt("positions", defer_while_trading, FALSE) /\ UNCHANGED held
       ELSE AutoDrops
    /\ UNCHANGED <<work, user, phase>>

ReadPositions == AutoReads("positions", open, "tools")
ReadTools     == AutoReads("tools", active["tool"] > 0, IF active["tool"] > 0 THEN "verdict" ELSE "trades")
ReadTrades    == AutoReads("trades", active["trade"] > 0, "verdict")

Decide ==
    /\ auto.at = "verdict"
    /\ IF auto.defer /\ auto.busy THEN AutoDrops ELSE AutoGoes("claim") /\ UNCHANGED held
    /\ UNCHANGED <<work, user, phase>>

\* apply_now_while_held claims a phase that is still ready, or errs: it is not, or
\* the staged binary is gone.  Then commit and request_restart.
AutoClaims ==
    /\ auto.at = "claim"
    /\ \/ phase = "ready" /\ phase' = "applying" /\ AutoGoes("restart") /\ UNCHANGED held
       \/ AutoDrops /\ UNCHANGED phase
    /\ UNCHANGED <<work, user>>

UpdateCycle ==
    \/ AutoDue \/ AutoHolds
    \/ \E auto_install, defer \in BOOLEAN : ReadPolicy(auto_install, defer)
    \/ ReadPositions \/ ReadTools \/ ReadTrades \/ Decide \/ AutoClaims

-----------------------------------------------------------------------------
(* The user applies the update, whatever is running: apply_now.            *)

UserHolds ==
    /\ user = "idle"
    /\ ~held
    /\ held' = TRUE
    /\ user' = "claim"
    /\ UNCHANGED <<work, auto, phase>>

UserClaims ==
    /\ user = "claim"
    /\ phase = "ready"
    /\ phase' = "applying"
    /\ user' = "claimed"
    /\ UNCHANGED <<work, held, auto>>

UserCommits ==
    /\ user = "claimed"
    /\ user' = "restart"
    /\ UNCHANGED <<work, held, auto, phase>>

\* The claim errs, or the request goes with its connection: the hold is dropped, and a
\* phase that was claimed stays so.
UserGone ==
    /\ user \in {"claim", "claimed"}
    /\ held' = FALSE
    /\ user' = "idle"
    /\ UNCHANGED <<work, auto, phase>>

\* Checks and downloads, which a claimed update refuses (UpdatePhase::is_busy).
Updates ==
    /\ phase # "applying"
    /\ phase' \in {"ready", "other"}
    /\ UNCHANGED <<work, held, auto, user>>

\* The process starts again: for the update, on the user's request, after a crash.  An
\* update that was claimed is applied or has failed (normalize_loaded_state).
Restart ==
    /\ gate' = [w \in Work |-> "out"]
    /\ active' = [k \in Kinds |-> 0]
    /\ held' = FALSE
    /\ auto' = IdleAuto
    /\ user' = "idle"
    /\ phase' \in {"other"} \cup ({"ready"} \cap {phase})
    /\ UNCHANGED open

Next ==
    \/ \E w \in Work : Works(w)
    \/ PositionsChange
    \/ UpdateCycle
    \/ UserHolds \/ UserClaims \/ UserCommits \/ UserGone
    \/ Updates
    \/ Restart

Spec == Init /\ [][Next]_vars

-----------------------------------------------------------------------------
(* Properties *)

AutoAts == {"idle", "due", "policy", "positions", "tools", "trades", "verdict", "claim", "restart"}

AutoStates == [at : AutoAts, defer : BOOLEAN, busy : BOOLEAN]

\* The variables hold what the code's types allow; the counters are unsigned.
TypeOK ==
    /\ gate \in [Work -> {"out", "tested", "counted", "in"}]
    /\ active \in [Kinds -> Nat]
    /\ open \in BOOLEAN
    /\ held \in BOOLEAN
    /\ auto \in AutoStates
    /\ user \in {"idle", "claim", "claimed", "restart"}
    /\ phase \in {"ready", "other", "applying"}

AutoHolding == auto.at \notin {"idle", "due"}
UserHolding == user # "idle"

\* The hold has one owner, and stands exactly as long as its owner does (state.rs: a
\* failed claim must not "clear the real owner's reservation").
HoldHasOneOwner == ~(AutoHolding /\ UserHolding) /\ (held <=> AutoHolding \/ UserHolding)

Counted(k) == {w \in Work : Kind(w) = k /\ gate[w] \in {"counted", "in"}}
Running(k) == {w \in Work : Kind(w) = k /\ gate[w] = "in"}

\* The counters count what was admitted or is about to be, whichever way a begin or an
\* end interleaves with a hold.
WorkIsCounted == \A k \in Kinds : active[k] = Cardinality(Counted(k))

\* The update service does not restart the process under a trade or a tool when it is
\* to wait for them (service.rs: new work is refused under the hold, "work that started
\* just before it remains counted and makes this final verdict defer the restart").
NoWorkUnderRestart ==
    auto.at = "restart" /\ auto.defer => \A k \in Kinds : Running(k) = {}
===============================================================================
