--------------------------- MODULE UpdateHoldProofs ---------------------------
(***************************************************************************)
(* Machine-checked facts about UpdateHold, for any finite number of trades *)
(* and tools: the hold has one owner, the counters are exact, and an       *)
(* update that waits for running work restarts under none.                 *)
(***************************************************************************)
EXTENDS UpdateHold, FiniteSetTheorems, TLAPS

\* What the service has established by the time it has read the counters.
Quiet ==
    /\ auto.at \in {"trades", "verdict", "claim", "restart"} /\ ~auto.busy => Running("tool") = {}
    /\ auto.at \in {"verdict", "claim", "restart"} /\ ~auto.busy => Running("trade") = {}
    /\ auto.at \in {"claim", "restart"} /\ auto.defer => ~auto.busy

IInv == TypeOK /\ HoldHasOneOwner /\ WorkIsCounted /\ Quiet

-----------------------------------------------------------------------------
(* Types and ownership *)

LEMMA KindType == \A w \in Work : Kind(w) \in Kinds
  BY DEF Kind, Kinds

LEMMA CountedFinite ==
  ASSUME IsFiniteSet(Work), NEW k \in Kinds
  PROVE  IsFiniteSet(Counted(k)) /\ Cardinality(Counted(k)) \in Nat
<1>1. Counted(k) \subseteq Work
  BY DEF Counted
<1> QED BY <1>1, FS_Subset, FS_CardinalityType

\* A counted execution keeps its counter above zero.
LEMMA CountedIsPositive ==
  ASSUME IsFiniteSet(Work), TypeOK, WorkIsCounted,
         NEW w \in Work, gate[w] \in {"counted", "in"}
  PROVE  active[Kind(w)] \in Nat \ {0}
<1>1. Kind(w) \in Kinds
  BY KindType
<1>2. w \in Counted(Kind(w))
  BY DEF Counted
<1>3. Cardinality(Counted(Kind(w))) # 0
  BY <1>1, <1>2, CountedFinite, FS_EmptySet
<1>4. active[Kind(w)] = Cardinality(Counted(Kind(w)))
  BY <1>1 DEF WorkIsCounted
<1> QED BY <1>1, <1>3, <1>4, CountedFinite

LEMMA WorkType ==
  ASSUME IsFiniteSet(Work), TypeOK, WorkIsCounted, NEW w \in Work, Works(w)
  PROVE  TypeOK'
<1> USE KindType DEF TypeOK, update, GateGoes, CountUp, CountDown
<1>1. CASE Begin(w)
  BY <1>1 DEF Begin
<1>2. CASE Count(w)
  BY <1>2 DEF Count
<1>3. CASE Admit(w)
  <2>1. active[Kind(w)] \in Nat \ {0}
    BY <1>3, CountedIsPositive DEF Admit
  <2> QED BY <1>3, <2>1 DEF Admit
<1>4. CASE TradeWorks(w)
  BY <1>4 DEF TradeWorks
<1>5. CASE End(w)
  <2>1. active[Kind(w)] \in Nat \ {0}
    BY <1>5, CountedIsPositive DEF End
  <2> QED BY <1>5, <2>1 DEF End
<1> QED BY <1>1, <1>2, <1>3, <1>4, <1>5 DEF Works

\* The states of the update cycle, made and taken apart.
LEMMA AutoAtType ==
  ASSUME NEW at \in AutoAts, NEW defer \in BOOLEAN, NEW busy \in BOOLEAN
  PROVE  /\ AutoAt(at, defer, busy) \in AutoStates
         /\ AutoAt(at, defer, busy).at = at
         /\ AutoAt(at, defer, busy).defer = defer
         /\ AutoAt(at, defer, busy).busy = busy
  BY DEF AutoAt, AutoStates

LEMMA AutoFields ==
  ASSUME TypeOK
  PROVE  auto.at \in AutoAts /\ auto.defer \in BOOLEAN /\ auto.busy \in BOOLEAN
  BY DEF TypeOK, AutoStates

LEMMA IdleAutoType == IdleAuto \in AutoStates /\ IdleAuto.at = "idle"
  BY DEF IdleAuto, AutoAt, AutoStates, AutoAts

LEMMA AutoType ==
  ASSUME TypeOK, UpdateCycle
  PROVE  TypeOK'
<1>1. auto' \in AutoStates
  <2> USE AutoFields, AutoAtType, IdleAutoType DEF AutoGoes, AutoDrops, AutoReads, AutoAts
  <2>1. CASE AutoDue
    BY <2>1 DEF AutoDue
  <2>2. CASE AutoHolds
    BY <2>2 DEF AutoHolds
  <2>3. ASSUME NEW install \in BOOLEAN, NEW defer \in BOOLEAN, ReadPolicy(install, defer)
        PROVE  auto' \in AutoStates
    <3>1. CASE install
      <4>1. AutoAt("positions", defer, FALSE) \in AutoStates
        OBVIOUS
      <4> QED BY <2>3, <3>1, <4>1 DEF ReadPolicy
    <3>2. CASE ~install
      BY <2>3, <3>2 DEF ReadPolicy
    <3> QED BY <3>1, <3>2
  <2>4. CASE ReadPositions
    BY <2>4 DEF ReadPositions, TypeOK
  <2>5. CASE ReadTools
    BY <2>5 DEF ReadTools
  <2>6. CASE ReadTrades
    BY <2>6 DEF ReadTrades
  <2>7. CASE Decide
    BY <2>7 DEF Decide, TypeOK
  <2>8. CASE AutoClaims
    BY <2>8 DEF AutoClaims, TypeOK
  <2> QED BY <2>1, <2>2, <2>3, <2>4, <2>5, <2>6, <2>7, <2>8 DEF UpdateCycle
<1>2. held' \in BOOLEAN /\ phase' \in {"ready", "other", "applying"}
      /\ UNCHANGED <<gate, active, open, user>>
  BY DEF TypeOK, UpdateCycle, AutoDue, AutoHolds, ReadPolicy, ReadPositions, ReadTools,
         ReadTrades, AutoReads, AutoDrops, Decide, AutoClaims, work
<1> QED BY <1>1, <1>2 DEF TypeOK

LEMMA StepTypeOK ==
  ASSUME IsFiniteSet(Work), TypeOK, WorkIsCounted, [Next]_vars
  PROVE  TypeOK'
<1>1. ASSUME NEW w \in Work, Works(w) PROVE TypeOK'
  BY <1>1, WorkType
<1>2. CASE UpdateCycle
  BY <1>2, AutoType
<1>3. CASE PositionsChange \/ Updates
  BY <1>3 DEF PositionsChange, Updates, TypeOK, update, work
<1>4. CASE UserHolds \/ UserClaims \/ UserCommits \/ UserGone
  BY <1>4 DEF UserHolds, UserClaims, UserCommits, UserGone, TypeOK, work
<1>5. CASE Restart
  BY <1>5, IdleAutoType DEF Restart, TypeOK
<1>6. CASE UNCHANGED vars
  BY <1>6 DEF vars, TypeOK
<1> QED BY <1>1, <1>2, <1>3, <1>4, <1>5, <1>6 DEF Next

LEMMA StepOneOwner ==
  ASSUME TypeOK, HoldHasOneOwner, [Next]_vars
  PROVE  HoldHasOneOwner'
<1> USE DEF HoldHasOneOwner, AutoHolding, UserHolding, TypeOK
<1>1. ASSUME NEW w \in Work, Works(w) PROVE HoldHasOneOwner'
  BY <1>1 DEF Works, Begin, Count, Admit, TradeWorks, End, update
<1>2. CASE UpdateCycle
  <2> USE DEF work, AutoAts, AutoGoes, AutoDrops, IdleAuto, AutoAt, AutoReads
  <2>1. CASE AutoDue \/ AutoHolds
    BY <2>1 DEF AutoDue, AutoHolds
  <2>2. ASSUME NEW install \in BOOLEAN, NEW defer \in BOOLEAN, ReadPolicy(install, defer)
        PROVE  HoldHasOneOwner'
    <3>1. CASE install
      BY <2>2, <3>1 DEF ReadPolicy
    <3>2. CASE ~install
      BY <2>2, <3>2 DEF ReadPolicy
    <3> QED BY <3>1, <3>2
  <2>3. CASE ReadPositions \/ ReadTools \/ ReadTrades
    BY <2>3 DEF ReadPositions, ReadTools, ReadTrades
  <2>4. CASE Decide \/ AutoClaims
    BY <2>4 DEF Decide, AutoClaims
  <2> QED BY <1>2, <2>1, <2>2, <2>3, <2>4 DEF UpdateCycle
<1>3. CASE PositionsChange \/ Updates
  BY <1>3 DEF PositionsChange, Updates, update
<1>4. CASE UserHolds \/ UserClaims \/ UserCommits \/ UserGone
  BY <1>4 DEF UserHolds, UserClaims, UserCommits, UserGone
<1>5. CASE Restart
  BY <1>5 DEF Restart, IdleAuto, AutoAt
<1>6. CASE UNCHANGED vars
  BY <1>6 DEF vars
<1> QED BY <1>1, <1>2, <1>3, <1>4, <1>5, <1>6 DEF Next

-----------------------------------------------------------------------------
(* The counters *)

\* An execution that comes to be counted, with its counter.
LEMMA CountsIn ==
  ASSUME IsFiniteSet(Work), TypeOK, WorkIsCounted,
         NEW w \in Work, gate[w] = "tested", GateGoes(w, "counted"), CountUp(w)
  PROVE  WorkIsCounted'
<1> SUFFICES ASSUME NEW k \in Kinds
             PROVE  active'[k] = Cardinality(Counted(k)')
  BY DEF WorkIsCounted
<1>1. active[k] = Cardinality(Counted(k))
  BY DEF WorkIsCounted
<1>2. CASE k = Kind(w)
  <2>1. Counted(k)' = Counted(k) \cup {w} /\ w \notin Counted(k)
    BY <1>2 DEF Counted, GateGoes, TypeOK
  <2>2. Cardinality(Counted(k)') = Cardinality(Counted(k)) + 1
    BY <2>1, CountedFinite, FS_AddElement
  <2>3. active'[k] = active[k] + 1
    BY <1>2 DEF CountUp, TypeOK
  <2> QED BY <1>1, <2>2, <2>3
<1>3. CASE k # Kind(w)
  <2>1. Counted(k)' = Counted(k)
    BY <1>3 DEF Counted, GateGoes, TypeOK
  <2> QED BY <1>1, <1>3, <2>1 DEF CountUp, TypeOK
<1> QED BY <1>2, <1>3

\* An execution that leaves, with its counter.
LEMMA CountsOut ==
  ASSUME IsFiniteSet(Work), TypeOK, WorkIsCounted,
         NEW w \in Work, gate[w] \in {"counted", "in"}, GateGoes(w, "out"), CountDown(w)
  PROVE  WorkIsCounted'
<1> SUFFICES ASSUME NEW k \in Kinds
             PROVE  active'[k] = Cardinality(Counted(k)')
  BY DEF WorkIsCounted
<1>1. active[k] = Cardinality(Counted(k))
  BY DEF WorkIsCounted
<1>2. CASE k = Kind(w)
  <2>1. Counted(k)' = Counted(k) \ {w} /\ w \in Counted(k)
    BY <1>2 DEF Counted, GateGoes, TypeOK
  <2>2. Cardinality(Counted(k)') = Cardinality(Counted(k)) - 1
    BY <2>1, CountedFinite, FS_RemoveElement
  <2>3. active'[k] = active[k] - 1
    BY <1>2 DEF CountDown, TypeOK
  <2> QED BY <1>1, <2>2, <2>3
<1>3. CASE k # Kind(w)
  <2>1. Counted(k)' = Counted(k)
    BY <1>3 DEF Counted, GateGoes, TypeOK
  <2> QED BY <1>1, <1>3, <2>1 DEF CountDown, TypeOK
<1> QED BY <1>2, <1>3

\* Every other step of an execution leaves both alone.
LEMMA CountsSame ==
  ASSUME WorkIsCounted, active' = active, \A k \in Kinds : Counted(k)' = Counted(k)
  PROVE  WorkIsCounted'
  BY DEF WorkIsCounted

LEMMA StepCounted ==
  ASSUME IsFiniteSet(Work), TypeOK, WorkIsCounted, [Next]_vars
  PROVE  WorkIsCounted'
<1>1. ASSUME NEW w \in Work, Works(w) PROVE WorkIsCounted'
  <2>1. CASE Begin(w)
    BY <2>1, CountsSame DEF Begin, GateGoes, Counted, TypeOK
  <2>2. CASE Count(w)
    BY <2>2, CountsIn DEF Count
  <2>3. CASE Admit(w) /\ held
    BY <2>3, CountsOut DEF Admit
  <2>4. CASE Admit(w) /\ ~held
    BY <2>4, CountsSame DEF Admit, GateGoes, Counted, TypeOK
  <2>5. CASE TradeWorks(w)
    BY <2>5, CountsSame DEF TradeWorks, Counted
  <2>6. CASE End(w)
    BY <2>6, CountsOut DEF End
  <2> QED BY <1>1, <2>1, <2>2, <2>3, <2>4, <2>5, <2>6 DEF Works
<1>2. CASE gate' = gate /\ active' = active
  BY <1>2, CountsSame DEF Counted
<1>3. CASE Restart
  <2>1. \A k \in Kinds : Counted(k)' = {}
    BY <1>3 DEF Restart, Counted
  <2> QED BY <1>3, <2>1, FS_EmptySet DEF Restart, WorkIsCounted
<1>4. CASE UpdateCycle
  BY <1>2, <1>4
     DEF UpdateCycle, AutoDue, AutoHolds, ReadPolicy, ReadPositions, ReadTools, ReadTrades, AutoReads,
         Decide, AutoClaims, work
<1>5. CASE UserHolds \/ UserClaims \/ UserCommits \/ UserGone \/ Updates \/ PositionsChange
  BY <1>2, <1>5
     DEF UserHolds, UserClaims, UserCommits, UserGone, Updates, PositionsChange, work
<1> QED BY <1>1, <1>2, <1>3, <1>4, <1>5 DEF Next, vars

-----------------------------------------------------------------------------
(* The verdict *)

\* Under the hold nothing is admitted: what runs can only become less.
LEMMA HeldAdmitsNothing ==
  ASSUME TypeOK, held, NEW w \in Work, Works(w), NEW k \in Kinds
  PROVE  Running(k)' \subseteq Running(k)
  BY DEF TypeOK, Works, Begin, Count, Admit, TradeWorks, End, GateGoes, Running

\* A counter of zero: nothing of its kind runs.
LEMMA ZeroMeansNone ==
  ASSUME IsFiniteSet(Work), TypeOK, WorkIsCounted, NEW k \in Kinds, ~(active[k] > 0)
  PROVE  Running(k) = {}
<1>1. active[k] = Cardinality(Counted(k)) /\ active[k] = 0
  BY DEF WorkIsCounted, TypeOK
<1>2. Counted(k) = {}
  BY <1>1, CountedFinite, FS_EmptySet
<1> QED BY <1>2 DEF Counted, Running

LEMMA StepQuiet ==
  ASSUME IsFiniteSet(Work), IInv, [Next]_vars
  PROVE  Quiet'
<1> USE DEF IInv
<1>1. ASSUME NEW w \in Work, Works(w) PROVE Quiet'
  <2>1. auto' = auto
    BY <1>1 DEF Works, Begin, Count, Admit, TradeWorks, End, update
  <2>2. CASE AutoHolding
    <3>1. held
      BY <2>2 DEF HoldHasOneOwner
    <3>2. Running("tool")' \subseteq Running("tool") /\ Running("trade")' \subseteq Running("trade")
      BY <1>1, <3>1, HeldAdmitsNothing DEF Kinds
    <3> QED BY <2>1, <3>2 DEF Quiet
  <2>3. CASE ~AutoHolding
    BY <2>1, <2>3 DEF Quiet, AutoHolding
  <2> QED BY <2>2, <2>3
<1>2. CASE UpdateCycle
  <2>0. gate' = gate /\ \A k \in Kinds : Running(k)' = Running(k)
    BY <1>2 DEF UpdateCycle, AutoDue, AutoHolds, ReadPolicy, ReadPositions, ReadTools, ReadTrades,
                AutoReads, Decide, AutoClaims, work, Running
  <2>10. Running("tool")' = Running("tool") /\ Running("trade")' = Running("trade")
    BY <2>0 DEF Kinds
  <2> USE DEF TypeOK, Quiet, AutoGoes, AutoDrops, IdleAuto, AutoAt, AutoReads
  <2>1. CASE AutoDue \/ AutoHolds
    BY <2>1 DEF AutoDue, AutoHolds
  <2>2. ASSUME NEW install \in BOOLEAN, NEW defer \in BOOLEAN, ReadPolicy(install, defer)
        PROVE  Quiet'
    BY <2>2 DEF ReadPolicy
  <2>3. CASE ReadPositions
    BY <2>3 DEF ReadPositions
  <2>4. CASE ReadTools
    <3>1. CASE active["tool"] > 0
      BY <2>4, <3>1 DEF ReadTools
    <3>2. CASE ~(active["tool"] > 0)
      <4>1. Running("tool") = {}
        BY <3>2, ZeroMeansNone DEF Kinds
      <4> QED BY <2>4, <3>2, <4>1, <2>10 DEF ReadTools
    <3> QED BY <3>1, <3>2
  <2>5. CASE ReadTrades
    <3>1. CASE active["trade"] > 0
      BY <2>5, <3>1 DEF ReadTrades
    <3>2. CASE ~(active["trade"] > 0)
      <4>1. Running("trade") = {}
        BY <3>2, ZeroMeansNone DEF Kinds
      <4> QED BY <2>5, <3>2, <4>1, <2>10 DEF ReadTrades
    <3> QED BY <3>1, <3>2
  <2>6. CASE Decide
    BY <2>6, <2>10 DEF Decide
  <2>7. CASE AutoClaims
    BY <2>7, <2>10 DEF AutoClaims
  <2> QED BY <1>2, <2>1, <2>2, <2>3, <2>4, <2>5, <2>6, <2>7 DEF UpdateCycle
<1>3. CASE UserHolds \/ UserClaims \/ UserCommits \/ UserGone \/ Updates \/ PositionsChange
  <2>1. auto' = auto /\ gate' = gate
    BY <1>3 DEF UserHolds, UserClaims, UserCommits, UserGone, Updates, PositionsChange, work, update
  <2> QED BY <2>1 DEF Quiet, Running
<1>4. CASE Restart
  BY <1>4 DEF Restart, IdleAuto, AutoAt, Quiet
<1>5. CASE UNCHANGED vars
  BY <1>5 DEF vars, Quiet, Running
<1> QED BY <1>1, <1>2, <1>3, <1>4, <1>5 DEF Next

-----------------------------------------------------------------------------
(* The theorems *)

LEMMA InitIInv == ASSUME Init PROVE IInv
<1> USE IdleAutoType DEF Init
<1>1. TypeOK
  BY IdleAutoType DEF TypeOK
<1>2. HoldHasOneOwner
  BY DEF HoldHasOneOwner, AutoHolding, UserHolding
<1>3. WorkIsCounted
  <2>1. \A k \in Kinds : Counted(k) = {}
    BY DEF Counted
  <2> QED BY <2>1, FS_EmptySet DEF WorkIsCounted
<1>4. Quiet
  BY DEF Quiet
<1> QED BY <1>1, <1>2, <1>3, <1>4 DEF IInv

\* IInv is an invariant (global/state.rs, version/service.rs and version/policy.rs).
THEOREM Inductive ==
  ASSUME IsFiniteSet(Work)
  PROVE  Spec => []IInv
<1>1. Init => IInv
  BY InitIInv
<1>2. IInv /\ [Next]_vars => IInv'
  BY StepTypeOK, StepOneOwner, StepCounted, StepQuiet DEF IInv
<1> QED BY <1>1, <1>2, PTL DEF Spec

\* The hold that try_hold_activity_for_update_restart hands out has at most one owner,
\* and stands as long as it (UpdateRestartHold).
THEOREM OneOwner ==
  ASSUME IsFiniteSet(Work)
  PROVE  Spec => []HoldHasOneOwner
<1>1. IInv => HoldHasOneOwner
  BY DEF IInv
<1> QED BY <1>1, Inductive, PTL

\* The counters of begin_trade and begin_tool are exact, so they never go below zero.
THEOREM ExactCounters ==
  ASSUME IsFiniteSet(Work)
  PROVE  Spec => []WorkIsCounted
<1>1. IInv => WorkIsCounted
  BY DEF IInv
<1> QED BY <1>1, Inductive, PTL

\* An automatic restart that defers to running work happens under none of it
\* (run_cycle repeats apply_readiness under the hold).
THEOREM QuietRestart ==
  ASSUME IsFiniteSet(Work)
  PROVE  Spec => []NoWorkUnderRestart
<1>1. IInv => NoWorkUnderRestart
  BY DEF IInv, Quiet, NoWorkUnderRestart, Kinds
<1> QED BY <1>1, Inductive, PTL
===============================================================================
