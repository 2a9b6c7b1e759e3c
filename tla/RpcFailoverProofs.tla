--------------------------- MODULE RpcFailoverProofs ---------------------------
(***************************************************************************)
(* Machine-checked facts about RpcFailover, for any number of providers    *)
(* and callers and any thresholds: the counters stay within their bounds,  *)
(* a circuit trips on failures in a row only, and a call that gives up has *)
(* asked every provider its attempts allow.                                *)
(***************************************************************************)
EXTENDS RpcFailover, FiniteSetTheorems, TLAPS

USE ProviderAssumption, ThresholdAssumption

-----------------------------------------------------------------------------
(* Type correctness *)

LEMMA UpToBound ==
  ASSUME NEW bound \in Nat, NEW n \in 0..bound
  PROVE  UpTo(n + 1, bound) \in 0..bound
  BY DEF UpTo

BreakerOK ==
    /\ state \in [Provider -> {"closed", "open", "half_open"}]
    /\ failures \in [Provider -> 0..FailureThreshold]
    /\ successes \in [Provider -> 0..(SuccessThreshold - 1)]
    /\ slots \in [Provider -> 0..HalfOpenMax]
    /\ openedAt \in [Provider -> {"absent", "cooling", "cooled"}]
    /\ streak \in [Provider -> 0..FailureThreshold]
    /\ holders \in [Provider -> SUBSET Caller]
    /\ lost \in [Provider -> BOOLEAN]

CallsOK ==
    /\ pc \in [Caller -> Places]
    /\ target \in [Caller -> Provider]
    /\ retry \in [Caller -> 0..MaxRetries]
    /\ tried \in [Caller -> SUBSET Provider]

LEMMA TypeParts == TypeOK <=> BreakerOK /\ CallsOK
  BY DEF TypeOK, BreakerOK, CallsOK

LEMMA ResetTypeOK ==
  ASSUME BreakerOK, NEW p \in Provider, ResetSlots(p), successes' = [successes EXCEPT ![p] = 0]
  PROVE  /\ slots' \in [Provider -> 0..HalfOpenMax]
         /\ holders' \in [Provider -> SUBSET Caller]
         /\ lost' \in [Provider -> BOOLEAN]
         /\ successes' \in [Provider -> 0..(SuccessThreshold - 1)]
<1>1. 0 \in 0..(SuccessThreshold - 1) /\ 0 \in 0..HalfOpenMax
  OBVIOUS
<1>2. slots' \in [Provider -> 0..HalfOpenMax] /\ successes' \in [Provider -> 0..(SuccessThreshold - 1)]
  BY <1>1 DEF BreakerOK, ResetSlots
<1>3. holders' \in [Provider -> SUBSET Caller] /\ lost' \in [Provider -> BOOLEAN]
  BY DEF BreakerOK, ResetSlots
<1> QED BY <1>2, <1>3

LEMMA SuccessTypeOK ==
  ASSUME BreakerOK, NEW p \in Provider, RecordSuccess(p)
  PROVE  BreakerOK'
<1> USE DEF BreakerOK, KeepSlots, breaker
<1>1. state[p] \in {"closed", "open", "half_open"} /\ 0 \in 0..(SuccessThreshold - 1)
  OBVIOUS
<1>2. CASE state[p] = "closed"
  BY <1>2 DEF RecordSuccess
<1>3. CASE state[p] = "half_open" /\ successes[p] + 1 >= SuccessThreshold
  <2>1. CloseCircuit(p) /\ streak' = [streak EXCEPT ![p] = 0]
    BY <1>3 DEF RecordSuccess
  <2> QED BY <1>1, <2>1 DEF CloseCircuit, ResetSlots
<1>4. CASE state[p] = "half_open" /\ successes[p] + 1 < SuccessThreshold
  BY <1>4 DEF RecordSuccess
<1>5. CASE state[p] = "open"
  BY <1>5 DEF RecordSuccess
<1> QED BY <1>1, <1>2, <1>3, <1>4, <1>5

LEMMA FailureTypeOK ==
  ASSUME BreakerOK, NEW p \in Provider, RecordFailure(p)
  PROVE  BreakerOK'
<1> USE DEF BreakerOK, KeepSlots
<1>1. state[p] \in {"closed", "open", "half_open"} /\ 0 \in 0..(SuccessThreshold - 1)
  OBVIOUS
<1>2. UpTo(failures[p] + 1, FailureThreshold) \in 0..FailureThreshold
      /\ UpTo(streak[p] + 1, FailureThreshold) \in 0..FailureThreshold
  BY UpToBound
<1>3. streak' \in [Provider -> 0..FailureThreshold]
  BY <1>2 DEF RecordFailure, CountFailure
<1>4. CASE state[p] = "closed"
  BY <1>2, <1>3, <1>4 DEF RecordFailure
<1>5. CASE state[p] = "half_open"
  <2>1. /\ state' = [state EXCEPT ![p] = "open"]
        /\ openedAt' = [openedAt EXCEPT ![p] = "cooling"]
        /\ successes' = [successes EXCEPT ![p] = 0]
        /\ ResetSlots(p)
        /\ failures' = failures
    BY <1>5 DEF RecordFailure
  <2> QED BY <1>3, <2>1, ResetTypeOK
<1>6. CASE state[p] = "open"
  BY <1>3, <1>6 DEF RecordFailure
<1> QED BY <1>1, <1>4, <1>5, <1>6

LEMMA NextAttemptTypeOK ==
  ASSUME CallsOK, NEW c \in Caller, NextAttempt(c)
  PROVE  CallsOK'
  BY DEF CallsOK, NextAttempt, GoTo, Return, Places, Returned

LEMMA ReturnTypeOK ==
  ASSUME CallsOK, NEW c \in Caller, Return(c, "idle")
  PROVE  CallsOK'
  BY DEF CallsOK, GoTo, Return, Places, Returned

LEMMA MoveTypeOK ==
  ASSUME CallsOK, NEW c \in Caller, NEW place \in Places, GoTo(c, place),
         UNCHANGED <<target, retry, tried>>
  PROVE  CallsOK'
  BY DEF CallsOK, GoTo

LEMMA StepParts ==
  ASSUME BreakerOK, CallsOK, [Next]_vars
  PROVE  BreakerOK' /\ CallsOK'
<1> DEFINE Goal == BreakerOK' /\ CallsOK'
<1>0. (UNCHANGED <<breaker, history>> => BreakerOK') /\ (UNCHANGED call => CallsOK')
  BY DEF breaker, history, call, BreakerOK, CallsOK
<1>1. ASSUME NEW c \in Caller, Begin(c) \/ Retry(c) PROVE Goal
  <2>1. PICK p \in Provider : SelectProvider(c, p) /\ ReadState(c, p)
    BY <1>1 DEF Begin, Retry, Attempt
  <2>2. state[p] \in {"closed", "open", "half_open"}
    BY DEF BreakerOK
  <2>3. \E place \in Places : GoTo(c, place)
    BY <2>1, <2>2 DEF ReadState, Places
  <2>4. retry' = retry /\ UNCHANGED <<breaker, history>>
    BY <1>1 DEF Begin, Retry, Attempt
  <2>5. CallsOK'
    BY <2>1, <2>3, <2>4 DEF CallsOK, SelectProvider, GoTo
  <2> QED BY <1>0, <2>4, <2>5
<1>2. ASSUME NEW c \in Caller, TakeSlot(c) PROVE Goal
  <2>1. target[c] \in Provider
    BY DEF CallsOK
  <2>2. UpTo(slots[target[c]] + 1, HalfOpenMax) \in 0..HalfOpenMax
    BY <2>1, UpToBound DEF BreakerOK
  <2>3. BreakerOK'
    BY <1>2, <2>1, <2>2 DEF TakeSlot, BreakerOK
  <2>4. CASE NextAttempt(c)
    BY <2>3, <2>4, NextAttemptTypeOK
  <2>5. CASE GoTo(c, "sent") /\ UNCHANGED <<target, retry, tried>>
    BY <2>3, <2>5, MoveTypeOK DEF Places
  <2> QED BY <1>2, <2>4, <2>5 DEF TakeSlot
<1>3. ASSUME NEW c \in Caller, ReadOpenedAt(c) PROVE Goal
  <2>1. ASSUME NextAttempt(c) PROVE CallsOK'
    BY <2>1, NextAttemptTypeOK
  <2>2. ASSUME GoTo(c, "sent") \/ GoTo(c, "transition"), UNCHANGED <<target, retry, tried>>
        PROVE  CallsOK'
    BY <2>2, MoveTypeOK DEF Places
  <2>3. CallsOK'
    BY <1>3, <2>1, <2>2 DEF ReadOpenedAt
  <2> QED BY <1>0, <1>3, <2>3 DEF ReadOpenedAt
<1>4. ASSUME NEW c \in Caller, Probe(c) PROVE Goal
  <2>1. CallsOK'
    BY <1>4, MoveTypeOK DEF Probe, Places
  <2>2. target[c] \in Provider /\ 0 \in 0..(SuccessThreshold - 1)
    BY DEF CallsOK
  <2>3. CASE state[target[c]] = "open"
    <3>1. /\ state' = [state EXCEPT ![target[c]] = "half_open"]
          /\ successes' = [successes EXCEPT ![target[c]] = 0]
          /\ ResetSlots(target[c])
          /\ UNCHANGED <<failures, openedAt, streak>>
      BY <1>4, <2>3 DEF Probe, TransitionToHalfOpen
    <3> QED BY <2>1, <2>2, <3>1, ResetTypeOK DEF BreakerOK
  <2>4. CASE state[target[c]] # "open"
    BY <1>0, <1>4, <2>1, <2>4 DEF Probe, TransitionToHalfOpen
  <2> QED BY <2>3, <2>4
<1>5. ASSUME NEW c \in Caller, AnswerOk(c) PROVE Goal
  <2>1. target[c] \in Provider /\ RecordSuccess(target[c]) /\ Return(c, "idle")
    BY <1>5 DEF AnswerOk, CallsOK
  <2> QED BY <2>1, SuccessTypeOK, ReturnTypeOK
<1>6. ASSUME NEW c \in Caller, AnswerRateLimited(c) PROVE Goal
  <2>1. CallsOK' /\ target[c] \in Provider
    BY <1>6, NextAttemptTypeOK DEF AnswerRateLimited, CallsOK
  <2>2. BreakerOK'
    BY <1>6, <2>1 DEF AnswerRateLimited, breaker, BreakerOK
  <2> QED BY <2>1, <2>2
<1>7. ASSUME NEW c \in Caller, AnswerRetryable(c) \/ AnswerFatal(c) PROVE Goal
  <2>1. target[c] \in Provider /\ RecordFailure(target[c])
    BY <1>7 DEF AnswerRetryable, AnswerFatal, CallsOK
  <2>2. NextAttempt(c) \/ Return(c, "idle")
    BY <1>7 DEF AnswerRetryable, AnswerFatal
  <2> QED BY <2>1, <2>2, FailureTypeOK, NextAttemptTypeOK, ReturnTypeOK
<1>8. ASSUME NEW p \in Provider, Cool(p) PROVE Goal
  BY <1>0, <1>8 DEF Cool, history, BreakerOK
<1>9. CASE UNCHANGED vars
  BY <1>0, <1>9 DEF vars
<1> QED BY <1>1, <1>2, <1>3, <1>4, <1>5, <1>6, <1>7, <1>8, <1>9 DEF Next, Proceed

LEMMA StepTypeOK ==
  ASSUME TypeOK, [Next]_vars
  PROVE  TypeOK'
<1>1. BreakerOK' /\ CallsOK'
  BY StepParts DEF TypeOK, BreakerOK, CallsOK
<1> QED BY <1>1 DEF TypeOK, BreakerOK, CallsOK

-----------------------------------------------------------------------------
(* What a trip rests on: the breaker's count never runs ahead of the       *)
(* failures in a row.                                                      *)

CountIsEarned ==
    \A p \in Provider : state[p] = "closed" => failures[p] <= streak[p]

LEMMA OtherBreakers ==
  ASSUME BreakerOK, NEW p \in Provider, RecordSuccess(p) \/ RecordFailure(p),
         NEW q \in Provider, q # p
  PROVE  state'[q] = state[q] /\ failures'[q] = failures[q] /\ streak'[q] = streak[q]
<1>1. state[p] \in {"closed", "open", "half_open"}
  BY DEF BreakerOK
<1>2. CASE RecordSuccess(p)
  <2>1. streak'[q] = streak[q]
    BY <1>2 DEF RecordSuccess, BreakerOK
  <2>2. \/ state' = state /\ failures' = failures
        \/ state' = state /\ failures' = [failures EXCEPT ![p] = 0]
        \/ CloseCircuit(p)
    BY <1>1, <1>2 DEF RecordSuccess, breaker
  <2> QED BY <2>1, <2>2 DEF CloseCircuit, BreakerOK
<1>3. CASE RecordFailure(p)
  <2>1. streak'[q] = streak[q]
    BY <1>3 DEF RecordFailure, CountFailure, BreakerOK
  <2>2. state' = state \/ state' = [state EXCEPT ![p] = "open"]
    BY <1>1, <1>3 DEF RecordFailure
  <2>3. failures' = failures
        \/ failures' = [failures EXCEPT ![p] = UpTo(@ + 1, FailureThreshold)]
    BY <1>1, <1>3 DEF RecordFailure
  <2> QED BY <2>1, <2>2, <2>3 DEF BreakerOK
<1> QED BY <1>2, <1>3

LEMMA SuccessEarned ==
  ASSUME BreakerOK, CountIsEarned, NEW p \in Provider, RecordSuccess(p)
  PROVE  CountIsEarned'
<1>1. state'[p] = "closed" => failures'[p] = 0 /\ streak'[p] = 0
  <2> USE DEF BreakerOK
  <2>1. CASE state[p] = "closed"
    BY <2>1 DEF RecordSuccess
  <2>2. CASE state[p] = "half_open" /\ successes[p] + 1 >= SuccessThreshold
    <3>1. CloseCircuit(p) /\ streak' = [streak EXCEPT ![p] = 0]
      BY <2>2 DEF RecordSuccess
    <3> QED BY <3>1 DEF CloseCircuit
  <2>3. CASE state[p] = "half_open" /\ successes[p] + 1 < SuccessThreshold
    BY <2>3 DEF RecordSuccess
  <2>4. CASE state[p] = "open"
    BY <2>4 DEF RecordSuccess, breaker
  <2> QED BY <2>1, <2>2, <2>3, <2>4
<1> QED BY <1>1, OtherBreakers DEF CountIsEarned

LEMMA FailureEarned ==
  ASSUME BreakerOK, CountIsEarned, NEW p \in Provider, RecordFailure(p)
  PROVE  /\ CountIsEarned'
         /\ Trips(p) => streak[p] + 1 >= FailureThreshold
<1> USE DEF BreakerOK
<1>1. CASE state[p] = "closed"
  <2>1. failures[p] \in 0..FailureThreshold /\ streak[p] \in 0..FailureThreshold
        /\ failures[p] <= streak[p]
    BY <1>1 DEF CountIsEarned
  <2>2. failures'[p] = UpTo(failures[p] + 1, FailureThreshold)
    BY <1>1 DEF RecordFailure
  <2>3. state'[p] = "closed" => streak'[p] = UpTo(streak[p] + 1, FailureThreshold)
    BY DEF RecordFailure, CountFailure
  <2>4. state'[p] = "closed" => failures'[p] <= streak'[p]
    BY <2>1, <2>2, <2>3 DEF UpTo
  <2>5. Trips(p) => failures[p] + 1 >= FailureThreshold
    BY <1>1 DEF Trips, RecordFailure
  <2>6. CountIsEarned'
    BY <2>4, OtherBreakers DEF CountIsEarned
  <2> QED BY <2>1, <2>5, <2>6
<1>2. CASE state[p] # "closed"
  <2>1. state'[p] # "closed"
    BY <1>2 DEF RecordFailure
  <2> QED BY <1>2, <2>1, OtherBreakers DEF CountIsEarned, Trips
<1> QED BY <1>1, <1>2

\* Every step keeps the count earned, and a step that trips a circuit is a failure of it.
LEMMA StepEarned ==
  ASSUME TypeOK, CountIsEarned, [Next]_vars
  PROVE  /\ CountIsEarned'
         /\ \A p \in Provider : Trips(p) => streak[p] + 1 >= FailureThreshold
<1> USE TypeParts
<1>1. ASSUME NEW c \in Caller, AnswerOk(c) PROVE CountIsEarned' /\ \A p \in Provider : ~Trips(p)
  <2>1. target[c] \in Provider /\ RecordSuccess(target[c])
    BY <1>1 DEF AnswerOk, CallsOK
  <2>2. \A p \in Provider : ~Trips(p)
    BY <2>1, OtherBreakers DEF Trips, RecordSuccess, CloseCircuit, breaker, BreakerOK
  <2> QED BY <2>1, <2>2, SuccessEarned
<1>2. ASSUME NEW c \in Caller, AnswerRetryable(c) \/ AnswerFatal(c)
      PROVE  /\ CountIsEarned'
             /\ \A p \in Provider : Trips(p) => streak[p] + 1 >= FailureThreshold
  <2>1. target[c] \in Provider /\ RecordFailure(target[c])
    BY <1>2 DEF AnswerRetryable, AnswerFatal, CallsOK
  <2>2. \A p \in Provider \ {target[c]} : ~Trips(p)
    BY <2>1, OtherBreakers DEF Trips
  <2> QED BY <2>1, <2>2, FailureEarned
<1>3. ASSUME NEW c \in Caller, Probe(c) PROVE CountIsEarned' /\ \A p \in Provider : ~Trips(p)
  BY <1>3 DEF Probe, TransitionToHalfOpen, breaker, history, CountIsEarned, Trips, BreakerOK, CallsOK
<1>4. CASE UNCHANGED <<state, failures, streak>>
  BY <1>4 DEF CountIsEarned, Trips
<1>5. ASSUME NEW c \in Caller,
             Begin(c) \/ Retry(c) \/ TakeSlot(c) \/ ReadOpenedAt(c) \/ AnswerRateLimited(c)
      PROVE  UNCHANGED <<state, failures, streak>>
  BY <1>5 DEF Begin, Retry, Attempt, TakeSlot, ReadOpenedAt, AnswerRateLimited, breaker, history
<1>6. ASSUME NEW p \in Provider, Cool(p) PROVE UNCHANGED <<state, failures, streak>>
  BY <1>6 DEF Cool, history
<1>7. CASE UNCHANGED vars
  BY <1>4, <1>7 DEF vars, breaker, history
<1> QED BY <1>1, <1>2, <1>3, <1>4, <1>5, <1>6, <1>7 DEF Next, Proceed

-----------------------------------------------------------------------------
(* What giving up rests on: every attempt asks a provider that was not     *)
(* asked before, as long as there is one.                                  *)

\* Selections of the current call so far.
Selections(c) == IF pc[c] = "retry" THEN retry[c] ELSE retry[c] + 1

TriedCount(c) ==
    IF pc[c] \in Returned THEN tried[c] = {} /\ retry[c] = 0
    ELSE tried[c] = Provider \/ Cardinality(tried[c]) = Selections(c)

AllTried == \A c \in Caller : TriedCount(c)

LEMMA TriedFinite ==
  ASSUME CallsOK, NEW c \in Caller
  PROVE  IsFiniteSet(tried[c]) /\ Cardinality(tried[c]) \in Nat
<1>1. tried[c] \subseteq Provider
  BY DEF CallsOK
<1> QED BY <1>1, FS_Subset, FS_CardinalityType

LEMMA ReadsSomeState ==
  ASSUME BreakerOK, CallsOK, NEW c \in Caller, NEW p \in Provider, ReadState(c, p)
  PROVE  pc'[c] \in {"sent", "take_slot", "read_opened_at"}
<1>1. state[p] \in {"closed", "open", "half_open"}
  BY DEF BreakerOK
<1> QED BY <1>1 DEF ReadState, GoTo, CallsOK

LEMMA SelectCounts ==
  ASSUME BreakerOK, CallsOK, NEW c \in Caller, TriedCount(c), Begin(c) \/ Retry(c)
  PROVE  TriedCount(c)'
<1>1. PICK p \in Provider : SelectProvider(c, p) /\ ReadState(c, p)
  BY DEF Begin, Retry, Attempt
<1>2. tried'[c] = tried[c] \cup {p} /\ p \in Choices(c) /\ retry'[c] = retry[c]
  BY <1>1 DEF SelectProvider, CallsOK, Begin, Retry, Attempt
<1>3. pc'[c] \notin Returned \cup {"retry"}
  <2>1. pc'[c] \in {"sent", "take_slot", "read_opened_at"}
    BY <1>1, ReadsSomeState
  <2> QED BY <2>1 DEF Returned
<1>4. CASE tried[c] = Provider
  BY <1>2, <1>3, <1>4 DEF TriedCount
<1>5. CASE tried[c] # Provider
  <2>1. p \notin tried[c]
    BY <1>2, <1>5 DEF Choices
  <2>2. Cardinality(tried'[c]) = Cardinality(tried[c]) + 1
    BY <1>2, <2>1, TriedFinite, FS_AddElement
  <2>3. Cardinality(tried[c]) = retry[c]
    BY <1>5, FS_EmptySet DEF TriedCount, Selections, Begin, Retry, Returned
  <2> QED BY <1>2, <1>3, <2>2, <2>3 DEF TriedCount, Selections
<1> QED BY <1>4, <1>5

\* An attempt ends: the call goes on with one more, or it has made all of them.
LEMMA AttemptCounts ==
  ASSUME CallsOK, NEW c \in Caller, TriedCount(c), NextAttempt(c),
         pc[c] \notin Returned \cup {"retry"}
  PROVE  /\ TriedCount(c)'
         /\ pc'[c] = "gave_up" => retry[c] = MaxRetries
<1>1. CASE retry[c] < MaxRetries
  <2>1. pc'[c] = "retry" /\ retry'[c] = retry[c] + 1 /\ tried'[c] = tried[c]
    BY <1>1 DEF NextAttempt, GoTo, CallsOK
  <2> QED BY <2>1 DEF TriedCount, Selections, Returned
<1>2. CASE ~(retry[c] < MaxRetries)
  <2>1. pc'[c] = "gave_up" /\ retry'[c] = 0 /\ tried'[c] = {}
    BY <1>2 DEF NextAttempt, Return, GoTo, CallsOK
  <2> QED BY <1>2, <2>1 DEF TriedCount, Returned, CallsOK
<1> QED BY <1>1, <1>2

LEMMA GivenUp ==
  ASSUME CallsOK, NEW c \in Caller, TriedCount(c), pc[c] \notin Returned \cup {"retry"},
         retry[c] = MaxRetries, Cardinality(Provider) <= MaxRetries + 1
  PROVE  tried[c] = Provider
<1> SUFFICES ASSUME tried[c] # Provider PROVE FALSE
  OBVIOUS
<1>1. Cardinality(tried[c]) = MaxRetries + 1
  BY DEF TriedCount, Selections
<1>2. tried[c] \subseteq Provider
  BY DEF CallsOK
<1>3. Cardinality(tried[c]) < Cardinality(Provider)
  BY <1>2, FS_Subset, FS_CardinalityType
<1> QED BY <1>1, <1>3, FS_CardinalityType

LEMMA StepTried ==
  ASSUME TypeOK, AllTried, [Next]_vars
  PROVE  /\ AllTried'
         /\ \A c \in Caller : GivesUp(c) => /\ retry[c] = MaxRetries
                                           /\ pc[c] # "retry"
<1> DEFINE Goal(c) == /\ TriedCount(c)'
                      /\ GivesUp(c) => retry[c] = MaxRetries /\ pc[c] # "retry"
<1>0. SUFFICES ASSUME NEW d \in Caller PROVE Goal(d)
  BY DEF AllTried
<1> USE TypeParts
<1>1. ASSUME pc'[d] = pc[d], retry'[d] = retry[d], tried'[d] = tried[d] PROVE Goal(d)
  BY <1>1 DEF AllTried, TriedCount, Selections, GivesUp, Returned
<1>2. ASSUME NEW c \in Caller, Begin(c) \/ Retry(c) PROVE Goal(d)
  <2>1. CASE d = c
    <3>1. pc'[c] # "gave_up"
      BY <1>2, ReadsSomeState DEF Begin, Retry, Attempt
    <3> QED BY <1>2, <2>1, <3>1, SelectCounts DEF AllTried, GivesUp
  <2>2. CASE d # c
    BY <1>1, <1>2, <2>2 DEF Begin, Retry, Attempt, SelectProvider, ReadState, GoTo, CallsOK
  <2> QED BY <2>1, <2>2
<1>3. ASSUME NEW c \in Caller, TakeSlot(c) \/ ReadOpenedAt(c) \/ Probe(c)
                               \/ AnswerRateLimited(c) \/ AnswerRetryable(c),
             NextAttempt(c)
      PROVE  Goal(d)
  <2>1. pc[c] \notin Returned \cup {"retry"}
    BY <1>3 DEF TakeSlot, ReadOpenedAt, Probe, AnswerRateLimited, AnswerRetryable, Returned
  <2>2. CASE d = c
    BY <1>3, <2>1, <2>2, AttemptCounts DEF AllTried, GivesUp
  <2>3. CASE d # c
    BY <1>1, <1>3, <2>3 DEF NextAttempt, Return, GoTo, CallsOK
  <2> QED BY <2>2, <2>3
<1>4. ASSUME NEW c \in Caller, Return(c, "idle"),
             AnswerOk(c) \/ AnswerFatal(c)
      PROVE  Goal(d)
  <2>1. CASE d = c
    BY <1>4, <2>1 DEF Return, GoTo, CallsOK, TriedCount, GivesUp, Returned
  <2>2. CASE d # c
    BY <1>1, <1>4, <2>2 DEF Return, GoTo, CallsOK
  <2> QED BY <2>1, <2>2
<1>5. ASSUME NEW c \in Caller, NEW place \in Places \ (Returned \cup {"retry"}), GoTo(c, place),
             pc[c] \in Places \ (Returned \cup {"retry"}),
             UNCHANGED <<target, retry, tried>>
      PROVE  Goal(d)
  <2>1. CASE d = c
    BY <1>5, <2>1 DEF GoTo, CallsOK, AllTried, TriedCount, Selections, GivesUp, Returned
  <2>2. CASE d # c
    BY <1>1, <1>5, <2>2 DEF GoTo, CallsOK
  <2> QED BY <2>1, <2>2
<1>6. ASSUME NEW c \in Caller, TakeSlot(c) \/ ReadOpenedAt(c) \/ Probe(c), ~NextAttempt(c)
      PROVE  Goal(d)
  BY <1>5, <1>6 DEF TakeSlot, ReadOpenedAt, Probe, Places, Returned
<1>7. ASSUME NEW c \in Caller, AnswerRateLimited(c) \/ AnswerRetryable(c) PROVE NextAttempt(c)
  BY <1>7 DEF AnswerRateLimited, AnswerRetryable
<1>8. ASSUME NEW c \in Caller, AnswerOk(c) \/ AnswerFatal(c) PROVE Return(c, "idle")
  BY <1>8 DEF AnswerOk, AnswerFatal
<1>9. ASSUME NEW p \in Provider, Cool(p) PROVE Goal(d)
  BY <1>1, <1>9 DEF Cool, call
<1>10. CASE UNCHANGED vars
  BY <1>1, <1>10 DEF vars, call
<1> QED BY <1>2, <1>3, <1>4, <1>6, <1>7, <1>8, <1>9, <1>10 DEF Next, Proceed

-----------------------------------------------------------------------------
(* The theorems *)

IInv == TypeOK /\ CountIsEarned /\ AllTried

LEMMA InitIInv == ASSUME Init PROVE IInv
<1>1. TypeOK
  BY DEF Init, TypeOK, Places, Returned
<1>2. CountIsEarned /\ AllTried
  BY DEF Init, CountIsEarned, AllTried, TriedCount, Returned
<1> QED BY <1>1, <1>2 DEF IInv

LEMMA Inductive == Spec => []IInv
<1>1. Init => IInv
  BY InitIInv
<1>2. IInv /\ [Next]_vars => IInv'
  BY StepTypeOK, StepEarned, StepTried DEF IInv
<1> QED BY <1>1, <1>2, PTL DEF Spec

\* The counters of every breaker and call stay within their bounds, however late
\* verdicts, probes and failovers interleave (half_open_requests, consecutive_*).
THEOREM TypeCorrect == Spec => []TypeOK
<1>1. IInv => TypeOK
  BY DEF IInv
<1> QED BY <1>1, Inductive, PTL

\* A circuit opens on FailureThreshold failures in a row only (record_failure).
THEOREM TripsAreEarned == Spec => TripIsEarned
<1>1. IInv /\ [Next]_vars =>
        [\A p \in Provider : Trips(p) => streak[p] + 1 >= FailureThreshold]_vars
  BY StepEarned DEF IInv
<1> QED BY <1>1, Inductive, PTL DEF Spec, TripIsEarned

\* A call that gives up has asked every provider its attempts allow (execute_raw).
THEOREM AsksBeforeGivingUp == Spec => TriedBeforeGivingUp
<1> DEFINE Asks == \A c \in Caller :
                      GivesUp(c) /\ Cardinality(Provider) <= MaxRetries + 1 => tried[c] = Provider
<1>1. ASSUME IInv, [Next]_vars, NEW c \in Caller, GivesUp(c),
             Cardinality(Provider) <= MaxRetries + 1
      PROVE  tried[c] = Provider
  BY <1>1, StepTried, GivenUp, TypeParts DEF IInv, AllTried, GivesUp
<1>2. IInv /\ [Next]_vars => [Asks]_vars
  BY <1>1
<1> QED BY <1>2, Inductive, PTL DEF Spec, TriedBeforeGivingUp
===============================================================================
