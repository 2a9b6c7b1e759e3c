----------------------------- MODULE RpcFailover -----------------------------
(***************************************************************************)
(* Calls to the RPC providers of the chain, with failover: every call of   *)
(* RpcManager::execute_raw picks a provider, asks the provider's circuit   *)
(* breaker, sends the request and tells the breaker how it went, up to     *)
(* MaxRetries + 1 times.  Calls run concurrently and share the breakers.   *)
(*                                                                         *)
(* Where the code awaits or drops a lock a call may be overtaken: the      *)
(* breaker's state is read in one step and acted on in a later one, and an *)
(* answer may come after the circuit it was sent through changed state.    *)
(* Time is one flag per provider: whether the open period has run out.     *)
(***************************************************************************)
EXTENDS Naturals, FiniteSets

CONSTANTS
    Provider,          \* the configured endpoints
    First,             \* the one of highest priority
    Caller,            \* tasks that may each have one call under way
    MaxRetries,        \* rpc.max_retries
    FailureThreshold,  \* rpc.circuit_breaker_failure_threshold
    SuccessThreshold,  \* rpc.circuit_breaker_success_threshold
    HalfOpenMax        \* rpc.circuit_breaker_half_open_requests

ASSUME ProviderAssumption == IsFiniteSet(Provider) /\ First \in Provider
ASSUME ThresholdAssumption ==
    /\ MaxRetries \in Nat
    /\ FailureThreshold \in Nat \ {0}
    /\ SuccessThreshold \in Nat \ {0}
    /\ HalfOpenMax \in Nat \ {0}

VARIABLES
    state,      \* CircuitState of each provider's breaker
    failures,   \* consecutive failures, counted up to FailureThreshold
    successes,  \* successes while half-open
    slots,      \* half_open_requests, counted up to HalfOpenMax
    openedAt,   \* opened_at: absent, still cooling, or past open_duration
    pc,         \* where each call is
    target,     \* the provider of the call's current attempt
    retry,      \* the attempt's number, from 0
    tried,      \* providers this call has selected so far
    streak,     \* history: a closed circuit's failures since a success or closing
    holders,    \* history: calls whose probe slot counts in slots
    lost        \* history: a probe slot was spent on an answer that says nothing

breaker == <<state, failures, successes, slots, openedAt>>
call == <<pc, target, retry, tried>>
history == <<streak, holders, lost>>
vars == <<breaker, call, history>>

UpTo(n, bound) == IF n < bound THEN n ELSE bound

-----------------------------------------------------------------------------
Init ==
    /\ state = [p \in Provider |-> "closed"]
    /\ failures = [p \in Provider |-> 0]
    /\ successes = [p \in Provider |-> 0]
    /\ slots = [p \in Provider |-> 0]
    /\ openedAt = [p \in Provider |-> "absent"]
    /\ pc = [c \in Caller |-> "idle"]
    /\ target = [c \in Caller |-> First]
    /\ retry = [c \in Caller |-> 0]
    /\ tried = [c \in Caller |-> {}]
    /\ streak = [p \in Provider |-> 0]
    /\ holders = [p \in Provider |-> {}]
    /\ lost = [p \in Provider |-> FALSE]

-----------------------------------------------------------------------------
(* The breaker.  Every transition restarts the count of probe slots.       *)

\* Variant: the slots of the last half-open period stay taken.
KeepSlotsTaken(p) ==
    /\ slots' = slots
    /\ holders' = [holders EXCEPT ![p] = {}]
    /\ lost' = [lost EXCEPT ![p] = FALSE]

ResetSlots(p) ==
    /\ slots' = [slots EXCEPT ![p] = 0]
    /\ holders' = [holders EXCEPT ![p] = {}]
    /\ lost' = [lost EXCEPT ![p] = FALSE]

KeepSlots == UNCHANGED <<slots, holders, lost>>

\* transition_to_half_open: looks at the state again under the write lock.
TransitionToHalfOpen(p) ==
    IF state[p] = "open"
    THEN /\ state' = [state EXCEPT ![p] = "half_open"]
         /\ successes' = [successes EXCEPT ![p] = 0]
         /\ ResetSlots(p)
         /\ UNCHANGED <<failures, openedAt, streak>>
    ELSE UNCHANGED <<breaker, history>>

\* Variant: the failures of the outage are remembered.
CloseCircuitOnly(p) ==
    /\ state' = [state EXCEPT ![p] = "closed"]
    /\ successes' = [successes EXCEPT ![p] = 0]
    /\ openedAt' = [openedAt EXCEPT ![p] = "absent"]
    /\ ResetSlots(p)
    /\ UNCHANGED failures

\* Half-open with enough successes: the circuit closes and forgets.
CloseCircuit(p) ==
    /\ state' = [state EXCEPT ![p] = "closed"]
    /\ failures' = [failures EXCEPT ![p] = 0]
    /\ successes' = [successes EXCEPT ![p] = 0]
    /\ openedAt' = [openedAt EXCEPT ![p] = "absent"]
    /\ ResetSlots(p)

\* Variant: one success more than the threshold.
RecordSuccessLate(p) ==
    /\ streak' = [streak EXCEPT ![p] = 0]
    /\ IF state[p] = "half_open"
       THEN IF successes[p] >= SuccessThreshold
            THEN CloseCircuit(p)
            ELSE /\ successes' = [successes EXCEPT ![p] = @ + 1]
                 /\ KeepSlots
                 /\ UNCHANGED <<state, failures, openedAt>>
       ELSE /\ failures' = [failures EXCEPT ![p] = IF state[p] = "closed" THEN 0 ELSE @]
            /\ KeepSlots
            /\ UNCHANGED <<state, successes, openedAt>>

RecordSuccess(p) ==
    /\ streak' = [streak EXCEPT ![p] = 0]
    /\ \/ /\ state[p] = "closed"
          /\ failures' = [failures EXCEPT ![p] = 0]
          /\ KeepSlots
          /\ UNCHANGED <<state, successes, openedAt>>
       \/ /\ state[p] = "half_open"
          /\ successes[p] + 1 >= SuccessThreshold
          /\ CloseCircuit(p)
       \/ /\ state[p] = "half_open"
          /\ successes[p] + 1 < SuccessThreshold
          /\ successes' = [successes EXCEPT ![p] = @ + 1]
          /\ KeepSlots
          /\ UNCHANGED <<state, failures, openedAt>>
       \/ /\ state[p] = "open"
          /\ KeepSlots
          /\ UNCHANGED breaker

\* The history of a closed circuit: it opens, or one more failure in a row.
CountFailure(p) ==
    streak' = [streak EXCEPT ![p] = IF state'[p] = "closed"
                                    THEN UpTo(@ + 1, FailureThreshold) ELSE 0]

\* A failure opens a closed circuit at the threshold, unless the last transition
\* is less than min_state_duration ago (how long ago it is, is left open); it
\* reopens a half-open one and starts the open period of an open one afresh.
RecordFailure(p) ==
    /\ \/ /\ state[p] = "closed"
          /\ failures' = [failures EXCEPT ![p] = UpTo(@ + 1, FailureThreshold)]
          /\ \/ /\ failures[p] + 1 >= FailureThreshold
                /\ state' = [state EXCEPT ![p] = "open"]
                /\ openedAt' = [openedAt EXCEPT ![p] = "cooling"]
             \/ UNCHANGED <<state, openedAt>>
          /\ KeepSlots
          /\ UNCHANGED successes
       \/ /\ state[p] = "half_open"
          /\ state' = [state EXCEPT ![p] = "open"]
          /\ openedAt' = [openedAt EXCEPT ![p] = "cooling"]
          /\ successes' = [successes EXCEPT ![p] = 0]
          /\ ResetSlots(p)
          /\ UNCHANGED failures
       \/ /\ state[p] = "open"
          /\ openedAt' = [openedAt EXCEPT ![p] = "cooling"]
          /\ KeepSlots
          /\ UNCHANGED <<state, failures, successes>>
    /\ CountFailure(p)

\* The clock: open_duration runs out.
Cool(p) ==
    /\ openedAt[p] = "cooling"
    /\ openedAt' = [openedAt EXCEPT ![p] = "cooled"]
    /\ UNCHANGED <<state, failures, successes, slots, call, history>>

-----------------------------------------------------------------------------
(* A call: execute_raw.                                                    *)

\* Between calls: the last one gave a result or an error that is not retried,
\* or it ran out of attempts.
Returned == {"idle", "gave_up"}

GoTo(c, place) == pc' = [pc EXCEPT ![c] = place]

\* The call returns and its locals are gone.
Return(c, place) ==
    /\ GoTo(c, place)
    /\ target' = [target EXCEPT ![c] = First]
    /\ retry' = [retry EXCEPT ![c] = 0]
    /\ tried' = [tried EXCEPT ![c] = {}]

\* The loop goes on with the next attempt, or ends with the last error.
NextAttempt(c) ==
    IF retry[c] < MaxRetries
    THEN /\ GoTo(c, "retry")
         /\ retry' = [retry EXCEPT ![c] = @ + 1]
         /\ UNCHANGED <<target, tried>>
    ELSE Return(c, "gave_up")

\* Variant: the strategy alone chooses.
AnyChoice(c) == Provider

\* Providers not tried by this call come first, whatever their circuit (the
\* states the selection looks at never leave Closed); the strategy that orders
\* them is left open.  With all of them tried, the first one again.
Choices(c) ==
    IF tried[c] # Provider THEN Provider \ tried[c] ELSE {First}

SelectProvider(c, p) ==
    /\ p \in Choices(c)
    /\ target' = [target EXCEPT ![c] = p]
    /\ tried' = [tried EXCEPT ![c] = @ \cup {p}]

\* can_execute reads the state and lets go of it ...
ReadState(c, p) ==
    GoTo(c, CASE state[p] = "closed" -> "sent"
              [] state[p] = "half_open" -> "take_slot"
              [] state[p] = "open" -> "read_opened_at")

\* An attempt up to that point: the selection reads nothing another call writes,
\* so the provider may as well be chosen when its state is read.
Attempt(c) ==
    /\ \E p \in Provider : SelectProvider(c, p) /\ ReadState(c, p)
    /\ UNCHANGED <<retry, breaker, history>>

Begin(c) == pc[c] \in Returned /\ Attempt(c)

Retry(c) == pc[c] = "retry" /\ Attempt(c)

\* Variant: a refusal is no attempt, the loop tries again.
TakeSlotOrWait(c) ==
    LET p == target[c] IN
    /\ pc[c] = "take_slot"
    /\ slots' = [slots EXCEPT ![p] = UpTo(@ + 1, HalfOpenMax)]
    /\ IF slots[p] < HalfOpenMax
       THEN GoTo(c, "sent") /\ holders' = [holders EXCEPT ![p] = @ \cup {c}]
       ELSE GoTo(c, "retry") /\ UNCHANGED holders
    /\ UNCHANGED <<target, retry, tried>>
    /\ UNCHANGED <<state, failures, successes, openedAt, streak, lost>>

\* ... so that the slot is counted whatever the state is by now.  A slot is
\* never handed back: only a transition restarts the count.
TakeSlot(c) ==
    LET p == target[c] IN
    /\ pc[c] = "take_slot"
    /\ slots' = [slots EXCEPT ![p] = UpTo(@ + 1, HalfOpenMax)]
    /\ IF slots[p] < HalfOpenMax
       THEN /\ GoTo(c, "sent")
            /\ holders' = [holders EXCEPT ![p] = @ \cup {c}]
            /\ UNCHANGED <<target, retry, tried>>
       ELSE /\ NextAttempt(c)
            /\ UNCHANGED holders
    /\ UNCHANGED <<state, failures, successes, openedAt, streak, lost>>

\* Variant: the request goes out, the transition is forgotten.
ReadOpenedAtOnly(c) ==
    /\ pc[c] = "read_opened_at"
    /\ IF openedAt[target[c]] = "cooling"
       THEN NextAttempt(c)
       ELSE GoTo(c, "sent") /\ UNCHANGED <<target, retry, tried>>
    /\ UNCHANGED <<breaker, history>>

ReadOpenedAt(c) ==
    LET at == openedAt[target[c]] IN
    /\ pc[c] = "read_opened_at"
    /\ \/ /\ at = "absent"
          /\ GoTo(c, "sent")
          /\ UNCHANGED <<target, retry, tried>>
       \/ /\ at = "cooled"
          /\ GoTo(c, "transition")
          /\ UNCHANGED <<target, retry, tried>>
       \/ /\ at = "cooling"
          /\ NextAttempt(c)
    /\ UNCHANGED <<breaker, history>>

\* The caller that transitions is let through and takes no slot, and so is
\* every other one that found the open period over at the same time.
Probe(c) ==
    /\ pc[c] = "transition"
    /\ TransitionToHalfOpen(target[c])
    /\ GoTo(c, "sent")
    /\ UNCHANGED <<target, retry, tried>>

AnswerOk(c) ==
    /\ pc[c] = "sent"
    /\ RecordSuccess(target[c])
    /\ Return(c, "idle")

\* A rate limit goes to the rate limiter only; the breaker hears nothing.
AnswerRateLimited(c) ==
    /\ pc[c] = "sent"
    /\ lost' = [lost EXCEPT ![target[c]] = @ \/ c \in holders[target[c]]]
    /\ NextAttempt(c)
    /\ UNCHANGED <<breaker, streak, holders>>

AnswerRetryable(c) ==
    /\ pc[c] = "sent"
    /\ RecordFailure(target[c])
    /\ NextAttempt(c)

AnswerFatal(c) ==
    /\ pc[c] = "sent"
    /\ RecordFailure(target[c])
    /\ Return(c, "idle")

Proceed(c) ==
    \/ Retry(c) \/ TakeSlot(c) \/ ReadOpenedAt(c) \/ Probe(c)
    \/ AnswerOk(c) \/ AnswerRateLimited(c) \/ AnswerRetryable(c) \/ AnswerFatal(c)

Next ==
    \/ \E c \in Caller : Begin(c) \/ Proceed(c)
    \/ \E p \in Provider : Cool(p)

\* Every call is polled until it returns (requests and waits have timeouts)
\* and the clock advances.  Nothing makes a caller call or an answer be good.
Fairness ==
    /\ \A c \in Caller : WF_vars(Proceed(c))
    /\ \A p \in Provider : WF_vars(Cool(p))

Spec == Init /\ [][Next]_vars /\ Fairness

-----------------------------------------------------------------------------
(* Properties.                                                             *)

Places == Returned \cup {"retry", "take_slot", "read_opened_at", "transition",
                       "sent"}

\* The types of the variables.
TypeOK ==
    /\ state \in [Provider -> {"closed", "open", "half_open"}]
    /\ failures \in [Provider -> 0..FailureThreshold]
    /\ successes \in [Provider -> 0..(SuccessThreshold - 1)]
    /\ slots \in [Provider -> 0..HalfOpenMax]
    /\ openedAt \in [Provider -> {"absent", "cooling", "cooled"}]
    /\ pc \in [Caller -> Places]
    /\ target \in [Caller -> Provider]
    /\ retry \in [Caller -> 0..MaxRetries]
    /\ tried \in [Caller -> SUBSET Provider]
    /\ streak \in [Provider -> 0..FailureThreshold]
    /\ holders \in [Provider -> SUBSET Caller]
    /\ lost \in [Provider -> BOOLEAN]

Trips(p) == state[p] = "closed" /\ state'[p] = "open"

\* A circuit opens only after FailureThreshold failures in a row: whatever
\* answers arrive late from before an earlier outage, a success in between or
\* a recovery starts the count again (state.rs: record_success, record_failure).
TripIsEarned ==
    [][\A p \in Provider : Trips(p) => streak[p] + 1 >= FailureThreshold]_vars

\* As long as there are no more providers than attempts, a call gives up on an
\* error worth a retry only after it asked every provider, so an outage of
\* some never fails a call another could have served (execute_raw,
\* select_provider).
GivesUp(c) == pc[c] \notin Returned /\ pc'[c] = "gave_up"

TriedBeforeGivingUp ==
    [][\A c \in Caller :
          GivesUp(c) /\ Cardinality(Provider) <= MaxRetries + 1 =>
              tried[c] = Provider]_vars

\* A call ends, also when no circuit lets it through (execute_raw counts an
\* attempt refused by the breaker).
EveryCallReturns == \A c \in Caller : []<>(pc[c] \in Returned)

Asked(p) ==
    \E c \in Caller : pc[c] \notin Returned \cup {"retry"} /\ target[c] = p

\* A provider that is asked again and again does not stay open: late failures
\* extend the open period, but not for ever (can_execute, record_failure).
OpenIsProbed ==
    \A p \in Provider : []<>Asked(p) => []<>(state[p] # "open")

\* A half-open circuit that is asked again and again closes or opens, unless a
\* probe slot went to an answer that is no verdict (can_execute's counter is
\* only restarted by a transition; execute_raw reports no rate limits).
HalfOpenMovesOn ==
    \A p \in Provider : []<>Asked(p) => []<>(state[p] # "half_open" \/ lost[p])

=============================================================================
