--------------------------- MODULE SwapVerification ---------------------------
(***************************************************************************)
(* How the swaps of one position reach its books.  Callers of              *)
(* partial_close_position, add_to_position and close_position_direct       *)
(* submit a swap and enqueue its signature; the verification worker polls  *)
(* the queue, asks the chain and applies a transition to POSITIONS, then   *)
(* to the positions table, then to the exit records and to the pending     *)
(* registries; a crash rebuilds everything from the table and the          *)
(* metadata.                                                               *)
(*                                                                         *)
(* The position's entry is verified: opening it, its slot and the          *)
(* dashboard are in PositionSlots.  Token amounts are whole lots, each far *)
(* above the dust threshold; prices and SOL amounts are left out, so the   *)
(* proceeds of a swap are booked exactly when the swap is.                 *)
(***************************************************************************)
EXTENDS Integers, FiniteSets, Functions

CONSTANTS
    Callers,        \* concurrent callers of the three operations
    Ops,            \* the operations in use
    Tokens,         \* lots the verified entry bought
    MaxSwaps,       \* bound: swaps ever submitted
    MaxAttempts,    \* requeue drops an item that has this many attempts (12)
    MaxBoots,       \* bound: crashes
    Faults,         \* what the environment may do
    None

Sigs == 1 .. MaxSwaps

(***************************************************************************)
(* Faults:                                                                 *)
(*   late     a signature may be undecided at its timeout (60 s, the       *)
(*            expiry height, 24 h) although it is not lost                 *)
(*   split    the wallet's tokens may be split across accounts             *)
(*   balance  a wallet balance lookup may fail                             *)
(*   price    a price lookup may fail                                      *)
(*   db       a database write may fail                                    *)
(***************************************************************************)
ASSUME VerificationAssumption ==
    /\ Ops \subseteq {"partial", "dca", "close"}
    /\ Tokens \in Nat \ {0}
    /\ MaxSwaps \in Nat
    /\ MaxAttempts \in Nat
    /\ MaxBoots \in Nat
    /\ Faults \subseteq {"late", "split", "balance", "price", "db"}
    /\ None \notin Sigs \cup Callers /\ None \notin {"expired", "abandoned"}

VARIABLES
    swap,       \* the submitted swaps: operation and lots
    chain,      \* what the chain has done with each signature
    wallet,     \* lots in the wallet
    mem,        \* the position in POSITIONS
    db,         \* its row in the positions table
    pending,    \* PENDING_PARTIAL_EXIT_DETAILS and PENDING_DCA_SWAPS
    metadata,   \* the two metadata entries that persist them
    partials,   \* the mint's counter in PENDING_PARTIAL_EXITS
    records,    \* the signatures in position_exits
    queue,      \* VERIFICATION_QUEUE
    wrk,        \* the verification worker
    call,       \* the callers
    lock,       \* the caller holding the mint's lock
    boots,
    registered  \* history: swaps whose caller finished registering them

onChain  == <<swap, chain, wallet>>
books    == <<mem, db, records>>
registry == <<pending, metadata, partials>>
vars     == <<onChain, books, registry, queue, wrk, call, lock, boots, registered>>

Kinds == {"partial", "dca"}         \* the two pending registries

\* there: listed in POSITIONS; open: exit_time is None; verified:
\* transaction_exit_verified; booked: how often each swap was applied;
\* pnl: the sells the realized P&L covers (recorded by the loss limiter).
Position ==
    [there : BOOLEAN, open : BOOLEAN, verified : BOOLEAN, synthetic : BOOLEAN,
     remaining : Nat, exitSig : Sigs \cup {None}, booked : [Sigs -> Nat],
     pnl : SUBSET Sigs]

\* known: the item carries the position's id.
Item == [sig : Sigs, attempts : 0 .. MaxAttempts, known : BOOLEAN]

ASSUME NoneAssumption == None \notin Item

-----------------------------------------------------------------------------
(* Reading the state *)

is_position_open == mem.there /\ mem.open

\* Which signatures have a use: the next one is the first unused.
Used == {s \in Sigs : chain[s] # "unused"}
NextSig == Cardinality(Used) + 1

Sells  == {s \in Used : swap[s].op # "dca"}
Booked == {s \in Sigs : mem.booked[s] > 0}

\* A tx found neither landed nor failed: it is still on its way, gone for
\* good, or decided but not yet visible to this RPC node.
TimesOut(s) == chain[s] = "lost" \/ "late" \in Faults

\* Past the expiry height (or 10 minutes, or 24 hours) nothing lands any more.
Expired(s) == chain[s] # "sent" /\ (chain[s] # "landed" \/ "late" \in Faults)

-----------------------------------------------------------------------------
(* The queue *)

enqueue(q, item) == IF \E i \in q : i.sig = item.sig THEN q ELSE q \cup {item}

NewItem(s, known) == [sig |-> s, attempts |-> 0, known |-> known]

\* Variant: no cap.
RequeueForever(q, item) == q \cup {[item EXCEPT !.attempts = @ + 1]}

\* An item at the cap is dropped.
requeue(q, item) ==
    IF item.attempts < MaxAttempts
    THEN q \cup {[item EXCEPT !.attempts = @ + 1]} ELSE q

\* remove_verification after the item was polled takes out a second copy.
AfterRemove(q, s) ==
    IF \E i \in q : i.sig = s
    THEN {q \ {i} : i \in {j \in q : j.sig = s}} ELSE {q}

-----------------------------------------------------------------------------
(* The pending registries *)

clear_partial_exit_pending(n) == IF n > 0 THEN n - 1 ELSE 0

\* Variant: the metadata is left as it was.
PersistNothing(k, set) == metadata

\* save_pending_*: the whole registry replaces the metadata entry.
Persisted(k, set) == [metadata EXCEPT ![k] = set]

With(reg, k, s)    == [reg EXCEPT ![k] = @ \cup {s}]
Without(reg, k, s) == [reg EXCEPT ![k] = @ \ {s}]

-----------------------------------------------------------------------------
(* The callers *)

IdleCall == [at |-> "idle", op |-> None, lots |-> 0, sig |-> None, snap |-> {}]

Init ==
    /\ swap = [s \in Sigs |-> [op |-> None, lots |-> 0]]
    /\ chain = [s \in Sigs |-> "unused"]
    /\ wallet = Tokens
    /\ mem = [there |-> TRUE, open |-> TRUE, verified |-> FALSE, synthetic |-> FALSE,
              remaining |-> Tokens, exitSig |-> None, booked |-> [s \in Sigs |-> 0],
              pnl |-> {}]
    /\ db = mem
    /\ pending = [k \in Kinds |-> {}]
    /\ metadata = pending
    /\ partials = 0
    /\ records = {}
    /\ queue = {}
    /\ wrk = [at |-> "cycle", batch |-> {}, item |-> None, doing |-> None, snap |-> {}]
    /\ call = [c \in Callers |-> IdleCall]
    /\ lock = None
    /\ boots = 0
    /\ registered = {}

Goes(c, at) == call' = [call EXCEPT ![c].at = at]

\* A caller that leaves drops its guard; a mutex object that
\* remove_position took out of POSITION_LOCKS is no longer the mint's.
Leaves(c) ==
    /\ call' = [call EXCEPT ![c] = IdleCall]
    /\ lock' = IF lock = c THEN None ELSE lock

Starts(c, op, lots) ==
    /\ call[c].at = "idle"
    /\ lock = None
    /\ op \in Ops
    /\ Used # Sigs
    /\ call' = [call EXCEPT ![c] = [IdleCall EXCEPT !.at = "swap", !.op = op, !.lots = lots]]
    /\ lock' = c

\* The lower of what the wallet holds and what the position believes; the
\* position's own amount when the wallet is empty or cannot be read.
SellBase == IF 0 < wallet /\ wallet < mem.remaining THEN wallet ELSE mem.remaining
SellBases == {SellBase} \cup IF "balance" \in Faults THEN {mem.remaining} ELSE {}

\* Variant: nothing serialises two partial exits.
PartialBeginAnyway(c) ==
    /\ is_position_open
    /\ \E base \in SellBases : \E lots \in 1 .. base - 1 : Starts(c, "partial", lots)
    /\ partials' = partials + 1
    /\ UNCHANGED <<onChain, books, pending, metadata, queue, wrk, boots, registered>>

\* The check of the counter, the balance and the mark: the mint's lock is held
\* throughout, and a counter at zero is not changed by the worker.
PartialBegin(c) ==
    /\ partials = 0
    /\ is_position_open
    /\ \E base \in SellBases : \E lots \in 1 .. base - 1 : Starts(c, "partial", lots)
    /\ partials' = partials + 1
    /\ UNCHANGED <<onChain, books, pending, metadata, queue, wrk, boots, registered>>

DcaBegin(c) ==
    /\ is_position_open
    /\ Starts(c, "dca", 1)
    /\ UNCHANGED <<onChain, books, registry, queue, wrk, boots, registered>>

\* The whole wallet, or only the primary account of a split one.
CloseBegin(c) ==
    /\ ~(is_position_open /\ mem.exitSig # None)
    /\ \E lots \in 1 .. wallet :
        /\ lots = wallet \/ "split" \in Faults
        /\ Starts(c, "close", lots)
    /\ UNCHANGED <<onChain, books, registry, queue, wrk, boots, registered>>

\* No rung of the ladder was submitted.
SwapFails(c) ==
    /\ call[c].at = "swap"
    /\ partials' = IF call[c].op = "partial" THEN clear_partial_exit_pending(partials)
                   ELSE partials
    /\ Leaves(c)
    /\ UNCHANGED <<onChain, books, pending, metadata, queue, wrk, boots, registered>>

\* A rung was submitted, confirmed in time or not.
SwapSubmits(c) ==
    /\ call[c].at = "swap"
    /\ Used # Sigs
    /\ swap' = [swap EXCEPT ![NextSig] = [op |-> call[c].op, lots |-> call[c].lots]]
    /\ chain' = [chain EXCEPT ![NextSig] = "sent"]
    /\ call' = [call EXCEPT ![c].sig = NextSig,
                            ![c].at = IF call[c].op = "close" THEN "stamp" ELSE "register"]
    /\ UNCHANGED <<wallet, books, registry, queue, wrk, lock, boots, registered>>

\* register_pending_*: the map first, then the metadata from a copy of it.
RegisterPending(c) ==
    /\ call[c].at = "register"
    /\ pending' = With(pending, call[c].op, call[c].sig)
    /\ call' = [call EXCEPT ![c].at = "persist", ![c].snap = pending'[call[c].op]]
    /\ UNCHANGED <<onChain, books, metadata, partials, queue, wrk, lock, boots, registered>>

PersistPending(c) ==
    /\ call[c].at = "persist"
    /\ metadata' = Persisted(call[c].op, call[c].snap)
    /\ registered' = registered \cup {call[c].sig}
    /\ Goes(c, "submitted")
    /\ UNCHANGED <<onChain, books, pending, partials, queue, wrk, lock, boots>>

\* The swap is on its way, and the caller gives up on it.
PersistPendingFails(c) ==
    /\ call[c].at = "persist"
    /\ "db" \in Faults
    /\ pending' = Without(pending, call[c].op, call[c].sig)
    /\ partials' = IF call[c].op = "partial" THEN clear_partial_exit_pending(partials)
                   ELSE partials
    /\ Leaves(c)
    /\ UNCHANGED <<onChain, books, metadata, queue, wrk, boots, registered>>

\* add_to_position returns before it enqueues.
DcaWithoutPrice(c) ==
    /\ call[c].at = "submitted"
    /\ call[c].op = "dca"
    /\ "price" \in Faults
    /\ Leaves(c)
    /\ UNCHANGED <<onChain, books, registry, queue, wrk, boots, registered>>

\* close_position_direct stamps the signature in memory only.
StampExit(c) ==
    /\ call[c].at = "stamp"
    /\ mem' = IF mem.there THEN [mem EXCEPT !.exitSig = call[c].sig] ELSE mem
    /\ registered' = registered \cup {call[c].sig}
    /\ Goes(c, "submitted")
    /\ UNCHANGED <<onChain, db, records, registry, queue, wrk, lock, boots>>

enqueue_verification(c) ==
    /\ call[c].at = "submitted"
    /\ queue' = enqueue(queue, NewItem(call[c].sig, call[c].op # "close" \/ is_position_open))
    /\ Leaves(c)
    /\ UNCHANGED <<onChain, books, registry, wrk, boots, registered>>

-----------------------------------------------------------------------------
(* The chain *)

Lands(s) ==
    /\ chain[s] = "sent"
    /\ swap[s].op = "dca" \/ swap[s].lots <= wallet
    /\ chain' = [chain EXCEPT ![s] = "landed"]
    /\ wallet' = IF swap[s].op = "dca" THEN wallet + swap[s].lots ELSE wallet - swap[s].lots
    /\ UNCHANGED <<swap, books, registry, queue, wrk, call, lock, boots, registered>>

\* Failed on chain, or never included before its blockhash expired.
Dies(s) ==
    /\ chain[s] = "sent"
    /\ \E f \in {"failed", "lost"} : chain' = [chain EXCEPT ![s] = f]
    /\ UNCHANGED <<swap, wallet, books, registry, queue, wrk, call, lock, boots, registered>>

-----------------------------------------------------------------------------
(* The worker: one cycle *)

WorkerAt(at) == wrk.at = at

\* Variant: nothing is re-enqueued.
NoGuardItems == {}

\* Re-enqueues an exit that is stamped, unverified and not queued.
GuardItems ==
    IF mem.there /\ ~mem.verified /\ mem.exitSig # None
    THEN {NewItem(mem.exitSig, TRUE)} ELSE {}

Guard ==
    /\ WorkerAt("cycle")
    /\ queue' = queue \cup {i \in GuardItems : enqueue(queue, i) # queue}
    /\ wrk' = [wrk EXCEPT !.at = "gc"]
    /\ UNCHANGED <<onChain, books, registry, call, lock, boots, registered>>

\* An expired exit gets a fresh window (one with no attempts is left as it is).
RenewExit(item) ==
    /\ WorkerAt("gc")
    /\ swap[item.sig].op # "dca"
    /\ item.attempts > 0
    /\ Expired(item.sig)
    /\ queue' = enqueue(queue \ {item}, NewItem(item.sig, item.known))
    /\ UNCHANGED <<onChain, books, registry, wrk, call, lock, boots, registered>>

\* Starts DcaFailed.
ExpireDca(item) ==
    /\ WorkerAt("gc")
    /\ swap[item.sig].op = "dca"
    /\ Expired(item.sig)
    /\ queue' = queue \ {item}
    /\ wrk' = [wrk EXCEPT !.at = "clear", !.item = item, !.doing = "expired"]
    /\ UNCHANGED <<onChain, books, registry, call, lock, boots, registered>>

\* New items are due; the others when their backoff has elapsed.
Poll(batch) ==
    /\ WorkerAt("gc")
    /\ {i \in queue : i.attempts = 0} \subseteq batch
    /\ queue' = queue \ batch
    /\ wrk' = [wrk EXCEPT !.at = "batch", !.batch = batch]
    /\ UNCHANGED <<onChain, books, registry, call, lock, boots, registered>>

EndBatch ==
    /\ WorkerAt("batch")
    /\ wrk.batch = {}
    /\ wrk' = [wrk EXCEPT !.at = "cycle"]
    /\ UNCHANGED <<onChain, books, registry, queue, call, lock, boots, registered>>

-----------------------------------------------------------------------------
(* The worker: the verdict on one item of the batch.  The transition's     *)
(* memory update belongs to the verdict's step; its writes follow.         *)

Target(item) == item.known /\ mem.there

Polled(item) == WorkerAt("batch") /\ item \in wrk.batch

Doing(item, at, what) ==
    wrk' = [wrk EXCEPT !.at = at, !.batch = @ \ {item}, !.item = item, !.doing = what]

WorkerGoes(at) == wrk' = [wrk EXCEPT !.at = at]

\* What the worker returns to: the collection of expired items or the batch.
Rest(item) ==
    [wrk EXCEPT !.at = IF wrk.doing = "expired" THEN "gc" ELSE "batch",
                !.batch = @ \ {item}, !.item = None, !.doing = None, !.snap = {}]

\* Applied: remove_verification.
Applied(item) ==
    /\ wrk' = Rest(item)
    /\ queue' \in IF wrk.doing \in {"expired", "abandoned"} THEN {queue}
                  ELSE AfterRemove(queue, item.sig)

\* The transition returned an error.
NotApplied(item) ==
    /\ wrk' = Rest(item)
    /\ queue' = IF wrk.doing \in {"expired", "abandoned"} THEN queue ELSE requeue(queue, item)

Shared == <<call, lock, boots, registered>>

VerifyRetry(item) ==
    /\ Polled(item)
    /\ NotApplied(item)
    /\ UNCHANGED <<onChain, books, registry, Shared>>

\* Updates the position by id, or finds nothing to update and is done.
Update(item, what, row) ==
    IF Target(item)
    THEN mem' = row /\ Doing(item, "persist", what) /\ UNCHANGED queue
    ELSE Applied(item) /\ UNCHANGED mem

\* A swap is applied once more.
Count(booked, s) == [booked EXCEPT ![s] = @ + 1]

\* PartialExitVerified of a swap without an exit record.
BookFill(item, what) ==
    /\ Update(item, what,
              [mem EXCEPT !.remaining = IF @ > swap[item.sig].lots
                                        THEN @ - swap[item.sig].lots ELSE 0,
                          !.booked = Count(@, item.sig)])
    /\ UNCHANGED <<onChain, db, records, registry, Shared>>

\* Variant: the exit record is not consulted.
NeverRecorded(item) == FALSE

Recorded(item) == item.known /\ item.sig \in records

Again == [partial |-> "partial_again", residual |-> "residual_again"]

\* PartialExitVerified of a recorded swap: only the pending marks go.
SkipFill(item, what) ==
    /\ IF mem.there THEN Doing(item, "clear", Again[what]) /\ UNCHANGED queue
       ELSE Applied(item)
    /\ UNCHANGED <<onChain, books, registry, Shared>>

Fill(item, what) ==
    IF Recorded(item) THEN SkipFill(item, what) ELSE BookFill(item, what)

\* Variant: a transaction that is not found counts as confirmed.
PartialExitUnseen(item) ==
    /\ Polled(item)
    /\ swap[item.sig].op = "partial"
    /\ chain[item.sig] # "failed"
    /\ Fill(item, "partial")

PartialExitVerified(item) ==
    /\ Polled(item)
    /\ swap[item.sig].op = "partial"
    /\ chain[item.sig] = "landed"
    /\ Fill(item, "partial")

\* A close that left tokens behind is booked as a partial exit.
ExitResidual(item) ==
    /\ Polled(item)
    /\ swap[item.sig].op = "close"
    /\ chain[item.sig] = "landed"
    /\ wallet > 0
    /\ Fill(item, "residual")

\* Variant: the add replaces what is held.
HeldIsTheAdd(lots) == lots

HeldAfterAdd(lots) == mem.remaining + lots

DcaVerified(item) ==
    /\ Polled(item)
    /\ swap[item.sig].op = "dca"
    /\ chain[item.sig] = "landed"
    /\ IF mem.there
       THEN /\ mem' = [mem EXCEPT !.remaining = HeldAfterAdd(swap[item.sig].lots),
                                  !.booked = Count(@, item.sig)]
            /\ Doing(item, "persist", "dca")
            /\ UNCHANGED queue
       ELSE NotApplied(item) /\ UNCHANGED mem
    /\ UNCHANGED <<onChain, db, records, registry, Shared>>

\* Variant: a close may be booked again.
NeverVerified(item) == FALSE

AlreadyVerified(item) == Target(item) /\ mem.verified

Closed(row, s) ==
    [row EXCEPT !.open = FALSE, !.verified = TRUE, !.remaining = 0,
                !.booked = Count(@, s), !.pnl = (Booked \cup {s}) \cap Sells]

ExitVerified(item) ==
    /\ Polled(item)
    /\ swap[item.sig].op = "close"
    /\ chain[item.sig] = "landed"
    /\ wallet = 0
    /\ IF AlreadyVerified(item) THEN Applied(item) /\ UNCHANGED mem
       ELSE Update(item, "exit", Closed(mem, item.sig))
    /\ UNCHANGED <<onChain, db, records, registry, Shared>>

\* Clears whatever exit signature the position carries.
Unstamped == [mem EXCEPT !.exitSig = None, !.verified = FALSE]

\* Nothing is held any more, nothing came back for it.
WrittenOff ==
    [mem EXCEPT !.open = FALSE, !.verified = TRUE, !.synthetic = TRUE, !.remaining = 0,
                !.pnl = Booked \cap Sells]

FullExitFailed(item) ==
    /\ \/ wallet > 0 /\ Update(item, "retry_clear", Unstamped)
       \/ (wallet = 0 \/ "balance" \in Faults) /\ Update(item, "synthetic", WrittenOff)
    /\ UNCHANGED <<onChain, db, records, registry, Shared>>

\* PartialExitFailed drops every pending partial exit of the mint.
DropPartials ==
    IF mem.there
    THEN /\ pending' = [pending EXCEPT !["partial"] = {}]
         /\ \/ metadata' = [metadata EXCEPT !["partial"] = {}]
            \/ /\ "db" \in Faults \/ pending["partial"] = {}
               /\ UNCHANGED metadata
         /\ partials' = 0
    ELSE UNCHANGED registry

\* The transaction is on chain with an error that is marked permanent.
ExitFailed(item) ==
    /\ Polled(item)
    /\ swap[item.sig].op = "close"
    /\ chain[item.sig] = "failed"
    /\ FullExitFailed(item)

PartialExitFailed(item) ==
    /\ Polled(item)
    /\ swap[item.sig].op = "partial"
    /\ chain[item.sig] = "failed"
    /\ DropPartials
    /\ Applied(item)
    /\ UNCHANGED <<onChain, books, Shared>>

\* A failed add takes the position out of POSITIONS, with its lock object.
RemoveOrphanEntry(item) ==
    /\ Polled(item)
    /\ swap[item.sig].op = "dca"
    /\ chain[item.sig] = "failed"
    /\ mem' = [mem EXCEPT !.there = FALSE]
    /\ lock' = IF mem.there THEN None ELSE lock
    /\ Applied(item)
    /\ UNCHANGED <<onChain, db, records, registry, call, boots, registered>>

\* A minute without the transaction: any exit, a partial one included, is
\* judged by the wallet's balance.
ExitTimesOut(item) ==
    /\ Polled(item)
    /\ swap[item.sig].op # "dca"
    /\ item.known
    /\ TimesOut(item.sig)
    /\ IF wallet > 0 THEN Update(item, "retry_clear", Unstamped)
       ELSE Update(item, "synthetic", WrittenOff)
    /\ UNCHANGED <<onChain, db, records, registry, Shared>>

\* 24 hours without a verdict.
Abandon(item) ==
    /\ Polled(item)
    /\ "late" \in Faults
    /\ chain[item.sig] # "sent"
    /\ \/ /\ swap[item.sig].op = "dca"
          /\ Doing(item, "clear", "abandoned")
          /\ UNCHANGED <<mem, registry>>
       \/ /\ swap[item.sig].op = "partial"
          /\ DropPartials
          /\ wrk' = Rest(item)
          /\ UNCHANGED mem
       \/ /\ swap[item.sig].op = "close"
          /\ IF Target(item) THEN mem' = WrittenOff /\ Doing(item, "persist", "abandoned")
             ELSE wrk' = Rest(item) /\ UNCHANGED mem
          /\ UNCHANGED registry
    /\ UNCHANGED <<onChain, db, records, queue, Shared>>

-----------------------------------------------------------------------------
(* The worker: the writes of a transition *)

Persist ==
    /\ WorkerAt("persist")
    /\ db' = mem
    /\ \/ wrk.doing \in {"partial", "residual", "exit"} /\ WorkerGoes("record") /\ UNCHANGED queue
       \/ wrk.doing = "dca" /\ WorkerGoes("clear") /\ UNCHANGED queue
       \/ wrk.doing \in {"retry_clear", "synthetic", "abandoned"} /\ Applied(wrk.item)
    /\ UNCHANGED <<onChain, mem, records, registry, Shared>>

\* An error of a permanent failure is ignored.
PersistFails ==
    /\ WorkerAt("persist")
    /\ "db" \in Faults
    /\ IF wrk.doing = "synthetic" THEN Applied(wrk.item) ELSE NotApplied(wrk.item)
    /\ UNCHANGED <<onChain, books, registry, Shared>>

\* The record of a full exit names the signature the position carries.
RecordSig == IF wrk.doing = "exit" THEN mem.exitSig ELSE wrk.item.sig

Record ==
    /\ WorkerAt("record")
    /\ \/ records' = records \cup ({RecordSig} \ {None})
       \/ "db" \in Faults /\ UNCHANGED records
    /\ IF wrk.doing = "exit" THEN Applied(wrk.item) ELSE WorkerGoes("clear") /\ UNCHANGED queue
    /\ UNCHANGED <<onChain, mem, db, registry, Shared>>

Kind == IF swap[wrk.item.sig].op = "dca" THEN "dca" ELSE "partial"

\* clear_pending_*: the map, then the metadata from a copy of it.
ClearPending ==
    /\ WorkerAt("clear")
    /\ IF wrk.item.sig \in pending[Kind]
       THEN /\ pending' = Without(pending, Kind, wrk.item.sig)
            /\ wrk' = [wrk EXCEPT !.at = "store", !.snap = pending'[Kind]]
       ELSE WorkerGoes("settle") /\ UNCHANGED pending
    /\ UNCHANGED <<onChain, books, metadata, partials, queue, Shared>>

StorePending ==
    /\ WorkerAt("store")
    /\ metadata' = Persisted(Kind, wrk.snap)
    /\ WorkerGoes("settle")
    /\ UNCHANGED <<onChain, books, pending, partials, queue, Shared>>

\* Of a swap that was booked before, the error is ignored.
StorePendingFails ==
    /\ WorkerAt("store")
    /\ "db" \in Faults
    /\ pending' = With(pending, Kind, wrk.item.sig)
    /\ IF wrk.doing \in Range(Again) THEN WorkerGoes("settle") /\ UNCHANGED queue
       ELSE NotApplied(wrk.item)
    /\ UNCHANGED <<onChain, books, metadata, partials, Shared>>

\* Booking a residual also counts one partial exit down.
Settle ==
    /\ WorkerAt("settle")
    /\ partials' = IF wrk.doing \in {"partial", "residual"} \cup Range(Again)
                   THEN clear_partial_exit_pending(partials) ELSE partials
    /\ IF wrk.doing \in {"residual", "residual_again"} THEN WorkerGoes("unstamp") /\ UNCHANGED queue
       ELSE Applied(wrk.item)
    /\ UNCHANGED <<onChain, books, pending, metadata, Shared>>

\* The second half of ExitResidualClearForRetry.
Unstamp ==
    /\ WorkerAt("unstamp")
    /\ Update(wrk.item, "retry_clear", Unstamped)
    /\ UNCHANGED <<onChain, db, records, registry, Shared>>

-----------------------------------------------------------------------------
(* Restart: initialize_positions_system *)

RestoredItems ==
    LET exit == IF ~db.verified /\ db.exitSig # None THEN {db.exitSig} ELSE {}
    IN  {NewItem(s, TRUE) : s \in exit \cup metadata["dca"] \cup metadata["partial"]}

Restart ==
    /\ boots < MaxBoots
    /\ boots' = boots + 1
    /\ mem' = db
    /\ pending' = metadata
    /\ partials' = Cardinality(metadata["partial"])
    /\ queue' = RestoredItems
    /\ wrk' = [at |-> "cycle", batch |-> {}, item |-> None, doing |-> None, snap |-> {}]
    /\ call' = [c \in Callers |-> IdleCall]
    /\ lock' = None
    /\ UNCHANGED <<onChain, db, metadata, records, registered>>

-----------------------------------------------------------------------------
CallerWorks(c) ==
    \/ SwapFails(c) \/ SwapSubmits(c)
    \/ RegisterPending(c) \/ PersistPending(c) \/ PersistPendingFails(c)
    \/ DcaWithoutPrice(c) \/ StampExit(c) \/ enqueue_verification(c)

Caller(c) == PartialBegin(c) \/ DcaBegin(c) \/ CloseBegin(c) \/ CallerWorks(c)

Transitions(item) ==
    \/ PartialExitVerified(item) \/ ExitResidual(item) \/ DcaVerified(item)
    \/ ExitVerified(item) \/ ExitFailed(item) \/ PartialExitFailed(item)
    \/ RemoveOrphanEntry(item) \/ ExitTimesOut(item) \/ Abandon(item)

Verify == \E item \in wrk.batch : VerifyRetry(item) \/ Transitions(item)

Collect == \E item \in queue : RenewExit(item) \/ ExpireDca(item)

Apply ==
    \/ Persist \/ PersistFails \/ Record \/ ClearPending \/ StorePending
    \/ StorePendingFails \/ Settle \/ Unstamp

Worker ==
    \/ Guard \/ Collect \/ (\E batch \in SUBSET queue : Poll(batch)) \/ EndBatch
    \/ Verify \/ Apply

Next ==
    \/ \E c \in Callers : Caller(c)
    \/ \E s \in Sigs : Lands(s) \/ Dies(s)
    \/ Worker
    \/ Restart

Spec == Init /\ [][Next]_vars

-----------------------------------------------------------------------------
(* Properties *)

\* The variables hold what the code's types allow.
TypeOK ==
    /\ swap \in [Sigs -> [op : Ops \cup {None}, lots : Nat]]
    /\ chain \in [Sigs -> {"unused", "sent", "landed", "failed", "lost"}]
    /\ wallet \in Nat
    /\ mem \in Position
    /\ db \in Position
    /\ pending \in [Kinds -> SUBSET Sigs]
    /\ metadata \in [Kinds -> SUBSET Sigs]
    /\ partials \in Nat
    /\ records \subseteq Sigs
    /\ queue \subseteq Item
    /\ wrk.batch \subseteq Item
    /\ wrk.item \in Item \cup {None}
    /\ lock \in Callers \cup {None}
    /\ boots \in 0 .. MaxBoots
    /\ registered \subseteq Sigs

\* Swaps the chain has executed and the position does not show.
Unbooked == {s \in Used : chain[s] = "landed" /\ mem.booked[s] = 0}
InFlight == {s \in Used : chain[s] = "sent"} \cup Unbooked

Of(op, set) == {s \in set : swap[s].op = op}

\* The lots of these swaps, counted one by one.
LotsOf(set) == Cardinality(UNION {{s} \X (1 .. swap[s].lots) : s \in set})

\* Only a landed swap is booked, once, and never unbooked (apply.rs: one swap
\* is one exit record, one close is one transaction_exit_verified).
Ledger == INSTANCE SwapLedger WITH
    fate   <- [s \in Sigs |-> IF chain[s] \in {"failed", "lost"} THEN "void" ELSE chain[s]],
    booked <- mem.booked
LedgerSpec == Ledger!Spec

\* What an open position believes it holds is what the wallet holds, up to
\* the swaps that landed and are not booked yet (PartialExitVerified and
\* DcaVerified move remaining_token_amount by what their swap moved).
BooksFollowWallet ==
    is_position_open =>
        mem.remaining + LotsOf(Of("dca", Unbooked)) = wallet + LotsOf(Unbooked \cap Sells)

\* No swap is booked twice, whatever is retried or restored (PartialExitVerified:
\* "applying the same partial twice would sell the same tokens twice on paper").
BookedOnce == \A s \in Sigs : mem.booked[s] <= 1

\* The registry serialises partial exits: none is sized while another one's
\* tokens are on their way out of the books (partial_close_position: "Refuse to
\* overlap two partial exits", state_pending.rs).
OnePartialInFlight == Cardinality(Of("partial", InFlight)) <= 1

Tracked(s) ==
    \/ \E k \in Kinds : s \in pending[k]
    \/ \E i \in queue \cup wrk.batch \cup ({wrk.item} \ {None}) : i.sig = s
    \/ \E c \in Callers : call[c].sig = s
    \/ mem.exitSig = s

\* A swap that landed is booked or is still being followed, in the queue or by
\* the registry that the next start restores it from
\* (initialize_positions_system).  For partial exits, which the counter keeps from
\* racing for the metadata; adds may lose it.
NothingForgotten == \A s \in registered \cap Unbooked : Tracked(s)

\* An exit that landed is not written off by ExitPermanentFailureSynthetic: the
\* tokens were sold, not lost (queue.rs: we keep verifying "rather than
\* abandoning a position whose exit already landed").
LandedExitNotWrittenOff == mem.synthetic => Unbooked \cap Sells = {}

\* The realized P&L of a closed position covers every sell it has booked, so
\* that the loss limiter, which is fed at the close only, sees all of them.  True of
\* full closes and the residuals they leave (ExitVerified adds to sol_received); a
\* partial exit verified after the close it overlapped with is left out.
LossLandsInFull == ~mem.open => Booked \cap Sells \subseteq mem.pnl

-----------------------------------------------------------------------------
(* Liveness: the callers and the worker are tokio tasks that keep running, *)
(* the chain decides every signature, a backoff elapses, and an RPC node   *)
(* that is asked again and again answers in the end.                       *)

Fairness ==
    /\ WF_vars(Worker)
    /\ \A c \in Callers : WF_vars(CallerWorks(c))
    /\ \A s \in Sigs :
        /\ WF_vars(Lands(s) \/ Dies(s))
        /\ SF_vars(\E batch \in SUBSET queue : (\E i \in batch : i.sig = s) /\ Poll(batch))
        /\ SF_vars(\E i \in wrk.batch : i.sig = s /\ Transitions(i))

FairSpec == Spec /\ Fairness

\* An exit that is stamped on an open position is booked or cleared, however
\* often its verification is retried.
StampedExitSettles ==
    \A s \in Sigs : (mem.exitSig = s /\ is_position_open)
                        ~> (mem.exitSig # s \/ ~is_position_open)
===============================================================================
