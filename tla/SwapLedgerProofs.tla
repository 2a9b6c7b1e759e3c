--------------------------- MODULE SwapLedgerProofs ---------------------------
(***************************************************************************)
(* What SwapVerification books, for any number of callers, swaps, tokens   *)
(* and attempts, while no write fails and no crash comes: each swap is     *)
(* booked once and only when it landed, one partial exit is in flight at a *)
(* time, and the position believes it holds what the wallet holds.         *)
(***************************************************************************)
EXTENDS SwapVerificationProofs

USE VerificationAssumption

-----------------------------------------------------------------------------
(* Where a swap is followed: in one place at a time *)

AtCall(s)  == \E c \in Callers : call[c].sig = s
Queued(s)  == \E i \in queue : i.sig = s
Polling(s) == \E i \in wrk.batch : i.sig = s
AtWork(s)  == wrk.at \notin Resting /\ wrk.item.sig = s

\* The partial exits and adds: the swaps nothing re-enqueues while they are followed.
Fills == {s \in Used : swap[s].op \in Kinds}

\* Whatever follows a swap was given its signature when it was submitted.
CallGiven(c) ==
    /\ call[c].sig # None => call[c].sig \in Used /\ swap[call[c].sig].op = call[c].op
    /\ call[c].at \in {"idle", "swap"} => call[c].sig = None
    /\ call[c].at = "stamp" => call[c].op = "close"

Given ==
    /\ \A c \in Callers : CallGiven(c)
    /\ \A c, d \in Callers : call[c].sig = call[d].sig /\ call[c].sig # None => c = d
    /\ \A i \in queue \cup wrk.batch : i.sig \in Used
    /\ wrk.at \notin Resting => wrk.item.sig \in Used
    /\ mem.exitSig # None => mem.exitSig \in Used /\ swap[mem.exitSig].op = "close"

OnePlace ==
    \A s \in Fills :
        /\ AtCall(s) => ~Queued(s) /\ ~Polling(s) /\ ~AtWork(s)
        /\ Queued(s) => ~Polling(s) /\ ~AtWork(s)
        /\ Polling(s) => ~AtWork(s)
        /\ \A i, j \in queue : i.sig = s /\ j.sig = s => i = j
        /\ \A i, j \in wrk.batch : i.sig = s /\ j.sig = s => i = j

LEMMA NoneIsNoSig == None \notin Sigs
  OBVIOUS

LEMMA GivenInit ==
  ASSUME Init
  PROVE  Given /\ OnePlace /\ Used = {}
<1>1. Used = {} /\ Fills = {}
  BY DEF Init, Used, Fills
<1>2. Given
  BY DEF Init, Given, CallGiven, IdleCall, Resting
<1> QED BY <1>1, <1>2 DEF OnePlace

LEMMA GivenCaller ==
  ASSUME Types, Given, NEW c \in Callers, Caller(c)
  PROVE  Given'
<1>0. ChainOK /\ CallsOK /\ RestOK
  BY DEF Types
<1>f. /\ call[c].at # "idle" => call[c].op \in Ops
      /\ call[c].at \notin {"idle", "swap"} => call[c].sig \in Sigs
  BY <1>0, CallFields
<1>1. CASE PartialBegin(c) \/ DcaBegin(c) \/ CloseBegin(c)
  <2>1. PICK op \in Ops, lots \in Nat :
            /\ Starts(c, op, lots)
            /\ UNCHANGED <<onChain, books, pending, metadata, queue, wrk, boots, registered>>
    BY <1>1, BeginsOK
  <2>2. call'[c].at = "swap" /\ call'[c].sig = None
        /\ \A d \in Callers : d # c => call'[d] = call[d]
    BY <1>0, <2>1, StartsOK
  <2> QED BY <2>1, <2>2 DEF Given, CallGiven, Used, onChain, books
<1>2. CASE SwapSubmits(c)
  <2>1. Used' = Used \cup {NextSig} /\ NextSig \notin Used /\ NextSig # None
        /\ \A s \in Used : swap'[s] = swap[s]
    BY <1>0, <1>2, SubmitsOK DEF Used
  <2>2. /\ call'[c].sig = NextSig /\ swap'[NextSig].op = call'[c].op
        /\ call'[c].at \notin {"idle", "swap"} /\ (call'[c].at = "stamp" => call'[c].op = "close")
        /\ \A d \in Callers : d # c => call'[d] = call[d]
        /\ UNCHANGED <<queue, wrk, mem>>
    BY <1>2, SubmitsOK DEF books
  <2> QED BY <2>1, <2>2 DEF Given, CallGiven
<1>3. CASE RegisterPending(c) \/ PersistPending(c)
  <2>1. /\ call'[c].op = call[c].op /\ call'[c].sig = call[c].sig
        /\ call'[c].at \in {"persist", "submitted"}
        /\ \A d \in Callers : d # c => call'[d] = call[d]
    BY <1>0, <1>3, <1>f, RegistersOK, GoesOK DEF PersistPending
  <2>2. UNCHANGED <<onChain, mem, queue, wrk>>
    BY <1>3 DEF RegisterPending, PersistPending, books
  <2> QED BY <2>1, <2>2 DEF Given, CallGiven, Used, onChain
<1>4. CASE PersistPendingFails(c) \/ SwapFails(c) \/ DcaWithoutPrice(c)
  <2>1. Leaves(c) /\ UNCHANGED <<onChain, mem, queue, wrk>>
    BY <1>4 DEF PersistPendingFails, SwapFails, DcaWithoutPrice, books
  <2>2. call'[c] = IdleCall /\ \A d \in Callers : d # c => call'[d] = call[d]
    BY <1>0, <2>1, LeavesOK DEF RestOK
  <2>3. IdleCall.at = "idle" /\ IdleCall.sig = None
    BY IdleOK
  <2> QED BY <2>1, <2>2, <2>3 DEF Given, CallGiven, Used, onChain
<1>5. CASE StampExit(c)
  <2>1. call[c].at = "stamp" /\ Goes(c, "submitted")
        /\ mem' = (IF mem.there THEN [mem EXCEPT !.exitSig = call[c].sig] ELSE mem)
        /\ UNCHANGED <<onChain, queue, wrk>>
    BY <1>5 DEF StampExit
  <2>2. /\ call'[c].op = call[c].op /\ call'[c].sig = call[c].sig
        /\ call'[c].at = "submitted"
        /\ \A d \in Callers : d # c => call'[d] = call[d]
    BY <1>0, <1>f, <2>1, GoesOK
  <2>3. mem'.exitSig \in {mem.exitSig, call[c].sig}
    BY <1>0, <2>1 DEF RestOK, Position
  <2>4. call[c].sig \in Used /\ swap[call[c].sig].op = "close"
    BY <1>f, <2>1 DEF Given, CallGiven
  <2> QED BY <2>1, <2>2, <2>3, <2>4 DEF Given, CallGiven, Used, onChain
<1>6. CASE enqueue_verification(c)
  <2>1. call[c].sig \in Used
    BY <1>6, <1>f DEF Given, CallGiven, enqueue_verification
  <2>2. \A i \in queue' : i \in queue \/ i.sig = call[c].sig
    BY <1>6 DEF enqueue_verification, enqueue, NewItem
  <2>3. Leaves(c) /\ UNCHANGED <<onChain, mem, wrk>>
    BY <1>6 DEF enqueue_verification, books
  <2>4. call'[c] = IdleCall /\ \A d \in Callers : d # c => call'[d] = call[d]
    BY <1>0, <2>3, LeavesOK DEF RestOK
  <2>5. IdleCall.at = "idle" /\ IdleCall.sig = None
    BY IdleOK
  <2> QED BY <2>1, <2>2, <2>3, <2>4, <2>5 DEF Given, CallGiven, Used, onChain
<1> QED BY <1>1, <1>2, <1>3, <1>4, <1>5, <1>6 DEF Caller, CallerWorks

-----------------------------------------------------------------------------
(* What the worker's steps do to the places *)

Residual == {"residual", "residual_again"}

\* The item leaves the batch: for the worker's own writes, for good, or for the queue.
Leaving(item) ==
    /\ wrk'.batch = wrk.batch \ {item} /\ wrk'.at \notin {"unstamp", "record"}
    /\ \/ queue' \subseteq queue /\ (wrk'.at \in Resting \/ wrk'.item = item)
       \/ /\ wrk'.at \in Resting /\ mem' = mem
          /\ \E j : j.sig = item.sig /\ queue' \subseteq queue \cup {j}

\* What a verdict makes of the position.
Booking(item) ==
    /\ mem'.booked = Count(mem.booked, item.sig)
    /\ chain[item.sig] = "landed" /\ wrk'.at \notin Resting /\ wrk'.item = item
    /\ \/ swap[item.sig].op \in Kinds /\ mem'.verified = mem.verified
       \/ swap[item.sig].op = "close" /\ wallet > 0
       \/ swap[item.sig].op = "close" /\ wallet = 0 /\ ~mem.verified /\ mem'.verified

Judged(item) ==
    /\ mem'.booked = mem.booked \/ Booking(item)
    /\ mem'.verified = mem.verified \/ mem'.verified \/ wallet > 0
    /\ mem'.exitSig \in {mem.exitSig, None}
    /\ wrk'.doing \in Residual /\ wrk'.at \notin Resting =>
          swap[item.sig].op = "close" /\ chain[item.sig] = "landed" /\ wallet > 0
    /\ wrk'.at \notin Resting =>
          /\ wrk'.doing = "partial" => swap[item.sig].op = "partial" /\ Booking(item)
          /\ wrk'.doing = "partial_again" => swap[item.sig].op = "partial" /\ item.sig \in records

LEMMA AppliedLeaves ==
  ASSUME Types, NEW item \in Item, wrk.at = "batch", Applied(item)
  PROVE  Leaving(item) /\ wrk'.doing = None /\ wrk'.at \in Resting
<1>1. WorkerOK /\ queue \subseteq Item /\ wrk.doing = None
  BY WorkerFields DEF Types, RestOK, Resting
<1>2. queue' \subseteq queue /\ wrk' = Rest(item)
  BY <1>1, AppliedOK
<1>3. wrk'.batch = wrk.batch \ {item} /\ wrk'.at \in {"gc", "batch"} /\ wrk'.doing = None
  BY <1>1, <1>2, RestFields
<1> QED BY <1>2, <1>3 DEF Leaving, Resting

LEMMA NotAppliedLeaves ==
  ASSUME Types, NEW item \in Item, wrk.at = "batch", NotApplied(item), mem' = mem
  PROVE  Leaving(item) /\ wrk'.doing = None /\ wrk'.at \in Resting
<1>1. WorkerOK /\ queue \subseteq Item /\ wrk.doing = None /\ None \notin {"expired", "abandoned"}
  BY WorkerFields DEF Types, RestOK, Resting
<1>2. wrk' = Rest(item) /\ queue' = requeue(queue, item)
  BY <1>1 DEF NotApplied
<1>3. wrk'.batch = wrk.batch \ {item} /\ wrk'.at \in {"gc", "batch"} /\ wrk'.doing = None
  BY <1>1, <1>2, RestFields
<1>4. \E j : j.sig = item.sig /\ queue' \subseteq queue \cup {j}
  <2> DEFINE again == [item EXCEPT !.attempts = @ + 1]
  <2>1. again.sig = item.sig
    BY DEF Item
  <2>2. queue' \subseteq queue \cup {again}
    BY <1>2 DEF requeue
  <2> HIDE DEF again
  <2> QED BY <2>1, <2>2
<1> QED BY <1>3, <1>4 DEF Leaving, Resting

LEMMA DoingLeaves ==
  ASSUME Types, NEW item \in Item, NEW at \in {"persist", "clear"}, NEW what \in Transition,
         Doing(item, at, what), queue' = queue
  PROVE  Leaving(item) /\ wrk'.doing = what /\ wrk'.at = at /\ wrk'.at \notin Resting
         /\ wrk'.item = item
<1>1. at \in Stages /\ at \notin Resting
  BY DEF Stages, Resting
<1>2. /\ wrk'.at = at /\ wrk'.batch = wrk.batch \ {item} /\ wrk'.item = item /\ wrk'.doing = what
  BY <1>1, DoingFields DEF Types
<1> QED BY <1>1, <1>2 DEF Leaving

LEMMA FillEffect ==
  ASSUME Types, NEW item \in Item, wrk.at = "batch", NEW what \in {"partial", "residual"},
         Fill(item, what), chain[item.sig] = "landed",
         what = "partial" => swap[item.sig].op = "partial",
         what = "residual" => swap[item.sig].op = "close" /\ wallet > 0
  PROVE  Leaving(item) /\ Judged(item)
<1>0. item.sig \in Sigs /\ what \in Transition /\ Again[what] \in Transition
  BY DEF Item, Transition, Again
<1>1. CASE Recorded(item)
  <2>1. mem' = mem
    BY <1>1 DEF Fill, SkipFill, books
  <2>2. CASE mem.there
    <3>1. Doing(item, "clear", Again[what]) /\ queue' = queue
      BY <1>1, <2>2 DEF Fill, SkipFill
    <3>2. Leaving(item) /\ wrk'.doing = Again[what]
      BY <1>0, <3>1, DoingLeaves
    <3>3. /\ Again[what] \in Residual => what = "residual"
          /\ Again[what] # "partial" /\ (Again[what] = "partial_again" => what = "partial")
      BY DEF Again, Residual
    <3>4. item.sig \in records
      BY <1>1 DEF Recorded
    <3> QED BY <2>1, <3>2, <3>3, <3>4 DEF Judged
  <2>3. CASE ~mem.there
    <3>1. Applied(item)
      BY <1>1, <2>3 DEF Fill, SkipFill
    <3> QED BY <1>0, <2>1, <3>1, AppliedLeaves DEF Judged
  <2> QED BY <2>2, <2>3
<1>2. CASE ~Recorded(item)
  <2>1. Update(item, what, Filled(item.sig))
    BY <1>2 DEF Fill, BookFill, Filled
  <2>2. CASE Target(item)
    <3>1. mem' = Filled(item.sig) /\ Doing(item, "persist", what) /\ queue' = queue
      BY <2>1, <2>2 DEF Update
    <3>2. Leaving(item) /\ wrk'.doing = what /\ wrk'.item = item /\ wrk'.at \notin Resting
      BY <1>0, <3>1, DoingLeaves
    <3>3. mem'.booked = Count(mem.booked, item.sig) /\ mem'.verified = mem.verified
          /\ mem'.exitSig = mem.exitSig
      BY <1>0, <3>1, FilledFields
    <3> QED BY <3>2, <3>3 DEF Judged, Booking, Residual, Kinds
  <2>3. CASE ~Target(item)
    <3>1. Applied(item) /\ mem' = mem
      BY <2>1, <2>3 DEF Update
    <3> QED BY <1>0, <3>1, AppliedLeaves DEF Judged
  <2> QED BY <2>2, <2>3
<1> QED BY <1>1, <1>2

\* A position that is written off or whose stamp is cleared books nothing.
LEMMA UpdateEffect ==
  ASSUME Types, NEW item \in Item, wrk.at = "batch", NEW row \in Position,
         NEW what \in {"retry_clear", "synthetic"}, Update(item, what, row),
         row.booked = mem.booked, row.verified \/ wallet > 0, row.exitSig \in {mem.exitSig, None}
  PROVE  Leaving(item) /\ Judged(item)
<1>0. what \notin Residual \cup {"partial", "partial_again"} /\ what \in Transition
  BY DEF Residual, Transition
<1>1. CASE Target(item)
  <2>1. mem' = row /\ Doing(item, "persist", what) /\ queue' = queue
    BY <1>1 DEF Update
  <2> QED BY <1>0, <2>1, DoingLeaves DEF Judged
<1>2. CASE ~Target(item)
  <2>1. Applied(item) /\ mem' = mem
    BY <1>2 DEF Update
  <2> QED BY <1>0, <2>1, AppliedLeaves DEF Judged
<1> QED BY <1>1, <1>2

LEMMA VerdictEffect ==
  ASSUME Types, NEW item \in wrk.batch, VerifyRetry(item) \/ Transitions(item)
  PROVE  /\ Leaving(item) /\ Judged(item) /\ wrk.at = "batch" /\ item \in Item
         /\ UNCHANGED <<onChain, call, db, records, boots, registered>>
<1>0. item \in Item /\ item.sig \in Sigs /\ wrk.at = "batch"
      /\ UNCHANGED <<onChain, call, db, records, boots, registered>>
  <2>1. item \in Item
    BY WorkerFields DEF Types
  <2> QED BY <2>1 DEF Item, Polled, WorkerAt, VerifyRetry, Transitions, PartialExitVerified,
       ExitResidual, Fill, SkipFill, BookFill, DcaVerified, ExitVerified, ExitFailed,
       FullExitFailed, PartialExitFailed, RemoveOrphanEntry, ExitTimesOut, Abandon, books, Shared
<1>1. CASE VerifyRetry(item)
  <2>1. NotApplied(item) /\ mem' = mem
    BY <1>1 DEF VerifyRetry, books
  <2> QED BY <1>0, <2>1, NotAppliedLeaves DEF Judged
<1>2. CASE PartialExitVerified(item) \/ ExitResidual(item)
  BY <1>0, <1>2, FillEffect DEF PartialExitVerified, ExitResidual
<1>3. CASE DcaVerified(item)
  <2>1. CASE mem.there
    <3>1. mem' = Added(item.sig) /\ Doing(item, "persist", "dca") /\ queue' = queue
          /\ swap[item.sig].op = "dca" /\ chain[item.sig] = "landed"
      BY <1>3, <2>1 DEF DcaVerified, Added
    <3>2. "dca" \in Transition /\ "dca" \notin Residual /\ "dca" \in Kinds
      BY DEF Transition, Residual, Kinds
    <3>3. Leaving(item) /\ wrk'.doing = "dca" /\ wrk'.item = item /\ wrk'.at \notin Resting
      BY <1>0, <3>1, <3>2, DoingLeaves
    <3>4. mem'.booked = Count(mem.booked, item.sig) /\ mem'.verified = mem.verified
          /\ mem'.exitSig = mem.exitSig
      BY <1>0, <3>1, AddedFields
    <3>5. Booking(item)
      BY <3>1, <3>2, <3>3, <3>4 DEF Booking
    <3> QED BY <1>0, <3>2, <3>3, <3>4, <3>5 DEF Judged
  <2>2. CASE ~mem.there
    <3>1. NotApplied(item) /\ mem' = mem
      BY <1>3, <2>2 DEF DcaVerified
    <3> QED BY <1>0, <3>1, NotAppliedLeaves DEF Judged
  <2> QED BY <2>1, <2>2
<1>4. CASE ExitVerified(item)
  <2>0. swap[item.sig].op = "close" /\ chain[item.sig] = "landed" /\ wallet = 0
    BY <1>4 DEF ExitVerified
  <2>1. CASE AlreadyVerified(item) \/ ~Target(item)
    <3>1. Applied(item) /\ mem' = mem
      BY <1>4, <2>1 DEF ExitVerified, AlreadyVerified, Update
    <3> QED BY <1>0, <3>1, AppliedLeaves DEF Judged
  <2>2. CASE ~AlreadyVerified(item) /\ Target(item)
    <3>1. mem' = Closed(mem, item.sig) /\ Doing(item, "persist", "exit") /\ queue' = queue
          /\ ~mem.verified
      BY <1>4, <2>2 DEF ExitVerified, AlreadyVerified, Update
    <3>2. "exit" \in Transition /\ "exit" \notin Residual
      BY DEF Transition, Residual
    <3>3. Leaving(item) /\ wrk'.doing = "exit" /\ wrk'.item = item /\ wrk'.at \notin Resting
      BY <1>0, <3>1, <3>2, DoingLeaves
    <3>4. mem'.booked = Count(mem.booked, item.sig) /\ mem'.verified /\ mem'.exitSig = mem.exitSig
      BY <1>0, <3>1, ClosedFields
    <3>5. Booking(item)
      BY <2>0, <3>1, <3>3, <3>4 DEF Booking
    <3> QED BY <1>0, <3>2, <3>3, <3>4, <3>5 DEF Judged
  <2> QED BY <2>1, <2>2
<1>5. CASE ExitFailed(item) \/ ExitTimesOut(item)
  <2>1. \/ wallet > 0 /\ Update(item, "retry_clear", Unstamped)
        \/ Update(item, "synthetic", WrittenOff)
    BY <1>5 DEF ExitFailed, FullExitFailed, ExitTimesOut
  <2> QED BY <1>0, <2>1, UpdateEffect, UnstampedFields, WrittenOffFields
<1>6. CASE PartialExitFailed(item)
  <2>1. Applied(item) /\ mem' = mem
    BY <1>6 DEF PartialExitFailed, books
  <2> QED BY <1>0, <2>1, AppliedLeaves DEF Judged
<1>7. CASE RemoveOrphanEntry(item)
  <2>1. Applied(item) /\ mem' = [mem EXCEPT !.there = FALSE]
    BY <1>7 DEF RemoveOrphanEntry
  <2>2. mem'.booked = mem.booked /\ mem'.verified = mem.verified /\ mem'.exitSig = mem.exitSig
    BY <2>1 DEF Types, RestOK, Position
  <2> QED BY <1>0, <2>1, <2>2, AppliedLeaves DEF Judged
<1>8. CASE Abandon(item)
  <2>0. UNCHANGED queue
    BY <1>8 DEF Abandon
  <2>1. "abandoned" \in Transition /\ "abandoned" \notin Residual
    BY DEF Transition, Residual
  <2>2. CASE Doing(item, "clear", "abandoned") /\ UNCHANGED mem
    BY <1>0, <2>0, <2>1, <2>2, DoingLeaves DEF Judged
  <2>3. CASE wrk' = Rest(item) /\ UNCHANGED mem
    <3>1. wrk'.batch = wrk.batch \ {item} /\ wrk'.at \in {"gc", "batch"}
      BY <2>3, RestFields DEF Types
    <3>2. Leaving(item) /\ wrk'.at \in Resting
      BY <2>0, <3>1 DEF Leaving, Resting
    <3>3. mem' = mem
      BY <2>3
    <3> QED BY <1>0, <3>2, <3>3 DEF Judged
  <2>4. CASE mem' = WrittenOff /\ Doing(item, "persist", "abandoned")
    BY <1>0, <2>0, <2>1, <2>4, DoingLeaves, WrittenOffFields DEF Judged
  <2> QED BY <1>8, <2>2, <2>3, <2>4 DEF Abandon
<1> QED BY <1>0, <1>1, <1>2, <1>3, <1>4, <1>5, <1>6, <1>7, <1>8 DEF Transitions

\* Without failing writes, a transition's writes only finish it.
LEMMA ApplyEffect ==
  ASSUME Types, "db" \notin Faults, Apply, wrk.at # "unstamp"
  PROVE  /\ UNCHANGED <<onChain, call, lock, mem, boots, registered>>
         /\ wrk.at \notin Resting /\ wrk.item \in Item
         /\ queue' \subseteq queue /\ wrk'.batch \subseteq wrk.batch
         /\ wrk'.at \notin Resting => wrk'.item = wrk.item /\ wrk'.doing = wrk.doing
         /\ wrk'.at = "unstamp" => wrk.doing \in Residual
<1>0. UNCHANGED <<onChain, call, lock, mem, boots, registered>>
      /\ WorkerOK /\ queue \subseteq Item
  BY DEF Types, RestOK, Apply, Persist, PersistFails, Record, ClearPending, StorePending,
         StorePendingFails, Settle, Unstamp, WorkerAt, books, Shared
<1>1. wrk.at \in {"persist", "record", "clear", "store", "settle"} /\ wrk.at \notin Resting
  BY DEF Apply, Persist, PersistFails, Record, ClearPending, StorePending,
         StorePendingFails, Settle, Unstamp, WorkerAt, Resting
<1>2. wrk.item \in Item
  BY <1>0, <1>1, WorkerFields
<1>3. ASSUME Applied(wrk.item)
      PROVE  queue' \subseteq queue /\ wrk'.batch \subseteq wrk.batch /\ wrk'.at \in Resting
             /\ wrk'.at # "unstamp"
  <2>1. queue' \subseteq queue /\ wrk' = Rest(wrk.item)
    BY <1>0, <1>2, <1>3, AppliedOK
  <2> QED BY <1>0, <2>1, RestFields DEF Resting
<1>4. ASSUME UNCHANGED queue, NEW at \in Stages, WorkerGoes(at)
      PROVE  queue' \subseteq queue /\ wrk'.batch \subseteq wrk.batch /\ wrk'.at = at
             /\ wrk'.item = wrk.item /\ wrk'.doing = wrk.doing
  BY <1>0, <1>4, GoesFields
<1>5. \/ Applied(wrk.item)
      \/ UNCHANGED queue /\ \E at \in {"record", "clear", "settle"} : WorkerGoes(at)
      \/ UNCHANGED queue /\ WorkerGoes("unstamp") /\ wrk.doing \in Residual
      \/ UNCHANGED queue /\ \E set : wrk' = [wrk EXCEPT !.at = "store", !.snap = set]
  BY <1>1 DEF Apply, Persist, PersistFails, Record, ClearPending, StorePending,
         StorePendingFails, Settle, Unstamp, WorkerAt, Residual
<1>6. {"record", "clear", "settle", "unstamp"} \subseteq Stages
  BY DEF Stages
<1>7. ASSUME NEW set, wrk' = [wrk EXCEPT !.at = "store", !.snap = set]
      PROVE  wrk'.batch = wrk.batch /\ wrk'.at = "store" /\ wrk'.item = wrk.item
             /\ wrk'.doing = wrk.doing
  BY <1>0, <1>7 DEF WorkerOK, WorkerT
<1> QED BY <1>0, <1>1, <1>2, <1>3, <1>4, <1>5, <1>6, <1>7

-----------------------------------------------------------------------------
(* The ledger's invariant *)

\* A swap is booked once, and only when it landed.
Fate == \A s \in Sigs : mem.booked[s] \in {0, 1} /\ (mem.booked[s] = 1 => chain[s] = "landed")

\* Once it is booked, nothing follows it to book it again.
Seen == \A s \in Fills : mem.booked[s] = 1 => ~AtCall(s) /\ ~Queued(s) /\ ~Polling(s)

\* A full close takes all there is, and after it there is nothing more to sell.
Closes ==
    /\ \A s \in Used : swap[s].op = "close" =>
          /\ chain[s] = "sent" => swap[s].lots >= wallet
          /\ chain[s] = "landed" => wallet = 0
          /\ mem.booked[s] = 1 => mem.verified
    /\ \A c \in Callers : call[c].at = "swap" /\ call[c].op = "close" => call[c].lots >= wallet

NoResidual == wrk.at \notin Resting => wrk.doing \notin Residual /\ wrk.at # "unstamp"

LedgerInv == Types /\ Given /\ OnePlace /\ Fate /\ Seen /\ Closes /\ NoResidual

\* No write fails and no crash comes; and full closes are not mixed with adds, nor
\* with wallets split over several accounts.
Undisturbed == "db" \notin Faults /\ MaxBoots = 0
Separate == "close" \notin Ops \/ ("dca" \notin Ops /\ "split" \notin Faults)

\* What holds of a swap's places from one step to the next.
Kept(s) ==
    /\ AtCall(s)' => AtCall(s)
    /\ Queued(s)' => Queued(s)
    /\ Polling(s)' => Polling(s)
    /\ AtWork(s)' => AtWork(s)

LEMMA KeptPlaces ==
  ASSUME OnePlace, Seen, Fills' = Fills, mem'.booked = mem.booked,
         \A s \in Fills : Kept(s),
         queue' \subseteq queue, wrk'.batch \subseteq wrk.batch
  PROVE  OnePlace' /\ Seen'
<1>1. OnePlace'
  BY DEF OnePlace, Kept
<1>2. Seen'
  BY DEF Seen, Kept
<1> QED BY <1>1, <1>2

LEMMA LedgerInit ==
  ASSUME Init
  PROVE  LedgerInv
<1>1. Types /\ Given /\ OnePlace /\ Used = {}
  BY InitTypes, GivenInit
<1>2. Fate /\ Closes /\ NoResidual /\ Seen
  BY <1>1 DEF Init, Fate, Closes, NoResidual, Seen, Fills, Resting, IdleCall
<1> QED BY <1>1, <1>2 DEF LedgerInv

LEMMA SubmitPlaces ==
  ASSUME LedgerInv, NEW c \in Callers, SwapSubmits(c)
  PROVE  OnePlace' /\ Seen' /\ Fate'
<1>0. ChainOK /\ CallsOK /\ Types /\ Given /\ OnePlace /\ Seen /\ Fate
  BY DEF LedgerInv, Types
<1>n. PICK n \in Sigs : n = NextSig
  BY <1>0, SubmitsOK
<1>1. /\ n \in Sigs /\ n # None /\ n \notin Used /\ mem.booked[n] = 0
      /\ Used' = Used \cup {n} /\ \A s \in Used : swap'[s] = swap[s] /\ chain'[s] = chain[s]
      /\ \A s \in Sigs : s # n => chain'[s] = chain[s]
  BY <1>0, <1>n, SubmitsOK DEF Used, Fate
<1>2. /\ call'[c].sig = n /\ \A d \in Callers : d # c => call'[d] = call[d]
      /\ call[c].sig = None /\ UNCHANGED <<queue, wrk, mem>>
  BY <1>0, <1>n, SubmitsOK DEF Given, CallGiven, books
<1>3. \A s \in Fills' : s \in Fills \/ s = n
  BY <1>1 DEF Fills
<1>4. ~Queued(n)' /\ ~Polling(n)' /\ ~AtWork(n)'
  BY <1>0, <1>1, <1>2 DEF Given, Queued, Polling, AtWork
<1>5. \A s \in Used : Kept(s)
  BY <1>0, <1>1, <1>2 DEF Kept, AtCall, Queued, Polling, AtWork
<1>6. \A s \in Fills : s \in Used
  BY DEF Fills
<1>7. OnePlace'
  <2>1. ASSUME NEW s \in Fills', s # n
        PROVE  /\ AtCall(s)' => ~Queued(s)' /\ ~Polling(s)' /\ ~AtWork(s)'
               /\ Queued(s)' => ~Polling(s)' /\ ~AtWork(s)'
               /\ Polling(s)' => ~AtWork(s)'
               /\ \A i, j \in queue' : i.sig = s /\ j.sig = s => i = j
               /\ \A i, j \in wrk'.batch : i.sig = s /\ j.sig = s => i = j
    BY <1>0, <1>2, <1>3, <1>5, <1>6, <2>1 DEF OnePlace, Kept
  <2>2. /\ \A i, j \in queue' : i.sig = n /\ j.sig = n => i = j
        /\ \A i, j \in wrk'.batch : i.sig = n /\ j.sig = n => i = j
    BY <1>4 DEF Queued, Polling
  <2> QED BY <1>4, <2>1, <2>2 DEF OnePlace
<1>8. Seen'
  BY <1>0, <1>1, <1>2, <1>3, <1>5, <1>6 DEF Seen, Kept
<1>9. Fate'
  BY <1>0, <1>n, <1>1, <1>2, SubmitsOK DEF Fate
<1> QED BY <1>7, <1>8, <1>9

LEMMA EnqueuePlaces ==
  ASSUME LedgerInv, NEW c \in Callers, enqueue_verification(c)
  PROVE  OnePlace' /\ Seen'
<1>0. ChainOK /\ CallsOK /\ RestOK /\ Types /\ Given /\ OnePlace /\ Seen
  BY DEF LedgerInv, Types
<1>n. PICK n \in Sigs : n = call[c].sig
  BY <1>0, CallFields DEF enqueue_verification
<1>1. call[c].at = "submitted" /\ Leaves(c) /\ UNCHANGED <<onChain, wrk, mem>>
  BY DEF enqueue_verification, books
<1>2. call'[c].sig = None /\ \A d \in Callers : d # c => call'[d] = call[d] /\ call[d].sig # n
  <2>1. call'[c] = IdleCall /\ \A d \in Callers : d # c => call'[d] = call[d]
    BY <1>0, <1>1, LeavesOK DEF RestOK
  <2>2. \A d \in Callers : d # c => call[d].sig # n
    BY <1>0, <1>n DEF Given
  <2> QED BY <2>1, <2>2, IdleOK
<1>3. PICK j : j.sig = n /\ (queue' = queue \/ (queue' = queue \cup {j} /\ ~Queued(n)))
  <2> DEFINE j == NewItem(n, call[c].op # "close" \/ is_position_open)
  <2>1. j.sig = n
    BY DEF NewItem
  <2>2. queue' = enqueue(queue, j)
    BY <1>n DEF enqueue_verification
  <2> HIDE DEF j
  <2>3. queue' = queue \/ (queue' = queue \cup {j} /\ ~Queued(n))
    BY <2>1, <2>2 DEF enqueue, Queued
  <2> QED BY <2>1, <2>3
<1>4. AtCall(n) /\ ~AtCall(n)'
  <2>1. AtCall(n)
    BY <1>n DEF AtCall
  <2>2. ~AtCall(n)'
    BY <1>1, <1>2 DEF AtCall
  <2> QED BY <2>1, <2>2
<1>5. Fills' = Fills /\ \A s \in Sigs : s # n => Kept(s)
  <2>1. Fills' = Fills
    BY <1>1 DEF Fills, Used, onChain
  <2>2. ASSUME NEW s \in Sigs, s # n PROVE Kept(s)
    BY <1>1, <1>2, <1>3, <2>2 DEF Kept, AtCall, Queued, Polling, AtWork
  <2> QED BY <2>1, <2>2
<1>6. Polling(n)' = Polling(n) /\ AtWork(n)' = AtWork(n)
  BY <1>1 DEF Polling, AtWork
<1>7. \A s \in Fills : s \in Sigs
  BY DEF Fills, Used
<1>8. OnePlace'
  <2>1. ASSUME NEW s \in Fills, s # n
        PROVE  /\ AtCall(s)' => ~Queued(s)' /\ ~Polling(s)' /\ ~AtWork(s)'
               /\ Queued(s)' => ~Polling(s)' /\ ~AtWork(s)'
               /\ Polling(s)' => ~AtWork(s)'
               /\ \A i, k \in queue' : i.sig = s /\ k.sig = s => i = k
               /\ \A i, k \in wrk'.batch : i.sig = s /\ k.sig = s => i = k
    <3>1. Kept(s)
      BY <1>5, <1>7, <2>1
    <3>2. \A i \in queue' : i.sig = s => i \in queue
      BY <1>3, <2>1
    <3> QED BY <1>0, <1>1, <3>1, <3>2 DEF OnePlace, Kept
  <2>2. ASSUME n \in Fills
        PROVE  /\ ~AtCall(n)' /\ ~Polling(n)' /\ ~AtWork(n)'
               /\ \A i, k \in queue' : i.sig = n /\ k.sig = n => i = k
               /\ \A i, k \in wrk'.batch : i.sig = n /\ k.sig = n => i = k
    <3>1. ~Queued(n) /\ ~Polling(n) /\ ~AtWork(n)
      BY <1>0, <1>4, <2>2 DEF OnePlace
    <3> QED BY <1>1, <1>3, <1>4, <1>6, <3>1 DEF Queued, Polling
  <2> QED BY <1>5, <2>1, <2>2 DEF OnePlace
<1>9. Seen'
  <2>1. n \in Fills => mem.booked[n] # 1
    BY <1>0, <1>4 DEF Seen
  <2> QED BY <1>0, <1>1, <1>5, <1>7, <2>1 DEF Seen, Kept
<1> QED BY <1>8, <1>9

\* The callers' other steps leave the places as they were, or give one up.
LEMMA CallerPlaces ==
  ASSUME LedgerInv, NEW c \in Callers, Caller(c), ~SwapSubmits(c), ~enqueue_verification(c)
  PROVE  /\ OnePlace' /\ Seen' /\ Fate' /\ mem'.booked = mem.booked
         /\ mem'.verified = mem.verified
         /\ UNCHANGED <<onChain, wrk, queue>>
<1>0. ChainOK /\ CallsOK /\ RestOK /\ Types /\ Given /\ OnePlace /\ Seen /\ Fate
  BY DEF LedgerInv, Types
<1>f. call[c].at \notin {"idle", "swap"} => call[c].sig \in Sigs
  BY <1>0, CallFields
<1>1. UNCHANGED <<onChain, wrk, queue>>
  BY DEF Caller, CallerWorks, PartialBegin, DcaBegin, CloseBegin, SwapFails, RegisterPending,
         PersistPending, PersistPendingFails, DcaWithoutPrice, StampExit
<1>2. mem'.booked = mem.booked /\ mem'.verified = mem.verified
  <2>1. mem' = mem \/ mem' = [mem EXCEPT !.exitSig = call[c].sig]
    BY DEF Caller, CallerWorks, PartialBegin, DcaBegin, CloseBegin, SwapFails, RegisterPending,
           PersistPending, PersistPendingFails, DcaWithoutPrice, StampExit, books
  <2> QED BY <1>0, <2>1 DEF RestOK, Position
<1>3. \A d \in Callers : d # c => call'[d] = call[d]
  <2>1. CASE PartialBegin(c) \/ DcaBegin(c) \/ CloseBegin(c)
    BY <1>0, <2>1, BeginsOK, StartsOK
  <2>2. CASE RegisterPending(c)
    BY <1>0, <2>2, RegistersOK
  <2>3. CASE PersistPending(c) \/ StampExit(c)
    BY <1>0, <1>f, <2>3, GoesOK DEF PersistPending, StampExit
  <2>4. CASE PersistPendingFails(c) \/ SwapFails(c) \/ DcaWithoutPrice(c)
    BY <1>0, <2>4, LeavesOK DEF PersistPendingFails, SwapFails, DcaWithoutPrice, RestOK
  <2> QED BY <2>1, <2>2, <2>3, <2>4 DEF Caller, CallerWorks
<1>4. call'[c].sig \in {call[c].sig, None}
  <2>1. CASE PartialBegin(c) \/ DcaBegin(c) \/ CloseBegin(c)
    BY <1>0, <2>1, BeginsOK, StartsOK
  <2>2. CASE RegisterPending(c)
    BY <1>0, <2>2, RegistersOK
  <2>3. CASE PersistPending(c) \/ StampExit(c)
    BY <1>0, <1>f, <2>3, GoesOK DEF PersistPending, StampExit
  <2>4. CASE PersistPendingFails(c) \/ SwapFails(c) \/ DcaWithoutPrice(c)
    BY <1>0, <2>4, LeavesOK, IdleOK DEF PersistPendingFails, SwapFails, DcaWithoutPrice, RestOK
  <2> QED BY <2>1, <2>2, <2>3, <2>4 DEF Caller, CallerWorks
<1>5. Fills' = Fills /\ \A s \in Fills : s # None /\ Kept(s)
  <2>1. Fills' = Fills /\ \A s \in Fills : s # None
    BY <1>1, NoneIsNoSig DEF Fills, Used, onChain
  <2>2. ASSUME NEW s \in Fills PROVE Kept(s)
    BY <1>1, <1>3, <1>4, <2>1 DEF Kept, AtCall, Queued, Polling, AtWork
  <2> QED BY <2>1, <2>2
<1>6. OnePlace' /\ Seen'
  BY <1>0, <1>1, <1>2, <1>5, KeptPlaces
<1>7. Fate'
  BY <1>0, <1>1, <1>2 DEF Fate, onChain
<1> QED BY <1>1, <1>2, <1>6, <1>7

LEMMA CallerCloses ==
  ASSUME LedgerInv, Separate, NEW c \in Callers, Caller(c)
  PROVE  Closes'
<1>0. ChainOK /\ CallsOK /\ RestOK /\ Types /\ Given /\ Closes /\ Fate
  BY DEF LedgerInv, Types
<1>f. call[c].at \notin {"idle", "swap"} => call[c].sig \in Sigs
  BY <1>0, CallFields
<1>1. CASE PartialBegin(c) \/ DcaBegin(c) \/ CloseBegin(c)
  <2>1. PICK op \in Ops, lots \in Nat :
            /\ Starts(c, op, lots)
            /\ op = "close" => lots = wallet \/ "split" \in Faults
            /\ UNCHANGED <<onChain, mem>>
    BY <1>0, <1>1, BeginsOK DEF books
  <2>2. /\ call'[c].op = op /\ call'[c].lots = lots
        /\ \A d \in Callers : d # c => call'[d] = call[d]
    BY <1>0, <2>1, StartsOK
  <2>3. op = "close" => lots >= wallet
    BY <2>1 DEF Separate
  <2> QED BY <1>0, <2>1, <2>2, <2>3 DEF Closes, Used, onChain
<1>2. CASE SwapSubmits(c)
  <2>n. PICK n \in Sigs : n = NextSig
    BY <1>0, <1>2, SubmitsOK
  <2>1. /\ call[c].at = "swap" /\ swap'[n].op = call[c].op /\ swap'[n].lots = call[c].lots
        /\ chain[n] = "unused" /\ chain'[n] = "sent" /\ Used' = Used \cup {n}
        /\ \A s \in Sigs : s # n => swap'[s] = swap[s] /\ chain'[s] = chain[s]
        /\ call'[c].at # "swap" /\ \A d \in Callers : d # c => call'[d] = call[d]
        /\ UNCHANGED <<wallet, mem>>
    BY <1>0, <1>2, <2>n, SubmitsOK DEF Used, books
  <2>2. mem.booked[n] # 1
    BY <1>0, <2>1 DEF Fate
  <2>3. \A s \in Used : s \in Sigs /\ s # n
    BY <2>1 DEF Used
  <2> QED BY <1>0, <2>1, <2>2, <2>3 DEF Closes
<1>3. CASE ~SwapSubmits(c) /\ ~(PartialBegin(c) \/ DcaBegin(c) \/ CloseBegin(c))
  <2>1. UNCHANGED onChain /\ mem'.booked = mem.booked /\ mem'.verified = mem.verified
    <3>1. CASE enqueue_verification(c)
      BY <3>1 DEF enqueue_verification, books
    <3>2. CASE ~enqueue_verification(c)
      BY <1>3, <3>2, CallerPlaces
    <3> QED BY <3>1, <3>2
  <2>2. call'[c].at # "swap" /\ \A d \in Callers : d # c => call'[d] = call[d]
    <3>2. CASE RegisterPending(c)
      BY <1>0, <3>2, RegistersOK
    <3>3. CASE PersistPending(c) \/ StampExit(c)
      BY <1>0, <1>f, <3>3, GoesOK DEF PersistPending, StampExit
    <3>4. CASE PersistPendingFails(c) \/ SwapFails(c) \/ DcaWithoutPrice(c)
               \/ enqueue_verification(c)
      BY <1>0, <3>4, LeavesOK, IdleOK
         DEF PersistPendingFails, SwapFails, DcaWithoutPrice, enqueue_verification, RestOK
    <3> QED BY <1>3, <3>2, <3>3, <3>4 DEF Caller, CallerWorks
  <2> QED BY <1>0, <2>1, <2>2 DEF Closes, Used, onChain
<1> QED BY <1>1, <1>2, <1>3

LEMMA CallerLedger ==
  ASSUME LedgerInv, Separate, NEW c \in Callers, Caller(c)
  PROVE  LedgerInv'
<1>1. Types' /\ Given' /\ Closes'
  BY CallerTypes, GivenCaller, CallerCloses DEF LedgerInv
<1>2. OnePlace' /\ Seen' /\ Fate' /\ UNCHANGED wrk
  <2>1. CASE SwapSubmits(c)
    BY <2>1, SubmitPlaces DEF SwapSubmits
  <2>2. CASE enqueue_verification(c)
    BY <2>2, EnqueuePlaces DEF enqueue_verification, LedgerInv, Fate, books, onChain
  <2>3. CASE ~SwapSubmits(c) /\ ~enqueue_verification(c)
    BY <2>3, CallerPlaces
  <2> QED BY <2>1, <2>2, <2>3
<1> QED BY <1>1, <1>2 DEF LedgerInv, NoResidual

LEMMA ChainLedger ==
  ASSUME LedgerInv, Separate, NEW s \in Sigs, Lands(s) \/ Dies(s)
  PROVE  LedgerInv'
<1>0. ChainOK /\ CallsOK /\ RestOK /\ Types /\ Given /\ OnePlace /\ Seen /\ Fate /\ Closes
      /\ NoResidual
  BY DEF LedgerInv, Types
<1>1. /\ chain[s] = "sent" /\ chain'[s] \in {"landed", "failed", "lost"}
      /\ swap' = swap /\ Used' = Used /\ \A t \in Sigs : t # s => chain'[t] = chain[t]
      /\ UNCHANGED <<mem, queue, wrk, call>> /\ wallet' \in Nat /\ s \in Used
  BY <1>0, DecidesOK DEF books, Used
<1>2. Types'
  BY <1>0, ChainTypes
<1>3. Given'
  BY <1>0, <1>1 DEF Given, CallGiven
<1>4. OnePlace' /\ Seen'
  BY <1>0, <1>1 DEF OnePlace, Seen, Fills, AtCall, Queued, Polling, AtWork
<1>5. Fate'
  BY <1>0, <1>1 DEF Fate
<1>6. Closes'
  <2>1. swap[s].op \in Ops /\ swap[s].lots \in Nat /\ wallet \in Nat
    BY <1>0, <1>1 DEF ChainOK
  <2>2. mem.booked[s] # 1
    BY <1>0, <1>1 DEF Fate
  <2>3. CASE Dies(s)
    <3>1. wallet' = wallet /\ chain'[s] \in {"failed", "lost"}
      BY <1>0, <2>3 DEF Dies, ChainOK
    <3> QED BY <1>0, <1>1, <2>2, <3>1 DEF Closes, Used
  <2>4. CASE Lands(s) /\ swap[s].op = "dca"
    <3>1. \A t \in Used : swap[t].op # "close"
      BY <1>0, <2>1, <2>4 DEF Separate, ChainOK
    <3>2. \A c \in Callers : ~(call[c].at = "swap" /\ call[c].op = "close")
      BY <1>0, <2>1, <2>4, CallFields DEF Separate
    <3> QED BY <1>1, <3>1, <3>2 DEF Closes
  <2>5. CASE Lands(s) /\ swap[s].op # "dca"
    <3>1. swap[s].lots <= wallet /\ wallet' = wallet - swap[s].lots /\ wallet' <= wallet
      BY <2>1, <2>5 DEF Lands
    <3>2. swap[s].op = "close" => wallet' = 0
      BY <1>0, <1>1, <2>1, <3>1 DEF Closes
    <3>3. \A t \in Used : swap[t].lots \in Nat /\ t \in Sigs
      BY <1>0 DEF ChainOK, Used
    <3>4. \A c \in Callers : call[c].lots \in Nat
      BY <1>0, CallFields
    <3>5. wallet = 0 => wallet' = 0
      BY <1>1, <2>1, <3>1
    <3> QED BY <1>0, <1>1, <2>1, <2>2, <3>1, <3>2, <3>3, <3>4, <3>5 DEF Closes
  <2> QED BY <2>3, <2>4, <2>5
<1> QED BY <1>0, <1>1, <1>2, <1>3, <1>4, <1>5, <1>6 DEF LedgerInv, NoResidual


-----------------------------------------------------------------------------
(* The worker keeps the ledger *)

\* A step of the worker that changes neither books nor chain nor callers.
LEMMA CycleKeeps ==
  ASSUME LedgerInv, UNCHANGED <<onChain, books, call>>, Types', NoResidual', Given',
         OnePlace', Seen'
  PROVE  LedgerInv'
<1>1. Fate' /\ Closes'
  BY DEF LedgerInv, Fate, Closes, Used, onChain, books
<1> QED BY <1>1 DEF LedgerInv

LEMMA GuardLedger ==
  ASSUME LedgerInv, Guard
  PROVE  LedgerInv'
<1>0. Types /\ Given /\ OnePlace /\ Seen /\ WorkerOK
  BY DEF LedgerInv, Types
<1>1. /\ queue \subseteq queue'
      /\ \A i \in queue' : i \in queue \/ i.sig = mem.exitSig
      /\ wrk.at = "cycle" /\ wrk' = [wrk EXCEPT !.at = "gc"]
      /\ UNCHANGED <<onChain, books, call>>
  BY <1>0, GuardAdds
<1>2. wrk'.at = "gc" /\ wrk'.batch = wrk.batch
  BY <1>0, <1>1 DEF WorkerOK, WorkerT
<1>i. \A i \in queue' : i.sig \in Sigs
  BY <1>0, GuardAdds DEF Item
<1>3. \A i \in queue' : i.sig \in Used /\ (i.sig \in Fills => i \in queue)
  <2>1. ASSUME NEW i \in queue', i \notin queue
        PROVE  i.sig \in Used /\ i.sig \notin Fills
    <3>1. i.sig = mem.exitSig /\ mem.exitSig # None
      BY <1>1, <1>i, <2>1
    <3> QED BY <1>0, <3>1 DEF Given, Fills, Kinds
  <2> QED BY <1>0, <2>1 DEF Given
<1>4. Given'
  BY <1>0, <1>1, <1>2, <1>3 DEF Given, CallGiven, Used, onChain, books, Resting
<1>5. Fills' = Fills
  BY <1>1 DEF Fills, Used, onChain
<1>6. \A s \in Fills : /\ AtCall(s)' = AtCall(s) /\ Polling(s)' = Polling(s)
                       /\ Queued(s)' => Queued(s)
                       /\ ~AtWork(s)'
  BY <1>1, <1>2, <1>3 DEF AtCall, Polling, Queued, AtWork, Resting
<1>7. OnePlace'
  BY <1>0, <1>2, <1>3, <1>5, <1>6 DEF OnePlace
<1>8. Seen'
  BY <1>0, <1>1, <1>5, <1>6 DEF Seen, books
<1>9. NoResidual'
  BY <1>2 DEF NoResidual, Resting
<1> QED BY <1>0, <1>1, <1>4, <1>7, <1>8, <1>9, CycleTypes, CycleKeeps

LEMMA RenewLedger ==
  ASSUME LedgerInv, NEW item \in queue, RenewExit(item)
  PROVE  LedgerInv'
<1>0. Types /\ Given /\ OnePlace /\ Seen /\ NoResidual
  BY DEF LedgerInv
<1>1. UNCHANGED <<onChain, books, call, wrk>>
  BY DEF RenewExit
<1>2. PICK j : j.sig = item.sig /\ (queue' = queue \ {item} \/ queue' = (queue \ {item}) \cup {j})
               /\ ((\E i \in queue \ {item} : i.sig = item.sig) => queue' = queue \ {item})
  <2> DEFINE j == NewItem(item.sig, item.known)
  <2>1. j.sig = item.sig
    BY DEF NewItem
  <2>2. queue' = enqueue(queue \ {item}, j)
    BY DEF RenewExit
  <2> HIDE DEF j
  <2> QED BY <2>1, <2>2 DEF enqueue
<1>3. Given'
  BY <1>0, <1>1, <1>2 DEF Given, CallGiven, Used, onChain, books
<1>4. Fills' = Fills
  BY <1>1 DEF Fills, Used, onChain
<1>5. \A s \in Fills : AtCall(s)' = AtCall(s) /\ Polling(s)' = Polling(s) /\ AtWork(s)' = AtWork(s)
  BY <1>1 DEF AtCall, Polling, AtWork
<1>6. \A s \in Fills : Queued(s)' => Queued(s)
  BY <1>2 DEF Queued
<1>7. OnePlace'
  <2>1. ASSUME NEW s \in Fills, NEW i \in queue', NEW k \in queue', i.sig = s, k.sig = s
        PROVE  i = k
    <3>1. s # item.sig => i \in queue /\ k \in queue
      BY <1>2, <2>1
    <3>2. s = item.sig => (i = j /\ k = j) \/ (i \in queue \ {item} /\ k \in queue \ {item})
      BY <1>2, <2>1
    <3> QED BY <1>0, <2>1, <3>1, <3>2 DEF OnePlace
  <2> QED BY <1>0, <1>1, <1>4, <1>5, <1>6, <2>1 DEF OnePlace
<1>8. Seen'
  BY <1>0, <1>1, <1>4, <1>5, <1>6 DEF Seen, books
<1>9. NoResidual'
  BY <1>0, <1>1 DEF NoResidual
<1>t. Types'
  BY <1>0, CycleTypes DEF Collect
<1> QED BY <1>1, <1>3, <1>7, <1>8, <1>9, <1>t, CycleKeeps

LEMMA ExpireLedger ==
  ASSUME LedgerInv, NEW item \in queue, ExpireDca(item)
  PROVE  LedgerInv'
<1>0. Types /\ Given /\ OnePlace /\ Seen /\ WorkerOK /\ queue \subseteq Item
  BY DEF LedgerInv, Types, RestOK
<1>1. /\ wrk'.at = "clear" /\ wrk'.batch = {} /\ wrk'.item = item /\ wrk'.doing = "expired"
      /\ wrk.at = "gc" /\ queue' = queue \ {item} /\ UNCHANGED <<onChain, books, call>>
  BY <1>0, ExpireFields
<1>2. Given'
  BY <1>0, <1>1 DEF Given, CallGiven, Used, onChain, books
<1>3. Fills' = Fills
  BY <1>1 DEF Fills, Used, onChain
<1>4. \A s \in Fills : AtCall(s)' = AtCall(s) /\ ~Polling(s)' /\ (Queued(s)' => Queued(s))
                       /\ (AtWork(s)' => Queued(s) /\ ~Queued(s)' /\ ~AtCall(s))
  <2>1. ASSUME NEW s \in Fills
        PROVE  AtCall(s)' = AtCall(s) /\ ~Polling(s)' /\ (Queued(s)' => Queued(s))
    BY <1>1 DEF AtCall, Polling, Queued
  <2>2. ASSUME NEW s \in Fills, AtWork(s)'
        PROVE  Queued(s) /\ ~Queued(s)' /\ ~AtCall(s)
    <3>1. item.sig = s
      BY <1>1, <2>2 DEF AtWork
    <3>2. Queued(s) /\ ~AtCall(s)
      BY <1>0, <3>1 DEF Queued, OnePlace
    <3>3. ~Queued(s)'
      BY <1>0, <1>1, <3>1 DEF OnePlace, Queued
    <3> QED BY <3>2, <3>3
  <2> QED BY <2>1, <2>2
<1>5. OnePlace'
  BY <1>0, <1>1, <1>3, <1>4 DEF OnePlace
<1>6. Seen'
  BY <1>0, <1>1, <1>3, <1>4 DEF Seen, books
<1>7. NoResidual'
  BY <1>1 DEF NoResidual, Residual
<1>t. Types'
  BY <1>0, CycleTypes DEF Collect
<1> QED BY <1>1, <1>2, <1>5, <1>6, <1>7, <1>t, CycleKeeps

LEMMA PollLedger ==
  ASSUME LedgerInv, NEW batch \in SUBSET queue, Poll(batch)
  PROVE  LedgerInv'
<1>0. Types /\ Given /\ OnePlace /\ Seen /\ WorkerOK /\ queue \subseteq Item
  BY DEF LedgerInv, Types, RestOK
<1>1. /\ wrk'.at = "batch" /\ wrk'.batch = batch /\ wrk.batch = {} /\ queue' = queue \ batch
      /\ UNCHANGED <<onChain, books, call>>
  BY <1>0, PollFields
<1>2. Given'
  BY <1>0, <1>1 DEF Given, CallGiven, Used, onChain, books, Resting
<1>3. Fills' = Fills
  BY <1>1 DEF Fills, Used, onChain
<1>4. \A s \in Fills : /\ AtCall(s)' = AtCall(s) /\ ~AtWork(s)' /\ (Queued(s)' => Queued(s))
                       /\ (Polling(s)' => Queued(s) /\ ~Queued(s)')
  <2>1. ASSUME NEW s \in Fills
        PROVE  AtCall(s)' = AtCall(s) /\ ~AtWork(s)' /\ (Queued(s)' => Queued(s))
    BY <1>1 DEF AtCall, AtWork, Queued, Resting
  <2>2. ASSUME NEW s \in Fills, Polling(s)'
        PROVE  Queued(s) /\ ~Queued(s)'
    <3>1. PICK i \in batch : i.sig = s
      BY <1>1, <2>2 DEF Polling
    <3>2. \A k \in queue : k.sig = s => k = i
      BY <1>0, <3>1 DEF OnePlace
    <3> QED BY <1>1, <3>1, <3>2 DEF Queued
  <2> QED BY <2>1, <2>2
<1>5. OnePlace'
  <2>1. ASSUME NEW s \in Fills
        PROVE  /\ \A i, j \in queue' : i.sig = s /\ j.sig = s => i = j
               /\ \A i, j \in wrk'.batch : i.sig = s /\ j.sig = s => i = j
    BY <1>0, <1>1 DEF OnePlace
  <2> QED BY <1>0, <1>3, <1>4, <2>1 DEF OnePlace
<1>6. Seen'
  BY <1>0, <1>1, <1>3, <1>4 DEF Seen, books
<1>7. NoResidual'
  BY <1>1 DEF NoResidual, Resting
<1>t. Types'
  BY <1>0, CycleTypes
<1> QED BY <1>1, <1>2, <1>5, <1>6, <1>7, <1>t, CycleKeeps

LEMMA EndBatchLedger ==
  ASSUME LedgerInv, EndBatch
  PROVE  LedgerInv'
<1>0. Types /\ Given /\ OnePlace /\ Seen /\ WorkerOK
  BY DEF LedgerInv, Types
<1>1. /\ wrk.at = "batch" /\ wrk' = [wrk EXCEPT !.at = "cycle"]
      /\ UNCHANGED <<onChain, books, call, queue>>
  BY DEF EndBatch, WorkerAt, WorkerGoes
<1>2. wrk'.at = "cycle" /\ wrk'.batch = wrk.batch
  BY <1>0, <1>1 DEF WorkerOK, WorkerT
<1>3. Given'
  BY <1>0, <1>1, <1>2 DEF Given, CallGiven, Used, onChain, books, Resting
<1>4. Fills' = Fills
  BY <1>1 DEF Fills, Used, onChain
<1>5. \A s \in Fills : AtCall(s)' = AtCall(s) /\ Polling(s)' = Polling(s)
                       /\ Queued(s)' = Queued(s) /\ ~AtWork(s)'
  BY <1>1, <1>2 DEF AtCall, Polling, Queued, AtWork, Resting
<1>6. OnePlace' /\ Seen'
  BY <1>0, <1>1, <1>2, <1>4, <1>5 DEF OnePlace, Seen, books
<1>7. NoResidual'
  BY <1>2 DEF NoResidual, Resting
<1>t. Types'
  BY <1>0, CycleTypes
<1> QED BY <1>1, <1>3, <1>6, <1>7, <1>t, CycleKeeps

\* Where the swap of a verdict goes: every other one stays where it is.
LEMMA VerdictPlaces ==
  ASSUME LedgerInv, NEW item \in wrk.batch, item \in Item, Leaving(item), wrk.at = "batch",
         UNCHANGED <<onChain, call>>, NEW t \in Sigs, t = item.sig
  PROVE  /\ OnePlace' /\ Fills' = Fills
         /\ \A s \in Sigs : s # t => Kept(s)
         /\ t \in Fills => /\ ~AtCall(t)' /\ ~Polling(t)' /\ Polling(t)
                           /\ wrk'.at \notin Resting => ~Queued(t)'
<1>0. Types /\ Given /\ OnePlace
  BY DEF LedgerInv
<1>1. PICK j : /\ j.sig = t
               /\ queue' \subseteq queue \/ (queue' \subseteq queue \cup {j} /\ wrk'.at \in Resting)
  <2>1. CASE queue' \subseteq queue
    BY <2>1
  <2>2. CASE wrk'.at \in Resting /\ \E j : j.sig = item.sig /\ queue' \subseteq queue \cup {j}
    BY <2>2
  <2> QED BY <2>1, <2>2 DEF Leaving
<1>2. wrk'.batch = wrk.batch \ {item} /\ (wrk'.at \notin Resting => wrk'.item = item)
  BY DEF Leaving
<1>3. Fills' = Fills
  BY DEF Fills, Used, onChain
<1>4. \A s \in Sigs : AtCall(s)' = AtCall(s)
  BY DEF AtCall
<1>5. \A s \in Sigs : s # t => /\ Queued(s)' => Queued(s)
                               /\ Polling(s)' => Polling(s)
                               /\ ~AtWork(s)'
  BY <1>1, <1>2 DEF Queued, Polling, AtWork
<1>6. \A s \in Sigs : s # t => Kept(s)
  BY <1>4, <1>5 DEF Kept
<1>7. Polling(t)
  BY DEF Polling
<1>8. ASSUME t \in Fills
      PROVE  /\ ~AtCall(t)' /\ ~Polling(t)'
             /\ wrk'.at \notin Resting => ~Queued(t)'
             /\ wrk'.at \in Resting => ~AtWork(t)'
             /\ \A i, k \in queue' : i.sig = t /\ k.sig = t => i = k
             /\ \A i, k \in wrk'.batch : i.sig = t /\ k.sig = t => i = k
  <2>1. ~AtCall(t) /\ ~Queued(t) /\ \A i, k \in wrk.batch : i.sig = t /\ k.sig = t => i = k
    BY <1>0, <1>7, <1>8 DEF OnePlace
  <2>2. ~Polling(t)' /\ \A i, k \in wrk'.batch : i.sig = t /\ k.sig = t => i = k
    BY <1>2, <2>1 DEF Polling
  <2>3. \A i, k \in queue' : i.sig = t /\ k.sig = t => i = k
    BY <1>1, <2>1 DEF Queued
  <2>4. wrk'.at \notin Resting => ~Queued(t)'
    BY <1>1, <2>1 DEF Queued
  <2>5. wrk'.at \in Resting => ~AtWork(t)'
    BY DEF AtWork
  <2> QED BY <1>4, <2>1, <2>2, <2>3, <2>4, <2>5
<1>9. OnePlace'
  <2>1. ASSUME NEW s \in Fills, s # t
        PROVE  /\ AtCall(s)' => ~Queued(s)' /\ ~Polling(s)' /\ ~AtWork(s)'
               /\ Queued(s)' => ~Polling(s)' /\ ~AtWork(s)'
               /\ Polling(s)' => ~AtWork(s)'
               /\ \A i, k \in queue' : i.sig = s /\ k.sig = s => i = k
               /\ \A i, k \in wrk'.batch : i.sig = s /\ k.sig = s => i = k
    <3>1. Kept(s) /\ s \in Sigs
      BY <1>6, <2>1 DEF Fills, Used
    <3>2. \A i \in queue' : i.sig = s => i \in queue
      BY <1>1, <2>1
    <3> QED BY <1>0, <1>2, <2>1, <3>1, <3>2 DEF OnePlace, Kept
  <2> QED BY <1>3, <1>8, <2>1 DEF OnePlace
<1> QED BY <1>3, <1>6, <1>7, <1>8, <1>9

LEMMA VerdictLedger ==
  ASSUME LedgerInv, NEW item \in wrk.batch, VerifyRetry(item) \/ Transitions(item)
  PROVE  LedgerInv'
<1>0. Types /\ Given /\ OnePlace /\ Seen /\ Fate /\ Closes /\ mem.booked \in [Sigs -> Nat]
  BY MemFields DEF LedgerInv
<1>1. /\ Leaving(item) /\ Judged(item) /\ wrk.at = "batch" /\ item \in Item
      /\ UNCHANGED <<onChain, call>>
  BY <1>0, VerdictEffect
<1>t. PICK t \in Sigs : t = item.sig
  BY <1>1 DEF Item
<1>2. /\ OnePlace' /\ Fills' = Fills
      /\ \A s \in Sigs : s # t => Kept(s)
      /\ t \in Fills => /\ ~AtCall(t)' /\ ~Polling(t)' /\ Polling(t)
                        /\ wrk'.at \notin Resting => ~Queued(t)'
  BY <1>1, <1>t, VerdictPlaces
<1>3. t \in Used /\ Used' = Used /\ swap' = swap /\ chain' = chain /\ wallet' = wallet
  BY <1>0, <1>1, <1>t DEF Given, Used, onChain
<1>4. \A s \in Used : chain[s] = "landed" /\ swap[s].op = "close" => wallet = 0
  BY <1>0 DEF Closes
<1>w. wallet \in Nat
  BY <1>0 DEF Types, ChainOK
<1>5. Booking(item) => /\ mem.booked[t] = 0 /\ chain[t] = "landed" /\ wrk'.at \notin Resting
                       /\ \/ swap[t].op \in Kinds /\ mem'.verified = mem.verified
                          \/ mem'.verified
  <2>1. ASSUME Booking(item), swap[t].op \in Kinds PROVE mem.booked[t] = 0
    BY <1>0, <1>2, <1>3, <2>1 DEF Fills, Seen, Fate
  <2>2. ASSUME Booking(item), swap[t].op = "close" PROVE mem.booked[t] = 0 /\ mem'.verified
    <3>1. wallet = 0
      BY <1>3, <1>4, <1>t, <2>2 DEF Booking
    <3>2. ~mem.verified /\ mem'.verified
      BY <1>t, <2>2, <3>1 DEF Booking, Kinds
    <3> QED BY <1>0, <1>3, <2>2, <3>2 DEF Closes, Fate
  <2> QED BY <1>t, <2>1, <2>2 DEF Booking
<1>6. \A s \in Sigs : mem'.booked[s] = mem.booked[s]
                      \/ (s = t /\ Booking(item) /\ mem'.booked[s] = mem.booked[s] + 1)
  BY <1>0, <1>1, <1>t, Counted DEF Judged, Booking
<1>7. Fate'
  BY <1>0, <1>3, <1>5, <1>6 DEF Fate
<1>8. Seen'
  <2>1. ASSUME NEW s \in Fills, s # t, mem'.booked[s] = 1
        PROVE  ~AtCall(s)' /\ ~Queued(s)' /\ ~Polling(s)'
    BY <1>0, <1>2, <1>6, <2>1 DEF Seen, Kept, Fills, Used
  <2>2. ASSUME t \in Fills, mem'.booked[t] = 1
        PROVE  ~AtCall(t)' /\ ~Queued(t)' /\ ~Polling(t)'
    BY <1>0, <1>2, <1>5, <1>6, <2>2 DEF Seen
  <2> QED BY <1>2, <2>1, <2>2 DEF Seen
<1>9. Closes'
  <2>1. ASSUME NEW s \in Used, swap[s].op = "close", mem'.booked[s] = 1
        PROVE  mem'.verified
    <3>1. CASE Booking(item) /\ s = t
      BY <1>5, <2>1, <3>1 DEF Kinds
    <3>2. CASE ~(Booking(item) /\ s = t)
      <4>1. mem.booked[s] = 1 /\ s \in Sigs
        BY <1>6, <2>1, <3>2 DEF Used
      <4>2. mem.verified /\ wallet = 0
        BY <1>0, <1>4, <2>1, <4>1 DEF Closes, Fate
      <4>3. ~(wallet > 0)
        BY <4>2
      <4>4. mem'.verified = mem.verified \/ mem'.verified
        BY <1>1, <4>3 DEF Judged
      <4> QED BY <4>2, <4>4
    <3> QED BY <3>1, <3>2
  <2> QED BY <1>0, <1>1, <1>3, <2>1 DEF Closes
<1>10. NoResidual'
  <2>1. wrk'.doing \in Residual => wrk'.at \in Resting
    BY <1>1, <1>3, <1>4, <1>t, <1>w DEF Judged
  <2> QED BY <1>1, <2>1 DEF NoResidual, Leaving
<1>11. Given'
  <2>1. \A i \in queue' : i \in queue \/ i.sig = t
    BY <1>1, <1>t DEF Leaving
  <2>2. \A i \in wrk'.batch : i \in wrk.batch
    BY <1>1 DEF Leaving
  <2>3. wrk'.at \notin Resting => wrk'.item = item
    BY <1>1 DEF Leaving
  <2>4. mem'.exitSig \in {mem.exitSig, None}
    BY <1>1 DEF Judged
  <2> QED BY <1>0, <1>1, <1>3, <1>t, <2>1, <2>2, <2>3, <2>4 DEF Given, CallGiven
<1>12. Types'
  BY <1>0, VerdictTypes
<1> QED BY <1>2, <1>7, <1>8, <1>9, <1>10, <1>11, <1>12 DEF LedgerInv

LEMMA ApplyLedger ==
  ASSUME LedgerInv, "db" \notin Faults, Apply
  PROVE  LedgerInv'
<1>0. Types /\ Given /\ OnePlace /\ Seen /\ Fate /\ Closes /\ NoResidual
  BY DEF LedgerInv
<1>1. wrk.at # "unstamp"
  BY <1>0 DEF NoResidual, Resting
<1>2. /\ UNCHANGED <<onChain, call, mem>>
      /\ wrk.at \notin Resting /\ wrk.item \in Item
      /\ queue' \subseteq queue /\ wrk'.batch \subseteq wrk.batch
      /\ wrk'.at \notin Resting => wrk'.item = wrk.item /\ wrk'.doing = wrk.doing
      /\ wrk'.at = "unstamp" => wrk.doing \in Residual
  BY <1>0, <1>1, ApplyEffect
<1>3. Fills' = Fills /\ Used' = Used
  BY <1>2 DEF Fills, Used, onChain
<1>4. \A s \in Fills : Kept(s)
  BY <1>2 DEF Kept, AtCall, Queued, Polling, AtWork
<1>5. OnePlace' /\ Seen'
  BY <1>0, <1>2, <1>3, <1>4, KeptPlaces
<1>6. Given' /\ Fate' /\ Closes'
  BY <1>0, <1>2, <1>3 DEF Given, CallGiven, Fate, Closes, onChain
<1>7. NoResidual'
  BY <1>0, <1>2 DEF NoResidual
<1> QED BY <1>0, <1>5, <1>6, <1>7, ApplyTypes DEF LedgerInv

LEMMA StepLedger ==
  ASSUME LedgerInv, Undisturbed, Separate, [Next]_vars
  PROVE  LedgerInv'
<1>1. CASE \E c \in Callers : Caller(c)
  BY <1>1, CallerLedger
<1>2. CASE \E s \in Sigs : Lands(s) \/ Dies(s)
  BY <1>2, ChainLedger
<1>3. CASE Worker
  <2>1. CASE Collect
    BY <2>1, RenewLedger, ExpireLedger DEF Collect
  <2> QED BY <1>3, <2>1, GuardLedger, PollLedger, EndBatchLedger, VerdictLedger, ApplyLedger
       DEF Worker, Verify, Undisturbed
<1>4. CASE Restart
  BY <1>4, RestartOK DEF LedgerInv, Types, RestOK, Undisturbed
<1>5. CASE UNCHANGED vars
  <2>1. UNCHANGED <<onChain, books, call, queue, wrk>>
    BY <1>5 DEF vars
  <2>2. Given' /\ OnePlace' /\ Seen' /\ NoResidual'
    BY <2>1 DEF LedgerInv, Given, CallGiven, OnePlace, Seen, NoResidual, Fills, Used,
                AtCall, Queued, Polling, AtWork, onChain, books
  <2> QED BY <1>5, <2>1, <2>2, StutterTypes, CycleKeeps DEF LedgerInv
<1> QED BY <1>1, <1>2, <1>3, <1>4, <1>5 DEF Next

LEMMA LedgerInvariant ==
  ASSUME Undisturbed, Separate
  PROVE  Spec => []LedgerInv
<1>1. Init => LedgerInv
  BY LedgerInit
<1>2. LedgerInv /\ [Next]_vars => LedgerInv'
  BY StepLedger
<1> QED BY <1>1, <1>2, PTL DEF Spec

-----------------------------------------------------------------------------
(* Booked once *)

\* No swap is booked twice, as long as no write fails and no crash comes
\* (PartialExitVerified: "applying the same partial twice would sell the same
\* tokens twice on paper"; with them it can be, which a run shows).
THEOREM BooksEachSwapOnce ==
  ASSUME Undisturbed, Separate
  PROVE  Spec => []BookedOnce
<1>1. LedgerInv => BookedOnce
  BY DEF LedgerInv, Fate, BookedOnce
<1> QED BY <1>1, LedgerInvariant, PTL

-----------------------------------------------------------------------------
(* The refinement of SwapLedger *)

FateOf == [s \in Sigs |-> IF chain[s] \in {"failed", "lost"} THEN "void" ELSE chain[s]]

\* A step changes the fate and the bookings of one swap, as SwapLedger allows.
LEMMA LedgerStep ==
  ASSUME LedgerInv, Undisturbed, Separate, [Next]_vars
  PROVE  Ledger!Next \/ UNCHANGED <<FateOf, mem.booked>>
<1>0. Types /\ ChainOK /\ RestOK /\ WorkerOK /\ CallsOK /\ mem.booked \in [Sigs -> Nat]
      /\ Fate /\ Fate' /\ Types'
  BY StepLedger, MemFields DEF LedgerInv, Types
<1> DEFINE fate == FateOf
<1>f. /\ \A s \in Sigs : fate[s] = IF chain[s] \in {"failed", "lost"} THEN "void" ELSE chain[s]
      /\ \A s \in Sigs : fate'[s] = IF chain'[s] \in {"failed", "lost"} THEN "void" ELSE chain'[s]
      /\ fate = [s \in Sigs |-> fate[s]] /\ fate' = [s \in Sigs |-> fate'[s]]
  BY DEF FateOf
<1>n. Ledger!Next = \E s \in Sigs :
            \/ fate[s] = "unused" /\ fate' = [fate EXCEPT ![s] = "sent"] /\ UNCHANGED mem.booked
            \/ /\ fate[s] = "sent"
               /\ \E f \in {"landed", "void"} : fate' = [fate EXCEPT ![s] = f]
               /\ UNCHANGED mem.booked
            \/ /\ fate[s] = "landed" /\ mem.booked[s] = 0
               /\ mem.booked' = [mem.booked EXCEPT ![s] = 1] /\ UNCHANGED fate
  BY DEF Ledger!Next, Ledger!Submit, Ledger!Decide, Ledger!Book, FateOf
<1>u. chain' = chain => fate' = fate
  BY DEF FateOf
<1> HIDE DEF fate
<1>1. CASE \E c \in Callers : Caller(c)
  <2>1. PICK c \in Callers : Caller(c)
    BY <1>1
  <2>2. CASE SwapSubmits(c)
    <3>n. PICK n \in Sigs : n = NextSig
      BY <1>0, <2>2, SubmitsOK
    <3>1. chain[n] = "unused" /\ chain'[n] = "sent" /\ mem' = mem
          /\ \A s \in Sigs : s # n => chain'[s] = chain[s]
      BY <1>0, <2>2, <3>n, SubmitsOK DEF books
    <3>2. fate[n] = "unused" /\ fate' = [fate EXCEPT ![n] = "sent"] /\ mem.booked' = mem.booked
      BY <1>f, <3>1
    <3> QED BY <1>n, <3>2
  <2>3. CASE ~SwapSubmits(c)
    <3>1. chain' = chain /\ mem'.booked = mem.booked
      <4>1. CASE enqueue_verification(c)
        BY <4>1 DEF enqueue_verification, onChain, books
      <4>2. CASE ~enqueue_verification(c)
        BY <2>1, <2>3, <4>2, CallerPlaces DEF onChain
      <4> QED BY <4>1, <4>2
    <3> QED BY <1>u, <3>1 DEF fate
  <2> QED BY <2>2, <2>3
<1>2. CASE \E s \in Sigs : Lands(s) \/ Dies(s)
  <2>1. PICK s \in Sigs : Lands(s) \/ Dies(s)
    BY <1>2
  <2>2. chain[s] = "sent" /\ chain'[s] \in {"landed", "failed", "lost"} /\ mem' = mem
        /\ \A t \in Sigs : t # s => chain'[t] = chain[t]
    BY <1>0, <2>1, DecidesOK DEF books
  <2>3. PICK f \in {"landed", "void"} : f = fate'[s]
    BY <1>f, <2>2
  <2>4. fate[s] = "sent" /\ fate' = [fate EXCEPT ![s] = f] /\ mem.booked' = mem.booked
    BY <1>f, <2>2, <2>3
  <2> QED BY <1>n, <2>4
<1>3. CASE Verify
  <2>1. PICK item \in wrk.batch : VerifyRetry(item) \/ Transitions(item)
    BY <1>3 DEF Verify
  <2>2. Judged(item) /\ item \in Item /\ chain' = chain
    BY <1>0, <2>1, VerdictEffect DEF onChain
  <2>3. CASE mem'.booked = mem.booked
    BY <1>u, <2>2, <2>3 DEF fate
  <2>4. CASE Booking(item)
    <3>t. PICK t \in Sigs : t = item.sig
      BY <2>2 DEF Item
    <3>1. mem'.booked = Count(mem.booked, t) /\ chain[t] = "landed"
      BY <2>4, <3>t DEF Booking
    <3>2. mem.booked[t] = 0
      BY <1>0, <3>1, Counted DEF Fate
    <3>3. mem.booked' = [mem.booked EXCEPT ![t] = 1]
      BY <1>0, <3>1, <3>2 DEF Count
    <3>4. fate[t] = "landed" /\ fate' = fate
      BY <1>f, <1>u, <2>2, <3>1
    <3> QED BY <1>n, <3>2, <3>3, <3>4
  <2> QED BY <2>2, <2>3, <2>4 DEF Judged
<1>4. CASE Worker /\ ~Verify
  <2>1. chain' = chain /\ mem' = mem
    <3>1. CASE Apply
      <4>1. wrk.at # "unstamp"
        BY DEF LedgerInv, NoResidual, Resting
      <4> QED BY <1>0, <3>1, <4>1, ApplyEffect DEF onChain, Undisturbed
    <3>2. CASE ~Apply
      BY <1>4, <3>2 DEF Worker, Guard, Collect, RenewExit, ExpireDca, Poll, EndBatch, onChain, books
    <3> QED BY <3>1, <3>2
  <2> QED BY <1>u, <2>1 DEF fate
<1>5. CASE Restart
  BY <1>0, <1>5, RestartOK DEF RestOK, Undisturbed
<1>6. CASE UNCHANGED vars
  BY <1>6, <1>u DEF vars, onChain, books, fate
<1> QED BY <1>1, <1>2, <1>3, <1>4, <1>5, <1>6 DEF Next

\* Only a landed swap is booked, once, and never unbooked: SwapVerification
\* implements SwapLedger, as long as no write fails and no crash comes.
THEOREM ImplementsLedger ==
  ASSUME Undisturbed, Separate
  PROVE  Spec => LedgerSpec
<1>1. Init => Ledger!Init
  BY DEF Init, Ledger!Init
<1>2. LedgerInv /\ [Next]_vars => [Ledger!Next]_(Ledger!vars)
  BY LedgerStep DEF Ledger!vars, FateOf
<1> QED BY <1>1, <1>2, LedgerInvariant, PTL DEF Spec, Ledger!Spec, LedgerSpec

-----------------------------------------------------------------------------
(* One partial exit at a time *)

\* A partial exit that can still move tokens out of the books; out of the wallet too,
\* unless the worker may give up on one the chain has not decided.
Alive(s) ==
    /\ s \in Used /\ swap[s].op = "partial"
    /\ ("late" \notin Faults /\ s \in InFlight) \/ AtCall(s) \/ Queued(s) \/ Polling(s) \/ AtWork(s)

\* A caller that has sized one and not submitted it.
Sizing(c) == call[c].at = "swap" /\ call[c].op = "partial"

\* The counter says whether there is one.
OneAlive ==
    /\ \A s, t \in Sigs : Alive(s) /\ Alive(t) => s = t
    /\ \A c, d \in Callers : Sizing(c) /\ Sizing(d) => c = d
    /\ \A c \in Callers, s \in Sigs : ~(Sizing(c) /\ Alive(s))
    /\ partials \in {0, 1}
    /\ partials = 0 => (\A s \in Sigs : ~Alive(s)) /\ (\A c \in Callers : ~Sizing(c))

\* The worker counts it down once it is booked, and not again.
BookedFirst ==
    /\ wrk.at \notin Resting =>
          /\ wrk.doing = "partial" => swap[wrk.item.sig].op = "partial" /\ mem.booked[wrk.item.sig] = 1
          /\ wrk.doing # "partial_again"
          /\ wrk.at = "record" => wrk.doing \in {"partial", "exit"}
    /\ \A s \in records : s \in Used /\ (s \in Fills => mem.booked[s] = 1)

OneInv == LedgerInv /\ OneAlive /\ BookedFirst

LEMMA OneKept ==
  ASSUME OneAlive, partials' = partials,
         \A s \in Sigs : Alive(s)' => Alive(s),
         \A c \in Callers : Sizing(c)' => Sizing(c)
  PROVE  OneAlive'
  BY DEF OneAlive

\* A swap in one of the places that is no longer one of the chain's is not alive.
LEMMA AliveKept ==
  ASSUME LedgerInv, swap' = swap, Used' = Used, NEW s \in Sigs, Kept(s),
         chain'[s] = "sent" => chain[s] = "sent",
         chain'[s] = "landed" => chain[s] \in {"sent", "landed"},
         mem'.booked[s] # 0 \/ mem'.booked[s] = mem.booked[s]
  PROVE  Alive(s)' => Alive(s)
<1>1. mem.booked[s] \in {0, 1}
  BY DEF LedgerInv, Fate
<1>2. s \in InFlight <=> s \in Used /\ (chain[s] = "sent" \/ (chain[s] = "landed" /\ mem.booked[s] = 0))
  BY DEF InFlight, Unbooked
<1>3. s \in InFlight' <=> s \in Used' /\ (chain'[s] = "sent" \/ (chain'[s] = "landed" /\ mem'.booked[s] = 0))
  BY DEF InFlight, Unbooked
<1>4. s \in InFlight' => s \in InFlight
  BY <1>1, <1>2, <1>3
<1> QED BY <1>4 DEF Alive, Kept

LEMMA OneInit ==
  ASSUME Init
  PROVE  OneInv
<1>1. LedgerInv /\ Used = {}
  BY LedgerInit, GivenInit
<1>2. OneAlive
  BY <1>1 DEF OneAlive, Alive, Sizing, Init, IdleCall
<1>3. BookedFirst
  BY DEF BookedFirst, Init, Resting
<1> QED BY <1>1, <1>2, <1>3 DEF OneInv

\* Only a submitted swap can become alive.
Grows(c) == \A s \in Sigs : Alive(s)' => Alive(s) \/ (SwapSubmits(c) /\ s = NextSig)

\* The counter is 1 while a caller sizes a partial exit or one is alive.
LEMMA OneCaller ==
  ASSUME OneInv, Undisturbed, Separate, NEW c \in Callers, Caller(c)
  PROVE  OneAlive' /\ Grows(c)
<1>0. /\ LedgerInv /\ OneAlive /\ Types /\ ChainOK /\ CallsOK /\ RestOK /\ Given /\ OnePlace
      /\ "db" \notin Faults
  BY DEF OneInv, LedgerInv, Types, Undisturbed
<1>f. /\ call[c].at \notin {"idle", "swap"} => call[c].sig \in Sigs
      /\ call[c].at # "idle" => call[c].op \in Ops
  BY <1>0, CallFields
<1>1. CASE PartialBegin(c) \/ DcaBegin(c) \/ CloseBegin(c)
  <2>1. PICK op \in Ops, lots \in Nat :
            /\ Starts(c, op, lots)
            /\ op = "partial" => partials = 0 /\ partials' = partials + 1
            /\ op # "partial" => UNCHANGED partials
            /\ UNCHANGED <<onChain, books, queue, wrk>>
    BY <1>0, <1>1, BeginsOK
  <2>2. /\ call'[c].at = "swap" /\ call'[c].op = op /\ call'[c].sig = None
        /\ \A d \in Callers : d # c => call'[d] = call[d]
    BY <1>0, <2>1, StartsOK
  <2>3. \A s \in Sigs : Alive(s)' => Alive(s)
    <3>1. ASSUME NEW s \in Sigs PROVE Kept(s)
      BY <2>1, <2>2, NoneIsNoSig DEF Kept, AtCall, Queued, Polling, AtWork
    <3>2. UNCHANGED <<swap, chain, Used, mem>>
      BY <2>1 DEF onChain, books, Used
    <3> QED BY <1>0, <3>1, <3>2, AliveKept
  <2>g. Grows(c)
    BY <2>3 DEF Grows
  <2>4. CASE op = "partial"
    <3>1. (\A s \in Sigs : ~Alive(s)) /\ (\A d \in Callers : ~Sizing(d)) /\ partials' = 1
      BY <1>0, <2>1, <2>4 DEF OneAlive
    <3>2. \A d \in Callers : Sizing(d)' => d = c
      BY <2>2, <3>1 DEF Sizing
    <3> QED BY <2>3, <2>g, <3>1, <3>2 DEF OneAlive
  <2>5. CASE op # "partial"
    <3>1. \A d \in Callers : Sizing(d)' => Sizing(d)
      BY <2>2, <2>5 DEF Sizing
    <3> QED BY <1>0, <2>1, <2>3, <2>5, <2>g, <3>1, OneKept
  <2> QED BY <2>4, <2>5
<1>2. CASE SwapSubmits(c)
  <2>n. PICK n \in Sigs : n = NextSig
    BY <1>0, <1>2, SubmitsOK
  <2>1. /\ call[c].at = "swap" /\ swap'[n].op = call[c].op /\ chain[n] = "unused"
        /\ \A s \in Sigs : s # n => swap'[s] = swap[s] /\ chain'[s] = chain[s]
        /\ call'[c].at # "swap" /\ call'[c].sig = n
        /\ \A d \in Callers : d # c => call'[d] = call[d]
        /\ UNCHANGED <<mem, partials, queue, wrk>>
    BY <1>0, <1>2, <2>n, SubmitsOK DEF books, registry
  <2>2. \A s \in Sigs : s # n => (Alive(s)' => Alive(s))
    BY <2>1 DEF Alive, InFlight, Unbooked, Used, AtCall, Queued, Polling, AtWork
  <2>3. \A d \in Callers : Sizing(d)' => Sizing(d) /\ d # c
    BY <2>1 DEF Sizing
  <2>g. Grows(c)
    BY <1>2, <2>n, <2>2 DEF Grows
  <2>4. CASE call[c].op = "partial"
    <3>1. Sizing(c)
      BY <2>1, <2>4 DEF Sizing
    <3>2. partials = 1 /\ \A s \in Sigs : ~Alive(s)
      BY <1>0, <3>1 DEF OneAlive
    <3>3. \A d \in Callers : ~Sizing(d)'
      BY <1>0, <2>3, <3>1 DEF OneAlive
    <3> QED BY <2>1, <2>2, <2>g, <3>2, <3>3 DEF OneAlive
  <2>5. CASE call[c].op # "partial"
    <3>1. ~Alive(n)'
      BY <2>1, <2>5 DEF Alive
    <3> QED BY <1>0, <2>1, <2>2, <2>3, <2>g, <3>1, OneKept
  <2> QED BY <2>4, <2>5
<1>3. CASE SwapFails(c)
  <2>1. /\ call[c].at = "swap" /\ Leaves(c) /\ UNCHANGED <<onChain, books, queue, wrk>>
        /\ partials' = IF call[c].op = "partial" THEN clear_partial_exit_pending(partials)
                       ELSE partials
    BY <1>3 DEF SwapFails
  <2>2. /\ call'[c].at = "idle" /\ call'[c].sig = None
        /\ \A d \in Callers : d # c => call'[d] = call[d]
    BY <1>0, <2>1, LeavesOK, IdleOK DEF RestOK
  <2>3. \A s \in Sigs : Alive(s)' => Alive(s)
    <3>1. ASSUME NEW s \in Sigs PROVE Kept(s)
      BY <2>1, <2>2, NoneIsNoSig DEF Kept, AtCall, Queued, Polling, AtWork
    <3>2. UNCHANGED <<swap, chain, Used, mem>>
      BY <2>1 DEF onChain, books, Used
    <3> QED BY <1>0, <3>1, <3>2, AliveKept
  <2>4. \A d \in Callers : Sizing(d)' => Sizing(d) /\ d # c
    BY <2>2 DEF Sizing
  <2>g. Grows(c)
    BY <2>3 DEF Grows
  <2>5. CASE call[c].op = "partial"
    <3>1. Sizing(c)
      BY <2>1, <2>5 DEF Sizing
    <3>2. partials = 1 /\ \A s \in Sigs : ~Alive(s)
      BY <1>0, <3>1 DEF OneAlive
    <3>3. \A d \in Callers : ~Sizing(d)'
      BY <1>0, <2>4, <3>1 DEF OneAlive
    <3>4. partials' = 0
      BY <2>1, <2>5, <3>2, CountsDown
    <3> QED BY <2>3, <2>g, <3>2, <3>3, <3>4 DEF OneAlive
  <2>6. CASE call[c].op # "partial"
    BY <1>0, <2>1, <2>3, <2>4, <2>6, <2>g, OneKept
  <2> QED BY <2>5, <2>6
<1>4. CASE \/ RegisterPending(c) \/ PersistPending(c) \/ DcaWithoutPrice(c) \/ StampExit(c)
           \/ enqueue_verification(c)
  <2>1. /\ call[c].at \notin {"idle", "swap"} /\ UNCHANGED <<onChain, wrk, partials>>
        /\ mem' = mem \/ mem' = [mem EXCEPT !.exitSig = call[c].sig]
        /\ \A i \in queue' : i \in queue \/ i.sig = call[c].sig
    BY <1>4 DEF RegisterPending, PersistPending, DcaWithoutPrice, StampExit,
                enqueue_verification, enqueue, NewItem, books, registry
  <2>2. mem'.booked = mem.booked
    BY <1>0, <2>1 DEF RestOK, Position
  <2>3. /\ call'[c].at # "swap" /\ call'[c].sig \in {call[c].sig, None}
        /\ \A d \in Callers : d # c => call'[d] = call[d]
    <3>1. CASE RegisterPending(c)
      BY <1>0, <3>1, RegistersOK
    <3>2. CASE PersistPending(c) \/ StampExit(c)
      BY <1>0, <1>f, <3>2, GoesOK DEF PersistPending, StampExit
    <3>3. CASE DcaWithoutPrice(c) \/ enqueue_verification(c)
      BY <1>0, <3>3, LeavesOK, IdleOK DEF DcaWithoutPrice, enqueue_verification, RestOK
    <3> QED BY <1>4, <3>1, <3>2, <3>3
  <2>4. \A s \in Sigs : Alive(s)' => Alive(s)
    <3>1. \A s \in Sigs : AtCall(s)' => AtCall(s)
      BY <2>3, NoneIsNoSig DEF AtCall
    <3>2. \A s \in Sigs : Queued(s)' => Queued(s) \/ AtCall(s)
      BY <2>1 DEF Queued, AtCall
    <3>3. \A s \in Sigs : Polling(s)' = Polling(s) /\ AtWork(s)' = AtWork(s)
      BY <2>1 DEF Polling, AtWork
    <3>4. InFlight' = InFlight /\ Used' = Used /\ swap' = swap
      BY <2>1, <2>2 DEF InFlight, Unbooked, Used, onChain
    <3> QED BY <3>1, <3>2, <3>3, <3>4 DEF Alive
  <2>5. \A d \in Callers : Sizing(d)' => Sizing(d)
    BY <2>3 DEF Sizing
  <2>g. Grows(c)
    BY <2>4 DEF Grows
  <2> QED BY <1>0, <2>1, <2>4, <2>5, <2>g, OneKept
<1>5. ~PersistPendingFails(c)
  BY <1>0 DEF PersistPendingFails
<1> QED BY <1>1, <1>2, <1>3, <1>4, <1>5 DEF Caller, CallerWorks

LEMMA OneChain ==
  ASSUME OneInv, NEW t \in Sigs, Lands(t) \/ Dies(t)
  PROVE  OneAlive' /\ (\A s \in Sigs : Alive(s)' => Alive(s))
<1>0. LedgerInv /\ OneAlive /\ ChainOK
  BY DEF OneInv, LedgerInv, Types
<1>1. /\ chain[t] = "sent" /\ swap' = swap /\ Used' = Used
      /\ \A s \in Sigs : s # t => chain'[s] = chain[s]
      /\ UNCHANGED <<mem, partials, queue, wrk, call>>
  BY <1>0, DecidesOK DEF books, registry
<1>2. ASSUME NEW s \in Sigs PROVE Alive(s)' => Alive(s)
  <2>1. Kept(s)
    BY <1>1 DEF Kept, AtCall, Queued, Polling, AtWork
  <2>2. (chain'[s] = "sent" => chain[s] = "sent")
        /\ (chain'[s] = "landed" => chain[s] \in {"sent", "landed"})
    BY <1>1
  <2> QED BY <1>0, <1>1, <2>1, <2>2, AliveKept
<1>3. \A c \in Callers : Sizing(c)' => Sizing(c)
  BY <1>1 DEF Sizing
<1> QED BY <1>0, <1>1, <1>2, <1>3, OneKept

\* In the cycle's own steps a partial exit only moves from place to place.
LEMMA OneCycle ==
  ASSUME OneInv, Guard \/ Collect \/ EndBatch \/ \E batch \in SUBSET queue : Poll(batch)
  PROVE  OneAlive' /\ BookedFirst' /\ (\A s \in Sigs : Alive(s)' => Alive(s))
<1>0. /\ LedgerInv /\ OneAlive /\ BookedFirst /\ Types /\ RestOK /\ WorkerOK /\ Given
      /\ queue \subseteq Item
  BY DEF OneInv, LedgerInv, Types, RestOK
<1>1. UNCHANGED <<onChain, books, call, partials>>
  BY DEF Guard, Collect, RenewExit, ExpireDca, EndBatch, Poll, registry
<1>2. /\ \A s \in Sigs : Queued(s)' => Queued(s) \/ (mem.exitSig = s /\ mem.exitSig # None)
      /\ \A s \in Sigs : Polling(s)' => Polling(s) \/ Queued(s)
      /\ \A s \in Sigs : AtWork(s)' => Queued(s) \/ AtWork(s)
      /\ wrk'.at \notin Resting => wrk'.doing = "expired" /\ wrk'.at = "clear"
  <2>1. CASE Guard
    <3>1. /\ \A i \in queue' : i \in queue \/ i.sig = mem.exitSig
          /\ wrk.at = "cycle" /\ wrk' = [wrk EXCEPT !.at = "gc"]
      BY <1>0, <2>1, GuardAdds
    <3>2. wrk'.at = "gc" /\ wrk'.batch = wrk.batch
      BY <1>0, <3>1 DEF WorkerOK, WorkerT
    <3> QED BY <3>1, <3>2, NoneIsNoSig DEF Queued, Polling, AtWork, Resting
  <2>2. ASSUME NEW item \in queue, RenewExit(item)
        PROVE  /\ \A s \in Sigs : Queued(s)' => Queued(s)
               /\ wrk' = wrk /\ wrk.at = "gc"
    <3>1. \A i \in queue' : i \in queue \/ i.sig = item.sig
      BY <2>2 DEF RenewExit, enqueue, NewItem
    <3> QED BY <2>2, <3>1 DEF RenewExit, Queued, WorkerAt
  <2>3. ASSUME NEW item \in queue, ExpireDca(item)
        PROVE  /\ wrk'.at = "clear" /\ wrk'.batch = {} /\ wrk'.item = item /\ wrk'.doing = "expired"
               /\ queue' \subseteq queue
    BY <1>0, <2>3, ExpireFields
  <2>4. ASSUME NEW batch \in SUBSET queue, Poll(batch)
        PROVE  wrk'.at = "batch" /\ wrk'.batch \subseteq queue /\ queue' \subseteq queue
    BY <1>0, <2>4, PollFields
  <2>5. CASE EndBatch
    <3>1. wrk' = [wrk EXCEPT !.at = "cycle"] /\ queue' = queue
      BY <2>5 DEF EndBatch, WorkerGoes
    <3>2. wrk'.at = "cycle" /\ wrk'.batch = wrk.batch
      BY <1>0, <3>1 DEF WorkerOK, WorkerT
    <3> QED BY <3>1, <3>2 DEF Queued, Polling, AtWork, Resting
  <2>6. CASE \E item \in queue : RenewExit(item)
    BY <2>2, <2>6 DEF Polling, AtWork, Resting
  <2>7. CASE \E item \in queue : ExpireDca(item)
    BY <2>3, <2>7 DEF Queued, Polling, AtWork
  <2>8. CASE \E batch \in SUBSET queue : Poll(batch)
    BY <2>4, <2>8 DEF Queued, Polling, AtWork, Resting
  <2> QED BY <2>1, <2>5, <2>6, <2>7, <2>8 DEF Collect
<1>3. InFlight' = InFlight /\ Used' = Used /\ swap' = swap /\ mem' = mem /\ records' = records
  BY <1>1 DEF InFlight, Unbooked, Used, onChain, books
<1>4. \A s \in Sigs : AtCall(s)' = AtCall(s)
  BY <1>1 DEF AtCall
<1>5. \A s \in Sigs : Alive(s)' => Alive(s)
  BY <1>0, <1>2, <1>3, <1>4 DEF Alive, Given
<1>6. \A c \in Callers : Sizing(c)' => Sizing(c)
  BY <1>1 DEF Sizing
<1>7. BookedFirst'
  BY <1>0, <1>2, <1>3 DEF BookedFirst, Fills
<1> QED BY <1>0, <1>1, <1>5, <1>6, <1>7, OneKept

LEMMA OneVerdict ==
  ASSUME OneInv, Undisturbed, Separate,
         NEW item \in wrk.batch, VerifyRetry(item) \/ Transitions(item)
  PROVE  OneAlive' /\ BookedFirst' /\ (\A s \in Sigs : Alive(s)' => Alive(s))
<1>0. /\ LedgerInv /\ LedgerInv' /\ OneAlive /\ BookedFirst /\ Types /\ RestOK /\ Given /\ OnePlace
      /\ Fate /\ Fate' /\ mem.booked \in [Sigs -> Nat]
  BY VerdictLedger, MemFields DEF OneInv, LedgerInv, Types
<1>1. /\ Leaving(item) /\ Judged(item) /\ wrk.at = "batch" /\ item \in Item
      /\ UNCHANGED <<onChain, call, records>>
  BY <1>0, VerdictEffect
<1>t. PICK t \in Sigs : t = item.sig
  BY <1>1 DEF Item
<1>2. /\ Fills' = Fills
      /\ \A s \in Sigs : s # t => Kept(s)
      /\ t \in Fills => /\ ~AtCall(t)' /\ ~Polling(t)' /\ Polling(t)
                        /\ wrk'.at \notin Resting => ~Queued(t)'
  BY <1>0, <1>1, <1>t, VerdictPlaces
<1>3. t \in Used /\ Used' = Used /\ UNCHANGED <<swap, chain>>
  BY <1>0, <1>1, <1>t DEF Given, Used, onChain
<1>4. \A s \in Sigs : mem'.booked[s] = mem.booked[s] \/ (s = t /\ Booking(item) /\ mem'.booked[s] = 1)
  BY <1>0, <1>1, <1>t, Counted DEF Judged, Booking, Fate
<1>5. \A s \in Sigs : Alive(s)' => Alive(s)
  <2>1. ASSUME NEW s \in Sigs, s # t PROVE Alive(s)' => Alive(s)
    BY <1>0, <1>2, <1>3, <1>4, <2>1, AliveKept
  <2>2. Alive(t)' => Alive(t)
    <3>1. Polling(t)
      BY <1>t DEF Polling
    <3> QED BY <1>3, <3>1 DEF Alive
  <2> QED BY <2>1, <2>2
<1>6. \A c \in Callers : Sizing(c)' = Sizing(c)
  BY <1>1 DEF Sizing
<1>7. OneAlive'
  <2>1. CASE PartialExitFailed(item) \/ (Abandon(item) /\ swap[t].op = "partial")
    <3>1. /\ swap[t].op = "partial"
          /\ chain[t] = "failed" \/ "late" \in Faults
          /\ queue' \subseteq queue /\ wrk'.at \in Resting
      <4>1. CASE PartialExitFailed(item)
        <5>1. swap[t].op = "partial" /\ chain[t] = "failed" /\ Applied(item)
          BY <1>t, <4>1 DEF PartialExitFailed
        <5> QED BY <1>0, <1>1, <5>1, AppliedOK, AppliedLeaves DEF Types, RestOK
      <4>2. CASE Abandon(item) /\ swap[t].op = "partial"
        <5>1. "late" \in Faults /\ wrk' = Rest(item) /\ queue' = queue
          BY <1>t, <4>2 DEF Abandon
        <5> QED BY <1>0, <1>1, <4>2, <5>1, RestFields DEF Types, Resting
      <4> QED BY <2>1, <4>1, <4>2
    <3>2. Polling(t) /\ Alive(t) /\ t \in Fills
      BY <1>2, <1>3, <1>t, <3>1 DEF Alive, Fills, Kinds, Polling
    <3>4. ~Queued(t)' /\ ~AtWork(t)'
      BY <1>0, <3>1, <3>2 DEF OnePlace, Queued, AtWork
    <3>5. "late" \in Faults \/ t \notin InFlight'
      BY <1>3, <3>1 DEF InFlight, Unbooked
    <3>6. ~Alive(t)'
      BY <1>2, <3>2, <3>4, <3>5 DEF Alive
    <3>7. (\A s \in Sigs : ~Alive(s)') /\ (\A c \in Callers : ~Sizing(c)')
      BY <1>0, <1>5, <1>6, <3>2, <3>6 DEF OneAlive
    <3>8. partials' \in {0, partials}
      BY <1>t, <2>1 DEF PartialExitFailed, Abandon, DropPartials, registry
    <3> QED BY <1>0, <3>7, <3>8 DEF OneAlive
  <2>2. CASE ~PartialExitFailed(item) /\ ~(Abandon(item) /\ swap[t].op = "partial")
    <3>1. partials' = partials
      BY <1>t, <2>2 DEF VerifyRetry, Transitions, PartialExitVerified, ExitResidual, Fill, SkipFill,
         BookFill, DcaVerified, ExitVerified, ExitFailed, FullExitFailed, RemoveOrphanEntry,
         ExitTimesOut, Abandon, registry
    <3> QED BY <1>0, <1>5, <1>6, <3>1, OneKept
  <2> QED BY <2>1, <2>2
<1>8. BookedFirst'
  <2>1. \A s \in Sigs : mem.booked[s] = 1 => mem'.booked[s] = 1
    BY <1>4
  <2>2. \A s \in records' : s \in Used' /\ (s \in Fills' => mem'.booked[s] = 1)
    BY <1>0, <1>1, <1>2, <1>3, <2>1 DEF BookedFirst, RestOK
  <2>3. wrk'.at \notin Resting => wrk'.item = item /\ wrk'.at # "record"
    BY <1>1 DEF Leaving
  <2>4. ASSUME wrk'.at \notin Resting, wrk'.doing = "partial"
        PROVE  swap'[wrk'.item.sig].op = "partial" /\ mem'.booked[wrk'.item.sig] = 1
    <3>1. swap[t].op = "partial" /\ Booking(item)
      BY <1>1, <1>t, <2>4 DEF Judged
    <3>2. mem'.booked[t] \in {0, 1} /\ mem'.booked[t] = mem.booked[t] + 1 /\ mem.booked[t] \in {0, 1}
      BY <1>0, <1>t, <3>1, Counted DEF Booking, Fate
    <3> QED BY <1>3, <1>t, <2>3, <2>4, <3>1, <3>2
  <2>5. ASSUME wrk'.at \notin Resting, wrk'.doing = "partial_again"
        PROVE  FALSE
    <3>1. swap[t].op = "partial" /\ t \in records
      BY <1>1, <1>t, <2>5 DEF Judged
    <3>2. t \in Fills /\ Polling(t)
      BY <1>2, <1>3, <3>1 DEF Fills, Kinds
    <3>3. mem.booked[t] = 1
      BY <1>0, <3>1, <3>2 DEF BookedFirst
    <3> QED BY <1>0, <3>2, <3>3 DEF LedgerInv, Seen
  <2> QED BY <2>2, <2>3, <2>4, <2>5 DEF BookedFirst
<1> QED BY <1>5, <1>7, <1>8

LEMMA OneApply ==
  ASSUME OneInv, Undisturbed, Separate, Apply
  PROVE  OneAlive' /\ BookedFirst' /\ (\A s \in Sigs : Alive(s)' => Alive(s))
<1>0. /\ LedgerInv /\ OneAlive /\ BookedFirst /\ Types /\ RestOK /\ WorkerOK /\ Given /\ OnePlace
      /\ Fate /\ Seen /\ NoResidual /\ "db" \notin Faults /\ queue \subseteq Item
  BY DEF OneInv, LedgerInv, Types, RestOK, Undisturbed
<1>1. wrk.at # "unstamp" /\ LedgerInv'
  BY <1>0, ApplyLedger DEF NoResidual, Resting
<1>2. /\ UNCHANGED <<onChain, call, mem>>
      /\ wrk.at \notin Resting /\ wrk.item \in Item
      /\ queue' \subseteq queue /\ wrk'.batch \subseteq wrk.batch
      /\ wrk'.at \notin Resting => wrk'.item = wrk.item /\ wrk'.doing = wrk.doing
  BY <1>0, <1>1, ApplyEffect
<1>3. Fills' = Fills /\ Used' = Used /\ UNCHANGED <<swap, chain>>
  BY <1>2 DEF Fills, Used, onChain
<1>4. \A s \in Sigs : Kept(s)
  BY <1>2 DEF Kept, AtCall, Queued, Polling, AtWork
<1>5. \A s \in Sigs : Alive(s)' => Alive(s)
  BY <1>0, <1>2, <1>3, <1>4, AliveKept
<1>6. \A c \in Callers : Sizing(c)' = Sizing(c)
  BY <1>2 DEF Sizing
<1>t. PICK t \in Sigs : t = wrk.item.sig
  BY <1>2 DEF Item
<1>7. CASE Settle /\ wrk.doing = "partial"
  <2>1. swap[t].op = "partial" /\ mem.booked[t] = 1 /\ AtWork(t) /\ t \in Fills
    BY <1>0, <1>2, <1>7, <1>t DEF BookedFirst, AtWork, Given, Fills, Kinds
  <2>2. Alive(t)
    BY <2>1 DEF Alive, Fills
  <2>3. Applied(wrk.item)
    BY <1>7 DEF Settle
  <2>4. wrk'.at \in Resting
    BY <1>0, <1>2, <2>3, AppliedOK, RestFields DEF Resting
  <2>5. ~Alive(t)'
    <3>1. t \notin InFlight'
      <4>1. chain[t] = "landed" /\ chain' = chain /\ mem' = mem
        BY <1>0, <1>2, <1>3, <2>1 DEF Fate
      <4> QED BY <2>1, <4>1 DEF InFlight, Unbooked
    <3>2. ~AtCall(t)' /\ ~Queued(t)' /\ ~Polling(t)' /\ ~AtWork(t)'
      BY <1>0, <1>4, <2>1, <2>4 DEF Seen, Kept, AtWork
    <3> QED BY <3>1, <3>2 DEF Alive
  <2>6. (\A s \in Sigs : ~Alive(s)') /\ (\A c \in Callers : ~Sizing(c)')
    BY <1>0, <1>5, <1>6, <2>2, <2>5 DEF OneAlive
  <2>7. partials' = clear_partial_exit_pending(partials)
    BY <1>7 DEF Settle
  <2>8. partials' \in {0, 1}
    BY <1>0, <2>7, CountsDown DEF OneAlive
  <2>9. OneAlive'
    BY <2>6, <2>8 DEF OneAlive
  <2>10. BookedFirst'
    BY <1>0, <1>2, <1>3, <1>7, <2>4 DEF BookedFirst, Settle, books
  <2> QED BY <1>5, <2>9, <2>10
<1>8. CASE ~(Settle /\ wrk.doing = "partial")
  <2>1. partials' = partials
    <3>1. wrk.doing \notin Range(Again) \cup {"residual"}
      <4>1. Range(Again) = {"partial_again", "residual_again"}
        BY DEF Range, Again
      <4> QED BY <1>0, <1>2, <4>1 DEF BookedFirst, NoResidual, Residual
    <3>2. CASE Settle
      BY <1>8, <3>1, <3>2 DEF Settle
    <3>3. CASE ~Settle
      BY <3>3 DEF Apply, Persist, PersistFails, Record, ClearPending, StorePending,
                  StorePendingFails, Unstamp, registry
    <3> QED BY <3>2, <3>3
  <2>2. OneAlive'
    BY <1>0, <1>5, <1>6, <2>1, OneKept
  <2>3. wrk'.at = "record" => wrk.doing \in {"partial", "exit"}
    <3>1. CASE Persist /\ wrk.doing \in {"partial", "residual", "exit"}
      BY <1>0, <1>2, <3>1 DEF NoResidual, Residual
    <3>2. ASSUME Applied(wrk.item) PROVE wrk'.at # "record"
      BY <1>0, <1>2, <3>2, AppliedOK, RestFields
    <3>3. ASSUME NEW at \in {"clear", "settle", "unstamp"}, WorkerGoes(at) PROVE wrk'.at # "record"
      BY <1>0, <3>3, GoesFields DEF Stages
    <3>4. ASSUME NEW set, wrk' = [wrk EXCEPT !.at = "store", !.snap = set] PROVE wrk'.at # "record"
      BY <1>0, <3>4 DEF WorkerOK, WorkerT
    <3> QED BY <1>0, <1>1, <3>1, <3>2, <3>3, <3>4 DEF Apply, Persist, PersistFails, Record,
            ClearPending, StorePending, StorePendingFails, Settle, Unstamp, WorkerAt
  <2>4. \A s \in records' : s \in records \/ (s \in Used /\ (s \in Fills => mem.booked[s] = 1))
    <3>1. CASE Record
      <4>1. \A s \in records' : s \in records \/ (s = RecordSig /\ s # None)
        BY <3>1 DEF Record
      <4>2. wrk.doing \in {"partial", "exit"}
        BY <1>0, <1>2, <3>1 DEF BookedFirst, Record, WorkerAt
      <4>3. wrk.doing = "exit" => RecordSig = mem.exitSig
        BY DEF RecordSig
      <4>4. wrk.doing = "partial" => RecordSig = t /\ mem.booked[t] = 1 /\ t \in Used
        BY <1>0, <1>2, <1>t DEF RecordSig, BookedFirst, Given
      <4>5. mem.exitSig # None => mem.exitSig \in Used /\ mem.exitSig \notin Fills
        BY <1>0 DEF Given, Fills, Kinds
      <4> QED BY <4>1, <4>2, <4>3, <4>4, <4>5
    <3>2. CASE ~Record
      <4>1. records' = records
        BY <3>2 DEF Apply, Persist, PersistFails, ClearPending, StorePending,
                    StorePendingFails, Settle, Unstamp, books
      <4> QED BY <4>1
    <3> QED BY <3>1, <3>2
  <2>5. BookedFirst'
    BY <1>0, <1>2, <1>3, <2>3, <2>4 DEF BookedFirst
  <2> QED BY <1>5, <2>2, <2>5
<1> QED BY <1>7, <1>8

LEMMA OneStep ==
  ASSUME OneInv, Undisturbed, Separate, [Next]_vars
  PROVE  OneInv'
<1>0. LedgerInv' /\ LedgerInv /\ OneAlive /\ BookedFirst
  BY StepLedger DEF OneInv
<1>1. CASE \E c \in Callers : Caller(c)
  <2>1. PICK c \in Callers : Caller(c)
    BY <1>1
  <2>2. UNCHANGED <<wrk, records>> /\ mem'.booked = mem.booked
        /\ \A s \in Used : s \in Used' /\ swap'[s] = swap[s]
    <3>1. CASE SwapSubmits(c)
      <4>1. PICK n \in Sigs : n = NextSig
        BY <1>0, <3>1, SubmitsOK DEF LedgerInv
      <4>2. chain[n] = "unused" /\ \A s \in Sigs : s # n => chain'[s] = chain[s] /\ swap'[s] = swap[s]
        BY <1>0, <3>1, <4>1, SubmitsOK DEF LedgerInv
      <4> QED BY <3>1, <4>2 DEF SwapSubmits, books, Used
    <3>2. CASE enqueue_verification(c)
      BY <3>2 DEF enqueue_verification, books, onChain, Used
    <3>3. CASE ~SwapSubmits(c) /\ ~enqueue_verification(c)
      <4>1. records' = records
        BY <2>1, <3>3 DEF Caller, CallerWorks, PartialBegin, DcaBegin, CloseBegin, SwapFails,
           RegisterPending, PersistPending, PersistPendingFails, DcaWithoutPrice, StampExit, books
      <4> QED BY <1>0, <2>1, <3>3, <4>1, CallerPlaces DEF onChain, Used
    <3> QED BY <3>1, <3>2, <3>3
  <2>3. \A s \in records : s \in Used' /\ (s \in Fills' => s \in Fills)
    BY <1>0, <2>2 DEF BookedFirst, Fills
  <2>4. BookedFirst'
    BY <1>0, <2>2, <2>3 DEF BookedFirst, LedgerInv, Given
  <2> QED BY <1>0, <2>1, <2>4, OneCaller DEF OneInv
<1>2. CASE \E s \in Sigs : Lands(s) \/ Dies(s)
  <2>1. PICK s \in Sigs : Lands(s) \/ Dies(s)
    BY <1>2
  <2>2. UNCHANGED <<swap, Used, mem, wrk, records>>
    BY <1>0, <2>1, DecidesOK DEF LedgerInv, Types, books
  <2>3. BookedFirst'
    BY <1>0, <2>2 DEF BookedFirst, Fills
  <2> QED BY <1>0, <2>1, <2>3, OneChain DEF OneInv
<1>3. CASE Worker
  BY <1>0, <1>3, OneCycle, OneVerdict, OneApply DEF OneInv, Worker, Verify
<1>4. CASE Restart
  BY <1>0, <1>4, RestartOK DEF LedgerInv, Types, RestOK, Undisturbed
<1>5. CASE UNCHANGED vars
  BY <1>0, <1>5 DEF vars, onChain, books, registry, OneInv, OneAlive, BookedFirst, Alive, Sizing,
     InFlight, Unbooked, Fills, Used, AtCall, Queued, Polling, AtWork
<1> QED BY <1>1, <1>2, <1>3, <1>4, <1>5 DEF Next

LEMMA OneInvariant ==
  ASSUME Undisturbed, Separate
  PROVE  Spec => []OneInv
<1>1. Init => OneInv
  BY OneInit
<1>2. OneInv /\ [Next]_vars => OneInv'
  BY OneStep
<1> QED BY <1>1, <1>2, PTL DEF Spec

\* The registry serialises partial exits: none is sized while another one's
\* tokens are on their way out of the books (partial_close_position: "Refuse to
\* overlap two partial exits"), as long as no write fails, no crash comes and
\* no verdict is given up on before the chain decides.
THEOREM PartialsDoNotOverlap ==
  ASSUME Undisturbed, Separate, "late" \notin Faults
  PROVE  Spec => []OnePartialInFlight
<1>1. ASSUME OneInv PROVE OnePartialInFlight
  <2> DEFINE S == Of("partial", InFlight)
  <2>1. \A s, t \in S : s = t
    BY <1>1 DEF OneInv, OneAlive, Alive, Of, InFlight, Unbooked, Used
  <2>2. CASE S = {}
    BY <2>2, FS_EmptySet DEF OnePartialInFlight
  <2>3. CASE S # {}
    <3>1. PICK s \in S : S = {s}
      BY <2>1, <2>3
    <3> HIDE DEF S
    <3>2. Cardinality(S) = 1
      BY <3>1, FS_Singleton
    <3> QED BY <3>2 DEF OnePartialInFlight, S
  <2> QED BY <2>2, <2>3
<1> QED BY <1>1, OneInvariant, PTL

-----------------------------------------------------------------------------
(* What the position believes it holds *)

\* The lots of the swaps in set, of which f records the amounts.
LotsAt(f, set) == UNION {{s} \X (1 .. f[s].lots) : s \in set}
LotsIn(f, set) == Cardinality(LotsAt(f, set))

LEMMA LotsAdded ==
  ASSUME NEW f, NEW X \in SUBSET Sigs, NEW s \in Sigs, s \notin X, \A t \in Sigs : f[t].lots \in Nat
  PROVE  /\ LotsIn(f, X) \in Nat /\ LotsIn(f, X \cup {s}) \in Nat
         /\ LotsIn(f, X \cup {s}) = LotsIn(f, X) + f[s].lots
<1> DEFINE Lots(t) == {t} \X (1 .. f[t].lots)
           Each(S) == {Lots(t) : t \in S}
<1>1. ASSUME NEW t \in Sigs PROVE IsFiniteSet(Lots(t)) /\ Cardinality(Lots(t)) = f[t].lots
  <2>1. IsFiniteSet({t}) /\ Cardinality({t}) = 1
    BY FS_Singleton
  <2>2. PICK n \in Nat : n = f[t].lots
    OBVIOUS
  <2>3. IsFiniteSet(1 .. n) /\ Cardinality(1 .. n) = IF 1 > n THEN 0 ELSE n - 1 + 1
    BY FS_Interval
  <2>4. Cardinality(1 .. n) = n
    BY <2>3
  <2>5. IsFiniteSet({t} \X (1 .. n)) /\ Cardinality({t} \X (1 .. n)) = 1 * n
    BY <2>1, <2>3, <2>4, FS_Product
  <2> QED BY <2>2, <2>5
<1>2. LotsAt(f, X) = UNION Each(X) /\ LotsAt(f, X \cup {s}) = LotsAt(f, X) \cup Lots(s)
  BY DEF LotsAt
<1>3. LotsAt(f, X) \cap Lots(s) = {}
  BY DEF LotsAt
<1> HIDE DEF Lots
<1>4. IsFiniteSet(X)
  <2>1. IsFiniteSet(1 .. MaxSwaps)
    BY FS_Interval
  <2> QED BY <2>1, FS_Subset DEF Sigs
<1>5. IsFiniteSet(Each(X))
  <2> DEFINE e == [t \in X |-> Lots(t)]
  <2>1. e \in Surjection(X, Each(X))
    BY DEF Surjection
  <2> QED BY <1>4, <2>1, FS_Surjection
<1>6. IsFiniteSet(LotsAt(f, X))
  <2>1. \A T \in Each(X) : IsFiniteSet(T)
    BY <1>1
  <2> HIDE DEF Each
  <2> QED BY <1>2, <1>5, <2>1, FS_UNION
<1>7. Cardinality(LotsAt(f, X)) \in Nat
  BY <1>6, FS_CardinalityType
<1>8. Cardinality(LotsAt(f, X) \cup Lots(s))
          = Cardinality(LotsAt(f, X)) + Cardinality(Lots(s)) - Cardinality(LotsAt(f, X) \cap Lots(s))
  BY <1>1, <1>6, FS_Union
<1>9. Cardinality(LotsAt(f, X) \cap Lots(s)) = 0
  BY <1>3, FS_EmptySet
<1>10. PICK n \in Nat : n = f[s].lots
  OBVIOUS
<1>11. Cardinality(LotsAt(f, X) \cup Lots(s)) = Cardinality(LotsAt(f, X)) + n
  BY <1>1, <1>7, <1>8, <1>9, <1>10
<1>12. LotsIn(f, X \cup {s}) = Cardinality(LotsAt(f, X) \cup Lots(s))
  BY <1>2 DEF LotsIn
<1>13. LotsIn(f, X \cup {s}) = LotsIn(f, X) + n /\ LotsIn(f, X) \in Nat
  BY <1>7, <1>11, <1>12 DEF LotsIn
<1>14. LotsIn(f, X \cup {s}) \in Nat
  BY <1>13
<1> QED BY <1>10, <1>13, <1>14

LEMMA LotsSame ==
  ASSUME NEW f, NEW g, NEW X, \A t \in X : f[t].lots = g[t].lots
  PROVE  LotsIn(f, X) = LotsIn(g, X)
<1>1. LotsAt(f, X) = LotsAt(g, X)
  BY DEF LotsAt
<1> QED BY <1>1 DEF LotsIn

\* What a swap that is not booked yet has moved: adds into the wallet, sells out of it.
AddsDue  == {s \in Unbooked : swap[s].op = "dca"}
SellsDue == {s \in Unbooked : swap[s].op # "dca"}

LEMMA BooksAre ==
  /\ BooksFollowWallet <=>
        (is_position_open =>
            mem.remaining + LotsIn(swap, AddsDue) = wallet + LotsIn(swap, SellsDue))
  /\ BooksFollowWallet' <=>
        (is_position_open' =>
            mem'.remaining + LotsIn(swap', AddsDue') = wallet' + LotsIn(swap', SellsDue'))
<1>1. Of("dca", Unbooked) = AddsDue /\ Unbooked \cap Sells = SellsDue
  BY DEF Of, AddsDue, SellsDue, Unbooked, Sells
<1>2. Of("dca", Unbooked)' = AddsDue' /\ (Unbooked \cap Sells)' = SellsDue'
  BY DEF Of, AddsDue, SellsDue, Unbooked, Sells
<1>3. LotsOf(Of("dca", Unbooked)) = LotsIn(swap, AddsDue)
      /\ LotsOf(Unbooked \cap Sells) = LotsIn(swap, SellsDue)
  BY <1>1 DEF LotsOf, LotsIn, LotsAt
<1>4. LotsOf(Of("dca", Unbooked))' = LotsIn(swap', AddsDue')
      /\ LotsOf(Unbooked \cap Sells)' = LotsIn(swap', SellsDue')
  BY <1>2 DEF LotsOf, LotsIn, LotsAt
<1> QED BY <1>3, <1>4 DEF BooksFollowWallet

\* A partial exit that is not booked yet sells less than what is held.
Sized ==
    is_position_open =>
        /\ \A c \in Callers : Sizing(c) => call[c].lots < mem.remaining
        /\ \A s \in Sigs : Alive(s) /\ mem.booked[s] = 0 => swap[s].lots < mem.remaining

BooksInv == OneInv /\ Sized /\ BooksFollowWallet

LEMMA BooksKept ==
  ASSUME BooksFollowWallet, UNCHANGED onChain, mem'.remaining = mem.remaining,
         mem'.booked = mem.booked, is_position_open' => is_position_open
  PROVE  BooksFollowWallet'
<1>1. AddsDue' = AddsDue /\ SellsDue' = SellsDue /\ swap' = swap /\ wallet' = wallet
  BY DEF AddsDue, SellsDue, Unbooked, Used, onChain
<1> QED BY <1>1, BooksAre

LEMMA SizedKept ==
  ASSUME Sized, mem'.remaining = mem.remaining, mem'.booked = mem.booked,
         is_position_open' => is_position_open, swap' = swap, call' = call,
         \A s \in Sigs : Alive(s)' => Alive(s)
  PROVE  Sized'
<1>1. \A c \in Callers : Sizing(c)' => Sizing(c)
  BY DEF Sizing
<1> QED BY <1>1 DEF Sized

LEMMA BooksInit ==
  ASSUME Init
  PROVE  BooksInv
<1>1. OneInv /\ Used = {}
  BY OneInit, GivenInit
<1>2. Sized
  BY <1>1 DEF Sized, Sizing, Alive, Init, IdleCall
<1>3. AddsDue = {} /\ SellsDue = {}
  BY <1>1 DEF AddsDue, SellsDue, Unbooked
<1>4. LotsIn(swap, {}) = 0
  <2>1. LotsAt(swap, {}) = {}
    BY DEF LotsAt
  <2> QED BY <2>1, FS_EmptySet DEF LotsIn
<1>5. mem.remaining = Tokens /\ wallet = Tokens
  BY DEF Init
<1>6. BooksFollowWallet
  BY <1>3, <1>4, <1>5, BooksAre
<1> QED BY <1>1, <1>2, <1>6 DEF BooksInv

LEMMA BooksCaller ==
  ASSUME BooksInv, Undisturbed, "close" \notin Ops, NEW c \in Callers, Caller(c)
  PROVE  Sized' /\ BooksFollowWallet'
<1>0. /\ OneInv /\ LedgerInv /\ Types /\ ChainOK /\ CallsOK /\ RestOK /\ Given /\ Fate
      /\ Sized /\ BooksFollowWallet /\ Grows(c)
  BY OneCaller DEF BooksInv, OneInv, LedgerInv, Types, Separate
<1>f. /\ call[c].at # "idle" => call[c].op \in Ops
      /\ call[c].at \notin {"idle", "swap"} => call[c].sig \in Sigs
  BY <1>0, CallFields
<1>m. mem' = mem
  <2>1. ~StampExit(c)
    BY <1>0, <1>f DEF StampExit, Given, CallGiven
  <2> QED BY <2>1 DEF Caller, CallerWorks, PartialBegin, DcaBegin, CloseBegin, SwapFails,
       SwapSubmits, RegisterPending, PersistPending, PersistPendingFails, DcaWithoutPrice,
       enqueue_verification, books
<1>o. is_position_open' = is_position_open
  BY <1>m DEF is_position_open
<1>1. CASE PartialBegin(c) \/ DcaBegin(c) \/ CloseBegin(c)
  <2>1. PICK op \in Ops, lots \in Nat :
            /\ Starts(c, op, lots)
            /\ op = "partial" => lots < mem.remaining
            /\ UNCHANGED onChain
    BY <1>0, <1>1, BeginsOK
  <2>2. /\ call[c].at = "idle" /\ call'[c].op = op /\ call'[c].lots = lots
        /\ \A d \in Callers : d # c => call'[d] = call[d]
    BY <1>0, <2>1, StartsOK
  <2>3. \A s \in Sigs : Alive(s)' => Alive(s)
    BY <1>0, <2>2 DEF Grows, SwapSubmits
  <2>4. \A d \in Callers : Sizing(d)' => \/ call'[d].lots < mem.remaining
                                         \/ Sizing(d) /\ call'[d] = call[d]
    BY <2>1, <2>2 DEF Sizing
  <2>5. Sized'
    BY <1>0, <1>m, <1>o, <2>1, <2>3, <2>4 DEF Sized, onChain
  <2> QED BY <1>0, <1>m, <1>o, <2>1, <2>5, BooksKept
<1>2. CASE SwapSubmits(c)
  <2>n. PICK n \in Sigs : n = NextSig
    BY <1>0, <1>2, SubmitsOK
  <2>1. /\ call[c].at = "swap" /\ swap'[n].op = call[c].op /\ swap'[n].lots = call[c].lots
        /\ chain[n] = "unused" /\ chain'[n] = "sent"
        /\ \A s \in Sigs : s # n => swap'[s] = swap[s] /\ chain'[s] = chain[s]
        /\ call'[c].at # "swap" /\ \A d \in Callers : d # c => call'[d] = call[d]
        /\ wallet' = wallet
    BY <1>0, <1>2, <2>n, SubmitsOK
  <2>2. Sized'
    <3>1. \A d \in Callers : Sizing(d)' => Sizing(d) /\ call'[d] = call[d]
      BY <2>1 DEF Sizing
    <3>2. ASSUME NEW s \in Sigs, Alive(s)', mem.booked[s] = 0, is_position_open
          PROVE  swap'[s].lots < mem.remaining
      <4>1. CASE s = n
        <5>1. Sizing(c)
          BY <2>1, <3>2, <4>1 DEF Alive, Sizing
        <5> QED BY <1>0, <2>1, <3>2, <4>1, <5>1 DEF Sized
      <4>2. CASE s # n
        <5>1. Alive(s)
          BY <1>0, <2>n, <3>2, <4>2 DEF Grows
        <5> QED BY <1>0, <2>1, <3>2, <4>2, <5>1 DEF Sized
      <4> QED BY <4>1, <4>2
    <3> QED BY <1>0, <1>m, <1>o, <3>1, <3>2 DEF Sized
  <2>3. AddsDue' = AddsDue /\ SellsDue' = SellsDue /\ n \notin AddsDue \cup SellsDue
    BY <1>m, <2>1 DEF AddsDue, SellsDue, Unbooked, Used
  <2>4. AddsDue \cup SellsDue \subseteq Sigs
    BY DEF AddsDue, SellsDue, Unbooked, Used
  <2>5. /\ LotsIn(swap', AddsDue) = LotsIn(swap, AddsDue)
        /\ LotsIn(swap', SellsDue) = LotsIn(swap, SellsDue)
    <3>1. \A s \in AddsDue \cup SellsDue : swap'[s].lots = swap[s].lots
      BY <2>1, <2>3, <2>4
    <3> QED BY <3>1, LotsSame
  <2>6. BooksFollowWallet'
    BY <1>0, <1>m, <1>o, <2>1, <2>3, <2>5, BooksAre
  <2> QED BY <2>2, <2>6
<1>3. CASE ~SwapSubmits(c) /\ ~(PartialBegin(c) \/ DcaBegin(c) \/ CloseBegin(c))
  <2>1. UNCHANGED onChain
    BY <1>3 DEF Caller, CallerWorks, SwapFails, RegisterPending, PersistPending,
       PersistPendingFails, DcaWithoutPrice, StampExit, enqueue_verification
  <2>2. call'[c].at # "swap" /\ \A d \in Callers : d # c => call'[d] = call[d]
    <3>2. CASE RegisterPending(c)
      BY <1>0, <3>2, RegistersOK
    <3>3. CASE PersistPending(c) \/ StampExit(c)
      BY <1>0, <1>f, <3>3, GoesOK DEF PersistPending, StampExit
    <3>4. CASE PersistPendingFails(c) \/ SwapFails(c) \/ DcaWithoutPrice(c)
               \/ enqueue_verification(c)
      BY <1>0, <3>4, LeavesOK, IdleOK
         DEF PersistPendingFails, SwapFails, DcaWithoutPrice, enqueue_verification, RestOK
    <3> QED BY <1>3, <3>2, <3>3, <3>4 DEF Caller, CallerWorks
  <2>3. \A d \in Callers : Sizing(d)' => Sizing(d) /\ call'[d] = call[d]
    BY <2>2 DEF Sizing
  <2>4. \A s \in Sigs : Alive(s)' => Alive(s)
    BY <1>0, <1>3 DEF Grows
  <2>5. Sized'
    BY <1>0, <1>m, <1>o, <2>1, <2>3, <2>4 DEF Sized, onChain
  <2> QED BY <1>0, <1>m, <1>o, <2>1, <2>5, BooksKept
<1> QED BY <1>1, <1>2, <1>3

LEMMA BooksChain ==
  ASSUME BooksInv, Undisturbed, "close" \notin Ops, NEW t \in Sigs, Lands(t) \/ Dies(t)
  PROVE  Sized' /\ BooksFollowWallet'
<1>0. /\ OneInv /\ LedgerInv /\ Types /\ ChainOK /\ Fate /\ Sized /\ BooksFollowWallet
  BY DEF BooksInv, OneInv, LedgerInv, Types
<1>1. /\ chain[t] = "sent" /\ swap' = swap /\ Used' = Used /\ t \in Used
      /\ \A s \in Sigs : s # t => chain'[s] = chain[s]
      /\ mem' = mem /\ call' = call
  BY <1>0, DecidesOK DEF books, Used
<1>o. is_position_open' = is_position_open
  BY <1>1 DEF is_position_open
<1>2. Sized'
  BY <1>0, <1>1, <1>o, OneChain, SizedKept
<1>3. t \notin Unbooked /\ mem.booked[t] = 0
  BY <1>0, <1>1 DEF Unbooked, Fate
<1>u. /\ chain'[t] = "landed" => Unbooked' = Unbooked \cup {t}
      /\ chain'[t] # "landed" => Unbooked' = Unbooked
  <2>1. Unbooked' = {s \in Used : chain'[s] = "landed" /\ mem.booked[s] = 0}
    BY <1>1 DEF Unbooked
  <2>2. Used \subseteq Sigs
    BY DEF Used
  <2> QED BY <1>1, <1>3, <2>1, <2>2 DEF Unbooked
<1>l. /\ \A s \in Sigs : swap[s].lots \in Nat
      /\ wallet \in Nat /\ mem.remaining \in Nat
      /\ AddsDue \in SUBSET Sigs /\ SellsDue \in SUBSET Sigs
      /\ t \notin AddsDue /\ t \notin SellsDue
  BY <1>0, <1>3, MemFields DEF ChainOK, AddsDue, SellsDue, Unbooked, Used
<1>4. CASE Dies(t)
  <2>1. chain'[t] \in {"failed", "lost"} /\ wallet' = wallet
    BY <1>0, <1>4 DEF Dies, ChainOK
  <2>2. AddsDue' = AddsDue /\ SellsDue' = SellsDue
    BY <1>1, <1>u, <2>1 DEF AddsDue, SellsDue
  <2> QED BY <1>0, <1>1, <1>2, <1>o, <2>1, <2>2, BooksAre
<1>5. CASE Lands(t) /\ swap[t].op = "dca"
  <2>1. chain'[t] = "landed" /\ wallet' = wallet + swap[t].lots
    BY <1>0, <1>5 DEF Lands, ChainOK
  <2>2. AddsDue' = AddsDue \cup {t} /\ SellsDue' = SellsDue
    BY <1>1, <1>5, <1>u, <2>1 DEF AddsDue, SellsDue
  <2>3. /\ LotsIn(swap, AddsDue) \in Nat
        /\ LotsIn(swap, AddsDue \cup {t}) = LotsIn(swap, AddsDue) + swap[t].lots
    BY <1>l, LotsAdded
  <2>4. LotsIn(swap, SellsDue) \in Nat
    BY <1>l, LotsAdded
  <2>5. ASSUME mem.remaining + LotsIn(swap, AddsDue) = wallet + LotsIn(swap, SellsDue)
        PROVE  mem.remaining + (LotsIn(swap, AddsDue) + swap[t].lots)
                  = (wallet + swap[t].lots) + LotsIn(swap, SellsDue)
    BY <1>l, <2>3, <2>4, <2>5
  <2>6. BooksFollowWallet'
    BY <1>0, <1>1, <1>o, <2>1, <2>2, <2>3, <2>5, BooksAre
  <2> QED BY <1>2, <2>6
<1>6. CASE Lands(t) /\ swap[t].op # "dca"
  <2>1. chain'[t] = "landed" /\ wallet' = wallet - swap[t].lots
    BY <1>0, <1>6 DEF Lands, ChainOK
  <2>2. SellsDue' = SellsDue \cup {t} /\ AddsDue' = AddsDue
    BY <1>1, <1>6, <1>u, <2>1 DEF AddsDue, SellsDue
  <2>3. /\ LotsIn(swap, SellsDue) \in Nat
        /\ LotsIn(swap, SellsDue \cup {t}) = LotsIn(swap, SellsDue) + swap[t].lots
    BY <1>l, LotsAdded
  <2>4. LotsIn(swap, AddsDue) \in Nat
    BY <1>l, LotsAdded
  <2>5. ASSUME mem.remaining + LotsIn(swap, AddsDue) = wallet + LotsIn(swap, SellsDue)
        PROVE  mem.remaining + LotsIn(swap, AddsDue)
                  = (wallet - swap[t].lots) + (LotsIn(swap, SellsDue) + swap[t].lots)
    BY <1>l, <2>3, <2>4, <2>5
  <2>6. BooksFollowWallet'
    BY <1>0, <1>1, <1>o, <2>1, <2>2, <2>3, <2>5, BooksAre
  <2> QED BY <1>2, <2>6
<1> QED BY <1>4, <1>5, <1>6

\* Without full closes, a verdict books its swap or leaves what the position holds.
LEMMA VerdictBooks ==
  ASSUME Types, Given, "close" \notin Ops, NEW item \in wrk.batch,
         VerifyRetry(item) \/ Transitions(item)
  PROVE  \/ ~is_position_open'
         \/ /\ mem'.remaining = mem.remaining /\ mem'.booked = mem.booked
            /\ is_position_open' => is_position_open
         \/ /\ swap[item.sig].op = "partial" /\ chain[item.sig] = "landed"
            /\ mem' = Filled(item.sig)
         \/ /\ swap[item.sig].op = "dca" /\ chain[item.sig] = "landed"
            /\ mem' = Added(item.sig)
<1>1. swap[item.sig].op # "close"
  BY DEF Types, ChainOK, Given
<1>2. CASE mem' = mem
  BY <1>2 DEF is_position_open
<1>3. CASE mem' = Unstamped
  BY <1>3, UnstampedFields DEF is_position_open
<1>4. CASE mem' = WrittenOff
  BY <1>4, WrittenOffFields DEF is_position_open
<1>5. CASE mem' = [mem EXCEPT !.there = FALSE]
  BY <1>5 DEF is_position_open, Types, RestOK, Position
<1>6. CASE VerifyRetry(item) \/ PartialExitFailed(item)
  BY <1>2, <1>6 DEF VerifyRetry, PartialExitFailed, books
<1>7. CASE PartialExitVerified(item)
  <2>1. mem' = mem \/ mem' = Filled(item.sig)
    BY <1>7 DEF PartialExitVerified, Fill, SkipFill, BookFill, Update, Filled, books
  <2> QED BY <1>2, <1>7, <2>1 DEF PartialExitVerified
<1>8. CASE DcaVerified(item)
  <2>1. mem' = mem \/ mem' = Added(item.sig)
    BY <1>8 DEF DcaVerified, Added
  <2> QED BY <1>2, <1>8, <2>1 DEF DcaVerified
<1>9. CASE RemoveOrphanEntry(item)
  BY <1>5, <1>9 DEF RemoveOrphanEntry
<1>10. CASE ExitTimesOut(item)
  BY <1>2, <1>3, <1>4, <1>10 DEF ExitTimesOut, Update
<1>11. CASE Abandon(item)
  BY <1>2, <1>4, <1>11 DEF Abandon
<1>12. ~ExitResidual(item) /\ ~ExitVerified(item) /\ ~ExitFailed(item)
  BY <1>1 DEF ExitResidual, ExitVerified, ExitFailed
<1> QED BY <1>6, <1>7, <1>8, <1>9, <1>10, <1>11, <1>12 DEF Transitions

LEMMA BooksVerdict ==
  ASSUME BooksInv, Undisturbed, "close" \notin Ops, NEW item \in wrk.batch,
         VerifyRetry(item) \/ Transitions(item)
  PROVE  Sized' /\ BooksFollowWallet'
<1>0. /\ OneInv /\ OneAlive /\ LedgerInv /\ Types /\ ChainOK /\ Given /\ Fate /\ Seen /\ Separate
      /\ Sized /\ BooksFollowWallet
  BY DEF BooksInv, OneInv, LedgerInv, Types, Separate
<1>1. item \in Item /\ UNCHANGED <<onChain, call>>
  BY <1>0, VerdictEffect
<1>t. PICK t \in Sigs : t = item.sig
  BY <1>1 DEF Item
<1>2. /\ \A s \in Sigs : Alive(s)' => Alive(s)
      /\ swap' = swap /\ chain' = chain /\ wallet' = wallet /\ Used' = Used
      /\ t \in Used /\ Polling(t)
  BY <1>0, <1>1, <1>t, OneVerdict DEF onChain, Used, Given, Polling
<1>l. /\ \A s \in Sigs : swap[s].lots \in Nat
      /\ wallet \in Nat /\ mem.remaining \in Nat /\ mem.booked \in [Sigs -> Nat]
      /\ Used \subseteq Sigs
  BY <1>0, MemFields DEF ChainOK, Used
<1>3. CASE ~is_position_open'
  BY <1>3, BooksAre DEF Sized
<1>4. CASE /\ mem'.remaining = mem.remaining /\ mem'.booked = mem.booked
           /\ is_position_open' => is_position_open
  BY <1>0, <1>1, <1>2, <1>4, SizedKept, BooksKept
\* A swap that is booked no longer counts as due.
<1>5. ASSUME swap[t].op \in Kinds, chain[t] = "landed", mem'.booked = Count(mem.booked, t)
      PROVE  /\ mem.booked[t] = 0 /\ mem'.booked[t] = 1 /\ t \in Unbooked
             /\ \A s \in Sigs : s # t => mem'.booked[s] = mem.booked[s]
             /\ t \notin Unbooked' /\ Unbooked = Unbooked' \cup {t}
  <2>1. t \in Fills
    BY <1>2, <1>5 DEF Fills
  <2>2. mem.booked[t] = 0
    BY <1>0, <1>2, <2>1 DEF Seen, Fate
  <2>3. mem'.booked[t] = 1 /\ \A s \in Sigs : s # t => mem'.booked[s] = mem.booked[s]
    BY <1>l, <1>5, <2>2, Counted
  <2>4. Unbooked' = {s \in Used : chain[s] = "landed" /\ mem'.booked[s] = 0}
    BY <1>2 DEF Unbooked
  <2>5. Unbooked = Unbooked' \cup {t} /\ t \notin Unbooked' /\ t \in Unbooked
    BY <1>l, <1>2, <1>5, <2>2, <2>3, <2>4 DEF Unbooked
  <2> QED BY <2>2, <2>3, <2>5
<1>s. AddsDue' \in SUBSET Sigs /\ SellsDue' \in SUBSET Sigs
  BY <1>2, <1>l DEF AddsDue, SellsDue, Unbooked
<1>6. CASE swap[t].op = "partial" /\ chain[t] = "landed" /\ mem' = Filled(t)
  <2>1. /\ mem'.booked = Count(mem.booked, t) /\ is_position_open' = is_position_open
        /\ mem'.remaining = IF mem.remaining > swap[t].lots
                            THEN mem.remaining - swap[t].lots ELSE 0
    BY <1>0, <1>6, FilledFields DEF is_position_open
  <2>2. /\ mem.booked[t] = 0 /\ mem'.booked[t] = 1
        /\ t \notin Unbooked' /\ Unbooked = Unbooked' \cup {t}
    BY <1>5, <1>6, <2>1 DEF Kinds
  <2>3. Alive(t)
    BY <1>2, <1>6 DEF Alive
  <2>4. Sized'
    <3>1. \A c \in Callers : ~Sizing(c)'
      BY <1>0, <1>1, <2>3 DEF OneAlive, Sizing
    <3>2. \A s \in Sigs : Alive(s)' => s = t
      BY <1>0, <1>2, <2>3 DEF OneAlive
    <3> QED BY <2>2, <3>1, <3>2 DEF Sized
  <2>5. AddsDue' = AddsDue /\ SellsDue = SellsDue' \cup {t} /\ t \notin SellsDue'
    BY <1>2, <1>6, <2>2 DEF AddsDue, SellsDue
  <2>6. /\ LotsIn(swap, SellsDue') \in Nat
        /\ LotsIn(swap, SellsDue' \cup {t}) = LotsIn(swap, SellsDue') + swap[t].lots
    BY <1>l, <1>s, <2>5, LotsAdded
  <2>7. LotsIn(swap, AddsDue) \in Nat
    BY <1>l, <1>s, <1>t, <2>5, <1>6, LotsAdded DEF AddsDue
  <2>8. ASSUME is_position_open'
        PROVE  mem'.remaining + LotsIn(swap', AddsDue') = wallet' + LotsIn(swap', SellsDue')
    <3>1. is_position_open /\ swap[t].lots < mem.remaining
      BY <1>0, <2>1, <2>2, <2>3, <2>8 DEF Sized
    <3>2. mem.remaining + LotsIn(swap, AddsDue) = wallet + LotsIn(swap, SellsDue)
      BY <1>0, <3>1, BooksAre
    <3>3. mem'.remaining = mem.remaining - swap[t].lots
      BY <1>l, <2>1, <3>1
    <3>4. LotsIn(swap, SellsDue) = LotsIn(swap, SellsDue') + swap[t].lots
      BY <2>5, <2>6
    <3>5. (mem.remaining - swap[t].lots) + LotsIn(swap, AddsDue) = wallet + LotsIn(swap, SellsDue')
      BY <1>l, <2>6, <2>7, <3>2, <3>4
    <3> QED BY <1>2, <2>5, <3>3, <3>5
  <2>9. BooksFollowWallet'
    BY <2>8, BooksAre
  <2> QED BY <2>4, <2>9
<1>7. CASE swap[t].op = "dca" /\ chain[t] = "landed" /\ mem' = Added(t)
  <2>1. /\ mem'.booked = Count(mem.booked, t) /\ is_position_open' = is_position_open
        /\ mem'.remaining = mem.remaining + swap[t].lots
    BY <1>0, <1>7, AddedFields DEF is_position_open
  <2>2. /\ mem'.booked[t] = 1 /\ \A s \in Sigs : s # t => mem'.booked[s] = mem.booked[s]
        /\ t \notin Unbooked' /\ Unbooked = Unbooked' \cup {t}
    BY <1>5, <1>7, <2>1 DEF Kinds
  <2>3. Sized'
    <3>1. ASSUME is_position_open', NEW c \in Callers, Sizing(c)'
          PROVE  call'[c].lots < mem'.remaining
      <4>1. call' = call /\ call[c].lots \in Nat
        BY <1>0, <1>1, CallFields DEF Types
      <4>2. call[c].lots < mem.remaining
        BY <1>0, <2>1, <3>1, <4>1 DEF Sized, Sizing
      <4> QED BY <1>l, <2>1, <4>1, <4>2
    <3>2. ASSUME is_position_open', NEW s \in Sigs, Alive(s)', mem'.booked[s] = 0
          PROVE  swap'[s].lots < mem'.remaining
      <4>1. Alive(s) /\ mem.booked[s] = 0
        BY <1>2, <2>2, <3>2
      <4>2. swap[s].lots < mem.remaining
        BY <1>0, <2>1, <3>2, <4>1 DEF Sized
      <4> QED BY <1>2, <1>l, <2>1, <4>2
    <3> QED BY <3>1, <3>2 DEF Sized
  <2>4. SellsDue' = SellsDue /\ AddsDue = AddsDue' \cup {t} /\ t \notin AddsDue'
    BY <1>2, <1>7, <2>2 DEF AddsDue, SellsDue
  <2>5. /\ LotsIn(swap, AddsDue') \in Nat
        /\ LotsIn(swap, AddsDue' \cup {t}) = LotsIn(swap, AddsDue') + swap[t].lots
    BY <1>l, <1>s, <2>4, LotsAdded
  <2>6. LotsIn(swap, SellsDue) \in Nat
    BY <1>l, <1>s, <2>4, <1>7, LotsAdded DEF SellsDue
  <2>7. ASSUME is_position_open'
        PROVE  mem'.remaining + LotsIn(swap', AddsDue') = wallet' + LotsIn(swap', SellsDue')
    <3>1. mem.remaining + LotsIn(swap, AddsDue) = wallet + LotsIn(swap, SellsDue)
      BY <1>0, <2>1, <2>7, BooksAre
    <3>2. LotsIn(swap, AddsDue) = LotsIn(swap, AddsDue') + swap[t].lots
      BY <2>4, <2>5
    <3>3. (mem.remaining + swap[t].lots) + LotsIn(swap, AddsDue') = wallet + LotsIn(swap, SellsDue)
      BY <1>l, <2>5, <2>6, <3>1, <3>2
    <3> QED BY <1>2, <2>1, <2>4, <3>3
  <2>8. BooksFollowWallet'
    BY <2>7, BooksAre
  <2> QED BY <2>3, <2>8
<1> QED BY <1>0, <1>t, <1>3, <1>4, <1>6, <1>7, VerdictBooks

LEMMA BooksInvariant ==
  ASSUME Undisturbed, "close" \notin Ops
  PROVE  Spec => []BooksInv
<1>1. Init => BooksInv
  BY BooksInit
<1>2. ASSUME BooksInv, [Next]_vars
      PROVE  BooksInv'
  <2>0. OneInv /\ OneInv' /\ LedgerInv /\ Types /\ NoResidual /\ Sized /\ BooksFollowWallet
    BY <1>2, OneStep DEF BooksInv, OneInv, LedgerInv, Separate
  <2>k. ASSUME mem' = mem, UNCHANGED <<onChain, call>>, \A s \in Sigs : Alive(s)' => Alive(s)
        PROVE  BooksInv'
    <3>1. is_position_open' = is_position_open /\ swap' = swap
      BY <2>k DEF is_position_open, onChain
    <3> QED BY <2>0, <2>k, <3>1, SizedKept, BooksKept DEF BooksInv
  <2>1. CASE \E c \in Callers : Caller(c)
    BY <1>2, <2>0, <2>1, BooksCaller DEF BooksInv
  <2>2. CASE \E s \in Sigs : Lands(s) \/ Dies(s)
    BY <1>2, <2>0, <2>2, BooksChain DEF BooksInv
  <2>3. CASE Guard \/ Collect \/ EndBatch \/ \E batch \in SUBSET queue : Poll(batch)
    <3>1. mem' = mem /\ UNCHANGED <<onChain, call>>
      BY <2>3 DEF Guard, Collect, RenewExit, ExpireDca, EndBatch, Poll, books
    <3> QED BY <2>0, <2>3, <2>k, <3>1, OneCycle
  <2>4. CASE Verify
    BY <1>2, <2>0, <2>4, BooksVerdict DEF BooksInv, Verify
  <2>5. CASE Apply
    <3>1. wrk.at # "unstamp"
      BY <2>0 DEF NoResidual, Resting
    <3>2. mem' = mem /\ UNCHANGED <<onChain, call>>
      BY <2>0, <2>5, <3>1, ApplyEffect DEF Undisturbed
    <3>3. \A s \in Sigs : Alive(s)' => Alive(s)
      BY <2>0, <2>5, OneApply DEF Separate
    <3> QED BY <2>k, <3>2, <3>3
  <2>6. CASE Restart
    BY <2>0, <2>6, RestartOK DEF Types, RestOK, Undisturbed
  <2>7. CASE UNCHANGED vars
    <3>1. \A s \in Sigs : Alive(s)' => Alive(s)
      BY <2>7 DEF vars, onChain, books, Alive, InFlight, Unbooked, Used, AtCall, Queued,
                  Polling, AtWork
    <3> QED BY <2>7, <2>k, <3>1 DEF vars, onChain, books
  <2> QED BY <1>2, <2>1, <2>2, <2>3, <2>4, <2>5, <2>6, <2>7 DEF Next, Worker
<1> QED BY <1>1, <1>2, PTL DEF Spec

\* What an open position believes it holds is what the wallet holds, up to the
\* swaps that landed and are not booked yet, however late and in whatever order
\* their verdicts come (PartialExitVerified and DcaVerified move
\* remaining_token_amount by what their swap moved), as long as no write fails,
\* no crash comes and no full close is mixed in.
THEOREM BooksMatchTheWallet ==
  ASSUME Undisturbed, "close" \notin Ops
  PROVE  Spec => []BooksFollowWallet
<1>1. BooksInv => BooksFollowWallet
  BY DEF BooksInv
<1> QED BY <1>1, BooksInvariant, PTL
===============================================================================
