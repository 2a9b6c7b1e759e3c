--------------------------- MODULE SwapRestartProofs ---------------------------
(***************************************************************************)
(* What SwapVerification keeps across any number of crashes, for any       *)
(* number of callers, swaps, tokens and attempts: a registered partial     *)
(* exit is never forgotten, and the P&L of a full close is complete.       *)
(***************************************************************************)
EXTENDS SwapVerificationProofs

USE VerificationAssumption

-----------------------------------------------------------------------------
(* The P&L of a close *)

\* Full closes only; every verdict comes from the chain and the real balance.
OnlyCloses == Ops \subseteq {"close"} /\ "late" \notin Faults /\ "balance" \notin Faults

\* Of the position in memory and of its row: only landed swaps are booked, it
\* closes when the wallet is empty, and its P&L then covers what it has booked.
Covered(row) ==
    /\ \A s \in Sigs : row.booked[s] > 0 => chain[s] = "landed"
    /\ ~row.open => wallet = 0
    /\ ~row.open => \A s \in Sells : row.booked[s] > 0 => s \in row.pnl

LossInv == Types /\ Covered(mem) /\ Covered(db)

LEMMA UsedAreCloses ==
  ASSUME Types, OnlyCloses, NEW s \in Sigs, chain[s] # "unused"
  PROVE  swap[s].op = "close" /\ s \in Used
  BY DEF Types, ChainOK, OnlyCloses, Used

LEMMA LossInit ==
  ASSUME Init
  PROVE  LossInv
  BY InitTypes DEF Init, LossInv, Covered

\* Submitting a swap, and deciding one, leave a covered row covered.
LEMMA CoveredBySubmit ==
  ASSUME Types, NEW c \in Callers, SwapSubmits(c), NEW row \in Position, Covered(row)
  PROVE  /\ \A s \in Sigs : row.booked[s] > 0 => chain'[s] = "landed"
         /\ ~row.open => wallet' = 0
         /\ ~row.open => \A s \in Sells' : row.booked[s] > 0 => s \in row.pnl
<1>n. PICK n \in Sigs : n = NextSig
  BY SubmitsOK
<1>1. /\ chain[n] = "unused" /\ wallet' = wallet
      /\ \A s \in Sigs : s # n => chain'[s] = chain[s] /\ swap'[s] = swap[s]
  BY <1>n, SubmitsOK
<1>2. \A s \in Sigs : row.booked[s] > 0 => s # n
  BY <1>1 DEF Covered
<1>3. \A s \in Sells' : s # n => s \in Sells
  BY <1>1 DEF Sells, Used
<1>4. \A s \in Sells' : s \in Sigs
  BY DEF Sells, Used
<1> QED BY <1>1, <1>2, <1>3, <1>4 DEF Covered

LEMMA CoveredByChain ==
  ASSUME Types, OnlyCloses, NEW t \in Sigs, Lands(t) \/ Dies(t), NEW row \in Position, Covered(row)
  PROVE  /\ \A s \in Sigs : row.booked[s] > 0 => chain'[s] = "landed"
         /\ ~row.open => wallet' = 0
         /\ ~row.open => \A s \in Sells' : row.booked[s] > 0 => s \in row.pnl
<1>1. /\ chain[t] = "sent" /\ swap' = swap /\ Used' = Used
      /\ \A s \in Sigs : s # t => chain'[s] = chain[s]
  BY DecidesOK DEF Types
<1>2. \A s \in Sigs : row.booked[s] > 0 => s # t
  BY <1>1 DEF Covered
<1>3. wallet = 0 => wallet' = 0
  <2>1. swap[t].op = "close" /\ swap[t].lots \in Nat /\ wallet \in Nat
    BY <1>1, UsedAreCloses DEF Types, ChainOK
  <2>2. wallet' = wallet \/ (swap[t].lots <= wallet /\ wallet' = wallet - swap[t].lots)
    BY <2>1 DEF Lands, Dies
  <2> QED BY <2>1, <2>2
<1>4. Sells' = Sells
  BY <1>1 DEF Sells
<1> QED BY <1>1, <1>2, <1>3, <1>4 DEF Covered

\* A verdict: a full close is booked when nothing is left, a residual while something is.
LEMMA CoveredByVerdict ==
  ASSUME LossInv, OnlyCloses, NEW item \in wrk.batch, VerifyRetry(item) \/ Transitions(item)
  PROVE  Covered(mem)' /\ db' = db /\ UNCHANGED onChain
<1>0. /\ Types /\ Covered(mem) /\ item \in Item /\ item.sig \in Sigs /\ wallet \in Nat
      /\ mem \in Position /\ mem.booked \in [Sigs -> Nat]
  <2>1. item \in Item
    BY WorkerFields DEF LossInv, Types
  <2> QED BY <2>1, MemFields DEF LossInv, Types, ChainOK, RestOK, Item
<1>1. db' = db /\ UNCHANGED onChain
  BY DEF VerifyRetry, Transitions, PartialExitVerified, ExitResidual, Fill, SkipFill, BookFill,
     DcaVerified, ExitVerified, ExitFailed, FullExitFailed, PartialExitFailed,
     RemoveOrphanEntry, ExitTimesOut, Abandon, books
<1>2. Sells' = Sells /\ chain' = chain /\ wallet' = wallet
  BY <1>1 DEF Sells, Used, onChain
<1>3. ASSUME mem'.booked = mem.booked, mem'.open = mem.open, mem'.pnl = mem.pnl
      PROVE  Covered(mem)'
  BY <1>0, <1>2, <1>3 DEF Covered
<1>4. ASSUME mem' = WrittenOff, wallet = 0
      PROVE  Covered(mem)'
  <2>1. mem'.booked = mem.booked /\ mem'.pnl = Booked \cap Sells
    BY <1>0, <1>4, WrittenOffFields
  <2>2. \A s \in Sells : s \in Sigs
    BY DEF Sells, Used
  <2> QED BY <1>0, <1>2, <1>4, <2>1, <2>2 DEF Covered, Booked
<1>5. ASSUME mem' = Closed(mem, item.sig), wallet = 0, chain[item.sig] = "landed"
      PROVE  Covered(mem)'
  <2>1. mem'.booked = Count(mem.booked, item.sig) /\ mem'.pnl = (Booked \cup {item.sig}) \cap Sells
    BY <1>0, <1>5, ClosedFields
  <2>2. \A s \in Sigs : s # item.sig => mem'.booked[s] = mem.booked[s]
    BY <1>0, <2>1, Counted
  <2>3. \A s \in Sells : s \in Sigs
    BY DEF Sells, Used
  <2> QED BY <1>0, <1>2, <1>5, <2>1, <2>2, <2>3 DEF Covered, Booked
<1>6. ASSUME mem' = Filled(item.sig), wallet > 0, chain[item.sig] = "landed"
      PROVE  Covered(mem)'
  <2>1. mem'.booked = Count(mem.booked, item.sig) /\ mem'.open = mem.open
    BY <1>0, <1>6, FilledFields
  <2>2. \A s \in Sigs : s # item.sig => mem'.booked[s] = mem.booked[s]
    BY <1>0, <2>1, Counted
  <2>3. mem.open
    BY <1>0, <1>6 DEF Covered
  <2> QED BY <1>0, <1>2, <1>6, <2>1, <2>2, <2>3 DEF Covered
<1>7. ~PartialExitVerified(item) /\ ~DcaVerified(item) /\ ~Abandon(item)
  BY <1>0, UsedAreCloses DEF PartialExitVerified, DcaVerified, Abandon, OnlyCloses
<1>8. CASE ExitResidual(item)
  <2>1. mem' = mem \/ mem' = Filled(item.sig)
    BY <1>8 DEF ExitResidual, Fill, SkipFill, BookFill, Update, Filled, books
  <2> QED BY <1>1, <1>3, <1>6, <1>8, <2>1 DEF ExitResidual
<1>9. CASE ExitVerified(item)
  <2>1. mem' = mem \/ mem' = Closed(mem, item.sig)
    BY <1>9 DEF ExitVerified, Update
  <2> QED BY <1>1, <1>3, <1>5, <1>9, <2>1 DEF ExitVerified
<1>10. CASE ExitFailed(item) \/ ExitTimesOut(item)
  <2>1. mem' = mem \/ mem' = Unstamped \/ (wallet = 0 /\ mem' = WrittenOff)
    BY <1>0, <1>10 DEF ExitFailed, FullExitFailed, ExitTimesOut, Update, OnlyCloses
  <2> QED BY <1>0, <1>1, <1>3, <1>4, <2>1, UnstampedFields
<1>11. CASE VerifyRetry(item) \/ PartialExitFailed(item)
  <2>1. mem' = mem
    BY <1>11 DEF VerifyRetry, PartialExitFailed, books
  <2> QED BY <1>1, <1>3, <2>1
<1>12. CASE RemoveOrphanEntry(item)
  <2>1. mem' = [mem EXCEPT !.there = FALSE]
    BY <1>12 DEF RemoveOrphanEntry
  <2>2. mem'.booked = mem.booked /\ mem'.open = mem.open /\ mem'.pnl = mem.pnl
    BY <1>0, <2>1 DEF Position
  <2> QED BY <1>1, <1>3, <2>2
<1> QED BY <1>1, <1>7, <1>8, <1>9, <1>10, <1>11, <1>12 DEF Transitions

LEMMA LossStep ==
  ASSUME LossInv, OnlyCloses, [Next]_vars
  PROVE  LossInv'
<1>0. Types /\ Types' /\ Covered(mem) /\ Covered(db) /\ mem \in Position /\ db \in Position
  BY StepTypes DEF LossInv, Types, RestOK
<1>1. ASSUME UNCHANGED onChain, mem' = mem \/ mem' = db \/ mem' = Unstamped
                                \/ \E s \in Sigs : mem' = [mem EXCEPT !.exitSig = s],
             db' = db \/ db' = mem
      PROVE  Covered(mem)' /\ Covered(db)'
  <2>1. Sells' = Sells /\ chain' = chain /\ wallet' = wallet
    BY <1>1 DEF Sells, Used, onChain
  <2>2. \/ mem' = db
        \/ mem'.booked = mem.booked /\ mem'.open = mem.open /\ mem'.pnl = mem.pnl
    BY <1>0, <1>1, UnstampedFields DEF Position
  <2> QED BY <1>0, <1>1, <2>1, <2>2 DEF Covered
<1>2. CASE \E c \in Callers : Caller(c)
  <2>1. PICK c \in Callers : Caller(c)
    BY <1>2
  <2>2. CASE SwapSubmits(c)
    <3>1. UNCHANGED <<mem, db>>
      BY <2>2 DEF SwapSubmits, books
    <3> QED BY <1>0, <2>2, <3>1, CoveredBySubmit DEF LossInv, Covered
  <2>3. CASE ~SwapSubmits(c)
    <3>1. call[c].at = "stamp" => call[c].sig \in Sigs
      BY <1>0, CallFields DEF Types
    <3>2. UNCHANGED <<onChain, db>>
          /\ (mem' = mem \/ (call[c].at = "stamp" /\ mem' = [mem EXCEPT !.exitSig = call[c].sig]))
      BY <2>1, <2>3 DEF Caller, CallerWorks, PartialBegin, DcaBegin, CloseBegin, SwapFails,
         RegisterPending, PersistPending, PersistPendingFails, DcaWithoutPrice, StampExit,
         enqueue_verification, books
    <3> QED BY <1>0, <1>1, <3>1, <3>2 DEF LossInv
  <2> QED BY <2>2, <2>3
<1>3. CASE \E s \in Sigs : Lands(s) \/ Dies(s)
  <2>1. PICK s \in Sigs : Lands(s) \/ Dies(s)
    BY <1>3
  <2>2. UNCHANGED <<mem, db>>
    BY <2>1 DEF Lands, Dies, books
  <2> QED BY <1>0, <2>1, <2>2, CoveredByChain DEF LossInv, Covered
<1>4. CASE Verify
  <2>1. Covered(mem)' /\ db' = db /\ UNCHANGED onChain
    BY <1>4, CoveredByVerdict DEF Verify
  <2>2. Covered(db)'
    BY <1>0, <2>1 DEF Covered, Sells, Used, onChain
  <2> QED BY <1>0, <2>1, <2>2 DEF LossInv
<1>5. CASE Worker /\ ~Verify
  <2>1. UNCHANGED onChain /\ (mem' = mem \/ mem' = Unstamped) /\ (db' = db \/ db' = mem)
    BY <1>5 DEF Worker, Guard, Collect, RenewExit, ExpireDca, Poll, EndBatch, Apply, Persist,
       PersistFails, Record, ClearPending, StorePending, StorePendingFails, Settle, Unstamp,
       Update, books
  <2> QED BY <1>0, <1>1, <2>1 DEF LossInv
<1>6. CASE Restart
  <2>1. UNCHANGED <<onChain, db>> /\ mem' = db
    BY <1>6 DEF Restart
  <2> QED BY <1>0, <1>1, <2>1 DEF LossInv
<1>7. CASE UNCHANGED vars
  <2>1. UNCHANGED <<onChain, mem, db>>
    BY <1>7 DEF vars, books
  <2> QED BY <1>0, <1>1, <2>1 DEF LossInv
<1> QED BY <1>2, <1>3, <1>4, <1>5, <1>6, <1>7 DEF Next

\* While a position is left by full closes only, the P&L recorded when it closes
\* covers every sell it has booked, the fills of closes that left a residual
\* included, whatever writes fail and however often the program restarts
\* (apply.rs, ExitVerified: sol_received accumulates). A partial exit that is
\* verified after an overlapping close is what this needs to be without.
THEOREM LossesLandInFull ==
  ASSUME OnlyCloses
  PROVE  Spec => []LossLandsInFull
<1>1. LossInv => LossLandsInFull
  BY DEF LossInv, Covered, LossLandsInFull, Booked
<1>2. Init => LossInv
  BY LossInit
<1>3. LossInv /\ [Next]_vars => LossInv'
  BY LossStep
<1> QED BY <1>1, <1>2, <1>3, PTL DEF Spec

-----------------------------------------------------------------------------
(* Partial exits across crashes: at most one swap is anywhere *)

\* Partial exits only; writes succeed, and a verdict is awaited.
OnlyPartials == Ops \subseteq {"partial"} /\ "late" \notin Faults /\ "db" \notin Faults

PP == pending["partial"]
MP == metadata["partial"]

\* Neither a caller nor the worker has a swap in hand.
Idle     == \A c \in Callers : call[c].at = "idle"
Rested   == queue = {} /\ wrk.batch = {} /\ wrk.at \in Resting
Nobody   == Idle /\ Rested /\ PP = {} /\ MP = {}

\* A caller on its way from sizing its swap to enqueueing it is alone.
CallerAlone ==
    \A c \in Callers : call[c].at # "idle" =>
        /\ \A d \in Callers : d # c => call[d].at = "idle"
        /\ Rested
        /\ call[c].at \in {"swap", "register"} => PP = {} /\ MP = {}
        /\ call[c].at # "swap" => call[c].sig \in Used
        /\ call[c].at \in {"register", "persist"} => call[c].sig \notin registered
        /\ call[c].at = "persist" => PP = {call[c].sig} /\ call[c].snap = PP /\ MP = {}
        /\ call[c].at = "submitted" => PP = {call[c].sig} /\ MP = PP
        /\ call[c].at # "stamp"

\* A queued swap is the registered one.
ItemAlone ==
    /\ \A i, j \in queue \cup wrk.batch : i = j
    /\ queue = {} \/ wrk.batch = {}
    /\ \A i \in queue \cup wrk.batch : PP = {i.sig} /\ MP = PP

\* So is the one the worker writes, until it clears the registry, then its copy.
WorkAlone ==
    wrk.at \notin Resting =>
        /\ queue = {} /\ wrk.batch = {}
        /\ wrk.doing \in {"partial", "partial_again", "retry_clear", "synthetic"}
        /\ wrk.doing \in {"retry_clear", "synthetic"} => wrk.at = "persist"
        /\ wrk.at \in {"persist", "record", "clear"} => PP = {wrk.item.sig} /\ MP = PP
        /\ wrk.at = "store" => PP = {} /\ MP = {wrk.item.sig} /\ wrk.snap = {}
        /\ wrk.at = "settle" => PP = {} /\ MP = {}
        /\ wrk.at # "unstamp"

\* The two copies agree but for the moments between their writes.
CopiesAgree ==
    /\ Idle /\ wrk.at # "store" => MP = PP
    /\ \A s, t \in PP \cup MP : s = t
    /\ PP \cup MP \subseteq Used
    /\ pending["dca"] = {} /\ metadata["dca"] = {}

\* Nothing but partial exits: the position stays, without an exit signature.
PartialsOnly ==
    /\ mem.there /\ db.there /\ mem.exitSig = None /\ db.exitSig = None
    /\ registered \subseteq Used

\* What is booked was booked in memory first, and the registry is cleared last.
WrittenInTurn ==
    /\ \A s \in Sigs : db.booked[s] > 0 => mem.booked[s] > 0
    /\ \A s \in records : db.booked[s] > 0
    /\ wrk.at = "persist" /\ wrk.doing = "partial" => mem.booked[wrk.item.sig] > 0
    /\ wrk.at \in {"record", "clear", "store", "settle"} => db.booked[wrk.item.sig] > 0

\* A registered swap that is still going, or has landed unbooked, is in the metadata.
Durable ==
    \A s \in registered : chain[s] \in {"sent", "landed"} /\ db.booked[s] = 0 => MP = {s}

Alone ==
    /\ partials \in {0, 1} /\ (partials = 0 => Nobody)
    /\ CallerAlone /\ ItemAlone /\ WorkAlone /\ CopiesAgree

DurableInv == Types /\ Alone /\ PartialsOnly /\ WrittenInTurn /\ Durable

LEMMA UsedArePartials ==
  ASSUME Types, OnlyPartials, NEW s \in Used
  PROVE  swap[s].op = "partial" /\ s \in Sigs
  BY DEF Types, ChainOK, OnlyPartials, Used

LEMMA OpsArePartials ==
  ASSUME Types, OnlyPartials, NEW c \in Callers, call[c].at # "idle"
  PROVE  call[c].op = "partial"
  BY CallFields DEF Types, OnlyPartials

LEMMA NoneNotSig == None \notin Sigs
  OBVIOUS

LEMMA DurableInit ==
  ASSUME Init
  PROVE  DurableInv
<1>1. Types
  BY InitTypes
<1>2. PP = {} /\ MP = {} /\ pending["dca"] = {} /\ metadata["dca"] = {}
  BY DEF Init, PP, MP, Kinds
<1>3. Rested /\ Idle
  BY DEF Init, Rested, Idle, Resting, IdleCall
<1>4. Alone
  BY <1>2, <1>3 DEF Alone, Nobody, CallerAlone, ItemAlone, WorkAlone, CopiesAgree, Idle, Rested, Init
<1>5. PartialsOnly /\ WrittenInTurn /\ Durable
  BY DEF Init, PartialsOnly, WrittenInTurn, Durable
<1> QED BY <1>1, <1>4, <1>5 DEF DurableInv

\* An inactive caller or worker is what it looks like.
LEMMA AloneFacts ==
  ASSUME Alone, NEW c \in Callers, call[c].at # "idle"
  PROVE  /\ partials = 1 /\ Rested /\ \A d \in Callers : d # c => call[d].at = "idle"
  BY DEF Alone, CallerAlone, Nobody, Idle

\* What a caller's steps leave alone.
LEMMA BooksKept ==
  ASSUME PartialsOnly, WrittenInTurn, UNCHANGED <<books, wrk, registered>>, Used' = Used
  PROVE  PartialsOnly' /\ WrittenInTurn'
  BY DEF PartialsOnly, WrittenInTurn, books

LEMMA DurableCaller ==
  ASSUME DurableInv, OnlyPartials, NEW c \in Callers, Caller(c)
  PROVE  DurableInv'
<1>0. /\ Types /\ Alone /\ PartialsOnly /\ WrittenInTurn /\ Durable
      /\ ChainOK /\ CallsOK /\ RestOK /\ RegistryOK /\ "db" \notin Faults
  BY DEF DurableInv, Types, OnlyPartials
<1>t. Types'
  BY <1>0, CallerTypes
<1>f. call[c].at \notin {"idle", "swap"} => call[c].sig \in Sigs
  BY <1>0, CallFields
<1>p. call[c].at # "idle" => call[c].op = "partial" /\ partials = 1 /\ Rested
                             /\ \A d \in Callers : d # c => call[d].at = "idle"
  BY <1>0, OpsArePartials, AloneFacts
<1>k. {"partial"} \subseteq Kinds /\ Kinds = {"partial", "dca"}
  BY DEF Kinds
<1>1. CASE PartialBegin(c) \/ DcaBegin(c) \/ CloseBegin(c)
  <2>1. PICK op \in Ops, lots \in Nat :
            /\ Starts(c, op, lots)
            /\ op = "partial" => partials = 0 /\ partials' = partials + 1
            /\ UNCHANGED <<onChain, books, pending, metadata, queue, wrk, boots, registered>>
    BY <1>0, <1>1, BeginsOK
  <2>2. /\ call'[c].at = "swap" /\ call'[c].op = op /\ call'[c].sig = None
        /\ \A d \in Callers : d # c => call'[d] = call[d]
    BY <1>0, <2>1, StartsOK
  <2>3. partials = 0 /\ partials' = 1 /\ Nobody
    BY <1>0, <2>1 DEF OnlyPartials, Alone
  <2>4. Used' = Used /\ PP' = PP /\ MP' = MP /\ Rested' /\ chain' = chain
    BY <2>1, <2>3 DEF Used, onChain, PP, MP, Rested, Nobody
  <2>5. Alone'
    <3>1. CallerAlone'
      BY <2>2, <2>3, <2>4 DEF CallerAlone, Nobody, Idle
    <3>2. ItemAlone' /\ WorkAlone' /\ CopiesAgree'
      BY <1>0, <2>1, <2>3, <2>4 DEF ItemAlone, WorkAlone, CopiesAgree, Rested, Nobody, Alone
    <3> QED BY <2>3, <3>1, <3>2 DEF Alone
  <2>6. PartialsOnly' /\ WrittenInTurn'
    BY <1>0, <2>1, <2>4, BooksKept
  <2>7. Durable'
    BY <1>0, <2>1, <2>4 DEF Durable, books
  <2> QED BY <1>t, <2>5, <2>6, <2>7 DEF DurableInv
<1>2. CASE SwapFails(c)
  <2>1. /\ call[c].at = "swap" /\ Leaves(c)
        /\ partials' = IF call[c].op = "partial" THEN clear_partial_exit_pending(partials)
                       ELSE partials
        /\ UNCHANGED <<onChain, books, pending, metadata, queue, wrk, registered>>
    BY <1>2 DEF SwapFails
  <2>2. call'[c].at = "idle" /\ \A d \in Callers : d # c => call'[d] = call[d]
    BY <1>0, <2>1, LeavesOK, IdleOK DEF RestOK
  <2>3. Used' = Used /\ PP' = PP /\ MP' = MP /\ Rested' = Rested /\ chain' = chain
    BY <2>1 DEF Used, onChain, PP, MP, Rested
  <2>4. PP = {} /\ MP = {} /\ Rested
    BY <1>0, <2>1 DEF Alone, CallerAlone
  <2>5. Nobody' /\ partials' = 0
    BY <1>p, <2>1, <2>2, <2>3, <2>4, CountsDown DEF Nobody, Idle
  <2>6. Alone'
    BY <1>0, <2>1, <2>3, <2>5 DEF Alone, CallerAlone, ItemAlone, WorkAlone, CopiesAgree, Rested,
       Nobody, Idle
  <2>7. PartialsOnly' /\ WrittenInTurn'
    BY <1>0, <2>1, <2>3, BooksKept
  <2>8. Durable'
    BY <1>0, <2>1, <2>3 DEF Durable, books
  <2> QED BY <1>t, <2>6, <2>7, <2>8 DEF DurableInv
<1>3. CASE SwapSubmits(c)
  <2>n. PICK n \in Sigs : n = NextSig
    BY <1>0, <1>3, SubmitsOK
  <2>1. /\ call[c].at = "swap" /\ chain[n] = "unused"
        /\ \A s \in Sigs : s # n => swap'[s] = swap[s] /\ chain'[s] = chain[s]
        /\ call'[c].at = "register" /\ call'[c].sig = n /\ chain'[n] = "sent"
        /\ \A d \in Callers : d # c => call'[d] = call[d]
        /\ UNCHANGED <<books, registry, queue, wrk, registered>>
    BY <1>0, <1>3, <1>p, <2>n, SubmitsOK
  <2>2. Used' = Used \cup {n} /\ n \notin Used
    BY <2>1 DEF Used
  <2>3. PP' = PP /\ MP' = MP /\ Rested' = Rested /\ partials' = partials
        /\ pending' = pending /\ metadata' = metadata /\ mem' = mem /\ db' = db
        /\ records' = records
    BY <2>1 DEF PP, MP, Rested, registry, books
  <2>4. PP = {} /\ MP = {} /\ Rested
    BY <1>0, <2>1 DEF Alone, CallerAlone
  <2>5. Alone'
    <3>1. CallerAlone'
      BY <1>0, <1>p, <2>1, <2>2, <2>3, <2>4 DEF CallerAlone, Rested, PartialsOnly
    <3>2. ItemAlone' /\ WorkAlone' /\ CopiesAgree'
      BY <1>0, <2>1, <2>3, <2>4 DEF ItemAlone, WorkAlone, CopiesAgree, Rested, Alone
    <3> QED BY <1>p, <2>1, <2>3, <3>1, <3>2 DEF Alone
  <2>6. PartialsOnly' /\ WrittenInTurn'
    BY <1>0, <2>1, <2>2, <2>3 DEF PartialsOnly, WrittenInTurn
  <2>7. Durable'
    BY <1>0, <2>1, <2>2, <2>3 DEF Durable, PartialsOnly, RestOK
  <2> QED BY <1>t, <2>5, <2>6, <2>7 DEF DurableInv
<1>4. CASE RegisterPending(c)
  <2>1. /\ call[c].at = "register" /\ PP' = PP \cup {call[c].sig}
        /\ pending'["dca"] = pending["dca"] /\ call'[c].at = "persist"
        /\ call'[c].sig = call[c].sig /\ call'[c].snap = PP'
        /\ \A d \in Callers : d # c => call'[d] = call[d]
        /\ UNCHANGED <<onChain, books, metadata, partials, queue, wrk, registered>>
    BY <1>0, <1>4, <1>k, <1>p, RegistersOK DEF PP, RegisterPending
  <2>2. Used' = Used /\ MP' = MP /\ Rested' = Rested /\ chain' = chain
    BY <2>1 DEF Used, onChain, MP, Rested
  <2>3. PP = {} /\ MP = {} /\ Rested /\ call[c].sig \in Used /\ call[c].sig \notin registered
    BY <1>0, <2>1 DEF Alone, CallerAlone
  <2>4. Alone'
    <3>1. CallerAlone'
      BY <1>0, <1>p, <2>1, <2>2, <2>3 DEF CallerAlone, Rested
    <3>2. ItemAlone' /\ WorkAlone' /\ CopiesAgree'
      BY <1>0, <2>1, <2>2, <2>3 DEF ItemAlone, WorkAlone, CopiesAgree, Rested, Alone, Idle
    <3> QED BY <1>p, <2>1, <3>1, <3>2 DEF Alone
  <2>5. PartialsOnly' /\ WrittenInTurn'
    BY <1>0, <2>1, <2>2, BooksKept
  <2>6. Durable'
    BY <1>0, <2>1, <2>2 DEF Durable, books
  <2> QED BY <1>t, <2>4, <2>5, <2>6 DEF DurableInv
<1>5. CASE PersistPending(c)
  <2>1. /\ call[c].at = "persist" /\ metadata' = Persisted("partial", call[c].snap)
        /\ registered' = registered \cup {call[c].sig} /\ Goes(c, "submitted")
        /\ UNCHANGED <<onChain, books, pending, partials, queue, wrk>>
    BY <1>5, <1>p DEF PersistPending
  <2>2. call[c].snap \subseteq Sigs
    BY <1>0, CallFields
  <2>3. MP' = call[c].snap /\ metadata'["dca"] = metadata["dca"]
    BY <1>0, <1>k, <2>1, <2>2, PersistedOK DEF MP
  <2>4. /\ call'[c].at = "submitted" /\ call'[c].sig = call[c].sig
        /\ \A d \in Callers : d # c => call'[d] = call[d]
    BY <1>0, <1>f, <2>1, GoesOK
  <2>5. Used' = Used /\ PP' = PP /\ Rested' = Rested /\ chain' = chain
    BY <2>1 DEF Used, onChain, PP, Rested
  <2>6. PP = {call[c].sig} /\ call[c].snap = PP /\ MP = {} /\ call[c].sig \in Used /\ Rested
    BY <1>0, <2>1 DEF Alone, CallerAlone
  <2>7. Alone'
    <3>1. CallerAlone'
      BY <1>0, <1>p, <2>1, <2>3, <2>4, <2>5, <2>6 DEF CallerAlone, Rested
    <3>2. ItemAlone' /\ WorkAlone' /\ CopiesAgree'
      BY <1>0, <2>1, <2>3, <2>4, <2>5, <2>6 DEF ItemAlone, WorkAlone, CopiesAgree, Rested, Alone, Idle
    <3> QED BY <1>p, <2>1, <3>1, <3>2 DEF Alone
  <2>8. PartialsOnly' /\ WrittenInTurn'
    BY <1>0, <2>1, <2>5, <2>6 DEF PartialsOnly, WrittenInTurn, books
  <2>9. Durable'
    BY <1>0, <2>1, <2>3, <2>5, <2>6 DEF Durable, books
  <2> QED BY <1>t, <2>7, <2>8, <2>9 DEF DurableInv
<1>6. CASE enqueue_verification(c)
  <2>1. /\ call[c].at = "submitted" /\ Leaves(c)
        /\ queue' = enqueue(queue, NewItem(call[c].sig, call[c].op # "close" \/ is_position_open))
        /\ UNCHANGED <<onChain, books, registry, wrk, registered>>
    BY <1>6 DEF enqueue_verification
  <2>2. call'[c].at = "idle" /\ \A d \in Callers : d # c => call'[d] = call[d]
    BY <1>0, <2>1, LeavesOK, IdleOK DEF RestOK
  <2>3. PP = {call[c].sig} /\ MP = PP /\ Rested
    BY <1>0, <2>1 DEF Alone, CallerAlone
  <2>4. \E j : j.sig = call[c].sig /\ queue' = {j}
    BY <2>1, <2>3 DEF enqueue, NewItem, Rested
  <2>5. Used' = Used /\ PP' = PP /\ MP' = MP /\ chain' = chain /\ pending' = pending
        /\ metadata' = metadata /\ partials' = partials /\ wrk' = wrk
    BY <2>1 DEF Used, onChain, PP, MP, registry
  <2>6. Idle'
    BY <1>p, <2>1, <2>2 DEF Idle
  <2>7. Alone'
    <3>1. CallerAlone'
      BY <2>6 DEF CallerAlone, Idle
    <3>2. ItemAlone'
      BY <2>3, <2>4, <2>5 DEF ItemAlone, Rested
    <3>3. WorkAlone' /\ CopiesAgree'
      BY <1>0, <2>1, <2>3, <2>5 DEF WorkAlone, CopiesAgree, Rested, Alone
    <3> QED BY <1>p, <2>1, <2>5, <3>1, <3>2, <3>3 DEF Alone
  <2>8. PartialsOnly' /\ WrittenInTurn'
    BY <1>0, <2>1, <2>5, BooksKept
  <2>9. Durable'
    BY <1>0, <2>1, <2>5 DEF Durable, books
  <2> QED BY <1>t, <2>7, <2>8, <2>9 DEF DurableInv
<1>7. ~PersistPendingFails(c) /\ ~DcaWithoutPrice(c) /\ ~StampExit(c)
  BY <1>0, <1>p DEF PersistPendingFails, DcaWithoutPrice, StampExit, Alone, CallerAlone
<1> QED BY <1>1, <1>2, <1>3, <1>4, <1>5, <1>6, <1>7 DEF Caller, CallerWorks

LEMMA DurableChain ==
  ASSUME DurableInv, NEW t \in Sigs, Lands(t) \/ Dies(t)
  PROVE  DurableInv'
<1>0. Types /\ Alone /\ PartialsOnly /\ WrittenInTurn /\ Durable /\ ChainOK /\ Types'
  BY ChainTypes DEF DurableInv, Types
<1>1. /\ chain[t] = "sent" /\ swap' = swap /\ Used' = Used
      /\ \A s \in Sigs : s # t => chain'[s] = chain[s]
      /\ UNCHANGED <<books, registry, queue, wrk, call, registered>>
  BY <1>0, DecidesOK
<1>2. /\ PP' = PP /\ MP' = MP /\ Rested' = Rested /\ Idle' = Idle
      /\ UNCHANGED <<partials, pending, metadata>>
  BY <1>1 DEF PP, MP, Rested, Idle, registry
<1>3. Alone'
  BY <1>0, <1>1, <1>2 DEF Alone, CallerAlone, ItemAlone, WorkAlone, CopiesAgree, Nobody
<1>4. PartialsOnly' /\ WrittenInTurn'
  BY <1>0, <1>1, BooksKept
<1>5. Durable'
  BY <1>0, <1>1, <1>2 DEF Durable, books, Types, RestOK
<1> QED BY <1>0, <1>3, <1>4, <1>5 DEF DurableInv

\* Guard finds no exit to re-enqueue and no add expires; an item only moves.
LEMMA DurableCycle ==
  ASSUME DurableInv, OnlyPartials,
         Guard \/ Collect \/ EndBatch \/ \E batch \in SUBSET queue : Poll(batch)
  PROVE  DurableInv'
<1>0. /\ Types /\ Alone /\ PartialsOnly /\ WrittenInTurn /\ Durable /\ Types' /\ WorkerOK
      /\ queue \subseteq Item
  BY CycleTypes DEF DurableInv, Types, RestOK
<1>1. UNCHANGED <<onChain, books, registry, call, registered>> /\ wrk.at \in Resting
  BY DEF Guard, Collect, RenewExit, ExpireDca, EndBatch, Poll, WorkerAt, Resting
<1>2. /\ wrk'.at \in Resting
      /\ \A i \in queue' \cup wrk'.batch : \E j \in queue \cup wrk.batch : j.sig = i.sig
      /\ \A i, j \in queue' \cup wrk'.batch : i = j
      /\ queue' = {} \/ wrk'.batch = {}
  <2>0. (\A i, j \in queue \cup wrk.batch : i = j) /\ (queue = {} \/ wrk.batch = {})
    BY <1>0 DEF Alone, ItemAlone
  <2>1. CASE Guard
    <3>1. wrk' = [wrk EXCEPT !.at = "gc"] /\ GuardItems = {}
          /\ queue' = queue \cup {i \in GuardItems : enqueue(queue, i) # queue}
      BY <1>0, <2>1 DEF Guard, GuardItems, PartialsOnly
    <3>2. wrk'.at = "gc" /\ wrk'.batch = wrk.batch
      BY <1>0, <3>1 DEF WorkerOK, WorkerT
    <3> QED BY <2>0, <3>1, <3>2 DEF Resting
  <2>2. ASSUME NEW item \in queue, RenewExit(item)
        PROVE  /\ wrk' = wrk /\ wrk.batch = {}
               /\ \E j : j.sig = item.sig /\ queue' = {j}
    <3>1. queue = {item} /\ wrk.batch = {}
      BY <2>0, <2>2
    <3>2. queue' = enqueue(queue \ {item}, NewItem(item.sig, item.known)) /\ wrk' = wrk
      BY <2>2 DEF RenewExit
    <3> QED BY <3>1, <3>2 DEF enqueue, NewItem
  <2>3. ASSUME NEW item \in queue, ExpireDca(item)
        PROVE  FALSE
    <3>1. MP = {item.sig} /\ PP = MP
      BY <1>0, <2>3 DEF Alone, ItemAlone
    <3>2. item.sig \in Used
      BY <1>0, <3>1 DEF Alone, CopiesAgree
    <3> QED BY <1>0, <2>3, <3>2, UsedArePartials DEF ExpireDca
  <2>4. ASSUME NEW batch \in SUBSET queue, Poll(batch)
        PROVE  wrk'.at = "batch" /\ wrk'.batch = batch /\ queue' = queue \ batch
    BY <1>0, <2>4, PollFields
  <2>5. CASE EndBatch
    <3>1. wrk' = [wrk EXCEPT !.at = "cycle"] /\ queue' = queue
      BY <2>5 DEF EndBatch, WorkerGoes
    <3>2. wrk'.at = "cycle" /\ wrk'.batch = wrk.batch
      BY <1>0, <3>1 DEF WorkerOK, WorkerT
    <3> QED BY <2>0, <3>1, <3>2 DEF Resting
  <2>6. CASE \E item \in queue : RenewExit(item)
    BY <1>1, <2>2, <2>6
  <2>7. CASE \E item \in queue : ExpireDca(item)
    BY <2>3, <2>7
  <2>8. CASE \E batch \in SUBSET queue : Poll(batch)
    BY <2>0, <2>4, <2>8 DEF Resting
  <2> QED BY <2>1, <2>5, <2>6, <2>7, <2>8 DEF Collect
<1>3. /\ PP' = PP /\ MP' = MP /\ Idle' = Idle /\ Used' = Used /\ UNCHANGED chain
      /\ UNCHANGED <<partials, pending, metadata>>
  BY <1>1 DEF PP, MP, Idle, Used, onChain, registry
<1>4. Rested => Rested'
  BY <1>2 DEF Rested
<1>5. Alone'
  <2>1. CallerAlone'
    BY <1>0, <1>1, <1>3, <1>4 DEF Alone, CallerAlone
  <2>2. ItemAlone'
    BY <1>0, <1>2, <1>3 DEF Alone, ItemAlone
  <2>3. WorkAlone' /\ CopiesAgree'
    <3>1. wrk.at # "store" /\ wrk'.at # "store"
      BY <1>1, <1>2 DEF Resting
    <3> QED BY <1>0, <1>2, <1>3, <3>1 DEF Alone, WorkAlone, CopiesAgree
  <2> QED BY <1>0, <1>3, <1>4, <2>1, <2>2, <2>3 DEF Alone, Nobody
<1>6. PartialsOnly' /\ WrittenInTurn'
  BY <1>0, <1>1, <1>2, <1>3 DEF PartialsOnly, WrittenInTurn, books, Resting
<1>7. Durable'
  BY <1>0, <1>1, <1>3 DEF Durable, books
<1> QED BY <1>0, <1>5, <1>6, <1>7 DEF DurableInv

\* A restart keeps the swap that the metadata names, if there is one.
LEMMA DurableRestart ==
  ASSUME DurableInv, OnlyPartials, Restart
  PROVE  DurableInv'
<1>0. /\ Types /\ Alone /\ PartialsOnly /\ WrittenInTurn /\ Durable /\ RegistryOK /\ Types'
      /\ wrk'.at = "cycle" /\ wrk'.batch = {} /\ \A c \in Callers : call'[c] = IdleCall
  BY RestartOK DEF DurableInv, Types
<1>1. /\ mem' = db /\ db' = db /\ pending' = metadata /\ metadata' = metadata
      /\ partials' = Cardinality(MP) /\ queue' = RestoredItems
      /\ UNCHANGED <<onChain, records, registered>>
  BY DEF Restart, MP
<1>2. PP' = MP /\ MP' = MP /\ Used' = Used /\ chain' = chain
  BY <1>1 DEF PP, MP, Used, onChain
<1>3. Idle'
  BY <1>0, IdleOK DEF Idle
<1>4. RestoredItems = {NewItem(s, TRUE) : s \in MP}
  BY <1>0 DEF RestoredItems, PartialsOnly, Alone, CopiesAgree, MP
<1>5. MP = {} \/ \E s \in Used : MP = {s}
  <2>1. (\A s, t \in MP : s = t) /\ MP \subseteq Used
    BY <1>0 DEF Alone, CopiesAgree
  <2> QED BY <2>1
<1>6. CASE MP = {}
  <2>1. partials' = 0 /\ queue' = {}
    BY <1>1, <1>4, <1>6, FS_EmptySet
  <2>2. Nobody'
    BY <1>0, <1>2, <1>3, <1>6, <2>1 DEF Nobody, Rested, Resting
  <2>3. Alone'
    BY <1>0, <1>1, <1>2, <1>3, <1>6, <2>1, <2>2 DEF Alone, CallerAlone, ItemAlone, WorkAlone,
       CopiesAgree, Nobody, Idle, Resting
  <2>4. PartialsOnly' /\ WrittenInTurn' /\ Durable'
    BY <1>0, <1>1, <1>2 DEF PartialsOnly, WrittenInTurn, Durable
  <2> QED BY <1>0, <2>3, <2>4 DEF DurableInv
<1>7. CASE \E s \in Used : MP = {s}
  <2>s. PICK s \in Used : MP = {s}
    BY <1>7
  <2>1. partials' = 1
    BY <1>1, <2>s, FS_Singleton
  <2>2. \A i \in queue' : i = NewItem(s, TRUE)
    BY <1>1, <1>4, <2>s
  <2>3. \A i \in queue' : i.sig = s
    BY <2>2 DEF NewItem
  <2>4. Alone'
    <3>1. CallerAlone'
      BY <1>3 DEF CallerAlone, Idle
    <3>2. ItemAlone'
      BY <1>0, <1>2, <2>s, <2>2, <2>3 DEF ItemAlone
    <3>3. WorkAlone'
      BY <1>0 DEF WorkAlone, Resting
    <3>4. CopiesAgree'
      BY <1>0, <1>1, <1>2, <2>s DEF CopiesAgree, Alone
    <3> QED BY <2>1, <3>1, <3>2, <3>3, <3>4 DEF Alone
  <2>5. PartialsOnly' /\ WrittenInTurn' /\ Durable'
    BY <1>0, <1>1, <1>2 DEF PartialsOnly, WrittenInTurn, Durable
  <2> QED BY <1>0, <2>4, <2>5 DEF DurableInv
<1> QED BY <1>5, <1>6, <1>7

\* What a verdict on the one queued swap can do.
LEMMA PartialVerdict ==
  ASSUME DurableInv, OnlyPartials, NEW item \in wrk.batch, VerifyRetry(item) \/ Transitions(item)
  PROVE  /\ item \in Item /\ wrk.at = "batch" /\ wrk.batch = {item} /\ queue = {}
         /\ wrk'.batch = {} /\ UNCHANGED <<onChain, db, records, call, registered>>
         /\ mem'.there = mem.there /\ (mem'.exitSig = mem.exitSig \/ mem'.exitSig = None)
         /\ \A s \in Sigs : mem.booked[s] > 0 => mem'.booked[s] > 0
         /\ \/ /\ wrk'.at \in Resting /\ UNCHANGED registry
               /\ \E j : j.sig = item.sig /\ queue' \subseteq {j}
            \/ /\ wrk'.at \in Resting /\ queue' = {} /\ DropPartials /\ chain[item.sig] = "failed"
            \/ /\ wrk'.item = item /\ queue' = {} /\ UNCHANGED registry
               /\ \/ wrk'.at = "persist" /\ wrk'.doing = "partial" /\ mem'.booked[item.sig] > 0
                  \/ wrk'.at = "persist" /\ wrk'.doing \in {"retry_clear", "synthetic"}
                  \/ wrk'.at = "clear" /\ wrk'.doing = "partial_again" /\ item.sig \in records
<1>0. /\ Types /\ WorkerOK /\ RestOK /\ Alone /\ PartialsOnly /\ item \in Item /\ item.sig \in Sigs
      /\ queue \subseteq Item /\ mem.booked \in [Sigs -> Nat] /\ mem.there
  <2>1. item \in Item
    BY WorkerFields DEF DurableInv, Types
  <2> QED BY <2>1, MemFields DEF DurableInv, Types, RestOK, Item, PartialsOnly
<1>1. wrk.at = "batch" /\ wrk.doing = None /\ wrk.doing # "expired" /\ wrk.doing # "abandoned"
  <2>1. wrk.at = "batch"
    BY DEF Polled, WorkerAt, VerifyRetry, Transitions, PartialExitVerified,
       ExitResidual, DcaVerified, ExitVerified, ExitFailed, PartialExitFailed, RemoveOrphanEntry,
       ExitTimesOut, Abandon
  <2> QED BY <1>0, <2>1, WorkerFields DEF Resting
<1>2. wrk.batch = {item} /\ queue = {} /\ PP = {item.sig} /\ MP = PP /\ item.sig \in Used
  BY <1>0 DEF Alone, ItemAlone, CopiesAgree
<1>3. swap[item.sig].op = "partial" /\ swap[item.sig].op # "close" /\ swap[item.sig].op # "dca"
  BY <1>0, <1>2, UsedArePartials
<1>4. UNCHANGED <<onChain, db, records, call, registered>>
  BY DEF VerifyRetry, Transitions, PartialExitVerified, ExitResidual, Fill, SkipFill, BookFill,
     DcaVerified, ExitVerified, ExitFailed, FullExitFailed, PartialExitFailed,
     RemoveOrphanEntry, ExitTimesOut, Abandon, books, Shared
<1>a. ASSUME Applied(item)
      PROVE  queue' = {} /\ wrk'.batch = {} /\ wrk'.at \in Resting
  BY <1>0, <1>2, <1>a, AppliedOK, RestFields DEF Resting
<1>b. ASSUME NEW at \in {"persist", "clear"}, NEW what \in Transition, Doing(item, at, what)
      PROVE  wrk'.at = at /\ wrk'.batch = {} /\ wrk'.item = item /\ wrk'.doing = what
  BY <1>0, <1>2, <1>b, DoingFields DEF Stages
<1>c. {"partial", "partial_again", "retry_clear", "synthetic"} \subseteq Transition
  BY DEF Transition
<1>5. CASE VerifyRetry(item)
  <2>1. NotApplied(item) /\ mem' = mem /\ UNCHANGED registry
    BY <1>5 DEF VerifyRetry, books
  <2>2. wrk' = Rest(item) /\ queue' = requeue(queue, item)
    BY <1>1, <2>1 DEF NotApplied
  <2>3. wrk'.batch = {} /\ wrk'.at \in Resting
    BY <1>0, <1>2, <2>2, RestFields DEF Resting
  <2>4. \E j : j.sig = item.sig /\ queue' \subseteq {j}
    <3> DEFINE again == [item EXCEPT !.attempts = @ + 1]
    <3>1. again.sig = item.sig
      BY <1>0 DEF Item
    <3>2. queue' \subseteq {again}
      BY <1>2, <2>2 DEF requeue
    <3> HIDE DEF again
    <3> QED BY <3>1, <3>2
  <2> QED BY <1>0, <1>1, <1>2, <1>4, <2>1, <2>3, <2>4
<1>6. CASE PartialExitVerified(item)
  <2>0. Fill(item, "partial") /\ UNCHANGED registry
    BY <1>6 DEF PartialExitVerified, Fill, SkipFill, BookFill
  <2>1. CASE Recorded(item)
    <3>1. Doing(item, "clear", "partial_again") /\ queue' = queue /\ mem' = mem
          /\ item.sig \in records
      BY <1>0, <2>0, <2>1 DEF Fill, SkipFill, books, Again, Recorded
    <3> QED BY <1>0, <1>1, <1>2, <1>4, <1>b, <1>c, <2>0, <3>1
  <2>2. CASE ~Recorded(item) /\ Target(item)
    <3>1. Doing(item, "persist", "partial") /\ queue' = queue /\ mem' = Filled(item.sig)
      BY <2>0, <2>2 DEF Fill, BookFill, Update, Filled
    <3>2. /\ mem'.booked = Count(mem.booked, item.sig) /\ mem'.there = mem.there
          /\ mem'.exitSig = mem.exitSig
      BY <1>0, <3>1, FilledFields
    <3>3. mem'.booked[item.sig] > 0 /\ \A s \in Sigs : mem.booked[s] > 0 => mem'.booked[s] > 0
      <4>1. mem'.booked[item.sig] = mem.booked[item.sig] + 1
            /\ \A s \in Sigs : s # item.sig => mem'.booked[s] = mem.booked[s]
        BY <1>0, <3>2, Counted
      <4>2. \A s \in Sigs : mem.booked[s] \in Nat
        BY <1>0
      <4> QED BY <1>0, <4>1, <4>2
    <3> QED BY <1>0, <1>1, <1>2, <1>4, <1>b, <1>c, <2>0, <3>1, <3>2, <3>3
  <2>3. CASE ~Recorded(item) /\ ~Target(item)
    <3>1. Applied(item) /\ mem' = mem
      BY <2>0, <2>3 DEF Fill, BookFill, Update
    <3>2. item.sig = item.sig /\ queue' \subseteq {item}
      BY <1>a, <3>1
    <3> QED BY <1>0, <1>1, <1>2, <1>4, <1>a, <2>0, <3>1, <3>2
  <2> QED BY <2>1, <2>2, <2>3
<1>7. CASE ExitTimesOut(item)
  <2>0. UNCHANGED registry
    BY <1>7 DEF ExitTimesOut
  <2>1. PICK row \in {Unstamped, WrittenOff}, what \in {"retry_clear", "synthetic"} :
           Update(item, what, row)
    BY <1>7 DEF ExitTimesOut
  <2>2. row.booked = mem.booked /\ row.there = mem.there
        /\ (row.exitSig = mem.exitSig \/ row.exitSig = None)
    BY <1>0, <2>1, UnstampedFields, WrittenOffFields
  <2>3. CASE Target(item)
    <3>1. mem' = row /\ Doing(item, "persist", what) /\ queue' = queue
      BY <2>1, <2>3 DEF Update
    <3> QED BY <1>0, <1>1, <1>2, <1>4, <1>b, <1>c, <2>0, <2>1, <2>2, <3>1
  <2>4. CASE ~Target(item)
    <3>1. Applied(item) /\ mem' = mem
      BY <2>1, <2>4 DEF Update
    <3>2. item.sig = item.sig /\ queue' \subseteq {item}
      BY <1>a, <3>1
    <3> QED BY <1>0, <1>1, <1>2, <1>4, <1>a, <2>0, <3>1, <3>2
  <2> QED BY <2>3, <2>4
<1>8. CASE PartialExitFailed(item)
  <2>1. Applied(item) /\ DropPartials /\ chain[item.sig] = "failed" /\ mem' = mem
    BY <1>8 DEF PartialExitFailed, books
  <2> QED BY <1>0, <1>1, <1>2, <1>4, <1>a, <2>1
<1>9. /\ ~ExitResidual(item) /\ ~DcaVerified(item) /\ ~ExitVerified(item) /\ ~ExitFailed(item)
      /\ ~RemoveOrphanEntry(item) /\ ~Abandon(item)
  BY <1>3 DEF ExitResidual, DcaVerified, ExitVerified, ExitFailed, RemoveOrphanEntry, Abandon,
     OnlyPartials
<1> QED BY <1>5, <1>6, <1>7, <1>8, <1>9 DEF Transitions

LEMMA DurableVerdict ==
  ASSUME DurableInv, OnlyPartials, NEW item \in wrk.batch, VerifyRetry(item) \/ Transitions(item)
  PROVE  DurableInv'
<1>0. /\ Types /\ Alone /\ PartialsOnly /\ WrittenInTurn /\ Durable /\ RegistryOK /\ Types'
      /\ mem.booked \in [Sigs -> Nat] /\ db.booked \in [Sigs -> Nat]
  BY VerdictTypes, MemFields DEF DurableInv, Types, RestOK, Position
<1>1. /\ item \in Item /\ wrk.at = "batch" /\ wrk.batch = {item} /\ queue = {}
      /\ wrk'.batch = {} /\ UNCHANGED <<onChain, db, records, call, registered>>
      /\ mem'.there = mem.there /\ (mem'.exitSig = mem.exitSig \/ mem'.exitSig = None)
      /\ \A s \in Sigs : mem.booked[s] > 0 => mem'.booked[s] > 0
  BY PartialVerdict
<1>t. PICK t \in Sigs : t = item.sig
  BY <1>1 DEF Item
<1>2. PP = {t} /\ MP = {t} /\ t \in Used /\ partials = 1 /\ Idle
  <2>1. PP = {t} /\ MP = {t} /\ t \in Used /\ ~Rested
    BY <1>0, <1>1, <1>t DEF Alone, ItemAlone, CopiesAgree, Rested
  <2>2. Idle
    BY <1>0, <2>1 DEF Alone, CallerAlone, Idle
  <2> QED BY <1>0, <2>1, <2>2 DEF Alone, Nobody
<1>3. Used' = Used /\ Idle' /\ chain' = chain
  BY <1>1, <1>2 DEF Used, onChain, Idle
<1>4. PartialsOnly'
  BY <1>0, <1>1, <1>3 DEF PartialsOnly
<1>5. CallerAlone'
  BY <1>3 DEF CallerAlone, Idle
<1>w. /\ \A s \in Sigs : db'.booked[s] > 0 => mem'.booked[s] > 0
      /\ \A s \in records' : db'.booked[s] > 0
  BY <1>0, <1>1 DEF WrittenInTurn
<1>6. CASE UNCHANGED registry
  <2>1. PP' = PP /\ MP' = MP /\ UNCHANGED <<partials, pending, metadata>>
    BY <1>6 DEF PP, MP, registry
  <2>2. CASE wrk'.at \in Resting /\ \E j : j.sig = item.sig /\ queue' \subseteq {j}
    <3>1. ItemAlone' /\ WorkAlone'
      BY <1>1, <1>2, <1>t, <2>1, <2>2 DEF ItemAlone, WorkAlone
    <3>2. CopiesAgree'
      BY <1>0, <1>2, <1>3, <2>1 DEF CopiesAgree, Alone
    <3>3. WrittenInTurn'
      BY <1>w, <2>2 DEF WrittenInTurn, Resting
    <3>4. Durable'
      BY <1>0, <1>1, <1>3, <2>1 DEF Durable
    <3> QED BY <1>0, <1>2, <1>4, <1>5, <2>1, <3>1, <3>2, <3>3, <3>4 DEF DurableInv, Alone
  <2>3. CASE /\ wrk'.item = item /\ queue' = {}
             /\ \/ wrk'.at = "persist" /\ wrk'.doing = "partial" /\ mem'.booked[item.sig] > 0
                \/ wrk'.at = "persist" /\ wrk'.doing \in {"retry_clear", "synthetic"}
                \/ wrk'.at = "clear" /\ wrk'.doing = "partial_again" /\ item.sig \in records
    <3>1. ItemAlone' /\ WorkAlone'
      BY <1>1, <1>2, <1>t, <2>1, <2>3 DEF ItemAlone, WorkAlone
    <3>2. CopiesAgree'
      BY <1>0, <1>2, <1>3, <2>1 DEF CopiesAgree, Alone
    <3>3. WrittenInTurn'
      BY <1>1, <1>w, <2>3 DEF WrittenInTurn
    <3>4. Durable'
      BY <1>0, <1>1, <1>3, <2>1 DEF Durable
    <3> QED BY <1>0, <1>2, <1>4, <1>5, <2>1, <3>1, <3>2, <3>3, <3>4 DEF DurableInv, Alone
  <2>4. CASE wrk'.at \in Resting /\ queue' = {} /\ DropPartials /\ chain[item.sig] = "failed"
    <3>1. PP' = {}
      BY <1>0, <2>4, DropOK DEF PartialsOnly, PP
    <3> QED BY <1>2, <2>1, <3>1
  <2> QED BY <2>2, <2>3, <2>4, PartialVerdict
<1>7. CASE ~UNCHANGED registry
  <2>1. wrk'.at \in Resting /\ queue' = {} /\ DropPartials /\ chain[t] = "failed"
    BY <1>7, <1>t, PartialVerdict
  <2>2. /\ partials' = 0 /\ PP' = {} /\ MP' = {}
        /\ pending'["dca"] = pending["dca"] /\ metadata'["dca"] = metadata["dca"]
    BY <1>0, <1>2, <2>1, DropOK DEF PartialsOnly, OnlyPartials, PP, MP
  <2>3. Rested' /\ Nobody'
    BY <1>1, <1>3, <2>1, <2>2 DEF Rested, Nobody
  <2>4. ItemAlone' /\ WorkAlone'
    BY <1>1, <2>1 DEF ItemAlone, WorkAlone
  <2>5. CopiesAgree'
    BY <1>0, <2>2 DEF CopiesAgree, Alone
  <2>6. WrittenInTurn'
    BY <1>w, <2>1 DEF WrittenInTurn, Resting
  <2>7. Durable'
    BY <1>0, <1>1, <1>2, <1>3, <2>1 DEF Durable
  <2> QED BY <1>0, <1>4, <1>5, <2>2, <2>3, <2>4, <2>5, <2>6, <2>7 DEF DurableInv, Alone
<1> QED BY <1>6, <1>7

LEMMA DurableApply ==
  ASSUME DurableInv, OnlyPartials, Apply
  PROVE  DurableInv'
<1>0. /\ Types /\ Alone /\ PartialsOnly /\ WrittenInTurn /\ Durable /\ RegistryOK /\ Types'
      /\ WorkerOK /\ queue \subseteq Item /\ "db" \notin Faults
      /\ mem.booked \in [Sigs -> Nat] /\ db.booked \in [Sigs -> Nat]
  BY ApplyTypes, MemFields DEF DurableInv, Types, RestOK, Position, OnlyPartials
<1>1. wrk.at \in {"persist", "record", "clear", "store", "settle", "unstamp"}
      /\ wrk.at \notin Resting
  BY DEF Apply, Persist, PersistFails, Record, ClearPending, StorePending, StorePendingFails,
     Settle, Unstamp, WorkerAt, Resting
<1>2. wrk.item \in Item /\ queue = {} /\ wrk.batch = {} /\ wrk.at # "unstamp" /\ ~Rested
      /\ wrk.doing \in {"partial", "partial_again", "retry_clear", "synthetic"}
      /\ (wrk.doing \in {"retry_clear", "synthetic"} => wrk.at = "persist")
  BY <1>0, <1>1, WorkerFields DEF Alone, WorkAlone, Rested
<1>t. PICK t \in Sigs : t = wrk.item.sig
  BY <1>2 DEF Item
<1>3. Idle /\ partials = 1
  BY <1>0, <1>2 DEF Alone, CallerAlone, Idle, Nobody
<1>4. UNCHANGED <<onChain, call, registered, mem>>
  BY <1>2 DEF Apply, Persist, PersistFails, Record, ClearPending, StorePending, StorePendingFails,
     Settle, Unstamp, WorkerAt, books, Shared
<1>5. Used' = Used /\ chain' = chain /\ Idle' /\ CallerAlone'
  BY <1>3, <1>4 DEF Used, onChain, Idle, CallerAlone
<1>a. ASSUME Applied(wrk.item)
      PROVE  queue' = {} /\ wrk'.batch = {} /\ wrk'.at \in Resting
  BY <1>0, <1>2, <1>a, AppliedOK, RestFields DEF Resting
<1>g. ASSUME NEW at \in Stages, WorkerGoes(at)
      PROVE  wrk'.at = at /\ wrk'.batch = {} /\ wrk'.item = wrk.item /\ wrk'.doing = wrk.doing
             /\ wrk'.snap = wrk.snap
  BY <1>0, <1>2, <1>g, GoesFields
<1>s. {"record", "clear", "settle"} \subseteq Stages
  BY DEF Stages
<1>6. CASE Persist
  <2>1. /\ wrk.at = "persist" /\ db' = mem /\ UNCHANGED <<records, registry>>
        /\ \/ wrk.doing = "partial" /\ WorkerGoes("record") /\ queue' = queue
           \/ wrk.doing \in {"retry_clear", "synthetic"} /\ Applied(wrk.item)
    BY <1>2, <1>6 DEF Persist, WorkerAt
  <2>2. PP' = PP /\ MP' = MP /\ UNCHANGED <<partials, pending, metadata>> /\ PP = {t} /\ MP = {t}
    BY <1>0, <1>1, <1>t, <2>1 DEF PP, MP, registry, Alone, WorkAlone
  <2>3. queue' = {} /\ wrk'.batch = {}
        /\ (wrk'.at \in Resting \/ (wrk'.at = "record" /\ wrk'.item = wrk.item
                                     /\ wrk'.doing = "partial" /\ wrk.doing = "partial"))
    BY <1>2, <1>a, <1>g, <1>s, <2>1
  <2>4. ItemAlone' /\ WorkAlone'
    BY <1>t, <2>2, <2>3 DEF ItemAlone, WorkAlone
  <2>5. CopiesAgree'
    BY <1>0, <1>5, <2>1, <2>2 DEF CopiesAgree, Alone
  <2>6. PartialsOnly'
    BY <1>0, <1>4, <1>5, <2>1 DEF PartialsOnly
  <2>7. WrittenInTurn'
    BY <1>0, <1>4, <2>1, <2>3 DEF WrittenInTurn, Types, RestOK, Resting
  <2>8. Durable'
    BY <1>0, <1>4, <1>5, <2>1, <2>2 DEF Durable, WrittenInTurn, Types, RestOK
  <2> QED BY <1>0, <1>3, <1>5, <2>2, <2>4, <2>5, <2>6, <2>7, <2>8 DEF DurableInv, Alone
<1>7. CASE Record
  <2>1. /\ wrk.at = "record" /\ UNCHANGED <<db, registry, queue>> /\ WorkerGoes("clear")
        /\ records' = records \cup ({wrk.item.sig} \ {None})
    BY <1>0, <1>2, <1>7 DEF Record, RecordSig, WorkerAt
  <2>2. PP' = PP /\ MP' = MP /\ UNCHANGED <<partials, pending, metadata>> /\ PP = {t} /\ MP = {t}
    BY <1>0, <1>1, <1>t, <2>1 DEF PP, MP, registry, Alone, WorkAlone
  <2>3. queue' = {} /\ wrk'.batch = {} /\ wrk'.at = "clear" /\ wrk'.item = wrk.item
        /\ wrk'.doing = wrk.doing
    BY <1>2, <1>g, <1>s, <2>1
  <2>4. ItemAlone' /\ WorkAlone'
    BY <1>2, <1>t, <2>1, <2>2, <2>3 DEF ItemAlone, WorkAlone
  <2>5. CopiesAgree'
    BY <1>0, <1>5, <2>1, <2>2 DEF CopiesAgree, Alone
  <2>6. PartialsOnly'
    BY <1>0, <1>4, <1>5, <2>1 DEF PartialsOnly
  <2>7. WrittenInTurn'
    BY <1>0, <1>4, <2>1, <2>3 DEF WrittenInTurn
  <2>8. Durable'
    BY <1>0, <1>4, <1>5, <2>1, <2>2 DEF Durable
  <2> QED BY <1>0, <1>3, <1>5, <2>2, <2>4, <2>5, <2>6, <2>7, <2>8 DEF DurableInv, Alone
<1>8. CASE ClearPending
  <2>1. wrk.at = "clear" /\ PP = {t} /\ MP = {t} /\ t \in Used
    BY <1>0, <1>1, <1>8, <1>t DEF ClearPending, WorkerAt, Alone, WorkAlone, CopiesAgree
  <2>2. Kind = "partial" /\ "partial" \in Kinds /\ "dca" \in Kinds
    BY <1>0, <1>t, <2>1, UsedArePartials DEF Kind, Kinds
  <2>3. /\ pending' = Without(pending, "partial", t)
        /\ wrk' = [wrk EXCEPT !.at = "store", !.snap = PP']
        /\ UNCHANGED <<books, metadata, partials, queue>>
    BY <1>8, <1>t, <2>1, <2>2 DEF ClearPending, PP
  <2>4. PP' = {} /\ MP' = MP /\ pending'["dca"] = pending["dca"]
    BY <1>0, <2>1, <2>2, <2>3, WithoutOK DEF PP, MP
  <2>5. wrk'.at = "store" /\ wrk'.snap = {} /\ wrk'.item = wrk.item /\ wrk'.batch = {}
        /\ wrk'.doing = wrk.doing
    BY <1>0, <1>2, <2>3, <2>4 DEF WorkerOK, WorkerT
  <2>6. ItemAlone' /\ WorkAlone'
    BY <1>2, <1>t, <2>1, <2>3, <2>4, <2>5 DEF ItemAlone, WorkAlone, Resting
  <2>7. CopiesAgree'
    BY <1>0, <1>5, <2>1, <2>3, <2>4, <2>5 DEF CopiesAgree, Alone
  <2>8. PartialsOnly' /\ Durable'
    BY <1>0, <1>4, <1>5, <2>3, <2>4 DEF PartialsOnly, Durable, books
  <2>9. WrittenInTurn'
    BY <1>0, <2>1, <2>3, <2>5 DEF WrittenInTurn, books
  <2> QED BY <1>0, <1>3, <1>5, <2>3, <2>6, <2>7, <2>8, <2>9 DEF DurableInv, Alone
<1>9. CASE StorePending
  <2>1. wrk.at = "store" /\ PP = {} /\ MP = {t} /\ t \in Used /\ wrk.snap = {}
        /\ db.booked[t] > 0
    BY <1>0, <1>1, <1>9, <1>t DEF StorePending, WorkerAt, Alone, WorkAlone, CopiesAgree, WrittenInTurn
  <2>2. Kind = "partial" /\ "partial" \in Kinds /\ "dca" \in Kinds
    BY <1>0, <1>t, <2>1, UsedArePartials DEF Kind, Kinds
  <2>3. /\ metadata' = Persisted("partial", {}) /\ WorkerGoes("settle")
        /\ UNCHANGED <<books, pending, partials, queue>>
    BY <1>9, <2>1, <2>2 DEF StorePending
  <2>4. PP' = {} /\ MP' = {} /\ metadata'["dca"] = metadata["dca"]
    BY <1>0, <2>1, <2>2, <2>3, PersistedOK DEF PP, MP
  <2>5. wrk'.at = "settle" /\ wrk'.item = wrk.item /\ wrk'.batch = {} /\ wrk'.doing = wrk.doing
    BY <1>g, <1>s, <2>3
  <2>6. ItemAlone' /\ WorkAlone'
    BY <1>2, <2>1, <2>3, <2>4, <2>5 DEF ItemAlone, WorkAlone
  <2>7. CopiesAgree'
    BY <1>0, <2>3, <2>4 DEF CopiesAgree, Alone
  <2>8. PartialsOnly' /\ WrittenInTurn'
    BY <1>0, <1>4, <1>5, <2>1, <2>3, <2>5 DEF PartialsOnly, WrittenInTurn, books
  <2>9. Durable'
    BY <1>0, <1>4, <1>5, <2>1, <2>3 DEF Durable, books
  <2> QED BY <1>0, <1>3, <1>5, <2>3, <2>6, <2>7, <2>8, <2>9 DEF DurableInv, Alone
<1>10. CASE Settle
  <2>1. wrk.at = "settle" /\ PP = {} /\ MP = {} /\ wrk.doing \in {"partial", "partial_again"}
    BY <1>0, <1>1, <1>2, <1>10 DEF Settle, WorkerAt, Alone, WorkAlone
  <2>2. "partial_again" \in Range(Again)
    BY DEF Range, Again
  <2>3. Applied(wrk.item) /\ partials' = 0 /\ UNCHANGED <<books, pending, metadata>>
    BY <1>3, <1>10, <2>1, <2>2, CountsDown DEF Settle
  <2>4. queue' = {} /\ wrk'.batch = {} /\ wrk'.at \in Resting /\ PP' = {} /\ MP' = {}
    BY <1>a, <2>1, <2>3 DEF PP, MP
  <2>5. Nobody'
    BY <1>5, <2>4 DEF Nobody, Rested
  <2>6. ItemAlone' /\ WorkAlone' /\ CopiesAgree'
    BY <1>0, <2>3, <2>4 DEF ItemAlone, WorkAlone, CopiesAgree, Alone
  <2>7. PartialsOnly' /\ WrittenInTurn'
    BY <1>0, <1>4, <1>5, <2>3, <2>4 DEF PartialsOnly, WrittenInTurn, books, Resting
  <2>8. Durable'
    BY <1>0, <1>4, <1>5, <2>1, <2>3, <2>4 DEF Durable, books
  <2> QED BY <1>0, <1>5, <2>3, <2>5, <2>6, <2>7, <2>8 DEF DurableInv, Alone
<1>11. ~PersistFails /\ ~StorePendingFails /\ ~Unstamp
  BY <1>0, <1>2 DEF PersistFails, StorePendingFails, Unstamp, WorkerAt
<1> QED BY <1>6, <1>7, <1>8, <1>9, <1>10, <1>11 DEF Apply

LEMMA DurableInvariant ==
  ASSUME OnlyPartials
  PROVE  Spec => []DurableInv
<1>1. Init => DurableInv
  BY DurableInit
<1>2. ASSUME DurableInv, [Next]_vars
      PROVE  DurableInv'
  <2>1. CASE \E c \in Callers : Caller(c)
    BY <1>2, <2>1, DurableCaller
  <2>2. CASE \E s \in Sigs : Lands(s) \/ Dies(s)
    BY <1>2, <2>2, DurableChain
  <2>3. CASE Worker
    BY <1>2, <2>3, DurableCycle, DurableVerdict, DurableApply DEF Worker, Verify
  <2>4. CASE Restart
    BY <1>2, <2>4, DurableRestart
  <2>5. CASE UNCHANGED vars
    <3>1. Types'
      BY <1>2, <2>5, StutterTypes DEF DurableInv
    <3>2. UNCHANGED <<onChain, books, registry, queue, wrk, call, registered>>
      BY <2>5 DEF vars
    <3>3. /\ PP' = PP /\ MP' = MP /\ Used' = Used /\ Idle' = Idle /\ Rested' = Rested
          /\ UNCHANGED <<partials, pending, metadata, mem, db, records, chain>>
      BY <3>2 DEF PP, MP, Used, Idle, Rested, onChain, books, registry
    <3>4. Alone'
      BY <1>2, <3>2, <3>3 DEF DurableInv, Alone, CallerAlone, ItemAlone, WorkAlone, CopiesAgree, Nobody
    <3>5. PartialsOnly' /\ WrittenInTurn' /\ Durable'
      BY <1>2, <3>2, <3>3 DEF DurableInv, PartialsOnly, WrittenInTurn, Durable
    <3> QED BY <3>1, <3>4, <3>5 DEF DurableInv
  <2> QED BY <1>2, <2>1, <2>2, <2>3, <2>4, <2>5 DEF Next
<1> QED BY <1>1, <1>2, PTL DEF Spec

\* A registered partial exit that landed is booked or still followed, however
\* often the program restarts (initialize_positions_system restores the rest).
THEOREM NoPartialIsForgotten ==
  ASSUME OnlyPartials
  PROVE  Spec => []NothingForgotten
<1>1. ASSUME DurableInv PROVE NothingForgotten
  <2>1. ASSUME NEW s \in registered, s \in Unbooked PROVE Tracked(s)
    <3>1. s \in Sigs /\ chain[s] = "landed" /\ mem.booked[s] = 0
      BY <2>1 DEF Unbooked, Used
    <3>2. db.booked[s] = 0
      BY <1>1, <3>1 DEF DurableInv, WrittenInTurn, Types, RestOK, Position
    <3>3. MP = {s}
      BY <1>1, <2>1, <3>1, <3>2 DEF DurableInv, Durable
    <3>4. CASE s \in PP
      BY <3>4 DEF Tracked, PP, Kinds
    <3>5. CASE s \notin PP
      <4>1. Idle => wrk.at = "store"
        BY <1>1, <3>3, <3>5 DEF DurableInv, Alone, CopiesAgree
      <4>2. Idle
        BY <1>1, <3>3, <3>5, CallFields DEF DurableInv, Types, Alone, CallerAlone, Idle
      <4>3. wrk.item.sig = s /\ wrk.item \in Item
        BY <1>1, <3>3, <4>1, <4>2, WorkerFields DEF DurableInv, Types, Alone, WorkAlone, Resting
      <4>4. wrk.item # None
        BY <4>3, NoneAssumption
      <4> QED BY <4>3, <4>4 DEF Tracked
    <3> QED BY <3>4, <3>5
  <2> QED BY <2>1 DEF NothingForgotten
<1> QED BY <1>1, DurableInvariant, PTL
===============================================================================
