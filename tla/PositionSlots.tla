---------------------------- MODULE PositionSlots ----------------------------
(***************************************************************************)
(* The trading slots of the positions system: the global semaphore sized   *)
(* by max_open_positions, the SLOT_HOLDERS registry, the in-memory         *)
(* POSITIONS list, the positions table, the per-mint locks and the         *)
(* pending-open marks, shared by                                           *)
(*   - open_position_impl, run by any number of concurrent callers,        *)
(*   - the verification worker, applying one transition at a time,         *)
(*   - the dashboard handlers archive / unarchive / delete / force-close / *)
(*     delete-all-archived,                                                *)
(*   - a crash followed by initialize_positions_system.                    *)
(*                                                                         *)
(* A step is what runs between two awaits that matter to another actor.    *)
(* Amounts, prices and signatures are left out; a position row keeps its   *)
(* mint, whether its entry is verified, whether it is closed (exit_time    *)
(* and transaction_exit_verified are set together by every closing path)   *)
(* and whether it is archived.                                             *)
(***************************************************************************)
EXTENDS Integers, FiniteSets

CONSTANTS
    Mints,              \* tokens
    Openers,            \* concurrent callers of open_position_impl
    Requests,           \* concurrent dashboard requests
    AdminOps,           \* the dashboard operations in use
    MaxOpenPositions,   \* cfg.trader.max_open_positions
    MaxPositions,       \* bound: rows ever inserted
    MaxBoots,           \* bound: crashes
    DbMayFail,          \* whether a database call may return an error
    NoRow               \* "no such position"

Ids == 1 .. MaxPositions
Row == [mint : Mints, entryOk : BOOLEAN, closed : BOOLEAN, archived : BOOLEAN]

ASSUME SlotAssumption ==
    /\ MaxOpenPositions \in Nat
    /\ MaxPositions \in Nat \ {0}
    /\ MaxBoots \in Nat
    /\ DbMayFail \in BOOLEAN
    /\ AdminOps \subseteq {"archive", "unarchive", "delete", "force_close", "purge"}
    /\ NoRow \notin Row
    /\ IsFiniteSet(Openers)
    /\ IsFiniteSet(Requests)

VARIABLES
    avail,      \* available permits of GLOBAL_POSITION_SEMAPHORE
    holders,    \* SLOT_HOLDERS
    mem,        \* POSITIONS, by id
    loaded,     \* ids up to this one were loaded at boot (newest first)
    db,         \* the positions table, by id
    nextId,     \* AUTOINCREMENT
    pendingOpen,\* PENDING_OPEN_SWAPS
    lockGen,    \* which mutex POSITION_LOCKS holds for a mint: one more for each removal
    opn,        \* the callers of open_position_impl
    wrk,        \* the verification worker
    req,        \* the dashboard requests
    boots,
    cap,        \* history: permits this boot started with, free or held
    slotless,   \* history: positions left in POSITIONS without a slot
    stranded    \* history: positions whose slot has missed its release

table   == <<mem, loaded, db, nextId>>
permits == <<avail, holders>>
history == <<cap, slotless, stranded>>
vars    == <<permits, table, pendingOpen, lockGen, opn, wrk, req, boots, history>>

-----------------------------------------------------------------------------
(* Reading the shared state *)

\* An archived position is in neither list; a close that is still confirming
\* counts as open.
is_position_open(row) == row # NoRow /\ ~row.archived /\ ~row.closed

\* What the dashboard handlers test instead: archived rows included.
holds_open_slot(row) == ~row.closed

OpenIds(rows) == {i \in Ids : is_position_open(rows[i])}

RowsOf(rows, m) == {i \in Ids : rows[i] # NoRow /\ rows[i].mint = m}

is_open_position(m) ==
    \/ \E i \in RowsOf(mem, m) : is_position_open(mem[i])
    \/ m \in pendingOpen

\* POSITIONS is a list: the rows loaded at boot come newest first, the rows
\* added since follow in the order they were added.
Precedes(i, j) == IF i <= loaded /\ j <= loaded THEN i >= j ELSE i <= j

FirstRow(m) == CHOOSE i \in RowsOf(mem, m) : \A j \in RowsOf(mem, m) : Precedes(i, j)

get_latest_position_by_mint(m) ==
    IF RowsOf(db, m) = {} THEN NoRow
    ELSE db[CHOOSE i \in RowsOf(db, m) : \A j \in RowsOf(db, m) : j <= i]

\* The database guard of an open ignores the archived flag.
DbStillOpen(m) ==
    LET row == get_latest_position_by_mint(m) IN row # NoRow /\ ~row.closed

-----------------------------------------------------------------------------
(* Operations shared by the actors *)

\* Variant: every terminal path adds a permit, without asking the registry.
ReleaseWithoutRegistry(i) ==
    /\ holders' = holders \ {i}
    /\ avail' = avail + 1

\* Frees the slot at most once: only the call that finds the holder adds a permit.
release_position_slot(i) ==
    /\ holders' = holders \ {i}
    /\ avail' = IF i \in holders THEN avail + 1 ELSE avail

\* Dropping a row also drops the mint's lock object and pending-open mark,
\* whoever holds or set them.
RemoveRow(i, m) ==
    /\ mem' = [mem EXCEPT ![i] = NoRow]
    /\ lockGen' = [lockGen EXCEPT ![m] = @ + 1]
    /\ pendingOpen' = pendingOpen \ {m}

UpdateMem(i, row) ==
    mem' = IF mem[i] = NoRow THEN mem ELSE [mem EXCEPT ![i] = row]

\* UPDATE positions SET ... : every column but the archived flag.
update_position(i, row) ==
    db' = [db EXCEPT ![i] = [row EXCEPT !.archived = db[i].archived]]

-----------------------------------------------------------------------------
(* open_position_impl *)

IdleOpener == [at |-> "idle", mint |-> NoRow, id |-> 0, gen |-> 0]

\* The caller owns a permit that a drop gives back.
CarryAt == {"permit", "waiting", "locked", "guarded", "swapping", "bought", "saved", "added"}
LockAt  == {"locked", "guarded", "swapping", "bought", "saved", "added", "registered"}
OpenerAt == {"idle", "registered"} \cup CarryAt

Carriers == {t \in Openers : opn[t].at \in CarryAt}

OpenerGoes(t, at) == opn' = [opn EXCEPT ![t].at = at]

\* An early return drops the permit and the lock guard.
OpenReturnsErr(t) ==
    /\ opn' = [opn EXCEPT ![t] = IdleOpener]
    /\ avail' = avail + 1
    /\ UNCHANGED <<holders, table, lockGen, wrk, req, boots, history>>

OpenAcquirePermit(t, m) ==
    /\ opn[t].at = "idle"
    /\ nextId + Cardinality(Carriers) <= MaxPositions     \* bound
    /\ avail > 0
    /\ avail' = avail - 1
    /\ opn' = [opn EXCEPT ![t] = [at |-> "permit", mint |-> m, id |-> 0, gen |-> 0]]
    /\ UNCHANGED <<holders, table, pendingOpen, lockGen, wrk, req, boots, history>>

OpenLookupLock(t) ==
    /\ opn[t].at = "permit"
    /\ opn' = [opn EXCEPT ![t] = [at |-> "waiting", mint |-> @.mint, id |-> 0,
                                    gen |-> lockGen[@.mint]]]
    /\ UNCHANGED <<permits, table, pendingOpen, lockGen, wrk, req, boots, history>>

\* Variant: the lock excludes nobody.
OpenLockShared(t) ==
    /\ opn[t].at = "waiting"
    /\ OpenerGoes(t, "locked")
    /\ UNCHANGED <<permits, table, pendingOpen, lockGen, wrk, req, boots, history>>

OpenLock(t) ==
    /\ opn[t].at = "waiting"
    /\ \A u \in Openers : ~ /\ opn[u].at \in LockAt
                            /\ opn[u].mint = opn[t].mint
                            /\ opn[u].gen = opn[t].gen
    /\ OpenerGoes(t, "locked")
    /\ UNCHANGED <<permits, table, pendingOpen, lockGen, wrk, req, boots, history>>

OpenCheckMemory(t) ==
    /\ opn[t].at = "locked"
    /\ ~is_open_position(opn[t].mint)
    /\ OpenerGoes(t, "guarded")
    /\ UNCHANGED <<permits, table, pendingOpen, lockGen, wrk, req, boots, history>>

OpenAlreadyOpen(t) ==
    /\ opn[t].at = "locked"
    /\ is_open_position(opn[t].mint)
    /\ OpenReturnsErr(t)
    /\ UNCHANGED pendingOpen

\* `if let Ok(..)`: a database error skips the guard.
OpenCheckDb(t) ==
    /\ opn[t].at = "guarded"
    /\ ~DbStillOpen(opn[t].mint) \/ DbMayFail
    /\ pendingOpen' = pendingOpen \cup {opn[t].mint}
    /\ OpenerGoes(t, "swapping")
    /\ UNCHANGED <<permits, table, lockGen, wrk, req, boots, history>>

\* The database guard, or the opening cooldown.
OpenRefused(t) ==
    /\ opn[t].at = "guarded"
    /\ OpenReturnsErr(t)
    /\ UNCHANGED pendingOpen

OpenSwap(t) ==
    /\ opn[t].at = "swapping"
    /\ OpenerGoes(t, "bought")
    /\ UNCHANGED <<permits, table, pendingOpen, lockGen, wrk, req, boots, history>>

\* No quote or no swap: the pending-open mark stays until its TTL.
OpenSwapFails(t) ==
    /\ opn[t].at = "swapping"
    /\ OpenReturnsErr(t)
    /\ UNCHANGED pendingOpen

OpenPersist(t) ==
    /\ opn[t].at = "bought"
    /\ nextId <= MaxPositions
    /\ db' = [db EXCEPT ![nextId] = [mint |-> opn[t].mint, entryOk |-> FALSE,
                                     closed |-> FALSE, archived |-> FALSE]]
    /\ opn' = [opn EXCEPT ![t] = [at |-> "saved", mint |-> @.mint, id |-> nextId, gen |-> @.gen]]
    /\ nextId' = nextId + 1
    /\ UNCHANGED <<permits, mem, loaded, pendingOpen, lockGen, wrk, req, boots, history>>

\* Five failed saves panic the task: unwinding drops the permit and the lock.
OpenPersistPanics(t) ==
    /\ DbMayFail
    /\ opn[t].at = "bought"
    /\ OpenReturnsErr(t)
    /\ UNCHANGED pendingOpen

add_position(t) ==
    /\ opn[t].at = "saved"
    /\ mem' = [mem EXCEPT ![opn[t].id] = [mint |-> opn[t].mint, entryOk |-> FALSE,
                                          closed |-> FALSE, archived |-> FALSE]]
    /\ pendingOpen' = pendingOpen \ {opn[t].mint}
    /\ OpenerGoes(t, "added")
    /\ UNCHANGED <<permits, loaded, db, nextId, lockGen, wrk, req, boots, history>>

\* permit.forget() and register_position_slot, with no await between them.
OpenRegisterSlot(t) ==
    /\ opn[t].at = "added"
    /\ holders' = holders \cup {opn[t].id}
    /\ stranded' = IF is_position_open(mem[opn[t].id]) THEN stranded
                   ELSE stranded \cup {opn[t].id}
    /\ OpenerGoes(t, "registered")
    /\ UNCHANGED <<avail, table, pendingOpen, lockGen, wrk, req, boots, cap, slotless>>

\* Enqueue the verification, clear_pending_open, drop the lock.
OpenReturnsOk(t) ==
    /\ opn[t].at = "registered"
    /\ pendingOpen' = pendingOpen \ {opn[t].mint}
    /\ opn' = [opn EXCEPT ![t] = IdleOpener]
    /\ UNCHANGED <<permits, table, lockGen, wrk, req, boots, history>>

\* PENDING_OPEN_TTL_SECS runs out.
PendingOpenExpires(m) ==
    /\ m \in pendingOpen
    /\ pendingOpen' = pendingOpen \ {m}
    /\ UNCHANGED <<permits, table, lockGen, opn, wrk, req, boots, history>>

-----------------------------------------------------------------------------
(* The verification worker: one transition at a time (apply_transition) *)

IdleWorker == [at |-> "idle", act |-> "none", id |-> 0]

ApplyEntryVerified(i) ==
    /\ wrk.at = "idle"
    /\ mem[i] # NoRow /\ ~mem[i].entryOk
    /\ UpdateMem(i, [mem[i] EXCEPT !.entryOk = TRUE])
    /\ wrk' = [at |-> "persist", act |-> "entry", id |-> i]
    /\ UNCHANGED <<permits, loaded, db, nextId, pendingOpen, lockGen, opn, req, boots, history>>

\* Exit verified: skipped when the close is already booked.
ApplyExitVerified(i) ==
    /\ wrk.at = "idle"
    /\ mem[i] # NoRow /\ ~mem[i].closed
    /\ UpdateMem(i, [mem[i] EXCEPT !.closed = TRUE])
    /\ wrk' = [at |-> "persist", act |-> "close", id |-> i]
    /\ UNCHANGED <<permits, loaded, db, nextId, pendingOpen, lockGen, opn, req, boots, history>>

\* Synthetic exit: no such test, a closed row is closed again.
ApplySyntheticExit(i) ==
    /\ wrk.at = "idle"
    /\ mem[i] # NoRow
    /\ UpdateMem(i, [mem[i] EXCEPT !.closed = TRUE])
    /\ wrk' = [at |-> "persist", act |-> "close", id |-> i]
    /\ UNCHANGED <<permits, loaded, db, nextId, pendingOpen, lockGen, opn, req, boots, history>>

\* Variant: a booked close keeps its slot.
PersistWithoutRelease ==
    /\ wrk.at = "persist"
    /\ mem[wrk.id] # NoRow /\ db[wrk.id] # NoRow
    /\ update_position(wrk.id, mem[wrk.id])
    /\ wrk' = IdleWorker
    /\ UNCHANGED <<permits, mem, loaded, nextId, pendingOpen, lockGen, opn, req, boots, history>>

\* The row is re-read from memory and written whole.
ApplyPersist ==
    /\ wrk.at = "persist"
    /\ mem[wrk.id] # NoRow /\ db[wrk.id] # NoRow
    /\ update_position(wrk.id, mem[wrk.id])
    /\ wrk' = IF wrk.act = "close" THEN [wrk EXCEPT !.at = "release"] ELSE IdleWorker
    /\ UNCHANGED <<permits, mem, loaded, nextId, pendingOpen, lockGen, opn, req, boots, history>>

\* The row is gone, or the write failed: no release, and the retry of a
\* booked exit returns early.
ApplyPersistFails ==
    /\ wrk.at = "persist"
    /\ DbMayFail \/ mem[wrk.id] = NoRow \/ db[wrk.id] = NoRow
    /\ wrk' = IdleWorker
    /\ stranded' = IF wrk.act = "close" THEN stranded \cup {wrk.id} ELSE stranded
    /\ UNCHANGED <<permits, table, pendingOpen, lockGen, opn, req, boots, cap, slotless>>

ApplyRelease ==
    /\ wrk.at = "release"
    /\ release_position_slot(wrk.id)
    /\ wrk' = IdleWorker
    /\ UNCHANGED <<table, pendingOpen, lockGen, opn, req, boots, history>>

\* Removes the first row of the orphan's mint, releases the slot of the orphan;
\* the table keeps the row.
ApplyRemoveOrphan(i) ==
    LET removed == FirstRow(mem[i].mint)
    IN  /\ wrk.at = "idle"
        /\ mem[i] # NoRow /\ ~mem[i].entryOk
        /\ RemoveRow(removed, mem[i].mint)
        /\ wrk' = [at |-> "release", act |-> "orphan", id |-> i]
        /\ slotless' = IF removed = i THEN slotless ELSE slotless \cup {i}
        /\ stranded' = IF removed = i THEN stranded ELSE stranded \cup ({removed} \cap holders)
        /\ UNCHANGED <<permits, loaded, db, nextId, opn, req, boots, cap>>

Worker ==
    \/ \E i \in Ids : \/ ApplyEntryVerified(i)
                      \/ ApplyExitVerified(i)
                      \/ ApplySyntheticExit(i)
                      \/ ApplyRemoveOrphan(i)
    \/ ApplyPersist
    \/ ApplyPersistFails
    \/ ApplyRelease

-----------------------------------------------------------------------------
(* Dashboard handlers. Each reads a snapshot first and acts on it later. *)

IdleRequest == [op |-> "none", at |-> "idle", ids |-> {}, row |-> NoRow, open |-> FALSE]

RequestAt == {"idle", "persist", "mirror", "slot", "register"}

Begin(r, op, at, ids, row, open) ==
    /\ req[r].at = "idle"
    /\ op \in AdminOps
    /\ req' = [req EXCEPT ![r] = [op |-> op, at |-> at, ids |-> ids, row |-> row, open |-> open]]
    /\ UNCHANGED <<permits, table, pendingOpen, lockGen, opn, wrk, boots, history>>

\* In memory, or in the table when memory has lost it.
Stored(i) == IF mem[i] # NoRow THEN mem[i] ELSE db[i]

BeginArchive(r, i) ==
    /\ mem[i] # NoRow /\ ~mem[i].archived
    /\ Begin(r, "archive", "persist", {i}, NoRow, holds_open_slot(mem[i]))

BeginUnarchive(r, i) ==
    /\ mem[i] # NoRow /\ mem[i].archived
    /\ Begin(r, "unarchive", "persist", {i}, NoRow, holds_open_slot(mem[i]))

BeginDelete(r, i) ==
    /\ Stored(i) # NoRow
    /\ Begin(r, "delete", "persist", {i}, NoRow,
             holds_open_slot(Stored(i)) /\ ~Stored(i).archived)

BeginForceClose(r, i) ==
    /\ Stored(i) # NoRow /\ ~Stored(i).closed
    /\ Begin(r, "force_close", "mirror", {i}, Stored(i), TRUE)

BeginPurge(r) ==
    LET archived == {i \in Ids : mem[i] # NoRow /\ mem[i].archived}
    IN  archived # {} /\ Begin(r, "purge", "persist", archived, NoRow, FALSE)

RequestGoes(r, at) == req' = [req EXCEPT ![r].at = at]
RequestEnds(r)     == req' = [req EXCEPT ![r] = IdleRequest]

\* Where a handler goes once memory is up to date.
AfterMirror(r) == IF req[r].open THEN RequestGoes(r, "slot") ELSE RequestEnds(r)

SetArchived(rows, i, flag) ==
    IF rows[i] = NoRow THEN rows ELSE [rows EXCEPT ![i].archived = flag]

\* set_position_archived_db: a missing row is not an error.
PersistArchived(r, i) ==
    /\ req[r].op \in {"archive", "unarchive"} /\ req[r].at = "persist" /\ i \in req[r].ids
    /\ db' = SetArchived(db, i, req[r].op = "archive")
    /\ RequestGoes(r, "mirror")
    /\ UNCHANGED <<permits, mem, loaded, nextId, pendingOpen, lockGen, opn, wrk, boots, history>>

MirrorArchived(r, i) ==
    /\ req[r].op \in {"archive", "unarchive"} /\ req[r].at = "mirror" /\ i \in req[r].ids
    /\ mem' = SetArchived(mem, i, req[r].op = "archive")
    /\ AfterMirror(r)
    /\ UNCHANGED <<permits, loaded, db, nextId, pendingOpen, lockGen, opn, wrk, boots, history>>

\* delete_position_by_id; a row that is already gone ends the request.
PersistDelete(r, i) ==
    /\ req[r].op = "delete" /\ req[r].at = "persist" /\ i \in req[r].ids
    /\ db' = [db EXCEPT ![i] = NoRow]
    /\ IF db[i] = NoRow THEN RequestEnds(r) ELSE RequestGoes(r, "mirror")
    /\ UNCHANGED <<permits, mem, loaded, nextId, pendingOpen, lockGen, opn, wrk, boots, history>>

RemoveFromMemory(i) ==
    IF mem[i] = NoRow THEN UNCHANGED <<mem, lockGen, pendingOpen>> ELSE RemoveRow(i, mem[i].mint)

\* What the handler gets wrong: memory does not list the position yet, or its
\* snapshot was already closed while the slot is not released yet.
Mistaken(r, i) ==
    /\ slotless' = IF mem[i] = NoRow THEN slotless \cup {i} ELSE slotless
    /\ stranded' = IF i \in holders /\ ~req[r].open THEN stranded \cup {i} ELSE stranded
    /\ UNCHANGED cap

MirrorDelete(r, i) ==
    /\ req[r].op = "delete" /\ req[r].at = "mirror" /\ i \in req[r].ids
    /\ RemoveFromMemory(i)
    /\ AfterMirror(r)
    /\ Mistaken(r, i)
    /\ UNCHANGED <<permits, loaded, db, nextId, opn, wrk, boots>>

\* DELETE ... WHERE archived = 1, then the ids read before it leave memory.
PersistPurge(r) ==
    /\ req[r].op = "purge" /\ req[r].at = "persist"
    /\ db' = [i \in Ids |-> IF db[i] # NoRow /\ db[i].archived THEN NoRow ELSE db[i]]
    /\ RequestGoes(r, "mirror")
    /\ UNCHANGED <<permits, mem, loaded, nextId, pendingOpen, lockGen, opn, wrk, boots, history>>

\* One row of the purge less to mirror; the last one ends the request.
PurgeLeft(q, i) == IF q.ids = {i} THEN IdleRequest ELSE [q EXCEPT !.ids = q.ids \ {i}]

MirrorPurge(r, i) ==
    /\ req[r].op = "purge" /\ req[r].at = "mirror" /\ i \in req[r].ids
    /\ RemoveFromMemory(i)
    /\ req' = [req EXCEPT ![r] = PurgeLeft(req[r], i)]
    /\ Mistaken(r, i)
    /\ UNCHANGED <<permits, loaded, db, nextId, opn, wrk, boots>>

\* A force close updates memory first and goes on when the write fails.
MirrorForceClose(r, i) ==
    /\ req[r].op = "force_close" /\ req[r].at = "mirror" /\ i \in req[r].ids
    /\ UpdateMem(i, [mem[i] EXCEPT !.closed = TRUE])
    /\ RequestGoes(r, "persist")
    /\ Mistaken(r, i)
    /\ UNCHANGED <<permits, loaded, db, nextId, pendingOpen, lockGen, opn, wrk, boots>>

\* The row written is the snapshot, not the row in memory.
PersistForceClose(r, i) ==
    /\ req[r].op = "force_close" /\ req[r].at = "persist" /\ i \in req[r].ids
    /\ \/ db[i] # NoRow /\ update_position(i, [req[r].row EXCEPT !.closed = TRUE])
       \/ (db[i] = NoRow \/ DbMayFail) /\ UNCHANGED db
    /\ RequestGoes(r, "slot")
    /\ UNCHANGED <<permits, mem, loaded, nextId, pendingOpen, lockGen, opn, wrk, boots, history>>

ReleaseByRequest(r, i) ==
    /\ req[r].op \in {"archive", "delete", "force_close"} /\ req[r].at = "slot" /\ i \in req[r].ids
    /\ release_position_slot(i)
    /\ RequestEnds(r)
    /\ UNCHANGED <<table, pendingOpen, lockGen, opn, wrk, boots, history>>

\* Variant: the permit is taken without a look at what is available.
ReclaimUnchecked(r) ==
    /\ req[r].op = "unarchive" /\ req[r].at = "slot"
    /\ avail' = avail - 1
    /\ RequestGoes(r, "register")
    /\ UNCHANGED <<holders, table, pendingOpen, lockGen, opn, wrk, boots, history>>

\* try_consume_global_position_permit
ReclaimSlot(r) ==
    /\ req[r].op = "unarchive" /\ req[r].at = "slot"
    /\ avail > 0
    /\ avail' = avail - 1
    /\ RequestGoes(r, "register")
    /\ UNCHANGED <<holders, table, pendingOpen, lockGen, opn, wrk, boots, history>>

ReclaimAtCapacity(r) ==
    /\ req[r].op = "unarchive" /\ req[r].at = "slot"
    /\ avail = 0
    /\ slotless' = slotless \cup req[r].ids
    /\ RequestEnds(r)
    /\ UNCHANGED <<permits, table, pendingOpen, lockGen, opn, wrk, boots, cap, stranded>>

\* Variant: the permit is taken and nobody is registered as its holder.
ReclaimedUnregistered(r, i) ==
    /\ req[r].op = "unarchive" /\ req[r].at = "register" /\ i \in req[r].ids
    /\ RequestEnds(r)
    /\ UNCHANGED <<permits, table, pendingOpen, lockGen, opn, wrk, boots, history>>

RegisterReclaimed(r, i) ==
    /\ req[r].op = "unarchive" /\ req[r].at = "register" /\ i \in req[r].ids
    /\ holders' = holders \cup {i}
    /\ stranded' = IF is_position_open(mem[i]) THEN stranded ELSE stranded \cup {i}
    /\ RequestEnds(r)
    /\ UNCHANGED <<avail, table, pendingOpen, lockGen, opn, wrk, boots, cap, slotless>>

\* A database error returns before anything else is touched.
RequestDbError(r) ==
    /\ DbMayFail
    /\ req[r].at = "persist" /\ req[r].op # "force_close"
    /\ RequestEnds(r)
    /\ UNCHANGED <<permits, table, pendingOpen, lockGen, opn, wrk, boots, history>>

Dashboard(r) ==
    \/ \E i \in Ids :
          \/ BeginArchive(r, i)     \/ BeginUnarchive(r, i) \/ BeginDelete(r, i)
          \/ BeginForceClose(r, i)  \/ PersistArchived(r, i) \/ MirrorArchived(r, i)
          \/ PersistDelete(r, i)    \/ MirrorDelete(r, i)   \/ MirrorPurge(r, i)
          \/ MirrorForceClose(r, i) \/ PersistForceClose(r, i)
          \/ ReleaseByRequest(r, i) \/ RegisterReclaimed(r, i)
    \/ BeginPurge(r)
    \/ PersistPurge(r)
    \/ ReclaimSlot(r)
    \/ ReclaimAtCapacity(r)
    \/ RequestDbError(r)

-----------------------------------------------------------------------------
(* Crash and initialize_positions_system *)

\* Variant: positions whose entry is still unverified are forgotten.
HoldersOfVerified(rows) == {i \in OpenIds(rows) : rows[i].entryOk}

rebuild_position_slot_holders(rows) == OpenIds(rows)

\* reconcile_global_position_semaphore on a fresh semaphore: one permit per
\* open position, up to capacity.
ReconciledPermits(open) == IF open < MaxOpenPositions THEN MaxOpenPositions - open ELSE 0

\* The locks of the next boot are new ones that nobody holds; their numbers go on.
CrashAndRestart ==
    LET open == OpenIds(db)
    IN  /\ boots < MaxBoots
        /\ boots' = boots + 1
        /\ mem' = db
        /\ loaded' = nextId - 1
        /\ holders' = rebuild_position_slot_holders(db)
        /\ avail' = ReconciledPermits(Cardinality(open))
        /\ cap' = avail' + Cardinality(open)
        /\ pendingOpen' = {}
        /\ opn' = [t \in Openers |-> IdleOpener]
        /\ wrk' = IdleWorker
        /\ req' = [r \in Requests |-> IdleRequest]
        /\ slotless' = {}
        /\ stranded' = {}
        /\ UNCHANGED <<db, nextId, lockGen>>

Init ==
    /\ avail = MaxOpenPositions
    /\ holders = {}
    /\ mem = [i \in Ids |-> NoRow]
    /\ loaded = 0
    /\ db = [i \in Ids |-> NoRow]
    /\ nextId = 1
    /\ pendingOpen = {}
    /\ lockGen = [m \in Mints |-> 0]
    /\ opn = [t \in Openers |-> IdleOpener]
    /\ wrk = IdleWorker
    /\ req = [r \in Requests |-> IdleRequest]
    /\ boots = 0
    /\ cap = MaxOpenPositions
    /\ slotless = {}
    /\ stranded = {}

Opening(t) ==
    \/ \E m \in Mints : OpenAcquirePermit(t, m)
    \/ OpenLookupLock(t)  \/ OpenLock(t)
    \/ OpenCheckMemory(t) \/ OpenAlreadyOpen(t)
    \/ OpenCheckDb(t)     \/ OpenRefused(t)
    \/ OpenSwap(t)        \/ OpenSwapFails(t)
    \/ OpenPersist(t)     \/ OpenPersistPanics(t)
    \/ add_position(t)    \/ OpenRegisterSlot(t)
    \/ OpenReturnsOk(t)

Next ==
    \/ \E t \in Openers : Opening(t)
    \/ \E m \in Mints : PendingOpenExpires(m)
    \/ Worker
    \/ \E r \in Requests : Dashboard(r)
    \/ CrashAndRestart

Spec == Init /\ [][Next]_vars

-----------------------------------------------------------------------------
(* Properties *)

\* Requests that took a permit and have not registered it yet.
Reclaiming == {r \in Requests : req[r].at = "register"}

Opener  == [at : OpenerAt, mint : Mints \cup {NoRow}, id : Ids \cup {0}, gen : Nat]
Request == [op : AdminOps \cup {"none"}, at : RequestAt, ids : SUBSET Ids,
            row : Row \cup {NoRow}, open : BOOLEAN]

PermitsOK == avail \in Nat /\ holders \subseteq Ids
TableOK ==
    /\ mem \in [Ids -> Row \cup {NoRow}]
    /\ db \in [Ids -> Row \cup {NoRow}]
    /\ loaded \in Nat /\ nextId \in Nat \ {0}
OpenersOK ==
    /\ opn \in [Openers -> Opener]
    /\ \A t \in Openers : opn[t].at # "idle" => opn[t].mint \in Mints
    /\ \A t \in Openers : opn[t].at \in {"saved", "added"} => opn[t].id \in Ids
WorkerOK ==
    /\ wrk \in [at : {"idle", "persist", "release"},
                act : {"none", "entry", "close", "orphan"}, id : Ids \cup {0}]
    /\ wrk.at # "idle" => wrk.id \in Ids
RequestsOK ==
    /\ req \in [Requests -> Request]
    /\ \A r \in Requests : req[r].op = "force_close" => req[r].row \in Row
HistoryOK ==
    /\ boots \in Nat /\ cap \in Nat
    /\ slotless \subseteq Ids /\ stranded \subseteq Ids

\* Each variable holds what the program can put there.
TypeOK ==
    /\ PermitsOK
    /\ TableOK
    /\ pendingOpen \subseteq Mints
    /\ lockGen \in [Mints -> Nat]
    /\ OpenersOK
    /\ WorkerOK
    /\ RequestsOK
    /\ HistoryOK

\* A slot is released at most once per position, whichever terminal paths run
\* and in whatever order: permits free, held by positions or carried by an
\* actor never exceed what the semaphore was booted with.
PermitsNeverMinted ==
    avail + Cardinality(holders) + Cardinality(Carriers) + Cardinality(Reclaiming) <= cap

\* A position still under management keeps the slot that pays for it, or the
\* limit on open positions would be exceeded in silence. The exceptions are a
\* handler or an open still at work on the position, and the positions in slotless:
\* unarchived at capacity (logged by the handler), closed or deleted in the table
\* before their open listed them, or orphans whose removal hit another row.
OpenPositionHoldsSlot ==
    \A i \in OpenIds(mem) :
        \/ i \in holders
        \/ i \in slotless
        \/ \E t \in Openers : opn[t].at = "added" /\ opn[t].id = i
        \/ \E r \in Requests : i \in req[r].ids

\* Every closed, archived or removed position has given its slot back, or has an
\* actor on the way to do so, or is in stranded: its slot was registered after it had
\* already left, the write of its close failed, its row was deleted when
\* closed but not yet released, or it was removed in place of an orphan.
NoUnexplainedLeak ==
    \A i \in holders :
        \/ i \in OpenIds(mem)
        \/ i \in stranded
        \/ wrk.at # "idle" /\ wrk.id = i
        \/ \E r \in Requests : i \in req[r].ids

\* A mint never has two open positions ("prevents duplicate concurrent entries",
\* open_position_impl).
OneOpenPositionPerMint ==
    \A i, j \in OpenIds(mem) : mem[i].mint = mem[j].mint => i = j

\* The mint lock, the memory guard, the pending-open mark and the database guard of
\* open_position_impl together keep a mint to one open position, through closes,
\* re-buys, archiving and expired marks, for as long as no row of that mint has been
\* removed (remove_position drops the lock object others may hold or wait for).
OneOpenWhileLockStands ==
    \A i, j \in OpenIds(mem) :
        mem[i].mint = mem[j].mint /\ lockGen[mem[i].mint] = 0 => i = j
=============================================================================
