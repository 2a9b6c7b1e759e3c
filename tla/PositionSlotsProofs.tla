------------------------- MODULE PositionSlotsProofs -------------------------
(***************************************************************************)
(* Machine-checked facts about PositionSlots, for any number of openers,   *)
(* requests, mints, positions and restarts:                                *)
(*   - TypeCorrect: every reachable state satisfies TypeOK;                *)
(*   - NeverMinted: the semaphore accounting never creates a permit;       *)
(*   - LeaksAreExplained: a slot that pays for nothing is being released,  *)
(*     or its release was missed on a known path;                          *)
(*   - OpenPositionsPay: an open position holds its slot, when no request  *)
(*     can undo another one (Serial);                                      *)
(*   - OneOpenPerStandingMint: the guards of an open keep a mint to one    *)
(*     open position, when the database answers and the dashboard only     *)
(*     archives and unarchives (Calm).                                     *)
(***************************************************************************)
EXTENDS PositionSlots, FiniteSetTheorems, TLAPS

-----------------------------------------------------------------------------
(* Type correctness *)

LEMMA InitTypeOK == Init => TypeOK
<1> SUFFICES ASSUME Init PROVE TypeOK
  OBVIOUS
<1> USE SlotAssumption DEF Init
<1>1. PermitsOK /\ TableOK /\ HistoryOK
  BY DEF PermitsOK, TableOK, HistoryOK, Ids
<1>2. OpenersOK
  BY DEF OpenersOK, Opener, IdleOpener, OpenerAt, CarryAt
<1>3. WorkerOK
  BY DEF WorkerOK, IdleWorker
<1>4. RequestsOK
  BY DEF RequestsOK, Request, IdleRequest, RequestAt
<1> QED BY <1>1, <1>2, <1>3, <1>4 DEF TypeOK

\* The row open_position_impl inserts is a row.
LEMMA NewRow ==
  ASSUME NEW m \in Mints
  PROVE  [mint |-> m, entryOk |-> FALSE, closed |-> FALSE, archived |-> FALSE] \in Row
  BY DEF Row

LEMMA OpeningTypeOK ==
  ASSUME TypeOK, NEW t \in Openers, Opening(t)
  PROVE  TypeOK'
<1> USE SlotAssumption
        DEF TypeOK, PermitsOK, TableOK, OpenersOK, Opener, HistoryOK, OpenerAt, CarryAt,
            permits, table, history, WorkerOK, RequestsOK
<1>1. ASSUME NEW m \in Mints, OpenAcquirePermit(t, m) PROVE TypeOK'
  BY <1>1 DEF OpenAcquirePermit
<1>2. CASE OpenLookupLock(t)
  BY <1>2 DEF OpenLookupLock
<1>3. CASE OpenLock(t)
  BY <1>3 DEF OpenLock, OpenerGoes
<1>4. CASE OpenCheckMemory(t)
  BY <1>4 DEF OpenCheckMemory, OpenerGoes
<1>5. CASE OpenAlreadyOpen(t)
  BY <1>5 DEF OpenAlreadyOpen, OpenReturnsErr, IdleOpener
<1>6. CASE OpenCheckDb(t)
  BY <1>6 DEF OpenCheckDb, OpenerGoes
<1>7. CASE OpenRefused(t)
  BY <1>7 DEF OpenRefused, OpenReturnsErr, IdleOpener
<1>8. CASE OpenSwap(t)
  BY <1>8 DEF OpenSwap, OpenerGoes
<1>9. CASE OpenSwapFails(t)
  BY <1>9 DEF OpenSwapFails, OpenReturnsErr, IdleOpener
<1>10. CASE OpenPersist(t)
  <2>1. nextId \in Ids
    BY <1>10 DEF OpenPersist, Ids
  <2>2. [mint |-> opn[t].mint, entryOk |-> FALSE, closed |-> FALSE, archived |-> FALSE] \in Row
    BY <1>10, NewRow DEF OpenPersist
  <2> QED BY <1>10, <2>1, <2>2 DEF OpenPersist
<1>11. CASE OpenPersistPanics(t)
  BY <1>11 DEF OpenPersistPanics, OpenReturnsErr, IdleOpener
<1>12. CASE add_position(t)
  <2>1. [mint |-> opn[t].mint, entryOk |-> FALSE, closed |-> FALSE, archived |-> FALSE] \in Row
    BY <1>12, NewRow DEF add_position
  <2>2. mem' \in [Ids -> Row \cup {NoRow}]
    BY <1>12, <2>1 DEF add_position
  <2> QED BY <1>12, <2>2 DEF add_position, OpenerGoes
<1>13. CASE OpenRegisterSlot(t)
  BY <1>13 DEF OpenRegisterSlot, OpenerGoes
<1>14. CASE OpenReturnsOk(t)
  BY <1>14 DEF OpenReturnsOk, IdleOpener
<1> QED BY <1>1, <1>2, <1>3, <1>4, <1>5, <1>6, <1>7, <1>8, <1>9, <1>10, <1>11, <1>12, <1>13, <1>14
        DEF Opening

LEMMA WorkerTypeOK ==
  ASSUME TypeOK, Worker
  PROVE  TypeOK'
<1> USE SlotAssumption
        DEF TypeOK, PermitsOK, TableOK, OpenersOK, HistoryOK, WorkerOK, RequestsOK,
            permits, table, history, UpdateMem, IdleWorker
\* A row with one flag changed is a row.
<1>1. ASSUME NEW row \in Row
      PROVE  /\ [row EXCEPT !.entryOk = TRUE] \in Row
             /\ [row EXCEPT !.closed = TRUE] \in Row
             /\ \A b \in BOOLEAN : [row EXCEPT !.archived = b] \in Row
  BY DEF Row
<1>2. ASSUME NEW i \in Ids, ApplyEntryVerified(i) PROVE TypeOK'
  <2>1. mem[i] \in Row
    BY <1>2 DEF ApplyEntryVerified
  <2> QED BY <1>1, <1>2, <2>1 DEF ApplyEntryVerified
<1>3. ASSUME NEW i \in Ids, ApplyExitVerified(i) \/ ApplySyntheticExit(i) PROVE TypeOK'
  <2>1. [mem[i] EXCEPT !.closed = TRUE] \in Row
    BY <1>1, <1>3 DEF ApplyExitVerified, ApplySyntheticExit
  <2>2. mem' \in [Ids -> Row \cup {NoRow}]
    BY <1>3, <2>1 DEF ApplyExitVerified, ApplySyntheticExit
  <2> QED BY <1>3, <2>2 DEF ApplyExitVerified, ApplySyntheticExit
<1>4. CASE ApplyPersist
  <2>1. wrk.id \in Ids /\ mem[wrk.id] \in Row /\ db[wrk.id] \in Row
    BY <1>4 DEF ApplyPersist
  <2>2. db[wrk.id].archived \in BOOLEAN
    BY <2>1 DEF Row
  <2>3. [mem[wrk.id] EXCEPT !.archived = db[wrk.id].archived] \in Row
    BY <1>1, <2>1, <2>2
  <2> QED BY <1>4, <2>1, <2>3 DEF ApplyPersist, update_position
<1>5. CASE ApplyPersistFails
  BY <1>5 DEF ApplyPersistFails
<1>6. CASE ApplyRelease
  BY <1>6 DEF ApplyRelease, release_position_slot
<1>7. ASSUME NEW i \in Ids, ApplyRemoveOrphan(i) PROVE TypeOK'
  <2>1. mem[i].mint \in Mints
    BY <1>7 DEF ApplyRemoveOrphan, Row
  <2> DEFINE removed == FirstRow(mem[i].mint)
  <2>2. mem' = [mem EXCEPT ![removed] = NoRow]
    BY <1>7 DEF ApplyRemoveOrphan, RemoveRow
  <2>3. mem' \in [Ids -> Row \cup {NoRow}]
    BY <2>2
  <2>4. lockGen' \in [Mints -> Nat] /\ pendingOpen' \subseteq Mints
    BY <1>7, <2>1 DEF ApplyRemoveOrphan, RemoveRow
  <2>5. slotless' \subseteq Ids
    BY <1>7 DEF ApplyRemoveOrphan
  <2>6. stranded' \subseteq Ids
    BY <1>7 DEF ApplyRemoveOrphan
  <2>7. wrk' = [at |-> "release", act |-> "orphan", id |-> i]
    BY <1>7 DEF ApplyRemoveOrphan
  <2>8. UNCHANGED <<avail, holders, loaded, db, nextId, opn, req, boots, cap>>
    BY <1>7 DEF ApplyRemoveOrphan
  <2> QED BY <2>3, <2>4, <2>5, <2>6, <2>7, <2>8
<1> QED BY <1>2, <1>3, <1>4, <1>5, <1>6, <1>7 DEF Worker

LEMMA RowsWithFlag ==
  ASSUME NEW rows \in [Ids -> Row \cup {NoRow}], NEW i \in Ids, NEW flag \in BOOLEAN
  PROVE  SetArchived(rows, i, flag) \in [Ids -> Row \cup {NoRow}]
<1>1. CASE rows[i] = NoRow
  BY <1>1 DEF SetArchived
<1>2. CASE rows[i] # NoRow
  <2>1. [rows[i] EXCEPT !.archived = flag] \in Row
    BY <1>2 DEF Row
  <2> QED BY <1>2, <2>1 DEF SetArchived
<1> QED BY <1>1, <1>2

\* Starting a request, moving it on and ending it keep the requests well formed.
LEMMA RequestMoves ==
  ASSUME RequestsOK, NEW r \in Requests
  PROVE  /\ \A at \in RequestAt : RequestGoes(r, at) => RequestsOK'
         /\ RequestEnds(r) => RequestsOK'
         /\ AfterMirror(r) => RequestsOK'
<1> USE DEF RequestsOK, Request
<1>1. \A at \in RequestAt : RequestGoes(r, at) => RequestsOK'
  BY DEF RequestGoes
<1>2. RequestEnds(r) => RequestsOK'
  BY DEF RequestEnds, IdleRequest, RequestAt
<1>3. AfterMirror(r) => RequestsOK'
  BY <1>1, <1>2 DEF AfterMirror, RequestAt
<1> QED BY <1>1, <1>2, <1>3

LEMMA RemoveTypes ==
  ASSUME TypeOK, NEW i \in Ids, RemoveFromMemory(i)
  PROVE  /\ mem' \in [Ids -> Row \cup {NoRow}]
         /\ lockGen' \in [Mints -> Nat]
         /\ pendingOpen' \subseteq Mints
<1>1. CASE mem[i] = NoRow
  BY <1>1 DEF RemoveFromMemory, TypeOK, TableOK
<1>2. CASE mem[i] # NoRow
  <2>1. mem[i].mint \in Mints
    BY <1>2 DEF TypeOK, TableOK, Row
  <2> QED BY <1>2, <2>1 DEF RemoveFromMemory, RemoveRow, TypeOK, TableOK
<1> QED BY <1>1, <1>2

LEMMA BeginTypeOK ==
  ASSUME TypeOK, NEW r \in Requests, NEW i \in Ids,
         \/ BeginArchive(r, i) \/ BeginUnarchive(r, i) \/ BeginDelete(r, i)
         \/ BeginForceClose(r, i) \/ BeginPurge(r)
  PROVE  TypeOK'
<1> USE DEF TypeOK, PermitsOK, TableOK, OpenersOK, HistoryOK, WorkerOK, RequestsOK, Request,
            permits, table, history, Begin, RequestAt
<1>1. CASE BeginArchive(r, i)
  BY <1>1 DEF BeginArchive, holds_open_slot, Row
<1>2. CASE BeginUnarchive(r, i)
  BY <1>2 DEF BeginUnarchive, holds_open_slot, Row
<1>3. CASE BeginDelete(r, i)
  BY <1>3 DEF BeginDelete, holds_open_slot, Stored, Row
<1>4. CASE BeginForceClose(r, i)
  <2>1. Stored(i) \in Row
    BY <1>4 DEF BeginForceClose, Stored
  <2> QED BY <1>4, <2>1 DEF BeginForceClose
<1>5. CASE BeginPurge(r)
  BY <1>5 DEF BeginPurge
<1> QED BY <1>1, <1>2, <1>3, <1>4, <1>5

LEMMA PersistTypeOK ==
  ASSUME TypeOK, NEW r \in Requests, NEW i \in Ids,
         \/ PersistArchived(r, i) \/ PersistDelete(r, i) \/ PersistPurge(r)
         \/ PersistForceClose(r, i) \/ RequestDbError(r)
  PROVE  TypeOK'
<1> USE DEF TypeOK, PermitsOK, TableOK, OpenersOK, HistoryOK, WorkerOK, permits, table, history
<1>1. CASE PersistArchived(r, i)
  <2>1. RequestsOK'
    BY <1>1, RequestMoves DEF PersistArchived, RequestAt
  <2>2. db' \in [Ids -> Row \cup {NoRow}]
    BY <1>1, RowsWithFlag DEF PersistArchived
  <2> QED BY <1>1, <2>1, <2>2 DEF PersistArchived
<1>2. CASE PersistDelete(r, i)
  <2>1. RequestsOK'
    BY <1>2, RequestMoves DEF PersistDelete, RequestAt
  <2> QED BY <1>2, <2>1 DEF PersistDelete
<1>3. CASE PersistPurge(r)
  <2>1. RequestsOK'
    BY <1>3, RequestMoves DEF PersistPurge, RequestAt
  <2> QED BY <1>3, <2>1 DEF PersistPurge
<1>4. CASE PersistForceClose(r, i)
  <2>1. RequestsOK'
    BY <1>4, RequestMoves DEF PersistForceClose, RequestAt
  <2>2. db' \in [Ids -> Row \cup {NoRow}]
    <3>1. CASE db[i] # NoRow /\ update_position(i, [req[r].row EXCEPT !.closed = TRUE])
      <4>1. req[r].row \in Row /\ db[i] \in Row
        BY <1>4, <3>1 DEF PersistForceClose, RequestsOK
      <4>2. db[i].archived \in BOOLEAN
        BY <4>1 DEF Row
      <4>3. [req[r].row EXCEPT !.closed = TRUE] \in Row
        BY <4>1 DEF Row
      <4>4. [[req[r].row EXCEPT !.closed = TRUE] EXCEPT !.archived = db[i].archived] \in Row
        BY <4>2, <4>3 DEF Row
      <4> QED BY <3>1, <4>4 DEF update_position
    <3>2. CASE UNCHANGED db
      BY <3>2
    <3> QED BY <1>4, <3>1, <3>2 DEF PersistForceClose
  <2> QED BY <1>4, <2>1, <2>2 DEF PersistForceClose
<1>5. CASE RequestDbError(r)
  <2>1. RequestsOK'
    BY <1>5, RequestMoves DEF RequestDbError
  <2> QED BY <1>5, <2>1 DEF RequestDbError
<1> QED BY <1>1, <1>2, <1>3, <1>4, <1>5

LEMMA MirrorTypeOK ==
  ASSUME TypeOK, NEW r \in Requests, NEW i \in Ids,
         \/ MirrorArchived(r, i) \/ MirrorDelete(r, i) \/ MirrorPurge(r, i)
         \/ MirrorForceClose(r, i)
  PROVE  TypeOK'
<1> USE DEF TypeOK, PermitsOK, TableOK, OpenersOK, HistoryOK, WorkerOK, permits, table, history
<1>1. CASE MirrorArchived(r, i)
  <2>1. RequestsOK'
    BY <1>1, RequestMoves DEF MirrorArchived
  <2>2. mem' \in [Ids -> Row \cup {NoRow}]
    BY <1>1, RowsWithFlag DEF MirrorArchived
  <2> QED BY <1>1, <2>1, <2>2 DEF MirrorArchived
<1>2. CASE MirrorDelete(r, i)
  <2>1. RequestsOK'
    BY <1>2, RequestMoves DEF MirrorDelete
  <2>2. /\ mem' \in [Ids -> Row \cup {NoRow}]
        /\ lockGen' \in [Mints -> Nat]
        /\ pendingOpen' \subseteq Mints
    BY <1>2, RemoveTypes DEF MirrorDelete
  <2>3. HistoryOK'
    BY <1>2 DEF MirrorDelete, Mistaken
  <2> QED BY <1>2, <2>1, <2>2, <2>3 DEF MirrorDelete
<1>3. CASE MirrorPurge(r, i)
  <2>1. RequestsOK'
    <3>1. req[r] \in Request
      BY DEF RequestsOK
    <3>2. [req[r] EXCEPT !.ids = req[r].ids \ {i}] \in Request
      BY <3>1 DEF Request
    <3>3. IdleRequest \in Request
      BY DEF Request, IdleRequest, RequestAt
    <3>4. PurgeLeft(req[r], i) \in Request
      BY <3>2, <3>3 DEF PurgeLeft
    <3>5. req' = [req EXCEPT ![r] = PurgeLeft(req[r], i)]
      BY <1>3 DEF MirrorPurge
    <3>6. PurgeLeft(req[r], i).op # "force_close"
      BY <1>3, <3>1 DEF MirrorPurge, Request, IdleRequest, PurgeLeft
    <3> QED BY <3>4, <3>5, <3>6 DEF RequestsOK
  <2>2. /\ mem' \in [Ids -> Row \cup {NoRow}]
        /\ lockGen' \in [Mints -> Nat]
        /\ pendingOpen' \subseteq Mints
    BY <1>3, RemoveTypes DEF MirrorPurge
  <2>3. HistoryOK'
    BY <1>3 DEF MirrorPurge, Mistaken
  <2> QED BY <1>3, <2>1, <2>2, <2>3 DEF MirrorPurge
<1>4. CASE MirrorForceClose(r, i)
  <2>1. RequestsOK'
    BY <1>4, RequestMoves DEF MirrorForceClose, RequestAt
  <2>2. mem' \in [Ids -> Row \cup {NoRow}]
    <3>1. CASE mem[i] = NoRow
      BY <1>4, <3>1 DEF MirrorForceClose, UpdateMem
    <3>2. CASE mem[i] # NoRow
      <4>1. [mem[i] EXCEPT !.closed = TRUE] \in Row
        BY <3>2 DEF Row
      <4> QED BY <1>4, <3>2, <4>1 DEF MirrorForceClose, UpdateMem
    <3> QED BY <3>1, <3>2
  <2>3. HistoryOK'
    BY <1>4 DEF MirrorForceClose, Mistaken
  <2> QED BY <1>4, <2>1, <2>2, <2>3 DEF MirrorForceClose
<1> QED BY <1>1, <1>2, <1>3, <1>4

LEMMA SlotTypeOK ==
  ASSUME TypeOK, NEW r \in Requests, NEW i \in Ids,
         \/ ReleaseByRequest(r, i) \/ ReclaimSlot(r) \/ ReclaimAtCapacity(r)
         \/ RegisterReclaimed(r, i)
  PROVE  TypeOK'
<1> USE DEF TypeOK, PermitsOK, TableOK, OpenersOK, HistoryOK, WorkerOK, permits, table, history
<1>1. CASE ReleaseByRequest(r, i)
  <2>1. RequestsOK'
    BY <1>1, RequestMoves DEF ReleaseByRequest
  <2> QED BY <1>1, <2>1 DEF ReleaseByRequest, release_position_slot
<1>2. CASE ReclaimSlot(r)
  <2>1. RequestsOK'
    BY <1>2, RequestMoves DEF ReclaimSlot, RequestAt
  <2> QED BY <1>2, <2>1 DEF ReclaimSlot
<1>3. CASE ReclaimAtCapacity(r)
  <2>1. RequestsOK'
    BY <1>3, RequestMoves DEF ReclaimAtCapacity
  <2>2. req[r].ids \subseteq Ids
    BY DEF RequestsOK, Request
  <2> QED BY <1>3, <2>1, <2>2 DEF ReclaimAtCapacity
<1>4. CASE RegisterReclaimed(r, i)
  <2>1. RequestsOK'
    BY <1>4, RequestMoves DEF RegisterReclaimed
  <2> QED BY <1>4, <2>1 DEF RegisterReclaimed
<1> QED BY <1>1, <1>2, <1>3, <1>4

LEMMA IdsFinite == IsFiniteSet(Ids) /\ \A S \in SUBSET Ids : IsFiniteSet(S)
<1>1. IsFiniteSet(Ids)
  BY SlotAssumption, FS_Interval DEF Ids
<1> QED BY <1>1, FS_Subset

LEMMA RestartTypeOK == ASSUME TypeOK, CrashAndRestart PROVE TypeOK'
<1> USE SlotAssumption DEF TypeOK, TableOK, CrashAndRestart, rebuild_position_slot_holders
<1>1. OpenIds(db) \subseteq Ids
  BY DEF OpenIds
<1>2. Cardinality(OpenIds(db)) \in Nat
  BY <1>1, IdsFinite, FS_CardinalityType
<1>3. ReconciledPermits(Cardinality(OpenIds(db))) \in Nat
  BY <1>2 DEF ReconciledPermits
<1>4. PermitsOK'
  BY <1>1, <1>3 DEF PermitsOK
<1>5. TableOK'
  BY DEF TableOK
<1>6. OpenersOK'
  BY DEF OpenersOK, Opener, IdleOpener, OpenerAt
<1>7. WorkerOK'
  BY DEF WorkerOK, IdleWorker
<1>8. RequestsOK'
  BY DEF RequestsOK, Request, IdleRequest, RequestAt
<1>9. HistoryOK'
  BY <1>2, <1>3 DEF HistoryOK
<1>10. pendingOpen' \subseteq Mints /\ lockGen' \in [Mints -> Nat]
  OBVIOUS
<1> QED BY <1>4, <1>5, <1>6, <1>7, <1>8, <1>9, <1>10

LEMMA NextTypeOK == TypeOK /\ [Next]_vars => TypeOK'
<1> SUFFICES ASSUME TypeOK, [Next]_vars PROVE TypeOK'
  OBVIOUS
<1>1. ASSUME NEW t \in Openers, Opening(t) PROVE TypeOK'
  BY <1>1, OpeningTypeOK
<1>2. ASSUME NEW m \in Mints, PendingOpenExpires(m) PROVE TypeOK'
  BY <1>2 DEF PendingOpenExpires, TypeOK, PermitsOK, TableOK, OpenersOK, WorkerOK, RequestsOK,
              HistoryOK, permits, table, history
<1>3. CASE Worker
  BY <1>3, WorkerTypeOK
<1>4. ASSUME NEW r \in Requests, Dashboard(r) PROVE TypeOK'
  <2>1. ASSUME NEW i \in Ids,
               \/ BeginArchive(r, i) \/ BeginUnarchive(r, i) \/ BeginDelete(r, i)
               \/ BeginForceClose(r, i)
        PROVE  TypeOK'
    BY <2>1, BeginTypeOK
  <2>2. ASSUME NEW i \in Ids,
               \/ PersistArchived(r, i) \/ PersistDelete(r, i) \/ PersistForceClose(r, i)
        PROVE  TypeOK'
    BY <2>2, PersistTypeOK
  <2>3. ASSUME NEW i \in Ids,
               \/ MirrorArchived(r, i) \/ MirrorDelete(r, i) \/ MirrorPurge(r, i)
               \/ MirrorForceClose(r, i)
        PROVE  TypeOK'
    BY <2>3, MirrorTypeOK
  <2>4. ASSUME NEW i \in Ids, ReleaseByRequest(r, i) \/ RegisterReclaimed(r, i)
        PROVE  TypeOK'
    BY <2>4, SlotTypeOK
  <2>5. CASE BeginPurge(r) \/ PersistPurge(r) \/ ReclaimSlot(r) \/ ReclaimAtCapacity(r)
             \/ RequestDbError(r)
    <3>1. 1 \in Ids
      BY SlotAssumption DEF Ids
    <3> QED BY <2>5, <3>1, BeginTypeOK, PersistTypeOK, SlotTypeOK
  <2> QED BY <1>4, <2>1, <2>2, <2>3, <2>4, <2>5 DEF Dashboard
<1>5. CASE CrashAndRestart
  BY <1>5, RestartTypeOK
<1>6. CASE UNCHANGED vars
  BY <1>6 DEF vars, TypeOK, PermitsOK, TableOK, OpenersOK, WorkerOK, RequestsOK, HistoryOK,
              permits, table, history
<1> QED BY <1>1, <1>2, <1>3, <1>4, <1>5, <1>6 DEF Next

\* Every reachable state of the slot accounting is well typed.
THEOREM TypeCorrect == Spec => []TypeOK
<1>1. Init => TypeOK
  BY InitTypeOK
<1>2. TypeOK /\ [Next]_vars => TypeOK'
  BY NextTypeOK
<1> QED BY <1>1, <1>2, PTL DEF Spec

-----------------------------------------------------------------------------
(* Permits are never minted: what is free, held or carried is conserved or   *)
(* shrinks, because a release adds a permit only together with removing a    *)
(* holder, and a registration replaces the permit its actor carried.         *)

LEMMA Counts ==
  ASSUME TypeOK
  PROVE  /\ IsFiniteSet(holders) /\ IsFiniteSet(Carriers) /\ IsFiniteSet(Reclaiming)
         /\ Cardinality(holders) \in Nat
         /\ Cardinality(Carriers) \in Nat
         /\ Cardinality(Reclaiming) \in Nat
         /\ avail \in Nat /\ cap \in Nat
<1>1. IsFiniteSet(holders)
  BY IdsFinite DEF TypeOK, PermitsOK
<1>2. IsFiniteSet(Carriers)
  BY SlotAssumption, FS_Subset DEF Carriers
<1>3. IsFiniteSet(Reclaiming)
  BY SlotAssumption, FS_Subset DEF Reclaiming
<1> QED BY <1>1, <1>2, <1>3, FS_CardinalityType DEF TypeOK, PermitsOK, HistoryOK

\* One caller moving on changes the carriers by that caller at most.
LEMMA CarriersMove ==
  ASSUME TypeOK, NEW t \in Openers, NEW o, opn' = [opn EXCEPT ![t] = o]
  PROVE  /\ o.at \in CarryAt => Carriers' = Carriers \cup {t}
         /\ o.at \notin CarryAt => Carriers' = Carriers \ {t}
  BY DEF TypeOK, OpenersOK, Carriers

\* One request moving on changes the reclaiming ones by that request at most.
LEMMA ReclaimingMove ==
  ASSUME TypeOK, NEW r \in Requests, NEW q, req' = [req EXCEPT ![r] = q]
  PROVE  /\ q.at = "register" => Reclaiming' = Reclaiming \cup {r}
         /\ q.at # "register" => Reclaiming' = Reclaiming \ {r}
  BY DEF TypeOK, RequestsOK, Reclaiming

LEMMA KeepsPermits ==
  ASSUME PermitsNeverMinted, UNCHANGED <<permits, cap>>,
         Carriers' = Carriers, Reclaiming' = Reclaiming
  PROVE  PermitsNeverMinted'
  BY DEF PermitsNeverMinted, permits

\* A release turns a holder into a free permit, or does nothing.
LEMMA ReleaseConserves ==
  ASSUME TypeOK, PermitsNeverMinted, NEW i \in Ids, release_position_slot(i), UNCHANGED cap,
         Carriers' = Carriers, Reclaiming' = Reclaiming
  PROVE  PermitsNeverMinted'
<1> USE Counts DEF PermitsNeverMinted
<1>1. CASE i \in holders
  <2>1. Cardinality(holders') = Cardinality(holders) - 1 /\ avail' = avail + 1
    BY <1>1, FS_RemoveElement DEF release_position_slot
  <2> QED BY <2>1
<1>2. CASE i \notin holders
  <2>1. holders' = holders /\ avail' = avail
    BY <1>2 DEF release_position_slot
  <2> QED BY <2>1
<1> QED BY <1>1, <1>2

\* A registration adds one holder at most.
LEMMA RegisterAddsOne ==
  ASSUME TypeOK, NEW i \in Ids, holders' = holders \cup {i}
  PROVE  /\ Cardinality(holders') \in Nat
         /\ Cardinality(holders') <= Cardinality(holders) + 1
<1>1. IsFiniteSet(holders) /\ Cardinality(holders) \in Nat
  BY Counts
<1>2. Cardinality(holders \cup {i})
        = IF i \in holders THEN Cardinality(holders) ELSE Cardinality(holders) + 1
  BY <1>1, FS_AddElement
<1>3. Cardinality(holders')
        = IF i \in holders THEN Cardinality(holders) ELSE Cardinality(holders) + 1
  BY <1>2
<1> QED BY <1>1, <1>3

LEMMA OpeningNeverMints ==
  ASSUME TypeOK, PermitsNeverMinted, NEW t \in Openers, Opening(t)
  PROVE  PermitsNeverMinted'
<1> USE DEF permits, table, history
<1>1. Reclaiming' = Reclaiming
  <2>1. UNCHANGED req
    BY DEF Opening, OpenAcquirePermit, OpenLookupLock, OpenLock, OpenCheckMemory, OpenAlreadyOpen,
           OpenCheckDb, OpenRefused, OpenSwap, OpenSwapFails, OpenPersist, OpenPersistPanics,
           add_position, OpenRegisterSlot, OpenReturnsOk, OpenReturnsErr
  <2> QED BY <2>1 DEF Reclaiming
<1>2. ASSUME NEW m \in Mints, OpenAcquirePermit(t, m) PROVE PermitsNeverMinted'
  <2>1. Carriers' = Carriers \cup {t} /\ t \notin Carriers
    BY <1>2 DEF OpenAcquirePermit, Carriers, CarryAt, TypeOK, OpenersOK
  <2>2. Cardinality(Carriers') = Cardinality(Carriers) + 1
    <3>1. Cardinality(Carriers \cup {t}) = Cardinality(Carriers) + 1
      BY <2>1, Counts, FS_AddElement
    <3> QED BY <2>1, <3>1
  <2>3. avail' = avail - 1 /\ UNCHANGED <<holders, cap>>
    BY <1>2 DEF OpenAcquirePermit
  <2> QED BY <1>1, <2>2, <2>3, Counts DEF PermitsNeverMinted
<1>3. ASSUME t \in Carriers, OpenReturnsErr(t) PROVE PermitsNeverMinted'
  <2>1. Carriers' = Carriers \ {t}
    BY <1>3 DEF OpenReturnsErr, IdleOpener, Carriers, CarryAt, TypeOK, OpenersOK
  <2>2. Cardinality(Carriers') = Cardinality(Carriers) - 1
    <3>1. Cardinality(Carriers \ {t}) = Cardinality(Carriers) - 1
      BY <1>3, Counts, FS_RemoveElement
    <3> QED BY <2>1, <3>1
  <2>3. avail' = avail + 1 /\ UNCHANGED <<holders, cap>>
    BY <1>3 DEF OpenReturnsErr
  <2> QED BY <1>1, <2>2, <2>3, Counts DEF PermitsNeverMinted
<1>4. CASE \/ OpenAlreadyOpen(t) \/ OpenRefused(t) \/ OpenSwapFails(t) \/ OpenPersistPanics(t)
  <2>1. t \in Carriers /\ OpenReturnsErr(t)
    BY <1>4 DEF OpenAlreadyOpen, OpenRefused, OpenSwapFails, OpenPersistPanics, Carriers, CarryAt
  <2> QED BY <1>3, <2>1
<1>5. CASE OpenLookupLock(t) \/ OpenPersist(t)
  <2>1. UNCHANGED <<permits, cap>>
    BY <1>5 DEF OpenLookupLock, OpenPersist
  <2>2. t \in Carriers
    BY <1>5 DEF OpenLookupLock, OpenPersist, Carriers, CarryAt
  <2>3. Carriers' = Carriers \cup {t}
    BY <1>5, CarriersMove DEF OpenLookupLock, OpenPersist, CarryAt
  <2> QED BY <1>1, <2>1, <2>2, <2>3, KeepsPermits
<1>6. CASE \/ OpenLock(t) \/ OpenCheckMemory(t) \/ OpenCheckDb(t) \/ OpenSwap(t) \/ add_position(t)
  <2>1. UNCHANGED <<permits, cap>>
    BY <1>6 DEF OpenLock, OpenCheckMemory, OpenCheckDb, OpenSwap, add_position
  <2>2. t \in Carriers
    BY <1>6 DEF OpenLock, OpenCheckMemory, OpenCheckDb, OpenSwap, add_position, Carriers, CarryAt
  <2>3. Carriers' = Carriers
    BY <1>6, <2>2 DEF OpenLock, OpenCheckMemory, OpenCheckDb, OpenSwap, add_position, OpenerGoes,
                      Carriers, CarryAt, TypeOK, OpenersOK, Opener
  <2> QED BY <1>1, <2>1, <2>3, KeepsPermits
<1>7. CASE OpenRegisterSlot(t)
  <2>1. opn[t].at = "added" /\ opn[t].id \in Ids
    BY <1>7 DEF OpenRegisterSlot, TypeOK, OpenersOK
  <2>2. Cardinality(holders') \in Nat /\ Cardinality(holders') <= Cardinality(holders) + 1
    BY <1>7, <2>1, RegisterAddsOne DEF OpenRegisterSlot
  <2>3. t \in Carriers /\ Carriers' = Carriers \ {t}
    BY <1>7, <2>1 DEF OpenRegisterSlot, OpenerGoes, Carriers, CarryAt, TypeOK, OpenersOK, Opener
  <2>4. Cardinality(Carriers') = Cardinality(Carriers) - 1
    BY <2>3, Counts, FS_RemoveElement
  <2>5. UNCHANGED <<avail, cap>>
    BY <1>7 DEF OpenRegisterSlot
  <2> QED BY <1>1, <2>2, <2>4, <2>5, Counts DEF PermitsNeverMinted
<1>8. CASE OpenReturnsOk(t)
  <2>1. t \notin Carriers
    BY <1>8 DEF OpenReturnsOk, Carriers, CarryAt
  <2>2. Carriers' = Carriers
    BY <1>8, <2>1, CarriersMove DEF OpenReturnsOk, IdleOpener, CarryAt
  <2>3. UNCHANGED <<permits, cap>>
    BY <1>8 DEF OpenReturnsOk
  <2> QED BY <1>1, <2>2, <2>3, KeepsPermits
<1> QED BY <1>2, <1>4, <1>5, <1>6, <1>7, <1>8 DEF Opening

LEMMA WorkerNeverMints ==
  ASSUME TypeOK, PermitsNeverMinted, Worker
  PROVE  PermitsNeverMinted'
<1> USE DEF permits, table, history
<1>1. Reclaiming' = Reclaiming /\ Carriers' = Carriers /\ UNCHANGED cap
  <2>1. UNCHANGED <<req, opn, cap>>
    BY DEF Worker, ApplyEntryVerified, ApplyExitVerified, ApplySyntheticExit, ApplyRemoveOrphan,
           ApplyPersist, ApplyPersistFails, ApplyRelease
  <2> QED BY <2>1 DEF Reclaiming, Carriers
<1>2. CASE ApplyRelease
  <2>1. wrk.id \in Ids /\ release_position_slot(wrk.id)
    BY <1>2 DEF ApplyRelease, TypeOK, WorkerOK
  <2> QED BY <1>1, <2>1, ReleaseConserves
<1>3. CASE ~ApplyRelease
  <2>1. UNCHANGED permits
    BY <1>3 DEF Worker, ApplyEntryVerified, ApplyExitVerified, ApplySyntheticExit, ApplyRemoveOrphan,
                ApplyPersist, ApplyPersistFails
  <2> QED BY <1>1, <2>1, KeepsPermits
<1> QED BY <1>2, <1>3

\* The request steps that leave the semaphore and the registry alone.
LEMMA QuietRequestNeverMints ==
  ASSUME TypeOK, PermitsNeverMinted, NEW r \in Requests, NEW q,
         req[r].at # "register", q.at # "register", req' = [req EXCEPT ![r] = q],
         UNCHANGED <<permits, cap, opn>>
  PROVE  PermitsNeverMinted'
<1>1. Reclaiming' = Reclaiming
  BY DEF Reclaiming, TypeOK, RequestsOK
<1>2. Carriers' = Carriers
  BY DEF Carriers
<1> QED BY <1>1, <1>2, KeepsPermits

LEMMA RequestsStayQuiet ==
  ASSUME TypeOK, NEW r \in Requests
  PROVE  /\ \A at \in RequestAt \ {"register"} :
               RequestGoes(r, at) => \E q : q.at # "register" /\ req' = [req EXCEPT ![r] = q]
         /\ RequestEnds(r) => \E q : q.at # "register" /\ req' = [req EXCEPT ![r] = q]
         /\ AfterMirror(r) => \E q : q.at # "register" /\ req' = [req EXCEPT ![r] = q]
<1>1. ASSUME NEW at \in RequestAt \ {"register"}, RequestGoes(r, at)
      PROVE  \E q : q.at # "register" /\ req' = [req EXCEPT ![r] = q]
  <2>1. [req[r] EXCEPT !.at = at].at # "register"
    BY DEF TypeOK, RequestsOK, Request
  <2>2. req' = [req EXCEPT ![r] = [req[r] EXCEPT !.at = at]]
    BY <1>1 DEF RequestGoes
  <2> QED BY <2>1, <2>2
<1>2. ASSUME RequestEnds(r)
      PROVE  \E q : q.at # "register" /\ req' = [req EXCEPT ![r] = q]
  <2>1. IdleRequest.at # "register"
    BY DEF IdleRequest
  <2> QED BY <1>2, <2>1 DEF RequestEnds
<1> QED BY <1>1, <1>2 DEF AfterMirror, RequestAt

\* Starting a request takes no permit either.
LEMMA BeginNeverMints ==
  ASSUME TypeOK, PermitsNeverMinted, NEW r \in Requests, NEW op, NEW at \in {"persist", "mirror"},
         NEW ids, NEW row, NEW open, Begin(r, op, at, ids, row, open)
  PROVE  PermitsNeverMinted'
<1> DEFINE q == [op |-> op, at |-> at, ids |-> ids, row |-> row, open |-> open]
<1>1. q.at # "register" /\ req' = [req EXCEPT ![r] = q]
  BY DEF Begin
<1>2. req[r].at # "register" /\ UNCHANGED <<permits, cap, opn>>
  BY DEF Begin, history
<1> HIDE DEF q
<1> QED BY <1>1, <1>2, QuietRequestNeverMints

LEMMA DashboardNeverMints ==
  ASSUME TypeOK, PermitsNeverMinted, NEW r \in Requests, Dashboard(r)
  PROVE  PermitsNeverMinted'
<1> USE DEF permits, table, history
<1>1. ASSUME NEW i \in Ids, \/ BeginArchive(r, i) \/ BeginUnarchive(r, i)
                            \/ BeginDelete(r, i)  \/ BeginForceClose(r, i)
      PROVE  PermitsNeverMinted'
  BY <1>1, BeginNeverMints DEF BeginArchive, BeginUnarchive, BeginDelete, BeginForceClose
<1>2. CASE BeginPurge(r)
  BY <1>2, BeginNeverMints DEF BeginPurge
\* A step that neither takes, returns nor registers a permit.
<1>3. ASSUME UNCHANGED <<permits, cap, opn>>, req[r].at # "register",
             \/ \E at \in RequestAt \ {"register"} : RequestGoes(r, at)
             \/ RequestEnds(r)
             \/ AfterMirror(r)
      PROVE  PermitsNeverMinted'
  BY <1>3, RequestsStayQuiet, QuietRequestNeverMints
<1>4. ASSUME NEW i \in Ids, \/ PersistArchived(r, i) \/ MirrorArchived(r, i)
                            \/ PersistDelete(r, i)   \/ MirrorDelete(r, i)
                            \/ MirrorForceClose(r, i) \/ PersistForceClose(r, i)
      PROVE  PermitsNeverMinted'
  <2>1. UNCHANGED <<permits, cap, opn>> /\ req[r].at # "register"
    BY <1>4 DEF PersistArchived, MirrorArchived, PersistDelete, MirrorDelete, MirrorForceClose,
                PersistForceClose, Mistaken
  <2>2. \/ \E at \in RequestAt \ {"register"} : RequestGoes(r, at)
        \/ RequestEnds(r)
        \/ AfterMirror(r)
    BY <1>4 DEF PersistArchived, MirrorArchived, PersistDelete, MirrorDelete, MirrorForceClose,
                PersistForceClose, RequestAt
  <2> QED BY <1>3, <2>1, <2>2
<1>5. CASE PersistPurge(r) \/ ReclaimAtCapacity(r) \/ RequestDbError(r)
  <2>1. UNCHANGED <<permits, cap, opn>> /\ req[r].at # "register"
    BY <1>5 DEF PersistPurge, ReclaimAtCapacity, RequestDbError
  <2>2. \/ \E at \in RequestAt \ {"register"} : RequestGoes(r, at)
        \/ RequestEnds(r)
    BY <1>5 DEF PersistPurge, ReclaimAtCapacity, RequestDbError, RequestAt
  <2> QED BY <1>3, <2>1, <2>2
<1>6. ASSUME NEW i \in Ids, MirrorPurge(r, i) PROVE PermitsNeverMinted'
  <2>1. UNCHANGED <<permits, cap, opn>> /\ req[r].at # "register"
    BY <1>6 DEF MirrorPurge, Mistaken
  <2>2. PurgeLeft(req[r], i).at # "register"
    BY <1>6 DEF MirrorPurge, PurgeLeft, IdleRequest, TypeOK, RequestsOK, Request
  <2>3. req' = [req EXCEPT ![r] = PurgeLeft(req[r], i)]
    BY <1>6 DEF MirrorPurge
  <2> QED BY <2>1, <2>2, <2>3, QuietRequestNeverMints
<1>7. ASSUME NEW i \in Ids, ReleaseByRequest(r, i) PROVE PermitsNeverMinted'
  <2>1. Reclaiming' = Reclaiming
    BY <1>7 DEF ReleaseByRequest, RequestEnds, IdleRequest, Reclaiming, TypeOK, RequestsOK
  <2>2. Carriers' = Carriers
    BY <1>7 DEF ReleaseByRequest, Carriers
  <2>3. release_position_slot(i) /\ UNCHANGED cap
    BY <1>7 DEF ReleaseByRequest
  <2> QED BY <2>1, <2>2, <2>3, ReleaseConserves
<1>8. CASE ReclaimSlot(r)
  <2>1. r \notin Reclaiming /\ Reclaiming' = Reclaiming \cup {r}
    BY <1>8 DEF ReclaimSlot, RequestGoes, Reclaiming, TypeOK, RequestsOK, Request
  <2>2. Cardinality(Reclaiming') = Cardinality(Reclaiming) + 1
    <3>1. Cardinality(Reclaiming \cup {r}) = Cardinality(Reclaiming) + 1
      BY <2>1, Counts, FS_AddElement
    <3> QED BY <2>1, <3>1
  <2>3. Carriers' = Carriers
    BY <1>8 DEF ReclaimSlot, Carriers
  <2>4. avail' = avail - 1 /\ UNCHANGED <<holders, cap>>
    BY <1>8 DEF ReclaimSlot
  <2> QED BY <2>2, <2>3, <2>4, Counts DEF PermitsNeverMinted
<1>9. ASSUME NEW i \in Ids, RegisterReclaimed(r, i) PROVE PermitsNeverMinted'
  <2>1. r \in Reclaiming /\ Reclaiming' = Reclaiming \ {r}
    BY <1>9 DEF RegisterReclaimed, RequestEnds, IdleRequest, Reclaiming, TypeOK, RequestsOK
  <2>2. Cardinality(Reclaiming') = Cardinality(Reclaiming) - 1
    <3>1. Cardinality(Reclaiming \ {r}) = Cardinality(Reclaiming) - 1
      BY <2>1, Counts, FS_RemoveElement
    <3> QED BY <2>1, <3>1
  <2>3. Carriers' = Carriers
    BY <1>9 DEF RegisterReclaimed, Carriers
  <2>4. Cardinality(holders') \in Nat /\ Cardinality(holders') <= Cardinality(holders) + 1
    BY <1>9, RegisterAddsOne DEF RegisterReclaimed
  <2>5. UNCHANGED <<avail, cap>>
    BY <1>9 DEF RegisterReclaimed
  <2> QED BY <2>2, <2>3, <2>4, <2>5, Counts DEF PermitsNeverMinted
<1> QED BY <1>1, <1>2, <1>4, <1>5, <1>6, <1>7, <1>8, <1>9 DEF Dashboard

\* A boot starts a new account: the permits it finds free or held are its cap.
LEMMA RestartBalances ==
  ASSUME TypeOK, CrashAndRestart
  PROVE  PermitsNeverMinted'
<1>1. Carriers' = {} /\ Reclaiming' = {}
  BY DEF CrashAndRestart, Carriers, CarryAt, IdleOpener, Reclaiming, IdleRequest
<1>2. Cardinality(Carriers') = 0 /\ Cardinality(Reclaiming') = 0
  BY <1>1, FS_EmptySet
<1>3. holders' = OpenIds(db) /\ cap' = avail' + Cardinality(OpenIds(db))
  BY DEF CrashAndRestart, rebuild_position_slot_holders
<1>4. avail' \in Nat /\ Cardinality(OpenIds(db)) \in Nat
  <2>1. TypeOK'
    BY RestartTypeOK
  <2>2. IsFiniteSet(OpenIds(db))
    BY IdsFinite DEF OpenIds
  <2> QED BY <2>1, <2>2, FS_CardinalityType DEF TypeOK, PermitsOK
<1> QED BY <1>2, <1>3, <1>4 DEF PermitsNeverMinted

\* A slot is never released more often than it was taken: whatever callers,
\* closes, dashboard requests and restarts do, the semaphore's permits are conserved
\* between two boots (release_position_slot, register_position_slot).
THEOREM NeverMinted == Spec => []PermitsNeverMinted
<1>1. Init => PermitsNeverMinted
  <2> SUFFICES ASSUME Init PROVE PermitsNeverMinted
    OBVIOUS
  <2>1. holders = {} /\ Carriers = {} /\ Reclaiming = {} /\ avail = cap
    BY DEF Init, Carriers, CarryAt, IdleOpener, Reclaiming, IdleRequest
  <2>2. cap \in Nat
    BY SlotAssumption DEF Init
  <2> QED BY <2>1, <2>2, FS_EmptySet DEF PermitsNeverMinted
<1>2. TypeOK /\ PermitsNeverMinted /\ [Next]_vars => PermitsNeverMinted'
  <2> SUFFICES ASSUME TypeOK, PermitsNeverMinted, [Next]_vars PROVE PermitsNeverMinted'
    OBVIOUS
  <2>1. CASE \E t \in Openers : Opening(t)
    BY <2>1, OpeningNeverMints
  <2>2. CASE \E m \in Mints : PendingOpenExpires(m)
    <3>1. UNCHANGED <<permits, cap, opn, req>>
      BY <2>2 DEF PendingOpenExpires, history
    <3>2. Carriers' = Carriers /\ Reclaiming' = Reclaiming
      BY <3>1 DEF Carriers, Reclaiming
    <3> QED BY <3>1, <3>2, KeepsPermits
  <2>3. CASE Worker
    BY <2>3, WorkerNeverMints
  <2>4. CASE \E r \in Requests : Dashboard(r)
    BY <2>4, DashboardNeverMints
  <2>5. CASE CrashAndRestart
    BY <2>5, RestartBalances
  <2>6. CASE UNCHANGED vars
    <3>1. UNCHANGED <<permits, cap, opn, req>>
      BY <2>6 DEF vars, history
    <3>2. Carriers' = Carriers /\ Reclaiming' = Reclaiming
      BY <3>1 DEF Carriers, Reclaiming
    <3> QED BY <3>1, <3>2, KeepsPermits
  <2> QED BY <2>1, <2>2, <2>3, <2>4, <2>5, <2>6 DEF Next
<1> QED BY <1>1, <1>2, TypeCorrect, PTL DEF Spec

-----------------------------------------------------------------------------
(* What a step does to the list, the openers and the ids *)

\* An opener has stored position i and not listed it yet.
Saved(i) == \E t \in Openers : opn[t].at = "saved" /\ opn[t].id = i

\* A step of the running program: everything but a restart.
Step ==
    \/ \E t \in Openers : Opening(t)
    \/ \E m \in Mints : PendingOpenExpires(m)
    \/ Worker
    \/ \E r \in Requests : Dashboard(r)
    \/ UNCHANGED vars

\* The steps of an open that neither store, list nor register its position.
QuietOpening(t) ==
    /\ UNCHANGED <<mem, db, nextId, holders, stranded>>
    /\ opn[t].at \notin {"saved", "added"}
    /\ opn'[t].at \notin {"saved", "added"}

LEMMA OpeningMoves ==
  ASSUME TypeOK, NEW t \in Openers, Opening(t)
  PROVE  /\ UNCHANGED <<loaded, lockGen, wrk, req, boots, cap, slotless>>
         /\ \A u \in Openers : u # t => opn'[u] = opn[u]
         /\ OpenPersist(t) \/ add_position(t) \/ OpenRegisterSlot(t) \/ QuietOpening(t)
<1> USE DEF permits, table, history
<1>0. opn \in [Openers -> Opener]
  BY DEF TypeOK, OpenersOK
<1>1. UNCHANGED <<loaded, lockGen, wrk, req, boots, cap, slotless>>
  BY DEF Opening, OpenAcquirePermit, OpenLookupLock, OpenLock, OpenCheckMemory, OpenAlreadyOpen,
         OpenCheckDb, OpenRefused, OpenSwap, OpenSwapFails, OpenPersist, OpenPersistPanics,
         add_position, OpenRegisterSlot, OpenReturnsOk, OpenReturnsErr
<1>2. PICK q : opn' = [opn EXCEPT ![t] = q]
  <2>1. \A at : OpenerGoes(t, at) => \E q : opn' = [opn EXCEPT ![t] = q]
    BY DEF OpenerGoes
  <2>2. OpenReturnsErr(t) => \E q : opn' = [opn EXCEPT ![t] = q]
    BY DEF OpenReturnsErr
  <2> QED BY <2>1, <2>2
       DEF Opening, OpenAcquirePermit, OpenLookupLock, OpenLock, OpenCheckMemory, OpenAlreadyOpen,
           OpenCheckDb, OpenRefused, OpenSwap, OpenSwapFails, OpenPersist, OpenPersistPanics,
           add_position, OpenRegisterSlot, OpenReturnsOk
<1>3. \A u \in Openers : u # t => opn'[u] = opn[u]
  BY <1>0, <1>2
<1>4. CASE \E m \in Mints : OpenAcquirePermit(t, m)
  <2>1. QuietOpening(t)
    BY <1>0, <1>4 DEF OpenAcquirePermit, QuietOpening
  <2> QED BY <1>1, <1>3, <2>1
<1>5. CASE OpenLookupLock(t)
  <2>1. QuietOpening(t)
    BY <1>0, <1>5 DEF OpenLookupLock, QuietOpening
  <2> QED BY <1>1, <1>3, <2>1
<1>6. CASE OpenLock(t) \/ OpenCheckMemory(t) \/ OpenCheckDb(t) \/ OpenSwap(t)
  <2>1. PICK at \in {"locked", "guarded", "swapping", "bought"} : OpenerGoes(t, at)
    BY <1>6 DEF OpenLock, OpenCheckMemory, OpenCheckDb, OpenSwap
  <2>2. opn'[t].at = at
    BY <1>0, <2>1 DEF OpenerGoes, Opener
  <2>3. UNCHANGED <<mem, db, nextId, holders, stranded>> /\ opn[t].at \notin {"saved", "added"}
    BY <1>6 DEF OpenLock, OpenCheckMemory, OpenCheckDb, OpenSwap
  <2> QED BY <1>1, <1>3, <2>2, <2>3 DEF QuietOpening
<1>7. CASE \/ OpenAlreadyOpen(t) \/ OpenRefused(t) \/ OpenSwapFails(t) \/ OpenPersistPanics(t)
           \/ OpenReturnsOk(t)
  <2>1. opn' = [opn EXCEPT ![t] = IdleOpener]
    BY <1>7 DEF OpenAlreadyOpen, OpenRefused, OpenSwapFails, OpenPersistPanics, OpenReturnsOk,
                OpenReturnsErr
  <2>2. opn'[t].at = "idle"
    BY <1>0, <2>1 DEF IdleOpener
  <2>3. UNCHANGED <<mem, db, nextId, holders, stranded>> /\ opn[t].at \notin {"saved", "added"}
    BY <1>7 DEF OpenAlreadyOpen, OpenRefused, OpenSwapFails, OpenPersistPanics, OpenReturnsOk,
                OpenReturnsErr
  <2> QED BY <1>1, <1>3, <2>2, <2>3 DEF QuietOpening
<1> QED BY <1>1, <1>3, <1>4, <1>5, <1>6, <1>7 DEF Opening

\* The three steps of an open that move its position.
LEMMA OpeningIds ==
  ASSUME TypeOK, NEW t \in Openers
  PROVE  /\ OpenPersist(t) =>
              /\ opn[t].at = "bought" /\ opn'[t].at = "saved" /\ opn'[t].id = nextId
              /\ opn'[t].mint = opn[t].mint /\ opn'[t].gen = opn[t].gen
              /\ nextId' = nextId + 1 /\ UNCHANGED <<mem, holders, stranded>>
         /\ add_position(t) =>
              /\ opn[t].at = "saved" /\ opn'[t].at = "added" /\ opn'[t].id = opn[t].id
              /\ mem' = [mem EXCEPT ![opn[t].id] =
                           [mint |-> opn[t].mint, entryOk |-> FALSE, closed |-> FALSE,
                            archived |-> FALSE]]
              /\ opn[t].id \in Ids
              /\ UNCHANGED <<db, nextId, holders, stranded>>
         /\ OpenRegisterSlot(t) =>
              /\ opn[t].at = "added" /\ opn'[t].at = "registered"
              /\ holders' = holders \cup {opn[t].id}
              /\ is_position_open(mem[opn[t].id]) \/ opn[t].id \in stranded'
              /\ stranded \subseteq stranded'
              /\ UNCHANGED <<mem, db, nextId>>
<1> USE DEF permits, table, history
<1>0. opn \in [Openers -> Opener] /\ (opn[t].at = "saved" => opn[t].id \in Ids)
  BY DEF TypeOK, OpenersOK
<1>1. OpenPersist(t) =>
              /\ opn[t].at = "bought" /\ opn'[t].at = "saved" /\ opn'[t].id = nextId
              /\ opn'[t].mint = opn[t].mint /\ opn'[t].gen = opn[t].gen
              /\ nextId' = nextId + 1 /\ UNCHANGED <<mem, holders, stranded>>
  BY <1>0 DEF OpenPersist
<1>2. \A at : OpenerGoes(t, at) => opn'[t].at = at /\ opn'[t].id = opn[t].id
  BY <1>0 DEF OpenerGoes, Opener
<1>3. add_position(t) =>
              /\ opn[t].at = "saved" /\ opn'[t].at = "added" /\ opn'[t].id = opn[t].id
              /\ mem' = [mem EXCEPT ![opn[t].id] =
                           [mint |-> opn[t].mint, entryOk |-> FALSE, closed |-> FALSE,
                            archived |-> FALSE]]
              /\ opn[t].id \in Ids
              /\ UNCHANGED <<db, nextId, holders, stranded>>
  BY <1>0, <1>2 DEF add_position
<1>4. OpenRegisterSlot(t) =>
              /\ opn[t].at = "added" /\ opn'[t].at = "registered"
              /\ holders' = holders \cup {opn[t].id}
              /\ is_position_open(mem[opn[t].id]) \/ opn[t].id \in stranded'
              /\ stranded \subseteq stranded'
              /\ UNCHANGED <<mem, db, nextId>>
  BY <1>2 DEF OpenRegisterSlot
<1> QED BY <1>1, <1>3, <1>4

\* A request moves itself, and no opener and not the worker.
LEMMA RequestsOnly ==
  ASSUME TypeOK, NEW r \in Requests, Dashboard(r)
  PROVE  /\ UNCHANGED <<opn, wrk, nextId, loaded, boots, cap>>
         /\ \A s \in Requests : s # r => req'[s] = req[s]
<1> USE DEF permits, table, history
<1>0. req \in [Requests -> Request]
  BY DEF TypeOK, RequestsOK
<1>1. UNCHANGED <<opn, wrk, nextId, loaded, boots, cap>>
  BY DEF Dashboard, BeginArchive, BeginUnarchive, BeginDelete, BeginForceClose, BeginPurge, Begin,
         PersistArchived, MirrorArchived, PersistDelete, MirrorDelete, MirrorPurge, PersistPurge,
         MirrorForceClose, PersistForceClose, ReleaseByRequest, RegisterReclaimed, ReclaimSlot,
         ReclaimAtCapacity, RequestDbError, Mistaken
<1>2. PICK q : req' = [req EXCEPT ![r] = q]
  <2>1. /\ \A at : RequestGoes(r, at) => \E q : req' = [req EXCEPT ![r] = q]
        /\ RequestEnds(r) => \E q : req' = [req EXCEPT ![r] = q]
    BY DEF RequestGoes, RequestEnds
  <2>2. AfterMirror(r) => \E q : req' = [req EXCEPT ![r] = q]
    BY <2>1 DEF AfterMirror
  <2> QED BY <2>1, <2>2
       DEF Dashboard, BeginArchive, BeginUnarchive, BeginDelete, BeginForceClose, BeginPurge, Begin,
         PersistArchived, MirrorArchived, PersistDelete, MirrorDelete, MirrorPurge, PersistPurge,
         MirrorForceClose, PersistForceClose, ReleaseByRequest, RegisterReclaimed, ReclaimSlot,
         ReclaimAtCapacity, RequestDbError
<1> QED BY <1>0, <1>1, <1>2

\* Where a request goes.
LEMMA RequestFields ==
  ASSUME TypeOK, NEW r \in Requests
  PROVE  /\ \A at \in RequestAt : RequestGoes(r, at) =>
              /\ req'[r].at = at /\ req'[r].op = req[r].op /\ req'[r].ids = req[r].ids
              /\ req'[r].open = req[r].open /\ req'[r].row = req[r].row
         /\ RequestEnds(r) => req'[r] = IdleRequest
         /\ AfterMirror(r) /\ req[r].open =>
              /\ req'[r].at = "slot" /\ req'[r].op = req[r].op /\ req'[r].ids = req[r].ids
              /\ req'[r].open
         /\ AfterMirror(r) /\ ~req[r].open => req'[r] = IdleRequest
<1>0. req \in [Requests -> Request]
  BY DEF TypeOK, RequestsOK
<1>1. ASSUME NEW at \in RequestAt, RequestGoes(r, at)
      PROVE  /\ req'[r].at = at /\ req'[r].op = req[r].op /\ req'[r].ids = req[r].ids
             /\ req'[r].open = req[r].open /\ req'[r].row = req[r].row
  BY <1>0, <1>1 DEF RequestGoes, Request
<1>2. RequestEnds(r) => req'[r] = IdleRequest
  BY <1>0 DEF RequestEnds
<1>3. AfterMirror(r) /\ req[r].open => RequestGoes(r, "slot")
  BY DEF AfterMirror
<1>4. AfterMirror(r) /\ ~req[r].open => RequestEnds(r)
  BY DEF AfterMirror
<1>5. "slot" \in RequestAt
  BY DEF RequestAt
<1> QED BY <1>1, <1>2, <1>3, <1>4, <1>5

\* A row that stays in the list keeps its mint and stays closed; one that comes
\* into it was stored by an opener.
LEMMA MemMoves ==
  ASSUME TypeOK, Step, NEW i \in Ids
  PROVE  \/ mem'[i] = mem[i]
         \/ mem'[i] = NoRow
         \/ /\ mem[i] # NoRow /\ mem'[i] \in Row /\ mem'[i].mint = mem[i].mint
            /\ mem[i].closed => mem'[i].closed
            /\ \/ is_position_open(mem'[i]) => is_position_open(mem[i])
               \/ \E r \in Requests : MirrorArchived(r, i) /\ req[r].op = "unarchive"
         \/ \E t \in Openers : add_position(t) /\ opn[t].id = i
<1> USE DEF permits, table, history
<1>0. mem \in [Ids -> Row \cup {NoRow}] /\ NoRow \notin Row
  BY SlotAssumption DEF TypeOK, TableOK
<1>1. ASSUME NEW t \in Openers, Opening(t) PROVE mem'[i] = mem[i] \/ (add_position(t) /\ opn[t].id = i)
  BY <1>0, <1>1, OpeningMoves, OpeningIds DEF QuietOpening
<1>2. CASE (\E m \in Mints : PendingOpenExpires(m)) \/ UNCHANGED vars
  BY <1>2 DEF PendingOpenExpires, vars
<1>3. CASE Worker
  <2>1. ASSUME NEW j \in Ids, ApplyEntryVerified(j)
        PROVE  mem[j] # NoRow /\ mem' = [mem EXCEPT ![j] = [mem[j] EXCEPT !.entryOk = TRUE]]
    BY <2>1 DEF ApplyEntryVerified, UpdateMem
  <2>2. ASSUME NEW j \in Ids, ApplyExitVerified(j) \/ ApplySyntheticExit(j)
        PROVE  mem[j] # NoRow /\ mem' = [mem EXCEPT ![j] = [mem[j] EXCEPT !.closed = TRUE]]
    BY <2>2 DEF ApplyExitVerified, ApplySyntheticExit, UpdateMem
  <2>3. ASSUME NEW j \in Ids, ApplyRemoveOrphan(j)
        PROVE  \E k : mem' = [mem EXCEPT ![k] = NoRow]
    BY <2>3 DEF ApplyRemoveOrphan, RemoveRow
  <2>4. CASE ApplyPersist \/ ApplyPersistFails \/ ApplyRelease
    BY <2>4 DEF ApplyPersist, ApplyPersistFails, ApplyRelease
  <2>5. CASE \E j \in Ids : ApplyEntryVerified(j)
    <3>1. PICK j \in Ids : mem[j] # NoRow /\ mem' = [mem EXCEPT ![j] = [mem[j] EXCEPT !.entryOk = TRUE]]
      BY <2>1, <2>5
    <3>2. CASE j # i
      BY <3>1, <3>2, <1>0
    <3>3. CASE j = i
      <4>1. mem[i] \in Row /\ mem'[i] = [mem[i] EXCEPT !.entryOk = TRUE]
        BY <3>1, <3>3, <1>0
      <4> QED BY <4>1, <1>0 DEF is_position_open, Row
    <3> QED BY <3>2, <3>3
  <2>6. CASE \E j \in Ids : ApplyExitVerified(j) \/ ApplySyntheticExit(j)
    <3>1. PICK j \in Ids : mem[j] # NoRow /\ mem' = [mem EXCEPT ![j] = [mem[j] EXCEPT !.closed = TRUE]]
      BY <2>2, <2>6
    <3>2. CASE j # i
      BY <3>1, <3>2, <1>0
    <3>3. CASE j = i
      <4>1. mem[i] \in Row /\ mem'[i] = [mem[i] EXCEPT !.closed = TRUE]
        BY <3>1, <3>3, <1>0
      <4> QED BY <4>1, <1>0 DEF is_position_open, Row
    <3> QED BY <3>2, <3>3
  <2>7. CASE \E j \in Ids : ApplyRemoveOrphan(j)
    <3>1. PICK k : mem' = [mem EXCEPT ![k] = NoRow]
      BY <2>3, <2>7
    <3> QED BY <3>1, <1>0
  <2> QED BY <1>3, <2>4, <2>5, <2>6, <2>7 DEF Worker
<1>4. ASSUME NEW r \in Requests, Dashboard(r)
      PROVE  \/ mem'[i] = mem[i] \/ mem'[i] = NoRow
             \/ /\ mem[i] # NoRow /\ mem'[i] \in Row /\ mem'[i].mint = mem[i].mint
                /\ mem[i].closed => mem'[i].closed
                /\ \/ is_position_open(mem'[i]) => is_position_open(mem[i])
                   \/ MirrorArchived(r, i) /\ req[r].op = "unarchive"
  <2>1. ASSUME NEW j \in Ids, MirrorDelete(r, j) \/ MirrorPurge(r, j)
        PROVE  mem'[i] = mem[i] \/ mem'[i] = NoRow
    <3>1. mem' = mem \/ mem' = [mem EXCEPT ![j] = NoRow]
      BY <2>1 DEF MirrorDelete, MirrorPurge, RemoveFromMemory, RemoveRow
    <3> QED BY <3>1, <1>0
  <2>2. ASSUME NEW j \in Ids, MirrorForceClose(r, j)
        PROVE  \/ mem'[i] = mem[i]
               \/ /\ mem[i] # NoRow /\ mem'[i] \in Row /\ mem'[i].mint = mem[i].mint
                  /\ mem'[i].closed
    <3>1. mem' = mem \/ (mem[j] # NoRow /\ mem' = [mem EXCEPT ![j] = [mem[j] EXCEPT !.closed = TRUE]])
      BY <2>2 DEF MirrorForceClose, UpdateMem
    <3>2. CASE mem'[i] # mem[i]
      <4>1. i = j /\ mem[i] \in Row /\ mem'[i] = [mem[i] EXCEPT !.closed = TRUE]
        BY <3>1, <3>2, <1>0
      <4> QED BY <4>1, <1>0 DEF Row
    <3> QED BY <3>2
  <2>3. ASSUME NEW j \in Ids, MirrorArchived(r, j)
        PROVE  \/ mem'[i] = mem[i]
               \/ /\ mem[i] # NoRow /\ mem'[i] \in Row /\ mem'[i].mint = mem[i].mint
                  /\ mem'[i].closed = mem[i].closed
                  /\ j = i
                  /\ req[r].op = "unarchive" \/ mem'[i].archived
    <3> DEFINE flag == req[r].op = "archive"
    <3>1. mem' = mem \/ (mem[j] # NoRow /\ mem' = [mem EXCEPT ![j] = [mem[j] EXCEPT !.archived = flag]])
      BY <2>3 DEF MirrorArchived, SetArchived
    <3>2. CASE mem'[i] # mem[i]
      <4> HIDE DEF flag
      <4>1. i = j /\ mem[i] \in Row /\ mem'[i] = [mem[i] EXCEPT !.archived = flag]
        BY <3>1, <3>2, <1>0
      <4>2. flag \in BOOLEAN /\ (flag \/ req[r].op = "unarchive")
        BY <2>3 DEF flag, MirrorArchived
      <4> QED BY <4>1, <4>2, <1>0 DEF Row
    <3> QED BY <3>2
  <2>4. \/ mem' = mem
        \/ \E j \in Ids : \/ MirrorDelete(r, j) \/ MirrorPurge(r, j) \/ MirrorForceClose(r, j)
                          \/ MirrorArchived(r, j)
    BY <1>4 DEF Dashboard, BeginArchive, BeginUnarchive, BeginDelete, BeginForceClose, BeginPurge,
         Begin, PersistArchived, PersistDelete, PersistPurge, PersistForceClose, ReleaseByRequest,
         RegisterReclaimed, ReclaimSlot, ReclaimAtCapacity, RequestDbError
  <2>5. CASE \E j \in Ids : MirrorArchived(r, j)
    BY <2>3, <2>5 DEF is_position_open
  <2> QED BY <2>1, <2>2, <2>4, <2>5 DEF is_position_open
<1> QED BY <1>1, <1>2, <1>3, <1>4 DEF Step

\* A row comes into the table with OpenPersist only.
LEMMA DbMoves ==
  ASSUME TypeOK, Step, NEW i \in Ids, db'[i] # NoRow, db[i] = NoRow
  PROVE  i = nextId /\ \E t \in Openers : OpenPersist(t)
<1> USE DEF permits, table, history
<1>0. db \in [Ids -> Row \cup {NoRow}]
  BY DEF TypeOK, TableOK
<1>1. ASSUME NEW t \in Openers, Opening(t) PROVE OpenPersist(t) /\ i = nextId
  <2>1. OpenPersist(t)
    BY <1>1, OpeningMoves, OpeningIds DEF QuietOpening
  <2> QED BY <2>1, <1>0 DEF OpenPersist
<1>2. CASE (\E m \in Mints : PendingOpenExpires(m)) \/ UNCHANGED vars
  BY <1>2 DEF PendingOpenExpires, vars
<1>3. ASSUME Worker PROVE FALSE
  <2>1. CASE ApplyPersist
    BY <2>1, <1>0 DEF ApplyPersist, update_position
  <2>2. CASE ~ApplyPersist
    BY <1>3, <2>2 DEF Worker, ApplyEntryVerified, ApplyExitVerified, ApplySyntheticExit,
                      ApplyRemoveOrphan, ApplyPersistFails, ApplyRelease
  <2> QED BY <2>1, <2>2
<1>4. ASSUME NEW r \in Requests, Dashboard(r) PROVE FALSE
  <2>1. ASSUME NEW j \in Ids, PersistArchived(r, j) PROVE FALSE
    <3>1. db' = SetArchived(db, j, req[r].op = "archive")
      BY <2>1 DEF PersistArchived
    <3> QED BY <3>1, <1>0 DEF SetArchived
  <2>2. ASSUME NEW j \in Ids, PersistDelete(r, j) PROVE FALSE
    BY <2>2, <1>0 DEF PersistDelete
  <2>3. ASSUME NEW j \in Ids, PersistForceClose(r, j) PROVE FALSE
    BY <2>3, <1>0 DEF PersistForceClose, update_position
  <2>4. ASSUME PersistPurge(r) PROVE FALSE
    BY <2>4, <1>0 DEF PersistPurge
  <2>5. \/ db' = db
        \/ PersistPurge(r)
        \/ \E j \in Ids : PersistArchived(r, j) \/ PersistDelete(r, j) \/ PersistForceClose(r, j)
    BY <1>4 DEF Dashboard, BeginArchive, BeginUnarchive, BeginDelete, BeginForceClose, BeginPurge,
         Begin, MirrorDelete, MirrorPurge, MirrorForceClose, MirrorArchived, ReleaseByRequest,
         RegisterReclaimed, ReclaimSlot, ReclaimAtCapacity, RequestDbError
  <2> QED BY <2>1, <2>2, <2>3, <2>4, <2>5
<1> QED BY <1>1, <1>2, <1>3, <1>4 DEF Step

LEMMA SavedMoves ==
  ASSUME TypeOK, Step
  PROVE  /\ nextId \in Nat /\ nextId' \in Nat /\ nextId <= nextId'
         /\ \A i : Saved(i)' => Saved(i) \/ (i = nextId /\ nextId' = nextId + 1)
<1>0. nextId \in Nat
  BY DEF TypeOK, TableOK
<1>1. ASSUME NEW t \in Openers, Opening(t)
      PROVE  /\ nextId' \in {nextId, nextId + 1}
             /\ \A i : Saved(i)' => Saved(i) \/ (i = nextId /\ nextId' = nextId + 1)
  BY <1>1, OpeningMoves, OpeningIds DEF QuietOpening, Saved
<1>2. CASE UNCHANGED <<opn, nextId>>
  BY <1>0, <1>2 DEF Saved
<1>3. CASE (\E m \in Mints : PendingOpenExpires(m)) \/ Worker \/ UNCHANGED vars
  BY <1>2, <1>3
     DEF PendingOpenExpires, Worker, ApplyEntryVerified, ApplyExitVerified, ApplySyntheticExit,
         ApplyRemoveOrphan, ApplyPersist, ApplyPersistFails, ApplyRelease, table, vars
<1>4. CASE \E r \in Requests : Dashboard(r)
  BY <1>2, <1>4, RequestsOnly
<1> QED BY <1>0, <1>1, <1>3, <1>4 DEF Step

-----------------------------------------------------------------------------
(* Ids are given out once *)

\* What is listed, stored, requested or worked on was stored before, and an
\* opener lists its own row, once.
Numbered ==
    /\ \A i \in Ids : mem[i] # NoRow \/ db[i] # NoRow => i < nextId
    /\ \A t \in Openers : opn[t].at = "saved" => opn[t].id < nextId /\ mem[opn[t].id] = NoRow
    /\ \A t, u \in Openers :
          opn[t].at = "saved" /\ opn[u].at = "saved" /\ opn[t].id = opn[u].id => t = u

LEMMA NumberedStep ==
  ASSUME TypeOK, Numbered, Step
  PROVE  Numbered'
<1>0. /\ mem \in [Ids -> Row \cup {NoRow}] /\ NoRow \notin Row
      /\ nextId \in Nat /\ nextId' \in Nat /\ nextId <= nextId'
      /\ \A t \in Openers : opn[t].at = "saved" => opn[t].id \in Ids
      /\ \A i \in Ids : i \in Nat
  BY SlotAssumption, SavedMoves DEF TypeOK, TableOK, OpenersOK, Ids
<1>1. ASSUME NEW i \in Ids, mem'[i] # NoRow \/ db'[i] # NoRow PROVE i < nextId'
  <2>1. CASE mem'[i] # NoRow
    <3>1. mem[i] # NoRow \/ \E t \in Openers : add_position(t) /\ opn[t].id = i
      BY <2>1, MemMoves
    <3>2. i < nextId
      BY <3>1, OpeningIds DEF Numbered
    <3> QED BY <3>2, <1>0
  <2>2. CASE db'[i] # NoRow
    <3>1. CASE db[i] # NoRow
      BY <3>1, <1>0 DEF Numbered
    <3>2. CASE db[i] = NoRow
      <4>1. i = nextId /\ \E t \in Openers : nextId' = nextId + 1
        BY <2>2, <3>2, DbMoves, OpeningIds
      <4> QED BY <4>1, <1>0
    <3> QED BY <3>1, <3>2
  <2> QED BY <1>1, <2>1, <2>2
<1>2. ASSUME NEW t \in Openers, Opening(t)
      PROVE  /\ \A u \in Openers : opn'[u].at = "saved" =>
                   opn'[u].id < nextId' /\ mem'[opn'[u].id] = NoRow
             /\ \A u, v \in Openers :
                   opn'[u].at = "saved" /\ opn'[v].at = "saved" /\ opn'[u].id = opn'[v].id => u = v
  <2>0. \A u \in Openers : u # t => opn'[u] = opn[u]
    BY <1>2, OpeningMoves
  <2>1. CASE OpenPersist(t)
    <3>1. nextId \in Ids
      BY <2>1, SlotAssumption DEF OpenPersist, Ids, TypeOK, TableOK
    <3>2. mem[nextId] = NoRow
      BY <3>1, <1>0 DEF Numbered
    <3>3. opn'[t].id = nextId /\ nextId' = nextId + 1 /\ mem' = mem
      BY <2>1, OpeningIds
    <3>4. \A u \in Openers : u # t /\ opn'[u].at = "saved" =>
              opn'[u].id < nextId /\ mem[opn'[u].id] = NoRow /\ opn'[u].id \in Nat
      BY <2>0, <1>0 DEF Numbered
    <3> QED BY <2>0, <3>2, <3>3, <3>4, <1>0 DEF Numbered
  <2>2. CASE add_position(t)
    <3>1. /\ opn[t].at = "saved" /\ opn'[t].at = "added" /\ opn[t].id \in Ids
          /\ nextId' = nextId /\ \A i \in Ids : i # opn[t].id => mem'[i] = mem[i]
      BY <2>2, <1>0, OpeningIds
    <3> QED BY <2>0, <3>1, <1>0 DEF Numbered
  <2>3. CASE OpenRegisterSlot(t)
    <3>1. opn'[t].at = "registered" /\ nextId' = nextId /\ mem' = mem
      BY <2>3, OpeningIds
    <3> QED BY <2>0, <3>1 DEF Numbered
  <2>4. CASE QuietOpening(t)
    BY <2>0, <2>4 DEF Numbered, QuietOpening
  <2> QED BY <1>2, <2>1, <2>2, <2>3, <2>4, OpeningMoves
<1>3. ASSUME opn' = opn, \A t \in Openers : ~add_position(t)
      PROVE  /\ \A u \in Openers : opn'[u].at = "saved" =>
                   opn'[u].id < nextId' /\ mem'[opn'[u].id] = NoRow
             /\ \A u, v \in Openers :
                   opn'[u].at = "saved" /\ opn'[v].at = "saved" /\ opn'[u].id = opn'[v].id => u = v
  <2>1. ASSUME NEW u \in Openers, opn[u].at = "saved" PROVE mem'[opn[u].id] = NoRow
    BY <1>3, <2>1, <1>0, MemMoves DEF Numbered
  <2> QED BY <1>3, <2>1, <1>0 DEF Numbered
<1>4. CASE \A t \in Openers : ~Opening(t)
  <2>1. opn' = opn
    BY <1>4, RequestsOnly
       DEF Step, PendingOpenExpires, Worker, ApplyEntryVerified, ApplyExitVerified,
           ApplySyntheticExit, ApplyRemoveOrphan, ApplyPersist, ApplyPersistFails, ApplyRelease, vars
  <2> QED BY <1>1, <1>3, <1>4, <2>1 DEF Numbered, Opening
<1> QED BY <1>1, <1>2, <1>4 DEF Numbered

\* A position that is in the table and was closed or taken off the list.
Gone(i) == i < nextId /\ ~Saved(i) /\ (mem[i] = NoRow \/ mem[i].closed)

LEMMA GoneStays ==
  ASSUME TypeOK, Step, NEW i \in Ids, Gone(i)
  PROVE  Gone(i)'
<1>1. i < nextId' /\ ~Saved(i)' /\ i \in Nat
  BY SavedMoves DEF Gone, Ids
<1>2. \A t \in Openers : add_position(t) => opn[t].id # i
  BY OpeningIds DEF Gone, Saved
<1>3. mem'[i] = NoRow \/ mem'[i].closed
  BY <1>2, MemMoves DEF Gone
<1> QED BY <1>1, <1>3 DEF Gone

\* So does a listed one that will not be listed again.
LEMMA UnsavedStays ==
  ASSUME TypeOK, Step, NEW i \in Ids, i < nextId, ~Saved(i)
  PROVE  i < nextId' /\ ~Saved(i)'
  BY SavedMoves DEF Ids

LEMMA ListedIsUnsaved ==
  ASSUME Numbered, NEW i \in Ids, mem[i] # NoRow
  PROVE  i < nextId /\ ~Saved(i)
  BY DEF Numbered, Saved

\* A boot lists what the table holds.
LEMMA NumberedRestart == Numbered /\ CrashAndRestart => Numbered'
  BY DEF Numbered, CrashAndRestart, IdleOpener

-----------------------------------------------------------------------------
(* What a request and the worker are about *)

Toggles == {"archive", "unarchive"}

\* A request other than a purge is about one position; the one to archive or
\* unarchive was listed when the request read it, and gone if it was not open.
RequestFacts ==
    \A r \in Requests :
        /\ req[r].op # "purge" => \A i, j \in req[r].ids : i = j
        /\ req[r].op = "purge" => ~req[r].open
        /\ req[r].op \in Toggles =>
              \A i \in req[r].ids : i < nextId /\ ~Saved(i) /\ (~req[r].open => Gone(i))

\* An orphan's slot is released without a write.
WorkerFacts == wrk.at = "persist" => wrk.act \in {"entry", "close"}

LEMMA WorkerFactsStep ==
  ASSUME TypeOK, WorkerFacts, Step
  PROVE  WorkerFacts'
<1>1. CASE Worker
  <2>1. CASE ApplyPersist
    <3>1. wrk' = [wrk EXCEPT !.at = "release"] \/ wrk' = IdleWorker
      BY <2>1 DEF ApplyPersist
    <3>2. "at" \in DOMAIN wrk
      BY DEF TypeOK, WorkerOK
    <3> QED BY <3>1, <3>2 DEF WorkerFacts, IdleWorker
  <2>2. ASSUME NEW i \in Ids, ApplyEntryVerified(i) \/ ApplyExitVerified(i) \/ ApplySyntheticExit(i)
        PROVE  WorkerFacts'
    BY <2>2 DEF WorkerFacts, ApplyEntryVerified, ApplyExitVerified, ApplySyntheticExit
  <2>3. ASSUME NEW i \in Ids, ApplyRemoveOrphan(i) PROVE WorkerFacts'
    <3>1. wrk'.at = "release"
      BY <2>3 DEF ApplyRemoveOrphan
    <3> QED BY <3>1 DEF WorkerFacts
  <2>4. CASE ApplyPersistFails \/ ApplyRelease
    BY <2>4 DEF WorkerFacts, ApplyPersistFails, ApplyRelease, IdleWorker
  <2> QED BY <1>1, <2>1, <2>2, <2>3, <2>4 DEF Worker
<1>2. CASE (\E t \in Openers : Opening(t)) \/ (\E r \in Requests : Dashboard(r))
  BY <1>2, OpeningMoves, RequestsOnly DEF WorkerFacts
<1>3. CASE (\E m \in Mints : PendingOpenExpires(m)) \/ UNCHANGED vars
  BY <1>3 DEF PendingOpenExpires, vars, WorkerFacts
<1> QED BY <1>1, <1>2, <1>3 DEF Step

\* A request begins, goes on with what it read, ends, or has one row less to purge.
LEMMA RequestSteps ==
  ASSUME TypeOK, NEW r \in Requests, Dashboard(r)
  PROVE  \/ \E i \in Ids : \/ BeginArchive(r, i) \/ BeginUnarchive(r, i) \/ BeginDelete(r, i)
                           \/ BeginForceClose(r, i)
         \/ BeginPurge(r)
         \/ req'[r].op = req[r].op /\ req'[r].ids = req[r].ids /\ req'[r].open = req[r].open
         \/ req'[r] = IdleRequest
         \/ \E i \in Ids : MirrorPurge(r, i)
<1> DEFINE Same == req'[r].op = req[r].op /\ req'[r].ids = req[r].ids /\ req'[r].open = req[r].open
<1>1. /\ \A at \in RequestAt : RequestGoes(r, at) => Same
      /\ RequestEnds(r) => req'[r] = IdleRequest
      /\ AfterMirror(r) => Same \/ req'[r] = IdleRequest
  <2>1. \A at \in RequestAt : RequestGoes(r, at) => Same
    BY RequestFields
  <2>2. RequestEnds(r) => req'[r] = IdleRequest
    BY RequestFields
  <2>3. AfterMirror(r) => Same \/ req'[r] = IdleRequest
    BY <2>1, <2>2 DEF AfterMirror, RequestAt
  <2> QED BY <2>1, <2>2, <2>3
<1> HIDE DEF Same
<1>2. CASE \E i \in Ids : \/ PersistArchived(r, i) \/ MirrorArchived(r, i) \/ PersistDelete(r, i)
                          \/ MirrorDelete(r, i) \/ MirrorForceClose(r, i) \/ PersistForceClose(r, i)
                          \/ ReleaseByRequest(r, i) \/ RegisterReclaimed(r, i)
  <2>1. \/ \E at \in RequestAt : RequestGoes(r, at)
        \/ RequestEnds(r)
        \/ AfterMirror(r)
    BY <1>2 DEF PersistArchived, MirrorArchived, PersistDelete, MirrorDelete, MirrorForceClose,
                PersistForceClose, ReleaseByRequest, RegisterReclaimed, RequestAt
  <2> QED BY <1>1, <2>1 DEF Same
<1>3. CASE PersistPurge(r) \/ ReclaimSlot(r) \/ ReclaimAtCapacity(r) \/ RequestDbError(r)
  <2>1. (\E at \in RequestAt : RequestGoes(r, at)) \/ RequestEnds(r)
    BY <1>3 DEF PersistPurge, ReclaimSlot, ReclaimAtCapacity, RequestDbError, RequestAt
  <2> QED BY <1>1, <2>1 DEF Same
<1> QED BY <1>2, <1>3 DEF Dashboard

LEMMA RequestFactsStep ==
  ASSUME TypeOK, Numbered, RequestFacts, Step
  PROVE  RequestFacts'
<1>0. req \in [Requests -> Request]
  BY DEF TypeOK, RequestsOK
<1>1. ASSUME NEW s \in Requests, req'[s] = req[s] \/ 
               (req'[s].op = req[s].op /\ req'[s].ids = req[s].ids /\ req'[s].open = req[s].open)
      PROVE  /\ req'[s].op # "purge" => \A i, j \in req'[s].ids : i = j
             /\ req'[s].op = "purge" => ~req'[s].open
             /\ req'[s].op \in Toggles =>
                   \A i \in req'[s].ids : i < nextId' /\ ~Saved(i)' /\ (~req'[s].open => Gone(i)')
  <2>1. req[s].ids \subseteq Ids
    BY <1>0 DEF Request
  <2>2. req'[s].op = req[s].op /\ req'[s].ids = req[s].ids /\ req'[s].open = req[s].open
    BY <1>1
  <2>3. ASSUME req[s].op \in Toggles, NEW i \in req[s].ids
        PROVE  i < nextId' /\ ~Saved(i)' /\ (~req[s].open => Gone(i)')
    BY <2>1, <2>3, UnsavedStays, GoneStays DEF RequestFacts
  <2> QED BY <2>2, <2>3 DEF RequestFacts
<1>2. ASSUME NEW r \in Requests, Dashboard(r)
      PROVE  /\ req'[r].op # "purge" => \A i, j \in req'[r].ids : i = j
             /\ req'[r].op = "purge" => ~req'[r].open
             /\ req'[r].op \in Toggles =>
                   \A i \in req'[r].ids : i < nextId' /\ ~Saved(i)' /\ (~req'[r].open => Gone(i)')
  <2>1. ASSUME NEW i \in Ids, BeginArchive(r, i) \/ BeginUnarchive(r, i)
        PROVE  /\ req'[r].op # "purge" /\ req'[r].ids = {i}
               /\ i < nextId' /\ ~Saved(i)' /\ (~req'[r].open => Gone(i)')
    <3>1. i < nextId /\ ~Saved(i) /\ mem[i] # NoRow
      BY <2>1, ListedIsUnsaved DEF BeginArchive, BeginUnarchive
    <3>2. req'[r].op \in Toggles /\ req'[r].ids = {i} /\ req'[r].open = ~mem[i].closed
      BY <2>1, <1>0 DEF BeginArchive, BeginUnarchive, Begin, holds_open_slot, Toggles
    <3>3. mem[i].closed => Gone(i)
      BY <3>1 DEF Gone
    <3>4. mem[i].closed => Gone(i)'
      BY <3>3, GoneStays
    <3>5. i < nextId' /\ ~Saved(i)'
      BY <3>1, UnsavedStays
    <3> QED BY <3>2, <3>4, <3>5 DEF Toggles
  <2>2. ASSUME NEW i \in Ids, BeginDelete(r, i) \/ BeginForceClose(r, i)
        PROVE  req'[r].op \in {"delete", "force_close"} /\ req'[r].ids = {i}
    BY <2>2, <1>0 DEF BeginDelete, BeginForceClose, Begin
  <2>3. BeginPurge(r) => req'[r].op = "purge" /\ ~req'[r].open
    BY <1>0 DEF BeginPurge, Begin
  <2>4. req'[r] = IdleRequest => req'[r].op = "none" /\ req'[r].ids = {}
    BY DEF IdleRequest
  <2>5. ASSUME NEW i \in Ids, MirrorPurge(r, i)
        PROVE  (req'[r].op = "purge" /\ ~req'[r].open) \/ req'[r] = IdleRequest
    <3>1. req'[r] = PurgeLeft(req[r], i) /\ req[r].op = "purge" /\ ~req[r].open
      BY <2>5, <1>0 DEF MirrorPurge, RequestFacts
    <3> QED BY <3>1, <1>0 DEF PurgeLeft, Request
  <2>6. CASE req'[r].op = req[r].op /\ req'[r].ids = req[r].ids /\ req'[r].open = req[r].open
    BY <2>6, <1>1
  <2>7. CASE \E i \in Ids : BeginArchive(r, i) \/ BeginUnarchive(r, i)
    BY <2>1, <2>7
  <2>8. CASE \E i \in Ids : BeginDelete(r, i) \/ BeginForceClose(r, i)
    BY <2>2, <2>8 DEF Toggles
  <2>9. CASE BeginPurge(r)
    BY <2>3, <2>9 DEF Toggles
  <2>10. CASE req'[r] = IdleRequest
    BY <2>4, <2>10 DEF Toggles
  <2>11. CASE \E i \in Ids : MirrorPurge(r, i)
    BY <2>5, <2>10, <2>11 DEF Toggles
  <2> QED BY <1>2, <2>6, <2>7, <2>8, <2>9, <2>10, <2>11, RequestSteps
<1>3. CASE \E r \in Requests : Dashboard(r)
  BY <1>1, <1>2, <1>3, RequestsOnly DEF RequestFacts
<1>4. CASE \A r \in Requests : ~Dashboard(r)
  <2>1. req' = req
    BY <1>4, OpeningMoves
       DEF Step, PendingOpenExpires, Worker, ApplyEntryVerified, ApplyExitVerified,
           ApplySyntheticExit, ApplyRemoveOrphan, ApplyPersist, ApplyPersistFails, ApplyRelease, vars
  <2> QED BY <1>1, <2>1 DEF RequestFacts
<1> QED BY <1>3, <1>4

-----------------------------------------------------------------------------
(* A slot that pays for nothing has somebody on the way to release it *)

\* A dashboard request that is past the step that took position i off the list.
Releasing(r, i) ==
    /\ i \in req[r].ids
    /\ \/ req[r].op \in {"archive", "delete", "force_close"} /\ req[r].at = "slot"
       \/ req[r].op = "force_close" /\ req[r].at = "persist"

Explained(i) ==
    \/ i \in OpenIds(mem)
    \/ i \in stranded
    \/ wrk.at # "idle" /\ wrk.act # "entry" /\ wrk.id = i
    \/ \E r \in Requests : Releasing(r, i)

Leak == \A i \in holders : Explained(i)

LEMMA OpeningLeak ==
  ASSUME TypeOK, Leak, NEW t \in Openers, Opening(t)
  PROVE  Leak'
<1>0. mem \in [Ids -> Row \cup {NoRow}] /\ NoRow \notin Row
  BY SlotAssumption DEF TypeOK, TableOK
<1>1. UNCHANGED <<wrk, req>>
  BY OpeningMoves
<1>2. CASE OpenPersist(t) \/ QuietOpening(t)
  <2>1. UNCHANGED <<mem, holders, stranded>>
    BY <1>2, OpeningIds DEF QuietOpening
  <2> QED BY <1>1, <2>1 DEF Leak, Explained, OpenIds, Releasing
<1>3. CASE add_position(t)
  <2> DEFINE row == [mint |-> opn[t].mint, entryOk |-> FALSE, closed |-> FALSE, archived |-> FALSE]
  <2>1. /\ mem' = [mem EXCEPT ![opn[t].id] = row]
        /\ UNCHANGED <<holders, stranded>>
    BY <1>3, OpeningIds
  <2>2. row # NoRow
    <3>1. opn[t].mint \in Mints
      BY <1>3 DEF add_position, TypeOK, OpenersOK
    <3> QED BY <3>1, <1>0, NewRow
  <2>3. ~row.archived /\ ~row.closed
    OBVIOUS
  <2> HIDE DEF row
  <2>4. OpenIds(mem) \subseteq OpenIds(mem')
    BY <2>1, <2>2, <2>3, <1>0 DEF OpenIds, is_position_open
  <2> QED BY <1>1, <2>1, <2>4 DEF Leak, Explained, Releasing
<1>4. CASE OpenRegisterSlot(t)
  <2>1. /\ holders' = holders \cup {opn[t].id} /\ mem' = mem
        /\ is_position_open(mem[opn[t].id]) \/ opn[t].id \in stranded'
        /\ stranded \subseteq stranded'
    BY <1>4, OpeningIds
  <2>2. opn[t].id \in Ids
    BY <1>4 DEF OpenRegisterSlot, TypeOK, OpenersOK
  <2> QED BY <1>1, <2>1, <2>2 DEF Leak, Explained, Releasing, OpenIds
<1> QED BY <1>2, <1>3, <1>4, OpeningMoves

LEMMA WorkerLeak ==
  ASSUME TypeOK, WorkerFacts, Leak, Worker
  PROVE  Leak'
<1> USE DEF permits, table, history
<1>0. /\ mem \in [Ids -> Row \cup {NoRow}] /\ NoRow \notin Row
      /\ holders \subseteq Ids
      /\ wrk.at # "idle" => wrk.id \in Ids
      /\ wrk = [at |-> wrk.at, act |-> wrk.act, id |-> wrk.id]
  BY SlotAssumption DEF TypeOK, TableOK, PermitsOK, WorkerOK
<1>1. req' = req
  BY DEF Worker, ApplyEntryVerified, ApplyExitVerified, ApplySyntheticExit, ApplyRemoveOrphan,
         ApplyPersist, ApplyPersistFails, ApplyRelease
<1>2. ASSUME NEW j \in Ids, ApplyEntryVerified(j) PROVE Leak'
  <2>1. /\ mem[j] # NoRow /\ mem' = [mem EXCEPT ![j] = [mem[j] EXCEPT !.entryOk = TRUE]]
        /\ UNCHANGED <<holders, stranded>> /\ wrk.at = "idle"
    BY <1>2 DEF ApplyEntryVerified, UpdateMem
  <2>2. /\ [mem[j] EXCEPT !.entryOk = TRUE] \in Row
        /\ [mem[j] EXCEPT !.entryOk = TRUE].archived = mem[j].archived
        /\ [mem[j] EXCEPT !.entryOk = TRUE].closed = mem[j].closed
    BY <2>1, <1>0 DEF Row
  <2>3. OpenIds(mem') = OpenIds(mem)
    BY <2>1, <2>2, <1>0 DEF OpenIds, is_position_open
  <2> QED BY <1>1, <2>1, <2>3 DEF Leak, Explained, Releasing
<1>3. ASSUME NEW j \in Ids, ApplyExitVerified(j) \/ ApplySyntheticExit(j) PROVE Leak'
  <2>1. /\ mem' = [mem EXCEPT ![j] = [mem[j] EXCEPT !.closed = TRUE]]
        /\ UNCHANGED <<holders, stranded>> /\ wrk.at = "idle"
        /\ wrk' = [at |-> "persist", act |-> "close", id |-> j]
    BY <1>3 DEF ApplyExitVerified, ApplySyntheticExit, UpdateMem
  <2>2. \A i \in Ids : i # j => (i \in OpenIds(mem') <=> i \in OpenIds(mem))
    BY <2>1, <1>0 DEF OpenIds
  <2>3. Explained(j)'
    BY <2>1 DEF Explained
  <2>4. \A i \in holders : i # j => Explained(i)'
    BY <1>0, <1>1, <2>1, <2>2 DEF Leak, Explained, Releasing
  <2> QED BY <2>1, <2>3, <2>4 DEF Leak
<1>4. ASSUME NEW j \in Ids, ApplyRemoveOrphan(j) PROVE Leak'
  <2>1. PICK k : /\ mem' = [mem EXCEPT ![k] = NoRow]
                 /\ stranded' = IF k = j THEN stranded ELSE stranded \cup ({k} \cap holders)
    BY <1>4 DEF ApplyRemoveOrphan, RemoveRow
  <2>2. holders' = holders /\ wrk.at = "idle" /\ wrk' = [at |-> "release", act |-> "orphan", id |-> j]
    BY <1>4 DEF ApplyRemoveOrphan
  <2>3. \A i \in Ids : i # k => (i \in OpenIds(mem') <=> i \in OpenIds(mem))
    BY <2>1, <1>0 DEF OpenIds
  <2>4. stranded \subseteq stranded' /\ (k \in holders => k = j \/ k \in stranded')
    BY <2>1
  <2>5. Explained(j)'
    BY <2>2 DEF Explained
  <2>6. \A i \in holders : i # k => Explained(i)'
    BY <1>0, <1>1, <2>2, <2>3, <2>4 DEF Leak, Explained, Releasing
  <2>7. k \in holders => Explained(k)'
    BY <2>4, <2>5 DEF Explained
  <2> QED BY <2>2, <2>6, <2>7 DEF Leak
<1>5. CASE ApplyPersist
  <2>1. /\ UNCHANGED <<mem, holders, stranded>>
        /\ wrk.at = "persist"
        /\ wrk' = IF wrk.act = "close" THEN [wrk EXCEPT !.at = "release"] ELSE IdleWorker
    BY <1>5 DEF ApplyPersist
  <2>2. wrk.act = "close" => wrk'.at = "release" /\ wrk'.act = "close" /\ wrk'.id = wrk.id
    BY <2>1, <1>0
  <2>3. wrk.act # "entry" => wrk.act = "close"
    BY <2>1 DEF WorkerFacts
  <2> QED BY <1>1, <2>1, <2>2, <2>3 DEF Leak, Explained, Releasing, OpenIds
<1>6. CASE ApplyPersistFails
  <2>1. /\ UNCHANGED <<mem, holders>>
        /\ wrk.at = "persist"
        /\ stranded' = IF wrk.act = "close" THEN stranded \cup {wrk.id} ELSE stranded
    BY <1>6 DEF ApplyPersistFails
  <2>2. wrk.act # "entry" => wrk.id \in stranded'
    BY <2>1 DEF WorkerFacts
  <2>3. stranded \subseteq stranded'
    BY <2>1
  <2> QED BY <1>1, <2>1, <2>2, <2>3 DEF Leak, Explained, Releasing, OpenIds
<1>7. CASE ApplyRelease
  <2>1. UNCHANGED <<mem, stranded>> /\ holders' = holders \ {wrk.id}
    BY <1>7 DEF ApplyRelease, release_position_slot
  <2> QED BY <1>1, <2>1 DEF Leak, Explained, Releasing, OpenIds
<1> QED BY <1>2, <1>3, <1>4, <1>5, <1>6, <1>7 DEF Worker

\* What is left to show of a request's step: the positions it takes off the list
\* or was releasing, and the one whose slot it registers.
LEMMA RequestExplains ==
  ASSUME TypeOK, Leak, NEW r \in Requests, Dashboard(r), stranded \subseteq stranded',
         \A i \in holders : i \in OpenIds(mem) => Explained(i)',
         \A i \in holders : Releasing(r, i) /\ i \in holders' => Explained(i)',
         \A i \in holders' \ holders : Explained(i)'
  PROVE  Leak'
<1>1. wrk' = wrk /\ \A s \in Requests : s # r => req'[s] = req[s]
  BY RequestsOnly
<1>2. ASSUME NEW i \in holders, i \in holders' PROVE Explained(i)'
  BY <1>1, <1>2 DEF Leak, Explained, Releasing
<1> QED BY <1>2 DEF Leak

LEMMA DashboardLeak ==
  ASSUME TypeOK, RequestFacts, Leak, NEW r \in Requests, Dashboard(r)
  PROVE  Leak'
<1> USE DEF permits, table, history
<1>0. /\ mem \in [Ids -> Row \cup {NoRow}] /\ NoRow \notin Row
      /\ holders \subseteq Ids /\ req \in [Requests -> Request]
  BY SlotAssumption DEF TypeOK, TableOK, PermitsOK, RequestsOK
<1>1. ASSUME UNCHANGED <<mem, holders, stranded>>, \A i : ~Releasing(r, i)
      PROVE  Leak'
  BY <1>1, RequestExplains DEF Explained, OpenIds
<1>2. CASE \/ \E i \in Ids : \/ BeginArchive(r, i) \/ BeginUnarchive(r, i) \/ BeginDelete(r, i)
                             \/ BeginForceClose(r, i)
           \/ BeginPurge(r)
  <2>1. UNCHANGED <<mem, holders, stranded>> /\ req[r].at = "idle"
    BY <1>2 DEF BeginArchive, BeginUnarchive, BeginDelete, BeginForceClose, BeginPurge, Begin
  <2> QED BY <1>1, <2>1 DEF Releasing
<1>3. CASE \/ \E i \in Ids : PersistArchived(r, i) \/ PersistDelete(r, i)
           \/ PersistPurge(r) \/ RequestDbError(r)
  <2>1. UNCHANGED <<mem, holders, stranded>> /\ req[r].at = "persist" /\ req[r].op # "force_close"
    BY <1>3 DEF PersistArchived, PersistDelete, PersistPurge, RequestDbError
  <2> QED BY <1>1, <2>1 DEF Releasing
<1>4. ASSUME NEW j \in Ids, MirrorArchived(r, j) PROVE Leak'
  <2>1. /\ UNCHANGED <<holders, stranded>> /\ req[r].at = "mirror" /\ j \in req[r].ids
        /\ req[r].op \in {"archive", "unarchive"} /\ AfterMirror(r)
        /\ mem' = SetArchived(mem, j, req[r].op = "archive")
    BY <1>4 DEF MirrorArchived
  <2>2. \A i \in Ids : i # j => mem'[i] = mem[i]
    BY <2>1, <1>0 DEF SetArchived
  <2>3. \A i \in Ids : i # j /\ i \in OpenIds(mem) => Explained(i)'
    BY <2>2 DEF Explained, OpenIds
  <2>4. CASE ~req[r].open
    <3>1. j \notin OpenIds(mem)
      BY <2>1, <2>4 DEF RequestFacts, Toggles, Gone, OpenIds, is_position_open
    <3> QED BY <2>1, <2>3, <3>1, <1>0, RequestExplains DEF Releasing
  <2>5. CASE req[r].open /\ req[r].op = "archive"
    <3>1. req'[r].at = "slot" /\ req'[r].op = "archive" /\ j \in req'[r].ids
      BY <2>1, <2>5, RequestFields
    <3>2. Explained(j)'
      BY <3>1 DEF Explained, Releasing
    <3> QED BY <2>1, <2>3, <3>2, <1>0, RequestExplains DEF Releasing
  <2>6. CASE req[r].open /\ req[r].op = "unarchive"
    <3>1. mem' = mem \/ (mem[j] # NoRow /\ mem' = [mem EXCEPT ![j] = [mem[j] EXCEPT !.archived = FALSE]])
      BY <2>1, <2>6 DEF SetArchived
    <3>2. mem[j] # NoRow => /\ [mem[j] EXCEPT !.archived = FALSE] \in Row
                            /\ [mem[j] EXCEPT !.archived = FALSE].closed = mem[j].closed
                            /\ ~[mem[j] EXCEPT !.archived = FALSE].archived
      BY <1>0 DEF Row
    <3>3. j \in OpenIds(mem) => j \in OpenIds(mem')
      BY <3>1, <3>2, <1>0 DEF OpenIds, is_position_open
    <3> QED BY <2>1, <2>3, <3>3, <1>0, RequestExplains DEF Releasing, Explained
  <2> QED BY <2>1, <2>4, <2>5, <2>6
\* What both removals of the dashboard do to position j.
<1>5. ASSUME NEW j \in Ids, RemoveFromMemory(j), Mistaken(r, j), UNCHANGED holders, req[r].at = "mirror",
             req[r].open => Explained(j)'
      PROVE  Leak'
  <2>1. \A i \in Ids : i # j => mem'[i] = mem[i]
    BY <1>0, <1>5 DEF RemoveFromMemory, RemoveRow
  <2>2. stranded \subseteq stranded' /\ (j \in holders => req[r].open \/ j \in stranded')
    BY <1>5 DEF Mistaken
  <2>3. j \in holders => Explained(j)'
    BY <1>5, <2>2 DEF Explained
  <2>4. \A i \in Ids : i # j /\ i \in OpenIds(mem) => Explained(i)'
    BY <2>1 DEF Explained, OpenIds
  <2> QED BY <1>0, <1>5, <2>2, <2>3, <2>4, RequestExplains DEF Releasing
<1>6. ASSUME NEW j \in Ids, MirrorDelete(r, j) PROVE Leak'
  <2>1. /\ RemoveFromMemory(j) /\ Mistaken(r, j) /\ UNCHANGED holders
        /\ req[r].at = "mirror" /\ req[r].op = "delete" /\ j \in req[r].ids /\ AfterMirror(r)
    BY <1>6 DEF MirrorDelete
  <2>2. req[r].open => req'[r].at = "slot" /\ req'[r].op = "delete" /\ j \in req'[r].ids
    BY <2>1, RequestFields
  <2>3. req[r].open => Explained(j)'
    BY <2>2 DEF Explained, Releasing
  <2> QED BY <1>5, <2>1, <2>3
<1>7. ASSUME NEW j \in Ids, MirrorPurge(r, j) PROVE Leak'
  <2>1. /\ RemoveFromMemory(j) /\ Mistaken(r, j) /\ UNCHANGED holders
        /\ req[r].at = "mirror" /\ req[r].op = "purge"
    BY <1>7 DEF MirrorPurge
  <2>2. ~req[r].open
    BY <2>1 DEF RequestFacts
  <2> QED BY <1>5, <2>1, <2>2
<1>8. ASSUME NEW j \in Ids, MirrorForceClose(r, j) PROVE Leak'
  <2>1. /\ UNCHANGED holders /\ stranded \subseteq stranded'
        /\ req[r].at = "mirror" /\ req[r].op = "force_close" /\ j \in req[r].ids
        /\ RequestGoes(r, "persist")
        /\ \A i \in Ids : i # j => mem'[i] = mem[i]
    BY <1>0, <1>8 DEF MirrorForceClose, Mistaken, UpdateMem
  <2>2. req'[r].at = "persist" /\ req'[r].op = "force_close" /\ j \in req'[r].ids
    BY <2>1, RequestFields DEF RequestAt
  <2>3. Explained(j)'
    BY <2>2 DEF Explained, Releasing
  <2>4. \A i \in Ids : i # j /\ i \in OpenIds(mem) => Explained(i)'
    BY <2>1 DEF Explained, OpenIds
  <2> QED BY <1>0, <2>1, <2>3, <2>4, RequestExplains DEF Releasing
<1>9. ASSUME NEW j \in Ids, PersistForceClose(r, j) PROVE Leak'
  <2>1. /\ UNCHANGED <<mem, holders, stranded>> /\ req[r].op = "force_close" /\ RequestGoes(r, "slot")
    BY <1>9 DEF PersistForceClose
  <2>2. req'[r].at = "slot" /\ req'[r].op = "force_close" /\ req'[r].ids = req[r].ids
    BY <2>1, RequestFields DEF RequestAt
  <2>3. \A i : Releasing(r, i) => Releasing(r, i)'
    BY <2>2 DEF Releasing
  <2> QED BY <2>1, <2>3, RequestExplains DEF Explained, OpenIds
<1>10. ASSUME NEW j \in Ids, ReleaseByRequest(r, j) PROVE Leak'
  <2>1. /\ UNCHANGED <<mem, stranded>> /\ holders' = holders \ {j}
        /\ req[r].op # "purge" /\ j \in req[r].ids
    BY <1>10 DEF ReleaseByRequest, release_position_slot
  <2>2. \A i : Releasing(r, i) => i = j
    BY <2>1 DEF RequestFacts, Releasing
  <2> QED BY <2>1, <2>2, RequestExplains DEF Explained, OpenIds
<1>11. CASE ReclaimSlot(r) \/ ReclaimAtCapacity(r)
  <2>1. UNCHANGED <<mem, holders, stranded>> /\ req[r].op = "unarchive"
    BY <1>11 DEF ReclaimSlot, ReclaimAtCapacity
  <2> QED BY <1>1, <2>1 DEF Releasing
<1>12. ASSUME NEW j \in Ids, RegisterReclaimed(r, j) PROVE Leak'
  <2>1. /\ mem' = mem /\ holders' = holders \cup {j} /\ req[r].op = "unarchive"
        /\ stranded \subseteq stranded' /\ (is_position_open(mem[j]) \/ j \in stranded')
    BY <1>12 DEF RegisterReclaimed
  <2> QED BY <2>1, RequestExplains DEF Explained, OpenIds, Releasing
<1> QED BY <1>2, <1>3, <1>4, <1>6, <1>7, <1>8, <1>9, <1>10, <1>11, <1>12 DEF Dashboard

SlotInv == Numbered /\ RequestFacts /\ WorkerFacts

LEMMA SlotInvAlways == Spec => []SlotInv
<1>1. Init => SlotInv
  BY DEF Init, SlotInv, Numbered, RequestFacts, WorkerFacts, IdleOpener, IdleRequest, IdleWorker,
         Toggles
<1>2. TypeOK /\ SlotInv /\ [Next]_vars => SlotInv'
  <2> SUFFICES ASSUME TypeOK, SlotInv, [Next]_vars PROVE SlotInv'
    OBVIOUS
  <2>1. CASE Step
    BY <2>1, NumberedStep, RequestFactsStep, WorkerFactsStep DEF SlotInv
  <2>2. CASE CrashAndRestart
    BY <2>2, NumberedRestart
       DEF SlotInv, RequestFacts, WorkerFacts, CrashAndRestart, IdleRequest, IdleWorker, Toggles
  <2> QED BY <2>1, <2>2 DEF Next, Step
<1> QED BY <1>1, <1>2, TypeCorrect, PTL DEF Spec

\* A slot is never held in silence by a position that has left the list: it is
\* on the way to be released, or its release was missed on one of the paths in
\* stranded (apply_transition, archive_position, force_delete_position,
\* force_close_position, delete_all_archived).
THEOREM LeaksAreExplained == Spec => []NoUnexplainedLeak
<1>1. Init => Leak
  BY DEF Init, Leak
<1>2. TypeOK /\ SlotInv /\ Leak /\ [Next]_vars => Leak'
  <2> SUFFICES ASSUME TypeOK, SlotInv, Leak, [Next]_vars PROVE Leak'
    OBVIOUS
  <2>1. CASE (\E m \in Mints : PendingOpenExpires(m)) \/ UNCHANGED vars
    BY <2>1 DEF PendingOpenExpires, vars, permits, table, history, Leak, Explained, Releasing, OpenIds
  <2>2. CASE CrashAndRestart
    BY <2>2 DEF CrashAndRestart, rebuild_position_slot_holders, Leak, Explained
  <2> QED BY <2>1, <2>2, OpeningLeak, WorkerLeak, DashboardLeak DEF Next, SlotInv
<1>3. Leak => NoUnexplainedLeak
  BY DEF Leak, Explained, Releasing, NoUnexplainedLeak
<1> QED BY <1>1, <1>2, <1>3, TypeCorrect, SlotInvAlways, PTL DEF Spec

-----------------------------------------------------------------------------
(* An open position keeps its slot *)

\* No request can list a position again while another one is about to release its
\* slot. The code has no such rule: see OpenPositionHoldsSlot in the README.
Serial == "unarchive" \in AdminOps => \A r, s \in Requests : r = s

\* A position that is in the table and is not open.
OffList(i) == i < nextId /\ ~Saved(i) /\ ~is_position_open(mem[i])

\* Whoever is about to release a slot has taken its position off the list, or the
\* position was without a slot of its own anyway.
ReleasesAreDue ==
    /\ wrk.at = "persist" /\ wrk.act = "close" => Gone(wrk.id)
    /\ wrk.at = "release" => Gone(wrk.id) \/ wrk.id \in slotless
    /\ \A r \in Requests : \A i \in Ids :
          Releasing(r, i) =>
             \/ Gone(i)
             \/ i \in slotless
             \/ req[r].op = "archive" /\ OffList(i)

\* What OpenPositionHoldsSlot says, with what the request in its way must be doing.
Pays(i) ==
    \/ i \in holders
    \/ i \in slotless
    \/ \E t \in Openers : opn[t].at = "added" /\ opn[t].id = i
    \/ \E r \in Requests : req[r].op = "unarchive" /\ req[r].at \in {"slot", "register"} /\ i \in req[r].ids

Held == ReleasesAreDue /\ \A i \in OpenIds(mem) : Pays(i)

LEMMA SlotlessStays ==
  ASSUME Step
  PROVE  slotless \subseteq slotless'
<1> USE DEF permits, table, history
<1>1. CASE (\E t \in Openers : Opening(t)) \/ (\E m \in Mints : PendingOpenExpires(m)) \/ UNCHANGED vars
  BY <1>1 DEF Opening, OpenAcquirePermit, OpenLookupLock, OpenLock, OpenCheckMemory, OpenAlreadyOpen,
         OpenCheckDb, OpenRefused, OpenSwap, OpenSwapFails, OpenPersist, OpenPersistPanics,
         add_position, OpenRegisterSlot, OpenReturnsOk, OpenReturnsErr, PendingOpenExpires, vars
<1>2. CASE Worker
  BY <1>2 DEF Worker, ApplyEntryVerified, ApplyExitVerified, ApplySyntheticExit, ApplyRemoveOrphan,
         ApplyPersist, ApplyPersistFails, ApplyRelease
<1>3. ASSUME NEW r \in Requests, Dashboard(r) PROVE slotless \subseteq slotless'
  BY <1>3 DEF Dashboard, BeginArchive, BeginUnarchive, BeginDelete, BeginForceClose, BeginPurge, Begin,
         PersistArchived, MirrorArchived, PersistDelete, MirrorDelete, MirrorPurge, PersistPurge,
         MirrorForceClose, PersistForceClose, ReleaseByRequest, RegisterReclaimed, ReclaimSlot,
         ReclaimAtCapacity, RequestDbError, Mistaken
<1> QED BY <1>1, <1>2, <1>3 DEF Step

\* Only the two releases take a slot away.
LEMMA HoldersStay ==
  ASSUME TypeOK, Step, NEW i \in holders, i \notin holders'
  PROVE  mem' = mem /\ ((ApplyRelease /\ wrk.id = i) \/ \E r \in Requests : ReleaseByRequest(r, i))
<1> USE DEF permits, table, history
<1>1. ASSUME NEW t \in Openers, Opening(t) PROVE FALSE
  BY <1>1, OpeningMoves, OpeningIds DEF QuietOpening
<1>2. CASE (\E m \in Mints : PendingOpenExpires(m)) \/ UNCHANGED vars
  BY <1>2 DEF PendingOpenExpires, vars
<1>3. CASE Worker
  <2>1. ApplyRelease
    BY <1>3 DEF Worker, ApplyEntryVerified, ApplyExitVerified, ApplySyntheticExit, ApplyRemoveOrphan,
           ApplyPersist, ApplyPersistFails
  <2> QED BY <2>1 DEF ApplyRelease, release_position_slot
<1>4. ASSUME NEW r \in Requests, Dashboard(r) PROVE mem' = mem /\ ReleaseByRequest(r, i)
  <2>1. \E j \in Ids : ReleaseByRequest(r, j)
    BY <1>4 DEF Dashboard, BeginArchive, BeginUnarchive, BeginDelete, BeginForceClose, BeginPurge, Begin,
         PersistArchived, MirrorArchived, PersistDelete, MirrorDelete, MirrorPurge, PersistPurge,
         MirrorForceClose, PersistForceClose, RegisterReclaimed, ReclaimSlot,
         ReclaimAtCapacity, RequestDbError
  <2> QED BY <2>1 DEF ReleaseByRequest, release_position_slot
<1> QED BY <1>1, <1>2, <1>3, <1>4 DEF Step

\* A position off the list comes back with an unarchive only.
LEMMA OffListStays ==
  ASSUME TypeOK, Step, NEW i \in Ids, OffList(i),
         ~ \E r \in Requests : MirrorArchived(r, i) /\ req[r].op = "unarchive"
  PROVE  OffList(i)'
<1>1. i < nextId' /\ ~Saved(i)'
  BY UnsavedStays DEF OffList
<1>2. \A t \in Openers : add_position(t) => opn[t].id # i
  BY OpeningIds DEF OffList, Saved
<1>3. ~is_position_open(mem'[i])
  BY <1>2, MemMoves DEF OffList, is_position_open
<1> QED BY <1>1, <1>3 DEF OffList

LEMMA WorkerReleases ==
  ASSUME TypeOK, Numbered, ReleasesAreDue, Step
  PROVE  /\ wrk'.at = "persist" /\ wrk'.act = "close" => Gone(wrk.id)'
         /\ wrk'.at = "release" => Gone(wrk.id)' \/ wrk'.id \in slotless'
<1> USE DEF permits, table, history
<1>0. /\ mem \in [Ids -> Row \cup {NoRow}] /\ NoRow \notin Row
      /\ wrk.at # "idle" => wrk.id \in Ids
      /\ wrk = [at |-> wrk.at, act |-> wrk.act, id |-> wrk.id]
      /\ slotless \subseteq slotless'
  BY SlotAssumption, SlotlessStays DEF TypeOK, TableOK, PermitsOK, WorkerOK
<1>1. ASSUME NEW i \in Ids, Gone(i) PROVE Gone(i)'
  BY <1>1, GoneStays
<1>2. CASE wrk' = wrk
  <2>1. wrk.at # "idle" /\ Gone(wrk.id) => Gone(wrk.id)'
    <3>1. PICK i : i = wrk.id
      OBVIOUS
    <3>2. wrk.at # "idle" /\ Gone(i) => Gone(i)'
      BY <1>0, <1>1, <3>1
    <3> QED BY <1>2, <3>1, <3>2 DEF Gone, Saved
  <2> QED BY <1>0, <1>2, <2>1 DEF ReleasesAreDue
<1>3. CASE Worker
  <2>1. CASE wrk'.at = "idle"
    BY <2>1
  <2>2. ASSUME NEW j \in Ids, ApplyEntryVerified(j) PROVE wrk'.at = "persist" /\ wrk'.act = "entry"
    BY <2>2 DEF ApplyEntryVerified
  <2>3. ASSUME NEW j \in Ids, ApplyExitVerified(j) \/ ApplySyntheticExit(j)
        PROVE  wrk'.at = "persist" /\ Gone(wrk.id)'
    <3>1. /\ mem[j] # NoRow /\ mem' = [mem EXCEPT ![j] = [mem[j] EXCEPT !.closed = TRUE]]
          /\ wrk' = [at |-> "persist", act |-> "close", id |-> j]
      BY <2>3 DEF ApplyExitVerified, ApplySyntheticExit, UpdateMem
    <3>2. j < nextId' /\ ~Saved(j)'
      BY <3>1, ListedIsUnsaved, UnsavedStays
    <3>3. mem'[j].closed
      BY <3>1, <1>0 DEF Row
    <3>4. Gone(j)'
      BY <3>2, <3>3 DEF Gone
    <3>5. wrk'.id = j /\ wrk'.at = "persist"
      BY <3>1
    <3> QED BY <3>4, <3>5 DEF Gone, Saved
  <2>4. ASSUME NEW j \in Ids, ApplyRemoveOrphan(j)
        PROVE  wrk'.at = "release" /\ (Gone(wrk.id)' \/ wrk'.id \in slotless')
    <3>1. PICK k : /\ mem' = [mem EXCEPT ![k] = NoRow]
                   /\ slotless' = IF k = j THEN slotless ELSE slotless \cup {j}
      BY <2>4 DEF ApplyRemoveOrphan, RemoveRow
    <3>2. mem[j] # NoRow /\ wrk' = [at |-> "release", act |-> "orphan", id |-> j]
      BY <2>4 DEF ApplyRemoveOrphan
    <3>3. j < nextId' /\ ~Saved(j)'
      BY <3>2, ListedIsUnsaved, UnsavedStays
    <3>4. Gone(j)' \/ j \in slotless'
      BY <3>1, <3>3, <1>0 DEF Gone
    <3>5. wrk'.id = j /\ wrk'.at = "release"
      BY <3>2
    <3> QED BY <3>4, <3>5 DEF Gone, Saved
  <2>5. CASE ApplyPersist
    <3>1. wrk' = IdleWorker \/ (/\ wrk.at = "persist" /\ wrk.act = "close"
                                /\ wrk'.at = "release" /\ wrk'.id = wrk.id)
      BY <2>5, <1>0 DEF ApplyPersist
    <3>2. PICK i : i = wrk.id
      OBVIOUS
    <3>3. wrk.at = "persist" /\ wrk.act = "close" => Gone(i)'
      BY <1>0, <1>1, <3>2 DEF ReleasesAreDue
    <3>4. wrk.at = "persist" /\ wrk.act = "close" /\ wrk'.id = wrk.id => Gone(wrk.id)'
      BY <3>2, <3>3 DEF Gone, Saved
    <3> QED BY <3>1, <3>4 DEF IdleWorker
  <2>6. CASE ApplyPersistFails \/ ApplyRelease
    BY <2>6 DEF ApplyPersistFails, ApplyRelease, IdleWorker
  <2> QED BY <1>3, <2>2, <2>3, <2>4, <2>5, <2>6 DEF Worker
<1>4. CASE ~Worker
  BY <1>2, <1>4, OpeningMoves, RequestsOnly DEF Step, PendingOpenExpires, vars
<1> QED BY <1>3, <1>4

LEMMA RequestReleases ==
  ASSUME TypeOK, Serial, Numbered, RequestFacts, ReleasesAreDue, Step,
         NEW r \in Requests, NEW i \in Ids, Releasing(r, i)'
  PROVE  Gone(i)' \/ i \in slotless' \/ (req'[r].op = "archive" /\ OffList(i)')
<1> USE DEF permits, table, history
<1>0. /\ mem \in [Ids -> Row \cup {NoRow}] /\ NoRow \notin Row
      /\ req \in [Requests -> Request] /\ slotless \subseteq slotless'
  BY SlotAssumption, SlotlessStays DEF TypeOK, TableOK, RequestsOK
<1>1. CASE /\ Releasing(r, i) /\ req'[r].op = req[r].op
           /\ req[r].op = "archive" => ~ \E s \in Requests : MirrorArchived(s, i) /\ req[s].op = "unarchive"
  <2>1. Gone(i) => Gone(i)'
    BY GoneStays
  <2>2. req[r].op = "archive" /\ OffList(i) => OffList(i)'
    BY <1>1, OffListStays
  <2> QED BY <1>0, <1>1, <2>1, <2>2 DEF ReleasesAreDue
<1>2. CASE req'[r] = req[r]
  <2>1. Releasing(r, i)
    BY <1>2 DEF Releasing
  <2>2. ASSUME NEW s \in Requests, MirrorArchived(s, i), req[s].op = "unarchive", req[r].op = "archive"
        PROVE  FALSE
    <3>1. "unarchive" \in AdminOps
      BY <2>2, <1>0 DEF Request
    <3>2. r = s
      BY <3>1 DEF Serial
    <3> QED BY <2>2, <3>2
  <2> QED BY <1>1, <1>2, <2>1, <2>2
<1>3. CASE Dashboard(r)
  <2>0. /\ \A at \in RequestAt : RequestGoes(r, at) =>
              req'[r].at = at /\ req'[r].op = req[r].op /\ req'[r].ids = req[r].ids
        /\ RequestEnds(r) => req'[r].at = "idle"
    BY RequestFields DEF IdleRequest
  <2>1. ASSUME NEW j \in Ids, \/ BeginArchive(r, j) \/ BeginUnarchive(r, j) \/ BeginDelete(r, j)
                              \/ BeginForceClose(r, j)
        PROVE  FALSE
    BY <2>1, <1>0 DEF BeginArchive, BeginUnarchive, BeginDelete, BeginForceClose, Begin, Releasing
  <2>2. CASE BeginPurge(r)
    BY <2>2, <1>0 DEF BeginPurge, Begin, Releasing
  <2>3. ASSUME NEW j \in Ids, PersistArchived(r, j) \/ PersistDelete(r, j) PROVE FALSE
    <3>1. req'[r].at \in {"mirror", "idle"}
      BY <2>0, <2>3 DEF PersistArchived, PersistDelete, RequestAt
    <3> QED BY <3>1 DEF Releasing
  <2>4. CASE PersistPurge(r) \/ ReclaimAtCapacity(r) \/ RequestDbError(r) \/ ReclaimSlot(r)
    <3>1. req'[r].at \in {"mirror", "idle", "register"}
      BY <2>0, <2>4 DEF PersistPurge, ReclaimAtCapacity, RequestDbError, ReclaimSlot, RequestAt
    <3> QED BY <3>1 DEF Releasing
  <2>5. ASSUME NEW j \in Ids, ReleaseByRequest(r, j) \/ RegisterReclaimed(r, j) PROVE FALSE
    <3>1. req'[r].at = "idle"
      BY <2>0, <2>5 DEF ReleaseByRequest, RegisterReclaimed
    <3> QED BY <3>1 DEF Releasing
  <2>6. ASSUME NEW j \in Ids, MirrorPurge(r, j) PROVE FALSE
    <3>1. req'[r].at \in {"mirror", "idle"}
      <4>1. req'[r] = PurgeLeft(req[r], j) /\ req[r].at = "mirror"
        BY <2>6, <1>0 DEF MirrorPurge
      <4> QED BY <4>1, <1>0 DEF PurgeLeft, IdleRequest, Request
    <3> QED BY <3>1 DEF Releasing
  <2>7. ASSUME NEW j \in Ids, PersistForceClose(r, j)
        PROVE  Releasing(r, i) /\ req'[r].op = "force_close" /\ req[r].op = "force_close"
    BY <2>0, <2>7 DEF PersistForceClose, Releasing, RequestAt
  <2>8. ASSUME NEW j \in Ids, MirrorForceClose(r, j) PROVE Gone(i)' \/ i \in slotless'
    <3>1. /\ UpdateMem(j, [mem[j] EXCEPT !.closed = TRUE]) /\ Mistaken(r, j)
          /\ req[r].op # "purge" /\ req'[r].ids = req[r].ids /\ j \in req[r].ids
      BY <2>0, <2>8 DEF MirrorForceClose, RequestAt
    <3>2. i = j
      BY <3>1 DEF Releasing, RequestFacts
    <3>3. CASE mem[i] = NoRow
      BY <3>1, <3>2, <3>3 DEF Mistaken
    <3>4. CASE mem[i] # NoRow
      <4>1. i < nextId' /\ ~Saved(i)'
        BY <3>4, ListedIsUnsaved, UnsavedStays
      <4>2. mem' = [mem EXCEPT ![i] = [mem[i] EXCEPT !.closed = TRUE]]
        BY <3>1, <3>2, <3>4 DEF UpdateMem
      <4>3. mem'[i].closed
        BY <4>2, <3>4, <1>0 DEF Row
      <4> QED BY <4>1, <4>3 DEF Gone
    <3> QED BY <3>3, <3>4
  <2>9. ASSUME NEW j \in Ids, MirrorDelete(r, j) PROVE Gone(i)' \/ i \in slotless'
    <3>1. /\ RemoveFromMemory(j) /\ Mistaken(r, j)
          /\ req[r].op # "purge" /\ j \in req[r].ids /\ AfterMirror(r)
      BY <2>9 DEF MirrorDelete
    <3>2. req'[r].ids = req[r].ids
      BY <3>1, <2>0 DEF Releasing, AfterMirror, RequestAt
    <3>3. i = j
      BY <3>1, <3>2 DEF Releasing, RequestFacts
    <3>4. CASE mem[i] = NoRow
      BY <3>1, <3>3, <3>4 DEF Mistaken
    <3>5. CASE mem[i] # NoRow
      <4>1. i < nextId' /\ ~Saved(i)'
        BY <3>5, ListedIsUnsaved, UnsavedStays
      <4>2. mem'[i] = NoRow
        BY <3>1, <3>3, <3>5, <1>0 DEF RemoveFromMemory, RemoveRow
      <4> QED BY <4>1, <4>2 DEF Gone
    <3> QED BY <3>4, <3>5
  <2>10. ASSUME NEW j \in Ids, MirrorArchived(r, j) PROVE req'[r].op = "archive" /\ OffList(i)'
    <3>1. /\ req[r].op \in {"archive", "unarchive"} /\ j \in req[r].ids /\ AfterMirror(r)
          /\ mem' = SetArchived(mem, j, req[r].op = "archive")
      BY <2>10 DEF MirrorArchived
    <3>2. req'[r].ids = req[r].ids /\ req'[r].op = req[r].op
      BY <3>1, <2>0 DEF Releasing, AfterMirror, RequestAt
    <3>3. req[r].op = "archive"
      BY <3>1, <3>2 DEF Releasing
    <3>4. i = j
      BY <3>2, <3>1, <3>3 DEF Releasing, RequestFacts
    <3>5. i < nextId /\ ~Saved(i)
      BY <3>2, <3>3 DEF Releasing, RequestFacts, Toggles
    <3>6. i < nextId' /\ ~Saved(i)'
      BY <3>5, UnsavedStays
    <3>7. ~is_position_open(mem'[i])
      <4>1. CASE mem[i] = NoRow
        BY <3>1, <3>4, <4>1 DEF SetArchived, is_position_open
      <4>2. CASE mem[i] # NoRow
        <5>1. mem'[i] = [mem[i] EXCEPT !.archived = TRUE]
          BY <3>1, <3>3, <3>4, <4>2, <1>0 DEF SetArchived
        <5> QED BY <5>1, <4>2, <1>0 DEF Row, is_position_open
      <4> QED BY <4>1, <4>2
    <3> QED BY <3>2, <3>3, <3>6, <3>7 DEF OffList
  <2> QED BY <1>1, <1>3, <2>1, <2>2, <2>3, <2>4, <2>5, <2>6, <2>7, <2>8, <2>9, <2>10 DEF Dashboard
<1>4. CASE ~Dashboard(r)
  <2>1. req'[r] = req[r]
    <3>1. CASE \E s \in Requests : Dashboard(s)
      BY <1>4, <3>1, RequestsOnly
    <3>2. CASE \A s \in Requests : ~Dashboard(s)
      BY <3>2, OpeningMoves
         DEF Step, PendingOpenExpires, Worker, ApplyEntryVerified, ApplyExitVerified,
             ApplySyntheticExit, ApplyRemoveOrphan, ApplyPersist, ApplyPersistFails, ApplyRelease, vars
    <3> QED BY <3>1, <3>2
  <2> QED BY <1>2, <2>1
<1> QED BY <1>3, <1>4

LEMMA ReleasesStep ==
  ASSUME TypeOK, Serial, Numbered, RequestFacts, ReleasesAreDue, Step
  PROVE  ReleasesAreDue'
  BY WorkerReleases, RequestReleases DEF ReleasesAreDue

LEMMA PaysStep ==
  ASSUME TypeOK, Numbered, RequestFacts, Held, Step, NEW i \in Ids, is_position_open(mem'[i])
  PROVE  Pays(i)'
<1> USE DEF permits, table, history
<1>0. /\ mem \in [Ids -> Row \cup {NoRow}] /\ NoRow \notin Row
      /\ req \in [Requests -> Request] /\ slotless \subseteq slotless'
  BY SlotAssumption, SlotlessStays DEF TypeOK, TableOK, RequestsOK
<1>1. ASSUME NEW t \in Openers, add_position(t), opn[t].id = i PROVE Pays(i)'
  <2>1. opn'[t].at = "added" /\ opn'[t].id = i
    BY <1>1, OpeningIds
  <2> QED BY <2>1 DEF Pays
\* An unarchive that read a closed row does not open it.
<1>2. ASSUME NEW r \in Requests, MirrorArchived(r, i), req[r].op = "unarchive" PROVE Pays(i)'
  <2>1. i \in req[r].ids /\ AfterMirror(r)
    BY <1>2 DEF MirrorArchived
  <2>2. CASE req[r].open
    <3>1. req'[r].at = "slot" /\ req'[r].op = "unarchive" /\ i \in req'[r].ids
      BY <1>2, <2>1, <2>2, RequestFields
    <3> QED BY <3>1 DEF Pays
  <2>3. CASE ~req[r].open
    <3>1. Gone(i)
      BY <1>2, <2>1, <2>3 DEF RequestFacts, Toggles
    <3>2. Gone(i)'
      BY <3>1, GoneStays
    <3> QED BY <3>2 DEF Gone, is_position_open
  <2> QED BY <2>2, <2>3
<1>3. CASE is_position_open(mem[i])
  <2>1. Pays(i)
    BY <1>3 DEF Held, OpenIds
  <2>2. CASE i \in holders
    <3>1. CASE i \in holders'
      BY <3>1 DEF Pays
    <3>2. CASE i \notin holders'
      <4>1. mem' = mem /\ ((ApplyRelease /\ wrk.id = i) \/ \E r \in Requests : ReleaseByRequest(r, i))
        BY <2>2, <3>2, HoldersStay
      <4>2. CASE ApplyRelease /\ wrk.id = i
        <5>1. Gone(i) \/ i \in slotless
          BY <4>2 DEF ApplyRelease, Held, ReleasesAreDue
        <5> QED BY <1>0, <1>3, <5>1 DEF Gone, is_position_open, Pays
      <4>3. ASSUME NEW r \in Requests, ReleaseByRequest(r, i) PROVE Pays(i)'
        <5>1. Releasing(r, i)
          BY <4>3 DEF ReleaseByRequest, Releasing
        <5>2. Gone(i) \/ i \in slotless \/ OffList(i)
          BY <5>1 DEF Held, ReleasesAreDue
        <5> QED BY <1>0, <1>3, <5>2 DEF Gone, OffList, is_position_open, Pays
      <4> QED BY <4>1, <4>2, <4>3
    <3> QED BY <3>1, <3>2
  <2>3. CASE i \in slotless
    BY <1>0, <2>3 DEF Pays
  <2>4. ASSUME NEW t \in Openers, opn[t].at = "added", opn[t].id = i PROVE Pays(i)'
    <3>1. CASE opn'[t] = opn[t]
      BY <2>4, <3>1 DEF Pays
    <3>2. CASE Opening(t)
      <4>1. OpenRegisterSlot(t)
        BY <2>4, <3>2, OpeningMoves, OpeningIds DEF QuietOpening
      <4>2. i \in holders'
        BY <2>4, <4>1, OpeningIds
      <4> QED BY <4>2 DEF Pays
    <3>3. CASE ~Opening(t)
      <4>1. opn'[t] = opn[t]
        BY <3>3, OpeningMoves, RequestsOnly
           DEF Step, PendingOpenExpires, Worker, ApplyEntryVerified, ApplyExitVerified,
               ApplySyntheticExit, ApplyRemoveOrphan, ApplyPersist, ApplyPersistFails, ApplyRelease, vars
      <4> QED BY <3>1, <4>1
    <3> QED BY <3>2, <3>3
  <2>5. ASSUME NEW r \in Requests, req[r].op = "unarchive", req[r].at \in {"slot", "register"},
               i \in req[r].ids
        PROVE  Pays(i)'
    <3>1. CASE req'[r] = req[r]
      BY <2>5, <3>1 DEF Pays
    <3>2. CASE Dashboard(r)
      <4>1. ReclaimSlot(r) \/ ReclaimAtCapacity(r) \/ \E j \in Ids : RegisterReclaimed(r, j)
        BY <2>5, <3>2
           DEF Dashboard, BeginArchive, BeginUnarchive, BeginDelete, BeginForceClose, BeginPurge, Begin,
               PersistArchived, MirrorArchived, PersistDelete, MirrorDelete, MirrorPurge, PersistPurge,
               MirrorForceClose, PersistForceClose, ReleaseByRequest, RequestDbError
      <4>2. CASE ReclaimSlot(r)
        <5>1. req'[r].op = "unarchive" /\ req'[r].at = "register" /\ i \in req'[r].ids
          BY <2>5, <4>2, RequestFields DEF ReclaimSlot, RequestAt
        <5> QED BY <5>1 DEF Pays
      <4>3. CASE ReclaimAtCapacity(r)
        BY <2>5, <4>3 DEF ReclaimAtCapacity, Pays
      <4>4. ASSUME NEW j \in Ids, RegisterReclaimed(r, j) PROVE Pays(i)'
        <5>1. i = j
          BY <2>5, <4>4 DEF RegisterReclaimed, RequestFacts
        <5> QED BY <4>4, <5>1 DEF RegisterReclaimed, Pays
      <4> QED BY <4>1, <4>2, <4>3, <4>4
    <3>3. CASE ~Dashboard(r)
      <4>1. req'[r] = req[r]
        <5>1. CASE \E s \in Requests : Dashboard(s)
          BY <3>3, <5>1, RequestsOnly
        <5>2. CASE \A s \in Requests : ~Dashboard(s)
          BY <5>2, OpeningMoves
             DEF Step, PendingOpenExpires, Worker, ApplyEntryVerified, ApplyExitVerified,
                 ApplySyntheticExit, ApplyRemoveOrphan, ApplyPersist, ApplyPersistFails, ApplyRelease,
                 vars
        <5> QED BY <5>1, <5>2
      <4> QED BY <3>1, <4>1
    <3> QED BY <3>2, <3>3
  <2> QED BY <2>1, <2>2, <2>3, <2>4, <2>5 DEF Pays
<1>4. CASE ~is_position_open(mem[i])
  <2>1. \/ \E t \in Openers : add_position(t) /\ opn[t].id = i
        \/ \E r \in Requests : MirrorArchived(r, i) /\ req[r].op = "unarchive"
    BY <1>4, MemMoves DEF is_position_open
  <2> QED BY <1>1, <1>2, <2>1
<1> QED BY <1>3, <1>4

\* With requests that cannot undo each other, the limit on open positions is never
\* exceeded in silence: an open position holds its slot, or an open or an unarchive is
\* about to register it, or it is in slotless (release_position_slot,
\* register_position_slot and their callers).
THEOREM OpenPositionsPay == Serial => (Spec => []OpenPositionHoldsSlot)
<1> SUFFICES ASSUME Serial PROVE Spec => []OpenPositionHoldsSlot
  OBVIOUS
<1>1. Init => Held
  BY DEF Init, Held, ReleasesAreDue, OpenIds, is_position_open, Releasing, IdleRequest, IdleWorker
<1>2. TypeOK /\ SlotInv /\ Held /\ [Next]_vars => Held'
  <2> SUFFICES ASSUME TypeOK, SlotInv, Held, [Next]_vars PROVE Held'
    OBVIOUS
  <2>1. CASE Step
    <3>1. ReleasesAreDue'
      BY <2>1, ReleasesStep DEF SlotInv, Held
    <3>2. \A i \in Ids : is_position_open(mem'[i]) => Pays(i)'
      BY <2>1, PaysStep DEF SlotInv
    <3> QED BY <3>1, <3>2 DEF Held, OpenIds
  <2>2. CASE CrashAndRestart
    <3>1. wrk' = IdleWorker /\ req' = [r \in Requests |-> IdleRequest] /\ mem' = db /\ holders' = OpenIds(db)
      BY <2>2 DEF CrashAndRestart, rebuild_position_slot_holders
    <3>2. ReleasesAreDue'
      BY <3>1 DEF ReleasesAreDue, Releasing, IdleRequest, IdleWorker
    <3>3. \A i \in OpenIds(mem') : Pays(i)'
      BY <3>1 DEF Pays
    <3> QED BY <3>2, <3>3 DEF Held
  <2> QED BY <2>1, <2>2 DEF Next, Step
<1>3. Held => OpenPositionHoldsSlot
  BY DEF Held, Pays, OpenPositionHoldsSlot
<1> QED BY <1>1, <1>2, <1>3, TypeCorrect, SlotInvAlways, PTL DEF Spec

-----------------------------------------------------------------------------
(* One open position per mint *)

\* The database answers, and the dashboard archives and unarchives only: a delete, a
\* purge or a force close may reach a position that is stored and not listed yet.
Calm == ~DbMayFail /\ AdminOps \subseteq Toggles

\* No row of the mint has been removed: everybody finds the same mutex.
Standing(m) == lockGen[m] = 0

DbOpen(i) == db[i] # NoRow /\ ~db[i].closed

\* Openers of a standing mint hold or wait for the same mutex, one holds it, and past
\* the database guard no row of its mint is open.
LockExcludes ==
    /\ \A t \in Openers : opn[t].at # "idle" /\ Standing(opn[t].mint) => opn[t].gen = 0
    /\ \A t, u \in Openers :
          /\ opn[t].at \in LockAt /\ opn[u].at \in LockAt
          /\ opn[t].mint = opn[u].mint /\ opn[t].gen = opn[u].gen
          => t = u
    /\ \A t \in Openers : \A i \in Ids :
          /\ opn[t].at \in {"swapping", "bought"} /\ Standing(opn[t].mint)
          /\ db[i] # NoRow /\ db[i].mint = opn[t].mint
          => db[i].closed

\* The table knows every listed row, and does not take it for closed before the list
\* does; a stored position is open there.
TableCovers ==
    /\ \A i \in Ids : mem[i] # NoRow =>
          db[i] # NoRow /\ db[i].mint = mem[i].mint /\ (db[i].closed => mem[i].closed)
    /\ \A t \in Openers : opn[t].at = "saved" =>
          DbOpen(opn[t].id) /\ db[opn[t].id].mint = opn[t].mint

\* The open row of a standing mint is the one the database guard looks at.
OpenIsLatest ==
    \A i, j \in Ids :
        DbOpen(i) /\ db[j] # NoRow /\ db[i].mint = db[j].mint /\ Standing(db[i].mint) => j <= i

OneInv == LockExcludes /\ TableCovers /\ OpenIsLatest

LEMMA CalmDashboard ==
  ASSUME TypeOK, Calm, NEW r \in Requests, Dashboard(r)
  PROVE  /\ UNCHANGED lockGen
         /\ \/ db' = db
            \/ \E i \in Ids, flag \in BOOLEAN : db' = SetArchived(db, i, flag)
<1> USE DEF permits, table, history
<1>1. req[r].op \notin {"delete", "force_close", "purge"}
  BY DEF TypeOK, RequestsOK, Request, Calm, Toggles
<1>2. AdminOps \cap {"delete", "force_close", "purge"} = {}
  BY DEF Calm, Toggles
<1>3. ASSUME NEW i \in Ids, PersistArchived(r, i)
      PROVE  UNCHANGED lockGen /\ \E flag \in BOOLEAN : db' = SetArchived(db, i, flag)
  <2>1. (req[r].op = "archive") \in BOOLEAN
    OBVIOUS
  <2> QED BY <1>3, <2>1 DEF PersistArchived
<1>4. CASE \A i \in Ids : ~PersistArchived(r, i)
  BY <1>1, <1>2, <1>4
     DEF Dashboard, BeginArchive, BeginUnarchive, BeginDelete, BeginForceClose, BeginPurge, Begin,
         MirrorArchived, PersistDelete, MirrorDelete, MirrorPurge, PersistPurge, MirrorForceClose,
         PersistForceClose, ReleaseByRequest, RegisterReclaimed, ReclaimSlot, ReclaimAtCapacity,
         RequestDbError
<1> QED BY <1>3, <1>4

\* The number of a mint's lock only grows.
LEMMA StandingBefore ==
  ASSUME TypeOK, Calm, Step, NEW m \in Mints, Standing(m)'
  PROVE  Standing(m)
<1> USE DEF permits, table, history
<1>0. lockGen \in [Mints -> Nat]
  BY DEF TypeOK
<1>1. CASE lockGen' = lockGen
  BY <1>1 DEF Standing
<1>2. ASSUME NEW i \in Ids, ApplyRemoveOrphan(i) PROVE Standing(m)
  <2>1. PICK n : lockGen' = [lockGen EXCEPT ![n] = @ + 1]
    BY <1>2 DEF ApplyRemoveOrphan, RemoveRow
  <2> QED BY <1>0, <2>1 DEF Standing
<1>3. CASE Worker
  BY <1>1, <1>2, <1>3
     DEF Worker, ApplyEntryVerified, ApplyExitVerified, ApplySyntheticExit, ApplyPersist,
         ApplyPersistFails, ApplyRelease
<1>4. CASE \E r \in Requests : Dashboard(r)
  BY <1>1, <1>4, CalmDashboard
<1>5. CASE \E t \in Openers : Opening(t)
  BY <1>1, <1>5, OpeningMoves
<1>6. CASE (\E n \in Mints : PendingOpenExpires(n)) \/ UNCHANGED vars
  BY <1>1, <1>6 DEF PendingOpenExpires, vars
<1> QED BY <1>3, <1>4, <1>5, <1>6 DEF Step

\* A stored row stays, keeps its mint, stays closed, and is closed only after the
\* list has closed it.
LEMMA DbKeeps ==
  ASSUME TypeOK, Calm, Numbered, TableCovers, Step, NEW i \in Ids, db[i] # NoRow
  PROVE  /\ db'[i] # NoRow /\ db'[i].mint = db[i].mint
         /\ db[i].closed => db'[i].closed
         /\ db'[i].closed => db[i].closed \/ (mem' = mem /\ mem[i] # NoRow /\ mem[i].closed)
<1> USE DEF permits, table, history
<1>0. /\ mem \in [Ids -> Row \cup {NoRow}] /\ NoRow \notin Row
      /\ db \in [Ids -> Row \cup {NoRow}] /\ nextId \in Nat
  BY SlotAssumption DEF TypeOK, TableOK
<1>1. CASE db'[i] = db[i]
  BY <1>1
<1>2. ASSUME NEW t \in Openers, Opening(t)
      PROVE  db'[i] = db[i]
  <2>0. i # nextId
    BY <1>0 DEF Numbered
  <2>1. OpenPersist(t) => db'[i] = db[i]
    BY <1>0, <2>0 DEF OpenPersist
  <2> QED BY <1>2, <2>1, OpeningMoves, OpeningIds DEF QuietOpening
<1>3. CASE Worker
  <2>1. CASE ApplyPersist
    <3>1. PICK k : k = wrk.id
      OBVIOUS
    <3>2. /\ mem' = mem /\ mem[k] # NoRow /\ db[k] # NoRow
          /\ db' = [db EXCEPT ![k] = [mem[k] EXCEPT !.archived = db[k].archived]]
      BY <2>1, <3>1 DEF ApplyPersist, update_position
    <3>3. CASE k # i
      BY <1>1, <3>2, <3>3, <1>0
    <3>4. CASE k = i
      <4> DEFINE old == db[i].archived
      <4> HIDE DEF old
      <4>1. mem[i] \in Row /\ db'[i] = [mem[i] EXCEPT !.archived = old]
        BY <3>2, <3>4, <1>0 DEF old
      <4>2. db[i].archived \in BOOLEAN
        BY <1>0 DEF Row
      <4>3. db'[i] \in Row /\ db'[i].mint = mem[i].mint /\ db'[i].closed = mem[i].closed
        BY <4>1, <4>2 DEF Row, old
      <4> QED BY <4>3, <3>2, <3>4, <1>0 DEF TableCovers
    <3> QED BY <3>3, <3>4
  <2>2. CASE ~ApplyPersist
    BY <1>1, <1>3, <2>2
       DEF Worker, ApplyEntryVerified, ApplyExitVerified, ApplySyntheticExit, ApplyRemoveOrphan,
           ApplyPersistFails, ApplyRelease
  <2> QED BY <2>1, <2>2
<1>4. ASSUME NEW j \in Ids, NEW flag \in BOOLEAN, db' = SetArchived(db, j, flag)
      PROVE  db'[i] # NoRow /\ db'[i].mint = db[i].mint /\ db'[i].closed = db[i].closed
  <2>1. db' = db \/ (db[j] # NoRow /\ db' = [db EXCEPT ![j] = [db[j] EXCEPT !.archived = flag]])
    BY <1>4 DEF SetArchived
  <2>2. db'[i] = db[i] \/ db'[i] = [db[i] EXCEPT !.archived = flag]
    BY <2>1, <1>0
  <2>3. db[i] \in Row
    BY <1>0
  <2> QED BY <2>2, <2>3, <1>0 DEF Row
<1>5. CASE \E r \in Requests : Dashboard(r)
  BY <1>1, <1>4, <1>5, CalmDashboard
<1>6. CASE (\E n \in Mints : PendingOpenExpires(n)) \/ UNCHANGED vars
  BY <1>1, <1>6 DEF PendingOpenExpires, vars
<1> QED BY <1>1, <1>2, <1>3, <1>5, <1>6 DEF Step

\* What an open does to its own record.
LEMMA OpenerMoves ==
  ASSUME TypeOK, NEW t \in Openers, Opening(t)
  PROVE  /\ opn'[t].at # "idle" =>
              \/ opn'[t].gen = 0
              \/ opn'[t].mint = opn[t].mint /\ opn'[t].gen = lockGen[opn[t].mint]
              \/ opn[t].at # "idle" /\ opn'[t].mint = opn[t].mint /\ opn'[t].gen = opn[t].gen
         /\ opn'[t].at \in LockAt =>
              /\ opn'[t].mint = opn[t].mint /\ opn'[t].gen = opn[t].gen
              /\ opn[t].at \in LockAt \/ OpenLock(t)
         /\ opn'[t].at \in {"swapping", "bought"} =>
              opn[t].at = "swapping" \/ (OpenCheckDb(t) /\ opn[t].at = "guarded")
<1>0. opn \in [Openers -> Opener]
  BY DEF TypeOK, OpenersOK
<1>1. \A at : OpenerGoes(t, at) =>
         opn'[t].at = at /\ opn'[t].mint = opn[t].mint /\ opn'[t].gen = opn[t].gen
  BY <1>0 DEF OpenerGoes, Opener
<1>2. CASE \E m \in Mints : OpenAcquirePermit(t, m)
  BY <1>0, <1>2 DEF OpenAcquirePermit, LockAt
<1>3. CASE OpenLookupLock(t)
  BY <1>0, <1>3 DEF OpenLookupLock, LockAt
<1>4. CASE OpenLock(t)
  <2>1. opn[t].at = "waiting" /\ OpenerGoes(t, "locked")
    BY <1>4 DEF OpenLock
  <2> QED BY <1>1, <1>4, <2>1
<1>5. CASE OpenCheckMemory(t) \/ OpenSwap(t) \/ add_position(t) \/ OpenRegisterSlot(t)
  <2>1. /\ opn[t].at \in {"locked", "swapping", "saved", "added"}
        /\ \/ OpenerGoes(t, "guarded") \/ OpenerGoes(t, "added") \/ OpenerGoes(t, "registered")
           \/ OpenerGoes(t, "bought") /\ opn[t].at = "swapping"
    BY <1>5 DEF OpenCheckMemory, OpenSwap, add_position, OpenRegisterSlot
  <2>2. /\ opn'[t].mint = opn[t].mint /\ opn'[t].gen = opn[t].gen
        /\ \/ opn'[t].at \in {"guarded", "added", "registered"}
           \/ opn'[t].at = "bought" /\ opn[t].at = "swapping"
    BY <1>1, <2>1
  <2> QED BY <2>1, <2>2 DEF LockAt
<1>6. CASE OpenCheckDb(t)
  <2>1. opn[t].at = "guarded" /\ OpenerGoes(t, "swapping")
    BY <1>6 DEF OpenCheckDb
  <2> QED BY <1>1, <1>6, <2>1 DEF LockAt
<1>7. CASE OpenPersist(t)
  BY <1>7, OpeningIds DEF LockAt
<1>8. CASE \/ OpenAlreadyOpen(t) \/ OpenRefused(t) \/ OpenSwapFails(t) \/ OpenPersistPanics(t)
           \/ OpenReturnsOk(t)
  <2>1. opn' = [opn EXCEPT ![t] = IdleOpener]
    BY <1>8 DEF OpenAlreadyOpen, OpenRefused, OpenSwapFails, OpenPersistPanics, OpenReturnsOk,
                OpenReturnsErr
  <2>2. opn'[t].at = "idle"
    BY <1>0, <2>1 DEF IdleOpener
  <2> QED BY <2>2 DEF LockAt
<1> QED BY <1>2, <1>3, <1>4, <1>5, <1>6, <1>7, <1>8 DEF Opening

\* An opener moves by its own step.
LEMMA OneOpenerMoves ==
  ASSUME TypeOK, Step, NEW t \in Openers, opn'[t] # opn[t]
  PROVE  Opening(t)
<1>1. CASE \E u \in Openers : Opening(u)
  BY <1>1, OpeningMoves
<1>2. CASE \A u \in Openers : ~Opening(u)
  BY <1>2, RequestsOnly
     DEF Step, PendingOpenExpires, Worker, ApplyEntryVerified, ApplyExitVerified, ApplySyntheticExit,
         ApplyRemoveOrphan, ApplyPersist, ApplyPersistFails, ApplyRelease, vars
<1> QED BY <1>1, <1>2

\* A refusal to open reads the row that decides.
LEMMA GuardSeesAll ==
  ASSUME OpenIsLatest, NEW m, Standing(m), ~DbStillOpen(m),
         NEW i \in Ids, db[i] # NoRow, db[i].mint = m
  PROVE  db[i].closed
<1> SUFFICES ASSUME ~db[i].closed PROVE FALSE
  OBVIOUS
<1> DEFINE last == CHOOSE k \in RowsOf(db, m) : \A j \in RowsOf(db, m) : j <= k
<1>1. i \in RowsOf(db, m) /\ \A j \in RowsOf(db, m) : j <= i
  BY DEF RowsOf, OpenIsLatest, DbOpen
<1>2. last \in RowsOf(db, m) /\ \A j \in RowsOf(db, m) : j <= last
  BY <1>1
<1>3. get_latest_position_by_mint(m) = db[last]
  BY <1>1 DEF get_latest_position_by_mint
<1> HIDE DEF last
<1>4. i <= last /\ last <= i /\ i \in Nat /\ last \in Nat
  BY <1>1, <1>2 DEF RowsOf, Ids
<1>5. last = i
  BY <1>4
<1> QED BY <1>3, <1>5 DEF DbStillOpen

\* The row an open stores.
LEMMA NewDbRow ==
  ASSUME TypeOK, NEW t \in Openers, OpenPersist(t)
  PROVE  /\ nextId \in Ids
         /\ db'[nextId] # NoRow
         /\ db'[nextId].mint = opn[t].mint /\ ~db'[nextId].closed
<1>1. nextId \in Ids
  BY SlotAssumption DEF OpenPersist, Ids, TypeOK, TableOK
<1>2. [mint |-> opn[t].mint, entryOk |-> FALSE, closed |-> FALSE, archived |-> FALSE] \in Row
  BY NewRow DEF OpenPersist, TypeOK, OpenersOK
<1>3. db'[nextId] = [mint |-> opn[t].mint, entryOk |-> FALSE, closed |-> FALSE, archived |-> FALSE]
  BY <1>1 DEF OpenPersist, TypeOK, TableOK
<1>4. db'[nextId] # NoRow
  BY <1>2, <1>3, SlotAssumption
<1>5. db'[nextId].mint = opn[t].mint /\ ~db'[nextId].closed
  BY <1>3
<1> QED BY <1>1, <1>4, <1>5

LEMMA TableStep ==
  ASSUME TypeOK, Calm, Numbered, TableCovers, Step
  PROVE  TableCovers'
<1>1. ASSUME NEW i \in Ids, mem'[i] # NoRow
      PROVE  db'[i] # NoRow /\ db'[i].mint = mem'[i].mint /\ (db'[i].closed => mem'[i].closed)
  <2>1. CASE mem[i] # NoRow /\ mem'[i].mint = mem[i].mint /\ (mem[i].closed => mem'[i].closed)
    BY <2>1, DbKeeps DEF TableCovers
  <2>2. ASSUME NEW t \in Openers, add_position(t), opn[t].id = i
        PROVE  db'[i] # NoRow /\ db'[i].mint = mem'[i].mint /\ (db'[i].closed => mem'[i].closed)
    <3>1. opn[t].at = "saved" /\ db' = db
      BY <2>2, OpeningIds
    <3>2. mem'[i] = [mint |-> opn[t].mint, entryOk |-> FALSE, closed |-> FALSE, archived |-> FALSE]
      BY <2>2 DEF add_position, TypeOK, TableOK
    <3>3. mem'[i].mint = opn[t].mint
      BY <3>2
    <3> QED BY <2>2, <3>1, <3>3 DEF TableCovers, DbOpen
  <2> QED BY <1>1, <2>1, <2>2, MemMoves
<1>2. ASSUME NEW t \in Openers, opn'[t].at = "saved"
      PROVE  /\ db'[opn'[t].id] # NoRow /\ ~db'[opn'[t].id].closed
             /\ db'[opn'[t].id].mint = opn'[t].mint
  <2>1. CASE opn'[t] = opn[t]
    <3>1. PICK i \in Ids : i = opn[t].id
      BY <1>2, <2>1 DEF TypeOK, OpenersOK
    <3>2. db[i] # NoRow /\ ~db[i].closed /\ db[i].mint = opn[t].mint /\ mem[i] = NoRow
      BY <1>2, <2>1, <3>1 DEF TableCovers, DbOpen, Numbered
    <3>3. db'[i] # NoRow /\ db'[i].mint = db[i].mint /\ ~db'[i].closed
      BY <3>2, DbKeeps
    <3> QED BY <2>1, <3>1, <3>2, <3>3
  <2>2. CASE opn'[t] # opn[t]
    <3>1. OpenPersist(t)
      BY <1>2, <2>2, OneOpenerMoves, OpeningMoves, OpeningIds DEF QuietOpening
    <3>2. opn'[t].id = nextId /\ opn'[t].mint = opn[t].mint
      BY <3>1, OpeningIds
    <3> QED BY <3>1, <3>2, NewDbRow
  <2> QED BY <2>1, <2>2
<1> QED BY <1>1, <1>2 DEF TableCovers, DbOpen

LEMMA LatestStep ==
  ASSUME TypeOK, TypeOK', Calm, Numbered, OneInv, Step
  PROVE  OpenIsLatest'
<1> SUFFICES ASSUME NEW i \in Ids, NEW j \in Ids, db'[i] # NoRow, ~db'[i].closed, db'[j] # NoRow,
                    db'[i].mint = db'[j].mint, lockGen'[db'[i].mint] = 0
             PROVE  j <= i
  BY DEF OpenIsLatest, DbOpen, Standing
<1>0. nextId \in Nat /\ i \in Nat /\ j \in Nat
  BY DEF TypeOK, TableOK, Ids
<1>1. PICK m \in Mints : m = db'[i].mint
  BY DEF TypeOK, TableOK, Row
<1>2. Standing(m)
  <2>1. Standing(m)'
    BY <1>1 DEF Standing
  <2> QED BY <2>1, StandingBefore
<1>3. CASE db[i] = NoRow
  <2>1. i = nextId
    BY <1>3, DbMoves
  <2>2. j = nextId \/ j < nextId
    BY DbMoves DEF Numbered
  <2> QED BY <1>0, <2>1, <2>2
<1>4. CASE db[i] # NoRow
  <2>1. db[i].mint = m /\ ~db[i].closed
    BY <1>1, <1>4, DbKeeps DEF OneInv
  <2>2. CASE db[j] # NoRow
    <3>1. db[j].mint = m
      BY <1>1, <2>2, DbKeeps DEF OneInv
    <3> QED BY <1>2, <1>4, <2>1, <2>2, <3>1 DEF OneInv, OpenIsLatest, DbOpen
  <2>3. CASE db[j] = NoRow
    <3>1. PICK t \in Openers : OpenPersist(t) /\ j = nextId
      BY <2>3, DbMoves
    <3>2. opn[t].at = "bought" /\ db'[j].mint = opn[t].mint
      BY <3>1, NewDbRow, OpeningIds
    <3>3. db[i].closed
      BY <1>1, <1>2, <1>4, <2>1, <3>2 DEF OneInv, LockExcludes
    <3> QED BY <2>1, <3>3
  <2> QED BY <2>2, <2>3
<1> QED BY <1>3, <1>4

LEMMA LockStep ==
  ASSUME TypeOK, TypeOK', Calm, Numbered, OneInv, Step
  PROVE  LockExcludes'
<1>0. /\ opn \in [Openers -> Opener] /\ opn' \in [Openers -> Opener]
      /\ \A t \in Openers : opn'[t].at # "idle" => opn'[t].mint \in Mints
      /\ nextId \in Nat
  BY DEF TypeOK, OpenersOK, TableOK
<1>1. ASSUME NEW t \in Openers, opn'[t].at # "idle", lockGen'[opn'[t].mint] = 0
      PROVE  opn'[t].gen = 0
  <2>1. CASE opn'[t] = opn[t]
    <3>1. PICK m \in Mints : m = opn[t].mint
      BY <1>0, <1>1, <2>1
    <3>2. Standing(m)'
      BY <1>1, <2>1, <3>1 DEF Standing
    <3>3. Standing(opn[t].mint)
      BY <3>1, <3>2, StandingBefore
    <3> QED BY <1>1, <2>1, <3>3 DEF OneInv, LockExcludes
  <2>2. CASE opn'[t] # opn[t]
    <3>1. Opening(t)
      BY <2>2, OneOpenerMoves
    <3>2. lockGen' = lockGen
      BY <3>1, OpeningMoves
    <3>3. \/ opn'[t].gen = 0
          \/ opn'[t].mint = opn[t].mint /\ opn'[t].gen = lockGen[opn[t].mint]
          \/ opn[t].at # "idle" /\ opn'[t].mint = opn[t].mint /\ opn'[t].gen = opn[t].gen
      BY <1>1, <3>1, OpenerMoves
    <3> QED BY <1>1, <3>2, <3>3 DEF OneInv, LockExcludes, Standing
  <2> QED BY <2>1, <2>2
\* Whoever holds a mutex held it before or found it free.
<1>2. ASSUME NEW t \in Openers, NEW u \in Openers, t # u, opn'[u] = opn[u],
             opn'[t].at \in LockAt, opn'[u].at \in LockAt,
             opn'[t].mint = opn'[u].mint, opn'[t].gen = opn'[u].gen
      PROVE  FALSE
  <2>1. CASE opn'[t] = opn[t]
    BY <1>2, <2>1 DEF OneInv, LockExcludes
  <2>2. CASE opn'[t] # opn[t]
    <3>1. /\ opn'[t].mint = opn[t].mint /\ opn'[t].gen = opn[t].gen
          /\ opn[t].at \in LockAt \/ OpenLock(t)
      BY <1>2, <2>2, OneOpenerMoves, OpenerMoves
    <3> QED BY <1>2, <3>1 DEF OpenLock, OneInv, LockExcludes
  <2> QED BY <2>1, <2>2
<1>3. ASSUME NEW t \in Openers, NEW u \in Openers,
             opn'[t].at \in LockAt, opn'[u].at \in LockAt,
             opn'[t].mint = opn'[u].mint, opn'[t].gen = opn'[u].gen
      PROVE  t = u
  <2>1. CASE opn'[t] = opn[t] \/ opn'[u] = opn[u]
    BY <1>2, <1>3, <2>1
  <2>2. CASE opn'[t] # opn[t] /\ opn'[u] # opn[u]
    BY <2>2, OneOpenerMoves, OpeningMoves
  <2> QED BY <2>1, <2>2
<1>4. ASSUME NEW t \in Openers, NEW i \in Ids, opn'[t].at \in {"swapping", "bought"},
             lockGen'[opn'[t].mint] = 0, db'[i] # NoRow, db'[i].mint = opn'[t].mint
      PROVE  db'[i].closed
  <2>1. CASE opn'[t] = opn[t]
    <3>1. PICK m \in Mints : m = opn[t].mint
      BY <1>0, <1>4, <2>1
    <3>2. Standing(m)'
      BY <1>4, <2>1, <3>1 DEF Standing
    <3>3. Standing(m)
      BY <3>2, StandingBefore
    <3>4. CASE db[i] # NoRow
      <4>1. db[i].mint = m
        BY <1>4, <2>1, <3>1, <3>4, DbKeeps DEF OneInv
      <4>2. db[i].closed
        BY <1>4, <2>1, <3>1, <3>3, <3>4, <4>1 DEF OneInv, LockExcludes
      <4> QED BY <3>4, <4>2, DbKeeps DEF OneInv
    <3>5. CASE db[i] = NoRow
      <4>1. PICK u \in Openers : OpenPersist(u) /\ i = nextId
        BY <1>4, <3>5, DbMoves
      <4>2. opn[u].at = "bought" /\ opn[u].mint = m /\ opn'[u].at = "saved"
        BY <1>4, <2>1, <3>1, <4>1, NewDbRow, OpeningIds
      <4>3. opn[t].gen = 0 /\ opn[u].gen = 0
        BY <1>4, <2>1, <3>1, <3>3, <4>2 DEF OneInv, LockExcludes
      <4>4. opn[t].at \in LockAt /\ opn[u].at \in LockAt
        BY <1>4, <2>1, <4>2 DEF LockAt
      <4>5. t = u
        BY <3>1, <4>2, <4>3, <4>4 DEF OneInv, LockExcludes
      <4> QED BY <1>4, <4>2, <4>5
    <3> QED BY <3>4, <3>5
  <2>2. CASE opn'[t] # opn[t]
    <3>1. Opening(t)
      BY <2>2, OneOpenerMoves
    <3>2. lockGen' = lockGen /\ db' = db
      BY <1>4, <3>1, OpeningMoves, OpeningIds DEF QuietOpening
    <3>3. /\ opn'[t].mint = opn[t].mint
          /\ opn[t].at = "swapping" \/ OpenCheckDb(t)
      <4>1. opn'[t].at \in LockAt
        BY <1>4 DEF LockAt
      <4> QED BY <1>4, <3>1, <4>1, OpenerMoves
    <3>4. Standing(opn[t].mint) /\ db[i] # NoRow /\ db[i].mint = opn[t].mint
      BY <1>4, <3>2, <3>3 DEF Standing
    <3>5. CASE opn[t].at = "swapping"
      BY <3>2, <3>4, <3>5 DEF OneInv, LockExcludes
    <3>6. CASE OpenCheckDb(t)
      <4>1. ~DbStillOpen(opn[t].mint)
        BY <3>6 DEF OpenCheckDb, Calm
      <4>2. OpenIsLatest
        BY DEF OneInv
      <4> QED BY <3>2, <3>4, <4>1, <4>2, GuardSeesAll
    <3> QED BY <3>3, <3>5, <3>6
  <2> QED BY <2>1, <2>2
<1> QED BY <1>1, <1>3, <1>4 DEF LockExcludes, Standing

\* The guards of open_position_impl work together: while the database answers and the
\* dashboard deletes, purges and force-closes nothing, a mint whose rows were never
\* removed has one open position, through closes, re-buys, archiving, expired marks
\* and restarts.
THEOREM OneOpenPerStandingMint == Calm => (Spec => []OneOpenWhileLockStands)
<1> SUFFICES ASSUME Calm PROVE Spec => []OneOpenWhileLockStands
  OBVIOUS
<1>1. Init => OneInv
  BY DEF Init, OneInv, LockExcludes, TableCovers, OpenIsLatest, DbOpen, IdleOpener, LockAt
<1>2. TypeOK /\ SlotInv /\ OneInv /\ [Next]_vars => OneInv'
  <2> SUFFICES ASSUME TypeOK, SlotInv, OneInv, [Next]_vars PROVE OneInv'
    OBVIOUS
  <2>1. TypeOK'
    BY NextTypeOK
  <2>2. CASE Step
    BY <2>1, <2>2, TableStep, LatestStep, LockStep DEF SlotInv, OneInv
  <2>3. CASE CrashAndRestart
    <3>1. LockExcludes' /\ TableCovers'
      BY <2>3 DEF CrashAndRestart, LockExcludes, TableCovers, IdleOpener, LockAt
    <3>2. OpenIsLatest'
      BY <2>3 DEF CrashAndRestart, OneInv, OpenIsLatest, DbOpen, Standing
    <3> QED BY <3>1, <3>2 DEF OneInv
  <2> QED BY <2>2, <2>3 DEF Next, Step
<1>3. TypeOK /\ OneInv => OneOpenWhileLockStands
  <2> SUFFICES ASSUME TypeOK, OneInv, NEW i \in OpenIds(mem), NEW j \in OpenIds(mem),
                      mem[i].mint = mem[j].mint, lockGen[mem[i].mint] = 0
               PROVE  i = j
    BY DEF OneOpenWhileLockStands
  <2>1. /\ i \in Ids /\ j \in Ids /\ mem[i] # NoRow /\ mem[j] # NoRow
        /\ ~mem[i].closed /\ ~mem[j].closed
    BY DEF OpenIds, is_position_open
  <2>2. /\ DbOpen(i) /\ DbOpen(j) /\ db[i].mint = mem[i].mint /\ db[j].mint = mem[i].mint
    BY <2>1 DEF OneInv, TableCovers, DbOpen
  <2>3. i <= j /\ j <= i
    BY <2>1, <2>2 DEF OneInv, OpenIsLatest, DbOpen, Standing
  <2> QED BY <2>1, <2>3 DEF Ids
<1> QED BY <1>1, <1>2, <1>3, TypeCorrect, SlotInvAlways, PTL DEF Spec
=============================================================================
