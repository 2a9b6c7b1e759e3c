------------------------- MODULE WalletWatchProofs -------------------------
(***************************************************************************)
(* Machine-checked facts about WalletWatch, for any history, page size and *)
(* number of crashes: what the cursor covers is settled, nothing is        *)
(* announced twice, nothing is lost without a crash, and the whole service *)
(* implements ActivityFeed.                                                *)
(***************************************************************************)
EXTENDS WalletWatch, TLAPS

USE ActivityAssumption, PagingAssumption, BoundAssumption

-----------------------------------------------------------------------------
(* The inductive invariant *)

\* Nothing has to be done about s any more, and no step changes that.
Settled(s) ==
    \/ s \in skipped \cup unread
    \/ s \in known /\ (s \in pending => s \in unswept)

\* Only what has landed is known, and only what is known is announced, once.
Decided ==
    /\ \A s \in known \cup recorded : s <= head
    /\ \A s \in Sig : s \notin known => sent[s] = 0
    /\ \A s \in Sig : sent[s] <= 1

\* Where the signature in the funnel stands.
JobOK ==
    job # None =>
        /\ job.sig <= head
        /\ job.stage = "commit" => job.sig \notin known
        /\ job.stage # "commit" => job.sig \in known /\ sent[job.sig] = 0
        /\ job.stage = "publish" =>
              job.sig \in Activity /\ (job.sig \in pending => job.sig \in unswept)
        /\ Replaying => job.sig = range.pos /\ range.pos <= range.newest

\* The interval of a range: fetched from the newest signature down.
Interval(r) ==
    /\ r.until <= head
    /\ r.newest <= head
    /\ r.lo = 0 <=> r.newest = 0
    /\ r.lo > 0 => r.until < r.lo /\ r.lo <= r.newest
    /\ r.first <=> r.until = 0
    /\ r.complete /\ ~r.first /\ r.lo > 0 => r.lo = r.until + 1

\* The replay of a range: what it passed without a failure is settled.
Progress(r) ==
    /\ r.pos > 0 => r.complete /\ r.lo > 0 /\ r.lo <= r.pos /\ r.pos <= r.newest + 1
    /\ r.pos > 0 /\ r.clean => \A s \in r.lo..(r.pos - 1) : Settled(s)

RangeOK ==
    range # None =>
        /\ Interval(range)
        /\ Progress(range)
        /\ \A s \in 1..range.until : Settled(s)

CursorOK == cursor.at <= head /\ \A s \in 1..cursor.at : Settled(s)

NothingLost ==
    restarts = 0 =>
        \A s \in known \cap Activity : sent[s] = 0 => job # None /\ job.sig = s

IInv == TypeOK /\ Decided /\ JobOK /\ RangeOK /\ CursorOK /\ NothingLost

-----------------------------------------------------------------------------
(* Ranges *)

LEMMA RangeFields ==
  ASSUME NEW r \in Range
  PROVE  /\ r # None
         /\ r.until \in 0..Last /\ r.lo \in 0..Last /\ r.newest \in 0..Last
         /\ r.pos \in 0..(Last + 1)
         /\ r.first \in BOOLEAN /\ r.complete \in BOOLEAN /\ r.clean \in BOOLEAN
         /\ r.baseline \in BOOLEAN
  BY DEF Range, None

\* The range as a replay leaves it at one signature.
Moved(r, p, c) == [r EXCEPT !.pos = p, !.clean = c]

LEMMA MovedRange ==
  ASSUME NEW r \in Range, NEW p \in 0..(Last + 1), NEW c \in BOOLEAN
  PROVE  LET q == Moved(r, p, c)
         IN  /\ q \in Range
             /\ q.pos = p /\ q.clean = c
             /\ q.until = r.until /\ q.lo = r.lo /\ q.newest = r.newest
             /\ q.first = r.first /\ q.complete = r.complete
  BY DEF Range, Moved

\* The range after more pages.
Paged(r, newest, lo, c) == [r EXCEPT !.newest = newest, !.lo = lo, !.complete = c]

LEMMA PagedRange ==
  ASSUME NEW r \in Range, NEW newest \in 0..Last, NEW lo \in 0..Last, NEW c \in BOOLEAN
  PROVE  LET q == Paged(r, newest, lo, c)
         IN  /\ q \in Range
             /\ q.newest = newest /\ q.lo = lo /\ q.complete = c
             /\ q.until = r.until /\ q.first = r.first
             /\ q.pos = r.pos /\ q.clean = r.clean
  BY DEF Range, Paged

LEMMA Pages ==
  ASSUME NEW pages \in Nat
  PROVE  /\ pages * PageSize \in Nat
         /\ pages > 0 => pages * PageSize > 0
  OBVIOUS

LEMMA AdvanceKeeps ==
  ASSUME NEW r \in Range, NEW n \in 0..MaxPages, Interval(r), head \in 0..Last
  PROVE  /\ Advance(r, n) \in Range
         /\ Interval(Advance(r, n))
         /\ Advance(r, n).until = r.until
         /\ Advance(r, n).pos = r.pos
         /\ Advance(r, n).clean = r.clean
<1> DEFINE pages == IF r.first THEN Min2(n, 1) ELSE n
           size == pages * PageSize
           some == Min2(size, Missing(r))
           top == IF r.lo = 0 THEN head ELSE r.lo - 1
           newest == IF r.newest = 0 /\ some > 0 THEN head ELSE r.newest
           lo == IF some = 0 THEN r.lo ELSE (IF r.lo = 0 THEN head + 1 ELSE r.lo) - some
           complete == r.first \/ Missing(r) < size
           q == Paged(r, newest, lo, complete)
<1>1. /\ r.until \in 0..Last /\ r.lo \in 0..Last /\ r.newest \in 0..Last
      /\ r.first \in BOOLEAN
  BY RangeFields
<1>2. pages \in Nat
  BY <1>1 DEF Min2
<1>3. size \in Nat /\ (pages > 0 => size > 0)
  BY <1>2, Pages
<1>4. CASE r.complete \/ pages = 0
  <2>1. Advance(r, n) = r
    BY <1>4 DEF Advance
  <2> QED BY <2>1
<1>5. CASE ~(r.complete \/ pages = 0)
  <2>1. Advance(r, n) = q
    BY <1>5 DEF Advance, Paged
  <2>2. top \in Nat /\ r.until <= top /\ top <= head /\ Missing(r) = top - r.until
    BY <1>1 DEF Interval, Missing
  <2>3. some \in Nat /\ some <= Missing(r) /\ (some = size \/ some = Missing(r))
        /\ (Missing(r) < size => some = Missing(r))
    <3> HIDE DEF size
    <3> QED BY <1>1, <1>3, <2>2 DEF Min2
  <2>4. size > 0
    BY <1>2, <1>3, <1>5
  <2> HIDE DEF pages, size, some, top
  <2>5. newest \in 0..Last /\ lo \in 0..Last /\ complete \in BOOLEAN
    BY <1>1, <2>2, <2>3, <2>4 DEF top, Interval
  <2>6. /\ newest <= head
        /\ lo = 0 <=> newest = 0
        /\ lo > 0 => r.until < lo /\ lo <= newest
    BY <1>1, <2>2, <2>3, <2>4 DEF top, Interval
  <2>7. complete /\ ~r.first /\ lo > 0 => lo = r.until + 1
    BY <1>1, <2>2, <2>3, <2>4 DEF top, Interval
  <2>8. /\ q \in Range
        /\ q.newest = newest /\ q.lo = lo /\ q.complete = complete
        /\ q.until = r.until /\ q.first = r.first
        /\ q.pos = r.pos /\ q.clean = r.clean
    <3> HIDE DEF newest, lo, complete
    <3> QED BY <2>5, PagedRange
  <2> HIDE DEF q, newest, lo, complete
  <2>9. Interval(q)
    BY <2>6, <2>7, <2>8 DEF Interval
  <2> QED BY <2>1, <2>8, <2>9
<1> QED BY <1>4, <1>5

-----------------------------------------------------------------------------
(* The kinds of steps *)

\* A signature enters the funnel, from a notification or from the replayed range.
Enters(s) ==
    /\ job = None
    /\ s <= head
    /\ Replaying => s = range.pos /\ range.pos <= range.newest
    /\ Process(s)
    /\ Idle

LEMMA ReplayEnters ==
  ASSUME TypeOK, RangeOK, Replay
  PROVE  range.pos \in Sig /\ Enters(range.pos)
<1>1. range \in Range /\ range.pos > 0 /\ range.pos <= range.newest
  BY DEF Replay, Replaying, TypeOK
<1>2. range.pos \in 0..(Last + 1) /\ range.newest \in 0..Last
  BY <1>1, RangeFields
<1>3. range.newest <= head /\ head \in 0..Last
  BY <1>1, RangeFields DEF RangeOK, Interval, TypeOK
<1> QED BY <1>1, <1>2, <1>3 DEF Replay, Enters, Sig

LEMMA NotifyEnters ==
  ASSUME NEW s \in Sig, Notify(s)
  PROVE  Enters(s)
  BY DEF Notify, Enters, LoopIsFree

LEMMA Steps ==
  ASSUME TypeOK, RangeOK, [Next]_vars
  PROVE  \/ Lands
         \/ \E s \in Sig : Enters(s)
         \/ Commit \/ CommitFails \/ ClearPending \/ Publish
         \/ \E r \in Ranges(TRUE), n \in 0..MaxPages, writes \in BOOLEAN : Poll(r, n, writes)
         \/ EndReplay
         \/ AddTarget \/ SetEnabled \/ RemoveTarget
         \/ \E works \in BOOLEAN : ReloadTargets(works)
         \/ Restart
         \/ UNCHANGED vars
  BY ReplayEnters, NotifyEnters DEF Next, Funnel, PollOnce, Reload

LEMMA NewRange ==
  ASSUME NEW until \in 0..Last, NEW first \in BOOLEAN, NEW baseline \in BOOLEAN,
         NEW misread \in BOOLEAN
  PROVE  LET r == [kind |-> "range", until |-> until, first |-> first, baseline |-> baseline,
                   misread |-> misread, lo |-> 0, newest |-> 0, complete |-> FALSE,
                   pos |-> 0, clean |-> TRUE]
         IN  /\ r \in Range /\ r.until = until /\ r.lo = 0 /\ r.newest = 0
             /\ r.pos = 0 /\ r.first = first
  BY DEF Range

\* A range that a poll continues or opens.
LEMMA PolledRange ==
  ASSUME TypeOK, RangeOK, CursorOK, ~Replaying, NEW r \in Ranges(TRUE)
  PROVE  /\ r \in Range
         /\ Interval(r)
         /\ r.pos = 0
         /\ \A s \in 1..r.until : Settled(s)
<1>1. CASE range # None
  <2>1. r = range /\ r \in Range
    BY <1>1 DEF Ranges, TypeOK
  <2>2. r.pos = 0
    BY <1>1, <2>1, RangeFields DEF Replaying
  <2> QED BY <1>1, <2>1, <2>2 DEF RangeOK
<1>2. CASE range = None
  <2>1. PICK read \in CursorRead(TRUE) : r = OpenRange(read)
    BY <1>2 DEF Ranges
  <2> DEFINE until == read.at
  <2>2. until \in 0..Last /\ until <= head /\ until \in {cursor.at, 0}
    <3>1. cursor.at \in 0..Last /\ cursor.at <= head /\ head \in 0..Last
      BY DEF TypeOK, CursorOK
    <3>2. read = cursor \/ read \in [row : {cursor.row, FALSE}, at : {cursor.at, 0}]
      BY DEF CursorRead
    <3>3. read.at \in {cursor.at, 0}
      BY <3>2
    <3> QED BY <3>1, <3>3
  <2>3. \A s \in 1..until : Settled(s)
    <3>1. CASE until = cursor.at
      BY <3>1 DEF CursorOK
    <3>2. CASE until = 0
      BY <3>2
    <3> QED BY <2>2, <3>1, <3>2
  <2>4. /\ r \in Range /\ r.until = until /\ r.lo = 0 /\ r.newest = 0
        /\ r.pos = 0 /\ (r.first <=> until = 0)
    <3>1. (until = 0) \in BOOLEAN /\ (~own /\ ~read.row) \in BOOLEAN /\ Misread(read) \in BOOLEAN
      BY DEF Misread
    <3> QED BY <2>1, <2>2, <3>1, NewRange DEF OpenRange
  <2>5. head \in 0..Last
    BY DEF TypeOK
  <2> QED BY <2>2, <2>3, <2>4, <2>5 DEF Interval
<1> QED BY <1>1, <1>2

\* What the cursor may pass: what is settled, and what is noted as passed over.
Passes(sigs) ==
    /\ skipped \subseteq skipped' /\ skipped' \subseteq Sig
    /\ unread \subseteq unread' /\ unread' \subseteq Sig
    /\ \A s \in sigs : Settled(s) \/ s \in skipped' \cup unread'

LEMMA PassOverPasses ==
  ASSUME TypeOK, CursorOK, NEW r, NEW sigs \in SUBSET Sig, PassOver(r, sigs)
  PROVE  Passes(sigs)
<1>1. skipped \subseteq Sig /\ unread \subseteq Sig /\ cursor.at \in 0..Last
  BY DEF TypeOK
<1>2. CASE r.misread
  <2>1. unread' = unread \cup {s \in sigs : s > cursor.at} /\ skipped' = skipped
    BY <1>2 DEF PassOver
  <2>2. ASSUME NEW s \in sigs PROVE Settled(s) \/ s \in unread'
    <3>1. CASE s > cursor.at
      BY <2>1, <3>1
    <3>2. CASE ~(s > cursor.at)
      BY <1>1, <3>2 DEF CursorOK, Sig
    <3> QED BY <3>1, <3>2
  <2> QED BY <1>1, <2>1, <2>2 DEF Passes
<1>3. CASE ~r.misread
  BY <1>1, <1>3 DEF PassOver, Passes
<1> QED BY <1>2, <1>3

\* What a poll may do to the range, the cursor and what is passed over.
PollResult(q) ==
    /\ Interval(q)
    /\ q.pos = 0
    /\ \A s \in 1..q.until : Settled(s)
    /\ \/ range' \in {None, q} /\ UNCHANGED <<cursor, passed>>
       \/ range' = Moved(q, q.lo, TRUE) /\ q.complete /\ q.newest > 0
          /\ UNCHANGED <<cursor, passed>>
       \/ /\ range' = None
          /\ cursor' \in [row : BOOLEAN, at : {q.newest, cursor.at}]
          /\ Passes(1..q.newest)

LEMMA PollEffect ==
  ASSUME TypeOK, RangeOK, CursorOK, NEW r \in Ranges(TRUE), NEW n \in 0..MaxPages,
         NEW writes \in BOOLEAN, Poll(r, n, writes)
  PROVE  \E q \in Range : PollResult(q)
<1>1. ~Replaying /\ head \in 0..Last
  BY DEF Poll, LoopIsFree, TypeOK
<1>2. /\ r \in Range /\ Interval(r) /\ r.pos = 0
      /\ \A s \in 1..r.until : Settled(s)
  BY <1>1, PolledRange
<1> DEFINE q == Advance(r, n)
<1>3. /\ q \in Range /\ Interval(q) /\ q.pos = 0
      /\ q.until = r.until
  BY <1>1, <1>2, AdvanceKeeps
<1>4. \A s \in 1..q.until : Settled(s)
  BY <1>2, <1>3
<1>5. \/ q.complete /\ Baseline(q, writes)
      \/ q.complete /\ StartReplay(q)
      \/ range' = q /\ UNCHANGED <<cursor, passed>>
      \/ Overflow(q, writes)
  BY DEF Poll
<1>6. q.newest \in 0..Last
  BY <1>3, RangeFields
<1> HIDE DEF q
<1> SUFFICES PollResult(q)
  BY <1>3
<1>7. CASE q.complete /\ Baseline(q, writes)
  <2>1. CASE writes
    <3>1. cursor' = [row |-> TRUE, at |-> q.newest] \/ cursor' = [cursor EXCEPT !.row = TRUE]
      BY <1>7, <2>1 DEF Baseline
    <3>2. cursor' \in [row : BOOLEAN, at : {q.newest, cursor.at}]
      <4>1. ASSUME cursor' = [row |-> TRUE, at |-> q.newest]
            PROVE  cursor' \in [row : BOOLEAN, at : {q.newest, cursor.at}]
        BY <4>1
      <4>2. [cursor EXCEPT !.row = TRUE] \in [row : BOOLEAN, at : {q.newest, cursor.at}]
        BY DEF TypeOK
      <4> QED BY <3>1, <4>1, <4>2
    <3>3. Passes(1..q.newest)
      <4>1. PassOver(q, 1..q.newest)
        BY <1>7, <2>1 DEF Baseline
      <4>2. 1..q.newest \in SUBSET Sig
        BY <1>6 DEF Sig
      <4> QED BY <4>1, <4>2, PassOverPasses
    <3> QED BY <1>3, <1>4, <1>7, <2>1, <3>2, <3>3 DEF PollResult, Baseline
  <2>2. CASE ~writes
    BY <1>3, <1>4, <1>7, <2>2 DEF PollResult, Baseline
  <2> QED BY <2>1, <2>2
<1>8. CASE q.complete /\ StartReplay(q)
  <2>1. CASE q.newest = 0
    BY <1>3, <1>4, <1>8, <2>1 DEF StartReplay, PollResult
  <2>2. CASE q.newest # 0
    <3>1. range' = Moved(q, q.lo, TRUE) /\ UNCHANGED <<cursor, passed>>
      BY <1>8, <2>2 DEF StartReplay, Moved
    <3>2. q.newest > 0
      BY <1>6, <2>2
    <3> QED BY <1>3, <1>4, <1>8, <3>1, <3>2 DEF PollResult
  <2> QED BY <2>1, <2>2
<1>9. CASE Overflow(q, writes)
  <2>0. unread' = unread /\ range' = None
    BY <1>9 DEF Overflow
  <2>1. CASE UNCHANGED <<cursor, skipped>>
    BY <1>3, <1>4, <2>0, <2>1 DEF PollResult, passed
  <2>2. CASE SetCursor(q.newest) /\ skipped' = skipped \cup (q.until + 1)..q.newest
    <3>1. q.until \in 0..Last /\ skipped \subseteq Sig /\ unread \subseteq Sig
      BY <1>3, RangeFields DEF TypeOK
    <3>2. ASSUME NEW s \in 1..q.newest PROVE Settled(s) \/ s \in skipped'
      <4>1. CASE s <= q.until
        BY <1>4, <1>6, <3>1, <4>1
      <4>2. CASE s > q.until
        BY <1>6, <2>2, <3>1, <4>2
      <4> QED BY <1>6, <3>1, <4>1, <4>2
    <3>3. Passes(1..q.newest)
      <4>1. (q.until + 1)..q.newest \subseteq Sig
        BY <1>6, <3>1 DEF Sig
      <4> QED BY <2>0, <2>2, <3>1, <3>2, <4>1 DEF Passes
    <3>4. cursor' \in [row : BOOLEAN, at : {q.newest, cursor.at}]
      BY <2>2 DEF SetCursor
    <3> QED BY <1>3, <1>4, <2>0, <3>3, <3>4 DEF PollResult
  <2> QED BY <1>9, <2>1, <2>2 DEF Overflow
<1>10. CASE range' = q /\ UNCHANGED <<cursor, passed>>
  BY <1>3, <1>4, <1>10 DEF PollResult
<1> QED BY <1>5, <1>7, <1>8, <1>9, <1>10

\* What the end of a replay may do to them.
LEMMA EndEffect ==
  ASSUME TypeOK, CursorOK, EndReplay
  PROVE  /\ range \in Range /\ range.pos > range.newest /\ range.pos > 0
         /\ \/ /\ range' = None /\ range.clean
               /\ cursor' = [row |-> TRUE, at |-> range.newest]
               /\ Passes({})
               /\ range.first => Passes(1..(range.lo - 1))
            \/ /\ range' = Moved(range, 0, TRUE)
               /\ UNCHANGED <<cursor, passed>>
<1>1. range \in Range /\ range.pos > range.newest /\ range.pos > 0
  BY DEF EndReplay, TypeOK, Replaying
<1>2. 1..(range.lo - 1) \in SUBSET Sig
  BY <1>1, RangeFields DEF Sig
<1>3. PassOlder => Passes({}) /\ (range.first => Passes(1..(range.lo - 1)))
  <2>1. CASE range.first
    BY <1>2, <2>1, PassOverPasses DEF PassOlder, Passes
  <2>2. CASE ~range.first
    BY <2>2 DEF PassOlder, Passes, passed, TypeOK
  <2> QED BY <2>1, <2>2
<1> QED BY <1>1, <1>3 DEF EndReplay, SetCursor, Moved

\* What an outcome does to the range.
LEMMA OutcomeEffect ==
  ASSUME TypeOK, NEW t \in BOOLEAN, Outcome(t), Replaying => range.pos <= range.newest
  PROVE  /\ job' = None
         /\ range' \in Range \cup {None}
         /\ ~Replaying => range' = range
         /\ Replaying => /\ range \in Range
                         /\ range' = Moved(range, range.pos + 1, range.clean /\ t)
<1>1. CASE ~Replaying
  BY <1>1 DEF Outcome, TypeOK
<1>2. CASE Replaying
  <2>1. range \in Range /\ range.pos <= range.newest
    BY <1>2 DEF Replaying, TypeOK
  <2>2. range.pos + 1 \in 0..(Last + 1) /\ range.clean \in BOOLEAN
    BY <2>1, RangeFields
  <2>3. range' = Moved(range, range.pos + 1, range.clean /\ t) /\ job' = None
    BY <1>2 DEF Outcome, Moved
  <2>4. (range.clean /\ t) \in BOOLEAN
    OBVIOUS
  <2>5. Moved(range, range.pos + 1, range.clean /\ t) \in Range
    BY <2>1, <2>2, <2>4, MovedRange
  <2> QED BY <1>2, <2>1, <2>3, <2>5
<1> QED BY <1>1, <1>2

-----------------------------------------------------------------------------
(* Type correctness *)

LEMMA PollRest ==
  ASSUME TypeOK, NEW r, NEW n, NEW writes \in BOOLEAN, Poll(r, n, writes)
  PROVE  /\ streak' \in 0..SaturationStreak
         /\ row' \in {"absent", "enabled", "disabled"}
         /\ reload' \in BOOLEAN
         /\ UNCHANGED <<own, head, known, recorded, rows, registered, edits, job, restarts, sent>>
         /\ job = None
         /\ ~Replaying
<1> DEFINE q == Advance(r, n)
<1>1. \/ Baseline(q, writes)
      \/ StartReplay(q)
      \/ UNCHANGED <<streak, row, reload>>
      \/ Overflow(q, writes)
  BY DEF Poll
<1> HIDE DEF q
<1>2. /\ streak' \in {streak, 0, UpTo(streak + 1, SaturationStreak)}
      /\ row' \in {row, "disabled"}
      /\ reload' = reload \/ reload' = TRUE
  <2>1. CASE Baseline(q, writes)
    BY <2>1 DEF Baseline
  <2>2. CASE StartReplay(q)
    BY <2>2 DEF StartReplay
  <2>3. CASE Overflow(q, writes)
    BY <2>3 DEF Overflow
  <2>4. CASE UNCHANGED <<streak, row, reload>>
    BY <2>4
  <2> QED BY <1>1, <2>1, <2>2, <2>3, <2>4
<1>3. streak \in 0..SaturationStreak /\ row \in {"absent", "enabled", "disabled"} /\ reload \in BOOLEAN
  BY DEF TypeOK
<1>4. UpTo(streak + 1, SaturationStreak) \in 0..SaturationStreak
  BY <1>3 DEF UpTo, Min2
<1>5. UNCHANGED <<own, head, known, recorded, rows, registered, edits, job, restarts, sent>>
      /\ job = None /\ ~Replaying
  BY DEF Poll, LoopIsFree, chain
<1>6. reload' \in BOOLEAN
  BY <1>2, <1>3
<1> QED BY <1>2, <1>3, <1>4, <1>5, <1>6

LEMMA PollTypeOK ==
  ASSUME IInv, NEW r \in Ranges(TRUE), NEW n \in 0..MaxPages, NEW writes \in BOOLEAN,
         Poll(r, n, writes)
  PROVE  TypeOK'
<1>1. TypeOK /\ RangeOK /\ CursorOK
  BY DEF IInv
<1>2. PICK q \in Range : PollResult(q)
  BY <1>1, PollEffect
<1>3. q.newest \in 0..Last /\ q.until \in 0..Last /\ q.lo \in 0..(Last + 1)
  BY RangeFields
<1>4. Moved(q, q.lo, TRUE) \in Range
  BY <1>3, MovedRange
<1>5. range' \in Range \cup {None}
  BY <1>2, <1>4 DEF PollResult, TypeOK
<1>6. cursor' \in [row : BOOLEAN, at : 0..Last]
  <2>1. cursor.at \in 0..Last /\ cursor \in [row : BOOLEAN, at : 0..Last]
    BY <1>1 DEF TypeOK
  <2>2. cursor' = cursor \/ cursor' \in [row : BOOLEAN, at : {q.newest, cursor.at}]
    BY <1>2 DEF PollResult
  <2> QED BY <1>3, <2>1, <2>2
<1>7. skipped' \in SUBSET Sig /\ unread' \in SUBSET Sig
  <2>1. skipped \in SUBSET Sig /\ unread \in SUBSET Sig
    BY <1>1 DEF TypeOK
  <2> QED BY <1>2, <2>1 DEF PollResult, Passes, passed
<1> QED BY <1>1, <1>5, <1>6, <1>7, PollRest DEF TypeOK, rows

LEMMA EntersTypeOK ==
  ASSUME TypeOK, NEW s \in Sig, Enters(s)
  PROVE  TypeOK'
<1>1. /\ UNCHANGED <<own, head, cursor, row, registered, reload, edits, streak, restarts,
                     passed, known, sent>>
      /\ pending' \in SUBSET Sig /\ unswept' \in SUBSET Sig /\ recorded' \in SUBSET Sig
  BY DEF Enters, Idle, chain, target, Process, AlreadySeen, NotYet, Decoded, MarkPending,
         ClearRow, rows, TypeOK
<1>2. Replaying => range.pos <= range.newest
  BY DEF Enters
<1>3. job' \in Job \cup {None} /\ range' \in Range \cup {None}
  <2>1. CASE Outcome(TRUE) \/ Outcome(FALSE)
    BY <1>2, <2>1, OutcomeEffect
  <2>2. CASE Decoded(s)
    BY <2>2 DEF Decoded, At, Job, TypeOK
  <2> QED BY <2>1, <2>2 DEF Enters, Process, AlreadySeen, NotYet
<1> QED BY <1>1, <1>3 DEF TypeOK, passed

LEMMA FunnelTypeOK ==
  ASSUME TypeOK, JobOK, Commit \/ CommitFails \/ ClearPending \/ Publish
  PROVE  TypeOK'
<1>1. job \in Job /\ job.sig \in Sig
  BY DEF TypeOK, Job, Commit, CommitFails, ClearPending, Publish
<1>2. UNCHANGED <<own, head, cursor, row, registered, reload, edits, streak, restarts,
                  skipped, unread, recorded>>
  BY DEF Commit, CommitFails, ClearPending, Publish, Idle, chain, target, passed
<1>3. known' \in SUBSET Sig /\ pending' \in SUBSET Sig /\ unswept' \in SUBSET Sig
  BY <1>1 DEF Commit, CommitFails, ClearPending, Publish, ClearRow, rows, TypeOK
<1>4. sent' \in [Sig -> 0..2]
  <2>1. sent[job.sig] \in 0..2
    BY <1>1 DEF TypeOK
  <2>2. UpTo(sent[job.sig] + 1, 2) \in 0..2
    BY <2>1 DEF UpTo, Min2
  <2>3. sent' = sent \/ sent' = [sent EXCEPT ![job.sig] = UpTo(@ + 1, 2)]
    BY DEF Commit, CommitFails, ClearPending, Publish
  <2> QED BY <2>2, <2>3 DEF TypeOK
<1>5. job' \in Job \cup {None} /\ range' \in Range \cup {None}
  <2>1. Replaying => range.pos <= range.newest
    BY <1>1 DEF JobOK, Job, None
  <2>2. CASE Outcome(TRUE) \/ Outcome(FALSE)
    BY <2>1, <2>2, OutcomeEffect
  <2>3. CASE range' = range /\ (At(job.sig, "clear") \/ At(job.sig, "publish"))
    BY <1>1, <2>3 DEF At, Job, TypeOK
  <2> QED BY <2>2, <2>3 DEF Commit, CommitFails, ClearPending, Publish
<1> QED BY <1>2, <1>3, <1>4, <1>5 DEF TypeOK

LEMMA CursorType ==
  ASSUME TypeOK
  PROVE  /\ cursor \in [row : BOOLEAN, at : 0..Last]
         /\ [row |-> FALSE, at |-> 0] \in [row : BOOLEAN, at : 0..Last]
         /\ \A s \in 0..Last : [row |-> TRUE, at |-> s] \in [row : BOOLEAN, at : 0..Last]
<1>1. \A s \in 0..Last, b \in BOOLEAN : [row |-> b, at |-> s] \in [row : BOOLEAN, at : 0..Last]
  OBVIOUS
<1>2. 0 \in 0..Last
  OBVIOUS
<1>3. cursor \in [row : BOOLEAN, at : 0..Last]
  BY DEF TypeOK
<1> QED BY <1>1, <1>2, <1>3

LEMMA StepTypeOK ==
  ASSUME IInv, [Next]_vars
  PROVE  TypeOK'
<1>0. TypeOK /\ RangeOK /\ JobOK /\ CursorOK
  BY DEF IInv
<1>1. CASE Lands
  BY <1>0, <1>1 DEF Lands, target, rows, passed, TypeOK
<1>2. CASE EndReplay
  <2>1. /\ range \in Range
        /\ UNCHANGED <<own, head, known, recorded, pending, unswept, row, registered, reload,
                       edits, streak, job, restarts, sent>>
    BY <1>0, <1>2, EndEffect DEF EndReplay, chain, target, rows
  <2>2. range.newest \in 0..Last /\ range.lo \in 0..Last
    BY <2>1, RangeFields
  <2>3. Moved(range, 0, TRUE) \in Range
    <3>1. 0 \in 0..(Last + 1) /\ TRUE \in BOOLEAN
      OBVIOUS
    <3> QED BY <2>1, <3>1, MovedRange
  <2>4. /\ cursor' \in [row : BOOLEAN, at : 0..Last]
        /\ skipped' \in SUBSET Sig /\ unread' \in SUBSET Sig
    <3>1. cursor' = cursor \/ cursor' = [row |-> TRUE, at |-> range.newest]
      BY <1>0, <1>2, EndEffect
    <3>2. skipped' \in SUBSET Sig /\ unread' \in SUBSET Sig
      BY <1>0, <1>2, EndEffect DEF Passes, passed, TypeOK
    <3>3. cursor' \in [row : BOOLEAN, at : 0..Last]
      BY <1>0, <2>2, <3>1, CursorType
    <3> QED BY <3>2, <3>3
  <2>5. range' \in Range \cup {None}
    BY <1>0, <1>2, <2>3, EndEffect
  <2> QED BY <1>0, <2>1, <2>4, <2>5 DEF TypeOK
<1>3. CASE AddTarget \/ SetEnabled \/ RemoveTarget
  <2>1. PICK to \in {"absent", "enabled", "disabled"} : Rows(to)
    BY <1>3 DEF AddTarget, SetEnabled, RemoveTarget
  <2>2. cursor' = cursor \/ cursor' = [row |-> FALSE, at |-> 0]
    BY <1>3 DEF AddTarget, SetEnabled, RemoveTarget
  <2>3. cursor' \in [row : BOOLEAN, at : 0..Last]
    BY <1>0, <2>2, CursorType
  <2>4. edits' \in 0..MaxEdits
    BY <1>0, <2>1 DEF TypeOK, Rows
  <2> QED BY <1>0, <2>1, <2>3, <2>4 DEF TypeOK, Rows, chain, rows, passed
<1>4. ASSUME NEW works \in BOOLEAN, ReloadTargets(works) PROVE TypeOK'
  <2>1. cursor' = cursor \/ cursor' = [row |-> FALSE, at |-> 0]
    BY <1>4 DEF ReloadTargets
  <2>2. cursor' \in [row : BOOLEAN, at : 0..Last]
    BY <1>0, <2>1, CursorType
  <2>3. registered' \in BOOLEAN /\ reload' \in BOOLEAN
    BY <1>4 DEF ReloadTargets
  <2>4. range' \in Range \cup {None} /\ streak' \in 0..SaturationStreak
    BY <1>4 DEF ReloadTargets
  <2> QED BY <1>0, <1>4, <2>2, <2>3, <2>4 DEF TypeOK, ReloadTargets, chain, rows, passed
<1>5. CASE Restart
  <2>1. PICK marked \in AtStart : StartWith(known \cup marked)
    BY <1>5 DEF Restart
  <2>2. marked \subseteq Sig
    BY <1>0 DEF AtStart, TypeOK, Sig
  <2>3. cursor' = cursor \/ cursor' = [row |-> FALSE, at |-> 0]
    BY <2>1 DEF StartWith
  <2>4. cursor' \in [row : BOOLEAN, at : 0..Last]
    BY <1>0, <2>3, CursorType
  <2>5. registered' \in BOOLEAN /\ reload' \in BOOLEAN
    BY <2>1 DEF StartWith
  <2>6. /\ range' \in Range \cup {None} /\ streak' \in 0..SaturationStreak
        /\ job' \in Job \cup {None} /\ restarts' \in 0..MaxRestarts
        /\ known' \in SUBSET Sig /\ recorded' \in SUBSET Sig
    BY <1>0, <2>1, <2>2 DEF TypeOK, StartWith
  <2> QED BY <1>0, <2>1, <2>4, <2>5, <2>6 DEF TypeOK, StartWith, chain, rows, passed
<1>6. CASE UNCHANGED vars
  BY <1>0, <1>6 DEF vars, chain, target, rows, passed, TypeOK
<1> QED
  BY <1>0, <1>1, <1>2, <1>3, <1>4, <1>5, <1>6, Steps, EntersTypeOK, FunnelTypeOK, PollTypeOK

-----------------------------------------------------------------------------
(* What is settled stays settled *)

LEMMA StepSettled ==
  ASSUME IInv, [Next]_vars, NEW s, Settled(s)
  PROVE  Settled(s)'
<1>0. TypeOK /\ RangeOK /\ CursorOK
  BY DEF IInv
<1>1. skipped \subseteq skipped' /\ unread \subseteq unread'
  <2>1. ASSUME NEW r \in Ranges(TRUE), NEW n \in 0..MaxPages, NEW writes \in BOOLEAN,
               Poll(r, n, writes)
        PROVE  skipped \subseteq skipped' /\ unread \subseteq unread'
    BY <1>0, <2>1, PollEffect DEF PollResult, Passes, passed
  <2>2. ASSUME EndReplay PROVE skipped \subseteq skipped' /\ unread \subseteq unread'
    BY <1>0, <2>2, EndEffect DEF Passes, passed
  <2>3. ASSUME ~EndReplay, ~(\E r \in Ranges(TRUE), n \in 0..MaxPages, writes \in BOOLEAN :
                                Poll(r, n, writes))
        PROVE  passed' = passed
    BY <1>0, <2>3, Steps
       DEF Lands, Enters, Commit, CommitFails, ClearPending, Publish, Idle, AddTarget,
           SetEnabled, RemoveTarget, Rows, ReloadTargets, Restart, StartWith, vars
  <2> QED BY <2>1, <2>2, <2>3 DEF passed
<1>2. /\ s \in known /\ (s \in pending => s \in unswept)
      => s \in known' /\ (s \in pending' => s \in unswept')
  <2>1. CASE \E t \in Sig : Enters(t)
    <3>1. PICK t \in Sig : Process(t)
      BY <2>1 DEF Enters
    <3>2. CASE AlreadySeen(t)
      BY <3>2 DEF AlreadySeen, ClearRow
    <3>3. CASE NotYet(t)
      BY <3>3 DEF NotYet, MarkPending, rows
    <3>4. CASE Decoded(t)
      BY <3>4 DEF Decoded, MarkPending
    <3> QED BY <3>1, <3>2, <3>3, <3>4 DEF Process
  <2>2. CASE Commit \/ CommitFails \/ ClearPending \/ Publish
    BY <2>2 DEF Commit, CommitFails, ClearPending, Publish, ClearRow, rows
  <2>3. ASSUME NEW r \in Ranges(TRUE), NEW n \in 0..MaxPages, NEW writes \in BOOLEAN,
               Poll(r, n, writes)
        PROVE  known' = known /\ rows' = rows
    BY <1>0, <2>3, PollRest
  <2>4. CASE Restart
    BY <2>4 DEF Restart, StartWith, rows
  <2>5. CASE /\ ~(\E t \in Sig : Enters(t)) /\ ~Restart
             /\ ~(Commit \/ CommitFails \/ ClearPending \/ Publish)
    BY <1>0, <2>3, <2>5, Steps
       DEF Lands, EndReplay, AddTarget, SetEnabled, RemoveTarget, Rows, ReloadTargets,
           vars, rows
  <2> QED BY <2>1, <2>2, <2>4, <2>5
<1> QED BY <1>1, <1>2 DEF Settled

-----------------------------------------------------------------------------
(* Decided, and the signature in the funnel *)

LEMMA FunnelDecided ==
  ASSUME IInv, Commit \/ CommitFails \/ ClearPending \/ Publish
  PROVE  Decided' /\ JobOK' /\ NothingLost'
<1>0. TypeOK /\ Decided /\ JobOK /\ NothingLost
  BY DEF IInv
<1>1. job \in Job /\ job # None /\ job.sig \in Sig /\ sent \in [Sig -> 0..2]
  BY <1>0 DEF TypeOK, Job, Commit, CommitFails, ClearPending, Publish
<1>2. head' = head /\ restarts' = restarts /\ recorded' = recorded
  BY DEF Commit, CommitFails, ClearPending, Publish, Idle, chain
<1>3. Replaying => range.pos <= range.newest /\ job.sig = range.pos
  BY <1>0, <1>1 DEF JobOK
<1>4. CASE Commit
  <2>1. /\ known' = known \cup {job.sig}
        /\ job' = [kind |-> "job", sig |-> job.sig, stage |-> "clear"]
        /\ UNCHANGED <<range, sent>>
    BY <1>4 DEF Commit, At
  <2>2. job.sig <= head /\ job.sig \notin known /\ sent[job.sig] = 0
    BY <1>0, <1>1, <1>4 DEF Commit, JobOK, Decided
  <2>3. Decided'
    BY <1>0, <1>1, <1>2, <2>1, <2>2 DEF Decided
  <2>4. JobOK'
    BY <1>2, <1>3, <2>1, <2>2 DEF JobOK, Replaying
  <2>5. NothingLost'
    BY <1>0, <1>1, <1>2, <2>1 DEF NothingLost, None
  <2> QED BY <2>3, <2>4, <2>5
<1>5. CASE CommitFails
  <2>1. job' = None
    BY <1>3, <1>5 DEF CommitFails, Outcome
  <2>2. UNCHANGED <<known, sent>> /\ job.sig \notin known
    BY <1>0, <1>1, <1>5 DEF CommitFails, JobOK
  <2> QED BY <1>0, <1>1, <1>2, <2>1, <2>2 DEF Decided, JobOK, NothingLost
<1>6. CASE ClearPending
  <2>1. /\ UNCHANGED <<known, sent>> /\ (job.sig \in pending' => job.sig \in unswept')
        /\ job.sig \in known /\ job.sig <= head /\ sent[job.sig] = 0
    BY <1>0, <1>1, <1>6 DEF ClearPending, ClearRow, JobOK
  <2>2. CASE job.sig \in Activity
    <3>1. job' = [kind |-> "job", sig |-> job.sig, stage |-> "publish"] /\ range' = range
      BY <1>6, <2>2 DEF ClearPending, At
    <3>2. JobOK'
      BY <1>2, <1>3, <2>1, <2>2, <3>1 DEF JobOK, Replaying
    <3>3. NothingLost'
      BY <1>0, <1>1, <1>2, <2>1, <3>1 DEF NothingLost, None
    <3> QED BY <1>0, <1>2, <2>1, <3>2, <3>3 DEF Decided
  <2>3. CASE job.sig \notin Activity
    <3>1. job' = None
      BY <1>6, <2>3 DEF ClearPending, Outcome
    <3> QED BY <1>0, <1>1, <1>2, <2>1, <2>3, <3>1 DEF Decided, JobOK, NothingLost
  <2> QED BY <2>2, <2>3
<1>7. CASE Publish
  <2>1. /\ known' = known /\ job' = None
        /\ sent' = [sent EXCEPT ![job.sig] = UpTo(@ + 1, 2)]
        /\ job.sig \in known /\ job.sig <= head /\ sent[job.sig] = 0
    BY <1>0, <1>1, <1>7 DEF Publish, JobOK, Outcome
  <2>2. sent' = [sent EXCEPT ![job.sig] = 1]
    BY <1>1, <2>1 DEF UpTo, Min2
  <2>3. Decided' /\ JobOK'
    BY <1>0, <1>1, <1>2, <2>1, <2>2 DEF Decided, JobOK
  <2>4. NothingLost'
    BY <1>0, <1>1, <1>2, <2>1, <2>2 DEF NothingLost
  <2> QED BY <2>3, <2>4
<1> QED BY <1>4, <1>5, <1>6, <1>7

LEMMA EntersDecided ==
  ASSUME IInv, NEW s \in Sig, Enters(s)
  PROVE  Decided' /\ JobOK' /\ NothingLost'
<1>0. TypeOK /\ Decided /\ JobOK /\ NothingLost
  BY DEF IInv
<1>1. /\ UNCHANGED <<known, sent, head, restarts>> /\ job = None /\ s <= head
      /\ recorded' \subseteq recorded \cup {s}
  BY DEF Enters, Idle, chain, Process, AlreadySeen, NotYet, Decoded
<1>2. Decided'
  BY <1>0, <1>1 DEF Decided
<1>3. NothingLost'
  BY <1>0, <1>1 DEF NothingLost
<1>4. JobOK'
  <2>1. CASE job' = None
    BY <2>1 DEF JobOK
  <2>2. CASE Decoded(s)
    <3>1. /\ s \notin known /\ range' = range
          /\ job' = [kind |-> "job", sig |-> s, stage |-> "commit"]
      BY <2>2 DEF Decoded, At
    <3>2. Replaying => s = range.pos /\ range.pos <= range.newest
      BY DEF Enters
    <3> QED BY <1>1, <3>1, <3>2 DEF JobOK, Replaying
  <2> QED BY <2>1, <2>2 DEF Enters, Process, AlreadySeen, NotYet, Outcome
<1> QED BY <1>2, <1>3, <1>4

LEMMA StepDecided ==
  ASSUME IInv, [Next]_vars
  PROVE  Decided' /\ JobOK' /\ NothingLost'
<1>0. TypeOK /\ RangeOK /\ CursorOK /\ Decided /\ JobOK /\ NothingLost
  BY DEF IInv
<1> DEFINE Quiet == UNCHANGED <<known, recorded, sent, head, restarts, job>>
<1>1. ASSUME Quiet, job = None \/ UNCHANGED <<rows, range>>
      PROVE  Decided' /\ JobOK' /\ NothingLost'
  BY <1>0, <1>1 DEF Decided, JobOK, NothingLost, Replaying, rows
<1>2. CASE Lands
  <2>1. head \in Nat /\ \A s \in Sig : s \in Nat
    BY <1>0 DEF TypeOK, Sig
  <2>2. /\ head' = head + 1
        /\ UNCHANGED <<known, recorded, pending, unswept, range, job, restarts, sent>>
    BY <1>2 DEF Lands, rows
  <2>3. Decided'
    BY <1>0, <2>1, <2>2 DEF Decided, TypeOK
  <2>4. job # None => job.sig \in Sig
    BY <1>0 DEF TypeOK, Job
  <2>5. JobOK'
    BY <1>0, <2>1, <2>2, <2>4 DEF JobOK, Replaying
  <2> QED BY <1>0, <2>2, <2>3, <2>5 DEF NothingLost
<1>3. ASSUME NEW r \in Ranges(TRUE), NEW n \in 0..MaxPages, NEW writes \in BOOLEAN,
             Poll(r, n, writes)
      PROVE  Quiet /\ job = None
  BY <1>0, <1>3, PollRest
<1>4. CASE EndReplay
  BY <1>1, <1>4 DEF EndReplay, chain
<1>5. CASE AddTarget \/ SetEnabled \/ RemoveTarget
  BY <1>1, <1>5 DEF AddTarget, SetEnabled, RemoveTarget, Rows, chain
<1>6. ASSUME NEW works \in BOOLEAN, ReloadTargets(works) PROVE Quiet /\ job = None
  BY <1>6 DEF ReloadTargets, LoopIsFree, chain
<1>7. CASE Restart
  <2>1. PICK marked \in AtStart : StartWith(known \cup marked)
    BY <1>7 DEF Restart
  <2>2. \A s \in marked : s <= head
    BY <1>0 DEF AtStart, Decided, TypeOK
  <2>3. /\ known' = known \cup marked /\ recorded' \subseteq recorded \cup known \cup marked
        /\ UNCHANGED <<sent, head>> /\ job' = None
        /\ restarts' = restarts + 1 /\ restarts \in Nat
    BY <1>0, <2>1 DEF StartWith, chain, TypeOK
  <2> QED BY <1>0, <2>2, <2>3 DEF Decided, JobOK, NothingLost
<1>8. CASE UNCHANGED vars
  BY <1>1, <1>8 DEF vars, chain
<1> QED
  BY <1>0, <1>1, <1>2, <1>3, <1>4, <1>5, <1>6, <1>7, <1>8, Steps, EntersDecided, FunnelDecided

-----------------------------------------------------------------------------
(* The range and the cursor *)

LEMMA RangeStays ==
  ASSUME IInv, [Next]_vars, range' = range, head' \in {head, head + 1}
  PROVE  RangeOK'
<1>1. CASE range = None
  BY <1>1 DEF RangeOK
<1>2. CASE range # None
  <2>1. range \in Range /\ head \in 0..Last /\ Interval(range) /\ Progress(range)
        /\ \A s \in 1..range.until : Settled(s)
    BY <1>2 DEF IInv, TypeOK, RangeOK
  <2>2. range.until \in 0..Last /\ range.newest \in 0..Last
    BY <2>1, RangeFields
  <2>3. Interval(range)'
    BY <2>1, <2>2 DEF Interval
  <2>4. Progress(range)'
    BY <2>1, StepSettled DEF Progress
  <2>5. \A s \in 1..range'.until : Settled(s)'
    BY <2>1, StepSettled
  <2> QED BY <2>3, <2>4, <2>5 DEF RangeOK
<1> QED BY <1>1, <1>2

\* A range that the replay, or its start, moved.
LEMMA RangeMoves ==
  ASSUME IInv, [Next]_vars, NEW q \in Range, NEW p \in 0..(Last + 1), NEW c \in BOOLEAN,
         Interval(q), \A s \in 1..q.until : Settled(s),
         range' = Moved(q, p, c), head' = head,
         p > 0 => q.complete /\ q.lo > 0 /\ q.lo <= p /\ p <= q.newest + 1,
         p > 0 /\ c => \A s \in q.lo..(p - 1) : Settled(s)'
  PROVE  RangeOK'
<1>1. /\ range' \in Range
      /\ range'.pos = p /\ range'.clean = c
      /\ range'.until = q.until /\ range'.lo = q.lo /\ range'.newest = q.newest
      /\ range'.first = q.first /\ range'.complete = q.complete
  BY MovedRange
<1>2. Interval(range)'
  BY <1>1 DEF Interval
<1>3. Progress(range)'
  BY <1>1 DEF Progress
<1>4. \A s \in 1..range'.until : Settled(s)'
  BY <1>1, StepSettled
<1> QED BY <1>2, <1>3, <1>4 DEF RangeOK

\* A signature leaves the funnel: if that counts as a success, it is settled.
LEMMA RangeSteps ==
  ASSUME IInv, [Next]_vars, NEW t \in BOOLEAN, Outcome(t), head' = head,
         NEW s, Replaying => s = range.pos /\ range.pos <= range.newest,
         t => Settled(s)'
  PROVE  RangeOK'
<1>0. TypeOK /\ RangeOK
  BY DEF IInv
<1>1. CASE ~Replaying
  <2>1. range' = range
    BY <1>0, <1>1, OutcomeEffect
  <2> QED BY <2>1, RangeStays
<1>2. CASE Replaying
  <2>1. range \in Range /\ range' = Moved(range, range.pos + 1, range.clean /\ t)
        /\ range.pos > 0
    BY <1>0, <1>2, OutcomeEffect DEF Replaying
  <2>2. range.pos \in 0..(Last + 1) /\ range.newest \in 0..Last /\ range.lo \in 0..Last
        /\ range.clean \in BOOLEAN
    BY <2>1, RangeFields
  <2>3. range # None /\ Interval(range) /\ Progress(range) /\ \A x \in 1..range.until : Settled(x)
    BY <1>0, <1>2 DEF Replaying, RangeOK
  <2>4. range.pos + 1 \in 0..(Last + 1) /\ (range.clean /\ t) \in BOOLEAN
    BY <1>2, <2>2
  <2>5. range.complete /\ range.lo > 0 /\ range.lo <= range.pos + 1
        /\ range.pos + 1 <= range.newest + 1
    BY <1>2, <2>1, <2>2, <2>3 DEF Progress
  <2>6. ASSUME range.clean, t, NEW x \in range.lo..((range.pos + 1) - 1)
        PROVE  Settled(x)'
    <3>1. CASE x = s
      BY <2>6, <3>1
    <3>2. CASE x # s
      <4>1. x \in range.lo..(range.pos - 1)
        BY <1>2, <2>2, <2>6, <3>2
      <4>2. Settled(x)
        BY <2>1, <2>3, <2>6, <4>1 DEF Progress
      <4> QED BY <4>2, StepSettled
    <3> QED BY <3>1, <3>2
  <2>7. range.clean /\ t => \A x \in range.lo..((range.pos + 1) - 1) : Settled(x)'
    BY <2>6
  <2> DEFINE p == range.pos + 1
             c == range.clean /\ t
  <2>8. /\ p \in 0..(Last + 1) /\ c \in BOOLEAN /\ range' = Moved(range, p, c)
        /\ range.complete /\ range.lo > 0 /\ range.lo <= p /\ p <= range.newest + 1
        /\ c => \A x \in range.lo..(p - 1) : Settled(x)'
    BY <2>1, <2>4, <2>5, <2>7
  <2> HIDE DEF p, c
  <2> QED BY <2>1, <2>3, <2>8, RangeMoves
<1> QED BY <1>1, <1>2

LEMMA FunnelRange ==
  ASSUME IInv, [Next]_vars, Commit \/ CommitFails \/ ClearPending \/ Publish
  PROVE  RangeOK'
<1>0. TypeOK /\ JobOK
  BY DEF IInv
<1>1. job # None /\ head' = head
  BY <1>0 DEF TypeOK, Job, None, Commit, CommitFails, ClearPending, Publish, Idle, chain
<1>2. PICK s : s = job.sig
  OBVIOUS
<1>3. Replaying => s = range.pos /\ range.pos <= range.newest
  BY <1>0, <1>1, <1>2 DEF JobOK
<1>4. CASE range' = range
  BY <1>1, <1>4, RangeStays
<1>5. CASE CommitFails
  BY <1>1, <1>5, <1>3, RangeSteps DEF CommitFails
<1>6. CASE ClearPending /\ Outcome(TRUE)
  <2>1. Settled(s)'
    BY <1>0, <1>1, <1>2, <1>6 DEF ClearPending, ClearRow, JobOK, Settled
  <2> QED BY <1>1, <1>6, <1>3, <2>1, RangeSteps
<1>7. CASE Publish
  <2>1. Settled(s)' /\ Outcome(TRUE)
    BY <1>0, <1>1, <1>2, <1>7 DEF Publish, JobOK, Settled, rows, Idle, passed
  <2> QED BY <1>1, <1>3, <2>1, RangeSteps
<1> QED BY <1>4, <1>5, <1>6, <1>7 DEF Commit, ClearPending

LEMMA EntersRange ==
  ASSUME IInv, [Next]_vars, NEW s \in Sig, Enters(s)
  PROVE  RangeOK'
<1>1. head' = head /\ (Replaying => s = range.pos /\ range.pos <= range.newest)
  BY DEF Enters, Idle, chain
<1>2. CASE AlreadySeen(s)
  <2>1. Settled(s)' /\ Outcome(TRUE)
    BY <1>2 DEF AlreadySeen, ClearRow, Settled
  <2> QED BY <1>1, <2>1, RangeSteps
<1>3. CASE NotYet(s)
  BY <1>1, <1>3, RangeSteps DEF NotYet
<1>4. CASE Decoded(s)
  BY <1>1, <1>4, RangeStays DEF Decoded
<1> QED BY <1>2, <1>3, <1>4 DEF Enters, Process

\* The cursor moves to the newest signature of an interval only if all of it is settled.
LEMMA CursorMoves ==
  ASSUME IInv, [Next]_vars, NEW at \in 0..Last, cursor'.at = at, head' = head, at <= head,
         \A s \in 1..at : Settled(s) \/ s \in skipped' \cup unread'
  PROVE  CursorOK'
  BY StepSettled DEF CursorOK, Settled

LEMMA PollKeeps ==
  ASSUME IInv, [Next]_vars, NEW r \in Ranges(TRUE), NEW n \in 0..MaxPages,
         NEW writes \in BOOLEAN, Poll(r, n, writes)
  PROVE  RangeOK' /\ CursorOK'
<1>0. TypeOK /\ RangeOK /\ CursorOK /\ head' = head
  BY PollRest DEF IInv
<1>1. PICK q \in Range : PollResult(q)
  BY <1>0, PollEffect
<1>2. q.newest \in 0..Last /\ q.until \in 0..Last /\ q.lo \in 0..Last
  BY RangeFields
<1>3. cursor.at \in 0..Last
  BY <1>0 DEF TypeOK
<1>4. /\ Interval(q) /\ q.pos = 0
      /\ \A s \in 1..q.until : Settled(s)
  BY <1>1 DEF PollResult
<1>5. CASE range' \in {None, q} /\ UNCHANGED <<cursor, passed>>
  <2>1. CursorOK'
    BY <1>0, <1>3, <1>5, CursorMoves DEF CursorOK
  <2>2. CASE range' = None
    BY <2>1, <2>2 DEF RangeOK
  <2>3. CASE range' = q
    <3>1. Interval(range)' /\ Progress(range)'
      BY <1>0, <1>4, <2>3 DEF Interval, Progress
    <3>2. \A s \in 1..range'.until : Settled(s)'
      BY <1>4, <2>3, StepSettled
    <3> QED BY <2>1, <3>1, <3>2 DEF RangeOK
  <2> QED BY <1>5, <2>2, <2>3
<1>6. CASE range' = Moved(q, q.lo, TRUE) /\ q.complete /\ q.newest > 0
           /\ UNCHANGED <<cursor, passed>>
  <2>1. CursorOK'
    BY <1>0, <1>3, <1>6, CursorMoves DEF CursorOK
  <2>2. q.lo > 0 /\ q.lo <= q.newest
    BY <1>2, <1>4, <1>6 DEF Interval
  <2>3. q.lo \in 0..(Last + 1) /\ TRUE \in BOOLEAN /\ q.lo <= q.newest + 1
    BY <1>2, <2>2
  <2>4. \A s \in q.lo..(q.lo - 1) : Settled(s)'
    BY <1>2
  <2>5. RangeOK'
    <3> DEFINE p == q.lo
    <3>1. /\ p \in 0..(Last + 1) /\ range' = Moved(q, p, TRUE)
          /\ q.complete /\ q.lo > 0 /\ q.lo <= p /\ p <= q.newest + 1
          /\ \A s \in q.lo..(p - 1) : Settled(s)'
      BY <1>2, <1>6, <2>2, <2>3, <2>4
    <3> HIDE DEF p
    <3> QED BY <1>0, <1>4, <2>3, <3>1, RangeMoves
  <2> QED BY <2>1, <2>5
<1>7. CASE /\ range' = None
           /\ cursor' \in [row : BOOLEAN, at : {q.newest, cursor.at}]
           /\ Passes(1..q.newest)
  <2>1. RangeOK'
    BY <1>7 DEF RangeOK
  <2>2. cursor'.at \in {q.newest, cursor.at}
    BY <1>7
  <2>3. CASE cursor'.at = cursor.at
    BY <1>0, <1>3, <2>1, <2>3, CursorMoves DEF CursorOK
  <2>4. CASE cursor'.at = q.newest
    <3>1. \A s \in 1..q.newest : Settled(s) \/ s \in skipped' \cup unread'
      BY <1>7 DEF Passes
    <3>2. q.newest <= head
      BY <1>4 DEF Interval
    <3> QED BY <1>0, <1>2, <2>1, <2>4, <3>1, <3>2, CursorMoves
  <2> QED BY <2>2, <2>3, <2>4
<1> QED BY <1>1, <1>5, <1>6, <1>7 DEF PollResult

LEMMA EndKeeps ==
  ASSUME IInv, [Next]_vars, EndReplay
  PROVE  RangeOK' /\ CursorOK'
<1>0. TypeOK /\ RangeOK /\ CursorOK /\ head' = head
  BY DEF IInv, EndReplay, chain
<1>1. range \in Range /\ range # None /\ range.pos > range.newest /\ range.pos > 0
  BY <1>0, EndEffect, RangeFields
<1>2. range.newest \in 0..Last /\ range.until \in 0..Last /\ range.lo \in 0..Last
      /\ range.pos \in 0..(Last + 1)
  BY <1>1, RangeFields
<1>3. Interval(range) /\ Progress(range) /\ \A s \in 1..range.until : Settled(s)
  BY <1>0, <1>1 DEF RangeOK
<1>4. CASE /\ range' = None /\ range.clean
           /\ cursor' = [row |-> TRUE, at |-> range.newest]
           /\ range.first => Passes(1..(range.lo - 1))
  <2>1. RangeOK'
    BY <1>4 DEF RangeOK
  <2>2. range.complete /\ range.lo > 0 /\ range.pos = range.newest + 1
        /\ \A s \in range.lo..range.newest : Settled(s)
    BY <1>1, <1>2, <1>3, <1>4 DEF Progress
  <2>3. ASSUME NEW s \in 1..range.newest PROVE Settled(s) \/ s \in skipped' \cup unread'
    <3>1. CASE s >= range.lo
      BY <1>2, <2>2, <3>1
    <3>2. CASE s < range.lo /\ range.first
      BY <1>2, <1>4, <3>2 DEF Passes
    <3>3. CASE s < range.lo /\ ~range.first
      BY <1>2, <1>3, <2>2, <3>3 DEF Interval
    <3> QED BY <1>2, <3>1, <3>2, <3>3
  <2>4. cursor'.at = range.newest /\ range.newest <= head
    BY <1>3, <1>4 DEF Interval
  <2> QED BY <1>0, <1>2, <2>1, <2>3, <2>4, CursorMoves
<1>5. CASE range' = Moved(range, 0, TRUE) /\ UNCHANGED <<cursor, passed>>
  <2>1. CursorOK'
    BY <1>0, <1>5, CursorMoves DEF CursorOK, TypeOK
  <2>2. 0 \in 0..(Last + 1) /\ TRUE \in BOOLEAN /\ ~(0 > 0)
    OBVIOUS
  <2>3. RangeOK'
    BY <1>0, <1>1, <1>3, <1>5, <2>2, RangeMoves
  <2> QED BY <2>1, <2>3
<1> QED BY <1>0, <1>4, <1>5, EndEffect

LEMMA StepCovers ==
  ASSUME IInv, [Next]_vars
  PROVE  RangeOK' /\ CursorOK'
<1>0. TypeOK /\ RangeOK /\ CursorOK
  BY DEF IInv
<1>1. cursor.at \in 0..Last /\ head \in 0..Last
  BY <1>0 DEF TypeOK
<1>2. ASSUME cursor' = cursor \/ cursor'.at = 0, head' = head PROVE CursorOK'
  <2>1. CASE cursor' = cursor
    BY <1>0, <1>1, <1>2, <2>1, CursorMoves DEF CursorOK
  <2>2. CASE cursor'.at = 0
    BY <1>1, <1>2, <2>2 DEF CursorOK
  <2> QED BY <1>2, <2>1, <2>2
<1>3. CASE Lands
  <2>1. RangeOK'
    BY <1>3, RangeStays DEF Lands
  <2>2. \A s : Settled(s) => Settled(s)'
    BY StepSettled
  <2> QED BY <1>0, <1>1, <1>3, <2>1, <2>2 DEF Lands, CursorOK
<1>4. ASSUME NEW s \in Sig, Enters(s) PROVE RangeOK' /\ CursorOK'
  BY <1>2, <1>4, EntersRange DEF Enters, Idle, chain
<1>5. CASE Commit \/ CommitFails \/ ClearPending \/ Publish
  BY <1>2, <1>5, FunnelRange DEF Commit, CommitFails, ClearPending, Publish, Idle, chain
<1>6. CASE AddTarget \/ SetEnabled \/ RemoveTarget
  <2>1. head' = head /\ range' = range /\ (cursor' = cursor \/ cursor'.at = 0)
    BY <1>6 DEF AddTarget, SetEnabled, RemoveTarget, Rows, chain
  <2> QED BY <1>2, <2>1, RangeStays
<1>7. ASSUME NEW works \in BOOLEAN, ReloadTargets(works) PROVE RangeOK' /\ CursorOK'
  <2>1. head' = head /\ range' = None /\ (cursor' = cursor \/ cursor'.at = 0)
    BY <1>7 DEF ReloadTargets, chain
  <2> QED BY <1>2, <2>1 DEF RangeOK
<1>8. CASE Restart
  <2>1. head' = head /\ range' = None /\ (cursor' = cursor \/ cursor'.at = 0)
    BY <1>8 DEF Restart, StartWith, chain
  <2> QED BY <1>2, <2>1 DEF RangeOK
<1>9. CASE UNCHANGED vars
  BY <1>2, <1>9, RangeStays DEF vars, chain
<1> QED BY <1>0, <1>3, <1>4, <1>5, <1>6, <1>7, <1>8, <1>9, Steps, PollKeeps, EndKeeps

-----------------------------------------------------------------------------
(* The theorems on the cursor, the pending rows and what is lost *)

LEMMA InitIInv ==
  ASSUME Init
  PROVE  IInv
<1>1. TypeOK
  <2>1. cursor \in [row : BOOLEAN, at : 0..Last]
    BY DEF Init
  <2>2. registered \in BOOLEAN /\ row \in {"absent", "enabled", "disabled"}
    BY DEF Init
  <2>3. sent \in [Sig -> 0..2]
    BY DEF Init
  <2>4. /\ 0 \in 0..Last /\ 0 \in 0..SaturationStreak /\ 0 \in 0..MaxRestarts
        /\ 0 \in 0..MaxEdits
    OBVIOUS
  <2>5. /\ own \in BOOLEAN /\ reload \in BOOLEAN /\ head \in 0..Last
        /\ known \in SUBSET Sig /\ recorded \in SUBSET Sig /\ pending \in SUBSET Sig
        /\ skipped \in SUBSET Sig /\ unread \in SUBSET Sig /\ unswept \in SUBSET Sig
        /\ streak \in 0..SaturationStreak /\ restarts \in 0..MaxRestarts /\ edits \in 0..MaxEdits
        /\ range \in Range \cup {None} /\ job \in Job \cup {None}
    BY <2>4 DEF Init
  <2> QED BY <2>1, <2>2, <2>3, <2>5 DEF TypeOK
<1>2. Decided /\ JobOK /\ RangeOK /\ CursorOK /\ NothingLost
  BY DEF Init, Decided, JobOK, RangeOK, CursorOK, NothingLost, None
<1> QED BY <1>1, <1>2 DEF IInv

LEMMA StepIInv ==
  ASSUME IInv, [Next]_vars
  PROVE  IInv'
  BY StepTypeOK, StepDecided, StepCovers DEF IInv

LEMMA Inductive == Spec => []IInv
<1>1. Init => IInv
  BY InitIInv
<1>2. IInv /\ [Next]_vars => IInv'
  BY StepIInv
<1> QED BY <1>1, <1>2, PTL DEF Spec

\* Every reachable state of the watch is well typed.
THEOREM TypeCorrect == Spec => []TypeOK
<1>1. IInv => TypeOK
  BY DEF IInv
<1> QED BY <1>1, Inductive, PTL

\* The durable cursor passes a signature that is neither decided nor skipped by name
\* only when it could not be read, whatever errors, crashes and edits interleave.
THEOREM CursorCovers == Spec => []CursorCoversHistory
<1>1. IInv => CursorCoversHistory
  BY DEF IInv, CursorOK, Settled, CursorCoversHistory
<1> QED BY <1>1, Inductive, PTL

\* A pending row behind the cursor is one that could not be deleted, or belongs to a
\* signature that the cursor passed over; a crash leaves none (process_signature).
THEOREM PendingReconciles == Spec => []PendingIsReconciled
<1>1. IInv => PendingIsReconciled
  <2> SUFFICES ASSUME IInv, NEW s \in pending, s <= cursor.at
               PROVE  s \in unswept \cup skipped \cup unread
    BY DEF PendingIsReconciled
  <2>1. s \in Sig /\ cursor.at \in 0..Last
    BY DEF IInv, TypeOK
  <2>2. s \in 1..cursor.at
    BY <2>1 DEF Sig
  <2> QED BY <2>2 DEF IInv, CursorOK, Settled
<1> QED BY <1>1, Inductive, PTL

-----------------------------------------------------------------------------
(* The watch implements ActivityFeed *)

\* The statuses that a state of the watch can show.
LEMMA StatusOf ==
  ASSUME TypeOK, Decided, NEW s \in Sig
  PROVE  /\ s > head => Status(s) = "future" /\ s \notin known /\ sent[s] = 0
         /\ s <= head /\ sent[s] = 1 => Status(s) = "announced"
         /\ s <= head /\ sent[s] = 0 /\ s \in known /\ ~OnItsWay(s) => Status(s) = "dropped"
         /\ s <= head /\ sent[s] = 0 /\ (s \notin known \/ OnItsWay(s)) => Status(s) = "landed"
         /\ sent[s] \in {0, 1} /\ (s > head \/ s <= head)
<1>1. head \in 0..Last /\ s \in 1..Last /\ sent[s] \in 0..2 /\ sent[s] <= 1
  BY DEF TypeOK, Decided, Sig
<1>2. s \in known => s <= head
  BY DEF Decided
<1>3. s \notin known => sent[s] = 0
  BY DEF Decided
<1> QED BY <1>1, <1>2, <1>3 DEF Status

\* The same, of the next state.
LEMMA NextStatusOf ==
  ASSUME TypeOK', Decided', NEW s \in Sig
  PROVE  /\ s > head' => Status(s)' = "future"
         /\ s <= head' /\ sent'[s] = 1 => Status(s)' = "announced"
         /\ s <= head' /\ sent'[s] = 0 /\ s \in known' /\ ~OnItsWay(s)' => Status(s)' = "dropped"
         /\ s <= head' /\ sent'[s] = 0 /\ (s \notin known' \/ OnItsWay(s)') => Status(s)' = "landed"
<1>1. head' \in 0..Last /\ s \in 1..Last /\ sent'[s] \in 0..2 /\ sent'[s] <= 1
  BY DEF TypeOK, Decided, Sig
<1>2. s \in known' => s <= head'
  BY DEF Decided
<1>3. s \notin known' => sent'[s] = 0
  BY DEF Decided
<1> QED BY <1>1, <1>2, <1>3 DEF Status

\* Without a crash no activity is dropped (process_signature: commit, then broadcast).
THEOREM OnlyCrashesLose == Spec => []LostOnlyByCrash
<1>1. IInv => LostOnlyByCrash
  <2> SUFFICES ASSUME IInv, restarts = 0, NEW s \in Activity PROVE Status(s) # "dropped"
    BY DEF LostOnlyByCrash
  <2>1. TypeOK /\ Decided /\ NothingLost /\ s \in Sig
    BY DEF IInv
  <2>2. s \in known /\ sent[s] = 0 => OnItsWay(s)
    BY <2>1 DEF NothingLost, OnItsWay
  <2> QED BY <2>1, <2>2, StatusOf
<1> QED BY <1>1, Inductive, PTL

LEMMA Becomes ==
  ASSUME NEW s \in Sig, NEW from, NEW to, Status(s) = from, Status(s)' = to,
         \A t \in Sig \ {s} : Status(t)' = Status(t)
  PROVE  Feed!Become(s, from, to)
  BY DEF Feed!Become

LEMMA Drops ==
  ASSUME NEW s \in Sig, Status(s) = "landed", Status(s)' = "dropped",
         \A t \in Sig \ {s} : Status(t)' = Status(t)
  PROVE  Feed!Drop({s})
  BY DEF Feed!Drop

LEMMA Stutters ==
  ASSUME \A t \in Sig : Status(t)' = Status(t)
  PROVE  UNCHANGED Feed!vars
  BY DEF Feed!vars

LEMMA SameStatus ==
  ASSUME UNCHANGED <<head, known, sent>>, NEW t \in Sig, OnItsWay(t)' = OnItsWay(t)
  PROVE  Status(t)' = Status(t)
  BY DEF Status

LEMMA StepFeed ==
  ASSUME IInv, [Next]_vars
  PROVE  [Feed!Next]_(Feed!vars)
<1>0. /\ TypeOK /\ RangeOK /\ CursorOK /\ Decided /\ JobOK
      /\ TypeOK' /\ Decided'
  BY StepIInv DEF IInv
<1>1. head \in 0..Last /\ \A t \in Sig : t \in Nat
  BY <1>0 DEF TypeOK, Sig
<1>2. ASSUME UNCHANGED <<head, known, sent>>, \A t \in Sig : OnItsWay(t)' = OnItsWay(t)
      PROVE  UNCHANGED Feed!vars
  BY <1>2, SameStatus, Stutters
<1>3. CASE Lands
  <2>1. PICK s \in Sig : s = head + 1 /\ head' = s /\ UNCHANGED <<known, sent, job>>
    BY <1>0, <1>1, <1>3 DEF Lands, Sig
  <2>2. Status(s) = "future" /\ s \notin known /\ sent[s] = 0
    BY <1>0, <1>1, <2>1, StatusOf
  <2>3. Status(s)' = "landed"
    BY <1>0, <1>1, <2>1, <2>2, NextStatusOf
  <2>4. ASSUME NEW t \in Sig \ {s} PROVE Status(t)' = Status(t)
    <3>1. (OnItsWay(t)' <=> OnItsWay(t)) /\ sent'[t] = sent[t] /\ (t \in known' <=> t \in known)
      BY <2>1 DEF OnItsWay
    <3>2. (t > head' <=> t > head) /\ (t <= head' <=> t <= head)
      BY <1>1, <2>1, <2>4
    <3>3. CASE t > head
      BY <1>0, <3>2, <3>3, StatusOf, NextStatusOf
    <3>4. CASE t <= head /\ sent[t] = 1
      BY <1>0, <3>1, <3>2, <3>4, StatusOf, NextStatusOf
    <3>5. CASE t <= head /\ sent[t] = 0 /\ t \in known /\ ~OnItsWay(t)
      BY <1>0, <3>1, <3>2, <3>5, StatusOf, NextStatusOf
    <3>6. CASE t <= head /\ sent[t] = 0 /\ (t \notin known \/ OnItsWay(t))
      BY <1>0, <3>1, <3>2, <3>6, StatusOf, NextStatusOf
    <3> QED BY <1>0, <3>3, <3>4, <3>5, <3>6, StatusOf
  <2> QED BY <2>1, <2>2, <2>3, <2>4, Becomes DEF Feed!Next, Feed!Land
<1>4. CASE Commit \/ ClearPending \/ Publish \/ CommitFails
  <2>1. /\ job \in Job /\ job # None /\ job.sig \in Sig /\ job.sig <= head
        /\ head' = head /\ sent[job.sig] = 0
    BY <1>0, <1>4 DEF TypeOK, Job, None, Commit, ClearPending, Publish, CommitFails, JobOK,
                      Idle, chain, Decided
  <2>2. PICK s \in Sig : s = job.sig
    BY <2>1
  <2>3. \A t \in Sig \ {s} : ~OnItsWay(t)
    BY <2>2 DEF OnItsWay
  <2>4. job' # None => job'.sig = s
    BY <1>4, <2>2 DEF Commit, ClearPending, Publish, CommitFails, At, Outcome
  <2>5. \A t \in Sig \ {s} : ~OnItsWay(t)'
    BY <2>4 DEF OnItsWay
  <2>6. CASE Commit
    <3>1. /\ known' = known \cup {s} /\ s \notin known /\ sent' = sent
          /\ job' # None /\ job'.sig = s
      BY <1>0, <2>1, <2>2, <2>6 DEF Commit, At, JobOK, None
    <3>2. Status(s) = "landed"
      BY <1>0, <2>1, <2>2, <3>1, StatusOf
    <3>3. \A t \in Sig \ {s} : Status(t)' = Status(t)
      BY <2>1, <2>3, <2>5, <3>1 DEF Status
    <3>4. CASE s \in Activity
      <4>1. OnItsWay(s)'
        BY <3>1, <3>4 DEF OnItsWay
      <4>2. Status(s)' = "landed"
        BY <1>0, <2>1, <2>2, <3>1, <4>1, NextStatusOf
      <4> QED BY <3>2, <3>3, <4>2, Stutters
    <3>5. CASE s \notin Activity
      <4>1. ~OnItsWay(s)'
        BY <3>1, <3>5 DEF OnItsWay
      <4>2. Status(s)' = "dropped"
        BY <1>0, <2>1, <2>2, <3>1, <4>1, NextStatusOf
      <4> QED BY <3>2, <3>3, <4>2, Drops DEF Feed!Next
    <3> QED BY <3>4, <3>5
  <2>7. CASE CommitFails
    <3>1. s \notin known /\ UNCHANGED <<known, sent>>
      BY <1>0, <2>1, <2>2, <2>7 DEF CommitFails, JobOK
    <3>2. Status(s) = "landed" /\ Status(s)' = "landed"
      BY <1>0, <2>1, <2>2, <3>1, StatusOf, NextStatusOf
    <3>3. \A t \in Sig \ {s} : Status(t)' = Status(t)
      BY <2>1, <2>3, <2>5, <3>1 DEF Status
    <3> QED BY <3>2, <3>3, Stutters
  <2>8. CASE ClearPending
    <3>1. UNCHANGED <<known, sent>>
      BY <2>8 DEF ClearPending
    <3>2. OnItsWay(s)' = OnItsWay(s)
      <4>1. CASE s \in Activity
        BY <2>1, <2>2, <2>8, <4>1 DEF ClearPending, At, OnItsWay, None
      <4>2. CASE s \notin Activity
        BY <4>2 DEF OnItsWay
      <4> QED BY <4>1, <4>2
    <3>3. \A t \in Sig : Status(t)' = Status(t)
      <4>1. Status(s)' = Status(s)
        BY <2>1, <3>1, <3>2, SameStatus
      <4>2. \A t \in Sig \ {s} : Status(t)' = Status(t)
        BY <2>1, <2>3, <2>5, <3>1 DEF Status
      <4> QED BY <4>1, <4>2
    <3> QED BY <3>3, Stutters
  <2>9. CASE Publish
    <3>1. /\ s \in known /\ s \in Activity /\ UNCHANGED known
          /\ sent' = [sent EXCEPT ![s] = UpTo(@ + 1, 2)]
      BY <1>0, <2>1, <2>2, <2>9 DEF Publish, JobOK
    <3>2. sent'[s] = 1 /\ \A t \in Sig \ {s} : sent'[t] = sent[t]
      BY <1>0, <2>1, <2>2, <3>1 DEF TypeOK, UpTo, Min2
    <3>3. OnItsWay(s)
      BY <2>1, <2>2, <3>1 DEF OnItsWay
    <3>4. Status(s) = "landed" /\ Status(s)' = "announced"
      BY <1>0, <2>1, <2>2, <3>2, <3>3, StatusOf, NextStatusOf
    <3>5. \A t \in Sig \ {s} : Status(t)' = Status(t)
      BY <2>1, <2>3, <2>5, <3>1, <3>2 DEF Status
    <3> QED BY <3>1, <3>4, <3>5, Becomes DEF Feed!Next, Feed!Announce
  <2> QED BY <1>4, <2>6, <2>7, <2>8, <2>9
<1>5. ASSUME NEW s \in Sig, Enters(s) PROVE UNCHANGED Feed!vars
  <2>1. UNCHANGED <<head, known, sent>> /\ job = None
    BY <1>5 DEF Enters, Idle, chain, Process, AlreadySeen, NotYet, Decoded
  <2>2. job' = None \/ (job'.sig = s /\ s \notin known)
    BY <1>5 DEF Enters, Process, AlreadySeen, NotYet, Decoded, Outcome, At
  <2>3. CASE job' = None
    BY <1>2, <2>1, <2>3 DEF OnItsWay
  <2>4. CASE job'.sig = s /\ s \notin known
    <3>1. \A t \in Sig \ {s} : OnItsWay(t)' = OnItsWay(t)
      BY <2>1, <2>4 DEF OnItsWay
    <3>2. \A t \in Sig \ {s} : Status(t)' = Status(t)
      BY <2>1, <3>1, SameStatus
    <3>3. sent[s] = 0 /\ s <= head
      BY <1>0, <1>5, <2>4 DEF Decided, Enters
    <3>4. Status(s) = "landed" /\ Status(s)' = "landed"
      BY <1>0, <2>1, <2>4, <3>3, StatusOf, NextStatusOf
    <3> QED BY <3>2, <3>4, Stutters
  <2> QED BY <2>2, <2>3, <2>4
<1>6. CASE Restart
  <2>1. /\ UNCHANGED <<head, sent>> /\ job' = None /\ known \subseteq known'
    BY <1>6 DEF Restart, StartWith, chain
  <2>2. \A t \in Sig : ~OnItsWay(t)'
    BY <2>1 DEF OnItsWay
  <2> DEFINE given == {t \in Sig : Status(t) = "landed" /\ t \in known'}
  <2>3. ASSUME NEW t \in given PROVE Status(t)' = "dropped"
    <3>1. t <= head /\ sent[t] = 0
      BY <1>0, <1>1, StatusOf
    <3> QED BY <1>0, <2>1, <2>2, <3>1, NextStatusOf
  <2>4. ASSUME NEW t \in Sig \ given PROVE Status(t)' = Status(t)
    <3>1. CASE Status(t) = "landed"
      <4>1. t <= head /\ sent[t] = 0 /\ t \notin known'
        BY <1>0, <1>1, <3>1, StatusOf
      <4> QED BY <1>0, <2>1, <3>1, <4>1, NextStatusOf
    <3>2. CASE Status(t) # "landed"
      <4>1. t > head \/ (t <= head /\ sent[t] = 1) \/ (t <= head /\ sent[t] = 0 /\ t \in known)
        BY <1>0, <3>2, StatusOf
      <4>2. CASE t > head
        BY <1>0, <2>1, <4>2, StatusOf, NextStatusOf
      <4>3. CASE t <= head /\ sent[t] = 1
        BY <1>0, <2>1, <4>3, StatusOf, NextStatusOf
      <4>4. CASE t <= head /\ sent[t] = 0 /\ t \in known
        BY <1>0, <2>1, <2>2, <3>2, <4>4, StatusOf, NextStatusOf
      <4> QED BY <4>1, <4>2, <4>3, <4>4
    <3> QED BY <3>1, <3>2
  <2>5. Feed!Drop(given)
    BY <2>3, <2>4 DEF Feed!Drop
  <2>6. given \in SUBSET Sig
    OBVIOUS
  <2> QED BY <2>5, <2>6 DEF Feed!Next
<1>7. ASSUME UNCHANGED <<head, known, sent, job>> PROVE UNCHANGED Feed!vars
  BY <1>2, <1>7 DEF OnItsWay
<1>8. ASSUME NEW r \in Ranges(TRUE), NEW n \in 0..MaxPages, NEW writes \in BOOLEAN,
             Poll(r, n, writes)
      PROVE  UNCHANGED <<head, known, sent, job>>
  BY <1>0, <1>8, PollRest
<1>9. CASE EndReplay \/ AddTarget \/ SetEnabled \/ RemoveTarget
           \/ (\E works \in BOOLEAN : ReloadTargets(works)) \/ UNCHANGED vars
  BY <1>7, <1>9
     DEF EndReplay, AddTarget, SetEnabled, RemoveTarget, Rows, ReloadTargets, vars, chain
<1> QED BY <1>0, <1>3, <1>4, <1>5, <1>6, <1>7, <1>8, <1>9, Steps

\* Notifications, retries, replays, crashes and edits of the targets together do what
\* ActivityFeed allows: no transaction is announced twice, or after it was dropped.
THEOREM ImplementsFeed == Spec => FeedSpec
<1>1. Init => Feed!Init
  BY DEF Init, Feed!Init, Status, Sig
<1>2. IInv /\ [Next]_vars => [Feed!Next]_(Feed!vars)
  BY StepFeed
<1> QED BY <1>1, <1>2, Inductive, PTL DEF Spec, FeedSpec, Feed!Spec
=============================================================================
