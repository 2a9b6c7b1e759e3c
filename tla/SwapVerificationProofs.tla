------------------------ MODULE SwapVerificationProofs ------------------------
(***************************************************************************)
(* Machine-checked facts about SwapVerification, for any number of         *)
(* callers, swaps, tokens, attempts and crashes.                           *)
(***************************************************************************)
EXTENDS SwapVerification, FiniteSetTheorems, TLAPS

USE VerificationAssumption

-----------------------------------------------------------------------------
(* Types *)

Stages == {"cycle", "gc", "batch", "persist", "record", "clear", "store", "settle", "unstamp"}
Resting == {"cycle", "gc", "batch"}
Transition == {"partial", "residual", "partial_again", "residual_again", "exit", "dca",
               "retry_clear", "synthetic", "abandoned", "expired"}

WorkerT == [at : Stages, batch : SUBSET Item, item : Item \cup {None},
            doing : Transition \cup {None}, snap : SUBSET Sigs]
CallT == [at : {"idle", "swap", "register", "persist", "stamp", "submitted"},
          op : Ops \cup {None}, lots : Nat, sig : Sigs \cup {None}, snap : SUBSET Sigs]

\* What the worker holds while it is busy, and where each transition writes.
WorkerOK ==
    /\ wrk \in WorkerT
    /\ wrk.at \notin Resting => wrk.item \in Item /\ wrk.doing \in Transition
    /\ wrk.at \in Resting => wrk.doing = None
    /\ wrk.at = "persist" =>
          wrk.doing \in {"partial", "residual", "exit", "dca", "retry_clear", "synthetic",
                         "abandoned"}
    /\ wrk.at \in {"cycle", "gc"} \/ wrk.doing = "expired" => wrk.batch = {}

CallsOK ==
    /\ call \in [Callers -> CallT]
    /\ \A c \in Callers :
          /\ call[c].at # "idle" => call[c].op \in Ops
          /\ call[c].at \notin {"idle", "swap"} => call[c].sig \in Sigs
          /\ call[c].at \in {"register", "persist"} => call[c].op \in Kinds

\* Signatures are handed out in turn.
ChainOK ==
    /\ swap \in [Sigs -> [op : Ops \cup {None}, lots : Nat]]
    /\ chain \in [Sigs -> {"unused", "sent", "landed", "failed", "lost"}]
    /\ wallet \in Nat
    /\ \E n \in 0 .. MaxSwaps : Used = 1 .. n
    /\ \A s \in Used : swap[s].op \in Ops

RegistryOK ==
    /\ pending \in [Kinds -> SUBSET Sigs] /\ metadata \in [Kinds -> SUBSET Sigs]
    /\ partials \in Nat

RestOK ==
    /\ mem \in Position /\ db \in Position /\ records \subseteq Sigs /\ queue \subseteq Item
    /\ lock \in Callers \cup {None} /\ boots \in 0 .. MaxBoots /\ registered \subseteq Sigs

Types == ChainOK /\ RegistryOK /\ RestOK /\ WorkerOK /\ CallsOK

LEMMA TypesImply ==
  ASSUME Types
  PROVE  TypeOK
  BY DEF Types, ChainOK, RegistryOK, RestOK, WorkerOK, WorkerT, TypeOK

LEMMA NextSigIsUnused ==
  ASSUME ChainOK, Used # Sigs
  PROVE  /\ NextSig \in Sigs /\ chain[NextSig] = "unused"
         /\ \E n \in 0 .. MaxSwaps : Used \cup {NextSig} = 1 .. n
<1>1. PICK n \in 0 .. MaxSwaps : Used = 1 .. n
  BY DEF ChainOK
<1>2. Cardinality(1 .. n) = n /\ n < MaxSwaps
  BY <1>1, FS_Interval DEF Sigs
<1>3. NextSig = n + 1
  BY <1>1, <1>2 DEF NextSig
<1>4. NextSig \in Sigs /\ NextSig \notin Used
  BY <1>1, <1>2, <1>3 DEF Sigs
<1>5. Used \cup {NextSig} = 1 .. (n + 1) /\ n + 1 \in 0 .. MaxSwaps
  BY <1>1, <1>2, <1>3
<1> QED BY <1>4, <1>5 DEF Used

LEMMA InitTypes ==
  ASSUME Init
  PROVE  Types
<1>1. ChainOK
  <2>1. Used = {}
    BY DEF Init, Used
  <2>2. {} = 1 .. 0 /\ 0 \in 0 .. MaxSwaps
    OBVIOUS
  <2> QED BY <2>1, <2>2 DEF Init, ChainOK
<1>2. RestOK
  BY DEF Init, RestOK, Position
<1>3. RegistryOK /\ WorkerOK /\ CallsOK
  BY DEF Init, RegistryOK, WorkerOK, WorkerT, Stages, Resting, CallsOK, CallT, IdleCall
<1> QED BY <1>1, <1>2, <1>3 DEF Types

-----------------------------------------------------------------------------
(* The worker's moves *)

LEMMA WorkerFields ==
  ASSUME WorkerOK
  PROVE  /\ wrk.at \in Stages /\ wrk.batch \subseteq Item /\ wrk.snap \subseteq Sigs
         /\ wrk.doing \in Transition \cup {None} /\ wrk.item \in Item \cup {None}
         /\ wrk.at \notin Resting => wrk.item \in Item /\ wrk.doing \in Transition
         /\ wrk.at \in Resting => wrk.doing = None
         /\ wrk.at \in {"cycle", "gc"} \/ wrk.doing = "expired" => wrk.batch = {}
  BY DEF WorkerOK, WorkerT

\* A step that changes the stage only.
LEMMA GoesFields ==
  ASSUME WorkerOK, NEW at \in Stages, WorkerGoes(at)
  PROVE  /\ wrk' \in WorkerT /\ wrk'.at = at /\ wrk'.batch = wrk.batch
         /\ wrk'.item = wrk.item /\ wrk'.doing = wrk.doing /\ wrk'.snap = wrk.snap
  BY DEF WorkerOK, WorkerT, WorkerGoes

LEMMA DoingFields ==
  ASSUME WorkerOK, NEW item \in Item, NEW at \in Stages, NEW what \in Transition,
         Doing(item, at, what)
  PROVE  /\ wrk' \in WorkerT /\ wrk'.at = at /\ wrk'.batch = wrk.batch \ {item}
         /\ wrk'.item = item /\ wrk'.doing = what /\ wrk'.snap = wrk.snap
<1> DEFINE w1 == [wrk EXCEPT !.at = at]
           w2 == [w1 EXCEPT !.batch = @ \ {item}]
           w3 == [w2 EXCEPT !.item = item]
           w4 == [w3 EXCEPT !.doing = what]
<1>1. /\ w1 \in WorkerT /\ w1.at = at /\ w1.batch = wrk.batch /\ w1.snap = wrk.snap
  BY DEF WorkerOK, WorkerT
<1>2. /\ w2 \in WorkerT /\ w2.at = at /\ w2.batch = wrk.batch \ {item} /\ w2.snap = wrk.snap
  <2> HIDE DEF w1
  <2> QED BY <1>1 DEF WorkerT
<1>3. /\ w3 \in WorkerT /\ w3.at = at /\ w3.batch = wrk.batch \ {item} /\ w3.snap = wrk.snap
      /\ w3.item = item
  <2> HIDE DEF w2
  <2> QED BY <1>2 DEF WorkerT
<1>4. /\ w4 \in WorkerT /\ w4.at = at /\ w4.batch = wrk.batch \ {item} /\ w4.snap = wrk.snap
      /\ w4.item = item /\ w4.doing = what
  <2> HIDE DEF w3
  <2> QED BY <1>3 DEF WorkerT
<1>5. wrk' = w4
  BY DEF Doing, WorkerOK, WorkerT
<1> HIDE DEF w4
<1> QED BY <1>4, <1>5

LEMMA RestFields ==
  ASSUME WorkerOK, NEW item, wrk' = Rest(item)
  PROVE  /\ wrk' \in WorkerT /\ wrk'.batch = wrk.batch \ {item}
         /\ wrk'.at = IF wrk.doing = "expired" THEN "gc" ELSE "batch"
         /\ wrk'.item = None /\ wrk'.doing = None /\ wrk'.snap = {}
<1> DEFINE at == IF wrk.doing = "expired" THEN "gc" ELSE "batch"
           w1 == [wrk EXCEPT !.at = at]
           w2 == [w1 EXCEPT !.batch = @ \ {item}]
           w3 == [w2 EXCEPT !.item = None]
           w4 == [w3 EXCEPT !.doing = None]
           w5 == [w4 EXCEPT !.snap = {}]
<1>1. /\ w1 \in WorkerT /\ w1.at = at /\ w1.batch = wrk.batch
  BY DEF WorkerOK, WorkerT, Stages
<1>2. /\ w2 \in WorkerT /\ w2.at = at /\ w2.batch = wrk.batch \ {item}
  <2> HIDE DEF w1
  <2> QED BY <1>1 DEF WorkerT
<1>3. /\ w3 \in WorkerT /\ w3.at = at /\ w3.batch = wrk.batch \ {item} /\ w3.item = None
  <2> HIDE DEF w2
  <2> QED BY <1>2 DEF WorkerT
<1>4. /\ w4 \in WorkerT /\ w4.at = at /\ w4.batch = wrk.batch \ {item}
      /\ w4.item = None /\ w4.doing = None
  <2> HIDE DEF w3
  <2> QED BY <1>3 DEF WorkerT
<1>5. /\ w5 \in WorkerT /\ w5.at = at /\ w5.batch = wrk.batch \ {item}
      /\ w5.item = None /\ w5.doing = None /\ w5.snap = {}
  <2> HIDE DEF w4
  <2> QED BY <1>4 DEF WorkerT
<1>6. wrk' = w5
  BY DEF Rest, WorkerOK, WorkerT
<1> HIDE DEF w5
<1> QED BY <1>5, <1>6

LEMMA RestsOK ==
  ASSUME WorkerOK, NEW item, wrk' = Rest(item)
  PROVE  WorkerOK'
<1>1. None # "expired"
  OBVIOUS
<1>2. /\ wrk' \in WorkerT /\ wrk'.batch = wrk.batch \ {item}
      /\ wrk'.at = IF wrk.doing = "expired" THEN "gc" ELSE "batch"
      /\ wrk'.doing = None
  BY RestFields
<1>3. wrk.doing = "expired" => wrk.batch = {}
  BY DEF WorkerOK
<1>4. wrk'.at \in {"gc", "batch"} /\ (wrk'.at = "gc" => wrk'.batch = {})
  BY <1>2, <1>3
<1> QED BY <1>1, <1>2, <1>4 DEF WorkerOK, Resting

\* An item that is requeued comes back with one more attempt, or not at all.
LEMMA Requeued ==
  ASSUME NEW q \in SUBSET Item, NEW item \in Item
  PROVE  /\ requeue(q, item) \in SUBSET Item
         /\ \A i \in requeue(q, item) :
               i \in q \/ (i.sig = item.sig /\ i.known = item.known)
         /\ q \subseteq requeue(q, item)
<1> DEFINE again == [item EXCEPT !.attempts = @ + 1]
<1>1. item.attempts < MaxAttempts =>
         again \in Item /\ again.sig = item.sig /\ again.known = item.known
  BY DEF Item
<1>2. requeue(q, item) = q \/ (item.attempts < MaxAttempts /\ requeue(q, item) = q \cup {again})
  BY DEF requeue
<1> HIDE DEF again
<1> QED BY <1>1, <1>2

LEMMA Enqueued ==
  ASSUME NEW q \in SUBSET Item, NEW item \in Item
  PROVE  /\ enqueue(q, item) \in SUBSET Item
         /\ q \subseteq enqueue(q, item)
         /\ enqueue(q, item) = q
            \/ (enqueue(q, item) = q \cup {item} /\ \A i \in q : i.sig # item.sig)
  BY DEF enqueue

LEMMA NewItemFields ==
  ASSUME NEW s \in Sigs, NEW known \in BOOLEAN
  PROVE  /\ NewItem(s, known) \in Item
         /\ NewItem(s, known).sig = s /\ NewItem(s, known).known = known
  BY DEF NewItem, Item

LEMMA AppliedOK ==
  ASSUME WorkerOK, queue \subseteq Item, NEW item \in Item, Applied(item)
  PROVE  WorkerOK' /\ queue' \subseteq queue /\ wrk' = Rest(item)
<1>1. queue' = queue \/ queue' \in AfterRemove(queue, item.sig)
  BY DEF Applied
<1>2. queue' \subseteq queue
  BY <1>1 DEF AfterRemove
<1> QED BY <1>2, RestsOK DEF Applied

LEMMA NotAppliedOK ==
  ASSUME WorkerOK, queue \subseteq Item, NEW item \in Item, NotApplied(item)
  PROVE  WorkerOK' /\ queue' \subseteq Item /\ wrk' = Rest(item)
<1>1. queue' = queue \/ queue' = requeue(queue, item)
  BY DEF NotApplied
<1> QED BY <1>1, RestsOK, Requeued DEF NotApplied

Written == {"partial", "residual", "exit", "dca", "retry_clear", "synthetic", "abandoned"}

LEMMA DoingOK ==
  ASSUME WorkerOK, NEW item \in Item, NEW at \in {"persist", "clear"},
         NEW what \in Transition \ {"expired"}, Doing(item, at, what),
         at = "persist" => what \in Written
  PROVE  WorkerOK'
<1>1. at \in Stages /\ at \notin Resting
  BY DEF Stages, Resting
<1> QED BY <1>1, DoingFields DEF WorkerOK, Written

LEMMA UpdateOK ==
  ASSUME WorkerOK, queue \subseteq Item, mem \in Position, NEW row \in Position,
         NEW item \in Item, NEW what \in Written, Update(item, what, row)
  PROVE  WorkerOK' /\ queue' \subseteq Item /\ mem' \in Position
<1>1. CASE Target(item)
  <2>1. mem' = row /\ queue' = queue /\ Doing(item, "persist", what)
    BY <1>1 DEF Update
  <2>2. what \in Transition \ {"expired"}
    BY DEF Written, Transition
  <2> QED BY <2>1, <2>2, DoingOK
<1>2. CASE ~Target(item)
  BY <1>2, AppliedOK DEF Update
<1> QED BY <1>1, <1>2

-----------------------------------------------------------------------------
(* The callers' moves *)

CallOK(r) ==
    /\ r \in CallT
    /\ r.at # "idle" => r.op \in Ops
    /\ r.at \notin {"idle", "swap"} => r.sig \in Sigs
    /\ r.at \in {"register", "persist"} => r.op \in Kinds

LEMMA CallsAre == CallsOK <=> DOMAIN call = Callers /\ call = [c \in Callers |-> call[c]]
                              /\ \A c \in Callers : CallOK(call[c])
  BY DEF CallsOK, CallOK

LEMMA CallFields ==
  ASSUME CallsOK, NEW c \in Callers
  PROVE  /\ call[c] \in CallT
         /\ call[c].at \in {"idle", "swap", "register", "persist", "stamp", "submitted"}
         /\ call[c].op \in Ops \cup {None} /\ call[c].lots \in Nat
         /\ call[c].sig \in Sigs \cup {None} /\ call[c].snap \subseteq Sigs
         /\ call[c].at # "idle" => call[c].op \in Ops
         /\ call[c].at \notin {"idle", "swap"} => call[c].sig \in Sigs
         /\ call[c].at \in {"register", "persist"} => call[c].op \in Kinds
  BY DEF CallsOK, CallT

\* One call changes; the others are as they were.
LEMMA OneCall ==
  ASSUME CallsOK, NEW c \in Callers, NEW r, CallOK(r), call' = [call EXCEPT ![c] = r]
  PROVE  /\ CallsOK' /\ call'[c] = r
         /\ \A d \in Callers : d # c => call'[d] = call[d]
  BY DEF CallsOK, CallOK

LEMMA IdleOK == CallOK(IdleCall) /\ IdleCall.at = "idle" /\ IdleCall.sig = None
  BY DEF CallOK, IdleCall, CallT

LEMMA LeavesOK ==
  ASSUME CallsOK, NEW c \in Callers, Leaves(c), lock \in Callers \cup {None}
  PROVE  /\ CallsOK' /\ call'[c] = IdleCall /\ lock' \in Callers \cup {None}
         /\ \A d \in Callers : d # c => call'[d] = call[d]
  BY IdleOK, OneCall DEF Leaves

LEMMA StartsOK ==
  ASSUME CallsOK, NEW c \in Callers, NEW op, NEW lots \in Nat, Starts(c, op, lots)
  PROVE  /\ CallsOK' /\ lock' = c /\ op \in Ops /\ call[c].at = "idle"
         /\ call'[c].at = "swap" /\ call'[c].op = op /\ call'[c].lots = lots
         /\ call'[c].sig = None
         /\ \A d \in Callers : d # c => call'[d] = call[d]
<1> DEFINE r == [IdleCall EXCEPT !.at = "swap", !.op = op, !.lots = lots]
<1>1. op \in Ops /\ call[c].at = "idle" /\ lock' = c /\ call' = [call EXCEPT ![c] = r]
  BY DEF Starts
<1>2. r \in CallT /\ r.at = "swap" /\ r.op = op /\ r.lots = lots /\ r.sig = None
  <2> DEFINE q == [IdleCall EXCEPT !.at = "swap"]
             p == [q EXCEPT !.op = op]
  <2>1. q \in CallT /\ q.at = "swap" /\ q.sig = None
    BY DEF IdleCall, CallT
  <2>2. p \in CallT /\ p.at = "swap" /\ p.sig = None /\ p.op = op
    <3> HIDE DEF q
    <3> QED BY <1>1, <2>1 DEF CallT
  <2>3. r = [p EXCEPT !.lots = lots]
    BY DEF IdleCall
  <2> HIDE DEF p, r
  <2> QED BY <2>2, <2>3 DEF CallT
<1>3. CallOK(r)
  BY <1>1, <1>2 DEF CallOK
<1> HIDE DEF r
<1> QED BY <1>1, <1>2, <1>3, OneCall

\* A call moves on, with what else the step gives it.
Moved(r, at) == [r EXCEPT !.at = at]
Submitted(r, at, s) == [r EXCEPT !.sig = s, !.at = at]
Registering(r, set) == [r EXCEPT !.at = "persist", !.snap = set]

LEMMA MovedFields ==
  ASSUME NEW r \in CallT
  PROVE  /\ \A at \in {"persist", "submitted"} :
               /\ Moved(r, at) \in CallT /\ Moved(r, at).at = at /\ Moved(r, at).op = r.op
               /\ Moved(r, at).sig = r.sig /\ Moved(r, at).lots = r.lots
               /\ Moved(r, at).snap = r.snap
         /\ \A at \in {"register", "stamp"}, s \in Sigs :
               /\ Submitted(r, at, s) \in CallT /\ Submitted(r, at, s).at = at
               /\ Submitted(r, at, s).op = r.op /\ Submitted(r, at, s).sig = s
               /\ Submitted(r, at, s).lots = r.lots
         /\ \A set \in SUBSET Sigs :
               /\ Registering(r, set) \in CallT /\ Registering(r, set).at = "persist"
               /\ Registering(r, set).op = r.op /\ Registering(r, set).sig = r.sig
               /\ Registering(r, set).snap = set
<1>1. ASSUME NEW at \in {"persist", "submitted"}
      PROVE  /\ Moved(r, at) \in CallT /\ Moved(r, at).at = at /\ Moved(r, at).op = r.op
             /\ Moved(r, at).sig = r.sig /\ Moved(r, at).lots = r.lots
             /\ Moved(r, at).snap = r.snap
  BY DEF Moved, CallT
<1>2. ASSUME NEW at \in {"register", "stamp"}, NEW s \in Sigs
      PROVE  /\ Submitted(r, at, s) \in CallT /\ Submitted(r, at, s).at = at
             /\ Submitted(r, at, s).op = r.op /\ Submitted(r, at, s).sig = s
             /\ Submitted(r, at, s).lots = r.lots
  <2> DEFINE q == [r EXCEPT !.sig = s]
  <2>1. q \in CallT /\ q.op = r.op /\ q.sig = s /\ q.lots = r.lots
    BY DEF CallT
  <2>2. Submitted(r, at, s) = [q EXCEPT !.at = at]
    BY DEF Submitted, CallT
  <2> HIDE DEF q
  <2> QED BY <2>1, <2>2 DEF CallT
<1>3. ASSUME NEW set \in SUBSET Sigs
      PROVE  /\ Registering(r, set) \in CallT /\ Registering(r, set).at = "persist"
             /\ Registering(r, set).op = r.op /\ Registering(r, set).sig = r.sig
             /\ Registering(r, set).snap = set
  <2> DEFINE q == [r EXCEPT !.at = "persist"]
  <2>1. q \in CallT /\ q.op = r.op /\ q.sig = r.sig /\ q.at = "persist"
    BY DEF CallT
  <2>2. Registering(r, set) = [q EXCEPT !.snap = set]
    BY DEF Registering, CallT
  <2> HIDE DEF q
  <2> QED BY <2>1, <2>2 DEF CallT
<1> QED BY <1>1, <1>2, <1>3

LEMMA BeginsOK ==
  ASSUME Types, NEW c \in Callers, PartialBegin(c) \/ DcaBegin(c) \/ CloseBegin(c)
  PROVE  \E op \in Ops, lots \in Nat :
            /\ Starts(c, op, lots)
            /\ op = "partial" => partials = 0 /\ partials' = partials + 1 /\ lots < mem.remaining
            /\ op # "partial" => UNCHANGED partials
            /\ op = "close" => lots = wallet \/ "split" \in Faults
            /\ UNCHANGED <<onChain, books, pending, metadata, queue, wrk, boots, registered>>
<1>1. ASSUME NEW op, NEW lots \in Nat, Starts(c, op, lots) PROVE op \in Ops
  BY <1>1 DEF Starts
<1>2. CASE PartialBegin(c)
  <2>1. PICK base \in SellBases : \E lots \in 1 .. base - 1 : Starts(c, "partial", lots)
    BY <1>2 DEF PartialBegin
  <2>2. PICK lots \in 1 .. base - 1 : Starts(c, "partial", lots)
    BY <2>1
  <2>3. mem.remaining \in Nat
    BY DEF Types, RestOK, Position
  <2>4. SellBase \in Nat /\ SellBase <= mem.remaining
    BY <2>3 DEF SellBase, Types, ChainOK
  <2>5. base \in Nat /\ base <= mem.remaining
    BY <2>3, <2>4 DEF SellBases
  <2>6. lots \in Nat /\ lots < mem.remaining
    BY <2>3, <2>5
  <2> QED BY <1>1, <1>2, <2>2, <2>6 DEF PartialBegin
<1>3. CASE DcaBegin(c)
  BY <1>1, <1>3 DEF DcaBegin, registry
<1>4. CASE CloseBegin(c)
  <2>1. PICK lots \in 1 .. wallet : (lots = wallet \/ "split" \in Faults)
                                    /\ Starts(c, "close", lots)
    BY <1>4 DEF CloseBegin
  <2>2. lots \in Nat
    BY DEF Types, ChainOK
  <2> QED BY <1>1, <1>4, <2>1, <2>2 DEF CloseBegin, registry
<1> QED BY <1>2, <1>3, <1>4

LEMMA SubmitsOK ==
  ASSUME Types, NEW c \in Callers, SwapSubmits(c)
  PROVE  /\ ChainOK' /\ CallsOK' /\ NextSig \in Sigs /\ chain[NextSig] = "unused"
         /\ chain'[NextSig] = "sent" /\ swap'[NextSig].op = call[c].op
         /\ swap'[NextSig].lots = call[c].lots
         /\ \A s \in Sigs : s # NextSig => chain'[s] = chain[s] /\ swap'[s] = swap[s]
         /\ call[c].at = "swap" /\ call[c].op \in Ops
         /\ call'[c].sig = NextSig /\ call'[c].op = call[c].op
         /\ call'[c].at = (IF call[c].op = "close" THEN "stamp" ELSE "register")
         /\ \A d \in Callers : d # c => call'[d] = call[d]
         /\ UNCHANGED <<wallet, books, registry, queue, wrk, lock, boots, registered>>
<1> DEFINE n == NextSig
           at == IF call[c].op = "close" THEN "stamp" ELSE "register"
<1>0. ChainOK /\ CallsOK /\ Used # Sigs /\ call[c].at = "swap" /\ call[c].op \in Ops
  BY CallFields DEF Types, SwapSubmits
<1>1. n \in Sigs /\ chain[n] = "unused" /\ \E k \in 0 .. MaxSwaps : Used \cup {n} = 1 .. k
  BY <1>0, NextSigIsUnused
<1>2. /\ swap' = [swap EXCEPT ![n] = [op |-> call[c].op, lots |-> call[c].lots]]
      /\ chain' = [chain EXCEPT ![n] = "sent"]
      /\ call' = [call EXCEPT ![c].sig = n, ![c].at = at]
      /\ UNCHANGED <<wallet, books, registry, queue, wrk, lock, boots, registered>>
  BY DEF SwapSubmits
<1> HIDE DEF n
<1>3. call[c] \in CallT /\ call[c].lots \in Nat /\ at \in {"register", "stamp"}
  BY <1>0, CallFields
<1>4. [op |-> call[c].op, lots |-> call[c].lots] \in [op : Ops \cup {None}, lots : Nat]
  BY <1>0, <1>3
<1>5. /\ chain'[n] = "sent" /\ swap'[n] = [op |-> call[c].op, lots |-> call[c].lots]
      /\ \A s \in Sigs : s # n => chain'[s] = chain[s] /\ swap'[s] = swap[s]
      /\ swap' \in [Sigs -> [op : Ops \cup {None}, lots : Nat]]
      /\ chain' \in [Sigs -> {"unused", "sent", "landed", "failed", "lost"}]
  BY <1>0, <1>1, <1>2, <1>4 DEF ChainOK
<1>6. Used' = Used \cup {n}
  BY <1>1, <1>5 DEF Used
<1>7. ChainOK'
  BY <1>0, <1>1, <1>2, <1>5, <1>6 DEF ChainOK, Used
<1>8. call' = [call EXCEPT ![c] = Submitted(call[c], at, n)]
  BY <1>0, <1>2 DEF CallsOK, Submitted
<1>9. /\ Submitted(call[c], at, n) \in CallT /\ Submitted(call[c], at, n).at = at
      /\ Submitted(call[c], at, n).op = call[c].op /\ Submitted(call[c], at, n).sig = n
  BY <1>1, <1>3, MovedFields
<1>10. CallOK(Submitted(call[c], at, n))
  BY <1>0, <1>1, <1>9 DEF CallOK, Kinds
<1>11. /\ CallsOK' /\ call'[c] = Submitted(call[c], at, n)
       /\ \A d \in Callers : d # c => call'[d] = call[d]
  BY <1>0, <1>8, <1>10, OneCall
<1>12. swap'[n].op = call[c].op /\ swap'[n].lots = call[c].lots
  BY <1>5
<1>13. call'[c].sig = n /\ call'[c].op = call[c].op /\ call'[c].at = at
  BY <1>9, <1>11
<1> HIDE DEF at
<1>14. /\ n \in Sigs /\ chain[n] = "unused" /\ chain'[n] = "sent"
       /\ \A s \in Sigs : s # n => chain'[s] = chain[s] /\ swap'[s] = swap[s]
  BY <1>1, <1>5
<1>15. \A d \in Callers : d # c => call'[d] = call[d]
  BY <1>11
<1> USE DEF n, at
<1> QED BY <1>0, <1>2, <1>7, <1>11, <1>12, <1>13, <1>14, <1>15

LEMMA RegistersOK ==
  ASSUME Types, NEW c \in Callers, RegisterPending(c)
  PROVE  /\ CallsOK' /\ RegistryOK' /\ call[c].op \in Kinds /\ call[c].sig \in Sigs
         /\ pending' = With(pending, call[c].op, call[c].sig)
         /\ pending'[call[c].op] = pending[call[c].op] \cup {call[c].sig}
         /\ \A k \in Kinds : k # call[c].op => pending'[k] = pending[k]
         /\ call'[c].at = "persist" /\ call'[c].op = call[c].op /\ call'[c].sig = call[c].sig
         /\ call'[c].snap = pending'[call[c].op]
         /\ \A d \in Callers : d # c => call'[d] = call[d]
<1> DEFINE set == pending'[call[c].op]
<1>0. CallsOK /\ RegistryOK /\ call[c] \in CallT /\ call[c].at = "register"
      /\ call[c].op \in Kinds /\ call[c].op \in Ops /\ call[c].sig \in Sigs
  BY CallFields DEF Types, RegisterPending
<1>1. /\ pending' = With(pending, call[c].op, call[c].sig)
      /\ call' = [call EXCEPT ![c].at = "persist", ![c].snap = set]
      /\ UNCHANGED <<metadata, partials>>
  BY DEF RegisterPending
<1>2. /\ pending' \in [Kinds -> SUBSET Sigs]
      /\ set = pending[call[c].op] \cup {call[c].sig}
      /\ \A k \in Kinds : k # call[c].op => pending'[k] = pending[k]
  BY <1>0, <1>1 DEF RegistryOK, With
<1>3. set \in SUBSET Sigs
  BY <1>0, <1>2
<1> HIDE DEF set
<1>4. call' = [call EXCEPT ![c] = Registering(call[c], set)]
  BY <1>0, <1>1 DEF CallsOK, Registering
<1>5. /\ Registering(call[c], set) \in CallT /\ Registering(call[c], set).at = "persist"
      /\ Registering(call[c], set).op = call[c].op /\ Registering(call[c], set).sig = call[c].sig
      /\ Registering(call[c], set).snap = set
  BY <1>0, <1>3, MovedFields
<1>6. CallOK(Registering(call[c], set))
  BY <1>0, <1>5 DEF CallOK
<1>7. /\ CallsOK' /\ call'[c] = Registering(call[c], set)
      /\ \A d \in Callers : d # c => call'[d] = call[d]
  BY <1>0, <1>4, <1>6, OneCall
<1>8. RegistryOK'
  BY <1>0, <1>1, <1>2 DEF RegistryOK
<1> QED BY <1>0, <1>1, <1>2, <1>5, <1>7, <1>8 DEF set

LEMMA GoesOK ==
  ASSUME CallsOK, NEW c \in Callers, call[c].at # "idle", call[c].sig \in Sigs,
         Goes(c, "submitted")
  PROVE  /\ CallsOK' /\ call'[c].at = "submitted" /\ call'[c].op = call[c].op
         /\ call'[c].sig = call[c].sig
         /\ \A d \in Callers : d # c => call'[d] = call[d]
<1>1. call[c] \in CallT /\ call[c].op \in Ops
  BY CallFields
<1>2. call' = [call EXCEPT ![c] = Moved(call[c], "submitted")]
  BY DEF CallsOK, Moved, Goes
<1>3. /\ Moved(call[c], "submitted") \in CallT /\ Moved(call[c], "submitted").at = "submitted"
      /\ Moved(call[c], "submitted").op = call[c].op
      /\ Moved(call[c], "submitted").sig = call[c].sig
  BY <1>1, MovedFields
<1>4. CallOK(Moved(call[c], "submitted"))
  BY <1>1, <1>3 DEF CallOK
<1> QED BY <1>2, <1>3, <1>4, OneCall

LEMMA PersistedOK ==
  ASSUME RegistryOK, NEW k \in Kinds, NEW set \in SUBSET Sigs
  PROVE  /\ Persisted(k, set) \in [Kinds -> SUBSET Sigs] /\ Persisted(k, set)[k] = set
         /\ \A j \in Kinds : j # k => Persisted(k, set)[j] = metadata[j]
  BY DEF RegistryOK, Persisted

LEMMA WithoutOK ==
  ASSUME RegistryOK, NEW k \in Kinds, NEW s \in Sigs
  PROVE  /\ Without(pending, k, s) \in [Kinds -> SUBSET Sigs]
         /\ Without(pending, k, s)[k] = pending[k] \ {s}
         /\ \A j \in Kinds : j # k => Without(pending, k, s)[j] = pending[j]
         /\ With(pending, k, s) \in [Kinds -> SUBSET Sigs]
         /\ With(pending, k, s)[k] = pending[k] \cup {s}
         /\ \A j \in Kinds : j # k => With(pending, k, s)[j] = pending[j]
  BY DEF RegistryOK, Without, With

LEMMA CountsDown ==
  ASSUME NEW n \in Nat
  PROVE  clear_partial_exit_pending(n) \in Nat
         /\ (n > 0 => clear_partial_exit_pending(n) = n - 1)
         /\ (n = 0 => clear_partial_exit_pending(n) = 0)
  BY DEF clear_partial_exit_pending

LEMMA CallerTypes ==
  ASSUME Types, NEW c \in Callers, Caller(c)
  PROVE  Types'
<1>0. ChainOK /\ RegistryOK /\ RestOK /\ WorkerOK /\ CallsOK
  BY DEF Types
<1>1. CASE PartialBegin(c) \/ DcaBegin(c) \/ CloseBegin(c)
  <2>1. PICK op \in Ops, lots \in Nat :
            /\ Starts(c, op, lots)
            /\ op = "partial" => partials = 0 /\ partials' = partials + 1
            /\ op # "partial" => UNCHANGED partials
            /\ UNCHANGED <<onChain, books, pending, metadata, queue, wrk, boots, registered>>
    BY <1>1, BeginsOK
  <2>2. CallsOK' /\ lock' = c
    BY <1>0, <2>1, StartsOK
  <2>3. ChainOK' /\ WorkerOK' /\ RestOK'
    BY <1>0, <2>1, <2>2 DEF ChainOK, Used, WorkerOK, RestOK, onChain, books
  <2>4. RegistryOK'
    BY <1>0, <2>1 DEF RegistryOK
  <2> QED BY <2>2, <2>3, <2>4 DEF Types
<1>2. CASE SwapSubmits(c)
  BY <1>0, <1>2, SubmitsOK DEF Types, RestOK, RegistryOK, WorkerOK, books, registry
<1>3. CASE RegisterPending(c)
  <2>1. UNCHANGED <<onChain, books, queue, wrk, lock, boots, registered>>
    BY <1>3 DEF RegisterPending
  <2> QED BY <1>0, <1>3, <2>1, RegistersOK
          DEF Types, ChainOK, Used, RestOK, WorkerOK, books, onChain
<1>4. CASE PersistPending(c)
  <2>1. /\ call[c].op \in Kinds /\ call[c].sig \in Sigs /\ call[c].snap \in SUBSET Sigs
        /\ call[c].at # "idle"
    BY <1>0, <1>4, CallFields DEF PersistPending
  <2>2. /\ metadata' = Persisted(call[c].op, call[c].snap)
        /\ registered' = registered \cup {call[c].sig} /\ Goes(c, "submitted")
        /\ UNCHANGED <<onChain, books, pending, partials, queue, wrk, lock, boots>>
    BY <1>4 DEF PersistPending
  <2>3. CallsOK'
    BY <1>0, <2>1, <2>2, GoesOK
  <2>4. RegistryOK'
    BY <1>0, <2>1, <2>2, PersistedOK DEF RegistryOK
  <2> QED BY <1>0, <2>1, <2>2, <2>3, <2>4
          DEF Types, ChainOK, Used, RestOK, WorkerOK, books, onChain
<1>5. CASE PersistPendingFails(c)
  <2>1. call[c].op \in Kinds /\ call[c].sig \in Sigs
    BY <1>0, <1>5, CallFields DEF PersistPendingFails
  <2>2. /\ pending' = Without(pending, call[c].op, call[c].sig)
        /\ partials' \in {partials, clear_partial_exit_pending(partials)}
        /\ Leaves(c)
        /\ UNCHANGED <<onChain, books, metadata, queue, wrk, boots, registered>>
    BY <1>5 DEF PersistPendingFails
  <2>3. RegistryOK'
    BY <1>0, <2>1, <2>2, WithoutOK, CountsDown DEF RegistryOK
  <2>4. CallsOK' /\ lock' \in Callers \cup {None}
    BY <1>0, <2>2, LeavesOK DEF RestOK
  <2> QED BY <1>0, <2>2, <2>3, <2>4
          DEF Types, ChainOK, Used, RestOK, WorkerOK, books, onChain
<1>6. CASE SwapFails(c)
  <2>1. /\ partials' \in {partials, clear_partial_exit_pending(partials)} /\ Leaves(c)
        /\ UNCHANGED <<onChain, books, pending, metadata, queue, wrk, boots, registered>>
    BY <1>6 DEF SwapFails
  <2>2. RegistryOK'
    BY <1>0, <2>1, CountsDown DEF RegistryOK
  <2>3. CallsOK' /\ lock' \in Callers \cup {None}
    BY <1>0, <2>1, LeavesOK DEF RestOK
  <2> QED BY <1>0, <2>1, <2>2, <2>3
          DEF Types, ChainOK, Used, RestOK, WorkerOK, books, onChain
<1>7. CASE DcaWithoutPrice(c)
  <2>1. Leaves(c) /\ UNCHANGED <<onChain, books, registry, queue, wrk, boots, registered>>
    BY <1>7 DEF DcaWithoutPrice
  <2>2. CallsOK' /\ lock' \in Callers \cup {None}
    BY <1>0, <2>1, LeavesOK DEF RestOK
  <2> QED BY <1>0, <2>1, <2>2
          DEF Types, ChainOK, Used, RestOK, RegistryOK, WorkerOK, books, onChain, registry
<1>8. CASE StampExit(c)
  <2>1. call[c].sig \in Sigs /\ call[c].at # "idle"
    BY <1>0, <1>8, CallFields DEF StampExit
  <2>2. /\ mem' = mem \/ mem' = [mem EXCEPT !.exitSig = call[c].sig]
        /\ registered' = registered \cup {call[c].sig} /\ Goes(c, "submitted")
        /\ UNCHANGED <<onChain, db, records, registry, queue, wrk, lock, boots>>
    BY <1>8 DEF StampExit
  <2>3. CallsOK'
    BY <1>0, <2>1, <2>2, GoesOK
  <2>4. mem' \in Position
    BY <1>0, <2>1, <2>2 DEF RestOK, Position
  <2> QED BY <1>0, <2>1, <2>2, <2>3, <2>4
          DEF Types, ChainOK, Used, RestOK, RegistryOK, WorkerOK, onChain, registry
<1>9. CASE enqueue_verification(c)
  <2>1. PICK known \in BOOLEAN : queue' = enqueue(queue, NewItem(call[c].sig, known))
    <3>1. (call[c].op # "close" \/ is_position_open) \in BOOLEAN
      OBVIOUS
    <3> QED BY <1>9, <3>1 DEF enqueue_verification
  <2>2. call[c].sig \in Sigs
    BY <1>0, <1>9, CallFields DEF enqueue_verification
  <2>3. queue' \subseteq Item
    BY <1>0, <2>1, <2>2, NewItemFields, Enqueued DEF RestOK
  <2>4. Leaves(c) /\ UNCHANGED <<onChain, books, registry, wrk, boots, registered>>
    BY <1>9 DEF enqueue_verification
  <2>5. CallsOK' /\ lock' \in Callers \cup {None}
    BY <1>0, <2>4, LeavesOK DEF RestOK
  <2> QED BY <1>0, <2>3, <2>4, <2>5
          DEF Types, ChainOK, Used, RestOK, RegistryOK, WorkerOK, books, onChain, registry
<1> QED BY <1>1, <1>2, <1>3, <1>4, <1>5, <1>6, <1>7, <1>8, <1>9 DEF Caller, CallerWorks

-----------------------------------------------------------------------------
(* Types: the chain, the worker and the restart *)

LEMMA DecidesOK ==
  ASSUME ChainOK, NEW s \in Sigs, Lands(s) \/ Dies(s)
  PROVE  /\ ChainOK' /\ chain[s] = "sent" /\ chain'[s] \in {"landed", "failed", "lost"}
         /\ swap' = swap /\ Used' = Used
         /\ \A t \in Sigs : t # s => chain'[t] = chain[t]
         /\ UNCHANGED <<books, registry, queue, wrk, call, lock, boots, registered>>
         /\ wallet' \in Nat
<1>1. /\ chain[s] = "sent" /\ swap' = swap
      /\ UNCHANGED <<books, registry, queue, wrk, call, lock, boots, registered>>
  BY DEF Lands, Dies
<1>2. PICK f \in {"landed", "failed", "lost"} : chain' = [chain EXCEPT ![s] = f]
  BY DEF Lands, Dies
<1>3. /\ chain'[s] = f /\ \A t \in Sigs : t # s => chain'[t] = chain[t]
      /\ chain' \in [Sigs -> {"unused", "sent", "landed", "failed", "lost"}]
  BY <1>2 DEF ChainOK
<1>4. Used' = Used
  BY <1>1, <1>2, <1>3 DEF Used
<1>5. s \in Used /\ swap[s].lots \in Nat /\ wallet \in Nat
  BY <1>1 DEF Used, ChainOK
<1>6. wallet' \in Nat
  <2>1. CASE Lands(s)
    BY <1>5, <2>1 DEF Lands
  <2>2. CASE Dies(s)
    BY <1>5, <2>2 DEF Dies
  <2> QED BY <2>1, <2>2
<1>7. ChainOK'
  BY <1>1, <1>3, <1>4, <1>6 DEF ChainOK
<1> QED BY <1>1, <1>2, <1>3, <1>4, <1>6, <1>7

LEMMA ChainTypes ==
  ASSUME Types, NEW s \in Sigs, Lands(s) \/ Dies(s)
  PROVE  Types'
  BY DecidesOK DEF Types, RestOK, RegistryOK, WorkerOK, CallsOK, books, registry

\* What a verdict leaves in the position.
Filled(s) == [mem EXCEPT !.remaining = IF @ > swap[s].lots THEN @ - swap[s].lots ELSE 0,
                         !.booked = Count(@, s)]
Added(s) == [mem EXCEPT !.remaining = HeldAfterAdd(swap[s].lots),
                        !.booked = Count(@, s)]

LEMMA MemFields ==
  ASSUME Types
  PROVE  /\ mem.there \in BOOLEAN /\ mem.open \in BOOLEAN /\ mem.verified \in BOOLEAN
         /\ mem.synthetic \in BOOLEAN /\ mem.remaining \in Nat
         /\ mem.exitSig \in Sigs \cup {None} /\ mem.booked \in [Sigs -> Nat]
         /\ mem.pnl \subseteq Sigs
  BY DEF Types, RestOK, Position

LEMMA Counted ==
  ASSUME NEW f \in [Sigs -> Nat], NEW s \in Sigs
  PROVE  /\ Count(f, s) \in [Sigs -> Nat]
         /\ Count(f, s)[s] = f[s] + 1
         /\ \A t \in Sigs : t # s => Count(f, s)[t] = f[t]
  BY DEF Count

LEMMA FilledFields ==
  ASSUME Types, NEW s \in Sigs
  PROVE  /\ Filled(s) \in Position /\ Filled(s).booked = Count(mem.booked, s)
         /\ Filled(s).there = mem.there /\ Filled(s).open = mem.open
         /\ Filled(s).verified = mem.verified /\ Filled(s).pnl = mem.pnl
         /\ Filled(s).exitSig = mem.exitSig
         /\ Filled(s).remaining = IF mem.remaining > swap[s].lots
                                  THEN mem.remaining - swap[s].lots ELSE 0
<1> DEFINE left == IF mem.remaining > swap[s].lots THEN mem.remaining - swap[s].lots ELSE 0
           q == [mem EXCEPT !.remaining = left]
           count == Count(mem.booked, s)
<1>0. swap[s].lots \in Nat
  BY DEF Types, ChainOK
<1>1. left \in Nat /\ count \in [Sigs -> Nat]
  BY <1>0, MemFields, Counted
<1>2. /\ q \in Position /\ q.booked = mem.booked /\ q.there = mem.there /\ q.open = mem.open
      /\ q.verified = mem.verified /\ q.pnl = mem.pnl /\ q.exitSig = mem.exitSig
      /\ q.remaining = left
  <2> HIDE DEF left
  <2> QED BY <1>1 DEF Types, RestOK, Position
<1>3. Filled(s) = [q EXCEPT !.booked = count]
  BY <1>2 DEF Filled
<1> HIDE DEF left, q, count
<1>4. Filled(s) \in Position /\ Filled(s).booked = count
  BY <1>1, <1>2, <1>3 DEF Position
<1>5. /\ Filled(s).there = q.there /\ Filled(s).open = q.open /\ Filled(s).verified = q.verified
      /\ Filled(s).pnl = q.pnl /\ Filled(s).exitSig = q.exitSig
      /\ Filled(s).remaining = q.remaining
  BY <1>2, <1>3 DEF Position
<1> USE DEF count, left
<1> QED BY <1>2, <1>4, <1>5

LEMMA AddedFields ==
  ASSUME Types, NEW s \in Sigs
  PROVE  /\ Added(s) \in Position /\ Added(s).booked = Count(mem.booked, s)
         /\ Added(s).there = mem.there /\ Added(s).open = mem.open
         /\ Added(s).verified = mem.verified /\ Added(s).pnl = mem.pnl
         /\ Added(s).exitSig = mem.exitSig
         /\ Added(s).remaining = mem.remaining + swap[s].lots
<1> DEFINE held == HeldAfterAdd(swap[s].lots)
           q == [mem EXCEPT !.remaining = held]
           count == Count(mem.booked, s)
<1>0. swap[s].lots \in Nat
  BY DEF Types, ChainOK
<1>1. held \in Nat /\ count \in [Sigs -> Nat]
  BY <1>0, MemFields, Counted DEF HeldAfterAdd
<1>2. /\ q \in Position /\ q.booked = mem.booked /\ q.there = mem.there /\ q.open = mem.open
      /\ q.verified = mem.verified /\ q.pnl = mem.pnl /\ q.exitSig = mem.exitSig
      /\ q.remaining = held
  <2> HIDE DEF held
  <2> QED BY <1>1 DEF Types, RestOK, Position
<1>3. Added(s) = [q EXCEPT !.booked = count]
  BY <1>2 DEF Added
<1> HIDE DEF held, q, count
<1>4. Added(s) \in Position /\ Added(s).booked = count
  BY <1>1, <1>2, <1>3 DEF Position
<1>5. /\ Added(s).there = q.there /\ Added(s).open = q.open /\ Added(s).verified = q.verified
      /\ Added(s).pnl = q.pnl /\ Added(s).exitSig = q.exitSig
      /\ Added(s).remaining = q.remaining
  BY <1>2, <1>3 DEF Position
<1> USE DEF count, held
<1> QED BY <1>2, <1>4, <1>5 DEF HeldAfterAdd

LEMMA ClosedFields ==
  ASSUME Types, NEW s \in Sigs
  PROVE  /\ Closed(mem, s) \in Position
         /\ Closed(mem, s).booked = Count(mem.booked, s)
         /\ Closed(mem, s).there = mem.there /\ ~Closed(mem, s).open
         /\ Closed(mem, s).verified /\ Closed(mem, s).pnl = (Booked \cup {s}) \cap Sells
         /\ Closed(mem, s).exitSig = mem.exitSig
<1> DEFINE gain == (Booked \cup {s}) \cap Sells
           count == Count(mem.booked, s)
<1>1. gain \in SUBSET Sigs /\ count \in [Sigs -> Nat]
  BY MemFields, Counted DEF Booked
<1> HIDE DEF gain, count
<1> DEFINE q == [[mem EXCEPT !.open = FALSE] EXCEPT !.verified = TRUE]
           p == [[q EXCEPT !.remaining = 0] EXCEPT !.booked = count]
<1>2. /\ q \in Position /\ q.there = mem.there /\ q.open = FALSE /\ q.verified = TRUE
      /\ q.exitSig = mem.exitSig
  BY DEF Types, RestOK, Position
<1>3. /\ p \in Position /\ p.there = mem.there /\ p.open = FALSE /\ p.verified = TRUE
      /\ p.exitSig = mem.exitSig /\ p.booked = count
  <2> HIDE DEF q
  <2> QED BY <1>1, <1>2 DEF Position
<1>4. Closed(mem, s) = [p EXCEPT !.pnl = gain]
  BY <1>2 DEF Closed, count, gain
<1> HIDE DEF p
<1>5. /\ Closed(mem, s) \in Position /\ Closed(mem, s).booked = count
      /\ Closed(mem, s).there = mem.there /\ Closed(mem, s).open = FALSE
      /\ Closed(mem, s).verified = TRUE /\ Closed(mem, s).pnl = gain
      /\ Closed(mem, s).exitSig = mem.exitSig
  BY <1>1, <1>3, <1>4 DEF Position
<1> USE DEF count, gain
<1> QED BY <1>5

LEMMA UnstampedFields ==
  ASSUME Types
  PROVE  /\ Unstamped \in Position /\ Unstamped.booked = mem.booked
         /\ Unstamped.there = mem.there /\ Unstamped.open = mem.open
         /\ Unstamped.pnl = mem.pnl /\ ~Unstamped.verified /\ Unstamped.exitSig = None
         /\ Unstamped.remaining = mem.remaining
<1> DEFINE q == [mem EXCEPT !.exitSig = None]
<1>1. q \in Position /\ q.booked = mem.booked /\ q.there = mem.there /\ q.open = mem.open
      /\ q.pnl = mem.pnl /\ q.exitSig = None /\ q.remaining = mem.remaining
  BY DEF Types, RestOK, Position
<1>2. Unstamped = [q EXCEPT !.verified = FALSE]
  BY DEF Unstamped, Types, RestOK, Position
<1> HIDE DEF q
<1> QED BY <1>1, <1>2 DEF Position

LEMMA WrittenOffFields ==
  ASSUME Types
  PROVE  /\ WrittenOff \in Position /\ WrittenOff.booked = mem.booked
         /\ WrittenOff.there = mem.there /\ ~WrittenOff.open
         /\ WrittenOff.pnl = Booked \cap Sells /\ WrittenOff.verified
         /\ WrittenOff.exitSig = mem.exitSig
<1> DEFINE gain == Booked \cap Sells
<1>1. gain \in SUBSET Sigs
  BY DEF Booked
<1> HIDE DEF gain
<1> DEFINE q == [[mem EXCEPT !.open = FALSE] EXCEPT !.verified = TRUE]
           p == [[q EXCEPT !.synthetic = TRUE] EXCEPT !.remaining = 0]
<1>2. /\ q \in Position /\ q.there = mem.there /\ q.open = FALSE /\ q.verified = TRUE
      /\ q.booked = mem.booked /\ q.exitSig = mem.exitSig
  BY DEF Types, RestOK, Position
<1>3. /\ p \in Position /\ p.there = mem.there /\ p.open = FALSE /\ p.verified = TRUE
      /\ p.booked = mem.booked /\ p.exitSig = mem.exitSig
  <2> HIDE DEF q
  <2> QED BY <1>2 DEF Position
<1>4. WrittenOff = [p EXCEPT !.pnl = gain]
  BY DEF WrittenOff, gain, Types, RestOK, Position
<1> HIDE DEF p
<1>5. /\ WrittenOff \in Position /\ WrittenOff.booked = mem.booked
      /\ WrittenOff.there = mem.there /\ WrittenOff.open = FALSE
      /\ WrittenOff.verified = TRUE /\ WrittenOff.pnl = gain
      /\ WrittenOff.exitSig = mem.exitSig
  BY <1>1, <1>3, <1>4 DEF Position
<1> USE DEF gain
<1> QED BY <1>5

LEMMA TypesFrom ==
  ASSUME Types, UNCHANGED <<onChain, Shared>>, RegistryOK', WorkerOK', queue' \subseteq Item,
         mem' \in Position, db' \in Position, records' \subseteq Sigs
  PROVE  Types'
  BY DEF Types, ChainOK, Used, RestOK, CallsOK, onChain, Shared

LEMMA DropOK ==
  ASSUME RegistryOK, DropPartials
  PROVE  /\ RegistryOK' /\ (mem.there => partials' = 0 /\ pending'["partial"] = {})
         /\ (~mem.there => UNCHANGED registry)
         /\ (mem.there /\ "db" \notin Faults =>
                metadata'["partial"] = {} \/ (pending["partial"] = {} /\ metadata' = metadata))
         /\ pending'["dca"] = pending["dca"] /\ metadata'["dca"] = metadata["dca"]
<1>1. CASE mem.there
  <2>1. /\ pending' = [pending EXCEPT !["partial"] = {}] /\ partials' = 0
        /\ metadata' = [metadata EXCEPT !["partial"] = {}]
           \/ (metadata' = metadata /\ ("db" \in Faults \/ pending["partial"] = {}))
    BY <1>1 DEF DropPartials
  <2> QED BY <1>1, <2>1 DEF RegistryOK, Kinds
<1>2. CASE ~mem.there
  BY <1>2 DEF DropPartials, RegistryOK, registry
<1> QED BY <1>1, <1>2

LEMMA FillTypes ==
  ASSUME Types, NEW item \in Item, NEW what \in {"partial", "residual"}, Fill(item, what)
  PROVE  Types'
<1>0. /\ RegistryOK /\ WorkerOK /\ queue \subseteq Item /\ mem \in Position /\ db \in Position
      /\ records \subseteq Sigs /\ item.sig \in Sigs
  BY DEF Types, RestOK, Item
<1>1. CASE Recorded(item)
  <2>1. UNCHANGED <<onChain, books, registry, Shared>>
    BY <1>1 DEF Fill, SkipFill
  <2>2. WorkerOK' /\ queue' \subseteq Item
    <3>1. CASE mem.there
      <4>1. Again[what] \in Transition \ {"expired"} /\ Doing(item, "clear", Again[what])
            /\ queue' = queue
        BY <1>1, <3>1 DEF Fill, SkipFill, Again, Transition
      <4> QED BY <1>0, <4>1, DoingOK
    <3>2. CASE ~mem.there
      BY <1>0, <1>1, <3>2, AppliedOK DEF Fill, SkipFill
    <3> QED BY <3>1, <3>2
  <2> QED BY <1>0, <2>1, <2>2, TypesFrom DEF books, RegistryOK, registry
<1>2. CASE ~Recorded(item)
  <2>1. /\ Update(item, what, Filled(item.sig))
        /\ UNCHANGED <<onChain, db, records, registry, Shared>>
    BY <1>2 DEF Fill, BookFill, Filled
  <2>2. Filled(item.sig) \in Position /\ what \in Written
    BY <1>0, FilledFields DEF Written
  <2>3. WorkerOK' /\ queue' \subseteq Item /\ mem' \in Position
    BY <1>0, <2>1, <2>2, UpdateOK
  <2> QED BY <1>0, <2>1, <2>3, TypesFrom DEF RegistryOK, registry
<1> QED BY <1>1, <1>2

LEMMA VerdictTypes ==
  ASSUME Types, NEW item \in wrk.batch, VerifyRetry(item) \/ Transitions(item)
  PROVE  Types'
<1>0. /\ RegistryOK /\ WorkerOK /\ queue \subseteq Item /\ mem \in Position /\ db \in Position
      /\ records \subseteq Sigs /\ item \in Item /\ item.sig \in Sigs
  BY WorkerFields DEF Types, RestOK, Item
<1>1. CASE VerifyRetry(item)
  <2>1. WorkerOK' /\ queue' \subseteq Item
    BY <1>0, <1>1, NotAppliedOK DEF VerifyRetry
  <2> QED BY <1>0, <1>1, <2>1, TypesFrom DEF VerifyRetry, books, RegistryOK, registry
<1>2. CASE PartialExitVerified(item) \/ ExitResidual(item)
  BY <1>0, <1>2, FillTypes DEF PartialExitVerified, ExitResidual
<1>3. CASE DcaVerified(item)
  <2>1. UNCHANGED <<onChain, db, records, registry, Shared>>
    BY <1>3 DEF DcaVerified
  <2>2. WorkerOK' /\ queue' \subseteq Item /\ mem' \in Position
    <3>1. CASE mem.there
      <4>1. mem' = Added(item.sig) /\ Doing(item, "persist", "dca") /\ queue' = queue
        BY <1>3, <3>1 DEF DcaVerified, Added
      <4>2. "dca" \in Transition \ {"expired"} /\ "dca" \in Written
        BY DEF Transition, Written
      <4> QED BY <1>0, <4>1, <4>2, DoingOK, AddedFields
    <3>2. CASE ~mem.there
      BY <1>0, <1>3, <3>2, NotAppliedOK DEF DcaVerified
    <3> QED BY <3>1, <3>2
  <2> QED BY <1>0, <2>1, <2>2, TypesFrom DEF RegistryOK, registry
<1>4. CASE ExitVerified(item)
  <2>1. UNCHANGED <<onChain, db, records, registry, Shared>>
    BY <1>4 DEF ExitVerified
  <2>2. WorkerOK' /\ queue' \subseteq Item /\ mem' \in Position
    <3>1. CASE AlreadyVerified(item)
      BY <1>0, <1>4, <3>1, AppliedOK DEF ExitVerified
    <3>2. CASE ~AlreadyVerified(item)
      <4>1. Update(item, "exit", Closed(mem, item.sig)) /\ "exit" \in Written
        BY <1>4, <3>2 DEF ExitVerified, Written
      <4>2. Closed(mem, item.sig) \in Position
        BY <1>0, ClosedFields
      <4> QED BY <1>0, <4>1, <4>2, UpdateOK
    <3> QED BY <3>1, <3>2
  <2> QED BY <1>0, <2>1, <2>2, TypesFrom DEF RegistryOK, registry
<1>5. CASE ExitFailed(item) \/ ExitTimesOut(item)
  <2>1. /\ \/ Update(item, "retry_clear", Unstamped)
           \/ Update(item, "synthetic", WrittenOff)
        /\ UNCHANGED <<onChain, db, records, registry, Shared>>
    BY <1>5 DEF ExitFailed, FullExitFailed, ExitTimesOut
  <2>2. "retry_clear" \in Written /\ "synthetic" \in Written
    BY DEF Written
  <2>3. WorkerOK' /\ queue' \subseteq Item /\ mem' \in Position
    BY <1>0, <2>1, <2>2, UpdateOK, UnstampedFields, WrittenOffFields
  <2> QED BY <1>0, <2>1, <2>3, TypesFrom DEF RegistryOK, registry
<1>6. CASE PartialExitFailed(item)
  <2>1. DropPartials /\ Applied(item) /\ UNCHANGED <<onChain, books, Shared>>
    BY <1>6 DEF PartialExitFailed
  <2>2. RegistryOK' /\ WorkerOK' /\ queue' \subseteq Item
    BY <1>0, <2>1, DropOK, AppliedOK
  <2> QED BY <1>0, <2>1, <2>2, TypesFrom DEF books
<1>7. CASE RemoveOrphanEntry(item)
  <2>1. /\ mem' = [mem EXCEPT !.there = FALSE] /\ Applied(item)
        /\ lock' \in {None, lock}
        /\ UNCHANGED <<onChain, db, records, registry, call, boots, registered>>
    BY <1>7 DEF RemoveOrphanEntry
  <2>2. WorkerOK' /\ queue' \subseteq Item
    BY <1>0, <2>1, AppliedOK
  <2>3. mem' \in Position
    BY <1>0, <2>1 DEF Position
  <2> QED BY <1>0, <2>1, <2>2, <2>3
          DEF Types, ChainOK, Used, RestOK, CallsOK, RegistryOK, onChain, registry
<1>8. CASE Abandon(item)
  <2>1. UNCHANGED <<onChain, db, records, queue, Shared>>
    BY <1>8 DEF Abandon
  <2>2. \/ Doing(item, "clear", "abandoned") /\ UNCHANGED <<mem, registry>>
        \/ DropPartials /\ wrk' = Rest(item) /\ UNCHANGED mem
        \/ mem' = WrittenOff /\ Doing(item, "persist", "abandoned") /\ UNCHANGED registry
        \/ wrk' = Rest(item) /\ UNCHANGED <<mem, registry>>
    BY <1>8 DEF Abandon
  <2>3. "abandoned" \in Transition \ {"expired"} /\ "abandoned" \in Written
    BY DEF Transition, Written
  <2>4. RegistryOK' /\ WorkerOK' /\ mem' \in Position
    BY <1>0, <2>2, <2>3, DropOK, RestsOK, DoingOK, WrittenOffFields DEF RegistryOK, registry
  <2> QED BY <1>0, <2>1, <2>4, TypesFrom
<1> QED BY <1>1, <1>2, <1>3, <1>4, <1>5, <1>6, <1>7, <1>8 DEF Transitions

LEMMA KindOK == Kind \in Kinds
  BY DEF Kind, Kinds

\* The writes of a transition: where the worker goes next, and what it leaves alone.
LEMMA GoesOnOK ==
  ASSUME WorkerOK, wrk.at \notin Resting, NEW at \in {"record", "clear", "settle", "unstamp"},
         WorkerGoes(at)
  PROVE  WorkerOK'
<1>1. at \in Stages /\ at \notin Resting
  BY DEF Stages, Resting
<1> QED BY <1>1, GoesFields DEF WorkerOK

LEMMA ApplyTypes ==
  ASSUME Types, Apply
  PROVE  Types'
<1>0. /\ RegistryOK /\ WorkerOK /\ queue \subseteq Item /\ mem \in Position /\ db \in Position
      /\ records \subseteq Sigs
  BY DEF Types, RestOK
<1>1. wrk.at \in {"persist", "record", "clear", "store", "settle", "unstamp"}
      /\ wrk.at \notin Resting
  BY DEF Apply, Persist, PersistFails, Record, ClearPending, StorePending, StorePendingFails,
         Settle, Unstamp, WorkerAt, Resting
<1>2. wrk.item \in Item /\ wrk.item.sig \in Sigs
  BY <1>0, <1>1, WorkerFields DEF Item
<1>3. ASSUME \/ Applied(wrk.item) \/ NotApplied(wrk.item)
             \/ UNCHANGED queue /\ \E at \in {"record", "clear", "settle", "unstamp"} : WorkerGoes(at)
      PROVE  WorkerOK' /\ queue' \subseteq Item
  BY <1>0, <1>1, <1>2, <1>3, AppliedOK, NotAppliedOK, GoesOnOK
<1>4. CASE Persist
  BY <1>0, <1>3, <1>4, TypesFrom DEF Persist, RegistryOK, registry
<1>5. CASE PersistFails
  BY <1>0, <1>3, <1>5, TypesFrom DEF PersistFails, RegistryOK, registry, books
<1>6. CASE Record
  <2>1. RecordSig \in Sigs \cup {None}
    BY <1>2, MemFields DEF RecordSig
  <2>2. records' \subseteq Sigs
    BY <1>0, <1>6, <2>1 DEF Record
  <2> QED BY <1>0, <1>3, <1>6, <2>2, TypesFrom DEF Record, RegistryOK, registry
<1>7. CASE ClearPending
  <2>1. UNCHANGED <<onChain, books, metadata, partials, queue, Shared>>
    BY <1>7 DEF ClearPending
  <2>2. RegistryOK' /\ WorkerOK'
    <3>1. CASE wrk.item.sig \in pending[Kind]
      <4>1. /\ pending' = Without(pending, Kind, wrk.item.sig)
            /\ wrk' = [wrk EXCEPT !.at = "store", !.snap = pending'[Kind]]
        BY <1>7, <3>1 DEF ClearPending
      <4>2. pending' \in [Kinds -> SUBSET Sigs] /\ pending'[Kind] \in SUBSET Sigs
        BY <1>0, <1>2, <4>1, KindOK, WithoutOK
      <4>3. RegistryOK'
        BY <1>0, <2>1, <4>2 DEF RegistryOK
      <4> DEFINE set == pending'[Kind]
                 w1 == [wrk EXCEPT !.at = "store"]
      <4>4. w1 \in WorkerT /\ w1.at = "store" /\ w1.item = wrk.item /\ w1.doing = wrk.doing
            /\ w1.batch = wrk.batch
        BY <1>0 DEF WorkerOK, WorkerT, Stages
      <4>5. wrk' = [w1 EXCEPT !.snap = set]
        BY <4>1
      <4> HIDE DEF w1, set
      <4>6. wrk' \in WorkerT /\ wrk'.at = "store" /\ wrk'.item = wrk.item
            /\ wrk'.doing = wrk.doing /\ wrk'.batch = wrk.batch
        <5>1. set \in SUBSET Sigs
          BY <4>2 DEF set
        <5> QED BY <4>4, <4>5, <5>1 DEF WorkerT
      <4>7. WorkerOK'
        BY <1>0, <1>1, <4>6 DEF WorkerOK, Resting
      <4> QED BY <4>3, <4>7
    <3>2. CASE wrk.item.sig \notin pending[Kind]
      BY <1>0, <1>1, <1>7, <2>1, <3>2, GoesOnOK DEF ClearPending, RegistryOK
    <3> QED BY <3>1, <3>2
  <2> QED BY <1>0, <2>1, <2>2, TypesFrom DEF books
<1>8. CASE StorePending
  <2>1. RegistryOK'
    BY <1>0, <1>8, KindOK, PersistedOK, WorkerFields DEF StorePending, RegistryOK
  <2> QED BY <1>0, <1>3, <1>8, <2>1, TypesFrom DEF StorePending, books
<1>9. CASE StorePendingFails
  <2>1. RegistryOK'
    BY <1>0, <1>2, <1>9, KindOK, WithoutOK DEF StorePendingFails, RegistryOK
  <2> QED BY <1>0, <1>3, <1>9, <2>1, TypesFrom DEF StorePendingFails, books
<1>10. CASE Settle
  <2>1. RegistryOK'
    <3>1. partials' \in {partials, clear_partial_exit_pending(partials)}
      BY <1>10 DEF Settle
    <3> QED BY <1>0, <1>10, <3>1, CountsDown DEF Settle, RegistryOK
  <2> QED BY <1>0, <1>3, <1>10, <2>1, TypesFrom DEF Settle, books
<1>11. CASE Unstamp
  <2>1. Update(wrk.item, "retry_clear", Unstamped) /\ "retry_clear" \in Written
        /\ UNCHANGED <<onChain, db, records, registry, Shared>>
    BY <1>11 DEF Unstamp, Written
  <2>2. WorkerOK' /\ queue' \subseteq Item /\ mem' \in Position
    BY <1>0, <1>2, <2>1, UpdateOK, UnstampedFields
  <2> QED BY <1>0, <2>1, <2>2, TypesFrom DEF RegistryOK, registry
<1> QED BY <1>4, <1>5, <1>6, <1>7, <1>8, <1>9, <1>10, <1>11 DEF Apply

LEMMA GuardAdds ==
  ASSUME Types, Guard
  PROVE  /\ queue' \subseteq Item /\ queue \subseteq queue'
         /\ \A i \in queue' : i \in queue \/ (i.sig = mem.exitSig /\ ~mem.verified
                                              /\ \A j \in queue : j.sig # i.sig)
         /\ wrk.at = "cycle" /\ wrk' = [wrk EXCEPT !.at = "gc"]
         /\ UNCHANGED <<onChain, books, registry, call, lock, boots, registered>>
<1>1. \A i \in GuardItems : i \in Item /\ i.sig = mem.exitSig /\ ~mem.verified
  BY MemFields, NewItemFields DEF GuardItems
<1>2. \A i \in GuardItems : enqueue(queue, i) # queue => \A j \in queue : j.sig # i.sig
  BY DEF enqueue
<1>3. /\ queue' = queue \cup {i \in GuardItems : enqueue(queue, i) # queue}
      /\ wrk.at = "cycle" /\ wrk' = [wrk EXCEPT !.at = "gc"]
      /\ UNCHANGED <<onChain, books, registry, call, lock, boots, registered>>
  BY DEF Guard, WorkerAt
<1> QED BY <1>1, <1>2, <1>3 DEF Types, RestOK

LEMMA PollFields ==
  ASSUME WorkerOK, queue \subseteq Item, NEW batch \in SUBSET queue, Poll(batch)
  PROVE  /\ wrk' \in WorkerT /\ wrk'.at = "batch" /\ wrk'.batch = batch
         /\ wrk'.item = wrk.item /\ wrk'.doing = wrk.doing
         /\ WorkerOK' /\ wrk.at = "gc" /\ wrk.batch = {} /\ queue' = queue \ batch
         /\ UNCHANGED <<onChain, books, registry, call, lock, boots, registered>>
<1> DEFINE w1 == [wrk EXCEPT !.at = "batch"]
<1>1. wrk.at = "gc" /\ wrk' = [wrk EXCEPT !.at = "batch", !.batch = batch]
      /\ queue' = queue \ batch
      /\ UNCHANGED <<onChain, books, registry, call, lock, boots, registered>>
  BY DEF Poll, WorkerAt
<1>2. w1 \in WorkerT /\ w1.at = "batch" /\ w1.item = wrk.item /\ w1.doing = wrk.doing
  BY DEF WorkerOK, WorkerT, Stages
<1>3. wrk' = [w1 EXCEPT !.batch = batch]
  BY <1>1
<1>4. batch \in SUBSET Item
  OBVIOUS
<1> HIDE DEF w1
<1>5. wrk' \in WorkerT /\ wrk'.at = "batch" /\ wrk'.batch = batch
      /\ wrk'.item = wrk.item /\ wrk'.doing = wrk.doing
  BY <1>2, <1>3, <1>4 DEF WorkerT
<1>6. wrk.doing = None /\ None # "expired" /\ wrk.batch = {}
  BY <1>1, WorkerFields DEF Resting
<1> QED BY <1>1, <1>5, <1>6 DEF WorkerOK, Resting

LEMMA ExpireFields ==
  ASSUME WorkerOK, queue \subseteq Item, NEW item \in queue, ExpireDca(item)
  PROVE  /\ wrk' \in WorkerT /\ wrk'.at = "clear" /\ wrk'.batch = {}
         /\ wrk'.item = item /\ wrk'.doing = "expired"
         /\ WorkerOK' /\ wrk.at = "gc" /\ wrk.batch = {} /\ queue' = queue \ {item}
         /\ swap[item.sig].op = "dca" /\ Expired(item.sig)
         /\ UNCHANGED <<onChain, books, registry, call, lock, boots, registered>>
<1> DEFINE w1 == [wrk EXCEPT !.at = "clear"]
           w2 == [w1 EXCEPT !.item = item]
<1>1. /\ wrk.at = "gc" /\ queue' = queue \ {item}
      /\ wrk' = [wrk EXCEPT !.at = "clear", !.item = item, !.doing = "expired"]
      /\ swap[item.sig].op = "dca" /\ Expired(item.sig)
      /\ UNCHANGED <<onChain, books, registry, call, lock, boots, registered>>
  BY DEF ExpireDca, WorkerAt
<1>2. wrk.batch = {}
  BY <1>1, WorkerFields
<1>3. w1 \in WorkerT /\ w1.at = "clear" /\ w1.batch = {}
  BY <1>2 DEF WorkerOK, WorkerT, Stages
<1>4. w2 \in WorkerT /\ w2.at = "clear" /\ w2.batch = {} /\ w2.item = item
  <2> HIDE DEF w1
  <2> QED BY <1>3 DEF WorkerT
<1>5. wrk' = [w2 EXCEPT !.doing = "expired"]
  BY <1>1
<1> HIDE DEF w2
<1>6. wrk' \in WorkerT /\ wrk'.at = "clear" /\ wrk'.batch = {} /\ wrk'.item = item
      /\ wrk'.doing = "expired"
  BY <1>4, <1>5 DEF WorkerT, Transition
<1>7. "expired" \in Transition /\ item \in Item
  BY DEF Transition
<1> QED BY <1>1, <1>2, <1>6, <1>7 DEF WorkerOK, Resting

LEMMA CycleTypes ==
  ASSUME Types, Guard \/ Collect \/ EndBatch \/ \E batch \in SUBSET queue : Poll(batch)
  PROVE  Types'
<1>0. /\ RegistryOK /\ WorkerOK /\ queue \subseteq Item /\ mem \in Position /\ db \in Position
      /\ records \subseteq Sigs
  BY DEF Types, RestOK
<1>1. ASSUME NEW at \in {"gc", "cycle"}, wrk.at \in Resting, wrk.batch = {},
             wrk' = [wrk EXCEPT !.at = at]
      PROVE  WorkerOK'
  BY <1>0, <1>1, GoesFields, WorkerFields DEF WorkerOK, Stages, Resting, WorkerGoes
<1>2. CASE Guard
  <2>1. WorkerOK'
    BY <1>0, <1>1, <1>2, GuardAdds, WorkerFields DEF Resting
  <2> QED BY <1>0, <1>2, <2>1, GuardAdds, TypesFrom DEF RegistryOK, registry, books, Shared
<1>3. CASE EndBatch
  <2>1. WorkerOK'
    BY <1>1, <1>3 DEF EndBatch, WorkerAt, Resting
  <2> QED BY <1>0, <1>3, <2>1, TypesFrom DEF EndBatch, RegistryOK, registry, books, Shared
<1>4. ASSUME NEW batch \in SUBSET queue, Poll(batch)
      PROVE  Types'
  <2>1. queue' \subseteq Item
    BY <1>0, <1>4, PollFields
  <2> QED BY <1>0, <1>4, <2>1, PollFields, TypesFrom DEF RegistryOK, registry, books, Shared
<1>5. ASSUME NEW item \in queue, ExpireDca(item)
      PROVE  Types'
  <2>1. queue' \subseteq Item
    BY <1>0, <1>5, ExpireFields
  <2> QED BY <1>0, <1>5, <2>1, ExpireFields, TypesFrom DEF RegistryOK, registry, books, Shared
<1>6. ASSUME NEW item \in queue, RenewExit(item)
      PROVE  Types'
  <2>1. item \in Item /\ item.sig \in Sigs /\ item.known \in BOOLEAN
    BY <1>0 DEF Item
  <2>2. queue \ {item} \in SUBSET Item /\ NewItem(item.sig, item.known) \in Item
    BY <1>0, <2>1, NewItemFields
  <2>3. queue' \subseteq Item
    BY <1>6, <2>2, Enqueued DEF RenewExit
  <2>4. WorkerOK' /\ UNCHANGED <<onChain, books, registry, wrk, call, lock, boots, registered>>
    BY <1>0, <1>6 DEF RenewExit, WorkerOK
  <2> QED BY <1>0, <2>3, <2>4, TypesFrom DEF RegistryOK, registry, books, Shared
<1> QED BY <1>2, <1>3, <1>4, <1>5, <1>6 DEF Collect

LEMMA RestoredOK ==
  ASSUME Types
  PROVE  /\ RestoredItems \subseteq Item
         /\ \A i \in RestoredItems :
               i.known /\ (i.sig = db.exitSig \/ \E k \in Kinds : i.sig \in metadata[k])
<1> DEFINE exit == IF ~db.verified /\ db.exitSig # None THEN {db.exitSig} ELSE {}
<1>1. exit \subseteq Sigs /\ \A s \in exit : s = db.exitSig
  BY DEF Types, RestOK, Position
<1>2. metadata["dca"] \subseteq Sigs /\ metadata["partial"] \subseteq Sigs
  BY DEF Types, RegistryOK, Kinds
<1>3. RestoredItems = {NewItem(s, TRUE) : s \in exit \cup metadata["dca"] \cup metadata["partial"]}
  BY DEF RestoredItems
<1> HIDE DEF exit
<1>4. \A s \in exit \cup metadata["dca"] \cup metadata["partial"] :
         NewItem(s, TRUE) \in Item /\ NewItem(s, TRUE).sig = s /\ NewItem(s, TRUE).known
  BY <1>1, <1>2, NewItemFields
<1>5. "dca" \in Kinds /\ "partial" \in Kinds
  BY DEF Kinds
<1>6. ASSUME NEW i \in RestoredItems
      PROVE  i \in Item /\ i.known
             /\ (i.sig = db.exitSig \/ \E k \in Kinds : i.sig \in metadata[k])
  <2>1. PICK s \in exit \cup metadata["dca"] \cup metadata["partial"] : i = NewItem(s, TRUE)
    BY <1>3
  <2>2. i \in Item /\ i.known /\ i.sig = s
    BY <1>4, <2>1
  <2>3. s = db.exitSig \/ s \in metadata["dca"] \/ s \in metadata["partial"]
    BY <1>1
  <2> QED BY <1>5, <2>2, <2>3
<1> QED BY <1>6

LEMMA RestartOK ==
  ASSUME Types, Restart
  PROVE  /\ Types' /\ boots < MaxBoots /\ wrk'.at = "cycle" /\ wrk'.batch = {}
         /\ wrk'.item = None /\ wrk'.doing = None
         /\ \A c \in Callers : call'[c] = IdleCall
<1>1. /\ boots' = boots + 1 /\ boots < MaxBoots /\ mem' = db /\ pending' = metadata
      /\ partials' = Cardinality(metadata["partial"]) /\ queue' = RestoredItems
      /\ wrk' = [at |-> "cycle", batch |-> {}, item |-> None, doing |-> None, snap |-> {}]
      /\ call' = [c \in Callers |-> IdleCall] /\ lock' = None
      /\ UNCHANGED <<onChain, db, metadata, records, registered>>
  BY DEF Restart
<1>2. RegistryOK'
  <2>1. metadata["partial"] \subseteq Sigs
    BY DEF Types, RegistryOK, Kinds
  <2>2. IsFiniteSet(Sigs)
    BY FS_Interval DEF Sigs
  <2>3. Cardinality(metadata["partial"]) \in Nat
    BY <2>1, <2>2, FS_Subset, FS_CardinalityType
  <2> QED BY <1>1, <2>3 DEF Types, RegistryOK
<1>3. WorkerOK' /\ wrk'.at = "cycle" /\ wrk'.batch = {} /\ wrk'.item = None /\ wrk'.doing = None
  BY <1>1 DEF WorkerOK, WorkerT, Stages, Resting
<1>4. CallsOK' /\ \A c \in Callers : call'[c] = IdleCall
  BY <1>1, IdleOK DEF CallsOK, CallOK
<1>5. RestOK'
  BY <1>1, RestoredOK DEF Types, RestOK
<1>6. ChainOK'
  BY <1>1 DEF Types, ChainOK, Used, onChain
<1> QED BY <1>1, <1>2, <1>3, <1>4, <1>5, <1>6 DEF Types

LEMMA StutterTypes ==
  ASSUME Types, UNCHANGED vars
  PROVE  Types'
  BY DEF Types, vars, onChain, books, registry, ChainOK, Used, RestOK, RegistryOK, WorkerOK, CallsOK

LEMMA StepTypes ==
  ASSUME Types, [Next]_vars
  PROVE  Types'
  BY StutterTypes, CallerTypes, ChainTypes, CycleTypes, VerdictTypes, ApplyTypes, RestartOK
     DEF Next, Worker, Verify

LEMMA TypesInvariant == Spec => []Types
<1>1. Init => Types
  BY InitTypes
<1>2. Types /\ [Next]_vars => Types'
  BY StepTypes
<1> QED BY <1>1, <1>2, PTL DEF Spec

\* The variables hold what the code's types allow, with any faults and crashes.
THEOREM TypeCorrect == Spec => []TypeOK
<1>1. Types => TypeOK
  BY TypesImply
<1> QED BY <1>1, TypesInvariant, PTL

===============================================================================
