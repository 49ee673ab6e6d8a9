------------------------- MODULE WireService_proofs -------------------------
(***************************************************************************)
(* Proofs about the wire service, for any number of threads, flushes and   *)
(* ops, errors and crashes.                                                *)
(***************************************************************************)
EXTENDS WireService, SequenceTheorems, TLAPS

-----------------------------------------------------------------------------
(***************************************************************************)
(* The inductive invariant.                                                *)
(***************************************************************************)
Phases == {"new", "sealed", "rewriting", "rehydrating", "ready", "failed"}
Ops == [id : OpIds, kind : OpKinds]
DispatchCalls == [pc : {"idle", "draining", "journal", "ending"}, group : Seq(Ops),
                  record : Ops \cup {NoRecord}, result : {"ok", "error"}]
Tasks == [op : Ops, after : Nat, state : {"running", "done"}]
FlushCalls == [pc : {"idle", "waiting"}, waits : Nat, covers : SUBSET OpIds]
Spent == [ops : 0 .. MaxWireOps, flushes : Nat, mishaps : Nat]
Hist == [applied : SUBSET OpIds, returned : SUBSET OpIds, late : SUBSET OpIds, refused : SUBSET OpIds,
         dropped : SUBSET OpIds, flushed : SUBSET OpIds, overtaken : {"no", "yes"}]

WireTypes ==
    /\ journal \in Seq(WireRecords) /\ models \in Seq(WireRecords)
    /\ durable \in Nat /\ durable <= Len(journal)
    /\ phase \in Phases
    /\ calls \in [Threads -> DispatchCalls] /\ queue \in Seq(Ops)
    /\ dispatching \in {"no", "yes"} /\ drain_depth \in 0 .. MAX_DRAIN + 1
    /\ persists \in Seq(Tasks) /\ persist_tail \in Nat
    /\ flushes \in [Flushers -> FlushCalls]
    /\ wireHist \in Hist /\ wireSpent \in Spent

\* One thread drains, and none before restore has returned.
OneDrains ==
    /\ \A t, u \in Threads : calls[t].pc # "idle" /\ calls[u].pc # "idle" => t = u
    /\ \A t \in Threads : calls[t].pc # "idle" => dispatching = "yes"
    /\ \A t \in Threads : calls[t].pc \in {"idle", "ending"} => calls[t].group = <<>>
    /\ \A t \in Threads : calls[t].pc \in {"draining", "journal"} => drain_depth <= MAX_DRAIN
    /\ dispatching = "no" => queue = <<>> /\ drain_depth = 0
    /\ phase # "ready" =>
           /\ dispatching = "no" /\ wireHist.returned = {}
           /\ persists = <<>> /\ persist_tail = 0
           /\ \A f \in Flushers : flushes[f].pc = "idle"

\* An op that is applied comes before those in the group and in the queue.
Behind(x) ==
    /\ x <= wireSpent.ops
    /\ \A t \in Threads : \A i \in 1 .. Len(calls[t].group) : x < calls[t].group[i].id
    /\ \A i \in 1 .. Len(queue) : x < queue[i].id

RisingIds(ops) == \A i, j \in 1 .. Len(ops) : i < j => ops[i].id < ops[j].id

Numbered ==
    /\ \A t \in Threads : RisingIds(calls[t].group)
    /\ RisingIds(queue)
    /\ \A t \in Threads : \A i \in 1 .. Len(calls[t].group), j \in 1 .. Len(queue) :
           calls[t].group[i].id < queue[j].id
    /\ \A t \in Threads : \A i \in 1 .. Len(calls[t].group) : calls[t].group[i].id <= wireSpent.ops
    /\ \A i \in 1 .. Len(queue) : queue[i].id <= wireSpent.ops
    /\ \A i \in 1 .. Len(journal) : Behind(journal[i].op)
    /\ \A i \in 1 .. Len(models) : Behind(models[i].op)
    /\ \A i \in 1 .. Len(persists) : Behind(persists[i].op.id)
    /\ \A i, j \in 1 .. Len(persists) : i < j => persists[i].op.id < persists[j].op.id

\* What a dispatch was told Ok for is applied or waits; the queue that is about
\* to be cleared holds none of it.
Queued ==
    /\ \A x \in wireHist.returned \ (wireHist.late \cup wireHist.refused) :
           \/ \E i \in 1 .. Len(models) : models[i].op = x
           \/ \E i \in 1 .. Len(queue) : queue[i].id = x
           \/ \E t \in Threads : \E i \in 1 .. Len(calls[t].group) : calls[t].group[i].id = x
    /\ \A t \in Threads : calls[t].pc = "ending" =>
           \A i \in 1 .. Len(queue) : queue[i].id \in wireHist.late \cup wireHist.refused

\* Task w runs only after task i.
Chained(i, w) == i <= w /\ w <= Len(persists) /\ \A k \in i + 1 .. w : persists[k].after = k - 1
Runs(i) == i \in 1 .. Len(persists) /\ persists[i].state = "running"

\* A task awaits the one before it or none, and with no record appended past the
\* chain, there is one chain.
OneChain ==
    /\ \A i \in 1 .. Len(persists) : persists[i].after \in {0, i - 1}
    /\ persist_tail \in {0, Len(persists)}
    /\ \A f \in Flushers : flushes[f].waits <= Len(persists)
    /\ \A i, w \in Nat : Runs(i) /\ Chained(i, w) => Runs(w)
    /\ wireHist.overtaken = "no" => \A i \in Nat : Runs(i) => Chained(i, Len(persists))

\* With no record appended past the chain, journal and models are in order, and
\* what the chain will append comes behind the journal.
InTurn ==
    wireHist.overtaken = "no" =>
        /\ Increasing(journal) /\ Increasing(models)
        /\ \A i \in Nat : Runs(i) => \A j \in 1 .. Len(journal) : journal[j].op < persists[i].op.id

InJournal(x, n) == \E i \in 1 .. n : journal[i].op = x
Held(x) == \E t \in Threads : calls[t].pc = "journal" /\ calls[t].record.id = x

\* What is applied is in the journal or on its way: held by the thread that
\* applied it, or in a chain.  What a flush covers is in the chain it awaits.
Kept ==
    /\ \A x \in wireHist.applied \ wireHist.dropped :
           \/ InJournal(x, Len(journal)) \/ Held(x)
           \/ \E i \in Nat : Runs(i) /\ persists[i].op.id = x
    /\ \A f \in Flushers : flushes[f].pc = "waiting" => \A x \in flushes[f].covers \ wireHist.dropped :
           \/ InJournal(x, Len(journal))
           \/ \E i \in Nat : Runs(i) /\ Chained(i, flushes[f].waits) /\ persists[i].op.id = x
    /\ \A x \in wireHist.flushed \ wireHist.dropped : InJournal(x, durable)

\* The record a thread is about to append comes behind all that were handed to
\* the journal, and before what waits.
AtHand ==
    \A t \in Threads : calls[t].pc = "journal" =>
        /\ calls[t].record \in Ops /\ Behind(calls[t].record.id)
        /\ \A i \in 1 .. Len(journal) : journal[i].op < calls[t].record.id
        /\ \A i \in 1 .. Len(persists) : persists[i].op.id < calls[t].record.id

\* The metadata and the forms of the records, by the version the journal has.
Shaped ==
    /\ \A i \in 1 .. Len(journal) : (journal[i].kind = "meta" <=> journal[i].op = 0) /\ (journal[i].op = 0 => i = 1)
    /\ journal # <<>> /\ Version(journal) < 2 => \A i \in 1 .. Len(journal) : journal[i].form = Version(journal)
    /\ journal # <<>> /\ Version(journal) = 2 =>
           /\ durable >= 2 /\ journal[1] = Meta(2) /\ journal[2] = Rec(OldOp, 2)
           /\ \A i \in 3 .. Len(journal) : journal[i].form = 1
    /\ \A i \in 1 .. Len(models) : models[i].form >= 1 /\ models[i].kind # "meta" /\ models[i].op # 0
    /\ phase \in {"sealed", "rewriting", "rehydrating", "ready"} => journal # <<>>
    /\ phase = "rewriting" => Version(journal) = 0
    /\ phase \in {"rehydrating", "ready"} => Version(journal) # 0

WireInv == WireTypes /\ OneDrains /\ Numbered /\ Queued /\ OneChain /\ InTurn /\ Kept /\ Shaped /\ AtHand

-----------------------------------------------------------------------------
(***************************************************************************)
(* What the types say, in the terms of the parts.                          *)
(***************************************************************************)
LEMMA TypeFacts ==
    ASSUME WireTypes
    PROVE  /\ Len(journal) \in Nat /\ DOMAIN journal = 1 .. Len(journal)
           /\ Len(models) \in Nat /\ DOMAIN models = 1 .. Len(models)
           /\ Len(queue) \in Nat /\ DOMAIN queue = 1 .. Len(queue)
           /\ Len(persists) \in Nat /\ DOMAIN persists = 1 .. Len(persists)
           /\ durable \in Nat /\ durable <= Len(journal) /\ wireSpent.ops \in Nat /\ wireSpent.ops <= MaxWireOps
           /\ \A i \in 1 .. Len(journal) : journal[i] \in WireRecords /\ journal[i].op \in Nat
           /\ \A i \in 1 .. Len(models) : models[i] \in WireRecords /\ models[i].op \in Nat
           /\ \A i \in 1 .. Len(queue) : queue[i] \in Ops /\ queue[i].id \in Nat /\ queue[i].id # 0
           /\ \A t \in Threads : /\ calls[t] \in DispatchCalls /\ calls[t].group \in Seq(Ops)
                                 /\ Len(calls[t].group) \in Nat /\ DOMAIN calls[t].group = 1 .. Len(calls[t].group)
           /\ \A t \in Threads : \A i \in 1 .. Len(calls[t].group) :
                  calls[t].group[i] \in Ops /\ calls[t].group[i].id \in Nat /\ calls[t].group[i].id # 0
           /\ \A i \in 1 .. Len(persists) :
                  persists[i] \in Tasks /\ persists[i].op \in Ops /\ persists[i].op.id \in Nat /\ persists[i].op.id # 0
           /\ \A f \in Flushers : flushes[f] \in FlushCalls /\ flushes[f].waits \in Nat
  <1>1. MaxWireOps \in Nat /\ OpIds \subseteq Nat /\ 0 \notin OpIds
    BY WireAssumption DEF OpIds
  <1>2. \A r \in WireRecords : r.op \in Nat
    BY <1>1 DEF WireRecords
  <1>3. \A op \in Ops : op.id \in Nat /\ op.id # 0
    BY <1>1 DEF Ops
  <1>4. \A p \in Tasks : p.op \in Ops
    BY DEF Tasks
  <1>5. \A c \in DispatchCalls : c.group \in Seq(Ops)
    BY DEF DispatchCalls
  <1>6. \A c \in FlushCalls : c.waits \in Nat
    BY DEF FlushCalls
  <1>7. wireSpent.ops \in Nat /\ wireSpent.ops <= MaxWireOps
    BY <1>1 DEF WireTypes, Spent
  <1>8. /\ Len(journal) \in Nat /\ DOMAIN journal = 1 .. Len(journal) /\ durable \in Nat /\ durable <= Len(journal)
        /\ \A i \in 1 .. Len(journal) : journal[i] \in WireRecords
    BY DEF WireTypes
  <1>9. /\ Len(models) \in Nat /\ DOMAIN models = 1 .. Len(models)
        /\ \A i \in 1 .. Len(models) : models[i] \in WireRecords
    BY DEF WireTypes
  <1>10. /\ Len(queue) \in Nat /\ DOMAIN queue = 1 .. Len(queue)
         /\ \A i \in 1 .. Len(queue) : queue[i] \in Ops
    BY DEF WireTypes
  <1>11. /\ Len(persists) \in Nat /\ DOMAIN persists = 1 .. Len(persists)
         /\ \A i \in 1 .. Len(persists) : persists[i] \in Tasks
    BY DEF WireTypes
  <1>12. \A t \in Threads : calls[t] \in DispatchCalls
    BY DEF WireTypes
  <1>13. \A t \in Threads : calls[t].group \in Seq(Ops)
    BY <1>5, <1>12
  <1>14. \A t \in Threads : /\ Len(calls[t].group) \in Nat /\ DOMAIN calls[t].group = 1 .. Len(calls[t].group)
                            /\ \A i \in 1 .. Len(calls[t].group) : calls[t].group[i] \in Ops
    BY <1>13
  <1>15. \A f \in Flushers : flushes[f] \in FlushCalls
    BY DEF WireTypes
  <1> QED BY <1>2, <1>3, <1>4, <1>6, <1>7, <1>8, <1>9, <1>10, <1>11, <1>12, <1>13, <1>14, <1>15

\* The record of an op.
LEMMA RecordOf ==
    ASSUME NEW op \in Ops
    PROVE  /\ Rec(op, 1) \in WireRecords /\ Rec(op, 1).op = op.id /\ Rec(op, 1).kind # "meta" /\ Rec(op, 1).form = 1
           /\ op.id \in OpIds /\ op.id \in Nat /\ op.id # 0
  <1>1. op.id \in OpIds /\ op.kind \in OpKinds /\ "meta" \notin OpKinds
    BY DEF Ops, OpKinds
  <1>2. op.id \in 0 .. MaxWireOps /\ op.id \in Nat /\ op.id # 0
    BY <1>1, WireAssumption DEF OpIds
  <1> QED BY <1>1, <1>2 DEF Rec, WireRecords

\* Before restore has returned there is nothing but the journal and the models.
LEMMA NothingDispatched ==
    ASSUME WireTypes, OneDrains, phase # "ready"
    PROVE  /\ \A t \in Threads : calls[t].pc = "idle" /\ calls[t].group = <<>> /\ Len(calls[t].group) = 0
           /\ queue = <<>> /\ Len(queue) = 0 /\ persists = <<>> /\ Len(persists) = 0 /\ persist_tail = 0
           /\ wireHist.returned = {} /\ \A f \in Flushers : flushes[f].pc = "idle"
           /\ \A i : ~Runs(i)
  <1>1. Len(<<>>) = 0 /\ 1 .. 0 = {}
    OBVIOUS
  <1>2. dispatching = "no"
    BY DEF OneDrains
  <1>3. \A t \in Threads : calls[t].pc = "idle" /\ calls[t].group = <<>>
    BY <1>2 DEF OneDrains
  <1>4. queue = <<>> /\ persists = <<>> /\ persist_tail = 0 /\ wireHist.returned = {} /\ \A f \in Flushers : flushes[f].pc = "idle"
    BY <1>2 DEF OneDrains
  <1>5. \A i : ~Runs(i)
    BY <1>1, <1>4 DEF Runs
  <1> QED BY <1>1, <1>3, <1>4, <1>5

\* The parts that do not mention the dispatching threads.
LEMMA DispatchFrame ==
    ASSUME WireInv, UNCHANGED <<journal, durable, models, phase, persistVars, flushes>>,
           wireHist'.applied = wireHist.applied, wireHist'.dropped = wireHist.dropped,
           wireHist'.flushed = wireHist.flushed, wireHist'.overtaken = wireHist.overtaken,
           \A u \in Threads : calls[u].pc = "journal" => calls'[u] = calls[u]
    PROVE  OneChain' /\ InTurn' /\ Kept' /\ Shaped'
  <1>1. OneChain'
    BY DEF WireInv, OneChain, Runs, Chained, persistVars
  <1>2. InTurn'
    BY DEF WireInv, InTurn, Runs, Increasing, persistVars
  <1>3. Kept'
    <2>1. \A x : Held(x) => Held(x)'
      BY DEF Held
    <2>2. UNCHANGED <<journal, durable, persists, flushes>> /\ Kept
      BY DEF WireInv, persistVars
    <2>3. \A x \in wireHist'.applied \ wireHist'.dropped :
             \/ InJournal(x, Len(journal))' \/ Held(x)'
             \/ \E i \in Nat : Runs(i)' /\ persists'[i].op.id = x
      BY <2>1, <2>2 DEF Kept, Runs, InJournal
    <2> QED BY <2>2, <2>3 DEF Kept, Runs, Chained, InJournal
  <1>4. Shaped'
    BY DEF WireInv, Shaped, Version
  <1> QED BY <1>1, <1>2, <1>3, <1>4

-----------------------------------------------------------------------------
(***************************************************************************)
(* The initial states.                                                     *)
(***************************************************************************)
LEMMA JournalsAre ==
    ASSUME NEW j \in Journals
    PROVE  /\ j \in Seq(WireRecords) /\ Len(j) \in 0 .. 2
           /\ j = <<>> \/ (Len(j) # 0 /\ \E i \in 1 .. Len(j) : j[i].op = 1)
           /\ \A i \in 1 .. Len(j) : /\ j[i].op \in {0, 1} /\ (j[i].kind = "meta" <=> j[i].op = 0) /\ (j[i].op = 0 => i = 1)
           /\ \A i, k \in 1 .. Len(j) : i < k => j[i].op < j[k].op
           /\ j # <<>> => Version(j) \in 0 .. 2 /\ \A i \in 1 .. Len(j) : j[i].form = Version(j)
           /\ j # <<>> /\ Version(j) = 2 => j = <<Meta(2), Rec(OldOp, 2)>>
  <1>1. MaxWireOps \in Nat /\ MaxWireOps >= 1
    BY WireAssumption
  <1>2. \A form \in 0 .. 2 : /\ Meta(form) \in WireRecords /\ Rec(OldOp, form) \in WireRecords
                             /\ Meta(form).op = 0 /\ Meta(form).kind = "meta" /\ Meta(form).form = form
                             /\ Rec(OldOp, form).op = 1 /\ Rec(OldOp, form).kind = "plain" /\ Rec(OldOp, form).form = form
    BY <1>1 DEF Meta, Rec, OldOp, WireRecords, OpKinds
  <1>3. CASE j = <<>>
    BY <1>3
  <1>4. ASSUME NEW form \in 0 .. 2, NEW m, NEW r, m = Meta(form), r = Rec(OldOp, form), j = <<m, r>>
        PROVE  /\ j \in Seq(WireRecords) /\ Len(j) = 2 /\ j # <<>> /\ j[1] = m /\ j[2] = r /\ Head(j) = m
               /\ Version(j) = form
    <2>1. m \in WireRecords /\ r \in WireRecords /\ m.kind = "meta" /\ m.form = form
      BY <1>2, <1>4
    <2>2. j \in Seq(WireRecords) /\ Len(j) = 2 /\ j # <<>> /\ j[1] = m /\ j[2] = r /\ Head(j) = m
      BY <2>1, <1>4
    <2> QED BY <2>1, <2>2 DEF Version
  <1>5. ASSUME NEW form \in 0 .. 2, j = <<Meta(form), Rec(OldOp, form)>>
        PROVE  /\ j \in Seq(WireRecords) /\ Len(j) = 2 /\ j # <<>> /\ j[1] = Meta(form) /\ j[2] = Rec(OldOp, form)
               /\ Version(j) = form
    BY <1>4, <1>5
  <1>6. ASSUME j = <<Rec(OldOp, 0)>>
        PROVE  j \in Seq(WireRecords) /\ Len(j) = 1 /\ j # <<>> /\ j[1] = Rec(OldOp, 0) /\ Version(j) = 0
    <2>1. PICK r : r = Rec(OldOp, 0)
      OBVIOUS
    <2>2. r \in WireRecords /\ r.kind # "meta"
      BY <1>2, <2>1
    <2>3. j \in Seq(WireRecords) /\ Len(j) = 1 /\ j # <<>> /\ j[1] = r /\ Head(j) = r
      BY <2>1, <2>2, <1>6
    <2> QED BY <2>1, <2>2, <2>3 DEF Version
  <1>7. CASE j = <<Rec(OldOp, 0)>>
    <2>1. \A i \in 1 .. 1 : i = 1
      OBVIOUS
    <2> QED BY <1>2, <1>6, <1>7, <2>1
  <1>8. ASSUME NEW form \in 0 .. 2, j = <<Meta(form), Rec(OldOp, form)>>
        PROVE  /\ j \in Seq(WireRecords) /\ Len(j) = 2 /\ \E i \in 1 .. Len(j) : j[i].op = 1
               /\ \A i \in 1 .. Len(j) : /\ j[i].op \in {0, 1} /\ (j[i].kind = "meta" <=> j[i].op = 0) /\ (j[i].op = 0 => i = 1)
               /\ \A i, k \in 1 .. Len(j) : i < k => j[i].op < j[k].op
               /\ Version(j) = form /\ \A i \in 1 .. Len(j) : j[i].form = form
    <2>1. \A i \in 1 .. 2 : i = 1 \/ i = 2
      OBVIOUS
    <2> QED BY <1>2, <1>5, <1>8, <2>1
  <1>9. CASE \E form \in 0 .. 2 : j = <<Meta(form), Rec(OldOp, form)>>
    BY <1>8, <1>9
  <1> QED BY <1>3, <1>7, <1>9 DEF Journals

LEMMA WireInvInit == WireInit => WireInv
  <1> SUFFICES ASSUME WireInit PROVE WireInv
    OBVIOUS
  <1>1. journal \in Journals
    BY DEF WireInit
  <1>2. Len(<<>>) = 0 /\ 1 .. 0 = {} /\ 1 \in OpIds /\ OpIds \subseteq Nat /\ 0 \notin OpIds
    BY WireAssumption DEF OpIds
  <1>3. /\ \A t \in Threads : calls[t].pc = "idle" /\ calls[t].group = <<>>
        /\ calls \in [Threads -> DispatchCalls]
    BY DEF WireInit, Idle, DispatchCalls
  <1>4. flushes \in [Flushers -> FlushCalls] /\ \A f \in Flushers : flushes[f].pc = "idle" /\ flushes[f].waits = 0
    BY DEF WireInit, Rested, FlushCalls
  <1>5. /\ queue = <<>> /\ persists = <<>> /\ models = <<>> /\ dispatching = "no" /\ drain_depth = 0 /\ persist_tail = 0
        /\ phase = "new" /\ durable = Len(journal)
    BY DEF WireInit
  <1>6. wireHist \in Hist /\ wireHist.returned = {} /\ wireHist.dropped = {} /\ wireHist.flushed = {}
    BY <1>2 DEF WireInit, WireHistInit, Hist
  <1>7. wireHist.applied = IF journal = <<>> THEN {} ELSE {1}
    BY DEF WireInit, WireHistInit
  <1>8. wireSpent \in Spent /\ wireSpent.ops = IF journal = <<>> THEN 0 ELSE 1
    BY WireAssumption DEF WireInit, Spent
  <1>9. WireTypes
    BY <1>1, <1>2, <1>3, <1>4, <1>5, <1>6, <1>8, JournalsAre, WireAssumption DEF WireTypes, Phases
  <1>10. OneDrains
    BY <1>3, <1>4, <1>5, <1>6 DEF OneDrains
  <1>11. \A i : ~Runs(i)
    BY <1>2, <1>5 DEF Runs
  <1>12. Numbered
    <2>1. \A i \in 1 .. Len(journal) : journal[i].op \in Nat /\ journal[i].op <= wireSpent.ops
      BY <1>1, <1>2, <1>8, JournalsAre
    <2> QED BY <2>1, <1>2, <1>3, <1>5 DEF Numbered, Behind, RisingIds
  <1>13. Queued
    BY <1>2, <1>3, <1>5, <1>6 DEF Queued
  <1>14. OneChain
    BY <1>2, <1>4, <1>5, <1>11 DEF OneChain
  <1>15. InTurn
    <2>1. DOMAIN journal = 1 .. Len(journal) /\ DOMAIN models = 1 .. Len(models)
      BY <1>9, TypeFacts
    <2> QED BY <2>1, <1>1, <1>2, <1>5, <1>11, JournalsAre DEF InTurn, Increasing
  <1>16. Kept
    BY <1>1, <1>4, <1>6, <1>7, <1>11, JournalsAre DEF Kept, InJournal
  <1>17. Shaped
    <2>1. ASSUME journal # <<>>, Version(journal) = 2
          PROVE  durable >= 2 /\ journal[1] = Meta(2) /\ journal[2] = Rec(OldOp, 2) /\ 3 .. Len(journal) = {}
      <3>1. PICK m, r : m = Meta(2) /\ r = Rec(OldOp, 2)
        OBVIOUS
      <3>2. journal = <<m, r>>
        BY <3>1, <2>1, <1>1, JournalsAre
      <3> QED BY <3>1, <3>2, <1>5
    <2> QED BY <2>1, <1>1, <1>2, <1>5, JournalsAre DEF Shaped
  <1>18. AtHand
    BY <1>3 DEF AtHand
  <1> QED BY <1>9, <1>10, <1>12, <1>13, <1>14, <1>15, <1>16, <1>17, <1>18 DEF WireInv

-----------------------------------------------------------------------------
(***************************************************************************)
(* dispatch.                                                               *)
(***************************************************************************)
LEMMA DispatchKeeps ==
    ASSUME WireInv, NEW t \in Threads, NEW kind \in OpKinds, Dispatch(t, kind)
    PROVE  WireInv'
  <1>1. WireTypes /\ OneDrains /\ Numbered /\ Queued
    BY DEF WireInv
  <1>2. PICK op : op = [id |-> wireSpent.ops + 1, kind |-> kind]
    OBVIOUS
  <1>3. /\ UNCHANGED <<journal, durable, models, phase, drain_depth, persistVars, flushes>> /\ phase = "ready"
        /\ wireSpent.ops < MaxWireOps /\ wireSpent' = [wireSpent EXCEPT !["ops"] = @ + 1]
    BY DEF Dispatch, WireSpend
  <1>4. op \in Ops /\ op.id = wireSpent.ops + 1 /\ op.id \in OpIds /\ op.id \in Nat
    BY <1>2, <1>3, <1>1, TypeFacts, WireAssumption DEF Ops, OpIds
  <1>5. wireSpent' \in Spent /\ wireSpent'.ops = op.id
    <2>1. op.id \in 0 .. MaxWireOps
      BY <1>4, WireAssumption DEF OpIds
    <2>2. wireSpent \in Spent /\ wireSpent' = [wireSpent EXCEPT !.ops = op.id]
      BY <1>1, <1>3, <1>4 DEF WireTypes
    <2> QED BY <2>1, <2>2 DEF Spent
  <1>6. \A x \in Int : x <= wireSpent.ops => x < op.id /\ x <= wireSpent'.ops
    BY <1>1, <1>4, <1>5, TypeFacts
  <1>7. CASE /\ dispatching = "yes"
             /\ queue' = Append(queue, op)
             /\ wireHist' = [wireHist EXCEPT
                    !.returned = @ \cup {op.id},
                    !.late = IF \E u \in Threads : calls[u].pc = "ending" THEN @ \cup {op.id} ELSE @]
             /\ UNCHANGED <<calls, dispatching>>
    <2>1. /\ wireHist' \in Hist /\ wireHist'.applied = wireHist.applied /\ wireHist'.dropped = wireHist.dropped
          /\ wireHist'.flushed = wireHist.flushed /\ wireHist'.overtaken = wireHist.overtaken
          /\ wireHist'.returned = wireHist.returned \cup {op.id} /\ wireHist'.refused = wireHist.refused
          /\ wireHist'.late = IF \E u \in Threads : calls[u].pc = "ending" THEN wireHist.late \cup {op.id} ELSE wireHist.late
      BY <1>1, <1>4, <1>7 DEF WireTypes, Hist
    <2>2. OneChain' /\ InTurn' /\ Kept' /\ Shaped'
      BY <1>3, <1>7, <2>1, DispatchFrame
    <2>3. PICK n \in Nat : n = Len(queue)
      BY <1>1, TypeFacts
    <2>4. /\ queue' \in Seq(Ops) /\ Len(queue') = n + 1 /\ queue'[n + 1] = op
          /\ \A i \in 1 .. n : queue'[i] = queue[i]
      BY <1>1, <1>4, <1>7, <2>3 DEF WireTypes
    <2>5. (\A i \in 1 .. n + 1 : i \in 1 .. n \/ i = n + 1) /\ 1 .. n \subseteq 1 .. n + 1 /\ n + 1 \in 1 .. n + 1
      OBVIOUS
    <2>6. WireTypes'
      BY <1>1, <1>3, <1>5, <1>7, <2>1, <2>4 DEF WireTypes, persistVars
    <2>7. OneDrains'
      BY <1>1, <1>3, <1>7 DEF OneDrains, persistVars
    <2>8. Numbered'
      <3>1. \A i \in 1 .. n : queue[i].id \in Nat /\ queue[i].id < op.id /\ queue[i].id <= wireSpent'.ops
        BY <1>1, <1>6, <2>3, TypeFacts DEF Numbered
      <3>2. RisingIds(queue')
        <4> SUFFICES ASSUME NEW i \in 1 .. n + 1, NEW j \in 1 .. n + 1, i < j PROVE queue'[i].id < queue'[j].id
          BY <2>4 DEF RisingIds
        <4>1. i \in 1 .. n
          OBVIOUS
        <4>2. CASE j \in 1 .. n
          BY <4>1, <4>2, <2>3, <2>4, <1>1 DEF Numbered, RisingIds
        <4>3. CASE j = n + 1
          BY <4>1, <4>3, <3>1, <2>4
        <4> QED BY <4>2, <4>3, <2>5
      <3>3. \A u \in Threads : \A i \in 1 .. Len(calls[u].group) :
                calls[u].group[i].id \in Nat /\ calls[u].group[i].id < op.id /\ calls[u].group[i].id <= wireSpent'.ops
        <4>1. \A u \in Threads : \A i \in 1 .. Len(calls[u].group) :
                  calls[u].group[i].id \in Nat /\ calls[u].group[i].id <= wireSpent.ops
          BY <1>1, TypeFacts DEF Numbered
        <4> QED BY <4>1, <1>6
      <3>4. \A u \in Threads : \A i \in 1 .. Len(calls[u].group), j \in 1 .. n + 1 : calls[u].group[i].id < queue'[j].id
        BY <3>3, <2>3, <2>4, <2>5, <1>1 DEF Numbered
      <3>5. \A i \in 1 .. n + 1 : queue'[i].id <= wireSpent'.ops
        BY <3>1, <2>4, <2>5, <1>4, <1>5
      <3>6. \A x \in Int : Behind(x) => Behind(x)'
        BY <1>6, <1>7, <2>3, <2>4, <2>5 DEF Behind
      <3>7. /\ \A i \in 1 .. Len(journal) : journal[i].op \in Int
            /\ \A i \in 1 .. Len(models) : models[i].op \in Int
            /\ \A i \in 1 .. Len(persists) : persists[i].op.id \in Int
        BY <1>1, TypeFacts
      <3> QED BY <3>2, <3>3, <3>4, <3>5, <3>6, <3>7, <2>4, <1>1, <1>3, <1>7 DEF Numbered, persistVars
    <2>9. Queued'
      <3>1. \A u \in Threads : calls[u].pc = "ending" => \A i \in 1 .. n + 1 : queue'[i].id \in wireHist'.late \cup wireHist'.refused
        BY <2>1, <2>3, <2>4, <2>5, <1>1 DEF Queued
      <3>2. \A i \in 1 .. n : \E j \in 1 .. n + 1 : queue'[j].id = queue[i].id
        BY <2>4, <2>5
      <3>3. \E j \in 1 .. n + 1 : queue'[j].id = op.id
        BY <2>4, <2>5
      <3>4. \A x \in wireHist'.returned \ (wireHist'.late \cup wireHist'.refused) :
               x = op.id \/ x \in wireHist.returned \ (wireHist.late \cup wireHist.refused)
        BY <2>1
      <3>5. \A x \in wireHist'.returned \ (wireHist'.late \cup wireHist'.refused) :
               \/ \E i \in 1 .. Len(models') : models'[i].op = x
               \/ \E i \in 1 .. Len(queue') : queue'[i].id = x
               \/ \E u \in Threads : \E i \in 1 .. Len(calls'[u].group) : calls'[u].group[i].id = x
        <4> TAKE x \in wireHist'.returned \ (wireHist'.late \cup wireHist'.refused)
        <4>1. CASE x = op.id
          BY <4>1, <3>3, <2>4
        <4>2. CASE x \in wireHist.returned \ (wireHist.late \cup wireHist.refused)
          <5>1. \/ \E i \in 1 .. Len(models) : models[i].op = x
                \/ \E i \in 1 .. n : queue[i].id = x
                \/ \E u \in Threads : \E i \in 1 .. Len(calls[u].group) : calls[u].group[i].id = x
            <6>1. Queued /\ Len(queue) = n
              BY ONLY <1>1, <2>3
            <6> QED BY ONLY <6>1, <4>2 DEF Queued
          <5> QED BY <5>1, <3>2, <2>3, <2>4, <1>3, <1>7
        <4> QED BY <4>1, <4>2, <3>4
      <3>6. \A u \in Threads : calls'[u].pc = "ending" =>
               \A i \in 1 .. Len(queue') : queue'[i].id \in wireHist'.late \cup wireHist'.refused
        <4>1. calls' = calls /\ Len(queue') = n + 1
          BY <1>7, <2>4
        <4> QED BY ONLY <4>1, <3>1
      <3> QED BY ONLY <3>5, <3>6 DEF Queued
    <2>10. AtHand'
      <3>1. \A x \in Int : Behind(x) => Behind(x)'
        BY <1>6, <1>7, <2>3, <2>4, <2>5 DEF Behind
      <3>2. ASSUME NEW u \in Threads, calls[u].pc = "journal"
            PROVE  /\ calls[u].record \in Ops /\ Behind(calls[u].record.id)'
                   /\ \A i \in 1 .. Len(journal) : journal[i].op < calls[u].record.id
                   /\ \A i \in 1 .. Len(persists) : persists[i].op.id < calls[u].record.id
        <4>1. PICK x : x = calls[u].record.id
          OBVIOUS
        <4>2. /\ calls[u].record \in Ops /\ Behind(x)
              /\ \A i \in 1 .. Len(journal) : journal[i].op < calls[u].record.id
              /\ \A i \in 1 .. Len(persists) : persists[i].op.id < calls[u].record.id
          BY <3>2, <4>1 DEF WireInv, AtHand
        <4>3. x \in Nat
          BY <4>1, <4>2, RecordOf
        <4>4. Behind(x)'
          BY <3>1, <4>2, <4>3
        <4>5. Behind(calls[u].record.id)'
          BY <4>1, <4>4, <1>7 DEF Behind
        <4> QED BY <4>2, <4>5
      <3> QED BY <3>2, <1>3, <1>7 DEF AtHand, persistVars
    <2> QED BY <2>2, <2>6, <2>7, <2>8, <2>9, <2>10 DEF WireInv
  <1>8. CASE /\ dispatching = "no" /\ First(calls, t)
             /\ dispatching' = "yes"
             /\ calls' = [calls EXCEPT ![t] =
                    [pc |-> "draining", group |-> <<op>>, record |-> NoRecord, result |-> "ok"]]
             /\ UNCHANGED <<queue, wireHist>>
    <2>1. OneChain' /\ InTurn' /\ Kept' /\ Shaped'
      <3>1. \A u \in Threads : calls[u].pc # "journal"
        BY <1>1, <1>8 DEF OneDrains
      <3> QED BY <3>1, <1>3, <1>8, DispatchFrame
    <2>2. PICK group : group = <<op>>
      OBVIOUS
    <2>3. group \in Seq(Ops) /\ Len(group) = 1 /\ group[1] = op /\ \A i \in 1 .. 1 : i = 1
      BY <1>4, <2>2
    <2>4. /\ calls' \in [Threads -> DispatchCalls]
          /\ \A u \in Threads : u # t => calls'[u] = calls[u]
          /\ calls'[t].pc = "draining" /\ calls'[t].group = group
      BY <1>1, <1>8, <2>2, <2>3 DEF WireTypes, DispatchCalls
    <2>5. \A u \in Threads : calls[u].pc = "idle" /\ calls[u].group = <<>> /\ Len(calls[u].group) = 0
      BY <1>1, <1>8 DEF OneDrains
    <2>6. queue = <<>> /\ Len(queue) = 0 /\ 1 .. 0 = {} /\ drain_depth = 0
      BY <1>1, <1>8 DEF OneDrains
    <2>7. WireTypes'
      BY <1>1, <1>3, <1>5, <1>8, <2>4 DEF WireTypes, persistVars
    <2>8. OneDrains'
      BY <1>1, <1>3, <1>8, <2>4, <2>5, <2>6, WireAssumption DEF OneDrains, persistVars
    <2>9. Numbered'
      <3>1. \A u \in Threads : \A i \in 1 .. Len(calls'[u].group) : u = t /\ i = 1 /\ calls'[u].group[i] = op
        <4> TAKE u \in Threads
        <4>1. CASE u = t
          BY <4>1, <2>3, <2>4
        <4>2. CASE u # t
          BY <4>2, <2>4, <2>5, <2>6
        <4> QED BY <4>1, <4>2
      <3>2. \A x \in Int : Behind(x) => Behind(x)'
        BY <3>1, <2>6, <1>6, <1>8 DEF Behind
      <3>3. /\ \A i \in 1 .. Len(journal) : journal[i].op \in Int
            /\ \A i \in 1 .. Len(models) : models[i].op \in Int
            /\ \A i \in 1 .. Len(persists) : persists[i].op.id \in Int
        BY <1>1, TypeFacts
      <3>4. \A u \in Threads : RisingIds(calls'[u].group)
        BY <3>1 DEF RisingIds
      <3>5. \A u \in Threads : \A i \in 1 .. Len(calls'[u].group) : calls'[u].group[i].id <= wireSpent'.ops
        BY <3>1, <1>4, <1>5
      <3> QED BY <3>2, <3>3, <3>4, <3>5, <2>6, <1>1, <1>3, <1>8 DEF Numbered, persistVars, RisingIds
    <2>10. Queued'
      BY <2>5, <2>6, <1>1, <1>3, <1>8 DEF Queued
    <2>11. AtHand'
      <3>1. \A u \in Threads : calls'[u].pc # "journal"
        BY <2>4, <2>5
      <3> QED BY <3>1 DEF AtHand
    <2> QED BY <2>1, <2>7, <2>8, <2>9, <2>10, <2>11 DEF WireInv
  <1> QED BY <1>2, <1>7, <1>8 DEF Dispatch

\* A thread whose group and queue become smaller, or change hands.
LEMMA PendingShrinks ==
    ASSUME WireInv, UNCHANGED <<journal, models, persists>>, wireSpent'.ops = wireSpent.ops,
           \A t \in Threads : \A i \in 1 .. Len(calls'[t].group) :
               \/ i \in 1 .. Len(calls[t].group) /\ calls'[t].group[i] = calls[t].group[i]
               \/ queue' = <<>> /\ i \in 1 .. Len(queue) /\ calls'[t].group = queue,
           \A i \in 1 .. Len(queue') : i \in 1 .. Len(queue) /\ queue'[i] = queue[i],
           \A t \in Threads : calls'[t].group = calls[t].group \/ calls'[t].group = queue \/ calls'[t].group = <<>>,
           queue' = queue \/ queue' = <<>>
    PROVE  Numbered'
  <1>1. Numbered /\ WireTypes
    BY DEF WireInv
  <1>2. Len(<<>>) = 0 /\ 1 .. 0 = {}
    OBVIOUS
  <1>3. \A t \in Threads : RisingIds(calls'[t].group)
    BY <1>1, <1>2 DEF Numbered, RisingIds
  <1>4. RisingIds(queue')
    BY <1>1, <1>2 DEF Numbered, RisingIds
  <1>5. \A t \in Threads : \A i \in 1 .. Len(calls'[t].group), j \in 1 .. Len(queue') : calls'[t].group[i].id < queue'[j].id
    <2> SUFFICES ASSUME NEW t \in Threads, NEW i \in 1 .. Len(calls'[t].group), NEW j \in 1 .. Len(queue')
                 PROVE  calls'[t].group[i].id < queue'[j].id
      OBVIOUS
    <2>1. j \in 1 .. Len(queue) /\ queue'[j] = queue[j] /\ queue' # <<>>
      BY <1>2
    <2>2. i \in 1 .. Len(calls[t].group) /\ calls'[t].group[i] = calls[t].group[i]
      BY <2>1
    <2> QED BY <2>1, <2>2, <1>1 DEF Numbered
  <1>6. \A t \in Threads : \A i \in 1 .. Len(calls'[t].group) : calls'[t].group[i].id <= wireSpent'.ops
    BY <1>1 DEF Numbered
  <1>7. \A i \in 1 .. Len(queue') : queue'[i].id <= wireSpent'.ops
    BY <1>1 DEF Numbered
  <1>8. \A x : Behind(x) => Behind(x)'
    BY DEF Behind
  <1> QED BY <1>1, <1>3, <1>4, <1>5, <1>6, <1>7, <1>8 DEF Numbered

\* A step that spends a mishap.
LEMMA MishapSpends ==
    ASSUME WireTypes, Mishap PROVE wireSpent' \in Spent /\ wireSpent'.ops = wireSpent.ops
  <1>1. wireSpent \in Spent /\ wireSpent' = [wireSpent EXCEPT !.mishaps = wireSpent.mishaps + 1]
    BY DEF WireTypes, Mishap, WireSpend
  <1>2. wireSpent.mishaps + 1 \in Nat
    BY <1>1 DEF Spent
  <1> QED BY <1>1, <1>2 DEF Spent

LEMMA RefuseKeeps ==
    ASSUME WireInv, NEW t \in Threads, RefuseOp(t) PROVE WireInv'
  <1>1. WireTypes /\ OneDrains /\ Numbered /\ Queued
    BY DEF WireInv
  <1>2. PICK group \in Seq(Ops) : group = calls[t].group
    BY <1>1, TypeFacts
  <1>3. /\ UNCHANGED <<journal, durable, models, phase, queue, dispatching, drain_depth, persistVars, flushes>>
        /\ calls[t].pc = "draining" /\ Mishap
        /\ calls' = [calls EXCEPT ![t] = [pc |-> "ending", group |-> <<>>, record |-> NoRecord, result |-> "error"]]
        /\ wireHist' = [wireHist EXCEPT
               !.refused = @ \cup {group[i].id : i \in DOMAIN group} \cup {queue[i].id : i \in DOMAIN queue}]
    BY <1>2 DEF RefuseOp
  <1>4. PICK gone : gone = {group[i].id : i \in DOMAIN group} \cup {queue[i].id : i \in DOMAIN queue}
    OBVIOUS
  <1>5. (\A i \in 1 .. Len(group) : group[i].id \in gone) /\ \A i \in 1 .. Len(queue) : queue[i].id \in gone
    BY <1>1, <1>2, <1>4, TypeFacts
  <1>6. gone \subseteq OpIds
    <2>1. (\A i \in DOMAIN group : group[i] \in Ops) /\ \A i \in DOMAIN queue : queue[i] \in Ops
      BY <1>1, <1>2 DEF WireTypes
    <2> QED BY <2>1, <1>4 DEF Ops
  <1>7. /\ wireHist' \in Hist /\ wireHist'.applied = wireHist.applied /\ wireHist'.dropped = wireHist.dropped
        /\ wireHist'.flushed = wireHist.flushed /\ wireHist'.overtaken = wireHist.overtaken
        /\ wireHist'.returned = wireHist.returned /\ wireHist'.late = wireHist.late
        /\ wireHist'.refused = wireHist.refused \cup gone
    <2>1. wireHist \in Hist /\ wireHist' = [wireHist EXCEPT !.refused = wireHist.refused \cup gone]
      BY <1>1, <1>3, <1>4 DEF WireTypes
    <2> QED BY <2>1, <1>6 DEF Hist
  <1>8. OneChain' /\ InTurn' /\ Kept' /\ Shaped' /\ AtHand'
    <2>1. \A u \in Threads : calls[u].pc # "journal" /\ calls'[u].pc # "journal"
      BY <1>1, <1>3 DEF OneDrains, WireTypes
    <2> QED BY <2>1, <1>3, <1>7, DispatchFrame DEF AtHand
  <1>9. wireSpent' \in Spent /\ wireSpent'.ops = wireSpent.ops
    BY <1>1, <1>3, MishapSpends
  <1>10. /\ calls' \in [Threads -> DispatchCalls] /\ \A u \in Threads : u # t => calls'[u] = calls[u]
         /\ calls'[t].pc = "ending" /\ calls'[t].group = <<>> /\ Len(calls'[t].group) = 0 /\ 1 .. 0 = {}
    BY <1>1, <1>3 DEF WireTypes, DispatchCalls
  <1>11. WireTypes'
    BY <1>1, <1>3, <1>7, <1>9, <1>10 DEF WireTypes, persistVars
  <1>12. OneDrains'
    BY <1>1, <1>3, <1>7, <1>10 DEF OneDrains, persistVars
  <1>13. \A u \in Threads : calls'[u].group = calls[u].group \/ calls'[u].group = <<>>
    BY <1>10
  <1>14. Numbered'
    BY <1>3, <1>9, <1>10, <1>13, PendingShrinks DEF persistVars
  <1>15. Queued'
    <2>1. \A x \in wireHist'.returned \ (wireHist'.late \cup wireHist'.refused) :
             x \in wireHist.returned \ (wireHist.late \cup wireHist.refused) /\ x \notin gone
      BY <1>7
    <2>2. ASSUME NEW x, x \notin gone, NEW u \in Threads, NEW i \in 1 .. Len(calls[u].group), calls[u].group[i].id = x
          PROVE  i \in 1 .. Len(calls'[u].group) /\ calls'[u].group[i].id = x
      BY <2>2, <1>2, <1>5, <1>10
    <2>3. \A u \in Threads : \A i \in 1 .. Len(queue) : queue[i].id \in wireHist'.late \cup wireHist'.refused
      BY <1>5, <1>7
    <2>4. \A x \in wireHist'.returned \ (wireHist'.late \cup wireHist'.refused) :
             \/ \E i \in 1 .. Len(models) : models[i].op = x
             \/ \E i \in 1 .. Len(queue) : queue[i].id = x
             \/ \E u \in Threads : \E i \in 1 .. Len(calls'[u].group) : calls'[u].group[i].id = x
      BY <2>1, <2>2, <1>1 DEF Queued
    <2> QED BY <2>3, <2>4, <1>3 DEF Queued
  <1> QED BY <1>8, <1>11, <1>12, <1>14, <1>15 DEF WireInv

LEMMA DrainKeeps ==
    ASSUME WireInv, NEW t \in Threads, DrainQueue(t) PROVE WireInv'
  <1>1. WireTypes /\ OneDrains /\ Numbered /\ Queued
    BY DEF WireInv
  <1>2. /\ UNCHANGED <<journal, durable, models, phase, dispatching, persistVars, flushes, wireSpent>>
        /\ calls[t].pc = "draining" /\ calls[t].group = <<>> /\ Len(calls[t].group) = 0 /\ 1 .. 0 = {}
    BY DEF DrainQueue
  <1>3. drain_depth \in Nat /\ drain_depth <= MAX_DRAIN /\ MAX_DRAIN \in Nat
    BY <1>1, <1>2, WireAssumption DEF WireTypes, OneDrains
  <1>4. calls \in [Threads -> DispatchCalls] /\ queue \in Seq(Ops) /\ wireHist \in Hist
    BY <1>1 DEF WireTypes
  <1>5. CASE /\ queue = <<>>
             /\ calls' = [calls EXCEPT ![t].pc = "ending"]
             /\ UNCHANGED <<queue, drain_depth, wireHist>>
    <2>1. /\ calls' \in [Threads -> DispatchCalls] /\ \A u \in Threads : u # t => calls'[u] = calls[u]
          /\ calls'[t].pc = "ending" /\ calls'[t].group = <<>> /\ Len(queue) = 0
      BY <1>2, <1>4, <1>5 DEF DispatchCalls
    <2>2. \A u \in Threads : calls'[u].group = calls[u].group
      BY <2>1, <1>2
    <2>3. OneChain' /\ InTurn' /\ Kept' /\ Shaped' /\ AtHand'
      <3>1. \A u \in Threads : calls[u].pc # "journal" /\ calls'[u].pc # "journal"
        BY <2>1, <1>1, <1>2 DEF OneDrains
      <3> QED BY <3>1, <1>2, <1>5, DispatchFrame DEF AtHand
    <2>4. WireTypes'
      BY <2>1, <1>1, <1>2, <1>5 DEF WireTypes, persistVars
    <2>5. OneDrains'
      BY <2>1, <1>1, <1>2, <1>5 DEF OneDrains, persistVars
    <2>6. Numbered'
      BY <2>2, <1>2, <1>5, PendingShrinks DEF persistVars
    <2>7. Queued'
      BY <2>1, <2>2, <1>1, <1>2, <1>5 DEF Queued
    <2> QED BY <2>3, <2>4, <2>5, <2>6, <2>7 DEF WireInv
  <1>6. CASE /\ queue # <<>> /\ drain_depth >= MAX_DRAIN
             /\ drain_depth' = drain_depth + 1
             /\ calls' = [calls EXCEPT ![t].pc = "ending", ![t].result = "error"]
             /\ wireHist' = [wireHist EXCEPT !.refused = @ \cup {queue[i].id : i \in DOMAIN queue}]
             /\ UNCHANGED queue
    <2>1. PICK gone : gone = {queue[i].id : i \in DOMAIN queue}
      OBVIOUS
    <2>2. \A i \in 1 .. Len(queue) : queue[i].id \in gone
      BY <2>1, <1>4
    <2>3. gone \subseteq OpIds
      <3>1. \A i \in DOMAIN queue : queue[i] \in Ops
        BY <1>4
      <3> QED BY <3>1, <2>1 DEF Ops
    <2>4. /\ wireHist' \in Hist /\ wireHist'.applied = wireHist.applied /\ wireHist'.dropped = wireHist.dropped
          /\ wireHist'.flushed = wireHist.flushed /\ wireHist'.overtaken = wireHist.overtaken
          /\ wireHist'.returned = wireHist.returned /\ wireHist'.late = wireHist.late
          /\ wireHist'.refused = wireHist.refused \cup gone
      <3>1. wireHist' = [wireHist EXCEPT !.refused = wireHist.refused \cup gone]
        BY <1>6, <2>1
      <3> QED BY <3>1, <2>3, <1>4 DEF Hist
    <2>5. /\ calls' \in [Threads -> DispatchCalls] /\ \A u \in Threads : u # t => calls'[u] = calls[u]
          /\ calls'[t].pc = "ending" /\ calls'[t].group = <<>>
      BY <1>2, <1>4, <1>6 DEF DispatchCalls
    <2>6. \A u \in Threads : calls'[u].group = calls[u].group
      BY <2>5, <1>2
    <2>7. OneChain' /\ InTurn' /\ Kept' /\ Shaped' /\ AtHand'
      <3>1. \A u \in Threads : calls[u].pc # "journal" /\ calls'[u].pc # "journal"
        BY <2>5, <1>1, <1>2 DEF OneDrains
      <3> QED BY <3>1, <1>2, <2>4, DispatchFrame DEF AtHand
    <2>8. drain_depth' \in 0 .. MAX_DRAIN + 1
      BY <1>3, <1>6
    <2>9. WireTypes'
      BY <2>4, <2>5, <2>8, <1>1, <1>2, <1>6 DEF WireTypes, persistVars
    <2>10. dispatching = "yes"
      BY <1>1, <1>2 DEF OneDrains
    <2>11. OneDrains'
      BY <2>4, <2>5, <2>10, <1>1, <1>2, <1>6 DEF OneDrains, persistVars
    <2>12. Numbered'
      BY <2>6, <1>2, <1>6, PendingShrinks DEF persistVars
    <2>13. Queued'
      <3>1. \A x \in wireHist'.returned \ (wireHist'.late \cup wireHist'.refused) :
               x \in wireHist.returned \ (wireHist.late \cup wireHist.refused)
        BY <2>4
      <3>2. \A i \in 1 .. Len(queue) : queue[i].id \in wireHist'.late \cup wireHist'.refused
        BY <2>2, <2>4
      <3>3. \A x \in wireHist'.returned \ (wireHist'.late \cup wireHist'.refused) :
               \/ \E i \in 1 .. Len(models) : models[i].op = x
               \/ \E i \in 1 .. Len(queue) : queue[i].id = x
               \/ \E u \in Threads : \E i \in 1 .. Len(calls'[u].group) : calls'[u].group[i].id = x
        BY <3>1, <2>6, <1>1 DEF Queued
      <3> QED BY <3>2, <3>3, <1>2, <1>6 DEF Queued
    <2> QED BY <2>7, <2>9, <2>11, <2>12, <2>13 DEF WireInv
  <1>7. CASE /\ queue # <<>> /\ drain_depth < MAX_DRAIN
             /\ drain_depth' = drain_depth + 1
             /\ calls' = [calls EXCEPT ![t].group = queue]
             /\ queue' = <<>>
             /\ UNCHANGED wireHist
    <2>1. /\ calls' \in [Threads -> DispatchCalls] /\ \A u \in Threads : u # t => calls'[u] = calls[u]
          /\ calls'[t].pc = "draining" /\ calls'[t].group = queue /\ Len(queue') = 0
      BY <1>2, <1>4, <1>7 DEF DispatchCalls
    <2>2. OneChain' /\ InTurn' /\ Kept' /\ Shaped' /\ AtHand'
      <3>1. \A u \in Threads : calls[u].pc # "journal" /\ calls'[u].pc # "journal"
        BY <2>1, <1>1, <1>2 DEF OneDrains
      <3> QED BY <3>1, <1>2, <1>7, DispatchFrame DEF AtHand
    <2>3. drain_depth' \in 0 .. MAX_DRAIN + 1 /\ drain_depth' <= MAX_DRAIN
      BY <1>3, <1>7
    <2>4. <<>> \in Seq(Ops)
      OBVIOUS
    <2>5. WireTypes'
      BY <2>1, <2>3, <2>4, <1>1, <1>2, <1>7 DEF WireTypes, persistVars
    <2>6. dispatching = "yes" /\ \A u \in Threads : u # t => calls[u].pc = "idle"
      BY <1>1, <1>2 DEF OneDrains
    <2>7. OneDrains'
      BY <2>1, <2>3, <2>6, <1>1, <1>2, <1>7 DEF OneDrains, persistVars
    <2>8. \A u \in Threads : calls'[u].group = calls[u].group \/ calls'[u].group = queue
      BY <2>1
    <2>9. Numbered'
      BY <2>1, <2>8, <1>2, <1>7, PendingShrinks DEF persistVars
    <2>10. Queued'
      <3>1. \A i \in 1 .. Len(queue) : i \in 1 .. Len(calls'[t].group) /\ calls'[t].group[i].id = queue[i].id
        BY <2>1
      <3>2. \A u \in Threads : \A i \in 1 .. Len(calls[u].group) : i \in 1 .. Len(calls'[u].group) /\ calls'[u].group[i] = calls[u].group[i]
        BY <2>1, <1>2
      <3>3. \A u \in Threads : calls'[u].pc # "ending"
        BY <2>1, <2>6
      <3> QED BY <3>1, <3>2, <3>3, <1>1, <1>2, <1>7 DEF Queued
    <2> QED BY <2>2, <2>5, <2>7, <2>9, <2>10 DEF WireInv
  <1> QED BY <1>5, <1>6, <1>7 DEF DrainQueue

LEMMA EndKeeps ==
    ASSUME WireInv, NEW t \in Threads, EndDispatch(t) PROVE WireInv'
  <1>1. WireTypes /\ OneDrains /\ Numbered /\ Queued
    BY DEF WireInv
  <1>2. /\ UNCHANGED <<journal, durable, models, phase, persistVars, flushes, wireHist, wireSpent>>
        /\ calls[t].pc = "ending" /\ calls' = [calls EXCEPT ![t] = Idle]
        /\ queue' = <<>> /\ dispatching' = "no" /\ drain_depth' = 0
    BY DEF EndDispatch
  <1>3. OneChain' /\ InTurn' /\ Kept' /\ Shaped'
    <2>1. \A u \in Threads : calls[u].pc # "journal"
      BY <1>1, <1>2 DEF OneDrains
    <2> QED BY <2>1, <1>2, DispatchFrame
  <1>4. /\ calls' \in [Threads -> DispatchCalls] /\ \A u \in Threads : u # t => calls'[u] = calls[u]
        /\ calls'[t].pc = "idle" /\ calls'[t].group = <<>>
    BY <1>1, <1>2 DEF WireTypes, DispatchCalls, Idle
  <1>5. /\ \A u \in Threads : calls'[u].pc = "idle"
        /\ \A u \in Threads : calls[u].group = <<>> /\ calls'[u].group = <<>>
    BY <1>1, <1>2, <1>4 DEF OneDrains
  <1>6. Len(<<>>) = 0 /\ 1 .. 0 = {} /\ <<>> \in Seq(Ops)
    OBVIOUS
  <1>7. 0 \in 0 .. MAX_DRAIN + 1
    BY WireAssumption
  <1>8. WireTypes'
    BY <1>1, <1>2, <1>4, <1>6, <1>7 DEF WireTypes, persistVars
  <1>9. OneDrains'
    BY <1>1, <1>2, <1>5 DEF OneDrains, persistVars
  <1>10. Numbered'
    BY <1>2, <1>5, <1>6, PendingShrinks DEF persistVars
  <1>11. Queued'
    <2>1. \A u \in Threads : \A i \in 1 .. Len(calls[u].group) : FALSE
      BY <1>5, <1>6
    <2>2. \A i \in 1 .. Len(queue) : queue[i].id \in wireHist.late \cup wireHist.refused
      BY <1>1, <1>2 DEF Queued
    <2>3. \A x \in wireHist.returned \ (wireHist.late \cup wireHist.refused) : \E i \in 1 .. Len(models) : models[i].op = x
      BY <2>1, <2>2, <1>1 DEF Queued
    <2> QED BY <2>3, <1>2, <1>5 DEF Queued
  <1>12. AtHand'
    BY <1>5 DEF AtHand
  <1> QED BY <1>3, <1>8, <1>9, <1>10, <1>11, <1>12 DEF WireInv

-----------------------------------------------------------------------------
(***************************************************************************)
(* Records and tasks that are appended.                                    *)
(***************************************************************************)
LEMMA IncreasingAppended ==
    ASSUME NEW s \in Seq(WireRecords), NEW r \in WireRecords, Increasing(s), \A i \in 1 .. Len(s) : s[i].op < r.op
    PROVE  Increasing(Append(s, r))
  <1>1. PICK n \in Nat : n = Len(s)
    OBVIOUS
  <1>2. PICK u : u = Append(s, r)
    OBVIOUS
  <1>3. DOMAIN s = 1 .. n /\ DOMAIN u = 1 .. n + 1
    BY <1>1, <1>2
  <1>4. u[n + 1] = r /\ \A i \in 1 .. n : u[i] = s[i]
    BY <1>1, <1>2
  <1>5. ASSUME NEW i \in 1 .. n + 1, NEW j \in 1 .. n + 1, i < j PROVE u[i].op < u[j].op
    <2>1. i \in 1 .. n
      BY <1>5
    <2>2. CASE j \in 1 .. n
      BY <2>1, <2>2, <1>3, <1>4, <1>5 DEF Increasing
    <2>3. CASE j = n + 1
      BY <2>1, <2>3, <1>1, <1>4
    <2> QED BY <2>2, <2>3
  <1>6. Increasing(u)
    BY <1>3, <1>5 DEF Increasing
  <1> QED BY <1>2, <1>6

\* A record of this version at the end of a journal that restore has left.
LEMMA ShapedAppended ==
    ASSUME WireTypes, Shaped, NEW op \in Ops, journal' = Append(journal, Rec(op, 1)), phase \in {"rehydrating", "ready"},
           UNCHANGED <<phase, durable>>,
           \A i \in 1 .. Len(models') : models'[i].form >= 1 /\ models'[i].kind # "meta" /\ models'[i].op # 0
    PROVE  Shaped'
  <1>1. PICK n \in Nat : n = Len(journal)
    BY TypeFacts
  <1>2. PICK r \in WireRecords : r = Rec(op, 1)
    BY RecordOf
  <1>3. r.kind # "meta" /\ r.op # 0 /\ r.form = 1
    BY <1>2, RecordOf
  <1>4. journal \in Seq(WireRecords)
    BY DEF WireTypes
  <1>5. journal' \in Seq(WireRecords) /\ Len(journal') = n + 1 /\ journal'[n + 1] = r /\ \A i \in 1 .. n : journal'[i] = journal[i]
    BY <1>1, <1>2, <1>4
  <1>6. journal # <<>> /\ Version(journal) # 0
    BY DEF Shaped
  <1>7. n >= 1 /\ journal' # <<>> /\ Head(journal') = Head(journal)
    BY <1>1, <1>2, <1>4, <1>6
  <1>8. Version(journal') = Version(journal)
    BY <1>7 DEF Version
  <1>9. \A i \in 1 .. n + 1 : i \in 1 .. n \/ i = n + 1
    OBVIOUS
  <1>10. \A i \in 1 .. n + 1 : (journal'[i].kind = "meta" <=> journal'[i].op = 0) /\ (journal'[i].op = 0 => i = 1)
    BY <1>1, <1>3, <1>5, <1>9 DEF Shaped
  <1>11. Version(journal) \in 1 .. 2
    <2>1. Head(journal) \in WireRecords
      BY <1>4, <1>6
    <2>2. Head(journal).form \in 0 .. 2
      BY <2>1 DEF WireRecords
    <2> QED BY <2>2, <1>6 DEF Version
  <1>12. ASSUME Version(journal) < 2 PROVE \A i \in 1 .. n + 1 : journal'[i].form = Version(journal)
    BY <1>1, <1>3, <1>5, <1>6, <1>9, <1>11, <1>12 DEF Shaped
  <1>13. ASSUME Version(journal) = 2
         PROVE  /\ durable >= 2 /\ journal'[1] = Meta(2) /\ journal'[2] = Rec(OldOp, 2)
                /\ \A i \in 3 .. n + 1 : journal'[i].form = 1
    <2>1. /\ durable >= 2 /\ journal[1] = Meta(2) /\ journal[2] = Rec(OldOp, 2)
          /\ \A i \in 3 .. n : journal[i].form = 1
      BY <1>1, <1>6, <1>13 DEF Shaped
    <2>2. n >= 2 /\ 1 \in 1 .. n /\ 2 \in 1 .. n
      BY <2>1, <1>1, TypeFacts
    <2>3. \A i \in 3 .. n + 1 : (i \in 3 .. n /\ i \in 1 .. n) \/ i = n + 1
      OBVIOUS
    <2> QED BY <2>1, <2>2, <2>3, <1>3, <1>5
  <1> QED BY <1>5, <1>7, <1>8, <1>10, <1>12, <1>13, <1>6 DEF Shaped

\* A task at the end of the chain.
LEMMA ChainGrows ==
    ASSUME WireTypes, OneChain, NEW op \in Ops, NEW n \in Nat, n = Len(persists),
           persists' = Append(persists, [op |-> op, after |-> persist_tail, state |-> "running"]),
           persist_tail' = n + 1, UNCHANGED flushes,
           wireHist'.overtaken = IF persist_tail = 0 /\ Running THEN "yes" ELSE wireHist.overtaken
    PROVE  /\ OneChain' /\ persists' \in Seq(Tasks) /\ Len(persists') = n + 1
           /\ persists'[n + 1].op = op
           /\ \A i \in 1 .. n : persists'[i] = persists[i]
           /\ \A i : Runs(i) => Runs(i)'
           /\ \A i : Runs(i)' => Runs(i) \/ i = n + 1
           /\ Runs(n + 1)'
           /\ \A i, w \in Nat : i \in 1 .. n /\ Chained(i, w) => Chained(i, w)'
  <1>1. n = Len(persists)
    OBVIOUS
  <1>2. PICK task : task = [op |-> op, after |-> persist_tail, state |-> "running"]
    OBVIOUS
  <1>3. task \in Tasks /\ task.op = op /\ task.after = persist_tail /\ task.state = "running" /\ persist_tail \in Nat
    BY <1>2 DEF Tasks, WireTypes
  <1>4. persists \in Seq(Tasks)
    BY DEF WireTypes
  <1>5. /\ persists' \in Seq(Tasks) /\ Len(persists') = n + 1 /\ persists'[n + 1] = task
        /\ \A i \in 1 .. n : persists'[i] = persists[i]
    BY <1>1, <1>2, <1>3, <1>4
  <1>6. (\A i \in 1 .. n + 1 : i \in 1 .. n \/ i = n + 1) /\ 1 .. n \subseteq 1 .. n + 1 /\ n + 1 \in 1 .. n + 1
    OBVIOUS
  <1>7. /\ \A i : Runs(i)' => Runs(i) \/ i = n + 1
        /\ \A i : Runs(i) => Runs(i)'
        /\ Runs(n + 1)'
    BY <1>1, <1>3, <1>5, <1>6 DEF Runs
  <1>8. \A i, w \in Nat : i \in 1 .. n /\ Chained(i, w) => Chained(i, w)'
    <2> SUFFICES ASSUME NEW i \in Nat, NEW w \in Nat, i \in 1 .. n, Chained(i, w) PROVE Chained(i, w)'
      OBVIOUS
    <2>1. i <= w /\ w <= n /\ \A k \in i + 1 .. w : persists[k].after = k - 1
      BY <1>1 DEF Chained
    <2>2. w <= n + 1 /\ \A k \in i + 1 .. w : k \in 1 .. n
      BY <2>1
    <2>3. \A k \in i + 1 .. w : persists'[k].after = k - 1
      BY <2>1, <2>2, <1>5
    <2> QED BY <2>1, <2>2, <2>3, <1>5 DEF Chained
  <1>9. ASSUME NEW i \in Nat, i \in 1 .. n, Chained(i, n), persist_tail = n PROVE Chained(i, n + 1)'
    <2>1. \A k \in i + 1 .. n : persists[k].after = k - 1
      BY <1>9 DEF Chained
    <2>2. \A k \in i + 1 .. n + 1 : (k \in i + 1 .. n /\ k \in 1 .. n) \/ k = n + 1
      BY <1>9
    <2>3. \A k \in i + 1 .. n + 1 : persists'[k].after = k - 1
      <3> TAKE k \in i + 1 .. n + 1
      <3>1. CASE k \in i + 1 .. n /\ k \in 1 .. n
        BY <3>1, <2>1, <1>5
      <3>2. CASE k = n + 1
        BY <3>2, <1>3, <1>5, <1>9
      <3> QED BY <3>1, <3>2, <2>2
    <2>4. i <= n + 1
      BY <1>9
    <2> QED BY <2>3, <2>4, <1>5 DEF Chained
  <1>10. Chained(n + 1, n + 1)'
    BY <1>5 DEF Chained
  <1>11. \A i : Runs(i) => i \in 1 .. n /\ i \in Nat
    BY <1>1 DEF Runs
  <1>12. persist_tail \in {0, n} /\ \A f \in Flushers : flushes[f].waits <= n /\ flushes[f].waits \in Nat
    BY <1>1, TypeFacts DEF OneChain
  <1>13. \A i \in 1 .. n + 1 : persists'[i].after \in {0, i - 1}
    <2> TAKE i \in 1 .. n + 1
    <2>1. CASE i \in 1 .. n
      BY <2>1, <1>1, <1>5 DEF OneChain
    <2>2. CASE i = n + 1
      BY <2>2, <1>3, <1>5, <1>12
    <2> QED BY <2>1, <2>2, <1>6
  <1>14. \A f \in Flushers : flushes'[f].waits <= Len(persists')
    BY <1>5, <1>12
  <1>15. ASSUME NEW i \in Nat, NEW w \in Nat, Runs(i)', Chained(i, w)' PROVE Runs(w)'
    <2>1. i <= w /\ w <= n + 1 /\ i \in 1 .. n + 1
      BY <1>1, <1>7, <1>11, <1>15, <1>5, <1>6 DEF Chained
    <2>2. CASE w = n + 1
      BY <2>2, <1>7
    <2>3. CASE w <= n
      <3>1. Runs(i) /\ i \in 1 .. n /\ w \in 1 .. n
        BY <2>1, <2>3, <1>7, <1>15, <1>11
      <3>2. \A k \in i + 1 .. w : k \in 1 .. n
        BY <3>1
      <3>3. \A k \in i + 1 .. w : persists[k].after = k - 1
        BY <3>2, <1>5, <1>15 DEF Chained
      <3>4. Chained(i, w)
        BY <3>3, <2>1, <2>3, <1>1 DEF Chained
      <3>5. Runs(w)
        BY <3>1, <3>4 DEF OneChain
      <3> QED BY <3>5, <1>7
    <2> QED BY <2>1, <2>2, <2>3
  <1>17. ASSUME wireHist'.overtaken = "no", NEW i \in Nat, Runs(i)' PROVE Chained(i, n + 1)'
    <2>1. CASE i = n + 1
      BY <2>1, <1>10
    <2>2. CASE Runs(i)
      <3>1. i \in 1 .. n
        BY <2>2, <1>11
      <3>2. Running
        <4>1. DOMAIN persists = 1 .. n
          BY <1>1, TypeFacts
        <4> QED BY <4>1, <3>1, <2>2 DEF Running, Runs
      <3>3. persist_tail # 0 /\ wireHist.overtaken = "no"
        BY <3>2, <1>17
      <3>4. persist_tail = n /\ Chained(i, n)
        BY <3>3, <2>2, <1>1, <1>12 DEF OneChain
      <3> QED BY <3>1, <3>4, <1>9
    <2> QED BY <2>1, <2>2, <1>7, <1>17
  <1>18. \A i \in Nat : Chained(i, n + 1)' => Chained(i, persist_tail)' /\ Chained(i, Len(persists))'
    BY <1>5 DEF Chained
  <1>19. OneChain'
    BY <1>5, <1>13, <1>14, <1>15, <1>17, <1>18 DEF OneChain
  <1> QED BY <1>3, <1>5, <1>7, <1>8, <1>19

-----------------------------------------------------------------------------
(***************************************************************************)
(* execute_group.                                                          *)
(***************************************************************************)
\* What every execution of an op does: it leaves the group for the models.
LEMMA OpLeavesGroup ==
    ASSUME WireInv, NEW t \in Threads, NEW op, op = Head(calls[t].group),
           calls[t].pc = "draining", calls[t].group # <<>>,
           models' = Append(models, Rec(op, 1)),
           calls' \in [Threads -> DispatchCalls], \A u \in Threads : u # t => calls'[u] = calls[u],
           calls'[t].pc \in {"draining", "journal"}, calls'[t].group = Tail(calls[t].group),
           UNCHANGED <<queue, dispatching, drain_depth, phase, wireSpent>>
    PROVE  /\ op \in Ops /\ phase = "ready"
           /\ models' \in Seq(WireRecords)
           /\ (\A x \in Int : Behind(x) => x < op.id /\ Behind(x)') /\ Behind(op.id)'
           /\ \A u \in Threads : RisingIds(calls'[u].group)
           /\ \A u \in Threads : \A i \in 1 .. Len(calls'[u].group) :
                  /\ calls'[u].group[i].id <= wireSpent.ops
                  /\ \A j \in 1 .. Len(queue) : calls'[u].group[i].id < queue[j].id
           /\ \A i \in 1 .. Len(models') : /\ models'[i].op = op.id \/ (i \in 1 .. Len(models) /\ models'[i] = models[i])
                                           /\ Behind(models[i].op)'
                                           /\ models'[i].form >= 1 /\ models'[i].kind # "meta" /\ models'[i].op # 0
           /\ Increasing(models) => Increasing(models)'
           /\ \A u \in Threads : \A i \in 1 .. Len(calls[u].group) :
                  \/ \E j \in 1 .. Len(models') : models'[j].op = calls[u].group[i].id
                  \/ \E j \in 1 .. Len(calls'[u].group) : calls'[u].group[j].id = calls[u].group[i].id
           /\ \A i \in 1 .. Len(models) : \E j \in 1 .. Len(models') : models'[j].op = models[i].op
  <1>1. WireTypes /\ OneDrains /\ Numbered /\ Shaped
    BY DEF WireInv
  <1>2. PICK group \in Seq(Ops) : group = calls[t].group
    BY <1>1, TypeFacts
  <1>3. PICK m \in Nat : Len(group) = m + 1
    <2>1. Len(group) \in Nat /\ Len(group) # 0
      BY <1>2
    <2>2. Len(group) - 1 \in Nat /\ Len(group) = (Len(group) - 1) + 1
      BY <2>1
    <2> QED BY <2>2
  <1>4. PICK rest \in Seq(Ops) : rest = Tail(group) /\ Len(rest) = m /\ \A i \in 1 .. m : rest[i] = group[i + 1]
    <2>1. group # <<>>
      BY <1>2
    <2>2. Tail(group) \in Seq(Ops) /\ Len(Tail(group)) = Len(group) - 1
      BY <2>1
    <2>3. Len(Tail(group)) = m
      BY <2>2, <1>3
    <2>4. \A i \in 1 .. m : Tail(group)[i] = group[i + 1]
      BY <2>1, <2>3
    <2> QED BY <2>2, <2>3, <2>4
  <1>5. op = group[1] /\ op \in Ops
    BY <1>2, <1>3
  <1>6. op.id \in Nat /\ op.id # 0 /\ op.id \in OpIds
    BY <1>5, RecordOf
  <1>7. calls'[t].group = rest /\ \A u \in Threads : u # t => calls'[u] = calls[u]
    BY <1>2, <1>4
  <1>8. \A i \in 1 .. m : i + 1 \in 1 .. m + 1 /\ 1 < i + 1
    BY <1>3
  <1>9. 1 \in 1 .. m + 1 /\ \A i \in 1 .. m + 1 : i = 1 \/ (i - 1 \in 1 .. m /\ i - 1 + 1 = i)
    BY <1>3
  <1>10. dispatching = "yes" /\ phase = "ready"
    BY <1>1 DEF OneDrains
  <1>11. /\ \A i, j \in 1 .. m + 1 : i < j => group[i].id < group[j].id
         /\ \A i \in 1 .. m + 1 : group[i].id <= wireSpent.ops /\ \A j \in 1 .. Len(queue) : group[i].id < queue[j].id
    BY <1>1, <1>2, <1>3 DEF Numbered, RisingIds
  <1>12. \A i \in 1 .. m : rest[i].id = group[i + 1].id /\ op.id < rest[i].id
    BY <1>4, <1>5, <1>8, <1>9, <1>11
  <1>13. \A u \in Threads : u # t => calls[u].group = <<>> /\ Len(calls[u].group) = 0 /\ 1 .. 0 = {}
    BY <1>1 DEF OneDrains
  <1>14. ASSUME NEW u \in Threads, NEW i \in 1 .. Len(calls'[u].group)
         PROVE  u = t /\ i \in 1 .. m /\ calls'[u].group[i] = rest[i]
    <2>1. CASE u = t
      BY <2>1, <1>4, <1>7
    <2>2. CASE u # t
      BY <2>2, <1>7, <1>13
    <2> QED BY <2>1, <2>2
  <1>15. Behind(op.id)'
    <2>1. \A u \in Threads : \A i \in 1 .. Len(calls'[u].group) : op.id < calls'[u].group[i].id
      BY ONLY <1>12, <1>14
    <2> QED BY <2>1, <1>5, <1>9, <1>11 DEF Behind
  <1>16. \A x \in Int : Behind(x) => x < op.id /\ Behind(x)'
    <2> SUFFICES ASSUME NEW x \in Int, Behind(x) PROVE x < op.id /\ Behind(x)'
      OBVIOUS
    <2>1. \A i \in 1 .. m + 1 : x < group[i].id
      BY <1>2, <1>3 DEF Behind
    <2>2. \A u \in Threads : \A i \in 1 .. Len(calls'[u].group) : x < calls'[u].group[i].id
      <3>1. \A i \in 1 .. m : x < rest[i].id
        BY <2>1, <1>8, <1>12
      <3> QED BY ONLY <3>1, <1>14
    <2> QED BY <2>1, <2>2, <1>5, <1>9 DEF Behind
  <1>17. \A u \in Threads : RisingIds(calls'[u].group)
    <2> SUFFICES ASSUME NEW u \in Threads, NEW i \in 1 .. Len(calls'[u].group), NEW j \in 1 .. Len(calls'[u].group), i < j
                 PROVE  calls'[u].group[i].id < calls'[u].group[j].id
      BY DEF RisingIds
    <2>1. CASE u = t
      <3>1. i \in 1 .. m /\ j \in 1 .. m /\ i + 1 < j + 1
        BY <2>1, <1>4, <1>7
      <3>2. rest[i].id = group[i + 1].id /\ rest[j].id = group[j + 1].id /\ group[i + 1].id < group[j + 1].id
        BY <3>1, <1>8, <1>11, <1>12
      <3>3. calls'[u].group[i] = rest[i] /\ calls'[u].group[j] = rest[j]
        BY <1>14
      <3> QED BY ONLY <3>2, <3>3
    <2>2. CASE u # t
      BY <2>2, <1>7, <1>13
    <2> QED BY <2>1, <2>2
  <1>18. \A u \in Threads : \A i \in 1 .. Len(calls'[u].group) :
                  /\ calls'[u].group[i].id <= wireSpent.ops
                  /\ \A j \in 1 .. Len(queue) : calls'[u].group[i].id < queue[j].id
    <2>1. \A i \in 1 .. m : rest[i].id <= wireSpent.ops /\ \A j \in 1 .. Len(queue) : rest[i].id < queue[j].id
      BY <1>8, <1>11, <1>12
    <2> QED BY ONLY <2>1, <1>14
  <1>19. PICK r \in WireRecords : r = Rec(op, 1)
    BY <1>5, RecordOf
  <1>20. r.op = op.id /\ r.kind # "meta" /\ r.form = 1
    BY <1>5, <1>19, RecordOf
  <1>21. models \in Seq(WireRecords)
    BY <1>1 DEF WireTypes
  <1>22. PICK n \in Nat : n = Len(models)
    BY <1>1, TypeFacts
  <1>23. models' \in Seq(WireRecords) /\ Len(models') = n + 1 /\ models'[n + 1] = r /\ \A i \in 1 .. n : models'[i] = models[i]
    BY <1>19, <1>21, <1>22
  <1>24. (\A i \in 1 .. n + 1 : i \in 1 .. n \/ i = n + 1) /\ 1 .. n \subseteq 1 .. n + 1 /\ n + 1 \in 1 .. n + 1
    BY <1>22
  <1>25. \A i \in 1 .. n : models[i].op \in Int /\ Behind(models[i].op)
    BY <1>1, <1>22, TypeFacts DEF Numbered
  <1>26. \A i \in 1 .. n + 1 : /\ models'[i].op = op.id \/ (i \in 1 .. n /\ models'[i] = models[i])
                               /\ models'[i].form >= 1 /\ models'[i].kind # "meta" /\ models'[i].op # 0
    BY <1>1, <1>6, <1>20, <1>22, <1>23, <1>24 DEF Shaped
  <1>27. \A i \in 1 .. n + 1 : Behind(models[i].op)'
    <2> TAKE i \in 1 .. n + 1
    <2>1. CASE models'[i].op = op.id
      BY <2>1, <1>15 DEF Behind
    <2>2. CASE i \in 1 .. n /\ models'[i] = models[i]
      <3>1. PICK x \in Int : x = models[i].op /\ Behind(x)
        BY <2>2, <1>25
      <3>2. Behind(x)' /\ models'[i].op = x
        BY <3>1, <2>2, <1>16
      <3> QED BY <3>2 DEF Behind
    <2> QED BY <2>1, <2>2, <1>26
  <1>28. Increasing(models) => Increasing(models)'
    <2>1. \A i \in 1 .. Len(models) : models[i].op < r.op
      BY <1>16, <1>20, <1>22, <1>25
    <2>2. Increasing(models) => Increasing(Append(models, r))
      BY <2>1, <1>19, <1>21, IncreasingAppended
    <2>3. models' = Append(models, r)
      BY <1>19
    <2> QED BY <2>2, <2>3 DEF Increasing
  <1>29. \A u \in Threads : \A i \in 1 .. Len(calls[u].group) :
                  \/ \E j \in 1 .. n + 1 : models'[j].op = calls[u].group[i].id
                  \/ \E j \in 1 .. Len(calls'[u].group) : calls'[u].group[j].id = calls[u].group[i].id
    <2> SUFFICES ASSUME NEW u \in Threads, NEW i \in 1 .. Len(calls[u].group)
                 PROVE  \/ \E j \in 1 .. n + 1 : models'[j].op = calls[u].group[i].id
                        \/ \E j \in 1 .. Len(calls'[u].group) : calls'[u].group[j].id = calls[u].group[i].id
      OBVIOUS
    <2>1. u = t /\ i \in 1 .. m + 1
      BY <1>2, <1>3, <1>13
    <2>2. CASE i = 1
      BY <2>1, <2>2, <1>2, <1>5, <1>20, <1>23, <1>24
    <2>3. CASE i - 1 \in 1 .. m /\ i - 1 + 1 = i
      <3>1. PICK j \in 1 .. m : j + 1 = i
        BY <2>3
      <3>2. calls'[u].group[j].id = calls[u].group[i].id /\ j \in 1 .. Len(calls'[u].group)
        BY <3>1, <2>1, <1>2, <1>4, <1>7
      <3> QED BY <3>2
    <2> QED BY <2>1, <2>2, <2>3, <1>9
  <1>30. \A i \in 1 .. n : \E j \in 1 .. n + 1 : models'[j].op = models[i].op
    BY <1>23, <1>24
  <1>32. \A i \in 1 .. Len(models') :
             /\ models'[i].op = op.id \/ (i \in 1 .. Len(models) /\ models'[i] = models[i])
             /\ Behind(models[i].op)'
             /\ models'[i].form >= 1 /\ models'[i].kind # "meta" /\ models'[i].op # 0
    BY <1>22, <1>23, <1>26, <1>27
  <1>33. \A i \in 1 .. Len(models) : \E j \in 1 .. Len(models') : models'[j].op = models[i].op
    BY <1>22, <1>23, <1>30
  <1>34. \A u \in Threads : \A i \in 1 .. Len(calls[u].group) :
                  \/ \E j \in 1 .. Len(models') : models'[j].op = calls[u].group[i].id
                  \/ \E j \in 1 .. Len(calls'[u].group) : calls'[u].group[j].id = calls[u].group[i].id
    <2>1. Len(models') = n + 1
      BY <1>23
    <2> QED BY ONLY <2>1, <1>29
  <1> QED BY <1>5, <1>7, <1>10, <1>15, <1>16, <1>17, <1>18, <1>23, <1>28, <1>32, <1>33, <1>34

LEMMA ApplyKeeps ==
    ASSUME WireInv, NEW t \in Threads, ApplyOp(t) PROVE WireInv'
  <1>1. WireTypes /\ OneDrains /\ Numbered /\ Queued /\ OneChain /\ InTurn /\ Kept /\ Shaped
    BY DEF WireInv
  <1>2. PICK op, group : op = Head(calls[t].group) /\ group = Tail(calls[t].group)
    OBVIOUS
  <1>3. /\ calls[t].pc = "draining" /\ calls[t].group # <<>>
        /\ models' = Append(models, Rec(op, 1))
        /\ UNCHANGED <<journal, durable, phase, queue, dispatching, drain_depth, persists, persist_tail, flushes, wireSpent>>
    BY <1>2 DEF ApplyOp, persistVars
  <1>4. \/ /\ calls' = [calls EXCEPT ![t].group = group] /\ UNCHANGED wireHist
        \/ /\ calls' = [calls EXCEPT ![t] = [pc |-> "journal", group |-> group, record |-> op, result |-> "ok"]]
           /\ wireHist' = [wireHist EXCEPT !.applied = @ \cup {op.id}]
    BY <1>2 DEF ApplyOp
  <1>5. op \in Ops /\ group \in Seq(Ops) /\ calls \in [Threads -> DispatchCalls]
    <2>1. calls[t].group \in Seq(Ops)
      BY <1>1, TypeFacts
    <2> QED BY <2>1, <1>1, <1>2, <1>3 DEF WireTypes
  <1>6. op.id \in OpIds /\ op.id \in Nat /\ op.id # 0
    BY <1>5, RecordOf
  <1>7. /\ calls' \in [Threads -> DispatchCalls] /\ \A u \in Threads : u # t => calls'[u] = calls[u]
        /\ calls'[t].group = group
        /\ \/ calls'[t].pc = "draining" /\ UNCHANGED wireHist
           \/ /\ calls'[t].pc = "journal" /\ calls'[t].record = op
              /\ wireHist' = [wireHist EXCEPT !.applied = @ \cup {op.id}]
    <2>1. CASE calls' = [calls EXCEPT ![t].group = group] /\ UNCHANGED wireHist
      BY <2>1, <1>3, <1>5 DEF DispatchCalls
    <2>2. CASE /\ calls' = [calls EXCEPT ![t] = [pc |-> "journal", group |-> group, record |-> op, result |-> "ok"]]
               /\ wireHist' = [wireHist EXCEPT !.applied = @ \cup {op.id}]
      BY <2>2, <1>5 DEF DispatchCalls
    <2> QED BY <2>1, <2>2, <1>4
  <1>8. /\ wireHist' \in Hist /\ wireHist'.returned = wireHist.returned /\ wireHist'.late = wireHist.late
        /\ wireHist'.refused = wireHist.refused /\ wireHist'.dropped = wireHist.dropped /\ wireHist'.flushed = wireHist.flushed
        /\ wireHist'.overtaken = wireHist.overtaken
        /\ \/ calls'[t].pc = "draining" /\ wireHist'.applied = wireHist.applied
           \/ calls'[t].pc = "journal" /\ calls'[t].record = op /\ wireHist'.applied = wireHist.applied \cup {op.id}
    <2>1. wireHist \in Hist
      BY <1>1 DEF WireTypes
    <2>2. CASE calls'[t].pc = "draining" /\ UNCHANGED wireHist
      BY <2>1, <2>2
    <2>3. CASE /\ calls'[t].pc = "journal" /\ calls'[t].record = op
               /\ wireHist' = [wireHist EXCEPT !.applied = @ \cup {op.id}]
      BY <2>1, <2>3, <1>6 DEF Hist
    <2> QED BY <2>2, <2>3, <1>7
  <1>9. calls'[t].pc \in {"draining", "journal"} /\ calls'[t].group = Tail(calls[t].group)
    BY <1>2, <1>7
  <1>10. \A u \in Threads : u # t => calls[u].pc = "idle" /\ calls'[u].pc = "idle"
    BY <1>1, <1>3, <1>7 DEF OneDrains
  <1>11. models' \in Seq(WireRecords)
    BY <1>2, <1>3, <1>7, <1>9, OpLeavesGroup
  <1>12. (\A x \in Int : Behind(x) => x < op.id /\ Behind(x)') /\ Behind(op.id)'
    BY <1>2, <1>3, <1>7, <1>9, OpLeavesGroup
  <1>13. /\ \A u \in Threads : RisingIds(calls'[u].group)
         /\ \A u \in Threads : \A i \in 1 .. Len(calls'[u].group) :
                /\ calls'[u].group[i].id <= wireSpent.ops
                /\ \A j \in 1 .. Len(queue) : calls'[u].group[i].id < queue[j].id
         /\ \A i \in 1 .. Len(models') : Behind(models[i].op)'
    BY <1>2, <1>3, <1>7, <1>9, OpLeavesGroup
  <1>14. /\ \A i \in 1 .. Len(models') : models'[i].form >= 1 /\ models'[i].kind # "meta" /\ models'[i].op # 0
         /\ Increasing(models) => Increasing(models)'
    BY <1>2, <1>3, <1>7, <1>9, OpLeavesGroup
  <1>15. /\ \A i \in 1 .. Len(journal) : journal[i].op \in Int /\ Behind(journal[i].op)
         /\ \A i \in 1 .. Len(persists) : persists[i].op.id \in Int /\ Behind(persists[i].op.id)
    <2>1. /\ \A i \in 1 .. Len(journal) : journal[i].op \in Nat
          /\ \A i \in 1 .. Len(persists) : persists[i].op.id \in Nat
      BY ONLY <1>1, TypeFacts
    <2>2. /\ \A i \in 1 .. Len(journal) : Behind(journal[i].op)
          /\ \A i \in 1 .. Len(persists) : Behind(persists[i].op.id)
      BY ONLY <1>1 DEF Numbered
    <2> QED BY ONLY <2>1, <2>2
  <1>16. WireTypes'
    BY <1>1, <1>3, <1>7, <1>8, <1>11 DEF WireTypes
  <1>17. OneDrains'
    BY <1>1, <1>3, <1>7, <1>9, <1>10 DEF OneDrains
  <1>18. Numbered'
    <2>1. \A i \in 1 .. Len(journal') : Behind(journal[i].op)'
      <3> TAKE i \in 1 .. Len(journal')
      <3>1. PICK x \in Int : x = journal[i].op /\ Behind(x)
        BY <1>3, <1>15
      <3>2. Behind(x)' /\ journal'[i].op = x
        BY <3>1, <1>3, <1>12
      <3> QED BY <3>2 DEF Behind
    <2>2. \A i \in 1 .. Len(persists') : Behind(persists[i].op.id)'
      <3> TAKE i \in 1 .. Len(persists')
      <3>1. PICK x \in Int : x = persists[i].op.id /\ Behind(x)
        BY <1>3, <1>15
      <3>2. Behind(x)' /\ persists'[i].op.id = x
        BY <3>1, <1>3, <1>12
      <3> QED BY <3>2 DEF Behind
    <2>3. \A i, j \in 1 .. Len(persists') : i < j => persists'[i].op.id < persists'[j].op.id
      BY <1>1, <1>3 DEF Numbered
    <2> QED BY <2>1, <2>2, <2>3, <1>1, <1>3, <1>13 DEF Numbered, RisingIds
  <1>19. Queued'
    <2>2. /\ \A u \in Threads : \A i \in 1 .. Len(calls[u].group) :
                \/ \E j \in 1 .. Len(models') : models'[j].op = calls[u].group[i].id
                \/ \E j \in 1 .. Len(calls'[u].group) : calls'[u].group[j].id = calls[u].group[i].id
          /\ \A i \in 1 .. Len(models) : \E j \in 1 .. Len(models') : models'[j].op = models[i].op
      BY <1>2, <1>3, <1>7, <1>9, OpLeavesGroup
    <2>3. \A x \in wireHist.returned \ (wireHist.late \cup wireHist.refused) :
             \/ \E i \in 1 .. Len(models') : models'[i].op = x
             \/ \E i \in 1 .. Len(queue) : queue[i].id = x
             \/ \E u \in Threads : \E i \in 1 .. Len(calls'[u].group) : calls'[u].group[i].id = x
      <3> TAKE x \in wireHist.returned \ (wireHist.late \cup wireHist.refused)
      <3>1. \/ \E i \in 1 .. Len(models) : models[i].op = x
            \/ \E i \in 1 .. Len(queue) : queue[i].id = x
            \/ \E u \in Threads : \E i \in 1 .. Len(calls[u].group) : calls[u].group[i].id = x
        BY <1>1 DEF Queued
      <3>2. CASE \E i \in 1 .. Len(models) : models[i].op = x
        BY ONLY <3>2, <2>2
      <3>3. CASE \E u \in Threads : \E i \in 1 .. Len(calls[u].group) : calls[u].group[i].id = x
        <4>1. PICK u \in Threads : \E i \in 1 .. Len(calls[u].group) : calls[u].group[i].id = x
          BY <3>3
        <4>2. PICK i \in 1 .. Len(calls[u].group) : calls[u].group[i].id = x
          BY <4>1
        <4>3. \/ \E j \in 1 .. Len(models') : models'[j].op = x
              \/ \E j \in 1 .. Len(calls'[u].group) : calls'[u].group[j].id = x
          BY <4>2, <2>2
        <4> QED BY <4>3
      <3> QED BY <3>1, <3>2, <3>3
    <2>4. \A u \in Threads : calls'[u].pc # "ending"
      BY <1>9, <1>10
    <2> QED BY <2>3, <2>4, <1>3, <1>8 DEF Queued
  <1>20. OneChain'
    BY <1>1, <1>3, <1>8 DEF OneChain, Runs, Chained
  <1>21. InTurn'
    BY <1>1, <1>3, <1>8, <1>14 DEF InTurn, Runs, Increasing
  <1>22. Shaped'
    BY <1>1, <1>3, <1>14 DEF Shaped, Version
  <1>23. Kept'
    <2>1. \A x : ~Held(x)
      BY <1>3, <1>10 DEF Held
    <2>2. wireHist'.applied # wireHist.applied => Held(op.id)'
      BY <1>8 DEF Held
    <2>3. \A x \in wireHist.applied \ wireHist.dropped :
             InJournal(x, Len(journal)) \/ \E i \in Nat : Runs(i) /\ persists[i].op.id = x
      BY <2>1, <1>1 DEF Kept
    <2>4. \A x \in wireHist'.applied \ wireHist'.dropped :
             InJournal(x, Len(journal))' \/ Held(x)' \/ \E i \in Nat : Runs(i)' /\ persists'[i].op.id = x
      <3> TAKE x \in wireHist'.applied \ wireHist'.dropped
      <3>1. CASE x \in wireHist.applied
        BY <3>1, <2>3, <1>3, <1>8 DEF Runs, InJournal
      <3>2. CASE x \notin wireHist.applied
        BY <3>2, <2>2, <1>8
      <3> QED BY <3>1, <3>2
    <2>5. Kept /\ UNCHANGED <<journal, durable, persists, flushes>>
          /\ wireHist'.dropped = wireHist.dropped /\ wireHist'.flushed = wireHist.flushed
      BY <1>1, <1>3, <1>8
    <2> QED BY ONLY <2>4, <2>5 DEF Kept, Runs, Chained, InJournal
  <1>24. AtHand'
    <2> SUFFICES ASSUME NEW u \in Threads, calls'[u].pc = "journal"
                 PROVE  /\ calls'[u].record \in Ops /\ Behind(calls[u].record.id)'
                        /\ \A i \in 1 .. Len(journal') : journal'[i].op < calls'[u].record.id
                        /\ \A i \in 1 .. Len(persists') : persists'[i].op.id < calls'[u].record.id
      BY DEF AtHand
    <2>1. calls'[u].record = op
      BY <1>8, <1>10
    <2>2. Behind(calls[u].record.id)'
      BY <2>1, <1>12 DEF Behind
    <2>3. /\ \A i \in 1 .. Len(journal') : journal'[i].op < op.id
          /\ \A i \in 1 .. Len(persists') : persists'[i].op.id < op.id
      BY <1>3, <1>12, <1>15
    <2> QED BY <2>1, <2>2, <2>3, <1>5
  <1> QED BY <1>16, <1>17, <1>18, <1>19, <1>20, <1>21, <1>22, <1>23, <1>24 DEF WireInv

\* The record that was applied goes to the journal or to the end of the chain.
LEMMA JournalKeeps ==
    ASSUME WireInv, NEW t \in Threads, JournalOp(t) PROVE WireInv'
  <1>1. WireTypes /\ OneDrains /\ Numbered /\ Queued /\ OneChain /\ InTurn /\ Kept /\ Shaped
    BY DEF WireInv
  <1>2. PICK op, group : op = calls[t].record /\ group = calls[t].group
    OBVIOUS
  <1>3. /\ calls[t].pc = "journal"
        /\ calls' = [calls EXCEPT ![t] = [pc |-> "draining", group |-> group, record |-> NoRecord, result |-> "ok"]]
        /\ UNCHANGED <<durable, models, phase, queue, dispatching, drain_depth, flushes, wireSpent>>
    BY <1>2 DEF JournalOp
  <1>4. op \in Ops /\ Behind(op.id)
    BY <1>2, <1>3 DEF WireInv, AtHand
  <1>5. op.id \in OpIds /\ op.id \in Nat /\ op.id # 0
    BY <1>4, RecordOf
  <1>6. /\ calls' \in [Threads -> DispatchCalls] /\ \A u \in Threads : u # t => calls'[u] = calls[u]
        /\ calls'[t].pc = "draining" /\ \A u \in Threads : calls'[u].group = calls[u].group
    <2>1. group \in Seq(Ops) /\ calls \in [Threads -> DispatchCalls]
      BY <1>1, <1>2, TypeFacts DEF WireTypes
    <2> QED BY <2>1, <1>2, <1>3 DEF DispatchCalls
  <1>7. \A u \in Threads : u # t => calls[u].pc = "idle" /\ calls'[u].pc = "idle"
    BY <1>1, <1>3, <1>6 DEF OneDrains
  <1>8. \A x : Behind(x) => Behind(x)'
    BY <1>3, <1>6 DEF Behind
  <1>9. /\ \A i \in 1 .. Len(journal) : Behind(journal[i].op)
        /\ \A i \in 1 .. Len(persists) : Behind(persists[i].op.id)
    BY <1>1 DEF Numbered
  <1>10. ASSUME \A i \in 1 .. Len(journal') : Behind(journal[i].op)',
                \A i \in 1 .. Len(persists') : Behind(persists[i].op.id)',
                \A i, j \in 1 .. Len(persists') : i < j => persists'[i].op.id < persists'[j].op.id
         PROVE  Numbered'
    <2>1. \A i \in 1 .. Len(models') : Behind(models[i].op)'
      <3> TAKE i \in 1 .. Len(models')
      <3>1. PICK x : x = models[i].op
        OBVIOUS
      <3>2. Behind(x)
        BY <3>1, <1>1, <1>3 DEF Numbered
      <3>3. Behind(x)' /\ models'[i].op = x
        BY <3>1, <3>2, <1>3, <1>8
      <3> QED BY <3>3 DEF Behind
    <2> QED BY <2>1, <1>1, <1>3, <1>6, <1>10 DEF Numbered, RisingIds
  <1>11. OneDrains'
    BY <1>1, <1>3, <1>6, <1>7 DEF OneDrains
  <1>12. \A i \in 1 .. Len(journal) : journal[i].op < op.id
    BY <1>2, <1>3 DEF WireInv, AtHand
  <1>13. \A i \in 1 .. Len(persists) : persists[i].op.id < op.id
    BY <1>2, <1>3 DEF WireInv, AtHand
  <1>14. ASSUME UNCHANGED journal PROVE \A i \in 1 .. Len(journal') : Behind(journal[i].op)'
    <2> TAKE i \in 1 .. Len(journal')
    <2>1. PICK x : x = journal[i].op
      OBVIOUS
    <2>2. Behind(x)' /\ journal'[i].op = x
      BY <2>1, <1>8, <1>9, <1>14
    <2> QED BY <2>2 DEF Behind
  <1>15. ASSUME UNCHANGED persists PROVE \A i \in 1 .. Len(persists') : Behind(persists[i].op.id)'
    <2> TAKE i \in 1 .. Len(persists')
    <2>1. PICK x : x = persists[i].op.id
      OBVIOUS
    <2>2. Behind(x)' /\ persists'[i].op.id = x
      BY <2>1, <1>8, <1>9, <1>15
    <2> QED BY <2>2 DEF Behind
  <1>16. AtHand' /\ \A x : Held(x) => x = op.id
    <2>1. \A u \in Threads : calls'[u].pc # "journal"
      BY <1>6, <1>7
    <2> QED BY <2>1, <1>2, <1>7 DEF AtHand, Held
  <1>19. ASSUME wireHist'.returned = wireHist.returned, wireHist'.late = wireHist.late, wireHist'.refused = wireHist.refused
         PROVE  Queued'
    <2>1. \A u \in Threads : calls'[u].pc # "ending"
      BY <1>6, <1>7
    <2> QED BY <2>1, <1>1, <1>3, <1>6, <1>19 DEF Queued
  <1>20. Increasing(models) => Increasing(models)'
    BY <1>3 DEF Increasing
  <1>21. \A i \in 1 .. Len(models') : models'[i].form >= 1 /\ models'[i].kind # "meta" /\ models'[i].op # 0
    BY <1>1, <1>3 DEF Shaped
  <1>22. phase = "ready"
    BY <1>1, <1>3 DEF OneDrains
  <1>17. CASE /\ op.kind = "plain" /\ persist_tail = 0
              /\ journal' = Append(journal, Rec(op, 1))
              /\ wireHist' = [wireHist EXCEPT !.overtaken = IF Running THEN "yes" ELSE @]
              /\ UNCHANGED persistVars
    <2>1. UNCHANGED <<persists, persist_tail, flushes>>
      BY <1>3, <1>17 DEF persistVars
    <2>2. /\ wireHist' \in Hist /\ wireHist'.returned = wireHist.returned /\ wireHist'.late = wireHist.late
          /\ wireHist'.refused = wireHist.refused /\ wireHist'.dropped = wireHist.dropped /\ wireHist'.flushed = wireHist.flushed
          /\ wireHist'.applied = wireHist.applied
          /\ wireHist'.overtaken = IF Running THEN "yes" ELSE wireHist.overtaken
      BY <1>1, <1>17 DEF WireTypes, Hist
    <2>3. PICK r \in WireRecords : r = Rec(op, 1)
      BY <1>4, RecordOf
    <2>4. r.op = op.id
      BY <2>3, <1>4, RecordOf
    <2>5. journal \in Seq(WireRecords) /\ journal' = Append(journal, r)
      BY <2>3, <1>1, <1>17 DEF WireTypes
    <2>6. PICK n \in Nat : n = Len(journal)
      BY <2>5
    <2>7. journal' \in Seq(WireRecords) /\ Len(journal') = n + 1 /\ journal'[n + 1] = r /\ \A i \in 1 .. n : journal'[i] = journal[i]
      BY <2>3, <2>5, <2>6
    <2>8. (\A i \in 1 .. n + 1 : i \in 1 .. n \/ i = n + 1) /\ 1 .. n \subseteq 1 .. n + 1 /\ n + 1 \in 1 .. n + 1
      BY <2>6
    <2>9. durable \in Nat /\ durable <= n /\ durable <= n + 1 /\ 1 .. durable \subseteq 1 .. n
      BY <1>1, <2>6, TypeFacts
    <2>10. WireTypes'
      BY <2>1, <2>2, <2>7, <2>9, <1>1, <1>3, <1>6 DEF WireTypes
    <2>11. Numbered'
      <3>1. \A i \in 1 .. n + 1 : Behind(journal[i].op)'
        <4> TAKE i \in 1 .. n + 1
        <4>1. CASE i = n + 1
          <5>1. Behind(op.id)'
            BY <1>4, <1>8
          <5> QED BY <5>1, <4>1, <2>4, <2>7 DEF Behind
        <4>2. CASE i \in 1 .. n
          <5>1. PICK x : x = journal[i].op
            OBVIOUS
          <5>2. Behind(x)' /\ journal'[i].op = x
            BY <5>1, <4>2, <2>6, <2>7, <1>8, <1>9
          <5> QED BY <5>2 DEF Behind
        <4> QED BY <4>1, <4>2, <2>8
      <3>2. \A i, j \in 1 .. Len(persists') : i < j => persists'[i].op.id < persists'[j].op.id
        BY <2>1, <1>1 DEF Numbered
      <3> QED BY <3>1, <3>2, <2>1, <2>7, <1>10, <1>15
    <2>12. Queued'
      BY <2>2, <1>19
    <2>13. \A i : Runs(i)' <=> Runs(i)
      BY <2>1 DEF Runs
    <2>14. OneChain'
      BY <2>1, <2>2, <1>1 DEF OneChain, Runs, Chained
    <2>15. \A x : InJournal(x, n) => InJournal(x, n + 1)'
      BY <2>7, <2>8 DEF InJournal
    <2>16. \A x : InJournal(x, durable) => InJournal(x, durable)'
      BY <2>7, <2>9, <1>3 DEF InJournal
    <2>17. InJournal(op.id, n + 1)'
      BY <2>4, <2>7, <2>8 DEF InJournal
    <2>18. \A x : InJournal(x, n + 1)' => InJournal(x, Len(journal))'
      BY <2>7 DEF InJournal
    <2>19. Kept'
      <3>1. \A x \in wireHist'.applied \ wireHist'.dropped :
              InJournal(x, Len(journal))' \/ \E i \in Nat : Runs(i)' /\ persists'[i].op.id = x
        <4> TAKE x \in wireHist'.applied \ wireHist'.dropped
        <4>1. InJournal(x, n) \/ Held(x) \/ \E i \in Nat : Runs(i) /\ persists[i].op.id = x
          BY <2>2, <2>6, <1>1 DEF Kept
        <4> QED BY <4>1, <2>1, <2>13, <2>15, <2>17, <2>18, <1>16
      <3>2. ASSUME NEW f \in Flushers, flushes'[f].pc = "waiting", NEW x \in flushes'[f].covers \ wireHist'.dropped
            PROVE  InJournal(x, Len(journal))' \/ \E i \in Nat : Runs(i)' /\ Chained(i, flushes[f].waits)' /\ persists'[i].op.id = x
        <4>1. InJournal(x, n) \/ \E i \in Nat : Runs(i) /\ Chained(i, flushes[f].waits) /\ persists[i].op.id = x
          BY <3>2, <2>1, <2>2, <2>6, <1>1 DEF Kept
        <4>2. \A i : Chained(i, flushes[f].waits) => Chained(i, flushes[f].waits)'
          BY <2>1 DEF Chained
        <4> QED BY <4>1, <4>2, <2>1, <2>13, <2>15, <2>18
      <3>3. \A x \in wireHist'.flushed \ wireHist'.dropped : InJournal(x, durable)'
        BY <2>2, <2>16, <1>1 DEF Kept
      <3> QED BY <3>1, <3>2, <3>3 DEF Kept
    <2>20. InTurn'
      <3> SUFFICES ASSUME wireHist'.overtaken = "no"
                   PROVE  /\ Increasing(journal)' /\ Increasing(models)'
                          /\ \A i \in Nat : Runs(i)' => \A j \in 1 .. Len(journal') : journal'[j].op < persists'[i].op.id
        BY DEF InTurn
      <3>1. ~Running /\ wireHist.overtaken = "no"
        BY <2>2
      <3>2. \A i : ~Runs(i)
        <4>1. DOMAIN persists = 1 .. Len(persists)
          BY <1>1, TypeFacts
        <4> QED BY <4>1, <3>1 DEF Running, Runs
      <3>3. Increasing(Append(journal, r))
        BY <3>1, <2>3, <2>4, <2>5, <1>1, <1>12, IncreasingAppended DEF InTurn
      <3>4. Increasing(journal)' /\ Increasing(models)'
        BY <3>1, <3>3, <2>5, <1>1, <1>20 DEF InTurn, Increasing
      <3> QED BY <3>2, <3>4, <2>13
    <2>21. Shaped'
      BY <1>1, <1>3, <1>4, <1>17, <1>21, <1>22, ShapedAppended
    <2> QED BY <2>10, <2>11, <2>12, <2>14, <2>19, <2>20, <2>21, <1>11, <1>16 DEF WireInv
  <1>18. CASE /\ op.kind = "blob" \/ persist_tail # 0
              /\ persists' = Append(persists, [op |-> op, after |-> persist_tail, state |-> "running"])
              /\ persist_tail' = Len(persists) + 1
              /\ wireHist' = [wireHist EXCEPT !.overtaken = IF persist_tail = 0 /\ Running THEN "yes" ELSE @]
              /\ UNCHANGED journal
    <2>1. /\ wireHist' \in Hist /\ wireHist'.returned = wireHist.returned /\ wireHist'.late = wireHist.late
          /\ wireHist'.refused = wireHist.refused /\ wireHist'.dropped = wireHist.dropped /\ wireHist'.flushed = wireHist.flushed
          /\ wireHist'.applied = wireHist.applied
          /\ wireHist'.overtaken = IF persist_tail = 0 /\ Running THEN "yes" ELSE wireHist.overtaken
      BY <1>1, <1>18 DEF WireTypes, Hist
    <2>2. PICK n \in Nat : n = Len(persists)
      BY <1>1, TypeFacts
    <2>3. /\ OneChain' /\ persists' \in Seq(Tasks) /\ Len(persists') = n + 1 /\ persists'[n + 1].op = op
          /\ \A i \in 1 .. n : persists'[i] = persists[i]
          /\ \A i : Runs(i) => Runs(i)'
          /\ \A i : Runs(i)' => Runs(i) \/ i = n + 1
          /\ Runs(n + 1)'
          /\ \A i, w \in Nat : i \in 1 .. n /\ Chained(i, w) => Chained(i, w)'
      BY <2>1, <2>2, <1>1, <1>3, <1>4, <1>18, ChainGrows
    <2>4. (\A i \in 1 .. n + 1 : i \in 1 .. n \/ i = n + 1) /\ n + 1 \in Nat
      BY <2>2
    <2>5. persist_tail' \in Nat
      BY <2>2, <1>18
    <2>6. WireTypes'
      BY <2>1, <2>3, <2>5, <1>1, <1>3, <1>6, <1>18 DEF WireTypes
    <2>7. Numbered'
      <3>1. \A i \in 1 .. n + 1 : Behind(persists[i].op.id)'
        <4> TAKE i \in 1 .. n + 1
        <4>1. CASE i = n + 1
          <5>1. Behind(op.id)'
            BY <1>4, <1>8
          <5> QED BY <5>1, <4>1, <2>3 DEF Behind
        <4>2. CASE i \in 1 .. n
          <5>1. PICK x : x = persists[i].op.id
            OBVIOUS
          <5>2. Behind(x)' /\ persists'[i].op.id = x
            BY <5>1, <4>2, <2>2, <2>3, <1>8, <1>9
          <5> QED BY <5>2 DEF Behind
        <4> QED BY <4>1, <4>2, <2>4
      <3>2. ASSUME NEW i \in 1 .. n + 1, NEW j \in 1 .. n + 1, i < j PROVE persists'[i].op.id < persists'[j].op.id
        <4>1. i \in 1 .. n
          BY <3>2
        <4>2. CASE j \in 1 .. n
          BY <4>1, <4>2, <3>2, <2>2, <2>3, <1>1 DEF Numbered
        <4>3. CASE j = n + 1
          BY <4>1, <4>3, <2>2, <2>3, <1>13
        <4> QED BY <4>2, <4>3, <2>4
      <3> QED BY <3>1, <3>2, <2>3, <1>10, <1>14, <1>18
    <2>8. Queued'
      BY <2>1, <1>19
    <2>9. \A x, m : InJournal(x, m) => InJournal(x, m)'
      BY <1>18 DEF InJournal
    <2>10. \A i : Runs(i) => i \in 1 .. n /\ i \in Nat
      BY <2>2 DEF Runs
    <2>11. \A i : Runs(i) => persists'[i].op.id = persists[i].op.id
      BY <2>3, <2>10
    <2>12. Kept'
      <3>1. \A x \in wireHist'.applied \ wireHist'.dropped :
              InJournal(x, Len(journal))' \/ \E i \in Nat : Runs(i)' /\ persists'[i].op.id = x
        <4> TAKE x \in wireHist'.applied \ wireHist'.dropped
        <4>1. CASE x = op.id
          BY <4>1, <2>3, <2>4
        <4>2. CASE x # op.id
          <5>1. InJournal(x, Len(journal)) \/ \E i \in Nat : Runs(i) /\ persists[i].op.id = x
            BY <4>2, <2>1, <1>1, <1>16 DEF Kept
          <5>2. InJournal(x, Len(journal)) => InJournal(x, Len(journal))'
            BY <1>18 DEF InJournal
          <5> QED BY <5>1, <5>2, <2>3, <2>11
        <4> QED BY <4>1, <4>2
      <3>2. ASSUME NEW f \in Flushers, flushes'[f].pc = "waiting", NEW x \in flushes'[f].covers \ wireHist'.dropped
            PROVE  InJournal(x, Len(journal))' \/ \E i \in Nat : Runs(i)' /\ Chained(i, flushes[f].waits)' /\ persists'[i].op.id = x
        <4>1. InJournal(x, Len(journal)) \/ \E i \in Nat : Runs(i) /\ Chained(i, flushes[f].waits) /\ persists[i].op.id = x
          BY <3>2, <2>1, <1>1, <1>3 DEF Kept
        <4>2. PICK w \in Nat : w = flushes[f].waits
          BY <1>1, TypeFacts
        <4>3. \A i : Chained(i, w)' => Chained(i, flushes[f].waits)'
          BY <4>2, <1>3 DEF Chained
        <4>4. InJournal(x, Len(journal)) => InJournal(x, Len(journal))'
          BY <1>18 DEF InJournal
        <4>5. ASSUME NEW i \in Nat, Runs(i), Chained(i, w), persists[i].op.id = x
              PROVE  Runs(i)' /\ Chained(i, flushes[f].waits)' /\ persists'[i].op.id = x
          BY <4>3, <4>5, <2>3, <2>10, <2>11
        <4> QED BY <4>1, <4>2, <4>4, <4>5
      <3>3. \A x \in wireHist'.flushed \ wireHist'.dropped : InJournal(x, durable)'
        BY <2>1, <1>1, <1>3, <1>18 DEF Kept, InJournal
      <3> QED BY <3>1, <3>2, <3>3 DEF Kept
    <2>13. InTurn'
      <3> SUFFICES ASSUME wireHist'.overtaken = "no"
                   PROVE  /\ Increasing(journal)' /\ Increasing(models)'
                          /\ \A i \in Nat : Runs(i)' => \A j \in 1 .. Len(journal') : journal'[j].op < persists'[i].op.id
        BY DEF InTurn
      <3>1. wireHist.overtaken = "no"
        BY <2>1
      <3>2. Increasing(journal)' /\ Increasing(models)'
        BY <3>1, <1>1, <1>18, <1>20 DEF InTurn, Increasing
      <3>3. \A i \in Nat : Runs(i) => \A j \in 1 .. Len(journal) : journal[j].op < persists[i].op.id
        BY <3>1, <1>1 DEF InTurn
      <3>4. \A i \in Nat : Runs(i)' => \A j \in 1 .. Len(journal) : journal[j].op < persists'[i].op.id
        BY <3>3, <2>3, <2>11, <1>12
      <3> QED BY <3>2, <3>4, <1>18
    <2>14. Shaped'
      BY <1>1, <1>3, <1>18 DEF Shaped, Version
    <2> QED BY <2>3, <2>6, <2>7, <2>8, <2>12, <2>13, <2>14, <1>11, <1>16 DEF WireInv
  <1> QED BY <1>2, <1>17, <1>18 DEF JournalOp, append_to_journal

-----------------------------------------------------------------------------
(***************************************************************************)
(* The chain, flush and crashes.                                           *)
(***************************************************************************)
LEMMA PersistKeeps ==
    ASSUME WireInv, NEW p \in DOMAIN persists, PersistTask(p) PROVE WireInv'
  <1>1. WireTypes /\ OneDrains /\ Numbered /\ Queued /\ OneChain /\ InTurn /\ Kept /\ Shaped
    BY DEF WireInv
  <1>2. /\ persists[p].state = "running" /\ persists' = [persists EXCEPT ![p].state = "done"]
        /\ persists[p].after > 0 => persists[persists[p].after].state = "done"
        /\ UNCHANGED <<durable, models, phase, calls, queue, dispatching, drain_depth, persist_tail, flushes>>
    BY DEF PersistTask, dispatchVars
  <1>3. PICK n \in Nat : n = Len(persists) /\ DOMAIN persists = 1 .. n
    BY <1>1, TypeFacts
  <1>4. p \in 1 .. n /\ p \in Nat /\ Runs(p)
    BY <1>2, <1>3 DEF Runs
  <1>5. persists \in Seq(Tasks)
    BY <1>1 DEF WireTypes
  <1>6. /\ persists' \in Seq(Tasks) /\ Len(persists') = n
        /\ \A i \in 1 .. n : /\ persists'[i].op = persists[i].op /\ persists'[i].after = persists[i].after
                             /\ persists'[i].state = IF i = p THEN "done" ELSE persists[i].state
    <2>1. PICK task : task = [persists[p] EXCEPT !.state = "done"]
      OBVIOUS
    <2>2. persists[p] \in Tasks
      BY <1>3, <1>4, <1>5
    <2>3. task \in Tasks /\ task.op = persists[p].op /\ task.after = persists[p].after /\ task.state = "done"
      BY <2>1, <2>2 DEF Tasks
    <2>4. persists' = [persists EXCEPT ![p] = task]
      BY <2>1, <1>2
    <2>5. /\ persists' \in Seq(Tasks) /\ Len(persists') = n
          /\ \A i \in 1 .. n : persists'[i] = IF i = p THEN task ELSE persists[i]
      BY <2>3, <2>4, <1>3, <1>4, <1>5
    <2> QED BY <2>3, <2>5
  <1>7. \A i : Runs(i)' <=> Runs(i) /\ i # p
    BY <1>3, <1>6 DEF Runs
  <1>8. \A i : Runs(i) => i \in 1 .. n /\ i \in Nat
    BY <1>3 DEF Runs
  <1>9. \A i \in 1 .. n : \A w \in Nat : Chained(i, w)' <=> Chained(i, w)
    <2> TAKE i \in 1 .. n
    <2> TAKE w \in Nat
    <2>1. w <= n => \A k \in i + 1 .. w : k \in 1 .. n
      BY <1>3
    <2> QED BY <2>1, <1>3, <1>6 DEF Chained
  <1>10. ASSUME NEW i \in Nat, Runs(i), Chained(i, p) PROVE i = p
    <2> SUFFICES ASSUME i # p PROVE FALSE
      OBVIOUS
    <2>1. i \in 1 .. n /\ i < p /\ p \in i + 1 .. p
      BY <1>4, <1>8, <1>10 DEF Chained
    <2>2. persists[p].after = p - 1
      BY <2>1, <1>10 DEF Chained
    <2>3. p - 1 \in Nat /\ p - 1 > 0 /\ i <= p - 1 /\ p - 1 <= n
      BY <2>1, <1>4
    <2>4. persists[p - 1].state = "done"
      BY <2>2, <2>3, <1>2
    <2>5. \A k \in i + 1 .. p - 1 : k \in i + 1 .. p
      BY <2>1, <1>4
    <2>6. Chained(i, p - 1)
      BY <2>3, <2>5, <1>3, <1>10 DEF Chained
    <2>7. Runs(p - 1)
      BY <2>3, <2>6, <1>1, <1>10 DEF OneChain
    <2> QED BY <2>4, <2>7 DEF Runs
  <1>11. phase = "ready"
    <2>1. persists # <<>>
      BY <1>3, <1>4
    <2> QED BY <2>1, <1>1 DEF OneDrains
  <1>12. PICK op \in Ops : op = persists[p].op
    BY <1>1, <1>3, <1>4, TypeFacts
  <1>13. op.id \in OpIds /\ op.id \in Nat /\ op.id # 0
    BY <1>12, RecordOf
  <1>14. OneDrains'
    BY <1>1, <1>2, <1>11 DEF OneDrains
  <1>15. ASSUME wireHist'.overtaken = wireHist.overtaken PROVE OneChain'
    <2>1. \A i \in 1 .. n : persists'[i].after \in {0, i - 1}
      BY <1>1, <1>3, <1>6 DEF OneChain
    <2>2. persist_tail' \in {0, n} /\ persist_tail \in Nat
      BY <1>1, <1>2, <1>3 DEF OneChain, WireTypes
    <2>3. \A f \in Flushers : flushes'[f].waits <= n /\ flushes[f].waits \in Nat
      BY <1>1, <1>2, <1>3, TypeFacts DEF OneChain
    <2>4. ASSUME NEW i \in Nat, NEW w \in Nat, Runs(i)', Chained(i, w)' PROVE Runs(w)'
      <3>1. Runs(i) /\ i # p /\ Chained(i, w)
        BY <2>4, <1>7, <1>8, <1>9
      <3>2. Runs(w)
        BY <3>1, <1>1 DEF OneChain
      <3>3. w # p
        BY <3>1, <1>10
      <3> QED BY <3>2, <3>3, <1>7
    <2>6. ASSUME wireHist'.overtaken = "no", NEW i \in Nat, Runs(i)' PROVE Chained(i, Len(persists))'
      <3>1. Runs(i) /\ i \in 1 .. n
        BY <2>6, <1>7, <1>8
      <3>2. Chained(i, n)
        BY <3>1, <2>6, <1>1, <1>3, <1>15 DEF OneChain
      <3>3. Chained(i, n)'
        BY <3>1, <3>2, <1>9
      <3> QED BY <3>3, <1>6 DEF Chained
    <2> QED BY <2>1, <2>2, <2>3, <2>4, <2>6, <1>6 DEF OneChain
  <1>16. \A i, j \in 1 .. n : i < j => persists'[i].op.id < persists'[j].op.id
    BY <1>1, <1>3, <1>6 DEF Numbered
  <1>17. ASSUME wireSpent'.ops = wireSpent.ops
         PROVE  /\ \A x : Behind(x)' <=> Behind(x)
                /\ \A i \in 1 .. n : Behind(persists[i].op.id)'
                /\ \A i \in 1 .. Len(models') : Behind(models[i].op)'
    <2>1. \A x : Behind(x)' <=> Behind(x)
      BY <1>2, <1>17 DEF Behind
    <2>2. \A i \in 1 .. n : Behind(persists[i].op.id)'
      BY <1>1, <1>2, <1>3, <1>6, <1>17 DEF Numbered, Behind
    <2>3. \A i \in 1 .. Len(models') : Behind(models[i].op)'
      BY <1>1, <1>2, <1>17 DEF Numbered, Behind
    <2> QED BY <2>1, <2>2, <2>3
  <1>20. \A x : Held(x) => Held(x)'
    BY <1>2 DEF Held
  <1>21. ASSUME wireSpent'.ops = wireSpent.ops,
                \A j \in 1 .. Len(journal') :
                    journal'[j].op = op.id \/ (j \in 1 .. Len(journal) /\ journal'[j] = journal[j])
         PROVE  AtHand'
    <2> SUFFICES ASSUME NEW u \in Threads, calls'[u].pc = "journal"
                 PROVE  /\ calls'[u].record \in Ops /\ Behind(calls[u].record.id)'
                        /\ \A i \in 1 .. Len(journal') : journal'[i].op < calls'[u].record.id
                        /\ \A i \in 1 .. Len(persists') : persists'[i].op.id < calls'[u].record.id
      BY DEF AtHand
    <2>1. PICK held : held = calls[u].record
      OBVIOUS
    <2>2. /\ held \in Ops /\ Behind(held.id)
          /\ \A i \in 1 .. Len(journal) : journal[i].op < held.id
          /\ \A i \in 1 .. n : persists[i].op.id < held.id
      BY <2>1, <1>2, <1>3 DEF WireInv, AtHand
    <2>3. calls'[u].record = held
      BY <2>1, <1>2
    <2>4. Behind(calls[u].record.id)'
      BY <2>2, <2>3, <1>17, <1>21 DEF Behind
    <2>5. op.id < held.id
      BY <2>2, <1>4, <1>12
    <2>6. \A i \in 1 .. Len(journal') : journal'[i].op < held.id
      BY <2>2, <2>5, <1>21
    <2>7. \A i \in 1 .. Len(persists') : persists'[i].op.id < held.id
      BY <2>2, <1>6
    <2> QED BY <2>2, <2>3, <2>4, <2>6, <2>7
  <1>18. CASE journal' = Append(journal, Rec(persists[p].op, 1)) /\ UNCHANGED <<wireHist, wireSpent>>
    <2>1. PICK r \in WireRecords : r = Rec(op, 1)
      BY <1>12, RecordOf
    <2>2. r.op = op.id
      BY <2>1, <1>12, RecordOf
    <2>3. journal \in Seq(WireRecords) /\ journal' = Append(journal, r)
      BY <2>1, <1>1, <1>12, <1>18 DEF WireTypes
    <2>4. PICK m \in Nat : m = Len(journal)
      BY <1>1, TypeFacts
    <2>5. journal' \in Seq(WireRecords) /\ Len(journal') = m + 1 /\ journal'[m + 1] = r /\ \A i \in 1 .. m : journal'[i] = journal[i]
      BY <2>1, <2>3, <2>4
    <2>6. (\A i \in 1 .. m + 1 : i \in 1 .. m \/ i = m + 1) /\ 1 .. m \subseteq 1 .. m + 1 /\ m + 1 \in 1 .. m + 1
      BY <2>4
    <2>7. durable \in Nat /\ durable <= m + 1 /\ 1 .. durable \subseteq 1 .. m
      BY <1>1, <2>4, TypeFacts
    <2>8. WireTypes'
      BY <2>5, <2>7, <1>1, <1>2, <1>6, <1>18 DEF WireTypes
    <2>9. Numbered'
      <3>1. \A i \in 1 .. m + 1 : Behind(journal[i].op)'
        <4> TAKE i \in 1 .. m + 1
        <4>1. PICK x : x = journal'[i].op
          OBVIOUS
        <4>2. Behind(x)
          BY <4>1, <2>2, <2>4, <2>5, <2>6, <1>1, <1>3, <1>4, <1>12 DEF Numbered
        <4>3. Behind(x)'
          BY <4>2, <1>17, <1>18
        <4> QED BY <4>1, <4>3 DEF Behind
      <3> QED BY <3>1, <2>5, <1>1, <1>2, <1>6, <1>16, <1>17, <1>18 DEF Numbered, RisingIds
    <2>10. Queued'
      BY <1>1, <1>2, <1>18 DEF Queued
    <2>11. OneChain'
      BY <1>15, <1>18
    <2>12. InTurn'
      <3> SUFFICES ASSUME wireHist'.overtaken = "no"
                   PROVE  /\ Increasing(journal)' /\ Increasing(models)'
                          /\ \A i \in Nat : Runs(i)' => \A j \in 1 .. Len(journal') : journal'[j].op < persists'[i].op.id
        BY DEF InTurn
      <3>1. /\ Increasing(journal) /\ Increasing(models)
            /\ \A i \in Nat : Runs(i) => Chained(i, n) /\ \A j \in 1 .. m : journal[j].op < persists[i].op.id
        BY <1>1, <1>3, <1>18, <2>4 DEF InTurn, OneChain
      <3>2. Increasing(Append(journal, r))
        BY <3>1, <2>1, <2>2, <2>3, <2>4, <1>4, <1>12, IncreasingAppended
      <3>3. Increasing(journal)' /\ Increasing(models)'
        BY <3>1, <3>2, <2>3, <1>2 DEF Increasing
      <3>4. ASSUME NEW i \in Nat, Runs(i)', NEW j \in 1 .. m + 1 PROVE journal'[j].op < persists'[i].op.id
        <4>1. Runs(i) /\ i # p /\ i \in 1 .. n /\ Chained(i, n)
          BY <3>1, <3>4, <1>7, <1>8
        <4>2. CASE i < p
          <5>1. i <= p /\ p <= n /\ \A k \in i + 1 .. p : k \in i + 1 .. n
            BY <4>1, <4>2, <1>4
          <5>2. Chained(i, p)
            BY <4>1, <5>1, <1>3 DEF Chained
          <5> QED BY <5>2, <4>1, <1>10
        <4>3. CASE p < i
          <5>1. op.id < persists[i].op.id
            BY <4>1, <4>3, <1>1, <1>3, <1>4, <1>12 DEF Numbered
          <5>2. journal'[j].op < persists[i].op.id
            BY <5>1, <4>1, <3>1, <2>2, <2>5, <2>6
          <5> QED BY <5>2, <4>1, <1>6
        <4>4. i < p \/ p < i
          BY <4>1, <1>4
        <4> QED BY <4>2, <4>3, <4>4
      <3> QED BY <3>3, <3>4, <2>5
    <2>13. Kept'
      <3>1. \A x : InJournal(x, m) => InJournal(x, Len(journal))'
        BY <2>5, <2>6 DEF InJournal
      <3>2. InJournal(op.id, Len(journal))'
        BY <2>2, <2>5, <2>6 DEF InJournal
      <3>3. \A x \in wireHist'.applied \ wireHist'.dropped :
              InJournal(x, Len(journal))' \/ Held(x)' \/ \E i \in Nat : Runs(i)' /\ persists'[i].op.id = x
        <4> TAKE x \in wireHist'.applied \ wireHist'.dropped
        <4>1. InJournal(x, m) \/ Held(x) \/ \E i \in Nat : Runs(i) /\ persists[i].op.id = x
          BY <2>4, <1>1, <1>18 DEF Kept
        <4> QED BY <4>1, <3>1, <3>2, <1>6, <1>7, <1>8, <1>12, <1>20
      <3>4. ASSUME NEW f \in Flushers, flushes'[f].pc = "waiting", NEW x \in flushes'[f].covers \ wireHist'.dropped
            PROVE  InJournal(x, Len(journal))' \/ \E i \in Nat : Runs(i)' /\ Chained(i, flushes[f].waits)' /\ persists'[i].op.id = x
        <4>1. PICK w \in Nat : w = flushes[f].waits
          BY <1>1, TypeFacts
        <4>2. InJournal(x, m) \/ \E i \in Nat : Runs(i) /\ Chained(i, w) /\ persists[i].op.id = x
          BY <4>1, <3>4, <2>4, <1>1, <1>2, <1>18 DEF Kept
        <4>3. \A i : Chained(i, w)' => Chained(i, flushes[f].waits)'
          BY <4>1, <1>2 DEF Chained
        <4>4. ASSUME NEW i \in Nat, Runs(i), Chained(i, w), persists[i].op.id = x, i # p
              PROVE  Runs(i)' /\ Chained(i, flushes[f].waits)' /\ persists'[i].op.id = x
          BY <4>3, <4>4, <1>6, <1>7, <1>8, <1>9
        <4> QED BY <4>2, <4>4, <3>1, <3>2, <1>12
      <3>5. \A x \in wireHist'.flushed \ wireHist'.dropped : InJournal(x, durable)'
        BY <2>5, <2>7, <1>1, <1>2, <1>18 DEF Kept, InJournal
      <3> QED BY <3>3, <3>4, <3>5 DEF Kept
    <2>14. \A i \in 1 .. Len(models') : models'[i].form >= 1 /\ models'[i].kind # "meta" /\ models'[i].op # 0
      BY <1>1, <1>2 DEF Shaped
    <2>15. Shaped'
      BY <2>14, <1>1, <1>2, <1>11, <1>12, <1>18, ShapedAppended
    <2>16. AtHand'
      BY <2>2, <2>4, <2>5, <2>6, <1>18, <1>21
    <2> QED BY <2>8, <2>9, <2>10, <2>11, <2>12, <2>13, <2>15, <2>16, <1>14 DEF WireInv
  <1>19. CASE /\ Mishap /\ UNCHANGED journal
              /\ wireHist' = [wireHist EXCEPT !.dropped = @ \cup {persists[p].op.id}]
    <2>1. /\ wireHist' \in Hist /\ wireHist'.returned = wireHist.returned /\ wireHist'.late = wireHist.late
          /\ wireHist'.refused = wireHist.refused /\ wireHist'.applied = wireHist.applied /\ wireHist'.flushed = wireHist.flushed
          /\ wireHist'.dropped = wireHist.dropped \cup {op.id}
          /\ wireHist'.overtaken = wireHist.overtaken
      BY <1>1, <1>12, <1>13, <1>19 DEF WireTypes, Hist
    <2>2. wireSpent' \in Spent /\ wireSpent'.ops = wireSpent.ops
      BY <1>1, <1>19, MishapSpends
    <2>3. WireTypes'
      BY <2>1, <2>2, <1>1, <1>2, <1>6, <1>19 DEF WireTypes
    <2>4. Numbered'
      <3>1. \A i \in 1 .. Len(journal') : Behind(journal[i].op)'
        BY <2>2, <1>1, <1>2, <1>19 DEF Numbered, Behind
      <3> QED BY <3>1, <2>2, <1>1, <1>2, <1>6, <1>16, <1>17 DEF Numbered, RisingIds
    <2>5. Queued'
      BY <2>1, <1>1, <1>2 DEF Queued
    <2>6. OneChain'
      BY <2>1, <1>15
    <2>7. InTurn'
      <3>1. \A i \in Nat : Runs(i)' => Runs(i) /\ persists'[i].op.id = persists[i].op.id
        BY <1>6, <1>7, <1>8
      <3> QED BY <3>1, <2>1, <1>1, <1>2, <1>19 DEF InTurn, Increasing
    <2>8. Kept'
      <3>1. \A x, k : InJournal(x, k)' <=> InJournal(x, k)
        BY <1>19 DEF InJournal
      <3>2. \A x \in wireHist'.applied \ wireHist'.dropped :
              InJournal(x, Len(journal))' \/ Held(x)' \/ \E i \in Nat : Runs(i)' /\ persists'[i].op.id = x
        <4> TAKE x \in wireHist'.applied \ wireHist'.dropped
        <4>1. x # op.id /\ (InJournal(x, Len(journal)) \/ Held(x) \/ \E i \in Nat : Runs(i) /\ persists[i].op.id = x)
          BY <2>1, <1>1 DEF Kept
        <4>2. InJournal(x, Len(journal)) => InJournal(x, Len(journal))'
          BY <1>19 DEF InJournal
        <4> QED BY <4>1, <4>2, <1>6, <1>7, <1>8, <1>12, <1>20
      <3>3. ASSUME NEW f \in Flushers, flushes'[f].pc = "waiting", NEW x \in flushes'[f].covers \ wireHist'.dropped
            PROVE  InJournal(x, Len(journal))' \/ \E i \in Nat : Runs(i)' /\ Chained(i, flushes[f].waits)' /\ persists'[i].op.id = x
        <4>1. PICK w \in Nat : w = flushes[f].waits
          BY <1>1, TypeFacts
        <4>2. x # op.id /\ (InJournal(x, Len(journal)) \/ \E i \in Nat : Runs(i) /\ Chained(i, w) /\ persists[i].op.id = x)
          BY <4>1, <3>3, <2>1, <1>1, <1>2 DEF Kept
        <4>3. \A i : Chained(i, w)' => Chained(i, flushes[f].waits)'
          BY <4>1, <1>2 DEF Chained
        <4>4. ASSUME NEW i \in Nat, Runs(i), Chained(i, w), persists[i].op.id = x, i # p
              PROVE  Runs(i)' /\ Chained(i, flushes[f].waits)' /\ persists'[i].op.id = x
          BY <4>3, <4>4, <1>6, <1>7, <1>8, <1>9
        <4>5. InJournal(x, Len(journal)) => InJournal(x, Len(journal))'
          BY <1>19 DEF InJournal
        <4> QED BY <4>2, <4>4, <4>5, <1>12
      <3>4. \A x \in wireHist'.flushed \ wireHist'.dropped : InJournal(x, durable)'
        BY <2>1, <1>1, <1>2, <1>19 DEF Kept, InJournal
      <3> QED BY <3>2, <3>3, <3>4 DEF Kept
    <2>9. Shaped'
      BY <1>1, <1>2, <1>19 DEF Shaped, Version
    <2>10. AtHand'
      BY <2>2, <1>19, <1>21
    <2> QED BY <2>3, <2>4, <2>5, <2>6, <2>7, <2>8, <2>9, <2>10, <1>14 DEF WireInv
  <1> QED BY <1>18, <1>19 DEF PersistTask

LEMMA TakesTailKeeps ==
    ASSUME WireInv, NEW f \in Flushers, FlushTakesTail(f) PROVE WireInv'
  <1>1. WireTypes /\ OneDrains /\ Numbered /\ Queued /\ OneChain /\ InTurn /\ Kept /\ Shaped
    BY DEF WireInv
  <1>2. PICK covers : covers = wireHist.applied \ (Unjournaled \cup CutOff)
    OBVIOUS
  <1>3. /\ phase = "ready" /\ flushes[f].pc = "idle" /\ persist_tail' = 0
        /\ flushes' = [flushes EXCEPT ![f] = [pc |-> "waiting", waits |-> persist_tail, covers |-> covers]]
        /\ wireSpent' = [wireSpent EXCEPT !["flushes"] = @ + 1]
        /\ UNCHANGED <<journal, durable, models, phase, calls, queue, dispatching, drain_depth, persists, wireHist>>
    BY <1>2 DEF FlushTakesTail, First, WireSpend, dispatchVars
  <1>4. wireSpent' \in Spent /\ wireSpent'.ops = wireSpent.ops
    <2>1. wireSpent \in Spent /\ wireSpent' = [wireSpent EXCEPT !.flushes = wireSpent.flushes + 1]
      BY <1>1, <1>3 DEF WireTypes
    <2>2. wireSpent.flushes + 1 \in Nat
      BY <2>1 DEF Spent
    <2> QED BY <2>1, <2>2 DEF Spent
  <1>5. covers \in SUBSET OpIds
    BY <1>1, <1>2 DEF WireTypes, Hist
  <1>6. /\ flushes' \in [Flushers -> FlushCalls] /\ \A g \in Flushers : g # f => flushes'[g] = flushes[g]
        /\ flushes'[f].pc = "waiting" /\ flushes'[f].waits = persist_tail /\ flushes'[f].covers = covers
    BY <1>1, <1>3, <1>5 DEF WireTypes, FlushCalls
  <1>7. WireTypes'
    BY <1>1, <1>3, <1>4, <1>6 DEF WireTypes
  <1>8. OneDrains'
    BY <1>1, <1>3 DEF OneDrains
  <1>9. Numbered'
    BY <1>1, <1>3, <1>4 DEF Numbered, RisingIds, Behind
  <1>10. Queued'
    BY <1>1, <1>3 DEF Queued
  <1>11. (\A i : Runs(i)' <=> Runs(i)) /\ \A i, w : Chained(i, w)' <=> Chained(i, w)
    BY <1>3 DEF Runs, Chained
  <1>12. ASSUME NEW i \in Nat, Runs(i), persists[i].op.id \notin CutOff PROVE Chained(i, persist_tail)
    <2>1. PICK n \in Nat : n = Len(persists) /\ DOMAIN persists = 1 .. n
      BY <1>1, TypeFacts
    <2>2. i \in 1 .. n /\ persists[i].state = "running"
      BY <1>12, <2>1 DEF Runs
    <2>3. persist_tail # 0 /\ \A j \in 1 .. n : j > i => persists[j].after # 0
      BY <2>1, <2>2, <1>12 DEF CutOff
    <2>4. persist_tail = n
      BY <2>1, <2>3, <1>1 DEF OneChain
    <2>5. \A k \in i + 1 .. n : k \in 1 .. n /\ k > i
      BY <2>1, <2>2
    <2>6. \A k \in i + 1 .. n : persists[k].after = k - 1
      BY <2>1, <2>3, <2>5, <1>1 DEF OneChain
    <2> QED BY <2>1, <2>2, <2>4, <2>6 DEF Chained
  <1>13. OneChain'
    <2>1. \A i \in 1 .. Len(persists') : persists'[i].after \in {0, i - 1}
      BY <1>1, <1>3 DEF OneChain
    <2>2. \A g \in Flushers : flushes'[g].waits <= Len(persists')
      <3>1. Len(persists) \in Nat
        BY <1>1, TypeFacts
      <3> QED BY <3>1, <1>1, <1>3, <1>6 DEF OneChain
    <2>3. \A i, w \in Nat : Runs(i)' /\ Chained(i, w)' => Runs(w)'
      BY <1>1, <1>11 DEF OneChain
    <2>4. wireHist'.overtaken = "no" => \A i \in Nat : Runs(i)' => Chained(i, Len(persists))'
      BY <1>1, <1>3 DEF OneChain, Runs, Chained
    <2> QED BY <2>1, <2>2, <2>3, <2>4, <1>3 DEF OneChain
  <1>14. InTurn'
    BY <1>1, <1>3 DEF InTurn, Runs, Increasing
  <1>15. Kept'
    <2>1. \A x \in wireHist'.applied \ wireHist'.dropped :
            InJournal(x, Len(journal))' \/ Held(x)' \/ \E i \in Nat : Runs(i)' /\ persists'[i].op.id = x
      BY <1>1, <1>3 DEF Kept, Runs, InJournal, Held
    <2>2. ASSUME NEW g \in Flushers, flushes'[g].pc = "waiting", NEW x \in flushes'[g].covers \ wireHist'.dropped
          PROVE  InJournal(x, Len(journal))' \/ \E i \in Nat : Runs(i)' /\ Chained(i, flushes[g].waits)' /\ persists'[i].op.id = x
      <3>1. InJournal(x, Len(journal)) => InJournal(x, Len(journal))'
        BY <1>3 DEF InJournal
      <3>2. CASE g = f
        <4>1. x \in wireHist.applied \ wireHist.dropped /\ x \notin Unjournaled /\ x \notin CutOff
          BY <3>2, <2>2, <1>2, <1>3, <1>6
        <4>2. InJournal(x, Len(journal)) \/ \E i \in Nat : Runs(i) /\ persists[i].op.id = x
          BY <4>1, <1>1 DEF Kept, Held, Unjournaled
        <4>3. ASSUME NEW i \in Nat, Runs(i), persists[i].op.id = x
              PROVE  Runs(i)' /\ Chained(i, flushes[g].waits)' /\ persists'[i].op.id = x
          <5>1. Chained(i, persist_tail)
            BY <4>1, <4>3, <1>12
          <5>2. Chained(i, flushes[g].waits)'
            BY <5>1, <3>2, <1>3, <1>6 DEF Chained
          <5> QED BY <5>2, <4>3, <1>3, <1>11
        <4> QED BY <4>2, <4>3, <3>1
      <3>3. CASE g # f
        <4>1. flushes'[g] = flushes[g]
          BY <3>3, <1>6
        <4>2. InJournal(x, Len(journal)) \/ \E i \in Nat : Runs(i) /\ Chained(i, flushes[g].waits) /\ persists[i].op.id = x
          BY <4>1, <2>2, <1>1, <1>3 DEF Kept
        <4>3. \A i : Chained(i, flushes[g].waits) => Chained(i, flushes[g].waits)'
          BY <4>1, <1>3 DEF Chained
        <4> QED BY <4>2, <4>3, <3>1, <1>3, <1>11
      <3> QED BY <3>2, <3>3
    <2>3. \A x \in wireHist'.flushed \ wireHist'.dropped : InJournal(x, durable)'
      BY <1>1, <1>3 DEF Kept, InJournal
    <2> QED BY <2>1, <2>2, <2>3 DEF Kept
  <1>16. Shaped'
    BY <1>1, <1>3 DEF Shaped, Version
  <1>17. AtHand'
    BY <1>3, <1>4 DEF WireInv, AtHand, Behind
  <1> QED BY <1>7, <1>8, <1>9, <1>10, <1>13, <1>14, <1>15, <1>16, <1>17 DEF WireInv

LEMMA FlushReturnsKeeps ==
    ASSUME WireInv, NEW f \in Flushers, FlushReturns(f) PROVE WireInv'
  <1>1. WireTypes /\ OneDrains /\ Numbered /\ Queued /\ OneChain /\ InTurn /\ Kept /\ Shaped
    BY DEF WireInv
  <1>2. /\ flushes[f].pc = "waiting" /\ flushes' = [flushes EXCEPT ![f] = Rested]
        /\ flushes[f].waits > 0 => persists[flushes[f].waits].state = "done"
        /\ UNCHANGED <<journal, models, phase, calls, queue, dispatching, drain_depth, persists, persist_tail>>
    BY DEF FlushReturns, dispatchVars, persistVars
  <1>3. PICK waits \in Nat, covers \in SUBSET OpIds : waits = flushes[f].waits /\ covers = flushes[f].covers
    <2>1. flushes[f] \in FlushCalls
      BY <1>1, TypeFacts
    <2> QED BY <2>1 DEF FlushCalls
  <1>4. PICK m \in Nat : m = Len(journal) /\ durable \in Nat /\ durable <= m
    BY <1>1, TypeFacts
  <1>5. \/ /\ durable' = m
           /\ wireHist' = [wireHist EXCEPT !.flushed = @ \cup covers]
           /\ UNCHANGED wireSpent
        \/ Mishap /\ UNCHANGED <<durable, wireHist>>
    BY <1>3, <1>4 DEF FlushReturns
  <1>6. wireSpent' \in Spent /\ wireSpent'.ops = wireSpent.ops
    <2>1. CASE UNCHANGED wireSpent
      BY <2>1, <1>1 DEF WireTypes
    <2>2. CASE Mishap
      BY <2>2, <1>1, MishapSpends
    <2> QED BY <2>1, <2>2, <1>5
  <1>7. /\ wireHist' \in Hist /\ wireHist'.returned = wireHist.returned /\ wireHist'.late = wireHist.late
        /\ wireHist'.refused = wireHist.refused /\ wireHist'.applied = wireHist.applied /\ wireHist'.dropped = wireHist.dropped
        /\ wireHist'.overtaken = wireHist.overtaken
        /\ \/ wireHist'.flushed = wireHist.flushed \cup covers /\ durable' = m
           \/ wireHist'.flushed = wireHist.flushed /\ durable' = durable
    <2>1. wireHist \in Hist
      BY <1>1 DEF WireTypes
    <2>2. CASE durable' = m /\ wireHist' = [wireHist EXCEPT !.flushed = @ \cup covers]
      BY <2>1, <2>2 DEF Hist
    <2>3. CASE UNCHANGED <<durable, wireHist>>
      BY <2>1, <2>3
    <2> QED BY <2>2, <2>3, <1>5
  <1>8. durable' \in Nat /\ durable' <= m /\ durable <= durable' /\ 1 .. durable \subseteq 1 .. durable'
    <2>1. durable' = m \/ durable' = durable
      BY <1>7
    <2> QED BY <2>1, <1>4
  <1>9. /\ flushes' \in [Flushers -> FlushCalls] /\ \A g \in Flushers : g # f => flushes'[g] = flushes[g]
        /\ flushes'[f].pc = "idle" /\ flushes'[f].waits = 0
    BY <1>1, <1>2 DEF WireTypes, FlushCalls, Rested
  <1>10. WireTypes'
    BY <1>1, <1>2, <1>4, <1>6, <1>7, <1>8, <1>9 DEF WireTypes
  <1>11. OneDrains'
    <2>1. \A g \in Flushers : flushes[g].pc = "idle" => flushes'[g].pc = "idle"
      BY <1>9
    <2> QED BY <2>1, <1>1, <1>2, <1>7 DEF OneDrains
  <1>12. Numbered'
    <2>1. UNCHANGED <<journal, models, persists, calls, queue>>
      BY <1>2
    <2>2. /\ \A i \in 1 .. Len(journal) : Behind(journal[i].op)'
          /\ \A i \in 1 .. Len(models) : Behind(models[i].op)'
          /\ \A i \in 1 .. Len(persists) : Behind(persists[i].op.id)'
      BY <1>1, <1>2, <1>6 DEF Numbered, Behind
    <2> QED BY <2>1, <2>2, <1>1, <1>6 DEF Numbered, RisingIds
  <1>13. Queued'
    BY <1>1, <1>2, <1>7 DEF Queued
  <1>14. (\A i : Runs(i)' <=> Runs(i)) /\ \A i, w : Chained(i, w)' <=> Chained(i, w)
    BY <1>2 DEF Runs, Chained
  <1>15. \A i \in Nat : Runs(i) => ~Chained(i, waits)
    <2> SUFFICES ASSUME NEW i \in Nat, Runs(i), Chained(i, waits) PROVE FALSE
      OBVIOUS
    <2>1. Runs(waits)
      BY <1>1, <1>3 DEF OneChain
    <2>2. waits > 0 /\ persists[waits].state = "running"
      BY <2>1, <1>3 DEF Runs
    <2> QED BY <2>2, <1>2, <1>3
  <1>16. OneChain'
    <2>1. \A i \in 1 .. Len(persists') : persists'[i].after \in {0, i - 1}
      BY <1>1, <1>2 DEF OneChain
    <2>2. \A g \in Flushers : flushes'[g].waits <= Len(persists')
      <3>1. Len(persists) \in Nat
        BY <1>1, TypeFacts
      <3> QED BY <3>1, <1>1, <1>2, <1>9 DEF OneChain
    <2>3. \A i, w \in Nat : Runs(i)' /\ Chained(i, w)' => Runs(w)'
      BY <1>1, <1>14 DEF OneChain
    <2>4. wireHist'.overtaken = "no" => \A i \in Nat : Runs(i)' => Chained(i, Len(persists))'
      BY <1>1, <1>2, <1>7 DEF OneChain, Runs, Chained
    <2> QED BY <2>1, <2>2, <2>3, <2>4, <1>1, <1>2 DEF OneChain
  <1>17. InTurn'
    BY <1>1, <1>2, <1>7 DEF InTurn, Runs, Increasing
  <1>18. Kept'
    <2>1. \A x \in wireHist'.applied \ wireHist'.dropped :
            InJournal(x, Len(journal))' \/ Held(x)' \/ \E i \in Nat : Runs(i)' /\ persists'[i].op.id = x
      BY <1>1, <1>2, <1>7 DEF Kept, Runs, InJournal, Held
    <2>2. ASSUME NEW g \in Flushers, flushes'[g].pc = "waiting", NEW x \in flushes'[g].covers \ wireHist'.dropped
          PROVE  InJournal(x, Len(journal))' \/ \E i \in Nat : Runs(i)' /\ Chained(i, flushes[g].waits)' /\ persists'[i].op.id = x
      <3>1. InJournal(x, Len(journal)) => InJournal(x, Len(journal))'
        BY <1>2 DEF InJournal
      <3>2. g # f /\ flushes'[g] = flushes[g]
        BY <2>2, <1>9
      <3>3. InJournal(x, Len(journal)) \/ \E i \in Nat : Runs(i) /\ Chained(i, flushes[g].waits) /\ persists[i].op.id = x
        BY <3>2, <2>2, <1>1, <1>7 DEF Kept
      <3>4. \A i : Chained(i, flushes[g].waits) => Chained(i, flushes[g].waits)'
        BY <3>2, <1>2 DEF Chained
      <3> QED BY <3>1, <3>3, <3>4, <1>2, <1>14
    <2>3. \A x \in covers \ wireHist.dropped : InJournal(x, m)
      BY <1>1, <1>2, <1>3, <1>4, <1>15 DEF Kept
    <2>4. \A x \in wireHist.flushed \ wireHist.dropped : InJournal(x, durable)
      BY <1>1 DEF Kept
    <2>5. \A x \in wireHist'.flushed \ wireHist'.dropped : InJournal(x, durable)'
      <3> TAKE x \in wireHist'.flushed \ wireHist'.dropped
      <3>1. CASE x \in wireHist.flushed
        BY <3>1, <2>4, <1>2, <1>7, <1>8 DEF InJournal
      <3>2. CASE x \in covers /\ durable' = m
        BY <3>2, <2>3, <1>2, <1>7 DEF InJournal
      <3> QED BY <3>1, <3>2, <1>7
    <2> QED BY <2>1, <2>2, <2>5 DEF Kept
  <1>19. Shaped'
    <2>1. \A d \in Nat : d >= 2 /\ d <= durable' => durable' >= 2
      BY <1>8
    <2>2. durable >= 2 => durable' >= 2
      BY <2>1, <1>4, <1>8
    <2> QED BY <2>2, <1>1, <1>2 DEF Shaped, Version
  <1>20. AtHand'
    BY <1>2, <1>6 DEF WireInv, AtHand, Behind
  <1> QED BY <1>10, <1>11, <1>12, <1>13, <1>16, <1>17, <1>18, <1>19, <1>20 DEF WireInv

\* A flush that is dropped leaves all but its own place as it was.
LEMMA FlushDroppedKeeps ==
    ASSUME WireInv, NEW f \in Flushers, FlushDropped(f) PROVE WireInv'
  <1>1. WireTypes /\ OneDrains /\ Numbered /\ Queued /\ OneChain /\ InTurn /\ Kept /\ Shaped /\ AtHand
    BY DEF WireInv
  <1>2. /\ flushes' = [flushes EXCEPT ![f] = Rested]
        /\ UNCHANGED <<journal, durable, models, phase, calls, queue, dispatching, drain_depth, persists,
                       persist_tail, wireHist, wireSpent>>
    BY DEF FlushDropped, dispatchVars, persistVars
  <1>3. /\ flushes' \in [Flushers -> FlushCalls] /\ \A g \in Flushers : g # f => flushes'[g] = flushes[g]
        /\ flushes'[f].pc = "idle" /\ flushes'[f].waits = 0
    BY <1>1, <1>2 DEF WireTypes, FlushCalls, Rested
  <1>4. WireTypes'
    BY <1>1, <1>2, <1>3 DEF WireTypes
  <1>5. OneDrains'
    <2>1. \A g \in Flushers : flushes[g].pc = "idle" => flushes'[g].pc = "idle"
      BY <1>3
    <2> QED BY <2>1, <1>1, <1>2 DEF OneDrains
  <1>6. Numbered' /\ AtHand'
    BY <1>1, <1>2 DEF Numbered, AtHand, RisingIds, Behind
  <1>7. Queued' /\ InTurn' /\ Shaped'
    BY <1>1, <1>2 DEF Queued, InTurn, Runs, Increasing, Shaped, Version
  <1>8. OneChain'
    <2>1. \A g \in Flushers : flushes'[g].waits <= Len(persists)
      <3>1. Len(persists) \in Nat
        BY <1>1, TypeFacts
      <3> QED BY <3>1, <1>1, <1>3 DEF OneChain
    <2> QED BY <2>1, <1>1, <1>2 DEF OneChain, Runs, Chained
  <1>9. Kept'
    <2>1. \A x \in wireHist'.applied \ wireHist'.dropped :
            InJournal(x, Len(journal))' \/ Held(x)' \/ \E i \in Nat : Runs(i)' /\ persists'[i].op.id = x
      BY <1>1, <1>2 DEF Kept, Runs, InJournal, Held
    <2>2. ASSUME NEW g \in Flushers, flushes'[g].pc = "waiting", NEW x \in flushes'[g].covers \ wireHist'.dropped
          PROVE  InJournal(x, Len(journal))' \/ \E i \in Nat : Runs(i)' /\ Chained(i, flushes[g].waits)' /\ persists'[i].op.id = x
      <3>1. flushes'[g] = flushes[g]
        BY <2>2, <1>3
      <3>2. InJournal(x, Len(journal)) \/ \E i \in Nat : Runs(i) /\ Chained(i, flushes[g].waits) /\ persists[i].op.id = x
        BY <3>1, <2>2, <1>1, <1>2 DEF Kept
      <3> QED BY <3>1, <3>2, <1>2 DEF InJournal, Runs, Chained
    <2>3. \A x \in wireHist'.flushed \ wireHist'.dropped : InJournal(x, durable)'
      BY <1>1, <1>2 DEF Kept, InJournal
    <2> QED BY <2>1, <2>2, <2>3 DEF Kept
  <1> QED BY <1>4, <1>5, <1>6, <1>7, <1>8, <1>9 DEF WireInv

LEMMA CrashKeeps ==
    ASSUME WireInv, CrashWire PROVE WireInv'
  <1>1. WireTypes /\ OneDrains /\ Numbered /\ Queued /\ OneChain /\ InTurn /\ Kept /\ Shaped
    BY DEF WireInv
  <1>2. PICK n \in durable .. Len(journal) :
            /\ journal' = SubSeq(journal, 1, n)
            /\ wireHist' = [wireHist EXCEPT !.applied = @ \cap OpsOf(journal'),
                                            !.returned = {}, !.late = {}, !.refused = {}]
    BY DEF CrashWire
  <1>3. /\ Mishap /\ durable' = Len(journal') /\ models' = <<>> /\ phase' = "new"
        /\ calls' = [t \in Threads |-> Idle] /\ queue' = <<>> /\ dispatching' = "no" /\ drain_depth' = 0
        /\ persists' = <<>> /\ persist_tail' = 0 /\ flushes' = [f \in Flushers |-> Rested]
    BY DEF CrashWire
  <1>4. n \in Nat /\ durable \in Nat /\ Len(journal) \in Nat /\ durable <= n /\ n <= Len(journal) /\ journal \in Seq(WireRecords)
    BY <1>1, <1>2, TypeFacts DEF WireTypes
  <1>5. /\ journal' \in Seq(WireRecords) /\ Len(journal') = n /\ DOMAIN journal' = 1 .. n
        /\ \A i \in 1 .. n : journal'[i] = journal[i]
    BY <1>2, <1>4
  <1>6. 1 .. n \subseteq 1 .. Len(journal) /\ 1 .. durable \subseteq 1 .. n
    BY <1>4
  <1>7. wireSpent' \in Spent /\ wireSpent'.ops = wireSpent.ops
    BY <1>1, <1>3, MishapSpends
  <1>8. /\ wireHist' \in Hist /\ wireHist'.returned = {} /\ wireHist'.applied = wireHist.applied \cap OpsOf(journal')
        /\ wireHist'.dropped = wireHist.dropped /\ wireHist'.flushed = wireHist.flushed /\ wireHist'.overtaken = wireHist.overtaken
    BY <1>1, <1>2 DEF WireTypes, Hist
  <1>9. /\ \A t \in Threads : calls'[t].pc = "idle" /\ calls'[t].group = <<>>
        /\ calls' \in [Threads -> DispatchCalls]
    BY <1>3 DEF Idle, DispatchCalls
  <1>10. flushes' \in [Flushers -> FlushCalls] /\ \A f \in Flushers : flushes'[f].pc = "idle" /\ flushes'[f].waits = 0
    BY <1>3 DEF Rested, FlushCalls
  <1>11. Len(<<>>) = 0 /\ 1 .. 0 = {} /\ 0 \in 0 .. MAX_DRAIN + 1
    BY WireAssumption
  <1>12. WireTypes'
    BY <1>3, <1>4, <1>5, <1>7, <1>8, <1>9, <1>10, <1>11 DEF WireTypes, Phases
  <1>13. OneDrains'
    BY <1>3, <1>8, <1>9, <1>10 DEF OneDrains
  <1>14. \A i : ~Runs(i)'
    BY <1>3, <1>11 DEF Runs
  <1>15. Numbered'
    <2>1. \A i \in 1 .. n : Behind(journal[i].op)'
      <3> TAKE i \in 1 .. n
      <3>1. journal'[i].op <= wireSpent'.ops
        BY <1>1, <1>5, <1>6, <1>7 DEF Numbered, Behind
      <3> QED BY <3>1, <1>3, <1>9, <1>11 DEF Behind
    <2> QED BY <2>1, <1>3, <1>5, <1>9, <1>11 DEF Numbered, RisingIds
  <1>16. Queued'
    BY <1>3, <1>8, <1>9, <1>11 DEF Queued
  <1>17. OneChain'
    BY <1>3, <1>10, <1>11, <1>14 DEF OneChain
  <1>18. InTurn'
    <2>1. DOMAIN journal = 1 .. Len(journal) /\ DOMAIN models' = {}
      BY <1>1, <1>3, TypeFacts
    <2> QED BY <2>1, <1>1, <1>5, <1>6, <1>8, <1>14 DEF InTurn, Increasing
  <1>19. Kept'
    <2>1. \A x \in wireHist'.applied : InJournal(x, Len(journal))'
      BY <1>5, <1>8 DEF OpsOf, InJournal
    <2>2. \A x \in wireHist'.flushed \ wireHist'.dropped : InJournal(x, durable)'
      BY <1>1, <1>3, <1>5, <1>6, <1>8 DEF Kept, InJournal
    <2> QED BY <2>1, <2>2, <1>10 DEF Kept
  <1>20. Shaped'
    <2>1. \A i \in 1 .. n : (journal'[i].kind = "meta" <=> journal'[i].op = 0) /\ (journal'[i].op = 0 => i = 1)
      BY <1>1, <1>5, <1>6 DEF Shaped
    <2>2. CASE n = 0
      <3>1. journal' = <<>>
        BY <2>2, <1>5
      <3> QED BY <3>1, <1>3, <1>11 DEF Shaped
    <2>3. CASE n # 0
      <3>1. journal # <<>> /\ journal' # <<>> /\ 1 \in 1 .. n /\ Head(journal') = journal'[1] /\ Head(journal) = journal[1]
        BY <2>3, <1>4, <1>5
      <3>2. Head(journal') = Head(journal)
        BY <3>1, <1>5
      <3>3. Version(journal') = Version(journal)
        BY <3>2 DEF Version
      <3>4. Version(journal) < 2 => \A i \in 1 .. n : journal'[i].form = Version(journal)
        BY <3>1, <1>1, <1>5, <1>6 DEF Shaped
      <3>5. ASSUME Version(journal) = 2
            PROVE  n >= 2 /\ journal'[1] = Meta(2) /\ journal'[2] = Rec(OldOp, 2) /\ \A i \in 3 .. n : journal'[i].form = 1
        <4>1. /\ durable >= 2 /\ journal[1] = Meta(2) /\ journal[2] = Rec(OldOp, 2)
              /\ \A i \in 3 .. Len(journal) : journal[i].form = 1
          BY <3>1, <3>5, <1>1 DEF Shaped
        <4>2. n >= 2 /\ 1 \in 1 .. n /\ 2 \in 1 .. n /\ \A i \in 3 .. n : i \in 1 .. n /\ i \in 3 .. Len(journal)
          BY <4>1, <1>4
        <4> QED BY <4>1, <4>2, <1>5
      <3> QED BY <2>1, <3>3, <3>4, <3>5, <1>3, <1>5, <1>11 DEF Shaped
    <2> QED BY <2>2, <2>3
  <1>21. AtHand'
    BY <1>9 DEF AtHand
  <1> QED BY <1>12, <1>13, <1>15, <1>16, <1>17, <1>18, <1>19, <1>20, <1>21 DEF WireInv

-----------------------------------------------------------------------------
(***************************************************************************)
(* restore.                                                                *)
(***************************************************************************)
\* What restore may do to the parts other than Shaped.
LEMMA RestoringKeeps ==
    ASSUME WireInv, phase # "ready", phase' \in Phases,
           UNCHANGED <<calls, queue, dispatching, drain_depth, persists, persist_tail, flushes, wireHist>>,
           wireSpent' \in Spent, wireSpent'.ops = wireSpent.ops,
           journal' \in Seq(WireRecords), models' \in Seq(WireRecords), durable' \in Nat, durable' <= Len(journal'),
           \A i \in 1 .. Len(journal') : journal'[i].op = 0 \/ InJournal(journal'[i].op, Len(journal)),
           \A i \in 1 .. Len(models') : \/ InJournal(models'[i].op, Len(journal))
                                        \/ \E j \in 1 .. Len(models) : models'[i].op = models[j].op,
           \A x : x # 0 /\ InJournal(x, Len(journal)) => InJournal(x, Len(journal))',
           \A x : x # 0 /\ InJournal(x, durable) => InJournal(x, durable)',
           Increasing(journal) => Increasing(journal)',
           Increasing(journal) /\ Increasing(models) => Increasing(models)'
    PROVE  WireTypes' /\ OneDrains' /\ Numbered' /\ Queued' /\ OneChain' /\ InTurn' /\ Kept' /\ AtHand'
  <1>1. WireTypes /\ OneDrains /\ Numbered /\ Queued /\ OneChain /\ InTurn /\ Kept
    BY DEF WireInv
  <1>2. /\ \A t \in Threads : calls[t].pc = "idle" /\ calls[t].group = <<>> /\ Len(calls[t].group) = 0
        /\ queue = <<>> /\ Len(queue) = 0 /\ persists = <<>> /\ Len(persists) = 0 /\ persist_tail = 0
        /\ wireHist.returned = {} /\ \A f \in Flushers : flushes[f].pc = "idle"
        /\ \A i : ~Runs(i)
    BY <1>1, NothingDispatched
  <1>3. 1 .. 0 = {} /\ wireSpent.ops \in Nat
    BY <1>1, TypeFacts
  <1>4. WireTypes'
    BY <1>1 DEF WireTypes
  <1>5. OneDrains'
    BY <1>1 DEF OneDrains
  <1>6. \A i : ~Runs(i)'
    BY <1>2 DEF Runs
  <1>7. \A x : x <= wireSpent.ops => Behind(x)'
    BY <1>2, <1>3 DEF Behind
  <1>8. \A x : InJournal(x, Len(journal)) => x <= wireSpent.ops
    BY <1>1 DEF InJournal, Numbered, Behind
  <1>9. \A i \in 1 .. Len(journal') : Behind(journal[i].op)'
    <2> TAKE i \in 1 .. Len(journal')
    <2>1. PICK x : x = journal'[i].op
      OBVIOUS
    <2>2. x <= wireSpent.ops
      BY <2>1, <1>3, <1>8
    <2>3. Behind(x)'
      BY <2>2, <1>7
    <2> QED BY <2>1, <2>3 DEF Behind
  <1>10. \A i \in 1 .. Len(models') : Behind(models[i].op)'
    <2> TAKE i \in 1 .. Len(models')
    <2>1. PICK x : x = models'[i].op
      OBVIOUS
    <2>2. x <= wireSpent.ops
      BY <2>1, <1>1, <1>8 DEF Numbered, Behind
    <2>3. Behind(x)'
      BY <2>2, <1>7
    <2> QED BY <2>1, <2>3 DEF Behind
  <1>11. Numbered'
    BY <1>2, <1>3, <1>9, <1>10 DEF Numbered, RisingIds
  <1>12. Queued'
    BY <1>2 DEF Queued
  <1>13. OneChain'
    BY <1>1 DEF OneChain, Runs, Chained
  <1>14. InTurn'
    BY <1>1, <1>6 DEF InTurn
  <1>15. 0 \notin wireHist.applied /\ 0 \notin wireHist.flushed
    BY <1>1, WireAssumption DEF WireTypes, Hist, OpIds
  <1>16. Kept'
    <2>1. \A x \in wireHist.applied \ wireHist.dropped : InJournal(x, Len(journal))'
      <3>1. \A x : ~Held(x)
        BY <1>2 DEF Held
      <3> QED BY <3>1, <1>1, <1>2, <1>15 DEF Kept
    <2>2. \A x \in wireHist.flushed \ wireHist.dropped : InJournal(x, durable)'
      BY <1>1, <1>15 DEF Kept
    <2> QED BY <2>1, <2>2, <1>2 DEF Kept
  <1>17. AtHand'
    BY <1>2 DEF AtHand
  <1> QED BY <1>4, <1>5, <1>11, <1>12, <1>13, <1>14, <1>16, <1>17

\* Migrated: the records in their order, behind the metadata, and in the form of
\* this version or of a newer one.
LEMMA MigratedIs ==
    ASSUME WireTypes, Shaped, journal # <<>>
    PROVE  \E d \in {0, 1} :
             /\ Migrated(journal) \in Seq(WireRecords) /\ Len(Migrated(journal)) = Len(journal) + d
             /\ \A i \in 1 .. Len(journal) : /\ Migrated(journal)[i + d].op = journal[i].op
                                             /\ Migrated(journal)[i + d].kind = journal[i].kind
                                             /\ Migrated(journal)[i + d].form = IF Version(journal) = 0 THEN 1 ELSE journal[i].form
             /\ d = 1 => Migrated(journal)[1] = Meta(1) /\ Version(journal) = 0 /\ journal[1].op # 0
             /\ d = 0 => journal[1].op = 0 /\ journal[1].kind = "meta"
  <1>1. PICK m \in Nat : m = Len(journal) /\ m >= 1 /\ DOMAIN journal = 1 .. m
    <2>1. Len(journal) \in Nat /\ Len(journal) # 0 /\ DOMAIN journal = 1 .. Len(journal)
      BY DEF WireTypes
    <2>2. Len(journal) >= 1
      BY <2>1
    <2> QED BY <2>1, <2>2
  <1>2. PICK s : s = [i \in DOMAIN journal |-> IF Version(journal) = 0 THEN [journal[i] EXCEPT !.form = @ + 1] ELSE journal[i]]
    OBVIOUS
  <1>3. \A i \in 1 .. m : journal[i] \in WireRecords
    BY <1>1, TypeFacts
  <1>4. ASSUME NEW i \in 1 .. m
        PROVE  /\ s[i] \in WireRecords /\ s[i].op = journal[i].op /\ s[i].kind = journal[i].kind
               /\ s[i].form = IF Version(journal) = 0 THEN 1 ELSE journal[i].form
    <2>1. CASE Version(journal) = 0
      <3>1. journal[i].form = 0
        BY <2>1, <1>1 DEF Shaped
      <3>2. s[i] = [journal[i] EXCEPT !.form = 1]
        BY <3>1, <2>1, <1>1, <1>2
      <3> QED BY <3>2, <2>1, <1>3 DEF WireRecords
    <2>2. CASE Version(journal) # 0
      BY <2>2, <1>1, <1>2, <1>3
    <2> QED BY <2>1, <2>2
  <1>5. s \in Seq(WireRecords) /\ Len(s) = m
    BY <1>1, <1>2, <1>4
  <1>6. Head(journal) = journal[1] /\ 1 \in 1 .. m
    BY <1>1
  <1>7. Migrated(journal) = IF journal[1].kind = "meta" THEN s ELSE <<Meta(1)>> \o s
    BY <1>2, <1>6 DEF Migrated
  <1>8. CASE journal[1].kind = "meta"
    <2>1. Migrated(journal) = s /\ journal[1].op = 0
      BY <1>1, <1>6, <1>7, <1>8 DEF Shaped
    <2>2. Len(s) = Len(journal) + 0 /\ \A i \in 1 .. Len(journal) : i + 0 = i
      BY <1>1, <1>5
    <2> QED BY <2>1, <2>2, <1>1, <1>4, <1>5, <1>8
  <1>9. CASE journal[1].kind # "meta"
    <2>1. PICK h : h = Meta(1)
      OBVIOUS
    <2>2. h \in WireRecords
      BY <2>1, WireAssumption DEF Meta, WireRecords
    <2>3. PICK u : u = <<h>> \o s
      OBVIOUS
    <2>4. u \in Seq(WireRecords) /\ Len(u) = m + 1 /\ u[1] = h /\ \A i \in 1 .. m : u[i + 1] = s[i]
      BY <2>2, <2>3, <1>1, <1>5
    <2>5. Migrated(journal) = u /\ Version(journal) = 0 /\ journal[1].op # 0
      BY <2>1, <2>3, <1>1, <1>6, <1>7, <1>9 DEF Version, Shaped
    <2> QED BY <2>1, <2>4, <2>5, <1>1, <1>4
  <1> QED BY <1>8, <1>9

\* The same, by what restore needs of it.
LEMMA MigratedKeeps ==
    ASSUME WireTypes, Shaped, journal # <<>>, NEW s, s = Migrated(journal)
    PROVE  /\ s \in Seq(WireRecords) /\ Len(s) \in Nat /\ Len(s) >= 1 /\ s[1].kind = "meta" /\ Len(journal) <= Len(s)
           /\ \A i \in 1 .. Len(s) : /\ (s[i].kind = "meta" <=> s[i].op = 0) /\ (s[i].op = 0 <=> i = 1)
                                     /\ s[i].op # 0 => InJournal(s[i].op, Len(journal))
                                     /\ s[i].form >= 1 /\ (Version(journal) = 0 => s[i].form = 1)
           /\ \A x : x # 0 /\ InJournal(x, Len(journal)) => \E i \in 1 .. Len(s) : s[i].op = x
           /\ Increasing(journal) => Increasing(s)
  <1>1. PICK d \in {0, 1} :
             /\ s \in Seq(WireRecords) /\ Len(s) = Len(journal) + d
             /\ \A i \in 1 .. Len(journal) : /\ s[i + d].op = journal[i].op
                                             /\ s[i + d].kind = journal[i].kind
                                             /\ s[i + d].form = IF Version(journal) = 0 THEN 1 ELSE journal[i].form
             /\ d = 1 => s[1] = Meta(1) /\ Version(journal) = 0 /\ journal[1].op # 0
             /\ d = 0 => journal[1].op = 0 /\ journal[1].kind = "meta"
    BY MigratedIs
  <1>2. PICK m \in Nat : m = Len(journal) /\ m >= 1 /\ DOMAIN journal = 1 .. m
    <2>1. Len(journal) \in Nat /\ Len(journal) # 0 /\ DOMAIN journal = 1 .. Len(journal)
      BY DEF WireTypes
    <2>2. Len(journal) >= 1
      BY <2>1
    <2> QED BY <2>1, <2>2
  <1>3. Len(s) \in Nat /\ Len(s) >= 1 /\ m <= Len(s) /\ Len(s) = m + d /\ DOMAIN s = 1 .. Len(s)
    BY <1>1, <1>2
  <1>4. Meta(1).op = 0 /\ Meta(1).kind = "meta" /\ Meta(1).form = 1
    BY DEF Meta
  <1>5. \A i \in 1 .. m : journal[i].op \in Nat /\ (journal[i].kind = "meta" <=> journal[i].op = 0) /\ (journal[i].op = 0 => i = 1)
    BY <1>2, TypeFacts DEF Shaped
  <1>6. \A i \in 1 .. Len(s) : (i - d \in 1 .. m /\ i = (i - d) + d) \/ (d = 1 /\ i = 1)
    BY <1>1, <1>2, <1>3
  <1>7. \A i \in 1 .. m : i + d \in 1 .. Len(s)
    BY <1>1, <1>2, <1>3
  <1>8. \A i \in 1 .. m : InJournal(journal[i].op, Len(journal))
    BY <1>2 DEF InJournal
  <1>9. \A i \in 1 .. m : journal[i].form \in Nat /\ (Version(journal) # 0 => journal[i].form >= 1)
    <2> SUFFICES ASSUME NEW i \in 1 .. m PROVE journal[i].form \in Nat /\ (Version(journal) # 0 => journal[i].form >= 1)
      OBVIOUS
    <2>1. journal[i].form \in Nat /\ Head(journal) \in WireRecords
      <3>1. \A k \in 1 .. m : journal[k] \in WireRecords
        BY <1>2, TypeFacts
      <3>2. \A r \in WireRecords : r.form \in Nat
        BY DEF WireRecords
      <3>3. 1 \in 1 .. m /\ Head(journal) = journal[1]
        BY <1>2
      <3> QED BY <3>1, <3>2, <3>3
    <2>2. Version(journal) \in 0 .. 2
      BY <2>1 DEF Version, WireRecords
    <2>3. CASE Version(journal) = 0
      BY <2>1, <2>3
    <2>4. CASE Version(journal) = 1
      BY <2>1, <2>4, <1>2 DEF Shaped
    <2>5. CASE Version(journal) = 2
      <3>1. i = 1 \/ i = 2 \/ i \in 3 .. m
        BY <1>2
      <3>2. journal[1] = Meta(2) /\ journal[2] = Rec(OldOp, 2) /\ \A k \in 3 .. m : journal[k].form = 1
        BY <2>5, <1>2 DEF Shaped
      <3>3. Meta(2).form = 2 /\ Rec(OldOp, 2).form = 2
        BY DEF Meta, Rec
      <3> QED BY <2>1, <3>1, <3>2, <3>3
    <2> QED BY <2>2, <2>3, <2>4, <2>5
  <1>10. s[1].kind = "meta" /\ s[1].op = 0
    <2>1. CASE d = 1
      BY <2>1, <1>1, <1>4
    <2>2. CASE d = 0
      <3>1. 1 \in 1 .. m /\ 1 + d = 1
        BY <2>2, <1>2
      <3>2. s[1 + d].kind = "meta" /\ s[1 + d].op = 0
        BY <3>1, <2>2, <1>1, <1>2
      <3> QED BY <3>1, <3>2
    <2> QED BY <2>1, <2>2
  <1>11. ASSUME NEW i \in 1 .. Len(s)
         PROVE  /\ (s[i].kind = "meta" <=> s[i].op = 0) /\ (s[i].op = 0 <=> i = 1)
                /\ s[i].op # 0 => InJournal(s[i].op, Len(journal))
                /\ s[i].form >= 1 /\ (Version(journal) = 0 => s[i].form = 1)
                /\ s[i].op \in Nat
    <2>1. CASE d = 1 /\ i = 1
      BY <2>1, <1>1, <1>4
    <2>2. CASE i - d \in 1 .. m /\ i = (i - d) + d
      <3>1. PICK k \in 1 .. m : i = k + d
        BY <2>2
      <3>2. s[i].op = journal[k].op /\ s[i].kind = journal[k].kind /\ s[i].form = IF Version(journal) = 0 THEN 1 ELSE journal[k].form
        BY <3>1, <1>1, <1>2
      <3>3. s[i].op = 0 => i = 1
        <4>1. HAVE s[i].op = 0
        <4>2. k = 1 /\ journal[1].op = 0
          BY <4>1, <3>2, <1>5
        <4>3. d = 0
          BY <4>2, <1>1
        <4> QED BY <4>2, <4>3, <3>1
      <3> QED BY <3>2, <3>3, <1>5, <1>8, <1>9, <1>10
    <2> QED BY <2>1, <2>2, <1>6
  <1>12. ASSUME NEW x, x # 0, InJournal(x, Len(journal)) PROVE \E i \in 1 .. Len(s) : s[i].op = x
    <2>1. PICK k \in 1 .. m : journal[k].op = x
      BY <1>2, <1>12 DEF InJournal
    <2>2. s[k + d].op = x
      BY <2>1, <1>1, <1>2
    <2> QED BY <2>2, <1>7
  <1>13. ASSUME Increasing(journal) PROVE Increasing(s)
    <2> SUFFICES ASSUME NEW i \in 1 .. Len(s), NEW j \in 1 .. Len(s), i < j PROVE s[i].op < s[j].op
      BY <1>3 DEF Increasing
    <2>1. s[j].op \in Nat /\ s[j].op # 0
      BY <1>11
    <2>2. CASE i = 1
      BY <2>1, <2>2, <1>10
    <2>3. CASE i # 1
      <3>1. PICK k \in 1 .. m : i = k + d
        BY <2>3, <1>6
      <3>2. PICK l \in 1 .. m : j = l + d
        BY <2>3, <1>6
      <3>3. k < l
        BY <3>1, <3>2, <1>1
      <3>4. journal[k].op < journal[l].op
        BY <3>3, <1>2, <1>13 DEF Increasing
      <3> QED BY <3>1, <3>2, <3>4, <1>1, <1>2
    <2> QED BY <2>2, <2>3
  <1> QED BY <1>1, <1>2, <1>3, <1>10, <1>11, <1>12, <1>13

LEMMA SealKeeps == ASSUME WireInv, Seal PROVE WireInv'
  <1>1. WireTypes /\ Shaped
    BY DEF WireInv
  <1>2. /\ phase = "new" /\ phase' = "sealed" /\ journal' = IF journal = <<>> THEN <<Meta(1)>> ELSE journal
        /\ UNCHANGED <<durable, models, calls, queue, dispatching, drain_depth, persists, persist_tail, flushes, wireHist, wireSpent>>
    BY DEF Seal, dispatchVars, persistVars
  <1>3. /\ durable \in Nat /\ durable <= Len(journal) /\ Len(journal) \in Nat /\ models \in Seq(WireRecords)
        /\ journal \in Seq(WireRecords) /\ wireSpent \in Spent
    BY <1>1, TypeFacts DEF WireTypes
  <1>4. CASE journal # <<>>
    <2>1. UNCHANGED journal
      BY <1>2, <1>4
    <2>2. /\ \A x, n : InJournal(x, n)' <=> InJournal(x, n)
          /\ \A i \in 1 .. Len(journal) : InJournal(journal[i].op, Len(journal))
      BY <2>1 DEF InJournal
    <2>3. \A x : InJournal(x, Len(journal)) => InJournal(x, Len(journal))'
      BY <2>1 DEF InJournal
    <2>4. \A x : InJournal(x, durable) => InJournal(x, durable)'
      BY <2>1, <1>2 DEF InJournal
    <2>5. (Increasing(journal) => Increasing(journal)') /\ (Increasing(models) => Increasing(models)')
      BY <2>1, <1>2 DEF Increasing
    <2>6. WireTypes' /\ OneDrains' /\ Numbered' /\ Queued' /\ OneChain' /\ InTurn' /\ Kept' /\ AtHand'
      BY <2>1, <2>2, <2>3, <2>4, <2>5, <1>2, <1>3, RestoringKeeps DEF Phases
    <2>7. Shaped'
      BY <2>1, <1>1, <1>2, <1>4 DEF Shaped, Version
    <2> QED BY <2>6, <2>7 DEF WireInv
  <1>5. CASE journal = <<>>
    <2>1. PICK r : r = Meta(1)
      OBVIOUS
    <2>2. r \in WireRecords /\ r.op = 0 /\ r.kind = "meta" /\ r.form = 1
      BY <2>1, WireAssumption DEF Meta, WireRecords
    <2>3. /\ journal' \in Seq(WireRecords) /\ Len(journal') = 1 /\ journal'[1] = r /\ Head(journal') = r /\ journal' # <<>>
          /\ DOMAIN journal' = 1 .. 1 /\ Len(journal) = 0
      BY <2>1, <2>2, <1>2, <1>5
    <2>4. durable = 0 /\ 1 .. 0 = {} /\ \A i \in 1 .. 1 : i = 1
      BY <2>3, <1>3
    <2>5. \A x : ~InJournal(x, 0)
      BY <2>4 DEF InJournal
    <2>6. Increasing(journal)' /\ (Increasing(models) => Increasing(models)')
      BY <2>3, <2>4, <1>2 DEF Increasing
    <2>7. durable' \in Nat /\ durable' <= Len(journal')
      BY <2>3, <2>4, <1>2
    <2>8. WireTypes' /\ OneDrains' /\ Numbered' /\ Queued' /\ OneChain' /\ InTurn' /\ Kept' /\ AtHand'
      BY <2>2, <2>3, <2>4, <2>5, <2>6, <2>7, <1>2, <1>3, RestoringKeeps DEF Phases
    <2>9. Version(journal') = 1
      BY <2>2, <2>3 DEF Version
    <2>10. Shaped'
      BY <2>2, <2>3, <2>4, <2>9, <1>1, <1>2 DEF Shaped
    <2> QED BY <2>8, <2>10 DEF WireInv
  <1> QED BY <1>4, <1>5

LEMMA ReplaysKeeps == ASSUME WireInv, RestoreReplays PROVE WireInv'
  <1>1. WireTypes /\ Shaped
    BY DEF WireInv
  <1>2. PICK s : s = Migrated(journal)
    OBVIOUS
  <1>3. /\ phase = "sealed" /\ durable' = Len(journal)
        /\ UNCHANGED <<journal, calls, queue, dispatching, drain_depth, persists, persist_tail, flushes, wireHist>>
        /\ \/ /\ models' = Tail(s) /\ phase' = IF Version(journal) = 0 THEN "rewriting" ELSE "rehydrating"
              /\ UNCHANGED wireSpent
           \/ Mishap /\ phase' = "failed" /\ UNCHANGED models
    BY <1>2 DEF RestoreReplays, dispatchVars, persistVars
  <1>4. journal # <<>>
    BY <1>1, <1>3 DEF Shaped
  <1>5. /\ s \in Seq(WireRecords) /\ Len(s) \in Nat /\ Len(s) >= 1
        /\ \A i \in 1 .. Len(s) : /\ (s[i].kind = "meta" <=> s[i].op = 0) /\ (s[i].op = 0 <=> i = 1)
                                  /\ s[i].op # 0 => InJournal(s[i].op, Len(journal))
                                  /\ s[i].form >= 1
        /\ Increasing(journal) => Increasing(s)
    BY <1>1, <1>2, <1>4, MigratedKeeps
  <1>6. wireSpent' \in Spent /\ wireSpent'.ops = wireSpent.ops
    <2>1. CASE UNCHANGED wireSpent
      BY <2>1, <1>1 DEF WireTypes
    <2>2. CASE Mishap
      BY <2>2, <1>1, MishapSpends
    <2> QED BY <2>1, <2>2, <1>3
  <1>7. PICK n \in Nat : Len(s) = n + 1
    <2>1. Len(s) - 1 \in Nat /\ Len(s) = (Len(s) - 1) + 1
      BY <1>5
    <2> QED BY <2>1
  <1>8. PICK rest \in Seq(WireRecords) : rest = Tail(s) /\ Len(rest) = n /\ \A i \in 1 .. n : rest[i] = s[i + 1]
    <2>1. s # <<>>
      BY <1>5
    <2>2. Tail(s) \in Seq(WireRecords) /\ Len(Tail(s)) = Len(s) - 1
      BY <2>1, <1>5
    <2>3. Len(Tail(s)) = n
      BY <2>2, <1>7
    <2>4. \A i \in 1 .. n : Tail(s)[i] = s[i + 1]
      BY <2>1, <2>3, <1>5
    <2> QED BY <2>2, <2>3, <2>4
  <1>9. \A i \in 1 .. n : i + 1 \in 1 .. Len(s) /\ i + 1 # 1
    BY <1>7
  <1>10. \A i \in 1 .. n : /\ rest[i].op # 0 /\ rest[i].kind # "meta" /\ rest[i].form >= 1
                           /\ InJournal(rest[i].op, Len(journal))
    BY <1>5, <1>8, <1>9
  <1>11. Increasing(journal) => Increasing(rest)
    <2> SUFFICES ASSUME Increasing(s), NEW i \in 1 .. n, NEW j \in 1 .. n, i < j PROVE rest[i].op < rest[j].op
      <3>1. DOMAIN rest = 1 .. n
        BY <1>8
      <3> QED BY <3>1, <1>5 DEF Increasing
    <2>1. i + 1 \in DOMAIN s /\ j + 1 \in DOMAIN s /\ i + 1 < j + 1
      BY <1>5, <1>9
    <2> QED BY <2>1, <1>8 DEF Increasing
  <1>12. models' = rest \/ models' = models
    BY <1>3, <1>8
  <1>13. /\ \A i \in 1 .. Len(models') : models'[i].form >= 1 /\ models'[i].kind # "meta" /\ models'[i].op # 0
         /\ \A i \in 1 .. Len(models') : \/ InJournal(models'[i].op, Len(journal))
                                         \/ \E j \in 1 .. Len(models) : models'[i].op = models[j].op
         /\ models' \in Seq(WireRecords)
    <2>1. CASE models' = rest
      BY <2>1, <1>8, <1>10
    <2>2. CASE models' = models
      BY <2>2, <1>1 DEF Shaped, WireTypes
    <2> QED BY <2>1, <2>2, <1>12
  <1>14. Increasing(journal) /\ Increasing(models) => Increasing(models)'
    <2>1. CASE models' = rest
      BY <2>1, <1>11 DEF Increasing
    <2>2. CASE models' = models
      BY <2>2 DEF Increasing
    <2> QED BY <2>1, <2>2, <1>12
  <1>15. /\ Len(journal) \in Nat /\ durable \in Nat /\ durable <= Len(journal) /\ journal \in Seq(WireRecords)
         /\ 1 .. durable \subseteq 1 .. Len(journal)
    BY <1>1, TypeFacts DEF WireTypes
  <1>16. /\ \A x : InJournal(x, Len(journal)) => InJournal(x, Len(journal))'
         /\ \A x : InJournal(x, durable) => InJournal(x, durable)'
         /\ \A i \in 1 .. Len(journal') : InJournal(journal'[i].op, Len(journal))
    BY <1>3, <1>15 DEF InJournal
  <1>17. Increasing(journal) => Increasing(journal)'
    BY <1>3 DEF Increasing
  <1>18. phase' \in {"rewriting", "rehydrating", "failed"} /\ (phase' = "rewriting" => Version(journal) = 0)
         /\ (phase' = "rehydrating" => Version(journal) # 0)
    BY <1>3
  <1>19. WireTypes' /\ OneDrains' /\ Numbered' /\ Queued' /\ OneChain' /\ InTurn' /\ Kept' /\ AtHand'
    <2>1. durable' \in Nat /\ durable' <= Len(journal') /\ journal' \in Seq(WireRecords) /\ phase # "ready" /\ phase' \in Phases
      BY <1>3, <1>15, <1>18 DEF Phases
    <2> QED BY <2>1, <1>3, <1>6, <1>13, <1>14, <1>16, <1>17, RestoringKeeps
  <1>20. Shaped'
    <2>1. durable >= 2 => durable' >= 2
      BY <1>3, <1>15
    <2> QED BY <2>1, <1>1, <1>3, <1>4, <1>13, <1>18 DEF Shaped, Version
  <1> QED BY <1>19, <1>20 DEF WireInv

LEMMA RewritesKeeps == ASSUME WireInv, RestoreRewrites PROVE WireInv'
  <1>1. WireTypes /\ Shaped
    BY DEF WireInv
  <1>2. PICK s : s = Migrated(journal)
    OBVIOUS
  <1>3. /\ phase = "rewriting"
        /\ UNCHANGED <<models, calls, queue, dispatching, drain_depth, persists, persist_tail, flushes, wireHist>>
        /\ \/ journal' = s /\ durable' = Len(s) /\ phase' = "rehydrating" /\ UNCHANGED wireSpent
           \/ Mishap /\ phase' = "failed" /\ UNCHANGED <<journal, durable>>
    BY <1>2 DEF RestoreRewrites, dispatchVars, persistVars
  <1>4. journal # <<>> /\ Version(journal) = 0
    BY <1>1, <1>3 DEF Shaped
  <1>5. /\ s \in Seq(WireRecords) /\ Len(s) \in Nat /\ Len(s) >= 1 /\ s[1].kind = "meta" /\ Len(journal) <= Len(s)
        /\ \A i \in 1 .. Len(s) : /\ (s[i].kind = "meta" <=> s[i].op = 0) /\ (s[i].op = 0 <=> i = 1)
                                  /\ s[i].op # 0 => InJournal(s[i].op, Len(journal))
                                  /\ s[i].form = 1
        /\ \A x : x # 0 /\ InJournal(x, Len(journal)) => \E i \in 1 .. Len(s) : s[i].op = x
        /\ Increasing(journal) => Increasing(s)
    BY <1>1, <1>2, <1>4, MigratedKeeps
  <1>6. wireSpent' \in Spent /\ wireSpent'.ops = wireSpent.ops
    <2>1. CASE UNCHANGED wireSpent
      BY <2>1, <1>1 DEF WireTypes
    <2>2. CASE Mishap
      BY <2>2, <1>1, MishapSpends
    <2> QED BY <2>1, <2>2, <1>3
  <1>7. /\ Len(journal) \in Nat /\ durable \in Nat /\ durable <= Len(journal) /\ journal \in Seq(WireRecords)
        /\ 1 .. durable \subseteq 1 .. Len(journal) /\ models \in Seq(WireRecords)
    BY <1>1, TypeFacts DEF WireTypes
  <1>8. /\ Increasing(journal) /\ Increasing(models) => Increasing(models)'
        /\ \A i \in 1 .. Len(models') : \E j \in 1 .. Len(models) : models'[i].op = models[j].op
    BY <1>3 DEF Increasing
  <1>9. CASE journal' = s /\ durable' = Len(s) /\ phase' = "rehydrating"
    <2>1. \A x : x # 0 /\ InJournal(x, Len(journal)) => InJournal(x, Len(journal))' /\ InJournal(x, durable)'
      BY <1>5, <1>9 DEF InJournal
    <2>2. \A x : InJournal(x, durable) => InJournal(x, Len(journal))
      BY <1>7 DEF InJournal
    <2>3. Increasing(journal) => Increasing(journal)'
      BY <1>5, <1>9 DEF Increasing
    <2>4. durable' \in Nat /\ durable' <= Len(journal') /\ journal' \in Seq(WireRecords) /\ phase # "ready" /\ phase' \in Phases
      BY <1>3, <1>5, <1>9 DEF Phases
    <2>5. \A i \in 1 .. Len(journal') : journal'[i].op = 0 \/ InJournal(journal'[i].op, Len(journal))
      BY <1>5, <1>9
    <2>6. WireTypes' /\ OneDrains' /\ Numbered' /\ Queued' /\ OneChain' /\ InTurn' /\ Kept' /\ AtHand'
      BY <2>1, <2>2, <2>3, <2>4, <2>5, <1>3, <1>6, <1>7, <1>8, RestoringKeeps
    <2>7. journal' # <<>> /\ Head(journal') = s[1] /\ 1 \in 1 .. Len(s)
      BY <1>5, <1>9
    <2>8. Version(journal') = 1
      BY <2>7, <1>5 DEF Version
    <2>9. Shaped'
      BY <2>7, <2>8, <1>1, <1>3, <1>5, <1>9 DEF Shaped
    <2> QED BY <2>6, <2>9 DEF WireInv
  <1>10. CASE phase' = "failed" /\ UNCHANGED <<journal, durable>>
    <2>1. /\ \A x : InJournal(x, Len(journal)) => InJournal(x, Len(journal))'
          /\ \A x : InJournal(x, durable) => InJournal(x, durable)'
          /\ \A i \in 1 .. Len(journal') : InJournal(journal'[i].op, Len(journal))
      BY <1>10 DEF InJournal
    <2>2. Increasing(journal) => Increasing(journal)'
      BY <1>10 DEF Increasing
    <2>3. durable' \in Nat /\ durable' <= Len(journal') /\ journal' \in Seq(WireRecords) /\ phase # "ready" /\ phase' \in Phases
      BY <1>3, <1>7, <1>10 DEF Phases
    <2>4. WireTypes' /\ OneDrains' /\ Numbered' /\ Queued' /\ OneChain' /\ InTurn' /\ Kept' /\ AtHand'
      BY <2>1, <2>2, <2>3, <1>3, <1>6, <1>7, <1>8, RestoringKeeps
    <2>5. Shaped'
      BY <1>1, <1>3, <1>10 DEF Shaped, Version
    <2> QED BY <2>4, <2>5 DEF WireInv
  <1> QED BY <1>3, <1>9, <1>10

LEMMA EndsKeeps == ASSUME WireInv, RestoreEnds \/ Recreate PROVE WireInv'
  <1>1. WireTypes /\ Shaped
    BY DEF WireInv
  <1>2. /\ phase \in {"rehydrating", "failed"} /\ phase' \in {"ready", "failed", "new"}
        /\ phase' = "ready" => phase = "rehydrating"
        /\ UNCHANGED <<journal, durable, calls, queue, dispatching, drain_depth, persists, persist_tail, flushes, wireHist>>
        /\ UNCHANGED models \/ models' = <<>>
        /\ UNCHANGED wireSpent \/ Mishap
    BY DEF RestoreEnds, Recreate, dispatchVars, persistVars
  <1>3. wireSpent' \in Spent /\ wireSpent'.ops = wireSpent.ops
    <2>1. CASE UNCHANGED wireSpent
      BY <2>1, <1>1 DEF WireTypes
    <2>2. CASE Mishap
      BY <2>2, <1>1, MishapSpends
    <2> QED BY <2>1, <2>2, <1>2
  <1>4. /\ \A x : InJournal(x, Len(journal)) => InJournal(x, Len(journal))'
        /\ \A x : InJournal(x, durable) => InJournal(x, durable)'
        /\ \A i \in 1 .. Len(journal') : InJournal(journal'[i].op, Len(journal))
        /\ Increasing(journal) => Increasing(journal)'
    BY <1>2 DEF InJournal, Increasing
  <1>5. /\ Increasing(models) => Increasing(models)'
        /\ \A i \in 1 .. Len(models') : \E j \in 1 .. Len(models) : models'[i].op = models[j].op
        /\ models' \in Seq(WireRecords)
        /\ \A i \in 1 .. Len(models') : models'[i].form >= 1 /\ models'[i].kind # "meta" /\ models'[i].op # 0
    <2>1. CASE UNCHANGED models
      BY <2>1, <1>1 DEF Increasing, WireTypes, Shaped
    <2>2. CASE models' = <<>>
      BY <2>2 DEF Increasing
    <2> QED BY <2>1, <2>2, <1>2
  <1>6. durable' \in Nat /\ durable' <= Len(journal') /\ journal' \in Seq(WireRecords) /\ phase # "ready" /\ phase' \in Phases
    BY <1>1, <1>2 DEF WireTypes, Phases
  <1>7. WireTypes' /\ OneDrains' /\ Numbered' /\ Queued' /\ OneChain' /\ InTurn' /\ Kept' /\ AtHand'
    BY <1>2, <1>3, <1>4, <1>5, <1>6, RestoringKeeps
  <1>8. Shaped'
    BY <1>1, <1>2, <1>5 DEF Shaped, Version
  <1> QED BY <1>7, <1>8 DEF WireInv

-----------------------------------------------------------------------------
(***************************************************************************)
(* The invariant holds, and what it says of the properties.                *)
(***************************************************************************)
LEMMA WireInvStep == ASSUME WireInv, [WireStep]_wireVars PROVE WireInv'
  <1>1. CASE RestoreStep \/ Recreate
    BY <1>1, SealKeeps, ReplaysKeeps, RewritesKeeps, EndsKeeps DEF RestoreStep
  <1>2. CASE CrashWire
    BY <1>2, CrashKeeps
  <1>3. CASE \E t \in Threads : \/ \E kind \in OpKinds : Dispatch(t, kind)
                                \/ ApplyOp(t) \/ JournalOp(t) \/ RefuseOp(t) \/ DrainQueue(t) \/ EndDispatch(t)
    BY <1>3, DispatchKeeps, ApplyKeeps, JournalKeeps, RefuseKeeps, DrainKeeps, EndKeeps
  <1>4. CASE \E i \in DOMAIN persists : PersistTask(i)
    BY <1>4, PersistKeeps
  <1>5. CASE \E f \in Flushers : FlushTakesTail(f) \/ FlushReturns(f) \/ FlushDropped(f)
    BY <1>5, TakesTailKeeps, FlushReturnsKeeps, FlushDroppedKeeps
  <1>6. CASE UNCHANGED wireVars
    <2>1. UNCHANGED <<journal, durable, models, phase, persistVars, flushes>>
      BY <1>6 DEF wireVars, persistVars
    <2>2. OneChain' /\ InTurn' /\ Kept' /\ Shaped'
      BY <2>1, <1>6, DispatchFrame DEF wireVars
    <2>3. WireTypes'
      BY <1>6 DEF WireInv, WireTypes, wireVars
    <2>4. OneDrains'
      BY <1>6 DEF WireInv, OneDrains, wireVars
    <2>5. Numbered'
      BY <1>6 DEF WireInv, Numbered, RisingIds, Behind, wireVars
    <2>6. Queued'
      BY <1>6 DEF WireInv, Queued, wireVars
    <2>7. AtHand'
      BY <1>6 DEF WireInv, AtHand, Behind, wireVars
    <2> QED BY <2>2, <2>3, <2>4, <2>5, <2>6, <2>7 DEF WireInv
  <1> QED BY <1>1, <1>2, <1>3, <1>4, <1>5, <1>6 DEF WireStep

\* The ops of a sequence of records, and Waiting, by element.
LEMMA InOpsOf ==
    ASSUME NEW records \in Seq(WireRecords), NEW x, x # 0
    PROVE  x \in OpsOf(records) <=> \E i \in 1 .. Len(records) : records[i].op = x
  BY DEF OpsOf

LEMMA InWaiting ==
    ASSUME WireTypes, NEW x
    PROVE  x \in Waiting <=> \/ \E i \in 1 .. Len(queue) : queue[i].id = x
                             \/ \E t \in Threads : \E i \in 1 .. Len(calls[t].group) : calls[t].group[i].id = x
  <1>1. DOMAIN queue = 1 .. Len(queue) /\ \A t \in Threads : DOMAIN calls[t].group = 1 .. Len(calls[t].group)
    BY TypeFacts
  <1> QED BY <1>1 DEF Waiting


\* QueuedIsApplied, by element.
LEMMA QueuedMeans ==
    ASSUME WireTypes
    PROVE  QueuedIsApplied <=>
             \A x \in wireHist.returned \ (wireHist.late \cup wireHist.refused) :
                \/ \E i \in 1 .. Len(models) : models[i].op = x
                \/ \E i \in 1 .. Len(queue) : queue[i].id = x
                \/ \E t \in Threads : \E i \in 1 .. Len(calls[t].group) : calls[t].group[i].id = x
  <1>1. \A x \in wireHist.returned : x # 0
    BY WireAssumption DEF WireTypes, Hist, OpIds
  <1>2. models \in Seq(WireRecords)
    BY DEF WireTypes
  <1>3. \A x : x # 0 => (x \in OpsOf(models) <=> \E i \in 1 .. Len(models) : models[i].op = x)
    BY <1>2, InOpsOf
  <1> QED BY <1>1, <1>3, InWaiting DEF QueuedIsApplied

LEMMA TypesMean == ASSUME WireTypes, OneChain PROVE WireTypeOK
  <1>1. PICK n \in Nat : n = Len(persists)
    BY TypeFacts
  <1>2. durable \in 0 .. Len(journal)
    BY TypeFacts
  <1>3. persist_tail \in 0 .. n
    BY <1>1 DEF OneChain
  <1>4. persists \in Seq([op : Ops, after : 0 .. n, state : {"running", "done"}])
    <2>1. persists \in Seq(Tasks) /\ DOMAIN persists = 1 .. n
      BY <1>1, TypeFacts DEF WireTypes
    <2>2. ASSUME NEW i \in 1 .. n PROVE persists[i] \in [op : Ops, after : 0 .. n, state : {"running", "done"}]
      <3>1. persists[i] \in Tasks /\ persists[i].after \in {0, i - 1}
        BY <1>1, TypeFacts DEF OneChain
      <3>2. persists[i].after \in 0 .. n
        BY <3>1
      <3> QED BY <3>1, <3>2 DEF Tasks
    <2>3. PICK R : R = [op : Ops, after : 0 .. n, state : {"running", "done"}]
      OBVIOUS
    <2>4. persists \in [1 .. n -> Tasks]
      BY <2>1, <1>1, LenProperties
    <2>5. persists \in [1 .. n -> R]
      BY ONLY <2>2, <2>3, <2>4
    <2>6. persists \in Seq(R)
      BY ONLY <2>5, <1>1, SeqDef
    <2> QED BY <2>3, <2>6
  <1>5. flushes \in [Flushers -> [pc : {"idle", "waiting"}, waits : 0 .. n, covers : SUBSET OpIds]]
    <2>1. flushes \in [Flushers -> FlushCalls]
      BY DEF WireTypes
    <2>2. ASSUME NEW f \in Flushers PROVE flushes[f] \in [pc : {"idle", "waiting"}, waits : 0 .. n, covers : SUBSET OpIds]
      <3>1. flushes[f] \in FlushCalls /\ flushes[f].waits \in Nat /\ flushes[f].waits <= n
        BY <1>1, TypeFacts DEF OneChain
      <3>2. flushes[f].waits \in 0 .. n
        BY <3>1, <1>1
      <3> QED BY <3>1, <3>2 DEF FlushCalls
    <2> QED BY <2>1, <2>2
  <1> QED BY <1>1, <1>2, <1>3, <1>4, <1>5 DEF WireTypeOK, WireTypes, Phases, DispatchCalls, Ops

LEMMA HistoryMeans == ASSUME WireTypes, InTurn, Kept PROVE JournalIsHistory
  <1>1. ASSUME ~Running PROVE wireHist.applied \ (wireHist.dropped \cup Unjournaled) \subseteq OpsOf(journal)
    <2> SUFFICES ASSUME NEW x \in wireHist.applied \ wireHist.dropped, x \notin Unjournaled PROVE x \in OpsOf(journal)
      OBVIOUS
    <2>1. x # 0
      BY WireAssumption DEF WireTypes, Hist, OpIds
    <2>2. \A i : ~Runs(i)
      <3>1. DOMAIN persists = 1 .. Len(persists)
        BY TypeFacts
      <3> QED BY <3>1, <1>1 DEF Running, Runs
    <2>3. \E i \in 1 .. Len(journal) : journal[i].op = x
      BY <2>2 DEF Kept, InJournal, Held, Unjournaled
    <2>4. journal \in Seq(WireRecords)
      BY DEF WireTypes
    <2> QED BY <2>1, <2>3, <2>4, InOpsOf
  <1> QED BY <1>1 DEF InTurn, JournalIsHistory

LEMMA FlushMeans == ASSUME WireTypes, Kept PROVE FlushCovers
  <1> SUFFICES ASSUME NEW x \in wireHist.flushed, x \notin wireHist.dropped
               PROVE  x \in OpsOf(SubSeq(journal, 1, durable))
    BY DEF FlushCovers
  <1>1. x # 0
    BY WireAssumption DEF WireTypes, Hist, OpIds
  <1>2. PICK i \in 1 .. durable : journal[i].op = x
    BY DEF Kept, InJournal
  <1>3. PICK s : s = SubSeq(journal, 1, durable)
    OBVIOUS
  <1>4. s \in Seq(WireRecords) /\ Len(s) = durable /\ s[i] = journal[i]
    <2>1. journal \in Seq(WireRecords) /\ durable \in Nat /\ Len(journal) \in Nat /\ durable <= Len(journal)
      BY TypeFacts DEF WireTypes
    <2> QED BY <2>1, <1>2, <1>3
  <1>5. x \in OpsOf(s)
    BY <1>1, <1>2, <1>4, InOpsOf
  <1> QED BY <1>3, <1>5

LEMMA ShapedMeans == ASSUME WireTypes, Shaped PROVE MigratedOnce
  <1>1. /\ Len(journal) \in Nat /\ DOMAIN journal = 1 .. Len(journal) /\ DOMAIN models = 1 .. Len(models)
        /\ durable <= Len(journal) /\ durable \in Nat /\ journal \in Seq(WireRecords)
    BY TypeFacts DEF WireTypes
  <1>2. /\ \A i \in DOMAIN journal : journal # <<>> /\ Version(journal) < 2 => journal[i].form = Version(journal)
        /\ \A i \in DOMAIN journal : journal[i].kind = "meta" => i = 1
        /\ \A i \in DOMAIN models : models[i].form >= 1 /\ models[i].kind # "meta"
    BY <1>1 DEF Shaped
  <1>3. ASSUME NEW i \in DOMAIN journal, journal[i].form >= 2
        PROVE  SubSeq(journal, 1, 2) = <<Meta(2), Rec(OldOp, 2)>>
    <2>1. journal # <<>> /\ Head(journal) = journal[1] /\ 1 \in 1 .. Len(journal)
      BY <1>1
    <2>2. journal[1] \in WireRecords
      BY <2>1, TypeFacts
    <2>3. Version(journal) \in 0 .. 2
      BY <2>1, <2>2 DEF Version, WireRecords
    <2>4. Version(journal) = 2
      BY <2>1, <2>3, <1>2, <1>3
    <2>5. Len(journal) >= 2 /\ journal[1] = Meta(2) /\ journal[2] = Rec(OldOp, 2)
      BY <2>1, <2>4, <1>1 DEF Shaped
    <2>6. SubSeq(journal, 1, 2) = <<journal[1], journal[2]>>
      <3>1. PICK s : s = SubSeq(journal, 1, 2)
        OBVIOUS
      <3>2. s \in Seq(WireRecords) /\ Len(s) = 2 /\ s[1] = journal[1] /\ s[2] = journal[2]
        BY <3>1, <2>5, <1>1
      <3>3. s = <<s[1], s[2]>>
        BY <3>2
      <3> QED BY <3>1, <3>2, <3>3
    <2> QED BY <2>5, <2>6
  <1> QED BY <1>2, <1>3 DEF MigratedOnce

-----------------------------------------------------------------------------
(***************************************************************************)
(* The inductive invariant, for any number of threads that dispatch and of *)
(* tasks that flush, with errors and crashes between any two steps.        *)
(***************************************************************************)
THEOREM WireInvariant == WireSpec => []WireInv
  <1>1. WireInit => WireInv
    BY WireInvInit
  <1>2. WireInv /\ [WireStep]_wireVars => WireInv'
    BY WireInvStep
  <1> QED BY <1>1, <1>2, PTL DEF WireSpec

(***************************************************************************)
(* The type invariant of the wire service: the tail and what a task or a   *)
(* flush awaits are tasks that were spawned.                               *)
(***************************************************************************)
THEOREM WireTypeCorrect == WireSpec => []WireTypeOK
  <1>1. WireInv => WireTypeOK
    BY TypesMean DEF WireInv
  <1> QED BY <1>1, WireInvariant, PTL

(***************************************************************************)
(* dispatch and restore change the models in the order in which the ops    *)
(* were accepted, whichever thread drains, as long as no record was        *)
(* appended past a running chain (whose order a later replay would take).  *)
(***************************************************************************)
THEOREM OpsAppliedInOrder == WireSpec => []AppliedInOrder
  <1>1. WireInv => AppliedInOrder
    BY DEF WireInv, InTurn, AppliedInOrder
  <1> QED BY <1>1, WireInvariant, PTL

(***************************************************************************)
(* What dispatch queued and returned Ok for is in the models or still      *)
(* waits, unless it was queued after the drain had ended or the drain      *)
(* failed: no other op is lost, whatever is queued while ops are executed. *)
(***************************************************************************)
THEOREM QueuedOpsApplied == WireSpec => []QueuedIsApplied
  <1>1. WireInv => QueuedIsApplied
    <2> SUFFICES ASSUME WireInv PROVE QueuedIsApplied
      OBVIOUS
    <2>1. WireTypes /\ Queued
      BY DEF WireInv
    <2> QED BY <2>1, QueuedMeans DEF Queued
  <1> QED BY <1>1, WireInvariant, PTL

(***************************************************************************)
(* The journal holds what was applied: when no task of append_to_journal   *)
(* runs, every persistent op but those that could not be dehydrated and    *)
(* the one a thread is about to append, and in the order of application as *)
(* long as nothing overtook the chain.                                     *)
(***************************************************************************)
THEOREM JournalTellsHistory == WireSpec => []JournalIsHistory
  <1>1. WireInv => JournalIsHistory
    BY HistoryMeans DEF WireInv
  <1> QED BY <1>1, WireInvariant, PTL

(***************************************************************************)
(* What was handed to the journal before a flush that returned Ok survives *)
(* every crash, whatever other flushes run or are dropped, unless it was   *)
(* in a chain that an earlier flush had taken and that still ran: the      *)
(* flush awaited the tail, and the tail everything it was chained to.      *)
(***************************************************************************)
THEOREM FlushedOpsDurable == WireSpec => []FlushCovers
  <1>1. WireInv => FlushCovers
    BY FlushMeans DEF WireInv
  <1> QED BY <1>1, WireInvariant, PTL

(***************************************************************************)
(* restore_inner migrates a record once, however often it fails or the     *)
(* process dies in between, and leaves the journal of a newer version.     *)
(***************************************************************************)
THEOREM RecordsMigratedOnce == WireSpec => []MigratedOnce
  <1>1. WireInv => MigratedOnce
    BY ShapedMeans DEF WireInv
  <1> QED BY <1>1, WireInvariant, PTL
=============================================================================
