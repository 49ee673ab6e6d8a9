----------------------------- MODULE WireService -----------------------------
(***************************************************************************)
(* The wire aggregate of an agent, wire/wire_service.rs: models that       *)
(* change only by dispatched ops, the journal from which they are replayed *)
(* and the chain of tasks that off-loads blobs before records are written. *)
(*                                                                         *)
(* One thread at a time drains; a dispatch that finds it draining leaves   *)
(* its op in the queue, from an event handler of the same thread or from   *)
(* another one.  A record of a model with blobs goes through the chain,    *)
(* and so does every record as long as the chain has a tail.  The log is   *)
(* what module AppendLog promises: records in the order of append, of      *)
(* which a crash may take away those behind the last flush.                *)
(*                                                                         *)
(* Ops are numbered in the order in which dispatch accepted them.  The     *)
(* dispatches come after restore has returned (do_create of               *)
(* session/agent_lifecycle/service.rs).                                    *)
(***************************************************************************)
EXTENDS Integers, Sequences, FiniteSets, SequencesExt

CONSTANTS
    MaxThreads, \* bound: threads that dispatch at one time
    MaxFlushers, \* bound: tasks that call flush at one time
    MAX_DRAIN,  \* wire.rs: 100
    MaxWireOps, \* bound: ops dispatched
    MaxFlushes, \* bound: calls of flush
    MaxMishaps  \* bound: errors and crashes

ASSUME WireAssumption ==
    /\ MaxThreads \in Nat /\ MaxFlushers \in Nat
    /\ MAX_DRAIN \in Nat /\ MaxFlushes \in Nat /\ MaxMishaps \in Nat
    /\ MaxWireOps \in Nat \ {0}  \* an old journal holds the first op

Threads == 1 .. MaxThreads
Flushers == 1 .. MaxFlushers
OpKinds == {"plain", "blob", "transient"}  \* transient: persist is false
NoRecord == [id |-> 0, kind |-> "none"]
\* A call that drains: the group, and the record of the op that is applied and
\* not handed to the journal yet.
Idle == [pc |-> "idle", group |-> <<>>, record |-> NoRecord, result |-> "ok"]
Rested == [pc |-> "idle", waits |-> 0, covers |-> {}]

VARIABLES
    journal,   \* the log's records, the metadata record among them
    durable,   \* how many of them a crash leaves
    models,    \* the models' state: the ops applied to them
    phase,     \* RestorePhase, with the steps of restore
    calls,     \* the calls of dispatch that drain
    queue, dispatching, drain_depth,
    persists,  \* the tasks of append_to_journal, in the order of their spawn
    persist_tail, \* the last of them, or 0
    flushes,   \* the calls of flush
    wireHist,  \* history, see WireHistInit
    wireSpent  \* how much of the bounds is spent

wireVars == <<journal, durable, models, phase, calls, queue, dispatching, drain_depth,
              persists, persist_tail, flushes, wireHist, wireSpent>>

dispatchVars == <<calls, queue, dispatching, drain_depth>>
persistVars == <<persists, persist_tail>>

\* Records: form counts the migrations a record has been through; 1 is what
\* this version writes and 2 what a newer one does.
Meta(form) == [op |-> 0, kind |-> "meta", form |-> form]
Rec(op, form) == [op |-> op.id, kind |-> op.kind, form |-> form]
OldOp == [id |-> 1, kind |-> "plain"]

\* A journal that is empty, of an older version with and without metadata, of
\* this one and of a newer one.
Journals == {<<>>, <<Meta(0), Rec(OldOp, 0)>>, <<Rec(OldOp, 0)>>,
             <<Meta(1), Rec(OldOp, 1)>>, <<Meta(2), Rec(OldOp, 2)>>}

WireHistInit(j) ==
    [applied |-> IF j = <<>> THEN {} ELSE {1}, \* persistent ops applied, but for what a crash took
     returned |-> {},                        \* ops whose dispatch returned Ok
     late |-> {},                            \* queued when the drain had ended
     refused |-> {},                         \* thrown away because an op failed
     dropped |-> {},                         \* could not be dehydrated
     flushed |-> {},                         \* covered by a flush that returned Ok
     overtaken |-> "no"]                     \* appended past a running chain

WireInit ==
    /\ journal \in Journals
    /\ durable = Len(journal)
    /\ models = <<>>
    /\ phase = "new"
    /\ calls = [t \in Threads |-> Idle]
    /\ queue = <<>> /\ dispatching = "no" /\ drain_depth = 0
    /\ persists = <<>> /\ persist_tail = 0
    /\ flushes = [f \in Flushers |-> Rested]
    /\ wireHist = WireHistInit(journal)
    /\ wireSpent = [ops |-> IF journal = <<>> THEN 0 ELSE 1, flushes |-> 0, mishaps |-> 0]

WireSpend(what) == wireSpent' = [wireSpent EXCEPT ![what] = @ + 1]
Mishap == wireSpent.mishaps < MaxMishaps /\ WireSpend("mishaps")

OpsOf(records) == {records[i].op : i \in DOMAIN records} \ {0}
\* The first of those who are not busy.
First(who, i) == who[i].pc = "idle" /\ \A j \in 1 .. i - 1 : who[j].pc # "idle"
Running == \E i \in DOMAIN persists : persists[i].state = "running"

\* Applied to the models, and not handed to the journal yet.
Unjournaled == {calls[t].record.id : t \in {u \in Threads : calls[u].pc = "journal"}}
\* Running, and not in the chain that ends in the tail: an earlier flush took it.
CutOff ==
    {persists[i].op.id : i \in {k \in DOMAIN persists :
        /\ persists[k].state = "running"
        /\ persist_tail = 0 \/ \E j \in DOMAIN persists : j > k /\ persists[j].after = 0}}

-----------------------------------------------------------------------------
(***************************************************************************)
(* seal and restore.                                                       *)
(***************************************************************************)
Seal ==
    /\ phase = "new"
    /\ phase' = "sealed"
    /\ journal' = IF journal = <<>> THEN <<Meta(1)>> ELSE journal
    /\ UNCHANGED <<durable, models, dispatchVars, persistVars, flushes, wireHist, wireSpent>>

Version(j) == IF Head(j).kind = "meta" THEN Head(j).form ELSE 0
\* What the migrations make of the records, given the version the journal has.
Migrated(j) ==
    LET migrated == [i \in DOMAIN j |-> IF Version(j) = 0 THEN [j[i] EXCEPT !.form = @ + 1] ELSE j[i]]
    IN  IF Head(j).kind = "meta" THEN migrated ELSE <<Meta(1)>> \o migrated

\* restore_inner up to the rewrite: the read flushes the log first; the records
\* are migrated and, but for the metadata, replayed, silently.  Only the first is
\* metadata (MigratedOnce).
RestoreReplays ==
    /\ phase = "sealed"
    /\ durable' = Len(journal)
    /\ \/ /\ models' = Tail(Migrated(journal))
          /\ phase' = IF Version(journal) = 0 THEN "rewriting" ELSE "rehydrating"
          /\ UNCHANGED wireSpent
       \/ Mishap /\ phase' = "failed" /\ UNCHANGED models
    /\ UNCHANGED <<journal, dispatchVars, persistVars, flushes, wireHist>>

\* Mutant: the metadata record keeps its version.
RestoreRewrites_KeepsVersion ==
    /\ phase = "rewriting"
    /\ \/ /\ journal' = [i \in DOMAIN Migrated(journal) |->
                           IF i = 1 THEN Meta(Version(journal)) ELSE Migrated(journal)[i]]
          /\ durable' = Len(Migrated(journal))
          /\ phase' = "rehydrating"
          /\ UNCHANGED wireSpent
       \/ Mishap /\ phase' = "failed" /\ UNCHANGED <<journal, durable>>
    /\ UNCHANGED <<models, dispatchVars, persistVars, flushes, wireHist>>

\* The journal is replaced at once or, on an error, not at all.
RestoreRewrites ==
    /\ phase = "rewriting"
    /\ \/ /\ journal' = Migrated(journal)
          /\ durable' = Len(Migrated(journal))
          /\ phase' = "rehydrating"
          /\ UNCHANGED wireSpent
       \/ Mishap /\ phase' = "failed" /\ UNCHANGED <<journal, durable>>
    /\ UNCHANGED <<models, dispatchVars, persistVars, flushes, wireHist>>

\* rehydrate_models and the hooks.
RestoreEnds ==
    /\ phase = "rehydrating"
    /\ \/ phase' = "ready" /\ UNCHANGED wireSpent
       \/ Mishap /\ phase' = "failed"
    /\ UNCHANGED <<journal, durable, models, dispatchVars, persistVars, flushes, wireHist>>

\* The agent is disposed of and created again: a new aggregate.
Recreate ==
    /\ phase = "failed"
    /\ phase' = "new"
    /\ models' = <<>>
    /\ UNCHANGED <<journal, durable, dispatchVars, persistVars, flushes, wireHist, wireSpent>>

-----------------------------------------------------------------------------
(***************************************************************************)
(* dispatch.                                                               *)
(***************************************************************************)
\* A dispatch that returns from the lock: the op is queued for the thread that
\* drains, or this thread drains.
Dispatch(t, kind) ==
    LET op == [id |-> wireSpent.ops + 1, kind |-> kind]
        ending == \E u \in Threads : calls[u].pc = "ending"
    IN  /\ phase = "ready"
        /\ wireSpent.ops < MaxWireOps /\ WireSpend("ops")
        /\ \/ /\ dispatching = "yes"
              /\ queue' = Append(queue, op)
              /\ wireHist' = [wireHist EXCEPT
                     !.returned = @ \cup {op.id},
                     !.late = IF ending THEN @ \cup {op.id} ELSE @]
              /\ UNCHANGED <<calls, dispatching>>
           \/ /\ dispatching = "no" /\ First(calls, t)
              /\ dispatching' = "yes"
              /\ calls' = [calls EXCEPT ![t] =
                     [pc |-> "draining", group |-> <<op>>, record |-> NoRecord, result |-> "ok"]]
              /\ UNCHANGED <<queue, wireHist>>
        /\ UNCHANGED <<journal, durable, models, phase, drain_depth, persistVars, flushes>>

\* Mutant: only a record that has blobs itself goes through the chain.
append_to_journal_OnlyBlobs(op) ==
    \/ /\ op.kind = "plain"
       /\ journal' = Append(journal, Rec(op, 1))
       /\ UNCHANGED <<persistVars, wireHist>>
    \/ /\ op.kind = "blob"
       /\ persists' = Append(persists, [op |-> op, after |-> persist_tail, state |-> "running"])
       /\ persist_tail' = Len(persists) + 1
       /\ UNCHANGED <<journal, wireHist>>

append_to_journal(op) ==
    \/ /\ op.kind = "plain" /\ persist_tail = 0
       /\ journal' = Append(journal, Rec(op, 1))
       /\ wireHist' = [wireHist EXCEPT !.overtaken = IF Running THEN "yes" ELSE @]
       /\ UNCHANGED persistVars
    \/ /\ op.kind = "blob" \/ persist_tail # 0
       /\ persists' = Append(persists, [op |-> op, after |-> persist_tail, state |-> "running"])
       /\ persist_tail' = Len(persists) + 1
       /\ wireHist' = [wireHist EXCEPT !.overtaken = IF persist_tail = 0 /\ Running THEN "yes" ELSE @]
       /\ UNCHANGED journal

\* execute_group, one op of it under the lock.
ApplyOp(t) ==
    LET op == Head(calls[t].group)
        group == Tail(calls[t].group)
    IN  /\ calls[t].pc = "draining" /\ calls[t].group # <<>>
        /\ models' = Append(models, Rec(op, 1))
        /\ \/ /\ op.kind = "transient"
              /\ calls' = [calls EXCEPT ![t].group = group]
              /\ UNCHANGED wireHist
           \/ /\ op.kind # "transient"
              /\ calls' = [calls EXCEPT ![t] =
                     [pc |-> "journal", group |-> group, record |-> op, result |-> "ok"]]
              /\ wireHist' = [wireHist EXCEPT !.applied = @ \cup {op.id}]
        /\ UNCHANGED <<journal, durable, phase, queue, dispatching, drain_depth, persistVars,
                       flushes, wireSpent>>

\* The record, after the lock was given up.
JournalOp(t) ==
    /\ calls[t].pc = "journal"
    /\ append_to_journal(calls[t].record)
    /\ calls' = [calls EXCEPT ![t] =
           [pc |-> "draining", group |-> calls[t].group, record |-> NoRecord, result |-> "ok"]]
    /\ UNCHANGED <<durable, models, phase, queue, dispatching, drain_depth, flushes, wireSpent>>

\* An op that does not validate ends the drain, with what is behind it.
RefuseOp(t) ==
    LET group == calls[t].group
    IN  /\ calls[t].pc = "draining" /\ group # <<>>
        /\ Mishap
        /\ calls' = [calls EXCEPT ![t] =
               [pc |-> "ending", group |-> <<>>, record |-> NoRecord, result |-> "error"]]
        /\ wireHist' = [wireHist EXCEPT
               !.refused = @ \cup {group[i].id : i \in DOMAIN group}
                             \cup {queue[i].id : i \in DOMAIN queue}]
        /\ UNCHANGED <<journal, durable, models, phase, queue, dispatching, drain_depth,
                       persistVars, flushes>>

\* Mutant: the queue is taken once, and not looked at again.
DrainQueue_Once(t) ==
    /\ calls[t].pc = "draining" /\ calls[t].group = <<>>
    /\ \/ /\ queue = <<>> \/ drain_depth > 0
          /\ calls' = [calls EXCEPT ![t].pc = "ending"]
          /\ UNCHANGED <<queue, drain_depth, wireHist>>
       \/ /\ queue # <<>> /\ drain_depth = 0
          /\ drain_depth' = drain_depth + 1
          /\ calls' = [calls EXCEPT ![t].group = queue]
          /\ queue' = <<>>
          /\ UNCHANGED wireHist
    /\ UNCHANGED <<journal, durable, models, phase, dispatching, persistVars, flushes, wireSpent>>

\* drain, at the end of a group.
DrainQueue(t) ==
    /\ calls[t].pc = "draining" /\ calls[t].group = <<>>
    /\ \/ /\ queue = <<>>
          /\ calls' = [calls EXCEPT ![t].pc = "ending"]
          /\ UNCHANGED <<queue, drain_depth, wireHist>>
       \/ /\ queue # <<>> /\ drain_depth >= MAX_DRAIN
          /\ drain_depth' = drain_depth + 1
          /\ calls' = [calls EXCEPT ![t].pc = "ending", ![t].result = "error"]
          /\ wireHist' = [wireHist EXCEPT
                 !.refused = @ \cup {queue[i].id : i \in DOMAIN queue}]
          /\ UNCHANGED queue
       \/ /\ queue # <<>> /\ drain_depth < MAX_DRAIN
          /\ drain_depth' = drain_depth + 1
          /\ calls' = [calls EXCEPT ![t].group = queue]
          /\ queue' = <<>>
          /\ UNCHANGED wireHist
    /\ UNCHANGED <<journal, durable, models, phase, dispatching, persistVars, flushes, wireSpent>>

EndDispatch(t) ==
    /\ calls[t].pc = "ending"
    /\ calls' = [calls EXCEPT ![t] = Idle]
    /\ queue' = <<>> /\ dispatching' = "no" /\ drain_depth' = 0
    /\ UNCHANGED <<journal, durable, models, phase, persistVars, flushes, wireHist, wireSpent>>

-----------------------------------------------------------------------------
(***************************************************************************)
(* The chain, flush and crashes.                                           *)
(***************************************************************************)
\* Mutant: a task does not await the one before it.
PersistTask_NoAwait(i) ==
    /\ persists[i].state = "running"
    /\ persists' = [persists EXCEPT ![i].state = "done"]
    /\ journal' = Append(journal, Rec(persists[i].op, 1))
    /\ UNCHANGED <<durable, models, phase, dispatchVars, persist_tail, flushes, wireHist, wireSpent>>

\* The task awaits the one before it, off-loads the blobs and appends; on an
\* error the record is dropped.
PersistTask(i) ==
    LET after == persists[i].after
    IN  /\ persists[i].state = "running"
        /\ after > 0 => persists[after].state = "done"
        /\ persists' = [persists EXCEPT ![i].state = "done"]
        /\ \/ /\ journal' = Append(journal, Rec(persists[i].op, 1))
              /\ UNCHANGED <<wireHist, wireSpent>>
           \/ /\ Mishap
              /\ wireHist' = [wireHist EXCEPT !.dropped = @ \cup {persists[i].op.id}]
              /\ UNCHANGED journal
        /\ UNCHANGED <<durable, models, phase, dispatchVars, persist_tail, flushes>>

\* covers: what was applied before, but for what this flush cannot know of.
FlushTakesTail(f) ==
    /\ phase = "ready" /\ First(flushes, f)
    /\ wireSpent.flushes < MaxFlushes /\ WireSpend("flushes")
    /\ flushes' = [flushes EXCEPT ![f] =
           [pc |-> "waiting", waits |-> persist_tail,
            covers |-> wireHist.applied \ (Unjournaled \cup CutOff)]]
    /\ persist_tail' = 0
    /\ UNCHANGED <<journal, durable, models, phase, dispatchVars, persists, wireHist>>

\* Mutant: the tail is not awaited.
FlushReturns_NoAwait(f) ==
    /\ flushes[f].pc = "waiting"
    /\ durable' = Len(journal)
    /\ wireHist' = [wireHist EXCEPT !.flushed = @ \cup flushes[f].covers]
    /\ flushes' = [flushes EXCEPT ![f] = Rested]
    /\ UNCHANGED <<journal, models, phase, dispatchVars, persistVars, wireSpent>>

\* The tail has ended, and log.flush has returned.
FlushReturns(f) ==
    LET waits == flushes[f].waits
    IN  /\ flushes[f].pc = "waiting"
        /\ waits > 0 => persists[waits].state = "done"
        /\ \/ /\ durable' = Len(journal)
              /\ wireHist' = [wireHist EXCEPT !.flushed = @ \cup flushes[f].covers]
              /\ UNCHANGED wireSpent
           \/ Mishap /\ UNCHANGED <<durable, wireHist>>
        /\ flushes' = [flushes EXCEPT ![f] = Rested]
        /\ UNCHANGED <<journal, models, phase, dispatchVars, persistVars>>

\* The future of flush is dropped: the chain it took goes on, with nobody waiting.
FlushDropped(f) ==
    /\ flushes[f].pc = "waiting"
    /\ flushes' = [flushes EXCEPT ![f] = Rested]
    /\ UNCHANGED <<journal, durable, models, phase, dispatchVars, persistVars, wireHist, wireSpent>>

CrashWire ==
    /\ Mishap
    /\ \E n \in durable .. Len(journal) :
          /\ journal' = SubSeq(journal, 1, n)
          /\ wireHist' = [wireHist EXCEPT !.applied = @ \cap OpsOf(journal'),
                                          !.returned = {}, !.late = {}, !.refused = {}]
    /\ durable' = Len(journal')
    /\ models' = <<>> /\ phase' = "new"
    /\ calls' = [t \in Threads |-> Idle]
    /\ queue' = <<>> /\ dispatching' = "no" /\ drain_depth' = 0
    /\ persists' = <<>> /\ persist_tail' = 0
    /\ flushes' = [f \in Flushers |-> Rested]

-----------------------------------------------------------------------------
RestoreStep == Seal \/ RestoreReplays \/ RestoreRewrites \/ RestoreEnds

WireStep ==
    \/ RestoreStep \/ Recreate \/ CrashWire
    \/ \E t \in Threads :
          \/ \E kind \in OpKinds : Dispatch(t, kind)
          \/ ApplyOp(t) \/ JournalOp(t) \/ RefuseOp(t) \/ DrainQueue(t) \/ EndDispatch(t)
    \/ \E i \in DOMAIN persists : PersistTask(i)
    \/ \E f \in Flushers : FlushTakesTail(f) \/ FlushReturns(f) \/ FlushDropped(f)

WireSpec == WireInit /\ [][WireStep]_wireVars

-----------------------------------------------------------------------------
(***************************************************************************)
(* Properties.                                                             *)
(***************************************************************************)
OpIds == 1 .. MaxWireOps
WireRecords == [op : 0 .. MaxWireOps, kind : OpKinds \cup {"meta"}, form : 0 .. 2]

\* Where the variables range.
WireTypeOK ==
    /\ journal \in Seq(WireRecords) /\ durable \in 0 .. Len(journal)
    /\ models \in Seq(WireRecords)
    /\ phase \in {"new", "sealed", "rewriting", "rehydrating", "ready", "failed"}
    /\ calls \in [Threads -> [pc : {"idle", "draining", "journal", "ending"},
                              group : Seq([id : OpIds, kind : OpKinds]),
                              record : [id : OpIds, kind : OpKinds] \cup {NoRecord},
                              result : {"ok", "error"}]]
    /\ queue \in Seq([id : OpIds, kind : OpKinds]) /\ drain_depth \in 0 .. MAX_DRAIN + 1
    /\ dispatching \in {"no", "yes"}
    /\ persists \in Seq([op : [id : OpIds, kind : OpKinds], after : 0 .. Len(persists),
                         state : {"running", "done"}])
    /\ persist_tail \in 0 .. Len(persists)
    /\ flushes \in [Flushers -> [pc : {"idle", "waiting"}, waits : 0 .. Len(persists),
                                 covers : SUBSET OpIds]]

\* The metadata, with op 0, comes before all ops.
Increasing(seq) == \A i, j \in DOMAIN seq : i < j => seq[i].op < seq[j].op

\* The models change in the order in which dispatch accepted the ops, live and
\* replayed, whichever thread drains and whatever is queued while it does.  A
\* replay does so only if no record was appended past a running chain (overtaken,
\* see JournalKeepsOrder).
AppliedInOrder == wireHist.overtaken = "no" => Increasing(models)

(***************************************************************************)
(* An op that dispatch accepted into the queue is applied, except when the *)
(* drain fails or had found the queue empty before (see                    *)
(* QueuedIsDrained).                                                       *)
(***************************************************************************)
Waiting ==
    {queue[i].id : i \in DOMAIN queue}
      \cup UNION {{calls[t].group[i].id : i \in DOMAIN calls[t].group} : t \in Threads}

QueuedIsApplied ==
    wireHist.returned \ (wireHist.late \cup wireHist.refused) \subseteq OpsOf(models) \cup Waiting

(***************************************************************************)
(* The journal tells what happened: its records are in the order in which  *)
(* they were applied, and when the chain has ended none is missing but the *)
(* ones that could not be dehydrated and the one that is about to be       *)
(* appended.  The order holds unless a flush took the tail away while the  *)
(* chain was running and a record was appended past it (overtaken, see     *)
(* JournalKeepsOrder).                                                     *)
(***************************************************************************)
JournalIsHistory ==
    /\ wireHist.overtaken = "no" => Increasing(journal)
    /\ ~Running => wireHist.applied \ (wireHist.dropped \cup Unjournaled) \subseteq OpsOf(journal)

(***************************************************************************)
(* What was applied to the models before a flush that returned Ok is in    *)
(* the journal for good, whatever crashes later, but for two things the    *)
(* flush does not wait for: the op whose record execute_group had not      *)
(* appended yet, having given up the lock, and the records of a chain that *)
(* was still running and whose tail another flush had taken, to await it   *)
(* or to be dropped.  A record that could not be dehydrated is lost.       *)
(***************************************************************************)
FlushCovers == wireHist.flushed \subseteq OpsOf(SubSeq(journal, 1, durable)) \cup wireHist.dropped

(***************************************************************************)
(* A record is migrated once, however often restore is interrupted, and    *)
(* the journal of a newer version is left as it was found.  The metadata   *)
(* is written once, at the head.                                           *)
(***************************************************************************)
MigratedOnce ==
    /\ \A i \in DOMAIN journal : journal # <<>> /\ Version(journal) < 2 =>
          journal[i].form = Version(journal)
    /\ \A i \in DOMAIN journal : journal[i].kind = "meta" => i = 1
    /\ \A i \in DOMAIN models : models[i].form >= 1 /\ models[i].kind # "meta"
    /\ \A i \in DOMAIN journal : journal[i].form >= 2 =>
          SubSeq(journal, 1, 2) = <<Meta(2), Rec(OldOp, 2)>>

(***************************************************************************)
(* "Reentrant calls enqueue and are drained after the current group"       *)
(* (wire_service.rs, above dispatch).  The thread that drains gives up the *)
(* lock between finding the queue empty and clearing it, and what another  *)
(* thread has queued in between, and been told Ok for, is thrown away.     *)
(***************************************************************************)
QueuedIsDrained == wireHist.returned \ wireHist.refused \subseteq OpsOf(models) \cup Waiting

(***************************************************************************)
(* "Blob transforms are serialized through a Tokio task chain, preserving  *)
(* journal order" (wire_service.rs, head).  A flush takes the tail of the  *)
(* chain, and the next record without blobs is appended past it.           *)
(***************************************************************************)
JournalKeepsOrder == Increasing(journal)
=============================================================================
