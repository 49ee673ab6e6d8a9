------------------------------ MODULE AppendLog ------------------------------
(***************************************************************************)
(* The append-log store, persistence/backends/node_fs/append_log_store.rs, *)
(* for one log, over the file storage of file_storage_service.rs.          *)
(*                                                                         *)
(* append_value queues a record and sees to it that a flush task is        *)
(* spawned.  The records in memory belong to a generation of the log       *)
(* (LogState), which is retired when the last handle of acquire is         *)
(* released; the next one waits until it has settled.  A rewrite replaces  *)
(* the file while records keep coming, and a failed append is sticky until *)
(* a rewrite succeeds.  The process may crash at any time.                 *)
(*                                                                         *)
(* Every action is what one task does between two awaits or two locks.     *)
(***************************************************************************)
EXTENDS Integers, Sequences, FiniteSets, SequencesExt

CONSTANTS
    MaxOps,      \* bound: tasks and calls that are under way at one time
    MaxRecords,  \* bound: records appended
    MaxAcquires, \* bound: calls of acquire
    MaxGens,     \* bound: generations since the process started
    MaxCalls,    \* bound: calls of flush and read_values
    MaxRewrites, \* bound: calls of rewrite_values
    MaxFaults    \* bound: storage errors and crashes

ASSUME LogAssumption ==
    /\ MaxOps \in Nat /\ MaxRecords \in Nat /\ MaxAcquires \in Nat /\ MaxGens \in Nat
    /\ MaxCalls \in Nat /\ MaxRewrites \in Nat /\ MaxFaults \in Nat

LogOps == 1 .. MaxOps
Records == 1 .. MaxRecords  \* in the order in which they were accepted

\* Lines of the file that are no record: what a rewrite put there, a line cut
\* off by a crash or an error, and a line that was appended to such a one.
Base == 0
Torn == -1
Bad  == -2

VARIABLES
    lines,      \* the file
    logs,       \* the generations since the process started
    logOps,     \* tasks and calls under way
    admission,  \* who holds task_admission, between state() and the use of its result
    storeState, \* "open", "closing" (closed, tasks.wait), "closed"
    accepted,   \* how many records were appended; history
    acked,      \* records a flush has vouched for; history
    gone,       \* records replaced by a rewrite or lost in a crash, see CrashLog; history
    disturbed,  \* history: what has happened that may upset the order of the file
    logSpent    \* how much of the bounds is spent

logVars == <<lines, logs, logOps, admission, storeState, accepted, acked, gone,
             disturbed, logSpent>>

history == <<accepted, acked, gone, disturbed>>

NoOp == [kind |-> "none", gen |-> 0, pc |-> "idle", batch |-> <<>>, epoch |-> 0, upto |-> 0,
         tail |-> {}, next |-> "no"]
NoAdmission == [kind |-> "none", gen |-> 0]

\* LogState; lockq has the holder of the operation mutex first, which is fair.
\* held counts the handles not yet disposed of.
NewLog == [pending |-> <<>>, scheduled |-> "no", failure |-> "no", epoch |-> 0,
           refs |-> 0, held |-> 0, retired |-> "no", settled |-> "no", lockq |-> <<>>]

LogInit ==
    /\ lines = <<>>
    /\ logs = <<>>
    /\ logOps = [o \in LogOps |-> NoOp]
    /\ admission = NoAdmission
    /\ storeState = "open"
    /\ accepted = 0
    /\ acked = {}
    /\ gone = {}
    /\ disturbed = {}
    /\ logSpent = [acquires |-> 0, calls |-> 0, rewrites |-> 0, faults |-> 0]

-----------------------------------------------------------------------------
(***************************************************************************)
(* Helpers.                                                                *)
(***************************************************************************)
RecordsIn(seq) == {r \in Records : \E i \in DOMAIN seq : seq[i] = r}
Pending == UNION {RecordsIn(logs[g].pending) : g \in DOMAIN logs}
FailedPending == UNION {RecordsIn(logs[g].pending) : g \in {h \in DOMAIN logs : logs[h].failure = "yes"}}

\* The live tail of a rewrite that has replaced the file and not written it yet:
\* these records are in memory only, also those that were in the file before.
LiveTail ==
    UNION {RecordsIn(logs[logOps[o].gen].pending) : o \in
               {p \in LogOps : logOps[p].kind = "rewrite" /\ logOps[p].pc \in {"drain", "writing"}}}

\* storage.append of batch: the first line goes on where the file ends.
Written(f, batch) ==
    IF f # <<>> /\ Last(f) = Torn /\ batch # <<>>
    THEN Front(f) \o <<IF Head(batch) = Torn THEN Torn ELSE Bad>> \o Tail(batch)
    ELSE f \o batch

\* What an append that was cut short may leave behind.
CutShort(f, batch) ==
    LET prefixes == {SubSeq(batch, 1, n) : n \in 0 .. Len(batch)}
    IN  {Written(f, p) : p \in prefixes}
          \cup {Written(f, Append(p, Torn)) : p \in prefixes \ {batch}}

\* state(): the generation in use, or a new one; with the logs it leaves.
InUse == logs # <<>> /\ Last(logs).retired = "no"
StateLogs == IF InUse THEN logs ELSE Append(logs, NewLog)
StateGiven == InUse \/ Len(logs) < MaxGens

\* The log is in the store's map until its release has settled it.
Mapped == logs # <<>> /\ Last(logs).settled = "no"

Spend(what) == logSpent' = [logSpent EXCEPT ![what] = @ + 1]

\* A new task or call takes the first slot that is free.
Free(o) == logOps[o].pc = "idle" /\ \A p \in 1 .. o - 1 : logOps[p].pc # "idle"
Holds(o) == Head(logs[logOps[o].gen].lockq) = o
\* wait_ready: the generation before has settled.
Ready(g) == g > 1 => logs[g - 1].settled = "yes"

\* A task or call o joins the queue for the operation mutex of generation g.
Joined(ls, o, g) == [ls EXCEPT ![g].lockq = Append(@, o)]
Op(kind, g, pc) == [NoOp EXCEPT !.kind = kind, !.gen = g, !.pc = pc,
                                !.upto = IF kind = "call" THEN accepted ELSE 0]

\* A rewrite of generation g: tail has the records that an append under way is
\* writing, and next tells whether the rewrite is the next to get the mutex.
Rewriter(g) ==
    LET q == StateLogs[g].lockq
    IN  [Op("rewrite", g, "lock") EXCEPT
            !.tail = IF q = <<>> THEN {} ELSE RecordsIn(logOps[Head(q)].batch),
            !.next = IF Len(q) = 1 THEN "yes" ELSE "no"]

-----------------------------------------------------------------------------
(***************************************************************************)
(* append_value and acquire hold task_admission, but another task may      *)
(* retire the generation between state() and its use.                      *)
(***************************************************************************)
Admit(kind, cost) ==
    /\ admission = NoAdmission
    /\ storeState = "open"
    /\ StateGiven
    /\ logs' = StateLogs
    /\ admission' = [kind |-> kind, gen |-> Len(StateLogs)]
    /\ logSpent' = [logSpent EXCEPT !.acquires = @ + cost]
    /\ UNCHANGED <<lines, logOps, storeState, history>>

AdmitAppend == accepted < MaxRecords /\ Admit("append", 0)
AdmitAcquire == logSpent.acquires < MaxAcquires /\ Admit("acquire", 1)

\* The push, and schedule_flush; o is the slot of the task it may spawn.
AppendValue(o) ==
    LET g == admission.gen
    IN  /\ admission.kind = "append"
        /\ Free(o) /\ accepted < MaxRecords
        /\ accepted' = accepted + 1
        /\ logs' = [logs EXCEPT ![g].pending = Append(@, accepted + 1), ![g].scheduled = "yes"]
        /\ \/ logs[g].scheduled = "yes" /\ UNCHANGED logOps
           \/ logs[g].scheduled = "no" /\ logOps' = [logOps EXCEPT ![o] = Op("flush", g, "spawned")]
        /\ disturbed' = IF logs[g].retired = "yes" THEN disturbed \cup {"latePush"} ELSE disturbed
        /\ admission' = NoAdmission
        /\ UNCHANGED <<lines, storeState, acked, gone, logSpent>>

Acquire ==
    LET g == admission.gen
    IN  /\ admission.kind = "acquire"
        /\ logs' = [logs EXCEPT ![g].refs = @ + 1, ![g].held = @ + 1]
        /\ admission' = NoAdmission
        /\ UNCHANGED <<lines, logOps, storeState, history, logSpent>>

\* A handle of acquire is disposed of: the release is spawned.
DisposeHandle(o, g) ==
    /\ admission = NoAdmission /\ storeState = "open"
    /\ Free(o) /\ logs[g].held > 0
    /\ logs' = [logs EXCEPT ![g].held = @ - 1]
    /\ logOps' = [logOps EXCEPT ![o] = Op("release", g, "spawned")]
    /\ UNCHANGED <<lines, admission, storeState, history, logSpent>>

-----------------------------------------------------------------------------
(***************************************************************************)
(* Tasks and calls up to the operation mutex.                              *)
(***************************************************************************)
\* Mutant: flush_scheduled stays set.
FlushBegins_KeepsFlag(o) ==
    LET g == logOps[o].gen
    IN  /\ logOps[o].kind = "flush" /\ logOps[o].pc = "spawned"
        /\ logs' = Joined(logs, o, g)
        /\ logOps' = [logOps EXCEPT ![o].pc = "lock"]
        /\ UNCHANGED <<lines, admission, storeState, history, logSpent>>

\* The task of schedule_flush, after its yield.
FlushBegins(o) ==
    LET g == logOps[o].gen
    IN  /\ logOps[o].kind = "flush" /\ logOps[o].pc = "spawned"
        /\ logs' = Joined([logs EXCEPT ![g].scheduled = "no"], o, g)
        /\ logOps' = [logOps EXCEPT ![o].pc = "lock"]
        /\ UNCHANGED <<lines, admission, storeState, history, logSpent>>

\* release: the last one out retires the generation and flushes it.
ReleaseBegins(o) ==
    LET g == logOps[o].gen
        refs == IF logs[g].refs = 0 THEN 0 ELSE logs[g].refs - 1
        left == [logs EXCEPT ![g].refs = refs]
    IN  /\ logOps[o].kind = "release" /\ logOps[o].pc = "spawned"
        /\ \/ /\ refs > 0 \/ logs[g].retired = "yes"
              /\ logs' = left
              /\ logOps' = [logOps EXCEPT ![o] = NoOp]
           \/ /\ refs = 0 /\ logs[g].retired = "no"
              /\ logs' = Joined([left EXCEPT ![g].retired = "yes"], o, g)
              /\ logOps' = [logOps EXCEPT ![o].pc = "lock"]
        /\ UNCHANGED <<lines, admission, storeState, history, logSpent>>

\* flush(), for the log in the map, and read_values, for the one in use.
FlushCall(o) ==
    LET g == Len(logs)
    IN  /\ Mapped /\ Free(o) /\ logSpent.calls < MaxCalls
        /\ logs' = Joined(logs, o, g)
        /\ logOps' = [logOps EXCEPT ![o] = Op("call", g, "lock")]
        /\ Spend("calls")
        /\ UNCHANGED <<lines, admission, storeState, history>>

ReadCall(o) ==
    LET g == Len(StateLogs)
    IN  /\ StateGiven /\ Free(o) /\ logSpent.calls < MaxCalls
        /\ logs' = Joined(StateLogs, o, g)
        /\ logOps' = [logOps EXCEPT ![o] = Op("call", g, "lock")]
        /\ Spend("calls")
        /\ UNCHANGED <<lines, admission, storeState, history>>

\* Mutant: the epoch is not advanced.
RewriteCall_NoEpoch(o) ==
    LET g == Len(StateLogs)
    IN  /\ StateGiven /\ Free(o) /\ logSpent.rewrites < MaxRewrites
        /\ logs' = Joined(StateLogs, o, g)
        /\ logOps' = [logOps EXCEPT ![o] = Rewriter(g)]
        /\ Spend("rewrites")
        /\ UNCHANGED <<lines, admission, storeState, history>>

\* rewrite_values: the epoch changes before the mutex is awaited.  Its caller
\* holds a handle, so nothing retires the generation between state() and here.
RewriteCall(o) ==
    LET g == Len(StateLogs)
    IN  /\ StateGiven /\ Free(o) /\ logSpent.rewrites < MaxRewrites
        /\ logs' = Joined([StateLogs EXCEPT ![g].epoch = @ + 1], o, g)
        /\ logOps' = [logOps EXCEPT ![o] = Rewriter(g)]
        /\ Spend("rewrites")
        /\ UNCHANGED <<lines, admission, storeState, history>>

\* Mutant: the new generation does not wait for the old one.
Locked_NoWait(o) ==
    /\ logOps[o].pc = "lock" /\ Holds(o)
    /\ logOps' = [logOps EXCEPT ![o].pc = IF logOps[o].kind = "rewrite" THEN "replacing" ELSE "drain"]
    /\ UNCHANGED <<lines, logs, admission, storeState, history, logSpent>>

\* The mutex is held and the generation before has settled.
Locked(o) ==
    /\ logOps[o].pc = "lock" /\ Holds(o) /\ Ready(logOps[o].gen)
    /\ logOps' = [logOps EXCEPT
           ![o].pc = IF logOps[o].kind = "rewrite" THEN "replacing" ELSE "drain"]
    /\ UNCHANGED <<lines, logs, admission, storeState, history, logSpent>>

-----------------------------------------------------------------------------
(***************************************************************************)
(* drain_locked, and the end of whoever called it.                         *)
(***************************************************************************)
\* Mutant: a release whose flush failed returns before it has settled.
Ends_NotSettled(o, ls, outcome) ==
    LET g == logOps[o].gen
        settled == IF logOps[o].kind = "release" /\ outcome = "ok" THEN "yes" ELSE ls[g].settled
    IN  /\ logs' = [ls EXCEPT ![g].lockq = Tail(@), ![g].settled = settled]
        /\ logOps' = [logOps EXCEPT ![o] = NoOp]
        /\ acked' = IF outcome = "ok" /\ logOps[o].kind = "call"
                    THEN acked \cup ((1 .. logOps[o].upto) \ gone) ELSE acked

\* The mutex is released; a release settles its generation, even if the
\* flush failed; a call that succeeded vouches for what was accepted before it.
Ends(o, ls, outcome) ==
    LET g == logOps[o].gen
        settled == IF logOps[o].kind = "release" THEN "yes" ELSE ls[g].settled
    IN  /\ logs' = [ls EXCEPT ![g].lockq = Tail(@), ![g].settled = settled]
        /\ logOps' = [logOps EXCEPT ![o] = NoOp]
        /\ acked' = IF outcome = "ok" /\ logOps[o].kind = "call"
                    THEN acked \cup ((1 .. logOps[o].upto) \ gone) ELSE acked

DrainEnds(o) ==
    LET log == logs[logOps[o].gen]
    IN  /\ logOps[o].pc = "drain"
        /\ \/ log.failure = "yes" /\ Ends(o, logs, "error")
           \/ log.failure = "no" /\ log.pending = <<>> /\ Ends(o, logs, "ok")
        /\ UNCHANGED <<lines, admission, storeState, accepted, gone, disturbed, logSpent>>

DrainTakes(o) ==
    LET log == logs[logOps[o].gen]
    IN  /\ logOps[o].pc = "drain" /\ log.failure = "no" /\ log.pending # <<>>
        /\ logOps' = [logOps EXCEPT ![o].pc = "writing", ![o].batch = log.pending,
                                    ![o].epoch = log.epoch]
        /\ UNCHANGED <<lines, logs, admission, storeState, history, logSpent>>

\* The append succeeded.  If a rewrite was called meanwhile the batch stays
\* pending, for the rewrite to write it again behind what it puts there.
AppendDone(o) ==
    LET g == logOps[o].gen
        batch == logOps[o].batch
    IN  /\ logOps[o].pc = "writing"
        /\ lines' = Written(lines, batch)
        /\ \/ /\ logs[g].epoch # logOps[o].epoch
              /\ Ends(o, logs, "ok")
              /\ disturbed' = disturbed \cup {"cutover"}
           \/ /\ logs[g].epoch = logOps[o].epoch
              /\ logs' = [logs EXCEPT ![g].pending = SubSeq(@, Len(batch) + 1, Len(@))]
              /\ logOps' = [logOps EXCEPT ![o].pc = "drain", ![o].batch = <<>>,
                                          ![o].epoch = 0]
              /\ UNCHANGED <<acked, disturbed>>
        /\ UNCHANGED <<admission, storeState, accepted, gone, logSpent>>

Fault == logSpent.faults < MaxFaults /\ Spend("faults")

\* Mutant: the batch is dropped, and the failure is not kept.
AppendFails_Drops(o) ==
    /\ logOps[o].pc = "writing"
    /\ Fault
    /\ lines' \in CutShort(lines, logOps[o].batch)
    /\ Ends(o, [logs EXCEPT ![logOps[o].gen].pending =
                    SubSeq(@, Len(logOps[o].batch) + 1, Len(@))], "error")
    /\ UNCHANGED <<admission, storeState, accepted, gone, disturbed>>

\* The append failed, and nobody knows how much of it is in the file.
AppendFails(o) ==
    /\ logOps[o].pc = "writing"
    /\ Fault
    /\ lines' \in CutShort(lines, logOps[o].batch)
    /\ Ends(o, [logs EXCEPT ![logOps[o].gen].failure = "yes"], "error")
    /\ UNCHANGED <<admission, storeState, accepted, gone, disturbed>>

\* storage.write is atomic.  The records it replaces are gone, but for those
\* that are still pending.
Replaced ==
    /\ lines' = <<Base>>
    /\ gone' = gone \cup ((1 .. accepted) \ Pending)
    /\ disturbed' = disturbed \ {"cutover"}

ReplaceDone(o) ==
    /\ logOps[o].pc = "replacing"
    /\ Replaced
    /\ logs' = [logs EXCEPT ![logOps[o].gen].failure = "no"]
    /\ logOps' = [logOps EXCEPT ![o].pc = "drain"]
    /\ UNCHANGED <<admission, storeState, accepted, acked, logSpent>>

\* The error may come from the sync of the directory, behind the rename.
ReplaceFails(o) ==
    /\ logOps[o].pc = "replacing"
    /\ Fault
    /\ Replaced \/ UNCHANGED <<lines, gone, disturbed>>
    /\ Ends(o, [logs EXCEPT ![logOps[o].gen].failure = "yes"], "error")
    /\ UNCHANGED <<admission, storeState, accepted>>

-----------------------------------------------------------------------------
(***************************************************************************)
(* close, and a crash.                                                     *)
(***************************************************************************)
CloseStore ==
    /\ admission = NoAdmission /\ storeState = "open"
    /\ storeState' = "closing"
    /\ UNCHANGED <<lines, logs, logOps, admission, history, logSpent>>

\* tasks.wait() has returned; then flush().
CloseFlushes(o) ==
    /\ storeState = "closing" /\ Free(o)
    /\ \A p \in LogOps : logOps[p].kind \notin {"flush", "release"}
    /\ storeState' = "closed"
    /\ \/ /\ Mapped
          /\ logs' = Joined(logs, o, Len(logs))
          /\ logOps' = [logOps EXCEPT ![o] = Op("call", Len(logs), "lock")]
       \/ ~Mapped /\ UNCHANGED <<logs, logOps>>
    /\ UNCHANGED <<lines, admission, history, logSpent>>

\* Memory is lost; of a write under way any part may have reached the file.  Of
\* what a flush has vouched for, three things are lost with it: what was pending
\* in a generation that had failed, the live tail of a rewrite that had not
\* written it yet, and what the file had when a rewrite was replacing it.
CrashLog ==
    /\ Fault
    /\ \/ /\ \/ UNCHANGED lines
             \/ \E o \in LogOps : logOps[o].pc = "writing" /\ lines' \in CutShort(lines, logOps[o].batch)
          /\ gone' = gone \cup FailedPending \cup LiveTail
                       \cup ((1 .. accepted) \ (RecordsIn(lines') \cup acked))
       \/ /\ \E o \in LogOps : logOps[o].pc = "replacing"
          /\ lines' = <<Base>>
          /\ gone' = 1 .. accepted
    /\ logs' = <<>>
    /\ logOps' = [o \in LogOps |-> NoOp]
    /\ admission' = NoAdmission
    /\ storeState' = "open"
    /\ UNCHANGED <<accepted, acked, disturbed>>

-----------------------------------------------------------------------------
LogOpStep(o) ==
    \/ FlushBegins(o) \/ ReleaseBegins(o) \/ Locked(o) \/ DrainEnds(o)
    \/ DrainTakes(o) \/ AppendDone(o) \/ ReplaceDone(o)

LogStep ==
    \/ AdmitAppend \/ AdmitAcquire \/ Acquire
    \/ \E o \in LogOps :
          \/ AppendValue(o) \/ FlushCall(o) \/ ReadCall(o) \/ RewriteCall(o)
          \/ LogOpStep(o) \/ AppendFails(o) \/ ReplaceFails(o) \/ CloseFlushes(o)
    \/ \E o \in LogOps, g \in DOMAIN logs : DisposeHandle(o, g)
    \/ CloseStore
    \/ CrashLog

LogSpec == LogInit /\ [][LogStep]_logVars

\* Tasks are polled, the file system answers, and close, once called, goes on.
LogFairness ==
    /\ \A o \in LogOps : WF_logVars(LogOpStep(o))
    /\ WF_logVars(\E o \in LogOps : CloseFlushes(o))

LogLiveSpec == LogSpec /\ LogFairness

-----------------------------------------------------------------------------
(***************************************************************************)
(* Properties.                                                             *)
(***************************************************************************)
\* Where the variables range.
LogTypeOK ==
    /\ lines \in Seq(Records \cup {Base, Torn, Bad})
    /\ logs \in Seq([pending : Seq(Records), scheduled : {"no", "yes"}, failure : {"no", "yes"},
                     epoch : 0 .. MaxRewrites, refs : 0 .. MaxAcquires, held : 0 .. MaxAcquires,
                     retired : {"no", "yes"}, settled : {"no", "yes"}, lockq : Seq(LogOps)])
    /\ logOps \in [LogOps -> [kind : {"none", "flush", "release", "call", "rewrite"},
                              gen : 0 .. MaxGens,
                              pc : {"idle", "spawned", "lock", "drain", "writing", "replacing"},
                              batch : Seq(Records), epoch : 0 .. MaxRewrites,
                              upto : 0 .. MaxRecords, tail : SUBSET Records,
                              next : {"no", "yes"}]]
    /\ admission \in [kind : {"none", "append", "acquire"}, gen : 0 .. MaxGens]
    /\ storeState \in {"open", "closing", "closed"}
    /\ accepted \in 0 .. MaxRecords
    /\ acked \subseteq Records /\ gone \subseteq Records
    /\ disturbed \subseteq {"latePush", "cutover"}

(***************************************************************************)
(* The file has the records in the order in which they were appended, each *)
(* once, across failures, generations, rewrites and crashes.  Only two     *)
(* things upset it: a record pushed to a generation that has just been     *)
(* retired, and a batch written twice while a rewrite was waiting.         *)
(***************************************************************************)
FileInOrder ==
    disturbed = {} =>
        \A i, j \in DOMAIN lines : i < j /\ lines[i] > 0 /\ lines[j] > 0 => lines[i] < lines[j]

(***************************************************************************)
(* What a flush that returned without error has vouched for is in the      *)
(* file, whatever crashes later, until a rewrite replaces it.  Exceptions: *)
(* what is pending in a generation whose failure was reported to the       *)
(* appender; a line appended behind a torn one (see TornTailIsDropped);    *)
(* and the live tail of a rewrite.  A flush whose append a rewrite was     *)
(* waiting for returns Ok with its records still pending, the rewrite      *)
(* replaces the file they are in, and until it has written them again they *)
(* are in memory only (see VouchedSurvives).                               *)
(***************************************************************************)
FlushedIsDurable ==
    ("latePush" \notin disturbed /\ \A i \in DOMAIN lines : lines[i] # Bad) =>
        acked \subseteq RecordsIn(lines) \cup FailedPending \cup LiveTail \cup gone

(***************************************************************************)
(* No record is stranded in memory: as long as its generation has not      *)
(* failed, a task or a rewrite is on the way to write it, also when a      *)
(* flush left a batch to a rewrite that then fails.                        *)
(***************************************************************************)
FlushComing ==
    \A g \in DOMAIN logs : logs[g].pending # <<>> /\ logs[g].failure = "no" =>
        \E o \in LogOps : logOps[o].gen = g

(***************************************************************************)
(* A rewrite keeps the append that is in flight as the live tail: what was *)
(* being written when the rewrite was called stays pending until the file  *)
(* is replaced, and is then written behind it, whether or not the append   *)
(* succeeds.  It holds of a rewrite that is next in line for the mutex.    *)
(***************************************************************************)
TailKept(o) ==
    LET op == logOps[o]
        pending == RecordsIn(logs[op.gen].pending)
    IN  op.kind = "rewrite" =>
            op.tail \subseteq IF op.pc \in {"lock", "replacing"} THEN pending
                             ELSE pending \cup RecordsIn(lines)

RewriteKeepsTail ==
    "latePush" \notin disturbed =>
        \A o \in LogOps : logOps[o].next = "yes" => TailKept(o)

\* No call or task of the store waits for one that waits for it: as long as one
\* is under way, one of them can go on, although each holds its mutex while it
\* waits for the generation before to settle.
LogNeverStuck ==
    (\E o \in LogOps : logOps[o].pc # "idle") =>
        ENABLED \E o \in LogOps : LogOpStep(o) \/ CloseFlushes(o)

\* What a task or a call that is under way awaits has come: it is polled for the first time, has
\* the mutex and the generation before has settled, or is at work.
OpCanGoOn(o) ==
    LET op == logOps[o]
    IN  \/ op.pc = "spawned" /\ op.kind \in {"flush", "release"}
        \/ op.pc = "lock" /\ Holds(o) /\ Ready(op.gen)
        \/ op.pc \in {"drain", "writing", "replacing"}

\* With that, it can take a step.
LogGuardsSuffice == \A o \in LogOps : OpCanGoOn(o) => ENABLED LogOpStep(o)

\* When the callers stop calling, every task and call ends, although each
\* holds its mutex while it waits for the generation before to settle.
LogCallsReturn ==
    (\E o \in LogOps : logOps[o].pc # "idle") ~> (\A o \in LogOps : logOps[o].pc = "idle")

(***************************************************************************)
(* "Epoch ownership starts before waiting for an in-flight append,         *)
(* preserving that append as the live tail" (append_log_store.rs, above    *)
(* rewrite_values).  A flush that was already waiting for the mutex when   *)
(* the rewrite was called reads the new epoch, drains the tail, and the    *)
(* rewrite then replaces the file it is in.                                *)
(***************************************************************************)
InFlightIsLiveTail == \A o \in LogOps : TailKept(o)

(***************************************************************************)
(* A flush is durable (StorageAppendOptions { durable: true }): what it    *)
(* vouched for and a rewrite keeps as its live tail is not lost in a       *)
(* crash.  It is, between the cut-over and the drain behind it.            *)
(***************************************************************************)
VouchedSurvives ==
    [][(\A i \in DOMAIN lines' : lines'[i] # Bad) =>
          (acked \cap LiveTail) \ FailedPending \subseteq RecordsIn(lines') \cup Pending']_logVars

(***************************************************************************)
(* A torn final line is dropped (parse_line's allow_truncated, and the     *)
(* test drops_torn_final_line_...), so a log that only this program wrote  *)
(* can be replayed.  But nothing removes it from the file, and the next    *)
(* append makes it a corrupted line in the middle.                         *)
(***************************************************************************)
TornTailIsDropped == \A i \in DOMAIN lines : lines[i] # Bad
=============================================================================
