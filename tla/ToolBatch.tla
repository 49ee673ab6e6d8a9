------------------------------ MODULE ToolBatch ------------------------------
(***************************************************************************)
(* One batch of tool calls of an agent's step (agent/tool_executor): the   *)
(* calls are prepared in order through the hooks, handed to the resource   *)
(* scheduler (tool_scheduler.rs), run as tasks of a JoinSet, and finalized *)
(* as they end.  tool_dedupe is the first of the hooks on both sides: a    *)
(* call with the tool and the arguments of an earlier call of the step is  *)
(* not run, its finalization waits for the result of the earlier one.      *)
(*                                                                         *)
(* The executor is one task that selects between the scheduler's next()    *)
(* and the finalizations; when it takes a finalization, the future of      *)
(* next() is dropped wherever it was.                                      *)
(***************************************************************************)
EXTENDS Integers, FiniteSets, Sequences, SequencesExt

CONSTANTS
    MaxBatch,       \* the calls of the batch
    Paths,          \* normalized paths, as sequences of their components
    AccessChoices,  \* what the calls may declare: sets of accesses
    MaxPanics       \* bound: tools that panic

ASSUME BatchAssumption == MaxBatch \in Nat /\ MaxPanics \in Nat

Calls == 1 .. MaxBatch

\* ToolAccess::all, and a file access.
AllResources == [all |-> TRUE, writes |-> TRUE, path |-> <<>>, recursive |-> TRUE]
FileAccess(writes, path, recursive) ==
    [all |-> FALSE, writes |-> writes, path |-> path, recursive |-> recursive]

VARIABLES
    keyOf,       \* the first call with the same tool and arguments
    batchPhase,  \* what execute is doing, or how it ended
    preparing,   \* the call that is next to be prepared
    stopped,     \* a prepared call has stopped the batch
    form,        \* PreparedToolCall: what will be run for the call
    accesses,    \* PreparedToolCall.accesses
    deferreds,   \* State.deferreds: the duplicates waiting, by key
    told,        \* the duplicates whose channel holds the result
    toolTask,    \* the call's task in the JoinSet
    activeTasks, \* SchedulerState.active_tasks
    queued,      \* SchedulerState.queued_tasks
    reaping,     \* next() has met a panic and is reaping the batch
    final,       \* the call's finalization
    sent,        \* how many results of the call are in the stream
    firstError,  \* first_error
    panics       \* how many tools have panicked

batchVars == <<keyOf, batchPhase, preparing, stopped, form, accesses, deferreds, told, toolTask,
               activeTasks, queued, reaping, final, sent, firstError, panics>>

prepareVars == <<keyOf, preparing, stopped, form, accesses>>

BatchInit ==
    /\ keyOf = [i \in Calls |-> i]
    /\ batchPhase = "idle"
    /\ preparing = 1
    /\ stopped = FALSE
    /\ form = [i \in Calls |-> "none"]
    /\ accesses = [i \in Calls |-> {}]
    /\ deferreds = <<>>
    /\ told = {}
    /\ toolTask = [i \in Calls |-> "none"]
    /\ activeTasks = {}
    /\ queued = <<>>
    /\ reaping = FALSE
    /\ final = [i \in Calls |-> "none"]
    /\ sent = [i \in Calls |-> 0]
    /\ firstError = FALSE
    /\ panics = 0

----------------------------------------------------------------------------
(***************************************************************************)
(* Which calls may not overlap (tool_contract.rs).                         *)
(***************************************************************************)

\* The parent with a '/' after it starts the path.  The root already ends in '/'.
path_is_within(path, parent) == parent # <<>> /\ IsStrictPrefix(parent, path)

file_accesses_overlap(left, right) ==
    \/ left.path = right.path
    \/ left.recursive /\ path_is_within(right.path, left.path)
    \/ right.recursive /\ path_is_within(left.path, right.path)

resource_accesses_conflict(left, right) ==
    \/ left.all \/ right.all
    \/ (left.writes \/ right.writes) /\ file_accesses_overlap(left, right)

conflict(i, j) ==
    \E left \in accesses[i], right \in accesses[j] : resource_accesses_conflict(left, right)

----------------------------------------------------------------------------
\* The loop hands the calls of a response over; some may repeat an earlier one.
execute ==
    /\ batchPhase = "idle"
    /\ batchPhase' = "prepare"
    /\ keyOf' \in {f \in [Calls -> Calls] : \A i \in Calls : f[i] <= i /\ f[f[i]] = f[i]}
    /\ UNCHANGED <<preparing, stopped, form, accesses, deferreds, told, toolTask, activeTasks,
                   queued, reaping, final, sent, firstError, panics>>

(* Preparing the calls (prepare, prepare_rejected, prepare_skipped, prepare_error,
   prepare_synthetic, and tool_dedupe's hook on_before_execute_tool). *)

Prepared(f, stops) ==
    /\ form' = [form EXCEPT ![preparing] = f]
    /\ stopped' = (stopped \/ stops)
    /\ preparing' = preparing + 1
    /\ UNCHANGED <<keyOf, told, toolTask, activeTasks, queued, reaping, final, sent, firstError, panics>>

\* A call behind one that stopped the batch.
Skip ==
    /\ stopped
    /\ Prepared("rejected", FALSE)
    /\ UNCHANGED <<batchPhase, accesses, deferreds>>

\* Turned away before the hooks: preflight, resolve_execution, or the aborted signal.
Reject ==
    /\ ~stopped
    /\ Prepared("rejected", FALSE)
    /\ UNCHANGED <<batchPhase, accesses, deferreds>>

\* resolve_execution has an answer of its own.
Resolve ==
    /\ ~stopped
    /\ \E stops \in BOOLEAN : Prepared("answered", stops)
    /\ UNCHANGED <<batchPhase, accesses, deferreds>>

\* check_tool_call: a duplicate registers with the key, another call opens it.
check_tool_call(i) ==
    deferreds' = IF keyOf[i] \in DOMAIN deferreds
                 THEN [deferreds EXCEPT ![keyOf[i]] = @ \union {i}]
                 ELSE [k \in DOMAIN deferreds \union {keyOf[i]} |-> IF k = keyOf[i] THEN {} ELSE deferreds[k]]

Deduplicate ==
    /\ ~stopped
    /\ keyOf[preparing] \in DOMAIN deferreds
    /\ check_tool_call(preparing)
    /\ Prepared("duplicate", FALSE)
    /\ UNCHANGED <<batchPhase, accesses>>

FirstOfItsKey == ~stopped /\ keyOf[preparing] \notin DOMAIN deferreds

\* A later hook (the permission gate, an external hook, ...) blocks the call.
Block ==
    /\ FirstOfItsKey
    /\ check_tool_call(preparing)
    /\ Prepared("blocked", FALSE)
    /\ UNCHANGED <<batchPhase, accesses>>

\* A later hook answers for the tool.
Substitute ==
    /\ FirstOfItsKey
    /\ check_tool_call(preparing)
    /\ \E stops \in BOOLEAN : Prepared("substituted", stops)
    /\ UNCHANGED <<batchPhase, accesses>>

Allow ==
    /\ FirstOfItsKey
    /\ check_tool_call(preparing)
    /\ \E stops \in BOOLEAN : Prepared("run", stops)
    /\ \E a \in AccessChoices : accesses' = [accesses EXCEPT ![preparing] = a]
    /\ UNCHANGED batchPhase

\* A hook returns an error: execute returns it, nothing is run.
HookFails ==
    /\ FirstOfItsKey
    /\ check_tool_call(preparing)
    /\ batchPhase' = "failed"
    /\ UNCHANGED <<keyOf, preparing, stopped, form, accesses, told, toolTask, activeTasks, queued,
                   reaping, final, sent, firstError, panics>>

PrepareOne ==
    /\ batchPhase = "prepare"
    /\ preparing <= MaxBatch
    /\ Skip \/ Reject \/ Resolve \/ Deduplicate \/ Block \/ Substitute \/ Allow \/ HookFails

----------------------------------------------------------------------------
(* The resource scheduler (tool_scheduler.rs). *)

\* Mutant: only the active tasks are looked at.
is_blocked_Active(i, running, waiting) ==
    \E j \in running : conflict(i, j)

\* A conflict with an active task or one that is queued before.
is_blocked(i, running, waiting) ==
    \E j \in running \union Range(waiting) : conflict(i, j)

\* add, and the loop of take_ready_tasks: i starts or joins the queue.
AddTask(s, i) ==
    IF is_blocked(i, s.activeTasks, s.queued)
    THEN [s EXCEPT !.queued = Append(@, i)]
    ELSE [s EXCEPT !.activeTasks = @ \union {i}]

add_all ==
    FoldLeft(AddTask, [activeTasks |-> {}, queued |-> <<>>], [i \in Calls |-> i])

finish(i) ==
    FoldLeft(AddTask, [activeTasks |-> activeTasks \ {i}, queued |-> <<>>], queued)

\* execute adds every prepared call, in order, and start spawns the ones that may run.
Schedule ==
    /\ batchPhase = "prepare"
    /\ preparing > MaxBatch
    /\ batchPhase' = "run"
    /\ activeTasks' = add_all.activeTasks
    /\ queued' = add_all.queued
    /\ toolTask' = [i \in Calls |-> IF i \in add_all.activeTasks THEN "running" ELSE "none"]
    /\ UNCHANGED <<prepareVars, deferreds, told, reaping, final, sent, firstError, panics>>

\* The calls whose task is in the JoinSet, and the ones that can be joined.
InSet == {i \in Calls : toolTask[i] \notin {"none", "joined"}}
Ended == {i \in Calls : toolTask[i] \in {"finished", "panicked", "cancelled"}}

\* The tool returns; under an aborted signal at the latest after the abort grace.
TaskFinishes(i) ==
    /\ toolTask[i] \in {"running", "aborting"}
    /\ toolTask' = [toolTask EXCEPT ![i] = "finished"]
    /\ UNCHANGED <<prepareVars, batchPhase, deferreds, told, activeTasks, queued, reaping, final, sent,
                   firstError, panics>>

TaskPanics(i) ==
    /\ toolTask[i] = "running"
    /\ form[i] = "run"
    /\ panics < MaxPanics
    /\ panics' = panics + 1
    /\ toolTask' = [toolTask EXCEPT ![i] = "panicked"]
    /\ UNCHANGED <<prepareVars, batchPhase, deferreds, told, activeTasks, queued, reaping, final, sent,
                   firstError>>

\* abort_all reaches the task at its next await.
AbortLands(i) ==
    /\ toolTask[i] = "aborting"
    /\ toolTask' = [toolTask EXCEPT ![i] = "cancelled"]
    /\ UNCHANGED <<prepareVars, batchPhase, deferreds, told, activeTasks, queued, reaping, final, sent,
                   firstError, panics>>

----------------------------------------------------------------------------
(* The loop of execute: next() ... *)

NextReturnsResult(i) ==
    /\ ~reaping
    /\ toolTask[i] = "finished"
    /\ activeTasks' = finish(i).activeTasks
    /\ queued' = finish(i).queued
    /\ toolTask' = [j \in Calls |-> CASE j = i -> "joined"
                                  [] j \in finish(i).activeTasks \ activeTasks -> "running"
                                  [] OTHER -> toolTask[j]]
    /\ final' = [final EXCEPT ![i] = "hooks"]
    /\ UNCHANGED <<prepareVars, batchPhase, deferreds, told, reaping, sent, firstError, panics>>

\* next() has joined task i and reaps the tasks behind an error.  With an empty JoinSet there is
\* nothing to await: the scheduler is cleared, and the error returned, in the same step.
Reaped(i) ==
    IF InSet = {i}
    THEN reaping' = FALSE /\ activeTasks' = {} /\ queued' = <<>> /\ firstError' = TRUE
    ELSE reaping' = TRUE /\ UNCHANGED <<activeTasks, queued, firstError>>

\* next() joins a panicked or cancelled task and starts to reap the others.
NextMeetsError(i) ==
    /\ ~reaping
    /\ toolTask[i] \in {"panicked", "cancelled"}
    /\ toolTask' = [j \in Calls |-> CASE j = i -> "joined"
                                  [] toolTask[j] = "running" -> "aborting"
                                  [] OTHER -> toolTask[j]]
    /\ Reaped(i)
    /\ UNCHANGED <<prepareVars, batchPhase, deferreds, told, final, sent, panics>>

Reap(i) ==
    /\ reaping
    /\ i \in Ended
    /\ toolTask' = [toolTask EXCEPT ![i] = "joined"]
    /\ Reaped(i)
    /\ UNCHANGED <<prepareVars, batchPhase, deferreds, told, final, sent, panics>>

(* ... and the finalizations. *)

Finalizing == {i \in Calls : final[i] \notin {"none", "done"}}

\* Mutant: the duplicates are forgotten, not told.
finalize_result_Untold(i) ==
    /\ deferreds' = Restrict(deferreds, DOMAIN deferreds \ {keyOf[i]})
    /\ UNCHANGED told

\* tool_dedupe's finalize_result of a call that is no duplicate: its duplicates are told.
finalize_result(i) ==
    IF form[i] \in {"run", "substituted"} /\ keyOf[i] \in DOMAIN deferreds
    THEN /\ told' = told \union deferreds[keyOf[i]]
         /\ deferreds' = Restrict(deferreds, DOMAIN deferreds \ {keyOf[i]})
    ELSE UNCHANGED <<told, deferreds>>

\* finalize: a rejected call keeps its result, any other goes through on_did_execute_tool.
finalize(i) ==
    /\ final[i] = "hooks"
    /\ form[i] = "duplicate" => i \in told
    /\ final' = [final EXCEPT ![i] = "ready"]
    /\ finalize_result(i)
    /\ UNCHANGED <<prepareVars, batchPhase, toolTask, activeTasks, queued, reaping, sent, firstError, panics>>

\* The select takes a finalization: its result is in the stream; next() is dropped.
FinalizationReturns(i) ==
    /\ final[i] = "ready"
    /\ final' = [final EXCEPT ![i] = "done"]
    /\ sent' = [sent EXCEPT ![i] = @ + 1]
    /\ reaping' = FALSE
    /\ UNCHANGED <<prepareVars, batchPhase, deferreds, told, toolTask, activeTasks, queued, firstError, panics>>

execute_Returns(how) ==
    /\ batchPhase' = how
    /\ UNCHANGED <<prepareVars, deferreds, told, toolTask, activeTasks, queued, reaping, final, sent,
                   firstError, panics>>

has_pending == InSet # {} \/ queued # <<>>

\* Mutant: the loop ends with the tasks.
BatchEnds_NoFinalizations ==
    /\ ~reaping
    /\ ~has_pending
    /\ execute_Returns(IF firstError THEN "failed" ELSE "done")

\* Nothing is left: the stream ends, after the first error if there is one.
BatchEnds ==
    /\ ~reaping
    /\ ~has_pending
    /\ Finalizing = {}
    /\ execute_Returns(IF firstError THEN "failed" ELSE "done")

\* Calls are queued with no task left that could release them: next() is None, the select has
\* no branch, and the executor's task panics.  The stream just ends.
SelectPanics ==
    /\ ~reaping
    /\ InSet = {}
    /\ queued # <<>>
    /\ Finalizing = {}
    /\ execute_Returns("panicked")

ExecutorStep ==
    \/ \E i \in Calls : NextReturnsResult(i)
    \/ \E i \in Calls : NextMeetsError(i)
    \/ \E i \in Calls : Reap(i)
    \/ \E i \in Calls : finalize(i)
    \/ \E i \in Calls : FinalizationReturns(i)
    \/ BatchEnds
    \/ SelectPanics

RunStep ==
    /\ batchPhase = "run"
    /\ \/ ExecutorStep
       \/ \E i \in Calls : TaskFinishes(i)
       \/ \E i \in Calls : TaskPanics(i)
       \/ \E i \in Calls : AbortLands(i)

BatchStep == execute \/ PrepareOne \/ Schedule \/ RunStep

BatchSpec == BatchInit /\ [][BatchStep]_batchVars

\* What happens without anybody's help: the executor's task goes on, and every tool returns (the
\* abort grace sees to it under an aborted signal; before, the tools have their own time limits).
GoesOn ==
    \/ PrepareOne
    \/ Schedule
    \/ /\ batchPhase = "run"
       /\ ExecutorStep \/ \E i \in Calls : TaskFinishes(i) \/ AbortLands(i)

----------------------------------------------------------------------------

\* Where the variables range.
BatchTypeOK ==
    /\ batchPhase \in {"idle", "prepare", "run", "done", "failed", "panicked"}
    /\ preparing \in 1 .. MaxBatch + 1
    /\ form \in [Calls -> {"none", "rejected", "answered", "duplicate", "blocked", "substituted", "run"}]
    /\ DOMAIN deferreds \subseteq Calls
    /\ told \subseteq Calls
    /\ toolTask \in [Calls -> {"none", "running", "finished", "panicked", "aborting", "cancelled",
                           "joined"}]
    /\ activeTasks \subseteq Calls
    /\ Range(queued) \subseteq Calls
    /\ final \in [Calls -> {"none", "hooks", "ready", "done"}]
    /\ panics \in 0 .. MaxPanics

\* What two calls really share: a path of one under a path of the other, and a write.
Touched(a) == {p \in Paths : p = a.path \/ (a.recursive /\ IsPrefix(a.path, p))}

Interfere(i, j) ==
    \E left \in accesses[i], right \in accesses[j] :
        \/ left.all \/ right.all
        \/ (left.writes \/ right.writes) /\ Touched(left) \intersect Touched(right) # {}

\* A call runs only when every earlier call of the batch that touches what it writes, or writes
\* what it touches, has ended (the scheduler's active and earlier queued tasks, across every
\* completion, panic and dropped next()).
ConflictsRunInOrder ==
    \A i, j \in Calls :
        i < j /\ toolTask[j] = "running" /\ Interfere(i, j) =>
            toolTask[i] \in {"finished", "panicked", "cancelled", "joined"}

\* The stream carries one result of every call of a batch that ends without an error, and never
\* two of one, unless a tool has panicked (execute's accounting of tasks and finalizations).
OneResultEach ==
    /\ \A i \in Calls : sent[i] <= 1
    /\ batchPhase = "done" /\ panics = 0 => \A i \in Calls : sent[i] = 1

\* The call that opened the key of a duplicate.
Original(i) ==
    CHOOSE j \in Calls : keyOf[j] = keyOf[i] /\ form[j] \in {"blocked", "substituted", "run"}

\* A duplicate whose original will not tell it: a later hook has blocked that call, its task has
\* ended without a result, or it is queued with no task left that could release it.
Orphaned(i) ==
    /\ form[i] = "duplicate"
    /\ final[i] = "hooks"
    /\ i \notin told
    /\ LET j == Original(i) IN
       \/ form[j] = "blocked"
       \/ toolTask[j] \in {"panicked", "cancelled"}
       \/ toolTask[j] = "joined" /\ final[j] = "none"
       \/ toolTask[j] = "none" /\ (j \notin Range(queued) \/ InSet = {})

\* execute never stops before its end: no completion is missed, no queued call forgotten, and no
\* duplicate waits for ever, but for one whose original was blocked or lost.  A batch has finitely
\* many steps, each taken once, so it ends.
BatchNeverStuck ==
    batchPhase \in {"prepare", "run"} /\ (\A i \in Calls : ~Orphaned(i)) => ENABLED GoesOn

\* What GoesOn awaits: in the run phase a task of the JoinSet, a finalization that waits for
\* nobody, or that neither is left.
CanGoOn ==
    \/ batchPhase = "prepare"
    \/ /\ batchPhase = "run"
       /\ \/ InSet # {}
          \/ \E i \in Finalizing : form[i] = "duplicate" /\ final[i] = "hooks" => i \in told
          \/ Finalizing = {} /\ ~reaping

\* With that, execute's task or a tool can take a step.
BatchGuardsSuffice == CanGoOn => ENABLED GoesOn

\* A duplicate whose finalization waits has an original that will be finalized and tell it
\* (the comment in execute: "a synthetic duplicate may await the original call's finalization").
DuplicateIsAnswered == \A i \in Calls : ~Orphaned(i)
=============================================================================
