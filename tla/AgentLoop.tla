------------------------------ MODULE AgentLoop ------------------------------
(***************************************************************************)
(* The agent loop: agent/loop_/loop_service.rs, with step_request.rs and   *)
(* step_request_queue.rs.                                                  *)
(*                                                                         *)
(* Callers enqueue step requests.  A request starts a turn or joins the    *)
(* active one; turns wait in line, and each runs as a task that takes      *)
(* batches of requests from its own queue until the queue is empty.        *)
(* Callers may take a request back, cancel a turn, wait for the loop to    *)
(* settle, or dispose of it.                                               *)
(*                                                                         *)
(* Every action is what one thread does between two acquisitions of the    *)
(* service's lock, or between two awaits: enqueue, cancel, pump_turns and  *)
(* the end of a turn take the lock several times, and what they read       *)
(* before may not hold after.  The model, the tools and the hooks are      *)
(* external: they succeed, fail, ask for a continuation or stop the turn.  *)
(* Turn ids are TurnClock's subject.                                       *)
(***************************************************************************)
EXTENDS Integers, Sequences

CONSTANTS
    Callers,      \* threads that use the service
    Kinds,        \* kinds of requests they enqueue
    MaxRequests,  \* bound: requests
    MaxSteps,     \* max_steps_per_turn, 0 for no limit
    MaxCancels,   \* bound: calls of cancel and of a receipt's abort
    MaxWaits,     \* bound: calls of settled
    MaxDisposals  \* bound: 1 if the loop may be disposed of, else 0

\* The requests of the repository: the user's prompt (also retry and goal
\* continuation), a steer, a task's notification (also inject), and the
\* continuation after tool calls.
Admission == [prompt |-> "newTurn", steer |-> "activeTurnOnly",
              notification |-> "activeOrNewTurn", continuation |-> "activeOrNextTurn"]
Mergeable(k)  == k \in {"steer", "notification"}
TurnScoped(k) == k \in {"prompt", "continuation"}

ASSUME LoopAssumption ==
    /\ MaxRequests \in Nat /\ MaxSteps \in Nat
    /\ MaxCancels \in Nat /\ MaxWaits \in Nat /\ MaxDisposals \in {0, 1}
    /\ Kinds \subseteq DOMAIN Admission

Requests == 1 .. MaxRequests
Turns    == Requests  \* a turn is named by the request that started it

VARIABLES
    request,     \* per request: its kind and StepRequestState
    assignment,  \* per request: its assignment promise
    step,        \* per request: its step handle in the turn it was assigned to
    job,         \* the TurnJobs
    active,      \* LoopState.active_turn_job, 0 for none
    pending,     \* LoopState.pending_turns
    standalone,  \* LoopState.standalone_step_queue
    waiters,     \* LoopState.settle_waiters
    disposal,    \* LoopState.disposing, and what dispose still has to cancel
    worker,      \* per turn: where its task is
    batch,       \* per turn: the requests of the current step, the driver first
    caller,      \* per caller: where its call is
    retracted,   \* requests whose receipt was aborted; history
    spent        \* how much of the bounds on calls is spent

vars == <<request, assignment, step, job, active, pending, standalone, waiters,
          disposal, worker, batch, caller, retracted, spent>>

requests == <<request, assignment, step>>
queues   == <<active, pending, standalone, waiters, disposal>>

Over == {"completed", "failed", "cancelled"}

NoStep == [turn |-> 0, state |-> "none", signal |-> "clear", result |-> "unset"]
NoJob  == [state |-> "unborn", signal |-> "clear", queue |-> <<>>,
           steps |-> 0, result |-> "unset"]

Init ==
    /\ request = [r \in Requests |-> [kind |-> "none", state |-> "unused"]]
    /\ assignment = [r \in Requests |-> "none"]
    /\ step = [r \in Requests |-> NoStep]
    /\ job = [t \in Turns |-> NoJob]
    /\ active = 0
    /\ pending = <<>>
    /\ standalone = <<>>
    /\ waiters = {}
    /\ disposal = [state |-> "no", turns |-> {}, dropping |-> 0, requests |-> {}]
    /\ worker = [t \in Turns |-> [pc |-> "none", outcome |-> "none", next |-> 0]]
    /\ batch = [t \in Turns |-> <<>>]
    /\ caller = [c \in Callers |-> [pc |-> "idle", request |-> 0, turn |-> 0]]
    /\ retracted = {}
    /\ spent = [cancels |-> 0, waits |-> 0]

-----------------------------------------------------------------------------
(***************************************************************************)
(* Helpers.                                                                *)
(***************************************************************************)
Live(queue) == SelectSeq(queue, LAMBDA r : request[r].state # "aborted")
Members(seq) == {seq[i] : i \in DOMAIN seq}

\* StepHandleImpl::cancel on the steps of R: those not over are cancelled,
\* their requests aborted unless they are materialized.
Cancellable(R) == {r \in R : step[r].state \in {"queued", "running"}}

StepsCancelled(R) ==
    [r \in Requests |->
        IF r \in Cancellable(R)
        THEN [step[r] EXCEPT !.state = "cancelled", !.signal = "aborted",
                             !.result = IF @ = "unset" THEN "cancelled" ELSE @]
        ELSE step[r]]

RequestsAborted(R) ==
    [r \in Requests |->
        IF r \in R /\ request[r].state = "pending"
        THEN [request[r] EXCEPT !.state = "aborted"] ELSE request[r]]

StepsOf(t) == {r \in Requests : step[r].turn = t}

\* settle_waiters, given what active and pending have become.
WaitersAfter(a, p) == IF a = 0 /\ p = <<>> THEN {} ELSE waiters

\* The next request to be created.
NextRequest == CHOOSE r \in 1 .. (MaxRequests + 1) :
                  /\ \A q \in 1 .. (r - 1) : request[q].state # "unused"
                  /\ r \in Requests => request[r].state = "unused"

At(c, pc) == caller[c].pc = pc
Goto(c, pc) == caller' = [caller EXCEPT ![c].pc = pc]
Return(c) == caller' = [caller EXCEPT ![c] = [pc |-> "idle", request |-> 0, turn |-> 0]]

WorkerAt(t, pc) == worker[t].pc = pc
WorkerGoto(t, pc) == worker' = [worker EXCEPT ![t].pc = pc]

-----------------------------------------------------------------------------
(***************************************************************************)
(* enqueue.                                                                *)
(***************************************************************************)
\* Under the lock: refused when disposing, else the assignment is registered.
EnqueueRegister(c, k) ==
    LET r == NextRequest
    IN  /\ At(c, "idle")
        /\ r \in Requests
        /\ disposal.state = "no"
        /\ request' = [request EXCEPT ![r] = [kind |-> k, state |-> "pending"]]
        /\ assignment' = [assignment EXCEPT ![r] = "open"]
        /\ caller' = [caller EXCEPT ![c] = [pc |-> "readActive", request |-> r, turn |-> 0]]
        /\ UNCHANGED <<step, job, queues, worker, retracted, spent, batch>>

\* The active turn is read under the lock and used without it.
EnqueueReadActive(c) ==
    /\ At(c, "readActive")
    /\ caller' = [caller EXCEPT ![c].pc = "admit", ![c].turn = active]
    /\ UNCHANGED <<requests, job, queues, worker, retracted, spent, batch>>

WantsNewTurn(c) ==
    LET admission == Admission[request[caller[c].request].kind]
    IN  admission = "newTurn" \/ (admission = "activeOrNewTurn" /\ caller[c].turn = 0)

Assigned(R, t) ==
    /\ step' = [r \in Requests |->
                  IF r \in R THEN [NoStep EXCEPT !.turn = t, !.state = "queued"] ELSE step[r]]
    /\ assignment' = [r \in Requests |-> IF r \in R THEN "ok" ELSE assignment[r]]

\* create_and_queue_turn up to the pump: the standalone requests that were
\* not aborted join the new turn.
EnqueueNewTurn(c) ==
    LET r == caller[c].request
        queue == <<r>> \o Live(standalone)
    IN  /\ At(c, "admit")
        /\ WantsNewTurn(c)
        /\ Assigned(Members(queue), r)
        /\ job' = [job EXCEPT ![r] = [NoJob EXCEPT !.state = "queued", !.queue = queue]]
        /\ pending' = Append(pending, r)
        /\ standalone' = <<>>
        /\ Goto(c, "pump")
        /\ UNCHANGED <<request, active, waiters, disposal, worker, retracted, spent, batch>>

\* assign_step to the turn that was active when it was read.
EnqueueJoin(c) ==
    LET r == caller[c].request
        t == caller[c].turn
    IN  /\ At(c, "admit")
        /\ ~WantsNewTurn(c)
        /\ t # 0
        /\ Assigned({r}, t)
        /\ job' = [job EXCEPT ![t].queue = Append(@, r)]
        /\ Return(c)
        /\ UNCHANGED <<request, queues, worker, retracted, spent, batch>>

\* No turn was active: wait for the next one, or be rejected.
EnqueueNoTurn(c) ==
    LET r == caller[c].request
    IN  /\ At(c, "admit")
        /\ ~WantsNewTurn(c)
        /\ caller[c].turn = 0
        /\ IF Admission[request[r].kind] = "activeOrNextTurn"
           THEN standalone' = Append(standalone, r) /\ UNCHANGED assignment
           ELSE assignment' = [assignment EXCEPT ![r] = "rejected"] /\ UNCHANGED standalone
        /\ Return(c)
        /\ UNCHANGED <<request, step, job, active, pending, waiters, disposal, worker, retracted, spent, batch>>

-----------------------------------------------------------------------------
(***************************************************************************)
(* pump_turns, the part under the lock: claim the next turn.               *)
(***************************************************************************)
Claimable == disposal.state = "no" /\ active = 0 /\ pending # <<>>

\* Mutant: a turn is claimed although one is active.
ClaimNext_Unguarded ==
    /\ disposal.state = "no" /\ pending # <<>>
    /\ active' = Head(pending)
    /\ pending' = Tail(pending)
    /\ UNCHANGED waiters

ClaimNext ==
    /\ Claimable
    /\ active' = Head(pending)
    /\ pending' = Tail(pending)
    /\ UNCHANGED waiters

ClaimNone ==
    /\ ~Claimable
    /\ waiters' = IF disposal.state = "no" THEN WaitersAfter(active, pending) ELSE waiters
    /\ UNCHANGED <<active, pending>>

CallerPump(c) ==
    /\ At(c, "pump")
    /\ \/ /\ ClaimNext
          /\ caller' = [caller EXCEPT ![c].pc = "start", ![c].turn = Head(pending)]
          /\ worker' = [worker EXCEPT ![Head(pending)].pc = "gate"]
       \/ ClaimNone /\ Return(c) /\ UNCHANGED worker
    /\ UNCHANGED <<requests, job, standalone, disposal, retracted, spent, batch>>

\* The rest of pump_turns: the turn is Running and its task let through the gate.
CallerStart(c) ==
    LET t == caller[c].turn
    IN  /\ At(c, "start")
        /\ job' = [job EXCEPT ![t].state = "running"]
        /\ worker' = [worker EXCEPT ![t].pc = "begin"]
        /\ Return(c)
        /\ UNCHANGED <<requests, queues, retracted, spent, batch>>

-----------------------------------------------------------------------------
(***************************************************************************)
(* A turn's task.                                                          *)
(***************************************************************************)
Decide(t, outcome) ==
    worker' = [worker EXCEPT ![t].pc = "release", ![t].outcome = outcome]

Current(t) == Head(batch[t])
HasCurrent(t) == batch[t] # <<>>
NoCurrent(t) == batch' = [batch EXCEPT ![t] = <<>>]

\* The signal a step sees: its turn's and its own.
Aborted(t) == job[t].signal = "aborted" \/ (HasCurrent(t) /\ step[Current(t)].signal = "aborted")

\* begin_loop_step as far as has_pending_requests and the step limit, which
\* is an error without a current step.
BeginLoopStep(t) ==
    /\ WorkerAt(t, "begin")
    /\ \/ job[t].signal = "aborted" /\ Decide(t, "cancelled")
       \/ job[t].signal # "aborted" /\ Live(job[t].queue) = <<>> /\ Decide(t, "completed")
       \/ /\ job[t].signal # "aborted" /\ Live(job[t].queue) # <<>>
          /\ IF MaxSteps > 0 /\ job[t].steps >= MaxSteps
             THEN WorkerGoto(t, "error") ELSE WorkerGoto(t, "take")
    /\ UNCHANGED <<requests, job, queues, caller, retracted, spent, batch>>

\* take_next_batch: the first request that is not mergeable, or the first of
\* all, drives; the mergeable ones go with it.  An empty queue panics here.
TakeBatch(t) ==
    LET live == Live(job[t].queue)
        mergeable(r) == Mergeable(request[r].kind)
        drivers == SelectSeq(live, LAMBDA r : ~mergeable(r))
        driver == IF drivers = <<>> THEN Head(live) ELSE Head(drivers)
        merged == SelectSeq(live, LAMBDA r : r # driver /\ mergeable(r))
        rest == SelectSeq(live, LAMBDA r : r # driver /\ ~mergeable(r))
    IN  /\ WorkerAt(t, "take")
        /\ IF live = <<>>
           THEN /\ WorkerGoto(t, "panicked")
                /\ job' = [job EXCEPT ![t].queue = <<>>]
                /\ UNCHANGED batch
           ELSE /\ job' = [job EXCEPT ![t].queue = rest]
                /\ batch' = [batch EXCEPT ![t] = <<driver>> \o merged]
                /\ WorkerGoto(t, "setRunning")
        /\ UNCHANGED <<requests, queues, caller, retracted, spent>>

\* set_running: the step gets a fresh controller.
SetRunning(t) ==
    /\ WorkerAt(t, "setRunning")
    /\ step' = [step EXCEPT ![Current(t)].state = "running", ![Current(t)].signal = "clear"]
    /\ job' = [job EXCEPT ![t].steps = IF MaxSteps = 0 THEN 0 ELSE @ + 1]
    /\ WorkerGoto(t, "materialize")
    /\ UNCHANGED <<request, assignment, queues, caller, retracted, spent, batch>>

\* materialize_batch; appending to the context may fail after some of them,
\* and then there is no current step to recover.
Materialize(t) ==
    /\ WorkerAt(t, "materialize")
    /\ \E n \in 0 .. Len(batch[t]) :
         /\ n < Len(batch[t]) => request[batch[t][n + 1]].state = "pending"
         /\ request' = [r \in Requests |->
                IF r \in Members(SubSeq(batch[t], 1, n)) /\ request[r].state = "pending"
                THEN [request[r] EXCEPT !.state = "materialized"] ELSE request[r]]
         /\ IF n = Len(batch[t])
            THEN WorkerGoto(t, "execute") /\ UNCHANGED batch
            ELSE WorkerGoto(t, "error") /\ NoCurrent(t)
    /\ UNCHANGED <<assignment, step, job, queues, caller, retracted, spent>>

\* execute_loop_step up to finish_step: an aborted signal is noticed by the
\* end of it; otherwise the provider answers, or fails.
ExecuteStep(t) ==
    /\ WorkerAt(t, "execute")
    /\ \/ Aborted(t) /\ WorkerGoto(t, "aborted")
       \/ ~Aborted(t) /\ \E pc \in {"after", "error"} : WorkerGoto(t, pc)
    /\ UNCHANGED <<requests, job, queues, caller, retracted, spent, batch>>

\* run_after_step and complete_loop_step: the step is completed whatever has
\* been done to it, and the turn goes on, stops, or fails (filtered).
Completed(r) ==
    [step EXCEPT ![r].state = "completed", ![r].result = IF @ = "unset" THEN "completed" ELSE @]

AfterStep(t) ==
    /\ WorkerAt(t, "after")
    /\ \E pc \in {"begin", "error"} : WorkerGoto(t, pc)
    /\ NoCurrent(t)
    /\ step' = Completed(Current(t))
    /\ UNCHANGED <<request, assignment, job, queues, caller, retracted, spent>>

AfterStepStops(t) ==
    /\ WorkerAt(t, "after")
    /\ step' = Completed(Current(t))
    /\ Decide(t, "completed")
    /\ NoCurrent(t)
    /\ UNCHANGED <<request, assignment, job, queues, caller, retracted, spent>>

\* The model called tools: the continuation hook enqueues another step of
\* this turn, unless the loop is being disposed of.
AfterStepContinues(t) ==
    LET r == NextRequest
    IN  /\ WorkerAt(t, "after")
        /\ disposal.state = "no"
        /\ r \in Requests
        /\ request' = [request EXCEPT ![r] = [kind |-> "continuation", state |-> "pending"]]
        /\ assignment' = [assignment EXCEPT ![r] = "ok"]
        /\ step' = [Completed(Current(t)) EXCEPT ![r] = [NoStep EXCEPT !.turn = t,
                                                                       !.state = "queued"]]
        /\ job' = [job EXCEPT ![t].queue = Append(@, r)]
        /\ WorkerGoto(t, "begin")
        /\ NoCurrent(t)
        /\ UNCHANGED <<queues, caller, retracted, spent>>

\* A hook failed, or the continuation was refused.
AfterStepFails(t) ==
    /\ WorkerAt(t, "after")
    /\ \/ WorkerGoto(t, "error")
       \/ disposal.state # "no" /\ WorkerGoto(t, "aborted")
    /\ UNCHANGED <<requests, job, queues, caller, retracted, spent, batch>>

\* handle_loop_cancellation: a cancelled step lets its turn go on.
HandleCancellation(t) ==
    IF job[t].signal # "aborted" /\ HasCurrent(t) /\ step[Current(t)].state = "cancelled"
    THEN WorkerGoto(t, "begin") /\ NoCurrent(t)
    ELSE Decide(t, "cancelled") /\ UNCHANGED batch

HandleLoopStepError(t) ==
    /\ \/ WorkerAt(t, "aborted") /\ HandleCancellation(t)
       \/ WorkerAt(t, "error") /\ Aborted(t) /\ HandleCancellation(t)
       \/ /\ WorkerAt(t, "error") /\ ~Aborted(t)
          /\ \/ HasCurrent(t) /\ WorkerGoto(t, "recover")
             \/ Decide(t, "failed")
          /\ UNCHANGED batch
    /\ UNCHANGED <<requests, job, queues, caller, retracted, spent>>

\* A loop error handler has waited (back-off, compaction, the user): it
\* retries the driver unless its step was aborted, gives up, or fails itself.
Recover(t) ==
    /\ WorkerAt(t, "recover")
    /\ \/ step[Current(t)].signal # "aborted" /\ WorkerGoto(t, "retry") /\ UNCHANGED batch
       \/ Decide(t, "failed") /\ UNCHANGED batch
       \/ Aborted(t) /\ HandleCancellation(t)
    /\ UNCHANGED <<requests, job, queues, caller, retracted, spent>>

\* enqueue_step at the head: the step is queued again, or, if it was
\* cancelled since, replaced by a new one.
Retry(t) ==
    LET r == Current(t)
    IN  /\ WorkerAt(t, "retry")
        /\ job' = [job EXCEPT ![t].queue = <<r>> \o @]
        /\ step' = [step EXCEPT ![r] = IF @.state # "cancelled" THEN [@ EXCEPT !.state = "queued"]
                                       ELSE [NoStep EXCEPT !.turn = t, !.state = "queued"]]
        /\ WorkerGoto(t, "begin")
        /\ NoCurrent(t)
        /\ UNCHANGED <<request, assignment, queues, caller, retracted, spent>>

\* The end of run_loop (abort_turn_scoped) and release_active_turn up to its
\* lock, also after a panic: the turn is over, its open steps are cancelled.
ReleaseSteps(t) ==
    LET outcome == IF WorkerAt(t, "panicked") THEN "failed" ELSE worker[t].outcome
        scoped == {r \in Members(job[t].queue) : TurnScoped(request[r].kind)}
    IN  /\ WorkerAt(t, "release") \/ WorkerAt(t, "panicked")
        /\ job' = [job EXCEPT ![t].state = outcome]
        /\ step' = StepsCancelled(StepsOf(t))
        /\ request' = RequestsAborted(scoped \cup Cancellable(StepsOf(t)))
        /\ worker' = [worker EXCEPT ![t].pc = "free", ![t].outcome = outcome]
        /\ NoCurrent(t)
        /\ UNCHANGED <<assignment, queues, caller, retracted, spent>>

\* Mutant: a turn's task ends without pumping.
ReleaseSlot_NoPump(t) ==
    /\ WorkerAt(t, "free")
    /\ active' = 0
    /\ waiters' = WaitersAfter(0, pending)
    /\ WorkerGoto(t, "settle")
    /\ UNCHANGED <<requests, job, pending, standalone, disposal, caller, retracted, spent, batch>>

\* release_active_turn under the lock.  The bookkeeping that follows awaits,
\* so other turns may be started before this task pumps.
ReleaseSlot(t) ==
    /\ WorkerAt(t, "free")
    /\ active' = IF active = t THEN 0 ELSE active
    /\ waiters' = WaitersAfter(active', pending)
    /\ WorkerGoto(t, "pump")
    /\ UNCHANGED <<requests, job, pending, standalone, disposal, caller, retracted, spent, batch>>

WorkerPump(t) ==
    /\ WorkerAt(t, "pump")
    /\ \/ /\ ClaimNext
          /\ worker' = [worker EXCEPT ![t].pc = "start", ![t].next = Head(pending),
                                      ![Head(pending)].pc = "gate"]
       \/ ClaimNone /\ WorkerGoto(t, "settle")
    /\ UNCHANGED <<requests, job, standalone, disposal, caller, retracted, spent, batch>>

WorkerStart(t) ==
    LET u == worker[t].next
    IN  /\ WorkerAt(t, "start")
        /\ job' = [job EXCEPT ![u].state = "running"]
        /\ worker' = [worker EXCEPT ![t].pc = "settle", ![t].next = 0, ![u].pc = "begin"]
        /\ UNCHANGED <<requests, queues, caller, retracted, spent, batch>>

SettleResult(t) ==
    /\ WorkerAt(t, "settle")
    /\ job' = [job EXCEPT ![t].result = worker[t].outcome]
    /\ worker' = [worker EXCEPT ![t].pc = "done", ![t].outcome = "none"]
    /\ UNCHANGED <<requests, queues, caller, retracted, spent, batch>>

-----------------------------------------------------------------------------
(***************************************************************************)
(* cancel: the active turn, then, under another lock, the queued ones.     *)
(***************************************************************************)
Cancel(c, t) ==
    /\ At(c, "idle")
    /\ spent.cancels < MaxCancels
    /\ spent' = [spent EXCEPT !.cancels = @ + 1]
    /\ t \in Turns => job[t].state # "unborn"
    /\ caller' = [caller EXCEPT ![c] = [pc |-> "cancelActive", request |-> 0, turn |-> t]]
    /\ UNCHANGED <<requests, job, queues, worker, retracted, batch>>

\* cancel_active_turn; turn 0 stands for whichever is active.
Retracted(c) == retracted' = retracted \cup ({caller[c].request} \ {0})

CancelActive(c) ==
    LET hit == active # 0 /\ caller[c].turn \in {0, active}
    IN  /\ At(c, "cancelActive")
        /\ IF hit THEN job' = [job EXCEPT ![active].signal = "aborted"] ELSE UNCHANGED job
        /\ IF hit \/ caller[c].turn = 0 THEN Return(c) /\ Retracted(c)
                                        ELSE Goto(c, "cancelQueued") /\ UNCHANGED retracted
        /\ UNCHANGED <<requests, queues, worker, spent, batch>>

\* cancel_queued_turn takes the turn out of the line, without the lock cancels
\* it, and settles the waiters under the lock again.
Without(seq, i) == [j \in 1 .. (Len(seq) - 1) |-> IF j < i THEN seq[j] ELSE seq[j + 1]]

\* Mutant: settle_waiters is forgotten.
DropTurn_NoSettle(t) ==
    /\ job' = [job EXCEPT ![t].state = "cancelled", ![t].signal = "aborted",
                          ![t].result = "cancelled"]
    /\ step' = StepsCancelled(StepsOf(t))
    /\ request' = RequestsAborted(Cancellable(StepsOf(t)))
    /\ UNCHANGED waiters

DropTurn(t) ==
    /\ job' = [job EXCEPT ![t].state = "cancelled", ![t].signal = "aborted",
                          ![t].result = "cancelled"]
    /\ step' = StepsCancelled(StepsOf(t))
    /\ request' = RequestsAborted(Cancellable(StepsOf(t)))
    /\ waiters' = WaitersAfter(active, pending)

\* A turn that was claimed meanwhile is not found.
CancelQueued(c) ==
    /\ At(c, "cancelQueued")
    /\ \/ \E i \in 1 .. Len(pending) :
            /\ pending[i] = caller[c].turn
            /\ pending' = Without(pending, i)
            /\ Goto(c, "dropping")
            /\ UNCHANGED retracted
       \/ /\ \A i \in 1 .. Len(pending) : pending[i] # caller[c].turn
          /\ Return(c)
          /\ Retracted(c)
          /\ UNCHANGED pending
    /\ UNCHANGED <<requests, job, active, standalone, waiters, disposal, worker, spent, batch>>

CancelDropped(c) ==
    /\ At(c, "dropping")
    /\ DropTurn(caller[c].turn)
    /\ Return(c)
    /\ Retracted(c)
    /\ UNCHANGED <<assignment, active, pending, standalone, disposal, worker, spent, batch>>

\* abort_request, through the receipt: the turn that waits to run this
\* request is cancelled; a step of a turn in line or active is; else the
\* request is withdrawn.
AbortRequest(c, r) ==
    LET jobs == ({active} \ {0}) \cup Members(pending)
        own == {t \in jobs : t = r /\ job[t].state = "queued"}
        filed == {t \in jobs : step[r].turn = t}
    IN  /\ At(c, "idle")
        /\ spent.cancels < MaxCancels
        /\ spent' = [spent EXCEPT !.cancels = @ + 1]
        /\ request[r].kind \in Kinds
        /\ assignment[r] \in {"open", "ok"}
        /\ \A d \in Callers : caller[d].request # r
        /\ \/ /\ own # {}
              /\ \E t \in own :
                   caller' = [caller EXCEPT ![c] = [pc |-> "cancelActive", request |-> r,
                                                    turn |-> t]]
              /\ UNCHANGED <<requests, retracted>>
           \/ /\ own = {} /\ filed # {}
              /\ step' = StepsCancelled({r})
              /\ request' = RequestsAborted(Cancellable({r}))
              /\ retracted' = retracted \cup {r}
              /\ UNCHANGED <<assignment, caller>>
           \/ /\ own = {} /\ filed = {}
              /\ request' = RequestsAborted({r})
              /\ assignment' = [assignment EXCEPT ![r] =
                     IF @ = "open" /\ request[r].state = "pending" THEN "rejected" ELSE @]
              /\ retracted' = retracted \cup {r}
              /\ UNCHANGED <<step, caller>>
        /\ UNCHANGED <<job, queues, worker, batch>>

\* settled.
Settled(c) ==
    /\ At(c, "idle")
    /\ spent.waits < MaxWaits
    /\ spent' = [spent EXCEPT !.waits = @ + 1]
    /\ active # 0 \/ pending # <<>>
    /\ waiters' = waiters \cup {c}
    /\ Goto(c, "settled")
    /\ UNCHANGED <<requests, job, active, pending, standalone, disposal, worker, retracted, batch>>

SettledReturns(c) ==
    /\ At(c, "settled")
    /\ c \notin waiters
    /\ Return(c)
    /\ UNCHANGED <<requests, job, queues, worker, retracted, spent, batch>>

\* dispose: the flag is set and the queues read under the lock; what was read
\* is cancelled after it.
Dispose ==
    /\ disposal.state = "no"
    /\ MaxDisposals > 0
    /\ disposal' = [state |-> "cancelling",
                    turns |-> Members(pending) \cup ({active} \ {0}),
                    dropping |-> 0,
                    requests |-> Members(standalone)]
    /\ standalone' = <<>>
    /\ UNCHANGED <<requests, job, active, pending, waiters, worker, caller, retracted, spent, batch>>

\* cancel of one turn that was read; none can be claimed any more.
DisposeTurn(t) ==
    /\ disposal.dropping = 0
    /\ t \in disposal.turns
    /\ \/ /\ active = t
          /\ job' = [job EXCEPT ![t].signal = "aborted"]
          /\ disposal' = [disposal EXCEPT !.turns = @ \ {t}]
          /\ UNCHANGED pending
       \/ /\ active # t
          /\ \E i \in 1 .. Len(pending) : pending[i] = t /\ pending' = Without(pending, i)
          /\ disposal' = [disposal EXCEPT !.turns = @ \ {t}, !.dropping = t]
          /\ UNCHANGED job
       \/ /\ active # t
          /\ \A i \in 1 .. Len(pending) : pending[i] # t
          /\ disposal' = [disposal EXCEPT !.turns = @ \ {t}]
          /\ UNCHANGED <<pending, job>>
    /\ UNCHANGED <<requests, active, standalone, waiters, worker, batch, caller, retracted, spent>>

DisposeDropped ==
    /\ disposal.dropping # 0
    /\ DropTurn(disposal.dropping)
    /\ disposal' = [disposal EXCEPT !.dropping = 0]
    /\ UNCHANGED <<assignment, active, pending, standalone, worker, batch, caller, retracted, spent>>

\* The standalone requests are rejected.
DisposeEnd ==
    LET R == disposal.requests
    IN  /\ disposal.state = "cancelling"
        /\ disposal.turns = {} /\ disposal.dropping = 0
        /\ disposal' = [state |-> "done", turns |-> {}, dropping |-> 0, requests |-> {}]
        /\ request' = RequestsAborted(R)
        /\ assignment' = [r \in Requests |->
                            IF r \in R /\ assignment[r] = "open" THEN "rejected"
                            ELSE assignment[r]]
        /\ waiters' = WaitersAfter(active, pending)
        /\ UNCHANGED <<step, job, active, pending, standalone, worker, batch, caller,
                       retracted, spent>>

DisposeStep == DisposeEnd \/ DisposeDropped \/ \E t \in Turns : DisposeTurn(t)

-----------------------------------------------------------------------------
CallerStep(c) ==
    \/ EnqueueReadActive(c) \/ EnqueueNewTurn(c) \/ EnqueueJoin(c) \/ EnqueueNoTurn(c)
    \/ CallerPump(c) \/ CallerStart(c)
    \/ CancelActive(c) \/ CancelQueued(c) \/ CancelDropped(c)
    \/ SettledReturns(c)

WorkerStep(t) ==
    \/ BeginLoopStep(t) \/ TakeBatch(t) \/ SetRunning(t) \/ Materialize(t)
    \/ ExecuteStep(t) \/ AfterStep(t) \/ AfterStepStops(t) \/ AfterStepContinues(t)
    \/ AfterStepFails(t) \/ HandleLoopStepError(t) \/ Recover(t) \/ Retry(t)
    \/ ReleaseSteps(t) \/ ReleaseSlot(t) \/ WorkerPump(t) \/ WorkerStart(t) \/ SettleResult(t)

Call(c) ==
    \/ \E k \in Kinds : EnqueueRegister(c, k)
    \/ \E t \in Turns \cup {0} : Cancel(c, t)
    \/ \E r \in Requests : AbortRequest(c, r)
    \/ Settled(c)

Next ==
    \/ \E c \in Callers : Call(c) \/ CallerStep(c)
    \/ \E t \in Turns : WorkerStep(t)
    \/ Dispose
    \/ DisposeStep

Spec == Init /\ [][Next]_vars

\* Threads and tasks are scheduled; the provider, the tools and the hooks
\* answer.  Nobody need ever call.
Fairness ==
    /\ \A c \in Callers : WF_vars(CallerStep(c))
    /\ \A t \in Turns : WF_vars(WorkerStep(t))
    /\ WF_vars(DisposeStep)

FairSpec == Spec /\ Fairness

-----------------------------------------------------------------------------
(***************************************************************************)
(* Properties.                                                             *)
(***************************************************************************)
CallerPcs == {"idle", "readActive", "admit", "pump", "start", "cancelActive",
              "cancelQueued", "dropping", "settled"}

\* Where a task is while its turn holds the active slot.
Holding == {"gate", "begin", "take", "setRunning", "materialize", "execute", "after",
            "aborted", "error", "recover", "retry", "release", "panicked", "free"}

WorkerPcs == Holding \cup {"none", "pump", "start", "settle", "done"}

\* Where the variables range.
TypeOK ==
    /\ request \in [Requests -> [kind : DOMAIN Admission \cup {"none"},
                                 state : {"unused", "pending", "materialized", "aborted"}]]
    /\ assignment \in [Requests -> {"none", "open", "ok", "rejected"}]
    /\ step \in [Requests -> [turn : Turns \cup {0},
                              state : {"none", "queued", "running", "completed", "cancelled"},
                              signal : {"clear", "aborted"},
                              result : {"unset", "completed", "cancelled"}]]
    /\ job \in [Turns -> [state : {"unborn", "queued", "running"} \cup Over,
                          signal : {"clear", "aborted"}, queue : Seq(Requests),
                          steps : 0 .. MaxSteps, result : {"unset"} \cup Over]]
    /\ active \in Turns \cup {0}
    /\ pending \in Seq(Turns)
    /\ standalone \in Seq(Requests)
    /\ waiters \in SUBSET Callers
    /\ disposal \in [state : {"no", "cancelling", "done"}, turns : SUBSET Turns,
                     dropping : Turns \cup {0}, requests : SUBSET Requests]
    /\ worker \in [Turns -> [pc : WorkerPcs, outcome : {"none"} \cup Over,
                             next : Turns \cup {0}]]
    /\ batch \in [Turns -> Seq(Requests)]
    /\ caller \in [Callers -> [pc : CallerPcs, request : Requests \cup {0},
                               turn : Turns \cup {0}]]
    /\ retracted \in SUBSET Requests
    /\ spent \in [cancels : 0 .. MaxCancels, waits : 0 .. MaxWaits]

(***************************************************************************)
(* One turn at a time: the task that may take batches and append to the    *)
(* conversation is the active turn's, although a turn that ended is still  *)
(* doing its bookkeeping and its pump may race an enqueue's.               *)
(***************************************************************************)
OneTurnAtATime ==
    \A t \in Turns : worker[t].pc \in Holding <=> active = t

(***************************************************************************)
(* No turn is forgotten: when turns wait and none is active, somebody is   *)
(* on the way to pump_turns.                                               *)
(***************************************************************************)
PumpComing ==
    (pending # <<>> /\ active = 0 /\ disposal.state = "no") =>
        \/ \E c \in Callers : caller[c].pc = "pump"
        \/ \E t \in Turns : worker[t].pc = "pump"

(***************************************************************************)
(* Nobody waits for a loop that is idle: whoever removes the last turn,    *)
(* also a cancellation, wakes settled(), and a canceller that has released *)
(* the lock in between is still on its way to do so.                       *)
(***************************************************************************)
WaitersHaveCause ==
    waiters # {} =>
        \/ active # 0
        \/ pending # <<>>
        \/ \E c \in Callers : caller[c].pc = "dropping"
        \/ disposal.dropping # 0

\* A turn that enqueue pushed after dispose had read the line (see
\* CreatedTurnsSettle).
LeftBehind(t) == disposal.state # "no" /\ t \in Members(pending) \ disposal.turns

(***************************************************************************)
(* Every turn that was created gets a result, which its handle promises,   *)
(* also when it is cancelled, or the loop is disposed of, while it waits,  *)
(* starts or runs, but for one that is left behind.                        *)
(***************************************************************************)
EveryTurnSettles ==
    \A t \in Turns : job[t].state # "unborn" ~> job[t].result # "unset" \/ LeftBehind(t)

\* Every call of settled returns, unless a turn is left behind.
SettledCallsReturn ==
    \A c \in Callers :
        caller[c].pc = "settled" ~> caller[c].pc # "settled" \/ \E t \in Turns : LeftBehind(t)

(***************************************************************************)
(* loop_service.rs:124: "loop promise sender must settle before it is      *)
(* dropped": every turn that was created gets a result.  enqueue looks at  *)
(* disposing under one lock and pushes its turn under a later one.         *)
(***************************************************************************)
CreatedTurnsSettle == \A t \in Turns : job[t].state # "unborn" ~> job[t].result # "unset"

(***************************************************************************)
(* loop_service.rs:979 takes a batch from a queue that has_pending_requests*)
(* found pending: "pending loop queue must yield a batch".                 *)
(***************************************************************************)
PendingQueueYieldsBatch == \A t \in Turns : worker[t].pc # "panicked"

(***************************************************************************)
(* loop_service.rs:124: "loop promise sender must settle before it is      *)
(* dropped".  A turn's job, and with it the promises of its steps, is      *)
(* dropped after the turn's task is done.                                  *)
(***************************************************************************)
StepsSettleWithTurn ==
    \A t \in Turns : worker[t].pc = "done" =>
        \A r \in StepsOf(t) : step[r].result # "unset"

(***************************************************************************)
(* scheduler_actor.rs:1300: a cancelled launch "must retract the receipt;  *)
(* cancelling only the future could leave an orphan turn".  Once a receipt *)
(* is aborted its turn is over, cancelled, or its first step is not going  *)
(* to run.                                                                 *)
(***************************************************************************)
RetractedTurnStops ==
    \A t \in retracted :
        \/ job[t].state \in Over \cup {"unborn"}
        \/ job[t].signal = "aborted"
        \/ step[t].state \in {"completed", "cancelled"}
=============================================================================
