--------------------------- MODULE PromptScheduler ---------------------------
(***************************************************************************)
(* The prompt scheduler: agent/prompt/scheduler_actor.rs.                  *)
(*                                                                         *)
(* An actor owns the queue of prompts and handles one command (Enqueue,    *)
(* Steer, Abort, Clear) or one event at a time.  Launching a prompt,       *)
(* waiting for its turn and steering into it are done by tasks it spawns,  *)
(* which report back with events; the commands that arrive in between may  *)
(* have made the report stale.                                             *)
(*                                                                         *)
(* The agent loop, the submit hook and compaction are external: the turns  *)
(* the scheduler asked for settle with any result.  That the actor is      *)
(* awake whenever there is something to handle is SchedulerRunner's        *)
(* subject.                                                                *)
(***************************************************************************)
EXTENDS Integers, Sequences, FiniteSets

CONSTANTS
    Ids,            \* prompt ids a client may choose
    Results,        \* results a turn may settle with
    Refusals,       \* how a launch may end before it reaches the loop
    MaxPrompts,     \* bound: Enqueue commands accepted
    MaxInjects,     \* bound: turns the loop starts for other callers
    MaxSteers,      \* bound: Steer commands
    MaxClears,      \* bound: Clear commands
    MaxCompactions  \* bound: compactions

ASSUME BoundsAssumption ==
    /\ MaxPrompts \in Nat /\ MaxInjects \in Nat /\ MaxSteers \in Nat
    /\ MaxClears \in Nat /\ MaxCompactions \in Nat

ASSUME OutcomesAssumption ==
    /\ Results \subseteq {"completed", "failed", "cancelled"}
    /\ Refusals \subseteq {"failed", "blocked"}

\* Records are numbered in the order they are accepted, so that the front of
\* the pending deque is the least number in it.  0 stands for "none".
Records == 1 .. MaxPrompts
Turns   == 1 .. (MaxPrompts + MaxInjects)
Steers  == 1 .. MaxSteers

Terminal == {"completed", "failed", "cancelled", "blocked"}

VARIABLES
    prompt,     \* the PromptRecords, field by field
    sched,      \* SchedulerState
    jobs,       \* the tasks the actor spawned
    turns,      \* external: the agent loop's turns
    events,     \* the unbounded channel of SchedulerEvents
    compaction, \* external: full compaction
    phase,      \* "running", "closing" (token cancelled), "exited" (actor gone)
    used        \* how much of each bound is spent

vars == <<prompt, sched, jobs, turns, events, compaction, phase, used>>

\* What the handlers of the actor read and change, as one value, so that they
\* compose the way the code's calls do.
Actor == [prompt |-> prompt, sched |-> sched, jobs |-> jobs, turns |-> turns]

Commit(a) ==
    /\ prompt' = a.prompt
    /\ sched' = a.sched
    /\ jobs' = a.jobs
    /\ turns' = a.turns

NoOperation == [id |-> 0, activeId |-> "none", selected |-> {}]
NoJob == [pc |-> "none", turn |-> 0, outcome |-> "none"]

Init ==
    /\ prompt = [state      |-> [r \in Records |-> "unused"],
                 id         |-> [r \in Records |-> "none"],
                 cancelled  |-> {},  \* records whose token is cancelled
                 launched   |-> {},  \* records whose launched future is resolved
                 completion |-> [r \in Records |-> "unset"],
                 published  |-> [r \in Records |-> 0]]  \* terminal events published
    /\ sched = [active |-> 0, turn |-> 0, pending |-> {}, launching |-> 0,
                steered |-> [i \in Ids |-> {}], steerInFlight |-> NoOperation,
                pendingSteers |-> <<>>, nextOperation |-> 1]
    /\ jobs = [launch  |-> [r \in Records |-> NoJob],
               monitor |-> [r \in Records |-> 0],
               steer   |-> [k \in Steers |-> NoJob],
               steerCancelled |-> {}]  \* operations whose token is cancelled
    /\ turns = [state |-> [t \in Turns |-> "unborn"], cancelled |-> {}, next |-> 1]
    /\ events = <<>>
    /\ compaction = "idle"
    /\ phase = "running"
    /\ used = [prompts |-> 0, injects |-> 0, steers |-> 0, clears |-> 0, compactions |-> 0]

-----------------------------------------------------------------------------
(***************************************************************************)
(* Helpers of the handlers.                                                *)
(***************************************************************************)
Front(S) == CHOOSE n \in S : \A m \in S : n <= m

\* Every record's token is a child of the shutdown token.
TokenCancelled(r) == r \in prompt.cancelled \/ phase # "running"
OperationCancelled(k) == k \in jobs.steerCancelled \/ phase # "running"

\* set_terminal_state succeeds for these.
Unsettled(a, R) == {r \in R : a.prompt.state[r] \notin Terminal}

\* set_terminal_state, the completion and the terminal event.
Conclude(a, R, state) ==
    LET fresh == Unsettled(a, R)
    IN  [a EXCEPT
           !.prompt.state = [r \in Records |-> IF r \in fresh THEN state ELSE @[r]],
           !.prompt.completion = [r \in Records |-> IF r \in fresh THEN state ELSE @[r]],
           !.prompt.published = [r \in Records |-> IF r \in fresh THEN @[r] + 1 ELSE @[r]]]

\* settle_record, cancel_record, fail_record.
Settle(a, R, state) ==
    [Conclude(a, R, state) EXCEPT !.prompt.launched = @ \cup Unsettled(a, R)]

\* loop_service.cancel(turn): ignored by the loop when the turn is over.
CancelTurn(a, t) ==
    [a EXCEPT !.turns.cancelled =
        @ \cup {u \in {t} : u \in Turns /\ a.turns.state[u] = "live"}]

LoopRunning(a) == \E t \in Turns : a.turns.state[t] = "live"
LoopHead(a) == Front({t \in Turns : a.turns.state[t] = "live"})

\* Mutant: the prompt in the launch slot is forgotten.
LiveRecords_NoLaunching(s) ==
    (({s.active} \ {0}) \cup s.pending \cup s.steerInFlight.selected)
        \cup UNION {s.steered[i] : i \in Ids}

\* contains_prompt_id.
LiveRecords(s) ==
    (({s.active, s.launching} \ {0}) \cup s.pending \cup s.steerInFlight.selected)
        \cup UNION {s.steered[i] : i \in Ids}

-----------------------------------------------------------------------------
(***************************************************************************)
(* drive: open the launch slot for the front of the queue, unless a prompt *)
(* is active or launching, or a compaction runs while the loop is idle.    *)
(***************************************************************************)
DriveReady(a) ==
    /\ a.sched.active = 0
    /\ a.sched.launching = 0
    /\ ~(compaction = "running" /\ ~LoopRunning(a))
    /\ a.sched.pending # {}

Drive(a) ==
    LET r == Front(a.sched.pending)
    IN  IF ~DriveReady(a) THEN a
        ELSE [a EXCEPT !.sched.pending = @ \ {r},
                       !.sched.launching = r,
                       !.jobs.launch[r] = [NoJob EXCEPT !.pc = "hook"]]

\* reserve_steer succeeds: every wanted id is pending and there is an active prompt.
Wanted(a, ids) == {r \in a.sched.pending : a.prompt.id[r] \in ids}

Reservable(a, ids) ==
    /\ ids # {}
    /\ a.sched.active # 0
    /\ Cardinality(Wanted(a, ids)) = Cardinality(ids)

(***************************************************************************)
(* drive_steer: one operation in flight; requests that cannot be reserved  *)
(* are answered with an error until one can.                               *)
(***************************************************************************)
DriveSteer(a) ==
    LET queue == a.sched.pendingSteers
        ok == {i \in DOMAIN queue : Reservable(a, queue[i])}
        i == Front(ok)
        k == a.sched.nextOperation
    IN  IF a.sched.steerInFlight.id # 0 THEN a
        ELSE IF ok = {} THEN [a EXCEPT !.sched.pendingSteers = <<>>]
        ELSE [a EXCEPT
                !.sched.pendingSteers = SubSeq(@, i + 1, Len(@)),
                !.sched.pending = @ \ Wanted(a, queue[i]),
                !.sched.steerInFlight =
                    [id |-> k, activeId |-> a.prompt.id[a.sched.active],
                     selected |-> Wanted(a, queue[i])],
                !.sched.nextOperation = @ + 1,
                !.jobs.steer[k] = [NoJob EXCEPT !.pc = "start"]]

-----------------------------------------------------------------------------
(***************************************************************************)
(* Commands.                                                               *)
(***************************************************************************)
\* A command is received when no event is waiting (the select is biased).
Receiving == phase = "running" /\ events = <<>>

Enqueue(id) ==
    LET r == used.prompts + 1
        accepted == [Actor EXCEPT !.prompt.state[r] = "pending",
                                  !.prompt.id[r] = id,
                                  !.sched.pending = @ \cup {r}]
    IN  /\ Receiving
        /\ used.prompts < MaxPrompts
        /\ \A q \in LiveRecords(sched) : prompt.id[q] # id
        /\ Commit(Drive(accepted))
        /\ used' = [used EXCEPT !.prompts = @ + 1]
        /\ UNCHANGED <<events, compaction, phase>>

Steer(ids) ==
    LET asked == [Actor EXCEPT !.sched.pendingSteers = Append(@, ids)]
    IN  /\ Receiving
        /\ used.steers < MaxSteers
        /\ Commit(Drive(DriveSteer(asked)))
        /\ used' = [used EXCEPT !.steers = @ + 1]
        /\ UNCHANGED <<events, compaction, phase>>

\* abort_prompt: where the prompt is decides what aborting it means.
AbortActive(a) ==
    CancelTurn([a EXCEPT !.prompt.cancelled = @ \cup {a.sched.active}], a.sched.turn)

AbortLaunching(a) ==
    [a EXCEPT !.prompt.cancelled = @ \cup {a.sched.launching}]

\* Mutant: the settled prompt stays in the queue.
AbortPending_StillQueued(a, r) ==
    Settle([a EXCEPT !.prompt.cancelled = @ \cup {r}], {r}, "cancelled")

AbortPending(a, r) ==
    Settle([a EXCEPT !.sched.pending = @ \ {r}, !.prompt.cancelled = @ \cup {r}],
           {r}, "cancelled")

AbortSteerInFlight(a) ==
    [a EXCEPT !.jobs.steerCancelled = @ \cup {a.sched.steerInFlight.id}]

AbortPrompt(a, id) ==
    LET s == a.sched
        named(R) == {r \in R : a.prompt.id[r] = id}
    IN  CASE named({s.active} \ {0}) # {}    -> AbortActive(a)
          [] named({s.active} \ {0}) = {} /\ named({s.launching} \ {0}) # {}
                                             -> AbortLaunching(a)
          [] named({s.active, s.launching} \ {0}) = {} /\ named(s.pending) # {}
                                             -> AbortPending(a, Front(named(s.pending)))
          [] /\ named(({s.active, s.launching} \ {0}) \cup s.pending) = {}
             /\ named(s.steerInFlight.selected) # {}
                                             -> AbortSteerInFlight(a)
          [] OTHER                           -> a

Abort(id) ==
    /\ Receiving
    /\ Commit(Drive(AbortPrompt(Actor, id)))
    /\ UNCHANGED <<events, compaction, phase, used>>

\* clear_all: every owned record is cancelled, every slot emptied.
ClearAll(a) ==
    LET s == a.sched
        all == LiveRecords(s)
        emptied == [a EXCEPT
            !.sched = [s EXCEPT !.active = 0, !.turn = 0, !.pending = {}, !.launching = 0,
                                !.steered = [i \in Ids |-> {}],
                                !.steerInFlight = NoOperation,
                                !.pendingSteers = <<>>],
            !.prompt.cancelled = @ \cup all,
            !.jobs.steerCancelled = @ \cup ({s.steerInFlight.id} \ {0})]
    IN  Settle(CancelTurn(emptied, s.turn), all, "cancelled")

Clear ==
    /\ Receiving
    /\ used.clears < MaxClears
    /\ Commit(ClearAll(Actor))
    /\ used' = [used EXCEPT !.clears = @ + 1]
    /\ UNCHANGED <<events, compaction, phase>>

-----------------------------------------------------------------------------
(***************************************************************************)
(* Events.                                                                 *)
(***************************************************************************)
\* Mutant: a late report is dropped with its turn.
FinishLaunch_DropsStale(a, r, outcome, t) ==
    CASE a.sched.launching # r -> a
      [] a.sched.launching = r /\ outcome = "started" /\ ~TokenCancelled(r) ->
           [a EXCEPT !.sched.launching = 0, !.prompt.state[r] = "running",
                     !.prompt.launched = @ \cup {r}, !.sched.active = r, !.sched.turn = t,
                     !.jobs.monitor[r] = t]
      [] OTHER -> Settle([a EXCEPT !.sched.launching = 0], {r}, "cancelled")

\* Mutant: a late report cancels the active turn instead of its own.
FinishLaunch_CancelsActive(a, r, outcome, t) ==
    CASE a.sched.launching # r -> CancelTurn(a, a.sched.turn)
      [] a.sched.launching = r /\ outcome = "started" /\ ~TokenCancelled(r) ->
           [a EXCEPT !.sched.launching = 0, !.prompt.state[r] = "running",
                     !.prompt.launched = @ \cup {r}, !.sched.active = r, !.sched.turn = t,
                     !.jobs.monitor[r] = t]
      [] OTHER -> Settle([a EXCEPT !.sched.launching = 0], {r}, "cancelled")

FinishLaunch(a, r, outcome, t) ==
    LET stale == a.sched.launching # r
        started == outcome = "started"
        freed == [a EXCEPT !.sched.launching = 0]
    IN  CASE stale /\ started -> CancelTurn(a, t)
          [] stale /\ ~started -> a
          [] ~stale /\ TokenCancelled(r) ->
               Settle(IF started THEN CancelTurn(freed, t) ELSE freed, {r}, "cancelled")
          [] ~stale /\ ~TokenCancelled(r) /\ started ->
               [freed EXCEPT !.prompt.state[r] = "running",
                             !.prompt.launched = @ \cup {r},
                             !.sched.active = r,
                             !.sched.turn = t,
                             !.jobs.monitor[r] = t]
          [] ~stale /\ ~TokenCancelled(r) /\ ~started -> Settle(freed, {r}, outcome)

\* Mutant: the children are not settled with their parent.
FinishTurn_ForgetsChildren(a, r, result) ==
    IF a.sched.active # r THEN a
    ELSE Conclude([a EXCEPT !.sched.active = 0, !.sched.turn = 0], {r}, result)

\* finish_turn: the children share the result; the active prompt's own
\* terminal event is published whether or not it was settled before.
FinishTurn(a, r, result) ==
    LET id == a.prompt.id[r]
        freed == [a EXCEPT !.sched.active = 0, !.sched.turn = 0,
                           !.sched.steered[id] = {}]
        done == Conclude(freed, {r} \cup a.sched.steered[id], result)
    IN  IF a.sched.active # r THEN a
        ELSE [done EXCEPT !.prompt.published[r] =
                 IF Unsettled(a, {r}) = {} THEN @ + 1 ELSE @]

\* Mutant: an assigned step is filed without looking at the active prompt.
FinishSteer_NoMatch(a, k, outcome, t) ==
    LET op == a.sched.steerInFlight
        freed == [a EXCEPT !.sched.steerInFlight = NoOperation]
    IN  IF op.id # k THEN a
        ELSE IF outcome = "assigned" /\ ~OperationCancelled(k)
        THEN [freed EXCEPT
                !.prompt.state = [r \in Records |->
                                    IF r \in op.selected THEN "steered" ELSE @[r]],
                !.prompt.launched = @ \cup op.selected,
                !.sched.steered[op.activeId] = @ \cup op.selected]
        ELSE Settle(freed, op.selected, "failed")

FinishSteer(a, k, outcome, t) ==
    LET s == a.sched
        op == s.steerInFlight
        freed == [a EXCEPT !.sched.steerInFlight = NoOperation]
        assigned == outcome = "assigned"
        matches == /\ s.active # 0
                   /\ a.prompt.id[s.active] = op.activeId
                   /\ s.turn = t
    IN  CASE op.id # k -> a
          [] op.id = k /\ OperationCancelled(k) ->
               Settle(IF assigned THEN CancelTurn(freed, t) ELSE freed, op.selected,
                      "cancelled")
          [] op.id = k /\ ~OperationCancelled(k) /\ assigned /\ matches ->
               [freed EXCEPT
                  !.prompt.state = [r \in Records |->
                                      IF r \in op.selected THEN "steered" ELSE @[r]],
                  !.prompt.launched = @ \cup op.selected,
                  !.sched.steered[op.activeId] = @ \cup op.selected]
          [] op.id = k /\ ~OperationCancelled(k) /\ outcome = "cancelled" ->
               Settle(freed, op.selected, "cancelled")
          [] op.id = k /\ ~OperationCancelled(k) /\ outcome # "cancelled"
                /\ ~(assigned /\ matches) ->
               Settle(freed, op.selected, "failed")

Finish(a, e) ==
    CASE e.kind = "launch"     -> FinishLaunch(a, e.key, e.outcome, e.turn)
      [] e.kind = "turn"       -> FinishTurn(a, e.key, e.outcome)
      [] e.kind = "steer"      -> FinishSteer(a, e.key, e.outcome, e.turn)
      [] e.kind = "compaction" -> a

\* Mutant: the queue is not driven after an event.
HandleEvent_NoDrive ==
    /\ phase = "running"
    /\ events # <<>>
    /\ Commit(DriveSteer(Finish(Actor, Head(events))))
    /\ events' = Tail(events)
    /\ UNCHANGED <<compaction, phase, used>>

HandleEvent ==
    /\ phase = "running"
    /\ events # <<>>
    /\ Commit(Drive(DriveSteer(Finish(Actor, Head(events)))))
    /\ events' = Tail(events)
    /\ UNCHANGED <<compaction, phase, used>>

\* begin_shutdown, and the actor's reaction to the token: shutdown_all.
BeginShutdown ==
    /\ phase = "running"
    /\ phase' = "closing"
    /\ UNCHANGED <<prompt, sched, jobs, turns, events, compaction, used>>

ActorExit ==
    /\ phase = "closing"
    /\ Commit(ClearAll(Actor))
    /\ phase' = "exited"
    /\ events' = <<>>
    /\ UNCHANGED <<compaction, used>>

-----------------------------------------------------------------------------
(***************************************************************************)
(* The spawned tasks.  A result is decided in one step and sent in         *)
(* another: commands may be handled in between.                            *)
(***************************************************************************)
\* send_scheduler_event: nobody receives once the actor is gone.
SendEvent(kind, key, outcome, t) ==
    events' = IF phase = "exited" THEN events
              ELSE Append(events, [kind |-> kind, key |-> key, outcome |-> outcome,
                                   turn |-> t])

DecideLaunch(r, outcome) ==
    jobs' = [jobs EXCEPT !.launch[r].pc = "send", !.launch[r].outcome = outcome]

\* launch_job up to the loop's enqueue: cancelled, failed or blocked.
LaunchEndsEarly(r, outcome) ==
    /\ jobs.launch[r].pc = "hook"
    /\ TokenCancelled(r) <=> outcome = "cancelled"
    /\ DecideLaunch(r, outcome)
    /\ UNCHANGED <<prompt, sched, turns, events, compaction, phase, used>>

\* The hook lets the prompt pass and the loop creates a turn for it.
LaunchEnqueues(r) ==
    /\ jobs.launch[r].pc = "hook"
    /\ ~TokenCancelled(r)
    /\ turns.next \in Turns
    /\ jobs' = [jobs EXCEPT !.launch[r].pc = "assigned", !.launch[r].turn = turns.next]
    /\ turns' = [turns EXCEPT !.state[turns.next] = "live", !.next = @ + 1]
    /\ UNCHANGED <<prompt, sched, events, compaction, phase, used>>

\* The second select: a cancelled token retracts the receipt.
LaunchAssigned(r) ==
    LET outcome == IF TokenCancelled(r) THEN "cancelled" ELSE "started"
    IN  /\ jobs.launch[r].pc = "assigned"
        /\ DecideLaunch(r, outcome)
        /\ turns' = IF outcome = "cancelled"
                    THEN CancelTurn(Actor, jobs.launch[r].turn).turns ELSE turns
        /\ UNCHANGED <<prompt, sched, events, compaction, phase, used>>

LaunchSends(r) ==
    LET job == jobs.launch[r]
    IN  /\ job.pc = "send"
        /\ jobs' = [jobs EXCEPT !.launch[r].pc = "done", !.launch[r].outcome = "none"]
        /\ SendEvent("launch", r, job.outcome, job.turn)
        /\ UNCHANGED <<prompt, sched, turns, compaction, phase, used>>

\* The monitor that finish_launch spawns.
MonitorSends(r) ==
    LET t == jobs.monitor[r]
    IN  /\ t # 0
        /\ turns.state[t] # "live"
        /\ jobs' = [jobs EXCEPT !.monitor[r] = 0]
        /\ SendEvent("turn", r, turns.state[t], t)
        /\ UNCHANGED <<prompt, sched, turns, compaction, phase, used>>

\* steer_job: the loop admits the step to the turn it is running, whichever
\* that is, or refuses.
SteerEnqueues(k) ==
    /\ jobs.steer[k].pc = "start"
    /\ jobs' = [jobs EXCEPT !.steer[k] =
                  IF LoopRunning(Actor)
                  THEN [pc |-> "assigned", turn |-> LoopHead(Actor), outcome |-> "none"]
                  ELSE [pc |-> "send", turn |-> 0, outcome |-> "failed"]]
    /\ UNCHANGED <<prompt, sched, turns, events, compaction, phase, used>>

SteerAssigned(k) ==
    /\ jobs.steer[k].pc = "assigned"
    /\ jobs' = [jobs EXCEPT !.steer[k].pc = "send",
                            !.steer[k].outcome =
                                IF OperationCancelled(k) THEN "cancelled" ELSE "assigned"]
    /\ UNCHANGED <<prompt, sched, turns, events, compaction, phase, used>>

SteerSends(k) ==
    LET job == jobs.steer[k]
    IN  /\ job.pc = "send"
        /\ jobs' = [jobs EXCEPT !.steer[k].pc = "done", !.steer[k].outcome = "none"]
        /\ SendEvent("steer", k, job.outcome, job.turn)
        /\ UNCHANGED <<prompt, sched, turns, compaction, phase, used>>

-----------------------------------------------------------------------------
(***************************************************************************)
(* The environment: the agent loop runs its turns in order, other callers  *)
(* start turns of their own (inject, retry), a compaction comes and goes.  *)
(***************************************************************************)
SettleTurn(t, result) ==
    /\ turns.state[t] = "live"
    /\ \/ t = LoopHead(Actor) /\ result \in Results
       \/ t \in turns.cancelled /\ result = "cancelled"
    /\ turns' = [turns EXCEPT !.state[t] = result]
    /\ UNCHANGED <<prompt, sched, jobs, events, compaction, phase, used>>

InjectTurn ==
    /\ phase = "running"
    /\ used.injects < MaxInjects
    /\ turns' = [turns EXCEPT !.state[turns.next] = "live", !.next = @ + 1]
    /\ used' = [used EXCEPT !.injects = @ + 1]
    /\ UNCHANGED <<prompt, sched, jobs, events, compaction, phase>>

BeginCompaction ==
    /\ compaction = "idle"
    /\ phase = "running"
    /\ used.compactions < MaxCompactions
    /\ compaction' = "running"
    /\ used' = [used EXCEPT !.compactions = @ + 1]
    /\ UNCHANGED <<prompt, sched, jobs, turns, events, phase>>

\* The service clears its state, then fires on_did_finish_compaction.
EndCompaction ==
    /\ compaction = "running"
    /\ compaction' = "ended"
    /\ UNCHANGED <<prompt, sched, jobs, turns, events, phase, used>>

NotifyCompaction ==
    /\ compaction = "ended"
    /\ compaction' = "idle"
    /\ SendEvent("compaction", 0, "none", 0)
    /\ UNCHANGED <<prompt, sched, jobs, turns, phase, used>>

-----------------------------------------------------------------------------
LaunchStep(r) ==
    \/ \E outcome \in Refusals \cup {"cancelled"} : LaunchEndsEarly(r, outcome)
    \/ LaunchEnqueues(r)
    \/ LaunchAssigned(r)
    \/ LaunchSends(r)

SteerStep(k) == SteerEnqueues(k) \/ SteerAssigned(k) \/ SteerSends(k)

Next ==
    \/ \E id \in Ids : Enqueue(id) \/ Abort(id)
    \/ \E ids \in SUBSET Ids : Steer(ids)
    \/ Clear
    \/ HandleEvent
    \/ BeginShutdown
    \/ ActorExit
    \/ \E r \in Records : LaunchStep(r) \/ MonitorSends(r)
    \/ \E k \in Steers : SteerStep(k)
    \/ \E t \in Turns, result \in Results \cup {"cancelled"} : SettleTurn(t, result)
    \/ InjectTurn
    \/ BeginCompaction \/ EndCompaction \/ NotifyCompaction

Spec == Init /\ [][Next]_vars

\* The tasks are polled by the runtime, hooks return, turns end and
\* compactions finish; commands come or do not.
Fairness ==
    /\ WF_vars(HandleEvent)
    /\ WF_vars(ActorExit)
    /\ \A r \in Records : WF_vars(LaunchStep(r)) /\ WF_vars(MonitorSends(r))
    /\ \A k \in Steers : WF_vars(SteerStep(k))
    /\ WF_vars(\E t \in Turns, result \in Results \cup {"cancelled"} : SettleTurn(t, result))
    /\ WF_vars(EndCompaction \/ NotifyCompaction)

FairSpec == Spec /\ Fairness

-----------------------------------------------------------------------------
(***************************************************************************)
(* Properties.                                                             *)
(***************************************************************************)
States == {"unused", "pending", "running", "steered"} \cup Terminal

\* Where the parts of the state range.
TypeOK ==
    /\ prompt.state \in [Records -> States]
    /\ prompt.id \in [Records -> Ids \cup {"none"}]
    /\ prompt.cancelled \in SUBSET Records
    /\ prompt.launched \in SUBSET Records
    /\ prompt.completion \in [Records -> Terminal \cup {"unset"}]
    /\ prompt.published \in [Records -> Nat]
    /\ sched.active \in Records \cup {0}
    /\ sched.turn \in Turns \cup {0}
    /\ (sched.active = 0) <=> (sched.turn = 0)
    /\ sched.pending \in SUBSET Records
    /\ sched.launching \in Records \cup {0}
    /\ sched.steered \in [Ids -> SUBSET Records]
    /\ sched.steerInFlight \in [id : Steers \cup {0}, activeId : Ids \cup {"none"},
                                selected : SUBSET Records]
    /\ turns.state \in [Turns -> {"unborn", "live", "completed", "failed", "cancelled"}]
    /\ turns.cancelled \in SUBSET Turns

\* A record sits in at most one place of SchedulerState.
SlotsDisjoint ==
    LET s == sched
    IN  /\ s.active # 0 => s.active # s.launching
        /\ {s.active, s.launching} \cap (s.pending \cup s.steerInFlight.selected) = {}
        /\ s.pending \cap s.steerInFlight.selected = {}
        /\ \A i \in Ids : s.steered[i] \cap
              ({s.active, s.launching} \cup s.pending \cup s.steerInFlight.selected) = {}
        /\ \A i, j \in Ids : i # j => s.steered[i] \cap s.steered[j] = {}

(***************************************************************************)
(* No prompt is lost and none is settled while it is still queued: an      *)
(* accepted prompt is unsettled exactly while one slot of the scheduler    *)
(* holds it, in the state that the slot stands for.                        *)
(***************************************************************************)
OwnedUntilSettled ==
    LET s == sched
        st == prompt.state
    IN  /\ SlotsDisjoint
        /\ \A r \in Records :
             st[r] \in {"pending", "running", "steered"} <=> r \in LiveRecords(s)
        /\ \A r \in Records : st[r] = "running" <=> r = s.active
        /\ \A r \in Records : st[r] = "steered" <=> \E i \in Ids : r \in s.steered[i]

\* Two prompts that are alive never answer to the same id, so an abort or a
\* steer names one prompt; ids are reusable once their prompt is settled.
LiveIdsUnique ==
    \A q, r \in Records :
        /\ prompt.state[q] \in {"pending", "running", "steered"}
        /\ prompt.state[r] \in {"pending", "running", "steered"}
        /\ prompt.id[q] = prompt.id[r]
        => q = r

\* Children are filed under the prompt that is active: they are settled when
\* it is, and an empty scheduler is quiescent and can park.
ChildrenHaveActiveParent ==
    \A i \in Ids : sched.steered[i] # {} =>
        sched.active # 0 /\ prompt.id[sched.active] = i

EventsOfTurn(t) ==
    {i \in 1 .. Len(events) : events[i].kind = "launch" /\ events[i].outcome = "started"
                              /\ events[i].turn = t}

(***************************************************************************)
(* No orphan turn: while the actor lives, a turn that a launch created is  *)
(* the active one, or over, or being cancelled, or the report of its       *)
(* launch is still to come.  This is what the stale-report branch of       *)
(* finish_launch and the receipt's abort in launch_job are for.            *)
(***************************************************************************)
NoOrphanTurn ==
    \A r \in Records :
        LET job == jobs.launch[r]
        IN  (job.turn # 0 /\ phase # "exited") =>
               \/ turns.state[job.turn] # "live"
               \/ job.turn \in turns.cancelled
               \/ sched.turn = job.turn
               \/ job.pc \in {"assigned", "send"}
               \/ EventsOfTurn(job.turn) # {}

(***************************************************************************)
(* The scheduler cancels a turn only for a reason: the prompt that it runs *)
(* was aborted or cleared, or a steer operation assigned to it was.        *)
(***************************************************************************)
CancelsHaveCause ==
    \A t \in turns.cancelled :
        \/ \E r \in Records : jobs.launch[r].turn = t /\ TokenCancelled(r)
        \/ \E k \in Steers : jobs.steer[k].turn = t /\ OperationCancelled(k)

\* The scheduler shows the life of each prompt that PromptLifecycle promises.
Lifecycle == INSTANCE PromptLifecycle WITH state <- prompt.state

ImplementsLifecycle == Lifecycle!LifeSpec

\* Every accepted prompt is settled: hooks return, turns end and compactions
\* finish, but no command need ever come.
EveryPromptSettles ==
    \A r \in Records : prompt.state[r] = "pending" ~> prompt.state[r] \in Terminal

(***************************************************************************)
(* scheduler_actor.rs:610 has the channel of events unbounded "because at  *)
(* most one launch, one active monitor and one serial steer operation can  *)
(* produce events".  Clear empties the slots without waiting for their     *)
(* tasks, so a second one may be launched beside the first.                *)
(***************************************************************************)
OneTaskOfEachKind ==
    /\ Cardinality({r \in Records : jobs.launch[r].pc \notin {"none", "done"}}) <= 1
    /\ Cardinality({r \in Records : jobs.monitor[r] # 0}) <= 1
    /\ Cardinality({k \in Steers : jobs.steer[k].pc \notin {"none", "done"}}) <= 1
=============================================================================
