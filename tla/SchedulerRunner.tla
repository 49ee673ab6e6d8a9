--------------------------- MODULE SchedulerRunner ---------------------------
(***************************************************************************)
(* The prompt scheduler's runner: SchedulerController, SchedulerClient's   *)
(* send and SchedulerActor::run in agent/prompt/scheduler_actor.rs.        *)
(*                                                                         *)
(* The actor is a value.  A runner task owns it while there is work; after *)
(* an idle period the task parks it in the controller and ends, and the    *)
(* next sender starts a new task.  The handshake must not lose a message   *)
(* that is sent while the actor is being parked.                           *)
(*                                                                         *)
(* What a handler does (PromptScheduler has it) is reduced to what parking *)
(* and the callers depend on: a command may spawn a worker that reports    *)
(* with an event, or queue work for later, or abandon all work (clear),    *)
(* whose workers still report; and a call is answered by its command or by *)
(* a report.  The slots launching, active and steer_in_flight are not told *)
(* apart, so more is possible here than in the code.                       *)
(***************************************************************************)
EXTENDS Integers, Sequences, FiniteSets

CONSTANTS
    Clients,     \* tasks that call enqueue, steer, abort or clear
    Workers,     \* tasks the actor may have spawned at one time
    Capacity,    \* COMMAND_CAPACITY
    MaxPending,  \* bound: prompts queued behind the active one
    Generations  \* modulus of the generation counter (2^64 in the code)

ASSUME RunnerAssumption ==
    /\ Capacity \in Nat \ {0}
    /\ MaxPending \in Nat
    /\ Generations \in Nat \ {0}

Gens == 0 .. (Generations - 1)

VARIABLES
    runner,    \* ControllerState.runner; "restarting" is Parking{restart_requested}
    nextGen,   \* ControllerState.next_generation
    runnerTask, \* per generation: where its runner task is
    commands,  \* the bounded channel: whose command
    events,    \* the unbounded channel: whose report
    busy,      \* workers that active, launching or steer_in_flight stands for
    launching, \* those of them that launch a prompt
    owed,      \* per worker: the call its report answers, then pending_steers behind it
    backlog,   \* how many prompts are queued
    client,    \* per client: where its call is
    replied,   \* clients whose reply was sent
    report,    \* per worker: where its report is
    shutdown   \* "no", "token" (cancelled), "closed" (controller closed too)

runnerVars == <<runner, nextGen, runnerTask, commands, events, busy, launching, owed, backlog,
          client, replied, report, shutdown>>

controller == <<runner, nextGen, runnerTask>>
mailbox    == <<commands, events>>
state      == <<busy, launching, owed, backlog>>

NothingOwed == [w \in Workers |-> <<>>]

\* is_quiescent.
Quiescent == busy = {} /\ launching = {} /\ owed = NothingOwed /\ backlog = 0

Tasks == {g \in Gens : runnerTask[g] # "none"}

\* Nobody owns the actor any more: its receivers are gone.
Dropped == runner.kind = "closed" /\ Tasks = {}

RunnerInit ==
    /\ runner = [kind |-> "dormant", gen |-> 0]
    /\ nextGen = 0
    /\ runnerTask = [g \in Gens |-> "none"]
    /\ commands = <<>>
    /\ events = <<>>
    /\ busy = {}
    /\ launching = {}
    /\ owed = NothingOwed
    /\ backlog = 0
    /\ client = [c \in Clients |-> "idle"]
    /\ replied = {}
    /\ report = [w \in Workers |-> "idle"]
    /\ shutdown = "no"

-----------------------------------------------------------------------------
(***************************************************************************)
(* ensure_runner, the part under the lock.                                 *)
(***************************************************************************)
\* Mutant: a sender that meets a parking runner trusts it to look again.
EnsureRunner_NoRestart ==
    IF runner.kind = "dormant"
    THEN /\ runner' = [kind |-> "running", gen |-> nextGen]
         /\ nextGen' = (nextGen + 1) % Generations
         /\ runnerTask' = [runnerTask EXCEPT ![nextGen] = "select"]
    ELSE UNCHANGED controller

EnsureRunner ==
    \/ /\ runner.kind = "dormant"
       /\ runner' = [kind |-> "running", gen |-> nextGen]
       /\ nextGen' = (nextGen + 1) % Generations
       /\ runnerTask' = [runnerTask EXCEPT ![nextGen] = "select"]
    \/ /\ runner.kind \in {"parking", "restarting"}
       /\ runner' = [runner EXCEPT !.kind = "restarting"]
       /\ UNCHANGED <<nextGen, runnerTask>>
    \/ /\ runner.kind \in {"running", "closed"}
       /\ UNCHANGED controller

\* ensure_runner reads the token before it takes the lock, and skips the
\* locked part when it is cancelled.
AfterCheck(lock, skip) == IF shutdown = "no" THEN lock ELSE skip

(***************************************************************************)
(* SchedulerClient.send: ensure_runner, send, ensure_runner; then          *)
(* await_reply.                                                            *)
(***************************************************************************)
ClientStep(c, from, to) ==
    /\ client[c] = from
    /\ client' = [client EXCEPT ![c] = to]
    /\ UNCHANGED <<state, events, report, shutdown>>

ClientCheck1(c) ==
    /\ ClientStep(c, "idle", AfterCheck("lock1", "send"))
    /\ UNCHANGED <<controller, commands, replied>>

ClientLock1(c) ==
    /\ ClientStep(c, "lock1", "send")
    /\ EnsureRunner
    /\ UNCHANGED <<commands, replied>>

\* The select prefers the token; otherwise it waits for room.
ClientSend(c) ==
    /\ ClientStep(c, "send", "check2")
    /\ shutdown = "no"
    /\ Len(commands) < Capacity
    /\ commands' = Append(commands, c)
    /\ UNCHANGED <<controller, replied>>

ClientSendRefused(c) ==
    /\ ClientStep(c, "send", "idle")
    /\ shutdown # "no"
    /\ UNCHANGED <<controller, commands, replied>>

ClientCheck2(c) ==
    /\ ClientStep(c, "check2", AfterCheck("lock2", "await"))
    /\ UNCHANGED <<controller, commands, replied>>

ClientLock2(c) ==
    /\ ClientStep(c, "lock2", "await")
    /\ EnsureRunner
    /\ UNCHANGED <<commands, replied>>

\* await_reply: the reply, or the token (a dropped reply is seen after it).
\* An enqueue that opened the launch slot has its reply at once and then waits
\* for `launched' or `completion': here the two waits are one.
ClientDone(c) ==
    /\ ClientStep(c, "await", "idle")
    /\ c \in replied \/ shutdown # "no"
    /\ replied' = replied \ {c}
    /\ UNCHANGED <<controller, commands>>

(***************************************************************************)
(* send_scheduler_event, in a task that the actor spawned.                 *)
(***************************************************************************)
\* Mutant: the event is sent without waking the actor.
WorkerSend_NoEnsure(w) ==
    /\ report[w] = "running"
    /\ events' = IF Dropped THEN events ELSE Append(events, w)
    /\ report' = [report EXCEPT ![w] = "idle"]
    /\ UNCHANGED <<controller, commands, state, client, replied, shutdown>>

WorkerSend(w) ==
    /\ report[w] = "running"
    /\ events' = IF Dropped THEN events ELSE Append(events, w)
    /\ report' = [report EXCEPT ![w] = "check"]
    /\ UNCHANGED <<controller, commands, state, client, replied, shutdown>>

WorkerCheck(w) ==
    /\ report[w] = "check"
    /\ report' = [report EXCEPT ![w] = AfterCheck("lock", "idle")]
    /\ UNCHANGED <<controller, mailbox, state, client, replied, shutdown>>

WorkerLock(w) ==
    /\ report[w] = "lock"
    /\ EnsureRunner
    /\ report' = [report EXCEPT ![w] = "idle"]
    /\ UNCHANGED <<mailbox, state, client, replied, shutdown>>

-----------------------------------------------------------------------------
(***************************************************************************)
(* Handlers.                                                               *)
(***************************************************************************)
\* A slot for a new task: its last one ended and no report of it is left.
Spawn(w, others, unread) ==
    /\ report[w] = "idle"
    /\ w \notin others
    /\ \A i \in 1 .. Len(unread) : unread[i] # w
    /\ report' = [report EXCEPT ![w] = "running"]

\* clear_all, which drops all work and answers whoever waits for it.
ClearAll ==
    /\ busy' = {}
    /\ launching' = {}
    /\ owed' = NothingOwed
    /\ backlog' = 0

Callers(q) == {q[i] : i \in 1 .. Len(q)}

\* The answer comes with the command: clear, abort (of a pending prompt too),
\* a prompt that is queued, anything refused.
AnswerNow(c) ==
    /\ \/ ClearAll /\ replied' = replied \cup {c} \cup UNION {Callers(owed[w]) : w \in Workers}
       \/ /\ backlog' \in {backlog, backlog - 1} \cap Nat
          /\ replied' = replied \cup {c} /\ UNCHANGED <<busy, launching, owed>>
       \/ /\ busy # {} /\ backlog < MaxPending /\ backlog' = backlog + 1
          /\ replied' = replied \cup {c} /\ UNCHANGED <<busy, launching, owed>>
    /\ UNCHANGED report

\* The answer comes with a report: of the launch that the enqueue opened, of
\* the steer that took pending prompts, or of a steer in flight before it.
AnswerLater(c) ==
    /\ \/ \E w \in Workers :
            /\ Spawn(w, busy, events)
            /\ busy' = busy \cup {w} /\ owed' = [owed EXCEPT ![w] = <<c>>]
            /\ \/ launching' = launching \cup {w} /\ UNCHANGED backlog
               \/ backlog' \in 0 .. (backlog - 1) /\ UNCHANGED launching
       \/ \E w \in busy :
            /\ owed[w] # <<>> /\ owed' = [owed EXCEPT ![w] = Append(@, c)]
            /\ UNCHANGED <<busy, launching, backlog, report>>
    /\ UNCHANGED replied

HandleCommand ==
    /\ commands' = Tail(commands)
    /\ AnswerNow(Head(commands)) \/ AnswerLater(Head(commands))
    /\ UNCHANGED <<events, client>>

\* The report of w is followed by another task v, to which `rest' is owed;
\* the calls before it are answered.
Follows(w, v, rest) ==
    /\ Spawn(v, busy \ {w}, Tail(events))
    /\ busy' = (busy \ {w}) \cup {v}
    /\ owed' = [owed EXCEPT ![w] = <<>>, ![v] = rest]
    /\ replied' = replied \cup Callers(SubSeq(owed[w], 1, Len(owed[w]) - Len(rest)))

\* The launched turn is watched, the next prompt is launched (drive), or a
\* steer that waited takes its turn, those before it refused (drive_steer).
WorkFollows(w) ==
    \E v \in Workers :
        \/ /\ w \in launching /\ Follows(w, v, <<>>)
           /\ launching' = launching \ {w} /\ UNCHANGED backlog
        \/ /\ backlog > 0 /\ Follows(w, v, <<>>)
           /\ launching' = (launching \ {w}) \cup {v} /\ backlog' = backlog - 1
        \/ /\ \E n \in 2 .. Len(owed[w]) : Follows(w, v, SubSeq(owed[w], n, Len(owed[w])))
           /\ launching' = launching \ {w} /\ backlog' \in 0 .. (backlog - 1)

WorkEnds(w) ==
    /\ backlog = 0 \/ busy # {w}
    /\ busy' = busy \ {w}
    /\ launching' = launching \ {w}
    /\ replied' = replied \cup Callers(owed[w])
    /\ owed' = [owed EXCEPT ![w] = <<>>]
    /\ UNCHANGED <<report, backlog>>

\* A late report changes nothing.
HandleEvent ==
    LET w == Head(events)
    IN  /\ events' = Tail(events)
        /\ \/ w \in busy /\ (WorkFollows(w) \/ WorkEnds(w))
           \/ w \notin busy /\ UNCHANGED <<state, report, replied>>
        /\ UNCHANGED <<commands, client>>

\* shutdown_all, close_generation and the end of the task, which drops the
\* actor and with it both receivers.
Exit(g) ==
    /\ ClearAll
    /\ commands' = <<>>
    /\ events' = <<>>
    /\ runnerTask' = [runnerTask EXCEPT ![g] = "none"]
    /\ runner' = IF runner.gen = g /\ runner.kind \in {"running", "parking", "restarting"}
                 THEN [runner EXCEPT !.kind = "closed"] ELSE runner
    /\ UNCHANGED <<nextGen, client, replied, report, shutdown>>

(***************************************************************************)
(* SchedulerActor::run, the task of generation g: a select biased towards  *)
(* the token, then events, then commands, then the idle timer.             *)
(***************************************************************************)
TaskExit(g) ==
    /\ runnerTask[g] = "select"
    /\ shutdown # "no"
    /\ Exit(g)

TaskEvent(g) ==
    /\ runnerTask[g] = "select"
    /\ shutdown = "no"
    /\ events # <<>>
    /\ HandleEvent
    /\ UNCHANGED <<controller, shutdown>>

TaskCommand(g) ==
    /\ runnerTask[g] = "select"
    /\ shutdown = "no"
    /\ events = <<>>
    /\ commands # <<>>
    /\ HandleCommand
    /\ UNCHANGED <<controller, shutdown>>

\* Mutant: the idle timer is armed whatever the state holds.
TaskIdle_Unguarded(g) ==
    /\ runnerTask[g] = "select"
    /\ shutdown = "no"
    /\ events = <<>>
    /\ commands = <<>>
    /\ runnerTask' = [runnerTask EXCEPT ![g] = "begin"]
    /\ UNCHANGED <<runner, nextGen, mailbox, state, client, replied, report, shutdown>>

TaskIdle(g) ==
    /\ runnerTask[g] = "select"
    /\ shutdown = "no"
    /\ events = <<>>
    /\ commands = <<>>
    /\ Quiescent
    /\ runnerTask' = [runnerTask EXCEPT ![g] = "begin"]
    /\ UNCHANGED <<runner, nextGen, mailbox, state, client, replied, report, shutdown>>

\* begin_parking.
TaskBeginParking(g) ==
    /\ runnerTask[g] = "begin"
    /\ runner = [kind |-> "running", gen |-> g]
    /\ runner' = [kind |-> "parking", gen |-> g]
    /\ runnerTask' = [runnerTask EXCEPT ![g] = "drainEvents"]
    /\ UNCHANGED <<nextGen, mailbox, state, client, replied, report, shutdown>>

TaskBeginRefused(g) ==
    /\ runnerTask[g] = "begin"
    /\ runner # [kind |-> "running", gen |-> g]
    /\ \/ shutdown # "no" /\ Exit(g)
       \/ /\ shutdown = "no"
          /\ runnerTask' = [runnerTask EXCEPT ![g] = "select"]
          /\ UNCHANGED <<runner, nextGen, mailbox, state, client, replied, report, shutdown>>

\* Mutant: parking is abandoned without telling the controller.
CancelParking_Silent(g) == UNCHANGED runner

\* cancel_parking.
CancelParking(g) ==
    runner' = IF runner.gen = g /\ runner.kind \in {"parking", "restarting"}
              THEN [runner EXCEPT !.kind = "running"] ELSE runner

TaskDrainEvents(g) ==
    /\ runnerTask[g] = "drainEvents"
    /\ \/ /\ events # <<>>
          /\ CancelParking(g)
          /\ HandleEvent
          /\ runnerTask' = [runnerTask EXCEPT ![g] = "select"]
       \/ /\ events = <<>>
          /\ runnerTask' = [runnerTask EXCEPT ![g] = "drainCommands"]
          /\ UNCHANGED <<runner, mailbox, state, client, replied, report>>
    /\ UNCHANGED <<nextGen, shutdown>>

\* Mutant: only the internal events are drained.
TaskDrainCommands_Skipped(g) ==
    /\ runnerTask[g] = "drainCommands"
    /\ runnerTask' = [runnerTask EXCEPT ![g] = "finish"]
    /\ UNCHANGED <<runner, nextGen, mailbox, state, client, replied, report, shutdown>>

TaskDrainCommands(g) ==
    /\ runnerTask[g] = "drainCommands"
    /\ \/ /\ commands # <<>>
          /\ CancelParking(g)
          /\ HandleCommand
          /\ runnerTask' = [runnerTask EXCEPT ![g] = "select"]
       \/ /\ commands = <<>>
          /\ runnerTask' = [runnerTask EXCEPT ![g] = "finish"]
          /\ UNCHANGED <<runner, mailbox, state, client, replied, report>>
    /\ UNCHANGED <<nextGen, shutdown>>

\* finish_parking: park the actor, or keep it because somebody asked for it.
TaskFinishParking(g) ==
    /\ runnerTask[g] = "finish"
    /\ \/ /\ runner = [kind |-> "restarting", gen |-> g]
          /\ runner' = [kind |-> "running", gen |-> g]
          /\ runnerTask' = [runnerTask EXCEPT ![g] = "select"]
          /\ UNCHANGED mailbox
       \/ /\ runner = [kind |-> "parking", gen |-> g]
          /\ runner' = [kind |-> "dormant", gen |-> g]
          /\ runnerTask' = [runnerTask EXCEPT ![g] = "none"]
          /\ UNCHANGED mailbox
       \/ /\ runner.kind = "closed"
          /\ runnerTask' = [runnerTask EXCEPT ![g] = "none"]
          /\ commands' = <<>> /\ events' = <<>>
          /\ UNCHANGED runner
    /\ UNCHANGED <<nextGen, state, client, replied, report, shutdown>>

-----------------------------------------------------------------------------
(***************************************************************************)
(* begin_shutdown: cancel the token, then close the controller, which      *)
(* drops a dormant actor.                                                  *)
(***************************************************************************)
CancelToken ==
    /\ shutdown = "no"
    /\ shutdown' = "token"
    /\ UNCHANGED <<controller, mailbox, state, client, replied, report>>

\* Mutant: only a running actor is closed.
CloseController_KeepsDormant ==
    /\ shutdown = "token"
    /\ shutdown' = "closed"
    /\ runner' = IF runner.kind = "dormant" THEN runner ELSE [runner EXCEPT !.kind = "closed"]
    /\ UNCHANGED <<nextGen, runnerTask, mailbox, state, client, replied, report>>

CloseController ==
    /\ shutdown = "token"
    /\ shutdown' = "closed"
    /\ runner' = [runner EXCEPT !.kind = "closed"]
    /\ IF runner.kind = "dormant" THEN commands' = <<>> /\ events' = <<>>
                                  ELSE UNCHANGED mailbox
    /\ UNCHANGED <<nextGen, runnerTask, state, client, replied, report>>

ClientNext(c) ==
    \/ ClientLock1(c) \/ ClientSend(c) \/ ClientSendRefused(c)
    \/ ClientCheck2(c) \/ ClientLock2(c) \/ ClientDone(c)

WorkerNext(w) == WorkerSend(w) \/ WorkerCheck(w) \/ WorkerLock(w)

TaskNext(g) ==
    \/ TaskExit(g) \/ TaskEvent(g) \/ TaskCommand(g) \/ TaskIdle(g)
    \/ TaskBeginParking(g) \/ TaskBeginRefused(g)
    \/ TaskDrainEvents(g) \/ TaskDrainCommands(g) \/ TaskFinishParking(g)

RunnerNext ==
    \/ \E c \in Clients : ClientCheck1(c) \/ ClientNext(c)
    \/ \E w \in Workers : WorkerNext(w)
    \/ \E g \in Gens : TaskNext(g)
    \/ CancelToken
    \/ CloseController

RunnerSpec == RunnerInit /\ [][RunnerNext]_runnerVars

\* Calls that were made proceed, workers report, and the runner task is
\* polled; begin_shutdown, once begun, completes.  The bounded channel gives
\* its room to the senders in the order in which they asked (tokio's mpsc), so
\* one that finds room again and again gets it.
RunnerFairness ==
    /\ \A c \in Clients : WF_runnerVars(ClientNext(c))
    /\ \A w \in Workers : WF_runnerVars(WorkerNext(w))
    /\ \A g \in Gens : WF_runnerVars(TaskNext(g))
    /\ WF_runnerVars(CloseController)
    /\ \A c \in Clients : SF_runnerVars(ClientSend(c))

RunnerFairSpec == RunnerSpec /\ RunnerFairness

-----------------------------------------------------------------------------
(***************************************************************************)
(* Properties.                                                             *)
(***************************************************************************)
TaskStates == {"none", "select", "begin", "drainEvents", "drainCommands", "finish"}

\* Where the variables range.
RunnerTypeOK ==
    /\ runner \in [kind : {"dormant", "running", "parking", "restarting", "closed"},
                   gen : Gens]
    /\ nextGen \in Gens
    /\ runnerTask \in [Gens -> TaskStates]
    /\ commands \in Seq(Clients)
    /\ events \in Seq(Workers)
    /\ busy \in SUBSET Workers
    /\ launching \in SUBSET Workers
    /\ owed \in [Workers -> Seq(Clients)]
    /\ backlog \in Nat
    /\ client \in [Clients -> {"idle", "lock1", "send", "check2", "lock2", "await"}]
    /\ replied \in SUBSET Clients
    /\ report \in [Workers -> {"idle", "running", "check", "lock"}]
    /\ shutdown \in {"no", "token", "closed"}

(***************************************************************************)
(* The actor has one owner: the controller when dormant, else the one      *)
(* runner task, whose generation is the controller's until it is closed.   *)
(* Two tasks would mutate SchedulerState without a lock.                   *)
(***************************************************************************)
OneOwner ==
    /\ runner.kind = "dormant" => Tasks = {}
    /\ runner.kind \in {"running", "parking", "restarting"} => Tasks = {runner.gen}
    /\ runner.kind = "closed" => \A g, h \in Tasks : g = h
    /\ runner.kind \in {"parking", "restarting"} =>
         runnerTask[runner.gen] \in {"drainEvents", "drainCommands", "finish"}
    /\ runner.kind = "running" => runnerTask[runner.gen] \in {"select", "begin"}

\* A sender is still going to call ensure_runner after its send.
WakeUpComing ==
    \/ \E c \in Clients : client[c] \in {"check2", "lock2"}
    \/ \E w \in Workers : report[w] \in {"check", "lock"}

(***************************************************************************)
(* No wake-up is lost: while the service runs, a message is never left in  *)
(* the mailbox of an actor that is parked, or about to be with nobody      *)
(* having asked for a restart, unless its sender is yet to ask.            *)
(***************************************************************************)
NoLostWakeup ==
    shutdown = "no" =>
        /\ runner.kind = "dormant" /\ (commands # <<>> \/ events # <<>>) => WakeUpComing
        /\ runner.kind = "parking" /\ runnerTask[runner.gen] \in {"drainCommands", "finish"}
             /\ events # <<>> => WakeUpComing
        /\ runner.kind = "parking" /\ runnerTask[runner.gen] = "finish"
             /\ commands # <<>> => WakeUpComing

(***************************************************************************)
(* A parked or dropped actor has nothing to settle: "a dormant Actor is    *)
(* quiescent by construction, so dropping it here is sufficient"           *)
(* (SchedulerController::close).  A record that is dropped unsettled would *)
(* panic whoever awaits it.                                                *)
(***************************************************************************)
ParkedIsQuiescent == runner.kind = "dormant" \/ Dropped => Quiescent

\* Every call returns, from wherever it is: it gets room in the full channel,
\* and its answer comes, with its own command, with the report it waits for or
\* with the clear that drops that report; after shutdown with an error.
EveryCallReturns ==
    \A c \in Clients : client[c] # "idle" ~> client[c] = "idle"

\* A worker's report is received or, after shutdown, dropped with the actor.
EveryReportReceived ==
    events # <<>> ~> events = <<>>

\* Once shutdown begins every runner task ends, so tasks.wait() can return.
ShutdownCompletes == shutdown = "token" ~> (Dropped /\ commands = <<>>)
=============================================================================
