------------------------ MODULE PromptScheduler_proofs -----------------------
(***************************************************************************)
(* Proofs about the prompt scheduler, for any ids, any bounds and any      *)
(* results and refusals.                                                   *)
(*                                                                         *)
(* A handler of the actor is a function from an actor to an actor, so what *)
(* it does to each field, and that it keeps the invariant, are lemmas      *)
(* about any actor; a step commits a composition of handlers.              *)
(***************************************************************************)
EXTENDS PromptScheduler, SequenceTheorems, WellFoundedInduction, TLAPS

-----------------------------------------------------------------------------
(***************************************************************************)
(* Types of the parts of the state.                                        *)
(***************************************************************************)
Outcomes == {"none", "started", "assigned", "cancelled", "failed", "blocked"}
PromptType ==
    [state : [Records -> States], id : [Records -> Ids \cup {"none"}],
     cancelled : SUBSET Records, launched : SUBSET Records,
     completion : [Records -> Terminal \cup {"unset"}], published : [Records -> Nat]]
OperationType == [id : Nat, activeId : Ids \cup {"none"}, selected : SUBSET Records]
SchedType ==
    [active : Records \cup {0}, turn : Turns \cup {0}, pending : SUBSET Records,
     launching : Records \cup {0}, steered : [Ids -> SUBSET Records],
     steerInFlight : OperationType, pendingSteers : Seq(SUBSET Ids), nextOperation : Nat \ {0}]
JobType ==
    [pc : {"none", "hook", "start", "assigned", "send", "done"}, turn : Turns \cup {0},
     outcome : Outcomes]
JobsType ==
    [launch : [Records -> JobType], monitor : [Records -> Turns \cup {0}],
     steer : [Steers -> JobType], steerCancelled : SUBSET Nat]
TurnStates == {"unborn", "live", "completed", "failed", "cancelled"}
TurnsType == [state : [Turns -> TurnStates], cancelled : SUBSET Turns, next : Nat \ {0}]
ActorType == [prompt : PromptType, sched : SchedType, jobs : JobsType, turns : TurnsType]
EventType ==
    [kind : {"launch", "turn", "steer", "compaction"}, key : Nat,
     outcome : Outcomes \cup TurnStates, turn : Turns \cup {0}]

Phases == {"running", "closing", "exited"}
UsedType ==
    [prompts : 0 .. MaxPrompts, injects : Nat, steers : Nat, clears : Nat, compactions : Nat]

SchedulerTypes ==
    /\ Actor \in ActorType
    /\ events \in Seq(EventType)
    /\ phase \in Phases
    /\ used \in UsedType

(***************************************************************************)
(* Which slot holds a prompt.                                              *)
(***************************************************************************)
Alive == {"pending", "running", "steered"}

Placed(a) ==
    LET s == a.sched
        state == a.prompt.state
    IN  /\ s.active = 0 \/ s.launching = 0
        /\ \A r \in Records : state[r] = "running" <=> r = s.active
        /\ \A r \in Records : state[r] = "steered" <=> \E i \in Ids : r \in s.steered[i]
        /\ \A r \in Records : state[r] = "pending" <=>
              r = s.launching \/ r \in s.pending \/ r \in s.steerInFlight.selected
        /\ s.launching \notin s.pending \cup s.steerInFlight.selected
        /\ s.pending \cap s.steerInFlight.selected = {}
        /\ s.steerInFlight.id = 0 => s.steerInFlight.selected = {}

Named(a) ==
    LET s == a.sched
        p == a.prompt
    IN  /\ \A r \in Records : p.state[r] \in Alive => p.id[r] \in Ids
        /\ \A q, r \in Records :
              p.state[q] \in Alive /\ p.state[r] \in Alive /\ p.id[q] = p.id[r] => q = r
        /\ \A i \in Ids : s.steered[i] # {} => s.active # 0 /\ p.id[s.active] = i

\* The records that Enqueue has not given out yet.
Unused == \A r \in Records : prompt.state[r] = "unused" <=> r > used.prompts

\* Turns the scheduler knows of have been started.
Born(a, t) == t = 0 \/ a.turns.state[t] # "unborn"
TurnsBorn(a) ==
    \A r \in Records : Born(a, a.jobs.launch[r].turn) /\ Born(a, a.jobs.monitor[r])

LaunchOutcomes == {"started", "cancelled", "failed", "blocked"}

JobsReport(a) ==
    \A r \in Records : a.jobs.launch[r].pc = "send" => a.jobs.launch[r].outcome \in LaunchOutcomes

Reports(a, e) ==
    /\ e.kind = "launch" => e.key \in Records /\ e.outcome \in LaunchOutcomes /\ Born(a, e.turn)
    /\ e.kind = "turn" => e.key \in Records /\ e.outcome \in {"completed", "failed", "cancelled"}
    /\ e.kind = "steer" => e.key \in Steers
EventsReport == \A i \in 1 .. Len(events) : Reports(Actor, events[i])

PromptInv ==
    /\ SchedulerTypes
    /\ Placed(Actor) /\ Named(Actor) /\ Unused
    /\ TurnsBorn(Actor) /\ JobsReport(Actor) /\ EventsReport

(***************************************************************************)
(* Which turn a launch, a monitor or an event is about.                    *)
(***************************************************************************)
\* What happened to the turn of a launch that was not reported as started.
Dropped(a, t) == t # 0 => a.turns.state[t] # "live" \/ t \in a.turns.cancelled

JobsTurns(a) ==
    LET launch == a.jobs.launch
        s == a.sched
    IN  /\ \A r \in Records : a.prompt.state[r] = "unused" \/ r \in s.pending => launch[r] = NoJob
        /\ \A r \in Records : launch[r].pc \in {"none", "hook"} => launch[r].turn = 0
        /\ \A r \in Records : launch[r].turn < a.turns.next
        /\ \A r \in Records : launch[r].pc = "send" /\ launch[r].outcome # "started" => Dropped(a, launch[r].turn)
        /\ s.active = 0 => s.turn = 0
        /\ s.active # 0 => s.turn = launch[s.active].turn
        /\ \A r \in Records : a.jobs.monitor[r] # 0 => a.jobs.monitor[r] = launch[r].turn
        /\ \A k \in Steers : a.jobs.steer[k].pc \in {"none", "start"} => a.jobs.steer[k].turn = 0
        /\ \A k \in Steers : k >= s.nextOperation => a.jobs.steer[k] = NoJob

EventTurns(a, e) ==
    /\ e.kind = "launch" => /\ e.turn = a.jobs.launch[e.key].turn
                            /\ a.jobs.launch[e.key].pc = "done"
                            /\ e.outcome # "started" => Dropped(a, e.turn)
    /\ e.kind = "turn" => /\ e.turn # 0 /\ e.turn = a.jobs.launch[e.key].turn
                          /\ a.turns.state[e.turn] # "live"
    /\ e.kind = "steer" => /\ e.turn = a.jobs.steer[e.key].turn
                           /\ a.jobs.steer[e.key].pc = "done"

\* In what follows S is the set of the events that wait in the channel, and
\* ph the phase.
Sent(q) == {q[i] : i \in 1 .. Len(q)}

\* A launch that has still to be handled belongs to the launch slot, unless
\* its prompt was given up.
Owned(a, S) ==
    \A r \in Records :
        a.jobs.launch[r].pc \in {"hook", "assigned", "send"} \/ (\E e \in S : e.kind = "launch" /\ e.key = r)
        => r = a.sched.launching \/ r \in a.prompt.cancelled

\* NoOrphanTurn and CancelsHaveCause of any actor.
Kept(a, S, ph) ==
    \A r \in Records :
        LET job == a.jobs.launch[r]
        IN  (job.turn # 0 /\ ph # "exited") =>
               \/ a.turns.state[job.turn] # "live"
               \/ job.turn \in a.turns.cancelled
               \/ a.sched.turn = job.turn
               \/ job.pc \in {"assigned", "send"}
               \/ \E e \in S : e.kind = "launch" /\ e.outcome = "started" /\ e.turn = job.turn
Cause(a, ph, t) ==
    \/ \E r \in Records : a.jobs.launch[r].turn = t /\ (r \in a.prompt.cancelled \/ ph # "running")
    \/ \E k \in Steers : a.jobs.steer[k].turn = t /\ (k \in a.jobs.steerCancelled \/ ph # "running")
Caused(a, ph) == \A t \in a.turns.cancelled : Cause(a, ph, t)

TurnOK(a, S, ph) ==
    /\ JobsTurns(a) /\ \A e \in S : EventTurns(a, e)
    /\ Owned(a, S) /\ Kept(a, S, ph) /\ Caused(a, ph)

\* A launch reports once.
OneReport ==
    \A i, j \in 1 .. Len(events) :
        events[i].kind = "launch" /\ events[j].kind = "launch" /\ events[i].key = events[j].key => i = j

TurnInv == PromptInv /\ TurnOK(Actor, Sent(events), phase) /\ OneReport

-----------------------------------------------------------------------------
(***************************************************************************)
(* The handlers, field by field.                                           *)
(***************************************************************************)
\* The least-number principle, from the well-foundedness of < on Nat.
LEMMA LeastNumber ==
    ASSUME NEW T, T \subseteq Nat, T # {}
    PROVE  \E x \in T : \A y \in T : x <= y
  <1> DEFINE R == OpToRel(<, Nat)
  <1>1. IsWellFoundedOn(R, Nat)
    BY NatLessThanWellFounded
  <1>2. \A x, y \in Nat : <<y, x>> \in R <=> y < x
    BY DEF OpToRel
  <1> HIDE DEF R
  <1>3. PICK x \in T : \A y \in T : ~(<<y, x>> \in R)
    BY <1>1, WFMin
  <1>4. ASSUME NEW y \in T PROVE x <= y
    <2>1. x \in Nat /\ y \in Nat
      OBVIOUS
    <2>2. ~(y < x)
      BY <2>1, <1>2, <1>3
    <2> QED BY <2>1, <2>2
  <1> QED BY <1>4

LEMMA FrontIn ==
    ASSUME NEW S, S \subseteq Nat, S # {}
    PROVE  Front(S) \in S
  <1>1. \E n \in S : \A m \in S : n <= m
    BY LeastNumber
  <1> QED BY <1>1 DEF Front

\* An actor is the record of its parts.
LEMMA Shape ==
    ASSUME NEW a \in ActorType
    PROVE  /\ a.prompt \in PromptType /\ a.sched \in SchedType /\ a.jobs \in JobsType
           /\ a.turns \in TurnsType
           /\ a = [prompt |-> a.prompt, sched |-> a.sched, jobs |-> a.jobs, turns |-> a.turns]
  BY DEF ActorType

LEMMA MakeActor ==
    ASSUME NEW p \in PromptType, NEW s \in SchedType, NEW j \in JobsType, NEW t \in TurnsType
    PROVE  [prompt |-> p, sched |-> s, jobs |-> j, turns |-> t] \in ActorType
  BY DEF ActorType

LEMMA ConcludeFields ==
    ASSUME NEW a \in ActorType, NEW R \in SUBSET Records, NEW st \in Terminal
    PROVE  LET b == Conclude(a, R, st)
           IN  /\ b \in ActorType
               /\ b.sched = a.sched /\ b.jobs = a.jobs /\ b.turns = a.turns
               /\ b.prompt.state = [r \in Records |-> IF r \in R /\ a.prompt.state[r] \notin Terminal
                                                      THEN st ELSE a.prompt.state[r]]
               /\ b.prompt.id = a.prompt.id /\ b.prompt.cancelled = a.prompt.cancelled
  <1> DEFINE fresh == Unsettled(a, R)
             state == [r \in Records |-> IF r \in fresh THEN st ELSE a.prompt.state[r]]
             completion == [r \in Records |-> IF r \in fresh THEN st ELSE a.prompt.completion[r]]
             published == [r \in Records |-> IF r \in fresh THEN a.prompt.published[r] + 1
                                             ELSE a.prompt.published[r]]
             p == [a.prompt EXCEPT !.state = state, !.completion = completion, !.published = published]
             b == [a EXCEPT !.prompt = p]
  <1>1. /\ a.prompt \in PromptType
        /\ a = [prompt |-> a.prompt, sched |-> a.sched, jobs |-> a.jobs, turns |-> a.turns]
    BY Shape
  <1>2. /\ state \in [Records -> States] /\ completion \in [Records -> Terminal \cup {"unset"}]
        /\ published \in [Records -> Nat]
    BY <1>1 DEF PromptType, States
  <1>3. state = [r \in Records |-> IF r \in R /\ a.prompt.state[r] \notin Terminal
                                   THEN st ELSE a.prompt.state[r]]
    BY DEF Unsettled
  <1>4. Conclude(a, R, st) = b
    BY <1>1 DEF Conclude, PromptType
  <1> HIDE DEF state, completion, published
  <1>5. /\ p \in PromptType /\ p.state = state /\ p.id = a.prompt.id /\ p.cancelled = a.prompt.cancelled
    BY <1>1, <1>2 DEF PromptType
  <1> HIDE DEF p
  <1>6. b = [prompt |-> p, sched |-> a.sched, jobs |-> a.jobs, turns |-> a.turns]
    BY <1>1
  <1> QED BY <1>3, <1>4, <1>5, <1>6, Shape, MakeActor

\* settle_record settles the records that are not settled yet.
LEMMA SettleFields ==
    ASSUME NEW a \in ActorType, NEW R \in SUBSET Records, NEW st \in Terminal
    PROVE  LET b == Settle(a, R, st)
           IN  /\ b \in ActorType
               /\ b.sched = a.sched /\ b.jobs = a.jobs /\ b.turns = a.turns
               /\ b.prompt.state = [r \in Records |-> IF r \in R /\ a.prompt.state[r] \notin Terminal
                                                      THEN st ELSE a.prompt.state[r]]
               /\ b.prompt.id = a.prompt.id /\ b.prompt.cancelled = a.prompt.cancelled
  <1> DEFINE c == Conclude(a, R, st)
             p == [c.prompt EXCEPT !.launched = @ \cup Unsettled(a, R)]
             b == [c EXCEPT !.prompt = p]
  <1>1. /\ c \in ActorType /\ c.sched = a.sched /\ c.jobs = a.jobs /\ c.turns = a.turns
        /\ c.prompt.state = [r \in Records |-> IF r \in R /\ a.prompt.state[r] \notin Terminal
                                               THEN st ELSE a.prompt.state[r]]
        /\ c.prompt.id = a.prompt.id /\ c.prompt.cancelled = a.prompt.cancelled
    BY ConcludeFields
  <1> HIDE DEF c
  <1>2. /\ c.prompt \in PromptType
        /\ c = [prompt |-> c.prompt, sched |-> c.sched, jobs |-> c.jobs, turns |-> c.turns]
    BY <1>1, Shape
  <1>3. Unsettled(a, R) \subseteq Records
    BY DEF Unsettled
  <1>4. Settle(a, R, st) = b
    BY <1>2 DEF Settle, PromptType, c
  <1>5. p \in PromptType /\ p.state = c.prompt.state /\ p.id = c.prompt.id
        /\ p.cancelled = c.prompt.cancelled
    BY <1>2, <1>3 DEF PromptType
  <1> HIDE DEF p
  <1>6. b = [prompt |-> p, sched |-> c.sched, jobs |-> c.jobs, turns |-> c.turns]
    BY <1>2
  <1> QED BY <1>1, <1>4, <1>5, <1>6, Shape, MakeActor

LEMMA CancelTurnFields ==
    ASSUME NEW a \in ActorType, NEW t
    PROVE  LET b == CancelTurn(a, t)
           IN  /\ b \in ActorType
               /\ b.prompt = a.prompt /\ b.sched = a.sched /\ b.jobs = a.jobs
               /\ b.turns.state = a.turns.state /\ b.turns.next = a.turns.next
               /\ \A u : u \in b.turns.cancelled <=>
                     u \in a.turns.cancelled \/ (u = t /\ u \in Turns /\ a.turns.state[u] = "live")
  <1> DEFINE more == {u \in {t} : u \in Turns /\ a.turns.state[u] = "live"}
             w == [a.turns EXCEPT !.cancelled = @ \cup more]
             b == [a EXCEPT !.turns = w]
  <1>1. /\ a.turns \in TurnsType
        /\ a = [prompt |-> a.prompt, sched |-> a.sched, jobs |-> a.jobs, turns |-> a.turns]
    BY Shape
  <1>2. more \subseteq Turns
    OBVIOUS
  <1>3. CancelTurn(a, t) = b
    BY <1>1 DEF CancelTurn, TurnsType
  <1>4. /\ w \in TurnsType /\ w.state = a.turns.state /\ w.next = a.turns.next
        /\ w.cancelled = a.turns.cancelled \cup more
    BY <1>1, <1>2 DEF TurnsType
  <1> HIDE DEF w
  <1>5. b = [prompt |-> a.prompt, sched |-> a.sched, jobs |-> a.jobs, turns |-> w]
    BY <1>1
  <1> QED BY <1>3, <1>4, <1>5, Shape, MakeActor

HookJob == [pc |-> "hook", turn |-> 0, outcome |-> "none"]
StartJob == [pc |-> "start", turn |-> 0, outcome |-> "none"]

LEMMA JobTypes == NoJob \in JobType /\ HookJob \in JobType /\ StartJob \in JobType
  BY DEF NoJob, HookJob, StartJob, JobType, Outcomes

LEMMA RecordsNat == Records \subseteq Nat /\ 0 \notin Records
  BY BoundsAssumption DEF Records

\* The front of the queue moves to the launch slot.
LEMMA DriveFields ==
    ASSUME NEW a \in ActorType, DriveReady(a)
    PROVE  LET b == Drive(a)
               r == Front(a.sched.pending)
           IN  /\ b \in ActorType /\ r \in a.sched.pending
               /\ b.prompt = a.prompt /\ b.turns = a.turns
               /\ b.sched = [a.sched EXCEPT !.pending = @ \ {r}, !.launching = r]
               /\ b.jobs = [a.jobs EXCEPT !.launch = [@ EXCEPT ![r] = HookJob]]
  <1> DEFINE r == Front(a.sched.pending)
             s == [a.sched EXCEPT !.pending = @ \ {r}, !.launching = r]
             j == [a.jobs EXCEPT !.launch = [@ EXCEPT ![r] = HookJob]]
  <1>1. /\ a.prompt \in PromptType /\ a.sched \in SchedType /\ a.jobs \in JobsType /\ a.turns \in TurnsType
        /\ a = [prompt |-> a.prompt, sched |-> a.sched, jobs |-> a.jobs, turns |-> a.turns]
    BY Shape
  <1>2. r \in a.sched.pending
    <2>1. a.sched.pending \subseteq Nat /\ a.sched.pending # {}
      BY <1>1, RecordsNat DEF DriveReady, SchedType
    <2> QED BY <2>1, FrontIn
  <1>3. Drive(a) = [a EXCEPT !.sched = s, !.jobs = j]
    <2>1. [NoJob EXCEPT !.pc = "hook"] = HookJob
      BY DEF NoJob, HookJob
    <2>2. Drive(a) = [a EXCEPT !.sched.pending = @ \ {r}, !.sched.launching = r,
                               !.jobs.launch[r] = HookJob]
      BY <2>1, Zenon DEF Drive
    <2> HIDE DEF r
    <2> QED BY <1>1, <2>2 DEF SchedType, JobsType
  <1> HIDE DEF r
  <1>4. s \in SchedType
    BY <1>1, <1>2 DEF SchedType
  <1>5. j \in JobsType
    BY <1>1, <1>2, JobTypes DEF JobsType, SchedType
  <1> HIDE DEF s, j
  <1>6. Drive(a) = [prompt |-> a.prompt, sched |-> s, jobs |-> j, turns |-> a.turns]
    BY <1>1, <1>3
  <1> QED BY <1>1, <1>2, <1>4, <1>5, <1>6, MakeActor DEF r, s, j

\* A steer operation takes the prompts W out of the queue.
SteerTaken(a, b, W) ==
    LET k == a.sched.nextOperation
    IN  /\ W \subseteq a.sched.pending
        /\ a.sched.steerInFlight.id = 0 /\ a.sched.active # 0
        /\ \E rest : b.sched = [a.sched EXCEPT
                 !.pendingSteers = rest, !.pending = @ \ W,
                 !.steerInFlight = [id |-> k, activeId |-> a.prompt.id[a.sched.active], selected |-> W],
                 !.nextOperation = k + 1]
        /\ b.jobs = [a.jobs EXCEPT !.steer = [@ EXCEPT ![k] = StartJob]]

LEMMA DriveSteerFields ==
    ASSUME NEW a \in ActorType
    PROVE  LET b == DriveSteer(a)
           IN  /\ b \in ActorType /\ b.prompt = a.prompt /\ b.turns = a.turns
               /\ \/ b = a
                  \/ b.jobs = a.jobs /\ b.sched = [a.sched EXCEPT !.pendingSteers = <<>>]
                  \/ \E W : SteerTaken(a, b, W)
  <1> DEFINE queue == a.sched.pendingSteers
             ok == {i \in DOMAIN queue : Reservable(a, queue[i])}
             i == Front(ok)
             k == a.sched.nextOperation
             W == Wanted(a, queue[i])
             rest == SubSeq(queue, i + 1, Len(queue))
             op == [id |-> k, activeId |-> a.prompt.id[a.sched.active], selected |-> W]
             s == [a.sched EXCEPT !.pendingSteers = rest, !.pending = @ \ W, !.steerInFlight = op,
                                  !.nextOperation = k + 1]
             j == [a.jobs EXCEPT !.steer = [@ EXCEPT ![k] = StartJob]]
  <1>1. /\ a.prompt \in PromptType /\ a.sched \in SchedType /\ a.jobs \in JobsType /\ a.turns \in TurnsType
        /\ a = [prompt |-> a.prompt, sched |-> a.sched, jobs |-> a.jobs, turns |-> a.turns]
    BY Shape
  <1>2. CASE a.sched.steerInFlight.id # 0
    BY <1>2 DEF DriveSteer
  <1>3. CASE a.sched.steerInFlight.id = 0 /\ ok = {}
    <2> DEFINE t == [a.sched EXCEPT !.pendingSteers = <<>>]
    <2>1. DriveSteer(a) = [a EXCEPT !.sched.pendingSteers = <<>>]
      BY <1>3, Zenon DEF DriveSteer
    <2>2. DriveSteer(a) = [prompt |-> a.prompt, sched |-> t, jobs |-> a.jobs, turns |-> a.turns]
      BY <1>1, <2>1
    <2>3. PICK none \in Seq(SUBSET Ids) : none = <<>>
      BY EmptySeq
    <2>4. t \in SchedType
      BY <1>1, <2>3 DEF SchedType
    <2> HIDE DEF t
    <2> QED BY <1>1, <2>2, <2>4, MakeActor DEF t
  <1>4. CASE a.sched.steerInFlight.id = 0 /\ ok # {}
    <2>1. queue \in Seq(SUBSET Ids) /\ Len(queue) \in Nat /\ DOMAIN queue = 1 .. Len(queue)
      BY <1>1 DEF SchedType
    <2>2. i \in ok
      <3>1. ok \subseteq Nat /\ ok # {}
        BY <1>4, <2>1
      <3> HIDE DEF ok
      <3> QED BY <3>1, FrontIn
    <2>3. a.sched.active # 0
      BY <2>2 DEF Reservable
    <2>4. W \subseteq a.sched.pending
      BY DEF Wanted
    <2>5. rest \in Seq(SUBSET Ids)
      <3> HIDE DEF i
      <3>1. i \in 1 .. Len(queue)
        BY <2>1, <2>2
      <3> HIDE DEF queue
      <3>2. \A n \in (i + 1) .. Len(queue) : queue[n] \in SUBSET Ids
        BY <2>1, <3>1, ElementOfSeq
      <3> QED BY <2>1, <3>1, <3>2, SubSeqProperties
    <2>6. DriveSteer(a) = [a EXCEPT !.sched.pendingSteers = rest, !.sched.pending = @ \ W,
                                    !.sched.steerInFlight = op, !.sched.nextOperation = @ + 1,
                                    !.jobs.steer[k] = [NoJob EXCEPT !.pc = "start"]]
      BY <1>4, Zenon DEF DriveSteer
    <2>7. [NoJob EXCEPT !.pc = "start"] = StartJob
      BY DEF NoJob, StartJob
    <2> HIDE DEF rest, W, i, ok, queue
    <2>8. /\ op \in OperationType /\ k \in Nat \ {0}
      BY <1>1, <2>3, <2>4 DEF SchedType, OperationType, PromptType
    <2> HIDE DEF op
    <2>9. DriveSteer(a) = [a EXCEPT !.sched = s, !.jobs = j]
      BY <1>1, <2>6, <2>7 DEF SchedType, JobsType
    <2>10. s \in SchedType
      <3>1. a.sched.pending \ W \in SUBSET Records /\ k + 1 \in Nat \ {0}
        BY <1>1, <2>8 DEF SchedType
      <3> HIDE DEF k
      <3> QED BY <1>1, <2>5, <2>8, <3>1 DEF SchedType
    <2>11. j \in JobsType
      BY <1>1, JobTypes DEF JobsType
    <2> HIDE DEF s, j, k
    <2>12. DriveSteer(a) = [prompt |-> a.prompt, sched |-> s, jobs |-> j, turns |-> a.turns]
      BY <1>1, <2>9
    <2>13. SteerTaken(a, DriveSteer(a), W)
      <3>1. DriveSteer(a).sched = s /\ DriveSteer(a).jobs = j
        BY <2>12
      <3> QED BY <1>4, <2>3, <2>4, <3>1, Zenon DEF SteerTaken, s, j, op, k
    <2> QED BY <1>1, <2>10, <2>11, <2>12, <2>13, MakeActor
  <1> QED BY <1>2, <1>3, <1>4

\* A prompt's token is cancelled.
LEMMA TokenFields ==
    ASSUME NEW a \in ActorType, NEW R \in SUBSET Records
    PROVE  LET b == [a EXCEPT !.prompt.cancelled = @ \cup R]
           IN  /\ b \in ActorType /\ b.sched = a.sched /\ b.jobs = a.jobs /\ b.turns = a.turns
               /\ b.prompt = [a.prompt EXCEPT !.cancelled = @ \cup R]
  <1> DEFINE p == [a.prompt EXCEPT !.cancelled = @ \cup R]
  <1>1. /\ a.prompt \in PromptType
        /\ a = [prompt |-> a.prompt, sched |-> a.sched, jobs |-> a.jobs, turns |-> a.turns]
    BY Shape
  <1> DEFINE b == [a EXCEPT !.prompt.cancelled = @ \cup R]
  <1>2. b = [a EXCEPT !.prompt = p]
    BY <1>1 DEF PromptType
  <1>3. p \in PromptType
    BY <1>1 DEF PromptType
  <1> HIDE DEF p, b
  <1>4. b = [prompt |-> p, sched |-> a.sched, jobs |-> a.jobs, turns |-> a.turns]
    BY <1>1, <1>2
  <1>5. /\ b \in ActorType /\ b.prompt = p /\ b.sched = a.sched
        /\ b.jobs = a.jobs /\ b.turns = a.turns
    BY <1>3, <1>4, Shape, MakeActor
  <1> QED BY <1>5, Zenon DEF b, p

\* What abort does to a prompt that is still in the queue, before it settles it.
LEMMA DequeuedFields ==
    ASSUME NEW a \in ActorType, NEW r \in a.sched.pending
    PROVE  LET b == [a EXCEPT !.sched.pending = @ \ {r}, !.prompt.cancelled = @ \cup {r}]
           IN  /\ b \in ActorType /\ b.jobs = a.jobs /\ b.turns = a.turns
               /\ b.sched = [a.sched EXCEPT !.pending = @ \ {r}]
               /\ b.prompt = [a.prompt EXCEPT !.cancelled = @ \cup {r}]
  <1> DEFINE p == [a.prompt EXCEPT !.cancelled = @ \cup {r}]
             s == [a.sched EXCEPT !.pending = @ \ {r}]
  <1>1. /\ a.prompt \in PromptType /\ a.sched \in SchedType
        /\ a = [prompt |-> a.prompt, sched |-> a.sched, jobs |-> a.jobs, turns |-> a.turns]
    BY Shape
  <1> DEFINE b == [a EXCEPT !.sched.pending = @ \ {r}, !.prompt.cancelled = @ \cup {r}]
  <1>2. b = [a EXCEPT !.sched = s, !.prompt = p]
    BY <1>1 DEF PromptType, SchedType
  <1>3. p \in PromptType /\ s \in SchedType
    BY <1>1 DEF PromptType, SchedType
  <1> HIDE DEF p, s, b
  <1>4. b = [prompt |-> p, sched |-> s, jobs |-> a.jobs, turns |-> a.turns]
    BY <1>1, <1>2
  <1>5. /\ b \in ActorType /\ b.prompt = p /\ b.sched = s
        /\ b.jobs = a.jobs /\ b.turns = a.turns
    BY <1>3, <1>4, Shape, MakeActor
  <1> QED BY <1>5, Zenon DEF b, p, s

LEMMA SteerTokenFields ==
    ASSUME NEW a \in ActorType
    PROVE  LET b == AbortSteerInFlight(a)
           IN  /\ b \in ActorType /\ b.prompt = a.prompt /\ b.sched = a.sched /\ b.turns = a.turns
               /\ b.jobs = [a.jobs EXCEPT !.steerCancelled = @ \cup {a.sched.steerInFlight.id}]
  <1> DEFINE j == [a.jobs EXCEPT !.steerCancelled = @ \cup {a.sched.steerInFlight.id}]
  <1>1. /\ a.jobs \in JobsType /\ a.sched \in SchedType
        /\ a = [prompt |-> a.prompt, sched |-> a.sched, jobs |-> a.jobs, turns |-> a.turns]
    BY Shape
  <1> DEFINE b == AbortSteerInFlight(a)
  <1>2. b = [a EXCEPT !.jobs = j]
    BY <1>1 DEF AbortSteerInFlight, JobsType
  <1>3. j \in JobsType
    BY <1>1 DEF JobsType, SchedType, OperationType
  <1> HIDE DEF j, b
  <1>4. b = [prompt |-> a.prompt, sched |-> a.sched, jobs |-> j, turns |-> a.turns]
    BY <1>1, <1>2
  <1>5. /\ b \in ActorType /\ b.prompt = a.prompt /\ b.sched = a.sched
        /\ b.jobs = j /\ b.turns = a.turns
    BY <1>3, <1>4, Shape, MakeActor
  <1> QED BY <1>5, Zenon DEF b, j

\* An actor with another SchedulerState.
LEMMA WithSched ==
    ASSUME NEW a \in ActorType, NEW s \in SchedType
    PROVE  LET b == [a EXCEPT !.sched = s]
           IN  b \in ActorType /\ b.prompt = a.prompt /\ b.sched = s /\ b.jobs = a.jobs /\ b.turns = a.turns
  BY DEF ActorType

LEMMA LiveRecordsIn ==
    ASSUME NEW s \in SchedType
    PROVE  /\ LiveRecords(s) \subseteq Records
           /\ \A r \in Records : r \in LiveRecords(s) <=>
                \/ r = s.active \/ r = s.launching \/ r \in s.pending
                \/ r \in s.steerInFlight.selected \/ \E i \in Ids : r \in s.steered[i]
  BY RecordsNat DEF LiveRecords, SchedType, OperationType

LEMMA NoOperationType == NoOperation \in OperationType
  BY DEF NoOperation, OperationType

EmptiedSched(s) ==
    [s EXCEPT !.active = 0, !.turn = 0, !.pending = {}, !.launching = 0,
              !.steered = [i \in Ids |-> {}], !.steerInFlight = NoOperation, !.pendingSteers = <<>>]

LEMMA EmptiedSchedType ==
    ASSUME NEW s \in SchedType
    PROVE  /\ EmptiedSched(s) \in SchedType
           /\ EmptiedSched(s).active = 0 /\ EmptiedSched(s).turn = 0 /\ EmptiedSched(s).launching = 0
           /\ EmptiedSched(s).pending = {} /\ EmptiedSched(s).steered = [i \in Ids |-> {}]
           /\ EmptiedSched(s).steerInFlight = NoOperation
           /\ EmptiedSched(s).nextOperation = s.nextOperation
  <1>1. PICK none \in Seq(SUBSET Ids) : none = <<>>
    BY EmptySeq
  <1>2. PICK slots \in [Ids -> SUBSET Records] : slots = [i \in Ids |-> {}]
    OBVIOUS
  <1> DEFINE t == [s EXCEPT !.active = 0, !.turn = 0, !.pending = {}, !.launching = 0,
                            !.steered = slots, !.steerInFlight = NoOperation, !.pendingSteers = none]
  <1>3. EmptiedSched(s) = t
    BY <1>1, <1>2, Zenon DEF EmptiedSched
  <1>4. /\ t \in SchedType /\ t.active = 0 /\ t.turn = 0 /\ t.launching = 0
        /\ t.pending = {} /\ t.steered = slots /\ t.steerInFlight = NoOperation
        /\ t.nextOperation = s.nextOperation
    BY NoOperationType DEF SchedType
  <1> HIDE DEF t
  <1> QED BY <1>2, <1>3, <1>4

\* clear_all and shutdown_all.
LEMMA ClearAllFields ==
    ASSUME NEW a \in ActorType
    PROVE  LET b == ClearAll(a)
               all == LiveRecords(a.sched)
           IN  /\ b \in ActorType /\ b.sched = EmptiedSched(a.sched)
               /\ b.prompt.state = [r \in Records |-> IF r \in all /\ a.prompt.state[r] \notin Terminal
                                                      THEN "cancelled" ELSE a.prompt.state[r]]
               /\ b.prompt.id = a.prompt.id /\ b.prompt.cancelled = a.prompt.cancelled \cup all
               /\ b.jobs = [a.jobs EXCEPT !.steerCancelled = @ \cup ({a.sched.steerInFlight.id} \ {0})]
               /\ b.turns.state = a.turns.state /\ b.turns.next = a.turns.next
               /\ \A u : u \in b.turns.cancelled <=>
                     u \in a.turns.cancelled
                       \/ (u = a.sched.turn /\ u \in Turns /\ a.turns.state[u] = "live")
  <1> DEFINE all == LiveRecords(a.sched)
             p == [a.prompt EXCEPT !.cancelled = @ \cup all]
             j == [a.jobs EXCEPT !.steerCancelled = @ \cup ({a.sched.steerInFlight.id} \ {0})]
             s == EmptiedSched(a.sched)
             e == [a EXCEPT !.sched = s, !.prompt = p, !.jobs = j]
             c == CancelTurn(e, a.sched.turn)
  <1>1. /\ a.prompt \in PromptType /\ a.sched \in SchedType /\ a.jobs \in JobsType /\ a.turns \in TurnsType
        /\ a = [prompt |-> a.prompt, sched |-> a.sched, jobs |-> a.jobs, turns |-> a.turns]
    BY Shape
  <1>2. all \subseteq Records
    BY <1>1, LiveRecordsIn
  <1>3. ClearAll(a) = Settle(c, all, "cancelled")
    <2>1. [a EXCEPT !.sched = s, !.prompt.cancelled = @ \cup all,
                    !.jobs.steerCancelled = @ \cup ({a.sched.steerInFlight.id} \ {0})] = e
      <3> HIDE DEF s, all
      <3> QED BY <1>1 DEF PromptType, JobsType
    <2> QED BY <2>1, Zenon DEF ClearAll, EmptiedSched
  <1> HIDE DEF all
  <1>4. p \in PromptType /\ p.state = a.prompt.state /\ p.id = a.prompt.id
        /\ p.cancelled = a.prompt.cancelled \cup all
    BY <1>1, <1>2 DEF PromptType
  <1>5. j \in JobsType
    BY <1>1 DEF JobsType, SchedType, OperationType
  <1>6. s \in SchedType
    BY <1>1, EmptiedSchedType
  <1> HIDE DEF p, s, j
  <1>7. e \in ActorType /\ e.prompt = p /\ e.sched = s /\ e.jobs = j /\ e.turns = a.turns
    BY <1>4, <1>5, <1>6 DEF ActorType
  <1> HIDE DEF e
  <1>10. /\ c \in ActorType /\ c.prompt = p /\ c.sched = s /\ c.jobs = j
         /\ c.turns.state = a.turns.state /\ c.turns.next = a.turns.next
         /\ \A u : u \in c.turns.cancelled <=>
               u \in a.turns.cancelled \/ (u = a.sched.turn /\ u \in Turns /\ a.turns.state[u] = "live")
    BY <1>7, CancelTurnFields
  <1> HIDE DEF c
  <1>11. "cancelled" \in Terminal
    BY DEF Terminal
  <1>12. LET b == Settle(c, all, "cancelled")
         IN  /\ b \in ActorType /\ b.sched = s /\ b.jobs = j /\ b.turns = c.turns
             /\ b.prompt.state = [r \in Records |-> IF r \in all /\ c.prompt.state[r] \notin Terminal
                                                    THEN "cancelled" ELSE c.prompt.state[r]]
             /\ b.prompt.id = p.id /\ b.prompt.cancelled = p.cancelled
    BY <1>2, <1>10, <1>11, SettleFields
  <1>13. /\ ClearAll(a) \in ActorType /\ ClearAll(a).sched = s /\ ClearAll(a).jobs = j
         /\ ClearAll(a).turns = c.turns
         /\ ClearAll(a).prompt.state = [r \in Records |-> IF r \in all /\ a.prompt.state[r] \notin Terminal
                                                          THEN "cancelled" ELSE a.prompt.state[r]]
         /\ ClearAll(a).prompt.id = a.prompt.id
         /\ ClearAll(a).prompt.cancelled = a.prompt.cancelled \cup all
    BY <1>3, <1>4, <1>10, <1>12
  <1> QED BY <1>10, <1>13 DEF all, s, j

\* The states that the records R get when they are settled.
SettledStates(a, R, st) ==
    [r \in Records |-> IF r \in R /\ a.prompt.state[r] \notin Terminal THEN st ELSE a.prompt.state[r]]

\* b is a with the records R settled, its SchedulerState being s, and perhaps
\* with the turn t cancelled.
Settled(a, b, s, R, st, cancel, t) ==
    /\ b \in ActorType /\ b.sched = s /\ b.jobs = a.jobs
    /\ b.prompt.state = SettledStates(a, R, st)
    /\ b.prompt.id = a.prompt.id /\ b.prompt.cancelled = a.prompt.cancelled
    /\ b.turns.state = a.turns.state /\ b.turns.next = a.turns.next
    /\ \A u : u \in b.turns.cancelled <=>
          u \in a.turns.cancelled \/ (cancel /\ u = t /\ u \in Turns /\ a.turns.state[u] = "live")

LEMMA SettledIntro ==
    ASSUME NEW a \in ActorType, NEW s \in SchedType, NEW R \in SUBSET Records, NEW st \in Terminal, NEW t
    PROVE  LET c == [a EXCEPT !.sched = s]
           IN  /\ Settled(a, Settle(c, R, st), s, R, st, FALSE, t)
               /\ Settled(a, Conclude(c, R, st), s, R, st, FALSE, t)
               /\ Settled(a, Settle(CancelTurn(c, t), R, st), s, R, st, TRUE, t)
  <1> DEFINE c == [a EXCEPT !.sched = s]
             d == CancelTurn(c, t)
  <1>1. c \in ActorType /\ c.prompt = a.prompt /\ c.sched = s /\ c.jobs = a.jobs /\ c.turns = a.turns
    BY WithSched
  <1> HIDE DEF c
  <1>2. Settled(a, Settle(c, R, st), s, R, st, FALSE, t)
    BY <1>1, SettleFields DEF Settled, SettledStates
  <1>3. Settled(a, Conclude(c, R, st), s, R, st, FALSE, t)
    BY <1>1, ConcludeFields DEF Settled, SettledStates
  <1>4. /\ d \in ActorType /\ d.prompt = a.prompt /\ d.sched = s /\ d.jobs = a.jobs
        /\ d.turns.state = a.turns.state /\ d.turns.next = a.turns.next
        /\ \A u : u \in d.turns.cancelled <=>
              u \in a.turns.cancelled \/ (u = t /\ u \in Turns /\ a.turns.state[u] = "live")
    BY <1>1, CancelTurnFields
  <1> HIDE DEF d
  <1>5. Settled(a, Settle(d, R, st), s, R, st, TRUE, t)
    BY <1>4, SettleFields DEF Settled, SettledStates
  <1> QED BY <1>2, <1>3, <1>5 DEF c, d

\* finish_launch for the prompt in the launch slot: it is settled, or it runs.
LaunchSettled(a, b, r, outcome, t) ==
    \E st \in {"failed", "cancelled", "blocked"} :
        Settled(a, b, [a.sched EXCEPT !.launching = 0], {r}, st,
                TokenCancelled(r) /\ outcome = "started", t)
LaunchStarted(a, b, r, t) ==
    /\ b \in ActorType
    /\ b.sched = [[a.sched EXCEPT !.launching = 0] EXCEPT !.active = r, !.turn = t]
    /\ b.jobs = [a.jobs EXCEPT !.monitor = [@ EXCEPT ![r] = t]]
    /\ b.turns = a.turns
    /\ b.prompt.state = [a.prompt.state EXCEPT ![r] = "running"]
    /\ b.prompt.id = a.prompt.id /\ b.prompt.cancelled = a.prompt.cancelled

LEMMA FinishLaunchFields ==
    ASSUME NEW a \in ActorType, NEW r \in Records, NEW outcome \in LaunchOutcomes, NEW t \in Turns \cup {0}
    PROVE  /\ a.sched.launching # r /\ outcome = "started" => FinishLaunch(a, r, outcome, t) = CancelTurn(a, t)
           /\ a.sched.launching # r /\ outcome # "started" => FinishLaunch(a, r, outcome, t) = a
           /\ a.sched.launching = r /\ (TokenCancelled(r) \/ outcome # "started") =>
                LaunchSettled(a, FinishLaunch(a, r, outcome, t), r, outcome, t)
           /\ a.sched.launching = r /\ ~TokenCancelled(r) /\ outcome = "started" =>
                LaunchStarted(a, FinishLaunch(a, r, outcome, t), r, t)
  <1> DEFINE b == FinishLaunch(a, r, outcome, t)
             freed == [a.sched EXCEPT !.launching = 0]
             c == [a EXCEPT !.sched = freed]
  <1>1. /\ a.prompt \in PromptType /\ a.sched \in SchedType /\ a.jobs \in JobsType /\ a.turns \in TurnsType
    BY Shape
  <1>2. freed \in SchedType
    BY <1>1 DEF SchedType
  <1>3. [a EXCEPT !.sched.launching = 0] = c
    BY <1>1 DEF ActorType, SchedType
  <1>4. {"failed", "cancelled", "blocked"} \subseteq Terminal
    BY DEF Terminal
  <1>5. CASE a.sched.launching # r
    BY <1>5 DEF FinishLaunch
  <1>6. CASE a.sched.launching = r /\ TokenCancelled(r) /\ outcome = "started"
    <2>1. b = Settle(CancelTurn(c, t), {r}, "cancelled")
      BY <1>3, <1>6 DEF FinishLaunch
    <2> HIDE DEF freed, b
    <2>2. Settled(a, b, freed, {r}, "cancelled", TRUE, t)
      BY <1>2, <1>4, <2>1, SettledIntro
    <2>3. Settled(a, b, freed, {r}, "cancelled", TokenCancelled(r) /\ outcome = "started", t)
      BY <1>6, <2>2 DEF Settled
    <2> QED BY <1>6, <2>3 DEF b, freed, LaunchSettled
  <1>7. CASE a.sched.launching = r /\ outcome # "started"
    <2>1. PICK st \in {"failed", "cancelled", "blocked"} : b = Settle(c, {r}, st)
      BY <1>3, <1>7 DEF FinishLaunch, LaunchOutcomes
    <2> HIDE DEF freed, b
    <2>2. Settled(a, b, freed, {r}, st, FALSE, t)
      BY <1>2, <1>4, <2>1, SettledIntro
    <2>3. Settled(a, b, freed, {r}, st, TokenCancelled(r) /\ outcome = "started", t)
      BY <1>7, <2>2 DEF Settled
    <2> QED BY <1>7, <2>3 DEF b, freed, LaunchSettled
  <1>8. CASE a.sched.launching = r /\ ~TokenCancelled(r) /\ outcome = "started"
    <2> DEFINE p == [a.prompt EXCEPT !.state = [@ EXCEPT ![r] = "running"], !.launched = @ \cup {r}]
               s == [freed EXCEPT !.active = r, !.turn = t]
               j == [a.jobs EXCEPT !.monitor = [@ EXCEPT ![r] = t]]
    <2>1. b = [c EXCEPT !.prompt.state[r] = "running", !.prompt.launched = @ \cup {r},
                        !.sched.active = r, !.sched.turn = t, !.jobs.monitor[r] = t]
      BY <1>3, <1>8 DEF FinishLaunch
    <2>2. s \in SchedType
      BY <1>2 DEF SchedType
    <2>3. j \in JobsType
      BY <1>1 DEF JobsType
    <2>4. p \in PromptType /\ p.state = [a.prompt.state EXCEPT ![r] = "running"]
          /\ p.id = a.prompt.id /\ p.cancelled = a.prompt.cancelled
      BY <1>1 DEF PromptType, States
    <2>5. b = [a EXCEPT !.sched = s, !.prompt = p, !.jobs = j]
      BY <1>1, <2>1 DEF ActorType, PromptType, SchedType, JobsType
    <2> HIDE DEF b, s, p, j
    <2>6. b \in ActorType /\ b.prompt = p /\ b.sched = s /\ b.jobs = j /\ b.turns = a.turns
      BY <2>2, <2>3, <2>4, <2>5 DEF ActorType
    <2> QED BY <1>8, <2>4, <2>6 DEF b, s, j, LaunchStarted
  <1> QED BY <1>5, <1>6, <1>7, <1>8

\* finish_turn for the active prompt: it and its children share the result.
TurnSettled(a, b, r, result) ==
    Settled(a, b, [a.sched EXCEPT !.active = 0, !.turn = 0,
                                  !.steered = [@ EXCEPT ![a.prompt.id[r]] = {}]],
            {r} \cup a.sched.steered[a.prompt.id[r]], result, FALSE, 0)

LEMMA FinishTurnFields ==
    ASSUME NEW a \in ActorType, NEW r \in Records, NEW result \in {"completed", "failed", "cancelled"},
           a.sched.active = r, a.prompt.id[r] \in Ids
    PROVE  TurnSettled(a, FinishTurn(a, r, result), r, result)
  <1> DEFINE id == a.prompt.id[r]
             R == {r} \cup a.sched.steered[id]
             s == [a.sched EXCEPT !.active = 0, !.turn = 0, !.steered = [@ EXCEPT ![id] = {}]]
             c == [a EXCEPT !.sched = s]
             d == Conclude(c, R, result)
             again == IF Unsettled(a, {r}) = {} THEN d.prompt.published[r] + 1 ELSE d.prompt.published[r]
             p == [d.prompt EXCEPT !.published = [@ EXCEPT ![r] = again]]
             b == FinishTurn(a, r, result)
  <1>1. /\ a.sched \in SchedType /\ id \in Ids
    BY Shape
  <1>2. s \in SchedType /\ R \subseteq Records
    BY <1>1 DEF SchedType
  <1> DEFINE x == [a EXCEPT !.sched.active = 0, !.sched.turn = 0, !.sched.steered[id] = {}]
             y == Conclude(x, R, result)
  <1>3. x = c
    BY <1>1 DEF ActorType, SchedType
  <1>4. b = [d EXCEPT !.prompt.published[r] = IF Unsettled(a, {r}) = {} THEN @ + 1 ELSE @]
    <2>1. b = [y EXCEPT !.prompt.published[r] = IF Unsettled(a, {r}) = {} THEN @ + 1 ELSE @]
      BY Zenon DEF FinishTurn
    <2>2. y = d
      BY <1>3, Zenon
    <2> HIDE DEF y, d
    <2> QED BY <2>1, <2>2, Zenon
  <1>5. result \in Terminal
    BY DEF Terminal
  <1>6. Settled(a, d, s, R, result, FALSE, 0)
    <2> HIDE DEF s, R
    <2> QED BY <1>2, <1>5, SettledIntro
  <1> HIDE DEF s, R, d, b
  <1>7. d \in ActorType /\ d.prompt \in PromptType
    BY <1>6, Shape DEF Settled
  <1>8. b = [d EXCEPT !.prompt = p]
    BY <1>4, <1>7 DEF ActorType, PromptType
  <1>9. again \in Nat
    BY <1>7 DEF PromptType
  <1> HIDE DEF again
  <1>10. p \in PromptType /\ p.state = d.prompt.state /\ p.id = d.prompt.id
         /\ p.cancelled = d.prompt.cancelled
    BY <1>7, <1>9 DEF PromptType
  <1> HIDE DEF p
  <1>11. b \in ActorType /\ b.prompt = p /\ b.sched = d.sched /\ b.jobs = d.jobs /\ b.turns = d.turns
    BY <1>7, <1>8, <1>10 DEF ActorType
  <1>12. Settled(a, b, s, R, result, FALSE, 0)
    BY <1>6, <1>10, <1>11 DEF Settled
  <1> QED BY <1>12 DEF s, R, b, TurnSettled

\* The steer operation k found its prompt still active in the turn t.
SteerMatches(a, k, outcome, t) ==
    /\ ~OperationCancelled(k) /\ outcome = "assigned"
    /\ a.sched.active # 0 /\ a.prompt.id[a.sched.active] = a.sched.steerInFlight.activeId
    /\ a.sched.turn = t

\* finish_steer for the operation in flight: its prompts are settled, or they
\* join the active one.
SteerSettled(a, b, k, outcome, t) ==
    \E st \in {"failed", "cancelled"} :
        Settled(a, b, [a.sched EXCEPT !.steerInFlight = NoOperation], a.sched.steerInFlight.selected, st,
                OperationCancelled(k) /\ outcome = "assigned", t)
SteerJoined(a, b) ==
    LET op == a.sched.steerInFlight
    IN  /\ b \in ActorType /\ b.jobs = a.jobs /\ b.turns = a.turns
        /\ b.sched = [a.sched EXCEPT
                        !.steerInFlight = NoOperation,
                        !.steered = [@ EXCEPT ![op.activeId] = a.sched.steered[op.activeId] \cup op.selected]]
        /\ b.prompt.state = [r \in Records |-> IF r \in op.selected THEN "steered" ELSE a.prompt.state[r]]
        /\ b.prompt.id = a.prompt.id /\ b.prompt.cancelled = a.prompt.cancelled

LEMMA FinishSteerFields ==
    ASSUME NEW a \in ActorType, NEW k, NEW outcome, NEW t
    PROVE  /\ a.sched.steerInFlight.id # k => FinishSteer(a, k, outcome, t) = a
           /\ a.sched.steerInFlight.id = k /\ ~SteerMatches(a, k, outcome, t) =>
                SteerSettled(a, FinishSteer(a, k, outcome, t), k, outcome, t)
           /\ a.sched.steerInFlight.id = k /\ SteerMatches(a, k, outcome, t)
                /\ a.sched.steerInFlight.activeId \in Ids =>
                SteerJoined(a, FinishSteer(a, k, outcome, t))
  <1> DEFINE b == FinishSteer(a, k, outcome, t)
             op == a.sched.steerInFlight
             freed == [a.sched EXCEPT !.steerInFlight = NoOperation]
             c == [a EXCEPT !.sched = freed]
             cancel == OperationCancelled(k) /\ outcome = "assigned"
  <1>1. a.prompt \in PromptType /\ a.sched \in SchedType
    BY Shape
  <1>2. freed \in SchedType /\ op.selected \subseteq Records
    BY <1>1, NoOperationType DEF SchedType, OperationType
  <1>3. [a EXCEPT !.sched.steerInFlight = NoOperation] = c
    BY <1>1 DEF ActorType, SchedType
  <1>4. {"failed", "cancelled"} \subseteq Terminal
    BY DEF Terminal
  <1>5. CASE op.id # k
    <2>1. b = a
      BY <1>5 DEF FinishSteer
    <2> HIDE DEF b
    <2> QED BY <1>5, <2>1, Zenon DEF b
  <1>6. CASE op.id = k /\ cancel
    <2>1. b = Settle(CancelTurn(c, t), op.selected, "cancelled")
      BY <1>3, <1>6 DEF FinishSteer
    <2> HIDE DEF freed, b
    <2>2. Settled(a, b, freed, op.selected, "cancelled", TRUE, t)
      BY <1>2, <1>4, <2>1, SettledIntro
    <2>3. Settled(a, b, freed, op.selected, "cancelled", cancel, t)
      BY <1>6, <2>2 DEF Settled
    <2>4. SteerSettled(a, b, k, outcome, t)
      BY <2>3, Zenon DEF freed, SteerSettled
    <2> QED BY <1>6, <2>4, Zenon DEF b, SteerMatches
  <1>7. CASE op.id = k /\ ~cancel /\ ~SteerMatches(a, k, outcome, t)
    <2>1. PICK st \in {"failed", "cancelled"} : b = Settle(c, op.selected, st)
      BY <1>3, <1>7 DEF FinishSteer, SteerMatches
    <2> HIDE DEF freed, b
    <2>2. Settled(a, b, freed, op.selected, st, FALSE, t)
      BY <1>2, <1>4, <2>1, SettledIntro
    <2>3. Settled(a, b, freed, op.selected, st, cancel, t)
      BY <1>7, <2>2 DEF Settled
    <2>4. SteerSettled(a, b, k, outcome, t)
      BY <2>3, Zenon DEF freed, SteerSettled
    <2> QED BY <1>7, <2>4, Zenon DEF b
  <1>8. CASE op.id = k /\ SteerMatches(a, k, outcome, t) /\ op.activeId \in Ids
    <2> DEFINE state == [r \in Records |-> IF r \in op.selected THEN "steered" ELSE c.prompt.state[r]]
               p == [c.prompt EXCEPT !.state = state, !.launched = @ \cup op.selected]
               slots == [a.sched.steered EXCEPT ![op.activeId] = @ \cup op.selected]
               s == [a.sched EXCEPT !.steerInFlight = NoOperation, !.steered = slots]
    <2>c. /\ c \in ActorType /\ c.prompt = a.prompt /\ c.sched = freed
          /\ freed.steered = a.sched.steered
      BY <1>1, <1>2, WithSched DEF SchedType
    <2> HIDE DEF c
    <2>1. b = [c EXCEPT !.prompt.state = state,
                        !.prompt.launched = @ \cup op.selected,
                        !.sched.steered[op.activeId] = @ \cup op.selected]
      BY <1>3, <1>8 DEF FinishSteer, SteerMatches
    <2>2. slots \in [Ids -> SUBSET Records]
      BY <1>1, <1>2, <1>8 DEF SchedType
    <2>3. state \in [Records -> States]
      BY <1>1, <2>c DEF PromptType, States
    <2>4. b = [a EXCEPT !.sched = s, !.prompt = p]
      <3>2. b = [c EXCEPT !.sched = [freed EXCEPT !.steered = slots], !.prompt = p]
        <4> HIDE DEF freed, op, state
        <4> QED BY <1>1, <2>1, <2>c, ZenonT(40) DEF ActorType, PromptType, SchedType
      <3>3. [freed EXCEPT !.steered = slots] = s
        <4> HIDE DEF slots
        <4> QED BY <1>1 DEF SchedType
      <3> HIDE DEF slots, s, p, freed
      <3> QED BY <3>2, <3>3 DEF ActorType, c
    <2> HIDE DEF state, slots
    <2>a. s \in SchedType
      BY <1>1, <2>2, NoOperationType DEF SchedType
    <2>5. p \in PromptType /\ p.state = state /\ p.id = a.prompt.id /\ p.cancelled = a.prompt.cancelled
      BY <1>1, <1>2, <2>3, <2>c DEF PromptType
    <2> HIDE DEF b, s, p
    <2>6. b \in ActorType /\ b.prompt = p /\ b.sched = s /\ b.jobs = a.jobs /\ b.turns = a.turns
      BY <2>a, <2>4, <2>5 DEF ActorType
    <2>7. b.sched = [a.sched EXCEPT !.steerInFlight = NoOperation,
                                    !.steered = [@ EXCEPT ![op.activeId] = a.sched.steered[op.activeId] \cup op.selected]]
      BY <2>6 DEF s, slots
    <2>8. b.prompt.state = [r \in Records |-> IF r \in op.selected THEN "steered" ELSE a.prompt.state[r]]
      BY <2>5, <2>6, <2>c DEF state
    <2> QED BY <1>8, <2>5, <2>6, <2>7, <2>8 DEF b, SteerJoined
  <1> QED BY <1>5, <1>6, <1>7, <1>8 DEF SteerMatches

-----------------------------------------------------------------------------
(***************************************************************************)
(* Every handler leaves each prompt in one slot, in the state that the     *)
(* slot stands for, and its id to it alone.                                *)
(***************************************************************************)
Good(a) == a \in ActorType /\ Placed(a) /\ Named(a)

LEMMA GoodSame ==
    ASSUME NEW a, Good(a), NEW b \in ActorType, b.sched = a.sched,
           b.prompt.state = a.prompt.state, b.prompt.id = a.prompt.id
    PROVE  Good(b)
  BY DEF Good, Placed, Named

LEMMA DriveGood ==
    ASSUME NEW a, Good(a)
    PROVE  Good(Drive(a)) /\ Drive(a).prompt = a.prompt /\ Drive(a).turns = a.turns
  <1>1. CASE ~DriveReady(a)
    BY <1>1 DEF Drive
  <1>2. CASE DriveReady(a)
    <2> DEFINE b == Drive(a)
               r == Front(a.sched.pending)
    <2>1. /\ b \in ActorType /\ r \in a.sched.pending /\ b.prompt = a.prompt /\ b.turns = a.turns
          /\ b.sched = [a.sched EXCEPT !.pending = @ \ {r}, !.launching = r]
      BY <1>2, DriveFields DEF Good
    <2> HIDE DEF b, r
    <2>2. a.sched \in SchedType /\ a.sched.launching = 0 /\ a.sched.active = 0
      BY <1>2, Shape DEF Good, DriveReady
    <2>3. /\ b.sched.active = a.sched.active /\ b.sched.steered = a.sched.steered
          /\ b.sched.steerInFlight = a.sched.steerInFlight
          /\ b.sched.pending = a.sched.pending \ {r} /\ b.sched.launching = r
      BY <2>1, <2>2 DEF SchedType
    <2>4. r \in Records
      BY <2>1, <2>2 DEF SchedType
    <2>5. Placed(b)
      BY <2>1, <2>2, <2>3, <2>4, RecordsNat DEF Good, Placed
    <2>6. Named(b)
      BY <2>1, <2>3 DEF Good, Named
    <2> QED BY <2>1, <2>5, <2>6 DEF Good, b
  <1> QED BY <1>1, <1>2

LEMMA DriveSteerGood ==
    ASSUME NEW a, Good(a)
    PROVE  Good(DriveSteer(a)) /\ DriveSteer(a).prompt = a.prompt /\ DriveSteer(a).turns = a.turns
  <1> DEFINE b == DriveSteer(a)
  <1>1. /\ b \in ActorType /\ b.prompt = a.prompt /\ b.turns = a.turns
        /\ \/ b = a
           \/ b.jobs = a.jobs /\ b.sched = [a.sched EXCEPT !.pendingSteers = <<>>]
           \/ \E W : SteerTaken(a, b, W)
    BY DriveSteerFields DEF Good
  <1> HIDE DEF b
  <1>2. a.sched \in SchedType
    BY Shape DEF Good
  <1>3. CASE b.sched = [a.sched EXCEPT !.pendingSteers = <<>>]
    <2>1. /\ b.sched.active = a.sched.active /\ b.sched.steered = a.sched.steered
          /\ b.sched.steerInFlight = a.sched.steerInFlight
          /\ b.sched.pending = a.sched.pending /\ b.sched.launching = a.sched.launching
      BY <1>2, <1>3 DEF SchedType
    <2> QED BY <1>1, <2>1 DEF Good, Placed, Named, b
  <1>4. ASSUME NEW W, SteerTaken(a, b, W) PROVE Good(b)
    <2>1. PICK rest : b.sched = [a.sched EXCEPT
              !.pendingSteers = rest, !.pending = @ \ W,
              !.steerInFlight = [id |-> a.sched.nextOperation,
                                 activeId |-> a.prompt.id[a.sched.active], selected |-> W],
              !.nextOperation = a.sched.nextOperation + 1]
      BY <1>4 DEF SteerTaken
    <2>2. /\ b.sched.active = a.sched.active /\ b.sched.steered = a.sched.steered
          /\ b.sched.pending = a.sched.pending \ W /\ b.sched.launching = a.sched.launching
          /\ b.sched.steerInFlight = [id |-> a.sched.nextOperation,
                                      activeId |-> a.prompt.id[a.sched.active], selected |-> W]
      BY <1>2, <2>1 DEF SchedType
    <2>3. b.sched.steerInFlight.selected = W /\ b.sched.steerInFlight.id # 0
      BY <1>2, <2>2 DEF SchedType
    <2>4. W \subseteq a.sched.pending /\ a.sched.steerInFlight.id = 0
      BY <1>4 DEF SteerTaken
    <2>5. Placed(b)
      BY <1>1, <2>2, <2>3, <2>4 DEF Good, Placed
    <2>6. Named(b)
      BY <1>1, <2>2 DEF Good, Named
    <2> QED BY <1>1, <2>5, <2>6 DEF Good
  <1> QED BY <1>1, <1>3, <1>4 DEF b

\* What a handler may do to the states x of the prompts: the operations of
\* PromptLifecycle, apart from Accept.
Starts(x, y) ==
    \E r \in Records : /\ x[r] = "pending" /\ \A q \in Records : x[q] # "running"
                       /\ y = [x EXCEPT ![r] = "running"]
Joins(x, y) ==
    \E R \in SUBSET Records :
        /\ \E q \in Records : x[q] = "running"
        /\ \A r \in R : x[r] = "pending"
        /\ y = [r \in Records |-> IF r \in R THEN "steered" ELSE x[r]]
Finishes(x, y) ==
    \E outcome \in {"completed", "failed", "cancelled"} :
        /\ \E q \in Records : x[q] = "running"
        /\ y = [r \in Records |-> IF x[r] \in {"running", "steered"} THEN outcome ELSE x[r]]
Drops(x, y) ==
    \E R \in SUBSET Records, outcome \in {"failed", "cancelled", "blocked"} :
        /\ \A r \in R : x[r] = "pending"
        /\ y = [r \in Records |-> IF r \in R THEN outcome ELSE x[r]]
CancelsAll(x, y) == y = [r \in Records |-> IF x[r] \in Alive THEN "cancelled" ELSE x[r]]
Evolves(x, y) ==
    y = x \/ Starts(x, y) \/ Joins(x, y) \/ Finishes(x, y) \/ Drops(x, y) \/ CancelsAll(x, y)

\* The terminal states are none of those of the living.
LEMMA TerminalIsDead == Alive \cap Terminal = {} /\ "unused" \notin Terminal
  BY DEF Alive, Terminal

LEMMA ClearAllGood ==
    ASSUME NEW a, Good(a)
    PROVE  /\ Good(ClearAll(a))
           /\ ClearAll(a).prompt.state =
                [r \in Records |-> IF a.prompt.state[r] \in Alive THEN "cancelled" ELSE a.prompt.state[r]]
  <1> DEFINE b == ClearAll(a)
             all == LiveRecords(a.sched)
  <1>1. /\ b \in ActorType /\ b.sched = EmptiedSched(a.sched)
        /\ b.prompt.state = [r \in Records |-> IF r \in all /\ a.prompt.state[r] \notin Terminal
                                               THEN "cancelled" ELSE a.prompt.state[r]]
        /\ b.prompt.id = a.prompt.id
    BY ClearAllFields DEF Good
  <1>2. a.sched \in SchedType
    BY Shape DEF Good
  <1>3. \A r \in Records : r \in all <=> a.prompt.state[r] \in Alive
    BY <1>2, LiveRecordsIn DEF Good, Placed, Alive
  <1> HIDE DEF b, all
  <1>4. b.prompt.state = [r \in Records |-> IF a.prompt.state[r] \in Alive THEN "cancelled"
                                            ELSE a.prompt.state[r]]
    BY <1>1, <1>3, TerminalIsDead
  <1>5. /\ b.sched.active = 0 /\ b.sched.launching = 0 /\ b.sched.pending = {}
        /\ b.sched.steered = [i \in Ids |-> {}] /\ b.sched.steerInFlight.id = 0
        /\ b.sched.steerInFlight.selected = {}
    <2>1. NoOperation.id = 0 /\ NoOperation.selected = {}
      BY DEF NoOperation
    <2> QED BY <1>1, <1>2, <2>1, EmptiedSchedType, ZenonT(40)
  <1>6. \A r \in Records : b.prompt.state[r] \notin Alive
    BY <1>4 DEF Alive
  <1>7. Placed(b)
    BY <1>5, <1>6, RecordsNat DEF Placed, Alive
  <1>8. Named(b)
    BY <1>5, <1>6 DEF Named
  <1> QED BY <1>1, <1>4, <1>7, <1>8 DEF Good, b

\* What settling does to the prompt of the launch slot.
LEMMA LaunchSettledGood ==
    ASSUME NEW a, Good(a), NEW b, NEW r \in Records, a.sched.launching = r,
           NEW outcome, NEW t, LaunchSettled(a, b, r, outcome, t)
    PROVE  /\ Good(b) /\ Drops(a.prompt.state, b.prompt.state)
           /\ b.jobs = a.jobs /\ b.turns.state = a.turns.state
  <1> DEFINE s == [a.sched EXCEPT !.launching = 0]
             cancel == TokenCancelled(r) /\ outcome = "started"
  <1>0. PICK st \in {"failed", "cancelled", "blocked"} : Settled(a, b, s, {r}, st, cancel, t)
    BY Zenon DEF LaunchSettled
  <1> HIDE DEF cancel
  <1>1. a.sched \in SchedType /\ a.prompt.state[r] = "pending"
    BY Shape DEF Good, Placed
  <1>2. /\ b.sched.active = a.sched.active /\ b.sched.steered = a.sched.steered
        /\ b.sched.steerInFlight = a.sched.steerInFlight
        /\ b.sched.pending = a.sched.pending /\ b.sched.launching = 0
    BY <1>0, <1>1 DEF Settled, SchedType
  <1> HIDE DEF s
  <1>3. b.prompt.state = [q \in Records |-> IF q \in {r} THEN st ELSE a.prompt.state[q]]
    BY <1>0, <1>1 DEF Settled, SettledStates, Terminal
  <1>4. /\ b \in ActorType /\ b.prompt.id = a.prompt.id
        /\ b.jobs = a.jobs /\ b.turns.state = a.turns.state
    BY <1>0 DEF Settled
  <1>5. Placed(b)
    BY <1>1, <1>2, <1>3, RecordsNat DEF Good, Placed, SchedType, OperationType
  <1>6. Named(b)
    BY <1>2, <1>3, <1>4 DEF Good, Named, Alive
  <1>7. Drops(a.prompt.state, b.prompt.state)
    <2>1. {r} \in SUBSET Records /\ \A q \in {r} : a.prompt.state[q] = "pending"
      BY <1>1
    <2> QED BY <1>3, <2>1 DEF Drops
  <1> QED BY <1>4, <1>5, <1>6, <1>7 DEF Good

LEMMA LaunchStartedGood ==
    ASSUME NEW a, Good(a), NEW b, NEW r \in Records, a.sched.launching = r, NEW t,
           LaunchStarted(a, b, r, t)
    PROVE  Good(b) /\ Starts(a.prompt.state, b.prompt.state)
  <1>0. /\ b.sched = [[a.sched EXCEPT !.launching = 0] EXCEPT !.active = r, !.turn = t]
        /\ b.prompt.state = [a.prompt.state EXCEPT ![r] = "running"] /\ b.prompt.id = a.prompt.id
        /\ b \in ActorType
    BY DEF LaunchStarted
  <1>1. a.sched \in SchedType /\ a.prompt.state[r] = "pending" /\ a.prompt.state \in [Records -> States]
    BY Shape DEF Good, Placed, PromptType
  <1>2. /\ b.sched.active = r /\ b.sched.steered = a.sched.steered
        /\ b.sched.steerInFlight = a.sched.steerInFlight
        /\ b.sched.pending = a.sched.pending /\ b.sched.launching = 0
    BY <1>0, <1>1 DEF SchedType
  <1>3. a.sched.active = 0
    BY RecordsNat DEF Good, Placed
  <1>4. \A q \in Records : b.prompt.state[q] = IF q = r THEN "running" ELSE a.prompt.state[q]
    BY <1>0, <1>1
  <1>5. Placed(b)
    BY <1>1, <1>2, <1>3, <1>4, RecordsNat DEF Good, Placed, SchedType, OperationType
  <1>6. Named(b)
    BY <1>0, <1>1, <1>2, <1>3, <1>4, RecordsNat DEF Good, Named, Alive
  <1>7. \A q \in Records : a.prompt.state[q] # "running"
    BY <1>3, RecordsNat DEF Good, Placed
  <1>8. Starts(a.prompt.state, b.prompt.state)
    BY <1>0, <1>1, <1>7 DEF Starts
  <1> QED BY <1>0, <1>5, <1>6, <1>8 DEF Good

\* finish_turn settles the running prompt and all that were steered into it.
LEMMA FinishTurnGood ==
    ASSUME NEW a, Good(a), NEW r \in Records, NEW result \in {"completed", "failed", "cancelled"},
           a.sched.active = r
    PROVE  /\ Good(FinishTurn(a, r, result))
           /\ Finishes(a.prompt.state, FinishTurn(a, r, result).prompt.state)
           /\ FinishTurn(a, r, result).jobs = a.jobs
           /\ FinishTurn(a, r, result).turns.state = a.turns.state
  <1> DEFINE b == FinishTurn(a, r, result)
             id == a.prompt.id[r]
             slots == [a.sched.steered EXCEPT ![id] = {}]
  <1>1. a.sched \in SchedType /\ a.prompt.state[r] = "running" /\ id \in Ids
    BY Shape DEF Good, Placed, Named, Alive
  <1>2. Settled(a, b, [a.sched EXCEPT !.active = 0, !.turn = 0, !.steered = slots],
                {r} \cup a.sched.steered[id], result, FALSE, 0)
    <2>1. TurnSettled(a, b, r, result)
      BY <1>1, FinishTurnFields DEF Good
    <2> QED BY <2>1, Zenon DEF TurnSettled
  <1> HIDE DEF b, id
  <1>3. /\ b.sched.active = 0 /\ b.sched.steered = slots
        /\ b.sched.steerInFlight = a.sched.steerInFlight
        /\ b.sched.pending = a.sched.pending /\ b.sched.launching = a.sched.launching
    BY <1>1, <1>2 DEF Settled, SchedType
  <1>4. \A i \in Ids : slots[i] = {} /\ (i # id => a.sched.steered[i] = {})
    <2>1. \A i \in Ids : i # id => a.sched.steered[i] = {}
      BY DEF Good, Named, id
    <2> QED BY <1>1, <2>1 DEF SchedType
  <1>5. \A q \in Records : q \in {r} \cup a.sched.steered[id] <=> a.prompt.state[q] \in {"running", "steered"}
    BY <1>1, <1>4 DEF Good, Placed
  <1>6. b.prompt.state = [q \in Records |-> IF a.prompt.state[q] \in {"running", "steered"}
                                            THEN result ELSE a.prompt.state[q]]
    BY <1>2, <1>5 DEF Settled, SettledStates, Terminal
  <1>7. /\ b \in ActorType /\ b.prompt.id = a.prompt.id
        /\ b.jobs = a.jobs /\ b.turns.state = a.turns.state
    BY <1>2 DEF Settled
  <1> HIDE DEF slots
  <1>10. Finishes(a.prompt.state, b.prompt.state)
    BY <1>1, <1>6 DEF Finishes
  <1>8. Placed(b)
    BY <1>3, <1>4, <1>6, RecordsNat DEF Good, Placed
  <1>9. Named(b)
    BY <1>3, <1>4, <1>6, <1>7 DEF Good, Named, Alive
  <1> QED BY <1>7, <1>8, <1>9, <1>10 DEF Good, b

LEMMA SteerSettledGood ==
    ASSUME NEW a, Good(a), NEW b, NEW k, NEW outcome, NEW t, SteerSettled(a, b, k, outcome, t)
    PROVE  /\ Good(b) /\ Drops(a.prompt.state, b.prompt.state)
           /\ b.jobs = a.jobs /\ b.turns.state = a.turns.state
  <1> DEFINE R == a.sched.steerInFlight.selected
             s == [a.sched EXCEPT !.steerInFlight = NoOperation]
             cancel == OperationCancelled(k) /\ outcome = "assigned"
  <1>0. PICK st \in {"failed", "cancelled"} : Settled(a, b, s, R, st, cancel, t)
    BY Zenon DEF SteerSettled
  <1> HIDE DEF cancel
  <1>1. a.sched \in SchedType
    BY Shape DEF Good
  <1>2. R \subseteq Records /\ \A r \in R : a.prompt.state[r] = "pending"
    BY <1>1 DEF Good, Placed, SchedType, OperationType
  <1>3. /\ b.sched.active = a.sched.active /\ b.sched.steered = a.sched.steered
        /\ b.sched.steerInFlight = NoOperation
        /\ b.sched.pending = a.sched.pending /\ b.sched.launching = a.sched.launching
    BY <1>0, <1>1 DEF Settled, SchedType
  <1> HIDE DEF s
  <1>4. NoOperation.id = 0 /\ NoOperation.selected = {}
    BY DEF NoOperation
  <1>5. b.prompt.state = [q \in Records |-> IF q \in R THEN st ELSE a.prompt.state[q]]
    BY <1>0, <1>2 DEF Settled, SettledStates, Terminal
  <1>6. /\ b \in ActorType /\ b.prompt.id = a.prompt.id
        /\ b.jobs = a.jobs /\ b.turns.state = a.turns.state
    BY <1>0 DEF Settled
  <1>7. Placed(b)
    BY <1>1, <1>2, <1>3, <1>4, <1>5, RecordsNat DEF Good, Placed
  <1>8. Named(b)
    BY <1>2, <1>3, <1>5, <1>6 DEF Good, Named, Alive
  <1>9. Drops(a.prompt.state, b.prompt.state)
    BY <1>2, <1>5 DEF Drops
  <1> QED BY <1>6, <1>7, <1>8, <1>9 DEF Good

LEMMA SteerJoinedGood ==
    ASSUME NEW a, Good(a), NEW b,
           a.sched.active # 0, a.prompt.id[a.sched.active] = a.sched.steerInFlight.activeId,
           SteerJoined(a, b)
    PROVE  Good(b) /\ Joins(a.prompt.state, b.prompt.state)
  <1> DEFINE R == a.sched.steerInFlight.selected
             i == a.sched.steerInFlight.activeId
             slots == [a.sched.steered EXCEPT ![i] = a.sched.steered[i] \cup R]
  <1>0. /\ b \in ActorType /\ b.prompt.id = a.prompt.id
        /\ b.sched = [a.sched EXCEPT !.steerInFlight = NoOperation, !.steered = slots]
        /\ b.prompt.state = [r \in Records |-> IF r \in R THEN "steered" ELSE a.prompt.state[r]]
    BY DEF SteerJoined
  <1>1. a.sched \in SchedType
    BY Shape DEF Good
  <1>2. R \subseteq Records /\ \A r \in R : a.prompt.state[r] = "pending"
    BY <1>1 DEF Good, Placed, SchedType, OperationType
  <1>3. /\ b.sched.active = a.sched.active /\ b.sched.steered = slots
        /\ b.sched.steerInFlight = NoOperation
        /\ b.sched.pending = a.sched.pending /\ b.sched.launching = a.sched.launching
    BY <1>0, <1>1 DEF SchedType
  <1>4. NoOperation.id = 0 /\ NoOperation.selected = {}
    BY DEF NoOperation
  <1>5. a.sched.active \in Records /\ a.prompt.state[a.sched.active] = "running" /\ i \in Ids
    BY <1>1 DEF Good, Placed, Named, SchedType, Alive
  <1> HIDE DEF R, i
  <1>6. \A n \in Ids : slots[n] = IF n = i THEN a.sched.steered[i] \cup R ELSE a.sched.steered[n]
    BY <1>1 DEF SchedType
  <1> HIDE DEF slots
  <1>7. \A q \in Records : b.prompt.state[q] = IF q \in R THEN "steered" ELSE a.prompt.state[q]
    BY <1>0
  <1>8. \A r \in Records : (\E n \in Ids : r \in b.sched.steered[n]) <=>
                             r \in R \/ \E n \in Ids : r \in a.sched.steered[n]
    BY <1>3, <1>5, <1>6
  <1>9. Placed(b)
    <2>1. \A r \in Records : b.prompt.state[r] = "steered" <=> \E n \in Ids : r \in b.sched.steered[n]
      BY <1>7, <1>8 DEF Good, Placed
    <2>2. \A r \in Records : b.prompt.state[r] = "running" <=> r = b.sched.active
      BY <1>2, <1>3, <1>7 DEF Good, Placed
    <2>3. \A r \in Records : b.prompt.state[r] = "pending" <=> r = b.sched.launching \/ r \in b.sched.pending
      <3>1. \A r \in R : r # a.sched.launching /\ r \notin a.sched.pending
        BY <1>2 DEF Good, Placed, R
      <3> QED BY <1>3, <1>7, <3>1 DEF Good, Placed, R
    <2> QED BY <1>3, <1>4, <2>1, <2>2, <2>3 DEF Good, Placed
  <1>10. Named(b)
    <2>1. \A r \in Records : b.prompt.state[r] \in Alive <=> a.prompt.state[r] \in Alive
      BY <1>2, <1>7 DEF Alive
    <2>2. \A n \in Ids : b.sched.steered[n] # {} => n = i
      BY <1>3, <1>6 DEF Good, Named, i
    <2> QED BY <1>0, <1>3, <1>5, <2>1, <2>2 DEF Good, Named, i
  <1>11. Joins(a.prompt.state, b.prompt.state)
    BY <1>0, <1>2, <1>5 DEF Joins
  <1> QED BY <1>0, <1>9, <1>10, <1>11 DEF Good

\* A prompt that is aborted in the queue is settled when it leaves it.
LEMMA AbortPendingGood ==
    ASSUME NEW a, Good(a), NEW r \in a.sched.pending
    PROVE  LET b == AbortPending(a, r)
           IN  /\ Good(b) /\ r \in Records /\ a.prompt.state[r] = "pending"
               /\ b.prompt.state = [q \in Records |-> IF q \in {r} THEN "cancelled" ELSE a.prompt.state[q]]
               /\ b.prompt.id = a.prompt.id /\ b.prompt.cancelled = a.prompt.cancelled \cup {r}
               /\ b.sched = [a.sched EXCEPT !.pending = @ \ {r}]
               /\ b.jobs = a.jobs /\ b.turns = a.turns
  <1> DEFINE b == AbortPending(a, r)
             c == [a EXCEPT !.sched.pending = @ \ {r}, !.prompt.cancelled = @ \cup {r}]
  <1>1. a.sched \in SchedType /\ a.prompt \in PromptType /\ a \in ActorType
    BY Shape DEF Good
  <1>2. r \in Records /\ a.prompt.state[r] = "pending"
    BY <1>1 DEF Good, Placed, SchedType
  <1>3. /\ c \in ActorType /\ c.jobs = a.jobs /\ c.turns = a.turns
        /\ c.sched = [a.sched EXCEPT !.pending = @ \ {r}]
        /\ c.prompt = [a.prompt EXCEPT !.cancelled = @ \cup {r}]
    BY <1>1, DequeuedFields
  <1>4. b = Settle(c, {r}, "cancelled")
    BY DEF AbortPending
  <1> HIDE DEF b, c
  <1>5. /\ c.prompt.state = a.prompt.state /\ c.prompt.id = a.prompt.id
        /\ c.prompt.cancelled = a.prompt.cancelled \cup {r}
    BY <1>1, <1>3 DEF PromptType
  <1>6. /\ b \in ActorType /\ b.sched = c.sched /\ b.jobs = a.jobs /\ b.turns = a.turns
        /\ b.prompt.state = [q \in Records |-> IF q \in {r} /\ a.prompt.state[q] \notin Terminal
                                               THEN "cancelled" ELSE a.prompt.state[q]]
        /\ b.prompt.id = a.prompt.id /\ b.prompt.cancelled = a.prompt.cancelled \cup {r}
    <2>1. "cancelled" \in Terminal /\ {r} \in SUBSET Records
      BY <1>2 DEF Terminal
    <2>2. /\ b \in ActorType /\ b.sched = c.sched /\ b.jobs = c.jobs /\ b.turns = c.turns
          /\ b.prompt.state = [q \in Records |-> IF q \in {r} /\ c.prompt.state[q] \notin Terminal
                                                 THEN "cancelled" ELSE c.prompt.state[q]]
          /\ b.prompt.id = c.prompt.id /\ b.prompt.cancelled = c.prompt.cancelled
      <3>1. c \in ActorType
        BY <1>3
      <3> QED BY ONLY <3>1, <1>4, <2>1, SettleFields
    <2> QED BY <1>3, <1>5, <2>2
  <1>7. b.prompt.state = [q \in Records |-> IF q \in {r} THEN "cancelled" ELSE a.prompt.state[q]]
    BY <1>2, <1>6 DEF Terminal
  <1>8. /\ b.sched.active = a.sched.active /\ b.sched.steered = a.sched.steered
        /\ b.sched.steerInFlight = a.sched.steerInFlight
        /\ b.sched.pending = a.sched.pending \ {r} /\ b.sched.launching = a.sched.launching
    BY <1>1, <1>3, <1>6 DEF SchedType
  <1>9. Placed(b)
    BY <1>2, <1>7, <1>8 DEF Good, Placed
  <1>10. Named(b)
    BY <1>2, <1>6, <1>7, <1>8 DEF Good, Named, Alive
  <1> QED BY <1>2, <1>3, <1>6, <1>7, <1>9, <1>10 DEF Good, b

-----------------------------------------------------------------------------
(***************************************************************************)
(* The handlers compose: what each keeps, and how the states of the        *)
(* prompts evolve.                                                         *)
(***************************************************************************)
Sound(a) == Good(a) /\ TurnsBorn(a) /\ JobsReport(a)

\* b is what a handler makes of a.
Keeps(a, b) ==
    /\ Sound(b) /\ b.turns.state = a.turns.state
    /\ Evolves(a.prompt.state, b.prompt.state)

LEMMA JobsSame ==
    ASSUME NEW a, Sound(a), NEW b, Good(b), b.turns.state = a.turns.state,
           b.jobs.launch = a.jobs.launch, b.jobs.monitor = a.jobs.monitor
    PROVE  Sound(b)
  BY DEF Sound, TurnsBorn, JobsReport, Born

LEMMA DriveSound ==
    ASSUME NEW a, Sound(a)
    PROVE  Sound(Drive(a)) /\ Drive(a).prompt = a.prompt /\ Drive(a).turns = a.turns
  <1>1. CASE ~DriveReady(a)
    BY <1>1 DEF Drive
  <1>2. CASE DriveReady(a)
    <2> DEFINE b == Drive(a)
               r == Front(a.sched.pending)
    <2>1. /\ Good(b) /\ r \in a.sched.pending /\ b.prompt = a.prompt /\ b.turns = a.turns
          /\ b.jobs = [a.jobs EXCEPT !.launch = [@ EXCEPT ![r] = HookJob]]
      BY <1>2, DriveFields, DriveGood DEF Good, Sound
    <2> HIDE DEF b, r
    <2>2. a.jobs \in JobsType
      BY Shape DEF Sound, Good
    <2>3. /\ b.jobs.launch = [a.jobs.launch EXCEPT ![r] = HookJob] /\ b.jobs.monitor = a.jobs.monitor
      BY <2>1, <2>2 DEF JobsType
    <2>4. \A q \in Records : b.jobs.launch[q] = IF q = r THEN HookJob ELSE a.jobs.launch[q]
      BY <2>2, <2>3 DEF JobsType
    <2>5. HookJob.turn = 0 /\ HookJob.pc = "hook"
      BY DEF HookJob
    <2>6. TurnsBorn(b)
      BY <2>1, <2>3, <2>4, <2>5 DEF Sound, TurnsBorn, Born
    <2>7. JobsReport(b)
      BY <2>4, <2>5 DEF Sound, JobsReport
    <2> QED BY <2>1, <2>6, <2>7 DEF Sound, b
  <1> QED BY <1>1, <1>2

LEMMA DriveSteerSound ==
    ASSUME NEW a, Sound(a)
    PROVE  Sound(DriveSteer(a)) /\ DriveSteer(a).prompt = a.prompt /\ DriveSteer(a).turns = a.turns
  <1> DEFINE b == DriveSteer(a)
  <1>1. Good(b) /\ b.prompt = a.prompt /\ b.turns = a.turns
    BY DriveSteerGood DEF Sound
  <1>2. \/ b = a \/ b.jobs = a.jobs
        \/ b.jobs = [a.jobs EXCEPT !.steer = [@ EXCEPT ![a.sched.nextOperation] = StartJob]]
    BY DriveSteerFields DEF SteerTaken, Sound, Good
  <1> HIDE DEF b
  <1>3. a.jobs \in JobsType
    BY Shape DEF Sound, Good
  <1>4. b.jobs.launch = a.jobs.launch /\ b.jobs.monitor = a.jobs.monitor
    BY <1>2, <1>3 DEF JobsType
  <1> QED BY <1>1, <1>4, JobsSame DEF b

LEMMA ClearAllKeeps ==
    ASSUME NEW a, Sound(a)
    PROVE  Keeps(a, ClearAll(a))
  <1> DEFINE b == ClearAll(a)
  <1>1. Good(b) /\ CancelsAll(a.prompt.state, b.prompt.state)
    BY ClearAllGood DEF Sound, CancelsAll
  <1>2. /\ b.turns.state = a.turns.state
        /\ b.jobs = [a.jobs EXCEPT !.steerCancelled = @ \cup ({a.sched.steerInFlight.id} \ {0})]
    BY ClearAllFields DEF Sound, Good
  <1> HIDE DEF b
  <1>3. a.jobs \in JobsType
    BY Shape DEF Sound, Good
  <1>4. b.jobs.launch = a.jobs.launch /\ b.jobs.monitor = a.jobs.monitor
    BY <1>2, <1>3 DEF JobsType
  <1> QED BY <1>1, <1>2, <1>4, JobsSame DEF b, Keeps, Evolves

\* The prompts whose tokens are cancelled do not matter to Sound.
LEMMA SameKeeps ==
    ASSUME NEW a, Sound(a), NEW b \in ActorType, b.sched = a.sched,
           b.prompt.state = a.prompt.state, b.prompt.id = a.prompt.id,
           b.turns.state = a.turns.state,
           b.jobs.launch = a.jobs.launch, b.jobs.monitor = a.jobs.monitor
    PROVE  Keeps(a, b)
  <1>1. Good(b)
    BY GoodSame DEF Sound
  <1> QED BY <1>1, JobsSame DEF Keeps, Evolves

LEMMA CancelTurnKeeps ==
    ASSUME NEW a, Sound(a), NEW t
    PROVE  Keeps(a, CancelTurn(a, t))
  <1> DEFINE b == CancelTurn(a, t)
  <1>1. /\ b \in ActorType /\ b.prompt = a.prompt /\ b.sched = a.sched /\ b.jobs = a.jobs
        /\ b.turns.state = a.turns.state
    BY CancelTurnFields DEF Sound, Good
  <1> HIDE DEF b
  <1> QED BY <1>1, SameKeeps DEF b

\* abort_prompt is one of five.
LEMMA AbortCases ==
    ASSUME NEW a, NEW id
    PROVE  \/ AbortPrompt(a, id) = a
           \/ a.sched.active # 0 /\ AbortPrompt(a, id) = AbortActive(a)
           \/ a.sched.launching # 0 /\ AbortPrompt(a, id) = AbortLaunching(a)
           \/ \E R : /\ R \subseteq a.sched.pending /\ R # {}
                     /\ AbortPrompt(a, id) = AbortPending(a, Front(R))
           \/ /\ a.sched.steerInFlight.selected # {}
              /\ AbortPrompt(a, id) = AbortSteerInFlight(a)
  <1> DEFINE named(R) == {r \in R : a.prompt.id[r] = id}
             s == a.sched
  <1>1. CASE named({s.active} \ {0}) # {}
    BY <1>1 DEF AbortPrompt
  <1>2. CASE named({s.active} \ {0}) = {} /\ named({s.launching} \ {0}) # {}
    BY <1>2 DEF AbortPrompt
  <1>3. CASE named({s.active} \ {0}) = {} /\ named({s.launching} \ {0}) = {} /\ named(s.pending) # {}
    <2>1. named({s.active, s.launching} \ {0}) = {}
      BY <1>3
    <2>2. AbortPrompt(a, id) = AbortPending(a, Front(named(s.pending)))
      BY <1>3, <2>1 DEF AbortPrompt
    <2>3. named(s.pending) \subseteq s.pending
      OBVIOUS
    <2> QED BY <1>3, <2>2, <2>3
  <1>4. CASE /\ named(({s.active, s.launching} \ {0}) \cup s.pending) = {}
             /\ named(s.steerInFlight.selected) # {}
    <2>1. named({s.active} \ {0}) = {} /\ named({s.launching} \ {0}) = {} /\ named(s.pending) = {}
          /\ named({s.active, s.launching} \ {0}) = {}
      BY <1>4
    <2>2. AbortPrompt(a, id) = AbortSteerInFlight(a)
      BY <1>4, <2>1 DEF AbortPrompt
    <2> QED BY <1>4, <2>2
  <1>5. CASE /\ named(({s.active, s.launching} \ {0}) \cup s.pending) = {}
             /\ named(s.steerInFlight.selected) = {}
    <2>1. named({s.active} \ {0}) = {} /\ named({s.launching} \ {0}) = {} /\ named(s.pending) = {}
          /\ named({s.active, s.launching} \ {0}) = {}
      BY <1>5
    <2> QED BY <1>5, <2>1 DEF AbortPrompt
  <1> QED BY <1>1, <1>2, <1>3, <1>4, <1>5

LEMMA AbortKeeps ==
    ASSUME NEW a, Sound(a), NEW id
    PROVE  Keeps(a, AbortPrompt(a, id))
  <1>1. /\ a \in ActorType /\ a.prompt \in PromptType /\ a.sched \in SchedType /\ a.jobs \in JobsType
    BY Shape DEF Sound, Good
  <1>2. Keeps(a, a)
    BY DEF Keeps, Evolves
  <1>3. ASSUME NEW r \in Records
        PROVE  LET c == [a EXCEPT !.prompt.cancelled = @ \cup {r}]
               IN  Keeps(a, c) /\ Keeps(a, CancelTurn(c, a.sched.turn))
    <2> DEFINE c == [a EXCEPT !.prompt.cancelled = @ \cup {r}]
    <2>1. /\ c \in ActorType /\ c.sched = a.sched /\ c.jobs = a.jobs /\ c.turns = a.turns
          /\ c.prompt = [a.prompt EXCEPT !.cancelled = @ \cup {r}]
      BY <1>1, TokenFields, ZenonT(40)
    <2> HIDE DEF c
    <2>2. c.prompt.state = a.prompt.state /\ c.prompt.id = a.prompt.id
      BY <1>1, <2>1 DEF PromptType
    <2>3. Keeps(a, c)
      BY <2>1, <2>2, SameKeeps
    <2>4. Keeps(c, CancelTurn(c, a.sched.turn))
      BY <2>3, CancelTurnKeeps DEF Keeps
    <2> QED BY <2>1, <2>2, <2>3, <2>4 DEF Keeps, c
  <1>4. a.sched.active # 0 => Keeps(a, AbortActive(a))
    BY <1>1, <1>3 DEF AbortActive, SchedType
  <1>5. a.sched.launching # 0 => Keeps(a, AbortLaunching(a))
    BY <1>1, <1>3 DEF AbortLaunching, SchedType
  <1>6. ASSUME NEW R, R \subseteq a.sched.pending, R # {}
        PROVE  Keeps(a, AbortPending(a, Front(R)))
    <2> DEFINE r == Front(R)
               b == AbortPending(a, r)
    <2>1. r \in a.sched.pending
      <3>1. R \subseteq Nat
        BY <1>1, <1>6, RecordsNat DEF SchedType
      <3> QED BY <1>6, <3>1, FrontIn
    <2> HIDE DEF r
    <2>2. /\ Good(b) /\ r \in Records /\ a.prompt.state[r] = "pending"
          /\ b.prompt.state = [q \in Records |-> IF q \in {r} THEN "cancelled" ELSE a.prompt.state[q]]
          /\ b.jobs = a.jobs /\ b.turns = a.turns
      BY <2>1, AbortPendingGood, ZenonT(40) DEF Sound
    <2> HIDE DEF b
    <2>3. Drops(a.prompt.state, b.prompt.state)
      <3>1. {r} \in SUBSET Records /\ "cancelled" \in {"failed", "cancelled", "blocked"}
        BY <2>2
      <3> QED BY <2>2, <3>1 DEF Drops
    <2> QED BY <2>2, <2>3, JobsSame DEF Keeps, Evolves, b, r
  <1>7. Keeps(a, AbortSteerInFlight(a))
    <2> DEFINE b == AbortSteerInFlight(a)
    <2>1. /\ b \in ActorType /\ b.prompt = a.prompt /\ b.sched = a.sched /\ b.turns = a.turns
          /\ b.jobs = [a.jobs EXCEPT !.steerCancelled = @ \cup {a.sched.steerInFlight.id}]
      BY <1>1, SteerTokenFields
    <2> HIDE DEF b
    <2>2. b.jobs.launch = a.jobs.launch /\ b.jobs.monitor = a.jobs.monitor
      BY <1>1, <2>1 DEF JobsType
    <2> QED BY <2>1, <2>2, SameKeeps DEF b
  <1> QED BY <1>2, <1>4, <1>5, <1>6, <1>7, AbortCases

LEMMA FinishLaunchKeeps ==
    ASSUME NEW a, Sound(a), NEW r \in Records, NEW outcome \in LaunchOutcomes,
           NEW t \in Turns \cup {0}, Born(a, t)
    PROVE  Keeps(a, FinishLaunch(a, r, outcome, t))
  <1> DEFINE b == FinishLaunch(a, r, outcome, t)
  <1>1. a \in ActorType /\ Good(a)
    BY DEF Sound, Good
  <1>f. /\ a.sched.launching # r /\ outcome = "started" => b = CancelTurn(a, t)
        /\ a.sched.launching # r /\ outcome # "started" => b = a
        /\ a.sched.launching = r /\ (TokenCancelled(r) \/ outcome # "started") =>
              LaunchSettled(a, b, r, outcome, t)
        /\ a.sched.launching = r /\ ~TokenCancelled(r) /\ outcome = "started" =>
              LaunchStarted(a, b, r, t)
    BY <1>1, FinishLaunchFields
  <1> HIDE DEF b
  <1>2. CASE a.sched.launching # r
    <2>1. Keeps(a, a)
      BY DEF Keeps, Evolves
    <2> QED BY <1>f, <1>2, <2>1, CancelTurnKeeps DEF b
  <1>3. CASE a.sched.launching = r /\ (TokenCancelled(r) \/ outcome # "started")
    <2>1. LaunchSettled(a, b, r, outcome, t)
      BY <1>f, <1>3
    <2>2. /\ Good(b) /\ Drops(a.prompt.state, b.prompt.state)
          /\ b.jobs = a.jobs /\ b.turns.state = a.turns.state
      BY <1>1, <1>3, <2>1, LaunchSettledGood
    <2> QED BY <2>2, JobsSame DEF Keeps, Evolves, b
  <1>4. CASE a.sched.launching = r /\ ~TokenCancelled(r) /\ outcome = "started"
    <2>1. LaunchStarted(a, b, r, t)
      BY <1>f, <1>4
    <2>2. Good(b) /\ Starts(a.prompt.state, b.prompt.state)
      BY <1>1, <1>4, <2>1, LaunchStartedGood
    <2>3. a.jobs \in JobsType
      BY <1>1, Shape
    <2>4. /\ b.jobs.launch = a.jobs.launch /\ b.turns = a.turns
          /\ \A q \in Records : b.jobs.monitor[q] = IF q = r THEN t ELSE a.jobs.monitor[q]
      BY <2>1, <2>3 DEF JobsType, LaunchStarted
    <2>5. TurnsBorn(b) /\ JobsReport(b)
      BY <2>4 DEF Sound, TurnsBorn, JobsReport, Born
    <2> QED BY <2>2, <2>4, <2>5 DEF Keeps, Sound, Evolves, b
  <1> QED BY <1>2, <1>3, <1>4

LEMMA FinishTurnKeeps ==
    ASSUME NEW a, Sound(a), NEW r \in Records, NEW result \in {"completed", "failed", "cancelled"}
    PROVE  Keeps(a, FinishTurn(a, r, result))
  <1> DEFINE b == FinishTurn(a, r, result)
  <1>1. CASE a.sched.active # r
    <2>1. b = a
      BY <1>1 DEF FinishTurn
    <2> QED BY <2>1 DEF Keeps, Evolves
  <1>2. CASE a.sched.active = r
    <2>0. Good(a)
      BY DEF Sound
    <2>1. /\ Good(b) /\ Finishes(a.prompt.state, b.prompt.state)
          /\ b.jobs = a.jobs /\ b.turns.state = a.turns.state
      BY <1>2, <2>0, FinishTurnGood
    <2> HIDE DEF b
    <2> QED BY <2>1, JobsSame DEF Keeps, Evolves, b
  <1> QED BY <1>1, <1>2

LEMMA FinishSteerKeeps ==
    ASSUME NEW a, Sound(a), NEW k, NEW outcome, NEW t
    PROVE  Keeps(a, FinishSteer(a, k, outcome, t))
  <1> DEFINE b == FinishSteer(a, k, outcome, t)
             op == a.sched.steerInFlight
  <1>1. a \in ActorType /\ Good(a) /\ a.sched \in SchedType
    BY Shape DEF Sound, Good
  <1>f. /\ op.id # k => b = a
        /\ op.id = k /\ ~SteerMatches(a, k, outcome, t) => SteerSettled(a, b, k, outcome, t)
        /\ op.id = k /\ SteerMatches(a, k, outcome, t) /\ op.activeId \in Ids => SteerJoined(a, b)
    BY <1>1, FinishSteerFields
  <1> HIDE DEF b
  <1>2. CASE op.id # k
    BY <1>f, <1>2 DEF Keeps, Evolves, b
  <1>3. CASE op.id = k /\ ~SteerMatches(a, k, outcome, t)
    <2>1. SteerSettled(a, b, k, outcome, t)
      BY <1>f, <1>3
    <2>2. /\ Good(b) /\ Drops(a.prompt.state, b.prompt.state)
          /\ b.jobs = a.jobs /\ b.turns.state = a.turns.state
      BY <1>1, <2>1, SteerSettledGood
    <2> QED BY <2>2, JobsSame DEF Keeps, Evolves, b
  <1>4. CASE op.id = k /\ SteerMatches(a, k, outcome, t)
    <2>1. a.sched.active # 0 /\ a.prompt.id[a.sched.active] = op.activeId /\ op.activeId \in Ids
      BY <1>1, <1>4 DEF SteerMatches, Good, Placed, Named, SchedType, Alive
    <2>2. SteerJoined(a, b)
      BY <1>f, <1>4, <2>1
    <2>3. Good(b) /\ Joins(a.prompt.state, b.prompt.state)
      BY <1>1, <2>1, <2>2, SteerJoinedGood
    <2>4. b.jobs = a.jobs /\ b.turns = a.turns
      BY <2>2 DEF SteerJoined
    <2> QED BY <2>3, <2>4, JobsSame DEF Keeps, Evolves, b
  <1> QED BY <1>2, <1>3, <1>4

LEMMA FinishKeeps ==
    ASSUME NEW a, Sound(a), NEW e \in EventType, Reports(a, e)
    PROVE  Keeps(a, Finish(a, e))
  <1>1. e.turn \in Turns \cup {0} /\ e.kind \in {"launch", "turn", "steer", "compaction"}
    BY DEF EventType
  <1>2. CASE e.kind = "launch"
    BY <1>1, <1>2, FinishLaunchKeeps DEF Finish, Reports
  <1>3. CASE e.kind = "turn"
    BY <1>1, <1>3, FinishTurnKeeps DEF Finish, Reports
  <1>4. CASE e.kind = "steer"
    BY <1>1, <1>4, FinishSteerKeeps DEF Finish, Reports
  <1>5. CASE e.kind = "compaction"
    BY <1>5 DEF Finish, Keeps, Evolves
  <1> QED BY <1>1, <1>2, <1>3, <1>4, <1>5

LEMMA DriveKeeps ==
    ASSUME NEW a, NEW c, Keeps(a, c)
    PROVE  Keeps(a, Drive(c)) /\ Keeps(a, Drive(DriveSteer(c)))
  <1>1. Sound(c)
    BY DEF Keeps
  <1>2. Sound(Drive(c)) /\ Drive(c).prompt = c.prompt /\ Drive(c).turns = c.turns
    BY <1>1, DriveSound
  <1>3. PICK d : d = DriveSteer(c)
    OBVIOUS
  <1>4. Sound(d) /\ d.prompt = c.prompt /\ d.turns = c.turns
    BY <1>1, <1>3, DriveSteerSound
  <1>5. Sound(Drive(d)) /\ Drive(d).prompt = d.prompt /\ Drive(d).turns = d.turns
    BY <1>4, DriveSound
  <1> QED BY <1>2, <1>3, <1>4, <1>5 DEF Keeps

\* A steer command waits its turn.
LEMMA AskedKeeps ==
    ASSUME NEW a, Sound(a), NEW ids \in SUBSET Ids
    PROVE  Keeps(a, [a EXCEPT !.sched.pendingSteers = Append(@, ids)])
  <1> DEFINE s == [a.sched EXCEPT !.pendingSteers = Append(@, ids)]
             c == [a EXCEPT !.sched = s]
  <1>1. a \in ActorType /\ a.sched \in SchedType
    BY Shape DEF Sound, Good
  <1>2. [a EXCEPT !.sched.pendingSteers = Append(@, ids)] = c
    BY <1>1 DEF ActorType, SchedType
  <1>3. Append(a.sched.pendingSteers, ids) \in Seq(SUBSET Ids)
    BY <1>1 DEF SchedType
  <1>4. /\ s \in SchedType
        /\ s.active = a.sched.active /\ s.steered = a.sched.steered
        /\ s.steerInFlight = a.sched.steerInFlight
        /\ s.pending = a.sched.pending /\ s.launching = a.sched.launching
    BY <1>1, <1>3 DEF SchedType
  <1> HIDE DEF s
  <1>5. c \in ActorType /\ c.prompt = a.prompt /\ c.sched = s /\ c.jobs = a.jobs /\ c.turns = a.turns
    BY <1>1, <1>4, WithSched
  <1> HIDE DEF c
  <1>6. Good(c)
    BY <1>4, <1>5 DEF Sound, Good, Placed, Named
  <1>7. Keeps(a, c)
    BY <1>5, <1>6, JobsSame DEF Keeps, Evolves
  <1> QED BY <1>2, <1>7 DEF c, s

\* No handler gives out a record.
LEMMA EvolvesUnused ==
    ASSUME NEW x \in [Records -> States], NEW y, Evolves(x, y)
    PROVE  \A r \in Records : y[r] = "unused" <=> x[r] = "unused"
  <1>1. CASE Starts(x, y)
    BY <1>1 DEF Starts
  <1>2. CASE Joins(x, y)
    BY <1>2 DEF Joins
  <1>3. CASE Finishes(x, y)
    BY <1>3 DEF Finishes
  <1>4. CASE Drops(x, y)
    BY <1>4 DEF Drops
  <1>5. CASE CancelsAll(x, y)
    BY <1>5 DEF CancelsAll, Alive
  <1> QED BY <1>1, <1>2, <1>3, <1>4, <1>5 DEF Evolves

-----------------------------------------------------------------------------
(***************************************************************************)
(* The steps.                                                              *)
(***************************************************************************)
LEMMA Committed ==
    ASSUME NEW b \in ActorType, Commit(b)
    PROVE  Actor' = b
  <1>1. b = [prompt |-> b.prompt, sched |-> b.sched, jobs |-> b.jobs, turns |-> b.turns]
    BY Shape
  <1>2. Actor' = [prompt |-> b.prompt, sched |-> b.sched, jobs |-> b.jobs, turns |-> b.turns]
    BY Zenon DEF Commit, Actor
  <1> QED BY <1>1, <1>2

LEMMA ActorFields ==
    /\ Actor.prompt = prompt /\ Actor.sched = sched /\ Actor.jobs = jobs /\ Actor.turns = turns
    /\ Actor'.prompt = prompt' /\ Actor'.sched = sched' /\ Actor'.jobs = jobs' /\ Actor'.turns = turns'
  BY DEF Actor

\* The invariant by its parts.
LEMMA InvParts ==
    /\ PromptInv <=> /\ Sound(Actor) /\ events \in Seq(EventType) /\ phase \in Phases /\ used \in UsedType
                     /\ Unused /\ EventsReport
    /\ PromptInv' <=> /\ Sound(Actor') /\ events' \in Seq(EventType) /\ phase' \in Phases
                      /\ used' \in UsedType /\ Unused' /\ EventsReport'
  BY Zenon DEF PromptInv, SchedulerTypes, Sound, Good

LEMMA HandlerStep ==
    ASSUME PromptInv, NEW b, Keeps(Actor, b), Commit(b),
           phase' \in Phases, used' \in UsedType, used'.prompts = used.prompts,
           events' \in Seq(EventType),
           \A i \in 1 .. Len(events') : \E j \in 1 .. Len(events) : events'[i] = events[j]
    PROVE  PromptInv' /\ Evolves(prompt.state, prompt'.state)
  <1>1. Sound(b) /\ b.turns.state = Actor.turns.state /\ Evolves(Actor.prompt.state, b.prompt.state)
    BY DEF Keeps
  <1>2. Actor' = b
    BY <1>1, Committed DEF Sound, Good
  <1>3. Evolves(prompt.state, prompt'.state) /\ turns'.state = turns.state
    BY <1>1, <1>2, ActorFields
  <1>4. Unused'
    <2>1. prompt.state \in [Records -> States]
      BY InvParts, ActorFields, Shape DEF Sound, Good, PromptType
    <2> QED BY <1>3, <2>1, InvParts, EvolvesUnused DEF Unused
  <1>5. EventsReport'
    <2> SUFFICES ASSUME NEW i \in 1 .. Len(events') PROVE Reports(Actor', events'[i])
      BY DEF EventsReport
    <2>1. PICK j \in 1 .. Len(events) : events'[i] = events[j]
      OBVIOUS
    <2>2. Reports(Actor, events[j])
      BY InvParts DEF EventsReport
    <2> QED BY <1>3, <2>1, <2>2, ActorFields DEF Reports, Born
  <1> QED BY <1>1, <1>2, <1>3, <1>4, <1>5, InvParts

\* A step of a task or of the environment: the queue is left alone.
LEMMA TaskStep ==
    ASSUME PromptInv, prompt' = prompt, sched' = sched, jobs' \in JobsType, turns' \in TurnsType,
           \A t \in Turns : turns.state[t] # "unborn" => turns'.state[t] # "unborn",
           TurnsBorn(Actor'), JobsReport(Actor'),
           phase' \in Phases, used' \in UsedType, used'.prompts = used.prompts,
           events' \in Seq(EventType),
           \A i \in 1 .. Len(events') :
              \/ \E j \in 1 .. Len(events) : events'[i] = events[j]
              \/ Reports(Actor', events'[i])
    PROVE  PromptInv'
  <1>1. Good(Actor) /\ events \in Seq(EventType) /\ Unused /\ EventsReport
    BY InvParts DEF Sound
  <1>2. Actor' \in ActorType
    <2>1. prompt \in PromptType /\ sched \in SchedType
      BY <1>1, ActorFields, Shape DEF Good
    <2> QED BY <2>1, MakeActor DEF Actor
  <1>3. Good(Actor')
    BY <1>1, <1>2, ActorFields, GoodSame
  <1>4. Unused'
    BY <1>1 DEF Unused
  <1>5. EventsReport'
    <2> SUFFICES ASSUME NEW i \in 1 .. Len(events') PROVE Reports(Actor', events'[i])
      BY DEF EventsReport
    <2>1. CASE \E j \in 1 .. Len(events) : events'[i] = events[j]
      <3>1. PICK j \in 1 .. Len(events) : events'[i] = events[j]
        BY <2>1
      <3>2. Reports(Actor, events[j]) /\ events[j] \in EventType
        BY <1>1 DEF EventsReport
      <3>3. events[j].turn \in Turns \cup {0}
        BY <3>2 DEF EventType
      <3> QED BY <3>1, <3>2, <3>3, ActorFields DEF Reports, Born
    <2> QED BY <2>1
  <1> QED BY <1>3, <1>4, <1>5, InvParts DEF Sound

\* The parts of the state that a task reads.
LEMMA StateTypes ==
    ASSUME PromptInv
    PROVE  /\ prompt \in PromptType /\ sched \in SchedType /\ jobs \in JobsType /\ turns \in TurnsType
           /\ events \in Seq(EventType) /\ phase \in Phases /\ used \in UsedType
           /\ \A r \in Records : /\ Born(Actor, jobs.launch[r].turn) /\ Born(Actor, jobs.monitor[r])
                                 /\ jobs.launch[r].pc = "send" => jobs.launch[r].outcome \in LaunchOutcomes
  <1>1. Actor \in ActorType /\ TurnsBorn(Actor) /\ JobsReport(Actor)
    BY InvParts DEF Sound, Good
  <1> QED BY <1>1, InvParts, ActorFields, Shape DEF TurnsBorn, JobsReport

\* What SendEvent does to the events.
LEMMA SentEvents ==
    ASSUME events \in Seq(EventType), NEW kind, NEW key, NEW outcome, NEW t,
           [kind |-> kind, key |-> key, outcome |-> outcome, turn |-> t] \in EventType,
           SendEvent(kind, key, outcome, t)
    PROVE  /\ events' \in Seq(EventType)
           /\ \A i \in 1 .. Len(events') :
                 \/ \E j \in 1 .. Len(events) : events'[i] = events[j]
                 \/ events'[i] = [kind |-> kind, key |-> key, outcome |-> outcome, turn |-> t]
  <1> DEFINE e == [kind |-> kind, key |-> key, outcome |-> outcome, turn |-> t]
  <1>1. events' = events \/ events' = Append(events, e)
    BY DEF SendEvent
  <1> HIDE DEF e
  <1>2. CASE events' = events
    BY <1>2
  <1>3. CASE events' = Append(events, e)
    <2>1. e \in EventType
      BY DEF e
    <2>2. /\ events' \in Seq(EventType) /\ Len(events') = Len(events) + 1
          /\ \A i \in 1 .. Len(events) + 1 : events'[i] = IF i <= Len(events) THEN events[i] ELSE e
      BY <1>3, <2>1, AppendProperties
    <2>3. ASSUME NEW i \in 1 .. Len(events')
          PROVE  (\E j \in 1 .. Len(events) : events'[i] = events[j]) \/ events'[i] = e
      BY <2>2, <2>3
    <2> QED BY <2>2, <2>3 DEF e
  <1> QED BY <1>1, <1>2, <1>3

\* A task that only changes its own entry, without a report.
LEMMA QuietStep ==
    ASSUME PromptInv, prompt' = prompt, sched' = sched, jobs' \in JobsType, turns' \in TurnsType,
           \A t \in Turns : turns.state[t] # "unborn" => turns'.state[t] # "unborn",
           TurnsBorn(Actor'), JobsReport(Actor'),
           phase' \in Phases, used' \in UsedType, used'.prompts = used.prompts, events' = events
    PROVE  PromptInv'
  <1>1. events \in Seq(EventType)
    BY InvParts
  <1> QED BY <1>1, TaskStep

\* The entry of a task, field by field.
JobSet(j, k, r, job) ==
    /\ k \in JobsType /\ k.monitor = j.monitor /\ k.steer = j.steer /\ k.steerCancelled = j.steerCancelled
    /\ \A q \in Records : k.launch[q] = IF q = r THEN job ELSE j.launch[q]

LEMMA JobSetIntro ==
    ASSUME NEW j \in JobsType, NEW r \in Records, NEW job \in JobType
    PROVE  JobSet(j, [j EXCEPT !.launch = [@ EXCEPT ![r] = job]], r, job)
  BY DEF JobsType, JobSet

LEMMA LaunchExcept ==
    ASSUME NEW j \in JobsType, NEW r \in Records
    PROVE  /\ j.launch[r] \in JobType
           /\ \A pc \in {"none", "hook", "start", "assigned", "send", "done"}, outcome \in Outcomes :
                JobSet(j, [j EXCEPT !.launch[r].pc = pc, !.launch[r].outcome = outcome], r,
                       [pc |-> pc, turn |-> j.launch[r].turn, outcome |-> outcome])
           /\ \A pc \in {"none", "hook", "start", "assigned", "send", "done"}, t \in Turns :
                JobSet(j, [j EXCEPT !.launch[r].pc = pc, !.launch[r].turn = t], r,
                       [pc |-> pc, turn |-> t, outcome |-> j.launch[r].outcome])
  <1> DEFINE PCs == {"none", "hook", "start", "assigned", "send", "done"}
  <1>1. j.launch[r] \in JobType
    BY DEF JobsType
  <1>2. ASSUME NEW k \in JobsType, NEW job \in JobType, JobSet(j, k, r, job), NEW new \in JobType
        PROVE  JobSet(j, [k EXCEPT !.launch[r] = new], r, new)
    <2>1. JobSet(k, [k EXCEPT !.launch = [@ EXCEPT ![r] = new]], r, new)
      BY JobSetIntro
    <2> QED BY <1>2, <2>1 DEF JobSet
  <1>3. ASSUME NEW pc \in PCs
        PROVE  LET job == [pc |-> pc, turn |-> j.launch[r].turn, outcome |-> j.launch[r].outcome]
               IN  job \in JobType /\ JobSet(j, [j EXCEPT !.launch[r].pc = pc], r, job)
    <2> DEFINE job == [pc |-> pc, turn |-> j.launch[r].turn, outcome |-> j.launch[r].outcome]
    <2>1. job \in JobType /\ [j.launch[r] EXCEPT !.pc = pc] = job
      BY <1>1 DEF JobType
    <2>2. [j EXCEPT !.launch[r].pc = pc] = [j EXCEPT !.launch = [@ EXCEPT ![r] = [j.launch[r] EXCEPT !.pc = pc]]]
      OBVIOUS
    <2> HIDE DEF job
    <2>3. JobSet(j, [j EXCEPT !.launch = [@ EXCEPT ![r] = job]], r, job)
      BY <2>1, JobSetIntro
    <2> QED BY <2>1, <2>2, <2>3 DEF job
  <1>4. ASSUME NEW pc \in PCs, NEW outcome \in Outcomes
        PROVE  JobSet(j, [j EXCEPT !.launch[r].pc = pc, !.launch[r].outcome = outcome], r,
                      [pc |-> pc, turn |-> j.launch[r].turn, outcome |-> outcome])
    <2> DEFINE k == [j EXCEPT !.launch[r].pc = pc]
               old == [pc |-> pc, turn |-> j.launch[r].turn, outcome |-> j.launch[r].outcome]
               job == [pc |-> pc, turn |-> j.launch[r].turn, outcome |-> outcome]
    <2>1. old \in JobType /\ JobSet(j, k, r, old)
      BY <1>3
    <2>2. [j EXCEPT !.launch[r].pc = pc, !.launch[r].outcome = outcome] = [k EXCEPT !.launch[r].outcome = outcome]
      OBVIOUS
    <2> HIDE DEF k
    <2>3. k \in JobsType /\ k.launch[r] = old
      BY <2>1 DEF JobSet
    <2>4. job \in JobType /\ [old EXCEPT !.outcome = outcome] = job
      BY <1>1 DEF JobType
    <2>5. [k EXCEPT !.launch[r].outcome = outcome] = [k EXCEPT !.launch[r] = [k.launch[r] EXCEPT !.outcome = outcome]]
      OBVIOUS
    <2> HIDE DEF old, job
    <2>6. JobSet(j, [k EXCEPT !.launch[r] = job], r, job)
      BY <1>2, <2>1, <2>3, <2>4
    <2>7. [k EXCEPT !.launch[r].outcome = outcome] = [k EXCEPT !.launch[r] = job]
      BY <2>3, <2>4, <2>5
    <2> QED BY <2>2, <2>6, <2>7, Zenon DEF job
  <1>5. ASSUME NEW pc \in PCs, NEW t \in Turns
        PROVE  JobSet(j, [j EXCEPT !.launch[r].pc = pc, !.launch[r].turn = t], r,
                      [pc |-> pc, turn |-> t, outcome |-> j.launch[r].outcome])
    <2> DEFINE k == [j EXCEPT !.launch[r].pc = pc]
               old == [pc |-> pc, turn |-> j.launch[r].turn, outcome |-> j.launch[r].outcome]
               job == [pc |-> pc, turn |-> t, outcome |-> j.launch[r].outcome]
    <2>1. old \in JobType /\ JobSet(j, k, r, old)
      BY <1>3
    <2>2. [j EXCEPT !.launch[r].pc = pc, !.launch[r].turn = t] = [k EXCEPT !.launch[r].turn = t]
      OBVIOUS
    <2> HIDE DEF k
    <2>3. k \in JobsType /\ k.launch[r] = old
      BY <2>1 DEF JobSet
    <2>4. job \in JobType /\ [old EXCEPT !.turn = t] = job
      BY <1>1 DEF JobType
    <2>5. [k EXCEPT !.launch[r].turn = t] = [k EXCEPT !.launch[r] = [k.launch[r] EXCEPT !.turn = t]]
      OBVIOUS
    <2> HIDE DEF old, job
    <2>6. JobSet(j, [k EXCEPT !.launch[r] = job], r, job)
      BY <1>2, <2>1, <2>3, <2>4
    <2>7. [k EXCEPT !.launch[r].turn = t] = [k EXCEPT !.launch[r] = job]
      BY <2>3, <2>4, <2>5
    <2> QED BY <2>2, <2>6, <2>7, Zenon DEF job
  <1> QED BY <1>1, <1>4, <1>5

LEMMA LaunchJobSet ==
    ASSUME PromptInv, NEW r \in Records, NEW job \in JobType, JobSet(jobs, jobs', r, job),
           turns' \in TurnsType, \A t \in Turns : turns.state[t] # "unborn" => turns'.state[t] # "unborn",
           Born(Actor', job.turn), job.pc = "send" => job.outcome \in LaunchOutcomes
    PROVE  jobs' \in JobsType /\ TurnsBorn(Actor') /\ JobsReport(Actor')
  <1>1. jobs \in JobsType
    BY StateTypes
  <1>2. /\ jobs' \in JobsType /\ jobs'.monitor = jobs.monitor
        /\ \A q \in Records : jobs'.launch[q] = IF q = r THEN job ELSE jobs.launch[q]
    BY DEF JobSet
  <1>3. \A q \in Records : jobs.launch[q].turn \in Turns \cup {0} /\ jobs.monitor[q] \in Turns \cup {0}
    BY <1>1 DEF JobsType, JobType
  <1>4. TurnsBorn(Actor')
    BY <1>2, <1>3, StateTypes, ActorFields DEF TurnsBorn, Born
  <1>5. JobsReport(Actor')
    BY <1>2, StateTypes, ActorFields DEF JobsReport
  <1> QED BY <1>2, <1>4, <1>5

LEMMA DecidedInv ==
    ASSUME PromptInv, NEW r \in Records, NEW outcome \in LaunchOutcomes, DecideLaunch(r, outcome),
           turns' \in TurnsType, turns'.state = turns.state,
           prompt' = prompt, sched' = sched, events' = events, phase' = phase, used' = used
    PROVE  PromptInv'
  <1> DEFINE job == [pc |-> "send", turn |-> jobs.launch[r].turn, outcome |-> outcome]
  <1>0. jobs \in JobsType
    BY StateTypes
  <1>1. JobSet(jobs, jobs', r, job)
    BY <1>0, LaunchExcept DEF DecideLaunch, LaunchOutcomes, Outcomes
  <1>2. jobs.launch[r] \in JobType
    BY <1>0, LaunchExcept
  <1>3. /\ job \in JobType /\ job.pc = "send" /\ job.turn = jobs.launch[r].turn /\ job.outcome = outcome
    BY <1>2 DEF JobType, LaunchOutcomes, Outcomes
  <1> HIDE DEF job
  <1>4. Born(Actor', job.turn)
    <2>1. Born(Actor, jobs.launch[r].turn)
      BY StateTypes
    <2> QED BY <1>3, <2>1, ActorFields DEF Born
  <1>5. jobs' \in JobsType /\ TurnsBorn(Actor') /\ JobsReport(Actor')
    BY <1>1, <1>3, <1>4, LaunchJobSet
  <1> QED BY <1>5, StateTypes, QuietStep

LEMMA EndsEarlyInv ==
    ASSUME PromptInv, NEW r \in Records, NEW outcome \in Refusals \cup {"cancelled"},
           LaunchEndsEarly(r, outcome)
    PROVE  PromptInv'
  <1>1. outcome \in LaunchOutcomes
    BY OutcomesAssumption DEF LaunchOutcomes
  <1> QED BY <1>1, StateTypes, DecidedInv DEF LaunchEndsEarly

\* The loop starts a turn.
LEMMA NewTurn ==
    ASSUME NEW w \in TurnsType
    PROVE  LET v == [w EXCEPT !.state[w.next] = "live", !.next = @ + 1]
           IN  /\ v \in TurnsType /\ v.cancelled = w.cancelled /\ v.next = w.next + 1
               /\ \A t \in Turns : v.state[t] = IF t = w.next THEN "live" ELSE w.state[t]
  <1> DEFINE state == [w.state EXCEPT ![w.next] = "live"]
             u == [w EXCEPT !.state = state]
             v == [w EXCEPT !.state[w.next] = "live", !.next = @ + 1]
  <1>1. /\ state \in [Turns -> TurnStates]
        /\ \A t \in Turns : state[t] = IF t = w.next THEN "live" ELSE w.state[t]
    BY DEF TurnsType, TurnStates
  <1> HIDE DEF state
  <1>2. u \in TurnsType /\ u.state = state /\ u.next = w.next /\ u.cancelled = w.cancelled
    BY <1>1 DEF TurnsType
  <1>3. v = [u EXCEPT !.next = u.next + 1]
    BY <1>2 DEF state
  <1> HIDE DEF u, v
  <1>4. v \in TurnsType /\ v.state = u.state /\ v.next = u.next + 1 /\ v.cancelled = u.cancelled
    BY <1>2, <1>3 DEF TurnsType
  <1> QED BY <1>1, <1>2, <1>4 DEF v

LEMMA LaunchEnqueuesInv ==
    ASSUME PromptInv, NEW r \in Records, LaunchEnqueues(r)
    PROVE  PromptInv'
  <1> DEFINE job == [pc |-> "assigned", turn |-> turns.next, outcome |-> jobs.launch[r].outcome]
  <1>0. jobs \in JobsType /\ turns.next \in Turns
    BY StateTypes DEF LaunchEnqueues
  <1>1. JobSet(jobs, jobs', r, job) /\ jobs.launch[r] \in JobType
    BY <1>0, LaunchExcept DEF LaunchEnqueues
  <1>2. turns \in TurnsType /\ turns.next \in Turns /\ turns' = [turns EXCEPT !.state[turns.next] = "live", !.next = @ + 1]
    BY StateTypes DEF LaunchEnqueues
  <1>3. /\ job \in JobType /\ job.pc = "assigned" /\ job.turn = turns.next
    BY <1>1, <1>2 DEF JobType
  <1> HIDE DEF job
  <1>4. /\ turns' \in TurnsType
        /\ \A t \in Turns : turns'.state[t] = IF t = turns.next THEN "live" ELSE turns.state[t]
    BY <1>2, NewTurn
  <1>5. \A t \in Turns : turns.state[t] # "unborn" => turns'.state[t] # "unborn"
    BY <1>4
  <1>6. Born(Actor', job.turn)
    BY <1>2, <1>3, <1>4, ActorFields DEF Born
  <1>7. jobs' \in JobsType /\ TurnsBorn(Actor') /\ JobsReport(Actor')
    BY <1>1, <1>3, <1>4, <1>5, <1>6, LaunchJobSet
  <1>8. UNCHANGED <<prompt, sched, events, phase, used>>
    BY DEF LaunchEnqueues
  <1> QED BY <1>4, <1>5, <1>7, <1>8, StateTypes, QuietStep

LEMMA LaunchAssignedInv ==
    ASSUME PromptInv, NEW r \in Records, LaunchAssigned(r)
    PROVE  PromptInv'
  <1>1. PICK outcome \in LaunchOutcomes :
           /\ DecideLaunch(r, outcome)
           /\ turns' = turns \/ turns' = CancelTurn(Actor, jobs.launch[r].turn).turns
    BY DEF LaunchAssigned, LaunchOutcomes
  <1>2. Actor \in ActorType
    BY InvParts DEF Sound, Good
  <1>3. turns' \in TurnsType /\ turns'.state = turns.state
    <2>1. CancelTurn(Actor, jobs.launch[r].turn) \in ActorType
          /\ CancelTurn(Actor, jobs.launch[r].turn).turns.state = Actor.turns.state
      BY <1>2, CancelTurnFields
    <2>2. CancelTurn(Actor, jobs.launch[r].turn).turns \in TurnsType
      BY <2>1, Shape
    <2> QED BY <1>1, <2>1, <2>2, StateTypes, ActorFields
  <1>4. UNCHANGED <<prompt, sched, events, phase, used>>
    BY DEF LaunchAssigned
  <1> QED BY <1>1, <1>3, <1>4, DecidedInv

LEMMA LaunchSendsInv ==
    ASSUME PromptInv, NEW r \in Records, LaunchSends(r)
    PROVE  PromptInv'
  <1> DEFINE job == [pc |-> "done", turn |-> jobs.launch[r].turn, outcome |-> "none"]
             e == [kind |-> "launch", key |-> r, outcome |-> jobs.launch[r].outcome,
                   turn |-> jobs.launch[r].turn]
  <1>0. jobs \in JobsType /\ "none" \in Outcomes
    BY StateTypes DEF Outcomes
  <1>1. JobSet(jobs, jobs', r, job) /\ jobs.launch[r] \in JobType
    BY <1>0, LaunchExcept DEF LaunchSends
  <1>2. /\ Born(Actor, jobs.launch[r].turn) /\ jobs.launch[r].outcome \in LaunchOutcomes
        /\ events \in Seq(EventType)
    BY StateTypes DEF LaunchSends
  <1>3. UNCHANGED <<prompt, sched, turns, phase, used>>
    BY DEF LaunchSends
  <1>4. job \in JobType /\ job.pc = "done" /\ job.turn = jobs.launch[r].turn
    BY <1>1 DEF JobType, Outcomes
  <1>5. /\ e \in EventType /\ e.kind = "launch" /\ e.key = r /\ e.outcome = jobs.launch[r].outcome
        /\ e.turn = jobs.launch[r].turn
    BY <1>1, RecordsNat DEF JobType, EventType
  <1>6. /\ events' \in Seq(EventType)
        /\ \A i \in 1 .. Len(events') : (\E j \in 1 .. Len(events) : events'[i] = events[j]) \/ events'[i] = e
    BY <1>2, <1>5, SentEvents DEF LaunchSends
  <1> HIDE DEF job, e
  <1>7. Born(Actor', job.turn)
    BY <1>2, <1>3, <1>4, ActorFields DEF Born
  <1>8. Reports(Actor', e)
    BY <1>2, <1>4, <1>5, <1>7 DEF Reports
  <1>9. turns \in TurnsType /\ phase \in Phases /\ used \in UsedType
    BY StateTypes
  <1>10. jobs' \in JobsType /\ TurnsBorn(Actor') /\ JobsReport(Actor')
    BY <1>1, <1>3, <1>4, <1>7, <1>9, LaunchJobSet
  <1> QED BY <1>3, <1>6, <1>8, <1>9, <1>10, TaskStep

\* The launches and the monitors stay as they are, and so do the turns.
LEMMA SteerTaskInv ==
    ASSUME PromptInv, jobs' \in JobsType, jobs'.launch = jobs.launch,
           \A q \in Records : jobs'.monitor[q] \in {jobs.monitor[q], 0},
           prompt' = prompt, sched' = sched, turns' = turns, phase' = phase, used' = used,
           events' \in Seq(EventType),
           \A i \in 1 .. Len(events') :
              \/ \E j \in 1 .. Len(events) : events'[i] = events[j]
              \/ Reports(Actor', events'[i])
    PROVE  PromptInv'
  <1>1. turns \in TurnsType /\ phase \in Phases /\ used \in UsedType
    BY StateTypes
  <1>2. TurnsBorn(Actor')
    BY StateTypes, ActorFields DEF TurnsBorn, Born
  <1>3. JobsReport(Actor')
    BY StateTypes, ActorFields DEF JobsReport
  <1> QED BY <1>1, <1>2, <1>3, TaskStep

LEMMA MonitorSendsInv ==
    ASSUME PromptInv, NEW r \in Records, MonitorSends(r)
    PROVE  PromptInv'
  <1> DEFINE t == jobs.monitor[r]
             e == [kind |-> "turn", key |-> r, outcome |-> turns.state[t], turn |-> t]
  <1>1. /\ jobs \in JobsType /\ turns \in TurnsType /\ events \in Seq(EventType) /\ Born(Actor, t)
    BY StateTypes
  <1>2. t \in Turns /\ turns.state[t] \in {"completed", "failed", "cancelled"}
    <2>1. t \in Turns
      BY <1>1 DEF MonitorSends, JobsType
    <2>2. turns.state[t] \in TurnStates /\ turns.state[t] # "live"
      BY <1>1, <2>1 DEF MonitorSends, TurnsType
    <2>3. turns.state[t] # "unborn"
      BY <1>1, ActorFields DEF MonitorSends, Born
    <2> QED BY <2>1, <2>2, <2>3 DEF TurnStates
  <1>3. /\ jobs' \in JobsType /\ jobs'.launch = jobs.launch
        /\ \A q \in Records : jobs'.monitor[q] \in {jobs.monitor[q], 0}
    <2>1. jobs' = [jobs EXCEPT !.monitor = [@ EXCEPT ![r] = 0]]
      BY DEF MonitorSends
    <2> QED BY <1>1, <2>1 DEF JobsType
  <1>4. UNCHANGED <<prompt, sched, turns, phase, used>>
    BY DEF MonitorSends
  <1>5. /\ e \in EventType /\ e.kind = "turn" /\ e.key = r /\ e.outcome = turns.state[t] /\ e.turn = t
    BY <1>2, RecordsNat DEF EventType, TurnStates
  <1>6. /\ events' \in Seq(EventType)
        /\ \A i \in 1 .. Len(events') : (\E j \in 1 .. Len(events) : events'[i] = events[j]) \/ events'[i] = e
    BY <1>1, <1>5, SentEvents DEF MonitorSends
  <1> HIDE DEF e, t
  <1>7. Reports(Actor', e)
    BY <1>1, <1>2, <1>4, <1>5, ActorFields DEF Reports, Born
  <1> QED BY <1>3, <1>4, <1>6, <1>7, SteerTaskInv

\* A steer task changes its own entry.
LEMMA SteerJobSet ==
    ASSUME PromptInv, NEW k \in Steers, NEW job \in JobType,
           jobs' = [jobs EXCEPT !.steer = [@ EXCEPT ![k] = job]]
    PROVE  /\ jobs' \in JobsType /\ jobs'.launch = jobs.launch
           /\ \A q \in Records : jobs'.monitor[q] \in {jobs.monitor[q], 0}
  <1>1. jobs \in JobsType
    BY StateTypes
  <1> QED BY <1>1 DEF JobsType

LEMMA TurnsNat == Turns \subseteq Nat /\ 0 \notin Turns
  BY BoundsAssumption DEF Turns

LEMMA LoopHeadIn ==
    ASSUME LoopRunning(Actor)
    PROVE  LoopHead(Actor) \in Turns /\ turns.state[LoopHead(Actor)] = "live"
  <1> DEFINE S == {t \in Turns : Actor.turns.state[t] = "live"}
  <1>1. S \subseteq Nat /\ S # {}
    BY TurnsNat DEF LoopRunning
  <1>2. Front(S) \in S
    BY <1>1, FrontIn
  <1> QED BY <1>2, ActorFields DEF LoopHead

LEMMA SteerEnqueuesInv ==
    ASSUME PromptInv, NEW k \in Steers, SteerEnqueues(k)
    PROVE  PromptInv'
  <1>1. PICK job \in JobType : jobs' = [jobs EXCEPT !.steer = [@ EXCEPT ![k] = job]]
    <2>1. CASE LoopRunning(Actor)
      <3>1. [pc |-> "assigned", turn |-> LoopHead(Actor), outcome |-> "none"] \in JobType
        BY <2>1, LoopHeadIn DEF JobType, Outcomes
      <3> QED BY <2>1, <3>1 DEF SteerEnqueues
    <2>2. CASE ~LoopRunning(Actor)
      <3>1. [pc |-> "send", turn |-> 0, outcome |-> "failed"] \in JobType
        BY DEF JobType, Outcomes
      <3> QED BY <2>2, <3>1 DEF SteerEnqueues
    <2> QED BY <2>1, <2>2
  <1>2. UNCHANGED <<prompt, sched, turns, events, phase, used>>
    BY DEF SteerEnqueues
  <1>3. /\ jobs' \in JobsType /\ jobs'.launch = jobs.launch
        /\ \A q \in Records : jobs'.monitor[q] \in {jobs.monitor[q], 0}
    BY <1>1, SteerJobSet
  <1>4. events \in Seq(EventType)
    BY StateTypes
  <1> QED BY <1>2, <1>3, <1>4, SteerTaskInv

\* Setting fields of a steer task.
SteerSet(j, k, n, job) ==
    /\ k \in JobsType /\ k.launch = j.launch /\ k.monitor = j.monitor /\ k.steerCancelled = j.steerCancelled
    /\ \A m \in Steers : k.steer[m] = IF m = n THEN job ELSE j.steer[m]

LEMMA SteerExcept ==
    ASSUME NEW j \in JobsType, NEW n \in Steers,
           NEW pc \in {"none", "hook", "start", "assigned", "send", "done"}, NEW outcome \in Outcomes
    PROVE  /\ j.steer[n] \in JobType
           /\ SteerSet(j, [j EXCEPT !.steer[n].pc = pc, !.steer[n].outcome = outcome], n,
                       [pc |-> pc, turn |-> j.steer[n].turn, outcome |-> outcome])
  <1> DEFINE k == [j EXCEPT !.steer[n].pc = pc]
             l == [j EXCEPT !.steer[n].pc = pc, !.steer[n].outcome = outcome]
             old == [pc |-> pc, turn |-> j.steer[n].turn, outcome |-> j.steer[n].outcome]
             job == [pc |-> pc, turn |-> j.steer[n].turn, outcome |-> outcome]
  <1>1. j.steer[n] \in JobType
    BY DEF JobsType
  <1>2. old \in JobType /\ job \in JobType /\ [j.steer[n] EXCEPT !.pc = pc] = old
        /\ [old EXCEPT !.outcome = outcome] = job
    BY <1>1 DEF JobType
  <1>3. k = [j EXCEPT !.steer = [@ EXCEPT ![n] = [j.steer[n] EXCEPT !.pc = pc]]]
    OBVIOUS
  <1>4. l = [k EXCEPT !.steer[n].outcome = outcome]
    OBVIOUS
  <1> HIDE DEF k, l, old, job
  <1>5. k = [j EXCEPT !.steer = [@ EXCEPT ![n] = old]]
    BY <1>2, <1>3
  <1>6. /\ k \in JobsType /\ k.launch = j.launch /\ k.monitor = j.monitor
        /\ k.steerCancelled = j.steerCancelled /\ \A m \in Steers : k.steer[m] = IF m = n THEN old ELSE j.steer[m]
    BY <1>2, <1>5 DEF JobsType
  <1>7. l = [k EXCEPT !.steer = [@ EXCEPT ![n] = [k.steer[n] EXCEPT !.outcome = outcome]]]
    BY <1>4
  <1>8. l = [k EXCEPT !.steer = [@ EXCEPT ![n] = job]]
    BY <1>2, <1>6, <1>7
  <1>9. /\ l \in JobsType /\ l.launch = k.launch /\ l.monitor = k.monitor
        /\ l.steerCancelled = k.steerCancelled /\ \A m \in Steers : l.steer[m] = IF m = n THEN job ELSE k.steer[m]
    BY <1>2, <1>6, <1>8 DEF JobsType
  <1> QED BY <1>1, <1>6, <1>9, Zenon DEF SteerSet, l, job

LEMMA SteerAssignedInv ==
    ASSUME PromptInv, NEW k \in Steers, SteerAssigned(k)
    PROVE  PromptInv'
  <1>0. jobs \in JobsType /\ events \in Seq(EventType)
    BY StateTypes
  <1>1. PICK outcome \in Outcomes : jobs' = [jobs EXCEPT !.steer[k].pc = "send", !.steer[k].outcome = outcome]
    <2>1. "cancelled" \in Outcomes /\ "assigned" \in Outcomes
      BY DEF Outcomes
    <2> QED BY <2>1 DEF SteerAssigned
  <1>2. SteerSet(jobs, jobs', k, [pc |-> "send", turn |-> jobs.steer[k].turn, outcome |-> outcome])
    BY <1>0, <1>1, SteerExcept
  <1>3. UNCHANGED <<prompt, sched, turns, events, phase, used>>
    BY DEF SteerAssigned
  <1>4. jobs' \in JobsType /\ jobs'.launch = jobs.launch /\ jobs'.monitor = jobs.monitor
    BY <1>2 DEF SteerSet
  <1> QED BY <1>0, <1>3, <1>4, SteerTaskInv

\* A steer task reports the turn that it found running.
LEMMA SteerSendsInv ==
    ASSUME PromptInv, NEW k \in Steers, SteerSends(k)
    PROVE  PromptInv'
  <1> DEFINE e == [kind |-> "steer", key |-> k, outcome |-> jobs.steer[k].outcome, turn |-> jobs.steer[k].turn]
  <1>0. jobs \in JobsType /\ events \in Seq(EventType) /\ "none" \in Outcomes
    BY StateTypes DEF Outcomes
  <1>1. /\ SteerSet(jobs, jobs', k, [pc |-> "done", turn |-> jobs.steer[k].turn, outcome |-> "none"])
        /\ jobs.steer[k] \in JobType
    BY <1>0, SteerExcept DEF SteerSends
  <1>2. UNCHANGED <<prompt, sched, turns, phase, used>>
    BY DEF SteerSends
  <1>3. jobs' \in JobsType /\ jobs'.launch = jobs.launch /\ jobs'.monitor = jobs.monitor
    BY <1>1 DEF SteerSet
  <1>4. k \in Nat
    BY BoundsAssumption DEF Steers
  <1>5. /\ e \in EventType /\ e.kind = "steer" /\ e.key = k /\ e.turn = jobs.steer[k].turn
    BY <1>1, <1>4 DEF EventType, JobType
  <1>6. /\ events' \in Seq(EventType)
        /\ \A i \in 1 .. Len(events') : (\E j \in 1 .. Len(events) : events'[i] = events[j]) \/ events'[i] = e
    BY <1>0, <1>5, SentEvents DEF SteerSends
  <1> HIDE DEF e
  <1>7. Reports(Actor', e)
    BY <1>5 DEF Reports
  <1> QED BY <1>2, <1>3, <1>6, <1>7, SteerTaskInv

\* The loop or a compaction moves on.
LEMMA EnvironmentInv ==
    ASSUME PromptInv, prompt' = prompt, sched' = sched, jobs' = jobs, events' = events,
           turns' \in TurnsType,
           \A t \in Turns : turns.state[t] # "unborn" => turns'.state[t] # "unborn",
           phase' \in Phases, used' \in UsedType, used'.prompts = used.prompts
    PROVE  PromptInv'
  <1>1. jobs \in JobsType
    BY StateTypes
  <1>2. \A q \in Records : jobs.launch[q].turn \in Turns \cup {0} /\ jobs.monitor[q] \in Turns \cup {0}
    BY <1>1 DEF JobsType, JobType
  <1>3. TurnsBorn(Actor')
    BY <1>2, StateTypes, ActorFields DEF TurnsBorn, Born
  <1>4. JobsReport(Actor')
    BY StateTypes, ActorFields DEF JobsReport
  <1> QED BY <1>1, <1>3, <1>4, QuietStep

LEMMA SettleTurnInv ==
    ASSUME PromptInv, NEW t \in Turns, NEW result \in Results \cup {"cancelled"}, SettleTurn(t, result)
    PROVE  PromptInv'
  <1>1. jobs \in JobsType /\ turns \in TurnsType /\ events \in Seq(EventType) /\ phase \in Phases /\ used \in UsedType
    BY StateTypes
  <1>2. UNCHANGED <<prompt, sched, jobs, events, phase, used>>
    BY DEF SettleTurn
  <1>3. turns' = [turns EXCEPT !.state = [@ EXCEPT ![t] = result]]
    BY DEF SettleTurn
  <1>4. result \in {"completed", "failed", "cancelled"}
    BY OutcomesAssumption
  <1>5. /\ turns' \in TurnsType
        /\ \A u \in Turns : turns'.state[u] = IF u = t THEN result ELSE turns.state[u]
    BY <1>1, <1>3, <1>4 DEF TurnsType, TurnStates
  <1>6. \A u \in Turns : turns.state[u] # "unborn" => turns'.state[u] # "unborn"
    BY <1>4, <1>5
  <1> QED BY <1>1, <1>2, <1>5, <1>6, EnvironmentInv

LEMMA InjectTurnInv ==
    ASSUME PromptInv, InjectTurn
    PROVE  PromptInv'
  <1>1. jobs \in JobsType /\ turns \in TurnsType /\ events \in Seq(EventType) /\ phase \in Phases /\ used \in UsedType
    BY StateTypes
  <1>2. UNCHANGED <<prompt, sched, jobs, events, phase>>
    BY DEF InjectTurn
  <1>3. turns' = [turns EXCEPT !.state[turns.next] = "live", !.next = @ + 1]
    BY DEF InjectTurn
  <1>4. /\ turns' \in TurnsType
        /\ \A t \in Turns : turns'.state[t] = IF t = turns.next THEN "live" ELSE turns.state[t]
    BY <1>1, <1>3, NewTurn
  <1>5. \A u \in Turns : turns.state[u] # "unborn" => turns'.state[u] # "unborn"
    BY <1>4
  <1>6. used' \in UsedType /\ used'.prompts = used.prompts
    BY <1>1 DEF InjectTurn, UsedType
  <1> QED BY <1>1, <1>2, <1>4, <1>5, <1>6, EnvironmentInv

LEMMA CompactionInv ==
    ASSUME PromptInv, BeginCompaction \/ EndCompaction \/ BeginShutdown
    PROVE  PromptInv'
  <1>1. jobs \in JobsType /\ turns \in TurnsType /\ events \in Seq(EventType) /\ phase \in Phases /\ used \in UsedType
    BY StateTypes
  <1>2. UNCHANGED <<prompt, sched, jobs, turns, events>>
    BY DEF BeginCompaction, EndCompaction, BeginShutdown
  <1>3. used' \in UsedType /\ used'.prompts = used.prompts
    BY <1>1 DEF BeginCompaction, EndCompaction, BeginShutdown, UsedType
  <1>4. phase' \in Phases
    BY <1>1 DEF BeginCompaction, EndCompaction, BeginShutdown, Phases
  <1> QED BY <1>1, <1>2, <1>3, <1>4, EnvironmentInv

LEMMA NotifyCompactionInv ==
    ASSUME PromptInv, NotifyCompaction
    PROVE  PromptInv'
  <1> DEFINE e == [kind |-> "compaction", key |-> 0, outcome |-> "none", turn |-> 0]
  <1>1. jobs \in JobsType /\ events \in Seq(EventType)
    BY StateTypes
  <1>2. UNCHANGED <<prompt, sched, jobs, turns, phase, used>>
    BY DEF NotifyCompaction
  <1>3. e \in EventType /\ e.kind = "compaction"
    BY DEF EventType, Outcomes
  <1>4. /\ events' \in Seq(EventType)
        /\ \A i \in 1 .. Len(events') : (\E j \in 1 .. Len(events) : events'[i] = events[j]) \/ events'[i] = e
    BY <1>1, <1>3, SentEvents DEF NotifyCompaction
  <1> HIDE DEF e
  <1>5. Reports(Actor', e)
    BY <1>3 DEF Reports
  <1> QED BY <1>1, <1>2, <1>4, <1>5, SteerTaskInv

\* The commands and the events.
LEMMA SteerInv ==
    ASSUME PromptInv, NEW ids \in SUBSET Ids, Steer(ids)
    PROVE  PromptInv' /\ Evolves(prompt.state, prompt'.state)
  <1> DEFINE asked == [Actor EXCEPT !.sched.pendingSteers = Append(@, ids)]
             b == Drive(DriveSteer(asked))
  <1>1. Sound(Actor) /\ events \in Seq(EventType) /\ phase \in Phases /\ used \in UsedType
    BY InvParts
  <1>2. Keeps(Actor, asked)
    BY <1>1, AskedKeeps
  <1> HIDE DEF asked
  <1>3. Keeps(Actor, b)
    BY <1>2, DriveKeeps
  <1>4. Commit(b) /\ UNCHANGED <<events, phase>>
    BY DEF Steer, asked
  <1>5. used' \in UsedType /\ used'.prompts = used.prompts
    BY <1>1 DEF Steer, UsedType
  <1> HIDE DEF b
  <1> QED BY <1>1, <1>3, <1>4, <1>5, HandlerStep

LEMMA AbortInv ==
    ASSUME PromptInv, NEW id, Abort(id)
    PROVE  PromptInv' /\ Evolves(prompt.state, prompt'.state)
  <1> DEFINE b == Drive(AbortPrompt(Actor, id))
  <1>1. Sound(Actor) /\ events \in Seq(EventType) /\ phase \in Phases /\ used \in UsedType
    BY InvParts
  <1>2. Keeps(Actor, AbortPrompt(Actor, id))
    BY <1>1, AbortKeeps
  <1>3. Keeps(Actor, b)
    BY <1>2, DriveKeeps
  <1>4. Commit(b) /\ UNCHANGED <<events, phase, used>>
    BY DEF Abort
  <1> HIDE DEF b
  <1> QED BY <1>1, <1>3, <1>4, HandlerStep

LEMMA ClearInv ==
    ASSUME PromptInv, Clear
    PROVE  PromptInv' /\ Evolves(prompt.state, prompt'.state)
  <1>1. Sound(Actor) /\ events \in Seq(EventType) /\ phase \in Phases /\ used \in UsedType
    BY InvParts
  <1>2. Keeps(Actor, ClearAll(Actor))
    BY <1>1, ClearAllKeeps
  <1>3. Commit(ClearAll(Actor)) /\ UNCHANGED <<events, phase>>
    BY DEF Clear
  <1>4. used' \in UsedType /\ used'.prompts = used.prompts
    BY <1>1 DEF Clear, UsedType
  <1> QED BY <1>1, <1>2, <1>3, <1>4, HandlerStep

LEMMA ActorExitInv ==
    ASSUME PromptInv, ActorExit
    PROVE  PromptInv' /\ Evolves(prompt.state, prompt'.state)
  <1>1. Sound(Actor) /\ phase' \in Phases /\ used \in UsedType
    BY InvParts DEF ActorExit, Phases
  <1>2. Keeps(Actor, ClearAll(Actor))
    BY <1>1, ClearAllKeeps
  <1>3. Commit(ClearAll(Actor)) /\ used' = used /\ events' = <<>>
    BY DEF ActorExit
  <1>4. events' \in Seq(EventType) /\ Len(events') = 0
    BY <1>3, EmptySeq
  <1> QED BY <1>1, <1>2, <1>3, <1>4, HandlerStep

LEMMA HandleEventInv ==
    ASSUME PromptInv, HandleEvent
    PROVE  PromptInv' /\ Evolves(prompt.state, prompt'.state)
  <1> DEFINE e == Head(events)
             b == Drive(DriveSteer(Finish(Actor, e)))
  <1>1. Sound(Actor) /\ events \in Seq(EventType) /\ phase \in Phases /\ used \in UsedType /\ EventsReport
    BY InvParts
  <1>2. /\ Commit(b) /\ events' = Tail(events) /\ events # <<>> /\ UNCHANGED <<phase, used>>
    BY DEF HandleEvent
  <1>3. /\ e = events[1] /\ e \in EventType /\ 1 \in 1 .. Len(events)
        /\ events' \in Seq(EventType)
        /\ \A i \in 1 .. Len(events') : i + 1 \in 1 .. Len(events) /\ events'[i] = events[i + 1]
    BY <1>1, <1>2
  <1>4. Reports(Actor, e)
    BY <1>1, <1>3 DEF EventsReport
  <1> HIDE DEF e
  <1>5. Keeps(Actor, Finish(Actor, e))
    BY <1>1, <1>3, <1>4, FinishKeeps
  <1>6. Keeps(Actor, b)
    BY <1>5, DriveKeeps
  <1> HIDE DEF b
  <1>7. \A i \in 1 .. Len(events') : \E j \in 1 .. Len(events) : events'[i] = events[j]
    BY <1>3
  <1> QED BY <1>1, <1>2, <1>3, <1>6, <1>7, HandlerStep

\* A command brings a prompt: a record that was never used, under an id that
\* no living prompt has.
Accepted(a, r, id) ==
    [a EXCEPT !.prompt.state[r] = "pending", !.prompt.id[r] = id, !.sched.pending = @ \cup {r}]

LEMMA AcceptedFields ==
    ASSUME NEW a \in ActorType, NEW r \in Records, NEW id \in Ids
    PROVE  LET c == Accepted(a, r, id)
           IN  /\ c \in ActorType /\ c.jobs = a.jobs /\ c.turns = a.turns
               /\ c.sched = [a.sched EXCEPT !.pending = @ \cup {r}]
               /\ c.prompt.state = [a.prompt.state EXCEPT ![r] = "pending"]
               /\ c.prompt.id = [a.prompt.id EXCEPT ![r] = id]
               /\ c.prompt.cancelled = a.prompt.cancelled
  <1> DEFINE p == [a.prompt EXCEPT !.state = [a.prompt.state EXCEPT ![r] = "pending"],
                                   !.id = [a.prompt.id EXCEPT ![r] = id]]
             s == [a.sched EXCEPT !.pending = @ \cup {r}]
             c == [a EXCEPT !.prompt.state[r] = "pending", !.prompt.id[r] = id,
                            !.sched.pending = @ \cup {r}]
  <1>1. a.prompt \in PromptType /\ a.sched \in SchedType
    BY Shape
  <1>2. c = [a EXCEPT !.prompt = p, !.sched = s]
    BY <1>1 DEF ActorType, PromptType, SchedType
  <1>3. /\ p \in PromptType /\ p.state = [a.prompt.state EXCEPT ![r] = "pending"]
        /\ p.id = [a.prompt.id EXCEPT ![r] = id] /\ p.cancelled = a.prompt.cancelled
    BY <1>1 DEF PromptType, States
  <1>4. s \in SchedType
    BY <1>1 DEF SchedType
  <1> HIDE DEF p, s, c
  <1>5. c \in ActorType /\ c.prompt = p /\ c.sched = s /\ c.jobs = a.jobs /\ c.turns = a.turns
    BY <1>2, <1>3, <1>4 DEF ActorType
  <1> QED BY <1>3, <1>5 DEF c, s, Accepted

LEMMA AcceptedGood ==
    ASSUME NEW a, Good(a), NEW r \in Records, NEW id \in Ids, a.prompt.state[r] = "unused",
           \A q \in LiveRecords(a.sched) : a.prompt.id[q] # id
    PROVE  Good(Accepted(a, r, id))
  <1> DEFINE c == Accepted(a, r, id)
  <1>0. /\ c \in ActorType /\ c.sched = [a.sched EXCEPT !.pending = @ \cup {r}]
        /\ c.prompt.state = [a.prompt.state EXCEPT ![r] = "pending"]
        /\ c.prompt.id = [a.prompt.id EXCEPT ![r] = id]
    BY AcceptedFields DEF Good
  <1> HIDE DEF c
  <1>1. a.sched \in SchedType /\ a.prompt \in PromptType
    BY Shape DEF Good
  <1>2. /\ c.sched.active = a.sched.active /\ c.sched.steered = a.sched.steered
        /\ c.sched.steerInFlight = a.sched.steerInFlight
        /\ c.sched.pending = a.sched.pending \cup {r} /\ c.sched.launching = a.sched.launching
    BY <1>0, <1>1 DEF SchedType
  <1>3. \A q \in Records : /\ c.prompt.state[q] = IF q = r THEN "pending" ELSE a.prompt.state[q]
                           /\ c.prompt.id[q] = IF q = r THEN id ELSE a.prompt.id[q]
    BY <1>0, <1>1 DEF PromptType
  <1>4. /\ r # a.sched.active /\ r # a.sched.launching /\ r \notin a.sched.pending
        /\ r \notin a.sched.steerInFlight.selected
    BY DEF Good, Placed
  <1>5. Placed(c)
    <2>1. \A q \in Records : c.prompt.state[q] = "running" <=> q = c.sched.active
      BY <1>2, <1>3, <1>4 DEF Good, Placed
    <2>2. \A q \in Records : c.prompt.state[q] = "steered" <=> \E i \in Ids : q \in c.sched.steered[i]
      BY <1>2, <1>3 DEF Good, Placed
    <2>3. \A q \in Records : c.prompt.state[q] = "pending" <=>
              q = c.sched.launching \/ q \in c.sched.pending \/ q \in c.sched.steerInFlight.selected
      BY <1>2, <1>3, <1>4 DEF Good, Placed
    <2> QED BY <1>2, <1>4, <2>1, <2>2, <2>3 DEF Good, Placed
  <1>6. Named(c)
    <2>1. \A q \in Records : a.prompt.state[q] \in Alive => a.prompt.id[q] # id
      <3>1. \A q \in Records : a.prompt.state[q] \in Alive => q \in LiveRecords(a.sched)
        BY <1>1, LiveRecordsIn DEF Good, Placed, Alive
      <3> QED BY <3>1
    <2>2. \A q \in Records : c.prompt.state[q] \in Alive => c.prompt.id[q] \in Ids
      BY <1>3 DEF Good, Named
    <2>3. \A q, n \in Records : c.prompt.state[q] \in Alive /\ c.prompt.state[n] \in Alive
                                 /\ c.prompt.id[q] = c.prompt.id[n] => q = n
      BY <1>3, <2>1 DEF Good, Named
    <2>4. \A i \in Ids : c.sched.steered[i] # {} => c.sched.active # 0 /\ c.prompt.id[c.sched.active] = i
      BY <1>1, <1>2, <1>3, <1>4 DEF Good, Named, SchedType
    <2> QED BY <2>2, <2>3, <2>4 DEF Named
  <1> QED BY <1>0, <1>5, <1>6 DEF Good, c

LEMMA EnqueueInv ==
    ASSUME PromptInv, NEW id \in Ids, Enqueue(id)
    PROVE  /\ PromptInv'
           /\ \E r \in Records : prompt.state[r] = "unused" /\ prompt'.state = [prompt.state EXCEPT ![r] = "pending"]
  <1>0. PICK r : r = used.prompts + 1
    OBVIOUS
  <1> DEFINE c == Accepted(Actor, r, id)
             b == Drive(c)
  <1>1. /\ Sound(Actor) /\ Good(Actor) /\ Actor \in ActorType
        /\ events \in Seq(EventType) /\ phase \in Phases /\ used \in UsedType
        /\ EventsReport /\ Unused
    BY InvParts DEF Sound, Good
  <1>2. used.prompts \in 0 .. MaxPrompts /\ used.prompts < MaxPrompts
    BY <1>1 DEF Enqueue, UsedType
  <1>3. r \in Records
    BY <1>0, <1>2, BoundsAssumption DEF Records
  <1>4. prompt.state[r] = "unused"
    BY <1>0, <1>1, <1>2, <1>3 DEF Unused
  <1>5. /\ Commit(b) /\ UNCHANGED <<events, phase>> /\ \A q \in LiveRecords(sched) : prompt.id[q] # id
        /\ used' = [used EXCEPT !.prompts = @ + 1]
    BY <1>0, Zenon DEF Enqueue, Accepted
  <1>6. used' \in UsedType /\ used'.prompts = r
    BY <1>0, <1>1, <1>2, <1>5, BoundsAssumption, SMTT(30) DEF UsedType
  <1>7. /\ c \in ActorType /\ c.jobs = Actor.jobs /\ c.turns = Actor.turns
        /\ c.sched = [Actor.sched EXCEPT !.pending = @ \cup {r}]
        /\ c.prompt.state = [Actor.prompt.state EXCEPT ![r] = "pending"]
        /\ c.prompt.id = [Actor.prompt.id EXCEPT ![r] = id]
    BY <1>1, <1>3, AcceptedFields, SMTT(30)
  <1> HIDE DEF c
  <1>8. Good(c)
    <2>1. Actor.prompt.state[r] = "unused" /\ \A q \in LiveRecords(Actor.sched) : Actor.prompt.id[q] # id
      BY <1>4, <1>5, ActorFields
    <2> QED BY <1>1, <1>3, <2>1, AcceptedGood DEF c
  <1>9. Sound(c)
    BY <1>1, <1>7, <1>8, JobsSame
  <1>10. Sound(b) /\ b.prompt = c.prompt /\ b.turns = c.turns
    BY <1>9, DriveSound
  <1> HIDE DEF b
  <1>11. Actor' = b
    BY <1>5, <1>10, Committed DEF Sound, Good
  <1>12. prompt'.state = [prompt.state EXCEPT ![r] = "pending"] /\ turns' = turns
    BY <1>7, <1>10, <1>11, ActorFields
  <1>13. Unused'
    <2>1. prompt.state \in [Records -> States]
      BY <1>1, ActorFields, Shape DEF PromptType
    <2>2. \A q \in Records : prompt'.state[q] = IF q = r THEN "pending" ELSE prompt.state[q]
      BY <1>12, <2>1
    <2>3. \A q \in Records : q \in Nat /\ (q > used'.prompts <=> q # r /\ q > used.prompts)
      BY <1>0, <1>2, <1>6, RecordsNat
    <2>4. \A q \in Records : prompt.state[q] = "unused" <=> q > used.prompts
      BY <1>1 DEF Unused
    <2> QED BY <2>2, <2>3, <2>4 DEF Unused
  <1>14. EventsReport'
    BY <1>1, <1>5, <1>12, ActorFields DEF EventsReport, Reports, Born
  <1>15. PromptInv'
    BY <1>1, <1>5, <1>6, <1>10, <1>11, <1>13, <1>14, InvParts
  <1> QED BY <1>3, <1>4, <1>12, <1>15

LEMMA PromptInit == Init => PromptInv
  <1> SUFFICES ASSUME Init PROVE PromptInv
    OBVIOUS
  <1>1. prompt \in PromptType
    BY DEF Init, PromptType, States
  <1>2. sched \in SchedType
    <2>1. PICK none \in Seq(SUBSET Ids) : none = <<>>
      BY EmptySeq
    <2>2. sched = [active |-> 0, turn |-> 0, pending |-> {}, launching |-> 0,
                   steered |-> [i \in Ids |-> {}], steerInFlight |-> NoOperation,
                   pendingSteers |-> none, nextOperation |-> 1]
      BY <2>1, Zenon DEF Init
    <2> QED BY <2>2, NoOperationType DEF SchedType
  <1>3. jobs \in JobsType
    BY JobTypes DEF Init, JobsType
  <1>4. turns \in TurnsType
    BY DEF Init, TurnsType, TurnStates
  <1>5. Actor \in ActorType
    BY <1>1, <1>2, <1>3, <1>4, MakeActor DEF Actor
  <1>6. events \in Seq(EventType) /\ Len(events) = 0 /\ phase \in Phases /\ used \in UsedType
    BY EmptySeq, BoundsAssumption DEF Init, Phases, UsedType
  <1>7. /\ sched.active = 0 /\ sched.launching = 0 /\ sched.pending = {} /\ sched.steerInFlight = NoOperation
        /\ \A i \in Ids : sched.steered[i] = {}
        /\ \A r \in Records : prompt.state[r] = "unused" /\ jobs.launch[r] = NoJob /\ jobs.monitor[r] = 0
    BY DEF Init
  <1>8. NoOperation.id = 0 /\ NoOperation.selected = {} /\ NoJob.turn = 0 /\ NoJob.pc = "none"
    BY DEF NoOperation, NoJob
  <1>9. Placed(Actor)
    BY <1>7, <1>8, RecordsNat, ActorFields DEF Placed
  <1>10. Named(Actor)
    BY <1>7, ActorFields DEF Named, Alive
  <1>11. TurnsBorn(Actor) /\ JobsReport(Actor)
    BY <1>7, <1>8, ActorFields DEF TurnsBorn, JobsReport, Born
  <1>12. Unused
    BY <1>7, RecordsNat DEF Unused, Init, Records
  <1> QED BY <1>5, <1>6, <1>9, <1>10, <1>11, <1>12, InvParts DEF Sound, Good, EventsReport

\* A step accepts a prompt, or does to the prompts what PromptLifecycle allows.
Moves(x, y) ==
    \/ \E r \in Records : x[r] = "unused" /\ y = [x EXCEPT ![r] = "pending"]
    \/ Evolves(x, y)

LEMMA PromptStep ==
    ASSUME PromptInv, [Next]_vars
    PROVE  PromptInv' /\ Moves(prompt.state, prompt'.state)
  <1> USE DEF Moves
  <1>0. prompt' = prompt => Moves(prompt.state, prompt'.state)
    BY DEF Evolves
  <1>1. ASSUME NEW id \in Ids, Enqueue(id) PROVE PromptInv' /\ Moves(prompt.state, prompt'.state)
    BY <1>1, EnqueueInv
  <1>2. ASSUME NEW id \in Ids, Abort(id) PROVE PromptInv' /\ Moves(prompt.state, prompt'.state)
    BY <1>2, AbortInv
  <1>3. ASSUME NEW ids \in SUBSET Ids, Steer(ids) PROVE PromptInv' /\ Moves(prompt.state, prompt'.state)
    BY <1>3, SteerInv
  <1>4. CASE Clear \/ HandleEvent \/ ActorExit
    BY <1>4, ClearInv, HandleEventInv, ActorExitInv
  <1> HIDE DEF Moves
  <1>5. ASSUME NEW r \in Records, LaunchStep(r) PROVE PromptInv' /\ Moves(prompt.state, prompt'.state)
    <2>1. ASSUME NEW outcome \in Refusals \cup {"cancelled"}, LaunchEndsEarly(r, outcome)
          PROVE  PromptInv' /\ prompt' = prompt
      BY <2>1, EndsEarlyInv DEF LaunchEndsEarly
    <2>2. CASE LaunchEnqueues(r)
      BY <1>0, <2>2, LaunchEnqueuesInv DEF LaunchEnqueues
    <2>3. CASE LaunchAssigned(r)
      BY <1>0, <2>3, LaunchAssignedInv DEF LaunchAssigned
    <2>4. CASE LaunchSends(r)
      BY <1>0, <2>4, LaunchSendsInv DEF LaunchSends
    <2> QED BY <1>0, <1>5, <2>1, <2>2, <2>3, <2>4 DEF LaunchStep
  <1>6. ASSUME NEW r \in Records, MonitorSends(r) PROVE PromptInv' /\ Moves(prompt.state, prompt'.state)
    BY <1>0, <1>6, MonitorSendsInv DEF MonitorSends
  <1>7. ASSUME NEW k \in Steers, SteerStep(k) PROVE PromptInv' /\ Moves(prompt.state, prompt'.state)
    <2>1. CASE SteerEnqueues(k)
      BY <1>0, <2>1, SteerEnqueuesInv DEF SteerEnqueues
    <2>2. CASE SteerAssigned(k)
      BY <1>0, <2>2, SteerAssignedInv DEF SteerAssigned
    <2>3. CASE SteerSends(k)
      BY <1>0, <2>3, SteerSendsInv DEF SteerSends
    <2> QED BY <1>7, <2>1, <2>2, <2>3 DEF SteerStep
  <1>8. ASSUME NEW t \in Turns, NEW result \in Results \cup {"cancelled"}, SettleTurn(t, result)
        PROVE  PromptInv' /\ Moves(prompt.state, prompt'.state)
    BY <1>0, <1>8, SettleTurnInv DEF SettleTurn
  <1>9. CASE InjectTurn
    BY <1>0, <1>9, InjectTurnInv DEF InjectTurn
  <1>10. CASE BeginCompaction \/ EndCompaction \/ BeginShutdown
    BY <1>0, <1>10, CompactionInv DEF BeginCompaction, EndCompaction, BeginShutdown
  <1>11. CASE NotifyCompaction
    BY <1>0, <1>11, NotifyCompactionInv DEF NotifyCompaction
  <1>12. CASE UNCHANGED vars
    <2>1. UNCHANGED <<prompt, sched, jobs, turns, events, phase, used>>
      BY <1>12 DEF vars
    <2> QED BY <1>0, <2>1, StateTypes, EnvironmentInv
  <1> QED BY <1>1, <1>2, <1>3, <1>4, <1>5, <1>6, <1>7, <1>8, <1>9, <1>10, <1>11, <1>12 DEF Next

(***************************************************************************)
(* The queue of prompts: wherever the actor is, its slots, the states of   *)
(* the prompts and their ids fit together (PromptInv, the inductive        *)
(* invariant from which the next theorems follow).                         *)
(***************************************************************************)
THEOREM PromptsInvariant == Spec => []PromptInv
  <1>1. PromptInv /\ [Next]_vars => PromptInv'
    BY PromptStep
  <1> QED BY <1>1, PromptInit, PTL DEF Spec

\* No prompt is lost and none is settled while a slot still holds it.
THEOREM PromptsAreOwned == Spec => []OwnedUntilSettled
  <1>1. ASSUME PromptInv PROVE OwnedUntilSettled
    <2>1. Good(Actor)
      BY <1>1, InvParts DEF Sound
    <2>2. sched \in SchedType
      BY <1>1, StateTypes
    <2>3. Placed(Actor) /\ Named(Actor)
      BY <2>1 DEF Good
    <2>4. sched.launching \notin Records => sched.launching = 0
      BY <2>2 DEF SchedType
    <2>5. /\ sched.pending \subseteq Records /\ sched.steerInFlight.selected \subseteq Records
          /\ \A i \in Ids : sched.steered[i] \subseteq Records
          /\ sched.active \in Records \cup {0} /\ sched.launching \in Records \cup {0}
      BY <2>2 DEF SchedType, OperationType
    <2>6. SlotsDisjoint
      <3>1. sched.active # 0 => sched.active # sched.launching
        BY <2>3, ActorFields DEF Placed
      <3>2. {sched.active, sched.launching} \cap (sched.pending \cup sched.steerInFlight.selected) = {}
        <4>1. ASSUME NEW r \in sched.pending \cup sched.steerInFlight.selected
              PROVE  r # sched.active /\ r # sched.launching
          <5>1. r \in Records /\ prompt.state[r] = "pending"
            BY <2>3, <2>5, ActorFields DEF Placed
          <5> QED BY <2>3, <5>1, ActorFields DEF Placed
        <4> QED BY <4>1
      <3>3. sched.pending \cap sched.steerInFlight.selected = {}
        BY <2>3, ActorFields DEF Placed
      <3>4. ASSUME NEW i \in Ids
            PROVE  sched.steered[i] \cap
                     ({sched.active, sched.launching} \cup sched.pending \cup sched.steerInFlight.selected) = {}
        <4>1. ASSUME NEW r \in sched.steered[i]
              PROVE  /\ r # sched.active /\ r # sched.launching /\ r \notin sched.pending
                     /\ r \notin sched.steerInFlight.selected
          <5>1. r \in Records /\ prompt.state[r] = "steered"
            BY <2>3, <2>5, ActorFields DEF Placed
          <5> QED BY <2>3, <5>1, ActorFields DEF Placed
        <4> QED BY <4>1
      <3>5. \A i, j \in Ids : i # j => sched.steered[i] \cap sched.steered[j] = {}
        BY <2>3, ActorFields DEF Named
      <3> QED BY <3>1, <3>2, <3>3, <3>4, <3>5 DEF SlotsDisjoint
    <2>7. \A r \in Records : prompt.state[r] \in {"pending", "running", "steered"} <=> r \in LiveRecords(sched)
      BY <2>2, <2>3, LiveRecordsIn, ActorFields DEF Placed
    <2> QED BY <2>3, <2>6, <2>7, ActorFields DEF OwnedUntilSettled, Placed
  <1> QED BY <1>1, PromptsInvariant, PTL

\* An abort or a steer names one living prompt.
THEOREM LivingIdsAreUnique == Spec => []LiveIdsUnique
  <1>1. ASSUME PromptInv PROVE LiveIdsUnique
    <2>1. Named(Actor)
      BY <1>1, InvParts DEF Sound, Good
    <2> QED BY <2>1, ActorFields DEF Named, LiveIdsUnique, Alive
  <1> QED BY <1>1, PromptsInvariant, PTL

\* The prompts that were steered belong to the prompt that is active.
THEOREM ChildrenHaveTheirParent == Spec => []ChildrenHaveActiveParent
  <1>1. ASSUME PromptInv PROVE ChildrenHaveActiveParent
    <2>1. Named(Actor)
      BY <1>1, InvParts DEF Sound, Good
    <2> QED BY <2>1, ActorFields DEF Named, ChildrenHaveActiveParent
  <1> QED BY <1>1, PromptsInvariant, PTL

(***************************************************************************)
(* The scheduler implements PromptLifecycle: a prompt is accepted once,    *)
(* runs alone or joins the one that runs, and a terminal state is final.   *)
(***************************************************************************)
THEOREM SchedulerShowsLifecycle == Spec => ImplementsLifecycle
  <1>1. Init => Lifecycle!LifeInit
    BY DEF Init, Lifecycle!LifeInit
  <1>2. ASSUME PromptInv, [Next]_vars PROVE [Lifecycle!LifeNext]_(prompt.state)
    <2> DEFINE x == prompt.state
               y == prompt'.state
    <2>1. Moves(x, y)
      BY <1>2, PromptStep
    <2>2. CASE \E r \in Records : x[r] = "unused" /\ y = [x EXCEPT ![r] = "pending"]
      BY <2>2 DEF Lifecycle!LifeNext, Lifecycle!Accept
    <2>3. CASE Starts(x, y)
      BY <2>3 DEF Starts, Lifecycle!LifeNext, Lifecycle!Start, Lifecycle!RunningOnes
    <2>4. CASE Joins(x, y)
      BY <2>4 DEF Joins, Lifecycle!LifeNext, Lifecycle!Steer, Lifecycle!RunningOnes
    <2>5. CASE Finishes(x, y)
      <3>1. PICK outcome \in {"completed", "failed", "cancelled"} :
               /\ \E q \in Records : x[q] = "running"
               /\ y = [r \in Records |-> IF x[r] \in {"running", "steered"} THEN outcome ELSE x[r]]
        BY <2>5 DEF Finishes
      <3>2. Lifecycle!Finish(outcome)
        BY <3>1 DEF Lifecycle!Finish, Lifecycle!RunningOnes, Lifecycle!SteeredOnes
      <3> QED BY <3>2 DEF Lifecycle!LifeNext
    <2>6. CASE Drops(x, y)
      BY <2>6 DEF Drops, Lifecycle!LifeNext, Lifecycle!Drop
    <2>7. CASE CancelsAll(x, y)
      BY <2>7 DEF CancelsAll, Alive, Lifecycle!LifeNext, Lifecycle!CancelAll, Lifecycle!Live
    <2> QED BY <2>1, <2>2, <2>3, <2>4, <2>5, <2>6, <2>7 DEF Moves, Evolves
  <1> QED BY <1>1, <1>2, PromptsInvariant, PTL DEF Spec, ImplementsLifecycle, Lifecycle!LifeSpec

-----------------------------------------------------------------------------
(***************************************************************************)
(* The turns: what each handler keeps of TurnOK.                           *)
(***************************************************************************)
\* A handler that leaves the launch and the steer tasks to themselves.
Steady(a, b) ==
    /\ b.jobs.launch = a.jobs.launch /\ b.jobs.steer = a.jobs.steer
    /\ b.turns.state = a.turns.state /\ b.turns.next = a.turns.next
    /\ a.turns.cancelled \subseteq b.turns.cancelled
    /\ a.prompt.cancelled \subseteq b.prompt.cancelled
    /\ a.jobs.steerCancelled \subseteq b.jobs.steerCancelled
    /\ b.sched.nextOperation = a.sched.nextOperation
    /\ b.sched.pending \subseteq a.sched.pending
    /\ \A r \in Records : b.prompt.state[r] = "unused" => a.prompt.state[r] = "unused"
    /\ b.sched.active = 0 => b.sched.turn = 0
    /\ b.sched.active # 0 => b.sched.turn = a.jobs.launch[b.sched.active].turn
    /\ \A r \in Records : b.jobs.monitor[r] \in {a.jobs.monitor[r], a.jobs.launch[r].turn}

LEMMA SteadyTurns ==
    ASSUME NEW a, NEW S, NEW ph, TurnOK(a, S, ph), NEW b, Steady(a, b), NEW T, T \subseteq S,
           Owned(b, T), Kept(b, T, ph),
           \A t \in b.turns.cancelled : t \in a.turns.cancelled \/ Cause(b, ph, t)
    PROVE  TurnOK(b, T, ph)
  <1>1. JobsTurns(b)
    BY DEF TurnOK, Steady, JobsTurns, Dropped
  <1>2. \A e \in T : EventTurns(b, e)
    BY DEF TurnOK, Steady, EventTurns, Dropped
  <1>3. \A t \in a.turns.cancelled : Cause(b, ph, t)
    BY DEF TurnOK, Steady, Caused, Cause
  <1> QED BY <1>1, <1>2, <1>3 DEF TurnOK, Caused

\* With the turn slot and the events as they were, no turn is orphaned.
LEMMA SameKept ==
    ASSUME NEW a, NEW S, NEW ph, TurnOK(a, S, ph), NEW b, Steady(a, b), b.sched.turn = a.sched.turn
    PROVE  Kept(b, S, ph)
  BY DEF TurnOK, Steady, Kept

LEMMA SameOwned ==
    ASSUME NEW a, NEW S, NEW ph, TurnOK(a, S, ph), NEW b, Steady(a, b), NEW T, T \subseteq S,
           b.sched.launching = a.sched.launching \/ a.sched.launching \in b.prompt.cancelled
    PROVE  Owned(b, T)
  BY DEF TurnOK, Steady, Owned

\* drive: the record that enters the launch slot has no job yet.
LEMMA DriveTurns ==
    ASSUME NEW a, Good(a), NEW S, NEW ph, TurnOK(a, S, ph), \A e \in S : Reports(a, e)
    PROVE  TurnOK(Drive(a), S, ph)
  <1>1. CASE ~DriveReady(a)
    BY <1>1 DEF Drive
  <1>2. CASE DriveReady(a)
    <2> DEFINE b == Drive(a)
               r == Front(a.sched.pending)
    <2>1. /\ b \in ActorType /\ r \in a.sched.pending /\ b.prompt = a.prompt /\ b.turns = a.turns
          /\ b.sched = [a.sched EXCEPT !.pending = @ \ {r}, !.launching = r]
          /\ b.jobs = [a.jobs EXCEPT !.launch = [@ EXCEPT ![r] = HookJob]]
      BY <1>2, DriveFields DEF Good
    <2> HIDE DEF b, r
    <2>2. a.sched \in SchedType /\ a.jobs \in JobsType /\ a.turns \in TurnsType
          /\ a.sched.launching = 0 /\ a.sched.active = 0
      BY <1>2, Shape DEF Good, DriveReady
    <2>3. /\ b.sched.active = a.sched.active /\ b.sched.turn = a.sched.turn
          /\ b.sched.pending = a.sched.pending \ {r} /\ b.sched.launching = r
          /\ b.sched.nextOperation = a.sched.nextOperation
      BY <2>1, <2>2 DEF SchedType
    <2>4. /\ b.jobs.monitor = a.jobs.monitor /\ b.jobs.steer = a.jobs.steer
          /\ b.jobs.steerCancelled = a.jobs.steerCancelled
          /\ \A q \in Records : b.jobs.launch[q] = IF q = r THEN HookJob ELSE a.jobs.launch[q]
      BY <2>1, <2>2 DEF JobsType
    <2>5. /\ HookJob.turn = 0 /\ HookJob.pc = "hook" /\ NoJob.turn = 0 /\ NoJob.pc = "none"
      BY DEF HookJob, NoJob
    <2>6. r \in Records /\ a.jobs.launch[r] = NoJob /\ a.prompt.state[r] # "unused"
      BY <2>1, <2>2 DEF Good, Placed, SchedType, TurnOK, JobsTurns
    <2>7. 0 \notin a.turns.cancelled /\ 0 < a.turns.next
      BY <2>2, TurnsNat DEF TurnsType
    <2>8. JobsTurns(b)
      <3> USE DEF TurnOK, JobsTurns
      <3>1. \A q \in Records : b.prompt.state[q] = "unused" \/ q \in b.sched.pending => b.jobs.launch[q] = NoJob
        BY <2>1, <2>3, <2>4, <2>6
      <3>2. \A q \in Records : b.jobs.launch[q].pc \in {"none", "hook"} => b.jobs.launch[q].turn = 0
        BY <2>4, <2>5
      <3>3. \A q \in Records : b.jobs.launch[q].turn < b.turns.next
        BY <2>1, <2>4, <2>5, <2>7
      <3>4. \A q \in Records : b.jobs.launch[q].pc = "send" /\ b.jobs.launch[q].outcome # "started"
                                => Dropped(b, b.jobs.launch[q].turn)
        BY <2>1, <2>4, <2>5 DEF Dropped
      <3>5. \A q \in Records : b.jobs.monitor[q] # 0 => b.jobs.monitor[q] = b.jobs.launch[q].turn
        BY <2>4, <2>5, <2>6
      <3> QED BY <2>2, <2>3, <2>4, <3>1, <3>2, <3>3, <3>4, <3>5
    <2>9. \A e \in S : EventTurns(b, e)
      <3>1. \A e \in S : e.kind \in {"launch", "turn"} => e.key \in Records /\ e.key # r
        BY <2>5, <2>6 DEF TurnOK, EventTurns, Reports
      <3> QED BY <2>1, <2>4, <3>1 DEF TurnOK, EventTurns, Dropped
    <2>10. Owned(b, S)
      BY <2>1, <2>2, <2>3, <2>4, RecordsNat DEF TurnOK, Owned
    <2>11. Kept(b, S, ph)
      BY <2>1, <2>3, <2>4, <2>5 DEF TurnOK, Kept
    <2>12. Caused(b, ph)
      BY <2>1, <2>4, <2>5, <2>6, <2>7 DEF TurnOK, Caused, Cause
    <2> QED BY <2>8, <2>9, <2>10, <2>11, <2>12 DEF TurnOK, b
  <1> QED BY <1>1, <1>2

\* drive_steer: the operation that starts is a new one.
LEMMA DriveSteerTurns ==
    ASSUME NEW a, Good(a), NEW S, NEW ph, TurnOK(a, S, ph), \A e \in S : Reports(a, e)
    PROVE  TurnOK(DriveSteer(a), S, ph)
  <1> DEFINE b == DriveSteer(a)
  <1>1. /\ b \in ActorType /\ b.prompt = a.prompt /\ b.turns = a.turns
        /\ \/ b = a
           \/ b.jobs = a.jobs /\ b.sched = [a.sched EXCEPT !.pendingSteers = <<>>]
           \/ \E W : SteerTaken(a, b, W)
    BY DriveSteerFields DEF Good
  <1> HIDE DEF b
  <1>2. a.sched \in SchedType /\ a.jobs \in JobsType /\ a.turns \in TurnsType
    BY Shape DEF Good
  <1>3. CASE b.jobs = a.jobs /\ b.sched = [a.sched EXCEPT !.pendingSteers = <<>>]
    <2>1. /\ b.sched.active = a.sched.active /\ b.sched.turn = a.sched.turn
          /\ b.sched.pending = a.sched.pending /\ b.sched.launching = a.sched.launching
          /\ b.sched.nextOperation = a.sched.nextOperation
      BY <1>2, <1>3 DEF SchedType
    <2>2. JobsTurns(b)
      BY <1>1, <1>3, <2>1 DEF TurnOK, JobsTurns, Dropped
    <2>3. \A e \in S : EventTurns(b, e)
      BY <1>1, <1>3 DEF TurnOK, EventTurns, Dropped
    <2>4. Owned(b, S)
      BY <1>1, <1>3, <2>1 DEF TurnOK, Owned
    <2>5. Kept(b, S, ph)
      BY <1>1, <1>3, <2>1 DEF TurnOK, Kept
    <2>6. Caused(b, ph)
      BY <1>1, <1>3 DEF TurnOK, Caused, Cause
    <2> QED BY <2>2, <2>3, <2>4, <2>5, <2>6 DEF TurnOK, b
  <1>4. ASSUME NEW W, SteerTaken(a, b, W) PROVE TurnOK(b, S, ph)
    <2> DEFINE k == a.sched.nextOperation
    <2>1. /\ b.sched.active = a.sched.active /\ b.sched.turn = a.sched.turn
          /\ b.sched.pending \subseteq a.sched.pending /\ b.sched.launching = a.sched.launching
          /\ b.sched.nextOperation = k + 1
      BY <1>2, <1>4 DEF SteerTaken, SchedType
    <2>2. b.jobs = [a.jobs EXCEPT !.steer = [@ EXCEPT ![k] = StartJob]]
      BY <1>4 DEF SteerTaken
    <2>3. /\ b.jobs.launch = a.jobs.launch /\ b.jobs.monitor = a.jobs.monitor
          /\ b.jobs.steerCancelled = a.jobs.steerCancelled
          /\ \A m \in Steers : b.jobs.steer[m] = IF m = k THEN StartJob ELSE a.jobs.steer[m]
      BY <1>2, <2>2 DEF JobsType
    <2>4. StartJob.turn = 0 /\ StartJob.pc = "start" /\ NoJob.turn = 0 /\ NoJob.pc = "none"
      BY DEF StartJob, NoJob
    <2>5. k \in Nat /\ Steers \subseteq Nat
      BY <1>2, BoundsAssumption DEF SchedType, Steers
    <2> HIDE DEF k
    <2>6. k \in Steers => a.jobs.steer[k] = NoJob
      BY <2>5 DEF TurnOK, JobsTurns, k
    <2>7. \A m \in Steers : m >= k + 1 => m >= k /\ m # k
      BY <2>5
    <2>8. JobsTurns(b)
      <3>1. \A m \in Steers : b.jobs.steer[m].pc \in {"none", "start"} => b.jobs.steer[m].turn = 0
        BY <2>3, <2>4 DEF TurnOK, JobsTurns
      <3>2. \A m \in Steers : m >= b.sched.nextOperation => b.jobs.steer[m] = NoJob
        BY <2>1, <2>3, <2>7 DEF TurnOK, JobsTurns, k
      <3> QED BY <1>1, <2>1, <2>3, <3>1, <3>2 DEF TurnOK, JobsTurns, Dropped
    <2>9. \A e \in S : EventTurns(b, e)
      <3>1. \A e \in S : e.kind = "steer" => e.key \in Steers /\ e.key # k
        BY <2>4, <2>6 DEF TurnOK, EventTurns, Reports
      <3> QED BY <1>1, <2>3, <3>1 DEF TurnOK, EventTurns, Dropped
    <2>10. Owned(b, S)
      BY <1>1, <2>1, <2>3 DEF TurnOK, Owned
    <2>11. Kept(b, S, ph)
      BY <1>1, <2>1, <2>3 DEF TurnOK, Kept
    <2>12. Caused(b, ph)
      <3>1. 0 \notin a.turns.cancelled
        BY <1>2, TurnsNat DEF TurnsType
      <3> QED BY <1>1, <2>3, <2>4, <2>6, <3>1 DEF TurnOK, Caused, Cause
    <2> QED BY <2>8, <2>9, <2>10, <2>11, <2>12 DEF TurnOK
  <1> QED BY <1>1, <1>3, <1>4 DEF b

\* clear_all: what is given up is cancelled, the active turn too.
LEMMA ClearAllTurns ==
    ASSUME NEW a, Good(a), NEW S, NEW ph, TurnOK(a, S, ph)
    PROVE  TurnOK(ClearAll(a), S, ph)
  <1> DEFINE b == ClearAll(a)
             all == LiveRecords(a.sched)
  <1>1. /\ b \in ActorType /\ b.sched = EmptiedSched(a.sched)
        /\ b.prompt.state = [r \in Records |-> IF r \in all /\ a.prompt.state[r] \notin Terminal
                                               THEN "cancelled" ELSE a.prompt.state[r]]
        /\ b.prompt.cancelled = a.prompt.cancelled \cup all
        /\ b.jobs = [a.jobs EXCEPT !.steerCancelled = @ \cup ({a.sched.steerInFlight.id} \ {0})]
        /\ b.turns.state = a.turns.state /\ b.turns.next = a.turns.next
        /\ \A u : u \in b.turns.cancelled <=>
              u \in a.turns.cancelled
                \/ (u = a.sched.turn /\ u \in Turns /\ a.turns.state[u] = "live")
    BY ClearAllFields DEF Good
  <1>2. a.sched \in SchedType /\ a.jobs \in JobsType
    BY Shape DEF Good
  <1>3. /\ a.sched.active \in Records => a.sched.active \in all
        /\ a.sched.launching \in Records => a.sched.launching \in all
    BY <1>2, LiveRecordsIn
  <1> HIDE DEF b, all
  <1>4. /\ b.sched.active = 0 /\ b.sched.launching = 0 /\ b.sched.pending = {}
        /\ b.sched.turn = 0 /\ b.sched.nextOperation = a.sched.nextOperation
    BY <1>1, <1>2, EmptiedSchedType
  <1>5. /\ b.jobs.launch = a.jobs.launch /\ b.jobs.monitor = a.jobs.monitor /\ b.jobs.steer = a.jobs.steer
        /\ b.jobs.steerCancelled = a.jobs.steerCancelled \cup ({a.sched.steerInFlight.id} \ {0})
    BY <1>1, <1>2 DEF JobsType
  <1>6. Steady(a, b)
    <2>1. a.turns.cancelled \subseteq b.turns.cancelled
      BY <1>1
    <2>2. a.prompt.cancelled \subseteq b.prompt.cancelled
      BY <1>1
    <2>3. a.jobs.steerCancelled \subseteq b.jobs.steerCancelled
      BY <1>5
    <2>4. \A r \in Records : b.prompt.state[r] = "unused" => a.prompt.state[r] = "unused"
      BY <1>1
    <2> QED BY <1>1, <1>4, <1>5, <2>1, <2>2, <2>3, <2>4 DEF Steady
  <1>7. \A r \in Records : a.jobs.launch[r].turn \in Turns \cup {0}
    BY <1>2 DEF JobsType, JobType
  <1>8. Owned(b, S)
    BY <1>1, <1>3, <1>5 DEF TurnOK, Owned
  <1>9. Kept(b, S, ph)
    <2>1. ASSUME NEW r \in Records, a.sched.turn = a.jobs.launch[r].turn, a.jobs.launch[r].turn # 0,
                 a.turns.state[a.jobs.launch[r].turn] = "live"
          PROVE  a.jobs.launch[r].turn \in b.turns.cancelled
      BY <1>1, <1>7, <2>1
    <2> QED BY <1>1, <1>5, <2>1 DEF TurnOK, Kept
  <1>10. \A t \in b.turns.cancelled : t \in a.turns.cancelled \/ Cause(b, ph, t)
    <2> SUFFICES ASSUME NEW t \in Turns, t = a.sched.turn PROVE Cause(b, ph, t)
      BY <1>1
    <2>1. a.sched.active \in Records /\ t = a.jobs.launch[a.sched.active].turn
      BY <1>2, TurnsNat DEF SchedType, TurnOK, JobsTurns
    <2> QED BY <1>1, <1>3, <1>5, <2>1 DEF Cause
  <1> QED BY <1>6, <1>8, <1>9, <1>10, SteadyTurns DEF b

\* abort_prompt cancels tokens, or the turn of the active prompt.
LEMMA AbortTurns ==
    ASSUME NEW a, Good(a), NEW S, NEW ph, TurnOK(a, S, ph), NEW id
    PROVE  TurnOK(AbortPrompt(a, id), S, ph)
  <1>1. /\ a \in ActorType /\ a.prompt \in PromptType /\ a.sched \in SchedType /\ a.jobs \in JobsType
    BY Shape DEF Good
  <1>2. ASSUME NEW r \in Records, NEW b \in ActorType, b.sched = a.sched, b.jobs = a.jobs,
               b.prompt.state = a.prompt.state, b.prompt.cancelled = a.prompt.cancelled \cup {r},
               b.turns.state = a.turns.state, b.turns.next = a.turns.next,
               a.turns.cancelled \subseteq b.turns.cancelled,
               \A t \in b.turns.cancelled : t \in a.turns.cancelled \/ t = a.jobs.launch[r].turn
        PROVE  TurnOK(b, S, ph)
    <2>1. Steady(a, b)
      BY <1>2 DEF Steady, TurnOK, JobsTurns
    <2>2. Owned(b, S)
      BY <1>2, <2>1, SameOwned
    <2>3. Kept(b, S, ph)
      BY <1>2, <2>1, SameKept
    <2>4. \A t \in b.turns.cancelled : t \in a.turns.cancelled \/ Cause(b, ph, t)
      BY <1>2 DEF Cause
    <2> QED BY <2>1, <2>2, <2>3, <2>4, SteadyTurns
  <1>3. ASSUME NEW r \in Records
        PROVE  LET c == [a EXCEPT !.prompt.cancelled = @ \cup {r}]
               IN  /\ c \in ActorType /\ c.sched = a.sched /\ c.jobs = a.jobs /\ c.turns = a.turns
                   /\ c.prompt.state = a.prompt.state /\ c.prompt.cancelled = a.prompt.cancelled \cup {r}
    <2> DEFINE c == [a EXCEPT !.prompt.cancelled = @ \cup {r}]
    <2>1. /\ c \in ActorType /\ c.sched = a.sched /\ c.jobs = a.jobs /\ c.turns = a.turns
          /\ c.prompt = [a.prompt EXCEPT !.cancelled = @ \cup {r}]
      BY <1>1, TokenFields, ZenonT(40)
    <2> HIDE DEF c
    <2>2. c.prompt.state = a.prompt.state /\ c.prompt.cancelled = a.prompt.cancelled \cup {r}
      BY <1>1, <2>1 DEF PromptType
    <2> QED BY <2>1, <2>2 DEF c
  <1>4. a.sched.active # 0 => TurnOK(AbortActive(a), S, ph)
    <2> SUFFICES ASSUME a.sched.active # 0 PROVE TurnOK(AbortActive(a), S, ph)
      OBVIOUS
    <2> DEFINE r == a.sched.active
               c == [a EXCEPT !.prompt.cancelled = @ \cup {r}]
               b == CancelTurn(c, a.sched.turn)
    <2>1. r \in Records /\ a.sched.turn = a.jobs.launch[r].turn
      BY <1>1 DEF SchedType, TurnOK, JobsTurns
    <2>2. /\ c \in ActorType /\ c.sched = a.sched /\ c.jobs = a.jobs /\ c.turns = a.turns
          /\ c.prompt.state = a.prompt.state /\ c.prompt.cancelled = a.prompt.cancelled \cup {r}
      BY <1>3, <2>1
    <2> HIDE DEF c
    <2>3. /\ b \in ActorType /\ b.prompt = c.prompt /\ b.sched = c.sched /\ b.jobs = c.jobs
          /\ b.turns.state = c.turns.state /\ b.turns.next = c.turns.next
          /\ \A u : u \in b.turns.cancelled <=>
                u \in c.turns.cancelled \/ (u = a.sched.turn /\ u \in Turns /\ c.turns.state[u] = "live")
      BY <2>2, CancelTurnFields
    <2> HIDE DEF b
    <2>4. TurnOK(b, S, ph)
      BY <1>2, <2>1, <2>2, <2>3
    <2> QED BY <2>4 DEF AbortActive, b, c
  <1>5. a.sched.launching # 0 => TurnOK(AbortLaunching(a), S, ph)
    <2> SUFFICES ASSUME a.sched.launching # 0 PROVE TurnOK(AbortLaunching(a), S, ph)
      OBVIOUS
    <2> DEFINE r == a.sched.launching
               c == [a EXCEPT !.prompt.cancelled = @ \cup {r}]
    <2>1. r \in Records
      BY <1>1 DEF SchedType
    <2>2. /\ c \in ActorType /\ c.sched = a.sched /\ c.jobs = a.jobs /\ c.turns = a.turns
          /\ c.prompt.state = a.prompt.state /\ c.prompt.cancelled = a.prompt.cancelled \cup {r}
      BY <1>3, <2>1
    <2> HIDE DEF c
    <2>3. TurnOK(c, S, ph)
      BY <1>2, <2>1, <2>2
    <2> QED BY <2>3 DEF AbortLaunching, c
  <1>6. ASSUME NEW R, R \subseteq a.sched.pending, R # {}
        PROVE  TurnOK(AbortPending(a, Front(R)), S, ph)
    <2> DEFINE r == Front(R)
               b == AbortPending(a, r)
    <2>1. r \in a.sched.pending
      <3>1. R \subseteq Nat
        BY <1>1, <1>6, RecordsNat DEF SchedType
      <3> QED BY <1>6, <3>1, FrontIn
    <2> HIDE DEF r
    <2>2. /\ r \in Records /\ a.prompt.state[r] = "pending"
          /\ b.prompt.state = [q \in Records |-> IF q \in {r} THEN "cancelled" ELSE a.prompt.state[q]]
          /\ b.prompt.cancelled = a.prompt.cancelled \cup {r}
          /\ b.sched = [a.sched EXCEPT !.pending = @ \ {r}]
          /\ b.jobs = a.jobs /\ b.turns = a.turns
      BY <2>1, AbortPendingGood
    <2> HIDE DEF b
    <2>3. /\ b.sched.active = a.sched.active /\ b.sched.turn = a.sched.turn
          /\ b.sched.pending \subseteq a.sched.pending /\ b.sched.launching = a.sched.launching
          /\ b.sched.nextOperation = a.sched.nextOperation
      BY <1>1, <2>2 DEF SchedType
    <2>4. Steady(a, b)
      BY <2>2, <2>3 DEF Steady, TurnOK, JobsTurns
    <2>5. Owned(b, S)
      BY <2>3, <2>4, SameOwned
    <2>6. Kept(b, S, ph)
      BY <2>3, <2>4, SameKept
    <2> QED BY <2>2, <2>4, <2>5, <2>6, SteadyTurns DEF b, r
  <1>7. TurnOK(AbortSteerInFlight(a), S, ph)
    <2> DEFINE b == AbortSteerInFlight(a)
    <2>1. /\ b \in ActorType /\ b.prompt = a.prompt /\ b.sched = a.sched /\ b.turns = a.turns
          /\ b.jobs = [a.jobs EXCEPT !.steerCancelled = @ \cup {a.sched.steerInFlight.id}]
      BY <1>1, SteerTokenFields
    <2> HIDE DEF b
    <2>2. /\ b.jobs.launch = a.jobs.launch /\ b.jobs.monitor = a.jobs.monitor /\ b.jobs.steer = a.jobs.steer
          /\ a.jobs.steerCancelled \subseteq b.jobs.steerCancelled
      BY <1>1, <2>1 DEF JobsType
    <2>3. Steady(a, b)
      BY <2>1, <2>2 DEF Steady, TurnOK, JobsTurns
    <2>4. Owned(b, S)
      BY <2>1, <2>3, SameOwned
    <2>5. Kept(b, S, ph)
      BY <2>1, <2>3, SameKept
    <2> QED BY <2>1, <2>3, <2>4, <2>5, SteadyTurns DEF b
  <1> QED BY <1>4, <1>5, <1>6, <1>7, AbortCases

\* The event e leaves the channel: T is what is left of S.
Handled(S, T, e) ==
    /\ e \in S /\ T \subseteq S /\ S \subseteq T \cup {e}
    /\ e.kind = "launch" => \A d \in T : ~(d.kind = "launch" /\ d.key = e.key)

LEMMA HandledKept ==
    ASSUME NEW a, NEW S, NEW ph, TurnOK(a, S, ph), NEW b, Steady(a, b), NEW T, NEW e, Handled(S, T, e),
           \/ b.sched.turn = a.sched.turn \/ a.sched.turn = 0
           \/ a.turns.state[a.sched.turn] # "live",
           e.kind = "launch" /\ e.outcome = "started" =>
              \/ e.turn = 0 \/ b.turns.state[e.turn] # "live"
              \/ e.turn \in b.turns.cancelled \/ b.sched.turn = e.turn
    PROVE  Kept(b, T, ph)
  <1>1. ASSUME NEW t, \E d \in S : d.kind = "launch" /\ d.outcome = "started" /\ d.turn = t
        PROVE  \/ t = 0 \/ b.turns.state[t] # "live" \/ t \in b.turns.cancelled \/ b.sched.turn = t
               \/ \E d \in T : d.kind = "launch" /\ d.outcome = "started" /\ d.turn = t
    BY <1>1 DEF Handled
  <1> QED BY <1>1 DEF TurnOK, Steady, Kept

LEMMA FinishLaunchTurns ==
    ASSUME NEW a, Good(a), NEW S, TurnOK(a, S, "running"), NEW e \in EventType, Reports(a, e),
           e.kind = "launch", NEW T, Handled(S, T, e),
           \A r : TokenCancelled(r) <=> r \in a.prompt.cancelled
    PROVE  TurnOK(FinishLaunch(a, e.key, e.outcome, e.turn), T, "running")
  <1> DEFINE r == e.key
             t == e.turn
             b == FinishLaunch(a, r, e.outcome, t)
  <1>1. a \in ActorType /\ a.sched \in SchedType /\ a.jobs \in JobsType /\ a.turns \in TurnsType
        /\ a.prompt \in PromptType
    BY Shape DEF Good
  <1>2. r \in Records /\ e.outcome \in LaunchOutcomes /\ t \in Turns \cup {0}
    BY DEF Reports, EventType
  <1>3. t = a.jobs.launch[r].turn /\ a.jobs.launch[r].pc = "done"
    BY DEF TurnOK, EventTurns, Handled
  <1>4. r = a.sched.launching \/ r \in a.prompt.cancelled
    BY <1>2 DEF TurnOK, Owned, Handled
  <1>5. T \subseteq S
    BY DEF Handled
  <1>f. /\ a.sched.launching # r /\ e.outcome = "started" => b = CancelTurn(a, t)
        /\ a.sched.launching # r /\ e.outcome # "started" => b = a
        /\ a.sched.launching = r /\ (TokenCancelled(r) \/ e.outcome # "started") =>
              LaunchSettled(a, b, r, e.outcome, t)
        /\ a.sched.launching = r /\ ~TokenCancelled(r) /\ e.outcome = "started" =>
              LaunchStarted(a, b, r, t)
    <2>1. PICK x, y, z : x = r /\ y = e.outcome /\ z = t
      OBVIOUS
    <2>2. x \in Records /\ y \in LaunchOutcomes /\ z \in Turns \cup {0}
      BY <1>2, <2>1
    <2>3. /\ a.sched.launching # x /\ y = "started" => FinishLaunch(a, x, y, z) = CancelTurn(a, z)
          /\ a.sched.launching # x /\ y # "started" => FinishLaunch(a, x, y, z) = a
          /\ a.sched.launching = x /\ (TokenCancelled(x) \/ y # "started") =>
                LaunchSettled(a, FinishLaunch(a, x, y, z), x, y, z)
          /\ a.sched.launching = x /\ ~TokenCancelled(x) /\ y = "started" =>
                LaunchStarted(a, FinishLaunch(a, x, y, z), x, z)
      BY <1>1, <2>2, FinishLaunchFields
    <2> QED BY <2>1, <2>3, Zenon
  <1> HIDE DEF b, r, t
  <1>6. CASE a.sched.launching # r /\ e.outcome = "started"
    <2>1. b = CancelTurn(a, t)
      BY <1>f, <1>6
    <2>2. /\ b.prompt = a.prompt /\ b.sched = a.sched /\ b.jobs = a.jobs
          /\ b.turns.state = a.turns.state /\ b.turns.next = a.turns.next
          /\ \A u : u \in b.turns.cancelled <=>
                u \in a.turns.cancelled \/ (u = t /\ u \in Turns /\ a.turns.state[u] = "live")
      BY <1>1, <2>1, CancelTurnFields
    <2>3. Steady(a, b)
      BY <2>2 DEF Steady, TurnOK, JobsTurns
    <2>4. Owned(b, T)
      BY <1>5, <2>2, <2>3, SameOwned
    <2>5. t = 0 \/ b.turns.state[t] # "live" \/ t \in b.turns.cancelled
      BY <1>2, <2>2
    <2>6. Kept(b, T, "running")
      BY <2>2, <2>3, <2>5, HandledKept DEF t
    <2>7. \A u \in b.turns.cancelled : u \in a.turns.cancelled \/ Cause(b, "running", u)
      BY <1>2, <1>3, <1>4, <1>6, <2>2 DEF Cause
    <2> QED BY <1>5, <2>3, <2>4, <2>6, <2>7, SteadyTurns DEF b, r, t
  <1>7. CASE a.sched.launching # r /\ e.outcome # "started"
    <2>1. b = a
      BY <1>f, <1>7
    <2>2. Steady(a, b)
      BY <2>1 DEF Steady, TurnOK, JobsTurns
    <2>3. Owned(b, T)
      BY <1>5, <2>1, <2>2, SameOwned
    <2>4. Kept(b, T, "running")
      BY <1>7, <2>1, <2>2, HandledKept
    <2> QED BY <1>5, <2>1, <2>2, <2>3, <2>4, SteadyTurns DEF b, r, t
  <1>8. CASE a.sched.launching = r /\ (TokenCancelled(r) \/ e.outcome # "started")
    <2> DEFINE s == [a.sched EXCEPT !.launching = 0]
               cancel == TokenCancelled(r) /\ e.outcome = "started"
    <2>0. LaunchSettled(a, b, r, e.outcome, t)
      BY <1>f, <1>8
    <2>1. PICK st \in {"failed", "cancelled", "blocked"} : Settled(a, b, s, {r}, st, cancel, t)
      BY <2>0, Zenon DEF LaunchSettled
    <2>2. /\ b.sched.active = a.sched.active /\ b.sched.turn = a.sched.turn
          /\ b.sched.pending = a.sched.pending /\ b.sched.launching = 0
          /\ b.sched.nextOperation = a.sched.nextOperation
      BY <1>1, <2>1 DEF Settled, SchedType
    <2> HIDE DEF s
    <2>3. /\ b.jobs = a.jobs /\ b.prompt.cancelled = a.prompt.cancelled
          /\ b.turns.state = a.turns.state /\ b.turns.next = a.turns.next
          /\ \A u : u \in b.turns.cancelled <=>
                u \in a.turns.cancelled \/ (cancel /\ u = t /\ u \in Turns /\ a.turns.state[u] = "live")
      BY <2>1 DEF Settled
    <2>4. \A q \in Records : b.prompt.state[q] = "unused" => a.prompt.state[q] = "unused"
      BY <2>1 DEF Settled, SettledStates
    <2>5. Steady(a, b)
      BY <2>2, <2>3, <2>4 DEF Steady, TurnOK, JobsTurns
    <2>6. Owned(b, T)
      <3>1. r \in a.prompt.cancelled \/ ~(\E d \in T : d.kind = "launch" /\ d.key = r)
        BY DEF Handled, r
      <3> QED BY <1>3, <1>5, <1>8, <2>3, <3>1 DEF TurnOK, Owned
    <2>7. e.outcome = "started" => t = 0 \/ b.turns.state[t] # "live" \/ t \in b.turns.cancelled
      BY <1>2, <1>8, <2>3
    <2>8. Kept(b, T, "running")
      BY <2>2, <2>5, <2>7, HandledKept DEF t
    <2>9. \A u \in b.turns.cancelled : u \in a.turns.cancelled \/ Cause(b, "running", u)
      BY <1>2, <1>3, <2>3 DEF Cause
    <2> QED BY <1>5, <2>5, <2>6, <2>8, <2>9, SteadyTurns DEF b, r, t
  <1>9. CASE a.sched.launching = r /\ ~TokenCancelled(r) /\ e.outcome = "started"
    <2>1. LaunchStarted(a, b, r, t)
      BY <1>f, <1>9
    <2>2. /\ b.sched.active = r /\ b.sched.turn = t /\ b.sched.launching = 0
          /\ b.sched.pending = a.sched.pending /\ b.sched.nextOperation = a.sched.nextOperation
      BY <1>1, <1>2, <2>1 DEF LaunchStarted, SchedType
    <2>3. /\ b.turns = a.turns /\ b.prompt.cancelled = a.prompt.cancelled
          /\ b.jobs.launch = a.jobs.launch /\ b.jobs.steer = a.jobs.steer
          /\ b.jobs.steerCancelled = a.jobs.steerCancelled
          /\ \A q \in Records : b.jobs.monitor[q] = IF q = r THEN t ELSE a.jobs.monitor[q]
      BY <1>1, <2>1 DEF LaunchStarted, JobsType
    <2>4. \A q \in Records : b.prompt.state[q] = "unused" => a.prompt.state[q] = "unused"
      BY <1>1, <2>1 DEF LaunchStarted, PromptType
    <2>5. a.sched.active = 0 /\ a.sched.turn = 0 /\ r # 0
      BY <1>2, <1>9, RecordsNat DEF Good, Placed, TurnOK, JobsTurns
    <2>6. Steady(a, b)
      BY <1>3, <2>2, <2>3, <2>4, <2>5 DEF Steady
    <2>7. Owned(b, T)
      <3>1. ~(\E d \in T : d.kind = "launch" /\ d.key = r)
        BY DEF Handled, r
      <3> QED BY <1>3, <1>5, <1>9, <2>3, <3>1 DEF TurnOK, Owned
    <2>8. Kept(b, T, "running")
      BY <2>2, <2>5, <2>6, HandledKept DEF t
    <2> QED BY <1>5, <2>3, <2>6, <2>7, <2>8, SteadyTurns DEF b, r, t
  <1> QED BY <1>6, <1>7, <1>8, <1>9

LEMMA FinishTurnTurns ==
    ASSUME NEW a, Good(a), NEW S, TurnOK(a, S, "running"), NEW e \in EventType, Reports(a, e),
           e.kind = "turn", NEW T, Handled(S, T, e)
    PROVE  TurnOK(FinishTurn(a, e.key, e.outcome), T, "running")
  <1> DEFINE r == e.key
             b == FinishTurn(a, r, e.outcome)
  <1>1. a \in ActorType /\ a.sched \in SchedType
    BY Shape DEF Good
  <1>2. r \in Records /\ e.outcome \in {"completed", "failed", "cancelled"}
    BY DEF Reports
  <1>3. e.turn = a.jobs.launch[r].turn /\ a.turns.state[e.turn] # "live"
    BY DEF TurnOK, EventTurns, Handled
  <1>4. T \subseteq S
    BY DEF Handled
  <1>5. CASE a.sched.active # r
    <2>1. b = a
      BY <1>5 DEF FinishTurn
    <2> HIDE DEF b, r
    <2>2. Steady(a, b)
      BY <2>1 DEF Steady, TurnOK, JobsTurns
    <2>3. Owned(b, T)
      BY <1>4, <2>1, <2>2, SameOwned
    <2>4. Kept(b, T, "running")
      BY <2>1, <2>2, HandledKept
    <2> QED BY <1>4, <2>1, <2>2, <2>3, <2>4, SteadyTurns DEF b, r
  <1>6. CASE a.sched.active = r
    <2>1. a.prompt.id[r] \in Ids
      BY <1>2, <1>6 DEF Good, Placed, Named, Alive
    <2>2. TurnSettled(a, b, r, e.outcome)
      <3>1. PICK x, y : x = r /\ y = e.outcome
        OBVIOUS
      <3>2. TurnSettled(a, FinishTurn(a, x, y), x, y)
        BY <1>1, <1>2, <1>6, <2>1, <3>1, FinishTurnFields
      <3> QED BY <3>1, <3>2, Zenon
    <2> DEFINE slots == [a.sched.steered EXCEPT ![a.prompt.id[r]] = {}]
               s == [a.sched EXCEPT !.active = 0, !.turn = 0, !.steered = slots]
               R == {r} \cup a.sched.steered[a.prompt.id[r]]
    <2> HIDE DEF b, r
    <2>3. Settled(a, b, s, R, e.outcome, FALSE, 0)
      BY <2>2, Zenon DEF TurnSettled
    <2> HIDE DEF slots, R
    <2>4. /\ b.sched.active = 0 /\ b.sched.turn = 0
          /\ b.sched.pending = a.sched.pending /\ b.sched.launching = a.sched.launching
          /\ b.sched.nextOperation = a.sched.nextOperation
      BY <1>1, <2>3 DEF Settled, SchedType
    <2> HIDE DEF s
    <2>5. /\ b.jobs = a.jobs /\ b.prompt.cancelled = a.prompt.cancelled
          /\ b.turns.state = a.turns.state /\ b.turns.next = a.turns.next
          /\ \A u : u \in b.turns.cancelled <=> u \in a.turns.cancelled
      BY <2>3 DEF Settled
    <2>6. \A q \in Records : b.prompt.state[q] = "unused" => a.prompt.state[q] = "unused"
      BY <1>2, <2>3 DEF Settled, SettledStates
    <2>7. Steady(a, b)
      BY <2>4, <2>5, <2>6 DEF Steady
    <2>8. Owned(b, T)
      BY <1>4, <2>4, <2>7, SameOwned
    <2>9. a.turns.state[a.sched.turn] # "live"
      BY <1>2, <1>3, <1>6, RecordsNat DEF TurnOK, JobsTurns
    <2>10. Kept(b, T, "running")
      BY <2>7, <2>9, HandledKept
    <2> QED BY <1>4, <2>5, <2>7, <2>8, <2>10, SteadyTurns DEF b, r
  <1> QED BY <1>5, <1>6

LEMMA FinishSteerTurns ==
    ASSUME NEW a, Good(a), NEW S, TurnOK(a, S, "running"), NEW e \in EventType, Reports(a, e),
           e.kind = "steer", NEW T, Handled(S, T, e),
           \A k : OperationCancelled(k) <=> k \in a.jobs.steerCancelled
    PROVE  TurnOK(FinishSteer(a, e.key, e.outcome, e.turn), T, "running")
  <1> DEFINE k == e.key
             t == e.turn
             b == FinishSteer(a, k, e.outcome, t)
             op == a.sched.steerInFlight
  <1>1. a \in ActorType /\ Good(a) /\ a.sched \in SchedType
    BY Shape DEF Good
  <1>2. k \in Steers /\ t = a.jobs.steer[k].turn
    BY DEF Reports, TurnOK, EventTurns, Handled
  <1>3. T \subseteq S
    BY DEF Handled
  <1>f. /\ op.id # k => b = a
        /\ op.id = k /\ ~SteerMatches(a, k, e.outcome, t) => SteerSettled(a, b, k, e.outcome, t)
        /\ op.id = k /\ SteerMatches(a, k, e.outcome, t) /\ op.activeId \in Ids => SteerJoined(a, b)
    <2>1. PICK x, y, z : x = k /\ y = e.outcome /\ z = t
      OBVIOUS
    <2>2. /\ op.id # x => FinishSteer(a, x, y, z) = a
          /\ op.id = x /\ ~SteerMatches(a, x, y, z) => SteerSettled(a, FinishSteer(a, x, y, z), x, y, z)
          /\ op.id = x /\ SteerMatches(a, x, y, z) /\ op.activeId \in Ids => SteerJoined(a, FinishSteer(a, x, y, z))
      BY <1>1, FinishSteerFields
    <2> QED BY <2>1, <2>2, Zenon
  <1> HIDE DEF b, k, t
  <1>4. ASSUME Steady(a, b), b.sched.launching = a.sched.launching, b.sched.turn = a.sched.turn,
               \A u \in b.turns.cancelled : u \in a.turns.cancelled \/ Cause(b, "running", u)
        PROVE  TurnOK(b, T, "running")
    <2>1. Owned(b, T)
      BY <1>3, <1>4, SameOwned
    <2>2. Kept(b, T, "running")
      BY <1>4, HandledKept
    <2> QED BY <1>3, <1>4, <2>1, <2>2, SteadyTurns
  <1>5. CASE op.id # k
    <2>1. b = a
      BY <1>f, <1>5
    <2>2. Steady(a, b)
      BY <2>1 DEF Steady, TurnOK, JobsTurns
    <2> QED BY <1>4, <2>1, <2>2 DEF b, k, t
  <1>6. CASE op.id = k /\ ~SteerMatches(a, k, e.outcome, t)
    <2> DEFINE s == [a.sched EXCEPT !.steerInFlight = NoOperation]
               R == a.sched.steerInFlight.selected
               cancel == OperationCancelled(k) /\ e.outcome = "assigned"
    <2>0. SteerSettled(a, b, k, e.outcome, t)
      BY <1>f, <1>6
    <2>1. PICK st \in {"failed", "cancelled"} : Settled(a, b, s, R, st, cancel, t)
      BY <2>0, Zenon DEF SteerSettled
    <2>2. /\ b.sched.active = a.sched.active /\ b.sched.turn = a.sched.turn
          /\ b.sched.pending = a.sched.pending /\ b.sched.launching = a.sched.launching
          /\ b.sched.nextOperation = a.sched.nextOperation
      BY <1>1, <2>1 DEF Settled, SchedType
    <2> HIDE DEF s, R
    <2>3. /\ b.jobs = a.jobs /\ b.prompt.cancelled = a.prompt.cancelled
          /\ b.turns.state = a.turns.state /\ b.turns.next = a.turns.next
          /\ \A u : u \in b.turns.cancelled <=>
                u \in a.turns.cancelled \/ (cancel /\ u = t /\ u \in Turns /\ a.turns.state[u] = "live")
      BY <2>1 DEF Settled
    <2>4. \A q \in Records : b.prompt.state[q] = "unused" => a.prompt.state[q] = "unused"
      BY <2>1 DEF Settled, SettledStates
    <2>5. Steady(a, b)
      BY <2>2, <2>3, <2>4 DEF Steady, TurnOK, JobsTurns
    <2>6. \A u \in b.turns.cancelled : u \in a.turns.cancelled \/ Cause(b, "running", u)
      BY <1>2, <2>3 DEF Cause
    <2> QED BY <1>4, <2>2, <2>5, <2>6 DEF b, k, t
  <1>7. CASE op.id = k /\ SteerMatches(a, k, e.outcome, t)
    <2>1. a.sched.active # 0 /\ a.prompt.id[a.sched.active] = op.activeId /\ op.activeId \in Ids
      BY <1>1, <1>7 DEF SteerMatches, Good, Placed, Named, SchedType, Alive
    <2>2. SteerJoined(a, b)
      BY <1>f, <1>7, <2>1
    <2>3. /\ b.sched.active = a.sched.active /\ b.sched.turn = a.sched.turn
          /\ b.sched.pending = a.sched.pending /\ b.sched.launching = a.sched.launching
          /\ b.sched.nextOperation = a.sched.nextOperation
      BY <1>1, <2>2 DEF SteerJoined, SchedType
    <2>4. /\ b.jobs = a.jobs /\ b.turns = a.turns /\ b.prompt.cancelled = a.prompt.cancelled
          /\ b.prompt.state = [r \in Records |-> IF r \in op.selected THEN "steered" ELSE a.prompt.state[r]]
      BY <2>2 DEF SteerJoined
    <2>5. Steady(a, b)
      BY <2>3, <2>4 DEF Steady, TurnOK, JobsTurns
    <2> QED BY <1>4, <2>3, <2>4, <2>5 DEF b, k, t
  <1> QED BY <1>5, <1>6, <1>7

LEMMA FinishTurns ==
    ASSUME NEW a, Good(a), NEW S, TurnOK(a, S, "running"), NEW e \in EventType, Reports(a, e),
           NEW T, Handled(S, T, e),
           \A r : TokenCancelled(r) <=> r \in a.prompt.cancelled,
           \A k : OperationCancelled(k) <=> k \in a.jobs.steerCancelled
    PROVE  TurnOK(Finish(a, e), T, "running")
  <1>1. e.kind \in {"launch", "turn", "steer", "compaction"}
    BY DEF EventType
  <1>2. CASE e.kind = "launch"
    BY <1>2, FinishLaunchTurns DEF Finish
  <1>3. CASE e.kind = "turn"
    BY <1>3, FinishTurnTurns DEF Finish
  <1>4. CASE e.kind = "steer"
    BY <1>4, FinishSteerTurns DEF Finish
  <1>5. CASE e.kind = "compaction"
    <2>1. Finish(a, e) = a
      BY <1>5 DEF Finish
    <2>2. Steady(a, a)
      BY DEF Steady, TurnOK, JobsTurns
    <2>3. T \subseteq S
      BY DEF Handled
    <2>4. Owned(a, T)
      BY <2>2, <2>3, SameOwned
    <2>5. Kept(a, T, "running")
      BY <1>5, <2>2, HandledKept
    <2> QED BY <2>1, <2>2, <2>3, <2>4, <2>5, SteadyTurns
  <1> QED BY <1>1, <1>2, <1>3, <1>4, <1>5

\* A steer command waits: the turns are not touched.
LEMMA AskedTurns ==
    ASSUME NEW a, Good(a), NEW S, NEW ph, TurnOK(a, S, ph), NEW ids \in SUBSET Ids
    PROVE  TurnOK([a EXCEPT !.sched.pendingSteers = Append(@, ids)], S, ph)
  <1> DEFINE c == [a EXCEPT !.sched.pendingSteers = Append(@, ids)]
  <1>1. a \in ActorType /\ a.sched \in SchedType
    BY Shape DEF Good
  <1>2. /\ c.prompt = a.prompt /\ c.jobs = a.jobs /\ c.turns = a.turns
        /\ c.sched = [a.sched EXCEPT !.pendingSteers = Append(@, ids)]
    BY <1>1 DEF ActorType
  <1> HIDE DEF c
  <1>3. /\ c.sched.active = a.sched.active /\ c.sched.turn = a.sched.turn
        /\ c.sched.pending = a.sched.pending /\ c.sched.launching = a.sched.launching
        /\ c.sched.nextOperation = a.sched.nextOperation
    BY <1>1, <1>2 DEF SchedType
  <1>4. Steady(a, c)
    BY <1>2, <1>3 DEF Steady, TurnOK, JobsTurns
  <1>5. Owned(c, S)
    BY <1>3, <1>4, SameOwned
  <1>6. Kept(c, S, ph)
    BY <1>3, <1>4, SameKept
  <1> QED BY <1>2, <1>4, <1>5, <1>6, SteadyTurns DEF c

\* The record that a command gives out has no task yet.
LEMMA AcceptedTurns ==
    ASSUME NEW a, Good(a), NEW S, NEW ph, TurnOK(a, S, ph), NEW r \in Records, NEW id \in Ids,
           a.prompt.state[r] = "unused"
    PROVE  TurnOK(Accepted(a, r, id), S, ph)
  <1> DEFINE c == Accepted(a, r, id)
  <1>0. a \in ActorType
    BY DEF Good
  <1>1. /\ c \in ActorType /\ c.jobs = a.jobs /\ c.turns = a.turns
        /\ c.sched = [a.sched EXCEPT !.pending = @ \cup {r}]
        /\ c.prompt.state = [a.prompt.state EXCEPT ![r] = "pending"]
        /\ c.prompt.id = [a.prompt.id EXCEPT ![r] = id]
        /\ c.prompt.cancelled = a.prompt.cancelled
    BY <1>0, AcceptedFields, ZenonT(30)
  <1> HIDE DEF c
  <1>2. a.sched \in SchedType /\ a.prompt \in PromptType
    BY Shape DEF Good
  <1>3. /\ c.sched.active = a.sched.active /\ c.sched.turn = a.sched.turn
        /\ c.sched.pending = a.sched.pending \cup {r} /\ c.sched.launching = a.sched.launching
        /\ c.sched.nextOperation = a.sched.nextOperation
    BY <1>1, <1>2 DEF SchedType
  <1>4. \A q \in Records : c.prompt.state[q] = IF q = r THEN "pending" ELSE a.prompt.state[q]
    BY <1>1, <1>2 DEF PromptType
  <1>5. JobsTurns(c)
    <2>1. \A q \in Records : c.prompt.state[q] = "unused" \/ q \in c.sched.pending => c.jobs.launch[q] = NoJob
      BY <1>1, <1>3, <1>4 DEF TurnOK, JobsTurns
    <2> QED BY <1>1, <1>3, <2>1 DEF TurnOK, JobsTurns, Dropped
  <1>6. \A e \in S : EventTurns(c, e)
    BY <1>1 DEF TurnOK, EventTurns, Dropped
  <1>7. Owned(c, S)
    BY <1>1, <1>3 DEF TurnOK, Owned
  <1>8. Kept(c, S, ph)
    BY <1>1, <1>3 DEF TurnOK, Kept
  <1>9. Caused(c, ph)
    BY <1>1 DEF TurnOK, Caused, Cause
  <1> QED BY <1>5, <1>6, <1>7, <1>8, <1>9 DEF TurnOK, c

\* Shutting down is a reason to cancel, and once the actor is gone nobody
\* owns a turn.
LEMMA PhaseTurns ==
    ASSUME NEW a, NEW S, NEW ph, TurnOK(a, S, ph), NEW next, ph # "running" => next # "running",
           ph = "exited" => next = "exited"
    PROVE  /\ TurnOK(a, S, next)
           /\ next = "exited" => TurnOK(a, {}, next)
  <1>1. Caused(a, next)
    BY DEF TurnOK, Caused, Cause
  <1>2. Kept(a, S, next)
    BY DEF TurnOK, Kept
  <1>3. next = "exited" => Kept(a, {}, next)
    BY DEF Kept
  <1>4. Owned(a, {})
    BY DEF TurnOK, Owned
  <1> QED BY <1>1, <1>2, <1>3, <1>4 DEF TurnOK

\* The events of the channel as a set.
LEMMA SentReports ==
    ASSUME PromptInv
    PROVE  \A e \in Sent(events) : Reports(Actor, e)
  BY InvParts DEF EventsReport, Sent

\* A handler runs after the command or the event, and drives the queue.
LEMMA DrivenTurns ==
    ASSUME NEW a, Sound(a), NEW S, NEW ph, TurnOK(a, S, ph), \A e \in S : Reports(a, e)
    PROVE  TurnOK(Drive(a), S, ph) /\ TurnOK(Drive(DriveSteer(a)), S, ph)
  <1>1. TurnOK(Drive(a), S, ph)
    BY DriveTurns DEF Sound
  <1>2. PICK d : d = DriveSteer(a)
    OBVIOUS
  <1>3. TurnOK(d, S, ph)
    BY <1>2, DriveSteerTurns DEF Sound
  <1>4. Sound(d) /\ d.turns = a.turns
    BY <1>2, DriveSteerSound
  <1>5. \A e \in S : Reports(d, e)
    BY <1>4 DEF Reports, Born
  <1>6. TurnOK(Drive(d), S, ph)
    BY <1>3, <1>4, <1>5, DriveTurns DEF Sound
  <1> QED BY <1>1, <1>2, <1>6

LEMMA TurnParts ==
    /\ TurnInv <=> PromptInv /\ TurnOK(Actor, Sent(events), phase) /\ OneReport
    /\ TurnInv' <=> PromptInv' /\ TurnOK(Actor', Sent(events'), phase') /\ OneReport'
  BY Zenon DEF TurnInv

LEMMA EnqueueTurns ==
    ASSUME TurnInv, NEW id \in Ids, Enqueue(id)
    PROVE  TurnOK(Actor', Sent(events'), phase') /\ OneReport'
  <1>0. PICK r : r = used.prompts + 1
    OBVIOUS
  <1>1. /\ Good(Actor) /\ Sound(Actor) /\ Actor \in ActorType /\ used \in UsedType /\ Unused
        /\ TurnOK(Actor, Sent(events), phase) /\ OneReport
    BY InvParts, TurnParts DEF Sound, Good
  <1>2. used.prompts \in 0 .. MaxPrompts /\ used.prompts < MaxPrompts
    BY <1>1 DEF Enqueue, UsedType
  <1>3. r \in Records
    BY <1>0, <1>2, BoundsAssumption DEF Records
  <1>4. Actor.prompt.state[r] = "unused"
    BY <1>0, <1>1, <1>2, <1>3, ActorFields DEF Unused
  <1> DEFINE c == Accepted(Actor, r, id)
  <1>5. /\ Commit(Drive(c)) /\ UNCHANGED <<events, phase>> /\ \A q \in LiveRecords(sched) : prompt.id[q] # id
    BY <1>0, Zenon DEF Enqueue, Accepted
  <1>6. /\ c \in ActorType /\ c.jobs = Actor.jobs /\ c.turns = Actor.turns
        /\ c.sched = [Actor.sched EXCEPT !.pending = @ \cup {r}]
        /\ c.prompt.state = [Actor.prompt.state EXCEPT ![r] = "pending"]
        /\ c.prompt.id = [Actor.prompt.id EXCEPT ![r] = id]
    BY <1>1, <1>3, AcceptedFields
  <1>7. Good(c)
    BY <1>1, <1>3, <1>4, <1>5, ActorFields, AcceptedGood
  <1>8. TurnOK(c, Sent(events), phase)
    BY <1>1, <1>3, <1>4, AcceptedTurns
  <1> HIDE DEF c
  <1>9. Sound(c)
    BY <1>1, <1>6, <1>7, JobsSame
  <1>10. \A e \in Sent(events) : Reports(c, e)
    BY <1>6, SentReports, TurnParts DEF Reports, Born
  <1>11. TurnOK(Drive(c), Sent(events), phase)
    BY <1>8, <1>9, <1>10, DrivenTurns
  <1>12. Actor' = Drive(c)
    BY <1>5, <1>9, DriveSound, Committed DEF Sound, Good
  <1>13. OneReport'
    BY <1>1, <1>5 DEF OneReport
  <1> QED BY <1>5, <1>11, <1>12, <1>13

LEMMA SteerTurns ==
    ASSUME TurnInv, NEW ids \in SUBSET Ids, Steer(ids)
    PROVE  TurnOK(Actor', Sent(events'), phase') /\ OneReport'
  <1> DEFINE asked == [Actor EXCEPT !.sched.pendingSteers = Append(@, ids)]
             b == Drive(DriveSteer(asked))
  <1>1. Sound(Actor) /\ TurnOK(Actor, Sent(events), phase) /\ OneReport
    BY InvParts, TurnParts
  <1>2. Keeps(Actor, asked)
    BY <1>1, AskedKeeps
  <1>3. TurnOK(asked, Sent(events), phase)
    BY <1>1, AskedTurns DEF Sound
  <1>4. Commit(b) /\ UNCHANGED <<events, phase>>
    BY DEF Steer
  <1> HIDE DEF asked
  <1>5. Sound(asked) /\ asked.turns.state = Actor.turns.state
    BY <1>2 DEF Keeps
  <1>6. \A e \in Sent(events) : Reports(asked, e)
    BY <1>5, SentReports, TurnParts DEF Reports, Born
  <1>7. TurnOK(b, Sent(events), phase)
    BY <1>3, <1>5, <1>6, DrivenTurns
  <1>8. b \in ActorType
    BY <1>2, DriveKeeps DEF Keeps, Sound, Good
  <1> HIDE DEF b
  <1>9. OneReport'
    BY <1>1, <1>4 DEF OneReport
  <1> QED BY <1>4, <1>7, <1>8, <1>9, Committed

LEMMA AbortStepTurns ==
    ASSUME TurnInv, NEW id, Abort(id)
    PROVE  TurnOK(Actor', Sent(events'), phase') /\ OneReport'
  <1> DEFINE c == AbortPrompt(Actor, id)
             b == Drive(c)
  <1>1. Sound(Actor) /\ TurnOK(Actor, Sent(events), phase) /\ OneReport
    BY InvParts, TurnParts
  <1>2. Keeps(Actor, c)
    BY <1>1, AbortKeeps
  <1>3. TurnOK(c, Sent(events), phase)
    BY <1>1, AbortTurns DEF Sound
  <1>4. Commit(b) /\ UNCHANGED <<events, phase>>
    BY DEF Abort
  <1> HIDE DEF c
  <1>5. Sound(c) /\ c.turns.state = Actor.turns.state
    BY <1>2 DEF Keeps
  <1>6. \A e \in Sent(events) : Reports(c, e)
    BY <1>5, SentReports, TurnParts DEF Reports, Born
  <1>7. TurnOK(b, Sent(events), phase)
    BY <1>3, <1>5, <1>6, DrivenTurns
  <1>8. b \in ActorType
    BY <1>2, DriveKeeps DEF Keeps, Sound, Good
  <1> HIDE DEF b
  <1>9. OneReport'
    BY <1>1, <1>4 DEF OneReport
  <1> QED BY <1>4, <1>7, <1>8, <1>9, Committed

LEMMA ClearTurns ==
    ASSUME TurnInv, Clear \/ ActorExit
    PROVE  TurnOK(Actor', Sent(events'), phase') /\ OneReport'
  <1> DEFINE b == ClearAll(Actor)
  <1>1. Sound(Actor) /\ TurnOK(Actor, Sent(events), phase) /\ OneReport
    BY InvParts, TurnParts
  <1>2. TurnOK(b, Sent(events), phase)
    BY <1>1, ClearAllTurns DEF Sound
  <1>3. b \in ActorType
    BY <1>1, ClearAllKeeps DEF Keeps, Sound, Good
  <1>4. Commit(b)
    BY DEF Clear, ActorExit
  <1> HIDE DEF b
  <1>5. Actor' = b
    BY <1>3, <1>4, Committed
  <1>6. CASE Clear
    <2>1. UNCHANGED <<events, phase>>
      BY <1>6 DEF Clear
    <2> QED BY <1>1, <1>2, <1>5, <2>1 DEF OneReport
  <1>7. CASE ActorExit
    <2>1. phase = "closing" /\ phase' = "exited" /\ events' = <<>>
      BY <1>7 DEF ActorExit
    <2>2. Len(events') = 0
      BY <2>1, EmptySeq
    <2>3. Sent(events') = {} /\ OneReport'
      BY <2>2 DEF Sent, OneReport
    <2> QED BY <1>2, <1>5, <2>1, <2>3, PhaseTurns
  <1> QED BY <1>6, <1>7

LEMMA HandleEventTurns ==
    ASSUME TurnInv, HandleEvent
    PROVE  TurnOK(Actor', Sent(events'), phase') /\ OneReport'
  <1> DEFINE e == Head(events)
             c == Finish(Actor, e)
             b == Drive(DriveSteer(c))
  <1>1. /\ Sound(Actor) /\ events \in Seq(EventType) /\ EventsReport
        /\ TurnOK(Actor, Sent(events), phase) /\ OneReport
    BY InvParts, TurnParts
  <1>2. /\ Commit(b) /\ events' = Tail(events) /\ events # <<>> /\ phase = "running" /\ phase' = phase
    BY DEF HandleEvent
  <1>3. /\ e = events[1] /\ e \in EventType /\ 1 \in 1 .. Len(events) /\ Len(events) \in Nat
        /\ Len(events') = Len(events) - 1 /\ Len(events') \in Nat
        /\ \A i \in 1 .. Len(events') : i + 1 \in 1 .. Len(events) /\ events'[i] = events[i + 1]
    BY <1>1, <1>2
  <1>4. Reports(Actor, e)
    BY <1>1, <1>3 DEF EventsReport
  <1>5. Handled(Sent(events), Sent(events'), e)
    <2>1. e \in Sent(events)
      BY <1>3 DEF Sent
    <2>2. Sent(events') \subseteq Sent(events)
      BY <1>3 DEF Sent
    <2>3. ASSUME NEW j \in 1 .. Len(events), j # 1 PROVE events[j] \in Sent(events')
      <3>1. j - 1 \in 1 .. Len(events') /\ (j - 1) + 1 = j
        BY <1>3, <2>3
      <3>2. events'[j - 1] = events[j]
        BY <1>3, <3>1
      <3> QED BY <3>1, <3>2 DEF Sent
    <2>4. Sent(events) \subseteq Sent(events') \cup {e}
      BY <1>3, <2>3 DEF Sent
    <2>5. ASSUME e.kind = "launch", NEW i \in 1 .. Len(events'), events'[i].kind = "launch", events'[i].key = e.key
          PROVE  FALSE
      <3>1. i + 1 \in 1 .. Len(events) /\ events'[i] = events[i + 1] /\ i + 1 # 1
        BY <1>3
      <3> QED BY <1>1, <1>3, <2>5, <3>1 DEF OneReport
    <2>6. e.kind = "launch" => \A d \in Sent(events') : ~(d.kind = "launch" /\ d.key = e.key)
      BY <2>5 DEF Sent
    <2> QED BY <2>1, <2>2, <2>4, <2>6 DEF Handled
  <1> HIDE DEF e
  <1>6. /\ \A r : TokenCancelled(r) <=> r \in Actor.prompt.cancelled
        /\ \A k : OperationCancelled(k) <=> k \in Actor.jobs.steerCancelled
    BY <1>2, ActorFields DEF TokenCancelled, OperationCancelled
  <1>7. TurnOK(c, Sent(events'), "running")
    BY <1>1, <1>2, <1>3, <1>4, <1>5, <1>6, FinishTurns DEF Sound
  <1>8. Keeps(Actor, c)
    BY <1>1, <1>3, <1>4, FinishKeeps
  <1> HIDE DEF c
  <1>9. Sound(c) /\ c.turns.state = Actor.turns.state
    BY <1>8 DEF Keeps
  <1>10. \A d \in Sent(events') : Reports(c, d)
    BY <1>5, <1>9, SentReports, TurnParts DEF Reports, Born, Handled
  <1>11. TurnOK(b, Sent(events'), "running")
    BY <1>7, <1>9, <1>10, DrivenTurns
  <1>12. b \in ActorType
    BY <1>8, DriveKeeps DEF Keeps, Sound, Good
  <1> HIDE DEF b
  <1>13. OneReport'
    <2> SUFFICES ASSUME NEW i \in 1 .. Len(events'), NEW j \in 1 .. Len(events'),
                        events'[i].kind = "launch", events'[j].kind = "launch", events'[i].key = events'[j].key
                 PROVE  i = j
      BY DEF OneReport
    <2>1. i + 1 = j + 1
      BY <1>1, <1>3 DEF OneReport
    <2> QED BY <2>1
  <1> QED BY <1>2, <1>11, <1>12, <1>13, Committed

\* What SendEvent does to the set of the events.
LEMMA SentMore ==
    ASSUME events \in Seq(EventType), NEW kind, NEW key, NEW outcome, NEW t, OneReport,
           SendEvent(kind, key, outcome, t),
           kind = "launch" => \A d \in Sent(events) : ~(d.kind = "launch" /\ d.key = key),
           NEW e \in EventType, e = [kind |-> kind, key |-> key, outcome |-> outcome, turn |-> t]
    PROVE  /\ Sent(events) \subseteq Sent(events') /\ Sent(events') \subseteq Sent(events) \cup {e}
           /\ phase # "exited" => e \in Sent(events')
           /\ OneReport'
  <1>1. CASE events' = events /\ phase = "exited"
    BY <1>1 DEF OneReport
  <1>2. CASE events' = Append(events, e)
    <2>1. /\ Len(events') = Len(events) + 1 /\ Len(events) \in Nat
          /\ \A i \in 1 .. Len(events) + 1 : events'[i] = IF i <= Len(events) THEN events[i] ELSE e
      BY <1>2, AppendProperties
    <2>2. /\ \A i \in 1 .. Len(events) : i \in 1 .. Len(events') /\ events'[i] = events[i]
          /\ Len(events) + 1 \in 1 .. Len(events') /\ events'[Len(events) + 1] = e
          /\ \A i \in 1 .. Len(events') : i \in 1 .. Len(events) \/ i = Len(events) + 1
      BY <2>1
    <2>3. Sent(events) \subseteq Sent(events') /\ Sent(events') \subseteq Sent(events) \cup {e} /\ e \in Sent(events')
      BY <2>2 DEF Sent
    <2>4. e.kind = kind /\ e.key = key
      OBVIOUS
    <2>5. ASSUME NEW i \in 1 .. Len(events), events[i].kind = "launch", e.kind = "launch", events[i].key = e.key
          PROVE  FALSE
      BY <2>4, <2>5 DEF Sent
    <2>6. OneReport'
      BY <2>2, <2>5 DEF OneReport
    <2> QED BY <2>3, <2>6
  <1> QED BY <1>1, <1>2 DEF SendEvent

\* A launch task: it changes its own entry, perhaps its turn, and may report.
LEMMA LaunchTaskTurns ==
    ASSUME TurnInv, NEW r \in Records, NEW job \in JobType, JobSet(jobs, jobs', r, job),
           jobs.launch[r].pc \in {"hook", "assigned", "send"}, job.pc \notin {"none", "hook"},
           prompt' = prompt, sched' = sched, phase' = phase, turns' \in TurnsType,
           \A t \in Turns : turns'.state[t] = turns.state[t] \/ t = turns.next,
           turns.cancelled \subseteq turns'.cancelled, turns.next <= turns'.next,
           job.turn = jobs.launch[r].turn \/ (jobs.launch[r].pc = "hook" /\ r # sched.active),
           job.turn < turns'.next,
           job.pc = "send" /\ job.outcome # "started" => Dropped(Actor', job.turn),
           NEW T, Sent(events) \subseteq T,
           \A e \in T : e \in Sent(events) \/ (e.kind = "launch" /\ e.key = r /\ EventTurns(Actor', e)),
           \/ job.turn = 0 \/ phase = "exited" \/ job.pc \in {"assigned", "send"} \/ Dropped(Actor', job.turn)
           \/ \E e \in T : e.kind = "launch" /\ e.outcome = "started" /\ e.turn = job.turn,
           \A t \in turns'.cancelled : t \in turns.cancelled
                                       \/ (t = job.turn /\ (r \in prompt.cancelled \/ phase # "running"))
    PROVE  TurnOK(Actor', T, phase')
  <1>1. /\ TurnOK(Actor, Sent(events), phase) /\ PromptInv
        /\ JobsTurns(Actor) /\ Owned(Actor, Sent(events)) /\ Kept(Actor, Sent(events), phase)
        /\ Caused(Actor, phase) /\ \A e \in Sent(events) : EventTurns(Actor, e)
    BY TurnParts DEF TurnOK
  <1>2. jobs \in JobsType /\ turns \in TurnsType /\ sched \in SchedType
    BY <1>1, StateTypes
  <1>3. /\ jobs'.monitor = jobs.monitor /\ jobs'.steer = jobs.steer
        /\ jobs'.steerCancelled = jobs.steerCancelled
        /\ \A q \in Records : jobs'.launch[q] = IF q = r THEN job ELSE jobs.launch[q]
    BY DEF JobSet
  <1>4. /\ turns.next \in Nat /\ turns'.next \in Nat
        /\ \A q \in Records : jobs.launch[q].turn \in Turns \cup {0} /\ jobs.launch[q].turn \in Nat
    <2>1. turns.next \in Nat /\ turns'.next \in Nat
      BY <1>2 DEF TurnsType
    <2>2. \A q \in Records : jobs.launch[q].turn \in Turns \cup {0}
      BY <1>2 DEF JobsType, JobType
    <2>3. \A x \in Turns \cup {0} : x \in Nat
      BY TurnsNat
    <2> QED BY <2>1, <2>2, <2>3, Zenon
  <1>5. \A q \in Records : jobs.launch[q].turn < turns.next
    BY <1>1, ActorFields DEF JobsTurns
  <1>6. \A q \in Records : jobs.launch[q].turn # 0 =>
           turns'.state[jobs.launch[q].turn] = turns.state[jobs.launch[q].turn]
    BY <1>4, <1>5
  <1>7. jobs.launch[r].pc = "hook" => jobs.launch[r].turn = 0
    BY <1>1, ActorFields DEF JobsTurns
  <1>8. NoJob.pc = "none"
    BY DEF NoJob
  <1>9. JobsTurns(Actor')
    <2> USE ActorFields
    <2>1. \A q \in Records : prompt'.state[q] = "unused" \/ q \in sched'.pending => jobs'.launch[q] = NoJob
      BY <1>1, <1>3, <1>8 DEF JobsTurns
    <2>2. \A q \in Records : jobs'.launch[q].pc \in {"none", "hook"} => jobs'.launch[q].turn = 0
      BY <1>1, <1>3 DEF JobsTurns
    <2>3. \A q \in Records : jobs'.launch[q].turn < turns'.next
      BY <1>3, <1>4, <1>5
    <2>4. \A q \in Records : jobs'.launch[q].pc = "send" /\ jobs'.launch[q].outcome # "started"
                              => Dropped(Actor', jobs'.launch[q].turn)
      BY <1>1, <1>3, <1>6 DEF JobsTurns, Dropped
    <2>5. sched'.active = 0 => sched'.turn = 0
      BY <1>1 DEF JobsTurns
    <2>6. sched'.active # 0 => sched'.turn = jobs'.launch[sched'.active].turn
      <3>1. sched.active # 0 => sched.active \in Records /\ sched.turn = jobs.launch[sched.active].turn
        BY <1>1, <1>2 DEF JobsTurns, SchedType
      <3> QED BY <1>3, <3>1
    <2>7. \A q \in Records : jobs'.monitor[q] # 0 => jobs'.monitor[q] = jobs'.launch[q].turn
      BY <1>1, <1>3, <1>7 DEF JobsTurns
    <2>8. \A k \in Steers : jobs'.steer[k].pc \in {"none", "start"} => jobs'.steer[k].turn = 0
      BY <1>1, <1>3 DEF JobsTurns
    <2>9. \A k \in Steers : k >= sched'.nextOperation => jobs'.steer[k] = NoJob
      BY <1>1, <1>3 DEF JobsTurns
    <2> QED BY <2>1, <2>2, <2>3, <2>4, <2>5, <2>6, <2>7, <2>8, <2>9 DEF JobsTurns
  <1>10. \A e \in T : EventTurns(Actor', e)
    <2> SUFFICES ASSUME NEW e \in Sent(events) PROVE EventTurns(Actor', e)
      OBVIOUS
    <2>1. EventTurns(Actor, e) /\ Reports(Actor, e)
      BY <1>1, SentReports
    <2>2. CASE e.kind = "launch"
      <3>1. /\ e.key \in Records /\ e.turn = jobs.launch[e.key].turn /\ jobs.launch[e.key].pc = "done"
            /\ e.outcome # "started" => Dropped(Actor, e.turn)
        BY <2>1, <2>2, ActorFields DEF EventTurns, Reports
      <3>2. e.key # r
        BY <3>1
      <3> QED BY <1>3, <1>6, <2>2, <3>1, <3>2, ActorFields DEF EventTurns, Dropped
    <2>3. CASE e.kind = "turn"
      <3>1. /\ e.key \in Records /\ e.turn # 0 /\ e.turn = jobs.launch[e.key].turn /\ turns.state[e.turn] # "live"
        BY <2>1, <2>3, ActorFields DEF EventTurns, Reports
      <3> QED BY <1>3, <1>6, <1>7, <2>3, <3>1, ActorFields DEF EventTurns
    <2>4. CASE e.kind = "steer"
      BY <1>3, <2>1, <2>4, ActorFields DEF EventTurns
    <2> QED BY <2>2, <2>3, <2>4 DEF EventTurns
  <1>11. Owned(Actor', T)
    BY <1>1, <1>3, ActorFields DEF Owned
  <1>12. Kept(Actor', T, phase')
    <2> SUFFICES ASSUME NEW q \in Records, jobs'.launch[q].turn # 0, phase' # "exited"
                 PROVE  \/ turns'.state[jobs'.launch[q].turn] # "live"
                        \/ jobs'.launch[q].turn \in turns'.cancelled
                        \/ sched'.turn = jobs'.launch[q].turn
                        \/ jobs'.launch[q].pc \in {"assigned", "send"}
                        \/ \E e \in T : e.kind = "launch" /\ e.outcome = "started" /\ e.turn = jobs'.launch[q].turn
      BY ActorFields DEF Kept
    <2>1. CASE q = r
      BY <1>3, <2>1, ActorFields DEF Dropped
    <2>2. CASE q # r
      BY <1>1, <1>3, <1>6, <2>2, ActorFields DEF Kept
    <2> QED BY <2>1, <2>2
  <1>13. Caused(Actor', phase')
    <2>1. 0 \notin turns.cancelled
      BY <1>2, TurnsNat DEF TurnsType
    <2>2. ASSUME NEW t \in turns.cancelled PROVE Cause(Actor', phase', t)
      <3>1. Cause(Actor, phase, t) /\ t # 0
        BY <1>1, <2>1, <2>2, ActorFields DEF Caused
      <3> QED BY <1>3, <1>7, <3>1, ActorFields DEF Cause
    <2>3. ASSUME NEW t, t = job.turn, r \in prompt.cancelled \/ phase # "running" PROVE Cause(Actor', phase', t)
      BY <1>3, <2>3, ActorFields DEF Cause
    <2> QED BY <2>2, <2>3, ActorFields DEF Caused
  <1> QED BY <1>9, <1>10, <1>11, <1>12, <1>13 DEF TurnOK

\* Any other task, and the loop itself: the launches are left alone.
LEMMA OtherTaskTurns ==
    ASSUME TurnInv, jobs'.launch = jobs.launch, jobs'.steerCancelled = jobs.steerCancelled,
           \A q \in Records : jobs'.monitor[q] \in {jobs.monitor[q], 0},
           \A m \in Steers : \/ jobs'.steer[m] = jobs.steer[m]
                             \/ /\ jobs.steer[m].pc \in {"start", "assigned", "send"}
                                /\ jobs'.steer[m].pc \notin {"none", "start"}
                                /\ jobs'.steer[m].turn = jobs.steer[m].turn \/ jobs.steer[m].pc = "start",
           prompt' = prompt, sched' = sched, phase' = phase, turns' \in TurnsType,
           \A t \in Turns : turns'.state[t] = turns.state[t] \/ t = turns.next \/ turns'.state[t] # "live",
           turns'.cancelled = turns.cancelled, turns.next <= turns'.next,
           NEW T, Sent(events) \subseteq T,
           \A e \in T : e \in Sent(events) \/ (e.kind # "launch" /\ EventTurns(Actor', e))
    PROVE  TurnOK(Actor', T, phase')
  <1>1. /\ TurnOK(Actor, Sent(events), phase) /\ PromptInv
        /\ JobsTurns(Actor) /\ Owned(Actor, Sent(events)) /\ Kept(Actor, Sent(events), phase)
        /\ Caused(Actor, phase) /\ \A e \in Sent(events) : EventTurns(Actor, e)
    BY TurnParts DEF TurnOK
  <1>2. jobs \in JobsType /\ turns \in TurnsType
    BY <1>1, StateTypes
  <1>3. /\ turns.next \in Nat /\ turns'.next \in Nat
        /\ \A q \in Records : jobs.launch[q].turn \in Turns \cup {0} /\ jobs.launch[q].turn \in Nat
    <2>1. turns.next \in Nat /\ turns'.next \in Nat
      BY <1>2 DEF TurnsType
    <2>2. \A q \in Records : jobs.launch[q].turn \in Turns \cup {0}
      BY <1>2 DEF JobsType, JobType
    <2>3. \A x \in Turns \cup {0} : x \in Nat
      BY TurnsNat
    <2> QED BY <2>1, <2>2, <2>3, Zenon
  <1>4. \A q \in Records : jobs.launch[q].turn < turns.next
    BY <1>1, ActorFields DEF JobsTurns
  <1>5. \A q \in Records : jobs.launch[q].turn # 0 =>
           \/ turns'.state[jobs.launch[q].turn] = turns.state[jobs.launch[q].turn]
           \/ turns'.state[jobs.launch[q].turn] # "live"
    BY <1>3, <1>4
  <1>6. NoJob.pc = "none"
    BY DEF NoJob
  <1>7. JobsTurns(Actor')
    <2> USE ActorFields
    <2>1. \A q \in Records : prompt'.state[q] = "unused" \/ q \in sched'.pending => jobs'.launch[q] = NoJob
      BY <1>1 DEF JobsTurns
    <2>2. \A q \in Records : jobs'.launch[q].pc \in {"none", "hook"} => jobs'.launch[q].turn = 0
      BY <1>1 DEF JobsTurns
    <2>3. \A q \in Records : jobs'.launch[q].turn < turns'.next
      BY <1>3, <1>4
    <2>4. \A q \in Records : jobs'.launch[q].pc = "send" /\ jobs'.launch[q].outcome # "started"
                              => Dropped(Actor', jobs'.launch[q].turn)
      BY <1>1, <1>5 DEF JobsTurns, Dropped
    <2>5. sched'.active = 0 => sched'.turn = 0
      BY <1>1 DEF JobsTurns
    <2>6. sched'.active # 0 => sched'.turn = jobs'.launch[sched'.active].turn
      BY <1>1 DEF JobsTurns
    <2>7. \A q \in Records : jobs'.monitor[q] # 0 => jobs'.monitor[q] = jobs'.launch[q].turn
      BY <1>1 DEF JobsTurns
    <2>8. \A k \in Steers : jobs'.steer[k].pc \in {"none", "start"} => jobs'.steer[k].turn = 0
      BY <1>1 DEF JobsTurns
    <2>9. \A k \in Steers : k >= sched'.nextOperation => jobs'.steer[k] = NoJob
      BY <1>1, <1>6 DEF JobsTurns
    <2> QED BY <2>1, <2>2, <2>3, <2>4, <2>5, <2>6, <2>7, <2>8, <2>9 DEF JobsTurns
  <1>8. \A e \in T : EventTurns(Actor', e)
    <2> SUFFICES ASSUME NEW e \in Sent(events) PROVE EventTurns(Actor', e)
      OBVIOUS
    <2>1. EventTurns(Actor, e) /\ Reports(Actor, e)
      BY <1>1, SentReports
    <2>2. CASE e.kind = "launch"
      <3>1. /\ e.key \in Records /\ e.turn = jobs.launch[e.key].turn /\ jobs.launch[e.key].pc = "done"
            /\ e.outcome # "started" => Dropped(Actor, e.turn)
        BY <2>1, <2>2, ActorFields DEF EventTurns, Reports
      <3> QED BY <1>5, <2>2, <3>1, ActorFields DEF EventTurns, Dropped
    <2>3. CASE e.kind = "turn"
      <3>1. /\ e.key \in Records /\ e.turn # 0 /\ e.turn = jobs.launch[e.key].turn /\ turns.state[e.turn] # "live"
        BY <2>1, <2>3, ActorFields DEF EventTurns, Reports
      <3> QED BY <1>5, <2>3, <3>1, ActorFields DEF EventTurns
    <2>4. CASE e.kind = "steer"
      <3>1. e.key \in Steers /\ e.turn = jobs.steer[e.key].turn /\ jobs.steer[e.key].pc = "done"
        BY <2>1, <2>4, ActorFields DEF EventTurns, Reports
      <3>2. jobs'.steer[e.key] = jobs.steer[e.key]
        BY <3>1
      <3> QED BY <2>4, <3>1, <3>2, ActorFields DEF EventTurns
    <2> QED BY <2>2, <2>3, <2>4 DEF EventTurns
  <1>9. Owned(Actor', T)
    BY <1>1, ActorFields DEF Owned
  <1>10. Kept(Actor', T, phase')
    BY <1>1, <1>5, ActorFields DEF Kept
  <1>11. Caused(Actor', phase')
    <2>1. 0 \notin turns.cancelled
      BY <1>2, TurnsNat DEF TurnsType
    <2>2. \A k \in Steers : jobs.steer[k].turn # 0 => jobs'.steer[k].turn = jobs.steer[k].turn
      BY <1>1, ActorFields DEF JobsTurns
    <2>3. ASSUME NEW t \in turns.cancelled PROVE Cause(Actor', phase', t)
      <3>1. Cause(Actor, phase, t) /\ t # 0
        BY <1>1, <2>1, <2>3, ActorFields DEF Caused
      <3> QED BY <2>2, <3>1, ActorFields DEF Cause
    <2> QED BY <2>3, ActorFields DEF Caused
  <1> QED BY <1>7, <1>8, <1>9, <1>10, <1>11 DEF TurnOK

\* The steps of the tasks and of the loop.
LEMMA EndsEarlyTurns ==
    ASSUME TurnInv, NEW r \in Records, NEW outcome \in Refusals \cup {"cancelled"},
           LaunchEndsEarly(r, outcome)
    PROVE  TurnOK(Actor', Sent(events'), phase') /\ OneReport'
  <1> DEFINE job == [pc |-> "send", turn |-> jobs.launch[r].turn, outcome |-> outcome]
  <1>1. PromptInv /\ OneReport /\ TurnOK(Actor, Sent(events), phase)
    BY TurnParts
  <1>2. jobs \in JobsType /\ turns \in TurnsType
    BY <1>1, StateTypes
  <1>3. UNCHANGED <<prompt, sched, turns, events, phase>>
    BY DEF LaunchEndsEarly
  <1>4. outcome \in Outcomes
    BY OutcomesAssumption DEF Outcomes
  <1>5. JobSet(jobs, jobs', r, job) /\ jobs.launch[r] \in JobType
    BY <1>2, <1>4, LaunchExcept DEF LaunchEndsEarly, DecideLaunch
  <1>6. job \in JobType /\ job.pc = "send" /\ job.turn = jobs.launch[r].turn
    BY <1>4, <1>5 DEF JobType
  <1> HIDE DEF job
  <1>7. jobs.launch[r].pc = "hook" /\ jobs.launch[r].turn = 0 /\ jobs.launch[r].turn < turns.next
    BY <1>1, ActorFields DEF LaunchEndsEarly, TurnOK, JobsTurns
  <1>8. Dropped(Actor', job.turn)
    BY <1>6, <1>7 DEF Dropped
  <1>9. turns.next <= turns.next
    BY <1>2 DEF TurnsType
  <1>10. TurnOK(Actor', Sent(events), phase')
    BY <1>2, <1>3, <1>5, <1>6, <1>7, <1>8, <1>9, LaunchTaskTurns
  <1> QED BY <1>1, <1>3, <1>10 DEF OneReport

LEMMA LaunchEnqueuesTurns ==
    ASSUME TurnInv, NEW r \in Records, LaunchEnqueues(r)
    PROVE  TurnOK(Actor', Sent(events'), phase') /\ OneReport'
  <1> DEFINE job == [pc |-> "assigned", turn |-> turns.next, outcome |-> jobs.launch[r].outcome]
  <1>1. PromptInv /\ OneReport /\ TurnOK(Actor, Sent(events), phase) /\ Placed(Actor)
    BY TurnParts, InvParts DEF Sound, Good
  <1>2. jobs \in JobsType /\ turns \in TurnsType /\ turns.next \in Turns
        /\ turns' = [turns EXCEPT !.state[turns.next] = "live", !.next = @ + 1]
    BY <1>1, StateTypes DEF LaunchEnqueues
  <1>3. UNCHANGED <<prompt, sched, events, phase>>
    BY DEF LaunchEnqueues
  <1>4. JobSet(jobs, jobs', r, job) /\ jobs.launch[r] \in JobType
    BY <1>2, LaunchExcept DEF LaunchEnqueues
  <1>5. job \in JobType /\ job.pc = "assigned" /\ job.turn = turns.next
    BY <1>2, <1>4 DEF JobType
  <1> HIDE DEF job
  <1>6. /\ turns' \in TurnsType /\ turns'.cancelled = turns.cancelled /\ turns'.next = turns.next + 1
        /\ \A t \in Turns : turns'.state[t] = IF t = turns.next THEN "live" ELSE turns.state[t]
    BY <1>2, NewTurn
  <1>7. jobs.launch[r].pc = "hook" /\ r # sched.active
    <2>1. r \notin prompt.cancelled /\ jobs.launch[r].pc = "hook"
      BY DEF LaunchEnqueues, TokenCancelled
    <2>2. r = sched.launching
      BY <1>1, <2>1, ActorFields DEF TurnOK, Owned
    <2>3. sched.active = 0 \/ sched.launching = 0
      BY <1>1, ActorFields DEF Placed
    <2> QED BY <2>1, <2>2, <2>3, RecordsNat
  <1>8. job.turn < turns'.next /\ turns.next <= turns'.next
    BY <1>2, <1>5, <1>6 DEF TurnsType
  <1>9. TurnOK(Actor', Sent(events), phase')
    BY <1>3, <1>4, <1>5, <1>6, <1>7, <1>8, LaunchTaskTurns
  <1> QED BY <1>1, <1>3, <1>9 DEF OneReport

LEMMA LaunchAssignedTurns ==
    ASSUME TurnInv, NEW r \in Records, LaunchAssigned(r)
    PROVE  TurnOK(Actor', Sent(events'), phase') /\ OneReport'
  <1>1. PromptInv /\ OneReport /\ TurnOK(Actor, Sent(events), phase) /\ Actor \in ActorType
    BY TurnParts, InvParts DEF Sound, Good
  <1>2. jobs \in JobsType /\ turns \in TurnsType
    BY <1>1, StateTypes
  <1>3. UNCHANGED <<prompt, sched, events, phase>> /\ jobs.launch[r].pc = "assigned"
    BY DEF LaunchAssigned
  <1>4. PICK outcome : outcome = IF TokenCancelled(r) THEN "cancelled" ELSE "started"
    OBVIOUS
  <1>5. outcome \in Outcomes /\ DecideLaunch(r, outcome)
    BY <1>4 DEF LaunchAssigned, Outcomes
  <1> DEFINE job == [pc |-> "send", turn |-> jobs.launch[r].turn, outcome |-> outcome]
             t == jobs.launch[r].turn
             c == CancelTurn(Actor, t)
  <1>6. JobSet(jobs, jobs', r, job) /\ jobs.launch[r] \in JobType
    BY <1>2, <1>5, LaunchExcept DEF DecideLaunch
  <1>7. job \in JobType /\ job.pc = "send" /\ job.turn = t /\ job.outcome = outcome /\ t \in Turns \cup {0}
    BY <1>5, <1>6 DEF JobType
  <1>8. IF TokenCancelled(r) THEN turns' = c.turns ELSE turns' = turns
    BY DEF LaunchAssigned
  <1>9. /\ c \in ActorType /\ c.turns.state = turns.state /\ c.turns.next = turns.next
        /\ \A u : u \in c.turns.cancelled <=>
              u \in turns.cancelled \/ (u = t /\ u \in Turns /\ turns.state[u] = "live")
    BY <1>1, CancelTurnFields, ActorFields
  <1> HIDE DEF job, c, t
  <1>10. c.turns \in TurnsType
    BY <1>9, Shape
  <1>11. /\ turns' \in TurnsType /\ turns'.state = turns.state /\ turns'.next = turns.next
         /\ turns.cancelled \subseteq turns'.cancelled
         /\ \A u \in turns'.cancelled : u \in turns.cancelled \/ (u = t /\ TokenCancelled(r))
    BY <1>2, <1>8, <1>9, <1>10
  <1>12. job.outcome # "started" => Dropped(Actor', job.turn)
    BY <1>4, <1>7, <1>8, <1>9, ActorFields DEF Dropped
  <1>13. t < turns.next /\ turns.next <= turns.next
    BY <1>1, <1>2, ActorFields DEF TurnOK, JobsTurns, TurnsType, t
  <1>14. TurnOK(Actor', Sent(events), phase')
    <2>1. \A u \in turns'.cancelled : u \in turns.cancelled
                                       \/ (u = job.turn /\ (r \in prompt.cancelled \/ phase # "running"))
      BY <1>7, <1>11 DEF TokenCancelled
    <2> QED BY <1>3, <1>6, <1>7, <1>11, <1>12, <1>13, <2>1, LaunchTaskTurns DEF t
  <1> QED BY <1>1, <1>3, <1>14 DEF OneReport

LEMMA LaunchSendsTurns ==
    ASSUME TurnInv, NEW r \in Records, LaunchSends(r)
    PROVE  TurnOK(Actor', Sent(events'), phase') /\ OneReport'
  <1> DEFINE job == [pc |-> "done", turn |-> jobs.launch[r].turn, outcome |-> "none"]
             e == [kind |-> "launch", key |-> r, outcome |-> jobs.launch[r].outcome,
                   turn |-> jobs.launch[r].turn]
  <1>1. PromptInv /\ OneReport /\ TurnOK(Actor, Sent(events), phase)
    BY TurnParts
  <1>2. jobs \in JobsType /\ turns \in TurnsType /\ events \in Seq(EventType) /\ "none" \in Outcomes
    BY <1>1, StateTypes DEF Outcomes
  <1>3. /\ UNCHANGED <<prompt, sched, turns, phase>> /\ jobs.launch[r].pc = "send"
        /\ SendEvent("launch", r, jobs.launch[r].outcome, jobs.launch[r].turn)
    BY DEF LaunchSends
  <1>4. JobSet(jobs, jobs', r, job) /\ jobs.launch[r] \in JobType
    BY <1>2, LaunchExcept DEF LaunchSends
  <1>5. job \in JobType /\ job.pc = "done" /\ job.turn = jobs.launch[r].turn
    BY <1>2, <1>4 DEF JobType
  <1>6. /\ e \in EventType /\ e.kind = "launch" /\ e.key = r /\ e.outcome = jobs.launch[r].outcome
        /\ e.turn = jobs.launch[r].turn
    BY <1>4, RecordsNat DEF JobType, EventType
  <1>7. \A d \in Sent(events) : ~(d.kind = "launch" /\ d.key = r)
    BY <1>1, <1>3, ActorFields DEF TurnOK, EventTurns
  <1>8. /\ Sent(events) \subseteq Sent(events') /\ Sent(events') \subseteq Sent(events) \cup {e}
        /\ phase # "exited" => e \in Sent(events')
        /\ OneReport'
    BY <1>1, <1>2, <1>3, <1>6, <1>7, SentMore
  <1> HIDE DEF job, e
  <1>9. e.outcome # "started" => Dropped(Actor', e.turn)
    <2>1. jobs.launch[r].outcome # "started" => Dropped(Actor, jobs.launch[r].turn)
      BY <1>1, <1>3, ActorFields DEF TurnOK, JobsTurns
    <2> QED BY <1>3, <1>6, <2>1, ActorFields DEF Dropped
  <1>10. EventTurns(Actor', e)
    <2>1. jobs'.launch[r] = job
      BY <1>4 DEF JobSet
    <2> QED BY <1>5, <1>6, <1>9, <2>1, ActorFields DEF EventTurns
  <1>11. job.turn < turns'.next /\ turns.next <= turns'.next
    BY <1>1, <1>2, <1>3, <1>5, ActorFields DEF TurnOK, JobsTurns, TurnsType
  <1>12. \/ phase = "exited" \/ Dropped(Actor', job.turn)
         \/ \E d \in Sent(events') : d.kind = "launch" /\ d.outcome = "started" /\ d.turn = job.turn
    BY <1>5, <1>6, <1>8, <1>9
  <1>13. \A d \in Sent(events') : d \in Sent(events) \/ (d.kind = "launch" /\ d.key = r /\ EventTurns(Actor', d))
    BY <1>6, <1>8, <1>10
  <1>14. TurnOK(Actor', Sent(events'), phase')
    BY <1>2, <1>3, <1>4, <1>5, <1>8, <1>11, <1>12, <1>13, LaunchTaskTurns
  <1> QED BY <1>8, <1>14

LEMMA MonitorSendsTurns ==
    ASSUME TurnInv, NEW r \in Records, MonitorSends(r)
    PROVE  TurnOK(Actor', Sent(events'), phase') /\ OneReport'
  <1> DEFINE t == jobs.monitor[r]
             e == [kind |-> "turn", key |-> r, outcome |-> turns.state[t], turn |-> t]
  <1>1. PromptInv /\ OneReport /\ TurnOK(Actor, Sent(events), phase)
    BY TurnParts
  <1>2. jobs \in JobsType /\ turns \in TurnsType /\ events \in Seq(EventType)
    BY <1>1, StateTypes
  <1>3. /\ UNCHANGED <<prompt, sched, turns, phase>> /\ t # 0 /\ turns.state[t] # "live"
        /\ SendEvent("turn", r, turns.state[t], t)
    BY DEF MonitorSends
  <1>4. t \in Turns /\ turns.state[t] \in TurnStates
    BY <1>2, <1>3 DEF JobsType, TurnsType
  <1>5. /\ jobs'.launch = jobs.launch /\ jobs'.steer = jobs.steer
        /\ jobs'.steerCancelled = jobs.steerCancelled
        /\ \A q \in Records : jobs'.monitor[q] \in {jobs.monitor[q], 0}
    <2>1. jobs' = [jobs EXCEPT !.monitor = [@ EXCEPT ![r] = 0]]
      BY DEF MonitorSends
    <2> QED BY <1>2, <2>1 DEF JobsType
  <1>6. /\ e \in EventType /\ e.kind = "turn" /\ e.key = r /\ e.turn = t
    BY <1>4, RecordsNat DEF EventType, TurnStates
  <1>7. /\ Sent(events) \subseteq Sent(events') /\ Sent(events') \subseteq Sent(events) \cup {e} /\ OneReport'
    BY <1>1, <1>2, <1>3, <1>6, SentMore
  <1>8. t = jobs.launch[r].turn
    BY <1>1, <1>3, ActorFields DEF TurnOK, JobsTurns
  <1> HIDE DEF e, t
  <1>9. EventTurns(Actor', e)
    BY <1>3, <1>5, <1>6, <1>8, ActorFields DEF EventTurns
  <1>10. \A d \in Sent(events') : d \in Sent(events) \/ (d.kind # "launch" /\ EventTurns(Actor', d))
    BY <1>6, <1>7, <1>9
  <1>11. turns.next <= turns.next
    BY <1>2 DEF TurnsType
  <1>12. TurnOK(Actor', Sent(events'), phase')
    BY <1>2, <1>3, <1>5, <1>7, <1>10, <1>11, OtherTaskTurns
  <1> QED BY <1>7, <1>12

LEMMA SteerEnqueuesTurns ==
    ASSUME TurnInv, NEW k \in Steers, SteerEnqueues(k)
    PROVE  TurnOK(Actor', Sent(events'), phase') /\ OneReport'
  <1>1. PromptInv /\ OneReport /\ TurnOK(Actor, Sent(events), phase)
    BY TurnParts
  <1>2. jobs \in JobsType /\ turns \in TurnsType
    BY <1>1, StateTypes
  <1>3. UNCHANGED <<prompt, sched, turns, events, phase>> /\ jobs.steer[k].pc = "start"
    BY DEF SteerEnqueues
  <1>4. \E job : jobs' = [jobs EXCEPT !.steer[k] = job] /\ job.pc \notin {"none", "start"}
    <2>1. CASE LoopRunning(Actor)
      <3>1. PICK job : job = [pc |-> "assigned", turn |-> LoopHead(Actor), outcome |-> "none"]
        OBVIOUS
      <3>2. jobs' = [jobs EXCEPT !.steer[k] = job]
        BY <2>1, <3>1 DEF SteerEnqueues
      <3>3. job.pc \notin {"none", "start"}
        BY <3>1
      <3> QED BY <3>2, <3>3, Zenon
    <2>2. CASE ~LoopRunning(Actor)
      <3>1. PICK job : job = [pc |-> "send", turn |-> 0, outcome |-> "failed"]
        OBVIOUS
      <3>2. jobs' = [jobs EXCEPT !.steer[k] = job]
        BY <2>2, <3>1 DEF SteerEnqueues
      <3>3. job.pc \notin {"none", "start"}
        BY <3>1
      <3> QED BY <3>2, <3>3, Zenon
    <2> QED BY <2>1, <2>2
  <1>5. PICK job : jobs' = [jobs EXCEPT !.steer[k] = job] /\ job.pc \notin {"none", "start"}
    BY <1>4, Zenon
  <1>6. /\ jobs'.launch = jobs.launch /\ jobs'.monitor = jobs.monitor
        /\ jobs'.steerCancelled = jobs.steerCancelled
        /\ \A m \in Steers : jobs'.steer[m] = IF m = k THEN job ELSE jobs.steer[m]
    BY <1>2, <1>5 DEF JobsType
  <1>7. turns.next <= turns.next
    BY <1>2 DEF TurnsType
  <1>8. TurnOK(Actor', Sent(events), phase')
    BY <1>2, <1>3, <1>5, <1>6, <1>7, OtherTaskTurns
  <1> QED BY <1>1, <1>3, <1>8 DEF OneReport

LEMMA SteerAssignedTurns ==
    ASSUME TurnInv, NEW k \in Steers, SteerAssigned(k)
    PROVE  TurnOK(Actor', Sent(events'), phase') /\ OneReport'
  <1>1. PromptInv /\ OneReport /\ TurnOK(Actor, Sent(events), phase)
    BY TurnParts
  <1>2. jobs \in JobsType /\ turns \in TurnsType
    BY <1>1, StateTypes
  <1>3. UNCHANGED <<prompt, sched, turns, events, phase>> /\ jobs.steer[k].pc = "assigned"
    BY DEF SteerAssigned
  <1>4. PICK outcome \in Outcomes : jobs' = [jobs EXCEPT !.steer[k].pc = "send", !.steer[k].outcome = outcome]
    <2>1. "cancelled" \in Outcomes /\ "assigned" \in Outcomes
      BY DEF Outcomes
    <2> QED BY <2>1 DEF SteerAssigned
  <1> DEFINE job == [pc |-> "send", turn |-> jobs.steer[k].turn, outcome |-> outcome]
  <1>5. SteerSet(jobs, jobs', k, job)
    BY <1>2, <1>4, SteerExcept
  <1>6. job.pc = "send" /\ job.turn = jobs.steer[k].turn
    OBVIOUS
  <1> HIDE DEF job
  <1>7. /\ jobs'.launch = jobs.launch /\ jobs'.monitor = jobs.monitor
        /\ jobs'.steerCancelled = jobs.steerCancelled
        /\ \A m \in Steers : jobs'.steer[m] = IF m = k THEN job ELSE jobs.steer[m]
    BY <1>5 DEF SteerSet
  <1>8. turns.next <= turns.next
    BY <1>2 DEF TurnsType
  <1>9. TurnOK(Actor', Sent(events), phase')
    BY <1>2, <1>3, <1>6, <1>7, <1>8, OtherTaskTurns
  <1> QED BY <1>1, <1>3, <1>9 DEF OneReport

LEMMA SteerSendsTurns ==
    ASSUME TurnInv, NEW k \in Steers, SteerSends(k)
    PROVE  TurnOK(Actor', Sent(events'), phase') /\ OneReport'
  <1> DEFINE e == [kind |-> "steer", key |-> k, outcome |-> jobs.steer[k].outcome, turn |-> jobs.steer[k].turn]
             job == [pc |-> "done", turn |-> jobs.steer[k].turn, outcome |-> "none"]
  <1>1. PromptInv /\ OneReport /\ TurnOK(Actor, Sent(events), phase)
    BY TurnParts
  <1>2. jobs \in JobsType /\ turns \in TurnsType /\ events \in Seq(EventType) /\ "none" \in Outcomes
    BY <1>1, StateTypes DEF Outcomes
  <1>3. /\ UNCHANGED <<prompt, sched, turns, phase>> /\ jobs.steer[k].pc = "send"
        /\ SendEvent("steer", k, jobs.steer[k].outcome, jobs.steer[k].turn)
    BY DEF SteerSends
  <1>4. SteerSet(jobs, jobs', k, job) /\ jobs.steer[k] \in JobType
    BY <1>2, SteerExcept DEF SteerSends
  <1>5. job.pc = "done" /\ job.turn = jobs.steer[k].turn /\ k \in Nat
    BY BoundsAssumption DEF Steers
  <1>6. /\ e \in EventType /\ e.kind = "steer" /\ e.key = k /\ e.turn = jobs.steer[k].turn
    BY <1>4, <1>5 DEF EventType, JobType
  <1>7. /\ Sent(events) \subseteq Sent(events') /\ Sent(events') \subseteq Sent(events) \cup {e} /\ OneReport'
    BY <1>1, <1>2, <1>3, <1>6, SentMore
  <1> HIDE DEF e, job
  <1>8. /\ jobs'.launch = jobs.launch /\ jobs'.monitor = jobs.monitor
        /\ jobs'.steerCancelled = jobs.steerCancelled
        /\ \A m \in Steers : jobs'.steer[m] = IF m = k THEN job ELSE jobs.steer[m]
    BY <1>4 DEF SteerSet
  <1>9. EventTurns(Actor', e)
    BY <1>5, <1>6, <1>8, ActorFields DEF EventTurns
  <1>10. \A d \in Sent(events') : d \in Sent(events) \/ (d.kind # "launch" /\ EventTurns(Actor', d))
    BY <1>6, <1>7, <1>9
  <1>11. turns.next <= turns.next
    BY <1>2 DEF TurnsType
  <1>12. TurnOK(Actor', Sent(events'), phase')
    BY <1>2, <1>3, <1>5, <1>7, <1>8, <1>10, <1>11, OtherTaskTurns
  <1> QED BY <1>7, <1>12

\* The loop settles a turn or starts one for another caller.
LEMMA LoopTurns ==
    ASSUME TurnInv, prompt' = prompt, sched' = sched, jobs' = jobs, events' = events, phase' = phase,
           turns' \in TurnsType, turns'.cancelled = turns.cancelled, turns.next <= turns'.next,
           \A t \in Turns : turns'.state[t] = turns.state[t] \/ t = turns.next \/ turns'.state[t] # "live"
    PROVE  TurnOK(Actor', Sent(events'), phase') /\ OneReport'
  <1>1. OneReport
    BY TurnParts
  <1>2. TurnOK(Actor', Sent(events), phase')
    BY OtherTaskTurns
  <1> QED BY <1>1, <1>2 DEF OneReport

LEMMA SettleTurnTurns ==
    ASSUME TurnInv, NEW t \in Turns, NEW result \in Results \cup {"cancelled"}, SettleTurn(t, result)
    PROVE  TurnOK(Actor', Sent(events'), phase') /\ OneReport'
  <1>1. turns \in TurnsType
    BY TurnParts, StateTypes
  <1>2. UNCHANGED <<prompt, sched, jobs, events, phase>>
    BY DEF SettleTurn
  <1>3. turns' = [turns EXCEPT !.state = [@ EXCEPT ![t] = result]]
    BY DEF SettleTurn
  <1>4. result \in {"completed", "failed", "cancelled"}
    BY OutcomesAssumption
  <1>5. /\ turns' \in TurnsType /\ turns'.cancelled = turns.cancelled /\ turns'.next = turns.next
        /\ \A u \in Turns : turns'.state[u] = IF u = t THEN result ELSE turns.state[u]
    BY <1>1, <1>3, <1>4 DEF TurnsType, TurnStates
  <1>6. turns.next <= turns'.next
    BY <1>1, <1>5 DEF TurnsType
  <1>7. \A u \in Turns : turns'.state[u] = turns.state[u] \/ u = turns.next \/ turns'.state[u] # "live"
    BY <1>4, <1>5
  <1> QED BY <1>2, <1>5, <1>6, <1>7, LoopTurns

LEMMA InjectTurnTurns ==
    ASSUME TurnInv, InjectTurn
    PROVE  TurnOK(Actor', Sent(events'), phase') /\ OneReport'
  <1>1. turns \in TurnsType
    BY TurnParts, StateTypes
  <1>2. UNCHANGED <<prompt, sched, jobs, events, phase>>
    BY DEF InjectTurn
  <1>3. turns' = [turns EXCEPT !.state[turns.next] = "live", !.next = @ + 1]
    BY DEF InjectTurn
  <1>4. /\ turns' \in TurnsType /\ turns'.cancelled = turns.cancelled /\ turns'.next = turns.next + 1
        /\ \A t \in Turns : turns'.state[t] = IF t = turns.next THEN "live" ELSE turns.state[t]
    BY <1>1, <1>3, NewTurn
  <1>5. turns.next <= turns'.next
    BY <1>1, <1>4 DEF TurnsType
  <1>6. \A t \in Turns : turns'.state[t] = turns.state[t] \/ t = turns.next \/ turns'.state[t] # "live"
    BY <1>4
  <1> QED BY <1>2, <1>4, <1>5, <1>6, LoopTurns

\* A step that changes nothing that the turns depend on.
LEMMA QuietTurns ==
    ASSUME TurnInv, UNCHANGED <<prompt, sched, jobs, turns, events>>,
           phase' = phase \/ (phase = "running" /\ phase' = "closing")
    PROVE  TurnOK(Actor', Sent(events'), phase') /\ OneReport'
  <1>1. OneReport /\ TurnOK(Actor, Sent(events), phase)
    BY TurnParts
  <1>2. Actor' = Actor
    BY DEF Actor
  <1>3. TurnOK(Actor, Sent(events), phase')
    BY <1>1, PhaseTurns
  <1> QED BY <1>1, <1>2, <1>3 DEF OneReport

LEMMA NotifyCompactionTurns ==
    ASSUME TurnInv, NotifyCompaction
    PROVE  TurnOK(Actor', Sent(events'), phase') /\ OneReport'
  <1> DEFINE e == [kind |-> "compaction", key |-> 0, outcome |-> "none", turn |-> 0]
  <1>1. PromptInv /\ OneReport
    BY TurnParts
  <1>2. turns \in TurnsType /\ events \in Seq(EventType)
    BY <1>1, StateTypes
  <1>3. UNCHANGED <<prompt, sched, jobs, turns, phase>> /\ SendEvent("compaction", 0, "none", 0)
    BY DEF NotifyCompaction
  <1>4. e \in EventType /\ e.kind = "compaction"
    BY DEF EventType, Outcomes
  <1>5. /\ Sent(events) \subseteq Sent(events') /\ Sent(events') \subseteq Sent(events) \cup {e} /\ OneReport'
    BY <1>1, <1>2, <1>3, <1>4, SentMore
  <1> HIDE DEF e
  <1>6. EventTurns(Actor', e)
    BY <1>4 DEF EventTurns
  <1>7. \A d \in Sent(events') : d \in Sent(events) \/ (d.kind # "launch" /\ EventTurns(Actor', d))
    BY <1>4, <1>5, <1>6
  <1>8. turns.next <= turns.next
    BY <1>2 DEF TurnsType
  <1>9. TurnOK(Actor', Sent(events'), phase')
    BY <1>2, <1>3, <1>5, <1>7, <1>8, OtherTaskTurns
  <1> QED BY <1>5, <1>9

LEMMA TurnInit == Init => TurnInv
  <1> SUFFICES ASSUME Init PROVE TurnInv
    OBVIOUS
  <1>1. PromptInv
    BY PromptInit
  <1>2. Len(events) = 0
    BY EmptySeq DEF Init
  <1>3. Sent(events) = {} /\ OneReport
    BY <1>2 DEF Sent, OneReport
  <1>4. /\ \A r \in Records : jobs.launch[r] = NoJob /\ jobs.monitor[r] = 0
        /\ \A k \in Steers : jobs.steer[k] = NoJob
        /\ sched.active = 0 /\ sched.turn = 0 /\ turns.cancelled = {} /\ turns.next = 1
    BY DEF Init
  <1>5. NoJob.pc = "none" /\ NoJob.turn = 0
    BY DEF NoJob
  <1>6. JobsTurns(Actor)
    BY <1>4, <1>5, ActorFields DEF JobsTurns
  <1>7. Owned(Actor, {}) /\ Kept(Actor, {}, phase) /\ Caused(Actor, phase)
    BY <1>4, <1>5, ActorFields DEF Owned, Kept, Caused
  <1> QED BY <1>1, <1>3, <1>6, <1>7, TurnParts DEF TurnOK

LEMMA TurnStep ==
    ASSUME TurnInv, [Next]_vars
    PROVE  TurnInv'
  <1> DEFINE Goal == TurnOK(Actor', Sent(events'), phase') /\ OneReport'
  <1>0. PromptInv'
    BY TurnParts, PromptStep
  <1> SUFFICES Goal
    BY <1>0, TurnParts
  <1>1. ASSUME NEW id \in Ids, Enqueue(id) PROVE Goal
    BY <1>1, EnqueueTurns
  <1>2. ASSUME NEW id \in Ids, Abort(id) PROVE Goal
    BY <1>2, AbortStepTurns
  <1>3. ASSUME NEW ids \in SUBSET Ids, Steer(ids) PROVE Goal
    BY <1>3, SteerTurns
  <1>4. CASE Clear \/ ActorExit
    BY <1>4, ClearTurns
  <1>5. CASE HandleEvent
    BY <1>5, HandleEventTurns
  <1>6. ASSUME NEW r \in Records, LaunchStep(r) PROVE Goal
    BY <1>6, EndsEarlyTurns, LaunchEnqueuesTurns, LaunchAssignedTurns, LaunchSendsTurns DEF LaunchStep
  <1>7. ASSUME NEW r \in Records, MonitorSends(r) PROVE Goal
    BY <1>7, MonitorSendsTurns
  <1>8. ASSUME NEW k \in Steers, SteerStep(k) PROVE Goal
    BY <1>8, SteerEnqueuesTurns, SteerAssignedTurns, SteerSendsTurns DEF SteerStep
  <1>9. ASSUME NEW t \in Turns, NEW result \in Results \cup {"cancelled"}, SettleTurn(t, result) PROVE Goal
    BY <1>9, SettleTurnTurns
  <1>10. CASE InjectTurn
    BY <1>10, InjectTurnTurns
  <1>11. CASE BeginCompaction \/ EndCompaction \/ BeginShutdown
    <2>1. /\ UNCHANGED <<prompt, sched, jobs, turns, events>>
          /\ phase' = phase \/ (phase = "running" /\ phase' = "closing")
      BY <1>11 DEF BeginCompaction, EndCompaction, BeginShutdown
    <2> QED BY <2>1, QuietTurns
  <1>12. CASE NotifyCompaction
    BY <1>12, NotifyCompactionTurns
  <1>13. CASE UNCHANGED vars
    <2>1. UNCHANGED <<prompt, sched, jobs, turns, events>> /\ phase' = phase
      BY <1>13 DEF vars
    <2> QED BY <2>1, QuietTurns
  <1> HIDE DEF Goal
  <1> QED
    BY <1>1, <1>2, <1>3, <1>4, <1>5, <1>6, <1>7, <1>8, <1>9, <1>10, <1>11, <1>12, <1>13 DEF Next

(***************************************************************************)
(* The turns of the launches: whichever task or handler moves next, the    *)
(* entries of the tasks, the reports that are under way and the turn slot  *)
(* agree about which turn belongs to which prompt (TurnInv).               *)
(***************************************************************************)
THEOREM TurnsInvariant == Spec => []TurnInv
  <1>1. TurnInv /\ [Next]_vars => TurnInv'
    BY TurnStep
  <1> QED BY <1>1, TurnInit, PTL DEF Spec

\* No launch leaves a turn behind that nobody owns, whatever was aborted,
\* cleared or reported late.
THEOREM NoTurnIsOrphaned == Spec => []NoOrphanTurn
  <1>1. ASSUME TurnInv PROVE NoOrphanTurn
    <2>1. Kept(Actor, Sent(events), phase)
      BY <1>1, TurnParts DEF TurnOK
    <2>2. ASSUME NEW t, \E e \in Sent(events) : e.kind = "launch" /\ e.outcome = "started" /\ e.turn = t
          PROVE  EventsOfTurn(t) # {}
      BY <2>2 DEF Sent, EventsOfTurn
    <2> QED BY <2>1, <2>2, ActorFields DEF Kept, NoOrphanTurn
  <1> QED BY <1>1, TurnsInvariant, PTL

\* The scheduler cancels a turn only when the prompt or the steer operation
\* that is assigned to it was cancelled, or it shuts down.
THEOREM CancelledForCause == Spec => []CancelsHaveCause
  <1>1. ASSUME TurnInv PROVE CancelsHaveCause
    <2>1. Caused(Actor, phase)
      BY <1>1, TurnParts DEF TurnOK
    <2> QED BY <2>1, ActorFields DEF Caused, Cause, CancelsHaveCause, TokenCancelled, OperationCancelled
  <1> QED BY <1>1, TurnsInvariant, PTL
=============================================================================
