------------------------ MODULE SchedulerRunner_proofs ------------------------
(***************************************************************************)
(* Proofs about the parking handshake, for any number of clients and       *)
(* workers, any channel capacity and any width of the generation counter.  *)
(***************************************************************************)
EXTENDS SchedulerRunner, TLAPS

-----------------------------------------------------------------------------
(***************************************************************************)
(* The inductive invariant.                                                *)
(***************************************************************************)
\* OneOwner, task by task.
Alone(g) == \A h \in Gens : runnerTask[h] # "none" => h = g

Owner ==
    /\ runner.kind = "dormant" => \A g \in Gens : runnerTask[g] = "none"
    /\ runner.kind = "running" =>
         runnerTask[runner.gen] \in {"select", "begin"} /\ Alone(runner.gen)
    /\ runner.kind \in {"parking", "restarting"} =>
         runnerTask[runner.gen] \in {"drainEvents", "drainCommands", "finish"} /\ Alone(runner.gen)
    /\ runner.kind = "closed" =>
         \A g, h \in Gens : runnerTask[g] # "none" /\ runnerTask[h] # "none" => g = h

\* From the idle timer to the end of parking there is no work.
Resting ==
    /\ runner.kind = "dormant" => Quiescent
    /\ runner.kind = "closed" /\ (\A g \in Gens : runnerTask[g] = "none") => Quiescent
    /\ \A g \in Gens : runnerTask[g] \notin {"none", "select"} => Quiescent

RunnerInv == RunnerTypeOK /\ Owner /\ Resting /\ NoLostWakeup

\* The pointwise form is equivalent to OneOwner.
LEMMA OwnerIsOneOwner == ASSUME RunnerTypeOK, Owner PROVE OneOwner
  BY DEF RunnerTypeOK, Owner, Alone, OneOwner, Tasks

\* A parked or dropped actor is quiescent.
LEMMA RestingIsParked == ASSUME Resting PROVE ParkedIsQuiescent
  BY DEF Resting, ParkedIsQuiescent, Dropped, Tasks

\* The start: the controller holds an idle actor.
LEMMA InitEstablishes == RunnerInit => RunnerInv
  <1> SUFFICES ASSUME RunnerInit PROVE RunnerInv
    OBVIOUS
  <1>1. RunnerTypeOK
    BY RunnerAssumption DEF RunnerInit, RunnerTypeOK, NothingOwed, Gens, TaskStates
  <1>2. Owner /\ Resting /\ NoLostWakeup
    BY DEF RunnerInit, Owner, Resting, Quiescent, NoLostWakeup
  <1> QED BY <1>1, <1>2 DEF RunnerInv

-----------------------------------------------------------------------------
(***************************************************************************)
(* ensure_runner.                                                          *)
(***************************************************************************)
RunnerTypes ==
    /\ runner \in [kind : {"dormant", "running", "parking", "restarting", "closed"}, gen : Gens]
    /\ nextGen \in Gens
    /\ runnerTask \in [Gens -> TaskStates]

\* It starts a task only when there is none, and leaves a parking actor only
\* with a request to restart.
LEMMA EnsureRunnerOwns ==
    ASSUME RunnerTypes, Owner, Resting, EnsureRunner, UNCHANGED state
    PROVE  /\ RunnerTypes' /\ Owner' /\ Resting'
           /\ runner'.kind \notin {"dormant", "parking"}
  <1>1. CASE /\ runner.kind = "dormant"
             /\ runner' = [kind |-> "running", gen |-> nextGen]
             /\ nextGen' = (nextGen + 1) % Generations
             /\ runnerTask' = [runnerTask EXCEPT ![nextGen] = "select"]
    <2>1. nextGen' \in Gens
      BY <1>1, RunnerAssumption DEF RunnerTypes, Gens
    <2>2. /\ runner'.kind = "running" /\ runner'.gen = nextGen /\ nextGen \in Gens
          /\ runnerTask' \in [Gens -> TaskStates]
          /\ runnerTask'[nextGen] = "select"
          /\ \A g \in Gens : g # nextGen => runnerTask'[g] = "none"
      BY <1>1 DEF RunnerTypes, Owner, TaskStates
    <2>3. RunnerTypes'
      BY <1>1, <2>1, <2>2 DEF RunnerTypes
    <2>4. Owner'
      BY <2>2 DEF Owner, Alone
    <2>5. Resting'
      BY <2>2 DEF Resting
    <2> QED BY <2>2, <2>3, <2>4, <2>5
  <1>2. CASE /\ runner.kind \in {"parking", "restarting"}
             /\ runner' = [runner EXCEPT !.kind = "restarting"]
             /\ UNCHANGED <<nextGen, runnerTask>>
    <2>1. /\ runner'.kind = "restarting" /\ runner'.gen = runner.gen
          /\ runner' \in [kind : {"dormant", "running", "parking", "restarting", "closed"}, gen : Gens]
      BY <1>2 DEF RunnerTypes
    <2>2. RunnerTypes' /\ Owner'
      BY <1>2, <2>1 DEF RunnerTypes, Owner, Alone
    <2>3. Resting'
      BY <1>2, <2>1 DEF Resting, Quiescent, state
    <2> QED BY <2>1, <2>2, <2>3
  <1>3. CASE runner.kind \in {"running", "closed"} /\ UNCHANGED controller
    BY <1>3 DEF controller, state, RunnerTypes, Owner, Alone, Resting, Quiescent
  <1> QED BY <1>1, <1>2, <1>3 DEF EnsureRunner

\* A step that leaves the controller, the tasks and the state alone.
LEMMA ControllerAlone ==
    ASSUME RunnerTypes, Owner, Resting, UNCHANGED <<controller, state>>
    PROVE  RunnerTypes' /\ Owner' /\ Resting'
  BY DEF controller, state, RunnerTypes, Owner, Alone, Resting, Quiescent

-----------------------------------------------------------------------------
(***************************************************************************)
(* Senders.                                                                *)
(***************************************************************************)
ClientPcs == {"idle", "lock1", "send", "check2", "lock2", "await"}
WorkerPcs == {"idle", "running", "check", "lock"}

\* The part of TypeOK that is not about the controller.
OtherTypes ==
    /\ commands \in Seq(Clients)
    /\ events \in Seq(Workers)
    /\ busy \in SUBSET Workers
    /\ launching \in SUBSET Workers
    /\ owed \in [Workers -> Seq(Clients)]
    /\ backlog \in Nat
    /\ client \in [Clients -> ClientPcs]
    /\ replied \in SUBSET Clients
    /\ report \in [Workers -> WorkerPcs]
    /\ shutdown \in {"no", "token", "closed"}

\* TypeOK is the two parts together.
LEMMA TypesSplit == RunnerTypeOK <=> RunnerTypes /\ OtherTypes
  BY DEF RunnerTypeOK, RunnerTypes, OtherTypes, ClientPcs, WorkerPcs

\* A client's send is followed by its second ensure_runner.
LEMMA ClientPreserves ==
    ASSUME NEW c \in Clients, RunnerInv, ClientCheck1(c) \/ ClientNext(c)
    PROVE  RunnerInv'
  <1>0. RunnerTypes /\ OtherTypes /\ Owner /\ Resting /\ NoLostWakeup
    BY TypesSplit DEF RunnerInv
  <1>1. UNCHANGED <<state, events, report, shutdown>>
    BY DEF ClientCheck1, ClientNext, ClientLock1, ClientSend, ClientSendRefused, ClientCheck2,
           ClientLock2, ClientDone, ClientStep
  <1> DEFINE Kept == RunnerTypes' /\ Owner' /\ Resting'
  <1>2. ASSUME UNCHANGED controller PROVE Kept
    BY <1>0, <1>1, <1>2, ControllerAlone
  <1>3. ASSUME EnsureRunner PROVE Kept /\ runner'.kind \notin {"dormant", "parking"}
    BY <1>0, <1>1, <1>3, EnsureRunnerOwns
  <1> HIDE DEF Kept
  <1>4. ASSUME ClientCheck1(c) PROVE Kept /\ OtherTypes' /\ NoLostWakeup'
    <2>1. /\ client[c] = "idle" /\ UNCHANGED <<controller, commands, replied>>
          /\ client' = [client EXCEPT ![c] = "lock1"] \/ client' = [client EXCEPT ![c] = "send"]
      BY <1>4 DEF ClientCheck1, ClientStep, AfterCheck
    <2>2. /\ client' \in [Clients -> ClientPcs]
          /\ \A d \in Clients : client[d] \in {"check2", "lock2"} => client'[d] = client[d]
      BY <1>0, <2>1 DEF OtherTypes, ClientPcs
    <2>3. OtherTypes'
      BY <1>0, <1>1, <2>1, <2>2 DEF OtherTypes, state
    <2>4. NoLostWakeup'
      BY <1>0, <1>1, <2>1, <2>2 DEF NoLostWakeup, WakeUpComing, controller
    <2> QED BY <1>2, <2>1, <2>3, <2>4
  <1>5. ASSUME ClientLock1(c) PROVE Kept /\ OtherTypes' /\ NoLostWakeup'
    <2>1. /\ EnsureRunner /\ UNCHANGED <<commands, replied>>
          /\ client' = [client EXCEPT ![c] = "send"]
      BY <1>5 DEF ClientLock1, ClientStep
    <2>2. OtherTypes'
      BY <1>0, <1>1, <2>1 DEF OtherTypes, ClientPcs, state
    <2> QED BY <1>3, <2>1, <2>2 DEF NoLostWakeup
  <1>6. ASSUME ClientSend(c) PROVE Kept /\ OtherTypes' /\ NoLostWakeup'
    <2>1. /\ UNCHANGED <<controller, replied>> /\ commands' = Append(commands, c)
          /\ client' = [client EXCEPT ![c] = "check2"]
      BY <1>6 DEF ClientSend, ClientStep
    <2>2. OtherTypes' /\ client'[c] = "check2"
      BY <1>0, <1>1, <2>1 DEF OtherTypes, ClientPcs, state
    <2> QED BY <1>2, <2>1, <2>2 DEF NoLostWakeup, WakeUpComing
  <1>7. ASSUME ClientSendRefused(c) PROVE Kept /\ OtherTypes' /\ NoLostWakeup'
    <2>1. /\ UNCHANGED <<controller, commands, replied>> /\ shutdown # "no"
          /\ client' = [client EXCEPT ![c] = "idle"]
      BY <1>7 DEF ClientSendRefused, ClientStep
    <2>2. OtherTypes'
      BY <1>0, <1>1, <2>1 DEF OtherTypes, ClientPcs, state
    <2> QED BY <1>1, <1>2, <2>1, <2>2 DEF NoLostWakeup
  <1>8. ASSUME ClientCheck2(c) PROVE Kept /\ OtherTypes' /\ NoLostWakeup'
    <2>1. /\ UNCHANGED <<controller, commands, replied>>
          /\ \/ shutdown = "no" /\ client' = [client EXCEPT ![c] = "lock2"]
             \/ shutdown # "no" /\ client' = [client EXCEPT ![c] = "await"]
      BY <1>8 DEF ClientCheck2, ClientStep, AfterCheck
    <2>2. OtherTypes'
      BY <1>0, <1>1, <2>1 DEF OtherTypes, ClientPcs, state
    <2>3. shutdown = "no" => client'[c] = "lock2"
      BY <1>0, <2>1 DEF OtherTypes
    <2> QED BY <1>1, <1>2, <2>1, <2>2, <2>3 DEF NoLostWakeup, WakeUpComing
  <1>9. ASSUME ClientLock2(c) PROVE Kept /\ OtherTypes' /\ NoLostWakeup'
    <2>1. /\ EnsureRunner /\ UNCHANGED <<commands, replied>>
          /\ client' = [client EXCEPT ![c] = "await"]
      BY <1>9 DEF ClientLock2, ClientStep
    <2>2. OtherTypes'
      BY <1>0, <1>1, <2>1 DEF OtherTypes, ClientPcs, state
    <2> QED BY <1>3, <2>1, <2>2 DEF NoLostWakeup
  <1>10. ASSUME ClientDone(c) PROVE Kept /\ OtherTypes' /\ NoLostWakeup'
    <2>1. /\ client[c] = "await" /\ UNCHANGED <<controller, commands>>
          /\ client' = [client EXCEPT ![c] = "idle"] /\ replied' = replied \ {c}
      BY <1>10 DEF ClientDone, ClientStep
    <2>2. /\ client' \in [Clients -> ClientPcs]
          /\ \A d \in Clients : client[d] \in {"check2", "lock2"} => client'[d] = client[d]
      BY <1>0, <2>1 DEF OtherTypes, ClientPcs
    <2>3. OtherTypes'
      BY <1>0, <1>1, <2>1, <2>2 DEF OtherTypes, state
    <2>4. NoLostWakeup'
      BY <1>0, <1>1, <2>1, <2>2 DEF NoLostWakeup, WakeUpComing, controller
    <2> QED BY <1>2, <2>1, <2>3, <2>4
  <1>11. Kept /\ OtherTypes' /\ NoLostWakeup'
    BY <1>4, <1>5, <1>6, <1>7, <1>8, <1>9, <1>10 DEF ClientNext
  <1> QED BY <1>11, TypesSplit DEF Kept, RunnerInv, RunnerTypeOK, RunnerTypes, OtherTypes, ClientPcs, WorkerPcs

\* A worker's report is followed by its ensure_runner.
LEMMA WorkerPreserves ==
    ASSUME NEW w \in Workers, RunnerInv, WorkerNext(w)
    PROVE  RunnerInv'
  <1>0. RunnerTypes /\ OtherTypes /\ Owner /\ Resting /\ NoLostWakeup
    BY TypesSplit DEF RunnerInv
  <1>1. UNCHANGED <<commands, state, client, replied, shutdown>>
    BY DEF WorkerNext, WorkerSend, WorkerCheck, WorkerLock, mailbox
  <1> DEFINE Kept == RunnerTypes' /\ Owner' /\ Resting'
  <1>2. ASSUME UNCHANGED controller PROVE Kept
    BY <1>0, <1>1, <1>2, ControllerAlone
  <1>3. ASSUME EnsureRunner PROVE Kept /\ runner'.kind \notin {"dormant", "parking"}
    BY <1>0, <1>1, <1>3, EnsureRunnerOwns
  <1> HIDE DEF Kept
  <1>4. ASSUME WorkerSend(w) PROVE Kept /\ OtherTypes' /\ NoLostWakeup'
    <2>1. /\ UNCHANGED controller
          /\ events' = events \/ events' = Append(events, w)
          /\ report' = [report EXCEPT ![w] = "check"]
      BY <1>4 DEF WorkerSend
    <2>2. report' \in [Workers -> WorkerPcs] /\ report'[w] = "check"
      BY <1>0, <2>1 DEF OtherTypes, WorkerPcs
    <2>3. events' \in Seq(Workers)
      <3>1. events \in Seq(Workers) /\ Append(events, w) \in Seq(Workers)
        BY <1>0 DEF OtherTypes
      <3>2. CASE events' = events
        BY <3>1, <3>2
      <3>3. CASE events' = Append(events, w)
        BY <3>1, <3>3
      <3> QED BY <2>1, <3>2, <3>3
    <2>4. OtherTypes'
      BY <1>0, <1>1, <2>2, <2>3 DEF OtherTypes, state
    <2> QED BY <1>2, <2>1, <2>2, <2>4 DEF NoLostWakeup, WakeUpComing
  <1>5. ASSUME WorkerCheck(w) PROVE Kept /\ OtherTypes' /\ NoLostWakeup'
    <2>1. /\ UNCHANGED <<controller, events>>
          /\ \/ shutdown = "no" /\ report' = [report EXCEPT ![w] = "lock"]
             \/ shutdown # "no" /\ report' = [report EXCEPT ![w] = "idle"]
      BY <1>5 DEF WorkerCheck, AfterCheck, mailbox
    <2>2. OtherTypes'
      BY <1>0, <1>1, <2>1 DEF OtherTypes, WorkerPcs, state
    <2>3. shutdown = "no" => report'[w] = "lock"
      BY <1>0, <2>1 DEF OtherTypes
    <2> QED BY <1>1, <1>2, <2>1, <2>2, <2>3 DEF NoLostWakeup, WakeUpComing
  <1>6. ASSUME WorkerLock(w) PROVE Kept /\ OtherTypes' /\ NoLostWakeup'
    <2>1. /\ EnsureRunner /\ UNCHANGED events
          /\ report' = [report EXCEPT ![w] = "idle"]
      BY <1>6 DEF WorkerLock, mailbox
    <2>2. OtherTypes'
      BY <1>0, <1>1, <2>1 DEF OtherTypes, WorkerPcs, state
    <2> QED BY <1>3, <2>1, <2>2 DEF NoLostWakeup
  <1>7. Kept /\ OtherTypes' /\ NoLostWakeup'
    BY <1>4, <1>5, <1>6 DEF WorkerNext
  <1> QED BY <1>7, TypesSplit DEF Kept, RunnerInv, RunnerTypeOK, RunnerTypes, OtherTypes, ClientPcs, WorkerPcs

-----------------------------------------------------------------------------
(***************************************************************************)
(* The runner task.                                                        *)
(***************************************************************************)
\* The clients in a queue are clients.
LEMMA CallersAreClients == ASSUME NEW q \in Seq(Clients) PROVE Callers(q) \in SUBSET Clients
  BY DEF Callers

\* A task that follows keeps the types of what it changes.
LEMMA FollowsTypes ==
    ASSUME OtherTypes, events # <<>>, NEW w \in Workers, NEW v \in Workers,
           NEW rest \in Seq(Clients), Follows(w, v, rest), Len(rest) <= Len(owed[w])
    PROVE  /\ busy' \in SUBSET Workers
           /\ owed' \in [Workers -> Seq(Clients)]
           /\ replied' \in SUBSET Clients
           /\ report' \in [Workers -> WorkerPcs]
  <1>1. /\ report' = [report EXCEPT ![v] = "running"]
        /\ busy' = (busy \ {w}) \cup {v}
        /\ owed' = [owed EXCEPT ![w] = <<>>, ![v] = rest]
        /\ replied' = replied \cup Callers(SubSeq(owed[w], 1, Len(owed[w]) - Len(rest)))
    BY DEF Follows, Spawn
  <1>2. /\ busy' \in SUBSET Workers
        /\ report' \in [Workers -> WorkerPcs]
    BY <1>1 DEF OtherTypes, WorkerPcs
  <1>3. owed' \in [Workers -> Seq(Clients)]
    <2>1. <<>> \in Seq(Clients)
      OBVIOUS
    <2> QED BY <1>1, <2>1 DEF OtherTypes
  <1>4. PICK q : q = SubSeq(owed[w], 1, Len(owed[w]) - Len(rest))
    OBVIOUS
  <1>5. q \in Seq(Clients)
    <2>1. owed[w] \in Seq(Clients) /\ Len(rest) \in Nat /\ Len(owed[w]) \in Nat
      BY DEF OtherTypes
    <2>2. Len(owed[w]) - Len(rest) \in 0 .. Len(owed[w])
      BY <2>1
    <2>3. PICK k : k = Len(owed[w]) - Len(rest)
      OBVIOUS
    <2> QED BY <1>4, <2>1, <2>2, <2>3
  <1>6. replied' \in SUBSET Clients
    BY <1>1, <1>4, <1>5, CallersAreClients DEF OtherTypes
  <1> QED BY <1>2, <1>3, <1>6

\* Handling an event keeps the types.
LEMMA HandleEventTypes ==
    ASSUME OtherTypes, events # <<>>, HandleEvent, UNCHANGED shutdown
    PROVE  OtherTypes'
  <1> DEFINE Moved == /\ busy' \in SUBSET Workers /\ launching' \in SUBSET Workers
                      /\ owed' \in [Workers -> Seq(Clients)] /\ backlog' \in Nat
                      /\ replied' \in SUBSET Clients /\ report' \in [Workers -> WorkerPcs]
  <1>1. PICK w \in Workers : w = Head(events)
    BY DEF OtherTypes
  <1>2. /\ events' = Tail(events) /\ Tail(events) \in Seq(Workers)
        /\ UNCHANGED <<commands, client>>
    BY DEF HandleEvent, OtherTypes
  <1>3. owed[w] \in Seq(Clients) /\ Len(owed[w]) \in Nat /\ <<>> \in Seq(Clients) /\ Len(<<>>) <= Len(owed[w])
    BY DEF OtherTypes
  <1>4. ASSUME NEW v \in Workers, Follows(w, v, <<>>)
        PROVE  /\ busy' \in SUBSET Workers /\ owed' \in [Workers -> Seq(Clients)]
               /\ replied' \in SUBSET Clients /\ report' \in [Workers -> WorkerPcs]
    BY <1>3, <1>4, FollowsTypes
  <1>5. ASSUME WorkFollows(w) PROVE Moved
    <2>1. PICK v \in Workers :
            \/ /\ w \in launching /\ Follows(w, v, <<>>)
               /\ launching' = launching \ {w} /\ UNCHANGED backlog
            \/ /\ backlog > 0 /\ Follows(w, v, <<>>)
               /\ launching' = (launching \ {w}) \cup {v} /\ backlog' = backlog - 1
            \/ /\ \E n \in 2 .. Len(owed[w]) : Follows(w, v, SubSeq(owed[w], n, Len(owed[w])))
               /\ launching' = launching \ {w} /\ backlog' \in 0 .. (backlog - 1)
      BY <1>5 DEF WorkFollows
    <2>2. launching' \in SUBSET Workers /\ backlog' \in Nat
      BY <2>1 DEF OtherTypes
    <2>3. CASE Follows(w, v, <<>>)
      BY <1>4, <2>2, <2>3
    <2>4. ASSUME NEW n \in 2 .. Len(owed[w]), Follows(w, v, SubSeq(owed[w], n, Len(owed[w])))
          PROVE  Moved
      <3>1. PICK rest : rest = SubSeq(owed[w], n, Len(owed[w]))
        OBVIOUS
      <3>2. rest \in Seq(Clients) /\ Len(rest) <= Len(owed[w])
        BY <1>3, <3>1
      <3>3. Follows(w, v, rest)
        BY <2>4, <3>1
      <3> QED BY <2>2, <3>2, <3>3, FollowsTypes
    <2> QED BY <2>1, <2>3, <2>4
  <1>6. ASSUME WorkEnds(w) PROVE Moved
    <2>1. /\ busy' = busy \ {w} /\ launching' = launching \ {w}
          /\ replied' = replied \cup Callers(owed[w])
          /\ owed' = [owed EXCEPT ![w] = <<>>] /\ UNCHANGED <<report, backlog>>
      BY <1>6 DEF WorkEnds
    <2>2. replied' \in SUBSET Clients
      BY <1>3, <2>1, CallersAreClients DEF OtherTypes
    <2> QED BY <1>3, <2>1, <2>2 DEF OtherTypes
  <1>7. ASSUME UNCHANGED <<state, report, replied>> PROVE Moved
    BY <1>7 DEF OtherTypes, state
  <1>8. Moved
    BY <1>1, <1>5, <1>6, <1>7 DEF HandleEvent
  <1> QED BY <1>2, <1>8 DEF OtherTypes

\* Handling a command keeps the types.
LEMMA HandleCommandTypes ==
    ASSUME OtherTypes, commands # <<>>, HandleCommand, UNCHANGED shutdown
    PROVE  OtherTypes'
  <1> DEFINE Moved == /\ busy' \in SUBSET Workers /\ launching' \in SUBSET Workers
                      /\ owed' \in [Workers -> Seq(Clients)] /\ backlog' \in Nat
                      /\ replied' \in SUBSET Clients /\ report' \in [Workers -> WorkerPcs]
  <1>1. PICK c \in Clients : c = Head(commands)
    BY DEF OtherTypes
  <1>2. /\ commands' = Tail(commands) /\ Tail(commands) \in Seq(Clients)
        /\ UNCHANGED <<events, client>> /\ (AnswerNow(c) \/ AnswerLater(c))
    BY <1>1 DEF HandleCommand, OtherTypes
  <1>3. ASSUME AnswerNow(c) PROVE Moved
    <2>1. CASE ClearAll /\ replied' = replied \cup {c} \cup UNION {Callers(owed[w]) : w \in Workers}
      <3>1. \A w \in Workers : Callers(owed[w]) \in SUBSET Clients
        BY CallersAreClients DEF OtherTypes
      <3>2. replied' \in SUBSET Clients
        BY <2>1, <3>1 DEF OtherTypes
      <3>3. NothingOwed \in [Workers -> Seq(Clients)]
        BY DEF NothingOwed
      <3> QED BY <1>3, <2>1, <3>2, <3>3 DEF AnswerNow, ClearAll, OtherTypes
    <2>2. CASE /\ backlog' \in ({backlog, backlog - 1} \cap Nat) \/ backlog' = backlog + 1
               /\ replied' = replied \cup {c} /\ UNCHANGED <<busy, launching, owed>>
      BY <1>3, <2>2 DEF AnswerNow, OtherTypes
    <2> QED BY <1>3, <2>1, <2>2 DEF AnswerNow
  <1>4. ASSUME AnswerLater(c) PROVE Moved
    <2>0. UNCHANGED replied
      BY <1>4 DEF AnswerLater
    <2>1. ASSUME NEW w \in Workers, report' = [report EXCEPT ![w] = "running"],
                 busy' = busy \cup {w}, owed' = [owed EXCEPT ![w] = <<c>>],
                 \/ launching' = launching \cup {w} /\ UNCHANGED backlog
                 \/ backlog' \in 0 .. (backlog - 1) /\ UNCHANGED launching
          PROVE  Moved
      <3>1. <<c>> \in Seq(Clients)
        OBVIOUS
      <3>2. owed' \in [Workers -> Seq(Clients)]
        BY <2>1, <3>1 DEF OtherTypes
      <3> QED BY <2>0, <2>1, <3>2 DEF OtherTypes, WorkerPcs
    <2>2. ASSUME NEW w \in busy, owed' = [owed EXCEPT ![w] = Append(@, c)],
                 UNCHANGED <<busy, launching, backlog, report>>
          PROVE  Moved
      <3>1. Append(owed[w], c) \in Seq(Clients)
        BY DEF OtherTypes
      <3>2. owed' \in [Workers -> Seq(Clients)]
        BY <2>2, <3>1 DEF OtherTypes
      <3> QED BY <2>0, <2>2, <3>2 DEF OtherTypes
    <2> QED BY <1>4, <2>1, <2>2 DEF AnswerLater, Spawn
  <1>5. Moved
    BY <1>2, <1>3, <1>4
  <1> QED BY <1>2, <1>5 DEF OtherTypes

\* A live task is the only one, and the controller is its or closed.
LEMMA TaskAlone ==
    ASSUME NEW g \in Gens, RunnerTypes, Owner, runnerTask[g] # "none"
    PROVE  /\ Alone(g)
           /\ runner.kind # "closed" => runner.gen = g
           /\ runner.kind # "dormant"
           /\ runner.kind \in {"parking", "restarting"} =>
                runnerTask[g] \in {"drainEvents", "drainCommands", "finish"}
           /\ runner.kind = "running" => runnerTask[g] \in {"select", "begin"}
  BY DEF RunnerTypes, Owner, Alone

\* Moving the only task, together with the controller's view of it.
LEMMA TaskMoves ==
    ASSUME NEW g \in Gens, NEW to \in TaskStates \ {"none"},
           RunnerTypes, Alone(g), UNCHANGED nextGen,
           runnerTask' = [runnerTask EXCEPT ![g] = to],
           runner' \in [kind : {"running", "parking", "restarting", "closed"}, gen : Gens],
           runner'.kind # "closed" => runner'.gen = g,
           runner'.kind = "running" => to \in {"select", "begin"},
           runner'.kind \in {"parking", "restarting"} =>
             to \in {"drainEvents", "drainCommands", "finish"}
    PROVE  /\ RunnerTypes' /\ Owner' /\ runnerTask'[g] = to
           /\ \A h \in Gens : h # g => runnerTask'[h] = "none"
  <1>1. /\ runnerTask' \in [Gens -> TaskStates] /\ runnerTask'[g] = to
        /\ \A h \in Gens : h # g => runnerTask'[h] = "none"
    BY DEF RunnerTypes, Alone, TaskStates
  <1>2. RunnerTypes'
    BY <1>1 DEF RunnerTypes
  <1>3. Owner'
    BY <1>1 DEF Owner, Alone
  <1> QED BY <1>1, <1>2, <1>3

\* The end of the task drops everything that was queued.
LEMMA ExitPreserves ==
    ASSUME NEW g \in Gens, RunnerInv, runnerTask[g] # "none", shutdown # "no",
           runner.kind = "closed" \/ runner.gen = g, Exit(g)
    PROVE  RunnerInv'
  <1>0. RunnerTypes /\ OtherTypes /\ Owner
    BY TypesSplit DEF RunnerInv
  <1>1. /\ busy' = {} /\ launching' = {} /\ owed' = NothingOwed /\ backlog' = 0
        /\ NothingOwed' = NothingOwed
        /\ commands' = <<>> /\ events' = <<>>
        /\ runnerTask' = [runnerTask EXCEPT ![g] = "none"]
        /\ UNCHANGED <<nextGen, client, replied, report, shutdown>>
    BY DEF Exit, ClearAll, NothingOwed
  <1>2. runner' \in [kind : {"closed"}, gen : Gens]
    BY <1>0, TaskAlone DEF Exit, RunnerTypes
  <1>3. runnerTask' \in [Gens -> TaskStates] /\ \A h \in Gens : runnerTask'[h] = "none"
    BY <1>0, <1>1, TaskAlone DEF RunnerTypes, Alone, TaskStates
  <1>4. NothingOwed \in [Workers -> Seq(Clients)]
    BY DEF NothingOwed
  <1>5. OtherTypes'
    BY <1>0, <1>1, <1>4 DEF OtherTypes
  <1>6. RunnerTypes' /\ Owner' /\ Resting' /\ NoLostWakeup'
    BY <1>0, <1>1, <1>2, <1>3 DEF RunnerTypes, Owner, Resting, Quiescent, NoLostWakeup
  <1> QED BY <1>5, <1>6, TypesSplit DEF RunnerInv, RunnerTypeOK, RunnerTypes, OtherTypes, ClientPcs, WorkerPcs

\* Every step of the task keeps the invariant.
LEMMA TaskPreserves ==
    ASSUME NEW g \in Gens, RunnerInv, TaskNext(g)
    PROVE  RunnerInv'
  <1>0. RunnerTypes /\ OtherTypes /\ Owner /\ Resting /\ NoLostWakeup
    BY TypesSplit DEF RunnerInv
  <1> DEFINE Kept == RunnerTypes' /\ Owner' /\ Resting' /\ OtherTypes' /\ NoLostWakeup'
  <1>k. ASSUME Kept PROVE RunnerInv'
    BY <1>k, TypesSplit DEF RunnerInv, RunnerTypeOK, RunnerTypes, OtherTypes, ClientPcs, WorkerPcs
  <1>a. ASSUME runnerTask[g] # "none"
        PROVE  /\ Alone(g) /\ runner.kind # "dormant"
               /\ runner.kind # "closed" => runner.gen = g
               /\ runner.kind \in {"parking", "restarting"} =>
                    runnerTask[g] \in {"drainEvents", "drainCommands", "finish"}
               /\ runner.kind = "running" => runnerTask[g] \in {"select", "begin"}
               /\ runner \in [kind : {"running", "parking", "restarting", "closed"}, gen : Gens]
    BY <1>0, <1>a, TaskAlone DEF RunnerTypes
  \* With the task back in its select nothing is parked, whatever was handled.
  <1>b. ASSUME runnerTask[g] # "none", UNCHANGED nextGen, runnerTask' = [runnerTask EXCEPT ![g] = "select"],
               runner' \in [kind : {"running", "closed"}, gen : Gens],
               runner'.kind # "closed" => runner'.gen = g, OtherTypes'
        PROVE  Kept
    <2>1. /\ RunnerTypes' /\ Owner' /\ runnerTask'[g] = "select"
          /\ \A h \in Gens : h # g => runnerTask'[h] = "none"
      <3>1. "select" \in TaskStates \ {"none"}
        BY DEF TaskStates
      <3>2. runner' \in [kind : {"running", "parking", "restarting", "closed"}, gen : Gens]
        BY <1>b
      <3>3. runner'.kind \notin {"parking", "restarting"}
        BY <1>b
      <3> QED BY <1>0, <1>a, <1>b, <3>1, <3>2, <3>3, TaskMoves
    <2>2. Resting' /\ NoLostWakeup'
      BY <1>b, <2>1 DEF Resting, NoLostWakeup
    <2> QED BY <1>b, <2>1, <2>2
  \* A quiet step: nothing but the task and the controller moves.
  <1> DEFINE Quiet == UNCHANGED <<nextGen, mailbox, state, client, replied, report, shutdown>>
  <1>q. ASSUME Quiet PROVE OtherTypes' /\ (Quiescent <=> Quiescent') /\ (WakeUpComing <=> WakeUpComing')
    BY <1>0, <1>q DEF OtherTypes, Quiescent, WakeUpComing, mailbox, state
  <1>1. ASSUME TaskExit(g) PROVE RunnerInv'
    BY <1>1, <1>a, ExitPreserves DEF TaskExit
  <1>2. ASSUME TaskEvent(g) PROVE Kept
    <2>1. runnerTask[g] = "select" /\ events # <<>> /\ HandleEvent /\ UNCHANGED shutdown
          /\ UNCHANGED controller
      BY <1>2 DEF TaskEvent
    <2>2. OtherTypes'
      BY <1>0, <2>1, HandleEventTypes
    <2>3. runnerTask' = [runnerTask EXCEPT ![g] = "select"]
      BY <1>0, <2>1 DEF controller, RunnerTypes
    <2>4. runner' \in [kind : {"running", "closed"}, gen : Gens] /\ (runner'.kind # "closed" => runner'.gen = g)
      BY <1>a, <2>1 DEF controller
    <2> QED BY <1>b, <2>1, <2>2, <2>3, <2>4 DEF controller
  <1>3. ASSUME TaskCommand(g) PROVE Kept
    <2>1. runnerTask[g] = "select" /\ commands # <<>> /\ HandleCommand /\ UNCHANGED shutdown
          /\ UNCHANGED controller
      BY <1>3 DEF TaskCommand
    <2>2. OtherTypes'
      BY <1>0, <2>1, HandleCommandTypes
    <2>3. runnerTask' = [runnerTask EXCEPT ![g] = "select"]
      BY <1>0, <2>1 DEF controller, RunnerTypes
    <2>4. runner' \in [kind : {"running", "closed"}, gen : Gens] /\ (runner'.kind # "closed" => runner'.gen = g)
      BY <1>a, <2>1 DEF controller
    <2> QED BY <1>b, <2>1, <2>2, <2>3, <2>4 DEF controller
  <1>4. ASSUME TaskIdle(g) PROVE Kept
    <2>1. /\ runnerTask[g] = "select" /\ Quiescent /\ Quiet /\ UNCHANGED runner
          /\ runnerTask' = [runnerTask EXCEPT ![g] = "begin"]
      BY <1>4 DEF TaskIdle
    <2>2. "begin" \in TaskStates \ {"none"} /\ runner.kind \in {"running", "closed"}
      BY <1>a, <2>1 DEF TaskStates
    <2>3. RunnerTypes' /\ Owner'
      BY <1>0, <1>a, <2>1, <2>2, TaskMoves
    <2>4. Resting' /\ NoLostWakeup'
      BY <1>q, <2>1, <2>2 DEF Resting, NoLostWakeup
    <2> QED BY <1>q, <2>1, <2>3, <2>4
  <1>5. ASSUME TaskBeginParking(g) PROVE Kept
    <2>1. /\ runnerTask[g] = "begin" /\ Quiet /\ runner' = [kind |-> "parking", gen |-> g]
          /\ runnerTask' = [runnerTask EXCEPT ![g] = "drainEvents"]
      BY <1>5 DEF TaskBeginParking
    <2>2. "drainEvents" \in TaskStates \ {"none"} /\ Quiescent
      BY <1>0, <2>1 DEF TaskStates, Resting
    <2>3. RunnerTypes' /\ Owner' /\ runnerTask'[g] = "drainEvents"
      BY <1>0, <1>a, <2>1, <2>2, TaskMoves
    <2>4. Resting' /\ NoLostWakeup'
      BY <1>q, <2>1, <2>2, <2>3 DEF Resting, NoLostWakeup
    <2> QED BY <1>q, <2>1, <2>3, <2>4
  <1>6. ASSUME TaskBeginRefused(g) PROVE RunnerInv'
    <2>1. CASE shutdown # "no" /\ Exit(g)
      BY <1>6, <1>a, <2>1, ExitPreserves DEF TaskBeginRefused
    <2>2. CASE runnerTask' = [runnerTask EXCEPT ![g] = "select"] /\ UNCHANGED runner /\ Quiet
      <3>1. runnerTask[g] = "begin"
        BY <1>6 DEF TaskBeginRefused
      <3>2. runner' \in [kind : {"running", "closed"}, gen : Gens] /\ (runner'.kind # "closed" => runner'.gen = g)
        BY <1>a, <2>2, <3>1
      <3> QED BY <1>b, <1>k, <1>q, <2>2, <3>1, <3>2
    <2> QED BY <1>6, <2>1, <2>2 DEF TaskBeginRefused
  \* cancel_parking gives the controller back to the task.
  <1>c. ASSUME runnerTask[g] \in {"drainEvents", "drainCommands", "finish"}, CancelParking(g)
        PROVE  runner' \in [kind : {"running", "closed"}, gen : Gens]
               /\ (runner'.kind # "closed" => runner'.gen = g)
    BY <1>a, <1>c DEF CancelParking
  <1>7. ASSUME TaskDrainEvents(g) PROVE Kept
    <2>1. CASE events # <<>> /\ CancelParking(g) /\ HandleEvent /\ runnerTask' = [runnerTask EXCEPT ![g] = "select"]
      <3>1. runnerTask[g] = "drainEvents" /\ UNCHANGED <<nextGen, shutdown>>
        BY <1>7 DEF TaskDrainEvents
      <3>2. OtherTypes'
        BY <1>0, <2>1, <3>1, HandleEventTypes
      <3> QED BY <1>b, <1>c, <2>1, <3>1, <3>2
    <2>2. CASE events = <<>> /\ runnerTask' = [runnerTask EXCEPT ![g] = "drainCommands"] /\ UNCHANGED runner /\ Quiet
      <3>1. runnerTask[g] = "drainEvents"
        BY <1>7 DEF TaskDrainEvents
      <3>2. "drainCommands" \in TaskStates \ {"none"} /\ Quiescent
            /\ runner.kind \in {"parking", "restarting", "closed"}
        BY <1>0, <1>a, <3>1 DEF TaskStates, Resting
      <3>3. RunnerTypes' /\ Owner' /\ runnerTask'[g] = "drainCommands"
        BY <1>0, <1>a, <2>2, <3>1, <3>2, TaskMoves
      <3>4. Resting' /\ events' = <<>>
        BY <1>q, <2>2, <3>2 DEF Resting, mailbox
      <3>5. NoLostWakeup'
        BY <1>a, <2>2, <3>1, <3>2, <3>3, <3>4 DEF NoLostWakeup
      <3> QED BY <1>q, <2>2, <3>3, <3>4, <3>5
    <2> QED BY <1>7, <2>1, <2>2 DEF TaskDrainEvents
  <1>8. ASSUME TaskDrainCommands(g) PROVE Kept
    <2>1. CASE commands # <<>> /\ CancelParking(g) /\ HandleCommand /\ runnerTask' = [runnerTask EXCEPT ![g] = "select"]
      <3>1. runnerTask[g] = "drainCommands" /\ UNCHANGED <<nextGen, shutdown>>
        BY <1>8 DEF TaskDrainCommands
      <3>2. OtherTypes'
        BY <1>0, <2>1, <3>1, HandleCommandTypes
      <3> QED BY <1>b, <1>c, <2>1, <3>1, <3>2
    <2>2. CASE commands = <<>> /\ runnerTask' = [runnerTask EXCEPT ![g] = "finish"] /\ UNCHANGED runner /\ Quiet
      <3>1. runnerTask[g] = "drainCommands"
        BY <1>8 DEF TaskDrainCommands
      <3>2. "finish" \in TaskStates \ {"none"} /\ Quiescent
            /\ runner.kind \in {"parking", "restarting", "closed"}
        BY <1>0, <1>a, <3>1 DEF TaskStates, Resting
      <3>3. RunnerTypes' /\ Owner' /\ runnerTask'[g] = "finish"
        BY <1>0, <1>a, <2>2, <3>1, <3>2, TaskMoves
      <3>4. Resting' /\ commands' = <<>> /\ events' = events /\ shutdown' = shutdown
        BY <1>q, <2>2, <3>2 DEF Resting, mailbox
      <3>5. NoLostWakeup'
        BY <1>0, <1>a, <1>q, <2>2, <3>1, <3>2, <3>3, <3>4 DEF NoLostWakeup
      <3> QED BY <1>q, <2>2, <3>3, <3>4, <3>5
    <2> QED BY <1>8, <2>1, <2>2 DEF TaskDrainCommands
  <1>9. ASSUME TaskFinishParking(g) PROVE Kept
    <2>0. runnerTask[g] = "finish" /\ UNCHANGED <<nextGen, state, client, replied, report, shutdown>>
      BY <1>9 DEF TaskFinishParking
    <2>1. CASE /\ runner' = [kind |-> "running", gen |-> g]
               /\ runnerTask' = [runnerTask EXCEPT ![g] = "select"] /\ UNCHANGED mailbox
      BY <1>b, <1>q, <2>0, <2>1
    <2>2. ASSUME runnerTask' = [runnerTask EXCEPT ![g] = "none"]
          PROVE  runnerTask' \in [Gens -> TaskStates] /\ \A h \in Gens : runnerTask'[h] = "none"
      BY <1>0, <1>a, <2>0, <2>2 DEF RunnerTypes, Alone, TaskStates
    <2>3. Quiescent /\ Quiescent'
      BY <1>0, <2>0 DEF Resting, Quiescent, state
    <2>4. CASE /\ runner = [kind |-> "parking", gen |-> g]
               /\ runner' = [kind |-> "dormant", gen |-> g]
               /\ runnerTask' = [runnerTask EXCEPT ![g] = "none"] /\ UNCHANGED mailbox
      <3>1. RunnerTypes' /\ Owner' /\ Resting'
        BY <1>0, <2>0, <2>2, <2>3, <2>4 DEF RunnerTypes, Owner, Resting
      <3>2. OtherTypes' /\ (WakeUpComing <=> WakeUpComing')
        BY <1>q, <2>0, <2>4
      <3>3. NoLostWakeup'
        BY <1>0, <2>0, <2>4, <3>2 DEF NoLostWakeup, mailbox
      <3> QED BY <3>1, <3>2, <3>3
    <2>5. CASE /\ runner.kind = "closed" /\ runnerTask' = [runnerTask EXCEPT ![g] = "none"]
               /\ commands' = <<>> /\ events' = <<>> /\ UNCHANGED runner
      <3>1. RunnerTypes' /\ Owner' /\ Resting'
        BY <1>0, <2>0, <2>2, <2>3, <2>5 DEF RunnerTypes, Owner, Resting
      <3>2. OtherTypes'
        BY <1>0, <2>0, <2>5 DEF OtherTypes, state
      <3>3. NoLostWakeup'
        BY <2>5 DEF NoLostWakeup
      <3> QED BY <3>1, <3>2, <3>3
    <2> QED BY <1>9, <2>1, <2>4, <2>5 DEF TaskFinishParking
  <1> QED BY <1>k, <1>1, <1>2, <1>3, <1>4, <1>5, <1>6, <1>7, <1>8, <1>9 DEF TaskNext

\* begin_shutdown: the token is cancelled, and the controller is closed.
LEMMA ShutdownPreserves ==
    ASSUME RunnerInv, CancelToken \/ CloseController PROVE RunnerInv'
  <1>0. RunnerTypes /\ OtherTypes /\ Owner /\ Resting
    BY TypesSplit DEF RunnerInv
  <1>1. CASE CancelToken
    <2>1. RunnerTypes' /\ Owner' /\ Resting'
      BY <1>0, <1>1, ControllerAlone DEF CancelToken
    <2>2. OtherTypes' /\ NoLostWakeup'
      BY <1>0, <1>1 DEF CancelToken, OtherTypes, NoLostWakeup, mailbox, state
    <2> QED BY <2>1, <2>2, TypesSplit DEF RunnerInv, RunnerTypeOK, RunnerTypes, OtherTypes, ClientPcs, WorkerPcs
  <1>2. CASE CloseController
    <2>1. /\ shutdown' = "closed" /\ runner' = [runner EXCEPT !.kind = "closed"]
          /\ UNCHANGED <<nextGen, runnerTask, state, client, replied, report>>
          /\ \/ commands' = commands /\ events' = events
             \/ commands' = <<>> /\ events' = <<>>
      BY <1>2 DEF CloseController, mailbox
    <2>2. runner'.kind = "closed" /\ RunnerTypes'
      BY <1>0, <2>1 DEF RunnerTypes
    <2>3. Owner'
      BY <1>0, <2>1, <2>2 DEF RunnerTypes, Owner, Alone
    <2>4. Resting'
      BY <1>0, <2>1, <2>2 DEF RunnerTypes, Owner, Alone, Resting, Quiescent, state
    <2>5. commands' \in Seq(Clients) /\ events' \in Seq(Workers)
      <3>1. commands \in Seq(Clients) /\ events \in Seq(Workers)
        BY <1>0 DEF OtherTypes
      <3>2. CASE commands' = commands /\ events' = events
        BY <3>1, <3>2
      <3>3. CASE commands' = <<>> /\ events' = <<>>
        BY <3>3
      <3> QED BY <2>1, <3>2, <3>3
    <2>6. OtherTypes'
      BY <1>0, <2>1, <2>5 DEF OtherTypes, state
    <2>7. NoLostWakeup'
      BY <2>1 DEF NoLostWakeup
    <2> QED BY <2>2, <2>3, <2>4, <2>6, <2>7, TypesSplit DEF RunnerInv, RunnerTypeOK, RunnerTypes, OtherTypes, ClientPcs, WorkerPcs
  <1> QED BY <1>1, <1>2

-----------------------------------------------------------------------------
(***************************************************************************)
(* The theorems.                                                           *)
(***************************************************************************)
\* Every step of the runner, its senders and the shutdown.
LEMMA NextPreserves == RunnerInv /\ [RunnerNext]_runnerVars => RunnerInv'
  <1> SUFFICES ASSUME RunnerInv, [RunnerNext]_runnerVars PROVE RunnerInv'
    OBVIOUS
  <1>1. CASE UNCHANGED runnerVars
    <2>1. RunnerTypeOK'
      BY <1>1 DEF RunnerInv, RunnerTypeOK, runnerVars
    <2>2. Owner' /\ Resting' /\ NoLostWakeup'
      BY <1>1 DEF RunnerInv, runnerVars, Owner, Alone, Resting, Quiescent, NoLostWakeup, WakeUpComing
    <2> QED BY <2>1, <2>2 DEF RunnerInv
  <1>2. CASE RunnerNext
    BY <1>2, ClientPreserves, WorkerPreserves, TaskPreserves, ShutdownPreserves DEF RunnerNext
  <1> QED BY <1>1, <1>2

\* The invariant holds in every reachable state.
LEMMA RunnerInvariant == RunnerSpec => []RunnerInv
  BY InitEstablishes, NextPreserves, PTL DEF RunnerSpec

(***************************************************************************)
(* Every variable stays in its type: in particular `pending' never goes    *)
(* below zero when a report frees a slot (handle_event and drive).         *)
(***************************************************************************)
THEOREM TypeCorrect == RunnerSpec => []RunnerTypeOK
  <1>1. RunnerInv => RunnerTypeOK
    BY DEF RunnerInv
  <1> QED BY <1>1, RunnerInvariant, PTL

(***************************************************************************)
(* The actor never has two owners: ensure_runner spawns a task only when   *)
(* the controller holds the actor, whatever the senders, the parking       *)
(* handshake and the shutdown interleave to.                               *)
(***************************************************************************)
THEOREM SingleOwner == RunnerSpec => []OneOwner
  <1>1. RunnerInv => OneOwner
    BY OwnerIsOneOwner DEF RunnerInv
  <1> QED BY <1>1, RunnerInvariant, PTL

(***************************************************************************)
(* No message is left with a parked actor unless its sender is still going *)
(* to call ensure_runner (begin_parking, the two drains, finish_parking).  *)
(***************************************************************************)
THEOREM WakeupsKept == RunnerSpec => []NoLostWakeup
  <1>1. RunnerInv => NoLostWakeup
    BY DEF RunnerInv
  <1> QED BY <1>1, RunnerInvariant, PTL

(***************************************************************************)
(* A parked or dropped actor holds no unsettled prompt, as close says when *)
(* it drops a dormant actor.                                               *)
(***************************************************************************)
THEOREM ParkedHasNothing == RunnerSpec => []ParkedIsQuiescent
  <1>1. RunnerInv => ParkedIsQuiescent
    BY RestingIsParked DEF RunnerInv
  <1> QED BY <1>1, RunnerInvariant, PTL
=============================================================================
