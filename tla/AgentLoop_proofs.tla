--------------------------- MODULE AgentLoop_proofs ---------------------------
(***************************************************************************)
(* Proofs about AgentLoop, for any number of callers, requests, steps and  *)
(* calls: one turn runs at a time, no waiting turn is forgotten, and       *)
(* settled() is never left waiting for an idle loop.  And about the turn   *)
(* clock from which the loop takes its ids, for any callers and any bound. *)
(***************************************************************************)
EXTENDS AgentLoop, TurnClock, FiniteSetTheorems, WellFoundedInduction, TLAPS

-----------------------------------------------------------------------------
(***************************************************************************)
(* The inductive invariant.                                                *)
(***************************************************************************)
WorkerRecord == [pc : WorkerPcs, outcome : {"none"} \cup Over, next : Turns \cup {0}]
CallerRecord == [pc : CallerPcs, request : Requests \cup {0}, turn : Turns \cup {0}]

\* The part of TypeOK that concerns who runs and who waits; dispose has
\* nothing to cancel before it is called.
LoopTypes ==
    /\ active \in Turns \cup {0}
    /\ pending \in Seq(Turns)
    /\ standalone \in Seq(Requests)
    /\ waiters \in SUBSET Callers
    /\ disposal \in [state : {"no", "cancelling", "done"}, turns : SUBSET Turns,
                     dropping : Turns \cup {0}, requests : SUBSET Requests]
    /\ disposal.state = "no" => disposal.turns = {} /\ disposal.dropping = 0
    /\ worker \in [Turns -> WorkerRecord]
    /\ caller \in [Callers -> CallerRecord]

\* A call of enqueue has its request until the request is admitted.
CallersHaveRequests ==
    \A c \in Callers : caller[c].pc \in {"readActive", "admit"} => caller[c].request \in Requests

\* Whoever claimed a turn is alone, and the turn waits for it behind the gate.
CallerStarts ==
    \A c \in Callers : caller[c].pc = "start" =>
        /\ caller[c].turn = active
        /\ active # 0 /\ worker[active].pc = "gate"

WorkerStarts ==
    \A t \in Turns : worker[t].pc = "start" =>
        /\ worker[t].next = active
        /\ active # 0 /\ worker[active].pc = "gate"

OneStarter ==
    /\ \A c, d \in Callers : caller[c].pc = "start" /\ caller[d].pc = "start" => c = d
    /\ \A t, u \in Turns : worker[t].pc = "start" /\ worker[u].pc = "start" => t = u
    /\ \A c \in Callers, t \in Turns : ~(caller[c].pc = "start" /\ worker[t].pc = "start")

Starts == CallerStarts /\ WorkerStarts /\ OneStarter

LoopInv ==
    /\ LoopTypes
    /\ CallersHaveRequests
    /\ Starts
    /\ OneTurnAtATime
    /\ PumpComing
    /\ WaitersHaveCause

\* Zero names no turn.
LEMMA TurnsAreNonzero == 0 \notin Turns
  BY LoopAssumption DEF Turns, Requests

\* What init establishes.
LEMMA InitEstablishes == Init => LoopInv
  <1> SUFFICES ASSUME Init PROVE LoopInv
    OBVIOUS
  <1>1. LoopTypes
    BY DEF Init, LoopTypes, WorkerRecord, CallerRecord, WorkerPcs, CallerPcs
  <1>2. OneTurnAtATime
    BY TurnsAreNonzero DEF Init, OneTurnAtATime, Holding
  <1>3. CallersHaveRequests /\ Starts /\ PumpComing /\ WaitersHaveCause
    BY DEF Init, CallersHaveRequests, Starts, CallerStarts, WorkerStarts, OneStarter,
           PumpComing, WaitersHaveCause
  <1> QED BY <1>1, <1>2, <1>3 DEF LoopInv

-----------------------------------------------------------------------------
(***************************************************************************)
(* Steps of a turn's task between the gate and the release of the slot     *)
(* move that task only.                                                    *)
(***************************************************************************)
Working == Holding \ {"gate"}

WorksOn(t) ==
    /\ worker[t].pc \in Working
    /\ \E w \in WorkerRecord : w.pc \in Working /\ worker' = [worker EXCEPT ![t] = w]
    /\ UNCHANGED <<queues, caller>>

\* A worker's record stays one when its place and outcome are replaced.
LEMMA RecordUpdated ==
    ASSUME NEW old \in WorkerRecord, NEW pc \in WorkerPcs, NEW outcome \in {"none"} \cup Over
    PROVE  LET w == [old EXCEPT !.pc = pc, !.outcome = outcome]
           IN  w \in WorkerRecord /\ w.pc = pc
  BY DEF WorkerRecord

\* The places between the gate and the release are places of a task.
LEMMA WorkingPlaces == Working \subseteq WorkerPcs /\ "release" \in Working /\ "free" \in Working
  BY DEF Working, Holding, WorkerPcs

\* WorkerGoto and Decide are moves of this kind.
LEMMA GotoMoves ==
    ASSUME NEW t \in Turns, NEW pc \in Working, LoopTypes, WorkerGoto(t, pc)
    PROVE  \E w \in WorkerRecord : w.pc \in Working /\ worker' = [worker EXCEPT ![t] = w]
  <1> DEFINE w == [worker[t] EXCEPT !.pc = pc]
  <1>1. w \in WorkerRecord /\ w.pc \in Working
    BY DEF LoopTypes, WorkerRecord, Working, WorkerPcs
  <1>2. worker' = [worker EXCEPT ![t] = w]
    BY DEF WorkerGoto
  <1> QED BY <1>1, <1>2

\* What the decision after a step does to the turn task.
LEMMA DecideMoves ==
    ASSUME NEW t \in Turns, NEW outcome \in {"none"} \cup Over, LoopTypes, Decide(t, outcome)
    PROVE  \E w \in WorkerRecord : w.pc \in Working /\ worker' = [worker EXCEPT ![t] = w]
  <1> DEFINE w == [worker[t] EXCEPT !.pc = "release", !.outcome = outcome]
  <1>0. worker[t] \in WorkerRecord
    BY DEF LoopTypes
  <1>1. w \in WorkerRecord /\ w.pc \in Working
    BY <1>0, WorkingPlaces, RecordUpdated
  <1>2. worker' = [worker EXCEPT ![t] = w]
    BY DEF Decide
  <1> QED BY <1>1, <1>2

\* The end of the turn's last step is one, too.
LEMMA ReleaseMoves ==
    ASSUME NEW t \in Turns, LoopTypes, ReleaseSteps(t)
    PROVE  \E w \in WorkerRecord : w.pc \in Working /\ worker' = [worker EXCEPT ![t] = w]
  <1> DEFINE outcome == IF WorkerAt(t, "panicked") THEN "failed" ELSE worker[t].outcome
  <1>1. worker[t] \in WorkerRecord
    BY DEF LoopTypes
  <1>2. outcome \in {"none"} \cup Over
    BY <1>1 DEF WorkerRecord, Over
  <1>3. worker' = [worker EXCEPT ![t] = [worker[t] EXCEPT !.pc = "free", !.outcome = outcome]]
    BY DEF ReleaseSteps
  <1> HIDE DEF outcome
  <1> DEFINE w == [worker[t] EXCEPT !.pc = "free", !.outcome = outcome]
  <1>4. "free" \in WorkerPcs /\ "free" \in Working
    BY WorkingPlaces
  <1>5. w \in WorkerRecord /\ w.pc = "free"
    BY <1>1, <1>2, <1>4, RecordUpdated, Zenon
  <1> QED BY <1>3, <1>4, <1>5

\* The steps from begin_loop_step to the cancellation of the open steps.
LEMMA StepsWork ==
    ASSUME NEW t \in Turns, LoopTypes,
           \/ BeginLoopStep(t) \/ TakeBatch(t) \/ SetRunning(t) \/ Materialize(t)
           \/ ExecuteStep(t) \/ AfterStep(t) \/ AfterStepStops(t) \/ AfterStepContinues(t)
           \/ AfterStepFails(t) \/ HandleLoopStepError(t) \/ Recover(t) \/ Retry(t)
           \/ ReleaseSteps(t)
    PROVE  WorksOn(t)
  <1> USE DEF WorkerAt, Working, Holding
  <1> DEFINE Moves == \E w \in WorkerRecord : w.pc \in Working /\ worker' = [worker EXCEPT ![t] = w]
  <1>g. \A pc \in Working : WorkerGoto(t, pc) => Moves
    BY GotoMoves
  <1>d. \A outcome \in {"none"} \cup Over : Decide(t, outcome) => Moves
    BY DecideMoves
  <1>o. {"completed", "failed", "cancelled"} \subseteq {"none"} \cup Over
    BY DEF Over
  <1> HIDE DEF Moves
  <1>h. HandleCancellation(t) => Moves
    BY <1>g, <1>d, <1>o DEF HandleCancellation
  <1>1. ASSUME BeginLoopStep(t) PROVE WorksOn(t)
    <2>1. Moves
      BY <1>1, <1>g, <1>d, <1>o DEF BeginLoopStep
    <2> QED BY <1>1, <2>1 DEF BeginLoopStep, WorksOn, Moves
  <1>2. ASSUME TakeBatch(t) PROVE WorksOn(t)
    <2>1. WorkerGoto(t, "panicked") \/ WorkerGoto(t, "setRunning")
      BY <1>2 DEF TakeBatch
    <2>2. Moves
      BY <2>1, <1>g
    <2> QED BY <1>2, <2>2 DEF TakeBatch, WorksOn, Moves
  <1>3. ASSUME SetRunning(t) PROVE WorksOn(t)
    <2>1. Moves
      BY <1>3, <1>g DEF SetRunning
    <2> QED BY <1>3, <2>1 DEF SetRunning, WorksOn, Moves
  <1>4. ASSUME Materialize(t) PROVE WorksOn(t)
    <2>1. WorkerGoto(t, "execute") \/ WorkerGoto(t, "error")
      BY <1>4 DEF Materialize
    <2>2. Moves
      BY <2>1, <1>g
    <2> QED BY <1>4, <2>2 DEF Materialize, WorksOn, Moves
  <1>5. ASSUME ExecuteStep(t) PROVE WorksOn(t)
    <2>1. Moves
      BY <1>5, <1>g DEF ExecuteStep
    <2> QED BY <1>5, <2>1 DEF ExecuteStep, WorksOn, Moves
  <1>6. ASSUME AfterStep(t) PROVE WorksOn(t)
    <2>1. Moves
      BY <1>6, <1>g DEF AfterStep
    <2> QED BY <1>6, <2>1 DEF AfterStep, WorksOn, Moves
  <1>7. ASSUME AfterStepStops(t) PROVE WorksOn(t)
    <2>1. Moves
      BY <1>7, <1>d, <1>o DEF AfterStepStops
    <2> QED BY <1>7, <2>1 DEF AfterStepStops, WorksOn, Moves
  <1>8. ASSUME AfterStepContinues(t) PROVE WorksOn(t)
    <2>1. Moves
      BY <1>8, <1>g DEF AfterStepContinues
    <2> QED BY <1>8, <2>1 DEF AfterStepContinues, WorksOn, Moves
  <1>9. ASSUME AfterStepFails(t) PROVE WorksOn(t)
    <2>1. Moves
      BY <1>9, <1>g DEF AfterStepFails
    <2> QED BY <1>9, <2>1 DEF AfterStepFails, WorksOn, Moves
  <1>10. ASSUME HandleLoopStepError(t) PROVE WorksOn(t)
    <2>1. Moves
      BY <1>10, <1>g, <1>d, <1>o, <1>h DEF HandleLoopStepError
    <2> QED BY <1>10, <2>1 DEF HandleLoopStepError, WorksOn, Moves
  <1>11. ASSUME Recover(t) PROVE WorksOn(t)
    <2>1. Moves
      BY <1>11, <1>g, <1>d, <1>o, <1>h DEF Recover
    <2> QED BY <1>11, <2>1 DEF Recover, WorksOn, Moves
  <1>12. ASSUME Retry(t) PROVE WorksOn(t)
    <2>1. Moves
      BY <1>12, <1>g DEF Retry
    <2> QED BY <1>12, <2>1 DEF Retry, WorksOn, Moves
  <1>13. ASSUME ReleaseSteps(t) PROVE WorksOn(t)
    <2>1. Moves
      BY <1>13, ReleaseMoves DEF Moves
    <2> QED BY <1>13, <2>1 DEF ReleaseSteps, WorksOn, Moves
  <1> QED BY <1>1, <1>2, <1>3, <1>4, <1>5, <1>6, <1>7, <1>8, <1>9, <1>10, <1>11, <1>12, <1>13

\* Such a step preserves the invariant: the slot stays with the task that moves.
LEMMA WorkPreserves ==
    ASSUME NEW t \in Turns, LoopInv, WorksOn(t)
    PROVE  LoopInv'
  <1>1. PICK w \in WorkerRecord : w.pc \in Working /\ worker' = [worker EXCEPT ![t] = w]
    BY DEF WorksOn
  <1>2. UNCHANGED <<active, pending, standalone, waiters, disposal, caller>>
    BY DEF WorksOn, queues
  <1>3. worker[t].pc \in Working
    BY DEF WorksOn
  <1>4. LoopTypes'
    BY <1>1, <1>2 DEF LoopInv, LoopTypes
  <1>5. /\ worker'[t] = w
        /\ \A u \in Turns : u # t => worker'[u] = worker[u]
    BY <1>1 DEF LoopInv, LoopTypes
  <1>6. OneTurnAtATime'
    BY <1>1, <1>2, <1>3, <1>5 DEF LoopInv, OneTurnAtATime, Working
  <1>7. active = t
    BY <1>3 DEF LoopInv, OneTurnAtATime, Working
  <1>8. (\A c \in Callers : caller[c].pc # "start") /\ (\A u \in Turns : worker[u].pc # "start")
    BY <1>3, <1>7 DEF LoopInv, Starts, CallerStarts, WorkerStarts, Working
  <1>9. Starts'
    BY <1>1, <1>2, <1>5, <1>8 DEF Starts, CallerStarts, WorkerStarts, OneStarter, Working, Holding
  <1>10. CallersHaveRequests' /\ WaitersHaveCause'
    BY <1>2 DEF LoopInv, CallersHaveRequests, WaitersHaveCause
  <1>11. PumpComing'
    BY <1>2, <1>7, TurnsAreNonzero DEF PumpComing
  <1> QED BY <1>4, <1>6, <1>9, <1>10, <1>11 DEF LoopInv

-----------------------------------------------------------------------------
(***************************************************************************)
(* Steps of a call that neither take from nor add to the line of turns.    *)
(***************************************************************************)
Quiet == CallerPcs \ {"pump", "start", "dropping"}

CallMoves(c) ==
    /\ caller[c].pc \in Quiet
    /\ \E r \in CallerRecord :
         /\ r.pc \in CallerPcs \ {"start"}
         /\ r.pc \in {"readActive", "admit"} => r.request \in Requests
         /\ caller' = [caller EXCEPT ![c] = r]
    /\ standalone' \in Seq(Requests)
    /\ UNCHANGED <<active, pending, waiters, disposal, worker>>

\* A call that only moves preserves the invariant.
LEMMA MovePreserves ==
    ASSUME NEW c \in Callers, LoopInv, CallMoves(c)
    PROVE  LoopInv'
  <1>1. PICK r \in CallerRecord :
           /\ r.pc \in CallerPcs \ {"start"}
           /\ r.pc \in {"readActive", "admit"} => r.request \in Requests
           /\ caller' = [caller EXCEPT ![c] = r]
    BY DEF CallMoves
  <1>2. UNCHANGED <<active, pending, waiters, disposal, worker>> /\ standalone' \in Seq(Requests)
    BY DEF CallMoves
  <1>3. caller[c].pc \in Quiet
    BY DEF CallMoves
  <1>4. LoopTypes'
    BY <1>1, <1>2 DEF LoopInv, LoopTypes
  <1>5. /\ caller'[c] = r
        /\ \A d \in Callers : d # c => caller'[d] = caller[d]
    BY <1>1 DEF LoopInv, LoopTypes
  <1>6. CallersHaveRequests'
    BY <1>1, <1>5 DEF LoopInv, CallersHaveRequests
  <1>7. Starts'
    BY <1>1, <1>2, <1>5 DEF LoopInv, Starts, CallerStarts, WorkerStarts, OneStarter
  <1>8. OneTurnAtATime'
    BY <1>2 DEF LoopInv, OneTurnAtATime
  <1>9. PumpComing'
    BY <1>2, <1>3, <1>5 DEF LoopInv, PumpComing, Quiet
  <1>10. WaitersHaveCause'
    BY <1>2, <1>3, <1>5 DEF LoopInv, WaitersHaveCause, Quiet
  <1> QED BY <1>4, <1>6, <1>7, <1>8, <1>9, <1>10 DEF LoopInv

\* The end of a call is such a move.
LEMMA ReturnMoves ==
    ASSUME NEW c \in Callers, LoopTypes, caller[c].pc \in Quiet, Return(c),
           UNCHANGED <<active, pending, waiters, disposal, worker>>,
           standalone' \in Seq(Requests)
    PROVE  CallMoves(c)
  <1> DEFINE r == [pc |-> "idle", request |-> 0, turn |-> 0]
  <1>1. r \in CallerRecord /\ r.pc \in CallerPcs \ {"start"} /\ r.pc \notin {"readActive", "admit"}
    BY DEF CallerRecord, CallerPcs
  <1>2. caller' = [caller EXCEPT ![c] = r]
    BY DEF Return
  <1> HIDE DEF r
  <1> QED BY <1>1, <1>2 DEF CallMoves

\* What a call that leaves the slot and the line alone does.
LEMMA CallsMove ==
    ASSUME NEW c \in Callers, LoopInv,
           \/ \E k \in Kinds : EnqueueRegister(c, k)
           \/ EnqueueReadActive(c) \/ EnqueueJoin(c) \/ EnqueueNoTurn(c)
           \/ \E t \in Turns \cup {0} : Cancel(c, t)
           \/ CancelActive(c)
           \/ SettledReturns(c)
    PROVE  CallMoves(c)
  <1> USE DEF At, queues
  <1>0. LoopTypes /\ standalone \in Seq(Requests) /\ caller[c] \in CallerRecord
    BY DEF LoopInv, LoopTypes
  <1>1. ASSUME NEW k \in Kinds, EnqueueRegister(c, k) PROVE CallMoves(c)
    <2> DEFINE r == [pc |-> "readActive", request |-> NextRequest, turn |-> 0]
    <2>1. NextRequest \in Requests /\ caller' = [caller EXCEPT ![c] = r]
      BY <1>1 DEF EnqueueRegister
    <2>2. r \in CallerRecord /\ r.pc \in CallerPcs \ {"start"} /\ r.request \in Requests
      BY <2>1 DEF CallerRecord, CallerPcs
    <2>3. /\ caller[c].pc \in Quiet
          /\ UNCHANGED <<active, pending, standalone, waiters, disposal, worker>>
      BY <1>1 DEF EnqueueRegister, Quiet, CallerPcs
    <2> HIDE DEF r
    <2> QED BY <1>0, <2>1, <2>2, <2>3 DEF CallMoves
  <1>2. ASSUME EnqueueReadActive(c) PROVE CallMoves(c)
    <2> DEFINE r == [caller[c] EXCEPT !.pc = "admit", !.turn = active]
    <2>1. caller' = [caller EXCEPT ![c] = r]
      BY <1>2 DEF EnqueueReadActive
    <2>2. caller[c].request \in Requests
      BY <1>2 DEF EnqueueReadActive, LoopInv, CallersHaveRequests
    <2>3. r \in CallerRecord /\ r.pc \in CallerPcs \ {"start"} /\ r.request \in Requests
      BY <1>0, <2>2 DEF LoopTypes, CallerRecord, CallerPcs
    <2>4. /\ caller[c].pc \in Quiet
          /\ UNCHANGED <<active, pending, standalone, waiters, disposal, worker>>
      BY <1>2 DEF EnqueueReadActive, Quiet, CallerPcs
    <2> HIDE DEF r
    <2> QED BY <1>0, <2>1, <2>3, <2>4 DEF CallMoves
  <1>3. ASSUME EnqueueJoin(c) PROVE CallMoves(c)
    <2>1. /\ caller[c].pc \in Quiet /\ Return(c)
          /\ UNCHANGED <<active, pending, standalone, waiters, disposal, worker>>
      BY <1>3 DEF EnqueueJoin, Quiet, CallerPcs
    <2> QED BY <1>0, <2>1, ReturnMoves
  <1>4. ASSUME EnqueueNoTurn(c) PROVE CallMoves(c)
    <2>1. /\ caller[c].pc \in Quiet /\ Return(c)
          /\ UNCHANGED <<active, pending, waiters, disposal, worker>>
      BY <1>4 DEF EnqueueNoTurn, Quiet, CallerPcs
    <2>2. caller[c].request \in Requests
      BY <1>4 DEF EnqueueNoTurn, LoopInv, CallersHaveRequests
    <2>3. standalone' = standalone \/ standalone' = Append(standalone, caller[c].request)
      BY <1>4 DEF EnqueueNoTurn
    <2>4. standalone' \in Seq(Requests)
      BY <1>0, <2>2, <2>3
    <2> QED BY <1>0, <2>1, <2>4, ReturnMoves
  <1>5. ASSUME NEW t \in Turns \cup {0}, Cancel(c, t) PROVE CallMoves(c)
    <2> DEFINE r == [pc |-> "cancelActive", request |-> 0, turn |-> t]
    <2>1. caller' = [caller EXCEPT ![c] = r]
      BY <1>5 DEF Cancel
    <2>2. r \in CallerRecord /\ r.pc \in CallerPcs \ {"start"} /\ r.pc \notin {"readActive", "admit"}
      BY DEF CallerRecord, CallerPcs
    <2>3. /\ caller[c].pc \in Quiet
          /\ UNCHANGED <<active, pending, standalone, waiters, disposal, worker>>
      BY <1>5 DEF Cancel, Quiet, CallerPcs
    <2> HIDE DEF r
    <2> QED BY <1>0, <2>1, <2>2, <2>3 DEF CallMoves
  <1>6. ASSUME CancelActive(c) PROVE CallMoves(c)
    <2>1. /\ caller[c].pc \in Quiet
          /\ UNCHANGED <<active, pending, standalone, waiters, disposal, worker>>
          /\ Return(c) \/ Goto(c, "cancelQueued")
      BY <1>6 DEF CancelActive, Quiet, CallerPcs
    <2>2. CASE Return(c)
      BY <1>0, <2>1, <2>2, ReturnMoves
    <2>3. CASE Goto(c, "cancelQueued")
      <3> DEFINE r == [caller[c] EXCEPT !.pc = "cancelQueued"]
      <3>1. caller' = [caller EXCEPT ![c] = r]
        BY <2>3 DEF Goto
      <3>2. r \in CallerRecord /\ r.pc \in CallerPcs \ {"start"} /\ r.pc \notin {"readActive", "admit"}
        BY <1>0 DEF CallerRecord, CallerPcs
      <3> HIDE DEF r
      <3> QED BY <1>0, <2>1, <3>1, <3>2 DEF CallMoves
    <2> QED BY <2>1, <2>2, <2>3
  <1>7. ASSUME SettledReturns(c) PROVE CallMoves(c)
    <2>1. /\ caller[c].pc \in Quiet /\ Return(c)
          /\ UNCHANGED <<active, pending, standalone, waiters, disposal, worker>>
      BY <1>7 DEF SettledReturns, Quiet, CallerPcs
    <2> QED BY <1>0, <2>1, ReturnMoves
  <1> QED BY <1>1, <1>2, <1>3, <1>4, <1>5, <1>6, <1>7

-----------------------------------------------------------------------------
(***************************************************************************)
(* The line of turns.                                                      *)
(***************************************************************************)
\* What is left of a line when one turn is taken out is a line of turns.
LEMMA WithoutIsLine ==
    ASSUME NEW line \in Seq(Turns), NEW i \in 1 .. Len(line)
    PROVE  Without(line, i) \in Seq(Turns) /\ line # <<>>
  <1>1. Len(line) \in Nat /\ Len(line) - 1 \in Nat
    OBVIOUS
  <1>2. \A j \in 1 .. (Len(line) - 1) :
            (IF j < i THEN line[j] ELSE line[j + 1]) \in Turns
    <2>1. \A j \in 1 .. Len(line) : line[j] \in Turns
      OBVIOUS
    <2>2. \A j \in 1 .. (Len(line) - 1) : j \in 1 .. Len(line) /\ j + 1 \in 1 .. Len(line)
      BY <1>1
    <2> QED BY <2>1, <2>2
  <1>3. Without(line, i) \in [1 .. (Len(line) - 1) -> Turns]
    BY <1>2 DEF Without
  <1> QED BY <1>1, <1>3

\* The head of a line of turns is a turn, the tail a line.
LEMMA HeadIsTurn ==
    ASSUME LoopTypes, pending # <<>>
    PROVE  Head(pending) \in Turns /\ Tail(pending) \in Seq(Turns) /\ Head(pending) # 0
  BY TurnsAreNonzero DEF LoopTypes

\* settle_waiters wakes everybody or, if there is a turn left, nobody.
LEMMA WaitersAfterSettle ==
    ASSUME NEW a, NEW line, LoopTypes
    PROVE  /\ WaitersAfter(a, line) \in SUBSET Callers
           /\ WaitersAfter(a, line) # {} => a # 0 \/ line # <<>>
  BY DEF WaitersAfter, LoopTypes

\* When no turn is active nobody is at the gate.
LEMMA NoStarter ==
    ASSUME LoopInv, active = 0
    PROVE  /\ \A c \in Callers : caller[c].pc # "start"
           /\ \A t \in Turns : worker[t].pc # "start" /\ worker[t].pc \notin Holding
  BY TurnsAreNonzero DEF LoopInv, Starts, CallerStarts, WorkerStarts, OneTurnAtATime

\* enqueue adds a turn to the line and goes to pump.
LEMMA NewTurnPreserves ==
    ASSUME NEW c \in Callers, LoopInv, EnqueueNewTurn(c)
    PROVE  LoopInv'
  <1> DEFINE r == caller[c].request
  <1>1. /\ caller[c].pc = "admit"
        /\ pending' = Append(pending, r) /\ standalone' = <<>>
        /\ caller' = [caller EXCEPT ![c].pc = "pump"]
        /\ UNCHANGED <<active, waiters, disposal, worker>>
    BY DEF EnqueueNewTurn, At, Goto
  <1>2. r \in Turns
    BY <1>1 DEF LoopInv, CallersHaveRequests, Turns
  <1>3. caller \in [Callers -> CallerRecord] /\ pending \in Seq(Turns)
    BY DEF LoopInv, LoopTypes
  <1>4. /\ caller' \in [Callers -> CallerRecord]
        /\ caller'[c].pc = "pump"
        /\ \A d \in Callers : d # c => caller'[d] = caller[d]
    BY <1>1, <1>3 DEF CallerRecord, CallerPcs
  <1>5. pending' \in Seq(Turns) /\ pending' # <<>>
    BY <1>1, <1>2, <1>3
  <1>6. LoopTypes'
    BY <1>1, <1>4, <1>5 DEF LoopInv, LoopTypes
  <1>7. CallersHaveRequests' /\ OneTurnAtATime' /\ PumpComing' /\ WaitersHaveCause'
    BY <1>1, <1>4, <1>5 DEF LoopInv, CallersHaveRequests, OneTurnAtATime, PumpComing,
                            WaitersHaveCause
  <1>8. Starts'
    BY <1>1, <1>4 DEF LoopInv, Starts, CallerStarts, WorkerStarts, OneStarter
  <1> QED BY <1>6, <1>7, <1>8 DEF LoopInv

\* pump_turns called by enqueue.
LEMMA CallerPumpPreserves ==
    ASSUME NEW c \in Callers, LoopInv, CallerPump(c)
    PROVE  LoopInv'
  <1>0. /\ caller[c].pc = "pump" /\ UNCHANGED <<standalone, disposal>>
        /\ caller \in [Callers -> CallerRecord] /\ worker \in [Turns -> WorkerRecord]
        /\ LoopTypes
    BY DEF CallerPump, At, LoopInv, LoopTypes
  <1>1. CASE /\ ClaimNext
             /\ caller' = [caller EXCEPT ![c].pc = "start", ![c].turn = Head(pending)]
             /\ worker' = [worker EXCEPT ![Head(pending)].pc = "gate"]
    <2> DEFINE h == Head(pending)
    <2>1. /\ active = 0 /\ pending # <<>> /\ active' = h /\ pending' = Tail(pending)
          /\ UNCHANGED waiters
      BY <1>1 DEF ClaimNext, Claimable
    <2>2. h \in Turns /\ Tail(pending) \in Seq(Turns) /\ h # 0
      BY <1>0, <2>1, HeadIsTurn
    <2> HIDE DEF h
    <2>3. caller' = [caller EXCEPT ![c].pc = "start", ![c].turn = h]
      BY <1>1 DEF h
    <2>4. worker' = [worker EXCEPT ![h].pc = "gate"]
      BY <1>1 DEF h
    <2>5. /\ caller' \in [Callers -> CallerRecord]
          /\ caller'[c].pc = "start" /\ caller'[c].turn = h
          /\ \A d \in Callers : d # c => caller'[d] = caller[d]
      BY <1>0, <2>2, <2>3 DEF CallerRecord, CallerPcs
    <2>6. /\ worker' \in [Turns -> WorkerRecord]
          /\ worker'[h].pc = "gate"
          /\ \A u \in Turns : u # h => worker'[u] = worker[u]
      BY <1>0, <2>2, <2>4 DEF WorkerRecord, WorkerPcs, Holding
    <2>7. /\ \A d \in Callers : caller[d].pc # "start"
          /\ \A t \in Turns : worker[t].pc # "start" /\ worker[t].pc \notin Holding
      BY <2>1, NoStarter
    <2>8. LoopTypes'
      BY <1>0, <2>1, <2>2, <2>5, <2>6 DEF LoopTypes
    <2>9. CallersHaveRequests'
      BY <2>5 DEF LoopInv, CallersHaveRequests
    <2>10. Starts'
      BY <2>1, <2>2, <2>5, <2>6, <2>7 DEF Starts, CallerStarts, WorkerStarts, OneStarter
    <2>11. OneTurnAtATime'
      BY <2>1, <2>6, <2>7 DEF OneTurnAtATime, Holding
    <2>12. PumpComing' /\ WaitersHaveCause'
      BY <2>1, <2>2 DEF PumpComing, WaitersHaveCause
    <2> QED BY <2>8, <2>9, <2>10, <2>11, <2>12 DEF LoopInv
  <1>2. CASE ClaimNone /\ Return(c) /\ UNCHANGED worker
    <2> DEFINE r == [pc |-> "idle", request |-> 0, turn |-> 0]
    <2>1. /\ ~Claimable /\ UNCHANGED <<active, pending, worker>>
          /\ waiters' = waiters \/ waiters' = WaitersAfter(active, pending)
      BY <1>2 DEF ClaimNone
    <2>2. caller' = [caller EXCEPT ![c] = r] /\ r \in CallerRecord
      BY <1>2 DEF Return, CallerRecord, CallerPcs
    <2>3. /\ caller' \in [Callers -> CallerRecord]
          /\ caller'[c].pc = "idle"
          /\ \A d \in Callers : d # c => caller'[d] = caller[d]
      BY <1>0, <2>2
    <2>4. LoopTypes'
      BY <1>0, <2>1, <2>3, WaitersAfterSettle DEF LoopTypes
    <2>5. CallersHaveRequests' /\ Starts' /\ OneTurnAtATime'
      BY <2>1, <2>3 DEF LoopInv, CallersHaveRequests, Starts, CallerStarts, WorkerStarts,
                        OneStarter, OneTurnAtATime
    <2>6. PumpComing'
      BY <1>0, <2>1 DEF PumpComing, Claimable
    <2>7. WaitersHaveCause'
      BY <1>0, <2>1, <2>3, WaitersAfterSettle DEF LoopInv, WaitersHaveCause
    <2> QED BY <2>4, <2>5, <2>6, <2>7 DEF LoopInv
  <1> QED BY <1>1, <1>2 DEF CallerPump

\* The gate is opened by the enqueue that claimed the turn.
LEMMA CallerStartPreserves ==
    ASSUME NEW c \in Callers, LoopInv, CallerStart(c)
    PROVE  LoopInv'
  <1> DEFINE r == [pc |-> "idle", request |-> 0, turn |-> 0]
             t == caller[c].turn
  <1>0. /\ caller \in [Callers -> CallerRecord] /\ worker \in [Turns -> WorkerRecord]
        /\ LoopTypes
    BY DEF LoopInv, LoopTypes
  <1>1. /\ caller[c].pc = "start"
        /\ UNCHANGED <<active, pending, standalone, waiters, disposal>>
    BY DEF CallerStart, At, queues
  <1>2. t = active /\ active # 0 /\ worker[active].pc = "gate" /\ active \in Turns
    BY <1>0, <1>1 DEF LoopInv, Starts, CallerStarts, LoopTypes
  <1>3. worker' = [worker EXCEPT ![active].pc = "begin"]
    BY <1>2 DEF CallerStart
  <1>4. caller' = [caller EXCEPT ![c] = r] /\ r \in CallerRecord
    BY DEF CallerStart, Return, CallerRecord, CallerPcs
  <1>5. /\ caller' \in [Callers -> CallerRecord]
        /\ caller'[c].pc = "idle"
        /\ \A d \in Callers : d # c => caller'[d] = caller[d]
    BY <1>0, <1>4
  <1>6. /\ worker' \in [Turns -> WorkerRecord]
        /\ worker'[active].pc = "begin"
        /\ \A u \in Turns : u # active => worker'[u] = worker[u]
    BY <1>0, <1>2, <1>3 DEF WorkerRecord, WorkerPcs, Holding
  <1>7. LoopTypes'
    BY <1>0, <1>1, <1>5, <1>6 DEF LoopTypes
  <1>8. /\ \A d \in Callers : caller'[d].pc # "start"
        /\ \A u \in Turns : worker'[u].pc # "start"
    BY <1>1, <1>5, <1>6 DEF LoopInv, Starts, OneStarter
  <1>9. CallersHaveRequests' /\ Starts'
    BY <1>5, <1>8 DEF LoopInv, CallersHaveRequests, Starts, CallerStarts, WorkerStarts, OneStarter
  <1>10. OneTurnAtATime'
    BY <1>1, <1>2, <1>6 DEF LoopInv, OneTurnAtATime, Holding
  <1>11. PumpComing' /\ WaitersHaveCause'
    BY <1>1, <1>2 DEF PumpComing, WaitersHaveCause
  <1> QED BY <1>7, <1>9, <1>10, <1>11 DEF LoopInv

-----------------------------------------------------------------------------
(***************************************************************************)
(* Cancellation, settled and dispose.                                      *)
(***************************************************************************)
\* A queued turn is taken out of the line by a call that settles afterwards.
LEMMA CancelQueuedPreserves ==
    ASSUME NEW c \in Callers, LoopInv, CancelQueued(c)
    PROVE  LoopInv'
  <1>0. /\ caller \in [Callers -> CallerRecord] /\ pending \in Seq(Turns) /\ LoopTypes
        /\ standalone \in Seq(Requests)
    BY DEF LoopInv, LoopTypes
  <1>1. /\ caller[c].pc = "cancelQueued"
        /\ UNCHANGED <<active, standalone, waiters, disposal, worker>>
    BY DEF CancelQueued, At
  <1>2. CASE \E i \in 1 .. Len(pending) : pending' = Without(pending, i) /\ Goto(c, "dropping")
    <2>1. pending' \in Seq(Turns) /\ pending # <<>> /\ Goto(c, "dropping")
      BY <1>0, <1>2, WithoutIsLine
    <2>2. /\ caller' \in [Callers -> CallerRecord]
          /\ caller'[c].pc = "dropping"
          /\ \A d \in Callers : d # c => caller'[d] = caller[d]
      BY <1>0, <2>1 DEF Goto, CallerRecord, CallerPcs
    <2>3. LoopTypes'
      BY <1>0, <1>1, <2>1, <2>2 DEF LoopTypes
    <2>4. CallersHaveRequests' /\ Starts' /\ OneTurnAtATime'
      BY <1>1, <2>2 DEF LoopInv, CallersHaveRequests, Starts, CallerStarts, WorkerStarts,
                        OneStarter, OneTurnAtATime
    <2>5. PumpComing' /\ WaitersHaveCause'
      BY <1>1, <2>1, <2>2 DEF LoopInv, PumpComing, WaitersHaveCause
    <2> QED BY <2>3, <2>4, <2>5 DEF LoopInv
  <1>3. CASE Return(c) /\ UNCHANGED pending
    <2>1. caller[c].pc \in Quiet
      BY <1>1 DEF Quiet, CallerPcs
    <2>2. CallMoves(c)
      BY <1>0, <1>1, <1>3, <2>1, ReturnMoves
    <2> QED BY <2>2, MovePreserves
  <1> QED BY <1>2, <1>3 DEF CancelQueued

\* The second half of cancel_queued_turn: the removed turn is settled.
LEMMA CancelDroppedPreserves ==
    ASSUME NEW c \in Callers, LoopInv, CancelDropped(c)
    PROVE  LoopInv'
  <1> DEFINE r == [pc |-> "idle", request |-> 0, turn |-> 0]
  <1>0. caller \in [Callers -> CallerRecord] /\ LoopTypes
    BY DEF LoopInv, LoopTypes
  <1>1. /\ caller[c].pc = "dropping"
        /\ waiters' = WaitersAfter(active, pending)
        /\ UNCHANGED <<active, pending, standalone, disposal, worker>>
    BY DEF CancelDropped, DropTurn, At
  <1>2. caller' = [caller EXCEPT ![c] = r] /\ r \in CallerRecord
    BY DEF CancelDropped, Return, CallerRecord, CallerPcs
  <1>3. /\ caller' \in [Callers -> CallerRecord]
        /\ caller'[c].pc = "idle"
        /\ \A d \in Callers : d # c => caller'[d] = caller[d]
    BY <1>0, <1>2
  <1>4. LoopTypes' /\ WaitersHaveCause'
    BY <1>0, <1>1, <1>3, WaitersAfterSettle DEF LoopTypes, WaitersHaveCause
  <1>5. CallersHaveRequests' /\ Starts' /\ OneTurnAtATime' /\ PumpComing'
    BY <1>1, <1>3 DEF LoopInv, CallersHaveRequests, Starts, CallerStarts, WorkerStarts,
                      OneStarter, OneTurnAtATime, PumpComing
  <1> QED BY <1>4, <1>5 DEF LoopInv

\* A receipt's abort starts a cancel or leaves the line alone.
LEMMA AbortRequestPreserves ==
    ASSUME NEW c \in Callers, NEW q \in Requests, LoopInv, AbortRequest(c, q)
    PROVE  LoopInv'
  <1>0. caller \in [Callers -> CallerRecord] /\ LoopTypes /\ standalone \in Seq(Requests)
    BY DEF LoopInv, LoopTypes
  <1>1. /\ caller[c].pc = "idle"
        /\ UNCHANGED <<active, pending, standalone, waiters, disposal, worker>>
    BY DEF AbortRequest, At, queues
  <1>2. \/ \E t : t = q /\ caller' = [caller EXCEPT ![c] = [pc |-> "cancelActive", request |-> q,
                                                           turn |-> t]]
        \/ UNCHANGED caller
    BY DEF AbortRequest
  <1>3. CASE UNCHANGED caller
    BY <1>1, <1>3 DEF LoopInv, LoopTypes, CallersHaveRequests, Starts, CallerStarts, WorkerStarts,
                      OneStarter, OneTurnAtATime, PumpComing, WaitersHaveCause
  <1>4. CASE caller' = [caller EXCEPT ![c] = [pc |-> "cancelActive", request |-> q, turn |-> q]]
    <2> DEFINE r == [pc |-> "cancelActive", request |-> q, turn |-> q]
    <2>1. r \in CallerRecord /\ r.pc \in CallerPcs \ {"start"} /\ r.pc \notin {"readActive", "admit"}
      BY DEF CallerRecord, CallerPcs, Turns
    <2>2. caller' = [caller EXCEPT ![c] = r] /\ caller[c].pc \in Quiet
      BY <1>1, <1>4 DEF Quiet, CallerPcs
    <2> HIDE DEF r
    <2>3. CallMoves(c)
      BY <1>0, <1>1, <2>1, <2>2 DEF CallMoves
    <2> QED BY <2>3, MovePreserves
  <1> QED BY <1>2, <1>3, <1>4

\* settled() waits only for a loop that is busy.
LEMMA SettledPreserves ==
    ASSUME NEW c \in Callers, LoopInv, Settled(c)
    PROVE  LoopInv'
  <1>0. caller \in [Callers -> CallerRecord] /\ LoopTypes
    BY DEF LoopInv, LoopTypes
  <1>1. /\ caller[c].pc = "idle"
        /\ active # 0 \/ pending # <<>>
        /\ waiters' = waiters \cup {c}
        /\ caller' = [caller EXCEPT ![c].pc = "settled"]
        /\ UNCHANGED <<active, pending, standalone, disposal, worker>>
    BY DEF Settled, At, Goto
  <1>2. /\ caller' \in [Callers -> CallerRecord]
        /\ caller'[c].pc = "settled"
        /\ \A d \in Callers : d # c => caller'[d] = caller[d]
    BY <1>0, <1>1 DEF CallerRecord, CallerPcs
  <1>3. LoopTypes'
    BY <1>0, <1>1, <1>2 DEF LoopTypes
  <1>4. CallersHaveRequests' /\ Starts' /\ OneTurnAtATime' /\ PumpComing' /\ WaitersHaveCause'
    BY <1>1, <1>2 DEF LoopInv, CallersHaveRequests, Starts, CallerStarts, WorkerStarts,
                      OneStarter, OneTurnAtATime, PumpComing, WaitersHaveCause
  <1> QED BY <1>3, <1>4 DEF LoopInv

\* dispose moves no caller and no task.
LEMMA DisposalPreserves ==
    ASSUME LoopInv, Dispose \/ DisposeStep
    PROVE  LoopInv'
  <1> DEFINE DisposalRecord == [state : {"no", "cancelling", "done"}, turns : SUBSET Turns,
                                dropping : Turns \cup {0}, requests : SUBSET Requests]
  <1>0. LoopTypes /\ disposal \in DisposalRecord /\ pending \in Seq(Turns)
    BY DEF LoopInv, LoopTypes
  <1>1. UNCHANGED <<active, worker, caller>>
    BY DEF Dispose, DisposeStep, DisposeTurn, DisposeDropped, DisposeEnd
  <1>2. CallersHaveRequests' /\ Starts' /\ OneTurnAtATime'
    BY <1>1 DEF LoopInv, CallersHaveRequests, Starts, CallerStarts, WorkerStarts,
                OneStarter, OneTurnAtATime
  <1>3. ASSUME Dispose PROVE LoopTypes' /\ PumpComing' /\ WaitersHaveCause'
    <2>1. /\ disposal'.state = "cancelling" /\ disposal'.dropping = 0 /\ disposal.state = "no"
          /\ disposal' = [state |-> "cancelling", turns |-> Members(pending) \cup ({active} \ {0}),
                          dropping |-> 0, requests |-> Members(standalone)]
          /\ standalone' = <<>> /\ UNCHANGED <<pending, waiters>>
      BY <1>3 DEF Dispose
    <2>2. Members(pending) \subseteq Turns /\ Members(standalone) \subseteq Requests
      BY <1>0 DEF LoopTypes, Members
    <2>3. disposal' \in DisposalRecord
      BY <1>0, <2>1, <2>2 DEF LoopTypes
    <2>4. LoopTypes'
      BY <1>0, <1>1, <2>1, <2>3 DEF LoopTypes
    <2>5. PumpComing'
      BY <2>1 DEF PumpComing
    <2>6. WaitersHaveCause'
      BY <1>0, <1>1, <2>1 DEF LoopInv, LoopTypes, WaitersHaveCause
    <2> QED BY <2>4, <2>5, <2>6
  <1>4. ASSUME NEW t \in Turns, DisposeTurn(t) PROVE LoopTypes' /\ PumpComing' /\ WaitersHaveCause'
    <2>1. /\ disposal.dropping = 0 /\ t \in disposal.turns /\ UNCHANGED <<standalone, waiters>>
          /\ disposal.state # "no"
      BY <1>0, <1>4 DEF DisposeTurn, LoopTypes
    <2>2. CASE pending' = pending /\ disposal' = [disposal EXCEPT !.turns = @ \ {t}]
      <3>1. /\ disposal' \in DisposalRecord /\ disposal'.state = disposal.state
            /\ disposal'.dropping = disposal.dropping
        BY <1>0, <2>2
      <3> QED BY <1>0, <1>1, <2>1, <2>2, <3>1 DEF LoopInv, LoopTypes, PumpComing, WaitersHaveCause
    <2>3. CASE /\ \E i \in 1 .. Len(pending) : pending' = Without(pending, i)
               /\ disposal' = [disposal EXCEPT !.turns = @ \ {t}, !.dropping = t]
      <3>1. /\ disposal' \in DisposalRecord /\ disposal'.state = disposal.state
            /\ disposal'.dropping = t
        BY <1>0, <2>3
      <3>2. pending' \in Seq(Turns)
        BY <1>0, <2>3, WithoutIsLine
      <3>3. LoopTypes'
        BY <1>0, <1>1, <2>1, <3>1, <3>2 DEF LoopTypes
      <3>4. PumpComing' /\ WaitersHaveCause'
        BY <2>1, <3>1, TurnsAreNonzero DEF PumpComing, WaitersHaveCause
      <3> QED BY <3>3, <3>4
    <2> QED BY <1>4, <2>2, <2>3 DEF DisposeTurn
  <1>5. ASSUME DisposeDropped PROVE LoopTypes' /\ PumpComing' /\ WaitersHaveCause'
    <2>1. /\ disposal' = [disposal EXCEPT !.dropping = 0]
          /\ waiters' = WaitersAfter(active, pending)
          /\ UNCHANGED <<pending, standalone>>
      BY <1>5 DEF DisposeDropped, DropTurn
    <2>2. /\ disposal' \in DisposalRecord /\ disposal'.state = disposal.state
          /\ disposal'.dropping = 0 /\ disposal'.turns = disposal.turns
      BY <1>0, <2>1
    <2> QED BY <1>0, <1>1, <2>1, <2>2, WaitersAfterSettle
            DEF LoopInv, LoopTypes, PumpComing, WaitersHaveCause
  <1>6. ASSUME DisposeEnd PROVE LoopTypes' /\ PumpComing' /\ WaitersHaveCause'
    <2>1. /\ disposal' = [state |-> "done", turns |-> {}, dropping |-> 0, requests |-> {}]
          /\ waiters' = WaitersAfter(active, pending)
          /\ UNCHANGED <<pending, standalone>>
      BY <1>6 DEF DisposeEnd
    <2>2. disposal' \in DisposalRecord /\ disposal'.state = "done"
      BY <2>1
    <2> QED BY <1>0, <1>1, <2>1, <2>2, WaitersAfterSettle
            DEF LoopTypes, PumpComing, WaitersHaveCause
  <1> QED BY <1>2, <1>3, <1>4, <1>5, <1>6 DEF LoopInv, DisposeStep

-----------------------------------------------------------------------------
(***************************************************************************)
(* The end of a turn's task.                                               *)
(***************************************************************************)
\* The slot is freed by its holder, which then pumps.
LEMMA ReleaseSlotPreserves ==
    ASSUME NEW t \in Turns, LoopInv, ReleaseSlot(t)
    PROVE  LoopInv'
  <1>0. worker \in [Turns -> WorkerRecord] /\ LoopTypes
    BY DEF LoopInv, LoopTypes
  <1>1. worker[t].pc = "free" /\ active = t
    BY DEF ReleaseSlot, WorkerAt, LoopInv, OneTurnAtATime, Holding
  <1>2. /\ active' = 0 /\ waiters' = WaitersAfter(0, pending)
        /\ worker' = [worker EXCEPT ![t].pc = "pump"]
        /\ UNCHANGED <<pending, standalone, disposal, caller>>
    BY <1>1 DEF ReleaseSlot, WorkerGoto
  <1>3. /\ worker' \in [Turns -> WorkerRecord]
        /\ worker'[t].pc = "pump"
        /\ \A u \in Turns : u # t => worker'[u] = worker[u]
    BY <1>0, <1>2 DEF WorkerRecord, WorkerPcs
  <1>4. LoopTypes' /\ WaitersHaveCause'
    BY <1>0, <1>2, <1>3, WaitersAfterSettle DEF LoopTypes, WaitersHaveCause
  <1>5. /\ \A c \in Callers : caller[c].pc # "start"
        /\ \A u \in Turns : worker[u].pc # "start"
    BY <1>1 DEF LoopInv, Starts, CallerStarts, WorkerStarts
  <1>6. Starts' /\ CallersHaveRequests' /\ PumpComing'
    BY <1>2, <1>3, <1>5 DEF LoopInv, Starts, CallerStarts, WorkerStarts, OneStarter,
                            CallersHaveRequests, PumpComing
  <1>7. OneTurnAtATime'
    BY <1>1, <1>2, <1>3, TurnsAreNonzero DEF LoopInv, OneTurnAtATime, Holding
  <1> QED BY <1>4, <1>6, <1>7 DEF LoopInv

\* pump_turns called by a task that has ended its turn.
LEMMA WorkerPumpPreserves ==
    ASSUME NEW t \in Turns, LoopInv, WorkerPump(t)
    PROVE  LoopInv'
  <1>0. /\ worker[t].pc = "pump" /\ UNCHANGED <<standalone, disposal, caller>>
        /\ worker \in [Turns -> WorkerRecord]
        /\ LoopTypes
    BY DEF WorkerPump, WorkerAt, LoopInv, LoopTypes
  <1>1. CASE /\ ClaimNext
             /\ worker' = [worker EXCEPT ![t].pc = "start", ![t].next = Head(pending),
                                         ![Head(pending)].pc = "gate"]
    <2> DEFINE h == Head(pending)
    <2>1. /\ active = 0 /\ pending # <<>> /\ active' = h /\ pending' = Tail(pending)
          /\ UNCHANGED waiters
      BY <1>1 DEF ClaimNext, Claimable
    <2>2. h \in Turns /\ Tail(pending) \in Seq(Turns) /\ h # 0
      BY <1>0, <2>1, HeadIsTurn
    <2> HIDE DEF h
    <2>3. worker' = [worker EXCEPT ![t].pc = "start", ![t].next = h, ![h].pc = "gate"]
      BY <1>1 DEF h
    <2>4. /\ worker' \in [Turns -> WorkerRecord]
          /\ worker'[h].pc = "gate"
          /\ t # h => worker'[t].pc = "start" /\ worker'[t].next = h
          /\ \A u \in Turns : u # h /\ u # t => worker'[u] = worker[u]
      <3> DEFINE wt == [worker[t] EXCEPT !.pc = "start", !.next = h]
                 mid == [worker EXCEPT ![t] = wt]
                 wh == [mid[h] EXCEPT !.pc = "gate"]
      <3>1. worker' = [mid EXCEPT ![h] = wh]
        BY <2>3
      <3>2. wt \in WorkerRecord /\ wt.pc = "start" /\ wt.next = h
        BY <1>0, <2>2 DEF WorkerRecord, WorkerPcs
      <3> HIDE DEF wt
      <3>3. /\ mid \in [Turns -> WorkerRecord] /\ mid[t] = wt
            /\ \A u \in Turns : u # t => mid[u] = worker[u]
        BY <1>0, <3>2
      <3> HIDE DEF mid
      <3>4. wh \in WorkerRecord /\ wh.pc = "gate"
        BY <2>2, <3>3 DEF WorkerRecord, WorkerPcs, Holding
      <3> HIDE DEF wh
      <3> QED BY <2>2, <3>1, <3>2, <3>3, <3>4
    <2>5. /\ \A d \in Callers : caller[d].pc # "start"
          /\ \A u \in Turns : worker[u].pc # "start" /\ worker[u].pc \notin Holding
      BY <2>1, NoStarter
    <2>6. LoopTypes'
      BY <1>0, <2>1, <2>2, <2>4 DEF LoopTypes
    <2>7. CallersHaveRequests'
      BY <1>0 DEF LoopInv, CallersHaveRequests
    <2>8. Starts'
      BY <1>0, <2>1, <2>2, <2>4, <2>5 DEF Starts, CallerStarts, WorkerStarts, OneStarter
    <2>9. OneTurnAtATime'
      BY <2>1, <2>4, <2>5 DEF OneTurnAtATime, Holding
    <2>10. PumpComing' /\ WaitersHaveCause'
      BY <2>1, <2>2 DEF PumpComing, WaitersHaveCause
    <2> QED BY <2>6, <2>7, <2>8, <2>9, <2>10 DEF LoopInv
  <1>2. CASE ClaimNone /\ WorkerGoto(t, "settle")
    <2>1. /\ ~Claimable /\ UNCHANGED <<active, pending>>
          /\ waiters' = waiters \/ waiters' = WaitersAfter(active, pending)
          /\ worker' = [worker EXCEPT ![t].pc = "settle"]
      BY <1>2 DEF ClaimNone, WorkerGoto
    <2>2. /\ worker' \in [Turns -> WorkerRecord]
          /\ worker'[t].pc = "settle"
          /\ \A u \in Turns : u # t => worker'[u] = worker[u]
      BY <1>0, <2>1 DEF WorkerRecord, WorkerPcs
    <2>3. LoopTypes'
      BY <1>0, <2>1, <2>2, WaitersAfterSettle DEF LoopTypes
    <2>4. OneTurnAtATime'
      BY <1>0, <2>1, <2>2 DEF LoopInv, OneTurnAtATime, Holding
    <2>5. active # 0 => active # t
      BY <1>0 DEF LoopInv, OneTurnAtATime, Holding
    <2>6. CallersHaveRequests' /\ Starts'
      BY <1>0, <2>1, <2>2, <2>5 DEF LoopInv, LoopTypes, CallersHaveRequests, Starts, CallerStarts,
                                    WorkerStarts, OneStarter
    <2>7. PumpComing'
      BY <1>0, <2>1 DEF PumpComing, Claimable
    <2>8. WaitersHaveCause'
      BY <1>0, <2>1, WaitersAfterSettle DEF LoopInv, WaitersHaveCause
    <2> QED BY <2>3, <2>4, <2>6, <2>7, <2>8 DEF LoopInv
  <1> QED BY <1>1, <1>2 DEF WorkerPump

\* The gate is opened by the task that claimed the next turn.
LEMMA WorkerStartPreserves ==
    ASSUME NEW t \in Turns, LoopInv, WorkerStart(t)
    PROVE  LoopInv'
  <1>0. worker \in [Turns -> WorkerRecord] /\ LoopTypes
    BY DEF LoopInv, LoopTypes
  <1>1. /\ worker[t].pc = "start"
        /\ UNCHANGED <<active, pending, standalone, waiters, disposal, caller>>
    BY DEF WorkerStart, WorkerAt, queues
  <1>2. /\ worker[t].next = active /\ active # 0 /\ worker[active].pc = "gate"
        /\ active \in Turns /\ active # t
    BY <1>0, <1>1 DEF LoopInv, Starts, WorkerStarts, LoopTypes
  <1>3. worker' = [worker EXCEPT ![t].pc = "settle", ![t].next = 0, ![active].pc = "begin"]
    BY <1>2 DEF WorkerStart
  <1>4. /\ worker' \in [Turns -> WorkerRecord]
        /\ worker'[active].pc = "begin" /\ worker'[t].pc = "settle"
        /\ \A u \in Turns : u # active /\ u # t => worker'[u] = worker[u]
    BY <1>0, <1>2, <1>3 DEF WorkerRecord, WorkerPcs, Holding
  <1>5. LoopTypes'
    BY <1>0, <1>1, <1>4 DEF LoopTypes
  <1>6. /\ \A c \in Callers : caller[c].pc # "start"
        /\ \A u \in Turns : worker'[u].pc # "start"
    BY <1>1, <1>2, <1>4 DEF LoopInv, Starts, OneStarter
  <1>7. CallersHaveRequests' /\ Starts'
    BY <1>1, <1>6 DEF LoopInv, CallersHaveRequests, Starts, CallerStarts, WorkerStarts, OneStarter
  <1>8. OneTurnAtATime'
    BY <1>1, <1>2, <1>4 DEF LoopInv, OneTurnAtATime, Holding
  <1>9. PumpComing' /\ WaitersHaveCause'
    BY <1>1, <1>2 DEF PumpComing, WaitersHaveCause
  <1> QED BY <1>5, <1>7, <1>8, <1>9 DEF LoopInv

\* The turn's result is settled by a task that holds nothing.
LEMMA SettleResultPreserves ==
    ASSUME NEW t \in Turns, LoopInv, SettleResult(t)
    PROVE  LoopInv'
  <1>0. worker \in [Turns -> WorkerRecord] /\ LoopTypes
    BY DEF LoopInv, LoopTypes
  <1>1. /\ worker[t].pc = "settle"
        /\ worker' = [worker EXCEPT ![t].pc = "done", ![t].outcome = "none"]
        /\ UNCHANGED <<active, pending, standalone, waiters, disposal, caller>>
    BY DEF SettleResult, WorkerAt, queues
  <1>2. /\ worker' \in [Turns -> WorkerRecord]
        /\ worker'[t].pc = "done"
        /\ \A u \in Turns : u # t => worker'[u] = worker[u]
    BY <1>0, <1>1 DEF WorkerRecord, WorkerPcs
  <1>3. active # t
    BY <1>1 DEF LoopInv, OneTurnAtATime, Holding
  <1>4. LoopTypes'
    BY <1>0, <1>1, <1>2 DEF LoopTypes
  <1>5. OneTurnAtATime'
    BY <1>1, <1>2 DEF LoopInv, OneTurnAtATime, Holding
  <1>6. CallersHaveRequests' /\ Starts'
    BY <1>0, <1>1, <1>2, <1>3 DEF LoopInv, LoopTypes, CallersHaveRequests, Starts, CallerStarts,
                                  WorkerStarts, OneStarter
  <1>7. PumpComing' /\ WaitersHaveCause'
    BY <1>1, <1>2 DEF LoopInv, PumpComing, WaitersHaveCause
  <1> QED BY <1>4, <1>5, <1>6, <1>7 DEF LoopInv

-----------------------------------------------------------------------------
(***************************************************************************)
(* The theorems.                                                           *)
(***************************************************************************)
\* Every step preserves the invariant.
LEMMA NextPreserves == LoopInv /\ [Next]_vars => LoopInv'
  <1> SUFFICES ASSUME LoopInv, [Next]_vars PROVE LoopInv'
    OBVIOUS
  <1>1. CASE UNCHANGED vars
    BY <1>1 DEF vars, LoopInv, LoopTypes, CallersHaveRequests, Starts, CallerStarts, WorkerStarts,
                OneStarter, OneTurnAtATime, PumpComing, WaitersHaveCause
  <1>2. ASSUME NEW c \in Callers, Call(c) \/ CallerStep(c) PROVE LoopInv'
    <2>1. ASSUME CallMoves(c) PROVE LoopInv'
      BY <2>1, MovePreserves
    <2>2. ASSUME Call(c) PROVE LoopInv'
      BY <2>1, <2>2, CallsMove, AbortRequestPreserves, SettledPreserves DEF Call
    <2>3. ASSUME CallerStep(c) PROVE LoopInv'
      BY <2>1, <2>3, CallsMove, NewTurnPreserves, CallerPumpPreserves, CallerStartPreserves,
         CancelQueuedPreserves, CancelDroppedPreserves DEF CallerStep
    <2> QED BY <1>2, <2>2, <2>3
  <1>3. ASSUME NEW t \in Turns, WorkerStep(t) PROVE LoopInv'
    <2>1. LoopTypes
      BY DEF LoopInv
    <2>2. ASSUME WorksOn(t) PROVE LoopInv'
      BY <2>2, WorkPreserves
    <2> QED BY <1>3, <2>1, <2>2, StepsWork, ReleaseSlotPreserves, WorkerPumpPreserves,
               WorkerStartPreserves, SettleResultPreserves DEF WorkerStep
  <1>4. ASSUME Dispose \/ DisposeStep PROVE LoopInv'
    BY <1>4, DisposalPreserves
  <1> QED BY <1>1, <1>2, <1>3, <1>4 DEF Next

\* The invariant holds in every reachable state.
LEMMA LoopInvariant == Spec => []LoopInv
  BY InitEstablishes, NextPreserves, PTL DEF Spec

(***************************************************************************)
(* One turn at a time: for any number of threads that enqueue, cancel and  *)
(* dispose, a turn's task works on the conversation exactly while its turn *)
(* holds the active slot of LoopState.                                     *)
(***************************************************************************)
THEOREM OneTurn == Spec => []OneTurnAtATime
  <1>1. LoopInv => OneTurnAtATime
    BY DEF LoopInv
  <1> QED BY <1>1, LoopInvariant, PTL

(***************************************************************************)
(* pump_turns is never owed and forgotten: turns that wait while the slot  *)
(* is free have somebody on the way to claim them.                         *)
(***************************************************************************)
THEOREM NoTurnForgotten == Spec => []PumpComing
  <1>1. LoopInv => PumpComing
    BY DEF LoopInv
  <1> QED BY <1>1, LoopInvariant, PTL

(***************************************************************************)
(* settled() waits only while there is a turn, or a cancellation that will *)
(* call settle_waiters.                                                    *)
(***************************************************************************)
THEOREM WaitersAreWoken == Spec => []WaitersHaveCause
  <1>1. LoopInv => WaitersHaveCause
    BY DEF LoopInv
  <1> QED BY <1>1, LoopInvariant, PTL

-----------------------------------------------------------------------------
(***************************************************************************)
(* The turn clock.                                                         *)
(***************************************************************************)
ClockInv == ClockTypeOK /\ TurnIdsNeverReused /\ IdsBelowCounters

\* advance_turn_clock never moves the clock below the value it is given, and
\* keeps a finite set of cancellations.
LEMMA AdvanceClockMonotone ==
    ASSUME NEW next \in Nat, NEW S \in SUBSET Nat, IsFiniteSet(S),
           AdvanceClock(next, S)
    PROVE  /\ nextTurnId' \in Nat
           /\ nextTurnId' >= next
           /\ cancelledTurnIds' \in SUBSET Nat
           /\ IsFiniteSet(cancelledTurnIds')
<1> DEFINE run == CancelledRun(next, S)
           kept == {id \in S : id >= next} \ run
<1>1. run \subseteq S /\ kept \subseteq S
  BY DEF CancelledRun
<1>2. IsFiniteSet(run) /\ IsFiniteSet(kept)
  BY <1>1, FS_Subset
<1>3. Cardinality(run) \in Nat
  BY <1>2, FS_CardinalityType
<1>4. nextTurnId' = next + Cardinality(run) /\ cancelledTurnIds' = kept
  BY DEF AdvanceClock
<1> HIDE DEF run, kept
<1> QED
  BY <1>1, <1>2, <1>3, <1>4

\* A turn.cancel record, applied in any state, keeps the clock's type and
\* never moves it back.
LEMMA CancelMonotone ==
    ASSUME ClockTypeOK, NEW id \in Nat, ApplyCancel(id)
    PROVE  /\ nextTurnId' \in Nat
           /\ nextTurnId' >= nextTurnId
           /\ cancelledTurnIds' \in SUBSET Nat
           /\ IsFiniteSet(cancelledTurnIds')
<1>1. CASE id < nextTurnId
  <2>1. nextTurnId' = nextTurnId /\ cancelledTurnIds' = cancelledTurnIds
    BY <1>1 DEF ApplyCancel
  <2> QED
    BY <2>1 DEF ClockTypeOK
<1>2. CASE ~(id < nextTurnId)
  <2>1. AdvanceClock(nextTurnId, cancelledTurnIds \cup {id})
    BY <1>2 DEF ApplyCancel
  <2>2. IsFiniteSet(cancelledTurnIds \cup {id})
    BY FS_AddElement DEF ClockTypeOK
  <2> QED
    BY <2>1, <2>2, AdvanceClockMonotone DEF ClockTypeOK
<1> QED
  BY <1>1, <1>2

\* A loop event moves the clock above the id that it carries.
LEMMA ObserveMonotone ==
    ASSUME ClockTypeOK, NEW id \in Nat, ObserveTurnId(id)
    PROVE  /\ nextTurnId' \in Nat
           /\ nextTurnId' >= nextTurnId
           /\ id < nextTurnId'
           /\ cancelledTurnIds' \in SUBSET Nat
           /\ IsFiniteSet(cancelledTurnIds')
           /\ lastEnded' \in Nat \cup {None}
<1>0. lastEnded' \in Nat \cup {None}
  BY DEF ObserveTurnId, ClockTypeOK
<1>1. CASE id >= nextTurnId
  <2>1. AdvanceClock(id + 1, cancelledTurnIds)
    BY <1>1 DEF ObserveTurnId
  <2>2. nextTurnId' \in Nat /\ nextTurnId' >= id + 1
        /\ cancelledTurnIds' \in SUBSET Nat /\ IsFiniteSet(cancelledTurnIds')
    BY <2>1, AdvanceClockMonotone DEF ClockTypeOK
  <2> QED
    BY <1>0, <1>1, <2>2 DEF ClockTypeOK
<1>2. CASE ~(id >= nextTurnId)
  <2>1. nextTurnId' = nextTurnId /\ cancelledTurnIds' = cancelledTurnIds
    BY <1>2 DEF ObserveTurnId
  <2> QED
    BY <1>0, <1>2, <2>1 DEF ClockTypeOK
<1> QED
  BY <1>1, <1>2

-----------------------------------------------------------------------------
\* The initial state satisfies the invariant.
LEMMA ClockInvInit == ClockInit => ClockInv
BY FS_EmptySet DEF ClockInit, ClockInv, ClockTypeOK, TurnIdsNeverReused, IdsBelowCounters,
                   Waiting, IdleCaller, None

\* Every step keeps it: one case per action of the loop, the wire and the crash.
LEMMA ClockInvStep == ClockInv /\ [ClockNext]_clockVars => ClockInv'
<1> SUFFICES ASSUME ClockInv, [ClockNext]_clockVars PROVE ClockInv'
  OBVIOUS
<1> USE DEF ClockInv, None
<1>1. ASSUME NEW c \in ClockCallers, ReadClock(c) PROVE ClockInv'
  BY <1>1 DEF ReadClock, Overlap, ClockTypeOK, TurnIdsNeverReused, IdsBelowCounters, Waiting, durable
<1>2. ASSUME NEW c \in ClockCallers, ReserveTurnId(c) PROVE ClockInv'
  <2> DEFINE modelNext == clockCaller[c].id
             id == IF reserved > modelNext THEN reserved ELSE modelNext
  <2>1. /\ clockCaller[c].pc = "read" /\ modelNext \in Nat
        /\ id \in Nat /\ id >= reserved /\ id >= modelNext
    BY <1>2 DEF ReserveTurnId, ClockTypeOK, IdsBelowCounters
  <2>2. /\ reserved' = id + 1
        /\ clockCaller' = [clockCaller EXCEPT ![c] = [pc |-> "reserved", id |-> id]]
        /\ UNCHANGED <<durable, pendingTurns, activeTurn, turnState, ending, cancelling, recorded, overlapped>>
    BY <1>2 DEF ReserveTurnId
  <2>3. \A r \in recorded : r < id
    BY <2>1 DEF ClockTypeOK, IdsBelowCounters
  <2> HIDE DEF id
  <2>4. ClockTypeOK'
    BY <2>1, <2>2 DEF ClockTypeOK, durable
  <2>5. IdsBelowCounters'
    BY <2>1, <2>2, <2>3 DEF ClockTypeOK, IdsBelowCounters, durable
  <2>6. TurnIdsNeverReused'
    BY <2>1, <2>2, <2>3 DEF ClockTypeOK, IdsBelowCounters, TurnIdsNeverReused, Waiting, durable
  <2> QED
    BY <2>4, <2>5, <2>6
<1>3. ASSUME NEW c \in ClockCallers, QueueTurn(c) PROVE ClockInv'
  <2>1. clockCaller[c].id \in Nat /\ clockCaller[c].pc = "reserved"
    BY <1>3 DEF QueueTurn, IdsBelowCounters
  <2>2. /\ Len(pendingTurns') = Len(pendingTurns) + 1
        /\ pendingTurns' \in Seq(Nat)
        /\ \A i \in 1 .. Len(pendingTurns') :
             pendingTurns'[i] = IF i = Len(pendingTurns) + 1 THEN clockCaller[c].id
                                ELSE pendingTurns[i]
    BY <1>3, <2>1 DEF QueueTurn, ClockTypeOK
  <2>3. /\ clockCaller' = [clockCaller EXCEPT ![c] = IdleCaller]
        /\ UNCHANGED <<durable, reserved, activeTurn, turnState, ending, cancelling, recorded, overlapped>>
    BY <1>3 DEF QueueTurn
  <2>4. ClockTypeOK'
    BY <2>1, <2>2, <2>3 DEF ClockTypeOK, durable, IdleCaller
  <2> DEFINE n == Len(pendingTurns)
  <2>a. n \in Nat
    BY DEF ClockTypeOK
  <2>b. \A i \in 1 .. Len(pendingTurns') :
          \/ i \in 1 .. n /\ pendingTurns'[i] = pendingTurns[i]
          \/ i = n + 1 /\ pendingTurns'[i] = clockCaller[c].id
    BY <2>2, <2>a
  <2>c. clockCaller \in [ClockCallers -> [pc : {"idle", "read", "reserved"}, id : Nat \cup {None}]]
    BY DEF ClockTypeOK
  <2>d. clockCaller'[c].pc = "idle" /\ \A d \in ClockCallers : d # c => clockCaller'[d] = clockCaller[d]
    BY <2>3, <2>c DEF IdleCaller
  <2> HIDE DEF n
  <2>5. IdsBelowCounters'
    BY <2>1, <2>3, <2>b, <2>d DEF IdsBelowCounters, durable, n
  <2>6. TurnIdsNeverReused'
    <3>1. \A i, j \in 1 .. Len(pendingTurns') : i # j => pendingTurns'[i] # pendingTurns'[j]
      BY <2>1, <2>b DEF TurnIdsNeverReused, n
    <3>2. \A d \in ClockCallers, i \in 1 .. Len(pendingTurns') :
            clockCaller'[d].pc = "reserved" => clockCaller'[d].id # pendingTurns'[i]
      BY <2>1, <2>b, <2>d DEF TurnIdsNeverReused, n
    <3>3. \A id : Waiting(id)' => Waiting(id)
      BY <2>1, <2>b, <2>d DEF Waiting, n
    <3>4. \A d, e \in ClockCallers :
            clockCaller'[d].pc = "reserved" /\ clockCaller'[e].pc = "reserved" /\ d # e
                => clockCaller'[d].id # clockCaller'[e].id
      BY <2>d DEF TurnIdsNeverReused
    <3> QED
      BY <2>3, <3>1, <3>2, <3>3, <3>4 DEF TurnIdsNeverReused
  <2> QED
    BY <2>4, <2>5, <2>6
<1>4. CASE ClaimTurn
  <2>1. /\ pendingTurns # <<>>
        /\ activeTurn' = pendingTurns[1]
        /\ pendingTurns' \in Seq(Nat)
        /\ Len(pendingTurns') = Len(pendingTurns) - 1
        /\ \A i \in 1 .. Len(pendingTurns') : pendingTurns'[i] = pendingTurns[i + 1]
        /\ 1 \in 1 .. Len(pendingTurns)
    BY <1>4 DEF ClaimTurn, ClockTypeOK
  <2>2. turnState' = "queued" /\ UNCHANGED <<durable, reserved, ending, cancelling, clockCaller, recorded>>
        /\ overlapped' \in {overlapped, "yes"}
    BY <1>4 DEF ClaimTurn, Overlap
  <2>3. pendingTurns[1] \in Nat
    BY <2>1 DEF ClockTypeOK
  <2>4. ClockTypeOK'
    BY <2>1, <2>2, <2>3 DEF ClockTypeOK, durable
  <2>a. \A i \in 1 .. Len(pendingTurns') :
          i + 1 \in 1 .. Len(pendingTurns) /\ i + 1 # 1
          /\ pendingTurns'[i] = pendingTurns[i + 1]
    <3>1. Len(pendingTurns) \in Nat
      BY DEF ClockTypeOK
    <3> QED
      BY <2>1, <3>1
  <2>b. \A id : Waiting(id)' => Waiting(id)
    BY <2>2, <2>a DEF Waiting
  <2>c. Waiting(pendingTurns[1])
    BY <2>1 DEF Waiting
  <2>5. IdsBelowCounters'
    BY <2>1, <2>2, <2>3, <2>a DEF IdsBelowCounters, durable
  <2>6. TurnIdsNeverReused'
    <3>1. \A i, j \in 1 .. Len(pendingTurns') : i # j => pendingTurns'[i] # pendingTurns'[j]
      <4>1. \A i, j \in Int : i # j => i + 1 # j + 1
        OBVIOUS
      <4> QED
        BY <2>a, <4>1 DEF TurnIdsNeverReused
    <3>2. /\ \A d \in ClockCallers : clockCaller'[d].pc = "reserved" => clockCaller'[d].id # activeTurn'
          /\ \A i \in 1 .. Len(pendingTurns') : pendingTurns'[i] # activeTurn'
      BY <2>1, <2>2, <2>a DEF TurnIdsNeverReused
    <3>3. \A id \in recorded' \cup {activeTurn'} : ~Waiting(id)'
      BY <2>2, <2>b, <3>2 DEF TurnIdsNeverReused, Waiting
    <3>4. activeTurn' \notin recorded'
      BY <2>1, <2>2, <2>c DEF TurnIdsNeverReused
    <3>5. /\ \A d, e \in ClockCallers :
                clockCaller'[d].pc = "reserved" /\ clockCaller'[e].pc = "reserved" /\ d # e
                    => clockCaller'[d].id # clockCaller'[e].id
          /\ \A d \in ClockCallers, i \in 1 .. Len(pendingTurns') :
                clockCaller'[d].pc = "reserved" => clockCaller'[d].id # pendingTurns'[i]
      BY <2>2, <2>a DEF TurnIdsNeverReused
    <3> QED
      BY <3>1, <3>3, <3>4, <3>5 DEF TurnIdsNeverReused
  <2> QED
    BY <2>4, <2>5, <2>6
<1>5. CASE PromptTurn
  <2>1. /\ nextTurnId' \in Nat /\ nextTurnId' >= nextTurnId + 1
        /\ cancelledTurnIds' \in SUBSET Nat /\ IsFiniteSet(cancelledTurnIds')
    <3>1. nextTurnId + 1 \in Nat /\ cancelledTurnIds \in SUBSET Nat
          /\ IsFiniteSet(cancelledTurnIds) /\ AdvanceClock(nextTurnId + 1, cancelledTurnIds)
      BY <1>5 DEF PromptTurn, ClockTypeOK
    <3> QED
      BY <3>1, AdvanceClockMonotone
  <2> QED
    BY <1>5, <2>1 DEF PromptTurn, ClockTypeOK, TurnIdsNeverReused, IdsBelowCounters, Waiting
<1>6. CASE AppendLoopEvent
  <2>1. activeTurn \in Nat /\ turnState = "running" /\ ObserveTurnId(activeTurn)
    BY <1>6 DEF AppendLoopEvent, ClockTypeOK
  <2>2. /\ nextTurnId' \in Nat /\ nextTurnId' >= nextTurnId /\ activeTurn < nextTurnId'
        /\ cancelledTurnIds' \in SUBSET Nat /\ IsFiniteSet(cancelledTurnIds')
        /\ lastEnded' \in Nat \cup {None}
    BY <2>1, ObserveMonotone
  <2>3. recorded' = recorded \cup {activeTurn} /\ UNCHANGED <<memory, overlapped>>
    BY <1>6 DEF AppendLoopEvent
  <2> QED
    BY <2>1, <2>2, <2>3 DEF memory, ClockTypeOK, TurnIdsNeverReused, IdsBelowCounters, Waiting
<1>7. CASE CancelActiveTurn
  BY <1>7 DEF CancelActiveTurn, durable, ClockTypeOK, TurnIdsNeverReused, IdsBelowCounters, Waiting
<1>7b. ASSUME NEW id \in cancelling, DispatchCancel(id) PROVE ClockInv'
  <2>1. id \in Nat /\ ApplyCancel(id)
    BY <1>7b DEF DispatchCancel, ClockTypeOK
  <2> QED
    BY <1>7b, <2>1, CancelMonotone, SMTT(30)
    DEF DispatchCancel, ClockTypeOK, TurnIdsNeverReused, IdsBelowCounters, Waiting
<1>8. ASSUME NEW i \in 1 .. Len(pendingTurns), CancelQueuedTurn(i) PROVE ClockInv'
  <2>1. pendingTurns[i] \in Nat /\ cancelling' = cancelling \cup {pendingTurns[i]}
    BY <1>8 DEF CancelQueuedTurn, ClockTypeOK
  <2>3. /\ pendingTurns' \in Seq(Nat)
        /\ Len(pendingTurns') = Len(pendingTurns) - 1
        /\ \A j \in 1 .. Len(pendingTurns') :
             pendingTurns'[j] = pendingTurns[IF j < i THEN j ELSE j + 1]
    <3>1. pendingTurns \in Seq(Nat) /\ pendingTurns' = WithoutAt(pendingTurns, i)
      BY <1>8 DEF CancelQueuedTurn, ClockTypeOK
    <3> QED
      BY <1>8, <3>1 DEF WithoutAt
  <2>4. UNCHANGED <<durable, reserved, activeTurn, turnState, ending, clockCaller, recorded, overlapped>>
    BY <1>8 DEF CancelQueuedTurn
  <2>5. Len(pendingTurns) \in Nat /\ Len(pendingTurns') \in Nat
    BY <2>3 DEF ClockTypeOK
  <2>6. ClockTypeOK'
    BY <2>1, <2>3, <2>4 DEF ClockTypeOK, durable
  <2> DEFINE old(j) == IF j < i THEN j ELSE j + 1
  <2>a. \A j \in 1 .. Len(pendingTurns') : pendingTurns'[j] = pendingTurns[old(j)]
    BY <2>3
  <2>b. \A j \in 1 .. Len(pendingTurns') : old(j) \in 1 .. Len(pendingTurns)
    BY <2>3, <2>5
  <2>c. \A j, k \in 1 .. Len(pendingTurns') : j # k => old(j) # old(k)
    BY <2>5
  <2>d. \A id : Waiting(id)' => Waiting(id)
    BY <2>4, <2>a, <2>b DEF Waiting
  <2> HIDE DEF old
  <2>7. IdsBelowCounters'
    BY <2>4, <2>a, <2>b DEF IdsBelowCounters, durable
  <2>8. TurnIdsNeverReused'
    <3>1. \A j, k \in 1 .. Len(pendingTurns') : j # k => pendingTurns'[j] # pendingTurns'[k]
      BY <2>a, <2>b, <2>c DEF TurnIdsNeverReused
    <3>2. \A c \in ClockCallers, j \in 1 .. Len(pendingTurns') :
             clockCaller'[c].pc = "reserved" => clockCaller'[c].id # pendingTurns'[j]
      BY <2>4, <2>a, <2>b DEF TurnIdsNeverReused
    <3>3. \A id \in recorded' \cup {activeTurn'} : ~Waiting(id)'
      BY <2>4, <2>d DEF TurnIdsNeverReused
    <3> QED
      BY <2>4, <3>1, <3>2, <3>3 DEF TurnIdsNeverReused
  <2> QED
    BY <2>6, <2>7, <2>8
<1>9. CASE ReleaseTurn
  BY <1>9 DEF ReleaseTurn, ClockTypeOK, TurnIdsNeverReused, IdsBelowCounters, Waiting, durable
<1>10. ASSUME NEW id \in ending, EndTurn(id) PROVE ClockInv'
  BY <1>10 DEF EndTurn, ClockTypeOK, TurnIdsNeverReused, IdsBelowCounters, Waiting
<1>11. CASE Restart
  BY <1>11 DEF Restart, ClockTypeOK, TurnIdsNeverReused, IdsBelowCounters, Waiting, durable, IdleCaller
<1>12. CASE UNCHANGED clockVars
  BY <1>12 DEF clockVars, ClockTypeOK, TurnIdsNeverReused, IdsBelowCounters, Waiting
<1> QED
  BY <1>1, <1>2, <1>3, <1>4, <1>5, <1>6, <1>7, <1>8, <1>9, <1>10, <1>11, <1>12, <1>7b DEF ClockNext

\* The turn clock's variables keep their types under any interleaving of
\* enqueue callers, turn workers, cancellations and restarts.
THEOREM ClockTypeCorrect == ClockSpec => []ClockTypeOK
<1>1. ClockInv => ClockTypeOK
  BY DEF ClockInv
<1> QED
  BY ClockInvInit, ClockInvStep, <1>1, PTL DEF ClockSpec

\* No turn id is handed out twice, and none that the log already carries:
\* reserve_turn_id (loop_service.rs) is safe for any number of concurrent
\* callers and any number of restarts.
THEOREM IdsFresh == ClockSpec => []TurnIdsNeverReused
<1>1. ClockInv => TurnIdsNeverReused
  BY DEF ClockInv
<1> QED
  BY ClockInvInit, ClockInvStep, <1>1, PTL DEF ClockSpec

-----------------------------------------------------------------------------
(***************************************************************************)
(* StartedTurnsAreCounted.  The clock never stands at a cancelled id, so   *)
(* turn.prompt counts the active turn if that is not above the clock; and  *)
(* a claimed turn is not, because every id that was handed out and that    *)
(* the clock has not passed is still cancelled, being cancelled, queued or *)
(* about to be, and the queue is in the order of the ids.                  *)
(***************************************************************************)
CancelledAhead == \A id \in cancelledTurnIds : id > nextTurnId

ReadIsPassed == \A c \in ClockCallers : clockCaller[c].pc = "read" => clockCaller[c].id <= nextTurnId

OneCaller == \A c, d \in ClockCallers : clockCaller[c].pc # "idle" /\ clockCaller[d].pc # "idle" => c = d

InOrder ==
    /\ \A i, j \in 1 .. Len(pendingTurns) : i < j => pendingTurns[i] < pendingTurns[j]
    /\ \A c \in ClockCallers, i \in 1 .. Len(pendingTurns) :
          clockCaller[c].pc = "reserved" => pendingTurns[i] < clockCaller[c].id

HandedOut ==
    \A m \in Nat : nextTurnId <= m /\ m < reserved =>
        \/ m \in cancelledTurnIds \cup cancelling
        \/ Waiting(m)
        \/ turnState = "queued" /\ m = activeTurn

ClaimedIsNext == turnState = "queued" => activeTurn <= nextTurnId

StartedPassed ==
    /\ turnState = "running" => activeTurn < nextTurnId
    /\ \A id \in ending : id < nextTurnId
    /\ lastEnded < nextTurnId

CountedInv ==
    /\ CancelledAhead /\ ReadIsPassed
    /\ overlapped = "no" => OneCaller /\ InOrder /\ HandedOut /\ ClaimedIsNext /\ StartedPassed

-----------------------------------------------------------------------------
\* The least-number principle, from the well-foundedness of < on Nat.
LEMMA LeastNumber ==
    ASSUME NEW T, T \subseteq Nat, T # {}
    PROVE  \E x \in T : \A y \in T : x <= y
  <1> DEFINE R == OpToRel(<, Nat)
  <1>1. IsWellFoundedOn(R, Nat)
    BY NatLessThanWellFounded
  <1>2. \A x, y \in Nat : <<y, x>> \in R <=> y < x
    BY DEF OpToRel
  <1> HIDE DEF R
  <1>3. PICK x \in T : \A y \in T : ~(<<y, x>> \in R)
    BY <1>1, WFMin
  <1>4. ASSUME NEW y \in T PROVE x <= y
    <2>1. x \in Nat /\ y \in Nat
      OBVIOUS
    <2>2. ~(y < x)
      BY <2>1, <1>2, <1>3
    <2> QED BY <2>1, <2>2
  <1> QED BY <1>4

\* Above any number there is one that is not cancelled, and a first one.
LEMMA FirstFree ==
    ASSUME NEW next \in Nat, NEW S \in SUBSET Nat, IsFiniteSet(S)
    PROVE  \E k \in Nat : /\ k >= next /\ k \notin S
                          /\ \A m \in next .. k - 1 : m \in S
  <1> DEFINE T == {m \in Nat : m >= next /\ m \notin S}
             n == Cardinality(S)
  <1>1. n \in Nat
    BY FS_CardinalityType
  <1>2. T # {}
    <2> SUFFICES ASSUME T = {} PROVE FALSE
      OBVIOUS
    <2> DEFINE I == next .. next + n
    <2>1. I \in SUBSET S
      BY <1>1
    <2>2. Cardinality(I) = n + 1
      <3>1. next \in Int /\ next + n \in Int
        BY <1>1
      <3> HIDE DEF n
      <3>2. PICK b \in Int : b = next + n
        BY <3>1
      <3>3. Cardinality(next .. b) = IF next > b THEN 0 ELSE b - next + 1
        BY <3>1, FS_Interval
      <3> QED BY <3>2, <3>3, <1>1
    <2>3. Cardinality(I) <= n
      BY <2>1, FS_Subset
    <2> HIDE DEF I, n
    <2> QED BY <1>1, <2>2, <2>3
  <1>3. T \subseteq Nat
    OBVIOUS
  <1> HIDE DEF T
  <1>4. PICK k \in T : \A y \in T : k <= y
    BY <1>2, <1>3, LeastNumber
  <1>5. k \in Nat /\ k >= next /\ k \notin S
    BY DEF T
  <1>6. ASSUME NEW m \in next .. k - 1 PROVE m \in S
    <2>1. m \in Nat /\ m >= next /\ ~(k <= m)
      BY <1>5
    <2>2. m \notin T
      BY <2>1, <1>4
    <2> QED BY <2>1, <2>2 DEF T
  <1> QED BY <1>5, <1>6

\* advance_turn_clock stops at the first id that is not cancelled, and keeps
\* every cancellation above it.
LEMMA AdvanceClockStops ==
    ASSUME NEW next \in Nat, NEW S \in SUBSET Nat, IsFiniteSet(S),
           AdvanceClock(next, S)
    PROVE  /\ nextTurnId' \in Nat /\ nextTurnId' >= next
           /\ \A id \in cancelledTurnIds' : id \in Nat /\ id > nextTurnId'
           /\ \A id \in S : id >= nextTurnId' => id \in cancelledTurnIds'
  <1>1. PICK k \in Nat : k >= next /\ k \notin S /\ \A m \in next .. k - 1 : m \in S
    BY FirstFree
  <1> DEFINE run == CancelledRun(next, S)
  <1>2. run = next .. k - 1
    <2>1. ASSUME NEW id \in run PROVE id \in next .. k - 1
      <3>1. id \in Nat /\ id >= next /\ \A m \in next .. id : m \in S
        BY <2>1 DEF CancelledRun
      <3>2. ~(k <= id)
        <4> SUFFICES ASSUME k <= id PROVE FALSE
          OBVIOUS
        <4>1. k \in next .. id
          BY <3>1, <1>1
        <4> QED BY <4>1, <3>1, <1>1
      <3> QED BY <3>1, <3>2
    <2>2. ASSUME NEW id \in next .. k - 1 PROVE id \in run
      <3>1. id \in S /\ id >= next /\ \A m \in next .. id : m \in next .. k - 1
        BY <2>2, <1>1
      <3> QED BY <3>1, <1>1 DEF CancelledRun
    <2> HIDE DEF run
    <2> QED BY <2>1, <2>2
  <1>3. Cardinality(run) = k - next
    <2>1. next \in Int /\ k - 1 \in Int
      OBVIOUS
    <2>2. Cardinality(next .. k - 1) = IF next > k - 1 THEN 0 ELSE k - 1 - next + 1
      BY <2>1, FS_Interval
    <2>3. Cardinality(next .. k - 1) = k - next
      BY <2>2, <1>1
    <2> HIDE DEF run
    <2> QED BY <2>3, <1>2
  <1>4. nextTurnId' = next + Cardinality(run) /\ cancelledTurnIds' = {id \in S : id >= next} \ run
    BY DEF AdvanceClock
  <1> HIDE DEF run
  <1>5. nextTurnId' = k
    BY <1>1, <1>3, <1>4
  <1>6. ASSUME NEW id \in cancelledTurnIds' PROVE id \in Nat /\ id > k
    <2>1. id \in S /\ id \in Nat /\ id >= next /\ ~(id \in next .. k - 1)
      BY <1>2, <1>4
    <2>2. id # k
      BY <2>1, <1>1
    <2> QED BY <2>1, <2>2, <1>1
  <1>7. ASSUME NEW id \in S, id >= k PROVE id \in cancelledTurnIds'
    <2>1. id \in Nat /\ id >= next /\ ~(id \in next .. k - 1)
      BY <1>7, <1>1
    <2> QED BY <2>1, <1>2, <1>4
  <1> QED BY <1>1, <1>5, <1>6, <1>7

\* The same for a turn.cancel record.
LEMMA ApplyCancelStops ==
    ASSUME ClockTypeOK, CancelledAhead, NEW id \in Nat, ApplyCancel(id)
    PROVE  /\ nextTurnId' \in Nat /\ nextTurnId' >= nextTurnId
           /\ CancelledAhead'
           /\ \A m \in cancelledTurnIds \cup {id} : m >= nextTurnId' => m \in cancelledTurnIds'
<1>1. CASE id < nextTurnId
  <2>1. nextTurnId' = nextTurnId /\ cancelledTurnIds' = cancelledTurnIds
    BY <1>1 DEF ApplyCancel
  <2> QED
    BY <1>1, <2>1 DEF ClockTypeOK, CancelledAhead
<1>2. CASE ~(id < nextTurnId)
  <2>1. AdvanceClock(nextTurnId, cancelledTurnIds \cup {id})
    BY <1>2 DEF ApplyCancel
  <2>2. IsFiniteSet(cancelledTurnIds \cup {id}) /\ cancelledTurnIds \cup {id} \in SUBSET Nat
        /\ nextTurnId \in Nat
    BY FS_AddElement DEF ClockTypeOK
  <2> QED
    BY <2>1, <2>2, AdvanceClockStops DEF CancelledAhead
<1> QED
  BY <1>1, <1>2

-----------------------------------------------------------------------------
LEMMA CountedInit == ClockInit => CountedInv
  BY DEF ClockInit, CountedInv, CancelledAhead, ReadIsPassed, OneCaller, InOrder, HandedOut, ClaimedIsNext,
         StartedPassed, IdleCaller, None

\* The clock only moves forward, so what it has passed stays passed.
LEMMA PassedStays ==
    ASSUME ClockTypeOK, nextTurnId' \in Nat, nextTurnId' >= nextTurnId,
           turnState' = turnState, activeTurn' = activeTurn, ending' = ending, lastEnded' = lastEnded
    PROVE  /\ StartedPassed => StartedPassed'
           /\ ClaimedIsNext => ClaimedIsNext'
  BY DEF ClockTypeOK, None, StartedPassed, ClaimedIsNext

\* Every step keeps it, one case per action.
LEMMA CountedStep == ClockInv /\ ClockInv' /\ CountedInv /\ [ClockNext]_clockVars => CountedInv'
<1> SUFFICES ASSUME ClockInv, ClockInv', CountedInv, [ClockNext]_clockVars PROVE CountedInv'
  OBVIOUS
<1> DEFINE Goal == OneCaller /\ InOrder /\ HandedOut /\ ClaimedIsNext /\ StartedPassed
<1>0. ClockTypeOK /\ ClockTypeOK' /\ IdsBelowCounters
  BY DEF ClockInv
<1>a. CancelledAhead /\ ReadIsPassed /\ (overlapped = "no" => Goal)
  BY DEF CountedInv
<1>b. nextTurnId \in Nat /\ nextTurnId' \in Nat
  BY <1>0 DEF ClockTypeOK
<1>c. clockCaller \in [ClockCallers -> [pc : {"idle", "read", "reserved"}, id : Nat \cup {None}]]
  BY <1>0 DEF ClockTypeOK
<1> USE DEF None
<1>1. ASSUME NEW c \in ClockCallers, ReadClock(c) PROVE CountedInv'
  <2>1. /\ clockCaller[c].pc = "idle" /\ clockCaller'[c] = [pc |-> "read", id |-> nextTurnId]
        /\ \A d \in ClockCallers : d # c => clockCaller'[d] = clockCaller[d]
        /\ UNCHANGED <<nextTurnId, cancelledTurnIds, lastEnded, reserved, pendingTurns, activeTurn, turnState,
                       ending, cancelling>>
    BY <1>1, <1>c DEF ReadClock, durable
  <2>2. CancelledAhead' /\ ReadIsPassed'
    BY <2>1, <1>a, <1>b DEF CancelledAhead, ReadIsPassed
  <2>3. ASSUME overlapped' = "no" PROVE Goal'
    <3>1. overlapped = "no" /\ \A d \in ClockCallers : clockCaller[d].pc = "idle"
      BY <1>1, <2>3 DEF ReadClock, Overlap
    <3>2. OneCaller' /\ InOrder'
      BY <2>1, <3>1, <1>a DEF OneCaller, InOrder
    <3>3. \A m : Waiting(m) => Waiting(m)'
      BY <2>1, <3>1 DEF Waiting
    <3>4. HandedOut'
      BY <2>1, <3>1, <3>3, <1>a DEF HandedOut
    <3>5. ClaimedIsNext' /\ StartedPassed'
      BY <2>1, <3>1, <1>a DEF ClaimedIsNext, StartedPassed
    <3> QED BY <3>2, <3>4, <3>5
  <2> QED BY <2>2, <2>3 DEF CountedInv
<1>2. ASSUME NEW c \in ClockCallers, ReserveTurnId(c) PROVE CountedInv'
  <2> DEFINE modelNext == clockCaller[c].id
             id == IF reserved > modelNext THEN reserved ELSE modelNext
  <2>1. /\ clockCaller[c].pc = "read" /\ modelNext \in Nat /\ reserved \in Nat \cup {-1}
        /\ id \in Nat /\ id >= reserved /\ id >= modelNext /\ (id = reserved \/ id = modelNext)
    BY <1>2, <1>0 DEF ReserveTurnId, ClockTypeOK, IdsBelowCounters
  <2>2. /\ reserved' = id + 1
        /\ clockCaller' = [clockCaller EXCEPT ![c] = [pc |-> "reserved", id |-> id]]
        /\ UNCHANGED <<nextTurnId, cancelledTurnIds, lastEnded, pendingTurns, activeTurn, turnState,
                       ending, cancelling, overlapped>>
    BY <1>2 DEF ReserveTurnId, durable
  <2>3. modelNext <= nextTurnId
    BY <2>1, <1>a DEF ReadIsPassed
  <2>4. \A i \in 1 .. Len(pendingTurns) : pendingTurns[i] \in Nat /\ pendingTurns[i] < reserved
    BY <1>0 DEF IdsBelowCounters, ClockTypeOK
  <2> HIDE DEF id
  <2>5. clockCaller'[c] = [pc |-> "reserved", id |-> id]
        /\ \A d \in ClockCallers : d # c => clockCaller'[d] = clockCaller[d]
    BY <2>2, <1>c
  <2> HIDE DEF modelNext
  <2>6. CancelledAhead' /\ ReadIsPassed'
    BY <2>2, <2>5, <1>a, <1>b DEF CancelledAhead, ReadIsPassed
  <2>7. ASSUME overlapped' = "no" PROVE Goal'
    <3>1. overlapped = "no" /\ \A d \in ClockCallers : d # c => clockCaller[d].pc = "idle"
      BY <2>1, <2>2, <2>7, <1>a DEF OneCaller
    <3>2. OneCaller'
      BY <2>5, <3>1 DEF OneCaller
    <3>3. InOrder'
      <4>1. \A i \in 1 .. Len(pendingTurns) : pendingTurns[i] < id
        BY <2>1, <2>4
      <4> QED BY <2>2, <2>5, <3>1, <4>1, <1>a DEF InOrder
    <3>4. \A m : m = id \/ Waiting(m) => Waiting(m)'
      BY <2>1, <2>2, <2>5, <3>1 DEF Waiting
    <3>5. HandedOut'
      <4> SUFFICES ASSUME NEW m \in Nat, nextTurnId <= m, m < id + 1
                   PROVE  \/ m \in cancelledTurnIds \cup cancelling
                          \/ Waiting(m)'
                          \/ turnState = "queued" /\ m = activeTurn
        BY <2>2 DEF HandedOut
      <4>1. m = id \/ m < reserved
        BY <2>1, <2>3, <1>b
      <4>2. CASE m = id
        BY <4>2, <3>4
      <4>3. CASE m < reserved
        BY <4>3, <3>1, <3>4, <1>a DEF HandedOut
      <4> QED BY <4>1, <4>2, <4>3
    <3>6. ClaimedIsNext' /\ StartedPassed'
      BY <2>2, <3>1, <1>a DEF ClaimedIsNext, StartedPassed
    <3> QED BY <3>2, <3>3, <3>5, <3>6
  <2> QED BY <2>6, <2>7 DEF CountedInv
<1>3. ASSUME NEW c \in ClockCallers, QueueTurn(c) PROVE CountedInv'
  <2> DEFINE n == Len(pendingTurns)
             id == clockCaller[c].id
  <2>1. id \in Nat /\ clockCaller[c].pc = "reserved"
    BY <1>3, <1>0 DEF QueueTurn, IdsBelowCounters
  <2>2. /\ n \in Nat /\ Len(pendingTurns') = n + 1
        /\ \A i \in 1 .. n : pendingTurns'[i] = pendingTurns[i]
        /\ pendingTurns'[n + 1] = id
    BY <1>3, <2>1, <1>0 DEF QueueTurn, ClockTypeOK
  <2>3. UNCHANGED <<nextTurnId, cancelledTurnIds, lastEnded, reserved, activeTurn, turnState,
                    ending, cancelling, overlapped>>
    BY <1>3 DEF QueueTurn, durable
  <2>4. clockCaller'[c].pc = "idle" /\ \A d \in ClockCallers : d # c => clockCaller'[d] = clockCaller[d]
    BY <1>3, <1>c DEF QueueTurn, IdleCaller
  <2>5. \A i \in 1 .. Len(pendingTurns') : (i \in 1 .. n /\ pendingTurns'[i] = pendingTurns[i])
                                           \/ (i = n + 1 /\ pendingTurns'[i] = id)
    BY <2>2
  <2> HIDE DEF n, id
  <2>6. CancelledAhead' /\ ReadIsPassed'
    BY <2>3, <2>4, <1>a, <1>b DEF CancelledAhead, ReadIsPassed
  <2>7. ASSUME overlapped' = "no" PROVE Goal'
    <3>1. overlapped = "no" /\ \A d \in ClockCallers : clockCaller'[d].pc = "idle"
      BY <2>1, <2>3, <2>4, <2>7, <1>a DEF OneCaller
    <3>2. OneCaller'
      BY <3>1 DEF OneCaller
    <3>3. InOrder'
      <4>1. \A i \in 1 .. n : pendingTurns[i] < id
        BY <2>1, <3>1, <1>a DEF InOrder, n, id
      <4>2. \A i, j \in 1 .. n : i < j => pendingTurns[i] < pendingTurns[j]
        BY <3>1, <1>a DEF InOrder, n
      <4>3. \A i, j \in 1 .. Len(pendingTurns') : i < j => pendingTurns'[i] < pendingTurns'[j]
        BY <2>2, <2>5, <4>1, <4>2
      <4> QED BY <3>1, <4>3 DEF InOrder
    <3>4. ASSUME NEW m, Waiting(m) PROVE Waiting(m)'
      <4>1. CASE \E d \in ClockCallers : clockCaller[d].pc = "reserved" /\ clockCaller[d].id = m
        <5>1. m = id
          BY <4>1, <2>1, <3>1, <1>a DEF OneCaller, id
        <5>2. n + 1 \in 1 .. Len(pendingTurns')
          BY <2>2
        <5> QED BY <5>1, <5>2, <2>2 DEF Waiting
      <4>2. CASE \E i \in 1 .. Len(pendingTurns) : pendingTurns[i] = m
        <5>1. PICK i \in 1 .. n : pendingTurns[i] = m
          BY <4>2 DEF n
        <5>2. i \in 1 .. Len(pendingTurns')
          BY <2>2
        <5> QED BY <5>1, <5>2, <2>2 DEF Waiting
      <4> QED BY <3>4, <4>1, <4>2 DEF Waiting
    <3>5. HandedOut'
      BY <2>3, <3>1, <3>4, <1>a DEF HandedOut
    <3>6. ClaimedIsNext' /\ StartedPassed'
      BY <2>3, <3>1, <1>a DEF ClaimedIsNext, StartedPassed
    <3> QED BY <3>2, <3>3, <3>5, <3>6
  <2> QED BY <2>6, <2>7 DEF CountedInv
<1>4. CASE ClaimTurn
  <2> DEFINE h == pendingTurns[1]
  <2>1. /\ 1 \in 1 .. Len(pendingTurns) /\ h \in Nat /\ activeTurn' = h /\ turnState' = "queued"
        /\ Len(pendingTurns) \in Nat /\ Len(pendingTurns') = Len(pendingTurns) - 1
        /\ \A i \in 1 .. Len(pendingTurns') : pendingTurns'[i] = pendingTurns[i + 1]
        /\ turnState = "none"
    BY <1>4, <1>0 DEF ClaimTurn, ClockTypeOK
  <2>2. /\ UNCHANGED <<nextTurnId, cancelledTurnIds, lastEnded, reserved, ending, cancelling, clockCaller>>
        /\ overlapped' = "no" => overlapped = "no" /\ cancelling = {}
    BY <1>4 DEF ClaimTurn, Overlap, durable
  <2>3. \A i \in 1 .. Len(pendingTurns') :
          i + 1 \in 1 .. Len(pendingTurns) /\ pendingTurns'[i] = pendingTurns[i + 1]
    BY <2>1
  <2>4. \A i \in 1 .. Len(pendingTurns) : i = 1 \/ (i - 1 \in 1 .. Len(pendingTurns') /\ (i - 1) + 1 = i)
    BY <2>1
  <2>5. CancelledAhead' /\ ReadIsPassed'
    BY <2>2, <1>a, <1>b DEF CancelledAhead, ReadIsPassed
  <2> HIDE DEF h
  <2>6. ASSUME overlapped' = "no" PROVE Goal'
    <3>1. overlapped = "no" /\ cancelling = {}
      BY <2>2, <2>6
    <3>2. OneCaller'
      BY <2>2, <3>1, <1>a DEF OneCaller
    <3>3. InOrder'
      <4>1. \A i, j \in Int : i < j => i + 1 < j + 1
        OBVIOUS
      <4> QED BY <2>2, <2>3, <3>1, <4>1, <1>a DEF InOrder
    <3>4. ASSUME NEW m, Waiting(m) PROVE Waiting(m)' \/ m = h
      <4>1. CASE \E d \in ClockCallers : clockCaller[d].pc = "reserved" /\ clockCaller[d].id = m
        BY <4>1, <2>2 DEF Waiting
      <4>2. CASE \E i \in 1 .. Len(pendingTurns) : pendingTurns[i] = m
        <5>1. PICK i \in 1 .. Len(pendingTurns) : pendingTurns[i] = m
          BY <4>2
        <5>2. CASE i = 1
          BY <5>1, <5>2 DEF h
        <5>3. CASE i # 1
          <6>1. i - 1 \in 1 .. Len(pendingTurns') /\ pendingTurns'[i - 1] = pendingTurns[i]
            BY <5>3, <2>1, <2>4
          <6> QED BY <6>1, <5>1 DEF Waiting
        <5> QED BY <5>2, <5>3
      <4> QED BY <3>4, <4>1, <4>2 DEF Waiting
    <3>5. HandedOut'
      BY <2>1, <2>2, <3>1, <3>4, <1>a DEF HandedOut
    <3>6. h <= nextTurnId
      <4> SUFFICES ASSUME nextTurnId < h PROVE FALSE
        BY <2>1, <1>b
      <4>1. h < reserved /\ reserved \in Nat \cup {-1}
        BY <2>1, <1>0 DEF IdsBelowCounters, ClockTypeOK, h
      <4>2. nextTurnId < reserved
        BY <4>1, <2>1, <1>b
      <4>3. nextTurnId \notin cancelledTurnIds
        BY <1>a, <1>b DEF CancelledAhead
      <4>4. Waiting(nextTurnId)
        BY <2>1, <3>1, <4>2, <4>3, <1>a, <1>b DEF HandedOut
      <4>5. ASSUME NEW i \in 1 .. Len(pendingTurns) PROVE h <= pendingTurns[i]
        <5>1. pendingTurns[i] \in Nat /\ (i = 1 \/ 1 < i)
          BY <1>0 DEF ClockTypeOK
        <5>2. 1 < i => pendingTurns[1] < pendingTurns[i]
          BY <2>1, <3>1, <1>a DEF InOrder
        <5> QED BY <5>1, <5>2, <2>1 DEF h
      <4>6. \A d \in ClockCallers : clockCaller[d].pc = "reserved" => h < clockCaller[d].id
        BY <2>1, <3>1, <1>a DEF InOrder, h
      <4> QED BY <2>1, <4>4, <4>5, <4>6, <1>b DEF Waiting
    <3>7. ClaimedIsNext' /\ StartedPassed'
      BY <2>1, <2>2, <3>1, <3>6, <1>a DEF ClaimedIsNext, StartedPassed
    <3> QED BY <3>2, <3>3, <3>5, <3>7
  <2> QED BY <2>5, <2>6 DEF CountedInv
<1>5. CASE PromptTurn
  <2>1. /\ nextTurnId' >= nextTurnId + 1
        /\ CancelledAhead'
        /\ \A id \in cancelledTurnIds : id >= nextTurnId' => id \in cancelledTurnIds'
    <3>1. nextTurnId + 1 \in Nat /\ cancelledTurnIds \in SUBSET Nat
          /\ IsFiniteSet(cancelledTurnIds) /\ AdvanceClock(nextTurnId + 1, cancelledTurnIds)
      BY <1>5, <1>0 DEF PromptTurn, ClockTypeOK
    <3> QED
      BY <3>1, AdvanceClockStops DEF CancelledAhead
  <2>2. /\ turnState = "queued" /\ turnState' = "running"
        /\ UNCHANGED <<lastEnded, reserved, pendingTurns, activeTurn, ending, cancelling, clockCaller, overlapped>>
    BY <1>5 DEF PromptTurn
  <2>3. ReadIsPassed'
    <3>1. \A c \in ClockCallers : clockCaller[c].pc = "read" => clockCaller[c].id \in Nat
      BY <1>0 DEF IdsBelowCounters
    <3> QED BY <3>1, <2>1, <2>2, <1>a, <1>b DEF ReadIsPassed
  <2>4. ASSUME overlapped = "no" PROVE Goal'
    <3>1. OneCaller' /\ InOrder'
      BY <2>2, <2>4, <1>a DEF OneCaller, InOrder
    <3>2. activeTurn \in Nat \cup {-1} /\ activeTurn <= nextTurnId
      BY <2>2, <2>4, <1>a, <1>0 DEF ClaimedIsNext, ClockTypeOK
    <3>3. \A m : Waiting(m) => Waiting(m)'
      BY <2>2 DEF Waiting
    <3>4. HandedOut'
      <4> SUFFICES ASSUME NEW m \in Nat, nextTurnId' <= m, m < reserved
                   PROVE  m \in cancelledTurnIds' \cup cancelling \/ Waiting(m)'
        BY <2>2 DEF HandedOut
      <4>1. nextTurnId <= m /\ m # activeTurn
        BY <2>1, <3>2, <1>b
      <4>2. m \in cancelledTurnIds \cup cancelling \/ Waiting(m)
        BY <4>1, <2>4, <1>a DEF HandedOut
      <4> QED BY <4>2, <2>1, <3>3, <1>b
    <3>5. ClaimedIsNext'
      BY <2>2 DEF ClaimedIsNext
    <3>6. StartedPassed'
      <4>1. StartedPassed
        BY <2>4, <1>a
      <4> QED BY <4>1, <2>1, <2>2, <3>2, <1>b, <1>0 DEF StartedPassed, ClockTypeOK
    <3> QED BY <3>1, <3>4, <3>5, <3>6
  <2> QED BY <2>1, <2>2, <2>3, <2>4 DEF CountedInv
<1>6. CASE AppendLoopEvent
  <2>1. activeTurn \in Nat /\ turnState = "running" /\ ObserveTurnId(activeTurn)
    BY <1>6, <1>0 DEF AppendLoopEvent, ClockTypeOK
  <2>2. UNCHANGED <<reserved, pendingTurns, activeTurn, turnState, ending, cancelling, clockCaller, overlapped>>
    BY <1>6 DEF AppendLoopEvent, memory
  <2>3. CancelledAhead' /\ nextTurnId' >= nextTurnId
    <3>1. CASE activeTurn >= nextTurnId
      <4>1. AdvanceClock(activeTurn + 1, cancelledTurnIds) /\ activeTurn + 1 \in Nat
            /\ cancelledTurnIds \in SUBSET Nat /\ IsFiniteSet(cancelledTurnIds)
        BY <3>1, <2>1, <1>0 DEF ObserveTurnId, ClockTypeOK
      <4>2. nextTurnId' >= activeTurn + 1 /\ CancelledAhead'
        BY <4>1, AdvanceClockStops DEF CancelledAhead
      <4> QED BY <4>2, <3>1, <2>1, <1>b
    <3>2. CASE ~(activeTurn >= nextTurnId)
      BY <3>2, <2>1, <1>a, <1>b DEF ObserveTurnId, CancelledAhead
    <3> QED BY <3>1, <3>2
  <2>4. ReadIsPassed'
    <3>1. \A c \in ClockCallers : clockCaller[c].pc = "read" => clockCaller[c].id \in Nat
      BY <1>0 DEF IdsBelowCounters
    <3> QED BY <3>1, <2>2, <2>3, <1>a, <1>b DEF ReadIsPassed
  <2>5. ASSUME overlapped = "no" PROVE Goal'
    <3>1. activeTurn < nextTurnId
      BY <2>1, <2>5, <1>a DEF StartedPassed
    <3>2. UNCHANGED <<nextTurnId, cancelledTurnIds>> /\ lastEnded' \in {lastEnded, None}
      BY <2>1, <3>1, <1>b DEF ObserveTurnId
    <3>3. OneCaller' /\ InOrder'
      BY <2>2, <2>5, <1>a DEF OneCaller, InOrder
    <3>4. \A m : Waiting(m) => Waiting(m)'
      BY <2>2 DEF Waiting
    <3>5. HandedOut'
      BY <2>2, <2>5, <3>2, <3>4, <1>a DEF HandedOut
    <3>6. ClaimedIsNext' /\ StartedPassed'
      BY <2>2, <2>5, <3>2, <1>a, <1>b DEF ClaimedIsNext, StartedPassed
    <3> QED BY <3>3, <3>5, <3>6
  <2> QED BY <2>2, <2>3, <2>4, <2>5 DEF CountedInv
<1>7. CASE CancelActiveTurn
  <2>1. /\ cancelling \subseteq cancelling'
        /\ UNCHANGED <<nextTurnId, cancelledTurnIds, lastEnded, reserved, pendingTurns, activeTurn, turnState,
                       ending, clockCaller, overlapped>>
    BY <1>7 DEF CancelActiveTurn, durable
  <2>2. \A m : Waiting(m) => Waiting(m)'
    BY <2>1 DEF Waiting
  <2>3. HandedOut => HandedOut'
    BY <2>1, <2>2 DEF HandedOut
  <2> QED BY <2>1, <2>3, <1>a DEF CountedInv, CancelledAhead, ReadIsPassed, OneCaller, InOrder, ClaimedIsNext,
                                  StartedPassed
<1>8. ASSUME NEW i \in 1 .. Len(pendingTurns), CancelQueuedTurn(i) PROVE CountedInv'
  <2>1. /\ cancelling' = cancelling \cup {pendingTurns[i]}
        /\ UNCHANGED <<nextTurnId, cancelledTurnIds, lastEnded, reserved, activeTurn, turnState,
                       ending, clockCaller, overlapped>>
    BY <1>8 DEF CancelQueuedTurn, durable
  <2>2. /\ Len(pendingTurns) \in Nat /\ Len(pendingTurns') = Len(pendingTurns) - 1
        /\ \A j \in 1 .. Len(pendingTurns') :
             pendingTurns'[j] = pendingTurns[IF j < i THEN j ELSE j + 1]
    <3>1. pendingTurns \in Seq(Nat) /\ pendingTurns' = WithoutAt(pendingTurns, i)
      BY <1>8, <1>0 DEF CancelQueuedTurn, ClockTypeOK
    <3> QED
      BY <1>8, <3>1 DEF WithoutAt
  <2> DEFINE old(j) == IF j < i THEN j ELSE j + 1
             new(k) == IF k < i THEN k ELSE k - 1
  <2>3. \A j \in 1 .. Len(pendingTurns') : pendingTurns'[j] = pendingTurns[old(j)]
    BY <2>2
  <2>4. \A j \in 1 .. Len(pendingTurns') : old(j) \in 1 .. Len(pendingTurns)
    BY <2>2
  <2>5. \A j, k \in 1 .. Len(pendingTurns') : j < k => old(j) < old(k)
    BY <2>2
  <2>6. \A k \in 1 .. Len(pendingTurns) : k # i => new(k) \in 1 .. Len(pendingTurns') /\ old(new(k)) = k
    BY <2>2
  <2> HIDE DEF old, new
  <2>7. \A m : Waiting(m) => Waiting(m)' \/ m \in cancelling'
    BY <2>1, <2>3, <2>6 DEF Waiting
  <2>8. HandedOut => HandedOut'
    BY <2>1, <2>7 DEF HandedOut
  <2>9. InOrder => InOrder'
    BY <2>1, <2>3, <2>4, <2>5 DEF InOrder
  <2> QED BY <2>1, <2>8, <2>9, <1>a DEF CountedInv, CancelledAhead, ReadIsPassed, OneCaller, ClaimedIsNext,
                                        StartedPassed
<1>9. ASSUME NEW id \in cancelling, DispatchCancel(id) PROVE CountedInv'
  <2>1. /\ id \in Nat /\ ApplyCancel(id) /\ cancelling' = cancelling \ {id}
        /\ UNCHANGED <<lastEnded, reserved, pendingTurns, activeTurn, turnState, ending, clockCaller, overlapped>>
    BY <1>9, <1>0 DEF DispatchCancel, ClockTypeOK
  <2>2. /\ nextTurnId' >= nextTurnId /\ CancelledAhead'
        /\ \A m \in cancelledTurnIds \cup {id} : m >= nextTurnId' => m \in cancelledTurnIds'
    BY <2>1, <1>0, <1>a, ApplyCancelStops
  <2>3. ReadIsPassed'
    <3>1. \A c \in ClockCallers : clockCaller[c].pc = "read" => clockCaller[c].id \in Nat
      BY <1>0 DEF IdsBelowCounters
    <3> QED BY <3>1, <2>1, <2>2, <1>a, <1>b DEF ReadIsPassed
  <2>4. ASSUME overlapped = "no" PROVE Goal'
    <3>1. OneCaller' /\ InOrder'
      BY <2>1, <2>4, <1>a DEF OneCaller, InOrder
    <3>2. \A m : Waiting(m) => Waiting(m)'
      BY <2>1 DEF Waiting
    <3>3. HandedOut'
      <4> SUFFICES ASSUME NEW m \in Nat, nextTurnId' <= m, m < reserved
                   PROVE  \/ m \in cancelledTurnIds' \cup cancelling' \/ Waiting(m)'
                          \/ turnState = "queued" /\ m = activeTurn
        BY <2>1 DEF HandedOut
      <4>1. nextTurnId <= m
        BY <2>2, <1>b
      <4>2. \/ m \in cancelledTurnIds \cup cancelling \/ Waiting(m)
            \/ turnState = "queued" /\ m = activeTurn
        BY <4>1, <2>4, <1>a DEF HandedOut
      <4>3. m >= nextTurnId'
        BY <1>b
      <4> QED BY <4>2, <4>3, <2>1, <2>2, <3>2
    <3>4. ClaimedIsNext' /\ StartedPassed'
      BY <2>1, <2>2, <2>4, <1>0, <1>a, <1>b, PassedStays
    <3> QED BY <3>1, <3>3, <3>4
  <2> QED BY <2>1, <2>2, <2>3, <2>4 DEF CountedInv
<1>10. CASE ReleaseTurn
  <2>1. /\ turnState = "running" /\ turnState' = "none" /\ ending' = ending \cup {activeTurn}
        /\ UNCHANGED <<nextTurnId, cancelledTurnIds, lastEnded, reserved, pendingTurns, cancelling,
                       clockCaller, overlapped>>
    BY <1>10 DEF ReleaseTurn, durable
  <2>2. \A m : Waiting(m) => Waiting(m)'
    BY <2>1 DEF Waiting
  <2>3. HandedOut => HandedOut'
    BY <2>1, <2>2 DEF HandedOut
  <2>4. StartedPassed => StartedPassed'
    BY <2>1 DEF StartedPassed
  <2> QED BY <2>1, <2>3, <2>4, <1>a DEF CountedInv, CancelledAhead, ReadIsPassed, OneCaller, InOrder, ClaimedIsNext
<1>11. ASSUME NEW id \in ending, EndTurn(id) PROVE CountedInv'
  <2>1. /\ lastEnded' = id /\ ending' \subseteq ending
        /\ UNCHANGED <<nextTurnId, cancelledTurnIds, reserved, pendingTurns, activeTurn, turnState, cancelling,
                       clockCaller, overlapped>>
    BY <1>11 DEF EndTurn
  <2>2. \A m : Waiting(m) => Waiting(m)'
    BY <2>1 DEF Waiting
  <2>3. HandedOut => HandedOut'
    BY <2>1, <2>2 DEF HandedOut
  <2>4. StartedPassed => StartedPassed'
    BY <2>1 DEF StartedPassed
  <2> QED BY <2>1, <2>3, <2>4, <1>a DEF CountedInv, CancelledAhead, ReadIsPassed, OneCaller, InOrder, ClaimedIsNext
<1>12. CASE Restart
  <2>1. /\ reserved' = -1 /\ pendingTurns' = <<>> /\ turnState' = "none" /\ ending' = {}
        /\ \A c \in ClockCallers : clockCaller'[c].pc = "idle"
        /\ UNCHANGED <<nextTurnId, cancelledTurnIds, lastEnded, overlapped>>
    BY <1>12 DEF Restart, durable, IdleCaller
  <2>2. HandedOut'
    BY <2>1, <1>b DEF HandedOut
  <2>3. InOrder' /\ OneCaller' /\ ReadIsPassed' /\ ClaimedIsNext'
    BY <2>1 DEF InOrder, OneCaller, ReadIsPassed, ClaimedIsNext
  <2>4. CancelledAhead' /\ (StartedPassed => StartedPassed')
    BY <2>1, <1>a DEF CancelledAhead, StartedPassed
  <2> QED BY <2>1, <2>2, <2>3, <2>4, <1>a DEF CountedInv
<1>13. CASE UNCHANGED clockVars
  <2>1. \A m : Waiting(m) => Waiting(m)'
    BY <1>13 DEF Waiting, clockVars
  <2>2. HandedOut => HandedOut'
    BY <1>13, <2>1 DEF HandedOut, clockVars
  <2> QED BY <1>13, <2>2, <1>a DEF clockVars, CountedInv, CancelledAhead, ReadIsPassed, OneCaller, InOrder,
                                   ClaimedIsNext, StartedPassed
<1> QED
  BY <1>1, <1>2, <1>3, <1>4, <1>5, <1>6, <1>7, <1>8, <1>9, <1>10, <1>11, <1>12, <1>13 DEF ClockNext

\* While no two calls on the loop have overlapped, every turn that was started
\* is counted by the durable clock, for any number of callers, cancellations
\* and restarts: turn.prompt (turn_ops.rs) carries no id, and need not.
THEOREM StartedAreCounted == ClockSpec => []StartedTurnsAreCounted
<1>1. ClockInit => ClockInv /\ CountedInv
  BY ClockInvInit, CountedInit
<1>2. ClockInv /\ CountedInv /\ [ClockNext]_clockVars => (ClockInv /\ CountedInv)'
  BY ClockInvStep, CountedStep
<1>3. CountedInv => StartedTurnsAreCounted
  BY DEF CountedInv, StartedPassed, StartedTurnsAreCounted
<1> QED
  BY <1>1, <1>2, <1>3, PTL DEF ClockSpec
=============================================================================
