------------------------------ MODULE TurnClock ------------------------------
(***************************************************************************)
(* The turn counter of an agent: agent/loop_/turn_ops.rs, and the part of  *)
(* agent/loop_/loop_service.rs that hands out turn ids.                    *)
(*                                                                         *)
(* A turn id is reserved in memory when a turn is queued                   *)
(* (next_reserved_turn_id), but the durable counter (TurnModelState, the   *)
(* "turn" model of the wire log) only moves when the turn starts, when it  *)
(* is cancelled, or when a loop event that carries its id is appended.     *)
(* After a restart only the durable counter is left.                       *)
(***************************************************************************)
EXTENDS Integers, Sequences, FiniteSets

CONSTANTS
    ClockCallers, \* the tasks that may call enqueue concurrently
    MaxTurnId   \* bound: no turn id above it is reserved

ASSUME MaxTurnIdAssumption == MaxTurnId \in Nat

\* No turn: no active job, nothing reserved since the process started.
None == -1

VARIABLES
    nextTurnId,       \* TurnModelState.next_turn_id (durable)
    cancelledTurnIds, \* TurnModelState.cancelled_turn_ids (durable)
    lastEnded,        \* TurnModelState.last_ended.turn_id (durable)
    reserved,         \* LoopState.next_reserved_turn_id
    pendingTurns,     \* LoopState.pending_turns, the ids of the queued jobs
    activeTurn,       \* LoopState.active_turn_job, its id
    turnState,        \* the active job's TurnState: Running once turn.prompt is dispatched
    ending,           \* released turns whose turn.ended is not yet dispatched
    cancelling,       \* turns whose turn.cancel is not yet dispatched
    clockCaller,      \* per caller: what reserve_turn_id has done so far
    recorded,         \* ids carried by loop events appended to the log
    overlapped        \* history: whether calls on the loop have overlapped

durable == <<nextTurnId, cancelledTurnIds, lastEnded>>
memory  == <<reserved, pendingTurns, activeTurn, turnState, ending, cancelling, clockCaller>>
clockVars == <<nextTurnId, cancelledTurnIds, lastEnded, reserved, pendingTurns,
          activeTurn, turnState, ending, cancelling, clockCaller, recorded, overlapped>>

\* The sequence s without its i-th element.
WithoutAt(s, i) == [j \in 1 .. Len(s) - 1 |-> s[IF j < i THEN j ELSE j + 1]]

IdleCaller == [pc |-> "idle", id |-> None]

(***************************************************************************)
(* advance_turn_clock: the clock steps over the run of cancelled ids that  *)
(* starts at the new value, and keeps only the cancellations beyond it.    *)
(***************************************************************************)
CancelledRun(next, cancellations) ==
    {id \in cancellations : id >= next /\ \A m \in next .. id : m \in cancellations}

AdvanceClock(next, cancellations) ==
    LET run == CancelledRun(next, cancellations)
    IN  /\ nextTurnId' = next + Cardinality(run)
        /\ cancelledTurnIds' = {id \in cancellations : id >= next} \ run

\* The turn.cancel reducer.
ApplyCancel(id) ==
    IF id < nextTurnId
    THEN UNCHANGED <<nextTurnId, cancelledTurnIds>>
    ELSE AdvanceClock(nextTurnId, cancelledTurnIds \cup {id})

\* observe_restored_turn_id: the reducer over context.append_loop_event.
ObserveTurnId(id) ==
    /\ IF id >= nextTurnId
       THEN AdvanceClock(id + 1, cancelledTurnIds)
       ELSE UNCHANGED <<nextTurnId, cancelledTurnIds>>
    /\ lastEnded' = IF lastEnded # None /\ id > lastEnded THEN None ELSE lastEnded

-----------------------------------------------------------------------------
ClockInit ==
    /\ nextTurnId = 0
    /\ cancelledTurnIds = {}
    /\ lastEnded = None
    /\ reserved = None
    /\ pendingTurns = <<>>
    /\ activeTurn = None
    /\ turnState = "none"
    /\ ending = {}
    /\ cancelling = {}
    /\ clockCaller = [c \in ClockCallers |-> IdleCaller]
    /\ recorded = {}
    /\ overlapped = "no"

\* History: a call begins inside another one.
Overlap(inside) == overlapped' = IF inside THEN "yes" ELSE overlapped

(***************************************************************************)
(* reserve_turn_id reads the durable counter before it takes the state     *)
(* lock, and create_and_queue_turn takes the lock again to push the job:   *)
(* three steps, which two callers may interleave.                          *)
(***************************************************************************)
ReadClock(c) ==
    /\ clockCaller[c].pc = "idle"
    /\ clockCaller' = [clockCaller EXCEPT ![c] = [pc |-> "read", id |-> nextTurnId]]
    /\ Overlap(\E d \in ClockCallers : clockCaller[d].pc # "idle")
    /\ UNCHANGED <<durable, reserved, pendingTurns, activeTurn, turnState, ending, cancelling, recorded>>

\* Mutant: the id comes from the durable counter alone.
ReserveTurnId_NoReservation(c) ==
    /\ clockCaller[c].pc = "read"
    /\ clockCaller[c].id <= MaxTurnId
    /\ reserved' = clockCaller[c].id + 1
    /\ clockCaller' = [clockCaller EXCEPT ![c] = [pc |-> "reserved", id |-> @.id]]
    /\ UNCHANGED <<durable, pendingTurns, activeTurn, turnState, ending, cancelling, recorded, overlapped>>

ReserveTurnId(c) ==
    LET modelNext == clockCaller[c].id
        id == IF reserved > modelNext THEN reserved ELSE modelNext
    IN  /\ clockCaller[c].pc = "read"
        /\ id <= MaxTurnId
        /\ reserved' = id + 1
        /\ clockCaller' = [clockCaller EXCEPT ![c] = [pc |-> "reserved", id |-> id]]
        /\ UNCHANGED <<durable, pendingTurns, activeTurn, turnState, ending, cancelling, recorded, overlapped>>

QueueTurn(c) ==
    /\ clockCaller[c].pc = "reserved"
    /\ pendingTurns' = Append(pendingTurns, clockCaller[c].id)
    /\ clockCaller' = [clockCaller EXCEPT ![c] = IdleCaller]
    /\ UNCHANGED <<durable, reserved, activeTurn, turnState, ending, cancelling, recorded, overlapped>>

\* pump_turns claims the next job under the lock ...
ClaimTurn ==
    /\ activeTurn = None
    /\ pendingTurns # <<>>
    /\ activeTurn' = Head(pendingTurns)
    /\ pendingTurns' = Tail(pendingTurns)
    /\ turnState' = "queued"
    /\ Overlap(cancelling # {})
    /\ UNCHANGED <<durable, reserved, ending, cancelling, clockCaller, recorded>>

\* Mutant: turn.prompt counts one turn and does not step over cancelled ids.
PromptTurn_NoSkip ==
    /\ activeTurn # None
    /\ turnState = "queued"
    /\ turnState' = "running"
    /\ nextTurnId' = nextTurnId + 1
    /\ UNCHANGED <<cancelledTurnIds, lastEnded, reserved, pendingTurns, activeTurn, ending,
                   cancelling, clockCaller, recorded, overlapped>>

\* ... and dispatches turn.prompt, whose record carries no id, outside it.
PromptTurn ==
    /\ activeTurn # None
    /\ turnState = "queued"
    /\ turnState' = "running"
    /\ AdvanceClock(nextTurnId + 1, cancelledTurnIds)
    /\ UNCHANGED <<lastEnded, reserved, pendingTurns, activeTurn, ending, cancelling,
                   clockCaller, recorded, overlapped>>

\* begin_step, append_response_content, ...: a loop event with the turn's id.
AppendLoopEvent ==
    /\ activeTurn # None
    /\ turnState = "running"
    /\ ObserveTurnId(activeTurn)
    /\ recorded' = recorded \cup {activeTurn}
    /\ UNCHANGED <<memory, overlapped>>

\* cancel_active_turn reads the slot under the lock; cancel_queued_turn takes
\* the turn out of the queue under it.  Both dispatch turn.cancel after it.
CancelActiveTurn ==
    /\ activeTurn # None
    /\ cancelling' = cancelling \cup {activeTurn}
    /\ UNCHANGED <<durable, reserved, pendingTurns, activeTurn, turnState, ending, clockCaller, recorded, overlapped>>

CancelQueuedTurn(i) ==
    /\ i \in DOMAIN pendingTurns
    /\ pendingTurns' = WithoutAt(pendingTurns, i)
    /\ cancelling' = cancelling \cup {pendingTurns[i]}
    /\ UNCHANGED <<durable, reserved, activeTurn, turnState, ending, clockCaller, recorded, overlapped>>

DispatchCancel(id) ==
    /\ id \in cancelling
    /\ cancelling' = cancelling \ {id}
    /\ ApplyCancel(id)
    /\ UNCHANGED <<lastEnded, reserved, pendingTurns, activeTurn, turnState, ending, clockCaller, recorded, overlapped>>

\* run_turn's tail: release_active_turn frees the slot ...
ReleaseTurn ==
    /\ activeTurn # None
    /\ turnState = "running"
    /\ activeTurn' = None
    /\ turnState' = "none"
    /\ ending' = ending \cup {activeTurn}
    /\ UNCHANGED <<durable, reserved, pendingTurns, cancelling, clockCaller, recorded, overlapped>>

\* ... and turn.ended is dispatched after an await, when another pump_turns
\* may have started the next turn.
EndTurn(id) ==
    /\ id \in ending
    /\ ending' = ending \ {id}
    /\ lastEnded' = id
    /\ UNCHANGED <<nextTurnId, cancelledTurnIds, reserved, pendingTurns,
                   activeTurn, turnState, cancelling, clockCaller, recorded, overlapped>>

\* The process stops and the agent is restored from its wire log: the service is
\* made anew with LoopState::default(), and the replay leaves the turn model as it was.
Restart ==
    /\ reserved' = None
    /\ pendingTurns' = <<>>
    /\ activeTurn' = None
    /\ turnState' = "none"
    /\ ending' = {}
    /\ cancelling' = {}
    /\ clockCaller' = [c \in ClockCallers |-> IdleCaller]
    /\ UNCHANGED <<durable, recorded, overlapped>>

ClockNext ==
    \/ \E c \in ClockCallers : ReadClock(c) \/ ReserveTurnId(c) \/ QueueTurn(c)
    \/ ClaimTurn
    \/ PromptTurn
    \/ AppendLoopEvent
    \/ CancelActiveTurn
    \/ \E i \in 1 .. Len(pendingTurns) : CancelQueuedTurn(i)
    \/ \E id \in cancelling : DispatchCancel(id)
    \/ ReleaseTurn
    \/ \E id \in ending : EndTurn(id)
    \/ Restart

ClockSpec == ClockInit /\ [][ClockNext]_clockVars

-----------------------------------------------------------------------------
\* Where every variable ranges; the set of cancellations stays finite.
ClockTypeOK ==
    /\ nextTurnId \in Nat
    /\ cancelledTurnIds \in SUBSET Nat
    /\ IsFiniteSet(cancelledTurnIds)
    /\ lastEnded \in Nat \cup {None}
    /\ reserved \in Nat \cup {None}
    /\ pendingTurns \in Seq(Nat)
    /\ activeTurn \in Nat \cup {None}
    /\ turnState \in {"none", "queued", "running"}
    /\ (turnState = "none") <=> (activeTurn = None)
    /\ ending \in SUBSET Nat
    /\ cancelling \in SUBSET Nat
    /\ clockCaller \in [ClockCallers -> [pc : {"idle", "read", "reserved"}, id : Nat \cup {None}]]
    /\ recorded \in SUBSET Nat
    /\ overlapped \in {"no", "yes"}

\* id belongs to a turn that is not yet active: a caller is between
\* reserve_turn_id and push_back with it, or the turn is queued.
Waiting(id) ==
    \/ \E c \in ClockCallers : clockCaller[c].pc = "reserved" /\ clockCaller[c].id = id
    \/ \E i \in 1 .. Len(pendingTurns) : pendingTurns[i] = id

(***************************************************************************)
(* reserve_turn_id never hands out an id twice, and never one that a loop  *)
(* event in the log already carries (from this process or from one before  *)
(* a restart), although the durable counter it starts from is read before  *)
(* the lock is taken and lags behind the turns still queued.               *)
(***************************************************************************)
TurnIdsNeverReused ==
    /\ \A c, d \in ClockCallers :
          clockCaller[c].pc = "reserved" /\ clockCaller[d].pc = "reserved" /\ c # d
              => clockCaller[c].id # clockCaller[d].id
    /\ \A i, j \in 1 .. Len(pendingTurns) : i # j => pendingTurns[i] # pendingTurns[j]
    /\ \A c \in ClockCallers, i \in 1 .. Len(pendingTurns) :
          clockCaller[c].pc = "reserved" => clockCaller[c].id # pendingTurns[i]
    /\ \A id \in recorded \cup {activeTurn} : ~Waiting(id)
    /\ turnState = "queued" => activeTurn \notin recorded

(***************************************************************************)
(* As long as no two calls on the loop have overlapped (no enqueue began   *)
(* inside another, no turn was claimed inside a cancel), a turn that was   *)
(* started is counted by the durable clock even if it dies before its      *)
(* first loop event, so no restart hands its id out again: turn.prompt     *)
(* carries no id, and adds one for the active turn only because the ids    *)
(* between the clock and the queue's head are all cancelled.  On several   *)
(* threads it fails: two callers may push their turns against the order of *)
(* their ids, and a turn may start before the cancellation of the one      *)
(* ahead of it is dispatched.                                              *)
(***************************************************************************)
StartedTurnsAreCounted ==
    overlapped = "no" =>
        /\ turnState = "running" => activeTurn < nextTurnId
        /\ \A id \in ending : id < nextTurnId
        /\ lastEnded < nextTurnId

(***************************************************************************)
(* The inductive strengthening of TurnIdsNeverReused.  An id that is live  *)
(* in memory is below the reservation counter; an id in the log is below   *)
(* the durable clock; and an id in the log is below whichever of the two   *)
(* a caller that has read the clock will take its id from, however long    *)
(* ago it read it.                                                         *)
(***************************************************************************)
IdsBelowCounters ==
    /\ activeTurn < reserved \/ activeTurn = None
    /\ \A i \in 1 .. Len(pendingTurns) : pendingTurns[i] < reserved
    /\ \A c \in ClockCallers : clockCaller[c].pc = "reserved" => clockCaller[c].id < reserved
    /\ \A r \in recorded : r < nextTurnId
    /\ \A c \in ClockCallers : clockCaller[c].pc = "read" =>
          /\ clockCaller[c].id \in Nat
          /\ \A r \in recorded : r < clockCaller[c].id \/ r < reserved
    /\ \A c \in ClockCallers : clockCaller[c].pc = "reserved" => clockCaller[c].id \in Nat
    /\ turnState = "running" => activeTurn # None

=============================================================================
