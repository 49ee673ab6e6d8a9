----------------------------- MODULE Interaction -----------------------------
(***************************************************************************)
(* The session's interactions (session/interaction, session/approval,      *)
(* session/question and their callers): an agent's approval, question or   *)
(* user tool is parked under an id until somebody responds, and what is    *)
(* still pending when a turn ends is cancelled by a task of its own.       *)
(*                                                                         *)
(* The kernel's lock makes park, respond and cancel_pending_for_turn       *)
(* atomic up to the removal; the channel and the events are served after   *)
(* the unlock.  Agents count their turns separately, and ids come from     *)
(* the model's tool calls, so two requests may use the same one.           *)
(***************************************************************************)
EXTENDS Integers, FiniteSets, Sequences, Functions

CONSTANTS
    MaxAsks,    \* bound: the requests made
    MaxAgents,  \* the agents of the session
    MaxIds,     \* the ids requests are made under
    MaxTurns    \* bound: the turns an agent begins

ASSUME AskAssumption == MaxAsks \in Nat /\ MaxAgents \in Nat /\ MaxIds \in Nat /\ MaxTurns \in Nat

Asks == 1 .. MaxAsks
SessionAgents == 1 .. MaxAgents
AskIds == 1 .. MaxIds
NoAsk == 0

VARIABLES
    ask,       \* per request: its kind, id, agent and turn
    askPc,     \* how far the request is
    aborted,   \* the requests whose abort signal has fired
    channel,   \* the oneshot channel of the request
    hand,      \* what a responder that has removed the entry is about to send
    parked,    \* State.pending: the request parked under the id
    order,     \* State.pending_order
    recently,  \* State.recently_resolved
    turnOf,    \* the turn each agent is in
    cancels    \* the spawned calls of cancel_pending_for_turn

kernelVars == <<parked, order, recently>>
askVars == <<ask, askPc, aborted, channel, hand, kernelVars, turnOf, cancels>>

AskInit ==
    /\ ask = [r \in Asks |-> [kind |-> "none", id |-> 1, agent |-> 1, turn |-> 0]]
    /\ askPc = [r \in Asks |-> "idle"]
    /\ aborted = {}
    /\ channel = [r \in Asks |-> "empty"]
    /\ hand = [r \in Asks |-> "none"]
    /\ parked = [i \in AskIds |-> NoAsk]
    /\ order = <<>>
    /\ recently = {}
    /\ turnOf = [a \in SessionAgents |-> 0]
    /\ cancels = {}

AskAt(r, pc) == askPc[r] = pc
AskGoto(r, pc) == askPc' = [askPc EXCEPT ![r] = pc]

\* The request is over, and with it its receiver.
Returns(r) ==
    /\ AskGoto(r, "returned")
    /\ channel' = [channel EXCEPT ![r] = "empty"]
    /\ aborted' = aborted \ {r}

\* A question of a background task outlives its turn; the other requests are part of it.
InTurn(r) == ask[r].kind # "background"

----------------------------------------------------------------------------
(* The kernel (interaction/service.rs). *)

\* The entry of an earlier request under the id is replaced, and its sender dropped.
park(r, i) ==
    /\ parked' = [parked EXCEPT ![i] = r]
    /\ order' = Append(order, i)
    /\ channel' = IF parked[i] # NoAsk
                     /\ ~AskAt(parked[i], "returned")
                  THEN [channel EXCEPT ![parked[i]] = "closed"] ELSE channel

\* pending_order.retain: the entries that are not in ids, in their order.
Retained(seq, ids) ==
    LET kept == {n \in DOMAIN seq : seq[n] \notin ids}
        Nth(k) == CHOOSE n \in kept : Cardinality({m \in kept : m <= n}) = k
    IN  [k \in 1 .. Cardinality(kept) |-> seq[Nth(k)]]

\* Mutant: the entries are removed and remembered, but what was removed, its
\* sender included, is kept aside and never used.
take_KeepsSender(ids, value) ==
    /\ parked' = [i \in AskIds |-> IF i \in ids THEN NoAsk ELSE parked[i]]
    /\ order' = Retained(order, ids)
    /\ recently' = recently \union ids
    /\ UNCHANGED hand

\* The entries under ids are removed, remembered, and in the hand of who removed them.
take(ids, value) ==
    /\ parked' = [i \in AskIds |-> IF i \in ids THEN NoAsk ELSE parked[i]]
    /\ order' = Retained(order, ids)
    /\ recently' = recently \union ids
    /\ hand' = [r \in Asks |-> IF \E i \in ids : parked[i] = r THEN value ELSE hand[r]]

respond(i, value) ==
    IF parked[i] = NoAsk THEN UNCHANGED <<hand, kernelVars>> ELSE take({i}, value)

\* After the unlock: send, and the two events.
Send(r) ==
    /\ hand[r] # "none"
    /\ channel' = IF AskAt(r, "returned") THEN channel ELSE [channel EXCEPT ![r] = hand[r]]
    /\ hand' = [hand EXCEPT ![r] = "none"]
    /\ UNCHANGED <<ask, askPc, aborted, kernelVars, turnOf, cancels>>

\* prune_resolved and the limit of remember_resolved: after its time an id is forgotten.
Forget(i) ==
    /\ i \in recently
    /\ recently' = recently \ {i}
    /\ UNCHANGED <<ask, askPc, aborted, channel, hand, parked, order, turnOf, cancels>>

\* A client answers (respond_interaction, decide, answer): it finds the id pending, then responds.
Answer(i) ==
    /\ parked[i] # NoAsk
    /\ respond(i, "answer")
    /\ UNCHANGED <<ask, askPc, aborted, channel, turnOf, cancels>>

----------------------------------------------------------------------------
(* The requests: an approval (permission_gate), a user tool (user_tool), a question of a tool
   call and one of a background task (question_tools). *)

Request(r, kind, i, a) ==
    /\ AskAt(r, "idle")
    /\ r > 1 => ~AskAt(r - 1, "idle")
    /\ i <= r /\ a <= r    \* ids and agents are named as they are first used
    /\ ask' = [ask EXCEPT ![r] = [kind |-> kind, id |-> i, agent |-> a, turn |-> turnOf[a]]]
    /\ IF kind = "background" THEN AskGoto(r, "spawned") /\ UNCHANGED <<kernelVars, channel>>
       ELSE AskGoto(r, "waiting") /\ park(r, i) /\ UNCHANGED recently
    /\ UNCHANGED <<aborted, hand, turnOf, cancels>>

\* The background task gets to run, perhaps after its turn.
BackgroundAsks(r) ==
    /\ AskAt(r, "spawned")
    /\ AskGoto(r, "waiting")
    /\ park(r, ask[r].id)
    /\ UNCHANGED <<ask, aborted, hand, recently, turnOf, cancels>>

\* A turn is cancelled, or a background task stopped.
Abort(rs) ==
    /\ aborted' = aborted \union rs
    /\ UNCHANGED <<ask, askPc, channel, hand, kernelVars, turnOf, cancels>>

CancelTurn(a) ==
    \E rs \in {{r \in Asks \ aborted : InTurn(r) /\ AskAt(r, "waiting") /\ ask[r].agent = a}} :
        rs # {} /\ Abort(rs)

StopTask(r) == ~InTurn(r) /\ AskAt(r, "waiting") /\ r \notin aborted /\ Abort({r})

\* abortable looks at the signal first; the question's select takes either.
Hears(r) ==
    /\ \/ AskAt(r, "draining")
       \/ AskAt(r, "waiting") /\ (r \notin aborted \/ ask[r].kind \in {"question", "background"})
    /\ channel[r] # "empty"
    /\ Returns(r)
    /\ UNCHANGED <<ask, hand, kernelVars, turnOf, cancels>>

SeesAbort(r) ==
    /\ AskAt(r, "waiting")
    /\ r \in aborted
    /\ IF ask[r].kind = "approval" THEN Returns(r)
       ELSE /\ AskGoto(r, IF ask[r].kind = "userTool" THEN "withdrawing" ELSE "checking")
            /\ UNCHANGED <<aborted, channel>>
    /\ UNCHANGED <<ask, hand, kernelVars, turnOf, cancels>>

\* "an answer wins that race": if the id is remembered the question waits for its channel.
ChecksResolved(r) ==
    /\ AskAt(r, "checking")
    /\ AskGoto(r, IF ask[r].id \in recently THEN "draining" ELSE "withdrawing")
    /\ UNCHANGED <<ask, aborted, channel, hand, kernelVars, turnOf, cancels>>

\* dismiss, and the user tool's own response to an abort: whoever is parked under the id.
Withdraws(r) ==
    /\ AskAt(r, "withdrawing")
    /\ Returns(r)
    /\ respond(ask[r].id, "withdrawn")
    /\ UNCHANGED <<ask, turnOf, cancels>>

\* race_with_abort_grace gives up on an aborted tool and drops it.
GraceEnds(r) ==
    /\ ask[r].kind \in {"userTool", "question"}
    /\ r \in aborted
    /\ askPc[r] \in {"waiting", "checking", "draining", "withdrawing"}
    /\ Returns(r)
    /\ UNCHANGED <<ask, hand, kernelVars, turnOf, cancels>>

----------------------------------------------------------------------------
(* The end of a turn (agent_lifecycle: subscribe_interaction_bus). *)

TurnEnds(a) ==
    /\ turnOf[a] < MaxTurns
    /\ \A r \in Asks : ask[r].agent = a /\ ask[r].turn = turnOf[a] /\ InTurn(r) =>
           askPc[r] \in {"idle", "returned"}
    /\ cancels' = cancels \union {[agent |-> a, turn |-> turnOf[a]]}
    /\ turnOf' = [turnOf EXCEPT ![a] = @ + 1]
    /\ UNCHANGED <<ask, askPc, aborted, channel, hand, kernelVars>>

\* Mutant: only the interaction that was parked first is cancelled.
OfTurn_FirstOnly(c) ==
    {i \in AskIds : /\ parked[i] # NoAsk /\ ask[parked[i]].turn = c.turn
                    /\ order[1] = i}

\* The interactions that the end of a turn cancels: the kernel is told the turn, not the agent.
OfTurn(c) == {i \in AskIds : parked[i] # NoAsk /\ ask[parked[i]].turn = c.turn}

cancel_pending_for_turn(c) ==
    /\ c \in cancels
    /\ take(OfTurn(c), "cancelled")
    /\ cancels' = cancels \ {c}
    /\ UNCHANGED <<ask, askPc, aborted, channel, turnOf>>

AskStep ==
    \/ \E r \in Asks, kind \in {"approval", "userTool", "question", "background"}, i \in AskIds,
          a \in SessionAgents : Request(r, kind, i, a)
    \/ \E r \in Asks : \/ BackgroundAsks(r) \/ StopTask(r) \/ Hears(r) \/ SeesAbort(r)
                       \/ ChecksResolved(r) \/ Withdraws(r) \/ GraceEnds(r) \/ Send(r)
    \/ \E i \in AskIds : Forget(i) \/ Answer(i)
    \/ \E a \in SessionAgents : CancelTurn(a) \/ TurnEnds(a)
    \/ \E c \in cancels : cancel_pending_for_turn(c)

AskSpec == AskInit /\ [][AskStep]_askVars

----------------------------------------------------------------------------

\* Where the variables range; what is pending is listed.
AskTypeOK ==
    /\ askPc \in [Asks -> {"idle", "spawned", "waiting", "checking", "draining", "withdrawing",
                           "returned"}]
    /\ aborted \subseteq Asks
    /\ channel \in [Asks -> {"empty", "answer", "withdrawn", "cancelled", "closed"}]
    /\ hand \in [Asks -> {"none", "answer", "withdrawn", "cancelled"}]
    /\ parked \in [AskIds -> Asks \union {NoAsk}]
    /\ Range(order) = {i \in AskIds : parked[i] # NoAsk}
    /\ recently \subseteq AskIds
    /\ turnOf \in [SessionAgents -> 0 .. MaxTurns]

\* A request that waits is parked and listed where a client finds it, or is in the hand of a
\* responder, or has its channel served: across answers, withdrawals, sweeps at the end of turns
\* and requests under the same id, none is lost (the callers' futures have no time limit).
WaitingIsPending ==
    \A r \in Asks :
        askPc[r] \in {"waiting", "checking", "draining"} /\ channel[r] = "empty" =>
            \/ parked[ask[r].id] = r /\ ask[r].id \in Range(order)
            \/ hand[r] # "none"

\* An entry that nobody waits for any more (an aborted approval, a tool dropped after the grace)
\* does not outlive its turn: the turn still runs, or its sweep is to come.
EntriesAreSwept ==
    \A i \in AskIds :
        LET r == parked[i] IN
        r # NoAsk =>
            (askPc[r] = "returned" =>
                \/ turnOf[ask[r].agent] = ask[r].turn
                \/ \E c \in cancels : c.turn = ask[r].turn)

\* A request told {"cancelled": true, "reason": "turn_ended"} was made in a turn that has ended
\* (the response cancel_pending_for_turn sends).
CancelledWithItsTurn ==
    \A r \in Asks :
        hand[r] = "cancelled" => turnOf[ask[r].agent] > ask[r].turn
=============================================================================
