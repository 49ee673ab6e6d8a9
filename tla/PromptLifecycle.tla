--------------------------- MODULE PromptLifecycle ---------------------------
(***************************************************************************)
(* What a caller of the prompt service may rely on: the life of a prompt   *)
(* as its handle shows it (PromptState, agent/prompt/contract.rs), with no *)
(* queue, worker task or event.                                            *)
(*                                                                         *)
(* A prompt is accepted as Pending.  It becomes Running, one at a time, or *)
(* Steered into the running one, whose fate it then shares.  A terminal    *)
(* state is final.                                                         *)
(***************************************************************************)
CONSTANT Records

VARIABLE state

Terminal == {"completed", "failed", "cancelled", "blocked"}
Live     == {"pending", "running", "steered"}
States   == Terminal \cup Live \cup {"unused"}

RunningOnes == {r \in Records : state[r] = "running"}
SteeredOnes == {r \in Records : state[r] = "steered"}

LifeInit == state = [r \in Records |-> "unused"]

Accept(r) ==
    /\ state[r] = "unused"
    /\ state' = [state EXCEPT ![r] = "pending"]

\* One prompt runs at a time.
Start(r) ==
    /\ state[r] = "pending"
    /\ RunningOnes = {}
    /\ state' = [state EXCEPT ![r] = "running"]

\* Prompts join the running one together.
Steer(R) ==
    /\ RunningOnes # {}
    /\ \A r \in R : state[r] = "pending"
    /\ state' = [r \in Records |-> IF r \in R THEN "steered" ELSE state[r]]

\* The running prompt and the ones steered into it end in the same step, alike.
Finish(outcome) ==
    /\ RunningOnes # {}
    /\ state' = [r \in Records |->
                   IF r \in RunningOnes \cup SteeredOnes THEN outcome ELSE state[r]]

\* Prompts that never ran: aborted, blocked by a hook, or failed to launch or steer.
Drop(R, outcome) ==
    /\ \A r \in R : state[r] = "pending"
    /\ state' = [r \in Records |-> IF r \in R THEN outcome ELSE state[r]]

\* clear and shutdown cancel everything that is alive.
CancelAll ==
    state' = [r \in Records |-> IF state[r] \in Live THEN "cancelled" ELSE state[r]]

LifeNext ==
    \/ \E r \in Records : Accept(r) \/ Start(r)
    \/ \E R \in SUBSET Records : Steer(R)
    \/ \E outcome \in {"completed", "failed", "cancelled"} : Finish(outcome)
    \/ \E R \in SUBSET Records, outcome \in {"failed", "cancelled", "blocked"} :
          Drop(R, outcome)
    \/ CancelAll

LifeSpec == LifeInit /\ [][LifeNext]_state
=============================================================================
