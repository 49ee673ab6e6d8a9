--------------------------- MODULE MCAgentServices ---------------------------
(***************************************************************************)
(* The agent loop, the turn clock and the session's interactions on small  *)
(* instances.  The modules share no variable: a behaviour is one of one of *)
(* them, and the other two stay where they begin.                          *)
(***************************************************************************)
EXTENDS MCAgentLoop, TurnClock, Interaction

VARIABLE running

RunningInit ==
    /\ running \in {"loop", "clock", "interaction"}
    /\ Init /\ ClockInit /\ AskInit

RunningNext ==
    \/ running = "loop" /\ Next /\ UNCHANGED <<running, clockVars, askVars>>
    \/ running = "clock" /\ ClockNext /\ UNCHANGED <<running, vars, askVars>>
    \/ running = "interaction" /\ AskStep /\ UNCHANGED <<running, vars, clockVars>>
=============================================================================
