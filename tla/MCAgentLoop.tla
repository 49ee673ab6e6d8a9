----------------------------- MODULE MCAgentLoop -----------------------------
(***************************************************************************)
(* AgentLoop with callers that are model values, so that TLC may exchange  *)
(* them.                                                                   *)
(***************************************************************************)
EXTENDS AgentLoop, TLC

CONSTANTS c1, c2

OneCaller  == {c1}
TwoCallers == {c1, c2}
CallerSymmetry == Permutations(TwoCallers)
=============================================================================
