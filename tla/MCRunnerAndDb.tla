---------------------------- MODULE MCRunnerAndDb ----------------------------
(***************************************************************************)
(* The prompt scheduler's runner and the database on small instances, with *)
(* their fairness.  The modules share no variable: a behaviour is one of   *)
(* one of them, and the other stays where it begins, where nothing is owed *)
(* to it.                                                                  *)
(***************************************************************************)
EXTENDS SchedulerRunner, MiniDb

VARIABLE running

RunningInit == running \in {"runner", "db"} /\ RunnerInit /\ DbInit

RunningNext ==
    \/ running = "runner" /\ RunnerNext /\ UNCHANGED <<running, dbVars>>
    \/ running = "db" /\ DbStep /\ UNCHANGED <<running, runnerVars>>

RunningSpec ==
    /\ RunningInit /\ [][RunningNext]_<<running, runnerVars, dbVars>>
    /\ RunnerFairness /\ DbFairness
=============================================================================
