-------------------------- MODULE MCToolsAndStorage --------------------------
(***************************************************************************)
(* A batch of tool calls, the wire aggregate, the append log and the       *)
(* database's lock file on small instances.  The modules share no          *)
(* variable: a behaviour is one of one of them, and the others stay where  *)
(* they begin.                                                             *)
(***************************************************************************)
EXTENDS ToolBatch, WireService, AppendLog, LockFile

VARIABLE running

\* A directory and a file in it.
SomePaths == {<<"d">>, <<"d", "f">>}

\* A call may write a file, search the directory it is in, or declare
\* nothing and so touch everything.
SomeAccesses ==
    {{FileAccess(TRUE, <<"d", "f">>, FALSE)}, {FileAccess(FALSE, <<"d">>, TRUE)}, {AllResources}}

RunningInit ==
    /\ running \in {"batch", "wire", "log", "lock"}
    /\ BatchInit /\ WireInit /\ LogInit /\ LockInit
    /\ running # "wire" => journal = <<>>
    /\ running # "lock" => owner = NoFile

RunningNext ==
    \/ running = "batch" /\ BatchStep /\ UNCHANGED <<running, wireVars, logVars, lockVars>>
    \/ running = "wire" /\ WireStep /\ UNCHANGED <<running, batchVars, logVars, lockVars>>
    \/ running = "log" /\ LogStep /\ UNCHANGED <<running, batchVars, wireVars, lockVars>>
    \/ running = "lock" /\ LockStep /\ UNCHANGED <<running, batchVars, wireVars, logVars>>
=============================================================================
