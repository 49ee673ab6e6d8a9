------------------------- MODULE MCPromptScheduler -------------------------
(***************************************************************************)
(* PromptScheduler on small instances; client ids are interchangeable.     *)
(***************************************************************************)
EXTENDS PromptScheduler, TLC

CONSTANTS i1, i2

ClientIds == {i1, i2}

IdSymmetry == Permutations(ClientIds)
=============================================================================
