----------------------------- MODULE DurableMap ------------------------------
(***************************************************************************)
(* What minidb promises of a database directory: it holds a map; a write   *)
(* changes all its keys at once, before it returns without error; one that *)
(* returns an error changes nothing; a crash during a write leaves all of  *)
(* it or none; and nothing else changes the map, neither a crash nor a     *)
(* compaction.                                                             *)
(***************************************************************************)
VARIABLES
    map,   \* what a process that opens the directory would find
    frame, \* the write under way: the keys it changes, with their values
    phase  \* how far it is: "idle", "called", "done", "refused"

\* The map with the changes of the write.
Changed == [k \in DOMAIN map |-> IF k \in DOMAIN frame THEN frame[k] ELSE map[k]]

Call == phase = "idle" /\ phase' = "called" /\ UNCHANGED map

Effect ==
    /\ phase = "called" /\ phase' = "done"
    /\ map' = Changed
    /\ UNCHANGED frame

Refuse == phase = "called" /\ phase' = "refused" /\ UNCHANGED <<map, frame>>

\* The write returns, without or with an error.
Return == phase \in {"done", "refused"} /\ phase' = "idle" /\ UNCHANGED map

\* The process dies.
Crash ==
    /\ phase' = "idle"
    /\ \/ UNCHANGED map
       \/ phase = "called" /\ map' = Changed

MapNext == Call \/ Effect \/ Refuse \/ Return \/ Crash
=============================================================================
