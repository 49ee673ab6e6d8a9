------------------------------ MODULE LockFile -------------------------------
(***************************************************************************)
(* The single-writer lock of crates/minidb (lockfile.rs): a file that      *)
(* names the process which holds it, taken over when that process is dead. *)
(* A takeover renames a bid over the file, which several contenders may do *)
(* at once; the file's last owner wins, once no other contender's watch    *)
(* sidecar is left.                                                        *)
(*                                                                         *)
(* Every action is one operation of the file system with what the code     *)
(* does up to the next one; any of the others may come between, and any    *)
(* operation may fail.  A process may die at any time, and its files stay. *)
(* Lock files of one process (minidb.rs opens one for each database,       *)
(* cluster/index.rs one for each change of the registry) share its pid.    *)
(***************************************************************************)
EXTENDS Integers, FiniteSets

CONSTANTS
    MaxLocks,     \* lock files (the objects) that contend
    OneProcess,   \* how many of them are in the same process
    Unix,         \* whether pid_alive can tell (cfg(unix))
    MaxAttempts,  \* bound: calls of acquire
    MaxRenewals   \* bound: calls of renew

ASSUME LockAssumption ==
    /\ MaxLocks \in Nat /\ OneProcess \in Nat /\ Unix \in BOOLEAN
    /\ MaxAttempts \in Nat /\ MaxRenewals \in Nat

Locks == 1 .. MaxLocks
Pid(l) == IF l <= OneProcess THEN 1 ELSE l
Pids == {Pid(l) : l \in Locks}
Stale == 0     \* the pid of an owner that was dead before
NoFile == -1

\* A watch sidecar has the pid in its name.  It belongs to an attempt of a lock
\* file, or to an attempt that is no more.
WatchOf(l) == <<Pid(l), l>>
LeftWatch(l) == <<Pid(l), 0>>

VARIABLES
    owner,      \* the file: the pid in it, or NoFile
    watches,    \* the watch sidecars that exist
    living,     \* the processes that are alive
    lockPc,     \* how far acquire or release is
    held,       \* LockFile.held
    renewing,   \* whether a renew has passed is_held and its rename is to come
    outrun,     \* history: what has happened that the protocol does not survive
    left,       \* history: the processes that may have left their name in the file
    lockSpent   \* how much of the bounds is spent

lockVars == <<owner, watches, living, lockPc, held, renewing, outrun, left, lockSpent>>

LockInit ==
    /\ owner \in {NoFile, Stale}
    /\ watches = {}
    /\ living = Pids
    /\ lockPc = [l \in Locks |-> "idle"]
    /\ held = {}
    /\ renewing = {}
    /\ outrun = {}
    /\ left = {}
    /\ lockSpent = [attempts |-> 0, renewals |-> 0]

Alive(l) == Pid(l) \in living
Mine(l) == owner = Pid(l)
OwnerAlive == owner \in living
At(l, pc) == Alive(l) /\ lockPc[l] = pc
Goto(l, pc) == lockPc' = [lockPc EXCEPT ![l] = pc]

\* Elsewhere than on Unix, every other process counts as dead.
pid_alive(l, pid) == IF Unix THEN pid \in living ELSE pid = Pid(l)

\* The watches of other processes, of those that are taken for dead and of the others.
DeadWatches(l) == {w \in watches : w[1] # Pid(l) /\ ~pid_alive(l, w[1])}
LiveWatches(l) == {w \in watches : w[1] # Pid(l) /\ pid_alive(l, w[1])}

\* Another contender has seen its own name in the file, and is to look for watches.
BetweenLooks(l) == \E m \in Locks : Pid(m) # Pid(l) /\ At(m, "scan")

\* A bidder is past the gate.
Bidding(l) == At(l, "rename") \/ At(l, "settle") \/ At(l, "scan")

-----------------------------------------------------------------------------
(***************************************************************************)
(* acquire.                                                                *)
(***************************************************************************)
Watch(l) ==
    /\ At(l, "idle") /\ l \notin held
    /\ lockSpent.attempts < MaxAttempts
    /\ lockSpent' = [lockSpent EXCEPT !.attempts = @ + 1]
    /\ watches' = watches \cup {WatchOf(l)}
    /\ Goto(l, "reap")
    /\ UNCHANGED <<owner, living, held, renewing, outrun, left>>

ReapDeadWatches(l) ==
    /\ At(l, "reap")
    /\ watches' = watches \ DeadWatches(l)
    /\ Goto(l, "create")
    /\ UNCHANGED <<owner, living, held, renewing, outrun, left, lockSpent>>

\* try_create: hard_link fails if the file exists.
TryCreate(l) ==
    /\ At(l, "create")
    /\ \/ /\ owner = NoFile
          /\ owner' = Pid(l)
          /\ held' = held \cup {l}
          /\ Goto(l, "leave")
       \/ owner # NoFile /\ Goto(l, "inspect") /\ UNCHANGED <<owner, held>>
    /\ UNCHANGED <<watches, living, renewing, outrun, left, lockSpent>>

\* inspect: only the file of a dead owner is bid for.
Inspect(l) ==
    /\ At(l, "inspect")
    /\ Goto(l, IF owner = NoFile \/ pid_alive(l, owner) THEN "leave" ELSE "gate")
    /\ UNCHANGED <<owner, watches, living, held, renewing, outrun, left, lockSpent>>

\* Once more, when the bid is written.  A rename that Windows refuses is tried
\* again after another look, which comes to a later rename.
InspectGate(l) ==
    LET open == owner # NoFile /\ ~pid_alive(l, owner)
        sibling == \E m \in Locks : m # l /\ Pid(m) = Pid(l) /\ Bidding(m)
    IN  /\ At(l, "gate")
        /\ Goto(l, IF open THEN "rename" ELSE "leave")
        /\ outrun' = IF open /\ sibling THEN outrun \cup {"sibling"} ELSE outrun
        /\ UNCHANGED <<owner, watches, living, held, renewing, left, lockSpent>>

RenameBid(l) ==
    /\ At(l, "rename")
    /\ owner' = Pid(l)
    /\ Goto(l, "settle")
    /\ UNCHANGED <<watches, living, held, renewing, outrun, left, lockSpent>>

\* After the settle delay.
SettleInspect(l) ==
    /\ At(l, "settle")
    /\ Goto(l, IF Mine(l) THEN "scan" ELSE "leave")
    /\ UNCHANGED <<owner, watches, living, held, renewing, outrun, left, lockSpent>>

\* Mutant: the lock is taken although others are still contending for it.
SettleScan_Ignored(l) ==
    /\ At(l, "scan")
    /\ Goto(l, "leave")
    /\ held' = held \cup {l}
    /\ UNCHANGED <<owner, watches, living, renewing, outrun, left, lockSpent>>

\* has_live_foreign_watch: while another contender is there, settle again.
SettleScan(l) ==
    /\ At(l, "scan")
    /\ \/ LiveWatches(l) # {} /\ Goto(l, "settle") /\ UNCHANGED <<watches, held>>
       \/ /\ LiveWatches(l) = {}
          /\ watches' = watches \ DeadWatches(l)
          /\ held' = held \cup {l}
          /\ Goto(l, "leave")
    /\ UNCHANGED <<owner, living, renewing, outrun, left, lockSpent>>

\* An operation fails and acquire with it.  Behind the rename the file keeps the
\* name of a process that does not get the lock.
AcquireFails(l) ==
    /\ Alive(l) /\ lockPc[l] \in {"reap", "create", "inspect", "gate", "rename", "settle", "scan"}
    /\ Goto(l, "leave")
    /\ left' = IF Mine(l) THEN left \cup {Pid(l)} ELSE left
    /\ outrun' = IF Mine(l) /\ BetweenLooks(l) THEN outrun \cup {"between"} ELSE outrun
    /\ UNCHANGED <<owner, watches, living, held, renewing, lockSpent>>

\* The future of acquire is dropped at one of its awaits: its watch stays, and
\* the link or the rename it has handed to the blocking pool may still be done.
AcquireDropped(l) ==
    LET writes == \/ lockPc[l] = "create" /\ owner = NoFile
                  \/ lockPc[l] = "rename"
    IN  /\ Alive(l) /\ lockPc[l] \notin {"idle", "remove"}
        /\ owner' \in {owner} \cup (IF writes THEN {Pid(l)} ELSE {})
        /\ left' = IF owner' = Pid(l) THEN left \cup {Pid(l)} ELSE left
        /\ watches' = (watches \ {WatchOf(l)}) \cup {LeftWatch(l)}
        /\ Goto(l, "idle")
        /\ UNCHANGED <<living, held, renewing, outrun, lockSpent>>

\* acquire returns whether the lock is held.  It ignores a watch that cannot be
\* removed.
RemoveWatch(l) ==
    /\ At(l, "leave")
    /\ \/ watches' = watches \ {WatchOf(l)}
       \/ watches' = (watches \ {WatchOf(l)}) \cup {LeftWatch(l)}
    /\ Goto(l, "idle")
    /\ UNCHANGED <<owner, living, held, renewing, outrun, left, lockSpent>>

-----------------------------------------------------------------------------
(***************************************************************************)
(* renew and release.  A renew runs on a task of its own; aborting it does *)
(* not stop a rename that has been handed to the blocking pool.            *)
(***************************************************************************)
RenewBegins(l) ==
    /\ Alive(l) /\ l \in held /\ l \notin renewing
    /\ lockSpent.renewals < MaxRenewals
    /\ lockSpent' = [lockSpent EXCEPT !.renewals = @ + 1]
    /\ renewing' = renewing \cup {l}
    /\ UNCHANGED <<owner, watches, living, lockPc, held, outrun, left>>

RenewRenames(l) ==
    /\ Alive(l) /\ l \in renewing
    /\ renewing' = renewing \ {l}
    /\ \/ UNCHANGED <<owner, outrun, left>>  \* the rename failed
       \/ /\ owner' = Pid(l)
          /\ outrun' = IF l \in held THEN outrun ELSE outrun \cup {"renew"}
          /\ left' = IF l \in held THEN left ELSE left \cup {Pid(l)}
    /\ UNCHANGED <<watches, living, lockPc, held, lockSpent>>

\* release, and release_sync of a lock file that is dropped, which takes a file
\* it cannot read for another's.
ReleaseInspects(l) ==
    /\ At(l, "idle") /\ l \in held
    /\ \/ Mine(l) /\ Goto(l, "remove") /\ UNCHANGED <<held, left>>
       \/ /\ held' = held \ {l}
          /\ left' = IF Mine(l) THEN left \cup {Pid(l)} ELSE left
          /\ UNCHANGED lockPc
    /\ UNCHANGED <<owner, watches, living, renewing, outrun, lockSpent>>

\* Mutant: the file is left behind.
ReleaseRemoves_Not(l) ==
    /\ At(l, "remove")
    /\ held' = held \ {l}
    /\ Goto(l, "idle")
    /\ UNCHANGED <<owner, watches, living, renewing, outrun, left, lockSpent>>

\* If the file cannot be removed, release keeps the lock and release_sync gives
\* it up.
ReleaseRemoves(l) ==
    /\ At(l, "remove")
    /\ Goto(l, "idle")
    /\ \/ owner' = NoFile /\ held' = held \ {l} /\ UNCHANGED left
       \/ UNCHANGED <<owner, held, left>>
       \/ /\ held' = held \ {l}
          /\ left' = IF Mine(l) THEN left \cup {Pid(l)} ELSE left
          /\ UNCHANGED owner
    /\ UNCHANGED <<watches, living, renewing, outrun, lockSpent>>

\* A process dies.  If it has just replaced the file, a contender that saw its
\* own name there before goes on as if it still stood there.
Die(p) ==
    /\ p \in living
    /\ living' = living \ {p}
    /\ outrun' = IF owner = p /\ \E l \in Locks : Pid(l) # p /\ At(l, "scan")
                 THEN outrun \cup {"between"} ELSE outrun
    /\ UNCHANGED <<owner, watches, lockPc, held, renewing, left, lockSpent>>

-----------------------------------------------------------------------------
AcquireStep(l) ==
    \/ ReapDeadWatches(l) \/ TryCreate(l) \/ Inspect(l) \/ InspectGate(l) \/ RenameBid(l)
    \/ SettleInspect(l) \/ SettleScan(l) \/ RemoveWatch(l) \/ ReleaseRemoves(l)
    \/ AcquireFails(l) \/ AcquireDropped(l)

LockStep ==
    \/ \E l \in Locks : Watch(l) \/ AcquireStep(l) \/ ReleaseInspects(l)
                          \/ RenewBegins(l) \/ RenewRenames(l)
    \/ \E p \in Pids : Die(p)

LockSpec == LockInit /\ [][LockStep]_lockVars

-----------------------------------------------------------------------------
(***************************************************************************)
(* Properties.                                                             *)
(***************************************************************************)
Holders == {l \in held : Alive(l)}

\* Where the variables range; whoever contends has its watch in place.
LockTypeOK ==
    /\ owner \in Pids \cup {Stale, NoFile}
    /\ living \subseteq Pids /\ left \subseteq Pids
    /\ held \subseteq Locks /\ renewing \subseteq Locks
    /\ watches \subseteq Pids \X (Locks \cup {0})
    /\ lockPc \in [Locks -> {"idle", "reap", "create", "inspect", "gate", "rename", "settle",
                             "scan", "leave", "remove"}]
    /\ outrun \subseteq {"renew", "between", "sibling"}
    /\ Unix => \A l \in Locks :
          Alive(l) => (WatchOf(l) \in watches <=> lockPc[l] \notin {"idle", "remove"})

(***************************************************************************)
(* Whoever holds the lock is the one the file names, so there is only one, *)
(* and nobody takes it for dead: in spite of contenders that take over a   *)
(* dead owner's lock together, that die, fail or are dropped on the way,   *)
(* and of lock files that share a process.  It is said of Unix only, where *)
(* pid_alive can tell; elsewhere a living owner is taken over.  And three  *)
(* things the protocol does not survive there either: a contender that     *)
(* replaces the file and dies or fails between the winner's two looks, a   *)
(* renew that outlives its hold, and two lock files of one process that    *)
(* pass the gate together, which do not see each other's watch.            *)
(***************************************************************************)
HolderOwnsFile ==
    Unix /\ outrun = {} => \A l \in Holders : Mine(l) /\ Holders = {l}

(***************************************************************************)
(* A live process that neither holds the lock nor is on its way to it is   *)
(* not named by the file, which would lock all others out as long as it    *)
(* lives, unless the code has left its name there: an acquire that failed  *)
(* or was dropped behind its rename, a release_sync that could not remove  *)
(* the file, or a renew that outlived its hold.  A contender that loses,   *)
(* dies or gives up before its rename, or that shares the process with     *)
(* others, locks nobody out.                                               *)
(***************************************************************************)
NobodyLockedOut ==
    OwnerAlive /\ owner \notin left =>
        \E l \in Locks : Mine(l) /\ (l \in held \/ lockPc[l] # "idle")

(***************************************************************************)
(* "cross-process single-writer lock file with stale-lock takeover" (the   *)
(* crate's README): one writer at a time.                                  *)
(***************************************************************************)
SingleWriter == Cardinality(Holders) <= 1
=============================================================================
