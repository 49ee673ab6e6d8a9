------------------------------- MODULE MiniDb --------------------------------
(***************************************************************************)
(* The key-value database of crates/minidb: writes (minidb.rs, wal.rs),    *)
(* compaction (compaction.rs, snapshot.rs) and recovery (recovery.rs), for *)
(* FsyncPolicy::Always and values in memory.                               *)
(*                                                                         *)
(* write_lock admits one write at a time, so the WAL's queue has at most   *)
(* one frame.  A write changes the store before its frame is on disk, and  *)
(* takes the change back when the frame cannot be written.  Compaction     *)
(* runs next to the writes until it takes the rotation gate.  Offsets are  *)
(* counted in frames, and a frame is a function from the keys it changes   *)
(* to their values.  Expiry, eviction and indexes are left out.            *)
(***************************************************************************)
EXTENDS Integers, Sequences, FiniteSets, FiniteSetsExt

CONSTANTS
    Keys,           \* the keys
    MaxWrites,      \* bound: writes called
    MaxCompactions, \* bound: compactions begun
    MaxDbFaults     \* bound: I/O errors and crashes

ASSUME DbAssumption ==
    /\ MaxWrites \in Nat /\ MaxCompactions \in Nat /\ MaxDbFaults \in Nat

Vals == 0 .. MaxWrites  \* the number of the write that set a key; 0: no such key
Empty == [k \in Keys |-> 0]
NoFrame == <<>>

VARIABLES
    snapshot, dbwal,  \* the files db.snapshot and db.wal
    store,            \* the store in memory
    wal,              \* the Wal in use: open or closed, what it holds in its queue
    writer,           \* the write that holds write_lock
    gate,             \* the rotation gate: "free", "queued" or taken for "rotation"
    compaction,       \* run_compaction and its local variables
    calm,             \* history: "no" once a snapshot was taken while a write was under
                      \* way, or a write that failed could not be rolled back
    dbSpent           \* how much of the bounds is spent

dbVars == <<snapshot, dbwal, store, wal, writer, gate, compaction, calm, dbSpent>>

OpenWal == [state |-> "open", queue |-> <<>>, failed |-> "no"]
NoWriter == [pc |-> "idle", frame |-> NoFrame, outcome |-> "pending", previous |-> Empty]
NoCompaction == [pc |-> "idle", entries |-> Empty, tmpWal |-> <<>>, copied |-> 0]

DbInit ==
    /\ snapshot = Empty /\ dbwal = <<>>
    /\ store = Empty
    /\ wal = OpenWal
    /\ writer = NoWriter
    /\ gate = "free"
    /\ compaction = NoCompaction
    /\ calm = "yes"
    /\ dbSpent = [writes |-> 0, compactions |-> 0, faults |-> 0]

DbSpend(what) == dbSpent' = [dbSpent EXCEPT ![what] = @ + 1]
DbFault == dbSpent.faults < MaxDbFaults /\ DbSpend("faults")

\* recover: the snapshot, then the frames of the WAL.
Replayed(m, frames) ==
    [k \in Keys |->
        LET touching == {i \in DOMAIN frames : k \in DOMAIN frames[i]}
        IN  IF touching = {} THEN m[k] ELSE frames[Max(touching)][k]]
Recovered == Replayed(snapshot, dbwal)

\* What a frame makes of a map.
Applied(frame, m) == [k \in Keys |-> IF k \in DOMAIN frame THEN frame[k] ELSE m[k]]

-----------------------------------------------------------------------------
(***************************************************************************)
(* set, batch and del.                                                     *)
(***************************************************************************)
\* append_loc
WalOpen == wal.state = "open" /\ wal.failed = "no"
Queued(frame) == [wal EXCEPT !.queue = Append(@, frame)]

\* set, or a batch that sets keys and deletes dels: it has write_lock and the
\* gate for reading; the frame is queued before the store is changed.
SetBegins(keys, dels) ==
    /\ writer.pc = "idle" /\ gate = "free"
    /\ dbSpent.writes < MaxWrites /\ DbSpend("writes")
    /\ LET frame == [k \in keys |-> IF k \in dels THEN 0 ELSE dbSpent.writes + 1]
       IN  \/ /\ WalOpen
              /\ writer' = [NoWriter EXCEPT !.pc = "appended", !.frame = frame]
              /\ wal' = Queued(frame)
           \/ ~WalOpen /\ UNCHANGED <<writer, wal>>
    /\ UNCHANGED <<snapshot, dbwal, store, gate, compaction, calm>>

\* apply_operation, for every key of the write.
SetApplies ==
    /\ writer.pc = "appended"
    /\ writer' = [writer EXCEPT !.pc = "waiting", !.previous = store]
    /\ store' = Applied(writer.frame, store)
    /\ UNCHANGED <<snapshot, dbwal, wal, gate, compaction, calm, dbSpent>>

\* del changes the store first: the append is not polled before it is awaited.
DelBegins(k) ==
    /\ writer.pc = "idle" /\ gate = "free" /\ store[k] # 0
    /\ dbSpent.writes < MaxWrites /\ DbSpend("writes")
    /\ writer' = [pc |-> "deleting", frame |-> [j \in {k} |-> 0], outcome |-> "pending", previous |-> store]
    /\ store' = [store EXCEPT ![k] = 0]
    /\ UNCHANGED <<snapshot, dbwal, wal, gate, compaction, calm>>

DelAppends ==
    /\ writer.pc = "deleting"
    /\ \/ /\ WalOpen
          /\ writer' = [writer EXCEPT !.pc = "waiting"]
          /\ wal' = Queued(writer.frame)
          /\ UNCHANGED store
       \/ /\ ~WalOpen
          /\ store' = writer.previous
          /\ writer' = NoWriter
          /\ UNCHANGED wal
    /\ UNCHANGED <<snapshot, dbwal, gate, compaction, calm, dbSpent>>

-----------------------------------------------------------------------------
(***************************************************************************)
(* flush_loop and write_batch; a frame leaves the queue when its outcome   *)
(* is known.  They run on a task of their own, so the frame may be on disk *)
(* before the write has changed the store.                                 *)
(***************************************************************************)
\* The frame is in the file, and the completion is sent.
FlushWrites ==
    /\ wal.queue # <<>>
    /\ dbwal' = dbwal \o wal.queue
    /\ wal' = [wal EXCEPT !.queue = <<>>]
    /\ writer' = [writer EXCEPT !.outcome = "ok"]
    /\ UNCHANGED <<snapshot, store, gate, compaction, calm, dbSpent>>

\* Mutant: the file is not truncated to where the batch began.
FlushFails_NoRollback ==
    /\ wal.queue # <<>>
    /\ DbFault
    /\ dbwal' = dbwal \o wal.queue
    /\ wal' = [wal EXCEPT !.queue = <<>>]
    /\ writer' = [writer EXCEPT !.outcome = "failed"]
    /\ UNCHANGED <<snapshot, store, gate, compaction, calm>>

\* The write or the sync failed; the file is truncated, or that fails too, and
\* then the frame may be in it.
FlushFails ==
    /\ wal.queue # <<>>
    /\ DbFault
    /\ \/ /\ wal' = [wal EXCEPT !.queue = <<>>]
          /\ UNCHANGED <<dbwal, calm>>
       \/ /\ wal' = [wal EXCEPT !.queue = <<>>, !.failed = "yes"]
          /\ dbwal' \in {dbwal, dbwal \o wal.queue}
          /\ calm' = "no"
    /\ writer' = [writer EXCEPT !.outcome = "failed"]
    /\ UNCHANGED <<snapshot, store, gate, compaction>>

WriteReturns ==
    /\ writer.pc = "waiting" /\ writer.outcome = "ok"
    /\ writer' = NoWriter
    /\ UNCHANGED <<snapshot, dbwal, store, wal, gate, compaction, calm, dbSpent>>

\* restore_key, for every key of the write; then the error is returned.
RestoreKey ==
    /\ writer.pc = "waiting" /\ writer.outcome = "failed"
    /\ store' = [k \in Keys |-> IF k \in DOMAIN writer.frame THEN writer.previous[k] ELSE store[k]]
    /\ writer' = NoWriter
    /\ UNCHANGED <<snapshot, dbwal, wal, gate, compaction, calm, dbSpent>>

-----------------------------------------------------------------------------
(***************************************************************************)
(* compact and run_compaction.  Wal::flush waits until the queue is empty. *)
(***************************************************************************)
CompactBegins ==
    /\ compaction.pc = "idle"
    /\ dbSpent.compactions < MaxCompactions /\ DbSpend("compactions")
    /\ compaction' = [compaction EXCEPT !.pc = "base"]
    /\ UNCHANGED <<snapshot, dbwal, store, wal, writer, gate, calm>>

\* base_offset: the frames before it will be in the snapshot.
CompactTakesBase ==
    /\ compaction.pc = "base" /\ wal.queue = <<>>
    /\ compaction' = IF wal.failed = "yes" THEN NoCompaction
                     ELSE [compaction EXCEPT !.pc = "entries", !.copied = Len(dbwal)]
    /\ UNCHANGED <<snapshot, dbwal, store, wal, writer, gate, calm, dbSpent>>

\* The live view, and the temporary snapshot.
CompactTakesEntries ==
    /\ compaction.pc = "entries"
    /\ compaction' = [compaction EXCEPT !.pc = "copy", !.entries = store]
    /\ calm' = IF writer.pc = "idle" THEN calm ELSE "no"
    /\ UNCHANGED <<snapshot, dbwal, store, wal, writer, gate, dbSpent>>

\* copy_file_range: what the WAL has got since.
CopiedWal == [compaction EXCEPT !.tmpWal = @ \o SubSeq(dbwal, compaction.copied + 1, Len(dbwal)),
                                !.copied = Len(dbwal)]

\* A pass of pre-copying.
CompactPrecopies ==
    /\ compaction.pc = "copy" /\ wal.queue = <<>>
    /\ \/ wal.failed = "yes" /\ compaction' = NoCompaction
       \/ wal.failed = "no" /\ compaction.copied < Len(dbwal) /\ compaction' = CopiedWal
    /\ UNCHANGED <<snapshot, dbwal, store, wal, writer, gate, calm, dbSpent>>

\* The gate is asked for, which keeps new writes out, and taken when no write
\* is under way.
CompactAsksGate ==
    /\ compaction.pc = "copy"
    /\ gate' = "queued"
    /\ compaction' = [compaction EXCEPT !.pc = "gate"]
    /\ UNCHANGED <<snapshot, dbwal, store, wal, writer, calm, dbSpent>>

CompactTakesGate ==
    /\ compaction.pc = "gate" /\ writer.pc = "idle"
    /\ gate' = "rotation"
    /\ compaction' = [compaction EXCEPT !.pc = "rotate"]
    /\ UNCHANGED <<snapshot, dbwal, store, wal, writer, calm, dbSpent>>

\* seal, flush, the rest of the copy, close.
RotateCopies ==
    /\ compaction.pc = "rotate" /\ wal.queue = <<>>
    /\ \/ /\ wal.failed = "yes"
          /\ compaction' = [compaction EXCEPT !.pc = "recover"]
       \/ /\ wal.failed = "no"
          /\ compaction' = [CopiedWal EXCEPT !.pc = "renameSnapshot"]
    /\ wal' = [wal EXCEPT !.state = "closed"]
    /\ UNCHANGED <<snapshot, dbwal, store, writer, gate, calm, dbSpent>>

\* Mutant: the WAL is renamed before the snapshot.
RenameSnapshot_WalFirst ==
    /\ compaction.pc = "renameSnapshot"
    /\ dbwal' = compaction.tmpWal
    /\ compaction' = [compaction EXCEPT !.pc = "renameWal"]
    /\ UNCHANGED <<snapshot, store, wal, writer, gate, calm, dbSpent>>

RenameSnapshot ==
    /\ compaction.pc = "renameSnapshot"
    /\ snapshot' = compaction.entries
    /\ compaction' = [compaction EXCEPT !.pc = "renameWal"]
    /\ UNCHANGED <<dbwal, store, wal, writer, gate, calm, dbSpent>>

RenameWal ==
    /\ compaction.pc = "renameWal"
    /\ dbwal' = compaction.tmpWal
    /\ compaction' = [compaction EXCEPT !.pc = "reopen"]
    /\ UNCHANGED <<snapshot, store, wal, writer, gate, calm, dbSpent>>

\* A fresh Wal; the locations in the store are mapped, the gate is let go.
ReopenWal ==
    /\ compaction.pc = "reopen"
    /\ wal' = OpenWal
    /\ gate' = "free"
    /\ compaction' = NoCompaction
    /\ UNCHANGED <<snapshot, dbwal, store, writer, calm, dbSpent>>

\* An error on the way.  Before the gate is taken the compaction just ends.
CompactFails ==
    /\ compaction.pc \in {"entries", "copy", "rotate", "renameSnapshot", "renameWal", "reopen"}
    /\ DbFault
    /\ compaction' = IF compaction.pc \in {"entries", "copy"} THEN NoCompaction
                     ELSE [compaction EXCEPT !.pc = "recover"]
    /\ UNCHANGED <<snapshot, dbwal, store, wal, writer, gate, calm>>

\* Mutant: the gate is not let go.
RecoverRotation_KeepsGate ==
    /\ compaction.pc = "recover"
    /\ \/ wal' = OpenWal /\ UNCHANGED dbSpent
       \/ DbFault /\ wal' = [wal EXCEPT !.state = "closed"]
    /\ compaction' = NoCompaction
    /\ UNCHANGED <<snapshot, dbwal, store, writer, gate, calm>>

\* The old Wal is closed and a fresh one opened over whichever file is there;
\* if that fails the database stays open with a closed WAL.
RecoverRotation ==
    /\ compaction.pc = "recover"
    /\ \/ wal' = OpenWal /\ UNCHANGED dbSpent
       \/ DbFault /\ wal' = [wal EXCEPT !.state = "closed"]
    /\ gate' = "free"
    /\ compaction' = NoCompaction
    /\ UNCHANGED <<snapshot, dbwal, store, writer, calm>>

-----------------------------------------------------------------------------
(***************************************************************************)
(* The process dies and the database is opened again: a torn frame at the  *)
(* end of the WAL is truncated, temporary files are removed.               *)
(***************************************************************************)
CrashDb ==
    /\ DbFault
    /\ dbwal' \in {dbwal, dbwal \o wal.queue}
    /\ store' = Replayed(snapshot, dbwal')
    /\ wal' = OpenWal
    /\ writer' = NoWriter
    /\ gate' = "free"
    /\ compaction' = NoCompaction
    /\ UNCHANGED <<snapshot, calm>>

\* close and open, when nothing is under way.
ReopenDb ==
    /\ writer.pc = "idle" /\ compaction.pc = "idle" /\ dbwal # <<>>
    /\ store' = Recovered
    /\ wal' = OpenWal
    /\ UNCHANGED <<snapshot, dbwal, writer, gate, compaction, calm, dbSpent>>

-----------------------------------------------------------------------------
WriterStep == SetApplies \/ DelAppends \/ FlushWrites \/ WriteReturns \/ RestoreKey
CompactionStep ==
    \/ CompactTakesBase \/ CompactTakesEntries \/ CompactPrecopies \/ CompactAsksGate
    \/ CompactTakesGate \/ RotateCopies \/ RenameSnapshot \/ RenameWal \/ ReopenWal
    \/ RecoverRotation

DbStep ==
    \/ \E keys \in (SUBSET Keys) \ {{}} : \E dels \in (SUBSET keys) \ {keys} : SetBegins(keys, dels)
    \/ \E k \in Keys : DelBegins(k)
    \/ WriterStep \/ FlushFails
    \/ CompactBegins \/ CompactionStep \/ CompactFails
    \/ CrashDb \/ ReopenDb

DbSpec == DbInit /\ [][DbStep]_dbVars

\* Tasks are polled and the file system answers.
DbFairness == WF_dbVars(WriterStep) /\ WF_dbVars(CompactionStep)

DbLiveSpec == DbSpec /\ DbFairness

-----------------------------------------------------------------------------
(***************************************************************************)
(* Properties.                                                             *)
(***************************************************************************)
Maps == [Keys -> Vals]
Frames == UNION {[keys -> Vals] : keys \in SUBSET Keys}

\* Where the variables range.  At most one frame is queued.
DbTypeOK ==
    /\ snapshot \in Maps /\ dbwal \in Seq(Frames) /\ store \in Maps
    /\ wal \in [state : {"open", "closed"}, queue : Seq(Frames), failed : {"no", "yes"}]
    /\ Len(wal.queue) <= 1
    /\ writer \in [pc : {"idle", "appended", "deleting", "waiting"}, frame : Frames,
                   outcome : {"pending", "ok", "failed"}, previous : Maps]
    /\ gate \in {"free", "queued", "rotation"}
    /\ compaction \in [pc : {"idle", "base", "entries", "copy", "gate", "rotate", "renameSnapshot",
                             "renameWal", "reopen", "recover"},
                       entries : Maps, tmpWal : Seq(Frames), copied : Nat]
    /\ calm \in {"no", "yes"}

(***************************************************************************)
(* What the process shows is what it would find if it were opened again:   *)
(* when no write is under way the store in memory is what recovery makes   *)
(* of the files, also in the middle of a rotation, after one that failed,  *)
(* and after writes that failed and were taken back.                       *)
(***************************************************************************)
StoreIsRecoverable == calm = "yes" /\ writer.pc = "idle" => store = Recovered

\* Every compaction ends, and the gate is free for writes again: the wait for
\* a write under way, which keeps new writes out, always ends.
CompactionEnds == compaction.pc # "idle" ~> compaction.pc = "idle" /\ gate = "free"

(***************************************************************************)
(* The directory implements DurableMap, its map being what recovery finds. *)
(* A crash or an error between the two renames, or anywhere else, and a    *)
(* compaction next to writes change nothing.                               *)
(***************************************************************************)
Phase ==
    IF writer.pc = "idle" THEN "idle"
    ELSE CASE writer.outcome = "pending" -> "called"
           [] writer.outcome = "ok"      -> "done"
           [] writer.outcome = "failed"  -> "refused"

Durable == INSTANCE DurableMap WITH map <- Recovered, frame <- writer.frame, phase <- Phase

ImplementsDurableMap ==
    [][calm' = "yes" => Durable!MapNext \/ UNCHANGED <<Recovered, Phase>>]_dbVars

(***************************************************************************)
(* "Store and derived state apply in the same synchronous segment as       *)
(* append_loc" (minidb.rs, above set), and "Materializing the live view is *)
(* a short synchronous fence" (compaction.rs): so a compaction loses no    *)
(* write that has returned.  But the write's frame may be on disk before   *)
(* the store has the change, and a compaction that takes its base offset   *)
(* after the one and its live view before the other has it in neither.     *)
(***************************************************************************)
CompactionKeepsWrites == writer.pc = "idle" => store = Recovered
=============================================================================
