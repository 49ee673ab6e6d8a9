---------------------------- MODULE MiniDb_proofs ----------------------------
(***************************************************************************)
(* Proofs about the database directory, for any keys and any number of     *)
(* writes, compactions, errors and crashes, and about the lock file that   *)
(* guards it, for any number of lock files, attempts and renewals.         *)
(***************************************************************************)
EXTENDS MiniDb, LockFile, SequenceTheorems, WellFoundedInduction, TLAPS

-----------------------------------------------------------------------------
(***************************************************************************)
(* What replaying a log computes.                                          *)
(***************************************************************************)
\* The least-number principle, from the well-foundedness of < on Nat.
LEMMA LeastNumber ==
    ASSUME NEW T, T \subseteq Nat, T # {}
    PROVE  \E x \in T : \A y \in T : x <= y
  <1> DEFINE R == OpToRel(<, Nat)
  <1>1. IsWellFoundedOn(R, Nat)
    BY NatLessThanWellFounded
  <1>2. \A x, y \in Nat : <<y, x>> \in R <=> y < x
    BY DEF OpToRel
  <1> HIDE DEF R
  <1>3. PICK x \in T : \A y \in T : ~(<<y, x>> \in R)
    BY <1>1, WFMin
  <1>4. ASSUME NEW y \in T PROVE x <= y
    <2>1. x \in Nat /\ y \in Nat
      OBVIOUS
    <2>2. ~(y < x)
      BY <2>1, <1>2, <1>3
    <2> QED BY <2>1, <2>2
  <1> QED BY <1>4

LEMMA MaxOfIndices ==
    ASSUME NEW n \in Nat, NEW T, T \subseteq 1 .. n, T # {}
    PROVE  Max(T) \in T /\ \A i \in T : i <= Max(T)
  <1> DEFINE D == {n - i : i \in T}
  <1>1. \A i \in T : n - i \in Nat
    OBVIOUS
  <1>2. D \subseteq Nat /\ D # {}
    BY <1>1
  <1> HIDE DEF D
  <1>3. PICK d \in D : \A e \in D : d <= e
    BY <1>2, LeastNumber
  <1>4. PICK m \in T : d = n - m
    BY DEF D
  <1>5. ASSUME NEW i \in T PROVE m >= i
    <2>1. n - i \in D /\ i \in Int /\ m \in Int
      BY DEF D
    <2> QED BY <2>1, <1>3, <1>4
  <1> QED BY <1>5 DEF Max

\* The frames that change a key.
Touching(frames, k) == {i \in DOMAIN frames : k \in DOMAIN frames[i]}

LEMMA ReplayedAt ==
    ASSUME NEW m, NEW frames, NEW k \in Keys
    PROVE  Replayed(m, frames)[k] =
             IF Touching(frames, k) = {} THEN m[k] ELSE frames[Max(Touching(frames, k))][k]
  BY DEF Replayed, Touching

LEMMA LastTouching ==
    ASSUME NEW frames \in Seq(Frames), NEW k \in Keys, Touching(frames, k) # {}
    PROVE  /\ Max(Touching(frames, k)) \in 1 .. Len(frames)
           /\ frames[Max(Touching(frames, k))] \in Frames
           /\ k \in DOMAIN frames[Max(Touching(frames, k))]
  <1>1. Touching(frames, k) \subseteq 1 .. Len(frames) /\ Len(frames) \in Nat
    BY DEF Touching
  <1>2. Max(Touching(frames, k)) \in Touching(frames, k)
    BY <1>1, MaxOfIndices
  <1> QED BY <1>1, <1>2, ElementOfSeq DEF Touching

LEMMA FrameType ==
    ASSUME NEW f \in Frames
    PROVE  DOMAIN f \subseteq Keys /\ \A k \in DOMAIN f : f[k] \in Vals
  BY DEF Frames

LEMMA ReplayedType ==
    ASSUME NEW m \in Maps, NEW frames \in Seq(Frames)
    PROVE  Replayed(m, frames) \in Maps
  <1>1. ASSUME NEW k \in Keys PROVE Replayed(m, frames)[k] \in Vals
    <2>1. CASE Touching(frames, k) = {}
      BY <2>1, ReplayedAt DEF Maps
    <2>2. CASE Touching(frames, k) # {}
      BY <2>2, ReplayedAt, LastTouching, FrameType
    <2> QED BY <2>1, <2>2
  <1> QED BY <1>1 DEF Replayed, Maps

LEMMA AppliedType ==
    ASSUME NEW m \in Maps, NEW f \in Frames
    PROVE  Applied(f, m) \in Maps
  BY FrameType DEF Applied, Maps

\* An empty log changes nothing.
LEMMA ReplayedNone ==
    ASSUME NEW m \in Maps
    PROVE  Replayed(m, <<>>) = m
  BY DEF Replayed, Maps

\* One more frame is applied last.
LEMMA ReplayedAppend ==
    ASSUME NEW m, NEW frames \in Seq(Frames), NEW f \in Frames
    PROVE  Replayed(m, Append(frames, f)) = Applied(f, Replayed(m, frames))
  <1> DEFINE n == Len(frames)
             longer == Append(frames, f)
  <1>1. /\ longer \in Seq(Frames) /\ n \in Nat
        /\ DOMAIN frames = 1 .. n /\ DOMAIN longer = 1 .. (n + 1)
        /\ \A i \in 1 .. n : longer[i] = frames[i]
        /\ longer[n + 1] = f
    BY AppendProperties, LenProperties
  <1> HIDE DEF n, longer
  <1>2. ASSUME NEW k \in Keys
        PROVE  Replayed(m, longer)[k] = IF k \in DOMAIN f THEN f[k] ELSE Replayed(m, frames)[k]
    <2>1. CASE k \in DOMAIN f
      <3>1. n + 1 \in Touching(longer, k) /\ Touching(longer, k) \subseteq 1 .. (n + 1)
        BY <1>1, <2>1 DEF Touching
      <3>2. Max(Touching(longer, k)) \in 1 .. (n + 1) /\ n + 1 <= Max(Touching(longer, k))
        BY <3>1, <1>1, MaxOfIndices
      <3>3. Max(Touching(longer, k)) = n + 1
        BY <3>2, <1>1
      <3> QED BY <3>1, <3>3, <1>1, <2>1, ReplayedAt
    <2>2. CASE k \notin DOMAIN f
      <3>1. Touching(longer, k) = Touching(frames, k)
        BY <1>1, <2>2 DEF Touching
      <3>2. CASE Touching(frames, k) = {}
        BY <3>1, <3>2, <2>2, ReplayedAt
      <3>3. CASE Touching(frames, k) # {}
        <4>1. Max(Touching(frames, k)) \in 1 .. n
          BY <3>3, LastTouching DEF n
        <4> QED BY <4>1, <3>1, <3>3, <2>2, <1>1, ReplayedAt
      <3> QED BY <3>2, <3>3
    <2> QED BY <2>1, <2>2
  <1> QED BY <1>2 DEF Replayed, Applied, longer

\* A log may be replayed twice: this is what makes a crash between the two
\* renames of a rotation harmless.
LEMMA ReplayedTwice ==
    ASSUME NEW m, NEW frames \in Seq(Frames)
    PROVE  Replayed(Replayed(m, frames), frames) = Replayed(m, frames)
  <1>1. ASSUME NEW k \in Keys
        PROVE  Replayed(Replayed(m, frames), frames)[k] = Replayed(m, frames)[k]
    BY ReplayedAt
  <1> QED BY <1>1 DEF Replayed

\* A frame applied before a log that ends with it.
LEMMA ReplayedOverApplied ==
    ASSUME NEW m \in Maps, NEW frames \in Seq(Frames), NEW f \in Frames
    PROVE  Applied(f, Replayed(Applied(f, m), frames)) = Applied(f, Replayed(m, frames))
  <1>1. ASSUME NEW k \in Keys, k \notin DOMAIN f
        PROVE  Replayed(Applied(f, m), frames)[k] = Replayed(m, frames)[k]
    <2>1. Applied(f, m)[k] = m[k]
      BY <1>1 DEF Applied
    <2> QED BY <2>1, ReplayedAt
  <1> QED BY <1>1 DEF Applied
-----------------------------------------------------------------------------
(***************************************************************************)
(* The inductive invariant.                                                *)
(***************************************************************************)
SpentType == [writes : 0 .. MaxWrites, compactions : Nat, faults : Nat]

DbTypes ==
    /\ DbTypeOK
    /\ dbSpent \in SpentType

\* The queue has the frame of the write that waits for its outcome.
QueueHoldsFrame ==
    /\ wal.queue = IF writer.pc \in {"appended", "waiting"} /\ writer.outcome = "pending"
                   THEN <<writer.frame>> ELSE <<>>
    /\ writer.pc \in {"idle", "deleting"} => writer.outcome = "pending"

\* From the rotation on no write is under way.
GateKeepsOut ==
    /\ gate = "free" <=> compaction.pc \in {"idle", "base", "entries", "copy"}
    /\ gate = "queued" <=> compaction.pc = "gate"
    /\ gate = "rotation" => writer.pc = "idle"

\* What the files hold, seen from the store: the change of the write under way is
\* in both, in neither, or in one of them.
Before == IF writer.pc \in {"idle", "appended"} THEN store ELSE writer.previous

StoreTracks ==
    /\ wal.failed = "no"
    /\ Recovered = IF writer.outcome = "ok" THEN Applied(writer.frame, Before) ELSE Before
    /\ writer.pc \in {"deleting", "waiting"} => store = Applied(writer.frame, writer.previous)

\* The frames that are still to be copied.
Uncopied == SubSeq(dbwal, compaction.copied + 1, Len(dbwal))

\* The new files will hold what the old ones do, and so does the new snapshot
\* with the old WAL, which is there between the two renames.
CompactionTracks ==
    /\ compaction.pc \in {"idle", "base", "entries"} => compaction.tmpWal = <<>>
    /\ compaction.pc \in {"entries", "copy", "gate", "rotate"} => compaction.copied <= Len(dbwal)
    /\ compaction.pc = "entries" => Replayed(Recovered, Uncopied) = Recovered
    /\ compaction.pc \in {"copy", "gate", "rotate"} =>
         Replayed(compaction.entries, compaction.tmpWal \o Uncopied) = Recovered
    /\ compaction.pc \in {"copy", "gate", "rotate", "renameSnapshot"} =>
         Replayed(compaction.entries, dbwal) = Recovered
    /\ compaction.pc \in {"renameSnapshot", "renameWal"} =>
         Replayed(compaction.entries, compaction.tmpWal) = Recovered
    /\ compaction.pc = "renameWal" => snapshot = compaction.entries

DbInv ==
    /\ DbTypes /\ QueueHoldsFrame /\ GateKeepsOut
    /\ calm = "yes" => StoreTracks /\ CompactionTracks

-----------------------------------------------------------------------------
(***************************************************************************)
(* The types, which the frames' lemmas need.                               *)
(***************************************************************************)
LEMMA ConstantTypes ==
    /\ Empty \in Maps /\ NoFrame \in Frames /\ 0 \in Vals
    /\ OpenWal \in [state : {"open", "closed"}, queue : Seq(Frames), failed : {"no", "yes"}]
    /\ Len(OpenWal.queue) <= 1
    /\ NoWriter \in [pc : {"idle", "appended", "deleting", "waiting"}, frame : Frames,
                     outcome : {"pending", "ok", "failed"}, previous : Maps]
    /\ NoCompaction \in [pc : {"idle", "base", "entries", "copy", "gate", "rotate", "renameSnapshot",
                               "renameWal", "reopen", "recover"},
                         entries : Maps, tmpWal : Seq(Frames), copied : Nat]
  <1>1. 0 \in Vals
    BY DbAssumption DEF Vals
  <1>2. Empty \in Maps
    BY <1>1 DEF Empty, Maps
  <1>3. NoFrame \in [{} -> Vals] /\ {} \in SUBSET Keys
    BY DEF NoFrame
  <1>4. NoFrame \in Frames
    BY <1>3 DEF Frames
  <1>5. <<>> \in Seq(Frames) /\ Len(<<>>) = 0
    BY EmptySeq
  <1> QED BY <1>1, <1>2, <1>4, <1>5 DEF OpenWal, NoWriter, NoCompaction

\* A function on some of the keys is a frame.
LEMMA FrameIntro ==
    ASSUME NEW keys \in SUBSET Keys, NEW f \in [keys -> Vals]
    PROVE  f \in Frames
  BY DEF Frames

LEMMA DbTypesInit == DbInit => DbTypes
  BY ConstantTypes, EmptySeq, DbAssumption DEF SpentType, DbInit, DbTypes, DbTypeOK

LEMMA UncopiedType ==
    ASSUME DbTypes
    PROVE  /\ Uncopied \in Seq(Frames)
           /\ CopiedWal \in [pc : {"idle", "base", "entries", "copy", "gate", "rotate", "renameSnapshot",
                                   "renameWal", "reopen", "recover"},
                             entries : Maps, tmpWal : Seq(Frames), copied : Nat]
           /\ CopiedWal = [compaction EXCEPT !.tmpWal = @ \o Uncopied, !.copied = Len(dbwal)]
  <1>1. dbwal \in Seq(Frames) /\ Len(dbwal) \in Nat /\ compaction.copied \in Nat
        /\ compaction.tmpWal \in Seq(Frames)
    BY DEF DbTypes, DbTypeOK
  <1>2. \A i \in (compaction.copied + 1) .. Len(dbwal) : dbwal[i] \in Frames
    BY <1>1, ElementOfSeq
  <1>3. Uncopied \in Seq(Frames)
    BY <1>1, <1>2, SubSeqProperties DEF Uncopied
  <1>4. compaction.tmpWal \o Uncopied \in Seq(Frames)
    BY <1>1, <1>3, ConcatProperties
  <1> QED BY <1>1, <1>3, <1>4 DEF CopiedWal, Uncopied, DbTypes, DbTypeOK

LEMMA SpendTypes ==
    ASSUME dbSpent \in SpentType
    PROVE  /\ dbSpent.writes < MaxWrites /\ DbSpend("writes") => dbSpent' \in SpentType
           /\ DbSpend("compactions") => dbSpent' \in SpentType
           /\ DbFault => dbSpent' \in SpentType
  BY DbAssumption DEF SpentType, DbSpend, DbFault

\* The WAL with another queue.
WalTypes(w) ==
    /\ w \in [state : {"open", "closed"}, queue : Seq(Frames), failed : {"no", "yes"}]
    /\ Len(w.queue) <= 1

LEMMA QueueTypes ==
    ASSUME DbTypes, NEW q \in Seq(Frames), Len(q) <= 1
    PROVE  WalTypes([wal EXCEPT !.queue = q]) /\ WalTypes([wal EXCEPT !.queue = q, !.failed = "yes"])
  BY DEF DbTypes, DbTypeOK, WalTypes

LEMMA EmptyQueueTypes ==
    ASSUME DbTypes
    PROVE  WalTypes([wal EXCEPT !.queue = <<>>]) /\ WalTypes([wal EXCEPT !.queue = <<>>, !.failed = "yes"])
  <1>1. PICK q : q = <<>>
    OBVIOUS
  <1>2. q \in Seq(Frames) /\ Len(q) <= 1
    BY <1>1, EmptySeq
  <1> QED BY <1>1, <1>2, QueueTypes, Zenon

LEMMA DbTypesStep == DbTypes /\ QueueHoldsFrame /\ [DbStep]_dbVars => DbTypes'
  <1> SUFFICES ASSUME DbTypes, QueueHoldsFrame, [DbStep]_dbVars PROVE DbTypes'
    OBVIOUS
  <1>a. Recovered \in Maps
    BY ReplayedType DEF DbTypes, DbTypeOK, Recovered
  <1>b. dbwal \o wal.queue \in Seq(Frames)
    BY ConcatProperties DEF DbTypes, DbTypeOK
  <1>c. <<>> \in Seq(Frames) /\ Len(<<>>) = 0
    BY EmptySeq
  <1> USE ConstantTypes, SpendTypes, <1>c
  <1>1. ASSUME NEW keys \in (SUBSET Keys) \ {{}}, NEW dels \in (SUBSET keys) \ {keys},
               SetBegins(keys, dels)
        PROVE  DbTypes'
    <2> DEFINE frame == [k \in keys |-> IF k \in dels THEN 0 ELSE dbSpent.writes + 1]
    <2>1. dbSpent.writes + 1 \in Vals
      <3>1. dbSpent.writes \in Nat /\ dbSpent.writes < MaxWrites
        BY <1>1 DEF SetBegins, SpentType, DbTypes
      <3> QED BY <3>1, DbAssumption DEF Vals
    <2>2. frame \in Frames
      BY <2>1, FrameIntro, DbAssumption DEF DbTypes, DbTypeOK
    <2> HIDE DEF frame
    <2>3. CASE /\ WalOpen
               /\ writer' = [NoWriter EXCEPT !.pc = "appended", !.frame = frame]
               /\ wal' = Queued(frame)
      <3>1. wal.queue = <<>>
        BY <1>1 DEF SetBegins, QueueHoldsFrame, DbTypes, DbTypeOK
      <3>2. Append(wal.queue, frame) \in Seq(Frames) /\ Len(Append(wal.queue, frame)) <= 1
        BY <2>2, <3>1, AppendProperties DEF DbTypes, DbTypeOK
      <3>3. wal' = [wal EXCEPT !.queue = Append(wal.queue, frame)]
        BY <2>3 DEF Queued, DbTypes, DbTypeOK
      <3>4. WalTypes(wal')
        BY ONLY DbTypes, <3>2, <3>3, QueueTypes, Zenon
      <3> QED BY <1>1, <2>2, <2>3, <3>4 DEF SetBegins, WalTypes, DbTypes, DbTypeOK
    <2>4. CASE UNCHANGED <<writer, wal>>
      BY <1>1, <2>4 DEF SetBegins, DbTypes, DbTypeOK
    <2> QED BY <1>1, <2>3, <2>4 DEF SetBegins, frame, DbTypes, DbTypeOK
  <1>2. ASSUME NEW k \in Keys, DelBegins(k) PROVE DbTypes'
    <2>1. [j \in {k} |-> 0] \in Frames
      BY FrameIntro DEF DbTypes, DbTypeOK
    <2>2. [store EXCEPT ![k] = 0] \in Maps
      BY DEF Maps, DbTypes, DbTypeOK
    <2> QED BY <1>2, <2>1, <2>2 DEF DelBegins, DbTypes, DbTypeOK
  <1>3. CASE SetApplies
    BY <1>3, AppliedType DEF SetApplies, DbTypes, DbTypeOK
  <1>4. CASE DelAppends
    <2>1. Append(wal.queue, writer.frame) \in Seq(Frames) /\ Len(Append(wal.queue, writer.frame)) <= 1
      BY <1>4, AppendProperties DEF DelAppends, QueueHoldsFrame, DbTypes, DbTypeOK
    <2>2. WalTypes([wal EXCEPT !.queue = Append(wal.queue, writer.frame)])
      BY ONLY DbTypes, <2>1, QueueTypes, Zenon
    <2>3. CASE WalOpen
      BY <1>4, <2>2, <2>3 DEF DelAppends, Queued, WalTypes, DbTypes, DbTypeOK
    <2>4. CASE ~WalOpen
      BY <1>4, <2>4 DEF DelAppends, DbTypes, DbTypeOK
    <2> QED BY <2>3, <2>4
  <1>5. CASE FlushWrites
    <2>1. WalTypes(wal') /\ dbwal' \in Seq(Frames)
      BY <1>5, <1>b, EmptyQueueTypes DEF FlushWrites
    <2>2. writer' \in [pc : {"idle", "appended", "deleting", "waiting"}, frame : Frames,
                       outcome : {"pending", "ok", "failed"}, previous : Maps]
      BY <1>5 DEF FlushWrites, DbTypes, DbTypeOK
    <2>3. UNCHANGED <<snapshot, store, gate, compaction, calm, dbSpent>>
      BY <1>5 DEF FlushWrites
    <2> QED BY <2>1, <2>2, <2>3 DEF WalTypes, DbTypes, DbTypeOK
  <1>6. CASE WriteReturns
    BY <1>6 DEF WriteReturns, DbTypes, DbTypeOK
  <1>7. CASE RestoreKey
    <2>1. [k \in Keys |-> IF k \in DOMAIN writer.frame THEN writer.previous[k] ELSE store[k]] \in Maps
      BY DEF Maps, DbTypes, DbTypeOK
    <2> QED BY <1>7, <2>1 DEF RestoreKey, DbTypes, DbTypeOK
  <1>8. CASE FlushFails
    <2>1. WalTypes(wal')
      BY <1>8, EmptyQueueTypes DEF FlushFails
    <2>2. dbwal' \in Seq(Frames)
      BY <1>8, <1>b DEF FlushFails, DbTypes, DbTypeOK
    <2>3. writer' \in [pc : {"idle", "appended", "deleting", "waiting"}, frame : Frames,
                       outcome : {"pending", "ok", "failed"}, previous : Maps]
      BY <1>8 DEF FlushFails, DbTypes, DbTypeOK
    <2>4. calm' \in {"no", "yes"}
      BY <1>8 DEF FlushFails, DbTypes, DbTypeOK
    <2>5. dbSpent' \in SpentType /\ UNCHANGED <<snapshot, store, gate, compaction>>
      BY <1>8 DEF FlushFails, DbTypes
    <2> QED BY <2>1, <2>2, <2>3, <2>4, <2>5 DEF WalTypes, DbTypes, DbTypeOK
  <1>9. CASE CompactBegins
    BY <1>9 DEF CompactBegins, DbTypes, DbTypeOK
  <1>10. CASE CompactTakesBase
    BY <1>10, LenProperties DEF CompactTakesBase, DbTypes, DbTypeOK
  <1>11. CASE CompactTakesEntries
    BY <1>11 DEF CompactTakesEntries, DbTypes, DbTypeOK
  <1>12. CASE CompactPrecopies
    BY <1>12, UncopiedType DEF CompactPrecopies, DbTypes, DbTypeOK
  <1>13. CASE CompactAsksGate
    BY <1>13 DEF CompactAsksGate, DbTypes, DbTypeOK
  <1>14. CASE CompactTakesGate
    BY <1>14 DEF CompactTakesGate, DbTypes, DbTypeOK
  <1>15. CASE RotateCopies
    <2>1. compaction' \in [pc : {"idle", "base", "entries", "copy", "gate", "rotate", "renameSnapshot",
                                "renameWal", "reopen", "recover"},
                           entries : Maps, tmpWal : Seq(Frames), copied : Nat]
      <3>1. PICK c \in {compaction, CopiedWal} : \E pc \in {"recover", "renameSnapshot"} :
               compaction' = [c EXCEPT !.pc = pc]
        BY <1>15, Zenon DEF RotateCopies
      <3>2. c \in [pc : {"idle", "base", "entries", "copy", "gate", "rotate", "renameSnapshot",
                         "renameWal", "reopen", "recover"},
                   entries : Maps, tmpWal : Seq(Frames), copied : Nat]
        BY UncopiedType DEF DbTypes, DbTypeOK
      <3> QED BY <3>1, <3>2
    <2>2. wal' \in [state : {"open", "closed"}, queue : Seq(Frames), failed : {"no", "yes"}]
          /\ Len(wal'.queue) <= 1
      BY <1>15 DEF RotateCopies, DbTypes, DbTypeOK
    <2>3. UNCHANGED <<snapshot, dbwal, store, writer, gate, calm, dbSpent>>
      BY <1>15 DEF RotateCopies
    <2> QED BY <2>1, <2>2, <2>3 DEF DbTypes, DbTypeOK
  <1>16. CASE RenameSnapshot
    BY <1>16 DEF RenameSnapshot, DbTypes, DbTypeOK
  <1>17. CASE RenameWal
    BY <1>17 DEF RenameWal, DbTypes, DbTypeOK
  <1>18. CASE ReopenWal
    BY <1>18 DEF ReopenWal, DbTypes, DbTypeOK
  <1>19. CASE CompactFails
    BY <1>19 DEF CompactFails, DbTypes, DbTypeOK
  <1>20. CASE RecoverRotation
    BY <1>20 DEF RecoverRotation, DbTypes, DbTypeOK
  <1>21. CASE CrashDb
    <2>1. dbwal' \in Seq(Frames)
      BY <1>21, <1>b DEF CrashDb, DbTypes, DbTypeOK
    <2>2. Replayed(snapshot, dbwal') \in Maps
      BY <2>1, ReplayedType DEF DbTypes, DbTypeOK
    <2> QED BY <1>21, <2>1, <2>2 DEF CrashDb, DbTypes, DbTypeOK
  <1>22. CASE ReopenDb
    BY <1>22, <1>a DEF ReopenDb, DbTypes, DbTypeOK
  <1>23. CASE UNCHANGED dbVars
    BY <1>23 DEF dbVars, DbTypes, DbTypeOK
  <1> QED
    BY <1>1, <1>2, <1>3, <1>4, <1>5, <1>6, <1>7, <1>8, <1>9, <1>10, <1>11, <1>12, <1>13,
       <1>14, <1>15, <1>16, <1>17, <1>18, <1>19, <1>20, <1>21, <1>22, <1>23
       DEF DbStep, WriterStep, CompactionStep

\* The queue and the gate, of which every step keeps what the invariant says.
LEMMA StructureStep ==
    DbTypes /\ QueueHoldsFrame /\ GateKeepsOut /\ [DbStep]_dbVars => QueueHoldsFrame' /\ GateKeepsOut'
  <1> SUFFICES ASSUME DbTypes, QueueHoldsFrame, GateKeepsOut, [DbStep]_dbVars
               PROVE  QueueHoldsFrame' /\ GateKeepsOut'
    OBVIOUS
  <1>1. ASSUME NEW keys \in (SUBSET Keys) \ {{}}, NEW dels \in (SUBSET keys) \ {keys},
               SetBegins(keys, dels)
        PROVE  QueueHoldsFrame' /\ GateKeepsOut'
    <2>1. wal.queue = <<>> /\ writer.pc = "idle" /\ gate = "free"
      BY <1>1 DEF SetBegins, QueueHoldsFrame
    <2>2. CASE WalOpen
      <3>1. PICK frame : /\ writer' = [NoWriter EXCEPT !.pc = "appended", !.frame = frame]
                         /\ wal' = Queued(frame)
        BY <1>1, <2>2 DEF SetBegins
      <3>2. wal'.queue = <<frame>>
        BY <2>1, <3>1 DEF Queued, DbTypes, DbTypeOK
      <3> QED BY <1>1, <2>1, <3>1, <3>2 DEF SetBegins, NoWriter, QueueHoldsFrame, GateKeepsOut
    <2>3. CASE ~WalOpen
      BY <1>1, <2>3 DEF SetBegins, QueueHoldsFrame, GateKeepsOut
    <2> QED BY <2>2, <2>3
  <1>2. ASSUME NEW k \in Keys, DelBegins(k) PROVE QueueHoldsFrame' /\ GateKeepsOut'
    BY <1>2 DEF DelBegins, QueueHoldsFrame, GateKeepsOut, DbTypes, DbTypeOK
  <1>3. CASE SetApplies
    BY <1>3 DEF SetApplies, QueueHoldsFrame, GateKeepsOut, DbTypes, DbTypeOK
  <1>4. CASE DelAppends
    BY <1>4 DEF DelAppends, NoWriter, Queued,
       QueueHoldsFrame, GateKeepsOut, DbTypes, DbTypeOK
  <1>5. CASE FlushWrites
    BY <1>5 DEF FlushWrites, QueueHoldsFrame, GateKeepsOut, DbTypes, DbTypeOK
  <1>6. CASE WriteReturns
    BY <1>6 DEF WriteReturns, NoWriter,
       QueueHoldsFrame, GateKeepsOut, DbTypes, DbTypeOK
  <1>7. CASE RestoreKey
    BY <1>7 DEF RestoreKey, NoWriter,
       QueueHoldsFrame, GateKeepsOut, DbTypes, DbTypeOK
  <1>8. CASE FlushFails
    BY <1>8 DEF FlushFails, QueueHoldsFrame, GateKeepsOut, DbTypes, DbTypeOK
  <1>9. CASE CompactBegins
    BY <1>9 DEF CompactBegins, QueueHoldsFrame, GateKeepsOut, DbTypes, DbTypeOK
  <1>10. CASE CompactTakesBase
    BY <1>10 DEF CompactTakesBase, NoCompaction,
       QueueHoldsFrame, GateKeepsOut, DbTypes, DbTypeOK
  <1>11. CASE CompactTakesEntries
    BY <1>11 DEF CompactTakesEntries, QueueHoldsFrame, GateKeepsOut, DbTypes, DbTypeOK
  <1>12. CASE CompactPrecopies
    <2>1. CopiedWal.pc = compaction.pc
      BY DEF CopiedWal, DbTypes, DbTypeOK
    <2> QED BY <1>12, <2>1 DEF CompactPrecopies, NoCompaction, QueueHoldsFrame, GateKeepsOut
  <1>13. CASE CompactAsksGate
    BY <1>13 DEF CompactAsksGate, QueueHoldsFrame, GateKeepsOut, DbTypes, DbTypeOK
  <1>14. CASE CompactTakesGate
    BY <1>14 DEF CompactTakesGate, QueueHoldsFrame, GateKeepsOut, DbTypes, DbTypeOK
  <1>15. CASE RotateCopies
    BY <1>15 DEF RotateCopies, CopiedWal,
       QueueHoldsFrame, GateKeepsOut, DbTypes, DbTypeOK
  <1>16. CASE RenameSnapshot
    BY <1>16 DEF RenameSnapshot, QueueHoldsFrame, GateKeepsOut, DbTypes, DbTypeOK
  <1>17. CASE RenameWal
    BY <1>17 DEF RenameWal, QueueHoldsFrame, GateKeepsOut, DbTypes, DbTypeOK
  <1>18. CASE ReopenWal
    BY <1>18 DEF ReopenWal, OpenWal, NoCompaction,
       QueueHoldsFrame, GateKeepsOut, DbTypes, DbTypeOK
  <1>19. CASE CompactFails
    BY <1>19 DEF CompactFails, NoCompaction,
       QueueHoldsFrame, GateKeepsOut, DbTypes, DbTypeOK
  <1>20. CASE RecoverRotation
    BY <1>20 DEF RecoverRotation, OpenWal, NoCompaction,
       QueueHoldsFrame, GateKeepsOut, DbTypes, DbTypeOK
  <1>21. CASE CrashDb
    BY <1>21 DEF CrashDb, OpenWal, NoWriter, NoCompaction,
       QueueHoldsFrame, GateKeepsOut, DbTypes, DbTypeOK
  <1>22. CASE ReopenDb
    BY <1>22 DEF ReopenDb, OpenWal,
       QueueHoldsFrame, GateKeepsOut, DbTypes, DbTypeOK
  <1>23. CASE UNCHANGED dbVars
    BY <1>23 DEF dbVars, QueueHoldsFrame, GateKeepsOut, DbTypes, DbTypeOK
  <1> QED
    BY <1>1, <1>2, <1>3, <1>4, <1>5, <1>6, <1>7, <1>8, <1>9, <1>10, <1>11, <1>12, <1>13,
       <1>14, <1>15, <1>16, <1>17, <1>18, <1>19, <1>20, <1>21, <1>22, <1>23
       DEF DbStep, WriterStep, CompactionStep

-----------------------------------------------------------------------------
(***************************************************************************)
(* What the files hold, step by step.                                      *)
(***************************************************************************)
LEMMA CalmBefore == [DbStep]_dbVars /\ calm' = "yes" => calm = "yes"
  <1> SUFFICES ASSUME [DbStep]_dbVars, calm' = "yes" PROVE calm = "yes"
    OBVIOUS
  <1>1. ASSUME NEW keys \in (SUBSET Keys) \ {{}}, NEW dels \in (SUBSET keys) \ {keys},
               SetBegins(keys, dels)
        PROVE  calm = "yes"
    BY <1>1 DEF SetBegins
  <1>2. ASSUME NEW k \in Keys, DelBegins(k) PROVE calm = "yes"
    BY <1>2 DEF DelBegins
  <1>3. CASE SetApplies
    BY <1>3 DEF SetApplies
  <1>4. CASE DelAppends
    BY <1>4 DEF DelAppends
  <1>5. CASE FlushWrites
    BY <1>5 DEF FlushWrites
  <1>6. CASE WriteReturns
    BY <1>6 DEF WriteReturns
  <1>7. CASE RestoreKey
    BY <1>7 DEF RestoreKey
  <1>8. CASE FlushFails
    BY <1>8 DEF FlushFails
  <1>9. CASE CompactBegins
    BY <1>9 DEF CompactBegins
  <1>10. CASE CompactTakesBase
    BY <1>10 DEF CompactTakesBase
  <1>11. CASE CompactTakesEntries
    BY <1>11 DEF CompactTakesEntries
  <1>12. CASE CompactPrecopies
    BY <1>12 DEF CompactPrecopies
  <1>13. CASE CompactAsksGate
    BY <1>13 DEF CompactAsksGate
  <1>14. CASE CompactTakesGate
    BY <1>14 DEF CompactTakesGate
  <1>15. CASE RotateCopies
    BY <1>15 DEF RotateCopies
  <1>16. CASE RenameSnapshot
    BY <1>16 DEF RenameSnapshot
  <1>17. CASE RenameWal
    BY <1>17 DEF RenameWal
  <1>18. CASE ReopenWal
    BY <1>18 DEF ReopenWal
  <1>19. CASE CompactFails
    BY <1>19 DEF CompactFails
  <1>20. CASE RecoverRotation
    BY <1>20 DEF RecoverRotation
  <1>21. CASE CrashDb
    BY <1>21 DEF CrashDb
  <1>22. CASE ReopenDb
    BY <1>22 DEF ReopenDb
  <1>23. CASE UNCHANGED dbVars
    BY <1>23 DEF dbVars
  <1> QED
    BY <1>1, <1>2, <1>3, <1>4, <1>5, <1>6, <1>7, <1>8, <1>9, <1>10, <1>11, <1>12, <1>13,
       <1>14, <1>15, <1>16, <1>17, <1>18, <1>19, <1>20, <1>21, <1>22, <1>23
       DEF DbStep, WriterStep, CompactionStep

LEMMA FilesUnchanged == UNCHANGED <<snapshot, dbwal>> => Recovered' = Recovered
  BY DEF Recovered

LEMMA SubSeqAppend ==
    ASSUME NEW S, NEW s \in Seq(S), NEW f \in S, NEW c \in Nat, c <= Len(s)
    PROVE  SubSeq(Append(s, f), c + 1, Len(s) + 1) = Append(SubSeq(s, c + 1, Len(s)), f)
  <1> DEFINE n == Len(s)
             t == Append(s, f)
  <1>1. /\ n \in Nat /\ c <= n /\ t \in Seq(S) /\ Len(t) = n + 1 /\ t[n + 1] = f
        /\ t = s \o <<f>> /\ <<f>> \in Seq(S)
    BY LenProperties, AppendProperties, AppendIsConcat
  <1> HIDE DEF n, t
  <1>2. SubSeq(t, c + 1, n + 1) = SubSeq(t, c + 1, n) \o <<f>>
    <2>1. c + 1 \in 1 .. Len(t) /\ n + 1 \in (c + 1) .. Len(t) /\ (n + 1) - 1 = n
      BY <1>1
    <2>2. SubSeq(t, c + 1, n + 1) = SubSeq(t, c + 1, (n + 1) - 1) \o <<t[n + 1]>>
      BY <1>1, <2>1, SubSeqRecursiveSecond
    <2> QED BY <1>1, <2>1, <2>2
  <1>3. SubSeq(t, c + 1, n) = SubSeq(s, c + 1, n)
    <2>1. CASE c = n
      BY <1>1, <2>1, SubSeqEmpty
    <2>2. CASE c < n
      <3>1. c + 1 \in 1 .. Len(s) /\ n \in 1 .. Len(s)
        BY <1>1, <2>2 DEF n
      <3> QED BY <1>1, <3>1, SubSeqOfConcat1
    <2> QED BY <1>1, <2>1, <2>2
  <1>4. SubSeq(s, c + 1, n) \in Seq(S)
    <2>1. \A i \in (c + 1) .. n : s[i] \in S
      BY <1>1, ElementOfSeq DEF n
    <2> QED BY <1>1, <2>1, SubSeqProperties
  <1>5. Append(SubSeq(s, c + 1, n), f) = SubSeq(s, c + 1, n) \o <<f>>
    BY <1>4, AppendIsConcat
  <1> QED BY <1>2, <1>3, <1>5 DEF n, t

\* A frame at the end of the WAL is at the end of what is still to be copied.
LEMMA UncopiedAppend ==
    ASSUME DbTypes, NEW f \in Frames, compaction.copied <= Len(dbwal),
           dbwal' = Append(dbwal, f), UNCHANGED compaction
    PROVE  Uncopied' = Append(Uncopied, f)
  <1>1. dbwal \in Seq(Frames) /\ compaction.copied \in Nat
    BY DEF DbTypes, DbTypeOK
  <1>2. Len(dbwal') = Len(dbwal) + 1
    BY <1>1, AppendProperties
  <1>3. Uncopied' = SubSeq(Append(dbwal, f), compaction.copied + 1, Len(dbwal) + 1)
    BY <1>2 DEF Uncopied
  <1> QED BY <1>1, <1>3, SubSeqAppend DEF Uncopied

LEMMA ConcatAppend ==
    ASSUME NEW s \in Seq(Frames), NEW t \in Seq(Frames), NEW f \in Frames
    PROVE  s \o Append(t, f) = Append(s \o t, f)
  <1>1. <<f>> \in Seq(Frames) /\ s \o t \in Seq(Frames)
    BY ConcatProperties
  <1>2. Append(t, f) = t \o <<f>> /\ Append(s \o t, f) = (s \o t) \o <<f>>
    BY <1>1, AppendIsConcat
  <1>3. PICK u \in Seq(Frames) : u = <<f>>
    BY <1>1
  <1>4. (s \o t) \o u = s \o (t \o u)
    BY ConcatAssociative
  <1> QED BY <1>2, <1>3, <1>4, Zenon

LEMMA FrameWritten ==
    ASSUME DbTypes, NEW f \in Frames, dbwal' = Append(dbwal, f), UNCHANGED snapshot
    PROVE  Recovered' = Applied(f, Recovered)
  BY ReplayedAppend DEF Recovered, DbTypes, DbTypeOK

\* A frame that reaches the file while a compaction is copying.
LEMMA FrameWrittenTracks ==
    ASSUME DbTypes, CompactionTracks, NEW f \in Frames, dbwal' = Append(dbwal, f),
           UNCHANGED <<snapshot, compaction>>,
           compaction.pc \in {"idle", "base", "entries", "copy", "gate"}
    PROVE  CompactionTracks'
  <1> DEFINE R == Recovered
             U == Uncopied
             E == compaction.entries
             T == compaction.tmpWal
  <1>1. R \in Maps /\ E \in Maps /\ U \in Seq(Frames) /\ T \in Seq(Frames) /\ dbwal \in Seq(Frames)
    BY ReplayedType, UncopiedType DEF DbTypes, DbTypeOK, Recovered
  <1>2. Recovered' = Applied(f, R)
    BY FrameWritten
  <1>3. Len(dbwal') = Len(dbwal) + 1 /\ Len(dbwal) \in Nat /\ compaction.copied \in Nat
    BY <1>1, AppendProperties DEF DbTypes, DbTypeOK
  <1>4. CASE compaction.pc \in {"idle", "base"}
    BY <1>4 DEF CompactionTracks
  <1>5. ASSUME compaction.pc \in {"entries", "copy", "gate"}
        PROVE  compaction'.copied <= Len(dbwal') /\ Uncopied' = Append(U, f)
    <2>1. compaction.copied <= Len(dbwal)
      BY <1>5 DEF CompactionTracks
    <2> QED BY <2>1, <1>3, UncopiedAppend
  <1>6. CASE compaction.pc = "entries"
    <2>1. Replayed(Applied(f, R), Append(U, f)) = Applied(f, Replayed(Applied(f, R), U))
      BY <1>1, ReplayedAppend, AppliedType
    <2>2. Applied(f, Replayed(Applied(f, R), U)) = Applied(f, Replayed(R, U))
      BY <1>1, ReplayedOverApplied
    <2>3. Replayed(R, U) = R
      BY <1>6 DEF CompactionTracks
    <2>4. Replayed(Recovered', Uncopied') = Recovered'
      BY <2>1, <2>2, <2>3, <1>2, <1>5, <1>6
    <2> QED BY <2>4, <1>5, <1>6 DEF CompactionTracks
  <1>7. CASE compaction.pc \in {"copy", "gate"}
    <2>1. T \o Append(U, f) = Append(T \o U, f) /\ T \o U \in Seq(Frames)
      <3> HIDE DEF T, U
      <3>1. T \o Append(U, f) = Append(T \o U, f)
        BY ONLY f \in Frames, <1>1, ConcatAppend
      <3>2. T \o U \in Seq(Frames)
        BY <1>1, ConcatProperties, Zenon
      <3> QED BY <3>1, <3>2
    <2>2. Replayed(E, Append(T \o U, f)) = Applied(f, Replayed(E, T \o U))
      BY <1>1, <2>1, ReplayedAppend
    <2>3. Replayed(E, Append(dbwal, f)) = Applied(f, Replayed(E, dbwal))
      BY <1>1, ReplayedAppend
    <2>4. Replayed(E, T \o U) = R /\ Replayed(E, dbwal) = R
      BY <1>7 DEF CompactionTracks
    <2>5. Replayed(E, T \o Uncopied') = Recovered' /\ Replayed(E, dbwal') = Recovered'
      BY <2>1, <2>2, <2>3, <2>4, <1>2, <1>5, <1>7
    <2> QED BY <2>5, <1>5, <1>7 DEF CompactionTracks
  <1> QED BY <1>4, <1>6, <1>7

\* The frame in the queue is the one of the write under way.
LEMMA FlushedFrame ==
    ASSUME DbTypes, QueueHoldsFrame, wal.queue # <<>>
    PROVE  /\ writer.pc \in {"appended", "waiting"} /\ writer.outcome = "pending"
           /\ wal.queue = <<writer.frame>> /\ writer.frame \in Frames
           /\ dbwal \o wal.queue = Append(dbwal, writer.frame)
  BY AppendIsConcat DEF QueueHoldsFrame, DbTypes, DbTypeOK

\* A rename changes nothing that recovery finds.
LEMMA RenamesKeep ==
    ASSUME DbTypes, CompactionTracks, RenameSnapshot \/ RenameWal
    PROVE  Recovered' = Recovered
  BY DEF RenameSnapshot, RenameWal, CompactionTracks, Recovered

LEMMA StoreTracksStep ==
    DbInv /\ [DbStep]_dbVars /\ calm' = "yes" => StoreTracks'
  <1> SUFFICES ASSUME DbInv, [DbStep]_dbVars, calm' = "yes" PROVE StoreTracks'
    OBVIOUS
  <1>a. DbTypes /\ QueueHoldsFrame /\ GateKeepsOut /\ StoreTracks /\ CompactionTracks
    BY CalmBefore DEF DbInv
  <1>b. store \in Maps /\ writer.previous \in Maps /\ writer.frame \in Frames
        /\ writer.pc \in {"idle", "appended", "deleting", "waiting"}
        /\ writer.outcome \in {"pending", "ok", "failed"}
    BY <1>a DEF DbTypes, DbTypeOK
  <1>c. writer = [pc |-> writer.pc, frame |-> writer.frame, outcome |-> writer.outcome,
                  previous |-> writer.previous]
    BY <1>a DEF DbTypes, DbTypeOK
  <1>d. wal = [state |-> wal.state, queue |-> wal.queue, failed |-> wal.failed]
    BY <1>a DEF DbTypes, DbTypeOK
  <1> USE <1>a, <1>b, <1>c, <1>d, FilesUnchanged
  <1>1. ASSUME NEW keys \in (SUBSET Keys) \ {{}}, NEW dels \in (SUBSET keys) \ {keys},
               SetBegins(keys, dels)
        PROVE  StoreTracks'
    <2>1. CASE WalOpen
      <3>1. PICK f : writer' = [NoWriter EXCEPT !.pc = "appended", !.frame = f] /\ wal' = Queued(f)
        BY <1>1, <2>1 DEF SetBegins
      <3> QED BY <1>1, <3>1 DEF SetBegins, NoWriter, Queued, QueueHoldsFrame, StoreTracks, Before
    <2>2. CASE ~WalOpen
      BY <1>1, <2>2 DEF SetBegins, StoreTracks, Before
    <2> QED BY <2>1, <2>2
  <1>2. ASSUME NEW k \in Keys, DelBegins(k) PROVE StoreTracks'
    <2> DEFINE f == [j \in {k} |-> 0]
    <2>1. [store EXCEPT ![k] = 0] = Applied(f, store)
      BY DEF Applied, Maps
    <2> HIDE DEF f
    <2>2. /\ writer' = [pc |-> "deleting", frame |-> f, outcome |-> "pending", previous |-> store]
          /\ store' = Applied(f, store) /\ writer.pc = "idle"
      BY <1>2, <2>1 DEF DelBegins, f
    <2>3. Recovered' = store /\ wal'.failed = "no"
      BY <1>2, <2>2 DEF DelBegins, QueueHoldsFrame, StoreTracks, Before
    <2>4. /\ writer'.pc = "deleting" /\ writer'.outcome = "pending"
          /\ writer'.frame = f /\ writer'.previous = store
      BY <2>2
    <2> QED BY <2>2, <2>3, <2>4 DEF StoreTracks, Before
  <1>3. CASE SetApplies
    BY <1>3 DEF SetApplies, StoreTracks, Before
  <1>4. CASE DelAppends
    BY <1>4 DEF DelAppends, Queued, NoWriter, QueueHoldsFrame, StoreTracks, Before
  <1>5. CASE FlushWrites
    <2>1. dbwal' = Append(dbwal, writer.frame) /\ writer.outcome = "pending"
      BY <1>5, FlushedFrame DEF FlushWrites
    <2>2. Recovered' = Applied(writer.frame, Recovered)
      BY <1>5, <2>1, FrameWritten DEF FlushWrites
    <2> QED BY <1>5, <2>1, <2>2 DEF FlushWrites, StoreTracks, Before
  <1>6. CASE WriteReturns
    BY <1>6 DEF WriteReturns, NoWriter, StoreTracks, Before
  <1>7. CASE RestoreKey
    <2>1. store = Applied(writer.frame, writer.previous) /\ Recovered = writer.previous
      BY <1>7 DEF RestoreKey, StoreTracks, Before
    <2>2. store' = writer.previous
      BY <1>7, <2>1 DEF RestoreKey, Applied, Maps
    <2> QED BY <1>7, <2>1, <2>2 DEF RestoreKey, NoWriter, StoreTracks, Before
  <1>8. CASE FlushFails
    <2>1. wal' = [wal EXCEPT !.queue = <<>>] /\ dbwal' = dbwal /\ writer.outcome = "pending"
      BY <1>8, FlushedFrame DEF FlushFails
    <2> QED BY <1>8, <2>1 DEF FlushFails, StoreTracks, Before
  <1>9. CASE CompactBegins
    BY <1>9 DEF CompactBegins, StoreTracks, Before
  <1>10. CASE CompactTakesBase
    BY <1>10 DEF CompactTakesBase, StoreTracks, Before
  <1>11. CASE CompactTakesEntries
    BY <1>11 DEF CompactTakesEntries, StoreTracks, Before
  <1>12. CASE CompactPrecopies
    BY <1>12 DEF CompactPrecopies, StoreTracks, Before
  <1>13. CASE CompactAsksGate
    BY <1>13 DEF CompactAsksGate, StoreTracks, Before
  <1>14. CASE CompactTakesGate
    BY <1>14 DEF CompactTakesGate, StoreTracks, Before
  <1>15. CASE RotateCopies
    BY <1>15 DEF RotateCopies, StoreTracks, Before
  <1>16. CASE RenameSnapshot
    BY <1>16, RenamesKeep DEF RenameSnapshot, StoreTracks, Before
  <1>17. CASE RenameWal
    BY <1>17, RenamesKeep DEF RenameWal, StoreTracks, Before
  <1>18. CASE ReopenWal
    BY <1>18 DEF ReopenWal, OpenWal, QueueHoldsFrame, StoreTracks, Before
  <1>19. CASE CompactFails
    BY <1>19 DEF CompactFails, StoreTracks, Before
  <1>20. CASE RecoverRotation
    BY <1>20 DEF RecoverRotation, OpenWal, QueueHoldsFrame, StoreTracks, Before
  <1>21. CASE CrashDb
    BY <1>21 DEF CrashDb, OpenWal, NoWriter, Recovered, StoreTracks, Before
  <1>22. CASE ReopenDb
    BY <1>22 DEF ReopenDb, OpenWal, QueueHoldsFrame, StoreTracks, Before
  <1>23. CASE UNCHANGED dbVars
    BY <1>23 DEF dbVars, StoreTracks, Before
  <1> QED
    BY <1>1, <1>2, <1>3, <1>4, <1>5, <1>6, <1>7, <1>8, <1>9, <1>10, <1>11, <1>12, <1>13,
       <1>14, <1>15, <1>16, <1>17, <1>18, <1>19, <1>20, <1>21, <1>22, <1>23
       DEF DbStep, WriterStep, CompactionStep

LEMMA CompactionTracksStep ==
    DbInv /\ DbTypes' /\ [DbStep]_dbVars /\ calm' = "yes" => CompactionTracks'
  <1> SUFFICES ASSUME DbInv, DbTypes', [DbStep]_dbVars, calm' = "yes" PROVE CompactionTracks'
    OBVIOUS
  <1>a. DbTypes /\ QueueHoldsFrame /\ GateKeepsOut /\ StoreTracks /\ CompactionTracks
    BY CalmBefore DEF DbInv
  <1>b. /\ store \in Maps /\ Recovered \in Maps /\ dbwal \in Seq(Frames) /\ Len(dbwal) \in Nat
        /\ compaction.entries \in Maps /\ compaction.tmpWal \in Seq(Frames)
        /\ Uncopied \in Seq(Frames) /\ snapshot \in Maps
    BY <1>a, UncopiedType, ReplayedType DEF DbTypes, DbTypeOK, Recovered
  <1>c. compaction = [pc |-> compaction.pc, entries |-> compaction.entries,
                      tmpWal |-> compaction.tmpWal, copied |-> compaction.copied]
    BY <1>a DEF DbTypes, DbTypeOK
  <1>d. /\ CopiedWal.pc = compaction.pc /\ CopiedWal.entries = compaction.entries
        /\ CopiedWal.tmpWal = compaction.tmpWal \o Uncopied /\ CopiedWal.copied = Len(dbwal)
    BY <1>c DEF CopiedWal, Uncopied
  <1>e. UNCHANGED <<snapshot, dbwal, compaction>> => CompactionTracks'
    BY <1>a DEF CompactionTracks, Recovered, Uncopied
  <1>f. UNCHANGED <<snapshot, dbwal>> /\ compaction' = NoCompaction => CompactionTracks'
    BY DEF CompactionTracks, NoCompaction
  <1> USE <1>a, <1>b
  <1>1. ASSUME NEW keys \in (SUBSET Keys) \ {{}}, NEW dels \in (SUBSET keys) \ {keys},
               SetBegins(keys, dels)
        PROVE  CompactionTracks'
    BY <1>1, <1>e DEF SetBegins
  <1>2. ASSUME NEW k \in Keys, DelBegins(k) PROVE CompactionTracks'
    BY <1>2, <1>e DEF DelBegins
  <1>3. CASE SetApplies
    BY <1>3, <1>e DEF SetApplies
  <1>4. CASE DelAppends
    BY <1>4, <1>e DEF DelAppends
  <1>5. CASE FlushWrites
    <2>1. dbwal' = Append(dbwal, writer.frame) /\ writer.frame \in Frames /\ writer.pc # "idle"
      BY <1>5, FlushedFrame DEF FlushWrites
    <2>2. compaction.pc \in {"idle", "base", "entries", "copy", "gate"}
      BY <2>1 DEF GateKeepsOut, DbTypes, DbTypeOK
    <2> QED BY <1>5, <2>1, <2>2, FrameWrittenTracks DEF FlushWrites
  <1>6. CASE WriteReturns
    BY <1>6, <1>e DEF WriteReturns
  <1>7. CASE RestoreKey
    BY <1>7, <1>e DEF RestoreKey
  <1>8. CASE FlushFails
    <2>1. dbwal' = dbwal
      BY <1>8 DEF FlushFails
    <2> QED BY <1>8, <2>1, <1>e DEF FlushFails
  <1>9. CASE CompactBegins
    BY <1>9, <1>c DEF CompactBegins, CompactionTracks
  <1>10. CASE CompactTakesBase
    <2>1. compaction' = [compaction EXCEPT !.pc = "entries", !.copied = Len(dbwal)] /\ dbwal' = dbwal
          /\ Recovered' = Recovered
      BY <1>10, FilesUnchanged DEF CompactTakesBase, StoreTracks
    <2>2. Uncopied' = <<>>
      BY <2>1, <1>c, SubSeqEmpty DEF Uncopied
    <2>3. Replayed(Recovered', Uncopied') = Recovered'
      BY <2>1, <2>2, ReplayedNone
    <2>4. compaction.tmpWal = <<>>
      BY <1>10 DEF CompactTakesBase, CompactionTracks
    <2> QED BY <2>1, <2>3, <2>4, <1>c DEF CompactionTracks
  <1>11. CASE CompactTakesEntries
    <2>1. compaction.pc = "entries" /\ compaction' = [compaction EXCEPT !.pc = "copy", !.entries = store]
          /\ writer.pc = "idle" /\ dbwal' = dbwal /\ Recovered' = Recovered
      BY <1>11, FilesUnchanged DEF CompactTakesEntries
    <2>2. store = Recovered
      BY <2>1 DEF StoreTracks, Before, QueueHoldsFrame
    <2>3. compaction'.tmpWal = <<>> /\ Uncopied' = Uncopied /\ compaction'.entries = Recovered
          /\ compaction'.pc = "copy" /\ compaction'.copied = compaction.copied
      BY <2>1, <2>2, <1>c DEF CompactionTracks, Uncopied
    <2>4. compaction'.tmpWal \o Uncopied' = Uncopied
      BY <2>3, ConcatEmptySeq
    <2>5. Replayed(Recovered, Uncopied) = Recovered /\ compaction.copied <= Len(dbwal)
      BY <2>1 DEF CompactionTracks
    <2>6. Replayed(Recovered, dbwal) = Recovered
      BY ReplayedTwice DEF Recovered
    <2> QED BY <2>1, <2>3, <2>4, <2>5, <2>6 DEF CompactionTracks
  <1>12. CASE CompactPrecopies
    <2>1. compaction' = CopiedWal /\ dbwal' = dbwal /\ Recovered' = Recovered /\ compaction.pc = "copy"
      BY <1>12, FilesUnchanged DEF CompactPrecopies, StoreTracks
    <2>2. Uncopied' = <<>>
      BY <2>1, <1>d, SubSeqEmpty DEF Uncopied
    <2>3. compaction.tmpWal \o Uncopied \in Seq(Frames)
      BY ConcatProperties
    <2>4. compaction'.tmpWal \o Uncopied' = compaction.tmpWal \o Uncopied
      BY <2>1, <2>2, <2>3, <1>d, ConcatEmptySeq
    <2> QED BY <2>1, <2>4, <1>d DEF CompactionTracks
  <1>13. CASE CompactAsksGate
    <2>1. Uncopied' = Uncopied /\ Recovered' = Recovered /\ dbwal' = dbwal
      BY <1>13, <1>c, FilesUnchanged DEF CompactAsksGate, Uncopied
    <2> QED BY <1>13, <2>1, <1>c DEF CompactAsksGate, CompactionTracks
  <1>14. CASE CompactTakesGate
    <2>1. Uncopied' = Uncopied /\ Recovered' = Recovered /\ dbwal' = dbwal
      BY <1>14, <1>c, FilesUnchanged DEF CompactTakesGate, Uncopied
    <2> QED BY <1>14, <2>1, <1>c DEF CompactTakesGate, CompactionTracks
  <1>15. CASE RotateCopies
    <2>1. compaction' = [CopiedWal EXCEPT !.pc = "renameSnapshot"] /\ dbwal' = dbwal
          /\ Recovered' = Recovered /\ compaction.pc = "rotate"
      BY <1>15, FilesUnchanged DEF RotateCopies, StoreTracks
    <2>2. /\ compaction'.pc = "renameSnapshot" /\ compaction'.entries = compaction.entries
          /\ compaction'.tmpWal = compaction.tmpWal \o Uncopied
      BY <2>1, <1>c DEF CopiedWal, Uncopied
    <2> QED BY <2>1, <2>2 DEF CompactionTracks
  <1>16. CASE RenameSnapshot
    BY <1>16, <1>c, RenamesKeep DEF RenameSnapshot, CompactionTracks
  <1>17. CASE RenameWal
    BY <1>17, <1>c DEF RenameWal, CompactionTracks
  <1>18. CASE ReopenWal
    BY <1>18, <1>f DEF ReopenWal
  <1>19. CASE CompactFails
    <2>1. CASE compaction' = [compaction EXCEPT !.pc = "recover"]
      BY <2>1, <1>c DEF CompactionTracks
    <2> QED BY <1>19, <2>1, <1>f DEF CompactFails
  <1>20. CASE RecoverRotation
    BY <1>20, <1>f DEF RecoverRotation
  <1>21. CASE CrashDb
    BY <1>21 DEF CrashDb, NoCompaction, CompactionTracks
  <1>22. CASE ReopenDb
    BY <1>22, <1>e DEF ReopenDb
  <1>23. CASE UNCHANGED dbVars
    BY <1>23, <1>e DEF dbVars
  <1> QED
    BY <1>1, <1>2, <1>3, <1>4, <1>5, <1>6, <1>7, <1>8, <1>9, <1>10, <1>11, <1>12, <1>13,
       <1>14, <1>15, <1>16, <1>17, <1>18, <1>19, <1>20, <1>21, <1>22, <1>23
       DEF DbStep, WriterStep, CompactionStep

-----------------------------------------------------------------------------
(***************************************************************************)
(* The theorems.                                                           *)
(***************************************************************************)
LEMMA DbInvInit == DbInit => DbInv
  <1> SUFFICES ASSUME DbInit PROVE DbInv
    OBVIOUS
  <1>1. DbTypes
    BY DbTypesInit
  <1>2. QueueHoldsFrame /\ GateKeepsOut
    BY DEF DbInit, QueueHoldsFrame, GateKeepsOut, OpenWal, NoWriter, NoCompaction
  <1>3. Recovered = store
    BY ReplayedNone, ConstantTypes DEF DbInit, Recovered
  <1>4. StoreTracks
    BY <1>3 DEF DbInit, StoreTracks, Before, OpenWal, NoWriter
  <1>5. CompactionTracks
    BY DEF DbInit, CompactionTracks, NoCompaction
  <1> QED BY <1>1, <1>2, <1>4, <1>5 DEF DbInv

\* The invariant of every behaviour of the database.
THEOREM DbInvariant == DbSpec => []DbInv
  <1>1. DbInv /\ [DbStep]_dbVars => DbInv'
    <2> SUFFICES ASSUME DbInv, [DbStep]_dbVars PROVE DbInv'
      OBVIOUS
    <2>1. DbTypes'
      BY DbTypesStep DEF DbInv
    <2>2. QueueHoldsFrame' /\ GateKeepsOut'
      BY StructureStep DEF DbInv
    <2>3. calm' = "yes" => StoreTracks' /\ CompactionTracks'
      BY <2>1, StoreTracksStep, CompactionTracksStep
    <2> QED BY <2>1, <2>2, <2>3 DEF DbInv
  <1> QED BY <1>1, DbInvInit, PTL DEF DbSpec

\* The variables of minidb keep their types, and at most one frame is queued
\* (write_lock is held until the frame's outcome is known).
THEOREM DbTypeCorrect == DbSpec => []DbTypeOK
  <1>1. DbInv => DbTypeOK
    BY DEF DbInv, DbTypes
  <1> QED BY <1>1, DbInvariant, PTL

\* When no write is under way the store is what recovery makes of the files
\* (run_compaction's rotation, restore_key after a failed write_batch, and
\* recover after a crash), whatever fails in between.
THEOREM StoreRecoverable == DbSpec => []StoreIsRecoverable
  <1>1. DbInv => StoreIsRecoverable
    BY DEF DbInv, StoreTracks, Before, QueueHoldsFrame, StoreIsRecoverable
  <1> QED BY <1>1, DbInvariant, PTL

LEMMA ChangedIsApplied == Durable!Changed = Applied(writer.frame, Recovered)
  BY DEF Durable!Changed, Applied, Recovered, Replayed

LEMMA DurableStep ==
    DbInv /\ DbStep /\ calm' = "yes" => Durable!MapNext \/ UNCHANGED <<Recovered, Phase>>
  <1> SUFFICES ASSUME DbInv, [DbStep]_dbVars, calm' = "yes"
               PROVE  Durable!MapNext \/ UNCHANGED <<Recovered, Phase>>
    OBVIOUS
  <1> DEFINE Kept == UNCHANGED <<Recovered, Phase>>
  <1>a. DbTypes /\ QueueHoldsFrame /\ GateKeepsOut /\ StoreTracks /\ CompactionTracks
    BY CalmBefore DEF DbInv
  <1>b. /\ writer.pc \in {"idle", "appended", "deleting", "waiting"}
        /\ writer.outcome \in {"pending", "ok", "failed"}
        /\ writer = [pc |-> writer.pc, frame |-> writer.frame, outcome |-> writer.outcome,
                     previous |-> writer.previous]
    BY <1>a DEF DbTypes, DbTypeOK
  <1>c. UNCHANGED <<snapshot, dbwal, writer>> => Kept
    BY FilesUnchanged DEF Phase
  <1> USE <1>a, <1>b, FilesUnchanged
  <1>1. ASSUME NEW keys \in (SUBSET Keys) \ {{}}, NEW dels \in (SUBSET keys) \ {keys},
               SetBegins(keys, dels)
        PROVE  Durable!MapNext \/ UNCHANGED <<Recovered, Phase>>
    <2>1. CASE WalOpen
      <3>1. PICK f : writer' = [NoWriter EXCEPT !.pc = "appended", !.frame = f]
        BY <1>1, <2>1 DEF SetBegins
      <3> QED BY <1>1, <3>1 DEF SetBegins, NoWriter, Phase, Durable!MapNext, Durable!Call
    <2>2. CASE ~WalOpen
      BY <1>1, <2>2, <1>c DEF SetBegins
    <2> QED BY <2>1, <2>2
  <1>2. ASSUME NEW k \in Keys, DelBegins(k) PROVE Durable!MapNext \/ UNCHANGED <<Recovered, Phase>>
    BY <1>2 DEF DelBegins, Phase, Durable!MapNext, Durable!Call
  <1>3. CASE SetApplies
    BY <1>3 DEF SetApplies, Phase
  <1>4. CASE DelAppends
    <2>1. CASE WalOpen
      BY <1>4, <2>1 DEF DelAppends, Phase
    <2>2. CASE ~WalOpen
      BY <1>4, <2>2 DEF DelAppends, NoWriter, Phase, Durable!MapNext, Durable!Crash
    <2> QED BY <2>1, <2>2
  <1>5. CASE FlushWrites
    <2>1. /\ dbwal' = Append(dbwal, writer.frame) /\ writer.outcome = "pending"
          /\ writer.pc # "idle" /\ writer.frame \in Frames
      BY <1>5, FlushedFrame DEF FlushWrites
    <2>2. Recovered' = Durable!Changed
      BY <1>5, <2>1, FrameWritten, ChangedIsApplied DEF FlushWrites
    <2> QED BY <1>5, <2>1, <2>2 DEF FlushWrites, Phase, Durable!MapNext, Durable!Effect
  <1>6. CASE WriteReturns
    BY <1>6 DEF WriteReturns, NoWriter, Phase, Durable!MapNext, Durable!Return
  <1>7. CASE RestoreKey
    BY <1>7 DEF RestoreKey, NoWriter, Phase, Durable!MapNext, Durable!Return
  <1>8. CASE FlushFails
    <2>1. dbwal' = dbwal /\ writer.outcome = "pending" /\ writer.pc # "idle"
      BY <1>8, FlushedFrame DEF FlushFails
    <2> QED BY <1>8, <2>1 DEF FlushFails, Phase, Durable!MapNext, Durable!Refuse
  <1>9. CASE CompactBegins
    BY <1>9, <1>c DEF CompactBegins
  <1>10. CASE CompactTakesBase
    BY <1>10, <1>c DEF CompactTakesBase
  <1>11. CASE CompactTakesEntries
    BY <1>11, <1>c DEF CompactTakesEntries
  <1>12. CASE CompactPrecopies
    BY <1>12, <1>c DEF CompactPrecopies
  <1>13. CASE CompactAsksGate
    BY <1>13, <1>c DEF CompactAsksGate
  <1>14. CASE CompactTakesGate
    BY <1>14, <1>c DEF CompactTakesGate
  <1>15. CASE RotateCopies
    BY <1>15, <1>c DEF RotateCopies
  <1>16. CASE RenameSnapshot
    BY <1>16, RenamesKeep DEF RenameSnapshot, Phase
  <1>17. CASE RenameWal
    BY <1>17, RenamesKeep DEF RenameWal, Phase
  <1>18. CASE ReopenWal
    BY <1>18, <1>c DEF ReopenWal
  <1>19. CASE CompactFails
    BY <1>19, <1>c DEF CompactFails
  <1>20. CASE RecoverRotation
    BY <1>20, <1>c DEF RecoverRotation
  <1>21. CASE CrashDb
    <2>1. Phase' = "idle"
      BY <1>21 DEF CrashDb, NoWriter, Phase
    <2>2. CASE dbwal' = dbwal
      BY <1>21, <2>1, <2>2 DEF CrashDb, Durable!MapNext, Durable!Crash
    <2>3. CASE dbwal' = dbwal \o wal.queue /\ wal.queue = <<>>
      <3>1. dbwal \o <<>> = dbwal
        BY ConcatEmptySeq DEF DbTypes, DbTypeOK
      <3> QED BY <2>2, <2>3, <3>1
    <2>4. CASE dbwal' = dbwal \o wal.queue /\ wal.queue # <<>>
      <3>1. /\ dbwal' = Append(dbwal, writer.frame) /\ writer.outcome = "pending"
            /\ writer.pc # "idle" /\ writer.frame \in Frames
        BY <2>4, FlushedFrame
      <3>2. Recovered' = Durable!Changed
        BY <1>21, <3>1, FrameWritten, ChangedIsApplied DEF CrashDb
      <3> QED BY <2>1, <3>1, <3>2 DEF Phase, Durable!MapNext, Durable!Crash
    <2> QED BY <1>21, <2>2, <2>3, <2>4 DEF CrashDb
  <1>22. CASE ReopenDb
    BY <1>22, <1>c DEF ReopenDb
  <1>23. CASE UNCHANGED dbVars
    BY <1>23, <1>c DEF dbVars
  <1> QED
    BY <1>1, <1>2, <1>3, <1>4, <1>5, <1>6, <1>7, <1>8, <1>9, <1>10, <1>11, <1>12, <1>13,
       <1>14, <1>15, <1>16, <1>17, <1>18, <1>19, <1>20, <1>21, <1>22, <1>23
       DEF DbStep, WriterStep, CompactionStep

\* The directory implements DurableMap: a step of set, del, flush_loop,
\* run_compaction, of a failure or of a crash is an operation of the map that
\* recovery would find, or changes neither that map nor the write's outcome.
THEOREM DirectoryIsDurable == DbSpec => ImplementsDurableMap
  <1>1. DbInv /\ [DbStep]_dbVars
          => [calm' = "yes" => Durable!MapNext \/ UNCHANGED <<Recovered, Phase>>]_dbVars
    BY DurableStep
  <1> QED BY <1>1, DbInvariant, PTL DEF DbSpec, ImplementsDurableMap

-----------------------------------------------------------------------------
(***************************************************************************)
(* The lock file.                                                          *)
(***************************************************************************)
\* Pids are positive, so that neither Stale nor NoFile is one of them.
LEMMA PidType ==
    /\ \A l \in Locks : Pid(l) \in Pids
    /\ \A p \in Pids : p \in Nat \ {0}
  BY LockAssumption DEF Pid, Pids, Locks

-----------------------------------------------------------------------------
(***************************************************************************)
(* Types, and the watches of the living.                                   *)
(***************************************************************************)
\* The watch of an attempt names its lock file; one that was left is nobody's.
LEMMA WatchNames ==
    /\ \A l, m \in Locks : WatchOf(l) = WatchOf(m) => l = m
    /\ \A l, m \in Locks : WatchOf(l) # LeftWatch(m)
    /\ \A l \in Locks : WatchOf(l) \in Pids \X (Locks \cup {0}) /\ LeftWatch(l) \in Pids \X (Locks \cup {0})
    /\ \A l \in Locks : WatchOf(l)[1] = Pid(l) /\ LeftWatch(l)[1] = Pid(l)
    /\ \A l \in Locks, p \in Pids : WatchOf(l) # <<p, 0>>
  <1>1. 0 \notin Locks
    BY DEF Locks
  <1> QED BY <1>1, PidType DEF WatchOf, LeftWatch

LEMMA LockTypesInit == LockInit => LockTypeOK
  BY PidType DEF LockInit, LockTypeOK

LEMMA LockTypesStep == LockTypeOK /\ [LockStep]_lockVars => LockTypeOK'
  <1> SUFFICES ASSUME LockTypeOK, [LockStep]_lockVars PROVE LockTypeOK'
    OBVIOUS
  <1> USE PidType DEF LockTypeOK, At, Goto, Alive, DeadWatches, pid_alive, WatchOf, LeftWatch
  <1>1. ASSUME NEW l \in Locks, Watch(l) PROVE LockTypeOK'
    BY <1>1 DEF Watch
  <1>2. ASSUME NEW l \in Locks, ReapDeadWatches(l) PROVE LockTypeOK'
    BY <1>2 DEF ReapDeadWatches
  <1>3. ASSUME NEW l \in Locks, TryCreate(l) PROVE LockTypeOK'
    BY <1>3 DEF TryCreate
  <1>4. ASSUME NEW l \in Locks, Inspect(l) PROVE LockTypeOK'
    BY <1>4 DEF Inspect
  <1>5. ASSUME NEW l \in Locks, InspectGate(l) PROVE LockTypeOK'
    BY <1>5 DEF InspectGate
  <1>6. ASSUME NEW l \in Locks, RenameBid(l) PROVE LockTypeOK'
    BY <1>6 DEF RenameBid
  <1>7. ASSUME NEW l \in Locks, SettleInspect(l) PROVE LockTypeOK'
    BY <1>7 DEF SettleInspect
  <1>8. ASSUME NEW l \in Locks, SettleScan(l) PROVE LockTypeOK'
    BY <1>8 DEF SettleScan
  <1>9. ASSUME NEW l \in Locks, RemoveWatch(l) PROVE LockTypeOK'
    <2> HIDE DEF WatchOf, LeftWatch
    <2> QED BY <1>9, WatchNames DEF RemoveWatch
  <1>10. ASSUME NEW l \in Locks, RenewBegins(l) PROVE LockTypeOK'
    BY <1>10 DEF RenewBegins
  <1>11. ASSUME NEW l \in Locks, RenewRenames(l) PROVE LockTypeOK'
    BY <1>11 DEF RenewRenames
  <1>12. ASSUME NEW l \in Locks, ReleaseInspects(l) PROVE LockTypeOK'
    BY <1>12 DEF ReleaseInspects
  <1>13. ASSUME NEW l \in Locks, ReleaseRemoves(l) PROVE LockTypeOK'
    BY <1>13 DEF ReleaseRemoves
  <1>14. ASSUME NEW l \in Locks, AcquireFails(l) PROVE LockTypeOK'
    BY <1>14 DEF AcquireFails
  <1>15. ASSUME NEW l \in Locks, AcquireDropped(l) PROVE LockTypeOK'
    <2> HIDE DEF WatchOf, LeftWatch
    <2> QED BY <1>15, WatchNames DEF AcquireDropped
  <1>16. ASSUME NEW p \in Pids, Die(p) PROVE LockTypeOK'
    BY <1>16 DEF Die
  <1>17. CASE UNCHANGED lockVars
    BY <1>17 DEF lockVars
  <1> QED
    BY <1>1, <1>2, <1>3, <1>4, <1>5, <1>6, <1>7, <1>8, <1>9,
       <1>10, <1>11, <1>12, <1>13, <1>14, <1>15, <1>16, <1>17 DEF LockStep, AcquireStep

(***************************************************************************)
(* The lock file is well formed and, on Unix, every contender that is      *)
(* alive has its watch in place (acquire writes it first and removes it    *)
(* last, and reap_dead_watches spares it).                                 *)
(***************************************************************************)
THEOREM LockTypeCorrect == LockSpec => []LockTypeOK
  BY LockTypesInit, LockTypesStep, PTL DEF LockSpec

-----------------------------------------------------------------------------
(***************************************************************************)
(* NobodyLockedOut: whoever is named by the file and alive put its name    *)
(* there last, and has either got the lock, still contends for it or has   *)
(* left it there.                                                          *)
(***************************************************************************)
NamedIsBusy ==
    OwnerAlive /\ owner \notin left =>
        \E l \in Locks : Mine(l) /\ (l \in held \/ lockPc[l] \in {"settle", "scan"})

LockedOutInv == LockTypeOK /\ NamedIsBusy

LEMMA NamedIsBusyInit == LockInit => NamedIsBusy
  BY PidType DEF LockInit, NamedIsBusy, OwnerAlive, Stale, NoFile

LEMMA NamedIsBusyStep == LockTypeOK /\ NamedIsBusy /\ [LockStep]_lockVars => NamedIsBusy'
  <1> SUFFICES ASSUME LockTypeOK, NamedIsBusy, [LockStep]_lockVars PROVE NamedIsBusy'
    OBVIOUS
  <1> USE PidType DEF LockTypeOK, NamedIsBusy, OwnerAlive, Mine, At, Goto, Alive
  <1>1. ASSUME NEW l \in Locks, Watch(l) PROVE NamedIsBusy'
    BY <1>1 DEF Watch
  <1>2. ASSUME NEW l \in Locks, ReapDeadWatches(l) PROVE NamedIsBusy'
    BY <1>2 DEF ReapDeadWatches
  <1>3. ASSUME NEW l \in Locks, TryCreate(l) PROVE NamedIsBusy'
    BY <1>3 DEF TryCreate
  <1>4. ASSUME NEW l \in Locks, Inspect(l) PROVE NamedIsBusy'
    BY <1>4 DEF Inspect
  <1>5. ASSUME NEW l \in Locks, InspectGate(l) PROVE NamedIsBusy'
    BY <1>5 DEF InspectGate
  <1>6. ASSUME NEW l \in Locks, RenameBid(l) PROVE NamedIsBusy'
    BY <1>6 DEF RenameBid
  <1>7. ASSUME NEW l \in Locks, SettleInspect(l) PROVE NamedIsBusy'
    BY <1>7 DEF SettleInspect
  <1>8. ASSUME NEW l \in Locks, SettleScan(l) PROVE NamedIsBusy'
    BY <1>8 DEF SettleScan
  <1>9. ASSUME NEW l \in Locks, RemoveWatch(l) PROVE NamedIsBusy'
    BY <1>9 DEF RemoveWatch
  <1>10. ASSUME NEW l \in Locks, RenewBegins(l) PROVE NamedIsBusy'
    BY <1>10 DEF RenewBegins
  <1>11. ASSUME NEW l \in Locks, RenewRenames(l) PROVE NamedIsBusy'
    BY <1>11 DEF RenewRenames
  <1>12. ASSUME NEW l \in Locks, ReleaseInspects(l) PROVE NamedIsBusy'
    BY <1>12 DEF ReleaseInspects
  <1>13. ASSUME NEW l \in Locks, ReleaseRemoves(l) PROVE NamedIsBusy'
    BY <1>13 DEF ReleaseRemoves, NoFile
  <1>14. ASSUME NEW l \in Locks, AcquireFails(l) PROVE NamedIsBusy'
    BY <1>14 DEF AcquireFails
  <1>15. ASSUME NEW l \in Locks, AcquireDropped(l) PROVE NamedIsBusy'
    BY <1>15 DEF AcquireDropped
  <1>16. ASSUME NEW p \in Pids, Die(p) PROVE NamedIsBusy'
    BY <1>16 DEF Die
  <1>17. CASE UNCHANGED lockVars
    BY <1>17 DEF lockVars
  <1> QED
    BY <1>1, <1>2, <1>3, <1>4, <1>5, <1>6, <1>7, <1>8, <1>9,
       <1>10, <1>11, <1>12, <1>13, <1>14, <1>15, <1>16, <1>17 DEF LockStep, AcquireStep

(***************************************************************************)
(* No living process is named by the file without holding the lock or      *)
(* being on its way to it, whatever contenders die, lose or replace each   *)
(* other, on every platform and also when several lock files share a       *)
(* process, unless the code has left its name there: an acquire that       *)
(* failed or was dropped behind its rename, a release_sync that could not  *)
(* remove the file, or a renew that outlived its hold.                     *)
(***************************************************************************)
THEOREM NobodyIsLockedOut == LockSpec => []NobodyLockedOut
  <1>1. LockInit => LockedOutInv
    BY LockTypesInit, NamedIsBusyInit DEF LockedOutInv
  <1>2. LockedOutInv /\ [LockStep]_lockVars => LockedOutInv'
    BY LockTypesStep, NamedIsBusyStep DEF LockedOutInv
  <1>3. LockedOutInv => NobodyLockedOut
    BY DEF LockedOutInv, NamedIsBusy, NobodyLockedOut
  <1> QED BY <1>1, <1>2, <1>3, PTL DEF LockSpec

-----------------------------------------------------------------------------
(***************************************************************************)
(* HolderOwnsFile, on Unix and as long as nothing has outrun the protocol. *)
(***************************************************************************)
\* Whoever holds the lock is named by the file, and the only one.
HoldersNamed == \A l \in Holders : Mine(l) /\ \A m \in Holders : m = l

\* release goes on to remove the file only while it holds the lock.
RemoversHold == \A l \in Locks : At(l, "remove") => l \in held

\* While a bid is on its way there is a file, and nobody holds the lock: the
\* gate has seen a dead owner, and the bidder's watch keeps the others back.
BidsExclude == \A l \in Locks : Bidding(l) => owner # NoFile /\ Holders = {}

\* No two of them are of one process.
BiddersApart == \A l, m \in Locks : Bidding(l) /\ Bidding(m) /\ Pid(l) = Pid(m) => l = m

\* Who has seen its own name is still named, or somebody alive has replaced the
\* file, and is not done or has left its watch.
Replacing(m) == Mine(m) /\ (At(m, "settle") \/ At(m, "scan"))

SeenOrReplaced ==
    \A l \in Locks : At(l, "scan") =>
        Mine(l) \/ (OwnerAlive /\ (<<owner, 0>> \in watches \/ \E m \in Locks : Replacing(m)))

Exclusion == HoldersNamed /\ RemoversHold /\ BidsExclude /\ BiddersApart /\ SeenOrReplaced

HolderInv ==
    /\ LockTypeOK
    /\ Unix /\ outrun = {} => Exclusion

LEMMA HolderInit == LockInit => HolderInv
  BY LockTypesInit DEF LockInit, HolderInv, Exclusion, Holders, HoldersNamed, RemoversHold, BidsExclude,
                       BiddersApart, Bidding, SeenOrReplaced, At

LEMMA HolderStep == HolderInv /\ [LockStep]_lockVars => HolderInv'
  <1> SUFFICES ASSUME HolderInv, [LockStep]_lockVars, Unix, outrun' = {} PROVE Exclusion'
    BY LockTypesStep DEF HolderInv
  <1>0. LockTypeOK /\ LockTypeOK'
    BY LockTypesStep DEF HolderInv
  <1>a. outrun = {} => Exclusion
    BY DEF HolderInv
  <1>b. /\ \A l \in Locks : Pid(l) \in Pids
        /\ NoFile \notin Pids /\ Stale \notin Pids
    BY PidType DEF NoFile, Stale
  <1> USE <1>0, <1>a, <1>b DEF LockTypeOK, Exclusion, Holders, HoldersNamed, RemoversHold, BidsExclude, BiddersApart,
          Bidding, SeenOrReplaced, Replacing, At, Goto, Alive, Mine, OwnerAlive
  <1>1. ASSUME NEW l \in Locks, Watch(l) PROVE Exclusion'
    BY <1>1 DEF Watch
  <1>2. ASSUME NEW l \in Locks, ReapDeadWatches(l) PROVE Exclusion'
    BY <1>2 DEF ReapDeadWatches, pid_alive, DeadWatches
  <1>3. ASSUME NEW l \in Locks, TryCreate(l) PROVE Exclusion'
    BY <1>3 DEF TryCreate
  <1>4. ASSUME NEW l \in Locks, Inspect(l) PROVE Exclusion'
    BY <1>4 DEF Inspect
  <1>5. ASSUME NEW l \in Locks, InspectGate(l) PROVE Exclusion'
    BY <1>5 DEF InspectGate, pid_alive
  <1>6. ASSUME NEW l \in Locks, RenameBid(l) PROVE Exclusion'
    BY <1>6 DEF RenameBid
  <1>7. ASSUME NEW l \in Locks, SettleInspect(l) PROVE Exclusion'
    BY <1>7 DEF SettleInspect
  <1>8. ASSUME NEW l \in Locks, SettleScan(l) PROVE Exclusion'
    <2>1. CASE LiveWatches(l) # {} /\ Goto(l, "settle") /\ UNCHANGED <<watches, held>>
      BY <1>8, <2>1 DEF SettleScan
    <2>2. CASE /\ LiveWatches(l) = {}
               /\ watches' = watches \ DeadWatches(l)
               /\ held' = held \cup {l} /\ Goto(l, "leave")
      <3>1. \A w \in watches : w[1] = Pid(l) \/ w[1] \notin living
        BY <2>2 DEF LiveWatches, pid_alive
      <3>2. \A m \in Locks : Bidding(m) => m = l
        <4>1. SUFFICES ASSUME NEW m \in Locks, Bidding(m) PROVE m = l
          OBVIOUS
        <4>2. WatchOf(m) \in watches /\ WatchOf(m)[1] \in living
          BY <4>1, WatchNames
        <4> QED BY <3>1, <4>1, <4>2, <1>8, WatchNames DEF SettleScan
      <3>3. Mine(l)
        <4>1. SUFFICES ASSUME ~Mine(l) PROVE FALSE
          OBVIOUS
        <4>2. OwnerAlive /\ (<<owner, 0>> \in watches \/ \E m \in Locks : Replacing(m))
          BY <4>1, <1>8 DEF SettleScan
        <4>3. <<owner, 0>> \notin watches
          BY <3>1, <4>1, <4>2
        <4> QED BY <3>2, <4>1, <4>2, <4>3
      <3> QED BY <1>8, <2>2, <3>2, <3>3 DEF SettleScan
    <2> QED BY <1>8, <2>1, <2>2 DEF SettleScan
  <1>9. ASSUME NEW l \in Locks, RemoveWatch(l) PROVE Exclusion'
    <2>1. owner \in Pids /\ <<owner, 0>> \in watches => <<owner, 0>> \in watches'
      BY <1>9, WatchNames DEF RemoveWatch
    <2> QED BY <1>9, <2>1 DEF RemoveWatch
  <1>10. ASSUME NEW l \in Locks, RenewBegins(l) PROVE Exclusion'
    BY <1>10 DEF RenewBegins
  <1>11. ASSUME NEW l \in Locks, RenewRenames(l) PROVE Exclusion'
    BY <1>11 DEF RenewRenames
  <1>12. ASSUME NEW l \in Locks, ReleaseInspects(l) PROVE Exclusion'
    BY <1>12 DEF ReleaseInspects
  <1>13. ASSUME NEW l \in Locks, ReleaseRemoves(l) PROVE Exclusion'
    BY <1>13 DEF ReleaseRemoves
  <1>14. ASSUME NEW l \in Locks, AcquireFails(l) PROVE Exclusion'
    BY <1>14 DEF AcquireFails, BetweenLooks
  <1>15. ASSUME NEW l \in Locks, AcquireDropped(l) PROVE Exclusion'
    BY <1>15 DEF AcquireDropped, WatchOf, LeftWatch
  <1>16. ASSUME NEW p \in Pids, Die(p) PROVE Exclusion'
    BY <1>16 DEF Die
  <1>17. CASE UNCHANGED lockVars
    BY <1>17 DEF lockVars
  <1> QED
    BY <1>1, <1>2, <1>3, <1>4, <1>5, <1>6, <1>7, <1>8, <1>9,
       <1>10, <1>11, <1>12, <1>13, <1>14, <1>15, <1>16, <1>17 DEF LockStep, AcquireStep

(***************************************************************************)
(* The lock is exclusive on Unix: whoever holds it is the one the file     *)
(* names, and the only one, for any number of contenders, in any number of *)
(* processes, that take over a dead owner's file together and die, fail or *)
(* are dropped on the way, unless one that has replaced the file dies or   *)
(* fails between the winner's two looks, a renew outlives its hold, or two *)
(* lock files of one process pass the gate together (outrun).              *)
(***************************************************************************)
THEOREM LockIsExclusive == LockSpec => []HolderOwnsFile
  <1>1. LockInit => HolderInv
    BY HolderInit
  <1>2. HolderInv /\ [LockStep]_lockVars => HolderInv'
    BY HolderStep
  <1>3. HolderInv => HolderOwnsFile
    BY DEF HolderInv, Exclusion, HolderOwnsFile, HoldersNamed, Holders
  <1> QED BY <1>1, <1>2, <1>3, PTL DEF LockSpec
=============================================================================
